------------------------- MODULE MCConversationsStore -------------------------
EXTENDS ConversationsStore

Version(k) == [longueur |-> 1, champs |-> 1, texte |-> k, reste |-> 0]

CopieDe(d, ks) ==
  [title |-> 0, createdAt |-> 0, updatedAt |-> d, model |-> 0,
   pinned |-> FALSE, messages |-> [k \in Cles |-> IF k \in ks THEN Version(k) ELSE Rien]]

MCCopies == {CopieDe(d, {1}) : d \in {1, DateMax}}

MCDeuxVues == {CopieDe(d, {k}) : d \in {1, DateMax}, k \in {1, 2}}
=============================================================================
