------------------------ MODULE FusionConversations ------------------------
(***************************************************************************)
(* The join of two copies of a chat conversation: fusionner_conversations  *)
(* of server/conversations_store.py, which convSync.ts repeats word for    *)
(* word.                                                                   *)
(*                                                                         *)
(* A conversation maps the identity of each message to the one version of  *)
(* it that the copy holds, or to Rien.                                     *)
(* Of a version only what the join compares is kept (the length of the     *)
(* text, the number of fields, the rank of the text among those of its     *)
(* length), and `reste' for everything it does not compare.  The order of  *)
(* the list is a function of the messages and is left out.                 *)
(***************************************************************************)
EXTENDS Integers, FiniteSets

CONSTANTS
  Cles,  \* identities of messages
  Rien   \* no value (SQL NULL, None, undefined)

Versions == [longueur : Nat, champs : Nat, texte : Nat, reste : Nat]

Conversations ==
  [title : Nat, createdAt : Nat, updatedAt : Nat, model : Nat,
   pinned : BOOLEAN, messages : [Cles -> Versions \cup {Rien}]]

ASSUME RienIsNoVersion == Rien \notin Versions

\* The identities c has a message for.
Presents(c) == {k \in Cles : c.messages[k] # Rien}

\* s comes first or ties in the lexicographic order: a greater number wins at
\* the first place where they differ.
AuMoins(s, t) ==
  \A i \in DOMAIN s : s[i] < t[i] => \E j \in 1..(i - 1) : s[j] > t[j]

Completude(m) == <<m.longueur, m.champs, m.texte>>

\* The first of two texts of one length, instead of the greater.
MutMeilleur(m, n) ==
  IF AuMoins(<<m.longueur, m.champs>>, <<n.longueur, n.champs>>) THEN m ELSE n

Meilleur(m, n) == IF AuMoins(Completude(m), Completude(n)) THEN m ELSE n

\* The copy with the fewer messages, on equal dates.
MutRang(c) == <<c.updatedAt, -Cardinality(Presents(c)), c.title,
                IF c.pinned THEN 1 ELSE 0, c.model>>

Rang(c) == <<c.updatedAt, Cardinality(Presents(c)), c.title,
             IF c.pinned THEN 1 ELSE 0, c.model>>

Prime(a, b) == AuMoins(Rang(a), Rang(b))

\* The last writer's version of a message, whatever the other holds.
MutFusionnerMessages(a, b) ==
  [k \in Cles |-> IF a[k] # Rien THEN a[k] ELSE b[k]]

FusionnerMessages(a, b) ==
  [k \in Cles |-> IF a[k] = Rien THEN b[k]
                  ELSE IF b[k] = Rien THEN a[k]
                  ELSE Meilleur(a[k], b[k])]

\* The winner gives the metadata, and its messages come first.
Fusion(a, b) ==
  LET g == IF Prime(a, b) THEN a ELSE b
      p == IF Prime(a, b) THEN b ELSE a
  IN  [title     |-> g.title,
       createdAt |-> IF a.createdAt <= b.createdAt THEN a.createdAt
                                                   ELSE b.createdAt,
       updatedAt |-> IF a.updatedAt >= b.updatedAt THEN a.updatedAt
                                                   ELSE b.updatedAt,
       model     |-> g.model,
       pinned    |-> g.pinned,
       messages  |-> FusionnerMessages(g.messages, p.messages)]

\* Joined with no copy, a copy is taken as it is.
Adopter(mienne, autre) ==
  IF mienne = Rien THEN autre ELSE Fusion(mienne, autre)

=============================================================================
