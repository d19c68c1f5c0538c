------------------------ MODULE PorteursConversations ------------------------
(***************************************************************************)
(* The holders of copies of one conversation, the local store and the      *)
(* views, joining what reaches them: a copy that is pushed to a holder     *)
(* (Pousser) and the copy another one holds (Tirer).  Nothing but the join *)
(* is modelled here; ConversationsStore and VuesConversations add the      *)
(* numbers, the tombstones and the requests.                               *)
(***************************************************************************)
EXTENDS FusionConversations

CONSTANTS
  Porteurs,  \* the holders of a copy
  Copies,    \* the copies that may be pushed
  CopiesMax  \* bound: how many different copies are pushed

\* A copy is a conversation and has finitely many messages: the code keeps
\* them in a list.
ASSUME CopiesAreFinite ==
  Copies \subseteq {c \in Conversations : IsFiniteSet(Presents(c))}
ASSUME RienIsNoConversation == Rien \notin Conversations

VARIABLES
  copie,  \* copie[p]: what p holds
  recues  \* recues[p]: the pushed copies that reached p (history)

vars == <<copie, recues>>

-----------------------------------------------------------------------------
Init ==
  /\ copie  = [p \in Porteurs |-> Rien]
  /\ recues = [p \in Porteurs |-> {}]

EnCirculation == UNION {recues[p] : p \in Porteurs}

\* upsert on a live or unknown conversation.
Pousser(p, c) ==
  /\ c \in EnCirculation \/ Cardinality(EnCirculation) < CopiesMax
  /\ copie'  = [copie  EXCEPT ![p] = Adopter(@, c)]
  /\ recues' = [recues EXCEPT ![p] = @ \cup {c}]

\* fusionner of convSync.ts, on what p reads at q.
Tirer(p, q) ==
  /\ copie[q] # Rien
  /\ copie'  = [copie  EXCEPT ![p] = Adopter(@, copie[q])]
  /\ recues' = [recues EXCEPT ![p] = @ \cup recues[q]]

Next ==
  \/ \E p \in Porteurs, c \in Copies : Pousser(p, c)
  \/ \E p \in Porteurs : \E q \in Porteurs \ {p} : Tirer(p, q)

Spec == Init /\ [][Next]_vars

-----------------------------------------------------------------------------
Portant == {p \in Porteurs : copie[p] # Rien}

\* A holder has every message of every copy that reached it, in a version that
\* was written and that no other version it received is more complete than,
\* whatever was pushed, pulled and pulled back in between: a partial answer
\* never truncates the final one.
RienDeTronque ==
  \A p \in Portant :
    \A k \in Cles :
      LET v == copie[p].messages[k]
          versions == {c.messages[k] : c \in recues[p]} \ {Rien}
      IN  IF versions = {} THEN v = Rien
          ELSE v \in versions /\
               \A w \in versions : AuMoins(Completude(v), Completude(w))

\* A copy that already reached a holder changes nothing when it comes again,
\* however many others were joined since: a repeated push consumes no number
\* and wakes no view, so two holders never answer each other for ever.
RedonnerSansEffet ==
  \A p \in Portant : \A c \in recues[p] : Fusion(copie[p], c) = copie[p]

\* The dates, messages and texts of two holders that received the same copies
\* are the same, whatever the order the copies came in.
MemesMessages ==
  \A p, q \in Portant : recues[p] = recues[q] =>
    LET a == copie[p]
        b == copie[q]
    IN  /\ a.updatedAt = b.updatedAt /\ a.createdAt = b.createdAt
        /\ Presents(a) = Presents(b)
        /\ \A k \in Presents(a) :
             Completude(a.messages[k]) = Completude(b.messages[k])

\* The rest of what the module's documentation claims: whatever the order of
\* the pushes, every view converges to the same result, title included.
MemeResultat ==
  \A p, q \in Portant : recues[p] = recues[q] =>
    copie[p].title = copie[q].title
=============================================================================
