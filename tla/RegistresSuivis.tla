---------------------------- MODULE RegistresSuivis ----------------------------
(***************************************************************************)
(* What the synchronisation server promises its devices, whatever happens  *)
(* between its transactions and to its pages: registers that change a      *)
(* whole batch at a time, and a feed each device follows from a position   *)
(* of its own without missing anything.  There is no transaction here, no  *)
(* page, no lost answer, no byte.  SyncServer implements it.               *)
(***************************************************************************)
EXTENDS Naturals

CONSTANTS Objets, Appareils

VARIABLES
  seq, incarnation,
  rev, date,       \* of each object: its revision, and the seq of its last write
  position, connu  \* of each device: where it is in the feed, what it believes

vars == <<seq, incarnation, rev, date, position, connu>>

Nuls == [o \in Objets |-> 0]

Init ==
  /\ seq = 0 /\ incarnation = 1
  /\ rev = Nuls /\ date = Nuls
  /\ position = [a \in Appareils |-> 0] /\ connu = [a \in Appareils |-> Nuls]

\* A device writes the objects W, all of them at once, each at a new revision
\* under a date of its own; it learns what W became, perhaps other revisions
\* too, or nothing.
Ecrire(a) ==
  \E W, K \in SUBSET Objets :
    /\ seq' \in Nat /\ seq' >= seq
    /\ \A o \in W : /\ rev'[o] > rev[o] /\ date'[o] \in (seq + 1) .. seq'
                    /\ \A p \in W : date'[p] = date'[o] => p = o
    /\ \A o \in Objets \ W : rev'[o] = rev[o] /\ date'[o] = date[o]
    /\ W \subseteq K \/ K = {}
    /\ connu' = [connu EXCEPT ![a] = [o \in Objets |-> IF o \in K THEN rev'[o] ELSE @[o]]]
    /\ UNCHANGED <<incarnation, position>>

\* Something the feed does not carry takes a seq.
Sauter == seq' = seq + 1 /\ UNCHANGED <<incarnation, rev, date, position, connu>>

\* A device advances in the feed: it then knows all that was written last up
\* to there, and believes nothing the registers have not reached.
Suivre(a) ==
  /\ \E j \in position[a] .. seq :
       /\ position' = [position EXCEPT ![a] = j]
       /\ \A o \in Objets : /\ date[o] <= j => connu'[a][o] = rev[o]
                            /\ connu'[a][o] <= rev[o]
  /\ connu' = [connu EXCEPT ![a] = connu'[a]]
  /\ UNCHANGED <<seq, incarnation, rev, date>>

\* Everything is forgotten, by the devices too, but the seq.
Effacer ==
  /\ incarnation' = incarnation + 1
  /\ rev' = Nuls /\ date' = Nuls
  /\ position' = [a \in Appareils |-> 0] /\ connu' = [a \in Appareils |-> Nuls]
  /\ UNCHANGED seq

Next ==
  \/ \E a \in Appareils : Ecrire(a) \/ Suivre(a)
  \/ Sauter \/ Effacer

Spec == Init /\ [][Next]_vars

================================================================================
