------------------------------- MODULE MCMoteur -------------------------------
EXTENDS MoteurSynchro, TLC
CONSTANTS d1, d2, x, y, m1, m2, m3
MemeHeure == [d \in Appareils |-> 0]
UneEnAvance == [d \in Appareils |-> IF d = d1 THEN 1 ELSE 0]
\* Identifiers and messages are only compared; devices too when no clock is
\* ahead.
Noms == Permutations(Ids) \cup Permutations(Messages \ {m1})
Permutees == Noms \cup Permutations(Appareils)

\* The conversation x is already on both devices and on the server, whose only
\* copy dates from before it.
Partagee == [i \in Ids |-> IF i = x THEN Vivante(0, {m1}) ELSE Rien]
SpecPartagee == Depart(Partagee, Messages \ {m1}) /\ [][Next]_vars

\* The same, or it is still to be created, with one message less to write.
SpecDeuxDeparts ==
  /\ \E c \in {Aucun, Partagee} : Depart(c, Messages \ {m1})
  /\ [][Next]_vars

\* The cycles of both devices go on (servir), as in FairSpec.
FairSpecPartagee == SpecPartagee /\ \A d \in Appareils : WF_vars(Etape(d))
===============================================================================
