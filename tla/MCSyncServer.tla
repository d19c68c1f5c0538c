---------------------------- MODULE MCSyncServer ----------------------------
(* Small instances of SyncServer for TLC.                                  *)
EXTENDS SyncServer, TLC

CONSTANTS petit, grand, geant

Symetrie == Permutations(Appareils) \cup Permutations(Objets)

\* Sizes of one, two and (beyond ObjetMax) four units.
MCTaille ==
  [c \in Clairs |-> CASE c = petit -> 1 [] c = grand -> 2 [] c = geant -> 4]

=============================================================================
