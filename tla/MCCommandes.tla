------------------------------ MODULE MCCommandes ------------------------------
EXTENDS CommandesMaillage
CONSTANTS c1, c2, r1
MemeIdee == [c \in Commandes |-> c1]
ChacuneLaSienne == [c \in Commandes |-> c]
===============================================================================
