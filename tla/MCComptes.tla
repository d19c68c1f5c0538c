------------------------------- MODULE MCComptes -------------------------------
EXTENDS ComptesCoffre, TLC
CONSTANTS a1, a2, m1, m2
Symetrie == Permutations(Appareils) \cup Permutations(Mdps)

Rotations == {"changer", "code", "confirmerCle", "connecter"}
Retraits == {"deconnecterAppareil", "retirer", "confirmerCle", "connecter"}
Recuperations ==
  {"recuperer", "recupererRemplacer", "confirmerCle", "changer", "verrouiller"}
Effacements == {"reinitDemander", "reinitConfirmer", "reinitTerminer", "absence"}
Annulations ==
  {"reinitDemander", "reinitConfirmer", "reinitAnnuler", "reinitTerminer", "connecter"}
Synchros == {"changer", "connecter", "synchroniser", "verrouiller", "deconnecter"}

AuPlus(n, f) == [gestes |-> f, combien |-> n]
LesFamilles ==
  {AuPlus(3, f) : f \in {Rotations, Recuperations, Synchros}}
    \cup {AuPlus(4, f) : f \in {Retraits, Effacements, Annulations}}
MoteurEtGestes == {AuPlus(2, Synchros)}
===============================================================================
