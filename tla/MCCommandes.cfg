SPECIFICATION FairSpec
CONSTANTS
  c1 = c1
  c2 = c2
  Rien = Rien
  Commandes = {c1, c2}
  Intention <- MemeIdee
  EnLigne = {c2}
  Essais = {r1}
  r1 = r1
  DureeCourte = 1
  DureeLongue = 1
  Derive = 0
  Retention = 0
  DateMax = 2
  PannesMax = 1
INVARIANTS TypeOK JamaisFaux UneSeuleFois
PROPERTIES VerdictTenu ToutSeRegle
CHECK_DEADLOCK FALSE
