SPECIFICATION FairSpecPartagee
CONSTANTS
  d1 = d1
  d2 = d2
  x = x
  y = y
  m1 = m1
  m2 = m2
  m3 = m3
  Rien = Rien
  Appareils = {d1, d2}
  Ids = {x}
  Messages = {m1}
  Avance <- UneEnAvance
  PageMax = 1
  RejeuxMax = 1
  Retention = 0
  Absence = 0
  DateMax = 1
  PannesMax = 0
  ActesMax = 9
  RestaurationsMax = 1
PROPERTIES Convergence
INVARIANTS RienNeManque SuppressionDefendue
CHECK_DEADLOCK FALSE
