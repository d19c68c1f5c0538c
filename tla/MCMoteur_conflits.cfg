SPECIFICATION SpecDeuxDeparts
CONSTANTS
  d1 = d1
  d2 = d2
  x = x
  y = y
  m1 = m1
  m2 = m2
  m3 = m3
  Rien = Rien
  Appareils = {d1, d2}
  Ids = {x}
  Messages = {m1, m2, m3}
  Avance <- MemeHeure
  PageMax = 1
  RejeuxMax = 1
  Retention = 9
  Absence = 0
  DateMax = 0
  PannesMax = 2
  ActesMax = 3
  RestaurationsMax = 0
SYMMETRY Permutees
INVARIANTS RienOublie ConnuExact SynchroniseVrai
PROPERTIES SansEcrasement
CHECK_DEADLOCK FALSE
