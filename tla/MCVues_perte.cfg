SPECIFICATION SpecVues
CONSTANTS
  a = a
  b = b
  Vues = {a, b}
  Lecteurs = {a, b}
  Ids = {c1}
  Cles = {1, 2, 3}
  Copies = {}
  Avance <- MCAvance
  Refusables = {}
  Retention = 1
  DateMax = 9
  DateLocaleMax = 0
  SeqMax = 3
  PannesMax = 0
  Rien = Rien
INVARIANTS
  RienNeSePerd
CHECK_DEADLOCK FALSE
