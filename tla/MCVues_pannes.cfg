SPECIFICATION SpecVues
CONSTANTS
  a = a
  b = b
  Vues = {a, b}
  Lecteurs = {a, b}
  Ids = {c1}
  Cles = {1, 2}
  Copies = {}
  Avance <- MCAvanceB
  Refusables = {}
  Retention = 1
  DateMax = 9
  DateLocaleMax = 0
  SeqMax = 2
  PannesMax = 1
  Rien = Rien
INVARIANTS
  CondamneeAbsente
  VivantesVues
PROPERTIES
  SuppressionTenue
CHECK_DEADLOCK FALSE
