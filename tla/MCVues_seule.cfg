SPECIFICATION FairSpecVues
CONSTANTS
  a = a
  b = b
  Vues = {a}
  Lecteurs = {a}
  Ids = {c1, c2}
  Cles = {1, 2}
  Copies = {}
  Avance <- MCAvance
  Refusables = {c2}
  Retention = 1
  DateMax = 9
  DateLocaleMax = 1
  SeqMax = 6
  PannesMax = 1
  Rien = Rien
PROPERTIES
  SuppressionAboutit
  ToutPart
CHECK_DEADLOCK FALSE
