SPECIFICATION Spec
CONSTANTS
  Ids = {c1, c2}
  Cles = {1, 2}
  Copies <- MCDeuxVues
  Lecteurs = {v1}
  Retention = 0
  DateMax = 2
  DateLocaleMax = 2
  SeqMax = 3
  Rien = Rien
INVARIANTS
  TypeOK
  SelonLesDates
  LecteurComplet
PROPERTIES
  PurgeSure
CHECK_DEADLOCK FALSE
