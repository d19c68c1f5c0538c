SPECIFICATION Spec
CONSTANTS
  a1 = a1
  a2 = a2
  m1 = m1
  m2 = m2
  Rien = Rien
  Appareils = {a1, a2}
  Mdps = {m1, m2}
  VersionMax = 3
  IncarnationMax = 3
  JetonsMax = 8
  ClesMax = 2
  Familles <- MoteurEtGestes
  PannesMax = 0
PROPERTIES SessionVivanteGardee
CHECK_DEADLOCK FALSE
