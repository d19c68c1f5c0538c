SPECIFICATION FairSpec
CONSTANTS
  petit = petit
  grand = grand
  geant = geant
  Objets = {o1, o2}
  Pieces = {p1}
  Appareils = {a1}
  Clairs = {petit, grand, geant}
  Taille <- MCTaille
  TaillePiece = 1
  Rien = Rien
  ObjetMax = 3
  ObjetsMax = 2
  PiecesMax = 1
  PageMax = 1
  LotMax = 2
  ConflitsMax = 2
  Quota = 3
  Retenue = 1
  SeqMax = 3
  JourMax = 2
  EpoqueMax = 2
  IncarnationMax = 2
INVARIANTS
  TypeOK
  CurseurComplet
  EpoquesOrdonnees
  OctetsExacts
  QuotaTenu
PROPERTIES PieceReclameeGardee Implante Rattrapage
