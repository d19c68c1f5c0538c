SPECIFICATION Spec
CONSTANTS
  Porteurs = {p, q}
  Copies <- MCCopies
  CopiesMax = 3
  Cles = {1, 2}
  Rien = Rien
INVARIANTS
  RienDeTronque
  RedonnerSansEffet
  MemesMessages
CHECK_DEADLOCK FALSE
