SPECIFICATION Spec
CONSTANTS
  d1 = d1
  d2 = d2
  x = x
  k1 = k1
  Rien = Rien
  Appareils = {d1, d2}
  Ids = {x}
  Images = {k1}
  EpoqueMax = 2
  Retenue = 1
  Cadence = 1
  JourMax = 2
  EvenementsMax = 2
SYMMETRY Permutees
INVARIANTS ImageReferencee ImageSuivie 
 
