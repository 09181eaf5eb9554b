CONSTANTS
  a = a
  b = b
  Path <- MCPath
  Tmp = tmp
  Cloud = cloud
  MaxUser = 2
  MaxForeign = 1
  MaxRestarts = 1
SPECIFICATION Spec
CONSTRAINT Bounded
SYMMETRY Symmetry
INVARIANTS
  TypeOK
  Converges
  AbortsOnlyOnRaces
PROPERTY NoEcho
