CONSTANTS
  f = f
  g = g
  d = d
  Kinds = {"google", "dropbox"}
  File <- MCFile
  Folder <- MCFolder
  NameOf <- MCNameOf
  Home = home
  Elsewhere = elsewhere
  Cloud = cloud
  PageSize = 2
  MaxForeign = 2
  MaxOwn = 1
  MaxRestarts = 1
SPECIFICATION Spec
CONSTRAINT Bounded
SYMMETRY Symmetry
INVARIANTS
  TypeOK
  MirrorsCloud
  ThrowsOnlyOnRaces
PROPERTY NoEcho
