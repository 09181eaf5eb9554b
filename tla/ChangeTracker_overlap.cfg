CONSTANTS
  c1 = c1  c2 = c2  c3 = c3  c4 = c4  c5 = c5  d = d  p = p  q = q  r = r  dir = dir
  None = None
  Change <- Changes
  Path <- Paths
  PathOf <- Target
  Chain <- Chains
  Directory <- Directories
  Needs <- Lack
  Dir <- Dirs
  Arrival <- Order
  MayFail <- Nobody
SPECIFICATION Spec
INVARIANTS OneChangePerPath
