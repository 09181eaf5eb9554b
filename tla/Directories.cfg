CONSTANTS
  c1 = c1  c2 = c2  d = d  e = e  f = f
  Local = Local
  Cloud <- Clouds
  Name <- Names
  Path <- Tree
  MaxMade = 3
  MaxRestarts = 1
SPECIFICATION DirFairSpec
INVARIANTS DirTypeOK RowsAndLinksReal ThrowsOnlyOnStrangers
PROPERTIES PathComplete ReachesAllStorages
