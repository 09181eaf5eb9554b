CONSTANTS
  c1 = c1  c2 = c2  p = p  q = q
  Local = Local  None = None
  Cloud <- Clouds
  Astray = {c2}
  Path <- Paths
  LastTime = 3
  Beginning <- Beginnings
SPECIFICATION Spec
INVARIANTS TypeOK NewestKept Converged AbortsOnlyAfterFailure
PROPERTIES OnlyOlderReplaced
