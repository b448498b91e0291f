\* All reference graphs over three directories, and mixed trees.
CONSTANTS
  p = p
  q = q
  r = r
  pk = pk
  qk = qk
  rk = rk
  px = px
  qy = qy
  Dir = {p, q, r}
  File = {pk, qk, rk, px, qy}
  Trees <- MCTrees
SPECIFICATION FairSpec
INVARIANTS
  InventoryTypeOK
  ClassifiedByReachability
  CensusIsComplete
PROPERTY ScanEnds
