\* Two workers, two Resolve calls each, three locations of which two are one file.
CONSTANTS
  w1 = w1
  w2 = w2
  x = x
  y = y
  z = z
  u1 = u1
  u2 = u2
  good = good
  bad = bad
  Worker = {w1, w2}
  Location = {x, y, z}
  Doc = {good, bad}
  Uri = {u1, u2}
  Compilable = {good}
  UriOf <- MCUriOf
  Plans <- MCPlans
  Unrenderable = Unrenderable
  NoEntry = NoEntry
  NoDoc = NoDoc
  NoOne = NoOne
  MaxCalls = 2
SPECIFICATION FairSpec
INVARIANTS
  LoaderTypeOK
  FetchedOnce
  AliasesAgree
PROPERTIES
  ImplementsStore
  EveryCallReturns
