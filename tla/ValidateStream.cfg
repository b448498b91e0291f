\* Two workers, up to three sources and four documents, cancelled at any moment.
CONSTANTS
  w1 = w1
  w2 = w2
  a = a
  b = b
  c = c
  Worker = {w1, w2}
  Label = {a, b, c}
  Inputs <- MCInputs
  MayCancel = TRUE
SPECIFICATION FairSpec
INVARIANTS
  StreamTypeOK
  WaitGroupBalance
  NoSendOnClosed
  SentinelLast
  ExactlyOnce
PROPERTY Termination
