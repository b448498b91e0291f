\* Fail-fast over one long source of invalid documents, one worker.
CONSTANTS
  w1 = w1
  w2 = w2
  fa = fa
  fb = fb
  fc = fc
  NoLabel = NoLabel
  Worker = {w1}
  Label = {fa, fb, fc, NoLabel}
  Inputs <- LongInput
  FailFast = TRUE
SPECIFICATION FairSpec
INVARIANT FailFastStopsSoon
