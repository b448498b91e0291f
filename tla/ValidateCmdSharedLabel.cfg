\* The same file named twice on the command line.
CONSTANTS
  w1 = w1
  w2 = w2
  fa = fa
  fb = fb
  fc = fc
  NoLabel = NoLabel
  Worker = {w1, w2}
  Label = {fa, fb, fc, NoLabel}
  Inputs <- SharedLabelInputs
  FailFast = FALSE
SPECIFICATION FairSpec
INVARIANT OneEntryPerDocument
