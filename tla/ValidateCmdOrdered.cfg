\* Distinct labels, no fail-fast, two workers.
CONSTANTS
  w1 = w1
  w2 = w2
  fa = fa
  fb = fb
  fc = fc
  NoLabel = NoLabel
  Worker = {w1, w2}
  Label = {fa, fb, fc, NoLabel}
  Inputs <- DistinctInputs
  FailFast = FALSE
SPECIFICATION FairSpec
INVARIANTS
  CmdTypeOK
  Conservation
  Prompt
PROPERTY ImplementsOrderedReport
