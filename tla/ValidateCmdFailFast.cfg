\* Fail-fast over a few sources with invalid documents, two workers.
CONSTANTS
  w1 = w1
  w2 = w2
  fa = fa
  fb = fb
  fc = fc
  NoLabel = NoLabel
  Worker = {w1, w2}
  Label = {fa, fb, fc, NoLabel}
  Inputs <- FailFastInputs
  FailFast = TRUE
SPECIFICATION FairSpec
INVARIANTS
  ExitTellsTheTruth
  CutReportInOrder
PROPERTY CmdTerminates
