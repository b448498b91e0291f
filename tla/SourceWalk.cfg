\* Every stream of up to five bytes, and command lines over small trees.
CONSTANTS
  MaxBytes = 5
  Label = {"r", "a", "s", "b", "t", "c", "d", "f", "m", "k"}
  Walks <- MCWalks
SPECIFICATION FairSpec
INVARIANTS
  DiscoversExactly
  LeavesNothingBehind
PROPERTY WalkEnds
