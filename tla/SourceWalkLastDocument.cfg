\* The same command lines: what the splitter is said to read.
CONSTANTS
  MaxBytes = 5
  Label = {"r", "a", "s", "b", "t", "c", "d", "f", "m", "k"}
  Walks <- MCWalks
SPECIFICATION FairSpec
INVARIANT ReadsEveryDocument
