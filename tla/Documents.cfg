\* Schemas of two levels over two required fields, and every outcome of the
\* checks, with and without substitution and skip patterns.
CONSTANTS
  Cases <- MCCases
  JudgeBySchema <- BodyVerdict
SPECIFICATION Spec
INVARIANTS
  BuildThenValidateAgrees
  SkippedKindIsSkipped
  NothingElseForgiven
  ForgivesEveryAbsence
  PresentStillChecked
