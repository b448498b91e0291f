\* One extract k8s over nodes and their watch and status paths.
SPECIFICATION Spec
CONSTANTS
  Alphabet <- MCAlphabet
  ShortNames <- MCShortNames
  ExtractFrom <- Extracted
  ForOutput <- StripForOutput
  FieldPaths <- IndexedPaths
  Plans <- PluralPlans
  Unwritable <- AllWritable
  KubernetesGroups <- MCKubernetesGroups
  VersionCandidates <- MCVersionCandidates
  KubeVersions <- MCVersionCandidates
  KindGuesses <- MCKindGuesses
  GuessedPlurals <- MCGuessedPlurals
  Segments <- MCSegments
  Ecosystem <- MCEcosystem
  Samples <- MCSamples
  Plurals <- MCPlurals
INVARIANT CompletesThePlural
CHECK_DEADLOCK FALSE
