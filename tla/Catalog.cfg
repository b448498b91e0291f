\* Extract commands one after the other, writes that fail, and explain over
\* what they have written.
SPECIFICATION Spec
CONSTANTS
  Alphabet <- MCAlphabet
  ShortNames <- MCShortNames
  ExtractFrom <- Extracted
  ForOutput <- StripForOutput
  FieldPaths <- IndexedPaths
  Plans <- MCPlans
  Unwritable <- MCUnwritable
  KubernetesGroups <- MCKubernetesGroups
  VersionCandidates <- MCVersionCandidates
  KubeVersions <- MCVersionCandidates
  KindGuesses <- MCKindGuesses
  GuessedPlurals <- MCGuessedPlurals
  Segments <- MCSegments
  Ecosystem <- MCEcosystem
  Samples <- MCSamples
  Plurals <- MCPlurals
INVARIANTS
  CatalogTypeOK
  NoDanglingName
  NamesFind
  CompletionFindsNames
  CompletedFieldsExplain
  IndexedFieldsExplain
PROPERTIES
  CleanExitIsComplete
  EveryKindIsExtracted
  SchemasServe
CHECK_DEADLOCK FALSE
