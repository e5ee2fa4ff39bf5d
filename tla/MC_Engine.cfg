SPECIFICATION Spec
CONSTANTS
  Ignored <- MCIgnored
  Composed <- MCComposed
  LowerOf <- MCLowerOf
  BaseOf <- MCBaseOf
  Alphabetic <- MCAlphabetic
  NextKeys <- MCNextKeys
  Spelling <- MCSpelling
  MaxBigramPredictions = 3
  MaxTrigramPredictions = 2
  ProbabilityScale = 2
  TextLimit = 16
  Inputs <- MCInputs
  NoInput = NoInput
  Batches <- MCBatches
  Queries <- MCQueries
  CellValues = {0, 1, 2, 3}
  MaxResults = 4
  MaxLoads = 2
CHECK_DEADLOCK FALSE
INVARIANTS
  TypeOK
  IndexAnswersAsScan
  TrieIsItsLexicon
  FuzzySearchIsExact
  AnswersAreDetermined
  PredictionsNameWords
  CompiledIsPredicted
  ProbeExplainsRefusal
PROPERTY AppendKeepsPredictions
