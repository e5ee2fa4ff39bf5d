SPECIFICATION Spec
CONSTANTS
  Ignored = {}
  Composed <- MCEmpty
  LowerOf <- MCLowerOf
  BaseOf <- MCEmpty
  Alphabetic = {5, 7, 8, 9}
  KurmanciAlphabet = {7, 8}
  Hyphen = 2
  Apostrophes = {}
  Space = 10
  Category <- MCCategory
  Script <- MCScript
  VeryLong = 4
  Blank = Blank
  BadUtf8 = BadUtf8
  Slash = 3
  Forbidden = {}
  PartOfSpeech <- MCEmpty
  Digit <- MCEmpty
  MaxWord = 5
  RareEntries = 2
  Refused = Refused
  ShortForm = 1
  LongForm = 4
  NoPos = NoPos
  None = None
  ProtocolWords <- MCProtocolWords
  MaxReviewToken = 3
  BatchSize = 2
  Train <- MCTrain
  Seed <- MCSeed
  Batches = {1, 2}
  Verdicts <- MCVerdicts
  Idle = Idle
  MaxCommands = 3
  MaxRunning = 1
CHECK_DEADLOCK FALSE
INVARIANT
  WordsAssignedOnce
