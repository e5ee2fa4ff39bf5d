SPECIFICATION Spec
CONSTANTS
  Ignored <- MCIgnored
  Composed <- MCComposed
  LowerOf <- MCLowerOf
  BaseOf <- MCBaseOf
  Alphabetic <- MCAlphabetic
  KurmanciAlphabet <- MCAlphabet
  Hyphen = 2
  Apostrophes = {11}
  Space = 10
  Category <- MCCategory
  Script <- MCScript
  VeryLong = 4
  Blank = Blank
  BadUtf8 = BadUtf8
  Slash = 3
  Forbidden = {1}
  PartOfSpeech <- MCPartOfSpeech
  Digit <- MCDigit
  MaxWord = 5
  RareEntries = 2
  Refused = Refused
  ShortForm = 1
  LongForm = 4
  NoPos = NoPos
  None = None
  Dictionary <- MCDictionary
  Seed <- MCSeed
  DecisionFiles <- MCDecisionFiles
  Kuwiki <- MCKuwiki
  Policy <- MCPolicy
  Frequency <- MCFrequency
  BatchSize = 1
  Missing = Missing
  Idle = Idle
  MaxCommands = 3
  MaxRunning = 2
CHECK_DEADLOCK FALSE
INVARIANTS
  TypeOK
  ReviewedAsSeen
  MembersFollowTheGroup
  TrustSubsets
  OnlyUndecodableLinesFailTheAudit
  OnlyTwofoldSuspicionFailsQueues
  SoundGroups
  CleanOffersTakeEffect
