\* Two words under review, finished and resumed.
SPECIFICATION Spec
CONSTANTS
  NoWord = "no-word"
  CleanToPromote = 3
  WordReturn = 2
  Words = {"a", "b"}
  Cues = {}
  WordContext <- PracticeWords
  TeachingStreak = 2
  RecoveryStreak = 2
  Teaching <- Teachings
  Priming <- NoPriming
  General <- PracticePool
  ReviewOrder <- OrderWords
  IntroductionSpacing = 1
  Compositions <- Resumed
INVARIANTS
  OfferedUndoIsAccepted
