\* A word of each kind alone, and most of them together, at a pace.
SPECIFICATION FairSpec
CONSTANTS
  NoWord = "no-word"
  CleanToPromote = 3
  WordReturn = 2
  Words = {"a", "b", "c", "d", "e"}
  Cues = {"cue"}
  WordContext <- KindWords
  TeachingStreak = 1
  RecoveryStreak = 2
  Teaching <- Teachings
  Priming <- KindPrimed
  General <- KindPool
  ReviewOrder <- OrderKinds
  IntroductionSpacing = 1
  Compositions <- EachKind
INVARIANTS
  ProjectionIsFaithful
  RecallIsEarned
  FinishingHasWork
  PromotionIsClean
  ExclusionHolds
  CoverageIsExplained
  TeachingIsRecordedAtOnce
PROPERTIES
  UndoWithdrawsOneTransition
  ObservationsSurvive
  NextServesOrEnds
  NextEnds
