SPECIFICATION Spec
CONSTANTS
  Words <- SomeWords
  Decks = 3
  DeckOf <- Assigned
  Corpus <- Frequency
  ShareParts = 1
  ShareOf = 2
  Quanta = 2
  MaxItems = 3
  InitialStash = {"s1", "s2"}
  Shuffles <- Orders
  Limits = {1, 2}
  FirstLimit = 1
  MaxStarts = 1
  MaxDays = 1
  MaxActs = 1
  MaxApart = 1
  Loads <- Load
INVARIANTS
  ReserveServesTheDay
  SharesAreKept
PROPERTIES
  ReserveIsStable
CHECK_DEADLOCK FALSE
