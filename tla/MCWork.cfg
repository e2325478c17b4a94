SPECIFICATION FairSpec
CONSTANTS
  Jobs = {feedback, improvement, fresh, fallback}
  Improvements = {improvement, fresh, fallback}
  Bootstraps = {fallback}
  Established = {improvement, fallback}
  Sessions = {{feedback, improvement}, {fresh}, {fallback}}
  MappingBudget = 2
  FallbackAt = 1
  PrepAttempts = 3
  MaxRetries = 1
  MaxResumes = 1
  MaxAsks = 1
  MaxSwitches = 2
  MaxDeaths = 1
  Scenarios = {{"session"}, {"practice"}, {"word"}}
  MaxRevivals = 1
INVARIANTS CallsAreBudgeted
PROPERTIES AnswersAreKept MaintenanceFreezes WorkSettles
CHECK_DEADLOCK FALSE
