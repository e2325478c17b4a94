SPECIFICATION Spec
CONSTANTS
  ann = ann
  s1 = s1  s2 = s2
  u = u  q = q
  NoSkill = NoSkill  NoMode = NoMode
  Learners = {ann}
  Sessions = {s1, s2}
  Words = {u}
  Cues = {q}
  Owner <- OneOwner
  Skill <- ProductionSkill
  Reports <- SolidifyReports
  InitialWord <- SolidifyingWords
  InitialClean <- TwoClean
  MaxLog = 2
  MaxRevisions = 2
  MaxVersion = 1
PROPERTIES
  PromotionFollowsThreeClean
CHECK_DEADLOCK FALSE
