SPECIFICATION Spec
CONSTANTS
  ann = ann
  s1 = s1  s2 = s2
  u = u  q = q
  NoSkill = NoSkill  NoMode = NoMode
  Learners = {ann}
  Sessions = {s1}
  Words = {u}
  Cues = {q}
  Owner <- OneOwner
  Skill <- ProductionSkill
  Reports <- TeachingReports
  InitialWord <- NewWords
  InitialClean <- NoneClean
  MaxLog = 2
  MaxRevisions = 2
  MaxVersion = 2
PROPERTIES
  StashLeavesTheMode
CHECK_DEADLOCK FALSE
