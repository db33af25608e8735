SPECIFICATION Spec
CONSTANTS
  i1 = i1
  i2 = i2
  i3 = i3
  k1 = k1
  k2 = k2
  Nobody = Nobody
  Invocations = {i1, i2, i3}
  Keys = {k1, k2}
  Reruns = {TRUE, FALSE}
  Overlaps = {TRUE, FALSE}
  MaxDeaths = 1
  Walk <- FourFiles
  Hidden = {".b"}
  Linked = {"d"}
  Texts = {"short", "long"}
  Size <- Short
  MaxFiles = 2
  MaxBytes = 3
  Worktrees <- SomeTrees
  MaxEdits = 2
CHECK_DEADLOCK FALSE
INVARIANTS
  ScheduleTypeOK
  SkippedMeansCompleted
  StatusIsTrue
  AiderTypeOK
  ProposalIsDiff
PROPERTIES
  CompletedIsNotRerun
  ReplacesWhatItSaw
