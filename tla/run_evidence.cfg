SPECIFICATION Spec
CONSTANTS
  Listed <- ThreeFiles
  Size <- Sizes
  Forbidden = {"b"}
  BaseLimit = 2
  Placeholder = "readme"
  MaxTouches = 1
  r1 = r1
  r2 = r2
  first = first
  Resumes = {r1, r2}
  First = first
  Length = 1
  MaxEvents = 8
  MaxKills = 1
  MaxBytes = 24
  MapBytes = 8
  Heading = 3
  Label = 2
  Prefix = 3
  Widths = {1, 2}
  FileSizes = {0, 1, 4, 5, 7}
  LineSizes = {2, 3}
  MaxFiles = 5
  Paths <- FiveFiles
  Tracked <- BasePaths
  Ignored <- IgnoredPaths
  Denied <- DeniedPaths
  AllowLists <- Allows
  ForbidLists <- Denials
  MaxRepairs = 1
  MaxLateWrites = 1
CHECK_DEADLOCK FALSE
INVARIANTS
  VerdictIsEarned
  AcceptedLogIsOneHistory
  SpoiltIsNoticed
  AcceptedSuccessIsWhole
  BudgetIsKept
  CommitIsWhatWasVetted
  EditsAndPublicationAgree
