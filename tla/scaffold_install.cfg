CONSTANTS
  Order <- ThreeFiles
  Dated = {"docs/ai/SETUP.md"}
  Protected = {"AGENTS.md"}
  CommandLines <- SomeCommandLines
  MaxRuns = 2
  MaxEdits = 2
  LastDay = 1
SPECIFICATION Spec
CHECK_DEADLOCK FALSE
INVARIANTS
  ReportIsTrue
PROPERTIES
  OwnWorkIsKept
  RepeatIsQuiet
