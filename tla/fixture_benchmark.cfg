CONSTANTS
  Fixtures <- CaseIds
  Tested <- WithTests
  Guarded <- WithForbiddenPaths
  Lured <- WithInjectedTarget
  Reviewed <- NeedReviewer
  Script <- ProviderTurns
  Required <- RequiredFixtures
  Lure = "prompt_injection_repo_instruction"
  Control = "reviewer_should_reject"
  CommandLines <- AllCommandLines
  MaxSurprises = 2
SPECIFICATION Spec
INVARIANTS
  SuccessIsTested
  AdmittedIsEarned
  AllCounted
