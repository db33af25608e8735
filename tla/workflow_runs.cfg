SPECIFICATION FairSpec
CONSTANTS
  p1 = p1
  p2 = p2
  reviewer = reviewer
  Nobody = Nobody
  Providers = {p1, p2}
  Dedicated = {}
  Patches <- MCPatches
  Outcomes = {"succeeded", "failed"}
  Requests <- AllRequests
  Calls <- RelevantCalls
  MaxRuns = 3
  MaxCrashes = 1
INVARIANTS
  CheckoutUntouched
  PublishedTreeWasVetted
  LedgerMatchesWorktree
  ReturnedIsResumable
PROPERTIES
  CompletedIsFinal
  ImplementsOutcome
  Terminates
