SPECIFICATION Spec
CONSTANTS
  p1 = p1
  p2 = p2
  reviewer = reviewer
  Nobody = Nobody
  Providers = {p1}
  Dedicated = {}
  Patches <- SinglePatches
  Outcomes = {"succeeded", "failed"}
  Requests <- EditRequests
  Calls <- AllCalls
  MaxRuns = 1
  MaxCrashes = 1
INVARIANT
  InterruptedIsResumable
