SPECIFICATION Spec
CONSTANTS
  openai = openai
  ollama = ollama
  Nobody = Nobody
  Registered <- Runtimes
  Paid = {openai}
  Preferred <- RolePreferences
  Policies <- MCPolicies
  Lifetimes = {0, 2}
  MaxCalls = 2
  MaxTime = 3
INVARIANTS
  CacheIsHonest
  EntitledOnly
  SelfReviewOnlyIfFew
