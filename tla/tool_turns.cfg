CONSTANTS
  s1 = s1
  Starts = {s1}
  Resumes = {r1, r2}
  Owners <- TwoOwners
  OwnerOf <- Owned
  AskerOf <- Asking
  Apis = {"chat", "responses", "anthropic"}
  maxGlobal = 1
  maxPerOwner = 1
  MaxCalls = 3
  maxParallelToolCalls = 2
  requireToolCall = TRUE
SPECIFICATION Spec
CHECK_DEADLOCK FALSE
INVARIANTS OpenTurnsGuarded ShownCallsFindable ConnectionsGivenBack
PROPERTIES RequestsSettle CallsSettle
