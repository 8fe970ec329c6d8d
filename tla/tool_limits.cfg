CONSTANTS
  s1 = s1
  Starts = {s1, s2}
  Resumes = {}
  Owners <- TwoOwners
  OwnerOf <- Owned
  AskerOf <- Asking
  Apis = {"chat"}
  maxGlobal = 1
  maxPerOwner = 1
  MaxCalls = 1
  maxParallelToolCalls = 2
  requireToolCall = FALSE
SPECIFICATION Spec
CHECK_DEADLOCK FALSE
INVARIANTS CapsHold ReservationsAccounted
