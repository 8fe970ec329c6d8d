\* A turn and a resumption, three pieces of text.
SPECIFICATION StreamSpec
CONSTANTS
  Rounds = {r1, r2}
  MaxPieces = 3
  MaxBatch = 2
INVARIANTS EventsWellFormed TextDelivered
CHECK_DEADLOCK FALSE
