SPECIFICATION Spec
CONSTANTS
  Requests = {r1, r2}
  Closers = {c1}
  Deposit = 2
  RefundOnFailure = TRUE
  Overlap = FALSE
  BuyerReplays = FALSE
INVARIANTS
  RolledBackCallsUnpaid
CHECK_DEADLOCK FALSE
