SPECIFICATION Spec
CONSTANTS
  Requests = {r1, r2}
  Closers = {c1}
  Deposit = 2
  RefundOnFailure = TRUE
  Overlap = TRUE
  BuyerReplays = FALSE
INVARIANTS
  ServedCallsStayBilled
CHECK_DEADLOCK FALSE
