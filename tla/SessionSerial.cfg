SPECIFICATION FairSpec
CONSTANTS
  Requests = {r1, r2, r3}
  Closers = {c1, c2}
  Deposit = 3
  RefundOnFailure = TRUE
  Overlap = FALSE
  BuyerReplays = TRUE
INVARIANTS
  ServedCallsStayBilled
  RolledBackCallsUnbilled
PROPERTIES
  EventuallyClosed
CHECK_DEADLOCK FALSE
