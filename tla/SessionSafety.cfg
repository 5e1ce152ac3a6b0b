SPECIFICATION Spec
CONSTANTS
  Requests = {r1, r2, r3}
  Closers = {c1, c2}
  Deposit = 2
  RefundOnFailure = TRUE
  Overlap = TRUE
  BuyerReplays = TRUE
SYMMETRY Symmetry
INVARIANTS
  OnlySignedVouchers
  FinalizedMatchesEscrow
  NeverBricked
PROPERTIES
  ActsAsChannel
  FinalizedIsFinal
CHECK_DEADLOCK FALSE
