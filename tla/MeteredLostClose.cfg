SPECIFICATION Spec
CONSTANTS
  r1 = r1
  r2 = r2
  p1 = p1
  c1 = c1
  c2 = c2
  Calls <- MCCalls
  Posts <- MCPosts
  Closers <- MCClosers
  SettleArgs <- MCSettleArgs
  MaxAmount = 2
  Deposit = 4
  NoSettle = NoSettle
  None = None
INVARIANTS
  PostedCloseIsKept
CHECK_DEADLOCK FALSE
