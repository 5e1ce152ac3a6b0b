SPECIFICATION Spec
CONSTANTS
  r1 = r1
  r2 = r2
  r3 = r3
  d1 = d1
  k1 = k1
  k2 = k2
  w1 = w1
  o1 = o1
  o2 = o2
  Requests <- MCRequests
  Deletes <- MCDeletes
  Creds <- MCCreds
  Wallets <- MCWallets
  Payer <- MCPayer
  Deleter <- MCDeleter
  Operators <- MCOperators
  NoCred = NoCred
  MaxLost = 1
INVARIANTS
  ServedOwedIsLate
  ChargesAccountedFor
  RepaidOnce
PROPERTIES
  KeepsLedger
CHECK_DEADLOCK FALSE
