SPECIFICATION Spec
CONSTANTS
  u1 = u1
  u2 = u2
  u3 = u3
  u4 = u4
  c1 = c1
  c2 = c2
  k1 = k1
  k2 = k2
  Updates <- MCUpdates
  Conns <- MCConns
  Keys <- MCKeys
  ConnOf <- MCConnOf
  KeyOf <- MCKeyOf
  Kinds <- MCAppends
  MaxRetries = 2
  Reconnects = FALSE
  Rejectable <- MCRejectable
  Exclusive = FALSE
INVARIANTS
  NoLostUpdate
CHECK_DEADLOCK FALSE
