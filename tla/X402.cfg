SPECIFICATION FairSpec
CONSTANTS
  r1 = r1
  r2 = r2
  r3 = r3
  p1 = p1
  p2 = p2
  a = a
  b = b
  c = c
  N = 3
  Sound <- MCSound
  Kinds <- MCKinds
  Offers <- MCOffers
  RouteKind = b
  Requests <- MCRequests
  Payments <- MCPayments
  NoPayment = NoPayment
INVARIANTS
  TypeOK
  RefusedIsSpent
  FirstWriterWins
PROPERTIES
  ActsAsOne
  SettlesInTheEnd
CHECK_DEADLOCK FALSE
