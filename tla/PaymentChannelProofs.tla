------------------------- MODULE PaymentChannelProofs -------------------------
(***************************************************************************)
(* What the abstract channel promises, and with it SessionChannel and      *)
(* MeteredChannel, which are shown to implement it.                        *)
(***************************************************************************)
EXTENDS PaymentChannel, TLAPS

ChannelTypes == settled \in Nat /\ closed \in BOOLEAN
ChannelInv == ChannelTypes /\ PaidIsSigned /\ BooksMatch

\* What is booked is settled when it is booked, and settled for good.
LEMMA ChannelInductive ==
  ASSUME Amounts \subseteq Nat, ChannelInv, [Next]_vars
  PROVE  ChannelInv'
<1> USE DEF ChannelInv, ChannelTypes, PaidIsSigned, BooksMatch
<1>1. ASSUME NEW v \in Amounts, Sign(v) PROVE ChannelInv'
  BY <1>1 DEF Sign
<1>2. ASSUME NEW v \in Amounts, Settle(v) PROVE ChannelInv'
  BY <1>2 DEF Settle
<1>3. ASSUME NEW v \in Amounts, Close(v) PROVE ChannelInv'
  BY <1>3 DEF Close
<1>4. CASE Withdraw
  BY <1>4 DEF Withdraw
<1>5. CASE Book
  BY <1>5 DEF Book
<1>6. CASE UNCHANGED vars
  BY <1>6 DEF vars
<1> QED
  BY <1>1, <1>2, <1>3, <1>4, <1>5, <1>6 DEF Next

LEMMA ChannelInvariant == Amounts \subseteq Nat => (Spec => []ChannelInv)
<1> SUFFICES ASSUME Amounts \subseteq Nat PROVE Spec => []ChannelInv
  OBVIOUS
<1>1. Init => ChannelInv
  <2> SUFFICES ASSUME Init PROVE ChannelInv
    OBVIOUS
  <2>1. settled = 0 /\ closed = FALSE /\ booked = {}
    BY DEF Init
  <2>2. ChannelTypes
    BY <2>1 DEF ChannelTypes
  <2> QED
    BY <2>1, <2>2 DEF ChannelInv, PaidIsSigned, BooksMatch
<1>2. ChannelInv /\ [Next]_vars => ChannelInv'
  BY ChannelInductive
<1> QED
  BY <1>1, <1>2, PTL DEF Spec

\* In whatever order signing, settling, closing and booking interleave, the contract
\* pays a signed amount and the books show what it paid.
THEOREM ChannelPaysAndBooks == Amounts \subseteq Nat => (Spec => [](PaidIsSigned /\ BooksMatch))
<1> SUFFICES ASSUME Amounts \subseteq Nat PROVE Spec => [](PaidIsSigned /\ BooksMatch)
  OBVIOUS
<1>1. ChannelInv => PaidIsSigned /\ BooksMatch
  BY DEF ChannelInv
<1>2. Spec => []ChannelInv
  BY ChannelInvariant
<1> QED
  BY <1>1, <1>2, PTL

\* No step of either side undoes what was paid, closed or booked.
THEOREM ChannelTakesNothingBack == Amounts \subseteq Nat => (Spec => NothingIsTakenBack)
<1> SUFFICES ASSUME Amounts \subseteq Nat PROVE Spec => NothingIsTakenBack
  OBVIOUS
<1>1. ASSUME ChannelInv, [Next]_vars
      PROVE  [/\ settled' >= settled
              /\ signed \subseteq signed'
              /\ closed => closed' /\ settled' = settled
              /\ booked # {} => booked' = booked]_vars
  BY <1>1 DEF ChannelInv, ChannelTypes, BooksMatch, Next, Sign, Settle, Close, Withdraw, Book,
     vars
<1>2. Spec => []ChannelInv
  BY ChannelInvariant
<1> QED
  BY <1>1, <1>2, PTL DEF Spec, NothingIsTakenBack
=============================================================================
