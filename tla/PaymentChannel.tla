---------------------------- MODULE PaymentChannel ----------------------------
(***************************************************************************)
(* One payment channel as buyer and seller rely on it, whichever intent    *)
(* sells through it and however its handlers, rollbacks, reapers and       *)
(* closers interleave: nothing is paid that the buyer has not signed, a    *)
(* payment never shrinks and ends with the close, and the seller's books   *)
(* show a close only when there was one, at the amount it paid, for good.  *)
(***************************************************************************)
EXTENDS Naturals

CONSTANT Amounts

VARIABLES
  signed,   \* the amounts the buyer has signed
  settled,  \* what the contract has paid the seller so far
  closed,   \* the remainder has gone back to the buyer
  booked    \* {}, or {the amount} for which the seller's books show the close

vars == <<signed, settled, closed, booked>>

Init ==
  /\ signed = {}
  /\ settled = 0
  /\ closed = FALSE
  /\ booked = {}

Sign(v) ==
  /\ signed' = signed \cup {v}
  /\ UNCHANGED <<settled, closed, booked>>

Settle(v) ==
  /\ ~closed
  /\ v \in signed /\ v > settled
  /\ settled' = v
  /\ UNCHANGED <<signed, closed, booked>>

\* The books may follow in the same step or later, or never.
Close(v) ==
  /\ ~closed
  /\ v \in signed /\ v >= settled
  /\ settled' = v
  /\ closed' = TRUE
  /\ booked' \in {booked, {v}}
  /\ UNCHANGED signed

\* The buyer closes by itself; what was settled stays with the seller.
Withdraw ==
  /\ ~closed
  /\ closed' = TRUE
  /\ UNCHANGED <<signed, settled, booked>>

Book ==
  /\ closed
  /\ booked = {}
  /\ booked' = {settled}
  /\ UNCHANGED <<signed, settled, closed>>

Next ==
  \/ \E v \in Amounts : Sign(v) \/ Settle(v) \/ Close(v)
  \/ Withdraw
  \/ Book

Spec == Init /\ [][Next]_vars

-----------------------------------------------------------------------------
\* The buyer pays nothing that it has not signed.
PaidIsSigned == settled = 0 \/ settled \in signed

\* The books show a close only of a closed channel, at the amount the contract paid.
BooksMatch == booked # {} => closed /\ booked = {settled}

\* A payment never shrinks, a signature is never lost, and after the close nothing but
\* the books and what the buyer still signs in vain can change.
NothingIsTakenBack ==
  [][/\ settled' >= settled
     /\ signed \subseteq signed'
     /\ closed => closed' /\ settled' = settled
     /\ booked # {} => booked' = booked]_vars
=============================================================================
