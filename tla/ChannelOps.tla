------------------------------ MODULE ChannelOps ------------------------------
(***************************************************************************)
(* The channel-state transformations that the kit hands to                 *)
(* channelStore.updateChannel, as functions from the stored channel state  *)
(* to the next one, together with what the escrow contract does with a     *)
(* voucher.                                                                *)
(*                                                                         *)
(* Amounts are cumulative and counted in units of the smallest price.  A   *)
(* voucher is identified by its cumulative amount, because the buyer's     *)
(* signature covers exactly (channel, amount).  highestVoucher = null and  *)
(* highestVoucherAmount = 0n always go together in the code, and both are  *)
(* the amount NoVoucher here.                                              *)
(***************************************************************************)
EXTENDS Naturals

CONSTANT Deposit    \* what the buyer locked in escrow when opening the channel

ASSUME DepositAssumption == Deposit \in Nat \ {0}

NoVoucher == 0

Amounts  == 0 .. Deposit
Vouchers == 1 .. Deposit

\* The fields of mppx's ChannelStore.State that the kit reads or writes.
\* `exists` is FALSE while the store holds nothing for the channel.
ChannelState ==
  [exists: BOOLEAN, highest: Amounts, settled: Amounts, finalized: BOOLEAN]

\* The contract's view: what the seller has been paid so far, and whether the
\* remainder has gone back to the buyer.
EscrowState == [settled: Amounts, closed: BOOLEAN]

NoChannel == [exists |-> FALSE, highest |-> NoVoucher, settled |-> 0, finalized |-> FALSE]
OpenEscrow == [settled |-> 0, closed |-> FALSE]

-----------------------------------------------------------------------------
\* A mistake the properties must notice: the amount is taken for a delta.
AddVoucher(ch, v) == [ch EXCEPT !.exists = TRUE, !.highest = @ + v]

\* mppx's verify accepts a voucher for a channel that is not finalized and
\* advances the stored voucher only when the new one is higher; an equal or
\* lower one is accepted without effect.
VoucherAcceptable(ch, v) == ~ch.finalized /\ v <= Deposit

AcceptVoucher(ch, v) ==
  [ch EXCEPT !.exists = TRUE, !.highest = IF v > @ THEN v ELSE @]

-----------------------------------------------------------------------------
\* Mistakes the properties must notice: the below-settled or the
\* already-finalized test is missing.
CanRollBackBelowSettled(ch, prior) == ch.exists /\ ~ch.finalized /\ ch.highest # prior
CanRollBackFinalized(ch, prior)    == ch.exists /\ ch.highest # prior /\ prior >= ch.settled

\* rollbackSessionVoucher.  It skips (no-channel, already-finalized, no-change,
\* below-settled) unless all four of these hold; spent, units and deposit are kept.
CanRollBack(ch, prior) ==
  /\ ch.exists
  /\ ~ch.finalized
  /\ ch.highest # prior
  /\ prior >= ch.settled

RollbackVoucher(ch, prior) ==
  IF CanRollBack(ch, prior) THEN [ch EXCEPT !.highest = prior] ELSE ch

-----------------------------------------------------------------------------
\* What closeSessionOnChain and submitVoucher record after a close transaction
\* for voucher v went through: finalized, and never a lower settled amount.
RecordClose(ch, v) ==
  IF ch.exists
  THEN [ch EXCEPT !.finalized = TRUE, !.settled = IF v > @ THEN v ELSE @]
  ELSE ch

\* The contract's close(channel, v): it reverts with ChannelFinalized or
\* AmountNotIncreasing, otherwise pays v in total and refunds the rest.
CloseAccepted(e, v) == ~e.closed /\ v >= e.settled
CloseEscrow(e, v)   == [e EXCEPT !.closed = TRUE, !.settled = v]

=============================================================================
