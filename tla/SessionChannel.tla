---------------------------- MODULE SessionChannel ----------------------------
(***************************************************************************)
(* One payment channel of a session-intent service: concurrent requests    *)
(* through the hono adapter's mppGated middleware with refundOnFailure,    *)
(* concurrent callers of closeSessionOnChain (route, reaper tick,          *)
(* waitUntil hook), a mid-channel settle, and the escrow contract.         *)
(*                                                                         *)
(* A handler is cut at every await: everything between two awaits runs     *)
(* without interruption on Node's event loop, and any other request, or    *)
(* another replica that shares the store, may run in between.  The store's *)
(* updateChannel is atomic here; module RedisStore says when that is true. *)
(***************************************************************************)
EXTENDS ChannelOps

CONSTANTS
  Requests,         \* paid calls, each handled at most once
  Closers,          \* concurrent callers of closeSessionOnChain
  RefundOnFailure,  \* the mppGated option of that name
  Overlap,          \* may a second request start before the first has ended?
  BuyerReplays      \* does the buyer also present vouchers it has used before?

ASSUME SwitchesAssumption == RefundOnFailure \in BOOLEAN /\ Overlap \in BOOLEAN /\ BuyerReplays \in BOOLEAN

VARIABLES
  chan,      \* the channel as the store holds it
  escrow,    \* the channel as the contract holds it
  paidFor,   \* the highest voucher for which the buyer has had a 200
  pc,        \* pc[r]: the await at which request r stands, or how it ended
  amount,    \* amount[r]: the voucher request r carries
  prior,     \* prior[r]: priorVoucher, captured before verify
  armed,     \* armed[r]: rollbackChannelId is set
  closerPc,  \* closerPc[c]: the await at which closer c stands
  submitted  \* submitted[c]: state.highestVoucher as closer c read it

vars == <<chan, escrow, paidFor, pc, amount, prior, armed, closerPc, submitted>>

reqVars    == <<paidFor, pc, amount, prior, armed>>
closerVars == <<closerPc, submitted>>

InFlightStates == {"capture", "verify", "payer", "handler", "rollback"}
\* rolledback: handler failed, voucher rolled back; failed: handler failed and
\* the rollback was off, skipped or broken; rejected: 402 before the voucher was
\* accepted; unresolved: 402 after it was accepted; lost: the process died.
EndStates == {"served", "rolledback", "failed", "rejected", "unresolved", "lost"}

TypeOK ==
  /\ chan \in ChannelState
  /\ escrow \in EscrowState
  /\ paidFor \in Amounts
  /\ pc \in [Requests -> {"idle"} \cup InFlightStates \cup EndStates]
  /\ amount \in [Requests -> Amounts]
  /\ prior \in [Requests -> Amounts]
  /\ armed \in [Requests -> BOOLEAN]
  /\ closerPc \in [Closers -> {"idle", "submit", "record"}]
  /\ submitted \in [Closers -> Amounts]

Init ==
  /\ chan = NoChannel
  /\ escrow = OpenEscrow
  /\ paidFor = 0
  /\ pc = [r \in Requests |-> "idle"]
  /\ amount = [r \in Requests |-> NoVoucher]
  /\ prior = [r \in Requests |-> NoVoucher]
  /\ armed = [r \in Requests |-> FALSE]
  /\ closerPc = [c \in Closers |-> "idle"]
  /\ submitted = [c \in Closers |-> NoVoucher]

InFlight == {r \in Requests : pc[r] \in InFlightStates}
Quiet    == InFlight = {}

MoveTo(r, state) == pc' = [pc EXCEPT ![r] = state]

-----------------------------------------------------------------------------
(* The buyer.  It prices a call on top of every call it has had a 200 for  *)
(* and of every call still under way; a call that failed is not counted,   *)
(* which is what refundOnFailure promises it.                              *)

Outstanding == {paidFor} \cup {amount[r] : r \in InFlight}

NextVoucher(v) ==
  /\ \A a \in Outstanding : a < v
  /\ \E a \in Outstanding : v = a + 1

Send(r) ==
  /\ pc[r] = "idle"
  /\ Overlap \/ Quiet
  /\ \E v \in Vouchers :
       /\ NextVoucher(v) \/ (BuyerReplays /\ v <= paidFor)
       /\ amount' = [amount EXCEPT ![r] = v]
  /\ MoveTo(r, "capture")
  /\ UNCHANGED <<chan, escrow, paidFor, prior, armed, closerVars>>

-----------------------------------------------------------------------------
(* mppGated, intent "session".                                             *)

\* A mistake the properties must notice: the target is armed but never read.
CaptureNothing(r) ==
  /\ pc[r] = "capture"
  /\ armed' = [armed EXCEPT ![r] = RefundOnFailure]
  /\ MoveTo(r, "verify")
  /\ UNCHANGED <<chan, escrow, paidFor, amount, prior, closerVars>>

\* Reads the prior voucher, only for refundOnFailure; a failed read leaves the
\* request without a rollback target and is not an error.
Capture(r) ==
  /\ pc[r] = "capture"
  /\ \/ /\ RefundOnFailure
        /\ prior' = [prior EXCEPT ![r] = chan.highest]
        /\ armed' = [armed EXCEPT ![r] = TRUE]
     \/ UNCHANGED <<prior, armed>>
  /\ MoveTo(r, "verify")
  /\ UNCHANGED <<chan, escrow, paidFor, amount, closerVars>>

\* verifyWithScope succeeds, and mppx has advanced the stored voucher.
VerifyAccepts(r) ==
  /\ pc[r] = "verify"
  /\ VoucherAcceptable(chan, amount[r])
  /\ chan' = AcceptVoucher(chan, amount[r])
  /\ MoveTo(r, "payer")
  /\ UNCHANGED <<escrow, paidFor, amount, prior, armed, closerVars>>

\* verifyWithScope throws (signature, scope, a finalized channel, a chain that
\* says the channel is closed): 402 challenge.
VerifyRejects(r) ==
  /\ pc[r] = "verify"
  /\ MoveTo(r, "rejected")
  /\ UNCHANGED <<chan, escrow, paidFor, amount, prior, armed, closerVars>>

\* payerFromCredential finds the channel.
ResolvePayer(r) ==
  /\ pc[r] = "payer"
  /\ chan.exists
  /\ MoveTo(r, "handler")
  /\ UNCHANGED <<chan, escrow, paidFor, amount, prior, armed, closerVars>>

\* payerFromCredential returns null, also when the store read throws: the request
\* ends with channel_state_missing_after_verify, outside the rollback's try.
PayerMissing(r) ==
  /\ pc[r] = "payer"
  /\ MoveTo(r, "unresolved")
  /\ UNCHANGED <<chan, escrow, paidFor, amount, prior, armed, closerVars>>

\* next() returns and c.error is unset.
HandlerSucceeds(r) ==
  /\ pc[r] = "handler"
  /\ paidFor' = IF amount[r] > paidFor THEN amount[r] ELSE paidFor
  /\ MoveTo(r, "served")
  /\ UNCHANGED <<chan, escrow, amount, prior, armed, closerVars>>

\* next() throws or leaves c.error: roll back when there is a target.
HandlerFails(r) ==
  /\ pc[r] = "handler"
  /\ MoveTo(r, IF armed[r] THEN "rollback" ELSE "failed")
  /\ UNCHANGED <<chan, escrow, paidFor, amount, prior, armed, closerVars>>

\* A mistake the properties must notice: a skipped rollback is reported as done.
RollbackAlwaysReported(r) ==
  /\ pc[r] = "rollback"
  /\ chan' = RollbackVoucher(chan, prior[r])
  /\ MoveTo(r, "rolledback")
  /\ UNCHANGED <<escrow, paidFor, amount, prior, armed, closerVars>>

Rollback(r) ==
  /\ pc[r] = "rollback"
  /\ chan' = RollbackVoucher(chan, prior[r])
  /\ MoveTo(r, IF CanRollBack(chan, prior[r]) THEN "rolledback" ELSE "failed")
  /\ UNCHANGED <<escrow, paidFor, amount, prior, armed, closerVars>>

\* The store update throws; mppGated swallows it and rethrows the handler error.
RollbackBreaks(r) ==
  /\ pc[r] = "rollback"
  /\ MoveTo(r, "failed")
  /\ UNCHANGED <<chan, escrow, paidFor, amount, prior, armed, closerVars>>

\* The process dies with the request in it.
RequestLost(r) ==
  /\ pc[r] \in InFlightStates
  /\ MoveTo(r, "lost")
  /\ UNCHANGED <<chan, escrow, paidFor, amount, prior, armed, closerVars>>

-----------------------------------------------------------------------------
(* closeSessionOnChain.                                                    *)

\* Reads the state; with no voucher or a finalized channel it returns `skipped`.
CloserReads(c) ==
  /\ closerPc[c] = "idle"
  /\ chan.highest # NoVoucher
  /\ ~chan.finalized
  /\ submitted' = [submitted EXCEPT ![c] = chan.highest]
  /\ closerPc' = [closerPc EXCEPT ![c] = "submit"]
  /\ UNCHANGED <<chan, escrow, reqVars>>

CloseLands(c) ==
  /\ closerPc[c] = "submit"
  /\ CloseAccepted(escrow, submitted[c])
  /\ escrow' = CloseEscrow(escrow, submitted[c])
  /\ closerPc' = [closerPc EXCEPT ![c] = "record"]
  /\ UNCHANGED <<chan, submitted, reqVars>>

\* A mistake the properties must notice: a benign revert is recorded as a close.
CloseRevertsAsClosed(c) ==
  /\ closerPc[c] = "submit"
  /\ ~CloseAccepted(escrow, submitted[c])
  /\ closerPc' = [closerPc EXCEPT ![c] = "record"]
  /\ UNCHANGED <<chan, escrow, submitted, reqVars>>

\* The contract reverts; the error is benign and the store is left as it is.
CloseReverts(c) ==
  /\ closerPc[c] = "submit"
  /\ ~CloseAccepted(escrow, submitted[c])
  /\ closerPc' = [closerPc EXCEPT ![c] = "idle"]
  /\ UNCHANGED <<chan, escrow, submitted, reqVars>>

CloseRecorded(c) ==
  /\ closerPc[c] = "record"
  /\ chan' = RecordClose(chan, submitted[c])
  /\ closerPc' = [closerPc EXCEPT ![c] = "idle"]
  /\ UNCHANGED <<escrow, submitted, reqVars>>

\* closeSessionOnChain throws or its process dies: from "submit" no transaction
\* went out; from "record" it did, and its receipt or the store update was lost.
CloserFails(c) ==
  /\ closerPc[c] \in {"submit", "record"}
  /\ closerPc' = [closerPc EXCEPT ![c] = "idle"]
  /\ UNCHANGED <<chan, escrow, submitted, reqVars>>

-----------------------------------------------------------------------------
(* The chain, outside the kit.                                             *)

\* The seller settles the highest voucher without closing, and the store's
\* settledOnChain reflects it.
SettleOnChain ==
  /\ ~escrow.closed
  /\ chan.highest > escrow.settled
  /\ escrow' = [escrow EXCEPT !.settled = chan.highest]
  /\ chan' = [chan EXCEPT !.settled = chan.highest]
  /\ UNCHANGED <<reqVars, closerVars>>

\* escrow.requestClose has run its course: the buyer takes what is left.
BuyerWithdraws ==
  /\ chan.exists
  /\ ~escrow.closed
  /\ escrow' = [escrow EXCEPT !.closed = TRUE]
  /\ UNCHANGED <<chan, reqVars, closerVars>>

-----------------------------------------------------------------------------
RequestStep(r) ==
  \/ Send(r) \/ Capture(r) \/ VerifyAccepts(r) \/ VerifyRejects(r)
  \/ ResolvePayer(r) \/ PayerMissing(r)
  \/ HandlerSucceeds(r) \/ HandlerFails(r)
  \/ Rollback(r) \/ RollbackBreaks(r) \/ RequestLost(r)

CloserStep(c) ==
  \/ CloserReads(c) \/ CloseLands(c) \/ CloseReverts(c)
  \/ CloseRecorded(c) \/ CloserFails(c)

Next ==
  \/ \E r \in Requests : RequestStep(r)
  \/ \E c \in Closers : CloserStep(c)
  \/ SettleOnChain
  \/ BuyerWithdraws

Spec == Init /\ [][Next]_vars

\* The reaper fires every hour and retries what failed, so a closer keeps
\* running; a transaction that is sent again and again and would be accepted is
\* accepted in the end (the RPC node is not down forever).
Fairness ==
  \A c \in Closers :
    /\ WF_vars(CloserReads(c))
    /\ WF_vars(CloseReverts(c))
    /\ SF_vars(CloseLands(c))
    /\ WF_vars(CloseRecorded(c))

FairSpec == Spec /\ Fairness

-----------------------------------------------------------------------------
(* Safety under every interleaving.                                        *)

Signed == {amount[r] : r \in {q \in Requests : pc[q] # "idle"}}

\* The seller never stores, submits or is paid an amount that the buyer did not
\* sign, although a rollback writes back a voucher read several awaits earlier
\* and a closer submits one that may no longer be in the store.
OnlySignedVouchers ==
  /\ chan.highest \in Signed \cup {NoVoucher}
  /\ escrow.settled \in Signed \cup {NoVoucher}

\* A channel marked finalized is closed on chain, and settledOnChain is what the
\* contract paid: closers that raced, reverted or died never record a close that
\* did not happen or an amount that was not paid.
FinalizedMatchesEscrow ==
  chan.finalized => escrow.closed /\ chan.settled = escrow.settled

\* While the escrow is open the stored voucher is never below what was already
\* settled, so a close with it does not revert with AmountNotIncreasing; this is
\* what the below-settled test of rollbackSessionVoucher is for.
NeverBricked ==
  ~escrow.closed => chan.settled = escrow.settled /\ escrow.settled <= chan.highest

\* Nothing changes a channel once it is finalized: not a request that was
\* verified before, not a late rollback, not a second closer.
FinalizedIsFinal == [][chan.finalized => chan' = chan]_vars

\* What the books show of the close.
Booked == IF chan.finalized THEN {chan.settled} ELSE {}

Channel == INSTANCE PaymentChannel
             WITH signed <- Signed, settled <- escrow.settled, closed <- escrow.closed,
                  booked <- Booked

\* The handlers, rollbacks and closers together keep the contract of one channel: each
\* amount that is settled or closed for was signed before and is no lower than the one
\* before it, and the books follow the contract once and for all.
ActsAsChannel == Channel!Spec

\* A channel that keeps a voucher is closed on chain in the end, whatever the
\* closers' failures, stale reads and the settles and rollbacks in between.
EventuallyClosed == <>[](chan.highest # NoVoucher) => <>escrow.closed

-----------------------------------------------------------------------------
(* What refundOnFailure promises.  These hold when requests do not overlap. *)

\* States in which a request's voucher has been accepted and not rolled back.
KeptStates == {"payer", "handler", "rollback", "served", "failed", "unresolved", "lost"}

\* A rollback only takes back its own call: every call that was answered with a
\* 200 stays covered by the stored voucher.
ServedCallsStayBilled ==
  \A r \in Requests : pc[r] = "served" => amount[r] <= chan.highest

\* The stored voucher is never that of calls that were all rolled back.
RolledBackCallsUnbilled ==
  chan.highest # NoVoucher =>
    \E r \in Requests : amount[r] = chan.highest /\ pc[r] \in KeptStates

\* Nor is it what the contract paid.
RolledBackCallsUnpaid ==
  escrow.settled # 0 =>
    \E r \in Requests : amount[r] = escrow.settled /\ pc[r] \in KeptStates
=============================================================================
