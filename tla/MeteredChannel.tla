---------------------------- MODULE MeteredChannel ----------------------------
(***************************************************************************)
(* One payment channel of a metered service: calls through mppMetered,     *)
(* the buyer's close vouchers, and the seller's three ways of submitting a *)
(* voucher (closeMeteredChannelFromState, closeMeteredChannelOnChain and,  *)
(* as a last resort, closeSessionOnChain).                                 *)
(*                                                                         *)
(* A call authorizes MaxAmount, the handler settles on an actual amount,   *)
(* and the Payment-Receipt tells the buyer what to sign the close for.     *)
(* Handlers are cut at every await, as in SessionChannel.                  *)
(***************************************************************************)
EXTENDS ChannelOps, Integers, FiniteSets

CONSTANTS
  Calls,       \* paid calls
  Posts,       \* close requests of the buyer
  Closers,     \* seller-side callers of the close helpers
  MaxAmount,   \* the route's maxAmount
  SettleArgs,  \* what a handler may pass to settle()
  NoSettle,    \* the handler never called settle()
  None         \* no receipt, no close voucher

ASSUME MeteredAssumption ==
  /\ MaxAmount \in Nat \ {0}
  /\ MaxAmount <= Deposit
  /\ SettleArgs \subseteq Int
  /\ NoSettle \notin Int
  /\ None \notin Int

VARIABLES
  chan,      \* the channel as the store holds it
  spent,     \* its `spent` field
  kept,      \* its `paywrapCloseVoucher` field
  escrow,    \* the channel as the contract holds it
  pc,        \* pc[r]: the await at which call r stands, or how it ended
  amount,    \* amount[r]: the voucher call r carries
  receipt,   \* receipt[r]: acceptedCumulative of its Payment-Receipt
  postPc,    \* postPc[p]: the await at which close request p stands, or its answer
  closing,   \* closing[p]: the amount the buyer signed the close for
  closerPc,  \* closerPc[c]: the await at which closer c stands
  submitted, \* submitted[c]: the voucher closer c submits
  forced     \* the seller has called closeSessionOnChain on the channel

vars == <<chan, spent, kept, escrow, pc, amount, receipt, postPc, closing, closerPc,
          submitted, forced>>

storeVars  == <<chan, spent, kept>>
callVars   == <<pc, amount, receipt>>
postVars   == <<postPc, closing>>
closerVars == <<closerPc, submitted, forced>>

InFlightStates == {"verify", "payer", "handler", "override"}
\* served: answered with a receipt and `spent` overridden; unbooked: the same, but
\* the override threw; failed: the handler's exception went through; rejected and
\* unresolved: 402 before and after the voucher was accepted; lost: process died.
EndStates == {"served", "unbooked", "failed", "rejected", "unresolved", "lost"}
PostStates == {"idle", "persist", "verify", "closed", "refused", "kept"}

Receipts == 0 .. MaxAmount

TypeOK ==
  /\ chan \in ChannelState
  /\ spent \in Nat
  /\ kept \in Receipts \cup {None}
  /\ escrow \in EscrowState
  /\ pc \in [Calls -> {"idle"} \cup InFlightStates \cup EndStates]
  /\ amount \in [Calls -> Amounts]
  /\ receipt \in [Calls -> Receipts \cup {None}]
  /\ postPc \in [Posts -> PostStates]
  /\ closing \in [Posts -> Receipts \cup {None}]
  /\ closerPc \in [Closers -> {"idle", "submit", "record"}]
  /\ submitted \in [Closers -> Amounts]
  /\ forced \in BOOLEAN

Init ==
  /\ chan = NoChannel
  /\ spent = 0
  /\ kept = None
  /\ escrow = OpenEscrow
  /\ pc = [r \in Calls |-> "idle"]
  /\ amount = [r \in Calls |-> NoVoucher]
  /\ receipt = [r \in Calls |-> None]
  /\ postPc = [p \in Posts |-> "idle"]
  /\ closing = [p \in Posts |-> None]
  /\ closerPc = [c \in Closers |-> "idle"]
  /\ submitted = [c \in Closers |-> NoVoucher]
  /\ forced = FALSE

InFlight == {r \in Calls : pc[r] \in InFlightStates}
Answered == {r \in Calls : pc[r] \in {"served", "unbooked"}}

MoveTo(r, state) == pc' = [pc EXCEPT ![r] = state]

-----------------------------------------------------------------------------
(* A paid call.                                                            *)

\* The buyer takes acceptedCumulative for the channel's running total and signs
\* for maxAmount on top of it and of every call still under way.
Outstanding == {0} \cup {receipt[r] : r \in Answered} \cup {amount[r] : r \in InFlight}

Call(r) ==
  /\ pc[r] = "idle"
  /\ \E v \in Vouchers :
       /\ \A a \in Outstanding : a + MaxAmount <= v
       /\ \E a \in Outstanding : a + MaxAmount = v
       /\ amount' = [amount EXCEPT ![r] = v]
  /\ MoveTo(r, "verify")
  /\ UNCHANGED <<storeVars, escrow, receipt, postVars, closerVars>>

\* verifyWithScope succeeds: mppx has stored the voucher and charged the request's
\* amount, which is always maxAmount, to `spent`.
Charged(v) == v >= spent + MaxAmount

VerifyAccepts(r) ==
  /\ pc[r] = "verify"
  /\ VoucherAcceptable(chan, amount[r])
  /\ Charged(amount[r])
  /\ chan' = AcceptVoucher(chan, amount[r])
  /\ spent' = spent + MaxAmount
  /\ MoveTo(r, "payer")
  /\ UNCHANGED <<kept, escrow, amount, receipt, postVars, closerVars>>

VerifyRejects(r) ==
  /\ pc[r] = "verify"
  /\ MoveTo(r, "rejected")
  /\ UNCHANGED <<storeVars, escrow, amount, receipt, postVars, closerVars>>

ResolvePayer(r) ==
  /\ pc[r] = "payer"
  /\ chan.exists
  /\ MoveTo(r, "handler")
  /\ UNCHANGED <<storeVars, escrow, amount, receipt, postVars, closerVars>>

\* The 402 channel_state_missing_after_verify, or the store read throws.
PayerMissing(r) ==
  /\ pc[r] = "payer"
  /\ MoveTo(r, "unresolved")
  /\ UNCHANGED <<storeVars, escrow, amount, receipt, postVars, closerVars>>

\* A mistake the properties must notice: nothing clamps a negative amount.
FinalAmountSigned(s) == IF s = NoSettle \/ s > MaxAmount THEN MaxAmount ELSE s

\* settle() is last-wins; without it the whole of maxAmount is billed, above it
\* the amount is clamped, and a negative one counts as zero.
FinalAmount(s) ==
  IF s = NoSettle \/ s > MaxAmount THEN MaxAmount
  ELSE IF s < 0 THEN 0 ELSE s

\* next() returns: the handler is through, or Hono has turned its exception into a
\* response, in which case settle() need not have been called.  The receipt is made
\* at once, before the next await.
HandlerReturns(r) ==
  /\ pc[r] = "handler"
  /\ \E s \in SettleArgs \cup {NoSettle} : receipt' = [receipt EXCEPT ![r] = FinalAmount(s)]
  /\ MoveTo(r, "override")
  /\ UNCHANGED <<storeVars, escrow, amount, postVars, closerVars>>

\* next() throws: no receipt, and `spent` keeps the charge of maxAmount.
HandlerThrows(r) ==
  /\ pc[r] = "handler"
  /\ MoveTo(r, "failed")
  /\ UNCHANGED <<storeVars, escrow, amount, receipt, postVars, closerVars>>

\* A mistake the properties must notice: the charge of maxAmount is left alone.
OverrideNothing(r) ==
  /\ pc[r] = "override"
  /\ MoveTo(r, "served")
  /\ UNCHANGED <<storeVars, escrow, amount, receipt, postVars, closerVars>>

\* The store's `spent` becomes the actual amount, unless the channel was finalized.
OverrideSpent(r) ==
  /\ pc[r] = "override"
  /\ spent' = IF chan.exists /\ ~chan.finalized THEN receipt[r] ELSE spent
  /\ MoveTo(r, "served")
  /\ UNCHANGED <<chan, kept, escrow, amount, receipt, postVars, closerVars>>

\* The override throws and is logged; the receipt goes out all the same.
OverrideBreaks(r) ==
  /\ pc[r] = "override"
  /\ MoveTo(r, "unbooked")
  /\ UNCHANGED <<storeVars, escrow, amount, receipt, postVars, closerVars>>

CallLost(r) ==
  /\ pc[r] \in InFlightStates
  /\ MoveTo(r, "lost")
  /\ UNCHANGED <<storeVars, escrow, amount, receipt, postVars, closerVars>>

-----------------------------------------------------------------------------
(* The buyer closes: it signs for a receipt it has had and posts that      *)
(* either to the metered route (action "close") or to a close endpoint of  *)
(* the service that calls persistMeteredCloseVoucher.                      *)

AnswerPost(p, answer) == postPc' = [postPc EXCEPT ![p] = answer]

PostClose(p) ==
  /\ postPc[p] = "idle"
  /\ \E r \in Answered : closing' = [closing EXCEPT ![p] = receipt[r]]
  /\ AnswerPost(p, "persist")
  /\ UNCHANGED <<storeVars, escrow, callVars, closerVars>>

\* mppMetered hands persistMeteredCloseVoucher ctx.mppx, which is what Mppx.create
\* returned and has no channelStore: the call throws, the exception is logged as
\* metered_close_persist_failed, and the handler goes on.
PersistThrows(p) ==
  /\ postPc[p] = "persist"
  /\ AnswerPost(p, "verify")
  /\ UNCHANGED <<storeVars, escrow, closing, callVars, closerVars>>

\* persistMeteredCloseVoucher with the store, as a service's endpoint calls it.
Persist(p) ==
  /\ postPc[p] = "persist"
  /\ chan.exists
  /\ kept' = closing[p]
  /\ AnswerPost(p, "kept")
  /\ UNCHANGED <<chan, spent, escrow, closing, callVars, closerVars>>

\* verifyWithScope on the close credential: mppx checks the amount against `spent`,
\* closes on chain and records it.
CloseVerified(p) ==
  /\ postPc[p] = "verify"
  /\ ~chan.finalized
  /\ closing[p] >= spent
  /\ CloseAccepted(escrow, closing[p])
  /\ escrow' = CloseEscrow(escrow, closing[p])
  /\ chan' = RecordClose(chan, closing[p])
  /\ AnswerPost(p, "closed")
  /\ UNCHANGED <<spent, kept, closing, callVars, closerVars>>

\* It throws: the check fails, the RPC is down, or the transaction went through and
\* its receipt was lost.  The buyer gets the 422.
CloseRefused(p) ==
  /\ postPc[p] = "verify"
  /\ \/ UNCHANGED escrow
     \/ /\ ~chan.finalized
        /\ closing[p] >= spent
        /\ CloseAccepted(escrow, closing[p])
        /\ escrow' = CloseEscrow(escrow, closing[p])
  /\ AnswerPost(p, "refused")
  /\ UNCHANGED <<storeVars, closing, callVars, closerVars>>

-----------------------------------------------------------------------------
(* The seller closes.                                                      *)

StartSubmit(c, v) ==
  /\ submitted' = [submitted EXCEPT ![c] = v]
  /\ closerPc' = [closerPc EXCEPT ![c] = "submit"]

\* Mistakes the properties must notice: the reaper submits the authorized voucher,
\* or takes the persisted one out of the store before it is settled.
ReaperReadsHighest(c) ==
  /\ closerPc[c] = "idle"
  /\ chan.exists
  /\ ~chan.finalized
  /\ kept # None
  /\ StartSubmit(c, chan.highest)
  /\ UNCHANGED <<storeVars, escrow, callVars, postVars, forced>>

ReaperTakes(c) ==
  /\ closerPc[c] = "idle"
  /\ chan.exists
  /\ ~chan.finalized
  /\ kept # None
  /\ StartSubmit(c, kept)
  /\ kept' = None
  /\ UNCHANGED <<chan, spent, escrow, callVars, postVars, forced>>

\* closeMeteredChannelFromState, called by the reaper.
ReaperReads(c) ==
  /\ closerPc[c] = "idle"
  /\ chan.exists
  /\ ~chan.finalized
  /\ kept # None
  /\ StartSubmit(c, kept)
  /\ UNCHANGED <<storeVars, escrow, callVars, postVars, forced>>

\* closeMeteredChannelOnChain with a close voucher the seller has in hand.
SubmitInHand(c) ==
  /\ closerPc[c] = "idle"
  /\ ~chan.finalized
  /\ \E p \in Posts : postPc[p] # "idle" /\ StartSubmit(c, closing[p])
  /\ UNCHANGED <<storeVars, escrow, callVars, postVars, forced>>

\* closeSessionOnChain: the seller gives up on the buyer and bills the maximum.
ForceClose(c) ==
  /\ closerPc[c] = "idle"
  /\ chan.highest # NoVoucher
  /\ ~chan.finalized
  /\ StartSubmit(c, chan.highest)
  /\ forced' = TRUE
  /\ UNCHANGED <<storeVars, escrow, callVars, postVars>>

CloserMoves(c, state) == closerPc' = [closerPc EXCEPT ![c] = state]

SubmitLands(c) ==
  /\ closerPc[c] = "submit"
  /\ CloseAccepted(escrow, submitted[c])
  /\ escrow' = CloseEscrow(escrow, submitted[c])
  /\ CloserMoves(c, "record")
  /\ UNCHANGED <<storeVars, callVars, postVars, submitted, forced>>

\* A mistake the properties must notice: a benign revert is recorded as a close.
SubmitRevertsAsClosed(c) ==
  /\ closerPc[c] = "submit"
  /\ ~CloseAccepted(escrow, submitted[c])
  /\ CloserMoves(c, "record")
  /\ UNCHANGED <<storeVars, escrow, callVars, postVars, submitted, forced>>

\* The contract reverts; the error is benign and the store is left as it is.
SubmitReverts(c) ==
  /\ closerPc[c] = "submit"
  /\ ~CloseAccepted(escrow, submitted[c])
  /\ CloserMoves(c, "idle")
  /\ UNCHANGED <<storeVars, escrow, callVars, postVars, submitted, forced>>

SubmitRecorded(c) ==
  /\ closerPc[c] = "record"
  /\ chan' = RecordClose(chan, submitted[c])
  /\ CloserMoves(c, "idle")
  /\ UNCHANGED <<spent, kept, escrow, callVars, postVars, submitted, forced>>

\* submitVoucher throws or its process dies, before or after the transaction.
SubmitFails(c) ==
  /\ closerPc[c] \in {"submit", "record"}
  /\ CloserMoves(c, "idle")
  /\ UNCHANGED <<storeVars, escrow, callVars, postVars, submitted, forced>>

\* The buyer's own way out, escrow.requestClose.
BuyerWithdraws ==
  /\ chan.exists
  /\ ~escrow.closed
  /\ escrow' = [escrow EXCEPT !.closed = TRUE]
  /\ UNCHANGED <<storeVars, callVars, postVars, closerVars>>

-----------------------------------------------------------------------------
CallStep(r) ==
  \/ Call(r) \/ VerifyAccepts(r) \/ VerifyRejects(r) \/ ResolvePayer(r) \/ PayerMissing(r)
  \/ HandlerReturns(r) \/ HandlerThrows(r) \/ OverrideSpent(r) \/ OverrideBreaks(r)
  \/ CallLost(r)

PostStep(p) ==
  PostClose(p) \/ PersistThrows(p) \/ Persist(p) \/ CloseVerified(p) \/ CloseRefused(p)

CloserStep(c) ==
  \/ ReaperReads(c) \/ SubmitInHand(c) \/ ForceClose(c)
  \/ SubmitLands(c) \/ SubmitReverts(c) \/ SubmitRecorded(c) \/ SubmitFails(c)

Next ==
  \/ \E r \in Calls : CallStep(r)
  \/ \E p \in Posts : PostStep(p)
  \/ \E c \in Closers : CloserStep(c)
  \/ BuyerWithdraws

Spec == Init /\ [][Next]_vars

\* The reaper comes round again and again, and a transaction that is sent again and
\* again and would be accepted is accepted in the end.
Fairness ==
  \A c \in Closers :
    WF_vars(ReaperReads(c)) /\ SF_vars(SubmitLands(c)) /\ WF_vars(SubmitReverts(c))

FairSpec == Spec /\ Fairness

-----------------------------------------------------------------------------
\* A channel marked finalized is closed on chain for the recorded amount, whichever
\* of mppx, the reaper and the seller's own calls closed it.
FinalizedMatchesEscrow ==
  chan.finalized => escrow.closed /\ chan.settled = escrow.settled

\* The amounts under the buyer's signature: authorizations and closes.
Signed ==
  {amount[r] : r \in {q \in Calls : pc[q] # "idle"}}
    \cup {closing[p] : p \in {q \in Posts : postPc[q] # "idle"}}

\* What the books show of the close.
Booked == IF chan.finalized THEN {chan.settled} ELSE {}

Channel == INSTANCE PaymentChannel
             WITH signed <- Signed, settled <- escrow.settled, closed <- escrow.closed,
                  booked <- Booked

\* Route, reaper and seller together keep the contract of one channel: whichever of the
\* four ways to close is first closes for an amount the buyer signed, and the books,
\* written by whoever comes last, follow the contract once and for all.
ActsAsChannel == Channel!Spec

\* The buyer is never made to pay more than a receipt said, unless the seller chose
\* to force the close at the maximum: the close helpers submit the voucher that was
\* persisted or handed to them and never the authorized one.
BilledByReceipt ==
  escrow.settled # 0 /\ ~forced => \E r \in Answered : receipt[r] = escrow.settled

\* Calls that may have left a charge of maxAmount in `spent`: they are under way, or
\* failed, were lost or had their override broken.
Unsettled ==
  {r \in Calls : pc[r] \in {"payer", "handler", "override",
                           "unbooked", "failed", "unresolved", "lost"}}

\* `spent`, below which mppx takes no close, is the receipt that was booked last and
\* one maxAmount for each unsettled call at most, however calls overlap.  So mppx
\* accepts the close at a receipt when every call was booked; a call that went wrong
\* bars it with its maxAmount until a later one is booked, and for good if none is.
SpentIsAccounted ==
  ~chan.finalized =>
    \E base \in {0} \cup {receipt[r] : r \in {q \in Calls : pc[q] = "served"}} :
      \E n \in 0 .. Cardinality(Unsettled) : spent = base + n * MaxAmount

\* Persist, reap, close: a close voucher that was persisted is settled on chain in
\* the end, whatever reapers die, revert or race with the other ways to close.
KeptVoucherSettles == kept # None ~> escrow.closed

\* A close that the buyer posted to the metered route is persisted before the
\* on-chain submission is tried, so that a reaper can complete it.
PostedCloseIsKept ==
  \A p \in Posts : postPc[p] \in {"verify", "refused"} => kept # None \/ escrow.closed
=============================================================================
