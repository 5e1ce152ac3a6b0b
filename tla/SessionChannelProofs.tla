------------------------ MODULE SessionChannelProofs ------------------------
(***************************************************************************)
(* SessionChannel's safety for every number of requests and closers, every *)
(* deposit and every setting of the switches.                              *)
(***************************************************************************)
EXTENDS SessionChannel, TLAPS

\* Every amount anyone still holds is one the buyer signed.
HeldAreSigned ==
  /\ OnlySignedVouchers
  /\ \A r \in Requests : prior[r] \in Signed \cup {NoVoucher}
  /\ \A c \in Closers : submitted[c] \in Signed \cup {NoVoucher}

\* The store never claims more than the contract paid, and a closer that has not
\* recorded its close yet knows exactly what was paid.
StoreTrailsEscrow ==
  /\ chan.settled <= escrow.settled
  /\ \A c \in Closers :
       closerPc[c] = "record" => escrow.closed /\ escrow.settled = submitted[c]

MoneyInv == FinalizedMatchesEscrow /\ NeverBricked /\ StoreTrailsEscrow

-----------------------------------------------------------------------------
\* A rollback keeps the shape of the channel state.
LEMMA RollbackType ==
  ASSUME NEW ch \in ChannelState, NEW p \in Amounts
  PROVE  RollbackVoucher(ch, p) \in ChannelState
BY DEF RollbackVoucher, ChannelState

\* Accepting an affordable voucher keeps the shape of the channel state.
LEMMA AcceptType ==
  ASSUME NEW ch \in ChannelState, NEW v \in Amounts
  PROVE  AcceptVoucher(ch, v) \in ChannelState
BY DEF AcceptVoucher, ChannelState

\* Recording a close keeps the shape of the channel state.
LEMMA RecordType ==
  ASSUME NEW ch \in ChannelState, NEW v \in Amounts
  PROVE  RecordClose(ch, v) \in ChannelState
BY DEF RecordClose, ChannelState

-----------------------------------------------------------------------------
\* All variables keep their types: in particular no step leaves an amount
\* outside 0..Deposit, neither in the store nor on chain.
THEOREM TypeCorrect == Spec => []TypeOK
<1>1. Init => TypeOK
  BY DepositAssumption DEF Init, TypeOK, NoChannel, OpenEscrow, ChannelState, EscrowState,
     Amounts, NoVoucher
<1>2. TypeOK /\ [Next]_vars => TypeOK'
  <2> SUFFICES ASSUME TypeOK, [Next]_vars PROVE TypeOK'
    OBVIOUS
  <2> USE DEF TypeOK, reqVars, closerVars, MoveTo, InFlightStates, EndStates
  <2>1. ASSUME NEW r \in Requests, Send(r) PROVE TypeOK'
    BY <2>1 DEF Send, Vouchers, Amounts
  <2>2. ASSUME NEW r \in Requests, Capture(r) PROVE TypeOK'
    BY <2>2 DEF Capture, ChannelState
  <2>3. ASSUME NEW r \in Requests, VerifyAccepts(r) PROVE TypeOK'
    BY <2>3, AcceptType DEF VerifyAccepts
  <2>4. ASSUME NEW r \in Requests, Rollback(r) PROVE TypeOK'
    BY <2>4, RollbackType DEF Rollback
  <2>5. ASSUME NEW r \in Requests,
               VerifyRejects(r) \/ ResolvePayer(r) \/ PayerMissing(r) \/ HandlerFails(r)
               \/ RollbackBreaks(r) \/ RequestLost(r)
        PROVE TypeOK'
    BY <2>5 DEF VerifyRejects, ResolvePayer, PayerMissing, HandlerFails, RollbackBreaks,
       RequestLost
  <2>6. ASSUME NEW r \in Requests, HandlerSucceeds(r) PROVE TypeOK'
    BY <2>6 DEF HandlerSucceeds
  <2>7. ASSUME NEW c \in Closers, CloserReads(c) PROVE TypeOK'
    BY <2>7 DEF CloserReads, ChannelState
  <2>8. ASSUME NEW c \in Closers, CloseLands(c) PROVE TypeOK'
    BY <2>8 DEF CloseLands, CloseEscrow, EscrowState
  <2>9. ASSUME NEW c \in Closers, CloseRecorded(c) PROVE TypeOK'
    BY <2>9, RecordType DEF CloseRecorded
  <2>10. ASSUME NEW c \in Closers, CloseReverts(c) \/ CloserFails(c) PROVE TypeOK'
    BY <2>10 DEF CloseReverts, CloserFails
  <2>11. CASE SettleOnChain
    BY <2>11 DEF SettleOnChain, ChannelState, EscrowState
  <2>12. CASE BuyerWithdraws
    BY <2>12 DEF BuyerWithdraws, EscrowState
  <2>13. CASE UNCHANGED vars
    BY <2>13 DEF vars
  <2> QED
    BY <2>1, <2>2, <2>3, <2>4, <2>5, <2>6, <2>7, <2>8, <2>9, <2>10, <2>11, <2>12, <2>13
    DEF Next, RequestStep, CloserStep
<1> QED
  BY <1>1, <1>2, PTL DEF Spec

-----------------------------------------------------------------------------
\* The agreement of store and escrow is inductive once StoreTrailsEscrow is added:
\* without it a recorded close could raise `settled` past what was paid.
LEMMA MoneyInductive == TypeOK /\ MoneyInv /\ [Next]_vars => MoneyInv'
<1> SUFFICES ASSUME TypeOK, MoneyInv, [Next]_vars PROVE MoneyInv'
  OBVIOUS
<1> USE DEF TypeOK, MoneyInv, FinalizedMatchesEscrow, NeverBricked, StoreTrailsEscrow,
            reqVars, closerVars, ChannelState, EscrowState, Amounts
<1>1. ASSUME NEW r \in Requests,
             Send(r) \/ Capture(r) \/ VerifyRejects(r) \/ ResolvePayer(r) \/ PayerMissing(r)
             \/ HandlerSucceeds(r) \/ HandlerFails(r) \/ RollbackBreaks(r) \/ RequestLost(r)
      PROVE MoneyInv'
  <2>1. UNCHANGED <<chan, escrow, closerPc, submitted>>
    BY <1>1 DEF Send, Capture, VerifyRejects, ResolvePayer, PayerMissing, HandlerSucceeds,
       HandlerFails, RollbackBreaks, RequestLost
  <2> QED
    BY <2>1
<1>2. ASSUME NEW r \in Requests, VerifyAccepts(r) PROVE MoneyInv'
  BY <1>2, DepositAssumption DEF VerifyAccepts, AcceptVoucher, VoucherAcceptable
<1>3. ASSUME NEW r \in Requests, Rollback(r) PROVE MoneyInv'
  BY <1>3, DepositAssumption DEF Rollback, RollbackVoucher, CanRollBack
<1>4. ASSUME NEW c \in Closers, CloserReads(c) PROVE MoneyInv'
  BY <1>4 DEF CloserReads
<1>5. ASSUME NEW c \in Closers, CloseLands(c) PROVE MoneyInv'
  <2>1. ~escrow.closed /\ escrow.settled <= submitted[c] /\ submitted[c] \in Nat
    BY <1>5, DepositAssumption DEF CloseLands, CloseAccepted
  <2>2. escrow'.closed /\ escrow'.settled = submitted[c] /\ chan' = chan
    BY <1>5 DEF CloseLands, CloseEscrow
  <2>3. \A d \in Closers : closerPc[d] # "record"
    BY <2>1
  <2>4. \A d \in Closers : closerPc'[d] = "record" => submitted'[d] = submitted[c]
    BY <1>5, <2>3 DEF CloseLands
  <2>5. chan.settled <= submitted[c]
    BY <2>1, DepositAssumption
  <2> QED
    BY <2>1, <2>2, <2>4, <2>5
<1>6. ASSUME NEW c \in Closers, CloseRecorded(c) PROVE MoneyInv'
  BY <1>6, DepositAssumption DEF CloseRecorded, RecordClose
<1>7. ASSUME NEW c \in Closers, CloseReverts(c) \/ CloserFails(c) PROVE MoneyInv'
  BY <1>7 DEF CloseReverts, CloserFails
<1>8. CASE SettleOnChain
  BY <1>8, DepositAssumption DEF SettleOnChain
<1>9. CASE BuyerWithdraws
  BY <1>9 DEF BuyerWithdraws
<1>10. CASE UNCHANGED vars
  BY <1>10 DEF vars
<1> QED
  BY <1>1, <1>2, <1>3, <1>4, <1>5, <1>6, <1>7, <1>8, <1>9, <1>10
  DEF Next, RequestStep, CloserStep

\* Store and escrow agree in every reachable state.
LEMMA MoneyInvariant == Spec => []MoneyInv
<1>1. Init => MoneyInv
  BY DepositAssumption DEF Init, MoneyInv, FinalizedMatchesEscrow, NeverBricked,
     StoreTrailsEscrow, NoChannel, OpenEscrow, NoVoucher
<1> QED
  BY <1>1, TypeCorrect, MoneyInductive, PTL DEF Spec

\* Whatever interleaving of requests, rollbacks, closers, settles, crashes and lost
\* receipts led there, a channel marked finalized is closed on chain for exactly
\* the recorded amount.
THEOREM FinalizedIsPaid == Spec => []FinalizedMatchesEscrow
<1>1. MoneyInv => FinalizedMatchesEscrow
  BY DEF MoneyInv
<1> QED
  BY <1>1, MoneyInvariant, PTL

\* rollbackSessionVoucher never takes the stored voucher below what the contract
\* has already paid out, so an open channel can always be closed.
THEOREM RollbackNeverBricks == Spec => []NeverBricked
<1>1. MoneyInv => NeverBricked
  BY DEF MoneyInv
<1> QED
  BY <1>1, MoneyInvariant, PTL

\* A finalized channel never changes again.
THEOREM FinalizedForGood == Spec => FinalizedIsFinal
<1>1. TypeOK /\ MoneyInv /\ [Next]_vars => [chan.finalized => chan' = chan]_vars
  <2> SUFFICES ASSUME TypeOK, MoneyInv, Next, chan.finalized PROVE chan' = chan
    OBVIOUS
  <2>1. escrow.closed /\ chan.settled = escrow.settled
    BY DEF MoneyInv, FinalizedMatchesEscrow
  <2>2. ASSUME NEW r \in Requests, RequestStep(r) PROVE chan' = chan
    BY <2>2 DEF RequestStep, Send, Capture, VerifyAccepts, VoucherAcceptable, VerifyRejects,
       ResolvePayer, PayerMissing, HandlerSucceeds, HandlerFails, Rollback, RollbackVoucher,
       CanRollBack, RollbackBreaks, RequestLost
  <2>3. ASSUME NEW c \in Closers, CloseRecorded(c) PROVE chan' = chan
    <3>1. submitted[c] = chan.settled
      BY <2>1, <2>3 DEF CloseRecorded, MoneyInv, StoreTrailsEscrow
    <3>2. chan \in ChannelState
      BY DEF TypeOK
    <3> QED
      BY <2>3, <3>1, <3>2 DEF CloseRecorded, RecordClose, ChannelState
  <2>4. ASSUME NEW c \in Closers, CloserStep(c), ~CloseRecorded(c) PROVE chan' = chan
    BY <2>4 DEF CloserStep, CloserReads, CloseLands, CloseReverts, CloserFails
  <2>5. ASSUME SettleOnChain \/ BuyerWithdraws PROVE chan' = chan
    BY <2>1, <2>5 DEF SettleOnChain, BuyerWithdraws
  <2> QED
    BY <2>2, <2>3, <2>4, <2>5 DEF Next
<1> QED
  BY <1>1, TypeCorrect, MoneyInvariant, PTL DEF Spec, FinalizedIsFinal

-----------------------------------------------------------------------------
\* The rollback target and the closer's copy have to be part of the induction:
\* they are what a later step writes to the store or sends to the contract.
LEMMA HeldInductive == TypeOK /\ HeldAreSigned /\ [Next]_vars => HeldAreSigned'
<1> SUFFICES ASSUME TypeOK, HeldAreSigned, [Next]_vars PROVE HeldAreSigned'
  OBVIOUS
<1> USE DEF HeldAreSigned, OnlySignedVouchers
<1>1. Signed \subseteq Signed'
  <2> SUFFICES ASSUME NEW q \in Requests, pc[q] # "idle"
               PROVE  pc'[q] # "idle" /\ amount'[q] = amount[q]
    BY DEF Signed
  <2>1. ASSUME NEW r \in Requests, RequestStep(r) PROVE pc'[q] # "idle" /\ amount'[q] = amount[q]
    BY <2>1 DEF TypeOK, RequestStep, MoveTo, Send, Capture, VerifyAccepts, VerifyRejects,
       ResolvePayer, PayerMissing, HandlerSucceeds, HandlerFails, Rollback, RollbackBreaks,
       RequestLost
  <2>2. ASSUME NEW c \in Closers, CloserStep(c) PROVE UNCHANGED <<pc, amount>>
    BY <2>2 DEF CloserStep, CloserReads, CloseLands, CloseReverts, CloseRecorded, CloserFails,
       reqVars
  <2>3. ASSUME SettleOnChain \/ BuyerWithdraws \/ UNCHANGED vars PROVE UNCHANGED <<pc, amount>>
    BY <2>3 DEF SettleOnChain, BuyerWithdraws, vars, reqVars
  <2> QED
    BY <2>1, <2>2, <2>3 DEF Next
<1>2. ASSUME NEW r \in Requests, Capture(r) PROVE HeldAreSigned'
  BY <1>1, <1>2 DEF Capture, closerVars, TypeOK
<1>3. ASSUME NEW r \in Requests, VerifyAccepts(r) PROVE HeldAreSigned'
  <2>1. amount[r] \in Signed
    BY <1>3 DEF VerifyAccepts, Signed
  <2>2. chan'.highest \in {chan.highest, amount[r]}
    BY <1>3 DEF VerifyAccepts, AcceptVoucher, TypeOK, ChannelState
  <2> QED
    BY <1>1, <1>3, <2>1, <2>2 DEF VerifyAccepts, closerVars
<1>4. ASSUME NEW r \in Requests, Rollback(r) PROVE HeldAreSigned'
  <2>1. chan'.highest \in {chan.highest, prior[r]}
    BY <1>4 DEF Rollback, RollbackVoucher, TypeOK, ChannelState
  <2> QED
    BY <1>1, <1>4, <2>1 DEF Rollback, closerVars
<1>5. ASSUME NEW r \in Requests,
             Send(r) \/ VerifyRejects(r) \/ ResolvePayer(r) \/ PayerMissing(r)
             \/ HandlerSucceeds(r) \/ HandlerFails(r) \/ RollbackBreaks(r) \/ RequestLost(r)
      PROVE HeldAreSigned'
  BY <1>1, <1>5 DEF Send, VerifyRejects, ResolvePayer, PayerMissing, HandlerSucceeds,
     HandlerFails, RollbackBreaks, RequestLost, closerVars
<1>6. ASSUME NEW c \in Closers, CloserReads(c) PROVE HeldAreSigned'
  BY <1>1, <1>6 DEF CloserReads, reqVars, TypeOK
<1>7. ASSUME NEW c \in Closers, CloseLands(c) PROVE HeldAreSigned'
  <2>1. escrow'.settled = submitted[c]
    BY <1>7 DEF CloseLands, CloseEscrow, TypeOK, EscrowState
  <2> QED
    BY <1>1, <1>7, <2>1 DEF CloseLands, reqVars
<1>8. ASSUME NEW c \in Closers, CloseRecorded(c) PROVE HeldAreSigned'
  <2>1. chan'.highest = chan.highest
    BY <1>8 DEF CloseRecorded, RecordClose, TypeOK, ChannelState
  <2> QED
    BY <1>1, <1>8, <2>1 DEF CloseRecorded, reqVars
<1>9. ASSUME NEW c \in Closers, CloseReverts(c) \/ CloserFails(c) PROVE HeldAreSigned'
  BY <1>1, <1>9 DEF CloseReverts, CloserFails, reqVars
<1>10. CASE SettleOnChain
  <2>1. escrow'.settled = chan.highest /\ chan'.highest = chan.highest
    BY <1>10 DEF SettleOnChain, TypeOK, EscrowState, ChannelState
  <2> QED
    BY <1>1, <1>10, <2>1 DEF SettleOnChain, reqVars, closerVars
<1>11. CASE BuyerWithdraws
  <2>1. escrow'.settled = escrow.settled
    BY <1>11 DEF BuyerWithdraws, TypeOK, EscrowState
  <2> QED
    BY <1>1, <1>11, <2>1 DEF BuyerWithdraws, reqVars, closerVars
<1>12. CASE UNCHANGED vars
  BY <1>1, <1>12 DEF vars
<1> QED
  BY <1>2, <1>3, <1>4, <1>5, <1>6, <1>7, <1>8, <1>9, <1>10, <1>11, <1>12
  DEF Next, RequestStep, CloserStep

\* The seller's store and the contract only ever hold amounts the buyer signed,
\* although rollbacks and closers write back values they read awaits ago.
THEOREM NothingUnsigned == Spec => []OnlySignedVouchers
<1>1. Init => HeldAreSigned
  BY DEF Init, HeldAreSigned, OnlySignedVouchers, NoChannel, OpenEscrow, NoVoucher
<1>2. HeldAreSigned => OnlySignedVouchers
  BY DEF HeldAreSigned
<1> QED
  BY <1>1, <1>2, TypeCorrect, HeldInductive, PTL DEF Spec

-----------------------------------------------------------------------------
(* One request at a time.                                                  *)

OneInFlight == \A r, s \in InFlight : r = s

\* A request's rollback target still covers every 200 the buyer has had, and
\* belongs to another call that keeps its voucher.
TargetIsSafe(r) ==
  /\ paidFor <= prior[r]
  /\ prior[r] # NoVoucher =>
       \E q \in Requests : q # r /\ amount[q] = prior[r] /\ pc[q] \in KeptStates

SerialInv ==
  /\ OneInFlight
  /\ \A r \in Requests : pc[r] = "served" => amount[r] <= paidFor
  /\ paidFor <= chan.highest
  /\ \A r \in Requests : pc[r] \in {"payer", "handler", "rollback"} => amount[r] <= chan.highest
  /\ \A r \in Requests : pc[r] = "rollback" => armed[r]
  /\ \A r \in Requests : pc[r] \in {"idle", "capture"} => ~armed[r]
  /\ \A r \in Requests :
       pc[r] \in {"verify", "payer", "handler", "rollback"} /\ armed[r] => TargetIsSafe(r)
  /\ RolledBackCallsUnbilled

\* The handlers' steps, with the other requests at rest.
LEMMA SerialRequestStep ==
  ASSUME ~Overlap, TypeOK, SerialInv, NEW r \in Requests, RequestStep(r)
  PROVE  SerialInv'
<1> USE DEF TypeOK, SerialInv, OneInFlight, TargetIsSafe, RolledBackCallsUnbilled, InFlight,
            InFlightStates, KeptStates, EndStates, MoveTo, NoVoucher
<1>1. CASE Send(r)
  <2>1. pc[r] = "idle" /\ (\A q \in Requests : pc[q] \notin InFlightStates)
    BY <1>1 DEF Send, Quiet
  <2>2. /\ \A q \in Requests : q # r => pc'[q] = pc[q] /\ amount'[q] = amount[q]
        /\ pc'[r] = "capture"
        /\ UNCHANGED <<chan, paidFor, prior, armed>>
    BY <1>1 DEF Send
  <2>3. RolledBackCallsUnbilled'
    BY <2>1, <2>2
  <2> QED
    BY <2>1, <2>2, <2>3
<1>2. CASE Capture(r)
  <2>1. \A q \in Requests : q # r => pc[q] \notin InFlightStates
    BY <1>2 DEF Capture
  <2>2. paidFor <= chan.highest /\ pc[r] \notin KeptStates
    BY <1>2 DEF Capture
  <2>3. \A q \in Requests : q # r => pc'[q] = pc[q]
    BY <1>2 DEF Capture
  <2>4. OneInFlight'
    BY <2>1, <2>3
  <2>5. pc'[r] = "verify" /\ armed'[r] => TargetIsSafe(r)'
    BY <1>2, <2>2, <2>3, DepositAssumption DEF Capture, ChannelState, Amounts
  <2>6. pc'[r] = "verify" /\ UNCHANGED <<chan, paidFor, amount>>
    BY <1>2 DEF Capture
  <2>7. RolledBackCallsUnbilled'
    BY <2>2, <2>3, <2>6
  <2>8. \A q \in Requests : q # r => armed'[q] = armed[q] /\ pc'[q] \notin InFlightStates
    BY <1>2, <2>1, <2>3 DEF Capture
  <2>9. \A q \in Requests :
          pc'[q] \in {"verify", "payer", "handler", "rollback"} /\ armed'[q] => TargetIsSafe(q)'
    <3> SUFFICES ASSUME NEW q \in Requests,
                        pc'[q] \in {"verify", "payer", "handler", "rollback"}, armed'[q]
                 PROVE  TargetIsSafe(q)'
      OBVIOUS
    <3>1. q = r
      BY <2>8
    <3> QED
      BY <2>5, <2>6, <3>1
  <2> HIDE DEF TargetIsSafe, OneInFlight, RolledBackCallsUnbilled
  <2> QED
    BY <2>3, <2>4, <2>6, <2>7, <2>8, <2>9
<1>3. CASE VerifyAccepts(r)
  BY <1>3, DepositAssumption DEF VerifyAccepts, AcceptVoucher, ChannelState, Amounts
<1>4. CASE VerifyRejects(r)
  BY <1>4 DEF VerifyRejects
<1>5. CASE ResolvePayer(r)
  BY <1>5 DEF ResolvePayer
<1>6. CASE PayerMissing(r)
  BY <1>6 DEF PayerMissing
<1>7. CASE HandlerSucceeds(r)
  BY <1>7, DepositAssumption DEF HandlerSucceeds, Amounts
<1>8. CASE HandlerFails(r)
  BY <1>8 DEF HandlerFails
<1>9. CASE Rollback(r)
  BY <1>9, DepositAssumption DEF Rollback, RollbackVoucher, CanRollBack, ChannelState, Amounts
<1>10. CASE RollbackBreaks(r)
  BY <1>10 DEF RollbackBreaks
<1>11. CASE RequestLost(r)
  BY <1>11 DEF RequestLost
<1> QED
  BY <1>1, <1>2, <1>3, <1>4, <1>5, <1>6, <1>7, <1>8, <1>9, <1>10, <1>11 DEF RequestStep

\* Closers, settles and the buyer's withdrawal leave the requests and the stored
\* voucher alone.
LEMMA SerialOtherStep ==
  ASSUME TypeOK, SerialInv,
         (\E c \in Closers : CloserStep(c)) \/ SettleOnChain \/ BuyerWithdraws \/ UNCHANGED vars
  PROVE  SerialInv'
<1>1. UNCHANGED reqVars
  BY DEF CloserStep, CloserReads, CloseLands, CloseReverts, CloseRecorded, CloserFails,
     SettleOnChain, BuyerWithdraws, vars, reqVars
<1>2. chan'.highest = chan.highest
  BY DEF TypeOK, ChannelState, CloserStep, CloserReads, CloseLands, CloseReverts,
     CloseRecorded, RecordClose, CloserFails, SettleOnChain, BuyerWithdraws, vars
<1> QED
  BY <1>1, <1>2 DEF SerialInv, OneInFlight, TargetIsSafe, RolledBackCallsUnbilled, InFlight,
     reqVars

\* With one request at a time the two billing promises are invariant.
LEMMA SerialInvariant == ~Overlap => (Spec => []SerialInv)
<1> SUFFICES ASSUME ~Overlap PROVE Spec => []SerialInv
  OBVIOUS
<1>1. Init => SerialInv
  BY DepositAssumption DEF Init, SerialInv, OneInFlight, RolledBackCallsUnbilled, InFlight,
     InFlightStates, NoChannel, NoVoucher
<1>2. TypeOK /\ SerialInv /\ [Next]_vars => SerialInv'
  BY SerialRequestStep, SerialOtherStep DEF Next
<1> QED
  BY <1>1, <1>2, TypeCorrect, PTL DEF Spec

\* refundOnFailure never takes back a call that was answered with a 200, as long
\* as no two requests of the channel overlap: for any number of calls, failures,
\* crashes, replays, settles and closers.
THEOREM SerialCallsStayBilled == ~Overlap => (Spec => []ServedCallsStayBilled)
<1> SUFFICES ASSUME ~Overlap PROVE Spec => []ServedCallsStayBilled
  OBVIOUS
<1>1. TypeOK /\ SerialInv => ServedCallsStayBilled
  BY DepositAssumption DEF TypeOK, SerialInv, ServedCallsStayBilled, ChannelState, Amounts
<1> QED
  BY <1>1, TypeCorrect, SerialInvariant, PTL

\* Nor does the stored voucher, under the same condition, ever stand for calls
\* that were all rolled back.
THEOREM SerialRollbacksUnbilled == ~Overlap => (Spec => []RolledBackCallsUnbilled)
<1> SUFFICES ASSUME ~Overlap PROVE Spec => []RolledBackCallsUnbilled
  OBVIOUS
<1>1. SerialInv => RolledBackCallsUnbilled
  BY DEF SerialInv
<1> QED
  BY <1>1, SerialInvariant, PTL

-----------------------------------------------------------------------------
(* The channel as buyer and seller rely on it.                             *)

\* A closer under way has a voucher in its hands.
ClosersHoldVouchers == \A c \in Closers : closerPc[c] # "idle" => submitted[c] # NoVoucher

ChannelInv == TypeOK /\ MoneyInv /\ HeldAreSigned /\ ClosersHoldVouchers

LEMMA ClosersInductive == TypeOK /\ ClosersHoldVouchers /\ [Next]_vars => ClosersHoldVouchers'
<1> SUFFICES ASSUME TypeOK, ClosersHoldVouchers, [Next]_vars PROVE ClosersHoldVouchers'
  OBVIOUS
<1> USE DEF TypeOK, ClosersHoldVouchers
<1>1. ASSUME NEW c \in Closers, CloserStep(c) PROVE ClosersHoldVouchers'
  BY <1>1 DEF CloserStep, CloserReads, CloseLands, CloseReverts, CloseRecorded, CloserFails
<1>2. ASSUME UNCHANGED closerVars PROVE ClosersHoldVouchers'
  BY <1>2 DEF closerVars
<1> QED
  BY <1>1, <1>2 DEF Next, vars, closerVars, RequestStep, Send, Capture, VerifyAccepts,
     VerifyRejects, ResolvePayer, PayerMissing, HandlerSucceeds, HandlerFails, Rollback,
     RollbackBreaks, RequestLost, SettleOnChain, BuyerWithdraws

LEMMA ChannelInvariant == Spec => []ChannelInv
<1>1. Init => HeldAreSigned /\ ClosersHoldVouchers
  BY DEF Init, HeldAreSigned, OnlySignedVouchers, NoChannel, OpenEscrow, NoVoucher,
     ClosersHoldVouchers
<1> QED
  BY <1>1, TypeCorrect, MoneyInvariant, HeldInductive, ClosersInductive, PTL
  DEF Spec, ChannelInv

\* What a request does to the channel: it may sign a voucher, and nothing it does to
\* the store shows in the books.
LEMMA RequestsOnlySign ==
  ASSUME ChannelInv, NEW r \in Requests, RequestStep(r)
  PROVE  Channel!Next \/ UNCHANGED Channel!vars
<1> USE DEF ChannelInv, TypeOK, Channel!vars
<1>1. UNCHANGED escrow
  BY DEF RequestStep, Send, Capture, VerifyAccepts, VerifyRejects, ResolvePayer, PayerMissing,
     HandlerSucceeds, HandlerFails, Rollback, RollbackBreaks, RequestLost
<1>2. Booked' = Booked
  BY DEF Booked, RequestStep, Send, Capture, VerifyAccepts, AcceptVoucher, VerifyRejects,
     ResolvePayer, PayerMissing, HandlerSucceeds, HandlerFails, Rollback, RollbackVoucher,
     RollbackBreaks, RequestLost, ChannelState
<1>3. CASE Send(r)
  <2>1. PICK v \in Vouchers : amount' = [amount EXCEPT ![r] = v]
    BY <1>3 DEF Send
  <2>2. pc' = [pc EXCEPT ![r] = "capture"] /\ pc[r] = "idle"
    BY <1>3 DEF Send, MoveTo
  <2>3. Signed' = Signed \cup {v}
    <3>1. \A q \in Requests : q # r => amount'[q] = amount[q] /\ pc'[q] = pc[q]
      BY <2>1, <2>2
    <3>2. amount'[r] = v /\ pc'[r] = "capture"
      BY <2>1, <2>2
    <3> QED
      BY <2>2, <3>1, <3>2 DEF Signed
  <2>4. v \in Amounts
    BY DEF Vouchers, Amounts
  <2>5. Channel!Sign(v)
    BY <1>1, <1>2, <2>3 DEF Channel!Sign
  <2> QED
    BY <2>4, <2>5 DEF Channel!Next
<1>4. CASE ~Send(r)
  <2>1. /\ amount' = amount
        /\ pc[r] # "idle"
        /\ \E s \in InFlightStates \cup EndStates : pc' = [pc EXCEPT ![r] = s]
    BY <1>4 DEF RequestStep, MoveTo, Capture, VerifyAccepts, VerifyRejects, ResolvePayer,
       PayerMissing, HandlerSucceeds, HandlerFails, Rollback, RollbackBreaks, RequestLost,
       InFlightStates, EndStates
  <2>2. \A q \in Requests : pc'[q] # "idle" <=> pc[q] # "idle"
    BY <2>1 DEF InFlightStates, EndStates
  <2>3. Signed' = Signed
    BY <2>1, <2>2 DEF Signed
  <2> QED
    BY <1>1, <1>2, <2>3
<1> QED
  BY <1>3, <1>4

\* SessionChannel implements PaymentChannel: overlapping requests, rollbacks to stale
\* vouchers, racing closers and crashes never show in what is paid and booked.
THEOREM SessionIsChannel == Spec => ActsAsChannel
<1>1. Init => Channel!Init
  BY DEF Init, Channel!Init, Signed, Booked, NoChannel, OpenEscrow
<1>2. ChannelInv /\ [Next]_vars => [Channel!Next]_(Channel!vars)
  <2> SUFFICES ASSUME ChannelInv, [Next]_vars PROVE Channel!Next \/ UNCHANGED Channel!vars
    OBVIOUS
  <2> USE DEF ChannelInv, TypeOK, Channel!vars
  <2>1. ASSUME NEW r \in Requests, RequestStep(r) PROVE Channel!Next \/ UNCHANGED Channel!vars
    BY <2>1, RequestsOnlySign
  <2>2. ASSUME UNCHANGED <<pc, amount>> PROVE Signed' = Signed
    BY <2>2 DEF Signed
  <2>3. ASSUME NEW c \in Closers, CloserReads(c) \/ CloseReverts(c) \/ CloserFails(c)
        PROVE  UNCHANGED Channel!vars
    BY <2>2, <2>3 DEF CloserReads, CloseReverts, CloserFails, Booked, reqVars
  <2>4. ASSUME NEW c \in Closers, CloseLands(c) PROVE Channel!Next
    <3>1. submitted[c] \in Signed /\ submitted[c] \in Amounts
      BY <2>4 DEF CloseLands, HeldAreSigned, ClosersHoldVouchers
    <3>2. /\ ~escrow.closed /\ submitted[c] >= escrow.settled
          /\ escrow'.closed = TRUE /\ escrow'.settled = submitted[c]
          /\ Booked' = Booked /\ Signed' = Signed
      BY <2>2, <2>4 DEF CloseLands, CloseAccepted, CloseEscrow, EscrowState, Booked, reqVars
    <3>3. Channel!Close(submitted[c])
      BY <3>1, <3>2 DEF Channel!Close
    <3> QED
      BY <3>1, <3>3 DEF Channel!Next
  <2>5. ASSUME NEW c \in Closers, CloseRecorded(c) PROVE Channel!Next \/ UNCHANGED Channel!vars
    <3>1. escrow.closed /\ escrow.settled = submitted[c] /\ chan.settled <= submitted[c]
      BY <2>5 DEF CloseRecorded, MoneyInv, StoreTrailsEscrow
    <3>2. UNCHANGED escrow /\ Signed' = Signed
      BY <2>2, <2>5 DEF CloseRecorded, reqVars
    <3>3. CASE chan.exists
      <4>1. chan'.finalized /\ chan'.settled = escrow.settled
        BY <2>5, <3>1, <3>3, DepositAssumption
        DEF CloseRecorded, RecordClose, ChannelState, EscrowState, Amounts
      <4>2. Booked' = {escrow.settled} /\ escrow.closed = TRUE
        BY <3>1, <4>1 DEF Booked, EscrowState
      <4>3. CASE chan.finalized
        <5>1. Booked = {escrow.settled}
          BY <4>3 DEF Booked, MoneyInv, FinalizedMatchesEscrow
        <5> QED
          BY <3>2, <4>2, <5>1
      <4>4. CASE ~chan.finalized
        <5>1. Channel!Book
          BY <3>2, <4>2, <4>4 DEF Channel!Book, Booked
        <5> QED
          BY <5>1 DEF Channel!Next
      <4> QED
        BY <4>3, <4>4
    <3>4. CASE ~chan.exists
      <4>1. chan' = chan
        BY <2>5, <3>4 DEF CloseRecorded, RecordClose
      <4> QED
        BY <3>2, <4>1 DEF Booked
    <3> QED
      BY <3>3, <3>4
  <2>6. CASE SettleOnChain
    <3>1. chan.highest \in Amounts /\ chan.highest > escrow.settled /\ ~escrow.closed
      BY <2>6 DEF SettleOnChain, ChannelState
    <3>2. chan.highest \in Signed
      BY <3>1, DepositAssumption
      DEF HeldAreSigned, OnlySignedVouchers, NoVoucher, EscrowState, Amounts
    <3>3. ~chan.finalized
      BY <3>1 DEF MoneyInv, FinalizedMatchesEscrow
    <3>4. /\ escrow'.settled = chan.highest /\ escrow'.closed = escrow.closed
          /\ Booked' = Booked /\ Signed' = Signed
      BY <2>2, <2>6, <3>3 DEF SettleOnChain, ChannelState, EscrowState, Booked, reqVars
    <3>5. Channel!Settle(chan.highest)
      BY <3>1, <3>2, <3>4 DEF Channel!Settle
    <3> QED
      BY <3>1, <3>5 DEF Channel!Next
  <2>7. CASE BuyerWithdraws
    <3>1. /\ ~escrow.closed /\ escrow'.closed = TRUE /\ escrow'.settled = escrow.settled
          /\ Booked' = Booked /\ Signed' = Signed
      BY <2>2, <2>7 DEF BuyerWithdraws, EscrowState, Booked, reqVars
    <3> QED
      BY <3>1 DEF Channel!Next, Channel!Withdraw
  <2>8. CASE UNCHANGED vars
    BY <2>2, <2>8 DEF vars, Booked
  <2> QED
    BY <2>1, <2>3, <2>4, <2>5, <2>6, <2>7, <2>8 DEF Next, CloserStep
<1> QED
  BY <1>1, <1>2, ChannelInvariant, PTL DEF Spec, ActsAsChannel, Channel!Spec

-----------------------------------------------------------------------------
(* Without refundOnFailure.                                                *)

\* Nobody has a rollback target, so the stored voucher covers every call that got in.
NoTargets ==
  /\ \A r \in Requests : ~armed[r] /\ pc[r] # "rollback"
  /\ \A r \in Requests : pc[r] \in {"payer", "handler", "served"} => amount[r] <= chan.highest

LEMMA NoTargetsInductive ==
  ASSUME ~RefundOnFailure, TypeOK, NoTargets, [Next]_vars
  PROVE  NoTargets'
<1> USE DEF TypeOK, NoTargets, MoveTo
<1>1. ASSUME NEW r \in Requests, VerifyAccepts(r) PROVE NoTargets'
  BY <1>1, DepositAssumption DEF VerifyAccepts, AcceptVoucher, ChannelState, Amounts
<1>2. ASSUME NEW r \in Requests,
             Send(r) \/ Capture(r) \/ VerifyRejects(r) \/ ResolvePayer(r) \/ PayerMissing(r)
             \/ HandlerSucceeds(r) \/ HandlerFails(r) \/ Rollback(r) \/ RollbackBreaks(r)
             \/ RequestLost(r)
      PROVE NoTargets'
  BY <1>2 DEF Send, Capture, VerifyRejects, ResolvePayer, PayerMissing, HandlerSucceeds,
     HandlerFails, Rollback, RollbackBreaks, RequestLost
<1>3. ASSUME UNCHANGED reqVars, chan'.highest = chan.highest PROVE NoTargets'
  BY <1>3 DEF reqVars
<1>4. ASSUME NEW c \in Closers, CloserStep(c) PROVE NoTargets'
  BY <1>3, <1>4 DEF CloserStep, CloserReads, CloseLands, CloseReverts, CloseRecorded,
     RecordClose, CloserFails, ChannelState
<1>5. CASE SettleOnChain \/ BuyerWithdraws \/ UNCHANGED vars
  BY <1>3, <1>5 DEF SettleOnChain, BuyerWithdraws, vars, reqVars, ChannelState
<1> QED
  BY <1>1, <1>2, <1>4, <1>5 DEF Next, RequestStep

\* What SessionLostPayment shows takes refundOnFailure: without it a served call stays
\* billed however the requests of a channel overlap.
THEOREM CallsStayBilledWithoutRefunds == ~RefundOnFailure => (Spec => []ServedCallsStayBilled)
<1> SUFFICES ASSUME ~RefundOnFailure PROVE Spec => []ServedCallsStayBilled
  OBVIOUS
<1>1. Init => NoTargets
  BY DEF Init, NoTargets
<1>2. TypeOK /\ NoTargets /\ [Next]_vars => NoTargets'
  BY NoTargetsInductive
<1>3. NoTargets => ServedCallsStayBilled
  BY DEF NoTargets, ServedCallsStayBilled
<1> QED
  BY <1>1, <1>2, <1>3, TypeCorrect, PTL DEF Spec

-----------------------------------------------------------------------------
\* What PaymentChannel promises holds of this channel.
Promises == INSTANCE PaymentChannelProofs
              WITH signed <- Signed, settled <- escrow.settled, closed <- escrow.closed,
                   booked <- Booked

\* Requests that overlap, roll back and die do not change it: the contract pays an amount
\* under the buyer's signature, never takes it back, and the books come to show it.
THEOREM SessionKeepsPromises ==
  Spec => [](Promises!PaidIsSigned /\ Promises!BooksMatch) /\ Promises!NothingIsTakenBack
<1>1. Amounts \subseteq Nat
  BY DepositAssumption DEF Amounts
<1>2. Promises!Spec => [](Promises!PaidIsSigned /\ Promises!BooksMatch)
  BY <1>1, Promises!ChannelPaysAndBooks
<1>3. Promises!Spec => Promises!NothingIsTakenBack
  BY <1>1, Promises!ChannelTakesNothingBack
<1>4. Channel!Init => Promises!Init
  BY DEF Channel!Init, Promises!Init
<1>5. [Channel!Next]_(Channel!vars) => [Promises!Next]_(Promises!vars)
  BY DEF Channel!Next, Channel!vars, Channel!Sign, Channel!Settle, Channel!Close,
     Channel!Withdraw, Channel!Book, Promises!Next, Promises!vars, Promises!Sign,
     Promises!Settle, Promises!Close, Promises!Withdraw, Promises!Book
<1> QED
  BY <1>2, <1>3, <1>4, <1>5, SessionIsChannel, PTL DEF ActsAsChannel, Channel!Spec, Promises!Spec
=============================================================================
