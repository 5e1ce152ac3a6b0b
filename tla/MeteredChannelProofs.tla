------------------------- MODULE MeteredChannelProofs -------------------------
(***************************************************************************)
(* MeteredChannel's safety for every number of calls, close requests and   *)
(* closers, every deposit and maximum, and whatever handlers settle on.    *)
(***************************************************************************)
EXTENDS MeteredChannel, FiniteSetTheorems, TLAPS

\* A call that has been answered, or is about to be, has a receipt, and a posted
\* close has an amount.
AmountsKnown ==
  /\ \A r \in Calls : pc[r] \in {"override", "served", "unbooked"} => receipt[r] \in Receipts
  /\ \A p \in Posts : postPc[p] # "idle" => closing[p] \in Receipts

TypeInv == TypeOK /\ AmountsKnown

StoreTrailsEscrow ==
  /\ chan.settled <= escrow.settled
  /\ \A c \in Closers :
       closerPc[c] = "record" => escrow.closed /\ escrow.settled = submitted[c]

MoneyInv == FinalizedMatchesEscrow /\ StoreTrailsEscrow

\* What the buyer was told it would pay.
Issued == {receipt[r] : r \in Answered}

\* Every amount that is on its way to the contract, and the one that arrived.
ClaimsBacked ==
  /\ kept # None => kept \in Issued
  /\ \A p \in Posts : closing[p] # None => closing[p] \in Issued
  /\ ~forced => \A c \in Closers : submitted[c] = 0 \/ submitted[c] \in Issued
  /\ ~forced => escrow.settled = 0 \/ escrow.settled \in Issued

\* Calls that mppx has charged maxAmount to `spent` for and that will override it, and
\* calls that leave the charge as it is.
ChargingStates == {"payer", "handler", "override"}
SpoiltStates   == {"unbooked", "failed", "unresolved", "lost"}

\* A call that is charged has a channel to book into.
SpentInv ==
  /\ \A r \in Calls : pc[r] \in ChargingStates => chan.exists
  /\ IsFiniteSet(Unsettled)
  /\ SpentIsAccounted

-----------------------------------------------------------------------------
\* Whatever a handler settles on, the receipt lies between nothing and maxAmount.
LEMMA FinalAmountBounded ==
  ASSUME NEW s \in SettleArgs \cup {NoSettle}
  PROVE  FinalAmount(s) \in Receipts
BY MeteredAssumption DEF FinalAmount, Receipts

\* A receipt is an amount the deposit covers.
LEMMA ReceiptsAffordable == Receipts \subseteq Amounts
BY MeteredAssumption, DepositAssumption DEF Receipts, Amounts

\* Recording a close keeps the shape of the channel state.
LEMMA RecordKeepsType ==
  ASSUME NEW ch \in ChannelState, NEW v \in Amounts
  PROVE  RecordClose(ch, v) \in ChannelState
BY DEF RecordClose, ChannelState

\* One step keeps the types; AmountsKnown is what makes a receipt or a close
\* amount usable as a number.
LEMMA TypeInductive == TypeInv /\ [Next]_vars => TypeInv'
<1> SUFFICES ASSUME TypeInv, [Next]_vars PROVE TypeInv'
  OBVIOUS
<1> USE DEF TypeInv, TypeOK, AmountsKnown, storeVars, callVars, postVars, closerVars, MoveTo,
            AnswerPost, CloserMoves, StartSubmit, InFlightStates, EndStates, PostStates
<1>1. ASSUME NEW r \in Calls, Call(r) PROVE TypeInv'
  BY <1>1 DEF Call, Vouchers, Amounts
<1>2. ASSUME NEW r \in Calls, VerifyAccepts(r) PROVE TypeInv'
  <2>1. AcceptVoucher(chan, amount[r]) \in ChannelState
    BY DEF AcceptVoucher, ChannelState
  <2>2. spent' \in Nat
    BY <1>2, MeteredAssumption DEF VerifyAccepts
  <2> QED
    BY <1>2, <2>1, <2>2 DEF VerifyAccepts
<1>3. ASSUME NEW r \in Calls,
             VerifyRejects(r) \/ ResolvePayer(r) \/ PayerMissing(r) \/ HandlerThrows(r)
             \/ OverrideBreaks(r) \/ CallLost(r)
      PROVE TypeInv'
  BY <1>3 DEF VerifyRejects, ResolvePayer, PayerMissing, HandlerThrows, OverrideBreaks, CallLost
<1>4. ASSUME NEW r \in Calls, HandlerReturns(r) PROVE TypeInv'
  BY <1>4, FinalAmountBounded DEF HandlerReturns
<1>5. ASSUME NEW r \in Calls, OverrideSpent(r) PROVE TypeInv'
  <2>1. spent' \in Nat
    BY <1>5, MeteredAssumption DEF OverrideSpent, Receipts
  <2> QED
    BY <1>5, <2>1 DEF OverrideSpent
<1>6. ASSUME NEW p \in Posts, PostClose(p) PROVE TypeInv'
  BY <1>6 DEF PostClose, Answered
<1>7. ASSUME NEW p \in Posts, PersistThrows(p) \/ Persist(p) PROVE TypeInv'
  BY <1>7 DEF PersistThrows, Persist
<1>8. ASSUME NEW p \in Posts, CloseVerified(p) PROVE TypeInv'
  <2>1. closing[p] \in Amounts
    BY <1>8, ReceiptsAffordable DEF CloseVerified
  <2>2. RecordClose(chan, closing[p]) \in ChannelState
    BY <2>1, RecordKeepsType
  <2>3. CloseEscrow(escrow, closing[p]) \in EscrowState
    BY <2>1 DEF CloseEscrow, EscrowState
  <2> QED
    BY <1>8, <2>2, <2>3 DEF CloseVerified
<1>9. ASSUME NEW p \in Posts, CloseRefused(p) PROVE TypeInv'
  <2>1. closing[p] \in Amounts
    BY <1>9, ReceiptsAffordable DEF CloseRefused
  <2>2. escrow' \in EscrowState
    BY <1>9, <2>1 DEF CloseRefused, CloseEscrow, EscrowState
  <2> QED
    BY <1>9, <2>2 DEF CloseRefused
<1>10. ASSUME NEW c \in Closers, ReaperReads(c) \/ SubmitInHand(c) \/ ForceClose(c) PROVE TypeInv'
  <2>1. submitted' \in [Closers -> Amounts]
    BY <1>10, ReceiptsAffordable DEF ReaperReads, SubmitInHand, ForceClose, ChannelState
  <2> QED
    BY <1>10, <2>1 DEF ReaperReads, SubmitInHand, ForceClose
<1>11. ASSUME NEW c \in Closers, SubmitLands(c) PROVE TypeInv'
  BY <1>11 DEF SubmitLands, CloseEscrow, EscrowState
<1>12. ASSUME NEW c \in Closers, SubmitRecorded(c) PROVE TypeInv'
  BY <1>12, RecordKeepsType DEF SubmitRecorded
<1>13. ASSUME NEW c \in Closers, SubmitReverts(c) \/ SubmitFails(c) PROVE TypeInv'
  BY <1>13 DEF SubmitReverts, SubmitFails
<1>14. CASE BuyerWithdraws
  BY <1>14 DEF BuyerWithdraws, EscrowState
<1>15. CASE UNCHANGED vars
  BY <1>15 DEF vars
<1> QED
  BY <1>1, <1>2, <1>3, <1>4, <1>5, <1>6, <1>7, <1>8, <1>9, <1>10, <1>11, <1>12, <1>13, <1>14,
     <1>15 DEF Next, CallStep, PostStep, CloserStep

\* Types and amounts are right in every reachable state.
LEMMA TypeInvariant == Spec => []TypeInv
<1>1. Init => TypeInv
  <2> SUFFICES ASSUME Init PROVE TypeInv
    OBVIOUS
  <2>1. chan \in ChannelState /\ escrow \in EscrowState /\ NoVoucher \in Amounts
    BY DepositAssumption DEF Init, NoChannel, OpenEscrow, ChannelState, EscrowState, Amounts,
       NoVoucher
  <2>2. AmountsKnown
    BY DEF Init, AmountsKnown
  <2> QED
    BY <2>1, <2>2 DEF Init, TypeInv, TypeOK, PostStates
<1> QED
  BY <1>1, TypeInductive, PTL DEF Spec

\* All variables keep their types: a receipt is never negative nor above maxAmount,
\* and nothing above the deposit is stored, submitted or paid.
THEOREM MeteredTypeCorrect == Spec => []TypeOK
<1>1. TypeInv => TypeOK
  BY DEF TypeInv
<1> QED
  BY <1>1, TypeInvariant, PTL

-----------------------------------------------------------------------------
\* Store and escrow agree after each step, whichever way the channel is closed.
LEMMA MeteredMoneyInductive == TypeInv /\ MoneyInv /\ [Next]_vars => MoneyInv'
<1> SUFFICES ASSUME TypeInv, MoneyInv, [Next]_vars PROVE MoneyInv'
  OBVIOUS
<1> USE DEF TypeInv, TypeOK, MoneyInv, FinalizedMatchesEscrow, StoreTrailsEscrow, storeVars,
            callVars, postVars, closerVars, ChannelState, EscrowState, Amounts
<1>1. ASSUME NEW r \in Calls, CallStep(r) PROVE MoneyInv'
  <2>1. UNCHANGED <<escrow, closerPc, submitted>>
    BY <1>1 DEF CallStep, Call, VerifyAccepts, VerifyRejects, ResolvePayer, PayerMissing,
       HandlerReturns, HandlerThrows, OverrideSpent, OverrideBreaks, CallLost
  <2>2. chan'.settled = chan.settled /\ chan'.finalized = chan.finalized
    BY <1>1 DEF CallStep, Call, VerifyAccepts, AcceptVoucher, VerifyRejects, ResolvePayer,
       PayerMissing, HandlerReturns, HandlerThrows, OverrideSpent, OverrideBreaks, CallLost
  <2> QED
    BY <2>1, <2>2
<1>2. ASSUME NEW p \in Posts, PostClose(p) \/ PersistThrows(p) \/ Persist(p) PROVE MoneyInv'
  <2>1. UNCHANGED <<chan, escrow, closerPc, submitted>>
    BY <1>2 DEF PostClose, PersistThrows, Persist
  <2> QED
    BY <2>1
<1>3. ASSUME NEW p \in Posts, CloseVerified(p) PROVE MoneyInv'
  <2>0. closing[p] \in Receipts
    BY <1>3 DEF CloseVerified, AmountsKnown
  <2>1. ~escrow.closed /\ escrow.settled <= closing[p] /\ closing[p] \in Nat
    BY <1>3, <2>0, MeteredAssumption DEF CloseVerified, CloseAccepted, Receipts
  <2>2. escrow'.closed /\ escrow'.settled = closing[p] /\ UNCHANGED <<closerPc, submitted>>
    BY <1>3 DEF CloseVerified, CloseEscrow
  <2>3. \A c \in Closers : closerPc[c] # "record"
    BY <2>1
  <2>4. chan'.settled <= closing[p] /\ (chan'.finalized => chan'.settled = closing[p])
    BY <1>3, <2>1, DepositAssumption DEF CloseVerified, RecordClose
  <2> QED
    BY <2>2, <2>3, <2>4
<1>4. ASSUME NEW p \in Posts, CloseRefused(p) PROVE MoneyInv'
  <2>1. UNCHANGED <<chan, closerPc, submitted>>
    BY <1>4 DEF CloseRefused
  <2>2. CASE UNCHANGED escrow
    BY <2>1, <2>2
  <2>3. CASE /\ ~chan.finalized /\ CloseAccepted(escrow, closing[p])
             /\ escrow' = CloseEscrow(escrow, closing[p])
    <3>0. closing[p] \in Receipts
      BY <1>4 DEF CloseRefused, AmountsKnown
    <3>1. ~escrow.closed /\ escrow.settled <= closing[p] /\ closing[p] \in Nat
      BY <2>3, <3>0, MeteredAssumption DEF CloseAccepted, Receipts
    <3>2. escrow'.settled = closing[p]
      BY <2>3 DEF CloseEscrow
    <3>3. \A c \in Closers : closerPc[c] # "record"
      BY <3>1
    <3>4. chan.settled <= closing[p]
      BY <3>1, DepositAssumption
    <3> QED
      BY <2>1, <2>3, <3>2, <3>3, <3>4
  <2> QED
    BY <1>4, <2>2, <2>3 DEF CloseRefused
<1>5. ASSUME NEW c \in Closers, ReaperReads(c) \/ SubmitInHand(c) \/ ForceClose(c) PROVE MoneyInv'
  <2>1. UNCHANGED <<chan, escrow>>
    BY <1>5 DEF ReaperReads, SubmitInHand, ForceClose
  <2>2. \A d \in Closers : closerPc'[d] = "record" =>
          closerPc[d] = "record" /\ submitted'[d] = submitted[d]
    BY <1>5 DEF ReaperReads, SubmitInHand, ForceClose, StartSubmit
  <2> QED
    BY <2>1, <2>2
<1>6. ASSUME NEW c \in Closers, SubmitLands(c) PROVE MoneyInv'
  <2>1. ~escrow.closed /\ escrow.settled <= submitted[c] /\ submitted[c] \in Nat
    BY <1>6, DepositAssumption DEF SubmitLands, CloseAccepted
  <2>2. escrow'.closed /\ escrow'.settled = submitted[c] /\ UNCHANGED <<chan, submitted>>
    BY <1>6 DEF SubmitLands, CloseEscrow
  <2>3. \A d \in Closers : closerPc'[d] = "record" => d = c
    BY <1>6, <2>1 DEF SubmitLands, CloserMoves
  <2>4. ~chan.finalized /\ chan.settled <= submitted[c]
    BY <2>1, DepositAssumption
  <2> QED
    BY <2>2, <2>3, <2>4
<1>7. ASSUME NEW c \in Closers, SubmitRecorded(c) PROVE MoneyInv'
  BY <1>7, DepositAssumption DEF SubmitRecorded, RecordClose, CloserMoves
<1>8. ASSUME NEW c \in Closers, SubmitReverts(c) \/ SubmitFails(c) PROVE MoneyInv'
  BY <1>8 DEF SubmitReverts, SubmitFails, CloserMoves
<1>9. CASE BuyerWithdraws
  BY <1>9 DEF BuyerWithdraws
<1>10. CASE UNCHANGED vars
  BY <1>10 DEF vars
<1> QED
  BY <1>1, <1>2, <1>3, <1>4, <1>5, <1>6, <1>7, <1>8, <1>9, <1>10
  DEF Next, PostStep, CloserStep

\* Whether mppx, the reaper or the seller closed it: a channel marked finalized is
\* closed on chain for exactly the recorded amount.
THEOREM MeteredFinalizedIsPaid == Spec => []FinalizedMatchesEscrow
<1>1. Init => MoneyInv
  BY DepositAssumption DEF Init, MoneyInv, FinalizedMatchesEscrow, StoreTrailsEscrow,
     NoChannel, OpenEscrow
<1>2. MoneyInv => FinalizedMatchesEscrow
  BY DEF MoneyInv
<1> QED
  BY <1>1, <1>2, TypeInvariant, MeteredMoneyInductive, PTL DEF Spec

-----------------------------------------------------------------------------
\* Nothing but issued receipts goes to the contract while the close is not forced.
LEMMA ClaimsInductive == TypeInv /\ ClaimsBacked /\ [Next]_vars => ClaimsBacked'
<1> SUFFICES ASSUME TypeInv, ClaimsBacked, [Next]_vars PROVE ClaimsBacked'
  OBVIOUS
<1> USE DEF TypeInv, TypeOK, ClaimsBacked, storeVars, callVars, postVars, closerVars
<1>1. Issued \subseteq Issued'
  <2> SUFFICES ASSUME NEW q \in Answered PROVE q \in Answered' /\ receipt'[q] = receipt[q]
    BY DEF Issued
  <2>1. ASSUME NEW r \in Calls, CallStep(r) PROVE q \in Answered' /\ receipt'[q] = receipt[q]
    BY <2>1 DEF Answered, CallStep, MoveTo, Call, VerifyAccepts, VerifyRejects, ResolvePayer,
       PayerMissing, HandlerReturns, HandlerThrows, OverrideSpent, OverrideBreaks, CallLost,
       InFlightStates
  <2>2. ASSUME NEW p \in Posts, PostStep(p) PROVE UNCHANGED callVars
    BY <2>2 DEF PostStep, PostClose, PersistThrows, Persist, CloseVerified, CloseRefused
  <2>3. ASSUME NEW c \in Closers, CloserStep(c) PROVE UNCHANGED callVars
    BY <2>3 DEF CloserStep, ReaperReads, SubmitInHand, ForceClose, SubmitLands, SubmitReverts,
       SubmitRecorded, SubmitFails
  <2>4. ASSUME BuyerWithdraws \/ UNCHANGED vars PROVE UNCHANGED callVars
    BY <2>4 DEF BuyerWithdraws, vars
  <2> QED
    BY <2>1, <2>2, <2>3, <2>4 DEF Next, Answered
<1>2. ASSUME NEW r \in Calls, CallStep(r) PROVE ClaimsBacked'
  <2>1. UNCHANGED <<kept, escrow, closing, submitted, forced>>
    BY <1>2 DEF CallStep, Call, VerifyAccepts, VerifyRejects, ResolvePayer, PayerMissing,
       HandlerReturns, HandlerThrows, OverrideSpent, OverrideBreaks, CallLost
  <2> QED
    BY <1>1, <2>1
<1>3. ASSUME NEW p \in Posts, PostClose(p) PROVE ClaimsBacked'
  <2>1. \A q \in Posts : closing'[q] = closing[q] \/ closing'[q] \in Issued
    BY <1>3 DEF PostClose, Issued
  <2>2. UNCHANGED <<kept, escrow, submitted, forced>>
    BY <1>3 DEF PostClose
  <2> QED
    BY <1>1, <2>1, <2>2
<1>4. ASSUME NEW p \in Posts, PersistThrows(p) \/ Persist(p) PROVE ClaimsBacked'
  BY <1>1, <1>4 DEF PersistThrows, Persist
<1>5. ASSUME NEW p \in Posts, CloseVerified(p) \/ CloseRefused(p) PROVE ClaimsBacked'
  <2>1. closing[p] \in Issued
    <3>1. closing[p] # None
      BY <1>5, MeteredAssumption DEF CloseVerified, CloseRefused, AmountsKnown, Receipts
    <3> QED
      BY <3>1
  <2>2. escrow'.settled = escrow.settled \/ escrow'.settled = closing[p]
    BY <1>5 DEF CloseVerified, CloseRefused, CloseEscrow, EscrowState
  <2>3. UNCHANGED <<kept, closing, submitted, forced>>
    BY <1>5 DEF CloseVerified, CloseRefused
  <2> QED
    BY <1>1, <2>1, <2>2, <2>3
<1>6. ASSUME NEW c \in Closers, ReaperReads(c) PROVE ClaimsBacked'
  <2>1. \A d \in Closers : submitted'[d] = submitted[d] \/ submitted'[d] \in Issued
    BY <1>6 DEF ReaperReads, StartSubmit
  <2> QED
    BY <1>1, <1>6, <2>1 DEF ReaperReads
<1>7. ASSUME NEW c \in Closers, SubmitInHand(c) PROVE ClaimsBacked'
  <2>1. \A p \in Posts : postPc[p] # "idle" => closing[p] # None
    BY MeteredAssumption DEF AmountsKnown, Receipts
  <2>2. \A d \in Closers : submitted'[d] = submitted[d] \/ submitted'[d] \in Issued
    BY <1>7, <2>1 DEF SubmitInHand, StartSubmit
  <2> QED
    BY <1>1, <1>7, <2>2 DEF SubmitInHand
<1>8. ASSUME NEW c \in Closers, ForceClose(c) PROVE ClaimsBacked'
  BY <1>1, <1>8 DEF ForceClose
<1>9. ASSUME NEW c \in Closers, SubmitLands(c) PROVE ClaimsBacked'
  <2>1. escrow'.settled = submitted[c]
    BY <1>9 DEF SubmitLands, CloseEscrow, EscrowState
  <2> QED
    BY <1>1, <1>9, <2>1 DEF SubmitLands
<1>10. ASSUME NEW c \in Closers, SubmitReverts(c) \/ SubmitRecorded(c) \/ SubmitFails(c)
       PROVE ClaimsBacked'
  BY <1>1, <1>10 DEF SubmitReverts, SubmitRecorded, SubmitFails
<1>11. CASE BuyerWithdraws
  <2>1. escrow'.settled = escrow.settled
    BY <1>11 DEF BuyerWithdraws, EscrowState
  <2> QED
    BY <1>1, <1>11, <2>1 DEF BuyerWithdraws
<1>12. CASE UNCHANGED vars
  BY <1>1, <1>12 DEF vars
<1> QED
  BY <1>2, <1>3, <1>4, <1>5, <1>6, <1>7, <1>8, <1>9, <1>10, <1>11, <1>12
  DEF Next, PostStep, CloserStep

\* As long as the seller does not force the close, the buyer pays nothing but the
\* amount of a receipt it was given.
THEOREM BuyerPaysReceipts == Spec => []BilledByReceipt
<1>1. Init => ClaimsBacked
  BY DEF Init, ClaimsBacked, NoVoucher, OpenEscrow
<1>2. ClaimsBacked => BilledByReceipt
  BY DEF ClaimsBacked, BilledByReceipt, Issued
<1> QED
  BY <1>1, <1>2, TypeInvariant, ClaimsInductive, PTL DEF Spec

-----------------------------------------------------------------------------
\* `spent` is accounted for by a base, which is nothing or a booked receipt, and by
\* some of the unsettled calls.  Another unsettled call, another booked call, or a
\* finalized channel leaves room for what was accounted for.
Accounted(base, n) ==
  /\ base = 0 \/ \E r \in Calls : pc[r] = "served" /\ receipt[r] = base
  /\ n \in 0 .. Cardinality(Unsettled)
  /\ spent = base + n * MaxAmount

LEMMA AccountIsWhat ==
  /\ SpentIsAccounted <=> (~chan.finalized => \E base, n : Accounted(base, n))
  /\ SpentIsAccounted' <=> (~chan'.finalized => \E base, n : Accounted(base, n)')
BY DEF SpentIsAccounted, Accounted

\* A step that books nothing and charges nothing.
LEMMA AccountKept ==
  ASSUME TypeInv, SpentInv, IsFiniteSet(Unsettled'), Unsettled \subseteq Unsettled',
         spent' = spent, chan.finalized => chan'.finalized,
         \A r \in Calls : pc[r] = "served" => pc'[r] = "served" /\ receipt'[r] = receipt[r]
  PROVE  SpentIsAccounted'
<1> SUFFICES ASSUME ~chan'.finalized PROVE \E base, n : Accounted(base, n)'
  BY AccountIsWhat
<1>1. PICK base, n : Accounted(base, n)
  BY AccountIsWhat DEF SpentInv
<1>2. /\ Cardinality(Unsettled) \in Nat /\ Cardinality(Unsettled') \in Nat
      /\ Cardinality(Unsettled) <= Cardinality(Unsettled')
  BY FS_CardinalityType, FS_Subset DEF SpentInv
<1>3. Accounted(base, n)'
  BY <1>1, <1>2 DEF Accounted
<1> QED
  BY <1>3

\* A charge is accounted for by the call that it was made for, and a booking by its
\* receipt, whatever was charged before; no other step touches `spent`.
LEMMA SpentInductive == TypeInv /\ SpentInv /\ [Next]_vars => SpentInv'
<1> SUFFICES ASSUME TypeInv, SpentInv, [Next]_vars PROVE SpentInv'
  OBVIOUS
<1> USE DEF TypeInv, TypeOK, ChargingStates, SpoiltStates, ChannelState
<1>1. ASSUME NEW r \in Calls, VerifyAccepts(r) PROVE SpentInv'
  <2>1. /\ pc' = [pc EXCEPT ![r] = "payer"] /\ pc[r] = "verify" /\ receipt' = receipt
        /\ spent' = spent + MaxAmount /\ chan'.exists /\ chan'.finalized = chan.finalized
    BY <1>1 DEF VerifyAccepts, MoveTo, AcceptVoucher
  <2>2. Unsettled' = Unsettled \cup {r} /\ r \notin Unsettled
    BY <2>1 DEF Unsettled
  <2>3. /\ IsFiniteSet(Unsettled') /\ Cardinality(Unsettled) \in Nat
        /\ Cardinality(Unsettled') = Cardinality(Unsettled) + 1
    BY <2>2, FS_AddElement, FS_CardinalityType DEF SpentInv
  <2>4. ASSUME ~chan.finalized PROVE \E base, n : Accounted(base, n)'
    <3>1. PICK base, n : Accounted(base, n)
      BY <2>4, AccountIsWhat DEF SpentInv
    <3>2. base \in Int /\ n \in Nat
      BY <2>3, <3>1, MeteredAssumption DEF Accounted, Receipts, AmountsKnown
    <3>3. (n + 1) * MaxAmount = n * MaxAmount + MaxAmount
      BY <3>2, MeteredAssumption
    <3>4. spent' = base + (n + 1) * MaxAmount
      BY <2>1, <3>1, <3>2, <3>3, MeteredAssumption DEF Accounted
    <3>5. Accounted(base, n + 1)'
      BY <2>1, <2>3, <3>1, <3>2, <3>4 DEF Accounted
    <3> QED
      BY <3>5
  <2>5. SpentIsAccounted'
    BY <2>1, <2>4, AccountIsWhat
  <2> QED
    BY <2>1, <2>3, <2>5 DEF SpentInv
<1>2. ASSUME NEW r \in Calls, OverrideSpent(r) PROVE SpentInv'
  <2>1. /\ pc[r] = "override" /\ chan.exists /\ UNCHANGED <<chan, receipt>>
        /\ pc' = [pc EXCEPT ![r] = "served"]
        /\ ~chan.finalized => spent' = receipt[r]
    BY <1>2 DEF OverrideSpent, MoveTo, SpentInv
  <2>2. Unsettled' = Unsettled \ {r}
    BY <2>1 DEF Unsettled
  <2>3. IsFiniteSet(Unsettled') /\ Cardinality(Unsettled') \in Nat
    BY <2>2, FS_RemoveElement, FS_CardinalityType DEF SpentInv
  <2>4. receipt[r] \in Nat
    BY <2>1 DEF AmountsKnown, Receipts
  <2>5. ~chan.finalized => Accounted(receipt[r], 0)'
    BY <2>1, <2>3, <2>4, MeteredAssumption DEF Accounted
  <2>6. SpentIsAccounted'
    BY <2>1, <2>5, AccountIsWhat
  <2> QED
    BY <2>1, <2>3, <2>6 DEF SpentInv
<1>3. ASSUME NEW r \in Calls, HandlerReturns(r) PROVE SpentInv'
  <2>1. pc' = [pc EXCEPT ![r] = "override"] /\ pc[r] = "handler"
        /\ UNCHANGED <<chan, spent>> /\ \A q \in Calls \ {r} : receipt'[q] = receipt[q]
    BY <1>3 DEF HandlerReturns, MoveTo, storeVars
  <2>2. Unsettled' = Unsettled
    BY <2>1 DEF Unsettled
  <2> QED
    BY <2>1, <2>2, AccountKept DEF SpentInv
<1>4. ASSUME NEW r \in Calls, ResolvePayer(r) PROVE SpentInv'
  <2>1. pc' = [pc EXCEPT ![r] = "handler"] /\ pc[r] = "payer"
        /\ UNCHANGED <<chan, spent, receipt>>
    BY <1>4 DEF ResolvePayer, MoveTo, storeVars
  <2>2. Unsettled' = Unsettled
    BY <2>1 DEF Unsettled
  <2> QED
    BY <2>1, <2>2, AccountKept DEF SpentInv
<1>5. ASSUME NEW r \in Calls, Call(r) \/ VerifyRejects(r) PROVE SpentInv'
  <2>1. /\ \E s \in {"verify", "rejected"} : pc' = [pc EXCEPT ![r] = s]
        /\ pc[r] \in {"idle", "verify"}
        /\ UNCHANGED <<chan, spent, receipt>>
    BY <1>5 DEF Call, VerifyRejects, MoveTo, storeVars
  <2>2. Unsettled' = Unsettled
    BY <2>1 DEF Unsettled
  <2> QED
    BY <2>1, <2>2, AccountKept DEF SpentInv
<1>6. ASSUME NEW r \in Calls,
             PayerMissing(r) \/ HandlerThrows(r) \/ OverrideBreaks(r) \/ CallLost(r)
      PROVE SpentInv'
  <2>1. /\ \E s \in SpoiltStates : pc' = [pc EXCEPT ![r] = s]
        /\ pc[r] \in InFlightStates
        /\ UNCHANGED <<chan, spent, receipt>>
    BY <1>6 DEF PayerMissing, HandlerThrows, OverrideBreaks, CallLost, MoveTo, storeVars,
       InFlightStates
  <2>2. Unsettled' = Unsettled \cup {r}
    BY <2>1 DEF Unsettled
  <2>3. IsFiniteSet(Unsettled')
    BY <2>2, FS_AddElement DEF SpentInv
  <2>4. SpentIsAccounted'
    BY <2>1, <2>2, <2>3, AccountKept DEF InFlightStates
  <2> QED
    BY <2>1, <2>3, <2>4 DEF SpentInv
<1>7. ASSUME UNCHANGED <<pc, receipt, spent>>,
             chan' = chan \/ (\E v \in Amounts \cup {None} : chan' = RecordClose(chan, v))
      PROVE SpentInv'
  <2>1. chan'.exists = chan.exists /\ (chan.finalized => chan'.finalized)
    BY <1>7 DEF RecordClose
  <2>2. Unsettled' = Unsettled
    BY <1>7 DEF Unsettled
  <2> QED
    BY <1>7, <2>1, <2>2, AccountKept DEF SpentInv
<1>8. ASSUME NEW p \in Posts, PostStep(p) PROVE SpentInv'
  <2>1. closing[p] \in Amounts \cup {None}
    BY ReceiptsAffordable
  <2> QED
    BY <1>7, <1>8, <2>1 DEF PostStep, PostClose, PersistThrows, Persist, CloseVerified,
       CloseRefused, storeVars, callVars
<1>9. ASSUME NEW c \in Closers, CloserStep(c) PROVE SpentInv'
  BY <1>7, <1>9 DEF CloserStep, ReaperReads, SubmitInHand, ForceClose, SubmitLands,
     SubmitReverts, SubmitRecorded, SubmitFails, storeVars, callVars
<1>10. ASSUME BuyerWithdraws \/ UNCHANGED vars PROVE SpentInv'
  BY <1>7, <1>10 DEF BuyerWithdraws, vars, storeVars, callVars
<1> QED
  BY <1>1, <1>2, <1>3, <1>4, <1>5, <1>6, <1>8, <1>9, <1>10 DEF Next, CallStep

\* In whichever order overlapping calls are charged and booked, and whatever goes wrong
\* with some of them: `spent` is a booked receipt and at most one maxAmount for each
\* call that is under way or went wrong.
THEOREM SpentAlwaysAccounted == Spec => []SpentIsAccounted
<1>1. Init => SpentInv
  <2> SUFFICES ASSUME Init PROVE SpentInv
    OBVIOUS
  <2>1. Unsettled = {}
    BY DEF Init, Unsettled
  <2>2. IsFiniteSet(Unsettled) /\ Cardinality(Unsettled) = 0
    BY <2>1, FS_EmptySet
  <2>3. Accounted(0, 0)
    BY <2>2, MeteredAssumption DEF Init, Accounted
  <2> QED
    BY <2>2, <2>3, AccountIsWhat DEF Init, SpentInv, ChargingStates
<1>2. SpentInv => SpentIsAccounted
  BY DEF SpentInv
<1> QED
  BY <1>1, <1>2, TypeInvariant, SpentInductive, PTL DEF Spec

-----------------------------------------------------------------------------
(* The channel as buyer and seller rely on it.                             *)

\* What the store and the closers hold carries the buyer's signature.
HeldAreSigned ==
  /\ chan.highest # NoVoucher => chan.highest \in Signed
  /\ kept # None => kept \in Signed
  /\ \A c \in Closers : closerPc[c] # "idle" => submitted[c] \in Signed

ChannelInv == TypeInv /\ MoneyInv /\ HeldAreSigned

\* Nothing but the start of a call and of a close signs an amount; a signature stays.
LEMMA CallSigns ==
  ASSUME TypeInv, NEW r \in Calls, NEW v \in Vouchers, Call(r),
         amount' = [amount EXCEPT ![r] = v]
  PROVE  Signed' = Signed \cup {v}
<1> USE DEF TypeInv, TypeOK
<1>1. /\ pc[r] = "idle" /\ pc' = [pc EXCEPT ![r] = "verify"]
      /\ UNCHANGED <<postPc, closing>>
  BY DEF Call, MoveTo, postVars
<1>2. /\ \A q \in Calls : q # r => amount'[q] = amount[q] /\ pc'[q] = pc[q]
      /\ amount'[r] = v /\ pc'[r] = "verify"
  BY <1>1
<1>3. {amount[q] : q \in {s \in Calls : pc[s] # "idle"}}' =
        {amount[q] : q \in {s \in Calls : pc[s] # "idle"}} \cup {v}
  BY <1>1, <1>2
<1>4. {closing[p] : p \in {q \in Posts : postPc[q] # "idle"}}' =
        {closing[p] : p \in {q \in Posts : postPc[q] # "idle"}}
  BY <1>1
<1> QED
  BY <1>3, <1>4 DEF Signed

LEMMA PostSigns ==
  ASSUME TypeInv, NEW p \in Posts, PostClose(p)
  PROVE  \E v \in Amounts : Signed' = Signed \cup {v}
<1> USE DEF TypeInv, TypeOK
<1>1. PICK r \in Answered : closing' = [closing EXCEPT ![p] = receipt[r]]
  BY DEF PostClose
<1>2. receipt[r] \in Amounts
  BY ReceiptsAffordable DEF Answered, AmountsKnown
<1>3. postPc[p] = "idle" /\ postPc' = [postPc EXCEPT ![p] = "persist"]
  BY DEF PostClose, AnswerPost
<1>4. /\ \A q \in Posts : q # p => closing'[q] = closing[q] /\ postPc'[q] = postPc[q]
      /\ closing'[p] = receipt[r] /\ postPc'[p] = "persist"
  BY <1>1, <1>3
<1>5. {closing[q] : q \in {s \in Posts : postPc[s] # "idle"}}' =
        {closing[q] : q \in {s \in Posts : postPc[s] # "idle"}} \cup {receipt[r]}
  BY <1>3, <1>4
<1>6. UNCHANGED <<pc, amount>>
  BY DEF PostClose, callVars
<1>7. Signed' = Signed \cup {receipt[r]}
  BY <1>5, <1>6 DEF Signed
<1> QED
  BY <1>2, <1>7

LEMMA OthersSignNothing ==
  ASSUME TypeInv, [Next]_vars,
         \A r \in Calls : ~Call(r), \A p \in Posts : ~PostClose(p)
  PROVE  Signed' = Signed
<1> USE DEF TypeInv, TypeOK
<1>1. ASSUME NEW r \in Calls, CallStep(r) PROVE Signed' = Signed
  <2>1. /\ UNCHANGED <<amount, closing, postPc>>
        /\ pc[r] # "idle"
        /\ \E s \in InFlightStates \cup EndStates : pc' = [pc EXCEPT ![r] = s]
    BY <1>1 DEF CallStep, MoveTo, VerifyAccepts, VerifyRejects, ResolvePayer, PayerMissing,
       HandlerReturns, HandlerThrows, OverrideSpent, OverrideBreaks, CallLost, InFlightStates,
       EndStates, postVars
  <2>2. \A q \in Calls : pc'[q] # "idle" <=> pc[q] # "idle"
    BY <2>1 DEF InFlightStates, EndStates
  <2> QED
    BY <2>1, <2>2 DEF Signed
<1>2. ASSUME NEW p \in Posts, PostStep(p) PROVE Signed' = Signed
  <2>1. /\ UNCHANGED <<amount, closing, pc>>
        /\ postPc[p] # "idle"
        /\ \E s \in {"verify", "closed", "refused", "kept"} :
             postPc' = [postPc EXCEPT ![p] = s]
    BY <1>2 DEF PostStep, AnswerPost, PersistThrows, Persist, CloseVerified, CloseRefused,
       callVars
  <2>2. \A q \in Posts : postPc'[q] # "idle" <=> postPc[q] # "idle"
    BY <2>1
  <2> QED
    BY <2>1, <2>2 DEF Signed
<1>3. ASSUME UNCHANGED <<callVars, postVars>> PROVE Signed' = Signed
  BY <1>3 DEF Signed, callVars, postVars
<1>4. ASSUME NEW c \in Closers, CloserStep(c) PROVE Signed' = Signed
  BY <1>3, <1>4 DEF CloserStep, ReaperReads, SubmitInHand, ForceClose, SubmitLands,
     SubmitReverts, SubmitRecorded, SubmitFails
<1>5. CASE BuyerWithdraws \/ UNCHANGED vars
  BY <1>3, <1>5 DEF BuyerWithdraws, vars, callVars, postVars
<1> QED
  BY <1>1, <1>2, <1>4, <1>5 DEF Next

LEMMA SignaturesStay == TypeInv /\ [Next]_vars => Signed \subseteq Signed'
<1> SUFFICES ASSUME TypeInv, [Next]_vars PROVE Signed \subseteq Signed'
  OBVIOUS
<1>1. ASSUME NEW r \in Calls, Call(r) PROVE Signed \subseteq Signed'
  BY <1>1, CallSigns DEF Call
<1>2. ASSUME NEW p \in Posts, PostClose(p) PROVE Signed \subseteq Signed'
  BY <1>2, PostSigns
<1> QED
  BY <1>1, <1>2, OthersSignNothing

\* A voucher in flight is signed, and so is a posted close; what is stored, persisted
\* or submitted comes from there.
LEMMA HeldInductive == TypeInv /\ HeldAreSigned /\ [Next]_vars => HeldAreSigned'
<1> SUFFICES ASSUME TypeInv, HeldAreSigned, [Next]_vars PROVE HeldAreSigned'
  OBVIOUS
<1> USE SignaturesStay DEF TypeInv, TypeOK, HeldAreSigned, storeVars, closerVars
<1>1. ASSUME NEW r \in Calls, VerifyAccepts(r) PROVE HeldAreSigned'
  <2>1. amount[r] \in Signed
    BY <1>1 DEF VerifyAccepts, Signed
  <2>2. chan'.highest = chan.highest \/ chan'.highest = amount[r]
    BY <1>1 DEF VerifyAccepts, AcceptVoucher, ChannelState
  <2> QED
    BY <1>1, <2>1, <2>2 DEF VerifyAccepts
<1>2. ASSUME UNCHANGED <<kept, closerPc, submitted>>, chan'.highest = chan.highest
      PROVE HeldAreSigned'
  BY <1>2
<1>3. ASSUME NEW r \in Calls, CallStep(r), ~VerifyAccepts(r) PROVE HeldAreSigned'
  BY <1>2, <1>3 DEF CallStep, Call, VerifyRejects, ResolvePayer, PayerMissing,
     HandlerReturns, HandlerThrows, OverrideSpent, OverrideBreaks, CallLost
<1>4. ASSUME NEW p \in Posts, Persist(p) PROVE HeldAreSigned'
  <2>1. closing[p] \in Signed
    BY <1>4 DEF Persist, Signed
  <2> QED
    BY <1>4, <2>1 DEF Persist
<1>5. ASSUME NEW p \in Posts, PostStep(p), ~Persist(p) PROVE HeldAreSigned'
  BY <1>2, <1>5 DEF PostStep, PostClose, PersistThrows, CloseVerified, CloseRefused,
     RecordClose, ChannelState
<1>6. ASSUME NEW c \in Closers, NEW v \in Signed, StartSubmit(c, v), UNCHANGED storeVars
      PROVE HeldAreSigned'
  BY <1>6 DEF StartSubmit
<1>7. ASSUME NEW c \in Closers, CloserStep(c) PROVE HeldAreSigned'
  <2>1. CASE ReaperReads(c) \/ ForceClose(c)
    BY <1>6, <2>1 DEF ReaperReads, ForceClose
  <2>2. CASE SubmitInHand(c)
    BY <1>6, <2>2 DEF SubmitInHand, Signed
  <2>3. CASE SubmitLands(c) \/ SubmitReverts(c) \/ SubmitRecorded(c) \/ SubmitFails(c)
    <3>1. /\ UNCHANGED <<kept, submitted>> /\ chan'.highest = chan.highest
          /\ closerPc[c] # "idle" /\ \E s \in {"idle", "record"} :
               closerPc' = [closerPc EXCEPT ![c] = s]
      BY <2>3 DEF SubmitLands, SubmitReverts, SubmitRecorded, SubmitFails, RecordClose,
         ChannelState, CloserMoves
    <3> QED
      BY <3>1
  <2> QED
    BY <1>7, <2>1, <2>2, <2>3 DEF CloserStep
<1>8. CASE BuyerWithdraws \/ UNCHANGED vars
  BY <1>2, <1>8 DEF BuyerWithdraws, vars
<1> QED
  BY <1>1, <1>3, <1>4, <1>5, <1>7, <1>8 DEF Next

LEMMA ChannelInvariant == Spec => []ChannelInv
<1>1. Init => MoneyInv /\ HeldAreSigned
  BY DepositAssumption DEF Init, MoneyInv, FinalizedMatchesEscrow, StoreTrailsEscrow,
     NoChannel, OpenEscrow, HeldAreSigned, NoVoucher
<1> QED
  BY <1>1, TypeInvariant, MeteredMoneyInductive, HeldInductive, PTL DEF Spec, ChannelInv

\* A close for v that went through on chain, with the books following at once or not.
LEMMA CloseCloses ==
  ASSUME ChannelInv, NEW v \in Signed, v \in Amounts, Signed' = Signed,
         CloseAccepted(escrow, v), escrow' = CloseEscrow(escrow, v),
         chan' = chan \/ (~chan.finalized /\ chan' = RecordClose(chan, v))
  PROVE  Channel!Next
<1> USE DEF ChannelInv, TypeInv, TypeOK
<1>1. /\ ~escrow.closed /\ v >= escrow.settled
      /\ escrow'.closed = TRUE /\ escrow'.settled = v
  BY DEF CloseAccepted, CloseEscrow, EscrowState
<1>2. Booked' \in {Booked, {v}}
  <2>1. CASE chan' = chan \/ ~chan.exists
    BY <2>1 DEF Booked, RecordClose
  <2>2. CASE chan.exists /\ chan' = RecordClose(chan, v)
    <3>1. chan.settled <= v
      BY <1>1, DepositAssumption DEF MoneyInv, StoreTrailsEscrow, ChannelState, EscrowState,
         Amounts
    <3>2. chan'.finalized /\ chan'.settled = v
      BY <2>2, <3>1, DepositAssumption DEF RecordClose, ChannelState, Amounts
    <3> QED
      BY <3>2 DEF Booked
  <2> QED
    BY <2>1, <2>2
<1>3. Channel!Close(v)
  BY <1>1, <1>2 DEF Channel!Close
<1> QED
  BY <1>3 DEF Channel!Next

\* MeteredChannel implements PaymentChannel: overlapping calls, closes posted and
\* persisted, reapers and forced closes never show in what is paid and booked.
THEOREM MeteredIsChannel == Spec => ActsAsChannel
<1>1. Init => Channel!Init
  <2> SUFFICES ASSUME Init PROVE Channel!Init
    OBVIOUS
  <2>1. Signed = {}
    BY DEF Init, Signed
  <2> QED
    BY <2>1 DEF Init, Channel!Init, Booked, NoChannel, OpenEscrow
<1>2. ChannelInv /\ [Next]_vars => [Channel!Next]_(Channel!vars)
  <2> SUFFICES ASSUME ChannelInv, [Next]_vars PROVE Channel!Next \/ UNCHANGED Channel!vars
    OBVIOUS
  <2> USE DEF ChannelInv, TypeInv, TypeOK, Channel!vars
  <2>1. ASSUME UNCHANGED escrow, Booked' = Booked, NEW v \in Amounts,
               Signed' = Signed \cup {v}
        PROVE  Channel!Next
    BY <2>1 DEF Channel!Sign, Channel!Next
  <2>2. ASSUME NEW r \in Calls, Call(r) PROVE Channel!Next
    <3>1. PICK v \in Vouchers : amount' = [amount EXCEPT ![r] = v]
      BY <2>2 DEF Call
    <3>2. v \in Amounts
      BY DEF Vouchers, Amounts
    <3>3. Signed' = Signed \cup {v}
      BY <2>2, <3>1, CallSigns
    <3> QED
      BY <2>1, <2>2, <3>2, <3>3 DEF Call, Booked, storeVars
  <2>3. ASSUME NEW p \in Posts, PostClose(p) PROVE Channel!Next
    <3>1. PICK v \in Amounts : Signed' = Signed \cup {v}
      BY <2>3, PostSigns
    <3> QED
      BY <2>1, <2>3, <3>1 DEF PostClose, Booked, storeVars
  <2>4. ASSUME \A r \in Calls : ~Call(r), \A p \in Posts : ~PostClose(p)
        PROVE  Channel!Next \/ UNCHANGED Channel!vars
    <3>1. Signed' = Signed
      BY <2>4, OthersSignNothing
    <3>2. ASSUME NEW r \in Calls, CallStep(r) PROVE UNCHANGED Channel!vars
      <4>1. UNCHANGED escrow
        BY <2>4, <3>2 DEF CallStep, VerifyAccepts, VerifyRejects, ResolvePayer, PayerMissing,
           HandlerReturns, HandlerThrows, OverrideSpent, OverrideBreaks, CallLost
      <4>2. Booked' = Booked
        BY <2>4, <3>2 DEF Booked, CallStep, VerifyAccepts, AcceptVoucher, VerifyRejects,
           ResolvePayer, PayerMissing, HandlerReturns, HandlerThrows, OverrideSpent,
           OverrideBreaks, CallLost, ChannelState, storeVars
      <4> QED
        BY <3>1, <4>1, <4>2
    <3>3. ASSUME UNCHANGED <<chan, escrow>> PROVE UNCHANGED Channel!vars
      BY <3>1, <3>3 DEF Booked
    <3>4. ASSUME NEW p \in Posts, PostStep(p) PROVE Channel!Next \/ UNCHANGED Channel!vars
      <4>1. CASE PersistThrows(p) \/ Persist(p)
        BY <3>3, <4>1 DEF PersistThrows, Persist, storeVars
      <4>2. CASE CloseVerified(p) \/ CloseRefused(p)
        <5>1. closing[p] \in Signed
          BY <4>2 DEF CloseVerified, CloseRefused, Signed
        <5>2. closing[p] \in Amounts
          BY <4>2, ReceiptsAffordable DEF CloseVerified, CloseRefused, AmountsKnown
        <5>3. CASE UNCHANGED <<chan, escrow>>
          BY <3>3, <5>3
        <5>4. CASE ~UNCHANGED <<chan, escrow>>
          <6>1. /\ CloseAccepted(escrow, closing[p])
                /\ escrow' = CloseEscrow(escrow, closing[p])
                /\ \/ chan' = chan
                   \/ ~chan.finalized /\ chan' = RecordClose(chan, closing[p])
            <7>1. CASE CloseVerified(p)
              BY <7>1 DEF CloseVerified
            <7>2. CASE CloseRefused(p)
              BY <5>4, <7>2 DEF CloseRefused, storeVars
            <7> QED
              BY <4>2, <7>1, <7>2
          <6> QED
            BY <3>1, <5>1, <5>2, <6>1, CloseCloses
        <5> QED
          BY <5>3, <5>4
      <4> QED
        BY <2>4, <3>4, <4>1, <4>2 DEF PostStep
    <3>5. ASSUME NEW c \in Closers, SubmitLands(c) PROVE Channel!Next
      <4>1. submitted[c] \in Signed /\ submitted[c] \in Amounts
        BY <3>5 DEF SubmitLands, HeldAreSigned
      <4>2. /\ CloseAccepted(escrow, submitted[c])
            /\ escrow' = CloseEscrow(escrow, submitted[c])
            /\ chan' = chan
        BY <3>5 DEF SubmitLands, storeVars
      <4> QED
        BY <3>1, <4>1, <4>2, CloseCloses
    <3>6. ASSUME NEW c \in Closers, SubmitRecorded(c)
          PROVE  Channel!Next \/ UNCHANGED Channel!vars
      <4>1. /\ escrow.closed /\ escrow.settled = submitted[c] /\ chan.settled <= submitted[c]
            /\ UNCHANGED escrow /\ chan' = RecordClose(chan, submitted[c])
        BY <3>6 DEF SubmitRecorded, MoneyInv, StoreTrailsEscrow
      <4>2. CASE ~chan.exists
        BY <3>3, <4>1, <4>2 DEF RecordClose
      <4>3. CASE chan.exists
        <5>1. chan'.finalized /\ chan'.settled = escrow.settled
          BY <4>1, <4>3, DepositAssumption DEF RecordClose, ChannelState, EscrowState, Amounts
        <5>2. Booked' = {escrow.settled} /\ escrow.closed = TRUE
          BY <4>1, <5>1 DEF Booked, EscrowState
        <5>3. CASE chan.finalized
          BY <3>1, <4>1, <5>2, <5>3 DEF Booked, MoneyInv, FinalizedMatchesEscrow
        <5>4. CASE ~chan.finalized
          <6>1. Channel!Book
            BY <3>1, <4>1, <5>2, <5>4 DEF Channel!Book, Booked
          <6> QED
            BY <6>1 DEF Channel!Next
        <5> QED
          BY <5>3, <5>4
      <4> QED
        BY <4>2, <4>3
    <3>7. ASSUME NEW c \in Closers, CloserStep(c), ~SubmitLands(c), ~SubmitRecorded(c)
          PROVE  UNCHANGED Channel!vars
      BY <3>3, <3>7 DEF CloserStep, ReaperReads, SubmitInHand, ForceClose, SubmitReverts,
         SubmitFails, storeVars
    <3>8. CASE BuyerWithdraws
      <4>1. /\ ~escrow.closed /\ escrow'.closed = TRUE /\ escrow'.settled = escrow.settled
            /\ Booked' = Booked
        BY <3>8 DEF BuyerWithdraws, EscrowState, Booked, storeVars
      <4> QED
        BY <3>1, <4>1 DEF Channel!Next, Channel!Withdraw
    <3>9. CASE UNCHANGED vars
      BY <3>3, <3>9 DEF vars
    <3> QED
      BY <3>2, <3>4, <3>5, <3>6, <3>7, <3>8, <3>9 DEF Next
  <2> QED
    BY <2>2, <2>3, <2>4
<1> QED
  BY <1>1, <1>2, ChannelInvariant, PTL DEF Spec, ActsAsChannel, Channel!Spec

-----------------------------------------------------------------------------
\* What PaymentChannel promises holds of this channel.
Promises == INSTANCE PaymentChannelProofs
              WITH signed <- Signed, settled <- escrow.settled, closed <- escrow.closed,
                   booked <- Booked

\* Forced or not, from whichever of the ways to close: the contract pays an amount under
\* the buyer's signature, once and for all, and the books come to show exactly that.
THEOREM MeteredKeepsPromises ==
  Spec => [](Promises!PaidIsSigned /\ Promises!BooksMatch) /\ Promises!NothingIsTakenBack
<1>1. Amounts \subseteq Nat
  BY DepositAssumption DEF Amounts
<1>2. Promises!Spec => [](Promises!PaidIsSigned /\ Promises!BooksMatch)
  BY <1>1, Promises!ChannelPaysAndBooks
<1>3. Promises!Spec => Promises!NothingIsTakenBack
  BY <1>1, Promises!ChannelTakesNothingBack
<1>4. Channel!Init => Promises!Init
  BY DEF Channel!Init, Promises!Init
<1>5. [Channel!Next]_(Channel!vars) => [Promises!Next]_(Promises!vars)
  BY DEF Channel!Next, Channel!vars, Channel!Sign, Channel!Settle, Channel!Close,
     Channel!Withdraw, Channel!Book, Promises!Next, Promises!vars, Promises!Sign,
     Promises!Settle, Promises!Close, Promises!Withdraw, Promises!Book
<1> QED
  BY <1>2, <1>3, <1>4, <1>5, MeteredIsChannel, PTL DEF ActsAsChannel, Channel!Spec, Promises!Spec
=============================================================================
