----------------------- MODULE FallbackFacilitatorProofs -----------------------
(***************************************************************************)
(* The chain of clients acts as one facilitator and settles what it        *)
(* verified unless that is spent or void, and its merged kinds keep the    *)
(* entry of the first client that responded, for every list of clients,    *)
(* whatever the unsound ones do.                                           *)
(***************************************************************************)
EXTENDS FallbackFacilitator, TLAPS

RequestTypes ==
  /\ stage \in [Requests -> {"idle", "verify", "settle"} \cup EndStages]
  /\ at \in [Requests -> Clients]
  /\ failed \in [Requests -> BOOLEAN]
  /\ payment \in [Requests -> Payments \cup {NoPayment}]

\* A sound client that was asked to settle in vain was right to decline.
SoundDeclined ==
  \A r \in Requests :
    \A i \in Sound :
      /\ stage[r] = "settle" /\ i < at[r] => ~Good(payment[r])
      /\ stage[r] \in {"refused", "errored"} => ~Good(payment[r])

Inv == RequestTypes /\ SoundDeclined

-----------------------------------------------------------------------------
LEMMA TypesInductive == RequestTypes /\ [Next]_vars => RequestTypes'
<1> SUFFICES ASSUME RequestTypes, [Next]_vars PROVE RequestTypes'
  OBVIOUS
<1> USE ChainAssumption DEF RequestTypes, EndStages, Clients, MoveTo, reqVars, NextOrEnd
<1>1. ASSUME NEW r \in Requests, RequestStep(r) PROVE RequestTypes'
  <2>1. CASE Ask(r)
    BY <2>1 DEF Ask
  <2>2. CASE VerifyAnswers(r)
    BY <2>2 DEF VerifyAnswers
  <2>3. CASE VerifyThrows(r)
    BY <2>3 DEF VerifyThrows
  <2>4. CASE SettleSucceeds(r)
    BY <2>4 DEF SettleSucceeds
  <2>5. CASE SettleFails(r)
    <3>1. stage' \in [Requests -> {"idle", "verify", "settle"} \cup EndStages]
      BY <2>5 DEF SettleFails
    <3>2. at' \in [Requests -> Clients]
      BY <2>5 DEF SettleFails
    <3>3. failed' \in [Requests -> BOOLEAN]
      BY <2>5, Zenon DEF SettleFails
    <3> QED
      BY <2>5, <3>1, <3>2, <3>3 DEF SettleFails
  <2>6. CASE SettleThrows(r)
    BY <2>6 DEF SettleThrows
  <2> QED
    BY <1>1, <2>1, <2>2, <2>3, <2>4, <2>5, <2>6 DEF RequestStep
<1>2. ASSUME UNCHANGED reqVars PROVE RequestTypes'
  BY <1>2
<1> QED
  BY <1>1, <1>2 DEF Next, SyncAnswers, SyncThrows, Expire, vars

\* The chain never takes back a payment, nor makes a lapsed one valid again.
LEMMA GoneForGood ==
  ASSUME [Next]_vars, NEW p \in Payments \cup {NoPayment}, ~Good(p)
  PROVE  ~Good(p)'
BY DEF Good, Next, RequestStep, SyncAnswers, SyncThrows, Ask, VerifyAnswers, VerifyThrows,
       SettleSucceeds, SettleFails, SettleThrows, Expire, Land, Blunder, chainVars, vars

LEMMA DeclinedInductive == Inv /\ [Next]_vars => SoundDeclined'
<1> SUFFICES ASSUME Inv, [Next]_vars, NEW r \in Requests, NEW i \in Sound,
                    \/ stage'[r] = "settle" /\ i < at'[r]
                    \/ stage'[r] \in {"refused", "errored"}
             PROVE  ~Good(payment[r])'
  BY DEF SoundDeclined
<1> USE DEF Inv, RequestTypes, MoveTo
<1>0. payment[r] \in Payments \cup {NoPayment} /\ i \in Clients /\ i \in Nat /\ i <= N
  BY ChainAssumption DEF Clients
<1>1. ASSUME payment'[r] = payment[r], ~Good(payment[r]) PROVE ~Good(payment[r])'
  BY <1>0, <1>1, GoneForGood DEF Good
<1>2. ASSUME stage'[r] = stage[r], at'[r] = at[r], payment'[r] = payment[r]
      PROVE  ~Good(payment[r])'
  BY <1>1, <1>2 DEF SoundDeclined
<1>3. ASSUME RequestStep(r) PROVE ~Good(payment[r])'
  <2>1. CASE Ask(r)
    BY <2>1 DEF Ask
  <2>2. CASE VerifyAnswers(r)
    BY <1>0, <2>2, ChainAssumption DEF VerifyAnswers, Clients
  <2>3. CASE VerifyThrows(r)
    BY <2>3 DEF VerifyThrows, NextOrEnd
  <2>4. CASE SettleSucceeds(r)
    BY <2>4 DEF SettleSucceeds
  <2>5. CASE SettleFails(r)
    <3>1. CASE i = at[r]
      BY <1>1, <2>5, <3>1 DEF SettleFails
    <3>2. CASE i < at[r]
      BY <1>1, <2>5, <3>2 DEF SettleFails, SoundDeclined
    <3> QED
      BY <1>0, <2>5, <3>1, <3>2 DEF SettleFails, NextOrEnd, Clients
  <2>6. CASE SettleThrows(r)
    <3>1. CASE i < at[r]
      BY <1>1, <2>6, <3>1 DEF SettleThrows, SoundDeclined
    <3>2. i # at[r]
      BY <2>6 DEF SettleThrows
    <3> QED
      BY <1>0, <2>6, <3>1, <3>2 DEF SettleThrows, NextOrEnd, Clients
  <2> QED
    BY <1>3, <2>1, <2>2, <2>3, <2>4, <2>5, <2>6 DEF RequestStep
<1>4. ASSUME NEW q \in Requests \ {r}, RequestStep(q) PROVE ~Good(payment[r])'
  <2>1. stage'[r] = stage[r] /\ at'[r] = at[r] /\ payment'[r] = payment[r]
    BY <1>4 DEF RequestStep, Ask, VerifyAnswers, VerifyThrows, SettleSucceeds, SettleFails,
                SettleThrows, NextOrEnd
  <2> QED
    BY <1>2, <2>1
<1>5. ASSUME UNCHANGED reqVars PROVE ~Good(payment[r])'
  BY <1>2, <1>5 DEF reqVars
<1> QED
  BY <1>3, <1>4, <1>5 DEF Next, SyncAnswers, SyncThrows, Expire, vars

LEMMA Invariant == Spec => []Inv
<1>1. Init => Inv
  BY ChainAssumption DEF Init, Inv, RequestTypes, SoundDeclined, Clients
<1>2. Inv /\ [Next]_vars => Inv'
  BY TypesInductive, DeclinedInductive DEF Inv
<1> QED
  BY <1>1, <1>2, PTL DEF Spec

-----------------------------------------------------------------------------
\* One sound client anywhere in the list is enough for the settlement: what was
\* verified and fails to settle is spent or void.
THEOREM OneSoundClientSuffices == Spec => []RefusedIsSpent
<1>1. Inv => RefusedIsSpent
  BY DEF Inv, SoundDeclined, RefusedIsSpent
<1> QED
  BY <1>1, Invariant, PTL

\* FallbackFacilitatorClient implements FacilitatorClient: its callers see a single
\* facilitator, which settles every payment at most once.
THEOREM ChainActsAsOne == Spec => ActsAsOne
<1>1. Init => One!Init
  BY DEF Init, One!Init
<1>2. Inv /\ [Next]_vars => [One!Next]_(One!vars)
  <2> SUFFICES ASSUME Inv, [Next]_vars PROVE One!Next \/ UNCHANGED One!vars
    OBVIOUS
  <2> USE DEF Inv, RequestTypes, One!vars, One!To, MoveTo, NextOrEnd
  <2>1. ASSUME NEW r \in Requests, RequestStep(r) PROVE One!Next \/ UNCHANGED One!vars
    <3>1. CASE Ask(r)
      BY <3>1 DEF Ask, One!Next, One!Ask, chainVars
    <3>2. CASE VerifyAnswers(r) \/ VerifyThrows(r)
      <4>1. One!Verified(r) \/ UNCHANGED One!vars
        BY <3>2 DEF VerifyAnswers, VerifyThrows, One!Verified, chainVars
      <4> QED
        BY <4>1 DEF One!Next
    <3>3. CASE SettleSucceeds(r)
      <4>1. One!Succeed(r)
        BY <3>3 DEF SettleSucceeds, Good, Land, One!Succeed
      <4> QED
        BY <4>1 DEF One!Next
    <3>4. CASE SettleFails(r) \/ SettleThrows(r)
      <4>1. One!GiveUp(r) \/ One!LandUnnoticed(r) \/ UNCHANGED One!vars
        BY <3>4 DEF SettleFails, SettleThrows, Blunder, Good, Land, One!GiveUp, One!LandUnnoticed,
                    chainVars
      <4> QED
        BY <4>1 DEF One!Next
    <3> QED
      BY <2>1, <3>1, <3>2, <3>3, <3>4 DEF RequestStep
  <2>2. ASSUME NEW p \in Payments, Expire(p) PROVE One!Next
    BY <2>2 DEF Expire, Good, reqVars, One!Next, One!Expire
  <2>3. CASE SyncAnswers \/ SyncThrows \/ UNCHANGED vars
    BY <2>3 DEF SyncAnswers, SyncThrows, reqVars, chainVars, vars
  <2> QED
    BY <2>1, <2>2, <2>3 DEF Next
<1> QED
  BY <1>1, <1>2, Invariant, PTL DEF Spec, ActsAsOne, One!Spec

-----------------------------------------------------------------------------
(* getSupported                                                            *)

\* What has been gathered so far is right at every step of the loop.
SyncInv ==
  /\ asking \in 0 .. N
  /\ responded \in Seq(Clients)
  /\ supported = [k \in DOMAIN supported |-> supported[k]]
  /\ FirstEntries(supported, responded)

\* Adding one more client's kinds to the union of some responses gives the union of
\* the responses and that client's.
LEMMA AddKindsKeepsFirst ==
  ASSUME NEW s \in Seq(Clients), NEW i \in Clients, NEW f, FirstEntries(f, s)
  PROVE  FirstEntries(AddKinds(f, i), Append(s, i))
<1> DEFINE t == Append(s, i)
           g == AddKinds(f, i)
<1>1. /\ Len(s) \in Nat /\ DOMAIN s = 1 .. Len(s) /\ DOMAIN t = 1 .. Len(s) + 1
      /\ t[Len(s) + 1] = i /\ \A n \in 1 .. Len(s) : t[n] = s[n]
  OBVIOUS
<1>2. /\ DOMAIN g = DOMAIN f \cup Offers[i]
      /\ \A k \in DOMAIN g : g[k] = IF k \in DOMAIN f THEN f[k] ELSE i
  BY DEF AddKinds
<1> HIDE DEF t, g
<1>3. DOMAIN g = UNION {Offers[t[n]] : n \in DOMAIN t}
  <2>1. \A n \in DOMAIN t : n \in DOMAIN s \/ n = Len(s) + 1
    BY <1>1
  <2> QED
    BY <1>1, <1>2, <2>1 DEF FirstEntries
<1>4. ASSUME NEW k \in DOMAIN g
      PROVE  \E n \in DOMAIN t : /\ g[k] = t[n] /\ k \in Offers[t[n]]
                                 /\ \A m \in 1 .. n - 1 : k \notin Offers[t[m]]
  <2>1. CASE k \in DOMAIN f
    <3>1. PICK n \in DOMAIN s : /\ f[k] = s[n] /\ k \in Offers[s[n]]
                               /\ \A m \in 1 .. n - 1 : k \notin Offers[s[m]]
      BY <2>1 DEF FirstEntries
    <3>2. n \in DOMAIN t /\ g[k] = t[n] /\ k \in Offers[t[n]]
      BY <1>1, <1>2, <2>1, <3>1
    <3>3. \A m \in 1 .. n - 1 : k \notin Offers[t[m]]
      BY <1>1, <3>1
    <3> QED
      BY <3>2, <3>3
  <2>2. CASE k \notin DOMAIN f
    <3>1. g[k] = t[Len(s) + 1] /\ k \in Offers[t[Len(s) + 1]] /\ Len(s) + 1 \in DOMAIN t
      BY <1>1, <1>2, <2>2
    <3>2. \A m \in 1 .. Len(s) : k \notin Offers[t[m]]
      BY <1>1, <2>2 DEF FirstEntries
    <3>3. \A m \in 1 .. (Len(s) + 1) - 1 : k \notin Offers[t[m]]
      BY <1>1, <3>2
    <3> QED
      BY <3>1, <3>3
  <2> QED
    BY <2>1, <2>2
<1> QED
  BY <1>3, <1>4 DEF FirstEntries, t, g

LEMMA SyncInductive == SyncInv /\ [Next]_vars => SyncInv'
<1> SUFFICES ASSUME SyncInv, [Next]_vars PROVE SyncInv'
  OBVIOUS
<1> USE ChainAssumption DEF SyncInv
<1>1. CASE SyncAnswers
  <2>1. asking \in Clients
    BY <1>1 DEF SyncAnswers, Clients
  <2>2. responded' = Append(responded, asking) /\ supported' = AddKinds(supported, asking)
    BY <1>1 DEF SyncAnswers, AskNext
  <2>3. FirstEntries(supported', responded')
    BY <2>1, <2>2, AddKindsKeepsFirst
  <2>4. asking' \in 0 .. N
    BY <1>1 DEF SyncAnswers, AskNext
  <2>5. responded' \in Seq(Clients)
    BY <2>1, <2>2
  <2>6. supported' = [k \in DOMAIN supported' |-> supported'[k]]
    BY <2>2 DEF AddKinds
  <2> QED
    BY <2>3, <2>4, <2>5, <2>6 DEF FirstEntries
<1>2. CASE SyncThrows
  BY <1>2 DEF SyncThrows, AskNext, FirstEntries
<1>3. CASE UNCHANGED syncVars
  BY <1>3 DEF syncVars, FirstEntries
<1> QED
  BY <1>1, <1>2, <1>3 DEF Next, RequestStep, Ask, VerifyAnswers, VerifyThrows, SettleSucceeds,
     SettleFails, SettleThrows, Expire, vars

LEMMA SyncInvariant == Spec => []SyncInv
<1>1. Init => SyncInv
  <2> SUFFICES ASSUME Init PROVE SyncInv
    OBVIOUS
  <2>1. DOMAIN supported = {} /\ DOMAIN responded = {} /\ responded \in Seq(Clients)
    BY DEF Init, NoKinds
  <2>2. supported = [k \in DOMAIN supported |-> supported[k]]
    BY DEF Init, NoKinds
  <2> QED
    BY <2>1, <2>2, ChainAssumption DEF Init, SyncInv, FirstEntries
<1> QED
  BY <1>1, SyncInductive, PTL DEF Spec

\* Whichever clients respond, in whatever rounds: the kinds offered are those of all of
\* them, and each keeps the entry of the first that has it.
THEOREM PrimaryEntriesSurvive == Spec => []FirstWriterWins
<1>1. SyncInv => FirstWriterWins
  BY DEF SyncInv, FirstWriterWins
<1> QED
  BY <1>1, SyncInvariant, PTL

-----------------------------------------------------------------------------
\* Only payments of the buyers come to the chain: a request under way has one.
OnlyPayments ==
  /\ landed \subseteq Payments
  /\ void \subseteq Payments
  /\ \A r \in Requests : stage[r] \in {"verify", "settle"} => payment[r] \in Payments

LEMMA OnlyPaymentsInductive == RequestTypes /\ OnlyPayments /\ [Next]_vars => OnlyPayments'
<1> SUFFICES ASSUME RequestTypes, OnlyPayments, [Next]_vars PROVE OnlyPayments'
  OBVIOUS
<1> USE DEF RequestTypes, OnlyPayments, MoveTo, NextOrEnd
<1>1. ASSUME NEW r \in Requests, Ask(r) PROVE OnlyPayments'
  BY <1>1 DEF Ask, chainVars
<1>2. ASSUME NEW r \in Requests, VerifyAnswers(r) \/ VerifyThrows(r) PROVE OnlyPayments'
  BY <1>2 DEF VerifyAnswers, VerifyThrows, chainVars
<1>3. ASSUME NEW r \in Requests, SettleSucceeds(r) \/ SettleFails(r) \/ SettleThrows(r)
      PROVE  OnlyPayments'
  <2>1. payment[r] \in Payments /\ UNCHANGED <<payment, void>>
    BY <1>3 DEF SettleSucceeds, SettleFails, SettleThrows, Blunder, Land, chainVars
  <2>2. landed' \subseteq landed \cup {payment[r]}
    BY <1>3 DEF SettleSucceeds, SettleFails, SettleThrows, Blunder, Land, chainVars
  <2>3. \A q \in Requests : stage'[q] = "settle" \/ stage'[q] = "verify" => stage'[q] = stage[q]
    BY <1>3 DEF SettleSucceeds, SettleFails, SettleThrows
  <2> QED
    BY <2>1, <2>2, <2>3
<1>4. ASSUME NEW p \in Payments, Expire(p) PROVE OnlyPayments'
  BY <1>4 DEF Expire, reqVars
<1>5. ASSUME UNCHANGED <<stage, payment, landed, void>> PROVE OnlyPayments'
  BY <1>5
<1> QED
  BY <1>1, <1>2, <1>3, <1>4, <1>5 DEF Next, RequestStep, SyncAnswers, SyncThrows, reqVars,
     chainVars, vars

\* Every variable keeps its type: no loop runs past the last client, and only payments
\* that a request carries come to the chain.
THEOREM FallbackTypeCorrect == Spec => []TypeOK
<1>1. ASSUME Inv, SyncInv, OnlyPayments PROVE TypeOK
  <2>1. DOMAIN supported \in SUBSET Kinds
    <3>1. \A n \in DOMAIN responded : Offers[responded[n]] \subseteq Kinds
      BY <1>1, ChainAssumption DEF SyncInv
    <3> QED
      BY <1>1, <3>1 DEF SyncInv, FirstEntries
  <2>2. \A k \in DOMAIN supported : supported[k] \in Clients
    BY <1>1 DEF SyncInv, FirstEntries
  <2>3. supported \in UNION {[S -> Clients] : S \in SUBSET Kinds}
    BY <1>1, <2>1, <2>2 DEF SyncInv
  <2> QED
    BY <1>1, <2>3 DEF TypeOK, Inv, RequestTypes, SyncInv, OnlyPayments
<1>2. Init => OnlyPayments
  BY DEF Init, OnlyPayments
<1>3. Inv /\ OnlyPayments /\ [Next]_vars => OnlyPayments'
  BY OnlyPaymentsInductive DEF Inv
<1> QED
  BY <1>1, <1>2, <1>3, Invariant, SyncInvariant, PTL DEF Spec
=============================================================================
