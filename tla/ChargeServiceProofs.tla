-------------------------- MODULE ChargeServiceProofs --------------------------
(***************************************************************************)
(* ChargeService keeps ChargeLedger, and its charges are accounted for,    *)
(* for every number of requests, credentials and operators.                *)
(***************************************************************************)
EXTENDS ChargeService, TLAPS

\* Whatever has been sent carries a credential.
CarriesCred ==
  /\ \A r \in Requests : pc[r] # "idle" => cred[r] \in Creds
  /\ \A d \in Deletes : delPc[d] # "idle" => delCred[d] \in Creds
  /\ \A o \in Operators : opPc[o] = "send" => target[o] \in Creds

TypeInv == TypeOK /\ CarriesCred

\* A client that was told 202 has a resource for the very credential it paid with.
AnsweredIsMade ==
  \A r \in Requests : pc[r] \in {"existing", "created"} => made[cred[r]] > 0

\* mppx lets one request per credential through, and it has settled that credential.
OneThrough ==
  /\ \A r \in Charged : cred[r] \in settled
  /\ \A r, s \in Charged : cred[r] = cred[s] => r = s

\* A resource was made by a request that went through and has left create(), and so
\* was an entry of the log.
MadeByOne ==
  /\ \A k \in Creds : live[k] <= made[k] /\ made[k] <= 1
  /\ \A k \in Creds :
       made[k] = 1 =>
         \E r \in Requests : cred[r] = k /\ pc[r] \in {"created", "failed", "dropped"}
  /\ \A k \in owed : \E r \in Requests : cred[r] = k /\ pc[r] = "failed"

RouteInv == OneThrough /\ MadeByOne

\* Operators hold charges of their own that are owed and not written down, and the
\* transfers beyond the one written down are those without an answer.
RefundInv ==
  /\ \A o \in Operators : opPc[o] = "send" => target[o] \in owed \ ledger
  /\ \A o, p \in Operators : opPc[o] = "send" /\ opPc[p] = "send" /\ target[o] = target[p] => o = p
  /\ \A k \in Creds \ ledger : sends[k] <= unanswered[k]

Inv == TypeInv /\ RouteInv /\ AnsweredIsMade /\ ChargesAccountedFor /\ RefundInv /\ RepaidOnce

-----------------------------------------------------------------------------
LEMMA TypeInductive == TypeInv /\ [Next]_vars => TypeInv'
<1> SUFFICES ASSUME TypeInv, [Next]_vars PROVE TypeInv'
  OBVIOUS
<1> USE DEF TypeInv, TypeOK, RouteTypeOK, RefundTypeOK, CarriesCred, InFlightStates, EndStates,
            MoveTo, postVars, deleteVars, upstream, routeVars, operatorVars, Provision
<1>1. ASSUME NEW r \in Requests, PostStep(r), UNCHANGED operatorVars PROVE TypeInv'
  <2>1. CASE Submit(r)
    BY <1>1, <2>1 DEF Submit
  <2>2. CASE FindExisting(r) \/ FindNothing(r) \/ VerifyAccepts(r) \/ VerifyRejects(r)
    BY <1>1, <2>2 DEF FindExisting, FindNothing, VerifyAccepts, VerifyRejects
  <2>3. CASE ResolvePayer(r) \/ PayerMissing(r) \/ CreateSucceeds(r) \/ CreateFails(r)
    BY <1>1, <2>3 DEF ResolvePayer, PayerMissing, CreateSucceeds, CreateFails
  <2>4. CASE DieUncharged(r) \/ DieSettling(r) \/ DieCharged(r)
    BY <1>1, <2>4 DEF DieUncharged, DieSettling, DieCharged
  <2> QED
    BY <1>1, <2>1, <2>2, <2>3, <2>4 DEF PostStep
<1>2. ASSUME NEW d \in Deletes, DeleteStep(d), UNCHANGED operatorVars PROVE TypeInv'
  <2>1. CASE SubmitDelete(d) \/ DeleteFinds(d) \/ DeleteRefused(d)
    BY <1>2, <2>1 DEF SubmitDelete, DeleteFinds, DeleteRefused
  <2>2. CASE DeleteResource(d)
    BY <1>2, <2>2 DEF DeleteResource
  <2> QED
    BY <1>2, <2>1, <2>2 DEF DeleteStep
<1>3. ASSUME NEW o \in Operators, OperatorStep(o), UNCHANGED routeVars PROVE TypeInv'
  <2>1. CASE Claim(o)
    BY <1>3, <2>1 DEF Claim
  <2>2. CASE Sent(o) \/ SentUnanswered(o) \/ NotSent(o)
    BY <1>3, <2>2 DEF Sent, SentUnanswered, NotSent, Return, Transfer
  <2> QED
    BY <1>3, <2>1, <2>2 DEF OperatorStep
<1>4. CASE UNCHANGED vars
  BY <1>4 DEF vars
<1> QED
  BY <1>1, <1>2, <1>3, <1>4 DEF Next, RouteNext, RefundNext

\* A request goes through only by settling a credential nobody settled before.
LEMMA ThroughInductive == TypeInv /\ OneThrough /\ [Next]_vars => OneThrough'
<1> SUFFICES ASSUME TypeInv, OneThrough, [Next]_vars PROVE OneThrough'
  OBVIOUS
<1> USE DEF TypeInv, TypeOK, RouteTypeOK, OneThrough, Charged, MoveTo
<1>1. ASSUME NEW r \in Requests, PostStep(r) PROVE OneThrough'
  <2>1. CASE VerifyAccepts(r)
    BY <1>1, <2>1 DEF VerifyAccepts, Spendable
  <2>2. CASE DieSettling(r)
    BY <1>1, <2>2 DEF DieSettling, Spendable
  <2>3. CASE Submit(r)
    BY <1>1, <2>3 DEF Submit
  <2>4. CASE FindExisting(r) \/ FindNothing(r) \/ VerifyRejects(r) \/ DieUncharged(r)
    BY <1>1, <2>4 DEF FindExisting, FindNothing, VerifyRejects, DieUncharged
  <2>5. CASE ResolvePayer(r) \/ PayerMissing(r) \/ CreateSucceeds(r) \/ CreateFails(r) \/ DieCharged(r)
    BY <1>1, <2>5 DEF ResolvePayer, PayerMissing, CreateSucceeds, CreateFails, DieCharged
  <2> QED
    BY <1>1, <2>1, <2>2, <2>3, <2>4, <2>5 DEF PostStep
<1>2. ASSUME NEW d \in Deletes, DeleteStep(d) PROVE OneThrough'
  BY <1>2 DEF DeleteStep, SubmitDelete, DeleteFinds, DeleteRefused, DeleteResource, postVars
<1>3. CASE UNCHANGED routeVars
  BY <1>3 DEF routeVars, postVars
<1> QED
  BY <1>1, <1>2, <1>3 DEF Next, RouteNext, RefundNext, vars

\* A request that is about to create is the first to do so for its credential.
LEMMA CreatesFirst ==
  ASSUME TypeInv, RouteInv, NEW r \in Requests, pc[r] = "create"
  PROVE  cred[r] \in Creds /\ made[cred[r]] = 0 /\ live[cred[r]] = 0
<1>1. cred[r] \in Creds
  BY DEF TypeInv, CarriesCred
<1>2. made[cred[r]] # 1
  <2> SUFFICES ASSUME made[cred[r]] = 1 PROVE FALSE
    OBVIOUS
  <2>1. PICK s \in Requests : cred[s] = cred[r] /\ pc[s] \in {"created", "failed", "dropped"}
    BY <1>1 DEF RouteInv, MadeByOne
  <2>2. r \in Charged /\ s \in Charged /\ r # s
    BY <2>1 DEF Charged
  <2> QED
    BY <2>1, <2>2 DEF RouteInv, OneThrough
<1> QED
  BY <1>1, <1>2 DEF TypeInv, TypeOK, RouteTypeOK, RouteInv, MadeByOne

LEMMA MadeInductive == TypeInv /\ RouteInv /\ [Next]_vars => MadeByOne'
<1> SUFFICES ASSUME TypeInv, RouteInv, [Next]_vars PROVE MadeByOne'
  OBVIOUS
<1> USE DEF TypeInv, TypeOK, RouteTypeOK, MoveTo, Provision, upstream
<1>1. ASSUME NEW r \in Requests, PostStep(r) PROVE MadeByOne'
  <2>0. cred[r] \in Creds \/ pc[r] = "idle"
    BY DEF CarriesCred
  <2>1. CASE Submit(r)
    BY <1>1, <2>1 DEF Submit, RouteInv, MadeByOne
  <2>2. CASE FindExisting(r) \/ FindNothing(r) \/ VerifyAccepts(r) \/ VerifyRejects(r)
             \/ ResolvePayer(r) \/ PayerMissing(r) \/ DieUncharged(r) \/ DieSettling(r)
    BY <1>1, <2>2 DEF FindExisting, FindNothing, VerifyAccepts, VerifyRejects, ResolvePayer,
                      PayerMissing, DieUncharged, DieSettling, RouteInv, MadeByOne
  <2>3. CASE CreateSucceeds(r)
    <3>1. made[cred[r]] = 0 /\ live[cred[r]] = 0 /\ cred[r] \in Creds
      BY <2>3, CreatesFirst DEF CreateSucceeds
    <3> QED
      BY <1>1, <2>3, <3>1 DEF CreateSucceeds, RouteInv, MadeByOne
  <2>4. CASE CreateFails(r)
    <3>1. made[cred[r]] = 0 /\ live[cred[r]] = 0 /\ cred[r] \in Creds
      BY <2>4, CreatesFirst DEF CreateFails
    <3> QED
      BY <1>1, <2>4, <3>1 DEF CreateFails, RouteInv, MadeByOne
  <2>5. CASE DieCharged(r)
    <3>1. CASE UNCHANGED upstream
      BY <1>1, <2>5, <3>1 DEF DieCharged, RouteInv, MadeByOne
    <3>2. CASE pc[r] = "create" /\ Provision(cred[r])
      <4>1. made[cred[r]] = 0 /\ live[cred[r]] = 0 /\ cred[r] \in Creds
        BY <3>2, CreatesFirst
      <4> QED
        BY <1>1, <2>5, <3>2, <4>1 DEF DieCharged, RouteInv, MadeByOne
    <3> QED
      BY <2>5, <3>1, <3>2 DEF DieCharged
  <2> QED
    BY <1>1, <2>1, <2>2, <2>3, <2>4, <2>5 DEF PostStep
<1>2. ASSUME NEW d \in Deletes, DeleteStep(d) PROVE MadeByOne'
  <2>1. CASE SubmitDelete(d) \/ DeleteFinds(d) \/ DeleteRefused(d)
    BY <1>2, <2>1 DEF SubmitDelete, DeleteFinds, DeleteRefused, postVars, RouteInv, MadeByOne
  <2>2. CASE DeleteResource(d)
    BY <1>2, <2>2 DEF DeleteResource, postVars, RouteInv, MadeByOne, CarriesCred
  <2> QED
    BY <1>2, <2>1, <2>2 DEF DeleteStep
<1>3. CASE UNCHANGED routeVars
  BY <1>3 DEF routeVars, postVars, RouteInv, MadeByOne
<1> QED
  BY <1>1, <1>2, <1>3 DEF Next, RouteNext, RefundNext, vars

\* What has once been made stays made.
LEMMA MadeGrows ==
  ASSUME TypeInv, [Next]_vars, NEW k \in Creds
  PROVE  made'[k] >= made[k]
BY DEF TypeInv, TypeOK, RouteTypeOK, Next, RouteNext, RefundNext, PostStep, DeleteStep, Submit,
       FindExisting, FindNothing, VerifyAccepts, VerifyRejects, ResolvePayer, PayerMissing,
       CreateSucceeds, CreateFails, DieUncharged, DieSettling, DieCharged, Provision, upstream,
       SubmitDelete, DeleteFinds, DeleteRefused, DeleteResource, routeVars, vars

LEMMA AnsweredInductive ==
  TypeInv /\ RouteInv /\ AnsweredIsMade /\ [Next]_vars => AnsweredIsMade'
<1> SUFFICES ASSUME TypeInv, RouteInv, AnsweredIsMade, [Next]_vars,
                    NEW q \in Requests, pc'[q] \in {"existing", "created"}
             PROVE  made'[cred'[q]] > 0
  BY DEF AnsweredIsMade
<1> USE DEF TypeInv, TypeOK, RouteTypeOK, MoveTo
<1>1. ASSUME pc[q] \in {"existing", "created"}, cred'[q] = cred[q] PROVE made'[cred'[q]] > 0
  <2>1. cred[q] \in Creds /\ made[cred[q]] > 0
    BY <1>1 DEF AnsweredIsMade, CarriesCred
  <2>2. made'[cred[q]] >= made[cred[q]]
    BY <2>1, MadeGrows
  <2>3. made'[cred[q]] \in Nat
    BY <2>1, TypeInductive
  <2> QED
    BY <1>1, <2>1, <2>2, <2>3
<1>2. ASSUME NEW r \in Requests, PostStep(r) PROVE made'[cred'[q]] > 0
  <2>1. CASE FindExisting(r)
    <3>1. CASE q = r
      BY <1>2, <2>1, <3>1 DEF FindExisting, Matches, RouteInv, MadeByOne, upstream
    <3> QED
      BY <1>1, <2>1, <3>1 DEF FindExisting
  <2>2. CASE CreateSucceeds(r)
    <3>1. CASE q = r
      BY <2>2, <3>1, CreatesFirst DEF CreateSucceeds, Provision
    <3> QED
      BY <1>1, <2>2, <3>1 DEF CreateSucceeds
  <2>3. CASE Submit(r)
    BY <1>1, <2>3 DEF Submit
  <2>4. CASE FindNothing(r) \/ VerifyAccepts(r) \/ VerifyRejects(r) \/ ResolvePayer(r)
             \/ PayerMissing(r) \/ CreateFails(r)
    BY <1>1, <2>4 DEF FindNothing, VerifyAccepts, VerifyRejects, ResolvePayer, PayerMissing,
                      CreateFails
  <2>5. CASE DieUncharged(r) \/ DieSettling(r) \/ DieCharged(r)
    BY <1>1, <2>5 DEF DieUncharged, DieSettling, DieCharged
  <2> QED
    BY <1>2, <2>1, <2>2, <2>3, <2>4, <2>5 DEF PostStep
<1>3. ASSUME UNCHANGED postVars PROVE made'[cred'[q]] > 0
  BY <1>1, <1>3 DEF postVars
<1>4. ASSUME NEW d \in Deletes, DeleteStep(d) PROVE made'[cred'[q]] > 0
  BY <1>3, <1>4 DEF DeleteStep, SubmitDelete, DeleteFinds, DeleteRefused, DeleteResource
<1> QED
  BY <1>2, <1>3, <1>4 DEF Next, RouteNext, RefundNext, vars, routeVars

\* A charge can only leave the accounts by way of create(), which makes the resource
\* or logs the refund.
LEMMA AccountedInductive ==
  TypeInv /\ RouteInv /\ ChargesAccountedFor /\ [Next]_vars => ChargesAccountedFor'
<1> SUFFICES ASSUME TypeInv, RouteInv, ChargesAccountedFor, [Next]_vars, NEW k \in settled'
             PROVE  Accounted(k)'
  BY DEF ChargesAccountedFor
<1> USE DEF TypeInv, TypeOK, RouteTypeOK, MoveTo
<1>0. k \in Creds
  BY TypeInductive
<1>1. ASSUME made[k] > 0 PROVE Accounted(k)'
  BY <1>0, <1>1, MadeGrows, TypeInductive DEF Accounted
<1>2. ASSUME NEW r \in Requests, PostStep(r), made[k] = 0 PROVE Accounted(k)'
  <2>1. CASE VerifyAccepts(r) \/ DieSettling(r)
    BY <1>2, <2>1 DEF VerifyAccepts, DieSettling, ChargesAccountedFor, Accounted, upstream
  <2>2. CASE Submit(r) \/ FindExisting(r) \/ FindNothing(r) \/ VerifyRejects(r) \/ DieUncharged(r)
    BY <1>2, <2>2 DEF Submit, FindExisting, FindNothing, VerifyRejects, DieUncharged,
                      ChargesAccountedFor, Accounted, upstream
  <2>3. CASE ResolvePayer(r) \/ PayerMissing(r)
    BY <1>2, <2>3 DEF ResolvePayer, PayerMissing, ChargesAccountedFor, Accounted, upstream
  <2>4. CASE CreateSucceeds(r)
    BY <1>0, <1>2, <2>4 DEF CreateSucceeds, Provision, ChargesAccountedFor, Accounted
  <2>5. CASE CreateFails(r)
    BY <1>0, <1>2, <2>5 DEF CreateFails, Provision, upstream, ChargesAccountedFor, Accounted
  <2>6. CASE DieCharged(r)
    BY <1>0, <1>2, <2>6 DEF DieCharged, Provision, upstream, ChargesAccountedFor, Accounted
  <2> QED
    BY <1>2, <2>1, <2>2, <2>3, <2>4, <2>5, <2>6 DEF PostStep
<1>3. ASSUME NEW d \in Deletes, DeleteStep(d) PROVE Accounted(k)'
  BY <1>3 DEF DeleteStep, SubmitDelete, DeleteFinds, DeleteRefused, DeleteResource, postVars,
              upstream, ChargesAccountedFor, Accounted
<1>4. ASSUME UNCHANGED routeVars PROVE Accounted(k)'
  BY <1>4 DEF routeVars, postVars, upstream, ChargesAccountedFor, Accounted
<1> QED
  BY <1>0, <1>1, <1>2, <1>3, <1>4 DEF Next, RouteNext, RefundNext, vars

\* The operators' records and what they have sent agree.
LEMMA RefundInductive ==
  TypeInv /\ RefundInv /\ RepaidOnce /\ [Next]_vars => RefundInv' /\ RepaidOnce'
<1> SUFFICES ASSUME TypeInv, RefundInv, RepaidOnce, [Next]_vars PROVE RefundInv' /\ RepaidOnce'
  OBVIOUS
<1> USE DEF TypeInv, TypeOK, RefundTypeOK, CarriesCred, RefundInv, RepaidOnce
<1>1. ASSUME RouteNext, UNCHANGED operatorVars PROVE RefundInv' /\ RepaidOnce'
  <2>1. owed \subseteq owed'
    BY <1>1 DEF RouteNext, PostStep, DeleteStep, Submit, FindExisting, FindNothing, VerifyAccepts,
         VerifyRejects, ResolvePayer, PayerMissing, CreateSucceeds, CreateFails, DieUncharged,
         DieSettling, DieCharged, SubmitDelete, DeleteFinds, DeleteRefused, DeleteResource
  <2> QED
    BY <1>1, <2>1 DEF operatorVars
<1>2. ASSUME NEW o \in Operators, OperatorStep(o), UNCHANGED routeVars
      PROVE RefundInv' /\ RepaidOnce'
  <2>0. owed' = owed
    BY <1>2 DEF routeVars
  <2>1. CASE Claim(o)
    BY <2>0, <2>1 DEF Claim, Claimed
  <2>2. CASE Sent(o)
    BY <2>0, <2>2 DEF Sent, Transfer, Return
  <2>3. CASE SentUnanswered(o)
    BY <2>0, <2>3 DEF SentUnanswered, Transfer, Return
  <2>4. CASE NotSent(o)
    BY <2>0, <2>4 DEF NotSent, Return
  <2> QED
    BY <1>2, <2>1, <2>2, <2>3, <2>4 DEF OperatorStep
<1>3. CASE UNCHANGED vars
  BY <1>3 DEF vars, routeVars, operatorVars
<1> QED
  BY <1>1, <1>2, <1>3 DEF Next, RefundNext

\* The inductive invariant holds in every reachable state.
LEMMA Invariant == Spec => []Inv
<1>1. Init => Inv
  BY ChargeAssumption DEF Init, RouteInit, RefundInit, Inv, TypeInv, TypeOK, RouteTypeOK,
     RefundTypeOK, CarriesCred, RouteInv, OneThrough, MadeByOne, Charged, AnsweredIsMade,
     ChargesAccountedFor, RefundInv, RepaidOnce
<1>2. Inv /\ [Next]_vars => Inv'
  BY TypeInductive, ThroughInductive, MadeInductive, AnsweredInductive, AccountedInductive,
     RefundInductive DEF Inv, RouteInv
<1> QED
  BY <1>1, <1>2, PTL DEF Spec

-----------------------------------------------------------------------------
\* Every request, resource and refund has the shape that TypeOK says.
THEOREM ChargeTypeCorrect == Spec => []TypeOK
BY Invariant, PTL DEF Inv, TypeInv

\* No charge disappears except with a process that dies or a payer that is missing.
THEOREM NoChargeForgotten == Spec => []ChargesAccountedFor
BY Invariant, PTL DEF Inv

\* Served and in the refund log is nobody but a buyer whose one creation was logged as
\* failed after the provider had made the resource, and who asked again: the
\* credential was let through once, so no other request can have made it.
THEOREM ServedAndOwedIsLate == Spec => []ServedOwedIsLate
<1>1. Inv => ServedOwedIsLate
  <2> SUFFICES ASSUME Inv, NEW r \in Requests, pc[r] \in {"created", "existing"},
                      cred[r] \in owed
               PROVE  /\ pc[r] = "existing"
                      /\ made[cred[r]] = 1
                      /\ \E q \in Requests : cred[q] = cred[r] /\ pc[q] = "failed"
    BY DEF ServedOwedIsLate
  <2>1. PICK q \in Requests : cred[q] = cred[r] /\ pc[q] = "failed"
    BY DEF Inv, RouteInv, MadeByOne
  <2>2. pc[r] # "created"
    BY <2>1 DEF Inv, RouteInv, OneThrough, Charged
  <2>3. cred[r] \in Creds /\ made[cred[r]] \in Nat
    BY DEF Inv, TypeInv, TypeOK, RouteTypeOK, CarriesCred
  <2>4. made[cred[r]] = 1
    BY <2>3 DEF Inv, AnsweredIsMade, RouteInv, MadeByOne
  <2> QED
    BY <2>1, <2>2, <2>4
<1> QED
  BY <1>1, Invariant, PTL

\* A second transfer for a charge needs a first one whose answer was lost.
THEOREM RepaidOnlyOnce == Spec => []RepaidOnce
BY Invariant, PTL DEF Inv

\* The service as built implements the ledger: a credential is charged once, one
\* resource is made for it, and only charges are refunded.
THEOREM LedgerKept == Spec => KeepsLedger
<1>1. Init => Ledger!Init
  BY DEF Init, RouteInit, RefundInit, Ledger!Init
<1>2. Inv /\ [Next]_vars => [Ledger!Next]_(Ledger!vars)
  <2> SUFFICES ASSUME Inv, [Next]_vars PROVE Ledger!Next \/ UNCHANGED Ledger!vars
    OBVIOUS
  <2> USE DEF Inv, TypeInv, TypeOK, RouteTypeOK, RefundTypeOK, CarriesCred
  <2>1. ASSUME NEW r \in Requests, PostStep(r), UNCHANGED operatorVars
        PROVE  Ledger!Next \/ UNCHANGED Ledger!vars
    <3> USE DEF operatorVars, upstream
    <3>1. CASE VerifyAccepts(r) \/ DieSettling(r)
      <4>1. cred[r] \in Creds /\ Ledger!Charge(cred[r])
        BY <2>1, <3>1 DEF VerifyAccepts, DieSettling, Spendable, Ledger!Charge
      <4> QED
        BY <4>1 DEF Ledger!Next
    <3>2. ASSUME pc[r] = "create", Provision(cred[r]), UNCHANGED settled
          PROVE  Ledger!Next
      <4>1. cred[r] \in Creds /\ made[cred[r]] = 0
        BY <3>2, CreatesFirst
      <4>2. cred[r] \in settled
        BY <3>2 DEF RouteInv, OneThrough, Charged
      <4>3. Ledger!Deliver(cred[r])
        BY <2>1, <3>2, <4>1, <4>2 DEF Provision, Ledger!Deliver
      <4> QED
        BY <4>1, <4>3 DEF Ledger!Next
    <3>3. CASE CreateSucceeds(r) \/ CreateFails(r) \/ DieCharged(r)
      BY <2>1, <3>2, <3>3 DEF CreateSucceeds, CreateFails, DieCharged, Ledger!vars
    <3>4. CASE Submit(r) \/ FindExisting(r) \/ FindNothing(r) \/ VerifyRejects(r)
               \/ ResolvePayer(r) \/ PayerMissing(r) \/ DieUncharged(r)
      BY <2>1, <3>4 DEF Submit, FindExisting, FindNothing, VerifyRejects, ResolvePayer,
                        PayerMissing, DieUncharged, Ledger!vars
    <3> QED
      BY <2>1, <3>1, <3>3, <3>4 DEF PostStep
  <2>2. ASSUME NEW d \in Deletes, DeleteStep(d), UNCHANGED operatorVars
        PROVE  UNCHANGED Ledger!vars
    BY <2>2 DEF DeleteStep, SubmitDelete, DeleteFinds, DeleteRefused, DeleteResource, operatorVars,
                upstream, Ledger!vars
  <2>3. ASSUME NEW o \in Operators, OperatorStep(o), UNCHANGED routeVars
        PROVE  Ledger!Next \/ UNCHANGED Ledger!vars
    <3>0. settled' = settled /\ made' = made
      BY <2>3 DEF routeVars, upstream
    <3>1. CASE Sent(o) \/ SentUnanswered(o)
      <4>1. opPc[o] = "send" /\ Transfer(target[o])
        BY <3>1 DEF Sent, SentUnanswered
      <4>2. target[o] \in owed
        BY <4>1 DEF RefundInv
      <4>3. target[o] \in settled
        BY <4>2 DEF RouteInv, MadeByOne, OneThrough, Charged
      <4>4. target[o] \in Creds /\ Ledger!Repay(target[o])
        BY <3>0, <4>1, <4>3 DEF Transfer, Ledger!Repay
      <4> QED
        BY <4>4 DEF Ledger!Next
    <3>2. CASE Claim(o) \/ NotSent(o)
      BY <3>0, <3>2 DEF Claim, NotSent, Ledger!vars
    <3> QED
      BY <2>3, <3>1, <3>2 DEF OperatorStep
  <2>4. CASE UNCHANGED vars
    BY <2>4 DEF vars, routeVars, upstream, operatorVars, Ledger!vars
  <2> QED
    BY <2>1, <2>2, <2>3, <2>4 DEF Next, RouteNext, RefundNext
<1> QED
  BY <1>1, <1>2, Invariant, PTL DEF Spec, KeepsLedger, Ledger!Spec
=============================================================================
