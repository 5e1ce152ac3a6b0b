-------------------------- MODULE GatedServiceProofs --------------------------
(***************************************************************************)
(* What mppGated keeps for every deployment, any number of calls and       *)
(* credentials, any set of sinks, and any crashes.                         *)
(***************************************************************************)
EXTENDS GatedService, TLAPS

\* Where a call stands says what is known of its credential.
CallInv ==
  /\ \A r \in Calls :
       /\ pc[r] = "idle" => cred[r] = NoCred
       /\ pc[r] \in InFlightStates \/ verified[r] => cred[r] \in Creds
       /\ pc[r] \in {"idle", "precheck", "verify", "put", "refused"} => ~verified[r]
       /\ pc[r] \in {"payer", "completing"} => verified[r]
       /\ pc[r] = "put" => IsSession /\ StoreKind(deploy) = "kv"
       /\ pc[r] = "handler" => verified[r] \/ cred[r] \in done
  /\ \A c \in done : \E q \in Calls : verified[q] /\ cred[q] = c

\* A call is in no sink before its payer is looked up, and has at most been logged
\* as settled until it ends.
LogInv ==
  \A s \in Sinks, r \in Calls, k \in Kinds :
    /\ pc[r] \in {"idle", "precheck", "verify", "put", "payer"} => log[s][r][k] = 0
    /\ pc[r] \in {"handler", "completing"} /\ k # "settled" => log[s][r][k] = 0

\* With the handler still to run, a working sink has the settled line already.
BooksInv ==
  \A s \in Sinks \ Flaky, r \in Calls :
    IsPaid(deploy) /\ pc[r] \in {"handler", "completing"} =>
      log[s][r]["settled"] = IF verified[r] THEN 1 ELSE 0

\* A store that has not been lost holds every accepted voucher: for Workers KV this
\* takes calls that come one by one, so that a read is never stale.
Reliable ==
  \/ StoreKind(deploy) = "redis"
  \/ StoreKind(deploy) = "memory" /\ ~PerRequest(deploy) /\ crashes = 0
  \/ StoreKind(deploy) = "kv" /\ deploy.calm

AnnouncedInv ==
  /\ up /\ Warns(deploy) => warned
  /\ \A r \in Calls : pc[r] # "idle" /\ Warns(deploy) => warned

KeptInv == \A r \in Calls : Reliable /\ IsSession /\ verified[r] => cred[r] <= db[Shared]

HomeInv ==
  \A r \in Calls :
    StoreKind(deploy) = "memory" /\ IsSession /\ pc[r] = "payer" => cred[r] <= db[Home(r)]

CalmInv ==
  deploy.calm =>
    \A r \in Calls :
      /\ pc[r] \in InFlightStates => \A q \in Calls : pc[q] \in InFlightStates => q = r
      /\ pc[r] \in {"precheck", "verify", "put"} => past = {}
      /\ pc[r] = "put" => seen[r] = db[Shared] /\ seen[r] < cred[r]

StoreInv == AnnouncedInv /\ KeptInv /\ HomeInv /\ CalmInv

GateInv == TypeOK /\ CallInv /\ LogInv /\ BooksInv /\ StoreInv /\ MoneyIsLogged /\ PaidCallsAreLetIn

-----------------------------------------------------------------------------
\* One event changes one counter of each sink, and of every working sink for sure.
LEMMA RecordFacts ==
  ASSUME TypeOK, NEW r \in Calls, NEW k \in Kinds, Emit(r, k),
         \A s \in Sinks : log[s][r][k] = 0
  PROVE  /\ log' \in [Sinks -> [Calls -> [Kinds -> {0, 1}]]]
         /\ \A s \in Sinks, q \in Calls, j \in Kinds :
              q # r \/ j # k => log'[s][q][j] = log[s][q][j]
         /\ \A s \in Sinks \ Flaky : log'[s][r][k] = 1
<1> PICK down \in SUBSET Flaky : log' = Record(log, r, k, down)
  BY DEF Emit
<1> QED
  BY SinksAssumption DEF Record, TypeOK

\* Deployments have the fields that the wiring reads.
LEMMA DeployFacts ==
  ASSUME TypeOK
  PROVE  /\ deploy \in Deployments
         /\ StoreKind(deploy) \in {"redis", "memory", "kv"}
         /\ Challenge(deploy) \in {"challenged", "errored"}
         /\ \A r \in Calls : Home(r) \in Homes
         /\ Shared \in Homes
<1>1. deploy \in Deployments
  BY GateAssumption DEF TypeOK
<1> QED
  BY <1>1 DEF Deployments, StoreKind, ResolveDefaultStore, Challenge, Home, Homes

LEMMA PutTypes ==
  ASSUME TypeOK, NEW r \in Calls, cred[r] \in Creds, Put(r)
  PROVE  db' \in [Homes -> 0 .. MaxCred] /\ past' \subseteq 0 .. MaxCred
<1>1. cred[r] \in 0 .. MaxCred /\ db[Shared] \in 0 .. MaxCred
  BY GateAssumption DEF TypeOK, Creds, Homes
<1> QED
  BY <1>1 DEF TypeOK, Put

\* A verification that fails is logged, and says nothing of where money went.
LEMMA RejectionIsLogged ==
  ASSUME TypeOK, LogInv, MoneyIsLogged, NEW r \in Calls, pc[r] \in {"verify", "put"},
         ~verified[r], MoveTo(r, Challenge(deploy)), Emit(r, "verify"),
         UNCHANGED <<deploy, cred, verified>>
  PROVE  MoneyIsLogged'
<1>1. \A s \in Sinks, k \in Kinds : log[s][r][k] = 0
  BY DEF LogInv
<1>2. /\ \A s \in Sinks, q \in Calls, j \in Kinds :
           q # r \/ j # "verify" => log'[s][q][j] = log[s][q][j]
      /\ \A s \in Sinks \ Flaky : log'[s][r]["verify"] = 1
  BY <1>1, RecordFacts DEF Kinds
<1> SUFFICES ASSUME NEW s \in Sinks \ Flaky, NEW q \in Calls
             PROVE LET lines == log'[s][q]["settled"] + log'[s][q]["missing"]
                   IN  /\ IsPaid(deploy) /\ pc'[q] \in EndStates \ {"lost"} =>
                            lines = IF verified[q] THEN 1 ELSE 0
                       /\ ~verified[q] => lines = 0
                       /\ pc'[q] = "challenged" /\ cred[q] # NoCred /\ ~verified[q] =>
                            log'[s][q]["verify"] = 1
                       /\ ~IsPaid(deploy) => log'[s][q]["settled"] = 0
  BY DEF MoneyIsLogged, IsPaid
<1>3. log'[s][q]["settled"] = log[s][q]["settled"] /\ log'[s][q]["missing"] = log[s][q]["missing"]
  BY <1>2 DEF Kinds
<1>4. CASE q = r
  BY <1>1, <1>2, <1>3, <1>4 DEF Kinds
<1>5. CASE q # r
  BY <1>2, <1>3, <1>5 DEF MoneyIsLogged, MoveTo, TypeOK, Kinds
<1> QED
  BY <1>4, <1>5

-----------------------------------------------------------------------------
\* Types, the credential of each call, the money log and the store, action by action.
LEMMA TypeCallLogStep ==
  ASSUME GateInv, NEW r \in Calls, ArriveBare(r) \/ Arrive(r) \/ Step(r)
  PROVE  TypeOK' /\ CallInv' /\ LogInv' /\ BooksInv' /\ MoneyIsLogged'
<1> USE GateAssumption, DeployFacts
    DEF GateInv, TypeOK, CallInv, LogInv, BooksInv, MoneyIsLogged, MoveTo, InFlightStates,
        EndStates, processVars, storeVars, callVars, NoCred, IsPaid, IsSession, Kinds
<1>1. CASE ArriveBare(r)
  BY <1>1, RecordFacts DEF ArriveBare, MayArrive
<1>2. CASE Arrive(r)
  BY <1>2 DEF Arrive, MayArrive
<1>3. CASE PreCheckThrows(r)
  BY <1>3, RecordFacts DEF PreCheckThrows
<1>4. CASE PreCheckRefuses(r)
  BY <1>4 DEF PreCheckRefuses
<1>5. CASE PreCheckKnows(r)
  BY <1>5 DEF PreCheckKnows
<1>6. CASE PreCheckPasses(r)
  BY <1>6 DEF PreCheckPasses
<1>7. CASE VerifyRejects(r)
  <2>1. TypeOK' /\ CallInv'
    BY <1>7, RecordFacts DEF VerifyRejects
  <2>2. LogInv' /\ BooksInv'
    BY <1>7, RecordFacts DEF VerifyRejects
  <2>3. MoneyIsLogged'
    BY <1>7, RejectionIsLogged DEF VerifyRejects
  <2> QED
    BY <2>1, <2>2, <2>3
<1>8. CASE VerifyAccepts(r)
  BY <1>8 DEF VerifyAccepts, MayVerify, Verified, Higher, Creds
<1>9. CASE VerifyReads(r)
  <2>1. PICK v \in {db[Shared]} \cup past :
          /\ seen' = [seen EXCEPT ![r] = v]
          /\ \/ cred[r] > v /\ MoveTo(r, "put") /\ UNCHANGED verified
             \/ cred[r] <= v /\ MoveTo(r, "payer") /\ Verified(r)
    BY <1>9 DEF VerifyReads
  <2>2. v \in 0 .. MaxCred
    BY <2>1
  <2>3. CASE MoveTo(r, "put") /\ UNCHANGED verified
    BY <1>9, <2>1, <2>2, <2>3 DEF VerifyReads, MayVerify
  <2>4. CASE MoveTo(r, "payer") /\ Verified(r)
    BY <1>9, <2>1, <2>2, <2>4 DEF VerifyReads, MayVerify, Verified
  <2> QED
    BY <2>1, <2>3, <2>4
<1>10. CASE VerifyPuts(r)
  <2>2. TypeOK'
    <3>1. db' \in [Homes -> 0 .. MaxCred] /\ past' \subseteq 0 .. MaxCred
      BY <1>10, PutTypes DEF VerifyPuts
    <3> QED
      BY <1>10, <3>1 DEF VerifyPuts, Verified
  <2>3. CallInv'
    BY <1>10 DEF VerifyPuts, Put, Verified
  <2>4. LogInv' /\ BooksInv' /\ MoneyIsLogged'
    BY <1>10 DEF VerifyPuts, Put, Verified
  <2> QED
    BY <2>2, <2>3, <2>4
<1>16. CASE PutRejects(r)
  <2>2. db' \in [Homes -> 0 .. MaxCred] /\ past' \subseteq 0 .. MaxCred
    BY <1>16, PutTypes DEF PutRejects
  <2>3. TypeOK'
    BY <1>16, <2>2, RecordFacts DEF PutRejects
  <2>4. CallInv'
    BY <1>16 DEF PutRejects
  <2>5. LogInv' /\ BooksInv'
    BY <1>16, RecordFacts DEF PutRejects
  <2>6. MoneyIsLogged'
    BY <1>16, RejectionIsLogged DEF PutRejects
  <2> QED
    BY <2>3, <2>4, <2>5, <2>6
<1>17. CASE UpdateAnswerLost(r)
  <2>1. db' \in [Homes -> 0 .. MaxCred]
    BY <1>17 DEF UpdateAnswerLost, MayVerify, Higher, Creds
  <2>2. TypeOK' /\ CallInv'
    BY <1>17, <2>1, RecordFacts DEF UpdateAnswerLost, MayVerify
  <2>3. LogInv' /\ BooksInv'
    BY <1>17, RecordFacts DEF UpdateAnswerLost, MayVerify
  <2>4. MoneyIsLogged'
    BY <1>17, RejectionIsLogged DEF UpdateAnswerLost, MayVerify
  <2> QED
    BY <2>2, <2>3, <2>4
<1>11. CASE PayerMissing(r)
  BY <1>11, RecordFacts DEF PayerMissing
<1>12. CASE PayerFound(r)
  BY <1>12, RecordFacts DEF PayerFound
<1>13. CASE HandlerThrows(r)
  BY <1>13 DEF HandlerThrows
<1>14. CASE HandlerSucceeds(r)
  BY <1>14 DEF HandlerSucceeds
<1>15. CASE Completed(r)
  BY <1>15, RecordFacts DEF Completed
<1> QED
  BY <1>1, <1>2, <1>3, <1>4, <1>5, <1>6, <1>7, <1>8, <1>9, <1>10, <1>11, <1>12, <1>13,
     <1>14, <1>15, <1>16, <1>17 DEF Step
\* Each accepted voucher is in a store that has not been lost.
LEMMA StoreStep ==
  ASSUME GateInv, NEW r \in Calls, ArriveBare(r) \/ Arrive(r) \/ Step(r)
  PROVE  StoreInv' /\ PaidCallsAreLetIn'
<1> USE GateAssumption, DeployFacts
    DEF GateInv, TypeOK, CallInv, StoreInv, AnnouncedInv, KeptInv, HomeInv, CalmInv, Reliable,
        PaidCallsAreLetIn, MoveTo, InFlightStates, InFlight, EndStates, processVars, storeVars,
        callVars, NoCred, IsSession
<1>1. CASE ArriveBare(r)
  BY <1>1 DEF ArriveBare, MayArrive, Home
<1>2. CASE Arrive(r)
  BY <1>2 DEF Arrive, MayArrive, Home
<1>3. CASE PreCheckThrows(r)
  BY <1>3 DEF PreCheckThrows, Home
<1>4. CASE PreCheckRefuses(r)
  BY <1>4 DEF PreCheckRefuses, Home
<1>5. CASE PreCheckKnows(r)
  BY <1>5 DEF PreCheckKnows, Home
<1>6. CASE PreCheckPasses(r)
  BY <1>6 DEF PreCheckPasses, Home
<1>7. CASE VerifyRejects(r)
  BY <1>7 DEF VerifyRejects, Home
<1>8. CASE VerifyAccepts(r)
  <2>1. /\ db' \in [Homes -> 0 .. MaxCred]
        /\ \A h \in Homes : db[h] <= db'[h]
        /\ IsSession => cred[r] <= db'[Home(r)]
    BY <1>8 DEF VerifyAccepts, MayVerify, Higher, Creds
  <2>2. KeptInv'
    BY <1>8, <2>1 DEF VerifyAccepts, MayVerify, Verified, Home, PerRequest, Creds
  <2>3. HomeInv'
    BY <1>8, <2>1 DEF VerifyAccepts, MayVerify, Home, Creds
  <2>4. AnnouncedInv' /\ CalmInv' /\ PaidCallsAreLetIn'
    BY <1>8 DEF VerifyAccepts, MayVerify, Verified
  <2> QED
    BY <2>2, <2>3, <2>4
<1>9. CASE VerifyReads(r)
  <2>1. PICK v \in {db[Shared]} \cup past :
          /\ seen' = [seen EXCEPT ![r] = v]
          /\ \/ cred[r] > v /\ MoveTo(r, "put") /\ UNCHANGED verified
             \/ cred[r] <= v /\ MoveTo(r, "payer") /\ Verified(r)
    BY <1>9 DEF VerifyReads
  <2>2. v \in 0 .. MaxCred /\ cred[r] \in Nat /\ (deploy.calm => v = db[Shared])
    BY <1>9, <2>1 DEF VerifyReads, MayVerify, Creds
  <2>3. AnnouncedInv' /\ HomeInv' /\ PaidCallsAreLetIn'
    BY <1>9, <2>1 DEF VerifyReads, MayVerify, Verified
  <2>4. KeptInv'
    BY <1>9, <2>1, <2>2 DEF VerifyReads, MayVerify, Verified
  <2>5. CalmInv'
    BY <1>9, <2>1, <2>2 DEF VerifyReads, MayVerify, Verified
  <2> QED
    BY <2>3, <2>4, <2>5
<1>10. CASE VerifyPuts(r)
  <2>1. IsSession /\ StoreKind(deploy) = "kv"
    BY <1>10 DEF VerifyPuts
  <2>2. AnnouncedInv' /\ HomeInv' /\ PaidCallsAreLetIn'
    BY <1>10, <2>1 DEF VerifyPuts, Put, Verified
  <2>3. KeptInv'
    BY <1>10, <2>1 DEF VerifyPuts, Put, Verified, Creds
  <2>4. CalmInv'
    BY <1>10 DEF VerifyPuts
  <2> QED
    BY <2>2, <2>3, <2>4
<1>16. CASE PutRejects(r)
  <2>1. IsSession /\ StoreKind(deploy) = "kv"
    BY <1>16 DEF PutRejects
  <2>2. KeptInv' /\ HomeInv' /\ PaidCallsAreLetIn'
    BY <1>16, <2>1 DEF PutRejects, Put, Creds
  <2>3. AnnouncedInv' /\ CalmInv'
    BY <1>16 DEF PutRejects
  <2> QED
    BY <2>2, <2>3
<1>17. CASE UpdateAnswerLost(r)
  <2>1. /\ db' \in [Homes -> 0 .. MaxCred]
        /\ \A h \in Homes : db[h] <= db'[h]
    BY <1>17 DEF UpdateAnswerLost, MayVerify, Higher, Creds
  <2>2. KeptInv' /\ HomeInv' /\ PaidCallsAreLetIn'
    BY <1>17, <2>1 DEF UpdateAnswerLost, MayVerify, Creds
  <2>3. AnnouncedInv' /\ CalmInv'
    BY <1>17 DEF UpdateAnswerLost, MayVerify
  <2> QED
    BY <2>2, <2>3
<1>11. CASE PayerMissing(r)
  BY <1>11 DEF PayerMissing, PayerUnknown, Home, Creds
<1>12. CASE PayerFound(r)
  BY <1>12 DEF PayerFound, Home
<1>13. CASE HandlerThrows(r)
  BY <1>13 DEF HandlerThrows, Home
<1>14. CASE HandlerSucceeds(r)
  BY <1>14 DEF HandlerSucceeds, Home
<1>15. CASE Completed(r)
  BY <1>15 DEF Completed, Home
<1> QED
  BY <1>1, <1>2, <1>3, <1>4, <1>5, <1>6, <1>7, <1>8, <1>9, <1>10, <1>11, <1>12, <1>13,
     <1>14, <1>15, <1>16, <1>17 DEF Step

\* The process boots, dies, or KV catches up.
LEMMA ProcessStep ==
  ASSUME GateInv, Boot \/ Crash \/ Propagate
  PROVE  GateInv'
<1> USE GateAssumption, DeployFacts
    DEF GateInv, TypeOK, CallInv, LogInv, BooksInv, StoreInv, AnnouncedInv,
        KeptInv, HomeInv, CalmInv, Reliable, MoneyIsLogged,
        PaidCallsAreLetIn, InFlightStates, InFlight, EndStates, processVars, storeVars,
        callVars, IsSession, IsPaid, Home
<1>1. CASE Boot
  <2>1. TypeOK' /\ CallInv' /\ PaidCallsAreLetIn'
    BY <1>1 DEF Boot
  <2>2. LogInv' /\ BooksInv' /\ MoneyIsLogged'
    BY <1>1 DEF Boot
  <2>3. StoreInv'
    BY <1>1 DEF Boot
  <2> QED
    BY <2>1, <2>2, <2>3
<1>2. CASE Crash
  <2>1. TypeOK'
    <3>1. crashes' \in 0 .. MaxCrashes /\ 0 \in 0 .. MaxCred
      BY <1>2 DEF Crash
    <3> QED
      BY <1>2, <3>1 DEF Crash
  <2>2. CallInv' /\ PaidCallsAreLetIn'
    BY <1>2 DEF Crash
  <2>3. LogInv' /\ BooksInv' /\ MoneyIsLogged'
    BY <1>2 DEF Crash
  <2>4. StoreInv'
    BY <1>2 DEF Crash
  <2> QED
    BY <2>1, <2>2, <2>3, <2>4
<1>3. CASE Propagate
  BY <1>3 DEF Propagate
<1> QED
  BY <1>1, <1>2, <1>3

LEMMA GateInvariant == Spec => []GateInv
<1>1. Init => GateInv
  <2> SUFFICES ASSUME Init PROVE GateInv
    OBVIOUS
  <2> USE GateAssumption DEF Init, InFlightStates, EndStates, NoCred
  <2>1. TypeOK
    <3>1. 0 \in 0 .. MaxCred /\ 0 \in 0 .. MaxCrashes
      OBVIOUS
    <3> QED
      BY <3>1 DEF TypeOK, EmptyLog
  <2>2. CallInv /\ PaidCallsAreLetIn
    BY DEF CallInv, PaidCallsAreLetIn
  <2>3. LogInv /\ BooksInv /\ MoneyIsLogged
    BY DEF LogInv, BooksInv, MoneyIsLogged, EmptyLog, Kinds
  <2>4. StoreInv
    BY DEF StoreInv, AnnouncedInv, KeptInv, HomeInv, CalmInv
  <2> QED
    BY <2>1, <2>2, <2>3, <2>4 DEF GateInv
<1>2. GateInv /\ [Next]_vars => GateInv'
  <2>1. ASSUME GateInv, UNCHANGED vars PROVE GateInv'
    BY <2>1 DEF vars, GateInv, TypeOK, CallInv, LogInv, BooksInv, StoreInv, AnnouncedInv,
        KeptInv, HomeInv, CalmInv, Reliable,
       MoneyIsLogged, PaidCallsAreLetIn, IsSession, IsPaid, Home
  <2>2. ASSUME GateInv, NEW r \in Calls, ArriveBare(r) \/ Arrive(r) \/ Step(r) PROVE GateInv'
    BY <2>2, TypeCallLogStep, StoreStep DEF GateInv
  <2> QED
    BY <2>1, <2>2, ProcessStep DEF Next
<1> QED
  BY <1>1, <1>2, PTL DEF Spec

-----------------------------------------------------------------------------
\* Every variable keeps its type; no event is ever in a sink twice.
THEOREM GateTypeCorrect == Spec => []TypeOK
<1>1. GateInv => TypeOK
  BY DEF GateInv
<1> QED
  BY <1>1, GateInvariant, PTL

\* A working sink accounts for every accepted payment of an answered call, however
\* the sinks beside it fail.
THEOREM MoneyAlwaysLogged == Spec => []MoneyIsLogged
<1>1. GateInv => MoneyIsLogged
  BY DEF GateInv
<1> QED
  BY <1>1, GateInvariant, PTL

\* On a memory store, and for a charge that names its payer, an accepted payment is
\* never answered with another challenge.
THEOREM PaidMeansLetIn == Spec => []PaidCallsAreLetIn
<1>1. GateInv => PaidCallsAreLetIn
  BY DEF GateInv
<1> QED
  BY <1>1, GateInvariant, PTL

\* Accepted vouchers are lost only on a memory store that was chosen or announced,
\* or on Workers KV under concurrent calls.
THEOREM LossAlwaysExplained == Spec => []LossIsExplained
<1>1. GateInv => LossIsExplained
  <2> SUFFICES ASSUME GateInv, IsSession, NEW r \in Calls, verified[r],
                      \A h \in Stores : db[h] < cred[r]
               PROVE  \/ /\ StoreKind(deploy) = "memory"
                         /\ crashes > 0 \/ PerRequest(deploy)
                         /\ deploy.store = "memory" \/ warned
                      \/ StoreKind(deploy) = "kv" /\ ~deploy.calm
    BY DEF LossIsExplained, VoucherLost
  <2>1. ~Reliable
    BY GateAssumption, DeployFacts DEF KeptInv, Stores, GateInv, StoreInv, TypeOK, CallInv, Creds
  <2>2. pc[r] # "idle"
    BY DEF GateInv, CallInv
  <2>3. CASE StoreKind(deploy) = "memory"
    <3>1. crashes > 0 \/ PerRequest(deploy)
      BY <2>1, <2>3 DEF Reliable, GateInv, TypeOK
    <3>2. deploy.store = "memory" \/ warned
      BY <2>2, <2>3 DEF GateInv, StoreInv, AnnouncedInv, Warns, StoreKind
    <3> QED
      BY <2>3, <3>1, <3>2
  <2>4. CASE StoreKind(deploy) # "memory"
    BY <2>1, <2>4, DeployFacts DEF Reliable, GateInv
  <2> QED
    BY <2>3, <2>4
<1> QED
  BY <1>1, GateInvariant, PTL

-----------------------------------------------------------------------------
\* Every step of a call is a step of the paywall, or none.
LEMMA CallRefines ==
  ASSUME GateInv, NEW r \in Calls, ArriveBare(r) \/ Arrive(r) \/ Step(r)
  PROVE  [Gate!Next]_(Gate!vars)
<1> DEFINE Taken == {q \in Calls : verified[q]}
<1> USE DEF GateInv, TypeOK, MoveTo, InFlightStates, EndStates, processVars, storeVars, callVars,
        Stage, IsCharge
<1>1. ASSUME Taken' = Taken, cred' = cred, deploy' = deploy,
             pc' = [pc EXCEPT ![r] = "challenged"] \/ pc' = [pc EXCEPT ![r] = "errored"]
               \/ pc' = [pc EXCEPT ![r] = "refused"],
             pc[r] \in {"idle"} \cup InFlightStates
      PROVE  Gate!Next
  <2>1. Gate!EndSome({r})
    BY <1>1 DEF Gate!EndSome
  <2> QED
    BY <2>1 DEF Gate!Next
<1>2. ASSUME Taken' = Taken, cred' = cred, deploy' = deploy, pc' = [pc EXCEPT ![r] = "handler"],
             pc[r] \in {"precheck", "payer"}, \E q \in Taken : cred[q] = cred[r]
      PROVE  Gate!Next
  <2>1. Gate!Admit(r)
    BY <1>2 DEF Gate!Admit
  <2> QED
    BY <2>1 DEF Gate!Next
<1>3. ASSUME Taken' = Taken \cup {r}, cred' = cred, deploy' = deploy,
             pc' = [pc EXCEPT ![r] = "payer"], pc[r] \in {"verify", "put"},
             IsCharge => \A q \in Taken : cred[q] # cred[r]
      PROVE  Gate!Next
  <2>1. Stage' = Stage /\ Stage[r] = "open"
    BY <1>3
  <2>2. Gate!Take(r)
    BY <1>3, <2>1 DEF Gate!Take
  <2> QED
    BY <2>2 DEF Gate!Next
<1>4. ASSUME Taken' = Taken, cred' = cred, deploy' = deploy, Stage' = Stage
      PROVE  UNCHANGED Gate!vars
  BY <1>4 DEF Gate!vars
<1>5. CASE ArriveBare(r)
  BY <1>1, <1>5, DeployFacts DEF ArriveBare, MayArrive
<1>6. CASE Arrive(r)
  <2>1. PICK c \in Creds : cred' = [cred EXCEPT ![r] = c]
    BY <1>6 DEF Arrive
  <2>2. Gate!Open(r, c)
    BY <1>6, <2>1 DEF Arrive, MayArrive, Gate!Open
  <2> QED
    BY <2>2 DEF Gate!Next
<1>7. CASE PreCheckThrows(r) \/ PreCheckRefuses(r) \/ VerifyRejects(r) \/ PayerMissing(r)
             \/ HandlerThrows(r) \/ PutRejects(r) \/ UpdateAnswerLost(r)
  BY <1>1, <1>7, DeployFacts
     DEF PreCheckThrows, PreCheckRefuses, VerifyRejects, PayerMissing, HandlerThrows,
         PutRejects, UpdateAnswerLost, MayVerify
<1>8. CASE PreCheckKnows(r)
  BY <1>2, <1>8 DEF PreCheckKnows, CallInv
<1>9. CASE PreCheckPasses(r)
  BY <1>4, <1>9 DEF PreCheckPasses
<1>10. CASE VerifyAccepts(r)
  BY <1>3, <1>10 DEF VerifyAccepts, MayVerify, Spendable, Verified
<1>11. CASE VerifyReads(r)
  <2>1. ~IsCharge
    BY <1>11 DEF VerifyReads, IsSession
  <2>2. CASE MoveTo(r, "put") /\ UNCHANGED verified
    BY <1>4, <1>11, <2>2 DEF VerifyReads, MayVerify
  <2>3. CASE MoveTo(r, "payer") /\ Verified(r)
    BY <1>3, <1>11, <2>1, <2>3 DEF VerifyReads, MayVerify, Verified
  <2> QED
    BY <1>11, <2>2, <2>3 DEF VerifyReads
<1>12. CASE VerifyPuts(r)
  <2>1. IsSession /\ ~IsCharge
    BY <1>12 DEF VerifyPuts, CallInv, IsSession
  <2> QED
    BY <1>3, <1>12, <2>1 DEF VerifyPuts, Put, Verified
<1>13. CASE PayerFound(r)
  BY <1>2, <1>13 DEF PayerFound, CallInv
<1>14. CASE HandlerSucceeds(r)
  <2>1. CASE pc' = [pc EXCEPT ![r] = "served"]
    BY <1>14, <2>1 DEF HandlerSucceeds, Gate!Serve, Gate!Next
  <2>2. CASE pc' = [pc EXCEPT ![r] = "completing"]
    BY <1>4, <1>14, <2>2 DEF HandlerSucceeds
  <2> QED
    BY <1>14, <2>1, <2>2 DEF HandlerSucceeds
<1>15. CASE Completed(r)
  BY <1>15 DEF Completed, Gate!Serve, Gate!Next
<1> QED
  BY <1>5, <1>6, <1>7, <1>8, <1>9, <1>10, <1>11, <1>12, <1>13, <1>14, <1>15 DEF Step

\* mppGated is a paywall in every deployment: no handler runs for a credential that
\* was not verified, and a charge is taken once.
THEOREM GateIsPaywall == Spec => ActsAsPaywall
<1>1. Init => Gate!Init
  BY DEF Init, Gate!Init, Stage, IsCharge
<1>2. GateInv /\ [Next]_vars => [Gate!Next]_(Gate!vars)
  <2>1. ASSUME UNCHANGED vars PROVE UNCHANGED Gate!vars
    BY <2>1 DEF vars, Gate!vars, Stage, IsCharge
  <2>2. ASSUME Boot \/ Propagate PROVE UNCHANGED Gate!vars
    BY <2>2 DEF Boot, Propagate, Gate!vars, Stage, IsCharge, processVars, storeVars, callVars
  <2>3. ASSUME GateInv, Crash PROVE Gate!EndSome(InFlight)
    BY <2>3 DEF Crash, Gate!EndSome, InFlight, InFlightStates, Stage, IsCharge, callVars,
       GateInv, TypeOK
  <2>4. InFlight \in SUBSET Calls
    BY DEF InFlight
  <2> QED
    BY <2>1, <2>2, <2>3, <2>4, CallRefines DEF Next, Gate!Next
<1> QED
  BY <1>1, <1>2, GateInvariant, PTL DEF Spec, ActsAsPaywall, Gate!Spec

===============================================================================
