----------------------------- MODULE GatedService -----------------------------
(***************************************************************************)
(* A service behind mppGated, as its seller wires it: the hono and the     *)
(* fastify adapter, the session, charge and proof intents, the preCheck    *)
(* hook, every store, and the money log.  Rollback (refundOnFailure) and   *)
(* on-chain close are module SessionChannel's.                             *)
(*                                                                         *)
(* As there, each await of a handler is a step, a session credential is    *)
(* its cumulative amount, and mppx accepts an equal or lower one without   *)
(* effect.  A retry is another call with a credential that was used before.*)
(***************************************************************************)
EXTENDS Wiring, MoneyLog, FiniteSets

CONSTANTS
  Calls,
  MaxCred,     \* credentials, and session vouchers, are 1 .. MaxCred
  Sourceless,  \* charge and proof credentials without a did:pkh source
  Deploys,     \* the deployments to consider
  Shared,      \* the store of all calls, unless each has its own
  MaxCrashes   \* bound on process restarts

Creds  == 1 .. MaxCred
NoCred == 0
Homes  == Calls \cup {Shared}

ASSUME GateAssumption ==
  /\ MaxCred \in Nat /\ MaxCrashes \in Nat
  /\ Sourceless \subseteq Creds
  /\ Deploys \subseteq Deployments
  /\ Shared \notin Calls

VARIABLES
  deploy,   \* the deployment
  up,       \* does the process serve?
  warned,   \* has the loss of state on restart been announced?
  db,       \* db[h]: the highest voucher of the channel in store h; 0: no record
  past,     \* older values that a KV read may still return
  crashes,
  pc,       \* pc[r]: the await at which call r stands, or how it ended
  cred,     \* cred[r]: its credential
  verified, \* verified[r]: verifyWithScope has succeeded for it
  seen,     \* seen[r]: what KV's update read
  done,     \* the credentials that preCheck knows as served
  log       \* log[s][r][k]: the events of kind k that sink s holds about call r

vars == <<deploy, up, warned, db, past, crashes, pc, cred, verified, seen, done, log>>

storeVars   == <<db, past>>
processVars == <<deploy, up, warned, crashes>>
callVars    == <<cred, verified, seen, done>>

InFlightStates == {"precheck", "verify", "put", "payer", "handler", "completing"}
\* challenged: 402 with a challenge; refused: preCheck's own answer; errored: a
\* 500; lost: the process died.
EndStates == {"served", "challenged", "refused", "errored", "lost"}

IsSession == ResolveIntent(deploy) = "session"
IsCharge  == ResolveIntent(deploy) = "charge"

\* No counter of the log is ever above 1: an event is emitted once.
TypeOK ==
  /\ deploy \in Deploys
  /\ up \in BOOLEAN /\ warned \in BOOLEAN
  /\ db \in [Homes -> 0 .. MaxCred]
  /\ past \subseteq 0 .. MaxCred
  /\ crashes \in 0 .. MaxCrashes
  /\ pc \in [Calls -> {"idle"} \cup InFlightStates \cup EndStates]
  /\ cred \in [Calls -> Creds \cup {NoCred}]
  /\ verified \in [Calls -> BOOLEAN]
  /\ seen \in [Calls -> 0 .. MaxCred]
  /\ done \subseteq Creds
  /\ log \in [Sinks -> [Calls -> [Kinds -> {0, 1}]]]

Init ==
  /\ deploy \in Deploys
  /\ up = FALSE /\ warned = FALSE
  /\ db = [h \in Homes |-> 0]
  /\ past = {}
  /\ crashes = 0
  /\ pc = [r \in Calls |-> "idle"]
  /\ cred = [r \in Calls |-> NoCred]
  /\ verified = [r \in Calls |-> FALSE]
  /\ seen = [r \in Calls |-> 0]
  /\ done = {}
  /\ log = EmptyLog(Calls)

MoveTo(r, state) == pc' = [pc EXCEPT ![r] = state]

\* Any of the flaky sinks may be down at the time of an event.
Emit(r, kind) == \E down \in SUBSET Flaky : log' = Record(log, r, kind, down)

InFlight == {r \in Calls : pc[r] \in InFlightStates}

-----------------------------------------------------------------------------
(* The process.                                                            *)

Boot ==
  /\ ~up
  /\ Boots(deploy)
  /\ up' = TRUE
  /\ warned' = (warned \/ Warns(deploy))
  /\ UNCHANGED <<deploy, crashes, storeVars, pc, callVars, log>>

\* In-memory state goes with the process.
Crash ==
  /\ up
  /\ crashes < MaxCrashes
  /\ crashes' = crashes + 1
  /\ up' = FALSE
  /\ db' = IF StoreKind(deploy) = "memory" THEN [h \in Homes |-> 0] ELSE db
  /\ pc' = [r \in Calls |-> IF r \in InFlight THEN "lost" ELSE pc[r]]
  /\ UNCHANGED <<deploy, warned, past, callVars, log>>

\* KV: within about a minute a write is visible everywhere.
Propagate ==
  /\ past # {}
  /\ past' = {}
  /\ UNCHANGED <<processVars, db, pc, callVars, log>>

-----------------------------------------------------------------------------
(* A request arrives, and preCheck.                                        *)

MayArrive(r) ==
  /\ up
  /\ pc[r] = "idle"
  /\ deploy.calm => InFlight = {} /\ past = {}

\* No credential, or one that does not parse.
ArriveBare(r) ==
  /\ MayArrive(r)
  /\ MoveTo(r, Challenge(deploy))
  /\ Emit(r, "required")
  /\ UNCHANGED <<processVars, storeVars, callVars>>

Arrive(r) ==
  /\ MayArrive(r)
  /\ \E c \in Creds : cred' = [cred EXCEPT ![r] = c]
  /\ MoveTo(r, IF deploy.preCheck THEN "precheck" ELSE "verify")
  /\ UNCHANGED <<processVars, storeVars, verified, seen, done, log>>

PreCheckThrows(r) ==
  /\ pc[r] = "precheck"
  /\ MoveTo(r, "errored")
  /\ Emit(r, "precheck")
  /\ UNCHANGED <<processVars, storeVars, callVars>>

\* { ok: false }: the hook's status and body, and no event.
PreCheckRefuses(r) ==
  /\ pc[r] = "precheck"
  /\ MoveTo(r, "refused")
  /\ UNCHANGED <<processVars, storeVars, callVars, log>>

\* "already_done": the handler runs again without a verification.
PreCheckKnows(r) ==
  /\ pc[r] = "precheck"
  /\ cred[r] \in done
  /\ MoveTo(r, "handler")
  /\ UNCHANGED <<processVars, storeVars, callVars, log>>

PreCheckPasses(r) ==
  /\ pc[r] = "precheck"
  /\ MoveTo(r, "verify")
  /\ UNCHANGED <<processVars, storeVars, callVars, log>>

-----------------------------------------------------------------------------
(* verifyWithScope, and the store update inside it.                        *)

Home(r) == IF PerRequest(deploy) THEN r ELSE Shared

\* mppx and the chain take a credential that moves money once.
Spendable(c) == IsCharge => \A q \in Calls : verified[q] => cred[q] # c

MayVerify(r) ==
  /\ pc[r] = "verify"
  /\ Method(deploy) \in Methods(deploy)
  /\ Spendable(cred[r])

Verified(r) == verified' = [verified EXCEPT ![r] = TRUE]

Higher(v, c) == IF c > v THEN c ELSE v

\* A mistake the properties must notice: the challenge is sent without a return.
VerifyRejectsAndGoesOn(r) ==
  /\ pc[r] = "verify"
  /\ MoveTo(r, "payer")
  /\ Emit(r, "verify")
  /\ UNCHANGED <<processVars, storeVars, callVars>>

VerifyRejects(r) ==
  /\ pc[r] = "verify"
  /\ MoveTo(r, Challenge(deploy))
  /\ Emit(r, "verify")
  /\ UNCHANGED <<processVars, storeVars, callVars>>

\* No channel is involved, or the store's update is atomic.
VerifyAccepts(r) ==
  /\ MayVerify(r)
  /\ IsSession => StoreKind(deploy) # "kv"
  /\ db' = IF IsSession THEN [db EXCEPT ![Home(r)] = Higher(@, cred[r])] ELSE db
  /\ Verified(r)
  /\ MoveTo(r, "payer")
  /\ UNCHANGED <<processVars, past, cred, seen, done, log>>

\* Workers KV: a get, which may be stale, and then a put unless the change is a noop.
VerifyReads(r) ==
  /\ MayVerify(r)
  /\ IsSession /\ StoreKind(deploy) = "kv"
  /\ \E v \in {db[Shared]} \cup past :
       /\ seen' = [seen EXCEPT ![r] = v]
       /\ \/ cred[r] > v /\ MoveTo(r, "put") /\ UNCHANGED verified
          \/ cred[r] <= v /\ MoveTo(r, "payer") /\ Verified(r)
  /\ UNCHANGED <<processVars, storeVars, cred, done, log>>

Put(r) ==
  /\ db' = [db EXCEPT ![Shared] = cred[r]]
  /\ past' = past \cup {db[Shared]}

VerifyPuts(r) ==
  /\ pc[r] = "put"
  /\ Put(r)
  /\ Verified(r)
  /\ MoveTo(r, "payer")
  /\ UNCHANGED <<processVars, cred, seen, done, log>>

\* A put that rejects, before or after it took effect, is a rejected verification.
PutRejects(r) ==
  /\ pc[r] = "put"
  /\ Put(r) \/ UNCHANGED storeVars
  /\ MoveTo(r, Challenge(deploy))
  /\ Emit(r, "verify")
  /\ UNCHANGED <<processVars, callVars>>

\* So is an EXEC of redis that took effect and whose answer was lost.
UpdateAnswerLost(r) ==
  /\ MayVerify(r)
  /\ IsSession /\ StoreKind(deploy) = "redis"
  /\ db' = [db EXCEPT ![Shared] = Higher(@, cred[r])]
  /\ MoveTo(r, Challenge(deploy))
  /\ Emit(r, "verify")
  /\ UNCHANGED <<processVars, past, callVars>>

-----------------------------------------------------------------------------
(* After verify.                                                           *)

\* A session's payer is in the store, whose read may fail unless it is memory; the
\* payer of a charge or proof is in the credential's source.
PayerKnown(r) ==
  IF IsSession THEN \E v \in {db[Home(r)]} \cup past : v # 0 ELSE cred[r] \notin Sourceless

\* A mistake the properties must notice: mppx and the adapter each resolve the
\* default store, and get one each.
PayerUnknownElsewhere(r) ==
  IF IsSession THEN StoreKind(deploy) # "memory" \/ deploy.store = "default"
  ELSE cred[r] \in Sourceless

PayerUnknown(r) ==
  IF IsSession THEN StoreKind(deploy) # "memory" \/ db[Home(r)] = 0
  ELSE cred[r] \in Sourceless

\* channel_state_missing_after_verify: a 402, though the money is taken.
PayerMissing(r) ==
  /\ pc[r] = "payer"
  /\ PayerUnknown(r)
  /\ MoveTo(r, Challenge(deploy))
  /\ Emit(r, "missing")
  /\ UNCHANGED <<processVars, storeVars, callVars>>

PayerFound(r) ==
  /\ pc[r] = "payer"
  /\ PayerKnown(r)
  /\ MoveTo(r, "handler")
  /\ IF IsPaid(deploy) THEN Emit(r, "settled") ELSE UNCHANGED log
  /\ UNCHANGED <<processVars, storeVars, callVars>>

HandlerThrows(r) ==
  /\ pc[r] = "handler"
  /\ MoveTo(r, "errored")
  /\ UNCHANGED <<processVars, storeVars, callVars, log>>

\* A mistake the properties must notice: fastify's answer waits for an event that
\* only hono's middleware emits.
HandlerSucceedsAwaiting(r) ==
  /\ pc[r] = "handler"
  /\ MoveTo(r, IF verified[r] THEN "completing" ELSE "served")
  /\ done' = done \cup {cred[r]}
  /\ UNCHANGED <<processVars, storeVars, cred, verified, seen, log>>

\* The handler may leave a record that preCheck finds.  Only hono's middleware
\* comes back after the handler, and not after an already_done.
HandlerSucceeds(r) ==
  /\ pc[r] = "handler"
  /\ MoveTo(r, IF deploy.adapter = "hono" /\ verified[r] THEN "completing" ELSE "served")
  /\ done' = done \cup {cred[r]}
  /\ UNCHANGED <<processVars, storeVars, cred, verified, seen, log>>

Completed(r) ==
  /\ pc[r] = "completing"
  /\ deploy.adapter = "hono"
  /\ MoveTo(r, "served")
  /\ Emit(r, "completed")
  /\ UNCHANGED <<processVars, storeVars, callVars>>

Step(r) ==
  \/ PreCheckThrows(r) \/ PreCheckRefuses(r) \/ PreCheckKnows(r) \/ PreCheckPasses(r)
  \/ VerifyRejects(r) \/ VerifyAccepts(r) \/ VerifyReads(r) \/ VerifyPuts(r)
  \/ PutRejects(r) \/ UpdateAnswerLost(r)
  \/ PayerMissing(r) \/ PayerFound(r)
  \/ HandlerThrows(r) \/ HandlerSucceeds(r) \/ Completed(r)

Next ==
  \/ Boot \/ Crash \/ Propagate
  \/ \E r \in Calls : ArriveBare(r) \/ Arrive(r) \/ Step(r)

Spec == Init /\ [][Next]_vars

\* Stores, sinks, hooks and handlers answer or fail.
FairSpec == Spec /\ \A r \in Calls : WF_vars(Step(r))

-----------------------------------------------------------------------------
\* The money log can be audited: a sink that works itself holds, for each call that
\* got an answer, exactly one line saying where its accepted payment went, however
\* the other sinks fail, and no such line for a payment that was never accepted.  What
\* was turned down has its line too: the store may have kept the voucher all the same.
MoneyIsLogged ==
  \A s \in Sinks \ Flaky, r \in Calls :
    LET lines == log[s][r]["settled"] + log[s][r]["missing"]
    IN  /\ IsPaid(deploy) /\ pc[r] \in EndStates \ {"lost"} =>
             lines = IF verified[r] THEN 1 ELSE 0
        /\ ~verified[r] => lines = 0
        /\ pc[r] = "challenged" /\ cred[r] # NoCred /\ ~verified[r] =>
             log[s][r]["verify"] = 1
        /\ ~IsPaid(deploy) => log[s][r]["settled"] = 0

\* The stored voucher falls behind what the buyer's signatures are worth only where
\* the seller has been told: a memory store that was asked for or announced, or
\* Workers KV under concurrent calls.
\* A store of one request is gone with the request.
Stores == {Shared} \cup InFlight
VoucherLost == \E r \in Calls : verified[r] /\ \A h \in Stores : db[h] < cred[r]
LossIsExplained ==
  IsSession /\ VoucherLost =>
    \/ /\ StoreKind(deploy) = "memory"
       /\ crashes > 0 \/ PerRequest(deploy)
       /\ deploy.store = "memory" \/ warned
    \/ StoreKind(deploy) = "kv" /\ ~deploy.calm

\* A buyer whose payment was accepted is asked to pay again only if the store could
\* not be read, or the charge does not say who paid: never on a memory store.
PaidCallsAreLetIn ==
  \A r \in Calls :
    verified[r] /\ pc[r] = "challenged" =>
      IF IsSession THEN StoreKind(deploy) # "memory" ELSE cred[r] \in Sourceless

\* Either adapter, with any intent, store and preCheck, is a paywall.
Stage ==
  [r \in Calls |->
     CASE pc[r] \in {"idle", "served"} -> pc[r]
       [] pc[r] \in {"precheck", "verify", "put", "payer"} -> "open"
       [] pc[r] \in {"handler", "completing"} -> "admitted"
       [] OTHER -> "ended"]
Gate == INSTANCE Paywall
          WITH reusable <- ~IsCharge, holds <- cred, stage <- Stage,
               taken <- {r \in Calls : verified[r]}
ActsAsPaywall == Gate!Spec

\* Every request that was let in gets its answer, unless the process dies.
EveryCallEnds == \A r \in Calls : pc[r] \in InFlightStates ~> pc[r] \in EndStates
===============================================================================
