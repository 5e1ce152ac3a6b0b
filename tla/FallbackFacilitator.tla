------------------------- MODULE FallbackFacilitator -------------------------
(***************************************************************************)
(* An x402 service whose facilitator is a FallbackFacilitatorClient over   *)
(* an ordered list of clients.  At start the resource server asks for what *)
(* they support; every request then has its payment verified and settled,  *)
(* client after client.  To its caller the chain of clients is to look     *)
(* like one Facilitator.                                                   *)
(*                                                                         *)
(* A sound client tells the truth and never throws; any other may throw at *)
(* any time, may have sent the payment before it did, and may refuse or    *)
(* wave through what it likes; only a success it reports is always real.   *)
(* The route's handler runs before or after settlement, as @x402/hono      *)
(* decides; nothing here depends on it.                                    *)
(***************************************************************************)
EXTENDS Naturals, Sequences

CONSTANTS
  N,          \* number of clients; client i is asked before client i + 1
  Sound,      \* the clients that work
  Kinds,      \* kinds of payment: version, network and scheme
  Offers,     \* Offers[i]: the kinds client i supports
  RouteKind,  \* the kind that the gated route asks for
  Requests,
  Payments,
  NoPayment

Clients == 1 .. N

ASSUME ChainAssumption ==
  /\ N \in Nat \ {0}
  /\ Sound \subseteq Clients
  /\ Offers \in [Clients -> SUBSET Kinds]
  /\ RouteKind \in Kinds
  /\ NoPayment \notin Payments

VARIABLES
  asking,     \* the client that getSupported waits for; 0 when it has answered
  responded,  \* the clients that have answered it, in that order
  supported,  \* supported[k]: the client whose entry for kind k it returns
  stage,      \* stage[r]: "idle", "verify", "settle", or how request r ended
  at,         \* at[r]: the client that request r waits for
  failed,     \* failed[r]: some client has answered success: false (lastFailure)
  payment,    \* payment[r]: the payment request r carries
  landed,     \* the payments the chain has taken
  void        \* the payments it will never take: no funds, or expired

syncVars  == <<asking, responded, supported>>
chainVars == <<landed, void>>
reqVars   == <<stage, at, failed, payment>>
vars      == <<syncVars, reqVars, chainVars>>

\* paid: success; invalid: isValid is false; refused: the last failure is returned;
\* unverified and errored: the last error is thrown.
EndStages == {"paid", "invalid", "unverified", "refused", "errored"}

TypeOK ==
  /\ asking \in 0 .. N
  /\ responded \in Seq(Clients)
  /\ supported \in UNION {[S -> Clients] : S \in SUBSET Kinds}
  /\ stage \in [Requests -> {"idle", "verify", "settle"} \cup EndStages]
  /\ at \in [Requests -> Clients]
  /\ failed \in [Requests -> BOOLEAN]
  /\ payment \in [Requests -> Payments \cup {NoPayment}]
  /\ landed \subseteq Payments
  /\ void \subseteq Payments

NoKinds == [k \in {} |-> 1]

Init ==
  /\ asking = 1
  /\ responded = << >>
  /\ supported = NoKinds
  /\ stage = [r \in Requests |-> "idle"]
  /\ at = [r \in Requests |-> 1]
  /\ failed = [r \in Requests |-> FALSE]
  /\ payment = [r \in Requests |-> NoPayment]
  /\ landed = {}
  /\ void = {}

-----------------------------------------------------------------------------
(* getSupported                                                            *)

\* A mistake the properties must notice: the last writer wins.
AddKindsOver(kinds, i) ==
  [k \in DOMAIN kinds \cup Offers[i] |-> IF k \in Offers[i] THEN i ELSE kinds[k]]

\* The kinds gathered so far and those of client i that have not been seen.
AddKinds(kinds, i) ==
  [k \in DOMAIN kinds \cup Offers[i] |-> IF k \in DOMAIN kinds THEN kinds[k] ELSE i]

\* With every client asked, getSupported returns; with no answer it throws, and the
\* resource server's next sync starts over.
AskNext(responses) ==
  /\ responded' = responses
  /\ asking' = IF asking < N THEN asking + 1 ELSE IF responses = << >> THEN 1 ELSE 0

\* The loop that merges the responses in the order of the clients awaits nothing and
\* comes after the last of them; its steps are taken here as the responses come in,
\* and `supported` is not read before `asking` is 0.
SyncAnswers ==
  /\ asking # 0
  /\ AskNext(Append(responded, asking))
  /\ supported' = AddKinds(supported, asking)
  /\ UNCHANGED <<reqVars, chainVars>>

SyncThrows ==
  /\ asking # 0
  /\ asking \notin Sound
  /\ AskNext(responded)
  /\ UNCHANGED <<supported, reqVars, chainVars>>

-----------------------------------------------------------------------------
(* A paid request.                                                         *)

MoveTo(r, s) == stage' = [stage EXCEPT ![r] = s]

\* The route can only be offered for a kind that is supported.
Ask(r) ==
  /\ stage[r] = "idle"
  /\ asking = 0
  /\ RouteKind \in DOMAIN supported
  /\ \E p \in Payments : payment' = [payment EXCEPT ![r] = p]
  /\ MoveTo(r, "verify")
  /\ UNCHANGED <<syncVars, at, failed, chainVars>>

Good(p) == p \notin landed \cup void

\* The first client that answers verify() decides.
VerifyAnswers(r) ==
  /\ stage[r] = "verify"
  /\ \/ MoveTo(r, "settle") /\ (at[r] \in Sound => Good(payment[r]))
     \/ MoveTo(r, "invalid") /\ (at[r] \in Sound => ~Good(payment[r]))
  /\ at' = [at EXCEPT ![r] = 1]
  /\ UNCHANGED <<syncVars, failed, payment, chainVars>>

\* Mistakes the properties must notice: the loop runs past the last client,
NextAlways(r, end) ==
  \/ at' = [at EXCEPT ![r] = @ + 1] /\ UNCHANGED stage
  \/ at[r] = N /\ MoveTo(r, end) /\ UNCHANGED at

\* or it asks the same client again.
StayOrEnd(r, end) ==
  \/ at[r] < N /\ UNCHANGED <<stage, at>>
  \/ at[r] = N /\ MoveTo(r, end) /\ UNCHANGED at

\* The loop goes on to the next client, or ends behind the last one.
NextOrEnd(r, end) ==
  \/ at[r] < N /\ at' = [at EXCEPT ![r] = @ + 1] /\ UNCHANGED stage
  \/ at[r] = N /\ MoveTo(r, end) /\ UNCHANGED at

VerifyThrows(r) ==
  /\ stage[r] = "verify"
  /\ at[r] \notin Sound
  /\ NextOrEnd(r, "unverified")
  /\ UNCHANGED <<syncVars, failed, payment, chainVars>>

Land(p) == landed' = landed \cup {p} /\ UNCHANGED void

SettleSucceeds(r) ==
  /\ stage[r] = "settle"
  /\ Good(payment[r])
  /\ Land(payment[r])
  /\ MoveTo(r, "paid")
  /\ UNCHANGED <<syncVars, at, failed, payment>>

\* What a client that does not work may have done before it answered or threw.
Blunder(r) == UNCHANGED chainVars \/ (Good(payment[r]) /\ Land(payment[r]))

\* A mistake the properties must notice: a failure is returned as it comes, as
\* verify() does with its answers.
SettleFailsAtOnce(r) ==
  /\ stage[r] = "settle"
  /\ \/ at[r] \in Sound /\ ~Good(payment[r]) /\ UNCHANGED chainVars
     \/ at[r] \notin Sound /\ Blunder(r)
  /\ MoveTo(r, "refused")
  /\ failed' = [failed EXCEPT ![r] = TRUE]
  /\ UNCHANGED <<syncVars, at, payment>>

\* Another: a payment that is on the chain already is taken for one just settled.
SettleFailsAsDuplicate(r) ==
  /\ stage[r] = "settle"
  /\ ~Good(payment[r])
  /\ \/ payment[r] \in landed /\ MoveTo(r, "paid") /\ UNCHANGED at
     \/ payment[r] \in void /\ NextOrEnd(r, "refused")
  /\ failed' = [failed EXCEPT ![r] = TRUE]
  /\ UNCHANGED <<syncVars, payment, chainVars>>

\* success: false is remembered and the next client is asked.
SettleFails(r) ==
  /\ stage[r] = "settle"
  /\ \/ at[r] \in Sound /\ ~Good(payment[r]) /\ UNCHANGED chainVars
     \/ at[r] \notin Sound /\ Blunder(r)
  /\ failed' = [failed EXCEPT ![r] = TRUE]
  /\ NextOrEnd(r, "refused")
  /\ UNCHANGED <<syncVars, payment>>

\* So is an exception, which is thrown only if no client answered with a failure.
SettleThrows(r) ==
  /\ stage[r] = "settle"
  /\ at[r] \notin Sound
  /\ Blunder(r)
  /\ NextOrEnd(r, IF failed[r] THEN "refused" ELSE "errored")
  /\ UNCHANGED <<syncVars, failed, payment>>

\* The buyer spends the money elsewhere, or the authorization runs out.
Expire(p) ==
  /\ Good(p)
  /\ void' = void \cup {p}
  /\ UNCHANGED <<syncVars, reqVars, landed>>

-----------------------------------------------------------------------------
RequestStep(r) ==
  \/ Ask(r) \/ VerifyAnswers(r) \/ VerifyThrows(r)
  \/ SettleSucceeds(r) \/ SettleFails(r) \/ SettleThrows(r)

Next ==
  \/ SyncAnswers \/ SyncThrows
  \/ \E r \in Requests : RequestStep(r)
  \/ \E p \in Payments : Expire(p)

Spec == Init /\ [][Next]_vars

\* Every call to a client comes back, if only by a timeout of its HTTP client.
Fairness ==
  \A r \in Requests :
    WF_vars(VerifyAnswers(r) \/ VerifyThrows(r) \/ SettleSucceeds(r) \/ SettleFails(r)
            \/ SettleThrows(r))

FairSpec == Spec /\ Fairness

-----------------------------------------------------------------------------
One == INSTANCE Facilitator

\* The chain of clients keeps the contract of a single facilitator: however the
\* requests interleave and the clients fail, success is reported once per payment, by
\* the request that put it on the chain.
ActsAsOne == One!Spec

\* With a sound client in the list, a payment that some client verified fails to settle
\* only if the chain has it already or will not take it, whatever the other clients do.
\* This says nothing of a payment that an earlier client found invalid: its isValid:
\* false is final, and a sound client behind it is never asked.
RefusedIsSpent ==
  \A r \in Requests :
    stage[r] \in {"refused", "errored"} /\ Sound # {} => ~Good(payment[r])

\* Every kind of every client that responded, with the entry of the first of them.
FirstEntries(kinds, responses) ==
  /\ DOMAIN kinds = UNION {Offers[responses[n]] : n \in DOMAIN responses}
  /\ \A k \in DOMAIN kinds :
       \E n \in DOMAIN responses :
         /\ kinds[k] = responses[n]
         /\ k \in Offers[responses[n]]
         /\ \A m \in 1 .. n - 1 : k \notin Offers[responses[m]]

\* What getSupported returns is the union of the responses, and the primary's entry is
\* never replaced by that of a client behind it.
FirstWriterWins == asking = 0 => FirstEntries(supported, responded)

\* A request whose payment is to be settled is told the outcome in the end, and a
\* payment stays unsettled only where it could not be.
SettlesInTheEnd ==
  \A r \in Requests :
    stage[r] = "settle" ~> stage[r] \in EndStages /\ (Sound # {} => ~Good(payment[r]))
=============================================================================
