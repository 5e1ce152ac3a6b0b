----------------------------- MODULE ChargeRoute -----------------------------
(***************************************************************************)
(* The paid resource of a scaffolded charge-intent service: POST / creates *)
(* a resource at the upstream provider once its charge has been settled,   *)
(* DELETE /:id removes it.  The service keeps no state of its own; the     *)
(* provider remembers which credential each resource was created for.      *)
(*                                                                         *)
(* The handlers are cut at every await, and any of them may die there.  A  *)
(* chargeHash stands for the credential it is the fingerprint of.          *)
(***************************************************************************)
EXTENDS Naturals, FiniteSets

CONSTANTS
  Requests,  \* POST requests; the client may repeat one with the same credential
  Deletes,   \* DELETE requests
  Wallets,   \* the buyers
  Creds,     \* charge credentials that have been signed
  Payer,     \* Payer[k]: the wallet that signed credential k
  Deleter,   \* Deleter[d]: the wallet whose proof DELETE request d carries
  NoCred     \* a request that has not been sent

ASSUME ChargeAssumption ==
  /\ Payer \in [Creds -> Wallets]
  /\ Deleter \in [Deletes -> Wallets]
  /\ NoCred \notin Creds

VARIABLES
  pc,       \* pc[r]: the await at which request r stands, or how it ended
  cred,     \* cred[r]: the credential it carries
  delPc,    \* delPc[d]: the same for the DELETE requests
  delCred,  \* delCred[d]: the credential behind the resource that d is about
  settled,  \* the credentials whose charge mppx has settled
  live,     \* live[k]: how many resources of credential k exist at the provider
  made,     \* made[k]: how many were ever created
  owed      \* the credentials that the route has logged, in its own words
            \*   post_settle_create_failed_refund_needed, as paid for in vain

postVars   == <<pc, cred>>
deleteVars == <<delPc, delCred>>
upstream   == <<live, made>>
routeVars  == <<postVars, deleteVars, settled, upstream, owed>>

InFlightStates == {"find", "verify", "payer", "create"}
\* existing: 202 for a resource that was found; created: 202 for a new one;
\* refused: 402; payerless and failed: 500 after the charge was settled; lost and
\* dropped: the process died before and after the charge was settled.
EndStates == {"existing", "created", "refused", "payerless", "failed", "lost", "dropped"}

RouteTypeOK ==
  /\ pc \in [Requests -> {"idle"} \cup InFlightStates \cup EndStates]
  /\ cred \in [Requests -> Creds \cup {NoCred}]
  /\ delPc \in [Deletes -> {"idle", "get", "delete", "answered"}]
  /\ delCred \in [Deletes -> Creds \cup {NoCred}]
  /\ settled \subseteq Creds
  /\ live \in [Creds -> Nat]
  /\ made \in [Creds -> Nat]
  /\ owed \subseteq Creds

RouteInit ==
  /\ pc = [r \in Requests |-> "idle"]
  /\ cred = [r \in Requests |-> NoCred]
  /\ delPc = [d \in Deletes |-> "idle"]
  /\ delCred = [d \in Deletes |-> NoCred]
  /\ settled = {}
  /\ live = [k \in Creds |-> 0]
  /\ made = [k \in Creds |-> 0]
  /\ owed = {}

MoveTo(r, state) == pc' = [pc EXCEPT ![r] = state]

-----------------------------------------------------------------------------
(* POST /                                                                  *)

Submit(r) ==
  /\ pc[r] = "idle"
  /\ \E k \in Creds : cred' = [cred EXCEPT ![r] = k]
  /\ MoveTo(r, "find")
  /\ UNCHANGED <<deleteVars, settled, upstream, owed>>

\* What findByChargeHash goes by.
Matches(k, stamped) == stamped = k

FindExisting(r) ==
  /\ pc[r] = "find"
  /\ \E k \in Creds : Matches(cred[r], k) /\ live[k] > 0
  /\ MoveTo(r, "existing")
  /\ UNCHANGED <<cred, deleteVars, settled, upstream, owed>>

\* There is no such resource, or the lookup throws, which counts as null.
FindNothing(r) ==
  /\ pc[r] = "find"
  /\ MoveTo(r, "verify")
  /\ UNCHANGED <<cred, deleteVars, settled, upstream, owed>>

\* mppx settles a credential once and refuses it from then on.
Spendable(k) == k \notin settled

VerifyAccepts(r) ==
  /\ pc[r] = "verify"
  /\ Spendable(cred[r])
  /\ settled' = settled \cup {cred[r]}
  /\ MoveTo(r, "payer")
  /\ UNCHANGED <<cred, deleteVars, upstream, owed>>

\* A mistake the properties must notice: a credential that mppx refuses as already
\* settled is taken for a retry that has been paid for.
VerifyRejectsLeniently(r) ==
  /\ pc[r] = "verify"
  /\ MoveTo(r, IF cred[r] \in settled THEN "payer" ELSE "refused")
  /\ UNCHANGED <<cred, deleteVars, settled, upstream, owed>>

\* verifyWithScope throws and the answer is a new 402; nothing was charged.
VerifyRejects(r) ==
  /\ pc[r] = "verify"
  /\ MoveTo(r, "refused")
  /\ UNCHANGED <<cred, deleteVars, settled, upstream, owed>>

ResolvePayer(r) ==
  /\ pc[r] = "payer"
  /\ MoveTo(r, "create")
  /\ UNCHANGED <<cred, deleteVars, settled, upstream, owed>>

\* 500 payer_extract_failed_after_verify; nothing is logged.
PayerMissing(r) ==
  /\ pc[r] = "payer"
  /\ MoveTo(r, "payerless")
  /\ UNCHANGED <<cred, deleteVars, settled, upstream, owed>>

Provision(k) ==
  /\ live' = [live EXCEPT ![k] = @ + 1]
  /\ made' = [made EXCEPT ![k] = @ + 1]

CreateSucceeds(r) ==
  /\ pc[r] = "create"
  /\ Provision(cred[r])
  /\ MoveTo(r, "created")
  /\ UNCHANGED <<cred, deleteVars, settled, owed>>

\* A mistake the properties must notice: the failure is answered and not logged.
CreateFailsSilently(r) ==
  /\ pc[r] = "create"
  /\ Provision(cred[r]) \/ UNCHANGED upstream
  /\ MoveTo(r, "failed")
  /\ UNCHANGED <<cred, deleteVars, settled, owed>>

\* create() throws, before or after the provider has made the resource.
CreateFails(r) ==
  /\ pc[r] = "create"
  /\ Provision(cred[r]) \/ UNCHANGED upstream
  /\ owed' = owed \cup {cred[r]}
  /\ MoveTo(r, "failed")
  /\ UNCHANGED <<cred, deleteVars, settled>>

\* The process dies; what it asked for may still happen.
DieUncharged(r) ==
  /\ pc[r] \in {"find", "verify"}
  /\ MoveTo(r, "lost")
  /\ UNCHANGED <<cred, deleteVars, settled, upstream, owed>>

DieSettling(r) ==
  /\ pc[r] = "verify"
  /\ Spendable(cred[r])
  /\ settled' = settled \cup {cred[r]}
  /\ MoveTo(r, "dropped")
  /\ UNCHANGED <<cred, deleteVars, upstream, owed>>

DieCharged(r) ==
  /\ pc[r] \in {"payer", "create"}
  /\ \/ UNCHANGED upstream
     \/ pc[r] = "create" /\ Provision(cred[r])
  /\ MoveTo(r, "dropped")
  /\ UNCHANGED <<cred, deleteVars, settled, owed>>

-----------------------------------------------------------------------------
(* DELETE /:id, with a proof credential of the wallet.                     *)

SubmitDelete(d) ==
  /\ delPc[d] = "idle"
  /\ \E k \in Creds : made[k] > 0 /\ delCred' = [delCred EXCEPT ![d] = k]
  /\ delPc' = [delPc EXCEPT ![d] = "get"]
  /\ UNCHANGED <<postVars, settled, upstream, owed>>

\* The provider has it and it belongs to the wallet of the proof.
DeleteFinds(d) ==
  /\ delPc[d] = "get"
  /\ live[delCred[d]] > 0
  /\ Payer[delCred[d]] = Deleter[d]
  /\ delPc' = [delPc EXCEPT ![d] = "delete"]
  /\ UNCHANGED <<postVars, delCred, settled, upstream, owed>>

\* The credential is refused, the resource is gone or somebody else's, or the lookup
\* throws.
DeleteRefused(d) ==
  /\ delPc[d] = "get"
  /\ delPc' = [delPc EXCEPT ![d] = "answered"]
  /\ UNCHANGED <<postVars, delCred, settled, upstream, owed>>

\* Another DELETE may have been faster, and the provider may fail.
DeleteResource(d) ==
  /\ delPc[d] = "delete"
  /\ \/ live[delCred[d]] > 0 /\ live' = [live EXCEPT ![delCred[d]] = @ - 1]
     \/ UNCHANGED live
  /\ delPc' = [delPc EXCEPT ![d] = "answered"]
  /\ UNCHANGED <<postVars, delCred, settled, made, owed>>

-----------------------------------------------------------------------------
PostStep(r) ==
  \/ Submit(r) \/ FindExisting(r) \/ FindNothing(r) \/ VerifyAccepts(r) \/ VerifyRejects(r)
  \/ ResolvePayer(r) \/ PayerMissing(r) \/ CreateSucceeds(r) \/ CreateFails(r)
  \/ DieUncharged(r) \/ DieSettling(r) \/ DieCharged(r)

DeleteStep(d) ==
  SubmitDelete(d) \/ DeleteFinds(d) \/ DeleteRefused(d) \/ DeleteResource(d)

RouteNext ==
  \/ \E r \in Requests : PostStep(r)
  \/ \E d \in Deletes : DeleteStep(d)

\* The requests that mppx accepted.
Charged == {r \in Requests : pc[r] \in {"payer", "create", "created", "failed", "payerless",
                                        "dropped"}}

\* A buyer who was told 202 stands in the refund log for one reason only: the create()
\* that was logged as failed had made the resource all the same, and a retry found it.
\* No other interleaving of duplicates, failures and deletions gives a buyer both, and
\* never the request that created.
ServedOwedIsLate ==
  \A r \in Requests :
    pc[r] \in {"created", "existing"} /\ cred[r] \in owed =>
      /\ pc[r] = "existing"
      /\ made[cred[r]] = 1
      /\ \E q \in Requests : cred[q] = cred[r] /\ pc[q] = "failed"

Accounted(k) ==
  \/ made[k] > 0
  \/ k \in owed
  \/ \E r \in Requests : cred[r] = k /\ pc[r] \in {"payer", "create", "payerless", "dropped"}

\* Every charge is a resource, a request under way or a logged refund, unless the
\* process died or the payer was missing: nothing else loses a charge.
ChargesAccountedFor == \A k \in settled : Accounted(k)
=============================================================================
