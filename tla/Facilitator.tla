----------------------------- MODULE Facilitator -----------------------------
(***************************************************************************)
(* One x402 facilitator as the resource server sees it: a request has its  *)
(* payment verified, then settled, and is told how that ended.  The chain  *)
(* takes every payment once, and may take it without anyone being told.    *)
(***************************************************************************)
CONSTANTS Requests, Payments, NoPayment

VARIABLES
  stage,    \* stage[r]: "idle", "verify", "settle", or how request r ended
  payment,  \* payment[r]: the payment it carries
  landed,   \* the payments the chain has taken
  void      \* the payments it will never take: no funds, or expired

vars == <<stage, payment, landed, void>>

Init ==
  /\ stage = [r \in Requests |-> "idle"]
  /\ payment = [r \in Requests |-> NoPayment]
  /\ landed = {}
  /\ void = {}

To(r, from, to) == stage[r] = from /\ stage' = [stage EXCEPT ![r] = to]

Ask(r, p) ==
  /\ To(r, "idle", "verify")
  /\ payment' = [payment EXCEPT ![r] = p]
  /\ UNCHANGED <<landed, void>>

Verified(r) ==
  /\ To(r, "verify", "settle") \/ To(r, "verify", "invalid") \/ To(r, "verify", "unverified")
  /\ UNCHANGED <<payment, landed, void>>

\* Success means that this request put the payment on the chain.
Succeed(r) ==
  /\ payment[r] \notin landed \cup void
  /\ landed' = landed \cup {payment[r]}
  /\ To(r, "settle", "paid")
  /\ UNCHANGED <<payment, void>>

GiveUp(r) ==
  /\ To(r, "settle", "refused") \/ To(r, "settle", "errored")
  /\ landed' = landed \/ (payment[r] \notin void /\ landed' = landed \cup {payment[r]})
  /\ UNCHANGED <<payment, void>>

LandUnnoticed(r) ==
  /\ stage[r] = "settle"
  /\ payment[r] \notin landed \cup void
  /\ landed' = landed \cup {payment[r]}
  /\ UNCHANGED <<stage, payment, void>>

Expire(p) ==
  /\ p \notin landed
  /\ void' = void \cup {p}
  /\ UNCHANGED <<stage, payment, landed>>

Next ==
  \/ \E r \in Requests :
       \/ \E p \in Payments : Ask(r, p)
       \/ Verified(r) \/ Succeed(r) \/ GiveUp(r) \/ LandUnnoticed(r)
  \/ \E p \in Payments : Expire(p)

Spec == Init /\ [][Next]_vars
=============================================================================
