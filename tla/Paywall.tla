------------------------------- MODULE Paywall -------------------------------
(***************************************************************************)
(* What a gated route promises, whatever the adapter, the intent and the   *)
(* store: the handler runs for a call only if that call's credential has   *)
(* been verified, for this call or for an earlier one; a credential that   *)
(* moves money by itself is taken once; what ended stays ended.            *)
(***************************************************************************)
CONSTANTS Calls, Creds, NoCred

VARIABLES
  reusable,  \* may a credential be verified again?  (a charge may not)
  holds,     \* holds[r]: the credential call r carries
  taken,     \* the calls whose credential was verified
  stage      \* stage[r]

vars == <<reusable, holds, taken, stage>>

Stages == {"idle", "open", "admitted", "served", "ended"}

Init ==
  /\ reusable \in BOOLEAN
  /\ holds = [r \in Calls |-> NoCred]
  /\ taken = {}
  /\ stage = [r \in Calls |-> "idle"]

Open(r, c) ==
  /\ stage[r] = "idle"
  /\ holds' = [holds EXCEPT ![r] = c]
  /\ stage' = [stage EXCEPT ![r] = "open"]
  /\ UNCHANGED <<reusable, taken>>

Take(r) ==
  /\ stage[r] = "open"
  /\ reusable \/ \A q \in taken : holds[q] # holds[r]
  /\ taken' = taken \cup {r}
  /\ UNCHANGED <<reusable, holds, stage>>

Admit(r) ==
  /\ stage[r] = "open"
  /\ \E q \in taken : holds[q] = holds[r]
  /\ stage' = [stage EXCEPT ![r] = "admitted"]
  /\ UNCHANGED <<reusable, holds, taken>>

Serve(r) ==
  /\ stage[r] = "admitted"
  /\ stage' = [stage EXCEPT ![r] = "served"]
  /\ UNCHANGED <<reusable, holds, taken>>

\* Turned away, failed, or all of them lost with the process.
EndSome(R) ==
  /\ \A r \in R : stage[r] \notin {"served", "ended"}
  /\ stage' = [r \in Calls |-> IF r \in R THEN "ended" ELSE stage[r]]
  /\ UNCHANGED <<reusable, holds, taken>>

Next ==
  \/ \E r \in Calls : Take(r) \/ Admit(r) \/ Serve(r) \/ \E c \in Creds : Open(r, c)
  \/ \E R \in SUBSET Calls : EndSome(R)

Spec == Init /\ [][Next]_vars
==============================================================================
