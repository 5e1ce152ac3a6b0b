----------------------------- MODULE ChargeLedger -----------------------------
(***************************************************************************)
(* What a charge-intent service promises about each payment credential:    *)
(* it is charged at most once, at most one resource is ever made for it,   *)
(* and only a charge is delivered on or paid back.                         *)
(***************************************************************************)
EXTENDS Naturals

CONSTANT Creds

VARIABLES
  charged,    \* the credentials whose money has reached the seller
  delivered,  \* delivered[k]: how many resources were made for credential k
  repaid      \* repaid[k]: how many refunds of it went out

vars == <<charged, delivered, repaid>>

Init ==
  /\ charged = {}
  /\ delivered = [k \in Creds |-> 0]
  /\ repaid = [k \in Creds |-> 0]

Charge(k) ==
  /\ k \notin charged
  /\ charged' = charged \cup {k}
  /\ UNCHANGED <<delivered, repaid>>

Deliver(k) ==
  /\ k \in charged
  /\ delivered[k] = 0
  /\ delivered' = [delivered EXCEPT ![k] = 1]
  /\ UNCHANGED <<charged, repaid>>

Repay(k) ==
  /\ k \in charged
  /\ repaid' = [repaid EXCEPT ![k] = @ + 1]
  /\ UNCHANGED <<charged, delivered>>

Next == \E k \in Creds : Charge(k) \/ Deliver(k) \/ Repay(k)

Spec == Init /\ [][Next]_vars
=============================================================================
