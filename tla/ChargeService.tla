---------------------------- MODULE ChargeService ----------------------------
(***************************************************************************)
(* A charge-intent service as a whole: the route of ChargeRoute and the    *)
(* operators of RefundQueue, who find charges to refund in its log.        *)
(* It implements ChargeLedger.                                             *)
(***************************************************************************)
EXTENDS ChargeRoute

CONSTANTS Operators, MaxLost

ASSUME RefundAssumption == MaxLost \in Nat

VARIABLES opPc, target, ledger, sends, unanswered

INSTANCE RefundQueue

operatorVars == <<opPc, target, ledger, sends, unanswered>>

vars == <<routeVars, operatorVars>>

TypeOK == RouteTypeOK /\ RefundTypeOK

Init == RouteInit /\ RefundInit

Next ==
  \/ RouteNext /\ UNCHANGED operatorVars
  \/ RefundNext /\ UNCHANGED routeVars

Spec == Init /\ [][Next]_vars

-----------------------------------------------------------------------------
Ledger == INSTANCE ChargeLedger
            WITH charged <- settled, delivered <- made, repaid <- sends

\* Requests, retries, deletions and refunds together keep the promise of the ledger:
\* one charge and one resource per credential, refunds of charges only.
KeepsLedger == Ledger!Spec
=============================================================================
