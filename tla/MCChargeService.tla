--------------------------- MODULE MCChargeService ---------------------------
(***************************************************************************)
(* Three requests over two credentials of one wallet, a DELETE and two     *)
(* refund operators.                                                       *)
(***************************************************************************)
EXTENDS ChargeService

CONSTANTS r1, r2, r3, d1, k1, k2, w1, o1, o2

MCRequests  == {r1, r2, r3}
MCDeletes   == {d1}
MCCreds     == {k1, k2}
MCWallets   == {w1}
MCPayer     == [k \in MCCreds |-> w1]
MCDeleter   == [d \in MCDeletes |-> w1]
MCOperators == {o1, o2}
=============================================================================
