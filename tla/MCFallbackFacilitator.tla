------------------------ MODULE MCFallbackFacilitator ------------------------
(***************************************************************************)
(* Three clients of which only the second works, three requests and two    *)
(* payments.                                                               *)
(***************************************************************************)
EXTENDS FallbackFacilitator

CONSTANTS r1, r2, r3, p1, p2, a, b, c

MCRequests == {r1, r2, r3}
MCPayments == {p1, p2}
MCKinds    == {a, b, c}
MCOffers   == <<{a}, {a, b}, {b, c}>>
MCSound    == {2}
=============================================================================
