--------------------------- MODULE MCSessionChannel ---------------------------
(***************************************************************************)
(* Small instances of SessionChannel.  Requests and closers are model      *)
(* values and interchangeable; symmetry is used in the safety runs only.   *)
(***************************************************************************)
EXTENDS SessionChannel, TLC

Symmetry == Permutations(Requests) \cup Permutations(Closers)
=============================================================================
