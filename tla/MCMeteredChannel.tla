--------------------------- MODULE MCMeteredChannel ---------------------------
(***************************************************************************)
(* A small instance of MeteredChannel.  The handler settles on a negative  *)
(* amount, an amount within the maximum or one above it, or not at all.    *)
(***************************************************************************)
EXTENDS MeteredChannel

CONSTANTS r1, r2, p1, c1, c2

MCCalls      == {r1, r2}
MCPosts      == {p1}
MCClosers    == {c1, c2}
MCSettleArgs == {-1, 1, MaxAmount + 1}
=============================================================================
