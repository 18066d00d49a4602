--------------------------- MODULE MCDestructors ---------------------------
(* Two libraries, one of which holds two dso_handles, and an address that  *)
(* belongs to none.                                                        *)
EXTENDS Destructors, TLC

CONSTANTS a, b, a1, a2, b1, other

TwoSpans == (a :> {a1, a2}) @@ (b :> {b1})
=============================================================================
