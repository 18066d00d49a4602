----------------------------- MODULE MCLinkMap -----------------------------
(* The debugger's list, two threads: after two host link maps, with two    *)
(* addresses that boxed link maps use again and again; and empty, with     *)
(* four of them.                                                           *)
EXTENDS LinkMap

CONSTANTS main, libc

Lists == {<<main, libc>>, <<>>}
=============================================================================
