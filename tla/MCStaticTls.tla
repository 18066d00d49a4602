---------------------------- MODULE MCStaticTls ----------------------------
(* Segments of three sizes and alignments, one of which is no power of two *)
(* (and zero counts as one), in an arena that three of them can exhaust.   *)
EXTENDS StaticTls, TLC

Segments == {[memsz |-> 1, align |-> 0], [memsz |-> 3, align |-> 2],
             [memsz |-> 2, align |-> 3]}

Symmetry == Permutations(Storage)
=============================================================================
