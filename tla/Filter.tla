------------------------------- MODULE Filter -------------------------------
(* Removal from a list that keeps the order of what stays: Vec::remove and *)
(* IndexMap::shift_remove.                                                 *)
EXTENDS Integers, Sequences

(* The members of S in the order of s.                                     *)
Only(s, S) ==
  LET upTo[i \in Nat] ==
        IF i = 0 THEN <<>>
        ELSE IF s[i] \in S THEN Append(upTo[i - 1], s[i]) ELSE upTo[i - 1]
  IN  upTo[Len(s)]
=============================================================================
