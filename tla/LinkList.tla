------------------------------ MODULE LinkList ------------------------------
(***************************************************************************)
(* What the debugger is promised about the list of loaded objects: it is a *)
(* sequence; loading a library appends its link map, unloading a library   *)
(* takes its link map out, and nothing else ever changes.                  *)
(***************************************************************************)
EXTENDS Integers, Sequences

CONSTANTS Node, HostLists

VARIABLE list

Members == {list[i] : i \in 1 .. Len(list)}

Without(s, i) == [j \in 1 .. Len(s) - 1 |-> IF j < i THEN s[j] ELSE s[j + 1]]

Append1(n) == n \notin Members /\ list' = Append(list, n)

Remove1(n) ==
  \E i \in 1 .. Len(list) : list[i] = n /\ list' = Without(list, i)

Init == list \in HostLists

Next == \E n \in Node : Append1(n) \/ Remove1(n)

Spec == Init /\ [][Next]_list
=============================================================================
