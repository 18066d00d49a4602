------------------------------ MODULE MCScopes ------------------------------
(* The chain of MCDlopen, whose libraries define two symbols.              *)
EXTENDS Scopes, MCDlopen

ChainDefines == [i \in Inode |-> CASE i \in {iB, iC} -> {"f"}
                                   [] i \in {iA, iD} -> {"g"}
                                   [] OTHER -> {}]
=============================================================================
