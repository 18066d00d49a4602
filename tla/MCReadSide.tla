----------------------------- MODULE MCReadSide -----------------------------
(* The worlds of MCDlopen, with threads that walk the libraries.           *)
EXTENDS ReadSide, MCDlopen
=============================================================================
