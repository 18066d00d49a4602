------------------------------ MODULE MCDlopen ------------------------------
(***************************************************************************)
(* Small worlds for TLC: which files exist, what they need, and which      *)
(* opens the threads may ask for.  Every cfg picks one of them.            *)
(***************************************************************************)
EXTENDS Dlopen, TLC

CONSTANTS main, libA, libB, libC, libD, libE,  \* shortnames
          iMain, iA, iB, iC, iD, iE, \* files
          m0                         \* the image of the main program

HostModule0 == main :> m0
HostFile0 == main :> iMain

Path(k, i, fl) == [key |-> k, ino |-> i, slash |-> TRUE, flags |-> fl]
Bare(k, fl) == [key |-> k, ino |-> NoInode, slash |-> FALSE, flags |-> fl]
Here(k, i, fl) == [key |-> k, ino |-> i, slash |-> FALSE, flags |-> fl]

(* Threads and handles are interchangeable: FreeHandle picks one of the    *)
(* identities that occur nowhere in the state.                             *)
Symmetry == Permutations(Thread) \cup Permutations(Handle)

(* The library search finds the file that the name suggests.               *)
PlainFind ==
  LET file == (libA :> iA) @@ (libB :> iB) @@ (libC :> iC) @@ (libD :> iD)
              @@ (libE :> iE)
  IN  [k \in Key |-> IF k \in DOMAIN file /\ file[k] \in Inode
                     THEN file[k] ELSE NoInode]

NoCompat == [k \in Key |-> {}]

(* Shared: a and b both need d, and c is a second name (a link) of a, in   *)
(* the working directory too.                                              *)
SharedNeeded == [i \in Inode |-> IF i \in {iA, iB} THEN <<libD>> ELSE <<>>]
SharedFind == [PlainFind EXCEPT ![libC] = iA]
SharedRequest == {Path(libA, iA, {}), Path(libC, iA, {}), Bare(libA, {"GLOBAL"}),
                  Here(libC, iA, {"GLOBAL", "NODELETE"}),
                  Bare(libB, {"GLOBAL"}), Path(libD, iD, {"GLOBAL"})}

(* Compat: a (libc) brings the compat name b; c needs a and b; the file    *)
(* behind b can also be opened by path, and so can one that is missing.    *)
CompatAliases == [k \in Key |-> IF k = libA THEN {libB} ELSE {}]
CompatNeeded == [i \in Inode |-> IF i = iC THEN <<libA, libB>> ELSE <<>>]
CompatRequest == {Path(libA, iA, {}), Path(libB, iB, {}), Path(libC, iC, {}),
                  Path(libD, NoInode, {}), Bare(libA, {"NOLOAD"})}

(* Chain: a needs b, b needs c, d needs c.                                 *)
ChainNeeded == [i \in Inode |-> CASE i = iA -> <<libB>> [] i = iB -> <<libC>>
                                  [] i = iD -> <<libC>> [] OTHER -> <<>>]
ChainRequest == {Path(libA, iA, {}), Path(libB, iB, {"GLOBAL"}),
                 Path(libD, iD, {"GLOBAL"}), Path(libC, iC, {})}

(* One library and nothing else.                                           *)
SingleNeeded == [i \in Inode |-> <<>>]
SingleRequest == {Path(libA, iA, {})}

(* Cross: a needs e and c; b needs c and a.                                *)
CrossNeeded == [i \in Inode |-> CASE i = iA -> <<libE, libC>>
                                  [] i = iB -> <<libC, libA>>
                                  [] OTHER -> <<>>]
CrossRequest == {Path(libA, iA, {}), Path(libB, iB, {}), Path(libE, iE, {})}
=============================================================================
