---------------------------- MODULE Destructors ----------------------------
(***************************************************************************)
(* The destructors that libraries register with __cxa_atexit and           *)
(* __cxa_thread_atexit_impl, and the callers of finalize: the drop of the  *)
(* last handle of a library (which unmaps what it has removed once all of  *)
(* it is finalized), and __cxa_finalize of an address or, when the process *)
(* exits, of NULL.                                                         *)
(*                                                                         *)
(* finalize takes the matching destructors out of the list under the lock  *)
(* and calls them without it, so destructors and other threads register    *)
(* and finalize in between.  A destructor is numbered in the order of      *)
(* registration.  An address that has been unmapped is not mapped again.   *)
(***************************************************************************)
EXTENDS Filter, FiniteSets

CONSTANTS
  Thread,
  Lib,       \* libraries
  Addr,      \* the values of dso_handle
  Null,      \* the null dso_handle
  Span,      \* Span[lib]: the addresses in the range of lib
  MaxDtors   \* bound: how many destructors are registered

ASSUME DestructorsAssumption ==
  /\ Null \notin Addr
  /\ Span \in [Lib -> SUBSET Addr]
  /\ MaxDtors \in Nat

VARIABLES
  destructors,  \* DESTRUCTORS: a sequence of numbers
  dso,          \* dso[d]: the dso_handle of destructor d
  registered,   \* the libraries that the manager knows
  mapped,       \* the libraries that are mapped
  pc,           \* pc[t]: where thread t is
  range,        \* range[t]: the addresses its __cxa_finalize will match
  removed_libs, \* removed_libs[t]: what its drop has yet to finalize
  released,     \* released[t]: what its drop has finalized
  to_run,       \* to_run[t]: what thread t has taken out and not called
  called,       \* called[d]: how often d has been called
  late          \* destructors registered after the drop had looked

vars == <<destructors, dso, registered, mapped, pc, range, removed_libs,
          released, to_run, called, late>>

Dtor == 1 .. MaxDtors
Registered == 1 .. Len(dso)

SpanOf(S) == UNION {Span[lib] : lib \in S}

-----------------------------------------------------------------------------
(* A fault of Matches: the loop moves on after it has removed an element,  *)
(* past the one that took its place.                                       *)
MatchesSkipping(d, S) ==
  /\ dso[d] \in S
  /\ ~\E i \in 1 .. Len(destructors) - 1 :
        destructors[i + 1] = d /\ dso[destructors[i]] \in S

(* Does a finalize that matches the addresses S take d?                    *)
Matches(d, S) == dso[d] \in S

(* A fault of Left: nothing is removed.                                    *)
LeftAll(S) == destructors

Matching(S) == {d \in Registered : Matches(d, S)}

(* What finalize leaves in the list: its loop keeps the order.             *)
Left(S) == Only(destructors, Registered \ Matching(S))

(* The addresses that finalize matches: NULL every one, an address in a    *)
(* registered library those of the library, any other one only itself, be  *)
(* it in a library that has been removed.                                  *)
Matched(a) ==
  LET around == {lib \in registered : a \in Span[lib]}
  IN  IF a = Null THEN Addr
      ELSE IF around = {} THEN {a} ELSE Span[CHOOSE lib \in around : TRUE]

-----------------------------------------------------------------------------
(* register_atexit, by code that is mapped (a constructor, a function or a *)
(* destructor of a library) or that belongs to no library.                 *)
Register(a) ==
  LET d == Len(dso) + 1
  IN  /\ d \in Dtor
      /\ a \notin SpanOf(Lib \ mapped)
      /\ destructors' = Append(destructors, d)
      /\ dso' = Append(dso, a)
      /\ late' = IF \E t \in Thread : a \in SpanOf(released[t])
                 THEN late \cup {d} ELSE late
      /\ UNCHANGED <<registered, mapped, pc, range, removed_libs, released,
                     to_run, called>>

(* Drop for ElfLibrary, under the manager's lock: the library and those of *)
(* its dependencies that nobody else needs leave the registry.             *)
Drop(t, libs) ==
  /\ pc[t] = "idle"
  /\ libs # {} /\ libs \subseteq registered
  /\ registered' = registered \ libs
  /\ removed_libs' = [removed_libs EXCEPT ![t] = libs]
  /\ pc' = [pc EXCEPT ![t] = "drop"]
  /\ UNCHANGED <<destructors, dso, mapped, range, released, to_run, called,
                 late>>

(* __cxa_finalize, the lookup under the manager's read lock.               *)
CxaFinalize(t, a) ==
  /\ pc[t] = "idle"
  /\ range' = [range EXCEPT ![t] = Matched(a)]
  /\ pc' = [pc EXCEPT ![t] = "take"]
  /\ UNCHANGED <<destructors, dso, registered, mapped, removed_libs, released,
                 to_run, called, late>>

(* finalize, the part under the lock of the list.                          *)
Take(t, S) ==
  /\ to_run' = [to_run EXCEPT ![t] = Only(destructors, Matching(S))]
  /\ destructors' = Left(S)
  /\ pc' = [pc EXCEPT ![t] = "call"]
  /\ UNCHANGED <<dso, registered, mapped, called, late>>

(* The finalize of a library that the drop has removed.                    *)
FinalizeRemoved(t, lib) ==
  /\ pc[t] = "drop"
  /\ lib \in removed_libs[t]
  /\ Take(t, Span[lib])
  /\ removed_libs' = [removed_libs EXCEPT ![t] = @ \ {lib}]
  /\ released' = [released EXCEPT ![t] = @ \cup {lib}]
  /\ UNCHANGED range

(* The rest of __cxa_finalize: what was looked up may have left since.     *)
FinalizeRange(t) ==
  /\ pc[t] = "take"
  /\ Take(t, range[t])
  /\ range' = [range EXCEPT ![t] = {}]
  /\ UNCHANGED <<removed_libs, released>>

Shorter(s) == SubSeq(s, 1, Len(s) - 1)

(* A fault of Call: the destructors are called in the order in which they  *)
(* were registered.                                                        *)
CallFirst(t) ==
  LET d == Head(to_run[t])
  IN  /\ to_run[t] # <<>>
      /\ called' = [called EXCEPT ![d] = @ + 1]
      /\ to_run' = [to_run EXCEPT ![t] = Tail(@)]
      /\ UNCHANGED <<destructors, dso, registered, mapped, pc, range,
                     removed_libs, released, late>>

(* finalize, the loop without the lock: the last one first.                *)
Call(t) ==
  LET d == to_run[t][Len(to_run[t])]
  IN  /\ to_run[t] # <<>>
      /\ called' = [called EXCEPT ![d] = @ + 1]
      /\ to_run' = [to_run EXCEPT ![t] = Shorter(@)]
      /\ UNCHANGED <<destructors, dso, registered, mapped, pc, range,
                     removed_libs, released, late>>

(* A fault of Return: what is left to call is forgotten.                   *)
ReturnEarly(t) ==
  /\ pc[t] = "call"
  /\ to_run' = [to_run EXCEPT ![t] = <<>>]
  /\ pc' = [pc EXCEPT ![t] = "idle"]
  /\ mapped' = mapped \ released[t]
  /\ released' = [released EXCEPT ![t] = {}]
  /\ UNCHANGED <<destructors, dso, registered, range, removed_libs, called,
                 late>>

(* finalize returns.  The drop goes on with the next library it has        *)
(* removed; after the last one its fields are dropped, and with them the   *)
(* images of all of them.                                                  *)
Return(t) ==
  /\ pc[t] = "call"
  /\ to_run[t] = <<>>
  /\ \/ /\ removed_libs[t] # {}
        /\ pc' = [pc EXCEPT ![t] = "drop"]
        /\ UNCHANGED <<mapped, released>>
     \/ /\ removed_libs[t] = {}
        /\ pc' = [pc EXCEPT ![t] = "idle"]
        /\ mapped' = mapped \ released[t]
        /\ released' = [released EXCEPT ![t] = {}]
  /\ UNCHANGED <<destructors, dso, registered, range, removed_libs, to_run,
                 called, late>>

-----------------------------------------------------------------------------
Init ==
  /\ destructors = <<>>
  /\ dso = <<>>
  /\ registered = Lib
  /\ mapped = Lib
  /\ pc = [t \in Thread |-> "idle"]
  /\ range = [t \in Thread |-> {}]
  /\ removed_libs = [t \in Thread |-> {}]
  /\ released = [t \in Thread |-> {}]
  /\ to_run = [t \in Thread |-> <<>>]
  /\ called = [d \in Dtor |-> 0]
  /\ late = {}

(* A step inside finalize.                                                 *)
Step(t) ==
  \/ \E lib \in Lib : FinalizeRemoved(t, lib)
  \/ FinalizeRange(t)
  \/ Call(t)
  \/ Return(t)

Next ==
  \/ \E a \in Addr : Register(a)
  \/ \E t \in Thread :
       \/ \E libs \in SUBSET Lib : Drop(t, libs)
       \/ \E a \in Addr \cup {Null} : CxaFinalize(t, a)
       \/ Step(t)

(* A thread that is inside finalize goes on.                               *)
Spec == Init /\ [][Next]_vars /\ \A t \in Thread : WF_vars(Step(t))

-----------------------------------------------------------------------------
(* Properties.                                                             *)

(* A registered destructor is in the list, or taken by one finalize, or    *)
(* has been called once: concurrent finalizes never lose or repeat one.    *)
OnePlace ==
  \A d \in Registered :
    called[d]
      + Cardinality({i \in 1 .. Len(destructors) : destructors[i] = d})
      + Cardinality({p \in Thread \X Dtor :
                       p[2] <= Len(to_run[p[1]]) /\ to_run[p[1]][p[2]] = d}) = 1

(* Of the destructors one finalize has taken, a later one is called before *)
(* an earlier one.                                                         *)
ReverseOrder ==
  [][\A t \in Thread :
       \A i \in 1 .. Len(to_run[t]) :
         called'[to_run[t][i]] # called[to_run[t][i]] =>
           \A j \in 1 .. Len(to_run[t]) : to_run[t][j] <= to_run[t][i]]_vars

(* A destructor is left behind by the unmapping of its library only if it  *)
(* was registered when the library's finalize had already looked.          *)
LeftOnlyIfLate ==
  \A i \in 1 .. Len(destructors) :
    dso[destructors[i]] \in SpanOf(Lib \ mapped) => destructors[i] \in late

(* What a finalize has taken is called, whatever else is registered and    *)
(* finalized meanwhile.                                                    *)
TakenIsCalled ==
  \A d \in Dtor : (\E t \in Thread : \E i \in 1 .. Len(to_run[t]) :
                     to_run[t][i] = d) ~> called[d] > 0
=============================================================================
