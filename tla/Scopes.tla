------------------------------- MODULE Scopes -------------------------------
(***************************************************************************)
(* dlsym beside the opens and drops of module Dlopen: which library        *)
(* answers for a symbol through RTLD_DEFAULT, RTLD_NEXT or a handle.       *)
(*                                                                         *)
(* Both answers depend on an order that Registry leaves out: the order of  *)
(* entry in the IndexMap global, and the load order of link_ctx.           *)
(***************************************************************************)
EXTENDS Dlopen, Filter

Order == INSTANCE SequencesExt

CONSTANTS
  Sym,
  Defines   \* Defines[i]: the symbols that file i defines

ASSUME ScopesAssumption == Defines \in [Inode -> SUBSET Sym]

VARIABLES
  globals,  \* Manager.global, in its order
  loaded    \* the load order of link_ctx

scopeVars == <<vars, globals, loaded>>

(* A fault of Remaining: swap_remove in place of shift_remove, which fills *)
(* the gap with the last entry.                                            *)
RemainingSwapped(order, S) ==
  LET gap == Order!SelectInSeq(order, LAMBDA k : k \notin S)
      last == order[Len(order)]
  IN  IF gap = 0 \/ last \notin S THEN Only(order, S)
      ELSE Only([Order!Front(order) EXCEPT ![gap] = last], S)

(* shift_remove: what is left of an order keeps it.                        *)
Remaining(order, S) == Only(order, S)

(* The orders that a step may turn the given one into, when its members    *)
(* become S: add_global and insert_with_meta append.  External: the order  *)
(* in which the linker commits the libraries of one group.                 *)
Reordered(order, S) ==
  {Remaining(order, S) \o new :
     new \in Order!SetToSeqs(S \ Order!ToSet(order))}

CommittedKeys(m) == {k \in Key : Committed(m, k)}

-----------------------------------------------------------------------------
ScopesInit ==
  /\ Init
  /\ globals \in Order!SetToSeqs(mgr.global)
  /\ loaded \in Order!SetToSeqs(CommittedKeys(mgr))

ScopesNext ==
  /\ Next
  /\ globals' \in Reordered(globals, mgr'.global)
  /\ loaded' \in Reordered(loaded, CommittedKeys(mgr'))

ScopesSpec == ScopesInit /\ [][ScopesNext]_scopeVars

-----------------------------------------------------------------------------
(* dlsym.                                                                  *)

(* The committed libraries that define s, and the first of D in a list.    *)
Defining(s) ==
  {k \in CommittedKeys(mgr) : s \in Defines[image[mgr.link_ctx[k]].file]}

FirstOf(libs, D) ==
  LET i == Order!SelectInSeq(libs, LAMBDA k : k \in D)
  IN  IF i = 0 THEN NoKey ELSE libs[i]

(* global_find: RTLD_DEFAULT.                                              *)
GlobalFind(s) == FirstOf(globals, Defining(s))

(* next_find: RTLD_NEXT, called from the code of library k, looks in the   *)
(* libraries that were loaded after k.                                     *)
After(libs, k) ==
  LET i == Order!SelectInSeq(libs, LAMBDA j : j = k)
  IN  SubSeq(libs, i + 1, Len(libs))

NextFind(k, s) == FirstOf(After(loaded, k), Defining(s))

(* find_symbol over the deps list of a handle.  External: the order of the *)
(* list; it is fixed when the handle is made.                              *)
HandleFinds(h, s) == {x \in handle[h].deps : s \in Defines[image[x].file]}

-----------------------------------------------------------------------------
(* An address that dlsym has given out stays the answer.  An open, a       *)
(* promotion, a rollback or the drop of another library never changes the  *)
(* library that RTLD_DEFAULT, or RTLD_NEXT in a library that stays,        *)
(* answers with; only the removal of the answering library does.  What an  *)
(* open handle answers with stays mapped.                                  *)
AnswersStable ==
  [][\A s \in Sym :
       /\ GlobalFind(s) \in mgr'.global => GlobalFind(s)' = GlobalFind(s)
       /\ \A k \in CommittedKeys(mgr) \cap CommittedKeys(mgr') :
            NextFind(k, s) \in CommittedKeys(mgr') =>
              NextFind(k, s)' = NextFind(k, s)
       /\ \A h \in Handle : handle[h].open /\ handle'[h].open =>
            HandleFinds(h, s)' = HandleFinds(h, s)]_scopeVars
=============================================================================
