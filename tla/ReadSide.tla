------------------------------ MODULE ReadSide ------------------------------
(***************************************************************************)
(* The read side of the manager, beside the opens and drops of module      *)
(* Dlopen: dl_iterate_phdr holds the read lock while it calls back once    *)
(* for every committed library.  Several threads may read at a time; a     *)
(* thread that holds the write lock excludes them and they exclude it.     *)
(* The lock is a spin lock that favours nobody: a thread that is reading   *)
(* may read again, in the callback, whoever waits to write.                *)
(***************************************************************************)
EXTENDS Dlopen

VARIABLE walk   \* the dl_iterate_phdr that each thread is executing

readVars == <<vars, walk>>

(* todo: the libraries still to be reported; adds and subs: the counters   *)
(* that every report carries; info: a handle the callback must drop.       *)
NoWalk == [on |-> FALSE, todo |-> {}, adds |-> 0, subs |-> 0, info |-> NoHandle]

(* A fault of Unread: the write lock does not wait for readers.            *)
UnreadAlways == TRUE

(* lock_write!: nobody reads.                                              *)
Unread == \A t \in Thread : ~walk[t].on

-----------------------------------------------------------------------------
BeginWalk(t) ==
  /\ pc[t] = "idle"
  /\ lock = NoThread
  /\ ~walk[t].on
  /\ walk' = [walk EXCEPT ![t] =
       [on |-> TRUE, todo |-> {k \in Key : Committed(mgr, k)},
        adds |-> mgr.adds, subs |-> mgr.subs, info |-> NoHandle]]
  /\ UNCHANGED vars

(* The callback for the next library, in the order of all_values: it looks *)
(* at it and asks for more.                                                *)
Visit(t) ==
  /\ walk[t].on /\ walk[t].info = NoHandle
  /\ walk[t].todo # {}
  /\ walk' = [walk EXCEPT ![t].todo = @ \ {CHOOSE k \in @ : TRUE}]
  /\ UNCHANGED vars

(* All libraries are reported, or a callback has returned an error.        *)
EndWalk(t) ==
  /\ walk[t].on /\ walk[t].info = NoHandle
  /\ walk' = [walk EXCEPT ![t] = NoWalk]
  /\ UNCHANGED vars

(* The steps of module Dlopen that need no lock, or a read lock.  They may *)
(* be taken in a callback too.                                             *)
Unlocked(t) ==
  /\ walk[t].info = NoHandle
  /\ \/ Relocate(t)
     \/ DropFields(t)
     \/ This(t)
     \/ \E k \in Key : Addr2dso(t, k)
     \/ \E h \in Handle : Clone(t, h)

(* The steps that take the write lock, or have it.                         *)
LockedStep(t) ==
  \/ ExistingByName(t)
  \/ ExistingByInode(t)
  \/ ResolveByName(t)
  \/ ResolveByPath(t)
  \/ PrepareRelocation(t)
  \/ Merge(t)
  \/ Rollback(t)

Locked(t) ==
  /\ Unread
  /\ \/ LockedStep(t)
     \/ \E r \in Request : Begin(t, r)
     \/ \E h \in Handle : Drop(t, h)

ReadInit == Init /\ walk = [t \in Thread |-> NoWalk]

ReadNext ==
  \E t \in Thread :
    \/ BeginWalk(t) \/ Visit(t) \/ EndWalk(t)
    \/ Unlocked(t) /\ UNCHANGED walk
    \/ Locked(t) /\ UNCHANGED walk

(* As in Dlopen, no thread loses the race for the lock for ever; a         *)
(* callback returns, so that a walk goes on.                               *)
GoesOn(t) ==
  \/ Unread /\ LockedStep(t) /\ UNCHANGED walk
  \/ (Relocate(t) \/ DropFields(t)) /\ UNCHANGED walk
WalkGoesOn(t) == Visit(t) \/ EndWalk(t)

ReadSpec ==
  /\ ReadInit
  /\ [][ReadNext]_readVars
  /\ \A t \in Thread : SF_readVars(GoesOn(t)) /\ WF_readVars(WalkGoesOn(t))

-----------------------------------------------------------------------------
(* Callbacks that call dladdr, as a program may do with glibc, whose lock  *)
(* is recursive.                                                           *)

(* The callback's dladdr: addr2dso reads under a lock of its own ...       *)
CallbackDladdr(t, k) ==
  /\ walk[t].on /\ walk[t].info = NoHandle
  /\ Addr2dso(t, k)
  /\ walk' = [walk EXCEPT ![t].info = FreeHandle]

(* ... and its handle is dropped before dladdr returns.                    *)
DropInfo(t) ==
  /\ walk[t].info # NoHandle
  /\ Unread
  /\ Drop(t, walk[t].info)
  /\ walk' = [walk EXCEPT ![t].info = NoHandle]

ReentrantNext ==
  \/ ReadNext
  \/ \E t \in Thread : DropInfo(t) \/ \E k \in Key : CallbackDladdr(t, k)

ReentrantSpec ==
  /\ ReadInit
  /\ [][ReentrantNext]_readVars
  /\ \A t \in Thread :
       /\ SF_readVars(GoesOn(t) \/ DropInfo(t))
       /\ WF_readVars(WalkGoesOn(t))

-----------------------------------------------------------------------------
(* What dl_iterate_phdr reports is true while the callback looks at it:    *)
(* the libraries are registered and mapped, whoever opens and drops        *)
(* meanwhile, and the counters are those of this very list.                *)
WalkTrue ==
  \A t \in Thread : walk[t].on =>
    /\ \A k \in walk[t].todo : /\ Committed(mgr, k)
                               /\ image[mgr.link_ctx[k]].key = k
    /\ walk[t].adds = mgr.adds
    /\ walk[t].subs = mgr.subs

(* Every dl_iterate_phdr returns.                                          *)
WalkReturns == \A t \in Thread : walk[t].on ~> ~walk[t].on
=============================================================================
