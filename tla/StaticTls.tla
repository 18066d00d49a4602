------------------------------ MODULE StaticTls ------------------------------
(***************************************************************************)
(* Static TLS in the replacement rtld (mod tls of rtld.rs): where the      *)
(* blocks of the modules lie below the thread pointer, the area of the     *)
(* initial thread, and the storages of the threads that are created while  *)
(* libraries are being loaded.                                             *)
(*                                                                         *)
(* A byte of a storage is named by its distance below the thread pointer:  *)
(* the byte at tp - d is d.  A block at offset -off of size memsz is the   *)
(* bytes off - memsz + 1 .. off.  The initialisation image and the zeroes  *)
(* after it are not told apart: a byte holds the module that wrote it.     *)
(***************************************************************************)
EXTENDS Integers, Sequences, FiniteSets

CONSTANTS
  Info,        \* the TLS segments that may be registered: [memsz, align]
  ArenaSize,   \* STATIC_TLS_ARENA_SIZE
  TcbAlign,    \* backend.tcb_align
  WordAlign,   \* align_of::<usize>()
  MaxModules,  \* bound: how many registrations are tried
  Storage      \* bound: the thread storages

ASSUME StaticTlsAssumption ==
  /\ Info \subseteq [memsz : Nat \ {0}, align : Nat]
  /\ ArenaSize \in Nat
  /\ {TcbAlign, WordAlign} \subseteq Nat \ {0}
  /\ MaxModules \in Nat

VARIABLES
  area,      \* STATIC_TLS: used, max_align
  modules,   \* STATIC_TLS_MODULES
  entering,  \* the module register_static_module has placed and not listed
  tried,     \* how many registrations have been tried
  main,      \* the bytes below the initial thread's thread pointer
  store,     \* the thread storages
  allocs,    \* TLS_ALLOCATIONS
  freed      \* how often each storage has been given back

vars == <<area, modules, entering, tried, main, store, allocs, freed>>

-----------------------------------------------------------------------------
PowerOf2[e \in Nat] == IF e = 0 THEN 1 ELSE 2 * PowerOf2[e - 1]

IsPowerOf2(n) == \E e \in 0 .. n : n = PowerOf2[e]

ASSUME AlignAssumption == IsPowerOf2(TcbAlign)

NextPowerOfTwo(n) ==
  CHOOSE p \in n .. 2 * n : IsPowerOf2(p) /\ \A q \in n .. p - 1 : ~IsPowerOf2(q)

Larger(m, n) == IF m > n THEN m ELSE n

(* A fault of AlignUp: the mask rounds down.                               *)
AlignDown(value, align) == value - (value % align)

(* align_up: the mask !(align - 1) takes value % align off.                *)
AlignUp(value, align) ==
  (value + align - 1) - ((value + align - 1) % align)

(* A fault of Fits: the space that was used before is compared.            *)
FitsBefore(used) == area.used <= ArenaSize

Fits(used) == used <= ArenaSize

(* A fault of StaticSize: the space is rounded down to the alignment.      *)
StaticSizeDown(align) == AlignDown(area.used, align)

(* The room below the thread pointer that a new storage gets.              *)
StaticSize(align) == AlignUp(area.used, align)

(* A placed module: its block starts off bytes below the thread pointer.   *)
Block(m) == m.off - m.memsz + 1 .. m.off

NoModule == [id |-> 0, memsz |-> 0, align |-> 1, off |-> 0]

(* init_static_tls_module for every module of S, in order: what the bytes  *)
(* hold afterwards, and whether all of them are there.                     *)
Written(bytes, S) ==
  [d \in DOMAIN bytes |->
     LET writers == {n \in 1 .. Len(S) : d \in Block(S[n])}
     IN  IF writers = {} THEN bytes[d]
         ELSE S[CHOOSE n \in writers : \A j \in writers : j <= n].id]

Inside(bytes, S) == \A n \in 1 .. Len(S) : Block(S[n]) \subseteq DOMAIN bytes

Zeroed(size) == [d \in 1 .. size |-> 0]

-----------------------------------------------------------------------------
(* A storage: none yet; sized, and not initialised; usable; given back.    *)
(* late tells that a module has been placed since it was sized, stray that *)
(* its last initialisation wrote outside of it.                            *)
NoStorage == [state |-> "none", bytes |-> <<>>, align |-> 1, sized |-> 0,
              listed |-> 0, late |-> FALSE, stray |-> FALSE]

(* register_static_module, under the lock of STATIC_TLS, until the module  *)
(* is listed.  The first registration makes the initial thread's area, and *)
(* fails if that fails.  Space is used up even if add_static_tls fails     *)
(* afterwards.                                                             *)
Place(info) ==
  LET align == NextPowerOfTwo(Larger(info.align, 1))
      used == AlignUp(area.used + info.memsz, align)
      m == [id |-> tried + 1, memsz |-> info.memsz, align |-> align,
            off |-> used]
  IN  /\ entering = NoModule
      /\ tried < MaxModules
      /\ tried' = tried + 1
      /\ \/ /\ ~Fits(used) \/ area.used = 0
            /\ UNCHANGED <<area, entering, main, store>>
         \/ /\ Fits(used)
            /\ area' = [used |-> used,
                        max_align |-> Larger(area.max_align, align)]
            /\ entering' = m
            /\ main' = Written(main, <<m>>)
            /\ store' = [s \in Storage |->
                           IF store[s].state \in {"sized", "ready"}
                           THEN [store[s] EXCEPT !.late = TRUE] ELSE store[s]]
      /\ UNCHANGED <<modules, allocs, freed>>

(* add_static_tls, and if it succeeds, STATIC_TLS_MODULES.push.            *)
List ==
  /\ entering # NoModule
  /\ \/ modules' = Append(modules, entering)
     \/ UNCHANGED modules
  /\ entering' = NoModule
  /\ UNCHANGED <<area, tried, main, store, allocs, freed>>

(* refresh_static_tls, at the end of startup.                              *)
Refresh ==
  /\ entering = NoModule
  /\ main' = Written(main, modules)
  /\ UNCHANGED <<area, modules, entering, tried, store, allocs, freed>>

-----------------------------------------------------------------------------
(* allocate_storage, or libc that makes room for what static_info says:    *)
(* the lock of STATIC_TLS is held for the reading only.                    *)
StorageAlign(own) ==
  IF own
  THEN NextPowerOfTwo(Larger(Larger(area.max_align, TcbAlign), WordAlign))
  ELSE Larger(area.max_align, TcbAlign)

Size(s, own) ==
  LET align == StorageAlign(own)
  IN  /\ store[s].state = "none"
      /\ entering = NoModule
      /\ store' = [store EXCEPT ![s] =
                     [NoStorage EXCEPT !.state = "sized",
                                       !.bytes = Zeroed(StaticSize(align)),
                                       !.align = align,
                                       !.sized = Len(modules)]]
      /\ allocs' = IF own THEN allocs \cup {s} ELSE allocs
      /\ UNCHANGED <<area, modules, entering, tried, main, freed>>

(* A fault of InitStorage: no image is copied.                             *)
InitTcbOnly(s) ==
  /\ store[s].state \in {"sized", "ready"}
  /\ store' = [store EXCEPT ![s].state = "ready", ![s].listed = Len(modules)]
  /\ UNCHANGED <<area, modules, entering, tried, main, allocs, freed>>

(* init: the images of all listed modules are copied.  libc calls it for a *)
(* new storage, and again when it reuses one for another thread.  A        *)
(* failure of init_tcb comes first and changes nothing.                    *)
InitStorage(s) ==
  /\ store[s].state \in {"sized", "ready"}
  /\ store' = [store EXCEPT
                 ![s].state = "ready",
                 ![s].listed = Len(modules),
                 ![s].bytes = Written(@, modules),
                 ![s].stray = ~Inside(store[s].bytes, modules)]
  /\ UNCHANGED <<area, modules, entering, tried, main, allocs, freed>>

(* A fault of Deallocate: the allocation stays listed.                     *)
DeallocateListed(s, dealloc_tcb) ==
  /\ store[s].state \in {"ready", "gone"}
  /\ store' = IF dealloc_tcb
              THEN [store EXCEPT ![s] = [NoStorage EXCEPT !.state = "gone"]]
              ELSE store
  /\ freed' = IF dealloc_tcb /\ s \in allocs
              THEN [freed EXCEPT ![s] = @ + 1] ELSE freed
  /\ UNCHANGED <<area, modules, entering, tried, main, allocs>>

(* deallocate, which libc may call once more for a thread that is gone.    *)
(* Without dealloc_tcb libc keeps the storage for another thread.          *)
Deallocate(s, dealloc_tcb) ==
  /\ store[s].state \in {"ready", "gone"}
  /\ store' = IF dealloc_tcb
              THEN [store EXCEPT ![s] = [NoStorage EXCEPT !.state = "gone"]]
              ELSE store
  /\ \/ /\ dealloc_tcb /\ s \in allocs
        /\ allocs' = allocs \ {s}
        /\ freed' = [freed EXCEPT ![s] = @ + 1]
     \/ /\ ~dealloc_tcb \/ s \notin allocs
        /\ UNCHANGED <<allocs, freed>>
  /\ UNCHANGED <<area, modules, entering, tried, main>>

-----------------------------------------------------------------------------
Init ==
  /\ area = [used |-> 0, max_align |-> 1]
  /\ modules = <<>>
  /\ entering = NoModule
  /\ tried = 0
  /\ main = Zeroed(ArenaSize)
  /\ store = [s \in Storage |-> NoStorage]
  /\ allocs = {}
  /\ freed = [s \in Storage |-> 0]

Next ==
  \/ \E info \in Info : Place(info)
  \/ List
  \/ Refresh
  \/ \E s \in Storage :
       \/ \E b \in BOOLEAN : Size(s, b) \/ Deallocate(s, b)
       \/ InitStorage(s)

Spec == Init /\ [][Next]_vars

-----------------------------------------------------------------------------
(* Properties.                                                             *)

(* What is in use never exceeds the arena, and every byte holds zero or a  *)
(* module.                                                                 *)
TypeOK ==
  /\ area \in [used : 0 .. ArenaSize, max_align : Nat \ {0}]
  /\ modules \in Seq([id : Nat, memsz : Nat, align : Nat \ {0}, off : Nat])
  /\ entering \in [id : Nat, memsz : Nat, align : Nat \ {0}, off : Nat]
  /\ tried \in 0 .. MaxModules
  /\ main \in [1 .. ArenaSize -> 0 .. MaxModules]
  /\ allocs \subseteq Storage
  /\ freed \in [Storage -> Nat]
  /\ \A s \in Storage :
       /\ store[s].state \in {"none", "sized", "ready", "gone"}
       /\ \A d \in DOMAIN store[s].bytes : store[s].bytes[d] \in 0 .. MaxModules

Placed == IF entering = NoModule THEN modules ELSE Append(modules, entering)

(* Blocks never overlap, and the initial thread's area has room for all of *)
(* them: what one module's image holds, another registration, failed or    *)
(* not, never overwrites.                                                  *)
BlocksDisjoint ==
  /\ \A i, j \in 1 .. Len(Placed) :
       i # j => Block(Placed[i]) \cap Block(Placed[j]) = {}
  /\ \A i \in 1 .. Len(Placed) :
       /\ Block(Placed[i]) \subseteq 1 .. ArenaSize
       /\ \A d \in Block(Placed[i]) : main[d] = Placed[i].id

(* A storage that is initialised holds the image of every module that was  *)
(* listed by then and fits, at an address its alignment divides if it was  *)
(* listed before the storage was sized.                                    *)
StorageHoldsImages ==
  \A s \in Storage : store[s].state = "ready" =>
    \A n \in 1 .. store[s].listed :
      LET m == modules[n]
      IN  /\ \A d \in Block(m) \cap DOMAIN store[s].bytes :
               store[s].bytes[d] = m.id
          /\ n <= store[s].sized => store[s].align % m.align = 0
                                    /\ m.off % m.align = 0

(* Initialisation writes outside of a storage only if a module was placed  *)
(* after the storage had been sized: allocate_storage and init take their  *)
(* locks one after the other, and a storage that libc reuses keeps the     *)
(* size it had.                                                            *)
StrayOnlyIfLate == \A s \in Storage : store[s].stray => store[s].late

(* Only storage that allocate_storage made is freed, and only once,        *)
(* whatever libc passes to _dl_deallocate_tls.                             *)
FreedOnce == \A s \in Storage : freed[s] + (IF s \in allocs THEN 1 ELSE 0) <= 1
=============================================================================
