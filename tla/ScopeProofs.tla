---------------------------- MODULE ScopeProofs ----------------------------
(***************************************************************************)
(* Proofs about what module Dlopen keeps registered: the global scope, the *)
(* version numbers of the listing, names and counters, the libraries of    *)
(* open handles with the flags they were opened with, and what libraries   *)
(* were relocated against.                                                 *)
(*                                                                         *)
(* The first three rest on the reservation invariant: a name is never      *)
(* reserved and committed at once, so that a rollback, which removes       *)
(* reservations, and a drop, which removes libraries, cannot take each     *)
(* other's entries.  What handles keep rests on counting: a drop compares  *)
(* a strong count with the references that it knows of, and no other       *)
(* handle is among them.  What libraries keep rests on counting too, and   *)
(* on needs that are no more than one level deep.                          *)
(*                                                                         *)
(* Then the walks of module ReadSide: a walk sees one registry from its    *)
(* first callback to its last, because whatever changes the registry waits *)
(* for the readers.  Last the answers of dlsym in module Scopes: the lists *)
(* it searches keep their order, whoever opens and drops.                  *)
(***************************************************************************)
EXTENDS DlopenProofs, ReadSide, Scopes, Induction

(* The global scope follows the flags, and remove has found nothing amiss. *)
Bad == {"not registered", "inconsistent global scope"}

ScopeOK(m) ==
  /\ m.global = {k \in Key : Committed(m, k) /\ "GLOBAL" \in m.flags[k]}
  /\ m.failed \cap Bad = {}

(* Nothing that ScopeOK looks at changes.                                  *)
LEMMA SameScope ==
  ASSUME NEW m, NEW n, ScopeOK(m), n.global = m.global, n.flags = m.flags,
         n.link_ctx = m.link_ctx, n.failed \cap Bad = m.failed \cap Bad
  PROVE  ScopeOK(n)
BY DEF ScopeOK, Committed

(* Aliases do not touch the scope.                                         *)
LEMMA AddAliasesScope ==
  ASSUME NEW m \in Manager, NEW c \in Key, NEW S \in SUBSET Key, ScopeOK(m)
  PROVE  ScopeOK(AddAliases(m, c, S))
<1> DEFINE n == AddAliases(m, c, S)
<1>1. /\ n.global = m.global /\ n.flags = m.flags
      /\ n.link_ctx = m.link_ctx /\ n.failed = m.failed
  BY DEF AddAliases, Manager
<1> HIDE DEF n
<1>2. ScopeOK(n)
  BY <1>1, SameScope
<1>3. QED
  BY <1>2 DEF n

(* Nor does a reservation.                                                 *)
LEMMA ReservePendingScope ==
  ASSUME NEW m \in Manager, NEW k \in Key, NEW i \in Inode,
         NEW fl \in SUBSET Flag, ScopeOK(m)
  PROVE  ScopeOK(ReservePending(m, k, i, fl))
<1> DEFINE n == ReservePending(m, k, i, fl)
<1>1. /\ n.global = m.global /\ n.flags = m.flags /\ n.link_ctx = m.link_ctx
      /\ n.failed \in {m.failed, m.failed \cup {"already registered"}}
  BY DEF ReservePending, AddAliases, Manager
<1> HIDE DEF n
<1>2. n.failed \cap Bad = m.failed \cap Bad
  BY <1>1 DEF Bad
<1>3. ScopeOK(n)
  BY <1>1, <1>2, SameScope
<1>4. QED
  BY <1>3 DEF n

(* promote raises the flag and enters the scope together.                  *)
LEMMA PromoteScope ==
  ASSUME NEW m \in Manager, NEW k \in Key, NEW fl \in SUBSET Flag,
         Committed(m, k), ScopeOK(m)
  PROVE  ScopeOK(Promote(m, k, fl))
<1> DEFINE n == Promote(m, k, fl)
           pr == fl \cap {"GLOBAL", "NODELETE"}
<1>1. CASE pr \subseteq m.flags[k]
  BY <1>1 DEF Promote
<1>2. CASE ~(pr \subseteq m.flags[k])
  <2>1. /\ n.flags = [m.flags EXCEPT ![k] = m.flags[k] \cup pr]
        /\ n.global = IF "GLOBAL" \in fl THEN m.global \cup {k} ELSE m.global
        /\ n.link_ctx = m.link_ctx
        /\ n.failed \in {m.failed, m.failed \cup {"already in global scope"}}
    BY <1>2 DEF Promote, Manager
  <2>2. "GLOBAL" \in pr <=> "GLOBAL" \in fl
    OBVIOUS
  <2>3. n.failed \cap Bad = {}
    BY <2>1 DEF Bad, ScopeOK
  <2> HIDE DEF n, pr
  <2>4. \A j \in Key : Committed(n, j) <=> Committed(m, j)
    BY <2>1 DEF Committed
  <2>5. n.global = {j \in Key : Committed(n, j) /\ "GLOBAL" \in n.flags[j]}
    <3>1. m.flags \in [Key -> SUBSET Flag] /\ m.global \subseteq Key
      BY DEF Manager
    <3>2. n.flags[k] = m.flags[k] \cup pr
      BY <2>1, <3>1
    <3>3. \A j \in Key \ {k} : n.flags[j] = m.flags[j]
      BY <2>1, <3>1
    <3>4. ASSUME NEW j \in Key
          PROVE  j \in n.global <=> Committed(n, j) /\ "GLOBAL" \in n.flags[j]
      <4>1. CASE j = k
        BY <2>1, <2>2, <2>4, <3>2, <4>1 DEF ScopeOK
      <4>2. CASE j # k
        BY <2>1, <2>4, <3>3, <4>2 DEF ScopeOK
      <4> QED BY <4>1, <4>2
    <3>5. n.global \subseteq Key
      BY <2>1, <3>1
    <3> QED BY <3>4, <3>5
  <2>6. ScopeOK(n)
    BY <2>3, <2>5 DEF ScopeOK
  <2>7. QED
    BY <2>6 DEF n
<1>3. QED
  BY <1>1, <1>2

(* remove, asked for registered names of which none is both reserved and   *)
(* committed.                                                              *)
LEMMA RemoveScope ==
  ASSUME NEW m \in Manager, NEW S \in SUBSET Key, ScopeOK(m),
         \A k \in S : Registered(m, k),
         \A k \in m.pending : ~Committed(m, k)
  PROVE  ScopeOK(RemoveAll(m, S))
<1> DEFINE P == S \cap m.pending
           C == {k \in S \ P : Committed(m, k)}
           n == RemoveAll(m, S)
<1>1. /\ n.global = m.global \ (P \cup C)
      /\ n.flags = [k \in Key |-> IF k \in C THEN {} ELSE m.flags[k]]
      /\ n.link_ctx = [k \in Key |-> IF k \in C THEN NoModule
                                     ELSE m.link_ctx[k]]
      /\ n.failed = m.failed
           \cup {c \in {"inconsistent global scope"} :
                   \E k \in C : ("GLOBAL" \in m.flags[k]) # (k \in m.global)}
           \cup {c \in {"not registered"} : S # P \cup C}
  BY DEF RemoveAll
<1>2. S = P \cup C
  BY DEF Registered
<1>3. \A k \in C : ("GLOBAL" \in m.flags[k]) = (k \in m.global)
  BY DEF ScopeOK
<1>4. m.global \cap P = {}
  BY DEF ScopeOK
<1> HIDE DEF n, P, C
<1>5. n.failed \cap Bad = {}
  BY <1>1, <1>2, <1>3 DEF ScopeOK
<1>6. \A k \in Key : Committed(n, k) <=> Committed(m, k) /\ k \notin C
  BY <1>1 DEF Committed
<1>7. n.global = {k \in Key : Committed(n, k) /\ "GLOBAL" \in n.flags[k]}
  BY <1>1, <1>4, <1>6 DEF ScopeOK
<1>8. ScopeOK(n)
  BY <1>5, <1>7 DEF ScopeOK
<1>9. QED
  BY <1>8 DEF n

(* merge_link_context enters what it commits with RTLD_GLOBAL.             *)
LEMMA MergeScope ==
  ASSUME NEW m \in Manager, NEW S \in SUBSET Key, NEW module \in [S -> Module],
         NEW file, NEW deps_, NEW fl \in SUBSET Flag, ScopeOK(m)
  PROVE  ScopeOK(MergeLinkContext(m, S, module, file, deps_, fl))
<1> DEFINE n == MergeLinkContext(m, S, module, file, deps_, fl)
           T == Uncommitted(m, S)
           meta(k) == IF k \in m.pending THEN m.pflags[k]
                      ELSE NormalizedFlags(k, fl)
<1>1. /\ n.global = m.global \cup {k \in T : "GLOBAL" \in meta(k)}
      /\ n.flags = [k \in Key |-> IF k \in T THEN meta(k) ELSE m.flags[k]]
      /\ n.link_ctx = [k \in Key |-> IF k \in T THEN module[k]
                                     ELSE m.link_ctx[k]]
      /\ n.failed \in {m.failed, m.failed \cup {"already in global scope"}}
  BY DEF MergeLinkContext
<1>2. T \in SUBSET S /\ \A k \in T : ~Committed(m, k)
  BY DEF Uncommitted
<1> HIDE DEF n, T, meta
<1>3. n.failed \cap Bad = {}
  BY <1>1 DEF Bad, ScopeOK
<1>4. \A k \in Key : Committed(n, k) <=> Committed(m, k) \/ k \in T
  <2> SUFFICES ASSUME NEW k \in Key
               PROVE  Committed(n, k) <=> Committed(m, k) \/ k \in T
    OBVIOUS
  <2>1. CASE k \in T
    <3>1. n.link_ctx[k] = module[k] /\ module[k] \in Module
      BY <1>1, <1>2, <2>1
    <3> QED BY <2>1, <3>1, RegistryAssumption DEF Committed
  <2>2. CASE k \notin T
    BY <1>1, <2>2 DEF Committed
  <2> QED BY <2>1, <2>2
<1>5. n.global = {k \in Key : Committed(n, k) /\ "GLOBAL" \in n.flags[k]}
  <2>1. m.global \subseteq Key
    BY DEF Manager
  <2>2. ASSUME NEW k \in Key
        PROVE  k \in n.global <=> Committed(n, k) /\ "GLOBAL" \in n.flags[k]
    <3>1. CASE k \in T
      <4>1. n.flags[k] = meta(k) /\ Committed(n, k) /\ k \notin m.global
        BY <1>1, <1>2, <1>4, <3>1 DEF ScopeOK
      <4>2. k \in n.global <=> "GLOBAL" \in meta(k)
        BY <1>1, <3>1, <4>1
      <4> QED BY <4>1, <4>2
    <3>2. CASE k \notin T
      <4>1. n.flags[k] = m.flags[k] /\ (k \in n.global <=> k \in m.global)
        BY <1>1, <3>2
      <4> QED BY <1>4, <3>2, <4>1 DEF ScopeOK
    <3> QED BY <3>1, <3>2
  <2>3. n.global \subseteq Key
    BY <1>1, <1>2, <2>1
  <2> QED BY <2>2, <2>3
<1>6. ScopeOK(n)
  BY <1>3, <1>5 DEF ScopeOK
<1>7. QED
  BY <1>6 DEF n

-----------------------------------------------------------------------------
(* What the steps do to the manager.                                       *)

(* A drop of h unloads the libraries S.                                    *)
DropOf(S, h) ==
  /\ \E t \in Thread : Drop(t, h)
  /\ \A k \in S : Committed(mgr, k) /\ mgr.link_ctx[k] \in Unloaded(handle[h])

(* The removals of a rollback and of a drop: names of one kind each, none  *)
(* of them the host's.                                                     *)
Removal(S) ==
  /\ S \in SUBSET Key /\ S \cap Host = {}
  /\ mgr' = RemoveAll(mgr, S)
  /\ \/ S \subseteq mgr.pending
     \/ \E h \in Handle : DropOf(S, h)

(* A rollback takes back reservations.                                     *)
LEMMA RollbackRemoves ==
  ASSUME ReservationInv, NEW t \in Thread, Rollback(t)
  PROVE  AddedNames(t) \subseteq mgr.pending /\ Removal(AddedNames(t))
<1>1. AddedNames(t) \in SUBSET Key /\ AddedNames(t) \subseteq mgr.pending
  BY DEF AddedNames, ReservationInv, PendingOwned
<1>2. AddedNames(t) \cap Host = {}
  BY <1>1, PendingNotHost
<1>3. QED
  BY <1>1, <1>2 DEF Rollback, Removal

(* A drop removes committed libraries, those that its handle has kept      *)
(* registered and that it unloads.                                         *)
LEMMA DropRemoves ==
  ASSUME ReservationInv, HandlesResident, NEW t \in Thread, NEW h \in Handle,
         Drop(t, h)
  PROVE  \E S : Removal(S)
<1>0. TypeInv /\ mgr \in Manager
  BY DEF ReservationInv, TypeInv, TypeOK
<1> DEFINE gone == Unloaded(handle[h])
           S == {image[x].key : x \in gone}
<1>1. /\ gone \in SUBSET ({handle[h].inner} \cup handle[h].deps)
      /\ \A x \in gone : Unloads(x)
  BY DEF Unloaded
<1>2. handle[h].open /\ mgr' = RemoveAll(mgr, S)
  BY DEF Drop
<1> HIDE DEF gone
<1>3. ASSUME NEW k \in S
      PROVE  k \in Key \ Host /\ Committed(mgr, k) /\ mgr.link_ctx[k] \in gone
  <2> PICK x \in gone : k = image[x].key
    OBVIOUS
  <2>1. x \in ImagesOf(mgr, Key)
    BY <1>1, <1>2 DEF HandlesResident, Images
  <2> PICK j \in Key : Committed(mgr, j) /\ x = mgr.link_ctx[j]
    BY <1>0, <2>1, ImageCommitted
  <2>2. j = k
    BY DEF ReservationInv, FilesNamed
  <2>3. k \notin Host
    BY <1>1, UnloadedNotHost
  <2> QED BY <2>2, <2>3
<1>4. S \in SUBSET Key /\ S \cap Host = {} /\ mgr' = RemoveAll(mgr, S)
  BY <1>2, <1>3
<1> HIDE DEF S
<1>5. QED
  <2>1. DropOf(S, h)
    BY <1>3 DEF DropOf, gone
  <2> QED BY <1>4, <2>1 DEF Removal

(* The name a leads to the file by which c is known.                       *)
NameOf(a, c) ==
  \E i \in Inode : <<a, i>> \in NamedFiles /\ LookupByIdentity(mgr, i) = c

(* The other updates a step makes of the manager: it promotes a committed  *)
(* library, after recording another name of its file as an alias or not,   *)
(* records such an alias of a registered one, or reserves the name of a    *)
(* file that nobody has registered.                                        *)
Promotion ==
  \E c \in Key, fl \in SUBSET Flag :
    /\ Committed(mgr, c)
    /\ \/ mgr' = Promote(mgr, c, fl)
       \/ \E a \in Key : /\ NameOf(a, c)
                         /\ mgr' = Promote(AddAlias(mgr, c, a), c, fl)

NewAlias ==
  \E c, a \in Key :
    Registered(mgr, c) /\ NameOf(a, c) /\ mgr' = AddAlias(mgr, c, a)

Reservation ==
  \E k \in Key, i \in Inode, fl \in SUBSET Flag :
    /\ ~Registered(mgr, k)
    /\ <<k, i>> \in NamedFiles /\ LookupByIdentity(mgr, i) = NoKey
    /\ \E t \in Thread : pc[t] = "resolve_path" /\ Head(work[t]).name = k
    /\ mgr' = ReservePending(mgr, k, i, fl)

(* What a step of a dlopen other than its commit and its rollback does to  *)
(* the manager.                                                            *)
LEMMA StepManager ==
  ASSUME OneFilePerName,
         ReservationInv, NEW t \in Thread, Step(t), ~Rollback(t), ~Merge(t)
  PROVE  mgr' = mgr \/ Promotion \/ NewAlias \/ Reservation
<1>0. TypeInv /\ mgr \in Manager /\ req[t].flags \in SUBSET Flag
  BY RequestFlags DEF ReservationInv, TypeInv, TypeOK
<1>1. CASE ExistingByName(t)
  <2> DEFINE c == Lookup(mgr, req[t].key)
  <2>1. req[t] \in Request
    BY <1>0, <1>1 DEF ExistingByName, TypeInv, Session, Opening
  <2>2. c \in Key \cup {NoKey}
    BY <1>0, <2>1, RequestType, LookupType
  <2>3. \/ mgr' = mgr
        \/ /\ c # NoKey /\ Committed(mgr, c)
           /\ mgr' = Promote(mgr, c, req[t].flags)
    BY <1>1 DEF ExistingByName, Wait, FinishExisting
  <2> HIDE DEF c
  <2> QED BY <1>0, <2>2, <2>3 DEF Promotion
<1>2. CASE ExistingByInode(t)
  <2> DEFINE r == req[t]
             c == LookupByIdentity(mgr, r.ino)
  <2>1. r \in Request
    BY <1>0, <1>2 DEF ExistingByInode, TypeInv, Session, Opening
  <2>2. \/ mgr' = mgr
        \/ /\ r.ino # NoInode /\ c # NoKey /\ Committed(mgr, c)
           /\ mgr' = Promote(AddAlias(mgr, c, r.key), c, r.flags)
    BY <1>2 DEF ExistingByInode, Wait, LinkRoot, FinishExisting
  <2>3. ASSUME r.ino # NoInode, c # NoKey PROVE c \in Key /\ r.key \in Key
    BY <1>0, <2>1, <2>3, RequestType, IdentityType
  <2>4. ASSUME r.ino # NoInode PROVE NameOf(r.key, c)
    <3>1. <<r.key, r.ino>> \in NamedFiles
      BY <2>1, <2>4 DEF NamedFiles
    <3>2. r.ino \in Inode
      BY <2>1, <2>4, RequestType
    <3> QED BY <3>1, <3>2 DEF NameOf
  <2> HIDE DEF c
  <2> QED BY <1>0, <2>2, <2>3, <2>4 DEF Promotion
<1>3. CASE ResolveByName(t)
  BY <1>3 DEF ResolveByName, Wait
<1>4. CASE ResolveByPath(t)
  <2> DEFINE w == Head(work[t])
             c == LookupByIdentity(mgr, w.ino)
  <2>1. work[t] \in Seq(Work) /\ work[t] # <<>> /\ w.ino # NoInode
    BY <1>0, <1>4 DEF ResolveByPath, TypeInv, TypeOK, Session
  <2>2. w \in Work /\ w = work[t][1] /\ 1 \in 1 .. Len(work[t])
    BY <2>1
  <2>3. w.name \in Key /\ w.ino \in Inode
    BY <2>1, <2>2 DEF Work
  <2>4. c \in Key \cup {NoKey}
    BY <1>0, <2>3, IdentityType
  <2>5. <<w.name, w.ino>> \in NamedFiles /\ w.name \notin Host
    <3>1. pc[t] = "resolve_path"
      BY <1>4 DEF ResolveByPath
    <3>2. Head(work[t]).name \notin Host
      BY <3>1 DEF ReservationInv, HostKept
    <3>3. work[t][1].ino # NoInode => <<work[t][1].name, work[t][1].ino>> \in NamedFiles
      BY <2>2 DEF ReservationInv, FilesNamed
    <3> QED BY <2>1, <2>2, <3>2, <3>3
  <2>6. \/ mgr' = mgr
        \/ /\ c # NoKey
           /\ Committed(mgr, c) \/ c \in AddedNames(t)
           /\ mgr' = AddAlias(mgr, c, w.name)
        \/ /\ c = NoKey
           /\ mgr' = ReservePending(mgr, w.name, w.ino, req[t].flags)
    BY <1>4 DEF ResolveByPath, Wait
  <2> HIDE DEF w
  <2>7. c = NoKey => ~Registered(mgr, w.name)
    BY <2>3, <2>5, UnknownFile
  <2> HIDE DEF c
  <2>8. c \in AddedNames(t) => Registered(mgr, c)
    BY DEF ReservationInv, PendingOwned, Registered
  <2>9. Committed(mgr, c) => Registered(mgr, c)
    BY DEF Registered
  <2>10. NameOf(w.name, c)
    BY <2>3, <2>5 DEF NameOf, c
  <2>11. pc[t] = "resolve_path" /\ Head(work[t]).name = w.name
    BY <1>4 DEF ResolveByPath, w
  <2>12. c = LookupByIdentity(mgr, w.ino)
    BY DEF c
  <2> QED BY <1>0, <2>3, <2>4, <2>5, <2>6, <2>7, <2>8, <2>9, <2>10, <2>11, <2>12
          DEF NewAlias, Reservation
<1>5. CASE PrepareRelocation(t) \/ Relocate(t) \/ DropFields(t)
  BY <1>5 DEF PrepareRelocation, Relocate, DropFields
<1>6. QED
  BY <1>1, <1>2, <1>3, <1>4, <1>5 DEF Step

(* Everything that happens to the manager.                                 *)
LEMMA ManagerSteps ==
  ASSUME OneFilePerName,
         ReservationInv, HandlesResident, [Next]_vars
  PROVE  \/ mgr' = mgr \/ Promotion \/ NewAlias \/ Reservation
         \/ \E S : Removal(S)
         \/ \E t \in Thread : Merge(t)
<1> DEFINE Goal == \/ mgr' = mgr \/ Promotion \/ NewAlias \/ Reservation
                   \/ \E S : Removal(S)
                   \/ \E t \in Thread : Merge(t)
<1>1. ASSUME NEW t \in Thread, Step(t) PROVE Goal
  <2>1. CASE Rollback(t)
    BY <2>1, RollbackRemoves
  <2>2. CASE ~Rollback(t) /\ ~Merge(t)
    BY <1>1, <2>2, StepManager
  <2> QED BY <2>1, <2>2
<1>2. ASSUME NEW t \in Thread, NEW h \in Handle, Drop(t, h) PROVE Goal
  BY <1>2, DropRemoves
<1>3. ASSUME NEW t \in Thread,
             \/ \E r \in Request : Begin(t, r)
             \/ \E k \in Key : HandleOn(t, k)
             \/ \E h \in Handle : Clone(t, h)
      PROVE  mgr' = mgr
  BY <1>3 DEF Begin, HandleOn, Clone
<1>4. UNCHANGED vars => mgr' = mgr
  BY DEF vars
<1>5. Main \in Key
  BY DlopenAssumption
<1> HIDE DEF Goal
<1>6. ASSUME NEW t \in Thread, mgr' = mgr PROVE Goal
  BY <1>6 DEF Goal
<1>7. Goal
  BY <1>1, <1>2, <1>3, <1>4, <1>5, <1>6 DEF Next, This, Addr2dso, Goal
<1>8. QED
  BY <1>7 DEF Goal

(* Nothing that was committed goes, and what comes was reserved.           *)
PublishesReserved ==
  /\ \A k \in Key : Committed(mgr, k) => Committed(mgr', k)
  /\ \A k \in Key : Committed(mgr', k) /\ ~Committed(mgr, k)
                      => k \in mgr.pending

(* The commit publishes what this dlopen has reserved, nothing else.       *)
LEMMA MergePublishes ==
  ASSUME ReservationInv, ScopeOK(mgr), NEW t \in Thread, Merge(t)
  PROVE  ScopeOK(mgr') /\ PublishesReserved
<1>0. TypeInv /\ mgr \in Manager /\ req[t].flags \in SUBSET Flag
  BY RequestFlags DEF ReservationInv, TypeInv, TypeOK
<1> DEFINE S == AddedNames(t)
<1>1. S \in SUBSET Key /\ S \subseteq mgr.pending
  BY DEF AddedNames, ReservationInv, PendingOwned
<1> PICK new \in [S -> Module] :
       mgr' = MergeLinkContext(mgr, S, new, added[t], deps[t], req[t].flags)
  BY <1>0, MergeFacts
<1> HIDE DEF S
<1>2. ScopeOK(mgr')
  BY <1>0, <1>1, MergeScope
<1>3. mgr'.link_ctx = [k \in Key |-> IF k \in Uncommitted(mgr, S) THEN new[k]
                                     ELSE mgr.link_ctx[k]]
  BY DEF MergeLinkContext
<1>4. \A k \in Key : k \in Uncommitted(mgr, S) => k \in S /\ ~Committed(mgr, k)
  BY DEF Uncommitted
<1>5. \A k \in Key : k \notin Uncommitted(mgr, S) =>
                       mgr'.link_ctx[k] = mgr.link_ctx[k]
  BY <1>3
<1>6. QED
  BY <1>1, <1>2, <1>4, <1>5 DEF Committed, PublishesReserved

(* A step is a rollback, a drop, a commit or leaves link_ctx alone.        *)
LEMMA NextCases ==
  ASSUME OneFilePerName,
         ReservationInv, HandlesResident, ScopeOK(mgr), [Next]_vars
  PROVE  \/ \E S : Removal(S)
         \/ \E t \in Thread : Merge(t)
         \/ ScopeOK(mgr') /\ mgr'.link_ctx = mgr.link_ctx
<1> DEFINE Kept(m) == ScopeOK(m) /\ m.link_ctx = mgr.link_ctx
<1>0. mgr \in Manager
  BY DEF ReservationInv, TypeInv, TypeOK
<1>1. ASSUME NEW c \in Key, NEW a \in Key
      PROVE  AddAlias(mgr, c, a) \in Manager /\ Kept(AddAlias(mgr, c, a))
  BY <1>0, AddAliasesFacts, AddAliasesScope DEF AddAlias
<1>2. ASSUME NEW m \in Manager, Kept(m), NEW c \in Key, Committed(mgr, c),
             NEW fl \in SUBSET Flag
      PROVE  Kept(Promote(m, c, fl))
  <2>1. Committed(m, c)
    BY <1>2 DEF Committed
  <2> QED BY <1>2, <2>1, PromoteScope, PromoteFacts
<1>3. ASSUME NEW k \in Key, NEW i \in Inode, NEW fl \in SUBSET Flag
      PROVE  Kept(ReservePending(mgr, k, i, fl))
  BY <1>0, ReservePendingScope, ReservePendingFacts
<1>4. Kept(mgr)
  OBVIOUS
<1> HIDE DEF Kept
<1>5. CASE Promotion
  BY <1>0, <1>1, <1>2, <1>4, <1>5 DEF Promotion, Kept
<1>6. CASE NewAlias
  BY <1>1, <1>6 DEF NewAlias, Kept
<1>7. CASE Reservation
  <2> PICK k \in Key, i \in Inode, fl \in SUBSET Flag :
         mgr' = ReservePending(mgr, k, i, fl)
    BY <1>7 DEF Reservation
  <2> QED BY <1>3 DEF Kept
<1>8. QED
  BY <1>4, <1>5, <1>6, <1>7, ManagerSteps DEF Kept

(* Every step keeps the global scope in step with the flags, and remove is *)
(* asked only for what is there.                                           *)
LEMMA NextScope ==
  ASSUME OneFilePerName
  PROVE  ReservationInv /\ HandlesResident /\ ScopeOK(mgr) /\ [Next]_vars
           => ScopeOK(mgr')
<1> SUFFICES ASSUME ReservationInv, HandlesResident, ScopeOK(mgr), [Next]_vars
             PROVE  ScopeOK(mgr')
  OBVIOUS
<1>1. ASSUME NEW S, Removal(S) PROVE ScopeOK(mgr')
  <2>1. mgr \in Manager /\ \A k \in mgr.pending : ~Committed(mgr, k)
    BY DEF ReservationInv, TypeInv, TypeOK
  <2>2. S \in SUBSET Key /\ \A k \in S : Registered(mgr, k)
    BY <1>1 DEF Removal, DropOf, Registered
  <2>3. mgr' = RemoveAll(mgr, S)
    BY <1>1 DEF Removal
  <2> QED BY <2>1, <2>2, <2>3, RemoveScope
<1>2. ASSUME NEW t \in Thread, Merge(t) PROVE ScopeOK(mgr')
  BY <1>2, MergePublishes
<1>3. QED
  BY <1>1, <1>2, NextCases

(* After init every host library is global and has the flag.               *)
LEMMA InitScope == Init => ScopeOK(mgr)
<1> SUFFICES ASSUME Init PROVE ScopeOK(mgr)
  OBVIOUS
<1>1. /\ mgr.global = Host
      /\ mgr.failed = {}
      /\ mgr.flags = [k \in Key |-> IF k \in Host
                                    THEN {"GLOBAL", "NODELETE"} ELSE {}]
      /\ mgr.link_ctx = [k \in Key |-> IF k \in Host THEN HostModule[k]
                                       ELSE NoModule]
  BY DEF Init, HostRegistry
<1>2. \A k \in Key : Committed(mgr, k) <=> k \in Host
  BY <1>1, DlopenAssumption, RegistryAssumption DEF Committed
<1>3. QED
  BY <1>1, <1>2, DlopenAssumption DEF ScopeOK

(* The global scope is the committed libraries with RTLD_GLOBAL, and the   *)
(* checks of Manager::remove never fail, for any number of threads and     *)
(* libraries: promotion, commit, rollback and unloading keep the flags and *)
(* the scope in step.  Assumed, as for the reservations: no two files      *)
(* share a shortname, and no open handle loses a library beneath it.       *)
THEOREM GlobalScopeSafe ==
  ASSUME OneFilePerName
  PROVE  Spec /\ []HandlesResident => [](GlobalScope /\ RemoveConsistent)
<1> DEFINE IInv == ReservationInv /\ ScopeOK(mgr)
<1>1. Init => IInv
  BY InitReservation, InitScope
<1>2. IInv /\ HandlesResident /\ [Next]_vars => IInv'
  <2>1. ScopeOK(mgr)' <=> ScopeOK(mgr')
    BY DEF ScopeOK, Committed
  <2> QED BY <2>1, NextReservation, NextScope
<1>3. IInv => GlobalScope /\ RemoveConsistent
  BY DEF ScopeOK, Bad, GlobalScope, RemoveConsistent
<1> HIDE DEF IInv
<1>4. QED
  BY <1>1, <1>2, <1>3, PTL DEF Spec

(* Manager::remove, called by a rollback or a drop, always finds what it   *)
(* is told to remove, and finds the global scope as the flags say.         *)
THEOREM RemoveNeverFails ==
  ASSUME OneFilePerName
  PROVE  Spec /\ []HandlesResident => []RemoveConsistent
<1>1. QED
  BY GlobalScopeSafe, PTL

-----------------------------------------------------------------------------
(* The version numbers of the listing.                                     *)

(* A drop that unloads something changes dlpi_subs, unless the counter     *)
(* goes once around.                                                       *)
LEMMA RemoveCounted ==
  ASSUME NEW m \in Manager, NEW S \in SUBSET Key, S # {},
         \A k \in S : Registered(m, k), Cardinality(Key) < CounterMod
  PROVE  RemoveAll(m, S).subs # m.subs
<1> DEFINE P == S \cap m.pending
           C == {k \in S \ P : Committed(m, k)}
           n == Cardinality(S)
<1>1. P \cup C = S
  BY DEF Registered
<1>2. RemoveAll(m, S).subs = Count(m.subs + Cardinality(P \cup C))
  BY DEF RemoveAll
<1>3. IsFiniteSet(S) /\ n \in Nat /\ n <= Cardinality(Key) /\ n # 0
  BY RegistryAssumption, FS_Subset, FS_CardinalityType, FS_EmptySet
<1>4. Cardinality(Key) \in Nat /\ CounterMod \in Nat \ {0}
  BY RegistryAssumption, FS_CardinalityType
<1>5. m.subs \in 0 .. CounterMod - 1
  BY DEF Manager
<1> HIDE DEF n, P, C
<1>6. (m.subs + n) % CounterMod # m.subs
  <2>1. ASSUME NEW M \in Nat \ {0}, NEW a \in 0 .. M - 1, NEW d \in 1 .. M - 1
        PROVE  (a + d) % M # a
    <3>1. CASE a + d < M
      <4>1. (a + d) % M = a + d
        BY <2>1, <3>1
      <4> QED BY <2>1, <4>1
    <3>2. CASE a + d >= M
      <4>1. (a + d) % M = a + d - M
        BY <2>1, <3>2
      <4> QED BY <2>1, <4>1
    <3> QED BY <2>1, <3>1, <3>2
  <2>2. n \in 1 .. CounterMod - 1
    BY <1>3, <1>4
  <2> QED BY <1>4, <1>5, <2>1, <2>2
<1>7. QED
  BY <1>1, <1>2, <1>6 DEF Count, n

(* A step that leaves both counters alone unloads nothing and publishes    *)
(* only what was reserved.                                                 *)
LEMMA StepVersioned ==
  ASSUME OneFilePerName,
         ReservationInv, HandlesResident, ScopeOK(mgr), [Next]_vars,
         Cardinality(Key) < CounterMod, mgr'.subs = mgr.subs
  PROVE  PublishesReserved
<1>1. ASSUME NEW S, Removal(S) PROVE mgr'.link_ctx = mgr.link_ctx
  <2>1. mgr \in Manager /\ \A k \in mgr.pending : ~Committed(mgr, k)
    BY DEF ReservationInv, TypeInv, TypeOK
  <2>2. S \in SUBSET Key /\ \A k \in S : Registered(mgr, k)
    BY <1>1 DEF Removal, DropOf, Registered
  <2>3. mgr' = RemoveAll(mgr, S)
    BY <1>1 DEF Removal
  <2>4. S = {}
    BY <2>1, <2>2, <2>3, RemoveCounted
  <2>5. mgr'.link_ctx = [k \in Key |-> mgr.link_ctx[k]]
    BY <2>3, <2>4 DEF RemoveAll
  <2> QED BY <2>1, <2>5 DEF Manager
<1>2. ASSUME NEW t \in Thread, Merge(t) PROVE PublishesReserved
  BY <1>2, MergePublishes
<1>3. QED
  BY <1>1, <1>2, NextCases DEF Committed, PublishesReserved

(* The promise of dlpi_adds and dlpi_subs, for any number of threads and   *)
(* libraries that the counters can count: while neither changes, nothing   *)
(* that dl_iterate_phdr listed is unloaded, and what comes to be listed    *)
(* was reserved, and counted, before.                                      *)
THEOREM ListingVersioned ==
  ASSUME OneFilePerName, Cardinality(Key) < CounterMod
  PROVE  Spec /\ []HandlesResident => VersionedListing
<1> DEFINE IInv == ReservationInv /\ ScopeOK(mgr)
<1>1. Init => IInv
  BY InitReservation, InitScope
<1>2. IInv /\ HandlesResident /\ [Next]_vars => IInv'
  <2>1. ScopeOK(mgr)' <=> ScopeOK(mgr')
    BY DEF ScopeOK, Committed
  <2> QED BY <2>1, NextReservation, NextScope
<1>3. IInv /\ HandlesResident /\ [Next]_vars =>
        [LET committed(m) == {k \in Key : Committed(m, k)}
         IN  mgr'.adds = mgr.adds /\ mgr'.subs = mgr.subs =>
               /\ committed(mgr) \subseteq committed(mgr')
               /\ committed(mgr') \ committed(mgr) \subseteq mgr.pending]_vars
  BY StepVersioned DEF PublishesReserved
<1> HIDE DEF IInv
<1>4. QED
  BY <1>1, <1>2, <1>3, PTL DEF Spec, VersionedListing

-----------------------------------------------------------------------------
(* Aliases and identities.                                                 *)

(* An alias leads to a reservation that lists it among its names, or to a  *)
(* committed library that does: the list that remove will go through.      *)
AliasOK(m, a) ==
  LET c == m.aliases[a]
  IN  \/ c = NoKey
      \/ c \in m.pending /\ a \in m.pnames[c]
      \/ c \notin m.pending /\ Committed(m, c) /\ a \in m.libnames[c]

NamesOK(m) ==
  /\ \A a \in Key : AliasOK(m, a)
  /\ \A i \in Inode : m.identities[i] # NoKey => Registered(m, m.identities[i])

(* A promotion leaves the names alone.                                     *)
LEMMA PromoteNames ==
  ASSUME NEW m \in Manager, NEW k \in Key, NEW fl \in SUBSET Flag, NamesOK(m)
  PROVE  NamesOK(Promote(m, k, fl))
<1> DEFINE n == Promote(m, k, fl)
<1>1. /\ n.aliases = m.aliases /\ n.identities = m.identities
      /\ n.pending = m.pending /\ n.link_ctx = m.link_ctx
      /\ n.pnames = m.pnames /\ n.libnames = m.libnames
  BY DEF Promote, Manager
<1> HIDE DEF n
<1>2. NamesOK(n)
  BY <1>1 DEF NamesOK, AliasOK, Registered, Committed
<1>3. QED
  BY <1>2 DEF n

(* add_alias lists the alias where it enters it.                           *)
LEMMA AddAliasesNames ==
  ASSUME NEW m \in Manager, NEW c \in Key, NEW S \in SUBSET Key,
         Registered(m, c), NamesOK(m)
  PROVE  NamesOK(AddAliases(m, c, S))
<1> DEFINE n == AddAliases(m, c, S)
           new == {a \in S : ~Registered(m, a) /\ m.aliases[a] = NoKey}
<1>1. /\ n.aliases = [a \in Key |-> IF a \in new THEN c ELSE m.aliases[a]]
      /\ n.pnames = [k \in Key |-> IF k = c /\ k \in m.pending
                                   THEN m.pnames[k] \cup new ELSE m.pnames[k]]
      /\ n.libnames = [k \in Key |-> IF k = c /\ k \notin m.pending
                                     THEN m.libnames[k] \cup new
                                     ELSE m.libnames[k]]
      /\ n.identities = m.identities
      /\ n.pending = m.pending /\ n.link_ctx = m.link_ctx
  BY DEF AddAliases, Manager
<1> HIDE DEF n, new
<1>2. \A k : Registered(n, k) <=> Registered(m, k)
  BY <1>1 DEF Registered, Committed
<1>3. ASSUME NEW a \in Key PROVE AliasOK(n, a)
  <2>1. CASE a \in new
    BY <1>1, <2>1 DEF AliasOK, Registered, Committed
  <2>2. CASE a \notin new
    <3>1. n.aliases[a] = m.aliases[a]
      BY <1>1, <2>2
    <3>2. m.aliases[a] \in Key \cup {NoKey}
      BY DEF Manager
    <3>3. \A k \in Key : /\ m.pnames[k] \subseteq n.pnames[k]
                         /\ m.libnames[k] \subseteq n.libnames[k]
      BY <1>1
    <3> QED BY <1>1, <3>1, <3>2, <3>3 DEF NamesOK, AliasOK, Committed
  <2> QED BY <2>1, <2>2
<1>4. NamesOK(n)
  BY <1>1, <1>2, <1>3 DEF NamesOK
<1>5. QED
  BY <1>4 DEF n

(* A reservation starts without aliases: nothing leads to a name that is   *)
(* not registered.                                                         *)
LEMMA ReservePendingNames ==
  ASSUME NEW m \in Manager, NEW k \in Key, NEW i \in Inode,
         NEW fl \in SUBSET Flag, ~Registered(m, k), NamesOK(m)
  PROVE  NamesOK(ReservePending(m, k, i, fl))
<1> DEFINE pf == [m.pflags EXCEPT ![k] = NormalizedFlags(k, fl)]
           pn == [m.pnames EXCEPT ![k] = {}]
           ids == [m.identities EXCEPT ![i] = k]
           ad == Count(m.adds + 1)
           r == [m EXCEPT !.pending = m.pending \cup {k}, !.pflags = pf,
                          !.pnames = pn, !.identities = ids, !.adds = ad]
<1>1. ReservePending(m, k, i, fl) = AddAliases(r, k, Compat[k])
  BY DEF ReservePending, Manager
<1>2. /\ pf \in [Key -> SUBSET Flag]
      /\ pn \in [Key -> SUBSET Key]
      /\ ids \in [Inode -> Key \cup {NoKey}]
  BY DEF Manager, NormalizedFlags, Flag
<1>3. ad \in 0 .. CounterMod - 1
  BY RegistryAssumption DEF Count, Manager
<1>4. /\ \A j \in Key \ {k} : pn[j] = m.pnames[j]
      /\ \A j \in Inode : ids[j] = IF j = i THEN k ELSE m.identities[j]
  BY DEF Manager
<1> HIDE DEF pf, pn, ids, ad
<1>5. /\ r \in Manager
      /\ r.pending = m.pending \cup {k}
      /\ r.pnames = pn /\ r.libnames = m.libnames
      /\ r.link_ctx = m.link_ctx
      /\ r.identities = ids
      /\ r.aliases = m.aliases
  BY <1>2, <1>3 DEF Manager
<1> HIDE DEF r
<1>6. ASSUME NEW a \in Key PROVE AliasOK(r, a)
  <2>1. m.aliases[a] # k /\ m.aliases[a] \in Key \cup {NoKey}
    BY RegistryAssumption DEF NamesOK, AliasOK, Registered, Manager
  <2> QED BY <1>4, <1>5, <2>1 DEF NamesOK, AliasOK, Committed
<1>7. NamesOK(r) /\ Registered(r, k)
  BY <1>4, <1>5, <1>6 DEF NamesOK, Registered, Committed
<1>8. Compat[k] \in SUBSET Key
  BY RegistryAssumption
<1>9. QED
  BY <1>1, <1>5, <1>7, <1>8, AddAliasesNames

(* remove takes the aliases and the identities away with the library.      *)
LEMMA RemoveNames ==
  ASSUME NEW m \in Manager, NEW S \in SUBSET Key, NamesOK(m)
  PROVE  NamesOK(RemoveAll(m, S))
<1> DEFINE P == S \cap m.pending
           C == {k \in S \ P : Committed(m, k)}
           names == UNION ({m.pnames[k] : k \in P}
                             \cup {m.libnames[k] : k \in C})
           n == RemoveAll(m, S)
<1>1. /\ n.pending = m.pending \ P
      /\ n.pnames = [k \in Key |-> IF k \in P THEN {} ELSE m.pnames[k]]
      /\ n.link_ctx = [k \in Key |-> IF k \in C THEN NoModule
                                     ELSE m.link_ctx[k]]
      /\ n.libnames = [k \in Key |-> IF k \in C THEN {} ELSE m.libnames[k]]
      /\ n.aliases = [a \in Key |-> IF a \in names THEN NoKey
                                    ELSE m.aliases[a]]
      /\ n.identities = [i \in Inode |-> IF m.identities[i] \in P \cup C
                                         THEN NoKey ELSE m.identities[i]]
  BY DEF RemoveAll
<1>2. /\ \A k \in P : m.pnames[k] \subseteq names
      /\ \A k \in C : m.libnames[k] \subseteq names
  OBVIOUS
<1>3. \A k \in Key : k \in P => k \in m.pending
  OBVIOUS
<1>4. \A k \in Key : k \in C => k \notin m.pending
  OBVIOUS
<1>5. \A k \in Key : /\ k \in m.pending /\ k \notin P => k \notin S
                     /\ Committed(m, k) /\ k \notin P \cup C => k \notin S
  OBVIOUS
<1> HIDE DEF n, P, C, names
<1>6. ASSUME NEW k \in Key, k \notin P \cup C
      PROVE  /\ k \in n.pending <=> k \in m.pending
             /\ Committed(n, k) <=> Committed(m, k)
             /\ n.pnames[k] = m.pnames[k] /\ n.libnames[k] = m.libnames[k]
  BY <1>1, <1>6 DEF Committed
<1>7. ASSUME NEW a \in Key PROVE AliasOK(n, a)
  <2> DEFINE c == m.aliases[a]
  <2>1. c \in Key \cup {NoKey}
    BY DEF Manager
  <2>2. CASE a \in names \/ c = NoKey
    BY <1>1, <2>2 DEF AliasOK
  <2>3. CASE a \notin names /\ c # NoKey
    <3>1. c \in Key /\ n.aliases[a] = c
      BY <1>1, <2>1, <2>3
    <3>2. \/ c \in m.pending /\ a \in m.pnames[c]
          \/ c \notin m.pending /\ Committed(m, c) /\ a \in m.libnames[c]
      BY <3>1, RegistryAssumption DEF NamesOK, AliasOK
    <3>3. c \notin P \cup C
      BY <1>2, <1>3, <1>4, <2>3, <3>1, <3>2
    <3> QED BY <1>6, <3>1, <3>2, <3>3 DEF AliasOK
  <2> QED BY <2>2, <2>3
<1>8. ASSUME NEW i \in Inode, n.identities[i] # NoKey
      PROVE  Registered(n, n.identities[i])
  <2>1. /\ n.identities[i] = m.identities[i]
        /\ m.identities[i] \in Key
        /\ m.identities[i] \notin P \cup C
    BY <1>1, <1>8 DEF Manager
  <2> QED BY <1>6, <2>1, RegistryAssumption DEF NamesOK, Registered
<1>9. NamesOK(n)
  BY <1>7, <1>8 DEF NamesOK
<1>10. QED
  BY <1>9 DEF n

(* merge_link_context hands the names of a reservation on to the library   *)
(* it becomes, and lists the compat aliases it adds.                       *)
LEMMA MergeNames ==
  ASSUME NEW m \in Manager, NEW S \in SUBSET Key, S \subseteq m.pending,
         NEW module \in [S -> Module], NEW file, NEW deps_, NEW fl, NamesOK(m)
  PROVE  NamesOK(MergeLinkContext(m, S, module, file, deps_, fl))
<1> DEFINE T == Uncommitted(m, S)
           n == MergeLinkContext(m, S, module, file, deps_, fl)
           lc == [k \in Key |-> IF k \in T THEN module[k] ELSE m.link_ctx[k]]
           free(k) == {a \in Compat[k] : /\ a \notin m.pending
                                         /\ lc[a] = NoModule
                                         /\ m.aliases[a] = NoKey}
<1>1. /\ n.pending = m.pending \ T
      /\ n.link_ctx = lc
      /\ n.libnames = [k \in Key |-> IF k \in T THEN m.pnames[k] \cup free(k)
                                     ELSE m.libnames[k]]
      /\ n.pnames = [k \in Key |-> IF k \in T THEN {} ELSE m.pnames[k]]
      /\ n.aliases = [a \in Key |-> IF \E k \in T : a \in free(k)
                                    THEN CHOOSE k \in T : a \in free(k)
                                    ELSE m.aliases[a]]
      /\ n.identities = [i \in Inode |-> IF \E k \in T : file[k] = i
                                         THEN CHOOSE k \in T : file[k] = i
                                         ELSE m.identities[i]]
  BY DEF MergeLinkContext
<1>2. T \subseteq Key /\ T \subseteq m.pending /\ T \subseteq S
  BY DEF Uncommitted
<1> HIDE DEF n, T, free
<1>3. ASSUME NEW k \in T
      PROVE  k \notin n.pending /\ Committed(n, k) /\ k \in Key
             /\ n.libnames[k] = m.pnames[k] \cup free(k)
  <2>1. module[k] \in Module /\ n.link_ctx[k] = module[k]
    BY <1>1, <1>2
  <2> QED BY <1>1, <1>2, <2>1, RegistryAssumption DEF Committed
<1>4. ASSUME NEW k \in Key, k \notin T
      PROVE  /\ k \in n.pending <=> k \in m.pending
             /\ Committed(n, k) <=> Committed(m, k)
             /\ n.pnames[k] = m.pnames[k] /\ n.libnames[k] = m.libnames[k]
  BY <1>1, <1>4 DEF Committed
<1>5. ASSUME NEW a \in Key PROVE AliasOK(n, a)
  <2>1. CASE \E k \in T : a \in free(k)
    <3>1. n.aliases[a] \in T /\ a \in free(n.aliases[a])
      BY <1>1, <2>1
    <3> QED BY <1>3, <3>1 DEF AliasOK
  <2>2. CASE ~\E k \in T : a \in free(k)
    <3> DEFINE c == m.aliases[a]
    <3>1. n.aliases[a] = c /\ c \in Key \cup {NoKey}
      BY <1>1, <2>2 DEF Manager
    <3>2. CASE c = NoKey
      BY <3>1, <3>2 DEF AliasOK
    <3>3. CASE c # NoKey
      <4>1. \/ c \in m.pending /\ a \in m.pnames[c]
            \/ c \notin m.pending /\ Committed(m, c) /\ a \in m.libnames[c]
        BY <3>3 DEF NamesOK, AliasOK
      <4>2. CASE c \in T
        BY <1>2, <1>3, <3>1, <4>1, <4>2 DEF AliasOK
      <4>3. CASE c \notin T
        BY <1>4, <3>1, <3>3, <4>1, <4>3 DEF AliasOK
      <4> QED BY <4>2, <4>3
    <3> QED BY <3>2, <3>3
  <2> QED BY <2>1, <2>2
<1>6. \A k \in Key : Registered(m, k) => Registered(n, k)
  BY <1>3, <1>4 DEF Registered
<1>7. ASSUME NEW i \in Inode, n.identities[i] # NoKey
      PROVE  Registered(n, n.identities[i])
  <2>1. CASE \E k \in T : file[k] = i
    <3>1. n.identities[i] \in T
      BY <1>1, <2>1
    <3> QED BY <1>3, <3>1 DEF Registered
  <2>2. CASE ~\E k \in T : file[k] = i
    <3>1. n.identities[i] = m.identities[i] /\ m.identities[i] \in Key
      BY <1>1, <1>7, <2>2 DEF Manager
    <3> QED BY <1>6, <1>7, <3>1 DEF NamesOK
  <2> QED BY <2>1, <2>2
<1>8. NamesOK(n)
  BY <1>5, <1>7 DEF NamesOK
<1>9. QED
  BY <1>8 DEF n

(* init enters the compat aliases of the host libraries with their lists.  *)
LEMMA InitNames == Init => NamesOK(mgr)
<1> SUFFICES ASSUME Init PROVE NamesOK(mgr)
  OBVIOUS
<1> DEFINE owner(a) == {k \in Host : a \in Compat[k] /\ a \notin Host}
<1>1. /\ mgr.pending = {}
      /\ mgr.link_ctx = [k \in Key |-> IF k \in Host THEN HostModule[k]
                                       ELSE NoModule]
      /\ mgr.libnames = [k \in Key |-> {a \in Key : k \in owner(a)}]
      /\ mgr.aliases = [a \in Key |-> IF owner(a) # {}
                                      THEN CHOOSE k \in owner(a) : TRUE
                                      ELSE NoKey]
      /\ mgr.identities = [i \in Inode |-> NoKey]
  BY DEF Init, HostRegistry
<1>2. \A k \in Host : k \in Key /\ Committed(mgr, k)
  BY <1>1, DlopenAssumption, RegistryAssumption DEF Committed
<1>3. \A a : owner(a) \subseteq Host
  OBVIOUS
<1> HIDE DEF owner
<1>4. ASSUME NEW a \in Key PROVE AliasOK(mgr, a)
  <2>1. CASE owner(a) = {}
    BY <1>1, <2>1 DEF AliasOK
  <2>2. CASE owner(a) # {}
    <3>1. mgr.aliases[a] \in owner(a)
      BY <1>1, <2>2
    <3> QED BY <1>1, <1>2, <1>3, <3>1 DEF AliasOK
  <2> QED BY <2>1, <2>2
<1>5. QED
  BY <1>1, <1>4 DEF NamesOK

-----------------------------------------------------------------------------
(* The counters.                                                           *)

RegisteredIn(m) == {k \in Key : Registered(m, k)}

Balanced(m) == m.adds = Count(m.subs + Cardinality(RegisteredIn(m)))

(* Division with remainder.                                                *)
LEMMA DivMod ==
  ASSUME NEW M \in Int, M > 0, NEW a \in Int
  PROVE  a = M * (a \div M) + (a % M)
OBVIOUS

(* The remainder is unique.                                                *)
LEMMA Remainder ==
  ASSUME NEW M \in Int, M > 0, NEW q \in Int, NEW r \in Int, 0 <= r, r < M
  PROVE  (M * q + r) % M = r
OBVIOUS

(* Counting on from a counter that has wrapped.                            *)
LEMMA CountOn ==
  ASSUME NEW n \in Nat, NEW d \in Nat
  PROVE  Count(Count(n) + d) = Count(n + d)
<1> DEFINE M == CounterMod
           x == (n % M) + d
           p == n \div M
           s == n % M
           q == x \div M
           r == x % M
<1>0. M \in Int /\ M > 0
  BY RegistryAssumption
<1> HIDE DEF M
<1>1. p \in Int /\ s \in Int /\ n = M * p + s
  BY <1>0, DivMod
<1>2. x \in Int
  BY <1>0
<1>3. q \in Int /\ r \in Int /\ 0 <= r /\ r < M /\ x = M * q + r
  BY <1>0, <1>2, DivMod
<1>4. x = s + d
  OBVIOUS
<1> HIDE DEF x, p, s, q, r
<1>5. n + d = M * (p + q) + r /\ p + q \in Int
  BY <1>0, <1>1, <1>3, <1>4
<1>6. (n + d) % M = r
  BY <1>0, <1>3, <1>5, Remainder
<1>7. QED
  BY <1>6 DEF Count, M, x, r

(* A set of names is finite.                                               *)
LEMMA KeysFinite ==
  ASSUME NEW S \in SUBSET Key
  PROVE  IsFiniteSet(S) /\ Cardinality(S) \in Nat
BY RegistryAssumption, FS_Subset, FS_CardinalityType

(* Nothing is registered or removed, and nothing is counted.               *)
LEMMA SameBalance ==
  ASSUME NEW m, NEW n, Balanced(m), n.adds = m.adds, n.subs = m.subs,
         RegisteredIn(n) = RegisteredIn(m)
  PROVE  Balanced(n)
BY DEF Balanced

(* A reservation registers one more library and counts it.                 *)
LEMMA ReservePendingBalance ==
  ASSUME NEW m \in Manager, NEW k \in Key, NEW i \in Inode,
         NEW fl \in SUBSET Flag, ~Registered(m, k), Balanced(m)
  PROVE  Balanced(ReservePending(m, k, i, fl))
<1> DEFINE n == ReservePending(m, k, i, fl)
           R == RegisteredIn(m)
           c == Cardinality(R)
<1>1. n.adds = Count(m.adds + 1) /\ n.subs = m.subs
  BY DEF ReservePending, AddAliases, Manager
<1>2. n.pending = m.pending \cup {k} /\ n.link_ctx = m.link_ctx
  BY ReservePendingFacts
<1> HIDE DEF n
<1>3. RegisteredIn(n) = R \cup {k} /\ k \notin R
  BY <1>2 DEF RegisteredIn, Registered, Committed
<1>4. IsFiniteSet(R) /\ c \in Nat
  BY KeysFinite DEF RegisteredIn
<1>5. Cardinality(R \cup {k}) = c + 1
  BY <1>3, <1>4, FS_AddElement
<1>6. m.adds = Count(m.subs + c) /\ m.subs \in Nat
  BY RegistryAssumption DEF Balanced, Manager
<1> HIDE DEF c, R
<1>7. Count(Count(m.subs + c) + 1) = Count(m.subs + (c + 1))
  <2>1. m.subs + c \in Nat /\ (m.subs + c) + 1 = m.subs + (c + 1)
    BY <1>4, <1>6
  <2> QED BY <2>1, CountOn
<1>8. Balanced(n)
  BY <1>1, <1>3, <1>5, <1>6, <1>7 DEF Balanced
<1>9. QED
  BY <1>8 DEF n

(* remove counts what it removes.                                          *)
LEMMA RemoveBalance ==
  ASSUME NEW m \in Manager, NEW S \in SUBSET Key, Balanced(m),
         \A k \in S : Registered(m, k), \A k \in m.pending : ~Committed(m, k)
  PROVE  Balanced(RemoveAll(m, S))
<1> DEFINE P == S \cap m.pending
           C == {k \in S \ P : Committed(m, k)}
           n == RemoveAll(m, S)
           R == RegisteredIn(m)
           c == Cardinality(R \ S)
           d == Cardinality(S)
<1>1. P \cup C = S
  BY DEF Registered
<1>2. n.subs = Count(m.subs + Cardinality(P \cup C)) /\ n.adds = m.adds
  BY DEF RemoveAll
<1>3. /\ n.pending = m.pending \ S
      /\ \A k \in Key : n.link_ctx[k] = IF k \in S \ m.pending THEN NoModule
                                        ELSE m.link_ctx[k]
  BY RemoveAllFacts
<1> HIDE DEF n, P, C
<1>4. RegisteredIn(n) = R \ S
  BY <1>3 DEF RegisteredIn, Registered, Committed
<1>5. S \subseteq R /\ R \in SUBSET Key
  BY DEF RegisteredIn
<1> HIDE DEF R
<1>6. /\ IsFiniteSet(R \ S) /\ IsFiniteSet(S)
      /\ c \in Nat /\ d \in Nat
  BY <1>5, KeysFinite
<1>7. Cardinality(R) = d + c
  <2>1. (R \ S) \cup S = R /\ (R \ S) \cap S = {}
    BY <1>5
  <2>2. Cardinality((R \ S) \cup S)
          = Cardinality(R \ S) + Cardinality(S) - Cardinality((R \ S) \cap S)
    BY <1>6, FS_Union
  <2>3. Cardinality((R \ S) \cap S) = 0
    BY <2>1, FS_EmptySet, Zenon
  <2>4. Cardinality((R \ S) \cup S) = Cardinality(R)
    BY <2>1, Zenon
  <2> QED BY <1>6, <2>2, <2>3, <2>4
<1>8. m.adds = Count(m.subs + (d + c)) /\ m.subs \in Nat
  BY <1>7, RegistryAssumption DEF Balanced, Manager, R
<1> HIDE DEF c, d
<1>9. Count(Count(m.subs + d) + c) = Count(m.subs + (d + c))
  <2>1. m.subs + d \in Nat /\ (m.subs + d) + c = m.subs + (d + c)
    BY <1>6, <1>8
  <2> QED BY <1>6, <2>1, CountOn
<1>10. Balanced(n)
  BY <1>1, <1>2, <1>4, <1>8, <1>9 DEF Balanced, c, d
<1>11. QED
  BY <1>10 DEF n

(* The commit of reserved libraries registers nothing new.                 *)
LEMMA MergeBalance ==
  ASSUME NEW m \in Manager, NEW S \in SUBSET Key, S \subseteq m.pending,
         NEW module \in [S -> Module], NEW file, NEW deps_, NEW fl, Balanced(m)
  PROVE  Balanced(MergeLinkContext(m, S, module, file, deps_, fl))
<1> DEFINE T == Uncommitted(m, S)
           n == MergeLinkContext(m, S, module, file, deps_, fl)
<1>1. /\ n.adds = Count(m.adds + Cardinality(T \ m.pending))
      /\ n.subs = m.subs
      /\ n.pending = m.pending \ T
      /\ n.link_ctx = [k \in Key |-> IF k \in T THEN module[k]
                                     ELSE m.link_ctx[k]]
  BY DEF MergeLinkContext
<1>2. T \subseteq Key /\ T \subseteq m.pending /\ T \subseteq S
  BY DEF Uncommitted
<1> HIDE DEF n, T
<1>3. T \ m.pending = {}
  BY <1>2
<1>4. n.adds = m.adds
  <2>1. m.adds \in 0 .. CounterMod - 1 /\ CounterMod \in Nat \ {0}
    BY RegistryAssumption DEF Manager
  <2>2. m.adds % CounterMod = m.adds
    BY <2>1
  <2>3. m.adds + 0 = m.adds
    BY <2>1
  <2> QED BY <1>1, <1>3, <2>2, <2>3, FS_EmptySet DEF Count
<1>5. ASSUME NEW k \in Key PROVE Registered(n, k) <=> Registered(m, k)
  <2>1. CASE k \in T
    <3>1. n.link_ctx[k] = module[k] /\ module[k] \in Module
      BY <1>1, <1>2, <2>1
    <3> QED BY <1>2, <2>1, <3>1, RegistryAssumption DEF Registered, Committed
  <2>2. CASE k \notin T
    BY <1>1, <2>2 DEF Registered, Committed
  <2> QED BY <2>1, <2>2
<1>6. RegisteredIn(n) = RegisteredIn(m)
  BY <1>5 DEF RegisteredIn
<1>7. Balanced(n)
  BY <1>1, <1>4, <1>6, SameBalance
<1>8. QED
  BY <1>7 DEF n

(* Promotions and aliases register and count nothing.                      *)
LEMMA QuietBalance ==
  ASSUME NEW m \in Manager, NEW c \in Key, Balanced(m)
  PROVE  /\ \A S \in SUBSET Key : Balanced(AddAliases(m, c, S))
         /\ \A fl \in SUBSET Flag : Balanced(Promote(m, c, fl))
<1>1. ASSUME NEW n, n.adds = m.adds, n.subs = m.subs, n.pending = m.pending,
             n.link_ctx = m.link_ctx
      PROVE  Balanced(n)
  <2>1. RegisteredIn(n) = RegisteredIn(m)
    BY <1>1 DEF RegisteredIn, Registered, Committed
  <2> QED BY <1>1, <2>1, SameBalance
<1>2. ASSUME NEW S \in SUBSET Key PROVE Balanced(AddAliases(m, c, S))
  <2> DEFINE n == AddAliases(m, c, S)
  <2>1. n.adds = m.adds /\ n.subs = m.subs
    BY DEF AddAliases, Manager
  <2>2. n.pending = m.pending /\ n.link_ctx = m.link_ctx
    BY AddAliasesFacts
  <2> HIDE DEF n
  <2>3. Balanced(n)
    BY <1>1, <2>1, <2>2
  <2> QED BY <2>3 DEF n
<1>3. ASSUME NEW fl \in SUBSET Flag PROVE Balanced(Promote(m, c, fl))
  <2> DEFINE n == Promote(m, c, fl)
  <2>1. n.adds = m.adds /\ n.subs = m.subs
    BY DEF Promote, Manager
  <2>2. n.pending = m.pending /\ n.link_ctx = m.link_ctx
    BY PromoteFacts
  <2> HIDE DEF n
  <2>3. Balanced(n)
    BY <1>1, <2>1, <2>2
  <2> QED BY <2>3 DEF n
<1>4. QED
  BY <1>2, <1>3

(* init counts the host libraries.                                         *)
LEMMA InitBalance == Init => Balanced(mgr)
<1> SUFFICES ASSUME Init PROVE Balanced(mgr)
  OBVIOUS
<1>1. /\ mgr.pending = {} /\ mgr.subs = 0
      /\ mgr.adds = Count(Cardinality(Host))
      /\ mgr.link_ctx = [k \in Key |-> IF k \in Host THEN HostModule[k]
                                       ELSE NoModule]
  BY DEF Init, HostRegistry
<1>2. RegisteredIn(mgr) = Host
  BY <1>1, DlopenAssumption, RegistryAssumption
     DEF RegisteredIn, Registered, Committed
<1>3. Cardinality(Host) \in Nat
  BY KeysFinite, DlopenAssumption
<1>4. 0 + Cardinality(Host) = Cardinality(Host)
  BY <1>3
<1>5. QED
  BY <1>1, <1>2, <1>4 DEF Balanced

-----------------------------------------------------------------------------
(* Every step keeps both.                                                  *)
LEMMA NextNames ==
  ASSUME OneFilePerName,
         ReservationInv, HandlesResident, [Next]_vars, NamesOK(mgr),
         Balanced(mgr)
  PROVE  NamesOK(mgr') /\ Balanced(mgr')
<1> DEFINE Good(m) == NamesOK(m) /\ Balanced(m)
<1>0. mgr \in Manager /\ \A k \in mgr.pending : ~Committed(mgr, k)
  BY DEF ReservationInv, TypeInv, TypeOK
<1>1. ASSUME NEW c \in Key, NEW a \in Key, Registered(mgr, c)
      PROVE  AddAlias(mgr, c, a) \in Manager /\ Good(AddAlias(mgr, c, a))
  <2>1. {a} \in SUBSET Key
    OBVIOUS
  <2> QED BY <1>0, <1>1, <2>1, AddAliasesFacts, AddAliasesNames, QuietBalance
          DEF AddAlias
<1>2. ASSUME NEW m \in Manager, Good(m), NEW c \in Key, NEW fl \in SUBSET Flag
      PROVE  Good(Promote(m, c, fl))
  BY <1>2, PromoteNames, QuietBalance
<1>3. ASSUME NEW k \in Key, NEW i \in Inode, NEW fl \in SUBSET Flag,
             ~Registered(mgr, k)
      PROVE  Good(ReservePending(mgr, k, i, fl))
  BY <1>0, <1>3, ReservePendingNames, ReservePendingBalance
<1>4. ASSUME NEW S, Removal(S) PROVE Good(mgr')
  <2>1. S \in SUBSET Key /\ \A k \in S : Registered(mgr, k)
    BY <1>4 DEF Removal, DropOf, Registered
  <2>2. mgr' = RemoveAll(mgr, S)
    BY <1>4 DEF Removal
  <2> QED BY <1>0, <2>1, <2>2, RemoveNames, RemoveBalance
<1>5. ASSUME NEW t \in Thread, Merge(t) PROVE Good(mgr')
  <2> DEFINE S == AddedNames(t)
  <2>1. S \in SUBSET Key /\ S \subseteq mgr.pending
    BY DEF AddedNames, ReservationInv, PendingOwned
  <2>2. TypeInv
    BY DEF ReservationInv
  <2> PICK new \in [S -> Module] :
         mgr' = MergeLinkContext(mgr, S, new, added[t], deps[t], req[t].flags)
    BY <1>5, <2>2, MergeFacts
  <2> HIDE DEF S
  <2> QED BY <1>0, <2>1, MergeNames, MergeBalance
<1>6. Good(mgr)
  OBVIOUS
<1>7. \A c \in Key : Committed(mgr, c) => Registered(mgr, c)
  BY DEF Registered
<1> HIDE DEF Good
<1>8. CASE Promotion
  <2> PICK c \in Key, fl \in SUBSET Flag :
         /\ Committed(mgr, c)
         /\ \/ mgr' = Promote(mgr, c, fl)
            \/ \E a \in Key : mgr' = Promote(AddAlias(mgr, c, a), c, fl)
    BY <1>8 DEF Promotion
  <2>1. Registered(mgr, c)
    BY <1>7
  <2>2. CASE mgr' = Promote(mgr, c, fl)
    BY <1>0, <1>2, <1>6, <2>2 DEF Good
  <2>3. ASSUME NEW a \in Key, mgr' = Promote(AddAlias(mgr, c, a), c, fl)
        PROVE  Good(mgr')
    BY <1>1, <1>2, <2>1, <2>3
  <2> QED BY <2>2, <2>3 DEF Good
<1>9. CASE NewAlias \/ Reservation
  BY <1>1, <1>3, <1>9 DEF NewAlias, Reservation, Good
<1>10. QED
  BY <1>4, <1>5, <1>6, <1>8, <1>9, ManagerSteps DEF Good

(* No name dangles and no library is miscounted, for any number of threads *)
(* and libraries, and counters of any width: every alias and identity      *)
(* leads to a registered library that lists it, so that Manager::remove    *)
(* takes it away, and dlpi_adds - dlpi_subs is the number of libraries,    *)
(* over reservation, commit, rollback, promotion and unloading.  Assumed   *)
(* as for the reservations.                                                *)
THEOREM NamesAndCounters ==
  ASSUME OneFilePerName
  PROVE  Spec /\ []HandlesResident => [](NamesResolve /\ CountersBalance)
<1> DEFINE IInv == ReservationInv /\ NamesOK(mgr) /\ Balanced(mgr)
<1>1. Init => IInv
  BY InitReservation, InitNames, InitBalance
<1>2. IInv /\ HandlesResident /\ [Next]_vars => IInv'
  <2>1. /\ NamesOK(mgr)' <=> NamesOK(mgr')
        /\ Balanced(mgr)' <=> Balanced(mgr')
    BY DEF NamesOK, AliasOK, Balanced, RegisteredIn, Registered, Committed
  <2> QED BY <2>1, NextReservation, NextNames
<1>3. IInv => NamesResolve /\ CountersBalance
  BY DEF NamesOK, AliasOK, Balanced, RegisteredIn, NamesResolve,
         CountersBalance, Registered
<1> HIDE DEF IInv
<1>4. QED
  BY <1>1, <1>2, <1>3, PTL DEF Spec

(* Every alias and every file identity leads to a registered library, over *)
(* any history of opens, failed opens and drops.                           *)
THEOREM NoNameDangles ==
  ASSUME OneFilePerName
  PROVE  Spec /\ []HandlesResident => []NamesResolve
<1>1. QED
  BY NamesAndCounters, PTL

(* dlpi_adds - dlpi_subs is the number of registered libraries, also when  *)
(* the counters have wrapped.                                              *)
THEOREM NothingMiscounted ==
  ASSUME OneFilePerName
  PROVE  Spec /\ []HandlesResident => []CountersBalance
<1>1. QED
  BY NamesAndCounters, PTL

-----------------------------------------------------------------------------
(* What a graph reaches.                                                   *)

(* f is the rounds in which Reach spreads from S along R.                  *)
Spreads(f, D, S, R) ==
  /\ f \in [Nat -> SUBSET D]
  /\ f[0] = S
  /\ \A n \in Nat : f[n + 1] = f[n] \cup UNION {R[x] : x \in f[n]}

(* Reach spreads from the roots, round after round.                        *)
LEMMA ReachSpreads ==
  ASSUME NEW D, NEW S \in SUBSET D, NEW R \in [D -> SUBSET D]
  PROVE  \E f : /\ Spreads(f, D, S, R)
                /\ Reach(S, R) = S \cup f[Cardinality(D)]
<1> DEFINE more(T) == T \cup UNION {R[x] : x \in T}
           step == [n \in Nat |-> [T \in SUBSET D |-> more(T)]]
           Rec(g) == [n \in Nat |-> IF n = 0 THEN S ELSE more(g[n - 1])]
           f == CHOOSE g : g = Rec(g)
<1>1. ASSUME NEW T \in SUBSET D PROVE more(T) \in SUBSET D
  OBVIOUS
<1>2. Reach(S, R) = S \cup f[Cardinality(D)]
  BY DEF Reach
<1> HIDE DEF more
<1>3. step \in [Nat -> [SUBSET D -> SUBSET D]]
  BY <1>1
<1>4. \A n \in Nat, T \in SUBSET D : step[n][T] = more(T)
  OBVIOUS
<1> HIDE DEF step
<1> PICK h : IsIteration(h, SUBSET D, S, step)
  BY <1>3, Iteration
<1>5. /\ h \in [Nat -> SUBSET D]
      /\ h[0] = S /\ \A n \in Nat : h[n + 1] = step[n][h[n]]
  BY DEF IsIteration
<1>6. ASSUME NEW i \in Nat PROVE h[i] = Rec(h)[i]
  <2>1. CASE i = 0
    BY <1>5, <2>1
  <2>2. CASE i # 0
    <3>1. i - 1 \in Nat /\ (i - 1) + 1 = i
      BY <2>2
    <3>2. h[i - 1] \in SUBSET D /\ h[i] = step[i - 1][h[i - 1]]
      BY <1>5, <3>1
    <3>3. h[i] = more(h[i - 1])
      BY <1>4, <3>1, <3>2
    <3> QED BY <2>2, <3>3
  <2> QED BY <2>1, <2>2
<1>7. h = Rec(h)
  BY <1>5, <1>6
<1>8. f = Rec(f)
  <2> HIDE DEF Rec
  <2> QED BY <1>7
<1>9. f[0] = S
  BY <1>8
<1>10. ASSUME NEW n \in Nat PROVE f[n + 1] = more(f[n])
  <2>1. n + 1 \in Nat /\ n + 1 # 0 /\ (n + 1) - 1 = n
    OBVIOUS
  <2>2. Rec(f)[n + 1] = more(f[n])
    <3> HIDE DEF f
    <3> QED BY <2>1
  <2> HIDE DEF f, Rec
  <2> QED BY <1>8, <2>2
<1>11. f = [n \in Nat |-> f[n]]
  <2> HIDE DEF f
  <2> QED BY <1>8
<1> HIDE DEF f
<1>12. \A n \in Nat : f[n] \in SUBSET D
  <2> DEFINE Typed == {n \in Nat : f[n] \in SUBSET D}
  <2>1. 0 \in Typed
    BY <1>9
  <2>2. ASSUME NEW n \in Nat, n \in Typed PROVE n + 1 \in Typed
    BY <1>1, <1>10, <2>2
  <2> HIDE DEF Typed
  <2>3. \A n \in Nat : n \in Typed
    BY <2>1, <2>2, NatSetInduction
  <2> QED BY <2>3 DEF Typed
<1>13. f \in [Nat -> SUBSET D]
  BY <1>11, <1>12
<1>14. QED
  BY <1>2, <1>9, <1>10, <1>13 DEF Spreads, more

(* Whatever is reached lies in the graph, and is a root or the target of   *)
(* an edge from something that is reached as well.                         *)
LEMMA ReachBackwards ==
  ASSUME NEW D, IsFiniteSet(D), NEW S \in SUBSET D, NEW R \in [D -> SUBSET D]
  PROVE  /\ Reach(S, R) \in SUBSET D
         /\ \A j \in Reach(S, R) : j \in S \/ \E p \in Reach(S, R) : j \in R[p]
<1> PICK f : Spreads(f, D, S, R) /\ Reach(S, R) = S \cup f[Cardinality(D)]
  BY ReachSpreads
<1>1. /\ f \in [Nat -> SUBSET D] /\ f[0] = S
      /\ \A n \in Nat : f[n + 1] = f[n] \cup UNION {R[x] : x \in f[n]}
  BY DEF Spreads
<1>2. Cardinality(D) \in Nat
  BY FS_CardinalityType
<1> DEFINE Back(T) == \A j \in T : j \in S \/ \E p \in T : j \in R[p]
           Good == {n \in Nat : Back(f[n])}
<1>3. 0 \in Good
  BY <1>1
<1>4. ASSUME NEW n \in Nat, n \in Good PROVE n + 1 \in Good
  <2>1. Back(f[n]) /\ f[n + 1] = f[n] \cup UNION {R[x] : x \in f[n]}
    BY <1>1, <1>4
  <2>2. ASSUME NEW T, Back(T) PROVE Back(T \cup UNION {R[x] : x \in T})
    BY <2>2
  <2> HIDE DEF Back
  <2> QED BY <2>1, <2>2
<1> HIDE DEF Good
<1>5. Cardinality(D) \in Good
  BY <1>2, <1>3, <1>4, NatSetInduction
<1>6. QED
  BY <1>1, <1>2, <1>5 DEF Good

-----------------------------------------------------------------------------
(* Handles and the images behind them.                                     *)

ImageOf(m, d) == m.link_ctx[Lookup(m, d)]

(* Every recorded direct dependency leads to a committed library, and the  *)
(* image that records it retains that library's image.                     *)
Retained(m, im) ==
  \A k \in Key : Committed(m, k) =>
    \A d \in m.direct[k] : /\ VisibleContains(m, d)
                           /\ ImageOf(m, d) \in im[m.link_ctx[k]].retains

(* A deps list begins with the library itself, and every other image in it *)
(* is retained by one of the list.                                         *)
Chained(inner, list, im) ==
  /\ inner \in list
  /\ \A x \in list \ {inner} : \E y \in list : x \in im[y].retains

(* library_scope_by_id follows edges that stand for references.            *)
LEMMA ScopeChained ==
  ASSUME NEW m \in Manager, NEW im, NEW k \in Key, Committed(m, k),
         Retained(m, im)
  PROVE  Chained(m.link_ctx[k], LibraryScope(m, k), im)
<1> DEFINE edge == [x \in Key |-> {y \in m.direct[x] : Committed(m, y)}]
           from == {k}
           keys == Reach(from, edge)
<1>1. edge \in [Key -> SUBSET Key]
  BY DEF Manager
<1>2. \A x \in Key : \A y \in edge[x] : y \in m.direct[x] /\ Committed(m, y)
  OBVIOUS
<1>3. LibraryScope(m, k) = ImagesOf(m, keys)
  BY DEF LibraryScope
<1> HIDE DEF edge
<1>4. /\ keys \in SUBSET Key /\ k \in keys
      /\ \A j \in keys : j = k \/ \E p \in keys : j \in edge[p]
  <2>1. from \in SUBSET Key /\ IsFiniteSet(Key)
    BY RegistryAssumption
  <2> HIDE DEF from
  <2>2. /\ keys \in SUBSET Key
        /\ \A j \in keys : j \in from \/ \E p \in keys : j \in edge[p]
    BY <1>1, <2>1, ReachBackwards
  <2>3. from \subseteq keys
    BY ReachRoots
  <2> HIDE DEF keys
  <2> QED BY <2>2, <2>3 DEF from
<1> HIDE DEF keys
<1>5. \A j \in keys : Committed(m, j)
  BY <1>2, <1>4
<1>6. ImagesOf(m, keys) = {m.link_ctx[j] : j \in keys}
  BY <1>4, <1>5 DEF ImagesOf
<1>7. ASSUME NEW j \in keys, j # k
      PROVE  \E y \in ImagesOf(m, keys) : m.link_ctx[j] \in im[y].retains
  <2> PICK p \in keys : j \in edge[p]
    BY <1>4, <1>7
  <2>1. p \in Key /\ j \in Key /\ Committed(m, p) /\ Committed(m, j)
        /\ j \in m.direct[p]
    BY <1>2, <1>4, <1>5
  <2>2. Lookup(m, j) = j
    BY <2>1 DEF Lookup, Registered
  <2>3. m.link_ctx[j] \in im[m.link_ctx[p]].retains
    BY <2>1, <2>2 DEF Retained, ImageOf
  <2> QED BY <1>6, <2>3
<1>8. QED
  BY <1>3, <1>4, <1>6, <1>7 DEF Chained

(* Sets with one, or two, known elements.                                  *)
LEMMA AtLeast ==
  ASSUME NEW S, IsFiniteSet(S), NEW a \in S, NEW b \in S
  PROVE  /\ Cardinality(S) \in Nat
         /\ Cardinality(S) >= 1
         /\ a # b => Cardinality(S) >= 2
<1>1. Cardinality(S) \in Nat
  BY FS_CardinalityType
<1>2. IsFiniteSet({a}) /\ Cardinality({a}) = 1 /\ {a} \subseteq S
  BY FS_Singleton
<1>3. Cardinality(S) >= 1
  BY <1>1, <1>2, FS_Subset
<1>4. ASSUME a # b PROVE Cardinality(S) >= 2
  <2>1. Cardinality({a} \cup {b}) = 2
    BY <1>2, <1>4, FS_AddElement
  <2>2. {a} \cup {b} \subseteq S
    OBVIOUS
  <2> QED BY <1>1, <2>1, <2>2, FS_Subset
<1>5. QED
  BY <1>1, <1>3, <1>4

(* Everything alive is an image.                                           *)
LEMMA LiveType ==
  ASSUME TypeOK
  PROVE  Live \in SUBSET Module
<1> DEFINE S == Images(mgr) \cup LinkerRefs
                  \cup UNION {{handle[h].inner} \cup handle[h].deps :
                                h \in {h \in Handle : handle[h] # ClosedHandle}}
           R == [x \in Module |-> image[x].retains]
<1>1. Live = Reach(S, R)
  BY DEF Live, LiveIn
<1>2. Images(mgr) \in SUBSET Module
  BY ImagesOfType DEF TypeOK, Images
<1>3. LinkerRefs \in SUBSET Module
  BY DEF TypeOK, LinkerRefs
<1>4. ASSUME NEW h \in Handle, handle[h] # ClosedHandle
      PROVE  {handle[h].inner} \cup handle[h].deps \in SUBSET Module
  BY <1>4 DEF TypeOK, HandleState
<1>5. S \in SUBSET Module
  BY <1>2, <1>3, <1>4
<1>6. R \in [Module -> SUBSET Module]
  BY DEF TypeOK, ImageState
<1> HIDE DEF S, R
<1>7. QED
  BY <1>1, <1>5, <1>6, ReachBackwards, FiniteAssumption

(* Who holds a reference to the image x: handles, deps lists, images.      *)
Holders(x) == {h \in Handle : handle[h].inner = x}

Lists(x) == {handle[h].list : h \in {h \in Handle : x \in handle[h].deps}}

Retainers(x) == {y \in Live : x \in image[y].retains}

(* There are finitely many of them.                                        *)
LEMMA HoldersFinite ==
  ASSUME TypeOK, NEW x
  PROVE  /\ IsFiniteSet(Holders(x))
         /\ IsFiniteSet(Lists(x))
         /\ IsFiniteSet(Retainers(x))
<1>1. IsFiniteSet(Holders(x))
  BY FiniteAssumption, FS_Subset DEF Holders
<1>2. IsFiniteSet(Lists(x))
  <2>1. Lists(x) \subseteq Handle \cup {NoHandle}
    BY DEF Lists, TypeOK, HandleState, ClosedHandle
  <2>2. IsFiniteSet(Handle \cup {NoHandle})
    BY FiniteAssumption, FS_AddElement
  <2> QED BY <2>1, <2>2, FS_Subset
<1>3. IsFiniteSet(Retainers(x))
  BY LiveType, FiniteAssumption, FS_Subset DEF Retainers
<1>4. QED
  BY <1>1, <1>2, <1>3

(* The strong count of a committed library that Drop compares with its     *)
(* threshold: one for link_ctx, one for the global scope, and the holders. *)
LEMMA StrongParts ==
  ASSUME ReservationInv, ScopeOK(mgr), NEW k \in Key, Committed(mgr, k),
         NEW x, x = mgr.link_ctx[k]
  PROVE  /\ image[x].key = k
         /\ FlagsOf(mgr, k) = mgr.flags[k]
         /\ \E c \in Nat :
              /\ StrongCount(x) = 1 + Cardinality(mgr.flags[k] \cap {"GLOBAL"})
                                    + Cardinality(Holders(x))
                                    + Cardinality(Lists(x))
                                    + Cardinality(Retainers(x)) + c
              /\ (\E t \in Thread : x \in bound[t]) => c >= 1
         /\ Cardinality(mgr.flags[k] \cap {"GLOBAL"}) \in Nat
<1>0. TypeOK /\ mgr \in Manager
  BY DEF ReservationInv, TypeInv, TypeOK
<1>1. image[x].key = k
  BY DEF ReservationInv, FilesNamed
<1>2. FlagsOf(mgr, k) = mgr.flags[k]
  BY DEF FlagsOf, Lookup, Registered
<1> DEFINE entry == {j \in {k} : mgr.link_ctx[j] = x}
           glob == {j \in {k} : mgr.link_ctx[j] = x /\ j \in mgr.global}
           fl == mgr.flags[k] \cap {"GLOBAL"}
           sc == {t \in Thread : x \in scope[t]}
           bd == {t \in Thread : x \in bound[t]}
<1>3. StrongCount(x) = Cardinality(entry) + Cardinality(glob)
                         + Cardinality(Holders(x)) + Cardinality(Lists(x))
                         + Cardinality(Retainers(x)) + Cardinality(sc)
                         + Cardinality(bd)
  BY <1>1 DEF StrongCount, Holders, Lists, Retainers
<1>4. Cardinality(entry) = 1
  <2>1. entry = {k}
    OBVIOUS
  <2> QED BY <2>1, FS_Singleton
<1>5. Cardinality(glob) = Cardinality(fl) /\ Cardinality(fl) \in Nat
  <2>1. k \in mgr.global <=> "GLOBAL" \in mgr.flags[k]
    BY DEF ScopeOK
  <2>2. CASE "GLOBAL" \in mgr.flags[k]
    <3>1. glob = {k} /\ fl = {"GLOBAL"}
      BY <2>1, <2>2
    <3>2. Cardinality({k}) = 1 /\ Cardinality({"GLOBAL"}) = 1
      BY FS_Singleton
    <3> HIDE DEF glob, fl
    <3> QED BY <3>1, <3>2
  <2>3. CASE "GLOBAL" \notin mgr.flags[k]
    <3>1. glob = {} /\ fl = {}
      BY <2>1, <2>3
    <3> QED BY <3>1, FS_EmptySet
  <2> QED BY <2>2, <2>3
<1>6. Cardinality(sc) \in Nat /\ Cardinality(bd) \in Nat
  <2>1. IsFiniteSet(sc) /\ IsFiniteSet(bd)
    BY FiniteAssumption, FS_Subset
  <2> QED BY <2>1, FS_CardinalityType
<1>7. ASSUME NEW t \in Thread, x \in bound[t] PROVE Cardinality(bd) >= 1
  <2>1. IsFiniteSet(bd) /\ t \in bd
    BY <1>7, FiniteAssumption, FS_Subset
  <2> QED BY <2>1, AtLeast
<1>8. /\ Cardinality(Holders(x)) \in Nat
      /\ Cardinality(Lists(x)) \in Nat
      /\ Cardinality(Retainers(x)) \in Nat
  BY <1>0, HoldersFinite, FS_CardinalityType
<1> HIDE DEF entry, glob, sc, bd, fl
<1> DEFINE c == Cardinality(sc) + Cardinality(bd)
<1>9. /\ c \in Nat
      /\ StrongCount(x) = 1 + Cardinality(fl) + Cardinality(Holders(x))
                            + Cardinality(Lists(x)) + Cardinality(Retainers(x))
                            + c
      /\ (\E t \in Thread : x \in bound[t]) => c >= 1
  BY <1>3, <1>4, <1>5, <1>6, <1>7, <1>8
<1> HIDE DEF c
<1>10. QED
  BY <1>1, <1>2, <1>5, <1>9 DEF fl

(* What Drop finds at its threshold has, besides its entries in link_ctx   *)
(* and in the global scope, two references.                                *)
LEMMA UnloadsCounts ==
  ASSUME ReservationInv, ScopeOK(mgr), NEW y \in Images(mgr), Unloads(y)
  PROVE  \E c \in Nat :
           /\ Cardinality(Holders(y)) + Cardinality(Lists(y))
                + Cardinality(Retainers(y)) + c = 2
           /\ (\E t \in Thread : y \in bound[t]) => c >= 1
<1> DEFINE G(k) == Cardinality(mgr.flags[k] \cap {"GLOBAL"})
<1>0. TypeOK /\ mgr \in Manager
  BY DEF ReservationInv, TypeInv, TypeOK
<1> PICK k \in Key : Committed(mgr, k) /\ y = mgr.link_ctx[k]
  BY <1>0, ImageCommitted DEF Images
<1>1. /\ image[y].key = k
      /\ FlagsOf(mgr, k) = mgr.flags[k]
      /\ G(k) \in Nat
      /\ \E c \in Nat :
           /\ StrongCount(y) = 1 + G(k) + Cardinality(Holders(y))
                                 + Cardinality(Lists(y))
                                 + Cardinality(Retainers(y)) + c
           /\ (\E t \in Thread : y \in bound[t]) => c >= 1
  BY StrongParts
<1>2. StrongCount(y) = 3 + G(k)
  BY <1>1 DEF Unloads
<1>3. /\ Cardinality(Holders(y)) \in Nat /\ Cardinality(Lists(y)) \in Nat
      /\ Cardinality(Retainers(y)) \in Nat
  BY <1>0, HoldersFinite, FS_CardinalityType
<1> HIDE DEF G
<1>4. QED
  BY <1>1, <1>2, <1>3

(* Open handles: their lists are chains of references, and handles that    *)
(* share a list are clones of one another.                                 *)
HandlesOK ==
  /\ \A h \in Handle : handle[h].open =>
       Chained(handle[h].inner, handle[h].deps, image)
  /\ \A g, h \in Handle :
       handle[g].open /\ handle[h].open /\ handle[g].list = handle[h].list
         => handle[g].inner = handle[h].inner

(* What the drop of g unloads, no other open handle leads to: a reference  *)
(* of that handle's would have raised the count above the threshold.       *)
LEMMA UnloadedAlone ==
  ASSUME ReservationInv, ScopeOK(mgr), HandlesResident, HandlesOK,
         NEW g \in Handle, handle[g].open, NEW x \in Unloaded(handle[g]),
         NEW h \in Handle, h # g, handle[h].open
  PROVE  x \notin {handle[h].inner} \cup handle[h].deps
<1> SUFFICES ASSUME x \in {handle[h].inner} \cup handle[h].deps PROVE FALSE
  OBVIOUS
<1>0. TypeOK /\ mgr \in Manager
  BY DEF ReservationInv, TypeInv, TypeOK
<1> DEFINE r == handle[g].inner
<1>1. /\ r \in handle[g].deps
      /\ handle[h].inner \in handle[h].deps
      /\ x \in handle[h].deps
      /\ x \in {r} \cup handle[g].deps
      /\ Unloads(r) /\ Unloads(x)
  BY DEF HandlesOK, Chained, Unloaded
<1>2. r \in Images(mgr) /\ x \in Images(mgr) /\ x \in handle[g].deps
  BY <1>1 DEF HandlesResident
<1>3. ASSUME NEW y \in Images(mgr), Unloads(y)
      PROVE  \E c \in Nat : Cardinality(Holders(y)) + Cardinality(Lists(y))
                               + Cardinality(Retainers(y)) + c = 2
  BY <1>3, UnloadsCounts
<1>4. ASSUME NEW y
      PROVE  /\ IsFiniteSet(Holders(y)) /\ IsFiniteSet(Lists(y))
             /\ IsFiniteSet(Retainers(y))
             /\ Cardinality(Holders(y)) \in Nat
             /\ Cardinality(Lists(y)) \in Nat
             /\ Cardinality(Retainers(y)) \in Nat
  BY <1>0, HoldersFinite, FS_CardinalityType
<1>5. g \in Holders(r) /\ handle[g].list \in Lists(r)
      /\ handle[g].list \in Lists(x) /\ handle[h].list \in Lists(x)
  BY <1>1, <1>2 DEF Holders, Lists
<1>6. CASE handle[g].list = handle[h].list
  <2>1. h \in Holders(r)
    BY <1>6 DEF HandlesOK, Holders
  <2>2. Cardinality(Holders(r)) >= 2 /\ Cardinality(Lists(r)) >= 1
    BY <1>4, <1>5, <2>1, AtLeast
  <2> QED BY <1>1, <1>2, <1>3, <1>4, <2>2
<1>7. CASE handle[g].list # handle[h].list
  <2>1. Cardinality(Lists(x)) >= 2
    BY <1>4, <1>5, <1>7, AtLeast
  <2>2. CASE x = r
    <3>1. Cardinality(Holders(x)) >= 1
      BY <1>4, <1>5, <2>2, AtLeast
    <3> QED BY <1>1, <1>2, <1>3, <1>4, <2>1, <3>1
  <2>3. CASE x # r
    <3> PICK y \in handle[g].deps : x \in image[y].retains
      BY <1>2, <2>3 DEF HandlesOK, Chained
    <3>1. y \in Retainers(x)
      BY <1>0, LiveImages DEF Retainers
    <3>2. Cardinality(Retainers(x)) >= 1
      BY <1>4, <3>1, AtLeast
    <3> QED BY <1>1, <1>2, <1>3, <1>4, <2>1, <3>2
  <2> QED BY <2>2, <2>3
<1>8. QED
  BY <1>6, <1>7

-----------------------------------------------------------------------------
(* What a name leads to, over time.                                        *)

(* The compat names of the host's libraries.                               *)
HostCompat == UNION {Compat[k] : k \in Host}

(* Only libraries of the host have compat names: libc_compat_aliases knows *)
(* libc.so.6 and the dynamic linker, which every process begins with.      *)
CompatInHost == \A k \in Key : Compat[k] # {} => k \in Host

(* The names that a library lists lead to it.                              *)
NamesListed(m) ==
  \A c \in Key :
    /\ c \in m.pending => \A a \in m.pnames[c] : m.aliases[a] = c
    /\ c \notin m.pending /\ Committed(m, c) =>
         \A a \in m.libnames[c] : m.aliases[a] = c

(* An alias is a compat name, or a second name of its library's file.      *)
AliasFor(m, a, c) ==
  \/ a \in HostCompat
  \/ \E i \in Inode : <<a, i>> \in NamedFiles /\ m.identities[i] = c

NamesExact(m) ==
  /\ NamesListed(m)
  /\ \A a \in Key : m.aliases[a] # NoKey => AliasFor(m, a, m.aliases[a])
  /\ \A a \in HostCompat \ Host : m.aliases[a] \in Host

(* A name that led to a library which is still there leads to it still.    *)
Keeps(m, n) ==
  \A d \in Key : VisibleContains(m, d) /\ Committed(n, Lookup(m, d)) =>
    Lookup(n, d) = Lookup(m, d) /\ ImageOf(n, d) = ImageOf(m, d)

(* Compat names are names.                                                 *)
LEMMA HostCompatType == HostCompat \in SUBSET Key
BY RegistryAssumption, DlopenAssumption DEF HostCompat

(* A manager whose names are the same leads to the same.                   *)
LEMMA SameNames ==
  ASSUME NEW m \in Manager, NEW n \in Manager, NamesExact(m),
         n.pending = m.pending, n.link_ctx = m.link_ctx,
         n.pnames = m.pnames, n.libnames = m.libnames,
         n.aliases = m.aliases, n.identities = m.identities
  PROVE  NamesExact(n) /\ Keeps(m, n)
<1>1. NamesExact(n)
  BY DEF NamesExact, NamesListed, AliasFor, Committed
<1>2. \A d : Lookup(n, d) = Lookup(m, d)
  BY DEF Lookup, Registered, Committed
<1>3. QED
  BY <1>1, <1>2 DEF Keeps, ImageOf

(* add_alias gives a name to what had none by it.                          *)
LEMMA AddAliasesExact ==
  ASSUME NEW m \in Manager, NEW c \in Key, NEW S \in SUBSET Key,
         Registered(m, c), NamesExact(m), \A a \in S : AliasFor(m, a, c)
  PROVE  LET n == AddAliases(m, c, S)
         IN  NamesExact(n) /\ Keeps(m, n) /\ n.link_ctx = m.link_ctx
<1> DEFINE n == AddAliases(m, c, S)
           new == {a \in S : ~Registered(m, a) /\ m.aliases[a] = NoKey}
<1>1. /\ n.aliases = [a \in Key |-> IF a \in new THEN c ELSE m.aliases[a]]
      /\ n.pnames = [k \in Key |-> IF k = c /\ k \in m.pending
                                   THEN m.pnames[k] \cup new ELSE m.pnames[k]]
      /\ n.libnames = [k \in Key |-> IF k = c /\ k \notin m.pending
                                     THEN m.libnames[k] \cup new
                                     ELSE m.libnames[k]]
      /\ n.identities = m.identities
      /\ n.pending = m.pending /\ n.link_ctx = m.link_ctx
  BY DEF AddAliases, Manager
<1>2. \A a \in new : a \in S /\ a \in Key /\ ~Registered(m, a) /\ m.aliases[a] = NoKey
  OBVIOUS
<1> HIDE DEF n, new
<1>3. \A k : /\ Registered(n, k) <=> Registered(m, k)
             /\ Committed(n, k) <=> Committed(m, k)
  BY <1>1 DEF Registered, Committed
<1>4. NamesListed(n)
  <2> SUFFICES ASSUME NEW k \in Key
               PROVE  /\ k \in n.pending => \A a \in n.pnames[k] : n.aliases[a] = k
                      /\ k \notin n.pending /\ Committed(n, k) =>
                           \A a \in n.libnames[k] : n.aliases[a] = k
    BY DEF NamesListed
  <2>1. /\ k \in m.pending => \A a \in m.pnames[k] : m.aliases[a] = k
        /\ k \notin m.pending /\ Committed(m, k) =>
             \A a \in m.libnames[k] : m.aliases[a] = k
    BY DEF NamesExact, NamesListed
  <2>2. \A a \in Key : /\ a \in new => n.aliases[a] = c
                       /\ m.aliases[a] = k => n.aliases[a] = k
    BY <1>1, <1>2, RegistryAssumption
  <2>3. /\ n.pnames[k] \subseteq Key /\ n.libnames[k] \subseteq Key
        /\ m.pnames[k] \subseteq Key /\ m.libnames[k] \subseteq Key
    BY <1>1, <1>2 DEF Manager
  <2>4. /\ k = c /\ k \in m.pending => n.pnames[k] = m.pnames[k] \cup new
        /\ k # c => n.pnames[k] = m.pnames[k]
        /\ k = c /\ k \notin m.pending => n.libnames[k] = m.libnames[k] \cup new
        /\ k # c => n.libnames[k] = m.libnames[k]
    BY <1>1
  <2>5. k \in n.pending <=> k \in m.pending
    BY <1>1
  <2> QED BY <1>3, <2>1, <2>2, <2>3, <2>4, <2>5
<1>5. ASSUME NEW a \in Key, n.aliases[a] # NoKey
      PROVE  AliasFor(n, a, n.aliases[a])
  <2>1. CASE a \in new
    BY <1>1, <1>2, <2>1 DEF AliasFor
  <2>2. CASE a \notin new
    BY <1>1, <1>5, <2>2 DEF NamesExact, AliasFor
  <2> QED BY <2>1, <2>2
<1>6. ASSUME NEW a \in HostCompat \ Host PROVE n.aliases[a] \in Host
  <2>1. a \in Key /\ m.aliases[a] \in Host /\ m.aliases[a] # NoKey
    BY HostCompatType, DlopenAssumption, RegistryAssumption DEF NamesExact
  <2> QED BY <1>1, <1>2, <2>1
<1>7. Keeps(m, n)
  <2> SUFFICES ASSUME NEW d \in Key, VisibleContains(m, d)
               PROVE  Lookup(n, d) = Lookup(m, d)
    BY <1>1 DEF Keeps, ImageOf
  <2>1. CASE Registered(m, d)
    BY <1>3, <2>1 DEF Lookup
  <2>2. CASE ~Registered(m, d)
    <3>1. m.aliases[d] # NoKey
      BY <2>2 DEF VisibleContains, Found, Lookup
    <3>2. n.aliases[d] = m.aliases[d]
      BY <1>1, <1>2, <3>1
    <3> QED BY <1>3, <3>2 DEF Lookup
  <2> QED BY <2>1, <2>2
<1>8. NamesExact(n)
  BY <1>4, <1>5, <1>6 DEF NamesExact
<1>9. QED
  BY <1>1, <1>7, <1>8 DEF n

(* reserve_pending takes a name that leads nowhere and a file that nobody  *)
(* is known by.                                                            *)
LEMMA ReservePendingExact ==
  ASSUME NEW m \in Manager, NEW k \in Key, NEW i \in Inode,
         NEW fl \in SUBSET Flag, ~Registered(m, k), NamesOK(m), NamesExact(m),
         m.aliases[k] = NoKey, m.identities[i] = NoKey, CompatInHost
  PROVE  LET n == ReservePending(m, k, i, fl)
         IN  NamesExact(n) /\ Keeps(m, n) /\ n.link_ctx = m.link_ctx
<1> DEFINE pf == [m.pflags EXCEPT ![k] = NormalizedFlags(k, fl)]
           pn == [m.pnames EXCEPT ![k] = {}]
           ids == [m.identities EXCEPT ![i] = k]
           ad == Count(m.adds + 1)
           r == [m EXCEPT !.pending = m.pending \cup {k}, !.pflags = pf,
                          !.pnames = pn, !.identities = ids, !.adds = ad]
           n == AddAliases(r, k, Compat[k])
<1>1. ReservePending(m, k, i, fl) = n
  BY DEF ReservePending, Manager
<1>2. /\ pf \in [Key -> SUBSET Flag]
      /\ pn \in [Key -> SUBSET Key]
      /\ ids \in [Inode -> Key \cup {NoKey}]
  BY DEF Manager, NormalizedFlags, Flag
<1>3. ad \in 0 .. CounterMod - 1
  BY RegistryAssumption DEF Count, Manager
<1>4. /\ \A j \in Key : pn[j] = IF j = k THEN {} ELSE m.pnames[j]
      /\ \A j \in Inode : ids[j] = IF j = i THEN k ELSE m.identities[j]
  BY DEF Manager
<1> HIDE DEF pf, pn, ids, ad
<1>5. /\ r \in Manager
      /\ r.pending = m.pending \cup {k}
      /\ r.pnames = pn /\ r.libnames = m.libnames
      /\ r.link_ctx = m.link_ctx
      /\ r.identities = ids
      /\ r.aliases = m.aliases
  BY <1>2, <1>3 DEF Manager
<1> HIDE DEF r
<1>6. \A j : Committed(r, j) <=> Committed(m, j)
  BY <1>5 DEF Committed
<1>7. NamesListed(r)
  BY <1>4, <1>5, <1>6 DEF NamesExact, NamesListed
<1>8. ASSUME NEW a \in Key, r.aliases[a] # NoKey
      PROVE  AliasFor(r, a, r.aliases[a])
  BY <1>4, <1>5, <1>8 DEF NamesExact, AliasFor
<1>9. NamesExact(r)
  BY <1>5, <1>7, <1>8 DEF NamesExact
<1>10. Registered(r, k)
  BY <1>5 DEF Registered
<1>11. \A a \in Compat[k] : AliasFor(r, a, k)
  BY DEF AliasFor, CompatInHost, HostCompat
<1>12. Compat[k] \in SUBSET Key
  BY RegistryAssumption
<1>13. NamesExact(n) /\ Keeps(r, n) /\ n.link_ctx = r.link_ctx
  BY <1>5, <1>9, <1>10, <1>11, <1>12, AddAliasesExact
<1>14. ASSUME NEW d \in Key, VisibleContains(m, d)
       PROVE  VisibleContains(r, d) /\ Lookup(r, d) = Lookup(m, d)
  <2>1. d # k
    BY <1>14 DEF VisibleContains, Found, Lookup
  <2>2. \A j \in Key : Registered(m, j) => Registered(r, j)
    BY <1>5, <1>6 DEF Registered
  <2>3. Registered(r, d) <=> Registered(m, d)
    BY <1>5, <1>6, <2>1 DEF Registered
  <2>4. m.aliases[d] \in Key \cup {NoKey}
    BY DEF Manager
  <2>5. Lookup(r, d) = Lookup(m, d)
    BY <1>5, <1>14, <2>2, <2>3, <2>4 DEF VisibleContains, Found, Lookup
  <2> QED BY <1>6, <1>14, <2>5 DEF VisibleContains, Found
<1> HIDE DEF n
<1>15. Keeps(m, n)
  BY <1>5, <1>13, <1>14 DEF Keeps, ImageOf
<1>16. QED
  BY <1>1, <1>5, <1>13, <1>15

(* remove takes the names of what it removes and no others.                *)
LEMMA RemoveExact ==
  ASSUME NEW m \in Manager, NEW S \in SUBSET Key, NamesOK(m), NamesExact(m),
         S \cap Host = {}, \A k \in m.pending : ~Committed(m, k)
  PROVE  NamesExact(RemoveAll(m, S)) /\ Keeps(m, RemoveAll(m, S))
<1> DEFINE P == S \cap m.pending
           C == {k \in S \ P : Committed(m, k)}
           names == UNION ({m.pnames[k] : k \in P}
                             \cup {m.libnames[k] : k \in C})
           n == RemoveAll(m, S)
<1>1. /\ n.pending = m.pending \ P
      /\ n.pnames = [k \in Key |-> IF k \in P THEN {} ELSE m.pnames[k]]
      /\ n.link_ctx = [k \in Key |-> IF k \in C THEN NoModule
                                     ELSE m.link_ctx[k]]
      /\ n.libnames = [k \in Key |-> IF k \in C THEN {} ELSE m.libnames[k]]
      /\ n.aliases = [a \in Key |-> IF a \in names THEN NoKey
                                    ELSE m.aliases[a]]
      /\ n.identities = [i \in Inode |-> IF m.identities[i] \in P \cup C
                                         THEN NoKey ELSE m.identities[i]]
  BY DEF RemoveAll
<1>2. \A a \in names : \/ \E k \in P : a \in m.pnames[k]
                       \/ \E k \in C : a \in m.libnames[k]
  OBVIOUS
<1>3. /\ \A k \in P : k \in Key /\ k \in m.pending /\ k \notin Host
                      /\ m.pnames[k] \subseteq names
      /\ \A k \in C : k \in Key /\ k \notin m.pending /\ k \notin Host
                      /\ Committed(m, k) /\ m.libnames[k] \subseteq names
  OBVIOUS
<1> HIDE DEF n, P, C, names
<1>4. \A a \in names : m.aliases[a] \in P \cup C
  BY <1>2, <1>3 DEF NamesExact, NamesListed
<1>5. ASSUME NEW a \in Key, m.aliases[a] \in P \cup C PROVE a \in names
  <2>1. m.aliases[a] # NoKey
    BY <1>3, <1>5, RegistryAssumption
  <2> QED BY <1>3, <1>5, <2>1 DEF NamesOK, AliasOK
<1>6. \A a \in Key : n.aliases[a] = IF m.aliases[a] \in P \cup C THEN NoKey
                                    ELSE m.aliases[a]
  BY <1>1, <1>4, <1>5
<1>7. ASSUME NEW k \in Key, k \in n.pending \/ Committed(n, k)
      PROVE  /\ k \notin P \cup C
             /\ k \in n.pending <=> k \in m.pending
             /\ Committed(n, k) <=> Committed(m, k)
             /\ n.pnames[k] = m.pnames[k] /\ n.libnames[k] = m.libnames[k]
             /\ n.link_ctx[k] = m.link_ctx[k]
  <2>1. k \in P => ~Committed(m, k)
    BY <1>3
  <2>2. k \in C => k \notin m.pending
    BY <1>3
  <2>3. k \notin P \cup C
    BY <1>1, <1>7, <2>1, <2>2 DEF Committed
  <2> QED BY <1>1, <2>3 DEF Committed
<1>8. NamesListed(n)
  <2> SUFFICES ASSUME NEW k \in Key, k \in n.pending \/ Committed(n, k)
               PROVE  /\ k \in n.pending => \A a \in n.pnames[k] : n.aliases[a] = k
                      /\ k \notin n.pending /\ Committed(n, k) =>
                           \A a \in n.libnames[k] : n.aliases[a] = k
    BY DEF NamesListed
  <2>1. /\ k \in m.pending => \A a \in m.pnames[k] : m.aliases[a] = k
        /\ k \notin m.pending /\ Committed(m, k) =>
             \A a \in m.libnames[k] : m.aliases[a] = k
    BY DEF NamesExact, NamesListed
  <2>2. m.pnames[k] \subseteq Key /\ m.libnames[k] \subseteq Key
    BY DEF Manager
  <2> QED BY <1>6, <1>7, <2>1, <2>2
<1>9. ASSUME NEW a \in Key, n.aliases[a] # NoKey
      PROVE  AliasFor(n, a, n.aliases[a])
  <2>1. n.aliases[a] = m.aliases[a] /\ m.aliases[a] \notin P \cup C
    BY <1>6, <1>9
  <2>2. AliasFor(m, a, m.aliases[a])
    BY <1>9, <2>1 DEF NamesExact
  <2> QED BY <1>1, <2>1, <2>2 DEF AliasFor
<1>10. ASSUME NEW a \in HostCompat \ Host PROVE n.aliases[a] \in Host
  <2>1. a \in Key /\ m.aliases[a] \in Host
    BY HostCompatType DEF NamesExact
  <2> QED BY <1>3, <1>6, <2>1
<1>11. Keeps(m, n)
  <2> SUFFICES ASSUME NEW d \in Key, VisibleContains(m, d),
                      Committed(n, Lookup(m, d))
               PROVE  /\ Lookup(n, d) = Lookup(m, d)
                      /\ ImageOf(n, d) = ImageOf(m, d)
    BY DEF Keeps
  <2> DEFINE c == Lookup(m, d)
  <2>1. c \in Key /\ c # NoKey
    BY LookupType DEF VisibleContains, Found
  <2>2. c \notin P \cup C /\ n.link_ctx[c] = m.link_ctx[c]
    BY <1>7, <2>1
  <2>3. Lookup(n, d) = c
    <3>1. CASE Registered(m, d)
      BY <3>1 DEF Lookup, Registered
    <3>2. CASE ~Registered(m, d)
      <4>1. c = m.aliases[d]
        BY <3>2, <2>1 DEF Lookup
      <4>2. n.aliases[d] = c
        BY <1>6, <2>2, <4>1
      <4>3. ~Registered(n, d)
        BY <1>7, <3>2 DEF Registered
      <4> QED BY <2>1, <4>2, <4>3 DEF Lookup, Registered
    <3> QED BY <3>1, <3>2
  <2> QED BY <2>2, <2>3 DEF ImageOf
<1>12. NamesExact(n)
  BY <1>8, <1>9, <1>10 DEF NamesExact
<1>13. QED
  BY <1>11, <1>12 DEF n

(* What n has committed beyond m is S, with the images module and the      *)
(* dependencies needed.                                                    *)
Published(m, n, S, module, needed) ==
  /\ \A k \in S : /\ Committed(n, k) /\ n.link_ctx[k] = module[k]
                  /\ n.direct[k] = needed[k] /\ Lookup(n, k) = k
  /\ \A k \in Key \ S : /\ n.link_ctx[k] = m.link_ctx[k]
                        /\ n.direct[k] = m.direct[k]

(* merge_link_context turns reservations into libraries under the same     *)
(* names and identities.                                                   *)
LEMMA MergeExact ==
  ASSUME NEW m \in Manager, NEW S \in SUBSET Key, S \subseteq m.pending,
         NEW module \in [S -> Module], NEW file, NEW deps_, NEW fl,
         NamesOK(m), NamesExact(m), CompatInHost,
         \A k \in S : ~Committed(m, k),
         \A k \in S : file[k] \in Inode /\ m.identities[file[k]] = k
  PROVE  LET n == MergeLinkContext(m, S, module, file, deps_, fl)
         IN  /\ NamesExact(n) /\ Keeps(m, n)
             /\ Published(m, n, S, module, deps_)
<1> DEFINE n == MergeLinkContext(m, S, module, file, deps_, fl)
           lc == [k \in Key |-> IF k \in S THEN module[k] ELSE m.link_ctx[k]]
           free(k) == {a \in Compat[k] : /\ a \notin m.pending
                                         /\ lc[a] = NoModule
                                         /\ m.aliases[a] = NoKey}
<1>0. Uncommitted(m, S) = S
  BY DEF Uncommitted
<1>1. /\ n.pending = m.pending \ S
      /\ n.link_ctx = lc
      /\ n.libnames = [k \in Key |-> IF k \in S THEN m.pnames[k] \cup free(k)
                                     ELSE m.libnames[k]]
      /\ n.pnames = [k \in Key |-> IF k \in S THEN {} ELSE m.pnames[k]]
      /\ n.direct = [k \in Key |-> IF k \in S THEN deps_[k] ELSE m.direct[k]]
      /\ n.aliases = [a \in Key |-> IF \E k \in S : a \in free(k)
                                    THEN CHOOSE k \in S : a \in free(k)
                                    ELSE m.aliases[a]]
      /\ n.identities = [i \in Inode |-> IF \E k \in S : file[k] = i
                                         THEN CHOOSE k \in S : file[k] = i
                                         ELSE m.identities[i]]
  BY <1>0 DEF MergeLinkContext
<1>2. \A k \in S : \A a \in free(k) :
        m.aliases[a] = NoKey /\ a \in Compat[k] /\ a \in Key
  BY RegistryAssumption
<1> HIDE DEF n, free
<1>3. \A i \in Inode : n.identities[i] = m.identities[i]
  <2> SUFFICES ASSUME NEW i \in Inode, \E k \in S : file[k] = i
               PROVE  n.identities[i] = m.identities[i]
    BY <1>1
  <2> DEFINE j == CHOOSE k \in S : file[k] = i
  <2>1. j \in S /\ file[j] = i
    OBVIOUS
  <2>2. n.identities[i] = j
    BY <1>1
  <2> HIDE DEF j
  <2> QED BY <2>1, <2>2
<1>4. ASSUME NEW k \in S
      PROVE  /\ k \in Key /\ k \notin n.pending /\ Committed(n, k)
             /\ n.link_ctx[k] = module[k] /\ n.direct[k] = deps_[k]
             /\ n.libnames[k] = m.pnames[k] \cup free(k)
  <2>1. module[k] \in Module
    OBVIOUS
  <2> QED BY <1>1, <2>1, RegistryAssumption DEF Committed
<1>5. ASSUME NEW k \in Key, k \notin S
      PROVE  /\ k \in n.pending <=> k \in m.pending
             /\ Committed(n, k) <=> Committed(m, k)
             /\ n.link_ctx[k] = m.link_ctx[k] /\ n.direct[k] = m.direct[k]
             /\ n.pnames[k] = m.pnames[k] /\ n.libnames[k] = m.libnames[k]
  BY <1>1, <1>5 DEF Committed
<1>6. ASSUME NEW a \in Key, m.aliases[a] # NoKey
      PROVE  n.aliases[a] = m.aliases[a]
  BY <1>1, <1>2, <1>6
<1>7. ASSUME NEW k \in S, NEW a \in free(k) PROVE n.aliases[a] = k
  <2> DEFINE j == CHOOSE q \in S : a \in free(q)
  <2>1. j \in S /\ a \in free(j)
    OBVIOUS
  <2>2. n.aliases[a] = j
    BY <1>1, <1>2
  <2> HIDE DEF j
  <2> QED BY <1>2, <2>1, <2>2, RegistryAssumption
<1>8. \A a \in Key : n.aliases[a] # NoKey =>
        n.aliases[a] = m.aliases[a] \/ \E k \in S : a \in free(k)
  BY <1>1
<1>9. NamesListed(n)
  <2> SUFFICES ASSUME NEW k \in Key
               PROVE  /\ k \in n.pending => \A a \in n.pnames[k] : n.aliases[a] = k
                      /\ k \notin n.pending /\ Committed(n, k) =>
                           \A a \in n.libnames[k] : n.aliases[a] = k
    BY DEF NamesListed
  <2>1. /\ k \in m.pending => \A a \in m.pnames[k] : m.aliases[a] = k
        /\ k \notin m.pending /\ Committed(m, k) =>
             \A a \in m.libnames[k] : m.aliases[a] = k
    BY DEF NamesExact, NamesListed
  <2>2. m.pnames[k] \subseteq Key /\ m.libnames[k] \subseteq Key /\ k # NoKey
    BY RegistryAssumption DEF Manager
  <2>3. CASE k \in S
    BY <1>4, <1>6, <1>7, <2>1, <2>2, <2>3
  <2>4. CASE k \notin S
    BY <1>5, <1>6, <2>1, <2>2, <2>4
  <2> QED BY <2>3, <2>4
<1>10. ASSUME NEW a \in Key, n.aliases[a] # NoKey
       PROVE  AliasFor(n, a, n.aliases[a])
  <2>1. CASE \E k \in S : a \in free(k)
    BY <1>2, <2>1 DEF AliasFor, CompatInHost, HostCompat
  <2>2. CASE n.aliases[a] = m.aliases[a]
    BY <1>3, <1>10, <2>2 DEF NamesExact, AliasFor
  <2> QED BY <1>8, <1>10, <2>1, <2>2
<1>11. ASSUME NEW a \in HostCompat \ Host PROVE n.aliases[a] \in Host
  <2>1. a \in Key /\ m.aliases[a] \in Host /\ m.aliases[a] # NoKey
    BY HostCompatType, DlopenAssumption, RegistryAssumption DEF NamesExact
  <2> QED BY <1>6, <2>1
<1>12. Keeps(m, n)
  <2> SUFFICES ASSUME NEW d \in Key, VisibleContains(m, d)
               PROVE  /\ Lookup(n, d) = Lookup(m, d)
                      /\ ImageOf(n, d) = ImageOf(m, d)
    BY DEF Keeps
  <2> DEFINE c == Lookup(m, d)
  <2>1. c \in Key /\ c # NoKey /\ Committed(m, c)
    BY LookupType DEF VisibleContains, Found
  <2>2. c \notin S /\ n.link_ctx[c] = m.link_ctx[c] /\ Registered(n, c)
    BY <1>5, <2>1 DEF Registered
  <2>3. \A k \in Key : Registered(n, k) <=> Registered(m, k)
    BY <1>4, <1>5 DEF Registered
  <2>4. Lookup(n, d) = c
    <3>1. CASE Registered(m, d)
      BY <2>3, <3>1 DEF Lookup
    <3>2. CASE ~Registered(m, d)
      <4>1. c = m.aliases[d]
        BY <2>1, <3>2 DEF Lookup
      <4>2. n.aliases[d] = c
        BY <1>6, <2>1, <4>1
      <4> QED BY <2>1, <2>2, <2>3, <3>2, <4>2 DEF Lookup
    <3> QED BY <3>1, <3>2
  <2> QED BY <2>2, <2>4 DEF ImageOf
<1>13. NamesExact(n)
  BY <1>9, <1>10, <1>11 DEF NamesExact
<1>14. \A k \in S : Lookup(n, k) = k
  BY <1>4 DEF Lookup, Registered
<1>15. Published(m, n, S, module, deps_)
  BY <1>4, <1>5, <1>14 DEF Published
<1>16. QED
  BY <1>12, <1>13, <1>15 DEF n

(* A thread that looks for a file does so by a name that is no compat name *)
(* of the host's: those are always found.                                  *)
Unaliased ==
  \A t \in Thread : pc[t] = "resolve_path" =>
    Head(work[t]).name \notin HostCompat

(* Every step keeps that.                                                  *)
LEMMA NextUnaliased ==
  ASSUME ReservationInv, [Next]_vars, NamesExact(mgr), Unaliased
  PROVE  Unaliased'
<1> SUFFICES ASSUME NEW u \in Thread, pc'[u] = "resolve_path"
             PROVE  Head(work'[u]).name \notin HostCompat
  BY DEF Unaliased
<1>1. Missed(u)
  BY PathsMissed DEF ReservationInv
<1>2. ASSUME NEW a \in HostCompat PROVE Lookup(mgr, a) # NoKey
  <2>1. a \in Key /\ a # NoKey
    BY HostCompatType, RegistryAssumption
  <2>2. \A k \in Host : k \in Key /\ k # NoKey /\ Registered(mgr, k)
    BY DlopenAssumption, RegistryAssumption
       DEF ReservationInv, HostKept, Registered
  <2>3. a \in Host \/ mgr.aliases[a] \in Host
    BY DEF NamesExact
  <2> QED BY <2>1, <2>2, <2>3 DEF Lookup
<1>3. QED
  BY <1>1, <1>2 DEF Missed, Unaliased

(* The identity table leads to registered names.                           *)
LEMMA IdentityExact ==
  ASSUME NEW m \in Manager, NamesOK(m), NEW i \in Inode
  PROVE  LookupByIdentity(m, i) = m.identities[i]
BY DEF NamesOK, LookupByIdentity, Lookup

(* What a step does to the names.                                          *)
LEMMA NextExact ==
  ASSUME OneFilePerName, CompatInHost, ReservationInv, HandlesResident,
         [Next]_vars, NamesOK(mgr), NamesExact(mgr), Unaliased
  PROVE  NamesExact(mgr') /\ Keeps(mgr, mgr')
<1> DEFINE Good(n) == NamesExact(n) /\ Keeps(mgr, n)
<1>0. mgr \in Manager /\ \A k \in mgr.pending : ~Committed(mgr, k)
  BY DEF ReservationInv, TypeInv, TypeOK
<1>1. ASSUME NEW c \in Key, NEW a \in Key, Registered(mgr, c), NameOf(a, c)
      PROVE  /\ AddAlias(mgr, c, a) \in Manager
             /\ Good(AddAlias(mgr, c, a))
  <2> DEFINE S == {a}
  <2>1. S \in SUBSET Key /\ AddAlias(mgr, c, a) = AddAliases(mgr, c, S)
    BY DEF AddAlias
  <2>2. AliasFor(mgr, a, c)
    BY <1>0, <1>1, IdentityExact DEF NameOf, AliasFor
  <2>3. \A b \in S : AliasFor(mgr, b, c)
    BY <2>2
  <2> HIDE DEF S
  <2>4. AddAliases(mgr, c, S) \in Manager
    BY <1>0, <2>1, AddAliasesFacts
  <2> QED BY <1>0, <1>1, <2>1, <2>3, <2>4, AddAliasesExact
<1>2. ASSUME NEW m \in Manager, Good(m), NEW c \in Key, NEW fl \in SUBSET Flag
      PROVE  Good(Promote(m, c, fl))
  <2> DEFINE n == Promote(m, c, fl)
  <2>1. n \in Manager
    BY <1>2, PromoteFacts
  <2>2. /\ n.pending = m.pending /\ n.link_ctx = m.link_ctx
        /\ n.pnames = m.pnames /\ n.libnames = m.libnames
        /\ n.aliases = m.aliases /\ n.identities = m.identities
    BY DEF Promote, Manager
  <2> HIDE DEF n
  <2>3. NamesExact(n)
    BY <1>2, <2>1, <2>2, SameNames
  <2>4. \A d : Lookup(n, d) = Lookup(m, d) /\ (Committed(n, d) <=> Committed(m, d))
    BY <2>2 DEF Lookup, Registered, Committed
  <2>5. Keeps(mgr, n)
    BY <1>2, <2>2, <2>4 DEF Keeps, ImageOf
  <2> QED BY <2>3, <2>5 DEF n
<1>3. Good(mgr)
  BY DEF Keeps
<1>4. \A c \in Key : Committed(mgr, c) => Registered(mgr, c)
  BY DEF Registered
<1>5. ASSUME NEW S, Removal(S) PROVE Good(mgr')
  <2>1. S \in SUBSET Key /\ S \cap Host = {} /\ mgr' = RemoveAll(mgr, S)
    BY <1>5 DEF Removal
  <2>2. NamesExact(RemoveAll(mgr, S)) /\ Keeps(mgr, RemoveAll(mgr, S))
    BY <1>0, <2>1, RemoveExact
  <2> QED BY <2>1, <2>2
<1>6. CASE Reservation
  <2> PICK k \in Key, i \in Inode, fl \in SUBSET Flag :
         /\ ~Registered(mgr, k)
         /\ <<k, i>> \in NamedFiles /\ LookupByIdentity(mgr, i) = NoKey
         /\ \E t \in Thread : pc[t] = "resolve_path" /\ Head(work[t]).name = k
         /\ mgr' = ReservePending(mgr, k, i, fl)
    BY <1>6 DEF Reservation
  <2>1. mgr.identities[i] = NoKey
    BY <1>0, IdentityExact
  <2>2. k \notin HostCompat
    BY DEF Unaliased
  <2>3. mgr.aliases[k] = NoKey
    <3> SUFFICES ASSUME mgr.aliases[k] # NoKey PROVE FALSE
      OBVIOUS
    <3> PICK j \in Inode : /\ <<k, j>> \in NamedFiles
                           /\ mgr.identities[j] = mgr.aliases[k]
      BY <2>2 DEF NamesExact, AliasFor
    <3>1. j = i
      BY SameFile
    <3> QED BY <2>1, <3>1
  <2> DEFINE n == ReservePending(mgr, k, i, fl)
  <2>4. NamesExact(n) /\ Keeps(mgr, n)
    BY <1>0, <2>1, <2>3, ReservePendingExact
  <2>5. mgr' = n
    OBVIOUS
  <2> HIDE DEF n
  <2> QED BY <2>4, <2>5
<1>7. ASSUME NEW t \in Thread, Merge(t) PROVE Good(mgr')
  <2> DEFINE S == AddedNames(t)
             A == added[t]
             D == deps[t]
             F == req[t].flags
  <2>1. S \in SUBSET Key /\ S \subseteq mgr.pending
    BY DEF AddedNames, ReservationInv, PendingOwned
  <2>2. \A k \in S : A[k] \in Inode /\ mgr.identities[A[k]] = k
    <3> SUFFICES ASSUME NEW k \in S
                 PROVE  A[k] \in Inode /\ mgr.identities[A[k]] = k
      OBVIOUS
    <3>1. <<k, A[k]>> \in NamedFiles
      BY DEF ReservationInv, FilesNamed
    <3>2. A[k] \in Inode /\ k \in Key \ Host /\ Registered(mgr, k)
      BY <2>1, <3>1, NamedType, PendingNotHost DEF Registered
    <3> QED BY <3>1, <3>2 DEF ReservationInv, IdentityKnown
  <2> PICK new \in [S -> Module] :
         mgr' = MergeLinkContext(mgr, S, new, A, D, F)
    BY <1>7, MergeFacts DEF ReservationInv
  <2>3. \A k \in S : ~Committed(mgr, k)
    BY <1>0, <2>1
  <2> DEFINE n == MergeLinkContext(mgr, S, new, A, D, F)
  <2>4. mgr' = n
    OBVIOUS
  <2> HIDE DEF S, A, D, F
  <2>5. NamesExact(n) /\ Keeps(mgr, n)
    BY <1>0, <2>1, <2>2, <2>3, MergeExact
  <2> HIDE DEF n
  <2> QED BY <2>4, <2>5
<1> HIDE DEF Good
<1>8. CASE Promotion
  <2> PICK c \in Key, fl \in SUBSET Flag :
         /\ Committed(mgr, c)
         /\ \/ mgr' = Promote(mgr, c, fl)
            \/ \E a \in Key : /\ NameOf(a, c)
                              /\ mgr' = Promote(AddAlias(mgr, c, a), c, fl)
    BY <1>8 DEF Promotion
  <2>1. Registered(mgr, c)
    BY <1>4
  <2>2. CASE mgr' = Promote(mgr, c, fl)
    <3>1. Good(Promote(mgr, c, fl))
      BY <1>0, <1>2, <1>3
    <3> QED BY <2>2, <3>1 DEF Good
  <2>3. ASSUME NEW a \in Key, NameOf(a, c),
               mgr' = Promote(AddAlias(mgr, c, a), c, fl)
        PROVE  Good(mgr')
    <3>1. Good(Promote(AddAlias(mgr, c, a), c, fl))
      BY <1>1, <1>2, <2>1, <2>3
    <3> QED BY <2>3, <3>1 DEF Good
  <2> QED BY <2>2, <2>3 DEF Good
<1>9. CASE NewAlias
  <2> PICK c \in Key, a \in Key :
         Registered(mgr, c) /\ NameOf(a, c) /\ mgr' = AddAlias(mgr, c, a)
    BY <1>9 DEF NewAlias
  <2>1. Good(AddAlias(mgr, c, a))
    BY <1>1
  <2> QED BY <2>1 DEF Good
<1>10. CASE mgr' = mgr
  BY <1>3, <1>10 DEF Good
<1>11. Good(mgr')
  BY <1>5, <1>6, <1>7, <1>8, <1>9, <1>10, ManagerSteps DEF Good
<1>12. QED
  BY <1>11 DEF Good

-----------------------------------------------------------------------------
(* Recorded dependencies are references.                                   *)

(* The image of a registered library stays what it is.                     *)
LEMMA ImagesStay ==
  ASSUME TypeInv, [Next]_vars, NEW x \in Images(mgr)
  PROVE  image'[x] = image[x]
<1>1. x \in Module /\ x \in Live
  BY ImagesOfType, LiveImages DEF TypeInv, TypeOK, Images
<1>2. ASSUME NEW t \in Thread, Merge(t) PROVE image'[x] = image[x]
  BY <1>1, <1>2, MergeFacts
<1>3. ASSUME NEW t \in Thread, DropFields(t) PROVE image'[x] = image[x]
  <2> DEFINE left == [handle EXCEPT ![dropping[t]] = ClosedHandle]
             live == LiveIn(mgr, left, LinkerRefs, image)
  <2>1. image' = [y \in Module |-> IF y \in live THEN image[y] ELSE NoImage]
    BY <1>3 DEF DropFields
  <2>2. x \in live
    BY LiveHolds
  <2> HIDE DEF live
  <2> QED BY <1>1, <2>1, <2>2
<1>4. ASSUME NEW t \in Thread, Step(t), ~Merge(t), ~DropFields(t)
      PROVE  image' = image
  BY <1>4 DEF Step, ExistingByName, ExistingByInode, LinkRoot, FinishExisting,
     Wait, Goto, ResolveByName, ResolveByPath, PrepareRelocation, Relocate,
     Rollback
<1>5. CASE UNCHANGED vars
  BY <1>5 DEF vars
<1>6. ASSUME NEW t \in Thread,
             \/ \E r \in Request : Begin(t, r)
             \/ \E k : HandleOn(t, k)
             \/ \E h \in Handle : Clone(t, h) \/ Drop(t, h)
      PROVE  image' = image
  BY <1>6 DEF Begin, HandleOn, Clone, Drop
<1>7. QED
  BY <1>2, <1>3, <1>4, <1>5, <1>6 DEF Next, This, Addr2dso

(* Entries of link_ctx come with a commit and do not change.               *)
LEMMA EntriesStay ==
  ASSUME OneFilePerName,
         ReservationInv, HandlesResident, [Next]_vars, NEW k \in Key,
         Committed(mgr', k)
  PROVE  /\ Committed(mgr, k) => /\ mgr'.link_ctx[k] = mgr.link_ctx[k]
                                 /\ mgr'.direct[k] = mgr.direct[k]
         /\ ~Committed(mgr, k) =>
              \E t \in Thread : Merge(t) /\ k \in AddedNames(t)
<1>0. mgr \in Manager
  BY DEF ReservationInv, TypeInv, TypeOK
<1> DEFINE Same(n) == n.link_ctx = mgr.link_ctx /\ n.direct = mgr.direct
<1>1. ASSUME Same(mgr')
      PROVE  /\ Committed(mgr, k)
             /\ mgr'.link_ctx[k] = mgr.link_ctx[k]
             /\ mgr'.direct[k] = mgr.direct[k]
  BY <1>1 DEF Committed
<1>2. ASSUME NEW m \in Manager, NEW c \in Key, NEW a \in Key
      PROVE  /\ AddAlias(m, c, a).link_ctx = m.link_ctx
             /\ AddAlias(m, c, a).direct = m.direct
             /\ AddAlias(m, c, a) \in Manager
  <2>1. {a} \in SUBSET Key
    OBVIOUS
  <2>2. AddAlias(m, c, a) \in Manager
    BY <2>1, AddAliasesFacts DEF AddAlias
  <2> QED BY <2>2 DEF AddAlias, AddAliases, Manager
<1>3. ASSUME NEW m \in Manager, NEW c, NEW fl
      PROVE  /\ Promote(m, c, fl).link_ctx = m.link_ctx
             /\ Promote(m, c, fl).direct = m.direct
  BY DEF Promote, Manager
<1>4. ASSUME NEW j, NEW i, NEW fl
      PROVE  Same(ReservePending(mgr, j, i, fl))
  BY <1>0 DEF ReservePending, AddAliases, Manager
<1>5. CASE mgr' = mgr
  BY <1>1, <1>5
<1>6. CASE Promotion
  <2> PICK c \in Key, fl \in SUBSET Flag :
         \/ mgr' = Promote(mgr, c, fl)
         \/ \E a \in Key : mgr' = Promote(AddAlias(mgr, c, a), c, fl)
    BY <1>6 DEF Promotion
  <2>1. CASE mgr' = Promote(mgr, c, fl)
    <3>1. Same(Promote(mgr, c, fl))
      BY <1>0, <1>3
    <3> QED BY <1>1, <2>1, <3>1
  <2>2. ASSUME NEW a \in Key, mgr' = Promote(AddAlias(mgr, c, a), c, fl)
        PROVE  Same(mgr')
    <3> DEFINE m == AddAlias(mgr, c, a)
    <3>1. m \in Manager /\ m.link_ctx = mgr.link_ctx /\ m.direct = mgr.direct
      BY <1>0, <1>2
    <3>2. mgr' = Promote(m, c, fl)
      BY <2>2
    <3> HIDE DEF m
    <3> QED BY <1>3, <3>1, <3>2
  <2> QED BY <1>1, <2>1, <2>2
<1>7. CASE NewAlias
  <2> PICK c \in Key, a \in Key : mgr' = AddAlias(mgr, c, a)
    BY <1>7 DEF NewAlias
  <2>1. Same(AddAlias(mgr, c, a))
    BY <1>0, <1>2
  <2> QED BY <1>1, <2>1
<1>8. CASE Reservation
  <2> PICK j \in Key, i \in Inode, fl \in SUBSET Flag :
         mgr' = ReservePending(mgr, j, i, fl)
    BY <1>8 DEF Reservation
  <2>1. Same(ReservePending(mgr, j, i, fl))
    BY <1>4
  <2> QED BY <1>1, <2>1
<1>9. ASSUME NEW S, Removal(S)
      PROVE  /\ Committed(mgr, k)
             /\ mgr'.link_ctx[k] = mgr.link_ctx[k]
             /\ mgr'.direct[k] = mgr.direct[k]
  <2> DEFINE C == {j \in S \ (S \cap mgr.pending) : Committed(mgr, j)}
  <2>1. mgr' = RemoveAll(mgr, S)
    BY <1>9 DEF Removal
  <2>2. /\ mgr'.link_ctx = [j \in Key |-> IF j \in C THEN NoModule
                                          ELSE mgr.link_ctx[j]]
        /\ mgr'.direct = [j \in Key |-> IF j \in C THEN {} ELSE mgr.direct[j]]
    BY <2>1 DEF RemoveAll
  <2> HIDE DEF C
  <2> QED BY <2>2 DEF Committed
<1>10. ASSUME NEW t \in Thread, Merge(t)
       PROVE  \/ k \in AddedNames(t)
              \/ /\ Committed(mgr, k)
                 /\ mgr'.link_ctx[k] = mgr.link_ctx[k]
                 /\ mgr'.direct[k] = mgr.direct[k]
  <2> DEFINE S == AddedNames(t)
  <2> PICK new : mgr' = MergeLinkContext(mgr, S, new, added[t], deps[t],
                                         req[t].flags)
    BY <1>10 DEF Merge
  <2> HIDE DEF S
  <2>1. /\ mgr'.link_ctx = [j \in Key |-> IF j \in Uncommitted(mgr, S)
                                          THEN new[j] ELSE mgr.link_ctx[j]]
        /\ mgr'.direct = [j \in Key |-> IF j \in Uncommitted(mgr, S)
                                        THEN deps[t][j] ELSE mgr.direct[j]]
    BY DEF MergeLinkContext
  <2>2. k \in Uncommitted(mgr, S) => k \in S
    BY DEF Uncommitted
  <2> HIDE DEF Uncommitted
  <2> QED BY <2>1, <2>2 DEF Committed, S
<1>11. ASSUME NEW t \in Thread
       PROVE  k \in AddedNames(t) => ~Committed(mgr, k)
  BY DEF ReservationInv, PendingOwned
<1> HIDE DEF Same
<1>12. QED
  BY <1>5, <1>6, <1>7, <1>8, <1>9, <1>10, <1>11, ManagerSteps

(* A name leads to the same library as before while that is registered.    *)
LEMMA EdgeKept ==
  ASSUME ReservationInv, HandlesResident, [Next]_vars, ReservationInv',
         Keeps(mgr, mgr'), NEW d \in Key, VisibleContains(mgr, d),
         ImageOf(mgr, d) \in Images(mgr')
  PROVE  VisibleContains(mgr', d) /\ ImageOf(mgr', d) = ImageOf(mgr, d)
<1> DEFINE c == Lookup(mgr, d)
           x == mgr.link_ctx[c]
<1>0. mgr \in Manager /\ mgr' \in Manager
  BY DEF ReservationInv, TypeInv, TypeOK
<1>1. c \in Key /\ c # NoKey /\ Committed(mgr, c) /\ ImageOf(mgr, d) = x
  BY <1>0, LookupType DEF VisibleContains, Found, ImageOf
<1> HIDE DEF c
<1>2. x \in Images(mgr) /\ image[x].key = c
  BY <1>0, <1>1, CommittedImage DEF ReservationInv, FilesNamed
<1>3. image'[x] = image[x]
  BY <1>2, ImagesStay DEF ReservationInv
<1> PICK j \in Key : Committed(mgr', j) /\ x = mgr'.link_ctx[j]
  BY <1>0, <1>1, ImageCommitted DEF Images
<1>4. image'[mgr'.link_ctx[j]].key = j
  BY DEF ReservationInv, FilesNamed
<1>5. j = c
  BY <1>2, <1>3, <1>4
<1>6. Committed(mgr', Lookup(mgr, d))
  BY <1>5 DEF c
<1>7. Lookup(mgr', d) = Lookup(mgr, d) /\ ImageOf(mgr', d) = ImageOf(mgr, d)
  BY <1>6 DEF Keeps
<1>8. QED
  BY <1>1, <1>6, <1>7 DEF VisibleContains, Found, c

(* What a dlopen has resolved for its new libraries is among them, or a    *)
(* committed library whose image it is bound to.                           *)
SessionsBound ==
  \A t \in Thread : pc[t] \in {"relocate", "merge"} =>
    \A k \in AddedNames(t) : \A d \in deps[t][k] :
      \/ d \in AddedNames(t)
      \/ VisibleContains(mgr, d) /\ ImageOf(mgr, d) \in bound[t]

(* A dlopen that relocates or is to commit has been at it, or has just     *)
(* prepared the relocation.                                                *)
LEMMA Relocating ==
  ASSUME TypeInv, [Next]_vars, NEW u \in Thread,
         pc'[u] \in {"relocate", "merge"}
  PROVE  \/ PrepareRelocation(u)
         \/ /\ pc[u] \in {"relocate", "merge"}
            /\ added'[u] = added[u] /\ deps'[u] = deps[u]
            /\ bound'[u] = bound[u]
<1> DEFINE Goal == \/ PrepareRelocation(u)
                   \/ /\ pc[u] \in {"relocate", "merge"}
                      /\ added'[u] = added[u] /\ deps'[u] = deps[u]
                      /\ bound'[u] = bound[u]
<1>0. /\ pc \in [Thread -> PC]
      /\ added \in [Thread -> [Key -> Inode \cup {NoInode}]]
      /\ deps \in [Thread -> [Key -> SUBSET Key]]
      /\ bound \in [Thread -> SUBSET Module]
  BY DEF TypeInv, TypeOK
<1>1. CASE pc'[u] = pc[u] /\ added'[u] = added[u] /\ deps'[u] = deps[u]
           /\ bound'[u] = bound[u]
  BY <1>1
<1>2. ASSUME NEW t \in Thread, t # u, Step(t) PROVE Goal
  <2>1. CASE ExistingByName(t)
    BY <1>0, <1>1, <1>2, <2>1 DEF ExistingByName, FinishExisting, Leave, Wait, Goto
  <2>2. CASE ExistingByInode(t)
    BY <1>0, <1>1, <1>2, <2>2
       DEF ExistingByInode, LinkRoot, FinishExisting, Leave, Wait, Goto
  <2>3. CASE ResolveByName(t)
    BY <1>0, <1>1, <1>2, <2>3 DEF ResolveByName, Resolved, Wait, Goto
  <2>4. CASE ResolveByPath(t)
    BY <1>0, <1>1, <1>2, <2>4 DEF ResolveByPath, Resolved, Wait, Goto
  <2>5. CASE PrepareRelocation(t)
    BY <1>0, <1>1, <1>2, <2>5 DEF PrepareRelocation
  <2>6. CASE Relocate(t)
    BY <1>0, <1>1, <1>2, <2>6 DEF Relocate
  <2>7. CASE Merge(t) \/ Rollback(t)
    BY <1>0, <1>1, <1>2, <2>7 DEF Merge, Rollback, Leave
  <2>8. CASE DropFields(t)
    BY <1>0, <1>1, <1>2, <2>8 DEF DropFields
  <2> QED BY <1>2, <2>1, <2>2, <2>3, <2>4, <2>5, <2>6, <2>7, <2>8 DEF Step
<1>3. ASSUME Step(u) PROVE Goal
  <2>1. CASE ExistingByName(u)
    BY <1>0, <2>1 DEF ExistingByName, FinishExisting, Leave, Wait, Goto
  <2>2. CASE ExistingByInode(u)
    BY <1>0, <2>2
       DEF ExistingByInode, LinkRoot, FinishExisting, Leave, Wait, Goto
  <2>3. CASE ResolveByName(u)
    BY <1>0, <2>3 DEF ResolveByName, Wait, Goto
  <2>4. CASE ResolveByPath(u)
    BY <1>0, <2>4 DEF ResolveByPath, Wait, Goto
  <2>5. CASE PrepareRelocation(u)
    BY <2>5
  <2>6. CASE Relocate(u)
    BY <1>0, <2>6 DEF Relocate
  <2>7. CASE Merge(u) \/ Rollback(u)
    BY <1>0, <2>7 DEF Merge, Rollback, Leave
  <2>8. CASE DropFields(u)
    BY <1>0, <2>8 DEF DropFields
  <2> QED BY <1>3, <2>1, <2>2, <2>3, <2>4, <2>5, <2>6, <2>7, <2>8 DEF Step
<1>4. CASE UNCHANGED vars
  BY <1>1, <1>4 DEF vars
<1>5. ASSUME NEW t \in Thread, NEW r \in Request, Begin(t, r) PROVE Goal
  BY <1>0, <1>1, <1>5 DEF Begin
<1>6. ASSUME NEW t \in Thread, NEW k, HandleOn(t, k) PROVE Goal
  BY <1>0, <1>1, <1>6 DEF HandleOn
<1>7. ASSUME NEW t \in Thread, NEW h \in Handle, Clone(t, h) PROVE Goal
  BY <1>0, <1>1, <1>7 DEF Clone
<1>8. ASSUME NEW t \in Thread, NEW h \in Handle, Drop(t, h) PROVE Goal
  BY <1>0, <1>1, <1>8 DEF Drop
<1>9. ASSUME NEW t \in Thread, Step(t) PROVE Goal
  BY <1>2, <1>3, <1>9
<1>10. QED
  BY <1>4, <1>5, <1>6, <1>7, <1>8, <1>9 DEF Next, This, Addr2dso

(* What a session has resolved outside its group.                          *)
LEMMA ExistingMember ==
  ASSUME NEW t, NEW k \in AddedNames(t), NEW d \in deps[t][k],
         d \notin AddedNames(t)
  PROVE  Lookup(mgr, d) \in Existing(t)
<1> DEFINE all == UNION {deps[t][j] : j \in AddedNames(t)}
           U == all \ AddedNames(t)
<1>1. d \in U
  OBVIOUS
<1>2. Existing(t) = {Lookup(mgr, e) : e \in U}
  BY DEF Existing
<1> HIDE DEF U
<1>3. QED
  BY <1>1, <1>2

(* Every step keeps what the sessions rely on.                             *)
LEMMA NextBound ==
  ASSUME ReservationInv, HandlesResident, [Next]_vars, ReservationInv',
         Keeps(mgr, mgr'), SessionsBound, DepsResident'
  PROVE  SessionsBound'
<1>0. TypeInv
  BY DEF ReservationInv
<1>1. ASSUME NEW u \in Thread, pc'[u] \in {"relocate", "merge"},
             NEW k \in AddedNames(u)', NEW d \in deps'[u][k]
      PROVE  \/ d \in AddedNames(u)'
             \/ VisibleContains(mgr', d) /\ ImageOf(mgr', d) \in bound'[u]
  <2>0. k \in Key /\ deps[u] \in [Key -> SUBSET Key]
    BY <1>0 DEF AddedNames, TypeInv, TypeOK
  <2>1. CASE /\ pc[u] \in {"relocate", "merge"}
             /\ added'[u] = added[u] /\ deps'[u] = deps[u]
             /\ bound'[u] = bound[u]
    <3>1. AddedNames(u)' = AddedNames(u) /\ d \in deps[u][k] /\ d \in Key
      BY <2>0, <2>1 DEF AddedNames
    <3>2. \/ d \in AddedNames(u)
          \/ VisibleContains(mgr, d) /\ ImageOf(mgr, d) \in bound[u]
      BY <2>1, <3>1 DEF SessionsBound
    <3>3. ASSUME VisibleContains(mgr, d), ImageOf(mgr, d) \in bound[u]
          PROVE  VisibleContains(mgr', d) /\ ImageOf(mgr', d) \in bound'[u]
      <4>1. ImageOf(mgr, d) \in Images(mgr')
        BY <2>1, <3>3 DEF DepsResident
      <4> QED BY <2>1, <3>1, <3>3, <4>1, EdgeKept
    <3> QED BY <3>1, <3>2, <3>3
  <2>2. CASE PrepareRelocation(u)
    <3> DEFINE S == AddedNames(u)
               c == Lookup(mgr, d)
    <3>1. mgr' = mgr /\ added' = added /\ deps' = deps
      BY <2>2 DEF PrepareRelocation
    <3>2. AddedNames(u)' = S /\ k \in S /\ d \in deps[u][k]
      BY <3>1 DEF AddedNames
    <3>3. /\ Missing(u) = {}
          /\ bound' = [bound EXCEPT ![u] = ImagesOf(mgr, Existing(u))]
      <4>1. pc \in [Thread -> PC]
        BY <1>0 DEF TypeInv, TypeOK
      <4> QED BY <1>1, <2>2, <3>2, <4>1 DEF PrepareRelocation
    <3>4. CASE d \in S
      BY <3>2, <3>4
    <3>5. CASE d \notin S
      <4>1. c \in Existing(u)
        BY <3>2, <3>5, ExistingMember
      <4>2. c # NoKey /\ Committed(mgr, c)
        BY <3>3, <4>1 DEF Missing
      <4>3. c \in Key
        BY <2>0, <3>2, <4>2, LookupType, <1>0 DEF TypeInv, TypeOK
      <4>4. mgr.link_ctx[c] \in ImagesOf(mgr, Existing(u))
        BY <4>1, <4>2, <4>3 DEF ImagesOf
      <4>5. bound'[u] = ImagesOf(mgr, Existing(u))
        BY <1>0, <3>3 DEF TypeInv, TypeOK
      <4> QED BY <3>1, <4>2, <4>4, <4>5 DEF VisibleContains, Found, ImageOf
    <3> QED BY <3>4, <3>5
  <2> QED BY <1>0, <1>1, <2>1, <2>2, Relocating
<1>2. QED
  BY <1>1 DEF SessionsBound

(* Every step keeps the recorded dependencies among the references.        *)
LEMMA NextRetained ==
  ASSUME OneFilePerName,
         CompatInHost, ReservationInv, HandlesResident, [Next]_vars,
         ReservationInv', NamesOK(mgr), NamesExact(mgr),
         Keeps(mgr, mgr'), SessionsBound, DepsResident',
         Retained(mgr, image)
  PROVE  Retained(mgr', image')
<1>0. TypeInv /\ mgr \in Manager /\ mgr' \in Manager
  BY DEF ReservationInv, TypeInv, TypeOK
<1> SUFFICES ASSUME NEW k \in Key, Committed(mgr', k), NEW d \in mgr'.direct[k]
             PROVE  /\ VisibleContains(mgr', d)
                    /\ ImageOf(mgr', d) \in image'[mgr'.link_ctx[k]].retains
  BY DEF Retained
<1>1. d \in Key
  BY <1>0 DEF Manager
<1>2. CASE Committed(mgr, k)
  <2> DEFINE x == mgr.link_ctx[k]
  <2>1. mgr'.link_ctx[k] = x /\ d \in mgr.direct[k]
    BY <1>2, EntriesStay
  <2>2. x \in Images(mgr) /\ x \in Images(mgr')
    BY <1>0, <1>2, <2>1, CommittedImage
  <2>3. image'[x] = image[x]
    BY <1>0, <2>2, ImagesStay
  <2>4. VisibleContains(mgr, d) /\ ImageOf(mgr, d) \in image[x].retains
    BY <1>2, <2>1 DEF Retained
  <2>5. ImageOf(mgr, d) \in Images(mgr')
    BY <2>2, <2>3, <2>4 DEF DepsResident
  <2>6. VisibleContains(mgr', d) /\ ImageOf(mgr', d) = ImageOf(mgr, d)
    BY <1>1, <2>4, <2>5, EdgeKept
  <2> QED BY <2>1, <2>3, <2>4, <2>6
<1>3. CASE ~Committed(mgr, k)
  <2> PICK t \in Thread : Merge(t) /\ k \in AddedNames(t)
    BY <1>3, EntriesStay
  <2> DEFINE S == AddedNames(t)
             A == added[t]
             D == deps[t]
             F == req[t].flags
             c == Lookup(mgr', d)
  <2>1. S \in SUBSET Key /\ S \subseteq mgr.pending
    BY DEF AddedNames, ReservationInv, PendingOwned
  <2>2. \A j \in S : A[j] \in Inode /\ mgr.identities[A[j]] = j
    <3> SUFFICES ASSUME NEW j \in S
                 PROVE  A[j] \in Inode /\ mgr.identities[A[j]] = j
      OBVIOUS
    <3>1. <<j, A[j]>> \in NamedFiles
      BY DEF ReservationInv, FilesNamed
    <3>2. A[j] \in Inode /\ j \in Key \ Host /\ Registered(mgr, j)
      BY <2>1, <3>1, NamedType, PendingNotHost DEF Registered
    <3> QED BY <3>1, <3>2 DEF ReservationInv, IdentityKnown
  <2>3. \A j \in S : ~Committed(mgr, j)
    BY <2>1 DEF ReservationInv
  <2> PICK new \in [S -> Module] :
         /\ mgr' = MergeLinkContext(mgr, S, new, A, D, F)
         /\ \A j \in S : image'[new[j]].retains
                           = ImagesOf(mgr', {Lookup(mgr', e) : e \in D[j]})
    BY <1>0, MergeFacts
  <2>4. pc[t] = "merge" /\ k \in S
    BY DEF Merge
  <2> DEFINE n == MergeLinkContext(mgr, S, new, A, D, F)
  <2>5. mgr' = n
    OBVIOUS
  <2>6. \A e \in D[k] : e \in S \/ VisibleContains(mgr, e)
    BY <2>4 DEF SessionsBound
  <2> HIDE DEF S, A, D, F
  <2>13. Published(mgr, n, S, new, D)
    BY <1>0, <2>1, <2>2, <2>3, MergeExact
  <2> HIDE DEF n
  <2>7. /\ \A j \in S : /\ Committed(n, j) /\ n.link_ctx[j] = new[j]
                        /\ n.direct[j] = D[j] /\ Lookup(n, j) = j
        /\ \A j \in Key \ S : n.link_ctx[j] = mgr.link_ctx[j]
    BY <2>13 DEF Published
  <2>8. d \in D[k] /\ mgr'.link_ctx[k] = new[k]
    BY <2>4, <2>5, <2>7
  <2>9. VisibleContains(mgr', d)
    <3>1. CASE d \in S
      BY <1>1, <2>5, <2>7, <3>1, RegistryAssumption DEF VisibleContains, Found
    <3>2. CASE VisibleContains(mgr, d)
      <4> DEFINE b == Lookup(mgr, d)
      <4>1. b \in Key /\ b # NoKey /\ Committed(mgr, b)
        BY <1>0, <1>1, <3>2, LookupType DEF VisibleContains, Found
      <4> HIDE DEF b
      <4>2. Committed(mgr', b)
        BY <2>3, <2>5, <2>7, <4>1 DEF Committed
      <4>3. Lookup(mgr', d) = b
        BY <1>1, <3>2, <4>2 DEF Keeps, b
      <4> QED BY <4>1, <4>2, <4>3 DEF VisibleContains, Found
    <3> QED BY <2>6, <2>8, <3>1, <3>2
  <2>10. c \in Key /\ Committed(mgr', c)
    BY <1>0, <1>1, <2>9, LookupType DEF VisibleContains, Found
  <2>11. ImageOf(mgr', d) \in ImagesOf(mgr', {Lookup(mgr', e) : e \in D[k]})
    BY <2>8, <2>10 DEF ImageOf, ImagesOf
  <2>12. ImageOf(mgr', d) \in image'[new[k]].retains
    BY <2>4, <2>11
  <2> QED BY <2>8, <2>9, <2>12
<1>4. QED
  BY <1>2, <1>3

-----------------------------------------------------------------------------
(* Where handles come from.                                                *)

OpenOnes == {t \in Thread : Opening(t)}

(* Every dlopen under way finds an identity for its handle.                *)
FreeEnough == Cardinality(FreeHandles) >= Cardinality(OpenOnes)

(* A handle on the committed library k, made at the end of a dlopen or by  *)
(* a thread that has none under way.                                       *)
HandleMade ==
  /\ \E k \in Key : Committed(mgr', k) /\ NewHandle(mgr', k)
  /\ \/ HandleBound /\ OpenOnes' \subseteq OpenOnes
     \/ \E t \in OpenOnes : OpenOnes' \subseteq OpenOnes \ {t}

(* Nothing happens to the handles.                                         *)
HandlesLeft ==
  /\ handle' = handle
  /\ \/ OpenOnes' \subseteq OpenOnes
     \/ HandleBound /\ \E t \in Thread : OpenOnes' \subseteq OpenOnes \cup {t}

(* finish_existing makes a handle.                                         *)
LEMMA FinishMakes ==
  ASSUME TypeInv, NEW t \in Thread, Opening(t), NEW m \in Manager,
         NEW c \in Key, m.link_ctx = mgr.link_ctx, Committed(mgr, c),
         FinishExisting(t, m, c)
  PROVE  HandleMade
<1> DEFINE fl == req[t].flags
<1>1. fl \in SUBSET Flag
  BY RequestFlags DEF TypeInv
<1>2. mgr' = Promote(m, c, fl) /\ NewHandle(mgr', c)
  BY DEF FinishExisting
<1> HIDE DEF fl
<1>3. mgr'.link_ctx = m.link_ctx
  BY <1>1, <1>2, PromoteFacts
<1>4. Committed(mgr', c)
  BY <1>3 DEF Committed
<1>5. t \in OpenOnes /\ OpenOnes' \subseteq OpenOnes \ {t}
  BY DEF FinishExisting, Leave, OpenOnes, Opening, TypeInv, TypeOK
<1>6. QED
  BY <1>2, <1>4, <1>5 DEF HandleMade

(* So does the commit.                                                     *)
LEMMA MergeMakes ==
  ASSUME TypeInv, NEW t \in Thread, Merge(t)
  PROVE  HandleMade
<1> DEFINE S == AddedNames(t)
<1> PICK new \in [S -> Module] :
       /\ mgr' = MergeLinkContext(mgr, S, new, added[t], deps[t], req[t].flags)
       /\ NewHandle(mgr', root[t])
       /\ Leave(t)
  BY MergeFacts
<1>1. pc[t] = "merge" /\ S \in SUBSET Key
  BY DEF Merge, AddedNames
<1>2. /\ root[t] \in Key
      /\ root[t] \in S \/ Committed(mgr, root[t])
  BY <1>1 DEF TypeInv, TypeOK, Session
<1> HIDE DEF S
<1>3. mgr'.link_ctx = [k \in Key |-> IF k \in Uncommitted(mgr, S) THEN new[k]
                                     ELSE mgr.link_ctx[k]]
  BY DEF MergeLinkContext
<1>4. Committed(mgr', root[t])
  BY <1>2, <1>3, RegistryAssumption DEF Committed, Uncommitted
<1>5. t \in OpenOnes /\ OpenOnes' \subseteq OpenOnes \ {t}
  BY <1>1 DEF Leave, OpenOnes, Opening, TypeInv, TypeOK
<1>6. QED
  BY <1>2, <1>4, <1>5 DEF HandleMade

(* What a step does to the handles.                                        *)
LEMMA HandleSteps ==
  ASSUME TypeInv, [Next]_vars
  PROVE  \/ HandlesLeft \/ HandleMade
         \/ \E t \in Thread, h \in Handle : Clone(t, h)
         \/ \E t \in Thread, h \in Handle : Drop(t, h)
         \/ \E t \in Thread : DropFields(t)
<1>0. pc \in [Thread -> PC] /\ mgr \in Manager
  BY DEF TypeInv, TypeOK
<1>1. ASSUME NEW t \in Thread, ExistingByName(t)
      PROVE  HandlesLeft \/ HandleMade
  <2> DEFINE c == Lookup(mgr, req[t].key)
  <2>1. pc[t] = "existing_name" /\ Opening(t)
    BY <1>1 DEF ExistingByName, Opening
  <2>2. c \in Key \cup {NoKey}
    <3>1. req[t] \in Request
      BY <2>1 DEF TypeInv, Session
    <3> QED BY <1>0, <3>1, RequestType, LookupType
  <2>3. \/ /\ handle' = handle
           /\ \E l \in {"existing_name", "existing_inode"} :
                pc' = [pc EXCEPT ![t] = l]
        \/ c # NoKey /\ Committed(mgr, c) /\ FinishExisting(t, mgr, c)
    BY <1>1 DEF ExistingByName, Goto, Wait
  <2> HIDE DEF c
  <2>4. CASE c # NoKey /\ Committed(mgr, c) /\ FinishExisting(t, mgr, c)
    BY <1>0, <2>1, <2>2, <2>4, FinishMakes
  <2>5. CASE /\ handle' = handle
             /\ \E l \in {"existing_name", "existing_inode"} :
                pc' = [pc EXCEPT ![t] = l]
    BY <1>0, <2>1, <2>5 DEF HandlesLeft, OpenOnes, Opening
  <2> QED BY <2>3, <2>4, <2>5
<1>2. ASSUME NEW t \in Thread, ExistingByInode(t)
      PROVE  HandlesLeft \/ HandleMade
  <2> DEFINE r == req[t]
             c == LookupByIdentity(mgr, r.ino)
             m == AddAlias(mgr, c, r.key)
  <2>1. pc[t] = "existing_inode" /\ Opening(t)
    BY <1>2 DEF ExistingByInode, Opening
  <2>2. r.key \in Key /\ r.ino \in Inode \cup {NoInode}
    <3>1. req[t] \in Request
      BY <2>1 DEF TypeInv, Session
    <3> QED BY <3>1, RequestType
  <2>3. \/ /\ handle' = handle
           /\ \E l \in {"rollback", "resolve_name", "existing_inode"} :
                pc' = [pc EXCEPT ![t] = l]
        \/ /\ r.ino # NoInode /\ c # NoKey /\ Committed(mgr, c)
           /\ FinishExisting(t, m, c)
    BY <1>2 DEF ExistingByInode, LinkRoot, Goto, Wait
  <2> HIDE DEF r
  <2>4. r.ino \in Inode => c \in Key \cup {NoKey}
    BY <1>0, IdentityType
  <2> HIDE DEF c
  <2>5. c \in Key => m \in Manager /\ m.link_ctx = mgr.link_ctx
    <3>1. {r.key} \in SUBSET Key
      BY <2>2
    <3> QED BY <1>0, <3>1, AddAliasesFacts DEF AddAlias
  <2> HIDE DEF m
  <2>6. CASE r.ino # NoInode /\ c # NoKey /\ Committed(mgr, c)
             /\ FinishExisting(t, m, c)
    BY <2>1, <2>2, <2>4, <2>5, <2>6, FinishMakes
  <2>7. CASE /\ handle' = handle
             /\ \E l \in {"rollback", "resolve_name", "existing_inode"} :
                  pc' = [pc EXCEPT ![t] = l]
    BY <1>0, <2>1, <2>7 DEF HandlesLeft, OpenOnes, Opening
  <2> QED BY <2>3, <2>6, <2>7
<1>3. ASSUME NEW t \in Thread, Opening(t), handle' = handle, NEW l,
             pc' = pc \/ pc' = [pc EXCEPT ![t] = l]
      PROVE  HandlesLeft
  BY <1>0, <1>3 DEF HandlesLeft, OpenOnes, Opening
<1>4. ASSUME NEW t \in Thread, ResolveByName(t) \/ ResolveByPath(t)
      PROVE  HandlesLeft
  <2>1. Opening(t) /\ handle' = handle
    BY <1>4 DEF ResolveByName, ResolveByPath, Resolved, Goto, Wait, Opening
  <2>2. \/ pc' = pc
        \/ \E l : pc' = [pc EXCEPT ![t] = l]
    BY <1>4 DEF ResolveByName, ResolveByPath, Resolved, Goto, Wait
  <2> QED BY <1>3, <2>1, <2>2
<1>5. ASSUME NEW t \in Thread,
             PrepareRelocation(t) \/ Relocate(t) \/ Rollback(t)
      PROVE  HandlesLeft
  <2>1. Opening(t) /\ handle' = handle
    BY <1>5 DEF PrepareRelocation, Relocate, Rollback, Opening
  <2>2. \E l : pc' = [pc EXCEPT ![t] = l]
    BY <1>5 DEF PrepareRelocation, Relocate, Rollback, Leave
  <2> QED BY <1>3, <2>1, <2>2
<1>6. ASSUME NEW t \in Thread, Merge(t) PROVE HandleMade
  BY <1>6, MergeMakes
<1>7. ASSUME NEW t \in Thread, NEW r \in Request, Begin(t, r)
      PROVE  HandlesLeft
  <2>1. HandleBound /\ handle' = handle
        /\ pc' = [pc EXCEPT ![t] = "existing_name"]
    BY <1>7 DEF Begin
  <2>2. OpenOnes' \subseteq OpenOnes \cup {t}
    BY <1>0, <2>1 DEF OpenOnes, Opening
  <2> QED BY <2>1, <2>2 DEF HandlesLeft
<1>8. ASSUME NEW t \in Thread, NEW k \in Key, HandleOn(t, k)
      PROVE  HandleMade
  <2>1. /\ HandleBound /\ Committed(mgr', k) /\ NewHandle(mgr', k) /\ pc' = pc
    BY <1>8 DEF HandleOn
  <2>2. OpenOnes' \subseteq OpenOnes
    BY <2>1 DEF OpenOnes, Opening
  <2> QED BY <2>1, <2>2 DEF HandleMade
<1>9. CASE UNCHANGED vars
  BY <1>9 DEF vars, HandlesLeft, OpenOnes, Opening
<1>10. Main \in Key
  BY DlopenAssumption
<1>11. QED
  BY <1>1, <1>2, <1>4, <1>5, <1>6, <1>7, <1>8, <1>9, <1>10
     DEF Next, Step, This, Addr2dso

(* The sets that are counted are finite.                                   *)
LEMMA CountsFinite ==
  /\ IsFiniteSet(FreeHandles) /\ Cardinality(FreeHandles) \in Nat
  /\ IsFiniteSet(OpenOnes) /\ Cardinality(OpenOnes) \in Nat
<1>1. IsFiniteSet(FreeHandles) /\ IsFiniteSet(OpenOnes)
  BY FiniteAssumption, FS_Subset DEF FreeHandles, OpenOnes
<1>2. QED
  BY <1>1, FS_CardinalityType

(* A step that makes a handle finds a free identity.                       *)
LEMMA FreeFound ==
  ASSUME FreeEnough, HandleBound \/ OpenOnes # {}
  PROVE  FreeHandle \in FreeHandles /\ FreeHandle \in Handle
<1>1. Cardinality(FreeHandles) > 0
  <2>1. CASE HandleBound
    BY <2>1, CountsFinite DEF HandleBound, OpenOnes
  <2>2. CASE OpenOnes # {}
    <3>1. Cardinality(OpenOnes) # 0
      BY <2>2, CountsFinite, FS_EmptySet
    <3> QED BY <3>1, CountsFinite DEF FreeEnough
  <2> QED BY <2>1, <2>2
<1>2. FreeHandles # {}
  BY <1>1, FS_EmptySet
<1>3. FreeHandle \in FreeHandles
  BY <1>2 DEF FreeHandle
<1>4. QED
  BY <1>3 DEF FreeHandles

(* Handles are taken one at a time.                                        *)
LEMMA FreeLeft ==
  ASSUME TypeOK, [Next]_vars, FreeEnough,
         HandleMade \/ \E t \in Thread, h \in Handle : Clone(t, h)
  PROVE  FreeHandles \ {FreeHandle} \subseteq FreeHandles'
<1> DEFINE f == FreeHandle
<1>0. handle \in [Handle -> HandleState \cup {ClosedHandle}]
  BY DEF TypeOK
<1>1. PICK lib : /\ handle' = [handle EXCEPT ![f] = lib]
                 /\ \A x \in FreeHandles \ {f} : lib.list # x
  <2>1. CASE HandleMade
    <3> PICK k \in Key : NewHandle(mgr', k)
      BY <2>1 DEF HandleMade
    <3> DEFINE new == [inner |-> mgr'.link_ctx[k], list |-> f,
                       deps |-> LibraryScope(mgr', k), open |-> TRUE]
    <3>1. handle' = [handle EXCEPT ![f] = new]
      BY DEF NewHandle
    <3>2. new.list = f
      OBVIOUS
    <3> HIDE DEF new
    <3>3. \A x \in FreeHandles \ {f} : new.list # x
      BY <3>2
    <3> QED BY <3>1, <3>3
  <2>2. ASSUME NEW t \in Thread, NEW h \in Handle, Clone(t, h)
        PROVE  /\ handle' = [handle EXCEPT ![f] = handle[h]]
               /\ \A x \in FreeHandles \ {f} : handle[h].list # x
    BY <2>2 DEF Clone, FreeHandles
  <2> QED BY <2>1, <2>2
<1> HIDE DEF f
<1>2. ASSUME NEW x \in FreeHandles \ {f}
      PROVE  /\ x \in Handle /\ handle'[x] = ClosedHandle
             /\ \A g \in Handle : handle'[g].list # x
  <2>1. /\ x \in Handle /\ x # f /\ handle[x] = ClosedHandle
        /\ \A g \in Handle : handle[g].list # x
    BY DEF FreeHandles, Exists
  <2> QED BY <1>0, <1>1, <2>1
<1>3. QED
  BY <1>2 DEF FreeHandles, Exists, f

(* A drop frees identities and takes none.                                 *)
LEMMA FreeAfterDrop ==
  ASSUME TypeOK, NEW t \in Thread,
         (\E h \in Handle : Drop(t, h)) \/ DropFields(t)
  PROVE  FreeHandles \subseteq FreeHandles' /\ OpenOnes' \subseteq OpenOnes
<1>0. /\ handle \in [Handle -> HandleState \cup {ClosedHandle}]
      /\ pc \in [Thread -> PC]
  BY DEF TypeOK
<1>1. OpenOnes' \subseteq OpenOnes
  BY <1>0 DEF Drop, DropFields, OpenOnes, Opening
<1>2. ASSUME NEW x \in FreeHandles
      PROVE  /\ x \in Handle /\ handle'[x] = ClosedHandle
             /\ \A g \in Handle : handle'[g].list # x
  <2>1. /\ x \in Handle /\ handle[x] = ClosedHandle
        /\ \A g \in Handle : handle[g].list # x
    BY DEF FreeHandles, Exists
  <2>2. ASSUME NEW h \in Handle, Drop(t, h)
        PROVE  /\ handle'[x] = ClosedHandle
               /\ \A g \in Handle : handle'[g].list # x
    <3>1. /\ handle' = [handle EXCEPT ![h] = [handle[h] EXCEPT !.open = FALSE]]
          /\ handle[h] # ClosedHandle
      BY <2>2 DEF Drop, Exists
    <3>2. handle[h] \in HandleState
      BY <1>0, <3>1
    <3>3. [handle[h] EXCEPT !.open = FALSE].list = handle[h].list
      BY <3>2 DEF HandleState
    <3> QED BY <1>0, <2>1, <3>1, <3>3
  <2>3. ASSUME DropFields(t)
        PROVE  /\ handle'[x] = ClosedHandle
               /\ \A g \in Handle : handle'[g].list # x
    <3>1. handle' = [handle EXCEPT ![dropping[t]] = ClosedHandle]
      BY <2>3 DEF DropFields
    <3>2. ClosedHandle.list # x
      BY <2>1, DlopenAssumption DEF ClosedHandle
    <3> QED BY <1>0, <2>1, <3>1, <3>2
  <2> QED BY <2>1, <2>2, <2>3
<1>3. FreeHandles \subseteq FreeHandles'
  BY <1>2 DEF FreeHandles, Exists
<1>4. QED
  BY <1>1, <1>3

(* Smaller sets count less.                                                *)
LEMMA CountSubset ==
  ASSUME NEW S, IsFiniteSet(S), NEW T, T \subseteq S
  PROVE  /\ IsFiniteSet(T) /\ Cardinality(T) \in Nat
         /\ Cardinality(S) \in Nat /\ Cardinality(T) <= Cardinality(S)
BY FS_Subset, FS_CardinalityType

(* There are always identities for the handles to come.                    *)
LEMMA NextFree ==
  ASSUME TypeInv, [Next]_vars, FreeEnough
  PROVE  FreeEnough'
<1> PICK F1 : F1 = FreeHandles
  OBVIOUS
<1> PICK F2 : F2 = FreeHandles'
  OBVIOUS
<1> PICK O1 : O1 = OpenOnes
  OBVIOUS
<1> PICK O2 : O2 = OpenOnes'
  OBVIOUS
<1>0. /\ IsFiniteSet(F1) /\ IsFiniteSet(F2) /\ IsFiniteSet(O1) /\ IsFiniteSet(O2)
      /\ Cardinality(F1) \in Nat /\ Cardinality(F2) \in Nat
      /\ Cardinality(O1) \in Nat /\ Cardinality(O2) \in Nat
  <2>1. IsFiniteSet(F2) /\ IsFiniteSet(O2)
    BY FiniteAssumption, FS_Subset DEF FreeHandles, OpenOnes
  <2> QED BY <2>1, CountsFinite, FS_CardinalityType
<1>1. SUFFICES Cardinality(F2) >= Cardinality(O2)
  BY DEF FreeEnough
<1>2. Cardinality(F1) >= Cardinality(O1)
  BY DEF FreeEnough
<1>3. HandleBound => Cardinality(F1) > Cardinality(O1)
  BY DEF HandleBound, OpenOnes
<1>4. ASSUME NEW f, F1 \ {f} \subseteq F2
      PROVE  Cardinality(F2) >= Cardinality(F1) - 1
  <2>1. Cardinality(F1 \ {f}) >= Cardinality(F1) - 1
    <3>1. Cardinality(F1 \ {f}) = IF f \in F1 THEN Cardinality(F1) - 1
                                  ELSE Cardinality(F1)
      BY <1>0, FS_RemoveElement
    <3> QED BY <1>0, <3>1
  <2> DEFINE G == F1 \ {f}
  <2>2. Cardinality(G) \in Nat /\ Cardinality(G) <= Cardinality(F2)
    BY <1>0, <1>4, CountSubset
  <2> QED BY <1>0, <2>1, <2>2
<1>5. ASSUME F1 \subseteq F2 PROVE Cardinality(F2) >= Cardinality(F1)
  BY <1>0, <1>5, CountSubset
<1>6. ASSUME O2 \subseteq O1 PROVE Cardinality(O2) <= Cardinality(O1)
  BY <1>0, <1>6, CountSubset
<1>7. CASE HandlesLeft
  <2>1. F2 = F1
    BY <1>7 DEF HandlesLeft, FreeHandles, Exists
  <2>2. CASE O2 \subseteq O1
    BY <1>0, <1>2, <1>6, <2>1, <2>2
  <2>3. ASSUME NEW t, HandleBound, O2 \subseteq O1 \cup {t}
        PROVE  Cardinality(F2) >= Cardinality(O2)
    <3> DEFINE P == O1 \cup {t}
    <3>1. IsFiniteSet(P) /\ Cardinality(P) <= Cardinality(O1) + 1
      <4>1. IsFiniteSet(O1 \cup {t})
            /\ Cardinality(O1 \cup {t}) = IF t \in O1 THEN Cardinality(O1)
                                          ELSE Cardinality(O1) + 1
        BY <1>0, FS_AddElement
      <4> QED BY <1>0, <4>1
    <3>2. O2 \subseteq P
      BY <2>3
    <3> HIDE DEF P
    <3>3. Cardinality(O2) <= Cardinality(P) /\ Cardinality(P) \in Nat
      BY <3>1, <3>2, CountSubset
    <3> QED BY <1>0, <1>3, <2>1, <2>3, <3>1, <3>3
  <2> QED BY <1>7, <2>2, <2>3 DEF HandlesLeft
<1>8. CASE HandleMade
  <2>1. PICK f : F1 \ {f} \subseteq F2
    BY <1>8, FreeLeft DEF TypeInv
  <2>2. Cardinality(F2) >= Cardinality(F1) - 1
    BY <1>4, <2>1
  <2>3. CASE HandleBound /\ O2 \subseteq O1
    BY <1>0, <1>3, <1>6, <2>2, <2>3
  <2>4. ASSUME NEW t \in O1, O2 \subseteq O1 \ {t}
        PROVE  Cardinality(F2) >= Cardinality(O2)
    <3> DEFINE P == O1 \ {t}
    <3>1. IsFiniteSet(P) /\ Cardinality(P) = Cardinality(O1) - 1
      BY <1>0, FS_RemoveElement
    <3>2. O2 \subseteq P
      BY <2>4
    <3> HIDE DEF P
    <3>3. Cardinality(O2) <= Cardinality(P) /\ Cardinality(P) \in Nat
      BY <3>1, <3>2, CountSubset
    <3> QED BY <1>0, <1>2, <2>2, <3>1, <3>3
  <2> QED BY <1>8, <2>3, <2>4 DEF HandleMade
<1>9. ASSUME NEW t \in Thread, NEW h \in Handle, Clone(t, h)
      PROVE  Cardinality(F2) >= Cardinality(O2)
  <2>1. PICK f : F1 \ {f} \subseteq F2
    BY <1>9, FreeLeft DEF TypeInv
  <2>2. Cardinality(F2) >= Cardinality(F1) - 1
    BY <1>4, <2>1
  <2>3. HandleBound /\ O2 = O1
    BY <1>9 DEF Clone, OpenOnes, Opening
  <2> QED BY <1>0, <1>3, <2>2, <2>3
<1>10. ASSUME NEW t \in Thread,
              (\E h \in Handle : Drop(t, h)) \/ DropFields(t)
       PROVE  Cardinality(F2) >= Cardinality(O2)
  <2>1. F1 \subseteq F2 /\ O2 \subseteq O1
    BY <1>10, FreeAfterDrop DEF TypeInv
  <2> QED BY <1>0, <1>2, <1>5, <1>6, <2>1
<1>11. QED
  BY <1>7, <1>8, <1>9, <1>10, HandleSteps

(* A handle on k that is new: its identity names its list.                 *)
Fresh(h, k) ==
  /\ h \in FreeHandles /\ Committed(mgr', k)
  /\ handle'[h] = [inner |-> mgr'.link_ctx[k], list |-> h,
                   deps |-> LibraryScope(mgr', k), open |-> TRUE]

(* A handle that stays open and is h, or of which h is a clone.            *)
Original(g, h) == handle[g].open /\ handle'[g].open /\ handle'[h] = handle[g]

(* Every open handle is a fresh one or goes back to one that was open.     *)
LEMMA HandleOrigin ==
  ASSUME TypeInv, [Next]_vars, FreeEnough, NEW h \in Handle, handle'[h].open
  PROVE  (\E k \in Key : Fresh(h, k)) \/ \E g \in Handle : Original(g, h)
<1> DEFINE f == FreeHandle
<1>0. handle \in [Handle -> HandleState \cup {ClosedHandle}]
  BY DEF TypeInv, TypeOK
<1>1. CASE handle'[h] = handle[h]
  BY <1>1 DEF Original
<1>2. CASE HandlesLeft
  BY <1>1, <1>2 DEF HandlesLeft
<1>3. CASE HandleMade
  <2>1. f \in FreeHandles /\ f \in Handle
    <3>1. HandleBound \/ OpenOnes # {}
      BY <1>3 DEF HandleMade
    <3> QED BY <3>1, FreeFound
  <2> PICK k \in Key : Committed(mgr', k) /\ NewHandle(mgr', k)
    BY <1>3 DEF HandleMade
  <2> DEFINE new == [inner |-> mgr'.link_ctx[k], list |-> f,
                     deps |-> LibraryScope(mgr', k), open |-> TRUE]
  <2>2. handle' = [handle EXCEPT ![f] = new]
    BY DEF NewHandle
  <2>3. CASE h = f
    <3>1. handle'[f] = new
      <4> HIDE DEF new, f
      <4> QED BY <1>0, <2>1, <2>2
    <3>2. Fresh(f, k)
      BY <2>1, <3>1 DEF Fresh
    <3> QED BY <2>3, <3>2
  <2>4. CASE h # f
    <3> HIDE DEF new, f
    <3> QED BY <1>0, <1>1, <2>2, <2>4
  <2> QED BY <2>3, <2>4
<1>4. ASSUME NEW t \in Thread, NEW g \in Handle, Clone(t, g)
      PROVE  handle'[h] = handle[h] \/ \E q \in Handle : Original(q, h)
  <2>1. /\ HandleBound /\ handle[g].open /\ handle[g] # ClosedHandle
        /\ handle' = [handle EXCEPT ![f] = handle[g]]
    BY <1>4 DEF Clone, Exists
  <2>2. f \in FreeHandles /\ f \in Handle
    BY <2>1, FreeFound
  <2>3. g # f
    BY <2>1, <2>2 DEF FreeHandles, Exists
  <2> HIDE DEF f
  <2>4. handle'[g] = handle[g] /\ handle'[f] = handle[g]
    BY <1>0, <2>1, <2>2, <2>3
  <2>5. CASE h = f
    BY <2>1, <2>4, <2>5 DEF Original
  <2>6. CASE h # f
    BY <1>0, <2>1, <2>6
  <2> QED BY <2>5, <2>6
<1>5. ASSUME NEW t \in Thread, NEW g \in Handle, Drop(t, g)
      PROVE  handle'[h] = handle[h]
  <2>1. /\ handle' = [handle EXCEPT ![g] = [handle[g] EXCEPT !.open = FALSE]]
        /\ handle[g] # ClosedHandle
    BY <1>5 DEF Drop, Exists
  <2>2. handle[g] \in HandleState
    BY <1>0, <2>1
  <2>3. [handle[g] EXCEPT !.open = FALSE].open = FALSE
    BY <2>2 DEF HandleState
  <2> QED BY <1>0, <2>1, <2>3
<1>6. ASSUME NEW t \in Thread, DropFields(t) PROVE handle'[h] = handle[h]
  <2>1. handle' = [handle EXCEPT ![dropping[t]] = ClosedHandle]
    BY <1>6 DEF DropFields
  <2>2. ClosedHandle.open = FALSE
    BY DEF ClosedHandle
  <2> QED BY <1>0, <2>1, <2>2
<1>7. QED
  BY <1>1, <1>2, <1>3, <1>4, <1>5, <1>6, HandleSteps

(* While a handle stays open nothing it leads to is removed.               *)
LEMMA HandleKept ==
  ASSUME OneFilePerName,
         ReservationInv, ScopeOK(mgr), HandlesResident, HandlesOK,
         [Next]_vars, mgr' \in Manager, NEW h \in Handle, handle[h].open,
         handle'[h].open
  PROVE  {handle[h].inner} \cup handle[h].deps \subseteq Images(mgr')
<1> SUFFICES ASSUME NEW x \in {handle[h].inner} \cup handle[h].deps
             PROVE  x \in Images(mgr')
  OBVIOUS
<1>0. mgr \in Manager /\ TypeInv
  BY DEF ReservationInv, TypeInv, TypeOK
<1>1. x \in Images(mgr)
  BY DEF HandlesResident
<1> PICK k \in Key : Committed(mgr, k) /\ x = mgr.link_ctx[k]
  BY <1>0, <1>1, ImageCommitted DEF Images
<1>2. Committed(mgr', k)
  <2>1. ASSUME NEW S, Removal(S) PROVE Committed(mgr', k)
    <3>1. S \in SUBSET Key /\ mgr' = RemoveAll(mgr, S)
      BY <2>1 DEF Removal
    <3>2. ASSUME k \in S, NEW g \in Handle, DropOf(S, g) PROVE FALSE
      <4>1. x \in Unloaded(handle[g])
        BY <3>2 DEF DropOf
      <4> PICK t \in Thread : Drop(t, g)
        BY <3>2 DEF DropOf
      <4>2. /\ handle[g].open
            /\ handle' = [handle EXCEPT ![g] = [handle[g] EXCEPT !.open = FALSE]]
            /\ handle[g] # ClosedHandle
        BY DEF Drop, Exists
      <4>3. h # g
        <5>1. handle[g] \in HandleState
              /\ handle \in [Handle -> HandleState \cup {ClosedHandle}]
          BY <1>0, <4>2 DEF TypeInv, TypeOK
        <5>2. [handle[g] EXCEPT !.open = FALSE].open = FALSE
          BY <5>1 DEF HandleState
        <5> QED BY <4>2, <5>1, <5>2
      <4> QED BY <4>1, <4>2, <4>3, UnloadedAlone
    <3>3. k \notin mgr.pending
      BY DEF ReservationInv
    <3>4. k \notin S
      BY <2>1, <3>2, <3>3 DEF Removal
    <3> DEFINE C == {j \in S \ (S \cap mgr.pending) : Committed(mgr, j)}
    <3>5. mgr'.link_ctx = [j \in Key |-> IF j \in C THEN NoModule
                                         ELSE mgr.link_ctx[j]]
      BY <3>1 DEF RemoveAll
    <3>6. k \notin C
      BY <3>4
    <3> HIDE DEF C
    <3> QED BY <3>5, <3>6 DEF Committed
  <2>2. ASSUME NEW t \in Thread, Merge(t) PROVE Committed(mgr', k)
    BY <2>2, MergePublishes DEF PublishesReserved
  <2>3. CASE mgr'.link_ctx = mgr.link_ctx
    BY <2>3 DEF Committed
  <2> QED BY <2>1, <2>2, <2>3, NextCases
<1>3. mgr'.link_ctx[k] = x
  BY <1>2, EntriesStay
<1>4. QED
  BY <1>2, <1>3, CommittedImage

(* Open handles keep their libraries, and their lists are chains.          *)
LEMMA NextHandles ==
  ASSUME OneFilePerName,
         ReservationInv, ScopeOK(mgr), HandlesResident, HandlesOK, FreeEnough,
         [Next]_vars, mgr' \in Manager, Retained(mgr', image')
  PROVE  HandlesResident' /\ HandlesOK'
<1>0. TypeInv /\ TypeOK /\ mgr \in Manager
  BY DEF ReservationInv, TypeInv, TypeOK
<1>1. ASSUME NEW h \in Handle, handle'[h].open
      PROVE  (\E k \in Key : Fresh(h, k)) \/ \E g \in Handle : Original(g, h)
  BY <1>0, <1>1, HandleOrigin
<1>2. ASSUME NEW h \in Handle, NEW k \in Key, Fresh(h, k)
      PROVE  /\ {handle'[h].inner} \cup handle'[h].deps \subseteq Images(mgr')
             /\ Chained(handle'[h].inner, handle'[h].deps, image')
             /\ handle'[h].list = h /\ h \in FreeHandles
  <2>1. /\ handle'[h].inner = mgr'.link_ctx[k]
        /\ handle'[h].deps = LibraryScope(mgr', k)
        /\ handle'[h].list = h /\ h \in FreeHandles
        /\ Committed(mgr', k)
    BY <1>2 DEF Fresh
  <2>2. LibraryScope(mgr', k) \subseteq Images(mgr')
    BY DEF LibraryScope, ImagesOf, Images
  <2>3. mgr'.link_ctx[k] \in Images(mgr')
    BY <2>1, CommittedImage
  <2>4. Chained(mgr'.link_ctx[k], LibraryScope(mgr', k), image')
    BY <2>1, ScopeChained
  <2> QED BY <2>1, <2>2, <2>3, <2>4
<1>3. ASSUME NEW h \in Handle, NEW g \in Handle, Original(g, h)
      PROVE  /\ {handle'[h].inner} \cup handle'[h].deps \subseteq Images(mgr')
             /\ Chained(handle'[h].inner, handle'[h].deps, image')
  <2>1. handle'[h] = handle[g] /\ handle[g].open /\ handle'[g].open
    BY <1>3 DEF Original
  <2>2. {handle[g].inner} \cup handle[g].deps \subseteq Images(mgr')
    BY <2>1, HandleKept
  <2>3. \A x \in handle[g].deps : image'[x] = image[x]
    BY <1>0, <2>1, ImagesStay DEF HandlesResident
  <2>4. Chained(handle[g].inner, handle[g].deps, image)
    BY <2>1 DEF HandlesOK
  <2>5. Chained(handle[g].inner, handle[g].deps, image')
    BY <2>3, <2>4 DEF Chained
  <2> QED BY <2>1, <2>2, <2>5
<1>4. HandlesResident'
  BY <1>1, <1>2, <1>3 DEF HandlesResident
<1>5. ASSUME NEW g \in Handle, NEW h \in Handle, handle'[g].open,
             handle'[h].open, handle'[g].list = handle'[h].list
      PROVE  handle'[g].inner = handle'[h].inner
  <2>1. ASSUME NEW a \in Handle, NEW b \in Handle, NEW c \in Handle,
               NEW k \in Key, Fresh(a, k), Original(c, b)
        PROVE  handle'[a].list # handle'[b].list
    <3>1. handle'[a].list = a /\ a \in FreeHandles
      BY <1>2, <2>1
    <3>2. handle'[b].list = handle[c].list
      BY <2>1 DEF Original
    <3> QED BY <3>1, <3>2 DEF FreeHandles
  <2>2. CASE (\E k \in Key : Fresh(g, k)) /\ \E k \in Key : Fresh(h, k)
    BY <1>2, <1>5, <2>2
  <2>3. ASSUME NEW p \in Handle, NEW q \in Handle, Original(p, g), Original(q, h)
        PROVE  handle'[g].inner = handle'[h].inner
    BY <1>5, <2>3 DEF Original, HandlesOK
  <2> QED BY <1>1, <1>5, <2>1, <2>2, <2>3
<1>6. HandlesOK'
  BY <1>1, <1>2, <1>3, <1>5 DEF HandlesOK
<1>7. QED
  BY <1>4, <1>6

(* The names that init leaves behind are exact.                            *)
LEMMA InitExact == Init => NamesExact(mgr)
<1> SUFFICES ASSUME Init PROVE NamesExact(mgr)
  OBVIOUS
<1> DEFINE owner(a) == {k \in Host : a \in Compat[k] /\ a \notin Host}
<1>1. /\ mgr.pending = {}
      /\ mgr.libnames = [k \in Key |-> {a \in Key : k \in owner(a)}]
      /\ mgr.aliases = [a \in Key |-> IF owner(a) # {}
                                      THEN CHOOSE k \in owner(a) : TRUE
                                      ELSE NoKey]
  BY DEF Init, HostRegistry
<1>2. \A a : \A k \in owner(a) : k \in Host /\ k \in Key /\ a \in Compat[k]
                                 /\ a \in HostCompat
  BY DlopenAssumption DEF HostCompat
<1>3. \A a : \A j, k \in owner(a) : j = k
  BY <1>2, RegistryAssumption
<1>4. \A a \in HostCompat \ Host : owner(a) # {}
  BY DEF HostCompat
<1> HIDE DEF owner
<1>5. ASSUME NEW a \in Key, NEW k \in owner(a) PROVE mgr.aliases[a] = k
  <2> DEFINE j == CHOOSE q \in owner(a) : TRUE
  <2>1. j \in owner(a) /\ mgr.aliases[a] = j
    BY <1>1
  <2> HIDE DEF j
  <2> QED BY <1>3, <2>1
<1>6. ASSUME NEW c \in Key, NEW a \in mgr.libnames[c] PROVE mgr.aliases[a] = c
  BY <1>1, <1>5
<1>7. ASSUME NEW a \in Key, mgr.aliases[a] # NoKey PROVE a \in HostCompat
  <2>1. owner(a) # {}
    BY <1>1, <1>7
  <2> QED BY <1>2, <2>1
<1>8. ASSUME NEW a \in HostCompat \ Host PROVE mgr.aliases[a] \in Host
  <2> PICK k : k \in owner(a)
    BY <1>4
  <2>1. a \in Key
    BY HostCompatType
  <2> QED BY <1>2, <1>5, <2>1
<1>9. NamesListed(mgr)
  BY <1>1, <1>6 DEF NamesListed
<1>10. QED
  BY <1>7, <1>8, <1>9 DEF NamesExact, AliasFor

(* Nothing is open, nothing is under way and nothing is recorded.          *)
LEMMA InitHandles ==
  Init => /\ Unaliased /\ Retained(mgr, image) /\ SessionsBound
          /\ HandlesOK /\ HandlesResident /\ FreeEnough
<1> SUFFICES ASSUME Init
             PROVE  /\ Unaliased /\ Retained(mgr, image) /\ SessionsBound
                    /\ HandlesOK /\ HandlesResident /\ FreeEnough
  OBVIOUS
<1>1. \A t \in Thread : pc[t] = "idle"
  BY DEF Init
<1>2. \A h \in Handle : handle[h].open = FALSE
  BY DEF Init, ClosedHandle
<1>3. Unaliased /\ SessionsBound /\ OpenOnes = {}
  BY <1>1 DEF Unaliased, SessionsBound, OpenOnes, Opening
<1>4. HandlesOK /\ HandlesResident
  BY <1>2 DEF HandlesOK, HandlesResident
<1>5. Retained(mgr, image)
  <2>1. mgr.direct = [k \in Key |-> {}]
    BY DEF Init, HostRegistry
  <2> QED BY <2>1 DEF Retained
<1>6. FreeEnough
  BY <1>3, CountsFinite, FS_EmptySet DEF FreeEnough
<1>7. QED
  BY <1>3, <1>4, <1>5, <1>6

(* All of it is inductive while no library outlives what it was relocated  *)
(* against.                                                                *)
HandleInv ==
  /\ ReservationInv /\ ScopeOK(mgr)
  /\ NamesOK(mgr) /\ Balanced(mgr) /\ NamesExact(mgr) /\ Unaliased
  /\ Retained(mgr, image) /\ SessionsBound
  /\ HandlesOK /\ FreeEnough /\ HandlesResident

(* The invariant holds at the start.                                       *)
LEMMA InitHandleInv == OneFilePerName /\ Init => HandleInv
BY InitReservation, InitScope, InitNames, InitBalance, InitExact, InitHandles
   DEF HandleInv

(* Every step keeps it.                                                    *)
LEMMA NextHandleInv ==
  ASSUME OneFilePerName, CompatInHost, HandleInv, [Next]_vars, DepsResident'
  PROVE  HandleInv'
<1>0. /\ ReservationInv /\ TypeInv /\ ScopeOK(mgr)
      /\ NamesOK(mgr) /\ Balanced(mgr) /\ NamesExact(mgr) /\ Unaliased
      /\ Retained(mgr, image) /\ SessionsBound
      /\ HandlesOK /\ FreeEnough /\ HandlesResident
  BY DEF HandleInv, ReservationInv
<1>1. ReservationInv'
  BY <1>0, NextReservation
<1>2. mgr' \in Manager
  BY <1>1 DEF ReservationInv, TypeInv, TypeOK
<1>3. ScopeOK(mgr')
  BY <1>0, NextScope
<1>4. NamesOK(mgr') /\ Balanced(mgr')
  BY <1>0, NextNames
<1>5. NamesExact(mgr') /\ Keeps(mgr, mgr')
  BY <1>0, NextExact
<1>6. Unaliased'
  BY <1>0, NextUnaliased
<1>7. SessionsBound'
  BY <1>0, <1>1, <1>5, NextBound
<1>8. Retained(mgr', image')
  BY <1>0, <1>1, <1>5, NextRetained
<1>9. HandlesResident' /\ HandlesOK'
  BY <1>0, <1>2, <1>8, NextHandles
<1>10. FreeEnough'
  BY <1>0, NextFree
<1>11. /\ ScopeOK(mgr)' <=> ScopeOK(mgr')
       /\ NamesOK(mgr)' <=> NamesOK(mgr')
       /\ Balanced(mgr)' <=> Balanced(mgr')
       /\ NamesExact(mgr)' <=> NamesExact(mgr')
       /\ Retained(mgr, image)' <=> Retained(mgr', image')
  OBVIOUS
<1>12. QED
  BY <1>1, <1>3, <1>4, <1>5, <1>6, <1>7, <1>8, <1>9, <1>10, <1>11
     DEF HandleInv

(* While a handle is open, its library and every library of its deps list  *)
(* stay registered, for any number of threads, handles and libraries:      *)
(* what Drop unloads by the strong counts that it compares with its        *)
(* thresholds, no other open handle leads to.  Assumed: no two files share *)
(* a shortname, only host libraries have compat names, and no library is   *)
(* unloaded beneath one that was relocated against it (DepsResident): the  *)
(* deps list of a handle is made from the recorded dependencies, and it    *)
(* follows the references only as long as those are kept.                  *)
THEOREM HandlesStayResident ==
  ASSUME OneFilePerName, CompatInHost
  PROVE  Spec /\ []DepsResident => []HandlesResident
<1>1. Init => HandleInv
  BY InitHandleInv
<1>2. HandleInv /\ DepsResident' /\ [Next]_vars => HandleInv'
  BY NextHandleInv
<1>3. HandleInv => HandlesResident
  BY DEF HandleInv
<1>4. QED
  BY <1>1, <1>2, <1>3, PTL DEF Spec

(* All that has been proved of the registry under the assumption that open *)
(* handles keep their libraries follows from the weaker one, that no       *)
(* library is unloaded beneath one that was relocated against it.          *)
THEOREM RegistrySafe ==
  ASSUME OneFilePerName, CompatInHost
  PROVE  Spec /\ []DepsResident
           => [](/\ HandlesResident
                 /\ PendingOwned /\ NeverAlreadyRegistered /\ OneEntryPerFile
                 /\ GlobalScope /\ RemoveConsistent
                 /\ NamesResolve /\ CountersBalance)
<1>1. QED
  BY HandlesStayResident, ReservationSafe, GlobalScopeSafe, NamesAndCounters,
     PTL

-----------------------------------------------------------------------------
(* The flags that an open asks for.                                        *)

(* What a dlopen has reserved, it has reserved with its flags.             *)
FlagsTaken(t) == \A k \in AddedNames(t) : req[t].flags \subseteq mgr.pflags[k]

(* A path that is still to be resolved is known neither by name nor by     *)
(* identity, and nobody else can register it: the lock is held since both  *)
(* were looked up.  So a path that is opened is found by try_existing, or  *)
(* loaded.                                                                 *)
RootMissed(t) ==
  /\ pc[t] = "existing_inode" => req[t].key \notin Host \cup HostCompat
  /\ req[t].slash =>
       /\ root[t] \in AddedNames(t) \cup {NoKey}
       /\ pc[t] \in {"resolve_name", "await_name", "resolve_path"}
            /\ root[t] = NoKey =>
            /\ lock = t
            /\ Lookup(mgr, work[t][1].name) = NoKey
            /\ LookupByIdentity(mgr, work[t][1].ino) = NoKey

(* A name of the host's is always found.                                   *)
LEMMA HostFound ==
  ASSUME ReservationInv, NamesExact(mgr), NEW a \in Host \cup HostCompat
  PROVE  Lookup(mgr, a) # NoKey
<1>1. a \in Key /\ a # NoKey
  BY HostCompatType, RegistryAssumption, DlopenAssumption
<1>2. \A k \in Host : k \in Key /\ k # NoKey /\ Registered(mgr, k)
  BY DlopenAssumption, RegistryAssumption
     DEF ReservationInv, HostKept, Registered
<1>3. a \in Host \/ mgr.aliases[a] \in Host
  BY DEF NamesExact
<1>4. QED
  BY <1>1, <1>2, <1>3 DEF Lookup

(* A file that is not known has no name that is, aliases included.         *)
LEMMA UnknownName ==
  ASSUME OneFilePerName, ReservationInv, NamesOK(mgr), NamesExact(mgr),
         NEW a \in Key \ (Host \cup HostCompat), NEW i \in Inode,
         <<a, i>> \in NamedFiles, LookupByIdentity(mgr, i) = NoKey
  PROVE  Lookup(mgr, a) = NoKey
<1>0. mgr \in Manager
  BY DEF ReservationInv, TypeInv, TypeOK
<1>1. ~Registered(mgr, a)
  BY UnknownFile
<1>2. mgr.aliases[a] = NoKey
  <2> SUFFICES ASSUME mgr.aliases[a] # NoKey PROVE FALSE
    OBVIOUS
  <2> PICK j \in Inode : <<a, j>> \in NamedFiles /\ mgr.identities[j] = mgr.aliases[a]
    BY DEF NamesExact, AliasFor
  <2>1. j = i
    BY SameFile
  <2>2. mgr.identities[i] = NoKey
    BY <1>0, IdentityExact
  <2> QED BY <2>1, <2>2
<1>3. QED
  BY <1>1, <1>2 DEF Lookup

(* The session of u is as it was, and as locked.                           *)
Undisturbed(u) ==
  /\ pc'[u] = pc[u] /\ req'[u] = req[u] /\ root'[u] = root[u]
  /\ work'[u] = work[u] /\ added'[u] = added[u] /\ deps'[u] = deps[u]
  /\ lock = u => lock' = u /\ mgr' = mgr

(* Steps of other threads do not disturb it.                               *)
LEMMA OthersStep ==
  ASSUME TypeInv, NEW t \in Thread, NEW u \in Thread, u # t,
         Step(t) \/ (\E r \in Request : Begin(t, r)) \/ (\E h \in Handle : Drop(t, h))
  PROVE  Undisturbed(u)
<1>0. /\ pc \in [Thread -> PC] /\ req \in [Thread -> Request \cup {NoRequest}]
      /\ work \in [Thread -> Seq(Work)]
      /\ root \in [Thread -> Key \cup {NoKey}]
      /\ added \in [Thread -> [Key -> Inode \cup {NoInode}]]
      /\ deps \in [Thread -> [Key -> SUBSET Key]]
  BY DEF TypeInv, TypeOK
<1>1. CanLock(t) => lock # u
  BY LockedByOther
<1>2. lock = NoThread => lock # u
  BY NotLocked
<1>3. lock = t => lock # u
  OBVIOUS
<1>4. Leave(t) => /\ pc'[u] = pc[u] /\ req'[u] = req[u] /\ root'[u] = root[u]
                  /\ work'[u] = work[u] /\ added'[u] = added[u]
                  /\ deps'[u] = deps[u]
  BY <1>0 DEF Leave
<1>5. ASSUME NEW w, NEW k, NEW more, Resolved(t, w, k, more)
      PROVE  work'[u] = work[u] /\ root'[u] = root[u] /\ deps'[u] = deps[u]
  BY <1>0, <1>5 DEF Resolved
<1>6. ASSUME NEW l, Goto(t, l) PROVE pc'[u] = pc[u] /\ req'[u] = req[u]
  BY <1>0, <1>6 DEF Goto
<1>7. CASE ExistingByName(t)
  BY <1>0, <1>1, <1>4, <1>6, <1>7
     DEF ExistingByName, FinishExisting, Wait, Undisturbed
<1>8. CASE ExistingByInode(t)
  <2>1. LinkRoot(t) => /\ pc'[u] = pc[u] /\ req'[u] = req[u] /\ root'[u] = root[u]
                       /\ work'[u] = work[u] /\ added'[u] = added[u]
                       /\ deps'[u] = deps[u]
    BY <1>0, <1>6 DEF LinkRoot
  <2> QED BY <1>0, <1>1, <1>4, <1>6, <1>8, <2>1
          DEF ExistingByInode, FinishExisting, Wait, Undisturbed
<1>9. CASE ResolveByName(t)
  <2>1. CASE Wait(t, "await_name")
    BY <1>0, <1>3, <2>1 DEF Wait, Undisturbed
  <2>2. CASE ~Wait(t, "await_name")
    <3>1. CanLock(t) /\ added' = added /\ pc'[u] = pc[u] /\ req'[u] = req[u]
      BY <1>6, <1>9, <2>2 DEF ResolveByName
    <3>2. work'[u] = work[u] /\ root'[u] = root[u] /\ deps'[u] = deps[u]
      BY <1>5, <1>9, <2>2 DEF ResolveByName
    <3> QED BY <1>1, <3>1, <3>2 DEF Undisturbed
  <2> QED BY <2>1, <2>2
<1>10. CASE ResolveByPath(t)
  <2>1. CASE Wait(t, "resolve_path")
    BY <1>0, <1>3, <2>1 DEF Wait, Undisturbed
  <2>2. CASE ~Wait(t, "resolve_path")
    <3>1. CanLock(t) /\ pc'[u] = pc[u] /\ req'[u] = req[u]
      BY <1>6, <1>10, <2>2 DEF ResolveByPath
    <3>2. work'[u] = work[u] /\ root'[u] = root[u] /\ deps'[u] = deps[u]
      BY <1>5, <1>10, <2>2 DEF ResolveByPath
    <3>3. added'[u] = added[u]
      BY <1>0, <1>10, <2>2 DEF ResolveByPath
    <3> QED BY <1>1, <3>1, <3>2, <3>3 DEF Undisturbed
  <2> QED BY <2>1, <2>2
<1>11. CASE PrepareRelocation(t)
  BY <1>0, <1>3, <1>11 DEF PrepareRelocation, Undisturbed
<1>12. CASE Relocate(t)
  BY <1>0, <1>12 DEF Relocate, Undisturbed
<1>13. CASE Merge(t)
  BY <1>1, <1>4, <1>13 DEF Merge, Undisturbed
<1>14. CASE Rollback(t)
  BY <1>1, <1>4, <1>14 DEF Rollback, Undisturbed
<1>15. CASE DropFields(t)
  BY <1>0, <1>15 DEF DropFields, Undisturbed
<1>16. ASSUME NEW r \in Request, Begin(t, r) PROVE Undisturbed(u)
  BY <1>0, <1>2, <1>16 DEF Begin, Undisturbed
<1>17. ASSUME NEW h \in Handle, Drop(t, h) PROVE Undisturbed(u)
  BY <1>0, <1>2, <1>17 DEF Drop, Undisturbed
<1>18. QED
  BY <1>7, <1>8, <1>9, <1>10, <1>11, <1>12, <1>13, <1>14, <1>15, <1>16, <1>17
     DEF Step

(* What a step is to the session of u.                                     *)
LEMMA SessionSteps ==
  ASSUME TypeInv, [Next]_vars, NEW u \in Thread
  PROVE  \/ Undisturbed(u) \/ Step(u)
         \/ (\E r \in Request : Begin(u, r)) \/ (\E h \in Handle : Drop(u, h))
<1>1. ASSUME NEW t \in Thread, NEW k, HandleOn(t, k) PROVE Undisturbed(u)
  BY <1>1 DEF HandleOn, Undisturbed
<1>2. ASSUME NEW t \in Thread, NEW h \in Handle, Clone(t, h)
      PROVE  Undisturbed(u)
  BY <1>2 DEF Clone, Undisturbed
<1>3. UNCHANGED vars => Undisturbed(u)
  BY DEF vars, Undisturbed
<1>4. ASSUME NEW t \in Thread, t # u,
             \/ Step(t) \/ (\E r \in Request : Begin(t, r))
             \/ (\E h \in Handle : Drop(t, h))
      PROVE  Undisturbed(u)
  BY <1>4, OthersStep
<1>5. QED
  BY <1>1, <1>2, <1>3, <1>4 DEF Next, This, Addr2dso

(* Outside of its resolution a session keeps RootMissed without effort.    *)
LEMMA RootElsewhere ==
  ASSUME NEW u \in Thread, root'[u] \in AddedNames(u)' \cup {NoKey},
         pc'[u] \notin {"existing_inode", "resolve_name", "await_name",
                        "resolve_path"}
  PROVE  RootMissed(u)'
BY DEF RootMissed

(* A session that has ended, too.                                          *)
LEMMA RootLeft ==
  ASSUME TypeInv, NEW u \in Thread, Leave(u)
  PROVE  RootMissed(u)'
<1>1. pc'[u] = "idle" /\ root'[u] = NoKey
  BY DEF Leave, TypeInv, TypeOK
<1>2. QED
  BY <1>1, RootElsewhere

(* try_existing by name: what is not found is no name of the host's.       *)
LEMMA ExistingByNameRoot ==
  ASSUME ReservationInv, NamesExact(mgr), NEW u \in Thread,
         ExistingByName(u), RootMissed(u)
  PROVE  RootMissed(u)'
<1>0. TypeInv /\ pc \in [Thread -> PC] /\ pc[u] = "existing_name"
  BY DEF ReservationInv, TypeInv, TypeOK, ExistingByName
<1>1. root[u] = NoKey
  BY <1>0 DEF TypeInv, Session
<1>2. CASE Leave(u)
  BY <1>0, <1>2, RootLeft
<1>3. CASE Wait(u, "existing_name")
  <2>1. pc'[u] = "existing_name" /\ root'[u] = NoKey
    BY <1>0, <1>1, <1>3 DEF Wait
  <2> QED BY <2>1, RootElsewhere
<1>4. CASE /\ Lookup(mgr, req[u].key) = NoKey
           /\ Goto(u, "existing_inode") /\ UNCHANGED <<mgr, work, root, added, deps>>
  <2>1. pc'[u] = "existing_inode" /\ root'[u] = NoKey /\ req'[u] = req[u]
    BY <1>0, <1>1, <1>4 DEF Goto
  <2>2. req[u].key \notin Host \cup HostCompat
    BY <1>4, HostFound
  <2> QED BY <2>1, <2>2 DEF RootMissed
<1>5. QED
  BY <1>2, <1>3, <1>4 DEF ExistingByName, FinishExisting

(* try_existing by inode: a path goes on only if neither its file nor its  *)
(* name is known.                                                          *)
LEMMA ExistingByInodeRoot ==
  ASSUME OneFilePerName, ReservationInv, NamesOK(mgr), NamesExact(mgr),
         NEW u \in Thread, ExistingByInode(u), RootMissed(u)
  PROVE  RootMissed(u)'
<1> DEFINE r == req[u]
           c == LookupByIdentity(mgr, r.ino)
<1>0. /\ TypeInv /\ pc \in [Thread -> PC] /\ pc[u] = "existing_inode"
      /\ work \in [Thread -> Seq(Work)]
  BY DEF ReservationInv, TypeInv, TypeOK, ExistingByInode
<1>1. root[u] = NoKey /\ r \in Request
  BY <1>0 DEF TypeInv, Session, Opening
<1>2. r.key \in Key \ (Host \cup HostCompat) /\ r.ino \in Inode \cup {NoInode}
  BY <1>0, <1>1, RequestType DEF RootMissed
<1>3. CASE Leave(u)
  BY <1>0, <1>3, RootLeft
<1>4. CASE Wait(u, "existing_inode")
  <2>1. pc'[u] = pc[u] /\ root'[u] = NoKey /\ req'[u] = req[u]
    BY <1>0, <1>1, <1>4 DEF Wait
  <2> QED BY <1>0, <1>2, <2>1 DEF RootMissed
<1>5. CASE Goto(u, "rollback") /\ root' = root
  <2>1. pc'[u] = "rollback" /\ root'[u] = NoKey
    BY <1>0, <1>1, <1>5 DEF Goto
  <2> QED BY <2>1, RootElsewhere
<1>6. CASE LinkRoot(u) /\ (r.slash => r.ino # NoInode /\ c = NoKey)
  <2>1. CASE "NOLOAD" \in r.flags
    BY <1>5, <1>6, <2>1 DEF LinkRoot
  <2>2. CASE "NOLOAD" \notin r.flags
    <3>1. /\ lock' = u /\ pc'[u] = "resolve_name" /\ req'[u] = r /\ mgr' = mgr
          /\ root'[u] = NoKey
      BY <1>0, <1>1, <1>6, <2>2 DEF LinkRoot, Goto
    <3>2. r.slash => work'[u] = <<[owner |-> NoKey, name |-> r.key, ino |-> r.ino]>>
      BY <1>0, <1>6, <2>2 DEF LinkRoot
    <3>3. r.slash => work'[u][1].name = r.key /\ work'[u][1].ino = r.ino
      BY <3>2
    <3>4. ASSUME r.slash PROVE c = NoKey /\ Lookup(mgr, r.key) = NoKey
      <4>1. r.ino \in Inode /\ c = NoKey
        BY <1>2, <1>6, <3>4
      <4>2. <<r.key, r.ino>> \in NamedFiles
        BY <1>1, <1>6, <3>4 DEF NamedFiles
      <4> QED BY <1>2, <4>1, <4>2, UnknownName
    <3> QED BY <3>1, <3>3, <3>4 DEF RootMissed
  <2> QED BY <2>1, <2>2
<1>7. QED
  BY <1>3, <1>4, <1>5, <1>6 DEF ExistingByInode, FinishExisting

(* A dependency is resolved: the root stays.                               *)
LEMMA ResolvedRoot ==
  ASSUME TypeInv, NEW u \in Thread, work[u] # <<>>, root[u] # NoKey,
         NEW k, NEW more, Resolved(u, Head(work[u]), k, more)
  PROVE  root' = root
<1>1. work[u] \in Seq(Work)
  BY DEF TypeInv, TypeOK
<1>2. Head(work[u]) = work[u][1] /\ 1 \in 1 .. Len(work[u])
  BY <1>1
<1>3. Head(work[u]).owner # NoKey
  BY <1>2 DEF TypeInv, Session
<1>4. QED
  BY <1>3 DEF Resolved

(* resolve_existing_by_name misses the root of a path.                     *)
LEMMA ResolveByNameRoot ==
  ASSUME ReservationInv, NEW u \in Thread, ResolveByName(u), RootMissed(u)
  PROVE  RootMissed(u)'
<1> DEFINE w == Head(work[u])
<1>0. /\ TypeInv /\ pc \in [Thread -> PC]
      /\ pc[u] \in {"resolve_name", "await_name"}
      /\ work[u] \in Seq(Work) /\ work[u] # <<>>
  BY DEF ReservationInv, TypeInv, TypeOK, ResolveByName
<1>1. w = work[u][1]
  BY <1>0
<1>2. AddedNames(u)' = AddedNames(u) /\ req'[u] = req[u]
  BY DEF ResolveByName, Wait, Goto, AddedNames
<1>3. pc'[u] \in {"resolve_name", "await_name", "resolve_path", "rollback"}
  BY <1>0 DEF ResolveByName, Wait, Goto
<1>4. CASE ~req[u].slash
  BY <1>2, <1>3, <1>4 DEF RootMissed
<1>5. CASE req[u].slash /\ root[u] = NoKey
  <2>1. w.owner = NoKey /\ Lookup(mgr, w.name) = NoKey
        /\ LookupByIdentity(mgr, w.ino) = NoKey
    BY <1>0, <1>1, <1>5 DEF TypeInv, Session, RootMissed
  <2>2. mgr' = mgr /\ work' = work /\ root' = root /\ lock' = u
    BY <2>1 DEF ResolveByName, Goto
  <2> QED BY <1>0, <1>1, <1>2, <1>3, <1>5, <2>1, <2>2 DEF RootMissed
<1>6. CASE req[u].slash /\ root[u] # NoKey
  <2>1. root' = root
    BY <1>0, <1>6, ResolvedRoot DEF ResolveByName, Wait
  <2> QED BY <1>2, <1>3, <1>6, <2>1 DEF RootMissed
<1>7. QED
  BY <1>4, <1>5, <1>6

(* resolve_candidate_path loads the root of a path.                        *)
LEMMA ResolveByPathRoot ==
  ASSUME ReservationInv, NEW u \in Thread, ResolveByPath(u), RootMissed(u)
  PROVE  RootMissed(u)'
<1> DEFINE w == Head(work[u])
<1>0. /\ TypeInv /\ pc \in [Thread -> PC] /\ pc[u] = "resolve_path"
      /\ work[u] \in Seq(Work) /\ work[u] # <<>> /\ w.ino # NoInode
      /\ added \in [Thread -> [Key -> Inode \cup {NoInode}]]
      /\ root \in [Thread -> Key \cup {NoKey}]
  BY DEF ReservationInv, TypeInv, TypeOK, ResolveByPath, Session
<1>1. w = work[u][1] /\ w \in Work
  BY <1>0
<1>2. w.name \in Key
  BY <1>1 DEF Work
<1>3. AddedNames(u) \subseteq AddedNames(u)' /\ req'[u] = req[u]
  <2>1. \A k \in Key : added[u][k] # NoInode => added'[u][k] # NoInode
    BY <1>0 DEF ResolveByPath, Wait
  <2> QED BY <2>1 DEF ResolveByPath, Wait, Goto, AddedNames
<1>4. pc'[u] \in {"resolve_name", "resolve_path", "rollback"}
  BY <1>0 DEF ResolveByPath, Wait, Goto
<1>5. CASE ~req[u].slash
  BY <1>3, <1>4, <1>5 DEF RootMissed
<1>6. CASE req[u].slash /\ root[u] = NoKey
  <2>1. /\ w.owner = NoKey /\ AddedNames(u) = {}
        /\ LookupByIdentity(mgr, w.ino) = NoKey
    BY <1>0, <1>1, <1>6 DEF TypeInv, Session, RootMissed
  <2>2. CASE Goto(u, "rollback") /\ root' = root
    BY <1>0, <1>6, <2>2, RootElsewhere DEF Goto
  <2>3. CASE /\ added' = [added EXCEPT ![u][w.name] = w.ino]
             /\ Resolved(u, w, w.name, NeededWork(w.name, w.ino))
    <3>1. root'[u] = w.name
      BY <1>0, <2>1, <2>3 DEF Resolved
    <3>2. w.name \in AddedNames(u)'
      BY <1>0, <1>2, <2>3 DEF AddedNames
    <3>3. w.name # NoKey
      BY <1>2, RegistryAssumption
    <3> QED BY <1>3, <1>4, <3>1, <3>2, <3>3 DEF RootMissed
  <2> QED BY <2>1, <2>2, <2>3 DEF ResolveByPath
<1>7. CASE req[u].slash /\ root[u] # NoKey
  <2>1. root' = root
    BY <1>0, <1>7, ResolvedRoot DEF ResolveByPath, Wait
  <2> QED BY <1>3, <1>4, <1>7, <2>1 DEF RootMissed
<1>8. QED
  BY <1>5, <1>6, <1>7

(* Every step keeps RootMissed.                                            *)
LEMMA NextRoot ==
  ASSUME OneFilePerName, ReservationInv, NamesOK(mgr), NamesExact(mgr),
         [Next]_vars, NEW u \in Thread, RootMissed(u)
  PROVE  RootMissed(u)'
<1>0. TypeInv /\ pc \in [Thread -> PC] /\ Session(u)
  BY DEF ReservationInv, TypeInv, TypeOK
<1>1. CASE Undisturbed(u)
  BY <1>1 DEF Undisturbed, RootMissed, AddedNames
<1>2. CASE ExistingByName(u)
  BY <1>2, ExistingByNameRoot
<1>3. CASE ExistingByInode(u)
  BY <1>3, ExistingByInodeRoot
<1>4. CASE ResolveByName(u)
  BY <1>4, ResolveByNameRoot
<1>5. CASE ResolveByPath(u)
  BY <1>5, ResolveByPathRoot
<1>6. CASE PrepareRelocation(u) \/ Relocate(u)
  <2>1. /\ pc'[u] \in {"merge", "rollback", "relocate"} /\ root' = root
        /\ added' = added /\ req' = req
    BY <1>0, <1>6 DEF PrepareRelocation, Relocate
  <2> QED BY <2>1 DEF RootMissed, AddedNames
<1>7. CASE Merge(u) \/ Rollback(u)
  BY <1>0, <1>7, RootLeft DEF Merge, Rollback
<1>8. ASSUME DropFields(u) \/ (\E r \in Request : Begin(u, r))
             \/ (\E h \in Handle : Drop(u, h))
      PROVE  RootMissed(u)'
  <2>1. /\ pc'[u] \in {"idle", "existing_name", "dropping"} /\ root' = root
        /\ pc[u] \in {"idle", "dropping"}
    BY <1>0, <1>8 DEF DropFields, Begin, Drop
  <2>2. root'[u] = NoKey
    BY <1>0, <2>1 DEF Session
  <2> QED BY <2>1, <2>2, RootElsewhere
<1>9. QED
  BY <1>0, <1>1, <1>2, <1>3, <1>4, <1>5, <1>6, <1>7, <1>8, SessionSteps DEF Step

(* The flags of a reservation stay while it does.                          *)
LEMMA FlagsPend ==
  ASSUME OneFilePerName,
         ReservationInv, HandlesResident, [Next]_vars,
         NEW k \in mgr.pending, k \in mgr'.pending
  PROVE  mgr'.pflags[k] = mgr.pflags[k]
<1>0. mgr \in Manager /\ k \in Key
  BY DEF ReservationInv, TypeInv, TypeOK, Manager
<1>1. ASSUME NEW c, NEW S, NEW j \in Key
      PROVE  AddAliases(mgr, c, S).pflags[j] = mgr.pflags[j]
  BY <1>0 DEF AddAliases, Manager
<1>2. ASSUME NEW m, NEW c, NEW fl PROVE Promote(m, c, fl).pflags = m.pflags
  BY DEF Promote
<1>3. CASE Promotion
  <2> PICK c \in Key, fl \in SUBSET Flag :
         \/ mgr' = Promote(mgr, c, fl)
         \/ \E a \in Key : mgr' = Promote(AddAlias(mgr, c, a), c, fl)
    BY <1>3 DEF Promotion
  <2>1. CASE mgr' = Promote(mgr, c, fl)
    BY <1>2, <2>1
  <2>2. ASSUME NEW a \in Key, mgr' = Promote(AddAlias(mgr, c, a), c, fl)
        PROVE  mgr'.pflags[k] = mgr.pflags[k]
    <3>1. mgr'.pflags = AddAlias(mgr, c, a).pflags
      BY <1>2, <2>2
    <3>2. AddAlias(mgr, c, a).pflags[k] = mgr.pflags[k]
      BY <1>0, <1>1 DEF AddAlias
    <3> QED BY <3>1, <3>2
  <2> QED BY <2>1, <2>2
<1>4. CASE NewAlias
  BY <1>0, <1>1, <1>4 DEF NewAlias, AddAlias
<1>5. CASE Reservation
  <2> PICK j \in Key, i \in Inode, fl \in SUBSET Flag :
         ~Registered(mgr, j) /\ mgr' = ReservePending(mgr, j, i, fl)
    BY <1>5 DEF Reservation
  <2>1. j # k
    BY DEF Registered
  <2>2. mgr'.pflags[k] = [mgr.pflags EXCEPT ![j] = NormalizedFlags(j, fl)][k]
    BY <1>0, ReservePendingFacts DEF ReservePending, AddAliases, Manager
  <2> QED BY <1>0, <2>1, <2>2 DEF Manager
<1>6. ASSUME NEW S, Removal(S) PROVE mgr'.pflags[k] = mgr.pflags[k]
  <2>1. mgr' = RemoveAll(mgr, S)
    BY <1>6 DEF Removal
  <2>2. /\ mgr'.pending = mgr.pending \ (S \cap mgr.pending)
        /\ mgr'.pflags = [j \in Key |-> IF j \in S \cap mgr.pending THEN {}
                                        ELSE mgr.pflags[j]]
    BY <2>1 DEF RemoveAll
  <2> QED BY <1>0, <2>2
<1>7. ASSUME NEW t \in Thread, Merge(t) PROVE mgr'.pflags[k] = mgr.pflags[k]
  <2>1. TypeInv
    BY DEF ReservationInv
  <2> DEFINE S == AddedNames(t)
             new == Uncommitted(mgr, S)
  <2> PICK f \in [S -> Module] :
         mgr' = MergeLinkContext(mgr, S, f, added[t], deps[t], req[t].flags)
    BY <1>7, <2>1, MergeFacts
  <2>2. /\ mgr'.pending = mgr.pending \ new
        /\ mgr'.pflags = [j \in Key |-> IF j \in new THEN {} ELSE mgr.pflags[j]]
    BY DEF MergeLinkContext
  <2> QED BY <1>0, <2>2
<1>8. QED
  BY <1>3, <1>4, <1>5, <1>6, <1>7, ManagerSteps

(* A reservation is made with the flags of the request.                    *)
LEMMA FlagsReserved ==
  ASSUME NEW m \in Manager, NEW k \in Key, NEW i \in Inode, NEW fl \in SUBSET Flag
  PROVE  fl \subseteq ReservePending(m, k, i, fl).pflags[k]
<1>1. m.pflags \in [Key -> SUBSET Flag]
  BY DEF Manager
<1>2. ReservePending(m, k, i, fl).pflags[k] = NormalizedFlags(k, fl)
  BY <1>1 DEF ReservePending, AddAliases
<1>3. QED
  BY <1>2 DEF NormalizedFlags

(* What comes to be added to a session.                                    *)
LEMMA AddedSteps ==
  ASSUME TypeInv, [Next]_vars, NEW u \in Thread, NEW k \in AddedNames(u)'
  PROVE  /\ req'[u] = req[u]
         /\ \/ k \in AddedNames(u)
            \/ \E i \in Inode : mgr' = ReservePending(mgr, k, i, req[u].flags)
<1>0. /\ pc \in [Thread -> PC] /\ Session(u)
      /\ work[u] \in Seq(Work)
      /\ added \in [Thread -> [Key -> Inode \cup {NoInode}]]
      /\ k \in Key /\ added'[u][k] # NoInode
  BY DEF TypeInv, TypeOK, AddedNames
<1>1. CASE added'[u] = added[u] /\ req'[u] = req[u]
  BY <1>0, <1>1 DEF AddedNames
<1>2. Leave(u) => FALSE
  BY <1>0 DEF Leave, NoWork
<1>3. CASE Undisturbed(u)
  BY <1>1, <1>3 DEF Undisturbed
<1>4. CASE ExistingByName(u)
  BY <1>1, <1>2, <1>4 DEF ExistingByName, FinishExisting, Wait, Goto
<1>5. CASE ExistingByInode(u)
  BY <1>1, <1>2, <1>5 DEF ExistingByInode, FinishExisting, Wait, Goto, LinkRoot
<1>6. CASE ResolveByName(u)
  BY <1>1, <1>6 DEF ResolveByName, Wait, Goto
<1>7. CASE ResolveByPath(u)
  <2> DEFINE w == Head(work[u])
  <2>1. w \in Work /\ w.ino # NoInode
    BY <1>0, <1>7 DEF ResolveByPath, Session
  <2>2. w.ino \in Inode
    BY <2>1 DEF Work
  <2>3. req'[u] = req[u]
    BY <1>7 DEF ResolveByPath, Wait, Goto
  <2>4. CASE added' = added
    BY <1>1, <2>3, <2>4
  <2>5. CASE /\ mgr' = ReservePending(mgr, w.name, w.ino, req[u].flags)
             /\ added' = [added EXCEPT ![u][w.name] = w.ino]
    <3>1. CASE k = w.name
      BY <2>2, <2>3, <2>5, <3>1
    <3>2. CASE k # w.name
      BY <1>0, <2>3, <2>5, <3>2 DEF AddedNames
    <3> QED BY <3>1, <3>2
  <2> QED BY <1>7, <2>4, <2>5 DEF ResolveByPath, Wait
<1>8. CASE PrepareRelocation(u) \/ Relocate(u) \/ DropFields(u)
  BY <1>1, <1>8 DEF PrepareRelocation, Relocate, DropFields
<1>9. CASE Merge(u) \/ Rollback(u)
  BY <1>2, <1>9 DEF Merge, Rollback
<1>10. ASSUME NEW r \in Request, Begin(u, r) PROVE FALSE
  <2>1. pc[u] = "idle" /\ added' = added
    BY <1>10 DEF Begin
  <2> QED BY <1>0, <2>1 DEF Session, AddedNames
<1>11. ASSUME NEW h \in Handle, Drop(u, h)
       PROVE  added'[u] = added[u] /\ req'[u] = req[u]
  BY <1>11 DEF Drop
<1>12. QED
  BY <1>1, <1>3, <1>4, <1>5, <1>6, <1>7, <1>8, <1>9, <1>10, <1>11, SessionSteps
     DEF Step

(* Every step keeps FlagsTaken.                                            *)
LEMMA NextTaken ==
  ASSUME OneFilePerName,
         ReservationInv, HandlesResident, ReservationInv', [Next]_vars,
         NEW u \in Thread, FlagsTaken(u)
  PROVE  FlagsTaken(u)'
<1> SUFFICES ASSUME NEW k \in AddedNames(u)'
             PROVE  req'[u].flags \subseteq mgr'.pflags[k]
  BY DEF FlagsTaken
<1>0. TypeInv /\ mgr \in Manager /\ req[u].flags \in SUBSET Flag /\ k \in Key
  BY RequestFlags DEF ReservationInv, TypeInv, TypeOK, AddedNames
<1>1. req'[u] = req[u]
  BY <1>0, AddedSteps
<1>2. CASE k \in AddedNames(u)
  <2>1. k \in mgr.pending /\ k \in mgr'.pending
    BY <1>2 DEF ReservationInv, PendingOwned
  <2>2. mgr'.pflags[k] = mgr.pflags[k]
    BY <2>1, FlagsPend
  <2> QED BY <1>1, <1>2, <2>2 DEF FlagsTaken
<1>3. ASSUME NEW i \in Inode, mgr' = ReservePending(mgr, k, i, req[u].flags)
      PROVE  req[u].flags \subseteq mgr'.pflags[k]
  BY <1>0, <1>3, FlagsReserved
<1>4. QED
  BY <1>0, <1>1, <1>2, <1>3, AddedSteps

(* The handle that an open returns is on its library.                      *)
LEMMA OpenReturns ==
  ASSUME ReservationInv', NEW h \in Handle, handle[h] # handle'[h],
         handle \in [Handle -> HandleState \cup {ClosedHandle}],
         NEW k \in Key, Committed(mgr', k), NewHandle(mgr', k)
  PROVE  image'[handle'[h].inner].key = k
<1> DEFINE new == [inner |-> mgr'.link_ctx[k], list |-> FreeHandle,
                   deps |-> LibraryScope(mgr', k), open |-> TRUE]
<1>1. handle' = [handle EXCEPT ![FreeHandle] = new]
  BY DEF NewHandle
<1>2. new.inner = mgr'.link_ctx[k]
  OBVIOUS
<1> HIDE DEF new
<1>3. handle'[h] = new
  BY <1>1
<1>4. image'[mgr'.link_ctx[k]].key = k
  BY DEF ReservationInv, FilesNamed
<1>5. QED
  BY <1>2, <1>3, <1>4

(* promote gives a library the flags of the request.                       *)
LEMMA FlagsPromoted ==
  ASSUME NEW m \in Manager, NEW k \in Key, NEW fl \in SUBSET Flag
  PROVE  fl \ {"NOLOAD"} \subseteq Promote(m, k, fl).flags[k]
<1>1. fl \ {"NOLOAD"} \subseteq fl \cap {"GLOBAL", "NODELETE"}
  BY DEF Flag
<1>2. m.flags \in [Key -> SUBSET Flag]
  BY DEF Manager
<1>3. \/ /\ fl \cap {"GLOBAL", "NODELETE"} \subseteq m.flags[k]
         /\ Promote(m, k, fl).flags = m.flags
      \/ Promote(m, k, fl).flags =
           [m.flags EXCEPT ![k] = m.flags[k] \cup (fl \cap {"GLOBAL", "NODELETE"})]
  BY DEF Promote, Manager
<1>4. QED
  BY <1>1, <1>2, <1>3

(* The outcome of an open, as FlagsHonoured states it.                     *)
Honoured(t, k) ==
  \/ req[t].flags \ {"NOLOAD"} \subseteq mgr'.flags[k]
  \/ ~req[t].slash /\ root[t] \in Key \ AddedNames(t)

(* finish_existing promotes.                                               *)
LEMMA FinishHonours ==
  ASSUME ReservationInv, ReservationInv', NEW t \in Thread, NEW m \in Manager,
         NEW c \in Key, m.link_ctx = mgr.link_ctx, Committed(mgr, c),
         FinishExisting(t, m, c), NEW h \in Handle, handle[h] # handle'[h]
  PROVE  Honoured(t, image'[handle'[h].inner].key)
<1> DEFINE fl == req[t].flags
<1>1. fl \in SUBSET Flag /\ handle \in [Handle -> HandleState \cup {ClosedHandle}]
  BY RequestFlags DEF ReservationInv, TypeInv, TypeOK
<1>2. mgr' = Promote(m, c, fl) /\ NewHandle(mgr', c)
  BY DEF FinishExisting
<1> HIDE DEF fl
<1>3. mgr'.link_ctx = m.link_ctx
  BY <1>1, <1>2, PromoteFacts
<1>4. Committed(mgr', c)
  BY <1>3 DEF Committed
<1>5. image'[handle'[h].inner].key = c
  BY <1>1, <1>2, <1>4, OpenReturns
<1>6. fl \ {"NOLOAD"} \subseteq mgr'.flags[c]
  BY <1>1, <1>2, FlagsPromoted
<1>7. QED
  BY <1>5, <1>6 DEF Honoured, fl

(* The commit publishes what it loaded with the flags of the reservation.  *)
LEMMA MergeHonours ==
  ASSUME ReservationInv, ReservationInv', NEW t \in Thread, Merge(t),
         FlagsTaken(t), RootMissed(t), NEW h \in Handle, handle[h] # handle'[h]
  PROVE  Honoured(t, image'[handle'[h].inner].key)
<1> DEFINE S == AddedNames(t)
<1>0. /\ TypeInv /\ mgr \in Manager
      /\ handle \in [Handle -> HandleState \cup {ClosedHandle}]
  BY DEF ReservationInv, TypeInv, TypeOK
<1> PICK new \in [S -> Module] :
       /\ mgr' = MergeLinkContext(mgr, S, new, added[t], deps[t], req[t].flags)
       /\ NewHandle(mgr', root[t])
  BY <1>0, MergeFacts
<1>1. pc[t] = "merge" /\ S \in SUBSET Key
  BY DEF Merge, AddedNames
<1>2. /\ root[t] \in Key /\ root[t] # NoKey
      /\ root[t] \in S \/ Committed(mgr, root[t])
  BY <1>0, <1>1 DEF TypeInv, TypeOK, Session
<1>3. S \subseteq mgr.pending /\ \A k \in S : ~Committed(mgr, k)
  BY DEF ReservationInv, PendingOwned
<1>4. \A k \in S : req[t].flags \subseteq mgr.pflags[k]
  BY DEF FlagsTaken
<1>5. root[t] \in S \/ ~req[t].slash
  BY <1>2 DEF RootMissed
<1> HIDE DEF S
<1>6. mgr'.link_ctx = [k \in Key |-> IF k \in Uncommitted(mgr, S) THEN new[k]
                                     ELSE mgr.link_ctx[k]]
  BY DEF MergeLinkContext
<1>7. Committed(mgr', root[t])
  BY <1>2, <1>6, RegistryAssumption DEF Committed, Uncommitted
<1>8. image'[handle'[h].inner].key = root[t]
  BY <1>0, <1>2, <1>7, OpenReturns
<1>9. ASSUME root[t] \in S PROVE mgr'.flags[root[t]] = mgr.pflags[root[t]]
  <2>1. root[t] \in Uncommitted(mgr, S) /\ root[t] \in mgr.pending
    BY <1>3, <1>9 DEF Uncommitted
  <2> QED BY <1>2, <2>1 DEF MergeLinkContext
<1>10. QED
  BY <1>2, <1>4, <1>5, <1>8, <1>9 DEF Honoured, S

(* Every open that ends with a handle ends in one of the two.              *)
LEMMA StepHonours ==
  ASSUME ReservationInv, ReservationInv', [Next]_vars,
         NEW t \in Thread, FlagsTaken(t), RootMissed(t), Opening(t),
         pc'[t] = "idle", NEW h \in Handle, handle[h] # handle'[h]
  PROVE  Honoured(t, image'[handle'[h].inner].key)
<1>0. TypeInv /\ mgr \in Manager /\ pc \in [Thread -> PC]
  BY DEF ReservationInv, TypeInv, TypeOK
<1>1. pc[t] \notin {"idle", "dropping"} /\ req[t] \in Request
  BY <1>0 DEF Opening, TypeInv, Session
<1>2. CASE ExistingByName(t)
  <2> DEFINE c == Lookup(mgr, req[t].key)
  <2>1. c # NoKey /\ Committed(mgr, c) /\ FinishExisting(t, mgr, c)
    BY <1>0, <1>2 DEF ExistingByName, Goto, Wait
  <2>2. c \in Key
    BY <1>0, <1>1, <2>1, RequestType, LookupType
  <2> HIDE DEF c
  <2> QED BY <1>0, <2>1, <2>2, FinishHonours
<1>3. CASE ExistingByInode(t)
  <2> DEFINE c == LookupByIdentity(mgr, req[t].ino)
             m == AddAlias(mgr, c, req[t].key)
  <2>1. /\ req[t].ino # NoInode /\ c # NoKey /\ Committed(mgr, c)
        /\ FinishExisting(t, m, c)
    BY <1>0, <1>3 DEF ExistingByInode, Goto, Wait, LinkRoot
  <2>2. c \in Key /\ req[t].key \in Key
    BY <1>0, <1>1, <2>1, RequestType, IdentityType
  <2> HIDE DEF c
  <2>3. m \in Manager /\ m.link_ctx = mgr.link_ctx
    BY <1>0, <2>2, AddAliasesFacts DEF AddAlias
  <2> HIDE DEF m
  <2> QED BY <1>0, <2>1, <2>2, <2>3, FinishHonours
<1>4. CASE Merge(t)
  BY <1>4, MergeHonours
<1>5. CASE Rollback(t)
  BY <1>5 DEF Rollback
<1>6. CASE Undisturbed(t)
  BY <1>1, <1>6 DEF Undisturbed
<1>7. CASE ResolveByName(t) \/ ResolveByPath(t)
  BY <1>0, <1>1, <1>7 DEF ResolveByName, ResolveByPath, Goto, Wait
<1>8. CASE PrepareRelocation(t) \/ Relocate(t)
  BY <1>0, <1>8 DEF PrepareRelocation, Relocate
<1>9. ASSUME \/ DropFields(t) \/ (\E r \in Request : Begin(t, r))
             \/ (\E g \in Handle : Drop(t, g))
      PROVE  FALSE
  BY <1>1, <1>9 DEF DropFields, Begin, Drop
<1>10. QED
  BY <1>0, <1>2, <1>3, <1>4, <1>5, <1>6, <1>7, <1>8, <1>9, SessionSteps DEF Step

(* What keeps an open's flags: the reservations carry them, and a path is  *)
(* found by try_existing, which promotes, or loaded.                       *)
FlagsInv ==
  /\ ReservationInv
  /\ NamesOK(mgr) /\ Balanced(mgr) /\ NamesExact(mgr) /\ Unaliased
  /\ \A t \in Thread : FlagsTaken(t) /\ RootMissed(t)

(* It holds at first.                                                      *)
LEMMA InitFlags == OneFilePerName /\ Init => FlagsInv
<1> SUFFICES ASSUME OneFilePerName, Init PROVE FlagsInv
  OBVIOUS
<1>1. /\ ReservationInv /\ NamesOK(mgr) /\ Balanced(mgr) /\ NamesExact(mgr)
      /\ Unaliased
  BY InitReservation, InitNames, InitBalance, InitExact DEF Init, Unaliased
<1>2. ASSUME NEW t \in Thread PROVE FlagsTaken(t) /\ RootMissed(t)
  BY DEF Init, NoWork, AddedNames, FlagsTaken, RootMissed
<1>3. QED
  BY <1>1, <1>2 DEF FlagsInv

(* Every step keeps it.                                                    *)
LEMMA NextFlags ==
  ASSUME OneFilePerName, CompatInHost, FlagsInv, HandlesResident, [Next]_vars
  PROVE  FlagsInv'
<1>0. /\ ReservationInv /\ NamesOK(mgr) /\ Balanced(mgr) /\ NamesExact(mgr)
      /\ Unaliased
  BY DEF FlagsInv
<1>1. ReservationInv'
  BY <1>0, NextReservation
<1>2. NamesOK(mgr') /\ Balanced(mgr')
  BY <1>0, NextNames
<1>3. NamesExact(mgr')
  BY <1>0, NextExact
<1>4. Unaliased'
  BY <1>0, NextUnaliased
<1>5. ASSUME NEW t \in Thread PROVE FlagsTaken(t)' /\ RootMissed(t)'
  <2>1. FlagsTaken(t) /\ RootMissed(t)
    BY DEF FlagsInv
  <2> QED BY <1>0, <1>1, <2>1, NextTaken, NextRoot
<1>6. /\ NamesOK(mgr)' <=> NamesOK(mgr')
      /\ Balanced(mgr)' <=> Balanced(mgr')
      /\ NamesExact(mgr)' <=> NamesExact(mgr')
  OBVIOUS
<1>7. QED
  BY <1>1, <1>2, <1>3, <1>4, <1>5, <1>6 DEF FlagsInv

(* A dlopen returns its library with the RTLD_GLOBAL and RTLD_NODELETE     *)
(* that it asked for, for any number of threads, names and files, although *)
(* the lock is let go in every wait and during relocation and others open  *)
(* the same library with weaker flags.  The exception is that of           *)
(* FlagsHonoured: a bare name that the search leads to a library which is  *)
(* already registered.                                                     *)
THEOREM OpensHonourFlags ==
  ASSUME OneFilePerName, CompatInHost
  PROVE  Spec /\ []HandlesResident => FlagsHonoured
<1> DEFINE Good == \A t \in Thread, h \in Handle :
              /\ Opening(t) /\ pc'[t] = "idle"
              /\ handle[h] = ClosedHandle /\ handle'[h] # ClosedHandle
              => LET k == image'[handle'[h].inner].key
                 IN  \/ req[t].flags \ {"NOLOAD"} \subseteq mgr'.flags[k]
                     \/ /\ ~req[t].slash
                        /\ root[t] \in Key \ AddedNames(t)
<1>1. Init => FlagsInv
  BY InitFlags
<1>2. FlagsInv /\ HandlesResident /\ [Next]_vars => FlagsInv'
  BY NextFlags
<1>3. FlagsInv /\ FlagsInv' /\ [Next]_vars => [Good]_vars
  <2> SUFFICES ASSUME FlagsInv, FlagsInv', [Next]_vars PROVE Good
    OBVIOUS
  <2>1. ASSUME NEW t \in Thread, NEW h \in Handle, Opening(t), pc'[t] = "idle",
               handle[h] # handle'[h]
        PROVE  Honoured(t, image'[handle'[h].inner].key)
    <3>1. /\ ReservationInv /\ ReservationInv'
          /\ FlagsTaken(t) /\ RootMissed(t)
      BY DEF FlagsInv
    <3> QED BY <2>1, <3>1, StepHonours
  <2> QED BY <2>1 DEF Honoured
<1>4. QED
  BY <1>1, <1>2, <1>3, PTL DEF Spec, FlagsHonoured

-----------------------------------------------------------------------------
(* Libraries whose dependencies have none themselves.                      *)

(* A name of the host's, or one whose file needs nothing.  The host's      *)
(* libraries are registered without their dependencies.                    *)
LeafName(d) ==
  \/ d \in Host \cup HostCompat
  \/ \A i \in Inode : <<d, i>> \in NamedFiles => Needed[i] = <<>>

(* What a file needs is the host's, or needs nothing: plugins on top of    *)
(* shared libraries on top of the host's.                                  *)
FlatNeeds ==
  \A i \in Inode : \A n \in 1 .. Len(Needed[i]) : LeafName(Needed[i][n])

(* The identity table leads from a file to a name of that file.            *)
IdentitiesNamed(m) ==
  \A i \in Inode : m.identities[i] # NoKey =>
    <<m.identities[i], i>> \in NamedFiles

(* A session resolves leaves, for libraries that are none.                 *)
FlatSession(t) ==
  /\ \A n \in 1 .. Len(work[t]) : work[t][n].owner # NoKey =>
       ~LeafName(work[t][n].owner) /\ LeafName(work[t][n].name)
  /\ \A k \in Key : \A d \in deps[t][k] : ~LeafName(k) /\ LeafName(d)

(* What a registered image retains are leaves, and it is none.             *)
FlatImages ==
  \A x \in Images(mgr) : \A y \in image[x].retains :
    ~LeafName(image[x].key) /\ LeafName(image[y].key)

(* Another name of a leaf's file is a leaf.                                *)
LEMMA SameFileLeaf ==
  ASSUME OneFilePerName, NEW d, d \notin Host \cup HostCompat, LeafName(d),
         NEW i \in Inode, <<d, i>> \in NamedFiles,
         NEW c, <<c, i>> \in NamedFiles
  PROVE  LeafName(c)
<1>1. Needed[i] = <<>>
  BY DEF LeafName
<1>2. \A j \in Inode : <<c, j>> \in NamedFiles => j = i
  BY SameFile
<1>3. QED
  BY <1>1, <1>2 DEF LeafName

(* A leaf's name leads to a leaf.                                          *)
LEMMA LookupLeaf ==
  ASSUME OneFilePerName, NEW m \in Manager, NamesExact(m), IdentitiesNamed(m),
         \A k \in Host : Committed(m, k),
         NEW d \in Key, LeafName(d), Lookup(m, d) # NoKey
  PROVE  LeafName(Lookup(m, d))
<1> DEFINE c == Lookup(m, d)
<1>1. CASE Registered(m, d)
  BY <1>1 DEF Lookup
<1>2. CASE ~Registered(m, d)
  <2>1. c = m.aliases[d] /\ c # NoKey
    BY <1>2 DEF Lookup
  <2> HIDE DEF c
  <2>2. d \notin Host /\ AliasFor(m, d, c)
    BY <1>2, <2>1 DEF NamesExact, Registered
  <2>3. CASE d \in HostCompat
    <3>1. c \in Host
      BY <2>1, <2>2, <2>3 DEF NamesExact
    <3> QED BY <3>1 DEF LeafName, c
  <2>4. CASE d \notin HostCompat
    <3> PICK i \in Inode : <<d, i>> \in NamedFiles /\ m.identities[i] = c
      BY <2>2, <2>4 DEF AliasFor
    <3>1. <<c, i>> \in NamedFiles
      BY <2>1 DEF IdentitiesNamed
    <3>2. LeafName(c)
      BY <2>2, <2>4, <3>1, SameFileLeaf
    <3> QED BY <3>2 DEF c
  <2> QED BY <2>3, <2>4
<1>3. QED
  BY <1>1, <1>2

(* Every step keeps the identity table to the names of the files.          *)
LEMMA NextIdentities ==
  ASSUME OneFilePerName,
         ReservationInv, HandlesResident, [Next]_vars, IdentitiesNamed(mgr)
  PROVE  IdentitiesNamed(mgr')
<1>0. mgr \in Manager
  BY DEF ReservationInv, TypeInv, TypeOK
<1>1. ASSUME mgr'.identities = mgr.identities PROVE IdentitiesNamed(mgr')
  BY <1>1 DEF IdentitiesNamed
<1>2. ASSUME NEW m \in Manager, NEW c, NEW S
      PROVE  AddAliases(m, c, S).identities = m.identities
  BY DEF AddAliases, Manager
<1>3. ASSUME NEW m \in Manager, NEW c, NEW fl
      PROVE  Promote(m, c, fl).identities = m.identities
  BY DEF Promote, Manager
<1>4. ASSUME NEW c \in Key, NEW a \in Key
      PROVE  /\ AddAlias(mgr, c, a) \in Manager
             /\ AddAlias(mgr, c, a).identities = mgr.identities
  <2>1. {a} \in SUBSET Key
    OBVIOUS
  <2> QED BY <1>0, <1>2, <2>1, AddAliasesFacts DEF AddAlias
<1>5. CASE mgr' = mgr
  BY <1>1, <1>5
<1>6. CASE Promotion
  <2> PICK c \in Key, fl \in SUBSET Flag :
         \/ mgr' = Promote(mgr, c, fl)
         \/ \E a \in Key : mgr' = Promote(AddAlias(mgr, c, a), c, fl)
    BY <1>6 DEF Promotion
  <2>1. CASE mgr' = Promote(mgr, c, fl)
    BY <1>0, <1>1, <1>3, <2>1
  <2>2. ASSUME NEW a \in Key, mgr' = Promote(AddAlias(mgr, c, a), c, fl)
        PROVE  mgr'.identities = mgr.identities
    BY <1>3, <1>4, <2>2
  <2> QED BY <1>1, <2>1, <2>2
<1>7. CASE NewAlias
  <2> PICK c \in Key, a \in Key : mgr' = AddAlias(mgr, c, a)
    BY <1>7 DEF NewAlias
  <2> QED BY <1>1, <1>4
<1>8. CASE Reservation
  <2> PICK k \in Key, i \in Inode, fl \in SUBSET Flag :
         <<k, i>> \in NamedFiles /\ mgr' = ReservePending(mgr, k, i, fl)
    BY <1>8 DEF Reservation
  <2>1. mgr'.identities = [mgr.identities EXCEPT ![i] = k]
    BY <1>0 DEF ReservePending, AddAliases, Manager
  <2>2. mgr.identities \in [Inode -> Key \cup {NoKey}]
    BY <1>0 DEF Manager
  <2> QED BY <2>1, <2>2 DEF IdentitiesNamed
<1>9. ASSUME NEW S, Removal(S) PROVE IdentitiesNamed(mgr')
  <2>1. mgr' = RemoveAll(mgr, S)
    BY <1>9 DEF Removal
  <2>2. \A i \in Inode : mgr'.identities[i] \in {mgr.identities[i], NoKey}
    BY <2>1 DEF RemoveAll
  <2> QED BY <2>2 DEF IdentitiesNamed
<1>10. ASSUME NEW t \in Thread, Merge(t) PROVE IdentitiesNamed(mgr')
  <2> DEFINE S == AddedNames(t)
             A == added[t]
             U == Uncommitted(mgr, S)
  <2> PICK new : mgr' = MergeLinkContext(mgr, S, new, A, deps[t], req[t].flags)
    BY <1>10 DEF Merge
  <2>1. \A k \in U : <<k, A[k]>> \in NamedFiles
    BY DEF ReservationInv, FilesNamed, Uncommitted
  <2> HIDE DEF S, A
  <2>2. mgr'.identities = [i \in Inode |-> IF \E k \in U : A[k] = i
                                           THEN CHOOSE k \in U : A[k] = i
                                           ELSE mgr.identities[i]]
    BY DEF MergeLinkContext
  <2> HIDE DEF U
  <2> SUFFICES ASSUME NEW i \in Inode, mgr'.identities[i] # NoKey
               PROVE  <<mgr'.identities[i], i>> \in NamedFiles
    BY DEF IdentitiesNamed
  <2>3. CASE \E k \in U : A[k] = i
    <3> DEFINE j == CHOOSE k \in U : A[k] = i
    <3>1. j \in U /\ A[j] = i
      BY <2>3
    <3>2. mgr'.identities[i] = j
      BY <2>2, <2>3
    <3> HIDE DEF j
    <3> QED BY <2>1, <3>1, <3>2
  <2>4. CASE ~\E k \in U : A[k] = i
    BY <2>2, <2>4 DEF IdentitiesNamed
  <2> QED BY <2>3, <2>4
<1>11. QED
  BY <1>5, <1>6, <1>7, <1>8, <1>9, <1>10, ManagerSteps

-----------------------------------------------------------------------------
(* What a session resolves.                                                *)

(* A name is resolved to a leaf, or for the root; more names come in.      *)
LEMMA ResolvedFlat ==
  ASSUME TypeInv, NEW u \in Thread, FlatSession(u), work[u] # <<>>,
         NEW w, w = Head(work[u]), NEW k \in Key, NEW more \in Seq(Work),
         \A n \in 1 .. Len(more) :
           ~LeafName(more[n].owner) /\ LeafName(more[n].name),
         w.owner # NoKey => LeafName(k),
         Resolved(u, w, k, more)
  PROVE  FlatSession(u)'
<1> DEFINE old == work[u]
           next == Tail(old) \o more
<1>1. old \in Seq(Work) /\ 1 \in 1 .. Len(old) /\ work \in [Thread -> Seq(Work)]
      /\ deps \in [Thread -> [Key -> SUBSET Key]]
  BY DEF TypeInv, TypeOK
<1>2. /\ \A n \in 1 .. Len(next) : \/ \E j \in 2 .. Len(old) : next[n] = old[j]
                                   \/ \E j \in 1 .. Len(more) : next[n] = more[j]
      /\ w = old[1] /\ w \in Work
  BY <1>1, NextWork
<1>3. work'[u] = next
  BY <1>1 DEF Resolved
<1>4. \A j \in 1 .. Len(old) : old[j].owner # NoKey =>
        ~LeafName(old[j].owner) /\ LeafName(old[j].name)
  BY DEF FlatSession
<1>5. \A j \in 2 .. Len(old) : j \in 1 .. Len(old)
  BY <1>1
<1>6. \A n \in 1 .. Len(next) : next[n].owner # NoKey =>
        ~LeafName(next[n].owner) /\ LeafName(next[n].name)
  BY <1>2, <1>4, <1>5
<1> HIDE DEF next, old
<1>7. \A n \in 1 .. Len(work'[u]) : work'[u][n].owner # NoKey =>
        ~LeafName(work'[u][n].owner) /\ LeafName(work'[u][n].name)
  BY <1>3, <1>6
<1>8. ASSUME NEW j \in Key, NEW d \in deps'[u][j]
      PROVE  ~LeafName(j) /\ LeafName(d)
  <2>1. CASE d \in deps[u][j]
    BY <2>1 DEF FlatSession
  <2>2. CASE d \notin deps[u][j]
    <3>1. w.owner # NoKey /\ deps' = [deps EXCEPT ![u][w.owner] = @ \cup {k}]
      BY <1>8, <2>2 DEF Resolved
    <3>2. w.owner \in Key
      BY <1>2, <3>1 DEF Work
    <3>3. j = w.owner /\ d = k
      BY <1>1, <1>8, <2>2, <3>1, <3>2
    <3>4. ~LeafName(w.owner)
      BY <1>1, <1>2, <1>4, <3>1
    <3> QED BY <3>1, <3>3, <3>4
  <2> QED BY <2>1, <2>2
<1>9. QED
  BY <1>7, <1>8 DEF FlatSession

(* resolve_existing_by_name finds leaves for leaves.                       *)
LEMMA ResolveByNameFlat ==
  ASSUME OneFilePerName, ReservationInv, NamesExact(mgr), IdentitiesNamed(mgr),
         NEW u \in Thread, ResolveByName(u), FlatSession(u)
  PROVE  FlatSession(u)'
<1> DEFINE w == Head(work[u])
           c == Lookup(mgr, w.name)
           none == <<>>
<1>0. TypeInv /\ mgr \in Manager /\ work[u] \in Seq(Work) /\ work[u] # <<>>
  BY DEF ReservationInv, TypeInv, TypeOK, ResolveByName
<1>1. w = work[u][1] /\ w \in Work /\ 1 \in 1 .. Len(work[u])
  BY <1>0
<1>2. w.name \in Key /\ c \in Key \cup {NoKey}
  BY <1>0, <1>1, LookupType DEF Work
<1>3. w.owner # NoKey => LeafName(w.name)
  BY <1>1 DEF FlatSession
<1>4. w.owner # NoKey /\ c # NoKey => LeafName(c)
  <2>1. \A k \in Host : Committed(mgr, k)
    BY DEF ReservationInv, HostKept
  <2> QED BY <1>0, <1>2, <1>3, <2>1, LookupLeaf
<1>5. none \in Seq(Work) /\ \A n \in 1 .. Len(none) :
        ~LeafName(none[n].owner) /\ LeafName(none[n].name)
  OBVIOUS
<1>6. \/ work' = work /\ deps' = deps
      \/ Resolved(u, w, w.name, none)
      \/ c # NoKey /\ Resolved(u, w, c, none)
  BY DEF ResolveByName, Wait
<1> HIDE DEF c, none
<1>7. CASE work' = work /\ deps' = deps
  BY <1>7 DEF FlatSession
<1>8. CASE Resolved(u, w, w.name, none)
  BY <1>0, <1>2, <1>3, <1>5, <1>8, ResolvedFlat
<1>9. CASE c # NoKey /\ Resolved(u, w, c, none)
  BY <1>0, <1>2, <1>4, <1>5, <1>9, ResolvedFlat
<1>10. QED
  BY <1>6, <1>7, <1>8, <1>9

(* resolve_candidate_path finds leaves for leaves, and what the file it    *)
(* loads needs are leaves.                                                 *)
LEMMA ResolveByPathFlat ==
  ASSUME OneFilePerName, FlatNeeds, ReservationInv, NamesOK(mgr), Unaliased,
         IdentitiesNamed(mgr), NEW u \in Thread, ResolveByPath(u),
         FlatSession(u)
  PROVE  FlatSession(u)'
<1> DEFINE w == Head(work[u])
           c == LookupByIdentity(mgr, w.ino)
           none == <<>>
           more == NeededWork(w.name, w.ino)
<1>0. /\ TypeInv /\ mgr \in Manager /\ pc[u] = "resolve_path"
      /\ work[u] \in Seq(Work) /\ work[u] # <<>> /\ w.ino # NoInode
  BY DEF ReservationInv, TypeInv, TypeOK, ResolveByPath, Session
<1>1. w = work[u][1] /\ w \in Work /\ 1 \in 1 .. Len(work[u])
  BY <1>0
<1>2. w.name \in Key /\ w.ino \in Inode
  BY <1>0, <1>1 DEF Work
<1>3. w.owner # NoKey => LeafName(w.name)
  BY <1>1 DEF FlatSession
<1>4. w.name \notin Host \cup HostCompat
  BY <1>0 DEF Unaliased, ReservationInv, HostKept
<1>5. <<w.name, w.ino>> \in NamedFiles
  BY <1>0, <1>1 DEF ReservationInv, FilesNamed
<1>6. c = mgr.identities[w.ino] /\ c \in Key \cup {NoKey}
  BY <1>0, <1>2, IdentityExact DEF Manager
<1>7. w.owner # NoKey /\ c # NoKey => LeafName(c)
  <2>1. c # NoKey => <<c, w.ino>> \in NamedFiles
    BY <1>2, <1>6 DEF IdentitiesNamed
  <2> HIDE DEF w, c
  <2> QED BY <1>2, <1>3, <1>4, <1>5, <2>1, SameFileLeaf
<1>8. none \in Seq(Work) /\ \A n \in 1 .. Len(none) :
        ~LeafName(none[n].owner) /\ LeafName(none[n].name)
  OBVIOUS
<1>9. more \in Seq(Work) /\ \A n \in 1 .. Len(more) :
        ~LeafName(more[n].owner) /\ LeafName(more[n].name)
  <2> DEFINE k == w.name
             i == w.ino
             needed == Needed[i]
  <2>1. more \in Seq(Work)
    BY <1>2, MoreWork
  <2> HIDE DEF k, i
  <2>2. needed \in Seq(Key) /\ Len(needed) \in Nat /\ i \in Inode
    BY <1>2, DlopenAssumption DEF i
  <2>3. more = [n \in 1 .. Len(needed) |->
                  [owner |-> k, name |-> needed[n], ino |-> Find[needed[n]]]]
    BY DEF NeededWork, k, i
  <2>4. \A n \in 1 .. Len(needed) : LeafName(needed[n])
    BY <2>2 DEF FlatNeeds
  <2> HIDE DEF more
  <2>5. ASSUME needed # <<>> PROVE ~LeafName(k)
    BY <1>4, <1>5, <2>2, <2>5 DEF LeafName, k, i
  <2> HIDE DEF needed
  <2>6. Len(more) = Len(needed)
    BY <2>2, <2>3
  <2>7. ASSUME NEW n \in 1 .. Len(needed)
        PROVE  ~LeafName(more[n].owner) /\ LeafName(more[n].name)
    <3>1. needed # <<>>
      BY <2>2
    <3>2. more[n].owner = k /\ more[n].name = needed[n]
      BY <2>3
    <3> QED BY <2>4, <2>5, <3>1, <3>2
  <2> QED BY <2>1, <2>6, <2>7
<1>10. \/ work' = work /\ deps' = deps
       \/ c # NoKey /\ Resolved(u, w, c, none)
       \/ Resolved(u, w, w.name, more)
  BY DEF ResolveByPath, Wait
<1> HIDE DEF c, none, more
<1>11. CASE work' = work /\ deps' = deps
  BY <1>11 DEF FlatSession
<1>12. CASE c # NoKey /\ Resolved(u, w, c, none)
  BY <1>0, <1>6, <1>7, <1>8, <1>12, ResolvedFlat
<1>13. CASE Resolved(u, w, w.name, more)
  BY <1>0, <1>2, <1>3, <1>9, <1>13, ResolvedFlat
<1>14. QED
  BY <1>10, <1>11, <1>12, <1>13

(* Every step keeps the sessions so.                                       *)
LEMMA NextFlatSession ==
  ASSUME OneFilePerName, FlatNeeds, ReservationInv, NamesOK(mgr),
         NamesExact(mgr), Unaliased, IdentitiesNamed(mgr), [Next]_vars,
         NEW u \in Thread, FlatSession(u)
  PROVE  FlatSession(u)'
<1>0. /\ TypeInv /\ work \in [Thread -> Seq(Work)]
      /\ deps \in [Thread -> [Key -> SUBSET Key]]
  BY DEF ReservationInv, TypeInv, TypeOK
<1>1. ASSUME work'[u] = work[u], deps'[u] = deps[u] PROVE FlatSession(u)'
  BY <1>1 DEF FlatSession
<1>2. ASSUME Leave(u) PROVE FlatSession(u)'
  <2>1. work'[u] = <<>> /\ deps'[u] = NoDeps
    BY <1>0, <1>2 DEF Leave
  <2> QED BY <2>1 DEF FlatSession, NoDeps
<1>3. ASSUME LinkRoot(u) PROVE FlatSession(u)'
  <2>1. deps'[u] = deps[u]
    BY <1>3 DEF LinkRoot
  <2>2. CASE work' = work
    BY <1>1, <2>1, <2>2
  <2>3. ASSUME NEW k, NEW i,
               work' = [work EXCEPT ![u] = <<[owner |-> NoKey, name |-> k, ino |-> i]>>]
        PROVE  FlatSession(u)'
    <3>1. work'[u] = <<[owner |-> NoKey, name |-> k, ino |-> i]>>
      BY <1>0, <2>3
    <3>2. \A n \in 1 .. Len(work'[u]) : work'[u][n].owner = NoKey
      BY <3>1
    <3> QED BY <2>1, <3>2 DEF FlatSession
  <2> QED BY <1>3, <2>2, <2>3 DEF LinkRoot
<1>4. CASE Undisturbed(u)
  BY <1>1, <1>4 DEF Undisturbed
<1>5. CASE ExistingByName(u)
  BY <1>1, <1>2, <1>5 DEF ExistingByName, FinishExisting, Wait
<1>6. CASE ExistingByInode(u)
  BY <1>1, <1>2, <1>3, <1>6 DEF ExistingByInode, FinishExisting, Wait
<1>7. CASE ResolveByName(u)
  BY <1>7, ResolveByNameFlat
<1>8. CASE ResolveByPath(u)
  BY <1>8, ResolveByPathFlat
<1>9. CASE PrepareRelocation(u) \/ Relocate(u) \/ DropFields(u)
  BY <1>1, <1>9 DEF PrepareRelocation, Relocate, DropFields
<1>10. CASE Merge(u) \/ Rollback(u)
  BY <1>2, <1>10 DEF Merge, Rollback
<1>11. ASSUME (\E r \in Request : Begin(u, r)) \/ (\E h \in Handle : Drop(u, h))
       PROVE  FlatSession(u)'
  BY <1>1, <1>11 DEF Begin, Drop
<1>12. QED
  BY <1>0, <1>4, <1>5, <1>6, <1>7, <1>8, <1>9, <1>10, <1>11, SessionSteps DEF Step

-----------------------------------------------------------------------------
(* What a drop unloads.                                                    *)

(* The library that the drop of g unloads is retained by the root of g     *)
(* alone, and no dlopen has bound its new images to it.                    *)
LEMMA UnloadedUnneeded ==
  ASSUME ReservationInv, ScopeOK(mgr), HandlesResident, HandlesOK, FlatImages,
         NEW g \in Handle, handle[g].open, NEW x \in Unloaded(handle[g])
  PROVE  /\ \A z \in Images(mgr) : x \in image[z].retains => z = handle[g].inner
         /\ \A t \in Thread : x \notin bound[t]
<1>0. TypeOK /\ mgr \in Manager
  BY DEF ReservationInv, TypeInv, TypeOK
<1> DEFINE r == handle[g].inner
<1>1. r \in handle[g].deps /\ x \in {r} \cup handle[g].deps /\ Unloads(x)
  BY DEF HandlesOK, Chained, Unloaded
<1>2. handle[g].deps \subseteq Images(mgr) /\ x \in handle[g].deps
  BY <1>1 DEF HandlesResident
<1> PICK c \in Nat :
       /\ Cardinality(Holders(x)) + Cardinality(Lists(x))
            + Cardinality(Retainers(x)) + c = 2
       /\ (\E t \in Thread : x \in bound[t]) => c >= 1
  BY <1>1, <1>2, UnloadsCounts
<1>3. /\ IsFiniteSet(Holders(x)) /\ IsFiniteSet(Lists(x))
      /\ IsFiniteSet(Retainers(x))
      /\ Cardinality(Holders(x)) \in Nat /\ Cardinality(Lists(x)) \in Nat
      /\ Cardinality(Retainers(x)) \in Nat
  BY <1>0, HoldersFinite, FS_CardinalityType
<1>4. Cardinality(Lists(x)) >= 1
  <2>1. handle[g].list \in Lists(x)
    BY <1>2 DEF Lists
  <2> QED BY <1>3, <2>1, AtLeast
<1>5. ASSUME NEW z \in Images(mgr), x \in image[z].retains
      PROVE  z \in Retainers(x) /\ Cardinality(Retainers(x)) >= 1
  <2>1. z \in Retainers(x)
    BY <1>0, <1>5, LiveImages DEF Retainers
  <2> QED BY <1>3, <2>1, AtLeast
<1>6. CASE x = r
  <2>1. g \in Holders(x)
    BY <1>6 DEF Holders
  <2>2. Cardinality(Holders(x)) >= 1
    BY <1>3, <2>1, AtLeast
  <2>3. Cardinality(Retainers(x)) = 0 /\ c = 0
    BY <1>3, <1>4, <2>2
  <2> QED BY <1>5, <2>3
<1>7. CASE x # r
  <2> PICK y \in handle[g].deps : x \in image[y].retains
    BY <1>2, <1>7 DEF HandlesOK, Chained
  <2>1. y = r
    <3> SUFFICES ASSUME y # r PROVE FALSE
      OBVIOUS
    <3> PICK z \in handle[g].deps : y \in image[z].retains
      BY DEF HandlesOK, Chained
    <3> QED BY <1>2 DEF FlatImages
  <2>2. r \in Images(mgr) /\ x \in image[r].retains
    BY <1>2, <2>1
  <2>3. Cardinality(Retainers(x)) = 1 /\ c = 0
    BY <1>3, <1>4, <1>5, <2>2
  <2>4. ASSUME NEW z \in Images(mgr), x \in image[z].retains PROVE z = r
    <3>1. z # r => Cardinality(Retainers(x)) >= 2
      BY <1>3, <1>5, <2>2, <2>4, AtLeast
    <3> QED BY <2>3, <3>1
  <2> QED BY <2>3, <2>4
<1>8. QED
  BY <1>6, <1>7

(* What leaves link_ctx is unloaded by a drop.                             *)
LEMMA GoneByDrop ==
  ASSUME OneFilePerName,
         ReservationInv, ScopeOK(mgr), HandlesResident, [Next]_vars,
         NEW k \in Key, Committed(mgr, k), ~Committed(mgr', k)
  PROVE  \E h \in Handle, t \in Thread :
           Drop(t, h) /\ mgr.link_ctx[k] \in Unloaded(handle[h])
<1>1. ASSUME NEW S, Removal(S)
      PROVE  \E h \in Handle, t \in Thread :
               Drop(t, h) /\ mgr.link_ctx[k] \in Unloaded(handle[h])
  <2>1. mgr' = RemoveAll(mgr, S)
    BY <1>1 DEF Removal
  <2>2. k \in S /\ k \notin mgr.pending
    BY <2>1 DEF RemoveAll, Committed, ReservationInv
  <2> PICK h \in Handle : DropOf(S, h)
    BY <1>1, <2>2 DEF Removal
  <2> QED BY <2>2 DEF DropOf
<1>2. ASSUME NEW t \in Thread, Merge(t) PROVE FALSE
  BY <1>2, MergePublishes DEF PublishesReserved
<1>3. CASE mgr'.link_ctx = mgr.link_ctx
  BY <1>3 DEF Committed
<1>4. QED
  BY <1>1, <1>2, <1>3, NextCases

(* A registered image stays, or a drop unloads it.                         *)
LEMMA ImageGone ==
  ASSUME OneFilePerName,
         ReservationInv, ScopeOK(mgr), HandlesResident, [Next]_vars,
         mgr' \in Manager, NEW y \in Images(mgr), y \notin Images(mgr')
  PROVE  \E h \in Handle, t \in Thread : Drop(t, h) /\ y \in Unloaded(handle[h])
<1>0. mgr \in Manager
  BY DEF ReservationInv, TypeInv, TypeOK
<1> PICK k \in Key : Committed(mgr, k) /\ y = mgr.link_ctx[k]
  BY <1>0, ImageCommitted DEF Images
<1>1. ~Committed(mgr', k)
  <2> SUFFICES ASSUME Committed(mgr', k) PROVE FALSE
    OBVIOUS
  <2>1. mgr'.link_ctx[k] = y
    BY EntriesStay
  <2> QED BY <2>1, CommittedImage DEF Images
<1>2. QED
  BY <1>1, GoneByDrop

(* A drop takes what it unloads out of link_ctx.                           *)
LEMMA UnloadedGone ==
  ASSUME ReservationInv, HandlesResident, NEW h \in Handle, NEW t \in Thread,
         Drop(t, h), NEW k \in Key, Committed(mgr, k),
         mgr.link_ctx[k] \in Unloaded(handle[h])
  PROVE  ~Committed(mgr', k)
<1> DEFINE S == {image[x].key : x \in Unloaded(handle[h])}
<1>1. image[mgr.link_ctx[k]].key = k /\ k \notin mgr.pending
  BY DEF ReservationInv, FilesNamed
<1>2. k \in S
  BY <1>1
<1>3. mgr' = RemoveAll(mgr, S)
  BY DEF Drop
<1> HIDE DEF S
<1>4. mgr'.link_ctx[k] = NoModule
  BY <1>1, <1>2, <1>3 DEF RemoveAll
<1>5. QED
  BY <1>4 DEF Committed

(* What a dlopen's new images are bound to is registered when the          *)
(* relocation is prepared, and stays the same until it is over.            *)
LEMMA BoundSteps ==
  ASSUME TypeInv, [Next]_vars, NEW u \in Thread, NEW x \in bound'[u]
  PROVE  x \in bound[u] \/ (x \in Images(mgr) /\ mgr' = mgr)
<1>0. bound \in [Thread -> SUBSET Module]
  BY DEF TypeInv, TypeOK
<1>1. ASSUME NEW t \in Thread, Leave(t) PROVE x \in bound[u]
  BY <1>0, <1>1 DEF Leave
<1>2. ASSUME NEW t \in Thread, Step(t), ~PrepareRelocation(t)
      PROVE  x \in bound[u]
  BY <1>0, <1>1, <1>2 DEF Step, ExistingByName, ExistingByInode, LinkRoot,
     FinishExisting, Wait, Goto, ResolveByName, ResolveByPath, Relocate, Merge,
     Rollback, DropFields
<1>3. ASSUME NEW t \in Thread, PrepareRelocation(t)
      PROVE  x \in bound[u] \/ (x \in Images(mgr) /\ mgr' = mgr)
  <2> DEFINE E == ImagesOf(mgr, Existing(t))
  <2>1. E \subseteq Images(mgr)
    BY DEF ImagesOf, Images
  <2>2. mgr' = mgr /\ (bound' = bound \/ bound' = [bound EXCEPT ![t] = E])
    BY <1>3 DEF PrepareRelocation
  <2> HIDE DEF E
  <2> QED BY <1>0, <2>1, <2>2
<1>4. ASSUME NEW t \in Thread,
             \/ \E r \in Request : Begin(t, r)
             \/ \E k : HandleOn(t, k)
             \/ \E h \in Handle : Clone(t, h) \/ Drop(t, h)
      PROVE  x \in bound[u]
  BY <1>4 DEF Begin, HandleOn, Clone, Drop
<1>5. CASE UNCHANGED vars
  BY <1>5 DEF vars
<1>6. QED
  BY <1>2, <1>3, <1>4, <1>5 DEF Next, This, Addr2dso

-----------------------------------------------------------------------------
(* Dependencies stay while they are needed.                                *)

(* The image x was made for the name k, bound to what t has resolved.      *)
MadeFor(x, t, k) ==
  /\ image'[x].key = k
  /\ \A y \in image'[x].retains :
       \E d \in deps[t][k] : /\ Lookup(mgr', d) \in Key
                             /\ Committed(mgr', Lookup(mgr', d))
                             /\ y = mgr'.link_ctx[Lookup(mgr', d)]

(* Where an image of the registry comes from: it was there, or a commit    *)
(* has just made it and bound it to registered images.                     *)
LEMMA ImageOrigin ==
  ASSUME OneFilePerName,
         ReservationInv, HandlesResident, [Next]_vars, mgr' \in Manager,
         NEW x \in Images(mgr')
  PROVE  \/ /\ x \in Images(mgr)
            /\ image'[x] = image[x]
         \/ \E t \in Thread, k \in Key : MadeFor(x, t, k)
<1>0. TypeInv /\ mgr \in Manager
  BY DEF ReservationInv, TypeInv, TypeOK
<1> PICK k \in Key : Committed(mgr', k) /\ x = mgr'.link_ctx[k]
  BY ImageCommitted DEF Images
<1>1. CASE Committed(mgr, k)
  <2>1. x = mgr.link_ctx[k]
    BY <1>1, EntriesStay
  <2>2. x \in Images(mgr)
    BY <1>0, <1>1, <2>1, CommittedImage DEF Images
  <2> QED BY <1>0, <2>2, ImagesStay
<1>2. CASE ~Committed(mgr, k)
  <2> PICK t \in Thread : Merge(t) /\ k \in AddedNames(t)
    BY <1>2, EntriesStay
  <2> PICK new \in [AddedNames(t) -> Module] :
         /\ mgr' = MergeLinkContext(mgr, AddedNames(t), new, added[t],
                                    deps[t], req[t].flags)
         /\ mgr' \in Manager
         /\ image' \in [Module -> ImageState]
         /\ \A j \in AddedNames(t) : /\ image'[new[j]].key = j
                                     /\ image'[new[j]].file = added[t][j]
                                     /\ image'[new[j]].retains = ImagesOf(mgr',
                                          {Lookup(mgr', d) : d \in deps[t][j]})
         /\ \A y \in Module : y \in Live => image'[y] = image[y]
         /\ NewHandle(mgr', root[t])
         /\ Leave(t)
         /\ CanLock(t)
    BY <1>0, MergeFacts
  <2> DEFINE S == AddedNames(t)
             L == {Lookup(mgr', d) : d \in deps[t][k]}
  <2>1. mgr'.link_ctx = [j \in Key |-> IF j \in Uncommitted(mgr, S) THEN new[j]
                                       ELSE mgr.link_ctx[j]]
    BY DEF MergeLinkContext
  <2>2. k \in Uncommitted(mgr, S) /\ k \in S
    BY <1>2 DEF Uncommitted
  <2>3. x = new[k]
    BY <2>1, <2>2
  <2>4. image'[x].key = k /\ image'[x].retains = ImagesOf(mgr', L)
    BY <2>2, <2>3
  <2>5. ASSUME NEW y \in ImagesOf(mgr', L)
        PROVE  \E d \in deps[t][k] : /\ Lookup(mgr', d) \in Key
                                     /\ Committed(mgr', Lookup(mgr', d))
                                     /\ y = mgr'.link_ctx[Lookup(mgr', d)]
    BY DEF ImagesOf
  <2> HIDE DEF L
  <2>6. MadeFor(x, t, k)
    BY <2>4, <2>5 DEF MadeFor
  <2> QED BY <2>6
<1>3. QED
  BY <1>1, <1>2

(* Every step keeps dependencies registered.                               *)
LEMMA NextDeps ==
  ASSUME OneFilePerName,
         ReservationInv, ScopeOK(mgr), HandlesResident, HandlesOK, FlatImages,
         DepsResident, [Next]_vars, ReservationInv'
  PROVE  DepsResident'
<1>0. TypeInv /\ mgr \in Manager /\ mgr' \in Manager
  BY DEF ReservationInv, TypeInv, TypeOK
<1>1. ASSUME NEW x \in Images(mgr'), NEW y \in image'[x].retains,
             y \notin Images(mgr')
      PROVE  FALSE
  <2>1. CASE x \in Images(mgr) /\ image'[x] = image[x]
    <3>1. y \in Images(mgr) /\ y \in image[x].retains
      BY <1>1, <2>1 DEF DepsResident
    <3> PICK h \in Handle, t \in Thread : Drop(t, h) /\ y \in Unloaded(handle[h])
      BY <1>0, <1>1, <3>1, ImageGone
    <3>2. handle[h].open
      BY DEF Drop
    <3>3. x = handle[h].inner
      BY <2>1, <3>1, <3>2, UnloadedUnneeded
    <3>4. x \in Unloaded(handle[h])
      BY <3>3 DEF Unloaded
    <3> PICK k \in Key : Committed(mgr', k) /\ x = mgr'.link_ctx[k]
      BY <1>0, ImageCommitted DEF Images
    <3>5. CASE Committed(mgr, k)
      <4>1. x = mgr.link_ctx[k]
        BY <3>5, EntriesStay
      <4> QED BY <3>4, <3>5, <4>1, UnloadedGone
    <3>6. CASE ~Committed(mgr, k)
      <4>1. image'[x].key = k
        BY DEF ReservationInv, FilesNamed
      <4> PICK j \in Key : Committed(mgr, j) /\ x = mgr.link_ctx[j]
        BY <1>0, <2>1, ImageCommitted DEF Images
      <4>2. image[x].key = j
        BY DEF ReservationInv, FilesNamed
      <4> QED BY <2>1, <3>6, <4>1, <4>2
    <3> QED BY <3>5, <3>6
  <2>2. ASSUME NEW c \in Key, Committed(mgr', c), y = mgr'.link_ctx[c]
        PROVE  FALSE
    BY <1>0, <1>1, <2>2, CommittedImage DEF Images
  <2> QED BY <1>0, <1>1, <2>1, <2>2, ImageOrigin DEF MadeFor
<1>2. ASSUME NEW u \in Thread, NEW y \in bound'[u], y \notin Images(mgr')
      PROVE  FALSE
  <2>1. y \in bound[u] /\ y \in Images(mgr)
    BY <1>0, <1>2, BoundSteps DEF DepsResident
  <2> PICK h \in Handle, t \in Thread : Drop(t, h) /\ y \in Unloaded(handle[h])
    BY <1>0, <1>2, <2>1, ImageGone
  <2>2. handle[h].open
    BY DEF Drop
  <2> QED BY <2>1, <2>2, UnloadedUnneeded
<1>3. QED
  BY <1>1, <1>2 DEF DepsResident

(* Every step keeps the images flat.                                       *)
LEMMA NextFlatImages ==
  ASSUME OneFilePerName, ReservationInv, HandlesResident, DepsResident,
         FlatImages, \A t \in Thread : FlatSession(t), [Next]_vars,
         ReservationInv', NamesExact(mgr'), IdentitiesNamed(mgr')
  PROVE  FlatImages'
<1>0. TypeInv /\ mgr \in Manager /\ mgr' \in Manager
  BY DEF ReservationInv, TypeInv, TypeOK
<1> SUFFICES ASSUME NEW x \in Images(mgr'), NEW y \in image'[x].retains
             PROVE  ~LeafName(image'[x].key) /\ LeafName(image'[y].key)
  BY DEF FlatImages
<1>1. CASE x \in Images(mgr) /\ image'[x] = image[x]
  <2>1. y \in image[x].retains /\ y \in Images(mgr)
    BY <1>1 DEF DepsResident
  <2>2. image'[y] = image[y]
    BY <1>0, <2>1, ImagesStay
  <2> QED BY <1>1, <2>1, <2>2 DEF FlatImages
<1>2. ASSUME NEW t \in Thread, NEW k \in Key, image'[x].key = k,
             NEW d \in deps[t][k], Lookup(mgr', d) \in Key,
             Committed(mgr', Lookup(mgr', d)),
             y = mgr'.link_ctx[Lookup(mgr', d)]
      PROVE  ~LeafName(image'[x].key) /\ LeafName(image'[y].key)
  <2> DEFINE c == Lookup(mgr', d)
  <2>1. ~LeafName(k) /\ LeafName(d)
    BY DEF FlatSession
  <2>2. d \in Key /\ c # NoKey
    BY <1>0, <1>2, RegistryAssumption DEF TypeInv, TypeOK
  <2>3. \A j \in Host : Committed(mgr', j)
    BY DEF ReservationInv, HostKept
  <2>4. LeafName(c)
    BY <1>0, <2>1, <2>2, <2>3, LookupLeaf
  <2>5. image'[y].key = c
    BY <1>2 DEF ReservationInv, FilesNamed
  <2> QED BY <1>2, <2>1, <2>4, <2>5
<1>3. QED
  BY <1>0, <1>1, <1>2, ImageOrigin DEF MadeFor

(* What keeps dependencies registered.                                     *)
FlatInv ==
  /\ HandleInv /\ DepsResident
  /\ IdentitiesNamed(mgr) /\ FlatImages
  /\ \A t \in Thread : FlatSession(t)

(* It holds at first.                                                      *)
LEMMA InitFlat == OneFilePerName /\ Init => FlatInv
<1> SUFFICES ASSUME OneFilePerName, Init PROVE FlatInv
  OBVIOUS
<1>1. HandleInv
  BY InitHandleInv
<1>2. ASSUME NEW x \in Module PROVE image[x].retains = {}
  BY DEF Init, NoImage
<1>3. Images(mgr) \in SUBSET Module
  BY <1>1, ImagesOfType DEF HandleInv, ReservationInv, TypeInv, TypeOK, Images
<1>4. DepsResident /\ FlatImages
  BY <1>2, <1>3 DEF DepsResident, FlatImages, Init
<1>5. IdentitiesNamed(mgr)
  BY DEF IdentitiesNamed, Init, HostRegistry
<1>6. \A t \in Thread : FlatSession(t)
  BY DEF Init, FlatSession, NoDeps
<1>7. QED
  BY <1>1, <1>4, <1>5, <1>6 DEF FlatInv

(* Every step keeps it.                                                    *)
LEMMA NextFlat ==
  ASSUME OneFilePerName, CompatInHost, FlatNeeds, FlatInv, [Next]_vars
  PROVE  FlatInv'
<1>0. /\ ReservationInv /\ ScopeOK(mgr) /\ NamesOK(mgr) /\ NamesExact(mgr)
      /\ Unaliased /\ HandlesOK /\ HandlesResident /\ HandleInv
      /\ DepsResident /\ IdentitiesNamed(mgr) /\ FlatImages
      /\ \A t \in Thread : FlatSession(t)
  BY DEF FlatInv, HandleInv
<1>1. ReservationInv'
  BY <1>0, NextReservation
<1>2. DepsResident'
  BY <1>0, <1>1, NextDeps
<1>3. HandleInv'
  BY <1>0, <1>2, NextHandleInv
<1>4. NamesExact(mgr')
  BY <1>0, NextExact
<1>5. IdentitiesNamed(mgr')
  BY <1>0, NextIdentities
<1>6. FlatImages'
  BY <1>0, <1>1, <1>4, <1>5, NextFlatImages
<1>7. \A t \in Thread : FlatSession(t)'
  BY <1>0, NextFlatSession
<1>8. QED
  BY <1>2, <1>3, <1>5, <1>6, <1>7 DEF FlatInv

(* If what libraries need needs nothing itself, or is the host's, then no  *)
(* library is unloaded beneath one that was relocated against it, for any  *)
(* number of threads, handles and libraries, any flags and any history:    *)
(* the threshold of Drop, one reference besides link_ctx and the deps      *)
(* list, is then that of the root alone.  Deeper needs break it.           *)
THEOREM DependenciesStay ==
  ASSUME OneFilePerName, CompatInHost, FlatNeeds
  PROVE  Spec => []DepsResident
<1>1. Init => FlatInv
  BY InitFlat
<1>2. FlatInv /\ [Next]_vars => FlatInv'
  BY NextFlat
<1>3. FlatInv => DepsResident
  BY DEF FlatInv
<1>4. QED
  BY <1>1, <1>2, <1>3, PTL DEF Spec

(* For such libraries what was proved above of the registry, of handles    *)
(* and of flags needs no assumption on the behaviour.                      *)
THEOREM FlatRegistrySafe ==
  ASSUME OneFilePerName, CompatInHost, FlatNeeds
  PROVE  Spec => /\ [](/\ HandlesResident /\ DepsResident
                       /\ PendingOwned /\ NeverAlreadyRegistered
                       /\ OneEntryPerFile
                       /\ GlobalScope /\ RemoveConsistent
                       /\ NamesResolve /\ CountersBalance)
                 /\ FlagsHonoured
<1>1. QED
  BY DependenciesStay, RegistrySafe, HandlesStayResident, OpensHonourFlags, PTL

-----------------------------------------------------------------------------
(* The walks of module ReadSide.                                           *)

(* Every step of the read side is a step of Dlopen or leaves it alone.     *)
LEMMA ReadNextIsNext == [ReadNext]_readVars => [Next]_vars
<1> SUFFICES ASSUME [ReadNext]_readVars PROVE [Next]_vars
  OBVIOUS
<1>1. CASE UNCHANGED readVars
  BY <1>1 DEF readVars
<1>2. ASSUME NEW t \in Thread, BeginWalk(t) \/ Visit(t) \/ EndWalk(t)
      PROVE  UNCHANGED vars
  BY <1>2 DEF BeginWalk, Visit, EndWalk
<1>3. ASSUME NEW t \in Thread, Unlocked(t) PROVE Next
  BY <1>3 DEF Unlocked, Next, Step
<1>4. ASSUME NEW t \in Thread, Locked(t) PROVE Next
  BY <1>4 DEF Locked, LockedStep, Next, Step
<1>5. QED
  BY <1>1, <1>2, <1>3, <1>4 DEF ReadNext

(* What needs no write lock does not change the manager.                   *)
LEMMA UnlockedKeeps ==
  ASSUME NEW t \in Thread, Unlocked(t)
  PROVE  mgr' = mgr
BY DEF Unlocked, Relocate, DropFields, This, Addr2dso, HandleOn, Clone

(* The walks under way report the manager as it is.                        *)
WalkInv ==
  /\ walk \in [Thread -> [on : BOOLEAN, todo : SUBSET Key, adds : Nat,
                          subs : Nat, info : Handle \cup {NoHandle}]]
  /\ \A t \in Thread : walk[t].on =>
       /\ \A k \in walk[t].todo : Committed(mgr, k)
       /\ walk[t].adds = mgr.adds
       /\ walk[t].subs = mgr.subs

(* Walks stay true through every step.                                     *)
LEMMA NextWalk == TypeOK /\ WalkInv /\ [ReadNext]_readVars => WalkInv'
<1> SUFFICES ASSUME TypeOK, WalkInv, [ReadNext]_readVars PROVE WalkInv'
  OBVIOUS
<1>0. mgr.adds \in Nat /\ mgr.subs \in Nat
  BY RegistryAssumption DEF TypeOK, Manager
<1>1. CASE UNCHANGED readVars
  BY <1>1 DEF readVars, vars, WalkInv, Committed
<1>2. ASSUME NEW t \in Thread, BeginWalk(t) PROVE WalkInv'
  <2>1. mgr' = mgr
    BY <1>2 DEF BeginWalk, vars
  <2> QED BY <1>0, <1>2, <2>1 DEF BeginWalk, WalkInv, Committed
<1>3. ASSUME NEW t \in Thread, Visit(t) PROVE WalkInv'
  <2>1. mgr' = mgr
    BY <1>3 DEF Visit, vars
  <2> DEFINE left == walk[t].todo \ {CHOOSE k \in walk[t].todo : TRUE}
  <2>2. walk' = [walk EXCEPT ![t].todo = left]
    BY <1>3 DEF Visit
  <2>3. left \subseteq walk[t].todo
    OBVIOUS
  <2> HIDE DEF left
  <2> QED BY <2>1, <2>2, <2>3 DEF WalkInv, Committed
<1>4. ASSUME NEW t \in Thread, EndWalk(t) PROVE WalkInv'
  <2>1. mgr' = mgr
    BY <1>4 DEF EndWalk, vars
  <2> QED BY <1>4, <2>1 DEF EndWalk, NoWalk, WalkInv, Committed
<1>5. ASSUME NEW t \in Thread, Unlocked(t), UNCHANGED walk PROVE WalkInv'
  BY <1>5, UnlockedKeeps DEF WalkInv, Committed
<1>6. ASSUME NEW t \in Thread, Locked(t), UNCHANGED walk PROVE WalkInv'
  BY <1>6 DEF Locked, Unread, WalkInv
<1>7. QED
  BY <1>1, <1>2, <1>3, <1>4, <1>5, <1>6 DEF ReadNext

(* For any number of readers and writers: while dl_iterate_phdr calls      *)
(* back, every library it has still to report is registered and its image  *)
(* is the one of that name, and the counters it reports are those of the   *)
(* list.  As for the reservations, no two files share a shortname and no   *)
(* open handle loses a library beneath it.                                 *)
THEOREM WalkSafe ==
  ASSUME OneFilePerName
  PROVE  ReadSpec /\ []HandlesResident => []WalkTrue
<1> DEFINE Inv == ReservationInv /\ WalkInv
<1>1. ReadInit => Inv
  <2> SUFFICES ASSUME ReadInit PROVE Inv
    OBVIOUS
  <2>1. ReservationInv
    BY InitReservation DEF ReadInit
  <2>2. WalkInv
    BY DEF ReadInit, NoWalk, WalkInv
  <2> QED BY <2>1, <2>2
<1>2. Inv /\ HandlesResident /\ [ReadNext]_readVars => Inv'
  BY ReadNextIsNext, NextReservation, NextWalk DEF ReservationInv, TypeInv
<1>3. Inv => WalkTrue
  BY DEF ReservationInv, FilesNamed, WalkInv, WalkTrue
<1> HIDE DEF Inv
<1>4. QED
  BY <1>1, <1>2, <1>3, PTL DEF ReadSpec

(* If what libraries need needs nothing itself, or is the host's, this     *)
(* holds of every behaviour: a drop then takes no library from an open     *)
(* handle, whoever walks beside it.                                        *)
THEOREM FlatWalkSafe ==
  ASSUME OneFilePerName, CompatInHost, FlatNeeds
  PROVE  ReadSpec => []WalkTrue
<1>1. ReadInit => FlatInv
  BY InitFlat DEF ReadInit
<1>2. FlatInv /\ [ReadNext]_readVars => FlatInv'
  BY ReadNextIsNext, NextFlat
<1>3. FlatInv => HandlesResident
  BY DEF FlatInv, HandleInv
<1>4. QED
  BY <1>1, <1>2, <1>3, WalkSafe, PTL DEF ReadSpec

-----------------------------------------------------------------------------
(* The lists of module Scopes.                                             *)

(* The members of a list, and that x comes before y in it.                 *)
Elems(o) == {o[i] : i \in 1 .. Len(o)}

Before(o, x, y) ==
  \E i, j \in 1 .. Len(o) : i < j /\ o[i] = x /\ o[j] = y

(* o lists the members of S, each once.                                    *)
Ordered(o, S) ==
  /\ o \in Seq(S) /\ Elems(o) = S
  /\ \A i, j \in 1 .. Len(o) : o[i] = o[j] => i = j

(* Filtering keeps the members of S and their order.                       *)
LEMMA OnlyKeepsOrder ==
  ASSUME NEW T, NEW o \in Seq(T), NEW S
  PROVE  LET q == Only(o, S)
         IN  /\ q \in Seq(T \cap S) /\ Elems(q) = Elems(o) \cap S
             /\ \A x, y : Before(q, x, y) => Before(o, x, y)
<1> PICK f : Filters(f, o, S) /\ Only(o, S) = f[Len(o)]
  BY OnlyIterates
<1> DEFINE First(n) == {o[i] : i \in 1 .. n}
           Sound(n, q) ==
             /\ q \in Seq(T \cap S) /\ Elems(q) = First(n) \cap S
             /\ \A x, y : Before(q, x, y) => Before(o, x, y)
           Kept == {n \in Nat : n <= Len(o) => Sound(n, f[n])}
<1>0. Len(o) \in Nat /\ \A i \in 1 .. Len(o) : o[i] \in T
  OBVIOUS
<1>1. 0 \in Kept
  <2>1. f[0] = <<>>
    BY DEF Filters
  <2>2. Elems(<<>>) = {} /\ First(0) = {} /\ <<>> \in Seq(T \cap S)
    BY DEF Elems
  <2>3. \A x, y : ~Before(<<>>, x, y)
    BY DEF Before
  <2> QED BY <2>1, <2>2, <2>3
<1>2. ASSUME NEW n \in Nat, n \in Kept PROVE n + 1 \in Kept
  <2> SUFFICES ASSUME n + 1 <= Len(o) PROVE Sound(n + 1, f[n + 1])
    OBVIOUS
  <2>1. Sound(n, f[n])
    BY <1>0, <1>2
  <2>2. f[n + 1] = IF o[n + 1] \in S THEN Append(f[n], o[n + 1]) ELSE f[n]
    BY DEF Filters
  <2>3. First(n + 1) = First(n) \cup {o[n + 1]}
    <3>1. 1 .. n + 1 = (1 .. n) \cup {n + 1}
      OBVIOUS
    <3> QED BY <3>1
  <2>4. CASE o[n + 1] \notin S
    <3> HIDE DEF First
    <3> QED BY <2>1, <2>2, <2>3, <2>4
  <2>5. CASE o[n + 1] \in S
    <3> DEFINE q == Append(f[n], o[n + 1])
               L == Len(f[n])
    <3>1. n + 1 \in 1 .. Len(o) /\ o[n + 1] \in T \cap S
      BY <1>0, <2>5
    <3>2. f[n] \in Seq(T \cap S) /\ L \in Nat
      BY <2>1
    <3>3. /\ q \in Seq(T \cap S) /\ Len(q) = L + 1
          /\ \A i \in 1 .. L : q[i] = f[n][i]
          /\ q[L + 1] = o[n + 1]
      BY <3>1, <3>2
    <3>4. 1 .. L + 1 = (1 .. L) \cup {L + 1}
      BY <3>2
    <3> HIDE DEF q, L
    <3>5. Elems(q) = Elems(f[n]) \cup {o[n + 1]}
      <4>1. Elems(f[n]) = {f[n][i] : i \in 1 .. L}
        BY DEF Elems, L
      <4> QED BY <3>3, <3>4, <4>1 DEF Elems
    <3>6. ASSUME NEW x, NEW y, Before(q, x, y) PROVE Before(o, x, y)
      <4> PICK i \in 1 .. Len(q), j \in 1 .. Len(q) :
             i < j /\ q[i] = x /\ q[j] = y
        BY <3>6 DEF Before
      <4>1. i \in 1 .. L /\ (j \in 1 .. L \/ j = L + 1)
        BY <3>2, <3>3
      <4>2. CASE j \in 1 .. L
        <5>1. Before(f[n], x, y)
          BY <3>3, <4>1, <4>2 DEF Before, L
        <5> QED BY <2>1, <5>1
      <4>3. CASE j = L + 1
        <5>1. x \in Elems(f[n])
          BY <3>3, <4>1 DEF Elems, L
        <5>2. x \in First(n)
          BY <2>1, <5>1
        <5> PICK a \in 1 .. n : x = o[a]
          BY <5>2
        <5>3. a \in 1 .. Len(o) /\ a < n + 1 /\ y = o[n + 1]
          BY <1>0, <3>1, <3>3, <4>3
        <5> QED BY <3>1, <5>3 DEF Before
      <4> QED BY <4>1, <4>2, <4>3
    <3>7. f[n + 1] = q
      BY <2>2, <2>5 DEF q
    <3>8. Elems(q) = First(n + 1) \cap S
      <4> HIDE DEF First
      <4> QED BY <2>1, <2>3, <2>5, <3>5
    <3> QED BY <3>3, <3>6, <3>7, <3>8
  <2> QED BY <2>4, <2>5
<1> HIDE DEF Kept
<1>3. Len(o) \in Kept
  BY <1>0, <1>1, <1>2, NatSetInduction
<1>4. Sound(Len(o), f[Len(o)])
  BY <1>0, <1>3 DEF Kept
<1>5. QED
  BY <1>4 DEF Elems

(* The sequences that SetToSeqs gives list a finite set.                   *)
LEMMA SeqsOrdered ==
  ASSUME NEW S, IsFiniteSet(S), NEW o \in Order!SetToSeqs(S)
  PROVE  Ordered(o, S)
<1> DEFINE N == Cardinality(S)
<1>1. Order!Cardinality(S) = N
  BY DEF Order!Cardinality, Cardinality
<1>2. N \in Nat
  BY FS_CardinalityType
<1>3. o \in [1 .. N -> S] /\ \A i, j \in 1 .. N : i # j => o[i] # o[j]
  BY <1>1 DEF Order!SetToSeqs
<1>4. o \in Seq(S) /\ Len(o) = N
  <2> HIDE DEF N
  <2> QED BY <1>2, <1>3
<1>5. Elems(o) = S
  <2> DEFINE E == {o[i] : i \in 1 .. N}
  <2>1. E \subseteq S
    BY <1>3
  <2>2. IsFiniteSet(E) /\ Cardinality(E) = N
    <3>1. IsFiniteSet(1 .. N) /\ Cardinality(1 .. N) = N
      BY <1>2, FS_Interval
    <3>2. o \in Bijection(1 .. N, E)
      <4>1. o \in [1 .. N -> E]
        BY <1>3
      <4>2. \A e \in E : \E i \in 1 .. N : o[i] = e
        OBVIOUS
      <4> HIDE DEF E, N
      <4> QED BY <1>3, <4>1, <4>2
              DEF Bijection, Injection, Surjection, IsInjective
    <3>3. ExistsBijection(1 .. N, E)
      BY <3>2 DEF ExistsBijection
    <3> HIDE DEF E
    <3> QED BY <3>1, <3>3, FS_Bijection
  <2>3. E = S
    <3> HIDE DEF E
    <3> QED BY <2>1, <2>2, FS_Subset
  <2> QED BY <1>4, <2>3 DEF Elems
<1>6. QED
  BY <1>3, <1>4, <1>5 DEF Ordered

(* What a step leaves of an order keeps it, and what is new comes after.   *)
LEMMA ReorderedKeeps ==
  ASSUME NEW S \in SUBSET Key, NEW T \in SUBSET Key, NEW o, Ordered(o, S),
         NEW q \in Reordered(o, T)
  PROVE  /\ Ordered(q, T)
         /\ \A x, y : y \in S /\ Before(q, x, y) => Before(o, x, y)
<1> DEFINE r == Only(o, T)
<1>0. /\ o \in Seq(S) /\ Elems(o) = S /\ Len(o) \in Nat
      /\ \A i, j \in 1 .. Len(o) : o[i] = o[j] => i = j
  BY DEF Ordered
<1>1. Order!ToSet(o) = S
  BY <1>0 DEF Order!ToSet, Elems
<1> PICK new \in Order!SetToSeqs(T \ S) : q = r \o new
  BY <1>1 DEF Reordered, Remaining
<1>2. Ordered(new, T \ S)
  <2>1. IsFiniteSet(T \ S)
    BY RegistryAssumption, FS_Subset
  <2> QED BY <2>1, SeqsOrdered
<1>3. /\ r \in Seq(S \cap T) /\ Elems(r) = S \cap T
      /\ \A x, y : Before(r, x, y) => Before(o, x, y)
  BY <1>0, OnlyKeepsOrder
<1> HIDE DEF r
<1>4. /\ new \in Seq(T \ S) /\ Elems(new) = T \ S
      /\ \A i, j \in 1 .. Len(new) : new[i] = new[j] => i = j
  BY <1>2 DEF Ordered
<1> DEFINE L == Len(r)
           M == Len(new)
<1>5. L \in Nat /\ M \in Nat /\ r \in Seq(T) /\ new \in Seq(T)
  BY <1>3, <1>4
<1>6. /\ q \in Seq(T) /\ Len(q) = L + M
      /\ \A i \in 1 .. L : q[i] = r[i]
      /\ \A i \in 1 .. M : q[L + i] = new[i]
  BY <1>5
<1>7. /\ \A i \in 1 .. L : r[i] \in S \cap T
      /\ \A i \in 1 .. M : new[i] \in T \ S
  BY <1>3, <1>4
<1> HIDE DEF L, M
<1>8. ASSUME NEW i \in 1 .. Len(q)
      PROVE  \/ i \in 1 .. L /\ q[i] = r[i] /\ q[i] \in S
             \/ i - L \in 1 .. M /\ q[i] = new[i - L] /\ q[i] \notin S
  <2>1. i \in 1 .. L \/ (i - L \in 1 .. M /\ L + (i - L) = i)
    BY <1>5, <1>6
  <2>2. CASE i \in 1 .. L
    BY <1>6, <1>7, <2>2
  <2>3. CASE i - L \in 1 .. M /\ L + (i - L) = i
    BY <1>6, <1>7, <2>3
  <2> QED BY <2>1, <2>2, <2>3
<1>9. ASSUME NEW x, NEW y \in S, Before(q, x, y) PROVE Before(o, x, y)
  <2> PICK i \in 1 .. Len(q), j \in 1 .. Len(q) : i < j /\ q[i] = x /\ q[j] = y
    BY <1>9 DEF Before
  <2>1. j \in 1 .. L /\ r[j] = y
    BY <1>8
  <2>2. i \in 1 .. L
    BY <1>5, <2>1
  <2>3. r[i] = x
    BY <1>6, <2>2
  <2>4. Before(r, x, y)
    BY <2>1, <2>2, <2>3 DEF Before, L
  <2> QED BY <1>3, <2>4
<1>10. ASSUME NEW i \in 1 .. Len(q), NEW j \in 1 .. Len(q), q[i] = q[j]
       PROVE  ~(i < j)
  <2> SUFFICES ASSUME i < j PROVE FALSE
    OBVIOUS
  <2>1. CASE q[i] \in S
    <3>1. Before(q, q[i], q[i])
      BY <1>10 DEF Before
    <3>2. Before(o, q[i], q[i])
      BY <1>9, <2>1, <3>1
    <3> QED BY <1>0, <3>2 DEF Before
  <2>2. CASE q[i] \notin S
    <3>1. i - L \in 1 .. M /\ j - L \in 1 .. M /\ new[i - L] = new[j - L]
      BY <1>8, <1>10, <2>2
    <3>2. i - L = j - L
      BY <1>4, <3>1 DEF M
    <3> QED BY <1>5, <3>2
  <2> QED BY <2>1, <2>2
<1>11. Elems(q) = T
  <2>1. ASSUME NEW k \in T PROVE k \in Elems(q)
    <3>1. CASE k \in S
      <4> PICK i \in 1 .. L : k = r[i]
        BY <1>3, <3>1 DEF Elems, L
      <4>1. i \in 1 .. Len(q) /\ q[i] = k
        BY <1>5, <1>6
      <4> QED BY <4>1 DEF Elems
    <3>2. CASE k \notin S
      <4> PICK i \in 1 .. M : k = new[i]
        BY <1>4, <3>2 DEF Elems, M
      <4>1. L + i \in 1 .. Len(q) /\ q[L + i] = k
        BY <1>5, <1>6
      <4> QED BY <4>1 DEF Elems
    <3> QED BY <3>1, <3>2
  <2>2. \A i \in 1 .. Len(q) : q[i] \in T
    BY <1>6
  <2> QED BY <2>1, <2>2 DEF Elems
<1>12. \A i, j \in 1 .. Len(q) : q[i] = q[j] => i = j
  <2>1. ASSUME NEW i \in 1 .. Len(q), NEW j \in 1 .. Len(q), q[i] = q[j]
        PROVE  i = j
    <3>1. ~(i < j) /\ ~(j < i) /\ i \in Int /\ j \in Int
      BY <1>10, <2>1
    <3> QED BY <3>1
  <2> QED BY <2>1
<1>13. QED
  BY <1>6, <1>9, <1>11, <1>12 DEF Ordered

(* Of two libraries in a list one comes before the other.                  *)
LEMMA OneBefore ==
  ASSUME NEW S, NEW o, Ordered(o, S), NEW x \in S, NEW y \in S
  PROVE  /\ x # y => Before(o, x, y) \/ Before(o, y, x)
         /\ ~(Before(o, x, y) /\ Before(o, y, x))
<1>1. PICK i \in 1 .. Len(o) : o[i] = x
  BY DEF Ordered, Elems
<1>2. PICK j \in 1 .. Len(o) : o[j] = y
  BY DEF Ordered, Elems
<1>3. /\ \A a \in 1 .. Len(o) : (o[a] = x => a = i) /\ (o[a] = y => a = j)
      /\ i \in Int /\ j \in Int
  BY <1>1, <1>2 DEF Ordered
<1>4. Before(o, x, y) <=> i < j
  BY <1>1, <1>2, <1>3 DEF Before
<1>5. Before(o, y, x) <=> j < i
  BY <1>1, <1>2, <1>3 DEF Before
<1>6. x # y => i # j
  BY <1>1, <1>2
<1>7. QED
  BY <1>3, <1>4, <1>5, <1>6

(* The first library of D in a list is before every other of D.            *)
LEMMA FirstBefore ==
  ASSUME NEW S \in SUBSET Key, NEW o, Ordered(o, S), NEW D, NEW k \in Key
  PROVE  FirstOf(o, D) = k
           <=> k \in S \cap D /\ \A x : Before(o, x, k) => x \notin D
<1> DEFINE I == {i \in 1 .. Len(o) : o[i] \in D}
           F == IF I # {} THEN Order!Min(I) ELSE 0
<1>0. /\ o \in Seq(S) /\ Elems(o) = S /\ Len(o) \in Nat
      /\ \A i, j \in 1 .. Len(o) : o[i] = o[j] => i = j
  BY DEF Ordered
<1>1. FirstOf(o, D) = IF F = 0 THEN NoKey ELSE o[F]
  BY DEF FirstOf, Order!SelectInSeq
<1>2. I \in SUBSET Nat /\ I \subseteq 1 .. Len(o)
  OBVIOUS
<1>3. I # {} => F \in I /\ \A i \in I : F <= i
  <2> HIDE DEF I
  <2> QED BY <1>2, LeastNat DEF Order!Min
<1>4. I = {} => F = 0
  OBVIOUS
<1>5. ASSUME FirstOf(o, D) = k
      PROVE  k \in S \cap D /\ \A x : Before(o, x, k) => x \notin D
  <2>1. F # 0 /\ o[F] = k
    BY <1>1, <1>5, RegistryAssumption
  <2>2. F \in I /\ \A i \in I : F <= i
    BY <1>3, <1>4, <2>1
  <2> HIDE DEF F
  <2>3. F \in 1 .. Len(o) /\ k \in D
    BY <2>1, <2>2
  <2>4. k \in S
    BY <1>0, <2>1, <2>3
  <2>5. ASSUME NEW x, Before(o, x, k) PROVE x \notin D
    <3> PICK a \in 1 .. Len(o), b \in 1 .. Len(o) :
           a < b /\ o[a] = x /\ o[b] = k
      BY <2>5 DEF Before
    <3>1. b = F
      BY <1>0, <2>1, <2>3
    <3>2. a \notin I
      BY <1>0, <2>2, <2>3, <3>1
    <3> QED BY <3>2
  <2> QED BY <2>3, <2>4, <2>5
<1>6. ASSUME k \in S \cap D, \A x : Before(o, x, k) => x \notin D
      PROVE  FirstOf(o, D) = k
  <2> PICK i \in 1 .. Len(o) : o[i] = k
    BY <1>0, <1>6 DEF Elems
  <2>1. i \in I
    BY <1>6
  <2>2. F \in I /\ F <= i
    BY <1>3, <2>1
  <2> HIDE DEF F
  <2>3. F \in 1 .. Len(o) /\ o[F] \in D
    BY <2>2
  <2>4. ~(F < i)
    <3>1. ASSUME F < i PROVE Before(o, o[F], k)
      BY <2>3, <3>1 DEF Before
    <3> QED BY <1>6, <2>3, <3>1
  <2>5. F = i /\ F # 0
    BY <2>2, <2>3, <2>4
  <2> QED BY <1>1, <2>5
<1>7. QED
  BY <1>5, <1>6

(* What follows k in a list, in the order of the list.                     *)
LEMMA RestOrdered ==
  ASSUME NEW S \in SUBSET Key, NEW o, Ordered(o, S), NEW k \in S
  PROVE  /\ Ordered(After(o, k), {x \in S : Before(o, k, x)})
         /\ \A x, y : Before(After(o, k), x, y)
                        <=> Before(o, x, y) /\ Before(o, k, x)
<1> DEFINE I == {i \in 1 .. Len(o) : o[i] = k}
           i == Order!SelectInSeq(o, LAMBDA j : j = k)
           r == SubSeq(o, i + 1, Len(o))
           R == {x \in S : Before(o, k, x)}
           L == Len(o)
<1>0. /\ o \in Seq(S) /\ Elems(o) = S /\ L \in Nat
      /\ \A a, b \in 1 .. L : o[a] = o[b] => a = b
      /\ \A a \in 1 .. L : o[a] \in S
  BY DEF Ordered
<1>1. PICK p \in 1 .. L : o[p] = k
  BY <1>0 DEF Elems
<1>2. I = {p}
  BY <1>0, <1>1
<1>3. i = p
  <2>1. i = IF I # {} THEN Order!Min(I) ELSE 0
    BY DEF Order!SelectInSeq
  <2>2. i = Order!Min({p})
    BY <1>2, <2>1
  <2> HIDE DEF i
  <2> QED BY <2>2 DEF Order!Min
<1> HIDE DEF i
<1>4. /\ Len(r) = L - p /\ L - p \in Nat
      /\ \A a \in 1 .. L - p : r[a] = o[p + a] /\ p + a \in 1 .. L
  BY <1>0, <1>3
<1>5. \A b \in 1 .. L : p < b => b - p \in 1 .. L - p /\ p + (b - p) = b
  BY <1>0
<1>6. r \in [1 .. L - p -> S]
  <2>1. r = [a \in 1 .. L - p |-> o[p + a]]
    BY <1>0, <1>3
  <2> HIDE DEF r, L
  <2> QED BY <1>0, <1>4, <2>1
<1> HIDE DEF r, L
<1>7. \A x : Before(o, k, x) <=> \E b \in 1 .. L : p < b /\ o[b] = x
  BY <1>0, <1>1 DEF Before, L
<1>8. \A a \in 1 .. L - p : Before(o, k, r[a])
  <2>1. \A a \in 1 .. L - p : p < p + a
    BY <1>0
  <2> QED BY <1>4, <1>7, <2>1
<1>9. r \in Seq(R)
  <2>1. \A a \in 1 .. L - p : r[a] \in R
    BY <1>6, <1>8
  <2>2. r \in [1 .. L - p -> R]
    BY <1>6, <2>1
  <2> HIDE DEF R
  <2> QED BY <1>4, <2>2
<1>10. Elems(r) = R
  <2>1. ASSUME NEW x \in R PROVE x \in Elems(r)
    <3> PICK b \in 1 .. L : p < b /\ o[b] = x
      BY <1>7
    <3>1. b - p \in 1 .. Len(r) /\ r[b - p] = x
      BY <1>4, <1>5
    <3> QED BY <3>1 DEF Elems
  <2>2. \A a \in 1 .. Len(r) : r[a] \in R
    BY <1>9
  <2> HIDE DEF R
  <2> QED BY <2>1, <2>2 DEF Elems
<1>11. ASSUME NEW a \in 1 .. Len(r), NEW b \in 1 .. Len(r), r[a] = r[b]
       PROVE  a = b
  <2>1. p + a = p + b
    BY <1>0, <1>4, <1>11
  <2> QED BY <2>1
<1>12. ASSUME NEW x, NEW y, Before(r, x, y)
       PROVE  Before(o, x, y) /\ Before(o, k, x)
  <2> PICK a \in 1 .. L - p, b \in 1 .. L - p : a < b /\ r[a] = x /\ r[b] = y
    BY <1>4, <1>12 DEF Before
  <2>1. p + a < p + b /\ o[p + a] = x /\ o[p + b] = y
        /\ p + a \in 1 .. L /\ p + b \in 1 .. L
    BY <1>4
  <2> QED BY <1>8, <2>1 DEF Before, L
<1>13. ASSUME NEW x, NEW y, Before(o, x, y), Before(o, k, x)
       PROVE  Before(r, x, y)
  <2> PICK a \in 1 .. L, b \in 1 .. L : a < b /\ o[a] = x /\ o[b] = y
    BY <1>13 DEF Before, L
  <2>1. p < a
    BY <1>0, <1>7, <1>13
  <2>2. /\ a - p \in 1 .. Len(r) /\ b - p \in 1 .. Len(r) /\ a - p < b - p
        /\ p + (a - p) = a /\ p + (b - p) = b
    BY <1>4, <1>5, <2>1
  <2>3. r[a - p] = x /\ r[b - p] = y
    BY <1>4, <2>2
  <2> QED BY <2>2, <2>3 DEF Before
<1>14. Ordered(r, R)
  BY <1>9, <1>10, <1>11 DEF Ordered
<1> HIDE DEF R
<1>15. r = After(o, k)
  BY DEF r, i, After
<1>16. QED
  BY <1>12, <1>13, <1>14, <1>15 DEF R

-----------------------------------------------------------------------------
(* What a step does to the libraries that stay.                            *)

(* From m to n: an entry that stays is the same, and the global libraries  *)
(* are registered if they were.                                            *)
Stays(m, n) ==
  /\ \A k \in Key : Committed(m, k) /\ Committed(n, k) =>
       n.link_ctx[k] = m.link_ctx[k]
  /\ m.global \subseteq CommittedKeys(m) => n.global \subseteq CommittedKeys(n)

(* A manager with the same entries and the same global scope.              *)
LEMMA SameStays ==
  ASSUME NEW m, NEW n, n.link_ctx = m.link_ctx, n.global = m.global
  PROVE  Stays(m, n)
BY DEF Stays, CommittedKeys, Committed

(* An alias touches neither the entries nor the global scope.              *)
LEMMA AddAliasStays ==
  ASSUME NEW m \in Manager, NEW c \in Key, NEW a \in Key
  PROVE  LET n == AddAlias(m, c, a)
         IN  /\ n \in Manager
             /\ n.link_ctx = m.link_ctx /\ n.global = m.global
<1>1. AddAlias(m, c, a) = AddAliases(m, c, {a}) /\ {a} \in SUBSET Key
  BY DEF AddAlias
<1>2. AddAliases(m, c, {a}).global = m.global
  BY DEF AddAliases, Manager
<1>3. QED
  BY <1>1, <1>2, AddAliasesFacts

(* A promotion adds a registered library to the global scope at most.      *)
LEMMA PromoteStays ==
  ASSUME NEW m \in Manager, NEW c \in Key, NEW fl \in SUBSET Flag,
         Committed(m, c)
  PROVE  Stays(m, Promote(m, c, fl))
<1> DEFINE n == Promote(m, c, fl)
<1>1. n.link_ctx = m.link_ctx
  BY PromoteFacts
<1>2. n.global = m.global \/ n.global = m.global \cup {c}
  BY DEF Promote, Manager
<1> HIDE DEF n
<1>3. Stays(m, n)
  BY <1>1, <1>2 DEF Stays, CommittedKeys, Committed
<1>4. QED
  BY <1>3 DEF n

(* What remove takes out of the entries it takes out of the global scope.  *)
LEMMA RemoveStays ==
  ASSUME NEW m \in Manager, NEW S \in SUBSET Key
  PROVE  Stays(m, RemoveAll(m, S))
<1> DEFINE n == RemoveAll(m, S)
           P == S \cap m.pending
           C == {k \in S \ P : Committed(m, k)}
<1>1. /\ n.link_ctx = [k \in Key |-> IF k \in C THEN NoModule ELSE m.link_ctx[k]]
      /\ n.global = m.global \ (P \cup C)
  BY DEF RemoveAll
<1> HIDE DEF n, C
<1>2. Stays(m, n)
  BY <1>1 DEF Stays, CommittedKeys, Committed
<1>3. QED
  BY <1>2 DEF n

(* A commit enters what was not registered, and makes only that global.    *)
LEMMA MergeStays ==
  ASSUME NEW m \in Manager, NEW S \in SUBSET Key, NEW module \in [S -> Module],
         NEW file, NEW needs, NEW fl
  PROVE  Stays(m, MergeLinkContext(m, S, module, file, needs, fl))
<1> DEFINE n == MergeLinkContext(m, S, module, file, needs, fl)
           new == Uncommitted(m, S)
<1>1. /\ n.link_ctx = [k \in Key |-> IF k \in new THEN module[k]
                                     ELSE m.link_ctx[k]]
      /\ n.global \subseteq m.global \cup new
  BY DEF MergeLinkContext
<1>2. \A k \in new : k \in S /\ k \in Key /\ ~Committed(m, k)
  BY DEF Uncommitted
<1> HIDE DEF n, new
<1>3. \A k \in new : module[k] \in Module /\ module[k] # NoModule
  BY <1>2, RegistryAssumption
<1>4. Stays(m, n)
  BY <1>1, <1>2, <1>3 DEF Stays, CommittedKeys, Committed
<1>5. QED
  BY <1>4 DEF n

(* No step changes an entry that stays, or leaves a global library         *)
(* unregistered.                                                           *)
LEMMA NextStays ==
  ASSUME TypeInv, [Next]_vars
  PROVE  Stays(mgr, mgr')
<1>0. mgr \in Manager
  BY DEF TypeInv, TypeOK
<1>1. mgr' = mgr => Stays(mgr, mgr')
  BY SameStays
<1>2. ASSUME NEW t \in Thread, ExistingByName(t) PROVE Stays(mgr, mgr')
  <2> DEFINE c == Lookup(mgr, req[t].key)
  <2>1. req[t] \in Request
    BY <1>2 DEF ExistingByName, TypeInv, Session, Opening
  <2>2. c \in Key \cup {NoKey} /\ req[t].flags \in SUBSET Flag
    BY <1>0, <2>1, RequestType, LookupType
  <2>3. \/ mgr' = mgr
        \/ /\ c # NoKey /\ Committed(mgr, c)
           /\ mgr' = Promote(mgr, c, req[t].flags)
    BY <1>2 DEF ExistingByName, Wait, FinishExisting
  <2> HIDE DEF c
  <2> QED BY <1>0, <1>1, <2>2, <2>3, PromoteStays
<1>3. ASSUME NEW t \in Thread, ExistingByInode(t) PROVE Stays(mgr, mgr')
  <2> DEFINE r == req[t]
             c == LookupByIdentity(mgr, r.ino)
             m == AddAlias(mgr, c, r.key)
  <2>1. r \in Request
    BY <1>3 DEF ExistingByInode, TypeInv, Session, Opening
  <2>2. \/ mgr' = mgr
        \/ /\ r.ino # NoInode /\ c # NoKey /\ Committed(mgr, c)
           /\ mgr' = Promote(m, c, r.flags)
    BY <1>3 DEF ExistingByInode, Wait, LinkRoot, FinishExisting
  <2>3. ASSUME r.ino # NoInode, c # NoKey
        PROVE  c \in Key /\ r.key \in Key /\ r.flags \in SUBSET Flag
    BY <1>0, <2>1, <2>3, RequestType, IdentityType
  <2> HIDE DEF c, r
  <2>4. ASSUME r.ino # NoInode, c # NoKey, Committed(mgr, c)
        PROVE  Stays(mgr, Promote(m, c, r.flags))
    <3>1. m \in Manager /\ m.link_ctx = mgr.link_ctx /\ m.global = mgr.global
      BY <1>0, <2>3, <2>4, AddAliasStays
    <3> HIDE DEF m
    <3>2. Committed(m, c)
      BY <2>4, <3>1 DEF Committed
    <3>3. Stays(m, Promote(m, c, r.flags))
      BY <2>3, <2>4, <3>1, <3>2, PromoteStays
    <3> QED BY <3>1, <3>3 DEF Stays, CommittedKeys, Committed
  <2> HIDE DEF m
  <2> QED BY <1>1, <2>2, <2>4
<1>4. ASSUME NEW t \in Thread, ResolveByPath(t) PROVE Stays(mgr, mgr')
  <2> DEFINE w == Head(work[t])
             c == LookupByIdentity(mgr, w.ino)
  <2>1. work[t] \in Seq(Work) /\ work[t] # <<>> /\ w.ino # NoInode
    BY <1>4 DEF ResolveByPath, TypeInv, TypeOK, Session
  <2>2. w \in Work
    BY <2>1
  <2>3. w.name \in Key /\ w.ino \in Inode /\ req[t].flags \in SUBSET Flag
    BY <2>1, <2>2, RequestFlags DEF Work, TypeInv
  <2>4. c \in Key \cup {NoKey}
    BY <1>0, <2>3, IdentityType
  <2>5. \/ mgr' = mgr
        \/ c # NoKey /\ mgr' = AddAlias(mgr, c, w.name)
        \/ mgr' = ReservePending(mgr, w.name, w.ino, req[t].flags)
    BY <1>4 DEF ResolveByPath, Wait
  <2> HIDE DEF c, w
  <2>6. CASE c # NoKey /\ mgr' = AddAlias(mgr, c, w.name)
    BY <1>0, <2>3, <2>4, <2>6, AddAliasStays, SameStays
  <2>7. CASE mgr' = ReservePending(mgr, w.name, w.ino, req[t].flags)
    <3>1. mgr'.link_ctx = mgr.link_ctx
      BY <1>0, <2>3, <2>7, ReservePendingFacts
    <3>2. mgr'.global = mgr.global
      BY <1>0, <2>7 DEF ReservePending, AddAliases, Manager
    <3> QED BY <3>1, <3>2, SameStays
  <2> QED BY <1>1, <2>5, <2>6, <2>7
<1>5. ASSUME NEW t \in Thread, Rollback(t) PROVE Stays(mgr, mgr')
  <2>1. AddedNames(t) \in SUBSET Key /\ mgr' = RemoveAll(mgr, AddedNames(t))
    BY <1>5 DEF Rollback, AddedNames
  <2> QED BY <1>0, <2>1, RemoveStays
<1>6. ASSUME NEW t \in Thread, Merge(t) PROVE Stays(mgr, mgr')
  <2>1. AddedNames(t) \in SUBSET Key
    BY DEF AddedNames
  <2> PICK new \in [AddedNames(t) -> Module] :
         mgr' = MergeLinkContext(mgr, AddedNames(t), new, added[t], deps[t],
                                 req[t].flags)
    BY <1>6, MergeFacts
  <2> QED BY <1>0, <2>1, MergeStays
<1>7. ASSUME NEW t \in Thread, NEW h \in Handle, Drop(t, h)
      PROVE  Stays(mgr, mgr')
  <2> PICK gone : /\ {image[x].key : x \in gone} \in SUBSET Key
                  /\ mgr' = RemoveAll(mgr, {image[x].key : x \in gone})
    BY <1>7, DropFacts
  <2> QED BY <1>0, RemoveStays
<1>8. ASSUME NEW t \in Thread,
             \/ ResolveByName(t) \/ PrepareRelocation(t) \/ Relocate(t)
             \/ DropFields(t)
             \/ \E r \in Request : Begin(t, r)
             \/ \E k : HandleOn(t, k)
             \/ \E h \in Handle : Clone(t, h)
      PROVE  mgr' = mgr
  BY <1>8 DEF ResolveByName, Wait, PrepareRelocation, Relocate, DropFields,
     Begin, HandleOn, Clone
<1>9. CASE UNCHANGED vars
  BY <1>1, <1>9 DEF vars
<1>10. QED
  BY <1>1, <1>2, <1>3, <1>4, <1>5, <1>6, <1>7, <1>8, <1>9
     DEF Next, Step, This, Addr2dso

(* A handle that is open before and after a step is the same handle.       *)
LEMMA HandleSame ==
  ASSUME TypeInv, [Next]_vars, FreeEnough, NEW h \in Handle, handle[h].open,
         handle'[h].open
  PROVE  handle'[h] = handle[h]
<1> DEFINE f == FreeHandle
<1>0. handle \in [Handle -> HandleState \cup {ClosedHandle}]
  BY DEF TypeInv, TypeOK
<1>1. f \in FreeHandles => f # h
  BY DEF FreeHandles, Exists, ClosedHandle
<1>2. CASE HandlesLeft
  BY <1>2 DEF HandlesLeft
<1>3. CASE HandleMade
  <2>1. f # h
    <3>1. HandleBound \/ OpenOnes # {}
      BY <1>3 DEF HandleMade
    <3> QED BY <1>1, <3>1, FreeFound
  <2> PICK k \in Key : NewHandle(mgr', k)
    BY <1>3 DEF HandleMade
  <2> DEFINE new == [inner |-> mgr'.link_ctx[k], list |-> f,
                     deps |-> LibraryScope(mgr', k), open |-> TRUE]
  <2>2. handle' = [handle EXCEPT ![f] = new]
    BY DEF NewHandle
  <2> HIDE DEF new, f
  <2> QED BY <1>0, <2>1, <2>2
<1>4. ASSUME NEW t \in Thread, NEW g \in Handle, Clone(t, g)
      PROVE  handle'[h] = handle[h]
  <2>1. HandleBound /\ handle' = [handle EXCEPT ![f] = handle[g]]
    BY <1>4 DEF Clone
  <2>2. f # h
    BY <1>1, <2>1, FreeFound
  <2> HIDE DEF f
  <2> QED BY <1>0, <2>1, <2>2
<1>5. ASSUME NEW t \in Thread, NEW g \in Handle, Drop(t, g)
      PROVE  handle'[h] = handle[h]
  <2>1. /\ handle' = [handle EXCEPT ![g] = [handle[g] EXCEPT !.open = FALSE]]
        /\ handle[g] # ClosedHandle
    BY <1>5 DEF Drop, Exists
  <2>2. handle[g] \in HandleState
    BY <1>0, <2>1
  <2>3. [handle[g] EXCEPT !.open = FALSE].open = FALSE
    BY <2>2 DEF HandleState
  <2> QED BY <1>0, <2>1, <2>3
<1>6. ASSUME NEW t \in Thread, DropFields(t) PROVE handle'[h] = handle[h]
  <2>1. handle' = [handle EXCEPT ![dropping[t]] = ClosedHandle]
    BY <1>6 DEF DropFields
  <2>2. ClosedHandle.open = FALSE
    BY DEF ClosedHandle
  <2> QED BY <1>0, <2>1, <2>2
<1>7. QED
  BY <1>2, <1>3, <1>4, <1>5, <1>6, HandleSteps

(* The libraries on the list of a handle that stays open stay mapped.      *)
LEMMA HandleImagesStay ==
  ASSUME TypeInv, [Next]_vars, NEW h \in Handle, handle[h].open,
         handle'[h] = handle[h], NEW x \in handle[h].deps
  PROVE  image'[x] = image[x]
<1>0. TypeOK /\ handle[h] # ClosedHandle
  BY DEF TypeInv, ClosedHandle
<1>1. x \in Module /\ x \in Live
  BY <1>0, HandleDeps, LiveImages
<1>2. ASSUME NEW t \in Thread, Merge(t) PROVE image'[x] = image[x]
  BY <1>1, <1>2, MergeFacts
<1>3. ASSUME NEW t \in Thread, DropFields(t) PROVE image'[x] = image[x]
  <2> DEFINE left == [handle EXCEPT ![dropping[t]] = ClosedHandle]
             live == LiveIn(mgr, left, LinkerRefs, image)
  <2>1. /\ image' = [y \in Module |-> IF y \in live THEN image[y] ELSE NoImage]
        /\ handle' = left
    BY <1>3 DEF DropFields
  <2> HIDE DEF left
  <2>2. left[h] # ClosedHandle /\ left[h].deps = handle[h].deps
    BY <1>0, <2>1
  <2>3. x \in live
    BY <2>2, LiveHolds
  <2> HIDE DEF live
  <2> QED BY <1>1, <2>1, <2>3
<1>4. ASSUME NEW t \in Thread, Step(t), ~Merge(t), ~DropFields(t)
      PROVE  image' = image
  BY <1>4 DEF Step, ExistingByName, ExistingByInode, LinkRoot, FinishExisting,
     Wait, Goto, ResolveByName, ResolveByPath, PrepareRelocation, Relocate,
     Rollback
<1>5. CASE UNCHANGED vars
  BY <1>5 DEF vars
<1>6. ASSUME NEW t \in Thread,
             \/ \E r \in Request : Begin(t, r)
             \/ \E k : HandleOn(t, k)
             \/ \E g \in Handle : Clone(t, g) \/ Drop(t, g)
      PROVE  image' = image
  BY <1>6 DEF Begin, HandleOn, Clone, Drop
<1>7. QED
  BY <1>2, <1>3, <1>4, <1>5, <1>6 DEF Next, This, Addr2dso

-----------------------------------------------------------------------------
(* What dlsym has answered stays the answer.                               *)

(* The first library of D in a list stays the first if it stays, when D    *)
(* changes only by what comes and goes.                                    *)
LEMMA FirstStays ==
  ASSUME NEW S \in SUBSET Key, NEW T \in SUBSET Key, NEW o, Ordered(o, S),
         NEW q \in Reordered(o, T), NEW D, NEW E,
         \A x \in S \cap T : x \in D <=> x \in E, NEW j \in T, FirstOf(o, D) = j
  PROVE  FirstOf(q, E) = j
<1>1. /\ Ordered(q, T)
      /\ \A x, y : y \in S /\ Before(q, x, y) => Before(o, x, y)
  BY ReorderedKeeps
<1>2. j \in S \cap D /\ \A x : Before(o, x, j) => x \notin D
  BY FirstBefore
<1>3. ASSUME NEW x, Before(q, x, j) PROVE x \notin E
  <2>1. Before(o, x, j) /\ x \notin D
    BY <1>1, <1>2, <1>3
  <2>2. x \in S /\ x \in T
    <3>1. x \in Elems(o) /\ x \in Elems(q)
      BY <1>3, <2>1 DEF Before, Elems
    <3> QED BY <1>1, <3>1 DEF Ordered
  <2> QED BY <2>1, <2>2
<1>4. QED
  BY <1>1, <1>2, <1>3, FirstBefore

(* The first library of D after k in a list.                               *)
LEMMA AfterBefore ==
  ASSUME NEW S \in SUBSET Key, NEW o, Ordered(o, S), NEW D, NEW k \in S,
         NEW j \in Key
  PROVE  FirstOf(After(o, k), D) = j
           <=> /\ j \in S \cap D /\ Before(o, k, j)
               /\ \A x : Before(o, k, x) /\ Before(o, x, j) => x \notin D
<1> DEFINE r == After(o, k)
           R == {x \in S : Before(o, k, x)}
<1>1. /\ Ordered(r, R)
      /\ \A x, y : Before(r, x, y) <=> Before(o, x, y) /\ Before(o, k, x)
  BY RestOrdered
<1>2. R \in SUBSET Key
  OBVIOUS
<1> HIDE DEF r
<1>3. FirstOf(r, D) = j
        <=> j \in R \cap D /\ \A x : Before(r, x, j) => x \notin D
  <2> HIDE DEF R
  <2> QED BY <1>1, <1>2, FirstBefore
<1>4. QED
  BY <1>1, <1>3 DEF r

(* The first library of D after k stays the first, if it and k stay.       *)
LEMMA AfterStays ==
  ASSUME NEW S \in SUBSET Key, NEW T \in SUBSET Key, NEW o, Ordered(o, S),
         NEW q \in Reordered(o, T), NEW D, NEW E,
         \A x \in S \cap T : x \in D <=> x \in E, NEW k \in S \cap T,
         NEW j \in T, FirstOf(After(o, k), D) = j
  PROVE  FirstOf(After(q, k), E) = j
<1>1. /\ Ordered(q, T)
      /\ \A x, y : y \in S /\ Before(q, x, y) => Before(o, x, y)
  BY ReorderedKeeps
<1>2. /\ j \in S \cap D /\ Before(o, k, j)
      /\ \A x : Before(o, k, x) /\ Before(o, x, j) => x \notin D
  <2>1. k \in S /\ j \in Key
    OBVIOUS
  <2> QED BY <2>1, AfterBefore
<1>3. Before(q, k, j)
  <2>1. k # j
    BY <1>2, OneBefore
  <2>2. Before(q, k, j) \/ Before(q, j, k)
    BY <1>1, <2>1, OneBefore
  <2>3. ~Before(o, j, k)
    BY <1>2, OneBefore
  <2> QED BY <1>1, <2>2, <2>3
<1>4. ASSUME NEW x, Before(q, k, x), Before(q, x, j) PROVE x \notin E
  <2>1. Before(o, x, j)
    BY <1>1, <1>2, <1>4
  <2>2. x \in S /\ x \in T
    <3>1. x \in Elems(o) /\ x \in Elems(q)
      BY <1>4, <2>1 DEF Before, Elems
    <3> QED BY <1>1, <3>1 DEF Ordered
  <2>3. Before(o, k, x)
    BY <1>1, <1>4, <2>2
  <2> QED BY <1>2, <2>1, <2>2, <2>3
<1>5. QED
  BY <1>1, <1>2, <1>3, <1>4, AfterBefore

(* The two lists hold what the manager holds.                              *)
OrderInv ==
  /\ TypeInv /\ FreeEnough
  /\ mgr.global \subseteq CommittedKeys(mgr)
  /\ Ordered(globals, mgr.global)
  /\ Ordered(loaded, CommittedKeys(mgr))

(* The lists of the host's libraries hold what the manager holds.          *)
LEMMA InitOrder == ScopesInit => OrderInv
<1> SUFFICES ASSUME ScopesInit PROVE OrderInv
  OBVIOUS
<1>1. TypeInv /\ FreeEnough /\ mgr.global \in SUBSET Key
  BY InitType, InitHandles DEF ScopesInit, TypeInv, TypeOK, Manager
<1>2. mgr.global \subseteq CommittedKeys(mgr)
  BY InitScope DEF ScopesInit, ScopeOK, CommittedKeys
<1>3. IsFiniteSet(mgr.global) /\ IsFiniteSet(CommittedKeys(mgr))
  BY <1>1, RegistryAssumption, FS_Subset DEF CommittedKeys
<1>4. QED
  BY <1>1, <1>2, <1>3, SeqsOrdered DEF ScopesInit, OrderInv

(* Every step keeps both lists in step with the manager.                   *)
LEMMA NextOrder == OrderInv /\ [ScopesNext]_scopeVars => OrderInv'
<1> SUFFICES ASSUME OrderInv, [ScopesNext]_scopeVars PROVE OrderInv'
  OBVIOUS
<1>1. [Next]_vars
  BY DEF ScopesNext, scopeVars
<1>2. TypeInv /\ TypeInv' /\ FreeEnough'
  BY <1>1, NextType, NextFree DEF OrderInv
<1>3. Stays(mgr, mgr')
  BY <1>1, <1>2, NextStays
<1>4. mgr'.global \subseteq CommittedKeys(mgr')
  BY <1>3 DEF OrderInv, Stays
<1>5. /\ mgr.global \in SUBSET Key /\ mgr'.global \in SUBSET Key
      /\ CommittedKeys(mgr) \in SUBSET Key /\ CommittedKeys(mgr') \in SUBSET Key
  BY <1>2 DEF TypeInv, TypeOK, Manager, CommittedKeys
<1>6. Ordered(globals, mgr.global) /\ Ordered(loaded, CommittedKeys(mgr))
  BY DEF OrderInv
<1>7. ASSUME ScopesNext
      PROVE  /\ Ordered(globals', mgr'.global)
             /\ Ordered(loaded', CommittedKeys(mgr'))
  <2>1. /\ globals' \in Reordered(globals, mgr'.global)
        /\ loaded' \in Reordered(loaded, CommittedKeys(mgr'))
    BY <1>7 DEF ScopesNext
  <2>2. Ordered(globals', mgr'.global)
    BY <1>5, <1>6, <2>1, ReorderedKeeps
  <2>3. Ordered(loaded', CommittedKeys(mgr'))
    BY <1>5, <1>6, <2>1, ReorderedKeeps
  <2> QED BY <2>2, <2>3
<1>8. ASSUME UNCHANGED scopeVars
      PROVE  /\ Ordered(globals', mgr'.global)
             /\ Ordered(loaded', CommittedKeys(mgr'))
  <2>1. mgr' = mgr /\ globals' = globals /\ loaded' = loaded
    BY <1>8 DEF scopeVars, vars
  <2> QED BY <1>6, <2>1
<1>9. Ordered(globals', mgr'.global) /\ Ordered(loaded', CommittedKeys(mgr'))
  BY <1>7, <1>8
<1>10. QED
  BY <1>2, <1>4, <1>9 DEF OrderInv

(* A library that stays defines what it defined.                           *)
LEMMA DefiningStays ==
  ASSUME TypeInv, [Next]_vars, NEW s,
         NEW k \in CommittedKeys(mgr) \cap CommittedKeys(mgr')
  PROVE  k \in Defining(s) <=> k \in Defining(s)'
<1>1. k \in Key /\ Committed(mgr, k) /\ Committed(mgr', k) /\ mgr \in Manager
  BY DEF CommittedKeys, TypeInv, TypeOK
<1>2. mgr'.link_ctx[k] = mgr.link_ctx[k]
  BY <1>1, NextStays DEF Stays
<1>3. image'[mgr.link_ctx[k]] = image[mgr.link_ctx[k]]
  BY <1>1, CommittedImage, ImagesStay
<1>4. QED
  BY <1>1, <1>2, <1>3 DEF Defining

(* The step that AnswersStable speaks of.                                  *)
Answers(s) ==
  /\ GlobalFind(s) \in mgr'.global => GlobalFind(s)' = GlobalFind(s)
  /\ \A k \in CommittedKeys(mgr) \cap CommittedKeys(mgr') :
       NextFind(k, s) \in CommittedKeys(mgr') =>
         NextFind(k, s)' = NextFind(k, s)
  /\ \A h \in Handle : handle[h].open /\ handle'[h].open =>
       HandleFinds(h, s)' = HandleFinds(h, s)

(* No step changes an answer whose library stays.                          *)
LEMMA StepAnswers ==
  ASSUME OrderInv, ScopesNext, NEW s \in Sym
  PROVE  Answers(s)
<1>0. TypeInv /\ FreeEnough /\ [Next]_vars /\ TypeInv'
  BY NextType DEF OrderInv, ScopesNext
<1>1. /\ mgr.global \in SUBSET Key /\ mgr'.global \in SUBSET Key
      /\ CommittedKeys(mgr) \in SUBSET Key /\ CommittedKeys(mgr') \in SUBSET Key
  BY <1>0 DEF TypeInv, TypeOK, Manager, CommittedKeys
<1>2. /\ mgr.global \subseteq CommittedKeys(mgr)
      /\ mgr'.global \subseteq CommittedKeys(mgr')
  BY <1>0, NextStays DEF OrderInv, Stays
<1>3. \A k \in CommittedKeys(mgr) \cap CommittedKeys(mgr') :
        k \in Defining(s) <=> k \in Defining(s)'
  BY <1>0, DefiningStays
<1>4. ASSUME GlobalFind(s) \in mgr'.global
      PROVE  GlobalFind(s)' = GlobalFind(s)
  <2>1. GlobalFind(s) = FirstOf(globals, Defining(s))
    BY DEF GlobalFind
  <2>2. GlobalFind(s)' = FirstOf(globals', Defining(s)')
    BY DEF GlobalFind
  <2>3. globals' \in Reordered(globals, mgr'.global)
        /\ Ordered(globals, mgr.global)
    BY DEF ScopesNext, OrderInv
  <2>4. \A k \in mgr.global \cap mgr'.global :
          k \in Defining(s) <=> k \in Defining(s)'
    BY <1>2, <1>3
  <2> QED BY <1>1, <1>4, <2>1, <2>2, <2>3, <2>4, FirstStays
<1>5. ASSUME NEW k \in CommittedKeys(mgr) \cap CommittedKeys(mgr'),
             NextFind(k, s) \in CommittedKeys(mgr')
      PROVE  NextFind(k, s)' = NextFind(k, s)
  <2>1. NextFind(k, s) = FirstOf(After(loaded, k), Defining(s))
    BY DEF NextFind
  <2>2. NextFind(k, s)' = FirstOf(After(loaded', k), Defining(s)')
    BY DEF NextFind
  <2>3. loaded' \in Reordered(loaded, CommittedKeys(mgr'))
        /\ Ordered(loaded, CommittedKeys(mgr))
    BY DEF ScopesNext, OrderInv
  <2> QED BY <1>1, <1>3, <1>5, <2>1, <2>2, <2>3, AfterStays
<1>6. ASSUME NEW h \in Handle, handle[h].open, handle'[h].open
      PROVE  HandleFinds(h, s)' = HandleFinds(h, s)
  <2>1. handle'[h] = handle[h]
    BY <1>0, <1>6, HandleSame
  <2>2. \A x \in handle[h].deps : image'[x] = image[x]
    BY <1>0, <1>6, <2>1, HandleImagesStay
  <2> QED BY <2>1, <2>2 DEF HandleFinds
<1>7. QED
  BY <1>4, <1>5, <1>6 DEF Answers

(* An address that dlsym has given out stays the answer, for any number of *)
(* threads, handles, libraries and symbols and whatever is opened, rolled  *)
(* back or dropped meanwhile.  Nothing is assumed of the names or of what  *)
(* handles keep registered: both lists hold what the manager holds, each   *)
(* library once (OrderInv), a removal keeps the order of what stays and    *)
(* additions come last, and a library that stays keeps its image.          *)
THEOREM AnswersStay == ScopesSpec => AnswersStable
<1>1. ScopesInit => OrderInv
  BY InitOrder
<1>2. OrderInv /\ [ScopesNext]_scopeVars => OrderInv'
  BY NextOrder
<1>3. OrderInv /\ [ScopesNext]_scopeVars
        => [\A s \in Sym : Answers(s)]_scopeVars
  BY StepAnswers
<1> HIDE DEF OrderInv
<1>4. ScopesSpec => [][\A s \in Sym : Answers(s)]_scopeVars
  BY <1>1, <1>2, <1>3, PTL DEF ScopesSpec
<1>5. QED
  BY <1>4 DEF AnswersStable, Answers
=============================================================================
