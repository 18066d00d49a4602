---------------------------- MODULE DlopenProofs ----------------------------
(***************************************************************************)
(* Proofs about module Dlopen.                                             *)
(***************************************************************************)
EXTENDS Dlopen, FiniteSetTheorems, TLAPS

-----------------------------------------------------------------------------
(* The manager's methods, one lemma each: they return managers, and what   *)
(* they do to the fields the reservation protocol depends on.              *)

(* Names are looked up to names.                                           *)
LEMMA LookupType ==
  ASSUME NEW m \in Manager, NEW k \in Key
  PROVE  /\ Lookup(m, k) \in Key \cup {NoKey}
         /\ Lookup(m, k) # NoKey => Registered(m, Lookup(m, k))
         /\ Registered(m, k) => Lookup(m, k) = k
BY RegistryAssumption DEF Lookup, Manager, Registered

(* A counter stays within its width.                                       *)
LEMMA CountType ==
  ASSUME NEW n \in Nat, NEW S \in SUBSET Key
  PROVE  Count(n + Cardinality(S)) \in 0 .. CounterMod - 1
<1>1. Cardinality(S) \in Nat
  BY RegistryAssumption, FS_Subset, FS_CardinalityType
<1>2. QED
  BY <1>1, RegistryAssumption DEF Count

(* add_alias registers and removes nothing.                                *)
LEMMA AddAliasesFacts ==
  ASSUME NEW m \in Manager, NEW c \in Key, NEW S \in SUBSET Key
  PROVE  /\ AddAliases(m, c, S) \in Manager
         /\ AddAliases(m, c, S).pending = m.pending
         /\ AddAliases(m, c, S).link_ctx = m.link_ctx
         /\ AddAliases(m, c, S).identities = m.identities
         /\ AddAliases(m, c, S).failed = m.failed
<1> DEFINE new == {a \in S : ~Registered(m, a) /\ m.aliases[a] = NoKey}
           al == [a \in Key |-> IF a \in new THEN c ELSE m.aliases[a]]
           pn == [k \in Key |-> IF k = c /\ k \in m.pending
                                THEN m.pnames[k] \cup new ELSE m.pnames[k]]
           ln == [k \in Key |-> IF k = c /\ k \notin m.pending
                                THEN m.libnames[k] \cup new
                                ELSE m.libnames[k]]
<1>1. AddAliases(m, c, S) = [m EXCEPT !.aliases = al, !.pnames = pn,
                                      !.libnames = ln]
  BY DEF AddAliases
<1>2. /\ al \in [Key -> Key \cup {NoKey}]
      /\ pn \in [Key -> SUBSET Key]
      /\ ln \in [Key -> SUBSET Key]
  BY DEF Manager
<1> HIDE DEF al, pn, ln
<1>3. QED
  BY <1>1, <1>2 DEF Manager

(* Reserving a name makes it pending and its file's identity.              *)
LEMMA ReservePendingFacts ==
  ASSUME NEW m \in Manager, NEW k \in Key, NEW i \in Inode,
         NEW fl \in SUBSET Flag, NEW n, n = ReservePending(m, k, i, fl)
  PROVE  /\ n \in Manager
         /\ n.pending = m.pending \cup {k}
         /\ n.link_ctx = m.link_ctx
         /\ \A j \in Inode : n.identities[j] = IF j = i THEN k
                                              ELSE m.identities[j]
<1> DEFINE pf == [m.pflags EXCEPT ![k] = NormalizedFlags(k, fl)]
           pn == [m.pnames EXCEPT ![k] = {}]
           ids == [m.identities EXCEPT ![i] = k]
           ad == Count(m.adds + 1)
           fd == IF Registered(m, k)
                 THEN m.failed \cup {"already registered"} ELSE m.failed
           r == [m EXCEPT !.pending = m.pending \cup {k}, !.pflags = pf,
                          !.pnames = pn, !.identities = ids, !.adds = ad,
                          !.failed = fd]
<1>1. ReservePending(m, k, i, fl) = AddAliases(r, k, Compat[k])
  BY DEF ReservePending, Manager
<1>2. /\ pf \in [Key -> SUBSET Flag]
      /\ pn \in [Key -> SUBSET Key]
      /\ ids \in [Inode -> Key \cup {NoKey}]
      /\ fd \in SUBSET Check
  BY DEF Manager, NormalizedFlags, Flag, Check
<1>3. ad \in 0 .. CounterMod - 1
  BY RegistryAssumption DEF Count, Manager
<1> HIDE DEF pf, pn, ids, ad, fd
<1>4. /\ r \in Manager
      /\ r.pending = m.pending \cup {k}
      /\ r.link_ctx = m.link_ctx
      /\ r.identities = ids
      /\ r.failed = fd
  BY <1>2, <1>3 DEF Manager
<1> HIDE DEF r
<1>5. Compat[k] \in SUBSET Key
  BY RegistryAssumption
<1>6. /\ n \in Manager
      /\ n.pending = r.pending
      /\ n.link_ctx = r.link_ctx
      /\ n.identities = r.identities
      /\ n.failed = r.failed
  BY <1>1, <1>4, <1>5, AddAliasesFacts
<1>7. \A j \in Inode : ids[j] = IF j = i THEN k ELSE m.identities[j]
  BY DEF ids, Manager
<1>8. QED
  BY <1>4, <1>6, <1>7

(* The reservation of a name that nobody has registered passes its check.  *)
LEMMA ReservePendingChecks ==
  ASSUME NEW m \in Manager, NEW k \in Key, NEW i \in Inode,
         NEW fl \in SUBSET Flag
  PROVE  ReservePending(m, k, i, fl).failed
           = IF Registered(m, k) THEN m.failed \cup {"already registered"}
             ELSE m.failed
BY DEF ReservePending, AddAliases, Manager

(* remove takes the keys of S out of the registry and their identities     *)
(* with them, and touches no other entry.                                  *)
LEMMA RemoveAllFacts ==
  ASSUME NEW m \in Manager, NEW S \in SUBSET Key
  PROVE  /\ RemoveAll(m, S) \in Manager
         /\ RemoveAll(m, S).pending = m.pending \ S
         /\ \A k \in Key : RemoveAll(m, S).link_ctx[k]
                            = IF k \in S \ m.pending THEN NoModule
                              ELSE m.link_ctx[k]
         /\ \A i \in Inode : m.identities[i] \notin S =>
                               RemoveAll(m, S).identities[i] = m.identities[i]
         /\ "already registered" \in RemoveAll(m, S).failed
              => "already registered" \in m.failed
<1> DEFINE P == S \cap m.pending
           C == {k \in S \ P : Committed(m, k)}
           names == UNION ({m.pnames[k] : k \in P}
                             \cup {m.libnames[k] : k \in C})
           pf == [k \in Key |-> IF k \in P THEN {} ELSE m.pflags[k]]
           pn == [k \in Key |-> IF k \in P THEN {} ELSE m.pnames[k]]
           lc == [k \in Key |-> IF k \in C THEN NoModule ELSE m.link_ctx[k]]
           fs == [k \in Key |-> IF k \in C THEN {} ELSE m.flags[k]]
           ln == [k \in Key |-> IF k \in C THEN {} ELSE m.libnames[k]]
           dr == [k \in Key |-> IF k \in C THEN {} ELSE m.direct[k]]
           al == [a \in Key |-> IF a \in names THEN NoKey ELSE m.aliases[a]]
           ids == [i \in Inode |-> IF m.identities[i] \in P \cup C
                                   THEN NoKey ELSE m.identities[i]]
           sb == Count(m.subs + Cardinality(P \cup C))
           fd == m.failed \cup
                   {c \in {"inconsistent global scope"} :
                      \E k \in C : ("GLOBAL" \in m.flags[k])
                                     # (k \in m.global)}
                   \cup {c \in {"not registered"} : S # P \cup C}
<1>1. RemoveAll(m, S) =
        [pending |-> m.pending \ P, pflags |-> pf, pnames |-> pn,
         link_ctx |-> lc, flags |-> fs, libnames |-> ln, direct |-> dr,
         global |-> m.global \ (P \cup C), aliases |-> al,
         identities |-> ids, adds |-> m.adds, subs |-> sb, failed |-> fd]
  BY DEF RemoveAll
<1>2. /\ pf \in [Key -> SUBSET Flag]
      /\ pn \in [Key -> SUBSET Key]
      /\ lc \in [Key -> Module \cup {NoModule}]
      /\ fs \in [Key -> SUBSET Flag]
      /\ ln \in [Key -> SUBSET Key]
      /\ dr \in [Key -> SUBSET Key]
      /\ al \in [Key -> Key \cup {NoKey}]
      /\ ids \in [Inode -> Key \cup {NoKey}]
      /\ fd \in SUBSET Check
  BY DEF Manager, Check
<1>3. sb \in 0 .. CounterMod - 1
  <2>1. P \cup C \in SUBSET Key
    OBVIOUS
  <2>2. m.subs \in Nat
    BY RegistryAssumption DEF Manager
  <2>3. QED
    BY <2>1, <2>2, CountType
<1>4. \A k \in Key : lc[k] = IF k \in S \ m.pending THEN NoModule
                            ELSE m.link_ctx[k]
  BY DEF Committed
<1>5. \A i \in Inode : m.identities[i] \notin S => ids[i] = m.identities[i]
  OBVIOUS
<1>6. "already registered" \in fd => "already registered" \in m.failed
  OBVIOUS
<1>7. m.pending \ P = m.pending \ S
  OBVIOUS
<1> HIDE DEF pf, pn, lc, fs, ln, dr, al, ids, sb, fd, P, C
<1> DEFINE n == RemoveAll(m, S)
<1>8. /\ n.pending = m.pending \ P
      /\ n.link_ctx = lc
      /\ n.identities = ids
      /\ n.failed = fd
  BY <1>1 DEF Manager
<1>9. n \in Manager
  <2>1. /\ m.pending \ P \in SUBSET Key
        /\ m.global \ (P \cup C) \in SUBSET Key
        /\ m.adds \in 0 .. CounterMod - 1
    BY DEF Manager
  <2>2. QED
    BY <1>1, <1>2, <1>3, <2>1 DEF Manager
<1> HIDE DEF n
<1>10. QED
  BY <1>4, <1>5, <1>6, <1>7, <1>8, <1>9 DEF n

(* promote changes flags and the global scope only.                        *)
LEMMA PromoteFacts ==
  ASSUME NEW m \in Manager, NEW k \in Key, NEW fl \in SUBSET Flag
  PROVE  /\ Promote(m, k, fl) \in Manager
         /\ Promote(m, k, fl).pending = m.pending
         /\ Promote(m, k, fl).link_ctx = m.link_ctx
         /\ Promote(m, k, fl).identities = m.identities
         /\ "already registered" \in Promote(m, k, fl).failed
              => "already registered" \in m.failed
<1> DEFINE pr == fl \cap {"GLOBAL", "NODELETE"}
           fs == [m.flags EXCEPT ![k] = m.flags[k] \cup pr]
           gl == IF "GLOBAL" \in fl THEN m.global \cup {k} ELSE m.global
           fd == IF "GLOBAL" \in fl /\ k \in m.global
                 THEN m.failed \cup {"already in global scope"} ELSE m.failed
<1>1. \/ Promote(m, k, fl) = m
      \/ Promote(m, k, fl) = [m EXCEPT !.flags = fs, !.global = gl,
                                       !.failed = fd]
  BY DEF Promote, Manager
<1>2. /\ fs \in [Key -> SUBSET Flag]
      /\ gl \in SUBSET Key
      /\ fd \in SUBSET Check
      /\ "already registered" \in fd => "already registered" \in m.failed
  BY DEF Manager, Check
<1> HIDE DEF fs, gl, fd
<1>3. QED
  BY <1>1, <1>2 DEF Manager

(* merge_link_context commits what it is given: the reserved names leave   *)
(* pending and enter link_ctx in one step.                                 *)
LEMMA MergeLinkContextFacts ==
  ASSUME NEW m \in Manager, NEW S \in SUBSET Key, NEW module \in [S -> Module],
         NEW file \in [Key -> Inode \cup {NoInode}],
         NEW deps_ \in [Key -> SUBSET Key], NEW fl \in SUBSET Flag,
         NEW n, n = MergeLinkContext(m, S, module, file, deps_, fl)
  PROVE  /\ n \in Manager
         /\ n.pending = m.pending \ Uncommitted(m, S)
         /\ \A k \in Key : n.link_ctx[k]
                            = IF k \in Uncommitted(m, S) THEN module[k]
                              ELSE m.link_ctx[k]
         /\ \A i \in Inode :
              IF \E k \in Uncommitted(m, S) : file[k] = i
              THEN \E k \in Uncommitted(m, S) : file[k] = i /\ n.identities[i] = k
              ELSE n.identities[i] = m.identities[i]
         /\ "already registered" \in n.failed
              => "already registered" \in m.failed
<1> DEFINE T == Uncommitted(m, S)
           meta(k) == IF k \in m.pending THEN m.pflags[k]
                      ELSE NormalizedFlags(k, fl)
           lc == [k \in Key |-> IF k \in T THEN module[k] ELSE m.link_ctx[k]]
           free(k) == {a \in Compat[k] : /\ a \notin m.pending
                                         /\ lc[a] = NoModule
                                         /\ m.aliases[a] = NoKey}
           pf == [k \in Key |-> IF k \in T THEN {} ELSE m.pflags[k]]
           pn == [k \in Key |-> IF k \in T THEN {} ELSE m.pnames[k]]
           fs == [k \in Key |-> IF k \in T THEN meta(k) ELSE m.flags[k]]
           ln == [k \in Key |-> IF k \in T THEN m.pnames[k] \cup free(k)
                                ELSE m.libnames[k]]
           dr == [k \in Key |-> IF k \in T THEN deps_[k] ELSE m.direct[k]]
           gl == m.global \cup {k \in T : "GLOBAL" \in meta(k)}
           al == [a \in Key |-> IF \E k \in T : a \in free(k)
                                THEN CHOOSE k \in T : a \in free(k)
                                ELSE m.aliases[a]]
           ids == [i \in Inode |-> IF \E k \in T : file[k] = i
                                   THEN CHOOSE k \in T : file[k] = i
                                   ELSE m.identities[i]]
           ad == Count(m.adds + Cardinality(T \ m.pending))
           fd == IF \E k \in T \cap m.global : "GLOBAL" \in meta(k)
                 THEN m.failed \cup {"already in global scope"} ELSE m.failed
<1>1. T \in SUBSET Key /\ T \subseteq S
  BY DEF Uncommitted
<1>2. n = [pending |-> m.pending \ T, pflags |-> pf, pnames |-> pn,
           link_ctx |-> lc, flags |-> fs, libnames |-> ln, direct |-> dr,
           global |-> gl, aliases |-> al, identities |-> ids, adds |-> ad,
           subs |-> m.subs, failed |-> fd]
  BY DEF MergeLinkContext
<1> HIDE DEF T
<1>3. \A k \in Key : meta(k) \in SUBSET Flag
  BY DEF Manager, NormalizedFlags, Flag
<1>4. \A k \in Key : free(k) \in SUBSET Key
  BY RegistryAssumption
<1>5. /\ lc \in [Key -> Module \cup {NoModule}]
      /\ pf \in [Key -> SUBSET Flag]
      /\ pn \in [Key -> SUBSET Key]
      /\ dr \in [Key -> SUBSET Key]
      /\ fd \in SUBSET Check
      /\ "already registered" \in fd => "already registered" \in m.failed
  BY <1>1 DEF Manager, Check
<1>6. fs \in [Key -> SUBSET Flag] /\ gl \in SUBSET Key
  <2> HIDE DEF meta
  <2> QED BY <1>1, <1>3 DEF Manager
<1>7. ln \in [Key -> SUBSET Key]
  <2> HIDE DEF free
  <2> QED BY <1>1, <1>4 DEF Manager
<1>8. al \in [Key -> Key \cup {NoKey}]
  <2>1. ASSUME NEW a \in Key PROVE al[a] \in Key \cup {NoKey}
    <3> HIDE DEF free
    <3>1. CASE \E k \in T : a \in free(k)
      BY <1>1, <3>1
    <3>2. CASE ~\E k \in T : a \in free(k)
      BY <3>2 DEF Manager
    <3> QED BY <3>1, <3>2
  <2> QED BY <2>1
<1>9. ids \in [Inode -> Key \cup {NoKey}]
  BY <1>1 DEF Manager
<1>10. ad \in 0 .. CounterMod - 1
  <2>1. m.adds \in Nat /\ T \ m.pending \in SUBSET Key
    BY <1>1, RegistryAssumption DEF Manager
  <2> QED BY <2>1, CountType
<1>11. m.pending \ T \in SUBSET Key /\ m.subs \in 0 .. CounterMod - 1
  BY DEF Manager
<1>12. n \in Manager
  <2> HIDE DEF lc, pf, pn, fs, ln, dr, gl, al, ids, ad, fd
  <2> DEFINE r == [pending |-> m.pending \ T, pflags |-> pf, pnames |-> pn,
           link_ctx |-> lc, flags |-> fs, libnames |-> ln, direct |-> dr,
           global |-> gl, aliases |-> al, identities |-> ids, adds |-> ad,
           subs |-> m.subs, failed |-> fd]
  <2>1. r \in Manager
    BY <1>5, <1>6, <1>7, <1>8, <1>9, <1>10, <1>11 DEF Manager
  <2> QED BY <1>2, <2>1
<1>13. n.pending = m.pending \ T /\ n.link_ctx = lc /\ n.identities = ids
       /\ n.failed = fd
  <2> HIDE DEF lc, pf, pn, fs, ln, dr, gl, al, ids, ad, fd
  <2> QED BY <1>2
<1>14. /\ \A k \in Key : lc[k] = IF k \in T THEN module[k] ELSE m.link_ctx[k]
       /\ \A i \in Inode : IF \E k \in T : file[k] = i
                           THEN \E k \in T : file[k] = i /\ ids[i] = k
                           ELSE ids[i] = m.identities[i]
  OBVIOUS
<1> HIDE DEF lc, pf, pn, fs, ln, dr, gl, al, ids, ad, fd
<1>15. QED
  BY <1>5, <1>12, <1>13, <1>14 DEF T

(* What init leaves behind is a manager.                                   *)
LEMMA HostRegistryType ==
  HostRegistry(Host, HostModule) \in Manager
<1> DEFINE owner(a) == {k \in Host : a \in Compat[k] /\ a \notin Host}
           lc == [k \in Key |-> IF k \in Host THEN HostModule[k] ELSE NoModule]
           fs == [k \in Key |-> IF k \in Host THEN {"GLOBAL", "NODELETE"}
                                ELSE {}]
           ln == [k \in Key |-> {a \in Key : k \in owner(a)}]
           al == [a \in Key |-> IF owner(a) # {}
                                THEN CHOOSE k \in owner(a) : TRUE ELSE NoKey]
           ad == Count(Cardinality(Host))
<1>1. HostRegistry(Host, HostModule) =
        [pending |-> {}, pflags |-> [k \in Key |-> {}],
         pnames |-> [k \in Key |-> {}], link_ctx |-> lc, flags |-> fs,
         libnames |-> ln, direct |-> [k \in Key |-> {}], global |-> Host,
         aliases |-> al, identities |-> [i \in Inode |-> NoKey], adds |-> ad,
         subs |-> 0, failed |-> {}]
  BY DEF HostRegistry
<1>2. /\ lc \in [Key -> Module \cup {NoModule}]
      /\ fs \in [Key -> SUBSET Flag]
      /\ ln \in [Key -> SUBSET Key]
      /\ Host \in SUBSET Key
  BY DlopenAssumption DEF Flag
<1>3. al \in [Key -> Key \cup {NoKey}]
  <2>1. ASSUME NEW a \in Key PROVE al[a] \in Key \cup {NoKey}
    <3>1. owner(a) \in SUBSET Key
      BY DlopenAssumption
    <3> HIDE DEF owner
    <3> QED BY <3>1
  <2> QED BY <2>1
<1>4. ad \in 0 .. CounterMod - 1
  <2>1. Cardinality(Host) \in Nat
    BY DlopenAssumption, RegistryAssumption, FS_Subset, FS_CardinalityType
  <2> QED BY <2>1, RegistryAssumption DEF Count
<1>5. 0 \in 0 .. CounterMod - 1
  BY RegistryAssumption
<1> HIDE DEF lc, fs, ln, al, ad
<1>6. QED
  BY <1>1, <1>2, <1>3, <1>4, <1>5 DEF Manager

-----------------------------------------------------------------------------
(* Where a dlopen is.  Its first request, the only one without an owner,   *)
(* is resolved before anything is reserved; from then on the root is a     *)
(* library of the session, or a committed one whose lock has not been let  *)
(* go since.                                                               *)
Session(t) ==
  /\ pc[t] \in {"idle", "dropping", "existing_name", "existing_inode"} =>
       root[t] = NoKey /\ AddedNames(t) = {}
  /\ Opening(t) => req[t] \in Request
  /\ pc[t] \in {"resolve_name", "await_name", "resolve_path"}
     /\ root[t] = NoKey =>
       /\ AddedNames(t) = {}
       /\ Len(work[t]) = 1
       /\ work[t][1].owner = NoKey
  /\ pc[t] = "resolve_path" => work[t] # <<>> /\ Head(work[t]).ino # NoInode
  /\ pc[t] \in {"relocate", "merge"} => root[t] # NoKey
  /\ root[t] # NoKey =>
       /\ \A n \in 1 .. Len(work[t]) : work[t][n].owner # NoKey
       /\ \/ root[t] \in AddedNames(t)
          \/ /\ lock = t
             /\ work[t] = <<>>
             /\ AddedNames(t) = {}
             /\ Committed(mgr, root[t])

(* What the registry or an open handle refers to is an image, not an       *)
(* identity that is free for the next one.                                 *)
ImagesKeyed ==
  /\ \A k \in Key : Committed(mgr, k) => image[mgr.link_ctx[k]].key \in Key
  /\ \A h \in Handle : handle[h].open =>
       /\ handle[h].inner \in Module
       /\ \A x \in {handle[h].inner} \cup handle[h].deps : image[x].key \in Key

TypeInv ==
  /\ TypeOK
  /\ \A t \in Thread : Session(t)
  /\ ImagesKeyed

(* The files behind the names that a session uses or the registry holds.   *)
FilesNamed ==
  /\ \A t \in Thread : \A n \in 1 .. Len(work[t]) :
       work[t][n].ino # NoInode =>
         <<work[t][n].name, work[t][n].ino>> \in NamedFiles
  /\ \A t \in Thread : \A k \in AddedNames(t) :
       <<k, added[t][k]>> \in NamedFiles
  /\ \A k \in Key : Committed(mgr, k) =>
       /\ image[mgr.link_ctx[k]].key = k
       /\ <<k, image[mgr.link_ctx[k]].file>> \in NamedFiles

(* The identity table leads from the file of a registered name to it.  It  *)
(* knows nothing of the host libraries.                                    *)
IdentityKnown ==
  /\ \A t \in Thread : \A k \in AddedNames(t) : mgr.identities[added[t][k]] = k
  /\ \A k \in Key \ Host : Committed(mgr, k) =>
       mgr.identities[image[mgr.link_ctx[k]].file] = k

(* A host library stays: it cannot be deleted, so that its name, by which  *)
(* alone it is known, is always found and never reserved.                  *)
HostKept ==
  /\ \A k \in Host : Committed(mgr, k) /\ "NODELETE" \in mgr.flags[k]
  /\ \A t \in Thread : pc[t] = "resolve_path" =>
                           Head(work[t]).name \notin Host

ReservationInv ==
  /\ TypeInv
  /\ PendingOwned
  /\ \A k \in mgr.pending : ~Committed(mgr, k)
  /\ FilesNamed
  /\ IdentityKnown
  /\ HostKept
  /\ NeverAlreadyRegistered

-----------------------------------------------------------------------------
(* Facts that several steps need.                                          *)

(* A session of another thread is not disturbed: its own variables are     *)
(* left alone, and while it holds the lock nobody unloads its root.        *)
LEMMA SessionFrame ==
  ASSUME TypeOK, NEW u \in Thread, Session(u),
         pc'[u] = pc[u], req'[u] = req[u], root'[u] = root[u],
         work'[u] = work[u], added'[u] = added[u],
         lock = u => lock' = lock /\ mgr' = mgr
  PROVE  Session(u)'
<1>1. AddedNames(u)' = AddedNames(u)
  BY DEF AddedNames
<1>2. QED
  BY <1>1 DEF Session, Opening, Committed

(* A lock that one thread can take is held by no other.                    *)
LEMMA LockedByOther ==
  ASSUME NEW t \in Thread, NEW u \in Thread, u # t, CanLock(t)
  PROVE  lock # u
BY DlopenAssumption DEF CanLock

(* A lock that is free is held by no thread.                               *)
LEMMA NotLocked ==
  ASSUME NEW u \in Thread, lock = NoThread
  PROVE  lock # u
BY DlopenAssumption

(* The flags of a request are flags.                                       *)
LEMMA RequestFlags ==
  ASSUME TypeOK, NEW t \in Thread
  PROVE  req[t].flags \in SUBSET Flag
<1>1. CASE req[t] = NoRequest
  BY <1>1 DEF NoRequest
<1>2. CASE req[t] \in Request
  <2>1. req[t] \in [key : Key, ino : Inode \cup {NoInode}, slash : BOOLEAN,
                    flags : SUBSET Flag]
    BY <1>2, DlopenAssumption
  <2> QED BY <2>1
<1>3. QED
  BY <1>1, <1>2 DEF TypeOK

(* The roots of a reachability set are in it.                              *)
LEMMA ReachRoots ==
  ASSUME NEW S, NEW R PROVE S \subseteq Reach(S, R)
BY DEF Reach

(* ImagesOf yields images.                                                 *)
LEMMA ImagesOfType ==
  ASSUME NEW m \in Manager, NEW S
  PROVE  ImagesOf(m, S) \in SUBSET Module
BY DEF ImagesOf, Committed, Manager

(* library_scope_by_id yields images.                                      *)
LEMMA LibraryScopeType ==
  ASSUME NEW m \in Manager, NEW k
  PROVE  LibraryScope(m, k) \in SUBSET Module
BY ImagesOfType DEF LibraryScope

(* The image of a committed library is one of the registry's images.       *)
LEMMA CommittedImage ==
  ASSUME NEW m \in Manager, NEW k \in Key, Committed(m, k)
  PROVE  m.link_ctx[k] \in Module /\ m.link_ctx[k] \in Images(m)
BY DEF Committed, Manager, Images, ImagesOf

(* Every image of the registry belongs to a committed library.             *)
LEMMA ImageCommitted ==
  ASSUME NEW m \in Manager, NEW S, NEW x \in ImagesOf(m, S)
  PROVE  \E k \in Key : Committed(m, k) /\ x = m.link_ctx[k]
BY DEF ImagesOf

(* An image lives while the registry or a handle refers to it.             *)
LEMMA LiveHolds ==
  ASSUME NEW m, NEW hs, NEW refs, NEW im
  PROVE  /\ Images(m) \subseteq LiveIn(m, hs, refs, im)
         /\ \A h \in Handle : hs[h] # ClosedHandle =>
              {hs[h].inner} \cup hs[h].deps \subseteq LiveIn(m, hs, refs, im)
<1> DEFINE S == Images(m) \cup refs
                  \cup UNION {{hs[h].inner} \cup hs[h].deps :
                                h \in {h \in Handle : hs[h] # ClosedHandle}}
           R == [x \in Module |-> im[x].retains]
<1>1. Images(m) \subseteq S
  OBVIOUS
<1>2. \A h \in Handle : hs[h] # ClosedHandle =>
        {hs[h].inner} \cup hs[h].deps \subseteq S
  <2> SUFFICES ASSUME NEW h \in Handle, hs[h] # ClosedHandle
               PROVE  {hs[h].inner} \cup hs[h].deps \subseteq S
    OBVIOUS
  <2> QED OBVIOUS
<1>3. LiveIn(m, hs, refs, im) = Reach(S, R)
  BY DEF LiveIn
<1> HIDE DEF S, R
<1>4. QED
  BY <1>1, <1>2, <1>3, ReachRoots

(* A session's next list of names: the rest of the old one and new ones.   *)
LEMMA NextWork ==
  ASSUME NEW w \in Seq(Work), w # <<>>, NEW more \in Seq(Work)
  PROVE  /\ Tail(w) \o more \in Seq(Work)
         /\ \A n \in 1 .. Len(Tail(w) \o more) :
              \/ \E j \in 2 .. Len(w) : (Tail(w) \o more)[n] = w[j]
              \/ \E j \in 1 .. Len(more) : (Tail(w) \o more)[n] = more[j]
         /\ Head(w) \in Work
         /\ Head(w) = w[1]
         /\ Len(w) = 1 /\ more = <<>> => Tail(w) \o more = <<>>
<1>1. /\ Tail(w) \in Seq(Work)
      /\ Len(Tail(w)) = Len(w) - 1
      /\ Len(w) \in Nat \ {0}
      /\ \A n \in 1 .. Len(Tail(w)) : Tail(w)[n] = w[n + 1]
      /\ Head(w) = w[1]
      /\ w[1] \in Work
  OBVIOUS
<1> DEFINE v == Tail(w)
<1> HIDE DEF v
<1>2. /\ v \in Seq(Work)
      /\ Len(v) = Len(w) - 1
      /\ \A n \in 1 .. Len(v) : v[n] = w[n + 1]
  BY <1>1 DEF v
<1>3. ASSUME NEW n \in 1 .. Len(v \o more)
      PROVE  \/ \E j \in 2 .. Len(w) : (v \o more)[n] = w[j]
             \/ \E j \in 1 .. Len(more) : (v \o more)[n] = more[j]
  <2>1. CASE n \in 1 .. Len(v)
    <3>1. (v \o more)[n] = w[n + 1] /\ n + 1 \in 2 .. Len(w)
      BY <1>1, <1>2, <2>1
    <3> QED BY <3>1
  <2>2. CASE n \notin 1 .. Len(v)
    <3>1. (v \o more)[n] = more[n - Len(v)] /\ n - Len(v) \in 1 .. Len(more)
      BY <1>2, <2>2
    <3> QED BY <3>1
  <2> QED BY <2>1, <2>2
<1>4. Len(w) = 1 /\ more = <<>> => v \o more = <<>>
  BY <1>2
<1>5. v \o more \in Seq(Work)
  BY <1>2
<1>6. QED
  BY <1>1, <1>3, <1>4, <1>5 DEF v

(* A new handle refers to committed libraries.                             *)
LEMMA NewHandleFacts ==
  ASSUME TypeOK, NEW m \in Manager, NEW k \in Key, Committed(m, k),
         NewHandle(m, k)
  PROVE  /\ handle' \in [Handle -> HandleState \cup {ClosedHandle}]
         /\ \A h \in Handle :
              \/ handle'[h] = handle[h]
              \/ /\ handle'[h].inner \in Module
                 /\ {handle'[h].inner} \cup handle'[h].deps \subseteq Images(m)
<1> DEFINE f == FreeHandle
           lib == [inner |-> m.link_ctx[k], list |-> f,
                   deps |-> LibraryScope(m, k), open |-> TRUE]
<1>1. /\ lib.inner \in Module
      /\ lib.inner \in Images(m)
      /\ lib.deps \in SUBSET Module
  BY CommittedImage, LibraryScopeType
<1>2. lib.deps \subseteq Images(m)
  BY DEF LibraryScope, ImagesOf, Images
<1>3. handle' = [handle EXCEPT ![f] = lib]
  BY DEF NewHandle
<1>4. f \in Handle => lib \in HandleState
  BY <1>1 DEF HandleState
<1> HIDE DEF f, lib
<1>5. QED
  BY <1>1, <1>2, <1>3, <1>4 DEF TypeOK

(* A new handle leads to images that have a name.                          *)
LEMMA NewHandleKeyed ==
  ASSUME TypeOK, ImagesKeyed, mgr' \in Manager, NEW k \in Key,
         Committed(mgr', k), NewHandle(mgr', k),
         \A j \in Key : Committed(mgr', j) =>
           image'[mgr'.link_ctx[j]].key \in Key,
         \A h \in Handle : handle[h].open =>
           \A x \in {handle[h].inner} \cup handle[h].deps : image'[x] = image[x]
  PROVE  ImagesKeyed'
<1>1. ASSUME NEW h \in Handle, handle'[h].open
      PROVE  /\ handle'[h].inner \in Module
             /\ \A x \in {handle'[h].inner} \cup handle'[h].deps :
                  image'[x].key \in Key
  <2>1. CASE handle'[h] = handle[h]
    BY <1>1, <2>1 DEF ImagesKeyed
  <2>2. CASE /\ handle'[h].inner \in Module
             /\ {handle'[h].inner} \cup handle'[h].deps \subseteq Images(mgr')
    BY <2>2, ImageCommitted DEF Images
  <2> QED BY <2>1, <2>2, NewHandleFacts
<1>2. QED
  BY <1>1 DEF ImagesKeyed

(* Leaving the session keeps types and sessions.                           *)
LEMMA LeaveFacts ==
  ASSUME TypeInv, NEW t \in Thread, CanLock(t), Leave(t)
  PROVE  /\ (/\ mgr' \in Manager
             /\ image' \in [Module -> ImageState]
             /\ handle' \in [Handle -> HandleState \cup {ClosedHandle}])
            => TypeOK'
         /\ \A u \in Thread : Session(u)'
         /\ \A u \in Thread : AddedNames(u)' = IF u = t THEN {} ELSE AddedNames(u)
<1>1. /\ lock' \in Thread \cup {NoThread}
      /\ pc' \in [Thread -> PC]
      /\ req' \in [Thread -> Request \cup {NoRequest}]
      /\ work' \in [Thread -> Seq(Work)]
      /\ root' \in [Thread -> Key \cup {NoKey}]
      /\ scope' \in [Thread -> SUBSET Module]
      /\ bound' \in [Thread -> SUBSET Module]
      /\ dropping' \in [Thread -> Handle \cup {NoHandle}]
  BY DEF Leave, TypeInv, TypeOK, PC
<1>2. /\ added' \in [Thread -> [Key -> Inode \cup {NoInode}]]
      /\ deps' \in [Thread -> [Key -> SUBSET Key]]
  BY DEF Leave, TypeInv, TypeOK, NoWork, NoDeps
<1>3. \A u \in Thread : AddedNames(u)' = IF u = t THEN {} ELSE AddedNames(u)
  BY DEF Leave, TypeInv, TypeOK, AddedNames, NoWork
<1>4. Session(t)'
  BY <1>3 DEF Leave, Session, Opening, TypeInv, TypeOK
<1>5. ASSUME NEW u \in Thread, u # t PROVE Session(u)'
  BY <1>5, SessionFrame, LockedByOther DEF Leave, TypeInv, TypeOK
<1>6. QED
  BY <1>1, <1>2, <1>3, <1>4, <1>5 DEF TypeOK

(* Waiting keeps types and sessions: no root is waited for twice.          *)
LEMMA WaitFacts ==
  ASSUME TypeInv, NEW t \in Thread, NEW l, Wait(t, l),
         \/ l = pc[t]
         \/ l = "await_name" /\ pc[t] = "resolve_name",
         root[t] = NoKey \/ work[t] # <<>>
  PROVE  TypeInv'
<1>0. /\ pc' \in [Thread -> PC]
      /\ pc'[t] = l
      /\ \A u \in Thread \ {t} : pc'[u] = pc[u]
  BY DEF Wait, TypeInv, TypeOK, PC
<1>1. TypeOK'
  BY <1>0 DEF Wait, TypeInv, TypeOK
<1>2. \A u \in Thread : AddedNames(u)' = AddedNames(u)
  BY DEF Wait, AddedNames
<1>3. Session(t)'
  BY <1>0, <1>2 DEF Wait, TypeInv, Session, Opening
<1>4. ASSUME NEW u \in Thread, u # t PROVE Session(u)'
  BY <1>0, <1>4, SessionFrame DEF Wait, TypeInv
<1>5. ImagesKeyed'
  BY DEF Wait, TypeInv, ImagesKeyed, Committed
<1>6. QED
  BY <1>1, <1>3, <1>4, <1>5 DEF TypeInv

(* finish_existing.                                                        *)
LEMMA FinishExistingFacts ==
  ASSUME TypeInv, NEW t \in Thread, CanLock(t), Opening(t), NEW m \in Manager,
         NEW c \in Key, m.link_ctx = mgr.link_ctx, Committed(m, c),
         FinishExisting(t, m, c)
  PROVE  TypeInv'
<1> DEFINE fl == req[t].flags
<1>1. fl \in SUBSET Flag
  BY RequestFlags DEF TypeInv
<1>2. /\ mgr' = Promote(m, c, fl)
      /\ NewHandle(mgr', c)
      /\ Leave(t)
      /\ image' = image
  BY DEF FinishExisting
<1>3. mgr' \in Manager /\ mgr'.link_ctx = m.link_ctx
  BY <1>1, <1>2, PromoteFacts
<1>4. Committed(mgr', c)
  BY <1>3 DEF Committed
<1>5. handle' \in [Handle -> HandleState \cup {ClosedHandle}]
  BY <1>2, <1>3, <1>4, NewHandleFacts DEF TypeInv
<1>6. TypeOK' /\ \A u \in Thread : Session(u)'
  BY <1>2, <1>3, <1>5, LeaveFacts DEF TypeInv, TypeOK
<1>7. \A j \in Key : Committed(mgr', j) => image'[mgr'.link_ctx[j]].key \in Key
  BY <1>2, <1>3 DEF TypeInv, ImagesKeyed, Committed
<1>8. ImagesKeyed'
  BY <1>2, <1>3, <1>4, <1>7, NewHandleKeyed DEF TypeInv
<1>9. QED
  BY <1>6, <1>8 DEF TypeInv

(* A step of a session that goes on, with the lock held.                   *)
LEMMA GotoFacts ==
  ASSUME TypeInv, NEW t \in Thread, CanLock(t), NEW label \in PC,
         Goto(t, label), mgr' \in Manager, mgr'.link_ctx = mgr.link_ctx,
         work' \in [Thread -> Seq(Work)],
         root' \in [Thread -> Key \cup {NoKey}],
         added' \in [Thread -> [Key -> Inode \cup {NoInode}]],
         deps' \in [Thread -> [Key -> SUBSET Key]],
         \A u \in Thread \ {t} : /\ root'[u] = root[u]
                                 /\ work'[u] = work[u]
                                 /\ added'[u] = added[u]
  PROVE  /\ TypeOK'
         /\ ImagesKeyed'
         /\ \A u \in Thread \ {t} : Session(u)'
<1>1. TypeOK'
  BY DEF Goto, TypeInv, TypeOK
<1>2. ImagesKeyed'
  BY DEF Goto, TypeInv, ImagesKeyed, Committed
<1>3. ASSUME NEW u \in Thread \ {t} PROVE Session(u)'
  <2>1. pc'[u] = pc[u] /\ req'[u] = req[u]
    BY DEF Goto, TypeInv, TypeOK
  <2> QED
    BY <2>1, SessionFrame, LockedByOther DEF TypeInv
<1>4. QED
  BY <1>1, <1>2, <1>3

-----------------------------------------------------------------------------
(* Every step preserves TypeInv.                                           *)

(* What a request holds.                                                   *)
LEMMA RequestType ==
  ASSUME NEW r \in Request
  PROVE  /\ r.key \in Key
         /\ r.ino \in Inode \cup {NoInode}
         /\ r.flags \in SUBSET Flag
<1>1. r \in [key : Key, ino : Inode \cup {NoInode}, slash : BOOLEAN,
             flags : SUBSET Flag]
  BY DlopenAssumption
<1>2. QED
  BY <1>1

(* lookup_by_identity yields a key or none.                                *)
LEMMA IdentityType ==
  ASSUME NEW m \in Manager, NEW i \in Inode
  PROVE  /\ LookupByIdentity(m, i) \in Key \cup {NoKey}
         /\ LookupByIdentity(m, i) # NoKey =>
              Registered(m, LookupByIdentity(m, i))
<1>1. m.identities[i] \in Key \cup {NoKey}
  BY DEF Manager
<1>2. QED
  BY <1>1, LookupType DEF LookupByIdentity

(* Begin (dlopen_impl, OpenContext::new) keeps the type invariant.         *)
LEMMA BeginType ==
  ASSUME TypeInv, NEW t \in Thread, NEW r \in Request, Begin(t, r)
  PROVE  TypeInv'
<1>1. TypeOK'
  BY DEF Begin, TypeInv, TypeOK, PC
<1>2. \A u \in Thread : AddedNames(u)' = AddedNames(u)
  BY DEF Begin, AddedNames
<1>3. Session(t)'
  BY <1>2 DEF Begin, TypeInv, TypeOK, Session, Opening
<1>4. ASSUME NEW u \in Thread, u # t PROVE Session(u)'
  <2>1. pc'[u] = pc[u] /\ req'[u] = req[u]
    BY <1>4 DEF Begin, TypeInv, TypeOK
  <2> QED
    BY <2>1, SessionFrame, NotLocked DEF Begin, TypeInv
<1>5. ImagesKeyed'
  BY DEF Begin, TypeInv, ImagesKeyed, Committed
<1>6. QED
  BY <1>1, <1>3, <1>4, <1>5 DEF TypeInv

(* A session that gives up: it keeps what it has until the rollback.       *)
LEMMA GiveUpType ==
  ASSUME TypeInv, NEW t \in Thread, CanLock(t), Goto(t, "rollback"),
         UNCHANGED <<mgr, work, root, added, deps>>, Opening(t)
  PROVE  TypeInv'
<1>1. /\ TypeOK'
      /\ ImagesKeyed'
      /\ \A u \in Thread \ {t} : Session(u)'
  BY GotoFacts DEF PC, TypeInv, TypeOK
<1>2. AddedNames(t)' = AddedNames(t)
  BY DEF AddedNames
<1>3. Session(t)'
  BY <1>2 DEF Goto, TypeInv, TypeOK, Session, Opening
<1>4. QED
  BY <1>1, <1>3 DEF TypeInv

(* ExistingByName (wait_for_library) keeps the type invariant.             *)
LEMMA ExistingByNameType ==
  ASSUME TypeInv, NEW t \in Thread, ExistingByName(t)
  PROVE  TypeInv'
<1> DEFINE c == Lookup(mgr, req[t].key)
<1>1. /\ pc[t] = "existing_name"
      /\ CanLock(t)
      /\ Opening(t)
      /\ req[t] \in Request
      /\ root[t] = NoKey
      /\ AddedNames(t) = {}
  BY DEF ExistingByName, TypeInv, Session, Opening
<1>2. c \in Key \cup {NoKey}
  BY <1>1, RequestType, LookupType DEF TypeInv, TypeOK
<1>3. CASE Goto(t, "existing_inode") /\ UNCHANGED <<mgr, work, root, added, deps>>
  <2>1. /\ TypeOK'
        /\ ImagesKeyed'
        /\ \A u \in Thread \ {t} : Session(u)'
    BY <1>1, <1>3, GotoFacts DEF PC, TypeInv, TypeOK
  <2>2. AddedNames(t)' = {}
    BY <1>1, <1>3 DEF AddedNames
  <2>3. Session(t)'
    BY <1>1, <1>3, <2>2 DEF Goto, TypeInv, TypeOK, Session, Opening
  <2> QED BY <2>1, <2>3 DEF TypeInv
<1>4. CASE c # NoKey /\ Committed(mgr, c) /\ FinishExisting(t, mgr, c)
  BY <1>1, <1>2, <1>4, FinishExistingFacts DEF TypeInv, TypeOK
<1>5. CASE Wait(t, "existing_name")
  BY <1>1, <1>5, WaitFacts
<1>6. QED
  BY <1>3, <1>4, <1>5 DEF ExistingByName

(* LinkRoot (link_root) keeps the type invariant.                          *)
LEMMA LinkRootType ==
  ASSUME TypeInv, NEW t \in Thread, CanLock(t), pc[t] = "existing_inode",
         LinkRoot(t)
  PROVE  TypeInv'
<1> DEFINE r == req[t]
           file == IF r.slash THEN r.ino ELSE Find[r.key]
           w == [owner |-> NoKey, name |-> r.key, ino |-> file]
<1>1. r \in Request /\ root[t] = NoKey /\ AddedNames(t) = {} /\ Opening(t)
  BY DEF TypeInv, Session, Opening
<1>2. w \in Work
  <2>1. r.key \in Key /\ file \in Inode \cup {NoInode}
    BY <1>1, RequestType, DlopenAssumption
  <2> HIDE DEF file
  <2> QED BY <2>1 DEF Work
<1>3. CASE Goto(t, "rollback") /\ UNCHANGED <<work, mgr, root, added, deps>>
  BY <1>1, <1>3, GiveUpType
<1>4. CASE /\ Goto(t, "resolve_name")
           /\ work' = [work EXCEPT ![t] = <<w>>]
           /\ UNCHANGED <<mgr, root, added, deps>>
  <2> HIDE DEF w
  <2>1. <<w>> \in Seq(Work) /\ Len(<<w>>) = 1 /\ <<w>>[1] = w
    BY <1>2
  <2>2. work' \in [Thread -> Seq(Work)] /\ work'[t] = <<w>>
    BY <1>4, <2>1 DEF TypeInv, TypeOK
  <2>3. /\ TypeOK'
        /\ ImagesKeyed'
        /\ \A u \in Thread \ {t} : Session(u)'
    BY <1>4, <2>2, GotoFacts DEF PC, TypeInv, TypeOK
  <2>4. AddedNames(t)' = {} /\ root'[t] = NoKey /\ pc'[t] = "resolve_name"
        /\ req'[t] = req[t]
    BY <1>1, <1>4 DEF AddedNames, Goto, TypeInv, TypeOK
  <2>5. w.owner = NoKey
    BY DEF w
  <2>6. Session(t)'
    BY <1>1, <2>1, <2>2, <2>4, <2>5 DEF Session, Opening
  <2> QED BY <2>3, <2>6 DEF TypeInv
<1>5. QED
  BY <1>3, <1>4 DEF LinkRoot

(* ExistingByInode (inode_fallback) keeps the type invariant.              *)
LEMMA ExistingByInodeType ==
  ASSUME TypeInv, NEW t \in Thread, ExistingByInode(t)
  PROVE  TypeInv'
<1> DEFINE r == req[t]
           c == LookupByIdentity(mgr, r.ino)
<1>1. /\ pc[t] = "existing_inode"
      /\ CanLock(t)
      /\ Opening(t)
      /\ req[t] \in Request
      /\ root[t] = NoKey
      /\ mgr \in Manager
  BY DEF ExistingByInode, TypeInv, TypeOK, Session, Opening
<1>2. CASE LinkRoot(t)
  BY <1>1, <1>2, LinkRootType
<1>3. CASE Goto(t, "rollback") /\ UNCHANGED <<mgr, work, root, added, deps>>
  BY <1>1, <1>3, GiveUpType
<1>4. CASE /\ r.ino # NoInode
           /\ c # NoKey
           /\ Committed(mgr, c)
           /\ FinishExisting(t, AddAlias(mgr, c, r.key), c)
  <2>1. c \in Key /\ r.key \in Key
    BY <1>1, <1>4, RequestType, IdentityType
  <2> DEFINE m == AddAlias(mgr, c, r.key)
  <2>2. m \in Manager /\ m.link_ctx = mgr.link_ctx
    BY <1>1, <2>1, AddAliasesFacts DEF AddAlias
  <2>3. Committed(m, c)
    BY <1>4, <2>2 DEF Committed
  <2> HIDE DEF m, c
  <2>4. FinishExisting(t, m, c)
    BY <1>4 DEF m
  <2> QED BY <1>1, <2>1, <2>2, <2>3, <2>4, FinishExistingFacts
<1>5. CASE Wait(t, "existing_inode")
  BY <1>1, <1>5, WaitFacts
<1>6. QED
  BY <1>2, <1>3, <1>4, <1>5 DEF ExistingByInode

(* A resolved name leaves work, root and deps well typed.                  *)
LEMMA ResolvedType ==
  ASSUME TypeInv, NEW t \in Thread, CanLock(t),
         pc[t] \in {"resolve_name", "await_name", "resolve_path"}, work[t] # <<>>,
         NEW w, w = Head(work[t]), NEW k \in Key, NEW more \in Seq(Work),
         Resolved(t, w, k, more), Goto(t, "resolve_name"),
         mgr' \in Manager, mgr'.link_ctx = mgr.link_ctx,
         added' \in [Thread -> [Key -> Inode \cup {NoInode}]],
         \A u \in Thread \ {t} : added'[u] = added[u],
         AddedNames(t) \subseteq AddedNames(t)',
         \A n \in 1 .. Len(more) : more[n].owner # NoKey,
         w.owner = NoKey => \/ k \in AddedNames(t)'
                            \/ added' = added /\ more = <<>> /\ Committed(mgr, k)
  PROVE  TypeInv'
<1> DEFINE old == work[t]
           next == Tail(old) \o more
<1>1. /\ old \in Seq(Work)
      /\ Session(t)
      /\ req[t] \in Request
  BY DEF TypeInv, TypeOK, Session, Opening
<1>2. /\ next \in Seq(Work)
      /\ \A n \in 1 .. Len(next) : \/ \E j \in 2 .. Len(old) : next[n] = old[j]
                                   \/ \E j \in 1 .. Len(more) : next[n] = more[j]
      /\ w \in Work
      /\ w = old[1]
      /\ Len(old) = 1 /\ more = <<>> => next = <<>>
      /\ 1 \in 1 .. Len(old)
  <2>1. 1 \in 1 .. Len(old)
    BY <1>1
  <2> QED BY <1>1, <2>1, NextWork
<1>3. work' = [work EXCEPT ![t] = next]
  BY DEF Resolved
<1> HIDE DEF next
<1>4. work' \in [Thread -> Seq(Work)] /\ work'[t] = next
  BY <1>2, <1>3 DEF TypeInv, TypeOK
<1>5. w.owner \in Key \cup {NoKey}
  BY <1>2 DEF Work
<1>6. /\ root' \in [Thread -> Key \cup {NoKey}]
      /\ root'[t] = IF w.owner = NoKey THEN k ELSE root[t]
      /\ \A u \in Thread \ {t} : root'[u] = root[u]
  BY DEF Resolved, TypeInv, TypeOK
<1>7. deps' \in [Thread -> [Key -> SUBSET Key]]
  <2>1. CASE w.owner = NoKey
    BY <2>1 DEF Resolved, TypeInv, TypeOK
  <2>2. CASE w.owner # NoKey
    <3> DEFINE D == [deps[t] EXCEPT ![w.owner] = deps[t][w.owner] \cup {k}]
    <3>1. deps[t] \in [Key -> SUBSET Key] /\ w.owner \in Key
      BY <1>5, <2>2 DEF TypeInv, TypeOK
    <3>2. D \in [Key -> SUBSET Key]
      BY <3>1
    <3>3. deps' = [deps EXCEPT ![t] = D]
      BY <2>2 DEF Resolved
    <3> QED BY <3>2, <3>3 DEF TypeInv, TypeOK
  <2> QED BY <2>1, <2>2
<1>8. \A u \in Thread \ {t} : work'[u] = work[u]
  BY <1>3 DEF TypeInv, TypeOK
<1>9. /\ TypeOK'
      /\ ImagesKeyed'
      /\ \A u \in Thread \ {t} : Session(u)'
  BY <1>4, <1>6, <1>7, <1>8, GotoFacts DEF PC
<1>10. /\ lock' = t
       /\ pc'[t] = "resolve_name"
       /\ req'[t] = req[t]
  BY DEF Goto, TypeInv, TypeOK
<1>11. NoKey \notin Key
  BY RegistryAssumption
<1>12. \A j \in 2 .. Len(old) : j \in 1 .. Len(old)
  BY <1>1
<1>13. Session(t)'
  <2>1. CASE w.owner = NoKey
    <3>1. root[t] = NoKey /\ AddedNames(t) = {} /\ Len(old) = 1
      BY <1>1, <1>2, <2>1 DEF Session
    <3>2. \A n \in 1 .. Len(next) : next[n].owner # NoKey
      BY <1>2, <3>1
    <3>3. \/ root'[t] \in AddedNames(t)'
          \/ next = <<>> /\ AddedNames(t)' = {} /\ Committed(mgr', root'[t])
      BY <1>2, <1>6, <2>1, <3>1 DEF Committed, AddedNames
    <3> QED
      BY <1>1, <1>4, <1>6, <1>10, <1>11, <2>1, <3>2, <3>3 DEF Session, Opening
  <2>2. CASE w.owner # NoKey
    <3>1. root[t] # NoKey
      BY <1>1, <1>2, <2>2 DEF Session
    <3>2. /\ \A n \in 1 .. Len(old) : old[n].owner # NoKey
          /\ root[t] \in AddedNames(t)'
      BY <1>1, <3>1 DEF Session
    <3>3. \A n \in 1 .. Len(next) : next[n].owner # NoKey
      BY <1>2, <1>12, <3>2
    <3> QED
      BY <1>1, <1>4, <1>6, <1>10, <2>2, <3>1, <3>2, <3>3 DEF Session, Opening
  <2> QED BY <2>1, <2>2
<1>14. QED
  BY <1>9, <1>13 DEF TypeInv

(* ResolveByName (resolve_request) keeps the type invariant.               *)
LEMMA ResolveByNameType ==
  ASSUME TypeInv, NEW t \in Thread, ResolveByName(t)
  PROVE  TypeInv'
<1> DEFINE w == Head(work[t])
           c == Lookup(mgr, w.name)
<1>1. /\ pc[t] \in {"resolve_name", "await_name"}
      /\ CanLock(t)
      /\ work[t] # <<>>
      /\ Opening(t)
      /\ mgr \in Manager
      /\ work[t] \in Seq(Work)
  BY DEF ResolveByName, TypeInv, TypeOK, Opening
<1>2. w \in Work /\ w.name \in Key
  <2>1. w \in Work
    BY <1>1
  <2> QED BY <2>1 DEF Work
<1>3. c \in Key \cup {NoKey}
  BY <1>1, <1>2, LookupType
<1>4. ASSUME NEW k \in Key, Resolved(t, w, k, <<>>), Goto(t, "resolve_name"),
             UNCHANGED <<mgr, added>>,
             w.owner = NoKey => Committed(mgr, k) \/ k \in AddedNames(t)
      PROVE  TypeInv'
  <2>1. AddedNames(t)' = AddedNames(t)
    BY <1>4 DEF AddedNames
  <2>2. <<>> \in Seq(Work) /\ \A n \in 1 .. Len(<<>>) : <<>>[n].owner # NoKey
    OBVIOUS
  <2> HIDE DEF w
  <2>3. w = Head(work[t])
    BY DEF w
  <2>4. /\ added' \in [Thread -> [Key -> Inode \cup {NoInode}]]
        /\ added' = added
        /\ mgr' = mgr
    BY <1>4 DEF TypeInv, TypeOK
  <2> QED BY <1>1, <1>4, <2>1, <2>2, <2>3, <2>4, ResolvedType
<1>5. CASE Wait(t, "await_name")
  BY <1>1, <1>5, WaitFacts
<1>6. CASE Goto(t, "rollback") /\ UNCHANGED <<mgr, work, root, added, deps>>
  BY <1>1, <1>6, GiveUpType
<1>7. CASE /\ w.ino # NoInode
           /\ Goto(t, "resolve_path")
           /\ UNCHANGED <<mgr, work, root, added, deps>>
  <2>1. /\ TypeOK'
        /\ ImagesKeyed'
        /\ \A u \in Thread \ {t} : Session(u)'
    BY <1>1, <1>7, GotoFacts DEF PC, TypeInv, TypeOK
  <2>2. AddedNames(t)' = AddedNames(t)
    BY <1>7 DEF AddedNames
  <2>3. Session(t)'
    BY <1>1, <1>7, <2>2 DEF Goto, TypeInv, TypeOK, Session, Opening
  <2> QED BY <2>1, <2>3 DEF TypeInv
<1>8. CASE /\ w.owner # NoKey
           /\ Resolved(t, w, w.name, <<>>)
           /\ Goto(t, "resolve_name")
           /\ UNCHANGED <<mgr, added>>
  BY <1>2, <1>4, <1>8
<1>9. CASE /\ c # NoKey
           /\ Committed(mgr, c) \/ c \in AddedNames(t)
           /\ Resolved(t, w, c, <<>>)
           /\ Goto(t, "resolve_name")
           /\ UNCHANGED <<mgr, added>>
  BY <1>3, <1>4, <1>9
<1>10. QED
  <2> HIDE DEF c
  <2> QED BY <1>5, <1>6, <1>7, <1>8, <1>9 DEF ResolveByName, c

(* The names a freshly loaded file brings.                                 *)
LEMMA MoreWork ==
  ASSUME NEW i \in Inode, NEW k \in Key, NEW more, more = NeededWork(k, i)
  PROVE  /\ more \in Seq(Work)
         /\ \A n \in 1 .. Len(more) :
              /\ more[n].owner # NoKey
              /\ more[n].name \in Key
              /\ more[n].ino = Find[more[n].name]
<1>1. Needed[i] \in Seq(Key)
  BY DlopenAssumption
<1> DEFINE needed == Needed[i]
<1> HIDE DEF needed
<1>2. needed \in Seq(Key) /\ Len(needed) \in Nat
  BY <1>1 DEF needed
<1>3. more = [n \in 1 .. Len(needed) |->
                [owner |-> k, name |-> needed[n], ino |-> Find[needed[n]]]]
  BY DEF needed, NeededWork
<1>4. ASSUME NEW n \in 1 .. Len(needed)
      PROVE  /\ more[n] \in Work
             /\ more[n].owner # NoKey
             /\ more[n].name \in Key
             /\ more[n].ino = Find[more[n].name]
  <2>1. needed[n] \in Key
    BY <1>2
  <2>2. Find[needed[n]] \in Inode \cup {NoInode}
    BY <2>1, DlopenAssumption
  <2>3. more[n] = [owner |-> k, name |-> needed[n], ino |-> Find[needed[n]]]
    BY <1>3
  <2> QED BY <2>1, <2>2, <2>3, RegistryAssumption DEF Work
<1>5. more \in Seq(Work) /\ Len(more) = Len(needed)
  BY <1>2, <1>3, <1>4
<1>6. QED
  BY <1>4, <1>5

(* ResolveByPath (resolve_candidate_path) keeps the type invariant.        *)
LEMMA ResolveByPathType ==
  ASSUME TypeInv, NEW t \in Thread, ResolveByPath(t)
  PROVE  TypeInv'
<1> DEFINE w == Head(work[t])
           c == LookupByIdentity(mgr, w.ino)
           more == NeededWork(w.name, w.ino)
<1>1. /\ pc[t] = "resolve_path"
      /\ CanLock(t)
      /\ Opening(t)
      /\ mgr \in Manager
      /\ work[t] \in Seq(Work)
      /\ work[t] # <<>>
      /\ w.ino # NoInode
  BY DEF ResolveByPath, TypeInv, TypeOK, Session, Opening
<1>2. w \in Work /\ w.name \in Key /\ w.ino \in Inode
  <2>1. w \in Work
    BY <1>1
  <2> QED BY <1>1, <2>1 DEF Work
<1>3. c \in Key \cup {NoKey}
  BY <1>1, <1>2, IdentityType
<1>4. more \in Seq(Work) /\ \A n \in 1 .. Len(more) : more[n].owner # NoKey
  BY <1>2, MoreWork
<1>5. CASE Wait(t, "resolve_path")
  BY <1>1, <1>5, WaitFacts
<1>6. CASE Goto(t, "rollback") /\ UNCHANGED <<mgr, work, root, added, deps>>
  BY <1>1, <1>6, GiveUpType
<1>7. CASE /\ c # NoKey
           /\ Committed(mgr, c) \/ c \in AddedNames(t)
           /\ mgr' = AddAlias(mgr, c, w.name)
           /\ Resolved(t, w, c, <<>>)
           /\ Goto(t, "resolve_name")
           /\ UNCHANGED added
  <2>1. AddedNames(t)' = AddedNames(t)
    BY <1>7 DEF AddedNames
  <2>2. <<>> \in Seq(Work) /\ \A n \in 1 .. Len(<<>>) : <<>>[n].owner # NoKey
    OBVIOUS
  <2>3. mgr' \in Manager /\ mgr'.link_ctx = mgr.link_ctx
    BY <1>1, <1>2, <1>3, <1>7, AddAliasesFacts DEF AddAlias
  <2>4. added' \in [Thread -> [Key -> Inode \cup {NoInode}]] /\ added' = added
    BY <1>7 DEF TypeInv, TypeOK
  <2> HIDE DEF w, c
  <2>5. w = Head(work[t])
    BY DEF w
  <2> QED BY <1>1, <1>3, <1>7, <2>1, <2>2, <2>3, <2>4, <2>5, ResolvedType
<1>8. CASE /\ IF w.name \in AddedNames(t) THEN UNCHANGED <<mgr, added>>
              ELSE /\ mgr' = ReservePending(mgr, w.name, w.ino, req[t].flags)
                   /\ added' = [added EXCEPT ![t][w.name] = w.ino]
           /\ Resolved(t, w, w.name, more)
           /\ Goto(t, "resolve_name")
  <2>1. req[t].flags \in SUBSET Flag
    BY RequestFlags DEF TypeInv
  <2>2. mgr' \in Manager /\ mgr'.link_ctx = mgr.link_ctx
    <3>1. CASE w.name \in AddedNames(t)
      BY <1>1, <1>8, <3>1
    <3>2. CASE w.name \notin AddedNames(t)
      <4>1. mgr' = ReservePending(mgr, w.name, w.ino, req[t].flags)
        BY <1>8, <3>2
      <4> QED BY <1>1, <1>2, <2>1, <4>1, ReservePendingFacts
    <3> QED BY <3>1, <3>2
  <2>3. /\ added' \in [Thread -> [Key -> Inode \cup {NoInode}]]
        /\ \A u \in Thread \ {t} : added'[u] = added[u]
        /\ \/ added' = added /\ w.name \in AddedNames(t)
           \/ added'[t] = [added[t] EXCEPT ![w.name] = w.ino]
    <3> DEFINE A == [added[t] EXCEPT ![w.name] = w.ino]
    <3>1. added \in [Thread -> [Key -> Inode \cup {NoInode}]]
      BY DEF TypeInv, TypeOK
    <3>2. A \in [Key -> Inode \cup {NoInode}]
      BY <1>2, <3>1
    <3>3. \/ added' = added /\ w.name \in AddedNames(t)
          \/ added' = [added EXCEPT ![t] = A]
      BY <1>8
    <3> HIDE DEF A
    <3>4. /\ added' \in [Thread -> [Key -> Inode \cup {NoInode}]]
          /\ \A u \in Thread \ {t} : added'[u] = added[u]
          /\ \/ added' = added /\ w.name \in AddedNames(t)
             \/ added'[t] = A
      BY <3>1, <3>2, <3>3
    <3> QED BY <3>4 DEF A
  <2>4. AddedNames(t) \subseteq AddedNames(t)' /\ w.name \in AddedNames(t)'
    BY <1>1, <1>2, <2>3 DEF AddedNames, TypeInv, TypeOK
  <2> HIDE DEF w, more
  <2>5. w = Head(work[t])
    BY DEF w
  <2> QED BY <1>1, <1>2, <1>4, <1>8, <2>2, <2>3, <2>4, <2>5, ResolvedType
<1>9. QED
  <2> HIDE DEF c, more
  <2> QED BY <1>5, <1>6, <1>7, <1>8 DEF ResolveByPath, c, more

(* PrepareRelocation (DlopenPlanner::plan) keeps the type invariant.       *)
LEMMA PrepareRelocationType ==
  ASSUME TypeInv, NEW t \in Thread, PrepareRelocation(t)
  PROVE  TypeInv'
<1>1. /\ pc[t] = "resolve_name"
      /\ lock = t
      /\ work[t] = <<>>
      /\ mgr \in Manager
  BY DEF PrepareRelocation, TypeInv, TypeOK
<1>2. \/ pc' = [pc EXCEPT ![t] = "merge"] /\ UNCHANGED <<lock, scope, bound>>
      \/ pc' = [pc EXCEPT ![t] = "rollback"] /\ UNCHANGED <<lock, scope, bound>>
      \/ /\ AddedNames(t) # {}
         /\ pc' = [pc EXCEPT ![t] = "relocate"]
         /\ lock' = NoThread
         /\ \E S : scope' = [scope EXCEPT ![t] = ImagesOf(mgr, S)]
         /\ \E S : bound' = [bound EXCEPT ![t] = ImagesOf(mgr, S)]
  BY Zenon DEF PrepareRelocation
<1>3. /\ pc' \in [Thread -> PC]
      /\ pc'[t] \in {"merge", "rollback", "relocate"}
      /\ lock' = lock \/ (lock' = NoThread /\ AddedNames(t) # {})
      /\ \A u \in Thread \ {t} : pc'[u] = pc[u]
      /\ scope' \in [Thread -> SUBSET Module]
      /\ bound' \in [Thread -> SUBSET Module]
  <2>1. \A S : ImagesOf(mgr, S) \in SUBSET Module
    BY <1>1, ImagesOfType
  <2>2. /\ pc \in [Thread -> PC]
        /\ scope \in [Thread -> SUBSET Module]
        /\ bound \in [Thread -> SUBSET Module]
    BY DEF TypeInv, TypeOK
  <2>3. CASE pc' = [pc EXCEPT ![t] = "merge"] /\ UNCHANGED <<lock, scope, bound>>
    BY <2>2, <2>3 DEF PC
  <2>4. CASE pc' = [pc EXCEPT ![t] = "rollback"] /\ UNCHANGED <<lock, scope, bound>>
    BY <2>2, <2>4 DEF PC
  <2>5. CASE /\ AddedNames(t) # {}
             /\ pc' = [pc EXCEPT ![t] = "relocate"]
             /\ lock' = NoThread
             /\ \E S : scope' = [scope EXCEPT ![t] = ImagesOf(mgr, S)]
             /\ \E S : bound' = [bound EXCEPT ![t] = ImagesOf(mgr, S)]
    <3>1. scope' \in [Thread -> SUBSET Module] /\ bound' \in [Thread -> SUBSET Module]
      BY <2>1, <2>2, <2>5
    <3> QED BY <2>2, <2>5, <3>1 DEF PC
  <2> QED BY <1>2, <2>3, <2>4, <2>5
<1>4. UNCHANGED <<mgr, image, handle, req, work, root, added, deps, dropping>>
  BY DEF PrepareRelocation
<1>5. TypeOK'
  BY <1>1, <1>3, <1>4 DEF TypeInv, TypeOK
<1>6. AddedNames(t)' = AddedNames(t)
  BY <1>4 DEF AddedNames
<1>7. Session(t)'
  <2>1. Session(t) /\ root[t] # NoKey
    BY <1>1 DEF TypeInv, Session
  <2> QED BY <1>1, <1>3, <1>4, <1>6, <2>1 DEF Session, Opening
<1>8. ASSUME NEW u \in Thread, u # t PROVE Session(u)'
  BY <1>1, <1>3, <1>4, <1>8, SessionFrame DEF TypeInv
<1>9. ImagesKeyed'
  BY <1>4 DEF TypeInv, ImagesKeyed, Committed
<1>10. QED
  BY <1>5, <1>7, <1>8, <1>9 DEF TypeInv

(* Relocate (the linker, unlocked) keeps the type invariant.               *)
LEMMA RelocateType ==
  ASSUME TypeInv, NEW t \in Thread, Relocate(t)
  PROVE  TypeInv'
<1>1. /\ pc' \in [Thread -> PC]
      /\ pc[t] = "relocate"
      /\ pc'[t] \in {"merge", "rollback"}
      /\ \A u \in Thread \ {t} : pc'[u] = pc[u]
      /\ scope' \in [Thread -> SUBSET Module]
      /\ bound' \in [Thread -> SUBSET Module]
  BY DEF Relocate, TypeInv, TypeOK, PC
<1>2. UNCHANGED <<lock, mgr, image, handle, req, work, root, added, deps,
                  dropping>>
  BY DEF Relocate
<1>3. TypeOK'
  BY <1>1, <1>2 DEF TypeInv, TypeOK
<1>4. AddedNames(t)' = AddedNames(t)
  BY <1>2 DEF AddedNames
<1>5. Session(t)'
  BY <1>1, <1>2, <1>4 DEF TypeInv, Session, Opening, Committed
<1>6. ASSUME NEW u \in Thread, u # t PROVE Session(u)'
  BY <1>1, <1>2, <1>6, SessionFrame DEF TypeInv
<1>7. ImagesKeyed'
  BY <1>2 DEF TypeInv, ImagesKeyed, Committed
<1>8. QED
  BY <1>3, <1>5, <1>6, <1>7 DEF TypeInv

(* Rollback (Drop for OpenContext) keeps the type invariant.               *)
LEMMA RollbackType ==
  ASSUME TypeInv, NEW t \in Thread, Rollback(t)
  PROVE  TypeInv'
<1>1. AddedNames(t) \in SUBSET Key /\ mgr \in Manager
  BY DEF AddedNames, TypeInv, TypeOK
<1>2. /\ mgr' \in Manager
      /\ \A k \in Key : mgr'.link_ctx[k] \in {mgr.link_ctx[k], NoModule}
  <2> DEFINE S == AddedNames(t)
  <2> HIDE DEF S
  <2>1. mgr' = RemoveAll(mgr, S) /\ S \in SUBSET Key
    BY <1>1 DEF Rollback, S
  <2>2. /\ RemoveAll(mgr, S) \in Manager
        /\ \A k \in Key : RemoveAll(mgr, S).link_ctx[k]
                           = IF k \in S \ mgr.pending THEN NoModule
                             ELSE mgr.link_ctx[k]
    BY <1>1, <2>1, RemoveAllFacts, Zenon
  <2> QED BY <2>1, <2>2
<1>3. TypeOK' /\ \A u \in Thread : Session(u)'
  BY <1>2, LeaveFacts DEF Rollback, TypeInv, TypeOK
<1>4. ImagesKeyed'
  BY <1>2 DEF Rollback, TypeInv, ImagesKeyed, Committed
<1>5. QED
  BY <1>3, <1>4 DEF TypeInv

(* complete_relocation and finish: fresh images enter the registry, and    *)
(* the images that are in use stay what they are.                          *)
LEMMA MergeFacts ==
  ASSUME TypeInv, NEW t \in Thread, Merge(t)
  PROVE  \E new \in [AddedNames(t) -> Module] :
           /\ mgr' = MergeLinkContext(mgr, AddedNames(t), new, added[t],
                                      deps[t], req[t].flags)
           /\ mgr' \in Manager
           /\ image' \in [Module -> ImageState]
           /\ \A k \in AddedNames(t) : /\ image'[new[k]].key = k
                                       /\ image'[new[k]].file = added[t][k]
                                       /\ image'[new[k]].retains = ImagesOf(mgr',
                                            {Lookup(mgr', d) : d \in deps[t][k]})
           /\ \A x \in Module : x \in Live => image'[x] = image[x]
           /\ NewHandle(mgr', root[t])
           /\ Leave(t)
           /\ CanLock(t)
<1> DEFINE S == AddedNames(t)
           free == Module \ Live
           fresh == {f \in [S -> free] : \A j, k \in S : j # k => f[j] # f[k]}
           new == CHOOSE f \in fresh : TRUE
           key(x) == CHOOSE k \in S : new[k] = x
           merged == MergeLinkContext(mgr, S, new, added[t], deps[t],
                                      req[t].flags)
           against(k) == ImagesOf(merged, {Lookup(merged, d) : d \in deps[t][k]})
           im == [x \in Module |->
                    IF \E k \in S : new[k] = x
                    THEN [key |-> key(x), file |-> added[t][key(x)],
                          retains |-> against(key(x))]
                    ELSE image[x]]
<1>1. /\ fresh # {}
      /\ CanLock(t)
      /\ mgr' = merged
      /\ image' = im
      /\ NewHandle(merged, root[t])
      /\ Leave(t)
  BY DEF Merge
<1>2. new \in fresh
  BY <1>1
<1> HIDE DEF new
<1>3. new \in [S -> Module] /\ \A j, k \in S : j # k => new[j] # new[k]
  BY <1>2
<1>4. \A k \in S : new[k] \notin Live
  BY <1>2
<1> HIDE DEF fresh, free
<1>5. \A k \in S : key(new[k]) = k
  BY <1>3
<1>6. \A x \in Module : (\E k \in S : new[k] = x) => key(x) \in S
  OBVIOUS
<1> HIDE DEF key
<1>7. /\ S \in SUBSET Key
      /\ mgr \in Manager
      /\ added[t] \in [Key -> Inode \cup {NoInode}]
      /\ deps[t] \in [Key -> SUBSET Key]
      /\ image \in [Module -> ImageState]
      /\ req[t].flags \in SUBSET Flag
  BY RequestFlags DEF TypeInv, TypeOK, AddedNames
<1>8. merged \in Manager
  <2> DEFINE A == added[t]
             D == deps[t]
             F == req[t].flags
  <2>1. /\ merged = MergeLinkContext(mgr, S, new, A, D, F)
        /\ mgr \in Manager
        /\ S \in SUBSET Key
        /\ new \in [S -> Module]
        /\ A \in [Key -> Inode \cup {NoInode}]
        /\ D \in [Key -> SUBSET Key]
        /\ F \in SUBSET Flag
    BY <1>3, <1>7
  <2> HIDE DEF S, A, D, F, merged
  <2> QED BY <2>1, MergeLinkContextFacts
<1>9. \A k : against(k) \in SUBSET Module
  <2> HIDE DEF merged
  <2> QED BY <1>8, ImagesOfType
<1> HIDE DEF merged, against
<1>10. im \in [Module -> ImageState]
  <2>1. ASSUME NEW x \in Module PROVE im[x] \in ImageState
    <3>1. CASE \E k \in S : new[k] = x
      <4>1. key(x) \in Key /\ added[t][key(x)] \in Inode \cup {NoInode}
        BY <1>6, <1>7, <3>1
      <4>2. im[x] = [key |-> key(x), file |-> added[t][key(x)],
                     retains |-> against(key(x))]
        BY <3>1
      <4> QED BY <1>9, <4>1, <4>2 DEF ImageState
    <3>2. CASE ~\E k \in S : new[k] = x
      BY <1>7, <3>2
    <3> QED BY <3>1, <3>2
  <2> QED BY <2>1
<1>11. \A k \in S : im[new[k]].key = k /\ im[new[k]].file = added[t][k]
  BY <1>3, <1>5
<1>12. \A x \in Module : x \in Live => im[x] = image[x]
  BY <1>4
<1>13. \A k \in S : im[new[k]].retains = against(k)
  BY <1>3, <1>5
<1> HIDE DEF im
<1>14. QED
  <2>1. mgr' = MergeLinkContext(mgr, S, new, added[t], deps[t], req[t].flags)
    BY <1>1 DEF merged
  <2>2. /\ mgr' \in Manager
        /\ image' \in [Module -> ImageState]
        /\ \A k \in S : image'[new[k]].key = k /\ image'[new[k]].file = added[t][k]
        /\ \A x \in Module : x \in Live => image'[x] = image[x]
        /\ NewHandle(mgr', root[t])
        /\ Leave(t)
        /\ CanLock(t)
    BY <1>1, <1>8, <1>10, <1>11, <1>12
  <2>3. \A k \in S : image'[new[k]].retains
                       = ImagesOf(mgr', {Lookup(mgr', d) : d \in deps[t][k]})
    BY <1>1, <1>13 DEF against
  <2> QED BY <1>3, <2>1, <2>2, <2>3

(* Images the registry or an open handle refers to are live.               *)
LEMMA LiveImages ==
  ASSUME TypeOK
  PROVE  /\ Images(mgr) \subseteq Live
         /\ \A h \in Handle : handle[h].open =>
              {handle[h].inner} \cup handle[h].deps \subseteq Live
<1>1. \A h \in Handle : handle[h].open => handle[h] # ClosedHandle
  BY DEF ClosedHandle
<1>2. QED
  BY <1>1, LiveHolds DEF Live

(* The deps list of a handle is images.                                    *)
LEMMA HandleDeps ==
  ASSUME TypeOK, NEW h \in Handle
  PROVE  handle[h].deps \in SUBSET Module
<1>1. CASE handle[h] = ClosedHandle
  BY <1>1 DEF ClosedHandle
<1>2. CASE handle[h] \in HandleState
  BY <1>2 DEF HandleState
<1>3. QED
  BY <1>1, <1>2 DEF TypeOK

(* Merge (complete_relocation, finish) keeps the type invariant.           *)
LEMMA MergeType ==
  ASSUME TypeInv, NEW t \in Thread, Merge(t)
  PROVE  TypeInv'
<1> DEFINE S == AddedNames(t)
<1> PICK new \in [S -> Module] :
       /\ mgr' = MergeLinkContext(mgr, S, new, added[t], deps[t], req[t].flags)
       /\ mgr' \in Manager
       /\ image' \in [Module -> ImageState]
       /\ \A k \in S : image'[new[k]].key = k /\ image'[new[k]].file = added[t][k]
       /\ \A x \in Module : x \in Live => image'[x] = image[x]
       /\ NewHandle(mgr', root[t])
       /\ Leave(t)
       /\ CanLock(t)
  BY MergeFacts
<1>1. /\ S \in SUBSET Key
      /\ mgr \in Manager
      /\ pc[t] = "merge"
  BY DEF Merge, TypeInv, TypeOK, AddedNames
<1>2. \A k \in Key : mgr'.link_ctx[k] = IF k \in Uncommitted(mgr, S) THEN new[k]
                                        ELSE mgr.link_ctx[k]
  <2> HIDE DEF S
  <2>1. mgr'.link_ctx = [k \in Key |-> IF k \in Uncommitted(mgr, S) THEN new[k]
                                       ELSE mgr.link_ctx[k]]
    BY DEF MergeLinkContext
  <2> QED BY <2>1
<1>3. root[t] \in Key /\ Committed(mgr', root[t])
  <2>1. /\ root[t] \in Key
        /\ root[t] \in S \/ Committed(mgr, root[t])
    BY <1>1 DEF TypeInv, TypeOK, Session
  <2> HIDE DEF S
  <2> QED BY <1>1, <1>2, <2>1, RegistryAssumption DEF Committed, Uncommitted
<1>4. handle' \in [Handle -> HandleState \cup {ClosedHandle}]
  BY <1>3, NewHandleFacts DEF TypeInv
<1>5. TypeOK' /\ \A u \in Thread : Session(u)'
  BY <1>4, LeaveFacts
<1>6. ASSUME NEW j \in Key, Committed(mgr', j)
      PROVE  image'[mgr'.link_ctx[j]].key \in Key
  <2>1. CASE j \in Uncommitted(mgr, S)
    BY <1>1, <1>2, <2>1 DEF Uncommitted
  <2>2. CASE j \notin Uncommitted(mgr, S)
    <3>1. mgr'.link_ctx[j] = mgr.link_ctx[j] /\ Committed(mgr, j)
      BY <1>2, <1>6, <2>2 DEF Committed
    <3>2. mgr.link_ctx[j] \in Module /\ mgr.link_ctx[j] \in Live
      BY <1>1, <3>1, CommittedImage, LiveImages DEF TypeInv
    <3>3. image[mgr.link_ctx[j]].key \in Key
      BY <3>1 DEF TypeInv, ImagesKeyed
    <3> QED BY <3>1, <3>2, <3>3
  <2> QED BY <2>1, <2>2
<1>7. ASSUME NEW h \in Handle, handle[h].open,
             NEW x \in {handle[h].inner} \cup handle[h].deps
      PROVE  image'[x] = image[x]
  <2>1. x \in Live
    BY <1>7, LiveImages DEF TypeInv
  <2>2. x \in Module
    <3>1. handle[h].inner \in Module
      BY <1>7 DEF TypeInv, ImagesKeyed
    <3>2. handle[h].deps \in SUBSET Module
      BY HandleDeps DEF TypeInv
    <3> QED BY <3>1, <3>2
  <2> QED BY <2>1, <2>2
<1>8. ImagesKeyed'
  BY <1>3, <1>6, <1>7, NewHandleKeyed DEF TypeInv
<1>9. QED
  BY <1>5, <1>8 DEF TypeInv

(* HandleOn (ElfLibrary::this and addr2dso) keeps the type invariant.      *)
LEMMA HandleOnType ==
  ASSUME TypeInv, NEW t \in Thread, NEW k \in Key, HandleOn(t, k)
  PROVE  TypeInv'
<1>1. Committed(mgr, k) /\ NewHandle(mgr, k) /\ mgr' = mgr
  BY DEF HandleOn
<1>2. UNCHANGED <<lock, mgr, image, pc, req, work, root, added, deps, scope,
                  bound, dropping>>
  BY DEF HandleOn
<1>3. handle' \in [Handle -> HandleState \cup {ClosedHandle}]
  BY <1>1, NewHandleFacts DEF TypeInv, TypeOK
<1>4. TypeOK'
  BY <1>2, <1>3 DEF TypeInv, TypeOK
<1>5. ASSUME NEW u \in Thread PROVE Session(u)'
  BY <1>2, SessionFrame DEF TypeInv
<1>6. ImagesKeyed'
  <2>1. mgr' \in Manager /\ Committed(mgr', k) /\ NewHandle(mgr', k)
    BY <1>1, <1>4 DEF TypeOK
  <2>2. \A j \in Key : Committed(mgr', j) => image'[mgr'.link_ctx[j]].key \in Key
    BY <1>2 DEF TypeInv, ImagesKeyed, Committed
  <2>3. \A h \in Handle : handle[h].open =>
          \A x \in {handle[h].inner} \cup handle[h].deps : image'[x] = image[x]
    BY <1>2
  <2> QED BY <2>1, <2>2, <2>3, NewHandleKeyed DEF TypeInv
<1>7. QED
  BY <1>4, <1>5, <1>6 DEF TypeInv

(* Clone (ElfLibrary::clone) keeps the type invariant.                     *)
LEMMA CloneType ==
  ASSUME TypeInv, NEW t \in Thread, NEW h \in Handle, Clone(t, h)
  PROVE  TypeInv'
<1>1. UNCHANGED <<lock, mgr, image, pc, req, work, root, added, deps, scope,
                  bound, dropping>>
  BY DEF Clone
<1>2. /\ handle' \in [Handle -> HandleState \cup {ClosedHandle}]
      /\ \A g \in Handle : handle'[g] \in {handle[g], handle[h]}
      /\ handle[h].open
  BY DEF Clone, TypeInv, TypeOK
<1>3. TypeOK'
  BY <1>1, <1>2 DEF TypeInv, TypeOK
<1>4. ASSUME NEW u \in Thread PROVE Session(u)'
  BY <1>1, SessionFrame DEF TypeInv
<1>5. ImagesKeyed'
  BY <1>1, <1>2 DEF TypeInv, ImagesKeyed, Committed
<1>6. QED
  BY <1>3, <1>4, <1>5 DEF TypeInv

(* What a drop removes are names of libraries its handle refers to.        *)
LEMMA DropFacts ==
  ASSUME TypeInv, NEW t \in Thread, NEW h \in Handle, Drop(t, h)
  PROVE  \E gone \in SUBSET ({handle[h].inner} \cup handle[h].deps) :
           /\ {image[x].key : x \in gone} \in SUBSET Key
           /\ mgr' = RemoveAll(mgr, {image[x].key : x \in gone})
           /\ handle' = [handle EXCEPT ![h].open = FALSE]
           /\ handle[h].open
           /\ lock = NoThread
<1> DEFINE lib == handle[h]
           gone == Unloaded(lib)
<1>1. gone \in SUBSET ({lib.inner} \cup lib.deps)
  BY DEF Unloaded
<1>2. /\ mgr' = RemoveAll(mgr, {image[x].key : x \in gone})
      /\ handle' = [handle EXCEPT ![h].open = FALSE]
      /\ lib.open
      /\ lock = NoThread
  BY DEF Drop
<1> HIDE DEF gone
<1>3. {image[x].key : x \in gone} \in SUBSET Key
  BY <1>1, <1>2 DEF TypeInv, ImagesKeyed
<1>4. QED
  BY <1>1, <1>2, <1>3

(* Drop (Drop for ElfLibrary, locked) keeps the type invariant.            *)
LEMMA DropType ==
  ASSUME TypeInv, NEW t \in Thread, NEW h \in Handle, Drop(t, h)
  PROVE  TypeInv'
<1> PICK gone \in SUBSET ({handle[h].inner} \cup handle[h].deps) :
       /\ {image[x].key : x \in gone} \in SUBSET Key
       /\ mgr' = RemoveAll(mgr, {image[x].key : x \in gone})
       /\ handle' = [handle EXCEPT ![h].open = FALSE]
       /\ handle[h].open
       /\ lock = NoThread
  BY DropFacts
<1>1. /\ mgr' \in Manager
      /\ \A k \in Key : mgr'.link_ctx[k] \in {mgr.link_ctx[k], NoModule}
  <2> DEFINE S == {image[x].key : x \in gone}
  <2>1. S \in SUBSET Key /\ mgr' = RemoveAll(mgr, S) /\ mgr \in Manager
    BY DEF TypeInv, TypeOK
  <2> HIDE DEF S
  <2>2. /\ RemoveAll(mgr, S) \in Manager
        /\ \A k \in Key : RemoveAll(mgr, S).link_ctx[k]
                           = IF k \in S \ mgr.pending THEN NoModule
                             ELSE mgr.link_ctx[k]
    BY <2>1, RemoveAllFacts, Zenon
  <2> QED BY <2>1, <2>2
<1>2. /\ handle[h] \in HandleState
      /\ handle' \in [Handle -> HandleState \cup {ClosedHandle}]
      /\ \A g \in Handle : handle'[g].open => g # h /\ handle'[g] = handle[g]
  <2>1. handle[h] \in HandleState
    BY DEF TypeInv, TypeOK, ClosedHandle
  <2>2. [handle[h] EXCEPT !.open = FALSE] \in HandleState
    BY <2>1 DEF HandleState
  <2>3. handle' = [handle EXCEPT ![h] = [handle[h] EXCEPT !.open = FALSE]]
    OBVIOUS
  <2>4. [handle[h] EXCEPT !.open = FALSE].open = FALSE
    BY <2>1 DEF HandleState
  <2> QED BY <2>1, <2>2, <2>3, <2>4 DEF TypeInv, TypeOK
<1>3. UNCHANGED <<lock, image, req, work, root, added, deps, scope, bound>>
  BY DEF Drop
<1>4. /\ pc' \in [Thread -> PC]
      /\ dropping' \in [Thread -> Handle \cup {NoHandle}]
      /\ pc[t] = "idle" /\ pc'[t] = "dropping"
      /\ \A u \in Thread \ {t} : pc'[u] = pc[u]
  BY DEF Drop, TypeInv, TypeOK, PC
<1>5. TypeOK'
  BY <1>1, <1>2, <1>3, <1>4 DEF TypeInv, TypeOK
<1>6. Session(t)'
  <2>1. AddedNames(t)' = AddedNames(t)
    BY <1>3 DEF AddedNames
  <2> QED BY <1>3, <1>4, <2>1 DEF TypeInv, Session, Opening
<1>7. ASSUME NEW u \in Thread, u # t PROVE Session(u)'
  BY <1>3, <1>4, <1>7, SessionFrame, NotLocked DEF TypeInv
<1>8. ImagesKeyed'
  BY <1>1, <1>2, <1>3 DEF TypeInv, ImagesKeyed, Committed
<1>9. QED
  BY <1>5, <1>6, <1>7, <1>8 DEF TypeInv

(* DropFields (the fields of a handle) keeps the type invariant.           *)
LEMMA DropFieldsType ==
  ASSUME TypeInv, NEW t \in Thread, DropFields(t)
  PROVE  TypeInv'
<1> DEFINE left == [handle EXCEPT ![dropping[t]] = ClosedHandle]
           live == LiveIn(mgr, left, LinkerRefs, image)
<1>1. /\ pc[t] = "dropping"
      /\ handle' = left
      /\ image' = [x \in Module |-> IF x \in live THEN image[x] ELSE NoImage]
      /\ UNCHANGED <<lock, mgr, req, work, root, added, deps, scope, bound>>
  BY DEF DropFields
<1>2. /\ left \in [Handle -> HandleState \cup {ClosedHandle}]
      /\ \A h \in Handle : left[h].open => left[h] = handle[h]
  BY DEF TypeInv, TypeOK, ClosedHandle
<1>3. \A h \in Handle : left[h].open => left[h] # ClosedHandle
  BY DEF ClosedHandle
<1> HIDE DEF left
<1>4. /\ Images(mgr) \subseteq live
      /\ \A h \in Handle : left[h].open =>
           {left[h].inner} \cup left[h].deps \subseteq live
  BY <1>3, LiveHolds
<1> HIDE DEF live
<1>5. NoImage \in ImageState
  BY DEF NoImage, ImageState
<1>6. image' \in [Module -> ImageState]
  BY <1>1, <1>5 DEF TypeInv, TypeOK
<1>7. /\ pc' \in [Thread -> PC]
      /\ dropping' \in [Thread -> Handle \cup {NoHandle}]
      /\ pc'[t] = "idle"
      /\ \A u \in Thread \ {t} : pc'[u] = pc[u]
  BY DEF DropFields, TypeInv, TypeOK, PC
<1>8. TypeOK'
  BY <1>1, <1>2, <1>6, <1>7 DEF TypeInv, TypeOK
<1>9. Session(t)'
  <2>1. AddedNames(t)' = AddedNames(t)
    BY <1>1 DEF AddedNames
  <2> QED BY <1>1, <1>7, <2>1 DEF TypeInv, Session, Opening
<1>10. ASSUME NEW u \in Thread, u # t PROVE Session(u)'
  BY <1>1, <1>7, <1>10, SessionFrame DEF TypeInv
<1>11. ImagesKeyed'
  <2>1. ASSUME NEW k \in Key, Committed(mgr, k)
        PROVE  image'[mgr.link_ctx[k]].key \in Key
    <3>1. mgr.link_ctx[k] \in Module /\ mgr.link_ctx[k] \in live
      BY <1>4, <2>1, CommittedImage DEF TypeInv, TypeOK
    <3> QED BY <1>1, <2>1, <3>1 DEF TypeInv, ImagesKeyed
  <2>2. ASSUME NEW h \in Handle, left[h].open
        PROVE  /\ left[h].inner \in Module
               /\ \A x \in {left[h].inner} \cup left[h].deps :
                    image'[x].key \in Key
    <3>1. /\ left[h].inner \in Module
          /\ \A x \in {left[h].inner} \cup left[h].deps : image[x].key \in Key
      BY <1>2, <2>2 DEF TypeInv, ImagesKeyed
    <3>2. left[h].deps \in SUBSET Module
      BY <1>2 DEF HandleState, ClosedHandle
    <3> QED BY <1>1, <1>4, <2>2, <3>1, <3>2
  <2> QED BY <1>1, <2>1, <2>2 DEF ImagesKeyed, Committed
<1>12. QED
  BY <1>8, <1>9, <1>10, <1>11 DEF TypeInv

(* The registry that init leaves behind satisfies the type invariant.      *)
LEMMA InitType == Init => TypeInv
<1> SUFFICES ASSUME Init PROVE TypeInv
  OBVIOUS
<1> DEFINE im == [x \in Module |->
              IF \E k \in Host : HostModule[k] = x
              THEN LET k == CHOOSE k \in Host : HostModule[k] = x
                   IN  [key |-> k, file |-> HostFile[k], retains |-> {}]
              ELSE NoImage]
           loaded(k) == [key |-> k, file |-> HostFile[k], retains |-> {}]
<1>1. \A k \in Host : loaded(k) \in ImageState
  <2> SUFFICES ASSUME NEW k \in Host PROVE loaded(k) \in ImageState
    OBVIOUS
  <2>1. k \in Key /\ HostFile[k] \in Inode
    BY DlopenAssumption
  <2> QED BY <2>1 DEF ImageState
<1>2. NoImage \in ImageState
  BY DEF NoImage, ImageState
<1>3. ASSUME NEW x \in Module
      PROVE  /\ im[x] \in ImageState
             /\ \A k \in Host : HostModule[k] = x => im[x] = loaded(k)
  <2>1. CASE \E k \in Host : HostModule[k] = x
    <3> PICK k \in Host : HostModule[k] = x
      BY <2>1
    <3>1. (CHOOSE j \in Host : HostModule[j] = x) = k
      BY DlopenAssumption
    <3>2. im[x] = loaded(k)
      BY <2>1, <3>1
    <3>3. \A j \in Host : HostModule[j] = x => j = k
      BY DlopenAssumption
    <3> QED BY <1>1, <3>2, <3>3
  <2>2. CASE ~\E k \in Host : HostModule[k] = x
    BY <1>2, <2>2
  <2> QED BY <2>1, <2>2
<1>4. image = im
  BY DEF Init
<1> HIDE DEF im, loaded
<1>5. image \in [Module -> ImageState]
  BY <1>3, <1>4 DEF im
<1>6. mgr \in Manager
  BY HostRegistryType DEF Init
<1>7. /\ handle \in [Handle -> HandleState \cup {ClosedHandle}]
      /\ pc \in [Thread -> PC]
      /\ req \in [Thread -> Request \cup {NoRequest}]
      /\ work \in [Thread -> Seq(Work)]
      /\ root \in [Thread -> Key \cup {NoKey}]
      /\ added \in [Thread -> [Key -> Inode \cup {NoInode}]]
      /\ deps \in [Thread -> [Key -> SUBSET Key]]
      /\ scope \in [Thread -> SUBSET Module]
      /\ bound \in [Thread -> SUBSET Module]
      /\ dropping \in [Thread -> Handle \cup {NoHandle}]
      /\ lock \in Thread \cup {NoThread}
  BY DEF Init, PC, NoWork, NoDeps
<1>8. TypeOK
  BY <1>5, <1>6, <1>7 DEF TypeOK
<1>9. ASSUME NEW t \in Thread PROVE Session(t)
  <2>1. AddedNames(t) = {}
    BY DEF Init, AddedNames, NoWork
  <2> QED BY <2>1 DEF Init, Session, Opening
<1>10. ImagesKeyed
  <2>1. \A h \in Handle : ~handle[h].open
    BY DEF Init, ClosedHandle
  <2>2. ASSUME NEW k \in Key, Committed(mgr, k)
        PROVE  image[mgr.link_ctx[k]].key \in Key
    <3>1. k \in Host /\ mgr.link_ctx[k] = HostModule[k] /\ HostModule[k] \in Module
      BY <2>2, DlopenAssumption DEF Init, HostRegistry, Committed
    <3>2. image[mgr.link_ctx[k]] = loaded(k)
      BY <1>3, <1>4, <3>1
    <3> QED BY <3>2 DEF loaded
  <2> QED BY <2>1, <2>2 DEF ImagesKeyed
<1>11. QED
  BY <1>8, <1>9, <1>10 DEF TypeInv

(* Stuttering keeps the type invariant.                                    *)
LEMMA StutterType == TypeInv /\ UNCHANGED vars => TypeInv'
<1> SUFFICES ASSUME TypeInv, UNCHANGED vars PROVE TypeInv'
  OBVIOUS
<1>1. TypeOK'
  BY DEF TypeInv, TypeOK, vars
<1>2. ASSUME NEW u \in Thread PROVE Session(u)'
  BY SessionFrame DEF TypeInv, vars
<1>3. ImagesKeyed'
  BY DEF TypeInv, ImagesKeyed, Committed, vars
<1>4. QED
  BY <1>1, <1>2, <1>3 DEF TypeInv

(* Every step keeps the type invariant.                                    *)
LEMMA NextType == TypeInv /\ [Next]_vars => TypeInv'
<1> SUFFICES ASSUME TypeInv, [Next]_vars PROVE TypeInv'
  OBVIOUS
<1>1. ASSUME NEW t \in Thread, Step(t) PROVE TypeInv'
  <2>1. CASE ExistingByName(t)
    BY <2>1, ExistingByNameType
  <2>2. CASE ExistingByInode(t)
    BY <2>2, ExistingByInodeType
  <2>3. CASE ResolveByName(t)
    BY <2>3, ResolveByNameType
  <2>4. CASE ResolveByPath(t)
    BY <2>4, ResolveByPathType
  <2>5. CASE PrepareRelocation(t)
    BY <2>5, PrepareRelocationType
  <2>6. CASE Relocate(t)
    BY <2>6, RelocateType
  <2>7. CASE Merge(t)
    BY <2>7, MergeType
  <2>8. CASE Rollback(t)
    BY <2>8, RollbackType
  <2>9. CASE DropFields(t)
    BY <2>9, DropFieldsType
  <2>10. QED
    BY <1>1, <2>1, <2>2, <2>3, <2>4, <2>5, <2>6, <2>7, <2>8, <2>9 DEF Step
<1>2. ASSUME NEW t \in Thread, NEW r \in Request, Begin(t, r) PROVE TypeInv'
  BY <1>2, BeginType
<1>3. ASSUME NEW t \in Thread, NEW k \in Key, HandleOn(t, k) PROVE TypeInv'
  BY <1>3, HandleOnType
<1>4. ASSUME NEW t \in Thread, NEW h \in Handle, Clone(t, h) PROVE TypeInv'
  BY <1>4, CloneType
<1>5. ASSUME NEW t \in Thread, NEW h \in Handle, Drop(t, h) PROVE TypeInv'
  BY <1>5, DropType
<1>6. CASE UNCHANGED vars
  BY <1>6, StutterType
<1>7. Main \in Key
  BY DlopenAssumption
<1>8. QED
  BY <1>1, <1>2, <1>3, <1>4, <1>5, <1>6, <1>7 DEF Next, This, Addr2dso

(* Type correctness, for any number of threads, handles, names and files:  *)
(* no step of dlopen or of a drop leaves the states the code's types and   *)
(* its expect calls allow, wherever the lock is let go.                    *)
THEOREM TypeCorrect == Spec => []TypeOK
<1>1. Init => TypeInv
  BY InitType
<1>2. TypeInv /\ [Next]_vars => TypeInv'
  BY NextType
<1>3. TypeInv => TypeOK
  BY DEF TypeInv
<1>4. QED
  BY <1>1, <1>2, <1>3, PTL DEF Spec

-----------------------------------------------------------------------------
(* The reservation protocol.                                               *)

(* The names and files of NamedFiles.                                      *)
LEMMA NamedType ==
  ASSUME NEW k, NEW i, <<k, i>> \in NamedFiles
  PROVE  k \in Key /\ i \in Inode
<1>1. CASE \E r \in Request : r.ino # NoInode /\ <<k, i>> = <<r.key, r.ino>>
  BY <1>1, RequestType
<1>2. CASE \E j \in Key : Find[j] # NoInode /\ <<k, i>> = <<j, Find[j]>>
  BY <1>2, DlopenAssumption
<1>3. CASE \E j \in Host : <<k, i>> = <<j, HostFile[j]>>
  BY <1>3, DlopenAssumption
<1>4. QED
  BY <1>1, <1>2, <1>3 DEF NamedFiles

(* Under OneFilePerName a name leads to one file only.                     *)
LEMMA SameFile ==
  ASSUME OneFilePerName, NEW k, NEW i, NEW j,
         <<k, i>> \in NamedFiles, <<k, j>> \in NamedFiles
  PROVE  i = j
<1> DEFINE p == <<k, i>>
           q == <<k, j>>
<1>1. p \in NamedFiles /\ q \in NamedFiles /\ p[1] = q[1] /\ p[2] = i /\ q[2] = j
  OBVIOUS
<1> HIDE DEF p, q
<1>2. QED
  BY <1>1 DEF OneFilePerName

(* What the library search finds is a named file.                          *)
LEMMA FoundNamed ==
  ASSUME NEW k \in Key, Find[k] # NoInode
  PROVE  <<k, Find[k]>> \in NamedFiles
BY DEF NamedFiles

(* A registered name has a file, by which the identity table knows it.     *)
LEMMA RegisteredFile ==
  ASSUME ReservationInv, NEW k \in Key \ Host, Registered(mgr, k)
  PROVE  \E i \in Inode : <<k, i>> \in NamedFiles /\ mgr.identities[i] = k
<1>1. CASE k \in mgr.pending
  <2> PICK t \in Thread : k \in AddedNames(t)
    BY <1>1 DEF ReservationInv, PendingOwned
  <2>1. <<k, added[t][k]>> \in NamedFiles /\ mgr.identities[added[t][k]] = k
    BY DEF ReservationInv, FilesNamed, IdentityKnown
  <2> QED BY <2>1, NamedType
<1>2. CASE Committed(mgr, k)
  <2>1. /\ <<k, image[mgr.link_ctx[k]].file>> \in NamedFiles
        /\ mgr.identities[image[mgr.link_ctx[k]].file] = k
    BY <1>2 DEF ReservationInv, FilesNamed, IdentityKnown
  <2> QED BY <2>1, NamedType
<1>3. QED
  BY <1>1, <1>2 DEF Registered

(* If no two files share a shortname, that is the only file of the name.   *)
LEMMA FileKnown ==
  ASSUME OneFilePerName, ReservationInv, NEW k \in Key \ Host,
         Registered(mgr, k), NEW i \in Inode, <<k, i>> \in NamedFiles
  PROVE  mgr.identities[i] = k
<1> PICK j \in Inode : <<k, j>> \in NamedFiles /\ mgr.identities[j] = k
  BY RegisteredFile
<1>1. i = j
  BY SameFile
<1>2. QED
  BY <1>1

(* A file whose identity leads nowhere is not the file of a registered     *)
(* name.                                                                   *)
LEMMA UnknownIdentity ==
  ASSUME NEW m \in Manager, NEW k \in Key, NEW i \in Inode,
         Registered(m, k), m.identities[i] = k
  PROVE  LookupByIdentity(m, i) # NoKey
<1>1. Lookup(m, k) = k
  BY LookupType
<1>2. QED
  BY <1>1, RegistryAssumption DEF LookupByIdentity

LEMMA UnknownFile ==
  ASSUME OneFilePerName, ReservationInv, NEW k \in Key \ Host, NEW i \in Inode,
         <<k, i>> \in NamedFiles, LookupByIdentity(mgr, i) = NoKey
  PROVE  ~Registered(mgr, k)
<1>1. mgr \in Manager
  BY DEF ReservationInv, TypeInv, TypeOK
<1>2. QED
  BY <1>1, FileKnown, UnknownIdentity

-----------------------------------------------------------------------------
(* Host libraries stay.                                                    *)

(* The first part of HostKept, from what a step does to their entries.     *)
HostEntriesKept ==
  \A k \in Host : /\ mgr'.link_ctx[k] = mgr.link_ctx[k]
                  /\ mgr.flags[k] \subseteq mgr'.flags[k]

(* Names that are reserved are not the host's.                             *)
LEMMA PendingNotHost ==
  ASSUME ReservationInv, NEW k \in mgr.pending
  PROVE  k \notin Host
BY DEF ReservationInv, HostKept

(* remove, asked for other libraries.                                      *)
LEMMA RemoveKeepsHost ==
  ASSUME mgr \in Manager, NEW S \in SUBSET Key, mgr' = RemoveAll(mgr, S),
         S \cap Host = {}
  PROVE  HostEntriesKept
<1> DEFINE P == S \cap mgr.pending
           C == {k \in S \ P : Committed(mgr, k)}
<1>1. /\ mgr'.link_ctx = [k \in Key |-> IF k \in C THEN NoModule
                                        ELSE mgr.link_ctx[k]]
      /\ mgr'.flags = [k \in Key |-> IF k \in C THEN {} ELSE mgr.flags[k]]
  BY DEF RemoveAll
<1>2. C \cap Host = {} /\ Host \subseteq Key
  BY DlopenAssumption
<1> HIDE DEF C
<1>3. QED
  BY <1>1, <1>2 DEF HostEntriesKept

(* promote only adds flags.                                                *)
LEMMA PromoteKeepsHost ==
  ASSUME NEW m \in Manager, NEW c \in Key, NEW fl \in SUBSET Flag,
         m.link_ctx = mgr.link_ctx, m.flags = mgr.flags,
         mgr' = Promote(m, c, fl)
  PROVE  HostEntriesKept
<1> DEFINE pr == fl \cap {"GLOBAL", "NODELETE"}
<1>1. mgr'.link_ctx = m.link_ctx
  BY PromoteFacts
<1>2. mgr'.flags \in {m.flags, [m.flags EXCEPT ![c] = m.flags[c] \cup pr]}
  BY DEF Promote, Manager
<1>3. m.flags \in [Key -> SUBSET Flag] /\ Host \subseteq Key
  BY DlopenAssumption DEF Manager
<1> HIDE DEF pr
<1>4. QED
  BY <1>1, <1>2, <1>3 DEF HostEntriesKept

(* merge_link_context commits what was reserved.                           *)
LEMMA MergeKeepsHost ==
  ASSUME NEW S \in SUBSET Key, NEW module, NEW file, NEW needed, NEW fl,
         mgr' = MergeLinkContext(mgr, S, module, file, needed, fl),
         S \cap Host = {}
  PROVE  HostEntriesKept
<1> DEFINE T == Uncommitted(mgr, S)
           meta(k) == IF k \in mgr.pending THEN mgr.pflags[k]
                      ELSE NormalizedFlags(k, fl)
<1>1. /\ mgr'.link_ctx = [k \in Key |-> IF k \in T THEN module[k]
                                        ELSE mgr.link_ctx[k]]
      /\ mgr'.flags = [k \in Key |-> IF k \in T THEN meta(k) ELSE mgr.flags[k]]
  BY DEF MergeLinkContext
<1>2. T \cap Host = {} /\ Host \subseteq Key
  BY DlopenAssumption DEF Uncommitted
<1> HIDE DEF T, meta
<1>3. QED
  BY <1>1, <1>2 DEF HostEntriesKept

(* What a drop unloads is not NODELETE, so it is not the host's.           *)
LEMMA UnloadedNotHost ==
  ASSUME ReservationInv, NEW x, Unloads(x)
  PROVE  image[x].key \notin Host
<1> SUFFICES ASSUME image[x].key \in Host PROVE FALSE
  OBVIOUS
<1> DEFINE k == image[x].key
<1>1. Committed(mgr, k) /\ "NODELETE" \in mgr.flags[k]
  BY DEF ReservationInv, HostKept
<1>2. Lookup(mgr, k) = k
  BY <1>1 DEF Lookup, Registered
<1>3. "NODELETE" \in FlagsOf(mgr, k)
  BY <1>1, <1>2 DEF FlagsOf
<1>4. QED
  BY <1>3 DEF Unloads

(* The host's entries survive a drop.                                      *)
LEMMA DropSparesHost ==
  ASSUME ReservationInv, HandlesResident, NEW t \in Thread, NEW h \in Handle,
         Drop(t, h)
  PROVE  HostEntriesKept
<1> DEFINE gone == Unloaded(handle[h])
           S == {image[x].key : x \in gone}
<1>1. /\ gone \in SUBSET ({handle[h].inner} \cup handle[h].deps)
      /\ \A x \in gone : Unloads(x)
  BY DEF Unloaded
<1>2. handle[h].open /\ mgr' = RemoveAll(mgr, S) /\ mgr \in Manager
  BY DEF Drop, ReservationInv, TypeInv, TypeOK
<1> HIDE DEF gone
<1>3. S \in SUBSET Key
  BY <1>1, <1>2 DEF ReservationInv, TypeInv, ImagesKeyed
<1>4. \A x \in gone : image[x].key \notin Host
  BY <1>1, UnloadedNotHost
<1>5. S \cap Host = {}
  BY <1>4
<1> HIDE DEF S
<1>6. QED
  BY <1>2, <1>3, <1>5, RemoveKeepsHost

(* The entries of the host libraries, in every step.                       *)
LEMMA HostEntries ==
  ASSUME ReservationInv, HandlesResident, [Next]_vars
  PROVE  HostEntriesKept
<1>0. /\ TypeInv
      /\ mgr \in Manager
      /\ Host \subseteq Key
  BY DlopenAssumption DEF ReservationInv, TypeInv, TypeOK
<1>1. CASE UNCHANGED mgr
  BY <1>1 DEF HostEntriesKept
<1>2. ASSUME NEW t \in Thread, NEW m \in Manager, NEW c \in Key,
             m.link_ctx = mgr.link_ctx, m.flags = mgr.flags,
             FinishExisting(t, m, c)
      PROVE  HostEntriesKept
  <2> DEFINE fl == req[t].flags
  <2>1. fl \in SUBSET Flag /\ mgr' = Promote(m, c, fl)
    BY <1>0, <1>2, RequestFlags DEF FinishExisting, TypeInv
  <2> HIDE DEF fl
  <2> QED BY <1>2, <2>1, PromoteKeepsHost
<1>3. ASSUME NEW c \in Key, NEW k \in Key
      PROVE  /\ AddAlias(mgr, c, k) \in Manager
             /\ AddAlias(mgr, c, k).link_ctx = mgr.link_ctx
             /\ AddAlias(mgr, c, k).flags = mgr.flags
  <2>1. AddAlias(mgr, c, k) \in Manager
        /\ AddAlias(mgr, c, k).link_ctx = mgr.link_ctx
    BY <1>0, AddAliasesFacts DEF AddAlias
  <2>2. AddAlias(mgr, c, k).flags = mgr.flags
    BY <1>0 DEF AddAlias, AddAliases, Manager
  <2> QED BY <2>1, <2>2
<1>4. ASSUME NEW t \in Thread, ExistingByName(t) PROVE HostEntriesKept
  <2> DEFINE c == Lookup(mgr, req[t].key)
  <2>1. c \in Key \cup {NoKey}
    <3>1. req[t] \in Request
      BY <1>0, <1>4 DEF ExistingByName, TypeInv, Session, Opening
    <3> QED BY <1>0, <3>1, RequestType, LookupType
  <2>2. \/ UNCHANGED mgr
        \/ c # NoKey /\ FinishExisting(t, mgr, c)
    BY <1>4 DEF ExistingByName, Wait
  <2> HIDE DEF c
  <2> QED BY <1>0, <1>1, <1>2, <2>1, <2>2
<1>5. ASSUME NEW t \in Thread, ExistingByInode(t) PROVE HostEntriesKept
  <2> DEFINE r == req[t]
             c == LookupByIdentity(mgr, r.ino)
             m == AddAlias(mgr, c, r.key)
  <2>1. r \in Request
    BY <1>0, <1>5 DEF ExistingByInode, TypeInv, Session, Opening
  <2>2. \/ UNCHANGED mgr
        \/ r.ino # NoInode /\ c # NoKey /\ FinishExisting(t, m, c)
    BY <1>5 DEF ExistingByInode, LinkRoot, Wait
  <2>3. r.ino # NoInode /\ c # NoKey => c \in Key /\ r.key \in Key
    <3>1. r.key \in Key /\ r.ino \in Inode \cup {NoInode}
      BY <2>1, RequestType
    <3> HIDE DEF r
    <3>2. r.ino \in Inode => c \in Key \cup {NoKey}
      BY <1>0, IdentityType
    <3> QED BY <3>1, <3>2
  <2>4. c \in Key /\ r.key \in Key => /\ m \in Manager
                                      /\ m.link_ctx = mgr.link_ctx
                                      /\ m.flags = mgr.flags
    BY <1>3
  <2> HIDE DEF r, c, m
  <2> QED BY <1>1, <1>2, <2>2, <2>3, <2>4
<1>6. ASSUME NEW t \in Thread, ResolveByPath(t) PROVE HostEntriesKept
  <2> DEFINE w == Head(work[t])
             c == LookupByIdentity(mgr, w.ino)
  <2>1. w.name \in Key /\ w.ino \in Inode
    <3>1. work[t] \in Seq(Work) /\ work[t] # <<>> /\ w.ino # NoInode
      BY <1>0, <1>6 DEF ResolveByPath, TypeInv, TypeOK, Session
    <3>2. w \in Work
      BY <3>1
    <3> QED BY <3>1, <3>2 DEF Work
  <2>2. c # NoKey => c \in Key
    BY <1>0, <2>1, IdentityType
  <2>3. \/ UNCHANGED mgr
        \/ c # NoKey /\ mgr' = AddAlias(mgr, c, w.name)
        \/ mgr' = ReservePending(mgr, w.name, w.ino, req[t].flags)
    BY <1>6 DEF ResolveByPath, Wait
  <2>4. CASE c # NoKey /\ mgr' = AddAlias(mgr, c, w.name)
    <3> HIDE DEF w, c
    <3> QED BY <1>3, <2>1, <2>2, <2>4 DEF HostEntriesKept
  <2>5. CASE mgr' = ReservePending(mgr, w.name, w.ino, req[t].flags)
    <3> HIDE DEF w
    <3>1. mgr'.link_ctx = mgr.link_ctx /\ mgr'.flags = mgr.flags
      BY <1>0, <2>5 DEF ReservePending, AddAliases, Manager
    <3> QED BY <3>1 DEF HostEntriesKept
  <2> QED BY <1>1, <2>3, <2>4, <2>5
<1>7. ASSUME NEW t \in Thread
      PROVE  AddedNames(t) \in SUBSET Key /\ AddedNames(t) \cap Host = {}
  BY PendingNotHost DEF ReservationInv, PendingOwned, AddedNames
<1>8. ASSUME NEW t \in Thread, Merge(t) PROVE HostEntriesKept
  <2> DEFINE S == AddedNames(t)
  <2> PICK new : mgr' = MergeLinkContext(mgr, S, new, added[t], deps[t],
                                         req[t].flags)
    BY <1>8 DEF Merge
  <2>1. S \in SUBSET Key /\ S \cap Host = {}
    BY <1>7
  <2> HIDE DEF S
  <2> QED BY <2>1, MergeKeepsHost
<1>9. ASSUME NEW t \in Thread, Rollback(t) PROVE HostEntriesKept
  <2> DEFINE S == AddedNames(t)
  <2>1. mgr' = RemoveAll(mgr, S) /\ S \in SUBSET Key /\ S \cap Host = {}
    BY <1>7, <1>9 DEF Rollback
  <2> HIDE DEF S
  <2> QED BY <1>0, <2>1, RemoveKeepsHost
<1>10. ASSUME NEW t \in Thread, Step(t) PROVE HostEntriesKept
  <2>1. CASE ResolveByName(t) \/ PrepareRelocation(t) \/ Relocate(t)
             \/ DropFields(t)
    BY <1>1, <2>1
       DEF ResolveByName, Wait, PrepareRelocation, Relocate, DropFields
  <2> QED BY <1>4, <1>5, <1>6, <1>8, <1>9, <1>10, <2>1 DEF Step
<1>11. ASSUME NEW t \in Thread, NEW r \in Request, Begin(t, r)
       PROVE  HostEntriesKept
  BY <1>1, <1>11 DEF Begin
<1>12. ASSUME NEW t \in Thread, NEW k \in Key, HandleOn(t, k)
       PROVE  HostEntriesKept
  BY <1>1, <1>12 DEF HandleOn
<1>13. ASSUME NEW t \in Thread, NEW h \in Handle, Clone(t, h)
       PROVE  HostEntriesKept
  BY <1>1, <1>13 DEF Clone
<1>14. ASSUME NEW t \in Thread, NEW h \in Handle, Drop(t, h)
       PROVE  HostEntriesKept
  BY <1>14, DropSparesHost
<1>15. CASE UNCHANGED vars
  BY <1>1, <1>15 DEF vars
<1>16. Main \in Key
  BY DlopenAssumption
<1>17. QED
  BY <1>10, <1>11, <1>12, <1>13, <1>14, <1>15, <1>16
     DEF Next, This, Addr2dso

(* A thread that looks for the file of a name has not found the name.      *)
Missed(u) ==
  \/ pc[u] = "resolve_path" /\ work'[u] = work[u]
  \/ Lookup(mgr, Head(work'[u]).name) = NoKey

(* It is in resolve_candidate_path already, or resolve_existing_by_name    *)
(* has just missed.                                                        *)
LEMMA PathsMissed ==
  ASSUME TypeInv, [Next]_vars, NEW u \in Thread, pc'[u] = "resolve_path"
  PROVE  Missed(u)
<1>0. /\ pc \in [Thread -> PC]
      /\ work \in [Thread -> Seq(Work)]
  BY DEF TypeInv, TypeOK
<1>1. ASSUME NEW t \in Thread, ResolveByName(t)
      PROVE  Missed(u)
  <2> DEFINE w == Head(work[t])
  <2>1. \/ Goto(t, "resolve_name") /\ work' = [work EXCEPT ![t] = Tail(@) \o <<>>]
        \/ Wait(t, "await_name")
        \/ /\ Lookup(mgr, w.name) = NoKey
           /\ pc' \in {[pc EXCEPT ![t] = l] : l \in {"rollback", "resolve_path"}}
           /\ work' = work
    BY <1>1 DEF ResolveByName, Resolved, Goto
  <2>3. CASE u # t
    <3>1. pc'[u] = pc[u] /\ work'[u] = work[u]
      BY <1>0, <2>1, <2>3 DEF Goto, Wait
    <3> QED BY <3>1 DEF Missed
  <2>4. CASE u = t
    <3>1. CASE Wait(t, "await_name")
      BY <1>0, <2>4, <3>1 DEF Wait
    <3>2. CASE Goto(t, "resolve_name")
      BY <1>0, <2>4, <3>2 DEF Goto
    <3>3. CASE Lookup(mgr, w.name) = NoKey /\ work' = work
      BY <2>4, <3>3 DEF Missed
    <3> QED BY <2>1, <3>1, <3>2, <3>3
  <2> QED BY <2>3, <2>4
<1>2. ASSUME NEW t \in Thread, NEW l \in PC \ {"resolve_path"}, NEW q,
             pc' = [pc EXCEPT ![t] = l],
             work' = [work EXCEPT ![t] = q] \/ work' = work
      PROVE  Missed(u)
  <2>1. u # t
    BY <1>0, <1>2
  <2>2. pc'[u] = pc[u] /\ work'[u] = work[u]
    BY <1>0, <1>2, <2>1
  <2> QED BY <2>2 DEF Missed
<1>3. CASE pc' = pc /\ work' = work
  BY <1>3 DEF Missed
<1>4. ASSUME NEW t \in Thread, Leave(t) PROVE Missed(u)
  <2>1. "idle" \in PC \ {"resolve_path"}
    BY DEF PC
  <2> QED BY <1>2, <1>4, <2>1 DEF Leave
<1>5. {"existing_name", "existing_inode", "rollback", "resolve_name", "merge",
       "relocate", "dropping", "idle"} \subseteq PC \ {"resolve_path"}
  BY DEF PC
<1>6. ASSUME NEW t \in Thread, Step(t) PROVE Missed(u)
  <2>1. CASE ExistingByName(t)
    BY <1>2, <1>3, <1>4, <1>5, <2>1
       DEF ExistingByName, FinishExisting, Wait, Goto
  <2>2. CASE ExistingByInode(t)
    BY <1>2, <1>3, <1>4, <1>5, <2>2
       DEF ExistingByInode, LinkRoot, FinishExisting, Wait, Goto
  <2>3. CASE ResolveByPath(t)
    <3>1. CASE Wait(t, "resolve_path")
      <4>1. pc' = pc /\ work' = work
        BY <1>0, <2>3, <3>1 DEF Wait, ResolveByPath
      <4> QED BY <1>3, <4>1
    <3>2. CASE ~Wait(t, "resolve_path")
      BY <1>2, <1>5, <2>3, <3>2 DEF ResolveByPath, Resolved, Goto
    <3> QED BY <3>1, <3>2
  <2>4. CASE PrepareRelocation(t) \/ Relocate(t)
    BY <1>2, <1>5, <2>4 DEF PrepareRelocation, Relocate
  <2>5. CASE Merge(t) \/ Rollback(t)
    BY <1>4, <2>5 DEF Merge, Rollback
  <2>6. CASE DropFields(t)
    BY <1>2, <1>5, <2>6 DEF DropFields
  <2> QED BY <1>1, <1>6, <2>1, <2>2, <2>3, <2>4, <2>5, <2>6 DEF Step
<1>7. ASSUME NEW t \in Thread, NEW r \in Request, Begin(t, r)
      PROVE  Missed(u)
  BY <1>2, <1>5, <1>7 DEF Begin
<1>8. ASSUME NEW t \in Thread, NEW k, HandleOn(t, k)
      PROVE  Missed(u)
  BY <1>3, <1>8 DEF HandleOn
<1>9. ASSUME NEW t \in Thread, NEW h \in Handle, Clone(t, h)
      PROVE  Missed(u)
  BY <1>3, <1>9 DEF Clone
<1>10. ASSUME NEW t \in Thread, NEW h \in Handle, Drop(t, h)
       PROVE  Missed(u)
  BY <1>2, <1>5, <1>10 DEF Drop
<1>11. CASE UNCHANGED vars
  BY <1>3, <1>11 DEF vars
<1>12. QED
  BY <1>6, <1>7, <1>8, <1>9, <1>10, <1>11 DEF Next, This, Addr2dso

(* So the name is no host library's.                                       *)
LEMMA HostPaths ==
  ASSUME ReservationInv, [Next]_vars, NEW u \in Thread,
         pc'[u] = "resolve_path"
  PROVE  Head(work'[u]).name \notin Host
<1>1. TypeInv /\ (pc[u] = "resolve_path" => Head(work[u]).name \notin Host)
  BY DEF ReservationInv, HostKept
<1>2. Missed(u)
  BY <1>1, PathsMissed
<1>3. \A k \in Host : Lookup(mgr, k) = k /\ k # NoKey
  BY DlopenAssumption, RegistryAssumption
     DEF ReservationInv, HostKept, Lookup, Registered
<1>4. QED
  BY <1>1, <1>2, <1>3 DEF Missed

(* Host libraries stay, in every step.                                     *)
LEMMA NextHost ==
  ReservationInv /\ HandlesResident /\ [Next]_vars => HostKept'
<1> SUFFICES ASSUME ReservationInv, HandlesResident, [Next]_vars
             PROVE  HostKept'
  OBVIOUS
<1>1. HostEntriesKept
  BY HostEntries
<1>2. \A u \in Thread : pc'[u] = "resolve_path" =>
                          Head(work'[u]).name \notin Host
  BY HostPaths
<1>3. \A k \in Host : Committed(mgr, k) /\ "NODELETE" \in mgr.flags[k]
  BY DEF ReservationInv, HostKept
<1>4. \A k \in Host : Committed(mgr', k) /\ "NODELETE" \in mgr'.flags[k]
  BY <1>1, <1>3 DEF HostEntriesKept, Committed
<1>5. QED
  BY <1>2, <1>4 DEF HostKept

-----------------------------------------------------------------------------
(* Reservations, commits and removals.                                     *)

(* A step that neither registers nor removes a library.                    *)
LEMMA QuietStep ==
  ASSUME ReservationInv, TypeInv', HostKept',
         mgr'.pending = mgr.pending, mgr'.link_ctx = mgr.link_ctx,
         mgr'.identities = mgr.identities,
         "already registered" \in mgr'.failed
           => "already registered" \in mgr.failed,
         \A k \in Key : Committed(mgr, k) =>
           image'[mgr.link_ctx[k]] = image[mgr.link_ctx[k]],
         \A t \in Thread : /\ AddedNames(t)' = AddedNames(t)
                           /\ \A k \in AddedNames(t) : added'[t][k] = added[t][k],
         \A t \in Thread : \A n \in 1 .. Len(work'[t]) :
           work'[t][n].ino # NoInode =>
             <<work'[t][n].name, work'[t][n].ino>> \in NamedFiles
  PROVE  ReservationInv'
<1>1. \A t \in Thread : AddedNames(t)' # {} => Opening(t)'
  BY DEF TypeInv, Session, Opening
<1>2. PendingOwned'
  <2>1. ASSUME NEW k \in mgr'.pending
        PROVE  \E t \in Thread : k \in AddedNames(t)'
    <3> PICK t \in Thread : k \in AddedNames(t)
      BY DEF ReservationInv, PendingOwned
    <3>1. k \in AddedNames(t)'
      OBVIOUS
    <3> QED BY <3>1
  <2>2. \A t \in Thread : AddedNames(t)' \subseteq mgr'.pending
    BY DEF ReservationInv, PendingOwned
  <2>3. \A t, u \in Thread : t # u => AddedNames(t)' \cap AddedNames(u)' = {}
    BY DEF ReservationInv, PendingOwned
  <2> QED BY <1>1, <2>1, <2>2, <2>3 DEF PendingOwned
<1>3. \A k \in Key : /\ Committed(mgr', k) <=> Committed(mgr, k)
                     /\ Registered(mgr', k) <=> Registered(mgr, k)
  BY DEF Committed, Registered
<1>4. \A k \in mgr'.pending : ~Committed(mgr', k)
  BY DEF ReservationInv, Committed
<1>5. FilesNamed'
  BY <1>3 DEF ReservationInv, FilesNamed
<1>6. IdentityKnown'
  <2>1. \A u \in Thread : \A k \in AddedNames(u)' : mgr'.identities[added'[u][k]] = k
    BY DEF ReservationInv, IdentityKnown
  <2>2. \A k \in Key \ Host : Committed(mgr', k) =>
          mgr'.identities[image'[mgr'.link_ctx[k]].file] = k
    BY <1>3 DEF ReservationInv, IdentityKnown
  <2> QED BY <2>1, <2>2 DEF IdentityKnown
<1>7. NeverAlreadyRegistered'
  BY DEF ReservationInv, NeverAlreadyRegistered
<1>8. QED
  BY <1>2, <1>4, <1>5, <1>6, <1>7 DEF ReservationInv

(* The names a session goes on with have files it may use.                 *)
LEMMA ResolvedNamed ==
  ASSUME ReservationInv, NEW t \in Thread, work[t] # <<>>, NEW w, NEW k,
         NEW more \in Seq(Work), Resolved(t, w, k, more),
         \A n \in 1 .. Len(more) : /\ more[n].name \in Key
                                   /\ more[n].ino = Find[more[n].name]
  PROVE  \A u \in Thread : \A n \in 1 .. Len(work'[u]) :
           work'[u][n].ino # NoInode =>
             <<work'[u][n].name, work'[u][n].ino>> \in NamedFiles
<1> DEFINE old == work[t]
           next == Tail(old) \o more
<1>1. old \in Seq(Work) /\ work \in [Thread -> Seq(Work)]
  BY DEF ReservationInv, TypeInv, TypeOK
<1>2. \A n \in 1 .. Len(next) : \/ \E j \in 2 .. Len(old) : next[n] = old[j]
                                \/ \E j \in 1 .. Len(more) : next[n] = more[j]
  BY <1>1, NextWork
<1>3. work' = [work EXCEPT ![t] = next]
  BY DEF Resolved
<1>4. \A j \in 2 .. Len(old) : j \in 1 .. Len(old)
  BY <1>1
<1>5. \A j \in 1 .. Len(old) : old[j].ino # NoInode =>
        <<old[j].name, old[j].ino>> \in NamedFiles
  BY DEF ReservationInv, FilesNamed
<1>6. \A j \in 1 .. Len(more) : more[j].ino # NoInode =>
        <<more[j].name, more[j].ino>> \in NamedFiles
  BY FoundNamed
<1> HIDE DEF next
<1>7. \A n \in 1 .. Len(next) : next[n].ino # NoInode =>
        <<next[n].name, next[n].ino>> \in NamedFiles
  BY <1>2, <1>4, <1>5, <1>6
<1>8. ASSUME NEW u \in Thread, u # t
      PROVE  \A n \in 1 .. Len(work[u]) : work[u][n].ino # NoInode =>
               <<work[u][n].name, work[u][n].ino>> \in NamedFiles
  BY DEF ReservationInv, FilesNamed
<1>9. \A u \in Thread : work'[u] = IF u = t THEN next ELSE work[u]
  BY <1>1, <1>3
<1>10. QED
  BY <1>7, <1>8, <1>9

(* A step that leaves registry, images and added names alone keeps the     *)
(* invariant.                                                              *)
LEMMA UnchangedReservation ==
  ASSUME ReservationInv, TypeInv', HostKept', UNCHANGED <<mgr, image, work, added>>
  PROVE  ReservationInv'
<1>1. \A t \in Thread : AddedNames(t)' = AddedNames(t)
  BY DEF AddedNames
<1>2. \A t \in Thread : \A n \in 1 .. Len(work'[t]) :
        work'[t][n].ino # NoInode =>
          <<work'[t][n].name, work'[t][n].ino>> \in NamedFiles
  BY DEF ReservationInv, FilesNamed
<1>3. QED
  BY <1>1, <1>2, QuietStep

(* Leaving a session that has reserved nothing.                            *)
LEMMA LeaveQuiet ==
  ASSUME ReservationInv, TypeInv', HostKept', NEW t \in Thread, CanLock(t), Leave(t),
         AddedNames(t) = {}
  PROVE  /\ \A u \in Thread : /\ AddedNames(u)' = AddedNames(u)
                              /\ \A k \in AddedNames(u) : added'[u][k] = added[u][k]
         /\ \A u \in Thread : \A n \in 1 .. Len(work'[u]) :
              work'[u][n].ino # NoInode =>
                <<work'[u][n].name, work'[u][n].ino>> \in NamedFiles
<1>1. \A u \in Thread : AddedNames(u)' = AddedNames(u)
  BY LeaveFacts DEF ReservationInv
<1>2. \A u \in Thread \ {t} : added'[u] = added[u] /\ work'[u] = work[u]
  BY DEF Leave, ReservationInv, TypeInv, TypeOK
<1>3. work'[t] = <<>>
  BY DEF Leave, ReservationInv, TypeInv, TypeOK
<1>4. \A n \in 1 .. Len(work'[t]) : FALSE
  BY <1>3
<1>5. ASSUME NEW u \in Thread, u # t
      PROVE  \A n \in 1 .. Len(work'[u]) : work'[u][n].ino # NoInode =>
               <<work'[u][n].name, work'[u][n].ino>> \in NamedFiles
  BY <1>2, <1>5 DEF ReservationInv, FilesNamed
<1>6. QED
  BY <1>1, <1>2, <1>4, <1>5

(* FinishExisting (finish_existing) keeps the invariant.                   *)
LEMMA FinishExistingReservation ==
  ASSUME ReservationInv, TypeInv', HostKept', NEW t \in Thread, CanLock(t),
         AddedNames(t) = {}, NEW m \in Manager, NEW c \in Key,
         m.pending = mgr.pending, m.link_ctx = mgr.link_ctx,
         m.identities = mgr.identities, m.failed = mgr.failed,
         FinishExisting(t, m, c)
  PROVE  ReservationInv'
<1> DEFINE fl == req[t].flags
<1>1. /\ fl \in SUBSET Flag
      /\ mgr' = Promote(m, c, fl)
      /\ Leave(t)
      /\ image' = image
  BY RequestFlags DEF FinishExisting, ReservationInv, TypeInv
<1> HIDE DEF fl
<1>2. /\ mgr'.pending = mgr.pending
      /\ mgr'.link_ctx = mgr.link_ctx
      /\ mgr'.identities = mgr.identities
      /\ "already registered" \in mgr'.failed
           => "already registered" \in mgr.failed
  BY <1>1, PromoteFacts
<1>3. QED
  BY <1>1, <1>2, LeaveQuiet, QuietStep

(* ExistingByName (wait_for_library) keeps the invariant.                  *)
LEMMA ExistingByNameReservation ==
  ASSUME ReservationInv, TypeInv', HostKept', NEW t \in Thread, ExistingByName(t)
  PROVE  ReservationInv'
<1> DEFINE c == Lookup(mgr, req[t].key)
<1>1. /\ CanLock(t)
      /\ AddedNames(t) = {}
      /\ mgr \in Manager
      /\ c \in Key \cup {NoKey}
  <2>1. /\ pc[t] = "existing_name" /\ CanLock(t) /\ mgr \in Manager
        /\ req[t] \in Request /\ AddedNames(t) = {}
    BY DEF ExistingByName, ReservationInv, TypeInv, TypeOK, Session, Opening
  <2> QED BY <2>1, RequestType, LookupType
<1>2. CASE Goto(t, "existing_inode") /\ UNCHANGED <<mgr, work, root, added, deps>>
  BY <1>2, UnchangedReservation DEF Goto
<1>3. CASE c # NoKey /\ FinishExisting(t, mgr, c)
  BY <1>1, <1>3, FinishExistingReservation
<1>4. CASE Wait(t, "existing_name")
  BY <1>4, UnchangedReservation DEF Wait
<1>5. QED
  BY <1>2, <1>3, <1>4 DEF ExistingByName

(* ExistingByInode (inode_fallback) keeps the invariant.                   *)
LEMMA ExistingByInodeReservation ==
  ASSUME ReservationInv, TypeInv', HostKept', NEW t \in Thread, ExistingByInode(t)
  PROVE  ReservationInv'
<1> DEFINE r == req[t]
           c == LookupByIdentity(mgr, r.ino)
           file == IF r.slash THEN r.ino ELSE Find[r.key]
           w == [owner |-> NoKey, name |-> r.key, ino |-> file]
<1>1. /\ CanLock(t)
      /\ mgr \in Manager
      /\ r \in Request
      /\ AddedNames(t) = {}
  BY DEF ExistingByInode, ReservationInv, TypeInv, TypeOK, Session, Opening
<1>2. CASE UNCHANGED <<mgr, image, work, added>>
  BY <1>2, UnchangedReservation
<1>3. CASE /\ r.ino # NoInode
           /\ c # NoKey
           /\ FinishExisting(t, AddAlias(mgr, c, r.key), c)
  <2>1. c \in Key /\ r.key \in Key
    BY <1>1, <1>3, RequestType, IdentityType
  <2> DEFINE m == AddAlias(mgr, c, r.key)
  <2>2. /\ m \in Manager
        /\ m.pending = mgr.pending
        /\ m.link_ctx = mgr.link_ctx
        /\ m.identities = mgr.identities
        /\ m.failed = mgr.failed
    BY <1>1, <2>1, AddAliasesFacts DEF AddAlias
  <2> HIDE DEF m, c
  <2>3. FinishExisting(t, m, c)
    BY <1>3 DEF m
  <2> QED BY <1>1, <2>1, <2>2, <2>3, FinishExistingReservation
<1>4. CASE work' = [work EXCEPT ![t] = <<w>>] /\ UNCHANGED <<mgr, image, added>>
  <2>1. file # NoInode => <<r.key, file>> \in NamedFiles
    <3>1. CASE r.slash
      BY <1>1, <3>1 DEF NamedFiles
    <3>2. CASE ~r.slash
      BY <1>1, <3>2, RequestType, FoundNamed
    <3> QED BY <3>1, <3>2
  <2> HIDE DEF file
  <2>2. /\ w.ino = file /\ w.name = r.key
        /\ \A n \in 1 .. Len(<<w>>) : <<w>>[n] = w
    OBVIOUS
  <2> HIDE DEF w
  <2>3. \A u \in Thread : work'[u] = IF u = t THEN <<w>> ELSE work[u]
    BY <1>4 DEF ReservationInv, TypeInv, TypeOK
  <2>4. ASSUME NEW u \in Thread, NEW n \in 1 .. Len(work'[u]),
               work'[u][n].ino # NoInode
        PROVE  <<work'[u][n].name, work'[u][n].ino>> \in NamedFiles
    <3>1. CASE u = t
      BY <2>1, <2>2, <2>3, <2>4, <3>1
    <3>2. CASE u # t
      BY <2>3, <2>4, <3>2 DEF ReservationInv, FilesNamed
    <3> QED BY <3>1, <3>2
  <2>5. \A u \in Thread : AddedNames(u)' = AddedNames(u)
    BY <1>4 DEF AddedNames
  <2> QED BY <1>4, <2>4, <2>5, QuietStep
<1>5. QED
  <2>1. CASE LinkRoot(t)
    BY <1>2, <1>4, <2>1 DEF LinkRoot, Goto
  <2>2. CASE Goto(t, "rollback") /\ UNCHANGED <<mgr, work, root, added, deps>>
    BY <1>2, <2>2 DEF Goto
  <2>3. CASE Wait(t, "existing_inode")
    BY <1>2, <2>3 DEF Wait
  <2> QED BY <1>3, <2>1, <2>2, <2>3 DEF ExistingByInode

(* ResolveByName (resolve_request) keeps the invariant.                    *)
LEMMA ResolveByNameReservation ==
  ASSUME ReservationInv, TypeInv', HostKept', NEW t \in Thread, ResolveByName(t)
  PROVE  ReservationInv'
<1> DEFINE w == Head(work[t])
<1>1. work[t] # <<>>
  BY DEF ResolveByName
<1>2. CASE UNCHANGED <<mgr, image, work, added>>
  BY <1>2, UnchangedReservation
<1>3. ASSUME NEW k, Resolved(t, w, k, <<>>), UNCHANGED <<mgr, image, added>>
      PROVE  ReservationInv'
  <2>1. <<>> \in Seq(Work) /\ \A n \in 1 .. Len(<<>>) : FALSE
    OBVIOUS
  <2>2. \A u \in Thread : \A n \in 1 .. Len(work'[u]) :
          work'[u][n].ino # NoInode =>
            <<work'[u][n].name, work'[u][n].ino>> \in NamedFiles
    BY <1>1, <1>3, <2>1, ResolvedNamed
  <2>3. \A u \in Thread : AddedNames(u)' = AddedNames(u)
    BY <1>3 DEF AddedNames
  <2> QED BY <1>3, <2>2, <2>3, QuietStep
<1>4. QED
  BY <1>2, <1>3, Zenon DEF ResolveByName, Goto, Wait

(* The step that reserves a name: the file's identity was unknown, so no   *)
(* other name of the file is registered; the assertion has not failed, so  *)
(* the name itself is not.                                                 *)
LEMMA LoadReservation ==
  ASSUME ReservationInv, TypeInv', HostKept', NEW t \in Thread,
         NeverAlreadyRegistered',
         NEW k \in Key \ Host, NEW i \in Inode, <<k, i>> \in NamedFiles,
         LookupByIdentity(mgr, i) = NoKey,
         mgr' = ReservePending(mgr, k, i, req[t].flags),
         added' = [added EXCEPT ![t][k] = i], UNCHANGED image,
         \A u \in Thread : \A n \in 1 .. Len(work'[u]) :
           work'[u][n].ino # NoInode =>
             <<work'[u][n].name, work'[u][n].ino>> \in NamedFiles
  PROVE  ReservationInv'
<1>2. /\ mgr \in Manager
      /\ added \in [Thread -> [Key -> Inode \cup {NoInode}]]
      /\ req[t].flags \in SUBSET Flag
  BY RequestFlags DEF ReservationInv, TypeInv, TypeOK
<1>1. ~Registered(mgr, k)
  <2>1. mgr'.failed = IF Registered(mgr, k)
                      THEN mgr.failed \cup {"already registered"}
                      ELSE mgr.failed
    BY <1>2, ReservePendingChecks
  <2>2. "already registered" \notin mgr'.failed
    BY DEF NeverAlreadyRegistered
  <2> QED BY <2>1, <2>2
<1>3. /\ mgr' \in Manager
      /\ mgr'.pending = mgr.pending \cup {k}
      /\ mgr'.link_ctx = mgr.link_ctx
      /\ \A j \in Inode : mgr'.identities[j] = IF j = i THEN k
                                               ELSE mgr.identities[j]
  BY <1>2, ReservePendingFacts
<1>5. /\ \A u \in Thread \ {t} : added'[u] = added[u]
      /\ added'[t] = [added[t] EXCEPT ![k] = i]
  <2> DEFINE A == [added[t] EXCEPT ![k] = i]
  <2>1. added' = [added EXCEPT ![t] = A]
    OBVIOUS
  <2> HIDE DEF A
  <2>2. (\A u \in Thread \ {t} : added'[u] = added[u]) /\ added'[t] = A
    BY <1>2, <2>1
  <2> QED BY <2>2 DEF A
<1>6. i # NoInode
  BY RegistryAssumption
<1>7. /\ \A u \in Thread \ {t} : AddedNames(u)' = AddedNames(u)
      /\ AddedNames(t)' = AddedNames(t) \cup {k}
  <2>1. \A u \in Thread \ {t} : AddedNames(u)' = AddedNames(u)
    BY <1>5 DEF AddedNames
  <2>2. AddedNames(t)' = AddedNames(t) \cup {k}
    BY <1>2, <1>5, <1>6 DEF AddedNames
  <2> QED BY <2>1, <2>2
<1>8. k \notin mgr.pending /\ \A u \in Thread : k \notin AddedNames(u)
  BY <1>1 DEF Registered, ReservationInv, PendingOwned
<1>9. \A u \in Thread : AddedNames(u)' # {} => Opening(u)'
  BY DEF TypeInv, Session, Opening
<1>10. PendingOwned'
  <2>1. ASSUME NEW j \in mgr'.pending
        PROVE  \E u \in Thread : j \in AddedNames(u)'
    <3>1. CASE j = k
      BY <1>7, <3>1
    <3>2. CASE j # k
      <4> PICK u \in Thread : j \in AddedNames(u)
        BY <1>3, <3>2 DEF ReservationInv, PendingOwned
      <4>1. j \in AddedNames(u)'
        BY <1>7
      <4> QED BY <4>1
    <3> QED BY <3>1, <3>2
  <2>2. \A u \in Thread : AddedNames(u)' \subseteq mgr'.pending
    BY <1>3, <1>7 DEF ReservationInv, PendingOwned
  <2>3. \A u, v \in Thread : u # v => AddedNames(u)' \cap AddedNames(v)' = {}
    BY <1>7, <1>8 DEF ReservationInv, PendingOwned
  <2> QED BY <1>9, <2>1, <2>2, <2>3 DEF PendingOwned
<1>11. \A j \in mgr'.pending : ~Committed(mgr', j)
  BY <1>1, <1>3 DEF ReservationInv, Committed, Registered
<1>12. FilesNamed'
  <2>1. ASSUME NEW u \in Thread, NEW j \in AddedNames(u)'
        PROVE  <<j, added'[u][j]>> \in NamedFiles
    <3>1. CASE u = t /\ j = k
      BY <1>2, <1>5, <3>1
    <3>2. CASE ~(u = t /\ j = k)
      <4>1. j \in AddedNames(u) /\ added'[u][j] = added[u][j]
        BY <1>2, <1>5, <1>7, <3>2 DEF AddedNames
      <4> QED BY <4>1 DEF ReservationInv, FilesNamed
    <3> QED BY <3>1, <3>2
  <2>2. \A j \in Key : Committed(mgr', j) =>
          /\ image'[mgr'.link_ctx[j]].key = j
          /\ <<j, image'[mgr'.link_ctx[j]].file>> \in NamedFiles
    BY <1>3 DEF ReservationInv, FilesNamed, Committed
  <2> QED BY <2>1, <2>2 DEF FilesNamed
<1>13. IdentityKnown'
  <2>1. ASSUME NEW j \in Key, Registered(mgr, j), NEW f \in Inode,
               mgr.identities[f] = j
        PROVE  mgr'.identities[f] = j
    BY <1>2, <1>3, <2>1, UnknownIdentity
  <2>2. ASSUME NEW u \in Thread, NEW j \in AddedNames(u)'
        PROVE  mgr'.identities[added'[u][j]] = j
    <3>1. CASE u = t /\ j = k
      BY <1>2, <1>3, <1>5, <3>1
    <3>2. CASE ~(u = t /\ j = k)
      <4>1. j \in AddedNames(u) /\ added'[u][j] = added[u][j]
        BY <1>2, <1>5, <1>7, <3>2 DEF AddedNames
      <4>2. added[u][j] \in Inode /\ j \in Key /\ Registered(mgr, j)
        BY <1>2, <4>1 DEF AddedNames, Registered, ReservationInv, PendingOwned
      <4>3. mgr.identities[added[u][j]] = j
        BY <4>1 DEF ReservationInv, IdentityKnown
      <4> QED BY <2>1, <4>1, <4>2, <4>3
    <3> QED BY <3>1, <3>2
  <2>3. ASSUME NEW j \in Key \ Host, Committed(mgr', j)
        PROVE  mgr'.identities[image'[mgr'.link_ctx[j]].file] = j
    <3> DEFINE f == image[mgr.link_ctx[j]].file
    <3>1. Committed(mgr, j) /\ f = image'[mgr'.link_ctx[j]].file
      BY <1>3, <2>3 DEF Committed
    <3>2. <<j, f>> \in NamedFiles /\ mgr.identities[f] = j
      BY <3>1 DEF ReservationInv, FilesNamed, IdentityKnown
    <3>3. f \in Inode /\ Registered(mgr, j)
      BY <3>1, <3>2, NamedType DEF Registered
    <3> HIDE DEF f
    <3> QED BY <2>1, <3>1, <3>2, <3>3
  <2> QED BY <2>2, <2>3 DEF IdentityKnown
<1>15. QED
  BY <1>10, <1>11, <1>12, <1>13 DEF ReservationInv

(* ResolveByPath (resolve_candidate_path) keeps the invariant.             *)
LEMMA ResolveByPathReservation ==
  ASSUME ReservationInv, TypeInv', HostKept', NEW t \in Thread,
         ResolveByPath(t), NeverAlreadyRegistered'
  PROVE  ReservationInv'
<1> DEFINE w == Head(work[t])
           c == LookupByIdentity(mgr, w.ino)
           more == NeededWork(w.name, w.ino)
<1>1. /\ mgr \in Manager
      /\ work[t] \in Seq(Work)
      /\ work[t] # <<>>
      /\ w.ino # NoInode
  BY DEF ResolveByPath, ReservationInv, TypeInv, TypeOK, Session
<1>2. w \in Work /\ w.name \in Key /\ w.ino \in Inode
  <2>1. w \in Work
    BY <1>1
  <2> QED BY <1>1, <2>1 DEF Work
<1>3. <<w.name, w.ino>> \in NamedFiles
  <2>1. w = work[t][1] /\ 1 \in 1 .. Len(work[t])
    BY <1>1
  <2> HIDE DEF w
  <2> QED BY <1>1, <2>1 DEF ReservationInv, FilesNamed
<1>4. CASE UNCHANGED <<mgr, image, work, added>>
  BY <1>4, UnchangedReservation
<1>5. CASE /\ c # NoKey
           /\ mgr' = AddAlias(mgr, c, w.name)
           /\ Resolved(t, w, c, <<>>)
           /\ UNCHANGED <<image, added>>
  <2>1. c \in Key
    BY <1>1, <1>2, <1>5, IdentityType
  <2>2. /\ mgr'.pending = mgr.pending
        /\ mgr'.link_ctx = mgr.link_ctx
        /\ mgr'.identities = mgr.identities
        /\ mgr'.failed = mgr.failed
    BY <1>1, <1>2, <1>5, <2>1, AddAliasesFacts DEF AddAlias
  <2>3. <<>> \in Seq(Work) /\ \A n \in 1 .. Len(<<>>) : FALSE
    OBVIOUS
  <2>4. \A u \in Thread : \A n \in 1 .. Len(work'[u]) :
          work'[u][n].ino # NoInode =>
            <<work'[u][n].name, work'[u][n].ino>> \in NamedFiles
    <3> HIDE DEF w, c
    <3> QED BY <1>1, <1>5, <2>3, ResolvedNamed
  <2>5. \A u \in Thread : AddedNames(u)' = AddedNames(u)
    BY <1>5 DEF AddedNames
  <2> HIDE DEF w, c
  <2> QED BY <1>5, <2>2, <2>4, <2>5, QuietStep
<1>6. CASE /\ c = NoKey
           /\ IF w.name \in AddedNames(t) THEN UNCHANGED <<mgr, added>>
              ELSE /\ mgr' = ReservePending(mgr, w.name, w.ino, req[t].flags)
                   /\ added' = [added EXCEPT ![t][w.name] = w.ino]
           /\ Resolved(t, w, w.name, more)
           /\ UNCHANGED image
  <2>1. more \in Seq(Work) /\ \A n \in 1 .. Len(more) :
                                /\ more[n].name \in Key
                                /\ more[n].ino = Find[more[n].name]
    BY <1>2, MoreWork
  <2>2. \A u \in Thread : \A n \in 1 .. Len(work'[u]) :
          work'[u][n].ino # NoInode =>
            <<work'[u][n].name, work'[u][n].ino>> \in NamedFiles
    <3> HIDE DEF w, more
    <3> QED BY <1>1, <1>6, <2>1, ResolvedNamed
  <2>3. CASE w.name \in AddedNames(t)
    <3>1. \A u \in Thread : AddedNames(u)' = AddedNames(u)
      BY <1>6, <2>3 DEF AddedNames
    <3> QED BY <1>6, <2>2, <2>3, <3>1, QuietStep
  <2>4. CASE w.name \notin AddedNames(t)
    <3>1. w.name \notin Host
      BY DEF ResolveByPath, ReservationInv, HostKept
    <3> HIDE DEF w
    <3> QED BY <1>2, <1>3, <1>6, <2>2, <2>4, <3>1, LoadReservation
  <2> QED BY <2>3, <2>4
<1>7. QED
  <2> HIDE DEF c, more
  <2> QED BY <1>4, <1>5, <1>6 DEF ResolveByPath, Goto, Wait, c, more

(* remove, whoever calls it, as long as every session forgets the names    *)
(* that are removed.                                                       *)
LEMMA RemoveReservation ==
  ASSUME ReservationInv, TypeInv', HostKept', NEW S \in SUBSET Key,
         mgr' = RemoveAll(mgr, S), UNCHANGED image,
         \A u \in Thread : AddedNames(u)' = AddedNames(u) \ S,
         \A u \in Thread : \A k \in AddedNames(u)' : added'[u][k] = added[u][k],
         \A u \in Thread : \A n \in 1 .. Len(work'[u]) :
           work'[u][n].ino # NoInode =>
             <<work'[u][n].name, work'[u][n].ino>> \in NamedFiles
  PROVE  ReservationInv'
<1>1. mgr \in Manager
  BY DEF ReservationInv, TypeInv, TypeOK
<1>2. /\ mgr'.pending = mgr.pending \ S
      /\ \A k \in Key : mgr'.link_ctx[k] = IF k \in S \ mgr.pending THEN NoModule
                                           ELSE mgr.link_ctx[k]
      /\ \A i \in Inode : mgr.identities[i] \notin S =>
                            mgr'.identities[i] = mgr.identities[i]
      /\ "already registered" \in mgr'.failed
           => "already registered" \in mgr.failed
  BY <1>1 DEF RemoveAll, Committed, Manager
<1>3. \A u \in Thread : AddedNames(u)' # {} => Opening(u)'
  BY DEF TypeInv, Session, Opening
<1>4. PendingOwned'
  <2>1. ASSUME NEW k \in mgr'.pending
        PROVE  \E u \in Thread : k \in AddedNames(u)'
    <3> PICK u \in Thread : k \in AddedNames(u)
      BY <1>2 DEF ReservationInv, PendingOwned
    <3>1. k \in AddedNames(u)'
      BY <1>2
    <3> QED BY <3>1
  <2>2. \A u \in Thread : AddedNames(u)' \subseteq mgr'.pending
    BY <1>2 DEF ReservationInv, PendingOwned
  <2>3. \A u, v \in Thread : u # v => AddedNames(u)' \cap AddedNames(v)' = {}
    BY DEF ReservationInv, PendingOwned
  <2> QED BY <1>3, <2>1, <2>2, <2>3 DEF PendingOwned
<1>5. ASSUME NEW k \in Key, Registered(mgr', k)
      PROVE  Registered(mgr, k) /\ k \notin S
  BY <1>2, <1>5 DEF ReservationInv, Registered, Committed
<1>6. ASSUME NEW k \in Key, Committed(mgr', k)
      PROVE  Committed(mgr, k) /\ mgr'.link_ctx[k] = mgr.link_ctx[k]
  BY <1>2, <1>6 DEF Committed
<1>7. \A k \in mgr'.pending : ~Committed(mgr', k)
  BY <1>1, <1>2, <1>6 DEF ReservationInv, Manager
<1>8. FilesNamed'
  <2>1. \A u \in Thread : \A k \in AddedNames(u)' :
          <<k, added'[u][k]>> \in NamedFiles
    BY DEF ReservationInv, FilesNamed
  <2>2. \A k \in Key : Committed(mgr', k) =>
          /\ image'[mgr'.link_ctx[k]].key = k
          /\ <<k, image'[mgr'.link_ctx[k]].file>> \in NamedFiles
    BY <1>6 DEF ReservationInv, FilesNamed
  <2> QED BY <2>1, <2>2 DEF FilesNamed
<1>9. IdentityKnown'
  <2>1. ASSUME NEW u \in Thread, NEW k \in AddedNames(u)'
        PROVE  mgr'.identities[added'[u][k]] = k
    <3>1. k \in AddedNames(u) /\ k \notin S /\ added'[u][k] = added[u][k]
      OBVIOUS
    <3>2. <<k, added[u][k]>> \in NamedFiles /\ mgr.identities[added[u][k]] = k
      BY <3>1 DEF ReservationInv, FilesNamed, IdentityKnown
    <3>3. added[u][k] \in Inode
      BY <3>2, NamedType
    <3> QED BY <1>2, <3>1, <3>2, <3>3
  <2>2. ASSUME NEW k \in Key \ Host, Committed(mgr', k)
        PROVE  mgr'.identities[image'[mgr'.link_ctx[k]].file] = k
    <3> DEFINE f == image[mgr.link_ctx[k]].file
    <3>1. /\ Committed(mgr, k) /\ f = image'[mgr'.link_ctx[k]].file
          /\ k \notin S
      BY <1>5, <1>6, <2>2 DEF Registered
    <3>2. <<k, f>> \in NamedFiles /\ mgr.identities[f] = k
      BY <3>1 DEF ReservationInv, FilesNamed, IdentityKnown
    <3>3. f \in Inode
      BY <3>2, NamedType
    <3> HIDE DEF f
    <3> QED BY <1>2, <3>1, <3>2, <3>3
  <2> QED BY <2>1, <2>2 DEF IdentityKnown
<1>10. NeverAlreadyRegistered'
  BY <1>2 DEF ReservationInv, NeverAlreadyRegistered
<1>11. QED
  BY <1>4, <1>7, <1>8, <1>9, <1>10 DEF ReservationInv

(* After a session has left, the other sessions' names are still named.    *)
LEMMA LeaveNamed ==
  ASSUME ReservationInv, NEW t \in Thread, Leave(t)
  PROVE  /\ \A u \in Thread : \A n \in 1 .. Len(work'[u]) :
              work'[u][n].ino # NoInode =>
                <<work'[u][n].name, work'[u][n].ino>> \in NamedFiles
         /\ \A u \in Thread \ {t} : added'[u] = added[u]
<1>1. \A u \in Thread \ {t} : added'[u] = added[u] /\ work'[u] = work[u]
  BY DEF Leave, ReservationInv, TypeInv, TypeOK
<1>2. work'[t] = <<>>
  BY DEF Leave, ReservationInv, TypeInv, TypeOK
<1>3. \A n \in 1 .. Len(work'[t]) : FALSE
  BY <1>2
<1>4. ASSUME NEW u \in Thread, u # t
      PROVE  \A n \in 1 .. Len(work'[u]) : work'[u][n].ino # NoInode =>
               <<work'[u][n].name, work'[u][n].ino>> \in NamedFiles
  BY <1>1, <1>4 DEF ReservationInv, FilesNamed
<1>5. QED
  BY <1>1, <1>3, <1>4

(* Rollback (Drop for OpenContext) keeps the invariant.                    *)
LEMMA RollbackReservation ==
  ASSUME ReservationInv, TypeInv', HostKept', NEW t \in Thread, Rollback(t)
  PROVE  ReservationInv'
<1> DEFINE S == AddedNames(t)
<1>1. /\ S \in SUBSET Key
      /\ mgr' = RemoveAll(mgr, S)
      /\ UNCHANGED image
      /\ CanLock(t)
      /\ Leave(t)
  BY DEF Rollback, AddedNames
<1>2. \A u \in Thread : AddedNames(u)' = AddedNames(u) \ S
  <2>1. \A u \in Thread : AddedNames(u)' = IF u = t THEN {} ELSE AddedNames(u)
    BY <1>1, LeaveFacts DEF ReservationInv
  <2>2. \A u \in Thread : u # t => AddedNames(u) \cap S = {}
    BY DEF ReservationInv, PendingOwned
  <2> QED BY <2>1, <2>2
<1>3. \A u \in Thread : \A k \in AddedNames(u)' : added'[u][k] = added[u][k]
  <2>1. AddedNames(t)' = {}
    BY <1>2
  <2>2. \A u \in Thread \ {t} : added'[u] = added[u]
    BY <1>1, LeaveNamed
  <2> QED BY <2>1, <2>2
<1>4. \A u \in Thread : \A n \in 1 .. Len(work'[u]) :
        work'[u][n].ino # NoInode =>
          <<work'[u][n].name, work'[u][n].ino>> \in NamedFiles
  BY <1>1, LeaveNamed
<1> HIDE DEF S
<1>5. QED
  BY <1>1, <1>2, <1>3, <1>4, RemoveReservation

(* A drop removes committed libraries only: the ones its handle keeps      *)
(* registered until now.                                                   *)
LEMMA DropReservation ==
  ASSUME ReservationInv, HandlesResident, TypeInv', HostKept', NEW t \in Thread,
         NEW h \in Handle, Drop(t, h)
  PROVE  ReservationInv'
<1>0. TypeInv
  BY DEF ReservationInv
<1> PICK gone \in SUBSET ({handle[h].inner} \cup handle[h].deps) :
       /\ {image[x].key : x \in gone} \in SUBSET Key
       /\ mgr' = RemoveAll(mgr, {image[x].key : x \in gone})
       /\ handle' = [handle EXCEPT ![h].open = FALSE]
       /\ handle[h].open
       /\ lock = NoThread
  BY <1>0, DropFacts
<1> DEFINE S == {image[x].key : x \in gone}
<1>1. S \in SUBSET Key /\ mgr' = RemoveAll(mgr, S)
  OBVIOUS
<1>2. ASSUME NEW k \in S PROVE k \notin mgr.pending
  <2> PICK x \in gone : k = image[x].key
    OBVIOUS
  <2>1. x \in ImagesOf(mgr, Key)
    BY DEF HandlesResident, Images
  <2>2. mgr \in Manager
    BY <1>0 DEF TypeInv, TypeOK
  <2> PICK j \in Key : Committed(mgr, j) /\ x = mgr.link_ctx[j]
    BY <2>1, <2>2, ImageCommitted
  <2>3. k = j
    BY DEF ReservationInv, FilesNamed
  <2> QED BY <2>3 DEF ReservationInv
<1>3. UNCHANGED <<image, work, added>>
  BY DEF Drop
<1> HIDE DEF S
<1>4. \A u \in Thread : AddedNames(u)' = AddedNames(u) \ S
  <2>1. \A u \in Thread : AddedNames(u)' = AddedNames(u)
    BY <1>3 DEF AddedNames
  <2>2. \A u \in Thread : AddedNames(u) \cap S = {}
    BY <1>2 DEF ReservationInv, PendingOwned
  <2> QED BY <2>1, <2>2
<1>5. \A u \in Thread : \A n \in 1 .. Len(work'[u]) :
        work'[u][n].ino # NoInode =>
          <<work'[u][n].name, work'[u][n].ino>> \in NamedFiles
  BY <1>3 DEF ReservationInv, FilesNamed
<1>6. QED
  BY <1>1, <1>3, <1>4, <1>5, RemoveReservation

(* Merge (merge_link_context) keeps the invariant.                         *)
LEMMA MergeReservation ==
  ASSUME ReservationInv, TypeInv', HostKept', NEW t \in Thread, Merge(t)
  PROVE  ReservationInv'
<1> DEFINE S == AddedNames(t)
<1>0. TypeInv
  BY DEF ReservationInv
<1>p. PICK new \in [S -> Module] :
       /\ mgr' = MergeLinkContext(mgr, S, new, added[t], deps[t], req[t].flags)
       /\ mgr' \in Manager
       /\ image' \in [Module -> ImageState]
       /\ \A k \in S : image'[new[k]].key = k /\ image'[new[k]].file = added[t][k]
       /\ \A x \in Module : x \in Live => image'[x] = image[x]
       /\ NewHandle(mgr', root[t])
       /\ Leave(t)
       /\ CanLock(t)
  BY <1>0, MergeFacts
<1>1. /\ S \in SUBSET Key
      /\ mgr \in Manager
      /\ S \subseteq mgr.pending
      /\ \A k \in S : ~Committed(mgr, k)
  BY DEF ReservationInv, TypeInv, TypeOK, PendingOwned, AddedNames
<1>2. /\ mgr'.pending = mgr.pending \ S
      /\ \A k \in Key : mgr'.link_ctx[k] = IF k \in S THEN new[k]
                                           ELSE mgr.link_ctx[k]
      /\ \A i \in Inode :
           \/ mgr'.identities[i] = mgr.identities[i]
           \/ \E k \in S : added[t][k] = i /\ mgr'.identities[i] = k
      /\ "already registered" \in mgr'.failed
           => "already registered" \in mgr.failed
  <2> DEFINE A == added[t]
             D == deps[t]
             F == req[t].flags
             merged == MergeLinkContext(mgr, S, new, A, D, F)
  <2>0. mgr' = merged
    BY <1>p
  <2>1. /\ merged = MergeLinkContext(mgr, S, new, A, D, F)
        /\ A \in [Key -> Inode \cup {NoInode}]
        /\ D \in [Key -> SUBSET Key]
        /\ F \in SUBSET Flag
    BY <1>0, <1>1, RequestFlags DEF TypeInv, TypeOK
  <2>u. Uncommitted(mgr, S) = S
    BY <1>1 DEF Uncommitted
  <2> HIDE DEF S, A, D, F, merged
  <2>2. mgr \in Manager /\ S \in SUBSET Key /\ new \in [S -> Module]
    BY <1>1 DEF S
  <2>3. merged.pending = mgr.pending \ Uncommitted(mgr, S)
    BY <2>1 DEF MergeLinkContext
  <2>4. \A k \in Key : merged.link_ctx[k] = IF k \in Uncommitted(mgr, S)
                                            THEN new[k] ELSE mgr.link_ctx[k]
    BY <2>1 DEF MergeLinkContext
  <2>5. \A i \in Inode :
          IF \E k \in Uncommitted(mgr, S) : A[k] = i
          THEN \E k \in Uncommitted(mgr, S) :
                 A[k] = i /\ merged.identities[i] = k
          ELSE merged.identities[i] = mgr.identities[i]
    BY <2>1 DEF MergeLinkContext
  <2>6. "already registered" \in merged.failed
          => "already registered" \in mgr.failed
    BY <2>1 DEF MergeLinkContext
  <2>7. mgr'.pending = mgr.pending \ S
    BY <2>0, <2>u, <2>3
  <2>8. \A k \in Key : mgr'.link_ctx[k] = IF k \in S THEN new[k]
                                          ELSE mgr.link_ctx[k]
    BY <2>0, <2>u, <2>4
  <2>9. \A i \in Inode :
          \/ mgr'.identities[i] = mgr.identities[i]
          \/ \E k \in S : A[k] = i /\ mgr'.identities[i] = k
    BY <2>0, <2>u, <2>5
  <2>10. QED
    BY <2>0, <2>u, <2>6, <2>7, <2>8, <2>9 DEF A
<1>3. /\ \A u \in Thread : AddedNames(u)' = IF u = t THEN {} ELSE AddedNames(u)
      /\ \A u \in Thread \ {t} : added'[u] = added[u]
      /\ \A u \in Thread : \A n \in 1 .. Len(work'[u]) :
           work'[u][n].ino # NoInode =>
             <<work'[u][n].name, work'[u][n].ino>> \in NamedFiles
  BY <1>0, <1>p, LeaveFacts, LeaveNamed
<1>4. \A u \in Thread : AddedNames(u)' # {} => Opening(u)'
  BY DEF TypeInv, Session, Opening
<1>5. PendingOwned'
  <2>1. ASSUME NEW k \in mgr'.pending
        PROVE  \E u \in Thread : k \in AddedNames(u)'
    <3> PICK u \in Thread : k \in AddedNames(u)
      BY <1>2 DEF ReservationInv, PendingOwned
    <3>1. k \in AddedNames(u)'
      BY <1>2, <1>3
    <3> QED BY <3>1
  <2>2. \A u \in Thread : AddedNames(u)' \subseteq mgr'.pending
    <3>1. \A u \in Thread : /\ AddedNames(u) \subseteq mgr.pending
                            /\ u # t => AddedNames(u) \cap S = {}
      BY DEF ReservationInv, PendingOwned
    <3>2. ASSUME NEW u \in Thread PROVE AddedNames(u)' \subseteq mgr'.pending
      <4>1. CASE u = t
        BY <1>3, <4>1
      <4>2. CASE u # t
        <5>1. AddedNames(u)' = AddedNames(u)
          BY <1>3, <4>2
        <5>2. AddedNames(u) \subseteq mgr.pending \ S
          BY <3>1, <4>2
        <5>3. mgr'.pending = mgr.pending \ S
          BY <1>2
        <5> HIDE DEF S
        <5> QED BY <5>1, <5>2, <5>3
      <4> QED BY <4>1, <4>2
    <3> QED BY <3>2
  <2>3. \A u, v \in Thread : u # v => AddedNames(u)' \cap AddedNames(v)' = {}
    BY <1>3 DEF ReservationInv, PendingOwned
  <2> QED BY <1>4, <2>1, <2>2, <2>3 DEF PendingOwned
<1>6. \A k \in mgr'.pending : ~Committed(mgr', k)
  BY <1>1, <1>2, <1>p DEF ReservationInv, Committed, Manager
<1>7. \A k \in S : <<k, added[t][k]>> \in NamedFiles
  BY DEF ReservationInv, FilesNamed
<1>8. FilesNamed'
  <2>1. \A u \in Thread : \A k \in AddedNames(u)' :
          <<k, added'[u][k]>> \in NamedFiles
    BY <1>3 DEF ReservationInv, FilesNamed
  <2>2. ASSUME NEW k \in Key, Committed(mgr', k)
        PROVE  /\ image'[mgr'.link_ctx[k]].key = k
               /\ <<k, image'[mgr'.link_ctx[k]].file>> \in NamedFiles
    <3>1. CASE k \in S
      BY <1>2, <1>7, <1>p, <3>1
    <3>2. CASE k \notin S
      <4>1. mgr'.link_ctx[k] = mgr.link_ctx[k] /\ Committed(mgr, k)
        BY <1>2, <2>2, <3>2 DEF Committed
      <4>2. mgr.link_ctx[k] \in Module /\ mgr.link_ctx[k] \in Live
        BY <1>0, <1>1, <4>1, CommittedImage, LiveImages DEF TypeInv
      <4> QED BY <1>p, <4>1, <4>2 DEF ReservationInv, FilesNamed
    <3> QED BY <3>1, <3>2
  <2> QED BY <1>3, <2>1, <2>2 DEF FilesNamed
<1>9. IdentityKnown'
  <2>1. ASSUME NEW k \in Key, NEW i \in Inode, mgr.identities[i] = k
        PROVE  mgr'.identities[i] = k
    <3>1. \A j \in S : mgr.identities[added[t][j]] = j
      BY DEF ReservationInv, IdentityKnown
    <3>2. \/ mgr'.identities[i] = mgr.identities[i]
          \/ \E j \in S : added[t][j] = i /\ mgr'.identities[i] = j
      BY <1>2
    <3> HIDE DEF S
    <3> QED BY <2>1, <3>1, <3>2
  <2>2. ASSUME NEW u \in Thread, NEW k \in AddedNames(u)'
        PROVE  mgr'.identities[added'[u][k]] = k
    <3>1. k \in AddedNames(u) /\ added'[u][k] = added[u][k] /\ k \in Key
      BY <1>3 DEF AddedNames
    <3>2. <<k, added[u][k]>> \in NamedFiles /\ mgr.identities[added[u][k]] = k
      BY <3>1 DEF ReservationInv, FilesNamed, IdentityKnown
    <3>3. added[u][k] \in Inode
      BY <3>2, NamedType
    <3> QED BY <2>1, <3>1, <3>2, <3>3
  <2>3. ASSUME NEW k \in Key \ Host, Committed(mgr', k)
        PROVE  mgr'.identities[image'[mgr'.link_ctx[k]].file] = k
    <3> DEFINE f == image'[mgr'.link_ctx[k]].file
    <3>1. mgr.identities[f] = k
      <4>1. CASE k \in S
        <5>1. f = added[t][k]
          BY <1>2, <1>p, <4>1
        <5> HIDE DEF f
        <5> QED BY <4>1, <5>1 DEF ReservationInv, IdentityKnown
      <4>2. CASE k \notin S
        <5>1. mgr'.link_ctx[k] = mgr.link_ctx[k] /\ Committed(mgr, k)
          BY <1>2, <2>3, <4>2 DEF Committed
        <5>2. mgr.link_ctx[k] \in Module /\ mgr.link_ctx[k] \in Live
          BY <1>0, <1>1, <5>1, CommittedImage, LiveImages DEF TypeInv
        <5> QED BY <1>p, <5>1, <5>2 DEF ReservationInv, IdentityKnown
      <4> QED BY <4>1, <4>2
    <3>2. f \in Inode
      BY <1>8, <2>3, NamedType DEF FilesNamed
    <3> HIDE DEF f
    <3>3. mgr'.identities[f] = k
      BY <2>1, <3>1, <3>2
    <3> QED BY <3>3 DEF f
  <2> QED BY <2>2, <2>3 DEF IdentityKnown
<1>10. NeverAlreadyRegistered'
  BY <1>2 DEF ReservationInv, NeverAlreadyRegistered
<1>11. QED
  BY <1>5, <1>6, <1>8, <1>9, <1>10 DEF ReservationInv

(* DropFields (the fields of a handle) keeps the invariant.                *)
LEMMA DropFieldsReservation ==
  ASSUME ReservationInv, TypeInv', HostKept', NEW t \in Thread, DropFields(t)
  PROVE  ReservationInv'
<1> DEFINE left == [handle EXCEPT ![dropping[t]] = ClosedHandle]
           live == LiveIn(mgr, left, LinkerRefs, image)
<1>1. /\ image' = [x \in Module |-> IF x \in live THEN image[x] ELSE NoImage]
      /\ UNCHANGED <<mgr, work, added>>
  BY DEF DropFields
<1> HIDE DEF left
<1>2. Images(mgr) \subseteq live
  BY LiveHolds
<1> HIDE DEF live
<1>3. \A k \in Key : Committed(mgr, k) =>
        image'[mgr.link_ctx[k]] = image[mgr.link_ctx[k]]
  BY <1>1, <1>2, CommittedImage DEF ReservationInv, TypeInv, TypeOK
<1>4. \A u \in Thread : AddedNames(u)' = AddedNames(u)
  BY <1>1 DEF AddedNames
<1>5. \A u \in Thread : \A n \in 1 .. Len(work'[u]) :
        work'[u][n].ino # NoInode =>
          <<work'[u][n].name, work'[u][n].ino>> \in NamedFiles
  BY <1>1 DEF ReservationInv, FilesNamed
<1>6. QED
  BY <1>1, <1>3, <1>4, <1>5, QuietStep

(* The registry that init leaves behind satisfies the invariant.           *)
LEMMA InitReservation == Init => ReservationInv
<1> SUFFICES ASSUME Init PROVE ReservationInv
  OBVIOUS
<1>1. TypeInv
  BY InitType
<1>2. /\ mgr = HostRegistry(Host, HostModule)
      /\ \A t \in Thread : work[t] = <<>>
      /\ \A t \in Thread : AddedNames(t) = {}
  BY DEF Init, AddedNames, NoWork
<1>3. /\ mgr.pending = {}
      /\ mgr.failed = {}
      /\ \A k \in Key : mgr.link_ctx[k] = IF k \in Host THEN HostModule[k]
                                          ELSE NoModule
      /\ \A k \in Host : "NODELETE" \in mgr.flags[k]
  BY <1>2, DlopenAssumption DEF HostRegistry
<1>4. \A k \in Key : Registered(mgr, k) => k \in Host
  BY <1>3 DEF Registered, Committed
<1>5. ASSUME NEW k \in Host
      PROVE  /\ image[HostModule[k]].key = k
             /\ image[HostModule[k]].file = HostFile[k]
  <2> DEFINE x == HostModule[k]
             loaded(j) == [key |-> j, file |-> HostFile[j], retains |-> {}]
  <2>1. x \in Module /\ (CHOOSE j \in Host : HostModule[j] = x) = k
    <3>1. x \in Module /\ \A j \in Host : HostModule[j] = x <=> j = k
      BY DlopenAssumption
    <3> HIDE DEF x
    <3> QED BY <3>1
  <2>2. image[x] = IF \E j \in Host : HostModule[j] = x
                   THEN loaded(CHOOSE j \in Host : HostModule[j] = x)
                   ELSE NoImage
    BY <2>1 DEF Init
  <2>3. image[x] = loaded(k)
    BY <2>1, <2>2
  <2> QED BY <2>3
<1>6. \A k \in Host : <<k, HostFile[k]>> \in NamedFiles /\ HostFile[k] \in Inode
  BY DlopenAssumption DEF NamedFiles
<1>7. PendingOwned
  BY <1>2, <1>3 DEF PendingOwned
<1>8. FilesNamed
  <2>1. \A t \in Thread : \A n \in 1 .. Len(work[t]) : FALSE
    BY <1>2
  <2>2. \A k \in Key : Committed(mgr, k) =>
          /\ image[mgr.link_ctx[k]].key = k
          /\ <<k, image[mgr.link_ctx[k]].file>> \in NamedFiles
    BY <1>3, <1>4, <1>5, <1>6 DEF Registered
  <2> QED BY <1>2, <2>1, <2>2 DEF FilesNamed
<1>9. IdentityKnown
  BY <1>2, <1>4 DEF IdentityKnown, Registered
<1>10. HostKept
  <2>1. \A k \in Host : Committed(mgr, k)
    BY <1>3, DlopenAssumption, RegistryAssumption DEF Committed
  <2>2. \A t \in Thread : pc[t] # "resolve_path"
    BY DEF Init
  <2> QED BY <1>3, <2>1, <2>2 DEF HostKept
<1>11. QED
  BY <1>1, <1>3, <1>7, <1>8, <1>9, <1>10
     DEF ReservationInv, NeverAlreadyRegistered

(* The reservation protocol is kept by every step that does not fail the   *)
(* assertion of add_pending_reservation, as long as what a drop looks at   *)
(* is what its handle refers to.                                           *)
LEMMA NextUnlessClash ==
  ReservationInv /\ HandlesResident /\ [Next]_vars /\ NeverAlreadyRegistered'
    => ReservationInv'
<1> SUFFICES ASSUME ReservationInv, HandlesResident, [Next]_vars,
                    NeverAlreadyRegistered'
             PROVE  ReservationInv'
  OBVIOUS
<1>0. TypeInv' /\ HostKept'
  BY NextType, NextHost DEF ReservationInv
<1>1. ASSUME NEW t \in Thread, Step(t) PROVE ReservationInv'
  <2>1. CASE ExistingByName(t)
    BY <1>0, <2>1, ExistingByNameReservation
  <2>2. CASE ExistingByInode(t)
    BY <1>0, <2>2, ExistingByInodeReservation
  <2>3. CASE ResolveByName(t)
    BY <1>0, <2>3, ResolveByNameReservation
  <2>4. CASE ResolveByPath(t)
    BY <1>0, <2>4, ResolveByPathReservation
  <2>5. CASE PrepareRelocation(t)
    <3>1. UNCHANGED <<mgr, image, work, added>>
      BY <2>5 DEF PrepareRelocation
    <3> QED BY <1>0, <3>1, UnchangedReservation
  <2>6. CASE Relocate(t)
    <3>1. UNCHANGED <<mgr, image, work, added>>
      BY <2>6 DEF Relocate
    <3> QED BY <1>0, <3>1, UnchangedReservation
  <2>7. CASE Merge(t)
    BY <1>0, <2>7, MergeReservation
  <2>8. CASE Rollback(t)
    BY <1>0, <2>8, RollbackReservation
  <2>9. CASE DropFields(t)
    BY <1>0, <2>9, DropFieldsReservation
  <2>10. QED
    BY <1>1, <2>1, <2>2, <2>3, <2>4, <2>5, <2>6, <2>7, <2>8, <2>9 DEF Step
<1>2. ASSUME NEW t \in Thread, NEW r \in Request, Begin(t, r)
      PROVE  ReservationInv'
  <2>1. UNCHANGED <<mgr, image, work, added>>
    BY <1>2 DEF Begin
  <2> QED BY <1>0, <2>1, UnchangedReservation
<1>3. ASSUME NEW t \in Thread, NEW k \in Key, HandleOn(t, k)
      PROVE  ReservationInv'
  <2>1. UNCHANGED <<mgr, image, work, added>>
    BY <1>3 DEF HandleOn
  <2> QED BY <1>0, <2>1, UnchangedReservation
<1>4. ASSUME NEW t \in Thread, NEW h \in Handle, Clone(t, h)
      PROVE  ReservationInv'
  <2>1. UNCHANGED <<mgr, image, work, added>>
    BY <1>4 DEF Clone
  <2> QED BY <1>0, <2>1, UnchangedReservation
<1>5. ASSUME NEW t \in Thread, NEW h \in Handle, Drop(t, h)
      PROVE  ReservationInv'
  BY <1>0, <1>5, DropReservation
<1>6. CASE UNCHANGED vars
  <2>1. UNCHANGED <<mgr, image, work, added>>
    BY <1>6 DEF vars
  <2> QED BY <1>0, <2>1, UnchangedReservation
<1>7. Main \in Key
  BY DlopenAssumption
<1>8. QED
  BY <1>1, <1>2, <1>3, <1>4, <1>5, <1>6, <1>7 DEF Next, This, Addr2dso

(* Which step fails the assertion: a file that the identity table does not *)
(* know is about to be loaded under a name that is registered.             *)
Clashes(t) ==
  /\ pc[t] = "resolve_path"
  /\ Registered(mgr, Head(work[t]).name)
  /\ LookupByIdentity(mgr, Head(work[t]).ino) = NoKey

LEMMA WhoClashes ==
  ASSUME ReservationInv, HandlesResident, [Next]_vars, ~NeverAlreadyRegistered'
  PROVE  \E t \in Thread : Clashes(t)
<1>0. TypeInv' /\ HostKept' /\ TypeInv /\ NeverAlreadyRegistered
  BY NextType, NextHost DEF ReservationInv
<1>1. mgr' # mgr
  BY <1>0 DEF NeverAlreadyRegistered
<1>2. ASSUME NEW t \in Thread, ResolveByPath(t) PROVE Clashes(t)
  <2> DEFINE w == Head(work[t])
  <2>1. /\ mgr \in Manager /\ work[t] \in Seq(Work) /\ work[t] # <<>>
        /\ w.ino # NoInode /\ pc[t] = "resolve_path"
    BY <1>2 DEF ResolveByPath, ReservationInv, TypeInv, TypeOK, Session
  <2>2. w \in Work /\ w.name \in Key /\ w.ino \in Inode
    <3>1. w \in Work
      BY <2>1
    <3> QED BY <2>1, <3>1 DEF Work
  <2>3. req[t].flags \in SUBSET Flag
    BY RequestFlags DEF ReservationInv, TypeInv
  <2>4. CASE /\ LookupByIdentity(mgr, w.ino) # NoKey
             /\ mgr' = AddAlias(mgr, LookupByIdentity(mgr, w.ino), w.name)
    <3> DEFINE c == LookupByIdentity(mgr, w.ino)
    <3>1. c \in Key
      BY <2>1, <2>2, <2>4, IdentityType
    <3> HIDE DEF c
    <3>2. mgr'.failed = mgr.failed
      BY <2>1, <2>2, <2>4, <3>1, AddAliasesFacts DEF AddAlias, c
    <3> QED BY <1>0, <3>2 DEF NeverAlreadyRegistered
  <2>5. CASE /\ LookupByIdentity(mgr, w.ino) = NoKey
             /\ mgr' = ReservePending(mgr, w.name, w.ino, req[t].flags)
    <3>1. Registered(mgr, w.name)
      BY <1>0, <2>1, <2>2, <2>3, <2>5, ReservePendingChecks DEF NeverAlreadyRegistered
    <3> QED BY <2>1, <2>5, <3>1 DEF Clashes
  <2> QED BY <1>1, <1>2, <2>4, <2>5 DEF ResolveByPath, Wait
<1>3. ASSUME \/ \E t \in Thread : \/ ExistingByName(t) \/ ExistingByInode(t)
                                 \/ ResolveByName(t) \/ PrepareRelocation(t)
                                 \/ Relocate(t) \/ Merge(t) \/ Rollback(t)
                                 \/ DropFields(t)
             \/ \E t \in Thread, r \in Request : Begin(t, r)
             \/ \E t \in Thread, k \in Key : HandleOn(t, k)
             \/ \E t \in Thread, h \in Handle : Clone(t, h) \/ Drop(t, h)
             \/ UNCHANGED vars
      PROVE  FALSE
  <2>1. NeverAlreadyRegistered'
    <3>1. CASE \E t \in Thread : ExistingByName(t) \/ ExistingByInode(t)
      BY <1>0, <3>1, ExistingByNameReservation, ExistingByInodeReservation
         DEF ReservationInv
    <3>2. CASE \E t \in Thread : Merge(t) \/ Rollback(t)
      BY <1>0, <3>2, MergeReservation, RollbackReservation DEF ReservationInv
    <3>3. CASE \E t \in Thread, h \in Handle : Drop(t, h)
      BY <1>0, <3>3, DropReservation DEF ReservationInv
    <3>4. CASE \E t \in Thread : \/ ResolveByName(t) \/ PrepareRelocation(t)
                                 \/ Relocate(t) \/ DropFields(t)
      BY <1>1, <3>4, Zenon DEF ResolveByName, PrepareRelocation, Relocate,
         DropFields, Wait
    <3>5. CASE \E t \in Thread, r \in Request : Begin(t, r)
      BY <1>1, <3>5 DEF Begin
    <3>6. CASE \E t \in Thread, k \in Key : HandleOn(t, k)
      BY <1>1, <3>6 DEF HandleOn
    <3>7. CASE \E t \in Thread, h \in Handle : Clone(t, h)
      BY <1>1, <3>7 DEF Clone
    <3>8. CASE UNCHANGED vars
      BY <1>1, <3>8 DEF vars
    <3> QED BY <1>3, <3>1, <3>2, <3>3, <3>4, <3>5, <3>6, <3>7, <3>8
  <2> QED BY <2>1
<1>4. Main \in Key
  BY DlopenAssumption
<1>5. \E t \in Thread : ResolveByPath(t)
  BY <1>3, <1>4 DEF Next, Step, This, Addr2dso
<1>6. QED
  BY <1>2, <1>5

(* If no two files share a shortname, no step fails the assertion.         *)
LEMMA NextReservation ==
  ASSUME OneFilePerName
  PROVE  ReservationInv /\ HandlesResident /\ [Next]_vars => ReservationInv'
<1> SUFFICES ASSUME ReservationInv, HandlesResident, [Next]_vars
             PROVE  ReservationInv'
  OBVIOUS
<1>1. ASSUME NEW t \in Thread, Clashes(t) PROVE FALSE
  <2> DEFINE w == Head(work[t])
  <2>1. /\ pc[t] = "resolve_path" /\ Registered(mgr, w.name)
        /\ LookupByIdentity(mgr, w.ino) = NoKey
        /\ work[t] \in Seq(Work) /\ work[t] # <<>> /\ w.ino # NoInode
        /\ w.name \notin Host
    BY <1>1 DEF Clashes, ReservationInv, TypeInv, TypeOK, Session, HostKept
  <2>2. w \in Work /\ w = work[t][1] /\ 1 \in 1 .. Len(work[t])
    BY <2>1
  <2>3. w.name \in Key /\ w.ino \in Inode
    BY <2>1, <2>2 DEF Work
  <2> HIDE DEF w
  <2>4. <<w.name, w.ino>> \in NamedFiles
    BY <2>1, <2>2 DEF ReservationInv, FilesNamed
  <2> QED BY <2>1, <2>3, <2>4, UnknownFile
<1>2. NeverAlreadyRegistered'
  BY <1>1, WhoClashes
<1>3. QED
  BY <1>2, NextUnlessClash

(* Entries have the files that their names lead to, and the identity index *)
(* knows one name per file.                                                *)
LEMMA ReservationFiles == ReservationInv => OneEntryPerFile
<1> SUFFICES ASSUME ReservationInv PROVE OneEntryPerFile
  OBVIOUS
<1> DEFINE committed == {<<k, image[mgr.link_ctx[k]].file>> :
                           k \in {k \in Key \ Host : Committed(mgr, k)}}
           reserved == UNION {{<<k, added[t][k]>> : k \in AddedNames(t)} :
                                t \in Thread}
           Owner(p) == mgr.identities[p[2]] = p[1]
<1>1. ASSUME NEW p \in committed PROVE Owner(p)
  BY DEF ReservationInv, IdentityKnown
<1>2. ASSUME NEW p \in reserved PROVE Owner(p)
  <2> PICK t \in Thread : p \in {<<k, added[t][k]>> : k \in AddedNames(t)}
    OBVIOUS
  <2> PICK k \in AddedNames(t) : p = <<k, added[t][k]>>
    OBVIOUS
  <2>1. mgr.identities[added[t][k]] = k
    BY DEF ReservationInv, IdentityKnown
  <2> QED BY <2>1
<1> HIDE DEF committed, reserved
<1>3. ASSUME NEW p \in committed \cup reserved, NEW q \in committed \cup reserved,
             p[2] = q[2]
      PROVE  p[1] = q[1]
  <2>1. Owner(p) /\ Owner(q)
    BY <1>1, <1>2
  <2> QED BY <1>3, <2>1
<1>4. QED
  BY <1>3 DEF OneEntryPerFile, committed, reserved

(* The reservation protocol of concurrent dlopens, for any number of       *)
(* threads, names, files and dependencies.  If no two files share a        *)
(* shortname and no open handle loses a library beneath it, then every     *)
(* reservation has exactly one dlopen that will commit it or roll it back, *)
(* add_pending_reservation's assertion never fails, and a file is never    *)
(* registered under two names, although the lock is let go in every wait   *)
(* and during relocation.                                                  *)
THEOREM ReservationSafe ==
  ASSUME OneFilePerName
  PROVE  Spec /\ []HandlesResident
           => [](PendingOwned /\ NeverAlreadyRegistered /\ OneEntryPerFile)
<1>1. Init => ReservationInv
  BY InitReservation
<1>2. ReservationInv /\ HandlesResident /\ [Next]_vars => ReservationInv'
  BY NextReservation
<1>3. ReservationInv => PendingOwned /\ NeverAlreadyRegistered /\ OneEntryPerFile
  BY ReservationFiles DEF ReservationInv
<1>4. QED
  BY <1>1, <1>2, <1>3, PTL DEF Spec

(* A failed assertion stays recorded.                                      *)
LEMMA PromoteFails ==
  ASSUME NEW m \in Manager, NEW k, NEW fl
  PROVE  m.failed \subseteq Promote(m, k, fl).failed
<1> DEFINE fs == [m.flags EXCEPT ![k] = m.flags[k]
                                         \cup (fl \cap {"GLOBAL", "NODELETE"})]
           gl == IF "GLOBAL" \in fl THEN m.global \cup {k} ELSE m.global
           fd == IF "GLOBAL" \in fl /\ k \in m.global
                 THEN m.failed \cup {"already in global scope"} ELSE m.failed
<1>1. \/ Promote(m, k, fl) = m
      \/ Promote(m, k, fl) = [m EXCEPT !.flags = fs, !.global = gl,
                                       !.failed = fd]
  BY DEF Promote, Manager
<1>2. m.failed \subseteq fd
  OBVIOUS
<1> HIDE DEF fs, gl, fd
<1>3. QED
  BY <1>1, <1>2 DEF Manager

LEMMA FailuresStay ==
  TypeInv /\ [Next]_vars => (NeverAlreadyRegistered' => NeverAlreadyRegistered)
<1> SUFFICES ASSUME TypeInv, [Next]_vars PROVE mgr.failed \subseteq mgr'.failed
  BY DEF NeverAlreadyRegistered
<1>0. mgr \in Manager /\ Main \in Key
  BY DlopenAssumption DEF TypeInv, TypeOK
<1>1. ASSUME NEW t \in Thread, Step(t) PROVE mgr.failed \subseteq mgr'.failed
  <2>0. req[t].flags \in SUBSET Flag
    BY RequestFlags DEF TypeInv
  <2>1. CASE ExistingByName(t)
    <3>1. \/ mgr' = mgr
          \/ mgr' = Promote(mgr, Lookup(mgr, req[t].key), req[t].flags)
      BY <2>1 DEF ExistingByName, Wait, FinishExisting
    <3> QED BY <1>0, <3>1, PromoteFails
  <2>2. CASE ExistingByInode(t)
    <3> DEFINE r == req[t]
               c == LookupByIdentity(mgr, r.ino)
               m == AddAlias(mgr, c, r.key)
    <3>1. \/ mgr' = mgr
          \/ /\ r.ino # NoInode /\ c # NoKey
             /\ mgr' = Promote(m, c, r.flags)
      BY <2>2 DEF ExistingByInode, LinkRoot, Wait, FinishExisting
    <3>2. req[t] \in Request
      BY <2>2 DEF ExistingByInode, TypeInv, Session, Opening
    <3>3. ASSUME r.ino # NoInode, c # NoKey
          PROVE  m \in Manager /\ m.failed = mgr.failed
      <4>1. c \in Key /\ r.key \in Key
        BY <1>0, <3>2, <3>3, RequestType, IdentityType
      <4> HIDE DEF c
      <4> QED BY <1>0, <4>1, AddAliasesFacts DEF AddAlias
    <3> HIDE DEF m, c
    <3> QED BY <3>1, <3>3, PromoteFails
  <2>3. CASE ResolveByPath(t)
    <3> DEFINE w == Head(work[t])
               c == LookupByIdentity(mgr, w.ino)
    <3>1. /\ work[t] \in Seq(Work) /\ work[t] # <<>> /\ w.ino # NoInode
      BY <2>3 DEF ResolveByPath, TypeInv, TypeOK, Session
    <3>2. w \in Work
      BY <3>1
    <3>3. w.name \in Key /\ w.ino \in Inode
      BY <3>1, <3>2 DEF Work
    <3> HIDE DEF w
    <3>4. \/ mgr' = mgr
          \/ c # NoKey /\ mgr' = AddAlias(mgr, c, w.name)
          \/ mgr' = ReservePending(mgr, w.name, w.ino, req[t].flags)
      BY <2>3 DEF ResolveByPath, Wait, w
    <3>5. c # NoKey => c \in Key
      BY <1>0, <3>3, IdentityType
    <3> HIDE DEF c
    <3>6. CASE c # NoKey /\ mgr' = AddAlias(mgr, c, w.name)
      BY <1>0, <3>3, <3>5, <3>6, AddAliasesFacts DEF AddAlias
    <3>7. CASE mgr' = ReservePending(mgr, w.name, w.ino, req[t].flags)
      BY <1>0, <2>0, <3>3, <3>7, ReservePendingChecks
    <3> QED BY <3>4, <3>6, <3>7
  <2>4. CASE Merge(t)
    <3>1. PICK new : mgr' = MergeLinkContext(mgr, AddedNames(t), new, added[t],
                                             deps[t], req[t].flags)
      BY <2>4 DEF Merge
    <3> QED BY <3>1 DEF MergeLinkContext
  <2>5. CASE Rollback(t)
    <3>1. mgr' = RemoveAll(mgr, AddedNames(t))
      BY <2>5 DEF Rollback
    <3> QED BY <3>1 DEF RemoveAll
  <2>6. CASE ResolveByName(t) \/ PrepareRelocation(t) \/ Relocate(t) \/ DropFields(t)
    <3>1. mgr' = mgr
      BY <2>6, Zenon DEF ResolveByName, PrepareRelocation, Relocate, DropFields, Wait
    <3> QED BY <3>1
  <2>7. QED
    BY <1>1, <2>1, <2>2, <2>3, <2>4, <2>5, <2>6 DEF Step
<1>2. ASSUME NEW t \in Thread, NEW h \in Handle, Drop(t, h)
      PROVE  mgr.failed \subseteq mgr'.failed
  <2>1. mgr' = RemoveAll(mgr, {image[x].key : x \in Unloaded(handle[h])})
    BY <1>2 DEF Drop
  <2> QED BY <2>1 DEF RemoveAll
<1>3. ASSUME \/ \E t \in Thread, r \in Request : Begin(t, r)
             \/ \E t \in Thread, k \in Key : HandleOn(t, k)
             \/ \E t \in Thread, h \in Handle : Clone(t, h)
             \/ UNCHANGED vars
      PROVE  mgr.failed \subseteq mgr'.failed
  BY <1>3 DEF Begin, HandleOn, Clone, vars
<1>4. QED
  BY <1>0, <1>1, <1>2, <1>3 DEF Next, This, Addr2dso

(* The files that are registered under a name lead to it, and only they.   *)
LEMMA ClashesOther ==
  ASSUME ReservationInv, NEW t \in Thread, Clashes(t)
  PROVE  ClashesWithOther(t)
<1> DEFINE w == Head(work[t])
<1>1. /\ pc[t] = "resolve_path" /\ Registered(mgr, w.name)
      /\ LookupByIdentity(mgr, w.ino) = NoKey
      /\ work[t] \in Seq(Work) /\ work[t] # <<>> /\ w.ino # NoInode
      /\ w.name \notin Host /\ mgr \in Manager
  BY DEF Clashes, ReservationInv, TypeInv, TypeOK, Session, HostKept
<1>2. w \in Work
  BY <1>1
<1>3. w.name \in Key \ Host /\ w.ino \in Inode
  BY <1>1, <1>2 DEF Work
<1> HIDE DEF w
<1>4. FilesOf(w.name) # {}
  <2>1. CASE Committed(mgr, w.name)
    BY <2>1 DEF FilesOf
  <2>2. CASE w.name \in mgr.pending
    <3>1. \E u \in Thread : w.name \in AddedNames(u)
      BY <2>2 DEF ReservationInv, PendingOwned
    <3> QED BY <3>1 DEF FilesOf
  <2> QED BY <1>1, <2>1, <2>2 DEF Registered
<1>5. ASSUME w.ino \in FilesOf(w.name) PROVE FALSE
  <2>1. mgr.identities[w.ino] = w.name
    BY <1>3, <1>5 DEF FilesOf, ReservationInv, IdentityKnown
  <2> QED BY <1>1, <1>3, <2>1, UnknownIdentity
<1>6. QED
  BY <1>1, <1>4, <1>5 DEF ClashesWithOther, w

(* Without any assumption on the files: until add_pending_reservation's    *)
(* assertion fails for the first time, every reservation has exactly one   *)
(* dlopen under way and a file is registered under one name; and that      *)
(* assertion fails only in an open whose name has been given to another    *)
(* file, so never because of the lock that the open lets go between its    *)
(* lookup of the name and the reservation alone.                           *)
THEOREM OnlyOtherFilesCollide ==
  Spec /\ [](NeverAlreadyRegistered => HandlesResident)
    => /\ [](NeverAlreadyRegistered => PendingOwned /\ OneEntryPerFile)
       /\ OnlyOtherFilesClash
<1> DEFINE Inv == TypeInv /\ (NeverAlreadyRegistered => ReservationInv)
           Clash == ~NeverAlreadyRegistered' /\ NeverAlreadyRegistered =>
                      \E t \in Thread : ClashesWithOther(t)
<1>1. Init => Inv
  BY InitReservation, InitType
<1>2. TypeInv /\ [Next]_vars => (NeverAlreadyRegistered' => NeverAlreadyRegistered)
  BY FailuresStay
<1>3. /\ Inv /\ (NeverAlreadyRegistered => HandlesResident) /\ [Next]_vars
      => Inv'
  BY <1>2, NextUnlessClash, NextType
<1>4. Inv /\ (NeverAlreadyRegistered => HandlesResident) /\ [Next]_vars
        => Clash
  <2> SUFFICES ASSUME ReservationInv, HandlesResident, [Next]_vars,
                      ~NeverAlreadyRegistered'
               PROVE  \E t \in Thread : ClashesWithOther(t)
    OBVIOUS
  <2> PICK t \in Thread : Clashes(t)
    BY WhoClashes
  <2> QED BY ClashesOther
<1>5. Inv => (NeverAlreadyRegistered => PendingOwned /\ OneEntryPerFile)
  BY ReservationFiles DEF ReservationInv
<1>6. Clash => [Clash]_vars
  OBVIOUS
<1>7. QED
  BY <1>1, <1>3, <1>4, <1>5, PTL DEF Spec, OnlyOtherFilesClash

(* A file is never registered under two names, whichever of its names are  *)
(* opened at once.                                                         *)
THEOREM MappedOnce ==
  ASSUME OneFilePerName
  PROVE  Spec /\ []HandlesResident => []OneEntryPerFile
<1>1. QED
  BY ReservationSafe, PTL
=============================================================================
