------------------------------ MODULE Registry ------------------------------
(***************************************************************************)
(* The global library manager of dlopen-rs: the struct Manager that the    *)
(* static MANAGER protects with a readers-writer lock, and its methods.    *)
(*                                                                         *)
(* A manager is a record; every method is an operator from a manager to a  *)
(* manager, so that a caller that makes several calls under one lock (an   *)
(* inode hit records an alias and then promotes the library) composes      *)
(* them.  Module Dlopen holds the manager in a variable and runs threads   *)
(* against it.                                                             *)
(*                                                                         *)
(* A shortname (the last component of a path) is a Key, a file identity    *)
(* (device and inode) an Inode, a loaded library image a Module.  IndexMap *)
(* and LinkContext entries are functions on Key; a key that has no entry   *)
(* maps to a default, so that equal managers are equal records.            *)
(***************************************************************************)
EXTENDS Integers, FiniteSets

CONSTANTS
  Key,        \* shortnames
  Inode,      \* file identities
  Module,     \* identities for library images, reused once an image is gone
  NoKey, NoInode, NoModule,
  Pinned,     \* names that normalized_flags makes RTLD_NODELETE
  Compat,     \* Compat[k]: the names libc_compat_aliases gives to k
  CounterMod  \* adds and subs are u64 counters; kept modulo this number

ASSUME RegistryAssumption ==
  /\ IsFiniteSet(Key)
  /\ NoKey \notin Key
  /\ NoInode \notin Inode
  /\ NoModule \notin Module
  /\ Pinned \subseteq Key
  /\ Compat \in [Key -> SUBSET Key]
  /\ \A j, k \in Key : j # k => Compat[j] \cap Compat[k] = {}
  /\ CounterMod \in Nat \ {0}

(* The flags whose effect is modelled.  RTLD_LOCAL is the empty set; LAZY, *)
(* NOW and DEEPBIND only steer symbol relocation.                          *)
Flag == {"GLOBAL", "NODELETE", "NOLOAD"}

(* The run-time checks of the manager: three debug_assert!s and a panic.   *)
(* Two more cannot fail, whoever calls: add_alias is given a canonical     *)
(* name that was looked up or reserved under the same lock, and merge ends *)
(* with every module it was given.  They are not recorded.                 *)
Check == {"already in global scope", "already registered",
          "inconsistent global scope", "not registered"}

(* struct Manager.  A committed library is an entry of link_ctx: its       *)
(* module, its GlobalMeta (flags, libnames) and its direct dependencies.   *)
(* A pending one is a PendingDylib reservation (pflags, pnames).  failed   *)
(* collects the checks that a call has found false.                        *)
Manager ==
  [pending    : SUBSET Key,
   pflags     : [Key -> SUBSET Flag],
   pnames     : [Key -> SUBSET Key],
   link_ctx   : [Key -> Module \cup {NoModule}],
   flags      : [Key -> SUBSET Flag],
   libnames   : [Key -> SUBSET Key],
   direct     : [Key -> SUBSET Key],
   global     : SUBSET Key,
   aliases    : [Key -> Key \cup {NoKey}],
   identities : [Inode -> Key \cup {NoKey}],
   adds       : 0 .. CounterMod - 1,
   subs       : 0 .. CounterMod - 1,
   failed     : SUBSET Check]

(* The counters only grow, by one at a time; what is said of them is said  *)
(* of differences, so the model keeps their remainders.                    *)
Count(n) == n % CounterMod

-----------------------------------------------------------------------------
(* Lookups.                                                                *)

Committed(m, k) == m.link_ctx[k] # NoModule

Registered(m, k) == k \in m.pending \/ Committed(m, k)

Uncommitted(m, S) == {k \in S : ~Committed(m, k)}

(* A fault of Lookup: reservations are overlooked.                         *)
LookupCommittedOnly(m, name) ==
  IF Committed(m, name) THEN name
  ELSE IF m.aliases[name] # NoKey /\ Committed(m, m.aliases[name])
       THEN m.aliases[name]
       ELSE NoKey

(* lookup: the canonical name behind a name, through the aliases if the    *)
(* name itself is no key.  Whether the library is relocated or pending is  *)
(* Committed of the result.                                                *)
Lookup(m, name) ==
  IF Registered(m, name) THEN name
  ELSE IF m.aliases[name] # NoKey /\ Registered(m, m.aliases[name])
       THEN m.aliases[name]
       ELSE NoKey

Found(m, name) == Lookup(m, name) # NoKey

(* A fault of LookupByIdentity: a file that is still being loaded is not   *)
(* recognised.                                                             *)
CommittedByIdentity(m, ino) ==
  LET k == m.identities[ino]
  IN  IF k = NoKey \/ ~Committed(m, k) THEN NoKey ELSE k

LookupByIdentity(m, ino) ==
  IF m.identities[ino] = NoKey THEN NoKey ELSE Lookup(m, m.identities[ino])

(* visible_contains: a committed library answers to the name.              *)
VisibleContains(m, name) == Found(m, name) /\ Committed(m, Lookup(m, name))

FlagsOf(m, name) ==
  LET c == Lookup(m, name)
  IN  IF Committed(m, c) THEN m.flags[c] ELSE m.pflags[c]

NormalizedFlags(k, fl) == IF k \in Pinned THEN fl \cup {"NODELETE"} ELSE fl

(* What is reachable from S through R in any number of steps.              *)
Reach(S, R) ==
  LET more(T) == T \cup UNION {R[x] : x \in T}
      step[n \in Nat] == IF n = 0 THEN S ELSE more(step[n - 1])
  IN  S \cup step[Cardinality(DOMAIN R)]

(* The images of the committed libraries among S.                          *)
ImagesOf(m, S) ==
  {m.link_ctx[k] : k \in {k \in Key : k \in S /\ Committed(m, k)}}

(* library_scope_by_id: the committed libraries that the link context      *)
(* reaches from k through recorded direct dependencies, k included.        *)
LibraryScope(m, k) ==
  LET edge == [x \in Key |-> {y \in m.direct[x] : Committed(m, y)}]
  IN  ImagesOf(m, Reach({k}, edge))

-----------------------------------------------------------------------------
(* Updates.                                                                *)

(* A fault of AddAliases: the library does not list its aliases.           *)
AddAliasesUnlisted(m, canonical, S) ==
  LET new == {a \in S : ~Registered(m, a) /\ m.aliases[a] = NoKey}
  IN  [m EXCEPT
         !.aliases = [a \in Key |-> IF a \in new THEN canonical ELSE @[a]]]

(* add_alias for every name of S.  A name that is a key, or already an     *)
(* alias, is skipped.                                                      *)
AddAliases(m, canonical, S) ==
  LET new == {a \in S : ~Registered(m, a) /\ m.aliases[a] = NoKey}
  IN  [m EXCEPT
         !.aliases  = [a \in Key |-> IF a \in new THEN canonical ELSE @[a]],
         !.pnames   = [k \in Key |-> IF k = canonical /\ k \in m.pending
                                     THEN @[k] \cup new ELSE @[k]],
         !.libnames = [k \in Key |-> IF k = canonical /\ k \notin m.pending
                                     THEN @[k] \cup new ELSE @[k]]]

AddAlias(m, canonical, alias) == AddAliases(m, canonical, {alias})

(* reserve_pending: the reservation, its identity and its compat aliases.  *)
ReservePending(m, k, ino, fl) ==
  LET reserved ==
        [m EXCEPT
           !.pending    = @ \cup {k},
           !.pflags     = [@ EXCEPT ![k] = NormalizedFlags(k, fl)],
           !.pnames     = [@ EXCEPT ![k] = {}],
           !.identities = [@ EXCEPT ![ino] = k],
           !.adds       = Count(@ + 1),
           !.failed     = IF Registered(m, k)
                          THEN @ \cup {"already registered"} ELSE @]
  IN  AddAliases(reserved, k, Compat[k])

(* remove, called for every key of S: from pending if it is there, else    *)
(* from link_ctx; then from global, aliases and identities.                *)
RemoveAll(m, S) ==
  LET P == S \cap m.pending
      C == {k \in S \ P : Committed(m, k)}
      names == UNION ({m.pnames[k] : k \in P} \cup {m.libnames[k] : k \in C})
  IN  [pending    |-> m.pending \ P,
       pflags     |-> [k \in Key |-> IF k \in P THEN {} ELSE m.pflags[k]],
       pnames     |-> [k \in Key |-> IF k \in P THEN {} ELSE m.pnames[k]],
       link_ctx   |-> [k \in Key |-> IF k \in C THEN NoModule
                                     ELSE m.link_ctx[k]],
       flags      |-> [k \in Key |-> IF k \in C THEN {} ELSE m.flags[k]],
       libnames   |-> [k \in Key |-> IF k \in C THEN {} ELSE m.libnames[k]],
       direct     |-> [k \in Key |-> IF k \in C THEN {} ELSE m.direct[k]],
       global     |-> m.global \ (P \cup C),
       aliases    |-> [a \in Key |-> IF a \in names THEN NoKey
                                     ELSE m.aliases[a]],
       identities |-> [i \in Inode |-> IF m.identities[i] \in P \cup C
                                       THEN NoKey ELSE m.identities[i]],
       adds       |-> m.adds,
       subs       |-> Count(m.subs + Cardinality(P \cup C)),
       failed     |-> m.failed
         \cup {c \in {"inconsistent global scope"} :
                 \E k \in C : ("GLOBAL" \in m.flags[k]) # (k \in m.global)}
         \cup {c \in {"not registered"} : S # P \cup C}]

(* A fault of Promote: the flag is raised, the global scope is not.        *)
PromoteFlagsOnly(m, k, fl) ==
  [m EXCEPT !.flags = [@ EXCEPT ![k] = @ \cup (fl \cap {"GLOBAL", "NODELETE"})]]

(* promote: the open of a library that is already committed.               *)
Promote(m, k, fl) ==
  LET promotable == fl \cap {"GLOBAL", "NODELETE"}
      add_global == "GLOBAL" \in fl
  IN  IF promotable \subseteq m.flags[k] THEN m
      ELSE [m EXCEPT
              !.flags  = [@ EXCEPT ![k] = m.flags[k] \cup promotable],
              !.global = IF add_global THEN @ \cup {k} ELSE @,
              !.failed = IF add_global /\ k \in m.global
                         THEN @ \cup {"already in global scope"} ELSE @]

(* merge_link_context: publish the libraries of one dlopen.  module, file  *)
(* and deps give the image, the identity and the resolved direct           *)
(* dependencies of each key of S.                                          *)
MergeLinkContext(m, S, module, file, deps, fl) ==
  LET new == Uncommitted(m, S)
      meta(k) == IF k \in m.pending THEN m.pflags[k]
                 ELSE NormalizedFlags(k, fl)
      entered == [k \in Key |-> IF k \in new THEN module[k]
                                ELSE m.link_ctx[k]]
      free(k) == {a \in Compat[k] : /\ a \notin m.pending
                                    /\ entered[a] = NoModule
                                    /\ m.aliases[a] = NoKey}
  IN  [pending    |-> m.pending \ new,
       pflags     |-> [k \in Key |-> IF k \in new THEN {} ELSE m.pflags[k]],
       pnames     |-> [k \in Key |-> IF k \in new THEN {} ELSE m.pnames[k]],
       link_ctx   |-> entered,
       flags      |-> [k \in Key |-> IF k \in new THEN meta(k) ELSE m.flags[k]],
       libnames   |-> [k \in Key |-> IF k \in new THEN m.pnames[k] \cup free(k)
                                     ELSE m.libnames[k]],
       direct     |-> [k \in Key |-> IF k \in new THEN deps[k]
                                     ELSE m.direct[k]],
       global     |-> m.global \cup {k \in new : "GLOBAL" \in meta(k)},
       aliases    |-> [a \in Key |-> IF \E k \in new : a \in free(k)
                                     THEN CHOOSE k \in new : a \in free(k)
                                     ELSE m.aliases[a]],
       identities |-> [i \in Inode |-> IF \E k \in new : file[k] = i
                                       THEN CHOOSE k \in new : file[k] = i
                                       ELSE m.identities[i]],
       adds       |-> Count(m.adds + Cardinality(new \ m.pending)),
       subs       |-> m.subs,
       failed     |-> IF \E k \in new \cap m.global : "GLOBAL" \in meta(k)
                      THEN m.failed \cup {"already in global scope"}
                      ELSE m.failed]

(* register_loaded, once per host library, then rebuild_link_ctx: the      *)
(* manager that init leaves behind.  from_raw fills in neither the file    *)
(* identity nor the needed libraries of a host library, so the manager     *)
(* knows it by its name only and records no dependencies of it.            *)
HostRegistry(Host, module) ==
  LET owner(a) == {k \in Host : a \in Compat[k] /\ a \notin Host}
  IN  [pending    |-> {},
       pflags     |-> [k \in Key |-> {}],
       pnames     |-> [k \in Key |-> {}],
       link_ctx   |-> [k \in Key |-> IF k \in Host THEN module[k]
                                     ELSE NoModule],
       flags      |-> [k \in Key |-> IF k \in Host
                                     THEN {"GLOBAL", "NODELETE"} ELSE {}],
       libnames   |-> [k \in Key |-> {a \in Key : k \in owner(a)}],
       direct     |-> [k \in Key |-> {}],
       global     |-> Host,
       aliases    |-> [a \in Key |-> IF owner(a) # {}
                                     THEN CHOOSE k \in owner(a) : TRUE
                                     ELSE NoKey],
       identities |-> [i \in Inode |-> NoKey],
       adds       |-> Count(Cardinality(Host)),
       subs       |-> 0,
       failed     |-> {}]
=============================================================================
