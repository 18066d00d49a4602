------------------------------ MODULE LinkMap ------------------------------
(***************************************************************************)
(* The debugger's list of loaded objects (utils/debug.rs): the r_debug     *)
(* structure, its doubly linked list of link maps, and the static DEBUG    *)
(* that caches the tail of the list under a spin lock.                     *)
(*                                                                         *)
(* Threads load libraries (finalize_raw_dylib boxes a link map and adds    *)
(* it) and drop them (Drop for ExtraData unlinks the link map, then the    *)
(* box is freed and its address may be used again).  The list starts as    *)
(* the host linker's, or empty when the crate owns the namespace.  A link  *)
(* map that from_raw copies from the host's is boxed but never added.      *)
(*                                                                         *)
(* At every call of brk a debugger may stop the process and walk the list: *)
(* a step ends there.  DEBUG.debug is never null: it starts as the crate's *)
(* own structure and init_host_debug only puts the host's in its place, so *)
(* the early returns for null are not reached.                             *)
(***************************************************************************)
EXTENDS Integers, Sequences, FiniteSets

CONSTANTS
  Thread, NoThread,
  Node,      \* addresses of link maps
  Null,
  HostLists  \* the lists of link maps the crate may start with

ASSUME LinkMapAssumption ==
  /\ NoThread \notin Thread
  /\ Null \notin Node
  /\ IsFiniteSet(Node)
  /\ HostLists \subseteq Seq(Node)
  /\ \A l \in HostLists :
       \A i, j \in 1 .. Len(l) : l[i] = l[j] => i = j

VARIABLES
  lock,    \* DEBUG
  map,     \* debug.map
  tail,    \* CustomDebug.tail
  state,   \* debug.state
  next,    \* l_next
  prev,    \* l_prev
  box,     \* who owns the memory of a link map
  pc, node,
  stray    \* has the code followed a pointer that is null or freed?

vars == <<lock, map, tail, state, next, prev, box, pc, node, stray>>

RT_CONSISTENT == 0
RT_ADD == 1
RT_DELETE == 2

(* Is p a link map that may be written through?                            *)
Valid(p) == p # Null /\ box[p] # "free"

Store(f, p, v) == IF p = Null THEN f ELSE [f EXCEPT ![p] = v]

-----------------------------------------------------------------------------
(* from_raw: a copy of a host link map, out of the list.                   *)
Copy(n) ==
  /\ \E h \in Node : box[h] = "host"
  /\ box[n] = "free"
  /\ box' = [box EXCEPT ![n] = "boxed"]
  /\ next' = [next EXCEPT ![n] = Null]
  /\ prev' = [prev EXCEPT ![n] = Null]
  /\ UNCHANGED <<lock, map, tail, state, pc, node, stray>>

(* A fault of Add: the cached tail is not moved on.                        *)
AddStaleTail(t, n) ==
  /\ pc[t] = "idle" /\ lock = NoThread /\ box[n] = "free"
  /\ lock' = t
  /\ box' = [box EXCEPT ![n] = "boxed"]
  /\ prev' = [prev EXCEPT ![n] = tail]
  /\ next' = Store([next EXCEPT ![n] = Null], tail, n)
  /\ map' = IF tail = Null THEN n ELSE map
  /\ tail' = IF tail = Null THEN n ELSE tail
  /\ state' = RT_ADD
  /\ stray' = (stray \/ (tail # Null /\ ~Valid(tail)))
  /\ pc' = [pc EXCEPT ![t] = "added"]
  /\ node' = [node EXCEPT ![t] = n]

(* finalize_raw_dylib and add_debug_link_map, up to the first call of brk. *)
Add(t, n) ==
  /\ pc[t] = "idle" /\ lock = NoThread /\ box[n] = "free"
  /\ lock' = t
  /\ box' = [box EXCEPT ![n] = "boxed"]
  /\ prev' = [prev EXCEPT ![n] = tail]
  /\ next' = Store([next EXCEPT ![n] = Null], tail, n)
  /\ map' = IF tail = Null THEN n ELSE map
  /\ tail' = n
  /\ state' = RT_ADD
  /\ stray' = (stray \/ (tail # Null /\ ~Valid(tail)))
  /\ pc' = [pc EXCEPT ![t] = "added"]
  /\ node' = [node EXCEPT ![t] = n]

(* The rest of add_debug_link_map.                                         *)
Added(t) ==
  /\ pc[t] = "added"
  /\ state' = RT_CONSISTENT
  /\ lock' = NoThread
  /\ pc' = [pc EXCEPT ![t] = "idle"]
  /\ node' = [node EXCEPT ![t] = Null]
  /\ UNCHANGED <<map, tail, next, prev, box, stray>>

(* Faults of Unlisted: every link map, or every one without a predecessor, *)
(* is taken for unlisted.                                                  *)
UnlistedNever(n) == FALSE

UnlistedFirst(n) == prev[n] = Null

(* The early return of Drop for ExtraData: the link map was never added.   *)
Unlisted(n) == map # n /\ prev[n] = Null

(* Drop for ExtraData, up to the first call of brk or the early return.    *)
(* The caller owns the box: no other thread drops the same one.            *)
Drop(t, n) ==
  /\ pc[t] = "idle" /\ lock = NoThread
  /\ box[n] = "boxed" /\ \A u \in Thread : node[u] # n
  /\ node' = [node EXCEPT ![t] = n]
  /\ IF Unlisted(n)
     THEN /\ pc' = [pc EXCEPT ![t] = "unlinked"]
          /\ UNCHANGED <<lock, state>>
     ELSE /\ pc' = [pc EXCEPT ![t] = "deleting"]
          /\ lock' = t
          /\ state' = RT_DELETE
  /\ UNCHANGED <<map, tail, next, prev, box, stray>>

(* The match of Drop for ExtraData: which ends of the list move, and the   *)
(* neighbours, followed whenever the link map is not at that end.          *)
Unlink(t) ==
  LET n == node[t]
      first == map = n
      last == tail = n
  IN  /\ pc[t] = "deleting"
      /\ map' = IF first /\ last THEN Null ELSE IF first THEN next[n] ELSE map
      /\ tail' = IF first /\ last THEN Null ELSE IF last THEN prev[n] ELSE tail
      /\ next' = IF first THEN next
                 ELSE Store(next, prev[n], IF last THEN Null ELSE next[n])
      /\ prev' = IF last THEN prev
                 ELSE Store(prev, next[n], IF first THEN Null ELSE prev[n])
      /\ stray' = (stray \/ (~first /\ ~Valid(prev[n]))
                         \/ (~last /\ ~Valid(next[n])))
      /\ state' = RT_CONSISTENT
      /\ lock' = NoThread
      /\ pc' = [pc EXCEPT ![t] = "unlinked"]
      /\ UNCHANGED <<box, node>>

(* The field link_map is dropped: the box is freed.                        *)
Free(t) ==
  /\ pc[t] = "unlinked"
  /\ box' = [box EXCEPT ![node[t]] = "free"]
  /\ pc' = [pc EXCEPT ![t] = "idle"]
  /\ node' = [node EXCEPT ![t] = Null]
  /\ UNCHANGED <<lock, map, tail, state, next, prev, stray>>

-----------------------------------------------------------------------------
(* init_host_debug: the list is taken over from the host, and the tail is  *)
(* where l_next ends.  Without a host list the namespace is the crate's.   *)
InitFrom(host) ==
  LET N == Len(host)
      HostNodes == {host[i] : i \in 1 .. N}
      at(i) == IF i \in 1 .. N THEN host[i] ELSE Null
      position(n) == CHOOSE i \in 1 .. N : host[i] = n
  IN  /\ lock = NoThread
      /\ map = at(1)
      /\ tail = at(N)
      /\ state = RT_CONSISTENT
      /\ next = [n \in Node |-> IF n \in HostNodes THEN at(position(n) + 1)
                                ELSE Null]
      /\ prev = [n \in Node |-> IF n \in HostNodes THEN at(position(n) - 1)
                                ELSE Null]
      /\ box = [n \in Node |-> IF n \in HostNodes THEN "host" ELSE "free"]
      /\ pc = [t \in Thread |-> "idle"]
      /\ node = [t \in Thread |-> Null]
      /\ stray = FALSE

Init == \E host \in HostLists : InitFrom(host)

Next ==
  \/ \E n \in Node : Copy(n)
  \/ \E t \in Thread :
       \/ \E n \in Node : Add(t, n) \/ Drop(t, n)
       \/ Added(t)
       \/ Unlink(t)
       \/ Free(t)

Spec == Init /\ [][Next]_vars

-----------------------------------------------------------------------------
(* Properties.                                                             *)

(* Every pointer is null or a link map's, and r_state is one of the three  *)
(* values a debugger knows.                                                *)
TypeOK ==
  /\ lock \in Thread \cup {NoThread}
  /\ map \in Node \cup {Null}
  /\ tail \in Node \cup {Null}
  /\ state \in {RT_CONSISTENT, RT_ADD, RT_DELETE}
  /\ next \in [Node -> Node \cup {Null}]
  /\ prev \in [Node -> Node \cup {Null}]
  /\ box \in [Node -> {"free", "host", "boxed"}]
  /\ pc \in [Thread -> {"idle", "added", "deleting", "unlinked"}]
  /\ node \in [Thread -> Node \cup {Null}]
  /\ stray \in BOOLEAN

(* The list as a debugger walks it: from debug.map along l_next, for at    *)
(* most as many steps as there are link maps, and one more.                *)
Walk(first, succ) ==
  LET from[i \in Nat] ==
        IF i = 0 THEN [seq |-> <<>>, at |-> first]
        ELSE LET s == from[i - 1]
             IN  IF s.at = Null THEN s
                 ELSE [seq |-> Append(s.seq, s.at), at |-> succ[s.at]]
  IN  from[Cardinality(Node) + 1].seq

Chain == Walk(map, next)

(* Wherever a debugger stops the process it finds a list that ends, at the *)
(* cached tail, that l_prev leads back through, and that holds no link map *)
(* whose memory has been freed.                                            *)
ListWhole ==
  /\ Len(Chain) <= Cardinality(Node)
  /\ \A i \in 1 .. Len(Chain) :
       /\ Valid(Chain[i])
       /\ prev[Chain[i]] = IF i = 1 THEN Null ELSE Chain[i - 1]
  /\ tail = IF Chain = <<>> THEN Null ELSE Chain[Len(Chain)]

(* add_debug_link_map and Drop for ExtraData only write through link maps  *)
(* that exist, although their addresses were stored by other threads.      *)
NoStrayAccess == ~stray

(* The pointer structure implements the sequence a debugger is promised.   *)
List == INSTANCE LinkList WITH list <- Chain

ImplementsList == List!Spec
=============================================================================
