------------------------- MODULE DestructorsProofs -------------------------
(***************************************************************************)
(* Proofs about module Destructors, for any number of threads, libraries   *)
(* and destructors: concurrent finalizes neither lose nor repeat one, each *)
(* calls what it took from the last registered to the first, and a library *)
(* is unmapped with a destructor left only if that one came too late.      *)
(***************************************************************************)
EXTENDS Destructors, FiniteSetTheorems, SequenceTheorems, Induction

Elems(s) == {s[i] : i \in 1 .. Len(s)}

(* Destructors in the order of registration.                               *)
Ascending(s) == s \in Seq(Nat) /\ \A i, j \in 1 .. Len(s) : i < j => s[i] < s[j]

-----------------------------------------------------------------------------
(* The loop of finalize.                                                   *)

(* Appending a later destructor.                                           *)
LEMMA AscendingAppend ==
  ASSUME NEW s, Ascending(s), NEW d \in Nat, \A x \in Elems(s) : x < d
  PROVE  /\ Ascending(Append(s, d))
         /\ Elems(Append(s, d)) = Elems(s) \cup {d}
<1> DEFINE q == Append(s, d)
<1>1. /\ s \in Seq(Nat) /\ Len(s) \in Nat /\ q \in Seq(Nat)
      /\ Len(q) = Len(s) + 1
      /\ \A i \in 1 .. Len(s) : q[i] = s[i] /\ s[i] \in Nat
      /\ q[Len(s) + 1] = d
  BY DEF Ascending
<1>2. 1 .. Len(s) + 1 = (1 .. Len(s)) \cup {Len(s) + 1}
  BY <1>1
<1>3. \A i \in 1 .. Len(s) : s[i] < d
  BY DEF Elems
<1> HIDE DEF q
<1>4. {q[i] : i \in 1 .. Len(q)} = {s[i] : i \in 1 .. Len(s)} \cup {d}
  BY <1>1, <1>2
<1>5. ASSUME NEW i \in 1 .. Len(q), NEW j \in 1 .. Len(q), i < j
      PROVE  q[i] < q[j]
  <2>1. i \in 1 .. Len(s) /\ (j \in 1 .. Len(s) \/ j = Len(s) + 1)
    <3>1. Len(s) \in Nat /\ i \in 1 .. Len(s) + 1 /\ j \in 1 .. Len(s) + 1
      BY <1>1
    <3> QED BY <1>5, <3>1
  <2> QED BY <1>1, <1>3, <1>5, <2>1 DEF Ascending
<1>6. QED
  BY <1>1, <1>4, <1>5 DEF Ascending, Elems, q

(* The loop of finalize keeps the order and the members of S.              *)
LEMMA OnlyKeeps ==
  ASSUME NEW s, Ascending(s), NEW S
  PROVE  Ascending(Only(s, S)) /\ Elems(Only(s, S)) = Elems(s) \cap S
<1>0. /\ s \in Seq(Nat) /\ Len(s) \in Nat
      /\ \A i \in 1 .. Len(s) : s[i] \in Nat
      /\ \A i, j \in 1 .. Len(s) : i < j => s[i] < s[j]
  BY DEF Ascending
<1> PICK f : Filters(f, s, S) /\ Only(s, S) = f[Len(s)]
  BY <1>0, OnlyIterates
<1> DEFINE First(n) == {s[i] : i \in 1 .. n}
           Kept == {n \in Nat : n <= Len(s) =>
                      Ascending(f[n]) /\ Elems(f[n]) = First(n) \cap S}
<1>1. 0 \in Kept
  <2>1. f[0] = <<>>
    BY DEF Filters
  <2>2. Ascending(<<>>) /\ Elems(<<>>) = {}
    BY DEF Ascending, Elems
  <2>3. First(0) = {}
    OBVIOUS
  <2> QED BY <2>1, <2>2, <2>3
<1>2. ASSUME NEW n \in Nat, n \in Kept PROVE n + 1 \in Kept
  <2> SUFFICES ASSUME n + 1 <= Len(s)
               PROVE  /\ Ascending(f[n + 1])
                      /\ Elems(f[n + 1]) = First(n + 1) \cap S
    OBVIOUS
  <2>1. Ascending(f[n]) /\ Elems(f[n]) = First(n) \cap S
    BY <1>0, <1>2
  <2>2. f[n + 1] = IF s[n + 1] \in S THEN Append(f[n], s[n + 1]) ELSE f[n]
    BY DEF Filters
  <2>3. First(n + 1) = First(n) \cup {s[n + 1]}
    <3>1. 1 .. n + 1 = (1 .. n) \cup {n + 1}
      OBVIOUS
    <3> QED BY <3>1
  <2>4. s[n + 1] \in Nat /\ \A x \in First(n) : x < s[n + 1]
    <3>1. n + 1 \in 1 .. Len(s) /\ \A i \in 1 .. n : i \in 1 .. Len(s) /\ i < n + 1
      BY <1>0
    <3> QED BY <1>0, <3>1
  <2> HIDE DEF First
  <2>5. CASE s[n + 1] \in S
    BY <2>1, <2>2, <2>3, <2>4, <2>5, AscendingAppend
  <2>6. CASE s[n + 1] \notin S
    BY <2>1, <2>2, <2>3, <2>6
  <2> QED BY <2>5, <2>6
<1> HIDE DEF Kept
<1>3. Len(s) \in Kept
  BY <1>0, <1>1, <1>2, NatSetInduction
<1>4. Ascending(f[Len(s)]) /\ Elems(f[Len(s)]) = First(Len(s)) \cap S
  BY <1>0, <1>3 DEF Kept
<1>5. QED
  BY <1>4 DEF Elems

(* Taking the last destructor off.                                         *)
LEMMA AscendingShorter ==
  ASSUME NEW s, Ascending(s), s # <<>>
  PROVE  /\ Ascending(Shorter(s))
         /\ s[Len(s)] \in Elems(s)
         /\ Elems(Shorter(s)) = Elems(s) \ {s[Len(s)]}
         /\ \A x \in Elems(s) : x <= s[Len(s)]
<1> DEFINE q == Shorter(s)
           L == Len(s)
<1>1. s \in Seq(Nat) /\ L \in Nat /\ L # 0 /\ L - 1 \in Nat
  BY DEF Ascending
<1>2. /\ \A i \in 1 .. L : s[i] \in Nat
      /\ \A i, j \in 1 .. L : i < j => s[i] < s[j]
  BY <1>1 DEF Ascending
<1>3. /\ q \in Seq(Nat) /\ Len(q) = L - 1
      /\ \A i \in 1 .. L - 1 : q[i] = s[i]
  <2>1. q = SubSeq(s, 1, L - 1) /\ \A i \in 1 .. L - 1 : i \in 1 .. L
    BY <1>1 DEF Shorter
  <2>2. q = [i \in 1 .. L - 1 |-> s[i]]
    BY <1>1, <2>1
  <2>3. q \in [1 .. L - 1 -> Nat]
    BY <1>2, <2>1, <2>2
  <2>4. q \in Seq(Nat)
    BY <1>1, <2>3, SeqDef
  <2> QED BY <1>1, <2>2, <2>4
<1>4. L \in 1 .. L /\ \A i \in 1 .. L - 1 : i \in 1 .. L /\ i < L
  BY <1>1
<1>5. \A i \in 1 .. L : i = L \/ i \in 1 .. L - 1
  BY <1>1
<1> HIDE DEF q, L
<1>6. \A i \in 1 .. L - 1 : s[i] < s[L] /\ s[i] # s[L]
  BY <1>2, <1>4
<1>7. \A x : x \in {q[i] : i \in 1 .. L - 1}
               <=> x \in {s[i] : i \in 1 .. L} /\ x # s[L]
  <2>1. \A i \in 1 .. L - 1 : q[i] \in {s[k] : k \in 1 .. L} /\ q[i] # s[L]
    BY <1>3, <1>4, <1>6
  <2>2. \A i \in 1 .. L : s[i] # s[L] => s[i] \in {q[k] : k \in 1 .. L - 1}
    BY <1>3, <1>5
  <2> QED BY <2>1, <2>2
<1>8. \A i \in 1 .. L : s[i] <= s[L]
  BY <1>2, <1>4, <1>5, <1>6
<1>9. Ascending(q)
  <2>1. \A i, j \in 1 .. L - 1 : i < j => q[i] < q[j]
    BY <1>2, <1>3, <1>4
  <2>2. q \in Seq(Nat) /\ Len(q) = L - 1
    BY <1>3
  <2> QED BY <2>1, <2>2 DEF Ascending
<1>10. Elems(q) = Elems(s) \ {s[L]}
  BY <1>3, <1>7 DEF Elems, L
<1>11. QED
  BY <1>4, <1>8, <1>9, <1>10 DEF Elems, q, L

-----------------------------------------------------------------------------
(* The inductive invariant.                                                *)

Types ==
  /\ dso \in Seq(Addr) /\ Len(dso) <= MaxDtors
  /\ mapped \subseteq Lib
  /\ pc \in [Thread -> {"idle", "drop", "take", "call"}]
  /\ removed_libs \in [Thread -> SUBSET Lib]
  /\ released \in [Thread -> SUBSET Lib]
  /\ to_run \in [Thread -> Seq(Nat)]
  /\ called \in [Dtor -> Nat]

(* Destructor d waits in the list or in the hands of a thread.             *)
Waiting(d) ==
  d \in Elems(destructors) \/ \E t \in Thread : d \in Elems(to_run[t])

(* Every registered destructor waits in one place, or has been called.     *)
Places ==
  /\ Ascending(destructors) /\ Elems(destructors) \subseteq Registered
  /\ \A t \in Thread :
       /\ Ascending(to_run[t]) /\ Elems(to_run[t]) \subseteq Registered
       /\ Elems(to_run[t]) \cap Elems(destructors) = {}
       /\ pc[t] # "call" => to_run[t] = <<>>
  /\ \A t, u \in Thread : t # u => Elems(to_run[t]) \cap Elems(to_run[u]) = {}
  /\ \A d \in Dtor : called[d] = IF d \in Registered /\ ~Waiting(d) THEN 1 ELSE 0

(* The address belongs to a library that a drop has finalized.             *)
Looked(a) ==
  a \in SpanOf(Lib \ mapped) \/ \E t \in Thread : a \in SpanOf(released[t])

(* Once a drop has finalized a library, what the list holds of its         *)
(* destructors came too late.                                              *)
Closes == \A d \in Elems(destructors) : Looked(dso[d]) => d \in late

Inv == Types /\ Places /\ Closes

(* The invariant holds at first.                                           *)
LEMMA InitInv == Init => Inv
<1> SUFFICES ASSUME Init PROVE Inv
  OBVIOUS
<1>1. Ascending(<<>>) /\ Elems(<<>>) = {}
  BY DEF Ascending, Elems
<1>2. Types
  BY DestructorsAssumption DEF Init, Types, Dtor
<1>3. Places
  <2>1. \A t \in Thread : to_run[t] = <<>>
    BY DEF Init
  <2>2. destructors = <<>> /\ dso = <<>> /\ called = [d \in Dtor |-> 0]
    BY DEF Init
  <2>3. Registered = {}
    BY <2>2 DEF Registered
  <2> QED BY <1>1, <2>1, <2>2, <2>3 DEF Places
<1>4. Closes
  BY <1>1 DEF Init, Closes
<1>5. QED
  BY <1>2, <1>3, <1>4 DEF Inv

(* Registering appends a destructor of a number not used before.           *)
LEMMA RegisterInv ==
  ASSUME Inv, NEW a \in Addr, Register(a)
  PROVE  Inv' /\ called' = called
<1> DEFINE d == Len(dso) + 1
<1>0. /\ d \in Dtor /\ a \notin SpanOf(Lib \ mapped)
      /\ destructors' = Append(destructors, d)
      /\ dso' = Append(dso, a)
      /\ late' = IF \E t \in Thread : a \in SpanOf(released[t])
                 THEN late \cup {d} ELSE late
      /\ UNCHANGED <<mapped, pc, removed_libs, released, to_run, called>>
  BY DEF Register
<1>1. /\ dso \in Seq(Addr) /\ Len(dso) \in Nat
      /\ dso' \in Seq(Addr) /\ Len(dso') = d
      /\ \A e \in 1 .. Len(dso) : dso'[e] = dso[e]
      /\ dso'[d] = a
  BY <1>0 DEF Inv, Types
<1>2. d \in Nat /\ d <= MaxDtors /\ Registered' = Registered \cup {d}
      /\ \A e \in Registered : e < d /\ e # d
  <2>1. 1 .. Len(dso) + 1 = (1 .. Len(dso)) \cup {Len(dso) + 1}
    BY <1>1
  <2>2. d \in 1 .. MaxDtors
    BY <1>0 DEF Dtor
  <2> QED BY <1>1, <2>1, <2>2, DestructorsAssumption DEF Registered
<1> HIDE DEF d
<1>3. Types'
  BY <1>0, <1>1, <1>2 DEF Inv, Types, Dtor
<1>4. Ascending(destructors) /\ Elems(destructors) \subseteq Registered
  BY DEF Inv, Places
<1>5. Ascending(destructors') /\ Elems(destructors') = Elems(destructors) \cup {d}
  BY <1>0, <1>2, <1>4, AscendingAppend
<1>6. Places'
  <2>1. /\ \A t \in Thread :
             /\ Ascending(to_run[t]) /\ Elems(to_run[t]) \subseteq Registered
             /\ Elems(to_run[t]) \cap Elems(destructors) = {}
             /\ pc[t] # "call" => to_run[t] = <<>>
        /\ \A t, u \in Thread : t # u => Elems(to_run[t]) \cap Elems(to_run[u]) = {}
        /\ \A e \in Dtor :
             called[e] = IF e \in Registered /\ ~Waiting(e) THEN 1 ELSE 0
    BY DEF Inv, Places
  <2>2. to_run' = to_run /\ called' = called /\ pc' = pc
    BY <1>0
  <2>3. \A t \in Thread : Elems(to_run[t]) \cap Elems(destructors') = {}
    BY <1>2, <1>5, <2>1
  <2>4. ASSUME NEW e \in Dtor
        PROVE  called[e] = IF e \in Registered' /\ ~Waiting(e)' THEN 1 ELSE 0
    <3>1. CASE e = d
      <4>1. Waiting(e)' /\ e \notin Registered
        BY <1>2, <1>5, <3>1 DEF Waiting
      <4> QED BY <2>1, <4>1
    <3>2. CASE e # d
      <4>1. (e \in Registered' <=> e \in Registered) /\ (Waiting(e)' <=> Waiting(e))
        BY <1>2, <1>5, <2>2, <3>2 DEF Waiting
      <4> QED BY <2>1, <4>1
    <3> QED BY <3>1, <3>2
  <2>6. Elems(destructors') \subseteq Registered'
    BY <1>2, <1>4, <1>5
  <2>7. \A t \in Thread : Elems(to_run[t]) \subseteq Registered'
    BY <1>2, <2>1
  <2> QED BY <1>5, <2>1, <2>2, <2>3, <2>4, <2>6, <2>7 DEF Places
<1>7. Closes'
  <2>1. \A b : Looked(b)' <=> Looked(b)
    BY <1>0 DEF Looked, SpanOf
  <2>2. ASSUME NEW e \in Elems(destructors'), Looked(dso'[e])
        PROVE  e \in late'
    <3>1. CASE e = d
      BY <1>0, <1>1, <2>2, <3>1 DEF Looked
    <3>2. CASE e # d
      <4>1. e \in Elems(destructors) /\ dso'[e] = dso[e]
        BY <1>1, <1>4, <1>5, <3>2 DEF Registered
      <4>2. e \in late => e \in late'
        BY <1>0
      <4> QED BY <2>2, <4>1, <4>2 DEF Inv, Closes
    <3> QED BY <3>1, <3>2
  <2> QED BY <2>1, <2>2 DEF Closes
<1>8. QED
  BY <1>0, <1>3, <1>6, <1>7 DEF Inv

(* finalize takes the matching destructors out of the list under the lock. *)
LEMMA TakeInv ==
  ASSUME Inv, NEW t \in Thread, NEW S, pc[t] # "call", Take(t, S),
         removed_libs' \in [Thread -> SUBSET Lib],
         released' \in [Thread -> SUBSET Lib],
         \A a : Looked(a)' => Looked(a) \/ a \in S
  PROVE  Inv' /\ called' = called
<1> DEFINE E == Elems(destructors)
           M == Matching(S)
<1>0. /\ to_run' = [to_run EXCEPT ![t] = Only(destructors, M)]
      /\ destructors' = Only(destructors, Registered \ M)
      /\ pc' = [pc EXCEPT ![t] = "call"]
      /\ UNCHANGED <<dso, called, mapped, late>>
  BY DEF Take, Left
<1>1. /\ Ascending(destructors) /\ E \subseteq Registered
      /\ M \subseteq Registered
      /\ to_run \in [Thread -> Seq(Nat)]
      /\ pc \in [Thread -> {"idle", "drop", "take", "call"}]
  BY DEF Inv, Places, Types, Matching
<1>2. Ascending(destructors') /\ Elems(destructors') = E \ M
  BY <1>0, <1>1, OnlyKeeps
<1>3. Ascending(to_run'[t]) /\ Elems(to_run'[t]) = E \cap M
      /\ \A u \in Thread \ {t} : to_run'[u] = to_run[u]
  BY <1>0, <1>1, OnlyKeeps
<1>4. Types'
  <2>1. Only(destructors, M) \in Seq(Nat)
    BY <1>1, OnlyKeeps DEF Ascending
  <2> QED BY <1>0, <2>1 DEF Inv, Types, Dtor
<1>5. Registered' = Registered
  BY <1>0 DEF Registered
<1>6. Places'
  <2>1. /\ \A u \in Thread :
             /\ Ascending(to_run[u]) /\ Elems(to_run[u]) \subseteq Registered
             /\ Elems(to_run[u]) \cap E = {}
             /\ pc[u] # "call" => to_run[u] = <<>>
        /\ \A u, v \in Thread : u # v => Elems(to_run[u]) \cap Elems(to_run[v]) = {}
        /\ \A e \in Dtor :
             called[e] = IF e \in Registered /\ ~Waiting(e) THEN 1 ELSE 0
    BY DEF Inv, Places
  <2>2. Elems(to_run[t]) = {}
    BY <2>1 DEF Elems
  <2>3. pc'[t] = "call" /\ \A u \in Thread \ {t} : pc'[u] = pc[u]
    BY <1>0, <1>1
  <2> HIDE DEF E, M
  <2>4. \A u \in Thread :
          /\ Ascending(to_run'[u]) /\ Elems(to_run'[u]) \subseteq Registered
          /\ Elems(to_run'[u]) \cap (E \ M) = {}
          /\ pc'[u] # "call" => to_run'[u] = <<>>
    <3> TAKE u \in Thread
    <3>1. CASE u = t
      BY <1>1, <1>3, <2>3, <3>1
    <3>2. CASE u # t
      BY <1>3, <2>1, <2>3, <3>2
    <3> QED BY <3>1, <3>2
  <2>5. ASSUME NEW u \in Thread, NEW v \in Thread, u # v
        PROVE  Elems(to_run'[u]) \cap Elems(to_run'[v]) = {}
    BY <1>3, <2>1, <2>5
  <2>6. ASSUME NEW e \in Dtor PROVE Waiting(e)' <=> Waiting(e)
    <3>1. Waiting(e)' => Waiting(e)
      BY <1>2, <1>3 DEF Waiting, E
    <3>2. Waiting(e) => Waiting(e)'
      <4>1. CASE e \in E
        BY <1>2, <1>3, <4>1 DEF Waiting
      <4>2. CASE \E u \in Thread : e \in Elems(to_run[u])
        BY <1>3, <2>2, <4>2 DEF Waiting
      <4> QED BY <4>1, <4>2 DEF Waiting, E
    <3> QED BY <3>1, <3>2
  <2>7. called' = called
    BY <1>0
  <2>8. \A e \in Dtor :
          called'[e] = IF e \in Registered' /\ ~Waiting(e)' THEN 1 ELSE 0
    BY <1>5, <2>1, <2>6, <2>7
  <2>9. Elems(destructors') \subseteq Registered'
    BY <1>1, <1>2, <1>5
  <2>10. \A u \in Thread : Elems(to_run'[u]) \cap Elems(destructors') = {}
    BY <1>2, <2>4
  <2> QED BY <1>2, <1>5, <2>4, <2>5, <2>8, <2>9, <2>10 DEF Places
<1>7. Closes'
  <2>1. \A d \in E : dso[d] \in S => d \in M
    BY <1>1 DEF Matching, Matches
  <2>2. \A d \in E : Looked(dso[d]) => d \in late
    BY DEF Inv, Closes
  <2> HIDE DEF E, M
  <2>3. ASSUME NEW d \in E \ M, Looked(dso[d])' PROVE d \in late
    <3> DEFINE b == dso[d]
    <3>3. Looked(b)'
      BY <2>3 DEF Looked
    <3> QED BY <1>0, <2>1, <2>2, <2>3, <3>3
  <2> QED BY <1>0, <1>2, <2>3 DEF Closes, Looked
<1>8. QED
  BY <1>0, <1>4, <1>6, <1>7 DEF Inv

(* The last destructor a thread has taken is called.                       *)
LEMMA CallInv ==
  ASSUME Inv, NEW t \in Thread, Call(t)
  PROVE  Inv'
<1> DEFINE s == to_run[t]
<1> PICK d : d = s[Len(s)]
  OBVIOUS
<1>0. /\ s # <<>>
      /\ called' = [called EXCEPT ![d] = @ + 1]
      /\ to_run' = [to_run EXCEPT ![t] = Shorter(s)]
      /\ UNCHANGED <<destructors, dso, mapped, pc, removed_libs, released, late>>
  BY DEF Call, Inv, Types
<1>1. /\ to_run \in [Thread -> Seq(Nat)]
      /\ called \in [Dtor -> Nat]
      /\ Ascending(s) /\ Elems(s) \subseteq Registered
      /\ Registered \subseteq Dtor
  <2>1. \A e \in 1 .. Len(dso) : e \in 1 .. MaxDtors
    <3>1. Len(dso) \in Nat /\ Len(dso) <= MaxDtors /\ MaxDtors \in Nat
      BY DestructorsAssumption DEF Inv, Types
    <3> QED BY <3>1
  <2> QED BY <2>1 DEF Inv, Types, Places, Registered, Dtor
<1>2. /\ Ascending(Shorter(s)) /\ d \in Elems(s)
      /\ Elems(Shorter(s)) = Elems(s) \ {d}
  BY <1>0, <1>1, AscendingShorter
<1>3. d \in Dtor
  BY <1>1, <1>2
<1>4. Types'
  <2>1. Shorter(s) \in Seq(Nat)
    BY <1>2 DEF Ascending
  <2>2. called[d] + 1 \in Nat
    BY <1>1, <1>3
  <2> HIDE DEF s
  <2>3. called' \in [Dtor -> Nat] /\ to_run' \in [Thread -> Seq(Nat)]
    BY <1>0, <1>1, <2>1, <2>2
  <2> QED BY <1>0, <2>3 DEF Inv, Types, Dtor
<1>5. /\ to_run'[t] = Shorter(s)
      /\ \A u \in Thread \ {t} : to_run'[u] = to_run[u]
      /\ called'[d] = called[d] + 1
      /\ \A e \in Dtor \ {d} : called'[e] = called[e]
  BY <1>0, <1>1, <1>3
<1>6. Places'
  <2>1. /\ Ascending(destructors) /\ Elems(destructors) \subseteq Registered
        /\ \A u \in Thread :
             /\ Ascending(to_run[u]) /\ Elems(to_run[u]) \subseteq Registered
             /\ Elems(to_run[u]) \cap Elems(destructors) = {}
             /\ pc[u] # "call" => to_run[u] = <<>>
        /\ \A u, v \in Thread : u # v => Elems(to_run[u]) \cap Elems(to_run[v]) = {}
        /\ \A e \in Dtor :
             called[e] = IF e \in Registered /\ ~Waiting(e) THEN 1 ELSE 0
    BY DEF Inv, Places
  <2>2. Registered' = Registered /\ destructors' = destructors /\ pc' = pc
    BY <1>0 DEF Registered
  <2>3. \A u \in Thread : /\ Elems(to_run'[u]) = Elems(to_run[u]) \ {d}
                          /\ Ascending(to_run'[u])
                          /\ pc[u] # "call" => to_run'[u] = <<>>
    <3> TAKE u \in Thread
    <3>1. CASE u = t
      BY <1>0, <1>2, <1>5, <2>1, <3>1
    <3>2. CASE u # t
      <4>1. d \notin Elems(to_run[u])
        BY <1>2, <2>1, <3>2
      <4> QED BY <1>5, <2>1, <3>2, <4>1
    <3> QED BY <3>1, <3>2
  <2>4. Waiting(d) /\ ~Waiting(d)' /\ d \in Registered
    <3>1. d \notin Elems(destructors)
      BY <1>2, <2>1
    <3> QED BY <1>1, <1>2, <2>2, <2>3, <3>1 DEF Waiting
  <2>5. \A e \in Dtor : e # d => (Waiting(e)' <=> Waiting(e))
    BY <2>2, <2>3 DEF Waiting
  <2> HIDE DEF s
  <2>6. \A e \in Dtor :
          called'[e] = IF e \in Registered' /\ ~Waiting(e)' THEN 1 ELSE 0
    BY <1>3, <1>5, <2>1, <2>2, <2>4, <2>5
  <2>7. \A u \in Thread :
          /\ Elems(to_run'[u]) \subseteq Registered'
          /\ Elems(to_run'[u]) \cap Elems(destructors') = {}
    BY <2>1, <2>2, <2>3
  <2>8. \A u, v \in Thread : u # v => Elems(to_run'[u]) \cap Elems(to_run'[v]) = {}
    BY <2>1, <2>3
  <2> QED BY <2>1, <2>2, <2>3, <2>6, <2>7, <2>8 DEF Places
<1>7. Closes'
  BY <1>0 DEF Inv, Closes, Looked, SpanOf
<1>8. QED
  BY <1>4, <1>6, <1>7 DEF Inv

(* The list and what threads have taken stay; so does the invariant, if    *)
(* only finalized libraries are unmapped.                                  *)
LEMMA QuietInv ==
  ASSUME Inv, Types', UNCHANGED <<destructors, dso, to_run, called, late>>,
         \A t \in Thread : pc'[t] # "call" => to_run[t] = <<>>,
         \A a : Looked(a)' => Looked(a)
  PROVE  Inv'
<1>1. Registered' = Registered /\ \A e \in Dtor : Waiting(e)' <=> Waiting(e)
  BY DEF Registered, Waiting
<1>2. Places'
  BY <1>1 DEF Inv, Places
<1>3. Closes'
  <2>1. ASSUME NEW d \in Elems(destructors'), Looked(dso[d])' PROVE d \in late'
    <3> DEFINE b == dso[d]
    <3>1. Looked(b)'
      BY <2>1 DEF Looked
    <3>2. Looked(b)
      BY <3>1
    <3> QED BY <3>2 DEF Inv, Closes
  <2> QED BY <2>1 DEF Closes, Looked
<1>4. QED
  BY <1>2, <1>3 DEF Inv

(* finalize returns, and after the last one the drop unmaps what it has    *)
(* removed.                                                                *)
LEMMA ReturnInv ==
  ASSUME Inv, NEW t \in Thread, Return(t)
  PROVE  Inv' /\ called' = called
<1>0. /\ to_run[t] = <<>>
      /\ \/ /\ pc' = [pc EXCEPT ![t] = "drop"]
            /\ UNCHANGED <<mapped, released>>
         \/ /\ pc' = [pc EXCEPT ![t] = "idle"]
            /\ mapped' = mapped \ released[t]
            /\ released' = [released EXCEPT ![t] = {}]
      /\ UNCHANGED <<destructors, dso, removed_libs, to_run, called, late>>
  BY DEF Return
<1>1. /\ pc \in [Thread -> {"idle", "drop", "take", "call"}]
      /\ released \in [Thread -> SUBSET Lib] /\ mapped \subseteq Lib
  BY DEF Inv, Types
<1>2. Types'
  BY <1>0, <1>1 DEF Inv, Types, Dtor
<1>3. \A u \in Thread : pc'[u] # "call" => to_run[u] = <<>>
  BY <1>0, <1>1 DEF Inv, Places
<1>4. ASSUME NEW a, Looked(a)' PROVE Looked(a)
  <2>1. CASE UNCHANGED <<mapped, released>>
    BY <1>4, <2>1 DEF Looked
  <2>2. CASE /\ mapped' = mapped \ released[t]
             /\ released' = [released EXCEPT ![t] = {}]
    <3>1. \A lib \in Lib \ mapped' : lib \in Lib \ mapped \/ lib \in released[t]
      BY <2>2
    <3>2. \A u \in Thread : released'[u] \subseteq released[u]
      BY <1>1, <2>2
    <3> QED BY <1>4, <3>1, <3>2 DEF Looked, SpanOf
  <2> QED BY <1>0, <2>1, <2>2
<1>5. QED
  BY <1>0, <1>2, <1>3, <1>4, QuietInv

(* A library that a drop has removed is finalized.                         *)
LEMMA FinalizeRemovedInv ==
  ASSUME Inv, NEW t \in Thread, NEW lib \in Lib, FinalizeRemoved(t, lib)
  PROVE  Inv' /\ called' = called
<1>1. /\ removed_libs \in [Thread -> SUBSET Lib]
      /\ released \in [Thread -> SUBSET Lib]
  BY DEF Inv, Types
<1>2. /\ pc[t] = "drop" /\ Take(t, Span[lib]) /\ mapped' = mapped
      /\ removed_libs' = [removed_libs EXCEPT ![t] = @ \ {lib}]
      /\ released' = [released EXCEPT ![t] = @ \cup {lib}]
  BY DEF FinalizeRemoved, Take
<1>3. /\ removed_libs' \in [Thread -> SUBSET Lib]
      /\ released' \in [Thread -> SUBSET Lib]
  BY <1>1, <1>2
<1>4. ASSUME NEW a, Looked(a)' PROVE Looked(a) \/ a \in Span[lib]
  <2>1. \A u \in Thread : released'[u] \subseteq released[u] \cup {lib}
    BY <1>1, <1>2
  <2> QED BY <1>2, <1>4, <2>1 DEF Looked, SpanOf
<1>5. QED
  BY <1>2, <1>3, <1>4, TakeInv

(* The rest of __cxa_finalize.                                             *)
LEMMA FinalizeRangeInv ==
  ASSUME Inv, NEW t \in Thread, FinalizeRange(t)
  PROVE  Inv' /\ called' = called
<1>1. /\ removed_libs \in [Thread -> SUBSET Lib]
      /\ released \in [Thread -> SUBSET Lib]
  BY DEF Inv, Types
<1>2. /\ pc[t] = "take" /\ Take(t, range[t])
      /\ UNCHANGED <<mapped, removed_libs, released>>
  BY DEF FinalizeRange, Take
<1>3. \A a : Looked(a)' => Looked(a) \/ a \in range[t]
  BY <1>2 DEF Looked
<1>4. QED
  BY <1>1, <1>2, <1>3, TakeInv

(* Every step keeps the invariant, and calls a destructor only as Call.    *)
LEMMA NextInv ==
  ASSUME Inv, [Next]_vars
  PROVE  Inv' /\ (called' = called \/ \E t \in Thread : Call(t))
<1>0. pc \in [Thread -> {"idle", "drop", "take", "call"}]
  BY DEF Inv, Types
<1>1. CASE \E a \in Addr : Register(a)
  BY <1>1, RegisterInv
<1>2. ASSUME NEW t \in Thread, NEW libs \in SUBSET Lib, Drop(t, libs)
      PROVE  Inv' /\ called' = called
  <2>1. /\ pc[t] = "idle" /\ pc' = [pc EXCEPT ![t] = "drop"]
        /\ removed_libs' = [removed_libs EXCEPT ![t] = libs]
        /\ UNCHANGED <<destructors, dso, mapped, released, to_run, called, late>>
    BY <1>2 DEF Drop
  <2>2. Types'
    BY <1>0, <2>1 DEF Inv, Types, Dtor
  <2>3. \A u \in Thread : pc'[u] # "call" => to_run[u] = <<>>
    BY <1>0, <2>1 DEF Inv, Places
  <2>4. \A a : Looked(a)' => Looked(a)
    BY <2>1 DEF Looked
  <2> QED BY <2>1, <2>2, <2>3, <2>4, QuietInv
<1>3. ASSUME NEW t \in Thread, NEW a \in Addr \cup {Null}, CxaFinalize(t, a)
      PROVE  Inv' /\ called' = called
  <2>1. /\ pc[t] = "idle" /\ pc' = [pc EXCEPT ![t] = "take"]
        /\ UNCHANGED <<destructors, dso, mapped, removed_libs, released, to_run,
                       called, late>>
    BY <1>3 DEF CxaFinalize
  <2>2. Types'
    BY <1>0, <2>1 DEF Inv, Types, Dtor
  <2>3. \A u \in Thread : pc'[u] # "call" => to_run[u] = <<>>
    BY <1>0, <2>1 DEF Inv, Places
  <2>4. \A b : Looked(b)' => Looked(b)
    BY <2>1 DEF Looked
  <2> QED BY <2>1, <2>2, <2>3, <2>4, QuietInv
<1>4. ASSUME NEW t \in Thread, Step(t)
      PROVE  Inv' /\ (called' = called \/ Call(t))
  BY <1>4, FinalizeRemovedInv, FinalizeRangeInv, CallInv, ReturnInv DEF Step
<1>5. CASE UNCHANGED vars
  <2>1. Types' /\ UNCHANGED <<destructors, dso, to_run, called, late>>
    BY <1>5 DEF vars, Inv, Types, Dtor
  <2>2. \A u \in Thread : pc'[u] # "call" => to_run[u] = <<>>
    BY <1>5 DEF vars, Inv, Places
  <2>3. \A a : Looked(a)' => Looked(a)
    BY <1>5 DEF vars, Looked
  <2> QED BY <2>1, <2>2, <2>3, QuietInv
<1>6. QED
  BY <1>1, <1>2, <1>3, <1>4, <1>5 DEF Next

-----------------------------------------------------------------------------
(* What the invariant says.                                                *)

(* The place of a destructor in a list is at most its number.              *)
LEMMA PlaceBounded ==
  ASSUME NEW s, Ascending(s), Elems(s) \subseteq Dtor
  PROVE  \A i \in 1 .. Len(s) : i \in Dtor
<1>0. /\ Len(s) \in Nat /\ MaxDtors \in Nat
      /\ \A i \in 1 .. Len(s) : s[i] \in 1 .. MaxDtors
      /\ \A i, j \in 1 .. Len(s) : i < j => s[i] < s[j]
  BY DestructorsAssumption DEF Ascending, Elems, Dtor
<1> DEFINE Low == {n \in Nat : n \in 1 .. Len(s) => n <= s[n]}
<1>1. 0 \in Low
  OBVIOUS
<1>2. ASSUME NEW n \in Nat, n \in Low PROVE n + 1 \in Low
  <2> SUFFICES ASSUME n + 1 \in 1 .. Len(s) PROVE n + 1 <= s[n + 1]
    OBVIOUS
  <2>1. s[n + 1] \in 1 .. MaxDtors
    BY <1>0
  <2>2. CASE n = 0
    BY <2>1, <2>2
  <2>3. CASE n # 0
    <3>1. n \in 1 .. Len(s) /\ n < n + 1
      BY <1>0, <2>3
    <3>2. n <= s[n] /\ s[n] < s[n + 1] /\ s[n] \in 1 .. MaxDtors
      BY <1>0, <1>2, <3>1
    <3> QED BY <2>1, <3>2
  <2> QED BY <2>2, <2>3
<1> HIDE DEF Low
<1>3. \A n \in Nat : n \in Low
  BY <1>1, <1>2, NatSetInduction
<1>4. \A i \in 1 .. Len(s) : i <= s[i] /\ s[i] \in 1 .. MaxDtors
  BY <1>0, <1>3 DEF Low
<1>5. QED
  BY <1>0, <1>4 DEF Dtor

(* A destructor is at most once in a list.                                 *)
LEMMA OnceInList ==
  ASSUME NEW s, Ascending(s), NEW d
  PROVE  Cardinality({i \in 1 .. Len(s) : s[i] = d})
           = IF d \in Elems(s) THEN 1 ELSE 0
<1> DEFINE At == {i \in 1 .. Len(s) : s[i] = d}
<1> SUFFICES Cardinality(At) = IF d \in Elems(s) THEN 1 ELSE 0
  OBVIOUS
<1>1. CASE d \notin Elems(s)
  <2>1. At = {}
    BY <1>1 DEF Elems
  <2> HIDE DEF At
  <2> QED BY <1>1, <2>1, FS_EmptySet
<1>2. CASE d \in Elems(s)
  <2>1. PICK i \in 1 .. Len(s) : s[i] = d
    BY <1>2 DEF Elems
  <2>2. \A j \in 1 .. Len(s) : s[j] = d => j = i
    <3> TAKE j \in 1 .. Len(s)
    <3>1. (i < j => s[i] < s[j]) /\ (j < i => s[j] < s[i])
          /\ s[i] \in Nat /\ s[j] \in Nat /\ i \in Int /\ j \in Int
      BY DEF Ascending
    <3> QED BY <2>1, <3>1
  <2>3. At = {i}
    BY <2>1, <2>2
  <2> HIDE DEF At
  <2>4. Cardinality(At) = 1
    BY <2>3, FS_Singleton
  <2> QED BY <1>2, <2>4
<1>3. QED
  BY <1>1, <1>2

(* A destructor is in the hands of at most one thread, once.               *)
LEMMA OnceTaken ==
  ASSUME Inv, NEW d \in Dtor
  PROVE  Cardinality({p \in Thread \X Dtor :
                        p[2] <= Len(to_run[p[1]]) /\ to_run[p[1]][p[2]] = d})
           = IF \E t \in Thread : d \in Elems(to_run[t]) THEN 1 ELSE 0
<1> DEFINE At == {p \in Thread \X Dtor :
                    p[2] <= Len(to_run[p[1]]) /\ to_run[p[1]][p[2]] = d}
<1> SUFFICES Cardinality(At)
               = IF \E t \in Thread : d \in Elems(to_run[t]) THEN 1 ELSE 0
  OBVIOUS
<1>0. /\ \A t \in Thread : Ascending(to_run[t]) /\ Elems(to_run[t]) \subseteq Dtor
      /\ \A t, u \in Thread : t # u => Elems(to_run[t]) \cap Elems(to_run[u]) = {}
  <2>1. \A e \in Registered : e \in Dtor
    <3>1. Len(dso) \in Nat /\ Len(dso) <= MaxDtors /\ MaxDtors \in Nat
      BY DestructorsAssumption DEF Inv, Types
    <3> QED BY <3>1 DEF Registered, Dtor
  <2> QED BY <2>1 DEF Inv, Places
<1>1. ASSUME NEW t \in Thread, NEW i \in Dtor, i <= Len(to_run[t])
      PROVE  i \in 1 .. Len(to_run[t])
  <2>1. Len(to_run[t]) \in Nat
    BY <1>0 DEF Ascending
  <2> QED BY <1>1, <2>1, DestructorsAssumption DEF Dtor
<1>2. CASE ~\E t \in Thread : d \in Elems(to_run[t])
  <2>1. At = {}
    BY <1>1, <1>2 DEF Elems
  <2> HIDE DEF At
  <2> QED BY <1>2, <2>1, FS_EmptySet
<1>3. CASE \E t \in Thread : d \in Elems(to_run[t])
  <2>1. PICK t \in Thread : d \in Elems(to_run[t])
    BY <1>3
  <2>2. PICK i \in 1 .. Len(to_run[t]) : to_run[t][i] = d
    BY <2>1 DEF Elems
  <2>3. i \in Dtor /\ i <= Len(to_run[t])
    BY <1>0, PlaceBounded
  <2>4. ASSUME NEW p \in At PROVE p = <<t, i>>
    <3> DEFINE u == p[1]
               j == p[2]
    <3>1. u \in Thread /\ j \in Dtor /\ p = <<u, j>> /\ j <= Len(to_run[u])
          /\ to_run[u][j] = d
      OBVIOUS
    <3> HIDE DEF u, j
    <3>2. j \in 1 .. Len(to_run[u]) /\ d \in Elems(to_run[u])
      BY <1>1, <3>1 DEF Elems
    <3>3. u = t
      BY <1>0, <2>1, <3>1, <3>2
    <3>4. (i < j => to_run[t][i] < to_run[t][j])
          /\ (j < i => to_run[t][j] < to_run[t][i])
          /\ to_run[t][i] \in Nat /\ i \in Int /\ j \in Int
      <4>1. j \in 1 .. Len(to_run[t]) /\ Ascending(to_run[t])
        BY <1>0, <3>2, <3>3
      <4>2. Len(to_run[t]) \in Nat
        BY <4>1 DEF Ascending
      <4>3. i \in Int /\ j \in Int
        BY <4>1, <4>2
      <4>4. to_run[t] \in Seq(Nat)
            /\ \A k, l \in 1 .. Len(to_run[t]) : k < l => to_run[t][k] < to_run[t][l]
        BY <4>1 DEF Ascending
      <4>5. to_run[t][i] \in Nat
        BY <4>4
      <4> QED BY <4>1, <4>3, <4>4, <4>5
    <3>5. i = j
      BY <2>2, <3>1, <3>3, <3>4
    <3> QED BY <3>1, <3>3, <3>5
  <2>5. <<t, i>> \in At
    BY <2>2, <2>3
  <2>6. At = {<<t, i>>}
    <3> HIDE DEF At
    <3> QED BY <2>4, <2>5
  <2> HIDE DEF At
  <2>7. Cardinality(At) = 1
    BY <2>6, FS_Singleton
  <2> QED BY <1>3, <2>7
<1>4. QED
  BY <1>2, <1>3

(* The invariant says that every destructor has one place.                 *)
LEMMA InvOnePlace == Inv => OnePlace
<1> SUFFICES ASSUME Inv, NEW d \in Registered
             PROVE  called[d]
                      + Cardinality({i \in 1 .. Len(destructors) :
                                       destructors[i] = d})
                      + Cardinality({p \in Thread \X Dtor :
                                       /\ p[2] <= Len(to_run[p[1]])
                                       /\ to_run[p[1]][p[2]] = d}) = 1
  BY DEF OnePlace
<1> DEFINE a == Cardinality({i \in 1 .. Len(destructors) : destructors[i] = d})
           b == Cardinality({p \in Thread \X Dtor :
                               /\ p[2] <= Len(to_run[p[1]])
                               /\ to_run[p[1]][p[2]] = d})
<1>1. d \in Dtor
  <2>1. Len(dso) \in Nat /\ Len(dso) <= MaxDtors /\ MaxDtors \in Nat
    BY DestructorsAssumption DEF Inv, Types
  <2> QED BY <2>1 DEF Registered, Dtor
<1>2. a = IF d \in Elems(destructors) THEN 1 ELSE 0
  BY OnceInList DEF Inv, Places
<1>3. b = IF \E t \in Thread : d \in Elems(to_run[t]) THEN 1 ELSE 0
  BY <1>1, OnceTaken
<1>4. /\ called[d] = IF ~Waiting(d) THEN 1 ELSE 0
      /\ \A t \in Thread : d \in Elems(to_run[t]) => d \notin Elems(destructors)
  BY <1>1 DEF Inv, Places
<1> HIDE DEF a, b
<1>5. called[d] + a + b = 1
  BY <1>2, <1>3, <1>4 DEF Waiting
<1>6. QED
  BY <1>5 DEF a, b

(* The invariant says that what an unmapped library left came too late.    *)
LEMMA InvLate == Inv => LeftOnlyIfLate
BY DEF Inv, Closes, Looked, LeftOnlyIfLate, Elems

(* A destructor that is called is the last of those its thread has taken.  *)
LEMMA CallsLast ==
  ASSUME Inv, [Next]_vars, NEW t \in Thread, NEW i \in 1 .. Len(to_run[t]),
         called'[to_run[t][i]] # called[to_run[t][i]],
         NEW j \in 1 .. Len(to_run[t])
  PROVE  to_run[t][j] <= to_run[t][i]
<1>1. PICK u \in Thread : Call(u)
  BY NextInv
<1> DEFINE d == to_run[u][Len(to_run[u])]
           e == to_run[t][i]
<1>2. /\ Ascending(to_run[t]) /\ Ascending(to_run[u])
      /\ t # u => Elems(to_run[t]) \cap Elems(to_run[u]) = {}
  BY DEF Inv, Places
<1>3. to_run[u] # <<>> /\ called' = [called EXCEPT ![d] = @ + 1]
  BY <1>1 DEF Call
<1>4. d \in Elems(to_run[u]) /\ \A x \in Elems(to_run[u]) : x <= d
  BY <1>2, <1>3, AscendingShorter
<1>5. e \in Elems(to_run[t]) /\ to_run[t][j] \in Elems(to_run[t])
  BY DEF Elems
<1>6. called \in [Dtor -> Nat]
  BY DEF Inv, Types
<1>7. e = d
  <2> HIDE DEF d, e
  <2>1. called'[e] # called[e]
    BY DEF e
  <2>2. ASSUME e # d PROVE called'[e] = called[e]
    <3>1. CASE e \in Dtor
      BY <1>3, <1>6, <2>2, <3>1
    <3>2. CASE e \notin Dtor
      <4>1. Elems(to_run[t]) \subseteq Registered
        BY DEF Inv, Places
      <4>2. Len(dso) \in Nat /\ Len(dso) <= MaxDtors /\ MaxDtors \in Nat
        BY DestructorsAssumption DEF Inv, Types
      <4>3. e \in Dtor
        BY <1>5, <4>1, <4>2 DEF Registered, Dtor
      <4> QED BY <3>2, <4>3
    <3> QED BY <3>1, <3>2
  <2> QED BY <2>1, <2>2
<1>8. t = u
  BY <1>2, <1>4, <1>5, <1>7
<1>9. QED
  BY <1>4, <1>5, <1>7, <1>8

-----------------------------------------------------------------------------
(* The theorems.                                                           *)

(* The invariant holds in every reachable state.                           *)
LEMMA InvAlways == Spec => []Inv
<1>1. Inv /\ [Next]_vars => Inv'
  BY NextInv
<1>2. QED
  BY <1>1, InitInv, PTL DEF Spec

(* Finalizes that run at the same time, for one library or for the whole   *)
(* process, never lose a destructor and never call one twice.              *)
THEOREM CalledExactlyOnce == Spec => []OnePlace
<1>1. QED
  BY InvOnePlace, InvAlways, PTL

(* A library is unmapped with one of its destructors still in the list     *)
(* only if that one was registered while the library was being finalized.  *)
THEOREM OnlyLateOnesAreLeft == Spec => []LeftOnlyIfLate
<1>1. QED
  BY InvLate, InvAlways, PTL

(* Each finalize calls what it took from the last registered to the first, *)
(* whatever is registered and finalized in between.                        *)
THEOREM LastRegisteredFirst == Spec => ReverseOrder
<1>1. ASSUME Inv, [Next]_vars
      PROVE  [\A t \in Thread :
                \A i \in 1 .. Len(to_run[t]) :
                  called'[to_run[t][i]] # called[to_run[t][i]] =>
                    \A j \in 1 .. Len(to_run[t]) :
                      to_run[t][j] <= to_run[t][i]]_vars
  BY <1>1, CallsLast
<1>2. QED
  BY <1>1, InvAlways, PTL DEF Spec, ReverseOrder
=============================================================================
