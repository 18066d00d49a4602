--------------------------- MODULE LinkMapProofs ---------------------------
(***************************************************************************)
(* Proofs about module LinkMap, for any number of threads and link maps    *)
(* and any list the host linker may have left: the pointers always spell   *)
(* a sequence, no pointer that is followed is null or freed, and every     *)
(* step appends to that sequence, takes one link map out of it, or leaves  *)
(* it alone.                                                               *)
(***************************************************************************)
EXTENDS LinkMap, FiniteSetTheorems, SequenceTheorems, Induction

(* The pointers first, last, succ and pred spell the sequence s.           *)
Spells(s, first, last, succ, pred) ==
  LET at(i) == IF i \in 1 .. Len(s) THEN s[i] ELSE Null
  IN  /\ s \in Seq(Node)
      /\ \A i, j \in 1 .. Len(s) : s[i] = s[j] => i = j
      /\ first = at(1)
      /\ last = at(Len(s))
      /\ \A i \in 1 .. Len(s) : succ[s[i]] = at(i + 1) /\ pred[s[i]] = at(i - 1)

-----------------------------------------------------------------------------
(* The walk of a debugger.                                                 *)

(* A list without repetitions is no longer than there are link maps.       *)
LEMMA ListBounded ==
  ASSUME NEW s \in Seq(Node), \A i, j \in 1 .. Len(s) : s[i] = s[j] => i = j
  PROVE  Len(s) <= Cardinality(Node)
<1>1. s \in Injection(1 .. Len(s), Node)
  BY DEF Injection, IsInjective
<1>2. IsFiniteSet(Node)
  BY LinkMapAssumption
<1>3. Len(s) \in Nat /\ Cardinality(1 .. Len(s)) = Len(s)
  BY FS_Interval
<1>4. QED
  BY <1>1, <1>2, <1>3, FS_Injection

(* Where the walk is after i steps.                                        *)
Position == [seq : Seq(Node), at : Node \cup {Null}]

OneStep(succ, p) == IF p.at = Null THEN p
                    ELSE [seq |-> Append(p.seq, p.at), at |-> succ[p.at]]

Iterates(from, first, succ) ==
  /\ from \in [Nat -> Position]
  /\ from[0].seq = <<>> /\ from[0].at = first
  /\ \A n \in Nat : from[n + 1] = OneStep(succ, from[n])

(* The recursion of Walk is well defined.                                  *)
LEMMA WalkIterates ==
  ASSUME NEW first \in Node \cup {Null}, NEW succ \in [Node -> Node \cup {Null}]
  PROVE  \E from : /\ Iterates(from, first, succ)
                   /\ Walk(first, succ) = from[Cardinality(Node) + 1].seq
<1> DEFINE start == [seq |-> <<>>, at |-> first]
           step == [n \in Nat |-> [p \in Position |-> OneStep(succ, p)]]
           Rec(g) == [i \in Nat |->
                        IF i = 0 THEN start
                        ELSE IF g[i - 1].at = Null THEN g[i - 1]
                             ELSE [seq |-> Append(g[i - 1].seq, g[i - 1].at),
                                   at |-> succ[g[i - 1].at]]]
           from == CHOOSE g : g = Rec(g)
<1>1. start \in Position
  BY DEF Position
<1>2. ASSUME NEW p \in Position PROVE OneStep(succ, p) \in Position
  <2>1. CASE p.at = Null
    BY <2>1 DEF OneStep
  <2>2. CASE p.at # Null
    <3>1. p.at \in Node /\ p.seq \in Seq(Node)
      BY <2>2 DEF Position
    <3>2. Append(p.seq, p.at) \in Seq(Node) /\ succ[p.at] \in Node \cup {Null}
      BY <3>1
    <3> QED BY <2>2, <3>2 DEF OneStep, Position
  <2> QED BY <2>1, <2>2
<1>3. step \in [Nat -> [Position -> Position]]
  BY <1>2
<1>4. \A n \in Nat, p \in Position : step[n][p] = OneStep(succ, p)
  OBVIOUS
<1> HIDE DEF step, start
<1> PICK f : IsIteration(f, Position, start, step)
  BY <1>1, <1>3, Iteration
<1>5. /\ f \in [Nat -> Position]
      /\ f[0] = start /\ \A n \in Nat : f[n + 1] = step[n][f[n]]
  BY DEF IsIteration
<1>6. ASSUME NEW i \in Nat PROVE f[i] = Rec(f)[i]
  <2>1. CASE i = 0
    BY <1>5, <2>1
  <2>2. CASE i # 0
    <3>1. i - 1 \in Nat /\ (i - 1) + 1 = i
      BY <2>2
    <3>2. f[i] = OneStep(succ, f[i - 1])
      BY <1>4, <1>5, <3>1
    <3> QED BY <2>2, <3>2 DEF OneStep
  <2> QED BY <2>1, <2>2
<1>7. f = Rec(f)
  BY <1>5, <1>6
<1>8. from = Rec(from)
  <2> HIDE DEF Rec
  <2> QED BY <1>7
<1>9. from[0] = start
  BY <1>8
<1>10. ASSUME NEW n \in Nat PROVE from[n + 1] = OneStep(succ, from[n])
  <2>1. n + 1 \in Nat /\ n + 1 # 0 /\ (n + 1) - 1 = n
    OBVIOUS
  <2>2. Rec(from)[n + 1] = OneStep(succ, from[n])
    <3> HIDE DEF from
    <3> QED BY <2>1 DEF OneStep
  <2> HIDE DEF from, Rec
  <2> QED BY <1>8, <2>2
<1>11. Walk(first, succ) = from[Cardinality(Node) + 1].seq
  BY DEF Walk, start
<1>12. from \in [Nat -> Position]
  <2> DEFINE Typed == {n \in Nat : from[n] \in Position}
  <2>1. 0 \in Typed
    <3> HIDE DEF from
    <3> QED BY <1>1, <1>9
  <2>2. ASSUME NEW n \in Nat, n \in Typed PROVE n + 1 \in Typed
    <3> HIDE DEF from
    <3> QED BY <1>2, <1>10, <2>2
  <2> HIDE DEF Typed
  <2>3. \A n \in Nat : n \in Typed
    BY <2>1, <2>2, NatSetInduction
  <2>4. \A n \in Nat : from[n] \in Position
    BY <2>3 DEF Typed
  <2>5. from = [n \in Nat |-> from[n]]
    <3> HIDE DEF from
    <3> QED BY <1>8
  <2> HIDE DEF from
  <2> QED BY <2>4, <2>5
<1> HIDE DEF from
<1>13. from[0].seq = <<>> /\ from[0].at = first
  BY <1>9 DEF start
<1>14. Iterates(from, first, succ)
  BY <1>10, <1>12, <1>13 DEF Iterates
<1>15. QED
  BY <1>11, <1>14

(* A debugger that walks pointers that spell a sequence finds it.          *)
LEMMA WalkFinds ==
  ASSUME NEW s, NEW first \in Node \cup {Null}, NEW last,
         NEW succ \in [Node -> Node \cup {Null}], NEW pred,
         Spells(s, first, last, succ, pred)
  PROVE  Walk(first, succ) = s
<1> DEFINE at(i) == IF i \in 1 .. Len(s) THEN s[i] ELSE Null
           N == Cardinality(Node)
<1>0. /\ s \in Seq(Node)
      /\ \A i, j \in 1 .. Len(s) : s[i] = s[j] => i = j
      /\ first = at(1)
      /\ \A i \in 1 .. Len(s) : succ[s[i]] = at(i + 1)
  BY DEF Spells
<1> PICK from : /\ Iterates(from, first, succ)
                /\ Walk(first, succ) = from[N + 1].seq
  BY WalkIterates
<1>1. /\ \A n \in Nat : from[n] \in Position
      /\ from[0].seq = <<>> /\ from[0].at = first
      /\ \A n \in Nat : from[n + 1] = OneStep(succ, from[n])
  BY DEF Iterates
<1> DEFINE Here(n) == /\ Len(from[n].seq) = n
                      /\ \A i \in 1 .. n : from[n].seq[i] = s[i]
                      /\ from[n].at = at(n + 1)
           Walked == {n \in Nat : n <= Len(s) => Here(n)}
<1>2. 0 \in Walked
  BY <1>0, <1>1
<1>3. ASSUME NEW n \in Nat, n \in Walked PROVE n + 1 \in Walked
  <2> SUFFICES ASSUME n + 1 <= Len(s) PROVE Here(n + 1)
    OBVIOUS
  <2> DEFINE p == from[n]
  <2>0. n <= Len(s) /\ Len(s) \in Nat /\ p \in Position
    <3>1. s \in Seq(Node) /\ p \in Position
      BY <1>0, <1>1
    <3> HIDE DEF p
    <3> QED BY <3>1
  <2>1. /\ Len(p.seq) = n
        /\ \A i \in 1 .. n : p.seq[i] = s[i]
        /\ p.at = s[n + 1]
        /\ p.seq \in Seq(Node)
    <3>1. Here(n) /\ n + 1 \in 1 .. Len(s)
      BY <1>3, <2>0
    <3>2. p.seq \in Seq(Node)
      BY <2>0 DEF Position
    <3> QED BY <3>1, <3>2
  <2>2. s[n + 1] \in Node /\ n + 1 \in 1 .. Len(s)
    BY <1>0
  <2>3. p.at # Null
    BY <2>1, <2>2, LinkMapAssumption
  <2>4. /\ from[n + 1].seq = Append(p.seq, s[n + 1])
        /\ from[n + 1].at = succ[s[n + 1]]
    <3>1. from[n + 1] = OneStep(succ, p)
      BY <1>1
    <3> HIDE DEF p
    <3> QED BY <2>1, <2>3, <3>1 DEF OneStep
  <2> HIDE DEF p
  <2>5. /\ Len(from[n + 1].seq) = n + 1
        /\ \A i \in 1 .. n + 1 : from[n + 1].seq[i] = s[i]
    BY <2>1, <2>2, <2>4
  <2>6. from[n + 1].at = at((n + 1) + 1)
    BY <1>0, <2>2, <2>4
  <2> QED BY <2>5, <2>6
<1> HIDE DEF Here, Walked
<1>4. \A n \in Nat : n \in Walked
  BY <1>2, <1>3, NatSetInduction
<1>5. Len(s) \in Nat /\ N \in Nat /\ Len(s) <= N
  BY <1>0, ListBounded, LinkMapAssumption, FS_CardinalityType
<1>6. from[Len(s)].seq = s /\ from[Len(s)].at = Null
  <2>1. Here(Len(s))
    BY <1>4, <1>5 DEF Walked
  <2>2. from[Len(s)].seq \in Seq(Node)
    BY <1>1, <1>5 DEF Position
  <2> DEFINE q == from[Len(s)].seq
  <2>3. Len(q) = Len(s) /\ \A i \in 1 .. Len(s) : q[i] = s[i]
    BY <2>1 DEF Here
  <2>4. q = s
    <3>1. q \in Seq(Node) /\ s \in Seq(Node)
      BY <1>0, <2>2
    <3> HIDE DEF q
    <3> QED BY <2>3, <3>1, SeqEqual
  <2>5. from[Len(s)].at = Null
    BY <1>5, <2>1 DEF Here
  <2> QED BY <2>4, <2>5
<1> DEFINE Stays == {n \in Nat : from[Len(s) + n] = from[Len(s)]}
<1>7. 0 \in Stays
  BY <1>5
<1>8. ASSUME NEW n \in Nat, n \in Stays PROVE n + 1 \in Stays
  <2>1. Len(s) + (n + 1) = (Len(s) + n) + 1 /\ Len(s) + n \in Nat
    BY <1>5
  <2>2. from[Len(s) + (n + 1)] = OneStep(succ, from[Len(s) + n])
    BY <1>1, <2>1
  <2> QED BY <1>6, <1>8, <2>2 DEF OneStep
<1> HIDE DEF Stays
<1>9. \A n \in Nat : n \in Stays
  BY <1>7, <1>8, NatSetInduction
<1>10. from[N + 1] = from[Len(s)]
  <2>1. (N + 1) - Len(s) \in Nat /\ Len(s) + ((N + 1) - Len(s)) = N + 1
    BY <1>5
  <2> HIDE DEF N
  <2> QED BY <1>9, <2>1 DEF Stays
<1>11. QED
  BY <1>1, <1>6, <1>10

-----------------------------------------------------------------------------
(* What the two updates of the pointers spell.                             *)

Elems(s) == {s[i] : i \in 1 .. Len(s)}

Pointers == [Node -> Node \cup {Null}]

(* Spells without its abbreviation.                                        *)
LEMMA SpellsFacts ==
  ASSUME NEW s, NEW first, NEW last, NEW succ, NEW pred,
         Spells(s, first, last, succ, pred)
  PROVE  /\ s \in Seq(Node) /\ Len(s) \in Nat
         /\ \A i \in 1 .. Len(s) : s[i] \in Node /\ s[i] # Null
         /\ \A i, j \in 1 .. Len(s) : s[i] = s[j] => i = j
         /\ first = IF Len(s) = 0 THEN Null ELSE s[1]
         /\ last = IF Len(s) = 0 THEN Null ELSE s[Len(s)]
         /\ \A i \in 1 .. Len(s) :
              /\ succ[s[i]] = IF i = Len(s) THEN Null ELSE s[i + 1]
              /\ pred[s[i]] = IF i = 1 THEN Null ELSE s[i - 1]
<1>1. s \in Seq(Node) /\ Len(s) \in Nat
  BY DEF Spells
<1>2. \A i \in 1 .. Len(s) : s[i] \in Node /\ s[i] # Null
  BY <1>1, LinkMapAssumption
<1>3. QED
  BY <1>1, <1>2 DEF Spells

(* The converse.                                                           *)
LEMMA SpellsIntro ==
  ASSUME NEW s \in Seq(Node), NEW first, NEW last, NEW succ, NEW pred,
         \A i, j \in 1 .. Len(s) : s[i] = s[j] => i = j,
         first = IF Len(s) = 0 THEN Null ELSE s[1],
         last = IF Len(s) = 0 THEN Null ELSE s[Len(s)],
         \A i \in 1 .. Len(s) :
           /\ succ[s[i]] = IF i = Len(s) THEN Null ELSE s[i + 1]
           /\ pred[s[i]] = IF i = 1 THEN Null ELSE s[i - 1]
  PROVE  Spells(s, first, last, succ, pred)
<1>1. Len(s) \in Nat
  OBVIOUS
<1>2. \A i \in 1 .. Len(s) :
        /\ i = Len(s) <=> i + 1 \notin 1 .. Len(s)
        /\ i = 1 <=> i - 1 \notin 1 .. Len(s)
  BY <1>1
<1>3. (Len(s) = 0 <=> 1 \notin 1 .. Len(s))
      /\ (Len(s) = 0 <=> Len(s) \notin 1 .. Len(s))
  BY <1>1
<1>4. QED
  BY <1>2, <1>3 DEF Spells

(* add_debug_link_map appends the link map.                                *)
LEMMA SpellsAppend ==
  ASSUME NEW s, NEW first, NEW last, NEW succ \in Pointers,
         NEW pred \in Pointers, Spells(s, first, last, succ, pred),
         NEW n \in Node, n \notin Elems(s)
  PROVE  Spells(Append(s, n), IF last = Null THEN n ELSE first, n,
                Store([succ EXCEPT ![n] = Null], last, n),
                [pred EXCEPT ![n] = last])
<1> DEFINE q == Append(s, n)
           L == Len(s)
           nx == Store([succ EXCEPT ![n] = Null], last, n)
           pv == [pred EXCEPT ![n] = last]
<1>0. /\ s \in Seq(Node) /\ L \in Nat
      /\ \A i \in 1 .. L : s[i] \in Node /\ s[i] # Null
      /\ \A i, j \in 1 .. L : s[i] = s[j] => i = j
      /\ first = IF L = 0 THEN Null ELSE s[1]
      /\ last = IF L = 0 THEN Null ELSE s[L]
      /\ \A i \in 1 .. L :
           /\ succ[s[i]] = IF i = L THEN Null ELSE s[i + 1]
           /\ pred[s[i]] = IF i = 1 THEN Null ELSE s[i - 1]
  BY SpellsFacts
<1>1. /\ q \in Seq(Node) /\ Len(q) = L + 1
      /\ \A i \in 1 .. L : q[i] = s[i]
      /\ q[L + 1] = n
  BY <1>0
<1>2. \A i \in 1 .. L : s[i] # n
  BY DEF Elems
<1>3. pv[n] = last /\ \A m \in Node \ {n} : pv[m] = pred[m]
  BY DEF Pointers
<1>4. /\ nx[n] = Null
      /\ L # 0 => nx[s[L]] = n
      /\ \A m \in Node \ {n} : (L # 0 => m # s[L]) => nx[m] = succ[m]
  <2>1. CASE L = 0
    BY <1>0, <2>1 DEF Store, Pointers
  <2>2. CASE L # 0
    <3>1. L \in 1 .. L /\ last = s[L] /\ last # Null /\ last \in Node /\ last # n
      BY <1>0, <1>2, <2>2
    <3>2. nx = [[succ EXCEPT ![n] = Null] EXCEPT ![last] = n]
      BY <3>1 DEF Store
    <3>3. nx[n] = Null /\ nx[last] = n
          /\ \A m \in Node \ {n} : m # last => nx[m] = succ[m]
      BY <3>1, <3>2 DEF Pointers
    <3> QED BY <2>2, <3>1, <3>3
  <2> QED BY <2>1, <2>2
<1> HIDE DEF q, nx, pv, L
<1>5. \A i, j \in 1 .. Len(q) : q[i] = q[j] => i = j
  <2> SUFFICES ASSUME NEW i \in 1 .. L + 1, NEW j \in 1 .. L + 1, q[i] = q[j]
               PROVE  i = j
    BY <1>1
  <2>1. (i \in 1 .. L \/ i = L + 1) /\ (j \in 1 .. L \/ j = L + 1)
    BY <1>0
  <2> QED BY <1>0, <1>1, <1>2, <2>1
<1>6. ASSUME NEW i \in 1 .. Len(q)
      PROVE  /\ nx[q[i]] = IF i = Len(q) THEN Null ELSE q[i + 1]
             /\ pv[q[i]] = IF i = 1 THEN Null ELSE q[i - 1]
  <2>1. CASE i = L + 1
    <3>1. q[i] = n /\ nx[q[i]] = Null /\ pv[q[i]] = last
      BY <1>1, <1>3, <1>4, <2>1
    <3>2. last = IF i = 1 THEN Null ELSE q[i - 1]
      <4>1. CASE L = 0
        BY <1>0, <2>1, <4>1
      <4>2. CASE L # 0
        <5>1. i # 1 /\ i - 1 = L /\ L \in 1 .. L
          BY <1>0, <2>1, <4>2
        <5> QED BY <1>0, <1>1, <4>2, <5>1
      <4> QED BY <4>1, <4>2
    <3> QED BY <1>1, <2>1, <3>1, <3>2
  <2>2. CASE i \in 1 .. L
    <3>1. q[i] = s[i] /\ s[i] \in Node /\ s[i] # n /\ i # L + 1
      BY <1>0, <1>1, <1>2, <2>2
    <3>2. pv[q[i]] = IF i = 1 THEN Null ELSE q[i - 1]
      <4>1. i # 1 => i - 1 \in 1 .. L
        BY <1>0, <2>2
      <4> QED BY <1>0, <1>1, <1>3, <2>2, <3>1, <4>1
    <3>3. nx[q[i]] = q[i + 1]
      <4>1. CASE i = L
        BY <1>0, <1>1, <1>4, <2>2, <3>1, <4>1
      <4>2. CASE i # L
        <5>1. i + 1 \in 1 .. L /\ L \in 1 .. L /\ L # 0
          BY <1>0, <2>2, <4>2
        <5>2. s[i] # s[L]
          BY <1>0, <2>2, <4>2, <5>1
        <5> QED BY <1>0, <1>1, <1>4, <2>2, <3>1, <4>2, <5>1, <5>2
      <4> QED BY <4>1, <4>2
    <3> QED BY <1>1, <3>1, <3>2, <3>3
  <2>3. i \in 1 .. L \/ i = L + 1
    BY <1>0, <1>1
  <2> QED BY <2>1, <2>2, <2>3
<1>7. (IF last = Null THEN n ELSE first) = q[1] /\ n = q[Len(q)] /\ Len(q) # 0
  <2>1. CASE L = 0
    BY <1>0, <1>1, <2>1
  <2>2. CASE L # 0
    <3>1. 1 \in 1 .. L /\ L \in 1 .. L
      BY <1>0, <2>2
    <3> QED BY <1>0, <1>1, <2>2, <3>1
  <2> QED BY <2>1, <2>2
<1>8. Spells(q, IF last = Null THEN n ELSE first, n, nx, pv)
  BY <1>1, <1>5, <1>6, <1>7, SpellsIntro
<1>9. QED
  BY <1>8 DEF q, nx, pv

(* Drop for ExtraData takes the link map out.                              *)
LEMMA SpellsWithout ==
  ASSUME NEW s, NEW first, NEW last, NEW succ \in Pointers,
         NEW pred \in Pointers, Spells(s, first, last, succ, pred),
         NEW i \in 1 .. Len(s), NEW n, n = s[i]
  PROVE  Spells(List!Without(s, i),
                IF first = n /\ last = n THEN Null
                ELSE IF first = n THEN succ[n] ELSE first,
                IF first = n /\ last = n THEN Null
                ELSE IF last = n THEN pred[n] ELSE last,
                IF first = n THEN succ
                ELSE Store(succ, pred[n], IF last = n THEN Null ELSE succ[n]),
                IF last = n THEN pred
                ELSE Store(pred, succ[n], IF first = n THEN Null ELSE pred[n]))
<1> DEFINE q == List!Without(s, i)
           L == Len(s)
           fs == IF first = n /\ last = n THEN Null
                 ELSE IF first = n THEN succ[n] ELSE first
           ls == IF first = n /\ last = n THEN Null
                 ELSE IF last = n THEN pred[n] ELSE last
           nx == IF first = n THEN succ
                 ELSE Store(succ, pred[n], IF last = n THEN Null ELSE succ[n])
           pv == IF last = n THEN pred
                 ELSE Store(pred, succ[n], IF first = n THEN Null ELSE pred[n])
<1>0. /\ s \in Seq(Node) /\ L \in Nat
      /\ \A k \in 1 .. L : s[k] \in Node /\ s[k] # Null
      /\ \A k, j \in 1 .. L : s[k] = s[j] => k = j
      /\ first = IF L = 0 THEN Null ELSE s[1]
      /\ last = IF L = 0 THEN Null ELSE s[L]
      /\ \A k \in 1 .. L :
           /\ succ[s[k]] = IF k = L THEN Null ELSE s[k + 1]
           /\ pred[s[k]] = IF k = 1 THEN Null ELSE s[k - 1]
  BY SpellsFacts
<1>1. /\ q \in Seq(Node) /\ Len(q) = L - 1
      /\ \A j \in 1 .. L - 1 : q[j] = IF j < i THEN s[j] ELSE s[j + 1]
  <2>1. L - 1 \in Nat
    BY <1>0
  <2>2. q = [j \in 1 .. L - 1 |-> IF j < i THEN s[j] ELSE s[j + 1]]
    BY DEF List!Without
  <2>3. \A j \in 1 .. L - 1 : (IF j < i THEN s[j] ELSE s[j + 1]) \in Node
    BY <1>0
  <2>4. q \in [1 .. L - 1 -> Node]
    BY <2>2, <2>3
  <2>5. q \in Seq(Node)
    BY <2>1, <2>4, SeqDef
  <2> QED BY <2>1, <2>2, <2>5
<1>2. L # 0 /\ 1 \in 1 .. L /\ L \in 1 .. L
  BY <1>0
<1>3. (first = n <=> i = 1) /\ (last = n <=> i = L)
  BY <1>0, <1>2
<1>4. /\ succ[n] = IF i = L THEN Null ELSE s[i + 1]
      /\ pred[n] = IF i = 1 THEN Null ELSE s[i - 1]
  BY <1>0
<1>5. ASSUME NEW k \in 1 .. L
      PROVE  nx[s[k]] = IF k = i - 1 THEN IF i = L THEN Null ELSE s[i + 1]
                        ELSE succ[s[k]]
  <2>1. CASE i = 1
    BY <1>3, <2>1
  <2>2. CASE i # 1
    <3>1. i - 1 \in 1 .. L /\ pred[n] = s[i - 1] /\ s[i - 1] \in Node
          /\ s[i - 1] # Null
      BY <1>0, <1>4, <2>2
    <3>2. nx = [succ EXCEPT ![s[i - 1]] = IF i = L THEN Null ELSE s[i + 1]]
      BY <1>3, <1>4, <2>2, <3>1 DEF Store
    <3>3. s[k] \in Node /\ (s[k] = s[i - 1] <=> k = i - 1)
      BY <1>0, <3>1
    <3> HIDE DEF nx
    <3> QED BY <3>1, <3>2, <3>3 DEF Pointers
  <2> QED BY <2>1, <2>2
<1>6. ASSUME NEW k \in 1 .. L
      PROVE  pv[s[k]] = IF k = i + 1 THEN IF i = 1 THEN Null ELSE s[i - 1]
                        ELSE pred[s[k]]
  <2>1. CASE i = L
    BY <1>3, <2>1
  <2>2. CASE i # L
    <3>1. i + 1 \in 1 .. L /\ succ[n] = s[i + 1] /\ s[i + 1] \in Node
          /\ s[i + 1] # Null
      BY <1>0, <1>4, <2>2
    <3>2. pv = [pred EXCEPT ![s[i + 1]] = IF i = 1 THEN Null ELSE s[i - 1]]
      BY <1>3, <1>4, <2>2, <3>1 DEF Store
    <3>3. s[k] \in Node /\ (s[k] = s[i + 1] <=> k = i + 1)
      BY <1>0, <3>1
    <3> HIDE DEF pv
    <3> QED BY <3>1, <3>2, <3>3 DEF Pointers
  <2> QED BY <2>1, <2>2
<1>7. fs = IF Len(q) = 0 THEN Null ELSE q[1]
  BY <1>0, <1>1, <1>2, <1>3, <1>4
<1>8. ls = IF Len(q) = 0 THEN Null ELSE q[Len(q)]
  BY <1>0, <1>1, <1>2, <1>3, <1>4
<1> HIDE DEF q, nx, pv, L, fs, ls
<1>9. \A k, j \in 1 .. Len(q) : q[k] = q[j] => k = j
  <2> SUFFICES ASSUME NEW k \in 1 .. L - 1, NEW j \in 1 .. L - 1, q[k] = q[j]
               PROVE  k = j
    BY <1>1
  <2>1. k \in 1 .. L /\ k + 1 \in 1 .. L /\ j \in 1 .. L /\ j + 1 \in 1 .. L
    BY <1>0
  <2>2. \/ q[k] = s[k] /\ k < i /\ q[j] = s[j] /\ j < i
        \/ q[k] = s[k + 1] /\ ~(k < i) /\ q[j] = s[j + 1] /\ ~(j < i)
        \/ q[k] = s[k] /\ k < i /\ q[j] = s[j + 1] /\ ~(j < i)
        \/ q[k] = s[k + 1] /\ ~(k < i) /\ q[j] = s[j] /\ j < i
    BY <1>1
  <2>3. \/ k = j
        \/ k + 1 = j + 1
        \/ k = j + 1 /\ k < i /\ ~(j < i)
        \/ k + 1 = j /\ ~(k < i) /\ j < i
    BY <1>0, <2>1, <2>2
  <2>4. i \in Int /\ k \in Int /\ j \in Int
    BY <1>0
  <2> QED BY <2>3, <2>4
<1>10. ASSUME NEW j \in 1 .. Len(q)
       PROVE  /\ nx[q[j]] = IF j = Len(q) THEN Null ELSE q[j + 1]
              /\ pv[q[j]] = IF j = 1 THEN Null ELSE q[j - 1]
  <2>0. j \in 1 .. L - 1 /\ j \in 1 .. L /\ j + 1 \in 1 .. L /\ i \in 1 .. L
        /\ (j = Len(q) <=> j = L - 1) /\ L \in Int
    BY <1>0, <1>1 DEF L
  <2>1. nx[q[j]] = IF j = L - 1 THEN Null ELSE q[j + 1]
    <3>1. CASE j < i - 1
      <4>0. j < i /\ j + 1 < i /\ j + 1 \in 1 .. L - 1 /\ j # L - 1 /\ j # L
        BY <2>0, <3>1
      <4>1. q[j] = s[j] /\ q[j + 1] = s[j + 1] /\ j # L - 1 /\ j # L
        BY <1>1, <2>0, <4>0
      <4>2. nx[s[j]] = succ[s[j]]
        <5>1. j # i - 1
          BY <2>0, <3>1
        <5> QED BY <1>5, <2>0, <5>1
      <4>3. succ[s[j]] = s[j + 1]
        BY <1>0, <2>0, <4>0
      <4> QED BY <4>1, <4>2, <4>3
    <3>2. CASE j = i - 1
      <4>1. q[j] = s[j] /\ nx[s[j]] = IF i = L THEN Null ELSE s[i + 1]
        BY <1>0, <1>1, <1>5, <2>0, <3>2
      <4>2. j = L - 1 <=> i = L
        BY <1>0, <2>0, <3>2
      <4>3. i # L => q[j + 1] = s[i + 1]
        BY <1>0, <1>1, <2>0, <3>2
      <4> QED BY <4>1, <4>2, <4>3
    <3>3. CASE j > i - 1
      <4>0. /\ ~(j < i) /\ ~(j + 1 < i) /\ j + 1 # i - 1 /\ (j + 1) + 1 = j + 2
            /\ j # L - 1 => j + 1 \in 1 .. L - 1
        BY <2>0, <3>3
      <4>1. q[j] = s[j + 1] /\ j + 1 # i - 1 /\ (j # L - 1 => q[j + 1] = s[j + 2])
        BY <1>1, <2>0, <4>0
      <4>2. nx[s[j + 1]] = succ[s[j + 1]]
        BY <1>5, <2>0, <4>1
      <4>3. succ[s[j + 1]] = IF j + 1 = L THEN Null ELSE s[j + 2]
        BY <1>0, <2>0
      <4> QED BY <1>0, <2>0, <4>1, <4>2, <4>3
    <3> QED BY <2>0, <3>1, <3>2, <3>3
  <2>2. pv[q[j]] = IF j = 1 THEN Null ELSE q[j - 1]
    <3>1. CASE j < i
      <4>0. /\ j # i + 1 /\ j - 1 < i
            /\ j # 1 => j - 1 \in 1 .. L - 1
        BY <2>0, <3>1
      <4>1. q[j] = s[j] /\ j # i + 1 /\ (j # 1 => q[j - 1] = s[j - 1])
        BY <1>1, <2>0, <3>1, <4>0
      <4>2. pv[s[j]] = pred[s[j]]
        BY <1>6, <2>0, <4>1
      <4> QED BY <1>0, <2>0, <4>1, <4>2
    <3>2. CASE j = i
      <4>1. q[j] = s[j + 1] /\ pv[s[j + 1]] = IF i = 1 THEN Null ELSE s[i - 1]
        BY <1>0, <1>1, <1>6, <2>0, <3>2
      <4>2. j # 1 => q[j - 1] = s[i - 1]
        <5>1. j # 1 => j - 1 \in 1 .. L - 1 /\ j - 1 < i
          BY <1>0, <2>0, <3>2
        <5> QED BY <1>1, <3>2, <5>1
      <4> QED BY <3>2, <4>1, <4>2
    <3>3. CASE j > i
      <4>0. /\ ~(j < i) /\ ~(j - 1 < i) /\ j + 1 # i + 1 /\ j # 1
            /\ j - 1 \in 1 .. L - 1 /\ (j - 1) + 1 = j
        BY <2>0, <3>3
      <4>1. q[j] = s[j + 1] /\ j + 1 # i + 1 /\ j # 1 /\ q[j - 1] = s[j]
        BY <1>1, <2>0, <4>0
      <4>2. pv[s[j + 1]] = pred[s[j + 1]]
        BY <1>6, <2>0, <4>1
      <4>3. pred[s[j + 1]] = s[j]
        BY <1>0, <2>0
      <4> QED BY <4>1, <4>2, <4>3
    <3> QED BY <2>0, <3>1, <3>2, <3>3
  <2> QED BY <2>0, <2>1, <2>2
<1>11. Spells(q, fs, ls, nx, pv)
  BY <1>1, <1>7, <1>8, <1>9, <1>10, SpellsIntro
<1>12. QED
  BY <1>11 DEF q, fs, ls, nx, pv

(* The link maps of a longer and of a shorter list.                        *)
LEMMA ElemsAppend ==
  ASSUME NEW s \in Seq(Node), NEW n \in Node
  PROVE  Elems(Append(s, n)) = Elems(s) \cup {n}
<1> DEFINE q == Append(s, n)
<1>1. /\ Len(s) \in Nat /\ Len(q) = Len(s) + 1
      /\ \A i \in 1 .. Len(s) : q[i] = s[i]
      /\ q[Len(s) + 1] = n
  OBVIOUS
<1>2. 1 .. Len(s) + 1 = (1 .. Len(s)) \cup {Len(s) + 1}
  BY <1>1
<1> HIDE DEF q
<1>3. {q[i] : i \in 1 .. Len(q)} = {s[i] : i \in 1 .. Len(s)} \cup {n}
  BY <1>1, <1>2
<1>4. QED
  BY <1>3 DEF Elems, q

(* The members of a list without its i-th link map.                        *)
LEMMA ElemsWithout ==
  ASSUME NEW s \in Seq(Node), \A i, j \in 1 .. Len(s) : s[i] = s[j] => i = j,
         NEW i \in 1 .. Len(s)
  PROVE  Elems(List!Without(s, i)) = Elems(s) \ {s[i]}
<1> DEFINE q == List!Without(s, i)
           L == Len(s)
<1>1. L \in Nat /\ L - 1 \in Nat /\ i \in Int
  OBVIOUS
<1>2. q = [j \in 1 .. L - 1 |-> IF j < i THEN s[j] ELSE s[j + 1]]
  BY DEF List!Without
<1>3. Len(q) = L - 1
  BY <1>1, <1>2
<1>4. ASSUME NEW k \in 1 .. L - 1
      PROVE  \E j \in 1 .. L : j # i /\ q[k] = s[j]
  <2>1. k \in 1 .. L /\ k + 1 \in 1 .. L
    BY <1>1
  <2>2. CASE k < i
    BY <1>2, <2>1, <2>2
  <2>3. CASE ~(k < i)
    <3>1. k + 1 # i
      BY <1>1, <2>3
    <3> QED BY <1>2, <2>1, <2>3, <3>1
  <2> QED BY <2>2, <2>3
<1>5. ASSUME NEW j \in 1 .. L, j # i
      PROVE  \E k \in 1 .. L - 1 : q[k] = s[j]
  <2>1. CASE j < i
    <3>1. j \in 1 .. L - 1
      BY <1>1, <2>1
    <3> QED BY <1>2, <2>1, <3>1
  <2>2. CASE ~(j < i)
    <3>1. j - 1 \in 1 .. L - 1 /\ ~(j - 1 < i) /\ (j - 1) + 1 = j
      BY <1>1, <1>5, <2>2
    <3> QED BY <1>2, <3>1
  <2> QED BY <2>1, <2>2
<1> HIDE DEF q
<1>6. \A x : x \in {q[k] : k \in 1 .. L - 1}
               <=> x \in {s[j] : j \in 1 .. L} /\ x # s[i]
  <2>1. \A j \in 1 .. L : j # i => s[j] # s[i]
    OBVIOUS
  <2>2. \A k \in 1 .. L - 1 : q[k] \in {s[j] : j \in 1 .. L} /\ q[k] # s[i]
    BY <1>4, <2>1
  <2>3. \A j \in 1 .. L : s[j] # s[i] => s[j] \in {q[k] : k \in 1 .. L - 1}
    BY <1>5
  <2> QED BY <2>2, <2>3
<1>7. QED
  BY <1>3, <1>6 DEF Elems, q

-----------------------------------------------------------------------------
(* The inductive invariant.                                                *)

(* What the threads own: a link map that a thread is adding or deleting is *)
(* in the list, one that it has unlinked is not, and one that is neither   *)
(* in the list nor in anyone's hands has no predecessor, which is how Drop *)
(* for ExtraData tells that it was never added.                            *)
Owned ==
  /\ \A n \in Elems(Chain) : box[n] # "free"
  /\ \A t \in Thread :
       /\ pc[t] = "idle" <=> node[t] = Null
       /\ node[t] # Null => box[node[t]] = "boxed"
       /\ pc[t] \in {"added", "deleting"} => node[t] \in Elems(Chain)
       /\ pc[t] = "unlinked" => node[t] \notin Elems(Chain)
  /\ \A t, u \in Thread : node[t] = node[u] /\ node[t] # Null => t = u
  /\ \A n \in Node :
       /\ box[n] = "boxed"
       /\ n \notin Elems(Chain)
       /\ \A t \in Thread : node[t] # n
       => prev[n] = Null

Whole == Spells(Chain, map, tail, next, prev)

Inv == TypeOK /\ Whole /\ Owned /\ ~stray

(* The list taken over from the host linker.                               *)
LEMMA InitSpells ==
  ASSUME NEW host \in HostLists, InitFrom(host)
  PROVE  Spells(host, map, tail, next, prev) /\ TypeOK
<1> DEFINE N == Len(host)
           HostNodes == {host[i] : i \in 1 .. N}
           at(i) == IF i \in 1 .. N THEN host[i] ELSE Null
           position(n) == CHOOSE i \in 1 .. N : host[i] = n
<1>1. /\ host \in Seq(Node) /\ N \in Nat
      /\ \A i, j \in 1 .. N : host[i] = host[j] => i = j
  BY LinkMapAssumption
<1>2. \A i : at(i) \in Node \cup {Null}
  BY <1>1
<1>3. /\ lock = NoThread /\ map = at(1) /\ tail = at(N)
      /\ state = RT_CONSISTENT
      /\ next = [n \in Node |-> IF n \in HostNodes THEN at(position(n) + 1)
                                ELSE Null]
      /\ prev = [n \in Node |-> IF n \in HostNodes THEN at(position(n) - 1)
                                ELSE Null]
      /\ box = [n \in Node |-> IF n \in HostNodes THEN "host" ELSE "free"]
      /\ pc = [t \in Thread |-> "idle"] /\ node = [t \in Thread |-> Null]
      /\ stray = FALSE
  BY DEF InitFrom
<1>4. ASSUME NEW i \in 1 .. N
      PROVE  host[i] \in Node /\ host[i] \in HostNodes /\ position(host[i]) = i
  BY <1>1
<1>5. TypeOK
  <2> HIDE DEF HostNodes, position, at
  <2> QED BY <1>2, <1>3 DEF TypeOK, RT_CONSISTENT
<1>6. \A i \in 1 .. N : next[host[i]] = at(i + 1) /\ prev[host[i]] = at(i - 1)
  <2> HIDE DEF HostNodes, position, at
  <2> QED BY <1>3, <1>4
<1>7. QED
  BY <1>1, <1>3, <1>5, <1>6 DEF Spells

(* The invariant holds at first.                                           *)
LEMMA InitInv == Init => Inv /\ Chain \in HostLists
<1> SUFFICES ASSUME NEW host \in HostLists, InitFrom(host)
             PROVE  Inv /\ Chain \in HostLists
  BY DEF Init
<1>1. Spells(host, map, tail, next, prev) /\ TypeOK
  BY InitSpells
<1>2. Chain = host
  BY <1>1, WalkFinds DEF Chain, TypeOK
<1>3. /\ box = [n \in Node |-> IF n \in Elems(host) THEN "host" ELSE "free"]
      /\ pc = [t \in Thread |-> "idle"] /\ node = [t \in Thread |-> Null]
      /\ stray = FALSE
  BY DEF InitFrom, Elems
<1>4. Elems(host) \subseteq Node
  BY <1>1, SpellsFacts DEF Elems
<1>5. Owned
  BY <1>2, <1>3, <1>4 DEF Owned
<1>6. QED
  BY <1>1, <1>2, <1>3, <1>5 DEF Inv, Whole

(* What the invariant says of the ends and the neighbours of a link map.   *)
LEMMA InvFacts ==
  ASSUME Inv
  PROVE  /\ Chain \in Seq(Node) /\ Elems(Chain) \subseteq Node
         /\ \A i, j \in 1 .. Len(Chain) : Chain[i] = Chain[j] => i = j
         /\ map # Null => map \in Elems(Chain)
         /\ tail # Null => tail \in Elems(Chain)
         /\ \A n \in Elems(Chain) :
              /\ map # n => prev[n] \in Elems(Chain) /\ prev[n] # Null
              /\ tail # n => next[n] \in Elems(Chain) /\ next[n] # Null
<1> DEFINE s == Chain
<1>1. /\ s \in Seq(Node) /\ Len(s) \in Nat
      /\ \A i \in 1 .. Len(s) : s[i] \in Node /\ s[i] # Null
      /\ \A i, j \in 1 .. Len(s) : s[i] = s[j] => i = j
      /\ map = IF Len(s) = 0 THEN Null ELSE s[1]
      /\ tail = IF Len(s) = 0 THEN Null ELSE s[Len(s)]
      /\ \A i \in 1 .. Len(s) :
           /\ next[s[i]] = IF i = Len(s) THEN Null ELSE s[i + 1]
           /\ prev[s[i]] = IF i = 1 THEN Null ELSE s[i - 1]
  BY SpellsFacts DEF Inv, Whole
<1> HIDE DEF s
<1>2. \A n : n \in Elems(s) <=> \E i \in 1 .. Len(s) : n = s[i]
  BY DEF Elems
<1>3. Elems(s) \subseteq Node
  BY <1>1, <1>2
<1>4. Len(s) # 0 => 1 \in 1 .. Len(s) /\ Len(s) \in 1 .. Len(s)
  BY <1>1
<1>5. (map # Null => map \in Elems(s)) /\ (tail # Null => tail \in Elems(s))
  BY <1>1, <1>2, <1>4
<1>6. ASSUME NEW n \in Elems(s)
      PROVE  /\ map # n => prev[n] \in Elems(s) /\ prev[n] # Null
             /\ tail # n => next[n] \in Elems(s) /\ next[n] # Null
  <2>1. PICK i \in 1 .. Len(s) : n = s[i]
    BY <1>2
  <2>2. map # n => i # 1 /\ i - 1 \in 1 .. Len(s)
    BY <1>1, <2>1
  <2>3. tail # n => i # Len(s) /\ i + 1 \in 1 .. Len(s)
    BY <1>1, <2>1
  <2> QED BY <1>1, <1>2, <2>1, <2>2, <2>3
<1>7. QED
  BY <1>1, <1>3, <1>5, <1>6 DEF s

-----------------------------------------------------------------------------
(* The steps.                                                              *)

(* A step that spells q from typed pointers leaves q to be found.          *)
LEMMA NewChain ==
  ASSUME TypeOK', NEW q, Spells(q, map', tail', next', prev')
  PROVE  Chain' = q /\ Whole'
<1>1. /\ map' \in Node \cup {Null}
      /\ next' \in [Node -> Node \cup {Null}]
  BY DEF TypeOK
<1>2. Walk(map', next') = q
  BY <1>1, WalkFinds
<1>3. Chain' = q
  BY <1>2 DEF Chain
<1>4. QED
  BY <1>3 DEF Whole

(* A step that leaves the pointers alone leaves the list alone.            *)
LEMMA SameChain ==
  ASSUME UNCHANGED <<map, next>>
  PROVE  Chain' = Chain
BY DEF Chain, Walk

(* A copy of a host link map stays out of the list.                        *)
LEMMA CopyInv ==
  ASSUME Inv, NEW n \in Node, Copy(n)
  PROVE  Inv' /\ Chain' = Chain
<1>1. TypeOK'
  BY DEF Inv, TypeOK, Copy
<1>2. n \notin Elems(Chain)
  BY DEF Inv, Owned, Copy
<1> DEFINE s == Chain
<1>3. /\ s \in Seq(Node)
      /\ \A i \in 1 .. Len(s) : s[i] \in Node /\ s[i] # Null
      /\ \A i, j \in 1 .. Len(s) : s[i] = s[j] => i = j
      /\ map = IF Len(s) = 0 THEN Null ELSE s[1]
      /\ tail = IF Len(s) = 0 THEN Null ELSE s[Len(s)]
      /\ \A i \in 1 .. Len(s) :
           /\ next[s[i]] = IF i = Len(s) THEN Null ELSE s[i + 1]
           /\ prev[s[i]] = IF i = 1 THEN Null ELSE s[i - 1]
  BY SpellsFacts DEF Inv, Whole
<1>4. \A i \in 1 .. Len(s) : s[i] # n
  BY <1>2 DEF Elems
<1> HIDE DEF s
<1>5. \A i \in 1 .. Len(s) : next'[s[i]] = next[s[i]] /\ prev'[s[i]] = prev[s[i]]
  BY <1>3, <1>4 DEF Inv, TypeOK, Copy
<1>6. map' = map /\ tail' = tail
  BY DEF Copy
<1>7. Spells(s, map', tail', next', prev')
  BY <1>3, <1>5, <1>6, SpellsIntro
<1>8. Chain' = Chain /\ Whole'
  BY <1>1, <1>7, NewChain DEF s
<1>9. Owned'
  <2>1. Elems(Chain') = Elems(Chain)
    BY <1>8
  <2>2. Elems(Chain) \subseteq Node
    BY InvFacts
  <2>3. /\ box' = [box EXCEPT ![n] = "boxed"] /\ box \in [Node -> {"free", "host", "boxed"}]
        /\ prev' = [prev EXCEPT ![n] = Null] /\ prev \in [Node -> Node \cup {Null}]
        /\ UNCHANGED <<pc, node>> /\ node \in [Thread -> Node \cup {Null}]
    BY DEF Copy, Inv, TypeOK
  <2>4. Owned
    BY DEF Inv
  <2> HIDE DEF Chain
  <2>5. \A m \in Elems(Chain') : box'[m] # "free"
    BY <2>1, <2>2, <2>3, <2>4 DEF Owned
  <2>6. ASSUME NEW t \in Thread
        PROVE  /\ pc'[t] = "idle" <=> node'[t] = Null
               /\ node'[t] # Null => box'[node'[t]] = "boxed"
               /\ pc'[t] \in {"added", "deleting"} => node'[t] \in Elems(Chain')
               /\ pc'[t] = "unlinked" => node'[t] \notin Elems(Chain')
    BY <2>1, <2>3, <2>4 DEF Owned
  <2>7. \A t, u \in Thread : node'[t] = node'[u] /\ node'[t] # Null => t = u
    BY <2>3, <2>4 DEF Owned
  <2>8. ASSUME NEW m \in Node, box'[m] = "boxed", m \notin Elems(Chain'),
               \A t \in Thread : node'[t] # m
        PROVE  prev'[m] = Null
    BY <2>1, <2>3, <2>4, <2>8 DEF Owned
  <2> QED BY <2>5, <2>6, <2>7, <2>8 DEF Owned
<1>10. QED
  BY <1>1, <1>8, <1>9 DEF Inv, Copy

(* add_debug_link_map appends a link map and writes through the old tail.  *)
LEMMA AddInv ==
  ASSUME Inv, NEW t \in Thread, NEW n \in Node, Add(t, n)
  PROVE  Inv' /\ n \notin Elems(Chain) /\ Chain' = Append(Chain, n)
<1>0. /\ pc[t] = "idle" /\ box[n] = "free"
      /\ lock' = t /\ state' = RT_ADD
      /\ box' = [box EXCEPT ![n] = "boxed"]
      /\ prev' = [prev EXCEPT ![n] = tail]
      /\ next' = Store([next EXCEPT ![n] = Null], tail, n)
      /\ map' = IF tail = Null THEN n ELSE map
      /\ tail' = n
      /\ stray' = (stray \/ (tail # Null /\ ~Valid(tail)))
      /\ pc' = [pc EXCEPT ![t] = "added"]
      /\ node' = [node EXCEPT ![t] = n]
  BY DEF Add
<1>1. TypeOK'
  <2>1. Store([next EXCEPT ![n] = Null], tail, n) \in Pointers
    BY DEF Inv, TypeOK, Store, Pointers
  <2> QED BY <1>0, <2>1 DEF Inv, TypeOK, Pointers, RT_ADD
<1>2. n \notin Elems(Chain)
  BY <1>0 DEF Inv, Owned
<1>3. Spells(Append(Chain, n), map', tail', next', prev')
  <2>1. next \in Pointers /\ prev \in Pointers /\ Spells(Chain, map, tail, next, prev)
    BY DEF Inv, TypeOK, Whole, Pointers
  <2> HIDE DEF Chain
  <2> QED BY <1>0, <1>2, <2>1, SpellsAppend
<1>4. Chain' = Append(Chain, n) /\ Whole'
  BY <1>1, <1>3, NewChain
<1>5. Chain \in Seq(Node) /\ Elems(Chain) \subseteq Node
      /\ (tail # Null => tail \in Elems(Chain))
  BY InvFacts
<1>6. Elems(Chain') = Elems(Chain) \cup {n}
  BY <1>4, <1>5, ElemsAppend
<1>7. ~stray'
  BY <1>0, <1>5 DEF Inv, Owned, Valid
<1>8. Owned'
  <2>1. /\ box \in [Node -> {"free", "host", "boxed"}]
        /\ prev \in [Node -> Node \cup {Null}]
        /\ pc \in [Thread -> {"idle", "added", "deleting", "unlinked"}]
        /\ node \in [Thread -> Node \cup {Null}]
        /\ n # Null
    BY LinkMapAssumption DEF Inv, TypeOK
  <2>2. Owned
    BY DEF Inv
  <2> DEFINE E == Elems(Chain)
  <2>3. Elems(Chain') = E \cup {n} /\ n \notin E /\ E \subseteq Node
    BY <1>2, <1>5, <1>6
  <2>4. /\ \A m \in E : box[m] # "free"
        /\ \A u \in Thread :
             /\ pc[u] = "idle" <=> node[u] = Null
             /\ node[u] # Null => box[node[u]] = "boxed"
             /\ pc[u] \in {"added", "deleting"} => node[u] \in E
             /\ pc[u] = "unlinked" => node[u] \notin E
        /\ \A u, v \in Thread : node[u] = node[v] /\ node[u] # Null => u = v
        /\ \A m \in Node : /\ box[m] = "boxed"
                           /\ m \notin E
                           /\ \A u \in Thread : node[u] # m
                           => prev[m] = Null
    BY <2>2 DEF Owned
  <2> HIDE DEF E
  <2>5. \A m \in E \cup {n} : box'[m] # "free"
    BY <1>0, <2>1, <2>3, <2>4
  <2>6. \A u \in Thread : node[u] # n
    BY <1>0, <2>1, <2>4
  <2>7. ASSUME NEW u \in Thread
        PROVE  /\ pc'[u] = "idle" <=> node'[u] = Null
               /\ node'[u] # Null => box'[node'[u]] = "boxed"
               /\ pc'[u] \in {"added", "deleting"} => node'[u] \in E \cup {n}
               /\ pc'[u] = "unlinked" => node'[u] \notin E \cup {n}
    <3>1. CASE u = t
      BY <1>0, <2>1, <3>1
    <3>2. CASE u # t
      <4>1. pc'[u] = pc[u] /\ node'[u] = node[u]
            /\ (node[u] # Null => box'[node[u]] = box[node[u]])
        BY <1>0, <2>1, <2>6, <3>2
      <4> QED BY <2>4, <2>6, <4>1
    <3> QED BY <3>1, <3>2
  <2>8. \A u, v \in Thread : node'[u] = node'[v] /\ node'[u] # Null => u = v
    BY <1>0, <2>1, <2>4, <2>6
  <2>9. ASSUME NEW m \in Node, box'[m] = "boxed", m \notin E \cup {n},
               \A u \in Thread : node'[u] # m
        PROVE  prev'[m] = Null
    <3>1. box[m] = "boxed" /\ prev'[m] = prev[m] /\ m \notin E
      BY <1>0, <2>1, <2>9
    <3>2. \A u \in Thread : node[u] # m
      <4> SUFFICES ASSUME NEW u \in Thread, node[u] = m PROVE FALSE
        OBVIOUS
      <4>1. CASE u = t
        BY <1>0, <2>1, <2>4, <4>1, LinkMapAssumption
      <4>2. CASE u # t
        BY <1>0, <2>1, <2>9, <4>2
      <4> QED BY <4>1, <4>2
    <3> QED BY <2>4, <3>1, <3>2
  <2> QED BY <2>3, <2>5, <2>7, <2>8, <2>9 DEF Owned
<1>9. QED
  BY <1>1, <1>2, <1>4, <1>7, <1>8 DEF Inv

(* The end of add_debug_link_map leaves the list alone.                    *)
LEMMA AddedInv ==
  ASSUME Inv, NEW t \in Thread, Added(t)
  PROVE  Inv' /\ Chain' = Chain
<1>0. /\ pc[t] = "added" /\ state' = RT_CONSISTENT /\ lock' = NoThread
      /\ pc' = [pc EXCEPT ![t] = "idle"]
      /\ node' = [node EXCEPT ![t] = Null]
      /\ UNCHANGED <<map, tail, next, prev, box, stray>>
  BY DEF Added
<1>1. TypeOK'
  BY <1>0 DEF Inv, TypeOK, RT_CONSISTENT
<1>2. Chain' = Chain
  BY <1>0, SameChain
<1>3. Whole'
  BY <1>0, <1>2 DEF Inv, Whole
<1> DEFINE E == Elems(Chain)
<1>4. Elems(Chain') = E
  BY <1>2
<1>5. Owned'
  <2>1. /\ pc \in [Thread -> {"idle", "added", "deleting", "unlinked"}]
        /\ node \in [Thread -> Node \cup {Null}]
    BY DEF Inv, TypeOK
  <2>2. /\ \A m \in E : box[m] # "free"
        /\ \A u \in Thread :
             /\ pc[u] = "idle" <=> node[u] = Null
             /\ node[u] # Null => box[node[u]] = "boxed"
             /\ pc[u] \in {"added", "deleting"} => node[u] \in E
             /\ pc[u] = "unlinked" => node[u] \notin E
        /\ \A u, v \in Thread : node[u] = node[v] /\ node[u] # Null => u = v
        /\ \A m \in Node : /\ box[m] = "boxed"
                           /\ m \notin E
                           /\ \A u \in Thread : node[u] # m
                           => prev[m] = Null
    BY DEF Inv, Owned
  <2> HIDE DEF E
  <2>3. ASSUME NEW u \in Thread
        PROVE  /\ pc'[u] = "idle" <=> node'[u] = Null
               /\ node'[u] # Null => box[node'[u]] = "boxed"
               /\ pc'[u] \in {"added", "deleting"} => node'[u] \in E
               /\ pc'[u] = "unlinked" => node'[u] \notin E
    BY <1>0, <2>1, <2>2
  <2>4. \A u, v \in Thread : node'[u] = node'[v] /\ node'[u] # Null => u = v
    BY <1>0, <2>1, <2>2
  <2>5. ASSUME NEW m \in Node, box[m] = "boxed", m \notin E,
               \A u \in Thread : node'[u] # m
        PROVE  prev[m] = Null
    <3>1. \A u \in Thread : node[u] # m
      BY <1>0, <2>1, <2>2, <2>5
    <3> QED BY <2>2, <2>5, <3>1
  <2>6. prev' = prev /\ box' = box
    BY <1>0
  <2> QED BY <1>4, <2>2, <2>3, <2>4, <2>5, <2>6 DEF Owned
<1>6. QED
  BY <1>0, <1>1, <1>2, <1>3, <1>5 DEF Inv

(* The early return of Drop for ExtraData is taken exactly for the link    *)
(* maps that are not in the list.                                          *)
LEMMA UnlistedIffOut ==
  ASSUME Inv, NEW n \in Node, box[n] = "boxed",
         \A t \in Thread : node[t] # n
  PROVE  Unlisted(n) <=> n \notin Elems(Chain)
<1>1. n \notin Elems(Chain) => prev[n] = Null
  BY DEF Inv, Owned
<1>2. /\ map # Null => map \in Elems(Chain)
      /\ \A m \in Elems(Chain) : map # m => prev[m] # Null
  BY InvFacts
<1>3. n # Null
  BY LinkMapAssumption
<1>4. QED
  BY <1>1, <1>2, <1>3 DEF Unlisted

(* Drop for ExtraData, up to its first call of brk.                        *)
LEMMA DropInv ==
  ASSUME Inv, NEW t \in Thread, NEW n \in Node, Drop(t, n)
  PROVE  Inv' /\ Chain' = Chain
<1> DEFINE E == Elems(Chain)
<1>0. /\ pc[t] = "idle" /\ box[n] = "boxed" /\ \A u \in Thread : node[u] # n
      /\ node' = [node EXCEPT ![t] = n]
      /\ UNCHANGED <<map, tail, next, prev, box, stray>>
      /\ n # Null
  BY LinkMapAssumption DEF Drop
<1>1. \/ /\ n \notin E
         /\ pc' = [pc EXCEPT ![t] = "unlinked"] /\ UNCHANGED <<lock, state>>
      \/ /\ n \in E
         /\ pc' = [pc EXCEPT ![t] = "deleting"] /\ lock' = t
         /\ state' = RT_DELETE
  BY <1>0, UnlistedIffOut DEF Drop
<1>2. TypeOK'
  BY <1>0, <1>1 DEF Inv, TypeOK, RT_DELETE
<1>3. Chain' = Chain
  BY <1>0, SameChain
<1>4. Whole'
  BY <1>0, <1>3 DEF Inv, Whole
<1>5. Elems(Chain') = E
  BY <1>3
<1>6. Owned'
  <2>1. /\ pc \in [Thread -> {"idle", "added", "deleting", "unlinked"}]
        /\ node \in [Thread -> Node \cup {Null}]
    BY DEF Inv, TypeOK
  <2>2. /\ \A m \in E : box[m] # "free"
        /\ \A u \in Thread :
             /\ pc[u] = "idle" <=> node[u] = Null
             /\ node[u] # Null => box[node[u]] = "boxed"
             /\ pc[u] \in {"added", "deleting"} => node[u] \in E
             /\ pc[u] = "unlinked" => node[u] \notin E
        /\ \A u, v \in Thread : node[u] = node[v] /\ node[u] # Null => u = v
        /\ \A m \in Node : /\ box[m] = "boxed"
                           /\ m \notin E
                           /\ \A u \in Thread : node[u] # m
                           => prev[m] = Null
    BY DEF Inv, Owned
  <2> HIDE DEF E
  <2>3. ASSUME NEW u \in Thread
        PROVE  /\ pc'[u] = "idle" <=> node'[u] = Null
               /\ node'[u] # Null => box[node'[u]] = "boxed"
               /\ pc'[u] \in {"added", "deleting"} => node'[u] \in E
               /\ pc'[u] = "unlinked" => node'[u] \notin E
    <3>1. CASE u = t
      BY <1>0, <1>1, <2>1, <3>1
    <3>2. CASE u # t
      <4>1. pc'[u] = pc[u] /\ node'[u] = node[u]
        BY <1>0, <1>1, <2>1, <3>2
      <4> QED BY <2>2, <4>1
    <3> QED BY <3>1, <3>2
  <2>4. \A u, v \in Thread : node'[u] = node'[v] /\ node'[u] # Null => u = v
    BY <1>0, <2>1, <2>2
  <2>5. ASSUME NEW m \in Node, box[m] = "boxed", m \notin E,
               \A u \in Thread : node'[u] # m
        PROVE  prev[m] = Null
    <3>1. \A u \in Thread : node[u] # m
      <4> SUFFICES ASSUME NEW u \in Thread, node[u] = m PROVE FALSE
        OBVIOUS
      <4>1. CASE u = t
        BY <1>0, <2>2, <4>1, LinkMapAssumption
      <4>2. CASE u # t
        BY <1>0, <2>1, <2>5, <4>2
      <4> QED BY <4>1, <4>2
    <3> QED BY <2>2, <2>5, <3>1
  <2>6. prev' = prev /\ box' = box
    BY <1>0
  <2> QED BY <1>5, <2>2, <2>3, <2>4, <2>5, <2>6 DEF Owned
<1>7. QED
  BY <1>0, <1>2, <1>3, <1>4, <1>6 DEF Inv

(* The match of Drop for ExtraData takes the link map out of the list, and *)
(* the neighbours it writes through are in the list.                       *)
LEMMA UnlinkInv ==
  ASSUME Inv, NEW t \in Thread, Unlink(t)
  PROVE  /\ Inv'
         /\ node[t] \in Node
         /\ \E i \in 1 .. Len(Chain) :
              Chain[i] = node[t] /\ Chain' = List!Without(Chain, i)
<1> DEFINE n == node[t]
           E == Elems(Chain)
<1>0. /\ pc[t] = "deleting"
      /\ map' = IF map = n /\ tail = n THEN Null ELSE IF map = n THEN next[n] ELSE map
      /\ tail' = IF map = n /\ tail = n THEN Null ELSE IF tail = n THEN prev[n] ELSE tail
      /\ next' = IF map = n THEN next
                 ELSE Store(next, prev[n], IF tail = n THEN Null ELSE next[n])
      /\ prev' = IF tail = n THEN prev
                 ELSE Store(prev, next[n], IF map = n THEN Null ELSE prev[n])
      /\ stray' = (stray \/ (map # n /\ ~Valid(prev[n]))
                         \/ (tail # n /\ ~Valid(next[n])))
      /\ state' = RT_CONSISTENT /\ lock' = NoThread
      /\ pc' = [pc EXCEPT ![t] = "unlinked"]
      /\ UNCHANGED <<box, node>>
  BY DEF Unlink
<1>1. n \in E
  BY <1>0 DEF Inv, Owned
<1>2. /\ Chain \in Seq(Node) /\ E \subseteq Node
      /\ \A i, j \in 1 .. Len(Chain) : Chain[i] = Chain[j] => i = j
      /\ \A m \in E :
           /\ map # m => prev[m] \in E /\ prev[m] # Null
           /\ tail # m => next[m] \in E /\ next[m] # Null
  BY InvFacts
<1>3. n \in Node
  BY <1>1, <1>2
<1>4. next \in Pointers /\ prev \in Pointers /\ Spells(Chain, map, tail, next, prev)
  BY DEF Inv, TypeOK, Whole, Pointers
<1>5. TypeOK'
  <2>1. ASSUME NEW f \in Pointers, NEW p \in Node \cup {Null}, NEW v \in Node \cup {Null}
        PROVE  Store(f, p, v) \in Pointers
    BY DEF Store, Pointers
  <2>2. next[n] \in Node \cup {Null} /\ prev[n] \in Node \cup {Null}
    BY <1>3, <1>4 DEF Pointers
  <2>3. next' \in Pointers /\ prev' \in Pointers
    <3> HIDE DEF n
    <3> QED BY <1>0, <1>4, <2>1, <2>2
  <2>4. map' \in Node \cup {Null} /\ tail' \in Node \cup {Null}
    <3> HIDE DEF n
    <3> QED BY <1>0, <2>2 DEF Inv, TypeOK
  <2>5. stray' \in BOOLEAN
    BY <1>0
  <2> QED BY <1>0, <2>3, <2>4, <2>5 DEF Inv, TypeOK, Pointers, RT_CONSISTENT
<1>6. PICK i \in 1 .. Len(Chain) : Chain[i] = n
  BY <1>1 DEF Elems
<1>7. Spells(List!Without(Chain, i), map', tail', next', prev')
  <2> HIDE DEF n, Chain
  <2> QED BY <1>0, <1>4, <1>6, SpellsWithout
<1>8. Chain' = List!Without(Chain, i) /\ Whole'
  BY <1>5, <1>7, NewChain
<1>9. Elems(Chain') = E \ {n}
  BY <1>2, <1>6, <1>8, ElemsWithout
<1>10. ~stray'
  <2>1. (map # n => Valid(prev[n])) /\ (tail # n => Valid(next[n]))
    BY <1>1, <1>2 DEF Inv, Owned, Valid
  <2> QED BY <1>0, <2>1 DEF Inv
<1>11. Owned'
  <2>1. /\ pc \in [Thread -> {"idle", "added", "deleting", "unlinked"}]
        /\ node \in [Thread -> Node \cup {Null}]
        /\ n # Null
    BY <1>3, LinkMapAssumption DEF Inv, TypeOK
  <2>2. /\ \A m \in E : box[m] # "free"
        /\ \A u \in Thread :
             /\ pc[u] = "idle" <=> node[u] = Null
             /\ node[u] # Null => box[node[u]] = "boxed"
             /\ pc[u] \in {"added", "deleting"} => node[u] \in E
             /\ pc[u] = "unlinked" => node[u] \notin E
        /\ \A u, v \in Thread : node[u] = node[v] /\ node[u] # Null => u = v
        /\ \A m \in Node : /\ box[m] = "boxed"
                           /\ m \notin E
                           /\ \A u \in Thread : node[u] # m
                           => prev[m] = Null
    BY DEF Inv, Owned
  <2>3. node' = node /\ box' = box
    BY <1>0
  <2> HIDE DEF E
  <2>4. ASSUME NEW u \in Thread
        PROVE  /\ pc'[u] = "idle" <=> node[u] = Null
               /\ node[u] # Null => box[node[u]] = "boxed"
               /\ pc'[u] \in {"added", "deleting"} => node[u] \in E \ {n}
               /\ pc'[u] = "unlinked" => node[u] \notin E \ {n}
    <3>1. CASE u = t
      BY <1>0, <2>1, <2>2, <3>1
    <3>2. CASE u # t
      <4>1. pc'[u] = pc[u] /\ node[u] # n
        BY <1>0, <2>1, <2>2, <3>2
      <4> QED BY <2>2, <4>1
    <3> QED BY <3>1, <3>2
  <2>5. ASSUME NEW m \in Node, box[m] = "boxed", m \notin E \ {n},
               \A u \in Thread : node[u] # m
        PROVE  prev'[m] = Null
    <3>1. m # n /\ m \notin E /\ prev[m] = Null
      BY <2>2, <2>5
    <3>2. prev'[m] = prev[m]
      <4>1. CASE tail = n
        BY <1>0, <4>1
      <4>2. CASE tail # n
        <5>1. next[n] # m /\ next[n] \in Node /\ next[n] # Null
          BY <1>1, <1>2, <3>1, <4>2
        <5>2. prev' = [prev EXCEPT ![next[n]] = IF map = n THEN Null ELSE prev[n]]
          BY <1>0, <4>2, <5>1 DEF Store
        <5> HIDE DEF n
        <5> QED BY <1>4, <5>1, <5>2 DEF Pointers
      <4> QED BY <4>1, <4>2
    <3> QED BY <3>1, <3>2
  <2> QED BY <1>9, <2>2, <2>3, <2>4, <2>5 DEF Owned
<1>12. QED
  BY <1>3, <1>5, <1>6, <1>8, <1>10, <1>11 DEF Inv

(* The box is freed when its link map is out of the list.                  *)
LEMMA FreeInv ==
  ASSUME Inv, NEW t \in Thread, Free(t)
  PROVE  Inv' /\ Chain' = Chain
<1> DEFINE E == Elems(Chain)
           n == node[t]
<1>0. /\ pc[t] = "unlinked" /\ box' = [box EXCEPT ![n] = "free"]
      /\ pc' = [pc EXCEPT ![t] = "idle"]
      /\ node' = [node EXCEPT ![t] = Null]
      /\ UNCHANGED <<lock, map, tail, state, next, prev, stray>>
  BY DEF Free
<1>1. TypeOK'
  BY <1>0 DEF Inv, TypeOK
<1>2. Chain' = Chain
  BY <1>0, SameChain
<1>3. Whole'
  BY <1>0, <1>2 DEF Inv, Whole
<1>4. Elems(Chain') = E /\ E \subseteq Node
  BY <1>2, InvFacts
<1>5. Owned'
  <2>1. /\ pc \in [Thread -> {"idle", "added", "deleting", "unlinked"}]
        /\ node \in [Thread -> Node \cup {Null}]
        /\ box \in [Node -> {"free", "host", "boxed"}]
    BY DEF Inv, TypeOK
  <2>2. /\ \A m \in E : box[m] # "free"
        /\ \A u \in Thread :
             /\ pc[u] = "idle" <=> node[u] = Null
             /\ node[u] # Null => box[node[u]] = "boxed"
             /\ pc[u] \in {"added", "deleting"} => node[u] \in E
             /\ pc[u] = "unlinked" => node[u] \notin E
        /\ \A u, v \in Thread : node[u] = node[v] /\ node[u] # Null => u = v
        /\ \A m \in Node : /\ box[m] = "boxed"
                           /\ m \notin E
                           /\ \A u \in Thread : node[u] # m
                           => prev[m] = Null
    BY DEF Inv, Owned
  <2>3. n \notin E /\ n \in Node /\ \A m \in Node : m # n => box'[m] = box[m]
    BY <1>0, <2>1, <2>2
  <2>4. \A u \in Thread : u # t => node[u] # n
    BY <1>0, <2>2
  <2>5. box'[n] = "free"
    BY <1>0, <2>1, <2>3
  <2> HIDE DEF E, n
  <2>6. \A m \in E : box'[m] # "free"
    BY <1>4, <2>2, <2>3
  <2>7. ASSUME NEW u \in Thread
        PROVE  /\ pc'[u] = "idle" <=> node'[u] = Null
               /\ node'[u] # Null => box'[node'[u]] = "boxed"
               /\ pc'[u] \in {"added", "deleting"} => node'[u] \in E
               /\ pc'[u] = "unlinked" => node'[u] \notin E
    <3>1. CASE u = t
      BY <1>0, <2>1, <3>1
    <3>2. CASE u # t
      <4>1. pc'[u] = pc[u] /\ node'[u] = node[u] /\ node[u] # n
            /\ node[u] \in Node \cup {Null}
        BY <1>0, <2>1, <2>4, <3>2
      <4> QED BY <2>2, <2>3, <4>1
    <3> QED BY <3>1, <3>2
  <2>8. \A u, v \in Thread : node'[u] = node'[v] /\ node'[u] # Null => u = v
    BY <1>0, <2>1, <2>2
  <2>9. ASSUME NEW m \in Node, box'[m] = "boxed", m \notin E,
               \A u \in Thread : node'[u] # m
        PROVE  prev[m] = Null
    <3>1. m # n /\ box[m] = "boxed"
      BY <2>3, <2>5, <2>9
    <3>2. \A u \in Thread : node[u] # m
      BY <1>0, <2>1, <2>9, <3>1 DEF n
    <3> QED BY <2>2, <2>9, <3>1, <3>2
  <2>10. prev' = prev
    BY <1>0
  <2> QED BY <1>4, <2>6, <2>7, <2>8, <2>9, <2>10 DEF Owned
<1>6. QED
  BY <1>0, <1>1, <1>2, <1>3, <1>5 DEF Inv

(* Every step keeps the invariant, and appends to the list, takes one link *)
(* map out of it, or leaves it alone.                                      *)
LEMMA NextInv ==
  ASSUME Inv, [Next]_vars
  PROVE  Inv' /\ [List!Next]_Chain
<1>1. CASE \E n \in Node : Copy(n)
  BY <1>1, CopyInv
<1>2. CASE \E t \in Thread, n \in Node : Add(t, n)
  <2>1. PICK t \in Thread, n \in Node : Add(t, n)
    BY <1>2
  <2>2. Inv' /\ n \notin Elems(Chain) /\ Chain' = Append(Chain, n)
    BY <2>1, AddInv
  <2>3. List!Append1(n)
    BY <2>2 DEF List!Append1, List!Members, Elems
  <2> QED BY <2>2, <2>3 DEF List!Next
<1>3. CASE \E t \in Thread, n \in Node : Drop(t, n)
  BY <1>3, DropInv
<1>4. CASE \E t \in Thread : Added(t)
  BY <1>4, AddedInv
<1>5. CASE \E t \in Thread : Unlink(t)
  <2>1. PICK t \in Thread : Unlink(t)
    BY <1>5
  <2>2. Inv' /\ node[t] \in Node
        /\ \E i \in 1 .. Len(Chain) :
             Chain[i] = node[t] /\ Chain' = List!Without(Chain, i)
    BY <2>1, UnlinkInv
  <2>3. List!Remove1(node[t])
    BY <2>2 DEF List!Remove1
  <2> QED BY <2>2, <2>3 DEF List!Next
<1>6. CASE \E t \in Thread : Free(t)
  BY <1>6, FreeInv
<1>7. CASE UNCHANGED vars
  <2>1. Chain' = Chain
    BY <1>7, SameChain DEF vars
  <2>2. TypeOK' /\ stray' = stray
    BY <1>7 DEF vars, Inv, TypeOK
  <2>3. Whole' /\ Owned'
    BY <1>7, <2>1 DEF vars, Inv, Whole, Owned
  <2> QED BY <2>1, <2>2, <2>3 DEF Inv
<1>8. QED
  BY <1>1, <1>2, <1>3, <1>4, <1>5, <1>6, <1>7 DEF Next

(* A list that is spelt by the pointers is whole.                          *)
LEMMA InvWhole == Inv => ListWhole
<1> SUFFICES ASSUME Inv PROVE ListWhole
  OBVIOUS
<1> DEFINE s == Chain
<1>1. /\ s \in Seq(Node) /\ Len(s) \in Nat
      /\ \A i \in 1 .. Len(s) : s[i] \in Node /\ s[i] # Null
      /\ \A i, j \in 1 .. Len(s) : s[i] = s[j] => i = j
      /\ tail = IF Len(s) = 0 THEN Null ELSE s[Len(s)]
      /\ \A i \in 1 .. Len(s) : prev[s[i]] = IF i = 1 THEN Null ELSE s[i - 1]
  BY SpellsFacts DEF Inv, Whole
<1>2. \A i \in 1 .. Len(s) : box[s[i]] # "free"
  BY DEF Inv, Owned, Elems
<1> HIDE DEF s
<1>3. Len(s) <= Cardinality(Node)
  BY <1>1, ListBounded
<1>4. Len(s) = 0 <=> s = <<>>
  BY <1>1
<1>5. QED
  BY <1>1, <1>2, <1>3, <1>4 DEF ListWhole, Valid, s

-----------------------------------------------------------------------------
(* The theorems.                                                           *)

(* The invariant holds in every reachable state.                           *)
LEMMA InvAlways == Spec => []Inv
<1>1. Init => Inv
  BY InitInv
<1>2. Inv /\ [Next]_vars => Inv'
  BY NextInv
<1>3. QED
  BY <1>1, <1>2, PTL DEF Spec

(* Every pointer of r_debug is null or a link map's.                       *)
THEOREM TypeCorrect == Spec => []TypeOK
<1>1. Inv => TypeOK
  BY DEF Inv
<1>2. QED
  BY <1>1, InvAlways, PTL

(* Wherever a debugger stops the process it walks a list that ends at the  *)
(* cached tail, that l_prev leads back through and that holds no freed     *)
(* link map, whatever threads load and drop libraries.                     *)
THEOREM DebuggerFindsAList == Spec => []ListWhole
<1>1. QED
  BY InvWhole, InvAlways, PTL

(* add_debug_link_map and Drop for ExtraData never write through a pointer *)
(* that is null or freed.                                                  *)
THEOREM NeverStray == Spec => []NoStrayAccess
<1>1. Inv => NoStrayAccess
  BY DEF Inv, NoStrayAccess
<1>2. QED
  BY <1>1, InvAlways, PTL

(* The pointers implement the sequence of module LinkList: loading appends *)
(* a link map, unloading takes that link map out, and nothing else changes *)
(* the list a debugger walks.                                              *)
THEOREM Refinement == Spec => ImplementsList
<1>1. Init => List!Init
  BY InitInv DEF List!Init
<1>2. Inv /\ [Next]_vars => [List!Next]_Chain
  BY NextInv
<1>3. QED
  BY <1>1, <1>2, InvAlways, PTL DEF Spec, ImplementsList, List!Spec
=============================================================================
