----------------------------- MODULE Induction -----------------------------
(***************************************************************************)
(* Induction and recursion over the naturals for the proofs of the other   *)
(* modules.  The statements are about sets and functions, never about      *)
(* operators: a user names the set of numbers that have the property at    *)
(* hand, or the function that a recursive definition iterates.             *)
(***************************************************************************)
EXTENDS Filter, FiniteSetTheorems, WellFoundedInduction, TLAPS

(* A set of naturals has a least element.                                  *)
LEMMA LeastNat ==
  ASSUME NEW T \in SUBSET Nat, T # {}
  PROVE  \E m \in T : \A k \in T : m <= k
<1> DEFINE R == OpToRel(<, Nat)
<1>1. IsWellFoundedOn(R, Nat)
  BY NatLessThanWellFounded
<1>2. \A x, y \in Nat : <<x, y>> \in R <=> x < y
  BY DEF OpToRel
<1> HIDE DEF R
<1>3. PICK x \in T : \A y \in T : ~(<<y, x>> \in R)
  BY <1>1, WFMin
<1>4. ASSUME NEW y \in T PROVE x <= y
  <2>1. ~(y < x)
    BY <1>2, <1>3, x \in Nat, y \in Nat
  <2> QED BY <2>1
<1>5. QED
  BY <1>4

(* A set that holds zero and with each number the next holds all naturals. *)
LEMMA NatSetInduction ==
  ASSUME NEW S, 0 \in S, \A n \in Nat : n \in S => n + 1 \in S
  PROVE  \A n \in Nat : n \in S
<1> DEFINE T == Nat \ S
<1> SUFFICES ASSUME T # {} PROVE FALSE
  OBVIOUS
<1>1. PICK m \in T : \A k \in T : m <= k
  BY LeastNat
<1>2. m - 1 \in Nat /\ m - 1 \notin T
  BY <1>1
<1>3. QED
  BY <1>1, <1>2

(* The first n + 1 values of the iteration of step from a.                 *)
Prefixes(S, a, step, n) ==
  {g \in [0 .. n -> S] : /\ g[0] = a
                         /\ \A i \in 0 .. n - 1 : g[i + 1] = step[i][g[i]]}

(* Two prefixes agree where both are defined.                              *)
LEMMA PrefixesAgree ==
  ASSUME NEW S, NEW a, NEW step, NEW m \in Nat, NEW n \in Nat,
         NEW g \in Prefixes(S, a, step, m), NEW h \in Prefixes(S, a, step, n),
         NEW i \in Nat, i <= m, i <= n
  PROVE  g[i] = h[i]
<1> DEFINE Same == {j \in Nat : j <= m /\ j <= n => g[j] = h[j]}
<1>1. 0 \in Same
  BY DEF Prefixes
<1>2. ASSUME NEW j \in Nat, j \in Same PROVE j + 1 \in Same
  <2> SUFFICES ASSUME j + 1 <= m, j + 1 <= n PROVE g[j + 1] = h[j + 1]
    OBVIOUS
  <2>1. g[j] = h[j] /\ j \in 0 .. m - 1 /\ j \in 0 .. n - 1
    BY <1>2
  <2> QED BY <2>1 DEF Prefixes
<1> HIDE DEF Same
<1>3. i \in Same
  BY <1>1, <1>2, NatSetInduction
<1>4. QED
  BY <1>3 DEF Same

(* Every number of steps can be taken.                                     *)
LEMMA PrefixesExist ==
  ASSUME NEW S, NEW a \in S, NEW step \in [Nat -> [S -> S]]
  PROVE  \A n \in Nat : Prefixes(S, a, step, n) # {}
<1> DEFINE Some == {n \in Nat : Prefixes(S, a, step, n) # {}}
<1>1. 0 \in Some
  <2> DEFINE g == [i \in 0 .. 0 |-> a]
  <2>1. g \in Prefixes(S, a, step, 0)
    BY DEF Prefixes
  <2> QED BY <2>1
<1>2. ASSUME NEW n \in Nat, n \in Some PROVE n + 1 \in Some
  <2> PICK g : g \in Prefixes(S, a, step, n)
    BY <1>2
  <2> DEFINE h == [i \in 0 .. n + 1 |-> IF i <= n THEN g[i] ELSE step[n][g[n]]]
  <2>1. g \in [0 .. n -> S] /\ g[0] = a
        /\ \A i \in 0 .. n - 1 : g[i + 1] = step[i][g[i]]
    BY DEF Prefixes
  <2>2. step[n][g[n]] \in S
    BY <2>1
  <2>3. h \in [0 .. n + 1 -> S] /\ h[0] = a
    BY <2>1, <2>2
  <2>4. ASSUME NEW i \in 0 .. (n + 1) - 1 PROVE h[i + 1] = step[i][h[i]]
    <3>1. CASE i = n
      BY <3>1
    <3>2. CASE i # n
      <4>1. i \in 0 .. n - 1 /\ i + 1 <= n /\ i <= n /\ i + 1 \in 0 .. n + 1
            /\ i \in 0 .. n + 1
        BY <3>2
      <4>2. h[i + 1] = g[i + 1] /\ h[i] = g[i]
        BY <4>1
      <4> QED BY <2>1, <4>1, <4>2
    <3> QED BY <3>1, <3>2
  <2> HIDE DEF h
  <2>5. h \in Prefixes(S, a, step, n + 1)
    BY <2>3, <2>4 DEF Prefixes
  <2> QED BY <2>5
<1> HIDE DEF Some
<1>3. \A n \in Nat : n \in Some
  BY <1>1, <1>2, NatSetInduction
<1>4. QED
  BY <1>3 DEF Some

IsIteration(f, S, a, step) ==
  /\ f \in [Nat -> S]
  /\ f[0] = a
  /\ \A n \in Nat : f[n + 1] = step[n][f[n]]

(* A function can be iterated for ever.                                    *)
LEMMA Iteration ==
  ASSUME NEW S, NEW a \in S, NEW step \in [Nat -> [S -> S]]
  PROVE  \E f : IsIteration(f, S, a, step)
<1> DEFINE P(n) == Prefixes(S, a, step, n)
           pick(n) == CHOOSE g \in P(n) : TRUE
           f == [n \in Nat |-> pick(n)[n]]
<1>1. \A n \in Nat : P(n) # {}
  BY PrefixesExist
<1>2. ASSUME NEW n \in Nat PROVE pick(n) \in P(n)
  BY <1>1
<1>3. ASSUME NEW n \in Nat, NEW g \in P(n)
      PROVE  /\ g \in [0 .. n -> S] /\ g[0] = a
             /\ \A i \in 0 .. n - 1 : g[i + 1] = step[i][g[i]]
  BY DEF Prefixes
<1>4. ASSUME NEW m \in Nat, NEW n \in Nat, NEW g \in P(m), NEW h \in P(n),
             NEW i \in Nat, i <= m, i <= n
      PROVE  g[i] = h[i]
  BY <1>4, PrefixesAgree
<1> HIDE DEF P
<1>5. ASSUME NEW n \in Nat PROVE f[n] \in S
  <2>1. pick(n) \in [0 .. n -> S]
    BY <1>2, <1>3
  <2> QED BY <2>1
<1>6. f[0] = a
  <2>1. pick(0)[0] = a
    BY <1>2, <1>3
  <2> QED BY <2>1
<1>7. ASSUME NEW n \in Nat PROVE f[n + 1] = step[n][f[n]]
  <2> DEFINE g == pick(n + 1)
  <2>1. g \in P(n + 1) /\ pick(n) \in P(n)
    BY <1>2
  <2>2. g[n + 1] = step[n][g[n]]
    BY <1>3, <2>1
  <2>3. g[n] = pick(n)[n]
    <3> HIDE DEF pick
    <3> QED BY <1>4, <2>1
  <2> QED BY <2>2, <2>3
<1>8. f \in [Nat -> S]
  BY <1>5
<1> HIDE DEF f
<1>9. IsIteration(f, S, a, step)
  BY <1>6, <1>7, <1>8 DEF IsIteration
<1>10. QED
  BY <1>9

(* f is computed from N + 2 down, each value from the two after it.        *)
IsDownward(f, S, a, N, step) ==
  /\ f \in [1 .. N + 2 -> S]
  /\ f[N + 1] = a /\ f[N + 2] = a
  /\ \A n \in 1 .. N : f[n] = step[n][<<f[n + 1], f[n + 2]>>]

(* Such a recursion has a solution.                                        *)
LEMMA DownwardRecursion ==
  ASSUME NEW S, NEW a \in S, NEW N \in Nat, NEW step \in [1 .. N -> [S \X S -> S]]
  PROVE  \E f : IsDownward(f, S, a, N, step)
<1> DEFINE next(k, p) == IF k < N THEN <<step[N - k][p], p[1]>> ELSE p
           down == [k \in Nat |-> [p \in S \X S |-> next(k, p)]]
<1>1. ASSUME NEW k \in Nat, NEW p \in S \X S PROVE next(k, p) \in S \X S
  <2>1. CASE k < N
    <3>1. N - k \in 1 .. N
      BY <2>1
    <3>2. step[N - k][p] \in S /\ p[1] \in S
      BY <3>1
    <3> QED BY <2>1, <3>2
  <2> QED BY <2>1
<1>2. down \in [Nat -> [S \X S -> S \X S]]
  <2> HIDE DEF next
  <2> QED BY <1>1
<1>3. \A k \in Nat, p \in S \X S : down[k][p] = next(k, p)
  <2> HIDE DEF next
  <2> QED OBVIOUS
<1>4. <<a, a>> \in S \X S
  OBVIOUS
<1> HIDE DEF down
<1> PICK h : IsIteration(h, S \X S, <<a, a>>, down)
  BY <1>2, <1>4, Iteration
<1>5. /\ h \in [Nat -> S \X S] /\ h[0] = <<a, a>>
      /\ \A k \in Nat : h[k + 1] = down[k][h[k]]
  BY DEF IsIteration
<1>6. ASSUME NEW k \in Nat, k < N
      PROVE  /\ h[k + 1][1] = step[N - k][h[k]]
             /\ h[k + 1][2] = h[k][1]
  <2>1. h[k] \in S \X S /\ h[k + 1] = next(k, h[k])
    BY <1>3, <1>5
  <2> QED BY <1>6, <2>1
<1> DEFINE f == [n \in 1 .. N + 2 |-> IF n = N + 2 THEN a ELSE h[N + 1 - n][1]]
<1>7. ASSUME NEW n \in 1 .. N + 1
      PROVE  /\ N + 1 - n \in Nat /\ f[n] = h[N + 1 - n][1]
             /\ f[n + 1] = h[N + 1 - n][2]
             /\ h[N + 1 - n] = <<f[n], f[n + 1]>>
  <2>1. N + 1 - n \in Nat /\ n # N + 2 /\ n \in 1 .. N + 2 /\ n + 1 \in 1 .. N + 2
    OBVIOUS
  <2>2. f[n] = h[N + 1 - n][1]
    BY <2>1
  <2>3. f[n + 1] = h[N + 1 - n][2]
    <3>1. CASE n = N + 1
      <4>1. N + 1 - n = 0 /\ n + 1 = N + 2
        BY <3>1
      <4>2. f[N + 2] = a /\ h[0][2] = a
        BY <1>5
      <4> HIDE DEF f
      <4> QED BY <4>1, <4>2
    <3>2. CASE n # N + 1
      <4>1. N - n \in Nat /\ N - n < N /\ (N - n) + 1 = N + 1 - n
            /\ N + 1 - (n + 1) = N - n /\ n + 1 # N + 2
        BY <3>2
      <4>2. h[N + 1 - n][2] = h[N - n][1]
        BY <1>6, <4>1
      <4> QED BY <2>1, <4>1, <4>2
    <3> QED BY <3>1, <3>2
  <2>4. h[N + 1 - n] \in S \X S
    BY <1>5, <2>1
  <2> HIDE DEF f
  <2> QED BY <2>1, <2>2, <2>3, <2>4
<1>8. f \in [1 .. N + 2 -> S]
  <2>1. ASSUME NEW n \in 1 .. N + 2, n # N + 2 PROVE h[N + 1 - n][1] \in S
    <3>1. N + 1 - n \in Nat
      BY <2>1
    <3>2. h[N + 1 - n] \in S \X S
      BY <1>5, <3>1
    <3> QED BY <3>2
  <2> QED BY <2>1
<1>9. f[N + 2] = a
  OBVIOUS
<1>10. f[N + 1] = a
  <2>1. N + 1 \in 1 .. N + 1 /\ N + 1 - (N + 1) = 0
    OBVIOUS
  <2> HIDE DEF f
  <2> QED BY <1>5, <1>7, <2>1
<1> HIDE DEF f
<1>11. ASSUME NEW n \in 1 .. N PROVE f[n] = step[n][<<f[n + 1], f[n + 2]>>]
  <2>1. /\ n \in 1 .. N + 1 /\ n + 1 \in 1 .. N + 1
        /\ N - n \in Nat /\ N - n < N /\ (N - n) + 1 = N + 1 - n
        /\ N - (N - n) = n /\ N + 1 - (n + 1) = N - n /\ (n + 1) + 1 = n + 2
    OBVIOUS
  <2>2. f[n] = h[N + 1 - n][1]
    BY <1>7, <2>1
  <2>3. h[N + 1 - n][1] = step[n][h[N - n]]
    BY <1>6, <2>1
  <2>4. h[N - n] = <<f[n + 1], f[n + 2]>>
    BY <1>7, <2>1
  <2> QED BY <2>2, <2>3, <2>4
<1>12. QED
  BY <1>8, <1>9, <1>10, <1>11 DEF IsDownward
-----------------------------------------------------------------------------
(* Counting.                                                               *)

(* How many members of a set of numbers are at most n.                     *)
NumberTo(S, n) == Cardinality({m \in S : m <= n})

LEMMA CountTo ==
  ASSUME NEW S \in SUBSET Nat, NEW n \in Nat \ {0}
  PROVE  /\ NumberTo(S, n) \in Nat /\ NumberTo(S, n - 1) \in Nat
         /\ NumberTo(S, n) = IF n \in S THEN NumberTo(S, n - 1) + 1 ELSE NumberTo(S, n - 1)
<1> DEFINE T(k) == {m \in S : m <= k}
<1>0. \A m \in S : m \in Nat
  OBVIOUS
<1>1. \A k \in Nat : IsFiniteSet(T(k)) /\ Cardinality(T(k)) \in Nat
  <2> SUFFICES ASSUME NEW k \in Nat PROVE IsFiniteSet(T(k)) /\ Cardinality(T(k)) \in Nat
    OBVIOUS
  <2>1. IsFiniteSet(0 .. k)
    BY 0 \in Int, k \in Int, FS_Interval
  <2>3. T(k) \subseteq 0 .. k
    <3> SUFFICES ASSUME NEW m \in T(k) PROVE m \in 0 .. k
      OBVIOUS
    <3>1. m \in Nat /\ m <= k
      BY <1>0
    <3> QED BY <3>1
  <2>2. IsFiniteSet(T(k))
    BY <2>1, <2>3, FS_Subset
  <2> QED BY <2>2, FS_CardinalityType
<1>2. n - 1 \in Nat /\ n \in Nat /\ n <= n /\ ~(n <= n - 1)
      /\ \A m \in Nat : m <= n <=> m <= n - 1 \/ m = n
  OBVIOUS
<1>3. CASE n \in S
  <2>1. T(n) = T(n - 1) \cup {n} /\ n \notin T(n - 1)
    BY <1>0, <1>2, <1>3
  <2>2. Cardinality(T(n - 1) \cup {n}) = Cardinality(T(n - 1)) + 1
    <3> HIDE DEF T
    <3> QED BY <1>1, <1>2, <2>1, FS_AddElement
  <2> HIDE DEF T
  <2>3. Cardinality(T(n)) = Cardinality(T(n - 1)) + 1
    BY <2>1, <2>2
  <2> QED BY <1>1, <1>2, <1>3, <2>3 DEF T, NumberTo
<1>4. CASE n \notin S
  <2>1. T(n) = T(n - 1)
    BY <1>0, <1>2, <1>4
  <2> HIDE DEF T
  <2>2. Cardinality(T(n)) = Cardinality(T(n - 1))
    BY <2>1
  <2> QED BY <1>1, <1>2, <1>4, <2>2 DEF T, NumberTo
<1>5. QED
  BY <1>3, <1>4


-----------------------------------------------------------------------------
(* Filtering a list.                                                       *)

(* f is the loop over s that keeps the members of S.                       *)
Filters(f, s, S) ==
  /\ f[0] = <<>>
  /\ \A n \in Nat : f[n + 1] = IF s[n + 1] \in S THEN Append(f[n], s[n + 1])
                               ELSE f[n]

(* Only is what that loop ends with.                                       *)
LEMMA OnlyIterates ==
  ASSUME NEW s, NEW S
  PROVE  \E f : Filters(f, s, S) /\ Only(s, S) = f[Len(s)]
<1> DEFINE Any == Seq({s[i] : i \in Nat})
           step == [n \in Nat |-> [p \in Any |->
                      IF s[n + 1] \in S THEN Append(p, s[n + 1]) ELSE p]]
           Rec(g) == [i \in Nat |->
                        IF i = 0 THEN <<>>
                        ELSE IF s[i] \in S THEN Append(g[i - 1], s[i])
                             ELSE g[i - 1]]
           f == CHOOSE g : g = Rec(g)
<1>1. <<>> \in Any
  OBVIOUS
<1>2. step \in [Nat -> [Any -> Any]]
  <2>1. ASSUME NEW n \in Nat, NEW p \in Any
        PROVE  (IF s[n + 1] \in S THEN Append(p, s[n + 1]) ELSE p) \in Any
    <3> DEFINE A == {s[i] : i \in Nat}
    <3>1. s[n + 1] \in A /\ p \in Seq(A)
      OBVIOUS
    <3> HIDE DEF A
    <3>2. Append(p, s[n + 1]) \in Seq(A)
      BY <3>1
    <3> QED BY <3>1, <3>2 DEF A
  <2> HIDE DEF Any
  <2> QED BY <2>1
<1>3. \A n \in Nat, p \in Any :
        step[n][p] = IF s[n + 1] \in S THEN Append(p, s[n + 1]) ELSE p
  <2> HIDE DEF Any
  <2> QED OBVIOUS
<1> HIDE DEF step, Any
<1> PICK h : IsIteration(h, Any, <<>>, step)
  BY <1>1, <1>2, Iteration
<1>4. /\ h \in [Nat -> Any]
      /\ h[0] = <<>> /\ \A n \in Nat : h[n + 1] = step[n][h[n]]
  BY DEF IsIteration
<1>5. ASSUME NEW i \in Nat PROVE h[i] = Rec(h)[i]
  <2>1. CASE i = 0
    BY <1>4, <2>1
  <2>2. CASE i # 0
    <3>1. i - 1 \in Nat /\ (i - 1) + 1 = i
      BY <2>2
    <3>2. h[i - 1] \in Any /\ h[i] = step[i - 1][h[i - 1]]
      BY <1>4, <3>1
    <3>3. h[i] = IF s[i] \in S THEN Append(h[i - 1], s[i]) ELSE h[i - 1]
      BY <1>3, <3>1, <3>2
    <3> QED BY <2>2, <3>3
  <2> QED BY <2>1, <2>2
<1>6. h = Rec(h)
  BY <1>4, <1>5
<1>7. f = Rec(f)
  <2> HIDE DEF Rec
  <2> QED BY <1>6
<1>8. f[0] = <<>>
  BY <1>7
<1>9. ASSUME NEW n \in Nat
      PROVE  f[n + 1] = IF s[n + 1] \in S THEN Append(f[n], s[n + 1]) ELSE f[n]
  <2>1. n + 1 \in Nat /\ n + 1 # 0 /\ (n + 1) - 1 = n
    OBVIOUS
  <2>2. Rec(f)[n + 1] = IF s[n + 1] \in S THEN Append(f[n], s[n + 1]) ELSE f[n]
    <3> HIDE DEF f
    <3> QED BY <2>1
  <2> HIDE DEF f, Rec
  <2> QED BY <1>7, <2>2
<1>10. Only(s, S) = f[Len(s)]
  BY DEF Only
<1> HIDE DEF f
<1>11. QED
  BY <1>8, <1>9, <1>10 DEF Filters
=============================================================================
