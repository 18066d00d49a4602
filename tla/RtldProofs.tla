----------------------------- MODULE RtldProofs -----------------------------
(***************************************************************************)
(* Proofs about module Rtld and its three parts: Bootstrap, for command    *)
(* lines, environments and auxiliary vectors of every length; SelfReloc,   *)
(* for dynamic sections and relocation tables of every length; Inspect,    *)
(* for files with any number of headers, dynamic entries and names.        *)
(***************************************************************************)
EXTENDS Rtld, FiniteSetTheorems, Induction

-----------------------------------------------------------------------------
(* The words of a stack.                                                   *)

Joined(r, s, t) ==
  /\ r \in Seq(Nat)
  /\ Len(r) = Len(s) + Len(t)
  /\ \A i \in 1 .. Len(s) : r[i] = s[i]
  /\ \A i \in 1 .. Len(t) : r[Len(s) + i] = t[i]

LEMMA Joins ==
  ASSUME NEW s \in Seq(Nat), NEW t \in Seq(Nat)
  PROVE  Joined(s \o t, s, t)
  BY DEF Joined

(* Where the auxiliary vector starts, and how many words there are.        *)
Base(argv, envp) == Len(argv) + Len(envp) + 3
Total(argv, envp, aux) == Base(argv, envp) + 2 * Len(aux) + 2

(* m holds these words.                                                    *)
Layout(m, argv, envp, aux) ==
  LET a == Len(argv)
      e == Len(envp)
      b == a + e + 3
      x == Len(aux)
  IN  /\ m[0] = a
      /\ \A i \in 1 .. a : m[i] = argv[i]
      /\ m[a + 1] = 0
      /\ \A i \in 1 .. e : m[a + 1 + i] = envp[i]
      /\ m[a + e + 2] = 0
      /\ \A k \in 1 .. x : m[b + 2 * k - 2] = aux[k][1] /\ m[b + 2 * k - 1] = aux[k][2]
      /\ m[b + 2 * x] = 0
      /\ m[b + 2 * x + 1] = 0

(* The pairs of an auxiliary vector, one after the other.                  *)
Flat(aux) == [i \in 1 .. 2 * Len(aux) |-> aux[(i + 1) \div 2][2 - (i % 2)]]

LEMMA FlatFacts ==
  ASSUME NEW aux \in Seq(Nat \X Nat)
  PROVE  /\ Flat(aux) \in Seq(Nat) /\ Len(Flat(aux)) = 2 * Len(aux)
         /\ \A k \in 1 .. Len(aux) :
              Flat(aux)[2 * k - 1] = aux[k][1] /\ Flat(aux)[2 * k] = aux[k][2]
<1>1. Len(aux) \in Nat /\ \A k \in 1 .. Len(aux) : aux[k] \in Nat \X Nat
  OBVIOUS
<1>2. \A k \in 1 .. Len(aux) : aux[k][1] \in Nat /\ aux[k][2] \in Nat
  BY <1>1
<1>3. ASSUME NEW i \in 1 .. 2 * Len(aux)
      PROVE  (i + 1) \div 2 \in 1 .. Len(aux) /\ 2 - (i % 2) \in {1, 2}
  BY <1>1
<1>4. ASSUME NEW i \in 1 .. 2 * Len(aux) PROVE aux[(i + 1) \div 2][2 - (i % 2)] \in Nat
  BY <1>2, <1>3
<1>5. Flat(aux) \in Seq(Nat) /\ Len(Flat(aux)) = 2 * Len(aux)
  BY <1>1, <1>4 DEF Flat
<1>6. ASSUME NEW k \in 1 .. Len(aux)
      PROVE  Flat(aux)[2 * k - 1] = aux[k][1] /\ Flat(aux)[2 * k] = aux[k][2]
  <2>1. /\ 2 * k - 1 \in 1 .. 2 * Len(aux) /\ 2 * k \in 1 .. 2 * Len(aux)
        /\ ((2 * k - 1) + 1) \div 2 = k /\ 2 - ((2 * k - 1) % 2) = 1
        /\ (2 * k + 1) \div 2 = k /\ 2 - ((2 * k) % 2) = 2
    BY <1>1
  <2> QED BY <2>1 DEF Flat
<1>7. QED
  BY <1>5, <1>6

(* Every word of the pairs is the first or the second of one.              *)
LEMMA FlatPlace ==
  ASSUME NEW x \in Nat, NEW i \in 1 .. 2 * x
  PROVE  \E k \in 1 .. x : i = 2 * k - 1 \/ i = 2 * k
<1>1. (i + 1) \div 2 \in 1 .. x /\ (i = 2 * ((i + 1) \div 2) - 1 \/ i = 2 * ((i + 1) \div 2))
  OBVIOUS
<1>2. QED
  BY <1>1

(* The words that the kernel pushes.                                       *)
Spelled(w, argv, envp, aux) ==
  LET a == Len(argv)
      e == Len(envp)
      b == a + e + 3
      x == Len(aux)
  IN  /\ w \in Seq(Nat) /\ Len(w) = b + 2 * x + 2
      /\ w[1] = a
      /\ \A i \in 1 .. a : w[i + 1] = argv[i]
      /\ w[a + 2] = 0
      /\ \A i \in 1 .. e : w[a + 2 + i] = envp[i]
      /\ w[a + e + 3] = 0
      /\ \A k \in 1 .. x : w[b + 2 * k - 1] = aux[k][1] /\ w[b + 2 * k] = aux[k][2]
      /\ w[b + 2 * x + 1] = 0
      /\ w[b + 2 * x + 2] = 0

LEMMA WordsFacts ==
  ASSUME NEW argv \in Seq(Nat), NEW envp \in Seq(Nat), NEW aux \in Seq(Nat \X Nat)
  PROVE  Spelled(Words(Len(argv), argv, envp, aux), argv, envp, aux)
<1> DEFINE a == Len(argv)
           e == Len(envp)
           b == a + e + 3
           x == Len(aux)
           s1 == <<a>> \o argv
           s2 == s1 \o <<0>>
           s3 == s2 \o envp
           s4 == s3 \o <<0>>
           s5 == s4 \o Flat(aux)
           w == s5 \o <<0, 0>>
<1>1. Words(a, argv, envp, aux) = w
  BY DEF Words, Flat, AT_NULL
<1>2. /\ a \in Nat /\ e \in Nat /\ x \in Nat
      /\ Flat(aux) \in Seq(Nat) /\ Len(Flat(aux)) = 2 * x
      /\ \A k \in 1 .. x : Flat(aux)[2 * k - 1] = aux[k][1] /\ Flat(aux)[2 * k] = aux[k][2]
  <2>1. a \in Nat /\ e \in Nat /\ x \in Nat
    OBVIOUS
  <2> QED BY <2>1, FlatFacts
<1>3. <<a>> \in Seq(Nat) /\ <<0>> \in Seq(Nat) /\ <<0, 0>> \in Seq(Nat)
      /\ Len(<<a>>) = 1 /\ <<a>>[1] = a /\ Len(<<0>>) = 1 /\ <<0>>[1] = 0
      /\ Len(<<0, 0>>) = 2 /\ <<0, 0>>[1] = 0 /\ <<0, 0>>[2] = 0
  BY <1>2
<1>4. Joined(s1, <<a>>, argv)
  BY <1>3, Joins
<1> HIDE DEF s1
<1>5. Joined(s2, s1, <<0>>)
  BY <1>3, <1>4, Joins DEF Joined
<1> HIDE DEF s2
<1>6. Joined(s3, s2, envp)
  BY <1>5, Joins DEF Joined
<1> HIDE DEF s3
<1>7. Joined(s4, s3, <<0>>)
  BY <1>3, <1>6, Joins DEF Joined
<1> HIDE DEF s4
<1>8. Joined(s5, s4, Flat(aux))
  BY <1>2, <1>7, Joins DEF Joined
<1> HIDE DEF s5
<1>9. Joined(w, s5, <<0, 0>>)
  BY <1>3, <1>8, Joins DEF Joined
<1> HIDE DEF w, a, e, x
<1>0. /\ \A i \in 1 .. b : i \in 1 .. b + 2 * x
      /\ \A i \in 1 .. a + e + 2 : i \in 1 .. b
      /\ \A i \in 1 .. a + 2 : i \in 1 .. a + e + 2
      /\ \A i \in 1 .. a + 1 : i \in 1 .. a + 2
      /\ \A i \in 1 .. a : i + 1 \in 1 .. a + 1
      /\ \A i \in 1 .. e : a + 2 + i \in 1 .. a + e + 2
      /\ 1 \in 1 .. a + 1 /\ a + 2 \in 1 .. a + 2 /\ a + e + 3 \in 1 .. b
  BY <1>2
<1>10. /\ Len(s1) = a + 1 /\ s1[1] = a /\ \A i \in 1 .. a : s1[i + 1] = argv[i]
  BY <1>2, <1>3, <1>4 DEF Joined, a
<1>11. /\ Len(s2) = a + 2 /\ s2[a + 2] = 0
       /\ \A i \in 1 .. a + 1 : s2[i] = s1[i]
  BY <1>2, <1>3, <1>5, <1>10 DEF Joined
<1>12. /\ Len(s3) = a + e + 2 /\ \A i \in 1 .. e : s3[a + 2 + i] = envp[i]
       /\ \A i \in 1 .. a + 2 : s3[i] = s2[i]
  BY <1>2, <1>6, <1>11 DEF Joined, e
<1>13. /\ Len(s4) = b /\ s4[b] = 0
       /\ \A i \in 1 .. a + e + 2 : s4[i] = s3[i]
  BY <1>2, <1>3, <1>7, <1>12 DEF Joined
<1>14. /\ Len(s5) = b + 2 * x /\ \A i \in 1 .. 2 * x : s5[b + i] = Flat(aux)[i]
       /\ \A i \in 1 .. b : s5[i] = s4[i]
  BY <1>2, <1>8, <1>13 DEF Joined
<1>15. /\ w \in Seq(Nat) /\ Len(w) = b + 2 * x + 2
       /\ w[b + 2 * x + 1] = 0 /\ w[b + 2 * x + 2] = 0
       /\ \A i \in 1 .. b + 2 * x : w[i] = s5[i]
  BY <1>2, <1>3, <1>9, <1>14 DEF Joined
<1>16. \A i \in 1 .. b : w[i] = s4[i]
  BY <1>0, <1>14, <1>15
<1>17. \A i \in 1 .. a + e + 2 : w[i] = s3[i]
  BY <1>0, <1>13, <1>16
<1>18. \A i \in 1 .. a + 2 : w[i] = s2[i]
  BY <1>0, <1>12, <1>17
<1>19. \A i \in 1 .. a + 1 : w[i] = s1[i]
  BY <1>0, <1>11, <1>18
<1>20. w[1] = a /\ w[a + 2] = 0 /\ w[a + e + 3] = 0
  BY <1>0, <1>10, <1>11, <1>13, <1>16, <1>18, <1>19
<1>21. \A i \in 1 .. a : w[i + 1] = argv[i]
  BY <1>0, <1>10, <1>19
<1>22. \A i \in 1 .. e : w[a + 2 + i] = envp[i]
  BY <1>0, <1>12, <1>17
<1>23. ASSUME NEW k \in 1 .. x
       PROVE  w[b + 2 * k - 1] = aux[k][1] /\ w[b + 2 * k] = aux[k][2]
  <2>1. /\ 2 * k - 1 \in 1 .. 2 * x /\ 2 * k \in 1 .. 2 * x
        /\ b + (2 * k - 1) = b + 2 * k - 1
        /\ b + (2 * k - 1) \in 1 .. b + 2 * x /\ b + 2 * k \in 1 .. b + 2 * x
    BY <1>2
  <2>2. w[b + (2 * k - 1)] = Flat(aux)[2 * k - 1] /\ w[b + 2 * k] = Flat(aux)[2 * k]
    BY <1>14, <1>15, <2>1
  <2> QED BY <1>2, <2>1, <2>2
<1>24. QED
  BY <1>1, <1>15, <1>20, <1>21, <1>22, <1>23 DEF a, e, x, Spelled

(* A memory that holds the words holds them in order, and the other way    *)
(* round.                                                                  *)
LEMMA LayoutMeans ==
  ASSUME NEW argv \in Seq(Nat), NEW envp \in Seq(Nat), NEW aux \in Seq(Nat \X Nat), NEW m
  PROVE  LET w == Words(Len(argv), argv, envp, aux)
         IN  Layout(m, argv, envp, aux) <=> \A i \in 1 .. Len(w) : m[i - 1] = w[i]
<1> DEFINE w == Words(Len(argv), argv, envp, aux)
           a == Len(argv)
           e == Len(envp)
           b == a + e + 3
           x == Len(aux)
<1>0. Spelled(w, argv, envp, aux)
  BY WordsFacts
<1> HIDE DEF w
<1>1. a \in Nat /\ e \in Nat /\ x \in Nat
  OBVIOUS
<1>2. /\ Len(w) = b + 2 * x + 2
      /\ w[1] = a
      /\ \A i \in 1 .. a : w[i + 1] = argv[i]
      /\ w[a + 2] = 0
      /\ \A i \in 1 .. e : w[a + 2 + i] = envp[i]
      /\ w[a + e + 3] = 0
      /\ \A k \in 1 .. x : w[b + 2 * k - 1] = aux[k][1] /\ w[b + 2 * k] = aux[k][2]
      /\ w[b + 2 * x + 1] = 0
      /\ w[b + 2 * x + 2] = 0
  BY <1>0 DEF Spelled
<1>3. Layout(m, argv, envp, aux) <=>
        /\ m[0] = a
        /\ \A i \in 1 .. a : m[i] = argv[i]
        /\ m[a + 1] = 0
        /\ \A i \in 1 .. e : m[a + 1 + i] = envp[i]
        /\ m[a + e + 2] = 0
        /\ \A k \in 1 .. x : m[b + 2 * k - 2] = aux[k][1] /\ m[b + 2 * k - 1] = aux[k][2]
        /\ m[b + 2 * x] = 0
        /\ m[b + 2 * x + 1] = 0
  BY DEF Layout
<1> HIDE DEF a, e, x
<1>4. ASSUME \A i \in 1 .. Len(w) : m[i - 1] = w[i]
      PROVE  Layout(m, argv, envp, aux)
  <2>1. \A i \in Nat : i + 1 <= b + 2 * x + 2 => m[i] = w[i + 1]
    <3> TAKE i \in Nat
    <3> HAVE i + 1 <= b + 2 * x + 2
    <3>1. i + 1 \in 1 .. Len(w) /\ (i + 1) - 1 = i
      BY <1>1, <1>2
    <3> QED BY <1>4, <3>1
  <2>2. m[0] = a /\ m[a + 1] = 0 /\ m[a + e + 2] = 0
    <3>1. /\ 0 \in Nat /\ 0 + 1 <= b + 2 * x + 2 /\ 0 + 1 = 1
          /\ a + 1 \in Nat /\ (a + 1) + 1 <= b + 2 * x + 2 /\ (a + 1) + 1 = a + 2
          /\ a + e + 2 \in Nat /\ (a + e + 2) + 1 <= b + 2 * x + 2
          /\ (a + e + 2) + 1 = a + e + 3
      BY <1>1
    <3> HIDE DEF b
    <3> QED BY <1>2, <2>1, <3>1
  <2>3. ASSUME NEW i \in 1 .. a PROVE m[i] = argv[i]
    <3>1. i \in Nat /\ i + 1 <= b + 2 * x + 2
      BY <1>1
    <3> QED BY <1>2, <2>1, <3>1
  <2>4. ASSUME NEW i \in 1 .. e PROVE m[a + 1 + i] = envp[i]
    <3>1. a + 1 + i \in Nat /\ (a + 1 + i) + 1 <= b + 2 * x + 2 /\ (a + 1 + i) + 1 = a + 2 + i
      BY <1>1
    <3> HIDE DEF b
    <3> QED BY <1>2, <2>1, <3>1
  <2>5. ASSUME NEW k \in 1 .. x
        PROVE  m[b + 2 * k - 2] = aux[k][1] /\ m[b + 2 * k - 1] = aux[k][2]
    <3>1. /\ b + 2 * k - 2 \in Nat /\ (b + 2 * k - 2) + 1 <= b + 2 * x + 2
          /\ (b + 2 * k - 2) + 1 = b + 2 * k - 1
          /\ b + 2 * k - 1 \in Nat /\ (b + 2 * k - 1) + 1 <= b + 2 * x + 2
          /\ (b + 2 * k - 1) + 1 = b + 2 * k
      BY <1>1
    <3> HIDE DEF b
    <3> QED BY <1>2, <2>1, <3>1
  <2>6. m[b + 2 * x] = 0 /\ m[b + 2 * x + 1] = 0
    <3>1. /\ b + 2 * x \in Nat /\ (b + 2 * x) + 1 <= b + 2 * x + 2
          /\ (b + 2 * x) + 1 = b + 2 * x + 1
          /\ b + 2 * x + 1 \in Nat /\ (b + 2 * x + 1) + 1 <= b + 2 * x + 2
          /\ (b + 2 * x + 1) + 1 = b + 2 * x + 2
      BY <1>1
    <3> HIDE DEF b
    <3> QED BY <1>2, <2>1, <3>1
  <2> QED BY <1>3, <2>2, <2>3, <2>4, <2>5, <2>6
<1>5. ASSUME Layout(m, argv, envp, aux), NEW i \in 1 .. Len(w)
      PROVE  m[i - 1] = w[i]
  <2>1. i \in Nat /\ i >= 1 /\ i <= b + 2 * x + 2
    BY <1>1, <1>2
  <2>2. CASE i = 1
    BY <1>2, <1>3, <1>5, <2>2
  <2>3. CASE i > 1 /\ i <= a + 1
    <3>1. i - 1 \in 1 .. a /\ (i - 1) + 1 = i
      BY <1>1, <2>1, <2>3
    <3> QED BY <1>2, <1>3, <1>5, <3>1
  <2>4. CASE i = a + 2
    <3>1. i - 1 = a + 1
      BY <1>1, <2>4
    <3> QED BY <1>2, <1>3, <1>5, <2>4, <3>1
  <2>5. CASE i > a + 2 /\ i <= a + e + 2
    <3>1. i - (a + 2) \in 1 .. e /\ a + 2 + (i - (a + 2)) = i /\ a + 1 + (i - (a + 2)) = i - 1
      BY <1>1, <2>1, <2>5
    <3> QED BY <1>2, <1>3, <1>5, <3>1
  <2>6. CASE i = a + e + 3
    <3>1. i - 1 = a + e + 2
      BY <1>1, <2>6
    <3> QED BY <1>2, <1>3, <1>5, <2>6, <3>1
  <2>7. CASE i > a + e + 3 /\ i <= b + 2 * x
    <3>1. i - b \in 1 .. 2 * x
      BY <1>1, <2>1, <2>7
    <3>2. PICK k \in 1 .. x : i - b = 2 * k - 1 \/ i - b = 2 * k
      BY <1>1, <3>1, FlatPlace
    <3>3. CASE i - b = 2 * k - 1
      <4>1. i = b + 2 * k - 1 /\ i - 1 = b + 2 * k - 2
        BY <1>1, <2>1, <3>3
      <4> HIDE DEF b
      <4> QED BY <1>2, <1>3, <1>5, <4>1
    <3>4. CASE i - b = 2 * k
      <4>1. i = b + 2 * k /\ i - 1 = b + 2 * k - 1
        BY <1>1, <2>1, <3>4
      <4> HIDE DEF b
      <4> QED BY <1>2, <1>3, <1>5, <4>1
    <3> QED BY <3>2, <3>3, <3>4
  <2>8. CASE i = b + 2 * x + 1
    <3>1. i - 1 = b + 2 * x
      BY <1>1, <2>8
    <3> HIDE DEF b
    <3> QED BY <1>2, <1>3, <1>5, <2>8, <3>1
  <2>9. CASE i = b + 2 * x + 2
    <3>1. i - 1 = b + 2 * x + 1
      BY <1>1, <2>9
    <3> HIDE DEF b
    <3> QED BY <1>2, <1>3, <1>5, <2>9, <3>1
  <2> QED BY <1>1, <2>1, <2>2, <2>3, <2>4, <2>5, <2>6, <2>7, <2>8, <2>9
<1>6. QED
  BY <1>4, <1>5 DEF w, a, e, x

-----------------------------------------------------------------------------
(* The scans of the stack.                                                 *)

LEMMA ZeroFound ==
  ASSUME NEW m, NEW n \in Nat, DOMAIN m = 0 .. n - 1, NEW i \in Nat, NEW stride \in {1, 2},
         NEW j \in i .. n - 1, (j - i) % stride = 0, m[j] = 0,
         \A k \in i .. j - 1 : (k - i) % stride = 0 => m[k] # 0
  PROVE  ZeroAt(m, i, stride) = j
<1> DEFINE Z(l) == /\ (l - i) % stride = 0
                   /\ m[l] = 0
                   /\ \A k \in i .. l - 1 : (k - i) % stride = 0 => m[k] # 0
<1>1. Cardinality(DOMAIN m) = n
  <2>1. Cardinality(0 .. n - 1) = n
    <3>1. 0 \in Int /\ n - 1 \in Int
      OBVIOUS
    <3>2. Cardinality(0 .. n - 1) = IF 0 > n - 1 THEN 0 ELSE (n - 1) - 0 + 1
      BY <3>1, FS_Interval
    <3> QED BY <3>2
  <2> QED BY <2>1
<1>2. j \in i .. n /\ Z(j)
  OBVIOUS
<1>3. ASSUME NEW l \in i .. n, Z(l) PROVE l = j
  <2>1. l \in Int /\ j \in Int
    OBVIOUS
  <2>2. ~(l < j)
    <3> SUFFICES ASSUME l < j PROVE FALSE
      OBVIOUS
    <3>1. l \in i .. j - 1
      BY <2>1
    <3> QED BY <1>3, <3>1
  <2>3. ~(j < l)
    <3> SUFFICES ASSUME j < l PROVE FALSE
      OBVIOUS
    <3>1. j \in i .. l - 1
      BY <2>1
    <3> QED BY <1>3, <3>1
  <2> QED BY <2>1, <2>2, <2>3
<1>4. ZeroAt(m, i, stride) = CHOOSE l \in i .. n : Z(l)
  BY <1>1 DEF ZeroAt
<1> HIDE DEF Z
<1>5. QED
  BY <1>2, <1>3, <1>4

(* A stack is read as it was written.                                      *)
LEMMA LayoutScan ==
  ASSUME NEW argv \in Seq(Nat), NEW envp \in Seq(Nat \ {0}),
         NEW aux \in Seq((Nat \ {0}) \X Nat), NEW m, NEW n \in Nat, DOMAIN m = 0 .. n - 1,
         Total(argv, envp, aux) <= n, Layout(m, argv, envp, aux)
  PROVE  /\ AuxvOf(m, Len(argv)) = Base(argv, envp)
         /\ ZeroAt(m, Base(argv, envp), 2) = Base(argv, envp) + 2 * Len(aux)
<1> DEFINE a == Len(argv)
           e == Len(envp)
           b == a + e + 3
           x == Len(aux)
<1>1. a \in Nat /\ e \in Nat /\ x \in Nat /\ b + 2 * x + 2 <= n
  BY DEF Total, Base
<1>2. /\ \A i \in 1 .. e : m[a + 1 + i] = envp[i]
      /\ m[a + e + 2] = 0
      /\ \A k \in 1 .. x : m[b + 2 * k - 2] = aux[k][1]
      /\ m[b + 2 * x] = 0
  BY DEF Layout
<1>3. (\A i \in 1 .. e : envp[i] # 0) /\ (\A k \in 1 .. x : aux[k][1] # 0)
  <2>1. \A i \in 1 .. e : envp[i] \in Nat \ {0}
    OBVIOUS
  <2>2. \A k \in 1 .. x : aux[k] \in (Nat \ {0}) \X Nat
    OBVIOUS
  <2> QED BY <2>1, <2>2
<1> HIDE DEF a, e, x
<1>4. ZeroAt(m, a + 2, 1) = a + e + 2
  <2>1. a + 2 \in Nat /\ a + e + 2 \in (a + 2) .. n - 1
    BY <1>1
  <2>2. \A k \in Int : k % 1 = 0
    OBVIOUS
  <2>3. ASSUME NEW k \in (a + 2) .. (a + e + 2) - 1 PROVE m[k] # 0
    <3>1. k - (a + 1) \in 1 .. e /\ a + 1 + (k - (a + 1)) = k
      BY <1>1
    <3> QED BY <1>2, <1>3, <3>1
  <2>4. ((a + e + 2) - (a + 2)) % 1 = 0
    BY <1>1, <2>2
  <2>5. \A k \in (a + 2) .. (a + e + 2) - 1 : (k - (a + 2)) % 1 = 0 => m[k] # 0
    BY <2>3
  <2> DEFINE p == a + 2
             q == a + e + 2
  <2> HIDE DEF p, q
  <2>6. p \in Nat /\ q \in p .. n - 1 /\ (q - p) % 1 = 0 /\ m[q] = 0
        /\ \A k \in p .. q - 1 : (k - p) % 1 = 0 => m[k] # 0
    BY <1>2, <2>1, <2>4, <2>5 DEF p, q
  <2>7. 1 \in {1, 2}
    OBVIOUS
  <2>8. ZeroAt(m, p, 1) = q
    BY <2>6, <2>7, ZeroFound
  <2> QED BY <2>8 DEF p, q
<1>5. ZeroAt(m, b, 2) = b + 2 * x
  <2>1. b \in Nat /\ b + 2 * x \in b .. n - 1
    BY <1>1
  <2>2. ((b + 2 * x) - b) % 2 = 0
    BY <1>1
  <2>3. ASSUME NEW k \in b .. (b + 2 * x) - 1, (k - b) % 2 = 0 PROVE m[k] # 0
    <3>1. (k - b) + 1 \in 1 .. 2 * x
      BY <1>1
    <3>2. PICK j \in 1 .. x : (k - b) + 1 = 2 * j - 1 \/ (k - b) + 1 = 2 * j
      BY <1>1, <3>1, FlatPlace
    <3>3. CASE (k - b) + 1 = 2 * j - 1
      <4>1. k = b + 2 * j - 2
        BY <1>1, <3>3
      <4> HIDE DEF b
      <4> QED BY <1>2, <1>3, <4>1
    <3>4. CASE (k - b) + 1 = 2 * j
      <4>1. k - b = 2 * (j - 1) + 1 /\ j - 1 \in Nat
        BY <1>1, <3>4
      <4>2. \A l \in Nat : (2 * l + 1) % 2 = 1
        OBVIOUS
      <4> HIDE DEF b
      <4> QED BY <2>3, <4>1, <4>2
    <3> QED BY <3>2, <3>3, <3>4
  <2> DEFINE q == b + 2 * x
  <2>4. \A k \in b .. (b + 2 * x) - 1 : (k - b) % 2 = 0 => m[k] # 0
    BY <2>3
  <2> HIDE DEF b, q
  <2>6. b \in Nat /\ q \in b .. n - 1 /\ (q - b) % 2 = 0 /\ m[q] = 0
        /\ \A k \in b .. q - 1 : (k - b) % 2 = 0 => m[k] # 0
    BY <1>2, <2>1, <2>2, <2>4 DEF q
  <2>7. 2 \in {1, 2}
    OBVIOUS
  <2>8. ZeroAt(m, b, 2) = q
    BY <2>6, <2>7, ZeroFound
  <2> QED BY <2>8 DEF q
<1>6. QED
  BY <1>1, <1>4, <1>5 DEF AuxvOf, Base, a, e, x

(* The greatest of a bounded set of numbers.                               *)
LEMMA GreatestNat ==
  ASSUME NEW x \in Nat, NEW S \in SUBSET (1 .. x), S # {}
  PROVE  \E k \in S : \A j \in S : j <= k
<1> DEFINE T == {x - k : k \in S}
<1>0. \A k \in S : k \in 1 .. x
  OBVIOUS
<1>1. T \in SUBSET Nat /\ T # {}
  <2>1. \A k \in S : x - k \in Nat
    BY <1>0
  <2>2. \A u \in T : u \in Nat
    BY <2>1
  <2> QED BY <2>2
<1>2. PICK t \in T : \A u \in T : t <= u
  BY <1>1, LeastNat
<1>3. PICK k \in S : t = x - k
  BY <1>2
<1>4. ASSUME NEW j \in S PROVE j <= k
  <2>1. x - j \in T
    OBVIOUS
  <2>2. x - k <= x - j
    BY <1>2, <1>3, <2>1
  <2> QED BY <1>0, <2>2
<1>5. QED
  BY <1>4

(* parse_auxv finds the value that was passed.                             *)
LastValue(base, stop, kind) ==
  LET here == {i \in base .. stop : (i - base) % 2 = 0 /\ mem[i] = kind}
  IN  IF here = {} THEN 0 ELSE mem[1 + CHOOSE i \in here : \A j \in here : j <= i]

LEMMA AuxRead ==
  ASSUME NEW argv \in Seq(Nat), NEW envp \in Seq(Nat \ {0}),
         input.aux \in Seq((Nat \ {0}) \X Nat), NEW n \in Nat, DOMAIN mem = 0 .. n - 1,
         Total(argv, envp, input.aux) <= n, Layout(mem, argv, envp, input.aux),
         NEW kind \in Nat \ {0}
  PROVE  AuxValue(kind) = Passed(kind)
<1> DEFINE b == Base(argv, envp)
           x == Len(input.aux)
           R == {l \in b .. b + 2 * x : (l - b) % 2 = 0 /\ mem[l] = kind}
           P == {k \in 1 .. x : input.aux[k][1] = kind}
<1>1. /\ b \in Nat /\ x \in Nat
      /\ mem[0] = Len(argv)
      /\ \A k \in 1 .. x : /\ mem[b + 2 * k - 2] = input.aux[k][1]
                           /\ mem[b + 2 * k - 1] = input.aux[k][2]
      /\ mem[b + 2 * x] = 0
  BY DEF Layout, Base
<1>2. AuxvOf(mem, mem[0]) = b /\ ZeroAt(mem, b, 2) = b + 2 * x
  BY <1>1, LayoutScan
<1> HIDE DEF b
<1>3. AuxValue(kind) = IF R = {} THEN 0 ELSE mem[1 + CHOOSE l \in R : \A j \in R : j <= l]
  <2>1. AuxValue(kind)
          = LastValue(AuxvOf(mem, mem[0]), ZeroAt(mem, AuxvOf(mem, mem[0]), 2), kind)
    BY DEF AuxValue, LastValue
  <2>2. AuxValue(kind) = LastValue(b, b + 2 * x, kind)
    BY <1>2, <2>1
  <2> QED BY <2>2 DEF LastValue
<1>4. Passed(kind) = IF P = {} THEN 0
                     ELSE input.aux[CHOOSE k \in P : \A j \in P : j <= k][2]
  BY DEF Passed
<1> HIDE DEF x
<1>5. ASSUME NEW k \in P PROVE b + 2 * k - 2 \in R
  <2>1. k \in 1 .. x /\ mem[b + 2 * k - 2] = kind
    BY <1>1
  <2>2. b + 2 * k - 2 \in b .. b + 2 * x /\ (b + 2 * k - 2) - b = 2 * (k - 1) /\ k - 1 \in Int
    BY <1>1, <2>1
  <2>3. \A z \in Int : (2 * z) % 2 = 0
    OBVIOUS
  <2> QED BY <2>1, <2>2, <2>3
<1>6. ASSUME NEW l \in R PROVE \E k \in P : l = b + 2 * k - 2
  <2>1. l \in b .. b + 2 * x /\ (l - b) % 2 = 0 /\ mem[l] = kind
    OBVIOUS
  <2>2. l # b + 2 * x
    BY <1>1, <2>1
  <2>3. l \in Int /\ b <= l /\ l < b + 2 * x
    BY <1>1, <2>1, <2>2
  <2>4. (l - b) + 1 \in 1 .. 2 * x
    BY <1>1, <2>3
  <2>5. PICK k \in 1 .. x : (l - b) + 1 = 2 * k - 1 \/ (l - b) + 1 = 2 * k
    BY <1>1, <2>4, FlatPlace
  <2>6. CASE (l - b) + 1 = 2 * k - 1
    <3>1. l = b + 2 * k - 2
      BY <1>1, <2>3, <2>6
    <3> QED BY <1>1, <2>1, <3>1
  <2>7. CASE (l - b) + 1 = 2 * k
    <3>1. l - b = 2 * (k - 1) + 1 /\ k - 1 \in Nat
      BY <1>1, <2>3, <2>7
    <3>2. \A z \in Nat : (2 * z + 1) % 2 = 1
      OBVIOUS
    <3> QED BY <2>1, <3>1, <3>2
  <2> QED BY <2>5, <2>6, <2>7
<1>7. P \in SUBSET (1 .. x) /\ (\A k \in P : k \in 1 .. x) /\ (\A l \in R : l \in Int)
  BY <1>1
<1> HIDE DEF R, P
<1>8. CASE P = {}
  <2>1. R = {}
    BY <1>6, <1>8
  <2> QED BY <1>3, <1>4, <1>8, <2>1
<1>9. CASE P # {}
  <2>1. PICK k \in P : \A j \in P : j <= k
    BY <1>1, <1>7, <1>9, GreatestNat
  <2>2. k \in 1 .. x /\ k \in Int /\ b + 2 * k - 2 \in R /\ R # {}
    BY <1>1, <1>5, <1>7
  <2>3. (CHOOSE j \in P : \A h \in P : h <= j) = k
    <3>1. ASSUME NEW j \in P, \A h \in P : h <= j PROVE j = k
      <4>1. j <= k /\ k <= j /\ j \in Int
        BY <1>7, <2>1, <3>1
      <4> QED BY <2>2, <4>1
    <3> QED BY <2>1, <3>1
  <2>4. ASSUME NEW l \in R PROVE l <= b + 2 * k - 2
    <3>1. PICK j \in P : l = b + 2 * j - 2
      BY <1>6
    <3>2. j <= k /\ j \in Int
      BY <1>7, <2>1
    <3> QED BY <1>1, <2>2, <3>1, <3>2
  <2>5. (CHOOSE l \in R : \A j \in R : j <= l) = b + 2 * k - 2
    <3>1. ASSUME NEW l \in R, \A h \in R : h <= l PROVE l = b + 2 * k - 2
      <4>1. l <= b + 2 * k - 2 /\ b + 2 * k - 2 <= l /\ l \in Int /\ b + 2 * k - 2 \in Int
        BY <1>1, <1>7, <2>2, <2>4, <3>1
      <4> QED BY <4>1
    <3> QED BY <2>2, <2>4, <3>1
  <2>6. 1 + (b + 2 * k - 2) = b + 2 * k - 1
    BY <1>1, <2>2
  <2> QED BY <1>1, <1>3, <1>4, <1>9, <2>2, <2>3, <2>5, <2>6
<1>10. QED
  BY <1>8, <1>9

(* What the kernel has set up.                                             *)
KernelMem == Memory(Words(Len(input.argv), input.argv, input.envp, input.aux))

KernelTotal == Total(input.argv, input.envp, input.aux)

LEMMA InputTypes ==
  ASSUME input \in Input
  PROVE  /\ input.argv \in Seq(Pointer) /\ input.argv \in Seq(Nat)
         /\ \A k \in 1 .. Len(input.argv) : input.argv[k] \in Pointer /\ input.argv[k] \in Nat \ {0}
         /\ input.envp \in Seq(Nat \ {0}) /\ input.envp \in Seq(Nat)
         /\ input.aux \in Seq((Nat \ {0}) \X Nat) /\ input.aux \in Seq(Nat \X Nat)
<1>1. /\ input.argv \in Seq(Pointer) /\ input.envp \in Seq(Nat \ {0})
      /\ input.aux \in Seq((Nat \ {0}) \X Nat)
  BY DEF Input, AT_NULL
<1>2. \A p \in Pointer : p \in Nat /\ p # 0
  BY BootstrapAssumption
<1>3. input.argv \in Seq(Nat)
  BY <1>1, <1>2
<1>0. \A k \in 1 .. Len(input.argv) : input.argv[k] \in Pointer
  BY <1>1
<1>4. \A k \in 1 .. Len(input.argv) : input.argv[k] \in Pointer /\ input.argv[k] \in Nat \ {0}
  BY <1>0, <1>2
<1>5. input.envp \in Seq(Nat)
  BY <1>1
<1>6. input.aux \in Seq(Nat \X Nat)
  <2>1. \A p \in (Nat \ {0}) \X Nat : p \in Nat \X Nat
    OBVIOUS
  <2>2. \A k \in 1 .. Len(input.aux) : input.aux[k] \in Nat \X Nat
    BY <1>1, <2>1
  <2> QED BY <1>1, <2>2
<1>7. QED
  BY <1>1, <1>3, <1>4, <1>5, <1>6

LEMMA InputLengths ==
  ASSUME input \in Input
  PROVE  Len(input.argv) \in Nat /\ Len(input.envp) \in Nat /\ Len(input.aux) \in Nat
  BY InputTypes

LEMMA KernelLayout ==
  ASSUME input \in Input
  PROVE  /\ KernelTotal \in Nat
         /\ KernelMem \in [0 .. KernelTotal - 1 -> Nat]
         /\ Layout(KernelMem, input.argv, input.envp, input.aux)
<1> DEFINE w == Words(Len(input.argv), input.argv, input.envp, input.aux)
<1>1. Spelled(w, input.argv, input.envp, input.aux)
  BY InputTypes, WordsFacts
<1>2. Len(input.argv) \in Nat /\ Len(input.envp) \in Nat /\ Len(input.aux) \in Nat
  BY InputTypes
<1> HIDE DEF w
<1>3. w \in Seq(Nat) /\ Len(w) = KernelTotal
  BY <1>1 DEF Spelled, KernelTotal, Total, Base
<1>4. KernelTotal \in Nat
  BY <1>3
<1>5. KernelMem = [i \in 0 .. KernelTotal - 1 |-> w[i + 1]]
  BY <1>3 DEF KernelMem, Memory, w
<1>6. ASSUME NEW i \in 0 .. KernelTotal - 1 PROVE w[i + 1] \in Nat
  <2>1. i + 1 \in 1 .. Len(w)
    BY <1>3, <1>4
  <2> QED BY <1>3, <2>1
<1>7. ASSUME NEW i \in 1 .. Len(w) PROVE KernelMem[i - 1] = w[i]
  <2>1. i - 1 \in 0 .. KernelTotal - 1 /\ (i - 1) + 1 = i
    BY <1>3, <1>4
  <2> QED BY <1>5, <2>1
<1>8. Layout(KernelMem, input.argv, input.envp, input.aux)
  BY <1>7, InputTypes, LayoutMeans DEF w
<1>9. QED
  BY <1>4, <1>5, <1>6, <1>8

-----------------------------------------------------------------------------
(* The command line.                                                       *)

LEMMA StartsFacts ==
  ASSUME Len(input.argv) \in Nat
  PROVE  /\ \A k \in StartsAt : k \in 1 .. Len(input.argv) /\ k \in Int
         /\ Len(input.argv) >= 1 => 1 \in StartsAt
         /\ \A S \in SUBSET (1 .. Len(input.argv) + 1) :
              Follow(S) => \A k \in StartsAt : k \in S
<1>1. Len(input.argv) >= 1 => 1 \in 1 .. Len(input.argv)
  OBVIOUS
<1>2. \A S : Follow(S) => 1 \in S
  BY DEF Follow
<1>3. QED
  BY <1>1, <1>2 DEF StartsAt

(* Behind an option, and behind its value, another argument starts.        *)
LEMMA StartsOn ==
  ASSUME Len(input.argv) \in Nat, NEW k \in StartsAt, k < Len(input.argv), NEW d \in {1, 2},
         k + d <= Len(input.argv),
         \/ d = 1 /\ ArgKindAt(k) = "flag"
         \/ d = 2 /\ ArgKindAt(k) \in {"argv0", "value"}
  PROVE  k + d \in StartsAt
<1>1. k \in 1 .. Len(input.argv) /\ k + d \in 1 .. Len(input.argv)
  BY StartsFacts
<1>2. ASSUME NEW S \in SUBSET (1 .. Len(input.argv) + 1), Follow(S) PROVE k + d \in S
  <2>1. k \in S
    BY <1>2, StartsFacts
  <2>2. /\ ArgKindAt(k) = "flag" => k + 1 \in S
        /\ ArgKindAt(k) \in {"argv0", "value"} => k + 2 \in S
    BY <1>2, <2>1 DEF Follow
  <2> QED BY <2>2
<1>3. QED
  BY <1>1, <1>2 DEF StartsAt

(* The parser is at i: everything that starts before is an option that it  *)
(* has gone over.                                                          *)
Over(k, j) ==
  /\ k < Len(input.argv)
  /\ \/ ArgKindAt(k) = "flag"
     \/ ArgKindAt(k) \in {"argv0", "value"} /\ k + 2 <= j

Visited(j) == j \in StartsAt /\ \A k \in StartsAt : k < j => Over(k, j)

(* What is visited and a set behind it that holds where the argument at j  *)
(* leads follow one another.                                               *)
LEMMA FollowFrom ==
  ASSUME Len(input.argv) \in Nat, NEW j \in StartsAt, Visited(j), j < Len(input.argv),
         NEW T \in SUBSET (1 .. Len(input.argv) + 1),
         ArgKindAt(j) = "flag" => j + 1 \in T,
         ArgKindAt(j) \in {"argv0", "value"} => j + 2 \in T,
         \A k \in T : k < Len(input.argv) => k + 1 \in T /\ k + 2 \in T
  PROVE  \A k \in StartsAt : k <= j \/ k \in T
<1> DEFINE S == {k \in StartsAt : k <= j} \cup T
<1>1. \A k \in StartsAt : k \in 1 .. Len(input.argv) /\ k \in Int
  BY StartsFacts
<1>2. S \in SUBSET (1 .. Len(input.argv) + 1)
  <2>1. \A k \in 1 .. Len(input.argv) : k \in 1 .. Len(input.argv) + 1
    OBVIOUS
  <2> QED BY <1>1, <2>1
<1>3. 1 \in S
  BY <1>1, StartsFacts
<1>4. ASSUME NEW k \in S, k < Len(input.argv)
      PROVE  /\ ArgKindAt(k) = "flag" => k + 1 \in S
             /\ ArgKindAt(k) \in {"argv0", "value"} => k + 2 \in S
  <2>1. CASE k \in T
    BY <1>4, <2>1
  <2>2. CASE k = j
    BY <2>2
  <2>3. CASE k \in StartsAt /\ k <= j /\ k # j
    <3>1. k < j /\ k + 1 <= j /\ k \in Int /\ j \in Int
      BY <1>1, <2>3
    <3>2. Over(k, j)
      BY <2>3, <3>1 DEF Visited
    <3>3. ASSUME ArgKindAt(k) = "flag" PROVE k + 1 \in S
      <4>1. k + 1 <= Len(input.argv) /\ 1 \in {1, 2}
        BY <1>4, <3>1
      <4>2. k + 1 \in StartsAt
        BY <1>4, <2>3, <3>3, <4>1, StartsOn
      <4> QED BY <3>1, <4>2
    <3>4. ASSUME ArgKindAt(k) \in {"argv0", "value"} PROVE k + 2 \in S
      <4>1. k + 2 <= j
        BY <3>2, <3>4 DEF Over
      <4>2. k + 2 <= Len(input.argv) /\ 2 \in {1, 2}
        BY <1>1, <3>1, <4>1
      <4>3. k + 2 \in StartsAt
        BY <1>4, <2>3, <3>4, <4>2, StartsOn
      <4> QED BY <4>1, <4>3
    <3> QED BY <3>3, <3>4
  <2> QED BY <2>1, <2>2, <2>3
<1>5. Follow(S)
  BY <1>3, <1>4 DEF Follow
<1> HIDE DEF S
<1>6. \A k \in StartsAt : k \in S
  BY <1>2, <1>5, StartsFacts
<1>7. QED
  BY <1>6 DEF S

(* An option is gone over with its value.                                  *)
LEMMA StepOn ==
  ASSUME Len(input.argv) \in Nat, NEW j \in StartsAt, Visited(j), j < Len(input.argv),
         NEW d \in {1, 2}, j + d <= Len(input.argv),
         \/ d = 1 /\ ArgKindAt(j) = "flag"
         \/ d = 2 /\ ArgKindAt(j) \in {"argv0", "value"}
  PROVE  Visited(j + d)
<1> DEFINE T == j + d .. Len(input.argv) + 1
<1>1. \A k \in StartsAt : k \in 1 .. Len(input.argv) /\ k \in Int
  BY StartsFacts
<1>2. j + d \in StartsAt
  BY StartsOn
<1>3. T \in SUBSET (1 .. Len(input.argv) + 1)
  BY <1>1
<1>4. /\ ArgKindAt(j) = "flag" => j + 1 \in T
      /\ ArgKindAt(j) \in {"argv0", "value"} => j + 2 \in T
      /\ \A k \in T : k < Len(input.argv) => k + 1 \in T /\ k + 2 \in T
  <2>1. j + d \in T
    BY <1>1
  <2>2. \A k \in T : k < Len(input.argv) => k + 1 \in T /\ k + 2 \in T
    BY <1>1
  <2>3. ArgKindAt(j) = "flag" => d = 1
    OBVIOUS
  <2>4. ArgKindAt(j) \in {"argv0", "value"} => d = 2
    OBVIOUS
  <2> HIDE DEF T
  <2> QED BY <2>1, <2>2, <2>3, <2>4
<1> HIDE DEF T
<1>5. \A k \in StartsAt : k <= j \/ k \in T
  BY <1>3, <1>4, FollowFrom
<1>6. ASSUME NEW k \in StartsAt, k < j + d PROVE Over(k, j + d)
  <2>1. k <= j
    BY <1>1, <1>5, <1>6 DEF T
  <2>2. CASE k = j
    <3>1. j + 2 <= j + 2
      BY <1>1
    <3> QED BY <2>2, <3>1 DEF Over
  <2>3. CASE k < j
    <3>1. Over(k, j)
      BY <2>3 DEF Visited
    <3>2. k + 2 <= j => k + 2 <= j + d
      BY <1>1
    <3> QED BY <3>1, <3>2 DEF Over
  <2> QED BY <1>1, <2>1, <2>2, <2>3
<1>7. QED
  BY <1>2, <1>6 DEF Visited

(* Nothing starts behind an argument that is not gone over.                *)
LEMMA StopsHere ==
  ASSUME Len(input.argv) \in Nat, NEW j \in StartsAt, Visited(j), j < Len(input.argv),
         ArgKindAt(j) # "flag",
         ArgKindAt(j) \in {"argv0", "value"} => ~(j + 1 < Len(input.argv))
  PROVE  \A k \in StartsAt : k <= j
<1> DEFINE T == {Len(input.argv) + 1}
<1>1. \A k \in StartsAt : k \in 1 .. Len(input.argv) /\ k \in Int
  BY StartsFacts
<1>2. T \in SUBSET (1 .. Len(input.argv) + 1)
  OBVIOUS
<1>3. ArgKindAt(j) \in {"argv0", "value"} => j + 2 \in T
  <2>1. ASSUME ArgKindAt(j) \in {"argv0", "value"} PROVE j + 2 \in T
    <3>1. ~(j + 1 < Len(input.argv))
      BY <2>1
    <3>2. j + 2 = Len(input.argv) + 1
      BY <1>1, <3>1
    <3> QED BY <3>2
  <2> QED BY <2>1
<1>4. \A k \in T : ~(k < Len(input.argv))
  OBVIOUS
<1>5. \A k \in StartsAt : k <= j \/ k \in T
  <2> HIDE DEF T
  <2> QED BY <1>2, <1>3, <1>4, FollowFrom
<1>6. QED
  BY <1>1, <1>5

-----------------------------------------------------------------------------
(* The invariant.                                                          *)

(* --argv0, as far as the parser has come: the last one counts.            *)
NameSo(j, v) ==
  LET names == {k \in OptionsOf({"argv0"}) : k < j}
  IN  \/ v = 0 /\ names = {}
      \/ \E k \in names : v = input.argv[k + 2] /\ \A l \in names : l <= k

(* The stack is as the kernel has built it until the program is known.     *)
UntouchedInv ==
  /\ input \in Input
  /\ pc \in {"start", "options", "inspect", "stage1"} => mem = KernelMem
  /\ pc = "start" => argv0 = 0
  /\ pc = "stage1" => ~Direct /\ auxv = Base(input.argv, input.envp)

OptionsInv ==
  pc = "options" =>
    /\ Direct
    /\ Len(input.argv) = 0 \/ (Visited(index) /\ NameSo(index, argv0))

InspectInv ==
  pc = "inspect" =>
    OptionsOf({"program"}) = {} /\ OptionsOf({"list", "verify"}) # {}

(* The program is known.                                                   *)
ProgramInv ==
  pc \in {"copying", "load", "patch", "link"} =>
    /\ Direct
    /\ OptionsOf({"program"}) = {argv_index}
    /\ \A k \in OptionsOf({"argv0"}) : k < argv_index /\ k + 2 <= Len(input.argv)
    /\ NameSo(argv_index, argv0)
    /\ mem \in [0 .. KernelTotal - 1 -> Nat]

(* The words that have been moved, one after the other, onto words that    *)
(* are no longer needed.                                                   *)
CopyInv ==
  pc = "copying" =>
    /\ count = KernelTotal - 1 - argv_index
    /\ index \in 0 .. count
    /\ \A k \in 0 .. KernelTotal - 1 :
         mem[k] = IF k \in 1 .. index THEN KernelMem[k + argv_index] ELSE KernelMem[k]

(* The auxiliary vector when its first j entries have been patched.        *)
PartAux(j) ==
  [k \in 1 .. Len(input.aux) |-> IF k <= j THEN ProgramAux[k] ELSE input.aux[k]]

RewrittenInv ==
  /\ pc \in {"load", "patch", "link"} =>
       /\ auxv = Base(ProgramArgv, input.envp)
       /\ exec_path = input.argv[ProgramAt + 1]
  /\ pc = "load" => Layout(mem, ProgramArgv, input.envp, PartAux(0))
  /\ pc = "patch" => \E j \in 0 .. Len(input.aux) :
                       /\ index = auxv + 2 * j
                       /\ Layout(mem, ProgramArgv, input.envp, PartAux(j))
  /\ pc = "link" => Layout(mem, ProgramArgv, input.envp, PartAux(Len(input.aux)))

BootInv ==
  /\ UntouchedInv
  /\ OptionsInv
  /\ InspectInv
  /\ ProgramInv
  /\ CopyInv
  /\ RewrittenInv
  /\ StackAsExec
  /\ ExitJustified

(* What is said of the input stays true as long as the input stays.        *)
LEMMA Frame ==
  ASSUME input' = input
  PROVE  /\ StartsAt' = StartsAt
         /\ OptionsOf({"program"})' = OptionsOf({"program"})
         /\ OptionsOf({"argv0"})' = OptionsOf({"argv0"})
         /\ OptionsOf({"list", "verify"})' = OptionsOf({"list", "verify"})
         /\ OptionsOf({"argv0", "value"})' = OptionsOf({"argv0", "value"})
         /\ OptionsOf({"unknown", "list", "verify"})' = OptionsOf({"unknown", "list", "verify"})
         /\ OptionsOf({"query", "list", "verify"})' = OptionsOf({"query", "list", "verify"})
         /\ ProgramAt' = ProgramAt /\ ProgramArgv' = ProgramArgv
         /\ ProgramAux' = ProgramAux
         /\ Direct' = Direct
         /\ KernelMem' = KernelMem /\ KernelTotal' = KernelTotal
         /\ Base(input.argv, input.envp)' = Base(input.argv, input.envp)
         /\ Base(ProgramArgv, input.envp)' = Base(ProgramArgv, input.envp)
<1>1. StartsAt' = StartsAt
  BY DEF StartsAt, Follow, ArgKindAt
<1>2. ASSUME NEW K PROVE OptionsOf(K)' = OptionsOf(K)
  BY <1>1 DEF OptionsOf, ArgKindAt
<1>3. ProgramAt' = ProgramAt
  BY DEF ProgramAt, OptionsOf, StartsAt, Follow, ArgKindAt
<1>4. ProgramArgv' = ProgramArgv
  BY DEF ProgramArgv, ProgramName, ProgramAt, OptionsOf, StartsAt, Follow, ArgKindAt
<1>5. ProgramAux' = ProgramAux
  BY DEF ProgramAux, ProgramAt, OptionsOf, StartsAt, Follow, ArgKindAt
<1>6. Direct' = Direct
  <2>1. /\ Passed(AT_PHDR)' = Passed(AT_PHDR) /\ Passed(AT_PHENT)' = Passed(AT_PHENT)
        /\ Passed(AT_PHNUM)' = Passed(AT_PHNUM) /\ Passed(AT_BASE)' = Passed(AT_BASE)
    BY DEF Passed
  <2> QED BY <2>1 DEF Direct
<1>7. KernelMem' = KernelMem
  BY DEF KernelMem, Memory, Words
<1>8. KernelTotal' = KernelTotal
  BY DEF KernelTotal, Total, Base
<1>9. Base(input.argv, input.envp)' = Base(input.argv, input.envp)
  BY DEF Base
<1>10. Base(ProgramArgv, input.envp)' = Base(ProgramArgv, input.envp)
  BY <1>4 DEF Base
<1>11. QED
  BY <1>1, <1>2, <1>3, <1>4, <1>5, <1>6, <1>7, <1>8, <1>9, <1>10

(* exit, with a reason.                                                    *)
LEMMA ExitStep ==
  ASSUME BootInv, NEW code, Exit(code),
         \/ code = FATAL
         \/ /\ OptionsOf({"program"}) = {}
            /\ code = 1 => \/ OptionsOf({"unknown", "list", "verify"}) # {}
                           \/ \E k \in OptionsOf({"argv0", "value"}) : k = Len(input.argv) - 1
            /\ code = 0 => \/ OptionsOf({"query", "list", "verify"}) # {}
                           \/ Len(input.argv) \in StartsAt \cup {0}
  PROVE  BootInv'
<1>1. pc' = "exit" /\ status' = code /\ input' = input
  BY DEF Exit
<1>2. UntouchedInv' /\ OptionsInv' /\ InspectInv' /\ ProgramInv' /\ CopyInv' /\ RewrittenInv'
      /\ StackAsExec'
  BY <1>1 DEF BootInv, UntouchedInv, OptionsInv, InspectInv, ProgramInv, CopyInv, RewrittenInv,
              StackAsExec
<1>3. ExitJustified'
  BY <1>1, Frame DEF ExitJustified, FATAL
<1>4. QED
  BY <1>2, <1>3 DEF BootInv

(* The arguments as the parser reads them.                                 *)
LEMMA ArgRead ==
  ASSUME input \in Input, mem = KernelMem
  PROVE  /\ mem[0] = Len(input.argv) /\ Len(input.argv) \in Nat
         /\ \A k \in Nat : k < Len(input.argv) => /\ Arg(k) = input.argv[k + 1]
                                                  /\ Arg(k) \in Nat \ {0}
                                                  /\ ArgKind[Arg(k)] = ArgKindAt(k)
                                                  /\ ArgKindAt(k) \in Kind
<1>1. Layout(mem, input.argv, input.envp, input.aux)
  BY KernelLayout
<1>2. Len(input.argv) \in Nat
  BY InputTypes
<1>3. mem[0] = Len(input.argv) /\ \A k \in 1 .. Len(input.argv) : mem[k] = input.argv[k]
  BY <1>1 DEF Layout
<1>4. ASSUME NEW k \in Nat, k < Len(input.argv)
      PROVE  /\ Arg(k) = input.argv[k + 1]
             /\ Arg(k) \in Nat \ {0}
             /\ ArgKind[Arg(k)] = ArgKindAt(k)
             /\ ArgKindAt(k) \in Kind
  <2>1. k + 1 \in 1 .. Len(input.argv) /\ 1 + k = k + 1
    BY <1>2, <1>4
  <2>2. Arg(k) = input.argv[k + 1]
    BY <1>3, <2>1 DEF Arg
  <2>3. input.argv[k + 1] \in Pointer /\ input.argv[k + 1] \in Nat \ {0}
    BY <2>1, InputTypes
  <2> QED BY <2>2, <2>3, BootstrapAssumption DEF ArgKindAt
<1>5. QED
  BY <1>2, <1>3, <1>4

(* An option that is not gone over and is not the program: there is none.  *)
LEMMA NoProgram ==
  ASSUME Len(input.argv) \in Nat, NEW j \in StartsAt, Visited(j),
         j < Len(input.argv) => /\ ArgKindAt(j) \notin {"flag", "program"}
                                /\ ArgKindAt(j) \in {"argv0", "value"} => ~(j + 1 < Len(input.argv))
  PROVE  OptionsOf({"program"}) = {}
<1>1. \A k \in StartsAt : k \in 1 .. Len(input.argv) /\ k \in Int
  BY StartsFacts
<1>2. \A k \in StartsAt : k <= j
  <2>1. CASE j < Len(input.argv)
    BY <2>1, StopsHere
  <2>2. CASE ~(j < Len(input.argv))
    BY <1>1, <2>2
  <2> QED BY <2>1, <2>2
<1>3. ASSUME NEW k \in OptionsOf({"program"}) PROVE FALSE
  <2>1. k \in StartsAt /\ k < Len(input.argv) /\ ArgKindAt(k) = "program"
    BY DEF OptionsOf
  <2>2. CASE k = j
    BY <2>1, <2>2
  <2>3. CASE k # j
    <3>1. k < j
      BY <1>1, <1>2, <2>1, <2>3
    <3> QED BY <2>1, <3>1 DEF Visited, Over
  <2> QED BY <2>2, <2>3
<1>4. QED
  BY <1>3

(* What the stack says before it is touched.                               *)
LEMMA KernelRead ==
  ASSUME input \in Input, mem = KernelMem
  PROVE  /\ AuxvOf(mem, mem[0]) = Base(input.argv, input.envp)
         /\ ZeroAt(mem, AuxvOf(mem, mem[0]), 2) = Base(input.argv, input.envp) + 2 * Len(input.aux)
         /\ DirectInvocation(AuxState) <=> Direct
         /\ AuxValue(AT_ENTRY) = Passed(AT_ENTRY)
<1>1. KernelTotal \in Nat /\ DOMAIN mem = 0 .. KernelTotal - 1
      /\ Layout(mem, input.argv, input.envp, input.aux)
  BY KernelLayout
<1>2. Total(input.argv, input.envp, input.aux) <= KernelTotal
  BY <1>1 DEF KernelTotal
<1>3. mem[0] = Len(input.argv)
  BY ArgRead
<1>4. ASSUME NEW kind \in Nat \ {0} PROVE AuxValue(kind) = Passed(kind)
  BY <1>1, <1>2, InputTypes, AuxRead
<1>5. /\ AuxvOf(mem, Len(input.argv)) = Base(input.argv, input.envp)
      /\ ZeroAt(mem, Base(input.argv, input.envp), 2)
           = Base(input.argv, input.envp) + 2 * Len(input.aux)
  BY <1>1, <1>2, InputTypes, LayoutScan
<1>6. /\ AT_BASE \in Nat \ {0} /\ AT_PHDR \in Nat \ {0} /\ AT_ENTRY \in Nat \ {0}
      /\ AT_PHENT \in Nat \ {0} /\ AT_PHNUM \in Nat \ {0}
  BY DEF AT_BASE, AT_PHDR, AT_ENTRY, AT_PHENT, AT_PHNUM
<1>7. AuxState = [phdr |-> Passed(AT_PHDR), phent |-> Passed(AT_PHENT),
                  phnum |-> Passed(AT_PHNUM), base |-> Passed(AT_BASE)]
  BY <1>4, <1>6 DEF AuxState
<1>8. DirectInvocation(AuxState) <=> Direct
  BY <1>7 DEF Direct
<1>9. QED
  BY <1>3, <1>4, <1>5, <1>6, <1>8

LEMMA EnterStep ==
  ASSUME BootInv, Enter
  PROVE  BootInv'
<1>1. /\ input \in Input /\ mem = KernelMem /\ argv0 = 0
      /\ input' = input /\ mem' = mem /\ argv0' = argv0 /\ index' = 1
      /\ pc' = (IF DirectInvocation(AuxState) THEN "options" ELSE "stage1")
      /\ auxv' = AuxvOf(mem, mem[0])
  BY DEF BootInv, UntouchedInv, Enter
<1>2. Len(input.argv) \in Nat
  BY <1>1, InputTypes
<1>3. (DirectInvocation(AuxState) <=> Direct) /\ AuxvOf(mem, mem[0]) = Base(input.argv, input.envp)
  BY <1>1, KernelRead
<1>4. UntouchedInv'
  BY <1>1, <1>3, Frame DEF UntouchedInv
<1>5. Len(input.argv) = 0 \/ (Visited(1) /\ NameSo(1, 0))
  <2>1. \A k \in StartsAt : ~(k < 1)
    BY <1>2, StartsFacts
  <2>2. Len(input.argv) # 0 => 1 \in StartsAt
    BY <1>2, StartsFacts
  <2>3. \A k \in OptionsOf({"argv0"}) : k \in StartsAt
    BY DEF OptionsOf
  <2> QED BY <2>1, <2>2, <2>3 DEF Visited, NameSo
<1>6. OptionsInv'
  <2> SUFFICES ASSUME pc' = "options"
               PROVE  /\ Direct'
                      /\ Len(input.argv)' = 0 \/ (Visited(index)' /\ NameSo(index, argv0)')
    BY DEF OptionsInv
  <2>1. Direct'
    BY <1>1, <1>3, Frame
  <2>2. Visited(1) => Visited(index)'
    BY <1>1, Frame DEF Visited, Over, ArgKindAt
  <2>3. NameSo(1, 0) => NameSo(index, argv0)'
    BY <1>1, Frame DEF NameSo
  <2> QED BY <1>1, <1>5, <2>1, <2>2, <2>3
<1>7. InspectInv' /\ ProgramInv' /\ CopyInv' /\ RewrittenInv' /\ StackAsExec' /\ ExitJustified'
  BY <1>1 DEF InspectInv, ProgramInv, CopyInv, RewrittenInv, StackAsExec, ExitJustified
<1>8. QED
  BY <1>4, <1>6, <1>7 DEF BootInv

(* The parser goes over an option.                                         *)
LEMMA SkipStep ==
  ASSUME BootInv, pc = "options", NEW d \in {1, 2}, Skip(d), index < Len(input.argv),
         \/ d = 1 /\ ArgKindAt(index) = "flag" /\ argv0' = argv0
         \/ /\ d = 2 /\ ArgKindAt(index) \in {"argv0", "value"} /\ index + 2 <= Len(input.argv)
            /\ argv0' = IF ArgKindAt(index) = "argv0" THEN input.argv[index + 2] ELSE argv0
  PROVE  BootInv'
<1>1. /\ input \in Input /\ mem = KernelMem /\ Direct
      /\ input' = input /\ mem' = mem /\ pc' = pc /\ index' = index + d
  BY DEF BootInv, UntouchedInv, OptionsInv, Skip
<1>2. Len(input.argv) \in Nat
  BY <1>1, InputTypes
<1>3. Len(input.argv) = 0 \/ (Visited(index) /\ NameSo(index, argv0))
  BY DEF BootInv, OptionsInv
<1>4. UntouchedInv'
  BY <1>1, Frame DEF UntouchedInv
<1>5. ASSUME Visited(index), NameSo(index, argv0)
      PROVE  Visited(index)' /\ NameSo(index, argv0)'
  <2>1. index \in StartsAt /\ index \in Int /\ index \in 1 .. Len(input.argv)
    BY <1>2, <1>5, StartsFacts DEF Visited
  <2>2. index + d <= Len(input.argv)
    BY <1>2, <2>1
  <2>3. Visited(index + d)
    BY <1>2, <1>5, <2>1, <2>2, StepOn
  <2>4. Visited(index)'
    BY <1>1, <2>3, Frame DEF Visited, Over, ArgKindAt
  <2>5. \A k \in OptionsOf({"argv0"}) : k \in StartsAt /\ k \in Int /\ ArgKindAt(k) = "argv0"
    BY <1>2, StartsFacts DEF OptionsOf
  <2>6. ASSUME NEW k \in OptionsOf({"argv0"}), k < index + d PROVE k <= index
    <3>1. k <= index \/ k = index + 1
      BY <2>1, <2>5, <2>6
    <3>2. k # index + 1
      <4> SUFFICES ASSUME k = index + 1 PROVE FALSE
        OBVIOUS
      <4>1. d = 2 /\ ArgKindAt(index) \in {"argv0", "value"}
        BY <2>1, <2>6
      <4>2. Over(k, index + d)
        BY <2>3, <2>5, <2>6 DEF Visited
      <4>3. k + 2 <= index + d
        BY <2>5, <4>2 DEF Over
      <4> QED BY <2>1, <4>1, <4>3
    <3> QED BY <3>1, <3>2
  <2>7. CASE ArgKindAt(index) = "argv0"
    <3>1. d = 2 /\ argv0' = input.argv[index + 2]
      BY <2>7
    <3>2. index \in OptionsOf({"argv0"}) /\ index < index + d
      BY <2>1, <2>7 DEF OptionsOf
    <3>3. NameSo(index + d, argv0')
      BY <2>6, <3>1, <3>2 DEF NameSo
    <3> QED BY <1>1, <2>4, <3>3, Frame DEF NameSo
  <2>8. CASE ArgKindAt(index) # "argv0"
    <3>1. argv0' = argv0
      BY <2>8
    <3>2. {k \in OptionsOf({"argv0"}) : k < index + d} = {k \in OptionsOf({"argv0"}) : k < index}
      <4>1. ASSUME NEW k \in OptionsOf({"argv0"}), k < index + d PROVE k < index
        <5>1. k <= index /\ k # index
          BY <2>5, <2>6, <2>8, <4>1
        <5> QED BY <2>1, <2>5, <5>1
      <4>2. ASSUME NEW k \in OptionsOf({"argv0"}), k < index PROVE k < index + d
        BY <2>1, <2>5, <4>2
      <4> QED BY <4>1, <4>2
    <3>3. NameSo(index + d, argv0)
      BY <1>5, <3>2 DEF NameSo
    <3> QED BY <1>1, <2>4, <3>1, <3>3, Frame DEF NameSo
  <2> QED BY <2>7, <2>8
<1>6. OptionsInv'
  BY <1>1, <1>3, <1>5, Frame DEF OptionsInv
<1>7. InspectInv' /\ ProgramInv' /\ CopyInv' /\ RewrittenInv' /\ StackAsExec' /\ ExitJustified'
  BY <1>1 DEF InspectInv, ProgramInv, CopyInv, RewrittenInv, StackAsExec, ExitJustified
<1>8. QED
  BY <1>4, <1>6, <1>7 DEF BootInv

(* The parser comes upon the program.                                      *)
LEMMA ProgramStep ==
  ASSUME BootInv, pc = "options", Visited(index), NameSo(index, argv0),
         index < Len(input.argv), ArgKindAt(index) = "program",
         argv_index' = index, count' = CopyCount(index), index' = 0, pc' = "copying",
         UNCHANGED <<input, mem, argv0, exec_path, auxv, status, entry>>
  PROVE  BootInv'
<1>1. /\ input \in Input /\ mem = KernelMem /\ Direct
      /\ input' = input /\ mem' = mem /\ argv0' = argv0
  BY DEF BootInv, UntouchedInv, OptionsInv
<1>2. Len(input.argv) \in Nat /\ Len(input.envp) \in Nat /\ Len(input.aux) \in Nat
  BY <1>1, InputTypes
<1>3. index \in StartsAt /\ index \in 1 .. Len(input.argv) /\ index \in Int
  BY <1>2, StartsFacts DEF Visited
<1>4. \A k \in StartsAt : k <= index
  BY <1>2, <1>3, StopsHere
<1>5. \A k \in StartsAt : k \in Int
  BY <1>2, StartsFacts
<1>6. OptionsOf({"program"}) = {index}
  <2>1. index \in OptionsOf({"program"})
    BY <1>3 DEF OptionsOf
  <2>2. ASSUME NEW k \in OptionsOf({"program"}) PROVE k = index
    <3>1. k \in StartsAt /\ ArgKindAt(k) = "program"
      BY DEF OptionsOf
    <3>2. ~(k < index)
      BY <3>1 DEF Visited, Over
    <3> QED BY <1>3, <1>4, <1>5, <3>1, <3>2
  <2> QED BY <2>1, <2>2
<1>7. \A k \in OptionsOf({"argv0"}) : k < index /\ k + 2 <= Len(input.argv)
  <2> TAKE k \in OptionsOf({"argv0"})
  <2>1. k \in StartsAt /\ ArgKindAt(k) = "argv0"
    BY DEF OptionsOf
  <2>2. k < index
    <3>1. k <= index /\ k # index /\ k \in Int
      BY <1>4, <1>5, <2>1
    <3> QED BY <1>3, <3>1
  <2>3. k + 2 <= index
    BY <2>1, <2>2 DEF Visited, Over
  <2> QED BY <1>2, <1>3, <1>5, <2>1, <2>2, <2>3
<1>8. KernelTotal \in Nat /\ mem \in [0 .. KernelTotal - 1 -> Nat]
  BY <1>1, KernelLayout
<1>9. count' = KernelTotal - 1 - index /\ 0 <= KernelTotal - 1 - index
  <2> DEFINE b == Base(input.argv, input.envp)
             x == Len(input.aux)
             a == Len(input.argv)
             e == Len(input.envp)
  <2>1. ZeroAt(mem, AuxvOf(mem, mem[0]), 2) = b + 2 * x
    BY <1>1, KernelRead
  <2>2. count' = b + 2 * x + 2 - (1 + index)
    BY <2>1 DEF CopyCount
  <2>3. x \in Nat /\ a \in Nat /\ e \in Nat /\ b = a + e + 3 /\ KernelTotal = b + 2 * x + 2
        /\ index < a
    BY <1>2 DEF KernelTotal, Total, Base
  <2> HIDE DEF b, x, a, e
  <2> QED BY <1>3, <2>2, <2>3
<1>10. UntouchedInv'
  BY <1>1 DEF UntouchedInv
<1>11. ProgramInv'
  <2>1. NameSo(argv_index, argv0)'
    BY <1>1, Frame DEF NameSo
  <2> QED BY <1>1, <1>6, <1>7, <1>8, <2>1, Frame DEF ProgramInv
<1>12. CopyInv'
  <2>1. (0 \in 0 .. KernelTotal - 1 - index) /\ ~(\E k \in 1 .. 0 : TRUE)
    BY <1>3, <1>8, <1>9
  <2>2. \A k : k \notin 1 .. 0
    OBVIOUS
  <2> QED BY <1>1, <1>9, <2>1, <2>2, Frame DEF CopyInv
<1>13. OptionsInv' /\ InspectInv' /\ RewrittenInv' /\ StackAsExec' /\ ExitJustified'
  BY DEF OptionsInv, InspectInv, RewrittenInv, StackAsExec, ExitJustified
<1>14. QED
  BY <1>10, <1>11, <1>12, <1>13 DEF BootInv

LEMMA ParseOptionStep ==
  ASSUME BootInv, ParseOption
  PROVE  BootInv'
<1>1. /\ input \in Input /\ mem = KernelMem /\ pc = "options" /\ mem[0] > 1 /\ index < mem[0]
  BY DEF BootInv, UntouchedInv, ParseOption
<1>2. Len(input.argv) \in Nat /\ mem[0] = Len(input.argv)
  BY <1>1, ArgRead
<1>3. Visited(index) /\ NameSo(index, argv0) /\ index < Len(input.argv)
  BY <1>1, <1>2 DEF BootInv, OptionsInv
<1>4. index \in StartsAt /\ index \in Nat /\ index \in 1 .. Len(input.argv)
  BY <1>2, <1>3, StartsFacts DEF Visited
<1>5. ArgKind[Arg(index)] = ArgKindAt(index)
  BY <1>1, <1>3, <1>4, ArgRead
<1>6. HasValue(index) <=> index + 1 < Len(input.argv)
  BY <1>2 DEF HasValue
<1>7. ASSUME ArgKindAt(index) \in {"query", "list", "verify", "unknown"}
      PROVE  OptionsOf({"program"}) = {}
  BY <1>2, <1>3, <1>4, <1>7, NoProgram
<1>8. \/ ArgKindAt(index) = "query" /\ Exit(0)
      \/ /\ ArgKindAt(index) \in {"list", "verify"}
         /\ ~HasValue(index) /\ Exit(1)
      \/ /\ ArgKindAt(index) \in {"list", "verify"}
         /\ pc' = "inspect"
         /\ UNCHANGED <<input, mem, index, argv_index, argv0, count, exec_path, auxv, status,
                        entry>>
      \/ /\ ArgKindAt(index) \in {"argv0", "value"}
         /\ ~HasValue(index) /\ Exit(1)
      \/ /\ ArgKindAt(index) \in {"argv0", "value"}
         /\ HasValue(index)
         /\ argv0' = IF ArgKindAt(index) = "argv0" THEN Arg(index + 1) ELSE argv0
         /\ Skip(2)
      \/ ArgKindAt(index) = "flag" /\ Skip(1) /\ UNCHANGED argv0
      \/ ArgKindAt(index) = "unknown" /\ Exit(1)
      \/ /\ ArgKindAt(index) = "program"
         /\ argv_index' = index
         /\ count' = CopyCount(index)
         /\ index' = 0
         /\ pc' = "copying"
         /\ UNCHANGED <<input, mem, argv0, exec_path, auxv, status, entry>>
  BY <1>5 DEF ParseOption
<1>9. CASE ArgKindAt(index) = "query" /\ Exit(0)
  <2>1. index \in OptionsOf({"query", "list", "verify"})
    BY <1>3, <1>4, <1>9 DEF OptionsOf
  <2> QED BY <1>7, <1>9, <2>1, ExitStep
<1>10. CASE ArgKindAt(index) \in {"list", "verify"} /\ ~HasValue(index) /\ Exit(1)
  <2>1. index \in OptionsOf({"unknown", "list", "verify"})
    BY <1>3, <1>4, <1>10 DEF OptionsOf
  <2> QED BY <1>7, <1>10, <2>1, ExitStep
<1>11. CASE /\ ArgKindAt(index) \in {"list", "verify"}
            /\ pc' = "inspect"
            /\ UNCHANGED <<input, mem, index, argv_index, argv0, count, exec_path, auxv, status,
                           entry>>
  <2>1. OptionsOf({"program"}) = {}
    BY <1>7, <1>11
  <2>2. index \in OptionsOf({"list", "verify"})
    BY <1>3, <1>4, <1>11 DEF OptionsOf
  <2>3. input' = input /\ mem' = mem /\ pc' = "inspect"
    BY <1>11
  <2>4. UntouchedInv' /\ InspectInv'
    BY <1>1, <2>1, <2>2, <2>3, Frame DEF UntouchedInv, InspectInv
  <2>5. OptionsInv' /\ ProgramInv' /\ CopyInv' /\ RewrittenInv' /\ StackAsExec' /\ ExitJustified'
    BY <2>3 DEF OptionsInv, ProgramInv, CopyInv, RewrittenInv, StackAsExec, ExitJustified
  <2> QED BY <2>4, <2>5 DEF BootInv
<1>12. CASE ArgKindAt(index) \in {"argv0", "value"} /\ ~HasValue(index) /\ Exit(1)
  <2>1. index \in OptionsOf({"argv0", "value"})
    BY <1>3, <1>4, <1>12 DEF OptionsOf
  <2>2. index = Len(input.argv) - 1
    BY <1>2, <1>3, <1>4, <1>6, <1>12
  <2>3. OptionsOf({"program"}) = {}
    BY <1>2, <1>3, <1>4, <1>6, <1>12, NoProgram
  <2> QED BY <1>12, <2>1, <2>2, <2>3, ExitStep
<1>13. CASE /\ ArgKindAt(index) \in {"argv0", "value"}
            /\ HasValue(index)
            /\ argv0' = IF ArgKindAt(index) = "argv0" THEN Arg(index + 1) ELSE argv0
            /\ Skip(2)
  <2>1. index + 1 \in Nat /\ index + 1 < Len(input.argv) /\ (index + 1) + 1 = index + 2
        /\ index + 2 <= Len(input.argv) /\ 2 \in {1, 2}
    BY <1>2, <1>4, <1>6, <1>13
  <2>2. Arg(index + 1) = input.argv[index + 2]
    BY <1>1, <2>1, ArgRead
  <2> QED BY <1>1, <1>3, <1>13, <2>1, <2>2, SkipStep
<1>14. CASE ArgKindAt(index) = "flag" /\ Skip(1) /\ UNCHANGED argv0
  <2>1. 1 \in {1, 2}
    OBVIOUS
  <2> QED BY <1>1, <1>3, <1>14, <2>1, SkipStep
<1>15. CASE ArgKindAt(index) = "unknown" /\ Exit(1)
  <2>1. index \in OptionsOf({"unknown", "list", "verify"})
    BY <1>3, <1>4, <1>15 DEF OptionsOf
  <2> QED BY <1>7, <1>15, <2>1, ExitStep
<1>16. CASE /\ ArgKindAt(index) = "program"
            /\ argv_index' = index
            /\ count' = CopyCount(index)
            /\ index' = 0
            /\ pc' = "copying"
            /\ UNCHANGED <<input, mem, argv0, exec_path, auxv, status, entry>>
  BY <1>1, <1>3, <1>16, ProgramStep
<1>17. QED
  BY <1>8, <1>9, <1>10, <1>11, <1>12, <1>13, <1>14, <1>15, <1>16

LEMMA PrintHelpStep ==
  ASSUME BootInv, PrintHelp
  PROVE  BootInv'
<1>1. /\ input \in Input /\ mem = KernelMem /\ pc = "options" /\ Exit(0)
      /\ mem[0] <= 1 \/ index >= mem[0]
  BY DEF BootInv, UntouchedInv, PrintHelp
<1>2. Len(input.argv) \in Nat /\ mem[0] = Len(input.argv)
  BY <1>1, ArgRead
<1>3. CASE Len(input.argv) = 0
  <2>1. OptionsOf({"program"}) = {}
    BY <1>3, StartsFacts DEF OptionsOf
  <2> QED BY <1>1, <1>3, <2>1, ExitStep
<1>4. CASE Len(input.argv) # 0
  <2>1. Visited(index) /\ index \in StartsAt
    BY <1>1, <1>4 DEF BootInv, OptionsInv, Visited
  <2>2. index \in 1 .. Len(input.argv)
    BY <1>2, <2>1, StartsFacts
  <2>3. index = Len(input.argv)
    BY <1>1, <1>2, <2>2
  <2>4. OptionsOf({"program"}) = {}
    BY <1>2, <2>1, <2>3, NoProgram
  <2> QED BY <1>1, <2>1, <2>3, <2>4, ExitStep
<1>5. QED
  BY <1>3, <1>4

-----------------------------------------------------------------------------
(* The program's own stack.                                                *)

(* What the auxiliary vector is patched to is what it should say.          *)
LEMMA PatchedRight ==
  ASSUME input.aux \in Seq((Nat \ {0}) \X Nat), exec_path = input.argv[ProgramAt + 1],
         exec_path \in Nat, NEW k \in 1 .. Len(input.aux)
  PROVE  /\ ProgramAux[k] = <<input.aux[k][1], Patched(input.aux[k][1], input.aux[k][2])>>
         /\ ProgramAux[k] \in (Nat \ {0}) \X Nat
<1> DEFINE own == {<<AT_PHDR, ExecPhdr>>, <<AT_PHENT, ExecPhent>>,
                   <<AT_PHNUM, ExecPhnum>>, <<AT_BASE, RtldBias>>,
                   <<AT_ENTRY, ExecEntry>>, <<AT_EXECFN, exec_path>>}
           c == input.aux[k][1]
           v == input.aux[k][2]
<1>1. input.aux[k] \in (Nat \ {0}) \X Nat
  OBVIOUS
<1>2. c \in Nat \ {0} /\ v \in Nat /\ input.aux[k] = <<c, v>>
  BY <1>1
<1>3. ProgramAux[k] = IF \E o \in own : o[1] = c THEN CHOOSE o \in own : o[1] = c ELSE <<c, v>>
  BY <1>2 DEF ProgramAux
<1> HIDE DEF c, v
<1>4. (IF \E o \in own : o[1] = c THEN CHOOSE o \in own : o[1] = c ELSE <<c, v>>)
        = <<c, Patched(c, v)>>
  <2>1. ASSUME NEW o \in own, o[1] = c PROVE o = <<c, Patched(c, v)>>
    BY <2>1 DEF Patched, AT_PHDR, AT_PHENT, AT_PHNUM, AT_BASE, AT_ENTRY, AT_EXECFN
  <2>2. ASSUME \A o \in own : o[1] # c PROVE Patched(c, v) = v
    <3>1. /\ c # AT_PHDR /\ c # AT_PHENT /\ c # AT_PHNUM /\ c # AT_BASE /\ c # AT_ENTRY
          /\ c # AT_EXECFN
      BY <2>2
    <3> QED BY <3>1 DEF Patched
  <2> HIDE DEF own
  <2>3. CASE \E o \in own : o[1] = c
    BY <2>1, <2>3
  <2>4. CASE ~(\E o \in own : o[1] = c)
    BY <2>2, <2>4
  <2> QED BY <2>3, <2>4
<1>5. Patched(c, v) \in Nat
  BY <1>2, BootstrapAssumption DEF Patched
<1> HIDE DEF own
<1>6. QED
  BY <1>2, <1>3, <1>4, <1>5 DEF c, v

LEMMA PartFacts ==
  ASSUME input.aux \in Seq((Nat \ {0}) \X Nat), exec_path = input.argv[ProgramAt + 1],
         exec_path \in Nat, NEW j \in 0 .. Len(input.aux)
  PROVE  /\ PartAux(j) \in Seq((Nat \ {0}) \X Nat) /\ Len(PartAux(j)) = Len(input.aux)
         /\ \A k \in 1 .. Len(input.aux) :
              /\ PartAux(j)[k][1] = input.aux[k][1]
              /\ PartAux(j)[k][2] = IF k <= j THEN Patched(input.aux[k][1], input.aux[k][2])
                                    ELSE input.aux[k][2]
<1>1. Len(input.aux) \in Nat /\ \A k \in 1 .. Len(input.aux) : input.aux[k] \in (Nat \ {0}) \X Nat
  OBVIOUS
<1>2. ASSUME NEW k \in 1 .. Len(input.aux)
      PROVE  /\ PartAux(j)[k] = IF k <= j THEN ProgramAux[k] ELSE input.aux[k]
             /\ PartAux(j)[k] \in (Nat \ {0}) \X Nat
             /\ PartAux(j)[k][1] = input.aux[k][1]
             /\ PartAux(j)[k][2] = IF k <= j THEN Patched(input.aux[k][1], input.aux[k][2])
                                   ELSE input.aux[k][2]
  <2>1. PartAux(j)[k] = IF k <= j THEN ProgramAux[k] ELSE input.aux[k]
    BY DEF PartAux
  <2>2. /\ ProgramAux[k] = <<input.aux[k][1], Patched(input.aux[k][1], input.aux[k][2])>>
        /\ ProgramAux[k] \in (Nat \ {0}) \X Nat
    BY PatchedRight
  <2> QED BY <1>1, <2>1, <2>2
<1>3. PartAux(j) = [k \in 1 .. Len(input.aux) |-> PartAux(j)[k]]
  BY DEF PartAux
<1>4. PartAux(j) \in Seq((Nat \ {0}) \X Nat) /\ Len(PartAux(j)) = Len(input.aux)
  <2> DEFINE q == PartAux(j)
             x == Len(input.aux)
             D == (Nat \ {0}) \X Nat
  <2>1. x \in Nat /\ q = [k \in 1 .. x |-> q[k]] /\ \A k \in 1 .. x : q[k] \in D
    BY <1>1, <1>2, <1>3
  <2> HIDE DEF q, x, D
  <2>2. q \in [1 .. x -> D]
    BY <2>1
  <2>3. q \in Seq(D) /\ Len(q) = x
    BY <2>1, <2>2
  <2> QED BY <2>3 DEF q, x, D
<1>5. QED
  BY <1>2, <1>4

(* At the end the auxiliary vector is the one that the program expects.    *)
LEMMA PartLast ==
  ASSUME Len(input.aux) \in Nat
  PROVE  PartAux(Len(input.aux)) = ProgramAux
<1>1. ProgramAux = [k \in 1 .. Len(input.aux) |-> ProgramAux[k]]
  BY DEF ProgramAux
<1>2. \A k \in 1 .. Len(input.aux) : k <= Len(input.aux)
  OBVIOUS
<1>3. QED
  BY <1>1, <1>2 DEF PartAux

(* The program, its name and its arguments.                                *)
LEMMA ProgramKnown ==
  ASSUME input \in Input, NEW p, OptionsOf({"program"}) = {p}, NEW v, NameSo(p, v),
         \A k \in OptionsOf({"argv0"}) : k < p /\ k + 2 <= Len(input.argv)
  PROVE  /\ p \in 1 .. Len(input.argv) /\ p < Len(input.argv)
         /\ ProgramAt = p
         /\ ProgramName = IF v # 0 THEN v ELSE input.argv[p + 1]
         /\ ProgramArgv \in Seq(Nat) /\ Len(ProgramArgv) = Len(input.argv) - p
         /\ ProgramArgv[1] = ProgramName
         /\ \A k \in 2 .. Len(input.argv) - p : ProgramArgv[k] = input.argv[p + k]
<1> DEFINE n == Len(input.argv)
           names == OptionsOf({"argv0"})
<1>1. n \in Nat /\ input.argv \in Seq(Nat) /\ \A k \in 1 .. n : input.argv[k] \in Nat \ {0}
  BY InputTypes
<1>2. p \in StartsAt /\ p < n
  BY DEF OptionsOf
<1>3. p \in 1 .. n /\ p < n
  BY <1>1, <1>2, StartsFacts
<1>4. ProgramAt = p
  BY DEF ProgramAt
<1>5. \A k \in names : k \in Int /\ k \in 1 .. n /\ k < p /\ k + 2 \in 1 .. n
  <2> TAKE k \in names
  <2>1. k \in StartsAt /\ k < p /\ k + 2 <= n
    BY DEF OptionsOf
  <2>2. k \in 1 .. n
    BY <1>1, <2>1, StartsFacts
  <2> QED BY <1>1, <2>1, <2>2
<1>6. ProgramName = IF names = {} THEN input.argv[p + 1]
                    ELSE input.argv[2 + CHOOSE k \in names : \A j \in names : j <= k]
  BY <1>4 DEF ProgramName
<1>7. \/ v = 0 /\ names = {}
      \/ \E k \in names : v = input.argv[k + 2] /\ \A l \in names : l <= k
  BY <1>5 DEF NameSo
<1> HIDE DEF n, names
<1>8. ProgramName = IF v # 0 THEN v ELSE input.argv[p + 1]
  <2>1. CASE v = 0 /\ names = {}
    BY <1>6, <2>1
  <2>2. CASE \E k \in names : v = input.argv[k + 2] /\ \A l \in names : l <= k
    <3>1. PICK k \in names : v = input.argv[k + 2] /\ \A l \in names : l <= k
      BY <2>2
    <3>2. (CHOOSE j \in names : \A l \in names : l <= j) = k
      <4>1. ASSUME NEW j \in names, \A l \in names : l <= j PROVE j = k
        <5>1. j <= k /\ k <= j /\ j \in Int /\ k \in Int
          BY <1>5, <3>1, <4>1
        <5> QED BY <5>1
      <4> QED BY <3>1, <4>1
    <3>3. 2 + k = k + 2 /\ v # 0
      BY <1>1, <1>5, <3>1
    <3> QED BY <1>6, <3>1, <3>2, <3>3
  <2> QED BY <1>7, <2>1, <2>2
<1>9. ProgramName \in Nat
  <2>1. p + 1 \in 1 .. n
    BY <1>1, <1>3
  <2>2. v # 0 => \E k \in names : v = input.argv[k + 2]
    BY <1>7
  <2> QED BY <1>1, <1>5, <1>8, <2>1, <2>2
<1> DEFINE tail == SubSeq(input.argv, p + 2, n)
<1>10. /\ tail \in Seq(Nat) /\ Len(tail) = n - p - 1
       /\ \A k \in 1 .. n - p - 1 : tail[k] = input.argv[p + 1 + k]
  <2>1. p + 2 \in Int /\ p + 2 \in 1 .. n + 1 /\ n \in Int
    BY <1>1, <1>3
  <2>2. \A k \in (p + 2) .. n : k \in 1 .. Len(input.argv)
    BY <1>1, <1>3 DEF n
  <2>3. tail = [k \in 1 .. (n - (p + 2) + 1) |-> input.argv[k + (p + 2) - 1]]
    BY <1>1, <1>3, <2>1
  <2>4. n - (p + 2) + 1 = n - p - 1 /\ n - p - 1 \in Nat
    BY <1>1, <1>3
  <2>5. \A k \in 1 .. n - p - 1 : k + (p + 2) - 1 = p + 1 + k /\ p + 1 + k \in 1 .. n
    BY <1>1, <1>3
  <2> HIDE DEF tail
  <2>6. tail = [k \in 1 .. n - p - 1 |-> input.argv[p + 1 + k]]
    BY <2>3, <2>4, <2>5
  <2>7. \A k \in 1 .. n - p - 1 : input.argv[p + 1 + k] \in Nat
    BY <1>1, <2>5
  <2> QED BY <2>4, <2>6, <2>7
<1> HIDE DEF tail
<1>11. ProgramArgv = <<ProgramName>> \o tail
  BY <1>4 DEF ProgramArgv, tail, n
<1>12. <<ProgramName>> \in Seq(Nat) /\ Len(<<ProgramName>>) = 1 /\ <<ProgramName>>[1] = ProgramName
  BY <1>9
<1>13. Joined(ProgramArgv, <<ProgramName>>, tail)
  BY <1>10, <1>11, <1>12, Joins
<1>14. /\ ProgramArgv \in Seq(Nat) /\ Len(ProgramArgv) = n - p /\ ProgramArgv[1] = ProgramName
       /\ \A k \in 1 .. n - p - 1 : ProgramArgv[1 + k] = tail[k]
  <2>1. 1 + (n - p - 1) = n - p /\ 1 \in 1 .. 1
    BY <1>1, <1>3
  <2> QED BY <1>10, <1>12, <1>13, <2>1 DEF Joined
<1>15. ASSUME NEW k \in 2 .. n - p PROVE ProgramArgv[k] = input.argv[p + k]
  <2>1. k - 1 \in 1 .. n - p - 1 /\ 1 + (k - 1) = k /\ p + 1 + (k - 1) = p + k
    BY <1>1, <1>3
  <2> QED BY <1>10, <1>14, <2>1
<1>16. QED
  BY <1>3, <1>4, <1>8, <1>14, <1>15 DEF n

LEMMA CopyWordStep ==
  ASSUME BootInv, CopyWord
  PROVE  BootInv'
<1>1. /\ pc = "copying" /\ index < count /\ pc' = pc
      /\ mem' = [mem EXCEPT ![1 + index] = mem[1 + argv_index + index]]
      /\ index' = index + 1
      /\ input' = input /\ argv_index' = argv_index /\ argv0' = argv0 /\ count' = count
  BY DEF CopyWord
<1>2. /\ input \in Input
      /\ Direct
      /\ OptionsOf({"program"}) = {argv_index}
      /\ \A k \in OptionsOf({"argv0"}) : k < argv_index /\ k + 2 <= Len(input.argv)
      /\ NameSo(argv_index, argv0)
      /\ mem \in [0 .. KernelTotal - 1 -> Nat]
      /\ count = KernelTotal - 1 - argv_index
      /\ index \in 0 .. count
      /\ \A k \in 0 .. KernelTotal - 1 :
           mem[k] = IF k \in 1 .. index THEN KernelMem[k + argv_index] ELSE KernelMem[k]
  BY <1>1 DEF BootInv, UntouchedInv, ProgramInv, CopyInv
<1>3. argv_index \in Nat /\ argv_index >= 1
  <2>1. argv_index \in StartsAt
    BY <1>2 DEF OptionsOf
  <2> QED BY <1>2, <2>1, InputTypes, StartsFacts
<1>4. KernelTotal \in Nat
  BY <1>2, KernelLayout
<1>5. /\ index \in Nat /\ 1 + index \in 0 .. KernelTotal - 1
      /\ 1 + argv_index + index \in 0 .. KernelTotal - 1
      /\ 1 + argv_index + index \notin 1 .. index
      /\ index + 1 \in 0 .. count
  BY <1>1, <1>2, <1>3, <1>4
<1>6. mem[1 + argv_index + index] = KernelMem[1 + argv_index + index]
  BY <1>2, <1>5
<1>7. mem' \in [0 .. KernelTotal - 1 -> Nat]
  BY <1>1, <1>2, <1>5
<1>8. ASSUME NEW k \in 0 .. KernelTotal - 1
      PROVE  mem'[k] = IF k \in 1 .. index + 1 THEN KernelMem[k + argv_index] ELSE KernelMem[k]
  <2>1. CASE k = 1 + index
    <3>1. mem'[k] = KernelMem[1 + argv_index + index]
      BY <1>1, <1>2, <1>6, <2>1
    <3>2. k \in 1 .. index + 1 /\ k + argv_index = 1 + argv_index + index
      BY <1>3, <1>5, <2>1
    <3> QED BY <3>1, <3>2
  <2>2. CASE k # 1 + index
    <3>1. mem'[k] = mem[k]
      BY <1>1, <1>2, <2>2
    <3>2. k \in 1 .. index <=> k \in 1 .. index + 1
      BY <1>5, <2>2
    <3> QED BY <1>2, <3>1, <3>2
  <2> QED BY <2>1, <2>2
<1>9. UntouchedInv'
  BY <1>1, <1>2 DEF UntouchedInv
<1>10. ProgramInv'
  <2>1. NameSo(argv_index, argv0)'
    BY <1>1, <1>2, Frame DEF NameSo
  <2> QED BY <1>1, <1>2, <1>7, <2>1, Frame DEF ProgramInv
<1>11. CopyInv'
  BY <1>1, <1>2, <1>5, <1>8, Frame DEF CopyInv
<1>12. OptionsInv' /\ InspectInv' /\ RewrittenInv' /\ StackAsExec' /\ ExitJustified'
  BY <1>1 DEF OptionsInv, InspectInv, RewrittenInv, StackAsExec, ExitJustified
<1>13. QED
  BY <1>9, <1>10, <1>11, <1>12 DEF BootInv

LEMMA PartFirst ==
  ASSUME input.aux \in Seq((Nat \ {0}) \X Nat)
  PROVE  PartAux(0) = input.aux
<1>1. Len(input.aux) \in Nat /\ input.aux = [k \in 1 .. Len(input.aux) |-> input.aux[k]]
  OBVIOUS
<1>2. \A k \in 1 .. Len(input.aux) : ~(k <= 0)
  BY <1>1
<1>3. PartAux(0) = [k \in 1 .. Len(input.aux) |-> input.aux[k]]
  BY <1>2 DEF PartAux
<1>4. QED
  BY <1>1, <1>3

LEMMA PartFrame ==
  ASSUME input' = input, NEW j
  PROVE  PartAux(j)' = PartAux(j)
  BY Frame DEF PartAux

(* Where the words of a stack of a arguments, e words of environment and x *)
(* auxiliary entries lie when it has been moved down by p words.           *)
LEMMA ShiftedEnvp ==
  ASSUME NEW a \in Nat, NEW e \in Nat, NEW x \in Nat, NEW p \in Nat, 1 <= p, p < a,
         NEW k \in Nat, k <= e,
         NEW b, b = a + e + 3, NEW c, c = a - p
  PROVE  /\ c + 1 + k \in Nat /\ c + 1 + k >= 2 /\ c + 1 + k <= b + 2 * x + 1 - p
         /\ (c + 1 + k) + p = a + 1 + k
  OBVIOUS

LEMMA ShiftedNulls ==
  ASSUME NEW a \in Nat, NEW e \in Nat, NEW x \in Nat, NEW p \in Nat, 1 <= p, p < a,
         NEW b, b = a + e + 3, NEW c, c = a - p
  PROVE  /\ c + 1 \in Nat /\ c + 1 >= 2 /\ c + 1 <= b + 2 * x + 1 - p /\ (c + 1) + p = a + 1
         /\ c + e + 2 \in Nat /\ c + e + 2 >= 2 /\ c + e + 2 <= b + 2 * x + 1 - p
         /\ (c + e + 2) + p = a + e + 2
  OBVIOUS

LEMMA ShiftedPair ==
  ASSUME NEW a \in Nat, NEW e \in Nat, NEW x \in Nat, NEW p \in Nat, 1 <= p, p < a,
         NEW k \in 1 .. x,
         NEW b, b = a + e + 3, NEW d, d = (a - p) + e + 3
  PROVE  /\ d + 2 * k - 2 \in Nat /\ d + 2 * k - 2 >= 2 /\ d + 2 * k - 2 <= b + 2 * x + 1 - p
         /\ (d + 2 * k - 2) + p = b + 2 * k - 2
         /\ d + 2 * k - 1 \in Nat /\ d + 2 * k - 1 >= 2 /\ d + 2 * k - 1 <= b + 2 * x + 1 - p
         /\ (d + 2 * k - 1) + p = b + 2 * k - 1
  OBVIOUS

LEMMA ShiftedEnd ==
  ASSUME NEW a \in Nat, NEW e \in Nat, NEW x \in Nat, NEW p \in Nat, 1 <= p, p < a,
         NEW b, b = a + e + 3, NEW d, d = (a - p) + e + 3
  PROVE  /\ d + 2 * x \in Nat /\ d + 2 * x >= 2 /\ d + 2 * x <= b + 2 * x + 1 - p
         /\ (d + 2 * x) + p = b + 2 * x
         /\ d + 2 * x + 1 \in Nat /\ d + 2 * x + 1 >= 2 /\ d + 2 * x + 1 <= b + 2 * x + 1 - p
         /\ (d + 2 * x + 1) + p = b + 2 * x + 1
  OBVIOUS

(* A stack that was moved down by p words is the stack of the program.     *)
LEMMA ShiftedLayout ==
  ASSUME input \in Input, NEW p \in 1 .. Len(input.argv), p < Len(input.argv), NEW m,
         NEW argv \in Seq(Nat), Len(argv) = Len(input.argv) - p,
         \A k \in 2 .. Len(input.argv) - p : argv[k] = input.argv[p + k],
         m[0] = Len(input.argv) - p, m[1] = argv[1],
         \A k \in 2 .. KernelTotal - 1 - p : m[k] = KernelMem[k + p]
  PROVE  Layout(m, argv, input.envp, input.aux)
<1> DEFINE a == Len(input.argv)
           e == Len(input.envp)
           x == Len(input.aux)
           b == a + e + 3
           c == a - p
           d == c + e + 3
           aux == input.aux
           envp == input.envp
           old == input.argv
<1>1. a \in Nat /\ e \in Nat /\ x \in Nat /\ p \in Nat /\ 1 <= p /\ p < a
  <2>1. a \in Nat /\ e \in Nat /\ x \in Nat
    BY InputLengths
  <2> QED BY <2>1
<1>2. KernelTotal = b + 2 * x + 2
  BY DEF KernelTotal, Total, Base
<1>3. /\ \A k \in 1 .. a : KernelMem[k] = old[k]
      /\ KernelMem[a + 1] = 0
      /\ \A k \in 1 .. e : KernelMem[a + 1 + k] = envp[k]
      /\ KernelMem[a + e + 2] = 0
      /\ \A k \in 1 .. x : /\ KernelMem[b + 2 * k - 2] = aux[k][1]
                           /\ KernelMem[b + 2 * k - 1] = aux[k][2]
      /\ KernelMem[b + 2 * x] = 0
      /\ KernelMem[b + 2 * x + 1] = 0
  <2>1. Layout(KernelMem, old, envp, aux)
    BY KernelLayout
  <2> QED BY <2>1 DEF Layout
<1>4. /\ Len(argv) = c /\ m[0] = c /\ m[1] = argv[1]
      /\ \A k \in 2 .. c : argv[k] = old[p + k]
      /\ \A k \in 2 .. KernelTotal - 1 - p : m[k] = KernelMem[k + p]
  OBVIOUS
<1> HIDE DEF a, e, x, aux, envp, old
<1>0. b = a + e + 3 /\ c = a - p /\ d = (a - p) + e + 3
  OBVIOUS
<1>5. \A k \in Nat : k >= 2 /\ k <= b + 2 * x + 1 - p => m[k] = KernelMem[k + p]
  <2> TAKE k \in Nat
  <2> HAVE k >= 2 /\ k <= b + 2 * x + 1 - p
  <2>1. k \in 2 .. KernelTotal - 1 - p
    BY <1>1, <1>2
  <2> QED BY <1>4, <2>1
<1>6. ASSUME NEW k \in 1 .. c PROVE m[k] = argv[k]
  <2>1. CASE k = 1
    BY <1>4, <2>1
  <2>2. CASE k # 1
    <3>1. k \in 2 .. c /\ k \in Nat /\ k >= 2 /\ k <= b + 2 * x + 1 - p /\ k + p = p + k
          /\ p + k \in 1 .. a
      <4>1. k \in Nat /\ 2 <= k /\ k <= a - p
        BY <1>1, <2>2
      <4>2. k \in 2 .. c /\ k + p = p + k /\ p + k \in 1 .. a
        BY <1>1, <4>1
      <4>3. k <= b + 2 * x + 1 - p
        BY <1>1, <4>1
      <4> QED BY <4>1, <4>2, <4>3
    <3> QED BY <1>3, <1>4, <1>5, <3>1
  <2> QED BY <2>1, <2>2
<1>7. m[c + 1] = 0 /\ m[c + e + 2] = 0
  <2>1. /\ c + 1 \in Nat /\ c + 1 >= 2 /\ c + 1 <= b + 2 * x + 1 - p /\ (c + 1) + p = a + 1
        /\ c + e + 2 \in Nat /\ c + e + 2 >= 2 /\ c + e + 2 <= b + 2 * x + 1 - p
        /\ (c + e + 2) + p = a + e + 2
    <3> HIDE DEF b, c, d
    <3> QED BY <1>0, <1>1, ShiftedNulls
  <2> HIDE DEF b, c
  <2> QED BY <1>3, <1>5, <2>1
<1>8. ASSUME NEW k \in 1 .. e PROVE m[c + 1 + k] = envp[k]
  <2>0. k \in Nat /\ 1 <= k /\ k <= e
    BY <1>1
  <2>1. /\ c + 1 + k \in Nat /\ c + 1 + k >= 2 /\ c + 1 + k <= b + 2 * x + 1 - p
        /\ (c + 1 + k) + p = a + 1 + k
    <3> HIDE DEF b, c, d
    <3> QED BY <1>0, <1>1, <2>0, ShiftedEnvp
  <2> HIDE DEF b, c
  <2> QED BY <1>3, <1>5, <2>1
<1>9. ASSUME NEW k \in 1 .. x
      PROVE  m[d + 2 * k - 2] = aux[k][1] /\ m[d + 2 * k - 1] = aux[k][2]
  <2>1. /\ d + 2 * k - 2 \in Nat /\ d + 2 * k - 2 >= 2 /\ d + 2 * k - 2 <= b + 2 * x + 1 - p
        /\ (d + 2 * k - 2) + p = b + 2 * k - 2
        /\ d + 2 * k - 1 \in Nat /\ d + 2 * k - 1 >= 2 /\ d + 2 * k - 1 <= b + 2 * x + 1 - p
        /\ (d + 2 * k - 1) + p = b + 2 * k - 1
    <3> HIDE DEF b, c, d
    <3> QED BY <1>0, <1>1, ShiftedPair
  <2> HIDE DEF b, c, d
  <2> QED BY <1>3, <1>5, <2>1
<1>10. m[d + 2 * x] = 0 /\ m[d + 2 * x + 1] = 0
  <2>1. /\ d + 2 * x \in Nat /\ d + 2 * x >= 2 /\ d + 2 * x <= b + 2 * x + 1 - p
        /\ (d + 2 * x) + p = b + 2 * x
        /\ d + 2 * x + 1 \in Nat /\ d + 2 * x + 1 >= 2 /\ d + 2 * x + 1 <= b + 2 * x + 1 - p
        /\ (d + 2 * x + 1) + p = b + 2 * x + 1
    <3> HIDE DEF b, c, d
    <3> QED BY <1>0, <1>1, ShiftedEnd
  <2> HIDE DEF b, c, d
  <2> QED BY <1>3, <1>5, <2>1
<1> HIDE DEF c
<1>11. QED
  BY <1>4, <1>6, <1>7, <1>8, <1>9, <1>10 DEF Layout, e, x, aux, envp

LEMMA FinishRewriteStep ==
  ASSUME BootInv, FinishRewrite
  PROVE  BootInv'
<1> DEFINE n == Len(input.argv)
           argc == mem[0] - argv_index
           m == [mem EXCEPT ![0] = argc, ![1] = IF argv0 # 0 THEN argv0 ELSE @]
<1>1. /\ pc = "copying" /\ index = count /\ pc' = "load"
      /\ mem' = m /\ exec_path' = mem[1] /\ auxv' = AuxvOf(m, argc)
      /\ input' = input /\ argv_index' = argv_index /\ argv0' = argv0
  BY DEF FinishRewrite
<1>2. /\ input \in Input
      /\ Direct
      /\ OptionsOf({"program"}) = {argv_index}
      /\ \A k \in OptionsOf({"argv0"}) : k < argv_index /\ k + 2 <= Len(input.argv)
      /\ NameSo(argv_index, argv0)
      /\ mem \in [0 .. KernelTotal - 1 -> Nat]
      /\ count = KernelTotal - 1 - argv_index
      /\ \A k \in 0 .. KernelTotal - 1 :
           mem[k] = IF k \in 1 .. index THEN KernelMem[k + argv_index] ELSE KernelMem[k]
  BY <1>1 DEF BootInv, UntouchedInv, ProgramInv, CopyInv
<1>3. /\ argv_index \in 1 .. n /\ argv_index < n
      /\ ProgramAt = argv_index
      /\ ProgramName = IF argv0 # 0 THEN argv0 ELSE input.argv[argv_index + 1]
      /\ ProgramArgv \in Seq(Nat) /\ Len(ProgramArgv) = n - argv_index
      /\ ProgramArgv[1] = ProgramName
      /\ \A k \in 2 .. n - argv_index : ProgramArgv[k] = input.argv[argv_index + k]
  BY <1>2, ProgramKnown
<1>4. n \in Nat /\ KernelTotal \in Nat /\ KernelTotal > n + 1
  <2> DEFINE e == Len(input.envp)
             x == Len(input.aux)
  <2>1. n \in Nat /\ e \in Nat /\ x \in Nat
    BY <1>2, InputLengths
  <2>2. KernelTotal = n + e + 3 + 2 * x + 2
    BY DEF KernelTotal, Total, Base
  <2> HIDE DEF n, e, x
  <2> QED BY <2>1, <2>2
<1>5. /\ KernelMem[0] = n
      /\ \A k \in 1 .. n : KernelMem[k] = input.argv[k]
  <2>1. Layout(KernelMem, input.argv, input.envp, input.aux)
    BY <1>2, KernelLayout
  <2> QED BY <2>1 DEF Layout
<1> HIDE DEF n
<1>6. /\ 0 \in 0 .. KernelTotal - 1 /\ 0 \notin 1 .. index
      /\ 1 \in 0 .. KernelTotal - 1 /\ 1 \in 1 .. index /\ 1 + argv_index = argv_index + 1
      /\ argv_index + 1 \in 1 .. n /\ argv_index \in Nat
  BY <1>1, <1>2, <1>3, <1>4
<1>7. mem[0] = n /\ mem[1] = input.argv[argv_index + 1] /\ argc = n - argv_index
  BY <1>2, <1>5, <1>6
<1>8. input.argv[argv_index + 1] \in Nat /\ ProgramName \in Nat
  <2>1. 1 \in 1 .. n - argv_index
    BY <1>3, <1>4
  <2> QED BY <1>2, <1>3, <1>6, <1>7, <2>1
<1>9. /\ m \in [0 .. KernelTotal - 1 -> Nat]
      /\ m[0] = n - argv_index
      /\ m[1] = ProgramName
      /\ \A k \in 2 .. KernelTotal - 1 : m[k] = mem[k]
  <2>1. n - argv_index \in Nat
    BY <1>3, <1>4
  <2>2. (IF argv0 # 0 THEN argv0 ELSE mem[1]) = ProgramName
    BY <1>3, <1>7
  <2>3. m = [mem EXCEPT ![0] = n - argv_index, ![1] = ProgramName]
    BY <1>2, <1>6, <1>7, <2>2
  <2>4. \A k \in 2 .. KernelTotal - 1 : k # 0 /\ k # 1 /\ k \in 0 .. KernelTotal - 1
    BY <1>4
  <2> HIDE DEF m
  <2> QED BY <1>2, <1>6, <1>8, <2>1, <2>3, <2>4
<1> HIDE DEF m, argc
<1>10. ASSUME NEW k \in 2 .. KernelTotal - 1 - argv_index
       PROVE  m[k] = KernelMem[k + argv_index]
  <2>1. k \in 2 .. KernelTotal - 1 /\ k \in 0 .. KernelTotal - 1 /\ k \in 1 .. index
    BY <1>1, <1>2, <1>3, <1>4
  <2> QED BY <1>2, <1>9, <2>1
<1>11. Layout(m, ProgramArgv, input.envp, input.aux)
  BY <1>2, <1>3, <1>9, <1>10, ShiftedLayout DEF n
<1>12. AuxvOf(m, argc) = Base(ProgramArgv, input.envp)
  <2>1. Total(ProgramArgv, input.envp, input.aux) <= KernelTotal
    <3> DEFINE e == Len(input.envp)
               x == Len(input.aux)
    <3>1. e \in Nat /\ x \in Nat
      BY <1>2, InputLengths
    <3>2. /\ KernelTotal = n + e + 3 + 2 * x + 2
          /\ Total(ProgramArgv, input.envp, input.aux) = (n - argv_index) + e + 3 + 2 * x + 2
      BY <1>3 DEF KernelTotal, Total, Base, n
    <3> HIDE DEF e, x
    <3> QED BY <1>3, <1>4, <3>1, <3>2
  <2>2. DOMAIN m = 0 .. KernelTotal - 1
    BY <1>9
  <2>3. input.envp \in Seq(Nat \ {0}) /\ input.aux \in Seq((Nat \ {0}) \X Nat)
    BY <1>2, InputTypes
  <2>4. AuxvOf(m, Len(ProgramArgv)) = Base(ProgramArgv, input.envp)
    BY <1>3, <1>4, <1>11, <2>1, <2>2, <2>3, LayoutScan
  <2> QED BY <1>3, <1>7, <2>4
<1>13. UntouchedInv'
  BY <1>1, <1>2 DEF UntouchedInv
<1>14. ProgramInv'
  <2>1. NameSo(argv_index, argv0)'
    BY <1>1, <1>2, Frame DEF NameSo
  <2> QED BY <1>1, <1>2, <1>9, <2>1, Frame DEF ProgramInv
<1>15. RewrittenInv'
  <2>1. auxv' = Base(ProgramArgv, input.envp)' /\ exec_path' = input'.argv[ProgramAt' + 1]
    BY <1>1, <1>3, <1>7, <1>12, Frame
  <2>2. PartAux(0)' = input.aux /\ ProgramArgv' = ProgramArgv
    BY <1>1, <1>2, PartFirst, PartFrame, Frame, InputTypes
  <2>3. Layout(mem, ProgramArgv, input.envp, PartAux(0))'
    BY <1>1, <1>11, <2>2 DEF Layout
  <2> QED BY <1>1, <2>1, <2>3 DEF RewrittenInv
<1>16. OptionsInv' /\ InspectInv' /\ CopyInv' /\ StackAsExec' /\ ExitJustified'
  BY <1>1 DEF OptionsInv, InspectInv, CopyInv, StackAsExec, ExitJustified
<1>17. QED
  BY <1>13, <1>14, <1>15, <1>16 DEF BootInv

(* What is known of a stack that has been rewritten.                       *)
LEMMA RewrittenFacts ==
  ASSUME BootInv, pc \in {"load", "patch", "link"}
  PROVE  /\ input \in Input /\ Direct
         /\ mem \in [0 .. KernelTotal - 1 -> Nat]
         /\ auxv = Base(ProgramArgv, input.envp)
         /\ exec_path = input.argv[ProgramAt + 1] /\ exec_path \in Nat
         /\ ProgramArgv \in Seq(Nat) /\ Len(ProgramArgv) \in Nat
         /\ Len(input.envp) \in Nat /\ Len(input.aux) \in Nat
         /\ input.aux \in Seq((Nat \ {0}) \X Nat)
         /\ KernelTotal \in Nat /\ auxv \in Nat /\ auxv > Len(ProgramArgv)
         /\ auxv + 2 * Len(input.aux) + 2 <= KernelTotal
<1>1. /\ input \in Input /\ Direct
      /\ OptionsOf({"program"}) = {argv_index}
      /\ \A k \in OptionsOf({"argv0"}) : k < argv_index /\ k + 2 <= Len(input.argv)
      /\ NameSo(argv_index, argv0)
      /\ mem \in [0 .. KernelTotal - 1 -> Nat]
      /\ auxv = Base(ProgramArgv, input.envp)
      /\ exec_path = input.argv[ProgramAt + 1]
  BY DEF BootInv, UntouchedInv, ProgramInv, RewrittenInv
<1>2. /\ argv_index \in 1 .. Len(input.argv) /\ argv_index < Len(input.argv)
      /\ ProgramAt = argv_index
      /\ ProgramArgv \in Seq(Nat) /\ Len(ProgramArgv) = Len(input.argv) - argv_index
  BY <1>1, ProgramKnown
<1> DEFINE n == Len(input.argv)
           e == Len(input.envp)
           x == Len(input.aux)
           c == Len(ProgramArgv)
<1>3. n \in Nat /\ e \in Nat /\ x \in Nat
  BY <1>1, InputLengths
<1>4. input.aux \in Seq((Nat \ {0}) \X Nat) /\ \A k \in 1 .. n : input.argv[k] \in Nat
  BY <1>1, InputTypes
<1>5. KernelTotal = n + e + 3 + 2 * x + 2 /\ auxv = c + e + 3
  BY <1>1 DEF KernelTotal, Total, Base
<1>6. exec_path \in Nat
  <2>1. argv_index + 1 \in 1 .. n
    BY <1>2, <1>3
  <2> QED BY <1>1, <1>2, <1>4, <2>1
<1>7. argv_index \in 1 .. n /\ argv_index < n /\ c = n - argv_index
  BY <1>2
<1> HIDE DEF n, e, x, c
<1>8. c \in Nat /\ KernelTotal \in Nat /\ auxv \in Nat /\ auxv > c /\ auxv + 2 * x + 2 <= KernelTotal
  BY <1>3, <1>5, <1>7
<1>9. QED
  BY <1>1, <1>2, <1>3, <1>4, <1>6, <1>8 DEF e, x, c

LEMMA LoadExecStep ==
  ASSUME BootInv, LoadExec
  PROVE  BootInv'
<1>1. CASE Exit(FATAL)
  BY <1>1, ExitStep
<1>2. CASE /\ pc' = "patch" /\ index' = auxv
           /\ UNCHANGED <<input, mem, argv_index, argv0, count, exec_path, auxv, status, entry>>
  <2>1. pc = "load" /\ input' = input /\ mem' = mem /\ argv_index' = argv_index
        /\ argv0' = argv0 /\ exec_path' = exec_path /\ auxv' = auxv
    BY <1>2 DEF LoadExec
  <2>2. UntouchedInv' /\ ProgramInv'
    <3>1. /\ input \in Input /\ Direct
          /\ OptionsOf({"program"}) = {argv_index}
          /\ \A k \in OptionsOf({"argv0"}) : k < argv_index /\ k + 2 <= Len(input.argv)
          /\ NameSo(argv_index, argv0)
          /\ mem \in [0 .. KernelTotal - 1 -> Nat]
      BY <2>1 DEF BootInv, UntouchedInv, ProgramInv
    <3>2. NameSo(argv_index, argv0)'
      BY <2>1, <3>1, Frame DEF NameSo
    <3> QED BY <1>2, <2>1, <3>1, <3>2, Frame DEF UntouchedInv, ProgramInv
  <2>3. RewrittenInv'
    <3>1. /\ auxv = Base(ProgramArgv, input.envp)
          /\ exec_path = input.argv[ProgramAt + 1]
          /\ Layout(mem, ProgramArgv, input.envp, PartAux(0))
      BY <2>1 DEF BootInv, RewrittenInv
    <3>2. Layout(mem, ProgramArgv, input.envp, PartAux(0))'
      BY <2>1, <3>1, Frame, PartFrame DEF Layout
    <3>3. 0 \in 0 .. Len(input.aux) /\ auxv + 2 * 0 = auxv
      BY <2>1, RewrittenFacts
    <3> HIDE DEF Layout
    <3>4. \E j \in 0 .. Len(input.aux)' : /\ index' = auxv' + 2 * j
                                          /\ Layout(mem, ProgramArgv, input.envp, PartAux(j))'
      BY <1>2, <2>1, <3>2, <3>3
    <3> QED BY <1>2, <2>1, <3>1, <3>4, Frame DEF RewrittenInv
  <2>4. OptionsInv' /\ InspectInv' /\ CopyInv' /\ StackAsExec' /\ ExitJustified'
    BY <1>2 DEF OptionsInv, InspectInv, CopyInv, StackAsExec, ExitJustified
  <2> QED BY <2>2, <2>3, <2>4 DEF BootInv
<1>3. QED
  BY <1>1, <1>2 DEF LoadExec

(* One entry more is patched.                                              *)
LEMMA PatchedLayout ==
  ASSUME NEW argv \in Seq(Nat), Len(argv) \in Nat, Len(input.envp) \in Nat, Len(input.aux) \in Nat,
         input.aux \in Seq((Nat \ {0}) \X Nat),
         exec_path = input.argv[ProgramAt + 1], exec_path \in Nat,
         NEW n \in Nat, NEW m \in [0 .. n - 1 -> Nat],
         Base(argv, input.envp) + 2 * Len(input.aux) + 2 <= n,
         NEW j \in 0 .. Len(input.aux) - 1, Layout(m, argv, input.envp, PartAux(j)),
         NEW r, r = [m EXCEPT ![Base(argv, input.envp) + 2 * j + 1]
                                = Patched(input.aux[j + 1][1], input.aux[j + 1][2])]
  PROVE  r \in [0 .. n - 1 -> Nat] /\ Layout(r, argv, input.envp, PartAux(j + 1))
<1> DEFINE a == Len(argv)
           e == Len(input.envp)
           x == Len(input.aux)
           b == a + e + 3
           q == PartAux(j)
           s == PartAux(j + 1)
           at1 == b + 2 * j + 1
           v == Patched(input.aux[j + 1][1], input.aux[j + 1][2])
<1>1. a \in Nat /\ e \in Nat /\ x \in Nat /\ b + 2 * x + 2 <= n /\ j \in Nat /\ j < x
  <2>1. a \in Nat /\ e \in Nat /\ x \in Nat /\ j \in 0 .. x - 1
    OBVIOUS
  <2>2. b + 2 * x + 2 <= n
    BY Zenon DEF Base
  <2> HIDE DEF a, e, x
  <2>3. j \in Nat /\ j < x
    BY <2>1
  <2> QED BY <2>1, <2>2, <2>3
<1>2. j \in 0 .. Len(input.aux) /\ j + 1 \in 0 .. Len(input.aux) /\ j + 1 \in 1 .. Len(input.aux)
  BY <1>1
<1>3. /\ Len(q) = x
      /\ \A k \in 1 .. x :
           /\ q[k][1] = input.aux[k][1]
           /\ q[k][2] = IF k <= j THEN Patched(input.aux[k][1], input.aux[k][2])
                        ELSE input.aux[k][2]
  BY <1>2, PartFacts
<1>4. /\ Len(s) = x
      /\ \A k \in 1 .. x :
           /\ s[k][1] = input.aux[k][1]
           /\ s[k][2] = IF k <= j + 1 THEN Patched(input.aux[k][1], input.aux[k][2])
                        ELSE input.aux[k][2]
  BY <1>2, PartFacts
<1>5. v \in Nat
  <2>0. s \in Seq((Nat \ {0}) \X Nat)
    BY <1>2, PartFacts
  <2>1. s[j + 1] \in (Nat \ {0}) \X Nat
    BY <1>2, <1>4, <2>0
  <2>2. j + 1 <= j + 1
    BY <1>1
  <2> QED BY <1>2, <1>4, <2>1, <2>2
<1>6. /\ m[0] = a
      /\ \A k \in 1 .. a : m[k] = argv[k]
      /\ m[a + 1] = 0
      /\ \A k \in 1 .. e : m[a + 1 + k] = input.envp[k]
      /\ m[a + e + 2] = 0
      /\ \A k \in 1 .. x : m[b + 2 * k - 2] = q[k][1] /\ m[b + 2 * k - 1] = q[k][2]
      /\ m[b + 2 * x] = 0
      /\ m[b + 2 * x + 1] = 0
  BY <1>3 DEF Layout
<1>7. r = [m EXCEPT ![at1] = v]
  BY DEF Base
<1> HIDE DEF a, e, x, q, s, v
<1>8. at1 \in 0 .. n - 1 /\ at1 < b + 2 * x
  BY <1>1
<1>9. r \in [0 .. n - 1 -> Nat] /\ r[at1] = v /\ \A k \in 0 .. n - 1 : k # at1 => r[k] = m[k]
  <2> HIDE DEF at1
  <2> QED BY <1>5, <1>7, <1>8
<1>10. \A k \in Nat : k <= b + 2 * x + 1 /\ k # at1 => r[k] = m[k]
  <2> TAKE k \in Nat
  <2> HAVE k <= b + 2 * x + 1 /\ k # at1
  <2>1. k \in 0 .. n - 1
    BY <1>1
  <2> QED BY <1>9, <2>1
<1>11. /\ r[0] = a
       /\ r[a + 1] = 0
       /\ r[a + e + 2] = 0
       /\ r[b + 2 * x] = 0
       /\ r[b + 2 * x + 1] = 0
  <2>1. /\ 0 \in Nat /\ 0 <= b + 2 * x + 1 /\ 0 # at1
        /\ a + 1 \in Nat /\ a + 1 <= b + 2 * x + 1 /\ a + 1 # at1
        /\ a + e + 2 \in Nat /\ a + e + 2 <= b + 2 * x + 1 /\ a + e + 2 # at1
        /\ b + 2 * x \in Nat /\ b + 2 * x <= b + 2 * x + 1 /\ b + 2 * x # at1
        /\ b + 2 * x + 1 \in Nat /\ b + 2 * x + 1 <= b + 2 * x + 1 /\ b + 2 * x + 1 # at1
    BY <1>1, <1>8
  <2> HIDE DEF b, at1
  <2> QED BY <1>6, <1>10, <2>1
<1>12. ASSUME NEW k \in 1 .. a PROVE r[k] = argv[k]
  <2>1. k \in Nat /\ k <= b + 2 * x + 1 /\ k # at1
    BY <1>1
  <2> QED BY <1>6, <1>10, <2>1
<1>13. ASSUME NEW k \in 1 .. e PROVE r[a + 1 + k] = input.envp[k]
  <2>1. k \in Nat /\ 1 <= k /\ k <= e
    BY <1>1
  <2>2. a + 1 + k \in Nat /\ a + 1 + k <= b + 2 * x + 1 /\ a + 1 + k # at1
    BY <1>1, <2>1
  <2> HIDE DEF b, at1
  <2> QED BY <1>6, <1>10, <2>2
<1>14. ASSUME NEW k \in 1 .. x PROVE r[b + 2 * k - 2] = s[k][1] /\ r[b + 2 * k - 1] = s[k][2]
  <2>1. k \in Nat /\ 1 <= k /\ k <= x
    BY <1>1
  <2>2. b + 2 * k - 2 \in Nat /\ b + 2 * k - 2 <= b + 2 * x + 1 /\ b + 2 * k - 2 # at1
    BY <1>1, <2>1
  <2>3. b + 2 * k - 1 \in Nat /\ b + 2 * k - 1 <= b + 2 * x + 1
    BY <1>1, <2>1
  <2>4. r[b + 2 * k - 2] = s[k][1]
    <3> HIDE DEF b, at1
    <3>1. r[b + 2 * k - 2] = q[k][1]
      BY <1>6, <1>10, <2>2
    <3>2. q[k][1] = input.aux[k][1] /\ s[k][1] = input.aux[k][1]
      BY <1>3, <1>4
    <3> QED BY <3>1, <3>2
  <2>5. CASE k = j + 1
    <3>1. b + 2 * k - 1 = at1
      BY <1>1, <2>5
    <3>2. s[k][2] = v
      <4>1. k <= j + 1
        BY <1>1, <2>5
      <4>2. s[k][2] = Patched(input.aux[k][1], input.aux[k][2])
        BY <1>4, <4>1
      <4> QED BY <2>5, <4>2, Zenon DEF v
    <3> HIDE DEF b, at1
    <3> QED BY <1>9, <2>4, <3>1, <3>2
  <2>6. CASE k # j + 1
    <3>1. b + 2 * k - 1 # at1 /\ (k <= j <=> k <= j + 1)
      BY <1>1, <2>1, <2>6
    <3> HIDE DEF b, at1
    <3>2. r[b + 2 * k - 1] = q[k][2]
      BY <1>6, <1>10, <2>3, <3>1
    <3>3. /\ q[k][2] = IF k <= j THEN Patched(input.aux[k][1], input.aux[k][2])
                       ELSE input.aux[k][2]
          /\ s[k][2] = IF k <= j + 1 THEN Patched(input.aux[k][1], input.aux[k][2])
                       ELSE input.aux[k][2]
      BY <1>3, <1>4
    <3> QED BY <2>4, <3>1, <3>2, <3>3
  <2> QED BY <2>5, <2>6
<1>15. QED
  BY <1>4, <1>9, <1>11, <1>12, <1>13, <1>14 DEF Layout, a, e, x, s

LEMMA PatchAuxvStep ==
  ASSUME BootInv, PatchAuxv
  PROVE  BootInv'
<1> DEFINE x == Len(input.aux)
           b == Base(ProgramArgv, input.envp)
<1>1. /\ pc = "patch" /\ input' = input /\ argv_index' = argv_index /\ argv0' = argv0
      /\ exec_path' = exec_path /\ auxv' = auxv /\ pc' \in {"patch", "link"}
  BY DEF PatchAuxv
<1>2. /\ input \in Input /\ Direct
      /\ mem \in [0 .. KernelTotal - 1 -> Nat]
      /\ auxv = b
      /\ exec_path = input.argv[ProgramAt + 1] /\ exec_path \in Nat
      /\ ProgramArgv \in Seq(Nat) /\ Len(ProgramArgv) \in Nat
      /\ Len(input.envp) \in Nat /\ x \in Nat
      /\ input.aux \in Seq((Nat \ {0}) \X Nat)
      /\ KernelTotal \in Nat /\ b \in Nat
      /\ b + 2 * x + 2 <= KernelTotal
  BY <1>1, RewrittenFacts
<1>3. PICK j \in 0 .. x : index = b + 2 * j /\ Layout(mem, ProgramArgv, input.envp, PartAux(j))
  BY <1>1, <1>2 DEF BootInv, RewrittenInv
<1>4. /\ Len(PartAux(j)) = x
      /\ \A k \in 1 .. x :
              /\ PartAux(j)[k][1] = input.aux[k][1]
              /\ PartAux(j)[k][2] = IF k <= j THEN Patched(input.aux[k][1], input.aux[k][2])
                                    ELSE input.aux[k][2]
  BY <1>2, <1>3, PartFacts
<1>5. /\ \A k \in 1 .. x : /\ mem[b + 2 * k - 2] = PartAux(j)[k][1]
                           /\ mem[b + 2 * k - 1] = PartAux(j)[k][2]
      /\ mem[b + 2 * x] = 0
  BY <1>3, <1>4 DEF Layout, Base
<1>6. \A k \in 1 .. x : input.aux[k][1] # 0
  <2>1. \A k \in 1 .. x : input.aux[k] \in (Nat \ {0}) \X Nat
    BY <1>2
  <2> QED BY <2>1
<1> HIDE DEF x, b
<1>7. j \in Nat /\ j <= x
  BY <1>2
<1>8. ASSUME j # x
      PROVE  /\ j \in 0 .. x - 1 /\ j + 1 \in 1 .. x
             /\ mem[index] = input.aux[j + 1][1] /\ mem[index] # 0
             /\ mem[index + 1] = input.aux[j + 1][2]
  <2>1. j \in 0 .. x - 1 /\ j + 1 \in 1 .. x /\ b + 2 * (j + 1) - 2 = index
        /\ b + 2 * (j + 1) - 1 = index + 1 /\ ~(j + 1 <= j)
    <3>1. x \in Nat /\ b \in Nat /\ index = b + 2 * j
      BY <1>2, <1>3
    <3> QED BY <1>7, <1>8, <3>1
  <2>2. mem[b + 2 * (j + 1) - 2] = PartAux(j)[j + 1][1]
        /\ mem[b + 2 * (j + 1) - 1] = PartAux(j)[j + 1][2]
    BY <1>5, <2>1
  <2>3. PartAux(j)[j + 1][1] = input.aux[j + 1][1] /\ PartAux(j)[j + 1][2] = input.aux[j + 1][2]
    BY <1>4, <2>1
  <2> QED BY <1>6, <2>1, <2>2, <2>3
<1>9. UntouchedInv'
  BY <1>1, <1>2 DEF UntouchedInv
<1>10. ASSUME mem' \in [0 .. KernelTotal - 1 -> Nat] PROVE ProgramInv'
  <2>1. /\ OptionsOf({"program"}) = {argv_index}
        /\ \A k \in OptionsOf({"argv0"}) : k < argv_index /\ k + 2 <= Len(input.argv)
        /\ NameSo(argv_index, argv0)
    BY <1>1 DEF BootInv, ProgramInv
  <2>2. NameSo(argv_index, argv0)'
    BY <1>1, <2>1, Frame DEF NameSo
  <2> QED BY <1>1, <1>2, <1>10, <2>1, <2>2, Frame DEF ProgramInv
<1>11. auxv' = Base(ProgramArgv, input.envp)' /\ exec_path' = input'.argv[ProgramAt' + 1]
       /\ Len(input.aux)' = x
  BY <1>1, <1>2, Frame DEF b, x
<1>12. CASE mem[index] = AT_NULL
  <2>1. pc' = "link" /\ mem' = mem
    BY <1>12 DEF PatchAuxv
  <2>2. j = x
    BY <1>8, <1>12 DEF AT_NULL
  <2>3. Layout(mem, ProgramArgv, input.envp, PartAux(x))'
    <3>1. PartAux(x)' = PartAux(x)
      BY <1>1, Frame DEF PartAux, x
    <3> QED BY <1>1, <1>3, <2>1, <2>2, <3>1, Frame DEF Layout
  <2>4. RewrittenInv'
    BY <1>11, <2>1, <2>3 DEF RewrittenInv, x
  <2> QED BY <1>2, <1>9, <1>10, <2>1, <2>4
          DEF BootInv, OptionsInv, InspectInv, CopyInv, StackAsExec, ExitJustified
<1>13. CASE mem[index] # AT_NULL
  <2>1. /\ pc' = "patch" /\ index' = index + 2
        /\ mem' = [mem EXCEPT ![index + 1] = Patched(mem[index], mem[index + 1])]
    BY <1>1, <1>13 DEF PatchAuxv
  <2>2. j # x
    BY <1>3, <1>5, <1>13 DEF AT_NULL
  <2>3. mem' = [mem EXCEPT ![b + 2 * j + 1] = Patched(input.aux[j + 1][1], input.aux[j + 1][2])]
    BY <1>3, <1>8, <2>1, <2>2
  <2>4. mem' \in [0 .. KernelTotal - 1 -> Nat] /\ Layout(mem', ProgramArgv, input.envp, PartAux(j + 1))
    <3>1. j \in 0 .. Len(input.aux) - 1 /\ b + 2 * Len(input.aux) + 2 <= KernelTotal
      BY <1>2, <1>8, <2>2 DEF x
    <3> QED BY <1>2, <1>3, <2>3, <3>1, PatchedLayout DEF b, x
  <2>5. Layout(mem, ProgramArgv, input.envp, PartAux(j + 1))'
    <3>1. PartAux(j + 1)' = PartAux(j + 1)
      BY <1>1, PartFrame
    <3> QED BY <1>1, <2>4, <3>1, Frame DEF Layout
  <2>6. j + 1 \in 0 .. x /\ index' = auxv' + 2 * (j + 1)
    BY <1>1, <1>2, <1>3, <1>7, <1>8, <2>1, <2>2
  <2>7. \E i \in 0 .. Len(input.aux)' : /\ index' = auxv' + 2 * i
                                        /\ Layout(mem, ProgramArgv, input.envp, PartAux(i))'
    BY <1>11, <2>5, <2>6
  <2>8. RewrittenInv'
    BY <1>11, <2>1, <2>7 DEF RewrittenInv
  <2> QED BY <1>9, <1>10, <2>1, <2>4, <2>8
          DEF BootInv, OptionsInv, InspectInv, CopyInv, StackAsExec, ExitJustified
<1>14. QED
  BY <1>12, <1>13

LEMMA ExpectedFrame ==
  ASSUME input' = input
  PROVE  ExpectedWords' = ExpectedWords /\ Passed(AT_ENTRY)' = Passed(AT_ENTRY)
<1>1. ExpectedWords' = ExpectedWords
  BY Frame DEF ExpectedWords, Words
<1>2. Passed(AT_ENTRY)' = Passed(AT_ENTRY)
  BY DEF Passed, AT_ENTRY
<1>3. QED
  BY <1>1, <1>2

(* A layout is what a program that is entered finds.                       *)
LEMMA ExpectedFound ==
  ASSUME NEW argv \in Seq(Nat), input.envp \in Seq(Nat \ {0}), NEW aux \in Seq((Nat \ {0}) \X Nat),
         Len(aux) = Len(input.aux), NEW m, Layout(m, argv, input.envp, aux),
         ExpectedWords = Words(Len(argv), argv, input.envp, aux)
  PROVE  /\ \A k \in 1 .. Len(ExpectedWords) : m[k - 1] = ExpectedWords[k]
         /\ Base(argv, input.envp) = Len(ExpectedWords) - 2 * Len(input.aux) - 2
<1>1. input.envp \in Seq(Nat)
  OBVIOUS
<1>2. aux \in Seq(Nat \X Nat)
  <2>1. \A p \in (Nat \ {0}) \X Nat : p \in Nat \X Nat
    OBVIOUS
  <2>2. \A k \in 1 .. Len(aux) : aux[k] \in Nat \X Nat
    BY <2>1
  <2> QED BY <2>2
<1>3. \A k \in 1 .. Len(ExpectedWords) : m[k - 1] = ExpectedWords[k]
  BY <1>1, <1>2, LayoutMeans
<1>4. Spelled(ExpectedWords, argv, input.envp, aux)
  BY <1>1, <1>2, WordsFacts
<1> DEFINE a == Len(argv)
           e == Len(input.envp)
           x == Len(input.aux)
<1>5. Len(ExpectedWords) = a + e + 3 + 2 * x + 2 /\ Base(argv, input.envp) = a + e + 3
  BY <1>4 DEF Spelled, Base
<1>6. a \in Nat /\ e \in Nat /\ x \in Nat
  <2>1. Len(aux) \in Nat
    OBVIOUS
  <2> QED BY <2>1
<1> HIDE DEF a, e, x
<1>7. Base(argv, input.envp) = Len(ExpectedWords) - 2 * x - 2
  BY <1>5, <1>6
<1>8. QED
  BY <1>3, <1>7 DEF x

LEMMA LinkExecStep ==
  ASSUME BootInv, LinkExec
  PROVE  BootInv'
<1>1. CASE Exit(FATAL)
  BY <1>1, ExitStep
<1>2. CASE /\ pc' = "entered" /\ entry' = ExecEntry
           /\ UNCHANGED <<input, mem, index, argv_index, argv0, count, exec_path, auxv, status>>
  <2>1. pc = "link" /\ input' = input /\ mem' = mem /\ auxv' = auxv
    BY <1>2 DEF LinkExec
  <2>2. /\ input \in Input /\ Direct
        /\ auxv = Base(ProgramArgv, input.envp)
        /\ exec_path = input.argv[ProgramAt + 1] /\ exec_path \in Nat
        /\ ProgramArgv \in Seq(Nat) /\ Len(input.aux) \in Nat
        /\ input.aux \in Seq((Nat \ {0}) \X Nat)
    BY <2>1, RewrittenFacts
  <2>3. Layout(mem, ProgramArgv, input.envp, PartAux(Len(input.aux)))
    BY <2>1 DEF BootInv, RewrittenInv
  <2>4. PartAux(Len(input.aux)) = ProgramAux
    BY <2>2, PartLast
  <2>5. ProgramAux \in Seq((Nat \ {0}) \X Nat) /\ Len(ProgramAux) = Len(input.aux)
    <3>1. Len(input.aux) \in 0 .. Len(input.aux)
      BY <2>2
    <3> QED BY <2>2, <2>4, <3>1, PartFacts
  <2>6. ExpectedWords = Words(Len(ProgramArgv), ProgramArgv, input.envp, ProgramAux)
    BY <2>2, Zenon DEF ExpectedWords
  <2>7. /\ \A k \in 1 .. Len(ExpectedWords) : mem[k - 1] = ExpectedWords[k]
        /\ auxv = Len(ExpectedWords) - 2 * Len(input.aux) - 2
    <3>1. input.envp \in Seq(Nat \ {0}) /\ Layout(mem, ProgramArgv, input.envp, ProgramAux)
      BY <2>2, <2>3, <2>4, InputTypes
    <3>2. /\ \A k \in 1 .. Len(ExpectedWords) : mem[k - 1] = ExpectedWords[k]
          /\ Base(ProgramArgv, input.envp) = Len(ExpectedWords) - 2 * Len(input.aux) - 2
      BY <2>2, <2>5, <2>6, <3>1, ExpectedFound
    <3> QED BY <2>2, <3>2
  <2>8. StackAsExec'
    BY <1>2, <2>1, <2>2, <2>7, Frame, ExpectedFrame DEF StackAsExec
  <2>9. UntouchedInv'
    BY <1>2, <2>1, <2>2 DEF UntouchedInv
  <2> QED BY <1>2, <2>8, <2>9
          DEF BootInv, OptionsInv, InspectInv, ProgramInv, CopyInv, RewrittenInv, ExitJustified
<1>3. QED
  BY <1>1, <1>2 DEF LinkExec

LEMMA LinkMainStep ==
  ASSUME BootInv, LinkMain
  PROVE  BootInv'
<1>1. CASE Exit(FATAL)
  BY <1>1, ExitStep
<1>2. CASE /\ pc' = "entered" /\ entry' = AuxValue(AT_ENTRY)
           /\ UNCHANGED <<input, mem, index, argv_index, argv0, count, exec_path, auxv, status>>
  <2>1. pc = "stage1" /\ input' = input /\ mem' = mem /\ auxv' = auxv
    BY <1>2 DEF LinkMain
  <2>2. input \in Input /\ mem = KernelMem /\ ~Direct /\ auxv = Base(input.argv, input.envp)
    BY <2>1 DEF BootInv, UntouchedInv
  <2>3. ExpectedWords = Words(Len(input.argv), input.argv, input.envp, input.aux)
    BY <2>2, Zenon DEF ExpectedWords
  <2>4. Layout(mem, input.argv, input.envp, input.aux)
    BY <2>2, KernelLayout
  <2>5. /\ \A k \in 1 .. Len(ExpectedWords) : mem[k - 1] = ExpectedWords[k]
        /\ auxv = Len(ExpectedWords) - 2 * Len(input.aux) - 2
    <3>1. /\ input.envp \in Seq(Nat \ {0}) /\ input.argv \in Seq(Nat)
          /\ input.aux \in Seq((Nat \ {0}) \X Nat)
      BY <2>2, InputTypes
    <3>2. /\ \A k \in 1 .. Len(ExpectedWords) : mem[k - 1] = ExpectedWords[k]
          /\ Base(input.argv, input.envp) = Len(ExpectedWords) - 2 * Len(input.aux) - 2
      BY <2>3, <2>4, <3>1, ExpectedFound
    <3> QED BY <2>2, <3>2
  <2>6. entry' = Passed(AT_ENTRY)
    BY <1>2, <2>2, KernelRead
  <2>7. StackAsExec'
    <3>1. /\ ExpectedWords' = ExpectedWords /\ Passed(AT_ENTRY)' = Passed(AT_ENTRY)
          /\ Direct' = Direct
      BY <2>1, Frame, ExpectedFrame
    <3>2. \A k \in 1 .. Len(ExpectedWords') : mem'[k - 1] = ExpectedWords'[k]
      BY <2>1, <2>5, <3>1
    <3>3. auxv' = Len(ExpectedWords') - 2 * Len(input'.aux) - 2
      BY <2>1, <2>5, <3>1
    <3>4. entry' = IF Direct' THEN ExecEntry ELSE Passed(AT_ENTRY)'
      BY <2>2, <2>6, <3>1
    <3> QED BY <3>2, <3>3, <3>4 DEF StackAsExec
  <2>8. UntouchedInv'
    BY <1>2, <2>1, <2>2 DEF UntouchedInv
  <2> QED BY <1>2, <2>7, <2>8
          DEF BootInv, OptionsInv, InspectInv, ProgramInv, CopyInv, RewrittenInv, ExitJustified
<1>3. QED
  BY <1>1, <1>2 DEF LinkMain

(* --list and --verify have given their answer.                            *)
LEMMA ExitInspectedStep ==
  ASSUME BootInv, ExitInspected
  PROVE  BootInv'
<1>1. Exit(verdict) /\ OptionsOf({"program"}) = {} /\ OptionsOf({"list", "verify"}) # {}
  BY DEF BootInv, InspectInv, ExitInspected
<1>2. OptionsOf({"unknown", "list", "verify"}) # {} /\ OptionsOf({"query", "list", "verify"}) # {}
  <2>1. PICK k : k \in OptionsOf({"list", "verify"})
    BY <1>1
  <2>2. k \in OptionsOf({"unknown", "list", "verify"}) /\ k \in OptionsOf({"query", "list", "verify"})
    BY <2>1 DEF OptionsOf
  <2> QED BY <2>2
<1>3. QED
  BY <1>1, <1>2, ExitStep

-----------------------------------------------------------------------------
(* The theorems.                                                           *)

LEMMA BootInit == RtldInit => BootInv
<1> SUFFICES ASSUME RtldInit PROVE BootInv
  OBVIOUS
<1>1. PICK s \in Start : Init(s[1])
  BY DEF RtldInit
<1>2. s[1] \in Input
  BY RtldAssumption
<1>3. input \in Input /\ mem = KernelMem /\ pc = "start" /\ argv0 = 0
  BY <1>1, <1>2 DEF Init, KernelMem
<1>4. QED
  BY <1>3 DEF BootInv, UntouchedInv, OptionsInv, InspectInv, ProgramInv, CopyInv, RewrittenInv,
              StackAsExec, ExitJustified

LEMMA BootStutter ==
  ASSUME BootInv, UNCHANGED vars
  PROVE  BootInv'
<1>1. /\ input' = input /\ mem' = mem /\ pc' = pc /\ index' = index /\ argv_index' = argv_index
      /\ argv0' = argv0 /\ count' = count /\ exec_path' = exec_path /\ auxv' = auxv
      /\ status' = status /\ entry' = entry
  BY DEF vars
<1>2. UntouchedInv' /\ InspectInv'
  BY <1>1, Frame DEF BootInv, UntouchedInv, InspectInv
<1>3. OptionsInv'
  BY <1>1, Frame DEF BootInv, OptionsInv, Visited, Over, ArgKindAt, NameSo
<1>4. ProgramInv'
  BY <1>1, Frame DEF BootInv, ProgramInv, NameSo
<1>5. CopyInv'
  BY <1>1, Frame DEF BootInv, CopyInv
<1>6. RewrittenInv'
  <2>1. \A j : PartAux(j)' = PartAux(j)
    BY <1>1, PartFrame
  <2>2. PartAux(Len(input.aux))' = PartAux(Len(input.aux))
    BY <1>1, Frame DEF PartAux
  <2>3. \A j : Layout(mem, ProgramArgv, input.envp, PartAux(j))
                 => Layout(mem, ProgramArgv, input.envp, PartAux(j))'
    BY <1>1, <2>1, Frame DEF Layout
  <2>4. Layout(mem, ProgramArgv, input.envp, PartAux(Len(input.aux)))
                 => Layout(mem, ProgramArgv, input.envp, PartAux(Len(input.aux)))'
    BY <1>1, <2>2, Frame DEF Layout
  <2> QED BY <1>1, <2>3, <2>4, Frame DEF BootInv, RewrittenInv
<1>7. StackAsExec'
  BY <1>1, Frame, ExpectedFrame DEF BootInv, StackAsExec
<1>8. ExitJustified'
  BY <1>1, Frame DEF BootInv, ExitJustified
<1>9. QED
  BY <1>2, <1>3, <1>4, <1>5, <1>6, <1>7, <1>8 DEF BootInv

LEMMA BootNext ==
  ASSUME BootInv, [RtldNext]_allvars
  PROVE  BootInv'
<1>1. CASE Refuse
  BY <1>1, ExitStep DEF Refuse
<1>2. CASE Enter
  BY <1>2, EnterStep
<1>3. CASE Run
  BY <1>3, ParseOptionStep, PrintHelpStep, CopyWordStep, FinishRewriteStep, LoadExecStep,
     PatchAuxvStep, LinkExecStep, LinkMainStep DEF Run
<1>4. CASE ExitInspected
  BY <1>4, ExitInspectedStep
<1>5. CASE UNCHANGED vars
  BY <1>5, BootStutter
<1>6. QED
  BY <1>1, <1>2, <1>3, <1>4, <1>5 DEF RtldNext, allvars

(* rtld_bootstrap keeps the invariant: at every step the command line has  *)
(* been read the way the reference reads it, the copy has lost no word it  *)
(* has still to move, and the vector is patched up to where it has come.   *)
THEOREM BootSafe == RtldSpec => []BootInv
<1>1. BootInv /\ [RtldNext]_allvars => BootInv'
  BY BootNext
<1>2. QED
  BY <1>1, BootInit, PTL DEF RtldSpec

(* Whatever the command line, the environment and the auxiliary vector, a  *)
(* program that is entered finds the stack it would find without the       *)
(* interpreter's own arguments: rewrite_initial_stack_for_program moves    *)
(* the words over themselves without losing one, and patch_exec_auxv ends  *)
(* where the vector ends.                                                  *)
THEOREM RtldStack == RtldSpec => []StackAsExec
<1>1. BootInv => StackAsExec
  BY DEF BootInv
<1>2. QED
  BY <1>1, BootSafe, PTL

(* Whatever the command line, rtld ends without a program only for a       *)
(* reason on it: handle_direct_invocation never takes the value of an      *)
(* option, or an argument of the program, for an option.                   *)
THEOREM RtldExits == RtldSpec => []ExitJustified
<1>1. BootInv => ExitJustified
  BY DEF BootInv
<1>2. QED
  BY <1>1, BootSafe, PTL
-----------------------------------------------------------------------------
(* The interpreter's relocation of itself.                                 *)

(* reloc_addr in front of entry i of the packed table.                     *)
Before(relr, i) ==
  IF Self!Addresses(relr, i) = {} THEN -1 ELSE Self!BeginsAt(relr, i)

LastAddress(relr, i) ==
  CHOOSE j \in Self!Addresses(relr, i) : \A k \in Self!Addresses(relr, i) : k <= j

LEMMA AddressFound ==
  ASSUME NEW relr \in Seq(Nat), NEW i \in 1 .. Len(relr) + 1, Self!Addresses(relr, i) # {}
  PROVE  /\ LastAddress(relr, i) \in Self!Addresses(relr, i)
         /\ \A k \in Self!Addresses(relr, i) : k <= LastAddress(relr, i)
         /\ LastAddress(relr, i) \in 1 .. Len(relr) /\ LastAddress(relr, i) < i
<1>1. Self!Addresses(relr, i) \in SUBSET (1 .. i) /\ i \in Nat
  BY DEF Self!Addresses
<1>2. \E j \in Self!Addresses(relr, i) : \A k \in Self!Addresses(relr, i) : k <= j
  BY <1>1, GreatestNat
<1>3. /\ LastAddress(relr, i) \in Self!Addresses(relr, i)
      /\ \A k \in Self!Addresses(relr, i) : k <= LastAddress(relr, i)
  BY <1>2 DEF LastAddress
<1>4. \A k \in Self!Addresses(relr, i) : k \in 1 .. Len(relr) /\ k < i
  BY DEF Self!Addresses
<1>5. QED
  BY <1>3, <1>4

LEMMA Distribute ==
  ASSUME NEW a \in Nat, NEW b \in Nat
  PROVE  a * b \in Nat /\ (a + 1) * b = a * b + b /\ 0 * b = 0
  OBVIOUS

LEMMA Width ==
  W \in Nat /\ W - 1 \in Nat
  BY RtldAssumption

LEMMA Quotient ==
  ASSUME NEW v \in Nat
  PROVE  v \div Size \in Nat
  BY RtldAssumption

LEMMA BeforeIs ==
  ASSUME NEW relr \in Seq(Nat), NEW i \in 1 .. Len(relr) + 1
  PROVE  /\ Self!Addresses(relr, i) # {} =>
              /\ Before(relr, i) = relr[LastAddress(relr, i)] \div Size + 1
                                     + (i - LastAddress(relr, i) - 1) * (W - 1)
              /\ Before(relr, i) \in Nat
         /\ Self!Addresses(relr, i) = {} => Before(relr, i) = -1
<1>1. CASE Self!Addresses(relr, i) # {}
  <2> DEFINE l == LastAddress(relr, i)
  <2>1. Before(relr, i) = relr[l] \div Size + 1 + (i - l - 1) * (W - 1)
    BY <1>1 DEF Before, Self!BeginsAt, LastAddress
  <2>2. l \in 1 .. Len(relr) /\ l < i
    BY <1>1, AddressFound
  <2> HIDE DEF l
  <2>3. relr[l] \in Nat /\ W - 1 \in Nat /\ i - l - 1 \in Nat
    <3>1. relr[l] \in Nat
      BY <2>2
    <3>2. i - l - 1 \in Nat
      BY <2>2
    <3> QED BY <3>1, <3>2, Width
  <2>4. relr[l] \div Size \in Nat /\ (i - l - 1) * (W - 1) \in Nat
    BY <2>3, Quotient, Distribute
  <2>5. Before(relr, i) \in Nat
    BY <2>1, <2>4
  <2> QED BY <1>1, <2>1, <2>5 DEF l
<1>2. CASE Self!Addresses(relr, i) = {}
  BY <1>2 DEF Before
<1>3. QED
  BY <1>1, <1>2

LEMMA BehindAddress ==
  ASSUME NEW relr \in Seq(Nat), NEW i \in 1 .. Len(relr), ~Self!Odd(relr[i])
  PROVE  Before(relr, i + 1) = relr[i] \div Size + 1
<1> DEFINE l == LastAddress(relr, i + 1)
<1>1. i \in Self!Addresses(relr, i + 1) /\ i + 1 \in 1 .. Len(relr) + 1
  BY DEF Self!Addresses
<1>2. l = i
  <2>1. l \in 1 .. Len(relr) /\ l < i + 1 /\ i <= l
    BY <1>1, AddressFound
  <2> HIDE DEF l
  <2> QED BY <2>1
<1>3. Before(relr, i + 1) = relr[l] \div Size + 1 + ((i + 1) - l - 1) * (W - 1)
  <2> DEFINE n == i + 1
  <2>1. n \in 1 .. Len(relr) + 1 /\ Self!Addresses(relr, n) # {}
    BY <1>1
  <2> HIDE DEF n
  <2>2. Before(relr, n) = relr[LastAddress(relr, n)] \div Size + 1
                            + (n - LastAddress(relr, n) - 1) * (W - 1)
    BY <2>1, BeforeIs
  <2> QED BY <2>2 DEF n
<1> HIDE DEF l
<1>4. ((i + 1) - l - 1) * (W - 1) = 0
  <2>1. (i + 1) - l - 1 = 0 /\ W - 1 \in Nat
    BY <1>2, Width
  <2> QED BY <2>1, Distribute
<1>5. relr[i] \div Size \in Nat
  <2>1. relr[i] \in Nat
    OBVIOUS
  <2> QED BY <2>1, Quotient
<1>6. QED
  BY <1>2, <1>3, <1>4, <1>5

LEMMA BehindBitmap ==
  ASSUME NEW relr \in Seq(Nat), NEW i \in 1 .. Len(relr), Self!Odd(relr[i]),
         Before(relr, i) # -1
  PROVE  Before(relr, i + 1) = Before(relr, i) + (W - 1)
<1> DEFINE l == LastAddress(relr, i)
<1>1. Self!Addresses(relr, i + 1) = Self!Addresses(relr, i)
  BY DEF Self!Addresses
<1>2. Self!Addresses(relr, i) # {} /\ i + 1 \in 1 .. Len(relr) + 1 /\ i \in 1 .. Len(relr) + 1
  BY BeforeIs
<1>3. LastAddress(relr, i + 1) = l
  BY <1>1 DEF LastAddress
<1>4. /\ Before(relr, i) = relr[l] \div Size + 1 + (i - l - 1) * (W - 1)
      /\ Before(relr, i + 1) = relr[l] \div Size + 1 + ((i + 1) - l - 1) * (W - 1)
  <2>1. Before(relr, i) = relr[l] \div Size + 1 + (i - l - 1) * (W - 1)
    BY <1>2, BeforeIs
  <2>2. Before(relr, i + 1) = relr[LastAddress(relr, i + 1)] \div Size + 1
                                + ((i + 1) - LastAddress(relr, i + 1) - 1) * (W - 1)
    <3> DEFINE n == i + 1
    <3>1. n \in 1 .. Len(relr) + 1 /\ Self!Addresses(relr, n) # {}
      BY <1>1, <1>2
    <3> HIDE DEF n
    <3>2. Before(relr, n) = relr[LastAddress(relr, n)] \div Size + 1
                              + (n - LastAddress(relr, n) - 1) * (W - 1)
      BY <3>1, BeforeIs
    <3> QED BY <3>2 DEF n
  <2> QED BY <2>1, <2>2, <1>3
<1>5. l \in 1 .. Len(relr) /\ l < i
  BY <1>2, AddressFound
<1> HIDE DEF l
<1>6. relr[l] \in Nat /\ i - l - 1 \in Nat /\ W - 1 \in Nat
  <2>1. relr[l] \in Nat
    BY <1>5
  <2>2. i - l - 1 \in Nat
    BY <1>5
  <2> QED BY <2>1, <2>2, Width
<1>7. relr[l] \div Size \in Nat
  BY <1>6, Quotient
<1>8. ((i + 1) - l - 1) * (W - 1) = (i - l - 1) * (W - 1) + (W - 1) /\ (i - l - 1) * (W - 1) \in Nat
  <2>1. (i + 1) - l - 1 = (i - l - 1) + 1
    BY <1>5
  <2> QED BY <2>1, <1>6, Distribute
<1> DEFINE p == (i - l - 1) * (W - 1)
           q == relr[l] \div Size
<1>9. /\ Before(relr, i) = q + 1 + p /\ Before(relr, i + 1) = q + 1 + (p + (W - 1))
      /\ p \in Nat /\ q \in Nat
  BY <1>4, <1>7, <1>8
<1> HIDE DEF p, q
<1>10. QED
  BY <1>9, <1>6

(* What RELA entries before n have made of a word.                         *)
Shift == RtldBias % 2^W

Relative(k, w) == image.rela[k].type = "RELATIVE" /\ image.rela[k].word = w

Valued(w, n) ==
  /\ \A k \in 1 .. n - 1 :
       Relative(k, w) => word[w] = Self!Wrap(Shift + image.rela[k].addend)
  /\ (\A k \in 1 .. n - 1 : ~Relative(k, w)) => word[w] = Self!Linked(w)

(* Entry k of the packed table, before n, stands for the word.             *)
Moved(w, n) == \E k \in 1 .. n - 1 : w \in Self!StandsFor(image.relr, k)

RelaPart ==
  phase = "rela" =>
    /\ ~Self!Unparsable(image.dynamic)
    /\ at \in 1 .. Len(image.rela) + 1
    /\ addr = -1
    /\ \A k \in 1 .. at - 1 : image.rela[k].type \in {"NONE", "RELATIVE"}
    /\ image.fit => \A w \in 0 .. ImageWords - 1 : Valued(w, at)

RelrPart ==
  phase = "relr" =>
    /\ ~Self!Unparsable(image.dynamic) /\ ~Self!Unpackable(image.dynamic)
    /\ \A k \in 1 .. Len(image.rela) : image.rela[k].type \in {"NONE", "RELATIVE"}
    /\ at \in 1 .. Len(image.relr) + 1
    /\ addr = Before(image.relr, at)
    /\ at # 1 => ~Self!Odd(image.relr[1])
    /\ image.fit =>
         \A w \in 0 .. ImageWords - 1 :
           /\ Moved(w, at) => word[w] = Self!Wrap(Shift + Self!Linked(w))
           /\ ~Moved(w, at) => Valued(w, Len(image.rela) + 1)

(* The inductive invariant of the interpreter's relocation of itself: the  *)
(* tables up to the loop index have been applied, and reloc_addr is where  *)
(* the table read as a whole puts it.                                      *)
SelfInv ==
  /\ Self!AsLinked(image)
  /\ DOMAIN word = 0 .. ImageWords - 1
  /\ phase \in {"parse", "rela", "relr", "done", "refused"}
  /\ phase = "parse" =>
       at = 1 /\ addr = -1 /\ \A w \in 0 .. ImageWords - 1 : word[w] = Self!Linked(w)
  /\ RelaPart
  /\ RelrPart
  /\ phase = "done" => image.fit /\ Self!Relocated
  /\ phase = "refused" => ~image.fit
  /\ pc \notin {"start", "exit"} => phase = "done"

LEMMA SelfInit == RtldInit => SelfInv
<1> SUFFICES ASSUME RtldInit PROVE SelfInv
  OBVIOUS
<1>1. PICK s \in Start : Init(s[1]) /\ Self!Init(s[2])
  BY DEF RtldInit
<1>2. Self!AsLinked(s[2])
  BY ImageAssumption
<1>3. /\ image = s[2] /\ word = [w \in 0 .. ImageWords - 1 |-> Self!Linked(w)]
      /\ addr = -1 /\ at = 1 /\ phase = "parse" /\ pc = "start"
  BY <1>1 DEF Init, Self!Init
<1>4. QED
  BY <1>2, <1>3 DEF SelfInv, RelaPart, RelrPart

(* DynamicInfo::parse reads what the section says.                         *)
LEMMA Scanned ==
  ASSUME NEW dyn \in Seq(STRING \X Nat), Self!Terminated(dyn)
  PROVE  \A i : i \in Self!Entries(dyn) <=>
                  i \in 1 .. Len(dyn) /\ \A j \in 1 .. i : dyn[j][1] # "NULL"
<1> DEFINE null == {k \in 1 .. Len(dyn) : dyn[k][1] = "NULL"}
           m == Self!Min(null)
<1>1. null # {} /\ Len(dyn) \in Nat
  BY DEF Self!Terminated
<1>2. \E k \in null : \A j \in null : k <= j
  <2> DEFINE mirror == {(Len(dyn) + 1) - k : k \in null}
  <2>1. mirror \in SUBSET (1 .. Len(dyn)) /\ mirror # {}
    BY <1>1
  <2>2. PICK g \in mirror : \A h \in mirror : h <= g
    <3> HIDE DEF mirror
    <3> QED BY <1>1, <2>1, GreatestNat
  <2>3. PICK k \in null : g = (Len(dyn) + 1) - k
    BY <2>2
  <2>4. ASSUME NEW j \in null PROVE k <= j
    <3>1. (Len(dyn) + 1) - j \in mirror
      OBVIOUS
    <3>2. (Len(dyn) + 1) - j <= g
      BY <2>2, <3>1
    <3>3. j \in Nat /\ k \in Nat
      BY <2>3, <2>4
    <3> HIDE DEF mirror, null
    <3> QED BY <1>1, <2>3, <3>2, <3>3
  <2> QED BY <2>3, <2>4
<1>3. m \in null /\ \A j \in null : m <= j
  <2> HIDE DEF null
  <2> QED BY <1>2 DEF Self!Min
<1>4. Self!Entries(dyn) = 1 .. m - 1
  BY DEF Self!Entries
<1> HIDE DEF m
<1>5. m \in 1 .. Len(dyn) /\ dyn[m][1] = "NULL"
  BY <1>3
<1>6. ASSUME NEW i \in 1 .. m - 1
      PROVE  i \in 1 .. Len(dyn) /\ \A j \in 1 .. i : dyn[j][1] # "NULL"
  <2>1. i \in 1 .. Len(dyn)
    BY <1>1, <1>5, <1>6
  <2>2. ASSUME NEW j \in 1 .. i, dyn[j][1] = "NULL" PROVE FALSE
    <3>1. j \in null
      BY <1>1, <2>1, <2>2
    <3>2. m <= j
      BY <1>3, <3>1
    <3> QED BY <1>5, <1>6, <2>2, <3>2
  <2> QED BY <2>1, <2>2
<1>7. ASSUME NEW i \in 1 .. Len(dyn), \A j \in 1 .. i : dyn[j][1] # "NULL"
      PROVE  i \in 1 .. m - 1
  <2>1. ~(m <= i)
    BY <1>5, <1>7
  <2> QED BY <1>1, <1>5, <1>7, <2>1
<1>8. QED
  BY <1>4, <1>6, <1>7

LEMMA SectionRead ==
  ASSUME NEW dyn \in Seq(STRING \X Nat), Self!Terminated(dyn), NEW tag
  PROVE  /\ Self!Has(dyn, tag) <=> Self!Given(dyn, tag) # {}
         /\ Self!Value(dyn, tag, 0) = Self!Declared(dyn, tag)
         /\ \A d : Self!EntrySize(dyn, tag, d) = Self!Stride(dyn, tag, d)
<1>1. {i \in Self!Entries(dyn) : dyn[i][1] = tag} = Self!Given(dyn, tag)
  BY Scanned DEF Self!Given
<1>2. Self!Has(dyn, tag) <=> Self!Given(dyn, tag) # {}
  BY <1>1 DEF Self!Has
<1>3. Self!Value(dyn, tag, 0) = Self!Declared(dyn, tag)
  BY <1>1, <1>2 DEF Self!Value, Self!Declared
<1>4. {i \in Self!Entries(dyn) : dyn[i][1] = tag /\ dyn[i][2] # 0}
        = {i \in Self!Given(dyn, tag) : dyn[i][2] # 0}
  BY <1>1
<1>5. ASSUME NEW d PROVE Self!EntrySize(dyn, tag, d) = Self!Stride(dyn, tag, d)
  BY <1>4 DEF Self!EntrySize, Self!Stride
<1>6. QED
  BY <1>2, <1>3, <1>5

LEMMA RefusalsRight ==
  ASSUME NEW dyn \in Seq(STRING \X Nat)
  PROVE  /\ ~Self!Unparsable(dyn) <=> Self!RelaSound(dyn)
         /\ ~Self!Unparsable(dyn) =>
              /\ ~Self!Unpackable(dyn) <=> Self!RelrSound(dyn)
              /\ Self!RelaCount(dyn) = Self!Declared(dyn, "RELASZ") \div RelaSize
              /\ Self!RelrCount(dyn) = Self!Declared(dyn, "RELRSZ")
                                         \div Self!Stride(dyn, "RELRENT", Size)
<1>1. CASE ~Self!Terminated(dyn)
  <2>1. Self!Unparsable(dyn)
    BY <1>1 DEF Self!Unparsable
  <2>2. ~Self!RelaSound(dyn)
    BY <1>1 DEF Self!RelaSound, Self!Terminated
  <2> QED BY <2>1, <2>2
<1>2. CASE Self!Terminated(dyn)
  <2>1. \E i \in 1 .. Len(dyn) : i <= MaxDyn /\ dyn[i][1] = "NULL"
    BY <1>2 DEF Self!Terminated
  <2>2. \A tag : /\ Self!Has(dyn, tag) <=> Self!Given(dyn, tag) # {}
                 /\ Self!Value(dyn, tag, 0) = Self!Declared(dyn, tag)
                 /\ \A d : Self!EntrySize(dyn, tag, d) = Self!Stride(dyn, tag, d)
    BY <1>2, SectionRead
  <2>3. ~Self!Unparsable(dyn) <=> Self!RelaSound(dyn)
    BY <1>2, <2>1, <2>2 DEF Self!Unparsable, Self!RelaSound
  <2>4. ~Self!Unpackable(dyn) <=> Self!RelrSound(dyn)
    <3> DEFINE stride == Self!Stride(dyn, "RELRENT", Size)
    <3>1. stride \in Nat
      <4>1. CASE {i \in Self!Given(dyn, "RELRENT") : dyn[i][2] # 0} = {}
        BY <4>1, RtldAssumption DEF Self!Stride
      <4>2. CASE {i \in Self!Given(dyn, "RELRENT") : dyn[i][2] # 0} # {}
        <5> DEFINE sized == {i \in Self!Given(dyn, "RELRENT") : dyn[i][2] # 0}
        <5>1. sized \in SUBSET (1 .. Len(dyn)) /\ sized # {}
          BY <4>2 DEF Self!Given
        <5>2. stride = dyn[Self!Max(sized)][2]
          BY <4>2 DEF Self!Stride
        <5> HIDE DEF sized, stride
        <5>3. Self!Max(sized) \in 1 .. Len(dyn)
          <6>0. Len(dyn) \in Nat
            OBVIOUS
          <6>1. \E k \in sized : \A j \in sized : j <= k
            BY <5>1, <6>0, GreatestNat
          <6>2. \E k \in sized : \A j \in sized : k >= j
            BY <5>1, <6>1
          <6>3. Self!Max(sized) \in sized
            BY <6>2 DEF Self!Max
          <6> QED BY <5>1, <6>3
        <5>4. dyn[Self!Max(sized)] \in STRING \X Nat
          BY <5>3
        <5> QED BY <5>2, <5>4
      <4> QED BY <4>1, <4>2
    <3>2. Self!EntrySize(dyn, "RELRENT", Size) = stride
      BY <2>2
    <3>3. stride < Size <=> ~(stride >= Size)
      <4> HIDE DEF stride
      <4> QED BY <3>1, RtldAssumption
    <3> HIDE DEF stride
    <3> QED BY <2>2, <3>2, <3>3 DEF Self!Unpackable, Self!RelrSound, stride
  <2>5. /\ Self!RelaCount(dyn) = Self!Declared(dyn, "RELASZ") \div RelaSize
        /\ Self!RelrCount(dyn) = Self!Declared(dyn, "RELRSZ")
                                   \div Self!Stride(dyn, "RELRENT", Size)
    BY <2>2 DEF Self!RelaCount, Self!RelrCount
  <2> QED BY <2>3, <2>4, <2>5
<1>3. QED
  BY <1>1, <1>2

(* An image that every check of the code lets pass.                        *)
Passes(img) ==
  /\ ~Self!Unparsable(img.dynamic)
  /\ \A i \in 1 .. Len(img.rela) : img.rela[i].type \in {"NONE", "RELATIVE"}
  /\ ~Self!Unpackable(img.dynamic)
  /\ img.relr # <<>> => ~Self!Odd(img.relr[1])

(* What linker-made images promise, one fact at a time.                    *)
LEMMA LinkedFacts ==
  ASSUME Self!AsLinked(image)
  PROVE  /\ image.rela \in Seq([type : STRING, word : 0 .. ImageWords - 1, addend : Int])
         /\ image.relr \in Seq(Nat)
         /\ image.fit = Passes(image)
         /\ ~Self!Unparsable(image.dynamic) =>
              Len(image.rela) = Self!RelaCount(image.dynamic)
         /\ ~Self!Unparsable(image.dynamic) /\ ~Self!Unpackable(image.dynamic) =>
              Len(image.relr) = Self!RelrCount(image.dynamic)
<1> DEFINE dyn == image.dynamic
<1>1. /\ dyn \in Seq(STRING \X Nat)
      /\ image.rela \in Seq([type : STRING, word : 0 .. ImageWords - 1, addend : Int])
      /\ image.relr \in Seq(Nat)
      /\ image.fit = Self!Fits(image)
      /\ Self!RelaSound(dyn) => Len(image.rela) = Self!Declared(dyn, "RELASZ") \div RelaSize
      /\ Self!RelaSound(dyn) /\ Self!RelrSound(dyn) =>
           Len(image.relr) = Self!Declared(dyn, "RELRSZ") \div Self!Stride(dyn, "RELRENT", Size)
  BY DEF Self!AsLinked
<1>2. /\ ~Self!Unparsable(dyn) <=> Self!RelaSound(dyn)
      /\ ~Self!Unparsable(dyn) =>
           /\ ~Self!Unpackable(dyn) <=> Self!RelrSound(dyn)
           /\ Self!RelaCount(dyn) = Self!Declared(dyn, "RELASZ") \div RelaSize
           /\ Self!RelrCount(dyn) = Self!Declared(dyn, "RELRSZ")
                                      \div Self!Stride(dyn, "RELRENT", Size)
  <2> HIDE DEF dyn
  <2> QED BY <1>1, RefusalsRight
<1>3. Self!Fits(image) = Passes(image)
  BY <1>2 DEF Self!Fits, Passes
<1>4. QED
  BY <1>1, <1>2, <1>3

LEMMA ParseStep ==
  ASSUME SelfInv, Self!Parse, pc' = pc
  PROVE  SelfInv'
<1>1. /\ phase = "parse" /\ image' = image /\ word' = word /\ addr' = addr /\ at' = at
      /\ phase' = IF Self!Unparsable(image.dynamic) THEN "refused" ELSE "rela"
  BY DEF Self!Parse, Self!Goto
<1>2. at = 1 /\ addr = -1 /\ \A w \in 0 .. ImageWords - 1 : word[w] = Self!Linked(w)
  BY <1>1 DEF SelfInv
<1>3. Self!AsLinked(image)' /\ (DOMAIN word = 0 .. ImageWords - 1)'
  BY <1>1 DEF SelfInv
<1>4. (pc \notin {"start", "exit"} => phase = "done")'
  BY <1>1 DEF SelfInv
<1>5. CASE Self!Unparsable(image.dynamic)
  <2>1. ~image.fit
    BY <1>5, LinkedFacts DEF SelfInv, Passes
  <2> QED BY <1>1, <1>3, <1>4, <1>5, <2>1 DEF SelfInv, RelaPart, RelrPart
<1>6. CASE ~Self!Unparsable(image.dynamic)
  <2>1. RelaPart'
    <3>1. 1 \in 1 .. Len(image.rela) + 1
      BY LinkedFacts DEF SelfInv
    <3>2. \A w \in 0 .. ImageWords - 1 : Valued(w, at)'
      BY <1>1, <1>2 DEF Valued
    <3> QED BY <1>1, <1>2, <1>6, <3>1, <3>2 DEF RelaPart
  <2> QED BY <1>1, <1>3, <1>4, <1>6, <2>1 DEF SelfInv, RelrPart
<1>7. QED
  BY <1>5, <1>6

LEMMA ApplyRelaStep ==
  ASSUME SelfInv, Self!ApplyRela, pc' = pc
  PROVE  SelfInv'
<1> DEFINE rel == image.rela[at]
<1>1. phase = "rela" /\ at <= Self!RelaCount(image.dynamic) /\ image' = image /\ addr' = addr
  BY DEF Self!ApplyRela, Self!Goto
<1>2. /\ ~Self!Unparsable(image.dynamic)
      /\ at \in 1 .. Len(image.rela) + 1
      /\ addr = -1
      /\ \A k \in 1 .. at - 1 : image.rela[k].type \in {"NONE", "RELATIVE"}
      /\ image.fit => \A w \in 0 .. ImageWords - 1 : Valued(w, at)
  BY <1>1 DEF SelfInv, RelaPart
<1>3. at \in 1 .. Len(image.rela) /\ Len(image.rela) \in Nat
  BY <1>1, <1>2, LinkedFacts DEF SelfInv
<1>4. Self!AsLinked(image)'
  BY <1>1 DEF SelfInv
<1>5. pc \in {"start", "exit"} /\ pc' \in {"start", "exit"}
  BY <1>1 DEF SelfInv
<1>6. CASE rel.type = "NONE" /\ at' = at + 1 /\ word' = word /\ phase' = phase
  <2>1. \A k \in 1 .. at : image.rela[k].type \in {"NONE", "RELATIVE"}
    BY <1>2, <1>3, <1>6
  <2>2. \A w \in 0 .. ImageWords - 1 : Valued(w, at) => Valued(w, at)'
    <3> TAKE w \in 0 .. ImageWords - 1
    <3>1. ~Relative(at, w)
      BY <1>6 DEF Relative
    <3>2. \A k : Relative(k, w)' = Relative(k, w)
      BY <1>1 DEF Relative
    <3>3. \A k \in 1 .. (at + 1) - 1 : k \in 1 .. at - 1 \/ k = at
      BY <1>3
    <3>4. \A k \in 1 .. at - 1 : k \in 1 .. (at + 1) - 1
      BY <1>3
    <3> QED BY <1>1, <1>6, <3>1, <3>2, <3>3, <3>4 DEF Valued
  <2>3. RelaPart'
    BY <1>1, <1>2, <1>3, <1>6, <2>1, <2>2 DEF RelaPart
  <2> QED BY <1>1, <1>4, <1>5, <1>6, <2>3 DEF SelfInv, RelrPart
<1>7. CASE /\ rel.type = "RELATIVE" /\ at' = at + 1 /\ phase' = phase
           /\ word' = [word EXCEPT ![rel.word] = Self!Wrap(Shift + rel.addend)]
  <2>1. \A k \in 1 .. at : image.rela[k].type \in {"NONE", "RELATIVE"}
    BY <1>2, <1>3, <1>7
  <2>2. ASSUME image.fit, NEW w \in 0 .. ImageWords - 1, Valued(w, at)
        PROVE  Valued(w, at)'
    <3>1. \A k : Relative(k, w)' = Relative(k, w)
      BY <1>1 DEF Relative
    <3>2. \A k \in 1 .. (at + 1) - 1 : k \in 1 .. at - 1 \/ k = at
      BY <1>3
    <3>3. at \in 1 .. (at + 1) - 1 /\ \A k \in 1 .. at - 1 : k \in 1 .. (at + 1) - 1
      BY <1>3
    <3>4. CASE rel.word = w
      <4>1. word'[w] = Self!Wrap(Shift + rel.addend)
        BY <1>7, <3>4 DEF SelfInv
      <4>2. Relative(at, w)
        BY <1>7, <3>4 DEF Relative
      <4>3. \A k \in 1 .. at - 1 : ~Relative(k, w)
        <5>1. \A i, j \in {k \in 1 .. Len(image.rela) : image.rela[k].type = "RELATIVE"} :
                 i # j => image.rela[i].word # image.rela[j].word
          BY <2>2 DEF SelfInv, Self!AsLinked
        <5>2. \A k \in 1 .. at - 1 : k \in 1 .. Len(image.rela) /\ k # at
          BY <1>3
        <5> QED BY <1>3, <1>7, <3>4, <5>1, <5>2 DEF Relative
      <4> QED BY <1>1, <1>7, <3>1, <3>2, <3>3, <4>1, <4>2, <4>3 DEF Valued
    <3>5. CASE rel.word # w
      <4>1. word'[w] = word[w]
        BY <1>7, <3>5 DEF SelfInv
      <4>2. ~Relative(at, w)
        BY <3>5 DEF Relative
      <4> QED BY <1>1, <1>7, <2>2, <3>1, <3>2, <3>3, <4>1, <4>2 DEF Valued
    <3> QED BY <3>4, <3>5
  <2>3. RelaPart'
    BY <1>1, <1>2, <1>3, <1>7, <2>1, <2>2 DEF RelaPart
  <2>4. DOMAIN word' = DOMAIN word
    BY <1>7
  <2> QED BY <1>1, <1>4, <1>5, <1>7, <2>3, <2>4 DEF SelfInv, RelrPart
<1>8. CASE rel.type \notin {"NONE", "RELATIVE"} /\ Self!Goto("refused")
  <2>1. ~image.fit
    BY <1>3, <1>8, LinkedFacts DEF SelfInv, Passes
  <2>2. phase' = "refused" /\ word' = word
    BY <1>8 DEF Self!Goto
  <2> QED BY <1>1, <1>4, <1>5, <2>1, <2>2 DEF SelfInv, RelaPart, RelrPart
<1>9. QED
  BY <1>6, <1>7, <1>8 DEF Self!ApplyRela, Shift

LEMMA BeginRelrStep ==
  ASSUME SelfInv, Self!BeginRelr, pc' = pc
  PROVE  SelfInv'
<1>1. /\ phase = "rela" /\ at > Self!RelaCount(image.dynamic)
      /\ image' = image /\ addr' = addr /\ word' = word
  BY DEF Self!BeginRelr, Self!Goto
<1>2. /\ ~Self!Unparsable(image.dynamic)
      /\ at \in 1 .. Len(image.rela) + 1
      /\ addr = -1
      /\ \A k \in 1 .. at - 1 : image.rela[k].type \in {"NONE", "RELATIVE"}
      /\ image.fit => \A w \in 0 .. ImageWords - 1 : Valued(w, at)
  BY <1>1 DEF SelfInv, RelaPart
<1>3. Len(image.rela) \in Nat /\ Len(image.relr) \in Nat /\ at = Len(image.rela) + 1
  <2>1. Self!AsLinked(image)
    BY DEF SelfInv
  <2>2. Len(image.rela) \in Nat /\ Len(image.relr) \in Nat
    BY <2>1, LinkedFacts
  <2>3. Len(image.rela) = Self!RelaCount(image.dynamic)
    BY <1>2, <2>1, LinkedFacts
  <2> QED BY <1>1, <1>2, <2>2, <2>3
<1>4. Self!AsLinked(image)' /\ (DOMAIN word = 0 .. ImageWords - 1)'
  BY <1>1 DEF SelfInv
<1>5. pc \in {"start", "exit"} /\ pc' \in {"start", "exit"}
  BY <1>1 DEF SelfInv
<1>6. CASE Self!Unpackable(image.dynamic) /\ Self!Goto("refused")
  <2>1. ~image.fit
    BY <1>6, LinkedFacts DEF SelfInv, Passes
  <2>2. phase' = "refused"
    BY <1>6 DEF Self!Goto
  <2> QED BY <1>1, <1>4, <1>5, <2>1, <2>2 DEF SelfInv, RelaPart, RelrPart
<1>7. CASE ~Self!Unpackable(image.dynamic) /\ phase' = "relr" /\ at' = 1
  <2>1. \A w : ~Moved(w, 1)'
    BY DEF Moved
  <2>2. Before(image.relr, 1) = -1
    <3>1. Self!Addresses(image.relr, 1) = {}
      BY DEF Self!Addresses
    <3> QED BY <3>1 DEF Before
  <2>3. \A w \in 0 .. ImageWords - 1 : Valued(w, at) => Valued(w, Len(image.rela) + 1)'
    <3> TAKE w \in 0 .. ImageWords - 1
    <3>1. \A k : Relative(k, w)' = Relative(k, w)
      BY <1>1 DEF Relative
    <3> QED BY <1>1, <1>3, <3>1 DEF Valued
  <2>4. \A k \in 1 .. Len(image.rela) : image.rela[k].type \in {"NONE", "RELATIVE"}
    BY <1>2, <1>3
  <2>5. 1 \in 1 .. Len(image.relr) + 1
    BY <1>3
  <2>6. \A w : ~Moved(w, at)'
    BY <1>7, <2>1 DEF Moved
  <2>7. addr' = Before(image.relr, at)'
    BY <1>1, <1>2, <1>7, <2>2
  <2>8. image'.fit => \A w \in 0 .. ImageWords - 1 : Valued(w, Len(image.rela) + 1)'
    BY <1>1, <1>2, <2>3
  <2>9. RelrPart'
    BY <1>1, <1>2, <1>7, <2>4, <2>5, <2>6, <2>7, <2>8 DEF RelrPart
  <2> QED BY <1>1, <1>4, <1>5, <1>7, <2>9 DEF SelfInv, RelaPart
<1>8. QED
  BY <1>6, <1>7 DEF Self!BeginRelr

LEMMA ApplyRelrStep ==
  ASSUME SelfInv, Self!ApplyRelr, pc' = pc
  PROVE  SelfInv'
<1> DEFINE v == image.relr[at]
           words == IF Self!Odd(v) THEN Self!BitmapOf(addr, v) ELSE {v \div Size}
<1>1. phase = "relr" /\ at <= Self!RelrCount(image.dynamic) /\ image' = image
  BY DEF Self!ApplyRelr, Self!Goto
<1>2. /\ ~Self!Unparsable(image.dynamic) /\ ~Self!Unpackable(image.dynamic)
      /\ \A k \in 1 .. Len(image.rela) : image.rela[k].type \in {"NONE", "RELATIVE"}
      /\ at \in 1 .. Len(image.relr) + 1
      /\ addr = Before(image.relr, at)
      /\ at # 1 => ~Self!Odd(image.relr[1])
      /\ image.fit =>
           \A w \in 0 .. ImageWords - 1 :
             /\ Moved(w, at) => word[w] = Self!Wrap(Shift + Self!Linked(w))
             /\ ~Moved(w, at) => Valued(w, Len(image.rela) + 1)
  BY <1>1 DEF SelfInv, RelrPart
<1>3. Len(image.relr) \in Nat /\ at \in 1 .. Len(image.relr) /\ image.relr \in Seq(Nat)
  BY <1>1, <1>2, LinkedFacts DEF SelfInv
<1>4. Self!AsLinked(image)'
  BY <1>1 DEF SelfInv
<1>5. pc \in {"start", "exit"} /\ pc' \in {"start", "exit"}
  BY <1>1 DEF SelfInv
<1>6. Self!Odd(v) /\ addr = -1 => at = 1
  <2> SUFFICES ASSUME addr = -1, at # 1 PROVE FALSE
    OBVIOUS
  <2>1. 1 \in Self!Addresses(image.relr, at)
    BY <1>2, <1>3 DEF Self!Addresses
  <2>2. Before(image.relr, at) \in Nat
    BY <1>2, <1>3, <2>1, BeforeIs
  <2> QED BY <1>2, <2>2
<1>7. CASE Self!Odd(v) /\ addr = -1 /\ Self!Goto("refused")
  <2>1. ~image.fit
    <3>1. image.relr # <<>> /\ Self!Odd(image.relr[1])
      BY <1>3, <1>6, <1>7
    <3> QED BY <3>1, LinkedFacts DEF SelfInv, Passes
  <2>2. phase' = "refused" /\ word' = word
    BY <1>7 DEF Self!Goto
  <2> QED BY <1>1, <1>4, <1>5, <2>1, <2>2 DEF SelfInv, RelaPart, RelrPart
<1>8. CASE /\ ~(Self!Odd(v) /\ addr = -1)
           /\ word' = [w \in DOMAIN word |->
                         IF w \in words THEN Self!Wrap(Shift + word[w]) ELSE word[w]]
           /\ addr' = IF Self!Odd(v) THEN addr + Self!Covered ELSE v \div Size + 1
           /\ at' = at + 1
           /\ phase' = phase
  <2>1. words = Self!StandsFor(image.relr, at)
    <3>1. Self!Odd(v) => addr = Self!BeginsAt(image.relr, at)
      BY <1>2, <1>8 DEF Before
    <3> QED BY <3>1 DEF Self!StandsFor
  <2>2. addr' = Before(image.relr, at + 1)
    <3>1. CASE Self!Odd(v)
      BY <1>2, <1>3, <1>8, <3>1, BehindBitmap DEF Self!Covered
    <3>2. CASE ~Self!Odd(v)
      BY <1>3, <1>8, <3>2, BehindAddress
    <3> QED BY <3>1, <3>2
  <2>3. ~Self!Odd(image.relr[1])
    <3>1. CASE at # 1
      BY <1>2, <3>1
    <3>2. CASE at = 1
      <4>1. Self!Addresses(image.relr, 1) = {}
        BY DEF Self!Addresses
      <4>2. addr = -1
        BY <1>2, <3>2, <4>1 DEF Before
      <4> QED BY <1>8, <3>2, <4>2
    <3> QED BY <3>1, <3>2
  <2>4. ASSUME image.fit, NEW w \in 0 .. ImageWords - 1
        PROVE  /\ Moved(w, at)' => word'[w] = Self!Wrap(Shift + Self!Linked(w))
               /\ ~Moved(w, at)' => Valued(w, Len(image.rela) + 1)'
    <3>1. Moved(w, at)' <=> Moved(w, at) \/ w \in words
      <4>1. \A k : k \in 1 .. (at + 1) - 1 <=> k \in 1 .. at - 1 \/ k = at
        BY <1>3
      <4> HIDE DEF words
      <4> QED BY <1>1, <1>8, <2>1, <4>1 DEF Moved
    <3>2. word'[w] = IF w \in words THEN Self!Wrap(Shift + word[w]) ELSE word[w]
      BY <1>8 DEF SelfInv
    <3> HIDE DEF words
    <3>3. \A k : Relative(k, w)' = Relative(k, w)
      BY <1>1 DEF Relative
    <3>4. CASE w \in words
      <4>1. ~Moved(w, at)
        <5>1. \A i, j \in 1 .. Len(image.relr) :
                 i # j => Self!StandsFor(image.relr, i) \cap Self!StandsFor(image.relr, j) = {}
          BY <2>4 DEF SelfInv, Self!AsLinked
        <5>2. \A k \in 1 .. at - 1 : k \in 1 .. Len(image.relr) /\ k # at
          BY <1>3
        <5> QED BY <1>3, <2>1, <3>4, <5>1, <5>2 DEF Moved
      <4>2. \A k \in 1 .. Len(image.rela) : ~Relative(k, w)
        <5>1. w \in image.targets
          <6>1. image.targets = UNION {Self!StandsFor(image.relr, i) : i \in 1 .. Len(image.relr)}
            BY <2>4 DEF SelfInv, Self!AsLinked
          <6> QED BY <1>3, <2>1, <3>4, <6>1
        <5>2. \A i \in {k \in 1 .. Len(image.rela) : image.rela[k].type = "RELATIVE"} :
                 image.rela[i].word \notin image.targets
          BY <2>4 DEF SelfInv, Self!AsLinked
        <5> QED BY <5>1, <5>2 DEF Relative
      <4>3. Valued(w, Len(image.rela) + 1)
        BY <1>2, <2>4, <4>1
      <4>4. word[w] = Self!Linked(w)
        <5>1. Len(image.rela) \in Nat
          BY LinkedFacts DEF SelfInv
        <5>2. (Len(image.rela) + 1) - 1 = Len(image.rela)
          BY <5>1
        <5> QED BY <4>2, <4>3, <5>2 DEF Valued
      <4> QED BY <3>1, <3>2, <3>4, <4>4
    <3>5. CASE w \notin words
      <4>1. word'[w] = word[w]
        BY <3>2, <3>5
      <4>2. Valued(w, Len(image.rela) + 1) => Valued(w, Len(image.rela) + 1)'
        BY <1>1, <3>3, <4>1 DEF Valued
      <4> QED BY <1>2, <2>4, <3>1, <3>5, <4>1, <4>2
    <3> QED BY <3>4, <3>5
  <2>5. at' \in 1 .. Len(image.relr) + 1 /\ at' # at
    BY <1>3, <1>8
  <2>6. addr' = Before(image.relr, at)'
    BY <1>1, <1>8, <2>2
  <2>7. RelrPart'
    BY <1>1, <1>2, <2>3, <2>4, <2>5, <2>6 DEF RelrPart
  <2>8. DOMAIN word' = DOMAIN word
    BY <1>8
  <2> QED BY <1>1, <1>4, <1>5, <1>8, <2>7, <2>8 DEF SelfInv, RelaPart
<1>9. QED
  BY <1>7, <1>8 DEF Self!ApplyRelr, Self!Odd, Shift

LEMMA FinishStep ==
  ASSUME SelfInv, Self!Finish, pc' = pc
  PROVE  SelfInv'
<1>1. /\ phase = "relr" /\ at > Self!RelrCount(image.dynamic) /\ image' = image
      /\ word' = word /\ phase' = "done"
  BY DEF Self!Finish, Self!Goto
<1>2. /\ ~Self!Unparsable(image.dynamic) /\ ~Self!Unpackable(image.dynamic)
      /\ \A k \in 1 .. Len(image.rela) : image.rela[k].type \in {"NONE", "RELATIVE"}
      /\ at \in 1 .. Len(image.relr) + 1
      /\ at # 1 => ~Self!Odd(image.relr[1])
      /\ image.fit =>
           \A w \in 0 .. ImageWords - 1 :
             /\ Moved(w, at) => word[w] = Self!Wrap(Shift + Self!Linked(w))
             /\ ~Moved(w, at) => Valued(w, Len(image.rela) + 1)
  BY <1>1 DEF SelfInv, RelrPart
<1>3. Len(image.relr) \in Nat /\ at = Len(image.relr) + 1 /\ Len(image.rela) \in Nat
  <2>1. Self!AsLinked(image)
    BY DEF SelfInv
  <2>2. Len(image.rela) \in Nat /\ Len(image.relr) \in Nat
    BY <2>1, LinkedFacts
  <2>3. Len(image.relr) = Self!RelrCount(image.dynamic)
    BY <1>2, <2>1, LinkedFacts
  <2> QED BY <1>1, <1>2, <2>2, <2>3
<1>4. image.fit
  <2>1. image.relr # <<>> => ~Self!Odd(image.relr[1])
    <3>1. image.relr # <<>> => Len(image.relr) # 0
      BY LinkedFacts DEF SelfInv
    <3> QED BY <1>2, <1>3, <3>1
  <2>2. Passes(image)
    BY <1>2, <2>1 DEF Passes
  <2> QED BY <2>2, LinkedFacts DEF SelfInv
<1>5. ASSUME NEW w \in 0 .. ImageWords - 1
      PROVE  LET rela == {r \in {image.rela[i] : i \in 1 .. Len(image.rela)} :
                            r.type = "RELATIVE" /\ r.word = w}
             IN  word[w] = IF w \in image.targets THEN Self!Wrap(Shift + Self!Linked(w))
                           ELSE IF rela # {}
                           THEN Self!Wrap(Shift + (CHOOSE r \in rela : TRUE).addend)
                           ELSE Self!Linked(w)
  <2> DEFINE R == {r \in {image.rela[i] : i \in 1 .. Len(image.rela)} :
                     r.type = "RELATIVE" /\ r.word = w}
  <2>1. (at - 1 = Len(image.relr)) /\ ((Len(image.rela) + 1) - 1 = Len(image.rela))
    BY <1>3
  <2>2. w \in image.targets <=> Moved(w, at)
    <3>1. image.targets = UNION {Self!StandsFor(image.relr, i) : i \in 1 .. Len(image.relr)}
      BY <1>4 DEF SelfInv, Self!AsLinked
    <3> QED BY <2>1, <3>1 DEF Moved
  <2>3. CASE w \in image.targets
    BY <1>2, <1>4, <2>2, <2>3
  <2>4. CASE w \notin image.targets /\ R # {}
    <3>1. PICK r \in R : r = CHOOSE q \in R : TRUE
      BY <2>4
    <3>2. PICK k \in 1 .. Len(image.rela) : r = image.rela[k] /\ Relative(k, w)
      BY <3>1 DEF Relative
    <3>3. Valued(w, Len(image.rela) + 1)
      BY <1>2, <1>4, <2>2, <2>4
    <3>4. word[w] = Self!Wrap(Shift + r.addend)
      BY <2>1, <3>2, <3>3 DEF Valued
    <3> HIDE DEF R
    <3> QED BY <2>4, <3>1, <3>4 DEF R
  <2>5. CASE w \notin image.targets /\ R = {}
    <3>1. \A k \in 1 .. Len(image.rela) : ~Relative(k, w)
      BY <2>5 DEF Relative
    <3>2. Valued(w, Len(image.rela) + 1)
      BY <1>2, <1>4, <2>2, <2>5
    <3>3. word[w] = Self!Linked(w)
      BY <2>1, <3>1, <3>2 DEF Valued
    <3> QED BY <2>5, <3>3
  <2> QED BY <2>3, <2>4, <2>5
<1>6. Self!Relocated
  BY <1>5 DEF Self!Relocated, SelfInv, Shift
<1>7. Self!Relocated'
  BY <1>1, <1>6 DEF Self!Relocated, Self!Wrap, Self!Linked
<1>8. QED
  BY <1>1, <1>4, <1>7 DEF SelfInv, RelaPart, RelrPart

LEMMA SelfKept ==
  ASSUME SelfInv, UNCHANGED selfvars, pc' \notin {"start", "exit"} => phase = "done"
  PROVE  SelfInv'
<1>1. image' = image /\ word' = word /\ addr' = addr /\ at' = at /\ phase' = phase
  BY DEF selfvars
<1>2. /\ \A k, w : Relative(k, w)' = Relative(k, w)
      /\ \A w, n : Moved(w, n)' = Moved(w, n)
  BY <1>1 DEF Relative, Moved
<1>3. \A w, n : Valued(w, n)' = Valued(w, n)
  BY <1>1, <1>2 DEF Valued
<1>4. \A w : /\ Moved(w, at)' = Moved(w, at) /\ Valued(w, at)' = Valued(w, at)
             /\ Valued(w, Len(image.rela) + 1)' = Valued(w, Len(image.rela) + 1)
  BY <1>1, <1>2 DEF Moved, Valued
<1>5. RelaPart'
  BY <1>1, <1>4 DEF SelfInv, RelaPart
<1>6. RelrPart'
  BY <1>1, <1>4 DEF SelfInv, RelrPart
<1>7. (phase = "done" => image.fit /\ Self!Relocated)'
  BY <1>1 DEF SelfInv, Self!Relocated, Self!Wrap, Self!Linked
<1>8. QED
  BY <1>1, <1>5, <1>6, <1>7 DEF SelfInv

LEMMA SelfNext ==
  ASSUME SelfInv, [RtldNext]_allvars
  PROVE  SelfInv'
<1>1. CASE Self!Next /\ UNCHANGED <<vars, lookvars>>
  <2>1. pc' = pc
    BY <1>1 DEF vars
  <2> QED BY <1>1, <2>1, ParseStep, ApplyRelaStep, BeginRelrStep, ApplyRelrStep, FinishStep
          DEF Self!Next
<1>2. CASE phase = "refused" /\ Refuse /\ UNCHANGED selfvars
  BY <1>2, SelfKept DEF Refuse, Exit
<1>3. CASE phase = "done" /\ UNCHANGED selfvars
  BY <1>3, SelfKept
<1>4. CASE Run /\ UNCHANGED selfvars
  <2>1. pc \notin {"start", "exit"}
    BY <1>4 DEF Run, ParseOption, PrintHelp, CopyWord, FinishRewrite, LoadExec, PatchAuxv,
                LinkExec, LinkMain
  <2> QED BY <1>4, <2>1, SelfKept DEF SelfInv
<1>5. CASE ExitInspected /\ UNCHANGED selfvars
  <2>1. pc = "inspect"
    BY <1>5 DEF ExitInspected
  <2> QED BY <1>5, <2>1, SelfKept DEF SelfInv
<1>6. CASE UNCHANGED <<vars, selfvars>>
  <2>1. pc' = pc
    BY <1>6 DEF vars
  <2> QED BY <1>6, <2>1, SelfKept DEF SelfInv
<1>7. QED
  BY <1>1, <1>2, <1>3, <1>4, <1>5, <1>6 DEF RtldNext, allvars

(* The interpreter relocates itself whatever its tables, if a linker made  *)
(* them: the invariant of parse, apply_relocations and                     *)
(* apply_relr_relocations.                                                 *)
THEOREM SelfSafe == RtldSpec => []SelfInv
<1>1. RtldInit => SelfInv
  BY SelfInit
<1>2. SelfInv /\ [RtldNext]_allvars => SelfInv'
  BY SelfNext
<1>3. QED
  BY <1>1, <1>2, PTL DEF RtldSpec

(* Whatever set of words a RELR table stands for, and whatever RELA        *)
(* entries come with it, each word is moved by the load bias exactly once  *)
(* before code that needs it runs, and no other word changes.              *)
THEOREM RtldRelocates == RtldSpec => []RelocatedOnce
<1>1. SelfInv => RelocatedOnce
  BY DEF SelfInv, RelocatedOnce
<1>2. QED
  BY <1>1, SelfSafe, PTL

(* rtld refuses exactly the images that ask for more than relative         *)
(* relocation or whose tables are malformed, wherever in a table the       *)
(* offending entry is.                                                     *)
THEOREM RtldRefuses == RtldSpec => []RefusedIffUnfit
<1>1. SelfInv => RefusedIffUnfit
  BY DEF SelfInv, RefusedIffUnfit
<1>2. QED
  BY <1>1, SelfSafe, PTL

-----------------------------------------------------------------------------
(* --verify and --list.                                                    *)

Segment == [type : STRING, offset : Nat, vaddr : Nat, filesz : Nat]

LEMMA FileFacts ==
  ASSUME NEW f, Look!OnDisk(f)
  PROVE  /\ f.phdr \in Seq(Segment) /\ f.dyn \in Seq(STRING \X Nat)
         /\ Len(f.phdr) \in Nat /\ Len(f.dyn) \in Nat
         /\ f.phnum \in Nat /\ Len(f.phdr) <= f.phnum
         /\ \A i \in 1 .. Len(f.phdr) : f.phdr[i] \in Segment
         /\ \A i \in 1 .. Len(f.dyn) : f.dyn[i] \in STRING \X Nat
<1>1. f.phdr \in Seq(Segment) /\ f.dyn \in Seq(STRING \X Nat)
  BY DEF Look!OnDisk, Segment
<1>2. f.phnum \in Nat /\ Len(f.phdr) <= f.phnum
  BY DEF Look!OnDisk
<1>4. \A i \in 1 .. Len(f.phdr) : f.phdr[i] \in Segment
  BY <1>1
<1>5. \A i \in 1 .. Len(f.dyn) : f.dyn[i] \in STRING \X Nat
  BY <1>1
<1>6. QED
  BY <1>1, <1>2, <1>4, <1>5

LEMMA Bounds ==
  /\ MaxPhdrs \in Nat \ {0} /\ MaxLoads \in Nat \ {0}
  /\ MaxNeeded \in Nat \ {0} /\ MaxEntries \in Nat \ {0}
  BY RtldAssumption

LEMMA SameCardinality ==
  ASSUME NEW S
  PROVE  Look!Cardinality(S) = Cardinality(S)
  BY DEF Cardinality, Look!Cardinality

(* Of a set of numbers, how many are less than i.                          *)
LEMMA NumberBefore ==
  ASSUME NEW S \in SUBSET Nat, NEW i \in Nat \ {0}
  PROVE  Look!Rank(S, i) = NumberTo(S, i - 1)
<1>1. {j \in S : j < i} = {j \in S : j <= i - 1}
  <2>1. \A j \in S : j < i <=> j <= i - 1
    <3> TAKE j \in S
    <3>1. j \in Nat
      OBVIOUS
    <3> QED BY <3>1
  <2> QED BY <2>1
<1>2. QED
  BY <1>1, SameCardinality DEF NumberTo, Look!Rank

LEMMA NumberNone ==
  ASSUME NEW S \in SUBSET (Nat \ {0})
  PROVE  NumberTo(S, 0) = 0
<1>1. {m \in S : m <= 0} = {}
  <2>1. \A m \in S : ~(m <= 0)
    <3> TAKE m \in S
    <3>1. m \in Nat \ {0}
      OBVIOUS
    <3> QED BY <3>1
  <2> QED BY <2>1
<1>2. QED
  BY <1>1, FS_EmptySet DEF NumberTo

LEMMA NumberGrows ==
  ASSUME NEW S \in SUBSET Nat, NEW i \in S, NEW j \in Nat, i < j
  PROVE  NumberTo(S, i - 1) < NumberTo(S, j - 1)
<1> DEFINE A == {m \in S : m <= i - 1}
           C == {m \in S : m <= j - 1}
<1>0. i \in Nat /\ \A m \in S : m \in Nat
  OBVIOUS
<1>1. A \cup {i} \subseteq C /\ i \notin A
  <2>1. i <= j - 1 /\ ~(i <= i - 1)
    BY <1>0
  <2>2. \A m \in Nat : m <= i - 1 => m <= j - 1
    BY <1>0
  <2> QED BY <1>0, <2>1, <2>2
<1>2. IsFiniteSet(C)
  <2>1. C \subseteq 0 .. j
    <3>1. \A m \in Nat : m <= j - 1 => m \in 0 .. j
      OBVIOUS
    <3> QED BY <1>0, <3>1
  <2>2. IsFiniteSet(0 .. j)
    BY 0 \in Int, j \in Int, FS_Interval
  <2> HIDE DEF C
  <2> QED BY <2>1, <2>2, FS_Subset
<1> HIDE DEF A, C
<1>3. IsFiniteSet(A \cup {i}) /\ IsFiniteSet(A)
  <2>1. A \subseteq C
    BY <1>1
  <2> QED BY <1>1, <1>2, <2>1, FS_Subset
<1>4. Cardinality(A \cup {i}) <= Cardinality(C)
  BY <1>1, <1>2, FS_Subset
<1>5. Cardinality(A \cup {i}) = Cardinality(A) + 1
  BY <1>1, <1>3, FS_AddElement
<1>6. Cardinality(A) \in Nat /\ Cardinality(C) \in Nat
  BY <1>2, <1>3, FS_CardinalityType
<1>7. Cardinality(A) < Cardinality(C)
  BY <1>4, <1>5, <1>6
<1>8. QED
  BY <1>7 DEF A, C, NumberTo

(* The members of a set among the first n - 1 positions, a new one, the    *)
(* last one.                                                               *)
LEMMA LastOf ==
  ASSUME NEW S \in SUBSET Nat, NEW m \in S, \A j \in S : j <= m
  PROVE  Look!Last(S) = m
<1>1. m \in S /\ \A j \in S : j <= m
  OBVIOUS
<1>2. Look!Last(S) \in S /\ \A j \in S : j <= Look!Last(S)
  BY <1>1 DEF Look!Last
<1> DEFINE l == Look!Last(S)
<1>3. l \in Nat /\ m \in Nat /\ l <= m /\ m <= l
  BY <1>2
<1> HIDE DEF l
<1>4. l = m
  BY <1>3
<1>5. QED
  BY <1>4 DEF l

(* The load segments for which the array has room.                         *)
KeptIn(f) ==
  {i \in Look!Segments(f, "LOAD") : Look!Rank(Look!Segments(f, "LOAD"), i) < MaxLoads}

(* What inspect_fd has kept of the program headers before n.               *)
LoadsTo(f, kept, n) ==
  /\ kept \in Seq(Segment)
  /\ Len(kept) = LET number == NumberTo(Look!Segments(f, "LOAD"), n - 1)
                 IN  IF number < MaxLoads THEN number ELSE MaxLoads
  /\ \A l \in 1 .. Len(kept) : \E i \in KeptIn(f) : i < n /\ kept[l] = f.phdr[i]
  /\ \A i \in KeptIn(f) : i < n => \E l \in 1 .. Len(kept) : kept[l] = f.phdr[i]

DynamicTo(f, d, n) ==
  \/ /\ \A i \in Look!Segments(f, "DYNAMIC") : ~(i < n)
     /\ d = [offset |-> 0, size |-> 0]
  \/ \E m \in Look!Segments(f, "DYNAMIC") :
       /\ m < n /\ \A i \in Look!Segments(f, "DYNAMIC") : i < n => i <= m
       /\ d = [offset |-> f.phdr[m].offset, size |-> f.phdr[m].filesz]

LEMMA KeptIs ==
  ASSUME NEW f, Look!OnDisk(f), NEW i \in 1 .. Len(f.phdr)
  PROVE  i \in KeptIn(f) <=>
           /\ f.phdr[i].type = "LOAD"
           /\ NumberTo(Look!Segments(f, "LOAD"), i - 1) < MaxLoads
<1>1. Look!Segments(f, "LOAD") \in SUBSET Nat
  BY DEF Look!Segments
<1>2. Look!Rank(Look!Segments(f, "LOAD"), i)
        = NumberTo(Look!Segments(f, "LOAD"), i - 1)
  BY <1>1, NumberBefore
<1>3. i \in Look!Segments(f, "LOAD") <=> f.phdr[i].type = "LOAD"
  BY DEF Look!Segments
<1>4. i \in KeptIn(f) <=>
        /\ i \in Look!Segments(f, "LOAD")
        /\ Look!Rank(Look!Segments(f, "LOAD"), i) < MaxLoads
  BY DEF KeptIn
<1>5. QED
  BY <1>2, <1>3, <1>4

LEMMA LoadsFirst ==
  ASSUME NEW f, Look!OnDisk(f)
  PROVE  LoadsTo(f, <<>>, 1) /\ DynamicTo(f, [offset |-> 0, size |-> 0], 1)
<1>1. Look!Segments(f, "LOAD") \in SUBSET (Nat \ {0})
  BY DEF Look!Segments
<1>2. NumberTo(Look!Segments(f, "LOAD"), 1 - 1) = 0
  BY <1>1, NumberNone
<1>3. \A i \in 1 .. Len(f.phdr) : ~(i < 1)
  BY FileFacts
<1>4. KeptIn(f) \subseteq 1 .. Len(f.phdr)
      /\ Look!Segments(f, "DYNAMIC") \subseteq 1 .. Len(f.phdr)
  BY DEF KeptIn, Look!Segments
<1>5. DynamicTo(f, [offset |-> 0, size |-> 0], 1)
  BY <1>3, <1>4 DEF DynamicTo
<1>6. LoadsTo(f, <<>>, 1)
  BY <1>2, <1>3, <1>4, Bounds DEF LoadsTo
<1>7. QED
  BY <1>5, <1>6

LEMMA LoadsOn ==
  ASSUME NEW f, Look!OnDisk(f), NEW n \in 1 .. Len(f.phdr), NEW kept, LoadsTo(f, kept, n)
  PROVE  LoadsTo(f, IF f.phdr[n].type = "LOAD" /\ Len(kept) < MaxLoads
                    THEN Append(kept, f.phdr[n]) ELSE kept, n + 1)
<1> DEFINE L == Look!Segments(f, "LOAD")
           a == NumberTo(L, n - 1)
           c == NumberTo(L, n)
<1>1. L \in SUBSET Nat /\ n \in Nat \ {0} /\ (n + 1) - 1 = n
  BY DEF Look!Segments
<1>2. a \in Nat /\ c \in Nat /\ c = IF n \in L THEN a + 1 ELSE a
  <2> HIDE DEF L
  <2> QED BY <1>1, CountTo
<1>3. n \in L <=> f.phdr[n].type = "LOAD"
  BY DEF Look!Segments
<1>4. n \in KeptIn(f) <=> n \in L /\ a < MaxLoads
  BY <1>3, KeptIs
<1>5. Len(kept) = (IF a < MaxLoads THEN a ELSE MaxLoads) /\ Len(kept) \in Nat
      /\ kept \in Seq(Segment)
  BY DEF LoadsTo
<1>6. /\ \A l \in 1 .. Len(kept) : \E i \in KeptIn(f) : i < n /\ kept[l] = f.phdr[i]
      /\ \A i \in KeptIn(f) : i < n => \E l \in 1 .. Len(kept) : kept[l] = f.phdr[i]
  BY DEF LoadsTo
<1>7. KeptIn(f) \subseteq 1 .. Len(f.phdr)
  BY DEF KeptIn, Look!Segments
<1>8. \A i \in KeptIn(f) : i < n + 1 <=> i < n \/ i = n
  BY <1>1, <1>7
<1> HIDE DEF a, c
<1>9. CASE n \in L /\ Len(kept) < MaxLoads
  <2> DEFINE new == Append(kept, f.phdr[n])
  <2>1. a < MaxLoads /\ Len(kept) = a /\ c = a + 1
    BY <1>2, <1>5, <1>9, Bounds
  <2>2. f.phdr[n] \in Segment
    BY FileFacts
  <2>3. /\ new \in Seq(Segment) /\ Len(new) = Len(kept) + 1
        /\ \A l \in 1 .. Len(kept) : new[l] = kept[l]
        /\ new[Len(kept) + 1] = f.phdr[n]
    BY <1>5, <2>2
  <2>4. \A l \in 1 .. Len(new) : l \in 1 .. Len(kept) \/ l = Len(kept) + 1
    BY <1>5, <2>3
  <2>5. /\ \A l \in 1 .. Len(kept) : l \in 1 .. Len(new)
        /\ Len(kept) + 1 \in 1 .. Len(new)
    BY <1>5, <2>3
  <2>6. Len(new) = IF c < MaxLoads THEN c ELSE MaxLoads
    BY <1>2, <2>1, <2>3, Bounds
  <2> HIDE DEF new
  <2>7. n \in KeptIn(f)
    BY <1>4, <1>9, <2>1
  <2>8. \A l \in 1 .. Len(new) : \E i \in KeptIn(f) : i < n + 1 /\ new[l] = f.phdr[i]
    <3> TAKE l \in 1 .. Len(new)
    <3>1. CASE l \in 1 .. Len(kept)
      BY <1>6, <1>8, <2>3, <3>1
    <3>2. CASE l = Len(kept) + 1
      BY <1>8, <2>3, <2>7, <3>2
    <3> QED BY <2>4, <3>1, <3>2
  <2>9. \A i \in KeptIn(f) : i < n + 1 => \E l \in 1 .. Len(new) : new[l] = f.phdr[i]
    BY <1>6, <1>8, <2>3, <2>5
  <2>10. LoadsTo(f, new, n + 1)
    BY <1>1, <2>3, <2>6, <2>8, <2>9 DEF LoadsTo, c
  <2> QED BY <1>3, <1>9, <2>10 DEF new
<1>10. CASE ~(n \in L /\ Len(kept) < MaxLoads)
  <2>1. n \notin KeptIn(f)
    BY <1>2, <1>4, <1>5, <1>10
  <2>2. Len(kept) = IF c < MaxLoads THEN c ELSE MaxLoads
    BY <1>2, <1>5, <1>10, Bounds
  <2>3. LoadsTo(f, kept, n + 1)
    BY <1>1, <1>5, <1>6, <1>8, <2>1, <2>2 DEF LoadsTo, c
  <2> QED BY <1>3, <1>10, <2>3
<1>11. QED
  BY <1>9, <1>10

LEMMA DynamicOn ==
  ASSUME NEW f, Look!OnDisk(f), NEW n \in 1 .. Len(f.phdr), NEW d, DynamicTo(f, d, n)
  PROVE  DynamicTo(f, IF f.phdr[n].type = "DYNAMIC"
                      THEN [offset |-> f.phdr[n].offset, size |-> f.phdr[n].filesz]
                      ELSE d, n + 1)
<1> DEFINE D == Look!Segments(f, "DYNAMIC")
<1>1. \A i \in D : i \in Nat
  BY DEF Look!Segments
<1>2. \A i \in D : (i < n + 1 <=> i < n \/ i = n) /\ (i < n => i <= n)
  BY <1>1
<1>3. n < n + 1 /\ n <= n
  OBVIOUS
<1>4. n \in D <=> f.phdr[n].type = "DYNAMIC"
  BY DEF Look!Segments
<1>5. CASE n \in D
  BY <1>2, <1>3, <1>4, <1>5 DEF DynamicTo
<1>6. CASE n \notin D
  BY <1>2, <1>4, <1>6 DEF DynamicTo
<1>7. QED
  BY <1>5, <1>6

(* Where all program headers have been read.                               *)
LEMMA DynamicAll ==
  ASSUME NEW f, Look!OnDisk(f), NEW d, DynamicTo(f, d, Len(f.phdr) + 1)
  PROVE  /\ d.offset \in Nat /\ d.size \in Nat
         /\ Look!Extent(f) = IF d.offset = 0 THEN 0 ELSE d.size
<1> DEFINE D == Look!Segments(f, "DYNAMIC")
<1>1. D \subseteq 1 .. Len(f.phdr) /\ D \in SUBSET Nat /\ Len(f.phdr) \in Nat
  BY FileFacts DEF Look!Segments
<1>2. \A i \in D : i < Len(f.phdr) + 1
  BY <1>1
<1>3. CASE D = {} /\ d = [offset |-> 0, size |-> 0]
  BY <1>3 DEF Look!Extent
<1>4. CASE \E m \in D : /\ \A i \in D : i <= m
                        /\ d = [offset |-> f.phdr[m].offset, size |-> f.phdr[m].filesz]
  <2>1. PICK m \in D : /\ \A i \in D : i <= m
                       /\ d = [offset |-> f.phdr[m].offset, size |-> f.phdr[m].filesz]
    BY <1>4
  <2>2. Look!Last(D) = m
    BY <1>1, <2>1, LastOf
  <2>3. f.phdr[m] \in Segment
    BY <1>1, <2>1, FileFacts
  <2>4. Look!Extent(f) = IF f.phdr[m].offset = 0 THEN 0 ELSE f.phdr[m].filesz
    BY <2>1, <2>2 DEF Look!Extent
  <2> QED BY <2>1, <2>3, <2>4 DEF Segment
<1>5. QED
  BY <1>2, <1>3, <1>4 DEF DynamicTo

LEMMA CoversIs ==
  ASSUME NEW p \in Segment, NEW v \in Nat
  PROVE  Look!Covers(p, v) <=> v \in Look!Span(p)
  BY DEF Look!Covers, Look!Span, Segment

(* Of a file that can be loaded, a byte comes from one place.              *)
LEMMA SourceOne ==
  ASSUME NEW f, Look!Loadable(f), NEW v, NEW i \in Look!Segments(f, "LOAD"),
         v \in Look!Span(f.phdr[i])
  PROVE  Look!Source(f, v) = {Look!Place(f.phdr[i], v)}
<1>1. \A j \in Look!Segments(f, "LOAD") : v \in Look!Span(f.phdr[j]) => j = i
  BY DEF Look!Loadable
<1>2. QED
  BY <1>1 DEF Look!Source

(* Where the array has room for all load segments, all are kept.           *)
LEMMA AllKept ==
  ASSUME NEW f, Look!OnDisk(f), Look!FewLoads(f)
  PROVE  KeptIn(f) = Look!Segments(f, "LOAD")
<1> DEFINE L == Look!Segments(f, "LOAD")
           e == Len(f.phdr)
<1>1. e \in Nat /\ L \in SUBSET Nat /\ \A i \in L : i \in 1 .. e
  BY FileFacts DEF Look!Segments
<1>2. Cardinality(L) <= MaxLoads
  BY SameCardinality DEF Look!FewLoads
<1> HIDE DEF L, e
<1>3. {m \in L : m <= (e + 1) - 1} = L
  <2>1. \A m \in L : m <= (e + 1) - 1
    BY <1>1
  <2> QED BY <2>1
<1>4. NumberTo(L, (e + 1) - 1) = Cardinality(L)
  BY <1>3 DEF NumberTo
<1>5. ASSUME NEW i \in L PROVE Look!Rank(L, i) < MaxLoads
  <2>1. i \in Nat \ {0} /\ i < e + 1 /\ e + 1 \in Nat /\ i \in Nat
    BY <1>1
  <2>2. NumberTo(L, i - 1) < Cardinality(L)
    BY <1>1, <1>4, <2>1, NumberGrows
  <2>3. Look!Rank(L, i) = NumberTo(L, i - 1)
    BY <1>1, <2>1, NumberBefore
  <2>4. NumberTo(L, i - 1) \in Nat
    <3>1. NumberTo(L, i - 1) \in Nat
      BY <1>1, <2>1, CountTo
    <3> QED BY <3>1
  <2>5. Cardinality(L) \in Nat
    <3>1. e + 1 \in Nat \ {0}
      BY <1>1
    <3> QED BY <1>1, <1>4, <3>1, CountTo
  <2> QED BY <1>2, <2>2, <2>3, <2>4, <2>5, Bounds
<1>6. QED
  BY <1>5 DEF KeptIn, L

(* vaddr_to_offset finds a place from which a loaded byte comes, and one   *)
(* if there is one unless the array was too small.                         *)
LEMMA OffsetsAre ==
  ASSUME Look!OnDisk(file), LoadsTo(file, loads, Len(file.phdr) + 1), NEW v \in Nat
  PROVE  /\ Look!Offsets(v) \subseteq Look!Source(file, v)
         /\ Look!FewLoads(file) /\ Look!Source(file, v) # {} => Look!Offsets(v) # {}
<1> DEFINE C == {l \in 1 .. Len(loads) : Look!Covers(loads[l], v)}
           at0(l) == loads[l].offset + (v - loads[l].vaddr)
           first(l) == l \in C /\ \A j \in 1 .. l - 1 : ~Look!Covers(loads[j], v)
<1>1. KeptIn(file) \subseteq 1 .. Len(file.phdr) /\ Len(file.phdr) \in Nat
      /\ KeptIn(file) \subseteq Look!Segments(file, "LOAD")
  BY FileFacts DEF KeptIn, Look!Segments
<1>2. \A i \in KeptIn(file) : i < Len(file.phdr) + 1
  BY <1>1
<1>3. /\ \A l \in 1 .. Len(loads) : \E i \in KeptIn(file) : loads[l] = file.phdr[i]
      /\ \A i \in KeptIn(file) : \E l \in 1 .. Len(loads) : loads[l] = file.phdr[i]
      /\ loads \in Seq(Segment)
  BY <1>2 DEF LoadsTo
<1>4. \A i \in KeptIn(file) : Look!Covers(file.phdr[i], v) <=> v \in Look!Span(file.phdr[i])
  BY <1>1, CoversIs, FileFacts
<1>5. \A o : o \in Look!Offsets(v) <=> \E l \in 1 .. Len(loads) : first(l) /\ o = at0(l)
  BY DEF Look!Offsets
<1>6. \A l \in C : \E i \in KeptIn(file) :
        /\ loads[l] = file.phdr[i] /\ v \in Look!Span(file.phdr[i])
        /\ at0(l) = Look!Place(file.phdr[i], v)
  BY <1>3, <1>4 DEF Look!Place
<1>7. ASSUME NEW o \in Look!Offsets(v) PROVE o \in Look!Source(file, v)
  <2>1. PICK l \in 1 .. Len(loads) : l \in C /\ o = at0(l)
    BY <1>5
  <2>2. PICK i \in KeptIn(file) : /\ v \in Look!Span(file.phdr[i])
                                  /\ at0(l) = Look!Place(file.phdr[i], v)
    BY <1>6, <2>1
  <2>3. i \in Look!Segments(file, "LOAD")
    BY <1>1
  <2> QED BY <2>1, <2>2, <2>3 DEF Look!Source
<1>8. ASSUME Look!FewLoads(file), Look!Source(file, v) # {} PROVE Look!Offsets(v) # {}
  <2>1. PICK i \in KeptIn(file) : v \in Look!Span(file.phdr[i])
    BY <1>8, AllKept DEF Look!Source
  <2>2. C # {} /\ C \in SUBSET Nat
    <3>1. PICK l \in 1 .. Len(loads) : loads[l] = file.phdr[i]
      BY <1>3
    <3>2. l \in C
      BY <1>4, <2>1, <3>1
    <3> QED BY <3>2
  <2>3. PICK l \in C : \A j \in C : l <= j
    <3> HIDE DEF C
    <3> QED BY <2>2, LeastNat
  <2>4. first(l) /\ l \in 1 .. Len(loads)
    <3>1. l \in 1 .. Len(loads) /\ Len(loads) \in Nat
      BY <1>3, <2>3
    <3>2. \A j \in 1 .. l - 1 : j \in 1 .. Len(loads) /\ ~(l <= j)
      BY <3>1
    <3> QED BY <2>3, <3>1, <3>2
  <2> HIDE DEF first
  <2> QED BY <1>5, <2>4
<1>9. QED
  BY <1>7, <1>8

-----------------------------------------------------------------------------
(* What inspect_fd has read of the dynamic section before entry n.         *)
TagAt(f, tag) == {i \in 1 .. Len(f.dyn) : f.dyn[i][1] = tag}

ValueTo(f, tag, val, n) ==
  \/ (\A i \in TagAt(f, tag) : ~(i < n)) /\ val = 0
  \/ \E m \in TagAt(f, tag) :
       m < n /\ (\A i \in TagAt(f, tag) : i < n => i <= m) /\ val = f.dyn[m][2]

NeededTo(f, need, n) ==
  /\ need \in Seq(Nat)
  /\ Len(need) = LET number == NumberTo(TagAt(f, "NEEDED"), n - 1)
                 IN  IF number < MaxNeeded THEN number ELSE MaxNeeded
  /\ \A l \in 1 .. Len(need) : \E i \in TagAt(f, "NEEDED") :
       i < n /\ NumberTo(TagAt(f, "NEEDED"), i - 1) = l - 1 /\ need[l] = f.dyn[i][2]

EntriesTo(f, n) ==
  /\ n \in 1 .. Len(f.dyn) + 1
  /\ n <= Look!Extent(f) + 1 /\ n <= MaxEntries + 1
  /\ \A j \in 1 .. n - 1 : f.dyn[j][1] # "NULL"

(* The loop over the dynamic section ends in front of entry n.             *)
EntriesEnd(f, n) ==
  /\ EntriesTo(f, n)
  /\ \/ n > Look!Extent(f) \/ n > MaxEntries
     \/ n <= Len(f.dyn) /\ f.dyn[n][1] = "NULL"

LEMMA ExtentNat ==
  ASSUME NEW f, Look!OnDisk(f)
  PROVE  Look!Extent(f) \in Nat
<1> DEFINE D == Look!Segments(f, "DYNAMIC")
<1>1. CASE D = {}
  BY <1>1 DEF Look!Extent
<1>2. CASE D # {}
  <2>1. Len(f.phdr) \in Nat /\ D \in SUBSET (1 .. Len(f.phdr))
    BY FileFacts DEF Look!Segments
  <2>2. \E k \in D : \A j \in D : j <= k
    <3> HIDE DEF D
    <3> QED BY <1>2, <2>1, GreatestNat
  <2>3. Look!Last(D) \in D
    BY <2>2 DEF Look!Last
  <2>4. f.phdr[Look!Last(D)] \in Segment
    BY <2>1, <2>3, FileFacts
  <2>5. Look!Extent(f) = IF f.phdr[Look!Last(D)].offset = 0 THEN 0
                         ELSE f.phdr[Look!Last(D)].filesz
    BY <1>2 DEF Look!Extent
  <2> QED BY <2>4, <2>5 DEF Segment
<1>3. QED
  BY <1>1, <1>2

LEMMA ValueFirst ==
  ASSUME NEW f, Look!OnDisk(f)
  PROVE  /\ \A tag : ValueTo(f, tag, 0, 1)
         /\ NeededTo(f, <<>>, 1)
         /\ EntriesTo(f, 1)
<1>1. Len(f.dyn) \in Nat /\ \A i \in 1 .. Len(f.dyn) : ~(i < 1)
  BY FileFacts
<1>2. \A tag : ValueTo(f, tag, 0, 1)
  BY <1>1 DEF ValueTo, TagAt
<1>3. NumberTo(TagAt(f, "NEEDED"), 1 - 1) = 0
  <2>1. TagAt(f, "NEEDED") \in SUBSET (Nat \ {0})
    BY DEF TagAt
  <2> QED BY <2>1, NumberNone
<1>4. NeededTo(f, <<>>, 1)
  BY <1>3, Bounds DEF NeededTo
<1>5. EntriesTo(f, 1)
  BY <1>1, ExtentNat, Bounds DEF EntriesTo
<1>6. QED
  BY <1>2, <1>4, <1>5

LEMMA ValueOn ==
  ASSUME NEW f, Look!OnDisk(f), NEW n \in 1 .. Len(f.dyn), NEW tag, NEW val,
         ValueTo(f, tag, val, n)
  PROVE  ValueTo(f, tag, IF f.dyn[n][1] = tag THEN f.dyn[n][2] ELSE val, n + 1)
<1> DEFINE D == TagAt(f, tag)
<1>1. \A i \in D : i \in Nat
  BY DEF TagAt
<1>2. \A i \in D : (i < n + 1 <=> i < n \/ i = n) /\ (i < n => i <= n)
  BY <1>1
<1>3. n < n + 1 /\ n <= n
  OBVIOUS
<1>4. n \in D <=> f.dyn[n][1] = tag
  BY DEF TagAt
<1>5. CASE n \in D
  BY <1>2, <1>3, <1>4, <1>5 DEF ValueTo
<1>6. CASE n \notin D
  BY <1>2, <1>4, <1>6 DEF ValueTo
<1>7. QED
  BY <1>5, <1>6

LEMMA NeededOn ==
  ASSUME NEW f, Look!OnDisk(f), NEW n \in 1 .. Len(f.dyn), NEW need, NeededTo(f, need, n)
  PROVE  NeededTo(f, IF f.dyn[n][1] = "NEEDED" /\ Len(need) < MaxNeeded
                     THEN Append(need, f.dyn[n][2]) ELSE need, n + 1)
<1> DEFINE N == TagAt(f, "NEEDED")
           a == NumberTo(N, n - 1)
           c == NumberTo(N, n)
<1>1. N \in SUBSET Nat /\ n \in Nat \ {0} /\ (n + 1) - 1 = n
  BY DEF TagAt
<1>2. a \in Nat /\ c \in Nat /\ c = IF n \in N THEN a + 1 ELSE a
  <2> HIDE DEF N
  <2> QED BY <1>1, CountTo
<1>3. n \in N <=> f.dyn[n][1] = "NEEDED"
  BY DEF TagAt
<1>4. Len(need) = (IF a < MaxNeeded THEN a ELSE MaxNeeded) /\ Len(need) \in Nat
      /\ need \in Seq(Nat)
  BY DEF NeededTo
<1>5. \A l \in 1 .. Len(need) : \E i \in N :
        i < n /\ NumberTo(N, i - 1) = l - 1 /\ need[l] = f.dyn[i][2]
  BY DEF NeededTo
<1>6. n < n + 1 /\ \A i \in N : i < n => i < n + 1
  BY <1>1
<1>7. CASE n \in N /\ Len(need) < MaxNeeded
  <2> DEFINE new == Append(need, f.dyn[n][2])
  <2>1. a < MaxNeeded /\ Len(need) = a /\ c = a + 1
    <3> HIDE DEF a, c
    <3> QED BY <1>2, <1>4, <1>7, Bounds
  <2>2. f.dyn[n][2] \in Nat
    BY FileFacts
  <2>3. /\ new \in Seq(Nat) /\ Len(new) = Len(need) + 1
        /\ \A l \in 1 .. Len(need) : new[l] = need[l]
        /\ new[Len(need) + 1] = f.dyn[n][2]
    BY <1>4, <2>2
  <2>4. \A l \in 1 .. Len(new) : l \in 1 .. Len(need) \/ l = Len(need) + 1
    BY <1>4, <2>3
  <2>5. Len(new) = IF c < MaxNeeded THEN c ELSE MaxNeeded
    <3> HIDE DEF a, c
    <3> QED BY <1>2, <2>1, <2>3, Bounds
  <2> HIDE DEF new
  <2>6. \A l \in 1 .. Len(new) : \E i \in N :
          i < n + 1 /\ NumberTo(N, i - 1) = l - 1 /\ new[l] = f.dyn[i][2]
    <3> TAKE l \in 1 .. Len(new)
    <3>1. CASE l \in 1 .. Len(need)
      <4>1. PICK i \in N : i < n /\ NumberTo(N, i - 1) = l - 1 /\ need[l] = f.dyn[i][2]
        BY <1>5, <3>1
      <4> QED BY <1>6, <2>3, <3>1, <4>1
    <3>2. CASE l = Len(need) + 1
      <4>1. NumberTo(N, n - 1) = l - 1
        BY <1>4, <2>1, <3>2
      <4> QED BY <1>6, <1>7, <2>3, <3>2, <4>1
    <3> QED BY <2>4, <3>1, <3>2
  <2>7. NeededTo(f, new, n + 1)
    BY <1>1, <2>3, <2>5, <2>6 DEF NeededTo
  <2> QED BY <1>3, <1>7, <2>7 DEF new
<1>8. CASE ~(n \in N /\ Len(need) < MaxNeeded)
  <2>1. Len(need) = IF c < MaxNeeded THEN c ELSE MaxNeeded
    <3> HIDE DEF a, c
    <3> QED BY <1>2, <1>4, <1>8, Bounds
  <2>2. \A l \in 1 .. Len(need) : \E i \in N :
          i < n + 1 /\ NumberTo(N, i - 1) = l - 1 /\ need[l] = f.dyn[i][2]
    BY <1>5, <1>6
  <2>3. NeededTo(f, need, n + 1)
    BY <1>1, <1>4, <2>1, <2>2 DEF NeededTo
  <2> QED BY <1>3, <1>8, <2>3
<1>9. QED
  BY <1>7, <1>8

(* Where the loop ends, what has been read of a section that is not too    *)
(* long is what the file says.                                             *)
LEMMA TaggedAre ==
  ASSUME NEW f, Look!OnDisk(f), Look!ShortDynamic(f), NEW n, EntriesEnd(f, n), NEW tag
  PROVE  Look!Tagged(f, tag) = {i \in TagAt(f, tag) : i < n}
<1>1. Len(f.dyn) \in Nat /\ Look!Extent(f) \in Nat /\ MaxEntries \in Nat /\ n \in Nat
  BY FileFacts, ExtentNat, Bounds DEF EntriesEnd, EntriesTo
<1>2. ASSUME NEW i \in Look!Tagged(f, tag) PROVE i \in TagAt(f, tag) /\ i < n
  <2>1. /\ i \in 1 .. Len(f.dyn) /\ i <= Look!Extent(f)
        /\ f.dyn[i][1] = tag /\ \A j \in 1 .. i : f.dyn[j][1] # "NULL"
    BY DEF Look!Tagged
  <2>2. i <= MaxEntries
    <3>1. CASE Look!Extent(f) <= MaxEntries
      BY <1>1, <2>1, <3>1
    <3>2. CASE \E k \in 1 .. Len(f.dyn) : k <= MaxEntries /\ f.dyn[k][1] = "NULL"
      <4>1. PICK k \in 1 .. Len(f.dyn) : k <= MaxEntries /\ f.dyn[k][1] = "NULL"
        BY <3>2
      <4>2. k <= i => k \in 1 .. i
        BY <1>1, <2>1
      <4>3. ~(k <= i)
        BY <2>1, <4>1, <4>2
      <4> QED BY <1>1, <2>1, <4>1, <4>3
    <3> QED BY <3>1, <3>2 DEF Look!ShortDynamic
  <2>3. n <= i => n \in 1 .. i
    BY <1>1, <2>1 DEF EntriesEnd, EntriesTo
  <2>4. ~(n <= i)
    BY <1>1, <2>1, <2>2, <2>3 DEF EntriesEnd
  <2> QED BY <1>1, <2>1, <2>4 DEF TagAt
<1>3. ASSUME NEW i \in TagAt(f, tag), i < n PROVE i \in Look!Tagged(f, tag)
  <2>1. i \in 1 .. Len(f.dyn) /\ f.dyn[i][1] = tag
    BY DEF TagAt
  <2>2. n <= Look!Extent(f) + 1 /\ \A j \in 1 .. n - 1 : f.dyn[j][1] # "NULL"
    BY DEF EntriesEnd, EntriesTo
  <2>3. i <= Look!Extent(f) /\ \A j \in 1 .. i : j \in 1 .. n - 1
    BY <1>1, <1>3, <2>1, <2>2
  <2> QED BY <2>1, <2>2, <2>3 DEF Look!Tagged
<1>4. QED
  BY <1>2, <1>3

LEMMA ValueAll ==
  ASSUME NEW f, Look!OnDisk(f), Look!ShortDynamic(f), NEW n, EntriesEnd(f, n), NEW tag, NEW val,
         ValueTo(f, tag, val, n)
  PROVE  val = Look!Value(f, tag) /\ val \in Nat
<1> DEFINE T == Look!Tagged(f, tag)
<1>1. T = {i \in TagAt(f, tag) : i < n}
  BY TaggedAre
<1>2. \A i \in TagAt(f, tag) : i \in 1 .. Len(f.dyn)
  BY DEF TagAt
<1>3. CASE (\A i \in TagAt(f, tag) : ~(i < n)) /\ val = 0
  BY <1>1, <1>3 DEF Look!Value
<1>4. CASE \E m \in TagAt(f, tag) :
             m < n /\ (\A i \in TagAt(f, tag) : i < n => i <= m) /\ val = f.dyn[m][2]
  <2>1. PICK m \in TagAt(f, tag) :
             m < n /\ (\A i \in TagAt(f, tag) : i < n => i <= m) /\ val = f.dyn[m][2]
    BY <1>4
  <2>2. m \in T /\ (\A j \in T : j <= m) /\ T \in SUBSET Nat
    BY <1>1, <1>2, <2>1
  <2>3. Look!Last(T) = m
    <3> HIDE DEF T
    <3> QED BY <2>2, LastOf
  <2>4. f.dyn[m] \in STRING \X Nat
    BY <1>2, FileFacts
  <2>5. Look!Value(f, tag) = f.dyn[m][2]
    BY <2>2, <2>3 DEF Look!Value
  <2> QED BY <2>1, <2>4, <2>5
<1>5. QED
  BY <1>3, <1>4 DEF ValueTo

(* The names that are kept are the first ones, in their order.             *)
LEMMA NamesAre ==
  ASSUME NEW f, Look!OnDisk(f), Look!ShortDynamic(f), NEW n, EntriesEnd(f, n),
         NEW need, NeededTo(f, need, n)
  PROVE  /\ \A l \in 1 .. Len(need) : \E i \in Look!Tagged(f, "NEEDED") : need[l] = f.dyn[i][2]
         /\ Len(need) \in {Len(Look!Names(f)), MaxNeeded} /\ Len(need) <= Len(Look!Names(f))
         /\ Len(need) \in Nat /\ Len(Look!Names(f)) \in Nat
         /\ DOMAIN Look!Names(f) = 1 .. Len(Look!Names(f))
         /\ \A l \in 1 .. Len(need) : Look!Names(f)[l] = Look!NameAt(f, need[l])
<1> DEFINE T == Look!Tagged(f, "NEEDED")
           N == TagAt(f, "NEEDED")
           nth(l) == CHOOSE i \in T : Look!Rank(T, i) = l - 1
           number == Cardinality(T)
<1>1. T = {i \in N : i < n} /\ N \in SUBSET Nat /\ n \in Nat \ {0}
  <2>1. n \in Nat \ {0}
    BY FileFacts DEF EntriesEnd, EntriesTo
  <2>2. N \in SUBSET Nat
    BY DEF TagAt
  <2> QED BY <2>1, <2>2, TaggedAre
<1>2. T = {i \in N : i <= n - 1} /\ T \in SUBSET Nat
  <2>1. \A i \in Nat : i < n <=> i <= n - 1
    BY <1>1
  <2> HIDE DEF N, T
  <2> QED BY <1>1, <2>1
<1>3. number = NumberTo(N, n - 1)
  BY <1>2 DEF NumberTo
<1>4. \A i \in T : Look!Rank(T, i) = NumberTo(N, i - 1) /\ i \in N /\ i \in Nat \ {0}
  <2> TAKE i \in T
  <2>1. i \in N /\ i \in Nat \ {0} /\ i < n
    BY <1>1 DEF TagAt
  <2>2. {j \in T : j < i} = {j \in N : j < i}
    <3>1. \A j \in Nat : j < i => j < n
      BY <1>1, <2>1
    <3> HIDE DEF N, T
    <3> QED BY <1>1, <3>1
  <2>3. Look!Rank(T, i) = Look!Rank(N, i)
    BY <2>2 DEF Look!Rank
  <2>4. Look!Rank(N, i) = NumberTo(N, i - 1)
    <3> HIDE DEF N
    <3> QED BY <1>1, <2>1, NumberBefore
  <2> QED BY <2>1, <2>3, <2>4
<1>5. Len(need) = (IF number < MaxNeeded THEN number ELSE MaxNeeded)
  BY <1>3 DEF NeededTo
<1>6. ASSUME NEW l \in 1 .. Len(need)
      PROVE  nth(l) \in T /\ need[l] = f.dyn[nth(l)][2]
  <2>1. PICK i \in N : i < n /\ NumberTo(N, i - 1) = l - 1 /\ need[l] = f.dyn[i][2]
    BY DEF NeededTo
  <2>2. i \in T /\ Look!Rank(T, i) = l - 1
    BY <1>1, <1>4, <2>1
  <2>3. nth(l) \in T /\ Look!Rank(T, nth(l)) = l - 1
    BY <2>2
  <2> DEFINE k == nth(l)
  <2>4. k \in N /\ k \in Nat /\ i \in Nat /\ NumberTo(N, k - 1) = l - 1
    BY <1>1, <1>4, <2>2, <2>3
  <2> HIDE DEF k
  <2>5. ~(i < k) /\ ~(k < i)
    <3>1. l - 1 \in Int
      OBVIOUS
    <3>2. ~(l - 1 < l - 1)
      BY <3>1
    <3> HIDE DEF N
    <3> QED BY <1>1, <2>1, <2>4, <3>2, NumberGrows
  <2>6. i = k
    BY <2>4, <2>5
  <2> QED BY <2>1, <2>3, <2>6 DEF k
<1>7. Look!Names(f) = [l \in 1 .. number |-> Look!NameAt(f, f.dyn[nth(l)][2])]
  BY SameCardinality DEF Look!Names
<1>8. number \in Nat /\ Len(need) \in Nat
  <2> HIDE DEF N
  <2> QED BY <1>1, <1>3, CountTo DEF NeededTo
<1> HIDE DEF T, number, nth
<1>9. Len(Look!Names(f)) = number /\ DOMAIN Look!Names(f) = 1 .. number
  <2> DEFINE name(l) == Look!NameAt(f, f.dyn[nth(l)][2])
  <2> HIDE DEF name
  <2>1. Len([l \in 1 .. number |-> name(l)]) = number
    BY <1>8
  <2> QED BY <1>7, <2>1 DEF name
<1>10. \A l \in 1 .. Len(need) : l \in 1 .. number
  BY <1>5, <1>8, Bounds
<1>11. \A l \in 1 .. Len(need) : Look!Names(f)[l] = Look!NameAt(f, need[l])
  <2> TAKE l \in 1 .. Len(need)
  <2>1. Look!Names(f)[l] = Look!NameAt(f, f.dyn[nth(l)][2])
    BY <1>7, <1>10
  <2> QED BY <1>6, <2>1
<1>12. Len(need) \in {number, MaxNeeded} /\ Len(need) <= number
  BY <1>5, <1>8, Bounds
<1>13. \A l \in 1 .. Len(need) : \E i \in T : need[l] = f.dyn[i][2]
  BY <1>6
<1>14. QED
  BY <1>8, <1>9, <1>11, <1>12, <1>13 DEF T

(* The e bytes from offset g on.                                           *)
BytesFrom(bytes, g, e) == [i \in 1 .. e |-> bytes[g + (i - 1)]]

(* print_string_from_file stops at the first zero byte.                    *)
LEMMA StringFound ==
  ASSUME NEW bytes, NEW g \in Nat, NEW z \in Nat, NEW e \in 0 .. z, bytes[g + e] = 0,
         \A m \in 0 .. e - 1 : g + m \in DOMAIN bytes /\ bytes[g + m] # 0
  PROVE  Look!StringAt(bytes, g, z) = BytesFrom(bytes, g, e)
<1> DEFINE stops(i) == i = g + z \/ i \notin DOMAIN bytes \/ bytes[i] = 0
           ends(i) == stops(i) /\ \A j \in g .. i - 1 : ~stops(j)
           end == CHOOSE i \in g .. g + z : ends(i)
<1>1. \A j \in g .. (g + e) - 1 : ~stops(j)
  <2> TAKE j \in g .. (g + e) - 1
  <2>1. j - g \in 0 .. e - 1 /\ g + (j - g) = j /\ j # g + z
    OBVIOUS
  <2>2. j \in DOMAIN bytes /\ bytes[j] # 0
    BY <2>1
  <2> QED BY <2>1, <2>2
<1>2. stops(g + e) /\ g + e \in g .. g + z
  OBVIOUS
<1>3. ends(g + e)
  BY <1>1, <1>2
<1>4. \A i \in g .. g + z : ends(i) => i = g + e
  <2> TAKE i \in g .. g + z
  <2> HAVE ends(i)
  <2>1. i < g + e => i \in g .. (g + e) - 1
    OBVIOUS
  <2>2. i > g + e => g + e \in g .. i - 1
    OBVIOUS
  <2>3. ~(i < g + e) /\ ~(i > g + e)
    BY <1>1, <1>2, <2>1, <2>2
  <2> QED BY <2>3
<1>5. end = g + e
  <2> HIDE DEF ends
  <2> QED BY <1>2, <1>3, <1>4
<1>6. Look!StringAt(bytes, g, z) = [i \in 1 .. end - g |-> bytes[g + (i - 1)]]
  BY DEF Look!StringAt
<1>7. end - g = e
  <2> HIDE DEF end
  <2> QED BY <1>5
<1>8. QED
  <2> HIDE DEF end
  <2> QED BY <1>6, <1>7 DEF BytesFrom

(* A program that reads the name from memory stops there, too.             *)
NameEnds(f, v, g, e) ==
  /\ g \in Nat /\ Look!Value(f, "STRSZ") \in Nat /\ e \in 0 .. Look!Value(f, "STRSZ")
  /\ \A m \in 0 .. e :
       Look!ByteAt(f, (Look!Value(f, "STRTAB") + v) + m) = {f.bytes[g + m]}
  /\ f.bytes[g + e] = 0
  /\ \A m \in 0 .. e - 1 : f.bytes[g + m] # 0

LEMMA NameFound ==
  ASSUME NEW f, NEW v, NEW g, NEW e, NameEnds(f, v, g, e)
  PROVE  Look!NameAt(f, v) = BytesFrom(f.bytes, g, e)
<1> DEFINE z == Look!Value(f, "STRSZ")
           start == Look!Value(f, "STRTAB") + v
           ends(n) == /\ Look!ByteAt(f, start + n) = {0}
                      /\ \A i \in 0 .. n - 1 : Look!ByteAt(f, start + i) # {0}
           len == CHOOSE n \in 0 .. z : ends(n)
<1>0. /\ g \in Nat /\ z \in Nat /\ e \in 0 .. z /\ f.bytes[g + e] = 0
      /\ \A m \in 0 .. e : Look!ByteAt(f, start + m) = {f.bytes[g + m]}
      /\ \A m \in 0 .. e - 1 : f.bytes[g + m] # 0
  BY DEF NameEnds
<1> HIDE DEF start, z
<1>1. \A m \in 0 .. e - 1 : m \in 0 .. e /\ Look!ByteAt(f, start + m) # {0}
  <2> TAKE m \in 0 .. e - 1
  <2>1. m \in 0 .. e
    BY <1>0
  <2>2. Look!ByteAt(f, start + m) = {f.bytes[g + m]} /\ f.bytes[g + m] # 0
    BY <1>0, <2>1
  <2> QED BY <2>1, <2>2
<1>2. e \in 0 .. e /\ Look!ByteAt(f, start + e) = {0}
  <2>1. e \in 0 .. e
    BY <1>0
  <2> QED BY <1>0, <2>1
<1>3. ends(e)
  BY <1>1, <1>2
<1>4. \A n \in 0 .. z : ends(n) => n = e
  <2> TAKE n \in 0 .. z
  <2> HAVE ends(n)
  <2>0. n \in Nat /\ e \in Nat
    BY <1>0
  <2>1. n < e => n \in 0 .. e - 1
    BY <2>0
  <2>2. n > e => e \in 0 .. n - 1
    BY <2>0
  <2>3. ~(n < e) /\ ~(n > e)
    BY <1>1, <1>2, <2>1, <2>2
  <2> QED BY <2>0, <2>3
<1>5. len = e
  <2> HIDE DEF ends
  <2> QED BY <1>0, <1>3, <1>4
<1>6. Look!NameAt(f, v) = [i \in 1 .. len |-> CHOOSE b \in Look!ByteAt(f, start + (i - 1)) : TRUE]
  BY DEF Look!NameAt, start, z
<1>7. \A i \in 1 .. e : (CHOOSE b \in Look!ByteAt(f, start + (i - 1)) : TRUE) = f.bytes[g + (i - 1)]
  <2> TAKE i \in 1 .. e
  <2>1. i - 1 \in 0 .. e
    BY <1>0
  <2>2. Look!ByteAt(f, start + (i - 1)) = {f.bytes[g + (i - 1)]}
    BY <1>0, <2>1
  <2> QED BY <2>2
<1> HIDE DEF len
<1>8. QED
  BY <1>5, <1>6, <1>7 DEF BytesFrom

LEMMA ValueNat ==
  ASSUME NEW f, Look!OnDisk(f), NEW tag
  PROVE  Look!Value(f, tag) \in Nat
<1> DEFINE T == Look!Tagged(f, tag)
<1>1. CASE T = {}
  BY <1>1 DEF Look!Value
<1>2. CASE T # {}
  <2>1. Len(f.dyn) \in Nat /\ T \in SUBSET (1 .. Len(f.dyn))
    BY FileFacts DEF Look!Tagged
  <2>2. \E k \in T : \A j \in T : j <= k
    <3> HIDE DEF T
    <3> QED BY <1>2, <2>1, GreatestNat
  <2>3. Look!Last(T) \in T
    BY <2>2 DEF Look!Last
  <2>4. f.dyn[Look!Last(T)] \in STRING \X Nat
    BY <2>1, <2>3, FileFacts
  <2> QED BY <1>2, <2>4 DEF Look!Value
<1>3. QED
  BY <1>1, <1>2

(* --list reads the name from the file that the program finds in memory.   *)
LEMMA NameRead ==
  ASSUME NEW f, Look!OnDisk(f), Look!Loadable(f), NEW i \in Look!Tagged(f, "NEEDED"),
         NEW o \in Look!Source(f, Look!Value(f, "STRTAB"))
  PROVE  Look!StringAt(f.bytes, o + f.dyn[i][2], Look!Value(f, "STRSZ"))
           = Look!NameAt(f, f.dyn[i][2])
<1> DEFINE s == Look!Value(f, "STRTAB")
           z == Look!Value(f, "STRSZ")
           v == f.dyn[i][2]
<1>1. s \in Nat /\ z \in Nat /\ v \in Nat
  <2>1. i \in 1 .. Len(f.dyn)
    BY DEF Look!Tagged
  <2>2. f.dyn[i] \in STRING \X Nat
    BY <2>1, FileFacts
  <2> QED BY <2>2, ValueNat
<1>2. PICK k \in Look!Segments(f, "LOAD"), n \in 0 .. z :
        /\ s \in Look!Span(f.phdr[k]) /\ s + v + n \in Look!Span(f.phdr[k])
        /\ f.bytes[Look!Place(f.phdr[k], s + v + n)] = 0
  <2>1. Look!Closed(f, v)
    BY DEF Look!Loadable
  <2> QED BY <2>1 DEF Look!Closed
<1> DEFINE p == f.phdr[k]
<1>3. p \in Segment
  BY FileFacts DEF Look!Segments
<1>4. p.offset .. p.offset + p.filesz - 1 \subseteq DOMAIN f.bytes
  BY DEF Look!Loadable
<1>5. o = Look!Place(p, s)
  BY <1>2, SourceOne
<1>6. \A a \in Look!Span(p) : Look!ByteAt(f, a) = {f.bytes[Look!Place(p, a)]}
  <2> TAKE a \in Look!Span(p)
  <2>1. Look!Source(f, a) = {Look!Place(p, a)}
    BY SourceOne
  <2> QED BY <2>1 DEF Look!ByteAt
<1> HIDE DEF s, z, v, p
<1>7. p.offset \in Nat /\ p.vaddr \in Nat /\ p.filesz \in Nat
  BY <1>3 DEF Segment
<1> DEFINE g == o + v
<1>8. o \in Nat /\ g \in Nat /\ o = p.offset + (s - p.vaddr)
  BY <1>1, <1>2, <1>5, <1>7 DEF Look!Place, Look!Span, p
<1>9. \A m \in 0 .. n : /\ (s + v) + m \in Look!Span(p)
                        /\ Look!Place(p, (s + v) + m) = g + m
                        /\ g + m \in DOMAIN f.bytes
  <2> TAKE m \in 0 .. n
  <2>1. n \in Nat /\ m \in Nat /\ m <= n
    BY <1>1
  <2>2. s \in Nat /\ p.vaddr <= s /\ s + v + n <= p.vaddr + p.filesz - 1
    BY <1>1, <1>2 DEF Look!Span, p
  <2>3. (s + v) + m \in Look!Span(p)
    BY <1>1, <1>7, <2>1, <2>2 DEF Look!Span
  <2>4. Look!Place(p, (s + v) + m) = g + m
    BY <1>1, <1>7, <1>8, <2>1 DEF Look!Place
  <2>5. g + m \in p.offset .. p.offset + p.filesz - 1
    BY <1>1, <1>7, <1>8, <2>1, <2>2
  <2> QED BY <1>4, <2>3, <2>4, <2>5
<1>10. \A m \in 0 .. n : Look!ByteAt(f, (s + v) + m) = {f.bytes[g + m]}
  BY <1>6, <1>9
<1>11. n \in 0 .. n /\ f.bytes[g + n] = 0
  <2>1. n \in 0 .. n
    BY <1>1
  <2>2. s + v + n = (s + v) + n
    BY <1>1, <2>1
  <2> QED BY <1>2, <1>9, <2>1, <2>2 DEF p
<1> HIDE DEF g
<1>12. PICK e \in 0 .. n : f.bytes[g + e] = 0 /\ \A m \in 0 .. e - 1 : f.bytes[g + m] # 0
  <2> DEFINE M == {m \in 0 .. n : f.bytes[g + m] = 0}
  <2>1. M \in SUBSET Nat /\ M # {}
    BY <1>11
  <2>2. PICK e \in M : \A m \in M : e <= m
    <3> HIDE DEF M
    <3> QED BY <2>1, LeastNat
  <2>3. n \in Nat /\ e \in 0 .. n /\ f.bytes[g + e] = 0
    BY <1>1, <2>2
  <2>4. \A m \in 0 .. e - 1 : m \in 0 .. n /\ ~(e <= m)
    BY <2>3
  <2> QED BY <2>2, <2>3, <2>4
<1>13. n \in Nat /\ e \in 0 .. z /\ \A m \in 0 .. e : m \in 0 .. n
  BY <1>1
<1>14. \A m \in 0 .. e - 1 : m \in 0 .. n
  BY <1>13
<1>15. Look!StringAt(f.bytes, g, z) = BytesFrom(f.bytes, g, e)
  <2>1. \A m \in 0 .. e - 1 : g + m \in DOMAIN f.bytes /\ f.bytes[g + m] # 0
    BY <1>9, <1>12, <1>14
  <2>2. g \in Nat /\ z \in Nat /\ e \in 0 .. z /\ f.bytes[g + e] = 0
    BY <1>1, <1>8, <1>12, <1>13
  <2> QED BY <2>1, <2>2, StringFound
<1>16. Look!NameAt(f, v) = BytesFrom(f.bytes, g, e)
  <2>1. \A m \in 0 .. e : Look!ByteAt(f, (Look!Value(f, "STRTAB") + v) + m) = {f.bytes[g + m]}
    BY <1>10, <1>13 DEF s
  <2>2. /\ g \in Nat /\ Look!Value(f, "STRSZ") \in Nat
        /\ e \in 0 .. Look!Value(f, "STRSZ")
    BY <1>1, <1>8, <1>13 DEF z
  <2>3. f.bytes[g + e] = 0 /\ \A m \in 0 .. e - 1 : f.bytes[g + m] # 0
    BY <1>12
  <2>4. NameEnds(f, v, g, e)
    BY <2>1, <2>2, <2>3 DEF NameEnds
  <2> QED BY <2>4, NameFound
<1>17. QED
  BY <1>15, <1>16 DEF g, v, z

-----------------------------------------------------------------------------
(* The inductive invariant of inspect_fd and list.                         *)

HeaderGood == file.header = "ok" /\ file.phnum \in 1 .. MaxPhdrs

PhdrsPart ==
  step = "phdrs" =>
    /\ HeaderGood
    /\ pos \in 1 .. Len(file.phdr) + 1
    /\ LoadsTo(file, loads, pos) /\ DynamicTo(file, dynamic, pos)
    /\ needed = <<>> /\ strtab = 0 /\ strsz = 0

DynamicPart ==
  step = "dynamic" =>
    /\ HeaderGood
    /\ Len(file.phdr) = file.phnum /\ Look!Extent(file) > 0
    /\ LoadsTo(file, loads, Len(file.phdr) + 1) /\ dynamic.size = Look!Extent(file)
    /\ EntriesTo(file, pos) /\ NeededTo(file, needed, pos)
    /\ ValueTo(file, "STRTAB", strtab, pos) /\ ValueTo(file, "STRSZ", strsz, pos)

NamesPart ==
  step = "names" =>
    /\ LoadsTo(file, loads, Len(file.phdr) + 1) /\ file.stays
    /\ \E n \in Nat : EntriesEnd(file, n) /\ NeededTo(file, needed, n)
    /\ pos \in 1 .. Len(needed) + 1
    /\ Look!ShortDynamic(file) =>
         /\ Look!Sound(file)
         /\ strtab = Look!Value(file, "STRTAB") /\ strsz = Look!Value(file, "STRSZ")
         /\ Look!Loadable(file) =>
              printed = [l \in 1 .. pos - 1 |-> Look!NameAt(file, needed[l])]

(* What the last clause of Inspected says of the names.                    *)
Printed(f, out) ==
  /\ out = SubSeq(Look!Names(f), 1, Len(out))
  /\ Len(out) \in {Len(Look!Names(f)), MaxNeeded}

(* What Inspected asks of an answer.                                       *)
Justified(f, code, checking) ==
  Look!ShortDynamic(f) =>
    /\ code = 0 => Look!Sound(f)
    /\ Look!Sound(f) /\ Look!FewLoads(f) /\ (checking \/ f.stays) => code = 0

DonePart ==
  step = "done" =>
    /\ verdict \in {0, 1}
    /\ pc = "inspect" => Justified(file, verdict, ArgKind[mem[1 + index]] = "verify")
    /\ pc = "inspect" /\ verdict = 0 /\ ArgKind[mem[1 + index]] = "list"
         /\ Look!ShortDynamic(file) /\ Look!Loadable(file) => Printed(file, printed)

LookInv ==
  /\ Look!OnDisk(file)
  /\ step \in {"header", "phdrs", "dynamic", "names", "done"}
  /\ step # "done" => verdict = 2
  /\ step \notin {"names", "done"} => printed = <<>>
  /\ step = "header" => /\ pos = 1 /\ loads = <<>> /\ needed = <<>>
                        /\ dynamic = [offset |-> 0, size |-> 0]
                        /\ strtab = 0 /\ strsz = 0
  /\ PhdrsPart /\ DynamicPart /\ NamesPart /\ DonePart
  /\ pc \notin {"inspect", "exit"} => step = "header"

LEMMA LookInit == RtldInit => LookInv
<1> SUFFICES ASSUME RtldInit PROVE LookInv
  OBVIOUS
<1>1. PICK s \in Start : Init(s[1]) /\ Look!Init(s[3])
  BY DEF RtldInit
<1>2. Look!OnDisk(s[3])
  BY FileAssumption
<1>3. /\ file = s[3] /\ step = "header" /\ pos = 1 /\ loads = <<>> /\ needed = <<>>
      /\ dynamic = [offset |-> 0, size |-> 0] /\ strtab = 0 /\ strsz = 0 /\ printed = <<>>
      /\ verdict = 2
  BY <1>1 DEF Look!Init
<1>4. QED
  BY <1>2, <1>3 DEF LookInv, PhdrsPart, DynamicPart, NamesPart, DonePart

LEMMA Answered ==
  ASSUME LookInv, UNCHANGED vars, pc = "inspect", step # "done", NEW code \in {0, 1},
         Look!Verdict(code), Justified(file, code, ArgKind[mem[1 + index]] = "verify"),
         code = 0 /\ ArgKind[mem[1 + index]] = "list" /\ Look!ShortDynamic(file)
           /\ Look!Loadable(file) => Printed(file, printed)
  PROVE  LookInv'
<1>1. /\ file' = file /\ step' = "done" /\ verdict' = code /\ printed' = printed
      /\ pc' = pc /\ mem' = mem /\ index' = index
  BY DEF Look!Verdict, vars
<1>2. DonePart'
  BY <1>1 DEF DonePart
<1>3. QED
  BY <1>1, <1>2 DEF LookInv, PhdrsPart, DynamicPart, NamesPart

(* A file that is not sound is refused.                                    *)
LEMMA Refused ==
  ASSUME LookInv, UNCHANGED vars, pc = "inspect", step # "done", Look!Verdict(1),
         ~Look!Sound(file)
  PROVE  LookInv'
<1>1. Justified(file, 1, ArgKind[mem[1 + index]] = "verify")
  BY DEF Justified
<1>2. QED
  BY <1>1, Answered

LEMMA HeaderStep ==
  ASSUME LookInv, UNCHANGED vars, pc = "inspect", Look!InspectHeader
  PROVE  LookInv'
<1>1. step = "header" /\ pos = 1 /\ loads = <<>> /\ needed = <<>> /\ strtab = 0 /\ strsz = 0
      /\ dynamic = [offset |-> 0, size |-> 0]
  BY DEF Look!InspectHeader, LookInv
<1>2. CASE ~HeaderGood
  <2>1. Look!Verdict(1) /\ ~Look!Sound(file)
    BY <1>2 DEF Look!InspectHeader, HeaderGood, Look!Sound
  <2> QED BY <1>1, <2>1, Refused
<1>3. CASE HeaderGood
  <2>1. Look!Goto("phdrs")
    BY <1>3 DEF Look!InspectHeader, HeaderGood
  <2>2. /\ step' = "phdrs" /\ pos' = 1 /\ file' = file /\ loads' = loads /\ dynamic' = dynamic
        /\ needed' = needed /\ strtab' = strtab /\ strsz' = strsz /\ printed' = printed
        /\ verdict' = verdict /\ pc' = pc
    BY <2>1 DEF Look!Goto, vars
  <2>3. LoadsTo(file, <<>>, 1) /\ DynamicTo(file, [offset |-> 0, size |-> 0], 1)
        /\ 1 \in 1 .. Len(file.phdr) + 1
    BY LoadsFirst, FileFacts DEF LookInv
  <2>4. PhdrsPart'
    BY <1>1, <1>3, <2>2, <2>3 DEF PhdrsPart, HeaderGood
  <2> QED BY <1>1, <2>2, <2>4 DEF LookInv, DynamicPart, NamesPart, DonePart
<1>4. QED
  BY <1>2, <1>3

LEMMA ReadPhdrStep ==
  ASSUME LookInv, UNCHANGED vars, pc = "inspect", Look!ReadPhdr
  PROVE  LookInv'
<1>1. step = "phdrs" /\ pos <= file.phnum /\ Look!OnDisk(file)
  BY DEF Look!ReadPhdr, LookInv
<1>2. /\ HeaderGood
      /\ pos \in 1 .. Len(file.phdr) + 1
      /\ LoadsTo(file, loads, pos) /\ DynamicTo(file, dynamic, pos)
      /\ needed = <<>> /\ strtab = 0 /\ strsz = 0
  BY <1>1 DEF LookInv, PhdrsPart
<1>3. Len(file.phdr) \in Nat /\ file.phnum \in Nat /\ Len(file.phdr) <= file.phnum
  BY <1>1, FileFacts
<1>4. CASE pos > Len(file.phdr)
  <2>1. Look!Verdict(1)
    BY <1>4 DEF Look!ReadPhdr
  <2>2. Len(file.phdr) # file.phnum
    BY <1>1, <1>2, <1>3, <1>4
  <2>3. ~Look!Sound(file)
    BY <2>2 DEF Look!Sound
  <2> QED BY <1>1, <2>1, <2>3, Refused
<1>5. CASE ~(pos > Len(file.phdr))
  <2> DEFINE p == file.phdr[pos]
  <2>1. /\ loads' = IF p.type = "LOAD" /\ Len(loads) < MaxLoads THEN Append(loads, p) ELSE loads
        /\ dynamic' = IF p.type = "DYNAMIC" THEN [offset |-> p.offset, size |-> p.filesz]
                      ELSE dynamic
        /\ pos' = pos + 1
        /\ file' = file /\ step' = step /\ needed' = needed /\ strtab' = strtab
        /\ strsz' = strsz /\ printed' = printed /\ verdict' = verdict /\ pc' = pc
    BY <1>5 DEF Look!ReadPhdr, vars
  <2>2. pos \in 1 .. Len(file.phdr) /\ pos + 1 \in 1 .. Len(file.phdr) + 1
    BY <1>2, <1>3, <1>5
  <2>3. LoadsTo(file, loads', pos + 1)
    BY <1>1, <1>2, <2>1, <2>2, LoadsOn
  <2>4. DynamicTo(file, dynamic', pos + 1)
    BY <1>1, <1>2, <2>1, <2>2, DynamicOn
  <2>5. PhdrsPart'
    BY <1>2, <2>1, <2>2, <2>3, <2>4 DEF PhdrsPart, HeaderGood
  <2> QED BY <1>1, <2>1, <2>5 DEF LookInv, DynamicPart, NamesPart, DonePart
<1>6. QED
  BY <1>4, <1>5

LEMMA EndPhdrsStep ==
  ASSUME LookInv, UNCHANGED vars, pc = "inspect", Look!EndPhdrs
  PROVE  LookInv'
<1>1. step = "phdrs" /\ pos > file.phnum /\ Look!OnDisk(file)
  BY DEF Look!EndPhdrs, LookInv
<1>2. /\ HeaderGood
      /\ pos \in 1 .. Len(file.phdr) + 1
      /\ LoadsTo(file, loads, pos) /\ DynamicTo(file, dynamic, pos)
      /\ needed = <<>> /\ strtab = 0 /\ strsz = 0
  BY <1>1 DEF LookInv, PhdrsPart
<1>3. Len(file.phdr) \in Nat /\ file.phnum \in Nat /\ Len(file.phdr) <= file.phnum
  BY <1>1, FileFacts
<1>4. pos = Len(file.phdr) + 1 /\ Len(file.phdr) = file.phnum
  BY <1>1, <1>2, <1>3
<1>5. /\ dynamic.size \in Nat
      /\ Look!Extent(file) = IF dynamic.offset = 0 THEN 0 ELSE dynamic.size
  BY <1>1, <1>2, <1>4, DynamicAll
<1>6. CASE dynamic.offset = 0 \/ dynamic.size = 0
  <2>1. Look!Verdict(1)
    BY <1>6 DEF Look!EndPhdrs
  <2>2. ~(Look!Extent(file) > 0)
    BY <1>5, <1>6
  <2>3. ~Look!Sound(file)
    BY <2>2 DEF Look!Sound
  <2> QED BY <1>1, <2>1, <2>3, Refused
<1>7. CASE ~(dynamic.offset = 0 \/ dynamic.size = 0)
  <2>1. Look!Goto("dynamic")
    BY <1>7 DEF Look!EndPhdrs
  <2>2. /\ step' = "dynamic" /\ pos' = 1 /\ file' = file /\ loads' = loads /\ dynamic' = dynamic
        /\ needed' = needed /\ strtab' = strtab /\ strsz' = strsz /\ printed' = printed
        /\ verdict' = verdict /\ pc' = pc
    BY <2>1 DEF Look!Goto, vars
  <2>3. Look!Extent(file) > 0
    BY <1>5, <1>7
  <2>4. /\ ValueTo(file, "STRTAB", 0, 1) /\ ValueTo(file, "STRSZ", 0, 1)
        /\ NeededTo(file, <<>>, 1) /\ EntriesTo(file, 1)
    BY <1>1, ValueFirst
  <2>5. dynamic.size = Look!Extent(file)
    BY <1>5, <1>7
  <2>6. DynamicPart'
    BY <1>2, <1>4, <2>2, <2>3, <2>4, <2>5 DEF DynamicPart, HeaderGood
  <2> QED BY <1>1, <2>2, <2>6 DEF LookInv, PhdrsPart, NamesPart, DonePart
<1>8. QED
  BY <1>6, <1>7

LEMMA ReadDynStep ==
  ASSUME LookInv, UNCHANGED vars, pc = "inspect", Look!ReadDyn
  PROVE  LookInv'
<1>1. step = "dynamic" /\ pos <= dynamic.size /\ pos <= MaxEntries /\ Look!OnDisk(file)
  BY DEF Look!ReadDyn, Look!InDynamic, LookInv
<1>2. /\ HeaderGood
      /\ Len(file.phdr) = file.phnum /\ Look!Extent(file) > 0
      /\ LoadsTo(file, loads, Len(file.phdr) + 1) /\ dynamic.size = Look!Extent(file)
      /\ EntriesTo(file, pos) /\ NeededTo(file, needed, pos)
      /\ ValueTo(file, "STRTAB", strtab, pos) /\ ValueTo(file, "STRSZ", strsz, pos)
  BY <1>1 DEF LookInv, DynamicPart
<1>3. /\ pos \in 1 .. Len(file.dyn) + 1 /\ Len(file.dyn) \in Nat
      /\ Look!Extent(file) \in Nat /\ MaxEntries \in Nat
      /\ \A j \in 1 .. pos - 1 : file.dyn[j][1] # "NULL"
  BY <1>1, <1>2, FileFacts, ExtentNat, Bounds DEF EntriesTo
<1>4. CASE pos > Len(file.dyn)
  <2>1. Look!Verdict(1)
    BY <1>4 DEF Look!ReadDyn
  <2>2. pos = Len(file.dyn) + 1
    BY <1>3, <1>4
  <2>3. /\ ~(Len(file.dyn) >= Look!Extent(file))
        /\ \A j \in 1 .. Len(file.dyn) : file.dyn[j][1] # "NULL"
    BY <1>1, <1>2, <1>3, <2>2
  <2>4. ~Look!Sound(file)
    BY <2>3 DEF Look!Sound
  <2> QED BY <1>1, <2>1, <2>4, Refused
<1>5. CASE ~(pos > Len(file.dyn))
  <2> DEFINE e == file.dyn[pos]
  <2>1. /\ e[1] # "NULL"
        /\ needed' = IF e[1] = "NEEDED" /\ Len(needed) < MaxNeeded
                     THEN Append(needed, e[2]) ELSE needed
        /\ strtab' = IF e[1] = "STRTAB" THEN e[2] ELSE strtab
        /\ strsz' = IF e[1] = "STRSZ" THEN e[2] ELSE strsz
        /\ pos' = pos + 1
        /\ file' = file /\ step' = step /\ loads' = loads /\ dynamic' = dynamic
        /\ printed' = printed /\ verdict' = verdict /\ pc' = pc
    BY <1>5 DEF Look!ReadDyn, vars
  <2>2. pos \in 1 .. Len(file.dyn)
    BY <1>3, <1>5
  <2>3. NeededTo(file, needed', pos + 1)
    BY <1>1, <1>2, <2>1, <2>2, NeededOn
  <2>4. ValueTo(file, "STRTAB", strtab', pos + 1)
    BY <1>1, <1>2, <2>1, <2>2, ValueOn
  <2>5. ValueTo(file, "STRSZ", strsz', pos + 1)
    BY <1>1, <1>2, <2>1, <2>2, ValueOn
  <2>6. EntriesTo(file, pos + 1)
    <3>1. \A j \in 1 .. (pos + 1) - 1 : j \in 1 .. pos - 1 \/ j = pos
      BY <2>2
    <3>2. \A j \in 1 .. (pos + 1) - 1 : file.dyn[j][1] # "NULL"
      BY <1>3, <2>1, <3>1
    <3>3. /\ pos + 1 \in 1 .. Len(file.dyn) + 1 /\ pos + 1 <= Look!Extent(file) + 1
          /\ pos + 1 <= MaxEntries + 1
      BY <1>1, <1>2, <1>3, <2>2
    <3> QED BY <3>2, <3>3 DEF EntriesTo
  <2>7. DynamicPart'
    BY <1>2, <2>1, <2>3, <2>4, <2>5, <2>6 DEF DynamicPart, HeaderGood
  <2> QED BY <1>1, <2>1, <2>7 DEF LookInv, PhdrsPart, NamesPart, DonePart
<1>6. QED
  BY <1>4, <1>5

LEMMA EndDynStep ==
  ASSUME LookInv, UNCHANGED vars, pc = "inspect", Look!EndDyn
  PROVE  LookInv'
<1>1. step = "dynamic" /\ Look!OnDisk(file) /\ printed = <<>>
  BY DEF Look!EndDyn, LookInv
<1>2. /\ HeaderGood
      /\ Len(file.phdr) = file.phnum /\ Look!Extent(file) > 0
      /\ LoadsTo(file, loads, Len(file.phdr) + 1) /\ dynamic.size = Look!Extent(file)
      /\ EntriesTo(file, pos) /\ NeededTo(file, needed, pos)
      /\ ValueTo(file, "STRTAB", strtab, pos) /\ ValueTo(file, "STRSZ", strsz, pos)
  BY <1>1 DEF LookInv, DynamicPart
<1>3. /\ pos \in 1 .. Len(file.dyn) + 1 /\ Len(file.dyn) \in Nat
      /\ Look!Extent(file) \in Nat /\ MaxEntries \in Nat
  BY <1>1, <1>2, FileFacts, ExtentNat, Bounds DEF EntriesTo
<1>4. \/ pos > Look!Extent(file) \/ pos > MaxEntries
      \/ pos <= Len(file.dyn) /\ file.dyn[pos][1] = "NULL"
  BY <1>2, <1>3 DEF Look!EndDyn, Look!InDynamic
<1>5. EntriesEnd(file, pos)
  BY <1>2, <1>4 DEF EntriesEnd
<1> DEFINE checking == ArgKind[mem[1 + index]] = "verify"
           bad == strtab = 0 \/ strsz = 0 \/ Look!Offsets(strtab) = {}
<1>6. ASSUME Look!ShortDynamic(file)
      PROVE  /\ strtab = Look!Value(file, "STRTAB") /\ strsz = Look!Value(file, "STRSZ")
             /\ ~bad => Look!Sound(file)
             /\ Look!Sound(file) /\ Look!FewLoads(file) => ~bad
  <2>1. /\ strtab = Look!Value(file, "STRTAB") /\ strtab \in Nat
        /\ strsz = Look!Value(file, "STRSZ")
    BY <1>1, <1>2, <1>5, <1>6, ValueAll
  <2>2. /\ Look!Offsets(strtab) \subseteq Look!Source(file, strtab)
        /\ Look!FewLoads(file) /\ Look!Source(file, strtab) # {} => Look!Offsets(strtab) # {}
    BY <1>1, <1>2, <2>1, OffsetsAre
  <2>3. \/ Len(file.dyn) >= Look!Extent(file)
        \/ \E i \in 1 .. Len(file.dyn) : file.dyn[i][1] = "NULL"
    <3>1. CASE Look!Extent(file) <= MaxEntries
      BY <1>3, <1>4, <3>1
    <3> QED BY <1>6, <3>1 DEF Look!ShortDynamic
  <2>4. ~bad => Look!Sound(file)
    BY <1>2, <2>1, <2>2, <2>3 DEF Look!Sound, HeaderGood
  <2>5. Look!Sound(file) /\ Look!FewLoads(file) => ~bad
    BY <2>1, <2>2 DEF Look!Sound
  <2> QED BY <2>1, <2>4, <2>5
<1>7. ASSUME bad PROVE Justified(file, 1, checking)
  BY <1>6, <1>7 DEF Justified
<1>8. ASSUME ~bad PROVE Justified(file, 0, checking)
  BY <1>6, <1>8 DEF Justified
<1>9. CASE bad
  <2>1. Look!Verdict(1)
    BY <1>9 DEF Look!EndDyn
  <2> QED BY <1>1, <1>7, <1>9, <2>1, Answered
<1>10. CASE ~bad /\ ArgKind[mem[1 + index]] = "verify"
  <2>1. Look!Verdict(0)
    BY <1>10 DEF Look!EndDyn
  <2> QED BY <1>1, <1>8, <1>10, <2>1, Answered
<1>11. CASE ~bad /\ ArgKind[mem[1 + index]] # "verify" /\ file.stays
  <2>1. Look!Goto("names")
    BY <1>11 DEF Look!EndDyn
  <2>2. /\ step' = "names" /\ pos' = 1 /\ file' = file /\ loads' = loads
        /\ needed' = needed /\ strtab' = strtab /\ strsz' = strsz /\ printed' = printed
        /\ verdict' = verdict /\ pc' = pc
    BY <2>1 DEF Look!Goto, vars
  <2>3. Len(needed) \in Nat /\ 1 \in 1 .. Len(needed) + 1
    BY <1>2 DEF NeededTo
  <2>4. \E n \in Nat : EntriesEnd(file, n) /\ NeededTo(file, needed, n)
    BY <1>2, <1>3, <1>5
  <2>5. <<>> = [l \in 1 .. 1 - 1 |-> Look!NameAt(file, needed[l])]
    OBVIOUS
  <2>6. Look!ShortDynamic(file) =>
          /\ Look!Sound(file)
          /\ strtab = Look!Value(file, "STRTAB") /\ strsz = Look!Value(file, "STRSZ")
          /\ printed = [l \in 1 .. 1 - 1 |-> Look!NameAt(file, needed[l])]
    BY <1>1, <1>6, <1>11, <2>5
  <2> HIDE DEF bad
  <2>7. NamesPart'
    BY <1>2, <1>11, <2>2, <2>3, <2>4, <2>6 DEF NamesPart
  <2> QED BY <1>1, <2>2, <2>7 DEF LookInv, PhdrsPart, DynamicPart, DonePart
<1>12. CASE ~bad /\ ArgKind[mem[1 + index]] # "verify" /\ ~file.stays
  <2>1. Look!Verdict(1)
    BY <1>12 DEF Look!EndDyn
  <2>2. Justified(file, 1, checking)
    BY <1>12 DEF Justified
  <2> QED BY <1>1, <2>1, <2>2, Answered
<1>13. QED
  BY <1>9, <1>10, <1>11, <1>12

LEMMA PrintNameStep ==
  ASSUME LookInv, UNCHANGED vars, pc = "inspect", Look!PrintName
  PROVE  LookInv'
<1>1. step = "names" /\ pos <= Len(needed) /\ Look!OnDisk(file)
  BY DEF Look!PrintName, LookInv
<1>2. /\ LoadsTo(file, loads, Len(file.phdr) + 1) /\ file.stays
      /\ \E n \in Nat : EntriesEnd(file, n) /\ NeededTo(file, needed, n)
      /\ pos \in 1 .. Len(needed) + 1
      /\ Look!ShortDynamic(file) =>
           /\ Look!Sound(file)
           /\ strtab = Look!Value(file, "STRTAB") /\ strsz = Look!Value(file, "STRSZ")
           /\ Look!Loadable(file) =>
                printed = [l \in 1 .. pos - 1 |-> Look!NameAt(file, needed[l])]
  BY <1>1 DEF LookInv, NamesPart
<1>3. PICK n \in Nat : EntriesEnd(file, n) /\ NeededTo(file, needed, n)
  BY <1>2
<1>4. pos \in 1 .. Len(needed) /\ Len(needed) \in Nat
  BY <1>1, <1>2, <1>3 DEF NeededTo
<1>6. PICK o \in Look!Offsets(strtab) :
        printed' = Append(printed, Look!StringAt(file.bytes, o + needed[pos], strsz))
  BY DEF Look!PrintName
<1>8. ASSUME Look!ShortDynamic(file), Look!Loadable(file)
      PROVE  Look!StringAt(file.bytes, o + needed[pos], strsz) = Look!NameAt(file, needed[pos])
  <2>1. PICK i \in Look!Tagged(file, "NEEDED") : needed[pos] = file.dyn[i][2]
    BY <1>1, <1>3, <1>4, <1>8, NamesAre
  <2>2. strtab \in Nat /\ strtab = Look!Value(file, "STRTAB") /\ strsz = Look!Value(file, "STRSZ")
    BY <1>1, <1>2, <1>8, ValueNat
  <2>3. Look!Offsets(strtab) \subseteq Look!Source(file, strtab)
    BY <1>1, <1>2, <2>2, OffsetsAre
  <2>4. o \in Look!Source(file, Look!Value(file, "STRTAB"))
    BY <1>6, <2>2, <2>3
  <2> QED BY <1>1, <1>8, <2>1, <2>2, <2>4, NameRead
<1>9. /\ pos' = pos + 1 /\ file' = file /\ step' = step /\ loads' = loads
      /\ dynamic' = dynamic /\ needed' = needed /\ strtab' = strtab /\ strsz' = strsz
      /\ verdict' = verdict /\ pc' = pc
  BY DEF Look!PrintName, vars
<1>10. ASSUME Look!ShortDynamic(file), Look!Loadable(file)
       PROVE  printed' = [l \in 1 .. (pos + 1) - 1 |-> Look!NameAt(file, needed[l])]
  <2> DEFINE name(l) == Look!NameAt(file, needed[l])
             R == {name(l) : l \in 1 .. Len(needed)}
             old == [l \in 1 .. pos - 1 |-> name(l)]
  <2>1. old \in Seq(R) /\ Len(old) = pos - 1 /\ name(pos) \in R
    <3>1. \A l \in 1 .. pos - 1 : l \in 1 .. Len(needed)
      BY <1>4
    <3>2. pos - 1 \in Nat
      BY <1>4
    <3> HIDE DEF name
    <3> QED BY <1>4, <3>1, <3>2
  <2>2. printed' = Append(old, name(pos))
    BY <1>2, <1>6, <1>8, <1>10
  <2> HIDE DEF name
  <2>3. Append(old, name(pos)) = [l \in 1 .. (pos + 1) - 1 |-> name(l)]
    <3>1. /\ DOMAIN Append(old, name(pos)) = 1 .. (pos + 1) - 1
          /\ \A l \in 1 .. pos - 1 : Append(old, name(pos))[l] = name(l)
          /\ Append(old, name(pos))[pos] = name(pos)
      <4> HIDE DEF R
      <4>1. \A l \in 1 .. pos - 1 : old[l] = name(l)
        OBVIOUS
      <4> HIDE DEF old
      <4> QED BY <1>4, <2>1, <4>1
    <3>2. \A l \in 1 .. (pos + 1) - 1 : l \in 1 .. pos - 1 \/ l = pos
      BY <1>4
    <3>3. Append(old, name(pos)) \in Seq(R)
      <4> HIDE DEF R, old
      <4> QED BY <2>1
    <3> DEFINE grown == Append(old, name(pos))
    <3>4. DOMAIN grown = 1 .. (pos + 1) - 1 /\ grown \in Seq(R)
      BY <3>1, <3>3
    <3>5. \A l \in 1 .. (pos + 1) - 1 : grown[l] = name(l)
      BY <3>1, <3>2
    <3> HIDE DEF old, R, grown
    <3>6. grown = [l \in DOMAIN grown |-> grown[l]]
      BY <3>4
    <3>7. grown = [l \in 1 .. (pos + 1) - 1 |-> grown[l]]
      BY <3>4, <3>6
    <3>8. [l \in 1 .. (pos + 1) - 1 |-> grown[l]] = [l \in 1 .. (pos + 1) - 1 |-> name(l)]
      BY <3>5
    <3>9. grown = [l \in 1 .. (pos + 1) - 1 |-> name(l)]
      BY <3>7, <3>8
    <3> QED BY <3>9 DEF grown
  <2> QED BY <2>2, <2>3 DEF name
<1>11. pos + 1 \in 1 .. Len(needed) + 1
  BY <1>4
<1>12. NamesPart'
  BY <1>2, <1>9, <1>10, <1>11 DEF NamesPart
<1>13. QED
  BY <1>1, <1>9, <1>12 DEF LookInv, PhdrsPart, DynamicPart, DonePart

LEMMA EndNamesStep ==
  ASSUME LookInv, UNCHANGED vars, pc = "inspect", Look!EndNames
  PROVE  LookInv'
<1>1. step = "names" /\ pos > Len(needed) /\ Look!OnDisk(file) /\ Look!Verdict(0)
  BY DEF Look!EndNames, LookInv
<1>2. /\ \E n \in Nat : EntriesEnd(file, n) /\ NeededTo(file, needed, n)
      /\ pos \in 1 .. Len(needed) + 1
      /\ Look!ShortDynamic(file) =>
           /\ Look!Sound(file)
           /\ Look!Loadable(file) =>
                printed = [l \in 1 .. pos - 1 |-> Look!NameAt(file, needed[l])]
  BY <1>1 DEF LookInv, NamesPart
<1>3. PICK n \in Nat : EntriesEnd(file, n) /\ NeededTo(file, needed, n)
  BY <1>2
<1>4. pos - 1 = Len(needed) /\ Len(needed) \in Nat
  <2>1. Len(needed) \in Nat
    BY <1>3 DEF NeededTo
  <2> QED BY <1>1, <1>2, <2>1
<1>5. ASSUME Look!ShortDynamic(file), Look!Loadable(file) PROVE Printed(file, printed)
  <2> DEFINE all == Look!Names(file)
             number == Len(needed)
             name(l) == Look!NameAt(file, needed[l])
  <2>1. printed = [l \in 1 .. number |-> name(l)]
    BY <1>2, <1>4, <1>5
  <2>2. /\ number \in {Len(all), MaxNeeded} /\ number <= Len(all) /\ Len(all) \in Nat
        /\ DOMAIN all = 1 .. Len(all)
        /\ \A l \in 1 .. number : all[l] = name(l)
    BY <1>1, <1>3, <1>5, NamesAre
  <2> HIDE DEF all, name, number
  <2>3. number \in Nat
    BY <1>4 DEF number
  <2>4. Len(printed) = number
    BY <2>1, <2>3
  <2>5. SubSeq(all, 1, number) = [l \in 1 .. number |-> all[l]]
    <3>1. SubSeq(all, 1, number) = [l \in 1 .. (1 + number) - 1 |-> all[(1 + l) - 1]]
      BY <2>3
    <3>2. (1 + number) - 1 = number /\ \A l \in 1 .. number : (1 + l) - 1 = l
      BY <2>3
    <3> QED BY <3>1, <3>2
  <2>6. printed = SubSeq(all, 1, Len(printed))
    BY <2>1, <2>2, <2>4, <2>5
  <2> QED BY <2>2, <2>4, <2>6 DEF Printed, all
<1>6. Justified(file, 0, ArgKind[mem[1 + index]] = "verify")
  BY <1>2 DEF Justified
<1>7. QED
  BY <1>1, <1>5, <1>6, Answered

LEMMA LookKept ==
  ASSUME LookInv, UNCHANGED lookvars,
         \/ pc' = "exit"
         \/ pc \notin {"inspect", "exit"}
         \/ pc' = pc /\ mem' = mem /\ index' = index
  PROVE  LookInv'
<1>1. /\ file' = file /\ step' = step /\ pos' = pos /\ loads' = loads /\ dynamic' = dynamic
      /\ needed' = needed /\ strtab' = strtab /\ strsz' = strsz /\ printed' = printed
      /\ verdict' = verdict
  BY DEF lookvars
<1>2. PhdrsPart' /\ DynamicPart' /\ NamesPart'
  BY <1>1 DEF LookInv, PhdrsPart, DynamicPart, NamesPart, HeaderGood
<1>3. DonePart'
  BY <1>1 DEF LookInv, DonePart
<1>4. QED
  BY <1>1, <1>2, <1>3 DEF LookInv

LEMMA LookNext ==
  ASSUME LookInv, [RtldNext]_allvars
  PROVE  LookInv'
<1>1. CASE Self!Next /\ UNCHANGED <<vars, lookvars>>
  BY <1>1, LookKept DEF vars
<1>2. CASE (Refuse \/ ExitInspected) /\ UNCHANGED lookvars
  BY <1>2, LookKept DEF Refuse, ExitInspected, Exit
<1>3. CASE (Enter \/ Run) /\ UNCHANGED lookvars
  <2>1. pc \notin {"inspect", "exit"}
    BY <1>3 DEF Enter, Run, ParseOption, PrintHelp, CopyWord, FinishRewrite, LoadExec,
                PatchAuxv, LinkExec, LinkMain
  <2> QED BY <1>3, <2>1, LookKept
<1>4. CASE pc = "inspect" /\ Look!Next /\ UNCHANGED <<vars, selfvars>>
  BY <1>4, HeaderStep, ReadPhdrStep, EndPhdrsStep, ReadDynStep, EndDynStep, PrintNameStep,
     EndNamesStep DEF Look!Next
<1>5. CASE UNCHANGED allvars
  BY <1>5, LookKept DEF allvars, vars
<1>6. QED
  BY <1>1, <1>2, <1>3, <1>4, <1>5 DEF RtldNext

(* inspect_fd and list keep their invariant: what they have read up to the *)
(* loop index is what the file says, as far as the fixed arrays hold it.   *)
THEOREM LookSafe == RtldSpec => []LookInv
<1>1. RtldInit => LookInv
  BY LookInit
<1>2. LookInv /\ [RtldNext]_allvars => LookInv'
  BY LookNext
<1>3. QED
  BY <1>1, <1>2, PTL DEF RtldSpec

(* Whatever the file holds, however many program headers, entries and     *)
(* names: --verify accepts no file whose dynamic section or string table   *)
(* cannot be read and refuses no other one whose segments fit the array,   *)
(* and of a file that can be loaded --list prints the names that the       *)
(* program would find in memory, in their order, up to the limit.          *)
THEOREM RtldInspects == RtldSpec => []Inspected
<1>1. LookInv => Inspected
  <2> SUFFICES ASSUME LookInv, pc = "inspect", verdict # 2, Look!ShortDynamic(file)
               PROVE  Look!Inspected
    BY DEF Inspected, Look!Inspected
  <2>1. step = "done"
    BY DEF LookInv
  <2>2. /\ verdict \in {0, 1}
        /\ Justified(file, verdict, ArgKind[mem[1 + index]] = "verify")
        /\ verdict = 0 /\ ArgKind[mem[1 + index]] = "list" /\ Look!Loadable(file)
             => Printed(file, printed)
    BY <2>1 DEF LookInv, DonePart
  <2>3. /\ verdict = 0 => Look!Sound(file)
        /\ Look!Sound(file) /\ Look!FewLoads(file)
             /\ (ArgKind[mem[1 + index]] = "verify" \/ file.stays) => verdict = 0
    BY <2>2 DEF Justified
  <2> QED BY <2>2, <2>3 DEF Look!Inspected, Printed
<1>2. QED
  BY <1>1, LookSafe, PTL
=============================================================================
