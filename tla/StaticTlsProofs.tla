-------------------------- MODULE StaticTlsProofs --------------------------
(***************************************************************************)
(* Proofs about module StaticTls, for any set of TLS segments, any arena   *)
(* and any number of threads: the blocks of the modules never overlap, an  *)
(* initialised storage holds their images, initialisation strays only if   *)
(* a module was placed after the storage had been sized, and storage is    *)
(* given back at most once.                                                *)
(***************************************************************************)
EXTENDS StaticTls, SequenceTheorems, Induction

-----------------------------------------------------------------------------
(* align_up.                                                               *)

(* Division and remainder.                                                 *)
LEMMA DivMod ==
  ASSUME NEW a \in Int, NEW M \in Int, M > 0
  PROVE  /\ a \div M \in Int /\ a % M \in 0 .. M - 1
         /\ a = M * (a \div M) + (a % M)
OBVIOUS

(* A multiple has no remainder.                                            *)
LEMMA Multiple ==
  ASSUME NEW q \in Int, NEW M \in Int, M > 0
  PROVE  (M * q) % M = 0
OBVIOUS

(* align_up rounds up to a multiple.                                       *)
LEMMA AlignUpRounds ==
  ASSUME NEW v \in Nat, NEW a \in Nat, a > 0
  PROVE  AlignUp(v, a) \in Nat /\ v <= AlignUp(v, a) /\ AlignUp(v, a) % a = 0
<1> DEFINE w == v + a - 1
           q == w \div a
           r == w % a
<1>1. w \in Int /\ a \in Int
  OBVIOUS
<1> HIDE DEF w
<1>2. q \in Int /\ r \in 0 .. a - 1 /\ w = a * q + r
  BY <1>1, DivMod
<1> HIDE DEF q, r
<1>3. AlignUp(v, a) = w - r
  BY DEF AlignUp, w, r
<1>4. a * q \in Int
  BY <1>1, <1>2
<1>5. w - r = a * q
  BY <1>1, <1>2, <1>4
<1>6. v <= w - r
  BY <1>1, <1>2 DEF w
<1>7. (a * q) % a = 0
  BY <1>1, <1>2, Multiple
<1>8. w - r \in Nat
  BY <1>1, <1>2, <1>6
<1>9. QED
  BY <1>3, <1>5, <1>6, <1>7, <1>8

-----------------------------------------------------------------------------
(* Powers of two.                                                          *)

(* The recursion of PowerOf2 is well defined.                              *)
LEMMA PowersOf2 ==
  /\ PowerOf2 \in [Nat -> Nat \ {0}]
  /\ PowerOf2[0] = 1
  /\ \A e \in Nat : PowerOf2[e + 1] = 2 * PowerOf2[e]
<1> DEFINE step == [n \in Nat |-> [p \in Nat \ {0} |-> 2 * p]]
           Rec(g) == [e \in Nat |-> IF e = 0 THEN 1 ELSE 2 * g[e - 1]]
<1>1. step \in [Nat -> [Nat \ {0} -> Nat \ {0}]] /\ 1 \in Nat \ {0}
  OBVIOUS
<1>2. \A n \in Nat, p \in Nat \ {0} : step[n][p] = 2 * p
  OBVIOUS
<1> HIDE DEF step
<1> PICK f : IsIteration(f, Nat \ {0}, 1, step)
  BY <1>1, Iteration
<1>3. /\ f \in [Nat -> Nat \ {0}]
      /\ f[0] = 1 /\ \A n \in Nat : f[n + 1] = step[n][f[n]]
  BY DEF IsIteration
<1>4. ASSUME NEW e \in Nat PROVE f[e] = Rec(f)[e]
  <2>1. CASE e = 0
    BY <1>3, <2>1
  <2>2. CASE e # 0
    <3>1. e - 1 \in Nat /\ (e - 1) + 1 = e
      BY <2>2
    <3>2. f[e] = 2 * f[e - 1]
      BY <1>2, <1>3, <3>1
    <3> QED BY <2>2, <3>2
  <2> QED BY <2>1, <2>2
<1>5. f = Rec(f)
  BY <1>3, <1>4
<1>6. PowerOf2 = CHOOSE g : g = Rec(g)
  BY DEF PowerOf2
<1>7. PowerOf2 = Rec(PowerOf2)
  <2> HIDE DEF Rec
  <2> QED BY <1>5, <1>6
<1>8. PowerOf2[0] = 1
  BY <1>7
<1>9. ASSUME NEW e \in Nat PROVE PowerOf2[e + 1] = 2 * PowerOf2[e]
  <2>1. e + 1 \in Nat /\ e + 1 # 0 /\ (e + 1) - 1 = e
    OBVIOUS
  <2>2. Rec(PowerOf2)[e + 1] = 2 * PowerOf2[e]
    BY <2>1
  <2> HIDE DEF Rec
  <2> QED BY <1>7, <2>2
<1>10. \A e \in Nat : PowerOf2[e] \in Nat \ {0}
  <2> DEFINE Typed == {e \in Nat : PowerOf2[e] \in Nat \ {0}}
  <2>1. 0 \in Typed
    BY <1>8
  <2>2. \A e \in Nat : e \in Typed => e + 1 \in Typed
    BY <1>9
  <2> HIDE DEF Typed
  <2>3. \A e \in Nat : e \in Typed
    BY <2>1, <2>2, NatSetInduction
  <2> QED BY <2>3 DEF Typed
<1>11. PowerOf2 = [e \in Nat |-> PowerOf2[e]]
  BY <1>7
<1>12. QED
  BY <1>8, <1>9, <1>10, <1>11

(* An exponent is less than its power.                                     *)
LEMMA ExponentSmaller == \A e \in Nat : e < PowerOf2[e]
<1> DEFINE Less == {e \in Nat : e < PowerOf2[e]}
<1>1. 0 \in Less
  BY PowersOf2
<1>2. ASSUME NEW e \in Nat, e \in Less PROVE e + 1 \in Less
  <2>1. PowerOf2[e] \in Nat /\ PowerOf2[e + 1] = 2 * PowerOf2[e] /\ e < PowerOf2[e]
    BY <1>2, PowersOf2
  <2> QED BY <2>1
<1> HIDE DEF Less
<1>3. \A e \in Nat : e \in Less
  BY <1>1, <1>2, NatSetInduction
<1>4. QED
  BY <1>3 DEF Less

(* The powers of two, without the bound on the exponent.                   *)
LEMMA IsPower == \A e \in Nat : IsPowerOf2(PowerOf2[e])
<1> TAKE e \in Nat
<1>1. e < PowerOf2[e] /\ PowerOf2[e] \in Nat
  BY ExponentSmaller, PowersOf2
<1>2. e \in 0 .. PowerOf2[e]
  BY <1>1
<1>3. QED
  BY <1>2 DEF IsPowerOf2

(* A smaller power of two divides a larger one.                            *)
LEMMA PowersDivide ==
  ASSUME NEW a \in Nat, NEW b \in Nat, PowerOf2[a] <= PowerOf2[b]
  PROVE  PowerOf2[b] % PowerOf2[a] = 0
<1>0. \A e \in Nat : /\ PowerOf2[e] \in Nat /\ PowerOf2[e] > 0
                     /\ PowerOf2[e + 1] = 2 * PowerOf2[e]
  BY PowersOf2
<1> DEFINE Grows(c) == {k \in Nat : \E q \in Nat : /\ q > k
                                                   /\ PowerOf2[c + k] = PowerOf2[c] * q}
<1>1. ASSUME NEW c \in Nat PROVE \A k \in Nat : k \in Grows(c)
  <2>1. 0 \in Grows(c)
    <3>1. c + 0 = c /\ PowerOf2[c] = PowerOf2[c] * 1
      BY <1>0
    <3> QED BY <3>1
  <2>2. ASSUME NEW k \in Nat, k \in Grows(c) PROVE k + 1 \in Grows(c)
    <3>1. PICK q \in Nat : q > k /\ PowerOf2[c + k] = PowerOf2[c] * q
      BY <2>2
    <3>2. c + k \in Nat /\ c + (k + 1) = (c + k) + 1
      OBVIOUS
    <3>3. PowerOf2[c + (k + 1)] = 2 * (PowerOf2[c] * q)
      BY <1>0, <3>1, <3>2
    <3>4. 2 * (PowerOf2[c] * q) = PowerOf2[c] * (2 * q)
      BY <1>0
    <3>5. 2 * q \in Nat /\ 2 * q > k + 1
      BY <3>1
    <3> QED BY <3>3, <3>4, <3>5
  <2> HIDE DEF Grows
  <2> QED BY <2>1, <2>2, NatSetInduction
<1>2. CASE a <= b
  <2>1. b - a \in Nat /\ a + (b - a) = b
    BY <1>2
  <2>2. PICK q \in Nat : PowerOf2[a + (b - a)] = PowerOf2[a] * q
    BY <1>1, <2>1
  <2>3. PowerOf2[b] = PowerOf2[a] * q
    BY <2>1, <2>2
  <2> QED BY <1>0, <2>3, Multiple
<1>3. CASE b < a
  <2>1. a - b \in Nat /\ b + (a - b) = a /\ a - b >= 1
    BY <1>3
  <2>2. PICK q \in Nat : q > a - b /\ PowerOf2[b + (a - b)] = PowerOf2[b] * q
    BY <1>1, <2>1
  <2>3. PowerOf2[a] = PowerOf2[b] * q /\ q >= 2
    BY <2>1, <2>2
  <2>4. PowerOf2[b] * q >= PowerOf2[b] * 2
    BY <1>0, <2>3
  <2> QED BY <1>0, <2>3, <2>4
<1>4. QED
  BY <1>2, <1>3

(* next_power_of_two.                                                      *)
LEMMA NextPower ==
  ASSUME NEW n \in Nat, n > 0
  PROVE  /\ NextPowerOfTwo(n) \in Nat /\ n <= NextPowerOfTwo(n)
         /\ \E e \in Nat : NextPowerOfTwo(n) = PowerOf2[e]
<1>0. \A e \in Nat : /\ PowerOf2[e] \in Nat
                     /\ PowerOf2[e + 1] = 2 * PowerOf2[e]
  BY PowersOf2
<1> DEFINE Has == {m \in Nat : m > 0 => \E e \in Nat : PowerOf2[e] \in m .. 2 * m}
<1>1. 0 \in Has
  OBVIOUS
<1>2. ASSUME NEW m \in Nat, m \in Has PROVE m + 1 \in Has
  <2>1. CASE m = 0
    BY <2>1, PowersOf2
  <2>2. CASE m # 0
    <3>1. PICK e \in Nat : PowerOf2[e] \in m .. 2 * m
      BY <1>2, <2>2
    <3>2. CASE PowerOf2[e] = m
      <4>1. PowerOf2[e + 1] \in m + 1 .. 2 * (m + 1)
        BY <1>0, <2>2, <3>2
      <4> QED BY <4>1
    <3>3. CASE PowerOf2[e] # m
      <4>1. PowerOf2[e] \in m + 1 .. 2 * (m + 1)
        BY <3>1, <3>3
      <4> QED BY <4>1
    <3> QED BY <3>2, <3>3
  <2> QED BY <2>1, <2>2
<1> HIDE DEF Has
<1>3. n \in Has
  BY <1>1, <1>2, NatSetInduction
<1>4. PICK e \in Nat : PowerOf2[e] \in n .. 2 * n
  BY <1>3 DEF Has
<1> DEFINE T == {p \in n .. 2 * n : IsPowerOf2(p)}
<1>5. T \in SUBSET Nat /\ T # {}
  <2>1. PowerOf2[e] \in T
    BY <1>4, IsPower
  <2> QED BY <2>1
<1> HIDE DEF T
<1>6. PICK p \in T : \A k \in T : p <= k
  BY <1>5, LeastNat
<1>7. p \in n .. 2 * n /\ IsPowerOf2(p) /\ \A q \in n .. p - 1 : ~IsPowerOf2(q)
  <2>1. p \in n .. 2 * n /\ IsPowerOf2(p)
    BY <1>6 DEF T
  <2>2. ASSUME NEW q \in n .. p - 1, IsPowerOf2(q) PROVE FALSE
    <3>1. q \in n .. 2 * n /\ q < p
      BY <2>1
    <3>2. q \in T
      BY <2>2, <3>1 DEF T
    <3> QED BY <1>6, <2>1, <3>1, <3>2
  <2> QED BY <2>1, <2>2
<1>8. NextPowerOfTwo(n) \in n .. 2 * n /\ IsPowerOf2(NextPowerOfTwo(n))
  BY <1>7 DEF NextPowerOfTwo
<1>9. QED
  BY <1>8 DEF IsPowerOf2

-----------------------------------------------------------------------------
(* The inductive invariant.                                                *)

Segment == [id : Nat, memsz : Nat, align : Nat \ {0}, off : Nat]

StorageType ==
  [state : {"none", "sized", "ready", "gone"}, bytes : Seq(0 .. MaxModules),
   align : Nat \ {0}, sized : Nat, listed : Nat, late : BOOLEAN, stray : BOOLEAN]

Types ==
  /\ area \in [used : 0 .. ArenaSize, max_align : Nat \ {0}]
  /\ modules \in Seq(Segment)
  /\ entering \in Segment
  /\ tried \in 0 .. MaxModules
  /\ main \in [1 .. ArenaSize -> 0 .. MaxModules]
  /\ store \in [Storage -> StorageType]
  /\ allocs \subseteq Storage
  /\ freed \in [Storage -> Nat]

(* A module lies within what is used, and is aligned.                      *)
Lies(m, used, max) ==
  /\ m \in Segment /\ m.id <= MaxModules
  /\ m.memsz <= m.off /\ m.off <= used
  /\ m.off % m.align = 0
  /\ m.align <= max /\ \E e \in Nat : m.align = PowerOf2[e]

Held(m, bytes) == \A d \in Block(m) : bytes[d] = m.id

(* The block of m ends where that of n begins, or before.                  *)
Below(m, n) == m.off <= n.off - n.memsz

(* The modules lie one below the other, each in its bytes of the area, and *)
(* the largest alignment is a power of two.                                *)
Layout ==
  /\ \E e \in Nat : area.max_align = PowerOf2[e]
  /\ \A i \in 1 .. Len(modules) :
       Lies(modules[i], area.used, area.max_align) /\ Held(modules[i], main)
  /\ \A i, j \in 1 .. Len(modules) : i < j => Below(modules[i], modules[j])
  /\ entering # NoModule =>
       /\ Lies(entering, area.used, area.max_align) /\ Held(entering, main)
       /\ \A i \in 1 .. Len(modules) : Below(modules[i], entering)

(* What is known of the storage r of a thread.                             *)
Kept(r, used, S) ==
  /\ r.stray => r.late
  /\ r.state \in {"sized", "ready"} /\ ~r.late => used <= Len(r.bytes)
  /\ r.sized <= Len(S) /\ r.listed <= Len(S)
  /\ \E e \in Nat : r.align = PowerOf2[e]
  /\ \A n \in 1 .. r.sized : S[n].align <= r.align
  /\ r.state = "ready" =>
       \A n \in 1 .. r.listed : \A d \in Block(S[n]) \cap DOMAIN r.bytes :
         r.bytes[d] = S[n].id

Storages ==
  \A s \in Storage :
    /\ Kept(store[s], area.used, modules)
    /\ store[s].state = "none" => freed[s] = 0 /\ s \notin allocs

Inv == Types /\ Layout /\ Storages /\ FreedOnce

-----------------------------------------------------------------------------
(* The bytes that init_static_tls_module writes.                           *)

(* Each segment's block lies beyond those of the segments before it.       *)
Ordered(S) ==
  /\ \A i \in 1 .. Len(S) : S[i] \in Segment
  /\ \A i, j \in 1 .. Len(S) : i < j => Below(S[i], S[j])

(* Blocks that lie one below the other are disjoint.                       *)
LEMMA BelowDisjoint ==
  ASSUME NEW m \in Segment, NEW n \in Segment, Below(m, n)
  PROVE  Block(m) \cap Block(n) = {}
<1>1. m.off \in Int /\ m.memsz \in Int /\ n.off \in Int /\ n.memsz \in Int
  BY DEF Segment
<1>2. QED
  BY <1>1 DEF Below, Block

(* So the blocks of an ordered list are disjoint.                          *)
LEMMA OrderedDisjoint ==
  ASSUME NEW S \in Seq(Segment), Ordered(S)
  PROVE  \A i, j \in 1 .. Len(S) : i # j => Block(S[i]) \cap Block(S[j]) = {}
<1> TAKE i, j \in 1 .. Len(S)
<1> HAVE i # j
<1>1. i \in Int /\ j \in Int /\ S[i] \in Segment /\ S[j] \in Segment
  OBVIOUS
<1>2. CASE i < j
  BY <1>1, <1>2, BelowDisjoint DEF Ordered
<1>3. CASE j < i
  BY <1>1, <1>3, BelowDisjoint DEF Ordered
<1>4. QED
  BY <1>1, <1>2, <1>3

(* Afterwards every block holds its module, and the rest is as before.     *)
LEMMA WrittenHolds ==
  ASSUME NEW bytes, NEW S \in Seq(Segment), Ordered(S)
  PROVE  /\ Written(bytes, S) = [d \in DOMAIN bytes |-> Written(bytes, S)[d]]
         /\ \A n \in 1 .. Len(S) : \A d \in Block(S[n]) \cap DOMAIN bytes :
              Written(bytes, S)[d] = S[n].id
         /\ \A d \in DOMAIN bytes :
              (\A n \in 1 .. Len(S) : d \notin Block(S[n])) =>
                Written(bytes, S)[d] = bytes[d]
<1> DEFINE writers(d) == {n \in 1 .. Len(S) : d \in Block(S[n])}
           last(d) == CHOOSE n \in writers(d) : \A j \in writers(d) : j <= n
           byte(d) == IF writers(d) = {} THEN bytes[d] ELSE S[last(d)].id
<1>1. Written(bytes, S) = [d \in DOMAIN bytes |-> byte(d)]
  BY DEF Written
<1>2. ASSUME NEW n \in 1 .. Len(S), NEW d \in Block(S[n]) PROVE byte(d) = S[n].id
  <2>1. \A j \in 1 .. Len(S) : d \in Block(S[j]) => j = n
    BY OrderedDisjoint
  <2>2. writers(d) = {n}
    BY <2>1
  <2>3. \E k \in {n} : \A j \in {n} : j <= k
    OBVIOUS
  <2> HIDE DEF writers
  <2>4. last(d) \in writers(d)
    BY <2>2, <2>3
  <2>5. last(d) = n /\ writers(d) # {}
    BY <2>2, <2>4
  <2> HIDE DEF last
  <2> QED BY <2>5
<1>3. ASSUME NEW d, \A n \in 1 .. Len(S) : d \notin Block(S[n])
      PROVE  byte(d) = bytes[d]
  <2>1. writers(d) = {}
    BY <1>3
  <2> HIDE DEF writers
  <2> QED BY <2>1
<1> HIDE DEF byte
<1>4. QED
  BY <1>1, <1>2, <1>3

(* The bytes stay within their type.                                       *)
LEMMA WrittenType ==
  ASSUME NEW bytes, NEW S \in Seq(Segment), Ordered(S), NEW D,
         bytes \in [D -> 0 .. MaxModules],
         \A n \in 1 .. Len(S) : S[n].id <= MaxModules
  PROVE  Written(bytes, S) \in [D -> 0 .. MaxModules]
<1>1. DOMAIN bytes = D
  OBVIOUS
<1>2. ASSUME NEW d \in D PROVE Written(bytes, S)[d] \in 0 .. MaxModules
  <2>1. CASE \E n \in 1 .. Len(S) : d \in Block(S[n])
    <3>1. PICK n \in 1 .. Len(S) : d \in Block(S[n])
      BY <2>1
    <3>2. S[n].id \in Nat /\ S[n].id <= MaxModules /\ MaxModules \in Nat
      <4>1. S[n] \in Segment
        OBVIOUS
      <4>2. S[n].id \in Nat
        BY <4>1 DEF Segment
      <4> QED BY <4>2, StaticTlsAssumption
    <3> QED BY <1>1, <3>1, <3>2, WrittenHolds
  <2>2. CASE \A n \in 1 .. Len(S) : d \notin Block(S[n])
    BY <1>1, <2>2, WrittenHolds
  <2> QED BY <2>1, <2>2
<1>3. Written(bytes, S) = [d \in D |-> Written(bytes, S)[d]]
  BY <1>1, WrittenHolds
<1>4. QED
  BY <1>2, <1>3

(* The listed modules lie one below the other.                             *)
LEMMA ModulesOrdered ==
  ASSUME Types, Layout
  PROVE  /\ modules \in Seq(Segment) /\ Len(modules) \in Nat /\ Ordered(modules)
         /\ \A n \in 1 .. Len(modules) : modules[n].id <= MaxModules
<1>1. modules \in Seq(Segment)
  BY DEF Types
<1>2. QED
  BY <1>1 DEF Layout, Ordered, Lies

-----------------------------------------------------------------------------
(* The steps.                                                              *)

(* A function on the first n numbers is a sequence.                        *)
LEMMA FunctionIsSeq ==
  ASSUME NEW S, NEW n \in Nat, NEW f \in [1 .. n -> S]
  PROVE  f \in Seq(S) /\ Len(f) = n
BY SeqDef

(* The storage that allocate_storage makes.                                *)
SizedStorage(b, a, k) ==
  [NoStorage EXCEPT !.state = "sized", !.bytes = b, !.align = a, !.sized = k]

(* A storage just sized has its type.                                      *)
LEMMA StorageSized ==
  ASSUME NEW b \in Seq(0 .. MaxModules), NEW a \in Nat \ {0}, NEW k \in Nat
  PROVE  SizedStorage(b, a, k) \in StorageType
<1>1. NoStorage \in StorageType
  <2>1. <<>> \in Seq(0 .. MaxModules) /\ 1 \in Nat \ {0} /\ 0 \in Nat
    OBVIOUS
  <2> QED BY <2>1 DEF NoStorage, StorageType
<1>2. QED
  BY <1>1 DEF StorageType, SizedStorage

(* The storage that init initialises.                                      *)
ReadyStorage(o, l, b, out) ==
  [[[[o EXCEPT !.state = "ready"] EXCEPT !.listed = l]
      EXCEPT !.bytes = b] EXCEPT !.stray = out]

IsReady(r, o, l, b, out) ==
  /\ r \in StorageType
  /\ r.state = "ready" /\ r.bytes = b /\ r.align = o.align
  /\ r.sized = o.sized /\ r.listed = l /\ r.late = o.late
  /\ r.stray = out

(* A storage made ready has these fields.                                  *)
LEMMA StorageReady ==
  ASSUME NEW o \in StorageType, NEW b \in Seq(0 .. MaxModules), NEW l \in Nat,
         NEW out \in BOOLEAN
  PROVE  IsReady(ReadyStorage(o, l, b, out), o, l, b, out)
BY DEF StorageType, ReadyStorage, IsReady

(* A storage that is not in use.                                           *)
LEMMA NoStorageFacts ==
  /\ NoStorage \in StorageType
  /\ [NoStorage EXCEPT !.state = "gone"] \in StorageType
  /\ [NoStorage EXCEPT !.state = "gone"].state = "gone"
  /\ \A used \in Nat, S \in Seq(Segment) :
       /\ Kept(NoStorage, used, S)
       /\ Kept([NoStorage EXCEPT !.state = "gone"], used, S)
<1>1. <<>> \in Seq(0 .. MaxModules) /\ 1 \in Nat \ {0} /\ 0 \in Nat
  OBVIOUS
<1>2. NoStorage \in StorageType /\ [NoStorage EXCEPT !.state = "gone"] \in StorageType
  BY <1>1 DEF NoStorage, StorageType
<1>3. PowerOf2[0] = 1
  BY PowersOf2
<1>4. ASSUME NEW used \in Nat, NEW S \in Seq(Segment), NEW r,
             r.stray = FALSE, r.state \in {"none", "gone"}, r.sized = 0,
             r.listed = 0, r.align = 1
      PROVE  Kept(r, used, S)
  <2>1. Len(S) \in Nat /\ 1 .. 0 = {}
    OBVIOUS
  <2> QED BY <1>3, <1>4, <2>1 DEF Kept
<1> DEFINE g == [NoStorage EXCEPT !.state = "gone"]
<1>5. /\ NoStorage.stray = FALSE /\ NoStorage.state = "none"
      /\ NoStorage.sized = 0 /\ NoStorage.listed = 0 /\ NoStorage.align = 1
      /\ g.stray = FALSE /\ g.state = "gone" /\ g.sized = 0 /\ g.listed = 0
      /\ g.align = 1
  BY DEF NoStorage
<1> HIDE DEF g
<1>6. \A used \in Nat, S \in Seq(Segment) :
        Kept(NoStorage, used, S) /\ Kept(g, used, S)
  BY <1>4, <1>5
<1>7. QED
  BY <1>2, <1>5, <1>6 DEF g

(* The invariant holds at first.                                           *)
LEMMA InitInv == Init => Inv
<1> SUFFICES ASSUME Init PROVE Inv
  OBVIOUS
<1>0. /\ area = [used |-> 0, max_align |-> 1]
      /\ modules = <<>> /\ entering = NoModule /\ tried = 0
      /\ main = [d \in 1 .. ArenaSize |-> 0]
      /\ store = [s \in Storage |-> NoStorage]
      /\ allocs = {} /\ freed = [s \in Storage |-> 0]
  BY DEF Init, Zeroed
<1>1. NoModule \in Segment
  BY DEF NoModule, Segment
<1>2. 0 \in 0 .. ArenaSize /\ 0 \in 0 .. MaxModules
  BY StaticTlsAssumption
<1>3. Types
  BY <1>0, <1>1, <1>2, NoStorageFacts DEF Types
<1>4. Layout
  <2>1. area.max_align = PowerOf2[0] /\ Len(modules) = 0
    BY <1>0, PowersOf2
  <2> QED BY <1>0, <2>1 DEF Layout
<1>5. area.used = 0 /\ modules \in Seq(Segment)
  BY <1>0
<1>6. Storages
  BY <1>0, <1>5, NoStorageFacts DEF Storages
<1>7. FreedOnce
  BY <1>0 DEF FreedOnce
<1>8. QED
  BY <1>3, <1>4, <1>6, <1>7 DEF Inv

(* A storage keeps what is known of it when modules are listed.            *)
LEMMA KeptAppend ==
  ASSUME NEW r \in StorageType, NEW used \in Nat, NEW S \in Seq(Segment),
         Kept(r, used, S), NEW m \in Segment
  PROVE  Kept(r, used, Append(S, m))
<1> DEFINE q == Append(S, m)
<1>1. /\ Len(S) \in Nat /\ Len(q) = Len(S) + 1
      /\ \A n \in 1 .. Len(S) : q[n] = S[n]
  OBVIOUS
<1>2. r.sized \in Nat /\ r.listed \in Nat
  BY DEF StorageType
<1> HIDE DEF q
<1>3. r.sized <= Len(S) /\ r.listed <= Len(S)
  BY DEF Kept
<1>4. /\ \A n \in 1 .. r.sized : q[n] = S[n]
      /\ \A n \in 1 .. r.listed : q[n] = S[n]
      /\ r.sized <= Len(q) /\ r.listed <= Len(q)
  BY <1>1, <1>2, <1>3
<1>5. Kept(r, used, q)
  BY <1>4 DEF Kept
<1>6. QED
  BY <1>5 DEF q

(* What register_static_module computes for a module.                      *)
LEMMA Placement ==
  ASSUME Types, NEW info \in Info
  PROVE  LET align == NextPowerOfTwo(Larger(info.align, 1))
             used == AlignUp(area.used + info.memsz, align)
         IN  /\ align \in Nat \ {0} /\ \E e \in Nat : align = PowerOf2[e]
             /\ used \in Nat /\ area.used <= used - info.memsz
             /\ used % align = 0
             /\ info.memsz \in Nat /\ area.used \in Nat
<1> DEFINE align == NextPowerOfTwo(Larger(info.align, 1))
           used == AlignUp(area.used + info.memsz, align)
<1>1. info.memsz \in Nat /\ info.align \in Nat /\ area.used \in Nat
  <2>1. info \in [memsz : Nat \ {0}, align : Nat]
    BY StaticTlsAssumption
  <2>2. area.used \in 0 .. ArenaSize /\ ArenaSize \in Nat
    BY StaticTlsAssumption DEF Types
  <2> QED BY <2>1, <2>2
<1>2. Larger(info.align, 1) \in Nat /\ Larger(info.align, 1) > 0
  BY <1>1 DEF Larger
<1>3. align \in Nat /\ align > 0 /\ \E e \in Nat : align = PowerOf2[e]
  <2> DEFINE n == Larger(info.align, 1)
  <2>1. n \in Nat /\ n > 0
    BY <1>2
  <2> HIDE DEF n
  <2>2. /\ NextPowerOfTwo(n) \in Nat /\ n <= NextPowerOfTwo(n)
        /\ \E e \in Nat : NextPowerOfTwo(n) = PowerOf2[e]
    BY <2>1, NextPower
  <2>3. NextPowerOfTwo(n) > 0
    BY <2>1, <2>2
  <2> QED BY <2>2, <2>3 DEF n
<1> HIDE DEF align
<1> DEFINE v == area.used + info.memsz
<1>4. v \in Nat
  BY <1>1
<1> HIDE DEF v
<1>5. AlignUp(v, align) \in Nat /\ v <= AlignUp(v, align) /\ AlignUp(v, align) % align = 0
  BY <1>3, <1>4, AlignUpRounds
<1>6. used \in Nat /\ area.used <= used - info.memsz /\ used % align = 0
  BY <1>1, <1>5 DEF v
<1> HIDE DEF used
<1>7. QED
  BY <1>1, <1>3, <1>6 DEF align, used

(* register_static_module with room in the arena.                          *)
LEMMA PlaceInv ==
  ASSUME Inv, NEW info \in Info, Place(info)
  PROVE  Inv'
<1> PICK align : align = NextPowerOfTwo(Larger(info.align, 1))
  OBVIOUS
<1> PICK used : used = AlignUp(area.used + info.memsz, align)
  OBVIOUS
<1> PICK m : m = [id |-> tried + 1, memsz |-> info.memsz, align |-> align,
                  off |-> used]
  OBVIOUS
<1>0. /\ align \in Nat \ {0} /\ \E e \in Nat : align = PowerOf2[e]
      /\ used \in Nat /\ area.used <= used - info.memsz
      /\ used % align = 0
      /\ info.memsz \in Nat /\ area.used \in Nat
  BY Placement DEF Inv
<1>1. /\ tried < MaxModules /\ tried' = tried + 1
      /\ UNCHANGED <<modules, allocs, freed>>
  BY DEF Place
<1>2. \/ UNCHANGED <<area, entering, main, store>>
      \/ /\ used <= ArenaSize
         /\ area' = [used |-> used, max_align |-> Larger(area.max_align, align)]
         /\ entering' = m
         /\ main' = Written(main, <<m>>)
         /\ store' = [s \in Storage |->
                        IF store[s].state \in {"sized", "ready"}
                        THEN [store[s] EXCEPT !.late = TRUE] ELSE store[s]]
  BY DEF Place, Fits
<1>3. tried \in Nat /\ tried' \in 0 .. MaxModules
  BY <1>1, StaticTlsAssumption DEF Inv, Types
<1>4. CASE UNCHANGED <<area, entering, main, store>>
  <2>1. Types'
    BY <1>1, <1>3, <1>4 DEF Inv, Types
  <2>2. Layout' /\ Storages' /\ FreedOnce'
    BY <1>1, <1>4 DEF Inv, Layout, Storages, FreedOnce
  <2> QED BY <2>1, <2>2 DEF Inv
<1>5. CASE /\ used <= ArenaSize
           /\ area' = [used |-> used, max_align |-> Larger(area.max_align, align)]
           /\ entering' = m
           /\ main' = Written(main, <<m>>)
           /\ store' = [s \in Storage |->
                          IF store[s].state \in {"sized", "ready"}
                          THEN [store[s] EXCEPT !.late = TRUE] ELSE store[s]]
  <2>1. /\ m \in Segment /\ m.id = tried + 1 /\ m.memsz = info.memsz
        /\ m.align = align /\ m.off = used
    BY <1>0, <1>3 DEF Segment
  <2>2. area.max_align \in Nat \ {0} /\ ArenaSize \in Nat /\ MaxModules \in Nat
    BY StaticTlsAssumption DEF Inv, Types
  <2>3. /\ area'.used = used /\ area'.max_align \in Nat \ {0}
        /\ area.max_align <= area'.max_align /\ align <= area'.max_align
    BY <1>0, <1>5, <2>2 DEF Larger
  <2>4. Lies(m, area'.used, area'.max_align)
    BY <1>0, <1>1, <1>3, <2>1, <2>2, <2>3 DEF Lies
  <2> DEFINE one == <<m>>
  <2>5. /\ one \in Seq(Segment) /\ Len(one) = 1 /\ one[1] = m
        /\ Ordered(one) /\ \A n \in 1 .. Len(one) : one[n].id <= MaxModules
    <3>1. one \in Seq(Segment) /\ Len(one) = 1 /\ one[1] = m
      BY <2>1
    <3>2. \A n \in 1 .. 1 : n = 1
      OBVIOUS
    <3>3. m.id <= MaxModules
      BY <1>1, <1>3, <2>1, <2>2
    <3> HIDE DEF one
    <3>4. \A i \in 1 .. Len(one) : one[i] = m
      BY <3>1, <3>2
    <3>5. \A i, j \in 1 .. Len(one) : ~(i < j)
      BY <3>1, <3>2
    <3> QED BY <2>1, <3>1, <3>3, <3>4, <3>5 DEF Ordered
  <2> HIDE DEF one
  <2>6. main' = Written(main, one) /\ main \in [1 .. ArenaSize -> 0 .. MaxModules]
    BY <1>5 DEF Inv, Types, one
  <2>7. main' \in [1 .. ArenaSize -> 0 .. MaxModules]
    BY <2>5, <2>6, WrittenType
  <2>8. /\ \A d \in Block(m) \cap 1 .. ArenaSize : main'[d] = m.id
        /\ \A d \in 1 .. ArenaSize : d \notin Block(m) => main'[d] = main[d]
    <3>1. DOMAIN main = 1 .. ArenaSize /\ 1 \in 1 .. Len(one)
          /\ \A n \in 1 .. Len(one) : one[n] = m
      BY <2>5, <2>6
    <3>2. /\ \A n \in 1 .. Len(one) : \A d \in Block(one[n]) \cap DOMAIN main :
               Written(main, one)[d] = one[n].id
          /\ \A d \in DOMAIN main :
               (\A n \in 1 .. Len(one) : d \notin Block(one[n])) =>
                 Written(main, one)[d] = main[d]
      BY <2>5, WrittenHolds
    <3> QED BY <2>6, <3>1, <3>2
  <2>9. Types'
    <3>1. area' \in [used : 0 .. ArenaSize, max_align : Nat \ {0}]
      BY <1>0, <1>5, <2>2, <2>3
    <3>2. store' \in [Storage -> StorageType]
      <4>1. ASSUME NEW s \in Storage
            PROVE  [store[s] EXCEPT !.late = TRUE] \in StorageType
        <5>1. store[s] \in StorageType
          BY DEF Inv, Types
        <5> QED BY <5>1 DEF StorageType
      <4>2. store \in [Storage -> StorageType]
        BY DEF Inv, Types
      <4> QED BY <1>5, <4>1, <4>2
    <3> QED BY <1>1, <1>3, <1>5, <2>1, <2>7, <3>1, <3>2 DEF Inv, Types
  <2>10. ASSUME NEW i \in 1 .. Len(modules)
         PROVE  /\ Lies(modules[i], area'.used, area'.max_align)
                /\ Held(modules[i], main')
                /\ Below(modules[i], m)
    <3> DEFINE k == modules[i]
    <3>1. Lies(k, area.used, area.max_align) /\ Held(k, main)
      BY DEF Inv, Layout
    <3> HIDE DEF k
    <3>2. /\ k \in Segment /\ k.off \in Nat /\ k.memsz \in Nat /\ k.align \in Nat
          /\ k.memsz <= k.off /\ k.off <= area.used /\ k.align <= area.max_align
      BY <3>1 DEF Lies, Segment
    <3>3. k.off <= area'.used /\ k.align <= area'.max_align
      BY <1>0, <2>2, <2>3, <3>2
    <3>4. Lies(k, area'.used, area'.max_align)
      BY <3>1, <3>3 DEF Lies
    <3>5. Below(k, m)
      BY <1>0, <2>1, <3>2 DEF Below
    <3>6. Block(k) \cap Block(m) = {}
      BY <2>1, <3>2, <3>5, BelowDisjoint
    <3>7. Block(k) \subseteq 1 .. ArenaSize
      <4>1. area'.used \in 0 .. ArenaSize
        BY <2>9 DEF Types
      <4>2. k.off <= ArenaSize /\ ArenaSize \in Nat
        BY <2>2, <3>2, <3>3, <4>1
      <4>3. ASSUME NEW d \in Block(k) PROVE d \in 1 .. ArenaSize
        BY <3>2, <4>2 DEF Block
      <4> QED BY <4>3
    <3>8. Held(k, main')
      BY <2>8, <3>1, <3>6, <3>7 DEF Held
    <3> QED BY <3>4, <3>5, <3>8 DEF k
  <2>11. Held(m, main')
    <3>1. Block(m) \subseteq 1 .. ArenaSize
      BY <1>0, <1>5, <2>1, <2>2 DEF Block
    <3> QED BY <2>8, <3>1 DEF Held
  <2>12. Layout'
    <3>1. modules' = modules /\ entering' = m
      BY <1>1, <1>5
    <3>2. area'.max_align = area.max_align \/ area'.max_align = align
      BY <1>5 DEF Larger
    <3>3. \E e \in Nat : area'.max_align = PowerOf2[e]
      BY <1>0, <3>2 DEF Inv, Layout
    <3> QED BY <2>4, <2>10, <2>11, <3>1, <3>3 DEF Inv, Layout
  <2>13. Storages'
    <3> SUFFICES ASSUME NEW s \in Storage
                 PROVE  /\ Kept(store'[s], area'.used, modules)
                        /\ store'[s].state = "none" => freed[s] = 0 /\ s \notin allocs
      BY <1>1 DEF Storages
    <3> DEFINE r == store[s]
               q == [store[s] EXCEPT !.late = TRUE]
    <3>1. r \in StorageType /\ Kept(r, area.used, modules)
          /\ (r.state = "none" => freed[s] = 0 /\ s \notin allocs)
      BY DEF Inv, Types, Storages
    <3>2. CASE r.state \in {"sized", "ready"}
      <4>1. store'[s] = q
        BY <1>5, <3>2
      <4>2. /\ q.late = TRUE /\ q.state = r.state /\ q.sized = r.sized
            /\ q.listed = r.listed /\ q.align = r.align /\ q.bytes = r.bytes
        BY <3>1, <3>2 DEF StorageType
      <4> HIDE DEF q, r
      <4>3. Kept(q, area'.used, modules)
        BY <3>1, <4>2 DEF Kept
      <4>4. q.state # "none"
        BY <3>2, <4>2
      <4> QED BY <4>1, <4>3, <4>4
    <3>3. CASE r.state \notin {"sized", "ready"}
      <4>1. store'[s] = r
        BY <1>5, <3>3
      <4> HIDE DEF r
      <4>2. Kept(r, area'.used, modules)
        BY <3>1, <3>3 DEF Kept
      <4> QED BY <3>1, <4>1, <4>2
    <3> QED BY <3>2, <3>3
  <2>14. FreedOnce'
    BY <1>1 DEF Inv, FreedOnce
  <2> QED BY <2>9, <2>12, <2>13, <2>14 DEF Inv
<1>6. QED
  BY <1>2, <1>4, <1>5

(* The module is listed, or add_static_tls fails.                          *)
LEMMA ListInv ==
  ASSUME Inv, List
  PROVE  Inv'
<1>0. /\ entering # NoModule /\ entering' = NoModule
      /\ modules' = Append(modules, entering) \/ modules' = modules
      /\ UNCHANGED <<area, tried, main, store, allocs, freed>>
  BY DEF List
<1>1. NoModule \in Segment
  BY DEF NoModule, Segment
<1>2. modules \in Seq(Segment) /\ entering \in Segment /\ Len(modules) \in Nat
      /\ area.used \in Nat
  BY StaticTlsAssumption DEF Inv, Types
<1>3. Types'
  <2>1. modules' \in Seq(Segment)
    BY <1>0, <1>2
  <2> QED BY <1>0, <1>1, <2>1 DEF Inv, Types
<1>4. Layout'
  <2>1. CASE modules' = modules
    BY <1>0, <2>1 DEF Inv, Layout
  <2>2. CASE modules' = Append(modules, entering)
    <3> DEFINE q == Append(modules, entering)
    <3>1. /\ Len(q) = Len(modules) + 1 /\ q[Len(modules) + 1] = entering
          /\ \A i \in 1 .. Len(modules) : q[i] = modules[i]
      BY <1>2
    <3> HIDE DEF q
    <3>2. \A i \in 1 .. Len(q) : i \in 1 .. Len(modules) \/ i = Len(modules) + 1
      BY <1>2, <3>1
    <3>3. /\ Lies(entering, area.used, area.max_align) /\ Held(entering, main)
          /\ \A i \in 1 .. Len(modules) :
               /\ Below(modules[i], entering)
               /\ Lies(modules[i], area.used, area.max_align)
               /\ Held(modules[i], main)
          /\ \A i, j \in 1 .. Len(modules) : i < j => Below(modules[i], modules[j])
      BY <1>0 DEF Inv, Layout
    <3>4. \A i \in 1 .. Len(q) :
            Lies(q[i], area.used, area.max_align) /\ Held(q[i], main)
      BY <3>1, <3>2, <3>3
    <3>5. ASSUME NEW i \in 1 .. Len(q), NEW j \in 1 .. Len(q), i < j
          PROVE  Below(q[i], q[j])
      <4>1. i \in 1 .. Len(modules)
        BY <1>2, <3>1, <3>5
      <4> QED BY <3>1, <3>2, <3>3, <3>5, <4>1
    <3>6. modules' = q
      BY <2>2 DEF q
    <3>7. \E e \in Nat : area.max_align = PowerOf2[e]
      BY DEF Inv, Layout
    <3> QED BY <1>0, <3>4, <3>5, <3>6, <3>7 DEF Layout
  <2> QED BY <1>0, <2>1, <2>2
<1>5. Storages'
  <2> SUFFICES ASSUME NEW s \in Storage
               PROVE  Kept(store[s], area.used, modules')
    BY <1>0 DEF Inv, Storages
  <2>1. store[s] \in StorageType /\ Kept(store[s], area.used, modules)
    BY DEF Inv, Types, Storages
  <2> QED BY <1>0, <1>2, <2>1, KeptAppend
<1>6. FreedOnce'
  BY <1>0 DEF Inv, FreedOnce
<1>7. QED
  BY <1>3, <1>4, <1>5, <1>6 DEF Inv

(* refresh_static_tls writes what is there.                                *)
LEMMA RefreshInv ==
  ASSUME Inv, Refresh
  PROVE  Inv'
<1>0. /\ entering = NoModule /\ main' = Written(main, modules)
      /\ UNCHANGED <<area, modules, entering, tried, store, allocs, freed>>
  BY DEF Refresh
<1>1. /\ modules \in Seq(Segment) /\ Ordered(modules)
      /\ \A n \in 1 .. Len(modules) : modules[n].id <= MaxModules
      /\ main \in [1 .. ArenaSize -> 0 .. MaxModules]
  BY ModulesOrdered DEF Inv, Types
<1>2. main' \in [1 .. ArenaSize -> 0 .. MaxModules]
  BY <1>0, <1>1, WrittenType
<1>3. Types'
  BY <1>0, <1>2 DEF Inv, Types
<1>4. ASSUME NEW i \in 1 .. Len(modules) PROVE Held(modules[i], main')
  <2>1. Lies(modules[i], area.used, area.max_align)
    BY DEF Inv, Layout
  <2>2. Block(modules[i]) \subseteq 1 .. ArenaSize
    <3>1. area.used \in 0 .. ArenaSize /\ ArenaSize \in Nat
      BY StaticTlsAssumption DEF Inv, Types
    <3> DEFINE k == modules[i]
    <3>2. k \in Segment /\ k.memsz <= k.off /\ k.off <= area.used
      BY <2>1 DEF Lies
    <3> HIDE DEF k
    <3>3. k.off \in Nat /\ k.memsz \in Nat
      BY <3>2 DEF Segment
    <3>4. Block(k) \subseteq 1 .. ArenaSize
      BY <3>1, <3>2, <3>3 DEF Block
    <3> QED BY <3>4 DEF k
  <2>3. \A d \in Block(modules[i]) : main'[d] = modules[i].id
    <3>1. DOMAIN main = 1 .. ArenaSize
      BY <1>1
    <3>2. \A n \in 1 .. Len(modules) : \A d \in Block(modules[n]) \cap DOMAIN main :
            Written(main, modules)[d] = modules[n].id
      BY <1>1, WrittenHolds
    <3> QED BY <1>0, <2>2, <3>1, <3>2
  <2> QED BY <2>3 DEF Held
<1>5. Layout'
  BY <1>0, <1>4 DEF Inv, Layout
<1>6. Storages' /\ FreedOnce'
  BY <1>0 DEF Inv, Storages, FreedOnce
<1>7. QED
  BY <1>3, <1>5, <1>6 DEF Inv

(* allocate_storage makes room for everything that is in use.              *)
LEMMA SizeInv ==
  ASSUME Inv, NEW s \in Storage, NEW own \in BOOLEAN, Size(s, own)
  PROVE  Inv'
<1> PICK align : align = StorageAlign(own)
  OBVIOUS
<1> PICK room : room = AlignUp(area.used, align)
  OBVIOUS
<1> PICK r : r = [NoStorage EXCEPT !.state = "sized", !.bytes = Zeroed(room),
                                   !.align = align, !.sized = Len(modules)]
  OBVIOUS
<1>0. /\ store[s].state = "none"
      /\ store' = [store EXCEPT ![s] = r]
      /\ allocs' = allocs \cup {s} \/ allocs' = allocs
      /\ UNCHANGED <<area, modules, entering, tried, main, freed>>
  BY DEF Size, StaticSize
<1>1. /\ area.used \in Nat /\ area.max_align \in Nat \ {0}
      /\ TcbAlign \in Nat \ {0} /\ WordAlign \in Nat \ {0}
      /\ modules \in Seq(Segment) /\ Len(modules) \in Nat
      /\ store \in [Storage -> StorageType]
  BY StaticTlsAssumption DEF Inv, Types
<1>2. /\ align \in Nat \ {0} /\ area.max_align <= align
      /\ \E e \in Nat : align = PowerOf2[e]
  <2> DEFINE k == Larger(area.max_align, TcbAlign)
  <2>1. /\ k \in Nat /\ k > 0 /\ area.max_align <= k
        /\ k = area.max_align \/ k = TcbAlign
    BY <1>1 DEF Larger
  <2> HIDE DEF k
  <2>2. CASE own
    <3> DEFINE n == Larger(k, WordAlign)
    <3>1. n \in Nat /\ n > 0 /\ area.max_align <= n
      BY <1>1, <2>1 DEF Larger
    <3>2. align = NextPowerOfTwo(n)
      BY <2>2 DEF StorageAlign, k
    <3> HIDE DEF n
    <3>3. /\ NextPowerOfTwo(n) \in Nat /\ n <= NextPowerOfTwo(n)
          /\ \E e \in Nat : NextPowerOfTwo(n) = PowerOf2[e]
      BY <3>1, NextPower
    <3>4. NextPowerOfTwo(n) > 0 /\ area.max_align <= NextPowerOfTwo(n)
      BY <1>1, <3>1, <3>3
    <3> QED BY <3>2, <3>3, <3>4
  <2>3. CASE ~own
    <3>1. align = k
      BY <2>3 DEF StorageAlign, k
    <3>2. \E e \in Nat : area.max_align = PowerOf2[e]
      BY DEF Inv, Layout
    <3>3. \E e \in Nat : TcbAlign = PowerOf2[e]
      BY AlignAssumption DEF IsPowerOf2
    <3> QED BY <2>1, <3>1, <3>2, <3>3
  <2> QED BY <2>2, <2>3
<1>3. room \in Nat /\ area.used <= room
  <2>1. align \in Nat /\ align > 0
    BY <1>2
  <2> QED BY <1>1, <2>1, AlignUpRounds
<1>4. Zeroed(room) \in Seq(0 .. MaxModules) /\ Len(Zeroed(room)) = room
  <2>1. Zeroed(room) = [d \in 1 .. room |-> 0]
    BY DEF Zeroed
  <2>2. 0 \in 0 .. MaxModules
    BY StaticTlsAssumption
  <2>3. Zeroed(room) \in [1 .. room -> 0 .. MaxModules]
    BY <2>1, <2>2
  <2>4. Zeroed(room) \in Seq(0 .. MaxModules)
    BY <1>3, <2>3, FunctionIsSeq
  <2> QED BY <1>3, <2>1, <2>4
<1>5. /\ r.state = "sized" /\ r.bytes = Zeroed(room) /\ r.align = align
      /\ r.sized = Len(modules) /\ r.listed = 0 /\ r.late = FALSE
      /\ r.stray = FALSE
  BY DEF NoStorage
<1>6. r \in StorageType
  <2> DEFINE b == Zeroed(room)
             k == Len(modules)
  <2>1. b \in Seq(0 .. MaxModules) /\ k \in Nat
    BY <1>1, <1>4
  <2>2. r = SizedStorage(b, align, k)
    BY DEF SizedStorage
  <2> HIDE DEF b, k
  <2> QED BY <1>2, <2>1, <2>2, StorageSized
<1>7. Kept(r, area.used, modules)
  <2>1. ASSUME NEW n \in 1 .. Len(modules) PROVE modules[n].align <= align
    <3>1. modules[n].align <= area.max_align
      BY DEF Inv, Layout, Lies
    <3>2. modules[n] \in Segment
      BY <1>1
    <3>3. modules[n].align \in Nat
      BY <3>2 DEF Segment
    <3> QED BY <1>1, <1>2, <3>1, <3>3
  <2> QED BY <1>1, <1>2, <1>3, <1>4, <1>5, <2>1 DEF Kept
<1>8. Types'
  BY <1>0, <1>1, <1>6 DEF Inv, Types
<1>9. Layout'
  BY <1>0 DEF Inv, Layout
<1>10. store'[s] = r /\ \A u \in Storage \ {s} : store'[u] = store[u]
  BY <1>0, <1>1
<1>11. Storages'
  <2>1. ASSUME NEW u \in Storage
        PROVE  /\ Kept(store'[u], area.used, modules)
               /\ store'[u].state = "none" => freed[u] = 0 /\ u \notin allocs'
    <3>1. CASE u = s
      BY <1>5, <1>7, <1>10, <3>1
    <3>2. CASE u # s
      BY <1>0, <1>10, <3>2 DEF Inv, Storages
    <3> QED BY <3>1, <3>2
  <2> QED BY <1>0, <2>1 DEF Storages
<1>12. FreedOnce'
  <2>1. freed[s] = 0
    BY <1>0 DEF Inv, Storages
  <2>2. ASSUME NEW u \in Storage
        PROVE  freed[u] + (IF u \in allocs' THEN 1 ELSE 0) <= 1
    <3>1. CASE u = s
      BY <2>1, <3>1
    <3>2. CASE u # s
      <4>1. u \in allocs' <=> u \in allocs
        BY <1>0, <3>2
      <4> QED BY <4>1 DEF Inv, FreedOnce
    <3> QED BY <3>1, <3>2
  <2> QED BY <1>0, <2>2 DEF FreedOnce
<1>13. QED
  BY <1>8, <1>9, <1>11, <1>12 DEF Inv

(* init copies the images of the listed modules.                           *)
LEMMA InitStorageInv ==
  ASSUME Inv, NEW s \in Storage, InitStorage(s)
  PROVE  Inv'
<1> PICK o : o = store[s]
  OBVIOUS
<1> PICK w : w = Written(o.bytes, modules)
  OBVIOUS
<1> PICK out \in BOOLEAN : out = ~Inside(o.bytes, modules)
  OBVIOUS
<1>0. /\ o.state \in {"sized", "ready"}
      /\ store' = [store EXCEPT ![s].state = "ready",
                                ![s].listed = Len(modules),
                                ![s].bytes = Written(@, modules),
                                ![s].stray = ~Inside(store[s].bytes, modules)]
      /\ UNCHANGED <<area, modules, entering, tried, main, allocs, freed>>
  BY DEF InitStorage
<1>1. /\ modules \in Seq(Segment) /\ Len(modules) \in Nat /\ Ordered(modules)
      /\ \A n \in 1 .. Len(modules) : modules[n].id <= MaxModules
      /\ store \in [Storage -> StorageType] /\ o \in StorageType
      /\ Kept(o, area.used, modules)
      /\ area.used \in Nat
  BY ModulesOrdered, StaticTlsAssumption DEF Inv, Types, Storages
<1>2. o.bytes \in Seq(0 .. MaxModules) /\ Len(o.bytes) \in Nat
      /\ DOMAIN o.bytes = 1 .. Len(o.bytes)
  BY <1>1 DEF StorageType
<1>3. w \in Seq(0 .. MaxModules) /\ DOMAIN w = DOMAIN o.bytes
  <2>1. o.bytes \in [1 .. Len(o.bytes) -> 0 .. MaxModules]
    BY <1>2, LenProperties
  <2>2. w \in [1 .. Len(o.bytes) -> 0 .. MaxModules]
    BY <1>1, <2>1, WrittenType
  <2> QED BY <1>2, <2>2, FunctionIsSeq
<1> PICK l \in Nat : l = Len(modules)
  BY <1>1
<1> PICK r : r = ReadyStorage(o, l, w, out)
  OBVIOUS
<1>4. store' = [store EXCEPT ![s] = r]
  BY <1>0, <1>1 DEF ReadyStorage
<1>5. /\ r \in StorageType
      /\ r.state = "ready" /\ r.bytes = w /\ r.align = o.align
      /\ r.sized = o.sized /\ r.listed = Len(modules) /\ r.late = o.late
      /\ r.stray = out
  <2>1. IsReady(r, o, l, w, out)
    BY <1>1, <1>3, StorageReady
  <2> QED BY <2>1 DEF IsReady
<1>6. store'[s] = r /\ \A u \in Storage \ {s} : store'[u] = store[u]
  BY <1>1, <1>4
<1>7. Types'
  <2>1. store' \in [Storage -> StorageType]
    BY <1>1, <1>4, <1>5
  <2> QED BY <1>0, <2>1 DEF Inv, Types
<1>8. Kept(r, area.used, modules)
  <2>1. r.stray => r.late
    <3> SUFFICES ASSUME ~o.late PROVE Inside(o.bytes, modules)
      BY <1>5
    <3>1. area.used <= Len(o.bytes)
      BY <1>0, <1>1 DEF Kept
    <3>2. ASSUME NEW n \in 1 .. Len(modules)
          PROVE  Block(modules[n]) \subseteq 1 .. Len(o.bytes)
      <4> DEFINE k == modules[n]
      <4>1. k \in Segment /\ k.memsz <= k.off /\ k.off <= area.used
        BY DEF Inv, Layout, Lies
      <4> HIDE DEF k
      <4>2. k.off \in Nat /\ k.memsz \in Nat
        BY <4>1 DEF Segment
      <4>3. Block(k) \subseteq 1 .. Len(o.bytes)
        BY <1>1, <1>2, <3>1, <4>1, <4>2 DEF Block
      <4> QED BY <4>3 DEF k
    <3> QED BY <1>2, <3>2 DEF Inside
  <2>2. ASSUME NEW n \in 1 .. Len(modules),
               NEW d \in Block(modules[n]) \cap DOMAIN w
        PROVE  w[d] = modules[n].id
    <3>1. \A k \in 1 .. Len(modules) :
            \A e \in Block(modules[k]) \cap DOMAIN o.bytes :
              Written(o.bytes, modules)[e] = modules[k].id
      BY <1>1, WrittenHolds
    <3> QED BY <1>3, <3>1
  <2>3. /\ o.sized <= Len(modules) /\ \E e \in Nat : o.align = PowerOf2[e]
        /\ \A n \in 1 .. o.sized : modules[n].align <= o.align
    BY <1>1 DEF Kept
  <2>4. r.listed <= Len(modules)
    BY <1>1, <1>5
  <2>5. ~r.late => area.used <= Len(r.bytes)
    <3>1. Len(w) = Len(o.bytes)
      BY <1>2, <1>3
    <3>2. ~o.late => area.used <= Len(o.bytes)
      BY <1>0, <1>1 DEF Kept
    <3> QED BY <1>5, <3>1, <3>2
  <2> QED BY <1>5, <2>1, <2>2, <2>3, <2>4, <2>5 DEF Kept
<1>9. Layout' /\ FreedOnce'
  BY <1>0 DEF Inv, Layout, FreedOnce
<1>10. Storages'
  <2>1. ASSUME NEW u \in Storage
        PROVE  /\ Kept(store'[u], area.used, modules)
               /\ store'[u].state = "none" => freed[u] = 0 /\ u \notin allocs
    <3>1. CASE u = s
      BY <1>5, <1>6, <1>8, <3>1
    <3>2. CASE u # s
      BY <1>6, <3>2 DEF Inv, Storages
    <3> QED BY <3>1, <3>2
  <2> QED BY <1>0, <2>1 DEF Storages
<1>11. QED
  BY <1>7, <1>9, <1>10 DEF Inv

(* deallocate gives back what is listed, and lists it no more.             *)
LEMMA DeallocateInv ==
  ASSUME Inv, NEW s \in Storage, NEW tcb \in BOOLEAN, Deallocate(s, tcb)
  PROVE  Inv'
<1> DEFINE r == [NoStorage EXCEPT !.state = "gone"]
<1>0. /\ store' = [store EXCEPT ![s] = r] \/ store' = store
      /\ store[s].state # "none"
      /\ \/ /\ s \in allocs /\ allocs' = allocs \ {s}
            /\ freed' = [freed EXCEPT ![s] = freed[s] + 1]
         \/ UNCHANGED <<allocs, freed>>
      /\ UNCHANGED <<area, modules, entering, tried, main>>
  BY DEF Deallocate, Inv, Types
<1>1. /\ store \in [Storage -> StorageType] /\ freed \in [Storage -> Nat]
      /\ modules \in Seq(Segment) /\ area.used \in Nat
  BY StaticTlsAssumption DEF Inv, Types
<1>2. r \in StorageType /\ r.state = "gone" /\ Kept(r, area.used, modules)
  BY <1>1, NoStorageFacts
<1> HIDE DEF r
<1>3. Types'
  <2>1. store' \in [Storage -> StorageType] /\ freed' \in [Storage -> Nat]
        /\ allocs' \subseteq Storage
    BY <1>0, <1>1, <1>2 DEF Inv, Types
  <2> QED BY <1>0, <2>1 DEF Inv, Types
<1>4. Layout'
  BY <1>0 DEF Inv, Layout
<1>5. /\ store'[s] = r \/ store'[s] = store[s]
      /\ \A u \in Storage \ {s} : store'[u] = store[u]
      /\ \A u \in Storage \ {s} :
           freed'[u] = freed[u] /\ (u \in allocs' <=> u \in allocs)
  BY <1>0, <1>1
<1>6. Storages'
  <2>1. ASSUME NEW u \in Storage
        PROVE  /\ Kept(store'[u], area.used, modules)
               /\ store'[u].state = "none" => freed'[u] = 0 /\ u \notin allocs'
    <3>1. CASE u = s
      <4>1. Kept(store[s], area.used, modules)
        BY DEF Inv, Storages
      <4> QED BY <1>0, <1>2, <1>5, <3>1, <4>1
    <3>2. CASE u # s
      BY <1>5, <3>2 DEF Inv, Storages
    <3> QED BY <3>1, <3>2
  <2> QED BY <1>0, <2>1 DEF Storages
<1>7. FreedOnce'
  <2>1. ASSUME NEW u \in Storage
        PROVE  freed'[u] + (IF u \in allocs' THEN 1 ELSE 0) <= 1
    <3>0. freed[u] + (IF u \in allocs THEN 1 ELSE 0) <= 1 /\ freed[u] \in Nat
      BY <1>1 DEF Inv, FreedOnce
    <3>1. CASE u = s
      BY <1>0, <1>1, <3>0, <3>1
    <3>2. CASE u # s
      BY <1>5, <3>0, <3>2
    <3> QED BY <3>1, <3>2
  <2> QED BY <2>1 DEF FreedOnce
<1>8. QED
  BY <1>3, <1>4, <1>6, <1>7 DEF Inv

(* Every step keeps the invariant.                                         *)
LEMMA NextInv ==
  ASSUME Inv, [Next]_vars
  PROVE  Inv'
<1>1. CASE \E info \in Info : Place(info)
  BY <1>1, PlaceInv
<1>2. CASE List
  BY <1>2, ListInv
<1>3. CASE Refresh
  BY <1>3, RefreshInv
<1>4. CASE \E s \in Storage, b \in BOOLEAN : Size(s, b)
  BY <1>4, SizeInv
<1>5. CASE \E s \in Storage, b \in BOOLEAN : Deallocate(s, b)
  BY <1>5, DeallocateInv
<1>6. CASE \E s \in Storage : InitStorage(s)
  BY <1>6, InitStorageInv
<1>7. CASE UNCHANGED vars
  BY <1>7 DEF vars, Inv, Types, Layout, Storages, FreedOnce
<1>8. QED
  BY <1>1, <1>2, <1>3, <1>4, <1>5, <1>6, <1>7 DEF Next

-----------------------------------------------------------------------------
(* What the invariant says.                                                *)

(* Everything is of its type.                                              *)
LEMMA InvTypes == Inv => TypeOK
<1> SUFFICES ASSUME Inv PROVE TypeOK
  OBVIOUS
<1>1. ASSUME NEW s \in Storage
      PROVE  /\ store[s].state \in {"none", "sized", "ready", "gone"}
             /\ \A d \in DOMAIN store[s].bytes : store[s].bytes[d] \in 0 .. MaxModules
  <2> DEFINE r == store[s]
  <2>1. r \in StorageType
    BY DEF Inv, Types
  <2> HIDE DEF r
  <2>2. r.state \in {"none", "sized", "ready", "gone"}
        /\ r.bytes \in Seq(0 .. MaxModules)
    BY <2>1 DEF StorageType
  <2>3. r.bytes \in [1 .. Len(r.bytes) -> 0 .. MaxModules]
    BY <2>2, LenProperties
  <2>4. \A d \in DOMAIN r.bytes : r.bytes[d] \in 0 .. MaxModules
    BY <2>3
  <2> QED BY <2>2, <2>4 DEF r
<1>2. QED
  BY <1>1 DEF Inv, Types, TypeOK, Segment

(* The placed modules lie one below the other in the initial area.         *)
LEMMA InvDisjoint == Inv => BlocksDisjoint
<1> SUFFICES ASSUME Inv PROVE BlocksDisjoint
  OBVIOUS
<1> DEFINE P == Placed
<1>1. modules \in Seq(Segment) /\ entering \in Segment /\ Len(modules) \in Nat
  BY DEF Inv, Types
<1>2. /\ P \in Seq(Segment)
      /\ \A i \in 1 .. Len(P) :
           Lies(P[i], area.used, area.max_align) /\ Held(P[i], main)
      /\ \A i, j \in 1 .. Len(P) : i < j => Below(P[i], P[j])
  <2>1. CASE entering = NoModule
    BY <1>1, <2>1 DEF Inv, Layout, Placed
  <2>2. CASE entering # NoModule
    <3>1. P = Append(modules, entering)
      BY <2>2 DEF Placed
    <3> HIDE DEF P
    <3>2. /\ P \in Seq(Segment) /\ Len(P) = Len(modules) + 1
          /\ P[Len(modules) + 1] = entering
          /\ \A i \in 1 .. Len(modules) : P[i] = modules[i]
      BY <1>1, <3>1
    <3>3. \A i \in 1 .. Len(P) : i \in 1 .. Len(modules) \/ i = Len(modules) + 1
      BY <1>1, <3>2
    <3>4. /\ Lies(entering, area.used, area.max_align) /\ Held(entering, main)
          /\ \A i \in 1 .. Len(modules) :
               /\ Below(modules[i], entering)
               /\ Lies(modules[i], area.used, area.max_align)
               /\ Held(modules[i], main)
          /\ \A i, j \in 1 .. Len(modules) : i < j => Below(modules[i], modules[j])
      BY <2>2 DEF Inv, Layout
    <3>5. ASSUME NEW i \in 1 .. Len(P), NEW j \in 1 .. Len(P), i < j
          PROVE  Below(P[i], P[j])
      <4>1. i \in 1 .. Len(modules)
        BY <1>1, <3>2, <3>5
      <4> QED BY <3>2, <3>3, <3>4, <3>5, <4>1
    <3> QED BY <3>2, <3>3, <3>4, <3>5
  <2> QED BY <2>1, <2>2
<1> HIDE DEF P
<1>3. Ordered(P)
  BY <1>2 DEF Ordered
<1>4. \A i, j \in 1 .. Len(P) : i # j => Block(P[i]) \cap Block(P[j]) = {}
  BY <1>2, <1>3, OrderedDisjoint
<1>5. ASSUME NEW i \in 1 .. Len(P)
      PROVE  /\ Block(P[i]) \subseteq 1 .. ArenaSize
             /\ \A d \in Block(P[i]) : main[d] = P[i].id
  <2> DEFINE k == P[i]
  <2>1. k \in Segment /\ k.memsz <= k.off /\ k.off <= area.used /\ Held(k, main)
    BY <1>2 DEF Lies
  <2>2. area.used \in 0 .. ArenaSize /\ ArenaSize \in Nat
    BY StaticTlsAssumption DEF Inv, Types
  <2> HIDE DEF k
  <2>3. k.off \in Nat /\ k.memsz \in Nat
    BY <2>1 DEF Segment
  <2>4. Block(k) \subseteq 1 .. ArenaSize
    BY <2>1, <2>2, <2>3 DEF Block
  <2>5. \A d \in Block(k) : main[d] = k.id
    BY <2>1 DEF Held
  <2> QED BY <2>4, <2>5 DEF k
<1>6. QED
  BY <1>4, <1>5 DEF BlocksDisjoint, P

(* An initialised storage holds the images, aligned.                       *)
LEMMA InvImages == Inv => StorageHoldsImages
<1> SUFFICES ASSUME Inv, NEW s \in Storage, store[s].state = "ready",
                    NEW n \in 1 .. store[s].listed
             PROVE  /\ \A d \in Block(modules[n]) \cap DOMAIN store[s].bytes :
                         store[s].bytes[d] = modules[n].id
                    /\ n <= store[s].sized =>
                         /\ store[s].align % modules[n].align = 0
                         /\ modules[n].off % modules[n].align = 0
  BY DEF StorageHoldsImages
<1> DEFINE r == store[s]
<1>1. r \in StorageType /\ Kept(r, area.used, modules)
  BY DEF Inv, Types, Storages
<1> HIDE DEF r
<1>2. r.state = "ready" /\ n \in 1 .. r.listed
  BY DEF r
<1>3. \A d \in Block(modules[n]) \cap DOMAIN r.bytes : r.bytes[d] = modules[n].id
  BY <1>1, <1>2 DEF Kept
<1>4. ASSUME n <= r.sized
      PROVE  r.align % modules[n].align = 0 /\ modules[n].off % modules[n].align = 0
  <2>1. r.sized \in Nat /\ r.listed \in Nat /\ Len(modules) \in Nat
    BY <1>1 DEF StorageType, Inv, Types
  <2>2. r.sized <= Len(modules)
    BY <1>1 DEF Kept
  <2>3. n \in 1 .. Len(modules) /\ n \in 1 .. r.sized
    BY <1>2, <1>4, <2>1, <2>2
  <2>4. Lies(modules[n], area.used, area.max_align) /\ modules[n].align <= r.align
    BY <1>1, <2>3 DEF Inv, Layout, Kept
  <2>5. PICK a \in Nat : modules[n].align = PowerOf2[a]
    BY <2>4 DEF Lies
  <2>6. PICK b \in Nat : r.align = PowerOf2[b]
    BY <1>1 DEF Kept
  <2>7. PowerOf2[b] % PowerOf2[a] = 0
    BY <2>4, <2>5, <2>6, PowersDivide
  <2> QED BY <2>4, <2>5, <2>6, <2>7 DEF Lies
<1>5. QED
  BY <1>3, <1>4 DEF r

(* Initialisation strays only behind the back of a placed module.          *)
LEMMA InvStray == Inv => StrayOnlyIfLate
BY DEF Inv, Storages, Kept, StrayOnlyIfLate

-----------------------------------------------------------------------------
(* The theorems.                                                           *)

(* The invariant holds in every reachable state.                           *)
LEMMA InvAlways == Spec => []Inv
<1>1. Inv /\ [Next]_vars => Inv'
  BY NextInv
<1>2. QED
  BY <1>1, InitInv, PTL DEF Spec

(* What is in use never exceeds the arena, and bytes hold modules.         *)
THEOREM TypeCorrect == Spec => []TypeOK
<1>1. QED
  BY InvTypes, InvAlways, PTL

(* Blocks of static TLS never overlap, whatever segments are registered    *)
(* and whichever registrations fail, and the initial thread's area holds   *)
(* the image of each.                                                      *)
THEOREM BlocksNeverOverlap == Spec => []BlocksDisjoint
<1>1. QED
  BY InvDisjoint, InvAlways, PTL

(* A thread's storage holds the image of every module listed when it was   *)
(* initialised, at its alignment if the module was listed when it was      *)
(* sized: a smaller power of two divides a larger one.                     *)
THEOREM ImagesInStorage == Spec => []StorageHoldsImages
<1>1. QED
  BY InvImages, InvAlways, PTL

(* The only initialisations that write outside of a storage are those that *)
(* a registration between allocate_storage and init has made too small.    *)
THEOREM StraysOnlyBehindARegistration == Spec => []StrayOnlyIfLate
<1>1. QED
  BY InvStray, InvAlways, PTL

(* Storage is given back at most once, and only if it was allocated here.  *)
THEOREM GivenBackOnce == Spec => []FreedOnce
<1>1. Inv => FreedOnce
  BY DEF Inv
<1>2. QED
  BY <1>1, InvAlways, PTL
=============================================================================
