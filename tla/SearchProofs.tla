---------------------------- MODULE SearchProofs ----------------------------
(***************************************************************************)
(* Proofs about modules LdCache and Search, for caches, directory lists,   *)
(* file systems and scripts of every size, not only for the small ones     *)
(* that TLC enumerates:                                                    *)
(*   - lookup finds an entry if the cache has a usable one;                *)
(*   - a file that is registered already is not loaded again;              *)
(*   - a search gives what the search order promises for the files before  *)
(*     or after a change.  First says what a list of candidates yields in  *)
(*     a file system that stands still, when a number of scripts may be    *)
(*     followed; every step keeps it, or uses up one script.  For a file   *)
(*     system that changes once, the search keeps to one of the two: it    *)
(*     has not looked at the path that changes, or will not look again;    *)
(*   - a well-formed script yields the words of its groups.                *)
(***************************************************************************)
EXTENDS Search, FiniteSetTheorems, Induction

Index == 0 .. nlibs - 1

(* The cache is sorted the way is_descending says.                         *)
Directed ==
  \A m, n \in Index : m <= n => IF is_descending THEN GetName(m) >= GetName(n)
                                ELSE GetName(m) <= GetName(n)

(* Where the entries of the name can still be.  While the code probes,     *)
(* they all lie in left .. right - 1.  While it goes back, i is one of     *)
(* them.  While it scans, those before i are not usable, and i is in the   *)
(* run of them or just behind it.                                          *)
Where ==
  /\ pc = "probe" => \A n \in Index : GetName(n) = lib_name =>
                                        left <= n /\ n < right
  /\ pc = "back" => i \in Index /\ GetName(i) = lib_name
  /\ pc = "scan" =>
       /\ \A n \in Index : n < i /\ GetName(n) = lib_name => ~Usable(n)
       /\ \/ i \in Index /\ GetName(i) = lib_name
          \/ i - 1 \in Index /\ GetName(i - 1) = lib_name

(* What the search relies on in a cache whose names can all be read.       *)
Hunt ==
  /\ pc \in {"probe", "back", "scan"} => Directed
  /\ Where

LookupTypes ==
  /\ cache \in Seq(Entry)
  /\ Ascending(cache) \/ Descending(cache)
  /\ lib_name \in Int
  /\ pc \in {"start", "probe", "back", "scan", "done"}
  /\ is_descending \in BOOLEAN
  /\ left \in Nat /\ right \in 0 .. nlibs
  /\ i \in 0 .. nlibs
  /\ result \in Int

LookupInv ==
  /\ LookupTypes
  /\ AllLegible(cache) => Hunt
  /\ LookupCorrect

(* Names are numbers, and a sorted cache is sorted as positions count.     *)
LEMMA Names ==
  ASSUME LookupInv
  PROVE  /\ nlibs \in Nat
         /\ \A n \in Index : GetName(n) \in Int /\ Usable(n) \in BOOLEAN
         /\ AllLegible(cache) =>
              /\ \A n \in Index : Legible(n) = TRUE
              /\ \/ \A m, n \in Index : m <= n => GetName(m) <= GetName(n)
                 \/ \A m, n \in Index : m <= n => GetName(m) >= GetName(n)
<1>1. nlibs \in Nat /\ \A n \in Index : n + 1 \in 1 .. Len(cache)
  BY DEF LookupInv, LookupTypes, nlibs, Index
<1>2. \A n \in 1 .. Len(cache) : cache[n] \in Entry
  BY DEF LookupInv, LookupTypes
<1>3. \A n \in Index : GetName(n) \in Int /\ Usable(n) \in BOOLEAN
  BY <1>1, <1>2, LdCacheAssumption DEF GetName, Usable, Entry
<1>4. ASSUME AllLegible(cache)
      PROVE  /\ \A n \in Index : Legible(n) = TRUE
             /\ \/ \A m, n \in Index : m <= n => GetName(m) <= GetName(n)
                \/ \A m, n \in Index : m <= n => GetName(m) >= GetName(n)
  <2>1. \A n \in 1 .. Len(cache) : cache[n].legible = TRUE
    BY <1>2, <1>4 DEF AllLegible, Entry
  <2>2. \A n \in Index : Legible(n) = TRUE
    BY <1>1, <2>1 DEF Legible
  <2>3. CASE Ascending(cache)
    BY <1>1, <2>1, <2>2, <2>3 DEF Ascending, GetName, Index
  <2>4. CASE Descending(cache)
    BY <1>1, <2>1, <2>2, <2>4 DEF Descending, GetName, Index
  <2> QED BY <2>3, <2>4 DEF LookupInv, LookupTypes
<1>5. QED
  BY <1>1, <1>3, <1>4

(* Every search starts in the invariant.                                   *)
LEMMA InitLookupInv == Init => LookupInv
<1> SUFFICES ASSUME Init PROVE LookupInv
  OBVIOUS
<1>1. cache \in Seq(Entry) /\ (Ascending(cache) \/ Descending(cache))
  BY LdCacheAssumption DEF Init
<1>2. Len(cache) \in Nat
  BY <1>1
<1>3. lib_name \in Int
  BY LdCacheAssumption DEF Init
<1>4. Hunt /\ LookupCorrect
  BY DEF Init, Hunt, Where, LookupCorrect
<1>5. left = 0 /\ right = 0 /\ i = 0 /\ result \in Int
  BY DEF Init
<1>6. pc = "start" /\ is_descending \in BOOLEAN
  BY Zenon DEF Init
<1>7. QED
  BY <1>1, <1>2, <1>3, <1>4, <1>5, <1>6 DEF LookupInv, LookupTypes, nlibs

(* An answer that is right, and everything else left alone.                *)
LEMMA ReturnLookupInv ==
  ASSUME LookupInv, NEW n \in Int, Return(n),
         \/ n \in Index /\ IsNamed(n) /\ Usable(n)
         \/ n = -1,
         AllLegible(cache) =>
           \A m \in Index : (n = -1 \/ m < n) /\ GetName(m) = lib_name => ~Usable(m)
  PROVE  LookupInv'
<1>1. nlibs \in Nat
  BY Names
<1>2. LookupCorrect'
  BY <1>1 DEF Return, LookupCorrect, nlibs, GetName, Legible, IsNamed, Usable, Index
<1>3. QED
  BY <1>2 DEF LookupInv, LookupTypes, Return, Hunt, Where, nlibs

(* A step that goes on.                                                    *)
LEMMA GoesOn ==
  ASSUME LookupInv, UNCHANGED <<cache, lib_name, result>>,
         pc' \in {"probe", "back", "scan"}, is_descending' \in BOOLEAN,
         left' \in Nat, right' \in 0 .. nlibs, i' \in 0 .. nlibs,
         AllLegible(cache) => Directed' /\ Where'
  PROVE  LookupInv'
BY DEF LookupInv, LookupTypes, LookupCorrect, Hunt, nlibs

(* Finding the direction of the cache keeps the invariant.                 *)
LEMMA StartLookupInv == LookupInv /\ Start => LookupInv'
<1> SUFFICES ASSUME LookupInv, Start PROVE LookupInv'
  OBVIOUS
<1>1. CASE (nlibs > 0 => ~Legible(0) \/ ~Legible(nlibs - 1)) /\ Return(-1)
  <2>1. ASSUME AllLegible(cache) PROVE Index = {}
    <3>1. nlibs \in Nat /\ \A n \in Index : Legible(n) = TRUE
      BY <2>1, Names
    <3>2. nlibs > 0 => 0 \in Index /\ nlibs - 1 \in Index
      BY <3>1 DEF Index
    <3>3. ~(nlibs > 0)
      BY <1>1, <3>1, <3>2
    <3> QED BY <3>1, <3>3 DEF Index
  <2>2. /\ -1 \in Int
        /\ AllLegible(cache) =>
             \A m \in Index : (-1 = -1 \/ m < -1) /\ GetName(m) = lib_name => ~Usable(m)
    BY <2>1
  <2> QED BY <1>1, <2>2, ReturnLookupInv
<1>2. CASE /\ nlibs > 0
           /\ is_descending' = (GetName(0) > GetName(nlibs - 1))
           /\ left' = 0
           /\ right' = nlibs
           /\ pc' = "probe"
           /\ UNCHANGED <<cache, lib_name, i, result>>
  <2>1. /\ nlibs \in Nat /\ 0 \in Index /\ nlibs - 1 \in Index
        /\ \A n \in Index : 0 <= n /\ n <= nlibs - 1 /\ n < nlibs
    BY <1>2, Names DEF Index
  <2>2. (GetName(0) > GetName(nlibs - 1)) \in BOOLEAN
    BY <2>1, Names
  <2>3. is_descending' \in BOOLEAN
    BY <1>2, <2>2, Zenon
  <2>4. ASSUME AllLegible(cache) PROVE Directed'
    <3>1. CASE GetName(0) > GetName(nlibs - 1)
      <4>1. \A m, n \in Index : m <= n => GetName(m) >= GetName(n)
        BY <2>1, <2>4, <3>1, Names
      <4>2. is_descending'
        BY <1>2, <3>1
      <4> QED BY <1>2, <4>1, <4>2 DEF Directed, nlibs, GetName, Index
    <3>2. CASE ~(GetName(0) > GetName(nlibs - 1))
      <4>1. \A m, n \in Index : m <= n => GetName(m) <= GetName(n)
        BY <2>1, <2>4, <3>2, Names
      <4>2. is_descending' = FALSE
        BY <1>2, <2>2, <3>2, Zenon
      <4> QED BY <1>2, <4>1, <4>2 DEF Directed, nlibs, GetName, Index
    <3> QED BY <3>1, <3>2
  <2>5. Where'
    BY <1>2, <2>1 DEF Where, nlibs, GetName, Index
  <2>6. left' \in Nat /\ right' \in 0 .. nlibs /\ i' \in 0 .. nlibs
    BY <1>2, <2>1 DEF LookupInv, LookupTypes
  <2> QED BY <1>2, <2>3, <2>4, <2>5, <2>6, GoesOn
<1>3. QED
  BY <1>1, <1>2 DEF Start

(* One turn of the binary search keeps the invariant.                      *)
LEMMA ProbeLookupInv == LookupInv /\ Probe => LookupInv'
<1> SUFFICES ASSUME LookupInv, Probe PROVE LookupInv'
  OBVIOUS
<1> PICK mid : mid = Mid
  OBVIOUS
<1> DEFINE name == GetName(mid)
<1>1. /\ pc = "probe" /\ left < right
      /\ UNCHANGED <<cache, lib_name, is_descending, result>>
  BY DEF Probe
<1>2. /\ mid \in Nat /\ left <= mid /\ mid < right /\ right <= nlibs
      /\ nlibs \in Nat /\ mid \in Index
      /\ left \in Nat /\ right \in 0 .. nlibs /\ i \in 0 .. nlibs
      /\ is_descending \in BOOLEAN /\ lib_name \in Int
  <2>1. /\ nlibs \in Nat /\ left \in Nat /\ right \in 0 .. nlibs /\ i \in 0 .. nlibs
        /\ is_descending \in BOOLEAN /\ lib_name \in Int
    BY Names DEF LookupInv, LookupTypes
  <2>2. mid \in Nat /\ left <= mid /\ mid < right
    BY <1>1, <2>1 DEF Mid
  <2> QED BY <2>1, <2>2 DEF Index
<1>3. \A n \in Index : GetName(n) \in Int
  BY Names
<1>4. AllLegible(cache) =>
        /\ Directed
        /\ \A n \in Index : GetName(n) = lib_name => left <= n /\ n < right
  BY <1>1 DEF LookupInv, Hunt, Where
<1>5. Directed => Directed'
  BY <1>1 DEF Directed, nlibs, GetName, Index
<1>6. CASE /\ name = lib_name
           /\ i' = mid
           /\ pc' = "back"
           /\ UNCHANGED <<left, right>>
  <2>1. Where'
    BY <1>1, <1>2, <1>6 DEF Where, nlibs, GetName, Index
  <2>2. i' \in 0 .. nlibs
    BY <1>2, <1>6
  <2> QED BY <1>1, <1>2, <1>4, <1>5, <1>6, <2>1, <2>2, GoesOn
<1>7. CASE /\ name # lib_name /\ Less(name)
           /\ right' = mid
           /\ UNCHANGED <<left, i, pc>>
  <2>1. AllLegible(cache) => \A n \in Index : GetName(n) = lib_name => n < mid
    BY <1>2, <1>3, <1>4, <1>7 DEF Directed, Less, Index
  <2>2. AllLegible(cache) => Where'
    BY <1>1, <1>2, <1>4, <1>7, <2>1 DEF Where, nlibs, GetName, Index
  <2>3. right' \in 0 .. nlibs
    BY <1>2, <1>7
  <2> QED BY <1>1, <1>2, <1>4, <1>5, <1>7, <2>2, <2>3, GoesOn
<1>8. CASE /\ name # lib_name /\ ~Less(name)
           /\ left' = mid + 1
           /\ UNCHANGED <<right, i, pc>>
  <2>1. AllLegible(cache) => \A n \in Index : GetName(n) = lib_name => mid + 1 <= n
    BY <1>2, <1>3, <1>4, <1>8 DEF Directed, Less, Index
  <2>2. AllLegible(cache) => Where'
    BY <1>1, <1>2, <1>4, <1>8, <2>1 DEF Where, nlibs, GetName, Index
  <2>3. left' \in Nat
    BY <1>2, <1>8
  <2> QED BY <1>1, <1>2, <1>4, <1>5, <1>8, <2>2, <2>3, GoesOn
<1>9. QED
  BY <1>6, <1>7, <1>8 DEF Probe

(* The step back to the first entry of the name keeps the invariant.       *)
LEMMA BackLookupInv == LookupInv /\ Back => LookupInv'
<1> SUFFICES ASSUME LookupInv, Back PROVE LookupInv'
  OBVIOUS
<1>1. /\ pc = "back"
      /\ UNCHANGED <<cache, lib_name, is_descending, left, right, result>>
  BY DEF Back
<1>2. /\ nlibs \in Nat /\ \A n \in Index : GetName(n) \in Int
      /\ left \in Nat /\ right \in 0 .. nlibs /\ i \in 0 .. nlibs
      /\ is_descending \in BOOLEAN
  BY Names DEF LookupInv, LookupTypes
<1>3. AllLegible(cache) => /\ i \in Index /\ GetName(i) = lib_name /\ Directed
                           /\ \A n \in Index : Legible(n) = TRUE
  BY <1>1, Names DEF LookupInv, Hunt, Where
<1>4. Directed => Directed'
  BY <1>1 DEF Directed, nlibs, GetName, Index
<1>5. CASE i > 0 /\ IsNamed(i - 1) /\ i' = i - 1 /\ UNCHANGED pc
  <2>1. i - 1 \in 0 .. nlibs /\ i - 1 \in Index
    BY <1>2, <1>5 DEF Index
  <2>2. Where'
    BY <1>1, <1>2, <1>5, <2>1 DEF Where, nlibs, GetName, IsNamed, Index
  <2> QED BY <1>1, <1>2, <1>3, <1>4, <1>5, <2>1, <2>2, GoesOn
<1>6. CASE ~(i > 0 /\ IsNamed(i - 1)) /\ pc' = "scan" /\ UNCHANGED i
  <2>1. ASSUME AllLegible(cache), NEW n \in Index, n < i PROVE GetName(n) # lib_name
    <3>1. i \in Index /\ GetName(i) = lib_name /\ Directed
      BY <1>3, <2>1
    <3>2. i - 1 \in Index /\ n <= i - 1 /\ i - 1 <= i /\ i > 0
      BY <1>2, <2>1, <3>1 DEF Index
    <3>3. GetName(i - 1) # lib_name
      BY <1>3, <1>6, <2>1, <3>2 DEF IsNamed
    <3> QED BY <1>2, <3>1, <3>2, <3>3 DEF Directed
  <2>2. AllLegible(cache) => Where'
    BY <1>1, <1>2, <1>3, <1>6, <2>1 DEF Where, nlibs, GetName, Usable, Index
  <2> QED BY <1>1, <1>2, <1>3, <1>4, <1>6, <2>2, GoesOn
<1>7. QED
  BY <1>5, <1>6 DEF Back

(* The scan for a usable entry keeps the invariant.                        *)
LEMMA ScanLookupInv == LookupInv /\ Scan => LookupInv'
<1> SUFFICES ASSUME LookupInv, Scan PROVE LookupInv'
  OBVIOUS
<1>1. pc = "scan"
  BY DEF Scan
<1>2. /\ nlibs \in Nat /\ \A n \in Index : GetName(n) \in Int
      /\ left \in Nat /\ right \in 0 .. nlibs /\ i \in 0 .. nlibs
      /\ is_descending \in BOOLEAN
  BY Names DEF LookupInv, LookupTypes
<1>3. AllLegible(cache) =>
        /\ Directed
        /\ \A n \in Index : n < i /\ GetName(n) = lib_name => ~Usable(n)
        /\ \/ i \in Index /\ GetName(i) = lib_name
           \/ i - 1 \in Index /\ GetName(i - 1) = lib_name
        /\ \A n \in Index : Legible(n) = TRUE
  BY <1>1, Names DEF LookupInv, Hunt, Where
<1>4. CASE i < nlibs /\ IsNamed(i) /\ Usable(i) /\ Return(i)
  <2>1. i \in Index /\ i \in Int /\ i # -1
    BY <1>2, <1>4 DEF Index
  <2> QED BY <1>3, <1>4, <2>1, ReturnLookupInv
<1>5. CASE /\ i < nlibs /\ IsNamed(i) /\ ~Usable(i)
           /\ i' = i + 1
           /\ UNCHANGED <<cache, lib_name, pc, is_descending, left, right, result>>
  <2>1. /\ i \in Index /\ i + 1 \in 0 .. nlibs /\ i = i + 1 - 1
        /\ \A n \in Index : n < i + 1 => n < i \/ n = i
    BY <1>2, <1>5 DEF Index
  <2>2. AllLegible(cache) =>
          \A n \in Index : n < i + 1 /\ GetName(n) = lib_name => ~Usable(n)
    BY <1>3, <1>5, <2>1
  <2>3. Directed => Directed'
    BY <1>5 DEF Directed, nlibs, GetName, Index
  <2>4. AllLegible(cache) => Where'
    BY <1>1, <1>2, <1>5, <2>1, <2>2
       DEF Where, nlibs, GetName, IsNamed, Usable, Index
  <2> QED BY <1>1, <1>2, <1>3, <1>5, <2>1, <2>3, <2>4, GoesOn
<1>6. CASE ~(i < nlibs /\ IsNamed(i)) /\ Return(-1)
  <2>1. ASSUME AllLegible(cache), NEW n \in Index, n >= i PROVE GetName(n) # lib_name
    <3>0. i \in Index
      BY <1>2, <2>1 DEF Index
    <3>1. /\ GetName(i) # lib_name
          /\ i - 1 \in Index /\ GetName(i - 1) = lib_name
          /\ i - 1 <= i /\ Directed
      BY <1>2, <1>3, <1>6, <2>1, <3>0 DEF Index, IsNamed
    <3> QED BY <1>2, <2>1, <3>0, <3>1 DEF Directed
  <2>2. \A n \in Index : n < i \/ n >= i
    BY <1>2 DEF Index
  <2> QED BY <1>3, <1>6, <2>1, <2>2, ReturnLookupInv
<1>7. QED
  BY <1>4, <1>5, <1>6 DEF Scan

(* Every step of lookup keeps the invariant.                               *)
LEMMA NextLookupInv == LookupInv /\ [Next]_vars => LookupInv'
<1> SUFFICES ASSUME LookupInv, [Next]_vars PROVE LookupInv'
  OBVIOUS
<1>1. CASE NotFound
  <2>1. ASSUME AllLegible(cache), NEW n \in Index PROVE GetName(n) # lib_name
    <3>1. /\ GetName(n) = lib_name => left <= n /\ n < right
          /\ nlibs \in Nat /\ left \in Nat /\ right \in 0 .. nlibs
      BY <1>1, <2>1, Names DEF NotFound, LookupInv, LookupTypes, Hunt, Where
    <3>2. CASE left < right
      <4>1. Mid \in Index
        BY <3>1, <3>2 DEF Mid, Index
      <4> QED BY <1>1, <2>1, <3>2, <4>1, Names DEF NotFound
    <3>3. CASE ~(left < right)
      BY <3>1, <3>3 DEF Index
    <3> QED BY <3>2, <3>3
  <2> QED BY <1>1, <2>1, ReturnLookupInv DEF NotFound
<1>2. CASE UNCHANGED vars
  BY <1>2 DEF vars, LookupInv, LookupTypes, Hunt, Where, Directed, LookupCorrect, nlibs,
              GetName, Legible, IsNamed, Usable, Index
<1>3. QED
  BY <1>1, <1>2, StartLookupInv, ProbeLookupInv, BackLookupInv, ScanLookupInv DEF Next

(* LdCache::lookup finds the first usable entry of a name, or nothing if   *)
(* there is none, in every cache that is sorted one way or the other and   *)
(* whose names can all be read; in any other it returns nothing wrong.     *)
THEOREM LookupSafe == Spec => []LookupCorrect
<1>1. LookupInv => LookupCorrect
  BY DEF LookupInv
<1>2. QED
  BY <1>1, InitLookupInv, NextLookupInv, PTL DEF Spec

-----------------------------------------------------------------------------
(* Linker scripts.                                                         *)

WordAt(text, n) == IF n <= Len(text) THEN text[n].word ELSE "end"

(* What get_linker_script_libs still finds from position n on, inside d    *)
(* groups, when f says what it finds later.                                *)
ParseRow(text, f, n, d) ==
  IF n > Len(text) THEN <<>>
  ELSE IF d = 0 THEN
    IF WordAt(text, n) = "GROUP" /\ WordAt(text, n + 1) = "(" THEN f[n + 2][1]
    ELSE f[n + 1][0]
  ELSE CASE WordAt(text, n) = ")" -> f[n + 1][d - 1]
         [] WordAt(text, n) = "AS_NEEDED" ->
              f[n + 2][IF WordAt(text, n + 1) = "(" THEN d + 1 ELSE d]
         [] WordAt(text, n) = "option" -> f[n + 1][d]
         [] OTHER -> <<text[n].lib>> \o f[n + 1][d]

Parses(text, f) ==
  /\ f \in [1 .. Len(text) + 2 -> [Nat -> Seq(Request)]]
  /\ \A n \in 1 .. Len(text) + 2, d \in Nat : f[n][d] = ParseRow(text, f, n, d)

(* Only the rows behind n matter.                                          *)
LEMMA ParseRowType ==
  ASSUME NEW text \in Seq(Token), NEW n \in 1 .. Len(text), NEW d \in Nat,
         NEW f, f[n + 1] \in [Nat -> Seq(Request)],
         f[n + 2] \in [Nat -> Seq(Request)]
  PROVE  ParseRow(text, f, n, d) \in Seq(Request)
<1>1. text[n].lib \in Request
  <2>1. text[n] \in Token
    OBVIOUS
  <2> QED BY <2>1 DEF Token
<1>2. /\ f[n + 1][0] \in Seq(Request) /\ f[n + 2][1] \in Seq(Request)
      /\ f[n + 1][d] \in Seq(Request)
      /\ f[n + 2][d] \in Seq(Request) /\ f[n + 2][d + 1] \in Seq(Request)
      /\ d # 0 => f[n + 1][d - 1] \in Seq(Request)
  <2>1. \A r \in [Nat -> Seq(Request)], k \in Nat : r[k] \in Seq(Request)
    OBVIOUS
  <2>2. d + 1 \in Nat /\ (d # 0 => d - 1 \in Nat) /\ 0 \in Nat /\ 1 \in Nat
    OBVIOUS
  <2> QED BY <2>1, <2>2
<1>3. <<text[n].lib>> \o f[n + 1][d] \in Seq(Request)
  BY <1>1, <1>2
<1>4. CASE d = 0
  BY <1>2, <1>4 DEF ParseRow
<1>5. CASE d # 0
  <2>1. ~(n > Len(text))
    OBVIOUS
  <2> HIDE DEF Request
  <2> QED BY <1>2, <1>3, <1>5, <2>1 DEF ParseRow
<1>6. QED
  BY <1>4, <1>5

(* The parser's table exists: every row is made from the two behind it.    *)
LEMMA ParseTable ==
  ASSUME NEW text \in Seq(Token)
  PROVE  \E f : Parses(text, f)
<1> DEFINE N == Len(text)
           Row == [Nat -> Seq(Request)]
           behind(n, p) == [m \in 1 .. N + 2 |-> IF m = n + 1 THEN p[1] ELSE p[2]]
           row(n, p) == [d \in Nat |-> ParseRow(text, behind(n, p), n, d)]
           make == [n \in 1 .. N |-> [p \in Row \X Row |-> row(n, p)]]
           none == [d \in Nat |-> <<>>]
<1>1. N \in Nat /\ none \in Row
  OBVIOUS
<1>2. ASSUME NEW n \in 1 .. N, NEW p \in Row \X Row
      PROVE  /\ behind(n, p)[n + 1] = p[1] /\ behind(n, p)[n + 2] = p[2]
             /\ row(n, p) \in Row
  <2>1. /\ n + 1 \in 1 .. N + 2 /\ n + 2 \in 1 .. N + 2 /\ n + 2 # n + 1
    BY <1>1
  <2>2. behind(n, p)[n + 1] = p[1] /\ behind(n, p)[n + 2] = p[2]
    BY <2>1
  <2>3. p[1] \in Row /\ p[2] \in Row
    OBVIOUS
  <2> HIDE DEF behind
  <2>4. \A d \in Nat : ParseRow(text, behind(n, p), n, d) \in Seq(Request)
    BY <2>2, <2>3, ParseRowType
  <2> QED BY <2>2, <2>4
<1>3. make \in [1 .. N -> [Row \X Row -> Row]]
  <2> HIDE DEF row, Row
  <2> QED BY <1>2
<1>4. \A n \in 1 .. N, p \in Row \X Row : make[n][p] = row(n, p)
  <2> HIDE DEF row, Row
  <2> QED OBVIOUS
<1> HIDE DEF make, none, Row
<1> PICK f : IsDownward(f, Row, none, N, make)
  <2> HIDE DEF N
  <2> QED BY <1>1, <1>3, DownwardRecursion
<1>0. /\ f \in [1 .. N + 2 -> Row]
      /\ f[N + 1] = none /\ f[N + 2] = none
      /\ \A n \in 1 .. N : f[n] = make[n][<<f[n + 1], f[n + 2]>>]
  BY DEF IsDownward
<1>5. ASSUME NEW n \in 1 .. N + 2, NEW d \in Nat
      PROVE  f[n][d] = ParseRow(text, f, n, d)
  <2>1. CASE n > N
    <3>1. n = N + 1 \/ n = N + 2
      BY <1>1, <2>1
    <3>2. f[n][d] = <<>>
      BY <1>0, <3>1 DEF none
    <3> QED BY <2>1, <3>2 DEF ParseRow
  <2>2. CASE n <= N
    <3> DEFINE p == <<f[n + 1], f[n + 2]>>
    <3>1. n \in 1 .. N /\ n + 1 \in 1 .. N + 2 /\ n + 2 \in 1 .. N + 2
      BY <1>1, <2>2
    <3>2. p \in Row \X Row
      BY <1>0, <3>1
    <3>3. f[n] = row(n, p)
      <4>1. f[n] = make[n][p]
        BY <1>0, <3>1
      <4> HIDE DEF p, row
      <4> QED BY <1>4, <3>1, <3>2, <4>1
    <3>4. behind(n, p)[n + 1] = f[n + 1] /\ behind(n, p)[n + 2] = f[n + 2]
      <4>1. behind(n, p)[n + 1] = p[1] /\ behind(n, p)[n + 2] = p[2]
        <5> HIDE DEF p, behind
        <5> QED BY <1>2, <3>1, <3>2
      <4> QED BY <4>1
    <3> HIDE DEF behind, p
    <3>5. f[n][d] = ParseRow(text, behind(n, p), n, d)
      BY <3>3
    <3> QED BY <3>4, <3>5 DEF ParseRow
  <2> QED BY <1>1, <2>1, <2>2
<1>6. f \in [1 .. Len(text) + 2 -> [Nat -> Seq(Request)]]
  BY <1>0 DEF Row
<1>7. Parses(text, f)
  BY <1>5, <1>6 DEF Parses
<1>8. QED
  BY <1>7

(* Parse reads its answer off that table.                                  *)
LEMMA ParseByTable ==
  ASSUME NEW text \in Seq(Token)
  PROVE  \E f : Parses(text, f) /\ Parse(text) = f[1][0]
<1> DEFINE Rec(g) == [n \in 1 .. Len(text) + 2 |->
                        [d \in Nat |-> ParseRow(text, g, n, d)]]
           f == CHOOSE g : g = Rec(g)
<1>1. Parse(text) = f[1][0]
  BY DEF Parse, ParseRow, WordAt
<1> PICK h : Parses(text, h)
  BY ParseTable
<1>2. h = Rec(h)
  <2>1. \A n \in 1 .. Len(text) + 2 : h[n] = [d \in Nat |-> ParseRow(text, h, n, d)]
    BY DEF Parses
  <2> QED BY <2>1 DEF Parses
<1>3. f = Rec(f)
  <2> HIDE DEF Rec
  <2> QED BY <1>2
<1> HIDE DEF f
<1>4. \A n \in 1 .. Len(text) + 2, d \in Nat : f[n][d] = ParseRow(text, f, n, d)
  <2>1. \A n \in 1 .. Len(text) + 2, d \in Nat :
          Rec(f)[n][d] = ParseRow(text, f, n, d)
    OBVIOUS
  <2> HIDE DEF Rec
  <2> QED BY <1>3, <2>1
<1>5. \A n \in 1 .. Len(text) + 2 : f[n] \in [Nat -> Seq(Request)]
  <2> DEFINE N == Len(text)
             Typed == {m \in Nat : m <= N + 1 =>
                         \A n \in 1 .. N + 2 : n >= N + 2 - m =>
                           f[n] \in [Nat -> Seq(Request)]}
  <2>0. N \in Nat /\ \A n \in 1 .. N + 2 : f[n] = [d \in Nat |-> f[n][d]]
    BY <1>3
  <2>1. ASSUME NEW n \in 1 .. N + 2, n > N PROVE f[n] \in [Nat -> Seq(Request)]
    <3>1. \A d \in Nat : f[n][d] = <<>>
      BY <1>4, <2>1 DEF ParseRow
    <3>2. f[n] = [d \in Nat |-> <<>>]
      BY <2>0, <3>1
    <3>3. [d \in Nat |-> <<>>] \in [Nat -> Seq(Request)]
      OBVIOUS
    <3> QED BY <3>2, <3>3
  <2>2. 0 \in Typed
    BY <2>0, <2>1
  <2>3. ASSUME NEW m \in Nat, m \in Typed PROVE m + 1 \in Typed
    <3> SUFFICES ASSUME m + 1 <= N + 1, NEW n \in 1 .. N + 2,
                        n >= N + 2 - (m + 1)
                 PROVE  f[n] \in [Nat -> Seq(Request)]
      OBVIOUS
    <3>1. CASE n > N
      BY <2>1, <3>1
    <3>2. CASE n <= N
      <4>1. /\ n \in 1 .. Len(text) /\ n + 1 \in 1 .. N + 2 /\ n + 2 \in 1 .. N + 2
            /\ n + 1 >= N + 2 - m /\ n + 2 >= N + 2 - m /\ m <= N + 1
        BY <2>0, <3>2
      <4>2. /\ f[n + 1] \in [Nat -> Seq(Request)]
            /\ f[n + 2] \in [Nat -> Seq(Request)]
        BY <2>3, <4>1
      <4>3. \A d \in Nat : f[n][d] \in Seq(Request)
        BY <1>4, <4>1, <4>2, ParseRowType
      <4>4. f[n] = [d \in Nat |-> f[n][d]]
        BY <2>0
      <4> DEFINE r == f[n]
      <4> HIDE DEF r
      <4>5. r = [d \in Nat |-> r[d]] /\ \A d \in Nat : r[d] \in Seq(Request)
        BY <4>3, <4>4 DEF r
      <4>6. r \in [Nat -> Seq(Request)]
        BY <4>5
      <4> QED BY <4>6 DEF r
    <3>3. n > N \/ n <= N
      <4>1. N \in Nat /\ n \in Nat
        OBVIOUS
      <4> HIDE DEF N
      <4> QED BY <4>1
    <3> QED BY <3>1, <3>2, <3>3
  <2> HIDE DEF Typed
  <2>4. N + 1 \in Typed
    BY <2>0, <2>2, <2>3, NatSetInduction
  <2> QED BY <2>0, <2>4 DEF Typed
<1>6. f \in [1 .. Len(text) + 2 -> [Nat -> Seq(Request)]]
  BY <1>3, <1>5
<1>7. QED
  BY <1>1, <1>4, <1>6 DEF Parses

(* A script lists requests.                                                *)
LEMMA ParseType ==
  ASSUME NEW text \in Seq(Token)
  PROVE  Parse(text) \in Seq(Request)
<1> PICK f : Parses(text, f) /\ Parse(text) = f[1][0]
  BY ParseByTable
<1>1. 1 \in 1 .. Len(text) + 2
  OBVIOUS
<1>2. QED
  BY <1>1 DEF Parses

-----------------------------------------------------------------------------
(* The search: what its variables hold.                                    *)

ItemType == [kind : {"request"}, at : Request] \cup [kind : {"path"}, at : Path]
              \cup [kind : {"cache"}, at : {NoDir} \X Name]
OutcomeType ==
  [kind : {"running", "existing", "load", "failed", "missing"},
   ino : Nat, identity : Nat]
Opened == {"open", "read", "map", "reserve"}

SearchTypeOK ==
  /\ world \in WorldType
  /\ fs \in [Path -> File]
  /\ bytes \in File /\ loaded \in File
  /\ todo \in Seq(ItemType)
  /\ lib_name \in Name
  /\ cache = world.LD_CACHE
  /\ changes \in Nat
  /\ torn \in BOOLEAN
  /\ outcome \in OutcomeType
  /\ step \in {"next", "cache", "done"} \cup Opened
  /\ step \in Opened => todo # <<>> /\ Head(todo).kind = "path"
  /\ step = "cache" => /\ todo # <<>> /\ Head(todo).kind = "cache"
                       /\ lib_name = Head(todo).at[2]

(* The sequences the search makes.                                         *)
LEMMA SeqFacts ==
  ASSUME NEW T, NEW s \in Seq(T)
  PROVE  /\ Len(s) \in Nat
         /\ s # <<>> => /\ Head(s) \in T /\ Head(s) = s[1] /\ Tail(s) \in Seq(T)
                        /\ Len(s) > 0 /\ Len(Tail(s)) = Len(s) - 1
                        /\ \A n \in 1 .. Len(s) - 1 : Tail(s)[n] = s[n + 1]
         /\ \A x \in T : /\ <<x>> \o s \in Seq(T)
                         /\ Len(<<x>> \o s) = Len(s) + 1
                         /\ (<<x>> \o s)[1] = x
                         /\ \A n \in 1 .. Len(s) : (<<x>> \o s)[n + 1] = s[n]
  OBVIOUS

Inserted(r, s, x, t) ==
  /\ Len(r) = Len(s) + 1 + Len(t)
  /\ \A n \in 1 .. Len(s) : r[n] = s[n]
  /\ r[Len(s) + 1] = x
  /\ \A n \in 1 .. Len(t) : r[Len(s) + 1 + n] = t[n]

LEMMA InsertFacts ==
  \A T : \A s, t \in Seq(T) : \A x \in T : Inserted(s \o <<x>> \o t, s, x, t)
  BY DEF Inserted

(* A request with a directory is a path, and a path is a request.          *)
LEMMA PathsAreRequests ==
  /\ Path \subseteq Request
  /\ \A r \in Request : r[1] # NoDir => r \in Path
  /\ \A p \in Path : p[1] # NoDir /\ p[2] \in Name
  /\ \A r \in Request : r[2] \in Name /\ r = <<r[1], r[2]>>
  BY SearchAssumption DEF Path, Request

LEMMA ItemTypes ==
  /\ \A r \in Request : Item("request", r) \in ItemType
  /\ \A p \in Path : Item("path", p) \in ItemType
  /\ \A n \in Name : Item("cache", <<NoDir, n>>) \in ItemType
  /\ \A x \in ItemType : /\ x.kind \in {"request", "path", "cache"}
                         /\ x.at \in Request
                         /\ x.kind = "path" => x.at \in Path
                         /\ x.kind = "cache" => x.at[1] = NoDir /\ x.at[2] \in Name
<1>1. \A r \in Request : Item("request", r) \in ItemType
  BY DEF Item, ItemType
<1>2. \A p \in Path : Item("path", p) \in ItemType
  BY DEF Item, ItemType
<1>3. \A n \in Name : Item("cache", <<NoDir, n>>) \in ItemType
  BY DEF Item, ItemType
<1>4. ASSUME NEW x \in ItemType
      PROVE  /\ x.kind \in {"request", "path", "cache"}
             /\ x.at \in Request
             /\ x.kind = "path" => x.at \in Path
             /\ x.kind = "cache" => x.at[1] = NoDir /\ x.at[2] \in Name
  <2>1. CASE x \in [kind : {"request"}, at : Request]
    BY <2>1
  <2>2. CASE x \in [kind : {"path"}, at : Path]
    BY <2>2, PathsAreRequests
  <2>3. CASE x \in [kind : {"cache"}, at : {NoDir} \X Name]
    BY <2>3 DEF Request
  <2> QED BY <2>1, <2>2, <2>3 DEF ItemType
<1>5. QED
  BY <1>1, <1>2, <1>3, <1>4

(* The parts of a world.                                                   *)
LEMMA WorldFacts ==
  ASSUME NEW w \in WorldType
  PROVE  /\ w.request \in Request /\ w.bytes \in File
         /\ w.rpath \in Seq(RpathItem) /\ w.runpath \in Seq(RpathItem)
         /\ w.origin \in Dir /\ w.LD_LIBRARY_PATH \in Seq(Dir)
         /\ w.DEFAULT_PATH \in Seq(Dir) /\ w.LD_CACHE \in Cache
         /\ w.cached \in Dir /\ w.names \in SUBSET Name
         /\ w.inodes \in SUBSET Nat /\ w.files \in [Path -> File]
         /\ w.changes \in SUBSET (Path \X File)
  BY DEF WorldType

LEMMA FileFacts ==
  /\ Absent \in File
  /\ \A f \in File : /\ f.kind \in {"absent", "barred", "sealed", "elf", "script"}
                     /\ f.ino \in Nat /\ f.text \in Seq(Token)
                     /\ f.kind = "absent" => f = Absent
<1>1. /\ Absent.kind = "absent" /\ Absent.ino \in Nat /\ Absent.text \in Seq(Token)
  BY DEF Absent
<1>2. QED
  BY <1>1 DEF File

LEMMA FixupType ==
  ASSUME NEW o \in Dir, NEW list \in Seq(RpathItem)
  PROVE  FixupRpath(o, list) \in Seq(Dir)
<1>1. \A n \in 1 .. Len(list) : list[n].dir \in Dir
  <2>1. \A n \in 1 .. Len(list) : list[n] \in RpathItem
    OBVIOUS
  <2> QED BY <2>1 DEF RpathItem
<1>2. \A n \in 1 .. Len(list) :
        (IF list[n].var = "ORIGIN" THEN o ELSE list[n].dir) \in Dir
  BY <1>1
<1>3. [n \in 1 .. Len(list) |->
          IF list[n].var = "ORIGIN" THEN o ELSE list[n].dir] \in Seq(Dir)
  BY <1>2
<1>4. QED
  BY <1>3 DEF FixupRpath

LEMMA CandidatesType ==
  ASSUME world \in WorldType, NEW name \in Name
  PROVE  Candidates(name) \in Seq(ItemType)
<1> DEFINE in(dirs) == [n \in 1 .. Len(dirs) |-> Item("path", <<dirs[n], name>>)]
<1>1. ASSUME NEW dirs \in Seq(Dir) PROVE in(dirs) \in Seq(ItemType)
  <2>1. \A n \in 1 .. Len(dirs) : <<dirs[n], name>> \in Path
    BY DEF Path
  <2>2. \A n \in 1 .. Len(dirs) : Item("path", <<dirs[n], name>>) \in ItemType
    BY <2>1, ItemTypes
  <2> QED BY <2>2
<1>2. SearchDirs(world) \in Seq(Dir)
  <2>1. /\ FixupRpath(world.origin, world.runpath) \in Seq(Dir)
        /\ FixupRpath(world.origin, world.rpath) \in Seq(Dir)
        /\ world.LD_LIBRARY_PATH \in Seq(Dir)
    BY WorldFacts, FixupType
  <2> QED BY <2>1 DEF SearchDirs
<1>3. world.DEFAULT_PATH \in Seq(Dir)
  BY WorldFacts
<1>4. in(SearchDirs(world)) \in Seq(ItemType) /\ in(world.DEFAULT_PATH) \in Seq(ItemType)
  BY <1>1, <1>2, <1>3
<1>5. <<Item("cache", <<NoDir, name>>)>> \in Seq(ItemType)
  BY ItemTypes
<1>6. Candidates(name) = in(SearchDirs(world)) \o <<Item("cache", <<NoDir, name>>)>>
                            \o in(world.DEFAULT_PATH)
  BY DEF Candidates
<1> HIDE DEF in
<1>7. QED
  BY <1>4, <1>5, <1>6

(* Where the search reads and what it finds there.                         *)
LEMMA AtPath ==
  ASSUME SearchTypeOK, todo # <<>>, Head(todo).kind = "path"
  PROVE  /\ Head(todo).at \in Path /\ fs[Head(todo).at] \in File
         /\ Head(todo) \in ItemType /\ Tail(todo) \in Seq(ItemType)
<1>1. todo \in Seq(ItemType) /\ fs \in [Path -> File]
  BY DEF SearchTypeOK
<1>2. Head(todo) \in ItemType /\ Tail(todo) \in Seq(ItemType)
  BY <1>1, SeqFacts
<1>3. Head(todo).at \in Path
  BY <1>2, ItemTypes
<1>4. QED
  BY <1>1, <1>2, <1>3

(* The ways in which a step of the resolver ends keep the types.           *)
LEMMA DoneType ==
  ASSUME SearchTypeOK, NEW o \in OutcomeType, Done(o), UNCHANGED lookupVars
  PROVE  SearchTypeOK'
<1>1. <<>> \in Seq(ItemType)
  OBVIOUS
<1>2. QED
  BY <1>1 DEF SearchTypeOK, Done, lookupVars, Opened

LEMMA TryType ==
  ASSUME SearchTypeOK, NEW list \in Seq(ItemType), Try(list),
         bytes' \in File, UNCHANGED lookupVars
  PROVE  SearchTypeOK'
  BY DEF SearchTypeOK, Try, lookupVars, Opened

LEMMA GotoType ==
  ASSUME SearchTypeOK, NEW label \in Opened, Goto(label), todo # <<>>,
         Head(todo).kind = "path", loaded' \in File, UNCHANGED lookupVars
  PROVE  SearchTypeOK'
  BY DEF SearchTypeOK, Goto, lookupVars, Opened

LEMMA EnterType ==
  ASSUME SearchTypeOK, NEW text \in Seq(Token), Enter(text), UNCHANGED lookupVars
  PROVE  SearchTypeOK'
<1> DEFINE libs == Parse(text)
           list == [n \in 1 .. Len(libs) |-> Item("request", libs[n])]
<1>1. libs \in Seq(Request)
  BY ParseType
<1>2. list \in Seq(ItemType)
  <2> HIDE DEF libs
  <2>1. \A n \in 1 .. Len(libs) : Item("request", libs[n]) \in ItemType
    BY <1>1, ItemTypes
  <2>2. Len(libs) \in Nat
    BY <1>1
  <2> QED BY <2>1, <2>2
<1>3. Try(list) /\ bytes' \in File
  BY FileFacts DEF Enter
<1> HIDE DEF list
<1>4. QED
  BY <1>2, <1>3, TryType

LEMMA OutcomeTypes ==
  /\ \A n \in Nat : Existing(n) \in OutcomeType
  /\ \A n, id \in Nat : Load(n, id) \in OutcomeType
  /\ Error("failed") \in OutcomeType /\ Error("missing") \in OutcomeType
  /\ Running \in OutcomeType
  /\ Error("loop") \notin OutcomeType
  BY DEF Existing, Load, Error, Running, OutcomeType

(* resolve_request keeps the types.                                        *)
LEMMA RequestType == SearchTypeOK /\ ResolveRequest => SearchTypeOK'
<1> SUFFICES ASSUME SearchTypeOK, ResolveRequest PROVE SearchTypeOK'
  OBVIOUS
<1> DEFINE r == Head(todo).at
<1>1. /\ todo \in Seq(ItemType) /\ todo # <<>> /\ bytes \in File
      /\ world \in WorldType /\ UNCHANGED lookupVars
  BY DEF SearchTypeOK, ResolveRequest, At
<1>2. Head(todo) \in ItemType /\ Tail(todo) \in Seq(ItemType)
  BY <1>1, SeqFacts
<1>3. r \in Request /\ r[2] \in Name /\ (r[1] # NoDir => r \in Path)
  BY <1>2, ItemTypes, PathsAreRequests
<1>4. CASE Done(Existing(0))
  BY <1>1, <1>4, DoneType, OutcomeTypes
<1>5. CASE r[1] # NoDir /\ Try(<<Item("path", r)>> \o Tail(todo)) /\ UNCHANGED bytes
  <2>1. <<Item("path", r)>> \o Tail(todo) \in Seq(ItemType)
    BY <1>2, <1>3, <1>5, ItemTypes, SeqFacts
  <2> QED BY <1>1, <1>5, <2>1, TryType
<1>6. CASE Try(Candidates(r[2])) /\ UNCHANGED bytes
  BY <1>1, <1>3, <1>6, CandidatesType, TryType
<1>7. QED
  BY <1>4, <1>5, <1>6 DEF ResolveRequest

(* The steps at a candidate path keep the types.                           *)
LEMMA PathType ==
  ASSUME SearchTypeOK,
         ResolveExistingByPath \/ LoadCandidate \/ ReadScript \/ MapFile \/ Reserve
  PROVE  SearchTypeOK'
<1> DEFINE p == Head(todo).at
<1>1. /\ todo # <<>> /\ Head(todo).kind = "path" /\ UNCHANGED lookupVars
      /\ bytes \in File /\ loaded \in File
  BY DEF ResolveExistingByPath, LoadCandidate, ReadScript, MapFile, Reserve, At,
         SearchTypeOK
<1>2. p \in Path /\ fs[p] \in File /\ Tail(todo) \in Seq(ItemType)
  BY <1>1, AtPath
<1>3. /\ fs[p].ino \in Nat /\ fs[p].text \in Seq(Token) /\ loaded.ino \in Nat
      /\ bytes.text \in Seq(Token) /\ <<>> \in Seq(Token)
  BY <1>1, <1>2, FileFacts
<1>4. Skip => SearchTypeOK'
  BY <1>1, <1>2, TryType DEF Skip
<1>5. \A o \in OutcomeType : Done(o) => SearchTypeOK'
  BY <1>1, DoneType
<1>6. \A t \in Seq(Token) : Enter(t) => SearchTypeOK'
  BY <1>1, EnterType
<1>7. \A label \in Opened : Goto(label) /\ loaded' \in File => SearchTypeOK'
  BY <1>1, GotoType
<1>8. "open" \in Opened /\ "read" \in Opened /\ "map" \in Opened /\ "reserve" \in Opened
  BY DEF Opened
<1>9. /\ Error("failed") \in OutcomeType /\ Existing(fs[p].ino) \in OutcomeType
      /\ Load(loaded.ino, IF Found(p) THEN fs[p].ino ELSE 0) \in OutcomeType
  BY <1>3, OutcomeTypes
<1>10. CASE ResolveExistingByPath
  BY <1>1, <1>4, <1>5, <1>7, <1>8, <1>9, <1>10 DEF ResolveExistingByPath
<1>11. CASE LoadCandidate
  BY <1>1, <1>3, <1>4, <1>5, <1>6, <1>7, <1>8, <1>9, <1>11 DEF LoadCandidate
<1>12. CASE ReadScript
  BY <1>1, <1>3, <1>4, <1>5, <1>6, <1>8, <1>9, <1>12 DEF ReadScript
<1>13. CASE MapFile
  BY <1>1, <1>2, <1>5, <1>7, <1>8, <1>9, <1>13 DEF MapFile
<1>14. CASE Reserve
  BY <1>5, <1>9, <1>14 DEF Reserve
<1>15. QED
  BY <1>10, <1>11, <1>12, <1>13, <1>14

(* The lookup in the cache, an empty list and a change keep the types.     *)
LEMMA OtherType ==
  ASSUME SearchTypeOK,
         BeginLookup \/ Lookup \/ EndLookup \/ Exhausted
           \/ \E c \in world.changes : Change(c[1], c[2])
  PROVE  SearchTypeOK'
<1>1. world \in WorldType /\ todo \in Seq(ItemType) /\ bytes \in File
  BY DEF SearchTypeOK
<1>2. todo # <<>> => Head(todo) \in ItemType /\ Tail(todo) \in Seq(ItemType)
  BY <1>1, SeqFacts
<1>3. CASE BeginLookup
  <2>1. todo # <<>> /\ Head(todo).kind = "cache" /\ Head(todo).at[2] \in Name
    BY <1>2, <1>3, ItemTypes DEF BeginLookup, At
  <2> QED BY <1>3, <2>1 DEF BeginLookup, Goto, SearchTypeOK, Opened
<1>4. CASE Lookup
  <2>1. UNCHANGED <<cache, lib_name>>
    BY <1>4 DEF Lookup, Next, Start, Probe, NotFound, Back, Scan, Return
  <2> QED BY <1>4, <2>1 DEF Lookup, searchVars, SearchTypeOK, Opened
<1>5. CASE EndLookup
  <2>1. todo # <<>> /\ UNCHANGED lookupVars /\ lib_name \in Name
    BY <1>5 DEF EndLookup, SearchTypeOK
  <2>2. CASE Skip
    BY <1>1, <1>2, <2>1, <2>2, TryType DEF Skip
  <2>3. CASE Try(<<Item("path", <<world.cached, lib_name>>)>> \o Tail(todo)) /\ UNCHANGED bytes
    <3>1. <<world.cached, lib_name>> \in Path
      BY <1>1, <2>1, WorldFacts DEF Path
    <3>2. <<Item("path", <<world.cached, lib_name>>)>> \o Tail(todo) \in Seq(ItemType)
      BY <1>2, <2>1, <3>1, ItemTypes, SeqFacts
    <3> QED BY <1>1, <2>1, <2>3, <3>2, TryType
  <2> QED BY <1>5, <2>2, <2>3 DEF EndLookup
<1>6. CASE Exhausted
  BY <1>6, DoneType, OutcomeTypes DEF Exhausted
<1>7. CASE \E c \in world.changes : Change(c[1], c[2])
  <2> PICK c \in world.changes : Change(c[1], c[2])
    BY <1>7
  <2>1. c[1] \in Path /\ c[2] \in File
    BY <1>1, WorldFacts
  <2>2. fs' \in [Path -> File]
    BY <2>1 DEF Change, SearchTypeOK
  <2>3. torn' \in BOOLEAN
    BY Zenon DEF Change, SearchTypeOK
  <2>4. changes' \in Nat
    BY DEF Change, SearchTypeOK
  <2> QED BY <2>2, <2>3, <2>4 DEF Change, SearchTypeOK, lookupVars, Opened
<1>8. QED
  BY <1>3, <1>4, <1>5, <1>6, <1>7

LEMMA InitType == SearchInit => SearchTypeOK
<1> SUFFICES ASSUME SearchInit PROVE SearchTypeOK
  OBVIOUS
<1>1. world \in WorldType
  BY SearchAssumption DEF SearchInit
<1>2. Item("request", world.request) \in ItemType
  BY <1>1, WorldFacts, ItemTypes
<1>3. todo \in Seq(ItemType)
  BY <1>2 DEF SearchInit
<1>4. lib_name \in Name
  BY SearchAssumption DEF SearchInit
<1>5. fs \in [Path -> File] /\ bytes \in File /\ loaded \in File
  BY <1>1, WorldFacts, FileFacts DEF SearchInit
<1>6. outcome \in OutcomeType
  BY OutcomeTypes DEF SearchInit
<1>7. torn \in BOOLEAN
  BY Zenon DEF SearchInit
<1>8. QED
  BY <1>1, <1>3, <1>4, <1>5, <1>6, <1>7 DEF SearchInit, SearchTypeOK, Opened

LEMMA NextType ==
  SearchTypeOK /\ [SearchNext]_<<searchVars, lookupVars>> => SearchTypeOK'
<1> SUFFICES ASSUME SearchTypeOK, [SearchNext]_<<searchVars, lookupVars>>
             PROVE  SearchTypeOK'
  OBVIOUS
<1>1. CASE UNCHANGED <<searchVars, lookupVars>>
  BY <1>1 DEF SearchTypeOK, searchVars, lookupVars, Opened
<1>2. CASE SearchNext
  BY <1>2, RequestType, PathType, OtherType DEF SearchNext, Resolve
<1>3. QED
  BY <1>1, <1>2

(* The lookup is correct within a search too: a search keeps its invariant. *)
LEMMA SearchLookupInv ==
  ASSUME SearchTypeOK, LookupInv, [SearchNext]_<<searchVars, lookupVars>>
  PROVE  LookupInv'
<1>1. CASE UNCHANGED lookupVars
  <2>1. UNCHANGED vars
    BY <1>1 DEF lookupVars, vars
  <2> QED BY <2>1, NextLookupInv
<1>2. CASE BeginLookup
  <2>1. /\ pc' = "start" /\ lib_name' \in Int
        /\ UNCHANGED <<cache, is_descending, left, right, i, result>>
    <3>1. todo \in Seq(ItemType) /\ todo # <<>> /\ Head(todo).kind = "cache"
      BY <1>2 DEF BeginLookup, At, SearchTypeOK
    <3>2. Head(todo).at[2] \in Name
      BY <3>1, SeqFacts, ItemTypes
    <3> QED BY <1>2, <3>2, LdCacheAssumption DEF BeginLookup
  <2> QED BY <2>1 DEF LookupInv, LookupTypes, Hunt, Where, LookupCorrect, nlibs
<1>3. CASE Lookup
  BY <1>3, NextLookupInv DEF Lookup
<1>4. QED
  BY <1>1, <1>2, <1>3
     DEF SearchNext, Resolve, ResolveRequest, ResolveExistingByPath, LoadCandidate,
         ReadScript, MapFile, Reserve, EndLookup, Exhausted, Change

LEMMA SearchInitLookup == SearchInit => LookupInv
<1> SUFFICES ASSUME SearchInit PROVE Init
  BY InitLookupInv
<1>1. world \in WorldType
  BY SearchAssumption DEF SearchInit
<1>2. QED
  BY <1>1, WorldFacts, SearchAssumption DEF SearchInit, Init

(* However many names a search looks up, one after another, and whatever   *)
(* happens to the files meanwhile, each lookup gives the right entry.      *)
THEOREM SearchLooksUp == SearchSpec => []LookupCorrect
<1>1. LookupInv => LookupCorrect
  BY DEF LookupInv
<1>2. QED
  BY <1>1, InitType, NextType, SearchInitLookup, SearchLookupInv, PTL DEF SearchSpec

-----------------------------------------------------------------------------
(* A candidate while it is opened.                                         *)

(* The given bytes stay until a script among them has been followed.       *)
BytesInv ==
  /\ bytes = world.bytes \/ (world.bytes.kind = "script" /\ bytes = Absent)
  /\ step \in {"read", "map"} => bytes = Absent

(* Between the first stat and the reservation of an untouched candidate    *)
(* what each call has seen is still there.                                 *)
OpenInv ==
  step \in Opened /\ ~torn =>
    LET f == fs[Head(todo).at]
    IN  /\ Found(Head(todo).at) /\ f.ino \notin world.inodes
        /\ step = "read" => f.kind = "script"
        /\ step = "map" => f.kind = "elf"
        /\ step = "reserve" =>
             loaded = (IF bytes = Absent THEN f ELSE bytes) /\ loaded.kind = "elf"

CandidateInv == BytesInv /\ OpenInv /\ NotLoadedTwice

(* Steps that leave the candidate keep that.                               *)
LEMMA LeaveCandidate ==
  ASSUME SearchTypeOK, CandidateInv,
         \/ \E list : Try(list) /\ UNCHANGED bytes
         \/ \E o \in OutcomeType : Done(o) /\ o.kind # "load"
         \/ Goto("cache")
         \/ UNCHANGED searchVars
  PROVE  CandidateInv'
<1>1. UNCHANGED <<world, fs, torn, bytes>>
  BY DEF Try, Done, Goto, searchVars
<1>2. CASE \E list : Try(list) /\ UNCHANGED bytes
  BY <1>1, <1>2 DEF Try, CandidateInv, BytesInv, OpenInv, NotLoadedTwice, Opened
<1>3. CASE \E o \in OutcomeType : Done(o) /\ o.kind # "load"
  BY <1>1, <1>3 DEF Done, CandidateInv, BytesInv, OpenInv, NotLoadedTwice, Opened
<1>4. CASE Goto("cache")
  BY <1>1, <1>4 DEF Goto, CandidateInv, BytesInv, OpenInv, NotLoadedTwice, Opened
<1>5. CASE UNCHANGED searchVars
  BY <1>5 DEF searchVars, CandidateInv, BytesInv, OpenInv, NotLoadedTwice, Opened, Found
<1>6. QED
  BY <1>2, <1>3, <1>4, <1>5

(* Following a script keeps that.                                          *)
LEMMA EnterCandidate ==
  ASSUME SearchTypeOK, CandidateInv, NEW text, Enter(text),
         bytes = Absent \/ bytes.kind = "script"
  PROVE  CandidateInv'
<1>1. UNCHANGED <<world, outcome, torn>> /\ step' = "next" /\ bytes' = Absent
  BY DEF Enter, Try
<1>2. BytesInv'
  BY <1>1 DEF CandidateInv, BytesInv
<1>3. QED
  BY <1>1, <1>2 DEF CandidateInv, OpenInv, NotLoadedTwice, Opened

(* So do the steps at a candidate path.                                    *)
LEMMA PathCandidate ==
  ASSUME SearchTypeOK, CandidateInv,
         ResolveExistingByPath \/ LoadCandidate \/ ReadScript \/ MapFile \/ Reserve
  PROVE  CandidateInv'
<1> DEFINE p == Head(todo).at
<1>1. /\ todo # <<>> /\ Head(todo).kind = "path"
      /\ bytes \in File /\ loaded \in File
  BY DEF ResolveExistingByPath, LoadCandidate, ReadScript, MapFile, Reserve, At,
         SearchTypeOK
<1>2. p \in Path /\ fs[p] \in File
  BY <1>1, AtPath
<1>3. Skip => CandidateInv'
  BY LeaveCandidate DEF Skip
<1>4. Done(Error("failed")) \/ Done(Existing(fs[p].ino)) => CandidateInv'
  <2>1. /\ Error("failed") \in OutcomeType /\ Error("failed").kind # "load"
        /\ Existing(fs[p].ino) \in OutcomeType /\ Existing(fs[p].ino).kind # "load"
    BY <1>2, OutcomeTypes, FileFacts DEF Error, Existing
  <2> QED BY <2>1, LeaveCandidate
<1>6. CASE ResolveExistingByPath
  <2>1. CASE Found(p) /\ fs[p].ino \notin world.inodes /\ Goto("open") /\ UNCHANGED loaded
    BY <2>1 DEF Goto, CandidateInv, BytesInv, OpenInv, NotLoadedTwice, Opened, Found
  <2> QED BY <1>3, <1>4, <1>6, <2>1 DEF ResolveExistingByPath
<1>7. CASE LoadCandidate
  <2>0. step = "open"
    BY <1>7 DEF LoadCandidate, At
  <2>1. CASE bytes.kind = "elf" /\ Goto("reserve") /\ loaded' = bytes
    BY <2>0, <2>1 DEF Goto, CandidateInv, BytesInv, OpenInv, NotLoadedTwice, Opened,
                      Found, Absent
  <2>2. CASE bytes.kind = "script" /\ Enter(bytes.text)
    BY <2>2, EnterCandidate
  <2>3. CASE bytes = Absent /\ fs[p].kind = "elf" /\ Goto("map") /\ UNCHANGED loaded
    BY <2>0, <2>3 DEF Goto, CandidateInv, BytesInv, OpenInv, NotLoadedTwice, Opened, Found
  <2>4. CASE bytes = Absent /\ fs[p].kind = "script" /\ Goto("read") /\ UNCHANGED loaded
    BY <2>0, <2>4 DEF Goto, CandidateInv, BytesInv, OpenInv, NotLoadedTwice, Opened, Found
  <2> QED BY <1>3, <1>4, <1>7, <2>1, <2>2, <2>3, <2>4 DEF LoadCandidate
<1>8. CASE ReadScript
  <2>0. bytes = Absent
    BY <1>8 DEF ReadScript, At, CandidateInv, BytesInv
  <2> QED BY <1>3, <1>4, <1>8, <2>0, EnterCandidate DEF ReadScript
<1>9. CASE MapFile
  <2>0. step = "map" /\ bytes = Absent
    BY <1>9 DEF MapFile, At, CandidateInv, BytesInv
  <2>1. CASE Readable(p) /\ Goto("reserve") /\ loaded' = fs[p]
    BY <2>0, <2>1 DEF Goto, CandidateInv, BytesInv, OpenInv, NotLoadedTwice, Opened, Found
  <2> QED BY <1>4, <1>9, <2>1 DEF MapFile
<1>10. CASE Reserve
  <2>0. /\ step = "reserve" /\ UNCHANGED <<world, fs, torn, bytes>> /\ step' = "done"
        /\ outcome' = Load(loaded.ino, IF Found(p) THEN fs[p].ino ELSE 0)
    BY <1>10 DEF Reserve, At, Done
  <2>1. CASE ~torn /\ world.bytes = Absent
    <3>1. bytes = Absent /\ Found(p) /\ fs[p].ino \notin world.inodes /\ loaded = fs[p]
      BY <2>0, <2>1 DEF CandidateInv, BytesInv, OpenInv, Opened, Absent
    <3>2. outcome'.ino = fs[p].ino /\ outcome'.identity = fs[p].ino
      BY <2>0, <3>1 DEF Load
    <3> QED BY <2>0, <3>1, <3>2 DEF CandidateInv, BytesInv, OpenInv, NotLoadedTwice, Opened
  <2>2. CASE torn \/ world.bytes # Absent
    BY <2>0, <2>2 DEF CandidateInv, BytesInv, OpenInv, NotLoadedTwice, Opened
  <2> QED BY <2>1, <2>2
<1>11. QED
  BY <1>6, <1>7, <1>8, <1>9, <1>10

(* And so does every step of a search.                                     *)
LEMMA NextCandidate ==
  ASSUME SearchTypeOK, CandidateInv, [SearchNext]_<<searchVars, lookupVars>>
  PROVE  CandidateInv'
<1>1. CASE ResolveRequest
  <2>1. Existing(0) \in OutcomeType /\ Existing(0).kind # "load"
    BY OutcomeTypes DEF Existing
  <2> QED BY <1>1, <2>1, LeaveCandidate DEF ResolveRequest
<1>2. CASE BeginLookup \/ Lookup \/ EndLookup \/ UNCHANGED <<searchVars, lookupVars>>
  BY <1>2, LeaveCandidate DEF BeginLookup, Lookup, EndLookup, Skip
<1>3. CASE Exhausted
  <2>1. Error("missing") \in OutcomeType /\ Error("missing").kind # "load"
    BY OutcomeTypes DEF Error
  <2> QED BY <1>3, <2>1, LeaveCandidate DEF Exhausted
<1>4. CASE \E c \in world.changes : Change(c[1], c[2])
  <2> PICK c \in world.changes : Change(c[1], c[2])
    BY <1>4
  <2>1. /\ UNCHANGED <<world, step, todo, bytes, loaded, outcome>>
        /\ step # "done" /\ fs \in [Path -> File]
        /\ fs' = [fs EXCEPT ![c[1]] = c[2]]
        /\ torn' = (torn \/ /\ step \in Opened /\ Head(todo).at = c[1])
    BY DEF Change, SearchTypeOK, Opened
  <2>2. CASE torn'
    BY <2>1, <2>2 DEF CandidateInv, BytesInv, OpenInv, NotLoadedTwice
  <2>3. CASE ~torn' /\ step \in Opened
    <3>1. ~torn /\ Head(todo).at # c[1]
      BY <2>1, <2>3
    <3>2. todo # <<>> /\ Head(todo).kind = "path"
      BY <2>3 DEF SearchTypeOK
    <3>3. Head(todo).at \in Path
      BY <3>2, AtPath
    <3>4. fs'[Head(todo).at] = fs[Head(todo).at]
      BY <2>1, <3>1, <3>3
    <3> QED BY <2>1, <2>3, <3>1, <3>4 DEF CandidateInv, BytesInv, OpenInv, NotLoadedTwice, Found
  <2>4. CASE step \notin Opened
    BY <2>1, <2>4 DEF CandidateInv, BytesInv, OpenInv, NotLoadedTwice
  <2> QED BY <2>2, <2>3, <2>4
<1>5. QED
  BY <1>1, <1>2, <1>3, <1>4, PathCandidate DEF SearchNext, Resolve

LEMMA InitCandidate == SearchInit => CandidateInv
  BY DEF SearchInit, CandidateInv, BytesInv, OpenInv, NotLoadedTwice, Opened

(* Whatever names, directories, scripts and cache entries lead to a file,  *)
(* and however often the file system changes: a file that is registered is *)
(* not loaded again, and what is loaded is reserved under its own          *)
(* identity, unless the file was replaced between its own stat and open.   *)
THEOREM SearchLoadsOnce == SearchSpec => []NotLoadedTwice
<1>1. CandidateInv => NotLoadedTwice
  BY DEF CandidateInv
<1>2. QED
  BY <1>1, InitType, NextType, InitCandidate, NextCandidate, PTL DEF SearchSpec

-----------------------------------------------------------------------------
(* The answer of a list of candidates in a file system F that stands still. *)

Listed(w, name) == \E n \in 1 .. Len(w.LD_CACHE) :
  w.LD_CACHE[n].name = name /\ w.LD_CACHE[n].usable

(* Nothing comes of an item, and the next one is tried.                    *)
GoneItem(w, F, x) ==
  CASE x.kind = "request" -> Gone(w, F, x.at)
    [] x.kind = "path" -> F[x.at].kind = "absent"
    [] OTHER -> ~Listed(w, x.at[2]) \/ F[<<w.cached, x.at[2]>>].kind = "absent"

OfItem(w, F, x, b, ans) ==
  CASE x.kind = "request" -> OfRequest(w, F, x.at, b, ans)
    [] x.kind = "path" -> OfPath(w, F, x.at, b, ans)
    [] OTHER -> OfPath(w, F, <<w.cached, x.at[2]>>, b, ans)

(* What an item yields when at most d - 1 scripts are followed.            *)
Within(w, F, d, x, b) ==
  IF d = 0 THEN Error("loop") ELSE OfItem(w, F, x, b, Answers(w, F)[d - 1])

Hits(w, F, list) == {n \in 1 .. Len(list) : ~GoneItem(w, F, list[n])}

(* The first item that is not gone decides.                                *)
First(w, F, d, list, b) ==
  LET hits == Hits(w, F, list)
  IN  IF hits = {} THEN Error("missing")
      ELSE Within(w, F, d, list[CHOOSE n \in hits : \A m \in hits : n <= m], b)

(* The first of a non-empty set of positions.                              *)
LEMMA LeastHit ==
  ASSUME NEW hits \in SUBSET Nat, hits # {}
  PROVE  LET k == CHOOSE n \in hits : \A m \in hits : n <= m
         IN  k \in hits /\ \A m \in hits : k <= m
<1>1. \E n \in hits : \A m \in hits : n <= m
  BY LeastNat
<1>2. QED
  BY <1>1

(* It is any position that is not gone and has only gone ones before it.   *)
LEMMA FirstAt ==
  ASSUME NEW F, NEW d, NEW b, NEW list \in Seq(ItemType), NEW k \in 1 .. Len(list),
         ~GoneItem(world, F, list[k]), \A n \in 1 .. k - 1 : GoneItem(world, F, list[n])
  PROVE  First(world, F, d, list, b) = Within(world, F, d, list[k], b)
<1> DEFINE hits == Hits(world, F, list)
           j == CHOOSE n \in hits : \A m \in hits : n <= m
<1>1. hits \in SUBSET Nat /\ k \in hits /\ Len(list) \in Nat
  BY DEF Hits
<1>2. j \in hits /\ \A m \in hits : j <= m
  BY <1>1, LeastHit
<1>3. j \in 1 .. Len(list) /\ ~GoneItem(world, F, list[j]) /\ j <= k
  BY <1>1, <1>2 DEF Hits
<1>4. j = k
  BY <1>1, <1>3
<1> HIDE DEF hits
<1>5. First(world, F, d, list, b) = Within(world, F, d, list[j], b)
  BY <1>1 DEF First, hits
<1>6. QED
  BY <1>4, <1>5

LEMMA FirstNone ==
  ASSUME NEW F, NEW d, NEW b, NEW list,
         \A n \in 1 .. Len(list) : GoneItem(world, F, list[n])
  PROVE  First(world, F, d, list, b) = Error("missing")
<1>1. Hits(world, F, list) = {}
  BY DEF Hits
<1>2. QED
  BY <1>1 DEF First

(* So a list can be read from its head.                                    *)
LEMMA FirstHere ==
  ASSUME NEW F, NEW d, NEW b, NEW list \in Seq(ItemType), list # <<>>,
         ~GoneItem(world, F, Head(list))
  PROVE  First(world, F, d, list, b) = Within(world, F, d, Head(list), b)
<1>1. 1 \in 1 .. Len(list) /\ Head(list) = list[1]
  BY SeqFacts
<1>2. QED
  BY <1>1, FirstAt

LEMMA FirstLater ==
  ASSUME NEW F, NEW d, NEW b, NEW list \in Seq(ItemType), list # <<>>,
         GoneItem(world, F, Head(list))
  PROVE  First(world, F, d, list, b) = First(world, F, d, Tail(list), b)
<1> DEFINE rest == Tail(list)
<1>1. /\ rest \in Seq(ItemType) /\ Len(list) \in Nat /\ Len(list) > 0
      /\ Len(rest) = Len(list) - 1
      /\ \A n \in 1 .. Len(list) - 1 : rest[n] = list[n + 1]
      /\ Head(list) = list[1]
  BY SeqFacts
<1> HIDE DEF rest
<1>2. CASE \A n \in 1 .. Len(rest) : GoneItem(world, F, rest[n])
  <2>1. \A n \in 1 .. Len(list) :
          n = 1 \/ (n - 1 \in 1 .. Len(list) - 1 /\ n = (n - 1) + 1)
    BY <1>1
  <2>2. ASSUME NEW n \in 1 .. Len(list) PROVE GoneItem(world, F, list[n])
    <3>1. n = 1 \/ list[n] = rest[n - 1]
      BY <1>1, <2>1
    <3> QED BY <1>1, <1>2, <2>1, <3>1
  <2> QED BY <1>2, <2>2, FirstNone DEF rest
<1>3. CASE \E n \in 1 .. Len(rest) : ~GoneItem(world, F, rest[n])
  <2> DEFINE T == {n \in 1 .. Len(rest) : ~GoneItem(world, F, rest[n])}
  <2>1. T \in SUBSET Nat /\ T # {}
    BY <1>1, <1>3
  <2> PICK k \in T : \A m \in T : k <= m
    BY <2>1, LeastNat
  <2>2. /\ k \in 1 .. Len(rest) /\ ~GoneItem(world, F, rest[k])
        /\ \A n \in 1 .. k - 1 : GoneItem(world, F, rest[n])
    BY <1>1
  <2>3. First(world, F, d, rest, b) = Within(world, F, d, rest[k], b)
    BY <1>1, <2>2, FirstAt
  <2>4. k + 1 \in 1 .. Len(list) /\ list[k + 1] = rest[k]
    BY <1>1, <2>2
  <2>5. \A n \in 1 .. (k + 1) - 1 :
          n = 1 \/ /\ n - 1 \in 1 .. k - 1 /\ n = (n - 1) + 1
                   /\ n - 1 \in 1 .. Len(list) - 1
    BY <1>1, <2>2
  <2>6. ASSUME NEW n \in 1 .. (k + 1) - 1 PROVE GoneItem(world, F, list[n])
    <3>1. n = 1 \/ list[n] = rest[n - 1]
      BY <1>1, <2>5
    <3> QED BY <1>1, <2>2, <2>5, <3>1
  <2>7. First(world, F, d, list, b) = Within(world, F, d, list[k + 1], b)
    BY <2>2, <2>4, <2>6, FirstAt
  <2> QED BY <2>3, <2>4, <2>7 DEF rest
<1>4. QED
  BY <1>2, <1>3

(* The five parts of the search order, and where they are in Candidates.   *)
Segment(k) ==
  LET runpath == FixupRpath(world.origin, world.runpath)
  IN  CASE k = 1 -> IF runpath = <<>> THEN FixupRpath(world.origin, world.rpath)
                    ELSE <<>>
        [] k = 2 -> world.LD_LIBRARY_PATH
        [] k = 3 -> runpath
        [] k = 4 -> <<world.cached>>
        [] OTHER -> world.DEFAULT_PATH

Offset(k) ==
  CASE k = 1 -> 0
    [] k = 2 -> Len(Segment(1))
    [] k = 3 -> Len(Segment(1)) + Len(Segment(2))
    [] k = 4 -> Len(Segment(1)) + Len(Segment(2)) + Len(Segment(3))
    [] OTHER -> Len(Segment(1)) + Len(Segment(2)) + Len(Segment(3)) + 1

Spot(name, k, n) == [rank |-> k, n |-> n, path |-> <<Segment(k)[n], name>>]

LEMMA Segments ==
  ASSUME world \in WorldType
  PROVE  /\ \A k \in 1 .. 5 : Segment(k) \in Seq(Dir) /\ Len(Segment(k)) \in Nat
         /\ Len(Segment(4)) = 1
<1>1. /\ FixupRpath(world.origin, world.runpath) \in Seq(Dir)
      /\ FixupRpath(world.origin, world.rpath) \in Seq(Dir)
      /\ world.LD_LIBRARY_PATH \in Seq(Dir) /\ world.DEFAULT_PATH \in Seq(Dir)
      /\ <<world.cached>> \in Seq(Dir) /\ Len(<<world.cached>>) = 1
      /\ <<>> \in Seq(Dir)
  BY WorldFacts, FixupType
<1>2. \A k \in 1 .. 5 : k = 1 \/ k = 2 \/ k = 3 \/ k = 4 \/ k = 5
  OBVIOUS
<1>3. \A k \in 1 .. 5 : Segment(k) \in Seq(Dir)
  BY <1>1, <1>2 DEF Segment
<1>4. Len(Segment(4)) = 1
  BY <1>1 DEF Segment
<1>5. QED
  BY <1>3, <1>4

(* Places has the same spots, the cache's only if it lists the name.       *)
LEMMA PlacesBySpot ==
  ASSUME world \in WorldType, NEW name
  PROVE  /\ \A k \in 1 .. 5 : \A n \in 1 .. Len(Segment(k)) :
              (k = 4 => Listed(world, name)) => Spot(name, k, n) \in Places(world, name)
         /\ \A x \in Places(world, name) :
              \E k \in 1 .. 5 : \E n \in 1 .. Len(Segment(k)) :
                x = Spot(name, k, n) /\ (k = 4 => Listed(world, name))
<1> DEFINE ranked(k, list) == {[rank |-> k, n |-> n, path |-> <<list[n], name>>] :
                                 n \in 1 .. Len(list)}
           part(k) == {Spot(name, k, n) : n \in 1 .. Len(Segment(k))}
<1>1. /\ part(2) = ranked(2, world.LD_LIBRARY_PATH)
      /\ part(3) = ranked(3, FixupRpath(world.origin, world.runpath))
      /\ part(4) = ranked(4, <<world.cached>>)
      /\ part(5) = ranked(5, world.DEFAULT_PATH)
  BY DEF Spot, Segment
<1>2. part(1) = IF FixupRpath(world.origin, world.runpath) = <<>>
                THEN ranked(1, FixupRpath(world.origin, world.rpath)) ELSE {}
  <2>1. CASE FixupRpath(world.origin, world.runpath) = <<>>
    BY <2>1 DEF Spot, Segment
  <2>2. CASE FixupRpath(world.origin, world.runpath) # <<>>
    <3>1. Segment(1) = <<>> /\ 1 .. Len(<<>>) = {}
      BY <2>2 DEF Segment
    <3> QED BY <2>2, <3>1
  <2> QED BY <2>1, <2>2
<1>3. Places(world, name) = part(1) \cup part(2) \cup part(3)
                              \cup (IF Listed(world, name) THEN part(4) ELSE {}) \cup part(5)
  <2>1. Places(world, name) =
          (IF FixupRpath(world.origin, world.runpath) = <<>>
           THEN ranked(1, FixupRpath(world.origin, world.rpath)) ELSE {})
          \cup ranked(2, world.LD_LIBRARY_PATH)
          \cup ranked(3, FixupRpath(world.origin, world.runpath))
          \cup (IF Listed(world, name) THEN ranked(4, <<world.cached>>) ELSE {})
          \cup ranked(5, world.DEFAULT_PATH)
    BY DEF Places, Listed
  <2> HIDE DEF ranked, part
  <2> QED BY <1>1, <1>2, <2>1
<1>4. \A k \in 1 .. 5 : k = 1 \/ k = 2 \/ k = 3 \/ k = 4 \/ k = 5
  OBVIOUS
<1>5. ASSUME NEW k \in 1 .. 5, NEW n \in 1 .. Len(Segment(k)), k = 4 => Listed(world, name)
      PROVE  Spot(name, k, n) \in Places(world, name)
  <2>1. Spot(name, k, n) \in part(k)
    OBVIOUS
  <2> HIDE DEF part
  <2> QED BY <1>3, <1>4, <1>5, <2>1
<1>6. ASSUME NEW x \in Places(world, name)
      PROVE  \E k \in 1 .. 5 : \E n \in 1 .. Len(Segment(k)) :
               x = Spot(name, k, n) /\ (k = 4 => Listed(world, name))
  <2>1. \E k \in 1 .. 5 : x \in part(k) /\ (k = 4 => Listed(world, name))
    <3>1. 1 \in 1 .. 5 /\ 2 \in 1 .. 5 /\ 3 \in 1 .. 5 /\ 4 \in 1 .. 5 /\ 5 \in 1 .. 5
      OBVIOUS
    <3> HIDE DEF part
    <3> QED BY <1>3, <3>1
  <2> QED BY <2>1
<1>7. QED
  BY <1>5, <1>6

(* Candidates lists the spots in their order.                              *)
LEMMA CandidatesBySpot ==
  ASSUME world \in WorldType, NEW name \in Name
  PROVE  /\ \A k \in 1 .. 5 : \A n \in 1 .. Len(Segment(k)) :
              /\ Offset(k) + n \in 1 .. Len(Candidates(name))
              /\ Candidates(name)[Offset(k) + n] =
                   IF k = 4 THEN Item("cache", <<NoDir, name>>)
                   ELSE Item("path", Spot(name, k, n).path)
         /\ \A m \in 1 .. Len(Candidates(name)) :
              \E k \in 1 .. 5 : \E n \in 1 .. Len(Segment(k)) : m = Offset(k) + n
<1> DEFINE in(dirs) == [n \in 1 .. Len(dirs) |-> Item("path", <<dirs[n], name>>)]
           A == Segment(1)
           B == Segment(2)
           C == Segment(3)
           E == Segment(5)
           one == <<Item("cache", <<NoDir, name>>)>>
           c == Candidates(name)
<1>1. /\ A \in Seq(Dir) /\ B \in Seq(Dir) /\ C \in Seq(Dir) /\ E \in Seq(Dir)
      /\ Len(A) \in Nat /\ Len(B) \in Nat /\ Len(C) \in Nat /\ Len(E) \in Nat
      /\ Len(Segment(4)) = 1
  BY Segments
<1>2. c = in(A \o B \o C) \o one \o in(E)
  <2>1. SearchDirs(world) = A \o B \o C /\ world.DEFAULT_PATH = E
    <3>1. /\ A = IF FixupRpath(world.origin, world.runpath) = <<>>
                THEN FixupRpath(world.origin, world.rpath) ELSE <<>>
          /\ B = world.LD_LIBRARY_PATH /\ E = world.DEFAULT_PATH
          /\ C = FixupRpath(world.origin, world.runpath)
      BY DEF Segment
    <3> HIDE DEF A, B, C, E
    <3> QED BY <3>1 DEF SearchDirs
  <2>2. c = in(SearchDirs(world)) \o one \o in(world.DEFAULT_PATH)
    BY DEF Candidates
  <2> HIDE DEF A, B, C, E, in, one, c
  <2> QED BY <2>1, <2>2
<1> HIDE DEF A, B, C, E
<1>3. /\ Len(A \o B \o C) = Len(A) + Len(B) + Len(C)
      /\ \A n \in 1 .. Len(A) : (A \o B \o C)[n] = A[n]
      /\ \A n \in 1 .. Len(B) : (A \o B \o C)[Len(A) + n] = B[n]
      /\ \A n \in 1 .. Len(C) : (A \o B \o C)[Len(A) + Len(B) + n] = C[n]
  BY <1>1
<1> DEFINE D == A \o B \o C
           N == Len(D)
<1>4. D \in Seq(Dir) /\ N \in Nat
  BY <1>1
<1>5. /\ in(D) \in Seq(ItemType) /\ in(E) \in Seq(ItemType) /\ one \in Seq(ItemType)
      /\ Len(in(D)) = N /\ Len(in(E)) = Len(E) /\ Len(one) = 1
  <2>1. ASSUME NEW dirs \in Seq(Dir)
        PROVE  in(dirs) \in Seq(ItemType) /\ Len(in(dirs)) = Len(dirs)
    <3>1. \A n \in 1 .. Len(dirs) : <<dirs[n], name>> \in Path
      BY DEF Path
    <3>2. \A n \in 1 .. Len(dirs) : Item("path", <<dirs[n], name>>) \in ItemType
      BY <3>1, ItemTypes
    <3> QED BY <3>2
  <2>2. one \in Seq(ItemType) /\ Len(one) = 1
    BY ItemTypes
  <2> HIDE DEF D, in, one
  <2> QED BY <1>1, <1>4, <2>1, <2>2 DEF N
<1>6. /\ Len(c) = N + 1 + Len(E)
      /\ \A n \in 1 .. N : c[n] = in(D)[n]
      /\ c[N + 1] = Item("cache", <<NoDir, name>>)
      /\ \A n \in 1 .. Len(E) : c[N + 1 + n] = in(E)[n]
  <2>1. c = in(D) \o one \o in(E) /\ one[1] = Item("cache", <<NoDir, name>>)
    BY <1>2
  <2> DEFINE x == Item("cache", <<NoDir, name>>)
             s == in(D)
             t == in(E)
  <2>2. /\ s \in Seq(ItemType) /\ t \in Seq(ItemType) /\ x \in ItemType
        /\ c = s \o <<x>> \o t /\ Len(s) = N /\ Len(t) = Len(E)
    BY <1>5, <2>1, ItemTypes
  <2> HIDE DEF x, s, t, c, N
  <2>3. Inserted(s \o <<x>> \o t, s, x, t)
    BY <2>2, InsertFacts, Zenon
  <2>4. Inserted(c, s, x, t)
    BY <2>2, <2>3
  <2> QED BY <2>2, <2>4 DEF Inserted, x, s, t
<1>7. /\ \A n \in 1 .. N : in(D)[n] = Item("path", <<D[n], name>>)
      /\ \A n \in 1 .. Len(E) : in(E)[n] = Item("path", <<E[n], name>>)
  BY DEF N
<1>8. N = Len(A) + Len(B) + Len(C)
  BY <1>3 DEF N
<1>9. /\ Offset(1) = 0 /\ Offset(2) = Len(A) /\ Offset(3) = Len(A) + Len(B)
      /\ Offset(4) = N /\ Offset(5) = N + 1
  BY <1>8 DEF Offset, A, B, C
<1> HIDE DEF in, one, c, N
<1>10. \A k \in 1 .. 5 : k = 1 \/ k = 2 \/ k = 3 \/ k = 4 \/ k = 5
  OBVIOUS
<1>11. ASSUME NEW k \in 1 .. 5, NEW n \in 1 .. Len(Segment(k))
       PROVE  /\ Offset(k) + n \in 1 .. Len(c)
              /\ c[Offset(k) + n] = IF k = 4 THEN Item("cache", <<NoDir, name>>)
                                    ELSE Item("path", Spot(name, k, n).path)
  <2>0. Spot(name, k, n).path = <<Segment(k)[n], name>>
    BY DEF Spot
  <2>1. CASE k = 1
    <3>1. n \in 1 .. Len(A) /\ 0 + n = n /\ n \in 1 .. N /\ n \in 1 .. N + 1 + Len(E)
      BY <1>1, <1>8, <2>1 DEF A
    <3> QED BY <1>3, <1>6, <1>7, <1>9, <2>0, <2>1, <3>1 DEF A, D
  <2>2. CASE k = 2
    <3>1. /\ n \in 1 .. Len(B) /\ Len(A) + n \in 1 .. N
          /\ Len(A) + n \in 1 .. N + 1 + Len(E)
      BY <1>1, <1>8, <2>2 DEF B
    <3>2. D[Len(A) + n] = B[n] /\ B[n] = Segment(k)[n]
      BY <1>3, <2>2, <3>1 DEF B, D
    <3>3. c[Len(A) + n] = Item("path", <<D[Len(A) + n], name>>)
      BY <1>6, <1>7, <3>1
    <3>4. Offset(k) + n = Len(A) + n /\ Len(c) = N + 1 + Len(E)
      BY <1>6, <1>9, <2>2
    <3> QED BY <2>0, <2>2, <3>1, <3>2, <3>3, <3>4
  <2>3. CASE k = 3
    <3>1. /\ n \in 1 .. Len(C) /\ Len(A) + Len(B) + n \in 1 .. N
          /\ Len(A) + Len(B) + n \in 1 .. N + 1 + Len(E)
      BY <1>1, <1>8, <2>3 DEF C
    <3>2. D[Len(A) + Len(B) + n] = C[n] /\ C[n] = Segment(k)[n]
      BY <1>3, <2>3, <3>1 DEF C, D
    <3>3. c[Len(A) + Len(B) + n] = Item("path", <<D[Len(A) + Len(B) + n], name>>)
      BY <1>6, <1>7, <3>1
    <3> QED BY <1>6, <1>9, <2>0, <2>3, <3>1, <3>2, <3>3
  <2>4. CASE k = 4
    <3>0. n \in 1 .. 1
      BY <1>1, <2>4
    <3>1. n = 1 /\ N + 1 \in 1 .. N + 1 + Len(E)
      BY <1>1, <1>4, <3>0 DEF N
    <3> QED BY <1>6, <1>9, <2>4, <3>1
  <2>5. CASE k = 5
    <3>1. n \in 1 .. Len(E) /\ N + 1 + n \in 1 .. N + 1 + Len(E)
      BY <1>1, <1>4, <2>5 DEF N, E
    <3> QED BY <1>6, <1>7, <1>9, <2>0, <2>5, <3>1 DEF E
  <2> QED BY <1>10, <2>1, <2>2, <2>3, <2>4, <2>5
<1>12. ASSUME NEW m \in 1 .. Len(c)
       PROVE  \E k \in 1 .. 5 : \E n \in 1 .. Len(Segment(k)) : m = Offset(k) + n
  <2>0. m \in Nat /\ 1 <= m /\ m <= N + 1 + Len(E) /\ N \in Nat
    BY <1>1, <1>4, <1>6 DEF N
  <2>1. CASE m <= Len(A)
    <3>1. m \in 1 .. Len(Segment(1)) /\ m = Offset(1) + m /\ 1 \in 1 .. 5
      BY <1>1, <1>9, <2>0, <2>1 DEF A
    <3> QED BY <3>1
  <2>2. CASE Len(A) < m /\ m <= Len(A) + Len(B)
    <3>1. m - Len(A) \in 1 .. Len(Segment(2)) /\ m = Offset(2) + (m - Len(A)) /\ 2 \in 1 .. 5
      BY <1>1, <1>9, <2>0, <2>2 DEF B
    <3> QED BY <3>1
  <2>3. CASE Len(A) + Len(B) < m /\ m <= N
    <3>1. /\ m - (Len(A) + Len(B)) \in 1 .. Len(Segment(3)) /\ 3 \in 1 .. 5
          /\ m = Offset(3) + (m - (Len(A) + Len(B)))
      BY <1>1, <1>8, <1>9, <2>0, <2>3 DEF C
    <3> QED BY <3>1
  <2>4. CASE m = N + 1
    <3>0. 1 \in 1 .. 1 /\ 4 \in 1 .. 5 /\ m = Offset(4) + 1
      BY <1>9, <2>4
    <3>1. 1 \in 1 .. Len(Segment(4))
      BY <1>1, <3>0, Zenon
    <3> QED BY <3>0, <3>1
  <2>5. CASE m > N + 1
    <3>1. m - (N + 1) \in 1 .. Len(Segment(5)) /\ m = Offset(5) + (m - (N + 1)) /\ 5 \in 1 .. 5
      BY <1>1, <1>9, <2>0, <2>5 DEF E
    <3> QED BY <3>1
  <2> QED BY <1>1, <1>8, <2>0, <2>1, <2>2, <2>3, <2>4, <2>5
<1>13. QED
  BY <1>11, <1>12 DEF c

(* Positions are ordered as ranks and then numbers are.                    *)
LEMMA OffsetOrder ==
  ASSUME world \in WorldType,
         NEW k \in 1 .. 5, NEW n \in 1 .. Len(Segment(k)),
         NEW j \in 1 .. 5, NEW m \in 1 .. Len(Segment(j)),
         j < k \/ (j = k /\ m < n)
  PROVE  Offset(j) + m < Offset(k) + n
<1> DEFINE a == Len(Segment(1))
           b == Len(Segment(2))
           c == Len(Segment(3))
           e == Len(Segment(5))
<1>1. a \in Nat /\ b \in Nat /\ c \in Nat /\ e \in Nat /\ Len(Segment(4)) = 1
  BY Segments
<1>2. /\ Offset(1) = 0 /\ Offset(2) = a /\ Offset(3) = a + b
      /\ Offset(4) = a + b + c /\ Offset(5) = a + b + c + 1
  BY DEF Offset
<1>3. \A q \in 1 .. 5 : q = 1 \/ q = 2 \/ q = 3 \/ q = 4 \/ q = 5
  OBVIOUS
<1>4. m \in Nat /\ n \in Nat /\ m >= 1 /\ n >= 1 /\ m <= Len(Segment(j))
  BY Segments
<1> HIDE DEF a, b, c, e
<1>5. Offset(k) \in Nat /\ Offset(j) \in Nat
  BY <1>1, <1>2, <1>3
<1>6. CASE j = k /\ m < n
  BY <1>4, <1>5, <1>6
<1>7. CASE j < k
  <2>1. Offset(j) + Len(Segment(j)) <= Offset(k)
    <3>1. CASE j = 1
      BY <1>1, <1>2, <1>3, <1>7, <3>1 DEF a
    <3>2. CASE j = 2
      BY <1>1, <1>2, <1>3, <1>7, <3>2 DEF b
    <3>3. CASE j = 3
      BY <1>1, <1>2, <1>3, <1>7, <3>3 DEF c
    <3>4. CASE j = 4
      <4>1. k = 5 /\ a + b + c \in Nat
        BY <1>1, <1>3, <1>7, <3>4
      <4>2. Len(Segment(j)) = 1
        BY <1>1, <3>4, Zenon
      <4>3. Offset(j) = a + b + c /\ Offset(k) = a + b + c + 1
        BY <1>2, <3>4, <4>1
      <4> QED BY <4>1, <4>2, <4>3
    <3> QED BY <1>3, <1>7, <3>1, <3>2, <3>3, <3>4
  <2>2. Len(Segment(j)) \in Nat
    BY Segments
  <2> QED BY <1>4, <1>5, <2>1, <2>2
<1>8. QED
  BY <1>6, <1>7

PlaceHits(w, F, name) == {x \in Places(w, name) : F[x.path].kind # "absent"}
FirstPlace(w, F, name) ==
  CHOOSE x \in PlaceHits(w, F, name) : \A y \in PlaceHits(w, F, name) : ~Before(y, x)

(* The first candidate that is not gone is the first place where there is  *)
(* anything.                                                               *)
LEMMA CandidatesAsPlaces ==
  ASSUME world \in WorldType, NEW name \in Name, NEW F
  PROVE  \/ /\ PlaceHits(world, F, name) = {}
            /\ \A m \in 1 .. Len(Candidates(name)) : GoneItem(world, F, Candidates(name)[m])
         \/ /\ PlaceHits(world, F, name) # {}
            /\ FirstPlace(world, F, name).path \in Path
            /\ \E m \in 1 .. Len(Candidates(name)) :
                 /\ ~GoneItem(world, F, Candidates(name)[m])
                 /\ \A n \in 1 .. m - 1 : GoneItem(world, F, Candidates(name)[n])
                 /\ \A b, ans : OfItem(world, F, Candidates(name)[m], b, ans) =
                                  OfPath(world, F, FirstPlace(world, F, name).path, b, ans)
<1> DEFINE c == Candidates(name)
           hits == PlaceHits(world, F, name)
<1>1. ASSUME NEW k \in 1 .. 5, NEW n \in 1 .. Len(Segment(k))
      PROVE  /\ Offset(k) + n \in 1 .. Len(c)
             /\ ~GoneItem(world, F, c[Offset(k) + n]) <=> Spot(name, k, n) \in hits
             /\ \A b, ans : OfItem(world, F, c[Offset(k) + n], b, ans) =
                              OfPath(world, F, Spot(name, k, n).path, b, ans)
             /\ Spot(name, k, n).path \in Path
  <2>1. /\ Offset(k) + n \in 1 .. Len(c)
        /\ c[Offset(k) + n] = IF k = 4 THEN Item("cache", <<NoDir, name>>)
                              ELSE Item("path", Spot(name, k, n).path)
    BY CandidatesBySpot
  <2>2. /\ Spot(name, k, n).rank = k /\ Spot(name, k, n).n = n
        /\ Spot(name, k, n).path = <<Segment(k)[n], name>>
    BY DEF Spot
  <2>3. Segment(k) \in Seq(Dir) /\ Segment(k)[n] \in Dir
    BY Segments
  <2>4. Spot(name, k, n).path \in Path
    BY <2>2, <2>3 DEF Path
  <2>5. Spot(name, k, n) \in Places(world, name) <=> (k = 4 => Listed(world, name))
    <3>1. ASSUME Spot(name, k, n) \in Places(world, name), k = 4 PROVE Listed(world, name)
      <4> PICK k2 \in 1 .. 5 : \E n2 \in 1 .. Len(Segment(k2)) :
                 Spot(name, k, n) = Spot(name, k2, n2) /\ (k2 = 4 => Listed(world, name))
        BY <3>1, PlacesBySpot
      <4> PICK n2 \in 1 .. Len(Segment(k2)) :
                 Spot(name, k, n) = Spot(name, k2, n2) /\ (k2 = 4 => Listed(world, name))
        OBVIOUS
      <4>1. Spot(name, k2, n2).rank = k2
        BY DEF Spot
      <4> QED BY <2>2, <3>1, <4>1
    <3> QED BY <3>1, PlacesBySpot
  <2>6. CASE k = 4
    <3>1. Segment(k)[n] = world.cached
      <4>1. n \in 1 .. 1
        BY <2>6, Segments
      <4>2. n = 1
        BY <4>1
      <4> QED BY <2>6, <4>2 DEF Segment
    <3>2. c[Offset(k) + n] = [kind |-> "cache", at |-> <<NoDir, name>>]
      BY <2>1, <2>6 DEF Item
    <3>3. Spot(name, k, n).path = <<world.cached, name>>
      BY <2>2, <3>1
    <3>4. GoneItem(world, F, c[Offset(k) + n]) <=>
            (~Listed(world, name) \/ F[<<world.cached, name>>].kind = "absent")
      BY <3>2 DEF GoneItem
    <3>5. \A b, ans : OfItem(world, F, c[Offset(k) + n], b, ans) =
                        OfPath(world, F, <<world.cached, name>>, b, ans)
      BY <3>2 DEF OfItem
    <3> QED BY <2>1, <2>4, <2>5, <2>6, <3>3, <3>4, <3>5 DEF PlaceHits
  <2>7. CASE k # 4
    <3>1. c[Offset(k) + n] = [kind |-> "path", at |-> Spot(name, k, n).path]
      BY <2>1, <2>7 DEF Item
    <3>2. GoneItem(world, F, c[Offset(k) + n]) <=> F[Spot(name, k, n).path].kind = "absent"
      BY <3>1 DEF GoneItem
    <3>3. \A b, ans : OfItem(world, F, c[Offset(k) + n], b, ans) =
                        OfPath(world, F, Spot(name, k, n).path, b, ans)
      BY <3>1 DEF OfItem
    <3> QED BY <2>1, <2>4, <2>5, <2>7, <3>2, <3>3 DEF PlaceHits
  <2> QED BY <2>6, <2>7
<1>2. \A m \in 1 .. Len(c) :
        \E k \in 1 .. 5 : \E n \in 1 .. Len(Segment(k)) : m = Offset(k) + n
  BY CandidatesBySpot
<1>3. \A x \in hits : \E k \in 1 .. 5 : \E n \in 1 .. Len(Segment(k)) : x = Spot(name, k, n)
  BY PlacesBySpot DEF PlaceHits
<1>4. CASE hits = {}
  <2>1. \A m \in 1 .. Len(c) : GoneItem(world, F, c[m])
    BY <1>1, <1>2, <1>4
  <2> QED BY <1>4, <2>1
<1>5. CASE hits # {}
  <2> DEFINE T == {m \in 1 .. Len(c) : ~GoneItem(world, F, c[m])}
  <2>1. T # {} /\ T \in SUBSET Nat /\ Len(c) \in Nat
    <3>1. Len(c) \in Nat
      BY CandidatesType, SeqFacts
    <3>2. T # {}
      BY <1>1, <1>3, <1>5
    <3> QED BY <3>1, <3>2
  <2> PICK m \in T : \A j \in T : m <= j
    BY <2>1, LeastNat
  <2>2. /\ m \in 1 .. Len(c) /\ ~GoneItem(world, F, c[m])
        /\ \A j \in 1 .. m - 1 : GoneItem(world, F, c[j])
    BY <2>1
  <2> PICK k \in 1 .. 5 : \E n \in 1 .. Len(Segment(k)) : m = Offset(k) + n
    BY <1>2, <2>2
  <2> PICK n \in 1 .. Len(Segment(k)) : m = Offset(k) + n
    OBVIOUS
  <2> DEFINE x == Spot(name, k, n)
  <2>3. x \in hits
    BY <1>1, <2>2
  <2>4. ASSUME NEW y \in hits PROVE ~Before(y, x) /\ (Before(x, y) \/ y = x)
    <3> PICK k2 \in 1 .. 5 : \E n2 \in 1 .. Len(Segment(k2)) : y = Spot(name, k2, n2)
      BY <1>3
    <3> PICK n2 \in 1 .. Len(Segment(k2)) : y = Spot(name, k2, n2)
      OBVIOUS
    <3>1. Offset(k2) + n2 \in T
      BY <1>1
    <3>2. Offset(k) + n <= Offset(k2) + n2
      BY <3>1
    <3>3. /\ x.rank = k /\ x.n = n /\ y.rank = k2 /\ y.n = n2
      BY DEF Spot
    <3>4. ~(k2 < k \/ (k2 = k /\ n2 < n))
      <4>1. Offset(k2) + n2 \in Nat /\ Offset(k) + n \in Nat
        BY <2>1, <2>2, <3>1
      <4> HIDE DEF T
      <4>2. k2 < k \/ (k2 = k /\ n2 < n) => Offset(k2) + n2 < Offset(k) + n
        BY OffsetOrder
      <4> QED BY <3>2, <4>1, <4>2
    <3>5. k < k2 \/ (k = k2 /\ n < n2) \/ (k = k2 /\ n = n2)
      BY <3>4
    <3> QED BY <3>3, <3>4, <3>5 DEF Before
  <2>5. FirstPlace(world, F, name) = x
    <3>1. \E z \in hits : \A y \in hits : ~Before(y, z)
      BY <2>3, <2>4
    <3> DEFINE z == FirstPlace(world, F, name)
    <3>2. z \in hits /\ ~Before(x, z)
      BY <2>3, <3>1 DEF FirstPlace
    <3> HIDE DEF z
    <3> QED BY <2>4, <3>2 DEF z
  <2>6. x.path \in Path /\ \A b, ans : OfItem(world, F, c[m], b, ans) = OfPath(world, F, x.path, b, ans)
    BY <1>1
  <2> HIDE DEF T
  <2> QED BY <1>5, <2>2, <2>5, <2>6
<1>6. QED
  BY <1>4, <1>5

-----------------------------------------------------------------------------
(* Answers and how many scripts they follow.                               *)

Loop == Error("loop")
Answered == OutcomeType \cup {Loop}

(* a gives the answers of ans, and possibly more of them.                  *)
Extends(ans, a) == \A r \in Request : ans[r] # Loop => a[r] = ans[r]

(* A script's answer is missing, or the answer to one request it lists,    *)
(* the same one whatever the answers are.                                  *)
LEMMA OfScriptFacts ==
  ASSUME NEW F, NEW libs \in Seq(Request)
  PROVE  \/ \A ans : OfScript(world, F, libs, ans) = Error("missing")
         \/ \E r \in Request : \A ans : OfScript(world, F, libs, ans) = ans[r]
<1> DEFINE hits == {n \in 1 .. Len(libs) : ~Gone(world, F, libs[n])}
           k == CHOOSE n \in hits : \A m \in hits : n <= m
<1>1. CASE hits = {}
  BY <1>1 DEF OfScript
<1>2. CASE hits # {}
  <2>1. hits \in SUBSET Nat
    OBVIOUS
  <2>2. k \in hits
    BY <1>2, <2>1, LeastHit
  <2>3. libs[k] \in Request
    BY <2>2
  <2>4. \A ans : OfScript(world, F, libs, ans) = ans[libs[k]]
    BY <1>2 DEF OfScript
  <2> QED BY <2>3, <2>4
<1>3. QED
  BY <1>1, <1>2

(* So is a path's: a fixed answer, or the answer to one request.           *)
LEMMA OfPathFacts ==
  ASSUME world \in WorldType, NEW F \in [Path -> File], NEW p \in Path, NEW b \in File
  PROVE  \/ \E v \in OutcomeType : \A ans : OfPath(world, F, p, b, ans) = v
         \/ \E r \in Request : \A ans : OfPath(world, F, p, b, ans) = ans[r]
<1> DEFINE f == IF b = Absent THEN F[p] ELSE b
<1>1. F[p] \in File /\ f \in File
  OBVIOUS
<1>2. /\ F[p].ino \in Nat /\ f.ino \in Nat /\ f.text \in Seq(Token)
  BY <1>1, FileFacts
<1> HIDE DEF f
<1>3. Parse(f.text) \in Seq(Request)
  BY <1>2, ParseType
<1>4. \A ans : OfPath(world, F, p, b, ans) =
        CASE F[p].kind = "absent" -> Error("missing")
        [] F[p].kind = "barred" -> Error("failed")
        [] OTHER ->
             IF F[p].ino \in world.inodes THEN Existing(F[p].ino)
             ELSE CASE f.kind = "elf" -> Load(f.ino, F[p].ino)
                    [] f.kind = "script" -> OfScript(world, F, Parse(f.text), ans)
                    [] OTHER -> Error("failed")
  BY DEF OfPath, f
<1>5. /\ Error("missing") \in OutcomeType /\ Error("failed") \in OutcomeType
      /\ Existing(F[p].ino) \in OutcomeType /\ Load(f.ino, F[p].ino) \in OutcomeType
  BY <1>2, OutcomeTypes
<1>6. CASE F[p].kind = "absent"
  BY <1>4, <1>5, <1>6
<1>7. CASE F[p].kind = "barred"
  BY <1>4, <1>5, <1>7
<1>8. CASE F[p].kind \notin {"absent", "barred"} /\ F[p].ino \in world.inodes
  BY <1>4, <1>5, <1>8
<1>9. CASE F[p].kind \notin {"absent", "barred"} /\ F[p].ino \notin world.inodes
  <2>1. CASE f.kind = "elf"
    BY <1>4, <1>5, <1>9, <2>1
  <2>2. CASE f.kind = "script"
    <3>1. \A ans : OfPath(world, F, p, b, ans) = OfScript(world, F, Parse(f.text), ans)
      BY <1>4, <1>9, <2>2
    <3>2. \/ \A ans : OfScript(world, F, Parse(f.text), ans) = Error("missing")
          \/ \E r \in Request : \A ans : OfScript(world, F, Parse(f.text), ans) = ans[r]
      BY <1>3, OfScriptFacts
    <3> QED BY <1>5, <3>1, <3>2
  <2>3. CASE f.kind \notin {"elf", "script"}
    BY <1>4, <1>5, <1>9, <2>3
  <2> QED BY <2>1, <2>2, <2>3
<1>10. QED
  BY <1>6, <1>7, <1>8, <1>9

(* And a request's.                                                        *)
LEMMA OfRequestFacts ==
  ASSUME world \in WorldType, NEW F \in [Path -> File], NEW r \in Request, NEW b \in File
  PROVE  \/ \E v \in OutcomeType : \A ans : OfRequest(world, F, r, b, ans) = v
         \/ \E s \in Request : \A ans : OfRequest(world, F, r, b, ans) = ans[s]
<1>1. \A ans : OfRequest(world, F, r, b, ans) =
        IF r[2] \in world.names THEN Existing(0)
        ELSE IF r[1] # NoDir THEN OfPath(world, F, r, b, ans)
        ELSE IF PlaceHits(world, F, r[2]) = {} THEN Error("missing")
        ELSE OfPath(world, F, FirstPlace(world, F, r[2]).path, b, ans)
  BY DEF OfRequest, PlaceHits, FirstPlace
<1>2. Error("missing") \in OutcomeType /\ Existing(0) \in OutcomeType
  BY OutcomeTypes
<1>3. r[2] \in Name /\ (r[1] # NoDir => r \in Path)
  BY PathsAreRequests
<1>4. CASE r[2] \in world.names
  BY <1>1, <1>2, <1>4
<1>5. CASE r[2] \notin world.names /\ r[1] # NoDir
  BY <1>1, <1>3, <1>5, OfPathFacts
<1>6. CASE r[2] \notin world.names /\ r[1] = NoDir /\ PlaceHits(world, F, r[2]) = {}
  BY <1>1, <1>2, <1>6
<1>7. CASE r[2] \notin world.names /\ r[1] = NoDir /\ PlaceHits(world, F, r[2]) # {}
  <2> DEFINE p == FirstPlace(world, F, r[2]).path
  <2>1. p \in Path
    BY <1>3, <1>7, CandidatesAsPlaces
  <2>2. \A ans : OfRequest(world, F, r, b, ans) = OfPath(world, F, p, b, ans)
    BY <1>1, <1>7
  <2> HIDE DEF p
  <2> QED BY <2>1, <2>2, OfPathFacts
<1>8. QED
  BY <1>4, <1>5, <1>6, <1>7

(* More answers below, more above: never a different one.                  *)
LEMMA OfRequestExtends ==
  ASSUME world \in WorldType, NEW F \in [Path -> File], NEW r \in Request, NEW b \in File,
         NEW ans, NEW a, Extends(ans, a), OfRequest(world, F, r, b, ans) # Loop
  PROVE  OfRequest(world, F, r, b, a) = OfRequest(world, F, r, b, ans)
  BY OfRequestFacts DEF Extends

LEMMA OfPathExtends ==
  ASSUME world \in WorldType, NEW F \in [Path -> File], NEW p \in Path, NEW b \in File,
         NEW ans, NEW a, Extends(ans, a), OfPath(world, F, p, b, ans) # Loop
  PROVE  OfPath(world, F, p, b, a) = OfPath(world, F, p, b, ans)
  BY OfPathFacts DEF Extends

(* What the recursion in Answers computes.                                 *)
AnswersOf(w, F, answers) ==
  /\ answers \in [Nat -> [Request -> Answered]]
  /\ \A r \in Request : answers[0][r] = Loop
  /\ \A d \in Nat : \A r \in Request :
       answers[d + 1][r] = OfRequest(w, F, r, Absent, answers[d])

LEMMA AnswersExist ==
  ASSUME world \in WorldType, NEW F \in [Path -> File]
  PROVE  \E answers : AnswersOf(world, F, answers)
<1> DEFINE S == [Request -> Answered]
           none == [r \in Request |-> Loop]
           row(ans) == [r \in Request |-> OfRequest(world, F, r, Absent, ans)]
           make == [d \in Nat |-> [ans \in S |-> row(ans)]]
<1>1. none \in S
  BY DEF Answered
<1>2. ASSUME NEW ans \in S PROVE row(ans) \in S
  <2>1. \A r \in Request : ans[r] \in Answered
    OBVIOUS
  <2>2. ASSUME NEW r \in Request PROVE OfRequest(world, F, r, Absent, ans) \in Answered
    BY <2>1, OfRequestFacts, FileFacts DEF Answered
  <2> QED BY <2>2
<1>3. make \in [Nat -> [S -> S]]
  <2> HIDE DEF S, row
  <2> QED BY <1>2
<1>4. \A d \in Nat : \A ans \in S : make[d][ans] = row(ans)
  <2> HIDE DEF S, row
  <2> QED OBVIOUS
<1> HIDE DEF make, none, S
<1> PICK f : IsIteration(f, S, none, make)
  BY <1>1, <1>3, Iteration
<1>5. f \in [Nat -> S] /\ f[0] = none /\ \A d \in Nat : f[d + 1] = make[d][f[d]]
  BY DEF IsIteration
<1>6. ASSUME NEW d \in Nat PROVE f[d + 1] = row(f[d])
  <2>1. f[d] \in S
    BY <1>5
  <2> HIDE DEF row
  <2> QED BY <1>4, <1>5, <2>1
<1>7. \A d \in Nat : \A r \in Request : f[d + 1][r] = OfRequest(world, F, r, Absent, f[d])
  BY <1>6
<1>8. \A r \in Request : f[0][r] = Loop
  BY <1>5 DEF none
<1>9. f \in [Nat -> [Request -> Answered]]
  BY <1>5 DEF S
<1>10. AnswersOf(world, F, f)
  BY <1>7, <1>8, <1>9 DEF AnswersOf
<1>11. QED
  BY <1>10

LEMMA AnswersDef ==
  ASSUME world \in WorldType, NEW F \in [Path -> File]
  PROVE  AnswersOf(world, F, Answers(world, F))
<1> DEFINE Rec(g) == [d \in Nat |-> [r \in Request |->
                        IF d = 0 THEN Loop ELSE OfRequest(world, F, r, Absent, g[d - 1])]]
           f == CHOOSE g : g = Rec(g)
<1>1. Answers(world, F) = f
  BY DEF Answers, Loop
<1> PICK h : AnswersOf(world, F, h)
  BY AnswersExist
<1>2. h = Rec(h)
  <2>1. ASSUME NEW d \in Nat, NEW r \in Request
        PROVE  h[d][r] = IF d = 0 THEN Loop ELSE OfRequest(world, F, r, Absent, h[d - 1])
    <3>1. CASE d = 0
      BY <3>1 DEF AnswersOf
    <3>2. CASE d # 0
      <4>1. d - 1 \in Nat /\ (d - 1) + 1 = d
        BY <3>2
      <4>2. h[(d - 1) + 1][r] = OfRequest(world, F, r, Absent, h[d - 1])
        BY <4>1 DEF AnswersOf
      <4> QED BY <3>2, <4>1, <4>2
    <3> QED BY <3>1, <3>2
  <2>2. \A d \in Nat : h[d] = [r \in Request |->
          IF d = 0 THEN Loop ELSE OfRequest(world, F, r, Absent, h[d - 1])]
    <3> TAKE d \in Nat
    <3>1. h[d] \in [Request -> Answered]
      BY DEF AnswersOf
    <3> QED BY <2>1, <3>1
  <2> QED BY <2>2 DEF AnswersOf
<1>3. f = Rec(f)
  <2> HIDE DEF Rec
  <2> QED BY <1>2
<1> HIDE DEF f
<1>4. \A d \in Nat : f[d] = [r \in Request |->
        IF d = 0 THEN Loop ELSE OfRequest(world, F, r, Absent, f[d - 1])]
  <2>1. \A d \in Nat : Rec(f)[d] = [r \in Request |->
          IF d = 0 THEN Loop ELSE OfRequest(world, F, r, Absent, f[d - 1])]
    OBVIOUS
  <2> HIDE DEF Rec
  <2> QED BY <1>3, <2>1
<1>5. \A d \in Nat : f[d] = h[d]
  <2> DEFINE T == {d \in Nat : f[d] = h[d]}
  <2>0. \A d \in Nat : h[d] = [r \in Request |->
          IF d = 0 THEN Loop ELSE OfRequest(world, F, r, Absent, h[d - 1])]
    <3>1. \A d \in Nat : Rec(h)[d] = [r \in Request |->
            IF d = 0 THEN Loop ELSE OfRequest(world, F, r, Absent, h[d - 1])]
      OBVIOUS
    <3> HIDE DEF Rec
    <3> QED BY <1>2, <3>1
  <2>1. 0 \in T
    BY <1>4, <2>0
  <2>2. ASSUME NEW d \in Nat, d \in T PROVE d + 1 \in T
    <3>1. d + 1 \in Nat /\ d + 1 # 0 /\ (d + 1) - 1 = d /\ f[d] = h[d]
      BY <2>2
    <3>2. f[d + 1] = [r \in Request |-> OfRequest(world, F, r, Absent, f[d])]
      BY <1>4, <3>1
    <3>3. h[d + 1] = [r \in Request |-> OfRequest(world, F, r, Absent, h[d])]
      BY <2>0, <3>1
    <3> QED BY <3>1, <3>2, <3>3
  <2> HIDE DEF T
  <2>3. \A d \in Nat : d \in T
    BY <2>1, <2>2, NatSetInduction
  <2> QED BY <2>3 DEF T
<1>6. f = h
  <2>1. f = [d \in Nat |-> f[d]]
    BY <1>3
  <2>2. h = [d \in Nat |-> h[d]]
    BY DEF AnswersOf
  <2> QED BY <1>5, <2>1, <2>2
<1>7. QED
  BY <1>1, <1>6

(* Following more scripts only adds answers.                               *)
LEMMA AnswersGrow ==
  ASSUME world \in WorldType, NEW F \in [Path -> File]
  PROVE  \A d, e \in Nat : d <= e => Extends(Answers(world, F)[d], Answers(world, F)[e])
<1> DEFINE A == Answers(world, F)
<1>0. AnswersOf(world, F, A)
  BY AnswersDef
<1> HIDE DEF A
<1>1. /\ \A r \in Request : A[0][r] = Loop
      /\ \A d \in Nat : \A r \in Request : A[d + 1][r] = OfRequest(world, F, r, Absent, A[d])
  BY <1>0 DEF AnswersOf
<1>2. \A d \in Nat : Extends(A[d], A[d + 1])
  <2> DEFINE T == {d \in Nat : Extends(A[d], A[d + 1])}
  <2>1. 0 \in T
    BY <1>1 DEF Extends
  <2>2. ASSUME NEW d \in Nat, d \in T PROVE d + 1 \in T
    <3>1. Extends(A[d], A[d + 1]) /\ d + 1 \in Nat
      BY <2>2
    <3>2. ASSUME NEW r \in Request, A[d + 1][r] # Loop
          PROVE  A[(d + 1) + 1][r] = A[d + 1][r]
      <4>1. /\ A[d + 1][r] = OfRequest(world, F, r, Absent, A[d])
            /\ A[(d + 1) + 1][r] = OfRequest(world, F, r, Absent, A[d + 1])
        BY <1>1, <3>1
      <4> QED BY <3>1, <3>2, <4>1, OfRequestExtends, FileFacts
    <3> QED BY <3>1, <3>2 DEF Extends
  <2> HIDE DEF T
  <2>3. \A d \in Nat : d \in T
    BY <2>1, <2>2, NatSetInduction
  <2> QED BY <2>3 DEF T
<1>3. ASSUME NEW d \in Nat PROVE \A e \in Nat : d <= e => Extends(A[d], A[e])
  <2> DEFINE T == {e \in Nat : d <= e => Extends(A[d], A[e])}
  <2>1. 0 \in T
    <3>1. d <= 0 => d = 0
      OBVIOUS
    <3> QED BY <3>1 DEF Extends
  <2>2. ASSUME NEW e \in Nat, e \in T PROVE e + 1 \in T
    <3>1. CASE d = e + 1
      BY <3>1 DEF Extends
    <3>2. CASE d <= e
      <4>1. Extends(A[d], A[e]) /\ Extends(A[e], A[e + 1])
        BY <1>2, <2>2, <3>2
      <4>2. Extends(A[d], A[e + 1])
        BY <4>1 DEF Extends
      <4> QED BY <4>2
    <3>3. CASE ~(d <= e + 1)
      BY <3>3
    <3> QED BY <3>1, <3>2, <3>3
  <2> HIDE DEF T
  <2>3. \A e \in Nat : e \in T
    BY <2>1, <2>2, NatSetInduction
  <2> QED BY <2>3 DEF T
<1>4. QED
  BY <1>3 DEF A

LEMMA RequestsFinite == IsFiniteSet(Request) /\ Cardinality(Request) \in Nat
<1>1. IsFiniteSet(Dir \cup {NoDir}) /\ IsFiniteSet(Name)
  BY SearchAssumption, FS_AddElement
<1>2. IsFiniteSet((Dir \cup {NoDir}) \X Name)
  BY <1>1, FS_Product
<1>3. QED
  BY <1>2, FS_CardinalityType DEF Request

(* A chain of scripts longer than there are requests goes in a circle:     *)
(* following as many scripts as there are requests gives every answer.     *)
LEMMA AnswersSettle ==
  ASSUME world \in WorldType, NEW F \in [Path -> File], NEW d \in Nat
  PROVE  Extends(Answers(world, F)[d], Answers(world, F)[Cardinality(Request)])
<1> DEFINE A == Answers(world, F)
           N == Cardinality(Request)
           L(e) == {r \in Request : A[e][r] = Loop}
           Still(e) == \E c \in Nat : c < e /\ A[c + 1] = A[c]
           Q == {e \in Nat : Still(e) \/ Cardinality(L(e)) + e <= N}
<1>0. AnswersOf(world, F, A)
  BY AnswersDef
<1>1. \A e, g \in Nat : e <= g => Extends(A[e], A[g])
  BY AnswersGrow
<1>2. N \in Nat /\ IsFiniteSet(Request)
  BY RequestsFinite
<1> HIDE DEF A
<1>3. \A e \in Nat : A[e] \in [Request -> Answered]
  BY <1>0 DEF AnswersOf
<1>4. \A e \in Nat : IsFiniteSet(L(e)) /\ Cardinality(L(e)) \in Nat
  <2> TAKE e \in Nat
  <2>1. L(e) \in SUBSET Request
    OBVIOUS
  <2> QED BY <1>2, <2>1, FS_Subset, FS_CardinalityType
<1>5. \A e \in Nat : e \in Q
  <2>1. 0 \in Q
    <3>1. L(0) = Request
      BY <1>0 DEF AnswersOf
    <3> HIDE DEF L
    <3> QED BY <1>2, <3>1
  <2>2. ASSUME NEW e \in Nat, e \in Q PROVE e + 1 \in Q
    <3>1. CASE Still(e)
      <4>1. \A c \in Nat : c < e => c < e + 1
        OBVIOUS
      <4> QED BY <3>1, <4>1
    <3>2. CASE A[e + 1] = A[e]
      <4>1. e < e + 1
        OBVIOUS
      <4> QED BY <3>2, <4>1
    <3>3. CASE ~Still(e) /\ A[e + 1] # A[e]
      <4>1. Extends(A[e], A[e + 1]) /\ e + 1 \in Nat
        BY <1>1
      <4>2. A[e] \in [Request -> Answered] /\ A[e + 1] \in [Request -> Answered]
        BY <1>3, <4>1
      <4> PICK r \in Request : A[e + 1][r] # A[e][r]
        BY <3>3, <4>2
      <4>3. A[e][r] = Loop /\ A[e + 1][r] # Loop
        BY <4>1 DEF Extends
      <4>4. L(e + 1) \subseteq L(e) \ {r} /\ r \in L(e)
        BY <4>1, <4>3 DEF Extends
      <4> DEFINE big == L(e)
                 small == L(e + 1)
      <4>5. IsFiniteSet(big) /\ small \in SUBSET (big \ {r}) /\ r \in big
        BY <1>4, <4>4
      <4>6. Cardinality(big) \in Nat /\ Cardinality(small) \in Nat
        BY <1>4, <4>1
      <4> HIDE DEF big, small
      <4>7. IsFiniteSet(big \ {r}) /\ Cardinality(big \ {r}) = Cardinality(big) - 1
        BY <4>5, FS_RemoveElement
      <4>8. Cardinality(small) <= Cardinality(big) - 1
        BY <4>5, <4>7, FS_Subset
      <4>9. Cardinality(big) + e <= N
        BY <2>2, <3>3 DEF big
      <4>10. Cardinality(small) + (e + 1) <= N
        BY <1>2, <4>6, <4>8, <4>9
      <4> QED BY <4>10 DEF small
    <3> QED BY <3>1, <3>2, <3>3
  <2> HIDE DEF Q
  <2> QED BY <2>1, <2>2, NatSetInduction
<1>6. N \in Q
  BY <1>2, <1>5
<1>7. CASE Still(N)
  <2> PICK c \in Nat : c < N /\ A[c + 1] = A[c]
    BY <1>7
  <2> DEFINE T == {e \in Nat : e >= c => A[e] = A[c]}
  <2>1. 0 \in T
    <3>1. 0 >= c => c = 0
      OBVIOUS
    <3> QED BY <3>1
  <2>2. ASSUME NEW e \in Nat, e \in T PROVE e + 1 \in T
    <3>1. CASE e >= c
      <4>1. A[e] = A[c]
        BY <2>2, <3>1
      <4>2. \A r \in Request : A[e + 1][r] = A[c + 1][r]
        BY <1>0, <4>1 DEF AnswersOf
      <4>3. A[e + 1] \in [Request -> Answered] /\ A[c + 1] \in [Request -> Answered]
        BY <1>3
      <4>4. A[e + 1] = A[c + 1]
        BY <4>2, <4>3
      <4> QED BY <4>4
    <3>2. CASE ~(e >= c)
      <4>1. e + 1 >= c => e + 1 = c
        BY <3>2
      <4> QED BY <4>1
    <3> QED BY <3>1, <3>2
  <2> HIDE DEF T
  <2>3. d \in T /\ N \in T
    BY <1>2, <2>1, <2>2, NatSetInduction
  <2>4. N >= c
    BY <1>2
  <2>5. CASE d >= c
    <3>1. A[d] = A[N]
      BY <2>3, <2>4, <2>5 DEF T
    <3> QED BY <3>1 DEF Extends, A
  <2>6. CASE d < c
    <3>1. d <= N
      BY <1>2, <2>6
    <3> QED BY <1>1, <1>2, <3>1 DEF A
  <2> QED BY <2>5, <2>6
<1>8. CASE Cardinality(L(N)) + N <= N
  <2>1. Cardinality(L(N)) = 0
    BY <1>2, <1>4, <1>8
  <2>2. L(N) = {}
    BY <1>2, <1>4, <2>1, FS_EmptySet
  <2>3. \A r \in Request : A[N][r] # Loop
    BY <2>2
  <2>4. CASE d <= N
    BY <1>1, <1>2, <2>4 DEF A
  <2>5. CASE N <= d
    <3>1. Extends(A[N], A[d])
      BY <1>1, <1>2, <2>5
    <3> QED BY <2>3, <3>1 DEF Extends, A
  <2> QED BY <1>2, <2>4, <2>5
<1>9. QED
  BY <1>6, <1>7, <1>8

-----------------------------------------------------------------------------
(* A search in a file system F that stands still.                          *)

RestOf(w, F, d, label, list, b, o) ==
  IF label = "done" THEN o ELSE First(w, F, d, list, b)

(* What the search will answer if F stays as it is.                        *)
Rest(F, d) == RestOf(world, F, d, step, todo, bytes, outcome)

(* The types, the lookup in a cache that can be read, and the candidate.   *)
SearchInv ==
  SearchTypeOK /\ LookupInv /\ CandidateInv /\ AllLegible(world.LD_CACHE)

(* F says of the candidate what the file system says.                      *)
Agrees(F) == todo # <<>> /\ Head(todo).kind = "path" =>
               F[Head(todo).at] = fs[Head(todo).at]

(* An item, by its kind.                                                   *)
LEMMA ItemMeans ==
  /\ \A w, F, r, b, ans : /\ GoneItem(w, F, Item("request", r)) <=> Gone(w, F, r)
                          /\ OfItem(w, F, Item("request", r), b, ans) =
                               OfRequest(w, F, r, b, ans)
  /\ \A w, F, p, b, ans : /\ GoneItem(w, F, Item("path", p)) <=> F[p].kind = "absent"
                          /\ OfItem(w, F, Item("path", p), b, ans) =
                               OfPath(w, F, p, b, ans)
  /\ \A w, F, r, b, ans :
       /\ GoneItem(w, F, Item("cache", r)) <=>
            (~Listed(w, r[2]) \/ F[<<w.cached, r[2]>>].kind = "absent")
       /\ OfItem(w, F, Item("cache", r), b, ans) =
            OfPath(w, F, <<w.cached, r[2]>>, b, ans)
  /\ \A x \in ItemType : x = Item(x.kind, x.at)
<1>1. \A kind, r : Item(kind, r).kind = kind /\ Item(kind, r).at = r
  BY DEF Item
<1>2. \A x \in ItemType : x = Item(x.kind, x.at)
  BY DEF Item, ItemType
<1>3. QED
  BY <1>1, <1>2 DEF GoneItem, OfItem

(* Following more scripts does not change what is found.                   *)
LEMMA WithinGrows ==
  ASSUME world \in WorldType, NEW F \in [Path -> File], NEW x \in ItemType,
         NEW b \in File, NEW d \in Nat, NEW e \in Nat, d <= e,
         Within(world, F, d, x, b) # Loop
  PROVE  Within(world, F, e, x, b) = Within(world, F, d, x, b)
<1>1. d # 0 /\ e # 0 /\ d - 1 \in Nat /\ e - 1 \in Nat /\ d - 1 <= e - 1
  <2>1. d # 0
    BY DEF Within, Loop
  <2> QED BY <2>1
<1> DEFINE ans == Answers(world, F)[d - 1]
           a == Answers(world, F)[e - 1]
<1>2. Extends(ans, a)
  BY <1>1, AnswersGrow
<1>3. Within(world, F, d, x, b) = OfItem(world, F, x, b, ans)
  BY <1>1 DEF Within
<1>4. Within(world, F, e, x, b) = OfItem(world, F, x, b, a)
  BY <1>1 DEF Within
<1> HIDE DEF ans, a
<1>5. x = Item(x.kind, x.at) /\ x.kind \in {"request", "path", "cache"}
  BY ItemMeans, ItemTypes
<1>6. CASE x.kind = "request"
  <2>1. x.at \in Request /\ x = Item("request", x.at)
    BY <1>5, <1>6, ItemTypes
  <2>2. \A z : OfItem(world, F, x, b, z) = OfRequest(world, F, x.at, b, z)
    BY <2>1, ItemMeans
  <2> QED BY <1>2, <1>3, <1>4, <2>1, <2>2, OfRequestExtends
<1>7. CASE x.kind = "path"
  <2>1. x.at \in Path /\ x = Item("path", x.at)
    BY <1>5, <1>7, ItemTypes
  <2>2. \A z : OfItem(world, F, x, b, z) = OfPath(world, F, x.at, b, z)
    BY <2>1, ItemMeans
  <2> QED BY <1>2, <1>3, <1>4, <2>1, <2>2, OfPathExtends
<1>8. CASE x.kind = "cache"
  <2> DEFINE p == <<world.cached, x.at[2]>>
  <2>1. p \in Path /\ x = Item("cache", x.at)
    BY <1>5, <1>8, ItemTypes, WorldFacts DEF Path
  <2>2. \A z : OfItem(world, F, x, b, z) = OfPath(world, F, p, b, z)
    BY <2>1, ItemMeans
  <2> HIDE DEF p
  <2> QED BY <1>2, <1>3, <1>4, <2>1, <2>2, OfPathExtends
<1>9. QED
  BY <1>5, <1>6, <1>7, <1>8

LEMMA FirstGrows ==
  ASSUME world \in WorldType, NEW F \in [Path -> File], NEW list \in Seq(ItemType),
         NEW b \in File, NEW d \in Nat, NEW e \in Nat, d <= e,
         First(world, F, d, list, b) # Loop
  PROVE  First(world, F, e, list, b) = First(world, F, d, list, b)
<1> DEFINE hits == Hits(world, F, list)
           k == CHOOSE n \in hits : \A m \in hits : n <= m
<1>1. CASE hits = {}
  BY <1>1 DEF First
<1>2. CASE hits # {}
  <2>1. hits \in SUBSET Nat
    BY DEF Hits
  <2>2. k \in hits
    BY <1>2, <2>1, LeastHit
  <2>3. list[k] \in ItemType
    BY <2>2 DEF Hits
  <2>4. \A n : First(world, F, n, list, b) = Within(world, F, n, list[k], b)
    BY <1>2 DEF First
  <2> HIDE DEF k
  <2> QED BY <2>3, <2>4, WithinGrows
<1>3. QED
  BY <1>1, <1>2

LEMMA RestGrows ==
  ASSUME SearchTypeOK, NEW F \in [Path -> File], NEW d \in Nat, NEW e \in Nat, d <= e,
         Rest(F, d) # Loop
  PROVE  Rest(F, e) = Rest(F, d)
  BY FirstGrows DEF Rest, RestOf, SearchTypeOK

(* A script's list is searched as the script promises.                     *)
LEMMA ScriptFirst ==
  ASSUME world \in WorldType, NEW F \in [Path -> File], NEW libs \in Seq(Request),
         NEW d \in Nat
  PROVE  First(world, F, d, [n \in 1 .. Len(libs) |-> Item("request", libs[n])], Absent) =
           OfScript(world, F, libs, Answers(world, F)[d])
<1> DEFINE list == [n \in 1 .. Len(libs) |-> Item("request", libs[n])]
           hits == Hits(world, F, list)
           k == CHOOSE n \in hits : \A m \in hits : n <= m
<1>1. Len(list) = Len(libs) /\ \A n \in 1 .. Len(libs) : list[n] = Item("request", libs[n])
  OBVIOUS
<1> HIDE DEF list
<1>2. hits = {n \in 1 .. Len(libs) : ~Gone(world, F, libs[n])}
  BY <1>1, ItemMeans DEF Hits
<1>3. CASE hits = {}
  <2> HIDE DEF hits
  <2> QED BY <1>2, <1>3 DEF First, OfScript, hits, list
<1>4. CASE hits # {}
  <2>1. hits \in SUBSET Nat
    BY <1>2
  <2>2. k \in hits
    BY <1>4, <2>1, LeastHit
  <2>3. k \in 1 .. Len(libs) /\ libs[k] \in Request
    BY <1>2, <2>2
  <2>4. First(world, F, d, list, Absent) = Within(world, F, d, list[k], Absent)
    BY <1>4 DEF First
  <2>5. OfScript(world, F, libs, Answers(world, F)[d]) = Answers(world, F)[d][libs[k]]
    <3> HIDE DEF hits
    <3> QED BY <1>2, <1>4 DEF OfScript
  <2> HIDE DEF k
  <2>6. Within(world, F, d, list[k], Absent) = Answers(world, F)[d][libs[k]]
    <3>1. AnswersOf(world, F, Answers(world, F))
      BY AnswersDef
    <3>2. CASE d = 0
      BY <2>3, <3>1, <3>2 DEF Within, AnswersOf, Loop
    <3>3. CASE d # 0
      <4>1. d - 1 \in Nat /\ (d - 1) + 1 = d
        BY <3>3
      <4>2. Answers(world, F)[(d - 1) + 1][libs[k]] =
              OfRequest(world, F, libs[k], Absent, Answers(world, F)[d - 1])
        BY <2>3, <3>1, <4>1 DEF AnswersOf
      <4>3. Within(world, F, d, list[k], Absent) =
              OfItem(world, F, list[k], Absent, Answers(world, F)[d - 1])
        BY <3>3 DEF Within
      <4> QED BY <1>1, <2>3, <4>1, <4>2, <4>3, ItemMeans
    <3> QED BY <3>2, <3>3
  <2> QED BY <2>4, <2>5, <2>6 DEF list
<1>5. QED
  BY <1>3, <1>4

(* The answer is the same after a step, or was not known before it.        *)
Keeps(F, d) == Rest(F, d)' = Rest(F, d) \/ (d = 0 /\ Rest(F, d) = Loop)

(* The head of the list decides: a step that ends the search.              *)
LEMMA KeepsDone ==
  ASSUME SearchTypeOK, NEW F, NEW d \in Nat, NEW o, todo # <<>>, step # "done",
         ~GoneItem(world, F, Head(todo)), Done(o),
         d # 0 => OfItem(world, F, Head(todo), bytes, Answers(world, F)[d - 1]) = o
  PROVE  Keeps(F, d)
<1>1. todo \in Seq(ItemType)
  BY DEF SearchTypeOK
<1>2. Rest(F, d) = Within(world, F, d, Head(todo), bytes)
  BY <1>1, FirstHere DEF Rest, RestOf
<1>3. Rest(F, d)' = o
  BY DEF Rest, RestOf, Done
<1>4. CASE d = 0
  BY <1>2, <1>4 DEF Keeps, Within, Loop
<1>5. CASE d # 0
  BY <1>2, <1>3, <1>5 DEF Keeps, Within
<1>6. QED
  BY <1>4, <1>5

(* A step that goes on with an item that is gone.                          *)
LEMMA KeepsSkip ==
  ASSUME SearchTypeOK, NEW F, NEW d, todo # <<>>, step # "done",
         GoneItem(world, F, Head(todo)), Skip
  PROVE  Rest(F, d)' = Rest(F, d)
<1>1. todo \in Seq(ItemType)
  BY DEF SearchTypeOK
<1>2. Rest(F, d) = First(world, F, d, Tail(todo), bytes)
  BY <1>1, FirstLater DEF Rest, RestOf
<1>3. QED
  BY <1>2 DEF Rest, RestOf, Skip, Try

(* A step that puts a path for an item that means the same.                *)
LEMMA KeepsReplace ==
  ASSUME SearchTypeOK, NEW F, NEW d \in Nat, NEW p \in Path, todo # <<>>, step # "done",
         GoneItem(world, F, Head(todo)) <=> F[p].kind = "absent",
         F[p].kind = "absent" \/
           \A b, ans : OfItem(world, F, Head(todo), b, ans) = OfPath(world, F, p, b, ans),
         Try(<<Item("path", p)>> \o Tail(todo)), UNCHANGED bytes
  PROVE  Rest(F, d)' = Rest(F, d)
<1> DEFINE list == <<Item("path", p)>> \o Tail(todo)
<1>1. todo \in Seq(ItemType) /\ Item("path", p) \in ItemType
  BY ItemTypes DEF SearchTypeOK
<1>2. /\ Tail(todo) \in Seq(ItemType)
      /\ list \in Seq(ItemType) /\ list # <<>> /\ Head(list) = Item("path", p)
      /\ Tail(list) = Tail(todo)
  <2>1. Tail(todo) \in Seq(ItemType)
    BY <1>1, SeqFacts
  <2> DEFINE rest == Tail(todo)
  <2> HIDE DEF rest
  <2>2. rest \in Seq(ItemType)
    BY <2>1 DEF rest
  <2>3. /\ <<Item("path", p)>> \o rest \in Seq(ItemType)
        /\ <<Item("path", p)>> \o rest # <<>>
        /\ Head(<<Item("path", p)>> \o rest) = Item("path", p)
        /\ Tail(<<Item("path", p)>> \o rest) = rest
    BY <1>1, <2>2
  <2> QED BY <2>1, <2>3 DEF rest
<1> HIDE DEF list
<1>3. Rest(F, d)' = First(world, F, d, list, bytes) /\ Rest(F, d) = First(world, F, d, todo, bytes)
  BY DEF Rest, RestOf, Try, list
<1>4. CASE F[p].kind = "absent"
  <2>1. First(world, F, d, list, bytes) = First(world, F, d, Tail(list), bytes)
    BY <1>2, <1>4, ItemMeans, FirstLater
  <2>2. First(world, F, d, todo, bytes) = First(world, F, d, Tail(todo), bytes)
    BY <1>1, <1>4, FirstLater
  <2> QED BY <1>2, <1>3, <2>1, <2>2
<1>5. CASE F[p].kind # "absent"
  <2>1. First(world, F, d, list, bytes) = Within(world, F, d, Item("path", p), bytes)
    BY <1>2, <1>5, ItemMeans, FirstHere
  <2>2. First(world, F, d, todo, bytes) = Within(world, F, d, Head(todo), bytes)
    BY <1>1, <1>5, FirstHere
  <2>3. \A ans : OfItem(world, F, Item("path", p), bytes, ans) =
                   OfItem(world, F, Head(todo), bytes, ans)
    BY <1>5, ItemMeans
  <2>4. Within(world, F, d, Item("path", p), bytes) = Within(world, F, d, Head(todo), bytes)
    BY <2>3 DEF Within
  <2> QED BY <1>3, <2>1, <2>2, <2>4
<1>6. QED
  BY <1>4, <1>5

(* A step that leaves the list alone.                                      *)
LEMMA KeepsSame ==
  ASSUME NEW F, NEW d, UNCHANGED <<world, todo, bytes, outcome>>,
         step # "done", step' # "done"
  PROVE  Rest(F, d)' = Rest(F, d)
  BY DEF Rest, RestOf

(* resolve_request follows the search order.                               *)
LEMMA RequestKeeps ==
  ASSUME SearchInv, ResolveRequest, NEW F \in [Path -> File], NEW d \in Nat
  PROVE  Keeps(F, d)
<1> DEFINE r == Head(todo).at
<1>1. /\ SearchTypeOK /\ todo \in Seq(ItemType) /\ todo # <<>> /\ world \in WorldType
      /\ step = "next" /\ Head(todo).kind = "request" /\ bytes \in File
  BY DEF SearchInv, SearchTypeOK, ResolveRequest, At
<1>2. Head(todo) \in ItemType
  BY <1>1, SeqFacts
<1>3. /\ Head(todo) = Item("request", r) /\ r \in Request /\ r[2] \in Name
      /\ r[1] # NoDir => r \in Path
  BY <1>1, <1>2, ItemMeans, ItemTypes, PathsAreRequests
<1>4. /\ GoneItem(world, F, Head(todo)) <=> Gone(world, F, r)
      /\ \A b, ans : OfItem(world, F, Head(todo), b, ans) = OfRequest(world, F, r, b, ans)
  BY <1>3, ItemMeans
<1>5. \A b, ans : OfRequest(world, F, r, b, ans) =
        IF r[2] \in world.names THEN Existing(0)
        ELSE IF r[1] # NoDir THEN OfPath(world, F, r, b, ans)
        ELSE IF PlaceHits(world, F, r[2]) = {} THEN Error("missing")
        ELSE OfPath(world, F, FirstPlace(world, F, r[2]).path, b, ans)
  BY DEF OfRequest, PlaceHits, FirstPlace
<1>6. CASE r[2] \in world.names /\ Done(Existing(0))
  <2>1. ~GoneItem(world, F, Head(todo))
    BY <1>4, <1>6 DEF Gone
  <2>2. \A ans : OfItem(world, F, Head(todo), bytes, ans) = Existing(0)
    BY <1>4, <1>5, <1>6
  <2> QED BY <1>1, <1>6, <2>1, <2>2, KeepsDone
<1>7. CASE /\ r[2] \notin world.names /\ r[1] # NoDir
           /\ Try(<<Item("path", r)>> \o Tail(todo)) /\ UNCHANGED bytes
  <2>1. GoneItem(world, F, Head(todo)) <=> F[r].kind = "absent"
    BY <1>4, <1>7 DEF Gone
  <2>2. \A b, ans : OfItem(world, F, Head(todo), b, ans) = OfPath(world, F, r, b, ans)
    BY <1>4, <1>5, <1>7
  <2>3. Rest(F, d)' = Rest(F, d)
    BY <1>1, <1>3, <1>7, <2>1, <2>2, KeepsReplace
  <2> QED BY <2>3 DEF Keeps
<1>8. CASE /\ r[2] \notin world.names /\ r[1] = NoDir
           /\ Try(Candidates(r[2])) /\ UNCHANGED bytes
  <2> DEFINE c == Candidates(r[2])
             ans == Answers(world, F)[d - 1]
  <2>1. ~GoneItem(world, F, Head(todo))
    BY <1>4, <1>8 DEF Gone
  <2>2. Rest(F, d) = Within(world, F, d, Head(todo), bytes)
    BY <1>1, <2>1, FirstHere DEF Rest, RestOf
  <2>3. Rest(F, d)' = First(world, F, d, c, bytes)
    BY <1>8 DEF Rest, RestOf, Try
  <2>4. CASE d = 0
    BY <2>2, <2>4 DEF Keeps, Within, Loop
  <2>5. CASE d # 0
    <3>1. Rest(F, d) = OfRequest(world, F, r, bytes, ans)
      BY <1>4, <2>2, <2>5 DEF Within
    <3>2. c \in Seq(ItemType)
      BY <1>1, <1>3, CandidatesType
    <3>3. CASE /\ PlaceHits(world, F, r[2]) = {}
               /\ \A m \in 1 .. Len(c) : GoneItem(world, F, c[m])
      <4>1. First(world, F, d, c, bytes) = Error("missing")
        BY <3>3, FirstNone
      <4> QED BY <1>5, <1>8, <2>3, <3>1, <3>3, <4>1 DEF Keeps
    <3>4. CASE /\ PlaceHits(world, F, r[2]) # {}
               /\ \E m \in 1 .. Len(c) :
                    /\ ~GoneItem(world, F, c[m])
                    /\ \A n \in 1 .. m - 1 : GoneItem(world, F, c[n])
                    /\ \A b, a : OfItem(world, F, c[m], b, a) =
                                   OfPath(world, F, FirstPlace(world, F, r[2]).path, b, a)
      <4> PICK m \in 1 .. Len(c) :
                    /\ ~GoneItem(world, F, c[m])
                    /\ \A n \in 1 .. m - 1 : GoneItem(world, F, c[n])
                    /\ \A b, a : OfItem(world, F, c[m], b, a) =
                                   OfPath(world, F, FirstPlace(world, F, r[2]).path, b, a)
        BY <3>4
      <4> HIDE DEF c
      <4>1. First(world, F, d, c, bytes) = Within(world, F, d, c[m], bytes)
        BY <3>2, FirstAt
      <4>2. Within(world, F, d, c[m], bytes) = OfItem(world, F, c[m], bytes, ans)
        BY <2>5 DEF Within
      <4>3. Rest(F, d)' = OfPath(world, F, FirstPlace(world, F, r[2]).path, bytes, ans)
        BY <2>3, <4>1, <4>2
      <4> QED BY <1>5, <1>8, <3>1, <3>4, <4>3 DEF Keeps
    <3> QED BY <1>1, <1>3, <3>3, <3>4, CandidatesAsPlaces
  <2> QED BY <2>4, <2>5
<1>9. QED
  BY <1>6, <1>7, <1>8 DEF ResolveRequest

(* A script is followed.                                                   *)
Enters == step \in {"open", "read"} /\ step' = "next"

(* What a candidate path means once it has passed the first stat.          *)
LEMMA OpenedMeans ==
  ASSUME SearchInv, ~torn, step \in Opened, NEW F, Agrees(F), NEW ans
  PROVE  LET p == Head(todo).at
             f == IF bytes = Absent THEN F[p] ELSE bytes
         IN  /\ todo # <<>> /\ Head(todo) = Item("path", p) /\ p \in Path /\ F[p] = fs[p]
             /\ Found(p) /\ ~GoneItem(world, F, Head(todo))
             /\ OfItem(world, F, Head(todo), bytes, ans) =
                  CASE f.kind = "elf" -> Load(f.ino, F[p].ino)
                    [] f.kind = "script" -> OfScript(world, F, Parse(f.text), ans)
                    [] OTHER -> Error("failed")
<1> DEFINE p == Head(todo).at
<1>1. /\ SearchTypeOK /\ todo \in Seq(ItemType) /\ todo # <<>> /\ Head(todo).kind = "path"
  BY DEF SearchInv, SearchTypeOK
<1>2. Head(todo) = Item("path", p) /\ p \in Path
  BY <1>1, AtPath, ItemMeans
<1>3. F[p] = fs[p]
  BY <1>1 DEF Agrees
<1>4. Found(p) /\ fs[p].ino \notin world.inodes
  BY DEF SearchInv, CandidateInv, OpenInv
<1>5. ~GoneItem(world, F, Head(todo))
  BY <1>2, <1>3, <1>4, ItemMeans DEF Found
<1>6. OfItem(world, F, Head(todo), bytes, ans) = OfPath(world, F, p, bytes, ans)
  BY <1>2, ItemMeans
<1>7. QED
  BY <1>1, <1>2, <1>3, <1>4, <1>5, <1>6 DEF OfPath, Found

(* The steps at a candidate path follow the search order.                  *)
LEMMA PathKeeps ==
  ASSUME SearchInv, ~torn, NEW F \in [Path -> File], Agrees(F), NEW d \in Nat, ~Enters,
         ResolveExistingByPath \/ LoadCandidate \/ ReadScript \/ MapFile \/ Reserve
  PROVE  Keeps(F, d)
<1> DEFINE p == Head(todo).at
           ans == Answers(world, F)[d - 1]
<1>1. /\ SearchTypeOK /\ todo \in Seq(ItemType) /\ todo # <<>> /\ Head(todo).kind = "path"
      /\ step # "done"
  BY DEF ResolveExistingByPath, LoadCandidate, ReadScript, MapFile, Reserve, At,
         SearchInv, SearchTypeOK
<1>2. Head(todo) = Item("path", p) /\ p \in Path /\ F[p] = fs[p]
  BY <1>1, AtPath, ItemMeans DEF Agrees
<1>3. /\ GoneItem(world, F, Head(todo)) <=> F[p].kind = "absent"
      /\ OfItem(world, F, Head(todo), bytes, ans) = OfPath(world, F, p, bytes, ans)
  BY <1>2, ItemMeans
<1> HIDE DEF ans
<1>4. \A label \in Opened : Goto(label) => Keeps(F, d)
  BY <1>1, KeepsSame DEF Goto, Opened, Keeps
<1>5. "open" \in Opened /\ "read" \in Opened /\ "map" \in Opened /\ "reserve" \in Opened
  BY DEF Opened
<1>6. CASE ResolveExistingByPath
  <2>1. CASE fs[p].kind = "absent" /\ Skip
    BY <1>1, <1>2, <1>3, <2>1, KeepsSkip DEF Keeps
  <2>2. CASE fs[p].kind = "barred" /\ Done(Error("failed"))
    <3>1. OfPath(world, F, p, bytes, ans) = Error("failed") /\ ~GoneItem(world, F, Head(todo))
      BY <1>2, <1>3, <2>2 DEF OfPath
    <3> QED BY <1>1, <1>3, <2>2, <3>1, KeepsDone DEF ans
  <2>3. CASE Found(p) /\ fs[p].ino \in world.inodes /\ Done(Existing(fs[p].ino))
    <3>1. /\ OfPath(world, F, p, bytes, ans) = Existing(fs[p].ino)
          /\ ~GoneItem(world, F, Head(todo))
      BY <1>2, <1>3, <2>3 DEF OfPath, Found
    <3> QED BY <1>1, <1>3, <2>3, <3>1, KeepsDone DEF ans
  <2> QED BY <1>4, <1>5, <1>6, <2>1, <2>2, <2>3 DEF ResolveExistingByPath
<1>7. CASE LoadCandidate
  <2>1. step = "open" /\ step \in Opened
    BY <1>7 DEF LoadCandidate, At, Opened
  <2>2. /\ Found(p) /\ ~GoneItem(world, F, Head(todo))
        /\ bytes = Absent =>
             OfItem(world, F, Head(todo), bytes, ans) =
               CASE F[p].kind = "elf" -> Load(F[p].ino, F[p].ino)
                 [] F[p].kind = "script" -> OfScript(world, F, Parse(F[p].text), ans)
                 [] OTHER -> Error("failed")
    BY <2>1, OpenedMeans
  <2>3. ~Skip /\ \A text : ~Enter(text)
    BY <2>1 DEF Skip, Enter, Try, Enters
  <2>4. CASE bytes = Absent /\ Failing(p) /\ Done(Error("failed"))
    <3>1. F[p].kind = "sealed"
      BY <1>2, <2>2, <2>4 DEF Failing, Found
    <3>2. OfItem(world, F, Head(todo), bytes, ans) = Error("failed")
      BY <2>2, <2>4, <3>1
    <3> QED BY <1>1, <2>2, <2>4, <3>2, KeepsDone DEF ans
  <2> QED BY <1>4, <1>5, <1>7, <2>3, <2>4 DEF LoadCandidate
<1>8. CASE ReadScript
  <2>1. step = "read" /\ step \in Opened
    BY <1>8 DEF ReadScript, At, Opened
  <2>2. fs[p].kind = "script"
    BY <2>1 DEF SearchInv, CandidateInv, OpenInv
  <2>3. \A text : ~Enter(text)
    BY <2>1 DEF Enter, Try, Enters
  <2> QED BY <1>8, <2>2, <2>3 DEF ReadScript, Failing
<1>9. CASE MapFile
  <2>1. step = "map" /\ step \in Opened
    BY <1>9 DEF MapFile, At, Opened
  <2>2. fs[p].kind = "elf"
    BY <2>1 DEF SearchInv, CandidateInv, OpenInv
  <2> QED BY <1>4, <1>5, <1>9, <2>2 DEF MapFile, Readable
<1>10. CASE Reserve
  <2>1. step = "reserve" /\ step \in Opened
    BY <1>10 DEF Reserve, At, Opened
  <2>2. /\ loaded = (IF bytes = Absent THEN F[p] ELSE bytes) /\ loaded.kind = "elf"
    BY <1>2, <2>1 DEF SearchInv, CandidateInv, OpenInv
  <2>3. /\ Found(p) /\ ~GoneItem(world, F, Head(todo))
        /\ OfItem(world, F, Head(todo), bytes, ans) =
             CASE loaded.kind = "elf" -> Load(loaded.ino, F[p].ino)
               [] loaded.kind = "script" -> OfScript(world, F, Parse(loaded.text), ans)
               [] OTHER -> Error("failed")
    BY <2>1, <2>2, OpenedMeans
  <2>4. OfItem(world, F, Head(todo), bytes, ans) = Load(loaded.ino, fs[p].ino)
    BY <1>2, <2>2, <2>3
  <2>5. Done(Load(loaded.ino, fs[p].ino))
    BY <1>10, <2>3 DEF Reserve
  <2> QED BY <1>1, <2>3, <2>4, <2>5, KeepsDone DEF ans
<1>11. QED
  BY <1>6, <1>7, <1>8, <1>9, <1>10

(* The lookup in the cache and an empty list follow the search order.      *)
LEMMA LookupKeeps ==
  ASSUME SearchInv, NEW F \in [Path -> File], NEW d \in Nat,
         BeginLookup \/ Lookup \/ EndLookup \/ Exhausted
  PROVE  Keeps(F, d)
<1>1. SearchTypeOK /\ todo \in Seq(ItemType) /\ world \in WorldType
  BY DEF SearchInv, SearchTypeOK
<1>2. CASE BeginLookup
  BY <1>2, KeepsSame DEF BeginLookup, Goto, At, Keeps
<1>3. CASE Lookup
  BY <1>3, KeepsSame DEF Lookup, searchVars, Keeps
<1>4. CASE EndLookup
  <2> DEFINE p == <<world.cached, lib_name>>
  <2>1. /\ step = "cache" /\ todo # <<>> /\ Head(todo).kind = "cache"
        /\ lib_name = Head(todo).at[2] /\ lib_name \in Name /\ cache = world.LD_CACHE
    BY <1>1, <1>4 DEF EndLookup, SearchTypeOK
  <2>2. Head(todo) = Item("cache", Head(todo).at)
    BY <1>1, <2>1, SeqFacts, ItemMeans
  <2>3. /\ GoneItem(world, F, Head(todo)) <=>
             (~Listed(world, lib_name) \/ F[p].kind = "absent")
        /\ \A b, ans : OfItem(world, F, Head(todo), b, ans) = OfPath(world, F, p, b, ans)
    <3> DEFINE r == Head(todo).at
    <3>1. Head(todo) = Item("cache", r) /\ p = <<world.cached, r[2]>> /\ lib_name = r[2]
      BY <2>1, <2>2
    <3> HIDE DEF r, p
    <3>2. GoneItem(world, F, Head(todo)) <=> (~Listed(world, r[2]) \/ F[p].kind = "absent")
      BY <3>1, ItemMeans
    <3>3. \A b, ans : OfItem(world, F, Head(todo), b, ans) = OfPath(world, F, p, b, ans)
      BY <3>1, ItemMeans
    <3> QED BY <3>1, <3>2, <3>3
  <2>4. Listed(world, lib_name) <=> result # -1
    <3>1. /\ nlibs = Len(world.LD_CACHE) /\ nlibs \in Nat
          /\ \A n \in 0 .. nlibs - 1 : /\ n + 1 \in 1 .. nlibs
                                       /\ GetName(n) = world.LD_CACHE[n + 1].name
                                       /\ Usable(n) = world.LD_CACHE[n + 1].usable
                                       /\ Legible(n) = TRUE
      <4>1. nlibs \in Nat /\ \A n \in Index : Legible(n) = TRUE
        BY <2>1, Names DEF SearchInv
      <4> QED BY <2>1, <4>1 DEF nlibs, GetName, Usable, Index
    <3>2. \A n \in 1 .. nlibs : n - 1 \in 0 .. nlibs - 1 /\ (n - 1) + 1 = n
      BY <3>1
    <3>3. \/ /\ result \in 0 .. nlibs - 1 /\ GetName(result) = lib_name /\ Usable(result)
          \/ /\ result = -1
             /\ \A n \in 0 .. nlibs - 1 : ~(GetName(n) = lib_name /\ Usable(n))
      BY <1>4, <2>1, <3>1 DEF EndLookup, SearchInv, LookupInv, LookupCorrect, IsNamed
    <3>4. CASE /\ result \in 0 .. nlibs - 1 /\ GetName(result) = lib_name /\ Usable(result)
      <4>1. result # -1
        BY <3>1, <3>4
      <4>2. Listed(world, lib_name)
        BY <3>1, <3>4 DEF Listed
      <4> QED BY <4>1, <4>2
    <3>5. CASE /\ result = -1
               /\ \A n \in 0 .. nlibs - 1 : ~(GetName(n) = lib_name /\ Usable(n))
      <4>1. ASSUME NEW n \in 1 .. nlibs
            PROVE  ~(world.LD_CACHE[n].name = lib_name /\ world.LD_CACHE[n].usable)
        <5>1. n - 1 \in 0 .. nlibs - 1 /\ (n - 1) + 1 = n
          BY <3>2
        <5>2. GetName(n - 1) = world.LD_CACHE[n].name /\ Usable(n - 1) = world.LD_CACHE[n].usable
          BY <3>1, <5>1
        <5> QED BY <3>5, <5>1, <5>2
      <4>2. ~Listed(world, lib_name)
        BY <3>1, <4>1 DEF Listed
      <4> QED BY <3>5, <4>2
    <3> QED BY <3>3, <3>4, <3>5
  <2>5. CASE result = -1 /\ Skip
    BY <1>1, <2>1, <2>3, <2>4, <2>5, KeepsSkip DEF Keeps
  <2>6. CASE result # -1 /\ Try(<<Item("path", p)>> \o Tail(todo)) /\ UNCHANGED bytes
    <3>1. p \in Path
      BY <1>1, <2>1, WorldFacts DEF Path
    <3> HIDE DEF p
    <3>2. Rest(F, d)' = Rest(F, d)
      BY <1>1, <2>1, <2>3, <2>4, <2>6, <3>1, KeepsReplace
    <3> QED BY <3>2 DEF Keeps
  <2> QED BY <1>4, <2>5, <2>6 DEF EndLookup
<1>5. CASE Exhausted
  <2>1. step # "done" /\ todo = <<>> /\ step' = "done" /\ outcome' = Error("missing")
    BY <1>5 DEF Exhausted, Done
  <2>2. 1 .. Len(todo) = {}
    BY <2>1
  <2>3. First(world, F, d, todo, bytes) = Error("missing")
    BY <2>2, FirstNone
  <2> QED BY <2>1, <2>3 DEF Rest, RestOf, Keeps
<1>6. QED
  BY <1>2, <1>3, <1>4, <1>5

(* So every step does, except that following a script takes one of those   *)
(* that may still be followed.                                             *)
LEMMA ResolveKeeps ==
  ASSUME SearchInv, ~torn, NEW F \in [Path -> File], Agrees(F), NEW d \in Nat, ~Enters,
         Resolve
  PROVE  Keeps(F, d)
  BY RequestKeeps, PathKeeps, LookupKeeps DEF Resolve

LEMMA EnterKeeps ==
  ASSUME SearchInv, ~torn, NEW F \in [Path -> File], Agrees(F), NEW d \in Nat, Enters,
         Resolve
  PROVE  /\ Rest(F, d)' = Rest(F, d + 1)
         /\ Rest(F, 0) = Loop
         /\ UNCHANGED <<world, fs, torn, outcome, changes>> /\ bytes' = Absent
<1> DEFINE p == Head(todo).at
           f == IF bytes = Absent THEN F[p] ELSE bytes
           ans == Answers(world, F)[(d + 1) - 1]
           list == [n \in 1 .. Len(Parse(f.text)) |-> Item("request", Parse(f.text)[n])]
<1>1. /\ SearchTypeOK /\ todo \in Seq(ItemType) /\ world \in WorldType
      /\ bytes \in File /\ step \in Opened /\ step # "done" /\ step' = "next"
      /\ step \in {"open", "read"}
  BY DEF SearchInv, SearchTypeOK, Enters, Opened
<1>2. /\ todo # <<>> /\ p \in Path /\ F[p] = fs[p]
      /\ Found(p) /\ ~GoneItem(world, F, Head(todo))
      /\ OfItem(world, F, Head(todo), bytes, ans) =
           CASE f.kind = "elf" -> Load(f.ino, F[p].ino)
             [] f.kind = "script" -> OfScript(world, F, Parse(f.text), ans)
             [] OTHER -> Error("failed")
  BY <1>1, OpenedMeans
<1>3. f \in File /\ f.text \in Seq(Token)
  BY <1>1, <1>2, FileFacts
<1>4. f.kind = "script" /\ Enter(f.text)
  <2>1. LoadCandidate \/ ReadScript
    BY <1>1 DEF Resolve, ResolveRequest, ResolveExistingByPath, MapFile, Reserve,
                BeginLookup, Lookup, EndLookup, Exhausted, At
  <2>2. CASE LoadCandidate
    <3>1. ~Skip
      <4>1. CASE Skip
        <5>1. fs[p].kind = "absent"
          BY <1>1, <2>2, <4>1 DEF LoadCandidate, Skip, Try, Goto, Enter, Done, Absent
        <5> QED BY <1>2, <5>1 DEF Found
      <4> QED BY <4>1
    <3>2. \A label : label # "next" => ~Goto(label)
      BY <1>1 DEF Goto
    <3>3. \A o : ~Done(o)
      BY <1>1 DEF Done
    <3>4. bytes.kind = "script" /\ Enter(bytes.text)
      BY <2>2, <3>1, <3>2, <3>3 DEF LoadCandidate
    <3>5. f = bytes
      BY <3>4 DEF Absent
    <3> QED BY <3>4, <3>5
  <2>3. CASE ReadScript
    <3>1. step = "read"
      BY <2>3 DEF ReadScript, At
    <3>2. fs[p].kind = "script" /\ bytes = Absent
      BY <1>1, <3>1 DEF SearchInv, CandidateInv, OpenInv, BytesInv
    <3>3. Enter(fs[p].text)
      BY <2>3, <3>2 DEF ReadScript, Failing
    <3> QED BY <1>2, <3>2, <3>3
  <2> QED BY <2>1, <2>2, <2>3
<1> HIDE DEF f
<1>5. /\ todo' = list /\ bytes' = Absent
      /\ UNCHANGED <<world, fs, torn, outcome, changes>>
  BY <1>4 DEF Enter, Try
<1>6. Parse(f.text) \in Seq(Request)
  BY <1>3, ParseType
<1>7. First(world, F, d, list, Absent) = OfScript(world, F, Parse(f.text), Answers(world, F)[d])
  BY <1>1, <1>6, ScriptFirst
<1>8. Rest(F, d)' = First(world, F, d, list, Absent)
  <2> HIDE DEF list
  <2> QED BY <1>1, <1>5 DEF Rest, RestOf
<1>9. \A e : Rest(F, e) = Within(world, F, e, Head(todo), bytes)
  BY <1>1, <1>2, FirstHere DEF Rest, RestOf
<1>10. Rest(F, 0) = Loop
  BY <1>9 DEF Within, Loop
<1>11. Rest(F, d + 1) = OfScript(world, F, Parse(f.text), Answers(world, F)[d])
  <2>1. d + 1 # 0 /\ (d + 1) - 1 = d
    OBVIOUS
  <2>2. Within(world, F, d + 1, Head(todo), bytes) = OfItem(world, F, Head(todo), bytes, ans)
    BY <2>1 DEF Within
  <2> QED BY <1>2, <1>4, <1>9, <2>1, <2>2
<1>12. QED
  BY <1>5, <1>7, <1>8, <1>10, <1>11

-----------------------------------------------------------------------------
(* A search while the file system changes once.                            *)

(* Nothing that the search has seen differs from F: its answer is F's.     *)
Leads(F) == \A e \in Nat : Rest(F, e) # Loop => Rest(F, e) = Answer(world, F)

(* The search follows F, and may still follow d scripts.                   *)
Follows(F, d) == Rest(F, d) = Answer(world, F)

(* What is found at p is what F answers.                                   *)
Later(F, p) ==
  \A e \in Nat : LET v == Within(world, F, e, Item("path", p), bytes)
                 IN  v # Loop => v = Answer(world, F)

(* With d scripts left, p is not visited: its script has been entered.     *)
Spent(F, p, d) == /\ F[p].kind # "absent"
                  /\ Within(world, F, d, Item("path", p), bytes) = Loop

Opening(p) == step \in Opened /\ Head(todo).at = p

(* If p changes to g now: the search has not seen p; or it found nothing   *)
(* there, and will find g if it comes back; or it will not come back.      *)
Ready(F, p, g, d) ==
  \/ Leads([F EXCEPT ![p] = g])
  \/ F[p].kind = "absent" /\ Later([F EXCEPT ![p] = g], p)
  \/ Spent(F, p, d)

Untouched(F) ==
  /\ fs = F /\ ~torn
  /\ Answer(world, F) # Loop =>
       \E d \in Nat :
         /\ Follows(F, d)
         /\ world.bytes.kind # "script" /\ step # "done" =>
              \A p \in Path : \A g \in File :
                g # F[p] /\ ~Opening(p) => Ready(F, p, g, d)

(* After p has changed in F, which made it G: the search follows G; or it  *)
(* follows F, and will not come to p, or found nothing there and will find *)
(* what G answers if it comes back.                                        *)
Tracks(F, p, G) ==
  \/ Leads(G)
  \/ \E d \in Nat :
       /\ Follows(F, d) /\ ~Opening(p)
       /\ \/ step = "done"
          \/ F[p].kind = "absent" /\ Later(G, p)
          \/ Spent(F, p, d)

Touched(F, p, G) ==
  /\ fs = G /\ G[p] # F[p]
  /\ ~torn /\ world.bytes.kind # "script" /\ Answer(world, F) # Loop => Tracks(F, p, G)

OneChange ==
  /\ changes = 0 => Untouched(world.files)
  /\ changes = 1 => \E p \in Path : \E g \in File :
                      Touched(world.files, p, [world.files EXCEPT ![p] = g])

LEMMA WorldStays ==
  ASSUME [SearchNext]_<<searchVars, lookupVars>>
  PROVE  world' = world
  BY DEF SearchNext, Change, Resolve, ResolveRequest, ResolveExistingByPath,
         LoadCandidate, ReadScript, MapFile, Reserve, BeginLookup, Lookup, EndLookup,
         Exhausted, At, Done, Try, Goto, Skip, Enter, searchVars

LEMMA NextSearchInv ==
  SearchInv /\ [SearchNext]_<<searchVars, lookupVars>> => SearchInv'
<1> SUFFICES ASSUME SearchInv, [SearchNext]_<<searchVars, lookupVars>>
             PROVE  SearchInv'
  OBVIOUS
<1>1. world' = world
  BY WorldStays
<1>2. QED
  BY <1>1, NextType, SearchLookupInv, NextCandidate DEF SearchInv

LEMMA ResolveFrame ==
  Resolve => UNCHANGED <<world, fs, changes, torn>> /\ step # "done"
  BY DEF Resolve, ResolveRequest, ResolveExistingByPath, LoadCandidate, ReadScript,
         MapFile, Reserve, BeginLookup, Lookup, EndLookup, Exhausted, At, Done, Try,
         Goto, Skip, Enter, searchVars

(* A search in a file system that it agrees with keeps to its answer.      *)
LEMMA LeadsStep ==
  ASSUME SearchInv, SearchInv', ~torn, NEW F \in [Path -> File], Agrees(F), Resolve, Leads(F)
  PROVE  Leads(F)'
<1>1. world' = world
  BY ResolveFrame
<1> SUFFICES ASSUME NEW e \in Nat, Rest(F, e)' # Loop
             PROVE  Rest(F, e)' = Answer(world, F)
  BY <1>1 DEF Leads, Loop, Error
<1>2. e + 1 \in Nat /\ e <= e + 1 /\ e + 1 # 0
  OBVIOUS
<1>3. Rest(F, e)' = Rest(F, e + 1)
  <2>1. CASE Enters
    BY <2>1, EnterKeeps
  <2>2. CASE ~Enters
    <3>1. Rest(F, e + 1)' = Rest(F, e + 1)
      BY <1>2, <2>2, ResolveKeeps DEF Keeps
    <3>2. Rest(F, e + 1)' = Rest(F, e)'
      <4>1. CASE step' = "done"
        BY <4>1 DEF Rest, RestOf
      <4>2. CASE step' # "done"
        <5>1. \A n : Rest(F, n)' = First(world, F, n, todo', bytes')
          BY <1>1, <4>2 DEF Rest, RestOf
        <5>2. todo' \in Seq(ItemType) /\ bytes' \in File /\ world \in WorldType
          BY DEF SearchInv, SearchTypeOK
        <5>3. First(world, F, e + 1, todo', bytes') = First(world, F, e, todo', bytes')
          BY <1>2, <5>1, <5>2, FirstGrows
        <5> QED BY <5>1, <5>3
      <4> QED BY <4>1, <4>2
    <3> QED BY <3>1, <3>2
  <2> QED BY <2>1, <2>2
<1>4. QED
  BY <1>2, <1>3 DEF Leads

(* When a script is entered, no more scripts need be left than those       *)
(* without which there would be no answer.                                 *)
LEMMA FollowsStep ==
  ASSUME SearchInv, ~torn, NEW F \in [Path -> File], Agrees(F), Resolve,
         NEW d \in Nat, Follows(F, d), Answer(world, F) # Loop
  PROVE  \E e \in Nat : e <= d /\ Follows(F, e)' /\ (Enters => Rest(F, e) = Loop)
<1>1. world' = world /\ Rest(F, d) # Loop
  BY ResolveFrame DEF Follows
<1>2. CASE ~Enters
  <2>1. Rest(F, d)' = Rest(F, d)
    BY <1>1, <1>2, ResolveKeeps DEF Keeps
  <2>2. Follows(F, d)' /\ d <= d
    BY <1>1, <2>1 DEF Follows
  <2> QED BY <1>2, <2>2
<1>3. CASE Enters
  <2> DEFINE T == {k \in Nat : Rest(F, k) # Loop}
  <2>1. T \in SUBSET Nat /\ d \in T
    BY <1>1
  <2> PICK k \in T : \A n \in T : k <= n
    BY <2>1, LeastNat
  <2>2. k \in Nat /\ Rest(F, k) # Loop /\ k <= d
    BY <2>1
  <2>3. k # 0
    BY <1>3, <2>2, EnterKeeps
  <2>4. k - 1 \in Nat /\ (k - 1) + 1 = k /\ k - 1 <= d /\ ~(k <= k - 1)
    BY <2>2, <2>3
  <2>5. Rest(F, k - 1) = Loop
    BY <2>4
  <2>6. Rest(F, k - 1)' = Rest(F, k)
    BY <1>3, <2>4, EnterKeeps
  <2>7. Rest(F, d) = Rest(F, k)
    BY <2>2, RestGrows DEF SearchInv
  <2>8. Follows(F, k - 1)'
    BY <1>1, <2>6, <2>7 DEF Follows
  <2> HIDE DEF T
  <2> QED BY <2>4, <2>5, <2>8
<1>4. QED
  BY <1>2, <1>3

(* The head of the list, if it is the path p.                              *)
LEMMA RestAtPath ==
  ASSUME SearchInv, NEW p, NEW F, todo # <<>>, Head(todo).kind = "path",
         Head(todo).at = p, F[p].kind # "absent", step # "done"
  PROVE  /\ p \in Path
         /\ \A e : Rest(F, e) = Within(world, F, e, Item("path", p), bytes)
<1>1. SearchTypeOK /\ todo \in Seq(ItemType)
  BY DEF SearchInv, SearchTypeOK
<1>2. p \in Path /\ Head(todo) = Item("path", p)
  BY <1>1, AtPath, ItemMeans
<1>3. ~GoneItem(world, F, Head(todo))
  BY <1>2, ItemMeans
<1>4. QED
  BY <1>1, <1>2, <1>3, FirstHere DEF Rest, RestOf

(* Without a script in their place, the given bytes stay.                  *)
LEMMA BytesStay ==
  ASSUME SearchInv, SearchInv', Resolve, world.bytes.kind # "script"
  PROVE  bytes' = bytes
  BY ResolveFrame DEF SearchInv, CandidateInv, BytesInv

(* What is spent stays spent.                                              *)
LEMMA SpentStays ==
  ASSUME SearchInv, NEW F \in [Path -> File], NEW p \in Path, NEW d \in Nat, NEW e \in Nat,
         e <= d, Spent(F, p, d)
  PROVE  Spent(F, p, e)
<1>1. world \in WorldType /\ bytes \in File /\ Item("path", p) \in ItemType
  BY ItemTypes DEF SearchInv, SearchTypeOK
<1>2. QED
  BY <1>1, WithinGrows DEF Spent

(* At the start the answer is that of any file system.                     *)
LEMMA InitLeads ==
  ASSUME SearchInit, NEW F \in [Path -> File]
  PROVE  Leads(F) /\ Follows(F, Cardinality(Request) + 1)
<1> DEFINE r == world.request
           N == Cardinality(Request)
           A == Answers(world, F)
<1>1. /\ world \in WorldType /\ todo = <<Item("request", r)>> /\ step = "next"
      /\ bytes = world.bytes
  BY SearchAssumption DEF SearchInit
<1>2. r \in Request /\ bytes \in File /\ N \in Nat /\ N + 1 \in Nat /\ N + 1 # 0
      /\ (N + 1) - 1 = N
  BY <1>1, WorldFacts, RequestsFinite
<1>3. todo \in Seq(ItemType) /\ todo # <<>> /\ Head(todo) = Item("request", r)
      /\ Len(todo) = 1 /\ todo[1] = Item("request", r)
  <2>1. Item("request", r) \in ItemType
    BY <1>2, ItemTypes
  <2> QED BY <1>1, <2>1
<1>4. Answer(world, F) = OfRequest(world, F, r, bytes, A[N])
  BY <1>1 DEF Answer
<1> HIDE DEF A, N, r
<1>5. CASE Gone(world, F, r)
  <2>1. \A e : First(world, F, e, todo, bytes) = Error("missing")
    <3>1. \A n \in 1 .. Len(todo) : GoneItem(world, F, todo[n])
      BY <1>3, <1>5, ItemMeans
    <3> QED BY <3>1, FirstNone
  <2>2. OfRequest(world, F, r, bytes, A[N]) = Error("missing")
    BY <1>5 DEF Gone, OfRequest, OfPath
  <2>3. \A e : Rest(F, e) = Answer(world, F)
    BY <1>1, <1>4, <2>1, <2>2 DEF Rest, RestOf
  <2> QED BY <2>3 DEF Leads, Follows, N
<1>6. CASE ~Gone(world, F, r)
  <2>1. \A e : Rest(F, e) = Within(world, F, e, Item("request", r), bytes)
    <3>1. ~GoneItem(world, F, Head(todo)) /\ step # "done"
      BY <1>1, <1>3, <1>6, ItemMeans
    <3> QED BY <1>3, <3>1, FirstHere DEF Rest, RestOf
  <2>2. \A e \in Nat : e # 0 => Rest(F, e) = OfRequest(world, F, r, bytes, A[e - 1])
    BY <2>1, ItemMeans DEF Within, A
  <2>3. Rest(F, 0) = Loop
    BY <2>1 DEF Within, Loop
  <2>4. ASSUME NEW e \in Nat, Rest(F, e) # Loop
        PROVE  Rest(F, e) = Answer(world, F)
    <3>1. e # 0 /\ e - 1 \in Nat
      BY <2>3, <2>4
    <3>2. Extends(A[e - 1], A[N])
      BY <1>1, <3>1, AnswersSettle DEF A, N
    <3>3. Rest(F, e) = OfRequest(world, F, r, bytes, A[e - 1])
      BY <2>2, <3>1
    <3> QED BY <1>1, <1>2, <1>4, <2>4, <3>2, <3>3, OfRequestExtends
  <2>5. Rest(F, N + 1) = Answer(world, F)
    BY <1>2, <1>4, <2>2
  <2> QED BY <2>4, <2>5 DEF Leads, Follows, N
<1>7. QED
  BY <1>5, <1>6

LEMMA InitOneChange == SearchInit => OneChange
<1> SUFFICES ASSUME SearchInit PROVE OneChange
  OBVIOUS
<1> DEFINE F == world.files
<1>1. changes = 0 /\ fs = F /\ torn = FALSE /\ world \in WorldType /\ F \in [Path -> File]
  BY SearchAssumption, WorldFacts DEF SearchInit
<1>2. Cardinality(Request) + 1 \in Nat
  BY RequestsFinite
<1>3. Follows(F, Cardinality(Request) + 1)
  BY <1>1, InitLeads
<1>4. \A p \in Path : \A g \in File : Leads([F EXCEPT ![p] = g])
  <2> SUFFICES ASSUME NEW p \in Path, NEW g \in File
               PROVE  Leads([F EXCEPT ![p] = g])
    OBVIOUS
  <2>1. [F EXCEPT ![p] = g] \in [Path -> File]
    BY <1>1
  <2> QED BY <2>1, InitLeads
<1>5. \A p \in Path : \A g \in File : Ready(F, p, g, Cardinality(Request) + 1)
  BY <1>4 DEF Ready
<1> HIDE DEF F
<1>6. Untouched(F)
  BY <1>1, <1>2, <1>3, <1>5 DEF Untouched
<1>7. QED
  BY <1>1, <1>6 DEF OneChange, F

(* A candidate under way: the next call at it, or the entry of its script. *)
LEMMA OpeningStep ==
  ASSUME Resolve, SearchTypeOK
  PROVE  /\ step \in Opened /\ step' # "done" =>
              Enters \/ (step' \in Opened /\ todo' = todo)
         /\ step' \in Opened =>
              /\ todo' = todo /\ todo # <<>> /\ Head(todo).kind = "path"
              /\ \/ step \in Opened
                 \/ step = "next" /\ fs[Head(todo).at].kind # "absent"
<1>1. \A list : Try(list) => step' = "next"
  BY DEF Try
<1>2. \A text : Enter(text) => step' = "next"
  BY <1>1 DEF Enter
<1>3. Skip => step' = "next"
  BY <1>1 DEF Skip
<1>4. \A o : Done(o) => step' = "done"
  BY DEF Done
<1>5. \A label : Goto(label) => step' = label /\ todo' = todo
  BY DEF Goto
<1>6. "next" \notin Opened /\ "done" \notin Opened /\ "cache" \notin Opened
      /\ "open" \in Opened /\ "read" \in Opened /\ "map" \in Opened /\ "reserve" \in Opened
  BY DEF Opened
<1>7. CASE ResolveRequest
  <2>1. step = "next" /\ step' \in {"next", "done"}
    BY <1>1, <1>4, <1>7 DEF ResolveRequest, At
  <2> QED BY <1>6, <2>1
<1>8. CASE ResolveExistingByPath
  <2>1. step = "next" /\ todo # <<>> /\ Head(todo).kind = "path"
    BY <1>8 DEF ResolveExistingByPath, At
  <2>2. \/ step' \in {"next", "done"}
        \/ /\ fs[Head(todo).at].kind # "absent"
           /\ step' = "open" /\ todo' = todo
    BY <1>3, <1>4, <1>5, <1>8 DEF ResolveExistingByPath, Found
  <2> QED BY <1>6, <2>1, <2>2
<1>9. CASE LoadCandidate
  <2>1. step = "open" /\ todo # <<>> /\ Head(todo).kind = "path"
    BY <1>9 DEF LoadCandidate, At
  <2>2. \/ step' \in {"next", "done"}
        \/ step' \in {"reserve", "map", "read"} /\ todo' = todo
    BY <1>2, <1>3, <1>4, <1>5, <1>9 DEF LoadCandidate
  <2> QED BY <2>1, <2>2 DEF Enters, Opened
<1>10. CASE ReadScript
  <2>1. step = "read" /\ step' \in {"next", "done"}
    BY <1>2, <1>3, <1>4, <1>10 DEF ReadScript, At
  <2> QED BY <2>1 DEF Enters, Opened
<1>11. CASE MapFile
  BY <1>4, <1>5, <1>6, <1>11 DEF MapFile, At
<1>12. CASE Reserve
  BY <1>4, <1>6, <1>12 DEF Reserve, At
<1>13. CASE BeginLookup
  BY <1>5, <1>6, <1>13 DEF BeginLookup, At
<1>14. CASE Lookup
  BY <1>6, <1>14 DEF Lookup, searchVars
<1>15. CASE EndLookup
  BY <1>1, <1>3, <1>6, <1>15 DEF EndLookup
<1>16. CASE Exhausted
  BY <1>4, <1>6, <1>16 DEF Exhausted
<1>17. QED
  BY <1>7, <1>8, <1>9, <1>10, <1>11, <1>12, <1>13, <1>14, <1>15, <1>16 DEF Resolve

(* At a path that is there, the search's answer is what is found there.    *)
LEMMA LaterAtPath ==
  ASSUME SearchInv, NEW p, NEW F, todo # <<>>, Head(todo).kind = "path",
         Head(todo).at = p, F[p].kind # "absent", step # "done"
  PROVE  Later(F, p) <=> Leads(F)
  BY RestAtPath DEF Later, Leads

LEMMA Frozen ==
  ASSUME UNCHANGED <<world, bytes>>, NEW F, NEW p, NEW d
  PROVE  (Later(F, p)' <=> Later(F, p)) /\ (Spent(F, p, d)' <=> Spent(F, p, d))
  BY DEF Later, Spent

(* Whatever may change next, the search is ready for it.                   *)
LEMMA ReadyStep ==
  ASSUME SearchInv, SearchInv', ~torn, NEW F \in [Path -> File], fs = F, Resolve,
         world.bytes.kind # "script", step' # "done", NEW p \in Path, NEW g \in File,
         g # F[p], NEW d \in Nat, NEW e \in Nat, e <= d, Enters => Rest(F, e) = Loop,
         ~Opening(p)', ~Opening(p) => Ready(F, p, g, d)
  PROVE  Ready(F, p, g, e)'
<1> DEFINE G == [F EXCEPT ![p] = g]
<1>1. G \in [Path -> File] /\ G[p] = g /\ \A q \in Path : q # p => G[q] = F[q]
  OBVIOUS
<1> HIDE DEF G
<1>2. UNCHANGED <<world, bytes>> /\ step # "done" /\ SearchTypeOK
  BY ResolveFrame, BytesStay DEF SearchInv
<1>3. ASSUME Leads(G)' \/ (F[p].kind = "absent" /\ Later(G, p)) \/ Spent(F, p, e)
      PROVE  Ready(F, p, g, e)'
  BY <1>2, <1>3, Frozen DEF Ready, G
<1>4. CASE Opening(p)
  <2>1. step \in Opened /\ Head(todo).at = p /\ todo # <<>> /\ Head(todo).kind = "path"
    BY <1>2, <1>4 DEF Opening, SearchTypeOK
  <2>2. Enters
    BY <1>2, <1>4, OpeningStep DEF Opening
  <2>3. F[p].kind # "absent"
    BY <2>1 DEF SearchInv, CandidateInv, OpenInv, Found
  <2>4. Rest(F, e) = Within(world, F, e, Item("path", p), bytes)
    BY <1>2, <2>1, <2>3, RestAtPath
  <2>5. Spent(F, p, e)
    BY <2>2, <2>3, <2>4 DEF Spent
  <2> QED BY <1>3, <2>5
<1>5. CASE ~Opening(p) /\ Spent(F, p, d)
  BY <1>3, <1>5, SpentStays
<1>6. CASE F[p].kind = "absent" /\ Later(G, p)
  BY <1>3, <1>6
<1>7. CASE ~Opening(p) /\ Leads(G)
  <2>1. CASE Agrees(G)
    BY <1>1, <1>3, <1>7, <2>1, LeadsStep
  <2>2. CASE ~Agrees(G)
    <3>1. todo # <<>> /\ Head(todo).kind = "path" /\ Head(todo).at = p
      <4>1. todo # <<>> /\ Head(todo).kind = "path" /\ G[Head(todo).at] # F[Head(todo).at]
        BY <2>2 DEF Agrees
      <4>2. Head(todo).at \in Path
        BY <1>2, <4>1, AtPath
      <4> QED BY <1>1, <4>1, <4>2
    <3>2. step = "next"
      BY <1>2, <1>7, <3>1 DEF SearchTypeOK, Opening
    <3>3. ResolveExistingByPath
      BY <3>1, <3>2 DEF Resolve, ResolveRequest, LoadCandidate, ReadScript, MapFile,
                        Reserve, BeginLookup, Lookup, EndLookup, Exhausted, At
    <3>4. F[p].kind = "absent"
      <4>1. \A o : ~Done(o)
        BY DEF Done
      <4>2. ~Goto("open")
        BY <3>1 DEF Goto, Opening, Opened
      <4> QED BY <3>1, <3>3, <4>1, <4>2 DEF ResolveExistingByPath
    <3>5. G[p].kind # "absent"
      <4>1. F[p] \in File
        OBVIOUS
      <4> QED BY <1>1, <3>4, <4>1, FileFacts
    <3>6. Later(G, p)
      BY <1>2, <1>7, <3>1, <3>5, LaterAtPath
    <3> QED BY <1>3, <3>4, <3>6
  <2> QED BY <2>1, <2>2
<1>8. QED
  BY <1>4, <1>5, <1>6, <1>7 DEF Ready, G

(* After the change the search keeps to one of the two file systems.       *)
LEMMA TracksStep ==
  ASSUME SearchInv, SearchInv', ~torn, Resolve, NEW F \in [Path -> File],
         NEW G \in [Path -> File], NEW p \in Path, fs = G, G[p] # F[p],
         \A q \in Path : q # p => G[q] = F[q],
         world.bytes.kind # "script", Answer(world, F) # Loop, Tracks(F, p, G)
  PROVE  Tracks(F, p, G)'
<1>1. UNCHANGED <<world, bytes>> /\ step # "done" /\ SearchTypeOK /\ Agrees(G)
  BY ResolveFrame, BytesStay DEF SearchInv, Agrees
<1>2. Leads(G) => Tracks(F, p, G)'
  BY <1>1, LeadsStep DEF Tracks
<1>3. SUFFICES ASSUME NEW d \in Nat, Follows(F, d), ~Opening(p),
                      (F[p].kind = "absent" /\ Later(G, p)) \/ Spent(F, p, d)
               PROVE  Tracks(F, p, G)'
  BY <1>1, <1>2 DEF Tracks
<1>4. CASE Agrees(F)
  <2> PICK e \in Nat : e <= d /\ Follows(F, e)'
    BY <1>3, <1>4, FollowsStep
  <2>1. ~Opening(p)'
    <3> SUFFICES ASSUME Opening(p)' PROVE FALSE
      OBVIOUS
    <3>1. step' \in Opened /\ Head(todo').at = p
      BY DEF Opening
    <3>2. /\ todo' = todo /\ todo # <<>> /\ Head(todo).kind = "path"
      BY <1>1, <3>1, OpeningStep
    <3> QED BY <1>4, <3>1, <3>2 DEF Agrees
  <2>2. (F[p].kind = "absent" /\ Later(G, p)') \/ Spent(F, p, e)'
    BY <1>1, <1>3, SpentStays, Frozen
  <2> QED BY <2>1, <2>2 DEF Tracks
<1>5. CASE ~Agrees(F)
  <2>1. todo # <<>> /\ Head(todo).kind = "path" /\ Head(todo).at = p
    <3>1. todo # <<>> /\ Head(todo).kind = "path" /\ G[Head(todo).at] # F[Head(todo).at]
      BY <1>5 DEF Agrees
    <3>2. Head(todo).at \in Path
      BY <1>1, <3>1, AtPath
    <3> QED BY <3>1, <3>2
  <2>2. CASE F[p].kind = "absent" /\ Later(G, p)
    <3>1. F[p] \in File /\ G[p] \in File
      OBVIOUS
    <3>2. G[p].kind # "absent"
      BY <2>2, <3>1, FileFacts
    <3>3. Leads(G)
      BY <1>1, <2>1, <2>2, <3>2, LaterAtPath
    <3> QED BY <1>2, <3>3
  <2>3. CASE Spent(F, p, d)
    <3>1. F[p].kind # "absent" /\ Within(world, F, d, Item("path", p), bytes) = Loop
      BY <2>3 DEF Spent
    <3>2. Rest(F, d) = Loop
      BY <1>1, <2>1, <3>1, RestAtPath
    <3> QED BY <1>3, <3>2 DEF Follows
  <2> QED BY <1>3, <2>2, <2>3
<1>6. QED
  BY <1>4, <1>5

LEMMA UntouchedStep ==
  ASSUME SearchInv, SearchInv', NEW F \in [Path -> File], Untouched(F), Resolve
  PROVE  Untouched(F)'
<1>1. UNCHANGED <<world, fs, torn>> /\ fs = F /\ ~torn /\ Agrees(F)
  BY ResolveFrame DEF Untouched, Agrees
<1>2. SUFFICES ASSUME Answer(world, F) # Loop
               PROVE  \E e \in Nat :
                        /\ Follows(F, e)'
                        /\ world.bytes.kind # "script" /\ step' # "done" =>
                             \A p \in Path : \A g \in File :
                               g # F[p] /\ ~Opening(p)' => Ready(F, p, g, e)'
  BY <1>1 DEF Untouched, Loop, Error
<1>3. PICK d \in Nat :
         /\ Follows(F, d)
         /\ world.bytes.kind # "script" /\ step # "done" =>
              \A p \in Path : \A g \in File :
                g # F[p] /\ ~Opening(p) => Ready(F, p, g, d)
  BY <1>2 DEF Untouched
<1>4. PICK e \in Nat : e <= d /\ Follows(F, e)' /\ (Enters => Rest(F, e) = Loop)
  BY <1>1, <1>2, <1>3, FollowsStep
<1>5. ASSUME world.bytes.kind # "script", step' # "done", NEW p \in Path, NEW g \in File,
             g # F[p], ~Opening(p)'
      PROVE  Ready(F, p, g, e)'
  <2>1. ~Opening(p) => Ready(F, p, g, d)
    BY <1>3, <1>5, ResolveFrame
  <2> QED BY <1>1, <1>4, <1>5, <2>1, ReadyStep
<1>6. QED
  BY <1>4, <1>5

(* The change itself.                                                      *)
LEMMA ChangeTouches ==
  ASSUME SearchInv, NEW F \in [Path -> File], Untouched(F), NEW p \in Path, NEW g \in File,
         Change(p, g)
  PROVE  Touched(F, p, [F EXCEPT ![p] = g])'
<1> DEFINE G == [F EXCEPT ![p] = g]
<1>1. /\ fs = F /\ g # F[p] /\ fs' = G /\ step # "done"
      /\ UNCHANGED <<world, step, todo, bytes, outcome>>
      /\ torn' = (torn \/ Opening(p))
  BY DEF Untouched, Change, Opening, Opened
<1>2. G[p] = g
  OBVIOUS
<1> HIDE DEF G
<1>3. \A H, n : /\ Rest(H, n)' = Rest(H, n) /\ Follows(H, n)' = Follows(H, n)
                /\ Later(H, p)' = Later(H, p) /\ Spent(H, p, n)' = Spent(H, p, n)
                /\ Leads(H)' = Leads(H)
  BY <1>1 DEF Rest, Follows, Later, Spent, Leads
<1>4. Opening(p)' = Opening(p)
  BY <1>1 DEF Opening
<1>5. ASSUME ~torn', world.bytes.kind # "script", Answer(world, F) # Loop
      PROVE  Tracks(F, p, G)'
  <2>1. ~Opening(p)
    BY <1>1, <1>5
  <2> PICK d \in Nat : Follows(F, d) /\ Ready(F, p, g, d)
    BY <1>1, <1>5, <2>1 DEF Untouched
  <2>2. Leads(G) \/ (F[p].kind = "absent" /\ Later(G, p)) \/ Spent(F, p, d)
    BY DEF Ready, G
  <2> QED BY <1>3, <1>4, <2>1, <2>2 DEF Tracks
<1>6. Touched(F, p, G)'
  BY <1>1, <1>2, <1>5 DEF Touched, Loop, Error
<1>7. QED
  BY <1>6 DEF G

LEMMA NextOneChange ==
  ASSUME SearchInv, SearchInv', OneChange, [SearchNext]_<<searchVars, lookupVars>>
  PROVE  OneChange'
<1> DEFINE W == world.files
<1>1. world \in WorldType /\ W \in [Path -> File] /\ changes \in Nat
  BY WorldFacts DEF SearchInv, SearchTypeOK
<1>2. PICK F \in [Path -> File] : F = world.files
  BY <1>1
<1>3. CASE Resolve
  <2>1. UNCHANGED <<world, fs, changes, torn>>
    BY <1>3, ResolveFrame
  <2>2. changes = 0 => Untouched(F)'
    BY <1>2, <1>3, UntouchedStep DEF OneChange
  <2>3. ASSUME changes = 1
        PROVE  \E p \in Path : \E g \in File : Touched(F, p, [F EXCEPT ![p] = g])'
    <3>1. PICK p \in Path : \E g \in File : Touched(F, p, [F EXCEPT ![p] = g])
      BY <1>2, <2>3 DEF OneChange
    <3>2. PICK g \in File : Touched(F, p, [F EXCEPT ![p] = g])
      BY <3>1
    <3> DEFINE G == [F EXCEPT ![p] = g]
    <3>3. G \in [Path -> File] /\ \A q \in Path : q # p => G[q] = F[q]
      OBVIOUS
    <3> HIDE DEF G
    <3>4. Touched(F, p, G)
      BY <3>2 DEF G
    <3>5. fs = G /\ G[p] # F[p]
      BY <3>4 DEF Touched
    <3>6. ASSUME ~torn, world.bytes.kind # "script", Answer(world, F) # Loop
          PROVE  Tracks(F, p, G)'
      <4>1. Tracks(F, p, G)
        BY <3>4, <3>6 DEF Touched
      <4> QED BY <1>3, <3>3, <3>5, <3>6, <4>1, TracksStep
    <3>7. Touched(F, p, G)'
      BY <2>1, <3>5, <3>6 DEF Touched, Loop, Error
    <3> QED BY <3>7 DEF G
  <2> QED BY <1>2, <2>1, <2>2, <2>3 DEF OneChange
<1>4. CASE \E c \in world.changes : Change(c[1], c[2])
  <2>1. PICK c \in world.changes : Change(c[1], c[2])
    BY <1>4
  <2>2. c[1] \in Path /\ c[2] \in File
    BY <1>1, WorldFacts
  <2>3. changes' = changes + 1 /\ world' = world
    BY <2>1 DEF Change
  <2>4. CASE changes = 0
    <3>1. Touched(F, c[1], [F EXCEPT ![c[1]] = c[2]])'
      BY <1>2, <2>1, <2>2, <2>4, ChangeTouches DEF OneChange
    <3>2. changes' = 1
      BY <2>3, <2>4
    <3>3. \E p \in Path : \E g \in File : Touched(F, p, [F EXCEPT ![p] = g])'
      BY <2>2, <3>1
    <3> QED BY <1>2, <2>3, <3>2, <3>3 DEF OneChange
  <2>5. CASE changes # 0
    <3>1. changes' # 0 /\ changes' # 1
      BY <1>1, <2>3, <2>5
    <3> QED BY <3>1 DEF OneChange
  <2> QED BY <2>4, <2>5
<1>5. CASE UNCHANGED <<searchVars, lookupVars>>
  <2>1. UNCHANGED <<world, fs, changes, torn, step, todo, bytes, outcome>>
    BY <1>5 DEF searchVars
  <2>2. \A H, p, n : /\ Rest(H, n)' = Rest(H, n) /\ Follows(H, n)' = Follows(H, n)
                     /\ Later(H, p)' = Later(H, p) /\ Spent(H, p, n)' = Spent(H, p, n)
                     /\ Leads(H)' = Leads(H) /\ Opening(p)' = Opening(p)
    BY <2>1 DEF Rest, Follows, Later, Spent, Leads, Opening
  <2>3. \A H, p, g, n : Ready(H, p, g, n)' = Ready(H, p, g, n)
    BY <2>2 DEF Ready
  <2>4. \A H, p, K : Tracks(H, p, K)' = Tracks(H, p, K)
    BY <2>1, <2>2 DEF Tracks
  <2>5. Untouched(F) => Untouched(F)'
    BY <2>1, <2>2, <2>3 DEF Untouched, Loop, Error
  <2>6. \A p, K : Touched(F, p, K) => Touched(F, p, K)'
    BY <2>1, <2>4 DEF Touched, Loop, Error
  <2>7. \A p, g : Touched(F, p, [F EXCEPT ![p] = g]) => Touched(F, p, [F EXCEPT ![p] = g])'
    BY <2>6
  <2> QED BY <1>2, <2>1, <2>5, <2>7 DEF OneChange
<1>6. QED
  BY <1>3, <1>4, <1>5 DEF SearchNext

(* The search keeps to one of the two file systems, so its answer does.    *)
LEMMA OneChangeAnswers ==
  ASSUME SearchInv, OneChange, changes <= 1
  PROVE  FirstMatch
<1>1. world \in WorldType /\ changes \in Nat /\ outcome \in OutcomeType
  BY DEF SearchInv, SearchTypeOK
<1>2. PICK F \in [Path -> File] : F = world.files
  BY <1>1, WorldFacts
<1>3. SUFFICES ASSUME step = "done", ~torn, Answer(world, F) # Loop,
                      fs = F \/ world.bytes.kind # "script"
               PROVE  outcome \in {Answer(world, F), Answer(world, fs)}
  BY <1>2, Zenon DEF FirstMatch, Loop
<1>4. outcome # Loop
  BY <1>1 DEF OutcomeType, Loop, Error
<1>5. \A H, n : Rest(H, n) = outcome
  BY <1>3 DEF Rest, RestOf
<1>6. CASE changes = 0
  BY <1>2, <1>3, <1>5, <1>6 DEF OneChange, Untouched, Follows
<1>7. CASE changes = 1
  <2>1. PICK p \in Path : \E g \in File : Touched(F, p, [F EXCEPT ![p] = g])
    BY <1>2, <1>7 DEF OneChange
  <2>2. PICK G : Touched(F, p, G)
    BY <2>1
  <2>3. fs = G /\ fs # F
    BY <2>2 DEF Touched
  <2>4. Tracks(F, p, G)
    BY <1>3, <2>2, <2>3 DEF Touched
  <2> QED BY <1>4, <1>5, <2>3, <2>4 DEF Tracks, Leads, Follows
<1>8. QED
  BY <1>1, <1>6, <1>7

(* A search gives what the search order promises for the files as they     *)
(* were before or as they are after the one change that happens while it   *)
(* runs: resolve_request, its candidates in every directory list, the      *)
(* cache and the scripts it follows, whatever the directories, the cache,  *)
(* the files and the scripts are.                                          *)
THEOREM SearchFirstMatch == SearchSpec => [](changes <= 1 => FirstMatch)
<1> DEFINE Clear == AllLegible(world.LD_CACHE)
<1>1. SearchInit => (Clear => SearchInv /\ OneChange)
  BY InitType, SearchInitLookup, InitCandidate, InitOneChange DEF SearchInv
<1>2. (Clear => SearchInv /\ OneChange) /\ [SearchNext]_<<searchVars, lookupVars>> =>
        (Clear => SearchInv /\ OneChange)'
  <2> SUFFICES ASSUME Clear => SearchInv /\ OneChange,
                      [SearchNext]_<<searchVars, lookupVars>>, Clear'
               PROVE  SearchInv' /\ OneChange'
    OBVIOUS
  <2>1. Clear
    BY WorldStays
  <2> QED BY <2>1, NextSearchInv, NextOneChange
<1>3. (Clear => SearchInv /\ OneChange) => (changes <= 1 => FirstMatch)
  <2>1. ~Clear => FirstMatch
    BY DEF FirstMatch
  <2> QED BY <2>1, OneChangeAnswers
<1> HIDE DEF Clear
<1>4. QED
  BY <1>1, <1>2, <1>3, PTL DEF SearchSpec

-----------------------------------------------------------------------------
(* What a well-formed script yields.                                       *)

(* A token opens a parenthesis, closes one, or does neither.               *)
LEMMA DepthStep ==
  ASSUME NEW text \in Seq(Token), NEW n \in 1 .. Len(text)
  PROVE  /\ Depth(text, n) \in Int /\ Depth(text, n - 1) \in Int
         /\ Depth(text, n) = CASE text[n].word = "(" -> Depth(text, n - 1) + 1
                               [] text[n].word = ")" -> Depth(text, n - 1) - 1
                               [] OTHER -> Depth(text, n - 1)
<1> DEFINE S(w) == {m \in Nat \ {0} : text[m].word = w}
           c(w, k) == NumberTo(S(w), k)
<1>1. n \in Nat \ {0} /\ n - 1 \in Nat
  OBVIOUS
<1>2. \A w : /\ c(w, n) \in Nat /\ c(w, n - 1) \in Nat
             /\ c(w, n) = IF n \in S(w) THEN c(w, n - 1) + 1 ELSE c(w, n - 1)
  <2> TAKE w
  <2>1. S(w) \in SUBSET Nat
    OBVIOUS
  <2> HIDE DEF S
  <2> QED BY <1>1, <2>1, CountTo
<1>3. \A w : n \in S(w) <=> text[n].word = w
  BY <1>1
<1>4. \A w : \A k \in Nat : {m \in 1 .. k : text[m].word = w} = {m \in S(w) : m <= k}
  OBVIOUS
<1>5. \A k \in Nat : Depth(text, k) = c("(", k) - c(")", k)
  <2> TAKE k \in Nat
  <2>1. \A w : Cardinality({m \in 1 .. k : text[m].word = w}) = c(w, k)
    BY <1>4 DEF NumberTo
  <2> HIDE DEF c
  <2> QED BY <2>1 DEF Depth
<1> HIDE DEF S, c
<1>6. QED
  BY <1>1, <1>2, <1>3, <1>5

LEMMA DepthZero == \A text : Depth(text, 0) = 0
<1>1. \A text, w : {m \in 1 .. 0 : text[m].word = w} = {}
  OBVIOUS
<1>2. Cardinality({}) = 0
  BY FS_EmptySet
<1>3. QED
  BY <1>1, <1>2 DEF Depth

(* How a group is entered, kept and left.                                  *)
LEMMA GroupStep ==
  ASSUME NEW text \in Seq(Token), NEW n \in 1 .. Len(text), Depth(text, n - 1) >= 0
  PROVE  /\ InGroup(text, n) => Depth(text, n) > 0
         /\ Depth(text, n - 1) > 0 =>
              (InGroup(text, n) <=> InGroup(text, n - 1) /\ Depth(text, n) > 0)
         /\ Depth(text, n - 1) = 0 =>
              (InGroup(text, n) <=> /\ n > 1 /\ text[n].word = "("
                                    /\ text[n - 1].word = "GROUP")
<1> DEFINE Opens(m) == /\ text[m - 1].word = "GROUP" /\ text[m].word = "("
                       /\ Depth(text, m) = 1
<1>1. \A k : InGroup(text, k) <=>
               \E m \in 2 .. k : Opens(m) /\ \A j \in m .. k : Depth(text, j) > 0
  BY DEF InGroup
<1>2. /\ Depth(text, n) \in Int /\ Depth(text, n - 1) \in Int
      /\ Depth(text, n) = CASE text[n].word = "(" -> Depth(text, n - 1) + 1
                            [] text[n].word = ")" -> Depth(text, n - 1) - 1
                            [] OTHER -> Depth(text, n - 1)
  BY DepthStep
<1>3. n \in Nat /\ n - 1 \in Nat /\ n >= 1
  OBVIOUS
<1> HIDE DEF Opens
<1>4. InGroup(text, n) => Depth(text, n) > 0
  BY <1>1, <1>3
<1>5. ASSUME Depth(text, n - 1) > 0
      PROVE  InGroup(text, n) <=> InGroup(text, n - 1) /\ Depth(text, n) > 0
  <2>1. ~Opens(n)
    BY <1>2, <1>5 DEF Opens
  <2>2. ASSUME InGroup(text, n) PROVE InGroup(text, n - 1)
    <3> PICK m \in 2 .. n : Opens(m) /\ \A j \in m .. n : Depth(text, j) > 0
      BY <1>1, <2>2
    <3>1. m \in 2 .. n - 1
      BY <1>3, <2>1
    <3>2. \A j \in m .. n - 1 : Depth(text, j) > 0
      BY <1>3
    <3> QED BY <1>1, <3>1, <3>2
  <2>3. ASSUME InGroup(text, n - 1), Depth(text, n) > 0 PROVE InGroup(text, n)
    <3> PICK m \in 2 .. n - 1 : Opens(m) /\ \A j \in m .. n - 1 : Depth(text, j) > 0
      BY <1>1, <2>3
    <3>1. m \in 2 .. n
      BY <1>3
    <3>2. \A j \in m .. n : j = n \/ j \in m .. n - 1
      BY <1>3
    <3>3. \A j \in m .. n : Depth(text, j) > 0
      BY <2>3, <3>2
    <3> QED BY <1>1, <3>1, <3>3
  <2> QED BY <1>4, <2>2, <2>3
<1>6. ASSUME Depth(text, n - 1) = 0
      PROVE  InGroup(text, n) <=> /\ n > 1 /\ text[n].word = "("
                                  /\ text[n - 1].word = "GROUP"
  <2>1. ASSUME InGroup(text, n) PROVE n > 1 /\ Opens(n)
    <3> PICK m \in 2 .. n : Opens(m) /\ \A j \in m .. n : Depth(text, j) > 0
      BY <1>1, <2>1
    <3>1. n - 1 \notin m .. n
      BY <1>6
    <3>2. m = n
      BY <1>3, <3>1
    <3> QED BY <3>2
  <2>2. ASSUME n > 1, Opens(n) PROVE InGroup(text, n)
    <3>1. n \in 2 .. n /\ n .. n = {n} /\ Depth(text, n) = 1
      BY <2>2, <1>3 DEF Opens
    <3>2. \A j \in n .. n : Depth(text, j) > 0
      BY <3>1
    <3> QED BY <1>1, <2>2, <3>1, <3>2
  <2>3. n > 1 /\ text[n].word = "(" /\ text[n - 1].word = "GROUP" => Opens(n)
    BY <1>2, <1>6 DEF Opens
  <2>4. Opens(n) => text[n].word = "(" /\ text[n - 1].word = "GROUP"
    BY DEF Opens
  <2> QED BY <2>1, <2>2, <2>3, <2>4
<1>7. QED
  BY <1>4, <1>5, <1>6

(* The words of groups, counted.                                           *)
LEMMA UptoStep ==
  ASSUME NEW text \in Seq(Token), NEW n \in 1 .. Len(text)
  PROVE  /\ Upto(text, n) \in Nat /\ Upto(text, n - 1) \in Nat
         /\ Upto(text, n) = IF n \in WordsAt(text) THEN Upto(text, n - 1) + 1
                            ELSE Upto(text, n - 1)
<1>1. WordsAt(text) \in SUBSET Nat /\ n \in Nat \ {0}
  BY DEF WordsAt
<1>2. \A k : Upto(text, k) = NumberTo(WordsAt(text), k)
  BY DEF Upto, NumberTo
<1>3. QED
  BY <1>1, <1>2, CountTo

LEMMA UptoEnds ==
  ASSUME NEW text \in Seq(Token)
  PROVE  /\ Upto(text, 0) = 0
         /\ Upto(text, Len(text)) = Cardinality(WordsAt(text))
         /\ Cardinality(WordsAt(text)) \in Nat
<1>1. Len(text) \in Nat
  OBVIOUS
<1>2. {m \in WordsAt(text) : m <= 0} = {}
  BY <1>1 DEF WordsAt
<1>3. {m \in WordsAt(text) : m <= Len(text)} = WordsAt(text)
  BY <1>1 DEF WordsAt
<1>4. IsFiniteSet(1 .. Len(text)) /\ WordsAt(text) \subseteq 1 .. Len(text)
  BY <1>1, FS_Interval DEF WordsAt
<1>5. Cardinality(WordsAt(text)) \in Nat
  BY <1>4, FS_Subset, FS_CardinalityType
<1>6. QED
  BY <1>2, <1>3, <1>5, FS_EmptySet DEF Upto

(* Each word is the one with its number.                                   *)
LEMMA WordByNumber ==
  ASSUME NEW text \in Seq(Token), NEW n \in WordsAt(text)
  PROVE  /\ Upto(text, n) \in 1 .. Cardinality(WordsAt(text))
         /\ GroupWords(text)[Upto(text, n)] = text[n].lib
<1> DEFINE A == WordsAt(text)
<1>1. A \in SUBSET (1 .. Len(text)) /\ Len(text) \in Nat
  BY DEF WordsAt
<1>2. \A k \in A : Upto(text, k) \in Nat /\ Upto(text, k) = Upto(text, k - 1) + 1
                   /\ Upto(text, k - 1) \in Nat
  BY <1>1, UptoStep
<1>3. ASSUME NEW k \in Nat, NEW m \in Nat, k <= m PROVE Upto(text, k) <= Upto(text, m)
  <2>1. IsFiniteSet(1 .. Len(text))
    BY <1>1, FS_Interval
  <2>2. {j \in A : j <= m} \subseteq 1 .. Len(text)
    BY <1>1
  <2>3. IsFiniteSet({j \in A : j <= m})
    BY <2>1, <2>2, FS_Subset
  <2>4. {j \in A : j <= k} \subseteq {j \in A : j <= m}
    <3> SUFFICES ASSUME NEW j \in A, j <= k PROVE j <= m
      OBVIOUS
    <3>1. j \in Nat
      BY <1>1
    <3> QED BY <1>3, <3>1
  <2>5. Cardinality({j \in A : j <= k}) <= Cardinality({j \in A : j <= m})
    BY <2>3, <2>4, FS_Subset
  <2> QED BY <2>5 DEF Upto
<1>4. ASSUME NEW k \in A, NEW m \in A, k < m PROVE Upto(text, k) < Upto(text, m)
  <2>1. k \in Nat /\ m - 1 \in Nat /\ k <= m - 1
    BY <1>1, <1>4
  <2>2. Upto(text, k) <= Upto(text, m - 1)
    BY <1>3, <2>1
  <2> QED BY <1>2, <2>2
<1>5. ASSUME NEW k \in A, Upto(text, k) = Upto(text, n) PROVE k = n
  <2>1. k \in Nat /\ n \in Nat
    BY <1>1
  <2>2. ~(k < n) /\ ~(n < k)
    BY <1>2, <1>4, <1>5
  <2> QED BY <2>1, <2>2
<1>6. (CHOOSE k \in A : Upto(text, k) = Upto(text, n)) = n
  BY <1>5
<1>7. Upto(text, n) \in 1 .. Cardinality(A)
  <2>1. n <= Len(text) /\ n \in Nat
    BY <1>1
  <2>2. Upto(text, n) <= Upto(text, Len(text))
    BY <1>1, <1>3, <2>1
  <2>3. Upto(text, n) \in Nat /\ Upto(text, n) >= 1 /\ Cardinality(A) \in Nat
    BY <1>2, UptoEnds
  <2> QED BY <2>2, <2>3, UptoEnds
<1>8. QED
  BY <1>6, <1>7 DEF GroupWords

(* The words of groups from position n on.                                 *)
WordsFrom(text, n) ==
  [k \in 1 .. Cardinality(WordsAt(text)) - Upto(text, n - 1) |->
     GroupWords(text)[Upto(text, n - 1) + k]]

LEMMA WordsFromStep ==
  ASSUME NEW text \in Seq(Token), NEW n \in 1 .. Len(text)
  PROVE  WordsFrom(text, n) = IF n \in WordsAt(text)
                              THEN <<text[n].lib>> \o WordsFrom(text, n + 1)
                              ELSE WordsFrom(text, n + 1)
<1> DEFINE c == Upto(text, n - 1)
           C == Cardinality(WordsAt(text))
           W == GroupWords(text)
<1>1. (n + 1) - 1 = n /\ c \in Nat /\ C \in Nat
  BY UptoStep, UptoEnds
<1>2. CASE n \notin WordsAt(text)
  <2>1. Upto(text, n) = c
    BY <1>2, UptoStep
  <2> QED BY <1>1, <1>2, <2>1 DEF WordsFrom
<1>3. CASE n \in WordsAt(text)
  <2>1. Upto(text, n) = c + 1 /\ c + 1 \in 1 .. C /\ W[c + 1] = text[n].lib
    BY <1>3, UptoStep, WordByNumber
  <2>2. WordsFrom(text, n) = [k \in 1 .. C - c |-> W[c + k]]
    BY DEF WordsFrom
  <2>3. WordsFrom(text, n + 1) = [k \in 1 .. C - (c + 1) |-> W[(c + 1) + k]]
    BY <1>1, <2>1 DEF WordsFrom
  <2>4. <<text[n].lib>> \o WordsFrom(text, n + 1) = [k \in 1 .. C - c |-> W[c + k]]
    <3> DEFINE s == [k \in 1 .. C - (c + 1) |-> W[(c + 1) + k]]
               x == text[n].lib
    <3> HIDE DEF c, C, W, x
    <3>1. C - (c + 1) \in Nat /\ C - c = (C - (c + 1)) + 1
      BY <1>1, <2>1
    <3>2. Len(s) = C - (c + 1) /\ \A k \in 1 .. Len(s) : s[k] = W[(c + 1) + k]
      BY <3>1
    <3>3. <<x>> \o s = [k \in 1 .. C - c |-> W[c + k]]
      <4>1. s \in Seq({W[k] : k \in Nat})
        <5>1. \A k \in 1 .. C - (c + 1) : W[(c + 1) + k] \in {W[j] : j \in Nat}
          BY <1>1
        <5> QED BY <3>1, <5>1
      <4> HIDE DEF s
      <4>2. x \in {W[k] : k \in Nat}
        BY <1>1, <2>1 DEF x
      <4>3. /\ <<x>> \o s \in Seq({W[k] : k \in Nat}) /\ Len(<<x>> \o s) = Len(s) + 1
            /\ (<<x>> \o s)[1] = x
            /\ \A k \in 1 .. Len(s) : (<<x>> \o s)[k + 1] = s[k]
        <5> DEFINE T == {W[k] : k \in Nat}
        <5>1. s \in Seq(T) /\ x \in T
          BY <4>1, <4>2
        <5> HIDE DEF T
        <5>2. /\ <<x>> \o s \in Seq(T) /\ Len(<<x>> \o s) = Len(s) + 1
              /\ (<<x>> \o s)[1] = x
              /\ \A k \in 1 .. Len(s) : (<<x>> \o s)[k + 1] = s[k]
          BY <5>1, SeqFacts
        <5> QED BY <5>2 DEF T
      <4> DEFINE t == <<x>> \o s
      <4> HIDE DEF t
      <4>4. t \in Seq({W[k] : k \in Nat}) /\ Len(t) = C - c /\ t[1] = x
            /\ \A k \in 1 .. Len(s) : t[k + 1] = s[k]
        BY <3>1, <3>2, <4>3 DEF t
      <4>5. ASSUME NEW k \in 1 .. C - c PROVE t[k] = W[c + k]
        <5>1. CASE k = 1
          BY <2>1, <4>4, <5>1 DEF x
        <5>2. CASE k # 1
          <6>1. k - 1 \in 1 .. Len(s) /\ (k - 1) + 1 = k /\ (c + 1) + (k - 1) = c + k
            BY <1>1, <3>1, <3>2, <5>2
          <6> QED BY <3>2, <4>4, <6>1
        <5> QED BY <5>1, <5>2
      <4>6. t = [k \in 1 .. C - c |-> W[c + k]]
        <5>1. t = [k \in 1 .. Len(t) |-> t[k]]
          BY <4>4
        <5> QED BY <4>4, <4>5, <5>1
      <4> QED BY <4>6 DEF t
    <3> QED BY <2>3, <3>3 DEF x, s
  <2> QED BY <1>3, <2>2, <2>4
<1>4. QED
  BY <1>2, <1>3

(* From position n on the parser finds the words of groups: it counts the  *)
(* parentheses inside a group, and none outside.                           *)
Nesting(text, n) == IF InGroup(text, n - 1) THEN Depth(text, n - 1) ELSE 0

Reads(text, f, n) ==
  TokenWord(text, n - 1) \notin {"GROUP", "AS_NEEDED"} =>
    f[n][Nesting(text, n)] = WordsFrom(text, n)

LEMMA ReadsStep ==
  ASSUME NEW text \in Seq(Token), WellFormed(text), NEW f, Parses(text, f),
         NEW n \in 1 .. Len(text), Reads(text, f, n + 1),
         n + 1 <= Len(text) => Reads(text, f, n + 2)
  PROVE  Reads(text, f, n)
<1> DEFINE D(k) == Depth(text, k)
           w == text[n].word
<1>1. SUFFICES ASSUME TokenWord(text, n - 1) \notin {"GROUP", "AS_NEEDED"}
               PROVE  f[n][Nesting(text, n)] = WordsFrom(text, n)
  BY DEF Reads
<1>2. /\ Len(text) \in Nat /\ n \in Nat /\ n - 1 \in Nat /\ (n + 1) - 1 = n
      /\ (n + 2) - 1 = n + 1 /\ ~(n > Len(text)) /\ n \in 1 .. Len(text) + 2
      /\ n + 1 > 1 /\ (n + 1) + 1 = n + 2
  OBVIOUS
<1>3. w \in {"GROUP", "AS_NEEDED", "(", ")", "option", "word"}
  <2>1. text[n] \in Token
    OBVIOUS
  <2> QED BY <2>1 DEF Token
<1>4. /\ D(n) >= 0
      /\ w = "GROUP" => D(n) = 0 /\ TokenWord(text, n + 1) = "("
      /\ w = "AS_NEEDED" => InGroup(text, n) /\ TokenWord(text, n + 1) = "("
      /\ w = "(" => TokenWord(text, n - 1) \in
                      IF D(n) = 1 THEN {"GROUP", "word"} ELSE {"AS_NEEDED"}
  BY DEF WellFormed
<1>5. D(n - 1) >= 0 /\ D(n - 1) \in Int /\ D(n) \in Int
  <2>1. CASE n = 1
    BY <2>1, DepthZero, DepthStep
  <2>2. CASE n # 1
    <3>1. n - 1 \in 1 .. Len(text)
      BY <2>2
    <3> QED BY <3>1, DepthStep DEF WellFormed
  <2> QED BY <2>1, <2>2
<1>6. D(n) = CASE w = "(" -> D(n - 1) + 1
               [] w = ")" -> D(n - 1) - 1
               [] OTHER -> D(n - 1)
  BY DepthStep
<1>7. /\ D(n - 1) > 0 => (InGroup(text, n) <=> InGroup(text, n - 1) /\ D(n) > 0)
      /\ D(n - 1) = 0 => (InGroup(text, n) <=> /\ n > 1 /\ w = "("
                                               /\ text[n - 1].word = "GROUP")
  BY <1>5, GroupStep
<1>8. n > 1 => text[n - 1].word # "GROUP"
  <2>1. n > 1 => n - 1 \in 1 .. Len(text)
    OBVIOUS
  <2> QED BY <1>1, <2>1 DEF TokenWord
<1>9. WordsFrom(text, n) = IF w = "word" /\ InGroup(text, n)
                           THEN <<text[n].lib>> \o WordsFrom(text, n + 1)
                           ELSE WordsFrom(text, n + 1)
  BY WordsFromStep DEF WordsAt
<1>10. TokenWord(text, n) = w /\ WordAt(text, n) = w
       /\ WordAt(text, n + 1) = TokenWord(text, n + 1)
  BY <1>2 DEF TokenWord, WordAt
<1>11. \A d \in Nat : f[n][d] = ParseRow(text, f, n, d)
  BY <1>2 DEF Parses
<1>12. w \notin {"GROUP", "AS_NEEDED"} =>
         f[n + 1][IF InGroup(text, n) THEN D(n) ELSE 0] = WordsFrom(text, n + 1)
  BY <1>2, <1>10 DEF Reads, Nesting
(* After a keyword and its parenthesis.                                    *)
<1>13. ASSUME w \in {"GROUP", "AS_NEEDED"}
       PROVE  /\ D(n + 1) = D(n) + 1
              /\ InGroup(text, n + 1)
              /\ f[n + 2][D(n) + 1] = WordsFrom(text, n)
  <2>1. TokenWord(text, n + 1) = "("
    BY <1>4, <1>13
  <2>2. n + 1 \in 1 .. Len(text) /\ text[n + 1].word = "("
    BY <1>2, <2>1 DEF TokenWord
  <2>3. D(n + 1) = D(n) + 1
    BY <1>2, <2>2, DepthStep
  <2>4. /\ D(n) > 0 => (InGroup(text, n + 1) <=> InGroup(text, n) /\ D(n + 1) > 0)
        /\ D(n) = 0 => (InGroup(text, n + 1) <=> /\ n + 1 > 1 /\ text[n + 1].word = "("
                                                 /\ text[n].word = "GROUP")
    BY <1>2, <1>4, <2>2, GroupStep
  <2>5. w = "AS_NEEDED" => D(n) > 0
    BY <1>2, <1>4, <1>5, GroupStep
  <2>6. InGroup(text, n + 1)
    <3>1. CASE w = "GROUP"
      BY <1>2, <1>4, <2>2, <2>4, <3>1
    <3>2. CASE w = "AS_NEEDED"
      BY <1>4, <1>5, <2>3, <2>4, <2>5, <3>2
    <3> QED BY <1>13, <3>1, <3>2
  <2>7. f[n + 2][D(n) + 1] = WordsFrom(text, n + 2)
    <3>1. Reads(text, f, n + 2) /\ TokenWord(text, n + 1) \notin {"GROUP", "AS_NEEDED"}
      BY <2>1, <2>2
    <3>2. Nesting(text, n + 2) = D(n) + 1
      BY <1>2, <2>3, <2>6 DEF Nesting
    <3> QED BY <1>2, <3>1, <3>2 DEF Reads
  <2>8. WordsFrom(text, n + 1) = WordsFrom(text, n + 2)
    <3>1. n + 1 \notin WordsAt(text)
      BY <2>2 DEF WordsAt
    <3> QED BY <1>2, <2>2, <3>1, WordsFromStep
  <2>9. WordsFrom(text, n) = WordsFrom(text, n + 1)
    BY <1>9, <1>13
  <2> QED BY <2>3, <2>6, <2>7, <2>8, <2>9
<1> HIDE DEF D, w
<1>14. CASE ~InGroup(text, n - 1)
  <2>1. Nesting(text, n) = 0 /\ f[n][0] = ParseRow(text, f, n, 0)
    BY <1>11, <1>14 DEF Nesting
  <2>2. f[n][0] = IF w = "GROUP" /\ TokenWord(text, n + 1) = "(" THEN f[n + 2][1]
                  ELSE f[n + 1][0]
    BY <1>2, <1>10, <2>1 DEF ParseRow
  <2>3. CASE w = "GROUP"
    <3>1. f[n][0] = f[n + 2][1] /\ D(n) + 1 = 1
      BY <1>4, <2>2, <2>3
    <3>2. f[n + 2][D(n) + 1] = WordsFrom(text, n)
      BY <1>13, <2>3
    <3> QED BY <2>1, <3>1, <3>2
  <2>4. CASE w # "GROUP"
    <3>1. ~InGroup(text, n)
      BY <1>5, <1>7, <1>8, <1>14
    <3>2. w # "AS_NEEDED"
      BY <1>4, <3>1
    <3>3. f[n + 1][0] = WordsFrom(text, n + 1)
      BY <1>12, <2>4, <3>1, <3>2
    <3> QED BY <1>9, <2>1, <2>2, <2>4, <3>1, <3>3
  <2> QED BY <2>3, <2>4
<1>15. CASE InGroup(text, n - 1)
  <2>1. D(n - 1) > 0
    <3>1. PICK m \in 2 .. n - 1 : \A k \in m .. n - 1 : Depth(text, k) > 0
      BY <1>15 DEF InGroup
    <3>2. n - 1 \in m .. n - 1
      BY <1>2
    <3> QED BY <3>1, <3>2 DEF D
  <2>2. D(n - 1) \in Nat /\ D(n - 1) # 0 /\ Nesting(text, n) = D(n - 1)
    BY <1>5, <1>15, <2>1 DEF Nesting, D
  <2>3. InGroup(text, n) <=> D(n) > 0
    BY <1>7, <1>15, <2>1
  <2>4. f[n][D(n - 1)] =
          CASE w = ")" -> f[n + 1][D(n - 1) - 1]
            [] w = "AS_NEEDED" ->
                 f[n + 2][IF TokenWord(text, n + 1) = "(" THEN D(n - 1) + 1 ELSE D(n - 1)]
            [] w = "option" -> f[n + 1][D(n - 1)]
            [] OTHER -> <<text[n].lib>> \o f[n + 1][D(n - 1)]
    <3>1. f[n][D(n - 1)] = ParseRow(text, f, n, D(n - 1))
      BY <1>11, <2>2
    <3> QED BY <1>2, <1>10, <2>2, <3>1 DEF ParseRow
  <2>5. w # "("
    <3> SUFFICES ASSUME w = "(" PROVE FALSE
      OBVIOUS
    <3>1. D(n) = D(n - 1) + 1
      BY <1>6
    <3>2. D(n) # 1
      BY <1>5, <2>1, <3>1
    <3> QED BY <1>1, <1>4, <3>2
  <2>6. w # "GROUP"
    <3> SUFFICES ASSUME w = "GROUP" PROVE FALSE
      OBVIOUS
    <3>1. D(n) = D(n - 1) /\ D(n) = 0
      BY <1>4, <1>6
    <3> QED BY <2>1, <3>1
  <2>7. CASE w = ")"
    <3>1. D(n) = D(n - 1) - 1
      BY <1>6, <2>7
    <3>2. (IF InGroup(text, n) THEN D(n) ELSE 0) = D(n)
      BY <1>4, <1>5, <2>3
    <3>3. f[n + 1][D(n)] = WordsFrom(text, n + 1)
      BY <1>12, <2>7, <3>2
    <3>4. f[n][D(n - 1)] = f[n + 1][D(n)]
      BY <2>4, <2>7, <3>1
    <3> QED BY <1>9, <2>2, <2>7, <3>3, <3>4
  <2>8. CASE w = "AS_NEEDED"
    <3>1. D(n) = D(n - 1) /\ TokenWord(text, n + 1) = "("
      BY <1>4, <1>6, <2>8
    <3>2. f[n][D(n - 1)] = f[n + 2][D(n) + 1]
      BY <2>4, <2>8, <3>1
    <3>3. f[n + 2][D(n) + 1] = WordsFrom(text, n)
      BY <1>13, <2>8
    <3> QED BY <2>2, <3>2, <3>3
  <2>9. CASE w = "option"
    <3>1. D(n) = D(n - 1)
      BY <1>6, <2>9
    <3>2. f[n + 1][D(n)] = WordsFrom(text, n + 1)
      BY <1>12, <2>1, <2>3, <2>9, <3>1
    <3>3. f[n][D(n - 1)] = f[n + 1][D(n)]
      BY <2>4, <2>9, <3>1
    <3> QED BY <1>9, <2>2, <2>9, <3>2, <3>3
  <2>10. CASE w = "word"
    <3>1. D(n) = D(n - 1) /\ InGroup(text, n)
      BY <1>6, <2>1, <2>3, <2>10
    <3>2. f[n + 1][D(n)] = WordsFrom(text, n + 1)
      BY <1>12, <2>10, <3>1
    <3>3. f[n][D(n - 1)] = <<text[n].lib>> \o f[n + 1][D(n)]
      BY <2>4, <2>10, <3>1
    <3>4. WordsFrom(text, n) = <<text[n].lib>> \o WordsFrom(text, n + 1)
      BY <1>9, <2>10, <3>1
    <3> QED BY <2>2, <3>2, <3>3, <3>4
  <2> QED BY <1>3, <2>5, <2>6, <2>7, <2>8, <2>9, <2>10
<1>16. QED
  BY <1>14, <1>15

(* So the whole of a well-formed script yields the words of its groups.    *)
LEMMA ParseReads ==
  ASSUME NEW text \in Seq(Token), WellFormed(text)
  PROVE  Parse(text) = GroupWords(text)
<1> DEFINE N == Len(text)
<1>1. PICK f : Parses(text, f) /\ Parse(text) = f[1][0]
  BY ParseByTable
<1>2. N \in Nat /\ N + 1 \in 1 .. N + 2 /\ N + 1 > N /\ (N + 1) - 1 = N
  OBVIOUS
<1>3. Reads(text, f, N + 1)
  <2>1. Nesting(text, N + 1) = 0
    BY <1>2 DEF Nesting, WellFormed
  <2>2. f[N + 1][0] = ParseRow(text, f, N + 1, 0)
    BY <1>1, <1>2 DEF Parses
  <2>3. f[N + 1][0] = <<>>
    BY <1>2, <2>2 DEF ParseRow
  <2>4. Cardinality(WordsAt(text)) - Upto(text, N) = 0
    BY UptoEnds
  <2>5. WordsFrom(text, N + 1) = <<>>
    BY <1>2, <2>4 DEF WordsFrom
  <2> QED BY <2>1, <2>3, <2>5 DEF Reads
<1>4. \A n \in 1 .. N + 1 : Reads(text, f, n)
  <2> DEFINE T == {k \in Nat : k <= N /\ ~Reads(text, f, (N + 1) - k)}
  <2> SUFFICES ASSUME T # {} PROVE FALSE
    <3>1. ASSUME NEW n \in 1 .. N + 1, ~Reads(text, f, n) PROVE T # {}
      <4>1. (N + 1) - n \in Nat /\ (N + 1) - n <= N /\ (N + 1) - ((N + 1) - n) = n
        BY <1>2
      <4>2. (N + 1) - n \in T
        BY <3>1, <4>1
      <4> QED BY <4>2
    <3> HIDE DEF T
    <3> QED BY <3>1
  <2>1. PICK k \in T : \A j \in T : k <= j
    BY LeastNat
  <2>2. k \in Nat /\ k <= N /\ ~Reads(text, f, (N + 1) - k)
    OBVIOUS
  <2>3. \A j \in Nat : j < k => Reads(text, f, (N + 1) - j)
    <3> SUFFICES ASSUME NEW j \in Nat, j < k, ~Reads(text, f, (N + 1) - j) PROVE FALSE
      OBVIOUS
    <3>1. j \in T
      BY <1>2, <2>2
    <3>2. k <= j
      BY <2>1, <3>1
    <3> QED BY <2>2, <3>2
  <2> HIDE DEF T
  <2>4. k # 0
    <3>1. (N + 1) - 0 = N + 1
      BY <1>2
    <3> QED BY <1>3, <2>2, <3>1
  <2> DEFINE n == (N + 1) - k
  <2>5. /\ n \in 1 .. N /\ k - 1 \in Nat /\ k - 1 < k /\ (N + 1) - (k - 1) = n + 1
        /\ n + 1 <= N => k - 2 \in Nat /\ k - 2 < k /\ (N + 1) - (k - 2) = n + 2
    BY <1>2, <2>2, <2>4
  <2>6. Reads(text, f, n + 1) /\ (n + 1 <= N => Reads(text, f, n + 2))
    <3>1. Reads(text, f, (N + 1) - (k - 1))
      BY <2>3, <2>5
    <3>2. n + 1 <= N => Reads(text, f, (N + 1) - (k - 2))
      BY <2>3, <2>5
    <3> HIDE DEF n
    <3> QED BY <2>5, <3>1, <3>2
  <2>7. ~Reads(text, f, n)
    BY <2>2
  <2> HIDE DEF n
  <2> QED BY <1>1, <2>5, <2>6, <2>7, ReadsStep
<1>5. Reads(text, f, 1)
  BY <1>2, <1>4
<1>6. ~InGroup(text, 1 - 1) /\ TokenWord(text, 1 - 1) = "end"
  BY DEF InGroup, TokenWord
<1>7. f[1][0] = WordsFrom(text, 1)
  BY <1>5, <1>6 DEF Reads, Nesting
<1>8. WordsFrom(text, 1) = GroupWords(text)
  <2> DEFINE C == Cardinality(WordsAt(text))
  <2>1. Upto(text, 1 - 1) = 0 /\ C \in Nat /\ C - 0 = C
    BY UptoEnds
  <2>2. WordsFrom(text, 1) = [k \in 1 .. C |-> GroupWords(text)[0 + k]]
    BY <2>1 DEF WordsFrom
  <2>3. \A k \in 1 .. C : 0 + k = k
    BY <2>1
  <2>4. [k \in 1 .. C |-> GroupWords(text)[0 + k]] = GroupWords(text)
    BY <2>3 DEF GroupWords
  <2> QED BY <2>2, <2>4
<1>9. QED
  BY <1>1, <1>7, <1>8

(* Whatever scripts lie in the file system or are given to                 *)
(* dlopen_from_binary, and whatever becomes of them: get_linker_script_libs *)
(* yields of a well-formed one the words of its groups, in order.          *)
THEOREM SearchReadsScripts == SearchSpec => []ScriptLibs
<1>1. SearchTypeOK => ScriptLibs
  <2> SUFFICES ASSUME SearchTypeOK, NEW f \in {fs[p] : p \in DOMAIN fs} \cup {bytes},
                      WellFormed(f.text)
               PROVE  Parse(f.text) = GroupWords(f.text)
    BY DEF ScriptLibs
  <2>1. f \in File
    BY DEF SearchTypeOK
  <2>2. f.text \in Seq(Token)
    BY <2>1, FileFacts
  <2> QED BY <2>2, ParseReads
<1>2. QED
  BY <1>1, InitType, NextType, PTL DEF SearchSpec
=============================================================================
