------------------------------ MODULE MCSearch ------------------------------
(***************************************************************************)
(* Small worlds for the search, one family for each thing that varies: the *)
(* cache, which of the places hold a file, what stands at one of them,     *)
(* what scripts list, and the text of a script.                            *)
(***************************************************************************)
EXTENDS Search, TLC

CONSTANTS
  MaxLen,    \* entries of a cache
  MaxText    \* free tokens of a script

Names == 0 .. 3
Dirs == {"r", "l", "u", "c", "d"}
Bare(n) == <<"", n>>

(* At most one name cannot be read.                                        *)
SortedCaches ==
  LET sorted == {s \in UNION {[1 .. n -> [name : 1 .. 3, legible : {TRUE},
                                          usable : BOOLEAN]] :
                                n \in 0 .. MaxLen} :
                   Ascending(s) \/ Descending(s)}
  IN  sorted \cup UNION {{[s EXCEPT ![n].legible = FALSE] : n \in 1 .. Len(s)} :
                            s \in {t \in sorted : Len(t) < MaxLen}}

Elf(n) == [kind |-> "elf", ino |-> n, text |-> <<>>]
Script(n, text) == [kind |-> "script", ino |-> n, text |-> text]
Odd(kind) == [kind |-> kind, ino |-> 7, text |-> <<>>]

Word(r) == [word |-> "word", lib |-> r]
Mark(w) == [word |-> w, lib |-> Bare(0)]
Group(libs) == <<Mark("GROUP"), Mark("(")>>
                 \o [n \in 1 .. Len(libs) |-> Word(libs[n])] \o <<Mark(")")>>

Files(F) == [p \in Dirs \X Names |-> IF p \in DOMAIN F THEN F[p] ELSE Absent]

Plain == [request |-> Bare(1), bytes |-> Absent,
          rpath |-> <<>>, runpath |-> <<>>, origin |-> "r",
          LD_LIBRARY_PATH |-> <<"l">>, DEFAULT_PATH |-> <<"d">>,
          LD_CACHE |-> <<>>, cached |-> "c", names |-> {}, inodes |-> {},
          files |-> Files(<<>>), changes |-> {}]

CacheWorlds ==
  {[Plain EXCEPT !.LD_CACHE = s, !.request = Bare(n),
                 !.files = Files(<<"c", n>> :> Elf(n) @@ <<"d", n>> :> Elf(9))] :
     s \in SortedCaches, n \in 1 .. 3}

(* The five places of a name, in the order of the search.                  *)
Places5 == <<<<"r", 1>>, <<"l", 1>>, <<"u", 1>>, <<"c", 1>>, <<"d", 1>>>>
Listed == <<[name |-> 1, legible |-> TRUE, usable |-> TRUE]>>
Runpaths == {<<>>, <<[var |-> "none", dir |-> "u"]>>,
             <<[var |-> "{ORIGIN}", dir |-> "r"], [var |-> "other", dir |-> "u"]>>}
Ordered(F, run) ==
  [Plain EXCEPT !.files = Files(F), !.runpath = run, !.LD_CACHE = Listed,
                !.rpath = <<[var |-> "ORIGIN", dir |-> "u"]>>]

OrderWorlds ==
  {[Ordered([p \in {Places5[n] : n \in S} |-> Elf(CHOOSE n \in S : Places5[n] = p)],
            run)
      EXCEPT !.changes = {<<Places5[n], f>> : n \in 1 .. 5, f \in {Absent, Elf(8)}}] :
     S \in SUBSET (1 .. 5), run \in Runpaths}

OddWorlds ==
  {[Ordered([p \in {Places5[n] : n \in S \cup {k}} |->
               IF p = Places5[k] THEN f ELSE Elf(1)], run)
      EXCEPT !.inodes = {6}] :
     S \in SUBSET (1 .. 5), k \in 1 .. 5, run \in Runpaths,
     f \in {Odd("barred"), Odd("sealed"), Elf(6)}}
  \cup {[Plain EXCEPT !.names = {1}]}

(* Scripts at l/1, d/2 and d/3.                                            *)
Lib == {Bare(1), Bare(2), Bare(3), <<"d", 2>>, <<"d", 3>>}
Listing == UNION {[1 .. n -> Lib] : n \in 0 .. 2}
ScriptWorlds ==
  {[Plain EXCEPT !.request = r,
       !.inodes = {6},
       !.files = Files(<<"l", 1>> :> Script(1, Group(libs))
                       @@ <<"d", 2>> :> f @@ <<"d", 3>> :> g),
       !.changes = {<<p, h>> : p \in {<<"l", 1>>, <<"d", 2>>, <<"d", 3>>},
                               h \in {Absent, Elf(8)}}] :
     r \in {Bare(1), <<"l", 1>>}, libs \in Listing,
     f \in {Absent, Elf(2), Script(2, Group(<<Bare(3)>>))},
     g \in {Absent, Elf(6), Script(3, Group(<<<<"d", 2>>, Bare(2)>>))}}

(* dlopen_from_binary: the contents are given, with and without a file at  *)
(* the path that goes with them.                                           *)
BinaryWorlds ==
  {[Plain EXCEPT !.request = r, !.bytes = b,
       !.changes = {<<<<"l", 1>>, Absent>>, <<<<"l", 1>>, Elf(8)>>, <<<<"d", 2>>, Absent>>},
       !.files = Files(<<"l", 1>> :> f @@ <<"d", 1>> :> g @@ <<"d", 2>> :> Elf(2))] :
     r \in {Bare(1), <<"l", 1>>},
     b \in {Elf(5), Script(5, Group(<<Bare(2)>>)), Script(5, Group(<<Bare(1)>>))},
     f \in {Absent, Elf(1), Odd("sealed")}, g \in {Absent, Elf(3)}}

Tokens == {Mark("GROUP"), Mark("AS_NEEDED"), Mark("("), Mark(")"),
           Mark("option"), Word(<<"d", 2>>), Word(<<"d", 3>>)}
Texts(k) == UNION {[1 .. n -> Tokens] : n \in 0 .. k}
TextWorlds ==
  {[Plain EXCEPT !.request = <<"l", 1>>,
       !.files = Files(<<"l", 1>> :> Script(1, text) @@ <<"d", 3>> :> Elf(3))] :
     text \in {Group(<<>>) \o t : t \in Texts(MaxText - 2)}
              \cup {<<Mark("GROUP"), Mark("(")>> \o t \o <<Mark(")")>> :
                      t \in Texts(MaxText)}
              \cup Texts(MaxText - 1)}

Worlds == CacheWorlds \cup OrderWorlds \cup OddWorlds \cup ScriptWorlds
            \cup BinaryWorlds \cup TextWorlds
=============================================================================
