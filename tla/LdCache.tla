------------------------------- MODULE LdCache -------------------------------
(***************************************************************************)
(* LdCache::lookup: the binary search for a library name in ld.so.cache,   *)
(* which may be sorted either way and may list a name several times, for   *)
(* other architectures or libc types.                                      *)
(*                                                                         *)
(* A name is a number; the order of names is the byte order of strings.    *)
(* An entry is what get_name, check_flags and get_path read of it: legible *)
(* means that the name can be read (it lies in the file and is UTF-8),     *)
(* usable that the flags are the current ones and the path can be read.    *)
(* Positions count from 0, as in the code.                                 *)
(***************************************************************************)
EXTENDS Integers, Sequences

CONSTANTS
  Name,    \* the names that occur
  Cache    \* the caches that are searched

Entry == [name : Name, legible : BOOLEAN, usable : BOOLEAN]

(* A cache is sorted as far as its names can be read.                      *)
Ascending(s) == \A m, n \in 1 .. Len(s) :
  m <= n /\ s[m].legible /\ s[n].legible => s[m].name <= s[n].name
Descending(s) == \A m, n \in 1 .. Len(s) :
  m <= n /\ s[m].legible /\ s[n].legible => s[m].name >= s[n].name
AllLegible(s) == \A n \in 1 .. Len(s) : s[n].legible

ASSUME LdCacheAssumption ==
  /\ Name \subseteq Int
  /\ Cache \subseteq Seq(Entry)
  /\ \A s \in Cache : Ascending(s) \/ Descending(s)

VARIABLES
  cache, lib_name,  \* the cache and the name that is looked up
  pc,
  is_descending,
  left, right,      \* the search goes on in left .. right - 1
  i,                \* start, and later i, of the code
  result            \* the position of the entry that is found, or -1

vars == <<cache, lib_name, pc, is_descending, left, right, i, result>>

nlibs == Len(cache)
GetName(n) == cache[n + 1].name
Legible(n) == cache[n + 1].legible
Usable(n) == cache[n + 1].usable

(* get_name(n) == Some(name), for the name that is looked up.              *)
IsNamed(n) == Legible(n) /\ GetName(n) = lib_name

Mid == left + (right - left) \div 2

Return(n) == /\ pc' = "done"
             /\ result' = n
             /\ UNCHANGED <<cache, lib_name, is_descending, left, right, i>>

(* The direction of the cache is told by its first and its last name.  A   *)
(* name that cannot be read ends the lookup.                               *)
Start ==
  /\ pc = "start"
  /\ \/ /\ nlibs > 0 => ~Legible(0) \/ ~Legible(nlibs - 1)
        /\ Return(-1)
     \/ /\ nlibs > 0 /\ Legible(0) /\ Legible(nlibs - 1)
        /\ is_descending' = (GetName(0) > GetName(nlibs - 1))
        /\ left' = 0
        /\ right' = nlibs
        /\ pc' = "probe"
        /\ UNCHANGED <<cache, lib_name, i, result>>

(* A fault of Less: the order of a descending cache is not turned round.   *)
LessAscending(name) == lib_name < name

(* The comparison, turned round for a descending cache.                    *)
Less(name) == IF is_descending THEN name < lib_name ELSE lib_name < name

(* A fault of Probe: the middle is kept on the left side.                  *)
ProbeStuck ==
  LET name == GetName(Mid)
  IN  /\ pc = "probe"
      /\ left < right /\ Legible(Mid)
      /\ pc' = IF name = lib_name THEN "back" ELSE pc
      /\ i' = IF name = lib_name THEN Mid ELSE i
      /\ right' = IF name # lib_name /\ Less(name) THEN Mid ELSE right
      /\ left' = IF name # lib_name /\ ~Less(name) THEN Mid ELSE left
      /\ UNCHANGED <<cache, lib_name, is_descending, result>>

(* One turn of the loop.                                                   *)
Probe ==
  LET name == GetName(Mid)
  IN  /\ pc = "probe"
      /\ left < right /\ Legible(Mid)
      /\ \/ /\ name = lib_name
            /\ i' = Mid
            /\ pc' = "back"
            /\ UNCHANGED <<left, right>>
         \/ /\ name # lib_name /\ Less(name)
            /\ right' = Mid
            /\ UNCHANGED <<left, i, pc>>
         \/ /\ name # lib_name /\ ~Less(name)
            /\ left' = Mid + 1
            /\ UNCHANGED <<right, i, pc>>
      /\ UNCHANGED <<cache, lib_name, is_descending, result>>

(* Nothing is left, or the middle has no name that can be read.            *)
NotFound ==
  /\ pc = "probe"
  /\ left < right => ~Legible(Mid)
  /\ Return(-1)

(* Back to the first entry of that name.                                   *)
Back ==
  /\ pc = "back"
  /\ \/ /\ i > 0 /\ IsNamed(i - 1)
        /\ i' = i - 1
        /\ UNCHANGED pc
     \/ /\ ~(i > 0 /\ IsNamed(i - 1))
        /\ pc' = "scan"
        /\ UNCHANGED i
  /\ UNCHANGED <<cache, lib_name, is_descending, left, right, result>>

(* Forward to the first usable one.                                        *)
Scan ==
  /\ pc = "scan"
  /\ \/ /\ i < nlibs /\ IsNamed(i) /\ Usable(i)
        /\ Return(i)
     \/ /\ i < nlibs /\ IsNamed(i) /\ ~Usable(i)
        /\ i' = i + 1
        /\ UNCHANGED <<cache, lib_name, pc, is_descending, left, right, result>>
     \/ /\ ~(i < nlibs /\ IsNamed(i))
        /\ Return(-1)

Init ==
  /\ cache \in Cache
  /\ lib_name \in Name
  /\ pc = "start"
  /\ is_descending = FALSE
  /\ left = 0 /\ right = 0 /\ i = 0
  /\ result = -1

Next == Start \/ Probe \/ NotFound \/ Back \/ Scan

Spec == Init /\ [][Next]_vars

-----------------------------------------------------------------------------
(* lookup returns the first usable entry of the name, whichever way the    *)
(* cache is sorted and wherever in a run of equal names the search lands;  *)
(* and nothing if there is no such entry.  In a cache with a name that     *)
(* cannot be read it may miss an entry, and the first of several, but what *)
(* it returns is usable and has the name.                                  *)
LookupCorrect ==
  LET match(n) == n \in 0 .. nlibs - 1 /\ IsNamed(n) /\ Usable(n)
  IN  pc = "done" =>
        \/ /\ match(result)
           /\ AllLegible(cache) => \A n \in 0 .. result - 1 : ~match(n)
        \/ /\ result = -1
           /\ AllLegible(cache) => \A n \in 0 .. nlibs - 1 : ~match(n)
=============================================================================
