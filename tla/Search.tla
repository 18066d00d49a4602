------------------------------- MODULE Search -------------------------------
(***************************************************************************)
(* The search for one library: LinkResolver::resolve_request, the          *)
(* candidates it tries, the linker scripts it follows and the lookup in    *)
(* ld.so.cache (module LdCache, whose variables this module shares).       *)
(*                                                                         *)
(* The code recurses: a name leads to candidates, a candidate may be a     *)
(* script, a script lists names.  Only the innermost list, todo, is kept:  *)
(* every list that is exhausted ends in find_lib_error, which              *)
(* should_continue_library_search does not accept, so that no outer list   *)
(* is ever resumed.                                                        *)
(*                                                                         *)
(* The file system is not under the loader's lock: files come and go       *)
(* between the stat, the open and the second stat of a candidate.          *)
(***************************************************************************)
EXTENDS LdCache, FiniteSets

CONSTANTS
  Dir, NoDir,   \* directories; a request without one is a bare name
  NoName,       \* the name of no library
  World,        \* what a search may find: see WorldType
  MaxChange     \* how often the file system changes during a search

Path == Dir \X Name
Request == (Dir \cup {NoDir}) \X Name

(* A token of a linker script.  Only a word can name a library.            *)
Token == [word : {"GROUP", "AS_NEEDED", "(", ")", "option", "word"},
          lib : Request]

(* What is at a path.  stat fails at a barred one (no access, or a file    *)
(* where a directory is expected); a sealed one cannot be opened.          *)
Absent == [kind |-> "absent", ino |-> 0, text |-> <<>>]
File == {Absent} \cup [kind : {"barred", "sealed", "elf", "script"},
                       ino : Nat, text : Seq(Token)]

RpathItem == [var : {"none", "ORIGIN", "{ORIGIN}", "other"}, dir : Dir]

WorldType ==
  [request : Request, bytes : File,      \* of dlopen or dlopen_from_binary
   rpath : Seq(RpathItem), runpath : Seq(RpathItem), origin : Dir,
   LD_LIBRARY_PATH : Seq(Dir), DEFAULT_PATH : Seq(Dir),
   LD_CACHE : Cache, cached : Dir,       \* where the cache's paths are
   names : SUBSET Name, inodes : SUBSET Nat,  \* the registered libraries
   files : [Path -> File],
   changes : SUBSET (Path \X File)]       \* what may happen to them

ASSUME SearchAssumption ==
  /\ NoDir \notin Dir
  /\ NoName \in Name
  /\ World \subseteq WorldType
  /\ IsFiniteSet(Dir) /\ IsFiniteSet(Name)
  /\ MaxChange \in Nat

VARIABLES
  world,
  fs,       \* the file system now
  changes,  \* how often it has changed
  torn,     \* it has changed at a path that was being opened
  step,     \* where the search is
  todo,     \* what is still to be tried
  bytes,    \* root_bytes
  loaded,   \* the file behind the reader
  outcome

searchVars == <<world, fs, changes, torn, step, todo, bytes, loaded, outcome>>
lookupVars == <<cache, lib_name, pc, is_descending, left, right, i, result>>

Item(kind, r) == [kind |-> kind, at |-> r]
Running == [kind |-> "running", ino |-> 0, identity |-> 0]
Existing(n) == [kind |-> "existing", ino |-> n, identity |-> 0]
Load(n, id) == [kind |-> "load", ino |-> n, identity |-> id]
Error(kind) == [kind |-> kind, ino |-> 0, identity |-> 0]

-----------------------------------------------------------------------------
(* get_linker_script_libs: the words in GROUP ( ... ) and INPUT ( ... ),   *)
(* which are one keyword here, nested AS_NEEDED ( ... ) included.          *)

(* A fault of Parse: a parenthesis that closes AS_NEEDED closes the GROUP. *)
ParseFlat(text) ==
  LET word(n) == IF n <= Len(text) THEN text[n].word ELSE "end"
      libs[n \in 1 .. Len(text) + 2] == [d \in Nat |->
        IF n > Len(text) THEN <<>>
        ELSE IF d = 0 THEN
          IF word(n) = "GROUP" /\ word(n + 1) = "(" THEN libs[n + 2][1]
          ELSE libs[n + 1][0]
        ELSE CASE word(n) = ")" -> libs[n + 1][0]
               [] word(n) = "AS_NEEDED" -> libs[n + 2][d]
               [] word(n) = "option" -> libs[n + 1][d]
               [] OTHER -> <<text[n].lib>> \o libs[n + 1][d]]
  IN  libs[1][0]

(* d counts the calls of parse_group under way.  AS_NEEDED without a       *)
(* parenthesis swallows the next token, whatever it is; any other token    *)
(* inside a group, a stray parenthesis or keyword too, counts as a name.   *)
Parse(text) ==
  LET word(n) == IF n <= Len(text) THEN text[n].word ELSE "end"
      libs[n \in 1 .. Len(text) + 2] == [d \in Nat |->
        IF n > Len(text) THEN <<>>
        ELSE IF d = 0 THEN
          IF word(n) = "GROUP" /\ word(n + 1) = "(" THEN libs[n + 2][1]
          ELSE libs[n + 1][0]
        ELSE CASE word(n) = ")" -> libs[n + 1][d - 1]
               [] word(n) = "AS_NEEDED" ->
                    libs[n + 2][IF word(n + 1) = "(" THEN d + 1 ELSE d]
               [] word(n) = "option" -> libs[n + 1][d]
               [] OTHER -> <<text[n].lib>> \o libs[n + 1][d]]
  IN  libs[1][0]

(* fixup_rpath: one unknown variable spoils the list.  ${ORIGIN} is        *)
(* accepted but stays as it is.                                            *)
FixupRpath(origin, list) ==
  IF \E n \in 1 .. Len(list) : list[n].var = "other" THEN <<>>
  ELSE [n \in 1 .. Len(list) |->
          IF list[n].var = "ORIGIN" THEN origin ELSE list[n].dir]

(* A fault of SearchDirs: DT_RPATH is used beside DT_RUNPATH.              *)
SearchDirsBoth(w) ==
  FixupRpath(w.origin, w.rpath) \o w.LD_LIBRARY_PATH
    \o FixupRpath(w.origin, w.runpath)

(* The directories that come before the cache.  DT_RPATH counts only if    *)
(* nothing is left of DT_RUNPATH.                                          *)
SearchDirs(w) ==
  LET runpath == FixupRpath(w.origin, w.runpath)
      rpath == IF runpath = <<>> THEN FixupRpath(w.origin, w.rpath) ELSE <<>>
  IN  rpath \o w.LD_LIBRARY_PATH \o runpath

(* What resolve_request tries for a bare name.                             *)
Candidates(name) ==
  LET in(dirs) == [n \in 1 .. Len(dirs) |-> Item("path", <<dirs[n], name>>)]
  IN  in(SearchDirs(world)) \o <<Item("cache", <<NoDir, name>>)>>
        \o in(world.DEFAULT_PATH)

-----------------------------------------------------------------------------
Done(o) == /\ step' = "done"
           /\ outcome' = o
           /\ todo' = <<>>
           /\ UNCHANGED <<world, fs, changes, torn, bytes, loaded>>

Try(list) == /\ step' = "next"
             /\ todo' = list
             /\ UNCHANGED <<world, fs, changes, torn, loaded, outcome>>

Goto(label) == /\ step' = label
               /\ UNCHANGED <<world, fs, changes, torn, todo, bytes, outcome>>

(* resolve_first: NotFound is the one error after which the next candidate *)
(* is tried.                                                               *)
Skip == Try(Tail(todo)) /\ UNCHANGED bytes

(* resolve_script: what a script lists is searched for without the bytes.  *)
Enter(text) ==
  /\ Try([n \in 1 .. Len(Parse(text)) |-> Item("request", Parse(text)[n])])
  /\ bytes' = Absent

Found(p) == fs[p].kind \notin {"absent", "barred"}
Readable(p) == fs[p].kind \in {"elf", "script"}
Failing(p) == fs[p].kind \in {"barred", "sealed"}

At(label, kind) == /\ step = label
                   /\ todo # <<>>
                   /\ Head(todo).kind = kind

(* resolve_request: a registered name, a path, or a name to search for.    *)
ResolveRequest ==
  LET r == Head(todo).at
  IN  /\ At("next", "request")
      /\ \/ /\ r[2] \in world.names
            /\ Done(Existing(0))
         \/ /\ r[2] \notin world.names /\ r[1] # NoDir
            /\ Try(<<Item("path", r)>> \o Tail(todo))
            /\ UNCHANGED bytes
         \/ /\ r[2] \notin world.names /\ r[1] = NoDir
            /\ Try(Candidates(r[2]))
            /\ UNCHANGED bytes
      /\ UNCHANGED lookupVars

(* A fault of ResolveExistingByPath: the inode is not looked up.           *)
ResolveByNameOnly ==
  LET p == Head(todo).at
  IN  /\ At("next", "path")
      /\ \/ fs[p].kind = "absent" /\ Skip
         \/ fs[p].kind = "barred" /\ Done(Error("failed"))
         \/ Found(p) /\ Goto("open") /\ UNCHANGED loaded
      /\ UNCHANGED lookupVars

(* resolve_candidate_path, first part: stat, and the lookup by inode.      *)
ResolveExistingByPath ==
  LET p == Head(todo).at
  IN  /\ At("next", "path")
      /\ \/ fs[p].kind = "absent" /\ Skip
         \/ fs[p].kind = "barred" /\ Done(Error("failed"))
         \/ /\ Found(p) /\ fs[p].ino \in world.inodes
            /\ Done(Existing(fs[p].ino))
         \/ /\ Found(p) /\ fs[p].ino \notin world.inodes
            /\ Goto("open") /\ UNCHANGED loaded
      /\ UNCHANGED lookupVars

(* load_candidate: the given bytes, or the first bytes of the file.        *)
LoadCandidate ==
  LET p == Head(todo).at
  IN  /\ At("open", "path")
      /\ \/ /\ bytes.kind = "elf"
            /\ Goto("reserve") /\ loaded' = bytes
         \/ bytes.kind = "script" /\ Enter(bytes.text)
         \/ /\ bytes = Absent
            /\ \/ fs[p].kind = "absent" /\ Skip
               \/ Failing(p) /\ Done(Error("failed"))
               \/ fs[p].kind = "elf" /\ Goto("map") /\ UNCHANGED loaded
               \/ fs[p].kind = "script" /\ Goto("read") /\ UNCHANGED loaded
      /\ UNCHANGED lookupVars

(* The script is opened again and read as a whole.  An image that has      *)
(* taken its place has no words that look like a GROUP.                    *)
ReadScript ==
  LET p == Head(todo).at
  IN  /\ At("read", "path")
      /\ \/ fs[p].kind = "absent" /\ Skip
         \/ Failing(p) /\ Done(Error("failed"))
         \/ fs[p].kind = "elf" /\ Enter(<<>>)
         \/ fs[p].kind = "script" /\ Enter(fs[p].text)
      /\ UNCHANGED lookupVars

(* ElfFile::from_path opens the file again.  Its errors are the loader's,  *)
(* not I/O errors: a file that has gone ends the search.                   *)
MapFile ==
  LET p == Head(todo).at
  IN  /\ At("map", "path")
      /\ \/ ~Readable(p) /\ Done(Error("failed"))
         \/ Readable(p) /\ Goto("reserve") /\ loaded' = fs[p]
      /\ UNCHANGED lookupVars

(* reserve_pending: the identity is read from the path once more; 0 stands *)
(* for a reservation without one.  The early return for a name that this   *)
(* open has reserved before is not reached: such a name is registered, and *)
(* resolve_request has stopped at it.                                      *)
Reserve ==
  LET p == Head(todo).at
  IN  /\ At("reserve", "path")
      /\ Done(Load(loaded.ino, IF Found(p) THEN fs[p].ino ELSE 0))
      /\ UNCHANGED lookupVars

(* LD_CACHE: the lookup starts ...                                         *)
BeginLookup ==
  /\ At("next", "cache")
  /\ Goto("cache") /\ UNCHANGED loaded
  /\ lib_name' = Head(todo).at[2]
  /\ pc' = "start"
  /\ UNCHANGED <<cache, is_descending, left, right, i, result>>

(* ... runs ...                                                            *)
Lookup == /\ step = "cache"
          /\ pc # "done"
          /\ Next
          /\ UNCHANGED searchVars

(* ... and gives a path, or none.                                          *)
EndLookup ==
  /\ step = "cache"
  /\ pc = "done"
  /\ \/ result = -1 /\ Skip
     \/ /\ result # -1
        /\ Try(<<Item("path", <<world.cached, lib_name>>)>> \o Tail(todo))
        /\ UNCHANGED bytes
  /\ UNCHANGED lookupVars

(* Nothing is left: find_lib_error, or the error of the only path.         *)
Exhausted == /\ step = "next"
             /\ todo = <<>>
             /\ Done(Error("missing"))
             /\ UNCHANGED lookupVars

(* External: another program creates, replaces or removes a file.          *)
Change(p, f) ==
  /\ step # "done"
  /\ changes < MaxChange
  /\ f # fs[p]
  /\ fs' = [fs EXCEPT ![p] = f]
  /\ changes' = changes + 1
  /\ torn' = (torn \/ /\ step \in {"open", "read", "map", "reserve"}
                      /\ Head(todo).at = p)
  /\ UNCHANGED <<world, step, todo, bytes, loaded, outcome>>
  /\ UNCHANGED lookupVars

Resolve ==
  \/ ResolveRequest \/ ResolveExistingByPath \/ LoadCandidate \/ ReadScript
  \/ MapFile \/ Reserve \/ BeginLookup \/ Lookup \/ EndLookup \/ Exhausted

SearchInit ==
  /\ world \in World
  /\ fs = world.files
  /\ changes = 0
  /\ torn = FALSE
  /\ step = "next"
  /\ todo = <<Item("request", world.request)>>
  /\ bytes = world.bytes
  /\ loaded = Absent
  /\ outcome = Running
  /\ cache = world.LD_CACHE
  /\ lib_name = NoName
  /\ pc = "start"
  /\ is_descending = FALSE
  /\ left = 0 /\ right = 0 /\ i = 0
  /\ result = -1

SearchNext ==
  \/ Resolve
  \/ \E c \in world.changes : Change(c[1], c[2])

(* The resolver is sequential code: it goes on.                            *)
SearchSpec ==
  /\ SearchInit
  /\ [][SearchNext]_<<searchVars, lookupVars>>
  /\ WF_<<searchVars, lookupVars>>(Resolve)

-----------------------------------------------------------------------------
(* What a search promises, for a file system F that stands still.          *)

(* The places where a library of that name is looked for, each with its    *)
(* rank: DT_RPATH unless there is a DT_RUNPATH, LD_LIBRARY_PATH,           *)
(* DT_RUNPATH, the cache, the default directories.                         *)
Places(w, name) ==
  LET ranked(rank, list) ==
        {[rank |-> rank, n |-> n, path |-> <<list[n], name>>] :
           n \in 1 .. Len(list)}
      listed == \E n \in 1 .. Len(w.LD_CACHE) :
                  w.LD_CACHE[n].name = name /\ w.LD_CACHE[n].usable
      runpath == FixupRpath(w.origin, w.runpath)
  IN  (IF runpath = <<>> THEN ranked(1, FixupRpath(w.origin, w.rpath)) ELSE {})
        \cup ranked(2, w.LD_LIBRARY_PATH)
        \cup ranked(3, runpath)
        \cup (IF listed THEN ranked(4, <<w.cached>>) ELSE {})
        \cup ranked(5, w.DEFAULT_PATH)

Before(x, y) == x.rank < y.rank \/ (x.rank = y.rank /\ x.n < y.n)

(* A request for a path where nothing is: a script's list goes on.         *)
Gone(w, F, r) == /\ r[1] # NoDir
                 /\ r[2] \notin w.names
                 /\ F[r].kind = "absent"

(* A script stands for the first of its libraries that is not a missing    *)
(* path; ans gives the answers to the requests it lists.                   *)
OfScript(w, F, libs, ans) ==
  LET hits == {n \in 1 .. Len(libs) : ~Gone(w, F, libs[n])}
  IN  IF hits = {} THEN Error("missing")
      ELSE ans[libs[CHOOSE n \in hits : \A m \in hits : n <= m]]

(* A path must exist, even one that only names the bytes b.                *)
OfPath(w, F, p, b, ans) ==
  LET f == IF b = Absent THEN F[p] ELSE b
  IN  CASE F[p].kind = "absent" -> Error("missing")
        [] F[p].kind = "barred" -> Error("failed")
        [] OTHER ->
             IF F[p].ino \in w.inodes THEN Existing(F[p].ino)
             ELSE CASE f.kind = "elf" -> Load(f.ino, F[p].ino)
                    [] f.kind = "script" -> OfScript(w, F, Parse(f.text), ans)
                    [] OTHER -> Error("failed")

(* What is at the first place where there is anything.                     *)
OfRequest(w, F, r, b, ans) ==
  LET hits == {x \in Places(w, r[2]) : F[x.path].kind # "absent"}
      first == CHOOSE x \in hits : \A y \in hits : ~Before(y, x)
  IN  IF r[2] \in w.names THEN Existing(0)
      ELSE IF r[1] # NoDir THEN OfPath(w, F, r, b, ans)
      ELSE IF hits = {} THEN Error("missing")
      ELSE OfPath(w, F, first.path, b, ans)

(* The answers that follow at most d - 1 scripts.                          *)
Answers(w, F) ==
  LET answer[d \in Nat] ==
        [r \in Request |-> IF d = 0 THEN Error("loop")
                           ELSE OfRequest(w, F, r, Absent, answer[d - 1])]
  IN  answer

(* The answer to the world's request.  Scripts that lead in a circle have  *)
(* none: a chain longer than there are requests repeats one.               *)
Answer(w, F) ==
  OfRequest(w, F, w.request, w.bytes, Answers(w, F)[Cardinality(Request)])

(* The search gives what the search order promises.  A file that comes or  *)
(* goes meanwhile is found or not found as if it had come or gone before   *)
(* or after the search, unless it is the one that is just being opened, or *)
(* the one in whose place dlopen_from_binary was given a script: nothing   *)
(* of it is read, and the script may name it again.  A cache with a name   *)
(* that cannot be read may hide its entries.  And nothing is promised for  *)
(* given bytes without a file at the path: the code stats the path first   *)
(* and fails, where examples/dlopen_from_binary.rs:16 speaks of a "virtual *)
(* path used for identification".                                          *)
FirstMatch ==
  LET promised == {Answer(world, world.files), Answer(world, fs)}
  IN  step = "done" /\ ~torn /\ AllLegible(world.LD_CACHE)
        /\ Answer(world, world.files) # Error("loop")
        /\ (fs = world.files \/ world.bytes.kind # "script")
        /\ (Error("missing") \notin promised \/ world.bytes = Absent) =>
      outcome \in promised

(* A file that is registered already is not loaded again, whichever name,  *)
(* directory, script or cache entry leads to it, and what is loaded is     *)
(* reserved under its own identity: later searches will recognise it.      *)
NotLoadedTwice ==
  step = "done" /\ outcome.kind = "load" /\ world.bytes = Absent =>
    \/ outcome.ino \notin world.inodes /\ outcome.identity = outcome.ino
    \/ torn

(* Every search returns unless scripts lead in a circle, which the code    *)
(* follows until its stack is exhausted.                                   *)
SearchReturns == [](Answer(world, fs) # Error("loop")) => <>(step = "done")

(* The shape of a script: how many parentheses are open behind token n,    *)
(* and whether one of them is that of a GROUP.                             *)
TokenWord(text, n) == IF n \in 1 .. Len(text) THEN text[n].word ELSE "end"

Depth(text, n) == Cardinality({m \in 1 .. n : text[m].word = "("})
                    - Cardinality({m \in 1 .. n : text[m].word = ")"})

InGroup(text, n) == \E m \in 2 .. n :
  /\ text[m - 1].word = "GROUP" /\ text[m].word = "(" /\ Depth(text, m) = 1
  /\ \A k \in m .. n : Depth(text, k) > 0

(* Groups, nested AS_NEEDED in groups, and statements like OUTPUT(word).   *)
WellFormed(text) ==
  /\ Depth(text, Len(text)) = 0
  /\ \A n \in 1 .. Len(text) :
       /\ Depth(text, n) >= 0
       /\ text[n].word = "GROUP" =>
            Depth(text, n) = 0 /\ TokenWord(text, n + 1) = "("
       /\ text[n].word = "AS_NEEDED" =>
            InGroup(text, n) /\ TokenWord(text, n + 1) = "("
       /\ text[n].word = "(" =>
            TokenWord(text, n - 1) \in
              IF Depth(text, n) = 1 THEN {"GROUP", "word"} ELSE {"AS_NEEDED"}

(* The words in groups, in the order of the text.                          *)
WordsAt(text) == {n \in 1 .. Len(text) : text[n].word = "word" /\ InGroup(text, n)}
Upto(text, n) == Cardinality({m \in WordsAt(text) : m <= n})
GroupWords(text) ==
  [k \in 1 .. Cardinality(WordsAt(text)) |->
     text[CHOOSE n \in WordsAt(text) : Upto(text, n) = k].lib]

(* A well-formed script yields the words in its groups, in order, however  *)
(* deep AS_NEEDED nests them, and none of any other statement.             *)
ScriptLibs ==
  \A f \in {fs[p] : p \in DOMAIN fs} \cup {bytes} :
    WellFormed(f.text) => Parse(f.text) = GroupWords(f.text)
=============================================================================
