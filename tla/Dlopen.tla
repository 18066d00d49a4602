------------------------------- MODULE Dlopen -------------------------------
(***************************************************************************)
(* dlopen and dlclose of dlopen-rs: threads that open and drop library     *)
(* handles (ElfLibrary) against the shared manager of module Registry.     *)
(*                                                                         *)
(* The manager's write lock is the variable lock.  A dlopen takes it in    *)
(* OpenContext::new and keeps it from step to step; it lets it go in       *)
(* wait_for_other_thread, while a library it needs is being loaded by      *)
(* another thread, and in prepare_relocation, while it relocates and runs  *)
(* constructors.  One action is one step of a thread between two points at *)
(* which another thread may run or the result of a lookup is decided.      *)
(*                                                                         *)
(* A path is what the code learns from it: the shortname it ends in and    *)
(* the file identity that stat gives (NoInode if there is no such file).   *)
(* The elf_loader crate (the Linker, the strong counts of images and who   *)
(* holds them) is external and modelled from how this code uses it.        *)
(***************************************************************************)
EXTENDS Registry, Sequences

CONSTANTS
  Thread,
  Handle,      \* identities for ElfLibrary handles: bounds how many exist
  NoThread, NoHandle,
  Request,     \* the opens that may be asked for
  Needed,      \* Needed[i]: the DT_NEEDED names of file i, in order
  Find,        \* Find[k]: the file the library search finds for name k
  Unreadable,  \* files that are neither ELF images nor can be mapped
  Faulty,      \* files whose relocation may fail
  Host, HostModule, HostFile, Main

ASSUME DlopenAssumption ==
  /\ NoThread \notin Thread
  /\ NoHandle \notin Handle
  /\ Request \subseteq [key : Key, ino : Inode \cup {NoInode},
                        slash : BOOLEAN, flags : SUBSET Flag]
  /\ Needed \in [Inode -> Seq(Key)]
  /\ Find \in [Key -> Inode \cup {NoInode}]
  /\ Unreadable \subseteq Inode
  /\ Faulty \subseteq Inode
  /\ Host \subseteq Key
  /\ Main \in Host
  /\ HostModule \in [Host -> Module]
  /\ HostFile \in [Host -> Inode]
  /\ \A j, k \in Host : j # k => /\ HostModule[j] # HostModule[k]
                                 /\ HostFile[j] # HostFile[k]

(* What a program has of each of these at a time can be counted.           *)
ASSUME FiniteAssumption ==
  IsFiniteSet(Thread) /\ IsFiniteSet(Handle) /\ IsFiniteSet(Module)

(* Every path that is opened or searched for: the name it ends in and the  *)
(* file it leads to.                                                       *)
NamedFiles ==
  {<<r.key, r.ino>> : r \in {r \in Request : r.ino # NoInode}}
    \cup {<<k, Find[k]>> : k \in {k \in Key : Find[k] # NoInode}}
    \cup {<<k, HostFile[k]>> : k \in Host}

(* No two files in different directories share a shortname.                *)
OneFilePerName ==
  \A p, q \in NamedFiles : p[1] = q[1] => p[2] = q[2]

VARIABLES
  lock,     \* the thread that holds the write lock of MANAGER
  mgr,      \* the manager
  image,    \* image[m]: what a library image is and which images it retains
  handle,   \* the handles that exist
  pc,       \* where each thread is
  req,      \* the dlopen each thread is executing (OpenShared)
  work,     \* the names its linker still has to resolve, with their owners
  root,     \* the canonical name its root request was resolved to
  added,    \* OpenContext.added_names, with the file behind each name
  deps,     \* the direct dependencies resolved for each added name
  scope,    \* the images in the relocation scope its linker holds
  bound,    \* the committed images its new images are bound to
  dropping  \* the handle each thread is dropping

vars == <<lock, mgr, image, handle, pc, req, work, root, added, deps, scope,
          bound, dropping>>

NoRequest == [key |-> NoKey, ino |-> NoInode, slash |-> FALSE, flags |-> {}]
ImageState == [key : Key \cup {NoKey}, file : Inode \cup {NoInode},
               retains : SUBSET Module]
NoImage == [key |-> NoKey, file |-> NoInode, retains |-> {}]

(* ElfLibrary: inner, and the shared deps list.  A clone shares the list   *)
(* of its original: list names it.  open turns FALSE when drop begins.     *)
HandleState == [inner : Module, list : Handle, deps : SUBSET Module,
                open : BOOLEAN]
ClosedHandle == [inner |-> NoModule, list |-> NoHandle, deps |-> {},
                 open |-> FALSE]

PC == {"idle", "existing_name", "existing_inode", "resolve_name", "await_name",
       "resolve_path", "relocate", "merge", "rollback", "dropping"}

Work == [owner : Key \cup {NoKey}, name : Key, ino : Inode \cup {NoInode}]

(* A thread that has no dlopen under way, or is past its last lookup.      *)
NoWork == [k \in Key |-> NoInode]
NoDeps == [k \in Key |-> {}]

-----------------------------------------------------------------------------
(* Reference counts of images (elf_loader's CoreRef::strong_count).        *)

Exists(h) == handle[h] # ClosedHandle

Images(m) == ImagesOf(m, Key)

(* External: an image lives while the registry, a handle, a linker or a    *)
(* live image that was relocated against it holds a reference.             *)
LiveIn(m, hs, refs, im) ==
  Reach(Images(m) \cup refs
          \cup UNION {{hs[h].inner} \cup hs[h].deps :
                        h \in {h \in Handle : hs[h] # ClosedHandle}},
        [x \in Module |-> im[x].retains])

LinkerRefs == UNION {scope[t] \cup bound[t] : t \in Thread}

Live == LiveIn(mgr, handle, LinkerRefs, image)

(* link_ctx, global, the handles, the distinct deps lists, the images that *)
(* were relocated against x, and the linkers under way.                    *)
StrongCount(x) ==
  LET k == image[x].key
  IN    Cardinality({j \in {k} : mgr.link_ctx[j] = x})
      + Cardinality({j \in {k} : mgr.link_ctx[j] = x /\ j \in mgr.global})
      + Cardinality({h \in Handle : handle[h].inner = x})
      + Cardinality({handle[h].list :
                       h \in {h \in Handle : x \in handle[h].deps}})
      + Cardinality({y \in Live : x \in image[y].retains})
      + Cardinality({t \in Thread : x \in scope[t]})
      + Cardinality({t \in Thread : x \in bound[t]})

-----------------------------------------------------------------------------
(* What the steps of dlopen share.                                         *)

AddedNames(t) == {k \in Key : added[t][k] # NoInode}

CanLock(t) == lock \in {NoThread, t}

Opening(t) == pc[t] \notin {"idle", "dropping"}

(* Identities that are neither a handle nor name the list of one.  Every   *)
(* dlopen under way ends with at most one handle.                          *)
FreeHandles == {h \in Handle : ~Exists(h)
                               /\ \A g \in Handle : handle[g].list # h}
FreeHandle == CHOOSE h \in FreeHandles : TRUE
HandleBound == Cardinality(FreeHandles)
                 > Cardinality({t \in Thread : Opening(t)})

(* A fault of Wait: the lock is kept while the thread waits.               *)
WaitLocked(t, label) == /\ lock = t
                        /\ pc' = [pc EXCEPT ![t] = label]
                        /\ UNCHANGED <<lock, mgr, image, handle, req, work, root,
                                       added, deps, scope, bound, dropping>>

(* Another thread has reserved the library: wait_for_other_thread lets the *)
(* lock go.  await_registered looks again at the label; spinning until the *)
(* entry changes is stuttering.                                            *)
Wait(t, label) == /\ lock = t
                  /\ lock' = NoThread
                  /\ pc' = [pc EXCEPT ![t] = label]
                  /\ UNCHANGED <<mgr, image, handle, req, work, root, added,
                                 deps, scope, bound, dropping>>

(* The OpenContext, the linker and its link context are gone.              *)
Leave(t) == /\ lock' = NoThread
            /\ pc' = [pc EXCEPT ![t] = "idle"]
            /\ req' = [req EXCEPT ![t] = NoRequest]
            /\ work' = [work EXCEPT ![t] = <<>>]
            /\ root' = [root EXCEPT ![t] = NoKey]
            /\ added' = [added EXCEPT ![t] = NoWork]
            /\ deps' = [deps EXCEPT ![t] = NoDeps]
            /\ scope' = [scope EXCEPT ![t] = {}]
            /\ bound' = [bound EXCEPT ![t] = {}]
            /\ UNCHANGED dropping

Goto(t, label) == /\ lock' = t
                  /\ pc' = [pc EXCEPT ![t] = label]
                  /\ UNCHANGED <<image, handle, req, scope, bound, dropping>>

NewHandle(m, k) ==
  handle' = [handle EXCEPT ![FreeHandle] =
               [inner |-> m.link_ctx[k], list |-> FreeHandle,
                deps |-> LibraryScope(m, k), open |-> TRUE]]

(* A fault of FinishExisting: the flags are not promoted.                  *)
FinishUnpromoted(t, m, c) ==
  /\ mgr' = m
  /\ NewHandle(m, c)
  /\ Leave(t)
  /\ UNCHANGED image

(* finish_existing: open_existing promotes the flags and hands out a       *)
(* handle on the committed library c.                                      *)
FinishExisting(t, m, c) ==
  LET promoted == Promote(m, c, req[t].flags)
  IN  /\ mgr' = promoted
      /\ NewHandle(promoted, c)
      /\ Leave(t)
      /\ UNCHANGED image

-----------------------------------------------------------------------------
(* dlopen, before anything is loaded: try_existing.                        *)

(* dlopen_impl, OpenContext::new.                                          *)
Begin(t, r) ==
  /\ pc[t] = "idle"
  /\ HandleBound
  /\ lock = NoThread
  /\ lock' = t
  /\ pc' = [pc EXCEPT ![t] = "existing_name"]
  /\ req' = [req EXCEPT ![t] = r]
  /\ UNCHANGED <<mgr, image, handle, work, root, added, deps, scope, bound,
                 dropping>>

(* A fault of ExistingByName: a library that another thread is still       *)
(* loading is returned at once.                                            *)
ExistingUnawaited(t) ==
  LET c == Lookup(mgr, req[t].key)
  IN  /\ pc[t] = "existing_name"
      /\ CanLock(t)
      /\ \/ /\ c = NoKey
            /\ Goto(t, "existing_inode")
            /\ UNCHANGED <<mgr, work, root, added, deps>>
         \/ /\ c # NoKey
            /\ FinishExisting(t, mgr, c)

(* wait_for_library on the shortname of the request.                       *)
ExistingByName(t) ==
  LET c == Lookup(mgr, req[t].key)
  IN  /\ pc[t] = "existing_name"
      /\ CanLock(t)
      /\ \/ /\ c = NoKey
            /\ Goto(t, "existing_inode")
            /\ UNCHANGED <<mgr, work, root, added, deps>>
         \/ /\ c # NoKey /\ Committed(mgr, c)
            /\ FinishExisting(t, mgr, c)
         \/ /\ c # NoKey /\ ~Committed(mgr, c)
            /\ Wait(t, "existing_name")

(* try_existing has missed: RTLD_NOLOAD fails, otherwise link_root starts  *)
(* with the root request.                                                  *)
LinkRoot(t) ==
  LET r == req[t]
      file == IF r.slash THEN r.ino ELSE Find[r.key]
  IN  /\ IF "NOLOAD" \in r.flags
         THEN Goto(t, "rollback") /\ UNCHANGED work
         ELSE Goto(t, "resolve_name")
              /\ work' = [work EXCEPT ![t] =
                   <<[owner |-> NoKey, name |-> r.key, ino |-> file]>>]
      /\ UNCHANGED <<mgr, root, added, deps>>

(* inode_fallback on the request, a bare name being taken relative to the  *)
(* working directory.  A failing stat is an error for a path and a miss    *)
(* for a bare name.                                                        *)
ExistingByInode(t) ==
  LET r == req[t]
      c == LookupByIdentity(mgr, r.ino)
  IN  /\ pc[t] = "existing_inode"
      /\ CanLock(t)
      /\ \/ /\ r.ino = NoInode /\ ~r.slash
            /\ LinkRoot(t)
         \/ /\ r.ino = NoInode /\ r.slash
            /\ Goto(t, "rollback")
            /\ UNCHANGED <<mgr, work, root, added, deps>>
         \/ /\ r.ino # NoInode
            /\ \/ /\ c = NoKey
                  /\ LinkRoot(t)
               \/ /\ c # NoKey /\ Committed(mgr, c)
                  /\ FinishExisting(t, AddAlias(mgr, c, r.key), c)
               \/ /\ c # NoKey /\ ~Committed(mgr, c)
                  /\ Wait(t, "existing_inode")

-----------------------------------------------------------------------------
(* dlopen, the linker's requests: LinkResolver.                            *)

(* ResolvedKey: the name w is bound to the key k, and loading it has left  *)
(* more names to resolve.                                                  *)
Resolved(t, w, k, more) ==
  /\ work' = [work EXCEPT ![t] = Tail(@) \o more]
  /\ root' = IF w.owner = NoKey THEN [root EXCEPT ![t] = k] ELSE root
  /\ deps' = IF w.owner = NoKey THEN deps
             ELSE [deps EXCEPT ![t][w.owner] = @ \cup {k}]

(* The names that the file i, loaded as k, asks for (resolve_dependency).  *)
NeededWork(k, i) ==
  [n \in 1 .. Len(Needed[i]) |->
     [owner |-> k, name |-> Needed[i][n], ino |-> Find[Needed[i][n]]]]

(* resolve_existing_by_name, and the search that follows a miss.  A        *)
(* dependency that the session or the registry already shows under this    *)
(* name is taken under this very name, be it a key or an alias.  After a   *)
(* wait (await_name) only the lookup is made again, not this test: what is *)
(* found then is taken under its canonical name.                           *)
ResolveByName(t) ==
  LET w == Head(work[t])
      c == Lookup(mgr, w.name)
      visible == /\ pc[t] = "resolve_name"
                 /\ w.owner # NoKey
                 /\ w.name \in AddedNames(t) \/ VisibleContains(mgr, w.name)
  IN  /\ pc[t] \in {"resolve_name", "await_name"}
      /\ CanLock(t)
      /\ work[t] # <<>>
      /\ \/ /\ visible
            /\ Resolved(t, w, w.name, <<>>)
            /\ Goto(t, "resolve_name")
            /\ UNCHANGED <<mgr, added>>
         \/ /\ ~visible /\ c # NoKey
            /\ Committed(mgr, c) \/ c \in AddedNames(t)
            /\ Resolved(t, w, c, <<>>)
            /\ Goto(t, "resolve_name")
            /\ UNCHANGED <<mgr, added>>
         \/ /\ ~visible /\ c # NoKey
            /\ ~Committed(mgr, c) /\ c \notin AddedNames(t)
            /\ Wait(t, "await_name")
         \/ /\ ~visible /\ c = NoKey
            /\ Goto(t, IF w.ino = NoInode THEN "rollback" ELSE "resolve_path")
            /\ UNCHANGED <<mgr, work, root, added, deps>>

(* resolve_candidate_path: inode_fallback, else load the file and reserve  *)
(* its shortname (LinkResolver::reserve_pending).                          *)
ResolveByPath(t) ==
  LET w == Head(work[t])
      c == LookupByIdentity(mgr, w.ino)
  IN  /\ pc[t] = "resolve_path"
      /\ CanLock(t)
      /\ \/ /\ c # NoKey
            /\ Committed(mgr, c) \/ c \in AddedNames(t)
            /\ mgr' = AddAlias(mgr, c, w.name)
            /\ Resolved(t, w, c, <<>>)
            /\ Goto(t, "resolve_name")
            /\ UNCHANGED added
         \/ /\ c # NoKey
            /\ ~Committed(mgr, c) /\ c \notin AddedNames(t)
            /\ Wait(t, "resolve_path")
         \/ /\ c = NoKey /\ w.ino \in Unreadable
            /\ Goto(t, "rollback")
            /\ UNCHANGED <<mgr, work, root, added, deps>>
         \/ /\ c = NoKey /\ w.ino \notin Unreadable
            /\ IF w.name \in AddedNames(t) THEN UNCHANGED <<mgr, added>>
               ELSE /\ mgr' = ReservePending(mgr, w.name, w.ino, req[t].flags)
                    /\ added' = [added EXCEPT ![t][w.name] = w.ino]
            /\ Resolved(t, w, w.name, NeededWork(w.name, w.ino))
            /\ Goto(t, "resolve_name")

-----------------------------------------------------------------------------
(* dlopen, relocation and commit.                                          *)

(* The keys outside the group that the added libraries were bound to.      *)
Existing(t) ==
  LET resolved == UNION {deps[t][k] : k \in AddedNames(t)}
  IN  {Lookup(mgr, d) : d \in resolved \ AddedNames(t)}

(* Of those, the ones for which visible_loaded has no image: what was      *)
(* found earlier has left the registry since, and may be reserved anew.    *)
Missing(t) == {c \in Existing(t) : c = NoKey \/ ~Committed(mgr, c)}

(* DlopenPlanner::plan, first call: prepare_relocation builds the scope    *)
(* from the global libraries and the group and lets the lock go.  Without  *)
(* a new library there is nothing to relocate.  External: a name without   *)
(* an image is a link error.                                               *)
PrepareRelocation(t) ==
  LET edge == [k \in Key |-> {Lookup(mgr, d) : d \in mgr.direct[k]} \ {NoKey}]
      keys == Reach(Existing(t), edge) \cup mgr.global
  IN  /\ pc[t] = "resolve_name"
      /\ lock = t
      /\ work[t] = <<>>
      /\ \/ /\ AddedNames(t) = {}
            /\ pc' = [pc EXCEPT ![t] = "merge"]
            /\ UNCHANGED <<lock, scope, bound>>
         \/ /\ AddedNames(t) # {} /\ Missing(t) # {}
            /\ pc' = [pc EXCEPT ![t] = "rollback"]
            /\ UNCHANGED <<lock, scope, bound>>
         \/ /\ AddedNames(t) # {} /\ Missing(t) = {}
            /\ pc' = [pc EXCEPT ![t] = "relocate"]
            /\ scope' = [scope EXCEPT ![t] = ImagesOf(mgr, keys)]
            /\ bound' = [bound EXCEPT ![t] = ImagesOf(mgr, Existing(t))]
            /\ lock' = NoThread
      /\ UNCHANGED <<mgr, image, handle, req, work, root, added, deps,
                     dropping>>

(* External: relocation and constructors, without the lock.  The linker is *)
(* dropped; the new images keep the images they were bound to.             *)
Relocate(t) ==
  /\ pc[t] = "relocate"
  /\ \/ /\ pc' = [pc EXCEPT ![t] = "merge"]
        /\ UNCHANGED bound
     \/ /\ \E k \in AddedNames(t) : added[t][k] \in Faulty
        /\ pc' = [pc EXCEPT ![t] = "rollback"]
        /\ bound' = [bound EXCEPT ![t] = {}]
  /\ scope' = [scope EXCEPT ![t] = {}]
  /\ UNCHANGED <<lock, mgr, image, handle, req, work, root, added, deps,
                 dropping>>

(* complete_relocation, library_scope and finish.                          *)
Merge(t) ==
  LET S == AddedNames(t)
      free == Module \ Live
      fresh == {f \in [S -> free] : \A j, k \in S : j # k => f[j] # f[k]}
      new == CHOOSE f \in fresh : TRUE
      merged == MergeLinkContext(mgr, S, new, added[t], deps[t], req[t].flags)
      key(x) == CHOOSE k \in S : new[k] = x
      against(k) == ImagesOf(merged, {Lookup(merged, d) : d \in deps[t][k]})
  IN  /\ pc[t] = "merge"
      /\ CanLock(t)
      /\ fresh # {}
      /\ mgr' = merged
      /\ image' = [x \in Module |->
                     IF \E k \in S : new[k] = x
                     THEN [key |-> key(x), file |-> added[t][key(x)],
                           retains |-> against(key(x))]
                     ELSE image[x]]
      /\ NewHandle(merged, root[t])
      /\ Leave(t)

(* Faults of Rollback: nothing is removed; the removals are not counted.   *)
RollbackNothing(t) ==
  /\ pc[t] = "rollback"
  /\ CanLock(t)
  /\ Leave(t)
  /\ UNCHANGED <<mgr, image, handle>>

RollbackUncounted(t) ==
  /\ pc[t] = "rollback"
  /\ CanLock(t)
  /\ mgr' = [RemoveAll(mgr, AddedNames(t)) EXCEPT !.subs = mgr.subs]
  /\ Leave(t)
  /\ UNCHANGED <<image, handle>>

(* Drop for OpenContext without commit: remove_added_libraries.            *)
Rollback(t) ==
  /\ pc[t] = "rollback"
  /\ CanLock(t)
  /\ mgr' = RemoveAll(mgr, AddedNames(t))
  /\ Leave(t)
  /\ UNCHANGED <<image, handle>>

-----------------------------------------------------------------------------
(* Handles: ElfLibrary::this, Clone and Drop (dlclose).                    *)

(* A handle on a committed library, taken under a read lock.               *)
HandleOn(t, k) ==
  /\ pc[t] = "idle"
  /\ HandleBound
  /\ lock = NoThread
  /\ Committed(mgr, k)
  /\ NewHandle(mgr, k)
  /\ UNCHANGED <<lock, mgr, image, pc, req, work, root, added, deps, scope,
                 bound, dropping>>

(* ElfLibrary::this.                                                       *)
This(t) == HandleOn(t, Main)

(* addr2dso, for dladdr, _dl_find_object and _dl_find_dso_for_object: a    *)
(* handle on the library that an address is in, be it one that nobody has  *)
(* opened.  The C functions drop the handle before they return.            *)
Addr2dso(t, k) == HandleOn(t, k)

Clone(t, h) ==
  /\ pc[t] = "idle"
  /\ HandleBound
  /\ Exists(h) /\ handle[h].open
  /\ handle' = [handle EXCEPT ![FreeHandle] = handle[h]]
  /\ UNCHANGED <<lock, mgr, image, pc, req, work, root, added, deps, scope,
                 bound, dropping>>

(* Faults of Unloads: the reference count is not looked at; it is compared *)
(* with a number that another handle reaches.                              *)
UnloadsAnyCount(x) ==
  LET k == image[x].key
  IN  Found(mgr, k) /\ "NODELETE" \notin FlagsOf(mgr, k)

UnloadsEarly(x) ==
  LET k == image[x].key
  IN  /\ Found(mgr, k)
      /\ "NODELETE" \notin FlagsOf(mgr, k)
      /\ StrongCount(x) <= 4 + Cardinality(FlagsOf(mgr, k) \cap {"GLOBAL"})

(* Is a library unloaded by the drop of a handle that leads to it?         *)
Unloads(x) ==
  LET k == image[x].key
  IN  /\ Found(mgr, k)
      /\ "NODELETE" \notin FlagsOf(mgr, k)
      /\ StrongCount(x) = 3 + Cardinality(FlagsOf(mgr, k) \cap {"GLOBAL"})

(* A fault of Unloaded: the dependencies are never looked at.              *)
UnloadedRoot(lib) == {x \in {lib.inner} : Unloads(x)}

(* What the drop of a handle unloads: its root, and if that goes, what it  *)
(* can of the rest of the deps list.                                       *)
Unloaded(lib) ==
  IF Unloads(lib.inner)
  THEN {lib.inner} \cup {x \in lib.deps \ {lib.inner} : Unloads(x)}
  ELSE {}

(* A fault of Drop: what it unloads is not counted.                        *)
DropUncounted(t, h) ==
  /\ pc[t] = "idle"
  /\ lock = NoThread
  /\ Exists(h) /\ handle[h].open
  /\ mgr' = [RemoveAll(mgr, {image[x].key : x \in Unloaded(handle[h])})
               EXCEPT !.subs = mgr.subs]
  /\ handle' = [handle EXCEPT ![h].open = FALSE]
  /\ dropping' = [dropping EXCEPT ![t] = h]
  /\ pc' = [pc EXCEPT ![t] = "dropping"]
  /\ UNCHANGED <<lock, image, req, work, root, added, deps, scope, bound>>

(* Drop for ElfLibrary, the part under the lock.                           *)
Drop(t, h) ==
  LET lib == handle[h]
  IN  /\ pc[t] = "idle"
      /\ lock = NoThread
      /\ Exists(h) /\ lib.open
      /\ mgr' = RemoveAll(mgr, {image[x].key : x \in Unloaded(lib)})
      /\ handle' = [handle EXCEPT ![h].open = FALSE]
      /\ dropping' = [dropping EXCEPT ![t] = h]
      /\ pc' = [pc EXCEPT ![t] = "dropping"]
      /\ UNCHANGED <<lock, image, req, work, root, added, deps, scope, bound>>

(* The rest of the drop, without the lock: finalize for the removed        *)
(* libraries, then the fields inner and deps.  Images nobody refers to any *)
(* more are unmapped.                                                      *)
DropFields(t) ==
  LET left == [handle EXCEPT ![dropping[t]] = ClosedHandle]
  IN  /\ pc[t] = "dropping"
      /\ handle' = left
      /\ image' = [x \in Module |->
                     IF x \in LiveIn(mgr, left, LinkerRefs, image)
                     THEN image[x] ELSE NoImage]
      /\ dropping' = [dropping EXCEPT ![t] = NoHandle]
      /\ pc' = [pc EXCEPT ![t] = "idle"]
      /\ UNCHANGED <<lock, mgr, req, work, root, added, deps, scope, bound>>

-----------------------------------------------------------------------------
Init ==
  /\ lock = NoThread
  /\ mgr = HostRegistry(Host, HostModule)
  /\ image = [x \in Module |->
       IF \E k \in Host : HostModule[k] = x
       THEN LET k == CHOOSE k \in Host : HostModule[k] = x
            IN  [key |-> k, file |-> HostFile[k], retains |-> {}]
       ELSE NoImage]
  /\ handle = [h \in Handle |-> ClosedHandle]
  /\ pc = [t \in Thread |-> "idle"]
  /\ req = [t \in Thread |-> NoRequest]
  /\ work = [t \in Thread |-> <<>>]
  /\ root = [t \in Thread |-> NoKey]
  /\ added = [t \in Thread |-> NoWork]
  /\ deps = [t \in Thread |-> NoDeps]
  /\ scope = [t \in Thread |-> {}]
  /\ bound = [t \in Thread |-> {}]
  /\ dropping = [t \in Thread |-> NoHandle]

(* The steps that finish what a thread has begun.                          *)
Step(t) ==
  \/ ExistingByName(t)
  \/ ExistingByInode(t)
  \/ ResolveByName(t)
  \/ ResolveByPath(t)
  \/ PrepareRelocation(t)
  \/ Relocate(t)
  \/ Merge(t)
  \/ Rollback(t)
  \/ DropFields(t)

Next ==
  \E t \in Thread :
    \/ Step(t)
    \/ \E r \in Request : Begin(t, r)
    \/ This(t)
    \/ \E k \in Key : Addr2dso(t, k)
    \/ \E h \in Handle : Clone(t, h) \/ Drop(t, h)

Spec == Init /\ [][Next]_vars

(* Every thread is scheduled, and none loses the race for the spin lock,   *)
(* or for a change of the entry it spins on, for ever.                     *)
Fairness == \A t \in Thread : SF_vars(Step(t))

FairSpec == Spec /\ Fairness

-----------------------------------------------------------------------------
(* Properties.                                                             *)

(* The manager, the images, the handles and what each dlopen under way     *)
(* keeps have the types of the code's structures.                          *)
TypeOK ==
  /\ lock \in Thread \cup {NoThread}
  /\ mgr \in Manager
  /\ image \in [Module -> ImageState]
  /\ handle \in [Handle -> HandleState \cup {ClosedHandle}]
  /\ pc \in [Thread -> PC]
  /\ req \in [Thread -> Request \cup {NoRequest}]
  /\ work \in [Thread -> Seq(Work)]
  /\ root \in [Thread -> Key \cup {NoKey}]
  /\ added \in [Thread -> [Key -> Inode \cup {NoInode}]]
  /\ deps \in [Thread -> [Key -> SUBSET Key]]
  /\ scope \in [Thread -> SUBSET Module]
  /\ bound \in [Thread -> SUBSET Module]
  /\ dropping \in [Thread -> Handle \cup {NoHandle}]

(* A reservation belongs to exactly one dlopen that is under way, the one  *)
(* that will commit it or roll it back (OpenContext.added_names): nothing  *)
(* stays pending for ever, and no dlopen removes what another reserved.    *)
PendingOwned ==
  /\ \A k \in mgr.pending : \E t \in Thread : k \in AddedNames(t)
  /\ \A t \in Thread : /\ AddedNames(t) \subseteq mgr.pending
                       /\ AddedNames(t) # {} => Opening(t)
  /\ \A t, u \in Thread : t # u => AddedNames(t) \cap AddedNames(u) = {}

(* A file that this loader has mapped, or is about to map, is registered   *)
(* under one name only, whatever paths lead to it and whichever threads    *)
(* open them (inode_fallback).  A host library has no identity to be       *)
(* recognised by: its file may be loaded again under another name.         *)
OneEntryPerFile ==
  LET entry == {<<k, image[mgr.link_ctx[k]].file>> :
                  k \in {k \in Key \ Host : Committed(mgr, k)}}
               \cup UNION {{<<k, added[t][k]>> : k \in AddedNames(t)} :
                             t \in Thread}
  IN  \A e, f \in entry : e[2] = f[2] => e[1] = f[1]

(* Every alias and every identity leads to a registered library, and that  *)
(* library lists the alias, so that remove takes it away with the library. *)
NamesResolve ==
  /\ \A a \in Key : LET c == mgr.aliases[a]
                    IN  c # NoKey =>
                          /\ Registered(mgr, c)
                          /\ a \in mgr.pnames[c] \cup mgr.libnames[c]
  /\ \A i \in Inode : mgr.identities[i] # NoKey =>
                        Registered(mgr, mgr.identities[i])

(* The global scope is the committed libraries that have RTLD_GLOBAL: what *)
(* Manager::remove asserts and the thresholds of Drop rely on.             *)
GlobalScope ==
  mgr.global = {k \in Key : Committed(mgr, k) /\ "GLOBAL" \in mgr.flags[k]}

(* While a handle is open, its library and every library of its deps list  *)
(* stay registered, whatever is closed around it.                          *)
HandlesResident ==
  \A h \in Handle : handle[h].open =>
    {handle[h].inner} \cup handle[h].deps \subseteq Images(mgr)

(* A registered library never outlives the libraries it was relocated      *)
(* against: they are not removed, and not finalized, before it is.  The    *)
(* same holds for the libraries a dlopen has bound its new images to.      *)
DepsResident ==
  /\ \A x \in Images(mgr) : image[x].retains \subseteq Images(mgr)
  /\ \A t \in Thread : bound[t] \subseteq Images(mgr)

(* dlpi_adds minus dlpi_subs is the number of registered libraries.        *)
CountersBalance ==
  mgr.adds = Count(mgr.subs + Cardinality({k \in Key : Registered(mgr, k)}))

(* The asserted precondition of add_pending_reservation: a name is         *)
(* reserved only while nobody has registered it.                           *)
NeverAlreadyRegistered == "already registered" \notin mgr.failed

(* The files that are registered under a name.                             *)
FilesOf(k) ==
  {image[mgr.link_ctx[j]].file : j \in {j \in {k} : Committed(mgr, j)}}
    \cup {added[t][k] : t \in {t \in Thread : k \in AddedNames(t)}}

(* A thread is about to load a file under a name that another file has     *)
(* been given: it has looked the name up before it waited for the file.    *)
ClashesWithOther(t) ==
  LET w == Head(work[t])
  IN  /\ pc[t] = "resolve_path"
      /\ Registered(mgr, w.name)
      /\ FilesOf(w.name) # {} /\ w.ino \notin FilesOf(w.name)

(* What a violation of NeverAlreadyRegistered takes: two files that share  *)
(* a shortname.  That the lock is let go between the lookup of a name and  *)
(* its reservation is harmless otherwise.                                  *)
OnlyOtherFilesClash ==
  [][~NeverAlreadyRegistered' /\ NeverAlreadyRegistered =>
       \E t \in Thread : ClashesWithOther(t)]_vars

(* remove finds what it is asked to remove, and finds it consistent.       *)
RemoveConsistent ==
  mgr.failed \cap {"not registered", "inconsistent global scope"} = {}

(* When every handle has been dropped and every drop has returned, only    *)
(* libraries that are RTLD_NODELETE, and what they depend on, are left.    *)
Reclaimed ==
  (\A t \in Thread : pc[t] = "idle") /\ (\A h \in Handle : ~Exists(h))
    => Images(mgr) \subseteq
         Reach({x \in Images(mgr) : "NODELETE" \in mgr.flags[image[x].key]},
               [x \in Module |-> image[x].retains])

(* The library that a dlopen returns has the RTLD_GLOBAL and RTLD_NODELETE *)
(* that were asked for, be it loaded by this open, found, or awaited while *)
(* another thread loaded it with weaker flags.  It may lack them only if a *)
(* bare name that is not registered leads the library search to a file     *)
(* that is: what link_root finds in this way is not promoted.              *)
FlagsHonoured ==
  [][\A t \in Thread, h \in Handle :
       /\ Opening(t) /\ pc'[t] = "idle"
       /\ handle[h] = ClosedHandle /\ handle'[h] # ClosedHandle
       => LET k == image'[handle'[h].inner].key
          IN  \/ req[t].flags \ {"NOLOAD"} \subseteq mgr'.flags[k]
              \/ /\ ~req[t].slash
                 /\ root[t] \in Key \ AddedNames(t)]_vars

(* Two walks of dl_iterate_phdr that report the same dlpi_adds and         *)
(* dlpi_subs: nothing has been unloaded in between, and what the second    *)
(* lists beyond the first was reserved, and counted, already.              *)
VersionedListing ==
  [][LET committed(m) == {k \in Key : Committed(m, k)}
     IN  mgr'.adds = mgr.adds /\ mgr'.subs = mgr.subs =>
           /\ committed(mgr) \subseteq committed(mgr')
           /\ committed(mgr') \ committed(mgr) \subseteq mgr.pending]_vars

(* Every dlopen and every drop returns.                                    *)
Returns == \A t \in Thread : pc[t] # "idle" ~> pc[t] = "idle"
=============================================================================
