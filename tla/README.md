# TLA+ models of dlopen-rs

dlopen-rs is a dynamic linker in Rust: a `dlopen`/`dlsym`/`dlclose` of its own that runs beside
the host's linker or, as the `rtld` artifact, replaces `ld-linux-x86-64.so.2` altogether. This
directory holds TLA+ models of it, the TLC configurations that check them on small instances, and
proofs that TLAPS checks for every value of the constants. Paths below are relative to the
repository; `register.rs`, `dlopen.rs`, ... are under `src/core_impl/` and `src/api/`.

## The system

| Part | State | Operations | Shared with |
|---|---|---|---|
| Library manager (`register.rs`, `Manager`) | committed libraries (`link_ctx`), reservations (`pending`), global scope, aliases, file identities, `dlpi_adds`/`dlpi_subs`; one readers-writer spin lock `MANAGER` | look up by name and by inode, reserve, commit (`merge_link_context`), remove, promote flags, aliases | everything |
| dlopen (`dlopen.rs`, `loader.rs`) | per call: `OpenContext` (lock guard, `added_names`, committed or not), the linker's work list | find existing, wait for another thread, resolve, reserve, relocate without the lock, commit or roll back | manager, elf_loader, debugger list |
| Handles (`ElfLibrary`) | `inner`, shared `deps` list, strong counts | `this`, clone, drop (= dlclose): unload what only this handle keeps | manager, destructors |
| Destructors (`__cxa_atexit`, `__cxa_finalize`) | `DESTRUCTORS` under a lock | register, take out under the lock, call without it | handle drops, exit |
| Debugger interface (`utils/debug.rs`) | `r_debug`, a doubly linked list of link maps, cached tail | add, unlink, take over the host's list | host linker, loader |
| `ld.so.cache` (`utils/ld_cache.rs`) | the mapped file | recognise the format, binary search | library search |
| Library search, linker scripts (`dlopen.rs`, `linker_script.rs`) | rpath, runpath, environment, default directories | path candidates for a name | dlopen |
| dlsym, symbol scopes (`dlsym.rs`, `loader.rs`) | none of its own | `RTLD_DEFAULT`, `RTLD_NEXT`, handle scopes | manager |
| Read side (`dl_iterate_phdr.rs`, `dladdr.rs`, `dl_find_object.rs`) | none of its own | walk or search the registered libraries under the read lock | manager |
| Host initialisation (`host_init.rs`) | once | registers what the host linker has loaded | manager, debugger list |
| rtld bootstrap (`rtld/impl/src/bootstrap.rs`, `cli.rs`, `src/rtld.rs`) | the initial stack | self-relocation, options, rewriting of the stack, auxiliary vector, start of the program | dlopen |
| Static TLS (`src/rtld.rs`, `mod tls`) | space used below the thread pointer, modules, allocations | place a module, size, initialise and free a thread's storage | loader, libc |
| glibc structures, OS layer, build | layouts, system calls | | |

What is hard: a dlopen holds reservations while the lock is released (during a wait, and while it
relocates and runs constructors), so every lookup it has made may be out of date; a failed open
must take back exactly what it registered; a candidate file is looked at three times while other
programs may replace it; a callback runs under a lock that what it calls may want; unloading is decided by comparing a strong count with a
number, while other threads clone, drop and link; destructors are taken under a lock and called
without it; freed link maps' addresses are used again; the stack is moved over itself; table
decoding and binary search have boundaries. `PROJECT.json` lists each hazard at its line, with the
properties that would catch it.

## Modules

| Module | Models | State and actions |
|---|---|---|
| `Registry` | `Manager` and its methods | operators from a manager (a record) to a manager: `Lookup`, `LookupByIdentity`, `AddAlias(es)`, `ReservePending`, `RemoveAll`, `Promote`, `MergeLinkContext`, `LibraryScope`, `HostRegistry`. A failed `debug_assert!` or panic is recorded in `failed`, but for the two that no caller can fail (of `add_alias`, whose canonical name was looked up or reserved under the same lock, and the last one of `merge_link_context`). |
| `Dlopen` | `dlopen_impl`, `OpenContext`, `LinkResolver`, `DlopenPlanner`, `Drop`/`Clone`/`this` of `ElfLibrary` | threads with a program counter against one manager and one lock. One action runs from one point at which another thread may intervene, or a lookup is decided, to the next: `Begin`, `ExistingByName`, `ExistingByInode`, `ResolveByName`, `ResolveByPath`, `PrepareRelocation`, `Relocate`, `Merge`, `Rollback`, `This`, `Addr2dso`, `Clone`, `Drop`, `DropFields`. |
| `MCDlopen` | | small worlds: names, files, what they need, which opens may be asked for |
| `DlopenProofs` | | proofs about `Dlopen`: types, reservations, one name per file |
| `Destructors` (`MCDestructors`, `DestructorsProofs`) | `register_atexit`, `finalize` and its callers | `Register`; `Drop`, `FinalizeRemoved`; `CxaFinalize` (the lookup of the address under the manager's lock), `FinalizeRange`; `Call`, `Return` |
| `LinkList` | what a debugger is promised: a sequence that libraries are appended to and removed from | `Append1`, `Remove1` |
| `LinkMap` (`MCLinkMap`, `LinkMapProofs`) | `add_debug_link_map`, `Drop for ExtraData`, `init_host_debug`, as pointers | `Copy`, `Add`, `Added`, `Drop`, `Unlink`, `Free`; refines `LinkList` |
| `ReadSide` (`MCReadSide`, `ScopeProofs`) | `dl_iterate_phdr`, `dladdr`, `_dl_find_object` beside opens and drops | composes `Dlopen` with walks under the read lock: `BeginWalk`, `Visit`, `EndWalk`; `CallbackDladdr` and `DropInfo` for a callback that calls `dladdr` |
| `Scopes` (`MCScopes`, `ScopeProofs`) | `dlsym`: `global_find`, `next_find`, `find_symbol` | composes `Dlopen` with the order of the global scope and of loading, which `Registry` leaves out |
| `ScopeProofs` | | proofs about `Dlopen`, `ReadSide` and `Scopes` built on those: global scope, names, counters, the listing's version numbers, handles, flags, dependencies, the answers of `dlsym` |
| `Filter` | `Vec::remove` in `finalize`, `shift_remove` in `Manager::remove` | what is left of a list keeps its order; shared by `Destructors` and `Scopes` |
| `Induction` | | induction and recursion over the naturals, stated over sets and functions, for the proofs |
| `LdCache` (`SearchProofs`) | `LdCache::lookup` | `Start`, `Probe`, `NotFound`, `Back`, `Scan` |
| `Search` (`MCSearch`, `SearchProofs`) | `LinkResolver::resolve_request` and all it calls, `get_linker_script_libs` | composes the search with `LdCache` and a file system that changes: `ResolveRequest`, `ResolveExistingByPath`, `LoadCandidate`, `ReadScript`, `MapFile`, `Reserve`, `BeginLookup`, `Lookup`, `EndLookup`, `Exhausted`, `Change` |
| `StaticTls` (`MCStaticTls`, `StaticTlsProofs`) | `mod tls` of `rtld.rs` | `Place`, `List`, `Refresh`, `Size`, `InitStorage`, `Deallocate` |
| `SelfReloc` (`RtldProofs`) | `DynamicInfo::parse`, `relocate_rtld_relative`, RELA, RELR | `Parse`, `ApplyRela`, `BeginRelr`, `ApplyRelr`, `Finish` |
| `Bootstrap` (`RtldProofs`) | `rtld_bootstrap`, `handle_direct_invocation`, `rewrite_initial_stack_for_program`, `patch_exec_auxv` | one action per loop turn or stage |
| `Inspect` (`RtldProofs`) | `--verify` and `--list`: `inspect_fd`, `vaddr_to_offset`, `list` | `InspectHeader`, `ReadPhdr`, `EndPhdrs`, `ReadDyn`, `EndDyn`, `PrintName`, `EndNames` |
| `Rtld` (`MCRtld`, `RtldProofs`) | `rtld_bootstrap` as a whole | composes `SelfReloc` and `Inspect` (by INSTANCE) with `Bootstrap`: the command line is read when self-relocation has succeeded, and a file is inspected when an option asks for it |

`Dlopen` composes `Registry` with threads and reference counts. Its `Find` stands for what module
`Search` models step by step: an answer to a name in a file system that stands still. Operators called "a fault of ..."
are deliberately wrong variants of the definition they precede. They are used by nothing; replacing
the definition by its fault shows that a property notices the difference.

### What is abstracted

* A path is the shortname it ends in and the file that `stat` finds (`Dlopen`). A bare name has a
  file too if the working directory holds one of that name: `inode_fallback` calls `stat` on the
  name as it was given. The library search is a function `Find` from names to files.
* In `Search`, a path is a directory and a name; what is at it is an ELF image or a script with an
  inode, or one of the ways in which `stat` or `open` fail. The registered libraries are a set of
  names and a set of inodes that stay as they are: what other threads do to them is `Dlopen`'s
  concern. `GROUP` and `INPUT` are one keyword, which the parser treats alike. The early return of
  `reserve_pending` for a name that this open has added before cannot happen: such a name is
  registered, and was found by name.
* The code's recursion from names to scripts to names is one list, the innermost. That is exact: a
  list that is exhausted ends in an error that no outer list accepts.
* Host libraries are known by name only: `from_raw` gives them neither an identity nor dependencies.
* elf_loader is external. Its linker asks for the names of `DT_NEEDED` in order; images hold strong
  references to the images they were relocated against; relocation may fail for files in `Faulty`.
* Symbol relocation itself, constructors and the contents of libraries are left out: a library is
  its identity, its name, its file and what it retains.
* `LAZY`, `NOW` and `DEEPBIND` steer symbol lookup only and are not flags of the model.
* The counters `adds` and `subs` are kept modulo `CounterMod` (64 bits in the code).
* A cache entry is a name (a number whose order stands for byte order), whether the name can be read
  (`get_name` may return `None`, which ends the lookup) and whether flags and path make it usable.
* In `Destructors`, what a drop removes is any set of registered libraries, finalized in any order;
  an address that has been unmapped is not mapped again.
* In `LinkMap`, the debugger's structure exists: `add_debug_link_map` and `Drop for ExtraData` return
  early when it is null, which it no longer is once libraries are registered.
* A TLS storage is its bytes, named by their distance from the thread pointer; a byte holds the
  module that wrote it. The thread control block's own layout is not modelled.
* A command-line argument is what the parser tells apart. The file that `--list` and `--verify` look
  at is the outcome of its header checks, its program headers, its dynamic entries and its bytes,
  and does not change meanwhile, except that it may be gone when `--list` opens it a second time.
  Sums of offsets in it do not wrap.
* The interpreter's load bias is a constant. Whether the program that the kernel has mapped can be
  entered is a free choice (`LinkMain`): in the code stage 1 has succeeded, or the program needs no
  relocation at all.
* `dlsym` answers with a library, not an address; a file defines a set of symbols without versions.

## Runs

Sizes are distinct states with the bounds in the `.cfg` files.

| Run | States | What it shows |
|---|---|---|
| `shared` | 198,064 | Two threads, two handles; `a` and `b` need `d`, `c` is a second name of `a`'s file and is in the working directory too, `a` and `b` may fail to relocate, and `a`, `b` and `c` are also opened by their bare names with `RTLD_GLOBAL` or `RTLD_GLOBAL \| RTLD_NODELETE`. Types (`TypeOK`); each reservation has one owner under way (`PendingOwned`); a file has one name (`OneEntryPerFile`), and its name is not reserved twice although opens wait between lookup and reservation (`NeverAlreadyRegistered`; no two files share a shortname here, see below); handles and relocated libraries keep what they rely on registered (`HandlesResident`, `DepsResident`); the global scope is exactly the committed `RTLD_GLOBAL` libraries (`GlobalScope`); `remove` never panics (`RemoveConsistent`); an open that returns has the flags it asked for, unless it is by a bare name and the library was found by the search or awaited by it (`FlagsHonoured`; there the code loses them, see below). |
| `compat` | 26,216 | Two threads that open, drop and walk; a pinned library that brings an alias, a library that needs both, an unreadable and a missing file, failing relocation, `RTLD_NOLOAD`. Aliases and identities lead to registered libraries (`NamesResolve`), the counters balance (`CountersBalance`), a removal always changes them, and a list that grows while both stay the same grows by what was counted when it was reserved (`VersionedListing`); what a walk reports is true while the callback looks at it (`WalkTrue`) and, under fairness, every open and drop returns (`Returns`). |
| `chain` | 32,166 | One thread, three handles, chains of dependencies opened, cloned and dropped in every order, with two symbols that two libraries each define: what nothing needs is unloaded (`Reclaimed`), and what `RTLD_DEFAULT`, `RTLD_NEXT` or a handle has answered stays the answer while the answering library stays (`AnswersStable`). |
| `static_tls` | 82,651 | Two thread storages, the loader's or libc's own, which libc may use again, while three segments of mixed size and alignment fill an arena of 11 bytes: blocks are disjoint and keep their contents, storages hold the images, writes outside occur only if a module was placed between sizing and an initialisation, memory is freed once. |
| `search` | 261,659 | One search in each of six families of worlds, while the file system may change once: every cache of up to five entries over three names, sorted either way, and caches with names that cannot be read (`LookupCorrect`); libraries placed in any of five directories, with `DT_RPATH`, `DT_RUNPATH`, their variables and `LD_LIBRARY_PATH`; files that cannot be read; scripts in scripts, in circles too; given bytes; every script of up to three tokens and every group of up to four. The outcome is what the search order promises for the file system before or after the change (`FirstMatch`; bytes given with a path that does not exist are left out, see below), a registered file is not loaded again and is reserved under its own identity (`NotLoadedTwice`), scripts yield the words of their groups (`ScriptLibs`), and a search ends unless scripts form a circle (`SearchReturns`). |
| `link_map` | 180,674 | Two threads, four addresses, starting from the host's list of two or from an empty one: a debugger always finds a whole list, nothing is written through a freed link map, and the list implements `LinkList`. |
| `rtld` | 590,005 | Every command line of up to four arguments of eight kinds with 0 or 1 environment words under three kernels, and every set of ten words packed as RELR, with and without RELA, and images unfit for one reason each; `--verify` and `--list` of files whose tables end early, overflow the fixed arrays, lack `DT_NULL` or put the string table at either end of a segment, or that are gone at the second open (`Inspected`): what is printed is right and in order, and is all, or as much as the array holds. |
| `destructors` | 538,561 | Two threads, two libraries, one of them with two handles, an address in neither, three destructors; drops of one or both libraries: none is lost or called twice, reverse order, one is left behind only if it was registered after its library's finalize had looked, what is taken is called. |

Why the bounds are enough: every hazard listed needs at most two threads (a waiter and an owner; two
droppers); one waiting and one holding thread, a shared dependency and a second name of one file
give every branch of every lookup, and each action and each of its disjuncts is taken in the
passing runs. Three handles and four libraries give chains with a shared end. Two handles per two
threads let both threads hold, open and drop at once. `Module` has as many identities as images can
live at once, so it never blocks `Merge`. `search` lets a change happen once because each promise is about one file
being before, in or after the window in which it is opened. A binary search of five entries has probes on both sides,
runs of equal names at either end and in the middle, and no entry at all. With two host link maps
and two more, or four of its own, the list loses its first, middle, last and only member. A word of
five bits makes a RELR bitmap cover four words, so ten words need several bitmaps and addresses.
In `rtld` each command line meets an image that needs no relocation, and each image one command
line: the two halves share no data but the outcome.

Symmetry: threads and handles in `shared` and `chain`, storages in `static_tls`; the specifications
treat them alike (the fresh handle is any identity that does not occur in the state). No liveness
property is checked under symmetry.

Deadlock is checked where the system never stops. `search` and `rtld` are single calls that end;
`cross` and `callback` are about threads that spin.

### Runs that find a disagreement

Each of these checks one property that the repository states, and TLC finds it violated by what
the code does. `PROJECT.json` quotes the lines.

| Run | Property | What happens |
|---|---|---|
| `leak` | `Reclaimed` | Two handles on one library are dropped at the same time. Each drop compares the strong count under the lock, but gives up its references after it: both see the other's and neither unloads. The library stays registered for ever. |
| `cross` | `Returns` | `a` needs `e` and `c`; `b` needs `c` and `a`. One open has reserved `a` and waits for `c`, the other has reserved `c` and waits for `a`: both spin for ever. |
| `pinned` | `DepsResident` | `a` needs `b` needs `c`, `b` is `RTLD_NODELETE`. Dropping the last handle on `a` removes and finalizes `c` although `b` stays and is bound to it. |
| `callback` | `WalkReturns` | A `dl_iterate_phdr` callback calls `dladdr`. The handle that `dladdr` takes is dropped before it returns, the drop wants the write lock, and the thread itself holds the read lock: it spins for ever. |

Not runs, but visible in the models:

* If two files share a shortname, `add_pending_reservation` can fail its assertion
  (`register.rs:283`, in debug builds). One open loads file 2 as `libC`; a second one asks for `libA`,
  which the search leads to file 2, and waits for it with the lock released; the first one fails and
  is rolled back; its thread opens another path that ends in `libA`, of file 1, and reserves `libA`;
  the second open wakes up, finds file 2 unknown, and reserves `libA` again. The worlds of the runs
  have no such files. The theorem `OnlyOtherFilesCollide` says, for all worlds, that this is the only
  way.
* Opening a library with `RTLD_GLOBAL` and later with `RTLD_GLOBAL | RTLD_NODELETE` makes `promote`
  call `add_global` for a library that is already global, which fails its debug assertion; in
  release builds the entry is only repeated and `GlobalScope` holds.
* A bare name that the search leads to a library registered under another name, or registered under
  its own while the open waited, is returned without promotion: `RTLD_NODELETE` and `RTLD_GLOBAL` of
  that open are lost, against what `lib.rs:82-85` says of the flags. `FlagsHonoured` exempts these
  opens: it does not show that they are right.
* `pinned` is not the only way to lose a dependency. Let `a` need `b` and `c`, which both need `d`,
  which needs `e`. When the last handle on `a` is dropped, `a`, `b` and `c` go; `d` has one reference
  more than the comparison allows and stays; `e` has just enough and goes, beneath `d`. If further
  libraries need `d`, a handle on one of them is then left with a library that has gone. Hence the
  hypotheses of the theorems below.
* Libraries are counted in `dlpi_adds` when they are reserved, not when they come to be listed: a
  list may grow with both counters unchanged, although `register.rs:206` calls `adds` "the number of
  times a new object has been added to the link map". A consumer that caches the list by the two
  counters may miss a library; it never keeps one that has gone (`VersionedListing`).
* `dlopen_from_binary` fails when nothing is at the path it is given, because the candidate is
  looked up by inode first; `examples/dlopen_from_binary.rs:16` calls that argument a virtual path
  used for identification. `FirstMatch` claims nothing of such a call.
* `global_find` says it searches "in the order they were loaded" (`register.rs:785`); it is the order
  of entry into the global scope, which a later promotion decides.
* `--list` leaves out, without a word, the names that `MAX_NEEDED` does not hold, although the help
  text (`cli.rs:176`) speaks of the direct dependencies; a segment that `MAX_LOADS` does not hold may
  make it refuse a sound file, and a dynamic section is read up to `MAX_DYN` entries. `Inspected`
  compares with the file as a whole and names each of these limits.
* A host library has no file identity: opened under another name it is mapped a second time, so
  `OneEntryPerFile` is stated for the libraries this loader has mapped.
* A path is first looked up by its last component alone: opening another file of that name returns
  the library that is registered.
* `merge_link_context` records the names under which dependencies were resolved, and
  `library_scope_by_id` does not follow aliases: a handle's scope misses a dependency bound by one.
* In a direct invocation the main link map is published with the interpreter's program headers
  (`bootstrap.rs:608`) and not written again when the program has been loaded.
* `__cxa_finalize(NULL)` in one thread may have taken a library's destructors when another thread
  drops and unmaps the library; each is still called exactly once.
* `normalized_flags` finds "libc" in any part of a path: `libcrypto` and `libcurl` are pinned.

### Fairness

* `Dlopen!FairSpec`: strong fairness of each thread's `Step`. A thread spins for the lock and, while
  it waits, for a change of the entry; other threads may take the lock in between again and again,
  so its step is enabled infinitely often rather than for ever. The assumption is that the spin
  lock does not starve a thread for ever. No fairness is assumed of beginning an operation. `cross`
  fails under the same assumption.
* `ReadSide!ReadSpec`: the same for steps that take the write lock, and weak fairness of a walk: a
  callback returns, and the loop needs nothing more. `ReentrantSpec`, of `callback`, adds strong
  fairness of the drop in `dladdr`, which never becomes possible.
* `Destructors!Spec`: weak fairness per thread of going on with what it has taken. The loop needs no
  lock.
* `Search!SearchSpec`, `Rtld!RtldSpec`: weak fairness of the single sequential program; none of
  changes of the file system.

## Proofs

All proofs are about the unbounded specifications: any sets of threads, handles, files and images,
any dependencies, segments of any size, caches, directory lists, scripts, command lines, relocation
tables and files of any length.

### From which assumptions

The named `ASSUME`s, which TLC evaluates in every run: constants have their types, markers such as
`NoKey` are no members, `Key`, `Thread`, `Handle`, `Module` and `Node` are finite (a program has
finitely many of each at a time; counting references needs it), the compat names of two libraries
are disjoint, host libraries have distinct images and files. `Dir` and `Name` of `Search` are finite:
a circle of scripts is recognised by counting requests.

Two of them say what is relied on of data that somebody else made.

* `ImageAssumption` (`AsLinked`): the interpreter's tables are as long as its dynamic section says,
  and in an image that `Fits`, no word is named twice. A word named twice would be moved twice; the
  code does not look, and a linker names each once.
* `FileAssumption` (`OnDisk`): of a file given to `--verify` or `--list`, only what the model's record
  means: it holds no more headers than it announces. That its segments do not overlap and its names
  end (`Loadable`) is a condition inside `Inspected`, on what is claimed of the names printed.

Some theorems about `Dlopen` have hypotheses beyond these.

* `OneFilePerName`: no two files share a shortname. Without it the assertion of
  `add_pending_reservation` can fail, as described above; `OnlyOtherFilesCollide` does without it.
  It holds in every world of the runs.
* `CompatInHost`: only libraries of the host have compat names. `libc_compat_aliases` knows libc and
  the dynamic linker, which every process begins with. The run `compat` goes beyond it and puts an
  alias on a library that is loaded later; the properties checked there hold nevertheless.
* `[]HandlesResident`, `[]DepsResident`: what open handles, and what relocated libraries, rely on
  stays registered. The second implies the first (`HandlesStayResident`), and is false for some
  worlds (`pinned`, and the diamond above).
* `FlatNeeds`: what a library needs is the host's or needs nothing itself, that is, plugins on top of
  shared libraries on top of the host's. Then `DepsResident` is a theorem, and nothing is assumed
  of behaviours at all. The world of `shared` is flat; those of `chain` and `pinned` are not.

### The registry (`DlopenProofs`, `ScopeProofs`)

* **`TypeCorrect`**, `Spec => []TypeOK`. `TypeOK` is not inductive: that `Merge` stores a
  handle on a library that exists needs to know where each thread is. The inductive `TypeInv` adds
  `Session(t)` (what each program counter implies of the work list, the root and the lock, most
  of all: a thread past its last lookup has a root that it has reserved itself, or that is committed
  while it holds the lock) and `ImagesKeyed` (what the registry or an open handle refers to is an
  image that has a name). One lemma per method of the manager, one per action.
* **`ReservationSafe`** (`MappedOnce`): with `OneFilePerName`,
  `Spec /\ []HandlesResident => [](PendingOwned /\ NeverAlreadyRegistered /\ OneEntryPerFile)`. The
  inductive `ReservationInv` adds to `TypeInv` that pending names are not committed, that every
  name in use has the file that leads to it (`FilesNamed`) and that the identity table knows every
  registered file under its name (`IdentityKnown`), host libraries excepted, and that host libraries
  stay committed, pinned and never reserved (`HostKept`), which makes the exception harmless.
  `IdentityKnown` is what makes the second lookup, by
  inode, stand in for the lookup by name that was made before the lock was released: a
  name that became registered meanwhile is found by its file. `HandlesResident` is a hypothesis
  because a drop removes libraries by name: had a library gone beneath an open handle and its name
  been reserved anew, the drop would remove another thread's reservation.
* **`OnlyOtherFilesCollide`**, for all worlds: `Spec /\ [](NeverAlreadyRegistered => HandlesResident)
  => [](NeverAlreadyRegistered => PendingOwned /\ OneEntryPerFile) /\ OnlyOtherFilesClash`. As long as
  the assertion has not failed, names are used for one file at a time and `ReservationInv` is
  preserved; the step that fails first is that of an open that is about to reserve a name under
  which a different file is registered (`ClashesWithOther`). So the lock that is let go between
  lookup and reservation never makes two opens of one file collide.
* **`GlobalScopeSafe`** (`RemoveNeverFails`), under the same hypotheses
  `Spec /\ []HandlesResident => [](GlobalScope /\ RemoveConsistent)`. The two hold together or not at
  all: `remove` asserts that flag and scope agree, and takes an entry out of both. `ReservationInv`
  is needed because a rollback removes by name: a name it removes must be a reservation, and a name
  that a drop removes must be committed.
* **`ListingVersioned`**, if moreover `CounterMod` exceeds the number of names:
  `Spec /\ []HandlesResident => VersionedListing`. Each step removes a set of registered names, or
  commits names that were pending, or leaves the list alone; a removal that leaves `subs` as it was
  removes nothing, since it removes fewer names than the counter can count.
* **`NamesAndCounters`** (`NoNameDangles`, `NothingMiscounted`): aliases and identities lead to
  registered libraries, and the counters' difference is the number of registered libraries modulo
  `CounterMod`. A removal takes out exactly the names that the removed libraries list, so the
  invariant `NamesOK` says that those are all the names that lead to them.
* **`HandlesStayResident`**: with `OneFilePerName` and `CompatInHost`,
  `Spec /\ []DepsResident => []HandlesResident`. The argument is by counting (`UnloadedAlone`): a drop
  unloads a library only if its strong count is three (four if global); the registry, the
  handle's own list and one more reference make up three; another handle that leads to the library
  would add one. For this the inductive `HandleInv` says which references exist: recorded direct
  dependencies lead to committed libraries whose images are retained (`Retained`), the same for what
  a dlopen is about to commit (`SessionsBound`), every deps list is a chain of retained images that
  starts at its root and two handles share one only if they are clones (`HandlesOK`, `Chained`).
  That `LibraryScope`, defined by reachability, yields such chains is an induction over the rounds
  in which `Reach` spreads.
* **`RegistrySafe`** puts these together: with the two assumptions on names,
  everything above follows from `[]DepsResident`.
* **`OpensHonourFlags`**: with the two assumptions,
  `Spec /\ []HandlesResident => FlagsHonoured`. The inductive `FlagsInv` says that reservations carry
  the flags of the open that made them, and that a path has been missed by `try_existing` before it
  is resolved, so a path that is registered is found by the lookup that promotes.
* **`DependenciesStay`**: with `FlatNeeds` too, `Spec => []DepsResident`. The inductive `FlatInv` adds to
  `HandleInv` that identities lead to names of their files, that sessions resolve leaves for
  libraries that are none (`FlatSession`) and that only leaves are retained (`FlatImages`). By
  counting again (`UnloadedUnneeded`), what a drop unloads is retained by the dropped root alone,
  which goes with it, and by no open that is relocating. With deeper needs the last step fails: the
  retainer need not be the root.
* **`FlatRegistrySafe`**, **`FlatWalkSafe`**: for such libraries all of the registry's
  properties, and `WalkTrue`, hold with no hypothesis on behaviours.

### The others

* **`ScopeProofs!WalkSafe`**, `ReadSpec /\ []HandlesResident => []WalkTrue`. Every step of
  `ReadSide` is a step of `Dlopen` or leaves its variables alone, so `ReservationInv` carries over;
  a step that needs no write lock changes neither the manager's list nor its counters, and any
  other step requires that nobody walks. That a listed image has the right name comes from
  `FilesNamed`.
* **`ScopeProofs!AnswersStay`**, `ScopesSpec => AnswersStable`, with no hypothesis. `OrderInv`: the
  list of the global scope and the load order hold what the manager holds, each library once, and
  what is global is registered. A removal keeps the order of what stays and additions come last
  (`ReorderedKeeps`, from what `Filter!Only` computes), the first library of a set in a list is the one
  that no other of the set comes before (`FirstBefore`, `AfterBefore`), and a library that stays
  keeps its entry and its image (`NextStays`, `ImagesStay`), so it defines what it defined.
* **`SearchProofs!LookupSafe`**, `Spec => []LookupCorrect`, and **`SearchLooksUp`**, the same of the
  lookups inside a search. The invariant says where entries of
  the name can still be: inside `left .. right - 1` while probing; at `i` while going back; none
  usable before `i` while scanning. Where a name cannot be read only what is returned is claimed.
* **`SearchProofs!SearchLoadsOnce`**, `SearchSpec => []NotLoadedTwice`, with any number of changes to
  the files. `CandidateInv`: between the first stat of a candidate and its reservation, unless
  the file was replaced meanwhile (`torn`), it is there, it is not registered, and what was read or
  mapped is what it holds.
* **`SearchProofs!SearchFirstMatch`**, `SearchSpec => [](changes <= 1 => FirstMatch)`; the
  names of the cache can be read (`AllLegible`, a condition inside `FirstMatch`). `Rest(F, d)` is what
  the candidates still to be tried yield if the files are `F` and `d` more scripts may be followed.
  In files that stand still every step keeps it (`Keeps`), and one that enters a script uses
  up one of `d`; a chain of scripts longer than there are requests repeats one, so more of them
  make no difference (`AnswersOf`, by the pigeonhole principle). `OneChange` says that, of the files
  before and after the change, there is one the search agrees with: it has not come to the path
  that changed, or it has passed the path and will not come back (`Later`, `Spent`). Two
  changes can be seen in the opposite order, hence the hypothesis, which the run's `MaxChange`
  meets.
* **`SearchProofs!SearchReadsScripts`**, `SearchSpec => []ScriptLibs`. `Parse` goes through the tokens
  with a depth that it carries; the reference counts parentheses. That they agree is an induction
  from the last token to the first.
* **`RtldProofs!RtldStack`**, **`RtldExits`**: `RtldSpec => []StackAsExec`, `[]ExitJustified`, for every
  input of type `Input`, an empty command line included. `BootInv` is the layout of the
  words; that the scans end at the null words the kernel wrote; that option parsing stands at a
  position the reference says is an option; during the copy, that the words already moved are the right
  ones and the words still to be moved have not been overwritten; during the patch,
  that the entries up to `index` have their new values and the others their old.
* **`RtldProofs!RtldRelocates`**, **`RtldRefuses`**: `RtldSpec => []RelocatedOnce`, `[]RefusedIffUnfit`.
  `SelfInv` says that the words named by entries before `at` are moved and no others, and that
  `addr` is null before the first address and otherwise what the closed form `BeginsAt` makes of the
  table as a whole: the last address, one word, and `W - 1` words for each bitmap in between.
  Since no word is named twice, moving "once" and moving "at entry i" are the same.
  What is refused is compared with `Fits`, which reads the dynamic section by itself (`Given`,
  `Declared`, `Stride`); that `DynamicInfo::parse` finds the same in it is the lemma `SectionRead`.
* **`RtldProofs!RtldInspects`**, `RtldSpec => []Inspected`. `LookInv` says what each loop has collected up
  to its index: the loadable segments in order, all of them or the first `MaxLoads`; the last
  dynamic segment; the last value of a tag; the needed names, the n-th found by its rank among
  them, all or the first `MaxNeeded`; and of the names printed so far that each is what a loaded
  program would read. The reference has none of these limits. With no more segments than the array
  holds, `vaddr_to_offset` finds the segment that covers an address; in a file that can be loaded
  it is the only one, and the reader from the file stops at the same zero byte as one in memory.
* **`LinkMapProofs`**: `TypeCorrect`, `DebuggerFindsAList` (`[]ListWhole`), `NeverStray`
  (`[]NoStrayAccess`) and `Refinement` (`Spec => ImplementsList`). The invariant: the pointers `map`,
  `tail`, `next`, `prev` spell one sequence without repetition (`Spells`), which is the sequence that
  following `next` yields, and `Owned`: a link map that a thread adds or deletes is in the list, one
  that is unlinked is not, no two threads have the same one, and one that nobody has and that is not
  listed has no predecessor, which is how `Drop for ExtraData` tells that it was never added. Each
  step appends to the sequence, takes one out, or leaves it alone, which is the refinement.
* **`DestructorsProofs`**: `CalledExactlyOnce`, `OnlyLateOnesAreLeft`, `LastRegisteredFirst`. The list
  and what each finalize has taken are ascending, pairwise disjoint sequences of registered
  destructors, and a destructor has been called once if it is in none of them (`Places`); while a
  drop has finalized a library and not yet returned, what the list still holds of it came late (`Closes`).
* **`StaticTlsProofs`**: `TypeCorrect`, `BlocksNeverOverlap`, `ImagesInStorage`,
  `StraysOnlyBehindARegistration`, `GivenBackOnce`. Modules lie one below the other, the one being
  entered beyond all listed ones (`Layout`), and a storage that no registration has overtaken is at
  least as large as what is used, however often it is initialised (`Storages`). `static_info` does not
  round the alignment it reports up; the maximum is a power of two all the same. Alignment rests on powers of two: the smaller divides
  the larger.

How recursion is dealt with: the library's induction theorems take an operator as a parameter, which
the installed provers cannot instantiate. `Induction` restates what is needed over sets and
functions, from the existence of least elements: a set that holds 0 and successors holds all
naturals, and a function defined by iteration satisfies its recursion. With these, the recursive
functions of `Registry`, `LinkMap`, `Destructors`, `StaticTls` and `Search` are reasoned about for every
input; downwards too (a parser's, from the last token). Sets of numbers are counted in the same
way (`CountTo`): the n-th member of a set exists and is the one with n - 1 before it.

### What the proofs found

* `PrepareRelocation` let an open be relocated against a library that another open had only
  reserved. The library has no image then, and the linker reports an error: the model now rolls
  back (`Missing`).
* `FlagsHonoured` had too narrow an exception: a bare name found by the search under its own name,
  after a wait, is not promoted either. It is now stated as the code behaves, and `shared` has the
  request that shows it.
* `HandlesResident` does not hold for every world, see the diamond above; it is a theorem under
  `[]DepsResident`, and unconditional for flat needs.
* `FirstMatch` did not say what happens when `dlopen_from_binary` is given a script and the files
  change: the path it stands for is passed without being read, and the script may name it again.
  The exception is now part of the property.
* `StackAsExec` and `ExitJustified` were stated for inputs in which each kind of auxiliary entry
  occurs once and the command line is not empty. Neither is needed: the reference now takes
  the last entry of a kind, as the code does, and an empty command line ends with the help text.

### Only model-checked

* Liveness (`Returns`, `WalkReturns`, `SearchReturns`, `Ends`, `TakenIsCalled`): outside the prover's reach.
* `DepsResident` where needs are deeper than `FlatNeeds` is false in general (`pinned`), so `HandlesResident`
  of such worlds is proved only under it; `chain` checks what becomes of deeper chains.
* Types of the debugger's structures are only proved (`LinkMapProofs!TypeCorrect`), not checked by a run.
* `Reclaimed`: false with two threads (`leak`), true for one thread in `chain`.

## Not modelled

* `LdCache::new`: recognising the file's format. The format of real caches is ldconfig's.
* `dlopen_mapped_root`, the entry for a program that the kernel has mapped: it shares `LinkRoot`'s
  path once the image is registered.
* Constructors that call back into dlopen; they run inside elf_loader.
* The host linker changing its list after initialisation, and the scan of memory for `r_debug` and
  dynamic tables in `host_init.rs`: sequential pointer reading before any other thread can call.
* Symbol versions, and the order of scopes that `RTLD_DEEPBIND` chooses inside elf_loader.
* Layouts of glibc's private structures, exported symbols, system call wrappers and the build: data
  or glue without behaviour.

## Plan

Done, in this order: `Registry`, `Dlopen` and their proofs; `LdCache` with its proof; `StaticTls`;
`LinkList` and `LinkMap`; `Bootstrap`, `SelfReloc`, `Rtld`; `Destructors`; then the read side
(`ReadSide` and its proof), the library search (`Search`), `dlsym` (`Scopes`), the proofs about the
global scope and the counters (`ScopeProofs`), `--verify` and `--list` (`Inspect`).

Then, proofs again: names, counters, handles, flags and dependencies (`ScopeProofs`), `LinkMap` with
its refinement, `Destructors`, `StaticTls`; last the sequential parts, `Search` (`SearchProofs`) and
`Bootstrap`, `SelfReloc`, `Inspect` as `Rtld` composes them (`RtldProofs`); and what `dlsym` answers
(`AnswersStable` in `ScopeProofs`).

Left: a characterisation of the worlds in which `DepsResident` holds that is wider
than `FlatNeeds`; liveness, if a prover for it becomes available.

## Running

    tlc -config Shared.cfg MCDlopen      # and so on, see PROJECT.json
    tlapm DlopenProofs.tla
    tlapm ScopeProofs.tla
    tlapm SearchProofs.tla
    tlapm RtldProofs.tla
    tlapm LinkMapProofs.tla
    tlapm DestructorsProofs.tla
    tlapm StaticTlsProofs.tla
    tlapm Induction.tla
