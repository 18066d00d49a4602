----------------------------- MODULE Bootstrap -----------------------------
(***************************************************************************)
(* The entry of the replacement rtld: rtld_bootstrap reads the initial     *)
(* stack, and when the interpreter itself was started as a command (a      *)
(* direct invocation) parses its options, moves the program's arguments,   *)
(* the environment and the auxiliary vector down over its own arguments,   *)
(* loads the program and patches the auxiliary vector in place.            *)
(*                                                                         *)
(* The stack is words: mem[0] is argc, then argv, 0, envp, 0, and pairs    *)
(* (kind, value) up to AT_NULL.  A pointer to a string is a number; what   *)
(* the option parser learns from the string is ArgKind.  Loading and       *)
(* linking the program (stage1) may fail; module Dlopen models the open.   *)
(* The load bias of the interpreter, which the code takes from AT_BASE or  *)
(* from its PT_DYNAMIC, is a constant.                                     *)
(* Self-relocation, which comes first, is module SelfReloc, and what       *)
(* --list and --verify do is module Inspect; module Rtld puts them         *)
(* together.                                                               *)
(***************************************************************************)
EXTENDS Integers, Sequences, FiniteSets

CONSTANTS
  ArgKind,    \* ArgKind[p]: the kind of the argument p points to
  PhdrsAt,    \* PhdrsAt[a]: the program headers at address a, a sequence
  PhdrSize,   \* size_of::<ElfPhdr>()
  RtldDynamic, \* the address of the interpreter's own dynamic section
  RtldBias, ExecPhdr, ExecPhent, ExecPhnum, ExecEntry

(* What handle_direct_invocation tells apart: an option that ends the run  *)
(* with an answer (--help, --version, ...), --list and --verify, --argv0,  *)
(* one that takes a value and has no effect, --inhibit-cache, any other    *)
(* word with a dash, and the program.                                      *)
Kind == {"query", "list", "verify", "argv0", "value", "flag", "unknown",
         "program"}

Pointer == DOMAIN ArgKind

AT_NULL == 0
AT_PHDR == 3
AT_PHENT == 4
AT_PHNUM == 5
AT_BASE == 7
AT_ENTRY == 9
AT_EXECFN == 31

(* A stack that the kernel may set up.                                     *)
Input == [argv : Seq(Pointer), envp : Seq(Nat \ {0}),
          aux : Seq((Nat \ {AT_NULL}) \X Nat)]

ASSUME BootstrapAssumption ==
  /\ Pointer \subseteq Nat \ {0}
  /\ ArgKind \in [Pointer -> Kind]
  /\ {PhdrSize, RtldDynamic, RtldBias, ExecPhdr, ExecPhent, ExecPhnum, ExecEntry}
       \subseteq Nat \ {0}

VARIABLES
  input,      \* what the kernel has set up
  mem,        \* the words of the initial stack
  pc,
  index,      \* the loop index of the step under way
  argv_index, argv0,   \* DirectProgram
  count,      \* how many words rewrite_initial_stack_for_program moves
  exec_path,  \* RewrittenStack.exec_path
  auxv,       \* where the program's auxiliary vector lies
  status,     \* the exit status
  entry       \* where the trampoline jumps to

vars == <<input, mem, pc, index, argv_index, argv0, count, exec_path, auxv,
          status, entry>>

FATAL == 127

-----------------------------------------------------------------------------
(* The stack that the kernel builds.                                       *)
Words(argc, argv, envp, aux) ==
  LET flat == [i \in 1 .. 2 * Len(aux) |-> aux[(i + 1) \div 2][2 - (i % 2)]]
  IN  <<argc>> \o argv \o <<0>> \o envp \o <<0>> \o flat \o <<AT_NULL, 0>>

Memory(words) == [i \in 0 .. Len(words) - 1 |-> words[i + 1]]

(* Where a scan for a zero word stops that starts at i and advances by     *)
(* stride.                                                                 *)
ZeroAt(m, i, stride) ==
  CHOOSE j \in i .. Cardinality(DOMAIN m) :
    /\ (j - i) % stride = 0
    /\ m[j] = 0
    /\ \A k \in i .. j - 1 : (k - i) % stride = 0 => m[k] # 0

(* The auxiliary vector starts after the null word that ends envp.         *)
AuxvOf(m, argc) == ZeroAt(m, argc + 2, 1) + 1

(* parse_auxv: a later entry of a kind overrides an earlier one.           *)
AuxValue(kind) ==
  LET base == AuxvOf(mem, mem[0])
      at == {i \in base .. ZeroAt(mem, base, 2) :
               (i - base) % 2 = 0 /\ mem[i] = kind}
  IN  IF at = {} THEN 0
      ELSE mem[1 + CHOOSE i \in at : \A j \in at : j <= i]

AuxState ==
  [phdr |-> AuxValue(AT_PHDR), phent |-> AuxValue(AT_PHENT),
   phnum |-> AuxValue(AT_PHNUM), base |-> AuxValue(AT_BASE)]

(* find_phdr: the p_vaddr of the first program header of a type, none if   *)
(* the vector does not say where the headers are or how long they are.     *)
FindPhdr(aux, type) ==
  LET at == {i \in 1 .. aux.phnum : PhdrsAt[aux.phdr][i].type = type}
  IN  IF aux.phdr = 0 \/ aux.phent < PhdrSize THEN {}
      ELSE {PhdrsAt[aux.phdr][i].vaddr :
              i \in {i \in at : \A j \in at : i <= j}}

(* main_load_bias and main_dynamic: 0 when there is no such header.        *)
MainLoadBias(aux) ==
  LET found == FindPhdr(aux, "PHDR")
  IN  IF found = {} THEN 0 ELSE aux.phdr - CHOOSE v \in found : TRUE

MainDynamic(aux) ==
  LET found == FindPhdr(aux, "DYNAMIC")
  IN  IF found = {} THEN 0
      ELSE MainLoadBias(aux) + CHOOSE v \in found : TRUE

(* The kernel mapped no program: there is no interpreter base, or the      *)
(* program headers lead to the interpreter's dynamic section.              *)
DirectInvocation(aux) == aux.base = 0 \/ MainDynamic(aux) = RtldDynamic

Exit(code) ==
  /\ pc' = "exit"
  /\ status' = code
  /\ UNCHANGED <<input, mem, index, argv_index, argv0, count, exec_path,
                 auxv, entry>>

(* The interpreter cannot relocate itself.                                 *)
Refuse == pc = "start" /\ Exit(FATAL)

(* It has relocated itself: the two ways on.                               *)
Enter ==
  /\ pc = "start"
  /\ \E aux \in {AuxState} :
       pc' = IF DirectInvocation(aux) THEN "options" ELSE "stage1"
  /\ index' = 1
  /\ auxv' = AuxvOf(mem, mem[0])
  /\ UNCHANGED <<input, mem, argv_index, argv0, count, exec_path, status,
                 entry>>

-----------------------------------------------------------------------------
(* handle_direct_invocation: one argument a step.                          *)

Arg(i) == mem[1 + i]

(* rewrite_initial_stack_for_program: how many words move, from the        *)
(* program's argument to the end of AT_NULL.  The end of the old stack is  *)
(* found before the first word is moved.                                   *)
CopyCount(program) ==
  ZeroAt(mem, AuxvOf(mem, mem[0]), 2) + 2 - (1 + program)

(* A fault of HasValue: the last argument is taken to have a value.        *)
HasValueOffByOne(i) == i < mem[0]

HasValue(i) == i + 1 < mem[0]

(* A fault of Skip: one word too few.                                      *)
SkipShort(n) ==
  /\ index' = index + n - 1
  /\ UNCHANGED <<input, mem, pc, argv_index, count, exec_path, auxv, status,
                 entry>>

Skip(n) ==
  /\ index' = index + n
  /\ UNCHANGED <<input, mem, pc, argv_index, count, exec_path, auxv, status,
                 entry>>

ParseOption ==
  LET kind == ArgKind[Arg(index)]
  IN  /\ pc = "options"
      /\ mem[0] > 1
      /\ index < mem[0]
      /\ \/ kind = "query" /\ Exit(0)
         \/ /\ kind \in {"list", "verify"}
            /\ IF ~HasValue(index) THEN Exit(1)
               ELSE /\ pc' = "inspect"
                    /\ UNCHANGED <<input, mem, index, argv_index, argv0, count,
                                   exec_path, auxv, status, entry>>
         \/ /\ kind \in {"argv0", "value"}
            /\ IF ~HasValue(index) THEN Exit(1)
               ELSE /\ argv0' = IF kind = "argv0" THEN Arg(index + 1) ELSE argv0
                    /\ Skip(2)
         \/ kind = "flag" /\ Skip(1) /\ UNCHANGED argv0
         \/ kind = "unknown" /\ Exit(1)
         \/ /\ kind = "program"
            /\ argv_index' = index
            /\ count' = CopyCount(index)
            /\ index' = 0
            /\ pc' = "copying"
            /\ UNCHANGED <<input, mem, argv0, exec_path, auxv, status,
                           entry>>

(* Without arguments, or with nothing but options: the help text.          *)
PrintHelp ==
  /\ pc = "options"
  /\ mem[0] <= 1 \/ index >= mem[0]
  /\ Exit(0)

-----------------------------------------------------------------------------
(* rewrite_initial_stack_for_program.                                      *)

(* A fault of CopyWord: the words are moved from the last to the first.    *)
CopyWordBackwards ==
  LET i == count - 1 - index
  IN  /\ pc = "copying"
      /\ index < count
      /\ mem' = [mem EXCEPT ![1 + i] = mem[1 + argv_index + i]]
      /\ index' = index + 1
      /\ UNCHANGED <<input, pc, argv_index, argv0, count, exec_path, auxv,
                     status, entry>>

CopyWord ==
  /\ pc = "copying"
  /\ index < count
  /\ mem' = [mem EXCEPT ![1 + index] = mem[1 + argv_index + index]]
  /\ index' = index + 1
  /\ UNCHANGED <<input, pc, argv_index, argv0, count, exec_path, auxv,
                 status, entry>>

(* argc is lowered, the path is read, argv[0] is replaced if --argv0 was   *)
(* given, and the new auxiliary vector is looked for.                      *)
FinishRewrite ==
  LET argc == mem[0] - argv_index
      m == [mem EXCEPT ![0] = argc,
                       ![1] = IF argv0 # 0 THEN argv0 ELSE @]
  IN  /\ pc = "copying"
      /\ index = count
      /\ mem' = m
      /\ exec_path' = mem[1]
      /\ auxv' = AuxvOf(m, argc)
      /\ pc' = "load"
      /\ UNCHANGED <<input, index, argv_index, argv0, count, status, entry>>

-----------------------------------------------------------------------------
(* stage1.                                                                 *)

(* prepare_direct_exec up to load_exec.                                    *)
LoadExec ==
  /\ pc = "load"
  /\ \/ Exit(FATAL)
     \/ /\ pc' = "patch"
        /\ index' = auxv
        /\ UNCHANGED <<input, mem, argv_index, argv0, count, exec_path, auxv,
                       status, entry>>

Patched(kind, value) ==
  CASE kind = AT_PHDR   -> ExecPhdr
    [] kind = AT_PHENT  -> ExecPhent
    [] kind = AT_PHNUM  -> ExecPhnum
    [] kind = AT_BASE   -> RtldBias
    [] kind = AT_ENTRY  -> ExecEntry
    [] kind = AT_EXECFN -> exec_path
    [] OTHER            -> value

(* patch_exec_auxv: one entry a step.                                      *)
PatchAuxv ==
  /\ pc = "patch"
  /\ IF mem[index] = AT_NULL THEN pc' = "link" /\ UNCHANGED <<mem, index>>
     ELSE /\ mem' = [mem EXCEPT ![index + 1] = Patched(mem[index], @)]
          /\ index' = index + 2
          /\ UNCHANGED pc
  /\ UNCHANGED <<input, argv_index, argv0, count, exec_path, auxv, status,
                 entry>>

(* dlopen_mapped_root, or nothing at all for a static program.             *)
LinkExec ==
  /\ pc = "link"
  /\ \/ Exit(FATAL)
     \/ /\ pc' = "entered"
        /\ entry' = ExecEntry
        /\ UNCHANGED <<input, mem, index, argv_index, argv0, count,
                       exec_path, auxv, status>>

(* prepare_kernel_mapped_main, and the way out when it fails: a main that  *)
(* needs no relocation at all (can_tail_jump_main) is entered anyway.      *)
(* Both ways in lead to the entry that the kernel has passed.              *)
LinkMain ==
  /\ pc = "stage1"
  /\ \/ Exit(FATAL)
     \/ /\ pc' = "entered"
        /\ entry' = AuxValue(AT_ENTRY)
        /\ UNCHANGED <<input, mem, index, argv_index, argv0, count,
                       exec_path, auxv, status>>

-----------------------------------------------------------------------------
Init(stack) ==
  /\ input = stack
  /\ mem = Memory(Words(Len(stack.argv), stack.argv, stack.envp, stack.aux))
  /\ pc = "start"
  /\ index = 0
  /\ argv_index = 0
  /\ argv0 = 0
  /\ count = 0
  /\ exec_path = 0
  /\ auxv = 0
  /\ status = 0
  /\ entry = 0

(* What follows self-relocation.                                           *)
Run ==
  \/ ParseOption
  \/ PrintHelp
  \/ CopyWord
  \/ FinishRewrite
  \/ LoadExec
  \/ PatchAuxv
  \/ LinkExec
  \/ LinkMain

-----------------------------------------------------------------------------
(* Properties.                                                             *)

(* The reference for the command line.  The positions of argv at which an  *)
(* option or the program starts: the smallest set that has the first and,  *)
(* with an option, the position behind the option and its value.           *)
ArgKindAt(i) == ArgKind[input.argv[i + 1]]

Follow(S) ==
  /\ 1 \in S
  /\ \A i \in S : i < Len(input.argv) =>
       /\ ArgKindAt(i) = "flag" => i + 1 \in S
       /\ ArgKindAt(i) \in {"argv0", "value"} => i + 2 \in S

StartsAt == {i \in 1 .. Len(input.argv) :
               \A S \in SUBSET (1 .. Len(input.argv) + 1) : Follow(S) => i \in S}

OptionsOf(kinds) ==
  {i \in StartsAt : i < Len(input.argv) /\ ArgKindAt(i) \in kinds}

(* What the kernel has passed of a kind: the last entry counts.            *)
Passed(kind) ==
  LET at == {i \in 1 .. Len(input.aux) : input.aux[i][1] = kind}
  IN  IF at = {} THEN 0
      ELSE input.aux[CHOOSE i \in at : \A j \in at : j <= i][2]

Direct ==
  DirectInvocation([phdr |-> Passed(AT_PHDR), phent |-> Passed(AT_PHENT),
                    phnum |-> Passed(AT_PHNUM), base |-> Passed(AT_BASE)])

(* The program, the name it is given, its arguments, and what the          *)
(* auxiliary vector says when it is about the program.                     *)
ProgramAt == CHOOSE i \in OptionsOf({"program"}) : TRUE

ProgramName ==
  LET names == OptionsOf({"argv0"})
  IN  IF names = {} THEN input.argv[ProgramAt + 1]
      ELSE input.argv[2 + CHOOSE i \in names : \A j \in names : j <= i]

ProgramArgv ==
  <<ProgramName>> \o SubSeq(input.argv, ProgramAt + 2, Len(input.argv))

ProgramAux ==
  LET own == {<<AT_PHDR, ExecPhdr>>, <<AT_PHENT, ExecPhent>>,
              <<AT_PHNUM, ExecPhnum>>, <<AT_BASE, RtldBias>>,
              <<AT_ENTRY, ExecEntry>>, <<AT_EXECFN, input.argv[ProgramAt + 1]>>}
  IN  [i \in 1 .. Len(input.aux) |->
         LET e == input.aux[i]
         IN  IF \E o \in own : o[1] = e[1] THEN CHOOSE o \in own : o[1] = e[1]
             ELSE e]

(* The words a program finds on its stack when it has been started by      *)
(* itself: its own arguments, its environment, its auxiliary vector.       *)
ExpectedWords ==
  IF Direct THEN Words(Len(ProgramArgv), ProgramArgv, input.envp, ProgramAux)
  ELSE Words(Len(input.argv), input.argv, input.envp, input.aux)

(* A program that is entered finds the stack it would find without the     *)
(* interpreter's own arguments: its argc and argv with the name --argv0    *)
(* gave it, the environment untouched although it was moved over itself,   *)
(* and an auxiliary vector about itself, where libc was told to look.      *)
StackAsExec ==
  LET words == ExpectedWords
  IN  pc = "entered" =>
        /\ \A i \in 1 .. Len(words) : mem[i - 1] = words[i]
        /\ auxv = Len(words) - 2 * Len(input.aux) - 2
        /\ entry = IF Direct THEN ExecEntry ELSE Passed(AT_ENTRY)

(* rtld ends without a program only for a reason on its command line: an   *)
(* answer was asked for, an option is wrong or lacks its value, or there   *)
(* is nothing but options; a program's own arguments are never taken for   *)
(* options.                                                                *)
ExitJustified ==
  /\ pc = "exit" /\ status # FATAL => OptionsOf({"program"}) = {}
  /\ pc = "exit" /\ status = 1 =>
       \/ OptionsOf({"unknown", "list", "verify"}) # {}
       \/ \E i \in OptionsOf({"argv0", "value"}) : i = Len(input.argv) - 1
  /\ pc = "exit" /\ status = 0 =>
       \/ OptionsOf({"query", "list", "verify"}) # {}
       \/ Len(input.argv) \in StartsAt \cup {0}
=============================================================================
