-------------------------------- MODULE Rtld --------------------------------
(***************************************************************************)
(* rtld_bootstrap as a whole: the interpreter relocates itself (module     *)
(* SelfReloc) and, only when that has succeeded, reads its command line    *)
(* (module Bootstrap) and looks at a file (module Inspect) or rewrites the *)
(* stack and enters the program.                                           *)
(***************************************************************************)
EXTENDS Bootstrap

CONSTANTS
  W, Size, RelaSize, ImageWords, MaxDyn,  \* see SelfReloc
  MaxPhdrs, MaxLoads, MaxNeeded, MaxEntries,  \* see Inspect
  Start    \* which stack, image of the interpreter and file may meet

ASSUME RtldAssumption ==
  /\ W \in Nat \ {0, 1}
  /\ Size \in Nat \ {0} /\ Size % 2 = 0
  /\ {RelaSize, ImageWords, MaxDyn} \subseteq Nat \ {0}
  /\ ImageWords * Size <= 2^W
  /\ {MaxPhdrs, MaxLoads, MaxNeeded, MaxEntries} \subseteq Nat \ {0}
  /\ \A s \in Start : s[1] \in Input

VARIABLES image, word, addr, at, phase,
          file, step, pos, loads, dynamic, needed, strtab, strsz, printed,
          verdict

Self == INSTANCE SelfReloc WITH mem <- word, index <- at, pc <- phase,
                                Bias <- RtldBias % 2^W

Look == INSTANCE Inspect WITH mode <- ArgKind[mem[1 + index]]

(* The images are such as a linker makes, the files are any.               *)
ASSUME ImageAssumption == \A img \in {s[2] : s \in Start} : Self!AsLinked(img)
ASSUME FileAssumption == \A f \in {s[3] : s \in Start} : Look!OnDisk(f)

selfvars == <<image, word, addr, at, phase>>
lookvars == <<file, step, pos, loads, dynamic, needed, strtab, strsz, printed,
              verdict>>
allvars == <<vars, selfvars, lookvars>>

RtldInit ==
  \E s \in Start : Init(s[1]) /\ Self!Init(s[2]) /\ Look!Init(s[3])

(* exit(if verify(target) ...), exit(if list(target) ...).                 *)
ExitInspected == pc = "inspect" /\ verdict # 2 /\ Exit(verdict)

RtldNext ==
  \/ Self!Next /\ UNCHANGED <<vars, lookvars>>
  \/ /\ \/ phase = "refused" /\ Refuse
        \/ phase = "done" /\ Enter
        \/ Run
        \/ ExitInspected
     /\ UNCHANGED <<selfvars, lookvars>>
  \/ pc = "inspect" /\ Look!Next /\ UNCHANGED <<vars, selfvars>>

(* One thread of straight-line code: it runs on as long as it can.         *)
RtldSpec == RtldInit /\ [][RtldNext]_allvars /\ WF_allvars(RtldNext)

-----------------------------------------------------------------------------
(* Properties, beside those of Bootstrap.                                  *)

(* From the first step that may use relocated data on, every word that the *)
(* linker asked for has been moved by the load bias exactly once and no    *)
(* other word has changed: the packed RELR table is decoded as it was      *)
(* encoded, up to the last bit of the last bitmap.                         *)
RelocatedOnce == pc \notin {"start", "exit"} => Self!Relocated

(* rtld never goes on with an image that needs more than relative          *)
(* relocation or whose tables are malformed, and refuses no other image.   *)
RefusedIffUnfit ==
  /\ phase = "done" => image.fit
  /\ phase = "refused" => ~image.fit

(* --verify accepts the files whose dynamic section can be read and whose  *)
(* string table is in a segment, and --list prints the first MaxNeeded     *)
(* names that the loaded program would find there (see Inspect for the     *)
(* limits of the fixed arrays).                                            *)
Inspected == pc = "inspect" => Look!Inspected

(* Bootstrap always comes to an end: the program is entered or the process *)
(* exits.                                                                  *)
Ends == <>(pc \in {"entered", "exit"})
=============================================================================
