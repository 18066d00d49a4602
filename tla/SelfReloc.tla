----------------------------- MODULE SelfReloc -----------------------------
(***************************************************************************)
(* The interpreter's relocation of itself, before any code that needs      *)
(* relocated data may run: DynamicInfo::parse, apply_relocations (RELA,    *)
(* RELATIVE only) and apply_relr_relocations (the packed RELR table).      *)
(*                                                                         *)
(* Memory is words of W bits that arithmetic wraps around in.  A RELR      *)
(* entry is a word: an even one is the address of a word to relocate, an   *)
(* odd one a bitmap of the W - 1 words that follow the last ones covered.  *)
(***************************************************************************)
EXTENDS Integers, Sequences, FiniteSetsExt

CONSTANTS
  W,         \* usize::BITS
  Size,      \* size_of::<usize>(), even
  RelaSize,  \* size_of::<ElfRelType>()
  ImageWords,\* the words of the image are 0 .. ImageWords - 1
  MaxDyn,    \* the scan of the dynamic section gives up after this many
  Bias       \* load_bias

VARIABLES
  image,  \* the image as it was linked: dynamic, rela, relr; and targets,
          \* the words its RELR table stands for, fit, whether it is sound
  mem,    \* the words of the image
  addr,   \* reloc_addr, as the index of a word; -1 is null
  index,  \* the loop index
  pc

vars == <<image, mem, addr, index, pc>>

Wrap(n) == n % 2^W

-----------------------------------------------------------------------------
(* DynamicInfo::parse: the entries before DT_NULL, a later one overriding  *)
(* an earlier one.                                                         *)
Entries(dyn) ==
  LET null == {i \in 1 .. Len(dyn) : dyn[i][1] = "NULL"}
  IN  1 .. Min(null) - 1

Terminated(dyn) == \E i \in 1 .. Len(dyn) : dyn[i][1] = "NULL" /\ i <= MaxDyn

Has(dyn, tag) == \E i \in Entries(dyn) : dyn[i][1] = tag

Value(dyn, tag, default) ==
  IF Has(dyn, tag) THEN dyn[Max({i \in Entries(dyn) : dyn[i][1] = tag})][2]
  ELSE default

(* A fault of EntrySize: an entry size of zero is taken.                   *)
EntrySizeRaw(dyn, tag, default) == Value(dyn, tag, default)

(* An entry size of zero is ignored.                                       *)
EntrySize(dyn, tag, default) ==
  LET sized == {i \in Entries(dyn) : dyn[i][1] = tag /\ dyn[i][2] # 0}
  IN  IF sized = {} THEN default ELSE dyn[Max(sized)][2]

RelaCount(dyn) == Value(dyn, "RELASZ", 0) \div RelaSize

RelrCount(dyn) == Value(dyn, "RELRSZ", 0) \div EntrySize(dyn, "RELRENT", Size)

Goto(where) == pc' = where /\ UNCHANGED <<image, mem, addr, index>>

(* The refusals of relocate_rtld_relative and of the head of               *)
(* apply_relocations.                                                      *)
Unparsable(dyn) ==
  LET size == Value(dyn, "RELASZ", 0)
      ent == EntrySize(dyn, "RELAENT", RelaSize)
  IN  \/ ~Terminated(dyn)
      \/ Has(dyn, "NEEDED")
      \/ Value(dyn, "JMPREL", 0) # 0 \/ Value(dyn, "PLTRELSZ", 0) # 0
      \/ size # 0 /\ (Value(dyn, "RELA", 0) = 0 \/ ent # RelaSize)
      \/ size # 0 /\ size % ent # 0

Parse ==
  /\ pc = "parse"
  /\ Goto(IF Unparsable(image.dynamic) THEN "refused" ELSE "rela")

(* One RELA entry: NONE is skipped, RELATIVE sets the word to the load     *)
(* bias plus the addend, anything else is refused.                         *)
ApplyRela ==
  LET rel == image.rela[index]
  IN  /\ pc = "rela"
      /\ index <= RelaCount(image.dynamic)
      /\ \/ /\ rel.type = "NONE"
            /\ index' = index + 1
            /\ UNCHANGED <<image, mem, addr, pc>>
         \/ /\ rel.type = "RELATIVE"
            /\ mem' = [mem EXCEPT ![rel.word] = Wrap(Bias + rel.addend)]
            /\ index' = index + 1
            /\ UNCHANGED <<image, addr, pc>>
         \/ rel.type \notin {"NONE", "RELATIVE"} /\ Goto("refused")

(* The refusals of the head of apply_relr_relocations.                     *)
Unpackable(dyn) ==
  LET size == Value(dyn, "RELRSZ", 0)
      ent == EntrySize(dyn, "RELRENT", Size)
  IN  size # 0 /\ (Value(dyn, "RELR", 0) = 0 \/ ent < Size \/ size % ent # 0)

BeginRelr ==
  /\ pc = "rela"
  /\ index > RelaCount(image.dynamic)
  /\ \/ Unpackable(image.dynamic) /\ Goto("refused")
     \/ /\ ~Unpackable(image.dynamic)
        /\ pc' = "relr"
        /\ index' = 1
        /\ UNCHANGED <<image, mem, addr>>

(* The words of bitmap v that starts at word a.                            *)
BitmapOf(a, v) == {a + i : i \in {i \in 0 .. W - 2 : (v \div 2^(i + 1)) % 2 = 1}}

(* A fault of Covered: a bitmap is taken to cover a whole word's bits.     *)
CoveredWord == W

(* How many words a bitmap stands for.                                     *)
Covered == W - 1

(* One RELR entry.                                                         *)
ApplyRelr ==
  LET v == image.relr[index]
      odd == v % 2 = 1
      at == v \div Size
      words == IF odd THEN BitmapOf(addr, v) ELSE {at}
  IN  /\ pc = "relr"
      /\ index <= RelrCount(image.dynamic)
      /\ \/ odd /\ addr = -1 /\ Goto("refused")
         \/ /\ ~(odd /\ addr = -1)
            /\ mem' = [w \in DOMAIN mem |->
                         IF w \in words THEN Wrap(Bias + mem[w]) ELSE mem[w]]
            /\ addr' = IF odd THEN addr + Covered ELSE at + 1
            /\ index' = index + 1
            /\ UNCHANGED <<image, pc>>

Finish ==
  /\ pc = "relr"
  /\ index > RelrCount(image.dynamic)
  /\ Goto("done")

-----------------------------------------------------------------------------
(* What the linker stored in a word that is to be relocated.               *)
Linked(w) == Wrap(3 * w + 1)

Init(linked) ==
  /\ image = linked
  /\ mem = [w \in 0 .. ImageWords - 1 |-> Linked(w)]
  /\ addr = -1
  /\ index = 1
  /\ pc = "parse"

Next ==
  \/ Parse
  \/ ApplyRela
  \/ BeginRelr
  \/ ApplyRelr
  \/ Finish

-----------------------------------------------------------------------------
(* The reference: the tables read as a whole.  Entry i of a RELR table, if *)
(* it is a bitmap, begins behind the last address before it and the        *)
(* bitmaps between the two.                                                *)
Odd(v) == v % 2 = 1

Addresses(relr, i) == {j \in 1 .. i - 1 : ~Odd(relr[j])}

BeginsAt(relr, i) ==
  LET last == CHOOSE j \in Addresses(relr, i) :
                \A k \in Addresses(relr, i) : k <= j
  IN  relr[last] \div Size + 1 + (i - last - 1) * (W - 1)

StandsFor(relr, i) ==
  IF Odd(relr[i]) THEN BitmapOf(BeginsAt(relr, i), relr[i])
  ELSE {relr[i] \div Size}

(* What the dynamic section says before DT_NULL.  Of several entries the   *)
(* last counts, and an entry size of zero is none.                         *)
Given(dyn, tag) ==
  {i \in 1 .. Len(dyn) :
     dyn[i][1] = tag /\ \A j \in 1 .. i : dyn[j][1] # "NULL"}

Declared(dyn, tag) ==
  IF Given(dyn, tag) = {} THEN 0 ELSE dyn[Max(Given(dyn, tag))][2]

Stride(dyn, tag, default) ==
  LET sized == {i \in Given(dyn, tag) : dyn[i][2] # 0}
  IN  IF sized = {} THEN default ELSE dyn[Max(sized)][2]

(* Nothing is asked for but relative relocations, by a RELA and a RELR     *)
(* table that are where they should be and hold whole entries.             *)
RelaSound(dyn) ==
  /\ \E i \in 1 .. Len(dyn) : i <= MaxDyn /\ dyn[i][1] = "NULL"
  /\ Given(dyn, "NEEDED") = {}
  /\ Declared(dyn, "JMPREL") = 0 /\ Declared(dyn, "PLTRELSZ") = 0
  /\ Declared(dyn, "RELASZ") # 0 =>
       /\ Declared(dyn, "RELA") # 0
       /\ Stride(dyn, "RELAENT", RelaSize) = RelaSize
       /\ Declared(dyn, "RELASZ") % RelaSize = 0

RelrSound(dyn) ==
  LET stride == Stride(dyn, "RELRENT", Size)
  IN  Declared(dyn, "RELRSZ") # 0 =>
        /\ Declared(dyn, "RELR") # 0
        /\ stride >= Size /\ Declared(dyn, "RELRSZ") % stride = 0

(* An image that can be relocated: besides, a packed table begins with an  *)
(* address.                                                                *)
Fits(img) ==
  /\ RelaSound(img.dynamic) /\ RelrSound(img.dynamic)
  /\ \A i \in 1 .. Len(img.rela) : img.rela[i].type \in {"NONE", "RELATIVE"}
  /\ img.relr # <<>> => ~Odd(img.relr[1])

(* What a linker makes: tables as long as the dynamic section says and, in *)
(* an image that fits, each word named at most once.                       *)
AsLinked(img) ==
  /\ img.dynamic \in Seq(STRING \X Nat)
  /\ img.rela \in Seq([type : STRING, word : 0 .. ImageWords - 1, addend : Int])
  /\ img.relr \in Seq(Nat)
  /\ img.fit = Fits(img)
  /\ RelaSound(img.dynamic) =>
       Len(img.rela) = Declared(img.dynamic, "RELASZ") \div RelaSize
  /\ RelaSound(img.dynamic) /\ RelrSound(img.dynamic) =>
       Len(img.relr) = Declared(img.dynamic, "RELRSZ")
                         \div Stride(img.dynamic, "RELRENT", Size)
  /\ img.fit =>
       LET relative == {i \in 1 .. Len(img.rela) : img.rela[i].type = "RELATIVE"}
       IN  /\ img.targets =
                UNION {StandsFor(img.relr, i) : i \in 1 .. Len(img.relr)}
           /\ img.targets \subseteq 0 .. ImageWords - 1
           /\ \A i, j \in 1 .. Len(img.relr) :
                i # j => StandsFor(img.relr, i) \cap StandsFor(img.relr, j) = {}
           /\ \A i, j \in relative : i # j => img.rela[i].word # img.rela[j].word
           /\ \A i \in relative : img.rela[i].word \notin img.targets

-----------------------------------------------------------------------------
(* Properties.                                                             *)

(* Every word the linker asked for has been moved by the load bias exactly *)
(* once, or set to its addend plus the bias, and no other word has changed.*)
Relocated ==
  \A w \in DOMAIN mem :
    LET rela == {r \in {image.rela[i] : i \in 1 .. Len(image.rela)} :
                   r.type = "RELATIVE" /\ r.word = w}
    IN  mem[w] = IF w \in image.targets THEN Wrap(Bias + Linked(w))
                 ELSE IF rela # {}
                 THEN Wrap(Bias + (CHOOSE r \in rela : TRUE).addend)
                 ELSE Linked(w)
=============================================================================
