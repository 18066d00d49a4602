------------------------------ MODULE Inspect ------------------------------
(***************************************************************************)
(* rtld --verify FILE and rtld --list FILE: inspect_fd reads the ELF       *)
(* header, the program headers and the dynamic section of a file into      *)
(* arrays of fixed size, finds the string table in the file through the    *)
(* load segments it kept, and list prints the names of DT_NEEDED.          *)
(*                                                                         *)
(* A file is what these reads find in it.  pread_exact repeats short       *)
(* reads; it fails where the file ends.  Sizes of the dynamic section are  *)
(* in entries.  The file keeps its contents; it may be gone when list      *)
(* opens it for the second time.  Sums of offsets do not wrap.             *)
(***************************************************************************)
EXTENDS Integers, Sequences, FiniteSets

CONSTANTS MaxPhdrs, MaxLoads, MaxNeeded, MaxEntries  \* MAX_PHDRS, ..., MAX_DYN

VARIABLES
  mode,     \* "verify" or "list"
  file,
  step,
  pos,      \* the loop index
  loads,    \* the load segments kept
  dynamic,  \* the dynamic segment: its offset and its size
  needed, strtab, strsz,   \* ElfInfo, strtab still as an address
  printed,  \* the names written
  verdict   \* 0 or 1, or 2 before there is one

(* header: what open, and the checks of the first 64 bytes, find; phnum:   *)
(* e_phnum, of which phdr is what the file holds; dyn: the entries at the  *)
(* dynamic segment; bytes: the rest of the file, by offset; stays: whether *)
(* it can be opened a second time.                                         *)
Header == {"ok", "no file", "short", "not ELF", "unsupported"}

Init(f) ==
  /\ file = f
  /\ step = "header"
  /\ pos = 1
  /\ loads = <<>>
  /\ dynamic = [offset |-> 0, size |-> 0]
  /\ needed = <<>>
  /\ strtab = 0
  /\ strsz = 0
  /\ printed = <<>>
  /\ verdict = 2

Verdict(code) ==
  /\ verdict' = code
  /\ step' = "done"
  /\ UNCHANGED <<file, pos, loads, dynamic, needed, strtab, strsz, printed>>

Goto(label) ==
  /\ step' = label
  /\ pos' = 1
  /\ UNCHANGED <<file, loads, dynamic, needed, strtab, strsz, printed,
                 verdict>>

-----------------------------------------------------------------------------
InspectHeader ==
  /\ step = "header"
  /\ IF file.header # "ok" \/ file.phnum \notin 1 .. MaxPhdrs
     THEN Verdict(1) ELSE Goto("phdrs")

(* One program header.  A load segment that finds the array full is        *)
(* dropped; the last dynamic segment counts.                               *)
ReadPhdr ==
  LET p == file.phdr[pos]
  IN  /\ step = "phdrs"
      /\ pos <= file.phnum
      /\ IF pos > Len(file.phdr) THEN Verdict(1)
         ELSE /\ loads' = IF p.type = "LOAD" /\ Len(loads) < MaxLoads
                          THEN Append(loads, p) ELSE loads
              /\ dynamic' = IF p.type = "DYNAMIC"
                            THEN [offset |-> p.offset, size |-> p.filesz]
                            ELSE dynamic
              /\ pos' = pos + 1
              /\ UNCHANGED <<file, step, needed, strtab, strsz, printed,
                             verdict>>

EndPhdrs ==
  /\ step = "phdrs"
  /\ pos > file.phnum
  /\ IF dynamic.offset = 0 \/ dynamic.size = 0 THEN Verdict(1)
     ELSE Goto("dynamic")

InDynamic == pos <= dynamic.size /\ pos <= MaxEntries

ReadDyn ==
  LET e == file.dyn[pos]
  IN  /\ step = "dynamic"
      /\ InDynamic
      /\ IF pos > Len(file.dyn) THEN Verdict(1)
         ELSE /\ e[1] # "NULL"
              /\ needed' = IF e[1] = "NEEDED" /\ Len(needed) < MaxNeeded
                           THEN Append(needed, e[2]) ELSE needed
              /\ strtab' = IF e[1] = "STRTAB" THEN e[2] ELSE strtab
              /\ strsz' = IF e[1] = "STRSZ" THEN e[2] ELSE strsz
              /\ pos' = pos + 1
              /\ UNCHANGED <<file, step, loads, dynamic, printed, verdict>>

(* A fault of Covers: one byte more than the file gives to the segment.    *)
CoversEnd(p, vaddr) == p.vaddr <= vaddr /\ vaddr - p.vaddr <= p.filesz

Covers(p, vaddr) == p.vaddr <= vaddr /\ vaddr - p.vaddr < p.filesz

(* vaddr_to_offset: the first of the segments kept that covers vaddr.      *)
Offsets(vaddr) ==
  {loads[i].offset + (vaddr - loads[i].vaddr) :
     i \in {i \in 1 .. Len(loads) :
              /\ Covers(loads[i], vaddr)
              /\ \A j \in 1 .. i - 1 : ~Covers(loads[j], vaddr)}}

EndDyn ==
  /\ step = "dynamic"
  /\ \/ ~InDynamic
     \/ pos <= Len(file.dyn) /\ file.dyn[pos][1] = "NULL"
  /\ IF strtab = 0 \/ strsz = 0 \/ Offsets(strtab) = {} THEN Verdict(1)
     ELSE IF mode = "verify" THEN Verdict(0)
     ELSE IF file.stays THEN Goto("names") ELSE Verdict(1)

(* The bytes up to a zero, the limit or the end of the file.               *)
StringAt(bytes, offset, limit) ==
  LET stops(i) == \/ i = offset + limit
                  \/ i \notin DOMAIN bytes
                  \/ bytes[i] = 0
      end == CHOOSE i \in offset .. offset + limit :
               stops(i) /\ \A j \in offset .. i - 1 : ~stops(j)
  IN  [i \in 1 .. end - offset |-> bytes[offset + i - 1]]

(* list: print_string_from_file for one name.                              *)
PrintName ==
  /\ step = "names"
  /\ pos <= Len(needed)
  /\ \E o \in Offsets(strtab) :
       printed' = Append(printed, StringAt(file.bytes, o + needed[pos], strsz))
  /\ pos' = pos + 1
  /\ UNCHANGED <<file, step, loads, dynamic, needed, strtab, strsz, verdict>>

EndNames == step = "names" /\ pos > Len(needed) /\ Verdict(0)

Next ==
  \/ InspectHeader
  \/ ReadPhdr \/ EndPhdrs
  \/ ReadDyn \/ EndDyn
  \/ PrintName \/ EndNames

-----------------------------------------------------------------------------
(* The reference: what a file f says of itself, whatever its size.         *)

Segments(f, type) == {i \in 1 .. Len(f.phdr) : f.phdr[i].type = type}

Last(S) == CHOOSE i \in S : \A j \in S : j <= i

(* The size of the dynamic section.  One at offset 0 would be the ELF      *)
(* header itself, and counts as none.                                      *)
Extent(f) ==
  LET D == Segments(f, "DYNAMIC")
  IN  IF D = {} THEN 0
      ELSE IF f.phdr[Last(D)].offset = 0 THEN 0 ELSE f.phdr[Last(D)].filesz

(* The entries with this tag, up to DT_NULL.                               *)
Tagged(f, tag) ==
  {i \in 1 .. Len(f.dyn) :
     /\ i <= Extent(f)
     /\ f.dyn[i][1] = tag
     /\ \A j \in 1 .. i : f.dyn[j][1] # "NULL"}

Value(f, tag) ==
  IF Tagged(f, tag) = {} THEN 0 ELSE f.dyn[Last(Tagged(f, tag))][2]

(* Where the loaded byte at vaddr comes from.                              *)
Span(p) == p.vaddr .. p.vaddr + p.filesz - 1

Place(p, vaddr) == p.offset + (vaddr - p.vaddr)

Source(f, vaddr) ==
  {Place(f.phdr[i], vaddr) :
     i \in {i \in Segments(f, "LOAD") : vaddr \in Span(f.phdr[i])}}

Sound(f) ==
  /\ f.header = "ok"
  /\ f.phnum \in 1 .. MaxPhdrs
  /\ Len(f.phdr) = f.phnum
  /\ Extent(f) > 0
  /\ \/ Len(f.dyn) >= Extent(f)
     \/ \E i \in 1 .. Len(f.dyn) : f.dyn[i][1] = "NULL"
  /\ Value(f, "STRSZ") # 0
  /\ Value(f, "STRTAB") # 0 /\ Source(f, Value(f, "STRTAB")) # {}

(* The bytes at address vaddr: one, or none.                               *)
ByteAt(f, vaddr) == {f.bytes[o] : o \in Source(f, vaddr)}

(* The name at offset v of the string table, as a program would read it    *)
(* from memory.                                                            *)
NameAt(f, v) ==
  LET start == Value(f, "STRTAB") + v
      len == CHOOSE n \in 0 .. Value(f, "STRSZ") :
               /\ ByteAt(f, start + n) = {0}
               /\ \A i \in 0 .. n - 1 : ByteAt(f, start + i) # {0}
  IN  [i \in 1 .. len |-> CHOOSE b \in ByteAt(f, start + (i - 1)) : TRUE]

(* How many members of a set of numbers come before i.                     *)
Rank(S, i) == Cardinality({j \in S : j < i})

(* All the names that the file needs, in their order.                      *)
Names(f) ==
  LET at == Tagged(f, "NEEDED")
      nth(n) == CHOOSE i \in at : Rank(at, i) = n - 1
  IN  [n \in 1 .. Cardinality(at) |-> NameAt(f, f.dyn[nth(n)][2])]

(* A name of the string table ends, with its zero byte, in the segment in  *)
(* which the table begins.                                                 *)
Closed(f, v) ==
  \E i \in Segments(f, "LOAD"), n \in 0 .. Value(f, "STRSZ") :
    LET end == Value(f, "STRTAB") + v + n
    IN  /\ {Value(f, "STRTAB"), end} \subseteq Span(f.phdr[i])
        /\ f.bytes[Place(f.phdr[i], end)] = 0

(* The file is one that a loader would map as it stands: its segments do   *)
(* not overlap, they are in the file, and the names it needs end.          *)
Loadable(f) ==
  /\ \A i, j \in Segments(f, "LOAD") :
       i # j => Span(f.phdr[i]) \cap Span(f.phdr[j]) = {}
  /\ \A i \in Segments(f, "LOAD") :
       f.phdr[i].offset .. f.phdr[i].offset + f.phdr[i].filesz - 1
         \subseteq DOMAIN f.bytes
  /\ \A i \in Tagged(f, "NEEDED") : Closed(f, f.dyn[i][2])

(* The dynamic section ends before the loop over it gives up.              *)
ShortDynamic(f) ==
  \/ Extent(f) <= MaxEntries
  \/ \E i \in 1 .. Len(f.dyn) : i <= MaxEntries /\ f.dyn[i][1] = "NULL"

FewLoads(f) == Cardinality(Segments(f, "LOAD")) <= MaxLoads

(* What a file is made of: phdr is what it holds of the program headers    *)
(* that it announces.                                                      *)
OnDisk(f) ==
  /\ f.phdr \in Seq([type : STRING, offset : Nat, vaddr : Nat, filesz : Nat])
  /\ f.dyn \in Seq(STRING \X Nat)
  /\ f.phnum \in Nat /\ Len(f.phdr) <= f.phnum

(* A file is accepted only if its dynamic section can be read and its      *)
(* string table is in a segment, and such a file is refused only if it has *)
(* more load segments than the array holds or is gone at the second open.  *)
(* Of a file that can be loaded, --list prints the names that the loaded   *)
(* program would find, in their order, all of them or the first MaxNeeded: *)
(* print_help speaks of the direct dependencies without that limit, which  *)
(* the code meets without a word.  Nothing is said of a dynamic section    *)
(* that goes on behind entry MaxEntries.                                   *)
Inspected ==
  verdict # 2 /\ ShortDynamic(file) =>
    /\ verdict = 0 => Sound(file)
    /\ Sound(file) /\ FewLoads(file) /\ (mode = "verify" \/ file.stays)
         => verdict = 0
    /\ verdict = 0 /\ mode = "list" /\ Loadable(file) =>
         /\ printed = SubSeq(Names(file), 1, Len(printed))
         /\ Len(printed) \in {Len(Names(file)), MaxNeeded}
=============================================================================
