------------------------------ MODULE MCRtld ------------------------------
(***************************************************************************)
(* Command lines of up to MaxArgs arguments after the interpreter's name,  *)
(* drawn from every kind, and the empty one, under three kernels: one that *)
(* mapped the program, one that ran the interpreter with an interpreter    *)
(* base, and one that ran it without.                                      *)
(*                                                                         *)
(* Images of the interpreter: every set of words packed into a RELR table  *)
(* the way a linker packs it, with and without RELA entries, and images    *)
(* that are unfit for one reason each.                                     *)
(*                                                                         *)
(* Files for --list and --verify: every dynamic section of a few entries,  *)
(* with its string table right behind another segment, files with one      *)
(* defect each, and files that verify accepts and no loader would.         *)
(*                                                                         *)
(* Every command line is met with an image that needs no relocation, every *)
(* image with one command line, and every file with two: no part looks at  *)
(* the data of another, only at its success.                               *)
(***************************************************************************)
EXTENDS Rtld, FiniteSetsExt

CONSTANTS MaxArgs, MaxEnv

(* 101, 102: program or value; 103: --argv0; 104: --library-path; 105:     *)
(* --inhibit-cache; 106: --help; 107: --list; 108: an unknown option; 109: *)
(* --verify.                                                               *)
Kinds ==
  [p \in 101 .. 109 |->
     <<"program", "program", "argv0", "value", "flag", "query", "list",
       "unknown", "verify">>[p - 100]]

Tails == UNION {[1 .. n -> 101 .. 108] : n \in 0 .. MaxArgs}

Auxes ==
  {<< <<25, 7>>, <<AT_PHDR, 505>>, <<AT_PHENT, 56>>, <<AT_PHNUM, 3>>,
      <<AT_BASE, 0>>, <<AT_ENTRY, 502>> >>,
   << <<AT_PHDR, 505>>, <<AT_PHENT, 56>>, <<AT_PHNUM, 3>>, <<AT_BASE, 503>>,
      <<AT_ENTRY, 502>>, <<AT_EXECFN, 504>> >>,
   << <<AT_PHDR, 602>>, <<AT_PHENT, 56>>, <<AT_PHNUM, 2>>, <<AT_BASE, 503>>,
      <<AT_ENTRY, 602>> >>}

(* The interpreter is at 503, its dynamic section at 520; the program is   *)
(* at 600.                                                                 *)
Mapped ==
  [a \in {505, 602} |->
     IF a = 505
     THEN <<[type |-> "PHDR", vaddr |-> 2], [type |-> "LOAD", vaddr |-> 0],
            [type |-> "DYNAMIC", vaddr |-> 17]>>
     ELSE <<[type |-> "PHDR", vaddr |-> 2], [type |-> "DYNAMIC", vaddr |-> 17]>>]

Inputs ==
  {[argv |-> argv, envp |-> [i \in 1 .. n |-> 300 + i], aux |-> aux] :
     argv \in {<<>>} \cup {<<101>> \o tail : tail \in Tails},
     n \in 0 .. MaxEnv, aux \in Auxes}

-----------------------------------------------------------------------------
(* The linker's encoding of a set of words: addr is the word after the     *)
(* last ones covered, or ImageWords + 1 when there is none yet.            *)
Packed ==
  LET bitmap(a, S) == 1 + SumSet({2^(w - a + 1) : w \in S})
      enc[a \in 0 .. ImageWords + W, S \in SUBSET (0 .. ImageWords - 1)] ==
        LET near == {w \in S : a <= w /\ w < a + W - 1}
        IN  IF S = {} THEN <<>>
            ELSE IF near # {}
            THEN <<bitmap(a, near)>> \o enc[a + W - 1, S \ near]
            ELSE LET w == Min(S)
                 IN  <<w * Size>> \o enc[w + 1, S \ {w}]
  IN  [S \in SUBSET (0 .. ImageWords - 1) |-> enc[ImageWords + 1, S]]

Dynamic(rela, relr) ==
  << <<"RELA", 4>>, <<"RELASZ", RelaSize * Len(rela)>>, <<"RELAENT", 0>>,
     <<"RELR", 8>>, <<"RELRSZ", Size * Len(relr)>>, <<"RELRENT", Size>>,
     <<"NULL", 0>> >>

Img(rela, S, section, fit) ==
  [dynamic |-> section, rela |-> rela, relr |-> Packed[S], targets |-> S,
   fit |-> fit]

Rela ==
  {<<>>,
   <<[type |-> "NONE", word |-> 0, addend |-> 0],
     [type |-> "RELATIVE", word |-> 5, addend |-> 9]>>}

Fit ==
  UNION {{Img(rela, S, Dynamic(rela, Packed[S]), TRUE) :
            S \in SUBSET ((0 .. ImageWords - 1) \ {r.word : r \in
                            {rela[i] : i \in 1 .. Len(rela)}})} : rela \in Rela}

(* One defect each: the entry of the dynamic section that carries it comes *)
(* first or overrides the sound one.                                       *)
Unfit ==
  LET S == {0, 2, 4}
      sound == Dynamic(<<>>, Packed[S])
      bad == [type |-> "COPY", word |-> 1, addend |-> 0]
      before(e) == <<e>> \o sound
      after(e) == SubSeq(sound, 1, 6) \o <<e, <<"NULL", 0>> >>
  IN  {Img(<<>>, S, before(e), FALSE) :
         e \in {<<"NEEDED", 1>>, <<"JMPREL", 1>>, <<"PLTRELSZ", 1>>}}
      \cup {Img(<<>>, S, after(e), FALSE) :
              e \in {<<"RELRSZ", 2 * Size + 1>>, <<"RELR", 0>>,
                     <<"RELRENT", Size - 1>>, <<"RELASZ", 1>>}}
      \cup {Img(<<bad>>, {}, Dynamic(<<bad>>, <<>>), FALSE),
            Img(<<>>, S, [i \in 1 .. MaxDyn + 1 |->
                            IF i <= MaxDyn THEN <<"SONAME", 1>>
                            ELSE <<"NULL", 0>>], FALSE),
            [dynamic |-> Dynamic(<<>>, <<3>>), rela |-> <<>>, relr |-> <<3>>,
             targets |-> {}, fit |-> FALSE]}

Images == Fit \cup Unfit

(* The names 1 and 2 3, the second at offset 2 of the table.               *)
Phdr(type, offset, vaddr, filesz) ==
  [type |-> type, offset |-> offset, vaddr |-> vaddr, filesz |-> filesz]

Phdrs == <<Phdr("LOAD", 0, 10, 4), Phdr("LOAD", 6, 14, 6),
           Phdr("DYNAMIC", 4, 30, MaxEntries)>>

Obj(header, phnum, phdr, dyn) ==
  [header |-> header, phnum |-> phnum, phdr |-> phdr, dyn |-> dyn,
   stays |-> TRUE,
   bytes |-> [i \in 0 .. 11 |-> <<9, 9, 9, 9, 9, 9, 1, 0, 2, 3, 0, 0>>[i + 1]]]

Entry == {<<"NEEDED", 0>>, <<"NEEDED", 2>>, <<"STRTAB", 14>>, <<"STRSZ", 6>>,
          <<"NULL", 0>>}

Plain == << <<"STRTAB", 14>>, <<"NEEDED", 2>>, <<"STRSZ", 6>>, <<"NULL", 0>> >>

(* Segments that overlap, that reach past the end of the file, that cut    *)
(* the name off, a dynamic section at offset 0, and one that goes on.      *)
Odd ==
  {[Phdrs EXCEPT ![1] = Phdr("LOAD", 0, 12, 4)],
   [Phdrs EXCEPT ![2] = Phdr("LOAD", 6, 14, 9)],
   [Phdrs EXCEPT ![2] = Phdr("LOAD", 6, 14, 3)],
   [Phdrs EXCEPT ![3] = Phdr("DYNAMIC", 0, 30, MaxEntries)],
   [Phdrs EXCEPT ![3] = Phdr("DYNAMIC", 4, 30, MaxEntries + 1)]}

Files ==
  LET far == [i \in 1 .. MaxLoads |-> Phdr("LOAD", 0, 100 * i, 4)] \o Phdrs
  IN  {Obj("ok", 3, Phdrs, dyn) : dyn \in [1 .. MaxEntries -> Entry]}
      \cup {Obj(h, 3, Phdrs, Plain) :
              h \in Look!Header \ {"ok"}}
      \cup {Obj("ok", 0, <<>>, Plain), Obj("ok", 4, Phdrs, Plain),
            Obj("ok", MaxPhdrs + 1, Phdrs, Plain),
            Obj("ok", Len(far), far, Plain),
            Obj("ok", 2, SubSeq(Phdrs, 1, 2), Plain),
            Obj("ok", 3, Phdrs, SubSeq(Plain, 1, 3)),
            Obj("ok", 3, Phdrs, << <<"STRTAB", 24>>, <<"STRSZ", 6>>,
                                   <<"NULL", 0>> >>),
            [Obj("ok", 3, Phdrs, Plain) EXCEPT !.stays = FALSE]}
      \cup {Obj("ok", 3, phdrs, Plain) : phdrs \in Odd}

Starts ==
  LET plain == CHOOSE img \in Images : img.targets = {} /\ img.rela = <<>>
                                       /\ img.fit
      run == CHOOSE i \in Inputs : Len(i.argv) = 2 /\ i.aux[1] = <<25, 7>>
      obj == Obj("ok", 3, Phdrs, Plain)
      look == {[run EXCEPT !.argv = <<101, option, 102>>] :
                 option \in {107, 109}}
  IN  (Inputs \X {plain} \X {obj}) \cup ({run} \X Images \X {obj})
        \cup (look \X {plain} \X Files)
=============================================================================
