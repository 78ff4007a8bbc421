----------------------------- MODULE MCModReloc -----------------------------
(***************************************************************************)
(* Instances of ModReloc for TLC.  Branches: every call type, BL, B and    *)
(* BLX with the addends assemblers leave, from an aligned and an unaligned *)
(* place to targets around the place, at each power of two whose bit the   *)
(* encoders treat apart, and at both ends of the range.  Moves: pairs of   *)
(* each instruction set around a carry into the high half, with addends of *)
(* either sign.  Pointers: every type, behind a relocation that is refused *)
(* or ignored.  Shared: two pointers at one place, with a third apart from *)
(* them or over half of their word.                                        *)
(***************************************************************************)
EXTENDS ModReloc

Here == 33554432

\* A relocation, and the word the file has at its place.
Rel(type, place, word, sym, thumb) ==
    [reloc |-> [type |-> type, place |-> place, sym |-> sym, thumb |-> thumb,
                rela |-> FALSE, addend |-> 0],
     word |-> word]
Rela(type, place, word, sym, thumb, addend) ==
    [reloc |-> [type |-> type, place |-> place, sym |-> sym, thumb |-> thumb,
                rela |-> TRUE, addend |-> addend],
     word |-> word]

\* A load of such relocations: the halfwords are those of the first of them.
Load(sites) ==
    LET covers(i) == Cells(sites[i].reloc)
        first(h) == CHOOSE i \in DOMAIN sites :
                        h \in covers(i) /\ \A k \in 1 .. i - 1 : h \notin covers(k)
    IN  [file |-> [h \in UNION {covers(i) : i \in DOMAIN sites} |->
                      LET site == sites[first(h)]
                      IN  IF h = site.reloc.place THEN site.word[1] ELSE site.word[2]],
         rels |-> [i \in DOMAIN sites |-> sites[i].reloc]]

\* BL, BLX and B to itself in REL form: addend -4 or -8; and BL with addend 96.
ThumbWords == {<<63487, 65534>>, <<63487, 61438>>, <<63487, 49150>>,
               <<61440, 63536>>}
ArmWords == {<<65534, 60415>>, <<65534, 60159>>, <<65534, 64511>>,
             <<24, 60160>>}

Distances == {-33554424, -33554432, -16777216, -12582912, -8388608, -4194304,
              -2048, -4, 0, 2, 4, 4096, 4194304, 8388606, 8388608, 12582912,
              16777210, 16777212, 33554420, 33554422}

Branches ==
    {<<Rel(t, Here + p, w, Here + d, th)>> :
        t \in {"THM_CALL", "THM_JUMP24"}, p \in {0, 2}, w \in ThumbWords,
        d \in Distances, th \in BOOLEAN}
    \cup {<<Rel(t, Here + p, w, Here + d, th)>> :
        t \in {"CALL", "JUMP24"}, p \in {0, 4}, w \in ArmWords,
        d \in Distances, th \in BOOLEAN}
    \cup {<<Rela("THM_CALL", Here + 2, w, Here + d, th, a)>> :
        w \in ThumbWords, d \in Distances, th \in BOOLEAN, a \in {-4, 4096}}

\* MOVW r3, #imm; MOVT r3, #imm (Arm) and MOVW r3, #imm; MOVT r3, #imm (Thumb).
ArmMov(op, imm) == <<12288 + (imm % 4096), op * 16 + (imm \div 4096)>>
ThumbMov(op, imm) ==
    << op + ((imm \div 2048) % 2) * 1024 + imm \div 4096,
       768 + ((imm \div 256) % 8) * 4096 + (imm % 256) >>

\* 65532 is the addend -4.
MovePairs ==
    {<<Rel("MOVW", Here, ArmMov(3632, imm), sym, th),
       Rel("MOVT", Here + 4, ArmMov(3636, imm), sym, th)>> :
        imm \in {0, 4, 240, 32767, 32768, 65532},
        sym \in {Here, Here + 65532, 65536 * 2047 + 65297}, th \in BOOLEAN}
    \cup {<<Rel("THM_MOVW", Here, ThumbMov(62016, imm), sym, th),
            Rel("THM_MOVT", Here + 4, ThumbMov(62144, imm), sym, th)>> :
        imm \in {0, 4, 240, 65532},
        sym \in {Here, Here + 65532, 65536 * 2047 + 65297}, th \in BOOLEAN}
    \cup {<<Rela("THM_MOVW", Here, ThumbMov(62016, 0), Here, th, a),
            Rela("MOVT", Here + 4, ArmMov(3636, 0), Here, th, a)>> :
        th \in BOOLEAN, a \in {-32769, -2, 65535, 8388608}}

PointerPrograms ==
    {<<Rel(t1, Here, <<8, 0>>, Here + 100, th),
       Rel(t2, Here + 4, <<16, 0>>, Here + 65400, FALSE),
       Rel(t3, Here + 8, <<65520, 65535>>, Here + 100, th)>> :
        t1 \in {"ABS32", "REL32", "PREL31", "RELATIVE"},
        t2 \in {"NONE", "TARGET2", "unsupported"},
        t3 \in {"GLOB_DAT", "REL32", "TARGET2"}, th \in BOOLEAN}
    \cup {<<Rela("PREL31", Here + 4, <<1, h>>, Here + d, th, a),
            Rela(t, Here + 8, <<0, 0>>, Here + d, th, a)>> :
        h \in {0, 32768}, d \in {-4096, 0, 1073741824 - Here - 2},
        t \in {"ABS32", "REL32", "PREL31", "RELATIVE"}, th \in BOOLEAN,
        a \in {-4, 0}}

\* The addend is -16; the third relocation is apart from the others, or over
\* the high half of their word, before them or after them.
SharedPrograms ==
    LET first(t, th) == Rel(t, Here, <<65520, 65535>>, Here + 100, th)
        entry(th) == Rela("ABS32", Here, <<1, 1>>, Here + 65400, th, -2)
        second(t, th) == Rel(t, Here, <<0, 0>>, Here + 4096, th)
        third(p) == Rel("ABS32", Here + p, <<8, 0>>, Here, FALSE)
    IN  {<<first(t1, th1), second(t2, th2)>> :
            t1 \in InPlace, t2 \in InPlace, th1 \in BOOLEAN, th2 \in BOOLEAN}
        \cup {<<entry(th1), third(4), second(t2, th2)>> :
            t2 \in InPlace, th1 \in BOOLEAN, th2 \in BOOLEAN}
        \cup {<<first(t, FALSE), third(2), second("ABS32", TRUE)>> : t \in InPlace}
        \cup {<<third(2), first(t, FALSE), second("REL32", TRUE)>> : t \in InPlace}

MCPrograms ==
    {Load(sites) :
        sites \in Branches \cup MovePairs \cup PointerPrograms \cup SharedPrograms}
==============================================================================
