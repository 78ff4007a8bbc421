------------------------------ MODULE ModReloc ------------------------------
(***************************************************************************)
(* How modloader_reloc.c writes a relocation's value into the 32 bits at   *)
(* its place: the addend it reads there, the encoders, and the loop that   *)
(* applies the relocations of a section one after the other.  ModLoader    *)
(* says what S and T are (RelocValue); here they are given.                *)
(*                                                                         *)
(* Memory is a function from even addresses to halfwords, shared by the    *)
(* places: they may overlap, and two relocations may have one place.  The  *)
(* 32 bits at a place are a pair of halfwords, in memory order: an Arm     *)
(* instruction or a data word is w[2] * 65536 + w[1], a 32-bit Thumb       *)
(* instruction is w[1] followed by w[2].  A sum is an integer here; it is  *)
(* reduced modulo 2^32 where the code stores it.                           *)
(***************************************************************************)
EXTENDS Lk, Sequences

\* The loads: what the sections hold once they are copied, file, and the
\* relocations of those sections, rels.
CONSTANT Programs

Half == {n \in Nat : n < 65536}
Word == Half \X Half

Calls == {"CALL", "JUMP24", "THM_CALL", "THM_JUMP24"}
Moves == {"MOVW", "MOVT", "THM_MOVW", "THM_MOVT"}
Pointers == {"ABS32", "GLOB_DAT", "JUMP_SLOT", "TARGET2", "RELATIVE", "REL32",
             "PREL31"}
Ignored == {"NONE", "THM_PC12"}
Types == Calls \cup Moves \cup Pointers \cup Ignored \cup {"unsupported"}

\* A relocation: its place, the value and the Thumb bit of its symbol, and the
\* addend when it comes from an SHT_RELA.
Relocation == [type : Types, place : Nat, sym : Nat,
               thumb : BOOLEAN, rela : BOOLEAN, addend : Int]

\* The halfwords at the place of r.
Cells(r) == {r.place, r.place + 2}

\* Places are even, and inside their section.
ASSUME ProgramsAssumption ==
    \A p \in Programs :
        /\ DOMAIN p.file \subseteq Nat
        /\ p.file \in [DOMAIN p.file -> Half]
        /\ p.rels \in Seq(Relocation)
        /\ \A i \in DOMAIN p.rels :
               p.rels[i].place % 2 = 0 /\ Cells(p.rels[i]) \subseteq DOMAIN p.file

------------------------------------------------------------------------------
(***************************************************************************)
(* Bit fields: size values at weight unit of h.                            *)
(***************************************************************************)
Field(h, unit, size) == (h \div unit) % size

\* A sum stored in more than 32 bits, for the mutation runs.
WideWord(n) == <<n % 65536, n \div 65536>>

Int32(w) == (IF w[2] < 32768 THEN w[2] ELSE w[2] - 65536) * 65536 + w[1]
ToWord(n) == <<n % 65536, (n \div 65536) % 65536>>

\* n with the Thumb bit, (n | t).
Tagged(n, thumb) == IF thumb THEN SetBit0(n) ELSE n

SignExtend(val, sign) == IF val < sign THEN val ELSE val - 2 * sign

Equal(j, s) == IF j = s THEN 1 ELSE 0           \* ~(j ^ s) & 1

------------------------------------------------------------------------------
(***************************************************************************)
(* The addend an instruction holds.                                        *)
(***************************************************************************)
AddendThumbBranch(w) ==
    LET s == Field(w[1], 1024, 2)
    IN  SignExtend(s * 16777216
                   + Equal(Field(w[2], 8192, 2), s) * 8388608
                   + Equal(Field(w[2], 2048, 2), s) * 4194304
                   + Field(w[1], 1, 1024) * 4096
                   + Field(w[2], 1, 2048) * 2,
                   16777216)

AddendArmBranch(w) ==
    LET bitH == IF Field(w[2], 4096, 16) = 15 THEN Field(w[2], 256, 2) ELSE 0
    IN  SignExtend((Field(w[2], 1, 256) * 65536 + w[1]) * 4 + bitH * 2, 33554432)

AddendThumbMov(w) ==
    Field(w[1], 1, 16) * 4096 + Field(w[1], 1024, 2) * 2048
        + Field(w[2], 4096, 8) * 256 + Field(w[2], 1, 256)

AddendArmMov(w) == Field(w[2], 1, 16) * 4096 + Field(w[1], 1, 4096)

ReadAddend(type, w) ==
    CASE type \in {"ABS32", "GLOB_DAT", "JUMP_SLOT", "REL32"} -> Int32(w)
      [] type \in {"THM_CALL", "THM_JUMP24"} -> AddendThumbBranch(w)
      [] type \in {"CALL", "JUMP24"} -> AddendArmBranch(w)
      [] type \in {"THM_MOVW", "THM_MOVT"} -> AddendThumbMov(w)
      [] type \in {"MOVW", "MOVT"} -> AddendArmMov(w)
      [] OTHER -> 0

AddendOf(r, w) == IF r.rela THEN r.addend ELSE ReadAddend(r.type, w)

------------------------------------------------------------------------------
(***************************************************************************)
(* The encoders.                                                           *)
(***************************************************************************)
\* The J bits are written as they are, for the mutation runs.
PlainThumbBranch(w, result) ==
    LET r == Field(result, 2, 16777216)
    IN  << Field(w[1], 2048, 32) * 2048 + Field(r, 8388608, 2) * 1024
             + Field(r, 2048, 1024),
           Field(w[2], 16384, 4) * 16384 + Field(w[2], 4096, 2) * 4096
             + Field(r, 4194304, 2) * 8192 + Field(r, 2097152, 2) * 2048
             + Field(r, 1, 2048) >>

EncodeThumbBranch(w, result) ==
    LET r == Field(result, 2, 16777216)
        s == Field(r, 8388608, 2)
        i1 == Equal(Field(r, 4194304, 2), s)
        i2 == Equal(Field(r, 2097152, 2), s)
    IN  << Field(w[1], 2048, 32) * 2048 + s * 1024 + Field(r, 2048, 1024),
           Field(w[2], 16384, 4) * 16384 + Field(w[2], 4096, 2) * 4096
             + i1 * 8192 + i2 * 2048 + Field(r, 1, 2048) >>

EncodeThumbMov(w, value) ==
    << Field(w[1], 2048, 32) * 2048 + Field(value, 2048, 2) * 1024
         + Field(w[1], 16, 64) * 16 + Field(value, 4096, 16),
       Field(w[2], 32768, 2) * 32768 + Field(value, 256, 8) * 4096
         + Field(w[2], 256, 16) * 256 + Field(value, 1, 256) >>

\* The register is overwritten, for the mutation runs.
BareArmMov(w, value) ==
    << Field(value, 1, 4096), Field(w[2], 16, 4096) * 16 + Field(value, 4096, 16) >>

EncodeArmMov(w, value) ==
    << Field(w[1], 4096, 16) * 4096 + Field(value, 1, 4096),
       Field(w[2], 16, 4096) * 16 + Field(value, 4096, 16) >>

EncodeArmBranch(w, result) ==
    LET imm24 == Field(result, 4, 16777216)
    IN  << imm24 % 65536, Field(w[2], 256, 256) * 256 + imm24 \div 65536 >>

\* BLX, whose bit 24 is bit 1 of the offset.
ArmBlx(w, result) ==
    << w[1], (250 + Field(result, 2, 2)) * 256 + Field(w[2], 1, 256) >>

\* Bit 12 of the second halfword cleared: BL becomes BLX.
ThumbBlx(w) == << w[1], w[2] - Field(w[2], 4096, 2) * 4096 >>

------------------------------------------------------------------------------
(***************************************************************************)
(* modloader_apply_arm_reloc: what a place that holds w holds afterwards.  *)
(***************************************************************************)
\* Without the Thumb bit, for the mutation runs.
EvenPointer(r, w, addend) ==
    LET value == ClearBit0(r.sym) + addend
        offset == ToWord(value - r.place)
    IN  IF r.type = "REL32" THEN offset ELSE ToWord(value)

EncodePointer(r, w, addend) ==
    LET value == Tagged(ClearBit0(r.sym) + addend, r.thumb)
        offset == ToWord(value - r.place)
    IN  IF r.type = "RELATIVE" THEN ToWord(r.sym + addend)
        ELSE IF r.type = "REL32" THEN offset
        ELSE IF r.type = "PREL31"
        THEN << offset[1],
                Field(w[2], 32768, 2) * 32768 + Field(offset[2], 1, 32768) >>
        ELSE ToWord(value)

EncodeCall(r, w, addend) ==
    LET value == Tagged(ClearBit0(r.sym) + addend, r.thumb)
        result == value - r.place
        aligned == value - (r.place - (r.place % 4))
    IN  CASE r.type = "JUMP24" \/ (r.type = "CALL" /\ ~r.thumb) ->
               EncodeArmBranch(w, result)
          [] r.type = "CALL" /\ r.thumb ->
               ArmBlx(EncodeArmBranch(w, result), result)
          [] r.type = "THM_CALL" /\ ~r.thumb ->
               ThumbBlx(EncodeThumbBranch(w, aligned))
          [] OTHER -> EncodeThumbBranch(w, result)

\* MOVT without the carry of the addend into the high half, for the mutation
\* runs.
EncodeMoveApart(r, w, addend) ==
    LET low == Tagged(ClearBit0(r.sym) + addend, r.thumb) % 65536
        high == Field(r.sym, 65536, 65536)
    IN  CASE r.type = "MOVW" -> EncodeArmMov(w, low)
          [] r.type = "THM_MOVW" -> EncodeThumbMov(w, low)
          [] r.type = "MOVT" -> EncodeArmMov(w, high)
          [] OTHER -> EncodeThumbMov(w, high)

EncodeMove(r, w, addend) ==
    LET low == Tagged(ClearBit0(r.sym) + addend, r.thumb) % 65536
        high == Field(ClearBit0(r.sym) + addend, 65536, 65536)
    IN  CASE r.type = "MOVW" -> EncodeArmMov(w, low)
          [] r.type = "THM_MOVW" -> EncodeThumbMov(w, low)
          [] r.type = "MOVT" -> EncodeArmMov(w, high)
          [] OTHER -> EncodeThumbMov(w, high)

ApplyArmReloc(r, w, addend) ==
    IF r.type \in Pointers THEN EncodePointer(r, w, addend)
    ELSE IF r.type \in Calls THEN EncodeCall(r, w, addend)
    ELSE IF r.type \in Moves THEN EncodeMove(r, w, addend)
    ELSE w

------------------------------------------------------------------------------
(***************************************************************************)
(* The loop over the relocations.                                          *)
(***************************************************************************)
VARIABLES
    prog,       \* the sections and the relocations of this load
    mem,        \* the sections in memory
    next,       \* the relocation to apply
    status      \* err

vars == <<prog, mem, next, status>>

WordAt(m, place) == << m[place], m[place + 2] >>

Init ==
    /\ prog \in Programs
    /\ mem = prog.file
    /\ next = 1
    /\ status = NO_ERROR

Current == prog.rels[next]

\* modloader_apply_arm_reloc for the current relocation, its addend read in m.
WriteBack(m) ==
    LET place == Current.place
        v == ApplyArmReloc(Current, WordAt(mem, place),
                           AddendOf(Current, WordAt(m, place)))
    IN  mem' = [mem EXCEPT ![place] = v[1], ![place + 2] = v[2]]

\* The addend is read in the file, for the mutation runs.
ApplyUnread ==
    /\ status = NO_ERROR
    /\ next \in DOMAIN prog.rels
    /\ Current.type # "unsupported"
    /\ WriteBack(prog.file)
    /\ next' = next + 1
    /\ UNCHANGED <<prog, status>>

\* Both the addend of a REL relocation and the bits to keep are what memory
\* holds at the place by now.
Apply ==
    /\ status = NO_ERROR
    /\ next \in DOMAIN prog.rels
    /\ Current.type # "unsupported"
    /\ WriteBack(mem)
    /\ next' = next + 1
    /\ UNCHANGED <<prog, status>>

Refuse ==
    /\ status = NO_ERROR
    /\ next \in DOMAIN prog.rels
    /\ Current.type = "unsupported"
    /\ status' = NOT_SUPPORTED
    /\ UNCHANGED <<prog, mem, next>>

Next == Apply \/ Refuse

Spec == Init /\ [][Next]_vars

------------------------------------------------------------------------------
(***************************************************************************)
(* What the Arm architecture makes of the words, as it is specified: the   *)
(* address a branch goes to and the state it goes in, the immediate of a   *)
(* move, the address a pointer means.                                      *)
(***************************************************************************)
ThumbTypes == {"THM_CALL", "THM_JUMP24", "THM_MOVW", "THM_MOVT"}

IsArmBlx(w) == w[2] >= 61440
IsThumbBlx(w) == Field(w[2], 4096, 2) = 0

ThumbOffset(w) ==
    LET s == Field(w[1], 1024, 2)
        i1 == (Field(w[2], 8192, 2) + s + 1) % 2
        i2 == (Field(w[2], 2048, 2) + s + 1) % 2
    IN  Field(w[2], 1, 2048) * 2 + Field(w[1], 1, 1024) * 4096
          + i2 * 4194304 + i1 * 8388608 - s * 16777216

ArmOffset(w) ==
    (w[1] + Field(w[2], 1, 128) * 65536 - Field(w[2], 128, 2) * 8388608) * 4

Destination(type, w, place) ==
    IF type \in ThumbTypes
    THEN ThumbOffset(w)
           + (IF IsThumbBlx(w) THEN place - (place % 4) + 4 ELSE place + 4)
    ELSE place + 8 + ArmOffset(w)
           + (IF IsArmBlx(w) THEN 2 * Field(w[2], 256, 2) ELSE 0)

GoesToThumb(type, w) ==
    IF type \in ThumbTypes THEN ~IsThumbBlx(w) ELSE IsArmBlx(w)

Immediate(type, w) ==
    IF type \in ThumbTypes
    THEN Field(w[2], 1, 256) + 256 * Field(w[2], 4096, 8)
           + 2048 * Field(w[1], 1024, 2) + 4096 * Field(w[1], 1, 16)
    ELSE (w[1] % 4096) + 4096 * (w[2] % 16)

\* The address, modulo 2^32, that the pointer w at place stands for.
PointerTo(type, w, place) ==
    CASE type = "REL32" -> ToWord(Int32(w) + place)
      [] type = "PREL31" -> ToWord(place + w[1] + (w[2] % 16384) * 65536
                                   - Field(w[2], 16384, 2) * 1073741824)
      [] OTHER -> w

\* The bits of a word that are not the operand of a relocation of this type.
Opcode(type, w) ==
    IF type \in {"CALL", "JUMP24"} THEN <<w[2] \div 256>>
    ELSE IF type \in {"THM_CALL", "THM_JUMP24"}
    THEN <<w[1] \div 2048, w[2] \div 16384, Field(w[2], 4096, 2)>>
    ELSE IF type \in {"MOVW", "MOVT"} THEN <<w[1] \div 4096, w[2] \div 16>>
    ELSE IF type \in {"THM_MOVW", "THM_MOVT"}
    THEN << w[1] \div 2048, Field(w[1], 16, 64), w[2] \div 32768,
            Field(w[2], 256, 16) >>
    ELSE IF type = "PREL31" THEN <<w[2] \div 32768>>
    ELSE IF type \in Ignored THEN w
    ELSE << >>

------------------------------------------------------------------------------
(***************************************************************************)
(* What the source of a program means.                                     *)
(***************************************************************************)
\* The word the file has at the place of r.
FileWord(r) == WordAt(prog.file, r.place)

Bias(r) == IF r.type \in ThumbTypes THEN 4 ELSE 8

\* What branch r is to reach: the symbol, and as far beyond it as the
\* unrelocated instruction would go beyond its own place.
BranchGoal(r) ==
    ClearBit0(r.sym)
      + (IF r.rela THEN r.addend + Bias(r)
         ELSE Destination(r.type, FileWord(r), r.place) - r.place)

Reach(r) == IF r.type \in ThumbTypes THEN 16777216 ELSE 33554432

\* The compiler's half of the contract: an aligned branch, BL for a call, to
\* an aligned target in the state the target is in.  Only a call may change
\* the state.
Linkable(r) ==
    LET thumbHere == r.type \in ThumbTypes
        align == IF r.thumb THEN 2 ELSE 4
    IN  /\ r.place % (IF thumbHere THEN 2 ELSE 4) = 0
        /\ GoesToThumb(r.type, FileWord(r)) <=> thumbHere
        /\ r.type \in {"JUMP24", "THM_JUMP24"} => (r.thumb <=> thumbHere)
        /\ r.rela => r.addend % align = 0
        /\ BranchGoal(r) % align = 0

InReach(r) ==
    /\ BranchGoal(r) - r.place - Bias(r) >= - Reach(r)
    /\ BranchGoal(r) - r.place - Bias(r) < Reach(r) - 4

\* The addend of a move or of a pointer, as the ABI reads it: the entry's, or
\* the signed value of the operand at the place.
WrittenAddend(r) ==
    IF r.rela THEN r.addend
    ELSE CASE r.type \in Moves -> SignExtend(Immediate(r.type, FileWord(r)), 32768)
           [] r.type = "PREL31" ->
                FileWord(r)[1] + (FileWord(r)[2] % 16384) * 65536
                  - Field(FileWord(r)[2], 16384, 2) * 1073741824
           [] OTHER -> Int32(FileWord(r))

\* The address a move pair is to hold.
Goal(r) == Tagged(ClearBit0(r.sym) + WrittenAddend(r), r.thumb)

\* modloader_reloc_addend_thumb_mov and modloader_reloc_addend_arm_mov do not
\* extend the sign of the operand.
Excess(r) == IF ~r.rela /\ WrittenAddend(r) < 0 THEN 65536 ELSE 0

\* r and q are a MOVW and a MOVT of one address, both REL or both RELA.
IsPair(r, q) ==
    /\ r.type \in {"MOVW", "THM_MOVW"}
    /\ q.type \in {"MOVT", "THM_MOVT"}
    /\ r.sym = q.sym
    /\ r.thumb = q.thumb
    /\ r.rela = q.rela
    /\ WrittenAddend(r) = WrittenAddend(q)

\* The pointers whose addend modloader_load_rel_image reads at the place.  It
\* takes 0 for the others of an SHT_REL: TARGET2, PREL31 and RELATIVE.
InPlace == {"ABS32", "GLOB_DAT", "JUMP_SLOT", "REL32"}
ReadPointerAddend(r) ==
    IF r.rela \/ r.type \in InPlace THEN WrittenAddend(r) ELSE 0

\* The address pointer r is to mean, for addend a: a RELATIVE, the load address
\* itself, has no Thumb bit.
PointerGoal(r, a) ==
    IF r.type = "RELATIVE" THEN r.sym + a
    ELSE Tagged(ClearBit0(r.sym) + a, r.thumb)

\* 31 bits are enough when the place and the target are below 2^30.
Representable(r) ==
    LET goal == PointerGoal(r, ReadPointerAddend(r))
    IN  r.type = "PREL31" =>
            r.place < 1073741824 /\ goal >= 0 /\ goal < 1073741824

\* The number an ABS32 or REL32 stands for where it is stored.
Stored(r, a) ==
    PointerGoal(r, a) - (IF r.type = "REL32" THEN r.place ELSE 0)

Applied(i) == i < next /\ i \in DOMAIN prog.rels

\* No relocation but i and j changes a halfword at the place of i.
Alone(i, j) ==
    \A k \in DOMAIN prog.rels \ {i, j} :
        Cells(prog.rels[k]) \cap Cells(prog.rels[i]) = {}
Apart(i) == Alone(i, i)

------------------------------------------------------------------------------
TypeOK ==
    /\ prog \in Programs
    /\ mem \in [DOMAIN prog.file -> Half]
    /\ next \in 1 .. Len(prog.rels) + 1
    /\ status \in {NO_ERROR, NOT_SUPPORTED}

\* Two relocations of one place compose, as the ABI has it: the second takes
\* for its addend what the first has left there, not what the file had, and
\* the word stands for both their symbols and the file's addend (a difference
\* of symbols, a sum, a distance).
RelocsCompose ==
    \A i, j \in DOMAIN prog.rels :
        LET r == prog.rels[i]
            q == prog.rels[j]
        IN  /\ i < j /\ Applied(j) /\ r.place = q.place /\ Alone(i, j)
            /\ r.type \in InPlace /\ q.type \in InPlace /\ ~q.rela
            => WordAt(mem, q.place) = ToWord(Stored(q, Stored(r, WrittenAddend(r))))

\* Every branch the compiler may emit, to a target its offset can express,
\* goes where the source says, in the state the target is in: the addend, the
\* pipeline offset, the J bits and the BL to BLX conversions agree.
BranchesReach ==
    \A i \in DOMAIN prog.rels :
        LET r == prog.rels[i]
            w == WordAt(mem, r.place)
        IN  /\ Applied(i) /\ Apart(i)
            /\ r.type \in Calls /\ Linkable(r) /\ InReach(r)
            => /\ Destination(r.type, w, r.place) = BranchGoal(r)
               /\ GoesToThumb(r.type, w) <=> r.thumb

\* A MOVW and a MOVT for the same symbol and addend build, together, the
\* address of the symbol and the addend, with the Thumb bit: also when the sum
\* carries into the high half.  For a negative addend in the instruction they
\* still agree, on an address 64 KiB beyond it.
MovePairsBuild ==
    \A i, j \in DOMAIN prog.rels :
        LET r == prog.rels[i]
            q == prog.rels[j]
        IN  /\ Applied(i) /\ Applied(j) /\ Apart(i) /\ Apart(j)
            /\ IsPair(r, q)
            => << Immediate(r.type, WordAt(mem, r.place)),
                  Immediate(q.type, WordAt(mem, q.place)) >>
                 = ToWord(Goal(r) + Excess(r))

\* A pointer means the symbol's address and the addend, from wherever it is
\* read: absolute, or relative to its own place, 31 bits of it or 32.  A REL
\* TARGET2, PREL31 or RELATIVE means the symbol alone, whatever addend the file
\* has at its place.
PointersReach ==
    \A i \in DOMAIN prog.rels :
        LET r == prog.rels[i]
        IN  /\ Applied(i) /\ Apart(i)
            /\ r.type \in Pointers /\ Representable(r)
            => PointerTo(r.type, WordAt(mem, r.place), r.place)
                 = ToWord(PointerGoal(r, ReadPointerAddend(r)))

\* Relocation changes the operand of an instruction and no other bit of it:
\* condition, link bit, registers and the top bit of a PREL31 are the
\* compiler's.  Only a call between Arm and Thumb has its opcode changed.
OpcodesKept ==
    \A i \in DOMAIN prog.rels :
        LET r == prog.rels[i]
        IN  /\ Apart(i)
            /\ ~(r.type = "CALL" /\ r.thumb) /\ ~(r.type = "THM_CALL" /\ ~r.thumb)
            => Opcode(r.type, WordAt(mem, r.place)) = Opcode(r.type, FileWord(r))
==============================================================================
