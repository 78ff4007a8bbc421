--------------------------- MODULE ModRelocProofs ---------------------------
(***************************************************************************)
(* ModReloc, for every program.  The inductive invariant says what memory  *)
(* holds at a place: for a relocation apart from all others, the word of   *)
(* the file until it is applied and then that word relocated (OncePlaced); *)
(* for two of one place, the same, and then the second on the word the     *)
(* first has left (TwicePlaced).  What the encoders make of a word is what *)
(* the architecture decodes.                                               *)
(***************************************************************************)
EXTENDS ModReloc, TLAPS

------------------------------------------------------------------------------
(***************************************************************************)
(* Fields and words.                                                       *)
(***************************************************************************)
LEMMA WordHalves ==
    ASSUME NEW w \in Word
    PROVE  /\ w[1] \in Nat /\ w[1] < 65536
           /\ w[2] \in Nat /\ w[2] < 65536
BY DEF Word, Half

LEMMA ToWordType == ASSUME NEW n \in Int PROVE ToWord(n) \in Word
BY DEF ToWord, Word, Half

LEMMA BitType ==
    ASSUME NEW n \in Int, NEW t \in BOOLEAN
    PROVE  ClearBit0(n) \in Int /\ Tagged(n, t) \in Int
BY DEF ClearBit0, SetBit0, Tagged

LEMMA Int32Type == ASSUME NEW w \in Word PROVE Int32(w) \in Int
BY WordHalves DEF Int32

\* The halfwords the Thumb encoders put together come apart again.
BranchHi(k, s, x) == k * 2048 + s * 1024 + x
BranchLo(k, b, i, j, x) == k * 16384 + b * 4096 + i * 8192 + j * 2048 + x
MovHi(k, i, m, x) == k * 2048 + i * 1024 + m * 16 + x
MovLo(k, i, m, x) == k * 32768 + i * 4096 + m * 256 + x

LEMMA ThumbBranchHi ==
    ASSUME NEW k \in Nat, NEW s \in Nat, s < 2, NEW x \in Nat, x < 1024
    PROVE  BranchHi(k, s, x) \div 2048 = k
BY SMTT(30) DEF BranchHi

LEMMA ThumbBranchLo ==
    ASSUME NEW k \in Nat, NEW b \in Nat, b < 2, NEW i \in Nat, i < 2,
           NEW j \in Nat, j < 2, NEW x \in Nat, x < 2048
    PROVE  /\ Field(BranchLo(k, b, i, j, x), 4096, 2) = b
           /\ BranchLo(k, b, i, j, x) \div 16384 = k
BY SMTT(30) DEF Field, BranchLo

LEMMA ThumbMovHi ==
    ASSUME NEW k \in Nat, NEW i \in Nat, i < 2, NEW m \in Nat, m < 64,
           NEW x \in Nat, x < 16
    PROVE  /\ Field(MovHi(k, i, m, x), 16, 64) = m
           /\ MovHi(k, i, m, x) \div 2048 = k
BY SMTT(30) DEF Field, MovHi

LEMMA ThumbMovLo ==
    ASSUME NEW k \in Nat, NEW i \in Nat, i < 8, NEW m \in Nat, m < 16,
           NEW x \in Nat, x < 256
    PROVE  /\ Field(MovLo(k, i, m, x), 256, 16) = m
           /\ MovLo(k, i, m, x) \div 32768 = k
BY SMTT(30) DEF Field, MovLo

LEMMA ArmMovHalf ==
    ASSUME NEW k \in Nat, NEW x \in Nat, NEW y \in Nat, x < 4096, y < 16
    PROVE  /\ (k * 4096 + x) % 4096 = x /\ (k * 4096 + x) \div 4096 = k
           /\ (k * 16 + y) % 16 = y /\ (k * 16 + y) \div 16 = k
OBVIOUS

\* A 16-bit immediate is its fields.
LEMMA Immediate16 ==
    ASSUME NEW v \in Half
    PROVE  /\ v = Field(v, 4096, 16) * 4096 + Field(v, 2048, 2) * 2048
                    + Field(v, 256, 8) * 256 + Field(v, 1, 256)
           /\ v = Field(v, 4096, 16) * 4096 + Field(v, 1, 4096)
BY SMTT(30) DEF Field, Half

------------------------------------------------------------------------------
(***************************************************************************)
(* Types.                                                                  *)
(***************************************************************************)
LEMMA FieldType ==
    ASSUME NEW n \in Int,
           NEW u \in {1, 2, 4, 16, 256, 1024, 2048, 4096, 8192, 16384, 32768,
                      65536, 2097152, 4194304, 8388608},
           NEW k \in {2, 4, 8, 16, 32, 64, 128, 256, 1024, 2048, 4096, 32768,
                      65536, 16777216}
    PROVE  Field(n, u, k) \in Nat /\ Field(n, u, k) < k
BY SMTT(30) DEF Field

LEMMA EncodeMovType ==
    ASSUME NEW w \in Word, NEW v \in Half
    PROVE  EncodeThumbMov(w, v) \in Word /\ EncodeArmMov(w, v) \in Word
<1>1. EncodeThumbMov(w, v) \in Word
  BY SMTT(30) DEF Half, Word, EncodeThumbMov, Field
<1>2. EncodeArmMov(w, v) \in Word
  BY SMTT(30) DEF Half, Word, EncodeArmMov, Field
<1>3. QED BY <1>1, <1>2

LEMMA EncodeThumbBranchType ==
    ASSUME NEW w \in Word, NEW n \in Int
    PROVE  EncodeThumbBranch(w, n) \in Word
BY SMTT(30) DEF Half, Word, EncodeThumbBranch, Field, Equal

LEMMA EncodeArmBranchType ==
    ASSUME NEW w \in Word, NEW n \in Int
    PROVE  EncodeArmBranch(w, n) \in Word
<1> DEFINE imm == Field(n, 4, 16777216)
           top == Field(w[2], 256, 256)
<1>1. imm \in Nat /\ imm < 16777216
  BY FieldType
<1>2. top \in Nat /\ top < 256
  BY WordHalves DEF Field
<1>3. imm % 65536 \in Half /\ imm \div 65536 \in Nat /\ imm \div 65536 < 256
  BY <1>1 DEF Half
<1>4. top * 256 + (imm \div 65536) \in Half
  BY <1>2, <1>3 DEF Half
<1> HIDE DEF imm, top
<1>5. << imm % 65536, top * 256 + (imm \div 65536) >> \in Word
  BY <1>3, <1>4 DEF Word
<1>6. QED BY <1>5 DEF EncodeArmBranch, imm, top

LEMMA ArmBlxType ==
    ASSUME NEW w \in Word, NEW n \in Int
    PROVE  ArmBlx(w, n) \in Word
BY SMTT(30) DEF Half, Word, ArmBlx, Field

LEMMA ThumbBlxType == ASSUME NEW w \in Word PROVE ThumbBlx(w) \in Word
BY SMTT(30) DEF Half, Word, ThumbBlx, Field

LEMMA RelocationType ==
    ASSUME NEW p \in Programs, NEW i \in DOMAIN p.rels
    PROVE  /\ p.rels[i] \in Relocation
           /\ p.rels[i].place \in DOMAIN p.file
           /\ p.rels[i].place + 2 \in DOMAIN p.file
           /\ p.rels[i].place \in Nat
<1>1. p.rels[i] \in Relocation /\ Cells(p.rels[i]) \subseteq DOMAIN p.file
  BY ProgramsAssumption
<1>2. QED BY <1>1 DEF Cells, Relocation

LEMMA WordAtType ==
    ASSUME NEW p \in Programs, NEW m \in [DOMAIN p.file -> Half],
           NEW i \in DOMAIN p.rels
    PROVE  WordAt(m, p.rels[i].place) \in Word
BY RelocationType DEF WordAt, Word

LEMMA FileWordType ==
    ASSUME prog \in Programs, NEW i \in DOMAIN prog.rels
    PROVE  FileWord(prog.rels[i]) \in Word
<1>1. prog.file \in [DOMAIN prog.file -> Half]
  BY ProgramsAssumption
<1>2. QED BY <1>1, WordAtType DEF FileWord

LEMMA AddendType ==
    ASSUME NEW r \in Relocation, NEW w \in Word
    PROVE  AddendOf(r, w) \in Int
<1>1. /\ Int32(w) \in Int
      /\ w[1] \in Int /\ w[2] \in Int
  BY Int32Type, WordHalves
<1>2. AddendThumbMov(w) \in Int /\ AddendArmMov(w) \in Int
  BY <1>1 DEF AddendThumbMov, AddendArmMov, Field
<1>3. AddendThumbBranch(w) \in Int
  BY <1>1 DEF AddendThumbBranch, SignExtend, Field, Equal
<1>4. AddendArmBranch(w) \in Int
  BY <1>1 DEF AddendArmBranch, SignExtend, Field
<1>5. ReadAddend(r.type, w) \in Int
  BY <1>1, <1>2, <1>3, <1>4 DEF ReadAddend
<1>6. QED BY <1>5 DEF AddendOf, Relocation

LEMMA ValueType ==
    ASSUME NEW r \in Relocation, NEW a \in Int
    PROVE  /\ ClearBit0(r.sym) + a \in Int
           /\ Tagged(ClearBit0(r.sym) + a, r.thumb) \in Int
<1>1. r.sym \in Int /\ r.thumb \in BOOLEAN
  BY DEF Relocation
<1>2. ClearBit0(r.sym) \in Int
  BY <1>1 DEF ClearBit0
<1>3. ClearBit0(r.sym) + a \in Int
  BY <1>2
<1>4. QED BY <1>1, <1>3, BitType

LEMMA EncodePointerType ==
    ASSUME NEW r \in Relocation, NEW w \in Word, NEW a \in Int
    PROVE  EncodePointer(r, w, a) \in Word
<1> DEFINE value == Tagged(ClearBit0(r.sym) + a, r.thumb)
           offset == ToWord(value - r.place)
<1>1. r.sym \in Int /\ r.thumb \in BOOLEAN /\ r.place \in Int
  BY DEF Relocation
<1>2. value \in Int
  BY ValueType
<1>3. /\ ToWord(r.sym + a) \in Word
      /\ ToWord(value) \in Word
      /\ offset \in Word
  BY <1>1, <1>2, ToWordType
<1> HIDE DEF value, offset
<1>4. << offset[1],
         Field(w[2], 32768, 2) * 32768 + Field(offset[2], 1, 32768) >> \in Word
  BY <1>3, SMTT(30) DEF Word, Half, Field
<1>5. QED BY <1>3, <1>4 DEF EncodePointer, value, offset

LEMMA EncodeCallType ==
    ASSUME NEW r \in Relocation, NEW w \in Word, NEW a \in Int
    PROVE  EncodeCall(r, w, a) \in Word
<1> DEFINE value == Tagged(ClearBit0(r.sym) + a, r.thumb)
           result == value - r.place
           aligned == value - (r.place - (r.place % 4))
<1>1. value \in Int /\ r.place \in Int
  BY ValueType DEF Relocation
<1>2. result \in Int /\ aligned \in Int
  BY <1>1
<1> HIDE DEF result, aligned
<1>3. /\ EncodeArmBranch(w, result) \in Word
      /\ ArmBlx(EncodeArmBranch(w, result), result) \in Word
      /\ EncodeThumbBranch(w, result) \in Word
      /\ ThumbBlx(EncodeThumbBranch(w, aligned)) \in Word
  BY <1>2, EncodeArmBranchType, ArmBlxType, EncodeThumbBranchType, ThumbBlxType
<1>4. QED BY <1>3 DEF EncodeCall, result, aligned

LEMMA EncodeMoveType ==
    ASSUME NEW r \in Relocation, NEW w \in Word, NEW a \in Int
    PROVE  EncodeMove(r, w, a) \in Word
<1> DEFINE sum == ClearBit0(r.sym) + a
           low == Tagged(sum, r.thumb) % 65536
           high == Field(sum, 65536, 65536)
<1>1. sum \in Int /\ Tagged(sum, r.thumb) \in Int
  BY ValueType
<1>2. low \in Half /\ high \in Half
  BY <1>1 DEF Half, Field
<1> HIDE DEF low, high
<1>3. /\ EncodeArmMov(w, low) \in Word /\ EncodeThumbMov(w, low) \in Word
      /\ EncodeArmMov(w, high) \in Word /\ EncodeThumbMov(w, high) \in Word
  BY <1>2, EncodeMovType
<1>4. QED BY <1>3 DEF EncodeMove, low, high

LEMMA ApplyType ==
    ASSUME NEW r \in Relocation, NEW w \in Word, NEW a \in Int
    PROVE  ApplyArmReloc(r, w, a) \in Word
BY EncodePointerType, EncodeCallType, EncodeMoveType DEF ApplyArmReloc

\* One relocation changes the word at its place and no other halfword.
LEMMA Written ==
    ASSUME TypeOK, NEW i \in DOMAIN prog.rels, next = i, WriteBack(mem)
    PROVE  LET r == prog.rels[i]
               w == WordAt(mem, r.place)
           IN  /\ WordAt(mem', r.place) = ApplyArmReloc(r, w, AddendOf(r, w))
               /\ mem' \in [DOMAIN prog.file -> Half]
               /\ \A h \in DOMAIN prog.file \ Cells(r) : mem'[h] = mem[h]
<1> DEFINE r == prog.rels[i]
           w == WordAt(mem, r.place)
           v == ApplyArmReloc(r, w, AddendOf(r, w))
           a == r.place
<1>1. /\ prog \in Programs /\ mem \in [DOMAIN prog.file -> Half]
      /\ r \in Relocation /\ a \in Nat
      /\ a \in DOMAIN prog.file /\ a + 2 \in DOMAIN prog.file
  BY RelocationType DEF TypeOK
<1>2. w \in Word
  BY <1>1, WordAtType
<1>3. v \in Word
  BY <1>1, <1>2, AddendType, ApplyType
<1>4. mem' = [mem EXCEPT ![a] = v[1], ![a + 2] = v[2]]
  BY DEF WriteBack, Current
<1>5. v[1] \in Half /\ v[2] \in Half /\ v = <<v[1], v[2]>>
  BY <1>3 DEF Word
<1> HIDE DEF v, w
<1>6. mem'[a] = v[1] /\ mem'[a + 2] = v[2]
  <2>1. a # a + 2
    BY <1>1
  <2>2. QED BY <1>1, <1>4, <2>1
<1>7. mem' \in [DOMAIN prog.file -> Half]
  BY <1>1, <1>4, <1>5
<1>8. \A h \in DOMAIN prog.file \ Cells(r) : mem'[h] = mem[h]
  BY <1>1, <1>4 DEF Cells
<1>9. WordAt(mem', a) = v
  BY <1>5, <1>6 DEF WordAt
<1>10. QED BY <1>7, <1>8, <1>9 DEF v, w

\* The types of the state are kept.
THEOREM TypeCorrect == Spec => []TypeOK
<1>1. Init => TypeOK
  <2> SUFFICES ASSUME Init PROVE TypeOK
    OBVIOUS
  <2>1. /\ prog \in Programs /\ prog.rels \in Seq(Relocation)
        /\ prog.file \in [DOMAIN prog.file -> Half]
    BY ProgramsAssumption DEF Init
  <2>2. Len(prog.rels) \in Nat /\ next = 1
    BY <2>1 DEF Init
  <2>3. QED BY <2>1, <2>2 DEF Init, TypeOK
<1>2. TypeOK /\ [Next]_vars => TypeOK'
  <2> SUFFICES ASSUME TypeOK, [Next]_vars PROVE TypeOK'
    OBVIOUS
  <2>1. CASE Apply
    <3>1. /\ prog' = prog /\ status' = status /\ next' = next + 1
          /\ next \in DOMAIN prog.rels /\ WriteBack(mem)
      BY <2>1 DEF Apply
    <3>2. mem' \in [DOMAIN prog.file -> Half]
      BY <3>1, Written
    <3>3. prog.rels \in Seq(Relocation)
      BY ProgramsAssumption DEF TypeOK
    <3>4. next \in 1 .. Len(prog.rels) /\ Len(prog.rels) \in Nat
      BY <3>1, <3>3
    <3>5. next' \in 1 .. Len(prog.rels) + 1
      BY <3>1, <3>4
    <3>6. QED BY <3>1, <3>2, <3>5 DEF TypeOK
  <2>2. CASE Refuse
    BY <2>2 DEF Refuse, TypeOK
  <2>3. CASE UNCHANGED vars
    BY <2>3 DEF vars, TypeOK
  <2>4. QED BY <2>1, <2>2, <2>3 DEF Next
<1>3. QED BY <1>1, <1>2, PTL DEF Spec

------------------------------------------------------------------------------
(***************************************************************************)
(* What memory holds at the places.                                        *)
(***************************************************************************)
\* Word w after relocation r.
Relocated(r, w) == ApplyArmReloc(r, w, AddendOf(r, w))

OncePlaced ==
    \A i \in DOMAIN prog.rels :
        LET r == prog.rels[i]
        IN  Apart(i) =>
              WordAt(mem, r.place) =
                IF i < next THEN Relocated(r, FileWord(r)) ELSE FileWord(r)

TwicePlaced ==
    \A i, j \in DOMAIN prog.rels :
        LET r == prog.rels[i]
            q == prog.rels[j]
        IN  i < j /\ r.place = q.place /\ Alone(i, j) =>
              WordAt(mem, r.place) =
                IF j < next THEN Relocated(q, Relocated(r, FileWord(r)))
                ELSE IF i < next THEN Relocated(r, FileWord(r))
                ELSE FileWord(r)

PlacedInv == OncePlaced /\ TwicePlaced

\* A relocation whose halfwords are not those of r leaves the word of r.
LEMMA Elsewhere ==
    ASSUME TypeOK, NEW n \in DOMAIN prog.rels, next = n, WriteBack(mem),
           NEW i \in DOMAIN prog.rels,
           Cells(prog.rels[n]) \cap Cells(prog.rels[i]) = {}
    PROVE  WordAt(mem', prog.rels[i].place) = WordAt(mem, prog.rels[i].place)
<1> DEFINE a == prog.rels[i].place
<1>1. a \in DOMAIN prog.file /\ a + 2 \in DOMAIN prog.file
  BY RelocationType DEF TypeOK
<1>2. a \notin Cells(prog.rels[n]) /\ a + 2 \notin Cells(prog.rels[n])
  BY DEF Cells
<1>3. \A h \in DOMAIN prog.file \ Cells(prog.rels[n]) : mem'[h] = mem[h]
  BY Written
<1>4. QED BY <1>1, <1>2, <1>3 DEF WordAt

LEMMA PlacedStep == TypeOK /\ PlacedInv /\ [Next]_vars => PlacedInv'
<1> SUFFICES ASSUME TypeOK, PlacedInv, [Next]_vars PROVE PlacedInv'
  OBVIOUS
<1>1. CASE Apply
  <2>1. /\ prog' = prog /\ next' = next + 1
        /\ next \in DOMAIN prog.rels /\ WriteBack(mem)
    BY <1>1 DEF Apply
  <2>2. prog.rels \in Seq(Relocation) /\ next \in Int
    BY ProgramsAssumption DEF TypeOK
  <2>3. DOMAIN prog.rels \subseteq Int
    BY <2>2
  <2>4. WordAt(mem', prog.rels[next].place)
          = Relocated(prog.rels[next], WordAt(mem, prog.rels[next].place))
    BY <2>1, Written DEF Relocated
  <2>5. \A i \in DOMAIN prog.rels :
           Cells(prog.rels[next]) \cap Cells(prog.rels[i]) = {} =>
             WordAt(mem', prog.rels[i].place) = WordAt(mem, prog.rels[i].place)
    BY <2>1, Elsewhere
  <2>6. OncePlaced'
    <3> SUFFICES ASSUME NEW i \in DOMAIN prog.rels, Apart(i)
                 PROVE  WordAt(mem', prog.rels[i].place) =
                          IF i < next + 1
                          THEN Relocated(prog.rels[i], FileWord(prog.rels[i]))
                          ELSE FileWord(prog.rels[i])
      BY <2>1 DEF OncePlaced, Apart, Alone, FileWord
    <3>1. WordAt(mem, prog.rels[i].place) =
            IF i < next THEN Relocated(prog.rels[i], FileWord(prog.rels[i]))
            ELSE FileWord(prog.rels[i])
      BY DEF PlacedInv, OncePlaced
    <3>2. i \in Int
      BY <2>3
    <3>3. CASE i = next
      BY <2>2, <2>4, <3>1, <3>3
    <3>4. CASE i # next
      <4>1. Cells(prog.rels[next]) \cap Cells(prog.rels[i]) = {}
        BY <2>1, <3>4 DEF Apart, Alone
      <4>2. (i < next + 1) <=> (i < next)
        BY <2>2, <3>2, <3>4
      <4>3. QED BY <2>5, <3>1, <4>1, <4>2
    <3>5. QED BY <3>3, <3>4
  <2>7. TwicePlaced'
    <3> SUFFICES ASSUME NEW i \in DOMAIN prog.rels, NEW j \in DOMAIN prog.rels,
                        i < j, prog.rels[i].place = prog.rels[j].place, Alone(i, j)
                 PROVE  WordAt(mem', prog.rels[i].place) =
                          IF j < next + 1
                          THEN Relocated(prog.rels[j],
                                 Relocated(prog.rels[i], FileWord(prog.rels[i])))
                          ELSE IF i < next + 1
                          THEN Relocated(prog.rels[i], FileWord(prog.rels[i]))
                          ELSE FileWord(prog.rels[i])
      BY <2>1 DEF TwicePlaced, Alone, FileWord
    <3> DEFINE w == FileWord(prog.rels[i])
               once == Relocated(prog.rels[i], w)
               twice == Relocated(prog.rels[j], once)
               a == prog.rels[i].place
    <3>1. WordAt(mem, a) = IF j < next THEN twice ELSE IF i < next THEN once ELSE w
      BY DEF PlacedInv, TwicePlaced
    <3>2. i \in Int /\ j \in Int
      BY <2>3
    <3>3. CASE i = next
      <4>1. WordAt(mem, a) = w /\ WordAt(mem', a) = Relocated(prog.rels[i], WordAt(mem, a))
        BY <2>2, <2>4, <3>1, <3>2, <3>3
      <4>2. ~(j < next + 1) /\ i < next + 1
        BY <2>2, <3>2, <3>3
      <4>3. QED BY <4>1, <4>2
    <3>4. CASE j = next
      <4>1. WordAt(mem, a) = once /\ WordAt(mem', a) = Relocated(prog.rels[j], WordAt(mem, a))
        BY <2>2, <2>4, <3>1, <3>2, <3>4
      <4>2. j < next + 1
        BY <2>2, <3>2, <3>4
      <4>3. QED BY <4>1, <4>2
    <3>5. CASE i # next /\ j # next
      <4>1. Cells(prog.rels[next]) \cap Cells(prog.rels[i]) = {}
        BY <2>1, <3>5 DEF Alone
      <4>2. /\ (i < next + 1) <=> (i < next)
            /\ (j < next + 1) <=> (j < next)
        BY <2>2, <3>2, <3>5
      <4>3. WordAt(mem', a) = WordAt(mem, a)
        BY <2>5, <4>1
      <4> HIDE DEF a, w, once, twice
      <4>4. WordAt(mem', a) = IF j < next + 1 THEN twice ELSE IF i < next + 1 THEN once ELSE w
        BY <3>1, <4>2, <4>3
      <4>5. QED BY <4>4 DEF a, w, once, twice
    <3>6. QED BY <3>3, <3>4, <3>5
  <2>8. QED BY <2>6, <2>7 DEF PlacedInv
<1>2. CASE Refuse
  BY <1>2 DEF Refuse, PlacedInv, OncePlaced, TwicePlaced, Apart, Alone, FileWord
<1>3. CASE UNCHANGED vars
  BY <1>3 DEF vars, PlacedInv, OncePlaced, TwicePlaced, Apart, Alone, FileWord
<1>4. QED BY <1>1, <1>2, <1>3 DEF Next

LEMMA PlacedHolds == Spec => []PlacedInv
<1>1. Init => PlacedInv
  <2> SUFFICES ASSUME Init PROVE PlacedInv
    OBVIOUS
  <2>1. \A i \in DOMAIN prog.rels :
           /\ WordAt(mem, prog.rels[i].place) = FileWord(prog.rels[i])
           /\ ~(i < next)
    BY ProgramsAssumption DEF Init, FileWord
  <2>2. QED BY <2>1 DEF PlacedInv, OncePlaced, TwicePlaced
<1>2. QED BY <1>1, PlacedStep, TypeCorrect, PTL DEF Spec

\* What the place of an applied relocation apart from all others holds.
LEMMA AppliedPlace ==
    ASSUME TypeOK, PlacedInv, NEW i, Applied(i), Apart(i)
    PROVE  LET r == prog.rels[i]
           IN  /\ r \in Relocation
               /\ FileWord(r) \in Word
               /\ AddendOf(r, FileWord(r)) \in Int
               /\ WordAt(mem, r.place)
                    = ApplyArmReloc(r, FileWord(r), AddendOf(r, FileWord(r)))
<1>1. i \in DOMAIN prog.rels /\ i < next
  BY DEF Applied
<1>2. prog.rels[i] \in Relocation /\ FileWord(prog.rels[i]) \in Word
  BY <1>1, RelocationType, FileWordType DEF TypeOK
<1>3. WordAt(mem, prog.rels[i].place) = Relocated(prog.rels[i], FileWord(prog.rels[i]))
  BY <1>1 DEF PlacedInv, OncePlaced
<1>4. QED BY <1>2, <1>3, AddendType DEF Relocated

------------------------------------------------------------------------------
(***************************************************************************)
(* Moves.                                                                  *)
(***************************************************************************)
LEMMA ThumbMovRead ==
    ASSUME NEW w \in Word, NEW v \in Half
    PROVE  AddendThumbMov(EncodeThumbMov(w, v)) = v
<1> DEFINE k == Field(w[1], 2048, 32)
           i == Field(v, 2048, 2)
           m == Field(w[1], 16, 64)
           x == Field(v, 4096, 16)
           q == Field(w[2], 32768, 2)
           j == Field(v, 256, 8)
           n == Field(w[2], 256, 16)
           y == Field(v, 1, 256)
           hi == k * 2048 + i * 1024 + m * 16 + x
           lo == q * 32768 + j * 4096 + n * 256 + y
<1>1. w[1] \in Int /\ w[2] \in Int /\ v \in Int
  BY WordHalves DEF Half
<1>2. /\ k \in Nat /\ i \in Nat /\ i < 2 /\ m \in Nat /\ m < 64
      /\ x \in Nat /\ x < 16
      /\ q \in Nat /\ j \in Nat /\ j < 8 /\ n \in Nat /\ n < 16
      /\ y \in Nat /\ y < 256
  BY <1>1 DEF Field
<1>3. v = x * 4096 + i * 2048 + j * 256 + y
  BY Immediate16
<1>4. EncodeThumbMov(w, v) = <<hi, lo>>
  BY DEF EncodeThumbMov
<1> HIDE DEF k, i, m, x, q, j, n, y
<1>5. Field(hi, 1, 16) = x /\ Field(hi, 1024, 2) = i
  BY <1>2, SMTT(30) DEF Field
<1>6. Field(lo, 4096, 8) = j /\ Field(lo, 1, 256) = y
  BY <1>2, SMTT(30) DEF Field
<1>7. QED BY <1>3, <1>4, <1>5, <1>6 DEF AddendThumbMov

LEMMA ArmMovRead ==
    ASSUME NEW w \in Word, NEW v \in Half
    PROVE  AddendArmMov(EncodeArmMov(w, v)) = v
<1> DEFINE k == Field(w[1], 4096, 16)
           q == Field(w[2], 16, 4096)
           x == Field(v, 1, 4096)
           y == Field(v, 4096, 16)
<1>1. w[1] \in Int /\ w[2] \in Int /\ v \in Int
  BY WordHalves DEF Half
<1>2. /\ k \in Nat /\ q \in Nat
      /\ x \in Nat /\ x < 4096 /\ y \in Nat /\ y < 16
  BY <1>1 DEF Field
<1>3. v = y * 4096 + x
  BY Immediate16
<1>4. EncodeArmMov(w, v) = <<k * 4096 + x, q * 16 + y>>
  BY DEF EncodeArmMov
<1> HIDE DEF k, q, x, y
<1>5. Field(k * 4096 + x, 1, 4096) = x /\ Field(q * 16 + y, 1, 16) = y
  BY <1>2, ArmMovHalf DEF Field
<1>6. QED BY <1>3, <1>4, <1>5 DEF AddendArmMov

\* The immediate the architecture reads is the one the loader reads.
LEMMA ImmediateIsAddend ==
    ASSUME NEW w \in Word
    PROVE  /\ Immediate("MOVW", w) = AddendArmMov(w)
           /\ Immediate("MOVT", w) = AddendArmMov(w)
           /\ Immediate("THM_MOVW", w) = AddendThumbMov(w)
           /\ Immediate("THM_MOVT", w) = AddendThumbMov(w)
           /\ AddendArmMov(w) \in Half /\ AddendThumbMov(w) \in Half
<1>1. w[1] \in Int /\ w[2] \in Int
  BY WordHalves
<1>2. Field(w[1], 1, 4096) = w[1] % 4096 /\ Field(w[2], 1, 16) = w[2] % 16
  BY <1>1 DEF Field
<1>3. AddendArmMov(w) \in Half /\ AddendThumbMov(w) \in Half
  BY <1>1, SMTT(30) DEF AddendArmMov, AddendThumbMov, Field, Half
<1>4. /\ Field(w[1], 1, 4096) \in Int /\ Field(w[2], 1, 16) \in Int
      /\ Field(w[2], 1, 256) \in Int /\ Field(w[2], 4096, 8) \in Int
      /\ Field(w[1], 1024, 2) \in Int /\ Field(w[1], 1, 16) \in Int
  BY <1>1 DEF Field
<1>5. /\ Immediate("MOVW", w) = AddendArmMov(w)
      /\ Immediate("MOVT", w) = AddendArmMov(w)
  BY <1>2, <1>4 DEF Immediate, AddendArmMov, ThumbTypes
<1>6. /\ Immediate("THM_MOVW", w) = AddendThumbMov(w)
      /\ Immediate("THM_MOVT", w) = AddendThumbMov(w)
  BY <1>4 DEF Immediate, AddendThumbMov, ThumbTypes
<1>7. QED BY <1>3, <1>5, <1>6

LEMMA MoveWritten ==
    ASSUME NEW r \in Relocation, NEW w \in Word, NEW a \in Int
    PROVE  /\ r.type \in {"MOVW", "THM_MOVW"} =>
                Immediate(r.type, ApplyArmReloc(r, w, a))
                  = Tagged(ClearBit0(r.sym) + a, r.thumb) % 65536
           /\ r.type \in {"MOVT", "THM_MOVT"} =>
                Immediate(r.type, ApplyArmReloc(r, w, a))
                  = Field(ClearBit0(r.sym) + a, 65536, 65536)
<1> DEFINE sum == ClearBit0(r.sym) + a
           low == Tagged(sum, r.thumb) % 65536
           high == Field(sum, 65536, 65536)
<1>1. sum \in Int /\ Tagged(sum, r.thumb) \in Int
  BY ValueType
<1>2. low \in Half /\ high \in Half
  BY <1>1 DEF Half, Field
<1>3. r.type \in Moves =>
        ApplyArmReloc(r, w, a) = CASE r.type = "MOVW" -> EncodeArmMov(w, low)
                                   [] r.type = "THM_MOVW" -> EncodeThumbMov(w, low)
                                   [] r.type = "MOVT" -> EncodeArmMov(w, high)
                                   [] OTHER -> EncodeThumbMov(w, high)
  BY DEF ApplyArmReloc, EncodeMove, Moves, Pointers, Calls
<1> HIDE DEF low, high
<1>4. /\ EncodeArmMov(w, low) \in Word /\ EncodeThumbMov(w, low) \in Word
      /\ EncodeArmMov(w, high) \in Word /\ EncodeThumbMov(w, high) \in Word
  BY <1>2, EncodeMovType
<1>5. CASE r.type = "MOVW"
  BY <1>2, <1>3, <1>4, <1>5, ArmMovRead, ImmediateIsAddend DEF Moves, low
<1>6. CASE r.type = "THM_MOVW"
  BY <1>2, <1>3, <1>4, <1>6, ThumbMovRead, ImmediateIsAddend DEF Moves, low
<1>7. CASE r.type = "MOVT"
  BY <1>2, <1>3, <1>4, <1>7, ArmMovRead, ImmediateIsAddend DEF Moves, high
<1>8. CASE r.type = "THM_MOVT"
  BY <1>2, <1>3, <1>4, <1>8, ThumbMovRead, ImmediateIsAddend DEF Moves, high
<1>9. QED BY <1>5, <1>6, <1>7, <1>8

LEMMA MoveAddend ==
    ASSUME NEW r \in Relocation, r.type \in Moves, FileWord(r) \in Word
    PROVE  /\ AddendOf(r, FileWord(r)) = WrittenAddend(r) + Excess(r)
           /\ WrittenAddend(r) \in Int
<1>1. CASE r.rela
  <2>1. r.addend \in Int
    BY DEF Relocation
  <2>2. QED BY <1>1, <2>1 DEF AddendOf, WrittenAddend, Excess
<1>2. CASE ~r.rela
  <2>1. /\ AddendOf(r, FileWord(r)) = Immediate(r.type, FileWord(r))
        /\ Immediate(r.type, FileWord(r)) \in Half
    BY <1>2, ImmediateIsAddend DEF AddendOf, ReadAddend, Moves
  <2>2. WrittenAddend(r) = SignExtend(Immediate(r.type, FileWord(r)), 32768)
    BY <1>2 DEF WrittenAddend, Moves
  <2>3. QED BY <1>2, <2>1, <2>2 DEF SignExtend, Half, Excess
<1>3. QED BY <1>1, <1>2

\* The Thumb bit never carries into the high half.
LEMMA TaggedHalves ==
    ASSUME NEW n \in Int, NEW t \in BOOLEAN
    PROVE  ToWord(Tagged(n, t))
             = << Tagged(n, t) % 65536, Field(n, 65536, 65536) >>
<1>1. Tagged(n, t) \div 65536 = n \div 65536
  BY DEF Tagged, SetBit0
<1>2. QED BY <1>1 DEF ToWord, Field

LEMMA TaggedSum ==
    ASSUME NEW n \in Int, NEW t \in BOOLEAN, NEW k \in Int
    PROVE  Tagged(n + 65536 * k, t) = Tagged(n, t) + 65536 * k
<1>1. (n + 65536 * k) % 2 = n % 2
  OBVIOUS
<1>2. QED BY <1>1 DEF Tagged, SetBit0

\* A MOVW and a MOVT build the address of their symbol and addend, for every
\* symbol and addend; for a negative addend in the instructions, 64 KiB more.
THEOREM MovePairsHold == Spec => []MovePairsBuild
<1>1. TypeOK /\ PlacedInv => MovePairsBuild
  <2> SUFFICES ASSUME TypeOK, PlacedInv,
                      NEW i \in DOMAIN prog.rels, NEW j \in DOMAIN prog.rels,
                      Applied(i), Applied(j), Apart(i), Apart(j),
                      IsPair(prog.rels[i], prog.rels[j])
               PROVE  << Immediate(prog.rels[i].type, WordAt(mem, prog.rels[i].place)),
                         Immediate(prog.rels[j].type, WordAt(mem, prog.rels[j].place)) >>
                        = ToWord(Goal(prog.rels[i]) + Excess(prog.rels[i]))
    BY DEF MovePairsBuild
  <2> DEFINE r == prog.rels[i]
             q == prog.rels[j]
             a == AddendOf(r, FileWord(r))
             b == AddendOf(q, FileWord(q))
             sum == ClearBit0(r.sym) + a
             goal == ClearBit0(r.sym) + WrittenAddend(r)
  <2>1. /\ r \in Relocation /\ FileWord(r) \in Word /\ a \in Int
        /\ WordAt(mem, r.place) = ApplyArmReloc(r, FileWord(r), a)
        /\ q \in Relocation /\ FileWord(q) \in Word /\ b \in Int
        /\ WordAt(mem, q.place) = ApplyArmReloc(q, FileWord(q), b)
    BY AppliedPlace
  <2>2. /\ r.type \in {"MOVW", "THM_MOVW"} /\ q.type \in {"MOVT", "THM_MOVT"}
        /\ r.sym = q.sym /\ r.thumb = q.thumb /\ r.rela = q.rela
        /\ WrittenAddend(r) = WrittenAddend(q)
    BY DEF IsPair
  <2>3. r.type \in Moves /\ q.type \in Moves
    BY <2>2 DEF Moves
  <2>4. /\ a = WrittenAddend(r) + Excess(r) /\ WrittenAddend(r) \in Int
        /\ b = WrittenAddend(q) + Excess(q)
    BY <2>1, <2>3, MoveAddend
  <2>5. b = a
    BY <2>2, <2>4 DEF Excess
  <2>6. Excess(r) = 65536 * 1 \/ Excess(r) = 65536 * 0
    BY DEF Excess
  <2> HIDE DEF r, q, a, b
  <2>7. /\ Immediate(r.type, WordAt(mem, r.place)) = Tagged(sum, r.thumb) % 65536
        /\ Immediate(q.type, WordAt(mem, q.place)) = Field(sum, 65536, 65536)
    BY <2>1, <2>2, <2>5, MoveWritten
  <2>8. /\ sum \in Int /\ r.thumb \in BOOLEAN
        /\ ClearBit0(r.sym) \in Int /\ goal \in Int
    <3>1. r.sym \in Int /\ r.thumb \in BOOLEAN
      BY <2>1 DEF Relocation
    <3>2. ClearBit0(r.sym) \in Int
      BY <3>1, BitType
    <3>3. QED BY <2>1, <2>4, <3>1, <3>2
  <2>9. sum = goal + Excess(r)
    BY <2>4, <2>6, <2>8
  <2>10. Goal(r) = Tagged(goal, r.thumb)
    BY DEF Goal
  <2> HIDE DEF sum, goal
  <2>11. Tagged(sum, r.thumb) = Goal(r) + Excess(r)
    <3>1. PICK k \in Int : Excess(r) = 65536 * k
      BY <2>6
    <3>2. Tagged(goal + 65536 * k, r.thumb) = Tagged(goal, r.thumb) + 65536 * k
      BY <2>8, TaggedSum
    <3>3. QED BY <2>9, <2>10, <3>1, <3>2
  <2>12. ToWord(Goal(r) + Excess(r))
           = << Tagged(sum, r.thumb) % 65536, Field(sum, 65536, 65536) >>
    BY <2>8, <2>11, TaggedHalves
  <2>13. QED BY <2>7, <2>12 DEF r, q
<1>2. QED BY <1>1, TypeCorrect, PlacedHolds, PTL

------------------------------------------------------------------------------
(***************************************************************************)
(* Branches.                                                               *)
(***************************************************************************)
\* The addend the loader reads in a branch is the offset the architecture
\* gives it.
LEMMA ThumbAddend ==
    ASSUME NEW w \in Word
    PROVE  AddendThumbBranch(w) = ThumbOffset(w)
<1> DEFINE s == Field(w[1], 1024, 2)
           j1 == Field(w[2], 8192, 2)
           j2 == Field(w[2], 2048, 2)
           x == Field(w[1], 1, 1024)
           y == Field(w[2], 1, 2048)
<1>1. w[1] \in Int /\ w[2] \in Int
  BY WordHalves
<1>2. /\ s \in {0, 1} /\ j1 \in {0, 1} /\ j2 \in {0, 1}
      /\ x \in Nat /\ x < 1024 /\ y \in Nat /\ y < 2048
  BY <1>1, SMTT(30) DEF Field
<1>3. /\ AddendThumbBranch(w) =
           SignExtend(s * 16777216 + Equal(j1, s) * 8388608
                      + Equal(j2, s) * 4194304 + x * 4096 + y * 2, 16777216)
      /\ ThumbOffset(w) =
           y * 2 + x * 4096 + ((j2 + s + 1) % 2) * 4194304
           + ((j1 + s + 1) % 2) * 8388608 - s * 16777216
  BY DEF AddendThumbBranch, ThumbOffset
<1> HIDE DEF s, j1, j2, x, y
<1>4. /\ Equal(j1, s) = (j1 + s + 1) % 2 /\ Equal(j1, s) \in {0, 1}
      /\ Equal(j2, s) = (j2 + s + 1) % 2 /\ Equal(j2, s) \in {0, 1}
  BY <1>2 DEF Equal
<1>5. QED BY <1>2, <1>3, <1>4 DEF SignExtend

LEMMA ArmAddend ==
    ASSUME NEW w \in Word, ~IsArmBlx(w)
    PROVE  AddendArmBranch(w) = ArmOffset(w)
<1>1. w[1] \in Nat /\ w[1] < 65536 /\ w[2] \in Nat /\ w[2] < 61440
  BY WordHalves DEF IsArmBlx
<1>2. Field(w[2], 4096, 16) # 15
  BY <1>1 DEF Field
<1>3. /\ Field(w[2], 1, 256) = Field(w[2], 1, 128) + Field(w[2], 128, 2) * 128
      /\ Field(w[2], 1, 128) \in Nat /\ Field(w[2], 1, 128) < 128
      /\ Field(w[2], 128, 2) \in {0, 1}
  BY <1>1, SMTT(30) DEF Field
<1>4. QED BY <1>1, <1>2, <1>3 DEF AddendArmBranch, ArmOffset, SignExtend

\* A Thumb branch with an offset of 25 bits has that offset without its bit 0,
\* and keeps what makes it BL, BLX or B.
LEMMA ThumbEncoded ==
    ASSUME NEW w \in Word, NEW m \in Int, m >= -16777216, m < 16777216
    PROVE  /\ ThumbOffset(EncodeThumbBranch(w, m)) = m - (m % 2)
           /\ Field(EncodeThumbBranch(w, m)[2], 4096, 2) = Field(w[2], 4096, 2)
<1> DEFINE r == Field(m, 2, 16777216)
           s == Field(r, 8388608, 2)
           j1 == Field(r, 4194304, 2)
           j2 == Field(r, 2097152, 2)
           x == Field(r, 2048, 1024)
           y == Field(r, 1, 2048)
           k == Field(w[1], 2048, 32)
           q == Field(w[2], 16384, 4)
           b == Field(w[2], 4096, 2)
           i1 == Equal(j1, s)
           i2 == Equal(j2, s)
           hi == k * 2048 + s * 1024 + x
           lo == q * 16384 + b * 4096 + i1 * 8192 + i2 * 2048 + y
<1>1. w[1] \in Int /\ w[2] \in Int
  BY WordHalves
<1>2. r \in Nat /\ m - (m % 2) = 2 * r - (IF r < 8388608 THEN 0 ELSE 33554432)
  BY SMTT(30) DEF Field
<1>3. r < 16777216
  BY SMTT(30) DEF Field
<1>4. k \in Nat /\ q \in Nat /\ b \in Nat /\ b < 2
  BY <1>1 DEF Field
<1>5. EncodeThumbBranch(w, m) = <<hi, lo>>
  BY DEF EncodeThumbBranch
<1> HIDE DEF r
<1>6. /\ s \in {0, 1} /\ j1 \in {0, 1} /\ j2 \in {0, 1}
      /\ x \in Nat /\ x < 1024 /\ y \in Nat /\ y < 2048
      /\ r = s * 8388608 + j1 * 4194304 + j2 * 2097152 + x * 2048 + y
  BY <1>2, <1>3, SMTT(30) DEF Field
<1> HIDE DEF s, j1, j2, x, y, k, q, b
<1>7. i1 \in {0, 1} /\ i2 \in {0, 1}
  BY DEF Equal
<1>8. (i1 + s + 1) % 2 = j1 /\ (i2 + s + 1) % 2 = j2
  BY <1>6 DEF Equal
<1> HIDE DEF i1, i2
<1>9. Field(hi, 1, 1024) = x /\ Field(hi, 1024, 2) = s
  BY <1>4, <1>6, SMTT(30) DEF Field
<1>10. /\ Field(lo, 1, 2048) = y /\ Field(lo, 8192, 2) = i1
       /\ Field(lo, 2048, 2) = i2 /\ Field(lo, 4096, 2) = b
  BY <1>4, <1>6, <1>7, SMTT(30) DEF Field
<1> HIDE DEF hi, lo
<1>11. ThumbOffset(<<hi, lo>>) =
         y * 2 + x * 4096 + j2 * 4194304 + j1 * 8388608 - s * 16777216
  BY <1>8, <1>9, <1>10 DEF ThumbOffset
<1>12. ThumbOffset(<<hi, lo>>) = m - (m % 2)
  BY <1>2, <1>6, <1>11
<1>13. QED BY <1>5, <1>10, <1>12 DEF b

LEMMA ThumbBlxKeeps ==
    ASSUME NEW w \in Word
    PROVE  ThumbOffset(ThumbBlx(w)) = ThumbOffset(w) /\ IsThumbBlx(ThumbBlx(w))
<1> DEFINE lo == w[2] - Field(w[2], 4096, 2) * 4096
<1>1. w[2] \in Nat /\ w[2] < 65536
  BY WordHalves
<1>2. /\ Field(lo, 8192, 2) = Field(w[2], 8192, 2)
      /\ Field(lo, 2048, 2) = Field(w[2], 2048, 2)
      /\ Field(lo, 1, 2048) = Field(w[2], 1, 2048)
      /\ Field(lo, 4096, 2) = 0
  BY <1>1, SMTT(60) DEF Field
<1>3. ThumbBlx(w) = <<w[1], lo>>
  BY DEF ThumbBlx
<1> HIDE DEF lo
<1>4. QED BY <1>2, <1>3 DEF ThumbOffset, IsThumbBlx

\* An Arm branch with an offset of 26 bits has that offset: whole words for a
\* B or BL, which keeps its opcode, halfwords for the BLX.
LEMMA ArmOffsetRead ==
    ASSUME NEW w \in Word
    PROVE  ArmOffset(w) = 4 * (Field(w[2], 1, 256) * 65536 + w[1])
                          - (IF Field(w[2], 1, 256) < 128 THEN 0 ELSE 67108864)
<1> DEFINE b == Field(w[2], 1, 256)
<1>1. w[1] \in Nat /\ w[2] \in Nat
  BY WordHalves
<1>2. b \in Nat /\ b < 256
  BY <1>1 DEF Field
<1>3. /\ Field(w[2], 1, 128) = b - (IF b < 128 THEN 0 ELSE 128)
      /\ Field(w[2], 128, 2) = (IF b < 128 THEN 0 ELSE 1)
  BY <1>1, SMTT(60) DEF Field
<1> HIDE DEF b
<1>4. ArmOffset(w) = 4 * (b * 65536 + w[1]) - (IF b < 128 THEN 0 ELSE 67108864)
  BY <1>1, <1>2, <1>3 DEF ArmOffset
<1>5. QED BY <1>4 DEF b

LEMMA ArmEncoded ==
    ASSUME NEW w \in Word, NEW m \in Int, m >= -33554432, m < 33554432
    PROVE  /\ ArmOffset(EncodeArmBranch(w, m)) = m - (m % 4)
           /\ EncodeArmBranch(w, m)[2] \div 256 = w[2] \div 256
<1> DEFINE imm == Field(m, 4, 16777216)
           top == Field(w[2], 256, 256)
           a == imm % 65536
           b == imm \div 65536
           v == EncodeArmBranch(w, m)
<1>1. /\ imm \in Nat /\ imm < 16777216
      /\ m - (m % 4) = 4 * imm - (IF imm < 8388608 THEN 0 ELSE 67108864)
  BY SMTT(60) DEF Field
<1>2. top \in Nat /\ top < 256 /\ top = w[2] \div 256
  BY WordHalves DEF Field
<1>3. v = <<a, top * 256 + b>> /\ v \in Word
  BY EncodeArmBranchType DEF EncodeArmBranch
<1> HIDE DEF imm, v
<1>4. /\ a \in Nat /\ b \in Nat /\ b < 256 /\ imm = b * 65536 + a
      /\ (b < 128) <=> (imm < 8388608)
  BY <1>1, SMTT(60)
<1> HIDE DEF a, b, top
<1>5. v[1] = a /\ v[2] = top * 256 + b
  BY <1>3
<1>6. v[2] \div 256 = top /\ Field(v[2], 1, 256) = b
  BY <1>2, <1>4, <1>5, SMTT(60) DEF Field
<1>7. ArmOffset(v) = 4 * (b * 65536 + a) - (IF b < 128 THEN 0 ELSE 67108864)
  BY <1>3, <1>5, <1>6, ArmOffsetRead
<1>8. ArmOffset(v) = m - (m % 4)
  BY <1>1, <1>4, <1>7
<1>9. QED BY <1>2, <1>6, <1>8 DEF v

LEMMA ArmBlxEncoded ==
    ASSUME NEW w \in Word, NEW m \in Int
    PROVE  /\ ArmOffset(ArmBlx(w, m)) = ArmOffset(w)
           /\ 2 * Field(ArmBlx(w, m)[2], 256, 2) = (m % 4) - (m % 2)
           /\ IsArmBlx(ArmBlx(w, m))
<1> DEFINE h == Field(m, 2, 2)
           b == Field(w[2], 1, 256)
           v == ArmBlx(w, m)
<1>1. h \in {0, 1} /\ 2 * h = (m % 4) - (m % 2)
  BY SMTT(60) DEF Field
<1>2. b \in Nat /\ b < 256
  BY WordHalves DEF Field
<1>3. v[1] = w[1] /\ v[2] = (250 + h) * 256 + b /\ v \in Word
  BY ArmBlxType DEF ArmBlx
<1> HIDE DEF h, b, v
<1>4. Field(v[2], 256, 2) = h /\ v[2] >= 61440 /\ Field(v[2], 1, 256) = b
  BY <1>1, <1>2, <1>3, SMTT(60) DEF Field
<1>5. ArmOffset(v) = ArmOffset(w)
  BY <1>3, <1>4, ArmOffsetRead DEF b
<1>6. QED BY <1>1, <1>4, <1>5 DEF IsArmBlx, v

\* What modloader_apply_arm_reloc does with a branch.
LEMMA CallApplied ==
    ASSUME NEW r, NEW w, NEW a, r.type \in Calls
    PROVE  LET v == ApplyArmReloc(r, w, a)
               value == Tagged(ClearBit0(r.sym) + a, r.thumb)
               result == value - r.place
               aligned == value - (r.place - (r.place % 4))
           IN  /\ r.type = "JUMP24" \/ (r.type = "CALL" /\ ~r.thumb) =>
                    v = EncodeArmBranch(w, result)
               /\ r.type = "CALL" /\ r.thumb =>
                    v = ArmBlx(EncodeArmBranch(w, result), result)
               /\ r.type = "THM_CALL" /\ ~r.thumb =>
                    v = ThumbBlx(EncodeThumbBranch(w, aligned))
               /\ r.type = "THM_JUMP24" \/ (r.type = "THM_CALL" /\ r.thumb) =>
                    v = EncodeThumbBranch(w, result)
<1>1. r.type \notin Pointers /\ r.type \notin Moves
  BY DEF Calls, Pointers, Moves
<1>2. ApplyArmReloc(r, w, a) = EncodeCall(r, w, a)
  BY <1>1 DEF ApplyArmReloc
<1>3. CASE r.type = "JUMP24"
  BY <1>2, <1>3, Zenon DEF EncodeCall
<1>4. CASE r.type = "CALL" /\ ~r.thumb
  BY <1>2, <1>4, Zenon DEF EncodeCall
<1>5. CASE r.type = "CALL" /\ r.thumb
  BY <1>2, <1>5, Zenon DEF EncodeCall
<1>6. CASE r.type = "THM_CALL" /\ ~r.thumb
  BY <1>2, <1>6, Zenon DEF EncodeCall
<1>7. CASE r.type = "THM_CALL" /\ r.thumb
  BY <1>2, <1>7, Zenon DEF EncodeCall
<1>8. CASE r.type = "THM_JUMP24"
  BY <1>2, <1>8, Zenon DEF EncodeCall
<1>9. QED BY <1>3, <1>4, <1>5, <1>6, <1>7, <1>8, Zenon DEF Calls

\* The addend of a linkable branch, and how far its goal is.
LEMMA BranchDistance ==
    ASSUME NEW r \in Relocation, FileWord(r) \in Word,
           r.type \in Calls, Linkable(r)
    PROVE  BranchGoal(r) = ClearBit0(r.sym) + AddendOf(r, FileWord(r)) + Bias(r)
<1>1. FileWord(r) \in Word /\ r.place \in Nat /\ r.addend \in Int
  BY DEF Relocation
<1>2. ClearBit0(r.sym) \in Int /\ Bias(r) \in Int
  BY BitType DEF Relocation, Bias
<1>3. CASE r.rela
  BY <1>1, <1>2, <1>3 DEF BranchGoal, AddendOf
<1>4. CASE ~r.rela /\ r.type \in ThumbTypes
  <2>1. ~IsThumbBlx(FileWord(r))
    BY <1>4 DEF Linkable, GoesToThumb
  <2>2. AddendOf(r, FileWord(r)) = ThumbOffset(FileWord(r))
    BY <1>1, <1>4, ThumbAddend DEF AddendOf, ReadAddend, Calls, ThumbTypes
  <2>3. AddendOf(r, FileWord(r)) \in Int
    BY <1>1, AddendType
  <2>4. Destination(r.type, FileWord(r), r.place) = ThumbOffset(FileWord(r)) + (r.place + 4)
    BY <1>4, <2>1 DEF Destination
  <2>5. QED BY <1>1, <1>2, <1>4, <2>2, <2>3, <2>4 DEF BranchGoal, Bias
<1>5. CASE ~r.rela /\ r.type \notin ThumbTypes
  <2>1. ~IsArmBlx(FileWord(r))
    BY <1>5 DEF Linkable, GoesToThumb
  <2>2. AddendOf(r, FileWord(r)) = ArmOffset(FileWord(r))
    BY <1>1, <1>5, <2>1, ArmAddend DEF AddendOf, ReadAddend, Calls, ThumbTypes
  <2>3. AddendOf(r, FileWord(r)) \in Int
    BY <1>1, AddendType
  <2>4. Destination(r.type, FileWord(r), r.place) = r.place + 8 + ArmOffset(FileWord(r)) + 0
    BY <1>5, <2>1 DEF Destination
  <2>5. QED BY <1>1, <1>2, <1>5, <2>2, <2>3, <2>4 DEF BranchGoal, Bias
<1>6. QED BY <1>3, <1>4, <1>5

LEMMA BranchWritten ==
    ASSUME NEW r \in Relocation, FileWord(r) \in Word,
           r.type \in Calls, Linkable(r), InReach(r),
           NEW v, v = ApplyArmReloc(r, FileWord(r), AddendOf(r, FileWord(r)))
    PROVE  /\ Destination(r.type, v, r.place) = BranchGoal(r)
           /\ GoesToThumb(r.type, v) <=> r.thumb
<1> DEFINE p == r.place
           w == FileWord(r)
           a == AddendOf(r, w)
           sum == ClearBit0(r.sym) + a
           value == Tagged(sum, r.thumb)
           result == value - p
           aligned == value - (p - (p % 4))
           thumbHere == r.type \in ThumbTypes
           goal == BranchGoal(r)
           d == sum - p
<1>1. /\ w \in Word /\ p \in Nat /\ r.thumb \in BOOLEAN /\ a \in Int
      /\ sum \in Int /\ value \in Int
  <2>1. w \in Word /\ p \in Nat /\ r.thumb \in BOOLEAN
    BY DEF Relocation
  <2>2. a \in Int
    BY <2>1, AddendType
  <2>3. QED BY <2>1, <2>2, ValueType
<1>2. /\ thumbHere => goal = sum + 4
      /\ ~thumbHere => goal = sum + 8
  BY BranchDistance DEF Bias
<1>3. /\ r.type = "JUMP24" \/ (r.type = "CALL" /\ ~r.thumb) =>
           v = EncodeArmBranch(w, result)
      /\ r.type = "CALL" /\ r.thumb =>
           v = ArmBlx(EncodeArmBranch(w, result), result)
      /\ r.type = "THM_CALL" /\ ~r.thumb =>
           v = ThumbBlx(EncodeThumbBranch(w, aligned))
      /\ r.type = "THM_JUMP24" \/ (r.type = "THM_CALL" /\ r.thumb) =>
           v = EncodeThumbBranch(w, result)
  BY CallApplied, Zenon
<1>4. /\ ~r.thumb => value = sum
      /\ r.thumb /\ sum % 2 = 0 => value = sum + 1
  BY <1>1 DEF Tagged, SetBit0
<1>5. /\ thumbHere => p % 2 = 0
      /\ ~thumbHere => p % 4 = 0
      /\ r.thumb => goal % 2 = 0
      /\ ~r.thumb => goal % 4 = 0
      /\ GoesToThumb(r.type, w) <=> thumbHere
      /\ r.type \in {"JUMP24", "THM_JUMP24"} => (r.thumb <=> thumbHere)
  BY DEF Linkable
<1>6. /\ thumbHere => goal - p - 4 >= -16777216 /\ goal - p - 4 < 16777216 - 4
      /\ ~thumbHere => goal - p - 8 >= -33554432 /\ goal - p - 8 < 33554432 - 4
  BY DEF InReach, Bias, Reach
<1>7. \/ thumbHere /\ r.thumb /\ (r.type = "THM_JUMP24" \/ r.type = "THM_CALL")
      \/ thumbHere /\ ~r.thumb /\ r.type = "THM_CALL"
      \/ ~thumbHere /\ ~r.thumb /\ (r.type = "JUMP24" \/ r.type = "CALL")
      \/ ~thumbHere /\ r.thumb /\ r.type = "CALL"
  BY <1>5 DEF Calls, ThumbTypes
<1>8. /\ r.thumb => sum % 2 = 0
      /\ ~r.thumb => sum % 4 = 0
  <2> HIDE DEF sum, goal, thumbHere
  <2>1. QED BY <1>1, <1>2, <1>5
<1>9. d \in Int /\ sum = p + d
  BY <1>1
<1> HIDE DEF a, sum, value, p, w, d, goal, result, aligned
<1>10. /\ r.thumb => result = d + 1
       /\ ~r.thumb => result = d
  BY <1>1, <1>4, <1>8 DEF result, d
<1>11. result \in Int
  BY <1>1 DEF result
<1>12. CASE thumbHere /\ r.thumb /\ (r.type = "THM_JUMP24" \/ r.type = "THM_CALL")
  <2>1. d % 2 = 0 /\ d >= -16777216 /\ d < 16777216 /\ result = d + 1
    BY <1>1, <1>2, <1>5, <1>6, <1>8, <1>9, <1>10, <1>12
  <2>2. v = EncodeThumbBranch(w, result)
    BY <1>3, <1>12
  <2>3. /\ ThumbOffset(v) = result - (result % 2)
        /\ Field(v[2], 4096, 2) = Field(w[2], 4096, 2)
    BY <1>1, <1>9, <1>11, <2>1, <2>2, ThumbEncoded
  <2>4. ~IsThumbBlx(w)
    BY <1>5, <1>12 DEF GoesToThumb
  <2>5. ~IsThumbBlx(v)
    BY <2>3, <2>4 DEF IsThumbBlx
  <2>6. Destination(r.type, v, p) = result - (result % 2) + (p + 4)
    BY <1>12, <2>3, <2>5 DEF Destination
  <2>7. GoesToThumb(r.type, v)
    BY <1>12, <2>5 DEF GoesToThumb
  <2>8. goal = result - (result % 2) + (p + 4)
    BY <1>1, <1>2, <1>9, <1>12, <2>1
  <2>9. QED BY <1>12, <2>6, <2>7, <2>8 DEF p, goal
<1>13. CASE thumbHere /\ ~r.thumb /\ r.type = "THM_CALL"
  <2> DEFINE base == p - (p % 4)
             e == sum - base
  <2>1. /\ base \in Int /\ base <= p /\ p <= base + 2 /\ base % 4 = 0
    BY <1>1, <1>5, <1>13
  <2>2. v = ThumbBlx(EncodeThumbBranch(w, aligned))
    BY <1>3, <1>13
  <2>3. aligned = e
    BY <1>4, <1>13 DEF aligned
  <2> HIDE DEF base
  <2>4. e \in Int /\ e >= -16777216 /\ e < 16777216
    BY <1>1, <1>2, <1>6, <1>9, <1>13, <2>1
  <2>5. e % 2 = 0
    BY <1>1, <1>8, <1>13, <2>1
  <2>6. sum = e + base
    BY <1>1, <2>1
  <2> HIDE DEF e
  <2>7. /\ ThumbOffset(EncodeThumbBranch(w, e)) = e
        /\ EncodeThumbBranch(w, e) \in Word
    <3>1. w \in Word
      BY <1>1
    <3>2. ThumbOffset(EncodeThumbBranch(w, e)) = e - (e % 2)
      BY <2>4, <3>1, ThumbEncoded
    <3>3. e - (e % 2) = e
      BY <2>4, <2>5
    <3>4. EncodeThumbBranch(w, e) \in Word
      BY <2>4, <3>1, EncodeThumbBranchType
    <3>5. QED BY <3>2, <3>3, <3>4
  <2>8. ThumbOffset(v) = e /\ IsThumbBlx(v)
    BY <2>2, <2>3, <2>7, ThumbBlxKeeps
  <2>9. Destination(r.type, v, p) = e + (base + 4)
    BY <1>13, <2>8 DEF Destination, base
  <2>10. ~GoesToThumb(r.type, v)
    BY <1>13, <2>8 DEF GoesToThumb
  <2>11. goal = e + (base + 4)
    BY <1>1, <1>2, <1>13, <2>1, <2>4, <2>6
  <2>12. QED BY <1>13, <2>9, <2>10, <2>11 DEF p, goal
<1>14. CASE ~thumbHere /\ ~r.thumb /\ (r.type = "JUMP24" \/ r.type = "CALL")
  <2>1. d % 4 = 0 /\ d >= -33554432 /\ d < 33554428 /\ result = d
    BY <1>1, <1>2, <1>5, <1>6, <1>8, <1>9, <1>10, <1>14
  <2>2. v = EncodeArmBranch(w, result)
    BY <1>3, <1>14
  <2>12. result >= -33554432 /\ result < 33554432
    BY <1>9, <2>1
  <2>3. ArmOffset(v) = result - (result % 4) /\ v[2] \div 256 = w[2] \div 256
    BY <1>1, <1>11, <2>12, <2>2, ArmEncoded
  <2>4. v[2] \in Int /\ w[2] \in Int
    <3>1. v \in Word
      BY <1>1, <1>11, <2>2, EncodeArmBranchType
    <3>2. QED BY <1>1, <3>1, WordHalves
  <2>5. ~(w[2] >= 61440)
    BY <1>5, <1>14 DEF GoesToThumb, IsArmBlx
  <2>6. ~IsArmBlx(v)
    BY <2>3, <2>4, <2>5 DEF IsArmBlx
  <2>7. ArmOffset(v) = d
    BY <1>9, <2>1, <2>3
  <2>8. Destination(r.type, v, p) = p + 8 + d + 0
    BY <1>14, <2>6, <2>7 DEF Destination
  <2>9. ~GoesToThumb(r.type, v)
    BY <1>14, <2>6 DEF GoesToThumb
  <2>10. goal = p + 8 + d + 0
    BY <1>1, <1>2, <1>9, <1>14
  <2>11. QED BY <1>14, <2>8, <2>9, <2>10 DEF p, goal
<1>15. CASE ~thumbHere /\ r.thumb /\ r.type = "CALL"
  <2> DEFINE u == EncodeArmBranch(w, result)
  <2>1. d % 2 = 0 /\ d >= -33554432 /\ d < 33554428 /\ result = d + 1
    BY <1>1, <1>2, <1>5, <1>6, <1>8, <1>9, <1>10, <1>15
  <2>2. v = ArmBlx(u, result)
    BY <1>3, <1>15
  <2>9. result >= -33554432 /\ result < 33554432
    BY <1>9, <2>1
  <2>10. ArmOffset(u) = result - (result % 4)
    BY <1>1, <1>11, <2>9, ArmEncoded
  <2>3. ArmOffset(u) = result - (result % 4) /\ u \in Word
    BY <1>1, <1>11, <2>10, EncodeArmBranchType
  <2> HIDE DEF u
  <2>4. /\ ArmOffset(v) = result - (result % 4)
        /\ 2 * Field(v[2], 256, 2) = (result % 4) - (result % 2)
        /\ IsArmBlx(v)
    <3>1. u \in Word /\ result \in Int
      BY <1>11, <2>3
    <3>2. /\ ArmOffset(v) = ArmOffset(u)
          /\ 2 * Field(v[2], 256, 2) = (result % 4) - (result % 2)
          /\ IsArmBlx(v)
      BY <2>2, <3>1, ArmBlxEncoded
    <3>3. QED BY <2>3, <3>2
  <2>5. Destination(r.type, v, p) =
          p + 8 + (result - (result % 4)) + ((result % 4) - (result % 2))
    BY <1>15, <2>4 DEF Destination
  <2>6. GoesToThumb(r.type, v)
    BY <1>15, <2>4 DEF GoesToThumb
  <2>7. goal = p + 8 + (result - (result % 4)) + ((result % 4) - (result % 2))
    BY <1>1, <1>2, <1>9, <1>15, <2>1
  <2>8. QED BY <1>15, <2>5, <2>6, <2>7 DEF p, goal
<1>16. QED BY <1>7, <1>12, <1>13, <1>14, <1>15

\* Every branch a compiler may emit reaches its goal in the right state, for
\* every place, symbol, addend and instruction within reach.
THEOREM BranchesReachHolds == Spec => []BranchesReach
<1>1. TypeOK /\ PlacedInv => BranchesReach
  BY AppliedPlace, BranchWritten DEF BranchesReach
<1>2. QED BY <1>1, TypeCorrect, PlacedHolds, PTL

------------------------------------------------------------------------------
(***************************************************************************)
(* Pointers.                                                               *)
(***************************************************************************)
\* A number and its two parts.
LEMMA Divided ==
    ASSUME NEW n \in Int
    PROVE  /\ n = (n \div 65536) * 65536 + (n % 65536)
           /\ n \div 65536 \in Int /\ n % 65536 \in Int
  OBVIOUS

\* m is a multiple of 2^32.
Wraps(m) == \E k \in Int : m = k * 4294967296

\* Reading back a word gives the number modulo 2^32.
LEMMA Int32OfWord ==
    ASSUME NEW n \in Int
    PROVE  \E m \in Int : Wraps(m) /\ Int32(ToWord(n)) = n + m
<1> DEFINE a == n % 65536
           q == n \div 65536
           b == q % 65536
           c == q \div 65536
<1>1. /\ a \in Int /\ b \in Int /\ c \in Int
      /\ n = c * 4294967296 + b * 65536 + a
  <2>1. n = q * 65536 + a /\ q \in Int /\ a \in Int
    BY Divided
  <2> HIDE DEF a, q
  <2>2. q = c * 65536 + b /\ c \in Int /\ b \in Int
    BY <2>1, Divided
  <2> HIDE DEF b, c
  <2>3. QED BY <2>1, <2>2
<1>2. Int32(ToWord(n)) = (IF b < 32768 THEN b ELSE b - 65536) * 65536 + a
  BY DEF Int32, ToWord
<1> HIDE DEF a, b, c, q
<1>3. CASE b < 32768
  <2> DEFINE m == (-c) * 4294967296
  <2>1. -c \in Int /\ m \in Int /\ Int32(ToWord(n)) = n + m
    BY <1>1, <1>2, <1>3
  <2>2. Wraps(m)
    BY <2>1 DEF Wraps
  <2>3. QED BY <2>1, <2>2
<1>4. CASE ~(b < 32768)
  <2> DEFINE m == (-c - 1) * 4294967296
  <2>1. -c - 1 \in Int /\ m \in Int /\ Int32(ToWord(n)) = n + m
    BY <1>1, <1>2, <1>4
  <2>2. Wraps(m)
    BY <2>1 DEF Wraps
  <2>3. QED BY <2>1, <2>2
<1>5. QED BY <1>3, <1>4

LEMMA ToWordModulo ==
    ASSUME NEW n \in Int, NEW m \in Int, Wraps(m)
    PROVE  ToWord(n + m) = ToWord(n)
<1>1. PICK k \in Int : m = k * 4294967296
  BY DEF Wraps
<1>2. (n + m) % 65536 = n % 65536
  BY <1>1
<1>3. (n + m) \div 65536 = (n \div 65536) + k * 65536
  BY <1>1
<1>4. ((n \div 65536) + k * 65536) % 65536 = (n \div 65536) % 65536
  OBVIOUS
<1>5. QED BY <1>2, <1>3, <1>4 DEF ToWord

LEMMA WrapsHalf ==
    ASSUME NEW m \in Int, Wraps(m)
    PROVE  \E h \in Int : m = 65536 * h
<1>1. PICK k \in Int : m = k * 4294967296
  BY DEF Wraps
<1>2. k * 65536 \in Int /\ m = 65536 * (k * 65536)
  BY <1>1
<1>3. QED BY <1>2

\* The 31 low bits of a distance below 2^30 are the distance.
LEMMA Prel31Read ==
    ASSUME NEW n \in Int, n >= -1073741824, n < 1073741824,
           NEW t \in Nat, t < 2,
           NEW lo, lo = ToWord(n)[1],
           NEW hi, hi = t * 32768 + Field(ToWord(n)[2], 1, 32768)
    PROVE  /\ lo + (hi % 16384) * 65536 - Field(hi, 16384, 2) * 1073741824 = n
           /\ hi \div 32768 = t /\ lo \in Int /\ hi \in Int
<1> DEFINE c == n \div 65536
           b == (c % 65536) % 32768
<1>1. /\ lo = n % 65536 /\ lo \in Nat
      /\ c \in Int /\ n = c * 65536 + lo /\ c >= -16384 /\ c < 16384
  BY SMTT(60) DEF ToWord
<1>2. hi = t * 32768 + b
  BY DEF ToWord, Field
<1> HIDE DEF c
<1>3. b \in Nat /\ b < 32768 /\ c = b - (IF b < 16384 THEN 0 ELSE 32768)
  BY <1>1, SMTT(60)
<1> HIDE DEF b
<1>4. /\ hi % 16384 = b - (IF b < 16384 THEN 0 ELSE 16384)
      /\ Field(hi, 16384, 2) = (IF b < 16384 THEN 0 ELSE 1)
      /\ hi \div 32768 = t /\ hi \in Int
  BY <1>2, <1>3, SMTT(60) DEF Field
<1>5. QED BY <1>1, <1>3, <1>4

LEMMA ToWordInt32 ==
    ASSUME NEW n \in Int, NEW p \in Int
    PROVE  ToWord(Int32(ToWord(n)) + p) = ToWord(n + p)
<1>1. PICK m \in Int : Wraps(m) /\ Int32(ToWord(n)) = n + m
  BY Int32OfWord
<1>2. (n + m) + p = (n + p) + m
  OBVIOUS
<1>3. ToWord((n + p) + m) = ToWord(n + p)
  BY <1>1, ToWordModulo
<1>4. QED BY <1>1, <1>2, <1>3

LEMMA PointerApplied ==
    ASSUME NEW r, NEW w, NEW a, r.type \in Pointers
    PROVE  LET v == ApplyArmReloc(r, w, a)
               goal == PointerGoal(r, a)
               offset == ToWord(goal - r.place)
           IN  /\ r.type = "REL32" => v = offset
               /\ r.type = "PREL31" =>
                    v = << offset[1],
                           Field(w[2], 32768, 2) * 32768
                             + Field(offset[2], 1, 32768) >>
               /\ r.type \notin {"REL32", "PREL31"} => v = ToWord(goal)
<1>1. ApplyArmReloc(r, w, a) = EncodePointer(r, w, a)
  BY DEF ApplyArmReloc
<1>2. CASE r.type = "REL32"
  BY <1>1, <1>2 DEF EncodePointer, PointerGoal
<1>3. CASE r.type = "PREL31"
  BY <1>1, <1>3 DEF EncodePointer, PointerGoal
<1>4. CASE r.type = "RELATIVE"
  BY <1>1, <1>4 DEF EncodePointer, PointerGoal
<1>5. CASE r.type \notin {"REL32", "PREL31", "RELATIVE"}
  BY <1>1, <1>5 DEF EncodePointer, PointerGoal
<1>6. QED BY <1>2, <1>3, <1>4, <1>5

LEMMA PointerGoalType ==
    ASSUME NEW r \in Relocation, NEW a \in Int
    PROVE  PointerGoal(r, a) \in Int
BY ValueType DEF PointerGoal, Relocation

\* The addend the loader takes for a pointer.
LEMMA PointerAddend ==
    ASSUME NEW r \in Relocation, r.type \in Pointers
    PROVE  AddendOf(r, FileWord(r)) = ReadPointerAddend(r)
<1>1. CASE r.rela
  BY <1>1 DEF AddendOf, ReadPointerAddend, WrittenAddend
<1>2. CASE ~r.rela /\ r.type \in InPlace
  BY <1>2 DEF AddendOf, ReadAddend, ReadPointerAddend, WrittenAddend, InPlace, Moves
<1>3. CASE ~r.rela /\ r.type \notin InPlace
  BY <1>3 DEF AddendOf, ReadAddend, ReadPointerAddend, InPlace, Pointers
<1>4. QED BY <1>1, <1>2, <1>3

\* Every pointer means the symbol it is for and the addend the loader takes.
THEOREM PointersReachHolds == Spec => []PointersReach
<1>1. TypeOK /\ PlacedInv => PointersReach
  <2> SUFFICES ASSUME TypeOK, PlacedInv,
                      NEW i \in DOMAIN prog.rels, Applied(i), Apart(i),
                      prog.rels[i].type \in Pointers,
                      Representable(prog.rels[i])
               PROVE  PointerTo(prog.rels[i].type, WordAt(mem, prog.rels[i].place),
                                prog.rels[i].place)
                        = ToWord(PointerGoal(prog.rels[i],
                                             ReadPointerAddend(prog.rels[i])))
    BY DEF PointersReach
  <2> DEFINE r == prog.rels[i]
             a == ReadPointerAddend(r)
             goal == PointerGoal(r, a)
             p == r.place
             v == WordAt(mem, r.place)
             f == FileWord(r)
  <2>1. /\ r \in Relocation /\ f \in Word /\ a \in Int
        /\ v = ApplyArmReloc(r, f, a)
    BY AppliedPlace, PointerAddend
  <2>2. r.type \in Pointers /\ Representable(r) /\ p \in Nat
    BY <2>1 DEF Relocation
  <2> HIDE DEF r, v, f
  <2>3. goal \in Int
    BY <2>1, PointerGoalType
  <2>4. /\ r.type = "REL32" => v = ToWord(goal - p)
        /\ r.type = "PREL31" =>
             v = << ToWord(goal - p)[1],
                    Field(f[2], 32768, 2) * 32768
                      + Field(ToWord(goal - p)[2], 1, 32768) >>
        /\ r.type \notin {"REL32", "PREL31"} => v = ToWord(goal)
    BY <2>1, <2>2, PointerApplied
  <2>5. r.type = "PREL31" => p < 1073741824 /\ goal >= 0 /\ goal < 1073741824
    BY <2>2 DEF Representable
  <2> HIDE DEF a, goal, p
  <2>6. CASE r.type = "REL32"
    <3>1. v = ToWord(goal - p) /\ goal - p \in Int /\ p \in Int
      BY <2>2, <2>3, <2>4, <2>6
    <3>2. ToWord(Int32(v) + p) = ToWord((goal - p) + p)
      BY <3>1, ToWordInt32
    <3>3. (goal - p) + p = goal
      BY <2>2, <2>3
    <3>4. PointerTo(r.type, v, p) = ToWord(goal)
      BY <2>6, <3>2, <3>3 DEF PointerTo
    <3>5. QED BY <3>4 DEF p, r, goal, a, v
  <2>7. CASE r.type = "PREL31"
    <3> DEFINE t == Field(f[2], 32768, 2)
               n == goal - p
               lo == ToWord(n)[1]
               hi == t * 32768 + Field(ToWord(n)[2], 1, 32768)
    <3>1. v = <<lo, hi>>
      BY <2>4, <2>7
    <3>2. p < 1073741824 /\ goal >= 0 /\ goal < 1073741824
      BY <2>5, <2>7
    <3>3. t \in Nat /\ t < 2
      BY <2>1, WordHalves DEF Field
    <3>4. /\ n \in Int /\ n >= -1073741824 /\ n < 1073741824
          /\ p + n = goal
      BY <2>2, <2>3, <3>2
    <3> HIDE DEF t, n
    <3>5. /\ lo + (hi % 16384) * 65536 - Field(hi, 16384, 2) * 1073741824 = n
          /\ lo \in Int /\ hi \in Int
      BY <3>3, <3>4, Prel31Read
    <3> HIDE DEF lo, hi
    <3>6. (hi % 16384) \in Int /\ Field(hi, 16384, 2) \in Int
      BY <3>5 DEF Field
    <3>7. p + lo + (hi % 16384) * 65536 - Field(hi, 16384, 2) * 1073741824 = goal
      BY <2>2, <2>3, <3>4, <3>5, <3>6
    <3>8. PointerTo(r.type, v, p) = ToWord(goal)
      BY <2>7, <3>1, <3>7 DEF PointerTo
    <3>9. QED BY <3>8 DEF p, r, goal, a, v
  <2>8. CASE r.type \notin {"REL32", "PREL31"}
    <3>1. v = ToWord(goal)
      BY <2>4, <2>8
    <3>2. QED BY <2>8, <3>1 DEF PointerTo, r, goal, a, v, p
  <2>9. QED BY <2>6, <2>7, <2>8
<1>2. QED BY <1>1, TypeCorrect, PlacedHolds, PTL

------------------------------------------------------------------------------
(***************************************************************************)
(* Two relocations of one place.                                           *)
(***************************************************************************)
LEMMA StoredType ==
    ASSUME NEW r \in Relocation, NEW a \in Int
    PROVE  Stored(r, a) \in Int
BY PointerGoalType DEF Stored, Relocation

\* What a relocation whose addend is in place writes.
LEMMA StoredWord ==
    ASSUME NEW r \in Relocation, NEW w, NEW a \in Int, r.type \in InPlace
    PROVE  ApplyArmReloc(r, w, a) = ToWord(Stored(r, a))
<1>1. r.type \in Pointers /\ r.type # "PREL31"
  BY DEF InPlace, Pointers
<1>2. PointerGoal(r, a) \in Int /\ PointerGoal(r, a) - 0 = PointerGoal(r, a)
  BY PointerGoalType
<1>3. CASE r.type = "REL32"
  BY <1>1, <1>3, PointerApplied DEF Stored
<1>4. CASE r.type # "REL32"
  BY <1>1, <1>2, <1>4, PointerApplied DEF Stored
<1>5. QED BY <1>3, <1>4

\* An addend that is 2^32 larger makes a sum that is 2^32 larger.
LEMMA StoredModulo ==
    ASSUME NEW r \in Relocation, NEW a \in Int, NEW m \in Int, Wraps(m)
    PROVE  ToWord(Stored(r, a + m)) = ToWord(Stored(r, a))
<1> DEFINE s == ClearBit0(r.sym)
           d == IF r.type = "REL32" THEN r.place ELSE 0
           n == Stored(r, a)
<1>1. s \in Int /\ r.sym \in Int /\ r.thumb \in BOOLEAN /\ d \in Int
  BY BitType DEF Relocation
<1>2. PICK h \in Int : m = 65536 * h
  BY WrapsHalf
<1> HIDE DEF s, d
<1>3. Tagged(s + (a + m), r.thumb) = Tagged(s + a, r.thumb) + m
  <2>1. s + (a + m) = (s + a) + 65536 * h /\ s + a \in Int
    BY <1>1, <1>2
  <2>2. Tagged((s + a) + 65536 * h, r.thumb) = Tagged(s + a, r.thumb) + 65536 * h
    BY <1>1, <2>1, TaggedSum
  <2>3. QED BY <1>2, <2>1, <2>2
<1>4. PointerGoal(r, a + m) = PointerGoal(r, a) + m
  <2>1. r.sym + (a + m) = (r.sym + a) + m
    BY <1>1
  <2>2. QED BY <1>3, <2>1 DEF PointerGoal, s
<1>5. PointerGoal(r, a) \in Int /\ n \in Int
  BY PointerGoalType, StoredType
<1>6. Stored(r, a + m) = PointerGoal(r, a + m) - d /\ n = PointerGoal(r, a) - d
  BY DEF Stored, d
<1> HIDE DEF n
<1>7. Stored(r, a + m) = n + m
  BY <1>1, <1>4, <1>5, <1>6
<1>8. ToWord(n + m) = ToWord(n)
  BY <1>5, ToWordModulo
<1>9. QED BY <1>7, <1>8 DEF n

\* The second of two relocations of one place adds to what the first has left,
\* for every pair of symbols, types and addends.
THEOREM RelocsComposeHold == Spec => []RelocsCompose
<1>1. TypeOK /\ PlacedInv => RelocsCompose
  <2> SUFFICES ASSUME TypeOK, PlacedInv,
                      NEW i \in DOMAIN prog.rels, NEW j \in DOMAIN prog.rels,
                      i < j, Applied(j), prog.rels[i].place = prog.rels[j].place,
                      Alone(i, j), prog.rels[i].type \in InPlace,
                      prog.rels[j].type \in InPlace, ~prog.rels[j].rela
               PROVE  WordAt(mem, prog.rels[j].place) =
                        ToWord(Stored(prog.rels[j],
                                      Stored(prog.rels[i],
                                             WrittenAddend(prog.rels[i]))))
    BY DEF RelocsCompose
  <2> DEFINE r == prog.rels[i]
             q == prog.rels[j]
             f == FileWord(r)
             a == WrittenAddend(r)
             n == Stored(r, a)
             once == Relocated(r, f)
  <2>1. r \in Relocation /\ q \in Relocation /\ f \in Word
    BY RelocationType, FileWordType DEF TypeOK
  <2>2. r.type \in InPlace /\ q.type \in InPlace /\ ~q.rela
    OBVIOUS
  <2>3. WordAt(mem, q.place) = Relocated(q, once)
    BY DEF PlacedInv, TwicePlaced, Applied
  <2>4. AddendOf(r, f) = a /\ a \in Int
    <3>1. r.type \in Pointers
      BY <2>2 DEF InPlace, Pointers
    <3>2. AddendOf(r, f) = a
      BY <2>1, <2>2, <3>1, PointerAddend DEF ReadPointerAddend
    <3>3. QED BY <2>1, <3>2, AddendType
  <2> HIDE DEF r, q, f, a, once
  <2>5. once = ToWord(n) /\ n \in Int
    BY <2>1, <2>2, <2>4, StoredWord, StoredType DEF once, Relocated
  <2> HIDE DEF n
  <2>6. AddendOf(q, once) = Int32(once)
    BY <2>2 DEF AddendOf, ReadAddend, InPlace
  <2> DEFINE b == Int32(once)
  <2>7. PICK m \in Int : Wraps(m) /\ b = n + m
    BY <2>5, Int32OfWord
  <2>8. b \in Int
    BY <2>5, <2>7
  <2> HIDE DEF b
  <2>9. Relocated(q, once) = ToWord(Stored(q, b))
    BY <2>1, <2>2, <2>6, <2>8, StoredWord DEF Relocated, b
  <2>10. ToWord(Stored(q, n + m)) = ToWord(Stored(q, n))
    BY <2>1, <2>5, <2>7, StoredModulo
  <2>11. QED BY <2>3, <2>7, <2>9, <2>10 DEF r, q, n, a
<1>2. QED BY <1>1, TypeCorrect, PlacedHolds, PTL

------------------------------------------------------------------------------
(***************************************************************************)
(* Opcodes.                                                                *)
(***************************************************************************)
\* A halfword is the bits above its operand, and the operand.
LEMMA TopBits ==
    ASSUME NEW h \in Half
    PROVE  /\ h \div 2048 < 32 /\ h \div 4096 < 16 /\ h \div 16384 < 4
           /\ h \div 32768 < 2 /\ h \div 16 < 4096 /\ h \div 256 < 256
BY DEF Half

LEMMA ArmBranchKeeps ==
    ASSUME NEW w \in Word, NEW n \in Int
    PROVE  EncodeArmBranch(w, n)[2] \div 256 = w[2] \div 256
<1> DEFINE imm == Field(n, 4, 16777216)
           b == imm \div 65536
           top == Field(w[2], 256, 256)
<1>1. b \in Nat /\ b < 256
  BY SMTT(30) DEF Field
<1>2. top = w[2] \div 256 /\ top \in Nat
  BY WordHalves DEF Field
<1>3. EncodeArmBranch(w, n)[2] = top * 256 + b
  BY DEF EncodeArmBranch
<1> HIDE DEF b, top
<1>4. (top * 256 + b) \div 256 = top
  BY <1>1, <1>2
<1>5. QED BY <1>2, <1>3, <1>4

LEMMA ThumbBranchKeeps ==
    ASSUME NEW w \in Word, NEW n \in Int
    PROVE  LET v == EncodeThumbBranch(w, n)
           IN  /\ v[1] \div 2048 = w[1] \div 2048
               /\ v[2] \div 16384 = w[2] \div 16384
               /\ Field(v[2], 4096, 2) = Field(w[2], 4096, 2)
<1> DEFINE r == Field(n, 2, 16777216)
           s == Field(r, 8388608, 2)
           i1 == Equal(Field(r, 4194304, 2), s)
           i2 == Equal(Field(r, 2097152, 2), s)
           x == Field(r, 2048, 1024)
           y == Field(r, 1, 2048)
           k == Field(w[1], 2048, 32)
           q == Field(w[2], 16384, 4)
           b == Field(w[2], 4096, 2)
<1>1. r \in Int
  BY DEF Field
<1> HIDE DEF r
<1>2. /\ s \in Nat /\ s < 2 /\ x \in Nat /\ x < 1024 /\ y \in Nat /\ y < 2048
      /\ i1 \in {0, 1} /\ i2 \in {0, 1}
  BY <1>1 DEF Field, Equal
<1>3. /\ k \in Nat /\ k = w[1] \div 2048 /\ q \in Nat /\ q = w[2] \div 16384
      /\ b \in Nat /\ b < 2
  BY WordHalves DEF Field
<1>4. EncodeThumbBranch(w, n) = <<BranchHi(k, s, x), BranchLo(q, b, i1, i2, y)>>
  BY DEF EncodeThumbBranch, r, BranchHi, BranchLo
<1> HIDE DEF s, x, y, i1, i2, k, q
<1>5. BranchHi(k, s, x) \div 2048 = k
  BY <1>2, <1>3, ThumbBranchHi
<1>6. /\ BranchLo(q, b, i1, i2, y) \div 16384 = q
      /\ Field(BranchLo(q, b, i1, i2, y), 4096, 2) = b
  <2> HIDE DEF b
  <2>1. i1 \in Nat /\ i1 < 2 /\ i2 \in Nat /\ i2 < 2
    BY <1>2
  <2>2. QED BY <1>2, <1>3, <2>1, ThumbBranchLo
<1>7. QED BY <1>3, <1>4, <1>5, <1>6

LEMMA ArmMovKeeps ==
    ASSUME NEW w \in Word, NEW v \in Half
    PROVE  LET u == EncodeArmMov(w, v)
           IN  u[1] \div 4096 = w[1] \div 4096 /\ u[2] \div 16 = w[2] \div 16
<1> DEFINE k == Field(w[1], 4096, 16)
           q == Field(w[2], 16, 4096)
           x == Field(v, 1, 4096)
           y == Field(v, 4096, 16)
<1>1. /\ k \in Nat /\ k = w[1] \div 4096 /\ q \in Nat /\ q = w[2] \div 16
      /\ x \in Nat /\ x < 4096 /\ y \in Nat /\ y < 16
  BY WordHalves DEF Field, Half
<1>2. EncodeArmMov(w, v) = <<k * 4096 + x, q * 16 + y>>
  BY DEF EncodeArmMov
<1> HIDE DEF k, q, x, y
<1>3. (k * 4096 + x) \div 4096 = k /\ (q * 16 + y) \div 16 = q
  BY <1>1, ArmMovHalf
<1>4. QED BY <1>1, <1>2, <1>3

LEMMA ThumbMovKeeps ==
    ASSUME NEW w \in Word, NEW v \in Half
    PROVE  LET u == EncodeThumbMov(w, v)
           IN  /\ u[1] \div 2048 = w[1] \div 2048
               /\ Field(u[1], 16, 64) = Field(w[1], 16, 64)
               /\ u[2] \div 32768 = w[2] \div 32768
               /\ Field(u[2], 256, 16) = Field(w[2], 256, 16)
<1> DEFINE k == Field(w[1], 2048, 32)
           i == Field(v, 2048, 2)
           m == Field(w[1], 16, 64)
           x == Field(v, 4096, 16)
           q == Field(w[2], 32768, 2)
           j == Field(v, 256, 8)
           n == Field(w[2], 256, 16)
           y == Field(v, 1, 256)
<1>1. /\ k \in Nat /\ k = w[1] \div 2048 /\ i \in Nat /\ i < 2
      /\ m \in Nat /\ m < 64 /\ x \in Nat /\ x < 16
      /\ q \in Nat /\ q = w[2] \div 32768 /\ j \in Nat /\ j < 8
      /\ n \in Nat /\ n < 16 /\ y \in Nat /\ y < 256
  BY WordHalves DEF Field, Half
<1>2. EncodeThumbMov(w, v) = <<MovHi(k, i, m, x), MovLo(q, j, n, y)>>
  BY DEF EncodeThumbMov, MovHi, MovLo
<1> HIDE DEF k, i, m, x, q, j, n, y
<1>3. /\ MovHi(k, i, m, x) \div 2048 = k /\ Field(MovHi(k, i, m, x), 16, 64) = m
      /\ MovLo(q, j, n, y) \div 32768 = q /\ Field(MovLo(q, j, n, y), 256, 16) = n
  BY <1>1, ThumbMovHi, ThumbMovLo
<1>4. QED BY <1>1, <1>2, <1>3 DEF m, n

LEMMA Prel31Keeps ==
    ASSUME NEW t \in Nat, NEW n \in Int
    PROVE  (t * 32768 + Field(n, 1, 32768)) \div 32768 = t
BY DEF Field

\* One relocation keeps the opcode of the word it patches.
LEMMA OpcodeKept ==
    ASSUME NEW r \in Relocation, NEW w \in Word, NEW a \in Int,
           ~(r.type = "CALL" /\ r.thumb), ~(r.type = "THM_CALL" /\ ~r.thumb)
    PROVE  Opcode(r.type, ApplyArmReloc(r, w, a)) = Opcode(r.type, w)
<1> DEFINE value == Tagged(ClearBit0(r.sym) + a, r.thumb)
           result == value - r.place
           low == value % 65536
           high == Field(ClearBit0(r.sym) + a, 65536, 65536)
           v == ApplyArmReloc(r, w, a)
<1>1. value \in Int /\ result \in Int /\ low \in Half /\ high \in Half
  BY ValueType DEF Relocation, Half, Field
<1> HIDE DEF value, result, low, high
<1>2. CASE r.type \in {"CALL", "JUMP24"}
  <2>1. v = EncodeArmBranch(w, result)
    BY <1>2, CallApplied DEF Calls, result, value
  <2>2. v[2] \div 256 = w[2] \div 256
    BY <1>1, <2>1, ArmBranchKeeps
  <2> HIDE DEF v
  <2>3. /\ Opcode(r.type, v) = <<v[2] \div 256>>
        /\ Opcode(r.type, w) = <<w[2] \div 256>>
    BY <1>2, SMT DEF Opcode, Ignored
  <2>4. QED BY <2>2, <2>3 DEF v
<1>3. CASE r.type \in {"THM_CALL", "THM_JUMP24"}
  <2>1. v = EncodeThumbBranch(w, result)
    BY <1>3, CallApplied DEF Calls, result, value
  <2>2. /\ v[1] \div 2048 = w[1] \div 2048 /\ v[2] \div 16384 = w[2] \div 16384
        /\ Field(v[2], 4096, 2) = Field(w[2], 4096, 2)
    BY <1>1, <2>1, ThumbBranchKeeps
  <2> HIDE DEF v
  <2>3. /\ Opcode(r.type, v) = <<v[1] \div 2048, v[2] \div 16384, Field(v[2], 4096, 2)>>
        /\ Opcode(r.type, w) = <<w[1] \div 2048, w[2] \div 16384, Field(w[2], 4096, 2)>>
    BY <1>3, SMT DEF Opcode, Ignored
  <2>4. QED BY <2>2, <2>3 DEF v
<1>4. CASE r.type \in {"MOVW", "MOVT"}
  <2>1. v = EncodeArmMov(w, low) \/ v = EncodeArmMov(w, high)
    BY <1>4 DEF ApplyArmReloc, EncodeMove, Moves, Pointers, Calls, low, high, value
  <2>2. v[1] \div 4096 = w[1] \div 4096 /\ v[2] \div 16 = w[2] \div 16
    BY <1>1, <2>1, ArmMovKeeps
  <2> HIDE DEF v
  <2>3. /\ Opcode(r.type, v) = <<v[1] \div 4096, v[2] \div 16>>
        /\ Opcode(r.type, w) = <<w[1] \div 4096, w[2] \div 16>>
    BY <1>4, SMT DEF Opcode, Ignored
  <2>4. QED BY <2>2, <2>3 DEF v
<1>5. CASE r.type \in {"THM_MOVW", "THM_MOVT"}
  <2>1. v = EncodeThumbMov(w, low) \/ v = EncodeThumbMov(w, high)
    BY <1>5 DEF ApplyArmReloc, EncodeMove, Moves, Pointers, Calls, low, high, value
  <2>2. /\ v[1] \div 2048 = w[1] \div 2048
        /\ Field(v[1], 16, 64) = Field(w[1], 16, 64)
        /\ v[2] \div 32768 = w[2] \div 32768
        /\ Field(v[2], 256, 16) = Field(w[2], 256, 16)
    BY <1>1, <2>1, ThumbMovKeeps
  <2> HIDE DEF v
  <2>3. /\ Opcode(r.type, v) = << v[1] \div 2048, Field(v[1], 16, 64), v[2] \div 32768, Field(v[2], 256, 16) >>
        /\ Opcode(r.type, w) = << w[1] \div 2048, Field(w[1], 16, 64), w[2] \div 32768, Field(w[2], 256, 16) >>
    BY <1>5, SMT DEF Opcode, Ignored
  <2>4. QED BY <2>2, <2>3 DEF v
<1>6. CASE r.type = "PREL31"
  <2> DEFINE t == Field(w[2], 32768, 2)
  <2>1. v[2] = t * 32768 + Field(ToWord(result)[2], 1, 32768)
    BY <1>6, PointerApplied DEF Pointers, PointerGoal, result, value
  <2>2. t \in Nat /\ t = w[2] \div 32768
    BY WordHalves DEF Field
  <2>3. ToWord(result)[2] \in Int
    BY <1>1, ToWordType, WordHalves
  <2> HIDE DEF v, t
  <2>4. v[2] \div 32768 = w[2] \div 32768
    BY <2>1, <2>2, <2>3, Prel31Keeps
  <2>5. /\ Opcode(r.type, v) = <<v[2] \div 32768>>
        /\ Opcode(r.type, w) = <<w[2] \div 32768>>
    BY <1>6, SMT DEF Opcode, Ignored
  <2>6. QED BY <2>4, <2>5 DEF v
<1>7. CASE r.type \in Ignored
  <2>1. v = w
    BY <1>7 DEF ApplyArmReloc, Ignored, Moves, Pointers, Calls
  <2>2. QED BY <2>1
<1>8. CASE r.type \in (Pointers \ {"PREL31"}) \cup {"unsupported"}
  <2>1. \A u : Opcode(r.type, u) = << >>
    BY <1>8 DEF Opcode, Pointers, Ignored
  <2>2. QED BY <2>1, Zenon
<1>9. r.type \in Types
  BY DEF Relocation
<1>10. QED BY <1>2, <1>3, <1>4, <1>5, <1>6, <1>7, <1>8, <1>9
           DEF Types, Calls, Moves, Pointers, Ignored

\* No relocation disturbs a bit outside its operand, for every program.
THEOREM OpcodesHold == Spec => []OpcodesKept
<1>1. TypeOK /\ PlacedInv => OpcodesKept
  <2> SUFFICES ASSUME TypeOK, PlacedInv, NEW i \in DOMAIN prog.rels, Apart(i),
                      ~(prog.rels[i].type = "CALL" /\ prog.rels[i].thumb),
                      ~(prog.rels[i].type = "THM_CALL" /\ ~prog.rels[i].thumb)
               PROVE  Opcode(prog.rels[i].type, WordAt(mem, prog.rels[i].place))
                        = Opcode(prog.rels[i].type, FileWord(prog.rels[i]))
    BY DEF OpcodesKept
  <2>1. CASE Applied(i)
    BY <2>1, AppliedPlace, OpcodeKept
  <2>2. CASE ~Applied(i)
    BY <2>2 DEF Applied, PlacedInv, OncePlaced
  <2>3. QED BY <2>1, <2>2
<1>2. QED BY <1>1, TypeCorrect, PlacedHolds, PTL
==============================================================================
