------------------------------ MODULE CpuProofs ------------------------------
(***************************************************************************)
(* The processor is type correct, never indexes an instruction table       *)
(* outside its bounds and guards the PSW, whatever program it runs and     *)
(* whatever the user does.                                                 *)
(***************************************************************************)
EXTENDS Cpu, TLAPS

Bit == {0, 1}
ByteValue == 0 .. 255

-----------------------------------------------------------------------------
(* Fields of words. *)

LEMMA PlusType == ASSUME NEW x \in Int, NEW y \in Int PROVE Plus(x, y) \in Word16
BY SMT DEF Plus, Word16

LEMMA BitType ==
  ASSUME NEW x \in Word16
  PROVE  /\ B(x, 0) \in Bit /\ B(x, 1) \in Bit /\ B(x, 2) \in Bit
         /\ B(x, 3) \in Bit /\ B(x, 4) \in Bit /\ B(x, 5) \in Bit
         /\ B(x, 6) \in Bit /\ B(x, 7) \in Bit /\ B(x, 8) \in Bit
         /\ B(x, 9) \in Bit /\ B(x, 10) \in Bit /\ B(x, 11) \in Bit
         /\ B(x, 12) \in Bit /\ B(x, 13) \in Bit /\ B(x, 14) \in Bit
         /\ B(x, 15) \in Bit
BY SMT DEF B, Bit, Word16

LEMMA FieldType ==
  ASSUME NEW x \in Word16
  PROVE  /\ LowByte(x) \in ByteValue /\ HighByte(x) \in ByteValue
         /\ B0_2(x) \in 0 .. 7 /\ B3_5(x) \in 0 .. 7
         /\ B6_9(x) \in 0 .. 15 /\ B3_10(x) \in ByteValue
         /\ x \in Int
BY SMT DEF LowByte, HighByte, ByteValue, B0_2, B3_5, B6_9, B3_10, Word16

LEMMA WordIsInt == \A x \in Word16 : x \in Int
BY SMT DEF Word16

LEMMA SignExtendType ==
  ASSUME NEW x \in Nat
  PROVE  /\ SignExtend(x, 7) \in Int /\ SignExtend(x, 10) \in Int
         /\ SignExtend(x, 13) \in Int
BY SMT DEF SignExtend

LEMMA PackType ==
  ASSUME NEW f \in [0 .. 15 -> Bit]
  PROVE  Pack(f) \in Word16
<1>1. \A k \in 0 .. 15 : f[k] \in Nat /\ f[k] <= 1
  BY SMT DEF Bit
<1> DEFINE nibble(i) == f[i] + 2 * f[i + 1] + 4 * f[i + 2] + 8 * f[i + 3]
<1>2. \A i \in 0 .. 12 : nibble(i) \in Nat /\ nibble(i) <= 15
  <2> SUFFICES ASSUME NEW i \in 0 .. 12
               PROVE  nibble(i) \in Nat /\ nibble(i) <= 15
    OBVIOUS
  <2>1. /\ f[i] \in Nat /\ f[i + 1] \in Nat /\ f[i + 2] \in Nat /\ f[i + 3] \in Nat
        /\ f[i] <= 1 /\ f[i + 1] <= 1 /\ f[i + 2] <= 1 /\ f[i + 3] <= 1
    BY <1>1, SMT
  <2> QED BY <2>1, SMT
<1>3. Pack(f) = nibble(0) + 16 * nibble(4) + 256 * nibble(8) + 4096 * nibble(12)
  BY <1>1, SMT DEF Pack
<1> HIDE DEF nibble
<1>4. /\ nibble(0) \in Nat /\ nibble(0) <= 15 /\ nibble(4) \in Nat /\ nibble(4) <= 15
      /\ nibble(8) \in Nat /\ nibble(8) <= 15 /\ nibble(12) \in Nat /\ nibble(12) <= 15
  BY <1>2
<1> QED
  BY <1>3, <1>4, SMT DEF Word16

LEMMA BitwiseType ==
  ASSUME NEW x \in Word16, NEW y \in Word16
  PROVE  /\ BitAnd(x, y) \in Word16 /\ BitOr(x, y) \in Word16
         /\ BitXor(x, y) \in Word16 /\ BitNot(x) \in Word16
<1>1. \A k \in 0 .. 15 : B(x, k) \in Bit /\ B(y, k) \in Bit
  <2> SUFFICES ASSUME NEW k \in 0 .. 15 PROVE B(x, k) \in Bit /\ B(y, k) \in Bit
    OBVIOUS
  <2>1. k \in {0, 1, 2, 3, 4, 5, 6, 7, 8, 9, 10, 11, 12, 13, 14, 15}
    BY SMT
  <2> QED BY <2>1, BitType
<1>2. [k \in 0 .. 15 |-> B(x, k) * B(y, k)] \in [0 .. 15 -> Bit]
  BY <1>1, SMT DEF Bit
<1>3. [k \in 0 .. 15 |-> IF B(x, k) + B(y, k) = 0 THEN 0 ELSE 1] \in [0 .. 15 -> Bit]
  BY <1>1, SMT DEF Bit
<1>4. [k \in 0 .. 15 |-> (B(x, k) + B(y, k)) % 2] \in [0 .. 15 -> Bit]
  BY <1>1, SMT DEF Bit
<1>5. BitNot(x) \in Word16
  BY SMT DEF BitNot, Word16
<1> QED
  BY <1>2, <1>3, <1>4, <1>5, PackType DEF BitAnd, BitOr, BitXor

(* The PSW is a word. *)
LEMMA PswType ==
  /\ \A w \in Word16 : PswOf(w) \in Psw
  /\ \A p \in Psw : PswWord(p) \in Word16
<1>1. ASSUME NEW w \in Word16 PROVE PswOf(w) \in Psw
  <2>0. w \in Nat
    BY DEF Word16
  <2>1. /\ (w \div 32) % 8 \in 0 .. 7 /\ (w \div 512) % 16 \in 0 .. 15
        /\ (w \div 8192) % 8 \in 0 .. 7
    <3>1. \A n \in Nat : n % 8 \in 0 .. 7 /\ n % 16 \in 0 .. 15
      BY SMT
    <3>2. w \div 32 \in Nat /\ w \div 512 \in Nat /\ w \div 8192 \in Nat
      BY <2>0, SMT
    <3> QED BY <3>1, <3>2
  <2> QED BY <2>1, BitType DEF PswOf, Psw, Bit
<1>2. ASSUME NEW p \in Psw PROVE PswWord(p) \in Word16
  <2>1. /\ p.c \in Nat /\ p.c <= 1 /\ p.z \in Nat /\ p.z <= 1
        /\ p.n \in Nat /\ p.n <= 1 /\ p.slp \in Nat /\ p.slp <= 1
        /\ p.v \in Nat /\ p.v <= 1 /\ p.current \in Nat /\ p.current <= 7
        /\ p.faulting \in Nat /\ p.faulting <= 1
        /\ p.reserved \in Nat /\ p.reserved <= 15
        /\ p.previous \in Nat /\ p.previous <= 7
    BY SMT DEF Psw
  <2> DEFINE low  == p.c + 2 * p.z + 4 * p.n + 8 * p.slp + 16 * p.v
             mid  == 32 * p.current + 256 * p.faulting
             high == 512 * p.reserved + 8192 * p.previous
  <2>2. /\ low \in Nat /\ low <= 31 /\ mid \in Nat /\ mid <= 480
        /\ high \in Nat /\ high <= 65024
    BY <2>1, SMT
  <2>3. PswWord(p) = low + mid + high
    BY <2>1, SMT DEF PswWord
  <2> HIDE DEF low, mid, high
  <2> QED BY <2>2, <2>3, SMT DEF Word16
<1> QED
  BY <1>1, <1>2

-----------------------------------------------------------------------------
(* The bus. *)

LEMMA ReadType ==
  ASSUME NEW m, IsMemory(m), NEW a \in Word16, NEW w \in Bit
  PROVE  ReadBus(m, a, w) \in Word16
<1>1. \A b : ByteAt(m, b) \in ByteValue
  BY SMT DEF ByteAt, IsMemory, ByteValue
<1>2. \A x, y \in ByteValue : x \in Word16 /\ x + 256 * y \in Word16
  BY SMT DEF ByteValue, Word16
<1> QED
  BY <1>1, <1>2 DEF ReadBus

LEMMA WriteType ==
  ASSUME NEW m, IsMemory(m), NEW a \in Word16, NEW x \in Word16, NEW w \in Bit
  PROVE  IsMemory(WriteBus(m, a, x, w))
<1> DEFINE written == IF w = 1 THEN {a} ELSE {2 * (a \div 2), 2 * (a \div 2) + 1}
<1>1. written \subseteq Word16
  <2>1. 2 * (a \div 2) \in Word16 /\ 2 * (a \div 2) + 1 \in Word16
    BY SMT DEF Word16
  <2> QED BY <2>1
<1>2. LowByte(x) \in 0 .. 255 /\ HighByte(x) \in 0 .. 255
  BY FieldType DEF ByteValue
<1> HIDE DEF written
<1>3. WriteBus(m, a, x, w) =
        [b \in DOMAIN m \cup written |->
           IF b \notin written THEN m[b]
           ELSE IF w = 0 /\ b % 2 = 1 THEN HighByte(x) ELSE LowByte(x)]
  BY DEF WriteBus, written
<1> QED
  BY <1>1, <1>2, <1>3 DEF IsMemory

-----------------------------------------------------------------------------
(* The decoders. *)

LEMMA TableDomains ==
  /\ DOMAIN branch_table = 0 .. 8 /\ DOMAIN arithmetic_table = 0 .. 11
  /\ DOMAIN init_register_table = 0 .. 5 /\ DOMAIN reg_operation_table = 0 .. 13
BY SMT DEF branch_table, arithmetic_table, init_register_table,
           reg_operation_table, ZeroBased

(* The index of an instruction of another type is in the table of register
   operations, which is the longest.                                       *)
LEMMA LongestTable ==
  \A t \in type_instr : DOMAIN Table(t) \subseteq DOMAIN Table("reg_operation")
BY TableDomains, SMT DEF Table, type_instr

(* Only a register operation may not be found. *)
LEMMA FoundOrRegister ==
  ASSUME NEW ir \in Word16
  PROVE  /\ InstructionType(ir) \in type_instr
         /\ Matches(ir) \subseteq DOMAIN Table(InstructionType(ir))
         /\ Matches(ir) = {} => InstructionType(ir) = "reg_operation"
<1>0. ir \in Nat /\ ir < 65536
  BY DEF Word16
<1>1. B13_15(ir) \in Nat
  BY <1>0, SMT DEF B13_15
<1>2. InstructionType(ir) \in type_instr
  BY <1>1, SMT DEF InstructionType, type_instr
<1>3. Matches(ir) \subseteq DOMAIN Table(InstructionType(ir))
  BY DEF Matches
<1>4. ASSUME InstructionType(ir) = "branch_link" PROVE Matches(ir) # {}
  <2>1. Opcode(ir) = 0 /\ Table(InstructionType(ir)) = branch_table
    BY <1>4 DEF Opcode, Table
  <2>2. 0 \in DOMAIN branch_table /\ branch_table[0].opcode = 0
    BY SMT DEF branch_table, ZeroBased, Entry
  <2> QED BY <2>1, <2>2 DEF Matches
<1>5. ASSUME InstructionType(ir) = "branch_condition" PROVE Matches(ir) # {}
  <2>1. Opcode(ir) = B10_15(ir) /\ Table(InstructionType(ir)) = branch_table
    BY <1>5, SMT DEF Opcode, Table
  <2>2. B13_15(ir) = 1
    BY <1>1, <1>5, SMT DEF InstructionType
  <2>3. B10_15(ir) \in {8, 9, 10, 11, 12, 13, 14, 15}
    BY <1>0, <2>2, SMT DEF B13_15, B10_15
  <2>4. \A o \in {8, 9, 10, 11, 12, 13, 14, 15} :
          \E i \in DOMAIN branch_table : branch_table[i].opcode = o
    BY SMT DEF branch_table, ZeroBased, Entry
  <2> QED BY <2>1, <2>3, <2>4 DEF Matches
<1>6. ASSUME InstructionType(ir) = "arithmetic" PROVE Matches(ir) # {}
  <2>1. Opcode(ir) = B8_15(ir) /\ Table(InstructionType(ir)) = arithmetic_table
    BY <1>6, SMT DEF Opcode, Table
  <2>2. B12_15(ir) = 4 /\ B8_11(ir) < 12
    BY <1>1, <1>6, SMT DEF InstructionType
  <2>3. B8_15(ir) \in {64, 65, 66, 67, 68, 69, 70, 71, 72, 73, 74, 75}
    BY <1>0, <2>2, SMT DEF B12_15, B8_11, B8_15
  <2>4. \A o \in {64, 65, 66, 67, 68, 69, 70, 71, 72, 73, 74, 75} :
          \E i \in DOMAIN arithmetic_table : arithmetic_table[i].opcode = o
    BY SMT DEF arithmetic_table, ZeroBased, Entry
  <2> QED BY <2>1, <2>3, <2>4 DEF Matches
<1>7. ASSUME InstructionType(ir) = "init_reg" PROVE Matches(ir) # {}
  <2>1. /\ Opcode(ir) = IF B(ir, 15) = 1 THEN B14_15(ir) ELSE B11_15(ir)
        /\ Table(InstructionType(ir)) = init_register_table
    BY <1>7, SMT DEF Opcode, Table
  <2>2. B13_15(ir) > 2
    BY <1>1, <1>7, SMT DEF InstructionType
  <2>3. Opcode(ir) \in {2, 3, 12, 13, 14, 15}
    <3>1. CASE B(ir, 15) = 1
      BY <1>0, <2>1, <3>1, SMT DEF B, B14_15
    <3>2. CASE B(ir, 15) # 1
      BY <1>0, <2>1, <2>2, <3>2, SMT DEF B, B13_15, B11_15
    <3> QED BY <3>1, <3>2
  <2>4. \A o \in {2, 3, 12, 13, 14, 15} :
          \E i \in DOMAIN init_register_table : init_register_table[i].opcode = o
    BY SMT DEF init_register_table, ZeroBased, Entry
  <2> QED BY <2>1, <2>3, <2>4 DEF Matches
<1> QED
  BY <1>2, <1>3, <1>4, <1>5, <1>6, <1>7 DEF type_instr

LEMMA OperandsType ==
  ASSUME NEW ir \in Word16, NEW old \in Operands
  PROVE  DecodedOperands(ir, old) \in Operands
<1>1. /\ Plus(0, 2 * SignExtend(ir % \h2000, 13)) \in Word16
      /\ Plus(0, 2 * SignExtend(ir % \h400, 10)) \in Word16
  <2>1. ir % \h2000 \in Nat /\ ir % \h400 \in Nat
    BY SMT DEF Word16
  <2>2. \A i \in Int : Plus(0, 2 * i) \in Word16
    BY SMT DEF Plus, Word16
  <2> QED BY <2>1, <2>2, SignExtendType
<1>2. InstructionType(ir) \in type_instr
  BY FoundOrRegister
<1>3. CASE InstructionType(ir) = "branch_link"
  BY <1>1, <1>3 DEF DecodedOperands, Operands
<1>4. CASE InstructionType(ir) = "branch_condition"
  BY <1>1, <1>4 DEF DecodedOperands, Operands
<1>0. /\ B(ir, 6) \in Bit /\ B(ir, 7) \in Bit /\ B(ir, 8) \in Bit /\ B(ir, 9) \in Bit
      /\ B3_5(ir) \in 0 .. 7 /\ B0_2(ir) \in 0 .. 7
  BY BitType, FieldType
<1> DEFINE b6 == B(ir, 6)  b7 == B(ir, 7)  b8 == B(ir, 8)  b9 == B(ir, 9)
           s == B3_5(ir)  d == B0_2(ir)
<1>5. CASE InstructionType(ir) = "arithmetic"
  <2>1. DecodedOperands(ir, old) = [old EXCEPT !.rc = b7, !.wb = b6, !.sc = s, !.d = d]
    BY <1>5 DEF DecodedOperands
  <2>2. b6 \in Bit /\ b7 \in Bit /\ s \in 0 .. 7 /\ d \in 0 .. 7
    BY <1>0
  <2> HIDE DEF b6, b7, s, d
  <2> QED BY <2>1, <2>2 DEF Operands, Bit
<1>6. CASE InstructionType(ir) \in {"init_reg", "reg_operation"}
  <2>1. DecodedOperands(ir, old) = [old EXCEPT !.prpo = b9, !.dec = b8, !.wb = b6,
                                               !.sc = s, !.d = d]
    BY <1>6 DEF DecodedOperands
  <2>2. b6 \in Bit /\ b8 \in Bit /\ b9 \in Bit /\ s \in 0 .. 7 /\ d \in 0 .. 7
    BY <1>0
  <2> HIDE DEF b6, b8, b9, s, d
  <2> QED BY <2>1, <2>2 DEF Operands, Bit
<1> QED
  BY <1>2, <1>3, <1>4, <1>5, <1>6 DEF type_instr

-----------------------------------------------------------------------------
(* Arithmetic. *)

LEMMA ShiftedBitType == \A s \in Word16 : ShiftedBit(s) \in Word16
<1> SUFFICES ASSUME NEW s \in Word16 PROVE ShiftedBit(s) \in Word16
  OBVIOUS
<1>0. s \in Nat
  BY DEF Word16
<1>1. s % 32 \in Nat
  BY <1>0, SMT
<1>2. CASE s % 32 < 16
  <2>1. s % 32 \in {0, 1, 2, 3, 4, 5, 6, 7, 8, 9, 10, 11, 12, 13, 14, 15}
    BY <1>1, <1>2, SMT
  <2>2. /\ 2^0 \in Word16 /\ 2^1 \in Word16 /\ 2^2 \in Word16 /\ 2^3 \in Word16
        /\ 2^4 \in Word16 /\ 2^5 \in Word16 /\ 2^6 \in Word16 /\ 2^7 \in Word16
        /\ 2^8 \in Word16 /\ 2^9 \in Word16 /\ 2^10 \in Word16 /\ 2^11 \in Word16
        /\ 2^12 \in Word16 /\ 2^13 \in Word16 /\ 2^14 \in Word16 /\ 2^15 \in Word16
    BY SMT DEF Word16
  <2> QED BY <1>2, <2>1, <2>2 DEF ShiftedBit
<1>3. CASE ~(s % 32 < 16)
  BY <1>3, SMT DEF ShiftedBit, Word16
<1> QED BY <1>2, <1>3

LEMMA CutType == \A x \in Int : \A w : Cut(x, w) \in Word16
BY SMT DEF Cut, Word16

LEMMA DecimalType ==
  ASSUME NEW s \in Word16, NEW d \in Word16, NEW c \in Bit
  PROVE  DecimalSum(s, d, c) \in Int
<1>0. s \in Nat /\ d \in Nat
  BY DEF Word16
<1>1. /\ Nibble(s, 0) \in Int /\ Nibble(s, 1) \in Int /\ Nibble(s, 2) \in Int
      /\ Nibble(s, 3) \in Int /\ Nibble(d, 0) \in Int /\ Nibble(d, 1) \in Int
      /\ Nibble(d, 2) \in Int /\ Nibble(d, 3) \in Int
  BY <1>0, SMT DEF Nibble
<1> DEFINE sum(k, h) == Nibble(s, k) + Nibble(d, k) + h
           half(k, h) == HalfCarry(sum(k, h))
           digit(k, h) == (sum(k, h) - 10 * half(k, h)) % 16
<1>2. \A k \in {0, 1, 2, 3} : \A h \in Bit :
        half(k, h) \in Bit /\ digit(k, h) \in Int
  BY <1>1, SMT DEF Bit, HalfCarry
<1>3. DecimalSum(s, d, c) =
        digit(0, c) + 16 * digit(1, half(0, c))
          + 256 * digit(2, half(1, half(0, c)))
          + 4096 * digit(3, half(2, half(1, half(0, c))))
  BY DEF DecimalSum
<1> HIDE DEF half, digit
<1>4. /\ half(0, c) \in Bit
      /\ half(1, half(0, c)) \in Bit
      /\ half(2, half(1, half(0, c))) \in Bit
  BY <1>2
<1>5. /\ digit(0, c) \in Int /\ digit(1, half(0, c)) \in Int
      /\ digit(2, half(1, half(0, c))) \in Int
      /\ digit(3, half(2, half(1, half(0, c)))) \in Int
  BY <1>2, <1>4
<1> QED BY <1>3, <1>5, SMT

LEMMA CombineType ==
  ASSUME NEW op \in Operations \ {"DADD"}, NEW s \in Word16, NEW d \in Word16,
         NEW c \in Bit, NEW w \in Bit
  PROVE  Combine(op, s, d, c, w) \in Int
<1>1. s \in Int /\ d \in Int /\ c \in Int
  BY FieldType, SMT DEF Bit
<1>2. BitNot(s) \in Int
  BY <1>1, SMT DEF BitNot
<1>3. ASSUME op \in {"ADD", "ADDC", "SUB", "CMP", "SUBC"}
      PROVE  Addend(op, s, c) \in Int
  <2>1. Plus(s, c) \in Int /\ Plus(BitNot(s), 1) \in Int /\ Plus(BitNot(s), c) \in Int
    BY <1>1, <1>2, SMT DEF Plus
  <2> QED BY <1>1, <1>3, <2>1 DEF Addend
<1>4. \A x \in Word16 : x \in Int
  BY FieldType
<1>5. /\ BitXor(d, s) \in Int /\ BitAnd(d, s) \in Int /\ BitOr(d, s) \in Int
      /\ BitAnd(d, ShiftedBit(s)) \in Int /\ BitOr(d, ShiftedBit(s)) \in Int
      /\ BitAnd(d, BitNot(ShiftedBit(s))) \in Int
  BY <1>4, BitwiseType, ShiftedBitType
<1>6. CASE op \in {"ADD", "ADDC", "SUB", "CMP", "SUBC"}
  <2>1. Combine(op, s, d, c, w) \in {d + s + 1 + c, d + Addend(op, s, c)}
    BY <1>6 DEF Combine, Bit
  <2> QED BY <1>1, <1>3, <1>6, <2>1, SMT
<1>7. CASE op \in {"XOR", "AND", "OR", "BIT", "BIC", "BIS"}
  BY <1>5, <1>7 DEF Combine
<1> QED BY <1>6, <1>7 DEF Operations

LEMMA ResultType ==
  ASSUME NEW op \in Operations, NEW s \in Word16, NEW d \in Word16,
         NEW c \in Bit, NEW w \in Bit
  PROVE  Result(op, s, d, c, w) \in Word16
<1>1. Cut(s, w) \in Word16 /\ Cut(d, w) \in Word16
  BY CutType, FieldType
<1>2. CASE op = "DADD"
  BY <1>2, DecimalType, CutType DEF Result
<1>3. CASE op # "DADD"
  BY <1>1, <1>3, CombineType, CutType DEF Result
<1> QED BY <1>2, <1>3

LEMMA FlagsType ==
  ASSUME NEW op \in Operations, NEW s \in Word16, NEW d \in Word16,
         NEW c \in Bit, NEW w \in Bit
  PROVE  LET f == Flags(op, s, d, c, w)
         IN  f.c \in Bit /\ f.z \in Bit /\ f.n \in Bit /\ f.v \in Bit
<1>1. Sign(Result(op, s, d, c, w), w) \in Bit
  BY ResultType, BitType DEF Sign
<1> QED BY <1>1 DEF Flags, update_psw, Bit

-----------------------------------------------------------------------------
(* The invariant: the two parts need each other, since the table decides
   which function an instruction runs and with which types.                *)
IInv == TypeOK /\ IndexInTable

LEMMA UpdateType ==
  ASSUME NEW f \in [Register -> Word16], NEW r, NEW v \in Word16
  PROVE  [f EXCEPT ![r] = v] \in [Register -> Word16]
OBVIOUS

LEMMA ThreeUpdatesType ==
  ASSUME NEW f \in [Register -> Word16],
         NEW a \in Word16, NEW b \in Word16, NEW c \in Word16
  PROVE  [f EXCEPT ![SP] = a, ![LR] = b, ![PC] = c] \in [Register -> Word16]
BY DEF SP, LR, PC

LEMMA FaultType ==
  ASSUME NEW p \in Psw, double_fault \in BOOLEAN, Fault(p) \/ NoFault(p)
  PROVE  word_psw' \in Psw /\ double_fault' \in BOOLEAN
BY DEF Fault, NoFault, Psw

(* What the fields of the operands are. *)
LEMMA OperandFields ==
  ASSUME TypeOK
  PROVE  /\ src \in Register /\ dst \in Register /\ wb \in Bit
         /\ regfile[src] \in Word16 /\ regfile[dst] \in Word16
         /\ operands.offset \in Word16
BY DEF TypeOK, Operands, Register, src, dst, wb, Bit

LEMMA ConstantsType == Constants \in [Register -> Word16]
<1>1. /\ 0 \in Word16 /\ 1 \in Word16 /\ 2 \in Word16 /\ 4 \in Word16
      /\ 8 \in Word16 /\ 16 \in Word16 /\ 32 \in Word16 /\ \hFFFF \in Word16
  BY SMT DEF Word16
<1>2. \A i \in 0 .. 7 : <<0, 1, 2, 4, 8, 16, 32, \hFFFF>>[i + 1] \in Word16
  <2> SUFFICES ASSUME NEW i \in 0 .. 7
               PROVE  <<0, 1, 2, 4, 8, 16, 32, \hFFFF>>[i + 1] \in Word16
    OBVIOUS
  <2>1. i + 1 \in {1, 2, 3, 4, 5, 6, 7, 8}
    BY SMT
  <2> QED BY <1>1, <2>1
<1> QED BY <1>2 DEF Constants, Register

LEMMA InitInv == Init => IInv
<1>0. 0 \in Word16 /\ \hFFC0 \in Word16 /\ 0 \in Nat
  BY SMT DEF Word16
<1>a. NoOperands \in Operands
  BY <1>0, SMT DEF Operands, NoOperands
<1> SUFFICES ASSUME Init PROVE IInv
  OBVIOUS
<1>1. IsMemory(memory) /\ regfile \in [Register -> Word16]
  BY <1>0, CpuAssumption DEF Init, Register
<1>b. constants \in [Register -> Word16]
  BY ConstantsType DEF Init
<1>2. word_psw \in Psw
  BY <1>0, PswType DEF Init
<1>3. operands \in Operands
  BY <1>a DEF Init
<1>4. /\ IR = 0 /\ MDR = 0 /\ MDR_prev = 0
      /\ instruction_type = "branch_link" /\ table_index = 0
      /\ CEX_state = 0 /\ cond_state = FALSE /\ true_count = 0 /\ false_count = 0
      /\ double_fault = FALSE
      /\ ctrl_c_fnd = FALSE /\ breakpoint = 0 /\ runs = 0
      /\ sigint = "default" /\ handler = "idle"
      /\ at = "menu" /\ block = "plain"
  BY DEF Init
<1> HIDE DEF Init
<1>5. TypeOK
  <2>1. /\ IR \in Word16 /\ MDR \in Word16 /\ MDR_prev \in Word16
        /\ CEX_state \in Word16 /\ true_count \in Word16 /\ false_count \in Word16
        /\ table_index \in Nat /\ breakpoint \in Word16 /\ runs \in Nat
    BY <1>0, <1>4
  <2>2. /\ instruction_type \in type_instr
        /\ cond_state \in BOOLEAN /\ double_fault \in BOOLEAN /\ ctrl_c_fnd \in BOOLEAN
        /\ sigint \in {"default", "handler", "killed"}
        /\ handler \in {"idle", "entered", "set"}
        /\ at \in {"menu", "signal", "run_xm", "loop", "fetch", "decode",
                  "execute", "count", "cex", "continue"}
        /\ block \in {"plain", "true", "false"}
    BY <1>4 DEF type_instr
  <2> QED BY <1>1, <1>b, <1>2, <1>3, <2>1, <2>2 DEF TypeOK
<1>6. IndexInTable
  BY <1>4, TableDomains, SMT DEF IndexInTable, Table
<1> QED BY <1>5, <1>6 DEF IInv

(* The loops of cpu(). *)
LEMMA LoopInv ==
  ASSUME IInv, Dispatch \/ CexLoops \/ Count \/ Continue
  PROVE  IInv'
<1>0. 0 \in Word16
  BY SMT DEF Word16
<1>1. Plus(true_count, \hFFFF) \in Word16 /\ Plus(false_count, \hFFFF) \in Word16
  <2>1. \A x \in Int : Plus(x, \hFFFF) \in Word16
    BY SMT DEF Plus, Word16
  <2> QED BY <2>1, WordIsInt DEF IInv, TypeOK
<1>2. UNCHANGED <<memory, regfile, word_psw, IR, MDR, decoded, cond_state,
                  double_fault, shell>>
  BY DEF Dispatch, CexLoops, Count, Continue, cex
<1>3. /\ CEX_state' \in Word16 /\ true_count' \in Word16
      /\ false_count' \in Word16 /\ MDR_prev' \in Word16
  BY <1>0, <1>1 DEF IInv, TypeOK, Dispatch, CexLoops, Count, Continue, cex
<1>4. /\ at' \in {"menu", "loop", "fetch", "cex", "continue"}
      /\ block' \in {"plain", "true", "false"}
  BY DEF IInv, TypeOK, Dispatch, CexLoops, Count, Continue
<1>5. TypeOK'
  BY <1>2, <1>3, <1>4 DEF IInv, TypeOK, decoded, shell, signals
<1>6. IndexInTable'
  BY <1>2 DEF IInv, IndexInTable, decoded
<1> QED BY <1>5, <1>6 DEF IInv

LEMMA FetchInv ==
  ASSUME IInv, fetch
  PROVE  IInv'
<1> USE DEF IInv
<1>0. /\ \A x \in Int : Plus(x, 8) \in Word16 /\ Plus(x, 2) \in Word16
      /\ \A k \in 0 .. 3 : Pulled(k) \in Word16
  <2>1. \A x \in Int : Plus(x, 8) \in Word16 /\ Plus(x, 2) \in Word16
    BY PlusType
  <2>2. regfile[SP] \in Int
    BY WordIsInt DEF TypeOK, Register, SP
  <2>3. \A k \in 0 .. 3 : Plus(regfile[SP], 2 * k) \in Word16
    BY <2>2, SMT DEF Plus, Word16
  <2> QED BY <2>1, <2>3, ReadType DEF Pulled, FromTop, TypeOK, Bit
<1> DEFINE regs == IF Returning
                   THEN [regfile EXCEPT ![LR] = Pulled(2), ![PC] = Pulled(3),
                                        ![SP] = Plus(@, 8)]
                   ELSE regfile
           psw  == IF Returning THEN PswOf(Pulled(1)) ELSE word_psw
<1>1. regs \in [Register -> Word16]
  <2>1. Pulled(2) \in Word16 /\ Pulled(3) \in Word16
    BY <1>0
  <2>2. Plus(regfile[SP], 8) \in Word16
    BY <1>0, WordIsInt DEF TypeOK, Register, SP
  <2> QED BY <2>1, <2>2 DEF TypeOK, LR, PC, SP
<1>2. psw \in Psw
  BY <1>0, PswType DEF TypeOK
<1>3. /\ Fault(psw) \/ NoFault(psw)
      /\ MDR' = ReadBus(memory, regs[PC], 0)
      /\ regfile' = [regs EXCEPT ![PC] = Plus(@, 2)]
      /\ IR' = MDR' /\ CEX_state' \in {Pulled(0), CEX_state}
      /\ at' \in {"count", "decode"}
      /\ UNCHANGED <<memory, MDR_prev, decoded, cond_state, true_count,
                     false_count, shell, block>>
  BY DEF fetch
<1> HIDE DEF regs, psw
<1>4. word_psw' \in Psw /\ double_fault' \in BOOLEAN
  BY <1>2, <1>3, FaultType DEF TypeOK
<1>5. regs[PC] \in Word16
  BY <1>1 DEF Register, PC
<1>6. MDR' \in Word16 /\ IR' \in Word16
  BY <1>3, <1>5, ReadType DEF TypeOK, Bit
<1>7. regfile' \in [Register -> Word16]
  BY <1>0, <1>1, <1>3, <1>5, WordIsInt
<1>8. CEX_state' \in Word16
  BY <1>0, <1>3 DEF TypeOK
<1>9. TypeOK'
  BY <1>3, <1>4, <1>6, <1>7, <1>8 DEF TypeOK, decoded, shell, signals
<1>10. IndexInTable'
  BY <1>3 DEF IndexInTable, decoded
<1> QED BY <1>9, <1>10

LEMMA DecodeInv ==
  ASSUME IInv, decode
  PROVE  IInv'
<1> USE DEF IInv
<1>1. /\ at' = "execute"
      /\ Fault(word_psw) \/ NoFault(word_psw)
      /\ UNCHANGED <<memory, regfile, IR, MDR, MDR_prev, cex, shell, block>>
  BY DEF decode
<1>2. word_psw' \in Psw /\ double_fault' \in BOOLEAN
  BY <1>1, FaultType DEF TypeOK
<1>3. /\ instruction_type' \in type_instr /\ operands' \in Operands
      /\ table_index' \in DOMAIN Table(instruction_type')
  <2>1. CASE UNCHANGED decoded
    BY <2>1 DEF decoded, TypeOK, IndexInTable
  <2>2. CASE /\ instruction_type' = InstructionType(IR)
             /\ operands' = DecodedOperands(IR, operands)
             /\ table_index' \in Matches(IR)
    BY <2>2, FoundOrRegister, OperandsType DEF TypeOK
  <2>3. CASE /\ instruction_type' = InstructionType(IR)
             /\ operands' = DecodedOperands(IR, operands)
             /\ Matches(IR) = {} /\ UNCHANGED table_index
    <3>1. instruction_type' = "reg_operation"
      BY <2>3, FoundOrRegister DEF TypeOK
    <3>2. table_index' \in DOMAIN Table("reg_operation")
      BY <2>3, LongestTable DEF TypeOK, IndexInTable
    <3> QED BY <2>3, <3>1, <3>2, FoundOrRegister, OperandsType DEF TypeOK
  <2> QED BY <2>1, <2>2, <2>3 DEF decode
<1>4. table_index' \in Nat
  <2>1. DOMAIN Table(instruction_type') \subseteq Nat
    BY <1>3, TableDomains, SMT DEF Table, type_instr
  <2> QED BY <1>3, <2>1
<1>5. TypeOK'
  BY <1>1, <1>2, <1>3, <1>4 DEF TypeOK, cex, shell, signals
<1> QED BY <1>3, <1>5 DEF IndexInTable

-----------------------------------------------------------------------------
(* The instructions.  What each may change has to keep its type; the rest
   follows from Executed.                                                  *)
LEMMA ExecutedInv ==
  ASSUME IInv, Executed,
         IsMemory(memory'), regfile' \in [Register -> Word16],
         word_psw' \in Psw, double_fault' \in BOOLEAN,
         CEX_state' \in Word16, cond_state' \in BOOLEAN,
         true_count' \in Word16, false_count' \in Word16
  PROVE  IInv'
<1>1. /\ at' \in {"continue", "count"}
      /\ UNCHANGED <<IR, MDR, MDR_prev, decoded, shell, block>>
  BY DEF Executed
<1>2. TypeOK'
  BY <1>1 DEF IInv, TypeOK, decoded, shell, signals
<1> QED
  BY <1>1, <1>2 DEF IInv, IndexInTable, decoded

LEMMA BranchInv == ASSUME IInv, Branch PROVE IInv'
<1>1. /\ regfile[PC] \in Word16 /\ operands.offset \in Word16
  BY OperandFields DEF IInv, TypeOK, Register, PC
<1>2. Plus(regfile[PC], operands.offset) \in Word16
  BY <1>1, PlusType, WordIsInt
<1>3. regfile' \in [Register -> Word16]
  BY <1>1, <1>2 DEF IInv, TypeOK, Branch, LR, PC
<1> QED
  BY <1>3, ExecutedInv DEF IInv, TypeOK, Branch, cex

LEMMA ArithmeticInv == ASSUME IInv, Arithmetic PROVE IInv'
<1> DEFINE s == IF operands.rc = 1 THEN constants[src] ELSE regfile[src]
           d == regfile[dst]
           c == word_psw.c
           f == Flags(Function, s, d, c, wb)
           r == Result(Function, s, d, c, wb)
<1>1. s \in Word16 /\ d \in Word16 /\ wb \in Bit /\ c \in Bit
  <2>1. c \in Bit
    BY DEF IInv, TypeOK, Psw, Bit
  <2>2. src \in Register /\ constants[src] \in Word16
    BY OperandFields DEF IInv, TypeOK
  <2> QED BY <2>1, <2>2, OperandFields DEF IInv
<1>2. Function \in Operations
  <2>1. table_index \in DOMAIN arithmetic_table /\ Function = arithmetic_table[table_index].name
    BY SMT DEF IInv, IndexInTable, Arithmetic, Function, Table
  <2>2. \A i \in DOMAIN arithmetic_table : arithmetic_table[i].name \in Operations
    BY SMT DEF arithmetic_table, ZeroBased, Entry, Operations
  <2> QED BY <2>1, <2>2
<1>3. r \in Word16 /\ f.c \in Bit /\ f.z \in Bit /\ f.n \in Bit /\ f.v \in Bit
  BY <1>1, <1>2, ResultType, FlagsType
<1>4. /\ regfile' \in {regfile, [regfile EXCEPT ![dst] = r]}
      /\ word_psw' \in {word_psw, [word_psw EXCEPT !.c = f.c, !.z = f.z,
                                                  !.n = f.n, !.v = f.v]}
      /\ Executed /\ UNCHANGED <<memory, cex, double_fault>>
  BY DEF Arithmetic
<1> HIDE DEF s, d, c, f, r
<1>5. regfile' \in [Register -> Word16]
  BY <1>3, <1>4, UpdateType DEF IInv, TypeOK
<1>6. word_psw' \in Psw
  BY <1>3, <1>4 DEF IInv, TypeOK, Psw, Bit
<1> QED
  BY <1>4, <1>5, <1>6, ExecutedInv DEF IInv, TypeOK, cex

LEMMA ShiftedType ==
  ASSUME IInv, NEW f \in OneRegister, NEW d \in Word16
  PROVE  Shifted(f, d) \in Word16
<1>0. /\ regfile[0] \in Word16 /\ regfile[1] \in Word16
      /\ word_psw.c \in Bit /\ IR \in Word16
  BY DEF IInv, TypeOK, Register, Psw, Bit
<1>1. /\ LowByte(d) \in Word16 /\ LowByte(regfile[0]) \in Word16
      /\ LowByte(regfile[1]) \in Word16 /\ B3_10(IR) \in Word16
      /\ 256 * B3_10(IR) \in Word16 /\ \hFF00 + B3_10(IR) \in Word16
      /\ \hFF00 + LowByte(d) \in Word16
      /\ 256 * LowByte(d) + B3_10(IR) \in Word16
      /\ HighByte(d) + 256 * LowByte(d) \in Word16
  <2>1. \A x, y \in ByteValue : /\ x \in Word16 /\ 256 * x \in Word16
                               /\ \hFF00 + x \in Word16 /\ 256 * x + y \in Word16
                               /\ y + 256 * x \in Word16
    BY SMT DEF ByteValue, Word16
  <2>2. /\ LowByte(d) \in ByteValue /\ HighByte(d) \in ByteValue
        /\ LowByte(regfile[0]) \in ByteValue /\ LowByte(regfile[1]) \in ByteValue
        /\ B3_10(IR) \in ByteValue
    BY <1>0, FieldType
  <2> QED BY <2>1, <2>2
<1>2. d \div 2 \in Word16 /\ d \div 2 + \h8000 * word_psw.c \in Word16
  BY <1>0, SMT DEF Word16, Bit
<1>3. BitNot(IF wb = 1 THEN d ELSE LowByte(regfile[1])) \in Word16
  BY <1>1, BitwiseType
<1>4. BitOr(256 * B3_10(IR), d) \in Word16
  <2> DEFINE high == 256 * B3_10(IR)
  <2>1. high \in Word16
    BY <1>1
  <2> HIDE DEF high
  <2>2. BitOr(high, d) \in Word16
    BY <2>1, BitwiseType
  <2> QED BY <2>2 DEF high
<1> QED
  BY <1>1, <1>2, <1>3, <1>4 DEF Shifted, OneRegister

LEMMA MoveInv == ASSUME IInv, Move PROVE IInv'
<1>1. /\ src \in Register /\ dst \in Register
      /\ regfile[src] \in Word16 /\ regfile[dst] \in Word16
      /\ regfile \in [Register -> Word16]
  BY OperandFields DEF IInv, TypeOK
<1>2. regfile' \in [Register -> Word16]
  <2>1. CASE Function = "MOV" /\ regfile' = [regfile EXCEPT ![dst] = regfile[src]]
    BY <1>1, <2>1
  <2>2. CASE /\ Function = "SWAP"
             /\ regfile' = [regfile EXCEPT ![src] = regfile[dst], ![dst] = regfile[src]]
    BY <1>1, <2>2
  <2>3. CASE /\ Function \in OneRegister
             /\ regfile' = [regfile EXCEPT ![dst] = Shifted(Function, @)]
    BY <1>1, <2>3, ShiftedType
  <2> QED BY <2>1, <2>2, <2>3 DEF Move
<1>3. B(regfile[dst], 0) \in Bit
  BY <1>1, BitType
<1>4. word_psw' \in Psw
  <2>1. word_psw' \in {word_psw, [word_psw EXCEPT !.c = B(regfile[dst], 0)]}
    BY DEF Move
  <2> QED BY <1>3, <2>1 DEF IInv, TypeOK, Psw, Bit
<1> QED
  BY <1>2, <1>4, ExecutedInv DEF IInv, TypeOK, Move, cex

LEMMA AddressType ==
  ASSUME IInv, NEW a \in Word16
  PROVE  Adjusted(a) \in Word16 /\ Relative(a) \in Word16
<1>0. a \in Int /\ (IR \div 128) % 128 \in Nat
  <2>1. \A x \in Word16 : (x \div 128) % 128 \in Nat
    BY SMT DEF Word16
  <2>2. IR \in Word16
    BY DEF IInv, TypeOK
  <2> QED BY <2>1, <2>2, WordIsInt
<1>1. \A k \in {1, 2} : Plus(a, k) \in Word16 /\ Plus(a, \h10000 - k) \in Word16
  BY <1>0, SMT DEF Plus, Word16
<1>2. Adjusted(a) \in Word16
  BY <1>1 DEF Adjusted
<1>3. Relative(a) \in Word16
  BY <1>0, PlusType, SignExtendType DEF Relative
<1> QED BY <1>2, <1>3

LEMMA LoadInv == ASSUME IInv, Load PROVE IInv'
<1>1. /\ src \in Register /\ dst \in Register /\ wb \in Bit
      /\ regfile[src] \in Word16 /\ regfile \in [Register -> Word16]
      /\ IsMemory(memory)
  BY OperandFields DEF IInv, TypeOK
<1>2. \A a \in Word16 : ReadBus(memory, a, wb) \in Word16
  BY <1>1, ReadType
<1>3. regfile' \in [Register -> Word16]
  <2>1. CASE LET loaded == [regfile EXCEPT ![dst] = ReadBus(memory, regfile[src], wb)]
             IN  regfile' = [loaded EXCEPT ![src] = Adjusted(@)]
    <3> DEFINE loaded == [regfile EXCEPT ![dst] = ReadBus(memory, regfile[src], wb)]
    <3>1. loaded \in [Register -> Word16]
      BY <1>1, <1>2
    <3>2. regfile' = [loaded EXCEPT ![src] = Adjusted(loaded[src])]
      BY <2>1
    <3> HIDE DEF loaded
    <3> QED BY <1>1, <3>1, <3>2, AddressType
  <2>2. CASE LET a == Adjusted(regfile[src])
             IN  regfile' = [[regfile EXCEPT ![src] = a]
                               EXCEPT ![dst] = ReadBus(memory, a, wb)]
    BY <1>1, <1>2, <2>2, AddressType
  <2>3. CASE regfile' = [regfile EXCEPT
                          ![dst] = ReadBus(memory, Relative(regfile[src]), wb)]
    BY <1>1, <1>2, <2>3, AddressType
  <2> QED BY <2>1, <2>2, <2>3 DEF Load
<1> QED
  BY <1>3, ExecutedInv DEF IInv, TypeOK, Load, cex

LEMMA StoreInv == ASSUME IInv, Store PROVE IInv'
<1>1. /\ src \in Register /\ dst \in Register /\ wb \in Bit
      /\ regfile[src] \in Word16 /\ regfile[dst] \in Word16
      /\ regfile \in [Register -> Word16] /\ IsMemory(memory)
      /\ B(IR, 6) \in Bit
  BY OperandFields, BitType DEF IInv, TypeOK
<1>2. [regfile EXCEPT ![dst] = Adjusted(@)] \in [Register -> Word16]
  BY <1>1, AddressType
<1>3. regfile' \in [Register -> Word16]
  BY <1>1, <1>2 DEF Store
<1>4. regfile'[dst] \in Word16 /\ regfile'[src] \in Word16
  BY <1>1, <1>3
<1>5. Relative(regfile[dst]) \in Word16
  BY <1>1, AddressType
<1>6. IsMemory(memory')
  BY <1>1, <1>4, <1>5, WriteType DEF Store
<1> QED
  BY <1>3, <1>6, ExecutedInv DEF IInv, TypeOK, Store, cex

LEMMA SETPRIInv == ASSUME IInv, SETPRI PROVE IInv'
<1>1. B0_2(IR) \in 0 .. 7
  BY FieldType DEF IInv, TypeOK
<1>2. word_psw \in Psw /\ [word_psw EXCEPT !.current = B0_2(IR)] \in Psw
  BY <1>1 DEF IInv, TypeOK, Psw
<1>3. word_psw' \in Psw /\ double_fault' \in BOOLEAN
  BY <1>2, FaultType DEF IInv, TypeOK, SETPRI
<1> QED
  BY <1>3, ExecutedInv DEF IInv, TypeOK, SETPRI, cex

LEMMA VectorType ==
  ASSUME IInv
  PROVE  VectorPsw \in Psw /\ ReadBus(memory, Vector + 2, 0) \in Word16
<1>1. Vector \in Word16 /\ Vector + 2 \in Word16
  <2>1. \A x \in 0 .. 15 : \hFFC0 + 4 * x \in Word16 /\ \hFFC0 + 4 * x + 2 \in Word16
    BY SMT DEF Word16
  <2>2. \A x \in Word16 : x % 16 \in 0 .. 15
    BY SMT DEF Word16
  <2> QED BY <2>1, <2>2 DEF Vector, IInv, TypeOK
<1>2. IsMemory(memory) /\ 0 \in Bit
  BY DEF IInv, TypeOK, Bit
<1> QED
  BY <1>1, <1>2, ReadType, PswType DEF VectorPsw

LEMMA PushType ==
  ASSUME IInv, NEW k \in 1 .. 4, NEW x \in Word16, NEW m, IsMemory(m)
  PROVE  IsMemory(Pushed(k, x, m))
<1>1. regfile[SP] \in Int
  BY WordIsInt DEF IInv, TypeOK, Register, SP
<1>2. Plus(regfile[SP], \h10000 - 2 * k) \in Word16
  BY <1>1, SMT DEF Plus, Word16
<1> QED
  BY <1>2, WriteType DEF Pushed, BelowTop, Bit

LEMMA SVCInv == ASSUME IInv, SVC PROVE IInv'
<1>0. /\ 0 \in Word16 /\ \hFFFF \in Word16
      /\ \A x \in Int : Plus(x, \h10000 - 8) \in Word16
  BY SMT DEF Word16, Plus
<1>1. CASE Trap
  <2>1. /\ regfile[PC] \in Word16 /\ regfile[LR] \in Word16 /\ regfile[SP] \in Int
        /\ PswWord(word_psw) \in Word16 /\ CEX_state \in Word16 /\ IsMemory(memory)
    BY PswType, WordIsInt DEF IInv, TypeOK, Register, PC, LR, SP
  <2> DEFINE m1 == Pushed(1, regfile[PC], memory)
             m2 == Pushed(2, regfile[LR], m1)
             m3 == Pushed(3, PswWord(word_psw), m2)
             m4 == Pushed(4, CEX_state, m3)
  <2>2. IsMemory(m1)
    BY <2>1, PushType
  <2> HIDE DEF m1
  <2>3. IsMemory(m2)
    BY <2>1, <2>2, PushType
  <2> HIDE DEF m2
  <2>4. IsMemory(m3)
    BY <2>1, <2>3, PushType
  <2> HIDE DEF m3
  <2>5. IsMemory(m4)
    BY <2>1, <2>4, PushType
  <2>6. IsMemory(memory')
    BY <1>1, <2>5 DEF Trap, m1, m2, m3
  <2>7. regfile' \in [Register -> Word16]
    <3> DEFINE pc == IF VectorPsw.faulting = 0 THEN \hFFFF
                     ELSE ReadBus(memory, Vector + 2, 0)
               sp == Plus(regfile[SP], \h10000 - 8)
    <3>1. pc \in Word16 /\ sp \in Word16
      BY <1>0, <2>1, VectorType
    <3>2. regfile' = [regfile EXCEPT ![SP] = sp, ![LR] = \hFFFF, ![PC] = pc]
      BY <1>1 DEF Trap
    <3>3. regfile \in [Register -> Word16]
      BY DEF IInv, TypeOK
    <3> HIDE DEF pc, sp
    <3> QED BY <1>0, <3>1, <3>2, <3>3, ThreeUpdatesType
  <2>8. word_psw' \in Psw /\ double_fault' \in BOOLEAN
    <3>1. [VectorPsw EXCEPT !.faulting = 0] \in Psw
      BY VectorType DEF Psw
    <3> QED BY <1>1, <3>1 DEF IInv, TypeOK, Trap, NoFault
  <2> QED
    BY <1>0, <1>1, <2>6, <2>7, <2>8, ExecutedInv DEF IInv, TypeOK, SVC, Trap
<1>2. CASE Fault(word_psw) /\ UNCHANGED <<memory, regfile, CEX_state>>
  <2>1. word_psw' \in Psw /\ double_fault' \in BOOLEAN
    BY <1>2, FaultType DEF IInv, TypeOK
  <2> QED BY <1>2, <2>1, ExecutedInv DEF IInv, TypeOK, SVC
<1> QED
  BY <1>1, <1>2 DEF SVC

LEMMA FiveFlagsType ==
  ASSUME NEW p \in Psw, NEW c \in {0, 1}, NEW z \in {0, 1}, NEW n \in {0, 1},
         NEW v \in {0, 1}, NEW s \in {0, 1}
  PROVE  [p EXCEPT !.c = c, !.z = z, !.n = n, !.v = v, !.slp = s] \in Psw
BY Zenon DEF Psw

LEMMA FlagInv == ASSUME IInv, SETCC \/ CLRCC PROVE IInv'
<1>1. /\ word_psw \in Psw
      /\ word_psw.c \in {0, 1} /\ word_psw.z \in {0, 1} /\ word_psw.n \in {0, 1}
      /\ word_psw.v \in {0, 1} /\ word_psw.slp \in {0, 1}
  BY DEF IInv, TypeOK, Psw
<1>2. CASE SETCC
  <2> DEFINE Or(k, old) == IF B(IR, k) = 1 THEN 1 ELSE old
             s == IF word_psw.current = 7 THEN 0 ELSE Or(3, word_psw.slp)
  <2>1. word_psw' = [word_psw EXCEPT
          !.c = Or(0, word_psw.c), !.z = Or(1, word_psw.z),
          !.n = Or(2, word_psw.n), !.v = Or(4, word_psw.v), !.slp = s]
    BY <1>2, Zenon DEF SETCC
  <2>2. /\ Or(0, word_psw.c) \in {0, 1} /\ Or(1, word_psw.z) \in {0, 1}
        /\ Or(2, word_psw.n) \in {0, 1} /\ Or(4, word_psw.v) \in {0, 1}
        /\ s \in {0, 1}
    BY <1>1
  <2> HIDE DEF Or, s
  <2>3. word_psw' \in Psw
    BY <1>1, <2>1, <2>2, FiveFlagsType
  <2> QED BY <1>2, <2>3, ExecutedInv DEF IInv, TypeOK, SETCC, cex
<1>3. CASE CLRCC
  <2> DEFINE AndNot(k, old) == IF B(IR, k) = 1 THEN 0 ELSE old
  <2>1. word_psw' = [word_psw EXCEPT
          !.c = AndNot(0, word_psw.c), !.z = AndNot(1, word_psw.z),
          !.n = AndNot(2, word_psw.n), !.v = AndNot(4, word_psw.v),
          !.slp = AndNot(3, word_psw.slp)]
    BY <1>1, <1>3 DEF CLRCC, Psw
  <2>2. /\ AndNot(0, word_psw.c) \in {0, 1} /\ AndNot(1, word_psw.z) \in {0, 1}
        /\ AndNot(2, word_psw.n) \in {0, 1} /\ AndNot(4, word_psw.v) \in {0, 1}
        /\ AndNot(3, word_psw.slp) \in {0, 1}
    BY <1>1
  <2> HIDE DEF AndNot
  <2>3. word_psw' \in Psw
    BY <1>1, <2>1, <2>2, FiveFlagsType
  <2> QED BY <1>3, <2>3, ExecutedInv DEF IInv, TypeOK, CLRCC, cex
<1> QED BY <1>2, <1>3

LEMMA ConditionType ==
  ASSUME NEW f, NEW k \in 0 .. 15
  PROVE  Condition(k, f) \in BOOLEAN
<1>1. /\ Condition(0, f) \in BOOLEAN /\ Condition(1, f) \in BOOLEAN
      /\ Condition(2, f) \in BOOLEAN /\ Condition(3, f) \in BOOLEAN
      /\ Condition(4, f) \in BOOLEAN /\ Condition(5, f) \in BOOLEAN
      /\ Condition(6, f) \in BOOLEAN /\ Condition(7, f) \in BOOLEAN
      /\ Condition(8, f) \in BOOLEAN /\ Condition(9, f) \in BOOLEAN
      /\ Condition(10, f) \in BOOLEAN /\ Condition(11, f) \in BOOLEAN
      /\ Condition(12, f) \in BOOLEAN /\ Condition(13, f) \in BOOLEAN
      /\ Condition(14, f) \in BOOLEAN /\ Condition(15, f) \in BOOLEAN
  BY DEF Condition
<1>2. k \in {0, 1, 2, 3, 4, 5, 6, 7, 8, 9, 10, 11, 12, 13, 14, 15}
  BY SMT
<1> QED BY <1>1, <1>2

LEMMA CEXInv == ASSUME IInv, CEX PROVE IInv'
<1>1. true_count' \in Word16 /\ false_count' \in Word16
  <2>1. \A x \in 0 .. 7 : x \in Word16
    BY SMT DEF Word16
  <2> QED BY <2>1, FieldType DEF IInv, TypeOK, CEX
<1>2. CEX_state' \in Word16
  BY SMT DEF CEX, Word16
<1>3. cond_state' \in BOOLEAN
  BY ConditionType, FieldType DEF IInv, TypeOK, CEX
<1> QED
  BY <1>1, <1>2, <1>3, ExecutedInv DEF IInv, TypeOK, CEX

LEMMA ExecuteInv == IInv /\ execute => IInv'
BY BranchInv, ArithmeticInv, MoveInv, LoadInv, StoreInv, SETPRIInv, SVCInv,
   FlagInv, CEXInv DEF execute

(* The user. *)
LEMMA RegistersInv == ASSUME IInv, change_registers PROVE IInv'
<1>1. PICK e \in RegisterEdits :
        \/ /\ e[1] \in Register
           /\ regfile' = [regfile EXCEPT ![e[1]] = e[2]]
           /\ UNCHANGED constants
        \/ /\ e[1] \notin Register
           /\ constants' = [constants EXCEPT ![e[1] - 8] = e[2]]
           /\ UNCHANGED regfile
  BY DEF change_registers
<1>2. e[1] \in 0 .. 15 /\ e[2] \in Word16
  BY CpuAssumption
<1>3. regfile' \in [Register -> Word16] /\ constants' \in [Register -> Word16]
  BY <1>1, <1>2 DEF IInv, TypeOK
<1> QED
  BY <1>3 DEF IInv, TypeOK, IndexInTable, change_registers, machine, decoded,
     cex, signals

LEMMA MenuInv == ASSUME IInv, Menu PROVE IInv'
<1>0. /\ 0 \in Word16 /\ \A n \in Nat : n + 1 \in Nat
      /\ \A w \in PswWords : PswOf(w) \in Psw
      /\ Breakpoints \subseteq Word16
  <2>1. 0 \in Word16 /\ \A n \in Nat : n + 1 \in Nat
    BY SMT DEF Word16
  <2> QED BY <2>1, PswType, CpuAssumption
<1>1. CASE initialize_signal_handler \/ bind \/ run_xm \/ break_point
  BY <1>0, <1>1 DEF IInv, TypeOK, IndexInTable, initialize_signal_handler, bind,
     run_xm, break_point, machine, decoded, cex, signals
<1>2. CASE change_pc
  <2>1. regfile' \in [Register -> Word16]
    BY <1>2, CpuAssumption DEF IInv, TypeOK, change_pc
  <2> QED
    BY <1>2, <2>1 DEF IInv, TypeOK, IndexInTable, change_pc, machine, decoded,
       cex, shell, signals
<1>3. CASE edit_psw_bits
  BY <1>0, <1>3 DEF IInv, TypeOK, IndexInTable, edit_psw_bits, machine, decoded,
     cex, shell, signals
<1> QED BY <1>1, <1>2, <1>3, RegistersInv DEF Menu

LEMMA SignalInv == ASSUME IInv, ctrl_c \/ sigint_hdlr PROVE IInv'
BY DEF IInv, TypeOK, IndexInTable, ctrl_c, sigint_hdlr, Rebound, machine, decoded,
   cex, signals

LEMMA InvIsInductive == IInv /\ [Next]_vars => IInv'
<1>1. IInv /\ Next => IInv'
  BY LoopInv, FetchInv, DecodeInv, ExecuteInv, MenuInv, SignalInv DEF Next, cpu
<1>2. IInv /\ UNCHANGED vars => IInv'
  BY DEF IInv, TypeOK, IndexInTable, vars, decoded, cex, shell, signals
<1> QED BY <1>1, <1>2

(* Every variable keeps its type: registers, counters and memory never leave
   16 and 8 bits, and no field of the PSW spills into the next.            *)
THEOREM TypeCorrect == Spec => []TypeOK
<1>1. IInv => TypeOK
  BY DEF IInv
<1> QED
  BY InitInv, InvIsInductive, <1>1, PTL DEF Spec

(* execute() never reads past the end of an instruction table, although a
   zero word and a word that is not found keep the index of an earlier
   instruction.                                                            *)
THEOREM IndexStaysInTable == Spec => []IndexInTable
<1>1. IInv => IndexInTable
  BY DEF IInv
<1> QED
  BY InitInv, InvIsInductive, <1>1, PTL DEF Spec

-----------------------------------------------------------------------------
(* The PSW between its legal changes. *)
Guarded ==
  /\ word_psw.faulting = 0 => word_psw'.faulting = 0
  /\ word_psw.faulting = 0 => double_fault' = double_fault
  /\ word_psw.current < word_psw'.current =>
       at = "execute" /\ Function = "SVC" /\ Trap

Watched == at # "menu" /\ (at = "fetch" => ~Returning)

(* A fault guards the PSW: it clears the faulting bit, and is a double fault
   only if that bit was set.                                               *)
LEMMA FaultGuards ==
  ASSUME TypeOK, NEW p \in Psw,
         p.faulting = word_psw.faulting, p.current <= word_psw.current,
         Fault(p) \/ NoFault(p)
  PROVE  Guarded
<1>1. /\ p.current \in Int /\ word_psw.current \in Int
      /\ double_fault \in BOOLEAN
  BY SMT DEF TypeOK, Psw
<1>2. word_psw'.current = p.current
  BY DEF Fault, NoFault, Psw
<1>3. ~(word_psw.current < word_psw'.current)
  BY <1>1, <1>2, SMT
<1>4. word_psw.faulting = 0 =>
        word_psw'.faulting = 0 /\ double_fault' = double_fault
  <2> SUFFICES ASSUME word_psw.faulting = 0
               PROVE  word_psw'.faulting = 0 /\ double_fault' = double_fault
    OBVIOUS
  <2>1. CASE Fault(p)
    BY <1>1, <2>1 DEF Fault, Psw
  <2>2. CASE NoFault(p)
    BY <2>2 DEF NoFault
  <2> QED BY <2>1, <2>2
<1> QED BY <1>3, <1>4 DEF Guarded

(* A step that changes neither bit guards the PSW. *)
LEMMA SameGuards ==
  ASSUME TypeOK, word_psw'.faulting = word_psw.faulting,
         word_psw'.current = word_psw.current, UNCHANGED double_fault
  PROVE  Guarded
<1>1. ~(word_psw.current < word_psw'.current)
  <2>1. word_psw.current \in Int
    BY SMT DEF TypeOK, Psw
  <2> QED BY <2>1, SMT
<1> QED BY <1>1 DEF Guarded

(* Outside the menu and the returns from traps, a set faulting bit is not
   made, a double fault needs that bit, and only a trap raises the priority. *)
THEOREM PswIsGuarded == Spec => PswGuarded
<1>1. ASSUME IInv, [Next]_vars, Watched PROVE Guarded
  <2> USE <1>1 DEF IInv
  <2>0. word_psw \in Psw
    BY DEF TypeOK
  <2>1. CASE Dispatch \/ CexLoops \/ Count \/ Continue \/ UNCHANGED vars
    BY <2>1, SameGuards DEF Dispatch, CexLoops, Count, Continue, vars
  <2>2. CASE fetch
    <3>1. Fault(word_psw) \/ NoFault(word_psw)
      BY <2>2 DEF Watched, fetch
    <3> QED BY <2>0, <3>1, FaultGuards DEF TypeOK, Psw
  <2>3. CASE decode
    <3>1. Fault(word_psw) \/ NoFault(word_psw)
      BY <2>3 DEF decode
    <3> QED BY <2>0, <3>1, FaultGuards DEF TypeOK, Psw
  <2>4. CASE Branch \/ Load \/ Store \/ CEX
    BY <2>4, SameGuards DEF Branch, Load, Store, CEX
  <2>5. CASE Arithmetic \/ Move \/ SETCC \/ CLRCC
    <3>1. /\ word_psw'.faulting = word_psw.faulting
          /\ word_psw'.current = word_psw.current
          /\ UNCHANGED double_fault
      <4>1. CASE Arithmetic
        BY <2>0, <4>1 DEF Arithmetic, Psw
      <4>2. CASE Move
        BY <2>0, <4>2 DEF Move, Psw
      <4>3. CASE SETCC
        BY <2>0, <4>3 DEF SETCC, Psw
      <4>4. CASE CLRCC
        BY <2>0, <4>4 DEF CLRCC, Psw
      <4> QED BY <2>5, <4>1, <4>2, <4>3, <4>4
    <3> QED BY <3>1, SameGuards
  <2>6. CASE SETPRI
    <3>1. CASE B0_2(IR) < word_psw.current
      <4> DEFINE p == [word_psw EXCEPT !.current = B0_2(IR)]
      <4>1. B0_2(IR) \in 0 .. 7 /\ word_psw.current \in 0 .. 7
        BY <2>0, FieldType DEF TypeOK, Psw
      <4>2. /\ p \in Psw /\ p.faulting = word_psw.faulting
            /\ p.current = B0_2(IR) /\ NoFault(p)
        BY <2>0, <2>6, <3>1, <4>1 DEF SETPRI, Psw
      <4>3. p.current <= word_psw.current
        BY <3>1, <4>1, <4>2, SMT
      <4> HIDE DEF p
      <4> QED BY <4>2, <4>3, FaultGuards
    <3>2. CASE ~(B0_2(IR) < word_psw.current)
      <4>1. Fault(word_psw)
        BY <2>6, <3>2 DEF SETPRI
      <4> QED BY <2>0, <4>1, FaultGuards DEF TypeOK, Psw
    <3> QED BY <3>1, <3>2
  <2>7. CASE SVC
    <3>1. CASE Trap
      <4>1. word_psw'.faulting = 0 /\ UNCHANGED double_fault
        BY <3>1, VectorType DEF Trap, NoFault, Psw
      <4> QED BY <2>7, <3>1, <4>1 DEF Guarded, SVC, Executed
    <3>2. CASE Fault(word_psw)
      BY <2>0, <3>2, FaultGuards DEF TypeOK, Psw
    <3> QED BY <2>7, <3>1, <3>2 DEF SVC
  <2>8. CASE Menu
    <3>1. bind \/ run_xm
      BY <2>8 DEF Watched, Menu, initialize_signal_handler, break_point, change_pc,
         change_registers, edit_psw_bits
    <3> QED BY <3>1, SameGuards DEF bind, run_xm, machine
  <2>9. CASE ctrl_c \/ sigint_hdlr
    BY <2>9, SameGuards DEF ctrl_c, sigint_hdlr, machine
  <2> QED
    BY <2>1, <2>2, <2>3, <2>4, <2>5, <2>6, <2>7, <2>8, <2>9 DEF Next, cpu,
       execute
<1>2. IInv /\ [Next]_vars => [Watched => Guarded]_vars
  BY <1>1
<1>3. Spec => [][Watched => Guarded]_vars
  BY InitInv, InvIsInductive, <1>2, PTL DEF Spec
<1> QED
  BY <1>3 DEF PswGuarded, Watched, Guarded

-----------------------------------------------------------------------------
(* The disposition of SIGINT.  From bind to the return of cpu() the handler
   is bound, or in progress, at whose end it binds itself again.           *)
ListensInv ==
  at = "run_xm" \/ Running => sigint = "handler" \/ handler # "idle"

LEMMA LoopsKeepSignals ==
  ASSUME Dispatch \/ CexLoops \/ Count \/ Continue \/ fetch \/ decode \/ execute
  PROVE  Running /\ UNCHANGED <<sigint, handler>>
<1>1. CASE execute
  <2>1. Executed
    BY <1>1 DEF execute, Branch, Arithmetic, Move, Load, Store, SETPRI, SVC, SETCC,
       CLRCC, CEX
  <2> QED BY <2>1 DEF Executed, Running, shell, signals
<1> QED
  BY <1>1 DEF Dispatch, CexLoops, Count, Continue, fetch, decode, Running, shell,
     signals

(* Once a run has started, ^C never meets the default disposition but while
   an earlier ^C is being handled.                                         *)
THEOREM AlwaysListens == Spec => []ListensWhileRunning
<1>1. Init => ListensInv
  BY DEF Init, ListensInv, Running
<1>2. ListensInv /\ [Next]_vars => ListensInv'
  <2> SUFFICES ASSUME ListensInv, [Next]_vars PROVE ListensInv'
    OBVIOUS
  <2>1. CASE cpu
    BY <2>1, LoopsKeepSignals DEF cpu, ListensInv
  <2>2. CASE Menu
    BY <2>2 DEF Menu, initialize_signal_handler, bind, run_xm, break_point,
       change_pc, change_registers, edit_psw_bits, ListensInv, Running, shell, signals
  <2>3. CASE ctrl_c \/ sigint_hdlr
    BY <2>3 DEF ctrl_c, sigint_hdlr, Rebound, ListensInv, Running, signals
  <2>4. CASE UNCHANGED vars
    BY <2>4 DEF vars, ListensInv, Running, shell, signals
  <2> QED BY <2>1, <2>2, <2>3, <2>4 DEF Next
<1>3. ListensInv => ListensWhileRunning
  BY DEF ListensInv, ListensWhileRunning
<1> QED BY <1>1, <1>2, <1>3, PTL DEF Spec
=============================================================================
