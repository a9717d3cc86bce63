-------------------------------- MODULE MCCpu --------------------------------
(***************************************************************************)
(* Instances of Cpu for TLC: an assembler and the programs it runs.        *)
(***************************************************************************)
EXTENDS Cpu, FiniteSets, SequencesExt

(* Instruction words. *)
arith(name, rc, byte, s, d) ==
  LET i == CHOOSE k \in DOMAIN arithmetic_table : arithmetic_table[k].name = name
  IN  \h4000 + 256 * i + 128 * rc + 64 * byte + 8 * s + d
mov(s, d)       == \h4C00 + 8 * s + d
swap(s, d)      == \h4C80 + 8 * s + d
one(name, byte, d) ==
  LET i == CHOOSE k \in DOMAIN reg_operation_table :
             reg_operation_table[k].name = name
  IN  8 * reg_operation_table[i].opcode + 64 * byte + d
setpri(p)       == \h4D80 + p
svc(v)          == \h4D90 + v
setcc(f)        == \h4DA0 + f
clrcc(f)        == \h4DC0 + f
cexi(c, t, f)   == \h5000 + 64 * c + 8 * t + f
ld(prpo, dec, inc, byte, s, d) ==
  \h5800 + 512 * prpo + 256 * dec + 128 * inc + 64 * byte + 8 * s + d
st(prpo, dec, inc, byte, s, d) == ld(prpo, dec, inc, byte, s, d) + \h0400
movl(x, d)      == \h6000 + 8 * x + d
movlz(x, d)     == \h6800 + 8 * x + d
movls(x, d)     == \h7000 + 8 * x + d
movh(x, d)      == \h7800 + 8 * x + d
ldr(o, byte, s, d) == \h8000 + 128 * (o % 128) + 64 * byte + 8 * s + d
str(o, byte, s, d) == ldr(o, byte, s, d) + \h4000
branch(name, o) ==
  LET i == CHOOSE k \in DOMAIN branch_table : branch_table[k].name = name
  IN  1024 * branch_table[i].opcode
        + IF name = "BL" THEN (o \div 2) % \h2000 ELSE (o \div 2) % \h400

EQ == 0
NE == 1
TR == 14
FL == 15

(* Words s from address a up, as the loader leaves them. *)
Words(a, s) ==
  [b \in a .. a + 2 * Len(s) - 1 |->
     LET w == s[(b - a) \div 2 + 1]
     IN  IF b % 2 = 0 THEN LowByte(w) ELSE HighByte(w)]

Program(parts) ==
  [memory |-> [a \in UNION {DOMAIN parts[k] : k \in DOMAIN parts} |->
                 parts[CHOOSE k \in DOMAIN parts : a \in DOMAIN parts[k]][a]],
   entry  |-> \h100]

At100(s) == Words(\h100, s)

(* Vector 1 and 2 have a PSW with the faulting bit, so that their handlers
   are entered; vector 3 has not.  Every handler ends in MOV LR, PC.       *)
Vectors == Words(\hFFC4, << 32 * 3 + 256, \h200, 32 * 5 + 256, \h210,
                            32 * 6, \h210 >>)
Return  == mov(LR, PC)
Handler1(s) == Words(\h200, Append(s, Return))
Handler2(s) == Words(\h210, Append(s, Return))

-----------------------------------------------------------------------------
(* Every kind of instruction, ending in a branch to itself. *)
Tour == Program(<< At100(<<
  movlz(\h40, 0), movh(\h01, 0), movls(\hF0, 1), movl(\h12, 2),
  st(0, 0, 1, 0, 1, 0), ld(1, 1, 0, 0, 0, 3), str(4, 0, 1, 0), ldr(4, 1, 0, 4),
  st(1, 1, 0, 1, 1, 0), ld(0, 0, 1, 1, 0, 2),
  arith("ADD", 1, 0, 7, 3), arith("ADDC", 0, 1, 1, 2), arith("DADD", 0, 1, 1, 2),
  arith("CMP", 0, 0, 1, 2), arith("BIS", 1, 0, 2, 4), arith("XOR", 0, 0, 1, 4),
  one("RRC", 1, 4), one("SRA", 0, 1), one("COMP", 1, 2), one("SWPB", 0, 2),
  one("SXT", 0, 2), swap(2, 3), setcc(31), clrcc(2), branch("BL", 2), setpri(0),
  branch("BNC", 2), branch("BC", 2), movlz(1, 1), branch("BRA", -2) >>) >>)

(* CEX blocks: both parts, one part, none; a branch out of a block; a CEX
   follows a CEX block at once.                                            *)
BlocksProgram(c) == Program(<< At100(<<
  setcc(2), cexi(c, 2, 1), movlz(1, 0), movlz(2, 0), movlz(3, 1),
  cexi(1 - c, 1, 2), arith("ADD", 1, 0, 1, 0), branch("BRA", 2), movlz(9, 1), movlz(4, 1),
  cexi(c, 0, 3), movlz(5, 0), movlz(6, 0), clrcc(2),
  cexi(TR, 2, 0), movlz(7, 0), movlz(8, 0), branch("BRA", -2) >>) >>)

(* Faults: a priority fault of SETPRI, an illegal instruction, a zero word
   after an instruction of another type, an odd PC.                        *)
Faults == Program(<< At100(<<
  setpri(5), \h4D28, movlz(1, 0), 0, cexi(NE, 1, 1), movlz(1, 0), setcc(1),
  \h4E00, arith("ADD", 1, 0, 1, PC), setcc(1), clrcc(1),
  branch("BRA", -2) >>) >>)

(* Traps that nest, fault, return at once, and one in a CEX block whose
   instructions the handler runs in.                                       *)
Nested == Program(<< Vectors,
  At100(<< setcc(1), svc(1), movlz(1, 1), svc(3), movlz(2, 1), svc(2),
           branch("BRA", -2) >>),
  Handler1(<< movlz(3, 2), svc(2), svc(1), clrcc(1) >>),
  Handler2(<< movlz(4, 3), svc(3), svc(1) >>) >>)

InBlock == Program(<< Vectors,
  At100(<< cexi(TR, 2, 0), svc(1), movlz(1, 1), movlz(2, 1),
           cexi(NE, 3, 0), movlz(3, 1), svc(2), movlz(4, 1),
           branch("BRA", -2) >>),
  Handler1(<< movlz(3, 2), movlz(5, 2), svc(2) >>),
  Handler2(<< movlz(4, 3) >>) >>)

(* Traps as the last instructions of blocks, run and skipped, to handlers
   that have blocks of their own; a CEX right after a return.              *)
TrapLast == Program(<< Vectors,
  At100(<< cexi(TR, 2, 0), movlz(1, 1), svc(1), cexi(FL, 1, 2), svc(2),
           movlz(2, 1), svc(2), movlz(3, 1), branch("BRA", -2) >>),
  Handler1(<< setcc(2), cexi(EQ, 1, 1), movlz(3, 2), svc(3), svc(2) >>),
  Handler2(<< cexi(TR, 0, 1), movlz(4, 3) >>) >>)

(* A loop that doubles a byte, left when it overflows to 0. *)
Loop == Program(<< At100(<<
  movlz(\h20, 0), arith("ADD", 0, 1, 0, 0), cexi(EQ, 0, 1), branch("BRA", -6),
  branch("BRA", -2) >>) >>)

(* Two instructions that repeat for ever. *)
Forever == Program(<< At100(<< movlz(1, 0), branch("BRA", -4) >>) >>)

MCTour     == {Tour, Loop, Forever, Faults, Nested, InBlock}
MCPrograms == {BlocksProgram(EQ), BlocksProgram(NE), Nested, TrapLast}
MCInBlock  == {InBlock}
MCNested   == {Nested}
MCBlock    == {BlocksProgram(EQ)}

None   == {}
NoStop == {0}
MCBreak  == {0, \h106}
MCBreaks == {0, \h106, \h204, \hFFF0}
MCEntry  == {\h101}
MCEdits  == {<<9, 3>>}
MCPsw    == {256 + 32 * 4}
=============================================================================
