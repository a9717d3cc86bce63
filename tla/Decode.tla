------------------------------- MODULE Decode -------------------------------
(***************************************************************************)
(* Which entry of which instruction table a word selects (Decode.c, and    *)
(* the switch of decode() in Cpu.c), and the operands it carries.          *)
(*                                                                         *)
(* A decoder that finds no entry leaves the table index of the previous    *)
(* instruction in place; Cpu keeps that index, so here a decoder answers   *)
(* with the set of indices it finds, which has at most one element.        *)
(***************************************************************************)
EXTENDS Bits, Sequences

Entry(n, o) == [name |-> n, opcode |-> o]

(* The four tables, indexed from 0 as in the code. *)
ZeroBased(s) == [i \in 0 .. Len(s) - 1 |-> s[i + 1]]

branch_table == ZeroBased(<<
  Entry("BL",  \h00), Entry("BEQ", \h08), Entry("BNE", \h09),
  Entry("BC",  \h0A), Entry("BNC", \h0B), Entry("BN",  \h0C),
  Entry("BGE", \h0D), Entry("BLT", \h0E), Entry("BRA", \h0F) >>)

arithmetic_table == ZeroBased(<<
  Entry("ADD",  \h40), Entry("ADDC", \h41), Entry("SUB", \h42),
  Entry("SUBC", \h43), Entry("DADD", \h44), Entry("CMP", \h45),
  Entry("XOR",  \h46), Entry("AND",  \h47), Entry("OR",  \h48),
  Entry("BIT",  \h49), Entry("BIC",  \h4A), Entry("BIS", \h4B) >>)

init_register_table == ZeroBased(<<
  Entry("MOVL", \h0C), Entry("MOVLZ", \h0D), Entry("MOVLS", \h0E),
  Entry("MOVH", \h0F), Entry("LDR",   \h02), Entry("STR",   \h03) >>)

reg_operation_table == ZeroBased(<<
  Entry("MOV",   \h098), Entry("SWAP",  \h099), Entry("SRA",  \h9A0),
  Entry("RRC",   \h9A1), Entry("COMP",  \h9A2), Entry("SWPB", \h9A3),
  Entry("SXT",   \h9A4), Entry("SETPRI", \h4D8), Entry("SVC", \h4D9),
  Entry("SETCC", \h9B4), Entry("CLRCC", \h9B8), Entry("CEX",  \h014),
  Entry("LD",    \h016), Entry("ST",    \h017) >>)

type_instr == {"branch_link", "branch_condition", "arithmetic", "init_reg",
               "reg_operation"}

(* The table execute() indexes for an instruction of type t. *)
Table(t) ==
  CASE t \in {"branch_link", "branch_condition"} -> branch_table
    [] t = "arithmetic"                          -> arithmetic_table
    [] t = "init_reg"                            -> init_register_table
    [] t = "reg_operation"                       -> reg_operation_table

-----------------------------------------------------------------------------
(* The switch of decode(): the type of a word that is not zero. *)
InstructionType(ir) ==
  CASE B13_15(ir) = 0                       -> "branch_link"
    [] B13_15(ir) = 1                       -> "branch_condition"
    [] B12_15(ir) = 4 /\ B8_11(ir) < 12     -> "arithmetic"
    [] B13_15(ir) = 2 /\ ~(B12_15(ir) = 4 /\ B8_11(ir) < 12)
                                            -> "reg_operation"
    [] B13_15(ir) > 2                       -> "init_reg"

(* The nested switches of reg_operation_decode(): the bits that name the
   instruction, from the shortest opcode to the longest.                   *)
RegOpcode(ir) ==
  IF      B11_15(ir) \in {\h0A, \h0B} THEN B10_15(ir)
  ELSE IF B8_15(ir) = \h4C            THEN B7_15(ir)
  ELSE IF B7_15(ir) = \h9A            THEN B3_15_mod(ir)
  ELSE IF /\ B6_15(ir) \in {\h136, \h137}
          /\ B5_15(ir) # \h26C         THEN B3_15_mod2(ir)
  ELSE B4_15(ir)

(* The opcode each decoder looks up. *)
Opcode(ir) ==
  LET t == InstructionType(ir) IN
  CASE t = "branch_link"      -> 0
    [] t = "branch_condition" -> B10_15(ir)
    [] t = "arithmetic"       -> B8_15(ir)
    [] t = "init_reg"         -> IF B(ir, 15) = 1 THEN B14_15(ir)
                                                  ELSE B11_15(ir)
    [] t = "reg_operation"    -> RegOpcode(ir)

(* The search of the table. *)
Matches(ir) ==
  LET tab == Table(InstructionType(ir))
  IN  {i \in DOMAIN tab : tab[i].opcode = Opcode(ir)}

-----------------------------------------------------------------------------
(* The global operand variables of Cpu.c.  Every decoder sets the ones its
   instructions have and leaves the others.                                *)
Operands == [offset : Word16, rc : {0, 1}, wb : {0, 1}, prpo : {0, 1},
             dec : {0, 1}, sc : 0 .. 7, d : 0 .. 7]

NoOperands == [offset |-> 0, rc |-> 0, wb |-> 0, prpo |-> 0, dec |-> 0,
               sc |-> 0, d |-> 0]

DecodedOperands(ir, old) ==
  LET t == InstructionType(ir) IN
  CASE t = "branch_link" ->
         [old EXCEPT !.offset = Plus(0, 2 * SignExtend(ir % \h2000, 13))]
    [] t = "branch_condition" ->
         [old EXCEPT !.offset = Plus(0, 2 * SignExtend(ir % \h400, 10))]
    [] t = "arithmetic" ->
         [old EXCEPT !.rc = B(ir, 7), !.wb = B(ir, 6),
                     !.sc = B3_5(ir), !.d = B0_2(ir)]
    [] t \in {"init_reg", "reg_operation"} ->
         [old EXCEPT !.prpo = B(ir, 9), !.dec = B(ir, 8), !.wb = B(ir, 6),
                     !.sc = B3_5(ir), !.d = B0_2(ir)]
=============================================================================
