--------------------------------- MODULE Alu ---------------------------------
(***************************************************************************)
(* The arithmetic and logic instructions (Arithmetic and Logic             *)
(* Execution.c), the flags they leave (PSW code.c) and the conditions that *)
(* CEX and the branches read from those flags.                             *)
(*                                                                         *)
(* s and d are the 16-bit source and destination, c the carry flag, wb is  *)
(* 1 for a byte instruction.                                               *)
(***************************************************************************)
EXTENDS Bits

Operations == {"ADD", "ADDC", "SUB", "SUBC", "DADD", "CMP", "XOR", "AND",
               "OR", "BIT", "BIC", "BIS"}

Sign(x, wb) == IF wb = 0 THEN B(x, 15) ELSE B(x, 7)
Cut(x, wb)  == IF wb = 0 THEN x % \h10000 ELSE x % \h100

(* Mutants of the tables: an entry is 0 that should be 1. *)
CarryMissesNegatives == {<<0, 1, 0>>, <<1, 0, 0>>, <<1, 1, 0>>}
OverflowMissesNegatives == {<<0, 0, 1>>}

(* The tables carry[][][] and overflow[][][], as the <<source, destination,
   result>> signs whose entry is 1.                                        *)
carry    == {<<0, 1, 0>>, <<1, 0, 0>>, <<1, 1, 0>>, <<1, 1, 1>>}
overflow == {<<0, 0, 1>>, <<1, 1, 0>>}

update_psw(src, dst, res, wb) ==
  LET signs == <<Sign(src, wb), Sign(dst, wb), Sign(res, wb)>>
  IN  [c |-> IF signs \in carry THEN 1 ELSE 0,
       z |-> IF Cut(res, wb) = 0 THEN 1 ELSE 0,
       n |-> Sign(res, wb),
       v |-> IF signs \in overflow THEN 1 ELSE 0]

(* 1 << s as the x86 build computes it: the count is taken modulo 32, and a
   bit shifted past bit 15 is lost in the 16-bit result.                   *)
ShiftedBit(s) == IF s % 32 < 16 THEN 2^(s % 32) ELSE 0

(* What the adding instructions add to d, cut to the unsigned short that
   update_psw() receives.                                                  *)
Addend(op, s, c) ==
  CASE op = "ADD"           -> s
    [] op = "ADDC"          -> Plus(s, c)
    [] op \in {"SUB", "CMP"} -> Plus(BitNot(s), 1)
    [] op = "SUBC"          -> Plus(BitNot(s), c)

(* The result of an instruction other than DADD, before it is cut to its
   width.  The byte form of SUBC subtracts ~s instead of adding it.        *)
Combine(op, s, d, c, wb) ==
  CASE op = "SUBC" /\ wb = 1 -> d + s + 1 + c
    [] op \in {"ADD", "ADDC", "SUB", "CMP"} \/ (op = "SUBC" /\ wb = 0)
                             -> d + Addend(op, s, c)
    [] op = "XOR"            -> BitXor(d, s)
    [] op = "AND"            -> BitAnd(d, s)
    [] op = "OR"             -> BitOr(d, s)
    [] op = "BIT"            -> BitAnd(d, ShiftedBit(s))
    [] op = "BIC"            -> BitAnd(d, BitNot(ShiftedBit(s)))
    [] op = "BIS"            -> BitOr(d, ShiftedBit(s))

(* DADD: decimal addition, nibble by nibble.  In the sum HCk is the half
   carry into nibble k.                                                    *)
Nibble(x, k) == (x \div 16^k) % 16

(* Mutant of HalfCarry: a sum of ten is left as a digit. *)
LateCarry(sum) == IF sum > 10 THEN 1 ELSE 0

HalfCarry(sum) == IF sum > 9 THEN 1 ELSE 0

DecimalSum(s, d, c) ==
  LET sum(k, h) == Nibble(s, k) + Nibble(d, k) + h
      half(k, h) == HalfCarry(sum(k, h))
      digit(k, h) == (sum(k, h) - 10 * half(k, h)) % 16
      HC1 == half(0, c)
      HC2 == half(1, HC1)
      HC3 == half(2, HC2)
  IN  digit(0, c) + 16 * digit(1, HC1) + 256 * digit(2, HC2)
        + 4096 * digit(3, HC3)

(* The value an instruction computes: a byte result is zero-extended.  DADD
   keeps the whole sum when wb is 1 and its low byte when wb is 0.         *)
Result(op, s, d, c, wb) ==
  IF op = "DADD" THEN Cut(DecimalSum(s, d, c), 1 - wb)
  ELSE Cut(Combine(op, Cut(s, wb), Cut(d, wb), c, wb), wb)

(* The flags it leaves: DADD leaves them alone. *)
Flags(op, s, d, c, wb) ==
  LET S   == Cut(s, wb)
      src == IF op \in {"ADD", "ADDC", "SUB", "SUBC", "CMP"}
             THEN Addend(op, S, c) ELSE S
  IN  update_psw(src, Cut(d, wb), Result(op, s, d, c, wb), wb)

(* The instructions that do not write their destination. *)
OnlyFlags == {"CMP", "BIT"}

-----------------------------------------------------------------------------
(* The sixteen conditions of CEX over the flags f. *)
Condition(cond, f) ==
  CASE cond = 0  -> f.z = 1                      \* EQ
    [] cond = 1  -> f.z = 0                      \* NE
    [] cond = 2  -> f.c = 1                      \* CS/HS
    [] cond = 3  -> f.c = 0                      \* CC/LO
    [] cond = 4  -> f.n = 1                      \* MI
    [] cond = 5  -> f.n = 0                      \* PL
    [] cond = 6  -> f.v = 1                      \* VS
    [] cond = 7  -> f.v = 0                      \* VC
    [] cond = 8  -> f.c = 1 /\ f.z = 0           \* HI
    [] cond = 9  -> f.c = 0 /\ f.z = 1           \* LS
    [] cond = 10 -> f.n = f.v                    \* GE
    [] cond = 11 -> f.n # f.v                    \* LT
    [] cond = 12 -> f.z = 0 /\ f.n = f.v         \* GT
    [] cond = 13 -> f.z = 1 \/ f.n # f.v         \* LE
    [] cond = 14 -> TRUE                         \* TR
    [] cond = 15 -> FALSE                        \* FL

(* Whether a branch is taken. *)
Taken(name, f) ==
  CASE name \in {"BL", "BRA"} -> TRUE
    [] name = "BEQ" -> f.z = 1
    [] name = "BNE" -> f.z = 0
    [] name = "BC"  -> f.c = 1
    [] name = "BNC" -> f.c = 0
    [] name \in {"BN", "BLT"} -> f.n = 1
    [] name = "BGE" -> f.n = 0

-----------------------------------------------------------------------------
(* What the instructions promise, in integers.  s and d have been cut to
   the width of the instruction.                                           *)
Span(wb)      == IF wb = 0 THEN \h10000 ELSE \h100
Signed(x, wb) == IF Sign(x, wb) = 0 THEN x ELSE x - Span(wb)
InRange(i, wb) == -Span(wb) <= 2 * i /\ 2 * i < Span(wb)

(* r and f are right for an addition of which the exact sum is u unsigned
   and i signed.                                                           *)
IsSum(r, f, u, i, wb) ==
  /\ r = u % Span(wb)
  /\ f.c = 1 <=> u >= Span(wb)
  /\ f.v = 1 <=> ~InRange(i, wb)
  /\ f.z = 1 <=> r = 0
  /\ f.n = 1 <=> Signed(r, wb) < 0

(* The conditions that compare, for the flags f of CMP s, d. *)
Compares(f, s, d, wb) ==
  /\ Condition(0, f) <=> d = s
  /\ Condition(1, f) <=> d # s
  /\ Condition(2, f) <=> d >= s
  /\ Condition(3, f) <=> d < s
  /\ Condition(8, f) <=> d > s
  /\ Condition(10, f) <=> Signed(d, wb) >= Signed(s, wb)
  /\ Condition(11, f) <=> Signed(d, wb) < Signed(s, wb)
  /\ Condition(12, f) <=> Signed(d, wb) > Signed(s, wb)
  /\ Condition(13, f) <=> Signed(d, wb) <= Signed(s, wb)

(* Four decimal digits, and the number they stand for. *)
IsDecimal(x) == \A k \in 0 .. 3 : Nibble(x, k) <= 9
Decimal(x)   == Nibble(x, 0) + 10 * Nibble(x, 1) + 100 * Nibble(x, 2)
                  + 1000 * Nibble(x, 3)
=============================================================================
