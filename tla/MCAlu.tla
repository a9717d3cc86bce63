-------------------------------- MODULE MCAlu --------------------------------
(***************************************************************************)
(* The arithmetic of Alu on boundary values: the machine is given one      *)
(* instruction with its operands and executes it.                          *)
(***************************************************************************)
EXTENDS Alu

CONSTANTS Values,    \* the operands
          Ops        \* the instructions

ASSUME AluAssumption == Values \subseteq Word16 /\ Ops \subseteq Operations

VARIABLES op, s, d, c, wb,   \* the instruction and its operands
          result, flags      \* what it leaves

None == [c |-> 0, z |-> 0, n |-> 0, v |-> 0]

(* The width in which operands are read: DADD always reads four digits. *)
Width == IF op = "DADD" THEN 0 ELSE wb

Init == /\ op \in Ops /\ wb \in {0, 1} /\ c \in {0, 1}
        /\ s \in {Cut(x, Width) : x \in Values}
        /\ d \in {Cut(x, Width) : x \in Values}
        /\ result = -1 /\ flags = None

Execute == /\ result = -1
           /\ result' = Result(op, s, d, c, wb)
           /\ flags' = Flags(op, s, d, c, wb)
           /\ UNCHANGED <<op, s, d, c, wb>>

Spec == Init /\ [][Execute]_<<op, s, d, c, wb, result, flags>>

Executed(ops) == result # -1 /\ op \in ops

(* ADD, and ADDC unless adding the carry to the source changes its sign,
   leave the exact sum and its carry and overflow, although both flags are
   read from tables of the three sign bits.                                *)
AddRight ==
  /\ Executed({"ADD"})
       => IsSum(result, flags, s + d, Signed(s, wb) + Signed(d, wb), wb)
  /\ Executed({"ADDC"}) /\ 2 * (s + 1) \notin {Span(wb), 2 * Span(wb)}
       => IsSum(result, flags, s + d + c,
                Signed(s, wb) + Signed(d, wb) + c, wb)

(* After CMP or SUB the conditions of CEX compare the operands, unsigned and
   signed, for every source but 0 and the most negative number.            *)
CompareRight ==
  Executed({"CMP", "SUB"}) /\ 2 * s \notin {0, Span(wb)}
    => Compares(flags, s, d, wb)

(* DADD with wb = 1 adds four-digit decimal numbers. *)
DecimalRight ==
  Executed({"DADD"}) /\ wb = 1 /\ IsDecimal(s) /\ IsDecimal(d)
    => /\ IsDecimal(result)
       /\ Decimal(result) = (Decimal(s) + Decimal(d) + c) % 10000

-----------------------------------------------------------------------------
MCOps     == {"ADD", "ADDC", "SUB", "CMP", "DADD"}
MCValues  == {\h0000, \h0001, \h0009, \h0080, \h007F, \h00FF, \h1234, \h7FFE,
              \h7FFF, \h8000, \h8001, \h8765, \h9999, \h0999, \hFFFE, \hFFFF}
=============================================================================
