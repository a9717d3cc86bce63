------------------------------ MODULE MCSystem ------------------------------
(***************************************************************************)
(* An instance of CachedCpu for TLC, with the programs of MCCpu and one    *)
(* whose loop overwrites an instruction of its own and pushes and pops.    *)
(***************************************************************************)
EXTENDS CachedCpu, MCCpu

Rewriting == Program(<< At100(<<
  movlz(2, 4), movlz(\h14, 0), movh(1, 0), movlz(\h1A, 1), movh(\h68, 1),
  str(0, 0, 1, 0), ldr(0, 0, 0, 3), arith("ADD", 1, 0, 4, 1),
  st(1, 1, 0, 0, 1, SP), ld(0, 0, 1, 0, SP, 5), movlz(9, 2),
  arith("ADD", 1, 0, 7, 4), branch("BNE", -16), branch("BRA", -2) >>) >>)

MCSystems == {BlocksProgram(EQ), Nested, Rewriting}
=============================================================================
