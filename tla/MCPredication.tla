---------------------------- MODULE MCPredication ----------------------------
(***************************************************************************)
(* An instance of TracedCpu for TLC: the programs of MCCpu.                *)
(***************************************************************************)
EXTENDS TracedCpu, MCCpu
=============================================================================
