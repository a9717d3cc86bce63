------------------------------ MODULE TracedCpu ------------------------------
(***************************************************************************)
(* The processor with a history variable: what is left of the CEX blocks   *)
(* that traps were taken in.  The code keeps no such thing (its counters   *)
(* go on counting in the handler), so that it implements Predication only  *)
(* for programs whose traps leave nothing of a block to suspend.           *)
(***************************************************************************)
EXTENDS Cpu

VARIABLE suspended

(* What is left of a CEX block, as the counters hold it. *)
Window == [k \in 1 .. true_count + false_count |->
             IF k <= true_count THEN cond_state ELSE ~cond_state]

Doing == CASE at \in {"decode", "execute"} -> "running"
           [] at = "count" -> IF Skipped THEN "skipping" ELSE "running"
           [] OTHER        -> "nothing"

(* The next step of the CPU enters a handler, or returns from one. *)
Trapping == at = "execute" /\ Function = "SVC" /\ word_psw.current < VectorPsw.current
Resuming == at = "fetch" /\ Returning

Blocks == INSTANCE Predication WITH window <- Window, doing <- Doing

(* A trap sets aside what is left of its block after it, a return takes the
   last block set aside.  The return of a PC of 0xFFFF that no trap has
   preceded has none to take.                                              *)
Trace ==
  \/ /\ at' # at /\ Trapping
     /\ suspended' = Append(suspended, Blocks!Rest(Window))
  \/ /\ at' # at /\ Resuming /\ suspended # <<>>
     /\ suspended' = SubSeq(suspended, 1, Len(suspended) - 1)
  \/ /\ \/ at' = at
        \/ ~Trapping /\ (Resuming => suspended = <<>>)
     /\ UNCHANGED suspended

TracedInit == Init /\ suspended = <<>>
TracedNext == Next /\ Trace
TracedSpec == TracedInit /\ [][TracedNext]_<<vars, suspended>>

(* The trace alone, beside any specification of the processor. *)
Traced == suspended = <<>> /\ [][Trace]_<<vars, suspended>>

-----------------------------------------------------------------------------
(* Properties.                                                             *)

(* The program takes no trap with more of the block to come, and returns
   from no handler inside a block of the handler.                          *)
TrapsOutsideBlocks ==
  /\ Trapping => Len(Window) <= 1
  /\ Resuming => Window = <<>>

(* Conditional execution: the two counters, the two inner loops and the
   condition flag execute and skip exactly the instructions the CEX names,
   also when a branch leaves the block, the user stops the CPU and goes on,
   or the last instruction of the block is a trap.                         *)
ImplementsPredication == Blocks!Spec
=============================================================================
