-------------------------------- MODULE Traps --------------------------------
(***************************************************************************)
(* What a trap promises.  The state of the interrupted code is set aside   *)
(* while code of higher priority runs, and the return from the trap brings *)
(* back the state set aside last.  Traps may nest.  Cpu implements this    *)
(* module with the frames it pushes on the stack in memory, as long as     *)
(* nothing else is kept there.                                             *)
(***************************************************************************)
EXTENDS Naturals, Sequences

CONSTANT Contexts    \* the states of running code: records whose fields
                     \* include pc and psw.current, the priority

VARIABLES context,   \* the state of the code that runs
          saved      \* the states set aside, the last one innermost

Init == context \in Contexts /\ saved = <<>>

(* Anything but a trap or a return leaves what is set aside alone. *)
Run == context' \in Contexts /\ UNCHANGED saved

Enter ==
  /\ context' \in Contexts
  /\ context.psw.current < context'.psw.current
  /\ saved' = Append(saved, context)

(* The step that returns also fetches the next instruction. *)
Return ==
  /\ saved # <<>>
  /\ context' = [saved[Len(saved)] EXCEPT !.pc = (@ + 2) % \h10000]
  /\ saved' = SubSeq(saved, 1, Len(saved) - 1)

Next == Run \/ Enter \/ Return

Spec == Init /\ [][Next]_<<context, saved>>
=============================================================================
