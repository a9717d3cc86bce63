----------------------------- MODULE Predication -----------------------------
(***************************************************************************)
(* What conditional execution promises.  CEX cond, #T, #F predicates the   *)
(* T + F instructions fetched after it: if the condition holds the first T *)
(* are executed and the next F only fetched, else the other way round.     *)
(* Every other instruction is executed.  A trap saves and clears the state *)
(* of the block it is taken in and the return restores it                  *)
(* (Register_Operations.c:106 and 123, Cpu.c:31): the handler's            *)
(* instructions are not predicated by it, and the rest of the block is     *)
(* when it runs.  TracedCpu implements this module for the programs named  *)
(* there.                                                                  *)
(***************************************************************************)
EXTENDS Naturals, Sequences

VARIABLES window,     \* for each instruction of the block that is left,
                      \* whether it is to be executed
          doing,      \* what is being done with the fetched instruction
          suspended   \* the windows traps have set aside, the last innermost

Copies(n, b) == [k \in 1 .. n |-> b]

(* The block without the instruction in hand. *)
Rest(w) == IF w = <<>> THEN <<>> ELSE Tail(w)

Starting(w) == IF w = <<>> \/ Head(w) THEN "running" ELSE "skipping"

Init == window = <<>> /\ doing = "nothing" /\ suspended = <<>>

Start ==
  /\ doing = "nothing"
  /\ doing' = Starting(window)
  /\ UNCHANGED <<window, suspended>>

(* The fetch that returns from a trap. *)
Resume ==
  /\ doing = "nothing" /\ suspended # <<>>
  /\ window' = suspended[Len(suspended)]
  /\ doing' = Starting(window')
  /\ suspended' = SubSeq(suspended, 1, Len(suspended) - 1)

Finish ==
  /\ doing # "nothing"
  /\ doing' = "nothing"
  /\ window' = Rest(window)
  /\ UNCHANGED suspended

FinishCex ==
  /\ doing = "running" /\ window = <<>>
  /\ doing' = "nothing"
  /\ \E T, F \in 0 .. 7, cond \in BOOLEAN :
       window' = Copies(T, cond) \o Copies(F, ~cond)
  /\ UNCHANGED suspended

(* Of the block nothing but the trap itself, if it is in one, is left to
   finish.                                                                 *)
Trap ==
  /\ doing = "running"
  /\ suspended' = Append(suspended, Rest(window))
  /\ IF window = <<>> THEN doing' = "nothing" /\ UNCHANGED window
                      ELSE UNCHANGED doing /\ window' = <<Head(window)>>

Next == Start \/ Resume \/ Finish \/ FinishCex \/ Trap

Spec == Init /\ [][Next]_<<window, doing, suspended>>
=============================================================================
