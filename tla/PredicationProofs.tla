-------------------------- MODULE PredicationProofs --------------------------
(***************************************************************************)
(* Conditional execution: for every program that executes no CEX inside    *)
(* the block of another and takes no trap before the end of one, the       *)
(* counters and loops of cpu() keep the promise of Predication; and a CPU  *)
(* asked to stop does so soon.                                             *)
(***************************************************************************)
EXTENDS CpuProofs, TracedCpu, SequenceTheorems

-----------------------------------------------------------------------------
(* The counters are zero while an instruction outside a block is under way,
   and outside the loops unless CEX_state says that a block is due; the loop
   over the second part is entered only when nothing of the first is left. *)
BlockInv ==
  /\ at \in {"fetch", "decode", "execute"} /\ block = "plain" =>
       true_count = 0 /\ false_count = 0
  /\ at \in {"fetch", "decode", "execute", "count"} =>
       /\ block = "true"  => true_count # 0
       /\ block = "false" => true_count = 0 /\ false_count # 0
  /\ at = "cex"   => block # "plain" /\ (block = "false" => true_count = 0)
  /\ at = "count" => block # "plain"
  /\ at \in {"decode", "execute"} => ~Skipped
  /\ at \in {"menu", "signal", "run_xm", "loop", "continue"} /\ CEX_state = 0 =>
       true_count = 0 /\ false_count = 0

(* The instructions other than CEX. *)
LEMMA OthersKeepCounters ==
  ASSUME execute, ~CEX
  PROVE  /\ Executed
         /\ UNCHANGED <<cond_state, true_count, false_count>>
BY DEF execute, Branch, Arithmetic, Move, Load, Store, SETPRI, SVC, SETCC, CLRCC, cex

LEMMA BlockInvInit == Init => BlockInv
BY DEF Init, BlockInv

LEMMA BlockInvStep ==
  ASSUME TypeOK, BlockInv, CexNotNested, [Next]_vars
  PROVE  BlockInv'
<1>1. CASE Dispatch \/ CexLoops \/ Continue
  BY <1>1 DEF Dispatch, CexLoops, Continue, BlockInv, TypeOK, Skipped, cex
<1>2. CASE Count
  <2>1. /\ at = "count" /\ at' = "cex" /\ UNCHANGED block
        /\ block # "true" => UNCHANGED true_count
    BY <1>2 DEF Count
  <2>2. block # "plain" /\ (block = "false" => true_count = 0)
    BY <2>1 DEF BlockInv
  <2> QED BY <2>1, <2>2 DEF BlockInv
<1>3. CASE fetch
  BY <1>3 DEF fetch, BlockInv, TypeOK, Skipped
<1>4. CASE decode
  BY <1>4 DEF decode, BlockInv, TypeOK, Skipped, cex
<1>5. CASE execute /\ ~CEX
  BY <1>5, OthersKeepCounters DEF Executed, BlockInv, TypeOK, Skipped
<1>6. CASE CEX
  BY <1>6 DEF CEX, Executed, BlockInv, CexNotNested, Skipped
<1>7. CASE Menu \/ ctrl_c \/ sigint_hdlr
  <2>1. UNCHANGED <<cex, block>>
    BY <1>7 DEF Menu, initialize_signal_handler, bind, run_xm, break_point, change_pc,
       change_registers, edit_psw_bits, ctrl_c, sigint_hdlr, machine
  <2>2. \/ /\ at \in {"menu", "signal", "run_xm"}
           /\ at' \in {"menu", "signal", "run_xm", "loop"}
        \/ UNCHANGED at
    BY <1>7 DEF Menu, initialize_signal_handler, bind, run_xm, break_point, change_pc,
       change_registers, edit_psw_bits, ctrl_c, sigint_hdlr
  <2> QED BY <2>1, <2>2 DEF BlockInv, Skipped, cex
<1>8. CASE UNCHANGED vars
  BY <1>8 DEF vars, BlockInv, Skipped, cex, shell
<1> QED
  BY <1>1, <1>2, <1>3, <1>4, <1>5, <1>6, <1>7, <1>8 DEF Next, cpu, execute

-----------------------------------------------------------------------------
(* The window as a sequence: t instructions of the first part are left and f
   of the second, for which the window says c and d.                       *)
Answer == BOOLEAN
Left(t, f, c, d) == [k \in 1 .. t + f |-> IF k <= t THEN c ELSE d]

LEMMA LeftIsSeq ==
  ASSUME NEW t \in Nat, NEW f \in Nat, NEW c \in Answer, NEW d \in Answer
  PROVE  /\ Left(t, f, c, d) \in Seq(Answer)
         /\ Len(Left(t, f, c, d)) = t + f
         /\ \A k \in 1 .. t + f : Left(t, f, c, d)[k] = IF k <= t THEN c ELSE d
<1>0. t + f \in Nat
  OBVIOUS
<1>1. Left(t, f, c, d) \in [1 .. t + f -> Answer]
  BY DEF Left
<1>2. Left(t, f, c, d) \in Seq(Answer)
  BY <1>0, <1>1, SeqDef
<1> QED
  BY <1>0, <1>1, <1>2, LenProperties DEF Left

(* The next instruction of the block, and the block after it. *)
LEMMA LeftHead ==
  ASSUME NEW t \in Nat, NEW f \in Nat, NEW c \in Answer, NEW d \in Answer, t + f # 0
  PROVE  /\ Left(t, f, c, d) # <<>>
         /\ Head(Left(t, f, c, d)) = IF t = 0 THEN d ELSE c
<1> DEFINE w == Left(t, f, c, d)
<1>1. /\ w \in Seq(Answer) /\ Len(w) = t + f
      /\ \A k \in 1 .. t + f : w[k] = IF k <= t THEN c ELSE d
  BY LeftIsSeq
<1> HIDE DEF w
<1>2. w # <<>>
  BY <1>1, EmptySeq
<1>3. Head(w) = w[1] /\ 1 \in 1 .. t + f
  BY <1>1, <1>2
<1> QED BY <1>1, <1>2, <1>3 DEF w

LEMMA LeftTail ==
  ASSUME NEW t \in Nat, NEW f \in Nat, NEW c \in Answer, NEW d \in Answer,
         NEW u \in Nat, NEW g \in Nat
  PROVE  (t = u + 1 /\ f = g) \/ (t = 0 /\ u = 0 /\ f = g + 1) =>
           Tail(Left(t, f, c, d)) = Left(u, g, c, d)
<1> DEFINE w == Left(t, f, c, d)
           v == Left(u, g, c, d)
<1>1. /\ w \in Seq(Answer) /\ Len(w) = t + f
      /\ \A k \in 1 .. t + f : w[k] = IF k <= t THEN c ELSE d
  BY LeftIsSeq
<1>2. /\ v \in Seq(Answer) /\ Len(v) = u + g
      /\ \A k \in 1 .. u + g : v[k] = IF k <= u THEN c ELSE d
  BY LeftIsSeq
<1> HIDE DEF w, v
<1> SUFFICES ASSUME (t = u + 1 /\ f = g) \/ (t = 0 /\ u = 0 /\ f = g + 1)
             PROVE  Tail(w) = v
  BY DEF w, v
<1>3. t + f = u + g + 1 /\ t + f # 0
  OBVIOUS
<1>4. w # <<>>
  BY <1>1, <1>3, EmptySeq
<1>5. /\ Tail(w) \in Seq(Answer) /\ Len(Tail(w)) = u + g
      /\ \A k \in 1 .. u + g : Tail(w)[k] = w[k + 1]
  BY <1>1, <1>3, <1>4, HeadTailProperties
<1>6. ASSUME NEW k \in 1 .. u + g PROVE Tail(w)[k] = v[k]
  <2>1. k + 1 \in 1 .. t + f
    BY <1>3
  <2>2. Tail(w)[k] = IF k + 1 <= t THEN c ELSE d
    BY <1>1, <1>5, <2>1
  <2>3. v[k] = IF k <= u THEN c ELSE d
    BY <1>2
  <2>4. k + 1 <= t <=> k <= u
    OBVIOUS
  <2>5. CASE k <= u
    BY <2>2, <2>3, <2>4, <2>5
  <2>6. CASE ~(k <= u)
    BY <2>2, <2>3, <2>4, <2>6
  <2> QED BY <2>5, <2>6
<1> QED
  BY <1>2, <1>5, <1>6, SeqEqual

LEMMA CopiesIsSeq ==
  ASSUME NEW n \in 0 .. 7, NEW b \in Answer
  PROVE  /\ Blocks!Copies(n, b) \in Seq(Answer)
         /\ Len(Blocks!Copies(n, b)) = n
         /\ \A k \in 1 .. n : Blocks!Copies(n, b)[k] = b
<1>1. n \in Nat /\ Blocks!Copies(n, b) \in [1 .. n -> Answer]
  BY DEF Blocks!Copies
<1>2. Blocks!Copies(n, b) \in Seq(Answer)
  BY <1>1, SeqDef
<1> QED
  BY <1>1, <1>2, LenProperties DEF Blocks!Copies

(* The block a CEX opens. *)
LEMMA LeftOpens ==
  ASSUME NEW t \in 0 .. 7, NEW f \in 0 .. 7, NEW c \in Answer, NEW d \in Answer
  PROVE  Left(t, f, c, d) = Blocks!Copies(t, c) \o Blocks!Copies(f, d)
<1> DEFINE T == Blocks!Copies(t, c)
           F == Blocks!Copies(f, d)
           w == Left(t, f, c, d)
<1>1. /\ T \in Seq(Answer) /\ Len(T) = t
      /\ \A k \in 1 .. t : T[k] = c
  BY CopiesIsSeq
<1>2. /\ F \in Seq(Answer) /\ Len(F) = f
      /\ \A k \in 1 .. f : F[k] = d
  BY CopiesIsSeq
<1>3. /\ w \in Seq(Answer) /\ Len(w) = t + f
      /\ \A k \in 1 .. t + f : w[k] = IF k <= t THEN c ELSE d
  <2>1. t \in Nat /\ f \in Nat
    OBVIOUS
  <2> QED BY <2>1, LeftIsSeq
<1> HIDE DEF T, F, w
<1>4. /\ T \o F \in Seq(Answer)
      /\ Len(T \o F) = t + f
      /\ \A k \in 1 .. t + f : (T \o F)[k] = IF k <= t THEN T[k] ELSE F[k - t]
  BY <1>1, <1>2, ConcatProperties
<1>5. \A k \in 1 .. t + f : w[k] = (T \o F)[k]
  <2> SUFFICES ASSUME NEW k \in 1 .. t + f PROVE w[k] = (T \o F)[k]
    OBVIOUS
  <2>1. CASE k <= t
    BY <1>1, <1>3, <1>4, <2>1
  <2>2. CASE ~(k <= t)
    <3>1. k - t \in 1 .. f
      BY <2>2
    <3> QED BY <1>2, <1>3, <1>4, <2>2, <3>1
  <2> QED BY <2>1, <2>2
<1>6. w = T \o F
  BY <1>3, <1>4, <1>5, SeqEqual
<1> QED BY <1>6 DEF T, F, w

LEMMA LeftEmpty == \A c, d : Left(0, 0, c, d) = <<>>
BY DEF Left

-----------------------------------------------------------------------------
(* Every step of the processor is a step of Predication or leaves its
   variables alone.                                                        *)

LEMMA CounterTypes ==
  ASSUME TypeOK
  PROVE  /\ true_count \in Nat /\ true_count < 65536
         /\ false_count \in Nat /\ false_count < 65536
         /\ cond_state \in Answer /\ (~cond_state) \in Answer
         /\ block \in {"plain", "true", "false"}
<1>1. /\ true_count \in Word16 /\ false_count \in Word16
      /\ cond_state \in BOOLEAN /\ block \in {"plain", "true", "false"}
  BY DEF TypeOK
<1> QED
  BY <1>1, SMT DEF Word16, Answer

LEMMA FirstPartSteps ==
  ASSUME TypeOK, true_count # 0
  PROVE  LET w == Left(true_count, false_count, cond_state, ~cond_state)
         IN  /\ w # <<>> /\ Head(w) = cond_state
             /\ Tail(w) = Left(true_count - 1, false_count, cond_state, ~cond_state)
<1> DEFINE t == true_count  f == false_count  c == cond_state  d == ~cond_state
<1>1. t \in Nat /\ f \in Nat /\ c \in Answer /\ d \in Answer /\ t # 0
  BY CounterTypes
<1> HIDE DEF t, f, c, d
<1>2. PICK u \in Nat : t = u + 1
  BY <1>1
<1>3. /\ Left(t, f, c, d) # <<>>
      /\ Head(Left(t, f, c, d)) = IF t = 0 THEN d ELSE c
  <2>1. t + f # 0
    BY <1>1
  <2> QED BY <1>1, <2>1, LeftHead
<1>4. Tail(Left(t, f, c, d)) = Left(u, f, c, d)
  BY <1>1, <1>2, LeftTail
<1>5. t - 1 = u
  BY <1>1, <1>2
<1> QED BY <1>1, <1>3, <1>4, <1>5 DEF t, f, c, d

LEMMA SecondPartSteps ==
  ASSUME TypeOK, true_count = 0, false_count # 0
  PROVE  LET w == Left(true_count, false_count, cond_state, ~cond_state)
         IN  /\ w # <<>> /\ Head(w) = ~cond_state
             /\ Tail(w) = Left(true_count, false_count - 1, cond_state, ~cond_state)
<1> DEFINE t == true_count  f == false_count  c == cond_state  d == ~cond_state
<1>1. /\ t \in Nat /\ f \in Nat /\ c \in Answer /\ d \in Answer
      /\ t = 0 /\ f # 0
  BY CounterTypes
<1> HIDE DEF t, f, c, d
<1>2. PICK u \in Nat : f = u + 1
  BY <1>1
<1>3. /\ Left(t, f, c, d) # <<>>
      /\ Head(Left(t, f, c, d)) = IF t = 0 THEN d ELSE c
  <2>1. t + f # 0
    BY <1>1
  <2> QED BY <1>1, <2>1, LeftHead
<1>4. Tail(Left(t, f, c, d)) = Left(t, u, c, d)
  BY <1>1, <1>2, LeftTail
<1>5. f - 1 = u
  BY <1>1, <1>2
<1> QED BY <1>1, <1>3, <1>4, <1>5 DEF t, f, c, d

LEMMA WindowIsLeft ==
  Window = Left(true_count, false_count, cond_state, ~cond_state)
BY DEF Window, Left

(* What the trace does in a step, and when it does nothing. *)
LEMMA TraceCases ==
  ASSUME [Trace]_<<vars, suspended>>
  PROVE  \/ /\ at' # at /\ Trapping
            /\ suspended' = Append(suspended, Blocks!Rest(Window))
         \/ /\ at' # at /\ Resuming /\ suspended # <<>>
            /\ suspended' = SubSeq(suspended, 1, Len(suspended) - 1)
         \/ /\ at' = at \/ (~Trapping /\ (Resuming => suspended = <<>>))
            /\ UNCHANGED suspended
BY DEF Trace, vars

LEMMA SuspendedStands ==
  ASSUME [Trace]_<<vars, suspended>>, at' = at \/ (~Trapping /\ ~Resuming)
  PROVE  UNCHANGED suspended
BY TraceCases

(* A block of at most one instruction is over with it. *)
LEMMA AtMostOne ==
  ASSUME NEW s \in Seq(Answer), Len(s) <= 1
  PROVE  /\ Blocks!Rest(s) = <<>>
         /\ s # <<>> => s = <<Head(s)>>
<1>1. CASE s = <<>>
  BY <1>1 DEF Blocks!Rest
<1>2. CASE s # <<>>
  <2>1. Len(s) = 1
    BY <1>2, EmptySeq, LenProperties
  <2>2. Head(s) = s[1] /\ Head(s) \in Answer
    BY <1>2, HeadTailProperties
  <2>3. Tail(s) \in Seq(Answer) /\ Len(Tail(s)) = 0
    BY <1>2, <2>1, HeadTailProperties
  <2>4. Tail(s) = <<>>
    BY <2>3, EmptySeq
  <2>5. s = <<Head(s)>>
    <3>1. <<Head(s)>> \in Seq(Answer) /\ Len(<<Head(s)>>) = 1 /\ <<Head(s)>>[1] = s[1]
      BY <2>2
    <3>2. \A i \in 1 .. Len(s) : s[i] = <<Head(s)>>[i]
      BY <2>1, <3>1
    <3> QED BY <2>1, <3>1, <3>2, SeqEqual
  <2> QED BY <1>2, <2>4, <2>5 DEF Blocks!Rest
<1> QED BY <1>1, <1>2

LEMMA WindowAtTrap ==
  ASSUME TypeOK, TrapsOutsideBlocks, Trapping
  PROVE  /\ Blocks!Rest(Window) = <<>>
         /\ Window # <<>> => Window = <<Head(Window)>>
<1>1. Window \in Seq(Answer)
  BY CounterTypes, WindowIsLeft, LeftIsSeq
<1>2. Len(Window) <= 1
  BY DEF TrapsOutsideBlocks
<1> QED BY <1>1, <1>2, AtMostOne

(* The blocks set aside by traps at their end are over. *)
AllDone == suspended \in Seq({<<>>})

LEMMA AllDoneStep ==
  ASSUME TypeOK, AllDone, TrapsOutsideBlocks, [Trace]_<<vars, suspended>>
  PROVE  AllDone'
<1>0. suspended \in Seq({<<>>})
  BY DEF AllDone
<1>1. CASE Trapping /\ suspended' = Append(suspended, Blocks!Rest(Window))
  <2>1. Blocks!Rest(Window) \in {<<>>}
    BY <1>1, WindowAtTrap
  <2> QED BY <1>0, <1>1, <2>1, AppendProperties DEF AllDone
<1>2. CASE /\ suspended # <<>>
           /\ suspended' = SubSeq(suspended, 1, Len(suspended) - 1)
  <2>1. Len(suspended) \in Nat \ {0}
    BY <1>0, <1>2, EmptySeq, LenProperties
  <2>2. \A i \in 1 .. Len(suspended) - 1 : suspended[i] \in {<<>>}
    BY <1>0, <2>1, ElementOfSeq
  <2>3. SubSeq(suspended, 1, Len(suspended) - 1) \in Seq({<<>>})
    BY <1>0, <2>1, <2>2, SubSeqProperties
  <2> QED BY <1>2, <2>3 DEF AllDone
<1>3. CASE UNCHANGED suspended
  BY <1>0, <1>3 DEF AllDone
<1> QED BY <1>1, <1>2, <1>3, TraceCases

(* A fetch begins an instruction of the block, or returns to a block that is
   over.                                                                   *)
LEMMA FetchStarts ==
  ASSUME TypeOK, BlockInv, AllDone, TrapsOutsideBlocks, fetch,
         [Trace]_<<vars, suspended>>
  PROVE  Blocks!Start \/ Blocks!Resume
<1>1. /\ true_count \in Nat /\ false_count \in Nat
      /\ cond_state \in Answer /\ (~cond_state) \in Answer
      /\ block \in {"plain", "true", "false"}
  BY CounterTypes
<1>2. /\ at = "fetch" /\ at' = IF Skipped THEN "count" ELSE "decode"
      /\ UNCHANGED <<cond_state, true_count, false_count, block>>
  BY DEF fetch
<1>3. Doing = "nothing" /\ Doing' = IF Skipped THEN "skipping" ELSE "running"
  BY <1>2 DEF Doing, Skipped
<1>4. Window' = Window
  BY <1>2 DEF Window
<1>5. Window = Left(true_count, false_count, cond_state, ~cond_state)
  BY WindowIsLeft
<1>6. Skipped <=> ~(Window = <<>> \/ Head(Window))
  <2>1. CASE block = "plain"
    <3>1. Window = <<>>
      BY <1>2, <1>5, <2>1, LeftEmpty DEF BlockInv
    <3> QED BY <2>1, <3>1 DEF Skipped
  <2>2. CASE block = "true"
    <3>1. Window # <<>> /\ Head(Window) = cond_state
      BY <1>2, <1>5, <2>2, FirstPartSteps DEF BlockInv
    <3> QED BY <2>2, <3>1 DEF Skipped
  <2>3. CASE block = "false"
    <3>1. Window # <<>> /\ Head(Window) = ~cond_state
      BY <1>2, <1>5, <2>3, SecondPartSteps DEF BlockInv
    <3> QED BY <1>1, <2>3, <3>1 DEF Skipped
  <2> QED BY <1>1, <2>1, <2>2, <2>3
<1>7. Doing' = Blocks!Starting(Window)
  BY <1>3, <1>6 DEF Blocks!Starting
<1>8. at' # at /\ ~Trapping
  BY <1>2 DEF Trapping
<1>9. CASE Resuming /\ suspended # <<>>
  <2>1. suspended' = SubSeq(suspended, 1, Len(suspended) - 1)
    BY <1>8, <1>9, TraceCases
  <2>2. Window = <<>>
    BY <1>9 DEF TrapsOutsideBlocks
  <2>3. suspended[Len(suspended)] = <<>>
    <3>1. Len(suspended) \in 1 .. Len(suspended)
      BY <1>9, EmptySeq, LenProperties DEF AllDone
    <3> QED BY <3>1, ElementOfSeq DEF AllDone
  <2> QED
    BY <1>3, <1>4, <1>7, <1>9, <2>1, <2>2, <2>3 DEF Blocks!Resume
<1>10. CASE ~(Resuming /\ suspended # <<>>)
  <2>1. UNCHANGED suspended
    BY <1>8, <1>10, TraceCases
  <2> QED BY <1>3, <1>4, <1>7, <2>1 DEF Blocks!Start
<1> QED BY <1>9, <1>10

(* Count takes the instruction from the part it belongs to. *)
LEMMA CountFinishes ==
  ASSUME TypeOK, BlockInv, Count, [Trace]_<<vars, suspended>>
  PROVE  Blocks!Finish
<1>1. /\ at = "count" /\ at' = "cex" /\ UNCHANGED cond_state
      /\ IF block = "true"
         THEN true_count' = Plus(true_count, \hFFFF) /\ UNCHANGED false_count
         ELSE false_count' = Plus(false_count, \hFFFF) /\ UNCHANGED true_count
  BY DEF Count
<1>2. Doing # "nothing" /\ Doing' = "nothing"
  BY <1>1 DEF Doing
<1>3. \A n \in Nat : n # 0 /\ n < 65536 => Plus(n, \hFFFF) = n - 1
  BY SMT DEF Plus
<1>4. /\ Window = Left(true_count, false_count, cond_state, ~cond_state)
      /\ Window' = Left(true_count', false_count', cond_state, ~cond_state)
  BY <1>1 DEF Window, Left
<1>5. Window # <<>> /\ Window' = Tail(Window)
  <2>1. CASE block = "true"
    <3>1. true_count # 0
      BY <1>1, <2>1 DEF BlockInv
    <3>2. true_count' = true_count - 1 /\ false_count' = false_count
      BY <1>1, <1>3, <2>1, <3>1, CounterTypes
    <3> QED BY <1>4, <3>1, <3>2, FirstPartSteps
  <2>2. CASE block = "false"
    <3>1. true_count = 0 /\ false_count # 0
      BY <1>1, <2>2 DEF BlockInv
    <3>2. false_count' = false_count - 1 /\ true_count' = true_count
      BY <1>1, <1>3, <2>2, <3>1, CounterTypes
    <3> QED BY <1>4, <3>1, <3>2, SecondPartSteps
  <2>3. block # "plain"
    BY <1>1 DEF BlockInv
  <2> QED BY <2>1, <2>2, <2>3, CounterTypes
<1>6. UNCHANGED suspended
  BY <1>1, SuspendedStands DEF Trapping, Resuming
<1> QED
  BY <1>2, <1>5, <1>6 DEF Blocks!Finish, Blocks!Rest

(* An instruction outside a block ends at once, one in a block when it has
   been counted, unless it is a trap, at the end of its block.             *)
LEMMA ExecuteFinishes ==
  ASSUME TypeOK, BlockInv, TrapsOutsideBlocks, execute, ~CEX,
         [Trace]_<<vars, suspended>>
  PROVE  Blocks!Finish \/ Blocks!Trap \/ UNCHANGED <<Window, Doing, suspended>>
<1>1. /\ at = "execute" /\ at' = IF block = "plain" THEN "continue" ELSE "count"
      /\ UNCHANGED <<block, cond_state, true_count, false_count>>
  BY OthersKeepCounters DEF Executed
<1>2. UNCHANGED Window
  BY <1>1 DEF Window
<1>3. Window = Left(true_count, false_count, cond_state, ~cond_state)
  BY WindowIsLeft
<1>4. /\ Trapping => suspended' = Append(suspended, Blocks!Rest(Window))
      /\ ~Trapping => UNCHANGED suspended
  BY <1>1, TraceCases DEF Resuming
<1>5. Doing = "running"
  BY <1>1 DEF Doing
<1>6. CASE block = "plain"
  <2>1. Doing' = "nothing"
    BY <1>1, <1>6 DEF Doing
  <2>2. Window = <<>>
    BY <1>1, <1>3, <1>6, LeftEmpty DEF BlockInv
  <2> QED
    BY <1>2, <1>4, <1>5, <2>1, <2>2 DEF Blocks!Finish, Blocks!Trap, Blocks!Rest
<1>7. CASE block # "plain"
  <2>1. ~Skipped /\ ~Skipped'
    BY <1>1 DEF BlockInv, Skipped
  <2>2. UNCHANGED Doing
    BY <1>1, <1>7, <2>1 DEF Doing
  <2>3. Window # <<>>
    <3>1. CASE block = "true"
      BY <1>1, <1>3, <3>1, FirstPartSteps DEF BlockInv
    <3>2. CASE block = "false"
      BY <1>1, <1>3, <3>2, SecondPartSteps DEF BlockInv
    <3> QED BY <1>7, <3>1, <3>2, CounterTypes
  <2>4. CASE Trapping
    <3>1. Window = <<Head(Window)>>
      BY <2>3, <2>4, WindowAtTrap
    <3> QED
      BY <1>2, <1>4, <1>5, <2>2, <2>3, <2>4, <3>1 DEF Blocks!Trap
  <2> QED BY <1>2, <1>4, <2>2, <2>4
<1> QED BY <1>6, <1>7

LEMMA CEXFinishes ==
  ASSUME IInv, BlockInv, CexNotNested, CEX, [Trace]_<<vars, suspended>>
  PROVE  Blocks!FinishCex
<1>1. /\ at = "execute" /\ block = "plain" /\ at' = "continue"
      /\ true_count' = B3_5(IR) /\ false_count' = B0_2(IR)
      /\ cond_state' = Condition(B6_9(IR), word_psw)
  BY DEF CEX, Executed, CexNotNested
<1>2. IR \in Word16
  BY DEF IInv, TypeOK
<1>3. /\ true_count' \in 0 .. 7 /\ false_count' \in 0 .. 7
      /\ cond_state' \in BOOLEAN /\ cond_state' \in Answer /\ (~cond_state') \in Answer
  BY <1>1, <1>2, FieldType, ConditionType DEF Answer
<1>4. Doing = "running" /\ Doing' = "nothing"
  BY <1>1 DEF Doing
<1>5. Window = <<>>
  <2>1. true_count = 0 /\ false_count = 0
    BY <1>1 DEF BlockInv
  <2>2. Window = Left(true_count, false_count, cond_state, ~cond_state)
    BY DEF Window, Left
  <2> QED BY <2>1, <2>2, LeftEmpty
<1>6. Window' = Left(true_count', false_count', cond_state', ~cond_state')
  BY DEF Window, Left
<1>7. Window' = Blocks!Copies(true_count', cond_state')
                  \o Blocks!Copies(false_count', ~cond_state')
  BY <1>3, <1>6, LeftOpens
<1>8. UNCHANGED suspended
  BY <1>1, SuspendedStands DEF CEX, Trapping, Resuming
<1> QED
  BY <1>3, <1>4, <1>5, <1>7, <1>8 DEF Blocks!FinishCex

LEMMA BlocksInit == Init /\ suspended = <<>> => Blocks!Init
<1> SUFFICES ASSUME Init, suspended = <<>> PROVE Blocks!Init
  OBVIOUS
<1>1. true_count = 0 /\ false_count = 0 /\ at = "menu"
  BY DEF Init
<1> QED
  BY <1>1, WindowIsLeft, LeftEmpty DEF Blocks!Init, Doing

LEMMA BlocksStep ==
  ASSUME IInv, BlockInv, AllDone, CexNotNested, TrapsOutsideBlocks, [Next]_vars,
         [Trace]_<<vars, suspended>>
  PROVE  [Blocks!Next]_<<Window, Doing, suspended>>
<1>0. TypeOK
  BY DEF IInv
<1>1. CASE Dispatch \/ CexLoops \/ Continue
  <2>1. UNCHANGED <<Window, Doing>> /\ at \in {"loop", "cex", "continue"}
    BY <1>1 DEF Dispatch, CexLoops, Continue, Window, Doing, cex
  <2> QED BY <2>1, SuspendedStands DEF Trapping, Resuming
<1>2. CASE Count
  BY <1>0, <1>2, CountFinishes DEF Blocks!Next
<1>3. CASE fetch
  BY <1>0, <1>3, FetchStarts DEF Blocks!Next
<1>4. CASE decode
  <2>1. UNCHANGED <<Window, Doing>> /\ at = "decode"
    BY <1>4 DEF decode, Window, Doing, cex
  <2> QED BY <2>1, SuspendedStands DEF Trapping, Resuming
<1>5. CASE execute /\ ~CEX
  BY <1>0, <1>5, ExecuteFinishes DEF Blocks!Next
<1>6. CASE CEX
  BY <1>6, CEXFinishes DEF Blocks!Next
<1>7. CASE Menu \/ ctrl_c \/ sigint_hdlr
  <2>1. UNCHANGED <<cex, block>>
    BY <1>7 DEF Menu, initialize_signal_handler, bind, run_xm, break_point, change_pc,
       change_registers, edit_psw_bits, ctrl_c, sigint_hdlr, machine
  <2>2. \/ /\ at \in {"menu", "signal", "run_xm"}
           /\ at' \in {"menu", "signal", "run_xm", "loop"}
        \/ UNCHANGED at
    BY <1>7 DEF Menu, initialize_signal_handler, bind, run_xm, break_point, change_pc,
       change_registers, edit_psw_bits, ctrl_c, sigint_hdlr
  <2>3. UNCHANGED <<Window, Doing>>
    BY <2>1, <2>2 DEF Window, Doing, Skipped, cex
  <2>4. UNCHANGED suspended
    BY <2>2, SuspendedStands DEF Trapping, Resuming
  <2> QED BY <2>3, <2>4
<1>8. CASE UNCHANGED vars
  <2>1. UNCHANGED <<Window, Doing, at>>
    BY <1>8 DEF vars, Window, Doing, Skipped, cex, shell
  <2> QED BY <2>1, SuspendedStands
<1> QED
  BY <1>1, <1>2, <1>3, <1>4, <1>5, <1>6, <1>7, <1>8 DEF Next, cpu, execute

(* As long as no CEX is executed in the block of another and no trap is taken
   before the end of one, the instructions after a CEX are executed and
   skipped as it names them, whatever else the program and the user do.    *)
THEOREM PredicationIsImplemented ==
  Spec /\ Traced /\ []CexNotNested /\ []TrapsOutsideBlocks => ImplementsPredication
<1>1. IInv => TypeOK
  BY DEF IInv
<1>2. IInv /\ BlockInv /\ CexNotNested /\ [Next]_vars => BlockInv'
  BY <1>1, BlockInvStep
<1>3. suspended = <<>> => AllDone
  BY EmptySeq DEF AllDone
<1>4. IInv /\ AllDone /\ TrapsOutsideBlocks /\ [Trace]_<<vars, suspended>> => AllDone'
  BY <1>1, AllDoneStep
<1>5. IInv /\ BlockInv /\ AllDone /\ CexNotNested /\ TrapsOutsideBlocks
        /\ [Next]_vars /\ [Trace]_<<vars, suspended>>
        => [Blocks!Next]_<<Window, Doing, suspended>>
  BY BlocksStep
<1> QED
  BY InitInv, InvIsInductive, BlockInvInit, BlocksInit, <1>2, <1>3, <1>4, <1>5, PTL
  DEF Spec, Traced, ImplementsPredication, Blocks!Spec

-----------------------------------------------------------------------------
(* The end of a pass of cpu().  The counters come from fields of three bits
   and are never decremented from 0, so that they stay below 8.            *)

SmallCounts == true_count \in 0 .. 7 /\ false_count \in 0 .. 7

LEMMA SmallCountsInit == Init => SmallCounts
BY DEF Init, SmallCounts

(* One round of the inner loops takes one from the counter it is about. *)
LEMMA CountTakesOne ==
  ASSUME TypeOK, BlockInv, Count
  PROVE  \/ /\ block = "true" /\ true_count # 0
            /\ true_count' = true_count - 1 /\ UNCHANGED false_count
         \/ /\ block = "false" /\ true_count = 0 /\ false_count # 0
            /\ false_count' = false_count - 1 /\ UNCHANGED true_count
<1>1. /\ at = "count"
      /\ IF block = "true"
         THEN true_count' = Plus(true_count, \hFFFF) /\ UNCHANGED false_count
         ELSE false_count' = Plus(false_count, \hFFFF) /\ UNCHANGED true_count
  BY DEF Count
<1>2. \A n \in Nat : n # 0 /\ n < 65536 => Plus(n, \hFFFF) = n - 1
  BY SMT DEF Plus
<1>3. block # "plain"
  BY <1>1 DEF BlockInv
<1>4. CASE block = "true"
  <2>1. true_count # 0
    BY <1>1, <1>4 DEF BlockInv
  <2> QED BY <1>1, <1>2, <1>4, <2>1, CounterTypes
<1>5. CASE block = "false"
  <2>1. true_count = 0 /\ false_count # 0
    BY <1>1, <1>5 DEF BlockInv
  <2> QED BY <1>1, <1>2, <1>5, <2>1, CounterTypes
<1> QED BY <1>3, <1>4, <1>5, CounterTypes

(* What is neither CEX nor Count leaves the counters alone. *)
LEMMA CountersStand ==
  ASSUME [Next]_vars, ~Count, ~CEX
  PROVE  UNCHANGED <<true_count, false_count>>
<1>1. CASE Dispatch \/ CexLoops \/ Continue \/ fetch \/ decode
  BY <1>1 DEF Dispatch, CexLoops, Continue, fetch, decode, cex
<1>2. CASE execute
  BY <1>2, OthersKeepCounters
<1>3. CASE Menu \/ ctrl_c \/ sigint_hdlr
  BY <1>3 DEF Menu, initialize_signal_handler, bind, run_xm, break_point, change_pc,
     change_registers, edit_psw_bits, ctrl_c, sigint_hdlr, machine, cex
<1>4. CASE UNCHANGED vars
  BY <1>4 DEF vars, cex
<1> QED BY <1>1, <1>2, <1>3, <1>4 DEF Next, cpu

LEMMA SmallCountsStep ==
  ASSUME IInv, BlockInv, SmallCounts, [Next]_vars
  PROVE  SmallCounts'
<1>1. CASE Count
  <2>1. TypeOK
    BY DEF IInv
  <2> QED BY <1>1, <2>1, CountTakesOne DEF SmallCounts
<1>2. CASE CEX
  <2>1. IR \in Word16
    BY DEF IInv, TypeOK
  <2> QED BY <1>2, <2>1, FieldType DEF CEX, SmallCounts
<1>3. CASE ~Count /\ ~CEX
  BY <1>3, CountersStand DEF SmallCounts
<1> QED BY <1>1, <1>2, <1>3

(* Every step of cpu() leads on in its pass, and from the end of the pass to
   the menu if the CPU has been asked to stop.                             *)
LEMMA StepsLeftFalls ==
  ASSUME TypeOK, BlockInv, SmallCounts, CexNotNested, [Next]_vars, Running, Asked
  PROVE  /\ StepsLeft \in 1 .. 6 * 14 + 5
         /\ IF UNCHANGED <<at, block>> THEN UNCHANGED StepsLeft
            ELSE StepsLeft' < StepsLeft
<1> DEFINE r == true_count + false_count
<1>1. /\ true_count \in 0 .. 7 /\ false_count \in 0 .. 7 /\ r \in 0 .. 14
      /\ block \in {"plain", "true", "false"}
  BY DEF SmallCounts, TypeOK
<1>2. at \in {"fetch", "decode", "execute", "count"} /\ block # "plain" => r # 0
  BY <1>1 DEF BlockInv
<1>3. at = "count" => block # "plain"
  BY DEF BlockInv
<1>4. StepsLeft \in 1 .. 6 * 14 + 5
  BY <1>1, <1>2, <1>3 DEF StepsLeft, Running
<1>5. CASE Dispatch
  <2>1. /\ at = "loop" /\ UNCHANGED <<true_count, false_count>>
        /\ \/ at' = "fetch" /\ block' = "plain"
           \/ at' = "cex" /\ block' = "true"
    BY <1>5 DEF Dispatch, cex
  <2> QED BY <1>1, <1>4, <2>1 DEF StepsLeft
<1>6. CASE CexLoops
  <2>1. /\ at = "cex" /\ UNCHANGED <<true_count, false_count>>
        /\ \/ at' = "fetch" /\ UNCHANGED block /\ block # "plain" /\ r # 0
           \/ at' = "cex" /\ block = "true" /\ block' = "false"
           \/ at' = "continue"
    BY <1>1, <1>6 DEF CexLoops, cex
  <2> QED BY <1>1, <1>4, <2>1 DEF StepsLeft
<1>7. CASE Count
  <2>1. at = "count" /\ at' = "cex" /\ UNCHANGED block
    BY <1>7 DEF Count
  <2>2. true_count' + false_count' = r - 1
    BY <1>1, <1>7, CountTakesOne
  <2>3. StepsLeft = 6 * r - 2
    BY <1>1, <1>3, <2>1 DEF StepsLeft
  <2>4. StepsLeft' <= 6 * (r - 1) + 3
    BY <1>1, <2>1, <2>2 DEF StepsLeft
  <2>5. StepsLeft' \in Int
    BY <1>1, <2>1, <2>2 DEF StepsLeft
  <2> QED BY <1>1, <1>4, <2>1, <2>3, <2>4, <2>5
<1>8. CASE Continue
  <2>1. at = "continue" /\ at' = "menu"
    BY <1>8 DEF Continue, Goes, Asked
  <2> QED BY <1>4, <2>1 DEF StepsLeft
<1>9. CASE fetch \/ decode
  <2>1. /\ UNCHANGED <<true_count, false_count, block>>
        /\ \/ at = "fetch" /\ at' = "decode"
           \/ at = "fetch" /\ at' = "count" /\ block # "plain"
           \/ at = "decode" /\ at' = "execute"
    BY <1>9 DEF fetch, decode, cex, Skipped
  <2> QED BY <1>1, <1>4, <2>1 DEF StepsLeft
<1>10. CASE execute /\ ~CEX
  <2>1. /\ UNCHANGED <<true_count, false_count, block>> /\ at = "execute"
        /\ at' = IF block = "plain" THEN "continue" ELSE "count"
    BY <1>10, OthersKeepCounters DEF Executed
  <2> QED BY <1>1, <1>4, <2>1 DEF StepsLeft
<1>11. CASE CEX
  <2>1. at = "execute" /\ block = "plain" /\ at' = "continue" /\ UNCHANGED block
    BY <1>11 DEF CEX, Executed, CexNotNested
  <2> QED BY <1>4, <2>1 DEF StepsLeft
<1>12. CASE Menu \/ ctrl_c \/ sigint_hdlr \/ UNCHANGED vars
  <2>1. ~Menu
    BY DEF Running, Menu, initialize_signal_handler, bind, run_xm, break_point,
       change_pc, change_registers, edit_psw_bits
  <2>2. UNCHANGED <<true_count, false_count, at, block>>
    BY <1>12, <2>1 DEF ctrl_c, sigint_hdlr, machine, vars, cex, shell
  <2> QED BY <1>4, <2>2 DEF StepsLeft
<1> QED
  BY <1>4, <1>5, <1>6, <1>7, <1>8, <1>9, <1>10, <1>11, <1>12 DEF Next, cpu

(* As long as no CEX is executed in the block of another, a CPU asked to stop
   is at the menu after at most fourteen more instructions, whatever the
   program does in them and whenever ^C came.                              *)
THEOREM CpuStopsSoon == Spec /\ []CexNotNested => StopsSoon
<1>1. IInv => TypeOK
  BY DEF IInv
<1>2. IInv /\ BlockInv /\ SmallCounts /\ CexNotNested /\ [Next]_vars
        => BlockInv' /\ SmallCounts'
  BY <1>1, BlockInvStep, SmallCountsStep
<1>3. IInv /\ BlockInv /\ SmallCounts /\ CexNotNested /\ [Next]_vars =>
        [Running /\ Asked =>
           /\ StepsLeft \in 1 .. 6 * 14 + 5
           /\ IF UNCHANGED <<at, block>> THEN UNCHANGED StepsLeft
              ELSE StepsLeft' < StepsLeft]_vars
  BY <1>1, StepsLeftFalls
<1> QED
  BY InitInv, InvIsInductive, BlockInvInit, SmallCountsInit, <1>2, <1>3, PTL
  DEF Spec, StopsSoon
=============================================================================
