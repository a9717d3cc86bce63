--------------------------------- MODULE Cpu ---------------------------------
(***************************************************************************)
(* The processor of the XM-23 emulator (Cpu.c, Register_Operations.c and   *)
(* Branch_decode_exectue.c) with the parts of the debugger that start and  *)
(* stop it (Debugger.c, Control C software.c).                             *)
(*                                                                         *)
(* cpu() is one thread: at says where in cpu() it stands, block which of   *)
(* its three loops fetched the current instruction.  Windows runs the      *)
(* SIGINT handler in a thread of its own, at handler.  Memory is the flat  *)
(* one of FlatMemory, which is what the caches implement; it is kept as    *)
(* the bytes that have been loaded or written, every other byte being 0.   *)
(***************************************************************************)
EXTENDS Decode, Alu, ByteMemory

CONSTANTS
  Programs,     \* what the loader may leave: [memory, entry] records
  Breakpoints,  \* the breakpoints the user enters; 0 means none
  Entries,      \* the PC values the user enters
  PswWords,     \* the PSWs the user sets with the PSW editor
  RegisterEdits,\* the <<number, value>> pairs the user enters for a register
  MaxRuns       \* how often the user starts the CPU (bound of the model)

ASSUME CpuAssumption ==
  /\ \A p \in Programs : IsMemory(p.memory) /\ p.entry \in Word16
  /\ Breakpoints \subseteq Word16
  /\ Entries \subseteq Word16
  /\ PswWords \subseteq Word16
  /\ RegisterEdits \subseteq (0 .. 15) \X Word16
  /\ MaxRuns \in Nat

VARIABLES
  memory,             \* primary memory
  regfile, constants, \* R0 to R7 and the constants, regfile[0] and [1]
  word_psw,           \* the program status word
  IR, MDR, MDR_prev,
  instruction_type, table_index, operands,    \* what decode() leaves
  CEX_state, cond_state, true_count, false_count,
  double_fault,
  ctrl_c_fnd,
  sigint, handler,    \* what ^C does or has done, where the handler stands
  breakpoint,
  at, block,          \* where cpu() stands
  runs                \* how often it has been started

decoded == <<instruction_type, table_index, operands>>
cex     == <<CEX_state, cond_state, true_count, false_count>>
signals == <<sigint, handler>>
shell   == <<ctrl_c_fnd, signals, constants, breakpoint, runs>>
vars == <<memory, regfile, word_psw, IR, MDR, MDR_prev, decoded, cex,
          double_fault, shell, at, block>>

LR == 5
SP == 6
PC == 7
Register == 0 .. 7

(* regfile[1]: the constants an arithmetic instruction names instead of a
   source register.                                                        *)
Constants == [i \in Register |-> <<0, 1, 2, 4, 8, 16, 32, \hFFFF>>[i + 1]]

(* struct psw_bits, and the union that makes it a word. *)
Psw == [c : {0, 1}, z : {0, 1}, n : {0, 1}, slp : {0, 1}, v : {0, 1},
        current : 0 .. 7, faulting : {0, 1}, reserved : 0 .. 15,
        previous : 0 .. 7]

PswOf(w) == [c |-> B(w, 0), z |-> B(w, 1), n |-> B(w, 2), slp |-> B(w, 3),
             v |-> B(w, 4), current |-> (w \div 32) % 8, faulting |-> B(w, 8),
             reserved |-> (w \div 512) % 16, previous |-> (w \div 8192) % 8]

PswWord(p) == p.c + 2 * p.z + 4 * p.n + 8 * p.slp + 16 * p.v
                + 32 * p.current + 256 * p.faulting + 512 * p.reserved
                + 8192 * p.previous

(* The statements repeated wherever a fault is detected: a second fault
   while one is active is a double fault; the flag ends cleared.           *)
Fault(psw) ==
  /\ double_fault' = (double_fault \/ psw.faulting = 1)
  /\ word_psw' = [psw EXCEPT !.faulting = 0]

NoFault(psw) == word_psw' = psw /\ UNCHANGED double_fault

Init ==
  /\ \E p \in Programs :
       /\ memory = p.memory
       /\ regfile = [r \in Register |-> CASE r = SP -> \hFFC0
                                          [] r = PC -> p.entry
                                          [] OTHER  -> 0]
  /\ word_psw = PswOf(0)
  /\ IR = 0 /\ MDR = 0 /\ MDR_prev = 0
  /\ instruction_type = "branch_link" /\ table_index = 0
  /\ operands = NoOperands
  /\ CEX_state = 0 /\ cond_state = FALSE /\ true_count = 0 /\ false_count = 0
  /\ double_fault = FALSE
  /\ constants = Constants
  /\ sigint = "default" /\ handler = "idle"
  /\ ctrl_c_fnd = FALSE /\ breakpoint = 0 /\ runs = 0
  /\ at = "menu" /\ block = "plain"

-----------------------------------------------------------------------------
(* The loops of cpu().                                                     *)

(* The head of while (cpu_go). *)
Dispatch ==
  /\ at = "loop"
  /\ IF CEX_state = 0 THEN at' = "fetch" /\ block' = "plain"
                      ELSE at' = "cex"   /\ block' = "true"
  /\ UNCHANGED <<memory, regfile, word_psw, IR, MDR, MDR_prev, decoded, cex,
                 double_fault, shell>>

(* The heads of while (true_count != 0) and while (false_count != 0), and
   what follows the second.                                                *)
CexLoops ==
  /\ at = "cex"
  /\ \/ /\ block = "true" /\ true_count # 0
        /\ at' = "fetch" /\ UNCHANGED <<block, cex>>
     \/ /\ block = "true" /\ true_count = 0
        /\ block' = "false" /\ UNCHANGED <<at, cex>>
     \/ /\ block = "false" /\ false_count # 0
        /\ at' = "fetch" /\ UNCHANGED <<block, cex>>
     \/ /\ block = "false" /\ false_count = 0
        /\ CEX_state' = IF true_count = 0 THEN 0 ELSE CEX_state
        /\ at' = "continue"
        /\ UNCHANGED <<block, cond_state, true_count, false_count>>
  /\ UNCHANGED <<memory, regfile, word_psw, IR, MDR, MDR_prev, decoded,
                 double_fault, shell>>

(* Mutant of Count: the second loop decrements the counter of the first. *)
CountFirst ==
  /\ at = "count"
  /\ true_count' = Plus(true_count, \hFFFF) /\ UNCHANGED false_count
  /\ at' = "cex"
  /\ UNCHANGED <<memory, regfile, word_psw, IR, MDR, MDR_prev, decoded,
                 CEX_state, cond_state, double_fault, shell, block>>

(* true_count-- and false_count--, on unsigned short. *)
Count ==
  /\ at = "count"
  /\ IF block = "true"
     THEN true_count' = Plus(true_count, \hFFFF) /\ UNCHANGED false_count
     ELSE false_count' = Plus(false_count, \hFFFF) /\ UNCHANGED true_count
  /\ at' = "cex"
  /\ UNCHANGED <<memory, regfile, word_psw, IR, MDR, MDR_prev, decoded,
                 CEX_state, cond_state, double_fault, shell, block>>

(* Mutant of Goes: ^C is not looked at. *)
GoesDeaf == IF breakpoint # 0 THEN regfile[PC] # breakpoint
                              ELSE MDR # MDR_prev

(* The end of the loop body: with a breakpoint the CPU goes on until ^C or
   the breakpoint, without one until the same word is fetched twice.       *)
Goes == IF breakpoint # 0 THEN ~ctrl_c_fnd /\ regfile[PC] # breakpoint
                          ELSE MDR # MDR_prev

Continue ==
  /\ at = "continue"
  /\ MDR_prev' = MDR
  /\ at' = IF Goes /\ ~double_fault THEN "loop" ELSE "menu"
  /\ UNCHANGED <<memory, regfile, word_psw, IR, MDR, decoded, cex,
                 double_fault, shell, block>>

-----------------------------------------------------------------------------
(* fetch() and decode().                                                   *)

(* Mutant of FromTop: the words are pulled in the order they were pushed. *)
FromBottom(k) == Plus(regfile[SP], 2 * (3 - k))

(* The k-th word from the top of the stack, from 0. *)
FromTop(k) == Plus(regfile[SP], 2 * k)
Pulled(k)  == ReadBus(memory, FromTop(k), 0)

(* Mutant of Skipped: the part that is selected is skipped. *)
SkipsSelected == \/ block = "true"  /\ cond_state
                 \/ block = "false" /\ ~cond_state

(* In a CEX block the instructions of the part not selected are fetched
   only.                                                                   *)
Skipped == \/ block = "true"  /\ ~cond_state
           \/ block = "false" /\ cond_state

Returning == regfile[PC] = \hFFFF

(* A PC of 0xFFFF returns from a trap: the CEX state, the PSW, LR and PC are
   pulled from the stack before the instruction at the new PC is read.     *)
fetch ==
  /\ at = "fetch"
  /\ LET regs == IF Returning
                 THEN [regfile EXCEPT ![LR] = Pulled(2), ![PC] = Pulled(3),
                                      ![SP] = Plus(@, 8)]
                 ELSE regfile
         psw  == IF Returning THEN PswOf(Pulled(1)) ELSE word_psw
     IN  /\ IF regs[PC] % 2 = 1 THEN Fault(psw) ELSE NoFault(psw)
         /\ MDR' = ReadBus(memory, regs[PC], 0)
         /\ regfile' = [regs EXCEPT ![PC] = Plus(@, 2)]
  /\ IR' = MDR'
  /\ CEX_state' = IF Returning THEN Pulled(0) ELSE CEX_state
  /\ at' = IF Skipped THEN "count" ELSE "decode"
  /\ UNCHANGED <<memory, MDR_prev, decoded, cond_state, true_count,
                 false_count, shell, block>>

(* A zero word leaves the type, index and operands of the instruction
   before it; a register operation that is not found leaves its index.     *)
decode ==
  /\ at = "decode"
  /\ \/ IR = 0 /\ Fault(word_psw) /\ UNCHANGED decoded
     \/ /\ IR # 0
        /\ instruction_type' = InstructionType(IR)
        /\ operands' = DecodedOperands(IR, operands)
        /\ \/ table_index' \in Matches(IR) /\ NoFault(word_psw)
           \/ Matches(IR) = {} /\ Fault(word_psw) /\ UNCHANGED table_index
  /\ at' = "execute"
  /\ UNCHANGED <<memory, regfile, IR, MDR, MDR_prev, cex, shell, block>>

-----------------------------------------------------------------------------
(* execute(): the function the instruction table holds.                    *)

Function == Table(instruction_type)[table_index].name

src == operands.sc
dst == operands.d
wb  == operands.wb

(* Every function of the tables leaves these alone, and returns to the loop
   that fetched the instruction.                                           *)
Executed ==
  /\ at = "execute"
  /\ at' = IF block = "plain" THEN "continue" ELSE "count"
  /\ UNCHANGED <<IR, MDR, MDR_prev, decoded, shell, block>>

Branch ==
  /\ Executed
  /\ instruction_type \in {"branch_link", "branch_condition"}
  /\ LET linked == IF Function = "BL" THEN [regfile EXCEPT ![LR] = regfile[PC]]
                                      ELSE regfile
     IN  regfile' = IF Taken(Function, word_psw)
                    THEN [linked EXCEPT ![PC] = Plus(@, operands.offset)]
                    ELSE regfile
  /\ UNCHANGED <<memory, word_psw, cex, double_fault>>

Arithmetic ==
  /\ Executed
  /\ instruction_type = "arithmetic"
  /\ LET s == IF operands.rc = 1 THEN constants[src] ELSE regfile[src]
         d == regfile[dst]
         c == word_psw.c
         f == Flags(Function, s, d, c, wb)
     IN  /\ regfile' = IF Function \in OnlyFlags THEN regfile
                       ELSE [regfile EXCEPT ![dst] = Result(Function, s, d, c, wb)]
         /\ word_psw' = IF Function = "DADD" THEN word_psw
                        ELSE [word_psw EXCEPT !.c = f.c, !.z = f.z,
                                              !.n = f.n, !.v = f.v]
  /\ UNCHANGED <<memory, cex, double_fault>>

(* The value the one-register instructions leave in dst.  SRA, RRC and COMP
   take wb = 1 for the word form; their other form copies a byte of R0 or
   R1.                                                                     *)
Shifted(f, d) ==
  CASE f = "SRA"   -> IF wb = 1 THEN d \div 2 ELSE LowByte(regfile[0])
    [] f = "RRC"   -> IF wb = 1 THEN d \div 2 + \h8000 * word_psw.c
                                ELSE LowByte(regfile[1])
    [] f = "COMP"  -> BitNot(IF wb = 1 THEN d ELSE LowByte(regfile[1]))
    [] f = "SWPB"  -> HighByte(d) + 256 * LowByte(d)
    [] f = "SXT"   -> IF B(d, 7) = 1 THEN \hFF00 + LowByte(d) ELSE d
    [] f = "MOVL"  -> 256 * LowByte(d) + B3_10(IR)
    [] f = "MOVLZ" -> B3_10(IR)
    [] f = "MOVLS" -> \hFF00 + B3_10(IR)
    [] f = "MOVH"  -> BitOr(256 * B3_10(IR), d)

OneRegister == {"SRA", "RRC", "COMP", "SWPB", "SXT", "MOVL", "MOVLZ",
                "MOVLS", "MOVH"}

Move ==
  /\ Executed
  /\ \/ /\ Function = "MOV"
        /\ regfile' = [regfile EXCEPT ![dst] = regfile[src]]
        /\ UNCHANGED word_psw
     \/ /\ Function = "SWAP"
        /\ regfile' = [regfile EXCEPT ![src] = regfile[dst], ![dst] = regfile[src]]
        /\ UNCHANGED word_psw
     \/ /\ Function \in OneRegister
        /\ regfile' = [regfile EXCEPT ![dst] = Shifted(Function, @)]
        /\ word_psw' = IF Function = "RRC" /\ wb = 1
                       THEN [word_psw EXCEPT !.c = B(regfile[dst], 0)]
                       ELSE word_psw
  /\ UNCHANGED <<memory, cex, double_fault>>

(* Pre- and post-adjustment of an address register: down when dec is set, up
   otherwise, whether or not inc is set.                                   *)
Adjusted(a) ==
  LET size == IF wb = 1 THEN 1 ELSE 2
  IN  IF operands.dec = 1 THEN Plus(a, \h10000 - size) ELSE Plus(a, size)

(* LDR and STR add a signed 7-bit offset to the address register. *)
Relative(a) == Plus(a, SignExtend((IR \div 128) % 128, 7))

Load ==
  /\ Executed
  /\ \/ /\ Function = "LD" /\ operands.prpo = 0
        /\ LET loaded == [regfile EXCEPT ![dst] = ReadBus(memory, regfile[src], wb)]
           IN  regfile' = [loaded EXCEPT ![src] = Adjusted(@)]
     \/ /\ Function = "LD" /\ operands.prpo = 1
        /\ LET a == Adjusted(regfile[src])
           IN  regfile' = [[regfile EXCEPT ![src] = a]
                             EXCEPT ![dst] = ReadBus(memory, a, wb)]
     \/ /\ Function = "LDR"
        /\ regfile' = [regfile EXCEPT
                          ![dst] = ReadBus(memory, Relative(regfile[src]), wb)]
  /\ UNCHANGED <<memory, word_psw, cex, double_fault>>

Store ==
  /\ Executed
  /\ \/ /\ Function = "ST" /\ operands.prpo = 0
        /\ memory' = WriteBus(memory, regfile[dst], regfile[src], wb)
        /\ regfile' = [regfile EXCEPT ![dst] = Adjusted(@)]
     \/ /\ Function = "ST" /\ operands.prpo = 1
        /\ regfile' = [regfile EXCEPT ![dst] = Adjusted(@)]
        /\ memory' = WriteBus(memory, regfile'[dst], regfile'[src], wb)
     \/ /\ Function = "STR"
        /\ memory' = WriteBus(memory, Relative(regfile[dst]), regfile[src], B(IR, 6))
        /\ UNCHANGED regfile
  /\ UNCHANGED <<word_psw, cex, double_fault>>

(* Mutant of SETPRI: the priority may also be raised. *)
SETPRIRaises ==
  /\ Executed
  /\ Function = "SETPRI"
  /\ IF B0_2(IR) # word_psw.current
     THEN NoFault([word_psw EXCEPT !.current = B0_2(IR)])
     ELSE Fault(word_psw)
  /\ UNCHANGED <<memory, regfile, cex>>

(* SETPRI lowers the priority; anything else is a priority fault. *)
SETPRI ==
  /\ Executed
  /\ Function = "SETPRI"
  /\ IF B0_2(IR) < word_psw.current
     THEN NoFault([word_psw EXCEPT !.current = B0_2(IR)])
     ELSE Fault(word_psw)
  /\ UNCHANGED <<memory, regfile, cex>>

(* The vector a trap names: the PSW and the address of its handler. *)
Vector    == \hFFC0 + 4 * (IR % 16)
VectorPsw == PswOf(ReadBus(memory, Vector, 0))

(* Mutant of BelowTop: SP is decremented after the write, not before. *)
BelowTopLate(k) == Plus(regfile[SP], 2 - 2 * k)

(* Mutant of BelowTop: SP is decremented by bytes. *)
BelowTopBytes(k) == Plus(regfile[SP], \h10000 - k)

(* Memory m after x has been pushed as the k-th word of a frame. *)
BelowTop(k)     == Plus(regfile[SP], \h10000 - 2 * k)
Pushed(k, x, m) == WriteBus(m, BelowTop(k), x, 0)

(* SVC to a vector of higher priority: PC, LR, the PSW and the CEX state are
   pushed.  The last statement then copies LR, already 0xFFFF, to PC, unless
   the PSW of the vector has its faulting bit set.                         *)
Trap ==
  /\ word_psw.current < VectorPsw.current
  /\ memory' = Pushed(4, CEX_state,
                 Pushed(3, PswWord(word_psw),
                   Pushed(2, regfile[LR],
                     Pushed(1, regfile[PC], memory))))
  /\ regfile' = [regfile EXCEPT
       ![SP] = Plus(@, \h10000 - 8),
       ![LR] = \hFFFF,
       ![PC] = IF VectorPsw.faulting = 0 THEN \hFFFF
               ELSE ReadBus(memory, Vector + 2, 0)]
  /\ CEX_state' = 0
  /\ NoFault([VectorPsw EXCEPT !.faulting = 0])

SVC ==
  /\ Executed
  /\ Function = "SVC"
  /\ \/ Trap
     \/ /\ word_psw.current >= VectorPsw.current
        /\ Fault(word_psw)
        /\ UNCHANGED <<memory, regfile, CEX_state>>
  /\ UNCHANGED <<cond_state, true_count, false_count>>

(* SETCC and CLRCC: bit k of the instruction selects a flag.  At priority 7
   SETCC clears the sleep bit.                                             *)
SETCC ==
  /\ Executed
  /\ Function = "SETCC"
  /\ LET Or(k, old) == IF B(IR, k) = 1 THEN 1 ELSE old
     IN  word_psw' = [word_psw EXCEPT
           !.c = Or(0, @), !.z = Or(1, @), !.n = Or(2, @), !.v = Or(4, @),
           !.slp = IF word_psw.current = 7 THEN 0 ELSE Or(3, @)]
  /\ UNCHANGED <<memory, regfile, cex, double_fault>>

(* Mutant of CLRCC: the whole PSW is cleared. *)
ClearsPsw ==
  /\ Executed
  /\ Function = "CLRCC"
  /\ word_psw' = PswOf(0)
  /\ UNCHANGED <<memory, regfile, cex, double_fault>>

CLRCC ==
  /\ Executed
  /\ Function = "CLRCC"
  /\ LET AndNot(k, old) == IF B(IR, k) = 1 THEN 0 ELSE old
     IN  word_psw' = [word_psw EXCEPT
           !.c = AndNot(0, @), !.z = AndNot(1, @), !.n = AndNot(2, @),
           !.slp = AndNot(3, @), !.v = AndNot(4, @)]
  /\ UNCHANGED <<memory, regfile, cex, double_fault>>

(* Mutant of CEX: the mask of the second count is a bit too wide. *)
CEXWide ==
  /\ Executed
  /\ Function = "CEX"
  /\ true_count' = B3_5(IR)
  /\ false_count' = IR % 16
  /\ CEX_state' = 1
  /\ cond_state' = Condition(B6_9(IR), word_psw)
  /\ UNCHANGED <<memory, regfile, word_psw, double_fault>>

(* Mutant of CEX: the first count is off by one. *)
CEXOneMore ==
  /\ Executed
  /\ Function = "CEX"
  /\ true_count' = B3_5(IR) + 1
  /\ false_count' = B0_2(IR)
  /\ CEX_state' = 1
  /\ cond_state' = Condition(B6_9(IR), word_psw)
  /\ UNCHANGED <<memory, regfile, word_psw, double_fault>>

CEX ==
  /\ Executed
  /\ Function = "CEX"
  /\ true_count' = B3_5(IR)
  /\ false_count' = B0_2(IR)
  /\ CEX_state' = 1
  /\ cond_state' = Condition(B6_9(IR), word_psw)
  /\ UNCHANGED <<memory, regfile, word_psw, double_fault>>

execute == \/ Branch \/ Arithmetic \/ Move \/ Load \/ Store
           \/ SETPRI \/ SVC \/ SETCC \/ CLRCC \/ CEX

-----------------------------------------------------------------------------
(* The debugger's menu, while the CPU is stopped.                          *)

machine == <<memory, IR, decoded, cex, double_fault, block>>

(* Entry c, in three steps between which ^C may come: the flag is cleared
   by initialize_signal_handler(), which then binds the handler, and once
   more by run_xm(), which calls cpu().                                    *)
initialize_signal_handler ==
  /\ at = "menu" /\ runs < MaxRuns
  /\ runs' = runs + 1
  /\ ctrl_c_fnd' = FALSE
  /\ at' = "signal"
  /\ UNCHANGED <<machine, regfile, word_psw, MDR, MDR_prev, signals, constants,
                 breakpoint>>

bind ==
  /\ at = "signal"
  /\ sigint' = "handler"
  /\ at' = "run_xm"
  /\ UNCHANGED <<machine, regfile, word_psw, MDR, MDR_prev, ctrl_c_fnd, handler,
                 constants, breakpoint, runs>>

run_xm ==
  /\ at = "run_xm"
  /\ ctrl_c_fnd' = FALSE
  /\ MDR' = 0 /\ MDR_prev' = 0
  /\ at' = "loop"
  /\ UNCHANGED <<machine, regfile, word_psw, signals, constants, breakpoint, runs>>

break_point ==
  /\ at = "menu"
  /\ breakpoint' \in Breakpoints
  /\ UNCHANGED <<machine, regfile, word_psw, MDR, MDR_prev, ctrl_c_fnd, signals,
                 constants, runs, at>>

change_pc ==
  /\ at = "menu"
  /\ \E a \in Entries : regfile' = [regfile EXCEPT ![PC] = a]
  /\ UNCHANGED <<machine, word_psw, MDR, MDR_prev, shell, at>>

(* One register and value of change_registers().  Its test reg > 7 && reg < 0
   rejects nothing: numbers from 8 on are the constants, which follow R7 in
   memory.                                                                 *)
change_registers ==
  /\ at = "menu"
  /\ \E e \in RegisterEdits :
       \/ /\ e[1] \in Register
          /\ regfile' = [regfile EXCEPT ![e[1]] = e[2]]
          /\ UNCHANGED constants
       \/ /\ e[1] \notin Register
          /\ constants' = [constants EXCEPT ![e[1] - 8] = e[2]]
          /\ UNCHANGED regfile
  /\ UNCHANGED <<machine, word_psw, MDR, MDR_prev, ctrl_c_fnd, signals,
                 breakpoint, runs, at>>

(* The PSW the user leaves after changing its fields one by one. *)
edit_psw_bits ==
  /\ at = "menu"
  /\ \E w \in PswWords : word_psw' = PswOf(w)
  /\ UNCHANGED <<machine, regfile, MDR, MDR_prev, shell, at>>

-----------------------------------------------------------------------------
(* SIGINT.                                                                 *)

(* The process has not been ended by ^C. *)
Alive == sigint # "killed"

(* ^C: the C library resets SIGINT to its default, under which ^C ends the
   process, and starts a thread for the handler; one at a time here.       *)
ctrl_c ==
  /\ Alive
  /\ \/ /\ sigint = "default"
        /\ sigint' = "killed" /\ UNCHANGED handler
     \/ /\ sigint = "handler" /\ handler = "idle"
        /\ sigint' = "default" /\ handler' = "entered"
  /\ UNCHANGED <<machine, regfile, word_psw, MDR, MDR_prev, ctrl_c_fnd,
                 constants, breakpoint, runs, at>>

(* Mutant of Rebound: the handler leaves SIGINT as the library has set it. *)
LeftAlone == sigint

Rebound == "handler"

(* The two statements of the handler. *)
sigint_hdlr ==
  /\ Alive
  /\ \/ /\ handler = "entered"
        /\ ctrl_c_fnd' = TRUE
        /\ handler' = "set" /\ UNCHANGED sigint
     \/ /\ handler = "set"
        /\ sigint' = Rebound
        /\ handler' = "idle" /\ UNCHANGED ctrl_c_fnd
  /\ UNCHANGED <<machine, regfile, word_psw, MDR, MDR_prev, constants, breakpoint,
                 runs, at>>

cpu  == /\ Alive
        /\ \/ Dispatch \/ CexLoops \/ Count \/ Continue
           \/ fetch \/ decode \/ execute
Menu == /\ Alive
        /\ \/ initialize_signal_handler \/ bind \/ run_xm
           \/ break_point \/ change_pc \/ change_registers \/ edit_psw_bits

Next == cpu \/ Menu \/ ctrl_c \/ sigint_hdlr

Spec == Init /\ [][Next]_vars

(* Neither cpu() nor the handler ever waits: their threads are scheduled as
   long as the process lives.  Nothing is assumed of the user.             *)
FairSpec == Spec /\ WF_vars(cpu) /\ WF_vars(sigint_hdlr)

-----------------------------------------------------------------------------
(* Properties.                                                             *)

TypeOK ==
  /\ IsMemory(memory)
  /\ regfile \in [Register -> Word16]
  /\ word_psw \in Psw
  /\ IR \in Word16 /\ MDR \in Word16 /\ MDR_prev \in Word16
  /\ instruction_type \in type_instr /\ table_index \in Nat
  /\ operands \in Operands
  /\ CEX_state \in Word16 /\ cond_state \in BOOLEAN
  /\ true_count \in Word16 /\ false_count \in Word16
  /\ double_fault \in BOOLEAN
  /\ ctrl_c_fnd \in BOOLEAN /\ breakpoint \in Word16 /\ runs \in Nat
  /\ constants \in [Register -> Word16]
  /\ sigint \in {"default", "handler", "killed"}
  /\ handler \in {"idle", "entered", "set"}
  /\ at \in {"menu", "signal", "run_xm", "loop", "fetch", "decode", "execute",
             "count", "cex", "continue"}
  /\ block \in {"plain", "true", "false"}

(* execute() indexes the table of the current instruction's type with an
   index inside that table, although a word that is zero or not found leaves
   the index, and a zero word the type too, of an earlier instruction.     *)
IndexInTable == table_index \in DOMAIN Table(instruction_type)

(* The faulting bit is only ever set by a return from a trap, which takes it
   from the stack, or by the user: every fault leaves it cleared.  A double
   fault needs that bit.  The priority is only raised by a trap, a return or
   the user.                                                               *)
PswGuarded ==
  [][at # "menu" /\ (at = "fetch" => ~Returning) =>
       /\ word_psw.faulting = 0 => word_psw'.faulting = 0
       /\ word_psw.faulting = 0 => double_fault' = double_fault
       /\ word_psw.current < word_psw'.current =>
            at = "execute" /\ Function = "SVC" /\ Trap]_vars

(* No CEX is executed in the block of another, whose counters it would
   overwrite.                                                              *)
CexNotNested == at = "execute" /\ Function = "CEX" => block = "plain"

(* A frame on the stack, the k-th pushed since the stack was empty. *)
Frame(k) ==
  LET word(i) == ReadBus(memory, \hFFC0 - 8 * k + 2 * i, 0)
  IN  [cex |-> word(0), psw |-> PswOf(word(1)), lr |-> word(2), pc |-> word(3)]

Frames == [k \in 1 .. (\hFFC0 - regfile[SP]) \div 8 |-> Frame(k)]

Context == [cex |-> CEX_state, psw |-> word_psw, lr |-> regfile[LR],
            pc |-> regfile[PC]]

Interrupted == INSTANCE Traps WITH
  Contexts <- [cex : Word16, psw : Psw, lr : Word16, pc : Word16],
  context  <- Context,
  saved    <- Frames

(* The program keeps nothing but the frames of traps on its stack, returns
   from traps only, and lowers its priority by returning only; the user
   respects this when editing registers and the PSW.                       *)
KeepsStack ==
  [][/\ at = "menu" \/ (at = "execute" /\ Function # "SVC") =>
          /\ regfile'[SP] = regfile[SP]
          /\ word_psw'.current = word_psw.current
          /\ word_psw'.faulting = word_psw.faulting
          /\ \A a \in regfile[SP] .. \hFFBF : ByteAt(memory', a) = ByteAt(memory, a)
     /\ at = "fetch" /\ Returning => regfile[SP] < \hFFC0]_vars

(* Traps: the frame of a trap stays untouched in memory until its return,
   traps nest, and a return brings back PC, LR, the PSW and the CEX state of
   the code that trapped last.                                             *)
ImplementsTraps == Interrupted!Spec

(* Without SETPRI every trap runs at a higher priority than the code it
   interrupts, so the frames are ordered by priority and at most seven traps
   are ever nested: the stack is bounded.                                  *)
PrioritiesAscend ==
  /\ \A j, k \in DOMAIN Frames :
       j < k => Frames[j].psw.current < Frames[k].psw.current
  /\ \A k \in DOMAIN Frames : Frames[k].psw.current < word_psw.current

Running == at \in {"loop", "fetch", "decode", "execute", "count", "cex",
                   "continue"}

(* While the CPU runs ^C is never left to its default, which would end the
   process, but from its arrival to the end of the handler.                *)
ListensWhileRunning == Running => sigint = "handler" \/ handler # "idle"

(* A double fault, and with a breakpoint set ^C, stops the CPU, whatever it
   is executing, provided no CEX block contains a branch back into itself:
   no start clears the flag once the handler has been entered in a run.    *)
StopsWhenAsked ==
  (Running /\ (\/ double_fault
               \/ breakpoint # 0 /\ (ctrl_c_fnd \/ handler = "entered")))
    ~> ~Running \/ ~Alive

(* The statements of cpu() from here to the menu, if it is asked to stop and
   no CEX follows in the block: a round of the inner loops is six.         *)
StepsLeft ==
  LET rounds  == true_count + false_count
      inRound == IF block = "plain" THEN 0 ELSE 6 * rounds - 3
  IN  CASE at = "loop"     -> 6 * rounds + 5
        [] at = "cex"      -> 6 * rounds + (IF block = "true" THEN 3 ELSE 2)
        [] at = "fetch"    -> inRound + 4
        [] at = "decode"   -> inRound + 3
        [] at = "execute"  -> inRound + 2
        [] at = "count"    -> inRound + 1
        [] at = "continue" -> 1
        [] OTHER           -> 0

Asked == double_fault \/ (breakpoint # 0 /\ ctrl_c_fnd)

(* Once a double fault or ^C has asked the CPU to stop, every one of its steps
   brings it nearer to the menu, and those of the handler do not take it
   farther: it stops within both parts of a CEX, fourteen instructions.  A
   counter decremented past 0 would make that 65535.  Where CexNotNested
   holds, this is the part of StopsWhenAsked that needs no fairness.       *)
StopsSoon ==
  [][Running /\ Asked =>
       /\ StepsLeft \in 1 .. 6 * 14 + 5
       /\ IF UNCHANGED <<at, block>> THEN UNCHANGED StepsLeft
          ELSE StepsLeft' < StepsLeft]_vars

-----------------------------------------------------------------------------
(* Statements of the repository the CPU does not keep.                     *)

(* "Users can set breakpoints at specific memory addresses to halt
   execution" (README.md:12): no instruction is fetched at the breakpoint
   in a run that starts elsewhere.                                         *)
BreakpointHalts == ~(at = "fetch" /\ breakpoint # 0 /\ regfile[PC] = breakpoint)

(* "control passes to address specified in vector[SA]"
   (Register_Operations.c:89): after a trap the PC is that address.        *)
TrapPassesControl ==
  [][at = "execute" /\ Function = "SVC" /\ Trap =>
       regfile'[PC] = ReadBus(memory, Vector + 2, 0)]_vars

(* "clear cex state information" (Register_Operations.c:123), which "CEX
   instruction is ON/TRUE" (Cpu.c:179) asks for: once a trap has cleared the
   CEX state no instruction is fetched as one of a block.                  *)
PredicatedWhileOn == at = "fetch" /\ block # "plain" => CEX_state # 0
=============================================================================
