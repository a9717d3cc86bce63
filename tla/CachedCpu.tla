------------------------------ MODULE CachedCpu ------------------------------
(***************************************************************************)
(* The whole emulator: the processor of Cpu reaching memory through the    *)
(* cache (the switches on cache_type of fetch(), LD, ST, LDR and STR), and *)
(* the menu entry that selects an organisation.  One instruction makes     *)
(* several accesses, each of which changes lines: a trap is two reads of   *)
(* the vector by bus() alone and four pushes through the cache.            *)
(*                                                                         *)
(* Which line an access uses and how the lines age is what Cache says.  Of *)
(* the content of a line only the word at its address is kept: no access   *)
(* reads another.  The dirty bit is left out: every access sets or clears  *)
(* the bit of its line before it tests it, so that the test depends on the *)
(* access alone, as CacheEdit shows.  Lines the user edits are in          *)
(* CacheEdit, too.                                                         *)
(***************************************************************************)
EXTENDS Cpu

CONSTANTS
  Lines,        \* number of cache lines (cache_sz, 16 in the code)
  CacheTypes    \* the organisations the user selects in this instance

ASSUME CachedAssumption ==
  /\ Lines \in Nat \ {0}
  /\ CacheTypes \subseteq {"ASSOCIATIVE", "DIRECTMAPPING", "NO_CACHE"}

VARIABLES lines, cache_type

cached == <<lines, cache_type>>

Cache(l) == INSTANCE Cache WITH
  cache <- l, port <- <<>>, state <- "miss",
  Words <- \h8000, Byte <- 0 .. 255, Zero <- 0,
  Accesses <- {}, Data <- {}, Images <- {}

Line == 0 .. Lines - 1

init_cache == [i \in Line |-> [address |-> 0, word |-> 0, usage |-> 0, empty |-> TRUE]]

CachedInit ==
  /\ Init
  /\ lines = [i \in Line |-> [init_cache[i] EXCEPT !.empty = FALSE]]
  /\ cache_type = "NO_CACHE"

-----------------------------------------------------------------------------
(* Accesses.  s holds what an access finds and leaves: the lines, memory and
   the data a read delivers.                                               *)

Access(l, m, d) == [lines |-> l, memory |-> m, data |-> d]

Found == Access(lines, memory, 0)

(* The line for address a, of the lines l, and whether a is found there. *)
LineFor(a, l) == CHOOSE i \in Line : \E st \in {"hit", "miss"} : Cache(l)!Lookup(a, i, st)
IsHit(a, i, l) == Cache(l)!Lookup(a, i, "hit")

(* The lines l after line i has been used for address a and holds x. *)
LinesAfter(op, a, i, hit, x, l) ==
  [j \in Line |->
     IF j # i THEN [l[j] EXCEPT !.usage = Cache(l)!UsageAfter(op, j, i)]
     ELSE [address |-> a, word |-> x, usage |-> Cache(l)!UsageAfter(op, j, i),
           empty |-> hit /\ l[j].empty]]

(* An access that uses line i.  A hit delivers the cached word, whatever the
   width asked for; a write goes to the bus as well.                       *)
ReadLine(a, byte, i, s) ==
  IF cache_type = "NO_CACHE" THEN [s EXCEPT !.data = ReadBus(s.memory, a, byte)]
  ELSE LET hit == IsHit(a, i, s.lines)
           x   == IF hit THEN s.lines[i].word ELSE ReadBus(s.memory, a, byte)
       IN  [s EXCEPT !.data = x, !.lines = LinesAfter("read", a, i, hit, x, @)]

WriteLine(a, x, byte, i, s) ==
  [s EXCEPT
     !.memory = WriteBus(@, a, x, byte),
     !.lines  = IF cache_type = "NO_CACHE" THEN @
                ELSE LinesAfter("write", a, i, IsHit(a, i, @), x, @)]

Read(a, byte, s)     == ReadLine(a, byte, LineFor(a, s.lines), s)
Write(a, x, byte, s) == WriteLine(a, x, byte, LineFor(a, s.lines), s)

-----------------------------------------------------------------------------
(* fetch(): the four words of a frame, if it returns, and an instruction. *)
cached_fetch ==
  /\ at = "fetch"
  /\ LET Pull(k, s) == Read(FromTop(k), 0, s)
         cexs == Pull(0, Found)
         psws == Pull(1, cexs)
         lrs  == Pull(2, psws)
         pcs  == Pull(3, lrs)
         regs == IF Returning
                 THEN [regfile EXCEPT ![LR] = lrs.data, ![PC] = pcs.data,
                                      ![SP] = Plus(@, 8)]
                 ELSE regfile
         psw  == IF Returning THEN PswOf(psws.data) ELSE word_psw
         last == Read(regs[PC], 0, IF Returning THEN pcs ELSE Found)
     IN  /\ IF regs[PC] % 2 = 1 THEN Fault(psw) ELSE NoFault(psw)
         /\ MDR' = last.data
         /\ regfile' = [regs EXCEPT ![PC] = Plus(@, 2)]
         /\ CEX_state' = IF Returning THEN cexs.data ELSE CEX_state
         /\ lines' = last.lines
  /\ IR' = MDR'
  /\ at' = IF Skipped THEN "count" ELSE "decode"
  /\ UNCHANGED <<memory, MDR_prev, decoded, cond_state, true_count,
                 false_count, shell, block, cache_type>>

CachedLoad ==
  /\ Executed
  /\ Function \in {"LD", "LDR"}
  /\ LET before == IF Function = "LD" /\ operands.prpo = 1
                   THEN [regfile EXCEPT ![src] = Adjusted(@)] ELSE regfile
         a == IF Function = "LDR" THEN Relative(regfile[src]) ELSE before[src]
         s == Read(a, wb, Found)
         loaded == [before EXCEPT ![dst] = s.data]
     IN  /\ regfile' = IF Function = "LD" /\ operands.prpo = 0
                       THEN [loaded EXCEPT ![src] = Adjusted(@)] ELSE loaded
         /\ lines' = s.lines
  /\ UNCHANGED <<memory, word_psw, cex, double_fault, cache_type>>

CachedStore ==
  /\ Executed
  /\ Function \in {"ST", "STR"}
  /\ LET after == IF Function = "ST" THEN [regfile EXCEPT ![dst] = Adjusted(@)]
                                    ELSE regfile
         s == CASE Function = "STR" ->
                     Write(Relative(regfile[dst]), regfile[src], B(IR, 6), Found)
                [] Function = "ST" /\ operands.prpo = 0 ->
                     Write(regfile[dst], regfile[src], wb, Found)
                [] Function = "ST" /\ operands.prpo = 1 ->
                     Write(after[dst], after[src], wb, Found)
     IN  memory' = s.memory /\ lines' = s.lines /\ regfile' = after
  /\ UNCHANGED <<word_psw, cex, double_fault, cache_type>>

(* Mutant of Push: the word is pushed past the cache. *)
PushPastCache(k, x, s) ==
  Access(s.lines, WriteBus(s.memory, BelowTop(k), x, 0), s.data)

Push(k, x, s) == Write(BelowTop(k), x, 0, s)

CachedTrap ==
  /\ word_psw.current < VectorPsw.current
  /\ LET s == Push(4, CEX_state,
                Push(3, PswWord(word_psw),
                  Push(2, regfile[LR],
                    Push(1, regfile[PC], Found))))
     IN  memory' = s.memory /\ lines' = s.lines
  /\ regfile' = [regfile EXCEPT
       ![SP] = Plus(@, \h10000 - 8),
       ![LR] = \hFFFF,
       ![PC] = IF VectorPsw.faulting = 0 THEN \hFFFF
               ELSE ReadBus(memory, Vector + 2, 0)]
  /\ CEX_state' = 0
  /\ NoFault([VectorPsw EXCEPT !.faulting = 0])

CachedSVC ==
  /\ Executed
  /\ Function = "SVC"
  /\ \/ CachedTrap
     \/ /\ word_psw.current >= VectorPsw.current
        /\ Fault(word_psw)
        /\ UNCHANGED <<memory, regfile, CEX_state, lines>>
  /\ UNCHANGED <<cond_state, true_count, false_count, cache_type>>

(* The steps of cpu() that make no access. *)
Elsewhere ==
  /\ \/ Dispatch \/ CexLoops \/ Count \/ Continue \/ decode
     \/ Branch \/ Arithmetic \/ Move \/ SETPRI \/ SETCC \/ CLRCC \/ CEX
  /\ UNCHANGED cached

(* Mutant of LinesSelected: the lines of the last organisation are kept. *)
LinesKept(t) == lines

LinesSelected(t) == IF t = "NO_CACHE" THEN lines ELSE init_cache

(* Entry t of the menu. *)
SelectCacheType ==
  /\ Alive /\ at = "menu"
  /\ \E t \in CacheTypes : cache_type' = t /\ lines' = LinesSelected(t)
  /\ UNCHANGED vars

CachedNext ==
  \/ Alive /\ (Elsewhere \/ cached_fetch \/ CachedLoad \/ CachedStore \/ CachedSVC)
  \/ (Menu \/ ctrl_c \/ sigint_hdlr) /\ UNCHANGED cached
  \/ SelectCacheType

CachedSpec == CachedInit /\ [][CachedNext]_<<vars, cached>>

-----------------------------------------------------------------------------
(* Properties.                                                             *)

(* The access is of a word at an even address, and not at address 0 under
   direct mapping, where it would hit a line that is still empty.          *)
Clean(a, byte) ==
  /\ byte = 0 /\ a % 2 = 0
  /\ cache_type = "DIRECTMAPPING" => a # 0

(* Every access the program is about to make to a cache is clean: those of
   fetch(), of a load or store, and of a trap.                             *)
AccessesClean ==
  cache_type # "NO_CACHE" =>
    /\ at = "fetch" /\ ~Returning => Clean(regfile[PC], 0)
    /\ at = "fetch" /\ Returning =>
         /\ \A k \in 0 .. 3 : Clean(FromTop(k), 0)
         /\ Clean(Pulled(3), 0)
    /\ at = "execute" =>
         CASE Function = "LD"  -> Clean(IF operands.prpo = 1 THEN Adjusted(regfile[src])
                                                            ELSE regfile[src], wb)
           [] Function = "LDR" -> Clean(Relative(regfile[src]), wb)
           [] Function = "ST"  -> Clean(IF operands.prpo = 1 THEN Adjusted(regfile[dst])
                                                            ELSE regfile[dst], wb)
           [] Function = "STR" -> Clean(Relative(regfile[dst]), B(IR, 6))
           [] Function = "SVC" -> \A k \in 1 .. 4 : Clean(BelowTop(k), 0)
           [] OTHER            -> TRUE

(* A line in use holds what memory holds, between any two instructions: also
   after the code of the program, or the frames of its traps, have been
   overwritten, and after the user has changed the organisation in a run.  *)
LinesHoldMemory ==
  cache_type # "NO_CACHE" =>
    \A i \in Line : ~lines[i].empty =>
      lines[i].word = ReadBus(memory, lines[i].address, 0)

(* The processor with a cache is the processor with flat memory: every
   register, flag and byte of memory changes as Cpu says, for a program
   whose accesses are clean (words at even addresses, and not address 0
   under direct mapping).                                                  *)
ImplementsCpu == Spec
=============================================================================
