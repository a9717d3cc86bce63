# The XM-23 emulator in TLA+

A verification development for the XM-23 machine emulator: TLA+ modules that
follow its C code, TLC configurations that check them on small instances, and
proofs that TLAPS checks for every instance.  `PROJECT.json` lists the runs, the
properties, the source lines behind every definition, the hazards and the
theorems.

    tlc -config MCCache_memory.cfg MCCache.tla      # one run
    tlapm CacheProofs.tla                       # one module of proofs

## 1. Inventory

The emulator is one process.  `main()` calls `debugger()`, which loads a program
and then serves a menu; one entry of the menu runs the CPU until it stops.  The
only concurrency is SIGINT: Windows runs its handler in a thread of its own, beside
the CPU or the menu, at any point.  All parts share global variables.

| Component | Source | State it keeps | Operations | Called by |
|---|---|---|---|---|
| Primary memory, bus | `Memory.c`, `Emulator.h` | `memory`, 64 KiB as bytes and words | `bus` | cache, CPU, SVC, loader |
| Cache | `cache.c`, `cache.h` | `cache[16]`, `cache_type`, `state` | `access_cache_AS`, `access_cache_DM`, `init_cache`, `edit_cache_lines` | fetch, LD, ST, LDR, STR; menu |
| Arithmetic and flags | `Arithmetic and Logic Execution.c`, `PSW code.c` | flags of the PSW | `ADD` .. `BIS`, `update_psw` | execute |
| Decoder | `Decode.c`, `Cpu.c` | `table_index`, `instruction_type`, operands | `decode` and four table searches | CPU |
| Processor | `Cpu.c`, `Register_Operations.c`, `Branch_decode_exectue.c` | `regfile`, PSW, IR, CEX counters | `cpu`, `fetch`, `execute`, 41 instruction functions | menu entry c |
| Traps and faults | `Register_Operations.c`, `Cpu.c` | frames on the stack, `double_fault` | `SVC`, return in `fetch`, the places that detect a fault | CPU |
| Debugger menu | `Debugger.c` | `breakpoint`, `cache_type`, the constants of `regfile[1]` | t, g, c, b, p, v, w; m, r, u only display | `main` |
| Control-C | `Control C software.c` | `ctrl_c_fnd`, the disposition of SIGINT | `sigint_hdlr`, `initialize_signal_handler`, `run_xm` | SIGINT; menu |
| S-record loader | `Loader.c` | `memory`, PC, checksum, the globals of a record | `loader`, `s0_rec`, `s1_rec`, `s9_rec` | `debugger` |

What makes each of them correct, and hard:

- **Cache.**  The program must not notice it.  Two organisations share one array
  and one update routine; lines survive the change of organisation; the usage
  counters are decremented without a test; the dirty bit is kept but nothing is
  ever written back, so everything rests on write-through.
- **Decoder and execute.**  `execute()` calls through a table of function
  pointers with an index that a zero word or an unknown register operation leaves
  over from an earlier instruction, perhaps of another type.
- **Conditional execution.**  `CEX` sets two counters that two loops of `cpu()`
  count down around instructions which may branch, trap, fault or be stopped.
- **Traps.**  `SVC` pushes four words that `fetch()` pulls in the reverse order
  when the PC is 0xFFFF; frames nest in memory the program can write.  One
  `faulting` bit serves as fault marker, as part of saved PSWs, and as the switch
  that decides whether a handler is entered.
- **Stopping.**  Three flags and a comparison of two fetched words end the loop,
  tested only after a whole CEX block.
- **Flags.**  Carry and overflow come from tables indexed by three sign bits.
- **Loader.**  Data reaches memory before the checksum is known; the address
  wraps; `sscanf()` leaves alone what it finds no digits for, so a record cut
  short is completed with another's; a record of unknown type is summed with
  what the last one left.
- **Signals.**  The library resets SIGINT to its default when it calls the
  handler, which must bind itself again before the next ^C; the flag is cleared
  twice on the way into the CPU.
- **The whole.**  One instruction makes up to five accesses, each of which ages
  and evicts lines the next one looks up; code and frames live in the memory the
  program writes, and the vectors are read past the cache.

## 2. Modules

    Bits -- Alu -- MCAlu -- AluProofs
      |      |
    Decode   |             Memory -- FlatMemory -- Cache -- CacheLRU -- MCCache
        |    |                                     |  |       |           |
    ByteMemory -- Cpu -- MCCpu      LRU (abstract)-|--|-------'           |
        |         |  |     |                       |  `-- CacheEdit -- MCCacheEdit
        |         |  `-----|-------- CachedCpu ----'
        |         |        |            `-- MCSystem
        |     TracedCpu -- MCPredication
      Loader -- MCLoader
        |                       Traps (abstract, for Cpu)
      SRecords (abstract)       Predication (abstract, for TracedCpu)

    CacheProofs -- LRUProofs
    CpuProofs -- PredicationProofs -- CachedCpuProofs
         `------ TrapProofs ----------------'
    AluProofs, LoaderProofs

| Module | What it is |
|---|---|
| `Memory` | The union `MEMORY` as bytes, and `bus()`. |
| `FlatMemory` | Abstract: what a program expects of memory.  Its `Read` and `Write` are `bus()` alone. |
| `LRU` | Abstract: least-recently-used replacement as a list of addresses. |
| `CacheLRU` | The mapping of the cache's usage counters to that list. |
| `Cache` | `cache.c`.  One step is one call of an access routine; `port` records the data the call delivered or carried, so that it can be compared with `FlatMemory`.  `CacheSpec` has the accesses and the selection of an organisation. |
| `CacheEdit` | `edit_cache_lines()` between the accesses of `Cache`: in `EditSpec` the user sets any field of any line, in `MarksSpec` dirty bits and usage counters only. |
| `Bits` | The macros of `bit_extract.h` and the C operators on 16-bit words. |
| `Alu` | The twelve arithmetic instructions, `update_psw()` with its tables, the conditions of `CEX` and of the branches, and below the line what they promise in integers. |
| `Decode` | The four tables, which entry a word selects, the operands. |
| `Predication` | Abstract: which instructions a `CEX` block executes; a trap suspends the block it is taken in, the return resumes it. |
| `Traps` | Abstract: contexts set aside and brought back, last in, first out. |
| `ByteMemory` | Memory and `bus()` for the modules that compute with bytes. |
| `Cpu` | The processor, the menu entries that touch it, and SIGINT. |
| `TracedCpu` | `Cpu` with a history variable, `suspended`: what was left of the blocks that traps were taken in.  It holds the mapping to `Predication`. |
| `CachedCpu` | The processor reaching memory through the cache: the composition of `Cpu` and `Cache`, shown to implement `Cpu`. |
| `SRecords` | Abstract: what loading a file of S-records does to memory and the entry point, and what is said of each record. |
| `Loader` | `Loader.c`: line buffer, scanned variables, checksum and address. |
| `MCCache`, `MCCacheEdit`, `MCAlu`, `MCCpu`, `MCPredication`, `MCSystem`, `MCLoader` | Instances for TLC.  `MCCpu` has a small assembler and the programs. |
| `CacheProofs`, `LRUProofs`, `AluProofs`, `CpuProofs`, `PredicationProofs`, `TrapProofs`, `CachedCpuProofs`, `LoaderProofs` | Theorems. |

How `Cpu` follows `cpu()`: the variable `at` is the statement the thread stands
at and `block` the loop that fetched the current instruction.  `Dispatch`,
`CexLoops`, `Count` and `Continue` are the control of the three nested loops,
`fetch`, `decode` and the disjuncts of `execute` the functions they call.  An
instruction function is one step: nothing else writes its variables, and the
handler of SIGINT, which writes only `ctrl_c_fnd`, runs between any two steps.
The start of the CPU is three steps (`initialize_signal_handler`, `bind`,
`run_xm`) and the handler two, so that ^C may come between any of their
statements; `sigint` is what the next ^C does, `handler` where the handler's
thread stands.  `ctrl_c` is not code of the repository: it is what the C library
of Windows does, resetting SIGINT and starting the thread.  `constants` is
`regfile[1]`, which `change_registers()` overwrites for numbers from 8 on.
The fields of the PSW are a record; `PswWord` and `PswOf` are the union that
`SVC` and the return use.  Illegal words take the path the code takes: the
stale index, type and operands are kept and executed.

How `CachedCpu` composes: its state is that of `Cpu` with `lines` and
`cache_type`.  Which line an access uses and how usage counters change is asked
of an instance of `Cache` over those lines (`Cache(l)!Lookup`,
`Cache(l)!UsageAfter`), so the cache is stated once.  `Read` and `Write` take and
return the lines and memory, because the accesses of one instruction follow one
another; every step of `Cpu` that makes no access is taken from `Cpu` as it is
(`Elsewhere`).  `ReadLine` and `WriteLine` are such an access once its line is
known.  The dirty bit is left out here, because every access sets or clears it
before testing it; `Cache` has the test (`WriteIfDirty`).

How `Loader` follows `Loader.c`: `inrec` is the line buffer as slots of two
characters, each a byte or no digits; `nibble` counts slots.  `fgets` is the head
of the loop of `loader()`, `header` the common start of the three record
functions, `data` one round of their loops, `check` the end of the loop.  Every
variable survives a record as the globals of the program do.  A run whose
behaviour C does not define from some point on (a null stream, a read beyond the
buffer) ends there, at `"undefined"`.  A count below two is not such a point:
`len` wraps (`LessTwo`) and the loop goes on, storing what it scans, until it
leaves the buffer.  The mapping to `SRecords`
anticipates: `MemoryAfter` and `EntryAfter` have the effect of a complete record
from the moment its line is read, and the rounds of the loop then change nothing;
the effect of an incomplete record is seen as it happens.

What is abstracted: text, prompts and displays; `Clock`, which is only printed;
the operand `inc`, which is decoded but changes nothing; 2^16 memory locations,
kept as the finite function of those that were written, all others being 0;
`scanf()` given something other than numbers; the thread of a second handler, as
`ctrl_c` waits for the first to end; lines of a file with characters that are not
hex digits between pairs that are (`Loader.Line` is an unbroken run of pairs, cut
short or not).
`Cache` keeps memory with a parameter for its size and for the values of a byte,
because it copies data and never computes with them; `Cpu` uses flat memory,
which `CacheImplementsFlatMemory` justifies for programs with clean accesses
(section 5).  The menu of the PSW editor is one step per visit; only the PSW left
at the end matters, as nothing runs meanwhile.

## 3. Runs

Passing runs:

| Run | Checks | What it shows |
|---|---|---|
| `memory` | `TypeOK`, `Coherent`, `OneLinePerAddress`, `UsageOrdersLines`, `FilledIsPrefix`, `ImplementsFlatMemory`, `ImplementsLRU` | Both caches are invisible to a program of word accesses, across evictions, periods without cache and changes between the organisations; the counters encode exactly the recency order: hit, miss and victim agree with the list. |
| `edit` | `AccessIsHeld` | Whatever a user has made of the lines (two at one address, filled ones marked empty, lines out of place), an access leaves its data where the next lookup of the address finds it. |
| `tour` | `TypeOK`, `IndexInTable`, `ListensWhileRunning`, `PswGuarded`, `StopsWhenAsked`, `StopsSoon` | Every instruction, every fault, edits and ^C anywhere, also while the CPU is being started and the handler runs; once asked to stop, the CPU comes nearer to the menu with every step. |
| `programs` | `PrioritiesAscend`, `CexNotNested`, `TrapsOutsideBlocks`, `ImplementsPredication`, `ImplementsTraps`, `KeepsStack` | CEX blocks of every shape, left by branches or ended by traps to handlers with blocks of their own; traps nested, interrupted and resumed; and that these programs meet the conditions the theorems set. |
| `flags` | `AddRight`, `CompareRight`, `DecimalRight` | Sums, flags and comparisons at the boundaries of the ranges. |
| `loader` | `TypeOK`, `ImplementsSRecords`, `Loads`, `LoadsSoon` | A complete record has exactly its effect and its verdict whatever was read before it; one that is not complete damages nothing but what it names; every file is read to its end or to what is undefined, in a number of steps its lines bound, whatever the counts claim. |
| `system` | `LinesHoldMemory`, `AccessesClean`, `ImplementsCpu` | The processor does not notice the cache, also when it overwrites its own code, traps, or has the organisation changed at a breakpoint. |

Runs that expect a violation, each of one statement of the repository:

| Run | Statement | What the code does |
|---|---|---|
| `coldhit` | "exact address is found in cache" (cache.c:223) | `find_value()` ignores `empty`: the first access to address 0 hits an empty line and reads 0. |
| `byteread` | "Copy byte [R1] to R2" (Strings.asm:81) | A byte load that hits delivers the cached word. |
| `trapblock` | "save current state (PC, LR, word_psw.psw, CEX state)", "clear cex state information", "restore current state (... CEX state)" (Register_Operations.c:106, :123, Cpu.c:31); "CEX instruction is ON/TRUE" of the loops over a block (Cpu.c:179) | Only `CEX_state` is saved and cleared.  The counters run on: the first instructions of the handler are counted and skipped in place of the block's, and the rest of the block runs unpredicated. |
| `breakpoint` | "halt execution" at a breakpoint (README.md:12) | A breakpoint inside a CEX block is stepped over. |
| `svc` | "control passes to address specified in vector[SA]" (Register_Operations.c:89) | LR = 0xFFFF is copied over the handler's address unless the vector's PSW has its faulting bit set: the trap returns at once. |

Bounds, and why they are enough:

- *Cache.*  The code treats addresses and lines alike but for their order and the
  index of direct mapping, so what matters is to have more addresses than lines
  (`memory` 4 on 3: eviction with a line in the middle of the order) and addresses
  that share a direct-mapped line (2 and 8).  One word, that at 2, is told apart
  from a cleared line and from what is written; as the code treats data alike,
  one word that can be lost or stale is enough.  `edit` has one byte access and two
  lines, which user edits put at one address.  Bytes are 0 and 1.  No depth is bounded: the state spaces are finite.
- *Cpu.*  Programs are finite and fixed, everything around them is free: any
  breakpoint of the instance, PC, PSW and register edits at every visit to the
  menu (the register edit of `tour` is of a constant its loop uses), ^C
  between any two steps.  `MaxRuns` bounds only how often the CPU is started, 2
  or 4 times: enough to stop inside a block or handler and to resume.  `Tour`
  holds every kind of instruction, `Faults` every fault, `Nested` traps on three
  levels with and without handlers, `TrapLast` traps that end blocks, `InBlock`
  (in `tour` and `trapblock` only) traps with more of the block to come.
- *System.*  Eight lines: fewer than the words the programs fetch, push and
  load, so that they evict each other, and enough that a loop hits.  All three
  organisations may be selected at every visit to the menu, of which there are
  three (`MaxRuns` 2).
- *Alu.*  Sixteen values on both sides of every boundary of both widths, as the
  four digits DADD reads in either form; the theorems cover all values.
- *Loader.*  Three lines: one to leave something in buffer and variables, one to
  misread it, one to show that the damage ends there.  The eleven lines are every
  kind of record with a right, a wrong and an impossible count, and a buffer of
  nine slots (`Slots` 8, 127 in the code) is shorter than the longest count.
  `Unsigned`, where `len` wraps, is 65536 (2^32 in the code): it only matters
  that a wrapped count exceeds the buffer.

The passing runs of `Cpu`, `CachedCpu`, `Loader` and `Alu` do not check for
deadlock: the user may leave the menu alone, ^C may end the process, a loader ends
with its file, and an instance of `MCAlu` after its instruction.

What the properties assume of the program is part of their statement, or a
property of its own that the same run checks and the theorem has as a hypothesis:

- `ImplementsFlatMemory`, `Coherent`: word accesses at even addresses, and not
  address 0 under direct mapping.  `coldhit` and `byteread` show why.
- `ImplementsPredication`: `CexNotNested`, no `CEX` is executed inside the block
  of another (the counters are then overwritten; with `#T` = 0 the loop goes on
  from 65535), and `TrapsOutsideBlocks`, a trap has at most itself left of its
  block and a handler returns outside its own blocks.  `trapblock` shows what
  happens otherwise.
- `ImplementsTraps`, `PrioritiesAscend`: `KeepsStack`, a property of steps.  No
  instruction other than a trap or a return, and no visit to the menu, changes
  SP, the priority, the faulting bit, or a byte of the frames on the stack; and
  a return finds a frame.  The faulting bit belongs to this because the PSW saved
  by the next trap holds it.
- `ImplementsCpu`, `LinesHoldMemory`: `AccessesClean`, the condition of
  `Coherent` for the access or accesses the next step of the processor makes.
- `StopsWhenAsked`: no CEX block contains a branch back into itself, which would
  never let the inner loops of `cpu()` end.
- `StopsSoon`: `CexNotNested`, which the programs of `tour` meet.
- `AddRight`, `CompareRight`: not the sources at which the sign tables fail: for
  `ADDC` those whose sign changes when the carry is added, for `CMP` and `SUB` 0
  and the most negative number.

Fairness: weak fairness of the steps of `cpu()` and of those of the SIGINT
handler, and of the loader.  None of them ever waits, but for the disk, and their
threads are scheduled as long as the process runs.  Nothing is assumed of the
user: no start, edit or ^C need ever happen, and ^C under the default disposition
ends the process (`Alive`), after which nothing is promised.

Mutants: for each property of a passing run `PROJECT.json` names a definition and
a variant of it, in the same module and marked `Mutant of`, that changes the code
the way a slip would (a dropped mask, a reversed comparison, lines kept when an
organisation is selected, SP decremented late).  With the variant in place the
run finds the property violated.

## 4. Other divergences

Seen while reading and modelling, modelled as they are but where said, without a
run of their own: ^C is only looked at when a breakpoint is set (Cpu.c:207),
although Strings.asm:65 says "loop until ^C".  `change_registers()` says "Choice
not valid" for numbers its test `reg > 7 && reg < 0` never finds (Debugger.c:118).
Condition LS asks for carry clear *and* zero set,
and holds after CMP of neither equal nor lower operands
(Register_Operations.c:240, "unsigned lower or same").  The display of memory never ends if an interval starts at 0xFFF0 or later below
the stop address, as its 16-bit end wraps to 0 (Memory.c:72, not modelled).  A
record whose checksum is wrong has been loaded when that is found out
(Loader.c:68, :151), and after a missing file `loader()` reads from a null stream
(Loader.c:110).  `README.md:8` promises write-back, but a dirty line is overwritten or
cleaned without reaching memory (cache.c:177, :169).  The byte editor writes byte
0 of the line, not the line's byte (cache.c:89).  Without a breakpoint the CPU
stops when one word is fetched twice in a row (Cpu.c:210), which ends "No halt,
loop until ^C" (Strings.asm:65) after one repetition; so does a pass that fetches nothing, after a `CEX` with both
counts 0 or a return into a finished block whose frame restores a CEX state of 1.
After `CMP` of 0 the carry is clear, so CS/HS fails;
after `CMP` of the most negative number LT fails.  `SUBC.b` subtracts the complement
(line 101 of the arithmetic source) and `DADD` masks with the width inverted
(line 158).  `BLT` and `BGE` test N alone.  `SRA`, `RRC` and `COMP` take the width
bit inverted and their other form copies a byte of R0 or R1.  LD and ST adjust the
address register upwards even when neither INC nor DEC is given.

## 5. Proofs

Assumptions are those of the modules: `MemoryAssumption`, `FlatAssumption`,
`CacheAssumption` (sizes are positive, the instance's sets are typed),
`EditAssumption`, `CpuAssumption` (programs are bytes at 16-bit addresses, edits are 16-bit words,
registers are edited by numbers 0 to 15), `LoaderAssumption` (pairs of digits are
bytes, lines fit the buffer, `Unsigned` exceeds any count), `AluAssumption`.  TLC evaluates all of them.

`CacheProofs`
- `TypeCorrect`.  `TypeOK` is inductive: a counter is decremented only when it
  exceeds another one, hence is positive.
- `AccessesAreHeld`, for `EditSpec`: whatever the user has typed into the lines.
  The lookup that follows an access takes the first line at the address
  (`LookupAgain`); the access has stored its data there, and an update ages or
  fills lines but moves no other line to that address.
- `CountersOrderLines`.  `Counters`: types, distinct counters, and the filled
  lines being a prefix whose counters are the top of the range.  Distinctness
  alone is not inductive: the newest line gets `Lines - 1`, which is free only
  because every line above the used one ages.
- `FilledLinesArePrefix` is the second half of the same invariant.
- `AddressesAreDistinct`, for every program, clean or not: `Distinct` adds that a
  direct-mapped line sits at its index.  A miss finds no filled line with the
  address; a direct-mapped address has only one line it can be in.
- `CacheCoherent` and `CacheImplementsFlatMemory`, assuming `CleanAccesses`; the
  latter of `MarksSpec`, too, where the user edits dirty bits and counters
  (`CacheIsMarks`, `MarksAreEdits`): the invariant does not mention them.  No run
  has `MarksSpec`; its steps are among those of `edit`.  That a
  write reaches the bus, and a read does not write, follows from what the access
  does to the dirty bit before it tests it (`WriteReachesBus`,
  `ReadLeavesMemory`).
  `CoherentInv` adds that filled lines have even addresses, that empty ones still
  have address 0, and that a direct-mapped line sits at its index: without the
  second a miss could not be told from a hit on an empty line, and without the
  third the line after a change of organisation could be hit by the wrong rule.
  The refinement maps every access to `Read` or `Write` and everything else to a
  stutter.

`AluProofs`
- `AddIsAddition`, `CompareCompares`: `SignOf` turns a sign bit into a comparison
  with half the range; the eight rows of each table are then a case split in
  linear arithmetic.
- `DecimalAdds`: `DecimalColumn` says of one column that digit and half carry
  stand for the sum; four of them telescope.

`CpuProofs`
- `TypeCorrect` and `IndexStaysInTable` from `IInv == TypeOK /\ IndexInTable`.
  The two need each other: what an instruction writes is typed only if the index
  selects a function of the table, and the index stays inside because a decoder
  that finds nothing leaves it only when the new type is `reg_operation`, whose
  table is the longest; the other three always find an entry.
- `PswIsGuarded`, an action property, from `IInv`.
- `AlwaysListens` from `ListensInv`, which adds that the handler is bound once
  `bind` has been passed: ^C leaves the default only together with a handler that
  is not idle, and the handler becomes idle only by binding itself again.

`LRUProofs`
- `CacheImplementsLRU`, for every number of lines, every access and every change
  of organisation, clean or not.  That the counters are different
  (`UsageOrdersLines`) does not say which line is the k-th of the list without
  counting lines; the invariant `Ranked` therefore states there is a list `s`
  (`Listed`) with every counter of the top `n` taken, by the line that holds
  the matching element.  A hit moves the element at `Lines` minus the counter to
  the front (`HitListed`), a miss puts one in front of the list or of the list
  without its last (`MissListed`), and each is a step of `LRU` (`AccessIsUse`).

`PredicationProofs`
- `PredicationIsImplemented`, from `Spec`, the history variable (`Traced`),
  `[]CexNotNested` and `[]TrapsOutsideBlocks`.  What remains to
  be executed and skipped is computed from both counters, so the proof has to
  know when they are 0.  `BlockInv` adds to `IInv`: an instruction outside a block
  runs with both counters 0, inside the first part `true_count` is not 0, and
  the second part is entered only with `true_count` at 0; outside the loops
  counters may only be left over when `CEX_state` says a block is due.  Without
  the first hypothesis the first of these fails at the first nested `CEX`.  The
  second makes every suspended block an empty one (`AllDone`, `WindowAtTrap`), so
  that counters which know nothing of traps hold what the return resumes.
- `CpuStopsSoon`, an action property, from the same invariant and `SmallCounts`:
  the counters stay below 8, because they come from three bits and `BlockInv` says
  that none is decremented from 0 (`CountTakesOne`).  `StepsLeft` ranks the
  states: a round of an inner loop takes six from it and what the round does adds
  at most five, and the end of the pass leads to the menu because the CPU has been
  asked.  This is what `StopsWhenAsked` rests on, apart from fairness.

`TrapProofs`
- `FramesAscend` and `TrapsAreImplemented`, from `Spec` and `KeepsStack`.
  `StackInv` says that for some `n` up to 7 the stack holds `n` frames and
  nothing else (SP is eight times `n` below the vectors), that the faulting bit is
  clear in the current PSW and in every saved one, that the saved priorities
  ascend and end below the current one, and that the k-th of them is at least
  k - 1.  The bound on `n` is not assumed: it follows from the strict comparison
  in `SVC` and the eight priorities, and it is what keeps frames from wrapping
  around memory.  A push leaves the older frames alone because they lie above it
  (`FourPushed`).  A trap is an `Enter` of `Traps`, a return that finds a frame a
  `Return`, every other step a `Run`.

`CachedCpuProofs`
- `LinesAreCoherent` and `CpuIsImplemented`, from `CachedSpec` and
  `[]AccessesClean`, for any number of lines.  `CacheInv` (`Coherent` of this
  module) adds to `LinesHoldMemory` that filled lines have even and different
  addresses, that a direct-mapped line is where its address belongs and that an
  empty line keeps address 0.  `ReadIsBus` and `WriteIsBus` say of one access
  that it delivers or changes what `bus()` would and keeps the invariant; a
  step of several accesses (a return and its fetch: five, a trap: four) chains
  them, which is why the invariant is a predicate of lines and memory and not of
  a state.
- `TrapsWorkCached`, `PredicationWorksCached`: what `TrapProofs` and
  `PredicationProofs` show of the processor holds on the cache, through the
  refinement: for predication both that the steps of stopping fall and, with
  `Traced` and `[]TrapsOutsideBlocks`, that blocks are implemented.

`LoaderProofs`
- `TypeCorrect`.  `IInv` adds that what is left of the file is lines of bytes.
  The scan stays in the buffer because every step that moves `nibble` has tested
  it; `len` is a byte outside the loop and an `unsigned int` inside, where a count
  below two has wrapped.

- `RecordsAreLoaded`, for every set of files.  `RecordInv` says how far the record
  at hand has been read.  The line buffer holds its pairs; inside the loop the
  address, and for a count of two or more what is left of it, agree with the
  position (`InPlace`); of a complete
  record the checksum is the sum of the bytes before that position, and memory
  holds the data among them (`Applied`).  That this plus what is left is the whole
  effect (`WithOneMore`, `WithAll`) needs that the addresses of one record are
  different: a count is a byte and memory has 2^16 of them (`AddressesDiffer`).  An
  incomplete record writes inside what it names, or for a wrapped count as many
  bytes as the buffer has room for (`Room`, `AddressNamed`), and otherwise
  only ends or fails.
- The sums are a recursive function over the bytes of a record.  `TotalSums` is
  proved by induction over a set of natural numbers (`SetInduction`), which needs
  no operator as a parameter: it follows from the well-foundedness of `<`.
- `LoadingEnds`, an action property, from `IInv`: a round of the loop takes a slot
  of the buffer whatever `len` says, so that the `Slots` + 1 steps a line stands
  for are enough, also for a wrapped count.

Model-checked only: `StopsWhenAsked` and `Loads`, which are liveness and rest on
fairness; their safety halves are `CpuStopsSoon` and `LoadingEnds`.  `CexNotNested`,
`TrapsOutsideBlocks`, `KeepsStack` and `AccessesClean` are about particular
programs: there are programs that break each of them, so they are hypotheses of
theorems, and `programs` and `system` show that programs with nested
traps, blocks left by branches or ended by traps, and stores into their own code
meet them.

## 6. Plan

Done: memory, cache, arithmetic, decoder, processor, traps, the menu entries
that act on them, signals, the loader, the whole emulator over its cache, their
runs and the theorems above.  What is left would be new models rather than more of
these: the line editor of the cache together with the processor, and `cpu()` after
a nested `CEX`, for which the repository states no promise to check.

## 7. Not modelled

- Displays (`display_memory`, `display_cache`, registers, PSW) and all prompts:
  they change nothing the rest of the program reads.
- `Clock`, written everywhere and read only to be printed.
- `change_registers()` with numbers below 0 or beyond 15, which writes outside
  `regfile`; `scanf()` given no number.
- The line editor of the cache together with the processor: it makes the cache
  visible by design, and is modelled with arbitrary accesses in `CacheEdit`.
- Two SIGINT handlers at once; both would write the same values.
- Devices, timer, keyboard, screen, interrupts, step-through execution,
  `Exceptions.c` and `UserInterface.c`: README.md names them, no source has them.
- `Assembler.exe`, the `.xme`, `.asm` and `.lis` files: inputs, not the program.
