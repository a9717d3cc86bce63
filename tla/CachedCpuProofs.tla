---------------------------- MODULE CachedCpuProofs ----------------------------
(***************************************************************************)
(* The processor that reaches memory through a cache is the processor of   *)
(* Cpu, for every program whose accesses are clean, every number of lines  *)
(* and every sequence of organisations the user selects.                   *)
(***************************************************************************)
EXTENDS CachedCpu, PredicationProofs, TrapProofs

Records == [address : Word16, word : Word16, usage : Int, empty : BOOLEAN]

(* A line in use holds the word memory holds at its even address, is the
   only one for that address, and under direct mapping is the one the
   address selects; an empty line keeps the address 0 of init_cache().     *)
Coherent(l, m) ==
  /\ l \in [Line -> Records]
  /\ \A i \in Line : l[i].empty => l[i].address = 0
  /\ \A i \in Line : ~l[i].empty =>
       /\ l[i].address % 2 = 0
       /\ l[i].word = ReadBus(m, l[i].address, 0)
       /\ cache_type = "DIRECTMAPPING" => i = l[i].address % Lines
  /\ \A i, j \in Line :
       ~l[i].empty /\ ~l[j].empty /\ l[i].address = l[j].address => i = j

Holds(l, m) ==
  /\ cache_type \in {"ASSOCIATIVE", "DIRECTMAPPING", "NO_CACHE"}
  /\ cache_type # "NO_CACHE" => Coherent(l, m)

CacheInv == Holds(lines, memory)

-----------------------------------------------------------------------------
(* One access. *)

LEMMA HitIsHolder ==
  ASSUME NEW l, NEW m, Coherent(l, m), NEW a \in Word16, NEW i,
         cache_type \in {"ASSOCIATIVE", "DIRECTMAPPING"},
         cache_type = "DIRECTMAPPING" => a # 0,
         IsHit(a, i, l)
  PROVE  i \in Line /\ ~l[i].empty /\ l[i].address = a
<1>1. CASE cache_type = "ASSOCIATIVE"
  BY <1>1 DEF IsHit, Line, Cache!Lookup, Cache!LookupAS, Cache!IsFirst,
     Cache!Holding, Cache!Line
<1>2. CASE cache_type = "DIRECTMAPPING"
  <2>1. i = a % Lines /\ l[i].address = a
    BY <1>2 DEF IsHit, Cache!Lookup, Cache!LookupDM
  <2>2. a % Lines \in Line
    BY CachedAssumption, SMT DEF Line, Word16
  <2> QED BY <1>2, <2>1, <2>2 DEF Coherent
<1> QED BY <1>1, <1>2

LEMMA HolderIsHit ==
  ASSUME NEW l, NEW m, Coherent(l, m), NEW a \in Word16,
         cache_type \in {"ASSOCIATIVE", "DIRECTMAPPING"},
         NEW h \in Line, ~l[h].empty, l[h].address = a
  PROVE  IsHit(a, LineFor(a, l), l)
<1>1. CASE cache_type = "ASSOCIATIVE"
  <2>1. Cache(l)!Holding(a) = {h}
    BY DEF Coherent, Cache!Holding, Cache!Line, Line
  <2>2. Cache(l)!Lookup(a, h, "hit")
    BY <1>1, <2>1, CachedAssumption DEF Cache!Lookup, Cache!LookupAS, Cache!IsFirst, Line
  <2> DEFINE Q(i) == \E st \in {"hit", "miss"} : Cache(l)!Lookup(a, i, st)
  <2>3. Q(h)
    BY <2>2
  <2>4. Q(LineFor(a, l))
    <3> HIDE DEF Q
    <3>1. Q(CHOOSE i \in Line : Q(i))
      BY <2>3
    <3> QED BY <3>1 DEF Q, LineFor
  <2>5. PICK st \in {"hit", "miss"} : Cache(l)!Lookup(a, LineFor(a, l), st)
    BY <2>4
  <2>6. st = "hit"
    BY <1>1, <2>1, <2>5 DEF Cache!Lookup, Cache!LookupAS
  <2> QED BY <2>5, <2>6 DEF IsHit
<1>2. CASE cache_type = "DIRECTMAPPING"
  <2>1. h = a % Lines
    BY <1>2 DEF Coherent
  <2>2. \A i, st : Cache(l)!Lookup(a, i, st)
                     <=> i = h /\ st = IF l[i].address = a THEN "hit" ELSE "miss"
    BY <1>2, <2>1 DEF Cache!Lookup, Cache!LookupDM
  <2>3. Cache(l)!Lookup(a, h, "hit")
    BY <2>2
  <2>4. LineFor(a, l) = h
    BY <2>2, <2>3 DEF LineFor
  <2> QED BY <2>3, <2>4 DEF IsHit
<1> QED BY <1>1, <1>2

LEMMA LineForDM ==
  ASSUME NEW l, NEW a \in Word16, cache_type = "DIRECTMAPPING"
  PROVE  LineFor(a, l) = a % Lines
<1>1. \A i, st : Cache(l)!Lookup(a, i, st)
                   <=> i = a % Lines /\ st = IF l[i].address = a THEN "hit" ELSE "miss"
  BY DEF Cache!Lookup, Cache!LookupDM
<1>2. a % Lines \in Line
  BY CachedAssumption, SMT DEF Line, Word16
<1> QED BY <1>1, <1>2 DEF LineFor

LEMMA UsageType ==
  ASSUME NEW l, NEW m, Coherent(l, m), NEW op, NEW i, NEW j \in Line,
         cache_type \in {"ASSOCIATIVE", "DIRECTMAPPING"}
  PROVE  Cache(l)!UsageAfter(op, j, i) \in Int
<1>1. l[j].usage \in Int /\ Lines - 1 \in Int
  BY CachedAssumption DEF Coherent, Records
<1> QED BY <1>1 DEF Cache!UsageAfter

(* The lines stay coherent when the line an access to a chooses takes x, and
   memory holds x at a, and elsewhere what it held.                        *)
LEMMA AccessKeepsCoherent ==
  ASSUME NEW l, NEW m, NEW w, Coherent(l, m), NEW a \in Word16, a % 2 = 0,
         NEW x \in Word16, x = ReadBus(w, a, 0), NEW op,
         \A b \in Word16 : b % 2 = 0 /\ b # a => ReadBus(w, b, 0) = ReadBus(m, b, 0),
         cache_type \in {"ASSOCIATIVE", "DIRECTMAPPING"},
         cache_type = "DIRECTMAPPING" => a # 0
  PROVE  Coherent(LinesAfter(op, a, LineFor(a, l), IsHit(a, LineFor(a, l), l), x, l), w)
<1> DEFINE i == LineFor(a, l)
           hit == IsHit(a, i, l)
           after == LinesAfter(op, a, i, hit, x, l)
<1>1. hit => i \in Line /\ ~l[i].empty /\ l[i].address = a
  BY HitIsHolder
<1>2. ~hit => \A j \in Line : ~l[j].empty => l[j].address # a
  BY HolderIsHit
<1>3. cache_type = "DIRECTMAPPING" => i = a % Lines
  BY LineForDM
<1> HIDE DEF i, hit
<1>4. \A j \in Line : Cache(l)!UsageAfter(op, j, i) \in Int
  BY UsageType
<1>5. l \in [Line -> Records]
  BY DEF Coherent
<1>6. after \in [Line -> Records]
  <2>1. \A j \in Line : j # i => [l[j] EXCEPT !.usage = Cache(l)!UsageAfter(op, j, i)] \in Records
    BY <1>4, <1>5 DEF Records
  <2>2. \A j \in Line : [address |-> a, word |-> x, usage |-> Cache(l)!UsageAfter(op, j, i),
                         empty |-> hit /\ l[j].empty] \in Records
    BY <1>4, <1>5 DEF Records
  <2> QED BY <2>1, <2>2 DEF LinesAfter
<1>7. \A j \in Line : j # i =>
        /\ after[j].address = l[j].address /\ after[j].word = l[j].word
        /\ after[j].empty = l[j].empty
  BY <1>5 DEF LinesAfter, Records
<1>8. i \in Line => /\ after[i].address = a /\ after[i].word = x
                    /\ after[i].empty = FALSE
  BY <1>1 DEF LinesAfter
<1> HIDE DEF after
<1>9. \A j \in Line : j # i /\ ~l[j].empty => l[j].address # a
  BY <1>1, <1>2 DEF Coherent
<1>10. \A j \in Line : l[j].address \in Word16
  BY <1>5 DEF Records
<1>11. \A j \in Line : after[j].empty => after[j].address = 0
  BY <1>7, <1>8 DEF Coherent
<1>12. ASSUME NEW j \in Line, ~after[j].empty
       PROVE  /\ after[j].address % 2 = 0
              /\ after[j].word = ReadBus(w, after[j].address, 0)
              /\ cache_type = "DIRECTMAPPING" => j = after[j].address % Lines
  <2>1. CASE j = i
    BY <1>3, <1>8, <2>1
  <2>2. CASE j # i
    BY <1>7, <1>9, <1>10, <1>12, <2>2 DEF Coherent
  <2> QED BY <2>1, <2>2
<1>13. \A j, k \in Line : ~after[j].empty /\ ~after[k].empty
                            /\ after[j].address = after[k].address => j = k
  BY <1>7, <1>8, <1>9 DEF Coherent
<1>14. Coherent(after, w)
  BY <1>6, <1>11, <1>12, <1>13 DEF Coherent
<1> QED BY <1>14 DEF after, i, hit

LEMMA AccessFields ==
  ASSUME NEW l, NEW m, NEW d
  PROVE  /\ Access(l, m, d).lines = l /\ Access(l, m, d).memory = m
         /\ Access(l, m, d).data = d
BY DEF Access

(* What an access replaces of the record, a field at a time. *)
LEMMA LinesUpdated ==
  ASSUME NEW l, NEW m, NEW d, NEW k, NEW s, s = Access(l, m, d)
  PROVE  [s EXCEPT !.lines = k] = Access(k, m, d)
<1>1. s = [lines |-> l, memory |-> m, data |-> d]
  BY DEF Access
<1>2. [s EXCEPT !.lines = k] = [lines |-> k, memory |-> m, data |-> d]
  BY <1>1
<1> QED BY ONLY <1>2 DEF Access

LEMMA MemoryUpdated ==
  ASSUME NEW l, NEW m, NEW d, NEW k, NEW s, s = Access(l, m, d)
  PROVE  [s EXCEPT !.memory = k] = Access(l, k, d)
<1>1. s = [lines |-> l, memory |-> m, data |-> d]
  BY DEF Access
<1>2. [s EXCEPT !.memory = k] = [lines |-> l, memory |-> k, data |-> d]
  BY <1>1
<1> QED BY ONLY <1>2 DEF Access

LEMMA DataUpdated ==
  ASSUME NEW l, NEW m, NEW d, NEW k, NEW s, s = Access(l, m, d)
  PROVE  [s EXCEPT !.data = k] = Access(l, m, k)
<1>1. s = [lines |-> l, memory |-> m, data |-> d]
  BY DEF Access
<1>2. [s EXCEPT !.data = k] = [lines |-> l, memory |-> m, data |-> k]
  BY <1>1
<1> QED BY ONLY <1>2 DEF Access

(* A read delivers what the bus would. *)
LEMMA ReadIsBus ==
  ASSUME NEW l, NEW m, NEW d, Holds(l, m), IsMemory(m), NEW a \in Word16, NEW byte,
         cache_type # "NO_CACHE" => Clean(a, byte)
  PROVE  \E k : /\ Read(a, byte, Access(l, m, d)) = Access(k, m, ReadBus(m, a, byte))
                /\ Holds(k, m)
<1> DEFINE s == Access(l, m, d)
           i == LineFor(a, l)
           hit == IsHit(a, i, l)
<1>1. s.lines = l /\ s.memory = m
  BY AccessFields
<1>2. Read(a, byte, s) = ReadLine(a, byte, i, s)
  BY <1>1 DEF Read
<1>5. s = Access(l, m, d)
  OBVIOUS
<1> HIDE DEF s
<1>3. CASE cache_type = "NO_CACHE"
  <2>1. ReadLine(a, byte, i, s) = Access(l, m, ReadBus(m, a, byte))
    <3>1. ReadLine(a, byte, i, s) = [s EXCEPT !.data = ReadBus(m, a, byte)]
      BY <1>1, <1>3 DEF ReadLine
    <3> DEFINE y == ReadBus(m, a, byte)
    <3>2. ReadLine(a, byte, i, s) = [s EXCEPT !.data = y]
      BY <3>1
    <3> HIDE DEF y
    <3>3. [s EXCEPT !.data = y] = Access(l, m, y)
      BY <1>5, DataUpdated
    <3> QED BY <3>2, <3>3 DEF y
  <2> QED BY <1>2, <2>1 DEF s
<1>4. CASE cache_type # "NO_CACHE"
  <2> DEFINE x == IF hit THEN l[i].word ELSE ReadBus(m, a, byte)
             k == LinesAfter("read", a, i, hit, x, l)
  <2>1. /\ byte = 0 /\ a % 2 = 0 /\ Coherent(l, m)
        /\ cache_type \in {"ASSOCIATIVE", "DIRECTMAPPING"}
        /\ cache_type = "DIRECTMAPPING" => a # 0
    BY <1>4 DEF Clean, Holds
  <2>2. ReadLine(a, byte, i, s) = Access(k, m, x)
    <3> HIDE DEF i
    <3>1. ReadLine(a, byte, i, s) = [s EXCEPT !.data = x, !.lines = k]
      BY <1>1, <1>4 DEF ReadLine
    <3> HIDE DEF x, k
    <3>2. [s EXCEPT !.data = x] = Access(l, m, x)
      BY <1>5, DataUpdated
    <3>3. [Access(l, m, x) EXCEPT !.lines = k] = Access(k, m, x)
      BY LinesUpdated
    <3> QED BY <3>1, <3>2, <3>3
  <2>3. x = ReadBus(m, a, 0) /\ x \in Word16
    <3>1. hit => i \in Line /\ ~l[i].empty /\ l[i].address = a
      BY <2>1, HitIsHolder
    <3> HIDE DEF i, hit
    <3>2. hit => l[i].word = ReadBus(m, a, 0)
      BY <2>1, <3>1 DEF Coherent
    <3> QED BY <2>1, <3>2, ReadType DEF Bit
  <2> HIDE DEF x
  <2>4. Coherent(k, m)
    BY <2>1, <2>3, AccessKeepsCoherent
  <2> HIDE DEF k
  <2> QED BY <1>2, <2>1, <2>2, <2>3, <2>4 DEF Holds, s
<1> QED BY <1>3, <1>4

(* A write changes memory as the bus does. *)
LEMMA WriteIsBus ==
  ASSUME NEW l, NEW m, NEW d, Holds(l, m), NEW a \in Word16, NEW x \in Word16, NEW byte,
         cache_type # "NO_CACHE" => Clean(a, byte)
  PROVE  \E k : /\ Write(a, x, byte, Access(l, m, d)) = Access(k, WriteBus(m, a, x, byte), d)
                /\ Holds(k, WriteBus(m, a, x, byte))
<1> DEFINE s == Access(l, m, d)
           i == LineFor(a, l)
           w == WriteBus(m, a, x, byte)
<1>1. s.lines = l /\ s.memory = m /\ s.data = d
  BY AccessFields
<1>2. Write(a, x, byte, s) = WriteLine(a, x, byte, i, s)
  BY <1>1 DEF Write
<1>5. [s EXCEPT !.memory = w] = Access(l, w, d)
  <2> HIDE DEF w
  <2> QED BY MemoryUpdated
<1> HIDE DEF s
<1>3. CASE cache_type = "NO_CACHE"
  <2>1. WriteLine(a, x, byte, i, s) = Access(l, w, d)
    <3>1. WriteLine(a, x, byte, i, s) = [s EXCEPT !.memory = w, !.lines = l]
      BY <1>1, <1>3 DEF WriteLine
    <3> HIDE DEF w
    <3>2. [Access(l, w, d) EXCEPT !.lines = l] = Access(l, w, d)
      BY LinesUpdated
    <3> QED BY <1>5, <3>1, <3>2
  <2>2. Holds(l, w)
    BY <1>3 DEF Holds
  <2> QED BY <1>2, <2>1, <2>2 DEF s
<1>4. CASE cache_type # "NO_CACHE"
  <2> DEFINE k == LinesAfter("write", a, i, IsHit(a, i, l), x, l)
  <2>1. /\ byte = 0 /\ a % 2 = 0 /\ Coherent(l, m)
        /\ cache_type \in {"ASSOCIATIVE", "DIRECTMAPPING"}
        /\ cache_type = "DIRECTMAPPING" => a # 0
    BY <1>4 DEF Clean, Holds
  <2>2. WriteLine(a, x, byte, i, s) = Access(k, w, d)
    <3> HIDE DEF i
    <3>1. WriteLine(a, x, byte, i, s) = [s EXCEPT !.memory = w, !.lines = k]
      BY <1>1, <1>4 DEF WriteLine
    <3> HIDE DEF w, k
    <3>2. [Access(l, w, d) EXCEPT !.lines = k] = Access(k, w, d)
      BY LinesUpdated
    <3> QED BY <1>5, <3>1, <3>2
  <2>3. \A b \in Word16 : b \in Nat
    BY DEF Word16
  <2>4. /\ ReadBus(w, a, 0) = x
        /\ \A b \in Word16 : b % 2 = 0 /\ b # a => ReadBus(w, b, 0) = ReadBus(m, b, 0)
    BY <2>1, <2>3, ReadAfterWrite
  <2> HIDE DEF w
  <2>5. Coherent(k, w)
    BY <2>1, <2>4, AccessKeepsCoherent
  <2> HIDE DEF k
  <2> QED BY <1>2, <2>1, <2>2, <2>5 DEF Holds, s, w
<1> QED BY <1>3, <1>4

-----------------------------------------------------------------------------
(* A step that accesses memory is the step of Cpu, and leaves the lines in
   use true to memory.                                                     *)

LEMMA HoldsNext ==
  ASSUME Holds(lines', memory'), UNCHANGED cache_type
  PROVE  CacheInv'
BY DEF CacheInv, Holds, Coherent

LEMMA StackAddresses ==
  ASSUME IInv
  PROVE  /\ \A k \in 0 .. 3 : FromTop(k) \in Word16
         /\ \A k \in 1 .. 4 : BelowTop(k) \in Word16
<1>1. regfile[SP] \in Int
  BY WordIsInt DEF IInv, TypeOK, Register, SP
<1>2. ASSUME NEW k \in 0 .. 3 PROVE FromTop(k) \in Word16
  BY <1>1, SMT DEF FromTop, Plus, Word16
<1>3. ASSUME NEW k \in 1 .. 4 PROVE BelowTop(k) \in Word16
  BY <1>1, SMT DEF BelowTop, Plus, Word16
<1> QED BY <1>2, <1>3

LEMMA PulledType == ASSUME IInv, NEW k \in 0 .. 3 PROVE Pulled(k) \in Word16
BY StackAddresses, ReadType DEF Pulled, IInv, TypeOK, Bit

(* The fetch of an instruction. *)
LEMMA PlainFetch ==
  ASSUME IInv, CacheInv, AccessesClean, cached_fetch, ~Returning
  PROVE  fetch /\ CacheInv'
<1>1. /\ regfile[PC] \in Word16 /\ IsMemory(memory) /\ at = "fetch"
      /\ cache_type # "NO_CACHE" => Clean(regfile[PC], 0)
  BY DEF IInv, TypeOK, Register, PC, AccessesClean, cached_fetch
<1> DEFINE last == Read(regfile[PC], 0, Found)
<1>2. PICK k : last = Access(k, memory, ReadBus(memory, regfile[PC], 0)) /\ Holds(k, memory)
  BY <1>1, ReadIsBus DEF CacheInv, Found
<1>3. last.data = ReadBus(memory, regfile[PC], 0) /\ last.lines = k
  BY <1>2, AccessFields
<1>4. /\ IF regfile[PC] % 2 = 1 THEN Fault(word_psw) ELSE NoFault(word_psw)
      /\ MDR' = last.data
      /\ regfile' = [regfile EXCEPT ![PC] = Plus(@, 2)]
      /\ CEX_state' = CEX_state
      /\ lines' = last.lines
      /\ IR' = MDR'
      /\ at' = IF Skipped THEN "count" ELSE "decode"
      /\ UNCHANGED <<memory, MDR_prev, decoded, cond_state, true_count,
                     false_count, shell, block, cache_type>>
  BY DEF cached_fetch
<1> HIDE DEF last
<1>5. fetch
  BY <1>1, <1>3, <1>4 DEF fetch
<1>6. Holds(lines', memory')
  BY <1>2, <1>3, <1>4
<1> QED BY <1>4, <1>5, <1>6, HoldsNext

(* The fetch that first pulls the frame of a trap. *)
LEMMA ReturningFetch ==
  ASSUME IInv, CacheInv, AccessesClean, cached_fetch, Returning
  PROVE  fetch /\ CacheInv'
<1>1. /\ IsMemory(memory) /\ at = "fetch" /\ Holds(lines, memory)
      /\ cache_type # "NO_CACHE" => /\ \A k \in 0 .. 3 : Clean(FromTop(k), 0)
                                    /\ Clean(Pulled(3), 0)
  BY DEF IInv, TypeOK, AccessesClean, cached_fetch, CacheInv
<1> DEFINE cexs == Read(FromTop(0), 0, Found)
           psws == Read(FromTop(1), 0, cexs)
           lrs  == Read(FromTop(2), 0, psws)
           pcs  == Read(FromTop(3), 0, lrs)
           regs == [regfile EXCEPT ![LR] = lrs.data, ![PC] = pcs.data,
                                   ![SP] = Plus(@, 8)]
           last == Read(regs[PC], 0, pcs)
<1>2. /\ IF regs[PC] % 2 = 1 THEN Fault(PswOf(psws.data)) ELSE NoFault(PswOf(psws.data))
      /\ MDR' = last.data
      /\ regfile' = [regs EXCEPT ![PC] = Plus(@, 2)]
      /\ CEX_state' = cexs.data
      /\ lines' = last.lines
      /\ IR' = MDR'
      /\ at' = IF Skipped THEN "count" ELSE "decode"
      /\ UNCHANGED <<memory, MDR_prev, decoded, cond_state, true_count,
                     false_count, shell, block, cache_type>>
  BY DEF cached_fetch
<1>3. \A k \in 0 .. 3 : FromTop(k) \in Word16 /\ Pulled(k) \in Word16
  BY StackAddresses, PulledType
<1>4. 0 \in 0 .. 3 /\ 1 \in 0 .. 3 /\ 2 \in 0 .. 3 /\ 3 \in 0 .. 3
  OBVIOUS
<1>5. PICK k1 : cexs = Access(k1, memory, Pulled(0)) /\ Holds(k1, memory)
  BY <1>1, <1>3, <1>4, ReadIsBus DEF Found, Pulled
<1> HIDE DEF cexs
<1>6. PICK k2 : psws = Access(k2, memory, Pulled(1)) /\ Holds(k2, memory)
  BY <1>1, <1>3, <1>4, <1>5, ReadIsBus DEF Pulled
<1> HIDE DEF psws
<1>7. PICK k3 : lrs = Access(k3, memory, Pulled(2)) /\ Holds(k3, memory)
  BY <1>1, <1>3, <1>4, <1>6, ReadIsBus DEF Pulled
<1> HIDE DEF lrs
<1>8. PICK k4 : pcs = Access(k4, memory, Pulled(3)) /\ Holds(k4, memory)
  BY <1>1, <1>3, <1>4, <1>7, ReadIsBus DEF Pulled
<1> HIDE DEF pcs
<1>9. /\ cexs.data = Pulled(0) /\ psws.data = Pulled(1)
      /\ lrs.data = Pulled(2) /\ pcs.data = Pulled(3)
  BY <1>5, <1>6, <1>7, <1>8, AccessFields
<1>10. /\ regs = [regfile EXCEPT ![LR] = Pulled(2), ![PC] = Pulled(3), ![SP] = Plus(@, 8)]
       /\ regs[PC] = Pulled(3)
  BY <1>9 DEF IInv, TypeOK, Register, LR, PC, SP
<1> HIDE DEF regs
<1>11. PICK k5 : last = Access(k5, memory, ReadBus(memory, regs[PC], 0)) /\ Holds(k5, memory)
  BY <1>1, <1>3, <1>4, <1>8, <1>10, ReadIsBus
<1>12. last.data = ReadBus(memory, regs[PC], 0) /\ last.lines = k5
  BY <1>11, AccessFields
<1> HIDE DEF last
<1>13. fetch
  BY <1>1, <1>2, <1>9, <1>10, <1>12 DEF fetch
<1>14. Holds(lines', memory')
  BY <1>2, <1>11, <1>12
<1> QED BY <1>2, <1>13, <1>14, HoldsNext

LEMMA LoadIsCpu ==
  ASSUME IInv, CacheInv, AccessesClean, CachedLoad
  PROVE  Load /\ CacheInv'
<1>1. /\ IsMemory(memory) /\ Holds(lines, memory) /\ at = "execute"
      /\ regfile \in [Register -> Word16] /\ src \in Register /\ dst \in Register
      /\ operands.prpo \in {0, 1}
  BY OperandFields DEF IInv, TypeOK, CacheInv, CachedLoad, Executed, Operands
<1> DEFINE before == IF Function = "LD" /\ operands.prpo = 1
                     THEN [regfile EXCEPT ![src] = Adjusted(@)] ELSE regfile
           a == IF Function = "LDR" THEN Relative(regfile[src]) ELSE before[src]
           s == Read(a, wb, Found)
           loaded == [before EXCEPT ![dst] = s.data]
<1>2. /\ Executed /\ Function \in {"LD", "LDR"}
      /\ regfile' = IF Function = "LD" /\ operands.prpo = 0
                    THEN [loaded EXCEPT ![src] = Adjusted(@)] ELSE loaded
      /\ lines' = s.lines
      /\ UNCHANGED <<memory, word_psw, cex, double_fault, cache_type>>
  BY DEF CachedLoad
<1>3. /\ Function = "LD" => a = IF operands.prpo = 1 THEN Adjusted(regfile[src])
                                                   ELSE regfile[src]
      /\ Function = "LDR" => a = Relative(regfile[src])
  BY <1>1
<1>4. a \in Word16 /\ (cache_type # "NO_CACHE" => Clean(a, wb))
  <2>1. Function = "LD" \/ Function = "LDR"
    BY <1>2
  <2>2. regfile[src] \in Word16
    BY <1>1
  <2> HIDE DEF a
  <2>3. a \in Word16
    BY <1>3, <2>1, <2>2, AddressType
  <2>4. cache_type # "NO_CACHE" => Clean(a, wb)
    BY <1>1, <1>3, <2>1 DEF AccessesClean
  <2> QED BY <2>3, <2>4
<1> HIDE DEF a
<1>5. PICK k : s = Access(k, memory, ReadBus(memory, a, wb)) /\ Holds(k, memory)
  BY <1>1, <1>4, ReadIsBus DEF Found
<1>6. s.data = ReadBus(memory, a, wb) /\ s.lines = k
  BY <1>5, AccessFields
<1> HIDE DEF s
<1>7. Load
  <2>1. CASE Function = "LD" /\ operands.prpo = 0
    BY <1>1, <1>2, <1>3, <1>6, <2>1 DEF Load
  <2>2. CASE Function = "LD" /\ operands.prpo = 1
    BY <1>1, <1>2, <1>3, <1>6, <2>2 DEF Load
  <2>3. CASE Function = "LDR"
    BY <1>1, <1>2, <1>3, <1>6, <2>3 DEF Load
  <2> QED BY <1>1, <1>2, <2>1, <2>2, <2>3
<1>8. Holds(lines', memory')
  BY <1>2, <1>5, <1>6
<1> QED BY <1>2, <1>7, <1>8, HoldsNext

LEMMA StoreIsCpu ==
  ASSUME IInv, CacheInv, AccessesClean, CachedStore
  PROVE  Store /\ CacheInv'
<1>1. /\ Holds(lines, memory) /\ at = "execute"
      /\ regfile \in [Register -> Word16] /\ src \in Register /\ dst \in Register
      /\ operands.prpo \in {0, 1} /\ Function \in {"ST", "STR"}
  BY OperandFields DEF IInv, TypeOK, CacheInv, CachedStore, Executed, Operands
<1> DEFINE after == IF Function = "ST" THEN [regfile EXCEPT ![dst] = Adjusted(@)]
                                       ELSE regfile
           a == IF Function = "STR" THEN Relative(regfile[dst])
                ELSE IF operands.prpo = 1 THEN after[dst] ELSE regfile[dst]
           x == IF Function = "ST" /\ operands.prpo = 1 THEN after[src] ELSE regfile[src]
           byte == IF Function = "STR" THEN B(IR, 6) ELSE wb
           s == Write(a, x, byte, Found)
<1>2. /\ Executed /\ regfile' = after
      /\ memory' = s.memory /\ lines' = s.lines
      /\ UNCHANGED <<word_psw, cex, double_fault, cache_type>>
  <2>1. CASE Function = "STR"
    BY <2>1 DEF CachedStore
  <2>2. CASE Function = "ST" /\ operands.prpo = 0
    BY <2>2 DEF CachedStore
  <2>3. CASE Function = "ST" /\ operands.prpo = 1
    BY <2>3 DEF CachedStore
  <2> QED BY <1>1, <2>1, <2>2, <2>3
<1>3. /\ Function = "ST" => a = IF operands.prpo = 1 THEN Adjusted(regfile[dst])
                                                   ELSE regfile[dst]
      /\ Function = "STR" => a = Relative(regfile[dst])
  BY <1>1
<1>4. /\ a \in Word16 /\ x \in Word16
      /\ cache_type # "NO_CACHE" => Clean(a, byte)
  <2>1. regfile[dst] \in Word16 /\ regfile[src] \in Word16
    BY <1>1
  <2>2. x \in Word16
    BY <1>1, <2>1, AddressType
  <2> HIDE DEF a, x
  <2>3. a \in Word16
    BY <1>1, <1>3, <2>1, AddressType
  <2>4. cache_type # "NO_CACHE" => Clean(a, byte)
    <3>1. CASE Function = "ST"
      BY <1>1, <1>3, <3>1 DEF AccessesClean
    <3>2. CASE Function = "STR"
      BY <1>1, <1>3, <3>2 DEF AccessesClean
    <3> QED BY <1>1, <3>1, <3>2
  <2> QED BY <2>2, <2>3, <2>4
<1>5. PICK k : s = Access(k, WriteBus(memory, a, x, byte), 0)
               /\ Holds(k, WriteBus(memory, a, x, byte))
  <2> HIDE DEF a, x, byte
  <2> QED BY <1>1, <1>4, WriteIsBus DEF Found
<1> HIDE DEF s
<1>6. memory' = WriteBus(memory, a, x, byte) /\ lines' = k
  <2> HIDE DEF a, x, byte
  <2> QED BY <1>2, <1>5, AccessFields
<1>7. Store
  <2>1. CASE Function = "STR"
    BY <1>2, <1>6, <2>1 DEF Store
  <2>2. CASE Function = "ST" /\ operands.prpo = 0
    BY <1>1, <1>2, <1>6, <2>2 DEF Store
  <2>3. CASE Function = "ST" /\ operands.prpo = 1
    BY <1>1, <1>2, <1>6, <2>3 DEF Store
  <2> QED BY <1>1, <2>1, <2>2, <2>3
<1>8. Holds(lines', memory')
  <2> HIDE DEF a, x, byte
  <2> QED BY <1>5, <1>6
<1> QED BY <1>2, <1>7, <1>8, HoldsNext

LEMMA PushIsPushed ==
  ASSUME IInv, AccessesClean, at = "execute", Function = "SVC",
         NEW l, NEW m, NEW d, Holds(l, m), NEW k \in 1 .. 4, NEW x \in Word16
  PROVE  \E j : /\ Push(k, x, Access(l, m, d)) = Access(j, Pushed(k, x, m), d)
                /\ Holds(j, Pushed(k, x, m))
<1>1. BelowTop(k) \in Word16
  BY StackAddresses
<1>2. cache_type # "NO_CACHE" => Clean(BelowTop(k), 0)
  BY DEF AccessesClean
<1> QED BY <1>1, <1>2, WriteIsBus DEF Push, Pushed

LEMMA TrapIsCpu ==
  ASSUME IInv, CacheInv, AccessesClean, at = "execute", Function = "SVC",
         CachedTrap, UNCHANGED cache_type
  PROVE  Trap /\ CacheInv'
<1>1. /\ Holds(lines, memory) /\ regfile[PC] \in Word16 /\ regfile[LR] \in Word16
      /\ PswWord(word_psw) \in Word16 /\ CEX_state \in Word16
  BY PswType DEF IInv, TypeOK, CacheInv, Register, PC, LR
<1> DEFINE m1 == Pushed(1, regfile[PC], memory)
           m2 == Pushed(2, regfile[LR], m1)
           m3 == Pushed(3, PswWord(word_psw), m2)
           m4 == Pushed(4, CEX_state, m3)
           s1 == Push(1, regfile[PC], Found)
           s2 == Push(2, regfile[LR], s1)
           s3 == Push(3, PswWord(word_psw), s2)
           s4 == Push(4, CEX_state, s3)
<1>2. memory' = s4.memory /\ lines' = s4.lines
  BY DEF CachedTrap
<1>3. 1 \in 1 .. 4 /\ 2 \in 1 .. 4 /\ 3 \in 1 .. 4 /\ 4 \in 1 .. 4
  OBVIOUS
<1>4. memory' = m4 => Trap
  BY DEF CachedTrap, Trap
<1>5. PICK k1 : s1 = Access(k1, m1, 0) /\ Holds(k1, m1)
  BY <1>1, <1>3, PushIsPushed DEF Found
<1> HIDE DEF s1, m1
<1>6. PICK k2 : s2 = Access(k2, m2, 0) /\ Holds(k2, m2)
  BY <1>1, <1>3, <1>5, PushIsPushed
<1> HIDE DEF s2, m2
<1>7. PICK k3 : s3 = Access(k3, m3, 0) /\ Holds(k3, m3)
  BY <1>1, <1>3, <1>6, PushIsPushed
<1> HIDE DEF s3, m3
<1>8. PICK k4 : s4 = Access(k4, m4, 0) /\ Holds(k4, m4)
  BY <1>1, <1>3, <1>7, PushIsPushed
<1> HIDE DEF s4, m4
<1>9. memory' = m4 /\ lines' = k4
  BY <1>2, <1>8, AccessFields
<1> QED BY <1>4, <1>8, <1>9, HoldsNext

LEMMA SVCIsCpu ==
  ASSUME IInv, CacheInv, AccessesClean, CachedSVC
  PROVE  SVC /\ CacheInv'
<1>1. /\ Executed /\ at = "execute" /\ Function = "SVC"
      /\ UNCHANGED <<cond_state, true_count, false_count, cache_type>>
  BY DEF CachedSVC, Executed
<1>2. CASE CachedTrap
  BY <1>1, <1>2, TrapIsCpu DEF SVC
<1>3. CASE /\ word_psw.current >= VectorPsw.current
           /\ Fault(word_psw)
           /\ UNCHANGED <<memory, regfile, CEX_state, lines>>
  <2>1. SVC
    BY <1>1, <1>3 DEF SVC
  <2>2. Holds(lines', memory')
    BY <1>3 DEF CacheInv
  <2> QED BY <1>1, <2>1, <2>2, HoldsNext
<1> QED BY <1>2, <1>3 DEF CachedSVC

-----------------------------------------------------------------------------
(* The other steps access no memory. *)

LEMMA QuietLines ==
  ASSUME CacheInv, UNCHANGED <<memory, lines, cache_type>>
  PROVE  CacheInv'
BY HoldsNext DEF CacheInv

LEMMA ElsewhereIsCpu ==
  ASSUME Elsewhere
  PROVE  /\ \/ Dispatch \/ CexLoops \/ Count \/ Continue \/ decode \/ execute
         /\ UNCHANGED <<memory, cached>>
BY DEF Elsewhere, Dispatch, CexLoops, Count, Continue, decode, execute, Branch,
   Arithmetic, Move, SETPRI, SETCC, CLRCC, CEX

LEMMA EmptyLinesCohere ==
  /\ init_cache \in [Line -> Records]
  /\ \A i \in Line : init_cache[i].address = 0 /\ init_cache[i].empty
<1>1. 0 \in Word16 /\ 0 \in Int
  BY SMT DEF Word16
<1> QED BY <1>1 DEF init_cache, Records

LEMMA SelectKeepsInv ==
  ASSUME CacheInv, SelectCacheType
  PROVE  UNCHANGED vars /\ CacheInv'
<1>1. PICK t \in CacheTypes : cache_type' = t /\ lines' = LinesSelected(t)
  BY DEF SelectCacheType
<1>2. UNCHANGED vars
  BY DEF SelectCacheType
<1>3. cache_type' \in {"ASSOCIATIVE", "DIRECTMAPPING", "NO_CACHE"}
  BY <1>1, CachedAssumption
<1>4. cache_type' # "NO_CACHE" => Coherent(lines, memory)'
  <2> SUFFICES ASSUME cache_type' # "NO_CACHE"
               PROVE  Coherent(lines, memory)'
    OBVIOUS
  <2>1. lines' = init_cache
    BY <1>1 DEF LinesSelected
  <2> QED BY <2>1, EmptyLinesCohere DEF Coherent
<1> QED BY <1>2, <1>3, <1>4 DEF CacheInv, Holds

LEMMA CachedStep ==
  ASSUME IInv, CacheInv, AccessesClean, [CachedNext]_<<vars, cached>>
  PROVE  [Next]_vars /\ CacheInv'
<1>1. CASE Alive /\ Elsewhere
  BY <1>1, ElsewhereIsCpu, QuietLines DEF Next, cpu, cached
<1>2. CASE Alive /\ cached_fetch
  BY <1>2, PlainFetch, ReturningFetch DEF Next, cpu
<1>3. CASE Alive /\ CachedLoad
  BY <1>3, LoadIsCpu DEF Next, cpu, execute
<1>4. CASE Alive /\ CachedStore
  BY <1>4, StoreIsCpu DEF Next, cpu, execute
<1>5. CASE Alive /\ CachedSVC
  BY <1>5, SVCIsCpu DEF Next, cpu, execute
<1>6. CASE (Menu \/ ctrl_c \/ sigint_hdlr) /\ UNCHANGED cached
  <2>1. UNCHANGED memory
    BY <1>6 DEF Menu, initialize_signal_handler, bind, run_xm, break_point, change_pc,
       change_registers, edit_psw_bits, ctrl_c, sigint_hdlr, machine
  <2> QED BY <1>6, <2>1, QuietLines DEF Next, cached
<1>7. CASE SelectCacheType
  BY <1>7, SelectKeepsInv
<1>8. CASE UNCHANGED <<vars, cached>>
  BY <1>8, QuietLines DEF vars, cached
<1> QED
  BY <1>1, <1>2, <1>3, <1>4, <1>5, <1>6, <1>7, <1>8 DEF CachedNext

LEMMA CachedInitInv == CachedInit => Init /\ IInv /\ CacheInv
BY InitInv DEF CachedInit, CacheInv, Holds

LEMMA CachedInvStep ==
  IInv /\ CacheInv /\ AccessesClean /\ [CachedNext]_<<vars, cached>>
    => IInv' /\ CacheInv' /\ [Next]_vars
BY CachedStep, InvIsInductive

(* In every run whose accesses to a cache are clean, a line in use holds what
   memory holds: after any mixture of fetches, loads, stores and traps, and
   whatever organisations the user selects between two instructions.       *)
THEOREM LinesAreCoherent == CachedSpec /\ []AccessesClean => []LinesHoldMemory
<1>1. CacheInv => LinesHoldMemory
  BY DEF CacheInv, Holds, Coherent, LinesHoldMemory
<1> QED
  BY CachedInitInv, CachedInvStep, <1>1, PTL DEF CachedSpec

(* The processor then takes no step with a cache that it could not have taken
   without one.                                                            *)
THEOREM CpuIsImplemented == CachedSpec /\ []AccessesClean => ImplementsCpu
BY CachedInitInv, CachedInvStep, PTL DEF CachedSpec, ImplementsCpu, Spec

(* What is proved of the processor on flat memory is therefore true of the
   one on the cache: a return brings back what the trap pushed, although
   both reach the stack through lines that the code in between evicts.     *)
THEOREM TrapsWorkCached ==
  CachedSpec /\ []AccessesClean /\ KeepsStack => []PrioritiesAscend /\ ImplementsTraps
BY CpuIsImplemented, FramesAscend, TrapsAreImplemented, PTL DEF ImplementsCpu

(* And the blocks of a CEX are predicated and left as before, although the
   instructions they skip and execute are words out of lines.              *)
THEOREM PredicationWorksCached ==
  /\ CachedSpec /\ []AccessesClean /\ []CexNotNested => StopsSoon
  /\ CachedSpec /\ Traced /\ []AccessesClean /\ []CexNotNested
       /\ []TrapsOutsideBlocks => ImplementsPredication
BY CpuIsImplemented, PredicationIsImplemented, CpuStopsSoon, PTL DEF ImplementsCpu
=============================================================================
