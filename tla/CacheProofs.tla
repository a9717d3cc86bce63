----------------------------- MODULE CacheProofs -----------------------------
(***************************************************************************)
(* Theorems about Cache, for every number of lines and words, every set of *)
(* byte values and every program.                                          *)
(***************************************************************************)
EXTENDS CacheEdit, TLAPS

-----------------------------------------------------------------------------
(* The bus.                                                                *)

(* A read of the bus delivers a word. *)
LEMMA BusReadType ==
  ASSUME NEW m \in [Address -> Byte], NEW a \in Address, NEW wb \in Width
  PROVE  BusRead(m, a, wb) \in Word
<1>1. a \div 2 \in WordIndex /\ 2 * (a \div 2) \in Address /\ 2 * (a \div 2) + 1 \in Address
  BY MemoryAssumption DEF Address, WordIndex
<1> QED
  BY <1>1, MemoryAssumption DEF BusRead, WordAt, Word

(* A write of the bus leaves a memory. *)
LEMMA BusWriteType ==
  ASSUME NEW m \in [Address -> Byte], NEW a, NEW wb, NEW d \in Word
  PROVE  BusWrite(m, a, d, wb) \in [Address -> Byte]
BY DEF BusWrite, Word

LEMMA BusWriteTwice ==
  ASSUME NEW m, NEW a, NEW d, NEW wb
  PROVE  BusWrite(BusWrite(m, a, d, wb), a, d, wb) = BusWrite(m, a, d, wb)
<1> DEFINE m1 == BusWrite(m, a, d, wb)
           m2 == BusWrite(m1, a, d, wb)
<1>1. DOMAIN m1 = DOMAIN m /\ DOMAIN m2 = DOMAIN m
  BY DEF BusWrite
<1>2. ASSUME NEW b \in DOMAIN m PROVE m2[b] = m1[b]
  BY <1>1 DEF BusWrite
<1>3. m1 = [b \in DOMAIN m |-> m1[b]] /\ m2 = [b \in DOMAIN m |-> m2[b]]
  BY DEF BusWrite
<1> QED
  BY <1>2, <1>3

-----------------------------------------------------------------------------
(* The dirty bit.                                                          *)

(* A read finds the bit of its line clear when it tests it: the bus is not
   written, whatever the bit was.                                          *)
LEMMA ReadLeavesMemory ==
  ASSUME NEW a, NEW wb, CachedRead(a, wb)
  PROVE  memory' = memory
<1>1. PICK i \in Line, st \in CACHE_STATE :
        \E d : /\ cache' = update_cache("read", a, i, st, d)
              /\ memory' = WriteIfDirty(cache'[i], memory, a, d, wb)
  BY DEF CachedRead
<1>2. PICK d : /\ cache' = update_cache("read", a, i, st, d)
               /\ memory' = WriteIfDirty(cache'[i], memory, a, d, wb)
  BY <1>1
<1>3. ~cache'[i].dirty_bit
  BY <1>2 DEF update_cache
<1> QED
  BY <1>2, <1>3 DEF WriteIfDirty

(* A write finds it set, also on a line that was clean: the bus is written,
   once or twice.                                                          *)
LEMMA WriteReachesBus ==
  ASSUME NEW a, NEW wb, NEW d, CachedWrite(a, wb, d)
  PROVE  memory' = BusWrite(memory, a, d, wb)
<1>1. PICK i \in Line, st \in CACHE_STATE :
        /\ cache' = update_cache("write", a, i, st, d)
        /\ memory' = WriteIfDirty(cache'[i],
                       IF st = "miss" THEN BusWrite(memory, a, d, wb) ELSE memory,
                       a, d, wb)
  BY DEF CachedWrite
<1>2. cache'[i].dirty_bit
  BY <1>1 DEF update_cache
<1> QED
  BY <1>1, <1>2, BusWriteTwice DEF WriteIfDirty

-----------------------------------------------------------------------------
(* Type correctness.                                                       *)

LEMMA LinesAfterType ==
  ASSUME WellFormed, NEW op \in {"read", "write"}, NEW a \in Address,
         NEW i \in Line, NEW st \in CACHE_STATE, NEW d \in Word
  PROVE  update_cache(op, a, i, st, d) \in [Line -> CacheLine]
<1>1. \A j \in Line : UsageAfter(op, j, i) \in Int
  BY CacheAssumption DEF WellFormed, UsageAfter, CacheLine, Line
<1>2. \A j \in Line :
        (IF j = i THEN [cache[j].content EXCEPT ![a \div 2] = d]
                  ELSE cache[j].content) \in [WordIndex -> Word]
  BY DEF WellFormed, CacheLine
<1>3. \A j \in Line : /\ cache[j].address \in Address
                      /\ cache[j].dirty_bit \in BOOLEAN
                      /\ cache[j].empty \in BOOLEAN
  BY DEF WellFormed, CacheLine
<1> QED
  BY <1>1, <1>2, <1>3 DEF update_cache, CacheLine

(* A counter is decremented only if it is greater than another one. *)
LEMMA CountersInRange ==
  ASSUME TypeOK, NEW op, NEW a, NEW i \in Line, NEW st, NEW d
  PROVE  \A j \in Line : update_cache(op, a, i, st, d)[j].usage \in 0 .. Lines - 1
BY CacheAssumption DEF TypeOK, UsageAfter, update_cache, Line

LEMMA EmptyLineType == EmptyLine \in CacheLine /\ init_cache \in [Line -> CacheLine]
BY MemoryAssumption DEF EmptyLine, CacheLine, init_cache, ZeroWord, Word, Address, WordIndex

LEMMA EditType ==
  ASSUME WellFormed, NEW i \in Line, Edited(i)
  PROVE  cache' \in [Line -> CacheLine]
<1>1. cache[i] \in CacheLine /\ cache[i].address \div 2 \in WordIndex /\ 0 \in WordIndex
  BY MemoryAssumption DEF WellFormed, CacheLine, Address, WordIndex
<1>2. ASSUME NEW d \in Word
      PROVE  [cache EXCEPT ![i].content[cache[i].address \div 2] = d] \in [Line -> CacheLine]
  BY <1>1 DEF WellFormed, CacheLine
<1>3. ASSUME NEW b \in Byte
      PROVE  [cache EXCEPT ![i].content[0].lo = b] \in [Line -> CacheLine]
  <2>1. [cache[i].content[0] EXCEPT !.lo = b] \in Word
    BY <1>1 DEF CacheLine, Word
  <2> QED
    BY <1>1, <2>1 DEF WellFormed, CacheLine
<1>4. EditContent(i) => cache' \in [Line -> CacheLine]
  BY <1>2, <1>3 DEF EditContent
<1>5. EditAddress(i) \/ EditEmpty(i) \/ EditMarks(i) => cache' \in [Line -> CacheLine]
  BY <1>1, EditAssumption DEF EditAddress, EditEmpty, EditMarks, WellFormed, CacheLine
<1> QED
  BY <1>4, <1>5 DEF Edited

LEMMA WellFormedInductive ==
  /\ CacheInit => WellFormed
  /\ WellFormed /\ [EditNext]_vars => WellFormed'
<1>1. CacheInit => WellFormed
  <2> SUFFICES ASSUME CacheInit PROVE WellFormed
    OBVIOUS
  <2>1. [EmptyLine EXCEPT !.empty = FALSE] \in CacheLine
    BY EmptyLineType DEF CacheLine
  <2>2. Idle \in Port
    BY MemoryAssumption DEF Idle, Port, Address, Width, Word
  <2> QED
    BY <2>1, <2>2, FlatAssumption
    DEF CacheInit, Init, WellFormed, CACHE_TYPE, CACHE_STATE
<1>2. WellFormed /\ [EditNext]_vars => WellFormed'
  <2> SUFFICES ASSUME WellFormed, [EditNext]_vars PROVE WellFormed'
    OBVIOUS
  <2>1. ASSUME NEW x \in Accesses, CachedRead(x[1], x[2]) PROVE WellFormed'
    <3>1. x[1] \in Address /\ x[2] \in Width
      BY FlatAssumption
    <3>2. PICK i \in Line, st \in CACHE_STATE :
            LET d == IF st = "hit" THEN cache[i].content[x[1] \div 2]
                                   ELSE BusRead(memory, x[1], x[2])
            IN  /\ cache' = update_cache("read", x[1], i, st, d)
                /\ port' = Transfer("read", x[1], x[2], d)
                /\ state' = st
                /\ UNCHANGED cache_type
      BY <2>1 DEF CachedRead
    <3> DEFINE d == IF st = "hit" THEN cache[i].content[x[1] \div 2]
                                  ELSE BusRead(memory, x[1], x[2])
    <3>3. d \in Word
      <4>1. x[1] \div 2 \in WordIndex
        BY <3>1, MemoryAssumption DEF Address, WordIndex
      <4> QED
        BY <4>1, <3>1, BusReadType DEF WellFormed, CacheLine
    <3>4. port' \in Port
      BY <3>1, <3>2, <3>3 DEF Port, Transfer
    <3>5. cache' = update_cache("read", x[1], i, st, d)
      BY <3>2
    <3> HIDE DEF d
    <3>6. cache' \in [Line -> CacheLine]
      BY <3>1, <3>3, <3>5, LinesAfterType
    <3>7. memory' = memory
      BY <2>1, ReadLeavesMemory
    <3> QED
      BY <3>2, <3>4, <3>6, <3>7 DEF WellFormed
  <2>2. ASSUME NEW x \in Accesses, NEW d \in Data, CachedWrite(x[1], x[2], d)
        PROVE WellFormed'
    <3>1. x[1] \in Address /\ x[2] \in Width /\ d \in Word
      BY FlatAssumption
    <3>2. PICK i \in Line, st \in CACHE_STATE :
            /\ cache' = update_cache("write", x[1], i, st, d)
            /\ port' = Transfer("write", x[1], x[2], d)
            /\ state' = st
            /\ UNCHANGED cache_type
      BY <2>2 DEF CachedWrite
    <3>3. port' \in Port
      BY <3>1, <3>2 DEF Port, Transfer
    <3>4. cache' \in [Line -> CacheLine]
      BY <3>1, <3>2, LinesAfterType
    <3>5. memory' = BusWrite(memory, x[1], d, x[2])
      BY <2>2, WriteReachesBus
    <3>6. memory' \in [Address -> Byte]
      BY <3>1, <3>5, BusWriteType DEF WellFormed
    <3> QED
      BY <3>2, <3>3, <3>4, <3>6 DEF WellFormed
  <2>3. ASSUME NEW x \in Accesses, BusOnlyRead(x[1], x[2]) PROVE WellFormed'
    <3>1. x[1] \in Address /\ x[2] \in Width
      BY FlatAssumption
    <3>2. BusRead(memory, x[1], x[2]) \in Word
      BY <3>1, BusReadType DEF WellFormed
    <3>3. port' \in Port
      BY <2>3, <3>1, <3>2 DEF BusOnlyRead, Read, Port, Transfer
    <3> QED
      BY <2>3, <3>3 DEF BusOnlyRead, Read, WellFormed
  <2>4. ASSUME NEW x \in Accesses, NEW d \in Data, BusOnlyWrite(x[1], x[2], d)
        PROVE WellFormed'
    <3>1. x[1] \in Address /\ x[2] \in Width /\ d \in Word
      BY FlatAssumption
    <3>2. port' \in Port
      BY <2>4, <3>1 DEF BusOnlyWrite, Write, Port, Transfer
    <3>3. memory' \in [Address -> Byte]
      BY <2>4, <3>1, BusWriteType DEF BusOnlyWrite, Write, WellFormed
    <3> QED
      BY <2>4, <3>2, <3>3 DEF BusOnlyWrite, WellFormed
  <2>5. ASSUME NEW t \in CacheTypes, SelectCacheType(t) PROVE WellFormed'
    BY <2>5, EmptyLineType, CacheAssumption DEF SelectCacheType, WellFormed, CACHE_TYPE
  <2>6. ASSUME edit_cache_lines PROVE WellFormed'
    BY <2>6, EditType DEF edit_cache_lines, WellFormed
  <2>7. CASE UNCHANGED vars
    BY <2>7 DEF vars, WellFormed
  <2> QED
    BY <2>1, <2>2, <2>3, <2>4, <2>5, <2>6, <2>7 DEF EditNext, CacheNext
<1> QED
  BY <1>1, <1>2

(* Every reachable state is well typed, and no usage counter leaves
   0 .. Lines - 1, although update_cache() decrements without a test.      *)
THEOREM TypeCorrect == CacheSpec => []TypeOK
<1>1. CacheInit => TypeOK
  <2>1. CacheInit => \A i \in Line : cache[i].usage \in 0 .. Lines - 1
    BY CacheAssumption DEF CacheInit, EmptyLine
  <2> QED
    BY <2>1, WellFormedInductive DEF TypeOK
<1>2. ASSUME TypeOK, [CacheNext]_vars PROVE TypeOK'
  <2> DEFINE InRange == \A i \in Line : cache[i].usage \in 0 .. Lines - 1
  <2>1. WellFormed'
    BY <1>2, WellFormedInductive DEF TypeOK, EditNext
  <2>2. ASSUME NEW x \in Accesses, CachedRead(x[1], x[2]) PROVE InRange'
    BY <1>2, <2>2, CountersInRange DEF CachedRead
  <2>3. ASSUME NEW x \in Accesses, NEW d \in Data, CachedWrite(x[1], x[2], d)
        PROVE  InRange'
    BY <1>2, <2>3, CountersInRange DEF CachedWrite
  <2>4. ASSUME UNCHANGED cache PROVE InRange'
    BY <1>2, <2>4 DEF TypeOK
  <2>5. ASSUME NEW t \in CacheTypes, SelectCacheType(t) PROVE InRange'
    BY <1>2, <2>5, CacheAssumption DEF SelectCacheType, TypeOK, init_cache, EmptyLine
  <2>6. InRange'
    BY <1>2, <2>2, <2>3, <2>4, <2>5 DEF CacheNext, BusOnlyRead, BusOnlyWrite, vars
  <2> QED
    BY <2>1, <2>6 DEF TypeOK
<1>3. TypeOK /\ [CacheNext]_vars => TypeOK'
  BY <1>2
<1> QED
  BY <1>1, <1>3, PTL DEF CacheSpec

-----------------------------------------------------------------------------
(* What an access leaves, on lines the user has edited.                    *)

(* The line an access used is the one the next lookup of its address finds. *)
LEMMA LookupAgain ==
  ASSUME WellFormed, NEW op, NEW a \in Address, NEW i \in Line,
         NEW st \in CACHE_STATE, NEW d, Lookup(a, i, st),
         cache' = update_cache(op, a, i, st, d), cache_type' = cache_type
  PROVE  Lookup(a, i, "hit")' /\ cache'[i].content[a \div 2] = d
<1>1. cache'[i].content[a \div 2] = d
  BY MemoryAssumption DEF update_cache, WellFormed, CacheLine, Address, WordIndex
<1>2. CASE cache_type = "ASSOCIATIVE"
  <2>1. LookupAS(a, i, st)
    BY <1>2 DEF Lookup
  <2>2. ~cache'[i].empty /\ cache'[i].address = a
    BY <2>1 DEF LookupAS, IsFirst, Holding, update_cache, CACHE_STATE
  <2>3. \A j \in Line : j # i => /\ cache'[j].empty = cache[j].empty
                                /\ cache'[j].address = cache[j].address
    BY DEF update_cache, WellFormed, CacheLine
  <2>4. \A j \in Holding(a) : i <= j
    BY <2>1 DEF LookupAS, IsFirst
  <2>5. \A j \in Holding(a)' : i <= j
    BY <2>3, <2>4 DEF Holding, Line
  <2> QED
    BY <1>1, <1>2, <2>2, <2>5 DEF Lookup, LookupAS, IsFirst, Holding
<1>3. CASE cache_type = "DIRECTMAPPING"
  <2>1. i = a % Lines /\ (st = "hit" => cache[i].address = a)
    BY <1>3 DEF Lookup, LookupDM
  <2>2. cache'[i].address = a
    BY <2>1 DEF update_cache, CACHE_STATE
  <2> QED
    BY <1>1, <1>3, <2>1, <2>2 DEF Lookup, LookupDM
<1> QED
  BY <1>2, <1>3 DEF Lookup

(* Whatever the user has made of the lines, an access leaves its data where
   the next lookup of its address finds it.                                *)
THEOREM AccessesAreHeld == EditSpec => AccessIsHeld
<1>1. ASSUME WellFormed, NEW x \in Accesses, CachedRead(x[1], x[2])
      PROVE  Held(x[1])'
  <2>1. PICK i \in Line, st \in CACHE_STATE :
          LET d == IF st = "hit" THEN cache[i].content[x[1] \div 2]
                                 ELSE BusRead(memory, x[1], x[2])
          IN  /\ Lookup(x[1], i, st)
              /\ cache' = update_cache("read", x[1], i, st, d)
              /\ port' = Transfer("read", x[1], x[2], d)
              /\ cache_type' = cache_type
    BY <1>1 DEF CachedRead
  <2> DEFINE d == IF st = "hit" THEN cache[i].content[x[1] \div 2]
                                ELSE BusRead(memory, x[1], x[2])
  <2>2. /\ Lookup(x[1], i, st) /\ cache_type' = cache_type
        /\ cache' = update_cache("read", x[1], i, st, d)
        /\ port'.data = d
    BY <2>1 DEF Transfer
  <2> HIDE DEF d
  <2>3. Lookup(x[1], i, "hit")' /\ cache'[i].content[x[1] \div 2] = d
    BY <1>1, <2>2, LookupAgain, FlatAssumption
  <2> QED
    BY <2>2, <2>3 DEF Held
<1>2. ASSUME WellFormed, NEW x \in Accesses, NEW d \in Data, CachedWrite(x[1], x[2], d)
      PROVE  Held(x[1])'
  <2>1. PICK i \in Line, st \in CACHE_STATE :
          /\ Lookup(x[1], i, st) /\ cache_type' = cache_type
          /\ cache' = update_cache("write", x[1], i, st, d)
          /\ port'.data = d
    BY <1>2 DEF CachedWrite, Transfer
  <2>2. Lookup(x[1], i, "hit")' /\ cache'[i].content[x[1] \div 2] = d
    BY <1>2, <2>1, LookupAgain, FlatAssumption
  <2> QED
    BY <2>1, <2>2 DEF Held
<1>3. WellFormed => \A x \in Accesses : CachedAccess(x) => Held(x[1])'
  BY <1>1, <1>2 DEF CachedAccess
<1>4. WellFormed /\ [EditNext]_vars
        => [\A x \in Accesses : CachedAccess(x) => Held(x[1])']_vars
  BY <1>3
<1> QED
  BY <1>4, WellFormedInductive, PTL DEF EditSpec, AccessIsHeld

-----------------------------------------------------------------------------
(* The counters of the associative organisation.                           *)

Counters == TypeOK /\ UsageOrdersLines /\ FilledIsPrefix

LEMMA CountersAfterAccess ==
  ASSUME Counters, NEW a \in Address, NEW op, NEW d,
         NEW i \in Line, NEW st \in CACHE_STATE, Lookup(a, i, st),
         cache' = update_cache(op, a, i, st, d), cache_type' = cache_type,
         cache_type = "ASSOCIATIVE"
  PROVE  UsageOrdersLines' /\ FilledIsPrefix'
<1>1. PICK n \in 0 .. Lines : \A j \in Line :
        /\ cache[j].empty <=> n <= j
        /\ IF cache[j].empty THEN cache[j].usage = 0
                             ELSE Lines - n <= cache[j].usage
  BY DEF Counters, FilledIsPrefix
<1>2. \A j \in Line : cache[j].usage \in 0 .. Lines - 1 /\ cache[j].empty \in BOOLEAN
  BY DEF Counters, TypeOK, WellFormed, CacheLine
<1>3. LookupAS(a, i, st)
  BY DEF Lookup
<1>4. \A j \in Line :
        /\ cache'[j].empty = (cache[j].empty /\ (j # i \/ st = "hit"))
        /\ cache'[j].usage = IF j = i THEN Lines - 1
                             ELSE IF ~cache[j].empty /\ cache[j].usage > cache[i].usage
                             THEN cache[j].usage - 1 ELSE cache[j].usage
  BY DEF update_cache, UsageAfter
<1>5. CASE ~cache[i].empty
  (* A hit, or an eviction: the same lines stay filled. *)
  <2>1. \A j \in Line : cache'[j].empty = cache[j].empty
    BY <1>2, <1>4, <1>5
  <2>2. \A j, k \in Line : ~cache[j].empty /\ ~cache[k].empty
                            /\ cache[j].usage = cache[k].usage => j = k
    BY DEF Counters, UsageOrdersLines, Filled
  <2>3. UsageOrdersLines'
    BY <1>2, <1>4, <1>5, <2>1, <2>2, CacheAssumption DEF UsageOrdersLines, Filled
  <2>4. FilledIsPrefix'
    BY <1>1, <1>2, <1>4, <1>5, <2>1, CacheAssumption DEF FilledIsPrefix, Line
  <2> QED
    BY <2>3, <2>4
<1>6. CASE cache[i].empty
  (* A miss that fills the first empty line, which is line n. *)
  <2>1. st = "miss" /\ IsFirst(i, Unfilled)
    BY <1>3, <1>6 DEF LookupAS, IsFirst, Holding, Unfilled
  <2>2. i = n /\ n \in 0 .. Lines - 1
    BY <1>1, <1>6, <2>1, CacheAssumption DEF IsFirst, Unfilled, Line
  <2>3. cache[i].usage = 0
    BY <1>1, <1>6
  <2>4. \A j \in Line : ~cache[j].empty => cache'[j].usage = cache[j].usage - 1
    BY <1>1, <1>2, <1>4, <1>6, <2>2, <2>3, CacheAssumption DEF Line
  <2>5. ASSUME NEW j \in Line PROVE cache'[j].empty <=> n + 1 <= j
    <3>1. cache'[j].empty <=> cache[j].empty /\ j # i
      BY <1>4, <2>1
    <3>2. cache[j].empty <=> n <= j
      BY <1>1
    <3>3. n <= j /\ j # n <=> n + 1 <= j
      BY DEF Line
    <3> QED
      BY <2>2, <3>1, <3>2, <3>3
  <2>6. \A j, k \in Line : ~cache[j].empty /\ ~cache[k].empty
                            /\ cache[j].usage = cache[k].usage => j = k
    BY DEF Counters, UsageOrdersLines, Filled
  <2>7. UsageOrdersLines'
    BY <1>2, <1>4, <1>6, <2>1, <2>4, <2>6, CacheAssumption DEF UsageOrdersLines, Filled
  <2>8. FilledIsPrefix'
    <3>1. n + 1 \in 0 .. Lines
      BY <2>2, CacheAssumption
    <3>2. ASSUME NEW j \in Line
          PROVE  IF cache'[j].empty THEN cache'[j].usage = 0
                                    ELSE Lines - (n + 1) <= cache'[j].usage
      <4>1. CASE j = i
        BY <1>4, <2>2, <2>5, <4>1, CacheAssumption DEF Line
      <4>2. CASE j # i /\ cache[j].empty
        BY <1>1, <1>4, <2>1, <4>2
      <4>3. CASE j # i /\ ~cache[j].empty
        <5>1. ~cache'[j].empty
          BY <1>4, <4>3
        <5>2. Lines - n <= cache[j].usage /\ cache'[j].usage = cache[j].usage - 1
          BY <1>1, <2>4, <4>3
        <5>3. Lines - (n + 1) <= cache'[j].usage
          BY <1>2, <5>2, <2>2, CacheAssumption
        <5> QED
          BY <5>1, <5>3
      <4> QED
        BY <4>1, <4>2, <4>3
    <3> QED
      BY <2>5, <3>1, <3>2 DEF FilledIsPrefix
  <2> QED
    BY <2>7, <2>8
<1> QED
  BY <1>2, <1>5, <1>6

(* The counters order the filled lines, which are a prefix of the array:
   the line the associative cache evicts is always unique.                 *)
THEOREM CountersOrderLines == CacheSpec => [](UsageOrdersLines /\ FilledIsPrefix)
<1>1. CacheInit => UsageOrdersLines /\ FilledIsPrefix
  BY DEF CacheInit, UsageOrdersLines, FilledIsPrefix
<1>2. Counters /\ [CacheNext]_vars => UsageOrdersLines' /\ FilledIsPrefix'
  <2> SUFFICES ASSUME Counters, [CacheNext]_vars
               PROVE  UsageOrdersLines' /\ FilledIsPrefix'
    OBVIOUS
  <2>1. ASSUME NEW x \in Accesses, CachedRead(x[1], x[2])
        PROVE  UsageOrdersLines' /\ FilledIsPrefix'
    <3>1. PICK i \in Line, st \in CACHE_STATE :
            /\ Lookup(x[1], i, st)
            /\ \E d : cache' = update_cache("read", x[1], i, st, d)
            /\ cache_type' = cache_type
      BY <2>1 DEF CachedRead
    <3>2. CASE cache_type = "ASSOCIATIVE"
      BY <3>1, <3>2, CountersAfterAccess, FlatAssumption
    <3>3. CASE cache_type # "ASSOCIATIVE"
      BY <3>1, <3>3 DEF UsageOrdersLines, FilledIsPrefix
    <3> QED
      BY <3>2, <3>3
  <2>2. ASSUME NEW x \in Accesses, NEW d \in Data, CachedWrite(x[1], x[2], d)
        PROVE  UsageOrdersLines' /\ FilledIsPrefix'
    <3>1. PICK i \in Line, st \in CACHE_STATE :
            /\ Lookup(x[1], i, st)
            /\ cache' = update_cache("write", x[1], i, st, d)
            /\ cache_type' = cache_type
      BY <2>2 DEF CachedWrite
    <3>2. CASE cache_type = "ASSOCIATIVE"
      BY <3>1, <3>2, CountersAfterAccess, FlatAssumption
    <3>3. CASE cache_type # "ASSOCIATIVE"
      BY <3>1, <3>3 DEF UsageOrdersLines, FilledIsPrefix
    <3> QED
      BY <3>2, <3>3
  <2>3. ASSUME NEW x \in Accesses, NEW d \in Data,
               BusOnlyWrite(x[1], x[2], d)
        PROVE  UsageOrdersLines' /\ FilledIsPrefix'
    BY <2>3 DEF BusOnlyWrite, UsageOrdersLines, FilledIsPrefix
  <2>4. ASSUME NEW t \in CacheTypes, SelectCacheType(t)
        PROVE  UsageOrdersLines' /\ FilledIsPrefix'
    <3>1. CASE t = "NO_CACHE"
      BY <2>4, <3>1 DEF SelectCacheType, UsageOrdersLines, FilledIsPrefix
    <3>2. CASE t # "NO_CACHE"
      <4>1. \A j \in Line : cache'[j].empty /\ cache'[j].usage = 0
        BY <2>4, <3>2 DEF SelectCacheType, init_cache, EmptyLine
      <4>2. UsageOrdersLines'
        BY <4>1 DEF UsageOrdersLines, Filled
      <4>3. FilledIsPrefix'
        BY <4>1, CacheAssumption DEF FilledIsPrefix, Line
      <4> QED
        BY <4>2, <4>3
    <3> QED
      BY <3>1, <3>2
  <2>5. CASE UNCHANGED vars
    BY <2>5 DEF vars, Counters, UsageOrdersLines, FilledIsPrefix, Filled
  <2>6. ASSUME NEW x \in Accesses, BusOnlyRead(x[1], x[2])
        PROVE  UsageOrdersLines' /\ FilledIsPrefix'
    BY <2>6 DEF BusOnlyRead, UsageOrdersLines, FilledIsPrefix
  <2> QED
    BY <2>1, <2>2, <2>3, <2>4, <2>5, <2>6 DEF CacheNext
<1> QED
  BY <1>1, <1>2, TypeCorrect, PTL DEF CacheSpec, Counters

(* The same for the lines alone: the associative cache fills its lines from
   line 0 up, so its scan for an empty line never passes over one.         *)
THEOREM FilledLinesArePrefix == CacheSpec => []FilledIsPrefix
BY CountersOrderLines, PTL

-----------------------------------------------------------------------------
(* One line for each address.                                              *)

(* A filled line of the direct-mapped cache is where its address maps. *)
LinesInPlace ==
  cache_type = "DIRECTMAPPING" => \A i \in Filled : cache[i].address % Lines = i

Distinct == TypeOK /\ OneLinePerAddress /\ LinesInPlace

(* Whatever is read or written, byte or word: the line an access uses is the
   only one that then has its address.                                     *)
LEMMA DistinctAfterAccess ==
  ASSUME Distinct, NEW a \in Address, NEW op, NEW d,
         NEW i \in Line, NEW st \in CACHE_STATE, Lookup(a, i, st),
         cache' = update_cache(op, a, i, st, d), cache_type' = cache_type
  PROVE  OneLinePerAddress' /\ LinesInPlace'
<1>0. \A j \in Line : cache[j].empty \in BOOLEAN
  BY DEF Distinct, TypeOK, WellFormed, CacheLine
<1>1. \A j \in Line :
        /\ cache'[j].empty = (cache[j].empty /\ (j # i \/ st = "hit"))
        /\ cache'[j].address = IF j = i /\ st = "miss" THEN a ELSE cache[j].address
  BY DEF update_cache
<1>2. Caching /\ \A j, k \in Filled : cache[j].address = cache[k].address => j = k
  BY DEF Distinct, OneLinePerAddress, Lookup, Caching
<1>3. CASE cache_type = "ASSOCIATIVE"
  <2>1. LookupAS(a, i, st)
    BY <1>3 DEF Lookup
  <2>2. CASE st = "hit"
    <3>1. \A j \in Line : /\ cache'[j].empty = cache[j].empty
                          /\ cache'[j].address = cache[j].address
      BY <1>0, <1>1, <2>2
    <3> QED
      BY <1>2, <1>3, <3>1 DEF OneLinePerAddress, LinesInPlace, Filled
  <2>3. CASE st = "miss"
    <3>1. \A j \in Filled : cache[j].address # a
      BY <2>1, <2>3 DEF LookupAS, Holding, Filled
    <3>2. \A j \in Line : j # i => /\ cache'[j].empty = cache[j].empty
                                   /\ cache'[j].address = cache[j].address
      BY <1>0, <1>1
    <3>3. cache'[i].address = a
      BY <1>1, <2>3
    <3> QED
      BY <1>2, <1>3, <3>1, <3>2, <3>3 DEF OneLinePerAddress, LinesInPlace, Filled
  <2> QED
    BY <2>2, <2>3 DEF CACHE_STATE
<1>4. CASE cache_type = "DIRECTMAPPING"
  <2>1. i = a % Lines /\ (st = "hit" <=> cache[i].address = a)
    BY <1>4 DEF Lookup, LookupDM, CACHE_STATE
  <2>2. cache'[i].address = a
    BY <1>1, <2>1 DEF CACHE_STATE
  <2>3. \A j \in Line : j # i => /\ cache'[j].empty = cache[j].empty
                                 /\ cache'[j].address = cache[j].address
    BY <1>0, <1>1
  <2>4. \A j \in Filled : cache[j].address % Lines = j
    BY <1>4 DEF Distinct, LinesInPlace
  <2>5. LinesInPlace'
    BY <1>4, <2>1, <2>2, <2>3, <2>4 DEF LinesInPlace, Filled
  <2>6. OneLinePerAddress'
    BY <1>4, <2>5 DEF OneLinePerAddress, LinesInPlace, Filled
  <2> QED
    BY <2>5, <2>6
<1> QED
  BY <1>3, <1>4 DEF Lookup

(* For every program, whatever the width and the addresses of its accesses:
   no address is in two lines of either cache, so that the single line a
   write updates (update_cache() of cache.c) is the only copy there is.    *)
THEOREM AddressesAreDistinct == CacheSpec => []OneLinePerAddress
<1>1. CacheInit => OneLinePerAddress /\ LinesInPlace
  BY DEF CacheInit, OneLinePerAddress, LinesInPlace, Caching
<1>2. Distinct /\ [CacheNext]_vars => OneLinePerAddress' /\ LinesInPlace'
  <2> SUFFICES ASSUME Distinct, [CacheNext]_vars
               PROVE  OneLinePerAddress' /\ LinesInPlace'
    OBVIOUS
  <2>1. ASSUME NEW x \in Accesses, CachedRead(x[1], x[2])
        PROVE  OneLinePerAddress' /\ LinesInPlace'
    <3>1. PICK i \in Line, st \in CACHE_STATE :
            /\ Lookup(x[1], i, st)
            /\ \E d : cache' = update_cache("read", x[1], i, st, d)
            /\ cache_type' = cache_type
      BY <2>1 DEF CachedRead
    <3> QED
      BY <3>1, DistinctAfterAccess, FlatAssumption
  <2>2. ASSUME NEW x \in Accesses, NEW d \in Data, CachedWrite(x[1], x[2], d)
        PROVE  OneLinePerAddress' /\ LinesInPlace'
    <3>1. PICK i \in Line, st \in CACHE_STATE :
            /\ Lookup(x[1], i, st)
            /\ cache' = update_cache("write", x[1], i, st, d)
            /\ cache_type' = cache_type
      BY <2>2 DEF CachedWrite
    <3> QED
      BY <3>1, DistinctAfterAccess, FlatAssumption
  <2>3. ASSUME NEW x \in Accesses, NEW d \in Data,
               BusOnlyWrite(x[1], x[2], d)
        PROVE  OneLinePerAddress' /\ LinesInPlace'
    BY <2>3 DEF BusOnlyWrite, OneLinePerAddress, LinesInPlace, Caching
  <2>4. ASSUME NEW x \in Accesses, BusOnlyRead(x[1], x[2])
        PROVE  OneLinePerAddress' /\ LinesInPlace'
    BY <2>4 DEF BusOnlyRead, OneLinePerAddress, LinesInPlace, Caching
  <2>5. ASSUME NEW t \in CacheTypes, SelectCacheType(t)
        PROVE  OneLinePerAddress' /\ LinesInPlace'
    <3>1. CASE t = "NO_CACHE"
      BY <2>5, <3>1 DEF SelectCacheType, OneLinePerAddress, LinesInPlace, Caching
    <3>2. CASE t # "NO_CACHE"
      <4>1. \A j \in Line : cache'[j].empty
        BY <2>5, <3>2 DEF SelectCacheType, init_cache, EmptyLine
      <4> QED
        BY <4>1 DEF OneLinePerAddress, LinesInPlace, Filled
    <3> QED
      BY <3>1, <3>2
  <2>6. CASE UNCHANGED vars
    BY <2>6 DEF vars, Distinct, OneLinePerAddress, LinesInPlace, Filled, Caching
  <2> QED
    BY <2>1, <2>2, <2>3, <2>4, <2>5, <2>6 DEF CacheNext
<1> QED
  BY <1>1, <1>2, TypeCorrect, PTL DEF CacheSpec, Distinct

-----------------------------------------------------------------------------
(* Transparency.                                                           *)

(* The programs for which the caches are transparent: word accesses at even
   addresses, and, for the direct-mapped cache, no access to address 0,
   which find_value() takes for a hit on a line that is still empty.       *)
CleanAccesses ==
  /\ \A x \in Accesses : x[2] = "word" /\ x[1] % 2 = 0
  /\ "DIRECTMAPPING" \in CacheTypes => \A x \in Accesses : x[1] # 0

(* An empty line has the address init_cache() gave it; a filled one has an
   even address.                                                           *)
AddressesClean ==
  Caching => \A i \in Line : IF cache[i].empty THEN cache[i].address = 0
                                               ELSE cache[i].address % 2 = 0

(* The inductive invariant behind Coherent. *)
CoherentInv ==
  /\ WellFormed
  /\ cache_type \in CacheTypes \cup {"NO_CACHE"}
  /\ Coherent
  /\ OneLinePerAddress
  /\ AddressesClean
  /\ LinesInPlace

(* A hit is on a filled line with the address, and no line but the one the
   lookup chose has the address.                                           *)
LEMMA LookupFinds ==
  ASSUME CleanAccesses, CoherentInv, NEW x \in Accesses,
         NEW i \in Line, NEW st \in CACHE_STATE, Lookup(x[1], i, st)
  PROVE  /\ Caching
         /\ st = "hit" => i \in Filled /\ cache[i].address = x[1]
         /\ \A j \in Filled : cache[j].address = x[1] => j = i
         /\ cache_type = "DIRECTMAPPING" => i = x[1] % Lines
<1>1. CASE cache_type = "ASSOCIATIVE"
  <2>1. LookupAS(x[1], i, st)
    BY <1>1 DEF Lookup
  <2>2. CASE st = "hit"
    BY <1>1, <2>1, <2>2
    DEF LookupAS, IsFirst, Holding, Filled, CoherentInv, OneLinePerAddress, Caching
  <2>3. CASE st = "miss"
    BY <1>1, <2>1, <2>3 DEF LookupAS, Holding, Filled, Caching
  <2> QED
    BY <2>2, <2>3 DEF CACHE_STATE
<1>2. CASE cache_type = "DIRECTMAPPING"
  <2>1. i = x[1] % Lines /\ (st = "hit" <=> cache[i].address = x[1])
    BY <1>2 DEF Lookup, LookupDM, CACHE_STATE
  <2>2. x[1] # 0
    BY <1>2 DEF CleanAccesses, CoherentInv
  <2>3. st = "hit" => i \in Filled
    BY <1>2, <2>1, <2>2 DEF CoherentInv, AddressesClean, Filled, Caching
  <2>4. \A j \in Filled : cache[j].address % Lines = j
    BY <1>2 DEF CoherentInv, LinesInPlace
  <2> QED
    BY <1>2, <2>1, <2>3, <2>4 DEF Caching
<1> QED
  BY <1>1, <1>2 DEF Lookup

(* Storing in the line the word memory now holds keeps the invariant. *)
LEMMA StoreKeepsInvariant ==
  ASSUME CleanAccesses, CoherentInv, NEW x \in Accesses, NEW op,
         NEW i \in Line, NEW st \in CACHE_STATE, NEW d,
         Lookup(x[1], i, st),
         cache' = update_cache(op, x[1], i, st, d),
         cache_type' = cache_type,
         d = WordAt(memory', x[1] \div 2),
         \A w \in WordIndex \ {x[1] \div 2} : WordAt(memory', w) = WordAt(memory, w),
         WellFormed'
  PROVE  CoherentInv'
<1> DEFINE a == x[1]
           c == cache
<1>1. a \in Address /\ a % 2 = 0 /\ a \div 2 \in WordIndex
  BY FlatAssumption, MemoryAssumption DEF CleanAccesses, Address, WordIndex
<1>2. /\ Caching
      /\ st = "hit" => ~cache[i].empty /\ cache[i].address = a
      /\ \A j \in Line : ~cache[j].empty /\ cache[j].address = a => j = i
      /\ cache_type = "DIRECTMAPPING" => i = a % Lines
  BY LookupFinds DEF Filled
<1>3. /\ ~cache'[i].empty /\ cache'[i].address = a
      /\ cache'[i].content[a \div 2] = d
  BY <1>1, <1>2 DEF update_cache, CACHE_STATE, CoherentInv, WellFormed, CacheLine
<1>4. \A j \in Line : j # i => /\ cache'[j].empty = cache[j].empty
                              /\ cache'[j].address = cache[j].address
                              /\ cache'[j].content = cache[j].content
  BY DEF update_cache, CoherentInv, WellFormed, CacheLine
<1>5. \A j \in Line : /\ cache[j].address \in Address
                      /\ cache[j].address \div 2 \in WordIndex
                      /\ cache[j].empty \in BOOLEAN
  BY MemoryAssumption DEF CoherentInv, WellFormed, CacheLine, Address, WordIndex
<1>6. Coherent'
  <2> SUFFICES ASSUME NEW j \in Line, ~cache'[j].empty
               PROVE  cache'[j].content[cache'[j].address \div 2]
                        = WordAt(memory', cache'[j].address \div 2)
    BY DEF Coherent, Filled
  <2>1. CASE j = i
    BY <1>3, <2>1
  <2>2. CASE j # i
    <3>1. ~cache[j].empty /\ cache[j].address # a
      BY <1>2, <1>4, <2>2
    <3>2. cache[j].address % 2 = 0
      BY <1>2, <3>1 DEF CoherentInv, AddressesClean
    <3>3. cache[j].address \div 2 # a \div 2
      BY <1>1, <1>5, <3>1, <3>2 DEF Address
    <3>4. cache[j].content[cache[j].address \div 2]
            = WordAt(memory, cache[j].address \div 2)
      BY <1>2, <3>1 DEF CoherentInv, Coherent, Filled
    <3> QED
      BY <1>4, <1>5, <2>2, <3>3, <3>4
  <2> QED
    BY <2>1, <2>2
<1>7. OneLinePerAddress'
  <2>1. \A j, k \in Line : ~cache[j].empty /\ ~cache[k].empty
                            /\ cache[j].address = cache[k].address => j = k
    BY <1>2 DEF CoherentInv, OneLinePerAddress, Filled
  <2> QED
    BY <1>2, <1>3, <1>4, <2>1 DEF OneLinePerAddress, Filled
<1>8. AddressesClean'
  <2> SUFFICES ASSUME NEW j \in Line
               PROVE  IF cache'[j].empty THEN cache'[j].address = 0
                                         ELSE cache'[j].address % 2 = 0
    BY DEF AddressesClean
  <2>1. CASE j = i
    BY <1>1, <1>3, <2>1
  <2>2. CASE j # i
    BY <1>2, <1>4, <2>2 DEF CoherentInv, AddressesClean
  <2> QED
    BY <2>1, <2>2
<1>9. LinesInPlace'
  <2> SUFFICES ASSUME cache_type = "DIRECTMAPPING", NEW j \in Line, ~cache'[j].empty
               PROVE  cache'[j].address % Lines = j
    BY DEF LinesInPlace, Filled
  <2>1. CASE j = i
    BY <1>2, <1>3, <2>1
  <2>2. CASE j # i
    BY <1>4, <2>2 DEF CoherentInv, LinesInPlace, Filled
  <2> QED
    BY <2>1, <2>2
<1> QED
  BY <1>6, <1>7, <1>8, <1>9 DEF CoherentInv

(* After the bus has written a word, that word is the data written and every
   other word is what it was.                                              *)
LEMMA WordAfterWrite ==
  ASSUME NEW m \in [Address -> Byte], NEW a \in Address, NEW d \in Word
  PROVE  /\ WordAt(BusWrite(m, a, d, "word"), a \div 2) = d
         /\ \A w \in WordIndex \ {a \div 2} :
               WordAt(BusWrite(m, a, d, "word"), w) = WordAt(m, w)
<1> DEFINE m1 == BusWrite(m, a, d, "word")
<1>1. \A w \in WordIndex : 2 * w \in Address /\ 2 * w + 1 \in Address
  BY MemoryAssumption DEF WordIndex, Address
<1>2. a \div 2 \in WordIndex
  BY MemoryAssumption DEF WordIndex, Address
<1>3. \A b \in Address : m1[b] = CASE b = 2 * (a \div 2)     -> d.lo
                                  [] b = 2 * (a \div 2) + 1 -> d.hi
                                  [] OTHER                  -> m[b]
  BY DEF BusWrite
<1>4. m1[2 * (a \div 2)] = d.lo /\ m1[2 * (a \div 2) + 1] = d.hi
  BY <1>1, <1>2, <1>3 DEF WordIndex
<1>5. d = [lo |-> d.lo, hi |-> d.hi]
  BY DEF Word
<1>6. ASSUME NEW w \in WordIndex, w # a \div 2
      PROVE  m1[2 * w] = m[2 * w] /\ m1[2 * w + 1] = m[2 * w + 1]
  BY <1>1, <1>2, <1>3, <1>6 DEF WordIndex
<1> QED
  BY <1>4, <1>5, <1>6 DEF WordAt

(* Reading a line or the bus makes no difference on a clean access. *)
LEMMA ReadIsBusRead ==
  ASSUME CleanAccesses, CoherentInv, NEW x \in Accesses,
         NEW i \in Line, NEW st \in CACHE_STATE, Lookup(x[1], i, st)
  PROVE  (IF st = "hit" THEN cache[i].content[x[1] \div 2]
                        ELSE BusRead(memory, x[1], x[2]))
           = WordAt(memory, x[1] \div 2)
<1>1. CASE st = "hit"
  BY <1>1, LookupFinds DEF CoherentInv, Coherent
<1>2. CASE st = "miss"
  BY <1>2 DEF CleanAccesses, BusRead
<1> QED
  BY <1>1, <1>2 DEF CACHE_STATE

LEMMA CoherentInvInductive ==
  ASSUME CleanAccesses
  PROVE  /\ CacheInit /\ WellFormed => CoherentInv
         /\ CoherentInv /\ [MarksNext]_vars /\ WellFormed' => CoherentInv'
<1>1. CacheInit /\ WellFormed => CoherentInv
  BY DEF CacheInit, CoherentInv, Coherent, OneLinePerAddress, AddressesClean,
         LinesInPlace, Caching
<1>2. ASSUME CoherentInv, [MarksNext]_vars, WellFormed' PROVE CoherentInv'
  <2>1. ASSUME NEW x \in Accesses, CachedRead(x[1], x[2]) PROVE CoherentInv'
    <3>1. PICK i \in Line, st \in CACHE_STATE :
            LET d == IF st = "hit" THEN cache[i].content[x[1] \div 2]
                                   ELSE BusRead(memory, x[1], x[2])
            IN  /\ Lookup(x[1], i, st)
                /\ cache' = update_cache("read", x[1], i, st, d)
                /\ UNCHANGED cache_type
      BY <2>1 DEF CachedRead
    <3> DEFINE d == IF st = "hit" THEN cache[i].content[x[1] \div 2]
                                  ELSE BusRead(memory, x[1], x[2])
    <3>2. /\ Lookup(x[1], i, st)
          /\ cache' = update_cache("read", x[1], i, st, d)
          /\ memory' = memory /\ cache_type' = cache_type
      BY <2>1, <3>1, ReadLeavesMemory
    <3>3. d = WordAt(memory', x[1] \div 2)
      BY <1>2, <3>2, ReadIsBusRead
    <3> HIDE DEF d
    <3> QED
      BY <1>2, <3>2, <3>3, StoreKeepsInvariant
  <2>2. ASSUME NEW x \in Accesses, NEW d \in Data, CachedWrite(x[1], x[2], d)
        PROVE  CoherentInv'
    <3>1. PICK i \in Line, st \in CACHE_STATE :
            /\ Lookup(x[1], i, st)
            /\ cache' = update_cache("write", x[1], i, st, d)
            /\ cache_type' = cache_type
      BY <2>2 DEF CachedWrite
    <3>2. memory' = BusWrite(memory, x[1], d, x[2])
      BY <2>2, WriteReachesBus
    <3>3. x[1] \in Address /\ x[2] = "word" /\ d \in Word
      BY FlatAssumption DEF CleanAccesses
    <3>4. /\ d = WordAt(memory', x[1] \div 2)
          /\ \A w \in WordIndex \ {x[1] \div 2} : WordAt(memory', w) = WordAt(memory, w)
      BY <1>2, <3>2, <3>3, WordAfterWrite DEF CoherentInv, WellFormed
    <3> QED
      BY <1>2, <3>1, <3>4, StoreKeepsInvariant
  <2>3. ASSUME cache_type = "NO_CACHE", UNCHANGED <<cache, cache_type>>
        PROVE  CoherentInv'
    BY <1>2, <2>3 DEF CoherentInv, Coherent, OneLinePerAddress, AddressesClean,
                      LinesInPlace, Caching
  <2>4. ASSUME NEW x \in Accesses, BusOnlyRead(x[1], x[2]) PROVE CoherentInv'
    BY <2>3, <2>4 DEF BusOnlyRead
  <2>5. ASSUME NEW x \in Accesses, NEW d \in Data, BusOnlyWrite(x[1], x[2], d)
        PROVE  CoherentInv'
    BY <2>3, <2>5 DEF BusOnlyWrite
  <2>6. ASSUME NEW t \in CacheTypes, SelectCacheType(t) PROVE CoherentInv'
    <3>1. cache_type' \in CacheTypes \cup {"NO_CACHE"}
      BY <2>6 DEF SelectCacheType
    <3>2. CASE t = "NO_CACHE"
      BY <1>2, <2>6, <3>1, <3>2
      DEF SelectCacheType, CoherentInv, Coherent, OneLinePerAddress,
          AddressesClean, LinesInPlace, Caching
    <3>3. CASE t # "NO_CACHE"
      <4>1. \A j \in Line : cache'[j].empty /\ cache'[j].address = 0
        BY <2>6, <3>3 DEF SelectCacheType, init_cache, EmptyLine
      <4> QED
        BY <1>2, <3>1, <4>1
        DEF CoherentInv, Coherent, OneLinePerAddress, AddressesClean,
            LinesInPlace, Filled
    <3> QED
      BY <3>2, <3>3
  <2>7. CASE edit_marks
    <3>1. \A j \in Line : /\ cache'[j].address = cache[j].address
                          /\ cache'[j].content = cache[j].content
                          /\ cache'[j].empty = cache[j].empty
      BY <1>2, <2>7 DEF edit_marks, EditMarks, CoherentInv, WellFormed, CacheLine
    <3>2. memory' = memory /\ cache_type' = cache_type
      BY <2>7 DEF edit_marks
    <3> QED
      BY <1>2, <3>1, <3>2
      DEF CoherentInv, Coherent, OneLinePerAddress, AddressesClean, LinesInPlace,
          Caching, Filled
  <2>8. CASE UNCHANGED vars
    BY <1>2, <2>8
    DEF vars, CoherentInv, WellFormed, Coherent, OneLinePerAddress, AddressesClean,
        LinesInPlace, Caching, Filled
  <2> QED
    BY <1>2, <2>1, <2>2, <2>4, <2>5, <2>6, <2>7, <2>8 DEF MarksNext, CacheNext
<1> QED
  BY <1>1, <1>2

LEMMA MarksAreEdits == [MarksNext]_vars => [EditNext]_vars
BY DEF MarksNext, EditNext, edit_marks, edit_cache_lines, Edited

(* CacheSpec is MarksSpec without a user who edits. *)
LEMMA CacheIsMarks == CacheSpec => MarksSpec
<1>1. [CacheNext]_vars => [MarksNext]_vars
  BY DEF MarksNext
<1> QED
  BY <1>1, PTL DEF CacheSpec, MarksSpec

LEMMA CoherentInvariant == ASSUME CleanAccesses PROVE MarksSpec => []CoherentInv
BY CoherentInvInductive, WellFormedInductive, MarksAreEdits, PTL DEF MarksSpec

(* On clean accesses every filled line agrees with memory and no address is
   cached twice, through any sequence of accesses and re-selections.       *)
THEOREM CacheCoherent ==
  ASSUME CleanAccesses
  PROVE  CacheSpec => [](Coherent /\ OneLinePerAddress)
<1>1. CoherentInv => Coherent /\ OneLinePerAddress
  BY DEF CoherentInv
<1> QED
  BY <1>1, CoherentInvariant, CacheIsMarks, PTL

(* On clean accesses the program can neither tell the caches from the bus
   nor see what the user does to the usage counters and the dirty bits.    *)
THEOREM CacheImplementsFlatMemory ==
  ASSUME CleanAccesses
  PROVE  /\ CacheSpec => ImplementsFlatMemory
         /\ MarksSpec => ImplementsFlatMemory
<1>1. CacheInit => Init
  BY DEF CacheInit
<1>2. ASSUME CoherentInv, [MarksNext]_vars PROVE [Next]_<<memory, port>>
  <2>1. ASSUME NEW x \in Accesses, CachedRead(x[1], x[2])
        PROVE  Read(x[1], x[2])
    <3>1. BusRead(memory, x[1], x[2]) = WordAt(memory, x[1] \div 2)
      BY DEF BusRead, CleanAccesses
    <3> QED
      BY <1>2, <2>1, <3>1, ReadIsBusRead, ReadLeavesMemory DEF CachedRead, Read
  <2>2. ASSUME NEW x \in Accesses, NEW d \in Data, CachedWrite(x[1], x[2], d)
        PROVE  Write(x[1], x[2], d)
    BY <2>2, WriteReachesBus DEF CachedWrite, Write
  <2>3. \A x \in Accesses : BusOnlyRead(x[1], x[2]) => Read(x[1], x[2])
    BY DEF BusOnlyRead
  <2>4. \A x \in Accesses, d \in Data :
          BusOnlyWrite(x[1], x[2], d) => Write(x[1], x[2], d)
    BY DEF BusOnlyWrite
  <2>5. \A t \in CacheTypes : SelectCacheType(t) => UNCHANGED <<memory, port>>
    BY DEF SelectCacheType
  <2>6. edit_marks \/ UNCHANGED vars => UNCHANGED <<memory, port>>
    BY DEF edit_marks, vars
  <2> QED
    BY <1>2, <2>1, <2>2, <2>3, <2>4, <2>5, <2>6 DEF MarksNext, CacheNext, Next
<1>3. CoherentInv /\ [MarksNext]_vars => [Next]_<<memory, port>>
  BY <1>2
<1>4. MarksSpec => ImplementsFlatMemory
  BY <1>1, <1>3, CoherentInvariant, PTL DEF MarksSpec, ImplementsFlatMemory, Spec
<1> QED
  BY <1>4, CacheIsMarks
=============================================================================
