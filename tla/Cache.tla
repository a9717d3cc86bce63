-------------------------------- MODULE Cache --------------------------------
(***************************************************************************)
(* The cache between the CPU and primary memory (cache.c, with bus_cache() *)
(* of Memory.c and the cache-type entry of the debugger's menu).           *)
(*                                                                         *)
(* Every access of the CPU (an instruction fetch, LD, ST, LDR, STR, and    *)
(* the pushes and pulls of a trap) is one call of access_cache_AS,         *)
(* access_cache_DM or bus, and is one step here.  The data a read returns  *)
(* and the data a write carries are recorded in port, so that they can be  *)
(* compared with what FlatMemory promises.  Clock is left out: it is only  *)
(* printed, and no branch of the cache reads it.                           *)
(***************************************************************************)
EXTENDS FlatMemory, Integers

CONSTANTS
  Lines,        \* number of cache lines (cache_sz, 16 in the code)
  CacheTypes    \* the organisations the user selects in this instance

ASSUME CacheAssumption ==
  /\ Lines \in Nat \ {0}
  /\ CacheTypes \subseteq {"ASSOCIATIVE", "DIRECTMAPPING", "NO_CACHE"}

VARIABLES
  cache,        \* the array of cache lines
  cache_type,   \* the organisation selected
  state         \* the global hit/miss flag the last lookup left

vars == <<memory, port, cache, cache_type, state>>

Line == 0 .. Lines - 1
CACHE_TYPE == {"ASSOCIATIVE", "DIRECTMAPPING", "NO_CACHE"}
CACHE_STATE == {"hit", "miss"}

(* struct cache_line.  content is a union of 2^15 words in every line, not
   one word: a line keeps, at other indices, what it cached before.        *)
CacheLine == [address : Address, content : [WordIndex -> Word],
              usage : Int, dirty_bit : BOOLEAN, empty : BOOLEAN]

ZeroWord == [lo |-> Zero, hi |-> Zero]

(* A line after the memset of init_cache() and its loop. *)
EmptyLine == [address |-> 0, content |-> [w \in WordIndex |-> ZeroWord],
              usage |-> 0, dirty_bit |-> FALSE, empty |-> TRUE]

init_cache == [i \in Line |-> EmptyLine]

(* Before a cache is first selected the array is zeroed storage, in which
   empty = 0 reads not_empty; debugger() starts with NO_CACHE.             *)
CacheInit ==
  /\ Init
  /\ cache = [i \in Line |-> [EmptyLine EXCEPT !.empty = FALSE]]
  /\ cache_type = "NO_CACHE"
  /\ state = "miss"

-----------------------------------------------------------------------------
(* Lookup: which line an access to a uses, and whether it is a hit.        *)

Holding(a) == {i \in Line : ~cache[i].empty /\ cache[i].address = a}
Unfilled   == {i \in Line : cache[i].empty}

(* Mutant of IsFirst: the scan does not stop at the first line found. *)
IsLast(i, S) == i \in S /\ \A j \in S : j <= i

IsFirst(i, S) == i \in S /\ \A j \in S : i <= j

(* Mutant of OldestUsed: the comparison of the scan is reversed. *)
NewestUsed(i) ==
  \A j \in Line : \/ cache[i].usage > cache[j].usage
                  \/ cache[i].usage = cache[j].usage /\ i <= j

(* The scan that updates oldest_used starts at line 0 and moves on a
   strictly smaller usage: the first line of least usage.                  *)
OldestUsed(i) ==
  \A j \in Line : \/ cache[i].usage < cache[j].usage
                  \/ cache[i].usage = cache[j].usage /\ i <= j

(* Mutant of LookupAS: an empty line is taken before the address is looked
   for.                                                                    *)
LookupEmptyFirst(a, i, st) ==
  \/ st = "miss" /\ IsFirst(i, Unfilled)
  \/ st = "hit"  /\ Unfilled = {} /\ IsFirst(i, Holding(a))
  \/ st = "miss" /\ Unfilled = {} /\ Holding(a) = {} /\ OldestUsed(i)

(* The loops at the head of access_cache_AS and of its miss branch: the
   line that holds a, else the first empty line, else the oldest one.      *)
LookupAS(a, i, st) ==
  \/ st = "hit"  /\ IsFirst(i, Holding(a))
  \/ st = "miss" /\ Holding(a) = {} /\ IsFirst(i, Unfilled)
  \/ st = "miss" /\ Holding(a) = {} /\ Unfilled = {} /\ OldestUsed(i)

(* find_value(): the low four bits of the address select the line; the
   address alone is compared, not the empty field.                         *)
LookupDM(a, i, st) ==
  /\ i = a % Lines
  /\ st = IF cache[i].address = a THEN "hit" ELSE "miss"

Lookup(a, i, st) ==
  \/ cache_type = "ASSOCIATIVE"   /\ LookupAS(a, i, st)
  \/ cache_type = "DIRECTMAPPING" /\ LookupDM(a, i, st)

(* Mutants of UsageAfter: every other line ages; no line ages. *)
AgesAlways(op, j, i) ==
  CASE j = i -> Lines - 1
    [] j # i -> IF cache[j].empty THEN cache[j].usage ELSE cache[j].usage - 1

AgesNever(op, j, i) == IF j = i THEN Lines - 1 ELSE cache[j].usage

(* The usage counter of line j once line i is used.  The associative
   organisation ages every line used more recently than i by one and makes i
   the newest; the direct-mapped one only clears the counter on a write.   *)
UsageAfter(op, j, i) ==
  CASE cache_type = "ASSOCIATIVE" /\ j = i -> Lines - 1
    [] cache_type = "ASSOCIATIVE" /\ j # i ->
         IF ~cache[j].empty /\ cache[j].usage > cache[i].usage
         THEN cache[j].usage - 1 ELSE cache[j].usage
    [] cache_type # "ASSOCIATIVE" ->
         IF j = i /\ op = "write" THEN 0 ELSE cache[j].usage

(* Mutant of update_cache: only a miss sets or clears the dirty bit. *)
MarksOnFill(op, a, i, st, d) ==
  [j \in Line |->
     [address   |-> IF j = i /\ st = "miss" THEN a ELSE cache[j].address,
      content   |-> IF j = i THEN [cache[j].content EXCEPT ![a \div 2] = d]
                             ELSE cache[j].content,
      usage     |-> UsageAfter(op, j, i),
      dirty_bit |-> IF j = i /\ st = "miss" THEN op = "write" ELSE cache[j].dirty_bit,
      empty     |-> cache[j].empty /\ (j # i \/ st = "hit")]]

(* update_cache() and bus_cache(): on a miss line i is claimed for a; its
   word for the address a becomes d; a write leaves it dirty, a read clean. *)
update_cache(op, a, i, st, d) ==
  [j \in Line |->
     [address   |-> IF j = i /\ st = "miss" THEN a ELSE cache[j].address,
      content   |-> IF j = i THEN [cache[j].content EXCEPT ![a \div 2] = d]
                             ELSE cache[j].content,
      usage     |-> UsageAfter(op, j, i),
      dirty_bit |-> IF j = i THEN op = "write" ELSE cache[j].dirty_bit,
      empty     |-> cache[j].empty /\ (j # i \/ st = "hit")]]

-----------------------------------------------------------------------------
(* The last statement of every branch: the bus is written if the line the
   access used is dirty by now.                                            *)
WriteIfDirty(line, m, a, d, wb) ==
  IF line.dirty_bit THEN BusWrite(m, a, d, wb) ELSE m

(* A read: a hit delivers the cached word, whatever the width asked for; a
   miss reads the bus and caches what it delivered.                        *)
CachedRead(a, wb) ==
  \E i \in Line, st \in CACHE_STATE :
    LET d == IF st = "hit" THEN cache[i].content[a \div 2]
                           ELSE BusRead(memory, a, wb)
    IN  /\ Lookup(a, i, st)
        /\ cache' = update_cache("read", a, i, st, d)
        /\ memory' = WriteIfDirty(cache'[i], memory, a, d, wb)
        /\ port' = Transfer("read", a, wb, d)
        /\ state' = st
        /\ UNCHANGED cache_type

(* A write: the whole register goes into the line.  A miss has written the
   bus before it looks at the line, a hit has not.                         *)
CachedWrite(a, wb, d) ==
  \E i \in Line, st \in CACHE_STATE :
    LET m == IF st = "miss" THEN BusWrite(memory, a, d, wb) ELSE memory
    IN  /\ Lookup(a, i, st)
        /\ cache' = update_cache("write", a, i, st, d)
        /\ memory' = WriteIfDirty(cache'[i], m, a, d, wb)
        /\ port' = Transfer("write", a, wb, d)
        /\ state' = st
        /\ UNCHANGED cache_type

(* The default branch of every switch on cache_type: bus() alone. *)
BusOnlyRead(a, wb) ==
  /\ cache_type = "NO_CACHE"
  /\ Read(a, wb)
  /\ UNCHANGED <<cache, cache_type, state>>

BusOnlyWrite(a, wb, d) ==
  /\ cache_type = "NO_CACHE"
  /\ Write(a, wb, d)
  /\ UNCHANGED <<cache, cache_type, state>>

(* Mutant of SelectCacheType: the lines are kept. *)
SelectKeepsLines(t) ==
  /\ cache_type' = t
  /\ UNCHANGED <<memory, port, state, cache>>

(* Entry t of the program menu: selecting a cache, even the current one,
   initialises it; selecting none leaves the lines as they are.            *)
SelectCacheType(t) ==
  /\ cache_type' = t
  /\ cache' = IF t = "NO_CACHE" THEN cache ELSE init_cache
  /\ UNCHANGED <<memory, port, state>>

CacheNext ==
  \/ \E x \in Accesses : \/ CachedRead(x[1], x[2])
                         \/ BusOnlyRead(x[1], x[2])
  \/ \E x \in Accesses, d \in Data : \/ CachedWrite(x[1], x[2], d)
                                     \/ BusOnlyWrite(x[1], x[2], d)
  \/ \E t \in CacheTypes : SelectCacheType(t)

CacheSpec == CacheInit /\ [][CacheNext]_vars

-----------------------------------------------------------------------------
(* Properties.                                                             *)

Filled  == {i \in Line : ~cache[i].empty}
Caching == cache_type # "NO_CACHE"

(* What accesses, menu entries and edits by the user all leave well formed. *)
WellFormed ==
  /\ memory \in [Address -> Byte]
  /\ port \in Port
  /\ cache \in [Line -> CacheLine]
  /\ cache_type \in CACHE_TYPE
  /\ state \in CACHE_STATE

(* Types of the whole state: every access and every menu entry leaves a
   well-formed line array, and no counter of update_cache() leaves the
   range 0 .. Lines - 1, although it is decremented without a test.        *)
TypeOK ==
  /\ WellFormed
  /\ \A i \in Line : cache[i].usage \in 0 .. Lines - 1

(* While a cache is in use, every filled line holds the word that memory
   holds: whatever mixture of hits, misses, evictions and re-selections led
   here, reading the line or the bus makes no difference.                  *)
Coherent ==
  Caching => \A i \in Filled :
    cache[i].content[cache[i].address \div 2]
      = WordAt(memory, cache[i].address \div 2)

(* No address is in two lines at once: a write updates one line only, so a
   second copy would go stale.                                             *)
OneLinePerAddress ==
  Caching => \A i, j \in Filled : cache[i].address = cache[j].address => i = j

(* The usage counters order the filled lines totally, so the line the
   associative cache evicts is the only least recently used one.           *)
UsageOrdersLines ==
  cache_type = "ASSOCIATIVE" =>
    \A i, j \in Filled : cache[i].usage = cache[j].usage => i = j

(* The associative cache fills its lines from line 0 up, and its n filled
   lines have counters in the top n of the range.                          *)
FilledIsPrefix ==
  cache_type = "ASSOCIATIVE" =>
    \E n \in 0 .. Lines : \A i \in Line :
      /\ cache[i].empty <=> n <= i
      /\ IF cache[i].empty THEN cache[i].usage = 0
                           ELSE Lines - n <= cache[i].usage

(* The program sees the memory FlatMemory describes: every read, through
   either cache, delivers what the bus would have delivered at that moment. *)
ImplementsFlatMemory == Spec

(* A hit is on a line that holds the address: "a hit (exact address is
   found in cache at index = found)" (cache.c:223), and a line is "empty or
   not" (cache.h:16).                                                      *)
HitIsHeld ==
  [][port' # port /\ Caching /\ state' = "hit"
       => Holding(port'.address) # {}]_vars

(* A byte load delivers a byte: "ld.b R1+,R2 ; Copy byte [R1] to R2"
   (Strings.asm:81).                                                       *)
ByteReadIsAByte ==
  port.op = "read" /\ port.width = "byte" => port.data.hi = Zero
=============================================================================
