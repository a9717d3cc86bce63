------------------------------ MODULE CacheLRU ------------------------------
(***************************************************************************)
(* The associative cache as an implementation of LRU: the mapping of its   *)
(* usage counters to the recency list.                                     *)
(***************************************************************************)
EXTENDS Cache, FiniteSets

(* The filled lines from the newest to the oldest: the k-th has usage
   Lines - k.  In the other organisations the list is empty.               *)
RecencyList ==
  IF cache_type # "ASSOCIATIVE" THEN <<>>
  ELSE [k \in 1 .. Cardinality(Filled) |->
          cache[CHOOSE i \in Filled : cache[i].usage = Lines - k].address]

Recency == INSTANCE LRU WITH Capacity  <- Lines,
                             Addresses <- {x[1] : x \in Accesses},
                             recency   <- RecencyList

(* The associative cache is an LRU cache: hits, misses and evictions are
   those of the recency list that LRU keeps.                               *)
ImplementsLRU == Recency!Spec
=============================================================================
