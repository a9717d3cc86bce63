------------------------------ MODULE CacheEdit ------------------------------
(***************************************************************************)
(* The cache with the editor of its lines (edit_cache_lines() of cache.c,  *)
(* menu g then e): between any two accesses the user overwrites fields of  *)
(* any line, consistently with nothing.                                    *)
(***************************************************************************)
EXTENDS Cache

CONSTANT Usages   \* the usage counters the user types; any int in the code

ASSUME EditAssumption == Usages \subseteq Int

(* The word is stored at the line's address, the byte at byte 0 of the line. *)
EditContent(i) ==
  \/ \E d \in Word :
       cache' = [cache EXCEPT ![i].content[cache[i].address \div 2] = d]
  \/ \E b \in Byte : cache' = [cache EXCEPT ![i].content[0].lo = b]

EditAddress(i) == \E a \in Address : cache' = [cache EXCEPT ![i].address = a]
EditEmpty(i)   == \E b \in BOOLEAN : cache' = [cache EXCEPT ![i].empty = b]

(* The two fields that only keep books about the line. *)
EditMarks(i) ==
  \/ \E u \in Usages  : cache' = [cache EXCEPT ![i].usage = u]
  \/ \E b \in BOOLEAN : cache' = [cache EXCEPT ![i].dirty_bit = b]

Edited(i) == EditContent(i) \/ EditAddress(i) \/ EditEmpty(i) \/ EditMarks(i)

edit_cache_lines ==
  /\ \E i \in Line : Edited(i)
  /\ UNCHANGED <<memory, port, cache_type, state>>

EditNext == CacheNext \/ edit_cache_lines
EditSpec == CacheInit /\ [][EditNext]_vars

(* The user edits usage counters and dirty bits only.  ImplementsFlatMemory
   holds of this specification, too: no data is lost when a dirty line is
   declared clean or an arbitrary line is evicted, and none is written
   because a line is dirty.                                                *)
edit_marks ==
  /\ \E i \in Line : EditMarks(i)
  /\ UNCHANGED <<memory, port, cache_type, state>>

MarksNext == CacheNext \/ edit_marks
MarksSpec == CacheInit /\ [][MarksNext]_vars

-----------------------------------------------------------------------------
(* Properties.                                                             *)

(* An access to a through either cache. *)
CachedAccess(x) ==
  CachedRead(x[1], x[2]) \/ \E d \in Data : CachedWrite(x[1], x[2], d)

(* The next access to a is a hit, on a line that holds the data of the last. *)
Held(a) ==
  \E i \in Line : Lookup(a, i, "hit") /\ cache[i].content[a \div 2] = port.data

(* Whatever the user has made of the lines - two with one address, filled
   ones marked empty, lines out of their place, counters out of range - an
   access leaves its data where the next lookup of its address finds it.   *)
AccessIsHeld == [][\A x \in Accesses : CachedAccess(x) => Held(x[1])']_vars
=============================================================================
