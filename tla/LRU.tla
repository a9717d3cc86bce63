-------------------------------- MODULE LRU ---------------------------------
(***************************************************************************)
(* Least-recently-used replacement, as a list: the addresses held, most    *)
(* recently used first.  The usage counters of cache.c are one way to      *)
(* keep this list without moving cache lines; Cache implements this module *)
(* while the associative organisation is selected.                         *)
(***************************************************************************)
EXTENDS Naturals, SequencesExt

CONSTANTS Capacity,    \* the lines of the cache
          Addresses    \* the addresses the program uses

VARIABLES recency,     \* the addresses held, most recently used first
          state        \* whether the last access was a hit or a miss

Init == recency = <<>> /\ state = "miss"

(* An access to an address that is held moves it to the front. *)
Hit(a) ==
  /\ \E p \in DOMAIN recency :
       /\ recency[p] = a
       /\ recency' = <<a>> \o RemoveAt(recency, p)
  /\ state' = "hit"

(* Another one is put at the front; if the list is full the oldest goes. *)
Miss(a) ==
  /\ ~Contains(recency, a)
  /\ recency' = <<a>> \o (IF Len(recency) = Capacity THEN Front(recency)
                                                   ELSE recency)
  /\ state' = "miss"

Clear == recency' = <<>> /\ UNCHANGED state

(* Another organisation is in use: the list stays empty. *)
Bypass == recency = <<>> /\ recency' = <<>> /\ state' \in {"hit", "miss"}

Next == \/ \E a \in Addresses : Hit(a) \/ Miss(a)
        \/ Clear \/ Bypass

Spec == Init /\ [][Next]_<<recency, state>>
=============================================================================
