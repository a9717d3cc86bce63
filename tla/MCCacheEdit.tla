----------------------------- MODULE MCCacheEdit -----------------------------
(***************************************************************************)
(* Instances of CacheEdit for TLC.                                         *)
(***************************************************************************)
EXTENDS MCCache, CacheEdit

(* The second byte of a word, alone. *)
MCOneByte == {<<1, "byte">>}
=============================================================================
