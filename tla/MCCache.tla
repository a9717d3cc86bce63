------------------------------- MODULE MCCache -------------------------------
(***************************************************************************)
(* Instances of Cache for TLC.                                             *)
(***************************************************************************)
EXTENDS CacheLRU

W(l, h) == [lo |-> l, hi |-> h]

(* Loaded images: one in which words, and the bytes of a word, differ; one in
   which a single word differs from a cleared line and from what is written. *)
MCImages == {[a \in Address |-> IF a % 4 \in {1, 2} THEN 1 ELSE 0]}
MCMarked == {[a \in Address |-> IF a \in {2, 3} THEN 1 ELSE 0]}
MCBlank  == {[a \in Address |-> 0]}
MCOne    == {W(1, 1)}
MCNull   == {W(0, 0)}

WordsAt(S)  == {<<a, "word">> : a \in S}
MCAligned   == WordsAt({0, 2, 4})
MCNonZero   == WordsAt({2, 4, 6, 8})
MCMixed     == {<<a, w>> : a \in {0, 1}, w \in Width}
=============================================================================
