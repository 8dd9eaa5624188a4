---------------------------- MODULE MCGlobalBev ----------------------------
(* Two cameras, of which the second misses a tick and may die at any step   *)
(* of a write.                                                              *)
EXTENDS GlobalBev

AB == <<"A", "B">>
SkipsOne == [c \in Camera |-> IF c = "A" THEN 1..3 ELSE {1, 3}]
=============================================================================
