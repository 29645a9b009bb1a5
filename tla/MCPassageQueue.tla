--------------------------- MODULE MCPassageQueue ---------------------------
(* The queue checked whole over a few identifiers and two passages.        *)
EXTENDS PassageQueue, TLC

PassageSymmetry == Permutations(Passages)
=============================================================================
