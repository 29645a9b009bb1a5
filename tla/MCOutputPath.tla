---------------------------- MODULE MCOutputPath ----------------------------
(* Small instances of the output path: holds are interchangeable.          *)
EXTENDS OutputPath, TLC

HoldSymmetry == Permutations(Holds)
=============================================================================
