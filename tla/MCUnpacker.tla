------------------------------ MODULE MCUnpacker ------------------------------
(* Unpacker for TLC: an integer, and an array of two strings or of a string  *)
(* and an integer.                                                           *)
EXTENDS Unpacker, TLC

MCMessages ==
  { [ends |-> {1}, strings |-> {}],
    [ends |-> {1, 2, 4, 5, 6}, strings |-> {4, 6}],
    [ends |-> {1, 2, 3, 4}, strings |-> {3}] }

MCSymmetry == Permutations(Blocks) \cup Permutations(Handles)
=============================================================================
