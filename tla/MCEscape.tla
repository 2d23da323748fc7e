------------------------------- MODULE MCEscape -------------------------------
(***************************************************************************)
(* Escape for TLC: names are interchangeable.                              *)
(***************************************************************************)
EXTENDS Escape, TLC

NamesSymmetry == Permutations(Names)
===============================================================================
