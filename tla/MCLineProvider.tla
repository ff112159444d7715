---------------------------- MODULE MCLineProvider ----------------------------
(***************************************************************************)
(* TLC instances of LineProvider.                                          *)
(***************************************************************************)
EXTENDS LineProvider, TLC

Symmetry == Permutations(Events)
===============================================================================
