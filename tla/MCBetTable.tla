------------------------------ MODULE MCBetTable ------------------------------
(***************************************************************************)
(* TLC instances of BetTable. The ids are interchangeable, so the safety   *)
(* runs use them as a symmetry set.                                        *)
(***************************************************************************)
EXTENDS BetTable, TLC

Symmetry == Permutations(Events) \cup Permutations(Bets) \cup Permutations(Sessions)
===============================================================================
