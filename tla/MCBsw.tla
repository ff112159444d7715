-------------------------------- MODULE MCBsw ---------------------------------
(***************************************************************************)
(* TLC instances of Bsw.                                                   *)
(***************************************************************************)
EXTENDS Bsw, TLC

Symmetry == Permutations(Events) \cup Permutations(Bets)
              \cup Permutations(Sessions) \cup Permutations(Handlers)
===============================================================================
