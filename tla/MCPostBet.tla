------------------------------ MODULE MCPostBet -------------------------------
(***************************************************************************)
(* A model-checking instance of PostBet, with amounts of at most four      *)
(* digits: 0, half a cent, one cent, 99.99, 100.00 and 12.345 (Amounts).   *)
(***************************************************************************)
EXTENDS PostBet

BodyAmounts == {0, 5, 10, 12345, 99990, 100000}
===============================================================================
