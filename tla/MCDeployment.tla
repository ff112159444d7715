----------------------------- MODULE MCDeployment -----------------------------
(***************************************************************************)
(* A TLC instance of Deployment.                                           *)
(***************************************************************************)
EXTENDS Deployment
===============================================================================
