---------------------------- MODULE MCChildLedger ---------------------------
(***************************************************************************)
(* A run, and two runs that continue it.                                   *)
(***************************************************************************)
EXTENDS ChildLedger, TLC

Siblings == 1..3
SiblingsPrior == <<1, 1, 1>>
==============================================================================
