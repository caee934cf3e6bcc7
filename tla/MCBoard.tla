------------------------------ MODULE MCBoard -------------------------------
(***************************************************************************)
(* Two buses, one of them a session's, and grants enough for a holder, a    *)
(* successor and a late comer.                                             *)
(***************************************************************************)
EXTENDS Board

CONSTANTS a, s
==============================================================================
