------------------------------ MODULE MCWakes ------------------------------
(***************************************************************************)
(* Two processes that tick, and a source with a few events.                *)
(***************************************************************************)
EXTENDS Wakes

CONSTANTS serve, cron

Apart == <<1, 2, 3>>
OneSecond == <<1, 1>>
==============================================================================
