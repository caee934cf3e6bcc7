----------------------------- MODULE MCAutoflow -----------------------------
(***************************************************************************)
(* Two processes that tick.                                                *)
(***************************************************************************)
EXTENDS Autoflow

CONSTANTS serve, cron

Says(s, d) == [status |-> s, dispatch |-> d]
MCOutcome == {Says("Claimed", FALSE), Says("Claimed", TRUE), Says("AwaitHuman", TRUE)}
==============================================================================
