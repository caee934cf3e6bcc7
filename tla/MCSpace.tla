------------------------------ MODULE MCSpace -------------------------------
(***************************************************************************)
(* Two attempts of one step at the address x, another run at y, and the    *)
(* operator.                                                               *)
(***************************************************************************)
EXTENDS Space

CONSTANTS x1, x2, y1, x, y

MCAt == (x1 :> x) @@ (x2 :> x) @@ (y1 :> y)
==============================================================================
