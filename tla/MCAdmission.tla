---------------------------- MODULE MCAdmission -----------------------------
(***************************************************************************)
(* Two runs: one with three children, of which one has a child of its own, *)
(* and one that competes with them all for the ceiling.                    *)
(***************************************************************************)
EXTENDS Admission

CONSTANTS a, a1, a2, a3, a11, b

MCParent ==
    [r \in Run |-> CASE r \in {a1, a2, a3} -> a
                     [] r = a11            -> a1
                     [] OTHER              -> None]
Forest == {a, a1, a2, a3, a11, b}
Family == {a, a1, a2, b}
NoneRestored == {}
Child == {a1}
==============================================================================
