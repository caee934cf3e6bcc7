--------------------------- MODULE MCRunLifecycle ----------------------------
(* Small instances of RunLifecycle for TLC. *)
EXTENDS RunLifecycle, TLC

CONSTANTS p1, p2, g1, g2

TwoProcs == {p1, p2}
OneGate  == {g1}
TwoGates == {g1, g2}
NoGate   == {}

(* The on_timeout policies of the gates. *)
NoTimeout     == [g \in Gate |-> "none"]
FailFirst     == [g \in Gate |-> IF g = g1 THEN "fail" ELSE "none"]
ApproveFirst  == [g \in Gate |-> IF g = g1 THEN "approve" ELSE "none"]

(* How often gates park, people act and things fail in a run. *)
Bounds(park, operator, web, pause, cancel, crash) ==
    [k \in BudgetKind |-> CASE k = "park" -> park
                            [] k = "operator" -> operator
                            [] k = "web" -> web
                            [] k = "pause" -> pause
                            [] k = "cancel" -> cancel
                            [] k = "crash" -> crash]

ControlBudget == Bounds(2, 2, 1, 1, 1, 0)
ServedBudget  == Bounds(2, 0, 0, 0, 0, 2)

OneWeb             == Bounds(2, 0, 1, 0, 0, 0)
TwoOperatorsRepark == Bounds(3, 2, 0, 0, 0, 0)
WebAndPause        == Bounds(1, 0, 1, 1, 0, 0)
ResumeAndPause     == Bounds(1, 2, 0, 1, 0, 0)

Symmetry == Permutations(Proc)
=============================================================================
