----------------------------- MODULE MCScheduler -----------------------------
(***************************************************************************)
(* Workflows for TLC, each with one of the shapes the scheduler has        *)
(* special rules for.                                                      *)
(***************************************************************************)
EXTENDS Scheduler, TLC

Nodes      == 0..4
SevenNodes == 0..6

\* A workflow of plain steps with these edges.
Steps(edges, kinds) ==
    [edge |-> edges,
     kind |-> kinds @@ [n \in Node |-> "task"],
     arm  |-> [n \in Node |-> [a \in Arm |-> {}]],
     wait |-> [n \in Node |-> 0],
     when |-> {},
     auto |-> {}]

Arms(then, else) == [a \in Arm |-> IF a = "Then" THEN then ELSE else]

\* branch 0: a gate, or straight to the step behind it; step 2 alongside.
SkipTheGate ==
    [Steps({<<0, 1>>, <<0, 3>>, <<1, 3>>, <<2, 4>>, <<3, 4>>},
           0 :> "branch" @@ 1 :> "gate")
       EXCEPT !.arm[0] = Arms({1}, {3})]

\* The first of two arms wins, the other has two hops.
Race ==
    [Steps({<<0, 1>>, <<0, 2>>, <<2, 3>>, <<1, 4>>, <<3, 4>>},
           0 :> "split" @@ 4 :> "join")
       EXCEPT !.wait[4] = 1]

\* The loser also feeds step 4, which nobody may cut off; its own `when:'.
SharedLoser ==
    [Steps({<<0, 1>>, <<0, 2>>, <<1, 3>>, <<2, 3>>, <<2, 4>>},
           0 :> "split" @@ 3 :> "join")
       EXCEPT !.wait[3] = 1, !.when = {1, 4}]

\* A join inside the arm that may not be taken, behind it a race.
JoinInArm ==
    [Steps({<<0, 1>>, <<0, 2>>, <<1, 4>>, <<2, 3>>, <<3, 4>>},
           0 :> "branch" @@ 3 :> "join" @@ 4 :> "join")
       EXCEPT !.arm[0] = Arms({1}, {2}), !.wait[3] = 1, !.wait[4] = 1]

\* Two of three paths, two of them behind gates.
TwoOfThree ==
    [Steps({<<0, 1>>, <<0, 2>>, <<0, 3>>, <<1, 4>>, <<2, 4>>, <<3, 4>>},
           0 :> "split" @@ 1 :> "gate" @@ 2 :> "gate" @@ 4 :> "join")
       EXCEPT !.wait[4] = 2, !.auto = {2}]

\* Two gates, each with a step behind it, and a join that waits for both.
TwoGates ==
    [Steps({<<0, 1>>, <<2, 3>>, <<1, 4>>, <<3, 4>>},
           0 :> "gate" @@ 2 :> "gate" @@ 4 :> "join")
       EXCEPT !.wait[4] = 2]

\* Step 3 is behind a gate and behind one arm of a branch, declared last.
GateAndArm ==
    [Steps({<<4, 2>>, <<4, 3>>, <<1, 3>>, <<3, 0>>},
           4 :> "branch" @@ 1 :> "gate")
       EXCEPT !.arm[4] = Arms({2}, {3}), !.auto = {1}]

Shapes == {SkipTheGate, Race, SharedLoser, JoinInArm, TwoOfThree, TwoGates,
           GateAndArm}

\* A step that both arms of a branch lead to.
ArmsMeet == {SkipTheGate}

\* Seven nodes.  Step 0 wins; 1, 2 and 4 are its losers, and 4 also waits for
\* step 3, which nobody may cut off.
LoserWithAnOpenEnd ==
    {[Steps({<<0, 6>>, <<1, 2>>, <<2, 4>>, <<3, 4>>, <<3, 5>>, <<4, 6>>},
            6 :> "join")
        EXCEPT !.wait[6] = 1]}

Once(kinds) == [k \in Disturbance |-> IF k \in kinds THEN 1 ELSE 0]

JustAPause == {Once({"pause"})}
OneOrTwo   == {Once({"pause", "crash"}), Once({"stop"}), Once({"fail"})}
==============================================================================
