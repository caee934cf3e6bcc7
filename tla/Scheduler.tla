------------------------------ MODULE Scheduler ------------------------------
(***************************************************************************)
(* run_scheduler_scoped: the ready-set scheduler of a non-linear workflow, *)
(* with its joins, branches, approval gates, the cooperative pause, the    *)
(* whole-run stop, and the replay of step_results.jsonl by which a later   *)
(* process goes on with the run.                                           *)
(*                                                                         *)
(* The scheduler is one task: an action is what it does to one node, or to *)
(* one join of a worklist, and only the dispatched steps run next to it.   *)
(***************************************************************************)
EXTENDS WorkflowGraph

CONSTANT Budget   \* how often each kind of disturbance may happen: the choices

Disturbance == {"pause", "stop", "crash", "fail"}

ASSUME SchedulerAssumption == Budget \subseteq [Disturbance -> Nat]

VARIABLES
    wf,        \* the workflow of the run
    result,    \* step_results.jsonl, by node
    decision,  \* the gate decisions recorded in run.json
    awaiting,  \* the gates run.json lists as waiting for one
    phase,     \* is a process scheduling the run, and how did the last one end?
    sched,     \* the local variables of run_scheduler_scoped
    budget,    \* what is left of the disturbances
    lost       \* history variable: the nodes a join has written off

vars == <<wf, result, decision, awaiting, phase, sched, budget, lost>>

Live    == {"Ran", "Then", "Else", "Approved"}
NotLive == {"Skipped", "Pruned", "Cancelled", "Rejected"}
Result  == {"None"} \cup Live \cup NotLive
Verdict == {"None", "Approved", "Rejected"}
Phase   == {"New", "Running", "Paused", "Stopped", "Failed", "Crashed", "Done"}

(* The scheduler drains `ready', looks at the signal, awaits its tasks, or   *)
(* tears them down after a stop.  `task' is the JoinSet, `aborted' the tasks *)
(* a join or the stop has aborted, `todo' the worklist of joins, `skipped'   *)
(* is `branch_skipped', `parked' the gates this call parked, `heard' the     *)
(* decisions pending in its GateBook, `noted' its manual pause, `tok' and    *)
(* `sig' the pause token and the signal to stop.                             *)
Scheduling ==
    [pc        : {"drain", "check", "await", "teardown"},
     done      : SUBSET Node,
     indegree  : [Node -> Nat],
     ready     : SUBSET Node,
     skipped   : SUBSET Node,
     dead      : SUBSET (Node \X Node),
     rejected  : SUBSET Node,
     pruned    : SUBSET Node,
     cancelled : SUBSET Node,
     task      : [Node -> {"None", "Running", "Ran", "Paused", "Failed"}],
     aborted   : SUBSET Node,
     parked    : SUBSET Node,
     heard     : SUBSET Node,
     arrived   : [Node -> SUBSET Node],
     accounted : [Node -> Nat],
     resolved  : SUBSET Node,
     todo      : SUBSET Node,
     noted     : BOOLEAN,
     tok       : BOOLEAN,
     sig       : BOOLEAN]

TypeOK ==
    /\ wf \in Workflow
    /\ result \in [Node -> Result]
    /\ decision \in [Node -> Verdict]
    /\ awaiting \subseteq Node
    /\ phase \in Phase
    /\ sched \in Scheduling
    /\ budget \in [Disturbance -> Nat]
    /\ lost \subseteq Node

------------------------------------------------------------------------------
(* The start of a call: everything is rebuilt from the step results.        *)

InFlight(s) == {n \in Node : s.task[n] # "None"}

DeadEdges(w, r) ==
    {e \in w.edge : r[e[1]] \in Arm /\ e[2] \in Untaken(w, e[1], r[e[1]])}

\* extend_rejection_prune
ExtendPrune(s) ==
    IF s.rejected = {} THEN s
    ELSE [s EXCEPT !.pruned =
            @ \cup (RejectionPruneSet(wf, s.rejected, s.dead) \ s.done)]

\* The joins that have what they wait for, or nothing left to wait for.
Satisfied(arrived, accounted) ==
    {j \in Joins(wf) : \/ Cardinality(arrived[j]) >= wf.wait[j]
                       \/ accounted[j] >= Cardinality(Pred(wf, j))}

\* Mutant: what is done is taken off twice.
OpenDegreeTwice(done) ==
    [n \in Node |-> Cardinality(Pred(wf, n)) - 2 * Cardinality(Pred(wf, n) \cap done)]

OpenDegree(done) == [n \in Node |-> Cardinality(Pred(wf, n) \ done)]

\* Mutant: a resumed join starts from zero.
InboundForgotten(j, done) == {}

\* The inbound paths of a join that are replayed from the results.
Inbound(j, done) ==
    IF j \in Joins(wf) \ done THEN Pred(wf, j) \cap done ELSE {}

\* Mutant: a process knows only the decisions made while it runs.
RecordedNone(done) == {}

\* The decisions run.json holds for gates that have no result yet.
Recorded(done) == {n \in Node \ done : decision[n] # "None"}

Restored ==
    LET done      == {n \in Node : result[n] # "None"}
        with(v)   == {n \in Node : result[n] = v}
        indegree  == OpenDegree(done)
        arrived   == [j \in Node |-> {p \in Inbound(j, done) : result[p] \in Live}]
        accounted == [j \in Node |-> Cardinality(Inbound(j, done))]
    IN  ExtendPrune(
          [pc        |-> "drain",
           done      |-> done,
           indegree  |-> indegree,
           ready     |-> {n \in Node \ (done \cup Joins(wf)) : indegree[n] = 0},
           skipped   |-> {e[2] : e \in DeadEdges(wf, result)},
           dead      |-> DeadEdges(wf, result),
           rejected  |-> with("Rejected"),
           pruned    |-> with("Pruned"),
           cancelled |-> with("Cancelled"),
           task      |-> [n \in Node |-> "None"],
           aborted   |-> {},
           parked    |-> {},
           heard     |-> Recorded(done),
           arrived   |-> arrived,
           accounted |-> accounted,
           resolved  |-> Joins(wf) \cap done,
           todo      |-> Satisfied(arrived, accounted) \ done,
           noted     |-> FALSE,
           tok       |-> FALSE,
           sig       |-> FALSE])

Init ==
    /\ wf \in Workflow
    /\ result = [n \in Node |-> "None"]
    /\ decision = [n \in Node |-> "None"]
    /\ awaiting = {}
    /\ phase = "New"
    /\ sched = Restored
    /\ budget \in Budget
    /\ lost = {}

\* A process takes the run up: the first, or one that resumes it.
StartPass ==
    /\ phase \in {"New", "Paused", "Stopped", "Failed", "Crashed"}
    /\ phase' = "Running"
    /\ sched' = Restored
    /\ UNCHANGED <<wf, result, decision, awaiting, budget, lost>>

Spend(k) ==
    /\ budget[k] > 0
    /\ budget' = [budget EXCEPT ![k] = @ - 1]

\* The end of a process: its tasks are gone, and so is what it knew.
EndAs(p) ==
    /\ phase' = p
    /\ sched' = [sched EXCEPT !.task = [n \in Node |-> "None"],
                              !.ready = {}, !.todo = {}]

------------------------------------------------------------------------------
(* What the end of a node unlocks.                                          *)

\* Mutant: a successor is unlocked with one dependency still open.
UnlockEarly(s, n) == {m \in Succ(wf, n) \ Joins(wf) : s.indegree[m] <= 2}

\* A join is never ready by its indegree.
Unlocked(s, n) == {m \in Succ(wf, n) \ Joins(wf) : s.indegree[m] <= 1}

\* unlock_successors and track_join_arrivals
MarkDone(s, n, live) ==
    LET open      == (Succ(wf, n) \cap Joins(wf)) \ s.resolved
        arrived   == [j \in Node |-> IF j \in open /\ live
                                     THEN s.arrived[j] \cup {n}
                                     ELSE s.arrived[j]]
        accounted == [j \in Node |-> IF j \in open THEN s.accounted[j] + 1
                                     ELSE s.accounted[j]]
    IN  [s EXCEPT
           !.done      = @ \cup {n},
           !.indegree  = [m \in Node |->
                            IF m \in Succ(wf, n) /\ s.indegree[m] > 0
                            THEN s.indegree[m] - 1 ELSE s.indegree[m]],
           !.ready     = @ \cup Unlocked(s, n),
           !.arrived   = arrived,
           !.accounted = accounted,
           !.todo      = @ \cup (open \cap Satisfied(arrived, accounted))]

Executing == phase = "Running"

\* finish_node: the result is persisted before anything is unlocked.
Finish(s, n, v) ==
    /\ result' = [result EXCEPT ![n] = v]
    /\ sched' = MarkDone(s, n, v \in Live)
    /\ UNCHANGED <<wf, decision, awaiting, phase, budget, lost>>

\* drain_joins, for one join of the worklist
DrainJoin(j) ==
    LET winners == sched.arrived[j]
        cut     == Losers(wf, j, winners) \ sched.done
        handles == InFlight(sched) \ sched.aborted
        s       == [sched EXCEPT
                      !.todo      = @ \ {j},
                      !.resolved  = @ \cup {j},
                      !.aborted   = @ \cup (cut \cap handles),
                      !.cancelled = @ \cup (cut \ handles),
                      !.ready     = @ \ (cut \ handles)]
    IN  /\ Executing /\ j \in sched.todo
        /\ \/ /\ j \in sched.resolved
              /\ sched' = [sched EXCEPT !.todo = @ \ {j}]
              /\ UNCHANGED <<result, lost>>
           \/ /\ j \notin sched.resolved
              /\ result' = [result EXCEPT ![j] = "Ran"]
              /\ sched' = MarkDone(s, j, TRUE)
              /\ lost' = lost \cup cut
        /\ UNCHANGED <<wf, decision, awaiting, phase, budget>>

------------------------------------------------------------------------------
(* Draining the ready nodes, the lowest first.                              *)

Draining == Executing /\ sched.todo = {} /\ sched.pc = "drain"

Lowest(n) ==
    /\ Draining /\ ~sched.sig
    /\ n \in sched.ready /\ \A m \in sched.ready : n <= m

Taken(n) == [sched EXCEPT !.ready = @ \ {n}]

WrittenOff(n) == n \in sched.skipped \cup sched.pruned \cup sched.cancelled

SkipWrittenOff(n) ==
    /\ Lowest(n) /\ WrittenOff(n)
    /\ Finish(Taken(n), n, CASE n \in sched.pruned -> "Pruned"
                             [] n \in sched.cancelled \ sched.pruned -> "Cancelled"
                             [] OTHER -> "Skipped")

\* A pause stops at the step boundary; `n' is left for the resume.
PauseBefore(n) ==
    /\ Lowest(n) /\ ~WrittenOff(n) /\ (sched.noted \/ sched.tok)
    /\ sched' = [Taken(n) EXCEPT !.noted = TRUE, !.pc = "check"]
    /\ UNCHANGED <<wf, result, decision, awaiting, phase, budget, lost>>

Reached(n) == Lowest(n) /\ ~WrittenOff(n) /\ ~sched.noted /\ ~sched.tok

\* The `when:' of a step is false.
SkipWhen(n) ==
    /\ Reached(n) /\ n \in wf.when
    /\ Finish(Taken(n), n, "Skipped")

Reject(n) ==
    LET s == ExtendPrune([Taken(n) EXCEPT !.heard = @ \ {n},
                                          !.rejected = @ \cup {n}])
    IN  Finish(s, n, "Rejected")

Gate(n) ==
    /\ Reached(n) /\ wf.kind[n] = "gate"
    /\ \/ /\ n \in sched.heard /\ decision[n] = "Approved"
          /\ Finish([Taken(n) EXCEPT !.heard = @ \ {n}], n, "Approved")
       \/ /\ n \in sched.heard /\ decision[n] = "Rejected"
          /\ Reject(n)
       \/ /\ n \notin sched.heard /\ n \in wf.auto
          /\ Finish(Taken(n), n, "Approved")
       \/ /\ n \notin sched.heard
          /\ sched' = [Taken(n) EXCEPT !.parked = @ \cup {n}]
          /\ UNCHANGED <<wf, result, decision, awaiting, phase, budget, lost>>

Branch(n, a) ==
    LET s == [Taken(n) EXCEPT
                !.pruned = @ \cup BranchPruneSet(wf, n, a),
                !.dead   = @ \cup {<<n, t>> : t \in Untaken(wf, n, a)}]
    IN  /\ Reached(n) /\ wf.kind[n] = "branch"
        /\ Finish(ExtendPrune(s), n, a)

Split(n) ==
    /\ Reached(n) /\ wf.kind[n] = "split"
    /\ Finish(Taken(n), n, "Ran")

Dispatch(n) ==
    /\ Reached(n) /\ wf.kind[n] = "task"
    /\ sched' = [Taken(n) EXCEPT !.task[n] = "Running"]
    /\ UNCHANGED <<wf, result, decision, awaiting, phase, budget, lost>>

\* A template (`when:', a gate's prompt, a branch's condition) does not render.
RenderFails(n) ==
    /\ Reached(n) /\ (wf.kind[n] \in {"gate", "branch"} \/ n \in wf.when)
    /\ Spend("fail")
    /\ EndAs("Failed")
    /\ UNCHANGED <<wf, result, decision, awaiting, lost>>

\* Nothing is ready, or the stop was seen before the next ready node.
DrainEnds ==
    /\ Draining /\ (sched.ready = {} \/ sched.sig)
    /\ sched' = [sched EXCEPT !.pc = "check"]
    /\ UNCHANGED <<wf, result, decision, awaiting, phase, budget, lost>>

------------------------------------------------------------------------------
(* The dispatched steps, and what becomes of them.                          *)

\* A task runs to its end; one that was aborted may still get there first.
Work(n) ==
    /\ Executing /\ sched.task[n] = "Running"
    /\ \/ /\ sched' = [sched EXCEPT !.task[n] = "Ran"]
          /\ UNCHANGED budget
       \/ /\ sched.tok
          /\ sched' = [sched EXCEPT !.task[n] = "Paused"]
          /\ UNCHANGED budget
       \/ /\ Spend("fail")
          /\ sched' = [sched EXCEPT !.task[n] = "Failed"]
    /\ UNCHANGED <<wf, result, decision, awaiting, phase, lost>>

Checking == Executing /\ sched.todo = {} /\ sched.pc = "check"
Awaiting == Executing /\ sched.todo = {} /\ sched.pc = "await"

\* No stop was asked for, and there is something to await.
Await ==
    /\ Checking /\ ~sched.sig /\ InFlight(sched) # {}
    /\ sched' = [sched EXCEPT !.pc = "await"]
    /\ UNCHANGED <<wf, result, decision, awaiting, phase, budget, lost>>

Ended(n) == [sched EXCEPT !.task[n] = "None", !.aborted = @ \ {n}, !.pc = "drain"]

\* join_next yields a completed step.  The result of a join's loser that won
\* the race against its abort is dropped.
Collect(n) ==
    /\ Awaiting /\ sched.task[n] = "Ran"
    /\ \/ n \notin sched.aborted /\ Finish(Ended(n), n, "Ran")
       \/ /\ n \in sched.aborted
          /\ sched' = Ended(n)
          /\ UNCHANGED <<wf, result, decision, awaiting, phase, budget, lost>>

\* join_next yields a step that stopped at its own pause boundary.
CollectPaused(n) ==
    /\ Awaiting /\ sched.task[n] = "Paused"
    /\ sched' = [Ended(n) EXCEPT !.noted = @ \/ n \notin sched.aborted]
    /\ UNCHANGED <<wf, result, decision, awaiting, phase, budget, lost>>

\* join_next yields the abort of a join's loser: no result, but its end is
\* accounted for.
Reap(n) ==
    /\ Awaiting /\ sched.task[n] = "Running" /\ n \in sched.aborted
    /\ sched' = MarkDone(Ended(n), n, FALSE)
    /\ UNCHANGED <<wf, result, decision, awaiting, phase, budget, lost>>

\* A step's error ends the call, and drops the other steps in flight.
CollectFailed(n) ==
    /\ Executing /\ sched.todo = {} /\ sched.task[n] = "Failed"
    /\ sched.pc \in {"await", "teardown"}
    /\ EndAs("Failed")
    /\ UNCHANGED <<wf, result, decision, awaiting, budget, lost>>

\* The poll for decisions on the gates this call has parked.
PollDecisions ==
    LET new == {g \in sched.parked : decision[g] # "None"}
    IN  /\ Awaiting /\ new # {}
        /\ sched' = [sched EXCEPT !.heard  = @ \cup new,
                                  !.parked = @ \ new,
                                  !.ready  = @ \cup new,
                                  !.pc     = "drain"]
        /\ UNCHANGED <<wf, result, decision, awaiting, phase, budget, lost>>

\* cancel_finalize aborts every task it still has a handle of ...
Teardown ==
    /\ Checking \/ Awaiting
    /\ sched.sig
    /\ sched' = [sched EXCEPT !.aborted = @ \cup InFlight(sched),
                              !.pc = "teardown"]
    /\ UNCHANGED <<wf, result, decision, awaiting, phase, budget, lost>>

\* ... keeps the result of one that was already through, and drops the rest.
TeardownOne(n) ==
    /\ Executing /\ sched.pc = "teardown"
    /\ sched.task[n] \in {"Running", "Ran", "Paused"}
    /\ sched' = [sched EXCEPT !.task[n] = "None"]
    /\ result' = IF sched.task[n] = "Ran" THEN [result EXCEPT ![n] = "Ran"]
                 ELSE result
    /\ UNCHANGED <<wf, decision, awaiting, phase, budget, lost>>

TornDown ==
    /\ Executing /\ sched.pc = "teardown" /\ InFlight(sched) = {}
    /\ EndAs("Stopped")
    /\ UNCHANGED <<wf, result, decision, awaiting, budget, lost>>

\* Nothing is in flight and nothing can be launched.
EndPass ==
    /\ Checking /\ ~sched.sig /\ InFlight(sched) = {}
    /\ EndAs(IF sched.noted \/ sched.parked # {} THEN "Paused" ELSE "Done")
    /\ awaiting' = IF sched.noted THEN {}
                   ELSE {g \in sched.parked : decision[g] = "None"}
    /\ UNCHANGED <<wf, result, decision, budget, lost>>

------------------------------------------------------------------------------
(* The world around it.                                                     *)

\* Somebody decides a gate that run.json lists.
Decide(g) ==
    /\ g \in awaiting
    /\ \E v \in {"Approved", "Rejected"} :
         decision' = [decision EXCEPT ![g] = v]
    /\ awaiting' = awaiting \ {g}
    /\ UNCHANGED <<wf, result, phase, sched, budget, lost>>

RequestPause ==
    /\ Executing /\ ~sched.tok /\ Spend("pause")
    /\ sched' = [sched EXCEPT !.tok = TRUE]
    /\ UNCHANGED <<wf, result, decision, awaiting, phase, lost>>

RequestStop ==
    /\ Executing /\ ~sched.sig /\ Spend("stop")
    /\ sched' = [sched EXCEPT !.sig = TRUE]
    /\ UNCHANGED <<wf, result, decision, awaiting, phase, lost>>

Crash ==
    /\ Executing /\ Spend("crash")
    /\ EndAs("Crashed")
    /\ UNCHANGED <<wf, result, decision, awaiting, lost>>

\* The run is over: every node that will ever have a result has it.
Terminated == phase = "Done" /\ UNCHANGED vars

DrainStep ==
    \E n \in Node :
      \/ DrainJoin(n) \/ SkipWrittenOff(n) \/ PauseBefore(n) \/ SkipWhen(n)
      \/ Gate(n) \/ Split(n) \/ Dispatch(n) \/ RenderFails(n)
      \/ \E a \in Arm : Branch(n, a)

AwaitStep ==
    \/ \E n \in Node : \/ Collect(n) \/ CollectPaused(n) \/ Reap(n)
                       \/ CollectFailed(n) \/ TeardownOne(n)
    \/ Await \/ PollDecisions \/ Teardown \/ TornDown \/ EndPass

SchedulerStep == DrainStep \/ DrainEnds \/ AwaitStep

Next ==
    \/ StartPass \/ SchedulerStep
    \/ \E n \in Node : Work(n) \/ Decide(n)
    \/ RequestPause \/ RequestStop \/ Crash \/ Terminated

Spec == Init /\ [][Next]_vars

\* The scheduler is not starved and a step comes to an end; the environment
\* decides the gates and takes an interrupted run up again.
FairSpec ==
    /\ Spec
    /\ WF_vars(SchedulerStep)
    /\ WF_vars(StartPass)
    /\ \A n \in Node : WF_vars(Work(n)) /\ WF_vars(Decide(n))

------------------------------------------------------------------------------
(* Properties. *)

Settled(n) == result[n] # "None" \/ n \in lost

\* A step nobody has cut off is in flight only when everything it depends on
\* has its result on disk: indegrees survive saturating_sub, gates that come
\* back to `ready', aborted losers that unlock what is behind them, and the
\* rebuilding on resume.
DependenciesFirst ==
    \A n \in Node \ lost : sched.task[n] # "None" =>
        \A p \in Pred(wf, n) : result[p] # "None"

\* A run that is over has lost no node on the way: each has a result, or a join
\* fired without it.  No join waits for an arrival that was forgotten, and no
\* successor for an end that was not accounted for.
DoneIsComplete ==
    phase = "Done" => \A n \in Node : Settled(n)

\* The edges that no live path takes: of the arms not taken, behind rejected
\* gates, and behind what a join has written off.
Off ==
    DeadEdges(wf, result)
      \cup {e \in wf.edge : result[e[1]] = "Rejected" \/ e[1] \in lost}

\* What the results leave open: the nodes an entry still reaches without them.
LivePath == Reach(wf.edge \ Off, Entries(wf))

\* A node is pruned only if no live path leads to it, whatever order branches
\* and gates were decided in, and by whichever process.
PrunedIsDead ==
    \A n \in Node : result[n] = "Pruned" => n \notin LivePath

\* The scheduler keeps the promise of Dataflow, across pauses, stops, crashes
\* and resumes.
Promise == INSTANCE Dataflow WITH wf <- wf, result <- result, lost <- lost

KeepsPromise == Promise!Spec

\* An interrupted run that is taken up again, with its gates decided, comes to
\* its end: no gate, join or pause strands it.
Ends == <>(phase = "Done")

\* A node that a live path leads to is not skipped, but for its own `when:',
\* though the arm not taken of a branch leads to it too.
ReconvergeRuns ==
    \A n \in Node : result[n] = "Skipped" /\ n \in LivePath => n \in wf.when

\* A step is ready only when all its predecessors are done, whoever waits for
\* it.
ReadyOnlyWhenDone ==
    \A n \in Node : sched.task[n] # "None" =>
        \A p \in Pred(wf, n) : result[p] # "None"

\* A pruned node never counts as an arrival at a join.
NoDeadWinner ==
    \A j \in Joins(wf) : sched.arrived[j] \cap sched.pruned = {}
==============================================================================
