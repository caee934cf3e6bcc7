--------------------------- MODULE SchedulerProofs ---------------------------
(***************************************************************************)
(* For every workflow and every number of pauses, stops, crashes and       *)
(* failures: the scheduler starts nothing before what it depends on, keeps *)
(* the promise of Dataflow, prunes only what is on no live path, and comes *)
(* to an end that has forgotten no node.                                   *)
(***************************************************************************)
EXTENDS Scheduler, FiniteSetTheorems, TLAPS

(* The inductive invariant.  It says of every node that no join has cut off *)
(* that the scheduler's bookkeeping agrees with the results on disk.        *)

\* What has a result was reached in order.
InOrder(w, r, l) ==
    \A n \in Node \ (l \cup Joins(w)) :
        r[n] # "None" => \A p \in Pred(w, n) : r[p] # "None"

\* A lost path leads to lost nodes, and to joins that have fired.
LostClosed(w, r, l) ==
    \A x \in l : \A y \in Succ(w, x) :
        y \in l \/ (y \in Joins(w) /\ r[y] # "None")

KeptInOrder(w, r, l) == InOrder(w, r, l) /\ LostClosed(w, r, l)

Pending(s) == s.ready \cup s.parked \cup InFlight(s)

Apart(s, l) ==
    \A m \in Node \ l : /\ m \in s.ready => m \notin s.parked \cup InFlight(s)
                        /\ m \in s.parked => m \notin InFlight(s)

\* A node that was reached is in one place, and all it depends on is done.
Waiting(w, s, r, l) ==
    /\ Pending(s) \cap Joins(w) = {}
    /\ \A m \in Pending(s) \ l : m \notin s.done /\ Pred(w, m) \subseteq s.done
    /\ \A m \in InFlight(s) \ l : r[m] = "None"
    /\ Apart(s, l)

\* An indegree counts the dependencies that are not done.
Degrees(w, s, l) ==
    \A m \in Node \ (l \cup Joins(w)) :
        s.indegree[m] = Cardinality(Pred(w, m) \ s.done)

\* A join counts no arrival twice, and comes up only when it may fire.
Arrivals(w, s, r, l) ==
    /\ s.todo \subseteq Joins(w)
    /\ \A j \in Joins(w) \ (l \cup s.resolved) :
         /\ s.arrived[j] \subseteq {p \in Pred(w, j) : r[p] \in Live}
         /\ s.accounted[j] <= Cardinality(Pred(w, j) \cap s.done)
         /\ j \in s.todo => \/ Cardinality(s.arrived[j]) >= w.wait[j]
                            \/ s.accounted[j] >= Cardinality(Pred(w, j))

\* `done' and the results agree, but for aborted losers, and for what
\* cancel_finalize records on the way out.
OnDisk(w, s, r, l) ==
    /\ \A m \in Node : r[m] # "None" =>
         m \in s.done \/ (s.pc = "teardown" /\ m \notin Joins(w))
    /\ \A m \in s.done : r[m] # "None" \/ m \in l \ Joins(w)
    /\ s.pc = "teardown" => s.todo = {}
    /\ s.pc # "teardown" => s.aborted \subseteq l

Sound(w, s, r, l) ==
    /\ Waiting(w, s, r, l)
    /\ Degrees(w, s, l)
    /\ Arrivals(w, s, r, l)
    /\ OnDisk(w, s, r, l)

ResolvedWhenDone(w, s) == s.resolved = Joins(w) \cap s.done

Inv ==
    /\ TypeOK
    /\ KeptInOrder(wf, result, lost)
    /\ phase = "Running" => /\ Sound(wf, sched, result, lost)
                            /\ ResolvedWhenDone(wf, sched)
    /\ phase # "Running" => InFlight(sched) = {}

------------------------------------------------------------------------------
(* Counting, over subsets of Node. *)

\* The size of a set of nodes is a number.
LEMMA Countable ==
    ASSUME NEW S \in SUBSET Node
    PROVE  IsFiniteSet(S) /\ Cardinality(S) \in Nat
BY WorkflowAssumption, FS_Subset, FS_CardinalityType

\* Taking one away, and adding one.
LEMMA CountLess ==
    ASSUME NEW S \in SUBSET Node, NEW n \in S
    PROVE  Cardinality(S \ {n}) = Cardinality(S) - 1 /\ Cardinality(S) > 0
<1>1. IsFiniteSet(S) /\ Cardinality(S) \in Nat
    BY Countable
<1>2. Cardinality(S \ {n}) = Cardinality(S) - 1
    BY <1>1, FS_RemoveElement
<1>3. Cardinality(S \ {n}) \in Nat
    BY Countable
<1> QED
    BY <1>1, <1>2, <1>3

\* One more, or as many.
LEMMA CountMore ==
    ASSUME NEW S \in SUBSET Node, NEW n \in Node \ S
    PROVE  Cardinality(S \cup {n}) = Cardinality(S) + 1
<1>1. n \in S \cup {n} /\ (S \cup {n}) \ {n} = S /\ S \cup {n} \in SUBSET Node
    OBVIOUS
<1>2. Cardinality(S) = Cardinality(S \cup {n}) - 1
    BY <1>1, CountLess
<1>3. Cardinality(S) \in Nat /\ Cardinality(S \cup {n}) \in Nat
    BY <1>1, Countable
<1> QED
    BY <1>2, <1>3

\* A set of at most one node that holds `n' holds nothing else.
LEMMA CountOne ==
    ASSUME NEW S \in SUBSET Node, NEW n \in S, Cardinality(S) <= 1
    PROVE  S = {n}
<1>1. Cardinality(S \ {n}) = Cardinality(S) - 1 /\ Cardinality(S \ {n}) \in Nat
    BY CountLess, Countable
<1>2. Cardinality(S \ {n}) = 0
    BY <1>1, Countable
<1>3. S \ {n} = {}
    BY <1>2, Countable, FS_EmptySet
<1> QED
    BY <1>3

\* A part that is as large as the whole is the whole.
LEMMA CountAll ==
    ASSUME NEW S \in SUBSET Node, NEW T \in SUBSET S,
           Cardinality(S) <= Cardinality(T)
    PROVE  T = S
<1>1. IsFiniteSet(S) /\ Cardinality(S) \in Nat /\ Cardinality(T) \in Nat
    BY Countable
<1>2. Cardinality(T) <= Cardinality(S) /\ (Cardinality(T) = Cardinality(S) => S = T)
    BY <1>1, FS_Subset
<1> QED
    BY <1>1, <1>2

------------------------------------------------------------------------------
(* The graph and the local variables have their types. *)

\* What the parser guarantees of the workflow of the run.
LEMMA GraphType ==
    ASSUME NEW w \in Workflow
    PROVE  /\ w \in Graph
           /\ \A n \in Node : Succ(w, n) \subseteq Node /\ Pred(w, n) \subseteq Node
           /\ \A n, m \in Node : m \in Succ(w, n) <=> n \in Pred(w, m)
           /\ Joins(w) \subseteq Node
BY WorkflowAssumption DEF Succ, Pred, Joins

\* No node waits for itself.
LEMMA NoSelfEdge ==
    ASSUME NEW w \in Workflow, NEW n \in Node
    PROVE  n \notin Succ(w, n)
<1>1. {n} \in (SUBSET Node) \ {{}} /\ Acyclic(w)
    BY WorkflowAssumption
<1>2. n \notin Pred(w, n)
    BY <1>1 DEF Acyclic
<1> QED
    BY <1>2 DEF Succ, Pred

\* Everything that is pruned or cut off is a node.
LEMMA PruneType ==
    ASSUME NEW w \in Workflow, NEW n \in Node, NEW a, NEW R, NEW D
    PROVE  /\ BranchPruneSet(w, n, a) \subseteq Node
           /\ RejectionPruneSet(w, R, D) \subseteq Node
BY DEF BranchPruneSet, RejectionPruneSet, Reach

\* What is behind a path a join cuts off is cut off with it, or is the join.
LEMMA LosersClosed ==
    ASSUME NEW w \in Workflow, NEW j, NEW W
    PROVE  /\ Losers(w, j, W) \subseteq Node
           /\ \A x \in Losers(w, j, W) : Succ(w, x) \subseteq Losers(w, j, W) \cup {j}
<1> DEFINE back       == Reversed(w.edge)
           candidates == Reach(back, Pred(w, j) \ W) \ Reach(back, W)
           closed     == {L \in SUBSET candidates :
                            \A x \in L : Succ(w, x) \subseteq L \cup {j}}
<1>1. Losers(w, j, W) = UNION closed
    BY DEF Losers
<1>2. candidates \subseteq Node
    BY DEF Reach
<1> HIDE DEF candidates
<1>3. UNION closed \subseteq Node
    BY <1>2
<1>4. ASSUME NEW x \in UNION closed
      PROVE  Succ(w, x) \subseteq (UNION closed) \cup {j}
    <2>1. PICK L \in closed : x \in L
        BY <1>4
    <2>2. Succ(w, x) \subseteq L \cup {j} /\ L \subseteq UNION closed
        BY <2>1
    <2> QED
        BY <2>2
<1> QED
    BY <1>1, <1>3, <1>4

\* extend_rejection_prune changes nothing but `pruned'.
LEMMA ExtendPruneType ==
    ASSUME NEW s \in Scheduling, wf \in Workflow
    PROVE  /\ ExtendPrune(s) \in Scheduling
           /\ \E P \in SUBSET Node : ExtendPrune(s) = [s EXCEPT !.pruned = P]
<1> DEFINE more == RejectionPruneSet(wf, s.rejected, s.dead) \ s.done
<1>1. more \subseteq Node
    BY WorkflowAssumption DEF RejectionPruneSet, Reach
<1> HIDE DEF more
<1>2. s = [s EXCEPT !.pruned = s.pruned] /\ s.pruned \subseteq Node
    BY DEF Scheduling
<1>3. ExtendPrune(s) = IF s.rejected = {} THEN s
                       ELSE [s EXCEPT !.pruned = s.pruned \cup more]
    BY DEF ExtendPrune, more
<1>4. PICK P \in SUBSET Node : ExtendPrune(s) = [s EXCEPT !.pruned = P]
    BY <1>1, <1>2, <1>3
<1>5. [s EXCEPT !.pruned = P] \in Scheduling
    BY DEF Scheduling
<1> QED
    BY <1>4, <1>5

\* The end of a node keeps the types.
LEMMA MarkDoneType ==
    ASSUME NEW s \in Scheduling, wf \in Workflow, NEW n \in Node, NEW live \in BOOLEAN
    PROVE  MarkDone(s, n, live) \in Scheduling
<1> DEFINE open      == (Succ(wf, n) \cap Joins(wf)) \ s.resolved
           arrived   == [j \in Node |-> IF j \in open /\ live
                                        THEN s.arrived[j] \cup {n}
                                        ELSE s.arrived[j]]
           accounted == [j \in Node |-> IF j \in open THEN s.accounted[j] + 1
                                        ELSE s.accounted[j]]
           indegree  == [m \in Node |->
                           IF m \in Succ(wf, n) /\ s.indegree[m] > 0
                           THEN s.indegree[m] - 1 ELSE s.indegree[m]]
           done      == s.done \cup {n}
           ready     == s.ready \cup Unlocked(s, n)
           todo      == s.todo \cup (open \cap Satisfied(arrived, accounted))
<1>1. arrived \in [Node -> SUBSET Node]
    BY DEF Scheduling
<1>2. accounted \in [Node -> Nat] /\ indegree \in [Node -> Nat]
    BY DEF Scheduling
<1>3. done \subseteq Node /\ ready \subseteq Node /\ todo \subseteq Node
    BY GraphType DEF Scheduling, Unlocked
<1>4. MarkDone(s, n, live) = [s EXCEPT !.done = done, !.indegree = indegree,
                                !.ready = ready, !.arrived = arrived,
                                !.accounted = accounted, !.todo = todo]
    BY DEF MarkDone, Scheduling
<1> HIDE DEF arrived, accounted, indegree, done, ready, todo
<1> DEFINE s1 == [s EXCEPT !.done = done, !.indegree = indegree, !.ready = ready]
<1>5. s1 \in Scheduling
    BY <1>2, <1>3 DEF Scheduling
<1>6. MarkDone(s, n, live) = [s1 EXCEPT !.arrived = arrived,
                                !.accounted = accounted, !.todo = todo]
    BY <1>4
<1> HIDE DEF s1
<1>7. [s1 EXCEPT !.arrived = arrived, !.accounted = accounted, !.todo = todo]
        \in Scheduling
    BY <1>1, <1>2, <1>3, <1>5 DEF Scheduling
<1> QED
    BY <1>6, <1>7

\* What a new call starts from.
RestoredAs(s) ==
    /\ s.pc = "drain"
    /\ s.done = {n \in Node : result[n] # "None"}
    /\ s.indegree = OpenDegree(s.done)
    /\ s.ready = {n \in Node \ (s.done \cup Joins(wf)) : s.indegree[n] = 0}
    /\ s.task = [n \in Node |-> "None"]
    /\ s.parked = {} /\ s.aborted = {}
    /\ s.arrived = [j \in Node |-> {p \in Inbound(j, s.done) : result[p] \in Live}]
    /\ s.accounted = [j \in Node |-> Cardinality(Inbound(j, s.done))]
    /\ s.resolved = Joins(wf) \cap s.done
    /\ s.todo = Satisfied(s.arrived, s.accounted) \ s.done

\* What it prunes, before it looks at what is behind the rejected gates.
PrunesAs(s) ==
    /\ s \in Scheduling
    /\ s.pruned = {n \in Node : result[n] = "Pruned"}
    /\ s.dead = DeadEdges(wf, result)
    /\ s.rejected = {n \in Node : result[n] = "Rejected"}

\* A new call starts from a state of the right type.
LEMMA RestoredType ==
    ASSUME wf \in Workflow, result \in [Node -> Result],
           decision \in [Node -> Verdict]
    PROVE  /\ Restored \in Scheduling /\ RestoredAs(Restored)
           /\ \E s : Restored = ExtendPrune(s) /\ PrunesAs(s)
<1> DEFINE done      == {n \in Node : result[n] # "None"}
           with(v)   == {n \in Node : result[n] = v}
           indegree  == OpenDegree(done)
           arrived   == [j \in Node |-> {p \in Inbound(j, done) : result[p] \in Live}]
           accounted == [j \in Node |-> Cardinality(Inbound(j, done))]
           ready     == {n \in Node \ (done \cup Joins(wf)) : indegree[n] = 0}
           skipped   == {e[2] : e \in DeadEdges(wf, result)}
           dead      == DeadEdges(wf, result)
           task      == [n \in Node |-> "None"]
           resolved  == Joins(wf) \cap done
           todo      == Satisfied(arrived, accounted) \ done
           s         == [pc        |-> "drain",
                         done      |-> done,
                         indegree  |-> indegree,
                         ready     |-> ready,
                         skipped   |-> skipped,
                         dead      |-> dead,
                         rejected  |-> with("Rejected"),
                         pruned    |-> with("Pruned"),
                         cancelled |-> with("Cancelled"),
                         task      |-> task,
                         aborted   |-> {},
                         parked    |-> {},
                         heard     |-> Recorded(done),
                         arrived   |-> arrived,
                         accounted |-> accounted,
                         resolved  |-> resolved,
                         todo      |-> todo,
                         noted     |-> FALSE,
                         tok       |-> FALSE,
                         sig       |-> FALSE]
<1>1. Restored = ExtendPrune(s)
    BY DEF Restored
<1>2. /\ wf.edge \subseteq Node \X Node
      /\ Joins(wf) \subseteq Node
      /\ \A n \in Node : Pred(wf, n) \subseteq Node
    BY GraphType DEF Graph
<1>3. done \subseteq Node /\ ready \subseteq Node /\ resolved \subseteq Node
    OBVIOUS
<1>4. indegree \in [Node -> Nat]
    <2>1. \A n \in Node : Cardinality(Pred(wf, n) \ done) \in Nat
        BY <1>2, Countable
    <2> QED
        BY <2>1 DEF OpenDegree
<1>5. \A j \in Node : Inbound(j, done) \subseteq Node
    BY <1>2 DEF Inbound
<1>6. arrived \in [Node -> SUBSET Node]
    BY <1>5
<1>7. accounted \in [Node -> Nat]
    BY <1>5, Countable
<1>8. dead \subseteq Node \X Node /\ skipped \subseteq Node
    BY <1>2 DEF DeadEdges
<1>9. todo \subseteq Node /\ Recorded(done) \subseteq Node
    BY <1>2 DEF Satisfied, Recorded
<1>10. with("Rejected") \subseteq Node /\ with("Pruned") \subseteq Node
         /\ with("Cancelled") \subseteq Node
    OBVIOUS
<1>11. task \in [Node -> {"None", "Running", "Ran", "Paused", "Failed"}]
    OBVIOUS
<1> HIDE DEF done, with, indegree, arrived, accounted, ready, skipped, dead, task,
             resolved, todo
<1>12. s \in Scheduling
    BY <1>3, <1>4, <1>6, <1>7, <1>8, <1>9, <1>10, <1>11 DEF Scheduling
<1>13. /\ s.pc = "drain" /\ s.done = done /\ s.indegree = indegree
       /\ s.ready = ready /\ s.task = task /\ s.parked = {} /\ s.aborted = {}
       /\ s.arrived = arrived /\ s.accounted = accounted
       /\ s.resolved = resolved /\ s.todo = todo
       /\ s.pruned = with("Pruned") /\ s.dead = dead /\ s.rejected = with("Rejected")
    OBVIOUS
<1> HIDE DEF s
<1>14. PICK P \in SUBSET Node : ExtendPrune(s) = [s EXCEPT !.pruned = P]
    BY <1>12, ExtendPruneType
<1>15. LET t == Restored
       IN  /\ t.pc = "drain" /\ t.done = done /\ t.indegree = indegree
           /\ t.ready = ready /\ t.task = task /\ t.parked = {} /\ t.aborted = {}
           /\ t.arrived = arrived /\ t.accounted = accounted
           /\ t.resolved = resolved /\ t.todo = todo
    BY <1>1, <1>12, <1>13, <1>14 DEF Scheduling
<1>16. RestoredAs(Restored)
    BY <1>15 DEF RestoredAs, done, indegree, ready, task, arrived, accounted,
                 resolved, todo
<1>17. PrunesAs(s)
    BY <1>12, <1>13 DEF PrunesAs, with, dead
<1> QED
    BY <1>1, <1>12, <1>16, <1>17, ExtendPruneType

\* What MarkDone changes, variable by variable.
MarkedDone(s, t, n, live) ==
    LET open == (Succ(wf, n) \cap Joins(wf)) \ s.resolved
    IN  /\ t.done = s.done \cup {n}
        /\ t.ready = s.ready \cup Unlocked(s, n)
        /\ \A m \in Node :
             t.indegree[m] = IF m \in Succ(wf, n) /\ s.indegree[m] > 0
                             THEN s.indegree[m] - 1 ELSE s.indegree[m]
        /\ \A j \in Node :
             /\ t.arrived[j] = IF j \in open /\ live
                               THEN s.arrived[j] \cup {n} ELSE s.arrived[j]
             /\ t.accounted[j] = IF j \in open THEN s.accounted[j] + 1
                                 ELSE s.accounted[j]
        /\ t.todo = s.todo \cup (open \cap Satisfied(t.arrived, t.accounted))
        /\ t.pc = s.pc /\ t.parked = s.parked /\ t.task = s.task
        /\ t.aborted = s.aborted /\ t.resolved = s.resolved

\* MarkDone does just that.
LEMMA MarkDoneEffect ==
    ASSUME NEW s \in Scheduling, wf \in Workflow, NEW n \in Node, NEW live \in BOOLEAN
    PROVE  MarkedDone(s, MarkDone(s, n, live), n, live)
<1> DEFINE open      == (Succ(wf, n) \cap Joins(wf)) \ s.resolved
           arrived   == [j \in Node |-> IF j \in open /\ live
                                        THEN s.arrived[j] \cup {n}
                                        ELSE s.arrived[j]]
           accounted == [j \in Node |-> IF j \in open THEN s.accounted[j] + 1
                                        ELSE s.accounted[j]]
           indegree  == [m \in Node |->
                           IF m \in Succ(wf, n) /\ s.indegree[m] > 0
                           THEN s.indegree[m] - 1 ELSE s.indegree[m]]
           done      == s.done \cup {n}
           ready     == s.ready \cup Unlocked(s, n)
           todo      == s.todo \cup (open \cap Satisfied(arrived, accounted))
           t         == MarkDone(s, n, live)
<1>1. t = [s EXCEPT !.done = done, !.indegree = indegree, !.ready = ready,
                    !.arrived = arrived, !.accounted = accounted, !.todo = todo]
    BY DEF MarkDone, Scheduling
<1> HIDE DEF done, indegree, ready, arrived, accounted, todo, t
<1>2. /\ t.done = done /\ t.indegree = indegree /\ t.ready = ready
      /\ t.arrived = arrived /\ t.accounted = accounted /\ t.todo = todo
      /\ t.pc = s.pc /\ t.parked = s.parked /\ t.task = s.task
      /\ t.aborted = s.aborted /\ t.resolved = s.resolved
    BY <1>1 DEF Scheduling
<1>3. /\ \A m \in Node :
           t.indegree[m] = IF m \in Succ(wf, n) /\ s.indegree[m] > 0
                           THEN s.indegree[m] - 1 ELSE s.indegree[m]
      /\ \A j \in Node :
           /\ t.arrived[j] = IF j \in open /\ live
                             THEN s.arrived[j] \cup {n} ELSE s.arrived[j]
           /\ t.accounted[j] = IF j \in open THEN s.accounted[j] + 1
                               ELSE s.accounted[j]
    BY <1>2 DEF indegree, arrived, accounted
<1>4. t.todo = s.todo \cup (open \cap Satisfied(t.arrived, t.accounted))
    BY <1>2 DEF todo
<1> QED
    BY <1>2, <1>3, <1>4 DEF done, ready, t, MarkedDone

------------------------------------------------------------------------------
(* The heart of the argument: the end of a node leaves the bookkeeping in   *)
(* agreement with the results, whether it ran, was written off, or was an   *)
(* aborted loser that gets no result.                                       *)

LEMMA MarkDoneSound ==
    ASSUME wf \in Workflow, NEW s \in Scheduling, NEW r, NEW r2,
           NEW l \in SUBSET Node, NEW n \in Node, NEW live \in BOOLEAN,
           Sound(wf, s, r, l),
           InOrder(wf, r, l),
           LostClosed(wf, r2, l),
           \A m \in Node \ {n} : r2[m] = r[m],
           r2[n] # "None" \/ n \in l \ Joins(wf),
           live => r2[n] \in Live,
           n \notin l => n \notin s.done \cup Pending(s) /\ r[n] = "None",
           s.resolved = Joins(wf) \cap (s.done \cup {n}),
           s.pc # "teardown"
    PROVE  /\ Sound(wf, MarkDone(s, n, live), r2, l)
           /\ ResolvedWhenDone(wf, MarkDone(s, n, live))
<1> DEFINE t == MarkDone(s, n, live)
           open == (Succ(wf, n) \cap Joins(wf)) \ s.resolved
<1>1. /\ t.done = s.done \cup {n}
      /\ t.ready = s.ready \cup Unlocked(s, n)
      /\ \A m \in Node :
           t.indegree[m] = IF m \in Succ(wf, n) /\ s.indegree[m] > 0
                           THEN s.indegree[m] - 1 ELSE s.indegree[m]
      /\ \A j \in Node :
           /\ t.arrived[j] = IF j \in open /\ live
                             THEN s.arrived[j] \cup {n} ELSE s.arrived[j]
           /\ t.accounted[j] = IF j \in open THEN s.accounted[j] + 1
                               ELSE s.accounted[j]
      /\ t.todo = s.todo \cup (open \cap Satisfied(t.arrived, t.accounted))
      /\ t.pc = s.pc /\ t.parked = s.parked /\ t.task = s.task
      /\ t.aborted = s.aborted /\ t.resolved = s.resolved
    <2>1. MarkedDone(s, t, n, live)
        BY MarkDoneEffect
    <2> QED
        BY <2>1 DEF MarkedDone
<1> HIDE DEF t
<1>2. /\ s.done \subseteq Node /\ s.ready \subseteq Node /\ s.parked \subseteq Node
      /\ s.todo \subseteq Node /\ s.indegree \in [Node -> Nat]
      /\ s.arrived \in [Node -> SUBSET Node] /\ s.accounted \in [Node -> Nat]
    BY DEF Scheduling
<1>3. /\ \A m \in Node : Succ(wf, m) \subseteq Node /\ Pred(wf, m) \subseteq Node
      /\ \A k, m \in Node : m \in Succ(wf, k) <=> k \in Pred(wf, m)
      /\ Joins(wf) \subseteq Node
    BY GraphType
<1>4. InFlight(t) = InFlight(s) /\ InFlight(s) \subseteq Node
    BY <1>1 DEF InFlight
<1>5. /\ Waiting(wf, s, r, l) /\ Degrees(wf, s, l)
      /\ Arrivals(wf, s, r, l) /\ OnDisk(wf, s, r, l)
    BY DEF Sound
\* A node that is cut off feeds no node that is not, but joins that fired.
<1>6. n \in l => \A m \in Succ(wf, n) : m \in l \/ m \in s.resolved
    <2> SUFFICES ASSUME n \in l, NEW m \in Succ(wf, n), m \notin l
                 PROVE  m \in s.resolved
        OBVIOUS
    <2>1. m \in Joins(wf) /\ r2[m] # "None" /\ m \in Node
        BY <1>3 DEF LostClosed
    <2>2. CASE m = n
        BY <2>1, <2>2
    <2>3. CASE m # n
        <3>1. r[m] # "None"
            BY <2>1, <2>3
        <3>2. m \in s.done
            BY <1>5, <2>1, <3>1 DEF OnDisk
        <3> QED
            BY <2>1, <3>2
    <2> QED
        BY <2>2, <2>3
\* What is unlocked, and not cut off, had `n' as its last open dependency.
<1>7. ASSUME NEW m \in Unlocked(s, n), m \notin l
      PROVE  /\ n \notin l /\ m \in Node \ Joins(wf)
             /\ m \notin s.done \cup {n} \cup s.parked \cup InFlight(s)
             /\ Pred(wf, m) \subseteq s.done \cup {n}
    <2>1. /\ m \in Succ(wf, n) /\ m \notin Joins(wf) /\ m \in Node
          /\ s.indegree[m] <= 1
        BY <1>3, <1>7 DEF Unlocked
    <2>2. n \notin l
        BY <1>6, <1>7, <2>1
    <2>3. n \in Pred(wf, m) \ s.done
        BY <1>3, <2>1, <2>2
    <2>4. Pred(wf, m) \ s.done \in SUBSET Node
        BY <1>3, <2>1
    <2>5. s.indegree[m] = Cardinality(Pred(wf, m) \ s.done)
        BY <1>5, <1>7, <2>1 DEF Degrees
    <2>6. Pred(wf, m) \ s.done = {n}
        BY <2>1, <2>3, <2>4, <2>5, CountOne
    <2>7. m \notin s.done
        <3>1. SUFFICES ASSUME m \in s.done PROVE FALSE
            OBVIOUS
        <3>2. r[m] # "None"
            BY <1>5, <1>7, <3>1 DEF OnDisk
        <3>3. r[n] # "None"
            BY <1>7, <2>1, <2>3, <3>2 DEF InOrder
        <3> QED
            BY <2>2, <3>3
    <2>8. m # n
        BY <2>1, NoSelfEdge
    <2>9. m \notin s.parked \cup InFlight(s)
        BY <1>5, <1>7, <2>3 DEF Waiting, Pending
    <2> QED
        BY <2>1, <2>2, <2>6, <2>7, <2>8, <2>9
<1>8. Waiting(wf, t, r2, l)
    <2>1. Pending(t) = Pending(s) \cup Unlocked(s, n)
        BY <1>1, <1>4 DEF Pending
    <2>2. Pending(t) \cap Joins(wf) = {}
        BY <1>5, <2>1 DEF Waiting, Unlocked
    <2>3. ASSUME NEW m \in Pending(t) \ l
          PROVE  m \notin t.done /\ Pred(wf, m) \subseteq t.done
        <3>1. CASE m \in Unlocked(s, n)
            BY <1>1, <1>7, <3>1
        <3>2. CASE m \in Pending(s)
            <4>1. m \notin s.done /\ Pred(wf, m) \subseteq s.done
                BY <1>5, <2>3, <3>2 DEF Waiting
            <4>2. m # n
                BY <2>3, <3>2
            <4> QED
                BY <1>1, <4>1, <4>2
        <3> QED
            BY <2>1, <3>1, <3>2
    <2>4. \A m \in InFlight(t) \ l : r2[m] = "None"
        <3>1. n \notin InFlight(s) \ l
            BY DEF Pending
        <3> QED
            BY <1>4, <1>5, <3>1 DEF Waiting
    <2>5. ASSUME NEW m \in Node \ l
          PROVE  /\ m \in t.ready => m \notin t.parked \cup InFlight(t)
                 /\ m \in t.parked => m \notin InFlight(t)
        BY <1>1, <1>4, <1>5, <1>7 DEF Waiting, Apart
    <2> QED
        BY <2>2, <2>3, <2>4, <2>5 DEF Waiting, Apart
<1>9. Degrees(wf, t, l)
    <2> SUFFICES ASSUME NEW m \in Node \ (l \cup Joins(wf))
                 PROVE  t.indegree[m] = Cardinality(Pred(wf, m) \ t.done)
        BY DEF Degrees
    <2>1. s.indegree[m] = Cardinality(Pred(wf, m) \ s.done)
        BY <1>5 DEF Degrees
    <2>2. Pred(wf, m) \ t.done = (Pred(wf, m) \ s.done) \ {n}
        BY <1>1
    <2>3. CASE m \in Succ(wf, n)
        <3>1. n \notin l
            BY <1>6, <2>3
        <3>2. n \in Pred(wf, m) \ s.done
            BY <1>3, <2>3, <3>1
        <3>3. Pred(wf, m) \ s.done \in SUBSET Node
            BY <1>3
        <3>4. /\ Cardinality((Pred(wf, m) \ s.done) \ {n})
                   = Cardinality(Pred(wf, m) \ s.done) - 1
              /\ Cardinality(Pred(wf, m) \ s.done) > 0
            BY <3>2, <3>3, CountLess
        <3> QED
            BY <1>1, <2>1, <2>2, <2>3, <3>4
    <2>4. CASE m \notin Succ(wf, n)
        <3>1. Pred(wf, m) \ t.done = Pred(wf, m) \ s.done
            BY <1>3, <2>2, <2>4
        <3> QED
            BY <1>1, <2>1, <2>4, <3>1
    <2> QED
        BY <2>3, <2>4
<1>10. Arrivals(wf, t, r2, l)
    <2>1. t.todo \subseteq Joins(wf)
        BY <1>1, <1>5 DEF Arrivals, Satisfied
    <2>2. ASSUME NEW j \in Joins(wf) \ (l \cup t.resolved)
          PROVE  /\ t.arrived[j] \subseteq {p \in Pred(wf, j) : r2[p] \in Live}
                 /\ t.accounted[j] <= Cardinality(Pred(wf, j) \cap t.done)
                 /\ j \in t.todo => \/ Cardinality(t.arrived[j]) >= wf.wait[j]
                                    \/ t.accounted[j] >= Cardinality(Pred(wf, j))
        <3>1. j \in Node /\ j \notin s.resolved /\ j \in Joins(wf) /\ j \notin l
            BY <1>1, <1>3, <2>2
        <3>2. /\ s.arrived[j] \subseteq {p \in Pred(wf, j) : r[p] \in Live}
              /\ s.accounted[j] <= Cardinality(Pred(wf, j) \cap s.done)
              /\ j \in s.todo => \/ Cardinality(s.arrived[j]) >= wf.wait[j]
                                 \/ s.accounted[j] >= Cardinality(Pred(wf, j))
            BY <1>5, <3>1 DEF Arrivals
        <3>3. CASE j \notin open
            <4>1. n \notin Pred(wf, j)
                BY <1>3, <3>1, <3>3
            <4>2. t.arrived[j] = s.arrived[j] /\ t.accounted[j] = s.accounted[j]
                BY <1>1, <3>1, <3>3
            <4>3. Pred(wf, j) \cap t.done = Pred(wf, j) \cap s.done
                BY <1>1, <4>1
            <4>4. {p \in Pred(wf, j) : r2[p] \in Live}
                    = {p \in Pred(wf, j) : r[p] \in Live}
                BY <1>3, <3>1, <4>1
            <4>5. j \in t.todo <=> j \in s.todo
                BY <1>1, <3>3
            <4> QED
                BY <3>2, <4>2, <4>3, <4>4, <4>5
        <3>4. CASE j \in open
            <4>1. n \in Pred(wf, j) /\ n \notin l
                BY <1>3, <1>6, <3>1, <3>4
            <4>2. n \notin s.done /\ r[n] = "None"
                BY <4>1
            <4>3. {p \in Pred(wf, j) : r[p] \in Live}
                    \subseteq {p \in Pred(wf, j) : r2[p] \in Live}
                <5> SUFFICES ASSUME NEW p \in Pred(wf, j), r[p] \in Live
                             PROVE  r2[p] \in Live
                    OBVIOUS
                <5>1. p # n
                    BY <4>2 DEF Live
                <5> QED
                    BY <1>3, <3>1, <5>1
            <4>4. t.arrived[j] \subseteq {p \in Pred(wf, j) : r2[p] \in Live}
                <5>1. s.arrived[j] \subseteq {p \in Pred(wf, j) : r2[p] \in Live}
                    BY <3>2, <4>3
                <5>2. live => n \in {p \in Pred(wf, j) : r2[p] \in Live}
                    BY <4>1
                <5>3. t.arrived[j] = IF live THEN s.arrived[j] \cup {n} ELSE s.arrived[j]
                    BY <1>1, <3>1, <3>4
                <5> QED
                    BY <5>1, <5>2, <5>3
            <4>5. Pred(wf, j) \cap s.done \in SUBSET Node /\ n \in Node \ (Pred(wf, j) \cap s.done)
                BY <1>3, <3>1, <4>2
            <4>6. Pred(wf, j) \cap t.done = (Pred(wf, j) \cap s.done) \cup {n}
                BY <1>1, <4>1
            <4>7. Cardinality(Pred(wf, j) \cap t.done)
                    = Cardinality(Pred(wf, j) \cap s.done) + 1
                BY <4>5, <4>6, CountMore
            <4>8. t.accounted[j] = s.accounted[j] + 1
                BY <1>1, <3>1, <3>4
            <4>9. t.accounted[j] <= Cardinality(Pred(wf, j) \cap t.done)
                BY <1>2, <3>1, <3>2, <4>5, <4>7, <4>8, Countable
            <4>10. j \in t.todo => \/ Cardinality(t.arrived[j]) >= wf.wait[j]
                                   \/ t.accounted[j] >= Cardinality(Pred(wf, j))
                <5>1. CASE j \in Satisfied(t.arrived, t.accounted)
                    BY <5>1 DEF Satisfied
                <5>2. CASE j \in s.todo
                    <6>1. CASE s.accounted[j] >= Cardinality(Pred(wf, j))
                        <7>1. Cardinality(Pred(wf, j)) \in Nat
                            BY <1>3, <3>1, Countable
                        <7> QED
                            BY <1>2, <3>1, <4>8, <6>1, <7>1
                    <6>2. CASE Cardinality(s.arrived[j]) >= wf.wait[j]
                        <7>1. /\ Cardinality(s.arrived[j]) <= Cardinality(t.arrived[j])
                              /\ Cardinality(s.arrived[j]) \in Nat
                              /\ Cardinality(t.arrived[j]) \in Nat
                            <8>1. s.arrived[j] \subseteq t.arrived[j]
                                BY <1>1, <3>1
                            <8>2. t.arrived[j] \in SUBSET Node /\ s.arrived[j] \in SUBSET Node
                                BY <1>3, <3>1, <4>4, <8>1
                            <8> QED
                                BY <8>1, <8>2, Countable, FS_Subset
                        <7>2. wf.wait[j] \in Nat
                            BY WorkflowAssumption, <3>1 DEF Graph
                        <7> QED
                            BY <6>2, <7>1, <7>2
                    <6> QED
                        BY <3>2, <5>2, <6>1, <6>2
                <5> QED
                    BY <1>1, <5>1, <5>2
            <4> QED
                BY <4>4, <4>9, <4>10
        <3> QED
            BY <3>3, <3>4
    <2> QED
        BY <2>1, <2>2 DEF Arrivals
<1>11. OnDisk(wf, t, r2, l)
    <2>1. ASSUME NEW m \in Node, r2[m] # "None"
          PROVE  m \in t.done
        BY <1>1, <1>5, <2>1 DEF OnDisk
    <2>2. ASSUME NEW m \in t.done
          PROVE  r2[m] # "None" \/ m \in l \ Joins(wf)
        BY <1>1, <1>2, <1>5, <2>2 DEF OnDisk
    <2> QED
        BY <1>1, <1>5, <2>1, <2>2 DEF OnDisk
<1>12. ResolvedWhenDone(wf, t)
    BY <1>1 DEF ResolvedWhenDone
<1> QED
    BY <1>8, <1>9, <1>10, <1>11, <1>12 DEF Sound, t

\* What a new call starts from agrees with the results.
LEMMA RestoredSound ==
    ASSUME wf \in Workflow, result \in [Node -> Result],
           decision \in [Node -> Verdict], KeptInOrder(wf, result, lost)
    PROVE  Sound(wf, Restored, result, lost) /\ ResolvedWhenDone(wf, Restored)
<1> DEFINE s == Restored
<1>1. s \in Scheduling /\ RestoredAs(s)
    BY RestoredType
<1> HIDE DEF s
<1>2. /\ \A m \in Node : Succ(wf, m) \subseteq Node /\ Pred(wf, m) \subseteq Node
      /\ Joins(wf) \subseteq Node
    BY GraphType
<1>3. \A m \in Node : s.indegree[m] = Cardinality(Pred(wf, m) \ s.done)
    BY <1>1 DEF RestoredAs, OpenDegree
<1>4. InFlight(s) = {} /\ Pending(s) = s.ready
    BY <1>1 DEF RestoredAs, InFlight, Pending
<1>5. ASSUME NEW m \in s.ready
      PROVE  m \notin Joins(wf) /\ m \notin s.done /\ Pred(wf, m) \subseteq s.done
    <2>1. m \in Node /\ m \notin Joins(wf) /\ m \notin s.done /\ s.indegree[m] = 0
        BY <1>1, <1>5 DEF RestoredAs
    <2>2. IsFiniteSet(Pred(wf, m) \ s.done) /\ Cardinality(Pred(wf, m) \ s.done) = 0
        BY <1>2, <1>3, <2>1, Countable
    <2>3. Pred(wf, m) \ s.done = {}
        BY <2>2, FS_EmptySet
    <2> QED
        BY <2>1, <2>3
<1>6. Waiting(wf, s, result, lost)
    BY <1>1, <1>4, <1>5 DEF Waiting, Apart, RestoredAs
<1>7. Degrees(wf, s, lost)
    BY <1>3 DEF Degrees
<1>8. Arrivals(wf, s, result, lost)
    <2>1. s.todo \subseteq Joins(wf)
        BY <1>1 DEF RestoredAs, Satisfied
    <2>2. ASSUME NEW j \in Joins(wf) \ (lost \cup s.resolved)
          PROVE  /\ s.arrived[j] \subseteq {p \in Pred(wf, j) : result[p] \in Live}
                 /\ s.accounted[j] <= Cardinality(Pred(wf, j) \cap s.done)
                 /\ j \in s.todo => \/ Cardinality(s.arrived[j]) >= wf.wait[j]
                                    \/ s.accounted[j] >= Cardinality(Pred(wf, j))
        <3>1. j \in Node /\ Inbound(j, s.done) = Pred(wf, j) \cap s.done
            BY <1>1, <1>2, <2>2 DEF RestoredAs, Inbound
        <3>2. /\ s.arrived[j] = {p \in Pred(wf, j) \cap s.done : result[p] \in Live}
              /\ s.accounted[j] = Cardinality(Pred(wf, j) \cap s.done)
            <4>1. /\ s.arrived[j] = {p \in Inbound(j, s.done) : result[p] \in Live}
                  /\ s.accounted[j] = Cardinality(Inbound(j, s.done))
                BY <1>1, <3>1 DEF RestoredAs
            <4> QED
                BY <3>1, <4>1
        <3>3. Cardinality(Pred(wf, j) \cap s.done) \in Nat
            BY <1>2, <3>1, Countable
        <3>4. j \in s.todo => \/ Cardinality(s.arrived[j]) >= wf.wait[j]
                              \/ s.accounted[j] >= Cardinality(Pred(wf, j))
            BY <1>1 DEF RestoredAs, Satisfied
        <3> QED
            BY <3>2, <3>3, <3>4
    <2> QED
        BY <2>1, <2>2 DEF Arrivals
<1>9. OnDisk(wf, s, result, lost)
    BY <1>1 DEF OnDisk, RestoredAs
<1>10. ResolvedWhenDone(wf, s)
    BY <1>1 DEF ResolvedWhenDone, RestoredAs
<1> QED
    BY <1>6, <1>7, <1>8, <1>9, <1>10 DEF Sound, s

SameBooks(s, t) ==
    /\ t.done = s.done /\ t.indegree = s.indegree /\ t.arrived = s.arrived
    /\ t.accounted = s.accounted /\ t.resolved = s.resolved

\* Nodes that only move between `ready', `parked' and the tasks, or leave them,
\* and joins that leave the worklist, disturb nothing.
LEMMA Moved ==
    ASSUME NEW s, NEW t, NEW r, NEW l,
           Sound(wf, s, r, l), SameBooks(s, t),
           t.todo \subseteq s.todo, Pending(t) \subseteq Pending(s),
           \A m \in InFlight(t) \ l : m \in InFlight(s) \/ r[m] = "None",
           Apart(t, l),
           s.pc = "teardown" => t.pc = "teardown",
           t.pc = "teardown" => t.todo = {},
           t.pc # "teardown" => t.aborted \subseteq l
    PROVE  /\ Sound(wf, t, r, l)
           /\ ResolvedWhenDone(wf, s) => ResolvedWhenDone(wf, t)
<1>1. Waiting(wf, t, r, l)
    BY DEF Sound, Waiting, SameBooks
<1>2. Degrees(wf, t, l)
    BY DEF Sound, Degrees, SameBooks
<1>3. Arrivals(wf, t, r, l)
    BY DEF Sound, Arrivals, SameBooks
<1>4. OnDisk(wf, t, r, l)
    BY DEF Sound, OnDisk, SameBooks
<1> QED
    BY <1>1, <1>2, <1>3, <1>4 DEF Sound, ResolvedWhenDone, SameBooks

------------------------------------------------------------------------------
(* Steps of the scheduler. *)

\* The lowest ready node, if no join has cut it off, was never reached before.
LEMMA LowestReached ==
    ASSUME Inv, NEW n \in Node, Lowest(n)
    PROVE  /\ phase = "Running" /\ sched.pc = "drain" /\ n \in sched.ready
           /\ n \notin Joins(wf)
           /\ n \notin lost => /\ n \notin sched.done /\ result[n] = "None"
                               /\ n \notin sched.parked \cup InFlight(sched)
                               /\ Pred(wf, n) \subseteq sched.done
<1>1. /\ phase = "Running" /\ sched.pc = "drain" /\ n \in sched.ready
    BY DEF Lowest, Draining, Executing
<1>2. Waiting(wf, sched, result, lost) /\ OnDisk(wf, sched, result, lost)
    BY <1>1 DEF Inv, Sound
<1>3. n \notin Joins(wf)
    BY <1>1, <1>2 DEF Waiting, Pending
<1>4. n \notin lost => /\ n \notin sched.done /\ Pred(wf, n) \subseteq sched.done
                       /\ n \notin sched.parked \cup InFlight(sched)
    BY <1>1, <1>2 DEF Waiting, Apart, Pending
<1>5. n \notin sched.done => result[n] = "None"
    BY <1>1, <1>2 DEF OnDisk
<1> QED
    BY <1>1, <1>3, <1>4, <1>5

\* A step in flight was reached in order, too.
LEMMA InFlightReached ==
    ASSUME Inv, NEW n \in InFlight(sched)
    PROVE  /\ phase = "Running" /\ n \in Node \ Joins(wf)
           /\ n \notin lost => /\ n \notin sched.done /\ result[n] = "None"
                               /\ n \notin sched.ready \cup sched.parked
                               /\ Pred(wf, n) \subseteq sched.done
<1>1. phase = "Running" /\ n \in Node
    BY DEF Inv, InFlight
<1>2. Waiting(wf, sched, result, lost)
    BY <1>1 DEF Inv, Sound
<1> QED
    BY <1>1, <1>2 DEF Waiting, Apart, Pending

\* What is done, and not cut off, leaves nothing open before it.
LEMMA DoneBefore ==
    ASSUME Inv, phase = "Running", NEW n \in Node \ (lost \cup Joins(wf)),
           Pred(wf, n) \subseteq sched.done
    PROVE  \A p \in Pred(wf, n) : result[p] # "None"
<1> SUFFICES ASSUME NEW p \in Pred(wf, n), p \in lost
             PROVE  FALSE
    BY DEF Inv, Sound, OnDisk
<1>1. wf \in Workflow
    BY DEF Inv, TypeOK
<1>2. p \in Node /\ n \in Succ(wf, p)
    BY <1>1, GraphType
<1>3. KeptInOrder(wf, result, lost)
    BY DEF Inv
<1> QED
    BY <1>2, <1>3 DEF KeptInOrder, InOrder, LostClosed

\* The result of a node that was reached in order keeps the order.
LEMMA ResultInOrder ==
    ASSUME KeptInOrder(wf, result, lost), result \in [Node -> Result],
           NEW n \in Node, NEW v \in Live \cup NotLive,
           n \notin lost \cup Joins(wf) => \A p \in Pred(wf, n) : result[p] # "None"
    PROVE  KeptInOrder(wf, [result EXCEPT ![n] = v], lost)
<1> DEFINE r == [result EXCEPT ![n] = v]
<1>1. v # "None"
    BY DEF Live, NotLive
<1>2. /\ \A m \in Node : r[m] = IF m = n THEN v ELSE result[m]
      /\ \A m : m \notin Node => r[m] = result[m]
    OBVIOUS
<1>3. \A m : result[m] # "None" => r[m] # "None"
    BY <1>1, <1>2
<1> HIDE DEF r
<1>4. ASSUME NEW m \in Node \ (lost \cup Joins(wf)), r[m] # "None",
             NEW p \in Pred(wf, m)
      PROVE  r[p] # "None"
    BY <1>2, <1>3, <1>4 DEF KeptInOrder, InOrder, LostClosed
<1>5. ASSUME NEW x \in lost, NEW y \in Succ(wf, x)
      PROVE  y \in lost \/ (y \in Joins(wf) /\ r[y] # "None")
    BY <1>3, <1>5 DEF KeptInOrder, InOrder, LostClosed
<1> QED
    BY <1>4, <1>5 DEF KeptInOrder, InOrder, LostClosed, r

\* finish_node, of a node that was reached.
LEMMA FinishStep ==
    ASSUME Inv, phase = "Running", NEW n \in Node, n \notin Joins(wf),
           NEW s \in Scheduling, NEW v \in Live \cup NotLive,
           Sound(wf, s, result, lost), ResolvedWhenDone(wf, s),
           s.pc # "teardown", s.done = sched.done,
           n \notin lost => /\ n \notin sched.done \cup Pending(s)
                            /\ result[n] = "None"
                            /\ Pred(wf, n) \subseteq sched.done,
           Finish(s, n, v)
    PROVE  Inv'
<1>1. /\ wf \in Workflow /\ result \in [Node -> Result] /\ lost \in SUBSET Node
      /\ KeptInOrder(wf, result, lost)
    BY DEF Inv, TypeOK
<1>2. /\ result' = [result EXCEPT ![n] = v]
      /\ sched' = MarkDone(s, n, v \in Live)
      /\ wf' = wf /\ decision' = decision /\ awaiting' = awaiting
      /\ phase' = phase /\ budget' = budget /\ lost' = lost
    BY DEF Finish
<1>3. v \in Result /\ v # "None"
    BY DEF Result, Live, NotLive
<1>4. sched' \in Scheduling
    <2> DEFINE live == v \in Live
    <2>1. live \in BOOLEAN /\ sched' = MarkDone(s, n, live)
        BY <1>2
    <2> HIDE DEF live
    <2> QED
        BY <1>1, <2>1, MarkDoneType
<1>5. TypeOK'
    BY <1>2, <1>3, <1>4 DEF Inv, TypeOK
<1>6. n \notin lost \cup Joins(wf) => \A p \in Pred(wf, n) : result[p] # "None"
    BY DoneBefore
<1>7. KeptInOrder(wf, result', lost)
    BY <1>1, <1>2, <1>6, ResultInOrder
<1>8. s.resolved = Joins(wf) \cap (s.done \cup {n})
    BY DEF ResolvedWhenDone
<1>9. /\ \A m \in Node \ {n} : result'[m] = result[m]
      /\ result'[n] = v
    BY <1>1, <1>2
<1>10. Sound(wf, sched', result', lost) /\ ResolvedWhenDone(wf, sched')
    <2> DEFINE live == v \in Live
               r    == result'
    <2>1. live \in BOOLEAN /\ (live => r[n] \in Live) /\ r[n] # "None"
        BY <1>3, <1>9
    <2>2. sched' = MarkDone(s, n, live)
        BY <1>2
    <2>3. n \notin lost => n \notin s.done \cup Pending(s) /\ result[n] = "None"
        OBVIOUS
    <2> HIDE DEF live, r
    <2>4. Sound(wf, MarkDone(s, n, live), r, lost) /\ ResolvedWhenDone(wf, MarkDone(s, n, live))
        <3>1. /\ InOrder(wf, result, lost) /\ LostClosed(wf, r, lost)
              /\ \A m \in Node \ {n} : r[m] = result[m]
            BY <1>1, <1>7, <1>9 DEF r, KeptInOrder
        <3> QED
            BY <1>1, <1>8, <2>1, <2>3, <3>1, MarkDoneSound
    <2> QED
        BY <2>2, <2>4 DEF r
<1> QED
    BY <1>2, <1>5, <1>7, <1>10 DEF Inv

\* The node is off `ready', and the bookkeeping is as it was.
TakenFrom(s, n) ==
    /\ s \in Scheduling /\ SameBooks(sched, s)
    /\ s.ready = sched.ready \ {n} /\ s.parked = sched.parked
    /\ s.task = sched.task /\ s.aborted = sched.aborted
    /\ s.todo = sched.todo /\ s.pc = sched.pc

\* A ready node that comes to its end on the spot.
LEMMA TakenFinish ==
    ASSUME Inv, NEW n \in Node, Lowest(n), NEW s, TakenFrom(s, n),
           NEW v \in Live \cup NotLive, Finish(s, n, v)
    PROVE  Inv'
<1>1. /\ phase = "Running" /\ sched.pc = "drain" /\ n \in sched.ready
      /\ n \notin Joins(wf)
      /\ n \notin lost => /\ n \notin sched.done /\ result[n] = "None"
                          /\ n \notin sched.parked \cup InFlight(sched)
                          /\ Pred(wf, n) \subseteq sched.done
    BY LowestReached
<1>2. Sound(wf, sched, result, lost) /\ ResolvedWhenDone(wf, sched)
    BY <1>1 DEF Inv
<1>3. /\ s \in Scheduling /\ s.done = sched.done /\ s.pc = "drain"
      /\ InFlight(s) = InFlight(sched)
      /\ Pending(s) = (sched.ready \ {n}) \cup sched.parked \cup InFlight(sched)
    BY <1>1 DEF TakenFrom, SameBooks, InFlight, Pending
<1>4. Apart(s, lost)
    BY <1>2, <1>3 DEF Sound, Waiting, Apart, TakenFrom
<1>5. Sound(wf, s, result, lost) /\ ResolvedWhenDone(wf, s)
    <2>1. /\ SameBooks(sched, s) /\ s.todo \subseteq sched.todo
          /\ Pending(s) \subseteq Pending(sched)
          /\ s.aborted \subseteq lost
        BY <1>1, <1>2, <1>3 DEF TakenFrom, Pending, Sound, OnDisk
    <2> QED
        BY <1>1, <1>2, <1>3, <1>4, <2>1, Moved
<1> QED
    BY <1>1, <1>3, <1>5, FinishStep

\* A node that was pruned, cancelled or is on the arm not taken is skipped.
LEMMA SkipWrittenOffStep ==
    ASSUME Inv, NEW n \in Node, SkipWrittenOff(n)
    PROVE  Inv'
<1> DEFINE v == CASE n \in sched.pruned -> "Pruned"
                  [] n \in sched.cancelled \ sched.pruned -> "Cancelled"
                  [] OTHER -> "Skipped"
<1>1. Lowest(n) /\ Finish(Taken(n), n, v)
    BY DEF SkipWrittenOff
<1>2. v \in Live \cup NotLive
    BY DEF NotLive
<1>3. TakenFrom(Taken(n), n)
    BY DEF Inv, TypeOK, TakenFrom, SameBooks, Taken, Scheduling
<1> HIDE DEF v
<1> QED
    BY <1>1, <1>2, <1>3, TakenFinish

\* A `when:' that is false skips the step.
LEMMA SkipWhenStep ==
    ASSUME Inv, NEW n \in Node, SkipWhen(n)
    PROVE  Inv'
<1>1. Lowest(n) /\ Finish(Taken(n), n, "Skipped")
    BY DEF SkipWhen, Reached
<1>2. TakenFrom(Taken(n), n)
    BY DEF Inv, TypeOK, TakenFrom, SameBooks, Taken, Scheduling
<1> QED
    BY <1>1, <1>2, TakenFinish DEF NotLive

\* A split ends on the spot.
LEMMA SplitStep ==
    ASSUME Inv, NEW n \in Node, Split(n)
    PROVE  Inv'
<1>1. Lowest(n) /\ Finish(Taken(n), n, "Ran")
    BY DEF Split, Reached
<1>2. TakenFrom(Taken(n), n)
    BY DEF Inv, TypeOK, TakenFrom, SameBooks, Taken, Scheduling
<1> QED
    BY <1>1, <1>2, TakenFinish DEF Live

\* What a branch or a rejection adds to `pruned' is not part of the books.
LEMMA ExtendPruneTaken ==
    ASSUME Inv, NEW n \in Node, NEW s, TakenFrom(s, n)
    PROVE  TakenFrom(ExtendPrune(s), n)
<1>1. s \in Scheduling /\ wf \in Workflow
    BY DEF Inv, TypeOK, TakenFrom
<1>2. /\ ExtendPrune(s) \in Scheduling
      /\ \E P \in SUBSET Node : ExtendPrune(s) = [s EXCEPT !.pruned = P]
    BY <1>1, ExtendPruneType
<1>3. PICK P \in SUBSET Node : ExtendPrune(s) = [s EXCEPT !.pruned = P]
    BY <1>2
<1> QED
    BY <1>1, <1>2, <1>3 DEF TakenFrom, SameBooks, Scheduling

\* A branch takes an arm and prunes the other.
LEMMA BranchStep ==
    ASSUME Inv, NEW n \in Node, NEW a \in Arm, Branch(n, a)
    PROVE  Inv'
<1> DEFINE P == sched.pruned \cup BranchPruneSet(wf, n, a)
           D == sched.dead \cup {<<n, t>> : t \in Untaken(wf, n, a)}
           s == [Taken(n) EXCEPT !.pruned = P, !.dead = D]
<1>1. Lowest(n)
    BY DEF Branch, Reached
<1>2. P \subseteq Node /\ D \subseteq Node \X Node
    <2>1. sched.pruned \subseteq Node /\ sched.dead \subseteq Node \X Node
        BY DEF Inv, TypeOK, Scheduling
    <2>2. BranchPruneSet(wf, n, a) \subseteq Node
        BY DEF BranchPruneSet, Reach
    <2>3. Untaken(wf, n, a) \subseteq Node
        BY WorkflowAssumption DEF Inv, TypeOK, Graph, Untaken, Arm
    <2> QED
        BY <2>1, <2>2, <2>3
<1>3. s = [Taken(n) EXCEPT !.pruned = @ \cup BranchPruneSet(wf, n, a),
                           !.dead   = @ \cup {<<n, t>> : t \in Untaken(wf, n, a)}]
    BY DEF Inv, TypeOK, Taken, Scheduling
<1>4. Finish(ExtendPrune(s), n, a)
    BY <1>3 DEF Branch
<1> HIDE DEF P, D
<1>5. TakenFrom(s, n)
    BY <1>2 DEF Inv, TypeOK, TakenFrom, SameBooks, Taken, Scheduling
<1>6. TakenFrom(ExtendPrune(s), n)
    BY <1>5, ExtendPruneTaken
<1>7. a \in Live
    BY DEF Arm, Live
<1> HIDE DEF s
<1> QED
    BY <1>1, <1>4, <1>6, <1>7, TakenFinish

\* A step that gives no result, and only moves nodes on.
LEMMA MovedStep ==
    ASSUME Inv, phase = "Running", UNCHANGED <<wf, result, phase, lost>>,
           TypeOK', SameBooks(sched, sched'),
           sched'.todo \subseteq sched.todo, Pending(sched') \subseteq Pending(sched),
           \A m \in InFlight(sched') \ lost :
             m \in InFlight(sched) \/ result[m] = "None",
           Apart(sched', lost),
           sched.pc = "teardown" => sched'.pc = "teardown",
           sched'.pc = "teardown" => sched'.todo = {},
           sched'.pc # "teardown" => sched'.aborted \subseteq lost
    PROVE  Inv'
<1>1. Sound(wf, sched, result, lost) /\ ResolvedWhenDone(wf, sched)
    BY DEF Inv
<1> DEFINE t == sched'
<1>2. /\ SameBooks(sched, t) /\ t.todo \subseteq sched.todo
      /\ Pending(t) \subseteq Pending(sched)
      /\ \A m \in InFlight(t) \ lost : m \in InFlight(sched) \/ result[m] = "None"
      /\ Apart(t, lost)
      /\ sched.pc = "teardown" => t.pc = "teardown"
      /\ t.pc = "teardown" => t.todo = {}
      /\ t.pc # "teardown" => t.aborted \subseteq lost
    OBVIOUS
<1> HIDE DEF t
<1>3. Sound(wf, t, result, lost) /\ ResolvedWhenDone(wf, t)
    BY <1>1, <1>2, Moved
<1>4. KeptInOrder(wf, result, lost)
    BY DEF Inv
<1> QED
    BY <1>3, <1>4 DEF Inv, t

\* One that takes nodes off `ready', `parked' and the tasks, and brings none.
LEMMA NarrowStep ==
    ASSUME Inv, phase = "Running", UNCHANGED <<wf, result, phase, lost>>,
           TypeOK', SameBooks(sched, sched'),
           sched'.todo \subseteq sched.todo, sched'.ready \subseteq sched.ready,
           sched'.parked \subseteq sched.parked,
           InFlight(sched') \subseteq InFlight(sched),
           sched'.aborted \subseteq sched.aborted,
           sched.pc = "teardown" <=> sched'.pc = "teardown"
    PROVE  Inv'
<1>1. /\ Pending(sched') \subseteq Pending(sched)
      /\ Apart(sched, lost) => Apart(sched', lost)
    BY DEF Pending, Apart
<1>2. /\ Apart(sched, lost)
      /\ sched.pc = "teardown" => sched.todo = {}
      /\ sched.pc # "teardown" => sched.aborted \subseteq lost
    BY DEF Inv, Sound, Waiting, OnDisk
<1>3. /\ sched'.pc = "teardown" => sched'.todo = {}
      /\ sched'.pc # "teardown" => sched'.aborted \subseteq lost
    BY <1>2
<1> QED
    BY <1>1, <1>2, <1>3, MovedStep

\* An undecided gate is parked.
LEMMA ParkStep ==
    ASSUME Inv, NEW n \in Node, Lowest(n),
           sched' = [Taken(n) EXCEPT !.parked = @ \cup {n}],
           UNCHANGED <<wf, result, decision, awaiting, phase, budget, lost>>
    PROVE  Inv'
<1>1. /\ phase = "Running" /\ sched.pc = "drain" /\ n \in sched.ready
      /\ n \notin lost => n \notin sched.parked \cup InFlight(sched)
    BY LowestReached
<1>2. /\ sched \in Scheduling /\ TypeOK
      /\ Apart(sched, lost) /\ sched.aborted \subseteq lost
    BY <1>1 DEF Inv, TypeOK, Sound, Waiting, OnDisk
<1>3. /\ sched' \in Scheduling /\ SameBooks(sched, sched')
      /\ sched'.todo = sched.todo /\ sched'.ready = sched.ready \ {n}
      /\ sched'.parked = sched.parked \cup {n} /\ sched'.task = sched.task
      /\ sched'.aborted = sched.aborted /\ sched'.pc = sched.pc
    BY <1>2 DEF SameBooks, Taken, Scheduling
<1>4. TypeOK'
    BY <1>2, <1>3 DEF TypeOK
<1>5. InFlight(sched') = InFlight(sched)
    BY <1>3 DEF InFlight
<1>6. Pending(sched') \subseteq Pending(sched)
    BY <1>1, <1>3, <1>5 DEF Pending
<1>7. Apart(sched', lost)
    BY <1>1, <1>2, <1>3, <1>5 DEF Apart
<1> QED
    BY <1>1, <1>2, <1>3, <1>4, <1>5, <1>6, <1>7, MovedStep

\* A gate applies its decision, or parks.
LEMMA GateStep ==
    ASSUME Inv, NEW n \in Node, Gate(n)
    PROVE  Inv'
<1> DEFINE H == sched.heard \ {n}
           s == [Taken(n) EXCEPT !.heard = H]
<1>1. Lowest(n)
    BY DEF Gate, Reached
<1>2. sched \in Scheduling
    BY DEF Inv, TypeOK
<1>3. s = [Taken(n) EXCEPT !.heard = @ \ {n}] /\ H \subseteq Node
    BY <1>2 DEF Taken, Scheduling
<1> HIDE DEF H
<1>4. TakenFrom(s, n) /\ TakenFrom(Taken(n), n)
    BY <1>2, <1>3 DEF TakenFrom, SameBooks, Taken, Scheduling
<1> HIDE DEF s
<1>5. CASE Finish(s, n, "Approved") \/ Finish(Taken(n), n, "Approved")
    BY <1>1, <1>4, <1>5, TakenFinish DEF Live
<1>6. CASE Reject(n)
    <2> DEFINE R == sched.rejected \cup {n}
               t == [Taken(n) EXCEPT !.heard = H, !.rejected = R]
    <2>1. /\ t = [Taken(n) EXCEPT !.heard = @ \ {n}, !.rejected = @ \cup {n}]
          /\ R \subseteq Node
        BY <1>2 DEF Taken, Scheduling, H
    <2>2. Finish(ExtendPrune(t), n, "Rejected")
        BY <1>6, <2>1 DEF Reject
    <2> HIDE DEF R
    <2>3. TakenFrom(t, n)
        BY <1>2, <1>3, <2>1 DEF TakenFrom, SameBooks, Taken, Scheduling
    <2> HIDE DEF t
    <2>4. TakenFrom(ExtendPrune(t), n)
        BY <2>3, ExtendPruneTaken
    <2> QED
        BY <1>1, <2>2, <2>4, TakenFinish DEF NotLive
<1>7. CASE /\ sched' = [Taken(n) EXCEPT !.parked = @ \cup {n}]
           /\ UNCHANGED <<wf, result, decision, awaiting, phase, budget, lost>>
    BY <1>1, <1>7, ParkStep
<1> QED
    BY <1>3, <1>5, <1>6, <1>7 DEF Gate

\* A step is dispatched.
LEMMA DispatchStep ==
    ASSUME Inv, NEW n \in Node, Dispatch(n)
    PROVE  Inv'
<1> DEFINE T == [sched.task EXCEPT ![n] = "Running"]
<1>1. Lowest(n) /\ UNCHANGED <<wf, result, decision, awaiting, phase, budget, lost>>
    BY DEF Dispatch, Reached
<1>2. /\ phase = "Running" /\ sched.pc = "drain" /\ n \in sched.ready
      /\ n \notin lost => /\ result[n] = "None"
                          /\ n \notin sched.parked \cup InFlight(sched)
    BY <1>1, LowestReached
<1>3. /\ sched \in Scheduling /\ TypeOK
      /\ Apart(sched, lost) /\ sched.aborted \subseteq lost
    BY <1>2 DEF Inv, TypeOK, Sound, Waiting, OnDisk
<1>4. T \in [Node -> {"None", "Running", "Ran", "Paused", "Failed"}]
    BY <1>3 DEF Scheduling
<1>5. sched' = [Taken(n) EXCEPT !.task = T]
    BY <1>3 DEF Dispatch, Taken, Scheduling
<1>6. InFlight(sched) \cup {n} = {m \in Node : T[m] # "None"}
    BY <1>3 DEF InFlight, Scheduling
<1> HIDE DEF T
<1>7. /\ sched' \in Scheduling /\ SameBooks(sched, sched')
      /\ sched'.todo = sched.todo /\ sched'.ready = sched.ready \ {n}
      /\ sched'.parked = sched.parked /\ sched'.task = T
      /\ sched'.aborted = sched.aborted /\ sched'.pc = sched.pc
    BY <1>3, <1>4, <1>5 DEF SameBooks, Taken, Scheduling
<1>8. TypeOK'
    BY <1>1, <1>3, <1>7 DEF TypeOK
<1>9. InFlight(sched') = InFlight(sched) \cup {n}
    BY <1>6, <1>7 DEF InFlight
<1>10. Pending(sched') \subseteq Pending(sched)
    BY <1>2, <1>7, <1>9 DEF Pending
<1>11. Apart(sched', lost)
    BY <1>2, <1>3, <1>7, <1>9 DEF Apart
<1>12. \A m \in InFlight(sched') \ lost : m \in InFlight(sched) \/ result[m] = "None"
    BY <1>2, <1>9
<1> QED
    BY <1>1, <1>2, <1>3, <1>7, <1>8, <1>10, <1>11, <1>12, MovedStep

\* What only moves the scheduler on, or notes a request, leaves the nodes alone.
LEMMA StandingStep ==
    ASSUME Inv, phase = "Running", UNCHANGED <<wf, result, phase, lost>>,
           TypeOK', SameBooks(sched, sched'),
           sched'.todo = sched.todo, sched'.ready \subseteq sched.ready,
           sched'.parked = sched.parked, sched'.task = sched.task,
           sched'.aborted = sched.aborted,
           sched.pc = "teardown" <=> sched'.pc = "teardown"
    PROVE  Inv'
<1>1. InFlight(sched') = InFlight(sched)
    BY DEF InFlight
<1> QED
    BY <1>1, NarrowStep

\* A pause takes a ready node off, for the resume.
LEMMA PauseBeforeStep ==
    ASSUME Inv, NEW n \in Node, PauseBefore(n)
    PROVE  Inv'
<1>1. /\ phase = "Running" /\ sched.pc = "drain"
      /\ UNCHANGED <<wf, result, decision, awaiting, phase, budget, lost>>
    BY DEF PauseBefore, Lowest, Draining, Executing
<1>2. TypeOK /\ sched \in Scheduling
    BY DEF Inv, TypeOK
<1>3. /\ sched' \in Scheduling /\ SameBooks(sched, sched')
      /\ sched'.todo = sched.todo /\ sched'.ready = sched.ready \ {n}
      /\ sched'.parked = sched.parked /\ sched'.task = sched.task
      /\ sched'.aborted = sched.aborted /\ sched'.pc = "check"
    BY <1>2 DEF PauseBefore, Taken, SameBooks, Scheduling
<1>4. TypeOK'
    BY <1>1, <1>2, <1>3 DEF TypeOK
<1> QED
    BY <1>1, <1>3, <1>4, StandingStep

\* The scheduler turns from draining to awaiting.
LEMMA TurnStep ==
    ASSUME Inv, DrainEnds \/ Await
    PROVE  Inv'
<1>1. /\ phase = "Running" /\ sched.pc \in {"drain", "check"}
      /\ UNCHANGED <<wf, result, decision, awaiting, phase, budget, lost>>
    BY DEF DrainEnds, Await, Draining, Checking, Executing
<1>2. TypeOK /\ sched \in Scheduling
    BY DEF Inv, TypeOK
<1>3. /\ sched' \in Scheduling /\ SameBooks(sched, sched')
      /\ sched'.todo = sched.todo /\ sched'.ready = sched.ready
      /\ sched'.parked = sched.parked /\ sched'.task = sched.task
      /\ sched'.aborted = sched.aborted /\ sched'.pc \in {"check", "await"}
    BY <1>2 DEF DrainEnds, Await, SameBooks, Scheduling
<1>4. TypeOK'
    BY <1>1, <1>2, <1>3 DEF TypeOK
<1> QED
    BY <1>1, <1>3, <1>4, StandingStep

\* A pause or a stop is asked for.
LEMMA RequestStep ==
    ASSUME Inv, RequestPause \/ RequestStop
    PROVE  Inv'
<1>1. /\ phase = "Running"
      /\ UNCHANGED <<wf, result, decision, awaiting, phase, lost>>
    BY DEF RequestPause, RequestStop, Executing
<1>2. TypeOK /\ sched \in Scheduling
    BY DEF Inv, TypeOK
<1>3. /\ sched' \in Scheduling /\ SameBooks(sched, sched')
      /\ sched'.todo = sched.todo /\ sched'.ready = sched.ready
      /\ sched'.parked = sched.parked /\ sched'.task = sched.task
      /\ sched'.aborted = sched.aborted /\ sched'.pc = sched.pc
    <2>1. CASE sched' = [sched EXCEPT !.tok = TRUE]
        BY <1>2, <2>1 DEF SameBooks, Scheduling
    <2>2. CASE sched' = [sched EXCEPT !.sig = TRUE]
        BY <1>2, <2>2 DEF SameBooks, Scheduling
    <2> QED
        BY <2>1, <2>2 DEF RequestPause, RequestStop
<1>4. budget' \in [Disturbance -> Nat]
    BY <1>2 DEF RequestPause, RequestStop, Spend, TypeOK
<1>5. TypeOK'
    BY <1>1, <1>2, <1>3, <1>4 DEF TypeOK
<1> QED
    BY <1>1, <1>3, <1>5, StandingStep

\* A task that moves on stays in flight.
LEMMA WorkStep ==
    ASSUME Inv, NEW n \in Node, Work(n)
    PROVE  Inv'
<1>1. /\ phase = "Running" /\ sched.task[n] = "Running"
      /\ UNCHANGED <<wf, result, decision, awaiting, phase, lost>>
    BY DEF Work, Executing
<1>2. TypeOK /\ sched \in Scheduling
    BY DEF Inv, TypeOK
<1>3. PICK v \in {"Ran", "Paused", "Failed"} : sched' = [sched EXCEPT !.task[n] = v]
    BY DEF Work
<1>4. budget' \in [Disturbance -> Nat]
    BY <1>2 DEF Work, Spend, TypeOK
<1> DEFINE T == [sched.task EXCEPT ![n] = v]
<1>5. T \in [Node -> {"None", "Running", "Ran", "Paused", "Failed"}]
    BY <1>2 DEF Scheduling
<1>6. sched' = [sched EXCEPT !.task = T]
    BY <1>2, <1>3 DEF Scheduling
<1>7. InFlight(sched) = {m \in Node : T[m] # "None"}
    BY <1>1, <1>2 DEF InFlight, Scheduling
<1> HIDE DEF T
<1>8. /\ sched' \in Scheduling /\ SameBooks(sched, sched')
      /\ sched'.todo = sched.todo /\ sched'.ready = sched.ready
      /\ sched'.parked = sched.parked /\ sched'.task = T
      /\ sched'.aborted = sched.aborted /\ sched'.pc = sched.pc
    BY <1>2, <1>5, <1>6 DEF SameBooks, Scheduling
<1>9. InFlight(sched') = InFlight(sched)
    BY <1>7, <1>8 DEF InFlight
<1>10. TypeOK'
    BY <1>1, <1>2, <1>4, <1>8 DEF TypeOK
<1> QED
    BY <1>1, <1>8, <1>9, <1>10, NarrowStep

\* What is left when a task has ended.
LEMMA EndedEffect ==
    ASSUME Inv, NEW n \in Node
    PROVE  LET s == Ended(n)
           IN  /\ s \in Scheduling /\ SameBooks(sched, s)
               /\ s.todo = sched.todo /\ s.ready = sched.ready
               /\ s.parked = sched.parked /\ InFlight(s) = InFlight(sched) \ {n}
               /\ s.aborted = sched.aborted \ {n} /\ s.pc = "drain"
<1> DEFINE T == [sched.task EXCEPT ![n] = "None"]
           A == sched.aborted \ {n}
           s == Ended(n)
<1>1. sched \in Scheduling
    BY DEF Inv, TypeOK
<1>2. /\ T \in [Node -> {"None", "Running", "Ran", "Paused", "Failed"}]
      /\ A \subseteq Node
    BY <1>1 DEF Scheduling
<1>3. s = [sched EXCEPT !.task = T, !.aborted = A, !.pc = "drain"]
    BY <1>1 DEF Ended, Scheduling
<1>4. InFlight(sched) \ {n} = {m \in Node : T[m] # "None"}
    BY <1>1 DEF InFlight, Scheduling
<1> HIDE DEF T, A, s
<1>5. /\ s \in Scheduling /\ SameBooks(sched, s)
      /\ s.todo = sched.todo /\ s.ready = sched.ready
      /\ s.parked = sched.parked /\ s.task = T
      /\ s.aborted = A /\ s.pc = "drain"
    BY <1>1, <1>2, <1>3 DEF SameBooks, Scheduling
<1> QED
    BY <1>4, <1>5 DEF InFlight, A, s

\* The books without the task that ended.
LEMMA EndedSound ==
    ASSUME Inv, NEW n \in InFlight(sched), sched.pc = "await"
    PROVE  LET s == Ended(n)
           IN  /\ s \in Scheduling /\ s.done = sched.done /\ s.pc = "drain"
               /\ Sound(wf, s, result, lost) /\ ResolvedWhenDone(wf, s)
               /\ n \notin lost => n \notin sched.done \cup Pending(s)
<1> DEFINE s == Ended(n)
<1>1. /\ phase = "Running" /\ n \in Node
      /\ n \notin lost => /\ n \notin sched.done
                          /\ n \notin sched.ready \cup sched.parked
    BY InFlightReached
<1>2. /\ s \in Scheduling /\ SameBooks(sched, s)
      /\ s.todo = sched.todo /\ s.ready = sched.ready
      /\ s.parked = sched.parked /\ InFlight(s) = InFlight(sched) \ {n}
      /\ s.aborted = sched.aborted \ {n} /\ s.pc = "drain"
    BY <1>1, EndedEffect
<1> HIDE DEF s
<1>3. /\ Sound(wf, sched, result, lost) /\ ResolvedWhenDone(wf, sched)
      /\ Apart(sched, lost) /\ sched.aborted \subseteq lost
    BY <1>1 DEF Inv, Sound, Waiting, OnDisk
<1>4. /\ Pending(s) \subseteq Pending(sched) /\ Apart(s, lost)
      /\ s.aborted \subseteq lost
    BY <1>2, <1>3 DEF Pending, Apart
<1>5. Sound(wf, s, result, lost) /\ ResolvedWhenDone(wf, s)
    BY <1>2, <1>3, <1>4, Moved
<1>6. n \notin lost => n \notin sched.done \cup Pending(s)
    BY <1>1, <1>2 DEF Pending
<1> QED
    BY <1>2, <1>5, <1>6 DEF s, SameBooks

\* join_next: a result, or the dropped result of a loser.
LEMMA CollectStep ==
    ASSUME Inv, NEW n \in Node, Collect(n)
    PROVE  Inv'
<1> DEFINE s == Ended(n)
<1>1. phase = "Running" /\ sched.pc = "await" /\ n \in InFlight(sched)
    BY DEF Collect, Awaiting, Executing, InFlight
<1>2. /\ s \in Scheduling /\ s.done = sched.done /\ s.pc = "drain"
      /\ Sound(wf, s, result, lost) /\ ResolvedWhenDone(wf, s)
      /\ n \notin lost => n \notin sched.done \cup Pending(s)
    BY <1>1, EndedSound
<1>3. /\ n \notin Joins(wf)
      /\ n \notin lost => result[n] = "None" /\ Pred(wf, n) \subseteq sched.done
    BY <1>1, InFlightReached
<1>4. CASE Finish(s, n, "Ran")
    <2> HIDE DEF s
    <2> QED
        BY <1>1, <1>2, <1>3, <1>4, FinishStep DEF Live
<1>5. CASE /\ sched' = s
           /\ UNCHANGED <<wf, result, decision, awaiting, phase, budget, lost>>
    <2>1. TypeOK'
        BY <1>2, <1>5 DEF Inv, TypeOK
    <2>2. KeptInOrder(wf, result, lost)
        BY DEF Inv
    <2> HIDE DEF s
    <2> QED
        BY <1>1, <1>2, <1>5, <2>1, <2>2 DEF Inv
<1> QED
    BY <1>4, <1>5 DEF Collect

\* A step in flight ends at its pause boundary.
LEMMA CollectPausedStep ==
    ASSUME Inv, NEW n \in Node, CollectPaused(n)
    PROVE  Inv'
<1> DEFINE s == Ended(n)
           b == s.noted \/ n \notin sched.aborted
<1>1. /\ phase = "Running" /\ sched.pc = "await" /\ n \in InFlight(sched)
      /\ UNCHANGED <<wf, result, decision, awaiting, phase, budget, lost>>
    BY DEF CollectPaused, Awaiting, Executing, InFlight
<1>2. TypeOK /\ sched.aborted \subseteq lost /\ sched.pc # "teardown"
    BY <1>1 DEF Inv, Sound, OnDisk
<1>3. LET t == Ended(n)
      IN  /\ t \in Scheduling /\ SameBooks(sched, t)
          /\ t.todo = sched.todo /\ t.ready = sched.ready
          /\ t.parked = sched.parked /\ InFlight(t) = InFlight(sched) \ {n}
          /\ t.aborted = sched.aborted \ {n} /\ t.pc = "drain"
    BY EndedEffect
<1>4. sched' = [s EXCEPT !.noted = b] /\ b \in BOOLEAN
    BY <1>3 DEF CollectPaused, Scheduling
<1> HIDE DEF b, s
<1>5. /\ s \in Scheduling /\ SameBooks(sched, s)
      /\ s.todo = sched.todo /\ s.ready = sched.ready
      /\ s.parked = sched.parked /\ InFlight(s) = InFlight(sched) \ {n}
      /\ s.aborted = sched.aborted \ {n} /\ s.pc = "drain"
    BY <1>3 DEF s
<1>6. /\ sched' \in Scheduling /\ SameBooks(s, sched')
      /\ sched'.todo = s.todo /\ sched'.ready = s.ready
      /\ sched'.parked = s.parked /\ sched'.task = s.task
      /\ sched'.aborted = s.aborted /\ sched'.pc = s.pc
    BY <1>4, <1>5 DEF SameBooks, Scheduling
<1>7. SameBooks(sched, sched') /\ InFlight(sched') = InFlight(sched) \ {n}
    BY <1>5, <1>6 DEF SameBooks, InFlight
<1>8. TypeOK'
    BY <1>1, <1>2, <1>6 DEF TypeOK
<1> QED
    BY <1>1, <1>2, <1>5, <1>6, <1>7, <1>8, NarrowStep

\* An aborted loser unlocks what is behind it, without a result.
LEMMA ReapStep ==
    ASSUME Inv, NEW n \in Node, Reap(n)
    PROVE  Inv'
<1> DEFINE s == Ended(n)
<1>1. /\ phase = "Running" /\ sched.pc = "await" /\ n \in InFlight(sched)
      /\ n \in sched.aborted /\ sched' = MarkDone(s, n, FALSE)
      /\ UNCHANGED <<wf, result, decision, awaiting, phase, budget, lost>>
    BY DEF Reap, Awaiting, Executing, InFlight
<1>2. /\ s \in Scheduling /\ s.done = sched.done /\ s.pc = "drain"
      /\ Sound(wf, s, result, lost) /\ ResolvedWhenDone(wf, s)
    BY <1>1, EndedSound
<1>3. n \notin Joins(wf)
    BY <1>1, InFlightReached
<1>4. /\ wf \in Workflow /\ lost \in SUBSET Node
      /\ KeptInOrder(wf, result, lost)
      /\ InOrder(wf, result, lost) /\ LostClosed(wf, result, lost)
    BY DEF Inv, TypeOK, KeptInOrder
<1>5. n \in lost
    BY <1>1 DEF Inv, Sound, OnDisk
<1> HIDE DEF s
<1>6. s.resolved = Joins(wf) \cap (s.done \cup {n})
    BY <1>2, <1>3 DEF ResolvedWhenDone
<1>7. /\ Sound(wf, MarkDone(s, n, FALSE), result, lost)
      /\ ResolvedWhenDone(wf, MarkDone(s, n, FALSE))
    BY <1>2, <1>3, <1>4, <1>5, <1>6, MarkDoneSound
<1>8. MarkDone(s, n, FALSE) \in Scheduling
    BY <1>2, <1>4, MarkDoneType
<1>9. TypeOK'
    BY <1>1, <1>8 DEF Inv, TypeOK
<1> QED
    BY <1>1, <1>4, <1>7, <1>9 DEF Inv

\* Decisions bring parked gates back to `ready'.
LEMMA PollDecisionsStep ==
    ASSUME Inv, PollDecisions
    PROVE  Inv'
<1> DEFINE new == {g \in sched.parked : decision[g] # "None"}
           H   == sched.heard \cup new
           K   == sched.parked \ new
           R   == sched.ready \cup new
<1>1. /\ phase = "Running" /\ sched.pc = "await"
      /\ UNCHANGED <<wf, result, decision, awaiting, phase, budget, lost>>
    BY DEF PollDecisions, Awaiting, Executing
<1>2. /\ TypeOK /\ sched \in Scheduling /\ Apart(sched, lost)
      /\ sched.aborted \subseteq lost
    BY <1>1 DEF Inv, TypeOK, Sound, Waiting, OnDisk
<1>3. sched' = [sched EXCEPT !.heard = H, !.parked = K, !.ready = R, !.pc = "drain"]
    BY <1>2 DEF PollDecisions, Scheduling
<1>4. H \subseteq Node /\ K \subseteq Node /\ R \subseteq Node
    BY <1>2 DEF Scheduling
<1>5. new \subseteq sched.parked
    OBVIOUS
<1> HIDE DEF H
<1>6. /\ sched' \in Scheduling /\ SameBooks(sched, sched')
      /\ sched'.todo = sched.todo /\ sched'.ready = R /\ sched'.parked = K
      /\ sched'.task = sched.task /\ sched'.aborted = sched.aborted
      /\ sched'.pc = "drain"
    <2> HIDE DEF R, K
    <2> QED
        BY <1>2, <1>3, <1>4 DEF SameBooks, Scheduling
<1> HIDE DEF new
<1>7. InFlight(sched') = InFlight(sched)
    BY <1>6 DEF InFlight
<1>8. Pending(sched') \subseteq Pending(sched)
    BY <1>5, <1>6, <1>7 DEF Pending
<1>9. Apart(sched', lost)
    BY <1>2, <1>5, <1>6, <1>7 DEF Apart
<1>10. TypeOK'
    BY <1>1, <1>2, <1>6 DEF TypeOK
<1> QED
    BY <1>1, <1>2, <1>6, <1>7, <1>8, <1>9, <1>10, MovedStep

\* cancel_finalize: everything is aborted ...
LEMMA TeardownStep ==
    ASSUME Inv, Teardown
    PROVE  Inv'
<1> DEFINE A == sched.aborted \cup InFlight(sched)
<1>1. /\ phase = "Running" /\ sched.todo = {} /\ sched.pc \in {"check", "await"}
      /\ UNCHANGED <<wf, result, decision, awaiting, phase, budget, lost>>
    BY DEF Teardown, Checking, Awaiting, Executing
<1>2. TypeOK /\ sched \in Scheduling /\ Apart(sched, lost)
    BY <1>1 DEF Inv, TypeOK, Sound, Waiting
<1>3. A \subseteq Node /\ sched' = [sched EXCEPT !.aborted = A, !.pc = "teardown"]
    BY <1>2 DEF Teardown, InFlight, Scheduling
<1> HIDE DEF A
<1>4. /\ sched' \in Scheduling /\ SameBooks(sched, sched')
      /\ sched'.todo = sched.todo /\ sched'.ready = sched.ready
      /\ sched'.parked = sched.parked /\ sched'.task = sched.task
      /\ sched'.pc = "teardown"
    BY <1>2, <1>3 DEF SameBooks, Scheduling
<1>5. InFlight(sched') = InFlight(sched) /\ Pending(sched') = Pending(sched)
    BY <1>4 DEF InFlight, Pending
<1>6. Apart(sched', lost)
    BY <1>2, <1>4, <1>5 DEF Apart
<1>7. TypeOK'
    BY <1>1, <1>2, <1>4 DEF TypeOK
<1> QED
    BY <1>1, <1>4, <1>5, <1>6, <1>7, MovedStep

\* ... and a step that was already through keeps its result.
LEMMA TeardownOneStep ==
    ASSUME Inv, NEW n \in Node, TeardownOne(n)
    PROVE  Inv'
<1> DEFINE T == [sched.task EXCEPT ![n] = "None"]
<1>1. /\ phase = "Running" /\ sched.pc = "teardown" /\ n \in InFlight(sched)
      /\ UNCHANGED <<wf, decision, awaiting, phase, budget, lost>>
    BY DEF TeardownOne, Executing, InFlight
<1>2. /\ TypeOK /\ sched \in Scheduling /\ KeptInOrder(wf, result, lost)
      /\ wf \in Workflow /\ result \in [Node -> Result]
    BY DEF Inv, TypeOK
<1>3. T \in [Node -> {"None", "Running", "Ran", "Paused", "Failed"}]
    BY <1>2 DEF Scheduling
<1>4. sched' = [sched EXCEPT !.task = T]
    BY <1>2 DEF TeardownOne, Scheduling
<1>5. InFlight(sched) \ {n} = {m \in Node : T[m] # "None"}
    BY <1>2 DEF InFlight, Scheduling
<1> HIDE DEF T
<1>6. /\ sched' \in Scheduling /\ SameBooks(sched, sched')
      /\ sched'.todo = sched.todo /\ sched'.ready = sched.ready
      /\ sched'.parked = sched.parked /\ sched'.task = T
      /\ sched'.aborted = sched.aborted /\ sched'.pc = sched.pc
    BY <1>2, <1>3, <1>4 DEF SameBooks, Scheduling
<1>7. InFlight(sched') = InFlight(sched) \ {n}
    BY <1>5, <1>6 DEF InFlight
<1>8. CASE result' = result
    <2>1. TypeOK'
        BY <1>1, <1>2, <1>6, <1>8 DEF TypeOK
    <2> QED
        BY <1>1, <1>6, <1>7, <1>8, <2>1, NarrowStep
<1>9. CASE result' = [result EXCEPT ![n] = "Ran"]
    <2> DEFINE t == sched'
               r == result'
    <2>1. /\ Waiting(wf, sched, result, lost) /\ Degrees(wf, sched, lost)
          /\ Arrivals(wf, sched, result, lost) /\ OnDisk(wf, sched, result, lost)
          /\ ResolvedWhenDone(wf, sched)
        BY <1>1 DEF Inv, Sound
    <2>2. /\ n \notin Joins(wf)
          /\ n \notin lost => Pred(wf, n) \subseteq sched.done
        BY <1>1, InFlightReached
    <2>3. r \in [Node -> Result] /\ \A m \in Node : r[m] = IF m = n THEN "Ran" ELSE result[m]
        BY <1>2, <1>9 DEF Result, Live
    <2>4. KeptInOrder(wf, r, lost)
        <3>1. n \notin lost \cup Joins(wf) => \A p \in Pred(wf, n) : result[p] # "None"
            BY <1>1, <2>2, DoneBefore
        <3> QED
            BY <1>2, <1>9, <3>1, ResultInOrder DEF Live
    <2>5. /\ SameBooks(sched, t) /\ t.todo = sched.todo /\ t.pc = "teardown"
          /\ t.ready = sched.ready /\ t.parked = sched.parked
          /\ InFlight(t) = InFlight(sched) \ {n}
        BY <1>1, <1>6, <1>7
    <2>6. \A m \in Node : Pred(wf, m) \subseteq Node
        BY <1>2, GraphType
    <2>7. TypeOK'
        BY <1>1, <1>2, <1>6, <2>3 DEF TypeOK
    <2> HIDE DEF t, r
    <2>8. Waiting(wf, t, r, lost)
        <3>1. Pending(t) \subseteq Pending(sched)
            BY <2>5 DEF Pending
        <3>2. Apart(t, lost)
            BY <2>1, <2>5 DEF Waiting, Apart
        <3>3. ASSUME NEW m \in InFlight(t) \ lost
              PROVE  r[m] = "None"
            BY <2>1, <2>3, <2>5, <3>3 DEF Waiting, InFlight
        <3> QED
            BY <2>1, <2>5, <3>1, <3>2, <3>3 DEF Waiting, SameBooks
    <2>9. Degrees(wf, t, lost)
        BY <2>1, <2>5 DEF Degrees, SameBooks
    <2>10. Arrivals(wf, t, r, lost)
        <3>1. \A j \in Joins(wf) : {p \in Pred(wf, j) : result[p] \in Live}
                                     \subseteq {p \in Pred(wf, j) : r[p] \in Live}
            BY <2>3, <2>6 DEF Live, Joins
        <3>2. /\ t.todo = sched.todo /\ t.resolved = sched.resolved
              /\ t.arrived = sched.arrived /\ t.accounted = sched.accounted
              /\ t.done = sched.done
            BY <2>5 DEF SameBooks
        <3> QED
            BY <2>1, <3>1, <3>2 DEF Arrivals
    <2>11. OnDisk(wf, t, r, lost)
        <3>1. ASSUME NEW m \in Node, r[m] # "None"
              PROVE  m \in t.done \/ m \notin Joins(wf)
            BY <1>1, <2>1, <2>2, <2>3, <2>5, <3>1 DEF OnDisk, SameBooks
        <3>2. ASSUME NEW m \in t.done
              PROVE  r[m] # "None" \/ m \in lost \ Joins(wf)
            <4>1. m \in sched.done /\ m \in Node
                BY <1>2, <2>5, <3>2 DEF SameBooks, Scheduling
            <4> QED
                BY <2>1, <2>3, <4>1 DEF OnDisk
        <3> QED
            BY <1>1, <2>1, <2>5, <3>1, <3>2 DEF OnDisk
    <2>12. ResolvedWhenDone(wf, t)
        BY <2>1, <2>5 DEF ResolvedWhenDone, SameBooks
    <2> QED
        BY <1>1, <2>4, <2>7, <2>8, <2>9, <2>10, <2>11, <2>12 DEF Inv, Sound, t, r
<1> QED
    BY <1>8, <1>9 DEF TeardownOne

------------------------------------------------------------------------------
(* A join fires, and cuts off the paths it does not wait for. *)

\* What a join cuts off, when it may: nothing of it has a result, and what is
\* behind it is cut off too, or is a join that has fired.
LEMMA CutOff ==
    ASSUME Inv, phase = "Running", NEW j \in sched.todo, j \notin sched.resolved,
           NEW W
    PROVE  LET cut == Losers(wf, j, W) \ sched.done
           IN  /\ j \in Node /\ j \in Joins(wf) /\ j \notin sched.done
               /\ result[j] = "None" /\ sched.pc # "teardown"
               /\ cut \in SUBSET {x \in Node : result[x] = "None"}
               /\ \A x \in cut : \A y \in Succ(wf, x) \ {j} :
                    y \in cut \cup lost \/ (y \in Joins(wf) /\ result[y] # "None")
<1> DEFINE all == Losers(wf, j, W)
           cut == all \ sched.done
<1>1. /\ Arrivals(wf, sched, result, lost) /\ OnDisk(wf, sched, result, lost)
      /\ ResolvedWhenDone(wf, sched) /\ KeptInOrder(wf, result, lost)
      /\ wf \in Workflow
    BY DEF Inv, Sound, TypeOK
<1>2. /\ Joins(wf) \subseteq Node
      /\ \A n \in Node : Succ(wf, n) \subseteq Node
      /\ \A n, m \in Node : m \in Succ(wf, n) <=> n \in Pred(wf, m)
    BY <1>1, GraphType
<1>3. j \in Joins(wf) /\ j \in Node /\ j \notin sched.done
    BY <1>1, <1>2 DEF Arrivals, ResolvedWhenDone
<1>4. sched.pc # "teardown"
    BY <1>1 DEF OnDisk
<1>5. \A x \in Node \ sched.done : result[x] = "None"
    BY <1>1, <1>4 DEF OnDisk
<1>6. all \subseteq Node /\ \A x \in all : Succ(wf, x) \subseteq all \cup {j}
    BY <1>1, LosersClosed
<1> HIDE DEF all
<1>7. ASSUME NEW x \in cut, NEW y \in Succ(wf, x) \ {j}, y \notin cut \cup lost
      PROVE  y \in Joins(wf) /\ result[y] # "None"
    <2>1. /\ x \in Node /\ y \in Node /\ x \in Pred(wf, y)
          /\ y \in sched.done /\ result[x] = "None"
        BY <1>2, <1>5, <1>6, <1>7
    <2>2. result[y] # "None"
        BY <1>1, <1>7, <2>1 DEF OnDisk
    <2>3. y \in Joins(wf)
        BY <1>1, <1>7, <2>1, <2>2 DEF KeptInOrder, InOrder, LostClosed
    <2> QED
        BY <2>2, <2>3
<1> QED
    BY <1>3, <1>4, <1>5, <1>6, <1>7 DEF all

\* A join of the worklist fires, or was resolved before.
LEMMA DrainJoinStep ==
    ASSUME Inv, NEW j \in Node, DrainJoin(j)
    PROVE  Inv'
<1> DEFINE winners == sched.arrived[j]
           cut     == Losers(wf, j, winners) \ sched.done
           handles == InFlight(sched) \ sched.aborted
           todo     == sched.todo \ {j}
           resolved == sched.resolved \cup {j}
           aborted  == sched.aborted \cup (cut \cap handles)
           moot     == sched.cancelled \cup (cut \ handles)
           ready    == sched.ready \ (cut \ handles)
           s == [sched EXCEPT !.todo = todo, !.resolved = resolved,
                              !.aborted = aborted, !.cancelled = moot,
                              !.ready = ready]
           l == lost \cup cut
<1>1. /\ phase = "Running" /\ j \in sched.todo
      /\ UNCHANGED <<wf, decision, awaiting, phase, budget>>
    BY DEF DrainJoin, Executing
<1>2. /\ TypeOK /\ sched \in Scheduling /\ wf \in Workflow
      /\ result \in [Node -> Result] /\ lost \in SUBSET Node
    BY DEF Inv, TypeOK
<1>3. CASE /\ sched' = [sched EXCEPT !.todo = @ \ {j}]
           /\ UNCHANGED <<result, lost>>
    <2>1. sched' = [sched EXCEPT !.todo = todo] /\ todo \subseteq Node
        BY <1>2, <1>3 DEF Scheduling
    <2>2. todo \subseteq sched.todo
        OBVIOUS
    <2> HIDE DEF todo
    <2>3. /\ sched' \in Scheduling /\ SameBooks(sched, sched')
          /\ sched'.todo = todo /\ sched'.ready = sched.ready
          /\ sched'.parked = sched.parked /\ sched'.task = sched.task
          /\ sched'.aborted = sched.aborted /\ sched'.pc = sched.pc
        BY <1>2, <2>1 DEF SameBooks, Scheduling
    <2>4. TypeOK'
        BY <1>1, <1>2, <1>3, <2>3 DEF TypeOK
    <2>5. InFlight(sched') = InFlight(sched)
        BY <2>3 DEF InFlight
    <2> QED
        BY <1>1, <1>3, <2>2, <2>3, <2>4, <2>5, NarrowStep
<1>4. CASE /\ j \notin sched.resolved
           /\ result' = [result EXCEPT ![j] = "Ran"]
           /\ sched' = MarkDone([sched EXCEPT
                                   !.todo      = @ \ {j},
                                   !.resolved  = @ \cup {j},
                                   !.aborted   = @ \cup (cut \cap handles),
                                   !.cancelled = @ \cup (cut \ handles),
                                   !.ready     = @ \ (cut \ handles)], j, TRUE)
           /\ lost' = lost \cup cut
    <2>1. /\ j \in Joins(wf) /\ j \notin sched.done
          /\ result[j] = "None" /\ sched.pc # "teardown"
          /\ cut \in SUBSET {x \in Node : result[x] = "None"}
          /\ \A x \in cut : \A y \in Succ(wf, x) \ {j} :
               y \in cut \cup lost \/ (y \in Joins(wf) /\ result[y] # "None")
        BY <1>1, <1>4, CutOff
    <2>2. /\ Waiting(wf, sched, result, lost) /\ Degrees(wf, sched, lost)
          /\ Arrivals(wf, sched, result, lost) /\ OnDisk(wf, sched, result, lost)
          /\ ResolvedWhenDone(wf, sched) /\ KeptInOrder(wf, result, lost)
        BY <1>1 DEF Inv, Sound
    <2> HIDE DEF cut
    <2>3. /\ todo \subseteq Node /\ resolved \subseteq Node /\ aborted \subseteq Node
          /\ moot \subseteq Node /\ ready \subseteq Node /\ l \in SUBSET Node
        BY <1>2, <2>1 DEF Scheduling, InFlight
    <2>4. sched' = MarkDone(s, j, TRUE)
        BY <1>2, <1>4 DEF Scheduling
    <2>5. /\ aborted \subseteq l /\ todo \subseteq sched.todo
          /\ ready \subseteq sched.ready
        BY <2>1, <2>2 DEF OnDisk
    <2> HIDE DEF todo, resolved, aborted, moot, ready
    <2>6. /\ s \in Scheduling
          /\ s.done = sched.done /\ s.indegree = sched.indegree
          /\ s.arrived = sched.arrived /\ s.accounted = sched.accounted
          /\ s.resolved = resolved /\ s.todo = todo /\ s.aborted = aborted
          /\ s.ready = ready /\ s.parked = sched.parked /\ s.task = sched.task
          /\ s.pc = sched.pc
        BY <1>2, <2>3 DEF Scheduling
    <2> HIDE DEF s
    <2>7. InFlight(s) = InFlight(sched) /\ Pending(s) \subseteq Pending(sched)
        BY <2>5, <2>6 DEF InFlight, Pending
    <2>8. lost \subseteq l
        OBVIOUS
    <2>9. Sound(wf, s, result, l)
        <3>1. Waiting(wf, s, result, l)
            <4>1. Pending(s) \cap Joins(wf) = {}
                BY <2>2, <2>7 DEF Waiting
            <4>2. \A m \in Pending(s) \ l : m \notin s.done /\ Pred(wf, m) \subseteq s.done
                BY <2>2, <2>6, <2>7 DEF Waiting
            <4>3. \A m \in InFlight(s) \ l : result[m] = "None"
                BY <2>2, <2>7 DEF Waiting
            <4>4. Apart(s, l)
                BY <2>2, <2>5, <2>6, <2>7 DEF Waiting, Apart
            <4> QED
                BY <4>1, <4>2, <4>3, <4>4 DEF Waiting
        <3>2. Degrees(wf, s, l)
            BY <2>2, <2>6 DEF Degrees
        <3>3. Arrivals(wf, s, result, l)
            <4>1. sched.resolved \subseteq s.resolved
                BY <2>6 DEF resolved
            <4> QED
                BY <2>2, <2>5, <2>6, <4>1 DEF Arrivals
        <3>4. OnDisk(wf, s, result, l)
            BY <2>1, <2>2, <2>5, <2>6 DEF OnDisk
        <3> QED
            BY <3>1, <3>2, <3>3, <3>4 DEF Sound
    <2>10. s.resolved = Joins(wf) \cap (s.done \cup {j})
        BY <2>1, <2>2, <2>6 DEF ResolvedWhenDone, resolved
    <2>11. j \notin s.done \cup Pending(s)
        BY <2>1, <2>2, <2>6, <2>7 DEF Waiting
    <2> DEFINE r == result'
    <2>12. /\ r \in [Node -> Result]
           /\ \A m \in Node : r[m] = IF m = j THEN "Ran" ELSE result[m]
           /\ \A m : result[m] # "None" => r[m] # "None"
        BY <1>2, <1>4 DEF Result, Live
    <2> HIDE DEF r
    <2>13. KeptInOrder(wf, r, l)
        <3>1. ASSUME NEW m \in Node \ (l \cup Joins(wf)), r[m] # "None",
                     NEW p \in Pred(wf, m)
              PROVE  r[p] # "None"
            BY <2>1, <2>2, <2>12, <3>1 DEF KeptInOrder, InOrder, LostClosed
        <3>2. ASSUME NEW x \in l, NEW y \in Succ(wf, x)
              PROVE  y \in l \/ (y \in Joins(wf) /\ r[y] # "None")
            <4>1. CASE x \in lost
                BY <2>2, <2>12, <3>2, <4>1 DEF KeptInOrder, InOrder, LostClosed
            <4>2. CASE x \in cut /\ y = j
                BY <2>1, <2>12, <4>2
            <4>3. CASE x \in cut /\ y # j
                BY <2>1, <2>12, <3>2, <4>3
            <4> QED
                BY <4>1, <4>2, <4>3
        <3> QED
            BY <3>1, <3>2 DEF KeptInOrder, InOrder, LostClosed
    <2>14. InOrder(wf, result, l)
        BY <2>2, <2>8 DEF KeptInOrder, InOrder
    <2>15. Sound(wf, MarkDone(s, j, TRUE), r, l) /\ ResolvedWhenDone(wf, MarkDone(s, j, TRUE))
        <3>1. \A m \in Node \ {j} : r[m] = result[m]
            BY <2>12
        <3>2. r[j] # "None" /\ r[j] \in Live
            BY <2>12 DEF Live
        <3>3. s.pc # "teardown" /\ LostClosed(wf, r, l)
            BY <2>1, <2>6, <2>13 DEF KeptInOrder
        <3> HIDE DEF l
        <3> QED
            BY <1>2, <2>1, <2>3, <2>6, <2>9, <2>10, <2>11, <2>14, <3>1, <3>2, <3>3,
               MarkDoneSound
    <2>16. MarkDone(s, j, TRUE) \in Scheduling
        BY <1>2, <2>6, MarkDoneType
    <2>17. TypeOK'
        BY <1>1, <1>2, <1>4, <2>3, <2>4, <2>12, <2>16 DEF TypeOK, r
    <2> QED
        BY <1>1, <1>4, <2>4, <2>13, <2>15, <2>17 DEF Inv, r
<1> QED
    BY <1>3, <1>4 DEF DrainJoin

------------------------------------------------------------------------------
(* The life of a call, and the theorems. *)

\* A process that ends leaves nothing in flight.
LEMMA EndAsStep ==
    ASSUME Inv, NEW p \in Phase \ {"Running"}, EndAs(p),
           UNCHANGED <<wf, result, decision, lost>>,
           awaiting' \subseteq Node, budget' \in [Disturbance -> Nat]
    PROVE  Inv'
<1> DEFINE T == [n \in Node |-> "None"]
<1>1. TypeOK /\ sched \in Scheduling /\ KeptInOrder(wf, result, lost)
    BY DEF Inv, TypeOK
<1>2. sched' = [sched EXCEPT !.task = T, !.ready = {}, !.todo = {}] /\ phase' = p
    BY DEF EndAs
<1>3. T \in [Node -> {"None", "Running", "Ran", "Paused", "Failed"}]
    OBVIOUS
<1> HIDE DEF T
<1>4. sched' \in Scheduling /\ sched'.task = T
    BY <1>1, <1>2, <1>3 DEF Scheduling
<1>5. InFlight(sched') = {}
    BY <1>4 DEF InFlight, T
<1>6. TypeOK'
    BY <1>1, <1>2, <1>4 DEF TypeOK
<1> QED
    BY <1>1, <1>2, <1>5, <1>6 DEF Inv

\* Every way a process ends.
LEMMA EndStep ==
    ASSUME Inv,
           \/ TornDown \/ EndPass \/ Crash
           \/ \E n \in Node : RenderFails(n) \/ CollectFailed(n)
    PROVE  Inv'
<1>1. TypeOK /\ awaiting \subseteq Node /\ budget \in [Disturbance -> Nat]
    BY DEF Inv, TypeOK
<1>2. \A k \in Disturbance : Spend(k) => budget' \in [Disturbance -> Nat]
    BY <1>1 DEF Spend
<1>3. CASE TornDown
    BY <1>1, <1>3, EndAsStep DEF TornDown, Phase
<1>4. CASE EndPass
    <2> DEFINE p == IF sched.noted \/ sched.parked # {} THEN "Paused" ELSE "Done"
    <2>1. p \in Phase \ {"Running"} /\ EndAs(p)
        BY <1>4 DEF EndPass, Phase
    <2>2. awaiting' \subseteq Node
        <3>1. sched.parked \subseteq Node
            BY <1>1 DEF TypeOK, Scheduling
        <3> QED
            BY <1>4, <3>1 DEF EndPass
    <2>3. UNCHANGED <<wf, result, decision, lost>> /\ budget' \in [Disturbance -> Nat]
        BY <1>1, <1>4 DEF EndPass
    <2> HIDE DEF p
    <2> QED
        BY <2>1, <2>2, <2>3, EndAsStep
<1>5. CASE Crash
    BY <1>1, <1>2, <1>5, EndAsStep DEF Crash, Phase, Disturbance
<1>6. ASSUME NEW n \in Node, RenderFails(n)
      PROVE  Inv'
    BY <1>1, <1>2, <1>6, EndAsStep DEF RenderFails, Phase, Disturbance
<1>7. ASSUME NEW n \in Node, CollectFailed(n)
      PROVE  Inv'
    BY <1>1, <1>7, EndAsStep DEF CollectFailed, Phase
<1> QED
    BY <1>3, <1>4, <1>5, <1>6, <1>7

\* A process takes the run up.
LEMMA StartPassStep ==
    ASSUME Inv, StartPass
    PROVE  Inv'
<1>1. /\ TypeOK /\ KeptInOrder(wf, result, lost)
      /\ wf \in Workflow /\ result \in [Node -> Result]
      /\ decision \in [Node -> Verdict]
    BY DEF Inv, TypeOK
<1>2. /\ sched' = Restored /\ phase' = "Running"
      /\ UNCHANGED <<wf, result, decision, awaiting, budget, lost>>
    BY DEF StartPass
<1>3. Restored \in Scheduling
    BY <1>1, RestoredType
<1>4. Sound(wf, Restored, result, lost) /\ ResolvedWhenDone(wf, Restored)
    BY <1>1, RestoredSound
<1>5. TypeOK'
    BY <1>1, <1>2, <1>3 DEF TypeOK, Phase
<1> QED
    BY <1>1, <1>2, <1>4, <1>5 DEF Inv

\* A decision changes nothing the scheduler has in hand.
LEMMA DecideStep ==
    ASSUME Inv, NEW g \in Node, Decide(g)
    PROVE  Inv'
<1>1. UNCHANGED <<wf, result, phase, sched, budget, lost>>
    BY DEF Decide
<1>2. TypeOK'
    BY <1>1 DEF Inv, TypeOK, Decide, Verdict
<1> QED
    BY <1>1, <1>2 DEF Inv

\* Nothing happens.
LEMMA StutterStep ==
    ASSUME Inv, UNCHANGED vars
    PROVE  Inv'
BY DEF Inv, TypeOK, vars

\* The invariant holds at the start,
LEMMA InitInv == Init => Inv
<1> SUFFICES ASSUME Init PROVE Inv
    OBVIOUS
<1>1. /\ wf \in Workflow /\ result \in [Node -> Result]
      /\ decision \in [Node -> Verdict]
    BY DEF Init, Result, Verdict
<1>2. Restored \in Scheduling /\ RestoredAs(Restored)
    BY <1>1, RestoredType
<1>3. TypeOK
    BY <1>1, <1>2, SchedulerAssumption DEF Init, TypeOK, Phase
<1>4. KeptInOrder(wf, result, lost)
    BY DEF Init, KeptInOrder, InOrder, LostClosed
<1>5. InFlight(sched) = {}
    BY <1>2 DEF Init, InFlight, RestoredAs
<1> QED
    BY <1>3, <1>4, <1>5 DEF Init, Inv

\* every step keeps it,
LEMMA NextInv == Inv /\ [Next]_vars => Inv'
<1> SUFFICES ASSUME Inv, [Next]_vars PROVE Inv'
    OBVIOUS
<1>1. CASE UNCHANGED vars \/ Terminated
    BY <1>1, StutterStep DEF Terminated
<1>2. CASE StartPass
    BY <1>2, StartPassStep
<1>3. CASE DrainEnds \/ Await
    BY <1>3, TurnStep
<1>4. CASE RequestPause \/ RequestStop
    BY <1>4, RequestStep
<1>5. CASE TornDown \/ EndPass \/ Crash
    BY <1>5, EndStep
<1>6. CASE PollDecisions
    BY <1>6, PollDecisionsStep
<1>7. CASE Teardown
    BY <1>7, TeardownStep
<1>8. ASSUME NEW n \in Node, Work(n) \/ Decide(n)
      PROVE  Inv'
    BY <1>8, WorkStep, DecideStep
<1>9. CASE DrainStep
    <2>1. ASSUME NEW n \in Node, DrainJoin(n) \/ SkipWrittenOff(n) \/ PauseBefore(n)
          PROVE  Inv'
        BY <2>1, DrainJoinStep, SkipWrittenOffStep, PauseBeforeStep
    <2>2. ASSUME NEW n \in Node, SkipWhen(n) \/ Gate(n) \/ Split(n) \/ Dispatch(n)
          PROVE  Inv'
        BY <2>2, SkipWhenStep, GateStep, SplitStep, DispatchStep
    <2>3. ASSUME NEW n \in Node, RenderFails(n)
          PROVE  Inv'
        BY <2>3, EndStep
    <2>4. ASSUME NEW n \in Node, NEW a \in Arm, Branch(n, a)
          PROVE  Inv'
        BY <2>4, BranchStep
    <2> QED
        BY <1>9, <2>1, <2>2, <2>3, <2>4 DEF DrainStep
<1>10. ASSUME NEW n \in Node,
              \/ Collect(n) \/ CollectPaused(n) \/ Reap(n)
              \/ CollectFailed(n) \/ TeardownOne(n)
       PROVE  Inv'
    BY <1>10, CollectStep, CollectPausedStep, ReapStep, EndStep, TeardownOneStep
<1> QED
    BY <1>1, <1>2, <1>3, <1>4, <1>5, <1>6, <1>7, <1>8, <1>9, <1>10
       DEF Next, SchedulerStep, AwaitStep

\* and so it holds throughout.
LEMMA InvHolds == Spec => []Inv
BY InitInv, NextInv, PTL DEF Spec

\* Every reachable state of the scheduler has its type.
THEOREM SchedulerTypeCorrect == Spec => []TypeOK
<1>1. Inv => TypeOK
    BY DEF Inv
<1> QED
    BY <1>1, InvHolds, PTL

\* Nothing that is not cut off starts before what it depends on has its result,
\* in any workflow, over any number of interruptions.
THEOREM DependenciesFirstHolds == Spec => []DependenciesFirst
<1>1. Inv => DependenciesFirst
    <2> SUFFICES ASSUME Inv, NEW n \in Node \ lost, sched.task[n] # "None"
                 PROVE  \A p \in Pred(wf, n) : result[p] # "None"
        BY DEF DependenciesFirst
    <2>1. n \in InFlight(sched)
        BY DEF InFlight
    <2>2. phase = "Running" /\ n \notin Joins(wf) /\ Pred(wf, n) \subseteq sched.done
        BY <2>1, InFlightReached
    <2> QED
        BY <2>2, DoneBefore
<1> QED
    BY <1>1, InvHolds, PTL

------------------------------------------------------------------------------
(* The refinement: every step is one of Dataflow, or is not seen there. *)

Seen == <<wf, result, lost>>

\* A result that finish_node, or cancel_finalize, records in order.
LEMMA RecordKept ==
    ASSUME Inv, phase = "Running", NEW n \in Node \ Joins(wf),
           NEW v \in Live \cup NotLive,
           n \notin lost => result[n] = "None" /\ Pred(wf, n) \subseteq sched.done,
           result' = [result EXCEPT ![n] = v], UNCHANGED <<wf, lost>>
    PROVE  Promise!Next
<1>1. n \notin lost => \A p \in Pred(wf, n) : result[p] # "None"
    BY DoneBefore
<1>2. Promise!Joins(wf) = Joins(wf) /\ Promise!Pred(wf, n) = Pred(wf, n)
    BY DEF Promise!Joins, Joins, Promise!Pred, Pred
<1>3. v \in Promise!Live \cup Promise!NotLive
    BY DEF Promise!Live, Promise!NotLive, Live, NotLive
<1>4. Promise!Record(n)
    BY <1>1, <1>2, <1>3 DEF Promise!Record
<1> QED
    BY <1>4 DEF Promise!Next

\* A join that leaves the worklist and fires.
LEMMA FireKept ==
    ASSUME Inv, NEW j \in Node, DrainJoin(j)
    PROVE  [Promise!Next]_Seen
<1> DEFINE cut == Losers(wf, j, sched.arrived[j]) \ sched.done
<1>1. /\ phase = "Running" /\ j \in sched.todo /\ UNCHANGED wf
      /\ \/ UNCHANGED <<result, lost>>
         \/ /\ j \notin sched.resolved
            /\ result' = [result EXCEPT ![j] = "Ran"]
            /\ lost' = lost \cup cut
    BY DEF DrainJoin, Executing
<1>2. CASE UNCHANGED <<result, lost>>
    BY <1>1, <1>2 DEF Seen
<1>3. CASE /\ j \notin sched.resolved
           /\ result' = [result EXCEPT ![j] = "Ran"]
           /\ lost' = lost \cup cut
    <2>1. /\ j \in Joins(wf) /\ result[j] = "None" /\ sched.pc # "teardown"
          /\ cut \in SUBSET {x \in Node : result[x] = "None"}
          /\ \A x \in cut : \A y \in Succ(wf, x) \ {j} :
               y \in cut \cup lost \/ (y \in Joins(wf) /\ result[y] # "None")
        BY <1>1, <1>3, CutOff
    <2> HIDE DEF cut
    <2>2. /\ wf \in Workflow /\ sched \in Scheduling
          /\ Arrivals(wf, sched, result, lost) /\ OnDisk(wf, sched, result, lost)
          /\ KeptInOrder(wf, result, lost)
        BY <1>1 DEF Inv, TypeOK, Sound
    <2>3. Pred(wf, j) \subseteq Node /\ \A p \in Pred(wf, j) : j \in Succ(wf, p)
        BY <2>2, GraphType
    <2> DEFINE live == {p \in Pred(wf, j) : result[p] \in Live}
    <2>4. \/ j \in lost
          \/ Cardinality(live) >= wf.wait[j]
          \/ \A p \in Pred(wf, j) : result[p] # "None"
        <3> SUFFICES ASSUME j \notin lost
                     PROVE  \/ Cardinality(live) >= wf.wait[j]
                            \/ \A p \in Pred(wf, j) : result[p] # "None"
            OBVIOUS
        <3>1. /\ sched.arrived[j] \subseteq live
              /\ sched.accounted[j] <= Cardinality(Pred(wf, j) \cap sched.done)
              /\ \/ Cardinality(sched.arrived[j]) >= wf.wait[j]
                 \/ sched.accounted[j] >= Cardinality(Pred(wf, j))
            BY <1>1, <1>3, <2>1, <2>2 DEF Arrivals
        <3>2. CASE Cardinality(sched.arrived[j]) >= wf.wait[j]
            <4>1. /\ Cardinality(sched.arrived[j]) <= Cardinality(live)
                  /\ Cardinality(sched.arrived[j]) \in Nat
                  /\ Cardinality(live) \in Nat
                <5>1. live \in SUBSET Node /\ sched.arrived[j] \in SUBSET Node
                    BY <2>3, <3>1
                <5> QED
                    BY <3>1, <5>1, Countable, FS_Subset
            <4>2. wf.wait[j] \in Nat
                BY <2>2, WorkflowAssumption DEF Graph
            <4> QED
                BY <3>2, <4>1, <4>2
        <3>3. CASE sched.accounted[j] >= Cardinality(Pred(wf, j))
            <4>1. /\ sched.accounted[j] \in Nat
                  /\ Cardinality(Pred(wf, j)) \in Nat
                  /\ Cardinality(Pred(wf, j) \cap sched.done) \in Nat
                BY <2>2, <2>3, Countable DEF Scheduling
            <4>2. Cardinality(Pred(wf, j)) <= Cardinality(Pred(wf, j) \cap sched.done)
                BY <3>1, <3>3, <4>1
            <4>3. Pred(wf, j) \cap sched.done = Pred(wf, j)
                BY <2>3, <4>2, CountAll
            <4>4. \A p \in Pred(wf, j) : p \notin lost
                BY <2>1, <2>2, <2>3 DEF KeptInOrder, LostClosed
            <4> QED
                BY <2>2, <2>3, <4>3, <4>4 DEF OnDisk
        <3> QED
            BY <3>1, <3>2, <3>3
    <2>5. /\ Promise!Joins(wf) = Joins(wf) /\ Promise!Pred(wf, j) = Pred(wf, j)
          /\ Promise!Live = Live
          /\ \A x \in Node : Promise!Succ(wf, x) = Succ(wf, x)
        BY DEF Promise!Joins, Joins, Promise!Pred, Pred, Promise!Succ, Succ,
               Promise!Live, Live
    <2>6. \A x \in cut : \A y \in Promise!Succ(wf, x) \ {j} :
            y \in cut \cup lost \/ (y \in Promise!Joins(wf) /\ result[y] # "None")
        BY <2>1, <2>5
    <2>7. \/ j \in lost
          \/ Cardinality({p \in Promise!Pred(wf, j) : result[p] \in Promise!Live})
               >= wf.wait[j]
          \/ \A p \in Promise!Pred(wf, j) : result[p] # "None"
        BY <2>4, <2>5
    <2>8. Promise!Fire(j)
        <3>1. \E c \in SUBSET {x \in Node : result[x] = "None"} :
                /\ \A x \in c : \A y \in Promise!Succ(wf, x) \ {j} :
                     y \in c \cup lost \/ (y \in Promise!Joins(wf) /\ result[y] # "None")
                /\ lost' = lost \cup c
            BY <1>3, <2>1, <2>6
        <3>2. j \in Promise!Joins(wf) /\ result[j] = "None"
            BY <2>1, <2>5
        <3>3. result' = [result EXCEPT ![j] = "Ran"] /\ UNCHANGED wf
            BY <1>1, <1>3
        <3>4. \A S : Promise!Cardinality(S) = Cardinality(S)
            BY DEF Promise!Cardinality, Cardinality
        <3> QED
            BY <2>7, <3>1, <3>2, <3>3, <3>4 DEF Promise!Fire
    <2> QED
        BY <2>8 DEF Promise!Next
<1> QED
    BY <1>1, <1>2, <1>3

\* A ready node that comes to its end on the spot.
LEMMA LowestKept ==
    ASSUME Inv, NEW n \in Node, Lowest(n), NEW s, NEW v \in Live \cup NotLive,
           Finish(s, n, v)
    PROVE  Promise!Next
<1>1. /\ phase = "Running" /\ n \notin Joins(wf)
      /\ n \notin lost => result[n] = "None" /\ Pred(wf, n) \subseteq sched.done
    BY LowestReached
<1>2. result' = [result EXCEPT ![n] = v] /\ UNCHANGED <<wf, lost>>
    BY DEF Finish
<1> QED
    BY <1>1, <1>2, RecordKept

\* Every step of the scheduler is one the promise allows, or is not seen by it.
LEMMA NextKept == Inv /\ [Next]_vars => [Promise!Next]_Seen
<1> SUFFICES ASSUME Inv, [Next]_vars PROVE [Promise!Next]_Seen
    OBVIOUS
<1>1. CASE \/ UNCHANGED vars \/ Terminated \/ StartPass \/ DrainEnds \/ Await
           \/ RequestPause \/ RequestStop \/ TornDown \/ EndPass \/ Crash
           \/ PollDecisions \/ Teardown
    BY <1>1 DEF Seen, vars, Terminated, StartPass, DrainEnds, Await, RequestPause,
                RequestStop, TornDown, EndPass, Crash, PollDecisions, Teardown
<1>2. ASSUME NEW n \in Node, Work(n) \/ Decide(n)
      PROVE  [Promise!Next]_Seen
    BY <1>2 DEF Seen, Work, Decide
<1>3. CASE DrainStep
    <2>1. ASSUME NEW n \in Node, DrainJoin(n)
          PROVE  [Promise!Next]_Seen
        BY <2>1, FireKept
    <2>2. ASSUME NEW n \in Node, PauseBefore(n) \/ Dispatch(n) \/ RenderFails(n)
          PROVE  [Promise!Next]_Seen
        BY <2>2 DEF Seen, PauseBefore, Dispatch, RenderFails
    <2>3. ASSUME NEW n \in Node, SkipWrittenOff(n)
          PROVE  [Promise!Next]_Seen
        <3> DEFINE v == CASE n \in sched.pruned -> "Pruned"
                          [] n \in sched.cancelled \ sched.pruned -> "Cancelled"
                          [] OTHER -> "Skipped"
        <3>1. Lowest(n) /\ Finish(Taken(n), n, v) /\ v \in Live \cup NotLive
            BY <2>3 DEF SkipWrittenOff, NotLive
        <3> HIDE DEF v
        <3> QED
            BY <3>1, LowestKept
    <2>4. ASSUME NEW n \in Node, SkipWhen(n)
          PROVE  [Promise!Next]_Seen
        BY <2>4, LowestKept DEF SkipWhen, Reached, NotLive
    <2>5. ASSUME NEW n \in Node, Split(n)
          PROVE  [Promise!Next]_Seen
        BY <2>5, LowestKept DEF Split, Reached, Live
    <2>6. ASSUME NEW n \in Node, NEW a \in Arm, Branch(n, a)
          PROVE  [Promise!Next]_Seen
        BY <2>6, LowestKept DEF Branch, Reached, Arm, Live
    <2>7. ASSUME NEW n \in Node, Gate(n)
          PROVE  [Promise!Next]_Seen
        <3>1. Lowest(n)
            BY <2>7 DEF Gate, Reached
        <3>2. \/ \E s : Finish(s, n, "Approved")
              \/ \E s : Finish(s, n, "Rejected")
              \/ UNCHANGED <<wf, result, lost>>
            BY <2>7 DEF Gate, Reject
        <3> QED
            BY <3>1, <3>2, LowestKept DEF Live, NotLive, Seen
    <2> QED
        BY <1>3, <2>1, <2>2, <2>3, <2>4, <2>5, <2>6, <2>7 DEF DrainStep
<1>4. ASSUME NEW n \in Node, CollectPaused(n) \/ Reap(n) \/ CollectFailed(n)
      PROVE  [Promise!Next]_Seen
    BY <1>4 DEF Seen, CollectPaused, Reap, CollectFailed
<1>5. ASSUME NEW n \in Node, Collect(n) \/ TeardownOne(n)
      PROVE  [Promise!Next]_Seen
    <2>1. n \in InFlight(sched)
        BY <1>5 DEF Collect, TeardownOne, InFlight
    <2>2. /\ phase = "Running" /\ n \in Node \ Joins(wf)
          /\ n \notin lost => result[n] = "None" /\ Pred(wf, n) \subseteq sched.done
        BY <2>1, InFlightReached
    <2>3. /\ UNCHANGED <<wf, lost>>
          /\ result' = result \/ result' = [result EXCEPT ![n] = "Ran"]
        BY <1>5 DEF Collect, TeardownOne, Finish
    <2> QED
        BY <2>2, <2>3, RecordKept DEF Live, Seen
<1> QED
    BY <1>1, <1>2, <1>3, <1>4, <1>5 DEF Next, SchedulerStep, AwaitStep

\* The scheduler implements Dataflow: in every workflow, whatever interrupts
\* it, a result follows those it depends on, is written once, and a join cuts
\* off nothing that others wait for.
THEOREM KeepsPromiseHolds == Spec => KeepsPromise
<1>1. Init => Promise!Init
    BY DEF Init, Promise!Init
<1>2. Inv /\ [Next]_vars => [Promise!Next]_<<wf, result, lost>>
    BY NextKept DEF Seen
<1> QED
    BY <1>1, <1>2, InvHolds, PTL DEF Spec, KeepsPromise, Promise!Spec

------------------------------------------------------------------------------
(* What is pruned. *)

\* What the scheduler has pruned is dead, and so is all it holds for cut.
DeadEnds(s) ==
    /\ s.pruned \cap LivePath = {}
    /\ s.dead \subseteq Off
    /\ \A g \in s.rejected : {e \in wf.edge : e[1] = g} \subseteq Off

PInv == PrunedIsDead /\ (phase = "Running" => DeadEnds(sched))

\* Fewer edges reach no more.
LEMMA ReachLess ==
    ASSUME NEW E, NEW F, E \subseteq F, NEW S
    PROVE  Reach(E, S) \subseteq Reach(F, S)
<1>1. \A T : Closed(F, T) => Closed(E, T)
    BY DEF Closed
<1> QED
    BY <1>1 DEF Reach

\* What was off every live path stays so: a node that was not written off keeps
\* its result.
LEMMA OffGrows ==
    ASSUME Inv, [Next]_vars
    PROVE  /\ wf' = wf /\ Off \subseteq Off'
           /\ LivePath' \subseteq LivePath
<1>1. [Promise!Next]_Seen
    BY NextKept
<1>2. /\ result \in [Node -> Result] /\ lost \subseteq Node
      /\ wf.edge \subseteq Node \X Node
    BY WorkflowAssumption DEF Inv, TypeOK, Graph
<1>3. /\ wf' = wf /\ lost \subseteq lost'
      /\ \A m \in Node \ lost : result[m] # "None" => result'[m] = result[m]
    <2>1. CASE UNCHANGED Seen
        BY <2>1 DEF Seen
    <2>2. ASSUME NEW n \in Node, Promise!Record(n)
          PROVE  <1>3
        BY <1>2, <2>2 DEF Promise!Record
    <2>3. ASSUME NEW n \in Node, Promise!Fire(n)
          PROVE  <1>3
        BY <1>2, <2>3 DEF Promise!Fire
    <2> QED
        BY <1>1, <2>1, <2>2, <2>3 DEF Promise!Next
<1>4. ASSUME NEW e \in Off
      PROVE  e \in Off'
    <2>1. e \in wf.edge /\ e[1] \in Node
        BY <1>2, <1>4 DEF Off, DeadEdges
    <2>2. CASE e[1] \in lost
        BY <1>3, <2>1, <2>2 DEF Off
    <2>3. CASE e[1] \notin lost
        <3>1. result[e[1]] \in Arm \cup {"Rejected"}
            BY <1>4, <2>3 DEF Off, DeadEdges
        <3>2. result'[e[1]] = result[e[1]]
            BY <1>3, <2>1, <2>3, <3>1 DEF Arm
        <3> QED
            BY <1>3, <1>4, <2>1, <2>3, <3>1, <3>2 DEF Off, DeadEdges
    <2> QED
        BY <2>2, <2>3
<1>5. Reach(wf.edge \ Off', Entries(wf)) \subseteq Reach(wf.edge \ Off, Entries(wf))
    BY <1>4, ReachLess
<1> QED
    BY <1>3, <1>4, <1>5 DEF LivePath

\* extend_rejection_prune adds what is dead.
LEMMA ExtendPruneDead ==
    ASSUME wf \in Workflow, NEW s \in Scheduling, NEW F,
           s.pruned \cap Reach(wf.edge \ F, Entries(wf)) = {},
           s.dead \subseteq F,
           \A g \in s.rejected : {e \in wf.edge : e[1] = g} \subseteq F
    PROVE  LET t == ExtendPrune(s)
           IN  /\ t.pruned \cap Reach(wf.edge \ F, Entries(wf)) = {}
               /\ t.dead = s.dead /\ t.rejected = s.rejected
<1> DEFINE cut  == s.dead \cup {e \in wf.edge : e[1] \in s.rejected}
           more == RejectionPruneSet(wf, s.rejected, s.dead) \ s.done
<1>1. cut \subseteq F
    OBVIOUS
<1>2. Reach(wf.edge \ F, Entries(wf)) \subseteq Reach(wf.edge \ cut, Entries(wf))
    <2>1. wf.edge \ F \subseteq wf.edge \ cut
        BY <1>1
    <2> HIDE DEF cut
    <2> QED
        BY <2>1, ReachLess
<1>3. more \cap Reach(wf.edge \ cut, Entries(wf)) = {}
    BY DEF RejectionPruneSet
<1>4. s.pruned \subseteq Node /\ more \subseteq Node
    BY PruneType DEF Scheduling, RejectionPruneSet, Reach
<1> HIDE DEF cut
<1>5. ExtendPrune(s) = IF s.rejected = {} THEN s
                       ELSE [s EXCEPT !.pruned = s.pruned \cup more]
    BY DEF ExtendPrune
<1> HIDE DEF more
<1>6. CASE s.rejected = {}
    BY <1>5, <1>6
<1>7. CASE s.rejected # {}
    <2>1. LET t == ExtendPrune(s)
          IN  t.pruned = s.pruned \cup more /\ t.dead = s.dead /\ t.rejected = s.rejected
        BY <1>5, <1>7 DEF Scheduling
    <2> QED
        BY <1>2, <1>3, <2>1
<1> QED
    BY <1>6, <1>7

SamePruning(s, t) ==
    t.pruned = s.pruned /\ t.dead = s.dead /\ t.rejected = s.rejected

\* The end of a node prunes nothing.
LEMMA MarkDonePrunes ==
    ASSUME NEW s \in Scheduling, NEW n, NEW live
    PROVE  SamePruning(s, MarkDone(s, n, live))
BY DEF MarkDone, Scheduling, SamePruning

\* A step that prunes nothing new, and records as pruned what was.
LEMMA PrunedKept ==
    ASSUME Inv, PInv, [Next]_vars,
           \A n \in Node : result'[n] = "Pruned" =>
             result[n] = "Pruned" \/ (phase = "Running" /\ n \in sched.pruned),
           phase' = "Running" => phase = "Running" /\ SamePruning(sched, sched')
    PROVE  PInv'
<1>1. wf' = wf /\ Off \subseteq Off' /\ LivePath' \subseteq LivePath
    BY OffGrows
<1>2. PrunedIsDead'
    BY <1>1 DEF PInv, PrunedIsDead, DeadEnds
<1>3. ASSUME phase' = "Running"
      PROVE  DeadEnds(sched)'
    BY <1>1, <1>3 DEF PInv, DeadEnds, SamePruning
<1> QED
    BY <1>2, <1>3 DEF PInv

\* A ready node that comes to its end, and may have pruned others.
LEMMA PrunedByEnd ==
    ASSUME Inv, PInv, [Next]_vars, NEW n \in Node, Lowest(n),
           NEW s \in Scheduling, NEW v \in Live \cup NotLive, v # "Pruned",
           Finish(s, n, v),
           s.pruned \cap LivePath' = {}, s.dead \subseteq Off',
           \A g \in s.rejected : {e \in wf.edge : e[1] = g} \subseteq Off'
    PROVE  PInv'
<1>1. wf' = wf /\ LivePath' \subseteq LivePath
    BY OffGrows
<1>2. result' = [result EXCEPT ![n] = v] /\ sched' = MarkDone(s, n, v \in Live)
    BY DEF Finish
<1>3. PrunedIsDead'
    BY <1>1, <1>2 DEF PInv, PrunedIsDead, Inv, TypeOK
<1>4. SamePruning(s, sched')
    BY <1>2, MarkDonePrunes
<1>5. DeadEnds(sched)'
    BY <1>1, <1>4 DEF DeadEnds, SamePruning
<1> QED
    BY <1>3, <1>5 DEF PInv

\* A branch: what only the other arm leads to is dead from now on.
LEMMA PrunedByBranch ==
    ASSUME Inv, PInv, [Next]_vars, NEW n \in Node, NEW a \in Arm, Branch(n, a)
    PROVE  PInv'
<1> DEFINE P == sched.pruned \cup BranchPruneSet(wf, n, a)
           arms == {<<n, t>> : t \in Untaken(wf, n, a)}
           D == sched.dead \cup arms
           s == [Taken(n) EXCEPT !.pruned = P, !.dead = D]
<1>1. /\ Lowest(n) /\ phase = "Running" /\ wf \in Workflow /\ sched \in Scheduling
      /\ result \in [Node -> Result]
    BY DEF Branch, Reached, Lowest, Draining, Executing, Inv, TypeOK
<1>2. /\ wf' = wf /\ Off \subseteq Off' /\ LivePath' \subseteq LivePath
      /\ DeadEnds(sched)
    BY <1>1, OffGrows DEF PInv
<1>3. a \in Live \cup NotLive /\ a # "Pruned"
    BY DEF Arm, Live
<1>4. /\ BranchPruneSet(wf, n, a) \subseteq Node
      /\ Untaken(wf, n, a) \subseteq Node
      /\ \A t \in Untaken(wf, n, a) : <<n, t>> \in wf.edge
    <2>1. \A b \in Arm : wf.arm[n][b] \subseteq Succ(wf, n)
        BY <1>1, WorkflowAssumption
    <2> QED
        BY <2>1 DEF Untaken, Arm, Succ, BranchPruneSet, Reach
<1>5. P \subseteq Node /\ D \subseteq Node \X Node
    BY <1>1, <1>4 DEF Scheduling
<1>6. s = [Taken(n) EXCEPT !.pruned = @ \cup BranchPruneSet(wf, n, a),
                           !.dead   = @ \cup {<<n, t>> : t \in Untaken(wf, n, a)}]
    BY <1>1 DEF Taken, Scheduling
<1>7. Finish(ExtendPrune(s), n, a)
    BY <1>6 DEF Branch
<1>8. result'[n] = a
    BY <1>1, <1>7 DEF Finish
<1>9. arms \subseteq Off'
    <2> SUFFICES ASSUME NEW t \in Untaken(wf, n, a)
                 PROVE  <<n, t>> \in Off'
        OBVIOUS
    <2>1. <<n, t>> \in wf.edge /\ t \in Untaken(wf, n, result'[n]) /\ result'[n] \in Arm
        BY <1>4, <1>8
    <2>2. <<n, t>> \in DeadEdges(wf, result')
        BY <2>1 DEF DeadEdges
    <2> QED
        BY <1>2, <2>2 DEF Off
<1>10. BranchPruneSet(wf, n, a) \cap LivePath' = {}
    <2>1. Reach(wf.edge \ Off', Entries(wf)) \subseteq Reach(wf.edge \ arms, Entries(wf))
        <3>1. wf.edge \ Off' \subseteq wf.edge \ arms
            BY <1>9
        <3> HIDE DEF arms
        <3> QED
            BY <3>1, ReachLess
    <2>2. BranchPruneSet(wf, n, a) \cap Reach(wf.edge \ arms, Entries(wf)) = {}
        BY DEF BranchPruneSet
    <2>3. LivePath' = Reach(wf.edge \ Off', Entries(wf))
        BY <1>2 DEF LivePath
    <2> QED
        BY <2>1, <2>2, <2>3
<1> HIDE DEF arms
<1>11. /\ P \cap LivePath' = {} /\ D \subseteq Off'
       /\ \A g \in sched.rejected : {e \in wf.edge : e[1] = g} \subseteq Off'
    BY <1>2, <1>9, <1>10 DEF DeadEnds
<1> HIDE DEF P, D
<1>12. /\ s \in Scheduling /\ s.pruned = P /\ s.dead = D
       /\ s.rejected = sched.rejected
    BY <1>1, <1>5 DEF Taken, Scheduling
<1> HIDE DEF s
<1>13. LivePath' = Reach(wf.edge \ Off', Entries(wf))
    BY <1>2 DEF LivePath
<1>14. /\ ExtendPrune(s) \in Scheduling
       /\ ExtendPrune(s).pruned \cap LivePath' = {}
       /\ ExtendPrune(s).dead = s.dead /\ ExtendPrune(s).rejected = s.rejected
    BY <1>1, <1>11, <1>12, <1>13, ExtendPruneDead, ExtendPruneType
<1> QED
    BY <1>1, <1>3, <1>7, <1>11, <1>12, <1>14, PrunedByEnd

\* A rejection: what only it leads to is dead from now on.
LEMMA PrunedByReject ==
    ASSUME Inv, PInv, [Next]_vars, NEW n \in Node, Lowest(n), Reject(n)
    PROVE  PInv'
<1> DEFINE R == sched.rejected \cup {n}
           H == sched.heard \ {n}
           s == [Taken(n) EXCEPT !.heard = H, !.rejected = R]
<1>1. /\ phase = "Running" /\ wf \in Workflow /\ sched \in Scheduling
      /\ result \in [Node -> Result]
    BY DEF Lowest, Draining, Executing, Inv, TypeOK
<1>2. /\ wf' = wf /\ Off \subseteq Off' /\ LivePath' \subseteq LivePath
      /\ DeadEnds(sched)
    BY <1>1, OffGrows DEF PInv
<1>3. R \subseteq Node /\ H \subseteq Node
    BY <1>1 DEF Scheduling
<1>4. s = [Taken(n) EXCEPT !.heard = @ \ {n}, !.rejected = @ \cup {n}]
    BY <1>1 DEF Taken, Scheduling
<1>5. Finish(ExtendPrune(s), n, "Rejected")
    BY <1>4 DEF Reject
<1>6. result'[n] = "Rejected"
    BY <1>1, <1>5 DEF Finish
<1>7. {e \in wf.edge : e[1] = n} \subseteq Off'
    BY <1>2, <1>6 DEF Off
<1>8. /\ sched.pruned \cap LivePath' = {} /\ sched.dead \subseteq Off'
      /\ \A g \in R : {e \in wf.edge : e[1] = g} \subseteq Off'
    BY <1>2, <1>7 DEF DeadEnds
<1> HIDE DEF R, H
<1>9. /\ s \in Scheduling /\ s.pruned = sched.pruned /\ s.dead = sched.dead
      /\ s.rejected = R
    BY <1>1, <1>3 DEF Taken, Scheduling
<1> HIDE DEF s
<1>10. LivePath' = Reach(wf.edge \ Off', Entries(wf))
    BY <1>2 DEF LivePath
<1>11. /\ ExtendPrune(s) \in Scheduling
       /\ ExtendPrune(s).pruned \cap LivePath' = {}
       /\ ExtendPrune(s).dead = s.dead /\ ExtendPrune(s).rejected = s.rejected
    BY <1>1, <1>8, <1>9, <1>10, ExtendPruneDead, ExtendPruneType
<1>12. "Rejected" \in Live \cup NotLive /\ "Rejected" # "Pruned"
    BY DEF NotLive
<1> QED
    BY <1>5, <1>8, <1>9, <1>11, <1>12, PrunedByEnd

\* A new call takes what the results say.
LEMMA PrunedRestored ==
    ASSUME wf \in Workflow, result \in [Node -> Result],
           decision \in [Node -> Verdict], PrunedIsDead
    PROVE  DeadEnds(Restored)
<1>1. PICK s : Restored = ExtendPrune(s) /\ PrunesAs(s)
    BY RestoredType
<1>2. LivePath = Reach(wf.edge \ Off, Entries(wf))
    BY DEF LivePath
<1>3. /\ s.pruned \cap LivePath = {} /\ s.dead \subseteq Off
      /\ \A g \in s.rejected : {e \in wf.edge : e[1] = g} \subseteq Off
    BY <1>1 DEF PrunesAs, PrunedIsDead, Off
<1>4. /\ Restored.pruned \cap LivePath = {}
      /\ Restored.dead = s.dead /\ Restored.rejected = s.rejected
    BY <1>1, <1>2, <1>3, ExtendPruneDead DEF PrunesAs
<1> QED
    BY <1>3, <1>4 DEF DeadEnds

\* A ready node that comes to its end and prunes nothing.
LEMMA PrunedByTaken ==
    ASSUME Inv, PInv, [Next]_vars, NEW n \in Node, Lowest(n),
           NEW s \in Scheduling, SamePruning(sched, s),
           NEW v, v = "Pruned" => n \in sched.pruned,
           Finish(s, n, v)
    PROVE  PInv'
<1>1. phase = "Running" /\ result \in [Node -> Result]
    BY DEF Lowest, Draining, Executing, Inv, TypeOK
<1>2. result' = [result EXCEPT ![n] = v] /\ sched' = MarkDone(s, n, v \in Live)
    BY DEF Finish
<1>3. SamePruning(s, sched')
    BY <1>2, MarkDonePrunes
<1>4. SamePruning(sched, sched')
    BY <1>3 DEF SamePruning
<1>5. \A m \in Node : result'[m] = "Pruned" => result[m] = "Pruned" \/ m \in sched.pruned
    BY <1>1, <1>2
<1> QED
    BY <1>1, <1>4, <1>5, PrunedKept

\* Every step of a call keeps what is pruned dead.
LEMMA NextPruned == Inv /\ PInv /\ [Next]_vars => PInv'
<1> SUFFICES ASSUME Inv, PInv, [Next]_vars PROVE PInv'
    OBVIOUS
<1>0. sched \in Scheduling /\ result \in [Node -> Result]
    BY DEF Inv, TypeOK
<1>1. CASE UNCHANGED vars \/ Terminated
    <2>1. UNCHANGED <<result, phase, sched>>
        BY <1>1 DEF vars, Terminated
    <2> QED
        BY <2>1, PrunedKept DEF SamePruning
<1>2. CASE StartPass
    <2>1. /\ sched' = Restored /\ UNCHANGED <<wf, result, lost>>
          /\ wf \in Workflow /\ decision \in [Node -> Verdict]
        BY <1>2 DEF StartPass, Inv, TypeOK
    <2>2. PrunedIsDead /\ LivePath' = LivePath /\ Off' = Off
        BY <2>1 DEF PInv, LivePath, Off
    <2>3. DeadEnds(Restored)
        BY <1>0, <2>1, <2>2, PrunedRestored
    <2> QED
        BY <2>1, <2>2, <2>3 DEF PInv, PrunedIsDead, DeadEnds
<1>3. CASE \/ DrainEnds \/ Await \/ RequestPause \/ RequestStop
           \/ PollDecisions \/ Teardown
    <2>1. phase = "Running" /\ UNCHANGED <<result, phase>>
        BY <1>3 DEF DrainEnds, Await, RequestPause, RequestStop, PollDecisions,
                    Teardown, Draining, Checking, Awaiting, Executing
    <2>2. SamePruning(sched, sched')
        BY <1>0, <1>3 DEF DrainEnds, Await, RequestPause, RequestStop, PollDecisions,
                          Teardown, Scheduling, SamePruning
    <2> QED
        BY <2>1, <2>2, PrunedKept
<1>4. CASE \/ TornDown \/ EndPass \/ Crash
           \/ \E n \in Node : RenderFails(n) \/ CollectFailed(n)
    <2>1. phase' # "Running" /\ UNCHANGED result
        BY <1>4 DEF TornDown, EndPass, Crash, RenderFails, CollectFailed, EndAs
    <2> QED
        BY <2>1, PrunedKept
<1>5. ASSUME NEW n \in Node, Decide(n)
      PROVE  PInv'
    BY <1>5, PrunedKept DEF Decide, SamePruning
<1>6. ASSUME NEW n \in Node, Work(n)
      PROVE  PInv'
    <2>1. phase = "Running" /\ UNCHANGED <<result, phase>>
        BY <1>6 DEF Work, Executing
    <2>2. SamePruning(sched, sched')
        BY <1>0, <1>6 DEF Work, Scheduling, SamePruning
    <2> QED
        BY <2>1, <2>2, PrunedKept
<1>7. ASSUME NEW j \in Node, DrainJoin(j)
      PROVE  PInv'
    <2>1. phase = "Running" /\ UNCHANGED phase
        BY <1>7 DEF DrainJoin, Executing
    <2>2. \A m \in Node : result'[m] = "Pruned" => result[m] = "Pruned"
        BY <1>0, <1>7 DEF DrainJoin
    <2>3. SamePruning(sched, sched')
        <3>1. CASE sched' = [sched EXCEPT !.todo = @ \ {j}]
            BY <1>0, <3>1 DEF Scheduling, SamePruning
        <3>2. ASSUME NEW todo \in SUBSET Node, NEW resolved \in SUBSET Node,
                     NEW aborted \in SUBSET Node, NEW moot \in SUBSET Node,
                     NEW ready \in SUBSET Node,
                     sched' = MarkDone([sched EXCEPT !.todo = todo,
                                          !.resolved = resolved, !.aborted = aborted,
                                          !.cancelled = moot, !.ready = ready], j, TRUE)
              PROVE  SamePruning(sched, sched')
            <4> DEFINE s == [sched EXCEPT !.todo = todo, !.resolved = resolved,
                               !.aborted = aborted, !.cancelled = moot, !.ready = ready]
            <4>1. s \in Scheduling /\ SamePruning(sched, s)
                BY <1>0 DEF Scheduling, SamePruning
            <4>2. sched' = MarkDone(s, j, TRUE)
                BY <3>2
            <4> HIDE DEF s
            <4>3. SamePruning(s, sched')
                BY <4>1, <4>2, MarkDonePrunes
            <4> QED
                BY <4>1, <4>3 DEF SamePruning
        <3> DEFINE cut     == Losers(wf, j, sched.arrived[j]) \ sched.done
                   handles == InFlight(sched) \ sched.aborted
        <3>3. CASE sched' = MarkDone([sched EXCEPT
                                        !.todo      = @ \ {j},
                                        !.resolved  = @ \cup {j},
                                        !.aborted   = @ \cup (cut \cap handles),
                                        !.cancelled = @ \cup (cut \ handles),
                                        !.ready     = @ \ (cut \ handles)], j, TRUE)
            <4> DEFINE todo     == sched.todo \ {j}
                       resolved == sched.resolved \cup {j}
                       aborted  == sched.aborted \cup (cut \cap handles)
                       moot     == sched.cancelled \cup (cut \ handles)
                       ready    == sched.ready \ (cut \ handles)
            <4>1. cut \subseteq Node
                BY LosersClosed DEF Inv, TypeOK
            <4> HIDE DEF cut
            <4>2. /\ todo \in SUBSET Node /\ resolved \in SUBSET Node
                  /\ aborted \in SUBSET Node /\ moot \in SUBSET Node
                  /\ ready \in SUBSET Node
                BY <1>0, <4>1 DEF Scheduling
            <4>3. sched' = MarkDone([sched EXCEPT !.todo = todo,
                                       !.resolved = resolved, !.aborted = aborted,
                                       !.cancelled = moot, !.ready = ready], j, TRUE)
                BY <1>0, <3>3 DEF Scheduling
            <4> HIDE DEF todo, resolved, aborted, moot, ready
            <4> QED
                BY <3>2, <4>2, <4>3
        <3> QED
            BY <1>7, <3>1, <3>3 DEF DrainJoin
    <2> QED
        BY <2>1, <2>2, <2>3, PrunedKept
<1>8. ASSUME NEW n \in Node,
             SkipWrittenOff(n) \/ PauseBefore(n) \/ SkipWhen(n) \/ Split(n) \/ Dispatch(n)
      PROVE  PInv'
    <2>1. Lowest(n) /\ phase = "Running"
        BY <1>8 DEF SkipWrittenOff, PauseBefore, SkipWhen, Split, Dispatch, Reached,
                    Lowest, Draining, Executing
    <2>2. Taken(n) \in Scheduling /\ SamePruning(sched, Taken(n))
        BY <1>0 DEF Taken, Scheduling, SamePruning
    <2>3. CASE SkipWrittenOff(n)
        <3> DEFINE v == CASE n \in sched.pruned -> "Pruned"
                          [] n \in sched.cancelled \ sched.pruned -> "Cancelled"
                          [] OTHER -> "Skipped"
        <3>1. Finish(Taken(n), n, v) /\ (v = "Pruned" => n \in sched.pruned)
            BY <2>3 DEF SkipWrittenOff
        <3> HIDE DEF v
        <3> QED
            BY <2>1, <2>2, <3>1, PrunedByTaken
    <2>4. CASE SkipWhen(n)
        BY <2>1, <2>2, <2>4, PrunedByTaken DEF SkipWhen
    <2>5. CASE Split(n)
        BY <2>1, <2>2, <2>5, PrunedByTaken DEF Split
    <2>6. CASE PauseBefore(n) \/ Dispatch(n)
        <3>1. UNCHANGED <<result, phase>>
            BY <2>6 DEF PauseBefore, Dispatch
        <3>2. SamePruning(sched, sched')
            BY <1>0, <2>6 DEF PauseBefore, Dispatch, Taken, Scheduling, SamePruning
        <3> QED
            BY <2>1, <3>1, <3>2, PrunedKept
    <2> QED
        BY <1>8, <2>3, <2>4, <2>5, <2>6
<1>9. ASSUME NEW n \in Node, NEW a \in Arm, Branch(n, a)
      PROVE  PInv'
    BY <1>9, PrunedByBranch
<1>10. ASSUME NEW n \in Node, Gate(n)
       PROVE  PInv'
    <2>1. Lowest(n) /\ phase = "Running"
        BY <1>10 DEF Gate, Reached, Lowest, Draining, Executing
    <2> DEFINE s == [Taken(n) EXCEPT !.heard = @ \ {n}]
    <2>2. /\ Taken(n) \in Scheduling /\ SamePruning(sched, Taken(n))
          /\ s \in Scheduling /\ SamePruning(sched, s)
        BY <1>0 DEF Taken, Scheduling, SamePruning
    <2>3. CASE Finish(s, n, "Approved") \/ Finish(Taken(n), n, "Approved")
        <3> HIDE DEF s
        <3> QED
            BY <2>1, <2>2, <2>3, PrunedByTaken
    <2>4. CASE Reject(n)
        BY <2>1, <2>4, PrunedByReject
    <2>5. CASE /\ sched' = [Taken(n) EXCEPT !.parked = @ \cup {n}]
               /\ UNCHANGED <<wf, result, decision, awaiting, phase, budget, lost>>
        <3>1. SamePruning(sched, sched')
            BY <1>0, <2>5 DEF Taken, Scheduling, SamePruning
        <3> QED
            BY <2>1, <2>5, <3>1, PrunedKept
    <2> QED
        BY <1>10, <2>3, <2>4, <2>5 DEF Gate
<1>11. ASSUME NEW n \in Node,
              Collect(n) \/ CollectPaused(n) \/ Reap(n) \/ TeardownOne(n)
       PROVE  PInv'
    <2>1. phase = "Running" /\ UNCHANGED phase
        BY <1>11 DEF Collect, CollectPaused, Reap, TeardownOne, Awaiting, Executing, Finish
    <2>2. \A m \in Node : result'[m] = "Pruned" => result[m] = "Pruned"
        BY <1>0, <1>11 DEF Collect, CollectPaused, Reap, TeardownOne, Finish
    <2>3. Ended(n) \in Scheduling /\ SamePruning(sched, Ended(n))
        <3>1. Ended(n) \in Scheduling
            BY EndedEffect
        <3>2. SamePruning(sched, Ended(n))
            BY <1>0 DEF Ended, Scheduling, SamePruning
        <3> QED
            BY <3>1, <3>2
    <2>4. SamePruning(sched, sched')
        <3>1. CASE \E live : sched' = MarkDone(Ended(n), n, live)
            <4>1. SamePruning(Ended(n), sched')
                BY <2>3, <3>1, MarkDonePrunes
            <4> QED
                BY <2>3, <4>1 DEF SamePruning
        <3>2. CASE sched' = Ended(n)
            BY <2>3, <3>2
        <3>3. CASE CollectPaused(n)
            BY <2>3, <3>3 DEF CollectPaused, Scheduling, SamePruning
        <3>4. CASE TeardownOne(n)
            BY <1>0, <3>4 DEF TeardownOne, Scheduling, SamePruning
        <3> QED
            BY <1>11, <3>1, <3>2, <3>3, <3>4 DEF Collect, Reap, Finish
    <2> QED
        BY <2>1, <2>2, <2>4, PrunedKept
<1> QED
    BY <1>1, <1>2, <1>3, <1>4, <1>5, <1>6, <1>7, <1>8, <1>9, <1>10, <1>11
       DEF Next, SchedulerStep, DrainStep, AwaitStep

\* Whatever is pruned, by a branch or behind a rejected gate, is on no live path,
\* in any workflow and over any number of interruptions.
THEOREM PrunedIsDeadHolds == Spec => []PrunedIsDead
<1>1. Init => PInv
    BY DEF Init, PInv, PrunedIsDead
<1>2. Inv /\ PInv /\ [Next]_vars => PInv'
    BY NextPruned
<1>3. PInv => PrunedIsDead
    BY DEF PInv
<1> QED
    BY <1>1, <1>2, <1>3, InvHolds, PTL DEF Spec

------------------------------------------------------------------------------
(* Nothing is forgotten. *)

\* What nothing is open before is in hand: a node that is not done is ready,
\* parked or in flight, and a join that all its paths have reached is in the
\* worklist.
InHand(w, s, l) ==
    /\ \A m \in Node \ (l \cup Joins(w) \cup s.done) :
         Pred(w, m) \subseteq s.done => m \in Pending(s)
    /\ \A j \in Joins(w) \ (l \cup s.done) :
         /\ s.accounted[j] >= Cardinality(Pred(w, j) \cap s.done)
         /\ s.accounted[j] >= Cardinality(Pred(w, j)) => j \in s.todo

\* The worklist is empty before the scheduler turns from the ready nodes, and
\* none of these is left but for a pause or a stop; only a stop tears tasks down.
Turns(s) ==
    /\ s.pc # "drain" => s.todo = {}
    /\ s.pc \in {"check", "await"} => s.ready = {} \/ s.noted \/ s.sig
    /\ s.pc = "teardown" => s.sig

\* A pause or a stop leaves it to the resume.
Whole(w, s, l) == Turns(s) /\ (s.noted \/ s.sig \/ InHand(w, s, l))

CInv == DoneIsComplete /\ (phase = "Running" => Whole(wf, sched, lost))

\* Nodes that move on, and joins that leave the worklist when they are done.
LEMMA HandedOn ==
    ASSUME NEW w, NEW s, NEW t, NEW l, NEW k, InHand(w, s, l), SameBooks(s, t),
           l \subseteq k, Pending(s) \ k \subseteq Pending(t),
           s.todo \subseteq t.todo \cup s.done
    PROVE  InHand(w, t, k)
BY DEF InHand, SameBooks

\* The end of a node takes up what it was the last to keep.
LEMMA MarkDoneInHand ==
    ASSUME wf \in Workflow, NEW s \in Scheduling, NEW r,
           NEW l \in SUBSET Node, NEW n \in Node, NEW live \in BOOLEAN,
           Degrees(wf, s, l),
           s.resolved = Joins(wf) \cap (s.done \cup {n}),
           \A m \in Node \ (l \cup Joins(wf) \cup s.done \cup {n}) :
             Pred(wf, m) \subseteq s.done => m \in Pending(s),
           \A j \in Joins(wf) \ (l \cup s.done \cup {n}) :
             /\ s.accounted[j] >= Cardinality(Pred(wf, j) \cap s.done)
             /\ s.accounted[j] >= Cardinality(Pred(wf, j)) => j \in s.todo
    PROVE  InHand(wf, MarkDone(s, n, live), l)
<1> DEFINE t == MarkDone(s, n, live)
           open == (Succ(wf, n) \cap Joins(wf)) \ s.resolved
<1>1. /\ t.done = s.done \cup {n}
      /\ t.ready = s.ready \cup Unlocked(s, n)
      /\ \A j \in Node :
           t.accounted[j] = IF j \in open THEN s.accounted[j] + 1 ELSE s.accounted[j]
      /\ t.todo = s.todo \cup (open \cap Satisfied(t.arrived, t.accounted))
      /\ t.parked = s.parked /\ t.task = s.task
    <2>1. MarkedDone(s, t, n, live)
        BY MarkDoneEffect
    <2> QED
        BY <2>1 DEF MarkedDone
<1> HIDE DEF t
<1>2. /\ \A m \in Node : Succ(wf, m) \subseteq Node /\ Pred(wf, m) \subseteq Node
      /\ \A k, m \in Node : m \in Succ(wf, k) <=> k \in Pred(wf, m)
      /\ Joins(wf) \subseteq Node
    BY GraphType
<1>3. Pending(s) \subseteq Pending(t) /\ t.ready \subseteq Pending(t)
    BY <1>1 DEF Pending, InFlight
<1>4. ASSUME NEW m \in Node \ (l \cup Joins(wf) \cup t.done),
             Pred(wf, m) \subseteq t.done
      PROVE  m \in Pending(t)
    <2>1. CASE Pred(wf, m) \subseteq s.done
        BY <1>1, <1>3, <1>4, <2>1
    <2>2. CASE ~(Pred(wf, m) \subseteq s.done)
        <3>1. Pred(wf, m) \ s.done = {n}
            BY <1>1, <1>4, <2>2
        <3>2. Cardinality(Pred(wf, m) \ s.done) = 1
            BY <3>1, FS_Singleton
        <3>3. s.indegree[m] = 1
            BY <1>4, <3>2 DEF Degrees
        <3>4. m \in Succ(wf, n) \ Joins(wf)
            BY <1>2, <1>4, <3>1
        <3>5. m \in Unlocked(s, n)
            BY <3>3, <3>4 DEF Unlocked
        <3> QED
            BY <1>1, <1>3, <3>5
    <2> QED
        BY <2>1, <2>2
<1>5. ASSUME NEW j \in Joins(wf) \ (l \cup t.done)
      PROVE  /\ t.accounted[j] >= Cardinality(Pred(wf, j) \cap t.done)
             /\ t.accounted[j] >= Cardinality(Pred(wf, j)) => j \in t.todo
    <2>1. /\ j \in Node /\ j # n /\ j \notin s.resolved
          /\ s.accounted[j] >= Cardinality(Pred(wf, j) \cap s.done)
          /\ s.accounted[j] >= Cardinality(Pred(wf, j)) => j \in s.todo
        BY <1>1, <1>2, <1>5
    <2>2. CASE j \notin open
        <3>1. n \notin Pred(wf, j)
            BY <1>2, <1>5, <2>1, <2>2
        <3>2. Pred(wf, j) \cap t.done = Pred(wf, j) \cap s.done
            BY <1>1, <3>1
        <3> QED
            BY <1>1, <2>1, <2>2, <3>2
    <2>3. CASE j \in open
        <3>1. /\ s.accounted[j] \in Nat /\ t.accounted[j] = s.accounted[j] + 1
              /\ Cardinality(Pred(wf, j) \cap s.done) \in Nat
            BY <1>1, <1>2, <2>1, <2>3, Countable DEF Scheduling
        <3>2. Cardinality(Pred(wf, j) \cap t.done)
                <= Cardinality(Pred(wf, j) \cap s.done) + 1
            <4>1. Pred(wf, j) \cap s.done \in SUBSET Node
                BY <1>2, <2>1
            <4>2. CASE n \in s.done \/ n \notin Pred(wf, j)
                <5>1. Pred(wf, j) \cap t.done = Pred(wf, j) \cap s.done
                    BY <1>1, <4>2
                <5>2. Cardinality(Pred(wf, j) \cap t.done)
                        = Cardinality(Pred(wf, j) \cap s.done)
                    BY <5>1, Zenon
                <5> QED
                    BY <3>1, <5>2
            <4>3. CASE n \in Pred(wf, j) \ s.done
                <5>1. Pred(wf, j) \cap t.done = (Pred(wf, j) \cap s.done) \cup {n}
                    BY <1>1, <4>3
                <5>2. Cardinality((Pred(wf, j) \cap s.done) \cup {n})
                        = Cardinality(Pred(wf, j) \cap s.done) + 1
                    BY <4>1, <4>3, CountMore
                <5>3. Cardinality(Pred(wf, j) \cap t.done)
                        = Cardinality(Pred(wf, j) \cap s.done) + 1
                    BY <5>1, <5>2, Zenon
                <5> QED
                    BY <3>1, <5>3
            <4> QED
                BY <4>2, <4>3
        <3>3. Cardinality(Pred(wf, j) \cap t.done) \in Nat
            BY <1>2, <2>1, Countable
        <3>4. t.accounted[j] >= Cardinality(Pred(wf, j)) => j \in t.todo
            BY <1>1, <1>5, <2>3 DEF Satisfied
        <3> QED
            BY <2>1, <3>1, <3>2, <3>3, <3>4
    <2> QED
        BY <2>2, <2>3
<1> QED
    BY <1>4, <1>5 DEF InHand, t

\* What a new call starts from has everything in hand.
LEMMA RestoredInHand ==
    ASSUME wf \in Workflow, result \in [Node -> Result],
           decision \in [Node -> Verdict]
    PROVE  Whole(wf, Restored, lost)
<1> DEFINE s == Restored
<1>1. s \in Scheduling /\ RestoredAs(s)
    BY RestoredType
<1> HIDE DEF s
<1>2. /\ \A m \in Node : Pred(wf, m) \subseteq Node
      /\ Joins(wf) \subseteq Node
    BY GraphType
<1>3. ASSUME NEW m \in Node \ (Joins(wf) \cup s.done), Pred(wf, m) \subseteq s.done
      PROVE  m \in s.ready
    <2>1. Pred(wf, m) \ s.done = {}
        BY <1>3
    <2>2. s.indegree[m] = Cardinality(Pred(wf, m) \ s.done)
        BY <1>1, <1>3 DEF RestoredAs, OpenDegree
    <2>3. s.indegree[m] = 0
        BY <2>1, <2>2, FS_EmptySet
    <2> QED
        BY <1>1, <1>3, <2>3 DEF RestoredAs
<1>4. ASSUME NEW j \in Joins(wf) \ s.done
      PROVE  /\ s.accounted[j] >= Cardinality(Pred(wf, j) \cap s.done)
             /\ s.accounted[j] >= Cardinality(Pred(wf, j)) => j \in s.todo
    <2>1. s.accounted[j] = Cardinality(Pred(wf, j) \cap s.done)
        BY <1>1, <1>2, <1>4 DEF RestoredAs, Inbound
    <2>2. Cardinality(Pred(wf, j) \cap s.done) \in Nat
        BY <1>2, <1>4, Countable
    <2>3. s.accounted[j] >= Cardinality(Pred(wf, j)) => j \in s.todo
        BY <1>1, <1>4 DEF RestoredAs, Satisfied
    <2> QED
        BY <2>1, <2>2, <2>3
<1>5. InHand(wf, s, lost)
    BY <1>3, <1>4 DEF InHand, Pending
<1>6. Turns(s)
    BY <1>1 DEF Turns, RestoredAs
<1> QED
    BY <1>5, <1>6 DEF Whole, s

\* What is left alone when a node ends.
LEMMA MarkDoneTurns ==
    ASSUME NEW s \in Scheduling, NEW n, NEW live
    PROVE  LET t == MarkDone(s, n, live)
           IN  t.pc = s.pc /\ t.noted = s.noted /\ t.sig = s.sig
BY DEF MarkDone, Scheduling

\* A node that comes to its end while ready nodes are drained.
LEMMA WholeAfter ==
    ASSUME wf \in Workflow, NEW s \in Scheduling,
           NEW l \in SUBSET Node, NEW n \in Node, NEW live \in BOOLEAN,
           s.pc = "drain",
           s.noted \/ s.sig \/
             /\ Degrees(wf, s, l)
             /\ s.resolved = Joins(wf) \cap (s.done \cup {n})
             /\ \A m \in Node \ (l \cup Joins(wf) \cup s.done \cup {n}) :
                  Pred(wf, m) \subseteq s.done => m \in Pending(s)
             /\ \A j \in Joins(wf) \ (l \cup s.done \cup {n}) :
                  /\ s.accounted[j] >= Cardinality(Pred(wf, j) \cap s.done)
                  /\ s.accounted[j] >= Cardinality(Pred(wf, j)) => j \in s.todo
    PROVE  Whole(wf, MarkDone(s, n, live), l)
<1> DEFINE t == MarkDone(s, n, live)
<1>1. t.pc = "drain" /\ t.noted = s.noted /\ t.sig = s.sig
    BY MarkDoneTurns
<1>2. t.noted \/ t.sig \/ InHand(wf, t, l)
    <2>1. CASE s.noted \/ s.sig
        BY <1>1, <2>1
    <2>2. CASE ~(s.noted \/ s.sig)
        <3> HIDE DEF t
        <3> QED
            BY <2>2, MarkDoneInHand DEF t
    <2> QED
        BY <2>1, <2>2
<1> HIDE DEF t
<1> QED
    BY <1>1, <1>2 DEF Whole, Turns, t

\* A ready node that comes to its end on the spot.
LEMMA WholeByTaken ==
    ASSUME Inv, CInv, NEW n \in Node, Lowest(n), NEW s, TakenFrom(s, n),
           s.noted = sched.noted, s.sig = sched.sig,
           NEW v, Finish(s, n, v)
    PROVE  CInv'
<1>1. /\ phase = "Running" /\ sched.pc = "drain" /\ wf \in Workflow
      /\ lost \in SUBSET Node
      /\ Degrees(wf, sched, lost) /\ ResolvedWhenDone(wf, sched)
      /\ n \notin Joins(wf) /\ Whole(wf, sched, lost)
    BY LowestReached DEF Inv, TypeOK, Sound, CInv
<1> DEFINE live == v \in Live
<1>2. /\ sched' = MarkDone(s, n, live) /\ live \in BOOLEAN
      /\ wf' = wf /\ phase' = phase /\ lost' = lost
    BY DEF Finish
<1> HIDE DEF live
<1>3. /\ s \in Scheduling /\ s.done = sched.done /\ s.indegree = sched.indegree
      /\ s.accounted = sched.accounted /\ s.resolved = sched.resolved
      /\ s.todo = sched.todo /\ s.pc = "drain"
      /\ Pending(sched) \ {n} \subseteq Pending(s)
    BY <1>1 DEF TakenFrom, SameBooks, Pending, InFlight
<1>4. s.resolved = Joins(wf) \cap (s.done \cup {n}) /\ Degrees(wf, s, lost)
    BY <1>1, <1>3 DEF ResolvedWhenDone, Degrees
<1>5. Whole(wf, MarkDone(s, n, live), lost)
    <2>1. CASE sched.noted \/ sched.sig
        BY <1>1, <1>2, <1>3, <2>1, WholeAfter
    <2>2. CASE InHand(wf, sched, lost)
        <3>1. \A m \in Node \ (lost \cup Joins(wf) \cup s.done \cup {n}) :
                Pred(wf, m) \subseteq s.done => m \in Pending(s)
            BY <1>3, <2>2 DEF InHand
        <3>2. \A j \in Joins(wf) \ (lost \cup s.done \cup {n}) :
                /\ s.accounted[j] >= Cardinality(Pred(wf, j) \cap s.done)
                /\ s.accounted[j] >= Cardinality(Pred(wf, j)) => j \in s.todo
            BY <1>3, <2>2 DEF InHand
        <3> QED
            BY <1>1, <1>2, <1>3, <1>4, <3>1, <3>2, WholeAfter
    <2> QED
        BY <1>1, <2>1, <2>2 DEF Whole
<1>6. phase' # "Done"
    BY <1>1, <1>2
<1> QED
    BY <1>2, <1>5, <1>6 DEF CInv, DoneIsComplete

\* A step that gives no result, and only moves nodes on.
LEMMA WholeByMove ==
    ASSUME CInv, phase = "Running", UNCHANGED <<wf, phase, lost>>,
           sched.noted => sched'.noted, sched.sig => sched'.sig,
           SameBooks(sched, sched'),
           ~sched'.noted /\ ~sched'.sig =>
             /\ Pending(sched) \ lost \subseteq Pending(sched')
             /\ sched.todo \subseteq sched'.todo \cup sched.done,
           Turns(sched')
    PROVE  CInv'
<1>1. Whole(wf, sched, lost)
    BY DEF CInv
<1> DEFINE t == sched'
<1>2. Turns(t) /\ (t.noted \/ t.sig \/ InHand(wf, t, lost))
    BY <1>1, HandedOn DEF Whole
<1> HIDE DEF t
<1>3. Whole(wf, t, lost)
    BY <1>2 DEF Whole
<1> QED
    BY <1>3 DEF CInv, DoneIsComplete, t

\* The ready nodes, one by one.
LEMMA WholeByDrain ==
    ASSUME Inv, CInv, NEW n \in Node,
           \/ SkipWrittenOff(n) \/ PauseBefore(n) \/ SkipWhen(n) \/ Gate(n)
           \/ Split(n) \/ Dispatch(n) \/ \E a \in Arm : Branch(n, a)
    PROVE  CInv'
<1>0. /\ Lowest(n) /\ phase = "Running" /\ sched \in Scheduling /\ wf \in Workflow
      /\ sched.pc = "drain" /\ n \in sched.ready
    BY DEF SkipWrittenOff, PauseBefore, SkipWhen, Gate, Split, Dispatch, Branch, Reached,
           Lowest, Draining, Executing, Inv, TypeOK
<1>1. TakenFrom(Taken(n), n) /\ Taken(n).noted = sched.noted /\ Taken(n).sig = sched.sig
    BY <1>0 DEF TakenFrom, SameBooks, Taken, Scheduling
<1>2. CASE \E v : Finish(Taken(n), n, v)
    BY <1>0, <1>1, <1>2, WholeByTaken
<1>3. ASSUME NEW s, TakenFrom(s, n), s.noted = sched.noted, s.sig = sched.sig
      PROVE  LET t == ExtendPrune(s)
             IN  TakenFrom(t, n) /\ t.noted = sched.noted /\ t.sig = sched.sig
    <2>1. s \in Scheduling
        BY <1>3 DEF TakenFrom
    <2>2. PICK P \in SUBSET Node : ExtendPrune(s) = [s EXCEPT !.pruned = P]
        BY <1>0, <2>1, ExtendPruneType
    <2>3. ExtendPrune(s).noted = s.noted /\ ExtendPrune(s).sig = s.sig
        BY <2>1, <2>2 DEF Scheduling
    <2>4. TakenFrom(ExtendPrune(s), n)
        BY <1>3, ExtendPruneTaken
    <2> QED
        BY <1>3, <2>3, <2>4
<1>4. ASSUME NEW a \in Arm, Branch(n, a)
      PROVE  CInv'
    <2> DEFINE P == sched.pruned \cup BranchPruneSet(wf, n, a)
               D == sched.dead \cup {<<n, t>> : t \in Untaken(wf, n, a)}
               s == [Taken(n) EXCEPT !.pruned = P, !.dead = D]
    <2>1. P \subseteq Node /\ D \subseteq Node \X Node
        <3>1. Untaken(wf, n, a) \subseteq Node
            BY <1>0, WorkflowAssumption DEF Graph, Untaken, Arm
        <3> QED
            BY <1>0, <3>1, PruneType DEF Scheduling
    <2>2. s = [Taken(n) EXCEPT !.pruned = @ \cup BranchPruneSet(wf, n, a),
                               !.dead   = @ \cup {<<n, t>> : t \in Untaken(wf, n, a)}]
        BY <1>0 DEF Taken, Scheduling
    <2>3. Finish(ExtendPrune(s), n, a)
        BY <1>4, <2>2 DEF Branch
    <2> HIDE DEF P, D
    <2>4. TakenFrom(s, n) /\ s.noted = sched.noted /\ s.sig = sched.sig
        BY <1>0, <2>1 DEF TakenFrom, SameBooks, Taken, Scheduling
    <2> HIDE DEF s
    <2> QED
        BY <1>0, <1>3, <2>3, <2>4, WholeByTaken
<1>5. CASE Gate(n)
    <2> DEFINE H == sched.heard \ {n}
               R == sched.rejected \cup {n}
               s == [Taken(n) EXCEPT !.heard = H]
               t == [Taken(n) EXCEPT !.heard = H, !.rejected = R]
    <2>1. H \subseteq Node /\ R \subseteq Node
        BY <1>0 DEF Scheduling
    <2>2. /\ s = [Taken(n) EXCEPT !.heard = @ \ {n}]
          /\ t = [Taken(n) EXCEPT !.heard = @ \ {n}, !.rejected = @ \cup {n}]
        BY <1>0 DEF Taken, Scheduling
    <2> HIDE DEF H, R
    <2>3. /\ TakenFrom(s, n) /\ s.noted = sched.noted /\ s.sig = sched.sig
          /\ TakenFrom(t, n) /\ t.noted = sched.noted /\ t.sig = sched.sig
        BY <1>0, <2>1 DEF TakenFrom, SameBooks, Taken, Scheduling
    <2>4. CASE Finish(s, n, "Approved")
        <3> HIDE DEF s
        <3> QED
            BY <1>0, <2>3, <2>4, WholeByTaken
    <2>5. CASE Reject(n)
        <3>1. Finish(ExtendPrune(t), n, "Rejected")
            BY <2>2, <2>5 DEF Reject
        <3> HIDE DEF t
        <3> QED
            BY <1>0, <1>3, <2>3, <3>1, WholeByTaken
    <2>6. CASE Finish(Taken(n), n, "Approved")
        BY <1>2, <2>6
    <2>7. CASE /\ sched' = [Taken(n) EXCEPT !.parked = @ \cup {n}]
               /\ UNCHANGED <<wf, result, decision, awaiting, phase, budget, lost>>
        <3> DEFINE K == sched.parked \cup {n}
        <3>1. K \subseteq Node /\ sched' = [Taken(n) EXCEPT !.parked = K]
            BY <1>0, <2>7 DEF Taken, Scheduling
        <3>2. n \in K /\ sched.parked \subseteq K
            OBVIOUS
        <3> HIDE DEF K
        <3>3. /\ SameBooks(sched, sched') /\ sched'.noted = sched.noted
              /\ sched'.sig = sched.sig /\ sched'.pc = sched.pc
              /\ sched'.todo = sched.todo /\ sched'.ready = sched.ready \ {n}
              /\ sched'.parked = K /\ sched'.task = sched.task
            BY <1>0, <3>1 DEF SameBooks, Taken, Scheduling
        <3>4. Pending(sched) \subseteq Pending(sched')
            BY <3>2, <3>3 DEF Pending, InFlight
        <3>5. Turns(sched')
            BY <1>0, <3>3 DEF Turns
        <3> QED
            BY <1>0, <2>7, <3>3, <3>4, <3>5, WholeByMove
    <2> QED
        BY <1>5, <2>2, <2>4, <2>5, <2>6, <2>7 DEF Gate
<1>6. CASE Dispatch(n)
    <2> DEFINE T == [sched.task EXCEPT ![n] = "Running"]
    <2>1. T \in [Node -> {"None", "Running", "Ran", "Paused", "Failed"}]
        BY <1>0 DEF Scheduling
    <2>2. sched' = [Taken(n) EXCEPT !.task = T]
        BY <1>0, <1>6 DEF Dispatch, Taken, Scheduling
    <2>3. InFlight(sched) \cup {n} = {m \in Node : T[m] # "None"}
        BY <1>0 DEF InFlight, Scheduling
    <2> HIDE DEF T
    <2>4. /\ SameBooks(sched, sched') /\ sched'.noted = sched.noted
          /\ sched'.sig = sched.sig /\ sched'.pc = sched.pc
          /\ sched'.todo = sched.todo /\ sched'.ready = sched.ready \ {n}
          /\ sched'.parked = sched.parked /\ sched'.task = T
        BY <1>0, <2>1, <2>2 DEF SameBooks, Taken, Scheduling
    <2>5. Pending(sched) \subseteq Pending(sched')
        <3>1. InFlight(sched') = InFlight(sched) \cup {n}
            BY <2>3, <2>4 DEF InFlight
        <3> QED
            BY <2>4, <3>1 DEF Pending
    <2>6. Turns(sched')
        BY <1>0, <2>4 DEF Turns
    <2>7. UNCHANGED <<wf, phase, lost>>
        BY <1>6 DEF Dispatch
    <2> QED
        BY <1>0, <2>4, <2>5, <2>6, <2>7, WholeByMove
<1>7. CASE PauseBefore(n)
    <2>1. /\ sched.todo = {} /\ UNCHANGED <<wf, phase, lost>>
          /\ sched' = [Taken(n) EXCEPT !.noted = TRUE, !.pc = "check"]
        BY <1>0, <1>7 DEF PauseBefore, Lowest, Draining
    <2>2. /\ SameBooks(sched, sched') /\ sched'.noted = TRUE
          /\ sched'.sig = sched.sig /\ sched'.pc = "check" /\ sched'.todo = {}
        BY <1>0, <2>1 DEF SameBooks, Taken, Scheduling
    <2>3. Turns(sched')
        BY <2>2 DEF Turns
    <2> QED
        BY <1>0, <2>1, <2>2, <2>3, WholeByMove
<1>8. CASE SkipWrittenOff(n) \/ SkipWhen(n) \/ Split(n)
    <2>1. \E v : Finish(Taken(n), n, v)
        BY <1>8 DEF SkipWrittenOff, SkipWhen, Split
    <2> QED
        BY <1>2, <2>1
<1> QED
    BY <1>4, <1>5, <1>6, <1>7, <1>8

\* A join of the worklist.
LEMMA WholeByJoin ==
    ASSUME Inv, CInv, NEW j \in Node, DrainJoin(j)
    PROVE  CInv'
<1> DEFINE cut      == Losers(wf, j, sched.arrived[j]) \ sched.done
           handles  == InFlight(sched) \ sched.aborted
           todo     == sched.todo \ {j}
           resolved == sched.resolved \cup {j}
           aborted  == sched.aborted \cup (cut \cap handles)
           moot     == sched.cancelled \cup (cut \ handles)
           ready    == sched.ready \ (cut \ handles)
           s == [sched EXCEPT !.todo = todo, !.resolved = resolved,
                              !.aborted = aborted, !.cancelled = moot,
                              !.ready = ready]
           l == lost \cup cut
<1>1. /\ phase = "Running" /\ j \in sched.todo /\ UNCHANGED <<wf, phase>>
    BY DEF DrainJoin, Executing
<1>2. /\ sched \in Scheduling /\ wf \in Workflow /\ lost \in SUBSET Node
      /\ Degrees(wf, sched, lost) /\ ResolvedWhenDone(wf, sched)
      /\ Arrivals(wf, sched, result, lost)
    BY <1>1 DEF Inv, TypeOK, Sound
<1>3. Whole(wf, sched, lost) /\ sched.pc = "drain"
    BY <1>1 DEF CInv, Whole, Turns
<1>4. CASE j \in sched.resolved /\ sched' = [sched EXCEPT !.todo = @ \ {j}] /\ UNCHANGED lost
    <2>1. sched' = [sched EXCEPT !.todo = todo] /\ todo \subseteq Node
        BY <1>2, <1>4 DEF Scheduling
    <2>2. sched.todo \subseteq todo \cup sched.done
        BY <1>2, <1>4 DEF ResolvedWhenDone
    <2> HIDE DEF todo
    <2>3. /\ SameBooks(sched, sched') /\ sched'.noted = sched.noted
          /\ sched'.sig = sched.sig /\ sched'.pc = sched.pc
          /\ sched'.todo = todo /\ sched'.ready = sched.ready
          /\ sched'.parked = sched.parked /\ sched'.task = sched.task
        BY <1>2, <2>1 DEF SameBooks, Scheduling
    <2>4. Pending(sched') = Pending(sched) /\ Turns(sched')
        BY <1>3, <2>3 DEF Pending, InFlight, Turns
    <2> QED
        BY <1>1, <1>4, <2>2, <2>3, <2>4, WholeByMove
<1>5. CASE /\ j \notin sched.resolved
           /\ sched' = MarkDone([sched EXCEPT
                                   !.todo      = @ \ {j},
                                   !.resolved  = @ \cup {j},
                                   !.aborted   = @ \cup (cut \cap handles),
                                   !.cancelled = @ \cup (cut \ handles),
                                   !.ready     = @ \ (cut \ handles)], j, TRUE)
           /\ lost' = lost \cup cut
    <2>1. j \in Joins(wf) /\ cut \subseteq Node
        BY <1>1, <1>2, LosersClosed DEF Arrivals
    <2>2. Pending(sched) \ l \subseteq ready \cup sched.parked \cup InFlight(sched)
        BY DEF Pending
    <2> HIDE DEF cut
    <2>3. /\ todo \subseteq Node /\ resolved \subseteq Node /\ aborted \subseteq Node
          /\ moot \subseteq Node /\ ready \subseteq Node /\ l \in SUBSET Node
        BY <1>2, <2>1 DEF Scheduling, InFlight
    <2>4. sched' = MarkDone(s, j, TRUE)
        BY <1>2, <1>5 DEF Scheduling
    <2> HIDE DEF aborted, moot, ready
    <2>5. /\ s \in Scheduling
          /\ s.done = sched.done /\ s.indegree = sched.indegree
          /\ s.accounted = sched.accounted /\ s.resolved = resolved
          /\ s.todo = todo /\ s.ready = ready /\ s.parked = sched.parked
          /\ s.task = sched.task /\ s.pc = "drain" /\ s.noted = sched.noted
          /\ s.sig = sched.sig
        BY <1>2, <1>3, <2>3 DEF Scheduling
    <2> HIDE DEF s
    <2>6. Degrees(wf, s, l) /\ s.resolved = Joins(wf) \cap (s.done \cup {j})
        BY <1>2, <2>1, <2>5 DEF Degrees, ResolvedWhenDone
    <2>7. Pending(sched) \ l \subseteq Pending(s)
        BY <2>2, <2>5 DEF Pending, InFlight
    <2>8. lost \subseteq l /\ lost' = l
        BY <1>5
    <2> HIDE DEF l
    <2>9. Whole(wf, MarkDone(s, j, TRUE), l)
        <3>1. CASE sched.noted \/ sched.sig
            BY <1>2, <2>3, <2>5, <3>1, WholeAfter
        <3>2. CASE InHand(wf, sched, lost)
            <4>1. \A m \in Node \ (l \cup Joins(wf) \cup s.done \cup {j}) :
                    Pred(wf, m) \subseteq s.done => m \in Pending(s)
                BY <2>5, <2>7, <2>8, <3>2 DEF InHand
            <4>2. \A k \in Joins(wf) \ (l \cup s.done \cup {j}) :
                    /\ s.accounted[k] >= Cardinality(Pred(wf, k) \cap s.done)
                    /\ s.accounted[k] >= Cardinality(Pred(wf, k)) => k \in s.todo
                BY <2>5, <2>8, <3>2 DEF InHand
            <4> QED
                BY <1>2, <2>3, <2>5, <2>6, <4>1, <4>2, WholeAfter
        <3> QED
            BY <1>3, <3>1, <3>2 DEF Whole
    <2> QED
        BY <1>1, <2>4, <2>8, <2>9 DEF CInv, DoneIsComplete
<1> QED
    BY <1>4, <1>5 DEF DrainJoin

\* A task that has ended.
LEMMA WholeByTask ==
    ASSUME Inv, CInv, NEW n \in Node, Collect(n) \/ CollectPaused(n) \/ Reap(n)
    PROVE  CInv'
<1> DEFINE s == Ended(n)
<1>1. /\ phase = "Running" /\ sched.pc = "await" /\ sched.todo = {}
      /\ n \in InFlight(sched) /\ UNCHANGED <<wf, phase, lost>>
    BY DEF Collect, CollectPaused, Reap, Awaiting, Executing, InFlight, Finish
<1>2. /\ sched \in Scheduling /\ wf \in Workflow /\ lost \in SUBSET Node
      /\ Degrees(wf, sched, lost) /\ ResolvedWhenDone(wf, sched)
      /\ sched.aborted \subseteq lost /\ n \notin Joins(wf) /\ Whole(wf, sched, lost)
    BY <1>1, InFlightReached DEF Inv, TypeOK, Sound, OnDisk, CInv
<1>3. /\ s \in Scheduling /\ SameBooks(sched, s)
      /\ s.todo = sched.todo /\ s.ready = sched.ready
      /\ s.parked = sched.parked /\ InFlight(s) = InFlight(sched) \ {n}
      /\ s.pc = "drain"
    BY EndedEffect
<1>4. s.noted = sched.noted /\ s.sig = sched.sig
    BY <1>2 DEF Ended, Scheduling
<1> HIDE DEF s
<1>5. Pending(sched) \ {n} \subseteq Pending(s)
    BY <1>3 DEF Pending
<1>6. ASSUME NEW live \in BOOLEAN
      PROVE  Whole(wf, MarkDone(s, n, live), lost)
    <2>1. CASE sched.noted \/ sched.sig
        BY <1>2, <1>3, <1>4, <2>1, WholeAfter
    <2>2. CASE InHand(wf, sched, lost)
        <3>1. s.resolved = Joins(wf) \cap (s.done \cup {n}) /\ Degrees(wf, s, lost)
            BY <1>2, <1>3 DEF ResolvedWhenDone, Degrees, SameBooks
        <3>2. \A m \in Node \ (lost \cup Joins(wf) \cup s.done \cup {n}) :
                Pred(wf, m) \subseteq s.done => m \in Pending(s)
            BY <1>3, <1>5, <2>2 DEF InHand, SameBooks
        <3>3. \A j \in Joins(wf) \ (lost \cup s.done \cup {n}) :
                /\ s.accounted[j] >= Cardinality(Pred(wf, j) \cap s.done)
                /\ s.accounted[j] >= Cardinality(Pred(wf, j)) => j \in s.todo
            BY <1>3, <2>2 DEF InHand, SameBooks
        <3> QED
            BY <1>2, <1>3, <3>1, <3>2, <3>3, WholeAfter
    <2> QED
        BY <1>2, <2>1, <2>2 DEF Whole
<1>7. CASE \E live \in BOOLEAN : sched' = MarkDone(s, n, live)
    BY <1>1, <1>6, <1>7 DEF CInv, DoneIsComplete
<1>8. CASE n \in sched.aborted /\ sched' = s
    BY <1>1, <1>2, <1>3, <1>4, <1>5, <1>8, WholeByMove DEF Turns
<1>9. CASE CollectPaused(n)
    <2> DEFINE b == s.noted \/ n \notin sched.aborted
    <2>1. sched' = [s EXCEPT !.noted = b] /\ b \in BOOLEAN
        BY <1>3, <1>9 DEF CollectPaused, Scheduling, s
    <2>2. b \/ n \in lost
        BY <1>2
    <2>3. s.noted => b
        OBVIOUS
    <2> HIDE DEF b
    <2>4. /\ SameBooks(s, sched') /\ sched'.noted = b /\ sched'.sig = s.sig
          /\ sched'.pc = s.pc /\ sched'.todo = s.todo /\ sched'.ready = s.ready
          /\ sched'.parked = s.parked /\ sched'.task = s.task
        BY <1>3, <2>1 DEF SameBooks, Scheduling
    <2>5. Pending(sched') = Pending(s) /\ SameBooks(sched, sched')
        BY <1>3, <2>4 DEF Pending, InFlight, SameBooks
    <2>6. Turns(sched')
        BY <1>3, <2>4 DEF Turns
    <2> QED
        BY <1>1, <1>3, <1>4, <1>5, <2>2, <2>3, <2>4, <2>5, <2>6, WholeByMove
<1>10. CASE Collect(n) \/ Reap(n)
    <2>1. \/ \E live \in BOOLEAN : sched' = MarkDone(s, n, live)
          \/ n \in sched.aborted /\ sched' = s
        <3>1. CASE Reap(n)
            BY <3>1 DEF Reap, s
        <3>2. CASE Collect(n)
            <4> DEFINE live == "Ran" \in Live
            <4>1. live \in BOOLEAN
                OBVIOUS
            <4>2. sched' = MarkDone(s, n, live) \/ (n \in sched.aborted /\ sched' = s)
                BY <3>2 DEF Collect, Finish, s
            <4> HIDE DEF live
            <4> QED
                BY <4>1, <4>2
        <3> QED
            BY <1>10, <3>1, <3>2
    <2> QED
        BY <1>7, <1>8, <2>1
<1> QED
    BY <1>9, <1>10

\* What only moves the scheduler on, or notes a request.
LEMMA WholeByTurn ==
    ASSUME Inv, CInv,
           \/ DrainEnds \/ Await \/ RequestPause \/ RequestStop \/ Teardown
           \/ PollDecisions
           \/ \E n \in Node : Work(n) \/ TeardownOne(n)
    PROVE  CInv'
<1>1. /\ phase = "Running" /\ UNCHANGED <<wf, phase, lost>>
      /\ sched \in Scheduling /\ Whole(wf, sched, lost)
    BY DEF DrainEnds, Await, RequestPause, RequestStop, Teardown, PollDecisions, Work,
           TeardownOne, Draining, Checking, Awaiting, Executing, Inv, TypeOK, CInv
<1>2. CASE DrainEnds \/ Await
    <2>1. /\ sched' = [sched EXCEPT !.pc = "check"] \/ sched' = [sched EXCEPT !.pc = "await"]
          /\ sched.todo = {}
          /\ sched.ready = {} \/ sched.sig \/ (sched.pc = "check")
        BY <1>2 DEF DrainEnds, Await, Draining, Checking
    <2>2. /\ SameBooks(sched, sched') /\ sched'.noted = sched.noted
          /\ sched'.sig = sched.sig /\ sched'.todo = sched.todo
          /\ sched'.ready = sched.ready /\ sched'.parked = sched.parked
          /\ sched'.task = sched.task /\ sched'.pc \in {"check", "await"}
        BY <1>1, <2>1 DEF SameBooks, Scheduling
    <2>3. Pending(sched') = Pending(sched) /\ Turns(sched')
        BY <1>1, <2>1, <2>2 DEF Pending, InFlight, Turns, Whole
    <2> QED
        BY <1>1, <2>2, <2>3, WholeByMove
<1>3. CASE RequestPause
    <2>1. sched' = [sched EXCEPT !.tok = TRUE]
        BY <1>3 DEF RequestPause
    <2>2. /\ SameBooks(sched, sched') /\ sched'.noted = sched.noted
          /\ sched'.sig = sched.sig /\ sched'.todo = sched.todo
          /\ sched'.ready = sched.ready /\ sched'.parked = sched.parked
          /\ sched'.task = sched.task /\ sched'.pc = sched.pc
        BY <1>1, <2>1 DEF SameBooks, Scheduling
    <2>3. Pending(sched') = Pending(sched) /\ Turns(sched')
        BY <1>1, <2>2 DEF Pending, InFlight, Turns, Whole
    <2> QED
        BY <1>1, <2>2, <2>3, WholeByMove
<1>4. CASE RequestStop
    <2>1. sched' = [sched EXCEPT !.sig = TRUE]
        BY <1>4 DEF RequestStop
    <2>2. /\ SameBooks(sched, sched') /\ sched'.noted = sched.noted
          /\ sched'.sig /\ sched'.todo = sched.todo /\ sched'.pc = sched.pc
        BY <1>1, <2>1 DEF SameBooks, Scheduling
    <2>3. Turns(sched')
        BY <1>1, <2>2 DEF Turns, Whole
    <2> QED
        BY <1>1, <2>2, <2>3, WholeByMove
<1>5. CASE Teardown
    <2> DEFINE A == sched.aborted \cup InFlight(sched)
    <2>1. sched' = [sched EXCEPT !.aborted = A, !.pc = "teardown"]
          /\ sched.sig /\ sched.todo = {}
        BY <1>1, <1>5 DEF Teardown, Checking, Awaiting, Scheduling
    <2> HIDE DEF A
    <2>2. /\ SameBooks(sched, sched') /\ sched'.noted = sched.noted
          /\ sched'.sig /\ sched'.todo = {} /\ sched'.pc = "teardown"
        BY <1>1, <2>1 DEF SameBooks, Scheduling
    <2>3. Turns(sched')
        BY <2>2 DEF Turns
    <2> QED
        BY <1>1, <2>2, <2>3, WholeByMove
<1>6. CASE PollDecisions
    <2> DEFINE new == {g \in sched.parked : decision[g] # "None"}
               H   == sched.heard \cup new
               K   == sched.parked \ new
               R   == sched.ready \cup new
    <2>1. /\ sched' = [sched EXCEPT !.heard = H, !.parked = K, !.ready = R, !.pc = "drain"]
          /\ sched.ready \cup sched.parked = R \cup K
        BY <1>1, <1>6 DEF PollDecisions, Scheduling
    <2> HIDE DEF H, R, K
    <2>2. /\ SameBooks(sched, sched') /\ sched'.noted = sched.noted
          /\ sched'.sig = sched.sig /\ sched'.todo = sched.todo
          /\ sched'.ready = R /\ sched'.parked = K
          /\ sched'.task = sched.task /\ sched'.pc = "drain"
        BY <1>1, <2>1 DEF SameBooks, Scheduling
    <2>3. Pending(sched') = Pending(sched) /\ Turns(sched')
        BY <2>1, <2>2 DEF Pending, InFlight, Turns
    <2> QED
        BY <1>1, <2>2, <2>3, WholeByMove
<1>7. ASSUME NEW n \in Node, Work(n)
      PROVE  CInv'
    <2>1. sched.task[n] = "Running"
        BY <1>7 DEF Work
    <2>2. PICK v \in {"Ran", "Paused", "Failed"} : sched' = [sched EXCEPT !.task[n] = v]
        BY <1>7 DEF Work
    <2> DEFINE T == [sched.task EXCEPT ![n] = v]
    <2>3. sched' = [sched EXCEPT !.task = T]
        BY <1>1, <2>2 DEF Scheduling
    <2>4. InFlight(sched) = {m \in Node : T[m] # "None"}
        BY <1>1, <2>1 DEF InFlight, Scheduling
    <2> HIDE DEF T
    <2>5. /\ SameBooks(sched, sched') /\ sched'.noted = sched.noted
          /\ sched'.sig = sched.sig /\ sched'.todo = sched.todo
          /\ sched'.ready = sched.ready /\ sched'.parked = sched.parked
          /\ sched'.task = T /\ sched'.pc = sched.pc
        BY <1>1, <2>3 DEF SameBooks, Scheduling
    <2>6. InFlight(sched') = InFlight(sched)
        BY <2>4, <2>5 DEF InFlight
    <2>7. Pending(sched') = Pending(sched) /\ Turns(sched')
        BY <1>1, <2>5, <2>6 DEF Pending, Turns, Whole
    <2> QED
        BY <1>1, <2>5, <2>7, WholeByMove
<1>8. ASSUME NEW n \in Node, TeardownOne(n)
      PROVE  CInv'
    <2>1. /\ sched' = [sched EXCEPT !.task[n] = "None"]
          /\ sched.pc = "teardown" /\ sched.sig
        BY <1>1, <1>8 DEF TeardownOne, Whole, Turns
    <2>2. /\ SameBooks(sched, sched') /\ sched'.noted = sched.noted
          /\ sched'.sig /\ sched'.todo = sched.todo
          /\ sched'.pc = "teardown"
        BY <1>1, <2>1 DEF SameBooks, Scheduling
    <2>3. Turns(sched')
        BY <1>1, <2>1, <2>2 DEF Turns, Whole
    <2> QED
        BY <1>1, <2>2, <2>3, WholeByMove
<1> QED
    BY <1>2, <1>3, <1>4, <1>5, <1>6, <1>7, <1>8

\* A call that ends with nothing ready, parked or in flight has left nothing
\* open: whatever is open waits for something open, and no workflow has a cycle.
LEMMA NothingOpen ==
    ASSUME Inv, CInv, phase = "Running", sched.pc = "check", sched.todo = {},
           InFlight(sched) = {}, sched.parked = {}, ~sched.noted, ~sched.sig
    PROVE  \A n \in Node : Settled(n)
<1> DEFINE open == Node \ (lost \cup sched.done)
<1>1. /\ wf \in Workflow /\ sched \in Scheduling
      /\ OnDisk(wf, sched, result, lost) /\ LostClosed(wf, result, lost)
    BY DEF Inv, TypeOK, Sound, KeptInOrder
<1>2. InHand(wf, sched, lost) /\ Pending(sched) = {}
    BY DEF CInv, Whole, Turns, Pending
<1>3. /\ Joins(wf) \subseteq Node
      /\ \A n \in Node : Pred(wf, n) \subseteq Node
      /\ \A n, m \in Node : m \in Succ(wf, n) <=> n \in Pred(wf, m)
    BY <1>1, GraphType
<1>4. ASSUME NEW n \in open
      PROVE  Pred(wf, n) \cap open # {}
    <2>1. PICK p \in Pred(wf, n) : p \notin sched.done
        <3>1. CASE n \notin Joins(wf)
            BY <1>2, <1>4, <3>1 DEF InHand
        <3>2. CASE n \in Joins(wf)
            <4>1. /\ sched.accounted[n] >= Cardinality(Pred(wf, n) \cap sched.done)
                  /\ ~(sched.accounted[n] >= Cardinality(Pred(wf, n)))
                BY <1>2, <1>4, <3>2 DEF InHand
            <4>2. /\ sched.accounted[n] \in Nat
                  /\ Cardinality(Pred(wf, n)) \in Nat
                  /\ Cardinality(Pred(wf, n) \cap sched.done) \in Nat
                BY <1>1, <1>3, <1>4, Countable DEF Scheduling
            <4>3. Pred(wf, n) \cap sched.done # Pred(wf, n)
                BY <4>1, <4>2
            <4> QED
                BY <4>3
        <3> QED
            BY <3>1, <3>2
    <2>2. p \in Node /\ n \in Succ(wf, p)
        BY <1>3, <1>4, <2>1
    <2>3. n \in Joins(wf) => result[n] = "None"
        BY <1>1, <1>4 DEF OnDisk
    <2>4. p \notin lost
        BY <1>1, <1>4, <2>2, <2>3 DEF LostClosed
    <2> QED
        BY <2>1, <2>2, <2>4
<1>5. open = {}
    <2>1. Acyclic(wf)
        BY <1>1, WorkflowAssumption
    <2>2. open \subseteq Node
        OBVIOUS
    <2> HIDE DEF open
    <2>3. ASSUME open # {} PROVE FALSE
        <3>1. \E n \in open : Pred(wf, n) \cap open = {}
            BY <2>1, <2>2, <2>3 DEF Acyclic
        <3> QED
            BY <1>4, <3>1
    <2> QED
        BY <2>3
<1>6. \A n \in sched.done : result[n] # "None" \/ n \in lost
    BY <1>1 DEF OnDisk
<1> QED
    BY <1>5, <1>6 DEF Settled

\* Every step of a call leaves nothing behind.
LEMMA NextWhole == Inv /\ CInv /\ [Next]_vars => CInv'
<1> SUFFICES ASSUME Inv, CInv, [Next]_vars PROVE CInv'
    OBVIOUS
<1>1. CASE UNCHANGED vars \/ Terminated \/ \E n \in Node : Decide(n)
    <2>1. UNCHANGED <<wf, result, phase, sched, lost>>
        BY <1>1 DEF vars, Terminated, Decide
    <2> QED
        BY <2>1 DEF CInv, DoneIsComplete, Settled
<1>2. CASE StartPass
    <2>1. /\ sched' = Restored /\ phase' = "Running" /\ UNCHANGED <<wf, result, lost>>
          /\ wf \in Workflow /\ result \in [Node -> Result]
          /\ decision \in [Node -> Verdict]
        BY <1>2 DEF StartPass, Inv, TypeOK
    <2>2. Whole(wf, Restored, lost)
        BY <2>1, RestoredInHand
    <2> QED
        BY <2>1, <2>2 DEF CInv, DoneIsComplete
<1>3. CASE \/ TornDown \/ Crash
           \/ \E n \in Node : RenderFails(n) \/ CollectFailed(n)
    <2>1. phase' \notin {"Running", "Done"}
        BY <1>3 DEF TornDown, Crash, RenderFails, CollectFailed, EndAs
    <2> QED
        BY <2>1 DEF CInv, DoneIsComplete
<1>4. CASE EndPass
    <2>1. /\ phase = "Running" /\ sched.pc = "check" /\ sched.todo = {}
          /\ InFlight(sched) = {} /\ ~sched.sig /\ UNCHANGED <<result, lost>>
          /\ phase' = IF sched.noted \/ sched.parked # {} THEN "Paused" ELSE "Done"
        BY <1>4 DEF EndPass, Checking, Executing, EndAs
    <2>2. CASE sched.noted \/ sched.parked # {}
        BY <2>1, <2>2 DEF CInv, DoneIsComplete
    <2>3. CASE ~sched.noted /\ sched.parked = {}
        <3>1. \A n \in Node : Settled(n)
            BY <2>1, <2>3, NothingOpen
        <3> QED
            BY <2>1, <2>3, <3>1 DEF CInv, DoneIsComplete, Settled
    <2> QED
        BY <2>2, <2>3
<1>5. CASE \/ DrainEnds \/ Await \/ RequestPause \/ RequestStop \/ Teardown
           \/ PollDecisions
           \/ \E n \in Node : Work(n) \/ TeardownOne(n)
    BY <1>5, WholeByTurn
<1>6. ASSUME NEW n \in Node, DrainJoin(n)
      PROVE  CInv'
    BY <1>6, WholeByJoin
<1>7. ASSUME NEW n \in Node,
             \/ SkipWrittenOff(n) \/ PauseBefore(n) \/ SkipWhen(n) \/ Gate(n)
             \/ Split(n) \/ Dispatch(n) \/ \E a \in Arm : Branch(n, a)
      PROVE  CInv'
    BY <1>7, WholeByDrain
<1>8. ASSUME NEW n \in Node, Collect(n) \/ CollectPaused(n) \/ Reap(n)
      PROVE  CInv'
    BY <1>8, WholeByTask
<1> QED
    BY <1>1, <1>2, <1>3, <1>4, <1>5, <1>6, <1>7, <1>8
       DEF Next, SchedulerStep, DrainStep, AwaitStep

\* A run that comes to its end has a result of every node, or a join has fired
\* without it: in any workflow without a cycle, whatever interrupted the run.
THEOREM DoneIsCompleteHolds == Spec => []DoneIsComplete
<1>1. Init => CInv
    BY DEF Init, CInv, DoneIsComplete
<1>2. Inv /\ CInv /\ [Next]_vars => CInv'
    BY NextWhole
<1>3. CInv => DoneIsComplete
    BY DEF CInv
<1> QED
    BY <1>1, <1>2, <1>3, InvHolds, PTL DEF Spec
==============================================================================
