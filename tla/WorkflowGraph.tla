---------------------------- MODULE WorkflowGraph ----------------------------
(***************************************************************************)
(* The graph of a non-linear workflow and the questions the scheduler asks *)
(* of it.  A node is named by its position in the `steps:' list, which is  *)
(* the order ready nodes are taken in.                                     *)
(***************************************************************************)
EXTENDS Integers, FiniteSets

CONSTANTS
    Node,      \* positions in the list of steps
    Workflow   \* the workflows under consideration

Kind == {"task", "gate", "branch", "split", "join"}
Arm  == {"Then", "Else"}

(* `when' are the steps with a `when:', `auto' the gates with an             *)
(* `auto_approve:', `arm' the targets of a branch, and `wait' how many       *)
(* inbound paths a join waits for.                                           *)
Graph ==
    [edge : SUBSET (Node \X Node),
     kind : [Node -> Kind],
     arm  : [Node -> [Arm -> SUBSET Node]],
     wait : [Node -> Nat],
     when : SUBSET Node,
     auto : SUBSET Node]

Succ(w, n) == {m \in Node : <<n, m>> \in w.edge}
Pred(w, n) == {m \in Node : <<m, n>> \in w.edge}
Joins(w)   == {n \in Node : w.kind[n] = "join"}
Entries(w) == {n \in Node : Pred(w, n) = {}}

\* Some node of any set of nodes waits for none of them.
Acyclic(w) ==
    \A S \in (SUBSET Node) \ {{}} : \E n \in S : Pred(w, n) \cap S = {}

\* What Workflow::parse has accepted, of a workflow without loops.
ASSUME WorkflowAssumption ==
    /\ Node \subseteq Nat /\ IsFiniteSet(Node)
    /\ Workflow \subseteq Graph
    /\ \A w \in Workflow :
         /\ Acyclic(w)
         /\ \A n \in Node : w.kind[n] # "branch" => w.arm[n] = [a \in Arm |-> {}]
         /\ \A n \in Node, a \in Arm : w.arm[n][a] \subseteq Succ(w, n)
         /\ \A j \in Joins(w) : w.wait[j] \in 1..Cardinality(Pred(w, j))

------------------------------------------------------------------------------
(* Reachability over a set of edges: the least set that holds the starts    *)
(* and is closed under them.                                                *)
Closed(E, T) == \A e \in E : e[1] \in T => e[2] \in T

Reach(E, S) ==
    {n \in Node :
       \A T \in SUBSET Node : (S \subseteq T /\ Closed(E, T)) => n \in T}

Reversed(E) == {<<e[2], e[1]>> : e \in E}

Untaken(w, b, a) == w.arm[b][IF a = "Then" THEN "Else" ELSE "Then"]

\* Mutant: compare with what the taken arm leads to, not with every live path.
PruneUnlessTaken(w, b, a) ==
    Reach(w.edge, Untaken(w, b, a)) \ Reach(w.edge, w.arm[b][a])

\* What only the arm not taken leads to: reachable from it, and from no entry
\* once the branch's edges to that arm are cut.
BranchPruneSet(w, b, a) ==
    LET cut == {<<b, t>> : t \in Untaken(w, b, a)}
    IN  Reach(w.edge, Untaken(w, b, a)) \ Reach(w.edge \ cut, Entries(w))

\* What no entry reaches once the rejected gates' edges, and those of the arms
\* not taken, are cut, among what is downstream of a rejected gate.
RejectionPruneSet(w, rejected, dead) ==
    LET cut == dead \cup {e \in w.edge : e[1] \in rejected}
    IN  Reach(w.edge, UNION {Succ(w, g) : g \in rejected})
          \ Reach(w.edge \ cut, Entries(w))

\* Mutant: cut every ancestor of a loser, whoever else it feeds.
LosersUnprotected(w, j, winners) ==
    Reach(Reversed(w.edge), Pred(w, j) \ winners)
      \ Reach(Reversed(w.edge), winners)

\* The losing paths a join that fires on `winners' may cut: the ancestors of
\* its other inbound paths that are not the winners', less those with a
\* successor that stays outside, and their own ancestors.
Losers(w, j, winners) ==
    LET back       == Reversed(w.edge)
        candidates == Reach(back, Pred(w, j) \ winners) \ Reach(back, winners)
    IN  UNION {L \in SUBSET candidates :
                 \A x \in L : Succ(w, x) \subseteq L \cup {j}}
==============================================================================
