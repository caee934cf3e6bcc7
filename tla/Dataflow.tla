------------------------------ MODULE Dataflow -------------------------------
(***************************************************************************)
(* What the scheduler promises of a workflow run, whatever pauses, crashes *)
(* and resumes it goes through.  A node gets one result, after everything  *)
(* it depends on has one; a join gets its own when its policy allows it,   *)
(* and cuts off nothing that somebody else waits for.  Of a node that was  *)
(* cut off nothing is promised.                                            *)
(***************************************************************************)
EXTENDS WorkflowGraph

VARIABLES
    wf,      \* the workflow of the run
    result,  \* what step_results.jsonl says of each node
    lost     \* the nodes a join has fired without

Live    == {"Ran", "Then", "Else", "Approved"}
NotLive == {"Skipped", "Pruned", "Cancelled", "Rejected"}
Result  == {"None"} \cup Live \cup NotLive

Init ==
    /\ wf \in Workflow
    /\ result = [n \in Node |-> "None"]
    /\ lost = {}

\* A step, gate, branch or split comes to its end.
Record(n) ==
    /\ n \notin Joins(wf)
    /\ n \notin lost => /\ result[n] = "None"
                       /\ \A p \in Pred(wf, n) : result[p] # "None"
    /\ \E v \in Live \cup NotLive : result' = [result EXCEPT ![n] = v]
    /\ UNCHANGED <<wf, lost>>

\* A join fires: enough live inbound paths, or none left to wait for.  A path
\* it cuts off leads to it, to what was cut off before, and to joins that
\* have fired, but to nobody else.
Fire(j) ==
    /\ j \in Joins(wf) /\ result[j] = "None"
    /\ \/ j \in lost
       \/ Cardinality({p \in Pred(wf, j) : result[p] \in Live}) >= wf.wait[j]
       \/ \A p \in Pred(wf, j) : result[p] # "None"
    /\ result' = [result EXCEPT ![j] = "Ran"]
    /\ \E cut \in SUBSET {x \in Node : result[x] = "None"} :
         /\ \A x \in cut : \A y \in Succ(wf, x) \ {j} :
              y \in cut \cup lost \/ (y \in Joins(wf) /\ result[y] # "None")
         /\ lost' = lost \cup cut
    /\ UNCHANGED wf

Next == \E n \in Node : Record(n) \/ Fire(n)

Spec == Init /\ [][Next]_<<wf, result, lost>>
==============================================================================
