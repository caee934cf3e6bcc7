------------------------------ MODULE RunRecord ------------------------------
(***************************************************************************)
(* run.json, the one record every process that touches a workflow run      *)
(* shares, and what the methods of RunStore make of it.  Each operator is  *)
(* one read-modify-write under the run lock, as a function of the record:  *)
(* no variables here.  RunLifecycle puts the processes around it.          *)
(***************************************************************************)
EXTENDS FiniteSets, Naturals

CONSTANTS
    Proc,       \* operating-system processes that may run `rupu workflow`
    Gate,       \* the approval gates of the workflow
    None,       \* no process, no gate
    PathScoped, \* is the workflow non-linear (gates decided path by path)?
    OnTimeout   \* per gate: "none" (no timeout_seconds) or its on_timeout

ASSUME RunRecordAssumption ==
    /\ None \notin Proc \cup Gate
    /\ PathScoped \in BOOLEAN
    /\ OnTimeout \in [Gate -> {"none", "fail", "reject", "approve"}]

Terminal == {"Completed", "Failed", "Rejected", "Cancelled"}
Status   == Terminal \cup {"Running", "AwaitingApproval", "Paused"}
Spawner  == {"worker", "sweep"}

\* A recorded gate decision.  `at' orders decisions (decided_at); `by' says
\* who made it: a person, the gate's own timeout, a marker the resume worker
\* read, or the approving process's own memory of what it recorded.
Decision == [gate : Gate, verdict : {"approved", "rejected"}, at : Nat,
             by : {"human", "timeout", "marker", "memory"}]

\* `overdue' holds the parked gates whose expires_at has passed.  The pending
\* resume marker (resume_requested_at, resume_gate_id) is `marked' and
\* `markGate'; a spawner remembers the resume_requested_at it read, and
\* `readers' is the set of spawners for which that is still the one on disk.
\* `claimed' is a resume claim whose lease has not run out.
Record == [status    : Status,
           awaiting  : SUBSET Gate,
           overdue   : SUBSET Gate,
           decisions : SUBSET Decision,
           pid       : Proc \cup {None},
           marked    : BOOLEAN,
           markGate  : Gate \cup {None},
           readers   : SUBSET Spawner,
           claimed   : BOOLEAN]

\* Mutant: the record is created Pending.
NewRecordPending(p) ==
    [status |-> "Pending", awaiting |-> {}, overdue |-> {}, decisions |-> {},
     pid |-> p, marked |-> FALSE, markGate |-> None, readers |-> {},
     claimed |-> FALSE]

\* The record run_workflow creates for a fresh run of process p.
NewRecord(p) ==
    [status |-> "Running", awaiting |-> {}, overdue |-> {}, decisions |-> {},
     pid |-> p, marked |-> FALSE, markGate |-> None, readers |-> {},
     claimed |-> FALSE]

-----------------------------------------------------------------------------
(* Gate decisions. *)

\* record_gate_decision: the gate moves from the parked set to the decisions.
RecordDecision(r, d) ==
    LET rest == r.awaiting \ {d.gate}
    IN  [r EXCEPT !.awaiting  = rest,
                  !.overdue   = @ \ {d.gate},
                  !.decisions = @ \cup {d},
                  !.status    = IF rest = {} THEN "Running"
                                             ELSE "AwaitingApproval"]

\* The finalizing arms of a gate's expiry and of the legacy reject: the whole
\* parked set is cleared, runner_pid and gate_decisions are left alone.
Finalize(r, status) ==
    [r EXCEPT !.status = status, !.awaiting = {}, !.overdue = {}]

\* The gate the record's compat fields stand for when it is the only one.
SoleGateOverdue(r) ==
    /\ r.status = "AwaitingApproval"
    /\ Cardinality(r.awaiting) = 1
    /\ r.awaiting \subseteq r.overdue

\* expire_gate_if_overdue_locked on an overdue gate, `fail' and `reject'
\* (`approve' leaves the record to whoever asked).
ExpireGate(r, g, at) ==
    IF OnTimeout[g] = "fail" THEN Finalize(r, "Failed")
    ELSE IF PathScoped
         THEN RecordDecision(r, [gate |-> g, verdict |-> "rejected",
                                 at |-> at, by |-> "timeout"])
         ELSE Finalize(r, "Rejected")

\* Does approving or rejecting first let the sole parked gate expire?
ExpiresFirst(r) ==
    /\ SoleGateOverdue(r)
    /\ \E g \in r.awaiting : OnTimeout[g] \in {"fail", "reject"}

\* reject_gate_locked on a parked gate.
RejectGate(r, d) ==
    IF PathScoped THEN RecordDecision(r, d)
    ELSE LET rest == r.awaiting \ {d.gate}
         IN  [r EXCEPT !.awaiting = rest,
                       !.overdue  = @ \ {d.gate},
                       !.status   = IF rest = {} THEN "Rejected" ELSE @]

\* A recorded decision on g that no runner has applied.
PendingOn(r, g) == {d \in r.decisions : d.gate = g}

\* Mutant: applied decisions are told by their gate alone.
UnappliedByGate(ds, applied) ==
    {d \in ds : \A a \in applied : a.gate # d.gate}

\* The decisions finish_runner keeps: those the runner did not apply.
Unapplied(ds, applied) ==
    {d \in ds : \A a \in applied : ~(a.gate = d.gate /\ a.at = d.at)}

\* Mutant: the runner does not look for decisions on what it parks.
NoneOn(r, parked) == {}

\* Decisions recorded on gates a runner holds parked.
DecisionsOn(r, parked) == {d \in r.decisions : d.gate \in parked}

\* Mutant: a run still parked at a sibling gate is not looked at.
StrandedRunningOnly(r) ==
    /\ r.status = "Running" /\ r.pid = None
    /\ r.decisions # {} /\ ~r.marked /\ ~r.claimed

\* What request_runner_for_stranded_decisions and its caller ask of the record
\* (a Running one with a dead runner is reaped instead).
Stranded(r) ==
    /\ r.status = "AwaitingApproval" \/ (r.status = "Running" /\ r.pid = None)
    /\ r.decisions # {} /\ ~r.marked /\ ~r.claimed

-----------------------------------------------------------------------------
(* The pending-resume marker and its claim. *)

\* mark_resume_requested: a new resume_requested_at no spawner has read.
Mark(r, g) == [r EXCEPT !.marked = TRUE, !.markGate = g, !.readers = {}]

\* clear_resume_marker.
ClearMarker(r) ==
    [r EXCEPT !.marked = FALSE, !.markGate = None, !.readers = {}]

\* clear_resume_if_marked_at: the claim is given back, and the marker goes
\* only while it is the one spawner s read.
GiveBackResume(r, s) ==
    IF r.status = "Cancelled" THEN r
    ELSE LET released == [r EXCEPT !.claimed = FALSE]
         IN  IF s \in r.readers THEN ClearMarker(released) ELSE released

-----------------------------------------------------------------------------
(* Whole-run transitions. *)

\* finalize_failed (the orphan reaper, a panicking runner).
FinalizeFailed(r) == [r EXCEPT !.status = "Failed", !.pid = None]

\* The `Cancelled' arm of RunStore::cancel.
MarkCancelled(r) ==
    [r EXCEPT !.status = "Cancelled", !.awaiting = {}, !.overdue = {},
              !.decisions = {}, !.pid = None]

\* mark_resumed: the flip a CLI resume makes.
MarkResumed(r, p) ==
    [ClearMarker(r) EXCEPT !.status = "Running", !.pid = p,
                           !.awaiting = {}, !.overdue = {}]

\* Mutant: every parked gate's timeout starts over.
ReParkFresh(r, parked) ==
    [r EXCEPT !.status = "AwaitingApproval", !.awaiting = parked,
              !.overdue = {}]

\* RunEnd::apply's approval pause: a gate that was parked keeps its deadline.
RePark(r, parked) ==
    [r EXCEPT !.status = "AwaitingApproval", !.awaiting = parked,
              !.overdue = @ \cap parked]

\* RunEnd::apply.  `parked' are the gates an approval pause leaves.  Failed
\* leaves the parked set as it is.  A served resume request is cleared once no decision is left.
ApplyEnd(r, end, parked, served) ==
    LET ended ==
          CASE end \in {"Completed", "Rejected"} -> Finalize(r, end)
            [] end = "AwaitingApproval" -> RePark(r, parked)
            [] end = "Paused" -> Finalize(r, end)
            [] end = "Failed" -> [r EXCEPT !.status = end]
        left == [ended EXCEPT !.pid = None]
    IN  IF served /\ left.decisions = {}
        THEN [ClearMarker(left) EXCEPT !.claimed = FALSE]
        ELSE left
=============================================================================
