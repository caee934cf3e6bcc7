---------------------------- MODULE RunLifecycle -----------------------------
(***************************************************************************)
(* One workflow run: its runner, the `rupu workflow' commands and the web  *)
(* requests that decide its gates, pause, resume, retry and cancel it, and *)
(* the two loops of `rupu cp serve' (resume worker and gate sweep) that    *)
(* start runners for it.  They are separate processes and share run.json   *)
(* (RunRecord), step_results.jsonl (the gate rows of which are `history')  *)
(* and the pause marker file.                                              *)
(*                                                                         *)
(* One action is what a process does under one hold of the run lock, or    *)
(* between two looks at the shared files.                                  *)
(***************************************************************************)
EXTENDS RunRecord

CONSTANTS
    LoopGate,   \* the gates inside a loop, decided once per iteration
    Budget      \* how often each bounded kind of event may happen

BudgetKind == {"park", "operator", "web", "pause", "cancel", "crash"}

ASSUME RunLifecycleAssumption ==
    /\ LoopGate \subseteq Gate
    /\ Budget \in [BudgetKind -> Nat]

VARIABLES
    rec,        \* run.json
    proc,       \* the processes that run, or are about to run, the workflow
    spawner,    \* what the resume worker and the gate sweep are doing
    pauseMark,  \* does the file .pause exist?
    pausing,    \* a pause request between its two writes
    history,    \* the gate decisions step_results.jsonl has rows for
    clock,      \* the time stamp of the latest decision
    budget,     \* what is left of Budget
    taken       \* history variable: a resume took the run over from a
                \* process that was still executing it

vars == <<rec, proc, spawner, pauseMark, pausing, history, clock, budget,
          taken>>

(* A process starts in "approve", "resume" or "decided" (resume_decided),   *)
(* has read the disk in "loaded" and "ready", and executes the run in       *)
(* "run".  `view' is the history it read, `pending' and `applied' are its   *)
(* GateBook, `mem' the gate it has approved in memory, `orig' the status it *)
(* loaded, `tok' its pause token, `sig' a SIGTERM it has received.          *)
Process ==
    [pc      : {"free", "approve", "resume", "decided", "loaded", "ready",
                "run"},
     unf     : BOOLEAN,
     gate    : Gate \cup {None},
     by      : {"human", "timeout", "marker"},
     orig    : Status,
     view    : SUBSET Decision,
     pending : SUBSET Decision,
     applied : SUBSET Decision,
     parked  : SUBSET Gate,
     mem     : Gate \cup {None},
     tok     : BOOLEAN,
     sig     : BOOLEAN]

FreeProcess ==
    [pc |-> "free", unf |-> FALSE, gate |-> None, by |-> "human",
     orig |-> "Running", view |-> {}, pending |-> {}, applied |-> {},
     parked |-> {}, mem |-> None, tok |-> FALSE, sig |-> FALSE]

SpawnerState ==
    [pc   : {"idle", "look", "claimed", "spawned"},
     cmd  : {"resume", "approve"},
     gate : Gate \cup {None}]

IdleSpawner == [pc |-> "idle", cmd |-> "resume", gate |-> None]

TypeOK ==
    /\ rec \in Record
    /\ proc \in [Proc -> Process]
    /\ spawner \in [Spawner -> SpawnerState]
    /\ pauseMark \in BOOLEAN
    /\ pausing \in BOOLEAN
    /\ history \subseteq Decision
    /\ clock \in Nat
    /\ budget \in [BudgetKind -> Nat]
    /\ taken \in BOOLEAN

-----------------------------------------------------------------------------
(* Processes. *)

Alive(p) == proc[p].pc # "free"
Executing(p) == proc[p].pc = "run"

\* live_runner, as another process sees it.
HasLiveRunner == rec.pid \in Proc /\ Alive(rec.pid)

\* Mutant: only a runner of this very process counts.
OwnRunnerOnly(p) == rec.pid = p /\ Executing(p)

\* live_runner, as process p sees it: its own pid counts only while a runner
\* of its own holds the run.
LiveRunnerSeenBy(p) ==
    rec.pid \in Proc /\ IF rec.pid = p THEN Executing(p) ELSE Alive(rec.pid)

\* A pid that can be given to a new process: pids are not reused while the
\* record names one.
CanStart(p) == ~Alive(p) /\ rec.pid # p

Start(p, cmd, unf, gate, by) ==
    /\ CanStart(p)
    /\ proc' = [proc EXCEPT ![p] = [FreeProcess EXCEPT !.pc = cmd,
                                    !.unf = unf, !.gate = gate, !.by = by]]

Exit(p) == proc' = [proc EXCEPT ![p] = FreeProcess]

Spend(kind) ==
    /\ budget[kind] > 0
    /\ budget' = [budget EXCEPT ![kind] = @ - 1]

\* decision_in_history: the gate's latest row has d's verdict and is no older.
InHistory(d, rows) ==
    \E row \in rows :
        /\ row.gate = d.gate /\ row.verdict = d.verdict /\ row.at >= d.at
        /\ \A later \in rows : later.gate = d.gate => later.at <= row.at

\* The gates the rows of `rows' and what p applied since resolve.
Resolved(p) == {d.gate : d \in proc[p].view \cup proc[p].applied} \ LoopGate

Init ==
    /\ \E p \in Proc :
         /\ rec = NewRecord(p)
         /\ proc = [q \in Proc |-> IF q = p
                                   THEN [FreeProcess EXCEPT !.pc = "run"]
                                   ELSE FreeProcess]
    /\ spawner = [s \in Spawner |-> IdleSpawner]
    /\ pauseMark = FALSE
    /\ pausing = FALSE
    /\ history = {}
    /\ clock = 0
    /\ budget = Budget
    /\ taken = FALSE

-----------------------------------------------------------------------------
(* The runner. *)

\* The pause-marker poller trips the runner's pause token.
SeePause(p) ==
    /\ Executing(p) /\ pauseMark /\ ~proc[p].tok
    /\ proc' = [proc EXCEPT ![p].tok = TRUE]
    /\ UNCHANGED <<rec, spawner, pauseMark, pausing, history, clock, budget,
                   taken>>

\* The scheduler reaches gate g, undecided, and parks it; the single-cursor
\* loop stops at its first one.
Park(p, g) ==
    /\ Executing(p) /\ ~proc[p].tok /\ ~proc[p].sig
    /\ g \notin Resolved(p) \cup proc[p].parked
    /\ PathScoped \/ proc[p].parked = {}
    /\ \A d \in proc[p].pending : d.gate # g
    /\ Spend("park")
    /\ proc' = [proc EXCEPT ![p].parked = @ \cup {g}]
    /\ UNCHANGED <<rec, spawner, pauseMark, pausing, history, clock, taken>>

\* The scheduler reaches a gate it holds a decision on and applies it
\* (GateBook::take, emit_gate_result).
Apply(p, d) ==
    /\ Executing(p) /\ ~proc[p].tok /\ ~proc[p].sig
    /\ d \in proc[p].pending /\ d.gate \notin Resolved(p)
    /\ PathScoped \/ d.verdict = "approved"
    /\ proc' = [proc EXCEPT ![p].pending = @ \ {d},
                            ![p].applied = @ \cup {d},
                            ![p].parked  = @ \ {d.gate}]
    /\ history' = history \cup {d}
    /\ UNCHANGED <<rec, spawner, pauseMark, pausing, clock, budget, taken>>

\* GateBook::add: what is neither applied nor pending on its gate.
AddedTo(p, ds) ==
    {d \in Unapplied(ds, proc[p].applied) :
       \A b \in proc[p].pending : b.gate # d.gate}

\* While other paths are in flight the scheduler looks for decisions on the
\* gates it parked.
Poll(p) ==
    LET new == AddedTo(p, DecisionsOn(rec, proc[p].parked))
    IN  /\ Executing(p) /\ PathScoped /\ new # {}
        /\ proc' = [proc EXCEPT ![p].pending = @ \cup new,
                                ![p].parked  = @ \ {d.gate : d \in new}]
        /\ UNCHANGED <<rec, spawner, pauseMark, pausing, history, clock,
                       budget, taken>>

\* A decision the scheduler has still to apply: its gate has no result yet.
ToApply(p) == {d \in proc[p].pending : d.gate \notin Resolved(p)}

\* The ends a pass of process p may have come to: a manual pause wins over
\* parked gates, and a process told to terminate launches nothing more.
PassEnds(p) ==
    {end \in {"Completed", "Rejected", "AwaitingApproval", "Paused", "Failed"} :
       CASE end = "Failed" -> TRUE
         [] end = "Paused" -> proc[p].tok
         [] end = "AwaitingApproval" ->
              ~proc[p].tok /\ proc[p].parked # {} /\ ToApply(p) = {}
         [] OTHER ->
              /\ ~proc[p].tok /\ proc[p].parked = {} /\ ToApply(p) = {}
              /\ end = "Rejected" =>
                   PathScoped /\ \E d \in proc[p].view \cup proc[p].applied :
                                    d.verdict = "rejected"}

\* finish_runner: under the run lock, against the record as it is.
Finish(p, end) ==
    LET applied == proc[p].applied
        left    == [rec EXCEPT !.decisions = Unapplied(@, applied)]
        parked  == IF end = "AwaitingApproval" THEN proc[p].parked ELSE {}
        new     == DecisionsOn(left, parked)
    IN  /\ Executing(p) /\ end \in PassEnds(p)
        /\ \/ /\ rec.status = "Cancelled"
              /\ Exit(p)
              /\ UNCHANGED rec
           \/ /\ rec.status # "Cancelled" /\ new # {}
              /\ proc' = [proc EXCEPT ![p].pending = @ \cup AddedTo(p, new),
                                      ![p].parked = @ \ {d.gate : d \in new}]
              /\ UNCHANGED rec
           \/ /\ rec.status # "Cancelled" /\ new = {}
              /\ rec' = ApplyEnd(left, end, parked, applied # {})
              /\ Exit(p)
        /\ UNCHANGED <<spawner, pauseMark, pausing, history, clock, budget,
                       taken>>

\* run_workflow_catching_panic: the panicked runner's process is still there
\* when fail_in_flight decides, its registration is not.
Panic(p) ==
    /\ Executing(p) /\ Spend("crash")
    /\ rec' = IF rec.status = "Running" /\ (rec.pid = p \/ ~HasLiveRunner)
              THEN FinalizeFailed(rec) ELSE rec
    /\ Exit(p)
    /\ UNCHANGED <<spawner, pauseMark, pausing, history, clock, taken>>

\* A process dies (killed, out of memory) and writes nothing.
Crash(p) ==
    /\ Alive(p) /\ Spend("crash")
    /\ Exit(p)
    /\ UNCHANGED <<rec, spawner, pauseMark, pausing, history, clock, taken>>

-----------------------------------------------------------------------------
(* How a process becomes the runner of an existing run. *)

\* resume_decided reads the step results the runner will replay.
ReadResults(p) ==
    /\ proc[p].pc = "decided"
    /\ proc' = [proc EXCEPT ![p].pc = "ready", ![p].view = history]
    /\ UNCHANGED <<rec, spawner, pauseMark, pausing, history, clock, budget,
                   taken>>

\* claim_runner, then the GateBook of the claimed run: decisions its history
\* already shows are retired, the in-memory approval (dated now) fills in.
Claim(p) ==
    LET retired == {d \in rec.decisions : InHistory(d, proc[p].view)}
        open    == rec.decisions \ retired
        mem     == {[gate |-> g, verdict |-> "approved", at |-> clock + 1,
                     by |-> "memory"] :
                      g \in {proc[p].mem} \ ({None} \cup {o.gate : o \in open})}
    IN  /\ proc[p].pc = "ready"
        /\ IF rec.status \in Terminal \/ LiveRunnerSeenBy(p)
           THEN Exit(p) /\ UNCHANGED <<rec, clock>>
           ELSE /\ rec' = [rec EXCEPT !.pid = p]
                /\ clock' = IF mem = {} THEN clock ELSE clock + 1
                /\ proc' = [proc EXCEPT ![p] =
                     [FreeProcess EXCEPT !.pc      = "run",
                                         !.view    = proc[p].view,
                                         !.pending = open \cup mem,
                                         !.applied = retired,
                                         !.parked  = rec.awaiting \ Resolved(p),
                                         !.sig     = proc[p].sig]]
        /\ UNCHANGED <<spawner, pauseMark, pausing, history, budget, taken>>

\* `workflow resume' loads the run: decisions recorded on it go the
\* resume_decided way.
ResumeToDecided(p) ==
    /\ proc[p].pc = "resume"
    /\ rec.status \in {"AwaitingApproval", "Running"} /\ rec.decisions # {}
    /\ proc' = [proc EXCEPT ![p] = [FreeProcess EXCEPT !.pc = "decided"]]
    /\ UNCHANGED <<rec, spawner, pauseMark, pausing, history, clock, budget,
                   taken>>

\* Otherwise: reap the run of a dead runner, refuse, or clear the pause
\* marker and read the step results.
ResumeLoad(p) ==
    LET reaps == /\ ~proc[p].unf /\ rec.status = "Running"
                 /\ rec.pid # None /\ ~HasLiveRunner
        now   == IF reaps THEN FinalizeFailed(rec) ELSE rec
        refused == \/ proc[p].unf /\ now.status \in Terminal
                   \/ now.status \in {"Running", "Completed",
                                      "AwaitingApproval"}
                   \/ HasLiveRunner
    IN  /\ proc[p].pc = "resume"
        /\ rec.status \in {"AwaitingApproval", "Running"} =>
             rec.decisions = {}
        /\ rec' = now
        /\ IF refused
           THEN Exit(p) /\ UNCHANGED pauseMark
           ELSE /\ proc' = [proc EXCEPT ![p] =
                     [FreeProcess EXCEPT !.pc = "loaded", !.orig = now.status,
                                         !.view = history]]
                /\ pauseMark' = FALSE
        /\ UNCHANGED <<spawner, pausing, history, clock, budget, taken>>

\* Mutant: the flip is no compare-and-swap.
StillAnything(p) == TRUE

\* modify_if_status: the record still has the status the resume loaded.
StillAsLoaded(p) == rec.status = proc[p].orig

\* mark_resumed under modify_if_status: the resume takes the run.
Flip(p) ==
    /\ proc[p].pc = "loaded"
    /\ IF StillAsLoaded(p)
       THEN /\ rec' = MarkResumed(rec, p)
            /\ proc' = [proc EXCEPT ![p] =
                 [FreeProcess EXCEPT !.pc = "ready", !.view = proc[p].view]]
            /\ taken' = (taken \/ \E q \in Proc : Executing(q))
       ELSE Exit(p) /\ UNCHANGED <<rec, taken>>
    /\ UNCHANGED <<spawner, pauseMark, pausing, history, clock, budget>>

\* The gate an approve or reject with --gate g (None: none named) is about.
Targets(g) == IF g # None THEN rec.awaiting \cap {g}
              ELSE IF Cardinality(rec.awaiting) = 1 THEN rec.awaiting ELSE {}

\* `workflow approve': record the decision, carry it in memory, resume.  A
\* sole gate whose timeout has passed is expired first, and a path-scoped
\* one's rejection is applied the same way.
ApproveStep(p) ==
    /\ proc[p].pc = "approve"
    /\ \/ /\ ExpiresFirst(rec)
          /\ \E g \in rec.awaiting : rec' = ExpireGate(rec, g, clock + 1)
          /\ clock' = IF rec'.decisions # rec.decisions THEN clock + 1
                      ELSE clock
          /\ IF clock' # clock
             THEN proc' = [proc EXCEPT ![p] =
                             [FreeProcess EXCEPT !.pc = "decided"]]
             ELSE Exit(p)
       \/ /\ ~ExpiresFirst(rec) /\ rec.status = "AwaitingApproval"
          /\ \E g \in Targets(proc[p].gate) :
               LET d == [gate |-> g, verdict |-> "approved",
                         at |-> clock + 1, by |-> proc[p].by]
               IN  /\ rec' = RecordDecision(rec, d)
                   /\ proc' = [proc EXCEPT ![p] =
                        [FreeProcess EXCEPT !.pc = "decided",
                                            !.mem = g]]
          /\ clock' = clock + 1
       \/ /\ ~ExpiresFirst(rec)
          /\ rec.status # "AwaitingApproval" \/ Targets(proc[p].gate) = {}
          /\ Exit(p)
          /\ UNCHANGED <<rec, clock>>
    /\ UNCHANGED <<spawner, pauseMark, pausing, history, budget, taken>>

-----------------------------------------------------------------------------
(* Operator commands. *)

OperatorApprove(p, g) ==
    /\ g \in rec.awaiting /\ Spend("operator")
    /\ Start(p, "approve", FALSE, g, "human")
    /\ UNCHANGED <<rec, spawner, pauseMark, pausing, history, clock, taken>>

OperatorResume(p) ==
    /\ Spend("operator")
    /\ Start(p, "resume", FALSE, None, "human")
    /\ UNCHANGED <<rec, spawner, pauseMark, pausing, history, clock, taken>>

\* What rejecting gate g leaves of the record, and whether a runner is to
\* apply it.
Rejected(g) ==
    IF ExpiresFirst(rec) THEN ExpireGate(rec, g, clock + 1)
    ELSE RejectGate(rec, [gate |-> g, verdict |-> "rejected",
                          at |-> clock + 1, by |-> "human"])

CanReject(g) == rec.status = "AwaitingApproval" /\ g \in rec.awaiting

\* `workflow reject': on a path-scoped run the process goes on to apply it.
OperatorReject(p, g) ==
    /\ CanReject(g) /\ Spend("operator")
    /\ rec' = Rejected(g)
    /\ IF PendingOn(rec', g) # {}
       THEN Start(p, "decided", FALSE, None, "human") /\ clock' = clock + 1
       ELSE UNCHANGED <<proc, clock>>
    /\ UNCHANGED <<spawner, pauseMark, pausing, history, taken>>

\* RunStore::cancel: a run parked at its one gate with no runner is rejected
\* there, any other is marked Cancelled and its runner sent SIGTERM.
Cancel ==
    /\ Spend("cancel")
    /\ rec.status \notin Terminal
    /\ IF /\ rec.status = "AwaitingApproval" /\ ~HasLiveRunner
          /\ rec.decisions = {} /\ Cardinality(rec.awaiting) <= 1
       THEN /\ rec' = Finalize(rec,
                        IF /\ SoleGateOverdue(rec)
                           /\ \E g \in rec.awaiting : OnTimeout[g] = "fail"
                        THEN "Failed" ELSE "Rejected")
            /\ UNCHANGED proc
       ELSE /\ rec' = MarkCancelled(rec)
            /\ proc' = IF HasLiveRunner
                       THEN [proc EXCEPT ![rec.pid].sig = TRUE] ELSE proc
    /\ UNCHANGED <<spawner, pauseMark, pausing, history, clock, taken>>

\* RunStore::pause, and the pause marker written after it.
Pause ==
    /\ rec.status = "Running" /\ ~pausing /\ Spend("pause")
    /\ rec' = [rec EXCEPT !.status = "Paused"]
    /\ pausing' = TRUE
    /\ UNCHANGED <<proc, spawner, pauseMark, history, clock, taken>>

SetPauseMarker ==
    /\ pausing
    /\ pauseMark' = TRUE
    /\ pausing' = FALSE
    /\ UNCHANGED <<rec, proc, spawner, history, clock, budget, taken>>

-----------------------------------------------------------------------------
(* Web requests: the control plane records, and asks for a runner. *)

\* request_runner_for: not when a runner is there to apply the decision.
AskForRunner(r, g) ==
    IF PendingOn(r, g) = {} \/ HasLiveRunner THEN r ELSE Mark(r, g)

WebApprove(g) ==
    /\ rec.status = "AwaitingApproval" /\ g \in rec.awaiting /\ Spend("web")
    /\ rec' = AskForRunner(
                IF ExpiresFirst(rec) THEN ExpireGate(rec, g, clock + 1)
                ELSE RecordDecision(rec, [gate |-> g, verdict |-> "approved",
                                          at |-> clock + 1, by |-> "human"]),
                g)
    /\ clock' = IF PendingOn(rec', g) # {} THEN clock + 1 ELSE clock
    /\ UNCHANGED <<proc, spawner, pauseMark, pausing, history, taken>>

WebReject(g) ==
    /\ CanReject(g) /\ Spend("web")
    /\ rec' = AskForRunner(Rejected(g), g)
    /\ clock' = IF PendingOn(rec', g) # {} THEN clock + 1 ELSE clock
    /\ UNCHANGED <<proc, spawner, pauseMark, pausing, history, taken>>

\* POST /resume of a paused run: the marker only.
WebResume ==
    /\ rec.status = "Paused" /\ Spend("web")
    /\ rec' = Mark(rec, None)
    /\ UNCHANGED <<proc, spawner, pauseMark, pausing, history, clock, taken>>

\* POST /retry of a finished run: the marker, and its `workflow resume'.
WebRetry(p) ==
    /\ rec.status \in {"Failed", "Rejected", "Cancelled"}
    /\ Spend("web")
    /\ rec' = Mark(rec, None)
    /\ Start(p, "resume", FALSE, None, "human")
    /\ UNCHANGED <<spawner, pauseMark, pausing, history, clock, taken>>

-----------------------------------------------------------------------------
(* cp serve: the resume worker. *)

\* list_pending_resume and claim_resume.
WorkerClaim ==
    /\ spawner["worker"].pc = "idle"
    /\ rec.marked /\ ~rec.claimed
    /\ \/ rec.status \in {"AwaitingApproval", "Paused"}
       \/ rec.status = "Running" /\ rec.decisions # {}
    /\ rec' = [rec EXCEPT !.claimed = TRUE]
    /\ spawner' = [spawner EXCEPT !["worker"].pc = "claimed"]
    /\ UNCHANGED <<proc, pauseMark, pausing, history, clock, budget, taken>>

\* resume_one_run: reload, choose the subcommand, spawn the child.
WorkerSpawn(p) ==
    /\ spawner["worker"].pc = "claimed" /\ rec.marked
    /\ rec' = [rec EXCEPT !.readers = @ \cup {"worker"}]
    /\ spawner' = [spawner EXCEPT !["worker"].pc = "spawned"]
    /\ IF rec.status = "Paused" \/ rec.decisions # {}
       THEN Start(p, "resume", TRUE, None, "human")
       ELSE Start(p, "approve", FALSE, rec.markGate, "marker")
    /\ UNCHANGED <<pauseMark, pausing, history, clock, budget, taken>>

\* The child cannot be spawned, or the marker is gone by the reload.
WorkerSpawnNothing ==
    /\ spawner["worker"].pc = "claimed"
    /\ IF rec.marked THEN Spend("crash") ELSE UNCHANGED budget
    /\ rec' = IF rec.marked THEN [rec EXCEPT !.readers = @ \cup {"worker"}]
              ELSE rec
    /\ spawner' = [spawner EXCEPT !["worker"].pc = "spawned"]
    /\ UNCHANGED <<proc, pauseMark, pausing, history, clock, taken>>

\* give_back_resume, of either spawner.
GiveBack(s) ==
    /\ spawner[s].pc = "spawned"
    /\ rec' = [GiveBackResume(rec, s) EXCEPT !.readers = @ \ {s}]
    /\ spawner' = [spawner EXCEPT ![s] = IdleSpawner]
    /\ UNCHANGED <<proc, pauseMark, pausing, history, clock, budget, taken>>

\* Mutant: a claim whose spawner died or gave up is never stale.
LeaseHeldForEver == FALSE /\ UNCHANGED vars

\* A claim's lease runs out: RESUME_LEASE is minutes, a spawn and its give
\* back are not, so only a claim no live spawner is holding.
LeaseExpire ==
    /\ rec.claimed
    /\ \A s \in Spawner : spawner[s].pc \notin {"claimed", "spawned"}
    /\ rec' = [rec EXCEPT !.claimed = FALSE]
    /\ UNCHANGED <<proc, spawner, pauseMark, pausing, history, clock, budget,
                   taken>>

-----------------------------------------------------------------------------
(* cp serve: the gate sweep. *)

\* A parked gate's expires_at passes.
Overdue(g) ==
    /\ rec.status = "AwaitingApproval"
    /\ g \in rec.awaiting \ rec.overdue /\ OnTimeout[g] # "none"
    /\ rec' = [rec EXCEPT !.overdue = @ \cup {g}]
    /\ UNCHANGED <<proc, spawner, pauseMark, pausing, history, clock, budget,
                   taken>>

\* expire_gate_if_overdue, `fail' and `reject': the sweep starts a runner for
\* a rejection it recorded.
SweepExpire(g) ==
    /\ rec.status = "AwaitingApproval" /\ spawner["sweep"].pc = "idle"
    /\ g \in rec.overdue /\ OnTimeout[g] \in {"fail", "reject"}
    /\ LET expired == ExpireGate(rec, g, clock + 1)
       IN IF PendingOn(expired, g) # {}
          THEN /\ rec' = [expired EXCEPT !.readers =
                            IF rec.marked THEN @ \cup {"sweep"} ELSE @]
               /\ spawner' = [spawner EXCEPT !["sweep"] =
                    [pc |-> "look", cmd |-> "resume", gate |-> None]]
               /\ clock' = clock + 1
          ELSE rec' = expired /\ UNCHANGED <<spawner, clock>>
    /\ UNCHANGED <<proc, pauseMark, pausing, history, budget, taken>>

\* hand_off_timed_out_approve looks at the run again; the marker is taken as
\* this gate's when it names it, or names none and it is the sole one.
SweepHandOff(g) ==
    /\ rec.status = "AwaitingApproval" /\ spawner["sweep"].pc = "idle"
    /\ g \in rec.overdue /\ OnTimeout[g] = "approve"
    /\ LET own == /\ rec.marked
                  /\ \/ rec.markGate = g
                     \/ rec.markGate = None /\ Cardinality(rec.awaiting) = 1
       IN rec' = [rec EXCEPT !.readers = IF own THEN @ \cup {"sweep"} ELSE @]
    /\ spawner' = [spawner EXCEPT !["sweep"] =
                     [pc |-> "look", cmd |-> "approve", gate |-> g]]
    /\ UNCHANGED <<proc, pauseMark, pausing, history, clock, budget, taken>>

\* claim_resume: taken, or the sweep backs off.
SweepClaim ==
    /\ spawner["sweep"].pc = "look"
    /\ IF rec.claimed \/ rec.status = "Cancelled"
       THEN /\ spawner' = [spawner EXCEPT !["sweep"] = IdleSpawner]
            /\ rec' = [rec EXCEPT !.readers = @ \ {"sweep"}]
       ELSE /\ spawner' = [spawner EXCEPT !["sweep"].pc = "claimed"]
            /\ rec' = [rec EXCEPT !.claimed = TRUE]
    /\ UNCHANGED <<proc, pauseMark, pausing, history, clock, budget, taken>>

SweepSpawn(p) ==
    /\ spawner["sweep"].pc = "claimed"
    /\ Start(p, spawner["sweep"].cmd, spawner["sweep"].cmd = "resume",
             spawner["sweep"].gate, "timeout")
    /\ spawner' = [spawner EXCEPT !["sweep"].pc = "spawned"]
    /\ UNCHANGED <<rec, pauseMark, pausing, history, clock, budget, taken>>

\* The spawn fails: the claim stays and its lease is the backoff.
SweepSpawnFails ==
    /\ spawner["sweep"].pc = "claimed" /\ Spend("crash")
    /\ spawner' = [spawner EXCEPT !["sweep"] = IdleSpawner]
    /\ rec' = [rec EXCEPT !.readers = @ \ {"sweep"}]
    /\ UNCHANGED <<proc, pauseMark, pausing, history, clock, taken>>

\* reap_if_orphaned.
SweepReap ==
    /\ rec.status = "Running" /\ rec.pid # None /\ ~HasLiveRunner
    /\ rec' = FinalizeFailed(rec)
    /\ UNCHANGED <<proc, spawner, pauseMark, pausing, history, clock, budget,
                   taken>>

\* request_runner_for_stranded_decisions, once a lease has passed.
Rerequest ==
    /\ Stranded(rec) /\ ~HasLiveRunner
    /\ rec' = Mark(rec, None)
    /\ UNCHANGED <<proc, spawner, pauseMark, pausing, history, clock, budget,
                   taken>>

\* `cp serve' dies; its claim and its children stay.
CpCrash ==
    /\ \E s \in Spawner : spawner[s].pc # "idle"
    /\ Spend("crash")
    /\ spawner' = [s \in Spawner |-> IdleSpawner]
    /\ rec' = [rec EXCEPT !.readers = {}]
    /\ UNCHANGED <<proc, pauseMark, pausing, history, clock, taken>>

-----------------------------------------------------------------------------
\* What runner p does by itself.
RunnerStep(p) ==
    \/ SeePause(p)
    \/ \E g \in Gate : Park(p, g)
    \/ \E d \in proc[p].pending : Apply(p, d)
    \/ Poll(p)
    \/ \E end \in PassEnds(p) : Finish(p, end)

\* What a command does to become the runner.
CommandStep(p) ==
    \/ ReadResults(p) \/ Claim(p) \/ ResumeToDecided(p) \/ ResumeLoad(p)
    \/ Flip(p) \/ ApproveStep(p)

OperatorStep ==
    \/ \E p \in Proc, g \in Gate : OperatorApprove(p, g) \/ OperatorReject(p, g)
    \/ \E p \in Proc : OperatorResume(p) \/ WebRetry(p)
    \/ \E g \in Gate : WebApprove(g) \/ WebReject(g)
    \/ WebResume \/ Cancel \/ Pause \/ SetPauseMarker

WorkerStep ==
    \/ WorkerClaim \/ WorkerSpawnNothing
    \/ \E p \in Proc : WorkerSpawn(p)
    \/ GiveBack("worker")

SweepStep ==
    \/ \E g \in Gate : SweepExpire(g) \/ SweepHandOff(g)
    \/ SweepClaim \/ SweepSpawnFails \/ SweepReap \/ Rerequest
    \/ \E p \in Proc : SweepSpawn(p)
    \/ GiveBack("sweep")

Next ==
    \/ \E p \in Proc : RunnerStep(p) \/ CommandStep(p) \/ Panic(p) \/ Crash(p)
    \/ OperatorStep \/ WorkerStep \/ SweepStep \/ LeaseExpire \/ CpCrash
    \/ \E g \in Gate : Overdue(g)

Spec == Init /\ [][Next]_vars

-----------------------------------------------------------------------------
(* Safety. *)

\* At most one process executes the run (claim_runner), unless a resume took
\* it over from one that was still executing it: every step that gives the
\* run to a process is the claim, and the claim alone.
OneRunner ==
    ~taken => \A p, q \in Proc : Executing(p) /\ Executing(q) => p = q

\* A gate is never parked and decided at once: what finish_runner parks it
\* has checked, under the same lock, against the decisions recorded.
ParkedXorDecided ==
    \A d \in rec.decisions : d.gate \notin rec.awaiting

\* A Cancelled on disk is overwritten by nothing but a resume that loaded
\* the run as Cancelled (update_unless_cancelled, modify_if_status).
CancelledKept ==
    [][rec.status = "Cancelled" /\ rec'.status # "Cancelled" =>
         \E p \in Proc : proc[p].pc = "loaded" /\ proc[p].orig = "Cancelled"]_vars

\* A recorded decision leaves run.json when a runner's history holds a row
\* for it, or with the whole run's cancellation, and in no other way.
DecisionKept ==
    [][\A d \in rec.decisions \ rec'.decisions :
         \/ rec'.status = "Cancelled"
         \/ \E row \in history : /\ row.gate = d.gate
                                 /\ row.verdict = d.verdict
                                 /\ row.at >= d.at]_vars

\* A gate that stays parked keeps its deadline: no resume, no sibling's
\* decision and no runner's final write restarts its timeout.
DeadlineKept ==
    [][\A g \in rec.overdue \ rec'.overdue : g \notin rec'.awaiting]_vars

\* On a single-cursor run a rejection finalizes the run and is never left for
\* a runner, whose loop applies approvals only: it would park at the gate for
\* ever (take_approval).
LegacyRejectsFinalize ==
    ~PathScoped => \A d \in rec.decisions : d.verdict = "approved"

-----------------------------------------------------------------------------
(* Liveness, under the scheduling of the processes: a process that can take  *)
(* a step takes one, the two loops of cp serve keep polling, a lease runs    *)
(* out.  People and faults owe nothing.                                      *)

Fairness ==
    /\ \A p \in Proc : WF_vars(RunnerStep(p)) /\ WF_vars(CommandStep(p))
    /\ WF_vars(SetPauseMarker)
    /\ WF_vars(WorkerClaim)
    /\ WF_vars(WorkerSpawnNothing \/ \E p \in Proc : WorkerSpawn(p))
    /\ \A s \in Spawner : WF_vars(GiveBack(s))
    /\ WF_vars(LeaseExpire)
    /\ \A g \in Gate : WF_vars(Overdue(g)) /\ WF_vars(SweepExpire(g))
    /\ \A g \in Gate : SF_vars(SweepHandOff(g))
    /\ SF_vars(SweepClaim /\ ~rec.claimed)
    /\ WF_vars(SweepSpawnFails \/ \E p \in Proc : SweepSpawn(p))
    /\ WF_vars(SweepReap) /\ WF_vars(Rerequest)

FairSpec == Spec /\ Fairness

\* A decision recorded on an unfinished, unpaused run is applied (and leaves
\* the record), or the run ends or is paused: no crash of the runner, of the
\* child spawned for it or of cp serve strands it
\* (request_runner_for_stranded_decisions).
DecisionServed ==
    \A g \in Gate :
      PendingOn(rec, g) # {} /\ rec.status \in {"Running", "AwaitingApproval"}
        ~> PendingOn(rec, g) = {} \/ rec.status \in Terminal \cup {"Paused"}

\* A gate with a timeout does not stay parked for ever, whatever the
\* operators, the resume worker and crashes do meanwhile.
TimeoutServed ==
    \A g \in Gate :
      g \in rec.awaiting /\ OnTimeout[g] # "none"
        ~> g \notin rec.awaiting \/ rec.status # "AwaitingApproval"

-----------------------------------------------------------------------------
(* What the source says of itself and its processes do not keep; README.md   *)
(* has the constants of a counterexample to each.                            *)

\* RunStatus::is_terminal: no transition is expected out of a terminal
\* status, but for a resume that takes the finished run back.
TerminalKept ==
    [][rec.status \in Terminal /\ rec'.status # rec.status =>
         \E p \in Proc : proc[p].pc = "loaded" /\ proc[p].orig = rec.status]_vars

\* mark_resumed: no leftover marker approves a gate as the marker's actor.
NoApprovalByMarker == \A d \in rec.decisions : d.by # "marker"

\* modify_if_status, resume_run: no resume starts a second process racing the
\* one that executes the run.
NeverTaken == ~taken

\* hand_off_timed_out_approve, claim_runner: a gate that has its result is
\* not parked again by a runner that started from older results.
ResolvedStaysResolved ==
    [][\A g \in rec'.awaiting \ (rec.awaiting \cup LoopGate) :
         \A row \in history : row.gate # g]_vars
=============================================================================
