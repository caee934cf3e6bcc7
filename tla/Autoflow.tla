------------------------------ MODULE Autoflow ------------------------------
(***************************************************************************)
(* One issue's autoflow claim and its active lock, under processes that    *)
(* tick (rupu-cli/src/cmd/autoflow_runtime.rs, autoflow.rs, and            *)
(* rupu-workspace/src/autoflow_claim_store.rs): `autoflow serve', a        *)
(* scheduled `autoflow tick'.  A tick works from the claim as it listed it *)
(* and from the lock as it last read it; a process may die at any step,    *)
(* and a lease runs out whether its holder lives.  Wakes are Wakes.tla's.  *)
(***************************************************************************)
EXTENDS Naturals, FiniteSets

CONSTANTS
    Ticker,     \* processes that tick
    Leased,     \* claim.ttl is set
    Reconciled, \* reconcile_every is set
    Outcome,    \* the outcomes that runs have
    MaxCrashes, \* bounds the processes that die
    Nobody

ASSUME TickerAssumption == Nobody \notin Ticker
ASSUME SettingAssumption == Leased \in BOOLEAN /\ Reconciled \in BOOLEAN
\* What a run's outcome makes of the claim, and whether it has a workflow to
\* dispatch, with whatever status.  Claimed stands for what runs again when it is
\* due, awaiting external events or a retry; Complete for what rests, blocked too.
ASSUME OutcomeAssumption ==
    Outcome \subseteq [status : {"Claimed", "AwaitHuman", "Complete"}, dispatch : BOOLEAN]
ASSUME BoundAssumption == MaxCrashes \in Nat

VARIABLES
    claim,   \* claim.toml
    lock,    \* .lock
    tick,    \* each process's tick
    crashes,
    lapsed   \* a lock ran out, or was deleted with its claim

vars == <<claim, lock, tick, crashes, lapsed>>

\* Open: a run is parked or paused.  Failed: or it was rejected or cancelled.  Broken:
\* it completed, and its outcome cannot be applied: no output of the step, output
\* that does not parse or fits no schema, a dispatch for another issue, a retry
\* without a time, or the contract of a workflow that the run was not for.
NoOutcome(s) == [status |-> s, dispatch |-> FALSE]
NoRun == NoOutcome("None")
Open == NoOutcome("Open")
Failed == NoOutcome("Failed")
Broken == NoOutcome("Broken")
Result == Outcome \cup {Failed, Broken}
Status == {"None", "Claimed", "Running", "AwaitHuman", "Complete", "Released"}
Runnable == {"Claimed", "Running"}

\* `last': what the claim's last run has come to, as its workflow reads it; `due':
\* updated longer ago than the interval or the backoff; `during': the ticks that
\* had begun.
Claim == [status : Status, dispatch : BOOLEAN, last : Result \cup {NoRun, Open},
          due : BOOLEAN, during : SUBSET Ticker]
NoClaim == [status |-> "None", dispatch |-> FALSE, last |-> NoRun, due |-> FALSE, during |-> {}]

NoLock == [by |-> Nobody, written |-> FALSE, expired |-> FALSE]
Held == lock.by # Nobody

Pc == {"Idle", "List", "Decide", "Acquire", "Reap", "Write", "Load", "Cycle", "Drop",
       "Dispatched"}
\* The claim a tick has listed, or a cycle loaded, and what it reaps a lock for.
Tick == [pc : Pc, snap : Claim, back : {"Decide", "Acquire"}]
NoTick == [pc |-> "Idle", snap |-> NoClaim, back |-> "Decide"]

Init ==
    /\ claim = NoClaim /\ lock = NoLock
    /\ tick = [p \in Ticker |-> NoTick]
    /\ crashes = 0 /\ lapsed = FALSE

At(p, l) == tick[p].pc = l
Set(p, t) == tick' = [tick EXCEPT ![p] = t]
Go(p, l) == Set(p, [tick[p] EXCEPT !.pc = l])
\* On, with the claim it listed no longer of use.
Leave(p, l) == Set(p, [tick[p] EXCEPT !.pc = l, !.snap = NoClaim])
Store == <<claim, lock>>
Past == <<crashes, lapsed>>

InTick == {p \in Ticker : ~At(p, "Idle")}

\* A record saved with a new `updated_at', which only a dispatch compares with a tick.
Stamped(c) == [c EXCEPT !.due = FALSE, !.during = IF c.dispatch THEN InTick ELSE {}]
------------------------------------------------------------------------------
(* The active lock.                                                        *)

\* Mutant: a lock is never past its lease.
NeverExpired == FALSE

\* Mutant: a lock is taken for one past its lease.
AnyLock == Held

Expired == Held /\ lock.expired

\* A lock that was made and not yet written does not parse.
Unreadable == Held /\ ~lock.written

Reaping(p, back) == Set(p, [tick[p] EXCEPT !.pc = "Reap", !.back = back])

\* The file is removed, whichever lock it holds by now.
Reap(p) ==
    /\ At(p, "Reap")
    /\ lock' = NoLock
    /\ Set(p, [tick[p] EXCEPT !.pc = tick[p].back, !.back = "Decide"])
    /\ UNCHANGED <<claim, Past>>

\* The guard of a cycle removes the file, whichever lock it holds by now.
Drop(p) ==
    /\ At(p, "Drop")
    /\ lock' = NoLock
    /\ Go(p, "Idle")
    /\ UNCHANGED <<claim, Past>>
------------------------------------------------------------------------------
(* A tick and the issue.                                                   *)

\* A tick begins: every record there is was updated before it.
Begin(p) ==
    /\ At(p, "Idle")
    /\ claim' = [claim EXCEPT !.during = @ \ {p}]
    /\ tick' = [q \in Ticker |->
                   IF q = p THEN [tick[p] EXCEPT !.pc = "List"]
                            ELSE [tick[q] EXCEPT !.snap.during = @ \ {p}]]
    /\ UNCHANGED <<lock, Past>>

List(p) ==
    /\ At(p, "List")
    /\ Set(p, [tick[p] EXCEPT !.pc = "Decide", !.snap = claim])
    /\ UNCHANGED <<Store, Past>>

\* Mutant: a dispatch is a status of its own.
StatusOfOutcome(c, o) ==
    Stamped([c EXCEPT !.status = IF o.dispatch THEN "Dispatch" ELSE o.status, !.last = o])

\* apply_terminal_run_to_claim, where the outcome can be applied.
FromOutcome(c, o) ==
    Stamped([c EXCEPT !.status = o.status, !.dispatch = o.dispatch, !.last = o])

Blocked(c) == Stamped([c EXCEPT !.status = "Complete"])

\* reconcile_claim_from_last_run: the claim, as its last run leaves it: parked or
\* paused, failed, or with an outcome; {}: an error, on each tick, for an outcome
\* that cannot be applied.
Reconcile(c) ==
    IF c.status \notin {"AwaitHuman", "Running"} \/ c.last = NoRun THEN {c}
    ELSE IF c.last = Open THEN {[c EXCEPT !.status = "AwaitHuman"], c}
    ELSE IF c.last = Failed THEN {Blocked(c)}
    ELSE {FromOutcome(c, o) : o \in Outcome \cap {c.last}}

\* due_by_reconcile_interval, or a wake.
DueToRun(c, woken) == c.status \in Runnable /\ (woken \/ (Reconciled /\ c.due))

MayYield(c) == ~Held /\ c.status \in Runnable

\* What the tick does with the claim it listed: with none, or one that is released
\* or yields to another workflow, a winner may take the issue, if max_active
\* allows; a claim that rests is saved; one with a dispatch is dispatched, to an
\* autoflow or to a plain workflow, unless it was updated in this tick; any other
\* runs when it is due, and is saved as it was listed when it is not.
Decide(p) ==
    LET s == tick[p].snap IN
    /\ At(p, "Decide")
    /\ IF s.status = "None"
       THEN (Leave(p, "Acquire") \/ Leave(p, "Idle")) /\ UNCHANGED claim
       ELSE IF Expired THEN Reaping(p, "Decide") /\ UNCHANGED claim
       ELSE \/ /\ Unreadable \/ Reconcile(s) = {}
               /\ Leave(p, "Idle") /\ UNCHANGED claim
            \/ \E c \in Reconcile(s), woken \in BOOLEAN : ~Unreadable /\
                 \/ /\ MayYield(c)
                    /\ claim' = Stamped([c EXCEPT !.status = "Released", !.dispatch = FALSE])
                    /\ Leave(p, "Acquire") \/ Leave(p, "Idle")
                 \/ /\ c.status = "Released"
                    /\ claim' = c
                    /\ Leave(p, "Acquire") \/ Leave(p, "Idle")
                 \/ /\ c.status = "Complete"
                    /\ claim' = c /\ Leave(p, "Idle")
                 \/ /\ c.status \in Runnable \cup {"AwaitHuman"} /\ c.dispatch
                    /\ IF p \in c.during THEN claim' = c /\ Leave(p, "Idle")
                       ELSE \/ UNCHANGED claim /\ Leave(p, "Acquire")
                            \/ /\ claim' = Stamped([c EXCEPT !.status = "Running",
                                                             !.dispatch = FALSE])
                               /\ Set(p, [tick[p] EXCEPT !.pc = "Dispatched", !.snap = c])
                 \/ /\ c.status \in Runnable \cup {"AwaitHuman"} /\ ~c.dispatch
                    /\ IF ~Held /\ DueToRun(c, woken) THEN UNCHANGED claim /\ Leave(p, "Acquire")
                                                  ELSE claim' = c /\ Leave(p, "Idle")
    /\ UNCHANGED <<lock, Past>>

\* try_acquire_active_lock: the file is made, then written; if another holds the
\* lock, the issue fails for this tick.
Acquire(p) ==
    /\ At(p, "Acquire")
    /\ IF Expired THEN Reaping(p, "Acquire") /\ UNCHANGED lock
       ELSE IF Held THEN Go(p, "Idle") /\ UNCHANGED lock
       ELSE lock' = [NoLock EXCEPT !.by = p] /\ Go(p, "Write")
    /\ UNCHANGED <<claim, Past>>

\* The file may be gone by now, and another's in its place.
Write(p) ==
    /\ At(p, "Write")
    /\ lock' = IF lock.by = p THEN [lock EXCEPT !.written = TRUE] ELSE lock
    /\ Go(p, "Load")
    /\ UNCHANGED <<claim, Past>>

\* What a workflow makes of a run that may be another's: it has the outcome in
\* common, or cannot apply it.
AsRead(l) == IF l \in Outcome THEN {l, Broken} ELSE {l}

\* execute_autoflow_cycle, under the lock: the claim, saved as Running and for the
\* workflow of this cycle, with the last run as it was.
Load(p) ==
    /\ At(p, "Load")
    /\ \E l \in AsRead(claim.last) :
         claim' = Stamped([claim EXCEPT !.status = "Running", !.dispatch = FALSE, !.last = l])
    /\ Set(p, [tick[p] EXCEPT !.pc = "Cycle", !.snap = claim'])
    /\ UNCHANGED <<lock, Past>>

\* `autoflow run'.
ByHand(p) ==
    /\ At(p, "Idle")
    /\ \/ claim.status \in {"None", "Complete", "Released"}
       \/ Leased /\ (Held => lock.expired)
    /\ Go(p, "Acquire")
    /\ UNCHANGED <<Store, Past>>

\* What is saved last of a run that is parked or paused, or failed or came to
\* nothing that can be applied, which blocks the claim, whatever it has to dispatch.
Opens(c, s) == Stamped([c EXCEPT !.status = s, !.last = Open])
Fails(c) == {Blocked([c EXCEPT !.last = l]) : l \in {Failed, Broken}}

\* What a cycle saves last; the run that cannot even be started leaves the one before.
Ends(c) ==
    {FromOutcome(c, o) : o \in Outcome}
        \cup {Opens(c, "AwaitHuman"), Opens(c, "Running"), Blocked(c)} \cup Fails(c)

\* The run ends; the record is as the cycle loaded it, but for what the end sets.
EndCycle(p) ==
    /\ At(p, "Cycle")
    /\ claim' \in Ends(tick[p].snap)
    /\ Leave(p, "Drop")
    /\ UNCHANGED <<lock, Past>>

\* A dispatched workflow's last run, which the claim's own workflow will read.
Dispatches(c) ==
    {Opens(c, "AwaitHuman"), Opens(c, "Claimed"), Blocked(c)}
        \cup {Stamped([c EXCEPT !.status = "Claimed", !.last = l]) : l \in Result}

\* execute_pending_dispatch_workflow, its end; it takes no lock.
EndDispatch(p) ==
    /\ At(p, "Dispatched")
    /\ claim' \in Dispatches([tick[p].snap EXCEPT !.dispatch = FALSE])
    /\ Leave(p, "Idle")
    /\ UNCHANGED <<lock, Past>>
------------------------------------------------------------------------------
(* Time, the operator, and deaths.                                         *)

\* What a parked or paused run comes to in the end, for all who have it.  Where a
\* tick still has an earlier one, that one may as well have come to its end before.
Settled(c, l) == IF c.last = Open THEN [c EXCEPT !.last = l] ELSE c

Settle ==
    /\ \E c \in {claim} \cup {tick[p].snap : p \in Ticker} : c.last = Open
    /\ \E l \in Result :
         /\ claim' = Settled(claim, l)
         /\ tick' = [p \in Ticker |-> [tick[p] EXCEPT !.snap = Settled(@, l)]]
    /\ UNCHANGED <<lock, Past>>

\* A lease runs out: no cycle renews it.
RunOut ==
    /\ Leased /\ Held /\ lock.written /\ ~lock.expired
    /\ lock' = [lock EXCEPT !.expired = TRUE] /\ lapsed' = TRUE
    /\ UNCHANGED <<claim, tick, crashes>>

\* Every record there is ages, listed or stored: what is due is a matter of its
\* `updated_at'.
Age ==
    /\ claim.status \in Runnable /\ ~claim.due
    /\ claim' = [claim EXCEPT !.due = TRUE]
    /\ tick' = [p \in Ticker |->
                   [tick[p] EXCEPT !.snap.due = tick[p].snap.status \in Runnable]]
    /\ UNCHANGED <<lock, Past>>

\* `autoflow release', or the cleanup of a claim that is finished: the issue's
\* directory goes, with what is in it.
Release ==
    /\ claim.status # "None"
    /\ claim' = NoClaim /\ lock' = NoLock
    /\ lapsed' = (lapsed \/ Held)
    /\ UNCHANGED <<tick, crashes>>

Crash(p) ==
    /\ crashes < MaxCrashes /\ ~At(p, "Idle")
    /\ Set(p, NoTick)
    /\ crashes' = crashes + 1
    /\ UNCHANGED <<Store, lapsed>>

Step(p) ==
    \/ Begin(p) \/ List(p) \/ Decide(p) \/ Acquire(p) \/ Write(p) \/ Load(p) \/ Reap(p)
    \/ EndCycle(p) \/ Drop(p) \/ EndDispatch(p)

Next ==
    \/ \E p \in Ticker : Step(p) \/ ByHand(p) \/ Crash(p)
    \/ Settle \/ RunOut \/ Age \/ Release

\* Processes that tick go on, and time passes.
Fairness == (\A p \in Ticker : WF_vars(Step(p))) /\ WF_vars(RunOut) /\ WF_vars(Age)

Spec == Init /\ [][Next]_vars
FairSpec == Spec /\ Fairness
------------------------------------------------------------------------------
TypeOK ==
    /\ claim \in Claim
    /\ lock \in [by : Ticker \cup {Nobody}, written : BOOLEAN, expired : BOOLEAN]
    /\ tick \in [Ticker -> Tick]
    /\ crashes \in 0..MaxCrashes /\ lapsed \in BOOLEAN

InCycle(p) == tick[p].pc \in {"Write", "Load", "Cycle", "Drop"}

\* Whatever ticks save over each other, two cycles never work on the issue at once
\* until a lease runs out or a release takes a lock away.
CyclesExclude ==
    ~lapsed => \A p, q \in Ticker : InCycle(p) /\ InCycle(q) => p = q

Working == \E p \in Ticker : tick[p].pc \in {"Cycle", "Dispatched"}

\* A claim that is to be worked on is worked on, also one whose process died in its
\* cycle, if it has a lease and an interval; but for two kinds that fail on each
\* tick.  The claim is over a run whose outcome cannot be applied: one that was
\* paused and completed so, one that a cycle for another workflow left behind when
\* it died, or a dispatched workflow's.  Or the lock's process died before it was
\* written.
TakenUp ==
    (claim.status \in Runnable) ~>
        \/ Working \/ claim.status \notin Runnable
        \/ Reconcile(claim) = {} \/ (Unreadable /\ ~At(lock.by, "Write"))

\* Without those two, which no later tick undoes, it would be every claim.
NoWedge == (claim.status \in Runnable) ~> (Working \/ claim.status \notin Runnable)

\* An active cycle holds the lock for as long as it runs.
OneCycle == \A p, q \in Ticker : InCycle(p) /\ InCycle(q) => p = q
==============================================================================
