---------------------------- MODULE ChildLedger -----------------------------
(***************************************************************************)
(* The children ledgers (rupu-launch/src/ledger.rs, reaper.rs, and         *)
(* launcher.rs as far as it writes them), for one process child: the run   *)
(* that launches it, the runs that continue that run after a crash or a    *)
(* pause and take the child on under its handle, and the sweep for         *)
(* orphans.  Each run has a process and a ledger of its own; a process may *)
(* die between any two writes.                                             *)
(***************************************************************************)
EXTENDS Naturals, FiniteSets

CONSTANTS
    Run,       \* the first run and those that continue one, as they begin
    Prior,     \* the run that each continues, itself for the first
    Sweeper,   \* reap_orphaned_children, in some other process
    MaxGone,   \* bounds the ends: processes told to go, finished or dead; the tree's
    Nobody

First == {p \in Run : Prior[p] = p}
Stopper == Run \cup {Sweeper}

ASSUME RunAssumption ==
    /\ Run \subseteq Nat /\ First # {}
    /\ Prior \in [Run -> Run] /\ \A q \in Run : Prior[q] <= q
    /\ Sweeper \notin Run /\ Nobody \notin Stopper
ASSUME BoundAssumption == MaxGone \in Nat

VARIABLES
    life,   \* each run's process
    pc,     \* where it is in taking the child on
    saw,    \* the end it has read in the prior's ledger
    ledger, \* its ledger's record of the child
    proc,   \* the child's process it started
    own,    \* how that process's own records say it ended
    job,    \* what each stopper is about to record and whom it signals
    over,   \* the run at the root of the tree ended for good
    gone,
    slipped \* processes whose launcher or stopper died before it was done

vars == <<life, pc, saw, ledger, proc, own, job, over, gone, slipped>>

\* A process that was told to go is Stopping; one whose run pauses or ends is
\* Pausing or Ending while it stops its child.
Leaving == {"Stopping", "Pausing", "Ending"}
Life == {"Unborn", "Live", "Dead"} \cup Leaving
Pc == {"Reap", "Look", "Claim", "Take", "Record", "Close", "Done", "Refused"}
End == {"None", "Interrupted", "Stopped", "Done", "Abandoned"}

\* What `fold' makes of a ledger; `pid': a process is recorded.
Record == [there : BOOLEAN, pid : BOOLEAN, end : End, by : Run \cup {Nobody},
           claim : Run \cup {Nobody}]
NoRecord == [there |-> FALSE, pid |-> FALSE, end |-> "None", by |-> Nobody, claim |-> Nobody]
NoJob == [at |-> Nobody, end |-> "None", kill |-> FALSE, step |-> "None"]

Init ==
    /\ life = [p \in Run |-> IF p \in First THEN "Live" ELSE "Unborn"]
    /\ pc = [p \in Run |-> IF p \in First THEN "Take" ELSE "Reap"]
    /\ saw = [p \in Run |-> IF p \in First THEN "Interrupted" ELSE "None"]
    /\ ledger = [p \in Run |-> NoRecord]
    /\ proc = [p \in Run |-> "None"] /\ own = [p \in Run |-> "NotStarted"]
    /\ job = [s \in Stopper |-> NoJob]
    /\ over = FALSE /\ gone = 0 /\ slipped = {}

Go(p, l) == pc' = [pc EXCEPT ![p] = l]
Set(p, r) == ledger' = [ledger EXCEPT ![p] = r]
Here == <<life, pc, saw>>
Alive(p) == life[p] \notin {"Unborn", "Dead"}
Child == <<proc, own>>
Rest == <<over, gone, slipped>>
OneLess == gone < MaxGone /\ gone' = gone + 1
------------------------------------------------------------------------------
(* The ledger.                                                             *)

Interrupted(r) == r.by = Nobody /\ r.end = "Interrupted"
HasFinalEnd(r) == r.by # Nobody \/ r.end \notin {"None", "Interrupted"}

\* Mutant: whoever writes last has the say.
AppendLast(r, end) == [r EXCEPT !.end = end]

\* append, of a `finished' line: dropped after a final end, and the second
\* `interrupted'.
AppendEnd(r, end) ==
    IF HasFinalEnd(r) \/ (end = "Interrupted" /\ Interrupted(r)) THEN r
                                                                ELSE [r EXCEPT !.end = end]

\* Mutant: a claim whose process is gone never led to anything.
NeverTookOn(h) == FALSE

\* The ledger of the run that held the claim records the child.
TookOn(h) == ledger[h].there

\* Mutant: the record of a claim's child is not closed for it.
LeaveOpen(r) == r

CloseFor(r) == [r EXCEPT !.by = r.claim, !.claim = Nobody]

\* ledger::claim, one critical section: refused, closed for the run that took the
\* child on and died, or taken.
Claim(q) ==
    LET p == Prior[q]
        r == ledger[p]
        held == r.claim \notin {Nobody, q}
    IN
    /\ Alive(q) /\ pc[q] = "Claim"
    /\ \/ /\ r.by # Nobody \/ (held /\ Alive(r.claim))
          /\ Go(q, "Done") /\ UNCHANGED ledger
       \/ /\ r.by = Nobody /\ held /\ ~Alive(r.claim) /\ TookOn(r.claim)
          /\ Set(p, CloseFor(r)) /\ Go(q, "Done")
       \/ /\ r.by = Nobody /\ (held => ~Alive(r.claim) /\ ~TookOn(r.claim))
          /\ Set(p, [r EXCEPT !.claim = q]) /\ Go(q, "Take")
    /\ UNCHANGED <<life, saw, Child, job, Rest>>
------------------------------------------------------------------------------
(* Stopping and recording: an end is recorded, then its process signalled. *)

Orphaned(p) == ledger[p].there /\ ledger[p].end = "None" /\ ledger[p].by = Nobody /\ ~Alive(p)
Spawning(p) == proc[p] = "Running" /\ ~ledger[p].pid
Leads(p) == proc[p] = "Running" /\ ledger[p].pid

\* orphan: a process that runs is stopped, else its own records say.
OrphanEnd(p, state) == IF ~Leads(p) /\ own[p] = "Done" THEN "Done" ELSE state

\* What a stopper has read, of which it will act on each.
Start(s, p, end) ==
    /\ job[s] = NoJob
    /\ job' = [job EXCEPT ![s] = [at |-> p, end |-> end, kill |-> Leads(p), step |-> "Record"]]

\* interrupt_orphans, the first step of continuing a run.
Reap(q) ==
    LET p == Prior[q] IN
    /\ Alive(q) /\ pc[q] = "Reap" /\ job[q] = NoJob
    /\ IF Orphaned(p) THEN Start(q, p, OrphanEnd(p, "Interrupted")) ELSE UNCHANGED job
    /\ Go(q, "Look")
    /\ UNCHANGED <<life, saw, ledger, Child, Rest>>

\* reap_orphaned_children.
Sweep ==
    /\ \E p \in Run :
         \/ /\ Orphaned(p)
            /\ Start(Sweeper, p, OrphanEnd(p, IF over THEN "Abandoned" ELSE "Interrupted"))
         \/ /\ Interrupted(ledger[p]) /\ ledger[p].there /\ over
            /\ job[Sweeper] = NoJob
            /\ job' = [job EXCEPT ![Sweeper] =
                  [at |-> p, end |-> "Abandoned", kill |-> FALSE, step |-> "Record"]]
    /\ UNCHANGED <<Here, ledger, Child, Rest>>

\* Mutant: stopping does not wait for a spawn.
SpawnsOrNot(p) == TRUE

\* spawn_gate: no child's process waits for its line.
SpawnsDone(p) == pc[p] # "Record" /\ ~Spawning(p)

\* stop_live_children: a process told to go spawns nothing more, once a spawn and
\* its line are done, and stops the child it has.
BeginStopping(p) ==
    /\ life[p] = "Live" /\ SpawnsDone(p)
    /\ life' = [life EXCEPT ![p] = "Stopping"]
    /\ OneLess
    /\ UNCHANGED <<pc, saw, ledger, Child, job, over, slipped>>

Unfinished(p) == ledger[p].there /\ ledger[p].end = "None" /\ ledger[p].by = Nobody

StopLive(p) ==
    /\ life[p] = "Stopping" /\ Unfinished(p)
    /\ Start(p, p, "Interrupted")
    /\ UNCHANGED <<Here, ledger, Child, Rest>>

RecordEnd(s) ==
    LET j == job[s] IN
    /\ j.step = "Record"
    /\ Set(j.at, AppendEnd(ledger[j.at], j.end))
    /\ job' = [job EXCEPT ![s] = IF j.kill THEN [j EXCEPT !.step = "Signal"] ELSE NoJob]
    /\ UNCHANGED <<Here, Child, Rest>>

\* SIGTERM, the grace, SIGKILL: the process is gone when the stopper goes on.
Signal(s) ==
    LET j == job[s] IN
    /\ j.step = "Signal"
    /\ proc' = [proc EXCEPT ![j.at] = "Gone"]
    /\ own' = [own EXCEPT ![j.at] = IF proc[j.at] = "Running" THEN "Stopped" ELSE @]
    /\ job' = [job EXCEPT ![s] = NoJob]
    /\ UNCHANGED <<Here, ledger, Rest>>
------------------------------------------------------------------------------
(* continue_children.                                                      *)

Begin(q) ==
    /\ life[q] = "Unborn" /\ ~over
    /\ \A p \in Run : p < q => life[p] # "Unborn"
    /\ life' = [life EXCEPT ![q] = "Live"]
    /\ UNCHANGED <<pc, saw, ledger, Child, job, Rest>>

\* The ledger as it reads after the orphans were dealt with.
Look(q) ==
    LET r == ledger[Prior[q]] IN
    /\ Alive(q) /\ pc[q] = "Look" /\ job[q] = NoJob
    /\ saw' = [saw EXCEPT ![q] = r.end]
    /\ Go(q, IF r.there /\ r.by = Nobody /\ r.end # "None" THEN "Claim" ELSE "Done")
    /\ UNCHANGED <<life, ledger, Child, job, Rest>>

\* The child's own records: those of a continuation that never started are its
\* forerunner's.
OwnRecord[p \in Run] ==
    IF own[p] = "NotStarted" /\ p \notin First THEN OwnRecord[Prior[p]] ELSE own[p]

EndedItself(q) == saw[q] \notin {"Interrupted", "Stopped"} \/ OwnRecord[Prior[q]] = "Done"

\* A child that did not end by itself is continued: its process is spawned while
\* there is a slot (the line follows), or it is recorded and queued; a launch may
\* be refused, as any is in a process that is stopping.
Launch(q) ==
    /\ Alive(q) /\ pc[q] = "Take" /\ ~EndedItself(q)
    /\ \/ /\ life[q] # "Stopping"
          /\ proc' = [proc EXCEPT ![q] = "Running"]
          /\ own' = [own EXCEPT ![q] = "Unended"]
          /\ Go(q, "Record") /\ UNCHANGED ledger
       \/ /\ Set(q, [NoRecord EXCEPT !.there = TRUE])
          /\ Go(q, "Close") /\ UNCHANGED Child
       \/ Go(q, "Close") /\ UNCHANGED <<ledger, Child>>
    /\ UNCHANGED <<life, saw, job, Rest>>

\* One that did is restored as it ended.
Restore(q) ==
    /\ Alive(q) /\ pc[q] = "Take" /\ EndedItself(q)
    /\ Set(q, [NoRecord EXCEPT !.there = TRUE,
                 !.end = IF saw[q] \in {"Interrupted", "Stopped"} THEN "Done" ELSE saw[q]])
    /\ Go(q, "Close")
    /\ UNCHANGED <<life, saw, Child, job, Rest>>

RecordLaunch(q) ==
    /\ Alive(q) /\ pc[q] = "Record"
    /\ Set(q, [NoRecord EXCEPT !.there = TRUE, !.pid = TRUE])
    /\ Go(q, "Close")
    /\ UNCHANGED <<life, saw, Child, job, Rest>>

\* The prior's record is closed, or the claim released.
Closed(q, r) ==
    IF ledger[q].there THEN [r EXCEPT !.by = IF @ = Nobody THEN q ELSE @, !.claim = Nobody]
                       ELSE [r EXCEPT !.claim = IF @ = q THEN Nobody ELSE @]

Close(q) ==
    /\ Alive(q) /\ pc[q] = "Close"
    /\ ledger' = IF q \in First THEN ledger
                 ELSE [ledger EXCEPT ![Prior[q]] = Closed(q, @)]
    /\ Go(q, IF ledger[q].there THEN "Done" ELSE "Refused")
    /\ saw' = [saw EXCEPT ![q] = "None"]
    /\ UNCHANGED <<life, Child, job, Rest>>

\* A queued child gets its slot; its process is recorded next.
SpawnQueued(q) ==
    /\ life[q] = "Live" /\ proc[q] = "None" /\ Unfinished(q)
    /\ proc' = [proc EXCEPT ![q] = "Running"] /\ own' = [own EXCEPT ![q] = "Unended"]
    /\ UNCHANGED <<Here, ledger, job, Rest>>

RecordSpawn(q) ==
    /\ Alive(q) /\ ledger[q].there /\ Spawning(q)
    /\ Set(q, [ledger[q] EXCEPT !.pid = TRUE])
    /\ UNCHANGED <<Here, Child, job, Rest>>
------------------------------------------------------------------------------
(* The child, its watcher, and the end of a process.                       *)

\* The child's run ends: done or failed, stopped from outside, or crashed.
Exit(p) ==
    /\ proc[p] = "Running"
    /\ proc' = [proc EXCEPT ![p] = "Gone"]
    /\ \E e \in {"Done", "Stopped", "Unended"} : own' = [own EXCEPT ![p] = e]
    /\ UNCHANGED <<Here, ledger, job, Rest>>

\* The run pauses or ends: finish_run stops its child, and waits for it to go.
Finish(p) ==
    /\ life[p] = "Live" /\ pc[p] \in {"Done", "Refused"} /\ ~Spawning(p)
    /\ life' \in {[life EXCEPT ![p] = "Pausing"], [life EXCEPT ![p] = "Ending"]}
    /\ OneLess
    /\ UNCHANGED <<pc, saw, ledger, Child, job, over, slipped>>

Terminate(p) ==
    /\ life[p] \in {"Pausing", "Ending"} /\ Leads(p)
    /\ proc' = [proc EXCEPT ![p] = "Gone"] /\ own' = [own EXCEPT ![p] = "Stopped"]
    /\ UNCHANGED <<Here, ledger, job, Rest>>

\* Mutant: what the child's records say is its end.
SettledAsItSays(p) == own[p]

\* watch_process settles the child once it is gone, or never had a process.
Settled(p) ==
    IF own[p] = "Done" THEN "Done"
    ELSE IF life[p] \in {"Stopping", "Pausing"} THEN "Interrupted"
    ELSE IF life[p] = "Ending" THEN "Abandoned"
    ELSE IF own[p] = "Stopped" THEN "Stopped"
    ELSE "Done"

Settle(p) ==
    /\ Alive(p) /\ ledger[p].there /\ ~HasFinalEnd(ledger[p])
    /\ proc[p] = "Gone" \/ (proc[p] = "None" /\ life[p] \in Leaving)
    /\ AppendEnd(ledger[p], Settled(p)) # ledger[p]
    /\ Set(p, AppendEnd(ledger[p], Settled(p)))
    /\ UNCHANGED <<Here, Child, job, Rest>>

\* A process leaves, its child recorded.
Leave(p) ==
    /\ life[p] \in Leaving /\ job[p] = NoJob /\ pc[p] \in {"Done", "Refused"}
    /\ ~Unfinished(p)
    /\ life' = [life EXCEPT ![p] = "Dead"]
    /\ Go(p, "Done")
    /\ UNCHANGED <<saw, ledger, Child, job, Rest>>

\* A process dies, with what it was about to do.
Signalled(s) ==
    {p \in Run : job[s].at = p /\ job[s].step = "Signal" /\ proc[p] = "Running"}

Die(s) ==
    /\ s \in Run => Alive(s)
    /\ OneLess
    /\ life' = [p \in Run |-> IF p = s THEN "Dead" ELSE life[p]]
    /\ pc' = [p \in Run |-> IF p = s THEN "Done" ELSE pc[p]]
    /\ saw' = [p \in Run |-> IF p = s THEN "None" ELSE saw[p]]
    /\ job' = [job EXCEPT ![s] = NoJob]
    /\ slipped' = slipped \cup Signalled(s) \cup {p \in Run : p = s /\ Spawning(p)}
    /\ UNCHANGED <<ledger, Child, over>>

\* The run at the root ends for good.
EndForGood ==
    /\ ~over /\ over' = TRUE /\ OneLess
    /\ UNCHANGED <<Here, ledger, Child, job, slipped>>

Continue(q) ==
    Reap(q) \/ Look(q) \/ Claim(q) \/ Launch(q) \/ Restore(q) \/ RecordLaunch(q) \/ Close(q)

Next ==
    \/ \E p \in Run :
         \/ Begin(p) \/ Continue(p) \/ SpawnQueued(p) \/ RecordSpawn(p) \/ Exit(p)
         \/ BeginStopping(p) \/ StopLive(p) \/ Finish(p) \/ Terminate(p) \/ Settle(p)
         \/ Leave(p)
    \/ \E s \in Stopper : RecordEnd(s) \/ Signal(s) \/ Die(s)
    \/ Sweep \/ EndForGood

\* A process that continues a run goes on with what it is about, until it dies.
Fairness ==
    \A q \in Run \ First : WF_vars(Continue(q) \/ RecordEnd(q) \/ Signal(q))

Spec == Init /\ [][Next]_vars
FairSpec == Spec /\ Fairness
------------------------------------------------------------------------------
TypeOK ==
    /\ life \in [Run -> Life] /\ pc \in [Run -> Pc] /\ saw \in [Run -> End]
    /\ ledger \in [Run -> Record]
    /\ proc \in [Run -> {"None", "Running", "Gone"}]
    /\ own \in [Run -> {"NotStarted", "Unended", "Stopped", "Done"}]
    /\ job \in [Stopper -> [at : Run \cup {Nobody}, end : End, kill : BOOLEAN,
                            step : {"None", "Record", "Signal"}]]
    /\ over \in BOOLEAN /\ gone \in 0..MaxGone /\ slipped \subseteq Run

\* Of the runs that continue one run, at most one takes its child on, however
\* they race and wherever they die.
TakenOnOnce ==
    \A p \in Run : \A q, r \in Run \ First :
        Prior[q] = p /\ Prior[r] = p /\ ledger[q].there /\ ledger[r].there => q = r

\* A child ends once: the first of those who record a final end, or that it was
\* taken on, is the one that stands.
EndStands ==
    [][\A p \in Run : /\ HasFinalEnd(ledger[p]) => ledger'[p].end = ledger[p].end
                      /\ ledger[p].by # Nobody => ledger'[p].by = ledger[p].by]_vars

\* A process of the child that runs is the one its run's ledger says is running,
\* or is about to be recorded or signalled; but for those whose launcher or
\* stopper died right then.
NoStray ==
    \A p \in Run \ slipped : proc[p] = "Running" =>
        \/ Unfinished(p)
        \/ ~ledger[p].there /\ pc[p] = "Record" /\ Alive(p)
        \/ \E s \in Stopper : job[s].at = p /\ job[s].step = "Signal"

\* A run that comes to claim a child whose claimer is gone takes it on, or closes
\* it for the one that did: it is not left to nobody, unless the launch is
\* refused or this claimer dies too.
TakenOn ==
    \A q \in Run \ First : \A h \in Run \ (First \cup {q}) :
        LET p == Prior[q]
            Continuers == {r \in Run \ First : Prior[r] = p}
        IN
        (pc[q] = "Claim" /\ ledger[p].claim = h /\ ~Alive(h)) ~>
            \/ \E r \in Continuers : ledger[r].there /\ ledger[p].by = r
            \/ \E r \in Continuers : pc[r] = "Refused"
            \/ \E r \in Continuers \ {h} : r \in {q, ledger[p].claim} /\ ~Alive(r)

\* A child recorded interrupted was stopped already: while its process still
\* runs, it is not started again; but for processes that slipped.
OneRunner ==
    \A p, q \in Run \ slipped : proc[p] = "Running" /\ proc[q] = "Running" => p = q
==============================================================================
