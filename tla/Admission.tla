----------------------------- MODULE Admission ------------------------------
(***************************************************************************)
(* The process-wide ceiling on agent runs (rupu-runtime/src/admission.rs)  *)
(* and the in-process children that go through it (rupu-launch's           *)
(* launcher).  A run takes one slot and holds it until the children it     *)
(* launched have ended; while it holds it, it lends one slot to them, so   *)
(* that a parent waiting for a child cannot starve it.                     *)
(*                                                                         *)
(* tokio's semaphores are fair: a permit that is given back goes to the    *)
(* first that waits for it, and to a newcomer only when nobody does.       *)
(***************************************************************************)
EXTENDS Integers, FiniteSets

CONSTANTS
    Run,        \* agent runs of one process
    Parent,     \* who launches each, or None
    Ceiling,    \* [runtime].max_concurrent_jobs
    MaxChildren,\* [dispatch].max_concurrent_children, per parent
    Restored,   \* children taken over from an interrupted attempt
    Global,     \* the ceiling's semaphore
    None

Children(r) == {c \in Run : Parent[c] = r}

\* Launching nests to a bounded depth: every set of runs has one without a
\* child in it.
ASSUME RunAssumption ==
    /\ IsFiniteSet(Run) /\ Global \notin Run /\ None \notin Run /\ Global # None
    /\ Parent \in [Run -> Run \cup {None}]
    /\ \A S \in SUBSET Run : S # {} => \E r \in S : Children(r) \cap S = {}
ASSUME LimitAssumption ==
    /\ Ceiling \in Nat \ {0} /\ MaxChildren \in Nat \ {0}
    /\ Restored \subseteq {r \in Run : Parent[r] # None}

VARIABLES
    phase,  \* where each run is
    holds,  \* the semaphore its permit came from
    free,   \* permits left in the ceiling's semaphore and in each run's lend
    lends,  \* the runs whose lend is registered
    lend,   \* the lend a run found when it asked
    ahead   \* the runs that were waiting when it asked

vars == <<phase, holds, free, lends, lend, ahead>>

Semaphore == Run \cup {Global}
Phase == {"Idle", "Started", "Assembled", "Queued", "Admitted", "Running",
          "Joining", "Ending", "Cut", "Ended"}

\* A child that has one of its parent's slots, and has not given it back.
Busy == {"Assembled", "Queued", "Admitted", "Running", "Joining", "Ending"}

Init ==
    /\ phase = [r \in Run |-> "Idle"]
    /\ holds = [r \in Run |-> None]
    /\ free = [s \in Semaphore |-> IF s = Global THEN Ceiling ELSE 0]
    /\ lends = {}
    /\ lend = [r \in Run |-> None]
    /\ ahead = [r \in Run |-> {}]

Move(r, p) == phase' = [phase EXCEPT ![r] = p]

Unadmitted == UNCHANGED <<holds, free, lends, lend, ahead>>

Settled(r) == \A c \in Children(r) : phase[c] \in {"Idle", "Ended"}

\* Its parent has ended and stops what it never joined.
BeingStopped(r) ==
    /\ Parent[r] # None
    /\ phase[Parent[r]] \in {"Ending", "Cut"}

\* A run starts: by itself, dispatched by a running parent, or restored from
\* an interrupted attempt before its parent's own run asks for its slot.
Start(r) ==
    /\ phase[r] = "Idle"
    /\ \/ Parent[r] = None
       \/ /\ Parent[r] # None
          /\ phase[Parent[r]] = IF r \in Restored THEN "Assembled" ELSE "Running"
    /\ Move(r, "Started")
    /\ Unadmitted

HasSlot(r) ==
    Parent[r] # None =>
        Cardinality({c \in Children(Parent[r]) : phase[c] \in Busy}) < MaxChildren

\* It gets one of its parent's slots and is assembled.
Assemble(r) ==
    /\ phase[r] = "Started" /\ HasSlot(r)
    /\ Move(r, "Assembled")
    /\ Unadmitted

\* It could not be assembled, or was stopped while it waited for the slot.
NeverRuns(r) ==
    /\ \/ phase[r] = "Started" /\ (HasSlot(r) \/ BeingStopped(r))
       \/ phase[r] = "Assembled" /\ Settled(r)
    /\ Move(r, "Ended")
    /\ Unadmitted

\* Mutant: a run that finds no free slot waits for the ceiling alone.
NoLendArm(r, l) == {Global}

Sources(r, l) == {Global, l} \ {None}

Waiting(s) == {r \in Run : phase[r] = "Queued" /\ s \in Sources(r, lend[r])}

\* It has the permit of s, and lends one slot of its own from now on.
Take(r, s) ==
    /\ free' = [free EXCEPT ![s] = free[s] - 1, ![r] = 1]
    /\ holds' = [holds EXCEPT ![r] = s]
    /\ lends' = lends \cup {r}
    /\ Move(r, "Admitted")

LendOfParent(r) == IF Parent[r] \in lends THEN Parent[r] ELSE None

\* acquire_run: its parent's lend when that is free, else a free slot, else
\* it waits for whichever frees first.  The lend is looked up once.
Ask(r) ==
    /\ phase[r] = "Assembled"
    /\ LET l       == LendOfParent(r)
           Open(s) == free[s] > 0 /\ Waiting(s) = {}
       IN  /\ lend' = [lend EXCEPT ![r] = l]
           /\ ahead' = [ahead EXCEPT ![r] = {q \in Run : phase[q] = "Queued"}]
           /\ \/ l # None /\ Open(l) /\ Take(r, l)
              \/ ~ (l # None /\ Open(l)) /\ Open(Global) /\ Take(r, Global)
              \/ /\ \A s \in Sources(r, l) : ~ Open(s)
                 /\ Move(r, "Queued")
                 /\ UNCHANGED <<holds, free, lends>>

\* Mutant: the run at the head goes on without a permit to take.
GrantAnyway(r) ==
    /\ phase[r] = "Queued" /\ Take(r, Global)
    /\ UNCHANGED <<lend, ahead>>

Grant(r) ==
    /\ phase[r] = "Queued"
    /\ \E s \in Sources(r, lend[r]) :
         /\ free[s] > 0 /\ Waiting(s) \cap ahead[r] = {}
         /\ Take(r, s)
    /\ UNCHANGED <<lend, ahead>>

\* await_memory: there is memory, nobody can tell, or it waited long enough.
MemoryFound(r) ==
    /\ phase[r] = "Admitted"
    /\ Move(r, "Running")
    /\ Unadmitted

\* The children that a run waits for without a timeout: those it dispatched.  One
\* that was restored is joined by calls that time out, and the run goes on.
Back(r) == \A c \in Children(r) \ Restored : phase[c] \in {"Idle", "Ended"}

\* The run waits for its children.
Join(r) ==
    /\ phase[r] = "Running" /\ ~ Back(r)
    /\ Move(r, "Joining")
    /\ Unadmitted

Joined(r) ==
    /\ phase[r] = "Joining" /\ Back(r)
    /\ Move(r, "Running")
    /\ Unadmitted

\* The agent loop is over: the children it never joined are stopped.
Finish(r) ==
    /\ phase[r] = "Running"
    /\ Move(r, "Ending")
    /\ Unadmitted

\* Mutant: a borrowed permit goes back to the ceiling.
ReleaseToCeiling(r) ==
    /\ free' = [free EXCEPT ![Global] = free[Global] + 1]
    /\ holds' = [holds EXCEPT ![r] = None]
    /\ lends' = lends \ {r}
    /\ UNCHANGED <<lend, ahead>>

\* The permit drops, and withdraws the run's lend.
Release(r) ==
    /\ free' = [free EXCEPT ![holds[r]] = free[holds[r]] + 1]
    /\ holds' = [holds EXCEPT ![r] = None]
    /\ lends' = lends \ {r}
    /\ UNCHANGED <<lend, ahead>>

\* Mutant: a run that ends does not wait for the children it stops.
EndAtOnce(r) ==
    /\ phase[r] = "Ending"
    /\ Move(r, "Ended")
    /\ Release(r)

End(r) ==
    /\ phase[r] = "Ending" /\ Settled(r)
    /\ Move(r, "Ended")
    /\ Release(r)

\* A child that outlives its grace is dropped, with the permit it may hold;
\* its parent then stops what the child had launched.
Abort(r) ==
    /\ phase[r] \in Busy /\ BeingStopped(r)
    /\ Move(r, "Cut")
    /\ IF holds[r] = None THEN Unadmitted ELSE Release(r)

Swept(r) ==
    /\ phase[r] = "Cut" /\ Settled(r)
    /\ Move(r, "Ended")
    /\ Unadmitted

\* What a run does when its task is polled, or its parent stops it.
Step(r) ==
    \/ Assemble(r) \/ NeverRuns(r) \/ Ask(r) \/ Grant(r) \/ MemoryFound(r)
    \/ Joined(r) \/ Finish(r) \/ End(r) \/ Abort(r) \/ Swept(r)

Next == \E r \in Run : Start(r) \/ Join(r) \/ Step(r)

\* The runtime polls every task that can go on, memory is waited for at most a
\* minute, a child that is stopped has a grace, and an agent loop that waits
\* for nothing comes to its end: its turns are bounded.
Fairness == \A r \in Run : WF_vars(Step(r))

Spec == Init /\ [][Next]_vars
FairSpec == Spec /\ Fairness
------------------------------------------------------------------------------
TypeOK ==
    /\ phase \in [Run -> Phase]
    /\ holds \in [Run -> Semaphore \cup {None}]
    /\ free \in [Semaphore -> Nat]
    /\ lends \subseteq Run
    /\ lend \in [Run -> Run \cup {None}]
    /\ ahead \in [Run -> SUBSET Run]

\* However runs are admitted, stopped and dropped, no permit of the ceiling is
\* lost or made: acquire_run moves one between the semaphore and a run.
CeilingKept ==
    free[Global] + Cardinality({r \in Run : holds[r] = Global}) = Ceiling

\* A run works on a lent slot only while the lender still holds the slot it
\* lends, unless the lender was dropped after its grace; and a slot is lent to
\* one child at a time.
LentByAHolder ==
    \A r \in Run : holds[r] \in Run =>
        /\ holds[r] = Parent[r]
        /\ holds[Parent[r]] # None \/ phase[Parent[r]] = "Cut"
        /\ \A c \in Run : holds[c] = holds[r] => c = r

CanMove(r) ==
    \/ phase[r] \in {"Assembled", "Admitted", "Running", "Ending", "Cut"}
    \/ phase[r] = "Started" /\ HasSlot(r)
    \/ phase[r] = "Queued" /\ \E s \in Sources(r, lend[r]) : free[s] > 0
    \/ phase[r] = "Joining" /\ Back(r)

\* While a run waits for a slot, some run can go on: parents that wait for
\* children that wait for a slot never hold every slot (acquire_run's comment).
NoDeadlock ==
    (\E r \in Run : phase[r] = "Queued") => \E r \in Run : CanMove(r)

\* Every run that waits for a slot gets one, or is stopped.
Served == <>[](\A r \in Run : phase[r] # "Queued")
==============================================================================
