-------------------------- MODULE ChildLedgerProofs --------------------------
(***************************************************************************)
(* Proofs about the children ledgers, for any number of runs that continue *)
(* one another and of processes that end: one continuation of a run takes  *)
(* its child on, no process of a child runs unrecorded, and the final end  *)
(* of a record stands.                                                     *)
(***************************************************************************)
EXTENDS ChildLedger, TLAPS

Other == Run \ First

\* A ledger without the child has nothing about it.
Absent ==
    \A p \in Run : LET r == ledger[p] IN
        ~r.there => ~r.pid /\ r.end = "None" /\ r.by = Nobody /\ r.claim = Nobody

\* Where a process is says whether it lives, and whether its ledger and its child
\* have begun.
Places ==
    \A p \in Run :
        /\ life[p] = "Dead" => pc[p] = "Done"
        /\ life[p] = "Unborn" => pc[p] = "Reap"
        /\ life[p] \in {"Pausing", "Ending"} => pc[p] \in {"Done", "Refused"}
        /\ pc[p] \in {"Reap", "Look", "Claim"} => p \notin First
        /\ pc[p] \in {"Reap", "Look", "Claim", "Take", "Record"} => ~ledger[p].there
        /\ pc[p] \in {"Reap", "Look", "Claim", "Take"} => proc[p] = "None"

\* The child of a run that is continued has ended, at least for now.
EndedBefore ==
    /\ \A p \in Run : ledger[p].by # Nobody \/ ledger[p].claim # Nobody => ledger[p].end # "None"
    /\ \A q \in Other : pc[q] \in {"Claim", "Take", "Record", "Close"} =>
           ledger[Prior[q]].there /\ ledger[Prior[q]].end # "None"

\* Who takes a child on has the claim; who took it on has it still, or the record
\* is closed for it.
Claimed ==
    \A q \in Other :
        LET r == ledger[Prior[q]] IN
        /\ pc[q] \in {"Take", "Record", "Close"} => r.claim = q /\ r.by = Nobody
        /\ ledger[q].there => r.by = q \/ (r.by = Nobody /\ r.claim = q)

\* A process that goes has recorded what it spawned.
SpawnsRecorded ==
    \A p \in Run \ slipped : life[p] \in Leaving \cup {"Dead"} => pc[p] # "Record" /\ ~Spawning(p)

\* A stopper that will signal nobody has found no process, and there will be none.
Jobs ==
    \A s \in Stopper : LET j == job[s] IN
        j.step # "None" =>
            /\ j.at \in Run /\ j.end # "None" /\ ledger[j.at].there
            /\ j.step = "Record" /\ ~j.kill =>
                  \/ j.at \in slipped
                  \/ ledger[j.at].end # "None"
                  \/ proc[j.at] # "Running" /\ life[j.at] \in {"Stopping", "Dead"}

Inv == TypeOK /\ Absent /\ Places /\ EndedBefore /\ Claimed /\ SpawnsRecorded /\ Jobs /\ NoStray

USE RunAssumption, BoundAssumption DEF Stopper, First
------------------------------------------------------------------------------
(* Types.                                                                  *)

Job == [at : Run \cup {Nobody}, end : End, kill : BOOLEAN, step : {"None", "Record", "Signal"}]

LEMMA RecordType ==
  ASSUME NEW r \in Record, NEW e \in End, NEW x \in Run \cup {Nobody},
         NEW y \in Run \cup {Nobody}
  PROVE  /\ [r EXCEPT !.end = e] \in Record
         /\ [r EXCEPT !.claim = y] \in Record
         /\ [r EXCEPT !.by = x, !.claim = y] \in Record
         /\ [r EXCEPT !.pid = TRUE] \in Record
BY DEF Record

LEMMA NewRecordType ==
  ASSUME NEW e \in End
  PROVE  /\ NoRecord \in Record
         /\ [NoRecord EXCEPT !.there = TRUE] \in Record
         /\ [NoRecord EXCEPT !.there = TRUE, !.pid = TRUE] \in Record
         /\ [NoRecord EXCEPT !.there = TRUE, !.end = e] \in Record
BY DEF Record, NoRecord, End

LEMMA FieldType ==
  ASSUME NEW r \in Record
  PROVE  r.end \in End /\ r.by \in Run \cup {Nobody} /\ r.claim \in Run \cup {Nobody}
BY DEF Record

LEMMA AppendType ==
  ASSUME NEW r \in Record, NEW e \in End
  PROVE  AppendEnd(r, e) \in Record
BY RecordType DEF AppendEnd

LEMMA JobType ==
  /\ NoJob \in Job
  /\ \A j \in Job : [j EXCEPT !.step = "Signal"] \in Job /\ j.end \in End
                     /\ j.at \in Run \cup {Nobody}
  /\ \A p \in Run : \A e \in End : \A k \in BOOLEAN :
       [at |-> p, end |-> e, kill |-> k, step |-> "Record"] \in Job
BY DEF Job, NoJob, End

LEMMA StartType ==
  ASSUME TypeOK, NEW s \in Stopper, NEW p \in Run, NEW e \in End, Start(s, p, e)
  PROVE  job' \in [Stopper -> Job]
<1>1. Leads(p) \in BOOLEAN
  BY DEF Leads
<1> QED BY <1>1, JobType DEF Start, TypeOK, Job

LEMMA OrphanEndType == ASSUME NEW p \in Run, NEW e \in End PROVE OrphanEnd(p, e) \in End
BY DEF OrphanEnd, End

LEMMA InitType == Init => TypeOK
<1> SUFFICES ASSUME Init PROVE TypeOK
  OBVIOUS
<1>1. "None" \in End /\ "Interrupted" \in End /\ NoRecord \in Record /\ NoJob \in Job
  BY NewRecordType, JobType DEF End
<1>2. ledger \in [Run -> Record] /\ job \in [Stopper -> Job]
  BY <1>1 DEF Init
<1>3. /\ life \in [Run -> Life] /\ pc \in [Run -> Pc] /\ saw \in [Run -> End]
      /\ proc \in [Run -> {"None", "Running", "Gone"}]
      /\ own \in [Run -> {"NotStarted", "Unended", "Stopped", "Done"}]
  BY <1>1 DEF Init, Life, Leaving, Pc
<1>4. gone \in 0..MaxGone /\ slipped \subseteq Run
  BY DEF Init
<1>5. over \in BOOLEAN
  BY DEF Init
<1> QED BY <1>2, <1>3, <1>4, <1>5 DEF TypeOK, Job

LEMMA NextType == TypeOK /\ [Next]_vars => TypeOK'
<1> SUFFICES ASSUME TypeOK, [Next]_vars PROVE TypeOK'
  OBVIOUS
<1> USE DEF TypeOK, Life, Leaving, Pc, Go, Set, Here, Child, Rest, OneLess, Job
<1>1. ASSUME NEW q \in Run, Claim(q) PROVE TypeOK'
  <2>1. ledger[Prior[q]].claim \in Run \cup {Nobody}
    BY FieldType
  <2>2. /\ CloseFor(ledger[Prior[q]]) \in Record
        /\ [ledger[Prior[q]] EXCEPT !.claim = q] \in Record
    BY <2>1, RecordType DEF CloseFor, End
  <2> QED BY <1>1, <2>2 DEF Claim
<1>2. ASSUME NEW q \in Run, Reap(q) PROVE TypeOK'
  <2>1. OrphanEnd(Prior[q], "Interrupted") \in End
    BY OrphanEndType DEF End
  <2>2. job' \in [Stopper -> Job]
    BY <1>2, <2>1, StartType DEF Reap
  <2> QED BY <1>2, <2>2 DEF Reap
<1>3. CASE Sweep
  <2>1. job' \in [Stopper -> Job]
    <3>1. \A p \in Run : OrphanEnd(p, IF over THEN "Abandoned" ELSE "Interrupted") \in End
      BY OrphanEndType DEF End
    <3>2. \A p \in Run : [at |-> p, end |-> "Abandoned", kill |-> FALSE, step |-> "Record"] \in Job
      BY JobType DEF End
    <3>3. ASSUME NEW p \in Run,
                 job' = [job EXCEPT ![Sweeper] =
                     [at |-> p, end |-> "Abandoned", kill |-> FALSE, step |-> "Record"]]
          PROVE  job' \in [Stopper -> Job]
      BY <3>2, <3>3
    <3> QED BY <1>3, <3>1, <3>3, StartType DEF Sweep
  <2> QED BY <1>3, <2>1 DEF Sweep
<1>4. ASSUME NEW p \in Run, BeginStopping(p) PROVE TypeOK'
  BY <1>4 DEF BeginStopping
<1>5. ASSUME NEW p \in Run, StopLive(p) PROVE TypeOK'
  <2>1. job' \in [Stopper -> Job]
    BY <1>5, StartType DEF StopLive, End
  <2> QED BY <1>5, <2>1 DEF StopLive
<1>6. ASSUME NEW s \in Stopper, RecordEnd(s) PROVE TypeOK'
  <2> DEFINE j == job[s]
  <2>1. /\ j \in Job /\ j.end \in End
        /\ [j EXCEPT !.step = "Signal"] \in Job /\ NoJob \in Job
    BY JobType
  <2>2. j.at \in Run => AppendEnd(ledger[j.at], j.end) \in Record
    BY <2>1, AppendType
  <2>3. job' \in [Stopper -> Job]
    BY <1>6, <2>1 DEF RecordEnd
  <2>4. ledger' \in [Run -> Record]
    BY <1>6, <2>2 DEF RecordEnd
  <2> QED BY <1>6, <2>3, <2>4 DEF RecordEnd
<1>7. ASSUME NEW s \in Stopper, Signal(s) PROVE TypeOK'
  <2>1. proc' \in [Run -> {"None", "Running", "Gone"}]
    BY <1>7 DEF Signal
  <2>2. own' \in [Run -> {"NotStarted", "Unended", "Stopped", "Done"}]
    BY <1>7 DEF Signal
  <2>3. job' \in [Stopper -> Job]
    BY <1>7, JobType DEF Signal
  <2> QED BY <1>7, <2>1, <2>2, <2>3 DEF Signal
<1>8. ASSUME NEW q \in Run, Begin(q) PROVE TypeOK'
  BY <1>8 DEF Begin
<1>9. ASSUME NEW q \in Run, Look(q) PROVE TypeOK'
  BY <1>9, FieldType DEF Look
<1>10. ASSUME NEW q \in Run, Launch(q) PROVE TypeOK'
  <2>1. [NoRecord EXCEPT !.there = TRUE] \in Record
    BY NewRecordType DEF End
  <2>2. pc' \in [Run -> Pc]
    BY <1>10 DEF Launch
  <2>3. ledger' \in [Run -> Record]
    BY <1>10, <2>1 DEF Launch
  <2>4. /\ proc' \in [Run -> {"None", "Running", "Gone"}]
        /\ own' \in [Run -> {"NotStarted", "Unended", "Stopped", "Done"}]
    BY <1>10 DEF Launch
  <2> QED BY <1>10, <2>2, <2>3, <2>4 DEF Launch
<1>11. ASSUME NEW q \in Run, Restore(q) PROVE TypeOK'
  <2> DEFINE e == IF saw[q] \in {"Interrupted", "Stopped"} THEN "Done" ELSE saw[q]
  <2>1. e \in End
    BY DEF End
  <2>2. [NoRecord EXCEPT !.there = TRUE, !.end = e] \in Record
    BY <2>1, NewRecordType
  <2> QED BY <1>11, <2>2 DEF Restore
<1>12. ASSUME NEW q \in Run, RecordLaunch(q) PROVE TypeOK'
  <2>1. [NoRecord EXCEPT !.there = TRUE, !.pid = TRUE] \in Record
    BY NewRecordType DEF End
  <2> QED BY <1>12, <2>1 DEF RecordLaunch
<1>13. ASSUME NEW q \in Run, Close(q) PROVE TypeOK'
  <2>1. /\ Closed(q, ledger[Prior[q]]) \in Record
    <3>1. ledger[Prior[q]] \in Record
      OBVIOUS
    <3> DEFINE x == IF ledger[Prior[q]].by = Nobody THEN q ELSE ledger[Prior[q]].by
               y == IF ledger[Prior[q]].claim = q THEN Nobody ELSE ledger[Prior[q]].claim
    <3>2. x \in Run \cup {Nobody} /\ y \in Run \cup {Nobody}
      BY <3>1, FieldType
    <3>3. /\ [ledger[Prior[q]] EXCEPT !.by = x, !.claim = Nobody] \in Record
          /\ [ledger[Prior[q]] EXCEPT !.claim = y] \in Record
      BY <3>1, <3>2, RecordType DEF End
    <3> QED BY <3>3 DEF Closed
  <2>2. "None" \in End
    BY DEF End
  <2> QED BY <1>13, <2>1, <2>2 DEF Close
<1>14. ASSUME NEW q \in Run, SpawnQueued(q) PROVE TypeOK'
  BY <1>14 DEF SpawnQueued
<1>15. ASSUME NEW q \in Run, RecordSpawn(q) PROVE TypeOK'
  <2>1. [ledger[q] EXCEPT !.pid = TRUE] \in Record
    BY RecordType DEF End
  <2> QED BY <1>15, <2>1 DEF RecordSpawn
<1>22. ASSUME NEW p \in Run, Exit(p) PROVE TypeOK'
  <2>1. own' \in [Run -> {"NotStarted", "Unended", "Stopped", "Done"}]
    BY <1>22 DEF Exit
  <2> QED BY <1>22, <2>1 DEF Exit
<1>23. ASSUME NEW p \in Run, Terminate(p) PROVE TypeOK'
  BY <1>23 DEF Terminate
<1>16. ASSUME NEW p \in Run, Finish(p) PROVE TypeOK'
  BY <1>16 DEF Finish
<1>17. ASSUME NEW p \in Run, Settle(p) PROVE TypeOK'
  <2>1. Settled(p) \in End
    BY DEF Settled, End
  <2> QED BY <1>17, <2>1, AppendType DEF Settle
<1>18. ASSUME NEW p \in Run, Leave(p) PROVE TypeOK'
  BY <1>18 DEF Leave
<1>19. ASSUME NEW s \in Stopper, Die(s) PROVE TypeOK'
  <2>1. "None" \in End /\ NoJob \in Job
    BY JobType DEF End
  <2>2. slipped' \subseteq Run
    BY <1>19 DEF Die, Signalled
  <2> QED BY <1>19, <2>1, <2>2 DEF Die
<1>20. CASE EndForGood
  BY <1>20 DEF EndForGood
<1>21. CASE UNCHANGED vars
  BY <1>21 DEF vars
<1> QED
  BY <1>1, <1>2, <1>3, <1>4, <1>5, <1>6, <1>7, <1>8, <1>9, <1>10, <1>11, <1>12, <1>13, <1>14,
     <1>15, <1>16, <1>17, <1>18, <1>19, <1>20, <1>21, <1>22, <1>23 DEF Next, Continue

\* Each variable keeps its type: no step of the launcher, a stopper or a watcher
\* writes a record or picks up a job of another shape.
THEOREM ChildLedgerTypeCorrect == Spec => []TypeOK
BY InitType, NextType, PTL DEF Spec
------------------------------------------------------------------------------
(* The invariant, one step at a time.                                      *)

Kept == /\ Absent' /\ Places' /\ EndedBefore' /\ Claimed' /\ SpawnsRecorded' /\ Jobs'
        /\ NoStray'

\* What the writes do to the fields of a record.
LEMMA SetFields ==
  ASSUME TypeOK, NEW p \in Run, NEW r, Set(p, r)
  PROVE  ledger'[p] = r /\ \A x \in Run \ {p} : ledger'[x] = ledger[x]
BY DEF TypeOK, Set

LEMMA CloseForFields ==
  ASSUME NEW r \in Record
  PROVE  LET c == CloseFor(r) IN
           c.there = r.there /\ c.pid = r.pid /\ c.end = r.end /\ c.by = r.claim /\ c.claim = Nobody
BY DEF Record, CloseFor

\* A stopper picks a child up that has a process to signal, or will never have one.
LEMMA StartInv ==
  ASSUME Inv, NEW s \in Stopper, NEW p \in Run, NEW e \in End, Start(s, p, e), e # "None",
         ledger[p].there, p \notin slipped /\ ~Leads(p) => proc[p] # "Running",
         life[p] \in {"Stopping", "Dead"},
         UNCHANGED <<ledger, proc, life, slipped>>
  PROVE  Jobs'
<1>1. job' = [job EXCEPT ![s] = [at |-> p, end |-> e, kill |-> Leads(p), step |-> "Record"]]
  BY DEF Start
<1>2. \A t \in Stopper : t # s => job'[t] = job[t]
  BY <1>1 DEF Inv, TypeOK
<1>3. job'[s].at = p /\ job'[s].end = e /\ job'[s].step = "Record" /\ (job'[s].kill <=> Leads(p))
  BY <1>1 DEF Inv, TypeOK
<1> QED BY <1>2, <1>3 DEF Inv, Jobs

LEMMA ClaimInv ==
  ASSUME Inv, NEW q \in Run, Claim(q)
  PROVE  Kept
<1> DEFINE p == Prior[q]
           Same == /\ \A x \in Run : /\ ledger'[x].there = ledger[x].there
                                     /\ ledger'[x].pid = ledger[x].pid
                                     /\ ledger'[x].end = ledger[x].end
                   /\ \A x \in Run \ {p} : /\ ledger'[x].by = ledger[x].by
                                           /\ ledger'[x].claim = ledger[x].claim
           Left == /\ pc' = [pc EXCEPT ![q] = "Done"]
                   /\ ledger'[p].by = ledger[p].by /\ ledger'[p].claim = ledger[p].claim
           ClosedFor == /\ pc' = [pc EXCEPT ![q] = "Done"] /\ ledger[p].by = Nobody
                        /\ ledger[p].claim \notin {Nobody, q} /\ ledger[ledger[p].claim].there
                        /\ ~Alive(ledger[p].claim)
                        /\ ledger'[p].by = ledger[p].claim /\ ledger'[p].claim = Nobody
           Taken == /\ pc' = [pc EXCEPT ![q] = "Take"] /\ ledger[p].by = Nobody
                    /\ ledger[p].claim \notin {Nobody, q} =>
                          ~Alive(ledger[p].claim) /\ ~ledger[ledger[p].claim].there
                    /\ ledger'[p].by = Nobody /\ ledger'[p].claim = q
<1>0. p \in Run /\ q \in Other /\ p # q /\ ledger[p] \in Record
  BY DEF Claim, Inv, TypeOK, Places, Other
<1>a. Same /\ (Left \/ ClosedFor \/ Taken)
  <2>1. CASE ledger' = ledger /\ Go(q, "Done")
    BY <2>1 DEF Go
  <2>2. CASE Set(p, CloseFor(ledger[p])) /\ Go(q, "Done") /\ ledger[p].by = Nobody
             /\ ledger[p].claim \notin {Nobody, q} /\ ledger[ledger[p].claim].there
             /\ ~Alive(ledger[p].claim)
    <3>1. ledger'[p] = CloseFor(ledger[p]) /\ \A x \in Run \ {p} : ledger'[x] = ledger[x]
      BY <1>0, <2>2, SetFields DEF Inv
    <3>2. /\ ledger'[p].there = ledger[p].there /\ ledger'[p].pid = ledger[p].pid
          /\ ledger'[p].end = ledger[p].end
          /\ ledger'[p].by = ledger[p].claim /\ ledger'[p].claim = Nobody
      BY <1>0, <3>1, CloseForFields
    <3>3. Same
      BY <3>1, <3>2
    <3> QED BY <2>2, <3>2, <3>3 DEF Go
  <2>3. CASE Set(p, [ledger[p] EXCEPT !.claim = q]) /\ Go(q, "Take") /\ ledger[p].by = Nobody
             /\ (ledger[p].claim \notin {Nobody, q} =>
                     ~Alive(ledger[p].claim) /\ ~ledger[ledger[p].claim].there)
    <3>1. ledger'[p] = [ledger[p] EXCEPT !.claim = q] /\ \A x \in Run \ {p} : ledger'[x] = ledger[x]
      BY <1>0, <2>3, SetFields DEF Inv
    <3>2. Same /\ ledger'[p].by = ledger[p].by /\ ledger'[p].claim = q
      BY <1>0, <3>1 DEF Record
    <3> QED BY <2>3, <3>2 DEF Go
  <2> QED BY <2>1, <2>2, <2>3 DEF Claim, TookOn
<1>c. pc[q] = "Claim" /\ Alive(q) /\ UNCHANGED <<life, proc, job, slipped>>
  BY DEF Claim, Child, Rest
<1>d. Same
  BY <1>a
<1>e. \A x \in Run : ~Alive(x) => pc[x] \in {"Done", "Reap"}
  BY DEF Inv, Places, Alive
<1>f. \A x \in Run \ {q} : pc'[x] = pc[x]
  BY <1>a DEF Inv, TypeOK
<1>g. pc'[q] \in {"Done", "Take"} /\ life[q] \notin {"Unborn", "Dead", "Pausing", "Ending"}
  BY <1>a, <1>c DEF Inv, TypeOK, Alive, Places
<1> HIDE DEF Same
<1>1. Absent'
  BY <1>0, <1>a, <1>c DEF Same, Inv, Absent, EndedBefore
<1>2. Places'
  <2>1. ~ledger[q].there /\ proc[q] = "None"
    BY <1>c DEF Inv, Places
  <2>2. \A x \in Run : ledger'[x].there = ledger[x].there
    BY <1>d DEF Same
  <2> QED BY <1>0, <1>c, <1>f, <1>g, <2>1, <2>2 DEF Inv, Places, Other
<1>3. EndedBefore'
  <2>1. ledger[p].there /\ ledger[p].end # "None"
    BY <1>0, <1>c DEF Inv, EndedBefore
  <2>2. \A x \in Other : x \in Run /\ Prior[x] \in Run
    BY DEF Other
  <2>3. \A x \in Run : /\ ledger'[x].there = ledger[x].there /\ ledger'[x].end = ledger[x].end
                       /\ x # p => ledger'[x].by = ledger[x].by /\ ledger'[x].claim = ledger[x].claim
    BY <1>d DEF Same
  <2>4. \A x \in Run : ledger'[x].by # Nobody \/ ledger'[x].claim # Nobody => ledger'[x].end # "None"
    <3>1. p \in Run /\ ledger'[p].end # "None"
      BY <1>0, <2>1, <2>3
    <3>2. \A x \in Run \ {p} : ledger[x].by # Nobody \/ ledger[x].claim # Nobody => ledger[x].end # "None"
      BY DEF Inv, EndedBefore
    <3> QED BY <2>3, <3>1, <3>2
  <2>5. \A x \in Other : pc'[x] \in {"Claim", "Take", "Record", "Close"} =>
                            ledger'[Prior[x]].there /\ ledger'[Prior[x]].end # "None"
    <3>1. \A x \in Other : pc'[x] \in {"Claim", "Take", "Record", "Close"} =>
                              ledger[Prior[x]].there /\ ledger[Prior[x]].end # "None"
      BY <1>f, <2>1, <2>2 DEF Inv, EndedBefore
    <3> QED BY <2>2, <2>3, <3>1
  <2> QED BY <2>4, <2>5 DEF EndedBefore
<1>4. Claimed'
  <2> SUFFICES ASSUME NEW x \in Other
               PROVE  /\ pc'[x] \in {"Take", "Record", "Close"} =>
                            ledger'[Prior[x]].claim = x /\ ledger'[Prior[x]].by = Nobody
                      /\ ledger'[x].there => \/ ledger'[Prior[x]].by = x
                                             \/ /\ ledger'[Prior[x]].by = Nobody
                                                /\ ledger'[Prior[x]].claim = x
    BY DEF Claimed
  <2>1. x \in Run /\ Prior[x] \in Run /\ ledger'[x].there = ledger[x].there
    BY <1>d DEF Same, Other
  <2>2. CASE Prior[x] # p
    BY <1>a, <2>1, <2>2 DEF Same, Inv, TypeOK, Claimed
  <2>3. CASE x = q
    BY <1>a, <1>c, <2>1, <2>3 DEF Inv, TypeOK, Places
  <2>4. CASE Prior[x] = p /\ x # q
    BY <1>a, <1>e, <2>1, <2>4 DEF Inv, TypeOK, Claimed
  <2> QED BY <2>2, <2>3, <2>4
<1>5. SpawnsRecorded'
  <2>1. \A x \in Run : Spawning(x)' <=> Spawning(x)
    BY <1>c, <1>d DEF Same, Spawning
  <2>2. \A x \in Run : pc'[x] = "Record" => pc[x] = "Record"
    BY <1>f, <1>g
  <2> QED BY <1>c, <2>1, <2>2 DEF Inv, SpawnsRecorded
<1>6. Jobs'
  BY <1>c, <1>d DEF Same, Inv, Jobs
<1>7. NoStray'
  <2>1. \A x \in Run : pc[x] = "Record" => x # q /\ pc'[x] = "Record"
    BY <1>c, <1>f
  <2>2. \A x \in Run : Unfinished(x) => Unfinished(x)'
    <3>1. \A x \in Run \ {p} : Unfinished(x) => Unfinished(x)'
      BY <1>d DEF Same, Unfinished
    <3>2. ~Unfinished(p)
      BY <1>0, <1>c DEF Inv, EndedBefore, Unfinished
    <3> QED BY <3>1, <3>2
  <2>3. \A x \in Run : ledger'[x].there = ledger[x].there
    BY <1>d DEF Same
  <2> QED BY <1>c, <2>1, <2>2, <2>3 DEF Inv, NoStray, Alive
<1> QED BY <1>1, <1>2, <1>3, <1>4, <1>5, <1>6, <1>7 DEF Kept

LEMMA ReapInv ==
  ASSUME Inv, NEW q \in Run, Reap(q)
  PROVE  Kept
<1> DEFINE p == Prior[q]
<1>a. /\ p \in Run /\ UNCHANGED <<ledger, proc, life, slipped>> /\ q \in Other
      /\ pc[q] = "Reap"
      /\ pc' = [pc EXCEPT ![q] = "Look"]
  BY DEF Reap, Go, Child, Rest, Inv, TypeOK, Places, Other
<1>b. /\ pc'[q] = "Look" /\ \A x \in Run \ {q} : pc'[x] = pc[x]
      /\ \A x \in Run : pc[x] = "Record" => pc'[x] = "Record"
      /\ life[q] \notin {"Unborn", "Dead", "Pausing", "Ending"}
  BY <1>a DEF Reap, Alive, Inv, TypeOK, Places
<1>1. Absent'
  BY <1>a DEF Inv, Absent
<1>1a. Places'
  BY <1>a, <1>b DEF Inv, Places, Other
<1>2a. EndedBefore' /\ Claimed'
  BY <1>a DEF Inv, TypeOK, EndedBefore, Claimed, Other
<1>2. SpawnsRecorded'
  BY <1>a DEF Inv, TypeOK, SpawnsRecorded, Spawning
<1>3. Jobs'
  <2>1. CASE Orphaned(p)
    <3>1. Start(q, p, OrphanEnd(p, "Interrupted"))
      BY <2>1 DEF Reap
    <3>2. OrphanEnd(p, "Interrupted") \in End \ {"None"}
      BY DEF OrphanEnd, End
    <3>3. ledger[p].there /\ life[p] = "Dead"
      BY <2>1, <1>a DEF Orphaned, Alive, Inv, TypeOK, Places
    <3>4. p \notin slipped /\ ~Leads(p) => proc[p] # "Running"
      BY <1>a, <3>3 DEF Leads, Inv, SpawnsRecorded, Spawning
    <3> QED BY <1>a, <3>1, <3>2, <3>3, <3>4, StartInv
  <2>2. CASE ~Orphaned(p)
    BY <2>2, <1>a DEF Reap, Inv, Jobs
  <2> QED BY <2>1, <2>2
<1>4. NoStray'
  <2>1. \A s \in Stopper : job[s].step = "Signal" => job'[s] = job[s]
    <3>1. CASE Orphaned(p)
      <4>1. job[q] = NoJob
            /\ job' = [job EXCEPT ![q] = [at |-> p, end |-> OrphanEnd(p, "Interrupted"),
                                         kill |-> Leads(p), step |-> "Record"]]
        BY <3>1 DEF Reap, Start
      <4> QED BY <4>1 DEF NoJob, Inv, TypeOK
    <3>2. CASE ~Orphaned(p)
      BY <3>2 DEF Reap
    <3> QED BY <3>1, <3>2 DEF NoJob
  <2>2. \A x \in Run : /\ Unfinished(x) => Unfinished(x)'
                       /\ proc'[x] = proc[x] /\ ledger'[x].there = ledger[x].there
    BY <1>a DEF Unfinished, Alive
  <2>3. slipped' = slipped
    BY <1>a
  <2>4. life' = life
    BY <1>a
  <2> QED BY <1>b, <2>1, <2>2, <2>3, <2>4 DEF Inv, NoStray, Alive
<1> QED BY <1>1, <1>1a, <1>2a, <1>2, <1>3, <1>4 DEF Kept

LEMMA StopLiveInv ==
  ASSUME Inv, NEW p \in Run, StopLive(p)
  PROVE  Kept
<1>a. UNCHANGED <<ledger, proc, life, slipped, pc>> /\ life[p] = "Stopping" /\ ledger[p].there
  BY DEF StopLive, Here, Child, Rest, Unfinished
<1>1. Absent' /\ Places' /\ EndedBefore' /\ Claimed' /\ SpawnsRecorded'
  BY <1>a DEF Inv, Absent, Places, EndedBefore, Claimed, SpawnsRecorded, Spawning
<1>2. Jobs'
  <2>1. Start(p, p, "Interrupted") /\ "Interrupted" \in End
    BY DEF StopLive, End
  <2>2. p \notin slipped /\ ~Leads(p) => proc[p] # "Running"
    BY <1>a DEF Leads, Inv, SpawnsRecorded, Spawning, Leaving
  <2> QED BY <1>a, <2>1, <2>2, StartInv
<1>3. NoStray'
  <2>1. \A s \in Stopper : job[s].step = "Signal" => job'[s] = job[s]
    BY DEF StopLive, Start, NoJob, Inv, TypeOK
  <2> QED BY <1>a, <2>1 DEF Inv, NoStray, Unfinished, Alive
<1> QED BY <1>1, <1>2, <1>3 DEF Kept

LEMMA BeginStoppingInv ==
  ASSUME Inv, NEW p \in Run, BeginStopping(p)
  PROVE  Kept
<1>1. Absent'
  BY DEF Inv, TypeOK, Absent, BeginStopping, SpawnsDone, Child, OneLess
<1>2. Places'
  BY DEF Inv, TypeOK, Places, BeginStopping, SpawnsDone, Child, OneLess, Leaving
<1>3. EndedBefore'
  BY DEF Inv, TypeOK, EndedBefore, BeginStopping, SpawnsDone, Child, OneLess, Other
<1>4. Claimed'
  BY DEF Inv, TypeOK, Claimed, BeginStopping, SpawnsDone, Child, OneLess, Other
<1>5. SpawnsRecorded'
  BY DEF Inv, TypeOK, SpawnsRecorded, BeginStopping, SpawnsDone, Child, OneLess, Spawning, Leaving
<1>6. Jobs'
  BY DEF Inv, TypeOK, Jobs, BeginStopping, SpawnsDone, Child, OneLess, NoJob
<1>7. NoStray'
  BY DEF Inv, TypeOK, NoStray, BeginStopping, SpawnsDone, Child, OneLess, Unfinished, Alive,
         Leaving
<1> QED BY <1>1, <1>2, <1>3, <1>4, <1>5, <1>6, <1>7 DEF Kept

LEMMA RecordEndInv ==
  ASSUME Inv, NEW s \in Stopper, RecordEnd(s)
  PROVE  Kept
<1>1. Absent'
  BY DEF Inv, TypeOK, Absent, Jobs, Record, RecordEnd, AppendEnd, Interrupted, HasFinalEnd, Set,
         NoJob, Here, Child, Rest
<1>2. Places'
  BY DEF Inv, TypeOK, Places, RecordEnd, AppendEnd, Interrupted, HasFinalEnd, Set, NoJob, Here,
         Child, Rest, Leaving
<1>3. EndedBefore'
  BY DEF Inv, TypeOK, EndedBefore, Jobs, Record, RecordEnd, AppendEnd, Interrupted, HasFinalEnd,
         Set, NoJob, Here, Child, Rest, Other
<1>4. Claimed'
  BY DEF Inv, TypeOK, Claimed, RecordEnd, AppendEnd, Interrupted, HasFinalEnd, Set, NoJob, Here,
         Child, Rest, Other
<1>5. SpawnsRecorded'
  BY DEF Inv, TypeOK, SpawnsRecorded, RecordEnd, AppendEnd, Interrupted, HasFinalEnd, Set, NoJob,
         Here, Child, Rest, Spawning, Leaving
<1>6. Jobs'
  BY DEF Inv, TypeOK, Jobs, RecordEnd, AppendEnd, Interrupted, HasFinalEnd, Set, NoJob, Here,
         Child, Rest
<1>7. NoStray'
  BY DEF Inv, TypeOK, Jobs, NoStray, Record, RecordEnd, AppendEnd, Interrupted, HasFinalEnd, Set,
         NoJob, Here, Child, Rest, Unfinished, Alive, Leaving
<1> QED BY <1>1, <1>2, <1>3, <1>4, <1>5, <1>6, <1>7 DEF Kept

LEMMA SignalInv ==
  ASSUME Inv, NEW s \in Stopper, Signal(s)
  PROVE  Kept
<1>1. Absent'
  BY DEF Inv, TypeOK, Absent, Signal, NoJob, Here, Rest
<1>2. Places'
  BY DEF Inv, TypeOK, Jobs, Places, Signal, NoJob, Here, Rest, Leaving
<1>3. EndedBefore'
  BY DEF Inv, TypeOK, EndedBefore, Signal, NoJob, Here, Rest, Other
<1>4. Claimed'
  BY DEF Inv, TypeOK, Claimed, Signal, NoJob, Here, Rest, Other
<1>5. SpawnsRecorded'
  BY DEF Inv, TypeOK, SpawnsRecorded, Signal, NoJob, Here, Rest, Spawning, Leaving
<1>6. Jobs'
  BY DEF Inv, TypeOK, Jobs, Signal, NoJob, Here, Rest
<1>7. NoStray'
  BY DEF Inv, TypeOK, Places, NoStray, Signal, NoJob, Here, Rest, Unfinished, Alive, Leaving
<1> QED BY <1>1, <1>2, <1>3, <1>4, <1>5, <1>6, <1>7 DEF Kept

LEMMA BeginInv ==
  ASSUME Inv, NEW q \in Run, Begin(q)
  PROVE  Kept
<1>1. Absent'
  BY DEF Inv, TypeOK, Absent, Begin, Child, Rest
<1>2. Places'
  BY DEF Inv, TypeOK, Places, Begin, Child, Rest, Leaving
<1>3. EndedBefore'
  BY DEF Inv, TypeOK, EndedBefore, Begin, Child, Rest, Other
<1>4. Claimed'
  BY DEF Inv, TypeOK, Claimed, Begin, Child, Rest, Other
<1>5. SpawnsRecorded'
  BY DEF Inv, TypeOK, SpawnsRecorded, Begin, Child, Rest, Spawning, Leaving
<1>6. Jobs'
  BY DEF Inv, TypeOK, Jobs, Begin, Child, Rest, NoJob
<1>7. NoStray'
  BY DEF Inv, TypeOK, NoStray, Begin, Child, Rest, Unfinished, Alive, Leaving
<1> QED BY <1>1, <1>2, <1>3, <1>4, <1>5, <1>6, <1>7 DEF Kept

LEMMA LookInv ==
  ASSUME Inv, NEW q \in Run, Look(q)
  PROVE  Kept
<1>1. Absent'
  BY DEF Inv, TypeOK, Absent, Look, Alive, Go, Child, Rest
<1>2. Places'
  BY DEF Inv, TypeOK, Places, Look, Alive, Go, Child, Rest, Leaving
<1>3. EndedBefore'
  BY DEF Inv, TypeOK, EndedBefore, Look, Alive, Go, Child, Rest, Other
<1>4. Claimed'
  BY DEF Inv, TypeOK, Claimed, Look, Alive, Go, Child, Rest, Other
<1>5. SpawnsRecorded'
  BY DEF Inv, TypeOK, SpawnsRecorded, Look, Alive, Go, Child, Rest, Spawning, Leaving
<1>6. Jobs'
  BY DEF Inv, TypeOK, Jobs, Look, Alive, Go, Child, Rest, NoJob
<1>7. NoStray'
  BY DEF Inv, TypeOK, NoStray, Look, Alive, Go, Child, Rest, Unfinished, Leaving
<1> QED BY <1>1, <1>2, <1>3, <1>4, <1>5, <1>6, <1>7 DEF Kept

LEMMA LaunchInv ==
  ASSUME Inv, NEW q \in Run, Launch(q)
  PROVE  Kept
<1>a. /\ UNCHANGED <<life, job, slipped>> /\ Alive(q) /\ pc[q] = "Take"
      /\ ~ledger[q].there /\ proc[q] = "None"
  BY DEF Launch, Rest, Inv, Places
<1>b. pc'[q] \in {"Record", "Close"} /\ \A x \in Run \ {q} : proc'[x] = proc[x] /\ pc'[x] = pc[x]
  BY DEF Launch, Go, Child, Inv, TypeOK
<1>c. /\ \A x \in Run \ {q} : ledger'[x] = ledger[x]
      /\ ledger'[q].by = Nobody /\ ledger'[q].claim = Nobody /\ ledger'[q].end = "None"
      /\ ~ledger'[q].pid
  <2>1. CASE ledger' = ledger
    BY <2>1, <1>a DEF Inv, Absent
  <2>2. CASE Set(q, [NoRecord EXCEPT !.there = TRUE])
    BY <2>2, SetFields DEF NoRecord, Inv
  <2> QED BY <2>1, <2>2 DEF Launch
<1>d. \/ /\ life[q] # "Stopping" /\ proc'[q] = "Running" /\ pc'[q] = "Record" /\ ~ledger'[q].there
      \/ proc'[q] = "None" /\ pc'[q] = "Close"
  BY <1>a DEF Launch, Go, Child, Inv, TypeOK
<1>e. ledger[q].by = Nobody /\ ledger[q].claim = Nobody /\ ledger[q].end = "None" /\ ~ledger[q].pid
  BY <1>a DEF Inv, Absent
<1>f. life[q] \notin {"Pausing", "Ending", "Dead"}
  BY <1>a DEF Inv, Places
<1>1. Absent'
  BY <1>a, <1>b, <1>c, <1>d DEF Inv, TypeOK, Absent, Alive
<1>2. Places'
  BY <1>a, <1>b, <1>c, <1>d DEF Inv, Places, Alive, Leaving
<1>3. EndedBefore'
  <2>1. \A x \in Run : ledger[x].there => x # q /\ ledger'[x] = ledger[x]
    BY <1>a, <1>c
  <2>2. \A x \in Other : pc'[x] \in {"Claim", "Take", "Record", "Close"} =>
                            pc[x] \in {"Claim", "Take", "Record", "Close"}
    BY <1>a, <1>b DEF Other
  <2>3. \A x \in Other : Prior[x] \in Run
    BY DEF Other
  <2> QED BY <1>c, <2>1, <2>2, <2>3 DEF Inv, EndedBefore
<1>4. Claimed'
  <2> SUFFICES ASSUME NEW x \in Other
               PROVE  /\ pc'[x] \in {"Take", "Record", "Close"} =>
                            ledger'[Prior[x]].claim = x /\ ledger'[Prior[x]].by = Nobody
                      /\ ledger'[x].there => \/ ledger'[Prior[x]].by = x
                                             \/ /\ ledger'[Prior[x]].by = Nobody
                                                /\ ledger'[Prior[x]].claim = x
    BY DEF Claimed
  <2>1. ledger'[Prior[x]].by = ledger[Prior[x]].by /\ ledger'[Prior[x]].claim = ledger[Prior[x]].claim
    BY <1>c, <1>e DEF Other
  <2>2. CASE x = q
    BY <1>a, <2>1, <2>2 DEF Inv, Claimed
  <2>3. CASE x # q
    BY <1>b, <1>c, <2>1, <2>3 DEF Inv, Claimed, Other
  <2> QED BY <2>2, <2>3
<1>5. SpawnsRecorded'
  BY <1>a, <1>b, <1>c, <1>d, <1>f DEF Inv, SpawnsRecorded, Spawning, Leaving
<1>6. Jobs'
  <2> SUFFICES ASSUME NEW s \in Stopper, job[s].step # "None"
               PROVE  /\ job[s].at \in Run /\ job[s].end # "None" /\ ledger'[job[s].at].there
                      /\ job[s].step = "Record" /\ ~job[s].kill =>
                            \/ job[s].at \in slipped
                            \/ ledger'[job[s].at].end # "None"
                            \/ proc'[job[s].at] # "Running" /\ life[job[s].at] \in {"Stopping", "Dead"}
    BY <1>a DEF Jobs
  <2>1. job[s].at \in Run /\ ledger[job[s].at].there
    BY DEF Inv, Jobs
  <2>2. job[s].at # q
    BY <1>a, <2>1
  <2> QED BY <1>b, <1>c, <2>1, <2>2 DEF Inv, Jobs
<1>7. NoStray'
  BY <1>a, <1>b, <1>c, <1>d DEF Inv, TypeOK, NoStray, Alive, Unfinished, Leaving
<1> QED BY <1>1, <1>2, <1>3, <1>4, <1>5, <1>6, <1>7 DEF Kept

LEMMA RestoreInv ==
  ASSUME Inv, NEW q \in Run, Restore(q)
  PROVE  Kept
<1>1. Absent'
  BY DEF Inv, TypeOK, Absent, Restore, Alive, Go, Set, NoRecord, Child, Rest
<1>2. Places'
  BY DEF Inv, TypeOK, Places, Restore, Alive, Go, Set, NoRecord, Child, Rest, Leaving
<1>3. EndedBefore'
  BY DEF Inv, TypeOK, Places, EndedBefore, Restore, Alive, Go, Set, NoRecord, Child, Rest, Other
<1>4. Claimed'
  BY DEF Inv, TypeOK, Absent, Places, Claimed, Record, Restore, Alive, Go, Set, NoRecord, Child,
         Rest, Other
<1>5. SpawnsRecorded'
  BY DEF Inv, TypeOK, Places, SpawnsRecorded, Restore, Alive, Go, Set, NoRecord, Child, Rest,
         Spawning, Leaving
<1>6. Jobs'
  BY DEF Inv, TypeOK, Places, Jobs, Restore, Alive, Go, Set, NoRecord, Child, Rest, NoJob
<1>7. NoStray'
  BY DEF Inv, TypeOK, Places, NoStray, Restore, Alive, Go, Set, NoRecord, Child, Rest, Unfinished,
         Leaving
<1> QED BY <1>1, <1>2, <1>3, <1>4, <1>5, <1>6, <1>7 DEF Kept

LEMMA RecordLaunchInv ==
  ASSUME Inv, NEW q \in Run, RecordLaunch(q)
  PROVE  Kept
<1>1. Absent'
  BY DEF Inv, TypeOK, Absent, RecordLaunch, Alive, Go, Set, NoRecord, Child, Rest
<1>2. Places'
  BY DEF Inv, TypeOK, Places, RecordLaunch, Alive, Go, Set, NoRecord, Child, Rest, Leaving
<1>3. EndedBefore'
  BY DEF Inv, TypeOK, Places, EndedBefore, RecordLaunch, Alive, Go, Set, NoRecord, Child, Rest,
         Other
<1>4. Claimed'
  BY DEF Inv, TypeOK, Absent, Places, Claimed, Record, RecordLaunch, Alive, Go, Set, NoRecord,
         Child, Rest, Other
<1>5. SpawnsRecorded'
  BY DEF Inv, TypeOK, SpawnsRecorded, RecordLaunch, Alive, Go, Set, NoRecord, Child, Rest,
         Spawning, Leaving
<1>6. Jobs'
  BY DEF Inv, TypeOK, Places, Jobs, RecordLaunch, Alive, Go, Set, NoRecord, Child, Rest, NoJob
<1>7. NoStray'
  BY DEF Inv, TypeOK, NoStray, RecordLaunch, Alive, Go, Set, NoRecord, Child, Rest, Unfinished,
         Leaving
<1> QED BY <1>1, <1>2, <1>3, <1>4, <1>5, <1>6, <1>7 DEF Kept

LEMMA CloseInv ==
  ASSUME Inv, NEW q \in Run, Close(q)
  PROVE  Kept
<1> DEFINE p == Prior[q]
<1>0. p \in Run /\ ledger[p] \in Record /\ (q \in Other => p # q)
  BY DEF Inv, TypeOK, Other
<1>a. pc[q] = "Close" /\ UNCHANGED <<life, proc, job, slipped>> /\ Alive(q)
      /\ \E l \in {"Done", "Refused"} : pc' = [pc EXCEPT ![q] = l]
  BY DEF Close, Child, Rest, Go
<1>b. /\ \A x \in Run : /\ ledger'[x].there = ledger[x].there /\ ledger'[x].pid = ledger[x].pid
                        /\ ledger'[x].end = ledger[x].end
      /\ \A x \in Run \ {p} : ledger'[x].by = ledger[x].by /\ ledger'[x].claim = ledger[x].claim
      /\ \/ ledger'[p].by = ledger[p].by /\ ledger'[p].claim = ledger[p].claim
         \/ /\ q \in Other /\ ledger[q].there /\ ledger[p].by = Nobody
            /\ ledger'[p].by = q /\ ledger'[p].claim = Nobody
         \/ /\ q \in Other /\ ~ledger[q].there /\ ledger[p].claim = q
            /\ ledger'[p].by = ledger[p].by /\ ledger'[p].claim = Nobody
  <2>1. CASE q \in First
    BY <2>1 DEF Close
  <2>2. CASE q \in Other
    <3>1. ledger[p].claim = q /\ ledger[p].by = Nobody
      BY <2>2, <1>a DEF Inv, Claimed
    <3>2. ledger'[p] = Closed(q, ledger[p]) /\ \A x \in Run \ {p} : ledger'[x] = ledger[x]
      BY <2>2, <1>0 DEF Close, Other, Inv, TypeOK
    <3>3. CASE ledger[q].there
      <4>1. ledger'[p] = [ledger[p] EXCEPT !.by = q, !.claim = Nobody]
        BY <3>1, <3>2, <3>3 DEF Closed
      <4> QED BY <2>2, <1>0, <3>1, <3>2, <3>3, <4>1 DEF Record
    <3>4. CASE ~ledger[q].there
      <4>1. ledger'[p] = [ledger[p] EXCEPT !.claim = Nobody]
        BY <3>1, <3>2, <3>4 DEF Closed
      <4> QED BY <2>2, <1>0, <3>1, <3>2, <3>4, <4>1 DEF Record
    <3> QED BY <3>3, <3>4
  <2> QED BY <2>1, <2>2 DEF Other
<1>c. /\ \A x \in Run : /\ ledger'[x].there = ledger[x].there /\ ledger'[x].pid = ledger[x].pid
                        /\ ledger'[x].end = ledger[x].end
      /\ pc'[q] \in {"Done", "Refused"} /\ \A x \in Run \ {q} : pc'[x] = pc[x]
  BY <1>a, <1>b DEF Inv, TypeOK
<1>1. Absent'
  BY <1>0, <1>a, <1>b DEF Inv, Absent, EndedBefore, Alive, Other
<1>2. Places'
  BY <1>0, <1>a, <1>b DEF Inv, TypeOK, Places, Alive, Other, Leaving
<1>3. EndedBefore'
  <2>1. q \in Other => ledger[p].there /\ ledger[p].end # "None"
    BY <1>a DEF Inv, EndedBefore
  <2>2. \A x \in Run : /\ ledger'[x].by # Nobody \/ ledger'[x].claim # Nobody
                       /\ ~(x = p /\ q \in Other)
                       => ledger[x].by # Nobody \/ ledger[x].claim # Nobody
    BY <1>b
  <2>3. \A x \in Other : x \in Run /\ Prior[x] \in Run
    BY DEF Other
  <2>4. \A x \in Run : ledger'[x].by # Nobody \/ ledger'[x].claim # Nobody => ledger'[x].end # "None"
    BY <1>c, <2>1, <2>2 DEF Inv, EndedBefore
  <2>5. \A x \in Other : pc'[x] \in {"Claim", "Take", "Record", "Close"} =>
                            ledger'[Prior[x]].there /\ ledger'[Prior[x]].end # "None"
    BY <1>c, <2>3 DEF Inv, EndedBefore
  <2> QED BY <2>4, <2>5 DEF EndedBefore
<1>4. Claimed'
  <2> SUFFICES ASSUME NEW x \in Other
               PROVE  /\ pc'[x] \in {"Take", "Record", "Close"} =>
                            ledger'[Prior[x]].claim = x /\ ledger'[Prior[x]].by = Nobody
                      /\ ledger'[x].there => \/ ledger'[Prior[x]].by = x
                                             \/ /\ ledger'[Prior[x]].by = Nobody
                                                /\ ledger'[Prior[x]].claim = x
    BY DEF Claimed
  <2>1. x \in Run /\ Prior[x] \in Run /\ ledger'[x].there = ledger[x].there
    BY <1>c DEF Other
  <2>2. CASE Prior[x] # p
    <3>1. ledger'[Prior[x]].by = ledger[Prior[x]].by /\ ledger'[Prior[x]].claim = ledger[Prior[x]].claim
      BY <1>b, <2>1, <2>2
    <3>2. x # q /\ pc'[x] = pc[x]
      BY <1>c, <2>1, <2>2
    <3> QED BY <2>1, <3>1, <3>2 DEF Inv, Claimed
  <2>3. CASE x = q
    BY <1>a, <1>b, <1>c, <2>1, <2>3 DEF Inv, Claimed
  <2>4. CASE Prior[x] = p /\ x # q
    <3>1. q \in Other => ledger[p].claim = q
      BY <1>a DEF Inv, Claimed
    <3>2. pc'[x] = pc[x]
      BY <1>c, <2>1, <2>4
    <3>3. /\ pc[x] \in {"Take", "Record", "Close"} => ledger[p].claim = x /\ ledger[p].by = Nobody
          /\ ledger[x].there => \/ ledger[p].by = x
                                \/ ledger[p].by = Nobody /\ ledger[p].claim = x
      BY <2>4 DEF Inv, Claimed
    <3> QED BY <1>b, <2>1, <2>4, <3>1, <3>2, <3>3
  <2> QED BY <2>2, <2>3, <2>4
<1>5. SpawnsRecorded'
  BY <1>0, <1>a, <1>b DEF Inv, TypeOK, SpawnsRecorded, Alive, Other, Spawning, Leaving
<1>6. Jobs'
  BY <1>a, <1>c DEF Inv, Jobs
<1>7. NoStray'
  BY <1>0, <1>a, <1>b DEF Inv, TypeOK, Claimed, EndedBefore, NoStray, Alive, Other, Unfinished,
         Leaving
<1> QED BY <1>1, <1>2, <1>3, <1>4, <1>5, <1>6, <1>7 DEF Kept

LEMMA SpawnQueuedInv ==
  ASSUME Inv, NEW q \in Run, SpawnQueued(q)
  PROVE  Kept
<1>1. Absent'
  BY DEF Inv, TypeOK, Absent, SpawnQueued, Unfinished, Here, Rest
<1>2. Places'
  BY DEF Inv, TypeOK, Places, SpawnQueued, Unfinished, Here, Rest, Leaving
<1>3. EndedBefore'
  BY DEF Inv, TypeOK, EndedBefore, SpawnQueued, Unfinished, Here, Rest, Other
<1>4. Claimed'
  BY DEF Inv, TypeOK, Claimed, SpawnQueued, Unfinished, Here, Rest, Other
<1>5. SpawnsRecorded'
  BY DEF Inv, TypeOK, SpawnsRecorded, SpawnQueued, Unfinished, Here, Rest, Spawning, Leaving
<1>6. Jobs'
  BY DEF Inv, TypeOK, Jobs, SpawnQueued, Unfinished, Here, Rest, NoJob
<1>7. NoStray'
  BY DEF Inv, TypeOK, NoStray, SpawnQueued, Unfinished, Here, Rest, Alive, Leaving
<1> QED BY <1>1, <1>2, <1>3, <1>4, <1>5, <1>6, <1>7 DEF Kept

LEMMA RecordSpawnInv ==
  ASSUME Inv, NEW q \in Run, RecordSpawn(q)
  PROVE  Kept
<1>1. Absent'
  BY DEF Inv, TypeOK, Absent, RecordSpawn, Spawning, Alive, Here, Child, Rest, Set
<1>2. Places'
  BY DEF Inv, TypeOK, Places, RecordSpawn, Spawning, Alive, Here, Child, Rest, Set, Leaving
<1>3. EndedBefore'
  BY DEF Inv, TypeOK, EndedBefore, RecordSpawn, Spawning, Alive, Here, Child, Rest, Set, Other
<1>4. Claimed'
  BY DEF Inv, TypeOK, Claimed, RecordSpawn, Spawning, Alive, Here, Child, Rest, Set, Other
<1>5. SpawnsRecorded'
  BY DEF Inv, TypeOK, SpawnsRecorded, RecordSpawn, Spawning, Alive, Here, Child, Rest, Set,
         Leaving
<1>6. Jobs'
  BY DEF Inv, TypeOK, Jobs, RecordSpawn, Spawning, Alive, Here, Child, Rest, Set, NoJob
<1>7. NoStray'
  BY DEF Inv, TypeOK, NoStray, RecordSpawn, Spawning, Alive, Here, Child, Rest, Set, Unfinished,
         Leaving
<1> QED BY <1>1, <1>2, <1>3, <1>4, <1>5, <1>6, <1>7 DEF Kept

LEMMA ExitInv ==
  ASSUME Inv, NEW p \in Run, Exit(p)
  PROVE  Kept
<1>1. Absent'
  BY DEF Inv, TypeOK, Absent, Exit, Here, Rest
<1>2. Places'
  BY DEF Inv, TypeOK, Places, Exit, Here, Rest, Leaving
<1>3. EndedBefore'
  BY DEF Inv, TypeOK, EndedBefore, Exit, Here, Rest, Other
<1>4. Claimed'
  BY DEF Inv, TypeOK, Claimed, Exit, Here, Rest, Other
<1>5. SpawnsRecorded'
  BY DEF Inv, TypeOK, SpawnsRecorded, Exit, Here, Rest, Spawning, Leaving
<1>6. Jobs'
  BY DEF Inv, TypeOK, Jobs, Exit, Here, Rest, NoJob
<1>7. NoStray'
  BY DEF Inv, TypeOK, NoStray, Exit, Here, Rest, Unfinished, Alive, Leaving
<1> QED BY <1>1, <1>2, <1>3, <1>4, <1>5, <1>6, <1>7 DEF Kept

LEMMA FinishInv ==
  ASSUME Inv, NEW p \in Run, Finish(p)
  PROVE  Kept
<1>1. Absent'
  BY DEF Inv, TypeOK, Absent, Finish, Spawning, Child, OneLess
<1>2. Places'
  BY DEF Inv, TypeOK, Places, Finish, Spawning, Child, OneLess, Leaving
<1>3. EndedBefore'
  BY DEF Inv, TypeOK, EndedBefore, Finish, Spawning, Child, OneLess, Other
<1>4. Claimed'
  BY DEF Inv, TypeOK, Claimed, Finish, Spawning, Child, OneLess, Other
<1>5. SpawnsRecorded'
  BY DEF Inv, TypeOK, SpawnsRecorded, Finish, Spawning, Child, OneLess, Leaving
<1>6. Jobs'
  <2>1. \A x \in Run : life[x] \in {"Stopping", "Dead"} => life'[x] = life[x]
    BY DEF Finish, Inv, TypeOK
  <2> QED BY <2>1 DEF Finish, Child, Inv, Jobs
<1>7. NoStray'
  BY DEF Inv, TypeOK, NoStray, Finish, Spawning, Child, OneLess, Unfinished, Alive, Leaving
<1> QED BY <1>1, <1>2, <1>3, <1>4, <1>5, <1>6, <1>7 DEF Kept

LEMMA TerminateInv ==
  ASSUME Inv, NEW p \in Run, Terminate(p)
  PROVE  Kept
<1>1. Absent'
  BY DEF Inv, TypeOK, Absent, Terminate, Here, Rest
<1>2. Places'
  BY DEF Inv, TypeOK, Places, Terminate, Here, Rest, Leaving
<1>3. EndedBefore'
  BY DEF Inv, TypeOK, EndedBefore, Terminate, Here, Rest, Other
<1>4. Claimed'
  BY DEF Inv, TypeOK, Claimed, Terminate, Here, Rest, Other
<1>5. SpawnsRecorded'
  BY DEF Inv, TypeOK, SpawnsRecorded, Terminate, Here, Rest, Spawning, Leaving
<1>6. Jobs'
  BY DEF Inv, TypeOK, Jobs, Terminate, Here, Rest, NoJob
<1>7. NoStray'
  BY DEF Inv, TypeOK, NoStray, Terminate, Here, Rest, Unfinished, Alive, Leaving
<1> QED BY <1>1, <1>2, <1>3, <1>4, <1>5, <1>6, <1>7 DEF Kept

LEMMA SettleInv ==
  ASSUME Inv, NEW p \in Run, Settle(p)
  PROVE  Kept
<1>1. Absent'
  BY DEF Inv, TypeOK, Absent, Settle, AppendEnd, Interrupted, HasFinalEnd, Settled, Set, Here,
         Child, Rest
<1>2. Places'
  BY DEF Inv, TypeOK, Places, Settle, AppendEnd, Interrupted, HasFinalEnd, Settled, Set, Here,
         Child, Rest, Leaving
<1>3. EndedBefore'
  BY DEF Inv, TypeOK, EndedBefore, Settle, AppendEnd, Interrupted, HasFinalEnd, Settled, Set,
         Here, Child, Rest, Other
<1>4. Claimed'
  BY DEF Inv, TypeOK, Claimed, Settle, AppendEnd, Interrupted, HasFinalEnd, Settled, Set, Here,
         Child, Rest, Other
<1>5. SpawnsRecorded'
  BY DEF Inv, TypeOK, SpawnsRecorded, Settle, AppendEnd, Interrupted, HasFinalEnd, Settled, Set,
         Here, Child, Rest, Spawning, Leaving
<1>6. Jobs'
  BY DEF Inv, TypeOK, Jobs, Settle, AppendEnd, Interrupted, HasFinalEnd, Settled, Set, Here,
         Child, Rest, NoJob
<1>7. NoStray'
  BY DEF Inv, TypeOK, NoStray, Settle, AppendEnd, Interrupted, HasFinalEnd, Settled, Set, Here,
         Child, Rest, Unfinished, Alive, Leaving
<1> QED BY <1>1, <1>2, <1>3, <1>4, <1>5, <1>6, <1>7 DEF Kept

LEMMA LeaveInv ==
  ASSUME Inv, NEW p \in Run, Leave(p)
  PROVE  Kept
<1>1. Absent'
  BY DEF Inv, TypeOK, Absent, Leave, Unfinished, Go, Child, Rest
<1>2. Places'
  BY DEF Inv, TypeOK, Places, Leave, Unfinished, Go, Child, Rest, Leaving
<1>3. EndedBefore'
  BY DEF Inv, TypeOK, EndedBefore, Leave, Unfinished, Go, Child, Rest, Other
<1>4. Claimed'
  BY DEF Inv, TypeOK, Claimed, Leave, Unfinished, Go, Child, Rest, Other
<1>5. SpawnsRecorded'
  BY DEF Inv, TypeOK, SpawnsRecorded, Leave, Unfinished, Go, Child, Rest, Spawning, Leaving
<1>6. Jobs'
  BY DEF Inv, TypeOK, Jobs, Leave, Unfinished, Go, Child, Rest, NoJob
<1>7. NoStray'
  BY DEF Inv, TypeOK, NoStray, Leave, Unfinished, Go, Child, Rest, Alive, Leaving
<1> QED BY <1>1, <1>2, <1>3, <1>4, <1>5, <1>6, <1>7 DEF Kept

LEMMA DieInv ==
  ASSUME Inv, NEW s \in Stopper, Die(s)
  PROVE  Kept
<1>1. Absent'
  BY DEF Inv, TypeOK, Absent, Die, Signalled, Spawning, Alive, OneLess, NoJob, Child
<1>2. Places'
  BY DEF Inv, TypeOK, Places, Die, Signalled, Spawning, Alive, OneLess, NoJob, Child, Leaving
<1>3. EndedBefore'
  BY DEF Inv, TypeOK, EndedBefore, Die, Signalled, Spawning, Alive, OneLess, NoJob, Child, Other
<1>4. Claimed'
  BY DEF Inv, TypeOK, Claimed, Die, Signalled, Spawning, Alive, OneLess, NoJob, Child, Other
<1>5. SpawnsRecorded'
  BY DEF Inv, TypeOK, SpawnsRecorded, Die, Signalled, Spawning, Alive, OneLess, NoJob, Child,
         Leaving
<1>6. Jobs'
  BY DEF Inv, TypeOK, Jobs, Die, Signalled, Spawning, Alive, OneLess, NoJob, Child
<1>7. NoStray'
  <2> SUFFICES ASSUME NEW p \in Run \ slipped', proc'[p] = "Running"
               PROVE  \/ Unfinished(p)'
                      \/ ~ledger'[p].there /\ pc'[p] = "Record" /\ Alive(p)'
                      \/ \E t \in Stopper : job'[t].at = p /\ job'[t].step = "Signal"
    BY DEF NoStray
  <2>1. p \in Run \ slipped /\ proc[p] = "Running" /\ ledger' = ledger
        /\ ~(job[s].at = p /\ job[s].step = "Signal") /\ ~(p = s /\ Spawning(p))
    BY DEF Die, Signalled, Child
  <2>2. CASE Unfinished(p)
    BY <2>1, <2>2 DEF Unfinished
  <2>3. CASE ~ledger[p].there /\ pc[p] = "Record" /\ Alive(p)
    <3>1. p # s
      BY <2>1, <2>3 DEF Spawning, Inv, Absent
    <3> QED BY <2>1, <2>3, <3>1 DEF Die, Alive, Inv, TypeOK
  <2>4. CASE \E t \in Stopper : job[t].at = p /\ job[t].step = "Signal"
    BY <2>1, <2>4 DEF Die, Inv, TypeOK
  <2> QED BY <2>1, <2>2, <2>3, <2>4 DEF Inv, NoStray
<1> QED BY <1>1, <1>2, <1>3, <1>4, <1>5, <1>6, <1>7 DEF Kept

\* The sweep picks a child up that nobody stops.
LEMMA SweepInv ==
  ASSUME Inv, Sweep
  PROVE  Kept
<1>a. UNCHANGED <<ledger, proc, life, slipped, pc>>
  BY DEF Sweep, Here, Child, Rest
<1>1. Absent' /\ Places' /\ EndedBefore' /\ Claimed' /\ SpawnsRecorded'
  BY <1>a DEF Inv, Absent, Places, EndedBefore, Claimed, SpawnsRecorded, Spawning
<1>b. PICK p \in Run :
        \/ /\ Orphaned(p)
           /\ Start(Sweeper, p, OrphanEnd(p, IF over THEN "Abandoned" ELSE "Interrupted"))
        \/ /\ Interrupted(ledger[p]) /\ ledger[p].there /\ job[Sweeper] = NoJob
           /\ job' = [job EXCEPT ![Sweeper] =
                 [at |-> p, end |-> "Abandoned", kill |-> FALSE, step |-> "Record"]]
  BY DEF Sweep
<1>2. Jobs'
  <2>1. ASSUME Orphaned(p), NEW e \in {"Abandoned", "Interrupted"},
               Start(Sweeper, p, OrphanEnd(p, e))
        PROVE  Jobs'
    <3>1. OrphanEnd(p, e) \in End /\ OrphanEnd(p, e) # "None"
      BY DEF OrphanEnd, End
    <3>2. ledger[p].there /\ life[p] = "Dead"
      BY <2>1 DEF Orphaned, Alive, Inv, Places
    <3>3. p \notin slipped /\ ~Leads(p) => proc[p] # "Running"
      BY <3>2 DEF Leads, Inv, SpawnsRecorded, Spawning
    <3> QED BY <1>a, <2>1, <3>1, <3>2, <3>3, StartInv
  <2>2. ASSUME Interrupted(ledger[p]), ledger[p].there,
               job' = [job EXCEPT ![Sweeper] =
                 [at |-> p, end |-> "Abandoned", kill |-> FALSE, step |-> "Record"]]
        PROVE  Jobs'
    <3>1. \A t \in Stopper : t # Sweeper => job'[t] = job[t]
      BY <2>2 DEF Inv, TypeOK
    <3>2. job'[Sweeper].at = p /\ job'[Sweeper].end = "Abandoned"
      BY <2>2 DEF Inv, TypeOK
    <3>3. ledger'[p].there /\ ledger'[p].end # "None"
      BY <1>a, <2>2 DEF Interrupted
    <3> QED BY <1>a, <3>1, <3>2, <3>3 DEF Inv, Jobs
  <2> QED BY <1>b, <2>1, <2>2
<1>3. NoStray'
  <2>1. job[Sweeper] = NoJob /\ \A t \in Stopper : t # Sweeper => job'[t] = job[t]
    BY <1>b DEF Start, Inv, TypeOK
  <2>2. \A t \in Stopper : job[t].step = "Signal" => job'[t] = job[t]
    BY <2>1 DEF NoJob
  <2> QED BY <1>a, <2>2 DEF Inv, NoStray, Unfinished, Alive
<1> QED BY <1>1, <1>2, <1>3 DEF Kept

LEMMA NextInv == Inv /\ [Next]_vars => Inv'
<1> SUFFICES ASSUME Inv, [Next]_vars PROVE Inv'
  OBVIOUS
<1>1. TypeOK'
  BY NextType DEF Inv
<1>2. Kept
  <2>1. ASSUME NEW p \in Run, Continue(p) PROVE Kept
    BY <2>1, ReapInv, LookInv, ClaimInv, LaunchInv, RestoreInv, RecordLaunchInv, CloseInv
       DEF Continue
  <2>2. ASSUME NEW p \in Run,
               \/ Begin(p) \/ SpawnQueued(p) \/ RecordSpawn(p) \/ Exit(p) \/ BeginStopping(p)
               \/ StopLive(p) \/ Finish(p) \/ Terminate(p) \/ Settle(p) \/ Leave(p)
        PROVE  Kept
    BY <2>2, BeginInv, SpawnQueuedInv, RecordSpawnInv, ExitInv, BeginStoppingInv, StopLiveInv,
       FinishInv, TerminateInv, SettleInv, LeaveInv
  <2>3. ASSUME NEW s \in Stopper, RecordEnd(s) \/ Signal(s) \/ Die(s)
        PROVE  Kept
    BY <2>3, RecordEndInv, SignalInv, DieInv
  <2>4. CASE EndForGood \/ UNCHANGED vars
    <3>1. UNCHANGED <<life, pc, ledger, proc, job, slipped>>
      BY <2>4 DEF EndForGood, Here, Child, vars
    <3> QED BY <3>1 DEF Kept, Inv, Absent, Places, EndedBefore, Claimed, SpawnsRecorded, Jobs,
                       NoStray, Spawning, Unfinished, Alive
  <2> QED BY <2>1, <2>2, <2>3, <2>4, SweepInv DEF Next
<1> QED BY <1>1, <1>2 DEF Inv, Kept

LEMMA InitInv == Init => Inv
<1> SUFFICES ASSUME Init PROVE Inv
  OBVIOUS
<1>1. /\ \A p \in Run : ledger[p] = NoRecord /\ proc[p] = "None"
      /\ \A p \in First : life[p] = "Live" /\ pc[p] = "Take"
      /\ \A p \in Other : life[p] = "Unborn" /\ pc[p] = "Reap"
      /\ \A s \in Stopper : job[s].step = "None"
  BY DEF Init, NoJob, Other
<1>2. \A p \in Run : p \in First \/ p \in Other
  BY DEF Other
<1>3. /\ NoRecord.there = FALSE /\ NoRecord.pid = FALSE /\ NoRecord.end = "None"
      /\ NoRecord.by = Nobody /\ NoRecord.claim = Nobody
  BY DEF NoRecord
<1>4. Absent /\ Places
  BY <1>1, <1>2, <1>3 DEF Absent, Places, Other
<1>5. EndedBefore /\ Claimed
  BY <1>1, <1>2, <1>3 DEF EndedBefore, Claimed, Other
<1>6. SpawnsRecorded /\ Jobs /\ NoStray
  BY <1>1, <1>2 DEF SpawnsRecorded, Spawning, Jobs, NoStray
<1> QED BY <1>4, <1>5, <1>6, InitType DEF Inv

LEMMA InvHolds == Spec => []Inv
BY InitInv, NextInv, PTL DEF Spec

\* A process of the child runs only where the ledger of its run says so, or where a
\* launch is about to record it or a stopper to signal it (stop_live_children,
\* interrupt_orphans, watch_process).
THEOREM NoStrayHolds == Spec => []NoStray
<1>1. Inv => NoStray
  BY DEF Inv
<1> QED BY <1>1, InvHolds, PTL

\* ledger::claim lets one continuation of a run take its child on, whoever dies
\* between the claim, the launch and the closing of the record.
THEOREM TakenOnOnceHolds == Spec => []TakenOnOnce
<1>1. Inv => TakenOnOnce
  <2> SUFFICES ASSUME Inv, NEW q \in Other, NEW r \in Other, Prior[q] = Prior[r],
                      ledger[q].there, ledger[r].there
               PROVE  q = r
    BY DEF TakenOnOnce, Other
  <2>1. \A x \in {q, r} : \/ ledger[Prior[q]].by = x
                          \/ ledger[Prior[q]].by = Nobody /\ ledger[Prior[q]].claim = x
    BY DEF Inv, Claimed
  <2> QED BY <2>1 DEF Other
<1> QED BY <1>1, InvHolds, PTL

------------------------------------------------------------------------------
(* An end that is recorded, or that the child was taken on, stands.        *)

Stands(p) == /\ HasFinalEnd(ledger[p]) => ledger'[p].end = ledger[p].end
             /\ ledger[p].by # Nobody => ledger'[p].by = ledger[p].by

LEMMA AppendStands ==
  ASSUME NEW r \in Record, NEW e
  PROVE  AppendEnd(r, e).by = r.by /\ (HasFinalEnd(r) => AppendEnd(r, e) = r)
BY DEF AppendEnd, Record

\* A write to one ledger leaves the others' ends alone.
LEMMA SetStands ==
  ASSUME TypeOK, NEW p \in Run, NEW r, Set(p, r),
         HasFinalEnd(ledger[p]) => r.end = ledger[p].end,
         ledger[p].by # Nobody => r.by = ledger[p].by
  PROVE  \A x \in Run : Stands(x)
BY SetFields DEF Stands

LEMMA NextStands == Inv /\ Next => \A p \in Run : Stands(p)
<1> SUFFICES ASSUME Inv, Next PROVE \A p \in Run : Stands(p)
  OBVIOUS
<1>a. TypeOK /\ \A p \in Run : ledger[p] \in Record
  BY DEF Inv, TypeOK
<1>b. \A q \in Run : pc[q] \in {"Take", "Record"} => ~HasFinalEnd(ledger[q]) /\ ledger[q].by = Nobody
  BY DEF Inv, Places, Absent, HasFinalEnd
<1>1. ASSUME NEW q \in Run, Claim(q) PROVE \A p \in Run : Stands(p)
  <2> DEFINE p == Prior[q]
  <2>1. p \in Run
    OBVIOUS
  <2>2. CASE ledger' = ledger
    BY <2>2 DEF Stands
  <2>3. CASE Set(p, CloseFor(ledger[p])) /\ ledger[p].by = Nobody
    BY <1>a, <2>1, <2>3, CloseForFields, SetStands
  <2>4. CASE Set(p, [ledger[p] EXCEPT !.claim = q])
    <3>1. LET c == [ledger[p] EXCEPT !.claim = q] IN c.end = ledger[p].end /\ c.by = ledger[p].by
      BY <1>a, <2>1 DEF Record
    <3> QED BY <1>a, <2>1, <2>4, <3>1, SetStands
  <2> QED BY <1>1, <2>2, <2>3, <2>4 DEF Claim
<1>2. ASSUME NEW s \in Stopper, RecordEnd(s) PROVE \A p \in Run : Stands(p)
  <2> DEFINE j == job[s]
  <2>1. j.at \in Run /\ Set(j.at, AppendEnd(ledger[j.at], j.end))
    BY <1>2 DEF RecordEnd, Inv, Jobs
  <2> QED BY <1>a, <2>1, AppendStands, SetStands
<1>3. ASSUME NEW p \in Run, Settle(p) PROVE \A x \in Run : Stands(x)
  <2>1. Set(p, AppendEnd(ledger[p], Settled(p)))
    BY <1>3 DEF Settle
  <2> QED BY <1>a, <2>1, AppendStands, SetStands
<1>4. ASSUME NEW q \in Run, Launch(q) \/ Restore(q) \/ RecordLaunch(q)
      PROVE  \A p \in Run : Stands(p)
  <2>1. pc[q] \in {"Take", "Record"} /\ \A x \in Run \ {q} : ledger'[x] = ledger[x]
    BY <1>4, <1>a, SetFields DEF Launch, Restore, RecordLaunch
  <2> QED BY <1>b, <2>1 DEF Stands
<1>5. ASSUME NEW q \in Run, Close(q) PROVE \A p \in Run : Stands(p)
  <2> DEFINE p == Prior[q]
  <2>1. CASE q \in First
    BY <1>5, <2>1 DEF Close, Stands
  <2>2. CASE q \notin First
    <3>1. p \in Run /\ Set(p, Closed(q, ledger[p]))
      BY <1>5, <2>2 DEF Close, Set
    <3>2. /\ Closed(q, ledger[p]).end = ledger[p].end
          /\ ledger[p].by # Nobody => Closed(q, ledger[p]).by = ledger[p].by
      BY <1>a, <3>1 DEF Closed, Record
    <3> QED BY <1>a, <3>1, <3>2, SetStands
  <2> QED BY <2>1, <2>2
<1>6. ASSUME NEW q \in Run, RecordSpawn(q) PROVE \A p \in Run : Stands(p)
  <2>1. Set(q, [ledger[q] EXCEPT !.pid = TRUE])
    BY <1>6 DEF RecordSpawn
  <2>2. LET c == [ledger[q] EXCEPT !.pid = TRUE] IN c.end = ledger[q].end /\ c.by = ledger[q].by
    BY <1>a DEF Record
  <2> QED BY <1>a, <2>1, <2>2, SetStands
<1>7. CASE UNCHANGED ledger
  BY <1>7 DEF Stands
<1>8. ASSUME NEW p \in Run,
             \/ Begin(p) \/ Reap(p) \/ Look(p) \/ SpawnQueued(p) \/ Exit(p) \/ BeginStopping(p)
             \/ StopLive(p) \/ Finish(p) \/ Terminate(p) \/ Leave(p)
      PROVE  UNCHANGED ledger
  BY <1>8 DEF Begin, Reap, Look, SpawnQueued, Exit, BeginStopping, StopLive, Finish, Terminate, Leave
<1>9. ASSUME NEW s \in Stopper, Signal(s) \/ Die(s)
      PROVE  UNCHANGED ledger
  BY <1>9 DEF Signal, Die
<1>10. Sweep \/ EndForGood => UNCHANGED ledger
  BY DEF Sweep, EndForGood
<1> QED BY <1>1, <1>2, <1>3, <1>4, <1>5, <1>6, <1>7, <1>8, <1>9, <1>10 DEF Next, Continue

\* fold keeps the first final end of a record, and the first run that took the
\* child on, against every later writer.
THEOREM EndStandsHolds == Spec => EndStands
<1>1. Inv /\ [Next]_vars => [\A p \in Run : Stands(p)]_vars
  BY NextStands
<1> QED BY <1>1, InvHolds, PTL DEF Spec, EndStands, Stands

==============================================================================
