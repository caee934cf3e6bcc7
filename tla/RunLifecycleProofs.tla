------------------------- MODULE RunLifecycleProofs --------------------------
(***************************************************************************)
(* Theorems of RunLifecycle, for any processes, gates and bounds.  First    *)
(* what the operations on run.json preserve: Evolves relates the record     *)
(* before and after, whatever the operation.  The record part of a step is  *)
(* then settled once, by StepEvolves; each safety property of the record    *)
(* follows from it, and OneRunner from the inductive invariant RunnerInv.   *)
(* Last, what a step does to the decisions on the record, in the books of   *)
(* runners and in the history (Passes), from which no decision is lost.     *)
(***************************************************************************)
EXTENDS RunLifecycle, TLAPS

-----------------------------------------------------------------------------
(* What the operations of RunRecord preserve: the result is well formed, a  *)
(* gate is not parked and decided at once, a deadline is not lost, and a    *)
(* single-cursor run is given no rejection to apply.                        *)


\* The gates of r and s are in the same state.
SameGates(r, s) ==
    /\ s.decisions = r.decisions
    /\ s.awaiting = r.awaiting
    /\ s.overdue = r.overdue

\* s is a well-formed successor of r: a decision of r is not on a gate newly
\* parked, a new one is on no parked gate, and a gate that is no longer
\* overdue is no longer parked.
Evolves(r, s) ==
    /\ s \in Record
    /\ \A d \in s.decisions :
         \/ d \in r.decisions /\ (d.gate \in s.awaiting => d.gate \in r.awaiting)
         \/ d.gate \notin s.awaiting /\ (PathScoped \/ d.verdict = "approved")
    /\ \A g \in r.overdue \ s.overdue : g \notin s.awaiting

\* A record with the same gates is a successor.
LEMMA SameGatesEvolves ==
  ASSUME NEW r \in Record, NEW s \in Record, SameGates(r, s)
  PROVE  Evolves(r, s)
  BY DEF SameGates, Evolves

\* The marker's operations may follow any other.
LEMMA EvolvesThenSame ==
  ASSUME NEW r \in Record, NEW s \in Record, NEW t \in Record,
         Evolves(r, s), SameGates(s, t)
  PROVE  Evolves(r, t)
  BY DEF SameGates, Evolves

-----------------------------------------------------------------------------
(* Gate decisions. *)

\* record_gate_decision keeps the runner; a rejection may be recorded only on
\* a path-scoped run.
LEMMA RecordDecisionEvolves ==
  ASSUME NEW r \in Record, NEW d \in Decision,
         PathScoped \/ d.verdict = "approved"
  PROVE  /\ Evolves(r, RecordDecision(r, d))
         /\ RecordDecision(r, d).pid = r.pid
  BY DEF RecordDecision, Evolves, Record, Status, Terminal

\* Finalizing a run keeps its runner and its decisions.
LEMMA FinalizeEvolves ==
  ASSUME NEW r \in Record, NEW s \in Status
  PROVE  /\ Evolves(r, Finalize(r, s))
         /\ Finalize(r, s).pid = r.pid
         /\ Finalize(r, s).status = s
         /\ Finalize(r, s).decisions = r.decisions
         /\ Finalize(r, s).awaiting = {}
         /\ Finalize(r, s).overdue = {}
  BY DEF Finalize, Record, Evolves

\* A gate's expiry keeps the runner.
LEMMA ExpireGateEvolves ==
  ASSUME NEW r \in Record, NEW g \in Gate, NEW at \in Nat
  PROVE  /\ Evolves(r, ExpireGate(r, g, at))
         /\ ExpireGate(r, g, at).pid = r.pid
<1> DEFINE d == [gate |-> g, verdict |-> "rejected", at |-> at, by |-> "timeout"]
<1>1. d \in Decision
  BY DEF Decision
<1>2. {"Failed", "Rejected"} \subseteq Status
  BY DEF Status, Terminal
<1>3. CASE OnTimeout[g] = "fail"
  BY <1>2, <1>3, FinalizeEvolves DEF ExpireGate
<1>4. CASE OnTimeout[g] # "fail" /\ PathScoped
  <2>1. ExpireGate(r, g, at) = RecordDecision(r, d)
    BY <1>4 DEF ExpireGate
  <2> QED  BY <1>1, <1>4, <2>1, RecordDecisionEvolves
<1>5. CASE OnTimeout[g] # "fail" /\ ~PathScoped
  BY <1>2, <1>5, FinalizeEvolves DEF ExpireGate
<1> QED  BY <1>3, <1>4, <1>5

\* So does a rejection, which a single-cursor run does not record.
LEMMA RejectGateEvolves ==
  ASSUME NEW r \in Record, NEW d \in Decision
  PROVE  /\ Evolves(r, RejectGate(r, d))
         /\ RejectGate(r, d).pid = r.pid
<1>1. CASE PathScoped
  BY <1>1, RecordDecisionEvolves DEF RejectGate
<1>2. CASE ~PathScoped
  <2> DEFINE rest == r.awaiting \ {d.gate}
  <2> DEFINE s == [r EXCEPT !.awaiting = rest,
                            !.overdue  = @ \ {d.gate},
                            !.status   = IF rest = {} THEN "Rejected" ELSE @]
  <2>1. RejectGate(r, d) = s
    BY <1>2 DEF RejectGate
  <2>2. s \in Record
    BY DEF Record, Status, Terminal
  <2>3. /\ s.awaiting = rest /\ s.overdue = r.overdue \ {d.gate}
        /\ s.decisions = r.decisions /\ s.pid = r.pid
    BY DEF Record
  <2> HIDE DEF s
  <2> QED  BY <2>1, <2>2, <2>3 DEF Evolves
<1> QED  BY <1>1, <1>2

-----------------------------------------------------------------------------
(* The pending-resume marker. *)

\* The marker's operations touch the marker and the claim alone.
LEMMA MarkType ==
  ASSUME NEW r \in Record, NEW g \in Gate \cup {None}
  PROVE  /\ Mark(r, g) \in Record
         /\ SameGates(r, Mark(r, g))
         /\ Mark(r, g).pid = r.pid
         /\ Mark(r, g).status = r.status
  BY DEF Mark, Record, SameGates

LEMMA ClearMarkerType ==
  ASSUME NEW r \in Record
  PROVE  /\ ClearMarker(r) \in Record
         /\ SameGates(r, ClearMarker(r))
         /\ ClearMarker(r).pid = r.pid
         /\ ClearMarker(r).status = r.status
  BY DEF ClearMarker, Record, SameGates

\* clear_resume_if_marked_at, and the spawner that forgets what it read.
LEMMA GiveBackType ==
  ASSUME NEW r \in Record, NEW s \in Spawner,
         NEW b, b = [GiveBackResume(r, s) EXCEPT !.readers = @ \ {s}]
  PROVE  /\ b \in Record
         /\ SameGates(r, b)
         /\ b.pid = r.pid
         /\ b.status = r.status
<1> DEFINE released == [r EXCEPT !.claimed = FALSE]
<1> DEFINE c == GiveBackResume(r, s)
<1>1. /\ released \in Record /\ released.pid = r.pid
      /\ released.status = r.status /\ SameGates(r, released)
  BY DEF Record, SameGates
<1>2. GiveBackResume(r, s) \in {r, released, ClearMarker(released)}
  BY DEF GiveBackResume
<1> HIDE DEF released
<1>3. c \in Record /\ SameGates(r, c) /\ c.pid = r.pid /\ c.status = r.status
  BY <1>1, <1>2, ClearMarkerType DEF SameGates
<1> HIDE DEF c
<1>4. b = [c EXCEPT !.readers = c.readers \ {s}]
  BY DEF c
<1> QED  BY <1>3, <1>4 DEF Record, SameGates

-----------------------------------------------------------------------------
(* The whole-run transitions. *)

LEMMA FinalizeFailedEvolves ==
  ASSUME NEW r \in Record
  PROVE  /\ Evolves(r, FinalizeFailed(r))
         /\ FinalizeFailed(r).status = "Failed"
         /\ FinalizeFailed(r).decisions = r.decisions
  BY DEF FinalizeFailed, Record, Status, Terminal, Evolves

LEMMA MarkCancelledEvolves ==
  ASSUME NEW r \in Record
  PROVE  /\ Evolves(r, MarkCancelled(r))
         /\ MarkCancelled(r).status = "Cancelled"
         /\ MarkCancelled(r).decisions = {}
  BY DEF MarkCancelled, Record, Status, Terminal, Evolves

LEMMA MarkResumedEvolves ==
  ASSUME NEW r \in Record, NEW p \in Proc
  PROVE  /\ Evolves(r, MarkResumed(r, p))
         /\ MarkResumed(r, p).pid = p
         /\ MarkResumed(r, p).status = "Running"
         /\ MarkResumed(r, p).decisions = r.decisions
<1> DEFINE c == ClearMarker(r)
<1> DEFINE m == [c EXCEPT !.status = "Running", !.pid = p,
                          !.awaiting = {}, !.overdue = {}]
<1>1. c \in Record /\ c.decisions = r.decisions
  BY ClearMarkerType DEF SameGates
<1>2. MarkResumed(r, p) = m
  BY DEF MarkResumed
<1> HIDE DEF c
<1>3. /\ m \in Record /\ m.pid = p /\ m.status = "Running"
      /\ m.decisions = r.decisions /\ m.awaiting = {}
  BY <1>1 DEF Record, Status
<1> HIDE DEF m
<1> QED  BY <1>2, <1>3 DEF Evolves

\* A runner's end clears runner_pid; what it parks must not be decided.
Ends == {"Completed", "Rejected", "AwaitingApproval", "Paused", "Failed"}

LEMMA ApplyEndEvolves ==
  ASSUME NEW r \in Record, NEW end \in Ends, NEW parked \in SUBSET Gate,
         NEW served \in BOOLEAN,
         \A d \in r.decisions : d.gate \notin parked
  PROVE  /\ Evolves(r, ApplyEnd(r, end, parked, served))
         /\ ApplyEnd(r, end, parked, served).status = end
         /\ ApplyEnd(r, end, parked, served).decisions = r.decisions
<1> DEFINE ended ==
      CASE end \in {"Completed", "Rejected"} -> Finalize(r, end)
        [] end = "AwaitingApproval" -> RePark(r, parked)
        [] end = "Paused" -> Finalize(r, end)
        [] end = "Failed" -> [r EXCEPT !.status = end]
<1> DEFINE left == [ended EXCEPT !.pid = None]
<1>1. end \in Status
  BY DEF Ends, Status, Terminal
<1>2. /\ ended \in Record /\ ended.status = end /\ Evolves(r, ended)
      /\ ended.decisions = r.decisions
  <2>1. CASE end \in {"Completed", "Rejected", "Paused"}
    BY <1>1, <2>1, FinalizeEvolves DEF Evolves
  <2>2. CASE end = "AwaitingApproval"
    BY <1>1, <2>2 DEF RePark, Record, Evolves
  <2>3. CASE end = "Failed"
    BY <1>1, <2>3 DEF Record, Evolves
  <2> QED  BY <2>1, <2>2, <2>3 DEF Ends
<1>3. ApplyEnd(r, end, parked, served) =
        IF served /\ left.decisions = {}
        THEN [ClearMarker(left) EXCEPT !.claimed = FALSE] ELSE left
  BY DEF ApplyEnd
<1> HIDE DEF ended
<1>4. left \in Record /\ left.status = end /\ SameGates(ended, left)
  BY <1>2 DEF Record, SameGates
<1> HIDE DEF left
<1> DEFINE c == ClearMarker(left)
<1>5. c \in Record /\ c.status = end /\ SameGates(ended, c)
  BY <1>4, ClearMarkerType DEF SameGates
<1> HIDE DEF c
<1>6. /\ [c EXCEPT !.claimed = FALSE] \in Record
      /\ [c EXCEPT !.claimed = FALSE].status = end
      /\ SameGates(ended, [c EXCEPT !.claimed = FALSE])
  BY <1>5 DEF Record, SameGates
<1> QED  BY <1>2, <1>3, <1>4, <1>6, EvolvesThenSame DEF c, SameGates

-----------------------------------------------------------------------------
(* What a step does to run.json. *)

LEMMA ActionTypes ==
  ASSUME TypeOK
  PROVE  /\ rec \in Record /\ clock + 1 \in Nat
         /\ rec.awaiting \subseteq Gate /\ rec.decisions \subseteq Decision
         /\ \A p \in Proc : proc[p] \in Process
  BY DEF TypeOK, Record

\* RunEnd::apply within finish_runner.
LEMMA FinishEvolves ==
  ASSUME TypeOK, NEW p \in Proc, NEW end \in PassEnds(p), Finish(p, end)
  PROVE  Evolves(rec, rec')
<1> DEFINE applied == proc[p].applied
<1> DEFINE left    == [rec EXCEPT !.decisions = Unapplied(@, applied)]
<1> DEFINE parked  == IF end = "AwaitingApproval" THEN proc[p].parked ELSE {}
<1> DEFINE new     == DecisionsOn(left, parked)
<1>1. rec \in Record /\ proc[p] \in Process
  BY ActionTypes
<1>2. CASE rec' = rec
  BY <1>1, <1>2, SameGatesEvolves DEF SameGates
<1>3. CASE /\ rec.status # "Cancelled" /\ new = {}
           /\ rec' = ApplyEnd(left, end, parked, applied # {})
  <2>1. left \in Record /\ Evolves(rec, left)
    BY <1>1 DEF Record, Unapplied, Evolves
  <2>2. parked \in SUBSET Gate
    BY <1>1 DEF Process
  <2>3. \A d \in left.decisions : d.gate \notin parked
    BY <1>3 DEF DecisionsOn
  <2>4. end \in Ends
    BY DEF PassEnds, Ends
  <2>5. /\ left.overdue = rec.overdue /\ left.awaiting = rec.awaiting
        /\ left.decisions \subseteq rec.decisions
    BY <1>1 DEF Record, Unapplied
  <2>6. (applied # {}) \in BOOLEAN
    OBVIOUS
  <2> HIDE DEF left, parked
  <2>7. Evolves(left, rec')
    BY <1>3, <2>1, <2>2, <2>3, <2>4, <2>6, ApplyEndEvolves
  <2> QED  BY <2>5, <2>7 DEF Evolves
<1> QED  BY <1>2, <1>3 DEF Finish

\* RunStore::cancel.
LEMMA CancelEvolves ==
  ASSUME TypeOK, Cancel
  PROVE  Evolves(rec, rec')
<1>1. rec \in Record
  BY ActionTypes
<1>2. {"Failed", "Rejected"} \subseteq Status
  BY DEF Status, Terminal
<1>3. \/ rec' = Finalize(rec, "Failed") \/ rec' = Finalize(rec, "Rejected")
      \/ rec' = MarkCancelled(rec)
  BY DEF Cancel
<1> QED  BY <1>1, <1>2, <1>3, FinalizeEvolves, MarkCancelledEvolves

\* resume_run's first look: nothing, or the reap of a dead runner.
LEMMA ResumeLoadEvolves ==
  ASSUME TypeOK, NEW p \in Proc, ResumeLoad(p)
  PROVE  Evolves(rec, rec')
<1>1. rec \in Record
  BY ActionTypes
<1>2. rec' \in {rec, FinalizeFailed(rec)}
  BY DEF ResumeLoad
<1> QED  BY <1>1, <1>2, FinalizeFailedEvolves, SameGatesEvolves DEF SameGates

\* workflow approve.
LEMMA ApproveStepEvolves ==
  ASSUME TypeOK, NEW p \in Proc, ApproveStep(p)
  PROVE  Evolves(rec, rec') /\ rec'.pid = rec.pid
<1>1. /\ rec \in Record /\ clock + 1 \in Nat /\ rec.awaiting \subseteq Gate
      /\ proc[p] \in Process
  BY ActionTypes
<1>2. CASE \E g \in rec.awaiting : rec' = ExpireGate(rec, g, clock + 1)
  BY <1>1, <1>2, ExpireGateEvolves
<1>3. CASE \E g \in Targets(proc[p].gate) :
             rec' = RecordDecision(rec, [gate |-> g, verdict |-> "approved",
                                         at |-> clock + 1, by |-> proc[p].by])
  <2>1. PICK g \in Targets(proc[p].gate) :
             rec' = RecordDecision(rec, [gate |-> g, verdict |-> "approved",
                                         at |-> clock + 1, by |-> proc[p].by])
    BY <1>3
  <2> DEFINE d == [gate |-> g, verdict |-> "approved", at |-> clock + 1,
                   by |-> proc[p].by]
  <2>2. g \in Gate
    BY <1>1 DEF Targets
  <2>3. d \in Decision /\ d.verdict = "approved"
    BY <1>1, <2>2 DEF Decision, Process
  <2> HIDE DEF d
  <2>4. rec' = RecordDecision(rec, d)
    BY <2>1 DEF d
  <2> QED  BY <1>1, <2>3, <2>4, RecordDecisionEvolves
<1>4. CASE rec' = rec
  BY <1>1, <1>4, SameGatesEvolves DEF SameGates
<1> QED  BY <1>2, <1>3, <1>4 DEF ApproveStep

\* A rejected gate, and the request for a runner that may follow a decision.
LEMMA RejectedEvolves ==
  ASSUME TypeOK, NEW g \in Gate
  PROVE  Evolves(rec, Rejected(g)) /\ Rejected(g).pid = rec.pid
<1> DEFINE d == [gate |-> g, verdict |-> "rejected", at |-> clock + 1,
                 by |-> "human"]
<1>1. rec \in Record /\ clock + 1 \in Nat
  BY ActionTypes
<1>2. d \in Decision
  BY <1>1 DEF Decision
<1>3. Rejected(g) \in {ExpireGate(rec, g, clock + 1), RejectGate(rec, d)}
  BY DEF Rejected
<1> HIDE DEF d
<1> QED  BY <1>1, <1>2, <1>3, ExpireGateEvolves, RejectGateEvolves

LEMMA AskForRunnerEvolves ==
  ASSUME TypeOK, NEW r \in Record, NEW g \in Gate, Evolves(rec, r)
  PROVE  Evolves(rec, AskForRunner(r, g)) /\ AskForRunner(r, g).pid = r.pid
<1>1. AskForRunner(r, g) \in {r, Mark(r, g)}
  BY DEF AskForRunner
<1> QED  BY <1>1, ActionTypes, MarkType, EvolvesThenSame

LEMMA WebApproveEvolves ==
  ASSUME TypeOK, NEW g \in Gate, WebApprove(g)
  PROVE  Evolves(rec, rec') /\ rec'.pid = rec.pid
<1> DEFINE d == [gate |-> g, verdict |-> "approved", at |-> clock + 1,
                 by |-> "human"]
<1> DEFINE r == IF ExpiresFirst(rec) THEN ExpireGate(rec, g, clock + 1)
                ELSE RecordDecision(rec, d)
<1>1. rec \in Record /\ clock + 1 \in Nat
  BY ActionTypes
<1>2. d \in Decision /\ d.verdict = "approved"
  BY <1>1 DEF Decision
<1>3. rec' = AskForRunner(r, g)
  BY DEF WebApprove
<1> HIDE DEF d
<1>4. Evolves(rec, r) /\ r.pid = rec.pid
  BY <1>1, <1>2, ExpireGateEvolves, RecordDecisionEvolves
<1>5. r \in Record
  BY <1>4 DEF Evolves
<1> QED  BY <1>3, <1>4, <1>5, AskForRunnerEvolves

LEMMA WebRejectEvolves ==
  ASSUME TypeOK, NEW g \in Gate, WebReject(g)
  PROVE  Evolves(rec, rec') /\ rec'.pid = rec.pid
<1>1. Evolves(rec, Rejected(g)) /\ Rejected(g).pid = rec.pid
  BY RejectedEvolves
<1>2. Rejected(g) \in Record
  BY <1>1 DEF Evolves
<1> QED  BY <1>1, <1>2, AskForRunnerEvolves DEF WebReject

\* The gate sweep's `fail' and `reject'.
LEMMA SweepExpireEvolves ==
  ASSUME TypeOK, NEW g \in Gate, SweepExpire(g)
  PROVE  Evolves(rec, rec') /\ rec'.pid = rec.pid
<1> DEFINE expired == ExpireGate(rec, g, clock + 1)
<1> DEFINE told == [expired EXCEPT !.readers = IF rec.marked
                                               THEN @ \cup {"sweep"} ELSE @]
<1>1. rec \in Record /\ clock + 1 \in Nat
  BY ActionTypes
<1>2. rec' \in {expired, told}
  BY DEF SweepExpire
<1>3. Evolves(rec, expired) /\ expired.pid = rec.pid /\ expired \in Record
  BY <1>1, ExpireGateEvolves DEF Evolves
<1> HIDE DEF expired
<1>4. told \in Record /\ SameGates(expired, told) /\ told.pid = expired.pid
  BY <1>3 DEF Record, SameGates, Spawner
<1> QED  BY <1>1, <1>2, <1>3, <1>4, EvolvesThenSame

\* The steps that touch the marker, the claim or a deadline alone.
LEMMA MarkerStepSame ==
  ASSUME TypeOK,
         \/ WebResume \/ WorkerClaim \/ WorkerSpawnNothing \/ SweepClaim
         \/ SweepSpawnFails \/ LeaseExpire \/ CpCrash \/ Rerequest
         \/ \E p \in Proc : WorkerSpawn(p) \/ WebRetry(p)
         \/ \E s \in Spawner : GiveBack(s)
         \/ \E g \in Gate : SweepHandOff(g) \/ Overdue(g)
  PROVE  /\ Evolves(rec, rec') /\ rec'.pid = rec.pid
         /\ rec'.status = rec.status /\ rec'.decisions = rec.decisions
<1> USE ActionTypes
<1> DEFINE Same == /\ rec' \in Record /\ SameGates(rec, rec')
                   /\ rec'.pid = rec.pid /\ rec'.status = rec.status
<1>1. ASSUME Same
      PROVE  /\ Evolves(rec, rec') /\ rec'.pid = rec.pid
             /\ rec'.status = rec.status /\ rec'.decisions = rec.decisions
  BY <1>1, SameGatesEvolves DEF SameGates
<1>2. CASE WebResume
  BY <1>1, <1>2, MarkType DEF WebResume
<1>3. CASE WorkerClaim
  BY <1>1, <1>3 DEF WorkerClaim, Record, SameGates
<1>4. CASE WorkerSpawnNothing
  BY <1>1, <1>4 DEF WorkerSpawnNothing, Record, SameGates, Spawner
<1>5. CASE SweepClaim
  <2>1. \/ rec' = [rec EXCEPT !.readers = @ \ {"sweep"}]
        \/ rec' = [rec EXCEPT !.claimed = TRUE]
    BY <1>5 DEF SweepClaim
  <2>2. CASE rec' = [rec EXCEPT !.readers = @ \ {"sweep"}]
    BY <1>1, <2>2 DEF Record, SameGates
  <2>3. CASE rec' = [rec EXCEPT !.claimed = TRUE]
    BY <1>1, <2>3 DEF Record, SameGates
  <2> QED  BY <2>1, <2>2, <2>3
<1>6. CASE SweepSpawnFails
  BY <1>1, <1>6 DEF SweepSpawnFails, Record, SameGates, Spawner
<1>7. CASE LeaseExpire
  BY <1>1, <1>7 DEF LeaseExpire, Record, SameGates
<1>8. CASE CpCrash
  BY <1>1, <1>8 DEF CpCrash, Record, SameGates
<1>9. CASE Rerequest
  BY <1>1, <1>9, MarkType DEF Rerequest
<1>10. CASE \E p \in Proc : WorkerSpawn(p)
  BY <1>1, <1>10 DEF WorkerSpawn, Record, SameGates, Spawner
<1>11. CASE \E p \in Proc : WebRetry(p)
  BY <1>1, <1>11, MarkType DEF WebRetry
<1>12. CASE \E s \in Spawner : GiveBack(s)
  BY <1>1, <1>12, GiveBackType DEF GiveBack
<1>13. CASE \E g \in Gate : SweepHandOff(g)
  BY <1>1, <1>13 DEF SweepHandOff, Record, SameGates, Spawner
<1>14. CASE \E g \in Gate : Overdue(g)
  <2>1. PICK g \in Gate : Overdue(g)
    BY <1>14
  <2>2. /\ rec' \in Record /\ rec'.decisions = rec.decisions
        /\ rec'.awaiting = rec.awaiting /\ rec.overdue \subseteq rec'.overdue
        /\ rec'.pid = rec.pid /\ rec'.status = rec.status
    BY <2>1 DEF Overdue, Record
  <2> QED  BY <2>2 DEF Evolves
<1> QED  BY <1>2, <1>3, <1>4, <1>5, <1>6, <1>7, <1>8, <1>9, <1>10, <1>11,
            <1>12, <1>13, <1>14

\* Every step of the run makes a well-formed successor of the record.
LEMMA StepEvolves ==
  ASSUME TypeOK, [Next]_vars
  PROVE  Evolves(rec, rec')
<1> USE ActionTypes
<1>1. CASE rec' = rec
  BY <1>1, SameGatesEvolves DEF SameGates
<1>2. CASE \E p \in Proc : \E end \in PassEnds(p) : Finish(p, end)
  BY <1>2, FinishEvolves
<1>3. CASE \E p \in Proc : Claim(p) /\ rec' # rec
  <2>1. PICK p \in Proc : rec' = [rec EXCEPT !.pid = p]
    BY <1>3 DEF Claim
  <2>2. rec' \in Record /\ SameGates(rec, rec')
    BY <2>1 DEF Record, SameGates
  <2> QED  BY <2>2, SameGatesEvolves
<1>4. CASE \E p \in Proc : ResumeLoad(p)
  BY <1>4, ResumeLoadEvolves
<1>5. CASE \E p \in Proc : Flip(p) /\ rec' # rec
  BY <1>5, MarkResumedEvolves DEF Flip
<1>6. CASE \E p \in Proc : ApproveStep(p)
  BY <1>6, ApproveStepEvolves
<1>7. CASE \E p \in Proc : Panic(p) /\ rec' # rec
  BY <1>7, FinalizeFailedEvolves DEF Panic
<1>8. CASE \E p \in Proc, g \in Gate : OperatorReject(p, g)
  BY <1>8, RejectedEvolves DEF OperatorReject
<1>9. CASE \E g \in Gate : WebApprove(g) \/ WebReject(g)
  BY <1>9, WebApproveEvolves, WebRejectEvolves
<1>10. CASE Cancel
  BY <1>10, CancelEvolves
<1>11. CASE Pause
  <2>1. rec' \in Record /\ SameGates(rec, rec')
    BY <1>11 DEF Pause, Record, SameGates, Status
  <2> QED  BY <2>1, SameGatesEvolves
<1>12. CASE \E g \in Gate : SweepExpire(g)
  BY <1>12, SweepExpireEvolves
<1>13. CASE SweepReap
  BY <1>13, FinalizeFailedEvolves DEF SweepReap
<1>14. CASE \/ WebResume \/ WorkerClaim \/ WorkerSpawnNothing \/ SweepClaim
            \/ SweepSpawnFails \/ LeaseExpire \/ CpCrash \/ Rerequest
            \/ \E p \in Proc : WorkerSpawn(p) \/ WebRetry(p)
            \/ \E s \in Spawner : GiveBack(s)
            \/ \E g \in Gate : SweepHandOff(g) \/ Overdue(g)
  BY <1>14, MarkerStepSame
<1>15. ASSUME Next PROVE Evolves(rec, rec')
  <2>1. CASE \E p \in Proc : RunnerStep(p)
    BY <2>1, <1>1, <1>2 DEF RunnerStep, SeePause, Park, Apply, Poll
  <2>2. CASE \E p \in Proc : CommandStep(p)
    BY <2>2, <1>1, <1>3, <1>4, <1>5, <1>6
       DEF CommandStep, ReadResults, ResumeToDecided
  <2>3. CASE \E p \in Proc : Panic(p) \/ Crash(p)
    BY <2>3, <1>1, <1>7 DEF Crash
  <2>4. CASE OperatorStep
    BY <2>4, <1>1, <1>8, <1>9, <1>10, <1>11, <1>14
       DEF OperatorStep, OperatorApprove, OperatorResume, SetPauseMarker
  <2>5. CASE WorkerStep
    BY <2>5, <1>14 DEF WorkerStep, Spawner
  <2>6. CASE SweepStep
    BY <2>6, <1>1, <1>12, <1>13, <1>14 DEF SweepStep, SweepSpawn, Spawner
  <2> QED  BY <1>15, <1>14, <2>1, <2>2, <2>3, <2>4, <2>5, <2>6 DEF Next
<1> QED  BY <1>1, <1>15 DEF vars

-----------------------------------------------------------------------------
(* What a step does to the processes. *)

\* The set of processes after the step is well typed, and none has begun to
\* execute the run.
NoNewRunner ==
    /\ proc' \in [Proc -> Process]
    /\ \A q \in Proc : proc'[q].pc = "run" => proc[q].pc = "run"

LEMMA FreeProcessType ==
  FreeProcess \in Process /\ FreeProcess.pc = "free"
  BY DEF FreeProcess, Process, Status

\* A process replaced by one that does not execute the run.
LEMMA ReplacedProcess ==
  ASSUME TypeOK, NEW p \in Proc, NEW new \in Process,
         new.pc = "run" => proc[p].pc = "run",
         proc' = [proc EXCEPT ![p] = new]
  PROVE  NoNewRunner
  BY DEF TypeOK, NoNewRunner

LEMMA ExitType ==
  ASSUME TypeOK, NEW p \in Proc, Exit(p)
  PROVE  NoNewRunner
  BY ReplacedProcess, FreeProcessType DEF Exit

LEMMA StartType ==
  ASSUME TypeOK, NEW p \in Proc, NEW cmd \in {"approve", "resume", "decided"},
         NEW unf \in BOOLEAN, NEW gate \in Gate \cup {None},
         NEW by \in {"human", "timeout", "marker"},
         Start(p, cmd, unf, gate, by)
  PROVE  NoNewRunner
<1> DEFINE new == [FreeProcess EXCEPT !.pc = cmd, !.unf = unf, !.gate = gate,
                                      !.by = by]
<1>1. new \in Process /\ new.pc # "run"
  BY DEF FreeProcess, Process, Status
<1>2. proc' = [proc EXCEPT ![p] = new]
  BY DEF Start
<1> HIDE DEF new
<1> QED  BY <1>1, <1>2, ReplacedProcess

\* A runner's own steps.
LEMMA RunnerProc ==
  ASSUME TypeOK, NEW p \in Proc, RunnerStep(p)
  PROVE  NoNewRunner /\ history' \subseteq Decision
<1>1. /\ proc[p] \in Process /\ rec \in Record /\ history \subseteq Decision
      /\ rec.decisions \subseteq Decision /\ proc \in [Proc -> Process]
  BY ActionTypes DEF TypeOK
<1>2. CASE SeePause(p)
  BY <1>1, <1>2 DEF SeePause, NoNewRunner, Process
<1>3. CASE \E g \in Gate : Park(p, g)
  BY <1>1, <1>3 DEF Park, NoNewRunner, Process
<1>4. CASE \E d \in proc[p].pending : Apply(p, d)
  <2>1. PICK d \in proc[p].pending : Apply(p, d)
    BY <1>4
  <2>2. d \in Decision
    BY <1>1 DEF Process
  <2>3. history' \subseteq Decision
    BY <1>1, <2>1, <2>2 DEF Apply
  <2> DEFINE new == [proc[p] EXCEPT !.pending = @ \ {d},
                                    !.applied = @ \cup {d},
                                    !.parked  = @ \ {d.gate}]
  <2>4. new \in Process /\ new.pc = proc[p].pc
    BY <1>1, <2>2 DEF Process
  <2>5. proc' = [proc EXCEPT ![p] = new]
    BY <1>1, <2>1 DEF Apply
  <2> HIDE DEF new
  <2> QED  BY <2>3, <2>4, <2>5, ReplacedProcess
<1>5. CASE Poll(p)
  <2> DEFINE added == AddedTo(p, DecisionsOn(rec, proc[p].parked))
  <2> DEFINE new == [proc[p] EXCEPT !.pending = @ \cup added,
                                    !.parked = @ \ {d.gate : d \in added}]
  <2>1. added \subseteq Decision
    BY <1>1 DEF AddedTo, Unapplied, DecisionsOn
  <2>2. proc' = [proc EXCEPT ![p] = new]
    BY <1>1, <1>5 DEF Poll
  <2> HIDE DEF added
  <2>3. new \in Process /\ new.pc = proc[p].pc
    BY <1>1, <2>1 DEF Process
  <2> HIDE DEF new
  <2> QED  BY <1>1, <1>5, <2>2, <2>3, ReplacedProcess DEF Poll
<1>6. CASE \E end \in PassEnds(p) : Finish(p, end)
  <2>1. PICK end \in PassEnds(p) : Finish(p, end)
    BY <1>6
  <2>2. history' = history
    BY <2>1 DEF Finish
  <2>3. CASE Exit(p)
    BY <1>1, <2>2, <2>3, ExitType
  <2>4. CASE ~Exit(p)
    <3>1. PICK left, parked :
            LET found == DecisionsOn(left, parked)
            IN  /\ left = [rec EXCEPT !.decisions =
                                       Unapplied(@, proc[p].applied)]
                /\ proc' = [proc EXCEPT
                     ![p].pending = @ \cup AddedTo(p, found),
                     ![p].parked = @ \ {d.gate : d \in found}]
      BY <2>1, <2>4 DEF Finish
    <3> DEFINE found == DecisionsOn(left, parked)
    <3> DEFINE new == [proc[p] EXCEPT !.pending = @ \cup AddedTo(p, found),
                                      !.parked = @ \ {d.gate : d \in found}]
    <3>2. found \subseteq Decision
      BY <1>1, <3>1 DEF DecisionsOn, Unapplied, Record
    <3>3. proc' = [proc EXCEPT ![p] = new]
      BY <1>1, <3>1
    <3> HIDE DEF found
    <3>4. AddedTo(p, found) \subseteq Decision
      BY <3>2 DEF AddedTo, Unapplied
    <3>5. new \in Process /\ new.pc = proc[p].pc
      BY <1>1, <3>2, <3>4 DEF Process
    <3> HIDE DEF new
    <3> QED  BY <1>1, <2>2, <3>3, <3>5, ReplacedProcess
  <2> QED  BY <2>3, <2>4
<1> QED  BY <1>2, <1>3, <1>4, <1>5, <1>6 DEF RunnerStep

\* claim_runner either ends the process or makes it the run's runner.
LEMMA ClaimProc ==
  ASSUME TypeOK, NEW p \in Proc, Claim(p)
  PROVE  /\ proc' \in [Proc -> Process]
         /\ \/ NoNewRunner /\ rec' = rec
            \/ /\ rec.status \notin Terminal /\ ~LiveRunnerSeenBy(p)
               /\ rec'.pid = p /\ rec'.status = rec.status
               /\ \A q \in Proc \ {p} : proc'[q] = proc[q]
<1>1. /\ proc[p] \in Process /\ rec \in Record /\ rec.awaiting \subseteq Gate
      /\ rec.decisions \subseteq Decision /\ proc \in [Proc -> Process]
      /\ clock + 1 \in Nat
  BY ActionTypes DEF TypeOK
<1>2. CASE rec.status \in Terminal \/ LiveRunnerSeenBy(p)
  BY <1>1, <1>2, ExitType DEF Claim, NoNewRunner
<1>3. CASE ~(rec.status \in Terminal \/ LiveRunnerSeenBy(p))
  <2> DEFINE retired == {d \in rec.decisions : InHistory(d, proc[p].view)}
  <2> DEFINE open    == rec.decisions \ retired
  <2> DEFINE mem     == {[gate |-> g, verdict |-> "approved", at |-> clock + 1,
                          by |-> "memory"] :
                           g \in {proc[p].mem} \ ({None} \cup {o.gate : o \in open})}
  <2> DEFINE new == [FreeProcess EXCEPT !.pc      = "run",
                                        !.view    = proc[p].view,
                                        !.pending = open \cup mem,
                                        !.applied = retired,
                                        !.parked  = rec.awaiting \ Resolved(p),
                                        !.sig     = proc[p].sig]
  <2>1. rec' = [rec EXCEPT !.pid = p] /\ proc' = [proc EXCEPT ![p] = new]
    BY <1>3 DEF Claim
  <2>2. retired \subseteq Decision /\ open \subseteq Decision
    BY <1>1
  <2>3. mem \subseteq Decision /\ rec.awaiting \ Resolved(p) \subseteq Gate
    BY <1>1 DEF Process, Decision
  <2> HIDE DEF retired, open, mem
  <2>4. new \in Process
    BY <1>1, <2>2, <2>3 DEF FreeProcess, Process, Status
  <2> HIDE DEF new
  <2>5. rec'.pid = p /\ rec'.status = rec.status
    BY <1>1, <2>1 DEF Record
  <2> QED  BY <1>1, <1>3, <2>1, <2>4, <2>5
<1> QED  BY <1>2, <1>3

\* The other steps of a command that is to become the runner start nothing.
LEMMA CommandProc ==
  ASSUME TypeOK, NEW p \in Proc,
         \/ ReadResults(p) \/ ResumeToDecided(p) \/ ResumeLoad(p) \/ Flip(p)
         \/ ApproveStep(p)
  PROVE  NoNewRunner
<1>1. /\ proc[p] \in Process /\ rec \in Record /\ rec.awaiting \subseteq Gate
      /\ proc \in [Proc -> Process] /\ history \subseteq Decision
      /\ clock + 1 \in Nat
  BY ActionTypes DEF TypeOK
<1>2. ASSUME NEW new \in Process, new.pc # "run",
             proc' = [proc EXCEPT ![p] = new]
      PROVE  NoNewRunner
  BY <1>2, ReplacedProcess
<1>3. CASE Exit(p)
  BY <1>3, ExitType
<1>4. CASE ReadResults(p)
  <2>1. proc' = [proc EXCEPT ![p] = [proc[p] EXCEPT !.pc = "ready",
                                                    !.view = history]]
    BY <1>1, <1>4 DEF ReadResults
  <2>2. [proc[p] EXCEPT !.pc = "ready", !.view = history] \in Process
    BY <1>1 DEF Process
  <2>3. [proc[p] EXCEPT !.pc = "ready", !.view = history].pc # "run"
    BY <1>1 DEF Process
  <2> QED  BY <1>2, <2>1, <2>2, <2>3
<1>5. [FreeProcess EXCEPT !.pc = "decided"] \in Process
  BY DEF FreeProcess, Process, Status
<1>6. [FreeProcess EXCEPT !.pc = "decided"].pc # "run"
  BY DEF FreeProcess
<1>7. CASE proc' = [proc EXCEPT ![p] = [FreeProcess EXCEPT !.pc = "decided"]]
  BY <1>2, <1>5, <1>6, <1>7
<1>8. CASE ResumeLoad(p) /\ ~Exit(p)
  <2>1. PICK now \in {rec, FinalizeFailed(rec)} :
          proc' = [proc EXCEPT ![p] =
                     [FreeProcess EXCEPT !.pc = "loaded", !.orig = now.status,
                                         !.view = history]]
    BY <1>8 DEF ResumeLoad
  <2>2. now.status \in Status
    BY <1>1, <2>1, FinalizeFailedEvolves DEF Record, Status, Terminal
  <2> DEFINE new == [FreeProcess EXCEPT !.pc = "loaded", !.orig = now.status,
                                        !.view = history]
  <2>3. new \in Process /\ new.pc # "run"
    BY <1>1, <2>2 DEF FreeProcess, Process
  <2> QED  BY <1>2, <2>1, <2>3
<1>9. CASE Flip(p) /\ ~Exit(p)
  <2> DEFINE new == [FreeProcess EXCEPT !.pc = "ready", !.view = proc[p].view]
  <2>1. proc' = [proc EXCEPT ![p] = new]
    BY <1>9 DEF Flip
  <2>2. new \in Process /\ new.pc # "run"
    BY <1>1 DEF FreeProcess, Process, Status
  <2> QED  BY <1>2, <2>1, <2>2
<1>10. CASE ApproveStep(p) /\ ~Exit(p)
  <2>1. CASE \E g \in Targets(proc[p].gate) :
               proc' = [proc EXCEPT ![p] =
                          [FreeProcess EXCEPT !.pc = "decided", !.mem = g]]
    <3>1. PICK g \in Targets(proc[p].gate) :
            proc' = [proc EXCEPT ![p] =
                       [FreeProcess EXCEPT !.pc = "decided", !.mem = g]]
      BY <2>1
    <3> DEFINE new == [FreeProcess EXCEPT !.pc = "decided", !.mem = g]
    <3>2. g \in Gate
      BY <1>1 DEF Targets
    <3>3. new \in Process /\ new.pc # "run"
      BY <3>2 DEF FreeProcess, Process, Status
    <3> QED  BY <1>2, <3>1, <3>3
  <2> QED  BY <1>7, <1>10, <2>1 DEF ApproveStep
<1> QED  BY <1>3, <1>4, <1>7, <1>8, <1>9, <1>10 DEF ResumeToDecided

\* Nor does what people, the resume worker and the sweep do.
LEMMA OtherProc ==
  ASSUME TypeOK,
         \/ \E p \in Proc : Panic(p) \/ Crash(p)
         \/ OperatorStep \/ WorkerStep \/ SweepStep \/ LeaseExpire \/ CpCrash
         \/ \E g \in Gate : Overdue(g)
  PROVE  NoNewRunner
<1>1. /\ rec \in Record /\ proc \in [Proc -> Process]
      /\ spawner \in [Spawner -> SpawnerState]
  BY DEF TypeOK
<1>2. CASE proc' = proc
  BY <1>1, <1>2 DEF NoNewRunner
<1>3. CASE \E p \in Proc : Exit(p)
  BY <1>3, ExitType
<1>4. CASE \E p \in Proc, cmd \in {"resume", "decided"}, by \in {"human"} :
             Start(p, cmd, FALSE, None, by)
  BY <1>4, StartType
<1>5. CASE \E p \in Proc, g \in Gate : Start(p, "approve", FALSE, g, "human")
  BY <1>5, StartType
<1>6. CASE \E p \in Proc : WorkerSpawn(p)
  <2>1. PICK p \in Proc : WorkerSpawn(p)
    BY <1>6
  <2>2. rec.markGate \in Gate \cup {None}
    BY <1>1 DEF Record
  <2>3. CASE Start(p, "resume", TRUE, None, "human")
    BY <2>3, StartType
  <2>4. CASE Start(p, "approve", FALSE, rec.markGate, "marker")
    BY <2>2, <2>4, StartType
  <2> QED  BY <2>1, <2>3, <2>4 DEF WorkerSpawn
<1>7. CASE \E p \in Proc : SweepSpawn(p)
  <2>1. PICK p \in Proc : SweepSpawn(p)
    BY <1>7
  <2> DEFINE s == spawner["sweep"]
  <2>2. s.cmd \in {"approve", "resume"} /\ s.gate \in Gate \cup {None}
    BY <1>1 DEF Spawner, SpawnerState
  <2>3. Start(p, s.cmd, s.cmd = "resume", s.gate, "timeout")
    BY <2>1 DEF SweepSpawn
  <2>4. (s.cmd = "resume") \in BOOLEAN
    OBVIOUS
  <2> HIDE DEF s
  <2> QED  BY <2>2, <2>3, <2>4, StartType
<1>8. CASE Cancel
  <2>1. CASE HasLiveRunner
    <3>1. rec.pid \in Proc
      BY <2>1 DEF HasLiveRunner
    <3> DEFINE new == [proc[rec.pid] EXCEPT !.sig = TRUE]
    <3>2. new \in Process /\ new.pc = proc[rec.pid].pc
      <4>1. proc[rec.pid] \in Process
        BY <1>1, <3>1
      <4>2. ASSUME NEW x \in Process
            PROVE  /\ [x EXCEPT !.sig = TRUE] \in Process
                   /\ [x EXCEPT !.sig = TRUE].pc = x.pc
        BY DEF Process
      <4> QED  BY <4>1, <4>2
    <3>3. proc' = [proc EXCEPT ![rec.pid] = new] \/ proc' = proc
      BY <1>8 DEF Cancel
    <3> HIDE DEF new
    <3> QED  BY <1>2, <3>1, <3>2, <3>3, ReplacedProcess
  <2>2. CASE ~HasLiveRunner
    BY <1>2, <1>8, <2>2 DEF Cancel
  <2> QED  BY <2>1, <2>2
<1>9. CASE \E p \in Proc : Panic(p) \/ Crash(p)
  BY <1>3, <1>9 DEF Panic, Crash
<1>10. CASE OperatorStep
  BY <1>2, <1>4, <1>5, <1>8, <1>10
     DEF OperatorStep, OperatorApprove, OperatorReject, OperatorResume,
         WebRetry, WebApprove, WebReject, WebResume, Pause, SetPauseMarker
<1>11. CASE WorkerStep
  BY <1>2, <1>6, <1>11
     DEF WorkerStep, WorkerClaim, WorkerSpawnNothing, GiveBack
<1>12. CASE SweepStep
  BY <1>2, <1>7, <1>12
     DEF SweepStep, SweepExpire, SweepHandOff, SweepClaim, SweepSpawnFails,
         SweepReap, Rerequest, GiveBack
<1>13. CASE LeaseExpire \/ CpCrash \/ \E g \in Gate : Overdue(g)
  BY <1>2, <1>13 DEF LeaseExpire, CpCrash, Overdue
<1> QED  BY <1>9, <1>10, <1>11, <1>12, <1>13

\* The spawners.
LEMMA SpawnerType ==
  ASSUME TypeOK, [Next]_vars
  PROVE  spawner' \in [Spawner -> SpawnerState]
<1>1. spawner \in [Spawner -> SpawnerState] /\ Spawner = {"worker", "sweep"}
  BY DEF TypeOK, Spawner
<1>2. IdleSpawner \in SpawnerState
  BY DEF IdleSpawner, SpawnerState
<1>3. CASE spawner' = spawner
  BY <1>1, <1>3
<1>4. CASE WorkerStep
  <2>1. CASE WorkerClaim \/ WorkerSpawnNothing
    BY <1>1, <2>1 DEF WorkerClaim, WorkerSpawnNothing, SpawnerState
  <2>2. CASE \E p \in Proc : WorkerSpawn(p)
    BY <1>1, <2>2 DEF WorkerSpawn, SpawnerState
  <2>3. CASE GiveBack("worker")
    BY <1>1, <1>2, <2>3 DEF GiveBack
  <2> QED  BY <1>4, <2>1, <2>2, <2>3 DEF WorkerStep
<1>5. CASE SweepStep
  <2>1. CASE \E g \in Gate : SweepExpire(g)
    BY <1>1, <2>1 DEF SweepExpire, SpawnerState
  <2>2. CASE \E g \in Gate : SweepHandOff(g)
    BY <1>1, <2>2 DEF SweepHandOff, SpawnerState
  <2>3. CASE SweepClaim \/ SweepSpawnFails \/ GiveBack("sweep")
    BY <1>1, <1>2, <2>3 DEF SweepClaim, SweepSpawnFails, GiveBack, SpawnerState
  <2>4. CASE SweepReap \/ Rerequest
    BY <1>1, <2>4 DEF SweepReap, Rerequest
  <2>5. CASE \E p \in Proc : SweepSpawn(p)
    BY <1>1, <2>5 DEF SweepSpawn, SpawnerState
  <2> QED  BY <1>5, <2>1, <2>2, <2>3, <2>4, <2>5 DEF SweepStep
<1>6. CASE CpCrash
  BY <1>2, <1>6 DEF CpCrash
<1>7. CASE \E p \in Proc : RunnerStep(p) \/ CommandStep(p) \/ Panic(p) \/ Crash(p)
  <2>1. ASSUME NEW p \in Proc, RunnerStep(p) PROVE spawner' = spawner
    BY <2>1 DEF RunnerStep, SeePause, Park, Apply, Poll, Finish
  <2>2. ASSUME NEW p \in Proc, CommandStep(p) PROVE spawner' = spawner
    <3>1. ReadResults(p) \/ Claim(p) \/ ResumeToDecided(p) => spawner' = spawner
      BY DEF ReadResults, Claim, ResumeToDecided
    <3>2. ResumeLoad(p) \/ Flip(p) \/ ApproveStep(p) => spawner' = spawner
      BY DEF ResumeLoad, Flip, ApproveStep
    <3> QED  BY <2>2, <3>1, <3>2 DEF CommandStep
  <2>3. ASSUME NEW p \in Proc, Panic(p) \/ Crash(p) PROVE spawner' = spawner
    BY <2>3 DEF Panic, Crash
  <2> QED  BY <1>3, <1>7, <2>1, <2>2, <2>3
<1>8. CASE OperatorStep \/ LeaseExpire \/ \E g \in Gate : Overdue(g)
  BY <1>3, <1>8
     DEF OperatorStep, OperatorApprove, OperatorReject, OperatorResume,
         WebRetry, WebApprove, WebReject, WebResume, Cancel, Pause,
         SetPauseMarker, LeaseExpire, Overdue
<1> QED  BY <1>3, <1>4, <1>5, <1>6, <1>7, <1>8 DEF Next, vars

\* The clock, the bounds and the flags.
LEMMA SpendType ==
  ASSUME TypeOK, NEW kind \in BudgetKind, Spend(kind)
  PROVE  budget' \in [BudgetKind -> Nat]
  BY DEF TypeOK, Spend

LEMMA FlagTypes ==
  ASSUME TypeOK, [Next]_vars
  PROVE  /\ clock' \in Nat /\ budget' \in [BudgetKind -> Nat]
         /\ pauseMark' \in BOOLEAN /\ pausing' \in BOOLEAN /\ taken' \in BOOLEAN
<1> DEFINE Flags == /\ clock' \in Nat /\ budget' \in [BudgetKind -> Nat]
                    /\ pauseMark' \in BOOLEAN /\ pausing' \in BOOLEAN
                    /\ taken' \in BOOLEAN
<1>1. /\ clock \in Nat /\ budget \in [BudgetKind -> Nat]
      /\ pauseMark \in BOOLEAN /\ pausing \in BOOLEAN /\ taken \in BOOLEAN
      /\ clock + 1 \in Nat
  BY DEF TypeOK
<1>2. \A k \in {"park", "operator", "web", "pause", "cancel", "crash"} :
        Spend(k) => budget' \in [BudgetKind -> Nat]
  BY SpendType DEF BudgetKind
<1>3. CASE UNCHANGED <<clock, budget, pauseMark, pausing, taken>>
  BY <1>1, <1>3
<1>4. ASSUME NEW p \in Proc, RunnerStep(p) PROVE Flags
  <2>1. CASE \E g \in Gate : Park(p, g)
    BY <1>1, <1>2, <2>1 DEF Park
  <2> QED  BY <1>3, <1>4, <2>1 DEF RunnerStep, SeePause, Apply, Poll, Finish
<1>5. ASSUME NEW p \in Proc, CommandStep(p) PROVE Flags
  <2>1. CASE ResumeLoad(p)
    BY <1>1, <2>1 DEF ResumeLoad
  <2>2. CASE Flip(p)
    BY <1>1, <2>2 DEF Flip
  <2>3. CASE ApproveStep(p)
    BY <1>1, <2>3 DEF ApproveStep
  <2>4. CASE Claim(p)
    BY <1>1, <2>4 DEF Claim
  <2> QED  BY <1>3, <1>5, <2>1, <2>2, <2>3, <2>4
           DEF CommandStep, ReadResults, ResumeToDecided
<1>6. ASSUME NEW p \in Proc, Panic(p) \/ Crash(p) PROVE Flags
  BY <1>1, <1>2, <1>6 DEF Panic, Crash
<1>7. CASE OperatorStep
  <2>1. CASE \E p \in Proc, g \in Gate :
               OperatorApprove(p, g) \/ OperatorReject(p, g)
    BY <1>1, <1>2, <2>1 DEF OperatorApprove, OperatorReject
  <2>2. CASE \E p \in Proc : OperatorResume(p) \/ WebRetry(p)
    BY <1>1, <1>2, <2>2 DEF OperatorResume, WebRetry
  <2>3. CASE \E g \in Gate : WebApprove(g) \/ WebReject(g)
    BY <1>1, <1>2, <2>3 DEF WebApprove, WebReject
  <2>4. CASE WebResume \/ Cancel \/ Pause \/ SetPauseMarker
    BY <1>1, <1>2, <2>4 DEF WebResume, Cancel, Pause, SetPauseMarker
  <2> QED  BY <1>7, <2>1, <2>2, <2>3, <2>4 DEF OperatorStep
<1>8. CASE WorkerStep
  BY <1>1, <1>2, <1>3, <1>8
     DEF WorkerStep, WorkerClaim, WorkerSpawn, WorkerSpawnNothing, GiveBack
<1>9. CASE SweepStep
  <2>1. CASE \E g \in Gate : SweepExpire(g)
    BY <1>1, <2>1 DEF SweepExpire
  <2>2. CASE SweepSpawnFails
    BY <1>1, <1>2, <2>2 DEF SweepSpawnFails
  <2> QED  BY <1>3, <1>9, <2>1, <2>2
           DEF SweepStep, SweepHandOff, SweepClaim, SweepSpawn, SweepReap,
               Rerequest, GiveBack
<1>10. CASE LeaseExpire \/ CpCrash \/ \E g \in Gate : Overdue(g)
  BY <1>1, <1>2, <1>3, <1>10 DEF LeaseExpire, CpCrash, Overdue
<1> HIDE DEF Flags
<1>11. CASE Next
  BY <1>4, <1>5, <1>6, <1>7, <1>8, <1>9, <1>10, <1>11 DEF Next, Flags
<1> QED  BY <1>3, <1>11 DEF vars, Flags

LEMMA HistoryType ==
  ASSUME TypeOK, [Next]_vars
  PROVE  history' \subseteq Decision
<1>1. CASE history' = history
  BY <1>1 DEF TypeOK
<1>2. CASE \E p \in Proc : RunnerStep(p)
  BY <1>2, RunnerProc
<1>3. CASE \E p \in Proc : CommandStep(p) \/ Panic(p) \/ Crash(p)
  BY <1>1, <1>3
     DEF CommandStep, ReadResults, Claim, ResumeToDecided, ResumeLoad, Flip,
         ApproveStep, Panic, Crash
<1>4. CASE OperatorStep
  BY <1>1, <1>4
     DEF OperatorStep, OperatorApprove, OperatorReject, OperatorResume,
         WebRetry, WebApprove, WebReject, WebResume, Cancel, Pause,
         SetPauseMarker
<1>5. CASE WorkerStep \/ SweepStep
  BY <1>1, <1>5
     DEF WorkerStep, WorkerClaim, WorkerSpawn, WorkerSpawnNothing, GiveBack,
         SweepStep, SweepExpire, SweepHandOff, SweepClaim, SweepSpawn,
         SweepSpawnFails, SweepReap, Rerequest
<1>6. CASE LeaseExpire \/ CpCrash \/ \E g \in Gate : Overdue(g)
  BY <1>1, <1>6 DEF LeaseExpire, CpCrash, Overdue
<1> QED  BY <1>1, <1>2, <1>3, <1>4, <1>5, <1>6 DEF Next, vars

LEMMA ProcType ==
  ASSUME TypeOK, [Next]_vars
  PROVE  proc' \in [Proc -> Process]
<1>1. CASE proc' = proc
  BY <1>1 DEF TypeOK
<1>2. CASE Next
  BY <1>2, RunnerProc, ClaimProc, CommandProc, OtherProc
     DEF Next, CommandStep, NoNewRunner
<1> QED  BY <1>1, <1>2 DEF vars

-----------------------------------------------------------------------------
(* Theorems. *)

LEMMA InitType == Init => TypeOK
<1> SUFFICES ASSUME Init PROVE TypeOK
  OBVIOUS
<1>1. PICK p \in Proc :
        /\ rec = NewRecord(p)
        /\ proc = [q \in Proc |-> IF q = p THEN [FreeProcess EXCEPT !.pc = "run"]
                                  ELSE FreeProcess]
  BY DEF Init
<1>2. rec \in Record
  BY <1>1 DEF NewRecord, Record, Status
<1>3. [FreeProcess EXCEPT !.pc = "run"] \in Process /\ FreeProcess \in Process
  BY DEF FreeProcess, Process, Status
<1>4. IdleSpawner \in SpawnerState
  BY DEF IdleSpawner, SpawnerState
<1> QED
  BY <1>1, <1>2, <1>3, <1>4, RunLifecycleAssumption DEF Init, TypeOK

\* run.json, the processes' memory and the spawners' state stay well formed:
\* no Pending, no decision or parked gate that is not the workflow's.
THEOREM TypeCorrect == Spec => []TypeOK
<1>1. TypeOK /\ [Next]_vars => TypeOK'
  BY StepEvolves, ProcType, SpawnerType, HistoryType, FlagTypes
     DEF TypeOK, Evolves
<1> QED  BY InitType, <1>1, PTL DEF Spec

\* No gate of any run is parked and decided at once.
THEOREM ParkedXorDecidedHolds == Spec => []ParkedXorDecided
<1>1. Init => ParkedXorDecided
  BY DEF Init, NewRecord, ParkedXorDecided
<1>2. TypeOK /\ ParkedXorDecided /\ [Next]_vars => ParkedXorDecided'
  BY StepEvolves DEF ParkedXorDecided, Evolves
<1> QED  BY <1>1, <1>2, TypeCorrect, PTL DEF Spec

\* A single-cursor run never holds a rejection for its runner.
THEOREM LegacyRejectsFinalizeHolds == Spec => []LegacyRejectsFinalize
<1>1. Init => LegacyRejectsFinalize
  BY DEF Init, NewRecord, LegacyRejectsFinalize
<1>2. TypeOK /\ LegacyRejectsFinalize /\ [Next]_vars => LegacyRejectsFinalize'
  BY StepEvolves DEF LegacyRejectsFinalize, Evolves
<1> QED  BY <1>1, <1>2, TypeCorrect, PTL DEF Spec

\* No step restarts the timeout of a gate that stays parked.
THEOREM DeadlineKeptHolds == Spec => DeadlineKept
<1>1. TypeOK /\ [Next]_vars =>
        [\A g \in rec.overdue \ rec'.overdue : g \notin rec'.awaiting]_vars
  BY StepEvolves DEF Evolves
<1> QED  BY <1>1, TypeCorrect, PTL DEF Spec, DeadlineKept

-----------------------------------------------------------------------------
(* One runner. *)

\* The steps that neither give the run to a process nor take it from one.
Calm ==
    /\ rec'.pid = rec.pid
    /\ rec.status = "Cancelled" => rec'.status = "Cancelled"
    /\ NoNewRunner
    /\ taken' = taken

\* Those that may.
Handover(p) ==
    \/ \E end \in PassEnds(p) : Finish(p, end)
    \/ Claim(p) \/ ResumeLoad(p) \/ Flip(p) \/ Panic(p)

LEMMA StepCalm ==
  ASSUME TypeOK, Next
  PROVE  \/ Calm
         \/ \E p \in Proc : Handover(p)
         \/ Cancel \/ SweepReap
<1>1. rec \in Record
  BY DEF TypeOK
<1>2. CASE \E p \in Proc : RunnerStep(p)
  <2>1. PICK p \in Proc : RunnerStep(p)
    BY <1>2
  <2>2. NoNewRunner
    BY <2>1, RunnerProc
  <2> QED  BY <2>1, <2>2
           DEF RunnerStep, SeePause, Park, Apply, Poll, Handover, Calm
<1>3. CASE \E p \in Proc : CommandStep(p)
  <2>1. PICK p \in Proc : CommandStep(p)
    BY <1>3
  <2>2. CASE ReadResults(p) \/ ResumeToDecided(p)
    BY <2>2, CommandProc DEF ReadResults, ResumeToDecided, Calm
  <2>3. CASE ApproveStep(p)
    <3>1. rec'.pid = rec.pid /\ NoNewRunner
      BY <2>3, ApproveStepEvolves, CommandProc
    <3>2. rec.status = "Cancelled" => rec' = rec
      BY <2>3 DEF ApproveStep, ExpiresFirst, SoleGateOverdue
    <3> QED  BY <2>3, <3>1, <3>2 DEF ApproveStep, Calm
  <2> QED  BY <2>1, <2>2, <2>3 DEF CommandStep, Handover
<1>4. CASE \E p \in Proc : Panic(p) \/ Crash(p)
  BY <1>4, OtherProc DEF Handover, Crash, Calm
<1>5. CASE OperatorStep
  <2>1. NoNewRunner
    BY <1>5, OtherProc
  <2>2. CASE \E p \in Proc, g \in Gate : OperatorApprove(p, g)
    BY <2>1, <2>2 DEF OperatorApprove, Calm
  <2>3. CASE \E p \in Proc, g \in Gate : OperatorReject(p, g)
    BY <2>1, <2>3, RejectedEvolves DEF OperatorReject, CanReject, Calm
  <2>4. CASE \E p \in Proc : OperatorResume(p)
    BY <2>1, <2>4 DEF OperatorResume, Calm
  <2>5. CASE \E g \in Gate : WebApprove(g)
    <3>1. PICK g \in Gate : WebApprove(g)
      BY <2>5
    <3>2. rec'.pid = rec.pid
      BY <3>1, WebApproveEvolves
    <3> QED  BY <2>1, <3>1, <3>2 DEF WebApprove, Calm
  <2>6. CASE \E g \in Gate : WebReject(g)
    <3>1. PICK g \in Gate : WebReject(g)
      BY <2>6
    <3>2. rec'.pid = rec.pid
      BY <3>1, WebRejectEvolves
    <3> QED  BY <2>1, <3>1, <3>2 DEF WebReject, CanReject, Calm
  <2>7. CASE WebResume \/ \E p \in Proc : WebRetry(p)
    BY <2>1, <2>7, MarkerStepSame DEF WebResume, WebRetry, Calm
  <2>8. CASE Pause \/ SetPauseMarker
    BY <1>1, <2>1, <2>8 DEF Pause, SetPauseMarker, Calm, Record
  <2> QED  BY <1>5, <2>2, <2>3, <2>4, <2>5, <2>6, <2>7, <2>8 DEF OperatorStep
<1>6. CASE WorkerStep
  <2>1. rec'.pid = rec.pid /\ rec'.status = rec.status
    BY <1>6, MarkerStepSame DEF WorkerStep, Spawner
  <2>2. NoNewRunner
    BY <1>6, OtherProc
  <2> QED  BY <1>6, <2>1, <2>2
           DEF WorkerStep, WorkerClaim, WorkerSpawn, WorkerSpawnNothing,
               GiveBack, Calm
<1>7. CASE SweepStep
  <2>1. NoNewRunner
    BY <1>7, OtherProc
  <2>2. CASE \E g \in Gate : SweepExpire(g)
    <3>1. PICK g \in Gate : SweepExpire(g)
      BY <2>2
    <3>2. rec'.pid = rec.pid
      BY <3>1, SweepExpireEvolves
    <3> QED  BY <2>1, <3>1, <3>2 DEF SweepExpire, Calm
  <2>3. CASE \/ SweepClaim \/ SweepSpawnFails \/ Rerequest \/ GiveBack("sweep")
             \/ \E g \in Gate : SweepHandOff(g)
    <3>1. rec'.pid = rec.pid /\ rec'.status = rec.status
      BY <2>3, MarkerStepSame DEF Spawner
    <3> QED  BY <2>1, <2>3, <3>1
             DEF SweepClaim, SweepSpawnFails, Rerequest, GiveBack,
                 SweepHandOff, Calm
  <2>4. CASE \E p \in Proc : SweepSpawn(p)
    BY <2>1, <2>4 DEF SweepSpawn, Calm
  <2> QED  BY <1>7, <2>2, <2>3, <2>4 DEF SweepStep
<1>8. CASE LeaseExpire \/ CpCrash \/ \E g \in Gate : Overdue(g)
  <2>1. rec'.pid = rec.pid /\ rec'.status = rec.status
    BY <1>8, MarkerStepSame
  <2> QED  BY <1>8, <2>1, OtherProc DEF LeaseExpire, CpCrash, Overdue, Calm
<1> QED  BY <1>2, <1>3, <1>4, <1>5, <1>6, <1>7, <1>8 DEF Next

\* The process run.json names is the one that executes the run, but for a
\* runner that drains after a cancel, and there is no other.
RunnerInv ==
    ~taken => \A p \in Proc : Executing(p) =>
                /\ rec.pid = p \/ rec.status = "Cancelled"
                /\ \A q \in Proc : Executing(q) => p = q

\* A runner that is not of this process keeps another from claiming the run.
LEMMA NobodyExecutes ==
  ASSUME RunnerInv, ~taken, rec.status # "Cancelled",
         \/ ~HasLiveRunner
         \/ \E p \in Proc : ~LiveRunnerSeenBy(p)
  PROVE  \A q \in Proc : ~Executing(q)
  BY DEF RunnerInv, HasLiveRunner, LiveRunnerSeenBy, Alive, Executing

LEMMA HandoverRunner ==
  ASSUME TypeOK, RunnerInv, NEW p \in Proc, Handover(p)
  PROVE  RunnerInv'
<1>1. /\ rec \in Record /\ proc \in [Proc -> Process] /\ "Cancelled" \in Terminal
  BY DEF TypeOK, Terminal
<1>2. Exit(p) => ~Executing(p)'
  BY <1>1, FreeProcessType DEF Exit, Executing
<1>3. CASE \E end \in PassEnds(p) : Finish(p, end)
  <2>1. PICK end \in PassEnds(p) : Finish(p, end)
    BY <1>3
  <2>2. NoNewRunner
    BY <1>3, RunnerProc DEF RunnerStep
  <2>3. CASE rec' = rec
    BY <2>1, <2>2, <2>3 DEF Finish, RunnerInv, NoNewRunner, Executing
  <2>4. CASE rec.status # "Cancelled" /\ Exit(p)
    BY <1>2, <2>1, <2>2, <2>4 DEF Finish, RunnerInv, NoNewRunner, Executing
  <2> QED  BY <2>1, <2>3, <2>4 DEF Finish
<1>4. CASE Claim(p)
  <2>1. taken' = taken
    BY <1>4 DEF Claim
  <2>2. CASE NoNewRunner /\ rec' = rec
    BY <2>1, <2>2 DEF RunnerInv, NoNewRunner, Executing
  <2>3. CASE /\ rec.status \notin Terminal /\ ~LiveRunnerSeenBy(p)
             /\ rec'.pid = p
             /\ \A q \in Proc \ {p} : proc'[q] = proc[q]
    <3>1. ~taken => \A q \in Proc : ~Executing(q)
      BY <1>1, <2>3, NobodyExecutes
    <3> QED  BY <2>1, <2>3, <3>1 DEF RunnerInv, Executing
  <2> QED  BY <1>4, <2>2, <2>3, ClaimProc
<1>5. CASE ResumeLoad(p)
  <2>1. NoNewRunner /\ taken' = taken
    BY <1>5, CommandProc DEF ResumeLoad
  <2>2. CASE rec' = rec
    BY <2>1, <2>2 DEF RunnerInv, NoNewRunner, Executing
  <2>3. CASE rec.status = "Running" /\ ~HasLiveRunner
    BY <2>1, <2>3, NobodyExecutes DEF RunnerInv, NoNewRunner, Executing
  <2> QED  BY <1>5, <2>2, <2>3 DEF ResumeLoad
<1>6. CASE Flip(p)
  <2>1. NoNewRunner
    BY <1>6, CommandProc
  <2>2. CASE UNCHANGED <<rec, taken>>
    BY <2>1, <2>2 DEF RunnerInv, NoNewRunner, Executing
  <2>3. CASE taken' = (taken \/ \E q \in Proc : Executing(q))
    BY <2>1, <2>3 DEF RunnerInv, NoNewRunner, Executing
  <2> QED  BY <1>6, <2>2, <2>3 DEF Flip
<1>7. CASE Panic(p)
  <2>1. NoNewRunner /\ taken' = taken /\ ~Executing(p)'
    BY <1>2, <1>7, OtherProc DEF Panic
  <2>2. CASE rec' = rec
    BY <2>1, <2>2 DEF RunnerInv, NoNewRunner, Executing
  <2>3. CASE rec.status = "Running"
    BY <1>7, <2>1, <2>3 DEF Panic, RunnerInv, NoNewRunner, Executing
  <2> QED  BY <1>7, <2>2, <2>3 DEF Panic
<1> QED  BY <1>3, <1>4, <1>5, <1>6, <1>7 DEF Handover

LEMMA StepRunner ==
  ASSUME TypeOK, RunnerInv, [Next]_vars
  PROVE  RunnerInv'
<1>1. rec \in Record /\ "Cancelled" \in Terminal
  BY DEF TypeOK, Terminal
<1>2. CASE UNCHANGED vars
  BY <1>2 DEF vars, RunnerInv, Executing
<1>3. CASE Calm
  BY <1>3 DEF Calm, NoNewRunner, RunnerInv, Executing
<1>4. CASE \E p \in Proc : Handover(p)
  BY <1>4, HandoverRunner
<1>5. CASE Cancel
  <2>1. NoNewRunner /\ taken' = taken
    BY <1>5, OtherProc DEF OperatorStep, Cancel
  <2>2. rec.status # "Cancelled"
    BY <1>1, <1>5 DEF Cancel
  <2>3. rec'.pid = rec.pid \/ rec'.status = "Cancelled"
    <3>1. {"Failed", "Rejected"} \subseteq Status
      BY DEF Status, Terminal
    <3> QED  BY <1>1, <1>5, <3>1, FinalizeEvolves, MarkCancelledEvolves
             DEF Cancel
  <2> QED  BY <2>1, <2>2, <2>3 DEF RunnerInv, NoNewRunner, Executing
<1>6. CASE SweepReap
  <2>1. NoNewRunner /\ taken' = taken
    BY <1>6, OtherProc DEF SweepStep, SweepReap
  <2> QED  BY <1>6, <2>1, NobodyExecutes
           DEF SweepReap, RunnerInv, NoNewRunner, Executing
<1> QED  BY <1>2, <1>3, <1>4, <1>5, <1>6, StepCalm

\* However commands, requests, spawners and crashes interleave, two
\* processes execute the run at once only after a resume has taken it over
\* from a process still executing it.
THEOREM OneRunnerHolds == Spec => []OneRunner
<1>1. Init => RunnerInv
  BY FreeProcessType DEF Init, NewRecord, RunnerInv, Executing
<1>2. TypeOK /\ RunnerInv /\ [Next]_vars => RunnerInv'
  BY StepRunner
<1>3. RunnerInv => OneRunner
  BY DEF RunnerInv, OneRunner
<1> QED  BY <1>1, <1>2, <1>3, TypeCorrect, PTL DEF Spec

\* Nothing but a resume that loaded the run as Cancelled makes anything else
\* of a cancelled run.
THEOREM CancelledKeptHolds == Spec => CancelledKept
<1> DEFINE Kept == rec.status = "Cancelled" /\ rec'.status # "Cancelled" =>
                     \E p \in Proc : /\ proc[p].pc = "loaded"
                                     /\ proc[p].orig = "Cancelled"
<1>1. ASSUME TypeOK, [Next]_vars PROVE Kept
  <2>1. rec \in Record /\ "Cancelled" \in Terminal
    BY <1>1 DEF TypeOK, Terminal
  <2>2. CASE UNCHANGED vars \/ Calm \/ Cancel \/ SweepReap
    BY <2>1, <2>2 DEF vars, Calm, Cancel, SweepReap
  <2>3. ASSUME NEW p \in Proc, Handover(p) PROVE Kept
    <3>1. CASE \E end \in PassEnds(p) : Finish(p, end)
      BY <3>1 DEF Finish
    <3>2. CASE Claim(p)
      BY <1>1, <2>1, <3>2, ClaimProc
    <3>3. CASE ResumeLoad(p) \/ Panic(p)
      BY <3>3 DEF ResumeLoad, Panic
    <3>4. CASE Flip(p)
      BY <3>4 DEF Flip, StillAsLoaded
    <3> QED  BY <2>3, <3>1, <3>2, <3>3, <3>4 DEF Handover
  <2> QED  BY <1>1, <2>2, <2>3, StepCalm
<1>2. TypeOK /\ [Next]_vars =>
        [rec.status = "Cancelled" /\ rec'.status # "Cancelled" =>
           \E p \in Proc : proc[p].pc = "loaded" /\ proc[p].orig = "Cancelled"]_vars
  BY <1>1
<1> QED  BY <1>2, TypeCorrect, PTL DEF Spec, CancelledKept

-----------------------------------------------------------------------------
(* No decision is lost.  A time stamp stands for one decision, wherever it  *)
(* is known: on the record, in the history, in a runner's books.  So what a *)
(* runner retires by gate and time stamp is what it has a row for.          *)

Known ==
    rec.decisions \cup history
      \cup UNION {proc[p].view \cup proc[p].pending \cup proc[p].applied : p \in Proc}

Stamped ==
    \A d \in Known : d.at <= clock /\ \A e \in Known : d.at = e.at => d = e

\* A row that shows d, as DecisionKept asks for it.
HasRow(d) ==
    \E row \in history : row.gate = d.gate /\ row.verdict = d.verdict /\ row.at >= d.at

\* What a process has read is in the history, and so is what it has applied.
Booked ==
    \A p \in Proc : proc[p].view \subseteq history /\ \A a \in proc[p].applied : HasRow(a)

KInv == Stamped /\ Booked

\* What a step may do to the decisions: it makes at most one, the one of N, which
\* gets the next time stamp; the rest passes from the record to the books and from
\* the books to the history.
Passes(N) ==
    /\ clock' >= clock
    /\ \A d \in N : d.at = clock + 1 /\ clock' = clock + 1 /\ \A e \in N : d = e
    /\ rec'.decisions \subseteq rec.decisions \cup N
    /\ history \subseteq history'
    /\ \A d \in history' : d \in history \/ \E p \in Proc : d \in proc[p].pending
    /\ \A p \in Proc :
         /\ proc'[p].view \subseteq proc[p].view \cup history
         /\ proc'[p].pending \subseteq proc[p].pending \cup rec.decisions \cup N
         /\ \A a \in proc'[p].applied :
              \/ a \in proc[p].applied
              \/ a \in proc[p].pending /\ a \in history'
              \/ a \in rec.decisions /\ InHistory(a, proc[p].view)

LEMMA KnownType ==
  ASSUME TypeOK
  PROVE  \A d \in Known : d.at \in Nat
<1>1. rec.decisions \cup history \subseteq Decision
  BY ActionTypes DEF TypeOK
<1>2. \A p \in Proc : proc[p].view \cup proc[p].pending \cup proc[p].applied \subseteq Decision
  BY ActionTypes DEF Process
<1>3. Known \subseteq Decision
  BY <1>1, <1>2 DEF Known
<1> QED  BY <1>3 DEF Decision

\* Such a step keeps the books.
LEMMA PassesKept ==
  ASSUME TypeOK, KInv, clock' \in Nat, NEW N, Passes(N)
  PROVE  KInv'
<1>1. Known' \subseteq Known \cup N
  <2>1. rec.decisions \subseteq Known /\ history \subseteq Known
    BY DEF Known
  <2>2. \A p \in Proc : proc[p].view \cup proc[p].pending \cup proc[p].applied \subseteq Known
    BY DEF Known
  <2>3. rec'.decisions \subseteq Known \cup N /\ history' \subseteq Known \cup N
    BY <2>1, <2>2 DEF Passes
  <2>4. ASSUME NEW p \in Proc
        PROVE  proc'[p].view \cup proc'[p].pending \cup proc'[p].applied \subseteq Known \cup N
    BY <2>1, <2>2 DEF Passes
  <2> QED  BY <2>3, <2>4 DEF Known
<1>2. Stamped'
  <2>1. clock \in Nat /\ clock' >= clock /\ \A d \in Known : d.at \in Nat
    BY KnownType DEF TypeOK, Passes
  <2>2. \A d \in N : d.at = clock + 1 /\ clock' = clock + 1 /\ \A e \in N : d = e
    BY DEF Passes
  <2>3. \A d \in Known : d.at <= clock /\ \A e \in Known : d.at = e.at => d = e
    BY DEF KInv, Stamped
  <2>4. ASSUME NEW d \in Known'
        PROVE  d.at <= clock' /\ \A e \in Known' : d.at = e.at => d = e
    <3>1. CASE d \in Known
      <4>1. d.at <= clock /\ d.at <= clock' /\ d.at \in Nat
        <5>1. d.at <= clock /\ d.at \in Nat
          BY <2>1, <2>3, <3>1
        <5> QED  BY <2>1, <5>1
      <4>2. ASSUME NEW e \in Known', d.at = e.at
            PROVE  d = e
        <5>1. CASE e \in Known
          BY <2>3, <3>1, <4>2, <5>1
        <5>2. CASE e \in N
          BY <2>1, <2>2, <4>1, <4>2, <5>2
        <5> QED  BY <1>1, <5>1, <5>2
      <4> QED  BY <4>1, <4>2
    <3>2. CASE d \in N
      BY <1>1, <2>1, <2>2, <2>3, <3>2
    <3> QED  BY <1>1, <3>1, <3>2
  <2> QED  BY <2>4 DEF Stamped
<1>3. Booked'
  <2>1. history \subseteq history'
    BY DEF Passes
  <2>2. \A d : HasRow(d) => HasRow(d)'
    BY <2>1 DEF HasRow
  <2>3. ASSUME NEW p \in Proc
        PROVE  /\ proc'[p].view \subseteq history'
               /\ \A a \in proc'[p].applied : HasRow(a)'
    <3>1. proc[p].view \subseteq history /\ \A a \in proc[p].applied : HasRow(a)
      BY DEF KInv, Booked
    <3>2. proc'[p].view \subseteq history'
      BY <2>1, <3>1 DEF Passes
    <3>3. ASSUME NEW a \in proc'[p].applied
          PROVE  HasRow(a)'
      <4>1. CASE a \in proc[p].applied
        BY <2>2, <3>1, <4>1
      <4>2. CASE a \in proc[p].pending /\ a \in history'
        <5>1. a.at \in Nat
          <6>1. a \in Known
            BY <4>2 DEF Known
          <6> QED  BY <6>1, KnownType
        <5>2. a.at >= a.at
          BY <5>1
        <5> QED  BY <4>2, <5>2 DEF HasRow
      <4>3. CASE a \in rec.decisions /\ InHistory(a, proc[p].view)
        <5>1. HasRow(a)
          BY <3>1, <4>3 DEF InHistory, HasRow
        <5> QED  BY <2>2, <5>1
      <4> QED  BY <4>1, <4>2, <4>3 DEF Passes
    <3> QED  BY <3>2, <3>3
  <2> QED  BY <2>3 DEF Booked
<1> QED  BY <1>2, <1>3 DEF KInv

-----------------------------------------------------------------------------
(* What a step makes of the decisions on the record. *)

\* One decision more, with the next time stamp.
Records(r, s, g, at) ==
    \E d : d.gate = g /\ d.at = at /\ s.decisions = r.decisions \cup {d}

LEMMA RecordDecisionRecords ==
  ASSUME NEW r \in Record, NEW d \in Decision
  PROVE  Records(r, RecordDecision(r, d), d.gate, d.at)
<1>1. RecordDecision(r, d).decisions = r.decisions \cup {d}
  BY DEF RecordDecision, Record
<1> QED  BY <1>1 DEF Records

LEMMA ExpireGateRecords ==
  ASSUME NEW r \in Record, NEW g \in Gate, NEW at \in Nat
  PROVE  \/ ExpireGate(r, g, at).decisions = r.decisions
         \/ Records(r, ExpireGate(r, g, at), g, at)
<1> DEFINE d == [gate |-> g, verdict |-> "rejected", at |-> at, by |-> "timeout"]
<1>1. d \in Decision /\ d.gate = g /\ d.at = at
  BY DEF Decision
<1>2. {"Failed", "Rejected"} \subseteq Status
  BY DEF Status, Terminal
<1>3. ExpireGate(r, g, at) \in
        {Finalize(r, "Failed"), RecordDecision(r, d), Finalize(r, "Rejected")}
  BY DEF ExpireGate
<1> HIDE DEF d
<1> QED  BY <1>1, <1>2, <1>3, FinalizeEvolves, RecordDecisionRecords

LEMMA RejectedRecords ==
  ASSUME TypeOK, NEW g \in Gate
  PROVE  \/ Rejected(g).decisions = rec.decisions
         \/ Records(rec, Rejected(g), g, clock + 1)
<1> DEFINE d == [gate |-> g, verdict |-> "rejected", at |-> clock + 1,
                 by |-> "human"]
<1>1. rec \in Record /\ clock + 1 \in Nat
  BY ActionTypes
<1>2. d \in Decision /\ d.gate = g /\ d.at = clock + 1
  BY <1>1 DEF Decision
<1>3. Rejected(g) \in {ExpireGate(rec, g, clock + 1), RejectGate(rec, d)}
  BY DEF Rejected
<1> HIDE DEF d
<1>4. RejectGate(rec, d).decisions = rec.decisions \/ RejectGate(rec, d) = RecordDecision(rec, d)
  BY <1>1 DEF RejectGate, Record
<1> QED  BY <1>1, <1>2, <1>3, <1>4, ExpireGateRecords, RecordDecisionRecords

LEMMA AskForRunnerRecords ==
  ASSUME NEW r \in Record, NEW g \in Gate
  PROVE  AskForRunner(r, g).decisions = r.decisions
<1>1. AskForRunner(r, g) \in {r, Mark(r, g)}
  BY DEF AskForRunner
<1> QED  BY <1>1, MarkType DEF SameGates

\* The commands and requests that decide a gate.
LEMMA DecidingRecords ==
  ASSUME TypeOK,
         \/ \E p \in Proc : ApproveStep(p)
         \/ \E p \in Proc, g \in Gate : OperatorReject(p, g)
         \/ \E g \in Gate : WebApprove(g) \/ WebReject(g) \/ SweepExpire(g)
  PROVE  \/ rec'.decisions = rec.decisions /\ clock' \in {clock, clock + 1}
         \/ clock' = clock + 1 /\ \E g \in Gate : Records(rec, rec', g, clock + 1)
<1>1. /\ rec \in Record /\ clock + 1 \in Nat /\ rec.awaiting \subseteq Gate
      /\ \A p \in Proc : proc[p] \in Process
  BY ActionTypes
<1>2. ASSUME NEW r, NEW g \in Gate, Records(rec, r, g, clock + 1)
      PROVE  PendingOn(r, g) # {}
  BY <1>2 DEF Records, PendingOn
<1>3. ASSUME NEW p \in Proc, ApproveStep(p)
      PROVE  \/ rec'.decisions = rec.decisions /\ clock' \in {clock, clock + 1}
             \/ clock' = clock + 1 /\ \E g \in Gate : Records(rec, rec', g, clock + 1)
  <2>1. CASE \E g \in rec.awaiting : rec' = ExpireGate(rec, g, clock + 1)
    <3>1. PICK g \in Gate : rec' = ExpireGate(rec, g, clock + 1)
      BY <1>1, <2>1
    <3>2. rec'.decisions = rec.decisions \/ Records(rec, rec', g, clock + 1)
      BY <1>1, <3>1, ExpireGateRecords
    <3>3. /\ clock' \in {clock, clock + 1}
          /\ rec'.decisions # rec.decisions => clock' = clock + 1
      BY <1>3 DEF ApproveStep
    <3> QED  BY <3>2, <3>3
  <2>2. CASE /\ clock' = clock + 1
             /\ \E g \in Targets(proc[p].gate) :
                  rec' = RecordDecision(rec, [gate |-> g, verdict |-> "approved",
                                              at |-> clock + 1, by |-> proc[p].by])
    <3>1. PICK g \in Targets(proc[p].gate) :
             rec' = RecordDecision(rec, [gate |-> g, verdict |-> "approved",
                                         at |-> clock + 1, by |-> proc[p].by])
      BY <2>2
    <3> DEFINE d == [gate |-> g, verdict |-> "approved", at |-> clock + 1,
                     by |-> proc[p].by]
    <3>2. g \in Gate
      BY <1>1 DEF Targets
    <3>3. d \in Decision /\ d.gate = g /\ d.at = clock + 1
      BY <1>1, <3>2 DEF Decision, Process
    <3>4. rec' = RecordDecision(rec, d)
      BY <3>1
    <3> HIDE DEF d
    <3> QED  BY <1>1, <2>2, <3>2, <3>3, <3>4, RecordDecisionRecords
  <2>3. CASE rec' = rec /\ clock' = clock
    BY <2>3
  <2> QED  BY <1>3, <2>1, <2>2, <2>3 DEF ApproveStep
<1>4. ASSUME NEW p \in Proc, NEW g \in Gate, OperatorReject(p, g)
      PROVE  \/ rec'.decisions = rec.decisions /\ clock' \in {clock, clock + 1}
             \/ clock' = clock + 1 /\ \E h \in Gate : Records(rec, rec', h, clock + 1)
  <2>1. /\ rec' = Rejected(g)
        /\ IF PendingOn(rec', g) # {} THEN clock' = clock + 1 ELSE clock' = clock
    BY <1>4 DEF OperatorReject
  <2> QED  BY <1>2, <2>1, RejectedRecords
<1>5. ASSUME NEW g \in Gate, NEW r \in Record, rec' = AskForRunner(r, g),
             r.decisions = rec.decisions \/ Records(rec, r, g, clock + 1),
             clock' = IF PendingOn(rec', g) # {} THEN clock + 1 ELSE clock
      PROVE  \/ rec'.decisions = rec.decisions /\ clock' \in {clock, clock + 1}
             \/ clock' = clock + 1 /\ \E h \in Gate : Records(rec, rec', h, clock + 1)
  <2>1. rec'.decisions = r.decisions
    BY <1>5, AskForRunnerRecords
  <2>2. Records(rec, r, g, clock + 1) => Records(rec, rec', g, clock + 1)
    BY <2>1 DEF Records
  <2> QED  BY <1>2, <1>5, <2>1, <2>2
<1>6. ASSUME NEW g \in Gate, WebApprove(g)
      PROVE  \/ rec'.decisions = rec.decisions /\ clock' \in {clock, clock + 1}
             \/ clock' = clock + 1 /\ \E h \in Gate : Records(rec, rec', h, clock + 1)
  <2> DEFINE d == [gate |-> g, verdict |-> "approved", at |-> clock + 1,
                   by |-> "human"]
             r == IF ExpiresFirst(rec) THEN ExpireGate(rec, g, clock + 1)
                  ELSE RecordDecision(rec, d)
  <2>1. d \in Decision /\ d.gate = g /\ d.at = clock + 1 /\ d.verdict = "approved"
    BY <1>1 DEF Decision
  <2>2. /\ rec' = AskForRunner(r, g)
        /\ clock' = IF PendingOn(rec', g) # {} THEN clock + 1 ELSE clock
    BY <1>6 DEF WebApprove
  <2> HIDE DEF d
  <2>3. r \in Record
    BY <1>1, <2>1, ExpireGateEvolves, RecordDecisionEvolves DEF Evolves
  <2>4. r.decisions = rec.decisions \/ Records(rec, r, g, clock + 1)
    BY <1>1, <2>1, ExpireGateRecords, RecordDecisionRecords
  <2> HIDE DEF r
  <2> QED  BY <1>5, <2>2, <2>3, <2>4
<1>7. ASSUME NEW g \in Gate, WebReject(g)
      PROVE  \/ rec'.decisions = rec.decisions /\ clock' \in {clock, clock + 1}
             \/ clock' = clock + 1 /\ \E h \in Gate : Records(rec, rec', h, clock + 1)
  <2>1. Rejected(g) \in Record
    BY RejectedEvolves DEF Evolves
  <2> QED  BY <1>5, <1>7, <2>1, RejectedRecords DEF WebReject
<1>8. ASSUME NEW g \in Gate, SweepExpire(g)
      PROVE  \/ rec'.decisions = rec.decisions /\ clock' \in {clock, clock + 1}
             \/ clock' = clock + 1 /\ \E h \in Gate : Records(rec, rec', h, clock + 1)
  <2> DEFINE expired == ExpireGate(rec, g, clock + 1)
  <2>1. expired \in Record
    BY <1>1, ExpireGateEvolves DEF Evolves
  <2>2. expired.decisions = rec.decisions \/ Records(rec, expired, g, clock + 1)
    BY <1>1, ExpireGateRecords
  <2>3. \/ /\ PendingOn(expired, g) # {} /\ clock' = clock + 1
           /\ rec' = [expired EXCEPT !.readers = IF rec.marked THEN @ \cup {"sweep"} ELSE @]
        \/ PendingOn(expired, g) = {} /\ rec' = expired /\ clock' = clock
    BY <1>8 DEF SweepExpire
  <2> HIDE DEF expired
  <2>4. rec'.decisions = expired.decisions
    BY <2>1, <2>3 DEF Record
  <2>5. Records(rec, expired, g, clock + 1) => Records(rec, rec', g, clock + 1)
    BY <2>4 DEF Records
  <2> QED  BY <1>2, <2>2, <2>3, <2>4, <2>5
<1> QED  BY <1>3, <1>4, <1>6, <1>7, <1>8
-----------------------------------------------------------------------------
(* What a step makes of the books. *)

\* A process reads the history, or forgets.
Forgets ==
    \A p \in Proc : /\ proc'[p].view \subseteq proc[p].view \cup history
                    /\ proc'[p].pending \subseteq proc[p].pending
                    /\ proc'[p].applied \subseteq proc[p].applied

LEMMA FreshBooks ==
  /\ FreeProcess.view = {} /\ FreeProcess.pending = {} /\ FreeProcess.applied = {}
  /\ FreeProcess \in Process
BY FreeProcessType DEF FreeProcess

LEMMA OneForgets ==
  ASSUME TypeOK, NEW p \in Proc, NEW new,
         new.view \subseteq proc[p].view \cup history,
         new.pending \subseteq proc[p].pending, new.applied \subseteq proc[p].applied,
         proc' = [proc EXCEPT ![p] = new]
  PROVE  Forgets
BY DEF TypeOK, Forgets

LEMMA ExitForgets ==
  ASSUME TypeOK, NEW p \in Proc, Exit(p)
  PROVE  Forgets
BY OneForgets, FreshBooks DEF Exit

LEMMA StartForgets ==
  ASSUME TypeOK, NEW p \in Proc, NEW cmd, NEW unf, NEW gate, NEW by,
         Start(p, cmd, unf, gate, by)
  PROVE  Forgets
<1> DEFINE new == [FreeProcess EXCEPT !.pc = cmd, !.unf = unf, !.gate = gate,
                                      !.by = by]
<1>1. new.view = {} /\ new.pending = {} /\ new.applied = {}
  BY DEF FreeProcess
<1>2. proc' = [proc EXCEPT ![p] = new]
  BY DEF Start
<1> HIDE DEF new
<1> QED  BY <1>1, <1>2, OneForgets

\* Every step but a runner's with its book, and the claim.
LEMMA CommandForgets ==
  ASSUME TypeOK, NEW p \in Proc,
         \/ SeePause(p) \/ \E g \in Gate : Park(p, g)
         \/ ReadResults(p) \/ ResumeToDecided(p) \/ ResumeLoad(p) \/ Flip(p)
         \/ ApproveStep(p)
  PROVE  Forgets
<1>1. proc[p] \in Process /\ proc \in [Proc -> Process]
  BY ActionTypes DEF TypeOK
<1>2. ASSUME NEW new, proc' = [proc EXCEPT ![p] = new],
             new.view \in {{}, proc[p].view, history}, new.pending \in {{}, proc[p].pending},
             new.applied \in {{}, proc[p].applied}
      PROVE  Forgets
  <2>1. /\ new.view \subseteq proc[p].view \cup history
        /\ new.pending \subseteq proc[p].pending /\ new.applied \subseteq proc[p].applied
    BY <1>2
  <2> QED  BY <1>2, <2>1, OneForgets
<1>3. CASE Exit(p)
  BY <1>3, ExitForgets
<1>4. CASE SeePause(p)
  <2> DEFINE new == [proc[p] EXCEPT !.tok = TRUE]
  <2>1. proc' = [proc EXCEPT ![p] = new]
    BY <1>1, <1>4 DEF SeePause
  <2>2. new.view = proc[p].view /\ new.pending = proc[p].pending /\ new.applied = proc[p].applied
    BY <1>1 DEF Process
  <2> HIDE DEF new
  <2> QED  BY <1>2, <2>1, <2>2
<1>5. CASE \E g \in Gate : Park(p, g)
  <2>1. PICK g \in Gate : Park(p, g)
    BY <1>5
  <2> DEFINE new == [proc[p] EXCEPT !.parked = @ \cup {g}]
  <2>2. proc' = [proc EXCEPT ![p] = new]
    BY <1>1, <2>1 DEF Park
  <2>3. new.view = proc[p].view /\ new.pending = proc[p].pending /\ new.applied = proc[p].applied
    BY <1>1 DEF Process
  <2> HIDE DEF new
  <2> QED  BY <1>2, <2>2, <2>3
<1>6. CASE ReadResults(p)
  <2> DEFINE new == [proc[p] EXCEPT !.pc = "ready", !.view = history]
  <2>1. proc' = [proc EXCEPT ![p] = new]
    BY <1>1, <1>6 DEF ReadResults
  <2>2. new.view = history /\ new.pending = proc[p].pending /\ new.applied = proc[p].applied
    BY <1>1 DEF Process
  <2> HIDE DEF new
  <2> QED  BY <1>2, <2>1, <2>2
<1>7. CASE \E m : proc' = [proc EXCEPT ![p] = [FreeProcess EXCEPT !.pc = "decided", !.mem = m]]
  <2>1. PICK m : proc' = [proc EXCEPT ![p] = [FreeProcess EXCEPT !.pc = "decided", !.mem = m]]
    BY <1>7
  <2> DEFINE new == [FreeProcess EXCEPT !.pc = "decided", !.mem = m]
  <2>2. new.view = {} /\ new.pending = {} /\ new.applied = {}
    BY DEF FreeProcess
  <2>3. proc' = [proc EXCEPT ![p] = new]
    BY <2>1
  <2> HIDE DEF new
  <2> QED  BY <1>2, <2>2, <2>3
<1>8. CASE proc' = [proc EXCEPT ![p] = [FreeProcess EXCEPT !.pc = "decided"]]
  <2> DEFINE new == [FreeProcess EXCEPT !.pc = "decided"]
  <2>1. new.view = {} /\ new.pending = {} /\ new.applied = {}
    BY DEF FreeProcess
  <2>2. proc' = [proc EXCEPT ![p] = new]
    BY <1>8
  <2> HIDE DEF new
  <2> QED  BY <1>2, <2>1, <2>2
<1>9. CASE ResumeLoad(p) /\ ~Exit(p)
  <2>1. PICK orig :
          proc' = [proc EXCEPT ![p] = [FreeProcess EXCEPT !.pc = "loaded", !.orig = orig,
                                                          !.view = history]]
    BY <1>9 DEF ResumeLoad
  <2> DEFINE new == [FreeProcess EXCEPT !.pc = "loaded", !.orig = orig, !.view = history]
  <2>2. new.view = history /\ new.pending = {} /\ new.applied = {}
    BY DEF FreeProcess
  <2>3. proc' = [proc EXCEPT ![p] = new]
    BY <2>1
  <2> HIDE DEF new
  <2> QED  BY <1>2, <2>2, <2>3
<1>10. CASE Flip(p) /\ ~Exit(p)
  <2> DEFINE new == [FreeProcess EXCEPT !.pc = "ready", !.view = proc[p].view]
  <2>1. proc' = [proc EXCEPT ![p] = new]
    BY <1>10 DEF Flip
  <2>2. new.view = proc[p].view /\ new.pending = {} /\ new.applied = {}
    BY DEF FreeProcess
  <2> HIDE DEF new
  <2> QED  BY <1>2, <2>1, <2>2
<1> QED  BY <1>3, <1>4, <1>5, <1>6, <1>7, <1>8, <1>9, <1>10
         DEF ResumeToDecided, ApproveStep

LEMMA OtherForgets ==
  ASSUME TypeOK,
         \/ \E p \in Proc : Panic(p) \/ Crash(p)
         \/ OperatorStep \/ WorkerStep \/ SweepStep \/ LeaseExpire \/ CpCrash
         \/ \E g \in Gate : Overdue(g)
  PROVE  Forgets
<1>1. proc \in [Proc -> Process]
  BY DEF TypeOK
<1>2. CASE proc' = proc
  BY <1>2 DEF Forgets
<1>3. CASE \E p \in Proc : Exit(p)
  BY <1>3, ExitForgets
<1>4. CASE \E p \in Proc : \E cmd, unf, gate, by : Start(p, cmd, unf, gate, by)
  BY <1>4, StartForgets
<1>5. CASE Cancel
  <2>1. CASE HasLiveRunner
    <3>1. rec.pid \in Proc
      BY <2>1 DEF HasLiveRunner
    <3> DEFINE new == [proc[rec.pid] EXCEPT !.sig = TRUE]
    <3>2. ASSUME NEW x \in Process
          PROVE  LET y == [x EXCEPT !.sig = TRUE]
                 IN  y.view = x.view /\ y.pending = x.pending /\ y.applied = x.applied
      BY DEF Process
    <3>3. /\ new.view = proc[rec.pid].view /\ new.pending = proc[rec.pid].pending
          /\ new.applied = proc[rec.pid].applied
      BY <1>1, <3>1, <3>2
    <3>4. proc' = [proc EXCEPT ![rec.pid] = new] \/ proc' = proc
      BY <1>5 DEF Cancel
    <3> HIDE DEF new
    <3> QED  BY <1>2, <3>1, <3>3, <3>4, OneForgets
  <2>2. CASE ~HasLiveRunner
    BY <1>2, <1>5, <2>2 DEF Cancel
  <2> QED  BY <2>1, <2>2
<1>6. CASE \E p \in Proc : Panic(p) \/ Crash(p)
  BY <1>3, <1>6 DEF Panic, Crash
<1>7. CASE OperatorStep
  BY <1>2, <1>4, <1>5, <1>7
     DEF OperatorStep, OperatorApprove, OperatorReject, OperatorResume,
         WebRetry, WebApprove, WebReject, WebResume, Pause, SetPauseMarker
<1>8. CASE WorkerStep
  BY <1>2, <1>4, <1>8
     DEF WorkerStep, WorkerClaim, WorkerSpawn, WorkerSpawnNothing, GiveBack
<1>9. CASE SweepStep
  BY <1>2, <1>4, <1>9
     DEF SweepStep, SweepExpire, SweepHandOff, SweepClaim, SweepSpawn, SweepSpawnFails,
         SweepReap, Rerequest, GiveBack
<1>10. CASE LeaseExpire \/ CpCrash \/ \E g \in Gate : Overdue(g)
  BY <1>2, <1>10 DEF LeaseExpire, CpCrash, Overdue
<1> QED  BY <1>6, <1>7, <1>8, <1>9, <1>10
-----------------------------------------------------------------------------
(* Every step passes the decisions on, and drops only what was applied. *)

\* What leaves the record was applied by a runner, or the run is cancelled.
Dropped ==
    \A d \in rec.decisions \ rec'.decisions :
        \/ rec'.status = "Cancelled"
        \/ \E p \in Proc : \E a \in proc[p].applied : a.gate = d.gate /\ a.at = d.at

LEMMA QuietPasses ==
  ASSUME TypeOK, Forgets, history' = history, rec'.decisions \subseteq rec.decisions,
         clock' \in {clock, clock + 1}
  PROVE  Passes({})
<1>1. clock' >= clock
  BY DEF TypeOK
<1> QED  BY <1>1 DEF Passes, Forgets

LEMMA DecidingPasses ==
  ASSUME TypeOK, Forgets, history' = history, clock' = clock + 1,
         NEW g \in Gate, Records(rec, rec', g, clock + 1)
  PROVE  (\E N : Passes(N)) /\ Dropped
<1>1. PICK d : d.at = clock + 1 /\ rec'.decisions = rec.decisions \cup {d}
  BY DEF Records
<1>2. clock' >= clock
  BY DEF TypeOK
<1>3. Passes({d})
  BY <1>1, <1>2 DEF Passes, Forgets
<1> QED  BY <1>1, <1>3 DEF Dropped

LEMMA ApplyPasses ==
  ASSUME TypeOK, NEW p \in Proc, NEW d \in proc[p].pending, Apply(p, d)
  PROVE  Passes({}) /\ rec' = rec
<1>1. proc[p] \in Process /\ proc \in [Proc -> Process] /\ clock \in Nat
  BY ActionTypes DEF TypeOK
<1> DEFINE new == [proc[p] EXCEPT !.pending = @ \ {d},
                                  !.applied = @ \cup {d},
                                  !.parked  = @ \ {d.gate}]
<1>2. /\ new.view = proc[p].view /\ new.pending \subseteq proc[p].pending
      /\ new.applied = proc[p].applied \cup {d}
  BY <1>1 DEF Process
<1>3. /\ proc' = [proc EXCEPT ![p] = new] /\ rec' = rec /\ clock' = clock
      /\ history' = history \cup {d}
  BY <1>1 DEF Apply
<1> HIDE DEF new
<1>4. proc'[p] = new /\ \A q \in Proc \ {p} : proc'[q] = proc[q]
  BY <1>1, <1>3
<1>5. clock' >= clock
  BY <1>1, <1>3
<1>6. ASSUME NEW q \in Proc
      PROVE  /\ proc'[q].view \subseteq proc[q].view
             /\ proc'[q].pending \subseteq proc[q].pending
             /\ \A a \in proc'[q].applied :
                  a \in proc[q].applied \/ (a \in proc[q].pending /\ a \in history')
  BY <1>2, <1>3, <1>4
<1> QED  BY <1>3, <1>5, <1>6 DEF Passes

\* GateBook::add takes from what the record has.
LEMMA AddPasses ==
  ASSUME TypeOK, NEW p \in Proc, NEW new, proc' = [proc EXCEPT ![p] = new],
         new.view = proc[p].view, new.pending \subseteq proc[p].pending \cup rec.decisions,
         new.applied = proc[p].applied, UNCHANGED <<rec, history, clock>>
  PROVE  Passes({})
<1>1. proc \in [Proc -> Process] /\ clock \in Nat
  BY DEF TypeOK
<1>2. proc'[p] = new /\ \A q \in Proc \ {p} : proc'[q] = proc[q]
  BY <1>1
<1>3. clock' >= clock
  BY <1>1
<1>4. ASSUME NEW q \in Proc
      PROVE  /\ proc'[q].view = proc[q].view /\ proc'[q].applied = proc[q].applied
             /\ proc'[q].pending \subseteq proc[q].pending \cup rec.decisions
  BY <1>2
<1> QED  BY <1>3, <1>4 DEF Passes

LEMMA PollPasses ==
  ASSUME TypeOK, NEW p \in Proc, Poll(p)
  PROVE  Passes({}) /\ rec' = rec
<1>1. proc[p] \in Process /\ proc \in [Proc -> Process]
  BY ActionTypes DEF TypeOK
<1> DEFINE added == AddedTo(p, DecisionsOn(rec, proc[p].parked))
           new   == [proc[p] EXCEPT !.pending = @ \cup added,
                                    !.parked = @ \ {d.gate : d \in added}]
<1>2. added \subseteq rec.decisions
  BY DEF AddedTo, Unapplied, DecisionsOn
<1>3. proc' = [proc EXCEPT ![p] = new] /\ UNCHANGED <<rec, history, clock>>
  BY <1>1 DEF Poll
<1> HIDE DEF added
<1>4. /\ new.view = proc[p].view /\ new.pending = proc[p].pending \cup added
      /\ new.applied = proc[p].applied
  BY <1>1 DEF Process
<1> HIDE DEF new
<1> QED  BY <1>2, <1>3, <1>4, AddPasses

LEMMA FinishPasses ==
  ASSUME TypeOK, NEW p \in Proc, NEW end \in PassEnds(p), Finish(p, end)
  PROVE  Passes({}) /\ Dropped
<1> DEFINE applied == proc[p].applied
           left    == [rec EXCEPT !.decisions = Unapplied(@, applied)]
           parked  == IF end = "AwaitingApproval" THEN proc[p].parked ELSE {}
           new     == DecisionsOn(left, parked)
<1>1. proc[p] \in Process /\ proc \in [Proc -> Process] /\ rec \in Record
  BY ActionTypes DEF TypeOK
<1>2. /\ left \in Record /\ left.decisions = Unapplied(rec.decisions, applied)
      /\ left.decisions \subseteq rec.decisions
  BY <1>1 DEF Record, Unapplied
<1>3. /\ history' = history /\ clock' = clock
      /\ \/ Exit(p) /\ rec' = rec
         \/ /\ proc' = [proc EXCEPT ![p].pending = @ \cup AddedTo(p, new),
                                    ![p].parked = @ \ {d.gate : d \in new}]
            /\ rec' = rec
         \/ Exit(p) /\ new = {} /\ rec' = ApplyEnd(left, end, parked, applied # {})
  BY DEF Finish
<1>4. rec' = rec => Dropped
  BY DEF Dropped
<1>5. CASE Exit(p) /\ rec' = rec
  BY <1>3, <1>4, <1>5, ExitForgets, QuietPasses
<1>6. CASE /\ proc' = [proc EXCEPT ![p].pending = @ \cup AddedTo(p, new),
                                   ![p].parked = @ \ {d.gate : d \in new}]
           /\ rec' = rec
  <2> DEFINE added == AddedTo(p, new)
             book  == [proc[p] EXCEPT !.pending = @ \cup added,
                                      !.parked = @ \ {d.gate : d \in new}]
  <2>1. added \subseteq rec.decisions
    BY <1>2 DEF AddedTo, Unapplied, DecisionsOn
  <2>2. proc' = [proc EXCEPT ![p] = book]
    BY <1>1, <1>6
  <2> HIDE DEF added, new
  <2>3. /\ book.view = proc[p].view /\ book.pending = proc[p].pending \cup added
        /\ book.applied = proc[p].applied
    BY <1>1 DEF Process
  <2> HIDE DEF book
  <2>4. UNCHANGED <<rec, history, clock>>
    BY <1>3, <1>6
  <2> QED  BY <1>4, <1>6, <2>1, <2>2, <2>3, <2>4, AddPasses
<1>7. CASE Exit(p) /\ new = {} /\ rec' = ApplyEnd(left, end, parked, applied # {})
  <2>1. parked \in SUBSET Gate /\ end \in Ends
    BY <1>1 DEF PassEnds, Ends, Process
  <2>2. \A d \in left.decisions : d.gate \notin parked
    BY <1>7 DEF DecisionsOn
  <2> DEFINE served == applied # {}
  <2>a. rec' = ApplyEnd(left, end, parked, served) /\ served \in BOOLEAN
    BY <1>7
  <2> HIDE DEF left, parked, served
  <2>b. ApplyEnd(left, end, parked, served).decisions = left.decisions
    BY <1>2, <2>1, <2>2, <2>a, ApplyEndEvolves
  <2>3. rec'.decisions = Unapplied(rec.decisions, applied)
    BY <1>2, <2>a, <2>b
  <2>4. Dropped
    BY <2>3 DEF Dropped, Unapplied
  <2>5. rec'.decisions \subseteq rec.decisions
    BY <1>2, <2>3
  <2> QED  BY <1>3, <1>7, <2>4, <2>5, ExitForgets, QuietPasses
<1> QED  BY <1>3, <1>5, <1>6, <1>7

\* The claim: the book of the run, and the approval its process remembers.
LEMMA ClaimPasses ==
  ASSUME TypeOK, NEW p \in Proc, Claim(p)
  PROVE  (\E N : Passes(N)) /\ rec'.decisions = rec.decisions
<1>1. /\ proc[p] \in Process /\ rec \in Record /\ proc \in [Proc -> Process]
      /\ clock \in Nat /\ history' = history
  BY ActionTypes DEF TypeOK, Claim
<1>2. CASE rec.status \in Terminal \/ LiveRunnerSeenBy(p)
  BY <1>1, <1>2, ExitForgets, QuietPasses DEF Claim
<1>3. CASE ~(rec.status \in Terminal \/ LiveRunnerSeenBy(p))
  <2> DEFINE retired == {d \in rec.decisions : InHistory(d, proc[p].view)}
             open    == rec.decisions \ retired
             mem     == {[gate |-> g, verdict |-> "approved", at |-> clock + 1,
                          by |-> "memory"] :
                           g \in {proc[p].mem} \ ({None} \cup {o.gate : o \in open})}
             new == [FreeProcess EXCEPT !.pc      = "run",
                                        !.view    = proc[p].view,
                                        !.pending = open \cup mem,
                                        !.applied = retired,
                                        !.parked  = rec.awaiting \ Resolved(p),
                                        !.sig     = proc[p].sig]
  <2>1. /\ rec' = [rec EXCEPT !.pid = p] /\ proc' = [proc EXCEPT ![p] = new]
        /\ clock' = IF mem = {} THEN clock ELSE clock + 1
    BY <1>3 DEF Claim
  <2>2. \A d \in mem : d.at = clock + 1 /\ \A e \in mem : d = e
    OBVIOUS
  <2>3. open \subseteq rec.decisions
        /\ \A d \in retired : d \in rec.decisions /\ InHistory(d, proc[p].view)
    OBVIOUS
  <2> HIDE DEF retired, open, mem
  <2>4. new.view = proc[p].view /\ new.pending = open \cup mem /\ new.applied = retired
    BY DEF FreeProcess
  <2> HIDE DEF new
  <2>5. proc'[p] = new /\ \A q \in Proc \ {p} : proc'[q] = proc[q]
    BY <1>1, <2>1
  <2>6. ASSUME NEW q \in Proc
        PROVE  /\ proc'[q].view = proc[q].view
               /\ proc'[q].pending \subseteq proc[q].pending \cup rec.decisions \cup mem
               /\ \A a \in proc'[q].applied :
                    \/ a \in proc[q].applied
                    \/ a \in rec.decisions /\ InHistory(a, proc[q].view)
    BY <2>3, <2>4, <2>5
  <2>7. rec'.decisions = rec.decisions
    BY <1>1, <2>1 DEF Record
  <2>8. clock' >= clock /\ (mem # {} => clock' = clock + 1)
    BY <1>1, <2>1
  <2>9. Passes(mem)
    BY <1>1, <2>2, <2>6, <2>7, <2>8 DEF Passes
  <2> QED  BY <2>7, <2>9
<1> QED  BY <1>2, <1>3

LEMMA StepPasses ==
  ASSUME TypeOK, [Next]_vars
  PROVE  (\E N : Passes(N)) /\ Dropped
<1>1. rec \in Record
  BY ActionTypes
<1>2. ASSUME Forgets, history' = history, clock' \in {clock, clock + 1},
             rec'.decisions = rec.decisions
      PROVE  (\E N : Passes(N)) /\ Dropped
  <2>1. Passes({})
    BY <1>2, QuietPasses
  <2> QED  BY <1>2, <2>1 DEF Dropped
<1>3. ASSUME Forgets, history' = history,
             \/ \E p \in Proc : ApproveStep(p)
             \/ \E p \in Proc, g \in Gate : OperatorReject(p, g)
             \/ \E g \in Gate : WebApprove(g) \/ WebReject(g) \/ SweepExpire(g)
      PROVE  (\E N : Passes(N)) /\ Dropped
  <2>1. CASE rec'.decisions = rec.decisions /\ clock' \in {clock, clock + 1}
    BY <1>2, <1>3, <2>1
  <2>2. CASE clock' = clock + 1 /\ \E g \in Gate : Records(rec, rec', g, clock + 1)
    BY <1>3, <2>2, DecidingPasses
  <2> QED  BY <1>3, <2>1, <2>2, DecidingRecords
<1>4. ASSUME NEW p \in Proc, RunnerStep(p)
      PROVE  (\E N : Passes(N)) /\ Dropped
  <2>1. CASE SeePause(p) \/ \E g \in Gate : Park(p, g)
    <3>1. rec' = rec /\ history' = history /\ clock' = clock
      BY <2>1 DEF SeePause, Park
    <3> QED  BY <1>2, <2>1, <3>1, CommandForgets
  <2>2. CASE \E d \in proc[p].pending : Apply(p, d)
    BY <2>2, ApplyPasses DEF Dropped
  <2>3. CASE Poll(p)
    BY <2>3, PollPasses DEF Dropped
  <2>4. CASE \E end \in PassEnds(p) : Finish(p, end)
    BY <2>4, FinishPasses
  <2> QED  BY <1>4, <2>1, <2>2, <2>3, <2>4 DEF RunnerStep
<1>5. ASSUME NEW p \in Proc, CommandStep(p)
      PROVE  (\E N : Passes(N)) /\ Dropped
  <2>1. CASE Claim(p)
    BY <2>1, ClaimPasses DEF Dropped
  <2>2. CASE ReadResults(p) \/ ResumeToDecided(p) \/ ResumeLoad(p) \/ Flip(p)
    <3>1. history' = history /\ clock' = clock
      BY <2>2 DEF ReadResults, ResumeToDecided, ResumeLoad, Flip
    <3>2. rec' \in {rec, FinalizeFailed(rec), MarkResumed(rec, p)}
      BY <2>2 DEF ReadResults, ResumeToDecided, ResumeLoad, Flip
    <3>3. rec'.decisions = rec.decisions
      BY <1>1, <3>2, FinalizeFailedEvolves, MarkResumedEvolves
    <3> QED  BY <1>2, <2>2, <3>1, <3>3, CommandForgets
  <2>3. CASE ApproveStep(p)
    <3>1. history' = history
      BY <2>3 DEF ApproveStep
    <3> QED  BY <1>3, <2>3, <3>1, CommandForgets
  <2> QED  BY <1>5, <2>1, <2>2, <2>3 DEF CommandStep
<1>6. ASSUME \/ \E p \in Proc : Panic(p) \/ Crash(p)
             \/ OperatorStep \/ WorkerStep \/ SweepStep \/ LeaseExpire \/ CpCrash
             \/ \E g \in Gate : Overdue(g)
      PROVE  (\E N : Passes(N)) /\ Dropped
  <2>1. Forgets
    BY <1>6, OtherForgets
  <2>2. CASE rec' = rec /\ history' = history /\ clock' = clock
    BY <1>2, <2>1, <2>2
  <2>3. CASE \/ \E p \in Proc : Panic(p)
             \/ SweepReap
    <3>1. /\ history' = history /\ clock' = clock
          /\ rec' \in {rec, FinalizeFailed(rec)}
      BY <2>3 DEF Panic, SweepReap
    <3>2. rec'.decisions = rec.decisions
      BY <1>1, <3>1, FinalizeFailedEvolves
    <3> QED  BY <1>2, <2>1, <3>1, <3>2
  <2>4. CASE Cancel
    <3>1. /\ history' = history /\ clock' = clock
          /\ \/ rec' = Finalize(rec, "Failed") \/ rec' = Finalize(rec, "Rejected")
             \/ rec' = MarkCancelled(rec)
      BY <2>4 DEF Cancel
    <3>2. {"Failed", "Rejected"} \subseteq Status
      BY DEF Status, Terminal
    <3>3. \/ rec'.decisions = rec.decisions
          \/ rec'.decisions = {} /\ rec'.status = "Cancelled"
      BY <1>1, <3>1, <3>2, FinalizeEvolves, MarkCancelledEvolves
    <3>4. Passes({})
      BY <2>1, <3>1, <3>3, QuietPasses
    <3> QED  BY <3>3, <3>4 DEF Dropped
  <2>5. CASE Pause
    <3>1. rec'.decisions = rec.decisions /\ history' = history /\ clock' = clock
      BY <1>1, <2>5 DEF Pause, Record
    <3> QED  BY <1>2, <2>1, <3>1
  <2>6. CASE \/ \E p \in Proc, g \in Gate : OperatorReject(p, g)
             \/ \E g \in Gate : WebApprove(g) \/ WebReject(g) \/ SweepExpire(g)
    <3>1. history' = history
      BY <2>6 DEF OperatorReject, WebApprove, WebReject, SweepExpire
    <3> QED  BY <1>3, <2>1, <2>6, <3>1
  <2>7. CASE \/ WebResume \/ WorkerClaim \/ WorkerSpawnNothing \/ SweepClaim
             \/ SweepSpawnFails \/ LeaseExpire \/ CpCrash \/ Rerequest
             \/ \E p \in Proc : WorkerSpawn(p) \/ WebRetry(p)
             \/ \E s \in Spawner : GiveBack(s)
             \/ \E g \in Gate : SweepHandOff(g) \/ Overdue(g)
    <3>1. rec'.decisions = rec.decisions
      BY <2>7, MarkerStepSame
    <3>2. history' = history /\ clock' = clock
      BY <2>7
         DEF WebResume, WorkerClaim, WorkerSpawnNothing, SweepClaim, SweepSpawnFails,
             LeaseExpire, CpCrash, Rerequest, WorkerSpawn, WebRetry, GiveBack,
             SweepHandOff, Overdue
    <3> QED  BY <1>2, <2>1, <3>1, <3>2
  <2>8. CASE OperatorStep
    BY <2>2, <2>4, <2>5, <2>6, <2>7, <2>8
       DEF OperatorStep, OperatorApprove, OperatorResume, SetPauseMarker
  <2>9. CASE WorkerStep
    BY <2>7, <2>9 DEF WorkerStep, Spawner
  <2>10. CASE SweepStep
    BY <2>2, <2>3, <2>6, <2>7, <2>10 DEF SweepStep, SweepSpawn, Spawner
  <2>11. CASE \E p \in Proc : Panic(p) \/ Crash(p)
    BY <2>2, <2>3, <2>11 DEF Crash
  <2> QED  BY <1>6, <2>7, <2>8, <2>9, <2>10, <2>11
<1>7. CASE UNCHANGED vars
  <2>1. Forgets /\ history' = history /\ clock' = clock /\ rec' = rec
    BY <1>7 DEF vars, Forgets
  <2> QED  BY <1>2, <2>1
<1> QED  BY <1>4, <1>5, <1>6, <1>7 DEF Next

LEMMA StepKInv ==
  ASSUME TypeOK, TypeOK', KInv, [Next]_vars
  PROVE  KInv'
<1>1. clock' \in Nat
  BY DEF TypeOK
<1> QED  BY <1>1, StepPasses, PassesKept

\* A decision, once recorded, is applied before it is forgotten, for any number of
\* gates, processes and time stamps: it leaves run.json with a row in the history
\* that shows it, or with the cancelled run.
THEOREM DecisionKeptHolds == Spec => DecisionKept
<1>1. Init => KInv
  BY DEF Init, KInv, Stamped, Booked, Known, NewRecord, FreeProcess
<1>2. TypeOK /\ TypeOK' /\ KInv /\ [Next]_vars => KInv'
  BY StepKInv
<1>3. ASSUME TypeOK, KInv, Next
      PROVE  \A d \in rec.decisions \ rec'.decisions :
                 \/ rec'.status = "Cancelled"
                 \/ \E row \in history : /\ row.gate = d.gate
                                         /\ row.verdict = d.verdict
                                         /\ row.at >= d.at
  <2>1. ASSUME NEW d \in rec.decisions \ rec'.decisions, rec'.status # "Cancelled"
        PROVE  HasRow(d)
    <3>1. PICK p \in Proc : \E a \in proc[p].applied : a.gate = d.gate /\ a.at = d.at
      BY <1>3, <2>1, StepPasses DEF Dropped
    <3>2. PICK a \in proc[p].applied : a.gate = d.gate /\ a.at = d.at
      BY <3>1
    <3>3. a \in Known /\ d \in Known
      BY <2>1 DEF Known
    <3>4. a = d
      BY <1>3, <3>2, <3>3 DEF KInv, Stamped
    <3> QED  BY <1>3, <3>4 DEF KInv, Booked
  <2> QED  BY <2>1 DEF HasRow
<1>4. TypeOK /\ KInv /\ [Next]_vars => [\A d \in rec.decisions \ rec'.decisions :
                 \/ rec'.status = "Cancelled"
                 \/ \E row \in history : /\ row.gate = d.gate
                                         /\ row.verdict = d.verdict
                                         /\ row.at >= d.at]_vars
  BY <1>3
<1> QED  BY <1>1, <1>2, <1>4, TypeCorrect, PTL DEF Spec, DecisionKept
=============================================================================
