--------------------------- MODULE AutoflowProofs ---------------------------
(***************************************************************************)
(* Proofs about an issue's claim and its lock, for any number of processes *)
(* that tick and of crashes: until a lease runs out or a release takes a   *)
(* lock away, the lock a cycle made stays in place until the cycle ends,   *)
(* and so no two cycles run.                                               *)
(***************************************************************************)
EXTENDS Autoflow, TLAPS

\* While nothing has lapsed, a cycle's lock is its own, no lock has expired and
\* nobody removes one.
LockedByItsCycle ==
    ~lapsed => /\ ~lock.expired
               /\ \A p \in Ticker : /\ InCycle(p) => lock.by = p
                                    /\ ~At(p, "Reap")

Inv == TypeOK /\ LockedByItsCycle

USE TickerAssumption, SettingAssumption, OutcomeAssumption, BoundAssumption
------------------------------------------------------------------------------
(* Claims.                                                                 *)

LEMMA StampedType ==
    ASSUME TypeOK, NEW c \in Claim
    PROVE  Stamped(c) \in Claim
<1>1. InTick \subseteq Ticker
  BY DEF InTick
<1> QED
  BY <1>1 DEF Stamped, Claim

LEMMA FromOutcomeType ==
    ASSUME TypeOK, NEW c \in Claim, NEW o \in Outcome
    PROVE  FromOutcome(c, o) \in Claim
<1> DEFINE d == [c EXCEPT !.status = o.status, !.dispatch = o.dispatch, !.last = o]
<1>1. o.status \in Status /\ o.dispatch \in BOOLEAN
  BY DEF Status
<1>2. d \in Claim
  BY <1>1 DEF Claim, Result
<1>3. FromOutcome(c, o) = Stamped(d)
  BY DEF FromOutcome
<1> QED
  BY <1>2, <1>3, StampedType

LEMMA BlockedType ==
    ASSUME TypeOK, NEW c \in Claim
    PROVE  Blocked(c) \in Claim
<1>1. [c EXCEPT !.status = "Complete"] \in Claim
  BY DEF Claim, Status
<1> QED
  BY <1>1, StampedType DEF Blocked

LEMMA OpensType ==
    ASSUME TypeOK, NEW c \in Claim, NEW s \in Status
    PROVE  Opens(c, s) \in Claim
<1>1. [c EXCEPT !.status = s, !.last = Open] \in Claim
  BY DEF Claim
<1> QED
  BY <1>1, StampedType DEF Opens

LEMMA ReconcileType ==
    ASSUME TypeOK, NEW c \in Claim, NEW d \in Reconcile(c)
    PROVE  d \in Claim
<1>1. [c EXCEPT !.status = "AwaitHuman"] \in Claim
  BY DEF Claim, Status
<1> QED
  BY <1>1, BlockedType, FromOutcomeType DEF Reconcile

LEMMA EndsType ==
    ASSUME TypeOK, NEW c \in Claim, NEW d \in Ends(c)
    PROVE  d \in Claim
<1>1. Opens(c, "AwaitHuman") \in Claim /\ Opens(c, "Running") \in Claim
  BY OpensType DEF Status
<1>2. ASSUME NEW l \in {Failed, Broken} PROVE Blocked([c EXCEPT !.last = l]) \in Claim
  <2>1. [c EXCEPT !.last = l] \in Claim
    BY DEF Claim, Result
  <2> QED
    BY <2>1, BlockedType
<1> QED
  BY <1>1, <1>2, BlockedType, FromOutcomeType DEF Ends, Fails

LEMMA DispatchesType ==
    ASSUME TypeOK, NEW c \in Claim, NEW d \in Dispatches(c)
    PROVE  d \in Claim
<1>1. Opens(c, "AwaitHuman") \in Claim /\ Opens(c, "Claimed") \in Claim
  BY OpensType DEF Status
<1>2. ASSUME NEW l \in Result
      PROVE  Stamped([c EXCEPT !.status = "Claimed", !.last = l]) \in Claim
  <2>1. [c EXCEPT !.status = "Claimed", !.last = l] \in Claim
    BY DEF Claim, Status
  <2> QED
    BY <2>1, StampedType
<1> QED
  BY <1>1, <1>2, BlockedType DEF Dispatches

LEMMA SettledType ==
    ASSUME NEW c \in Claim, NEW l \in Result
    PROVE  Settled(c, l) \in Claim
BY DEF Settled, Claim
------------------------------------------------------------------------------
(* Type correctness.                                                       *)

LEMMA NoClaimType == NoClaim \in Claim
BY DEF NoClaim, Claim, Status

LEMMA NoTickType == NoTick \in Tick
BY NoClaimType DEF NoTick, Tick, Pc

LEMMA NoLockType == NoLock \in [by : Ticker \cup {Nobody}, written : BOOLEAN, expired : BOOLEAN]
BY DEF NoLock

LEMMA InitType == Init => TypeOK
<1> SUFFICES ASSUME Init PROVE TypeOK
  OBVIOUS
<1>1. tick \in [Ticker -> Tick]
  BY NoTickType DEF Init
<1>2. crashes \in 0..MaxCrashes
  BY DEF Init
<1> QED
  BY <1>1, <1>2, NoClaimType, NoLockType DEF Init, TypeOK

\* A tick goes to another place, with the claim it listed or another.
LEMMA TickType ==
    ASSUME TypeOK, NEW p \in Ticker, NEW l \in Pc, NEW c \in Claim,
           NEW b \in {"Decide", "Acquire"}
    PROVE  /\ Go(p, l) => tick' \in [Ticker -> Tick]
           /\ Leave(p, l) => tick' \in [Ticker -> Tick]
           /\ Set(p, [tick[p] EXCEPT !.pc = l, !.snap = c]) => tick' \in [Ticker -> Tick]
           /\ Reaping(p, b) => tick' \in [Ticker -> Tick]
           /\ Set(p, NoTick) => tick' \in [Ticker -> Tick]
<1>1. tick[p] \in Tick /\ "Reap" \in Pc
  BY DEF TypeOK, Pc
<1>2. /\ [tick[p] EXCEPT !.pc = l] \in Tick
      /\ [tick[p] EXCEPT !.pc = l, !.snap = NoClaim] \in Tick
      /\ [tick[p] EXCEPT !.pc = l, !.snap = c] \in Tick
      /\ [tick[p] EXCEPT !.pc = "Reap", !.back = b] \in Tick
  BY <1>1, NoClaimType DEF Tick
<1> QED
  BY <1>2, NoTickType DEF TypeOK, Go, Leave, Set, Reaping

LEMMA DecideType ==
    ASSUME TypeOK, NEW p \in Ticker, Decide(p)
    PROVE  claim' \in Claim /\ tick' \in [Ticker -> Tick]
<1> DEFINE s == tick[p].snap
<1>1. s \in Claim
  BY DEF TypeOK, Tick
<1>2. claim \in Claim
  BY DEF TypeOK
<1>3. "Idle" \in Pc /\ "Acquire" \in Pc /\ "Dispatched" \in Pc
  BY DEF Pc
<1>4. \A c \in Reconcile(s) :
        /\ c \in Claim
        /\ Stamped([c EXCEPT !.status = "Released", !.dispatch = FALSE]) \in Claim
        /\ Stamped([c EXCEPT !.status = "Running", !.dispatch = FALSE]) \in Claim
  <2> SUFFICES ASSUME NEW c \in Reconcile(s)
               PROVE  /\ c \in Claim
                      /\ Stamped([c EXCEPT !.status = "Released", !.dispatch = FALSE]) \in Claim
                      /\ Stamped([c EXCEPT !.status = "Running", !.dispatch = FALSE]) \in Claim
    OBVIOUS
  <2>1. c \in Claim
    BY <1>1, ReconcileType
  <2>2. /\ [c EXCEPT !.status = "Released", !.dispatch = FALSE] \in Claim
        /\ [c EXCEPT !.status = "Running", !.dispatch = FALSE] \in Claim
    BY <2>1 DEF Claim, Status
  <2> QED
    BY <2>1, <2>2, StampedType
<1>5. claim' \in Claim
  BY <1>2, <1>4 DEF Decide
<1>6. \/ Leave(p, "Acquire") \/ Leave(p, "Idle") \/ Reaping(p, "Decide")
      \/ \E c \in Reconcile(s) : Set(p, [tick[p] EXCEPT !.pc = "Dispatched", !.snap = c])
  BY DEF Decide
<1>7. tick' \in [Ticker -> Tick]
  BY <1>1, <1>3, <1>4, <1>6, TickType
<1> QED
  BY <1>5, <1>7

LEMMA NextType == TypeOK /\ [Next]_vars => TypeOK'
<1> SUFFICES ASSUME TypeOK, [Next]_vars PROVE TypeOK'
  OBVIOUS
<1> USE DEF TypeOK
<1>0. /\ claim \in Claim
      /\ \A l \in {"Idle", "List", "Decide", "Acquire", "Reap", "Write", "Load", "Cycle",
                   "Drop", "Dispatched"} : l \in Pc
      /\ NoLock \in [by : Ticker \cup {Nobody}, written : BOOLEAN, expired : BOOLEAN]
      /\ NoClaim \in Claim
  BY DEF Pc, NoLock, NoClaim, Claim, Status
<1>1. ASSUME NEW p \in Ticker, Begin(p) PROVE TypeOK'
  <2>1. claim' \in Claim
    BY <1>1, <1>0 DEF Begin, Claim
  <2>2. \A q \in Ticker : /\ [tick[q] EXCEPT !.pc = "List"] \in Tick
                          /\ [tick[q] EXCEPT !.snap.during = @ \ {p}] \in Tick
    BY DEF Tick, Claim, Pc
  <2>3. tick' \in [Ticker -> Tick]
    BY <1>1, <2>2 DEF Begin
  <2> QED
    BY <1>1, <2>1, <2>3 DEF Begin, Past
<1>2. ASSUME NEW p \in Ticker, List(p) PROVE TypeOK'
  BY <1>2, <1>0, TickType DEF List, Store, Past
<1>3. ASSUME NEW p \in Ticker, Decide(p) PROVE TypeOK'
  BY <1>3, DecideType DEF Decide, Past
<1>4. ASSUME NEW p \in Ticker, Acquire(p) PROVE TypeOK'
  <2>1. tick' \in [Ticker -> Tick]
    BY <1>4, <1>0, TickType DEF Acquire
  <2>2. lock' \in [by : Ticker \cup {Nobody}, written : BOOLEAN, expired : BOOLEAN]
    BY <1>4 DEF Acquire, NoLock
  <2> QED
    BY <1>4, <2>1, <2>2 DEF Acquire, Past
<1>5. ASSUME NEW p \in Ticker, Write(p) PROVE TypeOK'
  BY <1>5, <1>0, TickType DEF Write, Past
<1>6. ASSUME NEW p \in Ticker, Load(p) PROVE TypeOK'
  <2>1. PICK l \in AsRead(claim.last) :
           claim' = Stamped([claim EXCEPT !.status = "Running", !.dispatch = FALSE, !.last = l])
    BY <1>6 DEF Load
  <2>2. l \in Result \cup {NoRun, Open}
    BY DEF AsRead, Result, Claim
  <2>3. [claim EXCEPT !.status = "Running", !.dispatch = FALSE, !.last = l] \in Claim
    BY <2>2 DEF Claim, Status
  <2>4. claim' \in Claim
    BY <2>1, <2>3, StampedType
  <2>5. tick' \in [Ticker -> Tick]
    BY <1>6, <1>0, <2>4, TickType DEF Load
  <2> QED
    BY <1>6, <2>4, <2>5 DEF Load, Past
<1>7. ASSUME NEW p \in Ticker, Reap(p) \/ Drop(p) PROVE TypeOK'
  <2>1. [tick[p] EXCEPT !.pc = tick[p].back, !.back = "Decide"] \in Tick
    BY DEF Tick, Pc
  <2> QED
    BY <1>7, <1>0, <2>1, TickType DEF Reap, Drop, Set, Past
<1>8. ASSUME NEW p \in Ticker, EndCycle(p) PROVE TypeOK'
  <2>1. claim' \in Claim
    BY <1>8, EndsType DEF EndCycle, Tick
  <2>2. tick' \in [Ticker -> Tick]
    BY <1>8, <1>0, TickType DEF EndCycle
  <2> QED
    BY <1>8, <2>1, <2>2 DEF EndCycle, Past
<1>9. ASSUME NEW p \in Ticker, EndDispatch(p) PROVE TypeOK'
  <2>1. [tick[p].snap EXCEPT !.dispatch = FALSE] \in Claim
    BY DEF Tick, Claim
  <2>2. claim' \in Claim
    BY <1>9, <2>1, DispatchesType DEF EndDispatch
  <2>3. tick' \in [Ticker -> Tick]
    BY <1>9, <1>0, TickType DEF EndDispatch
  <2> QED
    BY <1>9, <2>2, <2>3 DEF EndDispatch, Past
<1>10. ASSUME NEW p \in Ticker, ByHand(p) PROVE TypeOK'
  BY <1>10, <1>0, TickType DEF ByHand, Store, Past
<1>11. ASSUME NEW p \in Ticker, Crash(p) PROVE TypeOK'
  <2>1. tick' \in [Ticker -> Tick]
    BY <1>11, <1>0, TickType DEF Crash
  <2>2. crashes' \in 0..MaxCrashes
    BY <1>11 DEF Crash
  <2> QED
    BY <1>11, <2>1, <2>2 DEF Crash, Store
<1>12. CASE RunOut
  BY <1>12 DEF RunOut
<1>13. CASE Age
  <2>1. claim' \in Claim
    BY <1>13, <1>0 DEF Age, Claim
  <2>2. \A q \in Ticker :
           [tick[q] EXCEPT !.snap.due = tick[q].snap.status \in Runnable] \in Tick
    <3>1. ASSUME NEW q \in Ticker, NEW b \in BOOLEAN
          PROVE  [tick[q] EXCEPT !.snap.due = b] \in Tick
      <4>1. tick[q] \in Tick /\ tick[q].snap \in Claim
        BY DEF Tick
      <4>2. [tick[q].snap EXCEPT !.due = b] \in Claim
        BY <4>1 DEF Claim
      <4> QED
        BY <4>1, <4>2 DEF Tick
    <3>2. \A q \in Ticker : (tick[q].snap.status \in Runnable) \in BOOLEAN
      OBVIOUS
    <3> QED
      BY <3>1, <3>2
  <2>3. tick' \in [Ticker -> Tick]
    BY <1>13, <2>2 DEF Age
  <2> QED
    BY <1>13, <2>1, <2>3 DEF Age, Past
<1>14. CASE Release
  <2>1. (lapsed \/ Held) \in BOOLEAN
    OBVIOUS
  <2> QED
    BY <1>14, <1>0, <2>1 DEF Release
<1>15. CASE Settle
  <2>1. PICK l \in Result :
           /\ claim' = Settled(claim, l)
           /\ tick' = [q \in Ticker |-> [tick[q] EXCEPT !.snap = Settled(@, l)]]
    BY <1>15 DEF Settle
  <2>2. ASSUME NEW q \in Ticker PROVE [tick[q] EXCEPT !.snap = Settled(@, l)] \in Tick
    <3>1. tick[q] \in Tick /\ Settled(tick[q].snap, l) \in Claim
      BY SettledType DEF Tick
    <3> QED
      BY <3>1 DEF Tick
  <2> QED
    BY <1>15, <2>1, <2>2, SettledType DEF Settle, Past
<1>16. CASE UNCHANGED vars
  BY <1>16 DEF vars
<1> QED
  BY <1>1, <1>2, <1>3, <1>4, <1>5, <1>6, <1>7, <1>8, <1>9, <1>10, <1>11, <1>12, <1>13,
     <1>14, <1>15, <1>16 DEF Next, Step

\* Every reachable state of a claim, its lock and the ticks on it has its type.
THEOREM AutoflowTypeCorrect == Spec => []TypeOK
<1> QED
  BY InitType, NextType, PTL DEF Spec
------------------------------------------------------------------------------
(* The lock.                                                               *)

LEMMA InitLocked == Init => LockedByItsCycle
BY DEF Init, LockedByItsCycle, InCycle, At, NoLock, NoTick

\* A process is somewhere else, and the others are where they were.
Moved(p, l) == \A q \in Ticker : tick'[q].pc = IF q = p THEN l ELSE tick[q].pc

LEMMA Moves ==
    ASSUME TypeOK, NEW p \in Ticker, NEW l
    PROVE  /\ Go(p, l) => Moved(p, l)
           /\ Leave(p, l) => Moved(p, l)
<1>1. tick \in [Ticker -> Tick] /\ tick[p] \in Tick
  BY DEF TypeOK
<1>2. /\ [tick[p] EXCEPT !.pc = l].pc = l
      /\ [tick[p] EXCEPT !.pc = l, !.snap = NoClaim].pc = l
  BY <1>1 DEF Tick
<1> QED
  BY <1>1, <1>2 DEF Go, Leave, Set, Moved

\* Reaping is for a lock that has expired, so that something has lapsed.
LEMMA ReapsLapsed ==
    ASSUME LockedByItsCycle, Expired, UNCHANGED <<lock, lapsed>>
    PROVE  LockedByItsCycle'
BY DEF LockedByItsCycle, Expired

\* A step of a process that leaves the lock alone, and enters no cycle.
LEMMA LeavesLock ==
    ASSUME LockedByItsCycle, UNCHANGED <<lock, lapsed>>, NEW p \in Ticker,
           NEW l, Moved(p, l), l # "Reap",
           l \in {"Write", "Load", "Cycle", "Drop"} => InCycle(p)
    PROVE  LockedByItsCycle'
BY DEF LockedByItsCycle, InCycle, At, Moved

LEMMA NextLocked == Inv /\ [Next]_vars => LockedByItsCycle'
<1> SUFFICES ASSUME TypeOK, LockedByItsCycle, [Next]_vars PROVE LockedByItsCycle'
  BY DEF Inv
<1>1. ASSUME NEW p \in Ticker, Begin(p) PROVE LockedByItsCycle'
  <2>1. Moved(p, "List")
    BY <1>1 DEF Begin, TypeOK, Tick, Moved
  <2> QED
    BY <1>1, <2>1, LeavesLock DEF Begin, Past
<1>2. ASSUME NEW p \in Ticker, List(p) PROVE LockedByItsCycle'
  <2>1. Moved(p, "Decide")
    BY <1>2 DEF List, Set, TypeOK, Tick, Moved
  <2> QED
    BY <1>2, <2>1, LeavesLock DEF List, Store, Past
<1>3. ASSUME NEW p \in Ticker, Decide(p) PROVE LockedByItsCycle'
  <2>1. UNCHANGED <<lock, lapsed>>
    BY <1>3 DEF Decide, Past
  <2>2. \/ Leave(p, "Acquire") \/ Leave(p, "Idle") \/ Expired
        \/ \E c \in Reconcile(tick[p].snap) :
              Set(p, [tick[p] EXCEPT !.pc = "Dispatched", !.snap = c])
    BY <1>3 DEF Decide
  <2>3. ASSUME NEW c \in Reconcile(tick[p].snap),
               Set(p, [tick[p] EXCEPT !.pc = "Dispatched", !.snap = c])
        PROVE  Moved(p, "Dispatched")
    BY <2>3 DEF Set, TypeOK, Tick, Moved
  <2>4. Moved(p, "Acquire") \/ Moved(p, "Idle") \/ Moved(p, "Dispatched") \/ Expired
    BY <2>2, <2>3, Moves
  <2> QED
    BY <2>1, <2>4, LeavesLock, ReapsLapsed
<1>4. ASSUME NEW p \in Ticker, Acquire(p) PROVE LockedByItsCycle'
  <2>1. CASE Expired
    BY <1>4, <2>1, ReapsLapsed DEF Acquire, Past
  <2>2. CASE ~Expired /\ Held
    <3>1. Moved(p, "Idle") /\ UNCHANGED <<lock, lapsed>>
      BY <1>4, <2>2, Moves DEF Acquire, Past
    <3> QED
      BY <3>1, LeavesLock
  <2>3. CASE ~Held
    <3>1. /\ lock'.by = p /\ ~lock'.expired /\ lapsed' = lapsed
          /\ Moved(p, "Write")
      BY <1>4, <2>3, Moves DEF Acquire, Expired, NoLock, Past
    <3>2. ~lapsed => \A q \in Ticker : ~InCycle(q)
      BY <2>3 DEF Held, LockedByItsCycle
    <3> QED
      BY <3>1, <3>2 DEF LockedByItsCycle, InCycle, At, Moved
  <2> QED
    BY <2>1, <2>2, <2>3
<1>5. ASSUME NEW p \in Ticker, Write(p) PROVE LockedByItsCycle'
  <2>1. lock'.by = lock.by /\ lock'.expired = lock.expired /\ lapsed' = lapsed
    BY <1>5 DEF Write, Past, TypeOK
  <2>2. Moved(p, "Load") /\ InCycle(p)
    BY <1>5, Moves DEF Write, InCycle, At
  <2> QED
    BY <2>1, <2>2 DEF LockedByItsCycle, InCycle, At, Moved
<1>6. ASSUME NEW p \in Ticker, Load(p) PROVE LockedByItsCycle'
  <2>1. Moved(p, "Cycle") /\ InCycle(p)
    BY <1>6 DEF Load, Set, TypeOK, Tick, Moved, InCycle, At
  <2> QED
    BY <1>6, <2>1, LeavesLock DEF Load, Past
<1>7. ASSUME NEW p \in Ticker, Reap(p) PROVE LockedByItsCycle'
  BY <1>7 DEF Reap, Past, LockedByItsCycle
<1>8. ASSUME NEW p \in Ticker, Drop(p) PROVE LockedByItsCycle'
  <2>1. Moved(p, "Idle") /\ InCycle(p)
    BY <1>8, Moves DEF Drop, InCycle, At
  <2>2. ~lapsed => \A q \in Ticker : q # p => ~InCycle(q)
    BY <2>1 DEF LockedByItsCycle
  <2>3. ~lock'.expired /\ lapsed' = lapsed
    BY <1>8 DEF Drop, NoLock, Past
  <2> QED
    BY <2>1, <2>2, <2>3 DEF LockedByItsCycle, InCycle, At, Moved
<1>9. ASSUME NEW p \in Ticker, EndCycle(p) PROVE LockedByItsCycle'
  <2>1. Moved(p, "Drop") /\ InCycle(p)
    BY <1>9, Moves DEF EndCycle, InCycle, At
  <2> QED
    BY <1>9, <2>1, LeavesLock DEF EndCycle, Past
<1>10. ASSUME NEW p \in Ticker, EndDispatch(p) PROVE LockedByItsCycle'
  <2>1. Moved(p, "Idle")
    BY <1>10, Moves DEF EndDispatch
  <2> QED
    BY <1>10, <2>1, LeavesLock DEF EndDispatch, Past
<1>11. ASSUME NEW p \in Ticker, ByHand(p) PROVE LockedByItsCycle'
  <2>1. Moved(p, "Acquire")
    BY <1>11, Moves DEF ByHand
  <2> QED
    BY <1>11, <2>1, LeavesLock DEF ByHand, Store, Past
<1>12. ASSUME NEW p \in Ticker, Crash(p) PROVE LockedByItsCycle'
  <2>1. Moved(p, "Idle")
    BY <1>12 DEF Crash, Set, NoTick, TypeOK, Moved
  <2> QED
    BY <1>12, <2>1, LeavesLock DEF Crash, Store
<1>13. CASE RunOut
  BY <1>13 DEF RunOut, LockedByItsCycle
<1>14. CASE Age
  <2>1. \A q \in Ticker : tick'[q].pc = tick[q].pc
    BY <1>14 DEF Age, TypeOK, Tick
  <2> QED
    BY <1>14, <2>1 DEF Age, Past, LockedByItsCycle, InCycle, At
<1>15. CASE Release
  <2>1. CASE Held
    BY <1>15, <2>1 DEF Release, LockedByItsCycle
  <2>2. CASE ~Held
    BY <1>15, <2>2 DEF Release, LockedByItsCycle, Held, InCycle, At, NoLock
  <2> QED
    BY <2>1, <2>2
<1>16. CASE Settle
  <2>1. \A q \in Ticker : tick'[q].pc = tick[q].pc
    BY <1>16 DEF Settle, TypeOK, Tick
  <2> QED
    BY <1>16, <2>1 DEF Settle, Past, LockedByItsCycle, InCycle, At
<1>17. CASE UNCHANGED vars
  BY <1>17 DEF vars, LockedByItsCycle, InCycle, At
<1> QED
  BY <1>1, <1>2, <1>3, <1>4, <1>5, <1>6, <1>7, <1>8, <1>9, <1>10, <1>11, <1>12, <1>13,
     <1>14, <1>15, <1>16, <1>17 DEF Next, Step

LEMMA InvHolds == Spec => []Inv
<1>1. Init => Inv
  BY InitType, InitLocked DEF Inv
<1>2. Inv /\ [Next]_vars => Inv'
  BY NextType, NextLocked DEF Inv
<1> QED
  BY <1>1, <1>2, PTL DEF Spec

\* Two cycles never work on an issue at once until a lease runs out or a release
\* takes a lock away, whatever ticks save over each other and wherever they die.
THEOREM CyclesExcludeHolds == Spec => []CyclesExclude
<1>1. Inv => CyclesExclude
  BY DEF Inv, LockedByItsCycle, CyclesExclude
<1> QED
  BY <1>1, InvHolds, PTL
==============================================================================
