---------------------------- MODULE WakesProofs ----------------------------
(***************************************************************************)
(* Proofs about the wakes, for any source, any number of processes that    *)
(* tick, of crashes and of failed writes: no event wakes twice, and, where *)
(* no two events share a second and a page has all a poll can miss, none   *)
(* is passed over.                                                         *)
(***************************************************************************)
EXTENDS Wakes, FiniteSetTheorems, TLAPS

------------------------------------------------------------------------------
(* The least and the greatest member of a set of numbers.                  *)

\* A nonempty set of numbers has a least member.
LEMMA Least ==
    ASSUME NEW S \in SUBSET Nat, S # {}
    PROVE  \E m \in S : \A n \in S : m <= n
<1> DEFINE T == {0..n : n \in S}
<1>1. T \subseteq FiniteSubsetsOf(Nat)
  <2>1. \A n \in S : IsFiniteSet(0..n) /\ 0..n \subseteq Nat
    BY FS_Interval
  <2> QED
    BY <2>1 DEF FiniteSubsetsOf
<1>2. T # {}
  OBVIOUS
<1>3. PICK x \in T : \A y \in T : ~(<<y, x>> \in StrictSubsetOrdering(Nat))
  <2>1. IsWellFoundedOn(StrictSubsetOrdering(Nat), FiniteSubsetsOf(Nat))
    BY FS_StrictSubsetOrderingWellFounded
  <2> QED
    BY <2>1, <1>1, <1>2, WFMin
<1>4. PICK m \in S : x = 0..m
  OBVIOUS
<1>5. ASSUME NEW n \in S, n < m
      PROVE  FALSE
  <2>1. 0..n \in T /\ 0..n \subseteq 0..m /\ m \in 0..m /\ m \notin 0..n
    BY <1>5
  <2>2. \A A, B \in SUBSET Nat :
          A \subseteq B /\ A # B => <<A, B>> \in StrictSubsetOrdering(Nat)
    BY DEF StrictSubsetOrdering
  <2>3. 0..n \in SUBSET Nat /\ 0..m \in SUBSET Nat /\ 0..n # 0..m
    BY <2>1
  <2>4. <<0..n, x>> \in StrictSubsetOrdering(Nat)
    BY <2>1, <2>2, <2>3, <1>4
  <2> QED
    BY <2>1, <2>4, <1>3
<1> QED
  BY <1>5

LEMMA MinIn ==
    ASSUME NEW S \in SUBSET Nat, S # {}
    PROVE  Min(S) \in S /\ \A n \in S : Min(S) <= n
BY Least DEF Min

LEMMA MaxIn ==
    ASSUME NEW b \in Nat, NEW S \in SUBSET (0..b), S # {}
    PROVE  Max(S) \in S /\ \A n \in S : n <= Max(S)
<1> DEFINE T == {b - n : n \in S}
<1>1. T \in SUBSET Nat /\ T # {}
  <2>1. \A n \in S : b - n \in Nat
    OBVIOUS
  <2>2. \E n \in S : b - n \in T
    OBVIOUS
  <2> QED
    BY <2>1, <2>2
<1>2. PICK m \in T : \A n \in T : m <= n
  BY <1>1, Least
<1>3. PICK k \in S : m = b - k
  OBVIOUS
<1>4. ASSUME NEW n \in S
      PROVE  n <= k
  <2>1. b - k <= b - n
    BY <1>2, <1>3
  <2> QED
    BY <2>1
<1> QED
  BY <1>4 DEF Max
------------------------------------------------------------------------------
(* Type correctness.                                                       *)

LEMMA CreatedAtType ==
    /\ Len(CreatedAt) \in Nat /\ Event = 1..Len(CreatedAt)
    /\ \A e \in Event : CreatedAt[e] \in Nat \ {0} /\ CreatedAt[e] \in ToSet(CreatedAt)
BY EventAssumption DEF Event, ToSet

LEMMA NoTickType == NoTick \in Tick
BY CreatedAtType DEF NoTick, Tick, Pc, Cursor

LEMMA InitType == Init => TypeOK
<1> SUFFICES ASSUME Init PROVE TypeOK
  OBVIOUS
<1>1. tick \in [Ticker -> Tick]
  BY NoTickType DEF Init
<1>2. cursor \in Cursor /\ feed \in 0..Len(CreatedAt)
  BY CreatedAtType DEF Init, Cursor
<1> QED
  BY <1>1, <1>2, BoundAssumption DEF Init, TypeOK

\* A page has events that have happened, up to a certain one.
LEMMA OnPageType ==
    ASSUME TypeOK
    PROVE  /\ OnPage \subseteq 1..feed
           /\ ~ETags => \A e \in OnPage, n \in 1..feed : n <= e => n \in OnPage
<1>1. feed \in Nat /\ Page \in Nat
  BY CreatedAtType, SettingAssumption DEF TypeOK
<1>2. Min({feed, Page}) \in Nat /\ Min({feed, Page}) <= feed
  BY <1>1, MinIn
<1> QED
  BY <1>1, <1>2 DEF OnPage

LEMMA BatchType ==
    ASSUME TypeOK, NEW s
    PROVE  Batch(s) \subseteq OnPage /\ Batch(s) \subseteq Event /\ Batch(s) \subseteq 1..feed
<1>1. Batch(s) \subseteq OnPage
  BY DEF Batch
<1>2. feed \in 0..Len(CreatedAt)
  BY DEF TypeOK
<1> QED
  BY <1>1, <1>2, OnPageType, CreatedAtType

\* The cursor goes on to an event that was emitted, past all others that were.
LEMMA AdvanceTo ==
    ASSUME TypeOK, NEW s, Batch(s) \ Unknown # {}
    PROVE  \E m \in Batch(s) \ Unknown :
             /\ Advance(s) = CreatedAt[m]
             /\ \A e \in Batch(s) \ Unknown : e <= m
<1> DEFINE emitted == Batch(s) \ Unknown
<1>1. feed \in Nat /\ emitted \in SUBSET (0..feed)
  BY BatchType, CreatedAtType DEF TypeOK
<1>2. Max(emitted) \in emitted /\ \A e \in emitted : e <= Max(emitted)
  BY <1>1, MaxIn
<1>3. Advance(s) = CreatedAt[Max(emitted)]
  BY DEF Advance
<1> QED
  BY <1>2, <1>3

LEMMA AdvanceType ==
    ASSUME TypeOK, NEW s \in {0} \cup ToSet(CreatedAt)
    PROVE  Advance(s) \in {0} \cup ToSet(CreatedAt)
<1>1. CASE Batch(s) \ Unknown = {}
  BY <1>1 DEF Advance
<1>2. CASE Batch(s) \ Unknown # {}
  BY <1>2, AdvanceTo, BatchType, CreatedAtType
<1> QED
  BY <1>1, <1>2

LEMMA StepType ==
    ASSUME TypeOK, NEW p \in Ticker, Step(p) \/ Crash(p)
    PROVE  TypeOK'
<1>1. /\ tick[p] \in Tick /\ NoTick \in Tick
      /\ \A t \in Tick : [tick EXCEPT ![p] = t] \in [Ticker -> Tick]
  BY NoTickType DEF TypeOK
<1>2. CASE ReadCursor(p)
  <2>1. [tick[p] EXCEPT !.pc = "Fetch", !.cursor = cursor] \in Tick
    BY <1>1 DEF TypeOK, Tick, Pc
  <2> QED
    BY <1>1, <1>2, <2>1 DEF ReadCursor, Set, Store, Faults, TypeOK
<1>3. CASE Fetch(p)
  <2> DEFINE c == tick[p].cursor
             t == [tick[p] EXCEPT
                     !.pc = "Cursor", !.todo = Batch(c.since) \ Unknown,
                     !.cursor = [since |-> Advance(c.since), etag |-> IF ETags THEN feed ELSE 0]]
  <2>1. c \in Cursor /\ c.since \in {0} \cup ToSet(CreatedAt)
    BY <1>1 DEF Tick, Cursor
  <2>2. /\ [since |-> Advance(c.since), etag |-> IF ETags THEN feed ELSE 0] \in Cursor
        /\ Batch(c.since) \ Unknown \in SUBSET Event
    <3>1. Advance(c.since) \in {0} \cup ToSet(CreatedAt)
      BY <2>1, AdvanceType
    <3>2. (IF ETags THEN feed ELSE 0) \in 0..Len(CreatedAt)
      BY CreatedAtType DEF TypeOK
    <3> QED
      BY <3>1, <3>2, BatchType DEF Cursor
  <2>3. t \in Tick /\ [tick[p] EXCEPT !.pc = "Cursor"] \in Tick
    BY <1>1, <2>2 DEF Tick, Pc
  <2>4. tick' = [tick EXCEPT ![p] = IF NotModified(c) THEN [tick[p] EXCEPT !.pc = "Cursor"]
                                                     ELSE t]
    BY <1>3 DEF Fetch, Set
  <2>5. tick' \in [Ticker -> Tick]
    BY <1>1, <2>3, <2>4
  <2> QED
    BY <1>3, <2>5 DEF Fetch, Store, Faults, TypeOK
<1>4. CASE FetchFails(p)
  <2>1. [NoTick EXCEPT !.pc = "Enqueue"] \in Tick
    BY <1>1 DEF Tick, Pc
  <2> QED
    BY <1>1, <1>4, <2>1, BoundAssumption DEF FetchFails, Fails, Set, Store, TypeOK
<1>5. CASE WriteCursor(p)
  <2>1. NoTick.cursor \in Cursor /\ tick[p].cursor \in Cursor
    BY <1>1 DEF Tick
  <2>2. [tick[p] EXCEPT !.pc = "Enqueue", !.cursor = NoTick.cursor] \in Tick
    BY <1>1, <2>1 DEF Tick, Pc
  <2> QED
    BY <1>1, <1>5, <2>1, <2>2, BoundAssumption DEF WriteCursor, Fails, Set, Store, TypeOK
<1>6. CASE Mark(p)
  <2> DEFINE e == Min(tick[p].todo)
  <2>1. e \in tick[p].todo /\ e \in Event /\ tick[p].todo \in SUBSET Event
    BY <1>1, <1>6, MinIn, CreatedAtType DEF Mark, Tick
  <2>2. /\ [tick[p] EXCEPT !.pc = "Put", !.put = {e}, !.todo = @ \ {e}] \in Tick
        /\ [tick[p] EXCEPT !.todo = @ \ {e}] \in Tick
    BY <1>1, <2>1 DEF Tick, Pc
  <2> QED
    BY <1>1, <1>6, <2>1, <2>2 DEF Mark, Set, Faults, TypeOK
<1>7. CASE Put(p)
  <2>1. tick[p].put \in SUBSET Event /\ [tick[p] EXCEPT !.pc = "Enqueue", !.put = {}] \in Tick
    BY <1>1 DEF Tick, Pc
  <2> QED
    BY <1>1, <1>7, <2>1, BoundAssumption DEF Put, Fails, Set, TypeOK
<1>8. CASE Collect(p)
  <2>1. [tick[p] EXCEPT !.pc = "Mark", !.wakes = queue] \in Tick
    BY <1>1 DEF Tick, Pc, TypeOK
  <2> QED
    BY <1>1, <1>8, <2>1 DEF Collect, Set, Store, Faults, TypeOK
<1>9. CASE MarkProcessed(p)
  <2>1. \A e : [tick[p] EXCEPT !.wakes = @ \ {e}] \in Tick
    BY <1>1 DEF Tick
  <2> QED
    BY <1>1, <1>9, <2>1 DEF MarkProcessed, Set, Faults, TypeOK
<1>10. CASE EndTick(p)
  BY <1>1, <1>10 DEF EndTick, Set, Store, Faults, TypeOK
<1>11. CASE TickFails(p)
  BY <1>1, <1>11, BoundAssumption DEF TickFails, Fails, Set, Store, TypeOK
<1>12. CASE Crash(p)
  <2>1. tick[p].todo \in SUBSET Event /\ tick[p].put \in SUBSET Event
    BY <1>1 DEF Tick
  <2> QED
    BY <1>1, <1>12, <2>1, BoundAssumption DEF Crash, Set, Store, TypeOK
<1> QED
  BY <1>2, <1>3, <1>4, <1>5, <1>6, <1>7, <1>8, <1>9, <1>10, <1>11, <1>12 DEF Step

LEMMA NextType == TypeOK /\ [Next]_vars => TypeOK'
<1> SUFFICES ASSUME TypeOK, [Next]_vars PROVE TypeOK'
  OBVIOUS
<1>1. CASE Happen
  BY <1>1, CreatedAtType DEF Happen, Store, Faults, TypeOK
<1>2. CASE UNCHANGED vars
  BY <1>2 DEF vars, TypeOK
<1> QED
  BY <1>1, <1>2, StepType DEF Next

\* Every reachable state has its type: what is marked, queued and processed are
\* events of the source, and a cursor stands at one of them.
THEOREM WakesTypeCorrect == Spec => []TypeOK
BY InitType, NextType, PTL DEF Spec
------------------------------------------------------------------------------
(* What each action makes of the tick of its process.                      *)

LEMMA Others ==
    ASSUME TypeOK, NEW p \in Ticker, NEW t, Set(p, t)
    PROVE  tick'[p] = t /\ \A q \in Ticker \ {p} : tick'[q] = tick[q]
BY DEF TypeOK, Set

LEMMA ActionSets ==
    ASSUME TypeOK, NEW p \in Ticker, Step(p) \/ Crash(p)
    PROVE  /\ \E t : Set(p, t)
           /\ \A q \in Ticker \ {p} : tick'[q] = tick[q]
<1>1. \E t : Set(p, t)
  BY DEF Step, ReadCursor, Fetch, FetchFails, WriteCursor, Mark, Put, Collect,
         MarkProcessed, EndTick, TickFails, Crash
<1> QED
  BY <1>1, Others

LEMMA ReadCursorSets ==
    ASSUME TypeOK, NEW p \in Ticker, ReadCursor(p)
    PROVE  /\ tick'[p].pc = "Fetch" /\ tick'[p].cursor = cursor
           /\ tick'[p].todo = tick[p].todo /\ tick'[p].put = tick[p].put
<1>1. tick'[p] = [tick[p] EXCEPT !.pc = "Fetch", !.cursor = cursor]
  BY Others DEF ReadCursor
<1> QED
  BY <1>1 DEF TypeOK, Tick

LEMMA FetchSets ==
    ASSUME TypeOK, NEW p \in Ticker, Fetch(p)
    PROVE  LET since == tick[p].cursor.since IN
           /\ tick'[p].pc = "Cursor" /\ tick'[p].put = tick[p].put
           /\ \/ tick'[p].cursor = tick[p].cursor /\ tick'[p].todo = tick[p].todo
              \/ /\ tick'[p].cursor.since = Advance(since)
                 /\ tick'[p].todo = Batch(since) \ Unknown
<1> DEFINE c == tick[p].cursor
           n == [since |-> Advance(c.since), etag |-> IF ETags THEN feed ELSE 0]
<1>1. n.since = Advance(c.since)
  OBVIOUS
<1>2. \/ tick'[p] = [tick[p] EXCEPT !.pc = "Cursor"]
      \/ tick'[p] = [tick[p] EXCEPT !.pc = "Cursor", !.todo = Batch(c.since) \ Unknown, !.cursor = n]
  BY Others DEF Fetch
<1> HIDE DEF n
<1> QED
  BY <1>1, <1>2 DEF TypeOK, Tick

LEMMA FetchFailsSets ==
    ASSUME TypeOK, NEW p \in Ticker, FetchFails(p)
    PROVE  /\ tick'[p].pc = "Enqueue" /\ tick'[p].cursor.since = 0
           /\ tick'[p].todo = {} /\ tick'[p].put = {}
<1>1. tick'[p] = [NoTick EXCEPT !.pc = "Enqueue"]
  BY Others DEF FetchFails
<1> QED
  BY <1>1 DEF NoTick

LEMMA WriteCursorSets ==
    ASSUME TypeOK, NEW p \in Ticker, WriteCursor(p)
    PROVE  /\ tick'[p].pc = "Enqueue" /\ tick'[p].cursor.since = 0
           /\ tick'[p].todo = tick[p].todo /\ tick'[p].put = tick[p].put
<1>1. tick'[p] = [tick[p] EXCEPT !.pc = "Enqueue", !.cursor = NoTick.cursor]
  BY Others DEF WriteCursor
<1>2. NoTick.cursor.since = 0
  BY DEF NoTick
<1> QED
  BY <1>1, <1>2 DEF TypeOK, Tick

LEMMA MarkSets ==
    ASSUME TypeOK, NEW p \in Ticker, Mark(p)
    PROVE  LET e == Min(tick[p].todo) IN
           /\ e \in tick[p].todo
           /\ tick'[p].cursor = tick[p].cursor /\ tick'[p].todo = tick[p].todo \ {e}
           /\ tick'[p].pc = IF New(e) THEN "Put" ELSE "Enqueue"
           /\ tick'[p].put = IF New(e) THEN {e} ELSE tick[p].put
<1> DEFINE e == Min(tick[p].todo)
<1>1. tick[p] \in Tick /\ tick[p].todo \in SUBSET Nat /\ tick[p].todo # {} /\ tick[p].pc = "Enqueue"
  BY CreatedAtType DEF Mark, At, TypeOK, Tick
<1>2. e \in tick[p].todo
  BY <1>1, MinIn
<1>3. tick'[p] = IF New(e)
                 THEN [tick[p] EXCEPT !.pc = "Put", !.put = {e}, !.todo = @ \ {e}]
                 ELSE [tick[p] EXCEPT !.todo = @ \ {e}]
  BY Others DEF Mark
<1> HIDE DEF e
<1>4. CASE New(e)
  BY <1>1, <1>2, <1>3, <1>4 DEF Tick, e
<1>5. CASE ~New(e)
  BY <1>1, <1>2, <1>3, <1>5 DEF Tick, e
<1> QED
  BY <1>4, <1>5

LEMMA PutSets ==
    ASSUME TypeOK, NEW p \in Ticker, Put(p)
    PROVE  /\ tick'[p].pc = "Enqueue" /\ tick'[p].cursor = tick[p].cursor
           /\ tick'[p].todo = tick[p].todo /\ tick'[p].put = {}
<1>1. tick'[p] = [tick[p] EXCEPT !.pc = "Enqueue", !.put = {}]
  BY Others DEF Put
<1> QED
  BY <1>1 DEF TypeOK, Tick

LEMMA CollectSets ==
    ASSUME TypeOK, NEW p \in Ticker, Collect(p)
    PROVE  /\ tick'[p].pc = "Mark" /\ tick'[p].cursor = tick[p].cursor
           /\ tick'[p].todo = tick[p].todo /\ tick'[p].put = tick[p].put
<1>1. tick'[p] = [tick[p] EXCEPT !.pc = "Mark", !.wakes = queue]
  BY Others DEF Collect
<1> QED
  BY <1>1 DEF TypeOK, Tick

LEMMA MarkProcessedSets ==
    ASSUME TypeOK, NEW p \in Ticker, MarkProcessed(p)
    PROVE  /\ tick'[p].pc = tick[p].pc /\ tick'[p].cursor = tick[p].cursor
           /\ tick'[p].todo = tick[p].todo /\ tick'[p].put = tick[p].put
<1>1. PICK e : tick'[p] = [tick[p] EXCEPT !.wakes = @ \ {e}]
  BY Others DEF MarkProcessed
<1> QED
  BY <1>1 DEF TypeOK, Tick

LEMMA EndsSet ==
    ASSUME TypeOK, NEW p \in Ticker, EndTick(p) \/ TickFails(p) \/ Crash(p)
    PROVE  /\ tick'[p].pc = "Idle" /\ tick'[p].cursor.since = 0
           /\ tick'[p].todo = {} /\ tick'[p].put = {}
<1>1. tick'[p] = NoTick
  BY Others DEF EndTick, TickFails, Crash
<1> QED
  BY <1>1 DEF NoTick
------------------------------------------------------------------------------
(* No event wakes twice.                                                   *)

\* What a process is about to put in the queue it has marked itself: it is not in
\* the queue, was not processed, and no other process has it.
MarkedOnce ==
    /\ queue \cup processed \subseteq marker
    /\ \A p \in Ticker : tick[p].put \subseteq marker \ (queue \cup processed)
    /\ \A p, q \in Ticker : p # q => tick[p].put \cap tick[q].put = {}

LEMMA StepMarked ==
    ASSUME TypeOK, MarkedOnce, NEW p \in Ticker, Step(p) \/ Crash(p)
    PROVE  MarkedOnce'
<1>1. \A q \in Ticker \ {p} : tick'[q] = tick[q]
  BY ActionSets
<1>2. CASE UNCHANGED Store /\ tick'[p].put \subseteq tick[p].put
  BY <1>1, <1>2 DEF MarkedOnce, Store
<1>3. CASE ReadCursor(p) \/ Fetch(p) \/ FetchFails(p) \/ WriteCursor(p) \/ Collect(p)
  <2>1. tick'[p].put \subseteq tick[p].put
    BY <1>3, ReadCursorSets, FetchSets, FetchFailsSets, WriteCursorSets, CollectSets
  <2>2. UNCHANGED Store
    BY <1>3 DEF ReadCursor, Fetch, FetchFails, WriteCursor, Collect
  <2> QED
    BY <1>2, <2>1, <2>2
<1>4. CASE EndTick(p) \/ TickFails(p) \/ Crash(p)
  <2>1. UNCHANGED Store
    BY <1>4 DEF EndTick, TickFails, Crash
  <2> QED
    BY <1>2, <1>4, <2>1, EndsSet
<1>5. CASE Mark(p)
  <2> DEFINE e == Min(tick[p].todo)
  <2>1. CASE New(e)
    <3>1. e \notin marker /\ marker' = marker \cup {e} /\ UNCHANGED <<queue, processed>>
      BY <1>5, <2>1 DEF Mark, New
    <3>2. tick'[p].put = {e}
      BY <1>5, <2>1, MarkSets
    <3> QED
      BY <1>1, <3>1, <3>2 DEF MarkedOnce
  <2>2. CASE ~New(e)
    <3>1. UNCHANGED Store
      BY <1>5, <2>2 DEF Mark, Store
    <3> QED
      BY <1>2, <1>5, <2>2, <3>1, MarkSets
  <2> QED
    BY <2>1, <2>2
<1>6. CASE Put(p)
  <2>1. tick'[p].put = {} /\ UNCHANGED processed
    BY <1>6, PutSets DEF Put
  <2>2. CASE queue' = queue \cup tick[p].put /\ UNCHANGED marker
    BY <1>1, <2>1, <2>2 DEF MarkedOnce
  <2>3. CASE marker' = marker \ tick[p].put /\ UNCHANGED queue
    BY <1>1, <2>1, <2>3 DEF MarkedOnce
  <2>4. CASE UNCHANGED <<marker, queue>>
    BY <1>1, <2>1, <2>4 DEF MarkedOnce
  <2> QED
    BY <1>6, <2>2, <2>3, <2>4 DEF Put
<1>7. CASE MarkProcessed(p)
  <2>1. tick'[p].put = tick[p].put
    BY <1>7, MarkProcessedSets
  <2>2. queue' \cup processed' = queue \cup processed /\ marker' = marker
    BY <1>7 DEF MarkProcessed
  <2> QED
    BY <1>1, <2>1, <2>2 DEF MarkedOnce
<1> QED
  BY <1>3, <1>4, <1>5, <1>6, <1>7 DEF Step

LEMMA NextMarked == TypeOK /\ MarkedOnce /\ [Next]_vars => MarkedOnce'
<1> SUFFICES ASSUME TypeOK, MarkedOnce, [Next]_vars PROVE MarkedOnce'
  OBVIOUS
<1>1. CASE Happen
  BY <1>1 DEF Happen, Store, MarkedOnce
<1>2. CASE UNCHANGED vars
  BY <1>2 DEF vars, MarkedOnce
<1> QED
  BY <1>1, <1>2, StepMarked DEF Next

LEMMA InitMarked == Init => MarkedOnce
BY DEF Init, NoTick, MarkedOnce

\* Only a Put adds to the queue, and what it adds was not processed.
LEMMA QueuedUnprocessed ==
    ASSUME TypeOK, MarkedOnce, [Next]_vars, NEW e \in queue' \ queue
    PROVE  e \notin processed
<1>1. PICK p \in Ticker : Put(p)
  BY DEF Next, Step, Happen, ReadCursor, Fetch, FetchFails, WriteCursor, Mark, Collect,
         MarkProcessed, EndTick, TickFails, Crash, Store, vars
<1>2. e \in tick[p].put
  BY <1>1 DEF Put
<1> QED
  BY <1>2 DEF MarkedOnce

\* An event wakes at most once, whatever the cursors do: of the processes that
\* have it in hand one made the marker, and a marker is taken back only by the one
\* that made it, before it has queued anything.
THEOREM WokenOnceHolds == Spec => WokenOnce
<1>1. Init => TypeOK /\ MarkedOnce
  BY InitType, InitMarked
<1>2. TypeOK /\ MarkedOnce /\ [Next]_vars => TypeOK' /\ MarkedOnce'
  BY NextType, NextMarked
<1>3. TypeOK /\ MarkedOnce /\ [Next]_vars => [\A e \in queue' \ queue : e \notin processed]_vars
  BY QueuedUnprocessed
<1> QED
  BY <1>1, <1>2, <1>3, PTL DEF Spec, WokenOnce
------------------------------------------------------------------------------
(* No event is passed over.                                                *)

\* No two events share a second, and a page with the newest events has them all.
Spread == \A e, f \in Event : e < f => CreatedAt[e] < CreatedAt[f]
Whole == ETags => Len(CreatedAt) <= Page

Had(e) == e \in queue \cup processed \/ \E p \in Ticker : e \in InHand(p)

\* A process has nothing in hand where it does not enqueue.
HandsClear ==
    \A p \in Ticker : /\ ~At(p, "Put") => tick[p].put = {}
                      /\ tick[p].pc \in {"Idle", "Fetch", "Mark"} => tick[p].todo = {}

\* A marker stands for an event that is queued, was processed, or is about to be
\* queued by the process that made it.
MarkedKept ==
    \A e \in marker : e \in queue \cup processed \cup lost \/ \E p \in Ticker : e \in tick[p].put

\* A cursor that stands at an event that has happened, and has passed none that is
\* not in somebody's hands.
Reached(s) == s = 0 \/ \E e \in 1..feed : s = CreatedAt[e]
Covered(s) == \A e \in 1..feed \ (Unknown \cup lost) : CreatedAt[e] <= s => Had(e)
Sound(s) == Reached(s) /\ Covered(s)

CursorsSound == Sound(cursor.since) /\ \A p \in Ticker : Sound(tick[p].cursor.since)

KeptInv == TypeOK /\ MarkedOnce /\ HandsClear /\ MarkedKept /\ CursorsSound

LEMMA InitKept == Init => HandsClear /\ MarkedKept /\ CursorsSound
BY DEF Init, At, NoTick, HandsClear, MarkedKept, CursorsSound, Sound, Reached, Covered

LEMMA StepClear ==
    ASSUME TypeOK, HandsClear, NEW p \in Ticker, Step(p) \/ Crash(p)
    PROVE  HandsClear'
<1>1. \A q \in Ticker \ {p} : tick'[q] = tick[q]
  BY ActionSets
<1>2. CASE /\ tick'[p].pc # "Put" => tick'[p].put = {}
           /\ tick'[p].pc \in {"Idle", "Fetch", "Mark"} => tick'[p].todo = {}
  BY <1>1, <1>2 DEF HandsClear, At
<1>3. CASE ReadCursor(p) \/ Fetch(p) \/ WriteCursor(p) \/ Collect(p)
  <2>1. tick[p].put = {} /\ tick'[p].put = {}
    BY <1>3, ReadCursorSets, FetchSets, WriteCursorSets, CollectSets
    DEF HandsClear, At, ReadCursor, Fetch, WriteCursor, Collect
  <2>2. tick'[p].pc \in {"Idle", "Fetch", "Mark"} => tick'[p].todo = {}
    BY <1>3, ReadCursorSets, FetchSets, WriteCursorSets, CollectSets
    DEF HandsClear, At, ReadCursor, Collect
  <2> QED
    BY <1>2, <2>1, <2>2
<1>4. CASE FetchFails(p) \/ EndTick(p) \/ TickFails(p) \/ Crash(p)
  BY <1>2, <1>4, FetchFailsSets, EndsSet
<1>5. CASE Mark(p)
  BY <1>2, <1>5, MarkSets DEF HandsClear, At, Mark
<1>6. CASE Put(p)
  BY <1>2, <1>6, PutSets
<1>7. CASE MarkProcessed(p)
  BY <1>2, <1>7, MarkProcessedSets DEF HandsClear, At
<1> QED
  BY <1>3, <1>4, <1>5, <1>6, <1>7 DEF Step

LEMMA StepMarkedKept ==
    ASSUME TypeOK, HandsClear, MarkedKept, NEW p \in Ticker, Step(p) \/ Crash(p)
    PROVE  MarkedKept'
<1>1. \A q \in Ticker \ {p} : tick'[q] = tick[q]
  BY ActionSets
<1>2. CASE UNCHANGED Store /\ lost \subseteq lost' /\ tick[p].put \subseteq tick'[p].put \cup lost'
  BY <1>1, <1>2 DEF MarkedKept, Store
<1>3. CASE ReadCursor(p) \/ Fetch(p) \/ FetchFails(p) \/ WriteCursor(p) \/ Collect(p)
  <2>1. tick[p].put = {} /\ UNCHANGED <<Store, lost>>
    BY <1>3 DEF HandsClear, At, ReadCursor, Fetch, FetchFails, WriteCursor, Collect, Faults
  <2> QED
    BY <1>2, <2>1
<1>4. CASE EndTick(p) \/ TickFails(p)
  <2>1. tick[p].put = {} /\ UNCHANGED <<Store, lost>>
    BY <1>4 DEF HandsClear, At, EndTick, TickFails, Faults
  <2> QED
    BY <1>2, <2>1
<1>5. CASE Crash(p)
  BY <1>2, <1>5 DEF Crash
<1>6. CASE Mark(p)
  <2> DEFINE e == Min(tick[p].todo)
  <2>1. tick[p].put = {} /\ UNCHANGED <<queue, processed, lost>>
    BY <1>6 DEF HandsClear, At, Mark, Faults
  <2>2. marker' = IF New(e) THEN marker \cup {e} ELSE marker
    BY <1>6 DEF Mark
  <2>3. New(e) => e \in tick'[p].put
    BY <1>6, MarkSets
  <2> QED
    BY <1>1, <2>1, <2>2, <2>3 DEF MarkedKept
<1>7. CASE Put(p)
  <2>1. UNCHANGED processed
    BY <1>7 DEF Put
  <2>2. CASE queue' = queue \cup tick[p].put /\ UNCHANGED <<marker, lost>>
    BY <1>1, <2>1, <2>2 DEF MarkedKept
  <2>3. CASE marker' = marker \ tick[p].put /\ lost' = lost \cup tick[p].put /\ UNCHANGED queue
    BY <1>1, <2>1, <2>3 DEF MarkedKept
  <2>4. CASE lost' = lost \cup tick[p].put /\ UNCHANGED <<marker, queue>>
    BY <1>1, <2>1, <2>4 DEF MarkedKept
  <2> QED
    BY <1>7, <2>2, <2>3, <2>4 DEF Put
<1>8. CASE MarkProcessed(p)
  <2>1. tick'[p].put = tick[p].put
    BY <1>8, MarkProcessedSets
  <2>2. queue' \cup processed' = queue \cup processed /\ UNCHANGED <<marker, lost>>
    BY <1>8 DEF MarkProcessed, Faults
  <2> QED
    BY <1>1, <2>1, <2>2 DEF MarkedKept
<1> QED
  BY <1>3, <1>4, <1>5, <1>6, <1>7, <1>8 DEF Step

\* What is queued, processed or in hand stays so, or is lost.
LEMMA StepHad ==
    ASSUME TypeOK, HandsClear, MarkedKept, NEW p \in Ticker, Step(p) \/ Crash(p),
           NEW e, Had(e), e \notin lost'
    PROVE  Had(e)'
<1>1. \A q \in Ticker \ {p} : tick'[q] = tick[q]
  BY ActionSets
<1>2. CASE /\ queue \cup processed \subseteq queue' \cup processed'
           /\ e \in InHand(p) => e \in InHand(p)'
  BY <1>1, <1>2 DEF Had, InHand
<1>3. CASE ReadCursor(p) \/ WriteCursor(p) \/ Collect(p)
  <2>1. InHand(p)' = InHand(p)
    BY <1>3, ReadCursorSets, WriteCursorSets, CollectSets DEF InHand
  <2>2. UNCHANGED <<queue, processed>>
    BY <1>3 DEF ReadCursor, WriteCursor, Collect, Store
  <2> QED
    BY <1>2, <2>1, <2>2
<1>4. CASE Fetch(p) \/ FetchFails(p) \/ EndTick(p) \/ TickFails(p)
  <2>1. InHand(p) = {}
    BY <1>4 DEF HandsClear, At, InHand, Fetch, FetchFails, EndTick, TickFails
  <2>2. UNCHANGED <<queue, processed>>
    BY <1>4 DEF Fetch, FetchFails, EndTick, TickFails, Store
  <2> QED
    BY <1>2, <2>1, <2>2
<1>5. CASE Crash(p)
  <2>1. e \notin InHand(p) /\ UNCHANGED <<queue, processed>>
    BY <1>5 DEF Crash, InHand, Store
  <2> QED
    BY <1>2, <2>1
<1>6. CASE Mark(p)
  <2> DEFINE f == Min(tick[p].todo)
  <2>1. tick[p].put = {} /\ UNCHANGED <<queue, processed, lost>>
    BY <1>6 DEF HandsClear, At, Mark, Faults
  <2>2. CASE New(f)
    <3>1. InHand(p)' = InHand(p)
      BY <1>6, <2>1, <2>2, MarkSets DEF InHand
    <3> QED
      BY <1>2, <2>1, <3>1
  <2>3. CASE ~New(f) /\ e # f
    <3>1. e \in InHand(p) => e \in InHand(p)'
      BY <1>6, <2>1, <2>3, MarkSets DEF InHand
    <3> QED
      BY <1>2, <2>1, <3>1
  <2>4. CASE ~New(f) /\ e = f
    <3>1. e \in queue \cup processed \/ \E q \in Ticker : e \in tick[q].put
      BY <2>1, <2>4 DEF New, MarkedKept
    <3> QED
      BY <1>1, <2>1, <3>1 DEF Had, InHand
  <2> QED
    BY <2>2, <2>3, <2>4
<1>7. CASE Put(p)
  <2>1. UNCHANGED processed /\ tick'[p].todo = tick[p].todo
    BY <1>7, PutSets DEF Put
  <2>2. \/ queue' = queue \cup tick[p].put
        \/ e \notin tick[p].put /\ UNCHANGED queue
    BY <1>7 DEF Put
  <2> QED
    BY <1>1, <2>1, <2>2 DEF Had, InHand
<1>8. CASE MarkProcessed(p)
  <2>1. InHand(p)' = InHand(p)
    BY <1>8, MarkProcessedSets DEF InHand
  <2>2. queue' \cup processed' = queue \cup processed
    BY <1>8 DEF MarkProcessed
  <2> QED
    BY <1>2, <2>1, <2>2
<1> QED
  BY <1>3, <1>4, <1>5, <1>6, <1>7, <1>8 DEF Step

LEMMA StepSound ==
    ASSUME TypeOK, HandsClear, MarkedKept, NEW p \in Ticker, Step(p) \/ Crash(p), NEW s, Sound(s)
    PROVE  Sound(s)'
<1>1. feed' = feed /\ lost \subseteq lost'
  BY DEF Step, ReadCursor, Fetch, FetchFails, WriteCursor, Mark, Put, Collect, MarkProcessed,
         EndTick, TickFails, Crash, Faults
<1> QED
  BY <1>1, StepHad DEF Sound, Reached, Covered

\* A batch has every event that a cursor which goes on from it has passed.
LEMMA BatchWhole ==
    ASSUME TypeOK, Spread, Whole, NEW s, Sound(s),
           NEW e \in 1..feed \ (Unknown \cup lost), CreatedAt[e] <= Advance(s), ~(CreatedAt[e] <= s)
    PROVE  e \in Batch(s) \ Unknown
<1> DEFINE newer == {f \in OnPage : CreatedAt[f] > s}
<1>1. feed \in Nat /\ 1..feed \subseteq Event /\ s \in Nat
  BY CreatedAtType DEF TypeOK, Sound, Reached
<1>2. PICK m \in Batch(s) \ Unknown : Advance(s) = CreatedAt[m]
  <2>1. Batch(s) \ Unknown # {}
    BY DEF Advance
  <2> QED
    BY <2>1, AdvanceTo
<1>3. m \in newer /\ m \in 1..feed /\ Cardinality({f \in newer : f <= m}) <= Limit
  BY <1>2, BatchType DEF Batch
<1>4. e <= m
  BY <1>1, <1>2, <1>3, CreatedAtType DEF Spread
<1>5. e \in OnPage
  <2>1. CASE ETags
    BY <2>1, <1>1, CreatedAtType, SettingAssumption DEF Whole, OnPage, TypeOK
  <2>2. CASE ~ETags
    BY <2>2, <1>3, <1>4, OnPageType
  <2> QED
    BY <2>1, <2>2
<1>6. e \in newer
  BY <1>1, <1>5, CreatedAtType
<1>7. Cardinality({f \in newer : f <= e}) <= Limit
  <2> DEFINE upTo == {f \in newer : f <= m}
             below == {f \in newer : f <= e}
  <2>1. newer \subseteq 1..feed
    BY OnPageType
  <2>2. upTo \in SUBSET (1..feed) /\ below \in SUBSET upTo
    BY <1>1, <1>3, <1>4, <2>1
  <2>3. IsFiniteSet(upTo)
    <3>1. IsFiniteSet(1..feed)
      BY <1>1, FS_Interval
    <3> QED
      BY <2>2, <3>1, FS_Subset
  <2>4. /\ Cardinality(below) <= Cardinality(upTo)
        /\ Cardinality(below) \in Nat /\ Cardinality(upTo) \in Nat
    BY <2>2, <2>3, FS_Subset, FS_CardinalityType
  <2> QED
    BY <1>3, <2>4, SettingAssumption
<1> QED
  BY <1>6, <1>7 DEF Batch

LEMMA FetchSound ==
    ASSUME TypeOK, HandsClear, MarkedKept, Spread, Whole,
           NEW p \in Ticker, Fetch(p), Sound(tick[p].cursor.since)
    PROVE  Sound(tick[p].cursor.since)'
<1> DEFINE since == tick[p].cursor.since
<1>1. Fetch(p) => Step(p)
  BY DEF Step
<1>2. UNCHANGED <<feed, lost>>
  BY DEF Fetch, Faults
<1>3. CASE tick'[p].cursor = tick[p].cursor
  <2>1. Sound(since) => \A s : s = since => (Reached(s) /\ Covered(s))'
    BY <1>1, StepSound DEF Sound
  <2> QED
    BY <1>3, <2>1 DEF Sound, Reached, Covered
<1>4. CASE tick'[p].cursor.since = Advance(since) /\ tick'[p].todo = Batch(since) \ Unknown
  <2>1. Reached(tick[p].cursor.since)'
    BY <1>2, <1>4, AdvanceTo, BatchType DEF Advance, Sound, Reached
  <2>2. ASSUME NEW e \in 1..feed \ (Unknown \cup lost), CreatedAt[e] <= Advance(since)
        PROVE  Had(e)'
    <3>1. CASE CreatedAt[e] <= since
      <4>1. Had(e) /\ e \notin lost'
        BY <1>2, <3>1 DEF Sound, Covered
      <4> QED
        BY <1>1, <4>1, StepHad
    <3>2. CASE ~(CreatedAt[e] <= since)
      <4>1. e \in Batch(since) \ Unknown
        BY <2>2, <3>2, BatchWhole
      <4> QED
        BY <1>4, <4>1 DEF Had, InHand
    <3> QED
      BY <3>1, <3>2
  <2> QED
    BY <1>2, <1>4, <2>1, <2>2 DEF Sound, Covered
<1> QED
  BY <1>3, <1>4, FetchSets

LEMMA StepCursors ==
    ASSUME KeptInv, Spread, Whole, NEW p \in Ticker, Step(p) \/ Crash(p)
    PROVE  CursorsSound'
<1> USE DEF KeptInv
<1>1. \A q \in Ticker \ {p} : tick'[q] = tick[q]
  BY ActionSets
<1>2. \A s : Sound(s) => Sound(s)'
  BY StepSound
<1>3. /\ Sound(0)
      /\ \A q \in Ticker : Sound(tick[q].cursor.since)
      /\ Sound(cursor.since)
  BY CreatedAtType DEF CursorsSound, Sound, Reached, Covered, TypeOK
<1>4. cursor' = cursor \/ cursor' = tick[p].cursor
  BY DEF Step, ReadCursor, Fetch, FetchFails, WriteCursor, Mark, Put, Collect, MarkProcessed,
         EndTick, TickFails, Crash
<1>5. Sound(cursor.since)'
  BY <1>2, <1>3, <1>4 DEF Sound, Reached, Covered
<1>6. \A q \in Ticker \ {p} : Sound(tick[q].cursor.since)'
  BY <1>1, <1>2, <1>3 DEF Sound, Reached, Covered
<1>7. Sound(tick[p].cursor.since)'
  <2>1. CASE Fetch(p)
    BY <1>3, <2>1, FetchSound
  <2>2. CASE ~Fetch(p)
    <3>1. \/ tick'[p].cursor.since = cursor.since
          \/ tick'[p].cursor.since = tick[p].cursor.since
          \/ tick'[p].cursor.since = 0
      BY <2>2, ReadCursorSets, FetchFailsSets, WriteCursorSets, MarkSets, PutSets, CollectSets,
         MarkProcessedSets, EndsSet DEF Step
    <3> QED
      BY <1>2, <1>3, <3>1 DEF Sound, Reached, Covered
  <2> QED
    BY <2>1, <2>2
<1> QED
  BY <1>5, <1>6, <1>7 DEF CursorsSound

LEMMA HappenKept ==
    ASSUME KeptInv, Spread, Happen
    PROVE  KeptInv'
<1> USE DEF KeptInv
<1>1. TypeOK' /\ MarkedOnce'
  BY NextType, NextMarked DEF Next
<1>2. HandsClear' /\ MarkedKept'
  BY DEF Happen, Store, Faults, HandsClear, At, MarkedKept
<1>3. \A s : Sound(s) => Sound(s)'
  <2> SUFFICES ASSUME NEW s, Sound(s) PROVE Sound(s)'
    OBVIOUS
  <2>1. /\ feed \in Nat /\ feed' = feed + 1 /\ feed + 1 \in Event /\ 1..feed \subseteq Event
        /\ \A e : Had(e) => Had(e)'
        /\ lost' = lost
    BY CreatedAtType DEF Happen, TypeOK, Had, InHand, Store, Faults
  <2>2. s < CreatedAt[feed + 1]
    BY <2>1, CreatedAtType DEF Sound, Reached, Spread
  <2>3. Reached(s)'
    BY <2>1 DEF Sound, Reached
  <2>4. Covered(s)'
    <3>1. ASSUME NEW e \in 1..(feed + 1) \ (Unknown \cup lost), CreatedAt[e] <= s
          PROVE  Had(e)'
      <4>1. e # feed + 1 /\ e \in 1..feed
        BY <2>1, <2>2, <3>1, CreatedAtType DEF Sound, Reached
      <4> QED
        BY <2>1, <3>1, <4>1 DEF Sound, Covered
    <3> QED
      BY <2>1, <3>1 DEF Covered
  <2> QED
    BY <2>3, <2>4 DEF Sound
<1>4. CursorsSound'
  BY <1>3 DEF CursorsSound, Happen, Sound, Reached, Covered
<1> QED
  BY <1>1, <1>2, <1>4

LEMMA NextKept == KeptInv /\ Spread /\ Whole /\ [Next]_vars => KeptInv'
<1> SUFFICES ASSUME KeptInv, Spread, Whole, [Next]_vars PROVE KeptInv'
  OBVIOUS
<1>1. CASE UNCHANGED vars
  BY <1>1 DEF vars, KeptInv, TypeOK, MarkedOnce, HandsClear, At, MarkedKept, CursorsSound, Sound,
              Reached, Covered, Had, InHand
<1>2. ASSUME NEW p \in Ticker, Step(p) \/ Crash(p)
      PROVE  KeptInv'
  BY <1>2, StepType, StepMarked, StepClear, StepMarkedKept, StepCursors DEF KeptInv
<1> QED
  BY <1>1, <1>2, HappenKept DEF Next

\* Where no two events share a second and a page has all that a poll can miss, an
\* event the cursor has passed is queued, was processed or is in the hands of a
\* process, but for what died with its process or could not be written: whoever
\* writes the cursor, and however stale what it writes.
THEOREM EventKeptHolds ==
    ASSUME Spread, Whole
    PROVE  Spec => []EventKept
<1>1. Init => KeptInv
  BY InitType, InitMarked, InitKept DEF KeptInv
<1>2. KeptInv /\ [Next]_vars => KeptInv'
  BY NextKept
<1>3. KeptInv => EventKept
  BY DEF KeptInv, CursorsSound, Sound, Covered, Had, EventKept
<1> QED
  BY <1>1, <1>2, <1>3, PTL DEF Spec
==============================================================================
