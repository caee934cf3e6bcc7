------------------------------- MODULE Wakes -------------------------------
(***************************************************************************)
(* What wakes autoflows: an event source is polled from a cursor           *)
(* (rupu-scm/src/connectors/{github,gitlab}/events.rs), what is new is     *)
(* queued once (rupu-runtime/src/wake.rs), and a tick takes what is queued *)
(* and marks it processed at its end (rupu-cli/src/cmd/autoflow.rs,        *)
(* autoflow_runtime.rs).  Processes tick side by side on one cursor file;  *)
(* one may die at any step, and a write may fail.  What a tick does for    *)
(* the issues it is woken for is Autoflow.tla's.                           *)
(***************************************************************************)
EXTENDS Naturals, FiniteSets, Sequences, SequencesExt, FiniteSetsExt

CONSTANTS
    Ticker,      \* processes that tick
    CreatedAt,   \* the source's events, oldest first: the second of each
    Unknown,     \* the events with no name of rupu's: map_github_event is None
    ETags,       \* the source answers `not modified' (GitHub), or not (GitLab)
    Page,        \* how many events a response has
    Limit,       \* max_events_per_tick
    MaxCrashes,  \* bounds the processes that die
    MaxFailures  \* bounds the writes that fail, and the ticks that do

Event == DOMAIN CreatedAt

ASSUME EventAssumption ==
    /\ CreatedAt \in Seq(Nat \ {0}) /\ Unknown \subseteq Event
    /\ \A e, f \in Event : e <= f => CreatedAt[e] <= CreatedAt[f]
ASSUME SettingAssumption == ETags \in BOOLEAN /\ Page \in Nat \ {0} /\ Limit \in Nat
ASSUME BoundAssumption == MaxCrashes \in Nat /\ MaxFailures \in Nat

VARIABLES
    feed,      \* how many events there are by now
    cursor,    \* the cursor file
    marker,    \* dedupe/
    queue,     \* queue/
    processed, \* processed/
    tick,      \* each process's tick
    crashes, failures,
    lost       \* history: what died with its process, or could not be written

vars == <<feed, cursor, marker, queue, processed, tick, crashes, failures, lost>>

\* `etag': how many events there were when the last answer was given.
Cursor == [since : {0} \cup ToSet(CreatedAt), etag : 0..Len(CreatedAt)]

Pc == {"Idle", "Fetch", "Cursor", "Enqueue", "Put", "Mark"}
\* The cursor a tick has read or has to write, what it has to enqueue, what it puts
\* in the queue, and the wakes it has collected.
Tick == [pc : Pc, cursor : Cursor, todo : SUBSET Event, put : SUBSET Event, wakes : SUBSET Event]
NoTick == [pc |-> "Idle", cursor |-> [since |-> 0, etag |-> 0], todo |-> {}, put |-> {},
           wakes |-> {}]

\* The first poll has been: it returns no event, and a cursor that stands at now.
Init ==
    /\ feed = 0 /\ cursor = [since |-> 0, etag |-> 0]
    /\ marker = {} /\ queue = {} /\ processed = {}
    /\ tick = [p \in Ticker |-> NoTick]
    /\ crashes = 0 /\ failures = 0 /\ lost = {}

At(p, l) == tick[p].pc = l
Set(p, t) == tick' = [tick EXCEPT ![p] = t]
Store == <<marker, queue, processed>>
Faults == <<crashes, failures, lost>>
Fails == failures < MaxFailures /\ failures' = failures + 1
------------------------------------------------------------------------------
(* Polling.                                                                *)

\* GitHub's page has the newest events, GitLab's the oldest of the cursor's day.
OnPage ==
    IF ETags THEN {e \in 1..feed : e > feed - Page} ELSE 1..Min({feed, Page})

\* Mutant: the newest of them, up to the limit.
NewestBatch(since) ==
    LET newer == {e \in OnPage : CreatedAt[e] > since}
    IN  {e \in newer : Cardinality({f \in newer : f >= e}) <= Limit}

\* Those strictly newer than the cursor, oldest first, up to the limit.
Batch(since) ==
    LET newer == {e \in OnPage : CreatedAt[e] > since}
    IN  {e \in newer : Cardinality({f \in newer : f <= e}) <= Limit}

\* Mutant: past all that the page has.
SinceNewest(since) == Max({since} \cup {CreatedAt[e] : e \in OnPage})

\* The cursor's new `since': that of the event emitted last, if one is.
Advance(since) ==
    LET emitted == Batch(since) \ Unknown
    IN  IF emitted = {} THEN since ELSE CreatedAt[Max(emitted)]

NotModified(c) == ETags /\ c.etag # 0 /\ c.etag = feed

\* The source has another event.
Happen ==
    /\ feed < Len(CreatedAt)
    /\ feed' = feed + 1
    /\ UNCHANGED <<cursor, Store, tick, Faults>>

\* A poll is due.
ReadCursor(p) ==
    /\ At(p, "Idle")
    /\ Set(p, [tick[p] EXCEPT !.pc = "Fetch", !.cursor = cursor])
    /\ UNCHANGED <<feed, cursor, Store, Faults>>

\* poll_events: the response, as it is when the source gives it.
Fetch(p) ==
    LET c == tick[p].cursor IN
    /\ At(p, "Fetch")
    /\ Set(p, IF NotModified(c)
              THEN [tick[p] EXCEPT !.pc = "Cursor"]
              ELSE [tick[p] EXCEPT
                      !.pc = "Cursor", !.todo = Batch(c.since) \ Unknown,
                      !.cursor = [since |-> Advance(c.since), etag |-> IF ETags THEN feed ELSE 0]])
    /\ UNCHANGED <<feed, cursor, Store, Faults>>

\* The request fails, and the source is passed over.
FetchFails(p) ==
    /\ At(p, "Fetch") /\ Fails
    /\ Set(p, [NoTick EXCEPT !.pc = "Enqueue"])
    /\ UNCHANGED <<feed, cursor, Store, crashes, lost>>

\* write_cursor, before anything is enqueued; another tick's may be further on.
WriteCursor(p) ==
    /\ At(p, "Cursor")
    /\ \/ cursor' = tick[p].cursor /\ UNCHANGED failures
       \/ Fails /\ UNCHANGED cursor
    /\ Set(p, [tick[p] EXCEPT !.pc = "Enqueue", !.cursor = NoTick.cursor])
    /\ UNCHANGED <<feed, Store, crashes, lost>>
------------------------------------------------------------------------------
(* The queue.                                                              *)

\* Mutant: a key counts as new whether it was marked or not.
Unmarked(e) == TRUE

New(e) == e \notin marker

\* create_dedupe_marker, for the next event: one whose key is known is passed over.
Mark(p) ==
    /\ At(p, "Enqueue") /\ tick[p].todo # {}
    /\ LET e == Min(tick[p].todo) IN
       IF New(e)
       THEN /\ marker' = marker \cup {e}
            /\ Set(p, [tick[p] EXCEPT !.pc = "Put", !.put = {e}, !.todo = @ \ {e}])
       ELSE /\ Set(p, [tick[p] EXCEPT !.todo = @ \ {e}])
            /\ UNCHANGED marker
    /\ UNCHANGED <<feed, cursor, queue, processed, Faults>>

\* The payload and the entry are written, or the marker is taken back: it stays
\* where it is the marker that could not be written.
Put(p) ==
    LET e == tick[p].put IN
    /\ At(p, "Put")
    /\ \/ queue' = queue \cup e /\ UNCHANGED <<marker, failures, lost>>
       \/ Fails /\ marker' \in {marker \ e, marker} /\ lost' = lost \cup e /\ UNCHANGED queue
    /\ Set(p, [tick[p] EXCEPT !.pc = "Enqueue", !.put = {}])
    /\ UNCHANGED <<feed, cursor, processed, crashes>>

\* list_due.
Collect(p) ==
    /\ At(p, "Enqueue") /\ tick[p].todo = {}
    /\ Set(p, [tick[p] EXCEPT !.pc = "Mark", !.wakes = queue])
    /\ UNCHANGED <<feed, cursor, Store, Faults>>

\* mark_processed, at the end of the tick, whatever became of the issue; another
\* tick may have done so.
MarkProcessed(p) ==
    /\ At(p, "Mark")
    /\ \E e \in tick[p].wakes :
         /\ IF e \in queue THEN queue' = queue \ {e} /\ processed' = processed \cup {e}
                           ELSE UNCHANGED <<queue, processed>>
         /\ Set(p, [tick[p] EXCEPT !.wakes = @ \ {e}])
    /\ UNCHANGED <<feed, cursor, marker, Faults>>

EndTick(p) ==
    /\ At(p, "Mark") /\ tick[p].wakes = {}
    /\ Set(p, NoTick)
    /\ UNCHANGED <<feed, cursor, Store, Faults>>

\* The tick ends with an error before it has marked anything.
TickFails(p) ==
    /\ At(p, "Mark") /\ Fails
    /\ Set(p, NoTick)
    /\ UNCHANGED <<feed, cursor, Store, crashes, lost>>

Crash(p) ==
    /\ ~At(p, "Idle") /\ crashes < MaxCrashes
    /\ crashes' = crashes + 1 /\ lost' = lost \cup tick[p].todo \cup tick[p].put
    /\ Set(p, NoTick)
    /\ UNCHANGED <<feed, cursor, Store, failures>>

Step(p) ==
    \/ ReadCursor(p) \/ Fetch(p) \/ FetchFails(p) \/ WriteCursor(p)
    \/ Mark(p) \/ Put(p) \/ Collect(p) \/ MarkProcessed(p) \/ EndTick(p) \/ TickFails(p)

Next == Happen \/ \E p \in Ticker : Step(p) \/ Crash(p)

Spec == Init /\ [][Next]_vars

\* Processes that tick go on.
FairSpec == Spec /\ \A p \in Ticker : WF_vars(Step(p))
------------------------------------------------------------------------------
TypeOK ==
    /\ feed \in 0..Len(CreatedAt) /\ cursor \in Cursor
    /\ marker \subseteq Event /\ queue \subseteq Event /\ processed \subseteq Event
    /\ tick \in [Ticker -> Tick]
    /\ crashes \in 0..MaxCrashes /\ failures \in 0..MaxFailures /\ lost \subseteq Event

InHand(p) == tick[p].todo \cup tick[p].put

\* An event the cursor has passed is queued, was processed, or is in the hands of a
\* process, whichever of the processes wrote the cursor last; but for what died with
\* its process or could not be written.
EventKept ==
    \A e \in 1..feed \ (Unknown \cup lost) :
        CreatedAt[e] <= cursor.since =>
            e \in queue \cup processed \/ \E p \in Ticker : e \in InHand(p)

\* An event wakes at most once, though cursors go back and polls are repeated.
WokenOnce == [][\A e \in queue' \ queue : e \notin processed]_vars

\* What happens wakes: the cursor goes on from the last event it emitted, and what
\* is queued is worked off.
Wakes == \A e \in Event \ Unknown : e <= feed ~> e \in processed \cup lost
==============================================================================
