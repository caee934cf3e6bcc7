------------------------------- MODULE Space --------------------------------
(***************************************************************************)
(* A message space (rupu-fleet/src/bus.rs, mailbox.rs, participants.rs):   *)
(* runs join it at an address, write to one another under the lock of its  *)
(* log, and collect what is waiting for them before each turn.  Two        *)
(* attempts of a step are two runs at one address.  Every file operation   *)
(* that another process can see the effect of is a step, and a process may *)
(* die between any two.                                                    *)
(*                                                                         *)
(* A message is its number in the log.                                     *)
(***************************************************************************)
EXTENDS Integers, Sequences, FiniteSets, SequencesExt

CONSTANTS
    Run,        \* the runs that may join
    Address,
    At,         \* the address of each run
    Operator,   \* the operator, who writes and never joins
    LogCap,     \* caps.log_max_bytes, in messages
    MsgCap,     \* caps.msg_cap: of an inbox, and of the broadcast log
    MaxCrashes, \* bounds the number of deaths
    Nobody

Writer == Run \cup {Operator}

ASSUME RunAssumption ==
    /\ At \in [Run -> Address] /\ Address \cap {Operator, "group", "broadcast", "nobody"} = {}
    /\ Operator \notin Run /\ Nobody \notin Writer
ASSUME CapAssumption ==
    LogCap \in Nat /\ MsgCap \in Nat \ {0} /\ MaxCrashes \in Nat

VARIABLES
    log,     \* log.jsonl
    roster,  \* participants.jsonl, folded: the last run of each address
    logLock, \* who has log.jsonl.lock
    inbox,   \* the messages in each inbox
    boxLock, \* who has each mailbox's lock
    casts,   \* the broadcast log
    cursor,  \* how much of it each address was given, -1 without a cursor
    pc,      \* where each process is
    draft,   \* what a writer is writing, and whom it has yet to reach
    mem,     \* the messages a collect has read
    total,   \* the broadcast lines it has read up to
    gone,    \* writers whose open inbox a drain has renamed away
    got,     \* what each run was given before its turns
    crashes,
    lost     \* what deaths cost: a message and the address it was for

vars == <<log, roster, logLock, inbox, boxLock, casts, cursor, pc, draft, mem, total,
          gone, got, crashes, lost>>

Message == 1..LogCap
Pc == {"Out", "Register", "In", "Deliver", "Write", "Read", "Cursor", "Hand",
       "Left"}
\* A draft: whom to (an address, "group": the live others of a role or step, or
\* "broadcast"), the run it is meant for, its line in the log, and the recipients
\* it has yet to reach.
NoDraft == [to |-> "nobody", expected |-> Nobody, line |-> 0, for |-> {}]
AddressOf(w) == IF w = Operator THEN Operator ELSE At[w]

Init ==
    /\ log = <<>> /\ casts = <<>> /\ logLock = Nobody
    /\ roster = [a \in Address |-> [run |-> Nobody, live |-> FALSE]]
    /\ inbox = [a \in Address |-> <<>>] /\ boxLock = [a \in Address |-> Nobody]
    /\ cursor = [a \in Address |-> -1]
    /\ pc = [w \in Writer |-> IF w = Operator THEN "In" ELSE "Out"]
    /\ draft = [w \in Writer |-> NoDraft]
    /\ mem = [r \in Run |-> <<>>] /\ total = [r \in Run |-> 0] /\ got = [r \in Run |-> <<>>]
    /\ gone = {} /\ crashes = 0 /\ lost = {}

Go(w, l) == pc' = [pc EXCEPT ![w] = l]
Collected == <<mem, total, got>>
Boxes == <<inbox, boxLock, casts, cursor, gone, Collected>>
Deaths == <<crashes, lost>>
------------------------------------------------------------------------------
(* Joining and leaving, under the log's lock.                              *)

\* The roster is appended to, unless this run is the live one already.
Join(r) ==
    /\ pc[r] = "Out" /\ logLock = Nobody
    /\ logLock' = r
    /\ roster' = [roster EXCEPT ![At[r]] = [run |-> r, live |-> TRUE]]
    /\ Go(r, "Register")
    /\ UNCHANGED <<log, Boxes, draft, Deaths>>

\* Mutant: the cursor starts at the end of the message log.
RegisterInLog(r) ==
    /\ pc[r] = "Register" /\ boxLock[At[r]] = Nobody
    /\ cursor' = [cursor EXCEPT ![At[r]] = IF @ = -1 THEN Len(log) ELSE @]
    /\ logLock' = Nobody /\ Go(r, "In")
    /\ UNCHANGED <<log, roster, inbox, boxLock, casts, gone, Collected, draft, Deaths>>

\* register_broadcast_cursor: an address that has a cursor keeps it.  Broadcasts
\* that were for an address whose run died before this are passed over.
Register(r) ==
    LET a == At[r] IN
    /\ pc[r] = "Register" /\ boxLock[a] = Nobody
    /\ cursor' = [cursor EXCEPT ![a] = IF @ = -1 THEN Len(casts) ELSE @]
    /\ lost' = IF cursor[a] = -1
                 THEN lost \cup {<<m, a>> : m \in {n \in ToSet(casts) : a \in log[n].for}}
                 ELSE lost
    /\ logLock' = Nobody /\ Go(r, "In")
    /\ UNCHANGED <<log, roster, inbox, boxLock, casts, gone, Collected, draft, crashes>>

\* A `left' of an earlier run never ends the run that joined after it.
Left(r) == IF roster[At[r]].run = r THEN [roster[At[r]] EXCEPT !.live = FALSE]
                                    ELSE roster[At[r]]

Leave(r) ==
    /\ pc[r] = "In" /\ logLock = Nobody
    /\ roster' = [roster EXCEPT ![At[r]] = Left(r)]
    /\ Go(r, "Left")
    /\ UNCHANGED <<log, logLock, Boxes, draft, Deaths>>
------------------------------------------------------------------------------
(* The one write path.                                                     *)

Live == {a \in Address : roster[a].live}

Recipients(w, to) ==
    IF to \in Address THEN {to} \cap Live ELSE Live \ {AddressOf(w)}

\* The backpressure check of `delivery'.
Room(a) == Len(inbox[a]) < MsgCap

Reached(w, to) ==
    IF to # "broadcast" THEN {a \in Recipients(w, to) : Room(a)}
    ELSE IF Len(casts) < MsgCap THEN Recipients(w, to)
    ELSE {}

\* Mutant: a message is for whoever has the address.
AnyRun(e) == TRUE

\* expected_run_id: the address must still be this run's.
Expected(e) == roster[At[e]] = [run |-> e, live |-> TRUE]

\* write_as up to the log line, which nobody can interfere with but a drain, that
\* makes room: a message that is refused leaves nothing.
Drafted(w, d) ==
    /\ log' = Append(log, [from |-> AddressOf(w), for |-> d.for])
    /\ draft' = [draft EXCEPT ![w] = [d EXCEPT !.line = Len(log')]]
    /\ Go(w, "Deliver")
    /\ UNCHANGED <<roster, Boxes, Deaths>>

Draft(w) ==
    IF w = Operator
      THEN {[NoDraft EXCEPT !.to = At[e], !.expected = e, !.for = Reached(w, At[e])] :
              e \in {r \in Run : Expected(r)}}
      ELSE {[NoDraft EXCEPT !.to = to, !.for = Reached(w, to)] :
              to \in Address \cup {"group", "broadcast"}}

MayWrite(w) == pc[w] = "In" /\ logLock = Nobody /\ Len(log) < LogCap

\* Mutant: the lock goes with the log line, before the delivery.
WriteUnlocked(w) ==
    MayWrite(w) /\ UNCHANGED logLock /\ \E d \in Draft(w) : Drafted(w, d)

WriteAs(w) ==
    MayWrite(w) /\ logLock' = w /\ \E d \in Draft(w) : Drafted(w, d)

\* Mailbox::broadcast_send, a critical section of its own.
Cast(w) ==
    /\ pc[w] = "Deliver" /\ draft[w].to = "broadcast" /\ draft[w].for # {}
    /\ casts' = Append(casts, draft[w].line)
    /\ draft' = [draft EXCEPT ![w].for = {}]
    /\ UNCHANGED <<log, roster, logLock, inbox, boxLock, cursor, gone, Collected, pc, Deaths>>

\* Mailbox::send: the cap again (which never refuses: Fits), and the inbox opened,
\* under its lock.
Open(w) ==
    /\ pc[w] = "Deliver" /\ draft[w].to # "broadcast"
    /\ \E a \in draft[w].for :
         /\ boxLock[a] = Nobody /\ Len(inbox[a]) < MsgCap
         /\ boxLock' = [boxLock EXCEPT ![a] = w]
         /\ Go(w, "Write")
    /\ UNCHANGED <<log, roster, logLock, inbox, casts, cursor, gone, Collected, draft, Deaths>>

\* The line goes to the file that was opened, wherever that is by now.
WriteLine(w) ==
    /\ pc[w] = "Write"
    /\ \E a \in draft[w].for :
         /\ boxLock[a] = w
         /\ inbox' = IF w \in gone THEN inbox
                                   ELSE [inbox EXCEPT ![a] = Append(@, draft[w].line)]
         /\ boxLock' = [boxLock EXCEPT ![a] = Nobody]
         /\ draft' = [draft EXCEPT ![w].for = @ \ {a}]
    /\ gone' = gone \ {w}
    /\ Go(w, "Deliver")
    /\ UNCHANGED <<log, roster, logLock, casts, cursor, Collected, Deaths>>

Unlock(w) ==
    /\ pc[w] = "Deliver" /\ draft[w].for = {}
    /\ draft' = [draft EXCEPT ![w] = NoDraft]
    /\ logLock' = IF logLock = w THEN Nobody ELSE logLock
    /\ Go(w, "In")
    /\ UNCHANGED <<log, roster, Boxes, Deaths>>
------------------------------------------------------------------------------
(* Before a turn: MessageCollector::collect.                               *)

\* Those with the inbox of a open.
Opened(a) == {w \in Writer : pc[w] = "Write" /\ boxLock[a] = w}

\* Mutant: a rename is atomic, and needs no lock.
NoNeed(a) == TRUE

Free(a) == boxLock[a] = Nobody

\* Mailbox::drain, under the inbox's lock: what was renamed away is read and
\* deleted; a death on the way leaves it where nobody looks.  A collect that
\* finds nothing is left out.
Take(r) ==
    LET a == At[r] IN
    /\ pc[r] = "In" /\ Free(a)
    /\ inbox[a] # <<>> \/ cursor[a] < Len(casts)
    /\ mem' = [mem EXCEPT ![r] = inbox[a]] /\ inbox' = [inbox EXCEPT ![a] = <<>>]
    /\ gone' = gone \cup Opened(a)
    /\ Go(r, "Read")
    /\ UNCHANGED <<log, roster, logLock, boxLock, casts, cursor, total, got, draft, Deaths>>

\* Those of the messages s that another address than a wrote.
FromOthers(s, a) ==
    LET f[n \in 0..Len(s)] ==
          IF n = 0 THEN <<>>
          ELSE IF log[s[n]].from = a THEN f[n - 1] ELSE Append(f[n - 1], s[n])
    IN f[Len(s)]

\* read_broadcast: the lines past the cursor, but for one's own.
ReadCasts(r) ==
    LET a == At[r] IN
    /\ pc[r] = "Read" /\ boxLock[a] = Nobody
    /\ boxLock' = [boxLock EXCEPT ![a] = r]
    /\ mem' = [mem EXCEPT ![r] =
                 @ \o FromOthers(SubSeq(casts, cursor[a] + 1, Len(casts)), a)]
    /\ total' = [total EXCEPT ![r] = Len(casts)]
    /\ Go(r, "Cursor")
    /\ UNCHANGED <<log, roster, logLock, inbox, casts, cursor, gone, got, draft, Deaths>>

\* Mutant: the cursor stays.
CursorKept(r) == cursor[At[r]]

Past(r) == total[r]

Advance(r) ==
    LET a == At[r] IN
    /\ pc[r] = "Cursor"
    /\ cursor' = [cursor EXCEPT ![a] = Past(r)]
    /\ boxLock' = [boxLock EXCEPT ![a] = Nobody]
    /\ total' = [total EXCEPT ![r] = 0]
    /\ Go(r, "Hand")
    /\ UNCHANGED <<log, roster, logLock, inbox, casts, mem, gone, got, draft, Deaths>>

\* The turn begins with what was collected.
Hand(r) ==
    /\ pc[r] = "Hand"
    /\ got' = [got EXCEPT ![r] = @ \o mem[r]] /\ mem' = [mem EXCEPT ![r] = <<>>]
    /\ Go(r, "In")
    /\ UNCHANGED <<log, roster, logLock, inbox, boxLock, casts, cursor, total, gone, draft, Deaths>>
------------------------------------------------------------------------------
\* Mutant: a lock file that outlives its process.
StillLocked(w, holder) == holder

\* The locks of a dead process go with it.
Unlocked(w, holder) == IF holder = w THEN Nobody ELSE holder

\* A process dies.  It has not left; it may come back at its address (a
\* session's turn), or another attempt joins there.
Crash(r) ==
    /\ pc[r] \notin {"Out", "Left"} /\ crashes < MaxCrashes
    /\ crashes' = crashes + 1
    /\ lost' = lost \cup (ToSet(mem[r]) \X {At[r]}) \cup ({draft[r].line} \X draft[r].for)
    /\ logLock' = Unlocked(r, logLock)
    /\ boxLock' = [a \in Address |-> Unlocked(r, boxLock[a])]
    /\ mem' = [mem EXCEPT ![r] = <<>>] /\ total' = [total EXCEPT ![r] = 0]
    /\ draft' = [draft EXCEPT ![r] = NoDraft] /\ gone' = gone \ {r}
    /\ Go(r, "Out")
    /\ UNCHANGED <<log, roster, inbox, casts, cursor, got>>

\* A write goes on once it has the log's lock, and waits for an inbox's.
Sending(w) ==
    Cast(w) \/ Open(w) \/ WriteLine(w) \/ Unlock(w)

Collecting(r) == Take(r) \/ ReadCasts(r) \/ Advance(r) \/ Hand(r)

Next ==
    \/ \E w \in Writer : WriteAs(w) \/ Sending(w)
    \/ \E r \in Run : Join(r) \/ Register(r) \/ Leave(r) \/ Collecting(r) \/ Crash(r)

\* Files are read and written, a run that is in takes turns, and who waits for a
\* lock gets it: a lock is held for a few file operations, and a turn is long.
Fairness ==
    /\ WF_vars(Sending(Operator))
    /\ \A r \in Run : WF_vars(Sending(r) \/ Register(r) \/ Collecting(r))

Spec == Init /\ [][Next]_vars
FairSpec == Spec /\ Fairness
------------------------------------------------------------------------------
TypeOK ==
    /\ log \in Seq([from : Address \cup {Operator}, for : SUBSET Address])
    /\ casts \in Seq(Message) /\ Len(casts) <= MsgCap /\ Len(log) <= LogCap
    /\ roster \in [Address -> [run : Run \cup {Nobody}, live : BOOLEAN]]
    /\ logLock \in Writer \cup {Nobody}
    /\ boxLock \in [Address -> Writer \cup {Nobody}]
    /\ inbox \in [Address -> Seq(Message)]
    /\ cursor \in [Address -> -1..Len(casts)] /\ total \in [Run -> 0..Len(casts)]
    /\ pc \in [Writer -> Pc]
    /\ draft \in [Writer -> [to : Address \cup {"group", "broadcast", "nobody"},
                            expected : Run \cup {Nobody}, line : 0..LogCap,
                            for : SUBSET Address]]
    /\ mem \in [Run -> Seq(Message)] /\ got \in [Run -> Seq(Message)]
    /\ gone \subseteq Writer /\ crashes \in 0..MaxCrashes
    /\ lost \subseteq (0..LogCap) \X Address

Handed(a) == UNION {ToSet(got[r]) : r \in {q \in Run : At[q] = a}}
Held(a) == UNION {ToSet(mem[r]) : r \in {q \in Run : At[q] = a}}
Coming(a) == {draft[w].line : w \in {v \in Writer : a \in draft[v].for}}
Waiting(a) ==
    ToSet(inbox[a]) \cup {m \in ToSet(casts) :
                            cursor[a] = -1 \/ m \in ToSet(SubSeq(casts, cursor[a] + 1, Len(casts)))}

\* A message the log says was delivered to an address is on its way there,
\* waits there, is being read there, or was given to a run there; nothing but a
\* death costs one.
Accounted ==
    \A m \in DOMAIN log : \A a \in log[m].for :
        \/ m \in Handed(a) \cup Held(a) \cup Coming(a) \cup Waiting(a)
        \/ <<m, a>> \in lost /\ crashes > 0

\* A message is in one place: no two runs of an address are given it, nor one
\* run twice, and none is given again after a death.
AtMostOnce ==
    \A r, q \in Run : \A i \in DOMAIN got[r], j \in DOMAIN got[q] :
        At[r] = At[q] /\ got[r][i] = got[q][j] => r = q /\ i = j

\* A run is given its direct messages in the order of the log, whoever wrote
\* them, and the broadcasts too.
InOrder ==
    \A r \in Run : \A i, j \in DOMAIN got[r] :
        i < j /\ (got[r][i] \in ToSet(casts) <=> got[r][j] \in ToSet(casts))
            => got[r][i] < got[r][j]

\* A recipient that had room when it was resolved still has when its turn to be
\* delivered to comes.
Fits ==
    \A w \in Writer : pc[w] = "Deliver" =>
        IF draft[w].to = "broadcast"
          THEN draft[w].for # {} => Len(casts) < MsgCap
          ELSE \A a \in draft[w].for : Len(inbox[a]) < MsgCap

\* A message meant for one run is written while the roster has that run at the
\* address, and live.
ForThisRun ==
    \A w \in Writer :
        pc[w] \in {"Deliver", "Write"} /\ draft[w].expected # Nobody =>
            roster[draft[w].to] = [run |-> draft[w].expected, live |-> TRUE]

\* What a writer has resolved still holds when it logs the message and delivers it,
\* whoever joins, leaves, reads and writes meanwhile: a message the log says was
\* delivered is not refused, and the roster has the run it is meant for until the
\* message is in the inbox.  The inbox is the address's: if that run leaves or dies
\* before it reads, the next one there is given the message.
AsResolved == Fits /\ ForThisRun

\* What is on its way to an address, waits there or is being read there comes to
\* be given to a run of it (Accounted: it goes nowhere else), if one stays.
Delivered ==
    \A a \in Address :
        Coming(a) \cup Waiting(a) \cup Held(a) # {}
          ~> \/ Coming(a) \cup Waiting(a) \cup Held(a) = {}
             \/ \A r \in Run : At[r] = a => pc[r] \in {"Out", "Left"}
==============================================================================
