------------------------------- MODULE Board --------------------------------
(***************************************************************************)
(* The claims of one work unit on a message space's board                  *)
(* (rupu-fleet/src/board.rs): a claim file created exclusively and written *)
(* afterwards, a lease that runs out, a lock that serializes who removes   *)
(* the file, and a journal of what happened to it.  Each bus is a process  *)
(* that may die between any two of its file operations.                    *)
(*                                                                         *)
(* A grant's token is its number; 0 stands for no file and no guard.       *)
(***************************************************************************)
EXTENDS Integers, Sequences

CONSTANTS
    Bus,        \* one per run that claims
    Session,    \* those whose claims outlive them (persist_claims)
    MaxGrants,  \* bounds the number of grants
    MaxCrashes, \* bounds the number of deaths
    Nobody

ASSUME BusAssumption == Session \subseteq Bus /\ Nobody \notin Bus
ASSUME BoundAssumption == MaxGrants \in Nat /\ MaxCrashes \in Nat

VARIABLES
    file,      \* the grant whose claim file exists
    written,   \* the grants whose record has been written to it
    owner,     \* the bus of each grant
    issued,    \* how many grants there were
    over,      \* those whose lease has expired
    lock,      \* who has the reap lock
    guard,     \* the grant in each bus's claim table
    pc,        \* where each bus is
    seen,      \* the grant it is dealing with
    journal,   \* claims.jsonl
    dropped,   \* grants whose guard was dropped to release them
    crashes,
    lost       \* releases whose journal line a crash cost

vars == <<file, written, owner, issued, over, lock, guard, pc, seen, journal,
          dropped, crashes, lost>>

Token == 1..MaxGrants
Pc == {"Idle", "Create", "Write", "Granted", "Inspect", "Reap", "Recheck", "Remove",
       "Expired", "Drop", "Compare", "Delete", "Released"}
\* Where a bus holds the reap lock.
Locked == {"Recheck", "Remove", "Expired", "Compare", "Delete", "Released"}

Init ==
    /\ file = 0 /\ written = {} /\ owner = [t \in Token |-> Nobody] /\ issued = 0
    /\ over = {} /\ lock = Nobody
    /\ guard = [b \in Bus |-> 0] /\ pc = [b \in Bus |-> "Idle"]
    /\ seen = [b \in Bus |-> 0]
    /\ journal = <<>> /\ dropped = {} /\ crashes = 0 /\ lost = {}

Go(b, l) == pc' = [pc EXCEPT ![b] = l]
See(b, t) == seen' = [seen EXCEPT ![b] = t]
Write(kind, t) == journal' = Append(journal, [kind |-> kind, token |-> t])
History == <<dropped, crashes, lost>>
Claims == <<file, written, owner, issued, over>>

\* board.claim: a unit the table has is "already held"; any other is claimed.
Claim(b) ==
    /\ pc[b] = "Idle" /\ guard[b] = 0
    /\ Go(b, "Create")
    /\ UNCHANGED <<Claims, lock, guard, seen, journal, History>>

\* create_new: the file is there, and empty.
Create(b) ==
    /\ pc[b] = "Create" /\ file = 0 /\ issued < MaxGrants
    /\ issued' = issued + 1 /\ file' = issued'
    /\ owner' = [owner EXCEPT ![issued'] = b]
    /\ See(b, issued') /\ Go(b, "Write")
    /\ UNCHANGED <<written, over, lock, guard, journal, History>>

Taken(b) ==
    /\ pc[b] = "Create" /\ file # 0
    /\ Go(b, "Inspect")
    /\ UNCHANGED <<Claims, lock, guard, seen, journal, History>>

WriteRecord(b) ==
    /\ pc[b] = "Write"
    /\ written' = written \cup {seen[b]}
    /\ Go(b, "Granted")
    /\ UNCHANGED <<file, owner, issued, over, lock, guard, seen, journal, History>>

\* The grant is journalled, outside the lock, and its guard is in the table.
TakeGuard(b) ==
    /\ pc[b] = "Granted"
    /\ Write("Claimed", seen[b])
    /\ guard' = [guard EXCEPT ![b] = seen[b]]
    /\ Go(b, "Idle") /\ See(b, 0)
    /\ UNCHANGED <<Claims, lock, History>>

\* read_claim, without the lock: it waits for an empty file to be written, and
\* fails after a second.
Inspect(b) ==
    /\ pc[b] = "Inspect"
    /\ Go(b, IF file = 0 THEN "Create"
             ELSE IF file \in written \cap over THEN "Reap" ELSE "Idle")
    /\ UNCHANGED <<Claims, lock, guard, seen, journal, History>>

\* reap_expired: one claimant at a time; the others retry, or have retried
\* often enough and are denied.
TryLock(b) ==
    /\ pc[b] = "Reap"
    /\ IF lock = Nobody
         THEN lock' = b /\ Go(b, "Recheck")
         ELSE UNCHANGED lock /\ (Go(b, "Create") \/ Go(b, "Idle"))
    /\ UNCHANGED <<Claims, guard, seen, journal, History>>

\* Mutant: the lease is removed on the strength of what was read before the lock.
RecheckNothing(b) ==
    /\ pc[b] = "Recheck"
    /\ See(b, file) /\ Go(b, "Remove")
    /\ UNCHANGED <<Claims, lock, guard, journal, History>>

\* The lease is read again under the lock.
Recheck(b) ==
    /\ pc[b] = "Recheck"
    /\ IF file \in written \cap over
         THEN /\ See(b, file) /\ Go(b, "Remove")
              /\ UNCHANGED lock
         ELSE /\ lock' = Nobody
              /\ Go(b, IF file = 0 \/ file \in written THEN "Create" ELSE "Idle")
              /\ UNCHANGED seen
    /\ UNCHANGED <<Claims, guard, journal, History>>

\* Mutant: the line names what the path holds now, not what was removed.
EndReadBack(b) ==
    /\ pc[b] \in {"Expired", "Released"}
    /\ Write(pc[b], file)
    /\ lock' = Nobody
    /\ Go(b, IF pc[b] = "Expired" THEN "Create" ELSE "Idle") /\ See(b, 0)
    /\ UNCHANGED <<Claims, guard, History>>

\* remove_file takes whatever is at the path.
Remove(b) ==
    /\ pc[b] \in {"Remove", "Delete"}
    /\ IF file # 0
         THEN /\ file' = 0
              /\ Go(b, IF pc[b] = "Remove" THEN "Expired" ELSE "Released")
              /\ UNCHANGED <<lock, seen>>
         ELSE /\ lock' = Nobody
              /\ Go(b, IF pc[b] = "Remove" THEN "Create" ELSE "Idle") /\ See(b, 0)
              /\ UNCHANGED file
    /\ UNCHANGED <<written, owner, issued, over, guard, journal, History>>

JournalEnd(b) ==
    /\ pc[b] \in {"Expired", "Released"}
    /\ Write(pc[b], seen[b])
    /\ lock' = Nobody
    /\ Go(b, IF pc[b] = "Expired" THEN "Create" ELSE "Idle") /\ See(b, 0)
    /\ UNCHANGED <<Claims, guard, History>>

\* board.release, or the end of a run: the guard leaves the table and drops.
Release(b) ==
    /\ pc[b] = "Idle" /\ guard[b] # 0
    /\ See(b, guard[b]) /\ guard' = [guard EXCEPT ![b] = 0]
    /\ dropped' = dropped \cup {guard[b]}
    /\ Go(b, "Drop")
    /\ UNCHANGED <<Claims, lock, journal, crashes, lost>>

DropLock(b) ==
    /\ pc[b] = "Drop" /\ lock = Nobody
    /\ lock' = b /\ Go(b, "Compare")
    /\ UNCHANGED <<Claims, guard, seen, journal, History>>

\* Mutant: a grant that was lost is released all the same.
CompareNothing(b) ==
    /\ pc[b] = "Compare"
    /\ IF file # 0
         THEN Go(b, "Delete") /\ UNCHANGED <<lock, seen>>
         ELSE Go(b, "Idle") /\ lock' = Nobody /\ See(b, 0)
    /\ UNCHANGED <<Claims, guard, journal, History>>

\* The file is removed only if it still holds this grant's token.
Compare(b) ==
    /\ pc[b] = "Compare"
    /\ IF file = seen[b] /\ file \in written
         THEN Go(b, "Delete") /\ UNCHANGED <<lock, seen>>
         ELSE Go(b, "Idle") /\ lock' = Nobody /\ See(b, 0)
    /\ UNCHANGED <<Claims, guard, journal, History>>

\* The bus of a session's turn goes, and keeps its claim.
Close(b) ==
    /\ b \in Session /\ pc[b] = "Idle" /\ guard[b] # 0
    /\ guard' = [guard EXCEPT ![b] = 0]
    /\ UNCHANGED <<Claims, lock, pc, seen, journal, History>>

\* restore_claims, at the start of its next turn.
Restore(b) ==
    /\ b \in Session /\ pc[b] = "Idle" /\ guard[b] = 0 /\ lock = Nobody
    /\ file \in written \ over /\ owner[file] = b
    /\ guard' = [guard EXCEPT ![b] = file]
    /\ UNCHANGED <<Claims, lock, pc, seen, journal, History>>

\* Mutant: a lock file that outlives the process that made it.
LockForGood(b) == lock

\* What the locks of a dead process are: released with it.
LockAfter(b) == IF lock = b THEN Nobody ELSE lock

\* A process dies; its guards are not dropped.  Its run starts over.
Crash(b) ==
    /\ crashes < MaxCrashes
    /\ crashes' = crashes + 1
    /\ lock' = LockAfter(b)
    /\ guard' = [guard EXCEPT ![b] = 0]
    /\ Go(b, "Idle") /\ See(b, 0)
    /\ lost' = IF pc[b] = "Released" THEN lost \cup {seen[b]} ELSE lost
    /\ UNCHANGED <<Claims, journal, dropped>>

\* The clock passes the end of the lease in the file; of the others nobody
\* asks any more.
Expire ==
    /\ file \notin over \cup {0}
    /\ over' = over \cup {file}
    /\ UNCHANGED <<file, written, owner, issued, lock, guard, pc, seen, journal, History>>

Step(b) ==
    \/ Create(b) \/ Taken(b) \/ WriteRecord(b) \/ TakeGuard(b) \/ Inspect(b)
    \/ TryLock(b) \/ Recheck(b) \/ Remove(b) \/ JournalEnd(b)
    \/ DropLock(b) \/ Compare(b)

Next ==
    \/ \E b \in Bus : \/ Step(b) \/ Claim(b) \/ Release(b)
                      \/ Close(b) \/ Restore(b) \/ Crash(b)
    \/ Expire

\* Somebody goes on asking for the unit, and file operations return.
Fairness == \A b \in Bus : WF_vars(Step(b)) /\ WF_vars(Claim(b))

Spec == Init /\ [][Next]_vars
FairSpec == Spec /\ Fairness
------------------------------------------------------------------------------
TypeOK ==
    /\ file \in 0..MaxGrants /\ issued \in 0..MaxGrants
    /\ written \subseteq Token /\ over \subseteq Token /\ dropped \subseteq Token
    /\ lost \subseteq Token /\ crashes \in 0..MaxCrashes
    /\ owner \in [Token -> Bus \cup {Nobody}]
    /\ lock \in Bus \cup {Nobody}
    /\ guard \in [Bus -> 0..MaxGrants] /\ seen \in [Bus -> 0..MaxGrants]
    /\ pc \in [Bus -> Pc]
    /\ journal \in Seq([kind : {"Claimed", "Expired", "Released"}, token : Token])

\* However claimants race over an expired lease, release late, die and come
\* back, the unit is leased to one grant at a time and a live lease is ended
\* by its own holder only.
Promise == INSTANCE Lease WITH
    lease <- file, issued <- issued, over <- over, dropped <- dropped

KeepsLease == Promise!Spec

\* The journal lines of one grant that end an earlier `Claimed' (end_latest).
EndedInJournal ==
    {t \in Token : \E i, j \in DOMAIN journal :
        /\ i < j /\ journal[i] = [kind |-> "Claimed", token |-> t]
        /\ journal[j].kind # "Claimed" /\ journal[j].token = t}

HeldInJournal ==
    {t \in Token : \E i \in DOMAIN journal :
        journal[i] = [kind |-> "Claimed", token |-> t]} \ EndedInJournal

\* claims_view: an acquisition the journal calls ended is not the one that has
\* the unit, and one it calls held has it, is being released, or has run out;
\* a process that died between the two is the exception.
JournalTrue ==
    /\ file \notin EndedInJournal
    /\ \A t \in HeldInJournal \ (over \cup lost) :
         \/ file = t
         \/ \E b \in Bus : pc[b] = "Released" /\ seen[b] = t

\* A bus that has no grant of the unit in its table, nor one on its way to it.
Wants(b) == guard[b] = 0 /\ pc[b] \notin {"Write", "Granted"}

\* An expired lease does not keep the unit from a bus that asks for it, whoever
\* dies where.
ComesFree ==
    \A t \in Token :
        (file = t /\ t \in written \cap over /\ \E b \in Bus : Wants(b)) ~> file # t
==============================================================================
