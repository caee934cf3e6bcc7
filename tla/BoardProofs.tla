---------------------------- MODULE BoardProofs -----------------------------
(***************************************************************************)
(* The type correctness of Board, and that it implements Lease: removing a *)
(* claim file is right because whoever removes it holds the reap lock, and *)
(* what it compared or read again under that lock is still there.  And     *)
(* that its journal tells the truth about who has a grant.                 *)
(***************************************************************************)
EXTENDS Board, TLAPS

\* Where a bus deals with a grant that has been issued.
Dealing == {"Write", "Granted", "Remove", "Expired", "Drop", "Compare", "Delete",
            "Released"}

\* Nothing mentions a grant before it is issued.
Numbered ==
    /\ file <= issued
    /\ over \subseteq 1..issued /\ dropped \subseteq 1..issued
    /\ \A b \in Bus : guard[b] <= issued /\ seen[b] <= issued

Deals == \A b \in Bus : pc[b] \in Dealing => seen[b] # 0

\* One bus at a time is between taking the lock and giving it back.
Locking == \A b \in Bus : lock = b <=> pc[b] \in Locked

\* What a bus is about to remove is what it looked at under the lock.
Removing ==
    \A b \in Bus :
        /\ pc[b] = "Remove" => file = seen[b] /\ seen[b] \in over
        /\ pc[b] \in {"Drop", "Compare", "Delete"} => seen[b] \in dropped
        /\ pc[b] = "Delete" => file = seen[b]

IInv == TypeOK /\ Numbered /\ Deals /\ Locking /\ Removing

LEMMA InitIInv == Init => IInv
BY BusAssumption, BoundAssumption
   DEF Init, IInv, TypeOK, Numbered, Deals, Locking, Removing, Dealing, Locked, Token, Pc

\* A step that only looks, and moves one bus to a place outside the lock.
LEMMA Looking ==
    ASSUME IInv, NEW b \in Bus, NEW l \in Pc \ (Dealing \cup Locked),
           pc[b] \notin Locked, Go(b, l),
           UNCHANGED <<Claims, lock, guard, seen, journal, History>>
    PROVE  IInv'
BY DEF IInv, TypeOK, Numbered, Deals, Locking, Removing, Dealing, Locked, Pc,
       Go, Claims, History

LEMMA ClaimIInv == ASSUME IInv, NEW b \in Bus, Claim(b) PROVE IInv'
<1>1. "Create" \in Pc \ (Dealing \cup Locked) /\ pc[b] \notin Locked
  BY DEF Claim, Pc, Dealing, Locked
<1> QED BY <1>1, Looking DEF Claim

LEMMA TakenIInv == ASSUME IInv, NEW b \in Bus, Taken(b) PROVE IInv'
<1>1. "Inspect" \in Pc \ (Dealing \cup Locked) /\ pc[b] \notin Locked
  BY DEF Taken, Pc, Dealing, Locked
<1> QED BY <1>1, Looking DEF Taken

LEMMA InspectIInv == ASSUME IInv, NEW b \in Bus, Inspect(b) PROVE IInv'
<1>1. /\ {"Create", "Idle", "Reap"} \subseteq Pc \ (Dealing \cup Locked)
      /\ pc[b] \notin Locked
  BY DEF Inspect, Pc, Dealing, Locked
<1>2. PICK l \in {"Create", "Idle", "Reap"} : Go(b, l)
  BY DEF Inspect
<1> QED BY <1>1, <1>2, Looking DEF Inspect

LEMMA CreateIInv == ASSUME IInv, NEW b \in Bus, Create(b) PROVE IInv'
<1> USE DEF IInv, Create, Go, See, Token
<1>1. issued' \in Token /\ issued' = issued + 1 /\ file' = issued'
  BY BoundAssumption DEF TypeOK
<1>2. TypeOK' BY <1>1, BoundAssumption DEF TypeOK, Pc, History
<1>3. Numbered' BY <1>1, BoundAssumption DEF TypeOK, Numbered, History
<1>4. Deals' BY <1>1 DEF TypeOK, Deals, Dealing
<1>5. Locking' BY DEF TypeOK, Locking, Locked
<1>6. Removing'
  <2>1. ASSUME NEW c \in Bus PROVE pc[c] \notin {"Remove", "Delete"}
    BY <2>1 DEF Deals, Dealing, Removing
  <2> QED BY <2>1 DEF TypeOK, Removing, History
<1> QED BY <1>2, <1>3, <1>4, <1>5, <1>6

LEMMA WriteRecordIInv == ASSUME IInv, NEW b \in Bus, WriteRecord(b) PROVE IInv'
<1>1. seen[b] \in Token
  BY BoundAssumption DEF IInv, WriteRecord, TypeOK, Deals, Dealing, Token
<1> QED
  BY <1>1 DEF IInv, WriteRecord, TypeOK, Numbered, Deals, Locking, Removing, Dealing,
     Locked, Pc, Go, History

\* A line about a grant keeps the journal a journal.
LEMMA JournalTyped ==
    ASSUME TypeOK, NEW kind \in {"Claimed", "Expired", "Released"}, NEW t \in Token,
           Write(kind, t)
    PROVE  journal' \in Seq([kind : {"Claimed", "Expired", "Released"}, token : Token])
<1>1. [kind |-> kind, token |-> t] \in [kind : {"Claimed", "Expired", "Released"},
                                        token : Token]
  OBVIOUS
<1> QED BY <1>1 DEF Write, TypeOK

LEMMA TakeGuardIInv == ASSUME IInv, NEW b \in Bus, TakeGuard(b) PROVE IInv'
<1>1. seen[b] \in Token
  BY BoundAssumption DEF IInv, TakeGuard, TypeOK, Deals, Dealing, Token
<1>2. journal' \in Seq([kind : {"Claimed", "Expired", "Released"}, token : Token])
  BY <1>1, JournalTyped DEF IInv, TakeGuard
<1>3. TypeOK'
  BY <1>1, <1>2, BoundAssumption DEF IInv, TakeGuard, TypeOK, Pc, Go, See, Claims, History
<1>4. Numbered'
  BY BoundAssumption DEF IInv, TakeGuard, TypeOK, Numbered, See, Claims, History
<1>5. Deals' BY DEF IInv, TakeGuard, TypeOK, Deals, Dealing, Go, See
<1>6. Locking' BY DEF IInv, TakeGuard, TypeOK, Locking, Locked, Go
<1>7. Removing'
  BY DEF IInv, TakeGuard, TypeOK, Removing, Go, See, Claims, History
<1> QED BY <1>3, <1>4, <1>5, <1>6, <1>7 DEF IInv

LEMMA TryLockIInv == ASSUME IInv, NEW b \in Bus, TryLock(b) PROVE IInv'
<1>1. CASE lock = Nobody
  <2> USE <1>1 DEF IInv, TryLock, Go
  <2>1. TypeOK' BY DEF TypeOK, Pc, Claims, History
  <2>2. Numbered' BY DEF TypeOK, Numbered, Claims, History
  <2>3. Deals' BY DEF TypeOK, Deals, Dealing
  <2>4. Locking' BY BusAssumption DEF TypeOK, Locking, Locked
  <2>5. Removing' BY DEF TypeOK, Removing, Claims, History
  <2> QED BY <2>1, <2>2, <2>3, <2>4, <2>5
<1>2. CASE lock # Nobody
  <2>1. /\ {"Create", "Idle"} \subseteq Pc \ (Dealing \cup Locked)
        /\ pc[b] \notin Locked
    BY DEF TryLock, Pc, Dealing, Locked
  <2>2. PICK l \in {"Create", "Idle"} : Go(b, l)
    BY <1>2 DEF TryLock
  <2> QED BY <1>2, <2>1, <2>2, Looking DEF TryLock
<1> QED BY <1>1, <1>2

\* A bus that gives the lock back, having removed nothing.
LEMMA Unlocking ==
    ASSUME IInv, NEW b \in Bus, NEW l \in Pc \ (Dealing \cup Locked),
           pc[b] \in Locked, Go(b, l), lock' = Nobody,
           UNCHANGED seen \/ See(b, 0),
           UNCHANGED <<Claims, guard, History>>,
           journal' \in Seq([kind : {"Claimed", "Expired", "Released"}, token : Token])
    PROVE  IInv'
<1> USE DEF IInv, Go, See, Claims, History
<1>0. /\ seen' \in [Bus -> 0..MaxGrants]
      /\ \A c \in Bus : seen'[c] = 0 \/ seen'[c] = seen[c]
      /\ \A c \in Bus \ {b} : pc'[c] = pc[c] /\ seen'[c] = seen[c]
  <2>1. /\ pc \in [Bus -> Pc] /\ seen \in [Bus -> 0..MaxGrants] /\ 0 \in 0..MaxGrants
        /\ pc' = [pc EXCEPT ![b] = l] /\ b \in Bus
    BY BoundAssumption DEF TypeOK
  <2>2. CASE UNCHANGED seen BY <2>1, <2>2
  <2>3. CASE seen' = [seen EXCEPT ![b] = 0] BY <2>1, <2>3
  <2> QED BY <2>2, <2>3
<1>1. TypeOK' BY <1>0 DEF TypeOK
<1>2. Numbered'
  <2>1. \A c \in Bus : seen[c] <= issued /\ 0 <= issued BY DEF TypeOK, Numbered
  <2> QED BY <1>0, <2>1 DEF TypeOK, Numbered
<1>3. Deals' BY <1>0 DEF TypeOK, Deals
<1>4. Locking'
  <2>1. lock = b BY DEF Locking
  <2> QED BY <2>1, BusAssumption DEF TypeOK, Locking
<1>5. Removing' BY <1>0 DEF TypeOK, Removing, Dealing, Locked
<1> QED BY <1>1, <1>2, <1>3, <1>4, <1>5

LEMMA RecheckIInv == ASSUME IInv, NEW b \in Bus, Recheck(b) PROVE IInv'
<1>0. pc[b] \in Locked BY DEF Recheck, Locked
<1>1. CASE file \in written \cap over
  <2> USE <1>1 DEF IInv, Recheck, Go, See, Claims, History
  <2>1. file \in Token /\ file # 0 BY BoundAssumption DEF TypeOK, Token
  <2>2. TypeOK' BY DEF TypeOK, Pc
  <2>3. Numbered' BY DEF TypeOK, Numbered
  <2>4. Deals' BY <2>1 DEF TypeOK, Deals, Dealing
  <2>5. Locking' BY DEF TypeOK, Locking, Locked
  <2>6. Removing' BY DEF TypeOK, Removing
  <2> QED BY <2>2, <2>3, <2>4, <2>5, <2>6
<1>2. CASE file \notin written \cap over
  <2>1. {"Create", "Idle"} \subseteq Pc \ (Dealing \cup Locked)
    BY DEF Pc, Dealing, Locked
  <2>2. PICK l \in {"Create", "Idle"} : Go(b, l)
    BY <1>2 DEF Recheck
  <2>3. journal' \in Seq([kind : {"Claimed", "Expired", "Released"}, token : Token])
    BY DEF Recheck, IInv, TypeOK
  <2> QED BY <1>0, <1>2, <2>1, <2>2, <2>3, Unlocking DEF Recheck
<1> QED BY <1>1, <1>2

\* The file that goes is the one this bus saw, which is over or was dropped.
LEMMA RemoveSeen ==
    ASSUME IInv, NEW b \in Bus, Remove(b)
    PROVE  file = seen[b] /\ file # 0 /\ file \in over \cup dropped
<1>1. CASE pc[b] = "Remove" BY <1>1 DEF IInv, Deals, Dealing, Removing
<1>2. CASE pc[b] = "Delete" BY <1>2 DEF IInv, Deals, Dealing, Removing
<1> QED BY <1>1, <1>2 DEF Remove

\* Nobody else is under the lock.
LEMMA Alone ==
    ASSUME IInv, NEW b \in Bus, pc[b] \in Locked, NEW c \in Bus, c # b
    PROVE  pc[c] \notin Locked
BY DEF IInv, Locking

LEMMA RemoveIInv == ASSUME IInv, NEW b \in Bus, Remove(b) PROVE IInv'
<1>1. /\ file' = 0 /\ UNCHANGED <<lock, seen>> /\ pc[b] \in {"Remove", "Delete"}
      /\ Go(b, IF pc[b] = "Remove" THEN "Expired" ELSE "Released")
      /\ UNCHANGED <<written, owner, issued, over, guard, journal, History>>
  BY RemoveSeen DEF Remove
<1>2. TypeOK' BY <1>1, BoundAssumption DEF IInv, TypeOK, Pc, Go, History
<1>3. Numbered' BY <1>1 DEF IInv, TypeOK, Numbered, History
<1>4. Deals' BY <1>1 DEF IInv, TypeOK, Deals, Dealing, Go
<1>5. Locking' BY <1>1 DEF IInv, TypeOK, Locking, Locked, Go
<1>6. Removing'
  <2>1. ASSUME NEW c \in Bus, c # b PROVE pc'[c] = pc[c] /\ pc[c] \notin Locked
    BY <1>1, <2>1, Alone DEF IInv, TypeOK, Go, Locked
  <2>2. pc'[b] \in {"Expired", "Released"} BY <1>1 DEF IInv, TypeOK, Go
  <2> QED BY <1>1, <2>1, <2>2 DEF IInv, Removing, Locked, History
<1> QED BY <1>2, <1>3, <1>4, <1>5, <1>6 DEF IInv

LEMMA JournalEndIInv == ASSUME IInv, NEW b \in Bus, JournalEnd(b) PROVE IInv'
<1>1. seen[b] \in Token /\ pc[b] \in Locked /\ pc[b] \in {"Expired", "Released"}
  BY BoundAssumption DEF IInv, JournalEnd, TypeOK, Deals, Dealing, Locked, Token
<1>2. journal' \in Seq([kind : {"Claimed", "Expired", "Released"}, token : Token])
  BY <1>1, JournalTyped DEF IInv, JournalEnd
<1>3. {"Create", "Idle"} \subseteq Pc \ (Dealing \cup Locked)
  BY DEF Pc, Dealing, Locked
<1>4. PICK l \in {"Create", "Idle"} : Go(b, l)
  BY DEF JournalEnd
<1> QED BY <1>1, <1>2, <1>3, <1>4, Unlocking DEF JournalEnd

LEMMA ReleaseIInv == ASSUME IInv, NEW b \in Bus, Release(b) PROVE IInv'
<1>1. guard[b] \in 1..issued /\ guard[b] \in Token
  BY BoundAssumption DEF IInv, Release, TypeOK, Numbered, Token
<1>2. TypeOK' BY <1>1, BoundAssumption DEF IInv, Release, TypeOK, Pc, Go, See, Claims
<1>3. Numbered'
  <2>1. UNCHANGED <<file, issued, over>> /\ dropped' \subseteq 1..issued /\ 0 <= issued
    <3>1. dropped' = dropped \cup {guard[b]} /\ UNCHANGED <<file, issued, over>>
      BY DEF Release, Claims
    <3>2. dropped \subseteq 1..issued /\ issued \in Nat
      BY BoundAssumption DEF IInv, TypeOK, Numbered
    <3>3. dropped' \subseteq 1..issued BY <1>1, <3>1, <3>2
    <3>4. 0 <= issued BY <3>2
    <3> QED BY <3>1, <3>3, <3>4
  <2>2. ASSUME NEW c \in Bus PROVE guard'[c] <= issued /\ seen'[c] <= issued
    <3>1. guard[c] <= issued /\ seen[c] <= issued /\ guard[b] <= issued
      BY DEF IInv, Numbered
    <3>2. CASE c = b BY <2>1, <3>1, <3>2 DEF IInv, Release, TypeOK, See
    <3>3. CASE c # b BY <3>1, <3>3 DEF IInv, Release, TypeOK, See
    <3> QED BY <3>2, <3>3
  <2> QED BY <2>1, <2>2 DEF IInv, Numbered
<1>4. Deals' BY DEF IInv, Release, TypeOK, Deals, Dealing, Go, See
<1>5. Locking' BY DEF IInv, Release, TypeOK, Locking, Locked, Go
<1>6. Removing' BY DEF IInv, Release, TypeOK, Removing, Go, See, Claims
<1> QED BY <1>2, <1>3, <1>4, <1>5, <1>6 DEF IInv

LEMMA DropLockIInv == ASSUME IInv, NEW b \in Bus, DropLock(b) PROVE IInv'
BY BusAssumption
   DEF IInv, DropLock, TypeOK, Numbered, Deals, Locking, Removing, Dealing, Locked, Pc,
       Go, Claims, History

LEMMA CompareIInv == ASSUME IInv, NEW b \in Bus, Compare(b) PROVE IInv'
<1>0. pc[b] \in Locked BY DEF Compare, Locked
<1>1. CASE file = seen[b] /\ file \in written
  BY <1>1, BusAssumption
     DEF IInv, Compare, TypeOK, Numbered, Deals, Locking, Removing, Dealing, Locked, Pc,
         Go, Claims, History
<1>2. CASE ~(file = seen[b] /\ file \in written)
  <2>1. "Idle" \in Pc \ (Dealing \cup Locked) BY DEF Pc, Dealing, Locked
  <2>2. journal' \in Seq([kind : {"Claimed", "Expired", "Released"}, token : Token])
    BY DEF Compare, IInv, TypeOK
  <2> QED BY <1>0, <1>2, <2>1, <2>2, Unlocking DEF Compare
<1> QED BY <1>1, <1>2

LEMMA TableIInv ==
    ASSUME IInv, NEW b \in Bus, NEW t \in {0, file},
           guard' = [guard EXCEPT ![b] = t],
           UNCHANGED <<Claims, lock, pc, seen, journal, History>>
    PROVE  IInv'
<1> USE DEF IInv, Claims, History
<1>1. TypeOK' BY BoundAssumption DEF TypeOK
<1>2. Numbered'
  <2>1. t <= issued BY DEF TypeOK, Numbered
  <2> QED BY <2>1 DEF TypeOK, Numbered
<1>3. Deals' /\ Locking' /\ Removing' BY DEF Deals, Locking, Removing
<1> QED BY <1>1, <1>2, <1>3

LEMMA CrashIInv == ASSUME IInv, NEW b \in Bus, Crash(b) PROVE IInv'
<1> USE DEF IInv, Crash, LockAfter, Go, See, Claims
<1>1. "Idle" \in Pc /\ "Idle" \notin Dealing \cup Locked BY DEF Pc, Dealing, Locked
<1>2. TypeOK'
  <2>1. pc[b] = "Released" => seen[b] \in Token
    BY BoundAssumption DEF TypeOK, Deals, Dealing, Token
  <2> QED BY <1>1, <2>1, BoundAssumption, BusAssumption DEF TypeOK
<1>3. Numbered' BY BoundAssumption DEF TypeOK, Numbered
<1>4. Deals' BY <1>1 DEF TypeOK, Deals
<1>5. Locking' BY <1>1, BusAssumption DEF TypeOK, Locking
<1>6. Removing' BY DEF TypeOK, Removing
<1> QED BY <1>2, <1>3, <1>4, <1>5, <1>6

LEMMA ExpireIInv == ASSUME IInv, Expire PROVE IInv'
BY BoundAssumption
   DEF IInv, Expire, TypeOK, Numbered, Deals, Locking, Removing, History, Token

LEMMA StepIInv == ASSUME IInv, [Next]_vars PROVE IInv'
<1>1. ASSUME NEW b \in Bus, Step(b) PROVE IInv'
  BY <1>1, CreateIInv, TakenIInv, WriteRecordIInv, TakeGuardIInv, InspectIInv,
     TryLockIInv, RecheckIInv, RemoveIInv, JournalEndIInv, DropLockIInv, CompareIInv
     DEF Step
<1>2. ASSUME NEW b \in Bus, Close(b) \/ Restore(b) PROVE IInv'
  BY <1>2, TableIInv DEF Close, Restore
<1>3. CASE UNCHANGED vars
  BY <1>3 DEF vars, IInv, TypeOK, Numbered, Deals, Locking, Removing
<1> QED BY <1>1, <1>2, <1>3, ClaimIInv, ReleaseIInv, CrashIInv, ExpireIInv DEF Next

LEMMA IInvHolds == Spec => []IInv
BY InitIInv, StepIInv, PTL DEF Spec

\* Every variable keeps to its type.
THEOREM BoardTypeCorrect == Spec => []TypeOK
<1>1. IInv => TypeOK BY DEF IInv
<1> QED BY <1>1, IInvHolds, PTL

------------------------------------------------------------------------------
(* The promise.                                                            *)

\* Steps of the board that the promise does not see.
LEMMA Unseen ==
    ASSUME NEW b \in Bus,
           \/ Claim(b) \/ Taken(b) \/ WriteRecord(b) \/ TakeGuard(b) \/ Inspect(b)
           \/ TryLock(b) \/ Recheck(b) \/ JournalEnd(b) \/ DropLock(b) \/ Compare(b)
           \/ Close(b) \/ Restore(b) \/ Crash(b)
    PROVE  UNCHANGED <<file, issued, over, dropped>>
BY DEF Claim, Taken, WriteRecord, TakeGuard, Inspect, TryLock, Recheck, JournalEnd,
       DropLock, Compare, Close, Restore, Crash, Claims, History

LEMMA StepKeepsLease ==
    ASSUME IInv, [Next]_vars
    PROVE  [Promise!Next]_<<file, issued, over, dropped>>
<1>1. ASSUME NEW b \in Bus, Create(b) PROVE Promise!Grant
  BY <1>1 DEF Create, Promise!Grant, History
<1>2. ASSUME NEW b \in Bus, Remove(b) PROVE Promise!Free
  BY <1>2, RemoveSeen DEF Remove, Promise!Free, History
<1>3. ASSUME NEW b \in Bus, Release(b) PROVE Promise!LetGo
  <2>1. guard[b] \in 1..issued
    BY <1>3 DEF IInv, Release, TypeOK, Numbered
  <2> QED BY <1>3, <2>1 DEF Release, Promise!LetGo, Claims
<1>4. ASSUME Expire PROVE Promise!Expire
  <2>1. file \in 1..issued BY <1>4 DEF IInv, Expire, TypeOK, Numbered
  <2> QED BY <1>4, <2>1 DEF Expire, Promise!Expire, History
<1>5. CASE UNCHANGED vars BY <1>5 DEF vars
<1> QED
  BY <1>1, <1>2, <1>3, <1>4, <1>5, Unseen DEF Next, Step, Promise!Next

\* The board implements its promise: at most one grant has the unit, and a
\* lease that is not over is ended by its holder's release and nothing else.
THEOREM BoardImplementsLease == Spec => KeepsLease
<1>1. Init => Promise!Init BY DEF Init, Promise!Init
<1> QED
  BY <1>1, StepKeepsLease, IInvHolds, PTL DEF Spec, KeepsLease, Promise!Spec
------------------------------------------------------------------------------
(* The journal.                                                            *)

\* A guard is in the table of the bus that was granted it, which is idle; who
\* has just been granted the unit has not let go of it; what was removed is not
\* what the file holds.
Owned ==
    \A b \in Bus :
        /\ guard[b] # 0 => pc[b] = "Idle" /\ owner[guard[b]] = b
        /\ pc[b] \in {"Write", "Granted"} =>
              /\ owner[seen[b]] = b /\ seen[b] \notin dropped
              /\ file = seen[b] \/ seen[b] \in over
        /\ pc[b] \in {"Expired", "Released"} => file # seen[b]

\* A grant that the journal says was claimed holds, or its end is known or on its
\* way to the journal; one that the journal says ended is not the one that holds.
Releasing == {seen[b] : b \in {c \in Bus : pc[c] = "Released"}}
Known(i) ==
    \/ journal[i].token \in {file} \cup over \cup lost \cup Releasing
    \/ \E j \in DOMAIN journal :
          i < j /\ journal[j].kind # "Claimed" /\ journal[j].token = journal[i].token
Told ==
    /\ \A j \in DOMAIN journal : journal[j].kind # "Claimed" =>
          journal[j].token # file /\ journal[j].token <= issued
    /\ \A i \in DOMAIN journal : journal[i].kind = "Claimed" => Known(i)

JInv == IInv /\ Owned /\ Told

\* What each line is.
LEMMA LineTyped ==
    ASSUME TypeOK
    PROVE  /\ Len(journal) \in Nat /\ DOMAIN journal = 1..Len(journal)
           /\ \A i \in DOMAIN journal :
                journal[i].kind \in {"Claimed", "Expired", "Released"} /\ journal[i].token \in Token
<1> DEFINE Line == [kind : {"Claimed", "Expired", "Released"}, token : Token]
<1>1. journal \in Seq(Line) BY DEF TypeOK
<1>2. Len(journal) \in Nat /\ DOMAIN journal = 1..Len(journal) BY <1>1
<1>3. \A i \in DOMAIN journal : journal[i] \in Line
  <2> HIDE DEF Line
  <2> QED BY <1>1, <1>2
<1> QED BY <1>2, <1>3

\* A step that journals nothing, and after which what was told is still true.
LEMMA ToldKept ==
    ASSUME TypeOK, Told, journal' = journal, issued' \in Nat, issued <= issued',
           \A t \in Token : t <= issued /\ t # file => t # file',
           ({file} \cup over \cup lost \cup Releasing) \cap Token
              \subseteq {file'} \cup over' \cup lost' \cup Releasing'
    PROVE  Told'
<1>0. \A t \in Token : t \in Nat /\ issued \in Nat BY BoundAssumption DEF TypeOK, Token
<1>1. ASSUME NEW j \in DOMAIN journal', journal'[j].kind # "Claimed"
      PROVE  journal'[j].token # file' /\ journal'[j].token <= issued'
  <2>1. journal[j].token \in Token /\ journal[j].token # file /\ journal[j].token <= issued
    BY <1>1, LineTyped DEF Told
  <2> QED BY <1>0, <2>1
<1>2. ASSUME NEW i \in DOMAIN journal', journal'[i].kind = "Claimed" PROVE Known(i)'
  <2>1. journal[i].token \in Token BY <1>2, LineTyped
  <2>2. Known(i) BY <1>2 DEF Told
  <2> QED BY <2>1, <2>2 DEF Known
<1> QED BY <1>1, <1>2 DEF Told

\* The journal is one line longer, and the lines before it stand.
LEMMA Written ==
    ASSUME TypeOK, NEW kind \in {"Claimed", "Expired", "Released"}, NEW t \in Token, Write(kind, t)
    PROVE  LET n == Len(journal) + 1 IN
           /\ DOMAIN journal' = 1..n /\ DOMAIN journal = 1..Len(journal) /\ Len(journal) \in Nat
           /\ journal'[n].kind = kind /\ journal'[n].token = t
           /\ \A i \in DOMAIN journal : journal'[i] = journal[i]
<1> DEFINE Line == [kind : {"Claimed", "Expired", "Released"}, token : Token]
           e == [kind |-> kind, token |-> t]
<1>1. journal \in Seq(Line) /\ e \in Line /\ journal' = Append(journal, e)
  BY DEF TypeOK, Write
<1>2. e.kind = kind /\ e.token = t OBVIOUS
<1> HIDE DEF Line, e
<1> QED BY <1>1, <1>2

LEMMA CreateJInv == ASSUME JInv, NEW b \in Bus, Create(b) PROVE Owned' /\ Told'
<1>1. /\ issued' = issued + 1 /\ file' = issued + 1 /\ file = 0 /\ pc[b] = "Create" /\ b \in Bus
      /\ owner' = [owner EXCEPT ![issued + 1] = b] /\ seen' = [seen EXCEPT ![b] = issued + 1]
      /\ pc' = [pc EXCEPT ![b] = "Write"] /\ issued + 1 \in Token /\ issued \in Nat
      /\ UNCHANGED <<written, over, lock, guard, journal, dropped, crashes, lost>>
  BY BoundAssumption DEF Create, Go, See, History, JInv, IInv, TypeOK, Token
<1>2. /\ \A c \in Bus : guard[c] <= issued /\ seen[c] <= issued /\ guard[c] \in Nat /\ seen[c] \in Nat
      /\ dropped \subseteq 1..issued
  BY BoundAssumption DEF JInv, IInv, Numbered, TypeOK
<1>3. \A c \in Bus \ {b} : pc'[c] = pc[c] /\ seen'[c] = seen[c]
  BY <1>1 DEF JInv, IInv, TypeOK
<1>4. pc'[b] = "Write" /\ seen'[b] = issued + 1 /\ owner'[issued + 1] = b
      /\ \A t \in Token : t # issued + 1 => owner'[t] = owner[t]
  BY <1>1 DEF JInv, IInv, TypeOK
<1>5. Owned'
  <2>1. guard[b] = 0 BY <1>1 DEF JInv, Owned
  <2>2. \A c \in Bus : guard[c] # 0 => guard[c] \in Token /\ guard[c] # issued + 1
    BY <1>1, <1>2, BoundAssumption DEF JInv, IInv, TypeOK, Token
  <2>3. \A c \in Bus : pc[c] \in {"Write", "Granted", "Expired", "Released"} =>
           seen[c] \in Token /\ seen[c] # issued + 1
    BY <1>1, <1>2, BoundAssumption DEF JInv, IInv, TypeOK, Token, Deals, Dealing
  <2>4. ASSUME NEW c \in Bus, c # b
        PROVE  /\ guard'[c] # 0 => pc'[c] = "Idle" /\ owner'[guard'[c]] = c
               /\ pc'[c] \in {"Write", "Granted"} =>
                     /\ owner'[seen'[c]] = c /\ seen'[c] \notin dropped'
                     /\ file' = seen'[c] \/ seen'[c] \in over'
               /\ pc'[c] \in {"Expired", "Released"} => file' # seen'[c]
    <3>1. pc[c] \in {"Write", "Granted"} => seen[c] \in over
      BY <1>1, <2>3, BoundAssumption DEF JInv, Owned, Token
    <3> QED BY <1>1, <1>3, <1>4, <2>2, <2>3, <2>4, <3>1 DEF JInv, Owned
  <2>5. issued + 1 \notin dropped BY <1>1, <1>2
  <2> QED BY <1>1, <1>4, <2>1, <2>4, <2>5 DEF Owned
<1>6. Told'
  <2>1. Releasing \subseteq Releasing'
    BY <1>1, <1>3 DEF Releasing
  <2>2. \A t \in Token : t # 0 /\ t \in Nat BY BoundAssumption DEF Token
  <2>3. /\ \A t \in Token : t <= issued /\ t # file => t # file'
        /\ issued' \in Nat /\ issued <= issued'
    BY <1>1, <2>2
  <2>4. TypeOK /\ Told BY DEF JInv, IInv
  <2> QED BY <1>1, <2>1, <2>2, <2>3, <2>4, ToldKept
<1> QED BY <1>5, <1>6

\* A step that moves one bus, which grants and releases nothing.
LEMMA Moving ==
    ASSUME JInv, NEW b \in Bus, NEW l \in Pc \ {"Write", "Expired", "Released"},
           pc[b] # "Idle", pc[b] # "Released", Go(b, l), l = "Granted" => pc[b] = "Write" /\ UNCHANGED seen,
           \A c \in Bus \ {b} : seen'[c] = seen[c],
           UNCHANGED <<file, owner, issued, over, guard, journal, History>>
    PROVE  Owned' /\ Told'
<1>1. pc'[b] = l /\ \A c \in Bus \ {b} : pc'[c] = pc[c] /\ seen'[c] = seen[c]
  BY DEF Go, JInv, IInv, TypeOK
<1>2. Owned'
  <2>1. guard[b] = 0 BY DEF JInv, Owned
  <2>2. l # "Write" /\ l # "Expired" /\ l # "Released" OBVIOUS
  <2>3. l = "Granted" => owner[seen[b]] = b /\ seen[b] \notin dropped /\ (file = seen[b] \/ seen[b] \in over)
    BY DEF JInv, Owned
  <2> QED BY <1>1, <2>1, <2>2, <2>3 DEF JInv, Owned, History
<1>3. Told'
  <2>1. Releasing \subseteq Releasing' BY <1>1 DEF Releasing
  <2>2. TypeOK /\ Told /\ issued \in Nat BY BoundAssumption DEF JInv, IInv, TypeOK
  <2> QED BY <2>1, <2>2, ToldKept DEF History
<1> QED BY <1>2, <1>3

LEMMA RemoveJInv == ASSUME JInv, NEW b \in Bus, Remove(b) PROVE Owned' /\ Told'
<1>0. IInv BY DEF JInv
<1>1. file = seen[b] /\ file # 0 /\ file \in over \cup dropped
  BY <1>0, RemoveSeen
<1>2. /\ file' = 0 /\ pc[b] \in {"Remove", "Delete"}
      /\ pc' = [pc EXCEPT ![b] = IF pc[b] = "Remove" THEN "Expired" ELSE "Released"]
      /\ UNCHANGED <<lock, seen, written, owner, issued, over, guard, journal, dropped, crashes, lost>>
  BY <1>1 DEF Remove, Go, History
<1>3. /\ pc'[b] = IF pc[b] = "Remove" THEN "Expired" ELSE "Released"
      /\ \A c \in Bus \ {b} : pc'[c] = pc[c]
  BY <1>2 DEF JInv, IInv, TypeOK
<1>4. pc[b] = "Remove" => file \in over
  BY <1>1 DEF JInv, IInv, Removing
<1>5. pc[b] = "Delete" => file \in dropped
  BY <1>1 DEF JInv, IInv, Removing
<1>6. Owned'
  <2>1. guard[b] = 0 /\ pc'[b] \notin {"Write", "Granted"} BY <1>2, <1>3 DEF JInv, Owned
  <2>2. \A c \in Bus : pc[c] \in {"Write", "Granted"} => seen[c] \in over
    BY <1>2, <1>4, <1>5 DEF JInv, Owned
  <2>3. \A c \in Bus : pc'[c] \in {"Expired", "Released"} => seen[c] # 0
    BY <1>1, <1>3 DEF JInv, IInv, Deals, Dealing
  <2> QED BY <1>2, <1>3, <2>1, <2>2, <2>3 DEF JInv, Owned
<1>7. Told'
  <2>1. Releasing \subseteq Releasing' BY <1>2, <1>3 DEF Releasing
  <2>2. file \in over \cup Releasing' BY <1>1, <1>2, <1>3, <1>4 DEF Releasing
  <2>3. \A t \in Token : t # 0 BY DEF Token
  <2>4. TypeOK /\ Told /\ issued \in Nat /\ issued <= issued BY BoundAssumption DEF JInv, IInv, TypeOK
  <2>5. {file} \cup over \cup lost \cup Releasing \subseteq {file'} \cup over' \cup lost' \cup Releasing'
    BY <1>2, <2>1, <2>2
  <2> QED BY <1>2, <2>3, <2>4, <2>5, ToldKept
<1> QED BY <1>6, <1>7

LEMMA TakeGuardJInv == ASSUME JInv, NEW b \in Bus, TakeGuard(b) PROVE Owned' /\ Told'
<1>1. /\ pc[b] = "Granted" /\ guard' = [guard EXCEPT ![b] = seen[b]]
      /\ pc' = [pc EXCEPT ![b] = "Idle"] /\ seen' = [seen EXCEPT ![b] = 0]
      /\ UNCHANGED <<file, written, owner, issued, over, lock, dropped, crashes, lost>>
      /\ Write("Claimed", seen[b]) /\ TypeOK
  BY DEF TakeGuard, Go, See, Claims, History, JInv, IInv
<1>2. /\ pc'[b] = "Idle" /\ guard'[b] = seen[b]
      /\ \A c \in Bus \ {b} : pc'[c] = pc[c] /\ seen'[c] = seen[c] /\ guard'[c] = guard[c]
  BY <1>1 DEF TypeOK
<1>3. /\ seen[b] \in Token /\ owner[seen[b]] = b /\ (file = seen[b] \/ seen[b] \in over)
  BY <1>1, BoundAssumption DEF JInv, IInv, TypeOK, Owned, Deals, Dealing, Token
<1>4. Owned'
  BY <1>1, <1>2, <1>3 DEF JInv, Owned
<1>5. Told'
  <2> DEFINE n == Len(journal) + 1
  <2>1. /\ DOMAIN journal' = 1..n /\ DOMAIN journal = 1..Len(journal) /\ Len(journal) \in Nat
        /\ journal'[n].kind = "Claimed" /\ journal'[n].token = seen[b]
        /\ \A i \in DOMAIN journal : journal'[i] = journal[i]
    BY <1>1, <1>3, Written
  <2>2. \A i \in DOMAIN journal' : i \in DOMAIN journal \/ i = n
    BY <2>1
  <2>3. Releasing \subseteq Releasing' BY <1>1, <1>2 DEF Releasing
  <2>4. \A i \in DOMAIN journal : Known(i) => Known(i)' \/ journal[i].token \in Releasing \ Releasing'
    BY <1>1, <2>1, <2>2 DEF Known
  <2>5. ASSUME NEW j \in DOMAIN journal', journal'[j].kind # "Claimed"
        PROVE  journal'[j].token # file' /\ journal'[j].token <= issued'
    <3>1. j \in DOMAIN journal /\ journal'[j] = journal[j] BY <2>1, <2>2, <2>5
    <3> QED BY <1>1, <2>5, <3>1 DEF JInv, Told
  <2>6. ASSUME NEW i \in DOMAIN journal', journal'[i].kind = "Claimed"
        PROVE  Known(i)'
    <3>1. CASE i = n BY <1>1, <1>3, <2>1, <3>1 DEF Known
    <3>2. CASE i \in DOMAIN journal
      <4>1. journal'[i] = journal[i] BY <2>1, <3>2
      <4> QED BY <2>3, <2>4, <2>6, <3>2, <4>1 DEF JInv, Told
    <3> QED BY <2>2, <3>1, <3>2
  <2> QED BY <2>5, <2>6 DEF Told
<1> QED BY <1>4, <1>5

LEMMA JournalEndJInv == ASSUME JInv, NEW b \in Bus, JournalEnd(b) PROVE Owned' /\ Told'
<1>1. /\ pc[b] \in {"Expired", "Released"}
      /\ pc' = [pc EXCEPT ![b] = IF pc[b] = "Expired" THEN "Create" ELSE "Idle"]
      /\ seen' = [seen EXCEPT ![b] = 0]
      /\ UNCHANGED <<file, written, owner, issued, over, guard, dropped, crashes, lost>>
      /\ Write(pc[b], seen[b]) /\ TypeOK
  BY DEF JournalEnd, Go, See, Claims, History, JInv, IInv
<1>2. /\ pc'[b] \in {"Create", "Idle"}
      /\ \A c \in Bus \ {b} : pc'[c] = pc[c] /\ seen'[c] = seen[c]
  BY <1>1 DEF TypeOK
<1>3. /\ seen[b] \in Token /\ seen[b] # file /\ seen[b] <= issued
  BY <1>1, BoundAssumption DEF JInv, IInv, TypeOK, Owned, Numbered, Deals, Dealing, Token
<1>4. Owned'
  <2>1. guard[b] = 0 BY <1>1 DEF JInv, Owned
  <2> QED BY <1>1, <1>2, <2>1 DEF JInv, Owned
<1>5. Told'
  <2> DEFINE n == Len(journal) + 1
  <2>1. /\ DOMAIN journal' = 1..n /\ DOMAIN journal = 1..Len(journal) /\ Len(journal) \in Nat
        /\ journal'[n].kind = pc[b] /\ journal'[n].token = seen[b]
        /\ \A i \in DOMAIN journal : journal'[i] = journal[i]
    BY <1>1, <1>3, Written
  <2>2. /\ \A i \in DOMAIN journal' : i \in DOMAIN journal \/ i = n
        /\ n \in DOMAIN journal' /\ \A i \in DOMAIN journal : i < n
    BY <2>1
  <2>3. Releasing \subseteq Releasing' \cup {journal'[n].token} /\ (Releasing \subseteq Releasing' \/ journal'[n].kind = "Released")
    BY <1>1, <1>2, <2>1 DEF Releasing
  <2>4. \A i \in DOMAIN journal : Known(i) => Known(i)' \/ journal[i].token \in Releasing \ Releasing'
    BY <1>1, <2>1, <2>2 DEF Known
  <2>5. ASSUME NEW j \in DOMAIN journal', journal'[j].kind # "Claimed"
        PROVE  journal'[j].token # file' /\ journal'[j].token <= issued'
    <3>1. CASE j = n BY <1>1, <1>3, <2>1, <3>1
    <3>2. CASE j \in DOMAIN journal
      <4>1. journal'[j] = journal[j] BY <2>1, <3>2
      <4> QED BY <1>1, <2>5, <3>2, <4>1 DEF JInv, Told
    <3> QED BY <2>2, <3>1, <3>2
  <2>6. ASSUME NEW i \in DOMAIN journal', journal'[i].kind = "Claimed"
        PROVE  Known(i)'
    <3>1. i \in DOMAIN journal BY <1>1, <2>1, <2>2, <2>6
    <3>2. journal'[i] = journal[i] /\ i < n BY <2>1, <2>2, <3>1
    <3>3. Known(i)
      BY <2>6, <3>1, <3>2 DEF JInv, Told
    <3>4. CASE journal[i].token \in Releasing \ Releasing'
      <4>1. journal'[n].kind = "Released" /\ journal'[n].token = journal'[i].token
        BY <2>3, <3>2, <3>4
      <4> QED BY <2>2, <3>2, <4>1 DEF Known
    <3> QED BY <2>4, <3>1, <3>3, <3>4
  <2> QED BY <2>5, <2>6 DEF Told
<1> QED BY <1>4, <1>5

LEMMA ReleaseJInv == ASSUME JInv, NEW b \in Bus, Release(b) PROVE Owned' /\ Told'
<1>1. /\ pc[b] = "Idle" /\ guard[b] # 0 /\ seen' = [seen EXCEPT ![b] = guard[b]]
      /\ guard' = [guard EXCEPT ![b] = 0] /\ dropped' = dropped \cup {guard[b]}
      /\ pc' = [pc EXCEPT ![b] = "Drop"]
      /\ UNCHANGED <<file, written, owner, issued, over, lock, journal, crashes, lost>>
  BY DEF Release, See, Go, Claims
<1>2. /\ pc'[b] = "Drop" /\ guard'[b] = 0
      /\ \A c \in Bus \ {b} : pc'[c] = pc[c] /\ seen'[c] = seen[c] /\ guard'[c] = guard[c]
  BY <1>1, BoundAssumption DEF JInv, IInv, TypeOK
<1>3. \A c \in Bus \ {b} : pc[c] \in {"Write", "Granted"} => seen[c] # guard[b]
  BY <1>1 DEF JInv, Owned
<1>4. Owned'
  BY <1>1, <1>2, <1>3 DEF JInv, Owned
<1>5. Told'
  <2>1. Releasing \subseteq Releasing' BY <1>1, <1>2 DEF Releasing
  <2>2. TypeOK /\ Told /\ issued \in Nat /\ issued <= issued BY BoundAssumption DEF JInv, IInv, TypeOK
  <2> QED BY <1>1, <2>1, <2>2, ToldKept
<1> QED BY <1>4, <1>5

\* Closing, restoring and expiring move nobody.
LEMMA StandingJInv ==
    ASSUME JInv, UNCHANGED <<file, owner, issued, pc, seen, journal, dropped, lost>>,
           over \subseteq over',
           \A c \in Bus : guard'[c] # 0 => pc[c] = "Idle" /\ owner[guard'[c]] = c
    PROVE  Owned' /\ Told'
<1>1. Owned' BY DEF JInv, Owned
<1>2. Told'
  <2>1. Releasing \subseteq Releasing' BY DEF Releasing
  <2>2. TypeOK /\ Told /\ issued \in Nat /\ issued <= issued BY BoundAssumption DEF JInv, IInv, TypeOK
  <2> QED BY <2>1, <2>2, ToldKept
<1> QED BY <1>1, <1>2

LEMMA CloseJInv == ASSUME JInv, NEW b \in Bus, Close(b) \/ Restore(b) PROVE Owned' /\ Told'
<1>1. UNCHANGED <<file, owner, issued, over, pc, seen, journal, dropped, lost>>
  BY DEF Close, Restore, Claims, History
<1>2. PICK t \in {0, file} : guard' = [guard EXCEPT ![b] = t] /\ pc[b] = "Idle" /\ (t # 0 => owner[t] = b)
  BY DEF Close, Restore
<1>3. guard'[b] = t /\ \A c \in Bus \ {b} : guard'[c] = guard[c]
  BY <1>2 DEF JInv, IInv, TypeOK
<1>4. \A c \in Bus : guard'[c] # 0 => pc[c] = "Idle" /\ owner[guard'[c]] = c
  BY <1>2, <1>3 DEF JInv, Owned
<1>5. over \subseteq over' BY <1>1
<1> QED BY <1>1, <1>4, <1>5, StandingJInv

LEMMA CrashJInv == ASSUME JInv, NEW b \in Bus, Crash(b) PROVE Owned' /\ Told'
<1>1. /\ guard' = [guard EXCEPT ![b] = 0] /\ pc' = [pc EXCEPT ![b] = "Idle"]
      /\ seen' = [seen EXCEPT ![b] = 0]
      /\ lost' = IF pc[b] = "Released" THEN lost \cup {seen[b]} ELSE lost
      /\ UNCHANGED <<file, written, owner, issued, over, journal, dropped>>
  BY DEF Crash, Go, See, Claims
<1>2. /\ pc'[b] = "Idle" /\ guard'[b] = 0
      /\ \A c \in Bus \ {b} : pc'[c] = pc[c] /\ seen'[c] = seen[c] /\ guard'[c] = guard[c]
  BY <1>1, BoundAssumption DEF JInv, IInv, TypeOK
<1>3. Owned'
  BY <1>1, <1>2 DEF JInv, Owned
<1>4. Told'
  <2>1. Releasing \subseteq Releasing' \cup lost' BY <1>1, <1>2 DEF Releasing
  <2>2. TypeOK /\ Told /\ issued \in Nat /\ issued <= issued BY BoundAssumption DEF JInv, IInv, TypeOK
  <2>3. lost \subseteq lost' BY <1>1
  <2> QED BY <1>1, <2>1, <2>2, <2>3, ToldKept
<1> QED BY <1>3, <1>4

\* Claiming, from an empty table.
LEMMA ClaimJInv == ASSUME JInv, NEW b \in Bus, Claim(b) PROVE Owned' /\ Told'
<1>1. /\ pc[b] = "Idle" /\ guard[b] = 0 /\ pc' = [pc EXCEPT ![b] = "Create"]
      /\ UNCHANGED <<file, written, owner, issued, over, lock, guard, seen, journal, dropped, crashes, lost>>
  BY DEF Claim, Go, Claims, History
<1>2. pc'[b] = "Create" /\ \A c \in Bus \ {b} : pc'[c] = pc[c]
  BY <1>1 DEF JInv, IInv, TypeOK
<1>3. Owned' BY <1>1, <1>2 DEF JInv, Owned
<1>4. Told'
  <2>1. Releasing \subseteq Releasing' BY <1>1, <1>2 DEF Releasing
  <2>2. TypeOK /\ Told /\ issued \in Nat /\ issued <= issued BY BoundAssumption DEF JInv, IInv, TypeOK
  <2> QED BY <1>1, <2>1, <2>2, ToldKept
<1> QED BY <1>3, <1>4

\* The steps that move one bus and are nothing else to the grants.
LEMMA MovesJInv ==
    ASSUME JInv, NEW b \in Bus,
           \/ Taken(b) \/ WriteRecord(b) \/ Inspect(b) \/ TryLock(b) \/ Recheck(b)
           \/ DropLock(b) \/ Compare(b)
    PROVE  Owned' /\ Told'
<1>1. CASE WriteRecord(b)
  <2>1. /\ pc[b] = "Write" /\ Go(b, "Granted") /\ "Granted" \in Pc \ {"Write", "Expired", "Released"}
        /\ UNCHANGED seen /\ UNCHANGED <<file, owner, issued, over, guard, journal, History>>
    BY <1>1 DEF WriteRecord, Pc
  <2>2. pc[b] # "Idle" /\ pc[b] # "Released" /\ \A c \in Bus \ {b} : seen'[c] = seen[c]
    BY <2>1
  <2> QED BY <2>1, <2>2, Moving
<1>2. CASE Taken(b) \/ Inspect(b) \/ TryLock(b) \/ Recheck(b) \/ DropLock(b) \/ Compare(b)
  <2>1. PICK l \in {"Inspect", "Create", "Reap", "Idle", "Recheck", "Remove", "Compare", "Delete"} :
          Go(b, l)
    BY <1>2 DEF Taken, Inspect, TryLock, Recheck, DropLock, Compare
  <2>2. pc[b] # "Idle" /\ pc[b] # "Released"
    BY <1>2 DEF Taken, Inspect, TryLock, Recheck, DropLock, Compare
  <2>3. UNCHANGED seen \/ \E t : seen' = [seen EXCEPT ![b] = t]
    BY <1>2 DEF Taken, Inspect, TryLock, Recheck, DropLock, Compare, See
  <2>4. \A c \in Bus \ {b} : seen'[c] = seen[c]
    BY <2>3 DEF JInv, IInv, TypeOK
  <2>5. UNCHANGED <<file, owner, issued, over, guard, journal, History>>
    BY <1>2 DEF Taken, Inspect, TryLock, Recheck, DropLock, Compare, Claims
  <2>6. l \in Pc \ {"Write", "Expired", "Released"} /\ l # "Granted"
    BY DEF Pc
  <2> QED BY <2>1, <2>2, <2>4, <2>5, <2>6, Moving
<1> QED BY <1>1, <1>2

LEMMA StepJInv == ASSUME JInv, [Next]_vars PROVE JInv'
<1>0. IInv' BY StepIInv DEF JInv
<1>1. ASSUME NEW b \in Bus, Step(b) PROVE Owned' /\ Told'
  BY <1>1, CreateJInv, TakeGuardJInv, RemoveJInv, JournalEndJInv, MovesJInv DEF Step
<1>2. ASSUME NEW b \in Bus, Claim(b) \/ Release(b) \/ Close(b) \/ Restore(b) \/ Crash(b)
      PROVE  Owned' /\ Told'
  BY <1>2, ClaimJInv, ReleaseJInv, CloseJInv, CrashJInv
<1>3. ASSUME Expire \/ UNCHANGED vars PROVE Owned' /\ Told'
  <2>1. UNCHANGED <<file, owner, issued, pc, seen, journal, dropped, lost>> /\ UNCHANGED guard
    BY <1>3 DEF Expire, vars, History
  <2>2. over \subseteq over'
    BY <1>3 DEF Expire, vars
  <2>3. \A c \in Bus : guard'[c] # 0 => pc[c] = "Idle" /\ owner[guard'[c]] = c
    BY <2>1 DEF JInv, Owned
  <2> QED BY <2>1, <2>2, <2>3, StandingJInv
<1>4. Next => Expire \/ \E b \in Bus : \/ Step(b) \/ Claim(b) \/ Release(b)
                                       \/ Close(b) \/ Restore(b) \/ Crash(b)
  BY DEF Next
<1>5. Owned' /\ Told'
  BY <1>1, <1>2, <1>3, <1>4
<1> QED BY <1>0, <1>5 DEF JInv

LEMMA InitJInv == Init => JInv
BY InitIInv DEF Init, JInv, Owned, Told

LEMMA JInvHolds == Spec => []JInv
BY InitJInv, StepJInv, PTL DEF Spec

\* claims_view tells the truth: an acquisition the journal calls ended is not the one
\* that has the unit, and one it calls held has it, is being released, has run out, or
\* had its end lost with a process that died, whatever the buses race for.
THEOREM JournalTrueHolds == Spec => []JournalTrue
<1>1. ASSUME JInv PROVE JournalTrue
  <2>1. \A i \in DOMAIN journal : journal[i].kind \in {"Claimed", "Expired", "Released"}
        /\ journal[i].token \in Token
    BY <1>1, LineTyped DEF JInv, IInv
  <2>2. file \notin EndedInJournal
    BY <1>1 DEF JInv, Told, EndedInJournal
  <2>3. ASSUME NEW t \in HeldInJournal, t \notin over \cup lost
        PROVE  file = t \/ \E b \in Bus : pc[b] = "Released" /\ seen[b] = t
    <3>1. PICK i \in DOMAIN journal : journal[i] = [kind |-> "Claimed", token |-> t]
      BY DEF HeldInJournal
    <3>2. journal[i].kind = "Claimed" /\ journal[i].token = t
      BY <3>1
    <3>3. t \in Token
      BY <2>1, <3>2
    <3>4. ~\E j \in DOMAIN journal :
             i < j /\ journal[j].kind # "Claimed" /\ journal[j].token = t
      BY <3>1, <3>3 DEF HeldInJournal, EndedInJournal
    <3> QED BY <1>1, <2>3, <3>2, <3>4 DEF JInv, Told, Known, Releasing
  <2> QED BY <2>2, <2>3 DEF JournalTrue
<1>2. JInv => JournalTrue BY <1>1
<1> QED BY <1>2, JInvHolds, PTL
==============================================================================
