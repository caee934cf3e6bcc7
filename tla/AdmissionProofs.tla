-------------------------- MODULE AdmissionProofs ---------------------------
(***************************************************************************)
(* Proofs about admission, for every forest of runs and every ceiling: no  *)
(* permit is lost or made, a lent slot is worked on by one child of a run  *)
(* that still holds its own, and, as long as no child is restored before   *)
(* its parent is admitted, waiting runs never stand still.                 *)
(***************************************************************************)
EXTENDS Admission, FiniteSetTheorems, TLAPS

Early == {"Idle", "Started", "Assembled", "Queued"}
Holding == {"Admitted", "Running", "Joining", "Ending"}

Holders == {r \in Run : holds[r] = Global}

\* The phase says whether a run holds a permit, and has its lend registered.
PhaseSays ==
    \A r \in Run : /\ holds[r] # None <=> phase[r] \in Holding
                   /\ r \in lends <=> holds[r] # None

\* A run only ever found its parent's lend, after its parent was admitted, and
\* its permit is that lend's or the ceiling's.
OwnLend ==
    \A r \in Run : /\ lend[r] \in {None, Parent[r]}
                   /\ lend[r] # None => phase[lend[r]] \notin Early
                   /\ holds[r] \in {None, Global, lend[r]}

\* A lend is one permit, and while its run is admitted it is free or borrowed.
OneBorrower ==
    \A p \in Run : /\ free[p] \in {0, 1}
                   /\ \A c \in Run : holds[c] = p => free[p] = 0
                   /\ \A c, d \in Run : holds[c] = p /\ holds[d] = p => c = d
                   /\ phase[p] \in Holding /\ (\A c \in Run : holds[c] # p)
                        => free[p] = 1

\* A child starts after its parent was assembled and has ended before it.
Family ==
    \A c \in Run : Parent[c] # None =>
        /\ phase[c] # "Idle" => phase[Parent[c]] \notin {"Idle", "Started"}
        /\ phase[c] \notin {"Idle", "Ended"} => phase[Parent[c]] # "Ended"
        /\ phase[c] = "Cut" => phase[Parent[c]] \in {"Ending", "Cut"}

\* A child that was not restored started under an admitted parent, so that it
\* found its lend.
Fed ==
    \A c \in Run \ Restored : Parent[c] # None =>
        /\ phase[c] # "Idle" => phase[Parent[c]] \notin Early
        /\ phase[c] = "Queued" /\ holds[Parent[c]] # None => lend[c] = Parent[c]

Inv == /\ TypeOK /\ CeilingKept
       /\ PhaseSays /\ OwnLend /\ OneBorrower /\ Family /\ Fed

USE RunAssumption, LimitAssumption

------------------------------------------------------------------------------
\* Facts of the forest.
LEMMA ParentTyping ==
    ASSUME NEW r \in Run
    PROVE  Parent[r] \in Run \cup {None} /\ Parent[r] # Global
OBVIOUS

LEMMA NotOwnParent ==
    ASSUME NEW r \in Run
    PROVE  Parent[r] # r
<1>1. PICK x \in {r} : Children(x) \cap {r} = {}
    <2>1. {r} \in SUBSET Run /\ {r} # {}
        OBVIOUS
    <2> QED BY <2>1
<1> QED BY <1>1 DEF Children

------------------------------------------------------------------------------
LEMMA InitInv == Init => Inv
<1> SUFFICES ASSUME Init PROVE Inv
    OBVIOUS
<1>1. TypeOK
    BY DEF Init, TypeOK, Phase, Semaphore
<1>2. CeilingKept
    <2>1. {r \in Run : holds[r] = Global} = {}
        BY DEF Init
    <2>2. free[Global] = Ceiling
        BY DEF Init, Semaphore
    <2>3. Cardinality({r \in Run : holds[r] = Global}) = 0
        BY <2>1, FS_EmptySet
    <2> QED BY <2>2, <2>3 DEF CeilingKept
<1>3. PhaseSays /\ OwnLend /\ OneBorrower /\ Family /\ Fed
    <2>1. \A r \in Run : /\ phase[r] = "Idle" /\ holds[r] = None /\ lend[r] = None
                         /\ free[r] = 0 /\ r \notin lends
        BY DEF Init, Semaphore
    <2>2. PhaseSays /\ OwnLend
        BY <2>1 DEF PhaseSays, OwnLend, Holding
    <2>3. OneBorrower
        BY <2>1 DEF OneBorrower, Holding
    <2>4. Family /\ Fed
        BY <2>1, ParentTyping DEF Family, Fed
    <2> QED BY <2>2, <2>3, <2>4
<1> QED BY <1>1, <1>2, <1>3 DEF Inv

\* A step that changes only the phase of a run, and not whether it holds a
\* permit, keeps everything but what relates it to its parent and children.
LEMMA QuietStep ==
    ASSUME Inv, Unadmitted,
           NEW r \in Run, NEW p \in Phase, Move(r, p),
           phase[r] \in Holding <=> p \in Holding,
           phase[r] \notin Early => p \notin Early,
           p # "Queued", Family', Fed'
    PROVE  Inv'
<1>1. phase' = [phase EXCEPT ![r] = p] /\ phase'[r] = p
    BY DEF Move, Inv, TypeOK
<1>2. TypeOK'
    BY <1>1 DEF Inv, TypeOK, Unadmitted
<1>3. CeilingKept'
    BY DEF Inv, CeilingKept, Unadmitted
<1>4. PhaseSays'
    BY <1>1 DEF Inv, PhaseSays, Unadmitted, TypeOK
<1>5. OwnLend'
    BY <1>1 DEF Inv, OwnLend, Unadmitted, TypeOK
<1>6. OneBorrower'
    BY <1>1 DEF Inv, OneBorrower, Unadmitted, TypeOK
<1> QED BY <1>2, <1>3, <1>4, <1>5, <1>6 DEF Inv

\* What the move of a run from one phase to another must say of its parent
\* and of its children for the family to stay in order.
LEMMA FamilyStep ==
    ASSUME Inv, NEW r \in Run, NEW p \in Phase \ {"Idle"}, Move(r, p),
           Parent[r] # None /\ phase[r] = "Idle" =>
               phase[Parent[r]] \notin {"Idle", "Started", "Ended"},
           phase[r] # "Ended",
           p = "Cut" => BeingStopped(r),
           p = "Started" => phase[r] = "Idle",
           p \notin {"Ending", "Cut"} /\ phase[r] \in {"Ending", "Cut"} => Settled(r),
           p = "Ended" => Settled(r)
    PROVE  Family'
<1> SUFFICES ASSUME NEW c \in Run, Parent[c] # None
             PROVE  /\ phase'[c] # "Idle" => phase'[Parent[c]] \notin {"Idle", "Started"}
                    /\ phase'[c] \notin {"Idle", "Ended"} => phase'[Parent[c]] # "Ended"
                    /\ phase'[c] = "Cut" => phase'[Parent[c]] \in {"Ending", "Cut"}
    BY DEF Family
<1>1. \A x \in Run : phase'[x] = IF x = r THEN p ELSE phase[x]
    BY DEF Move, Inv, TypeOK
<1>2. Parent[c] \in Run /\ Parent[c] # c
    BY NotOwnParent
<1>3. Family
    BY DEF Inv
<1>4. CASE c = r
    BY <1>1, <1>2, <1>3, <1>4 DEF Family, BeingStopped
<1>5. CASE Parent[c] = r
    <2>1. c # r /\ c \in Children(r)
        BY <1>2, <1>5 DEF Children
    <2> QED BY <1>1, <1>2, <1>3, <1>5, <2>1 DEF Family, Settled
<1>6. CASE c # r /\ Parent[c] # r
    BY <1>1, <1>2, <1>3, <1>6 DEF Family
<1> QED BY <1>4, <1>5, <1>6

\* The same for what a child finds of its parent's lend.
LEMMA FedStep ==
    ASSUME Inv, NEW r \in Run, NEW p \in Phase \ {"Idle"}, Move(r, p),
           Parent[r] # None /\ r \notin Restored /\ phase[r] = "Idle" =>
               phase[Parent[r]] \notin Early,
           phase[r] \notin Early => p \notin Early,
           \A c \in Run : Parent[c] # None /\ phase'[c] = "Queued"
               /\ c \notin Restored /\ holds'[Parent[c]] # None => lend'[c] = Parent[c]
    PROVE  Fed'
<1> SUFFICES ASSUME NEW c \in Run \ Restored, Parent[c] # None, phase'[c] # "Idle"
             PROVE  phase'[Parent[c]] \notin Early
    BY DEF Fed
<1>1. \A x \in Run : phase'[x] = IF x = r THEN p ELSE phase[x]
    BY DEF Move, Inv, TypeOK
<1>2. Parent[c] \in Run /\ Parent[c] # c
    BY NotOwnParent
<1>3. phase[c] # "Idle" => phase[Parent[c]] \notin Early
    BY DEF Inv, Fed
<1> QED BY <1>1, <1>2, <1>3

------------------------------------------------------------------------------
\* A run is given the permit of a semaphore that has one.
LEMMA TakeStep ==
    ASSUME Inv, NEW r \in Run, phase[r] \in {"Assembled", "Queued"},
           NEW l \in {None, Parent[r]}, l # None => phase[l] \notin Early,
           NEW s \in Sources(r, l), free[s] > 0, Take(r, s),
           lend' = [lend EXCEPT ![r] = l], ahead' \in [Run -> SUBSET Run]
    PROVE  Inv'
<1>1. /\ \A x \in Run : phase'[x] = IF x = r THEN "Admitted" ELSE phase[x]
      /\ \A x \in Run : holds'[x] = IF x = r THEN s ELSE holds[x]
      /\ \A x \in Run : lend'[x] = IF x = r THEN l ELSE lend[x]
      /\ lends' = lends \cup {r}
      /\ phase[r] \in Early /\ holds[r] = None
    BY DEF Take, Move, Inv, TypeOK, PhaseSays, Early, Holding
<1>2. s \in Semaphore /\ s # None /\ s # r /\ l \in Run \cup {None}
    BY NotOwnParent DEF Sources, Semaphore
<1>3. \A x \in Semaphore : free'[x] = IF x = r THEN 1 ELSE IF x = s THEN free[x] - 1 ELSE free[x]
    BY <1>2 DEF Take, Inv, TypeOK, Semaphore
<1>4. TypeOK'
    <2>1. free[s] - 1 \in Nat
        BY <1>2 DEF Inv, TypeOK
    <2>2. free' \in [Semaphore -> Nat]
        BY <1>2, <2>1 DEF Take, Inv, TypeOK, Semaphore
    <2> QED BY <1>2, <2>2 DEF Take, Move, Inv, TypeOK, Phase
<1>5. CeilingKept'
    <2>1. Global \in Semaphore /\ Global # r /\ free[Global] \in Nat
        BY DEF Semaphore, Inv, TypeOK
    <2>2. IsFiniteSet(Holders) /\ r \notin Holders
        BY <1>1, FS_Subset DEF Holders
    <2>3. CASE s = Global
        <3>1. Holders' = Holders \cup {r}
            BY <1>1, <2>3 DEF Holders
        <3>2. Cardinality(Holders') = Cardinality(Holders) + 1
            BY <2>2, <3>1, FS_AddElement
        <3>3. Cardinality(Holders) \in Nat
            BY <2>2, FS_CardinalityType
        <3> QED BY <1>3, <2>1, <2>3, <3>2, <3>3 DEF Inv, CeilingKept, Holders
    <2>4. CASE s # Global
        <3>1. Holders' = Holders
            BY <1>1, <2>4 DEF Holders
        <3> QED BY <1>3, <2>1, <2>4, <3>1 DEF Inv, CeilingKept, Holders
    <2> QED BY <2>3, <2>4
<1>6. PhaseSays'
    BY <1>1, <1>2 DEF Inv, PhaseSays, Holding, TypeOK
<1>7. OwnLend'
    <2>1. \A x \in Run : lend[x] \in Run \cup {None}
        BY DEF Inv, TypeOK
    <2>2. s \in {Global, l}
        BY DEF Sources
    <2> QED BY <1>1, <1>2, <2>1, <2>2 DEF Inv, OwnLend, Early
<1>8. OneBorrower'
    <2>1. \A c \in Run : holds[c] # r
        BY <1>1 DEF Inv, OwnLend, TypeOK
    <2>2. s \in Run => \A c \in Run : holds[c] # s
        BY <1>2 DEF Inv, OneBorrower
    <2>3. s \in Run => free[s] - 1 = 0
        BY <1>2, <2>2 DEF Inv, OneBorrower
    <2> QED BY <1>1, <1>2, <1>3, <2>1, <2>2, <2>3 DEF Inv, OneBorrower, Semaphore
<1>9. Family'
    BY <1>1, FamilyStep DEF Take, Early, Phase
<1>10. Fed'
    <2>1. \A c \in Run : Parent[c] # None /\ phase'[c] = "Queued"
               /\ c \notin Restored /\ holds'[Parent[c]] # None => lend'[c] = Parent[c]
        <3> SUFFICES ASSUME NEW c \in Run, Parent[c] # None, phase'[c] = "Queued",
                            c \notin Restored, holds'[Parent[c]] # None
                     PROVE  lend'[c] = Parent[c]
            OBVIOUS
        <3>1. c # r /\ phase[c] = "Queued" /\ Parent[c] \in Run
            BY <1>1
        <3>2. Parent[c] # r
            BY <1>1, <3>1 DEF Inv, Fed
        <3> QED BY <1>1, <3>1, <3>2 DEF Inv, Fed
    <2> QED BY <1>1, <2>1, FedStep DEF Take, Early, Phase
<1> QED BY <1>4, <1>5, <1>6, <1>7, <1>8, <1>9, <1>10 DEF Inv

\* A run gives its permit back.
LEMMA ReleaseStep ==
    ASSUME Inv, NEW r \in Run, phase[r] \in Holding, Release(r),
           NEW p \in {"Cut", "Ended"}, Move(r, p), Family', Fed'
    PROVE  Inv'
<1> DEFINE s == holds[r]
<1>1. /\ \A x \in Run : phase'[x] = IF x = r THEN p ELSE phase[x]
      /\ \A x \in Run : holds'[x] = IF x = r THEN None ELSE holds[x]
      /\ lends' = lends \ {r} /\ lend' = lend /\ ahead' = ahead
    BY DEF Release, Move, Inv, TypeOK
<1>2. s \in Semaphore /\ s # None /\ s # r
    BY NotOwnParent DEF Inv, TypeOK, PhaseSays, OwnLend, Semaphore
<1>3. \A x \in Semaphore : free'[x] = IF x = s THEN free[x] + 1 ELSE free[x]
    BY <1>2 DEF Release, Inv, TypeOK
<1>4. TypeOK'
    <2>1. free' \in [Semaphore -> Nat]
        BY <1>2 DEF Release, Inv, TypeOK
    <2> QED BY <2>1 DEF Release, Move, Inv, TypeOK, Phase
<1>5. CeilingKept'
    <2>1. Global \in Semaphore /\ free[Global] \in Nat
        BY DEF Semaphore, Inv, TypeOK
    <2>2. IsFiniteSet(Holders)
        BY FS_Subset DEF Holders
    <2>3. CASE s = Global
        <3>1. Holders' = Holders \ {r} /\ r \in Holders
            BY <1>1, <2>3 DEF Holders
        <3>2. Cardinality(Holders') = Cardinality(Holders) - 1
            BY <2>2, <3>1, FS_RemoveElement
        <3>3. Cardinality(Holders) \in Nat
            BY <2>2, FS_CardinalityType
        <3> QED BY <1>3, <2>1, <2>3, <3>2, <3>3 DEF Inv, CeilingKept, Holders
    <2>4. CASE s # Global
        <3>1. Holders' = Holders
            BY <1>1, <2>4 DEF Holders
        <3> QED BY <1>3, <2>1, <2>4, <3>1 DEF Inv, CeilingKept, Holders
    <2> QED BY <2>3, <2>4
<1>6. PhaseSays'
    BY <1>1 DEF Inv, PhaseSays, Holding, TypeOK
<1>7. OwnLend'
    BY <1>1 DEF Inv, OwnLend, Early
<1>8. OneBorrower'
    <2>1. s \in Run => free[s] = 0 /\ \A c \in Run : holds'[c] # s
        BY <1>1 DEF Inv, OneBorrower
    <2>2. p \notin Holding
        BY DEF Holding
    <2> QED BY <1>1, <1>2, <1>3, <2>1, <2>2 DEF Inv, OneBorrower, Semaphore
<1> QED BY <1>4, <1>5, <1>6, <1>7, <1>8 DEF Inv

LEMMA SettledIsFree ==
    ASSUME NEW r \in Run, Settled(r), NEW c \in Run, Parent[c] = r
    PROVE  phase[c] \in {"Idle", "Ended"}
BY DEF Settled, Children

\* One step per action.
LEMMA NextInv == Inv /\ [Next]_vars => Inv'
<1> SUFFICES ASSUME Inv, [Next]_vars PROVE Inv'
    OBVIOUS
<1> USE DEF Early, Holding
<1>1. CASE UNCHANGED vars
    BY <1>1 DEF vars, Inv, TypeOK, CeilingKept, PhaseSays, OwnLend, OneBorrower,
                Family, Fed
<1>2. ASSUME NEW r \in Run, Next, Start(r) \/ Join(r) \/ Step(r)
      PROVE  Inv'
    <2>0. /\ phase \in [Run -> Phase] /\ \A x \in Run : phase[x] \in Phase
          /\ \A x \in Run : holds[x] # None <=> phase[x] \in Holding
        BY DEF Inv, TypeOK, PhaseSays
    <2> DEFINE Same(p) == \A x \in Run : phase'[x] = IF x = r THEN p ELSE phase[x]
    <2>q. ASSUME NEW p \in Phase \ {"Queued"}, Move(r, p), Unadmitted
          PROVE  \A c \in Run : Parent[c] # None /\ phase'[c] = "Queued"
               /\ c \notin Restored /\ holds'[Parent[c]] # None => lend'[c] = Parent[c]
        BY <2>0, <2>q DEF Move, Unadmitted, Inv, Fed
    <2>1. CASE Start(r)
        <3>1. Move(r, "Started") /\ Unadmitted /\ phase[r] = "Idle"
            BY <2>1 DEF Start
        <3>2. Family'
            BY <2>1, <3>1, FamilyStep DEF Start, Phase
        <3>3. Fed'
            BY <2>1, <2>q, <3>1, FedStep DEF Start, Phase
        <3> QED BY <3>1, <3>2, <3>3, QuietStep DEF Phase
    <2>2. CASE Assemble(r)
        <3>1. Move(r, "Assembled") /\ Unadmitted /\ phase[r] = "Started"
            BY <2>2 DEF Assemble
        <3>2. Family'
            BY <3>1, FamilyStep DEF Phase
        <3>3. Fed'
            BY <2>q, <3>1, FedStep DEF Phase
        <3> QED BY <3>1, <3>2, <3>3, QuietStep DEF Phase
    <2>3. CASE NeverRuns(r)
        <3>1. Move(r, "Ended") /\ Unadmitted /\ phase[r] \in {"Started", "Assembled"}
            BY <2>3 DEF NeverRuns
        <3>2. Settled(r)
            <4>1. CASE phase[r] = "Assembled"
                BY <2>3, <4>1 DEF NeverRuns
            <4>2. CASE phase[r] = "Started"
                BY <4>2 DEF Settled, Children, Inv, Family
            <4> QED BY <3>1, <4>1, <4>2
        <3>3. Family'
            BY <3>1, <3>2, FamilyStep DEF Phase
        <3>4. Fed'
            BY <2>q, <3>1, FedStep DEF Phase
        <3> QED BY <3>1, <3>3, <3>4, QuietStep DEF Phase
    <2>4. CASE Ask(r)
        <3> DEFINE l == LendOfParent(r)
        <3>1. /\ phase[r] = "Assembled" /\ lend' = [lend EXCEPT ![r] = l]
              /\ ahead' \in [Run -> SUBSET Run]
            BY <2>4 DEF Ask, Inv, TypeOK
        <3>2. l \in {None, Parent[r]} /\ l \in Run \cup {None}
            BY DEF LendOfParent
        <3>3. l # None => phase[l] \in Holding
            BY <2>0, <3>2 DEF LendOfParent, Inv, PhaseSays
        <3>4. ASSUME NEW s \in Sources(r, l), free[s] > 0, Take(r, s)
              PROVE  Inv'
            BY <3>1, <3>2, <3>3, <3>4, TakeStep
        <3>5. CASE Move(r, "Queued") /\ UNCHANGED <<holds, free, lends>>
            <4>1. /\ Same("Queued") /\ holds' = holds /\ free' = free /\ lends' = lends
                  /\ \A x \in Run : lend'[x] = IF x = r THEN l ELSE lend[x]
                BY <2>0, <3>1, <3>5 DEF Move, Inv, TypeOK
            <4>2. TypeOK'
                BY <3>1, <3>2, <3>5 DEF Move, Inv, TypeOK, Phase
            <4>3. CeilingKept' /\ PhaseSays'
                BY <3>1, <4>1 DEF Inv, CeilingKept, PhaseSays
            <4>4. OwnLend'
                <5>1. holds[r] = None
                    BY <2>0, <3>1
                <5>2. \A x \in Run : lend[x] \in Run \cup {None}
                    BY DEF Inv, TypeOK
                <5> QED BY <3>1, <3>2, <3>3, <4>1, <5>1, <5>2 DEF Inv, OwnLend
            <4>5. OneBorrower'
                BY <3>1, <4>1 DEF Inv, OneBorrower
            <4>6. Family'
                BY <3>1, <3>5, FamilyStep DEF Phase
            <4>7. Fed'
                <5>1. Parent[r] \in Run /\ holds[Parent[r]] # None => l = Parent[r]
                    BY DEF LendOfParent, Inv, PhaseSays
                <5>2. \A c \in Run : Parent[c] # None /\ phase'[c] = "Queued"
                         /\ c \notin Restored /\ holds'[Parent[c]] # None => lend'[c] = Parent[c]
                    BY <3>1, <4>1, <5>1 DEF Inv, Fed
                <5> QED BY <3>1, <3>5, <5>2, FedStep DEF Phase
            <4> QED BY <4>2, <4>3, <4>4, <4>5, <4>6, <4>7 DEF Inv
        <3> QED BY <2>4, <3>4, <3>5 DEF Ask, Sources
    <2>5. CASE Grant(r)
        <3>1. PICK s \in Sources(r, lend[r]) : free[s] > 0 /\ Take(r, s)
            BY <2>5 DEF Grant
        <3>2. lend' = [lend EXCEPT ![r] = lend[r]]
            BY <2>5 DEF Grant, Inv, TypeOK
        <3>3. lend[r] \in {None, Parent[r]} /\ (lend[r] # None => phase[lend[r]] \notin Early)
            BY DEF Inv, OwnLend
        <3>4. ahead' \in [Run -> SUBSET Run]
            BY <2>5 DEF Grant, Inv, TypeOK
        <3> QED BY <2>5, <3>1, <3>2, <3>3, <3>4, TakeStep DEF Grant
    <2>6. CASE MemoryFound(r)
        <3>1. Move(r, "Running") /\ Unadmitted /\ phase[r] = "Admitted"
            BY <2>6 DEF MemoryFound
        <3>2. Family'
            BY <3>1, FamilyStep DEF Phase
        <3>3. Fed'
            BY <2>q, <3>1, FedStep DEF Phase
        <3> QED BY <3>1, <3>2, <3>3, QuietStep DEF Phase
    <2>7. CASE Join(r)
        <3>1. Move(r, "Joining") /\ Unadmitted /\ phase[r] = "Running"
            BY <2>7 DEF Join
        <3>2. Family'
            BY <3>1, FamilyStep DEF Phase
        <3>3. Fed'
            BY <2>q, <3>1, FedStep DEF Phase
        <3> QED BY <3>1, <3>2, <3>3, QuietStep DEF Phase
    <2>8. CASE Joined(r)
        <3>1. Move(r, "Running") /\ Unadmitted /\ phase[r] = "Joining"
            BY <2>8 DEF Joined
        <3>2. Family'
            BY <3>1, FamilyStep DEF Phase
        <3>3. Fed'
            BY <2>q, <3>1, FedStep DEF Phase
        <3> QED BY <3>1, <3>2, <3>3, QuietStep DEF Phase
    <2>9. CASE Finish(r)
        <3>1. Move(r, "Ending") /\ Unadmitted /\ phase[r] = "Running"
            BY <2>9 DEF Finish
        <3>2. Family'
            BY <3>1, FamilyStep DEF Phase
        <3>3. Fed'
            BY <2>q, <3>1, FedStep DEF Phase
        <3> QED BY <3>1, <3>2, <3>3, QuietStep DEF Phase
    <2>r. ASSUME NEW p \in {"Cut", "Ended"}, Move(r, p), Release(r), Family',
                 phase[r] \in Holding
          PROVE  Inv'
        <3>1. \A c \in Run : Parent[c] # None /\ phase'[c] = "Queued"
                 /\ c \notin Restored /\ holds'[Parent[c]] # None => lend'[c] = Parent[c]
            BY <2>0, <2>r DEF Move, Release, Inv, Fed, TypeOK
        <3>2. Fed'
            BY <2>r, <3>1, FedStep DEF Phase
        <3> QED BY <2>r, <3>2, ReleaseStep
    <2>10. CASE End(r)
        <3>1. Family'
            BY <2>10, FamilyStep DEF End, Phase
        <3> QED BY <2>10, <2>r, <3>1 DEF End
    <2>11. CASE Abort(r)
        <3>1. Family'
            BY <2>11, FamilyStep DEF Abort, Phase, Busy
        <3>2. CASE holds[r] = None
            <4>1. Move(r, "Cut") /\ Unadmitted /\ phase[r] \notin Holding
                BY <2>0, <2>11, <3>2 DEF Abort
            <4>2. phase[r] # "Idle"
                BY <2>11 DEF Abort, Busy
            <4>3. Fed'
                BY <2>q, <4>1, <4>2, FedStep DEF Phase
            <4> QED BY <3>1, <4>1, <4>3, QuietStep DEF Phase
        <3>3. CASE holds[r] # None
            BY <2>0, <2>11, <2>r, <3>1, <3>3 DEF Abort
        <3> QED BY <3>2, <3>3
    <2>12. CASE Swept(r)
        <3>1. Move(r, "Ended") /\ Unadmitted /\ phase[r] = "Cut" /\ Settled(r)
            BY <2>12 DEF Swept
        <3>2. Family'
            BY <3>1, FamilyStep DEF Phase
        <3>3. Fed'
            BY <2>q, <3>1, FedStep DEF Phase
        <3> QED BY <3>1, <3>2, <3>3, QuietStep DEF Phase
    <2> QED BY <1>2, <2>1, <2>2, <2>3, <2>4, <2>5, <2>6, <2>7, <2>8, <2>9, <2>10,
               <2>11, <2>12 DEF Step
<1> QED BY <1>1, <1>2 DEF Next

LEMMA InvHolds == Spec => []Inv
<1>1. Init => Inv
    BY InitInv
<1>2. Inv /\ [Next]_vars => Inv'
    BY NextInv
<1> QED BY <1>1, <1>2, PTL DEF Spec

------------------------------------------------------------------------------
\* Every variable keeps its type: no semaphore is ever taken below zero.
THEOREM AdmissionTypeCorrect == Spec => []TypeOK
<1>1. Inv => TypeOK
    BY DEF Inv
<1> QED BY <1>1, InvHolds, PTL

\* No permit of the ceiling is lost or made by a grant, an end or an abort.
THEOREM CeilingKeptHolds == Spec => []CeilingKept
<1>1. Inv => CeilingKept
    BY DEF Inv
<1> QED BY <1>1, InvHolds, PTL

\* A lent slot has one borrower, a child of a run that still holds its own.
THEOREM LentByAHolderHolds == Spec => []LentByAHolder
<1>1. Inv => LentByAHolder
    <2> SUFFICES ASSUME Inv, NEW r \in Run, holds[r] \in Run
                 PROVE  /\ holds[r] = Parent[r]
                        /\ holds[Parent[r]] # None \/ phase[Parent[r]] = "Cut"
                        /\ \A c \in Run : holds[c] = holds[r] => c = r
        BY DEF LentByAHolder
    <2>1. holds[r] = lend[r] /\ lend[r] = Parent[r] /\ Parent[r] \in Run
        BY DEF Inv, OwnLend, TypeOK
    <2>2. phase[Parent[r]] \notin Early
        BY <2>1 DEF Inv, OwnLend
    <2>3. phase[r] \in Holding
        BY DEF Inv, PhaseSays
    <2>4. phase[Parent[r]] # "Ended"
        BY <2>1, <2>3 DEF Inv, Family, Holding
    <2>5. phase[Parent[r]] \in Holding \cup {"Cut"}
        BY <2>1, <2>2, <2>4 DEF Inv, TypeOK, Phase, Early, Holding
    <2> QED BY <2>1, <2>5 DEF Inv, PhaseSays, OneBorrower
<1> QED BY <1>1, InvHolds, PTL

\* Among the admitted runs there is one without an admitted child.  If it waits
\* for a child, that child is not kept from its lend, so a run can go on.
THEOREM NoDeadlockHolds == Restored = {} => (Spec => []NoDeadlock)
<1>1. ASSUME Restored = {}, Inv PROVE NoDeadlock
    <2> USE <1>1
    <2> SUFFICES ASSUME NEW w \in Run, phase[w] = "Queued",
                        \A r \in Run : ~ CanMove(r)
                 PROVE  FALSE
        BY DEF NoDeadlock
    <2> DEFINE A == {r \in Run : phase[r] \in Holding}
    <2>1. free[Global] = 0
        <3>1. ~ (free[Global] > 0) /\ free[Global] \in Nat
            BY DEF CanMove, Sources, Inv, TypeOK, Semaphore
        <3> QED BY <3>1
    <2>2. PICK r \in A : Children(r) \cap A = {}
        <3>1. Holders # {}
            <4>1. IsFiniteSet(Holders)
                BY FS_Subset DEF Holders
            <4>2. Cardinality(Holders) # 0
                BY <2>1, <4>1, FS_CardinalityType DEF Inv, CeilingKept, Holders
            <4> QED BY <4>1, <4>2, FS_EmptySet
        <3>2. A \in SUBSET Run /\ A # {}
            BY <3>1 DEF Holders, Inv, PhaseSays
        <3> QED BY <3>2
    <2>3. phase[r] = "Joining" /\ ~ Back(r) /\ holds[r] # None
        BY <2>2 DEF CanMove, Holding, Inv, PhaseSays
    <2>4. \A c \in Children(r) : c \in Run /\ phase[c] \in {"Idle", "Started", "Queued", "Ended"}
        <3> SUFFICES ASSUME NEW c \in Children(r)
                     PROVE  c \in Run /\ phase[c] \in {"Idle", "Started", "Queued", "Ended"}
            OBVIOUS
        <3>1. c \in Run /\ Parent[c] = r /\ phase[c] \in Phase
            BY DEF Children, Inv, TypeOK
        <3>2. phase[c] # "Cut"
            BY <2>3, <3>1 DEF Inv, Family
        <3>3. phase[c] \notin Holding
            BY <2>2, <3>1 DEF Children
        <3> QED BY <3>1, <3>2, <3>3 DEF CanMove, Phase, Holding
    <2>5. ASSUME NEW c \in Children(r), phase[c] = "Queued" PROVE FALSE
        <3>1. c \in Run /\ Parent[c] = r /\ c \notin Restored
            BY <1>1 DEF Children
        <3>2. lend[c] = r
            BY <2>3, <2>5, <3>1 DEF Inv, Fed
        <3>3. \A d \in Run : holds[d] # r
            <4> SUFFICES ASSUME NEW d \in Run, holds[d] = r PROVE FALSE
                OBVIOUS
            <4>1. lend[d] = r /\ Parent[d] = r /\ phase[d] \in Holding
                BY DEF Inv, OwnLend, PhaseSays, TypeOK
            <4> QED BY <2>2, <4>1 DEF Children
        <3>4. free[r] = 1
            BY <2>2, <3>3 DEF Inv, OneBorrower
        <3> QED BY <2>5, <3>1, <3>2, <3>4 DEF CanMove, Sources
    <2>6. PICK c \in Children(r) : phase[c] = "Started"
        BY <2>3, <2>4, <2>5 DEF Back
    <2>7. {d \in Children(r) : phase[d] \in Busy} = {}
        BY <2>4, <2>5 DEF Busy
    <2>8. Cardinality({d \in Children(r) : phase[d] \in Busy}) < MaxChildren
        <3>1. Cardinality({d \in Children(r) : phase[d] \in Busy}) = 0
            BY <2>7, FS_EmptySet
        <3> QED BY <3>1
    <2>9. HasSlot(c)
        BY <2>6, <2>8 DEF HasSlot, Children
    <2> QED BY <2>4, <2>6, <2>9 DEF CanMove
<1> SUFFICES ASSUME Restored = {} PROVE Spec => []NoDeadlock
    OBVIOUS
<1>2. Inv => NoDeadlock
    BY <1>1
<1> QED BY <1>2, InvHolds, PTL
==============================================================================
