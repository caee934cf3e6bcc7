------------------------------- MODULE Lease --------------------------------
(***************************************************************************)
(* What the board promises about one work unit: it is leased to one grant  *)
(* at a time, and a lease ends because its holder let go of it or because  *)
(* its time is over, never otherwise.                                      *)
(***************************************************************************)
EXTENDS Naturals

VARIABLES
    lease,   \* the grant that has the unit, 0 for none
    issued,  \* grants are numbered; how many there were
    over,    \* those whose time is over
    dropped  \* those that were let go of

Init == lease = 0 /\ issued = 0 /\ over = {} /\ dropped = {}

Grant ==
    /\ lease = 0
    /\ issued' = issued + 1 /\ lease' = issued'
    /\ UNCHANGED <<over, dropped>>

Expire ==
    /\ \E t \in 1..issued : over' = over \cup {t}
    /\ UNCHANGED <<lease, issued, dropped>>

LetGo ==
    /\ \E t \in 1..issued : dropped' = dropped \cup {t}
    /\ UNCHANGED <<lease, issued, over>>

Free ==
    /\ lease \in over \cup dropped
    /\ lease' = 0
    /\ UNCHANGED <<issued, over, dropped>>

Next == Grant \/ Expire \/ LetGo \/ Free

Spec == Init /\ [][Next]_<<lease, issued, over, dropped>>
==============================================================================
