------------------------------- MODULE Motor -------------------------------
(***************************************************************************)
(* What an emulated cover promises, whatever requests overlap: "the cover  *)
(* can only be moving to one position at a time" (the docstring of         *)
(* MoverManager in src/nicett6/emulator/cover_emulator.py).  Its motor has *)
(* one target or none, moves only towards its target, never past it and by *)
(* at most one leg at a time, and takes a new target only when it has none.*)
(***************************************************************************)
EXTENDS Integers

CONSTANTS
    FullyUp,    \* the highest position
    MaxLeg,     \* the longest movement between two looks at the stop event
    NoTarget    \* the motor is at rest

VARIABLES pos, target

vars == <<pos, target>>

Init ==
    /\ pos \in 0..FullyUp
    /\ target = NoTarget

\* The motor is given a target it is not at
Start ==
    /\ target = NoTarget
    /\ target' \in (0..FullyUp) \ {pos}
    /\ UNCHANGED pos

\* It moves towards the target, and may come to rest there at once
Move ==
    /\ target # NoTarget
    /\ \/ pos < pos' /\ pos' <= target /\ pos' <= pos + MaxLeg
       \/ pos > pos' /\ pos' >= target /\ pos' >= pos - MaxLeg
    /\ pos' \in 0..FullyUp
    /\ target' \in {target, NoTarget}
    /\ target' = NoTarget => pos' = target

\* It comes to rest, having arrived or having been stopped
Stop ==
    /\ target # NoTarget
    /\ target' = NoTarget
    /\ UNCHANGED pos

Next == Start \/ Move \/ Stop

Spec == Init /\ [][Next]_vars
=============================================================================
