--------------------------- MODULE DriveController ---------------------------
(***************************************************************************)
(* What every controller promises to the vehicle, whatever law it follows: *)
(* it moves the car only while it is enabled and nothing vetoes driving,   *)
(* a veto or a disable request stops the car in the same step, and a car   *)
(* whose inputs stay lost comes to rest.                                   *)
(***************************************************************************)
VARIABLES
    enabled,  \* the operator has enabled the controller
    vetoed,   \* the controller knows of an emergency stop or a collision
    lost,     \* path, odometry or pose cannot be used
    moving    \* the last command on the drive topic has a speed

vars == <<enabled, vetoed, lost, moving>>

Init ==
    /\ enabled \in BOOLEAN
    /\ vetoed = FALSE
    /\ lost \in BOOLEAN
    /\ moving = FALSE

\* The operator's requests; the inputs may be lost again when one is granted.
Enable ==
    /\ ~vetoed
    /\ enabled' = TRUE
    /\ UNCHANGED <<vetoed, lost, moving>>

Disable ==
    /\ enabled' = FALSE
    /\ moving' = FALSE
    /\ UNCHANGED <<vetoed, lost>>

\* A veto stops the car, and may disable the controller for good.
Veto ==
    /\ vetoed' = TRUE
    /\ enabled' \in {enabled, FALSE}
    /\ moving' = FALSE
    /\ UNCHANGED lost

Clear ==
    /\ vetoed' = FALSE
    /\ UNCHANGED <<enabled, lost, moving>>

\* Inputs come and go without asking the controller.
InputsChange ==
    /\ lost' = ~lost
    /\ UNCHANGED <<enabled, vetoed, moving>>

\* A command, also one repeated for a while after the inputs were lost.
Move ==
    /\ enabled
    /\ ~vetoed
    /\ moving' = TRUE
    /\ UNCHANGED <<enabled, vetoed, lost>>

\* A stop, for whatever reason.
Halt ==
    /\ moving' = FALSE
    /\ UNCHANGED <<enabled, vetoed, lost>>

Next ==
    \/ Enable
    \/ Disable
    \/ Veto
    \/ Clear
    \/ InputsChange
    \/ Move
    \/ Halt

ComesToRest == <>[]lost => <>[]~moving

Spec == Init /\ [][Next]_vars /\ ComesToRest
==============================================================================
