------------------------------ MODULE SafeDrive ------------------------------
(***************************************************************************)
(* What the local planner promises to a controller about its emergency     *)
(* stop, as if a planning cycle counted one evaluated scan and decided at  *)
(* once.  The count of blocked scans in a row may run ahead of the scans   *)
(* it spans by two, and a cycle that began on sight of a scan may end      *)
(* after the sight is lost.                                                *)
(***************************************************************************)
EXTENDS Integers

CONSTANT Confirm  \* blocked readings in a row that stop the vehicle

VARIABLES
    sighted,   \* path and map are known and a scan was looked at lately
    deciding,  \* a planning cycle is under way
    evaluated, \* scans evaluated so far
    alarms,    \* blocked readings counted in a row
    first,     \* the evaluated scan of the first of them, or of the last clear one
    last,      \* the evaluated scan of the last reading counted
    stop       \* the emergency stop as published

vars == <<sighted, deciding, evaluated, alarms, first, last, stop>>

Init ==
    /\ sighted = FALSE
    /\ deciding = FALSE
    /\ evaluated = 0
    /\ alarms = 0
    /\ first = 0
    /\ last = 0
    /\ stop = FALSE

\* Sight comes and goes without asking the planner.
SightChanges ==
    /\ sighted' = ~sighted
    /\ UNCHANGED <<deciding, evaluated, alarms, first, last, stop>>

Evaluate ==
    /\ evaluated' = evaluated + 1
    /\ UNCHANGED <<sighted, deciding, alarms, first, last, stop>>

\* No cycle begins without sight,
Begin ==
    /\ sighted
    /\ ~deciding
    /\ deciding' = TRUE
    /\ UNCHANGED <<sighted, evaluated, alarms, first, last, stop>>

\* but a stop.
Refuse ==
    /\ ~deciding
    /\ stop' = TRUE
    /\ UNCHANGED <<sighted, deciding, evaluated, alarms, first, last>>

\* A reading of an evaluated scan, never of one older than the last; before the
\* first evaluated scan there is nothing that could be blocked.
CountClear ==
    /\ deciding
    /\ \E scan \in last .. evaluated : first' = scan /\ last' = scan
    /\ alarms' = 0
    /\ UNCHANGED <<sighted, deciding, evaluated, stop>>

CountBlocked ==
    /\ deciding
    /\ \E scan \in last .. evaluated :
        /\ scan > 0
        /\ first' = IF alarms > 0 THEN first ELSE scan
        /\ last' = scan
    /\ alarms' = alarms + 1
    /\ alarms' <= last' - first' + 3
    /\ UNCHANGED <<sighted, deciding, evaluated, stop>>

\* The end of a cycle; it may stop for other reasons, too.
Decide ==
    /\ deciding
    /\ deciding' = FALSE
    /\ stop' \in BOOLEAN
    /\ alarms >= Confirm => stop'
    /\ UNCHANGED <<sighted, evaluated, alarms, first, last>>

Next ==
    \/ SightChanges
    \/ Evaluate
    \/ Begin
    \/ Refuse
    \/ CountClear
    \/ CountBlocked
    \/ Decide

\* Without sight the vehicle is stopped for good.
StopsInTheEnd == <>[]~sighted => <>[]stop

Spec == Init /\ [][Next]_vars /\ StopsInTheEnd
==============================================================================
