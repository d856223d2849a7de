------------------------------ MODULE JoyTeleop ------------------------------
(***************************************************************************)
(* The commands of JoyTeleop: each Joy message updates which of them are   *)
(* active, and an active one publishes a mapped or a fixed message or      *)
(* calls a service or an action server.  The commands come from a          *)
(* configuration that is not part of the repository.                       *)
(***************************************************************************)
EXTENDS Integers, Sequences, FiniteSetsExt

CONSTANTS
    Axes,      \* names of the topic commands with axis_mappings
    Messages,  \* names of the topic commands with a message_value
    Clients,   \* names of the service and action commands
    Buttons,   \* the deadman_buttons or buttons of each command
    MaxButtons \* bound: the buttons a joystick has

JoyCommands == Axes \cup Messages \cup Clients

VARIABLES
    active,      \* active of each command
    clientReady, \* client_ready of each client
    served,      \* the environment: the server of the client is up
    published,   \* commands that published or called in the last message
    calls        \* history: calls of a client in this press and period of service

vars == <<active, clientReady, served, published, calls>>

\* A Joy message: the buttons in it, pressed or not; the axes are not used as deadman.
JoyMessages == UNION {[1 .. n -> BOOLEAN] : n \in 0 .. MaxButtons}

Init ==
    /\ active = [name \in JoyCommands |-> FALSE]
    /\ clientReady = [name \in Clients |-> FALSE]
    /\ served \in [Clients -> BOOLEAN]
    /\ published = {}
    /\ calls = [name \in Clients |-> 0]

\* update_active_from_buttons_and_axes: a button the message lacks is ignored.
Activated(name, joy) == \A button \in Buttons[name] : button \in DOMAIN joy => joy[button]

\* JoyTeleopTopicCommand.run: a fixed message is debounced, a mapped one is not.
Publishes(name, joy) == Activated(name, joy) /\ (name \in Messages => ~active[name])

\* JoyTeleopServiceCommand.run, JoyTeleopActionCommand.run: client_ready is
\* looked up only while the command is active.
Ready(name, joy) == IF Activated(name, joy) THEN served[name] ELSE clientReady[name]

\* Mutant of Calls: without the debounce on what was active before.
CallsWhileActive(name, joy) == Activated(name, joy) /\ Ready(name, joy)

Calls(name, joy) ==
    /\ Activated(name, joy)
    /\ Ready(name, joy)
    /\ ~clientReady[name] \/ ~active[name]

JoyCallback ==
    \E joy \in JoyMessages :
        /\ active' = [name \in JoyCommands |-> Activated(name, joy)]
        /\ clientReady' = [name \in Clients |-> Ready(name, joy)]
        /\ published' = {name \in Axes \cup Messages : Publishes(name, joy)}
                            \cup {name \in Clients : Calls(name, joy)}
        /\ calls' = [name \in Clients |->
                        IF ~Activated(name, joy) \/ ~served[name] THEN 0
                        ELSE IF Calls(name, joy) /\ calls[name] < 2 THEN calls[name] + 1
                        ELSE calls[name]]
        /\ UNCHANGED served

ServerChanges ==
    /\ \E name \in Clients : served' = [served EXCEPT ![name] = ~@]
    /\ UNCHANGED <<active, clientReady, published, calls>>

Next == JoyCallback \/ ServerChanges
Spec == Init /\ [][Next]_vars
-----------------------------------------------------------------------------
(* A press of a button calls a server exactly once, also when the server   *)
(* comes up or goes away between messages: not again while the button is   *)
(* held and the server stays, and not never if it comes up meanwhile.      *)
OneCallPerPress ==
    \A name \in Clients :
        /\ calls[name] <= 1
        /\ active[name] /\ clientReady[name] => calls[name] = 1
==============================================================================
