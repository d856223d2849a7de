--------------------------- MODULE VehicleSideProofs ---------------------------
(***************************************************************************)
(* Safety of the programs between controller and vehicle, for any delays,  *)
(* commands, buttons and bounds.                                           *)
(***************************************************************************)
EXTENDS VehicleSide, SequenceTheorems, WellFoundedInduction, TLAPS

\* The bridge with an opponent does not latch collisions.
LatchInv ==
    /\ latched \in BOOLEAN
    /\ which = "sim_opponent" => ~latched

-------------------------------------------------------------------------------
\* The steps that leave the bridge alone.
BridgeIdle == UNCHANGED <<which, bridgeVars, acted>>

\* Every step leaves the bridge alone, or is one of these.
LEMMA StepKinds ==
    ASSUME [SideNext]_allVars
    PROVE  BridgeIdle \/ Deliver \/ Reset \/ Opponent \/ Teleop \/ DriveTimer \/ SideTick
    BY DEF SideNext, allVars, topicVars, BridgeIdle, Command, SafetyTopic, PublishLoop,
           InterfaceStep, Odometry, Joy

\* The latch of the bridge with an opponent stays open.
LEMMA BridgeKeepsLatch == LatchInv /\ [SideNext]_allVars => LatchInv'
<1> SUFFICES ASSUME LatchInv, [SideNext]_allVars PROVE LatchInv'
    OBVIOUS
<1> USE DEF LatchInv, BridgeStep
<1>1. CASE BridgeIdle
    BY <1>1 DEF BridgeIdle, bridgeVars
<1>2. CASE Deliver
    BY <1>2 DEF Deliver, Bridge!DriveCallback, Bridge!DriveCallbackLatched,
                OpponentBridge!DriveCallback
<1>3. CASE Reset
    BY <1>3 DEF Reset, Bridge!EgoResetCallback, OpponentBridge!EgoResetCallback
<1>4. CASE Opponent
    BY <1>4 DEF Opponent, OpponentBridge!OppDriveCallback, OpponentBridge!OppResetCallback,
                OpponentBridge!UpdateSimState
<1>5. CASE Teleop
    BY <1>5 DEF Teleop, Bridge!TeleopCallback, OpponentBridge!TeleopCallback
<1>6. CASE DriveTimer
    BY <1>6 DEF DriveTimer, Bridge!DriveTimerCallback, OpponentBridge!DriveTimerCallback,
                Bridge!UpdateSimState, OpponentBridge!UpdateSimState
<1>7. CASE SideTick
    BY <1>7 DEF SideTick, Bridge!Tick, bridgeVars
<1> QED
    BY <1>1, <1>2, <1>3, <1>4, <1>5, <1>6, <1>7, StepKinds

LEMMA LatchInvariant == SideSpec => []LatchInv
<1>1. SideInit => LatchInv
    BY DEF SideInit, LatchInv, Bridge!Init
<1> QED
    BY <1>1, BridgeKeepsLatch, PTL DEF SideSpec

(* A car that has collided is not set in motion by any message but a Twist *)
(* of the keyboard.                                                        *)
THEOREM LatchHolds == SideSpec => LatchedStandsStill
<1>1. LatchInv /\ [SideNext]_allVars
        => [latched' /\ requested' # 0 => Teleop \/ (latched /\ requested # 0)]_allVars
  <2> SUFFICES ASSUME LatchInv, [SideNext]_allVars, latched', requested' # 0, ~Teleop
               PROVE  latched /\ requested # 0
    OBVIOUS
  <2> USE DEF LatchInv, BridgeStep
  <2>1. CASE BridgeIdle
    BY <2>1 DEF BridgeIdle, bridgeVars
  <2>2. CASE Deliver
    BY <2>2 DEF Deliver, Bridge!DriveCallback, Bridge!DriveCallbackLatched,
                OpponentBridge!DriveCallback
  <2>3. CASE Reset
    BY <2>3 DEF Reset, Bridge!EgoResetCallback, OpponentBridge!EgoResetCallback
  <2>4. CASE Opponent
    BY <2>4 DEF Opponent, OpponentBridge!OppDriveCallback,
                OpponentBridge!OppResetCallback, OpponentBridge!UpdateSimState
  <2>5. CASE DriveTimer
    BY <2>5 DEF DriveTimer, Bridge!DriveTimerCallback, OpponentBridge!DriveTimerCallback,
                Bridge!UpdateSimState, OpponentBridge!UpdateSimState
  <2>6. CASE SideTick
    BY <2>6 DEF SideTick, Bridge!Tick, bridgeVars
  <2> QED
    BY <2>1, <2>2, <2>3, <2>4, <2>5, <2>6, StepKinds
<1> QED
    BY <1>1, LatchInvariant, PTL DEF SideSpec, LatchedStandsStill
-------------------------------------------------------------------------------
\* A client has been called once in this press if it is active and was ready.
JoyInv ==
    /\ active \in [Joystick!JoyCommands -> BOOLEAN]
    /\ clientReady \in [Clients -> BOOLEAN]
    /\ served \in [Clients -> BOOLEAN]
    /\ calls \in [Clients -> 0 .. 2]
    /\ \A name \in Clients :
        calls[name] = IF active[name] /\ clientReady[name] THEN 1 ELSE 0

\* Initially no command is active.
LEMMA JoyInitHolds == SideInit => JoyInv
    BY DEF SideInit, Joystick!Init, JoyInv, Joystick!JoyCommands

\* One Joy message, client by client.
LEMMA JoyCallbackKeeps ==
    ASSUME JoyInv, Joystick!JoyCallback
    PROVE  JoyInv'
<1> USE DEF JoyInv
<1>1. PICK joy \in Joystick!JoyMessages :
        /\ active' = [name \in Joystick!JoyCommands |-> Joystick!Activated(name, joy)]
        /\ clientReady' = [name \in Clients |-> Joystick!Ready(name, joy)]
        /\ calls' = [name \in Clients |->
                        IF ~Joystick!Activated(name, joy) \/ ~served[name] THEN 0
                        ELSE IF Joystick!Calls(name, joy) /\ calls[name] < 2
                             THEN calls[name] + 1 ELSE calls[name]]
        /\ served' = served
    BY DEF Joystick!JoyCallback
<1>2. ASSUME NEW name \in Joystick!JoyCommands PROVE Joystick!Activated(name, joy) \in BOOLEAN
    BY DEF Joystick!Activated
<1>3. Clients \subseteq Joystick!JoyCommands
    BY DEF Joystick!JoyCommands
<1>4. ASSUME NEW name \in Clients PROVE Joystick!Ready(name, joy) \in BOOLEAN
    BY <1>2, <1>3 DEF Joystick!Ready
<1>5. active' \in [Joystick!JoyCommands -> BOOLEAN] /\ clientReady' \in [Clients -> BOOLEAN]
    BY <1>1, <1>2, <1>4
<1>6. ASSUME NEW name \in Clients
      PROVE  /\ calls'[name] = IF active'[name] /\ clientReady'[name] THEN 1 ELSE 0
             /\ calls'[name] \in 0 .. 2
  <2>1. active'[name] = Joystick!Activated(name, joy)
        /\ clientReady'[name] = Joystick!Ready(name, joy)
    BY <1>1, <1>3
  <2>2. CASE ~Joystick!Activated(name, joy) \/ ~served[name]
    BY <1>1, <2>1, <2>2 DEF Joystick!Ready
  <2>3. CASE Joystick!Activated(name, joy) /\ served[name]
    <3>1. Joystick!Ready(name, joy) = TRUE
      BY <2>3, <1>4 DEF Joystick!Ready
    <3>2. CASE active[name] /\ clientReady[name]
      BY <1>1, <2>1, <2>3, <3>1, <3>2 DEF Joystick!Calls
    <3>3. CASE ~(active[name] /\ clientReady[name])
      <4>1. Joystick!Calls(name, joy)
        BY <2>3, <3>1, <3>3, Zenon DEF Joystick!Calls
      <4>2. calls[name] = 0
        BY <3>3
      <4>3. calls'[name] = 1
        BY <1>1, <2>3, <4>1, <4>2
      <4> QED
        BY <2>1, <2>3, <3>1, <4>3
    <3> QED
      BY <3>2, <3>3
  <2> QED
    BY <2>2, <2>3
<1>7. calls' \in [Clients -> 0 .. 2]
    BY <1>1, <1>6
<1> QED
    BY <1>1, <1>5, <1>6, <1>7

\* The other steps do not touch a client.
LEMMA JoyKeeps == JoyInv /\ [SideNext]_allVars => JoyInv'
<1> SUFFICES ASSUME JoyInv, [SideNext]_allVars PROVE JoyInv'
    OBVIOUS
<1>1. CASE Joy /\ Joystick!JoyCallback
    BY <1>1, JoyCallbackKeeps
<1>2. CASE Joy /\ Joystick!ServerChanges
    BY <1>2 DEF JoyInv, Joystick!ServerChanges
<1>3. CASE UNCHANGED joyVars
    BY <1>3 DEF JoyInv, joyVars
<1> QED
    BY <1>1, <1>2, <1>3
    DEF SideNext, allVars, Joy, Joystick!Next, Command, SafetyTopic, PublishLoop,
        InterfaceStep, Deliver, Reset, Opponent, Teleop, DriveTimer, BridgeStep,
        SideTick, Odometry

(* A press calls a server exactly once, for any joystick and any assignment *)
(* of buttons, also when servers come and go between its messages.          *)
THEOREM PressCallsOnce == SideSpec => []JoyOneCallPerPress
<1>1. JoyInv => JoyOneCallPerPress
    BY DEF JoyInv, JoyOneCallPerPress, Joystick!OneCallPerPress
<1>2. JoyInv /\ [SideNext]_allVars => JoyInv'
    BY JoyKeeps
<1> QED
    BY <1>1, <1>2, JoyInitHolds, PTL DEF SideSpec
-------------------------------------------------------------------------------
\* The order of natural numbers is well founded.
LessThan == {pair \in Nat \X Nat : pair[1] < pair[2]}

LEMMA LessThanWellFounded == IsWellFoundedOn(LessThan, Nat)
    BY NatLessThanWellFounded DEF OpToRel, LessThan

\* A set of natural numbers has a least one,
LEMMA Least ==
    ASSUME NEW S \in SUBSET Nat, S # {}
    PROVE  \E x \in S : \A y \in S : x <= y
<1>1. PICK x \in S : \A y \in S : <<y, x>> \notin LessThan
    BY LessThanWellFounded, WFMin
<1>2. ASSUME NEW y \in S PROVE x <= y
  <2>1. <<y, x>> \in Nat \X Nat
    OBVIOUS
  <2>2. ~(y < x)
    BY <1>1, <2>1 DEF LessThan
  <2> QED
    BY <2>2
<1> QED
    BY <1>2

\* and a set of indices has a greatest one.
LEMMA Greatest ==
    ASSUME NEW n \in Nat, NEW S \in SUBSET (1 .. n), S # {}
    PROVE  Max(S) \in S /\ \A y \in S : y <= Max(S)
<1> DEFINE T == {i \in 0 .. n : n - i \in S}
<1>1. PICK x \in T : \A y \in T : x <= y
  <2>1. PICK i \in S : TRUE
    OBVIOUS
  <2>2. n - i \in T
    BY <2>1
  <2>3. T \in SUBSET Nat
    OBVIOUS
  <2> QED
    BY <2>2, <2>3, Least
<1>2. n - x \in S /\ n - x \in Int /\ x \in Int
    OBVIOUS
<1>3. ASSUME NEW y \in S PROVE n - x >= y
  <2>1. n - y \in T /\ y \in Int
    OBVIOUS
  <2> HIDE DEF T
  <2>2. x <= n - y
    BY <1>1, <2>1
  <2> QED
    BY <1>2, <2>1, <2>2
<1> HIDE DEF T
<1> QED
    BY <1>2, <1>3 DEF Max

ServoCommands == [at : Nat, angle : ServoAngles]

\* Popping stops at the last entry that nothing newer than the time precedes.
LEMMA PopIs ==
    ASSUME NEW time \in Int, NEW commands \in Seq(ServoCommands), commands # <<>>
    PROVE  \E m \in 1 .. Len(commands) :
            /\ PopUntil(time, commands) \in Seq(ServoCommands)
            /\ Len(PopUntil(time, commands)) = Len(commands) - m + 1
            /\ \A i \in 1 .. Len(commands) - m + 1 :
                PopUntil(time, commands)[i] = commands[m + i - 1]
            /\ m >= 2 => commands[m].at <= time
            /\ m < Len(commands) => time < commands[m + 1].at
<1> DEFINE n == Len(commands)
           stays == {i \in DOMAIN commands : \A j \in 2 .. i : commands[j].at <= time}
           m == Max(stays)
<1>1. n \in Nat /\ n >= 1 /\ DOMAIN commands = 1 .. n
    OBVIOUS
<1>2. ASSUME NEW i \in 1 .. n PROVE commands[i] \in ServoCommands /\ commands[i].at \in Nat
  <2>1. commands[i] \in ServoCommands
    BY <1>1
  <2> QED
    BY <2>1 DEF ServoCommands
<1>3. stays \in SUBSET (1 .. n) /\ 1 \in stays
    BY <1>1
<1>4. m \in stays /\ \A y \in stays : y <= m
    BY <1>1, <1>3, Greatest
<1>5. PopUntil(time, commands) = SubSeq(commands, m, n)
    BY DEF PopUntil
<1> HIDE DEF m
<1>6. m \in 1 .. n /\ \A j \in 2 .. m : commands[j].at <= time
    BY <1>1, <1>4
<1>7. ASSUME m < n PROVE time < commands[m + 1].at
  <2> SUFFICES ASSUME commands[m + 1].at <= time PROVE FALSE
    BY <1>2, <1>6, <1>7
  <2>1. m + 1 \in 1 .. n
    BY <1>1, <1>6, <1>7
  <2>2. ASSUME NEW j \in 2 .. m + 1 PROVE commands[j].at <= time
    BY <1>6, <2>2
  <2>3. m + 1 \in stays
    BY <1>1, <2>1, <2>2
  <2> HIDE DEF stays
  <2>4. m + 1 <= m
    BY <1>4, <2>3
  <2> QED
    BY <1>6, <2>4
<1> HIDE DEF stays
<1>8. /\ SubSeq(commands, m, n) \in Seq(ServoCommands)
      /\ Len(SubSeq(commands, m, n)) = n - m + 1
      /\ \A i \in 1 .. n - m + 1 : SubSeq(commands, m, n)[i] = commands[m + i - 1]
  <2>1. m \in Int /\ n \in Int /\ m <= n
    BY <1>1, <1>6
  <2>2. \A i \in m .. n : commands[i] \in ServoCommands
    BY <1>2, <1>6
  <2> QED
    BY <2>1, <2>2, SubSeqProperties
<1> QED
    BY <1>5, <1>6, <1>7, <1>8

\* The history is the end of the log, which is in the order of time.
HistoryOK ==
    /\ history \in Seq(ServoCommands) /\ log \in Seq(ServoCommands)
    /\ Len(history) <= Len(log)
    /\ Len(log) > 0 => Len(history) > 0
    /\ \A i \in 1 .. Len(history) : history[i] = log[Len(log) - Len(history) + i]

LogOK ==
    /\ \A i \in 1 .. Len(log) : log[i].at <= now
    /\ \A i, j \in 1 .. Len(log) : i <= j => log[i].at <= log[j].at

ClockOK ==
    /\ now \in Nat /\ lastStamp \in Int
    /\ lastStamp <= now
    /\ lastStamp # NoStamp => Len(log) > 0

\* Commands are forgotten only in favour of one that is old enough for any state.
FrontOK ==
    Len(history) < Len(log) =>
        \/ history[1].at < now - HistoryLength
        \/ history[1].at <= lastStamp - ServoDelay

OdomInv ==
    /\ HistoryOK
    /\ LogOK
    /\ ClockOK
    /\ FrontOK
    /\ DelayedSteering

\* Initially history and log are empty.
LEMMA OdomInitHolds == Init => OdomInv
<1> SUFFICES ASSUME Init PROVE OdomInv
    OBVIOUS
<1>1. /\ <<>> \in Seq(ServoCommands) /\ Len(<<>>) = 0
      /\ history = <<>> /\ log = <<>> /\ now = 0 /\ lastStamp = NoStamp
    BY DEF Init
<1>2. HistoryOK
    BY <1>1 DEF HistoryOK
<1>3. LogOK /\ ClockOK /\ FrontOK
    BY <1>1 DEF LogOK, ClockOK, FrontOK, NoStamp
<1> QED
    BY <1>1, <1>2, <1>3 DEF OdomInv, DelayedSteering

\* The command in effect is the last of those that are old enough.
LEMMA InEffectIs ==
    ASSUME log \in Seq(ServoCommands), LogOK, NEW stamp \in Int, ServoDelay \in Nat,
           NEW k \in 1 .. Len(log),
           k < Len(log) => stamp - ServoDelay < log[k + 1].at,
           log[k].at <= stamp - ServoDelay \/ k = 1
    PROVE  InEffect(stamp) = log[k].angle
<1> DEFINE early == {i \in DOMAIN log : log[i].at <= stamp - ServoDelay}
<1>1. Len(log) \in Nat /\ DOMAIN log = 1 .. Len(log)
    OBVIOUS
<1>2. ASSUME NEW i \in 1 .. Len(log) PROVE log[i].at \in Nat
  <2>1. log[i] \in ServoCommands
    BY <1>1
  <2> QED
    BY <2>1 DEF ServoCommands
<1>3. ASSUME NEW i \in early PROVE i <= k /\ i \in Int
  <2> SUFFICES ASSUME k < i PROVE FALSE
    BY <1>1
  <2>1. k + 1 \in 1 .. Len(log) /\ i \in 1 .. Len(log) /\ k + 1 <= i
    BY <1>1
  <2>2. log[k + 1].at <= log[i].at
    BY <2>1 DEF LogOK
  <2> QED
    BY <1>2, <2>1, <2>2
<1>4. CASE log[k].at <= stamp - ServoDelay
  <2>1. k \in early /\ early \in SUBSET (1 .. Len(log))
    BY <1>1, <1>4
  <2> HIDE DEF early
  <2>2. Max(early) \in early /\ k <= Max(early)
    BY <1>1, <2>1, Greatest
  <2>3. Max(early) = k
    <3>1. Max(early) <= k /\ Max(early) \in Int
      BY <1>3, <2>2
    <3> QED
      BY <1>1, <2>2, <3>1
  <2>4. early # {}
    BY <2>1
  <2> QED
    BY <2>3, <2>4 DEF InEffect, early
<1>5. CASE ~(log[k].at <= stamp - ServoDelay)
  <2>1. k = 1 /\ k \notin early
    BY <1>5
  <2>2. early = {}
    BY <1>1, <1>3, <2>1
  <2> QED
    BY <2>1, <2>2 DEF InEffect
<1> QED
    BY <1>4, <1>5

\* A state pops what no later state needs.
LEMMA StateCallbackKeeps == OdomInv /\ VescStateCallback => OdomInv'
<1> SUFFICES ASSUME OdomInv, VescStateCallback PROVE OdomInv'
    OBVIOUS
<1>0. /\ ServoDelay \in Nat /\ HistoryLength \in Nat /\ MaxLateness \in Nat
      /\ ServoDelay + MaxLateness <= HistoryLength
    BY VescToOdomAssumption DEF VescToOdomAssumption
<1>1. PICK stamp \in 0 .. now :
        /\ now - stamp <= MaxLateness
        /\ stamp >= lastStamp
        /\ history' = Delayed(history, stamp)
        /\ odomAngle' = history'[1].angle
        /\ lastStamp' = stamp
        /\ history # <<>> /\ now' = now /\ log' = log
    BY DEF VescStateCallback
<1> DEFINE G == Len(log)
           H == Len(history)
           time == stamp - ServoDelay
<1>2. /\ history \in Seq(ServoCommands) /\ log \in Seq(ServoCommands)
      /\ G \in Nat /\ H \in Nat /\ 1 <= H /\ H <= G
      /\ \A i \in 1 .. H : history[i] = log[G - H + i]
      /\ now \in Nat /\ lastStamp \in Int /\ time \in Int /\ stamp \in Int
      /\ lastStamp - ServoDelay <= time /\ now - HistoryLength <= time
    BY <1>0, <1>1 DEF OdomInv, HistoryOK, ClockOK
<1>3. PICK m \in 1 .. H :
        /\ history' \in Seq(ServoCommands)
        /\ Len(history') = H - m + 1
        /\ \A i \in 1 .. H - m + 1 : history'[i] = history[m + i - 1]
        /\ m >= 2 => history[m].at <= time
        /\ m < H => time < history[m + 1].at
    BY <1>1, <1>2, PopIs DEF Delayed
<1>4. ASSUME NEW i \in 1 .. H PROVE history[i].at \in Nat
  <2>1. history[i] \in ServoCommands
    BY <1>2
  <2> QED
    BY <2>1 DEF ServoCommands
<1> DEFINE k == G - H + m
<1>5. k \in 1 .. G /\ history'[1] = log[k] /\ history[m] = log[k] /\ m \in Int
  <2>1. m \in Int /\ k \in 1 .. G /\ 1 \in 1 .. H - m + 1
    BY <1>2, <1>3
  <2>2. history'[1] = history[m]
    BY <1>3, <2>1
  <2> QED
    BY <1>2, <2>1, <2>2
<1>6. k = 1 \/ log[k].at <= time
  <2>1. CASE m >= 2
    BY <1>3, <1>5, <2>1
  <2>2. CASE m = 1 /\ H < G
    <3>1. \/ history[1].at < now - HistoryLength
          \/ history[1].at <= lastStamp - ServoDelay
      BY <2>2 DEF OdomInv, FrontOK
    <3>2. history[1].at \in Nat
      BY <1>2, <1>4
    <3>3. history[1].at <= time
      BY <1>0, <1>2, <3>1, <3>2
    <3> QED
      BY <1>5, <2>2, <3>3
  <2>3. CASE m = 1 /\ H = G
    BY <1>2, <2>3
  <2> QED
    BY <1>2, <1>5, <2>1, <2>2, <2>3, <1>3
<1>7. k < G => time < log[k + 1].at
  <2> SUFFICES ASSUME k < G PROVE time < log[k + 1].at
    OBVIOUS
  <2>1. m < H /\ m + 1 \in 1 .. H /\ G - H + (m + 1) = k + 1
    BY <1>2, <1>5
  <2>2. history[m + 1] = log[k + 1]
    BY <1>2, <2>1
  <2> QED
    BY <1>3, <2>1, <2>2
<1>8. InEffect(stamp) = log[k].angle
  <2> HIDE DEF k
  <2> QED
    BY <1>0, <1>2, <1>5, <1>6, <1>7, InEffectIs DEF OdomInv
<1>9. InEffect(stamp)' = log[k].angle /\ odomAngle' = log[k].angle
    BY <1>1, <1>5, <1>8 DEF InEffect
<1>10. DelayedSteering'
    BY <1>1, <1>8, <1>5 DEF DelayedSteering, InEffect
<1>11. HistoryOK'
  <2>1. ASSUME NEW i \in 1 .. H - m + 1 PROVE history'[i] = log[G - (H - m + 1) + i]
    <3>1. m + i - 1 \in 1 .. H /\ G - H + (m + i - 1) = G - (H - m + 1) + i
      BY <1>2, <1>3
    <3>2. history'[i] = history[m + i - 1]
      BY <1>3
    <3> QED
      BY <1>2, <3>1, <3>2
  <2>2. H - m + 1 <= G /\ H - m + 1 > 0
    BY <1>2, <1>3
  <2> QED
    BY <1>1, <1>2, <1>3, <2>1, <2>2 DEF HistoryOK
<1>12. LogOK' /\ ClockOK'
    BY <1>1, <1>2 DEF OdomInv, LogOK, ClockOK, NoStamp
<1>13. FrontOK'
  <2> SUFFICES ASSUME Len(history') < G PROVE history'[1].at <= stamp - ServoDelay
    BY <1>1 DEF FrontOK
  <2>1. k # 1
    BY <1>2, <1>3
  <2> QED
    BY <1>5, <1>6, <2>1
<1> QED
    BY <1>10, <1>11, <1>12, <1>13 DEF OdomInv

\* A servo command pops what no state can be late enough to need.
LEMMA ServoCallbackKeeps == OdomInv /\ ServoCmdCallback => OdomInv'
<1> SUFFICES ASSUME OdomInv, ServoCmdCallback PROVE OdomInv'
    OBVIOUS
<1>0. /\ ServoDelay \in Nat /\ ServoDelay > 0 /\ HistoryLength \in Nat
    BY VescToOdomAssumption DEF VescToOdomAssumption
<1>1. PICK command \in ServoCommands :
        /\ command.at = now
        /\ history' = Recent(Append(history, command))
        /\ log' = Append(log, command)
        /\ UNCHANGED <<now, lastStamp, odomAngle>>
  <2>1. PICK angle \in ServoAngles :
            /\ history' = Recent(Append(history, [at |-> now, angle |-> angle]))
            /\ log' = Append(log, [at |-> now, angle |-> angle])
            /\ UNCHANGED <<now, lastStamp, odomAngle>>
    BY DEF ServoCmdCallback
  <2>2. [at |-> now, angle |-> angle] \in ServoCommands
    BY DEF OdomInv, ClockOK, ServoCommands
  <2> QED
    BY <2>1, <2>2
<1> DEFINE G == Len(log)
           H == Len(history)
           more == Append(history, command)
           time == now - HistoryLength - 1
<1>2. /\ history \in Seq(ServoCommands) /\ log \in Seq(ServoCommands)
      /\ G \in Nat /\ H \in Nat /\ H <= G /\ (G > 0 => H > 0)
      /\ \A i \in 1 .. H : history[i] = log[G - H + i]
      /\ now \in Nat /\ lastStamp \in Int /\ time \in Int /\ lastStamp <= now
    BY <1>0 DEF OdomInv, HistoryOK, ClockOK
<1>3. /\ log' \in Seq(ServoCommands) /\ Len(log') = G + 1
      /\ \A i \in 1 .. G : log'[i] = log[i]
      /\ log'[G + 1] = command
    BY <1>1, <1>2, AppendProperties
<1>4. /\ more \in Seq(ServoCommands) /\ more # <<>> /\ Len(more) = H + 1
      /\ \A i \in 1 .. H : more[i] = history[i]
      /\ more[H + 1] = command
    BY <1>2, AppendProperties
<1>5. ASSUME NEW i \in 1 .. H + 1 PROVE more[i] = log'[G - H + i]
  <2>1. CASE i = H + 1
    BY <1>2, <1>3, <1>4, <2>1
  <2>2. CASE i # H + 1
    <3>1. i \in 1 .. H /\ G - H + i \in 1 .. G
      BY <1>2, <2>2
    <3> QED
      BY <1>2, <1>3, <1>4, <3>1
  <2> QED
    BY <2>1, <2>2
<1> HIDE DEF more
<1>p. PICK m \in 1 .. Len(more) :
        /\ PopUntil(time, more) \in Seq(ServoCommands)
        /\ Len(PopUntil(time, more)) = Len(more) - m + 1
        /\ \A i \in 1 .. Len(more) - m + 1 : PopUntil(time, more)[i] = more[m + i - 1]
        /\ m >= 2 => more[m].at <= time
  <2> HIDE DEF time
  <2> QED
    BY <1>2, <1>4, PopIs
<1>6. /\ m \in 1 .. H + 1
      /\ history' \in Seq(ServoCommands)
      /\ Len(history') = H + 1 - m + 1
      /\ \A i \in 1 .. H + 1 - m + 1 : history'[i] = more[m + i - 1]
      /\ m >= 2 => more[m].at <= time
  <2>1. history' = PopUntil(time, more)
    BY <1>1 DEF Recent, more
  <2>2. Len(more) = H + 1
    BY <1>4
  <2>3. m \in 1 .. H + 1 /\ (m >= 2 => more[m].at <= time)
    BY <1>p, <2>2
  <2>4. history' \in Seq(ServoCommands) /\ Len(history') = H + 1 - m + 1
    BY <1>p, <2>1, <2>2
  <2>5. ASSUME NEW i \in 1 .. H + 1 - m + 1 PROVE history'[i] = more[m + i - 1]
    <3>1. PopUntil(time, more)[i] = more[m + i - 1]
      BY <1>p, <2>2
    <3> QED
      BY <2>1, <3>1
  <2> QED
    BY <2>3, <2>4, <2>5
<1>7. ASSUME NEW i \in 1 .. G PROVE log[i].at \in Nat /\ log[i].at <= now
  <2>1. log[i] \in ServoCommands
    BY <1>2
  <2> QED
    BY <2>1 DEF ServoCommands, OdomInv, LogOK
<1>8. HistoryOK'
  <2>1. ASSUME NEW i \in 1 .. H + 1 - m + 1
        PROVE  history'[i] = log'[G + 1 - (H + 1 - m + 1) + i]
    <3>1. m + i - 1 \in 1 .. H + 1 /\ G - H + (m + i - 1) = G + 1 - (H + 1 - m + 1) + i
      BY <1>2, <1>6
    <3>2. history'[i] = more[m + i - 1]
      BY <1>6
    <3> QED
      BY <1>5, <3>1, <3>2
  <2>2. H + 1 - m + 1 <= G + 1 /\ H + 1 - m + 1 > 0
    BY <1>2, <1>6
  <2> QED
    BY <1>3, <1>6, <2>1, <2>2 DEF HistoryOK
<1>9. LogOK'
  <2>1. ASSUME NEW i \in 1 .. G + 1, NEW j \in 1 .. G + 1, i <= j
        PROVE  log'[i].at <= log'[j].at /\ log'[i].at <= now
    <3>1. CASE j \in 1 .. G
      <4>1. i \in 1 .. G /\ log[i].at <= log[j].at /\ log[i].at <= now
        BY <1>7, <2>1, <3>1 DEF OdomInv, LogOK
      <4> QED
        BY <1>3, <3>1, <4>1
    <3>2. CASE j = G + 1 /\ i \in 1 .. G
      BY <1>1, <1>2, <1>3, <1>7, <3>2
    <3>3. CASE j = G + 1 /\ i = G + 1
      BY <1>1, <1>2, <1>3, <3>3
    <3> QED
      BY <1>2, <2>1, <3>1, <3>2, <3>3
  <2>2. now' = now /\ Len(log') = G + 1
    BY <1>1, <1>3
  <2>3. ASSUME NEW i \in 1 .. G + 1 PROVE log'[i].at <= now
    <3>1. i <= i
      BY <1>2
    <3> QED
      BY <2>1, <3>1
  <2> QED
    BY <2>1, <2>2, <2>3 DEF LogOK
<1>10. ClockOK'
    BY <1>1, <1>2, <1>3 DEF OdomInv, ClockOK, NoStamp
<1>11. FrontOK'
  <2> SUFFICES ASSUME Len(history') < Len(log')
               PROVE  \/ history'[1].at < now - HistoryLength
                      \/ history'[1].at <= lastStamp - ServoDelay
    BY <1>1 DEF FrontOK
  <2>0. 1 \in 1 .. H + 1 - m + 1 /\ history'[1] = more[m] /\ m \in Int
    BY <1>2, <1>6
  <2>1. CASE m >= 2
    <3>1. more[m] \in ServoCommands
      BY <1>2, <1>4, <1>6
    <3>2. more[m].at <= time /\ more[m].at \in Nat
      BY <1>6, <2>1, <3>1 DEF ServoCommands
    <3>3. more[m].at < now - HistoryLength
      BY <1>0, <1>2, <3>2
    <3> QED
      BY <2>0, <3>3
  <2>2. CASE m = 1
    <3>1. H < G
      BY <1>2, <1>3, <1>6, <2>2
    <3>2. history'[1] = history[1]
      BY <1>2, <1>4, <2>0, <2>2, <3>1
    <3> QED
      BY <3>1, <3>2 DEF OdomInv, FrontOK
  <2> QED
    BY <2>0, <2>1, <2>2, <1>6
<1>12. DelayedSteering'
  <2> SUFFICES ASSUME lastStamp # NoStamp PROVE odomAngle = InEffect(lastStamp)'
    BY <1>1 DEF DelayedSteering
  <2> DEFINE early == {i \in DOMAIN log : log[i].at <= lastStamp - ServoDelay}
             early2 == {i \in DOMAIN log' : log'[i].at <= lastStamp - ServoDelay}
  <2>1. G > 0 /\ odomAngle = InEffect(lastStamp)
    BY DEF OdomInv, ClockOK, DelayedSteering
  <2>2. DOMAIN log = 1 .. G /\ DOMAIN log' = 1 .. G + 1
    BY <1>2, <1>3
  <2>3. G + 1 \notin early2
    BY <1>0, <1>1, <1>2, <1>3
  <2>4. early2 = early
    BY <1>2, <1>3, <2>2, <2>3
  <2>5. early # {} => Max(early) \in 1 .. G
    <3>1. early \in SUBSET (1 .. G)
      BY <2>2
    <3> HIDE DEF early
    <3> QED
      BY <1>2, <3>1, Greatest
  <2>6. log'[1] = log[1]
    BY <1>2, <1>3, <2>1
  <2>7. InEffect(lastStamp) = IF early = {} THEN log[1].angle ELSE log[Max(early)].angle
    BY DEF InEffect
  <2>8. InEffect(lastStamp)' = IF early2 = {} THEN log'[1].angle ELSE log'[Max(early2)].angle
    BY <1>1 DEF InEffect
  <2> HIDE DEF early, early2
  <2> QED
    BY <1>3, <2>1, <2>4, <2>5, <2>6, <2>7, <2>8
<1> QED
    BY <1>8, <1>9, <1>10, <1>11, <1>12 DEF OdomInv

\* Time makes entries older.
LEMMA TickKeeps == OdomInv /\ Tick => OdomInv'
<1> SUFFICES ASSUME OdomInv, Tick PROVE OdomInv'
    OBVIOUS
<1> USE DEF OdomInv
<1>1. /\ now \in Nat /\ lastStamp \in Int /\ now' = now + 1
      /\ UNCHANGED <<history, lastStamp, odomAngle, log>>
    BY DEF ClockOK, Tick
<1>2. HistoryOK'
    BY <1>1 DEF HistoryOK
<1>3. ASSUME NEW i \in 1 .. Len(log) PROVE log[i].at \in Nat
  <2>1. log[i] \in ServoCommands
    BY DEF HistoryOK
  <2> QED
    BY <2>1 DEF ServoCommands
<1>4. LogOK'
    BY <1>1, <1>3 DEF LogOK
<1>5. ClockOK'
    BY <1>1 DEF ClockOK, NoStamp
<1>6. FrontOK'
  <2> SUFFICES ASSUME Len(history) < Len(log)
               PROVE  \/ history[1].at < now' - HistoryLength
                      \/ history[1].at <= lastStamp - ServoDelay
    BY <1>1 DEF FrontOK
  <2>1. HistoryLength \in Nat
    BY VescToOdomAssumption DEF VescToOdomAssumption
  <2>2. history[1].at \in Nat
    <3>1. Len(history) \in Nat /\ Len(log) \in Nat /\ Len(history) > 0
      BY DEF HistoryOK
    <3>2. history[1] \in ServoCommands
      BY <3>1 DEF HistoryOK
    <3> QED
      BY <3>2 DEF ServoCommands
  <2> QED
    BY <1>1, <2>1, <2>2 DEF FrontOK
<1>7. DelayedSteering'
    BY <1>1 DEF DelayedSteering, InEffect
<1> QED
    BY <1>2, <1>4, <1>5, <1>6, <1>7

\* The other programs leave the odometry alone.
LEMMA OdomUnchanged == OdomInv /\ UNCHANGED odometryVars => OdomInv'
    BY DEF OdomInv, odometryVars, HistoryOK, LogOK, ClockOK, FrontOK, DelayedSteering, InEffect

\* No step of the programs loses a command that is still needed.
LEMMA OdomKeeps == OdomInv /\ [SideNext]_allVars => OdomInv'
<1> SUFFICES ASSUME OdomInv, [SideNext]_allVars PROVE OdomInv'
    OBVIOUS
<1>1. CASE Odometry
    BY <1>1, StateCallbackKeeps, ServoCallbackKeeps, TickKeeps DEF Odometry, Next
<1>2. CASE UNCHANGED odometryVars
    BY <1>2, OdomUnchanged
<1> QED
    BY <1>1, <1>2
    DEF SideNext, allVars, Command, SafetyTopic, PublishLoop, InterfaceStep, Deliver,
        Reset, Opponent, Teleop, DriveTimer, BridgeStep, SideTick, Joy

(* The odometry turns with the newest servo command that is at least the    *)
(* delay older than the measured speed, for any delay, any timing of the    *)
(* two callbacks, and states no later than a second less the delay.         *)
THEOREM SteeringIsDelayed == SideSpec => []DelayedSteering
<1>1. SideInit => OdomInv
    BY OdomInitHolds DEF SideInit
<1>2. OdomInv => DelayedSteering
    BY DEF OdomInv
<1> QED
    BY <1>1, <1>2, OdomKeeps, PTL DEF SideSpec
-------------------------------------------------------------------------------
(* Domains.                                                                *)
Binary == {0, 1}

DriveMessages == [speed : Binary, steering : Binary]

InterfaceOK ==
    /\ which \in Deployments /\ acted \in BOOLEAN
    /\ driveTopic \in Seq(DriveMessages) /\ Len(driveTopic) <= TopicDepth
    /\ latest = <<>> \/ \E command \in DriveCommands : latest = <<command>>
    /\ commandAge \in 0 .. Watchdog + 1
    /\ safetyStop \in BOOLEAN
    /\ sent.speed \in Binary
    /\ Simulated => sent \in DriveMessages
    /\ Real => sent.steering \in ServoMin .. ServoMax

\* A command on its way is a pair of the ticks left and the angle.
SteeringCommands == [left : 0 .. SteeringDelay, angle : Binary]

BridgeOK ==
    /\ {collision, latched, drivePublished, oppPublished, reported} \subseteq BOOLEAN
    /\ requested \in Binary /\ driven \in Binary /\ steer \in Binary
    /\ pending \in Seq(SteeringCommands) /\ Len(pending) <= MaxPending
    /\ sincePublish \in -1 .. 2 * PublishPeriod - 1

\* The integrals are bounded by the time integrated over.
OdomTime == IF lastStamp = NoStamp THEN 0 ELSE lastStamp
OdomOK ==
    /\ now <= Horizon
    /\ lastStamp >= -1
    /\ travelled \in 0 .. OdomTime
    /\ turned \in 0 .. OdomTime

JoyOK == published \subseteq Axes \cup Messages \cup Clients

SideTypes == InterfaceOK /\ BridgeOK /\ OdomInv /\ OdomOK /\ JoyOK

\* The bounds the constants put on the domains.
LEMMA SideConstants ==
    /\ Watchdog \in Nat /\ SteeringDelay \in Nat /\ MaxPending \in Nat
    /\ PublishPeriod \in Nat /\ PublishPeriod >= 1
    /\ TopicDepth \in Nat /\ TopicDepth >= 1
    /\ ServoCenter \in Int /\ ServoGain \in Int /\ ServoMin \in Int /\ ServoMax \in Int
    /\ ServoMin <= ServoCenter /\ ServoCenter <= ServoMax
    /\ Horizon \in Nat
    /\ DriveCommands \subseteq DriveMessages
    /\ \A command \in DriveCommands : command.speed \in Binary /\ command.steering \in Binary
    BY VehicleSideAssumption, DriveCommandAssumption, VescToOdomAssumption
    DEF Binary, DriveMessages, Bridge!SpeedValues, Bridge!SteeringValues

\* Initially everything is at rest.
LEMMA SideTypesInit == SideInit => SideTypes
<1> SUFFICES ASSUME SideInit PROVE SideTypes
    OBVIOUS
<1>1. InterfaceOK
  <2>1. /\ which \in Deployments /\ acted \in BOOLEAN /\ ~(Simulated /\ Real)
        /\ driveTopic = <<>>
    BY DEF SideInit, Simulated, Real
  <2>2. /\ latest = <<>> /\ commandAge = Watchdog + 1 /\ safetyStop = FALSE
        /\ sent = IF Real THEN RealInterface!StopOutput ELSE SimInterface!StopOutput
    BY DEF SideInit, RealInterface!Init, SimInterface!Init
  <2>3. sent = IF Real THEN [speed |-> 0, steering |-> ServoCenter]
                       ELSE [speed |-> 0, steering |-> 0]
    BY <2>2 DEF RealInterface!StopOutput, SimInterface!StopOutput, SimInterface!StopCommand
  <2>4. commandAge \in 0 .. Watchdog + 1
    BY <2>2, SideConstants
  <2>5. /\ sent.speed \in Binary
        /\ Simulated => sent \in DriveMessages
        /\ Real => sent.steering \in ServoMin .. ServoMax
    BY <2>1, <2>3, SideConstants DEF Binary, DriveMessages
  <2>6. safetyStop \in BOOLEAN
    BY <2>2
  <2>7. driveTopic \in Seq(DriveMessages) /\ Len(driveTopic) <= TopicDepth
    BY <2>1, SideConstants
  <2> QED
    BY <2>1, <2>2, <2>4, <2>5, <2>6, <2>7, Zenon DEF InterfaceOK
<1>2. BridgeOK
  <2>1. pending \in Seq(SteeringCommands) /\ Len(pending) <= MaxPending
    BY SideConstants DEF SideInit, Bridge!Init
  <2>2. sincePublish \in -1 .. 2 * PublishPeriod - 1
    BY SideConstants DEF SideInit, Bridge!Init, Bridge!Never
  <2> QED
    BY <2>1, <2>2 DEF SideInit, BridgeOK, Bridge!Init, Binary
<1>3. OdomInv
    BY OdomInitHolds DEF SideInit
<1>4. OdomOK
    BY SideConstants DEF SideInit, Init, OdomOK, OdomTime, NoStamp
<1>5. JoyOK
    BY DEF SideInit, Joystick!Init, JoyOK
<1> QED
    BY <1>1, <1>2, <1>3, <1>4, <1>5 DEF SideTypes

\* What the interface publishes is a command it was sent, clamped, or a stop.
LEMMA OutputTypes ==
    ASSUME InterfaceOK, (Simulated /\ SimInterface!PublishLoop) \/ (Real /\ RealInterface!PublishLoop)
    PROVE  /\ sent'.speed \in Binary
           /\ Simulated => sent' \in DriveMessages
           /\ Real => sent'.steering \in ServoMin .. ServoMax
<1>1. ~(Simulated /\ Real)
    BY DEF Simulated, Real
<1>2. latest # <<>> => latest[1] \in DriveCommands
    BY DEF InterfaceOK
<1>3. CASE Simulated /\ SimInterface!PublishLoop
  <2>1. sent' = [speed |-> 0, steering |-> 0] \/ (latest # <<>> /\ sent' = latest[1])
    BY <1>3 DEF SimInterface!PublishLoop, SimInterface!IsCmdStale, SimInterface!StopOutput,
                SimInterface!StopCommand, SimInterface!Output
  <2> QED
    BY <1>1, <1>2, <1>3, <2>1, SideConstants DEF Binary, DriveMessages
<1>4. CASE Real /\ RealInterface!PublishLoop
  <2>1. \/ sent' = [speed |-> 0, steering |-> ServoCenter]
        \/ /\ latest # <<>>
           /\ sent' = [speed |-> latest[1].speed,
                       steering |-> RealInterface!clampServo(
                                        ServoCenter + ServoGain * latest[1].steering)]
    BY <1>4 DEF RealInterface!PublishLoop, RealInterface!IsCmdStale, RealInterface!StopOutput,
                RealInterface!Output
  <2>2. ASSUME NEW servo \in Int PROVE RealInterface!clampServo(servo) \in ServoMin .. ServoMax
    BY SideConstants DEF RealInterface!clampServo
  <2>3. latest # <<>> => ServoCenter + ServoGain * latest[1].steering \in Int
    <3>1. CASE latest # <<>> /\ latest[1].steering = 0
      BY <3>1, SideConstants
    <3>2. CASE latest # <<>> /\ latest[1].steering = 1
      BY <3>2, SideConstants
    <3> QED
      BY <1>2, <3>1, <3>2, SideConstants DEF Binary
  <2>4. ServoCenter \in ServoMin .. ServoMax
    BY SideConstants
  <2>5. sent'.speed \in Binary
    BY <1>2, <2>1, SideConstants DEF Binary
  <2>6. sent'.steering \in ServoMin .. ServoMax
    BY <1>2, <2>1, <2>2, <2>3, <2>4
  <2> QED
    BY <1>1, <1>4, <2>5, <2>6
<1> QED
    BY <1>3, <1>4

\* A message is put behind those that wait, the oldest makes room for it.
LEMMA EnqueueIs ==
    ASSUME NEW q \in Seq(DriveMessages), Len(q) <= TopicDepth, NEW message \in DriveMessages
    PROVE  /\ Enqueue(q, message) \in Seq(DriveMessages)
           /\ Len(Enqueue(q, message)) <= TopicDepth
           /\ \E k \in {0, 1} :
                /\ Len(Enqueue(q, message)) = Len(q) + 1 - k
                /\ Enqueue(q, message)[Len(q) + 1 - k] = message
                /\ \A i \in 1 .. Len(q) - k : Enqueue(q, message)[i] = q[i + k]
<1>1. CASE Len(q) < TopicDepth
  <2>1. Enqueue(q, message) = Append(q, message)
    BY <1>1 DEF Enqueue
  <2>2. \A i \in 1 .. Len(q) : i + 0 = i
    OBVIOUS
  <2> QED
    BY <1>1, <2>1, <2>2, SideConstants, AppendProperties
<1>2. CASE Len(q) = TopicDepth
  <2> DEFINE t == Tail(q)
  <2>1. Enqueue(q, message) = Append(t, message) /\ q # <<>>
    BY <1>2, SideConstants DEF Enqueue
  <2>2. /\ t \in Seq(DriveMessages) /\ Len(t) = Len(q) - 1
        /\ \A i \in 1 .. Len(t) : t[i] = q[i + 1]
    BY <2>1, HeadTailProperties
  <2> HIDE DEF t
  <2>3. /\ Append(t, message) \in Seq(DriveMessages)
        /\ Len(Append(t, message)) = Len(t) + 1
        /\ \A i \in 1 .. Len(t) : Append(t, message)[i] = t[i]
        /\ Append(t, message)[Len(t) + 1] = message
    BY <2>2, AppendProperties
  <2> QED
    BY <1>2, <2>1, <2>2, <2>3, SideConstants
<1> QED
    BY <1>1, <1>2, SideConstants

LEMMA InterfaceTypes == InterfaceOK /\ [SideNext]_allVars => InterfaceOK'
<1> SUFFICES ASSUME InterfaceOK, [SideNext]_allVars PROVE InterfaceOK'
    OBVIOUS
<1> USE DEF InterfaceOK
<1>1. which' = which /\ (Simulated' <=> Simulated) /\ (Real' <=> Real)
    BY DEF SideNext, allVars, Command, SafetyTopic, PublishLoop, InterfaceStep, Deliver,
           Reset, Opponent, Teleop, DriveTimer, BridgeStep, SideTick, Odometry, Joy,
           Simulated, Real
<1>2. CASE Command
    BY <1>1, <1>2, SideConstants
    DEF Command, topicVars, InterfaceStep, SimInterface!DriveCallback, RealInterface!DriveCallback
<1>3. CASE SafetyTopic
    BY <1>1, <1>3
    DEF SafetyTopic, topicVars, InterfaceStep, SimInterface!SafetyCallback,
        RealInterface!SafetyCallback
<1>4. CASE PublishLoop
  <2>1. (Simulated /\ SimInterface!PublishLoop) \/ (Real /\ RealInterface!PublishLoop)
    BY <1>4 DEF PublishLoop, InterfaceStep
  <2>2. UNCHANGED <<latest, commandAge, safetyStop>>
    BY <2>1 DEF SimInterface!PublishLoop, RealInterface!PublishLoop
  <2>3. driveTopic' \in Seq(DriveMessages) /\ Len(driveTopic') <= TopicDepth
    <3>1. CASE Simulated
      BY <1>4, <2>1, <3>1, OutputTypes, EnqueueIs DEF PublishLoop
    <3>2. CASE ~Simulated
      BY <1>4, <3>2 DEF PublishLoop
    <3> QED
      BY <3>1, <3>2
  <2>4. acted' = acted
    BY <1>4 DEF PublishLoop
  <2> QED
    BY <1>1, <2>1, <2>2, <2>3, <2>4, OutputTypes
<1>5. CASE SideTick
    BY <1>1, <1>5, SideConstants
    DEF SideTick, topicVars, SimInterface!Tick, RealInterface!Tick
<1>6. CASE Deliver
  <2>1. UNCHANGED interfaceVars /\ driveTopic # <<>> /\ driveTopic' = Tail(driveTopic)
    BY <1>6 DEF Deliver, BridgeStep
  <2>2. driveTopic' \in Seq(DriveMessages) /\ Len(driveTopic') <= TopicDepth
    BY <2>1, SideConstants, HeadTailProperties
  <2>3. acted' \in BOOLEAN
    BY <1>6, Zenon DEF Deliver
  <2> QED
    BY <1>1, <2>1, <2>2, <2>3 DEF interfaceVars
<1>7. CASE UNCHANGED <<interfaceVars, driveTopic>> /\ acted' \in BOOLEAN
    BY <1>1, <1>7 DEF interfaceVars
<1>8. Reset \/ Teleop => acted' \in BOOLEAN
    BY Zenon DEF Reset, Teleop
<1> QED
    BY <1>2, <1>3, <1>4, <1>5, <1>6, <1>7, <1>8
    DEF SideNext, allVars, topicVars, Reset, Opponent, Teleop, DriveTimer, BridgeStep,
        Odometry, Joy

\* The commands that are due are popped from the front.
LEMMA FirstWaitingIs ==
    ASSUME BridgeOK
    PROVE  /\ Bridge!FirstWaiting \in 1 .. Len(pending) + 1
           /\ OpponentBridge!FirstWaiting = Bridge!FirstWaiting
<1> DEFINE S == {i \in 1 .. Len(pending) : pending[i].left > 0} \cup {Len(pending) + 1}
<1>1. Len(pending) \in Nat
    BY DEF BridgeOK
<1>2. S \in SUBSET (1 .. Len(pending) + 1) /\ S \in SUBSET Nat /\ S # {}
    BY <1>1
<1>3. Bridge!FirstWaiting = Min(S) /\ OpponentBridge!FirstWaiting = Min(S)
    BY DEF Bridge!FirstWaiting, OpponentBridge!FirstWaiting, Min, Bridge!Min, OpponentBridge!Min
<1> HIDE DEF S
<1>4. Min(S) \in S
    BY <1>2, Least DEF Min
<1> QED
    BY <1>2, <1>3, <1>4

LEMMA PoppedTypes ==
    ASSUME BridgeOK
    PROVE  /\ SubSeq(pending, Bridge!FirstWaiting, Len(pending)) \in Seq(SteeringCommands)
           /\ Len(SubSeq(pending, Bridge!FirstWaiting, Len(pending))) <= MaxPending
           /\ Bridge!DelayedSteer \in Binary
           /\ OpponentBridge!FirstWaiting = Bridge!FirstWaiting
           /\ OpponentBridge!DelayedSteer = Bridge!DelayedSteer
<1> DEFINE m == Bridge!FirstWaiting
           n == Len(pending)
<1>1. m \in 1 .. n + 1 /\ OpponentBridge!FirstWaiting = m
    BY FirstWaitingIs
<1>2. n \in Nat /\ pending \in Seq(SteeringCommands) /\ n <= MaxPending /\ MaxPending \in Nat
    BY SideConstants DEF BridgeOK
<1>3. ASSUME NEW i \in 1 .. n PROVE pending[i] \in SteeringCommands /\ pending[i].angle \in Binary
  <2>1. pending[i] \in SteeringCommands
    BY <1>2
  <2> QED
    BY <2>1 DEF SteeringCommands
<1>4. OpponentBridge!DelayedSteer = Bridge!DelayedSteer
    BY <1>1 DEF OpponentBridge!DelayedSteer, Bridge!DelayedSteer
<1>5. Bridge!DelayedSteer = IF m = 1 THEN steer ELSE pending[m - 1].angle
    BY DEF Bridge!DelayedSteer
<1> HIDE DEF m
<1>6. m # 1 => m - 1 \in 1 .. n
    BY <1>1, <1>2
<1>7. Bridge!DelayedSteer \in Binary
    BY <1>3, <1>5, <1>6 DEF BridgeOK
<1>8. CASE m <= n
  <2>1. m \in Int /\ n \in Int /\ \A i \in m .. n : pending[i] \in SteeringCommands
    BY <1>1, <1>2, <1>3
  <2>2. /\ SubSeq(pending, m, n) \in Seq(SteeringCommands)
        /\ Len(SubSeq(pending, m, n)) = n - m + 1
    BY <1>8, <2>1, SubSeqProperties
  <2>3. n - m + 1 <= MaxPending
    BY <1>1, <1>2
  <2> QED
    BY <1>1, <1>4, <1>7, <2>2, <2>3 DEF m
<1>9. CASE m = n + 1
  <2>1. SubSeq(pending, m, n) = <<>>
    BY <1>2, <1>9
  <2> QED
    BY <1>1, <1>2, <1>4, <1>7, <2>1 DEF m
<1> QED
    BY <1>1, <1>2, <1>8, <1>9

\* The steps of the bridge, one by one; those of the one with an opponent alike.
LEMMA DriveCallbackTypes ==
    ASSUME BridgeOK, NEW command, command.speed \in Binary, command.steering \in Binary,
           Bridge!DriveCallback(command) \/ OpponentBridge!DriveCallback(command)
    PROVE  BridgeOK'
<1>1. /\ requested' = command.speed /\ drivePublished' = TRUE
      /\ pending' = Append(pending, [left |-> SteeringDelay, angle |-> command.steering])
      /\ Len(pending) < MaxPending
      /\ UNCHANGED <<steer, collision, latched, oppPublished, sincePublish, driven, reported>>
    BY DEF Bridge!DriveCallback, OpponentBridge!DriveCallback
<1>2. [left |-> SteeringDelay, angle |-> command.steering] \in SteeringCommands
    BY SideConstants DEF SteeringCommands
<1>3. pending' \in Seq(SteeringCommands) /\ Len(pending') <= MaxPending
  <2>1. Len(pending') = Len(pending) + 1 /\ pending' \in Seq(SteeringCommands)
    BY <1>1, <1>2 DEF BridgeOK
  <2> QED
    BY <1>1, <2>1, SideConstants DEF BridgeOK
<1> QED
    BY <1>1, <1>3 DEF BridgeOK

LEMMA DriveTimerTypes ==
    ASSUME BridgeOK, Bridge!DriveTimerCallback \/ OpponentBridge!DriveTimerCallback
    PROVE  BridgeOK'
<1> DEFINE angle == Bridge!DelayedSteer
<1>0. /\ SubSeq(pending, Bridge!FirstWaiting, Len(pending)) \in Seq(SteeringCommands)
      /\ Len(SubSeq(pending, Bridge!FirstWaiting, Len(pending))) <= MaxPending
      /\ angle \in Binary
      /\ OpponentBridge!FirstWaiting = Bridge!FirstWaiting
      /\ OpponentBridge!DelayedSteer = angle
    BY PoppedTypes
<1> HIDE DEF angle
<1>1. /\ pending' = SubSeq(pending, Bridge!FirstWaiting, Len(pending))
      /\ driven' \in {requested, driven}
      /\ UNCHANGED <<drivePublished, oppPublished>>
    BY <1>0 DEF Bridge!DriveTimerCallback, OpponentBridge!DriveTimerCallback
<1>2. /\ collision' \in BOOLEAN /\ latched' \in BOOLEAN
      /\ requested' \in {0, requested} /\ steer' \in {0, angle}
    BY <1>0 DEF Bridge!DriveTimerCallback, OpponentBridge!DriveTimerCallback,
                Bridge!UpdateSimState, OpponentBridge!UpdateSimState, angle, BridgeOK
<1>3. Bridge!Publish
    BY DEF Bridge!DriveTimerCallback, OpponentBridge!DriveTimerCallback,
           Bridge!Publish, OpponentBridge!Publish, Bridge!Never, OpponentBridge!Never
<1>4. reported' \in BOOLEAN
    BY <1>2, <1>3 DEF Bridge!Publish, BridgeOK
<1>5. sincePublish' \in -1 .. 2 * PublishPeriod - 1
  <2>1. PublishPeriod \in Nat /\ PublishPeriod >= 1 /\ sincePublish \in -1 .. 2 * PublishPeriod - 1
    BY SideConstants DEF BridgeOK
  <2>2. CASE sincePublish' = sincePublish
    BY <2>1, <2>2
  <2>3. CASE sincePublish' = 0
    BY <2>1, <2>3
  <2>4. CASE sincePublish >= PublishPeriod /\ sincePublish' = sincePublish % PublishPeriod
    <3>1. sincePublish % PublishPeriod \in 0 .. PublishPeriod - 1
      BY <2>1, <2>4
    <3> QED
      BY <2>1, <2>4, <3>1
  <2> QED
    BY <1>3, <2>1, <2>2, <2>3, <2>4 DEF Bridge!Publish, Bridge!Never
<1> QED
    BY <1>0, <1>1, <1>2, <1>4, <1>5 DEF BridgeOK, Binary

LEMMA BridgeTickTypes ==
    ASSUME BridgeOK, Bridge!Tick
    PROVE  BridgeOK'
<1>1. ASSUME NEW i \in DOMAIN pending
      PROVE  [pending[i] EXCEPT !.left = IF @ = 0 THEN 0 ELSE @ - 1] \in SteeringCommands
  <2>1. pending[i] \in SteeringCommands
    BY DEF BridgeOK
  <2>2. (IF pending[i].left = 0 THEN 0 ELSE pending[i].left - 1) \in 0 .. SteeringDelay
    BY <2>1, SideConstants DEF SteeringCommands
  <2> QED
    BY <2>1, <2>2 DEF SteeringCommands
<1>2. pending' \in Seq(SteeringCommands) /\ Len(pending') = Len(pending)
  <2>1. DOMAIN pending = 1 .. Len(pending) /\ Len(pending) \in Nat
    BY DEF BridgeOK
  <2>2. pending' = [i \in 1 .. Len(pending) |->
                        [pending[i] EXCEPT !.left = IF @ = 0 THEN 0 ELSE @ - 1]]
    BY <2>1 DEF Bridge!Tick
  <2>3. pending' \in [1 .. Len(pending) -> SteeringCommands]
    BY <1>1, <2>1, <2>2
  <2>4. pending' \in Seq(SteeringCommands)
    BY <2>1, <2>3
  <2> QED
    BY <2>1, <2>2, <2>4
<1>3. sincePublish' \in -1 .. 2 * PublishPeriod - 1
  <2>1. PublishPeriod \in Nat /\ PublishPeriod >= 1 /\ sincePublish \in -1 .. 2 * PublishPeriod - 1
    BY SideConstants DEF BridgeOK
  <2>2. sincePublish' = IF sincePublish = 2 * PublishPeriod - 1 THEN PublishPeriod
                        ELSE IF sincePublish = -1 THEN -1 ELSE sincePublish + 1
    BY DEF Bridge!Tick, Bridge!Never
  <2> QED
    BY <2>1, <2>2
<1> QED
    BY <1>2, <1>3 DEF Bridge!Tick, BridgeOK

\* Resets, the latch, the opponent and the keyboard move values they know.
LEMMA OtherBridgeTypes ==
    ASSUME BridgeOK,
           \/ Bridge!DriveCallbackLatched
           \/ Bridge!EgoResetCallback \/ OpponentBridge!EgoResetCallback
           \/ OpponentBridge!OppDriveCallback \/ OpponentBridge!OppResetCallback
           \/ Bridge!TeleopCallback \/ OpponentBridge!TeleopCallback
    PROVE  BridgeOK'
<1> USE DEF BridgeOK, Binary
<1>1. CASE Bridge!DriveCallbackLatched
    BY <1>1 DEF Bridge!DriveCallbackLatched
<1>2. CASE Bridge!EgoResetCallback \/ OpponentBridge!EgoResetCallback
  <2>1. /\ pending' = <<>> /\ requested' = 0 /\ steer' = 0 /\ driven' = 0
        /\ drivePublished' = FALSE /\ collision' \in BOOLEAN /\ latched' \in BOOLEAN
        /\ UNCHANGED <<oppPublished, sincePublish, reported>>
    BY <1>2 DEF Bridge!EgoResetCallback, OpponentBridge!EgoResetCallback,
                Bridge!ForgetCommands, OpponentBridge!ForgetCommands
  <2>2. pending' \in Seq(SteeringCommands) /\ Len(pending') <= MaxPending
    BY <2>1, SideConstants
  <2> QED
    BY <2>1, <2>2
<1>3. CASE OpponentBridge!OppDriveCallback
    BY <1>3 DEF OpponentBridge!OppDriveCallback
<1>4. CASE OpponentBridge!OppResetCallback
    BY <1>4 DEF OpponentBridge!OppResetCallback, OpponentBridge!UpdateSimState
<1>5. CASE Bridge!TeleopCallback \/ OpponentBridge!TeleopCallback
    BY <1>5 DEF Bridge!TeleopCallback, OpponentBridge!TeleopCallback,
                Bridge!SpeedValues, Bridge!SteeringValues
<1> QED
    BY <1>1, <1>2, <1>3, <1>4, <1>5

LEMMA BridgeTypes == InterfaceOK /\ BridgeOK /\ [SideNext]_allVars => BridgeOK'
<1> SUFFICES ASSUME InterfaceOK, BridgeOK, [SideNext]_allVars PROVE BridgeOK'
    OBVIOUS
<1>1. CASE BridgeIdle
    BY <1>1 DEF BridgeIdle, bridgeVars, BridgeOK
<1>2. CASE Deliver
  <2>1. Head(driveTopic).speed \in Binary /\ Head(driveTopic).steering \in Binary
    <3>1. Head(driveTopic) \in DriveMessages
      BY <1>2, HeadTailProperties DEF Deliver, InterfaceOK
    <3> QED
      BY <3>1 DEF DriveMessages
  <2> QED
    BY <1>2, <2>1, DriveCallbackTypes, OtherBridgeTypes DEF Deliver, BridgeStep
<1>3. CASE Reset \/ Opponent \/ Teleop
    BY <1>3, OtherBridgeTypes DEF Reset, Opponent, Teleop, BridgeStep
<1>4. CASE DriveTimer
    BY <1>4, DriveTimerTypes DEF DriveTimer, BridgeStep
<1>5. CASE SideTick
    BY <1>5, BridgeTickTypes DEF SideTick, bridgeVars, BridgeOK
<1> QED
    BY <1>1, <1>2, <1>3, <1>4, <1>5, StepKinds

\* The integrals grow by at most the time since the last state.
LEMMA StateCallbackTypes ==
    ASSUME OdomInv, OdomOK, VescStateCallback
    PROVE  OdomOK'
<1>1. PICK stamp \in 0 .. now, speed \in MotorSpeeds :
        LET dt == IF lastStamp = NoStamp THEN 0 ELSE stamp - lastStamp
        IN  /\ stamp >= lastStamp
            /\ history' = Delayed(history, stamp)
            /\ odomAngle' = history'[1].angle
            /\ travelled' = travelled + speed * dt
            /\ turned' = turned + speed * odomAngle' * dt
            /\ lastStamp' = stamp
    BY DEF VescStateCallback
<1> DEFINE dt == IF lastStamp = NoStamp THEN 0 ELSE stamp - lastStamp
<1>2. now \in Nat /\ lastStamp \in Int /\ lastStamp >= -1 /\ stamp \in Nat /\ stamp <= now
    BY DEF OdomInv, ClockOK, OdomOK
<1>3. dt \in Nat /\ OdomTime + dt <= stamp /\ OdomTime \in Nat
    BY <1>1, <1>2 DEF OdomTime, NoStamp
<1>4. OdomTime' = stamp
    BY <1>1, <1>2 DEF OdomTime, NoStamp
<1>5. odomAngle' \in {0, 1}
  <2>1. history \in Seq(ServoCommands) /\ history # <<>>
    BY DEF OdomInv, HistoryOK, VescStateCallback
  <2>2. stamp - ServoDelay \in Int
    BY <1>2, VescToOdomAssumption
  <2>3. history' \in Seq(ServoCommands) /\ Len(history') >= 1
    BY <1>1, <2>1, <2>2, PopIs DEF Delayed
  <2>4. history'[1] \in ServoCommands
    BY <2>3
  <2> QED
    BY <1>1, <2>4 DEF ServoCommands, ServoAngles
<1>6. travelled' = travelled + speed * dt /\ turned' = turned + speed * odomAngle' * dt
    BY <1>1
<1> HIDE DEF dt
<1>7. speed * dt \in {0, dt} /\ speed * odomAngle' * dt \in {0, dt}
  <2>1. speed \in {0, 1}
    BY DEF MotorSpeeds
  <2>2. \A d \in Nat : 0 * d = 0 /\ 1 * d = d
    OBVIOUS
  <2>3. speed * odomAngle' \in {0, 1}
    <3>1. odomAngle' \in Nat
      BY <1>5
    <3>2. CASE speed = 0
      BY <2>2, <3>1, <3>2
    <3>3. CASE speed = 1
      BY <1>5, <2>2, <3>1, <3>3
    <3> QED
      BY <2>1, <3>2, <3>3
  <2> QED
    BY <1>3, <2>1, <2>2, <2>3
<1>8. travelled \in 0 .. OdomTime /\ turned \in 0 .. OdomTime /\ now <= Horizon
    BY DEF OdomOK
<1>9. travelled' \in 0 .. stamp /\ turned' \in 0 .. stamp
    BY <1>2, <1>3, <1>6, <1>7, <1>8
<1>10. now' = now /\ lastStamp' = stamp
    BY <1>1 DEF VescStateCallback
<1> QED
    BY <1>2, <1>4, <1>8, <1>9, <1>10 DEF OdomOK

LEMMA OdomTypes == OdomInv /\ OdomOK /\ [SideNext]_allVars => OdomOK'
<1> SUFFICES ASSUME OdomInv, OdomOK, [SideNext]_allVars PROVE OdomOK'
    OBVIOUS
<1>1. CASE UNCHANGED odometryVars
    BY <1>1 DEF odometryVars, OdomOK, OdomTime
<1>2. CASE VescStateCallback
    BY <1>2, StateCallbackTypes
<1>3. CASE ServoCmdCallback
    BY <1>3 DEF ServoCmdCallback, OdomOK, OdomTime
<1>4. CASE Tick
    BY <1>4, SideConstants DEF Tick, OdomOK, OdomTime, OdomInv, ClockOK
<1> QED
    BY <1>1, <1>2, <1>3, <1>4
    DEF SideNext, allVars, Command, SafetyTopic, PublishLoop, InterfaceStep, Deliver,
        Reset, Opponent, Teleop, DriveTimer, BridgeStep, SideTick, Joy, Odometry, Next

\* Only topic commands, services and actions publish or call.
LEMMA JoyTypes == JoyOK /\ [SideNext]_allVars => JoyOK'
<1> SUFFICES ASSUME JoyOK, [SideNext]_allVars PROVE JoyOK'
    OBVIOUS
<1>1. CASE UNCHANGED published
    BY <1>1 DEF JoyOK
<1>2. CASE Joystick!JoyCallback
    BY <1>2 DEF Joystick!JoyCallback, JoyOK
<1> QED
    BY <1>1, <1>2
    DEF SideNext, allVars, joyVars, Command, SafetyTopic, PublishLoop, InterfaceStep, Deliver,
        Reset, Opponent, Teleop, DriveTimer, BridgeStep, SideTick, Odometry, Joy,
        Joystick!Next, Joystick!ServerChanges

LEMMA SideTypesInvariant == SideSpec => []SideTypes
<1>1. SideTypes /\ [SideNext]_allVars => SideTypes'
    BY InterfaceTypes, BridgeTypes, OdomKeeps, OdomTypes, JoyTypes DEF SideTypes
<1> QED
    BY <1>1, SideTypesInit, PTL DEF SideSpec

(* Every variable keeps its domain, in every deployment: a servo command is *)
(* within the servo's limits, the steering queue within its bound, the      *)
(* publication grid within two periods, the integrals within the time run.  *)
THEOREM TypesHold == SideSpec => []TypeOK
<1>1. SideTypes => TypeOK
  <2> SUFFICES ASSUME SideTypes PROVE TypeOK
      OBVIOUS
  <2>1. Len(latest) <= 1 /\ \A i \in DOMAIN latest : latest[i] \in DriveCommands
    <3>1. CASE latest = <<>>
      BY <3>1
    <3>2. CASE latest # <<>>
      <4>1. PICK command \in DriveCommands : latest = <<command>>
        BY <3>2 DEF SideTypes, InterfaceOK
      <4> QED
        BY <4>1
    <3> QED
      BY <3>1, <3>2
  <2>2. /\ which \in Deployments /\ commandAge \in 0 .. Watchdog + 1
        /\ {acted, safetyStop, collision, latched, drivePublished, oppPublished,
            reported} \subseteq BOOLEAN
        /\ Real => sent.steering \in ServoMin .. ServoMax
        /\ sincePublish \in -1 .. 2 * PublishPeriod - 1
        /\ published \subseteq Axes \cup Messages \cup Clients
        /\ Len(pending) <= MaxPending
    BY DEF SideTypes, InterfaceOK, BridgeOK, JoyOK
  <2>3. /\ sent.speed \in Bridge!SpeedValues /\ requested \in Bridge!SpeedValues
        /\ driven \in Bridge!SpeedValues /\ steer \in Bridge!SteeringValues
    BY DEF SideTypes, InterfaceOK, BridgeOK, Binary, Bridge!SpeedValues, Bridge!SteeringValues
  <2>4. ASSUME NEW i \in DOMAIN pending PROVE pending[i].left \in 0 .. SteeringDelay
    <3>1. pending[i] \in SteeringCommands
      BY DEF SideTypes, BridgeOK
    <3> QED
      BY <3>1 DEF SteeringCommands
  <2>5. lastStamp \in -1 .. now /\ {travelled, turned} \subseteq 0 .. Horizon
    <3>1. /\ now \in Nat /\ lastStamp \in Int /\ lastStamp <= now /\ now <= Horizon
          /\ lastStamp >= -1 /\ travelled \in 0 .. OdomTime /\ turned \in 0 .. OdomTime
      BY DEF SideTypes, OdomInv, ClockOK, OdomOK
    <3>2. OdomTime \in 0 .. Horizon
      BY <3>1, SideConstants DEF OdomTime, NoStamp
    <3>3. travelled \in 0 .. Horizon /\ turned \in 0 .. Horizon
      BY <3>1, <3>2, SideConstants
    <3> QED
      BY <3>1, <3>3
  <2>6. /\ Len(driveTopic) <= TopicDepth
        /\ \A i \in DOMAIN driveTopic : driveTopic[i].speed \in Bridge!SpeedValues
    <3>1. ASSUME NEW i \in DOMAIN driveTopic PROVE driveTopic[i].speed \in Binary
      <4>1. driveTopic[i] \in DriveMessages
        BY DEF SideTypes, InterfaceOK
      <4> QED
        BY <4>1 DEF DriveMessages
    <3> QED
      BY <3>1 DEF SideTypes, InterfaceOK, Binary, Bridge!SpeedValues
  <2> QED
    BY <2>1, <2>2, <2>3, <2>4, <2>5, <2>6 DEF TypeOK
<1> QED
    BY <1>1, SideTypesInvariant, PTL
-------------------------------------------------------------------------------
(* Resets.                                                                 *)

\* No steering angle waits in the bridge.
Straight == \A i \in DOMAIN pending : pending[i].angle = 0

\* What is popped from a straight queue is straight, and so is what remains.
LEMMA StraightPops ==
    ASSUME BridgeOK, steer = 0, Straight, pending' = SubSeq(pending, Bridge!FirstWaiting, Len(pending))
    PROVE  Bridge!DelayedSteer = 0 /\ OpponentBridge!DelayedSteer = 0 /\ Straight'
<1> DEFINE m == Bridge!FirstWaiting
           n == Len(pending)
<1>1. m \in 1 .. n + 1 /\ OpponentBridge!FirstWaiting = m
    BY FirstWaitingIs
<1>2. n \in Nat /\ pending \in Seq(SteeringCommands) /\ DOMAIN pending = 1 .. n
    BY DEF BridgeOK
<1>3. Bridge!DelayedSteer = IF m = 1 THEN steer ELSE pending[m - 1].angle
    BY DEF Bridge!DelayedSteer
<1>4. OpponentBridge!DelayedSteer = IF m = 1 THEN steer ELSE pending[m - 1].angle
    BY <1>1 DEF OpponentBridge!DelayedSteer
<1> HIDE DEF m
<1>5. m # 1 => m - 1 \in 1 .. n
    BY <1>1, <1>2
<1>6. Straight'
  <2>1. CASE m <= n
    <3>1. m \in Int /\ n \in Int /\ \A i \in m .. n : pending[i] \in SteeringCommands
      BY <1>1, <1>2
    <3>2. /\ SubSeq(pending, m, n) \in Seq(SteeringCommands)
          /\ Len(SubSeq(pending, m, n)) = n - m + 1
          /\ \A i \in 1 .. n - m + 1 : SubSeq(pending, m, n)[i] = pending[m + i - 1]
      BY <2>1, <3>1, SubSeqProperties
    <3>3. pending' = SubSeq(pending, m, n) /\ DOMAIN pending' = 1 .. n - m + 1
      BY <3>2 DEF m
    <3>4. \A i \in 1 .. n - m + 1 : m + i - 1 \in 1 .. n
      BY <1>1, <1>2
    <3> QED
      BY <1>2, <3>2, <3>3, <3>4 DEF Straight
  <2>2. CASE m = n + 1
    <3>1. pending' = <<>>
      BY <1>2, <2>2 DEF m
    <3> QED
      BY <3>1 DEF Straight
  <2> QED
    BY <1>1, <1>2, <2>1, <2>2
<1> QED
    BY <1>2, <1>3, <1>4, <1>5, <1>6 DEF Straight

\* Nothing handled before a reset is left in the bridge.
ForgetInv == ~acted => requested = 0 /\ steer = 0 /\ driven = 0 /\ Straight

LEMMA BridgeForgets ==
    ASSUME SideTypes, LatchInv, ForgetInv, [SideNext]_allVars
    PROVE  ForgetInv'
<1> SUFFICES ASSUME ~acted'
             PROVE  requested' = 0 /\ steer' = 0 /\ driven' = 0 /\ Straight'
    BY DEF ForgetInv
<1> USE DEF ForgetInv, BridgeStep
<1>1. CASE BridgeIdle
    BY <1>1 DEF BridgeIdle, bridgeVars, Straight
<1>2. CASE Deliver
  <2>1. ~acted /\ (latched \/ Head(driveTopic) = [speed |-> 0, steering |-> 0])
    BY <1>2 DEF Deliver, SimInterface!StopCommand
  <2>2. CASE Bridge!DriveCallbackLatched
    BY <1>2, <2>1, <2>2 DEF Bridge!DriveCallbackLatched, Straight
  <2>3. CASE ~Bridge!DriveCallbackLatched
    <3>1. Head(driveTopic) = [speed |-> 0, steering |-> 0]
      BY <1>2, <2>1, <2>3 DEF Deliver, LatchInv, Bridge!DriveCallback
    <3>2. /\ requested' = 0
          /\ pending' = Append(pending, [left |-> SteeringDelay, angle |-> 0])
          /\ UNCHANGED <<steer, driven>>
      BY <1>2, <2>3, <3>1 DEF Deliver, Bridge!DriveCallback, OpponentBridge!DriveCallback
    <3>3. Straight'
      <4>1. [left |-> SteeringDelay, angle |-> 0] \in SteeringCommands
        BY SideConstants DEF SteeringCommands, Binary
      <4>2. pending \in Seq(SteeringCommands)
        BY DEF SideTypes, BridgeOK
      <4>3. /\ Len(pending') = Len(pending) + 1 /\ pending' \in Seq(SteeringCommands)
            /\ \A i \in 1 .. Len(pending) : pending'[i] = pending[i]
            /\ pending'[Len(pending) + 1].angle = 0
        BY <3>2, <4>1, <4>2, AppendProperties
      <4> QED
        BY <2>1, <4>2, <4>3 DEF Straight
    <3> QED
      BY <2>1, <3>2, <3>3
  <2> QED
    BY <2>2, <2>3
<1>3. CASE Reset
    BY <1>3 DEF Reset, Bridge!EgoResetCallback, OpponentBridge!EgoResetCallback,
                Bridge!ForgetCommands, OpponentBridge!ForgetCommands, Straight
<1>4. CASE Opponent
    BY <1>4 DEF Opponent, topicVars, OpponentBridge!OppDriveCallback,
                OpponentBridge!OppResetCallback, OpponentBridge!UpdateSimState, Straight
<1>5. CASE Teleop
    BY <1>5 DEF Teleop, Bridge!TeleopCallback, OpponentBridge!TeleopCallback, Straight
<1>6. CASE DriveTimer
  <2>1. ~acted
    BY <1>6 DEF DriveTimer, topicVars
  <2>2. pending' = SubSeq(pending, Bridge!FirstWaiting, Len(pending))
    BY <1>6, FirstWaitingIs DEF DriveTimer, SideTypes, Bridge!DriveTimerCallback,
                                OpponentBridge!DriveTimerCallback
  <2>3. Bridge!DelayedSteer = 0 /\ OpponentBridge!DelayedSteer = 0 /\ Straight'
    BY <2>1, <2>2, StraightPops DEF SideTypes
  <2> QED
    BY <1>6, <2>1, <2>3
    DEF DriveTimer, Bridge!DriveTimerCallback, OpponentBridge!DriveTimerCallback,
        Bridge!UpdateSimState, OpponentBridge!UpdateSimState
<1>7. CASE SideTick
  <2>1. ~acted /\ UNCHANGED <<requested, steer, driven>>
    BY <1>7 DEF SideTick, topicVars, Bridge!Tick, bridgeVars
  <2>2. CASE UNCHANGED pending
    BY <2>1, <2>2 DEF Straight
  <2>3. CASE Bridge!Tick
    <3>1. /\ DOMAIN pending' = DOMAIN pending
          /\ \A i \in DOMAIN pending :
                pending'[i] = [pending[i] EXCEPT !.left = IF @ = 0 THEN 0 ELSE @ - 1]
      BY <2>3 DEF Bridge!Tick
    <3>2. ASSUME NEW i \in DOMAIN pending PROVE pending'[i].angle = pending[i].angle
      <4>1. pending[i] \in SteeringCommands
        BY DEF SideTypes, BridgeOK
      <4> QED
        BY <3>1, <4>1 DEF SteeringCommands
    <3> QED
      BY <2>1, <3>1, <3>2 DEF Straight
  <2> QED
    BY <1>7, <2>1, <2>2, <2>3 DEF SideTick, bridgeVars
<1> QED
    BY <1>1, <1>2, <1>3, <1>4, <1>5, <1>6, <1>7, StepKinds

(* What the bridge had handled before a reset neither steers nor moves the *)
(* car after it, for any delay and any number of commands that wait: until *)
(* the next reset all it does is due to messages handled since, those of   *)
(* before the reset that were still waiting on the drive topic included.   *)
THEOREM ResetsForget == SideSpec => []ResetForgets
<1>1. SideInit => ForgetInv
    BY DEF SideInit, Bridge!Init, ForgetInv, Straight
<1>2. SideTypes /\ LatchInv /\ ForgetInv /\ [SideNext]_allVars => ForgetInv'
    BY BridgeForgets
<1>3. ForgetInv => ResetForgets
    BY DEF ForgetInv, ResetForgets, Straight
<1> QED
    BY <1>1, <1>2, <1>3, SideTypesInvariant, LatchInvariant, PTL DEF SideSpec
-------------------------------------------------------------------------------
(* Rest.                                                                   *)

\* A silent interface sends a stop or nothing.
LEMMA InterfaceRests ==
    ASSUME sent.speed = 0, Silent, [SideNext]_allVars
    PROVE  sent'.speed = 0
<1>1. CASE PublishLoop
  <2>1. \/ SimInterface!PublishLoop
        \/ RealInterface!PublishLoop
    BY <1>1 DEF PublishLoop, InterfaceStep
  <2>2. CASE SimInterface!PublishLoop
    BY <2>2 DEF Silent, SimInterface!PublishLoop, SimInterface!IsCmdStale,
                SimInterface!StopOutput, SimInterface!StopCommand
  <2>3. CASE RealInterface!PublishLoop
    BY <2>3 DEF Silent, RealInterface!PublishLoop, RealInterface!IsCmdStale,
                RealInterface!StopOutput
  <2> QED
    BY <2>1, <2>2, <2>3
<1>2. CASE UNCHANGED sent
    BY <1>2
<1> QED
    BY <1>1, <1>2
    DEF SideNext, allVars, interfaceVars, Command, SafetyTopic, InterfaceStep, Deliver, Reset,
        Opponent, Teleop, DriveTimer, BridgeStep, SideTick, Odometry, Joy,
        SimInterface!DriveCallback, RealInterface!DriveCallback,
        SimInterface!SafetyCallback, RealInterface!SafetyCallback,
        SimInterface!Tick, RealInterface!Tick

\* What waits on the drive topic: nothing but stops.
OnlyStops(q) == \A i \in DOMAIN q : q[i].speed = 0

\* A stop behind stops, and what is left of stops, are stops.
LEMMA StopsStay ==
    ASSUME NEW q \in Seq(DriveMessages), Len(q) <= TopicDepth, OnlyStops(q)
    PROVE  /\ q # <<>> => Head(q).speed = 0 /\ OnlyStops(Tail(q))
           /\ \A message \in DriveMessages :
                message.speed = 0 => OnlyStops(Enqueue(q, message))
<1>1. ASSUME q # <<>> PROVE Head(q).speed = 0 /\ OnlyStops(Tail(q))
  <2>1. /\ Tail(q) \in Seq(DriveMessages) /\ Len(Tail(q)) = Len(q) - 1
        /\ \A i \in 1 .. Len(Tail(q)) : Tail(q)[i] = q[i + 1]
    BY <1>1, HeadTailProperties
  <2>2. Head(q) = q[1] /\ 1 \in DOMAIN q
    BY <1>1
  <2> QED
    BY <2>1, <2>2 DEF OnlyStops
<1>2. ASSUME NEW message \in DriveMessages, message.speed = 0
      PROVE  OnlyStops(Enqueue(q, message))
  <2> DEFINE e == Enqueue(q, message)
  <2>1. PICK k \in {0, 1} : /\ Len(e) = Len(q) + 1 - k /\ e[Len(q) + 1 - k] = message
                            /\ \A i \in 1 .. Len(q) - k : e[i] = q[i + k]
    BY EnqueueIs
  <2>2. e \in Seq(DriveMessages)
    BY EnqueueIs
  <2> HIDE DEF e
  <2>3. ASSUME NEW i \in DOMAIN e PROVE e[i].speed = 0
    <3>1. i \in 1 .. Len(q) + 1 - k
      BY <2>1, <2>2
    <3>2. CASE i = Len(q) + 1 - k
      BY <1>2, <2>1, <3>2
    <3>3. CASE i \in 1 .. Len(q) - k
      <4>1. i + k \in DOMAIN q /\ e[i] = q[i + k]
        BY <2>1, <3>3
      <4> QED
        BY <4>1 DEF OnlyStops
    <3> QED
      BY <3>1, <3>2, <3>3
  <2> QED
    BY <2>3 DEF OnlyStops, e
<1> QED
    BY <1>1, <1>2

\* A bridge with nothing but stops to handle, and by no keyboard told otherwise, rests.
LEMMA BridgeRests ==
    ASSUME InterfaceOK, OnlyStops(driveTopic), requested = 0, driven = 0,
           ~Teleop, [SideNext]_allVars
    PROVE  requested' = 0 /\ driven' = 0
<1> USE DEF BridgeStep
<1>1. CASE BridgeIdle
    BY <1>1 DEF BridgeIdle, bridgeVars
<1>2. CASE Deliver
  <2>1. Head(driveTopic).speed = 0
    BY <1>2, StopsStay DEF Deliver, InterfaceOK
  <2> QED
    BY <1>2, <2>1 DEF Deliver, Bridge!DriveCallback, Bridge!DriveCallbackLatched,
                      OpponentBridge!DriveCallback
<1>3. CASE Reset
    BY <1>3 DEF Reset, Bridge!EgoResetCallback, OpponentBridge!EgoResetCallback,
                Bridge!ForgetCommands, OpponentBridge!ForgetCommands
<1>4. CASE Opponent
    BY <1>4 DEF Opponent, OpponentBridge!OppDriveCallback, OpponentBridge!OppResetCallback,
                OpponentBridge!UpdateSimState
<1>5. CASE DriveTimer
    BY <1>5 DEF DriveTimer, Bridge!DriveTimerCallback, OpponentBridge!DriveTimerCallback,
                Bridge!UpdateSimState, OpponentBridge!UpdateSimState
<1>6. CASE SideTick
    BY <1>6 DEF SideTick, Bridge!Tick, bridgeVars
<1> QED
    BY <1>1, <1>2, <1>3, <1>4, <1>5, <1>6, StepKinds

\* A silent interface adds only stops to the drive topic.
LEMMA TopicRests ==
    ASSUME InterfaceOK, InterfaceOK', OnlyStops(driveTopic), sent.speed = 0, Silent,
           [SideNext]_allVars
    PROVE  OnlyStops(driveTopic')
<1>1. CASE PublishLoop /\ Simulated
  <2>1. Simulated'
    BY <1>1 DEF PublishLoop, InterfaceStep, Simulated
  <2>2. sent' \in DriveMessages /\ sent'.speed = 0
    BY <2>1, InterfaceRests DEF InterfaceOK
  <2> QED
    BY <1>1, <2>2, StopsStay DEF PublishLoop, InterfaceOK
<1>2. CASE Deliver
    BY <1>2, StopsStay DEF Deliver, InterfaceOK
<1>3. CASE UNCHANGED driveTopic
    BY <1>3
<1> QED
    BY <1>1, <1>2, <1>3
    DEF SideNext, allVars, topicVars, Command, SafetyTopic, PublishLoop, Reset,
        Opponent, Teleop, DriveTimer, SideTick, Odometry, Joy

(* A car at rest, with nothing but stops waiting on the drive topic, stays  *)
(* so while the controller is silent or a stop is asked for, however the    *)
(* programs interleave and whatever is delayed in the bridge, for any       *)
(* watchdog, delay and depth of the topic: the rest that StopReachesVehicle *)
(* promises, once the moving commands that still wait have run out, lasts.  *)
THEOREM RestLasts == SideSpec => StaysAtRest
<1>1. ASSUME SideTypes, SideTypes', [SideNext]_allVars, AtRest, Silent, ~Teleop
      PROVE  AtRest'
  <2>1. OnlyStops(driveTopic)
    BY <1>1 DEF AtRest, OnlyStops
  <2>2. sent'.speed = 0 /\ requested' = 0 /\ driven' = 0
    BY <1>1, <2>1, InterfaceRests, BridgeRests DEF AtRest, SideTypes
  <2>3. OnlyStops(driveTopic')
    BY <1>1, <2>1, TopicRests DEF AtRest, SideTypes
  <2> QED
    BY <2>2, <2>3 DEF AtRest, OnlyStops
<1>2. SideTypes /\ SideTypes' /\ [SideNext]_allVars
        => [AtRest /\ Silent => AtRest' \/ Teleop]_allVars
    BY <1>1
<1> QED
    BY <1>2, SideTypesInvariant, PTL DEF SideSpec, StaysAtRest
-------------------------------------------------------------------------------
(* The publication grid of the bridge: why CollisionReported holds.        *)

\* The phase of the grid: past a period a publication is due.
Due == sincePublish = -1 \/ sincePublish >= PublishPeriod

\* The timer of the bridge publishes exactly when a publication is due.
LEMMA TimerPublishes ==
    ASSUME SideTypes, DriveTimer
    PROVE  IF Due THEN reported' = collision' /\ sincePublish' \in 0 .. PublishPeriod - 1
                  ELSE reported' = reported /\ sincePublish' = sincePublish
<1>1. Bridge!Publish
    BY DEF DriveTimer, BridgeStep, Bridge!DriveTimerCallback, OpponentBridge!DriveTimerCallback,
           Bridge!Publish, OpponentBridge!Publish, Bridge!Never, OpponentBridge!Never
<1>2. PublishPeriod \in Nat /\ PublishPeriod >= 1 /\ sincePublish \in -1 .. 2 * PublishPeriod - 1
    BY SideConstants DEF SideTypes, BridgeOK
<1>3. CASE sincePublish >= PublishPeriod
  <2>1. sincePublish % PublishPeriod \in 0 .. PublishPeriod - 1
    BY <1>2, <1>3
  <2> QED
    BY <1>1, <1>2, <1>3, <2>1 DEF Bridge!Publish, Bridge!Never, Due
<1>4. CASE ~(sincePublish >= PublishPeriod)
    BY <1>1, <1>2, <1>4 DEF Bridge!Publish, Bridge!Never, Due
<1> QED
    BY <1>3, <1>4

(* The grid moves on with every tick until a publication is due, stays due  *)
(* until there is one, and only a publication of the present collision sets *)
(* it back, however often the timer runs and whatever resets happen: a slow *)
(* grid does not starve the collision topic, for any period.                *)
THEOREM ReportComesDue ==
    SideSpec => [][/\ Due => Due' \/ reported' = collision'
                   /\ ~Due => IF Simulated /\ SideTick THEN sincePublish' = sincePublish + 1
                                                       ELSE sincePublish' = sincePublish]_allVars
<1>1. ASSUME SideTypes, [SideNext]_allVars
      PROVE  /\ Due => Due' \/ reported' = collision'
             /\ ~Due => IF Simulated /\ SideTick THEN sincePublish' = sincePublish + 1
                                                 ELSE sincePublish' = sincePublish
  <2>1. PublishPeriod \in Nat /\ PublishPeriod >= 1 /\ sincePublish \in -1 .. 2 * PublishPeriod - 1
    BY <1>1, SideConstants DEF SideTypes, BridgeOK
  <2>2. CASE DriveTimer
    <3>1. SideTick /\ Simulated /\ ~Due => sincePublish' = sincePublish + 1
      BY <2>1 DEF SideTick, Simulated, Real, Bridge!Tick, Bridge!Never, Due
    <3>2. IF Due THEN reported' = collision' ELSE sincePublish' = sincePublish
      BY <1>1, <2>2, TimerPublishes
    <3> QED
      BY <2>1, <3>1, <3>2 DEF Due
  <2>3. CASE SideTick
    <3>1. CASE Real
      BY <2>1, <2>3, <3>1 DEF SideTick, Real, Simulated, bridgeVars, Due
    <3>2. CASE ~Real
      BY <2>1, <2>3, <3>2 DEF SideTick, Bridge!Tick, Bridge!Never, Due
    <3> QED
      BY <3>1, <3>2
  <2>4. CASE ~DriveTimer /\ ~SideTick
    <3>1. sincePublish' = sincePublish
      BY <1>1, <2>4
      DEF SideNext, allVars, bridgeVars, Command, SafetyTopic, PublishLoop, InterfaceStep,
          Deliver, Reset, Opponent, Teleop, BridgeStep, Odometry, Joy,
          Bridge!DriveCallback, Bridge!DriveCallbackLatched, OpponentBridge!DriveCallback,
          Bridge!EgoResetCallback, OpponentBridge!EgoResetCallback,
          OpponentBridge!OppDriveCallback, OpponentBridge!OppResetCallback,
          Bridge!TeleopCallback, OpponentBridge!TeleopCallback
    <3> QED
      BY <2>4, <3>1 DEF Due
  <2> QED
    BY <2>2, <2>3, <2>4
<1>2. SideTypes /\ [SideNext]_allVars
        => [/\ Due => Due' \/ reported' = collision'
            /\ ~Due => IF Simulated /\ SideTick THEN sincePublish' = sincePublish + 1
                                                ELSE sincePublish' = sincePublish]_allVars
    BY <1>1
<1> QED
    BY <1>2, SideTypesInvariant, PTL DEF SideSpec
-------------------------------------------------------------------------------
(* The way of a stop to the vehicle: why StopReachesVehicle holds.         *)

\* The car moves only by a command that the bridge keeps sending to the Gym.
ArmedInv == driven # 0 => drivePublished /\ (which = "sim_opponent" => oppPublished)

LEMMA ArmedInvariant == SideSpec => []ArmedInv
<1>1. SideInit => ArmedInv
    BY DEF SideInit, Bridge!Init, ArmedInv
<1>2. ASSUME ArmedInv, [SideNext]_allVars PROVE ArmedInv'
  <2>1. CASE BridgeIdle
      BY <1>2, <2>1 DEF BridgeIdle, bridgeVars, ArmedInv
  <2>2. CASE Deliver
      BY <1>2, <2>2 DEF Deliver, BridgeStep, Bridge!DriveCallback, Bridge!DriveCallbackLatched,
                        OpponentBridge!DriveCallback, ArmedInv
  <2>3. CASE Reset
      BY <2>3 DEF Reset, BridgeStep, Bridge!EgoResetCallback, OpponentBridge!EgoResetCallback,
                  Bridge!ForgetCommands, OpponentBridge!ForgetCommands, ArmedInv
  <2>4. CASE Opponent
      BY <1>2, <2>4 DEF Opponent, BridgeStep, OpponentBridge!OppDriveCallback,
                        OpponentBridge!OppResetCallback, ArmedInv
  <2>5. CASE Teleop
      BY <1>2, <2>5 DEF Teleop, BridgeStep, Bridge!TeleopCallback,
                        OpponentBridge!TeleopCallback, ArmedInv
  <2>6. CASE DriveTimer
      BY <1>2, <2>6 DEF DriveTimer, BridgeStep, Bridge!DriveTimerCallback,
                        OpponentBridge!DriveTimerCallback, ArmedInv
  <2>7. CASE SideTick
      BY <1>2, <2>7 DEF SideTick, Bridge!Tick, bridgeVars, ArmedInv
  <2>8. UNCHANGED which
      BY <1>2 DEF SideNext, allVars, Command, SafetyTopic, PublishLoop, InterfaceStep, Deliver,
                  Reset, Opponent, Teleop, DriveTimer, BridgeStep, SideTick, Odometry, Joy
  <2> QED
      BY <1>2, <2>1, <2>2, <2>3, <2>4, <2>5, <2>6, <2>7, <2>8, StepKinds
<1> QED
    BY <1>1, <1>2, PTL DEF SideSpec

\* The newest moving command on a topic: the number of messages up to it.
LastMoving(q) ==
    LET moving == {i \in 1 .. Len(q) : q[i].speed # 0}
    IN  IF moving = {} THEN 0 ELSE Max(moving)

LEMMA LastMovingIs ==
    ASSUME NEW q \in Seq(DriveMessages)
    PROVE  /\ LastMoving(q) \in 0 .. Len(q)
           /\ LastMoving(q) # 0 => q[LastMoving(q)].speed # 0
           /\ \A i \in 1 .. Len(q) : i > LastMoving(q) => q[i].speed = 0
<1> DEFINE moving == {i \in 1 .. Len(q) : q[i].speed # 0}
<1>1. LastMoving(q) = IF moving = {} THEN 0 ELSE Max(moving)
    BY DEF LastMoving
<1>2. Len(q) \in Nat /\ moving \in SUBSET (1 .. Len(q))
    OBVIOUS
<1>3. CASE moving = {}
    BY <1>1, <1>2, <1>3
<1>4. CASE moving # {}
  <2>1. Max(moving) \in moving /\ \A i \in moving : i <= Max(moving)
    BY <1>2, <1>4, Greatest
  <2>2. LastMoving(q) = Max(moving) /\ q[Max(moving)].speed # 0 /\ Max(moving) \in 1 .. Len(q)
    BY <1>1, <1>4, <2>1
  <2>3. ASSUME NEW i \in 1 .. Len(q), i > Max(moving) PROVE q[i].speed = 0
    <3>1. ~(i <= Max(moving))
      BY <1>2, <2>2, <2>3
    <3> QED
      BY <2>1, <3>1
  <2> QED
    BY <2>2, <2>3
<1> QED
    BY <1>3, <1>4

\* The moving commands move up with every delivery, and with every stop sent
\* to a full topic, and none is added.
LEMMA MovingRunsOut ==
    ASSUME NEW q \in Seq(DriveMessages), Len(q) <= TopicDepth
    PROVE  /\ q # <<>> => LastMoving(Tail(q)) = IF LastMoving(q) = 0 THEN 0 ELSE LastMoving(q) - 1
           /\ \A message \in DriveMessages :
                message.speed = 0 => LastMoving(Enqueue(q, message)) <= LastMoving(q)
<1> DEFINE m == LastMoving(q)
<1>1. /\ m \in 0 .. Len(q) /\ Len(q) \in Nat
      /\ m # 0 => q[m].speed # 0
      /\ \A i \in 1 .. Len(q) : i > m => q[i].speed = 0
    BY LastMovingIs
<1> HIDE DEF m
<1>2. ASSUME q # <<>> PROVE LastMoving(Tail(q)) = IF m = 0 THEN 0 ELSE m - 1
  <2> DEFINE t == Tail(q)
             l == LastMoving(t)
  <2>1. /\ t \in Seq(DriveMessages) /\ Len(t) = Len(q) - 1
        /\ \A i \in 1 .. Len(t) : t[i] = q[i + 1]
    BY <1>2, HeadTailProperties
  <2>2. /\ l \in 0 .. Len(t) /\ (l # 0 => t[l].speed # 0)
        /\ \A i \in 1 .. Len(t) : i > l => t[i].speed = 0
    BY <2>1, LastMovingIs
  <2> HIDE DEF t, l
  <2>3. l # 0 => l + 1 <= m
    <3>1. l # 0 => l \in 1 .. Len(t) /\ t[l] = q[l + 1] /\ l + 1 \in 1 .. Len(q)
      BY <1>1, <2>1, <2>2
    <3> QED
      BY <1>1, <2>2, <3>1
  <2>4. m >= 2 => m - 1 <= l
    <3>1. m >= 2 => m - 1 \in 1 .. Len(t) /\ t[m - 1] = q[m]
      <4>1. m >= 2 => m - 1 \in 1 .. Len(t) /\ (m - 1) + 1 = m
        BY <1>1, <2>1
      <4> QED
        BY <2>1, <4>1
    <3> QED
      BY <1>1, <2>2, <3>1
  <2> QED
    BY <1>1, <2>1, <2>2, <2>3, <2>4 DEF t, l
<1>3. ASSUME NEW message \in DriveMessages, message.speed = 0
      PROVE  LastMoving(Enqueue(q, message)) <= m
  <2> DEFINE e == Enqueue(q, message)
             l == LastMoving(e)
  <2>1. PICK k \in {0, 1} : /\ Len(e) = Len(q) + 1 - k /\ e[Len(q) + 1 - k] = message
                            /\ \A i \in 1 .. Len(q) - k : e[i] = q[i + k]
    BY EnqueueIs
  <2>2. e \in Seq(DriveMessages)
    BY EnqueueIs
  <2>3. l \in 0 .. Len(e) /\ (l # 0 => e[l].speed # 0)
    BY <2>2, LastMovingIs
  <2> HIDE DEF e, l
  <2>4. l # 0 => l \in 1 .. Len(q) - k
    BY <1>1, <1>3, <2>1, <2>3
  <2>5. l # 0 => l + k <= m
    <3>1. l # 0 => e[l] = q[l + k] /\ l + k \in 1 .. Len(q)
      BY <1>1, <2>1, <2>4
    <3> QED
      BY <1>1, <2>3, <3>1
  <2> QED
    BY <1>1, <2>1, <2>3, <2>5 DEF e, l
<1> QED
    BY <1>2, <1>3 DEF m

\* How far a stop still has to go: to the topic, past the moving commands that
\* wait there, to the bridge, to the wheels.
StopRank ==
    IF sent.speed # 0 THEN TopicDepth + 3
    ELSE IF LastMoving(driveTopic) > 0 THEN LastMoving(driveTopic) + 2
    ELSE IF requested # 0 THEN 2
    ELSE IF driven # 0 THEN 1 ELSE 0

\* Without moving commands on the topic a bridge does not raise its request,
\* but by the keyboard.
LEMMA RequestRests ==
    ASSUME InterfaceOK, OnlyStops(driveTopic), requested = 0, ~Teleop, [SideNext]_allVars
    PROVE  requested' = 0
<1> USE DEF BridgeStep
<1>1. CASE BridgeIdle
    BY <1>1 DEF BridgeIdle, bridgeVars
<1>2. CASE Deliver
  <2>1. Head(driveTopic).speed = 0
    BY <1>2, StopsStay DEF Deliver, InterfaceOK
  <2> QED
    BY <1>2, <2>1 DEF Deliver, Bridge!DriveCallback, Bridge!DriveCallbackLatched,
                      OpponentBridge!DriveCallback
<1>3. CASE Reset
    BY <1>3 DEF Reset, Bridge!EgoResetCallback, OpponentBridge!EgoResetCallback
<1>4. CASE Opponent
    BY <1>4 DEF Opponent, OpponentBridge!OppDriveCallback, OpponentBridge!OppResetCallback,
                OpponentBridge!UpdateSimState
<1>5. CASE DriveTimer
    BY <1>5 DEF DriveTimer, Bridge!DriveTimerCallback, OpponentBridge!DriveTimerCallback,
                Bridge!UpdateSimState, OpponentBridge!UpdateSimState
<1>6. CASE SideTick
    BY <1>6 DEF SideTick, Bridge!Tick, bridgeVars
<1> QED
    BY <1>1, <1>2, <1>3, <1>4, <1>5, <1>6, StepKinds

(* While the controller is silent or a stop is asked for, each of the three *)
(* programs on its way passes the stop on: the interface to the topic, the  *)
(* bridge with every message it handles past one of the moving commands     *)
(* that were sent before, the timer of the bridge to the wheels.  Nothing   *)
(* takes it back but a Twist of the keyboard: moving commands sent earlier  *)
(* run out one by one, and no reset, opponent or delayed steering brings    *)
(* them back, for any watchdog, delay and depth of the topic.               *)
THEOREM StopIsApproached ==
    SideSpec => [][Silent => Teleop \/
                    /\ StopRank' <= StopRank
                    /\ PublishLoop => StopRank' < TopicDepth + 3
                    /\ Deliver /\ StopRank \in 2 .. TopicDepth + 2 => StopRank' < StopRank
                    /\ DriveTimer /\ StopRank < 2 => StopRank' = 0]_allVars
<1>1. ASSUME SideTypes, SideTypes', ArmedInv, [SideNext]_allVars, Silent, ~Teleop
      PROVE  /\ StopRank' <= StopRank
             /\ PublishLoop => StopRank' < TopicDepth + 3
             /\ Deliver /\ StopRank \in 2 .. TopicDepth + 2 => StopRank' < StopRank
             /\ DriveTimer /\ StopRank < 2 => StopRank' = 0
  <2> DEFINE l == LastMoving(driveTopic)
             ln == LastMoving(driveTopic')
  <2>0. InterfaceOK /\ InterfaceOK'
    BY <1>1 DEF SideTypes
  <2>1. /\ driveTopic \in Seq(DriveMessages) /\ Len(driveTopic) <= TopicDepth
        /\ driveTopic' \in Seq(DriveMessages) /\ Len(driveTopic') <= TopicDepth
        /\ Len(driveTopic) \in Nat /\ Len(driveTopic') \in Nat
        /\ TopicDepth \in Nat /\ TopicDepth >= 1
    BY <2>0, SideConstants DEF InterfaceOK
  <2>2. l \in 0 .. TopicDepth /\ ln \in 0 .. TopicDepth
    BY <2>1, LastMovingIs
  <2>3. l = 0 => OnlyStops(driveTopic)
    BY <2>1, LastMovingIs DEF OnlyStops
  <2>4. sent.speed = 0 => sent'.speed = 0
    BY <1>1, InterfaceRests
  <2>5. PublishLoop => sent'.speed = 0
    BY <1>1 DEF PublishLoop, InterfaceStep, Silent,
                SimInterface!PublishLoop, SimInterface!IsCmdStale, SimInterface!StopOutput,
                SimInterface!StopCommand, RealInterface!PublishLoop,
                RealInterface!IsCmdStale, RealInterface!StopOutput
  <2>6. Deliver => ln = IF l = 0 THEN 0 ELSE l - 1
    BY <2>1, MovingRunsOut DEF Deliver
  <2>7. ln <= l
    <3>1. CASE PublishLoop /\ Simulated
      <4>1. Simulated'
        BY <3>1 DEF PublishLoop, InterfaceStep, Simulated
      <4>2. sent' \in DriveMessages /\ sent'.speed = 0
        BY <2>0, <2>5, <3>1, <4>1 DEF InterfaceOK
      <4>3. driveTopic' = Enqueue(driveTopic, sent')
        BY <3>1 DEF PublishLoop
      <4> QED
        BY <2>1, <4>2, <4>3, MovingRunsOut
    <3>2. CASE Deliver
      BY <2>2, <2>6, <3>2
    <3>3. CASE UNCHANGED driveTopic
      BY <2>2, <3>3
    <3> QED
      BY <1>1, <3>1, <3>2, <3>3
      DEF SideNext, allVars, topicVars, Command, SafetyTopic, PublishLoop, Reset,
          Opponent, Teleop, DriveTimer, SideTick, Odometry, Joy
  <2>8. l = 0 /\ requested = 0 => requested' = 0
    BY <1>1, <2>0, <2>3, RequestRests
  <2>9. l = 0 /\ requested = 0 /\ driven = 0 => driven' = 0
    BY <1>1, <2>0, <2>3, BridgeRests
  <2>10. Deliver /\ l = 0 => requested' = 0
    <3>1. Deliver /\ l = 0 => Head(driveTopic).speed = 0
      BY <2>1, <2>3, StopsStay DEF Deliver
    <3> QED
      BY <3>1 DEF Deliver, BridgeStep, Bridge!DriveCallback, Bridge!DriveCallbackLatched,
                  OpponentBridge!DriveCallback
  <2>11. DriveTimer /\ requested = 0 => driven' = 0
    BY <1>1 DEF DriveTimer, BridgeStep, Bridge!DriveTimerCallback,
                OpponentBridge!DriveTimerCallback, ArmedInv
  <2>12. /\ StopRank = IF sent.speed # 0 THEN TopicDepth + 3
                       ELSE IF l > 0 THEN l + 2
                       ELSE IF requested # 0 THEN 2 ELSE IF driven # 0 THEN 1 ELSE 0
         /\ StopRank' = IF sent'.speed # 0 THEN TopicDepth + 3
                        ELSE IF ln > 0 THEN ln + 2
                        ELSE IF requested' # 0 THEN 2 ELSE IF driven' # 0 THEN 1 ELSE 0
    BY DEF StopRank
  <2> HIDE DEF l, ln
  <2>13. StopRank' <= StopRank
    BY <2>1, <2>2, <2>4, <2>7, <2>8, <2>9, <2>12
  <2>14. PublishLoop => StopRank' < TopicDepth + 3
    BY <2>1, <2>2, <2>5, <2>12
  <2>15. Deliver /\ StopRank \in 2 .. TopicDepth + 2 => StopRank' < StopRank
    BY <2>1, <2>2, <2>4, <2>6, <2>8, <2>10, <2>12
  <2>16. DriveTimer /\ StopRank < 2 => StopRank' = 0
    <3>1. DriveTimer => ln = l
      BY DEF DriveTimer, topicVars, l, ln
    <3> QED
      BY <2>1, <2>2, <2>4, <2>8, <2>11, <2>12, <3>1
  <2> QED
    BY <2>13, <2>14, <2>15, <2>16
<1>2. SideTypes /\ SideTypes' /\ ArmedInv /\ [SideNext]_allVars
        => [Silent => Teleop \/
                /\ StopRank' <= StopRank
                /\ PublishLoop => StopRank' < TopicDepth + 3
                /\ Deliver /\ StopRank \in 2 .. TopicDepth + 2 => StopRank' < StopRank
                /\ DriveTimer /\ StopRank < 2 => StopRank' = 0]_allVars
    BY <1>1
<1> QED
    BY <1>2, ArmedInvariant, SideTypesInvariant, PTL DEF SideSpec
===============================================================================
