------------------------- MODULE ObstacleLayoutsProofs -------------------------
(***************************************************************************)
(* Laps and obstacle layouts, for a circuit of any length with any pairs   *)
(* of close branches, any number of obstacles and any bound on rounds.     *)
(***************************************************************************)
EXTENDS ObstacleLayouts, TLAPS

Obstacles == [id : Nat, at : Positions, random : BOOLEAN]
Futures == [state : {"none", "queued", "done", "error"}, round : Nat, layout : Seq(Positions)]

\* The tracker sees the car where it is, and what it calls progress has been
\* driven: the positions behind the car, that far back, are covered.
Behind(k) == (pos - k) % PathLength

TrackerOK ==
    /\ pos \in Positions /\ previousS \in Positions
    /\ progress \in Positions
    /\ laps \in {0, 1}
    /\ tracking \in BOOLEAN
    /\ covered \subseteq Positions

LapInv ==
    tracking =>
        /\ previousS = pos
        /\ \A k \in 0 .. progress : Behind(k) \in covered

LayoutOK ==
    /\ obstacles \in Seq(Obstacles)
    /\ Len(obstacles) <= MaxObstacles
    /\ sequence = Len(obstacles)
    /\ active \in BOOLEAN /\ failed \in BOOLEAN /\ cleared \in BOOLEAN

\* Rounds grow; a layout that is on its way is newer than the one applied.
RoundInv ==
    /\ next \in Futures
    /\ round \in 0 .. MaxRounds
    /\ applied \in -1 .. round - 1
    /\ next # NoFuture => next.round = round - 1 /\ applied < next.round
    /\ next.state = "done" => Len(next.layout) = Count

\* Obstacles are numbered in order; after a clear request laps do not randomize.
NumberedInv == \A i \in DOMAIN obstacles : obstacles[i].id = i - 1
ClearInv == cleared => ~active

LayoutInv ==
    /\ TrackerOK
    /\ LapInv
    /\ LayoutOK
    /\ RoundInv
    /\ NumberedInv
    /\ ClearInv
    /\ ClearedStaysClear
-------------------------------------------------------------------------------
\* Arc lengths on the ring, without the modulus.
LEMMA ForwardIs ==
    ASSUME NEW a \in Positions, NEW b \in Positions
    PROVE  Forward(a, b) = IF b >= a THEN b - a ELSE b - a + PathLength
    BY ObstacleLayoutsAssumption DEF ObstacleLayoutsAssumption, Positions, Forward

\* A car that drives on is one position further or one back.
LEMMA DriveIs ==
    ASSUME pos \in Positions, NEW p \in Drives
    PROVE  /\ p \in Positions
           /\ p = (pos + 1) % PathLength \/ p = (pos - 1) % PathLength
           /\ \/ p - pos \in {1, -1}
              \/ p - pos = PathLength - 1
              \/ p - pos = 1 - PathLength
    BY ObstacleLayoutsAssumption DEF ObstacleLayoutsAssumption, Positions, Drives

\* The projection near the last one is the position of the car: branches close
\* in space are out of reach of the search.
LEMMA ProjectionIsPosition ==
    ASSUME pos \in Positions, previousS = pos, NEW p \in Drives, NEW s \in Projections(p)
    PROVE  s = p
<1> DEFINE local == {q \in Positions : Apart(q, previousS) <= SearchDistance}
<1> USE ObstacleLayoutsAssumption DEF ObstacleLayoutsAssumption
<1>1. p \in Positions /\ \/ p - pos \in {1, -1}
                         \/ p - pos = PathLength - 1
                         \/ p - pos = 1 - PathLength
    BY DriveIs
<1>2. p \in local
  <2>1. Apart(p, pos) = 1
    BY <1>1, ForwardIs DEF Apart, Positions
  <2> QED
    BY <1>1, <2>1
<1>3. s \in Near(p) \cap local
    BY <1>2 DEF Projections, Near
<1>4. SUFFICES ASSUME s # p PROVE FALSE
    OBVIOUS
<1>5. PICK branch \in Branches : p \in branch /\ s \in branch
    BY <1>3, <1>4 DEF Near
<1>6. s \in Positions /\ Apart(s, pos) <= SearchDistance
    BY <1>3
<1>7. SearchDistance + 1 < Forward(s, p) /\ SearchDistance + 1 < Forward(p, s)
    BY <1>4, <1>5, <1>6, <1>1 DEF Forward
<1> QED
    BY <1>1, <1>6, <1>7, ForwardIs DEF Apart, Positions

\* One position further adds one to the progress, one back takes one off.
LEMMA ProgressIs ==
    ASSUME pos \in Positions, previousS = pos, progress \in Positions, NEW p \in Drives
    PROVE  \/ p = (pos + 1) % PathLength /\ ProgressAfter(p) = progress + 1
           \/ /\ p = (pos - 1) % PathLength
              /\ ProgressAfter(p) = IF progress = 0 THEN 0 ELSE progress - 1
<1> DEFINE half == PathLength \div 2
<1> USE ObstacleLayoutsAssumption DEF ObstacleLayoutsAssumption, Positions
<1>1. half \in Nat /\ 2 <= half /\ half + 1 < PathLength
    OBVIOUS
<1>2. CASE p = (pos + 1) % PathLength
  <2>1. (p - pos + half) % PathLength = half + 1
    BY <1>1, <1>2
  <2> QED
    BY <1>1, <1>2, <2>1 DEF ProgressAfter
<1>3. CASE p = (pos - 1) % PathLength
  <2>1. (p - pos + half) % PathLength = half - 1
    BY <1>1, <1>3
  <2> QED
    BY <1>1, <1>3, <2>1 DEF ProgressAfter
<1> QED
    BY <1>2, <1>3, DriveIs

\* The same, for positions behind another.
LEMMA BackIs ==
    ASSUME NEW a \in Positions, NEW k \in Positions
    PROVE  /\ (a - k) % PathLength = IF k <= a THEN a - k ELSE a - k + PathLength
           /\ (a - k) % PathLength \in Positions
    BY ObstacleLayoutsAssumption DEF ObstacleLayoutsAssumption, Positions

\* The positions behind the car are those behind its last one, and its own.
LEMMA BehindIs ==
    ASSUME pos \in Positions, pos' \in Drives, NEW k \in Positions
    PROVE  /\ pos' = (pos + 1) % PathLength /\ k > 0 => Behind(k)' = Behind(k - 1)
           /\ pos' = (pos - 1) % PathLength /\ k + 1 < PathLength => Behind(k)' = Behind(k + 1)
           /\ k = 0 => Behind(k)' = pos'
<1> USE ObstacleLayoutsAssumption DEF ObstacleLayoutsAssumption, Positions
<1>1. pos' \in Positions
    BY DriveIs
<1>2. Behind(k)' = IF k <= pos' THEN pos' - k ELSE pos' - k + PathLength
    BY <1>1, BackIs DEF Behind
<1>3. CASE pos' = (pos + 1) % PathLength
  <2>1. pos' = IF pos = PathLength - 1 THEN 0 ELSE pos + 1
    BY <1>3
  <2>2. pos' # (pos - 1) % PathLength
    BY <2>1
  <2>3. ASSUME k > 0
        PROVE  Behind(k - 1) = IF k - 1 <= pos THEN pos - (k - 1)
                               ELSE pos - (k - 1) + PathLength
    <3>1. k - 1 \in Positions
      BY <2>3
    <3> QED
      BY <3>1, BackIs DEF Behind
  <2> QED
    BY <1>1, <1>2, <2>1, <2>2, <2>3
<1>4. CASE pos' = (pos - 1) % PathLength
  <2>1. pos' = IF pos = 0 THEN PathLength - 1 ELSE pos - 1
    BY <1>4
  <2>2. pos' # (pos + 1) % PathLength
    BY <2>1
  <2>3. ASSUME k + 1 < PathLength
        PROVE  Behind(k + 1) = IF k + 1 <= pos THEN pos - (k + 1)
                               ELSE pos - (k + 1) + PathLength
    <3>1. k + 1 \in Positions
      BY <2>3
    <3> QED
      BY <3>1, BackIs DEF Behind
  <2> QED
    BY <1>1, <1>2, <2>1, <2>2, <2>3
<1> QED
    BY <1>3, <1>4, DriveIs

\* After a whole lap of progress the positions behind the car are all there are.
LEMMA AllBehind ==
    ASSUME pos \in Positions, \A k \in 0 .. PathLength - 1 : Behind(k) \in covered
    PROVE  Positions \subseteq covered
<1> SUFFICES ASSUME NEW p \in Positions PROVE p \in covered
    OBVIOUS
<1> DEFINE k == IF pos >= p THEN pos - p ELSE pos - p + PathLength
<1>1. k \in Positions
    BY ObstacleLayoutsAssumption DEF ObstacleLayoutsAssumption, Positions
<1>2. Behind(k) = IF k <= pos THEN pos - k ELSE pos - k + PathLength
    BY <1>1, BackIs DEF Behind
<1>3. Behind(k) = p
    BY <1>2, ObstacleLayoutsAssumption DEF ObstacleLayoutsAssumption, Positions
<1> QED
    BY <1>1, <1>3 DEF Positions

\* An update keeps track of the car, and completes a lap only after a whole one.
LEMMA UpdateCovers ==
    ASSUME TrackerOK, LapInv, tracking, pos' \in Drives,
           NEW s \in Projections(pos'), UpdateTracker(s)
    PROVE  /\ TrackerOK' /\ LapInv'
           /\ ProgressAfter(s) >= PathLength => covered \cup {pos'} = Positions
<1> USE ObstacleLayoutsAssumption DEF ObstacleLayoutsAssumption
<1>1. /\ pos \in Positions /\ previousS = pos /\ progress \in Positions
      /\ covered \subseteq Positions /\ laps \in {0, 1}
      /\ \A k \in 0 .. progress : Behind(k) \in covered
    BY DEF TrackerOK, LapInv
<1>2. s = pos' /\ pos' \in Positions
    BY <1>1, ProjectionIsPosition, DriveIs
<1>3. \/ pos' = (pos + 1) % PathLength /\ ProgressAfter(s) = progress + 1
      \/ /\ pos' = (pos - 1) % PathLength
         /\ ProgressAfter(s) = IF progress = 0 THEN 0 ELSE progress - 1
    BY <1>1, <1>2, ProgressIs
<1>4. ProgressAfter(s) \in 0 .. PathLength
    BY <1>1, <1>3 DEF Positions
<1>5. ProgressAfter(s) >= PathLength => covered \cup {pos'} = Positions
  <2> SUFFICES ASSUME ProgressAfter(s) >= PathLength PROVE covered = Positions
    BY <1>2
  <2>1. progress = PathLength - 1
    BY <1>1, <1>3 DEF Positions
  <2> QED
    BY <1>1, <2>1, AllBehind
<1>6. /\ previousS' = pos'
      /\ progress' = ProgressAfter(s) % PathLength
      /\ covered' = IF ProgressAfter(s) >= PathLength THEN {pos'} ELSE covered \cup {pos'}
      /\ laps' = (laps + ProgressAfter(s) \div PathLength) % 2
      /\ tracking' = tracking
    BY <1>2 DEF UpdateTracker
<1>7. progress' = IF ProgressAfter(s) = PathLength THEN 0 ELSE ProgressAfter(s)
    BY <1>4, <1>6
<1>8. TrackerOK'
    BY <1>1, <1>2, <1>4, <1>6, <1>7 DEF TrackerOK, Positions
<1>9. ASSUME NEW k \in 0 .. progress' PROVE (Behind(k) \in covered)'
  <2>1. k \in Positions
    BY <1>4, <1>7, <1>9 DEF Positions
  <2>2. CASE k = 0
    BY <1>1, <1>6, <2>1, <2>2, BehindIs
  <2>3. CASE k # 0
    <3>1. covered \subseteq covered' /\ k <= ProgressAfter(s) /\ ProgressAfter(s) # PathLength
      BY <1>4, <1>6, <1>7, <1>9, <2>3
    <3>2. CASE pos' = (pos + 1) % PathLength /\ ProgressAfter(s) = progress + 1
      <4>1. k - 1 \in 0 .. progress
        BY <1>1, <1>9, <2>1, <2>3, <3>1, <3>2 DEF Positions
      <4>2. Behind(k)' = Behind(k - 1)
        BY <1>1, <2>1, <2>3, <3>2, <1>9, BehindIs DEF Positions
      <4> QED
        BY <1>1, <3>1, <4>1, <4>2
    <3>3. CASE pos' = (pos - 1) % PathLength /\ ProgressAfter(s) = progress - 1
      <4>1. k + 1 \in 0 .. progress /\ k + 1 < PathLength
        BY <1>1, <1>9, <2>1, <2>3, <3>1, <3>3 DEF Positions
      <4>2. Behind(k)' = Behind(k + 1)
        BY <1>1, <2>1, <3>3, <4>1, BehindIs
      <4> QED
        BY <1>1, <3>1, <4>1, <4>2
    <3> QED
      BY <1>1, <1>3, <1>9, <2>3, <3>1, <3>2, <3>3 DEF Positions
  <2> QED
    BY <2>2, <2>3
<1> QED
    BY <1>5, <1>6, <1>8, <1>9 DEF LapInv
-------------------------------------------------------------------------------
\* A layout becomes obstacles that are numbered in order.
LEMMA LayoutObstacles ==
    ASSUME NEW layout \in Seq(Positions)
    PROVE  /\ AsObstacles(layout) \in Seq(Obstacles)
           /\ Len(AsObstacles(layout)) = Len(layout)
           /\ \A i \in DOMAIN AsObstacles(layout) : AsObstacles(layout)[i].id = i - 1
<1>1. Len(layout) \in Nat /\ \A i \in 1 .. Len(layout) : layout[i] \in Positions
    OBVIOUS
<1>2. AsObstacles(layout) \in [1 .. Len(layout) -> Obstacles]
    BY <1>1 DEF AsObstacles, Obstacles
<1>3. AsObstacles(layout) \in Seq(Obstacles) /\ Len(AsObstacles(layout)) = Len(layout)
    BY <1>1, <1>2
<1> QED
    BY <1>1, <1>3 DEF AsObstacles

\* What the worker thread may return for a round.
LEMMA OutcomeIs ==
    ASSUME NEW r \in Nat, NEW start, NEW future \in Outcomes(r, start)
    PROVE  /\ future \in Futures
           /\ future.round = r
           /\ future # NoFuture
           /\ future.state = "done" => Len(future.layout) = Count
<1>1. CASE future = [state |-> "error", round |-> r, layout |-> <<>>]
    BY <1>1 DEF Futures, NoFuture
<1>2. CASE \E layout \in Layouts(start) :
                future = [state |-> "done", round |-> r, layout |-> layout]
  <2>1. PICK layout \in [1 .. Count -> Positions] :
            future = [state |-> "done", round |-> r, layout |-> layout]
    BY <1>2 DEF Layouts
  <2>2. Count \in Nat
    BY ObstacleLayoutsAssumption DEF ObstacleLayoutsAssumption
  <2>3. layout \in Seq(Positions) /\ Len(layout) = Count
    BY <2>2
  <2> QED
    BY <2>1, <2>3 DEF Futures, NoFuture
<1> QED
    BY <1>1, <1>2 DEF Outcomes

\* The layout that is taken is newer than the one applied, and the next is newer still.
LEMMA ChangeKeeps ==
    ASSUME LayoutOK, RoundInv, NumberedInv, NEW position, ChangeLayout(position)
    PROVE  /\ obstacles' \in Seq(Obstacles) /\ Len(obstacles') <= MaxObstacles
           /\ sequence' = Len(obstacles')
           /\ RoundInv' /\ NumberedInv'
           /\ \/ failed' = TRUE /\ UNCHANGED <<obstacles, active>>
              \/ failed' = FALSE /\ active' = TRUE /\ applied' > applied
<1> DEFINE newRound == IF next = NoFuture THEN round + 1 ELSE round
<1>0. MaxRounds \in Nat /\ Count \in Nat /\ MaxObstacles \in Nat /\ Count <= MaxObstacles
    BY ObstacleLayoutsAssumption DEF ObstacleLayoutsAssumption
<1>1. PICK result \in Results(Taken, position) :
        IF result.state = "done"
        THEN ApplyLayout(result, newRound) /\ failed' = FALSE
        ELSE /\ next' = NoFuture
             /\ round' = newRound
             /\ failed' = TRUE
             /\ UNCHANGED <<obstacles, sequence, active, applied>>
    BY DEF ChangeLayout
<1>2. newRound \in Nat /\ newRound < MaxRounds /\ round \in Nat /\ round <= newRound
      /\ applied \in -1 .. round - 1 /\ applied < newRound
    BY <1>0 DEF ChangeLayout, RoundInv
<1>3. /\ Taken.round = newRound - 1 /\ Taken.round \in Nat /\ applied < Taken.round
      /\ Taken \in Futures
      /\ Taken.state = "done" => Len(Taken.layout) = Count
  <2>1. CASE next = NoFuture
    BY <1>2, <2>1 DEF Taken, Queued, Futures
  <2>2. CASE next # NoFuture
    BY <1>2, <2>2 DEF Taken, RoundInv, Futures
  <2> QED
    BY <2>1, <2>2
<1>4. /\ result \in Futures /\ result.round = newRound - 1
      /\ result.state = "done" => Len(result.layout) = Count
    BY <1>3, OutcomeIs DEF Results
<1> HIDE DEF newRound
<1>5. CASE result.state = "done"
  <2>1. /\ obstacles' = AsObstacles(result.layout)
        /\ sequence' = Len(result.layout)
        /\ active' = TRUE /\ failed' = FALSE
        /\ applied' = result.round
        /\ next' = Queued(newRound)
        /\ round' = newRound + 1
    BY <1>1, <1>5 DEF ApplyLayout
  <2>2. result.layout \in Seq(Positions) /\ Len(result.layout) = Count
    BY <1>4, <1>5 DEF Futures
  <2>3. /\ obstacles' \in Seq(Obstacles) /\ Len(obstacles') <= MaxObstacles
        /\ sequence' = Len(obstacles')
        /\ NumberedInv'
    BY <1>0, <2>1, <2>2, LayoutObstacles DEF NumberedInv
  <2>4. Queued(newRound) \in Futures /\ Queued(newRound).round = newRound
        /\ Queued(newRound).state # "done"
    BY <1>2 DEF Queued, Futures
  <2>5. applied' = newRound - 1 /\ applied < newRound - 1
    BY <1>3, <1>4, <2>1
  <2>6. applied' > applied /\ applied' \in -1 .. round' - 1
    BY <1>2, <2>1, <2>5
  <2>7. round' \in 0 .. MaxRounds /\ next'.round = round' - 1 /\ applied' < next'.round
    BY <1>0, <1>2, <2>1, <2>4, <2>5
  <2>8. RoundInv'
    BY <2>1, <2>4, <2>6, <2>7 DEF RoundInv
  <2> QED
    BY <2>1, <2>3, <2>6, <2>8
<1>6. CASE result.state # "done"
  <2>1. /\ next' = NoFuture /\ round' = newRound /\ failed' = TRUE
        /\ UNCHANGED <<obstacles, sequence, active, applied>>
    BY <1>1, <1>6
  <2>2. NoFuture \in Futures /\ NoFuture.state # "done"
    BY DEF NoFuture, Futures
  <2>3. RoundInv'
    BY <1>0, <1>2, <2>1, <2>2 DEF RoundInv
  <2>4. NumberedInv'
    BY <2>1 DEF NumberedInv
  <2> QED
    BY <2>1, <2>3, <2>4 DEF LayoutOK
<1> QED
    BY <1>5, <1>6
-------------------------------------------------------------------------------
\* The parts of the invariant about the layout, apart from the lap tracker.
LayoutPart ==
    LayoutOK /\ RoundInv /\ NumberedInv /\ ClearInv /\ ClearedStaysClear

\* No obstacles are a sequence of them.
LEMMA Empty == <<>> \in Seq(Obstacles) /\ Len(<<>>) = 0
    OBVIOUS

\* What the steps that leave a part alone do to it.
LEMMA UnchangedLayout == LayoutPart /\ UNCHANGED layoutVars => LayoutPart'
    BY DEF LayoutPart, LayoutOK, RoundInv, NumberedInv, ClearInv, ClearedStaysClear, layoutVars

LEMMA UnchangedTracker ==
    TrackerOK /\ LapInv /\ UNCHANGED <<pos, tracker>> => TrackerOK' /\ LapInv'
    BY DEF TrackerOK, LapInv, Behind, tracker

\* A reset tracker has the car in sight.
LEMMA ResetTrackerHolds ==
    ASSUME TrackerOK, pos' \in Positions, ResetTracker(pos')
    PROVE  TrackerOK' /\ LapInv'
<1> USE ObstacleLayoutsAssumption DEF ObstacleLayoutsAssumption, ResetTracker
<1>1. 0 \in Positions
    BY DEF Positions
<1>2. TrackerOK'
    BY <1>1 DEF TrackerOK
<1>3. Behind(0)' = pos'
    BY <1>1, BackIs DEF Behind, Positions
<1>4. ASSUME NEW k \in 0 .. progress' PROVE (Behind(k) \in covered)'
    BY <1>3, <1>4
<1> QED
    BY <1>2, <1>4 DEF LapInv

\* Initially there are no tracker, no obstacles and no future.
LEMMA InitHolds == Init => LayoutInv
<1> SUFFICES ASSUME Init PROVE LayoutInv
    OBVIOUS
<1> USE ObstacleLayoutsAssumption DEF ObstacleLayoutsAssumption, Init
<1>0. MaxObstacles \in Nat /\ MaxRounds \in Nat /\ pos \in Positions /\ 0 \in Positions
    BY DEF Positions
<1>1. TrackerOK /\ LapInv
    BY <1>0 DEF TrackerOK, LapInv
<1>2. LayoutOK
  <2>1. obstacles = <<>> /\ sequence = 0 /\ ~active /\ ~failed /\ ~cleared
    OBVIOUS
  <2>2. active \in BOOLEAN /\ failed \in BOOLEAN /\ cleared \in BOOLEAN
    BY <2>1
  <2>3. obstacles \in Seq(Obstacles) /\ sequence = Len(obstacles)
    BY <2>1, Empty
  <2>4. Len(obstacles) <= MaxObstacles
    BY <1>0, <2>1, Empty
  <2> QED
    BY <2>2, <2>3, <2>4 DEF LayoutOK
<1>3. RoundInv
    BY DEF RoundInv, NoFuture, Futures
<1>4. NumberedInv /\ ClearInv /\ ClearedStaysClear
    BY DEF NumberedInv, ClearInv, ClearedStaysClear
<1> QED
    BY <1>1, <1>2, <1>3, <1>4 DEF LayoutInv

\* Where the car is, and what the tracker makes of it.
LEMMA NextTracker == LayoutInv /\ Next => TrackerOK' /\ LapInv'
<1> SUFFICES ASSUME LayoutInv, Next PROVE TrackerOK' /\ LapInv'
    OBVIOUS
<1> USE DEF LayoutInv
<1>0. pos \in Positions /\ ResetAt \subseteq Positions
    BY ObstacleLayoutsAssumption DEF ObstacleLayoutsAssumption, TrackerOK
<1>1. CASE DriveUntracked
  <2>1. pos' \in Positions /\ UNCHANGED tracker /\ ~tracking
    BY <1>0, <1>1, DriveIs DEF DriveUntracked
  <2> QED
    BY <2>1 DEF TrackerOK, LapInv, tracker
<1>2. CASE DriveOn \/ CompleteLap
  <2>1. PICK s \in Projections(pos') : UpdateTracker(s)
    BY <1>2 DEF DriveOn, CompleteLap
  <2> QED
    BY <1>2, <2>1, UpdateCovers DEF DriveOn, CompleteLap
<1>3. CASE Generate \/ ClearObstaclesCallback \/ ClickedPointCallback
    BY <1>3, UnchangedTracker DEF Generate, ClearObstaclesCallback, ClickedPointCallback
<1>4. CASE RandomizeObstaclesCallback
  <2>1. CASE tracking
    BY <1>4, <2>1, UnchangedTracker DEF RandomizeObstaclesCallback
  <2>2. CASE ~tracking
    <3>1. pos' = pos /\ ResetTracker(pos)
      BY <1>4, <2>2 DEF RandomizeObstaclesCallback
    <3>2. pos' \in Positions /\ ResetTracker(pos')
      BY <1>0, <3>1 DEF ResetTracker
    <3> QED
      BY <3>2, ResetTrackerHolds
  <2> QED
    BY <2>1, <2>2
<1>5. CASE EgoResetCallback
  <2>1. pos' \in Positions
    BY <1>0, <1>5 DEF EgoResetCallback
  <2>2. CASE tracking
    BY <1>5, <2>1, <2>2, ResetTrackerHolds DEF EgoResetCallback
  <2>3. CASE ~tracking
    BY <1>5, <2>1, <2>3 DEF EgoResetCallback, TrackerOK, LapInv, tracker
  <2> QED
    BY <2>2, <2>3
<1>6. CASE RandomizeWithoutData
  <2>1. CASE UNCHANGED tracker
    BY <1>6, <2>1, UnchangedTracker DEF RandomizeWithoutData
  <2>2. CASE ResetTracker(pos)
    <3>1. pos' \in Positions /\ ResetTracker(pos')
      BY <1>0, <1>6, <2>2 DEF RandomizeWithoutData, ResetTracker
    <3> QED
      BY <3>1, ResetTrackerHolds
  <2> QED
    BY <1>6, <2>1, <2>2 DEF RandomizeWithoutData
<1> QED
    BY <1>1, <1>2, <1>3, <1>4, <1>5, <1>6 DEF Next

\* A layout that is changed, by a lap or by request.
LEMMA ChangePart ==
    ASSUME LayoutPart, NEW position, ChangeLayout(position),
           cleared' = FALSE \/ cleared' = (cleared /\ failed')
    PROVE  LayoutPart'
<1>1. /\ obstacles' \in Seq(Obstacles) /\ Len(obstacles') <= MaxObstacles
      /\ sequence' = Len(obstacles')
      /\ RoundInv' /\ NumberedInv'
      /\ \/ failed' = TRUE /\ UNCHANGED <<obstacles, active>>
         \/ failed' = FALSE /\ active' = TRUE /\ applied' > applied
    BY ChangeKeeps DEF LayoutPart
<1>2. cleared \in BOOLEAN /\ active \in BOOLEAN /\ (cleared => ~active)
    BY DEF LayoutPart, LayoutOK, ClearInv
<1>3. /\ cleared' \in BOOLEAN /\ active' \in BOOLEAN /\ failed' \in BOOLEAN
      /\ cleared' => cleared /\ ~active' /\ obstacles' = obstacles
  <2>1. CASE failed' = TRUE /\ active' = active /\ obstacles' = obstacles
    BY <1>2, <2>1, Zenon
  <2>2. CASE failed' = FALSE /\ active' = TRUE
    BY <1>2, <2>2, Zenon
  <2> QED
    BY <1>1, <2>1, <2>2
<1>4. LayoutOK'
    BY <1>1, <1>3 DEF LayoutOK
<1>5. ClearInv' /\ ClearedStaysClear'
    BY <1>3 DEF LayoutPart, ClearInv, ClearedStaysClear
<1> QED
    BY <1>1, <1>4, <1>5 DEF LayoutPart

\* What is on the map, and what is prepared.
LEMMA NextLayout == LayoutInv /\ Next => LayoutPart'
<1> SUFFICES ASSUME LayoutPart, Next PROVE LayoutPart'
    BY DEF LayoutInv, LayoutPart
<1>1. CASE UNCHANGED layoutVars
    BY <1>1, UnchangedLayout
<1>2. CASE CompleteLap /\ active
  <2>1. ChangeLayout(pos') /\ cleared' = cleared
    BY <1>2 DEF CompleteLap
  <2>2. cleared' = FALSE
    BY <1>2, <2>1 DEF LayoutPart, ClearInv, LayoutOK
  <2> QED
    BY <1>2, <2>1, <2>2, ChangePart
<1>3. CASE RandomizeObstaclesCallback
    BY <1>3, ChangePart DEF RandomizeObstaclesCallback
<1>4. CASE Generate
  <2>1. next \in Futures /\ next # NoFuture
    BY <1>4 DEF Generate, LayoutPart, RoundInv, NoFuture
  <2>2. /\ next' \in Futures /\ next'.round = next.round
        /\ next'.state = "done" => Len(next'.layout) = Count
    BY <1>4, <2>1, OutcomeIs DEF Generate, Futures
  <2>3. RoundInv'
    BY <1>4, <2>1, <2>2 DEF Generate, LayoutPart, RoundInv
  <2> QED
    BY <1>4, <2>3
    DEF Generate, LayoutPart, LayoutOK, NumberedInv, ClearInv, ClearedStaysClear
<1>5. CASE ClearObstaclesCallback
  <2>1. /\ obstacles' = <<>> /\ sequence' = 0 /\ active' = FALSE /\ cleared' = TRUE
        /\ failed' = failed /\ failed \in BOOLEAN
    BY <1>5 DEF ClearObstaclesCallback, LayoutPart, LayoutOK
  <2>2. MaxObstacles \in Nat
    BY ObstacleLayoutsAssumption DEF ObstacleLayoutsAssumption
  <2>3. LayoutOK'
    <3>1. active' \in BOOLEAN /\ failed' \in BOOLEAN /\ cleared' \in BOOLEAN
      BY <2>1
    <3>2. obstacles' \in Seq(Obstacles) /\ sequence' = Len(obstacles')
      BY <2>1, Empty
    <3>3. Len(obstacles') <= MaxObstacles
      BY <2>1, <2>2, Empty
    <3> QED
      BY <3>1, <3>2, <3>3 DEF LayoutOK
  <2>4. NumberedInv' /\ ClearInv' /\ ClearedStaysClear'
    BY <2>1 DEF NumberedInv, ClearInv, ClearedStaysClear
  <2> QED
    BY <1>5, <2>3, <2>4 DEF ClearObstaclesCallback, LayoutPart, RoundInv
<1>6. CASE ClickedPointCallback
  <2> USE DEF LayoutPart, LayoutOK
  <2>1. PICK at \in ClickAt :
            obstacles' = Append(obstacles, [id |-> sequence, at |-> at, random |-> FALSE])
    BY <1>6 DEF ClickedPointCallback
  <2>2. [id |-> sequence, at |-> at, random |-> FALSE] \in Obstacles
    BY ObstacleLayoutsAssumption DEF ObstacleLayoutsAssumption, Obstacles
  <2>3. LayoutOK'
    BY <1>6, <2>1, <2>2, ObstacleLayoutsAssumption
    DEF ClickedPointCallback, ObstacleLayoutsAssumption
  <2>4. NumberedInv'
    BY <2>1, <2>2 DEF NumberedInv
  <2>5. ClearInv' /\ ClearedStaysClear'
    BY <1>6, <2>1, <2>2 DEF ClickedPointCallback, ClearInv, ClearedStaysClear
  <2> QED
    BY <1>6, <2>3, <2>4, <2>5 DEF ClickedPointCallback, RoundInv
<1>7. CASE RandomizeWithoutData
  <2>1. failed' = TRUE /\ UNCHANGED <<obstacles, sequence, active, round, next, applied, cleared>>
    BY <1>7 DEF RandomizeWithoutData
  <2>2. LayoutOK'
    <3>1. failed' \in BOOLEAN
      BY <2>1
    <3> QED
      BY <2>1, <3>1 DEF LayoutPart, LayoutOK
  <2> QED
    BY <2>1, <2>2 DEF LayoutPart, RoundInv, NumberedInv, ClearInv, ClearedStaysClear
<1> QED
    BY <1>1, <1>2, <1>3, <1>4, <1>5, <1>6, <1>7
    DEF Next, DriveUntracked, DriveOn, CompleteLap, EgoResetCallback

THEOREM LayoutInvariant == Spec => []LayoutInv
<1>1. LayoutInv /\ [Next]_vars => LayoutInv'
  <2> SUFFICES ASSUME LayoutInv, [Next]_vars PROVE LayoutInv'
    OBVIOUS
  <2>1. TrackerOK' /\ LapInv'
    BY NextTracker, UnchangedTracker DEF vars, LayoutInv
  <2>2. LayoutPart'
    BY NextLayout, UnchangedLayout DEF vars, LayoutInv, LayoutPart
  <2> QED
    BY <2>1, <2>2 DEF LayoutInv, LayoutPart
<1> QED
    BY InitHolds, <1>1, PTL DEF Spec

(* The attributes stay in their domains: a future is always of the round    *)
(* before the next, and no more obstacles are shown than the map may hold.  *)
THEOREM LayoutsTypeCorrect == Spec => []TypeOK
<1>1. LayoutInv => TypeOK
    BY ObstacleLayoutsAssumption
    DEF ObstacleLayoutsAssumption, LayoutInv, TypeOK, TrackerOK, LayoutOK, RoundInv,
        Futures, Positions
<1> QED
    BY <1>1, LayoutInvariant, PTL

(* Cleared obstacles do not come back by themselves.                        *)
THEOREM ClearIsFinal == Spec => []ClearedStaysClear
<1>1. LayoutInv => ClearedStaysClear
    BY DEF LayoutInv
<1> QED
    BY <1>1, LayoutInvariant, PTL

(* No two obstacles share an id, whatever mixture of clicked points,        *)
(* layouts and clear requests made them.                                    *)
THEOREM IdsAreUnique == Spec => []IdsUnique
<1>1. LayoutInv => IdsUnique
  <2> SUFFICES ASSUME LayoutInv, NEW i \in DOMAIN obstacles, NEW j \in DOMAIN obstacles,
                      obstacles[i].id = obstacles[j].id
               PROVE  i = j
    BY DEF IdsUnique
  <2>1. i \in Int /\ j \in Int
    BY DEF LayoutInv, LayoutOK
  <2> QED
    BY <2>1 DEF LayoutInv, NumberedInv
<1> QED
    BY <1>1, LayoutInvariant, PTL

(* While random obstacles are on, every completed lap brings a layout that  *)
(* was never shown before, unless its generation failed.                    *)
THEOREM LapsBringLayouts == Spec => NewLayoutEachLap
<1>1. LayoutInv /\ [Next]_vars
        => [CompleteLap /\ active => applied' > applied \/ failed']_vars
  <2> SUFFICES ASSUME LayoutInv, CompleteLap, active PROVE applied' > applied \/ failed'
    OBVIOUS
  <2>1. ChangeLayout(pos')
    BY DEF CompleteLap
  <2> QED
    BY <2>1, ChangeKeeps DEF LayoutInv
<1> QED
    BY <1>1, LayoutInvariant, PTL DEF Spec, NewLayoutEachLap

(* A lap is counted only after the car has been everywhere on the circuit,  *)
(* for a circuit of any length, any branches out of the reach of the        *)
(* search, and any driving back and forth.                                  *)
THEOREM LapsCover == Spec => LapCoversCircuit
<1>1. LayoutInv /\ [Next]_vars => [CompleteLap => covered \cup {pos'} = Positions]_vars
  <2> SUFFICES ASSUME LayoutInv, CompleteLap PROVE covered \cup {pos'} = Positions
    OBVIOUS
  <2>1. PICK s \in Projections(pos') : ProgressAfter(s) >= PathLength /\ UpdateTracker(s)
    BY DEF CompleteLap
  <2> QED
    BY <2>1, UpdateCovers DEF CompleteLap, LayoutInv
<1> QED
    BY <1>1, LayoutInvariant, PTL DEF Spec, LapCoversCircuit
===============================================================================
