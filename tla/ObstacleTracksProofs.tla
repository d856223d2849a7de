------------------------ MODULE ObstacleTracksProofs ------------------------
(***************************************************************************)
(* Proofs about ObstacleTracks, for every value of its constants: any      *)
(* number of obstacles, scans, observations and identifiers.               *)
(*                                                                         *)
(* TracksInv relates the lists, the counters and the histories.  HitsInv:  *)
(* a track that the running update has not matched has a hit to spare.     *)
(* MeanInv: the mean of a track lies within Jitter of the one obstacle it  *)
(* follows, so an observation of another obstacle is out of its reach.     *)
(***************************************************************************)
EXTENDS ObstacleTracks, SequenceTheorems, TLAPS

\* Where identifiers come from.
IdsInv ==
    /\ nextId <= freshId
    /\ ~updating => nextId = freshId
    /\ \A id \in Ids : freshId <= id => sources[id] = {}

\* Unless the list was reset meanwhile, what the update started from is listed.
RaceInv == updating /\ ~raced => \A id \in work : id < nextId => id \in tracked

HitsInv ==
    /\ \A id \in tracked \cup work : track[id].hits <= scans - born[id] + 1
    /\ \A id \in original \ matched : track[id].hits <= scans - born[id]

\* Track t follows an obstacle at p.
Near(t, p) ==
    /\ t.sumX - p * t.hits <= Jitter * t.hits
    /\ p * t.hits - t.sumX <= Jitter * t.hits

MeanInv ==
    /\ \A id \in tracked \cup work : sources[id] # {} /\ track[id].hits >= 1
    /\ \A id \in Ids : \A p, q \in sources[id] : p = q
    /\ \A id \in tracked \cup work : \A p \in sources[id] : Near(track[id], p)

TracksInv == TypeOK /\ IdsInv /\ RaceInv /\ HitsInv /\ MeanInv

-----------------------------------------------------------------------------
(* Arithmetic of the running mean. *)

\* Products in the integers; the provers need these one at a time.
LEMMA ScaleMonotone ==
    ASSUME NEW a \in Int, NEW b \in Int, NEW h \in Nat, a <= b
    PROVE  a * h <= b * h
OBVIOUS

LEMMA Distribute ==
    ASSUME NEW a \in Int, NEW b \in Int, NEW h \in Int
    PROVE  (a + b) * h = a * h + b * h
OBVIOUS

\* Another observation of the same obstacle keeps the mean near it.
LEMMA MeanStaysNear ==
    ASSUME NEW h \in Nat, NEW sum \in Int, NEW p \in Int, NEW j \in Int,
           Jitter \in Nat, -Jitter <= j, j <= Jitter,
           sum - p * h <= Jitter * h, p * h - sum <= Jitter * h
    PROVE  /\ (sum + (p + j)) - p * (h + 1) <= Jitter * (h + 1)
           /\ p * (h + 1) - (sum + (p + j)) <= Jitter * (h + 1)
<1>1. p * h \in Int /\ Jitter * h \in Int
  OBVIOUS
<1>2. p * (h + 1) = p * h + p /\ Jitter * (h + 1) = Jitter * h + Jitter
  OBVIOUS
<1> QED
  BY <1>1, <1>2

\* An observation of another obstacle, at least MatchDistance + 2 * Jitter
\* away, is not in reach.
LEMMA OthersOutOfReach ==
    ASSUME NEW h \in Nat, NEW sum \in Int, NEW p \in Int, NEW q \in Int, NEW j \in Int,
           h >= 1, Jitter \in Nat, MatchDistance \in Nat, -Jitter <= j, j <= Jitter,
           sum - p * h <= Jitter * h, p * h - sum <= Jitter * h,
           Abs(p - q) >= MatchDistance + 2 * Jitter
    PROVE  Abs(sum - (q + j) * h) >= MatchDistance * h
<1> DEFINE P == p * h
           Q == q * h
           J == j * h
           K == Jitter * h
           M == MatchDistance * h
<1>1. P \in Int /\ Q \in Int /\ J \in Int /\ K \in Int /\ M \in Int
  OBVIOUS
<1>2. (q + j) * h = Q + J
  BY Distribute
<1>3. J <= K
  BY ScaleMonotone
<1>4. -K <= J
  <2>1. (-Jitter) * h <= j * h
    BY ScaleMonotone
  <2>2. (-Jitter) * h = -K
    OBVIOUS
  <2> QED
    BY <2>1, <2>2
<1>5. \A a, b \in Int : MatchDistance + 2 * Jitter <= a - b => M + 2 * K <= a * h - b * h
  <2> SUFFICES ASSUME NEW a \in Int, NEW b \in Int, MatchDistance + 2 * Jitter <= a - b
               PROVE  M + 2 * K <= a * h - b * h
    OBVIOUS
  <2>1. (MatchDistance + 2 * Jitter) * h <= (a - b) * h
    BY ScaleMonotone
  <2>2. (MatchDistance + 2 * Jitter) * h = M + 2 * K
    OBVIOUS
  <2>3. (a - b) * h = a * h - b * h
    OBVIOUS
  <2> QED
    BY <2>1, <2>2, <2>3
<1>6. M + 2 * K <= P - Q \/ M + 2 * K <= Q - P
  <2>1. MatchDistance + 2 * Jitter <= p - q \/ MatchDistance + 2 * Jitter <= q - p
    BY DEF Abs
  <2> QED
    BY <1>5, <2>1
<1>7. sum - P <= K /\ P - sum <= K
  OBVIOUS
<1> HIDE DEF P, Q, J, K, M
<1>8. Abs(sum - (Q + J)) >= M
  BY <1>1, <1>3, <1>4, <1>6, <1>7 DEF Abs
<1> QED
  BY <1>2, <1>8 DEF M

-----------------------------------------------------------------------------
(* The type invariant. *)

LEMMA InitTracks == Init => TracksInv
<1> SUFFICES ASSUME Init PROVE TracksInv
  OBVIOUS
<1>1. todo \in Seq(Observation)
  BY EmptySeq DEF Init
<1>2. NoTrack \in Track
  BY TracksAssumption DEF NoTrack, Track, Expired
<1>3. TypeOK
  <2>1. track \in [Ids -> Track] /\ sources \in [Ids -> SUBSET Obstacles]
    BY <1>2 DEF Init
  <2>2. 0 \in 0 .. MaxIds /\ 0 \in 0 .. MaxScans
    BY TracksAssumption
  <2>3. born \in [Ids -> 0 .. MaxScans]
    BY <2>2 DEF Init
  <2>4. /\ nextId \in 0 .. MaxIds /\ freshId \in 0 .. MaxIds /\ scans \in 0 .. MaxScans
        /\ tracked = {} /\ work = {} /\ original = {} /\ matched = {}
        /\ updating \in BOOLEAN /\ raced \in BOOLEAN
    BY <2>2 DEF Init
  <2> QED
    BY <1>1, <2>1, <2>3, <2>4 DEF TypeOK
<1>4. IdsInv /\ RaceInv /\ HitsInv /\ MeanInv
  BY DEF Init, IdsInv, RaceInv, HitsInv, MeanInv
<1> QED
  BY <1>3, <1>4 DEF TracksInv

\* The range a surface centre strays in.
LEMMA JitterBounds ==
    ASSUME NEW j \in -Jitter .. Jitter
    PROVE  j \in Int /\ Jitter \in Nat /\ -Jitter <= j /\ j <= Jitter
<1>1. Jitter \in Nat
  BY TracksAssumption
<1> QED
  BY <1>1

\* Facts about the observation at hand.
LEMMA HeadProperties ==
    ASSUME TypeOK, todo # <<>>
    PROVE  /\ Tail(todo) \in Seq(Observation)
           /\ Head(todo).from \in Obstacles
           /\ Head(todo).x \in Int
           /\ Project(Head(todo).x) \in Int
           /\ \E j \in -Jitter .. Jitter : Head(todo).x = Head(todo).from + j
<1>1. Head(todo) \in Observation /\ Tail(todo) \in Seq(Observation)
  BY HeadTailProperties DEF TypeOK
<1>2. PICK p \in Obstacles, j \in -Jitter .. Jitter : Head(todo) = [from |-> p, x |-> p + j]
  BY <1>1 DEF Observation
<1>3. p \in Int /\ j \in Int
  BY TracksAssumption
<1>4. Head(todo).from = p /\ Head(todo).x = p + j /\ p + j \in Int
  BY <1>2, <1>3
<1>5. Project(p + j) \in Int
  BY <1>3, TracksAssumption DEF Project
<1> QED
  BY <1>1, <1>4, <1>5

\* Ageing leaves everything else of a track alone.
LEMMA AgeingStep ==
    ASSUME TypeOK, BeginUpdate
    PROVE  /\ track' \in [Ids -> Track]
           /\ \A id \in Ids : /\ track'[id].hits = track[id].hits
                              /\ track'[id].sumX = track[id].sumX
           /\ work' \subseteq tracked
<1>1. PICK dt \in 1 .. Expired :
        /\ track' = [id \in Ids |->
             [track[id] EXCEPT !.age = IF @ + dt < Expired THEN @ + dt ELSE Expired]]
        /\ work' = {id \in tracked : track'[id].age <= Memory}
  BY DEF BeginUpdate
<1>2. Expired \in Nat /\ dt \in Nat
  BY TracksAssumption DEF Expired
<1>3. \A t \in Track :
        LET u == [t EXCEPT !.age = IF @ + dt < Expired THEN @ + dt ELSE Expired]
        IN  u \in Track /\ u.hits = t.hits /\ u.sumX = t.sumX
  BY <1>2 DEF Track
<1>4. \A id \in Ids : track[id] \in Track
  BY DEF TypeOK
<1> QED
  BY <1>1, <1>3, <1>4

LEMMA BeginStep == TracksInv /\ BeginUpdate => TracksInv'
<1> SUFFICES ASSUME TracksInv, BeginUpdate PROVE TracksInv'
  OBVIOUS
<1> USE DEF TracksInv
<1>1. /\ track' \in [Ids -> Track]
      /\ \A id \in Ids : /\ track'[id].hits = track[id].hits
                         /\ track'[id].sumX = track[id].sumX
      /\ work' \subseteq tracked
  BY AgeingStep
<1>2. /\ original' = work' /\ matched' = {} /\ freshId' = nextId /\ updating' = TRUE
      /\ scans' = scans + 1 /\ UNCHANGED <<tracked, nextId, born, sources, raced>>
      /\ ~updating /\ scans < MaxScans
  BY DEF BeginUpdate
<1>3. todo' \in Seq(Observation)
  <2>1. PICK n \in 0 .. MaxPerScan : todo' \in [1 .. n -> Observation]
    BY DEF BeginUpdate, ScanLists
  <2>2. n \in Nat
    BY TracksAssumption
  <2> QED
    BY <2>1, <2>2, IsASeq
<1>4. nextId = freshId
  BY <1>2 DEF IdsInv
<1>5. TypeOK'
  <2>1. scans' \in 0 .. MaxScans
    BY <1>2, TracksAssumption DEF TypeOK
  <2> QED
    BY <1>1, <1>2, <1>3, <2>1 DEF TypeOK
<1>6. IdsInv'
  <2>1. nextId' <= freshId'
    BY <1>2 DEF TypeOK
  <2> QED
    BY <1>2, <1>4, <2>1 DEF IdsInv
<1>7. RaceInv'
  BY <1>1, <1>2 DEF RaceInv
<1>8. tracked' \cup work' \subseteq tracked /\ tracked \subseteq Ids
  BY <1>1, <1>2, TracksAssumption DEF TypeOK, Ids
<1>9. HitsInv'
  <2>1. \A id \in tracked : track'[id].hits <= scans' - born'[id]
    <3> SUFFICES ASSUME NEW id \in tracked PROVE track'[id].hits <= scans' - born'[id]
      OBVIOUS
    <3>1. track[id].hits <= scans - born[id] + 1
      BY DEF HitsInv
    <3>2. track[id].hits \in Int /\ scans \in Int /\ born[id] \in Int
      BY <1>8 DEF TypeOK, Track
    <3>3. /\ track'[id].hits = track[id].hits
          /\ scans' = scans + 1 /\ born'[id] = born[id]
      BY <1>1, <1>2, <1>8
    <3> QED
      BY <3>1, <3>2, <3>3
  <2>2. \A id \in tracked : track'[id].hits \in Int /\ scans' \in Int /\ born'[id] \in Int
    BY <1>1, <1>2, <1>8 DEF TypeOK, Track
  <2>3. \A id \in tracked : track'[id].hits <= scans' - born'[id] + 1
    BY <2>1, <2>2
  <2>4. original' \ matched' \subseteq tracked
    BY <1>1, <1>2
  <2> QED
    BY <1>8, <2>1, <2>3, <2>4 DEF HitsInv
<1>10. MeanInv'
  BY <1>1, <1>2, <1>8 DEF MeanInv, Near
<1> QED
  BY <1>5, <1>6, <1>7, <1>9, <1>10

LEMMA AssociateStep == TracksInv /\ Associate => TracksInv'
<1> SUFFICES ASSUME TracksInv, Associate PROVE TracksInv'
  OBVIOUS
<1> USE DEF TracksInv
<1>1. PICK id \in Candidates :
        /\ matched' = matched \cup {id}
        /\ track' = [track EXCEPT
             ![id] = [hits |-> @.hits + 1,
                      sumX |-> @.sumX + Head(todo).x,
                      sumS |-> @.sumS + Project(Head(todo).x),
                      age  |-> 0]]
        /\ sources' = [sources EXCEPT ![id] = @ \cup {Head(todo).from}]
  BY DEF Associate
<1>2. /\ updating /\ todo # <<>> /\ todo' = Tail(todo)
      /\ UNCHANGED <<tracked, nextId, updating, work, freshId, original, scans, born, raced>>
  BY DEF Associate
<1>3. /\ Tail(todo) \in Seq(Observation) /\ Head(todo).from \in Obstacles
      /\ Head(todo).x \in Int /\ Project(Head(todo).x) \in Int
      /\ \E j \in -Jitter .. Jitter : Head(todo).x = Head(todo).from + j
  BY <1>2, HeadProperties
<1>4. /\ id \in original /\ id \notin matched /\ id \in work /\ id \in Ids
      /\ InReach(track[id], Head(todo).x)
  BY TracksAssumption DEF Candidates, TypeOK, Ids
<1>5. track[id] \in Track /\ track[id].hits \in Nat /\ track[id].sumX \in Int
  BY <1>4 DEF TypeOK, Track
<1>6. /\ track'[id].hits = track[id].hits + 1
      /\ track'[id].sumX = track[id].sumX + Head(todo).x
      /\ \A other \in Ids : other # id => track'[other] = track[other]
      /\ sources'[id] = sources[id] \cup {Head(todo).from}
      /\ \A other \in Ids : other # id => sources'[other] = sources[other]
  BY <1>1, <1>4 DEF TypeOK
<1>7. tracked \subseteq Ids /\ work \subseteq Ids /\ original \subseteq Ids
  BY TracksAssumption DEF TypeOK, Ids
<1>8. TypeOK'
  <2>1. track' \in [Ids -> Track]
    <3>1. [hits |-> track[id].hits + 1, sumX |-> track[id].sumX + Head(todo).x,
           sumS |-> track[id].sumS + Project(Head(todo).x), age  |-> 0] \in Track
      BY <1>3, <1>5, TracksAssumption DEF Track, Expired
    <3> QED
      BY <1>1, <3>1 DEF TypeOK
  <2>2. sources' \in [Ids -> SUBSET Obstacles]
    BY <1>1, <1>3 DEF TypeOK
  <2>3. matched' \subseteq original'
    BY <1>1, <1>2, <1>4 DEF TypeOK
  <2> QED
    BY <1>2, <1>3, <2>1, <2>2, <2>3 DEF TypeOK
<1>9. IdsInv'
  <2>1. sources[id] # {} /\ ~(freshId <= id)
    BY <1>4 DEF MeanInv, IdsInv
  <2> QED
    BY <1>2, <1>6, <2>1 DEF IdsInv
<1>10. RaceInv'
  BY <1>2 DEF RaceInv
<1>11. HitsInv'
  <2>1. scans \in Int /\ born[id] \in Int
    BY <1>4 DEF TypeOK
  <2>2. track[id].hits <= scans - born[id]
    BY <1>4 DEF HitsInv
  <2>3. track'[id].hits <= scans - born[id] + 1
    BY <1>5, <1>6, <2>1, <2>2
  <2>4. original' \ matched' \subseteq (original \ matched) \ {id}
    BY <1>1, <1>2
  <2> QED
    BY <1>2, <1>6, <1>7, <2>3, <2>4 DEF HitsInv
<1>12. sources[id] = {Head(todo).from}
  <2>1. PICK p \in sources[id] : p \in Obstacles
    BY <1>4 DEF MeanInv, TypeOK
  <2>2. sources[id] = {p}
    BY <1>4, <2>1 DEF MeanInv
  <2>3. p = Head(todo).from
    <3> SUFFICES ASSUME p # Head(todo).from PROVE FALSE
      OBVIOUS
    <3>1. PICK j \in -Jitter .. Jitter : Head(todo).x = Head(todo).from + j
      BY <1>3
    <3>2. /\ p \in Int /\ Head(todo).from \in Int /\ j \in Int
          /\ Jitter \in Nat /\ MatchDistance \in Nat /\ -Jitter <= j /\ j <= Jitter
      <4>1. p \in Int /\ Head(todo).from \in Int /\ MatchDistance \in Nat
        BY <1>3, <2>1, TracksAssumption
      <4> QED
        BY <4>1, JitterBounds
    <3>3. Abs(p - Head(todo).from) >= MatchDistance + 2 * Jitter
      BY <1>3, <2>1, SeparationAssumption
    <3>4. /\ track[id].sumX - p * track[id].hits <= Jitter * track[id].hits
          /\ p * track[id].hits - track[id].sumX <= Jitter * track[id].hits
          /\ track[id].hits >= 1
      BY <1>4, <2>1 DEF MeanInv, Near
    <3>5. Abs(track[id].sumX - (Head(todo).from + j) * track[id].hits)
            >= MatchDistance * track[id].hits
      BY <1>5, <3>2, <3>3, <3>4, OthersOutOfReach
    <3>6. Abs(track[id].sumX - (Head(todo).from + j) * track[id].hits)
            < MatchDistance * track[id].hits
      BY <1>4, <3>1 DEF InReach, ScaledDistance
    <3>7. \A a, b \in Int : ~(a >= b /\ a < b)
      OBVIOUS
    <3>8. /\ Abs(track[id].sumX - (Head(todo).from + j) * track[id].hits) \in Int
          /\ MatchDistance * track[id].hits \in Int
      BY <1>5, <3>2 DEF Abs
    <3> QED
      BY <3>5, <3>6, <3>7, <3>8
  <2> QED
    BY <2>2, <2>3
<1>13. sources'[id] = sources[id]
  BY <1>6, <1>12
<1>14. Near(track'[id], Head(todo).from)
  <2>1. PICK j \in -Jitter .. Jitter : Head(todo).x = Head(todo).from + j
    BY <1>3
  <2>2. /\ Head(todo).from \in Int /\ j \in Int
        /\ Jitter \in Nat /\ -Jitter <= j /\ j <= Jitter
    <3>1. Head(todo).from \in Int
      BY <1>3, TracksAssumption
    <3> QED
      BY <3>1, JitterBounds
  <2>3. Near(track[id], Head(todo).from)
    BY <1>4, <1>12 DEF MeanInv
  <2> DEFINE h == track[id].hits
             sum == track[id].sumX
             p == Head(todo).from
  <2>4. h \in Nat /\ sum \in Int /\ p \in Int
    BY <1>5, <2>2
  <2>5. sum - p * h <= Jitter * h /\ p * h - sum <= Jitter * h
    BY <2>3 DEF Near
  <2>6. track'[id].hits = h + 1 /\ track'[id].sumX = sum + (p + j)
    BY <1>6, <2>1
  <2> HIDE DEF h, sum, p
  <2>7. /\ (sum + (p + j)) - p * (h + 1) <= Jitter * (h + 1)
        /\ p * (h + 1) - (sum + (p + j)) <= Jitter * (h + 1)
    BY <2>2, <2>4, <2>5, MeanStaysNear
  <2>8. Near(track'[id], p)
    BY <2>6, <2>7 DEF Near
  <2> QED
    BY <2>8 DEF p
<1>15. MeanInv'
  <2>1. track'[id].hits >= 1
    BY <1>5, <1>6
  <2>2. \A other \in tracked \cup work : sources'[other] = sources[other]
    BY <1>6, <1>7, <1>13
  <2>3. \A other \in tracked' \cup work' : sources'[other] # {} /\ track'[other].hits >= 1
    BY <1>2, <1>6, <1>7, <2>1, <2>2 DEF MeanInv
  <2>4. \A other \in Ids : \A p, q \in sources'[other] : p = q
    BY <1>6, <1>13 DEF MeanInv
  <2>5. \A other \in tracked' \cup work' : \A p \in sources'[other] : Near(track'[other], p)
    <3> SUFFICES ASSUME NEW other \in tracked \cup work, NEW p \in sources[other]
                 PROVE  Near(track'[other], p)
      BY <1>2, <2>2
    <3>1. CASE other = id
      BY <1>12, <1>14, <3>1
    <3>2. CASE other # id
      <4>1. track'[other] = track[other]
        BY <1>6, <1>7, <3>2
      <4> QED
        BY <4>1 DEF MeanInv, Near
    <3> QED
      BY <3>1, <3>2
  <2> QED
    BY <2>3, <2>4, <2>5 DEF MeanInv
<1> QED
  BY <1>8, <1>9, <1>10, <1>11, <1>15

LEMMA CreateStep == TracksInv /\ CreateTrack => TracksInv'
<1> SUFFICES ASSUME TracksInv, CreateTrack PROVE TracksInv'
  OBVIOUS
<1> USE DEF TracksInv
<1> DEFINE new == [hits |-> 1, sumX |-> Head(todo).x,
                   sumS |-> Project(Head(todo).x), age  |-> 0]
<1>1. /\ updating /\ todo # <<>> /\ todo' = Tail(todo) /\ freshId < MaxIds
      /\ track' = [track EXCEPT ![freshId] = new]
      /\ work' = work \cup {freshId} /\ freshId' = freshId + 1
      /\ born' = [born EXCEPT ![freshId] = scans]
      /\ sources' = [sources EXCEPT ![freshId] = {Head(todo).from}]
      /\ UNCHANGED <<tracked, nextId, updating, original, matched, scans, raced>>
  BY DEF CreateTrack
<1>2. /\ Tail(todo) \in Seq(Observation) /\ Head(todo).from \in Obstacles
      /\ Head(todo).x \in Int /\ Project(Head(todo).x) \in Int
      /\ \E j \in -Jitter .. Jitter : Head(todo).x = Head(todo).from + j
  BY <1>1, HeadProperties
<1>3. freshId \in Ids /\ freshId \in Nat /\ nextId \in Nat /\ nextId <= freshId
  BY <1>1, TracksAssumption DEF TypeOK, Ids, IdsInv
<1>4. /\ track'[freshId] = new /\ sources'[freshId] = {Head(todo).from}
      /\ born'[freshId] = scans
      /\ \A id \in Ids : id # freshId => /\ track'[id] = track[id]
                                         /\ sources'[id] = sources[id]
                                         /\ born'[id] = born[id]
  BY <1>1, <1>3 DEF TypeOK
<1>5. /\ tracked \subseteq Ids /\ work \subseteq Ids /\ original \subseteq Ids
      /\ freshId \notin tracked /\ freshId \notin work /\ freshId \notin original
  BY <1>3, TracksAssumption DEF TypeOK, Ids
<1>6. TypeOK'
  <2>1. new \in Track
    BY <1>2, TracksAssumption DEF Track, Expired
  <2>2. track' \in [Ids -> Track] /\ sources' \in [Ids -> SUBSET Obstacles]
    BY <1>1, <1>2, <2>1 DEF TypeOK
  <2>3. born' \in [Ids -> 0 .. MaxScans]
    BY <1>1 DEF TypeOK
  <2>4. work' \subseteq 0 .. freshId' - 1 /\ freshId' \in 0 .. MaxIds
    BY <1>1, <1>3, TracksAssumption DEF TypeOK
  <2> QED
    BY <1>1, <1>2, <2>2, <2>3, <2>4 DEF TypeOK
<1>7. IdsInv'
  <2>1. nextId <= freshId + 1
    BY <1>3
  <2>2. \A id \in Ids : freshId + 1 <= id => freshId <= id /\ id # freshId
    BY <1>3 DEF Ids
  <2> QED
    BY <1>1, <1>4, <2>1, <2>2 DEF IdsInv
<1>8. RaceInv'
  <2>1. ~(freshId < nextId)
    BY <1>3
  <2> QED
    BY <1>1, <2>1 DEF RaceInv
<1>9. HitsInv'
  <2>1. track'[freshId].hits <= scans - born'[freshId] + 1
    BY <1>4 DEF TypeOK
  <2> QED
    BY <1>1, <1>4, <1>5, <2>1 DEF HitsInv
<1>10. Near(new, Head(todo).from)
  <2>1. PICK j \in -Jitter .. Jitter : Head(todo).x = Head(todo).from + j
    BY <1>2
  <2>2. Head(todo).from \in Int /\ j \in Int /\ Jitter \in Nat /\ -Jitter <= j /\ j <= Jitter
    <3>1. Head(todo).from \in Int
      BY <1>2, TracksAssumption
    <3> QED
      BY <3>1, JitterBounds
  <2> QED
    BY <2>1, <2>2 DEF Near
<1> HIDE DEF new
<1>11. MeanInv'
  <2>1. track'[freshId].hits >= 1
    BY <1>4 DEF new
  <2>2. \A id \in tracked' \cup work' : sources'[id] # {} /\ track'[id].hits >= 1
    BY <1>1, <1>4, <1>5, <2>1 DEF MeanInv
  <2>3. \A id \in Ids : \A p, q \in sources'[id] : p = q
    BY <1>4 DEF MeanInv
  <2>4. \A id \in tracked' \cup work' : \A p \in sources'[id] : Near(track'[id], p)
    <3> SUFFICES ASSUME NEW id \in tracked' \cup work', NEW p \in sources'[id]
                 PROVE  Near(track'[id], p)
      OBVIOUS
    <3>1. CASE id = freshId
      BY <1>4, <1>10, <3>1
    <3>2. CASE id # freshId
      <4>1. id \in tracked \cup work /\ track'[id] = track[id] /\ sources'[id] = sources[id]
        BY <1>1, <1>4, <1>5, <3>2
      <4> QED
        BY <4>1 DEF MeanInv, Near
    <3> QED
      BY <3>1, <3>2
  <2> QED
    BY <2>2, <2>3, <2>4 DEF MeanInv
<1> QED
  BY <1>6, <1>7, <1>8, <1>9, <1>11

LEMMA FinishStep == TracksInv /\ FinishUpdate => TracksInv'
<1> SUFFICES ASSUME TracksInv, FinishUpdate PROVE TracksInv'
  OBVIOUS
<1> USE DEF TracksInv
<1>1. TypeOK'
  BY DEF FinishUpdate, TypeOK
<1>2. IdsInv' /\ RaceInv'
  BY DEF FinishUpdate, IdsInv, RaceInv, TypeOK
<1>3. HitsInv'
  BY DEF FinishUpdate, HitsInv
<1>4. MeanInv'
  BY DEF FinishUpdate, MeanInv, Near
<1> QED
  BY <1>1, <1>2, <1>3, <1>4

LEMMA ResetStep == TracksInv /\ GlobalPathCallback => TracksInv'
<1> SUFFICES ASSUME TracksInv, GlobalPathCallback PROVE TracksInv'
  OBVIOUS
<1> USE DEF TracksInv
<1>1. TypeOK'
  BY DEF GlobalPathCallback, TypeOK
<1>2. IdsInv' /\ RaceInv'
  BY DEF GlobalPathCallback, IdsInv, RaceInv
<1>3. HitsInv'
  BY DEF GlobalPathCallback, HitsInv
<1>4. MeanInv'
  BY DEF GlobalPathCallback, MeanInv, Near
<1> QED
  BY <1>1, <1>2, <1>3, <1>4

LEMMA TracksInvariant == Spec => []TracksInv
<1>1. Init => TracksInv
  BY InitTracks
<1>2. TracksInv /\ [Next]_vars => TracksInv'
  <2> SUFFICES ASSUME TracksInv, [Next]_vars PROVE TracksInv'
    OBVIOUS
  <2>1. CASE UNCHANGED vars
    BY <2>1 DEF vars, TracksInv, TypeOK, IdsInv, RaceInv, HitsInv, MeanInv, Near
  <2> QED
    BY <2>1, BeginStep, AssociateStep, CreateStep, FinishStep, ResetStep DEF Next
<1> QED
  BY <1>1, <1>2, PTL DEF Spec

-----------------------------------------------------------------------------
(* The theorems. *)

\* The lists hold identifiers below the counter they are continued with.
THEOREM TracksTypeCorrect == Spec => []TypeOK
<1>1. TracksInv => TypeOK
  BY DEF TracksInv
<1> QED
  BY <1>1, TracksInvariant, PTL

\* One scan, however it splits an obstacle, adds at most one hit to a track.
THEOREM HitsCountScans == Spec => []OneHitPerScan
<1>1. TracksInv => OneHitPerScan
  BY DEF TracksInv, HitsInv, OneHitPerScan
<1> QED
  BY <1>1, TracksInvariant, PTL

\* No sequence of associations makes a track absorb two obstacles that are
\* further apart than obstacle_match_distance and twice the jitter.
THEOREM TracksFollowOneObstacle == Spec => []TracksDoNotMix
<1>1. TracksInv => TracksDoNotMix
  BY DEF TracksInv, MeanInv, TracksDoNotMix
<1> QED
  BY <1>1, TracksInvariant, PTL

\* An identifier names one track for ever.
THEOREM IdentifiersAreUnique == Spec => IdsNeverReused
<1> DEFINE A == \A id \in Ids : sources[id] # {} => sources[id] \subseteq sources'[id]
                                                   /\ born'[id] = born[id]
<1>1. TracksInv /\ [Next]_vars => [A]_vars
  <2> SUFFICES ASSUME TracksInv, Next, NEW id \in Ids, sources[id] # {}
               PROVE  sources[id] \subseteq sources'[id] /\ born'[id] = born[id]
    OBVIOUS
  <2>1. CASE Associate
    BY <2>1 DEF Associate, TracksInv, TypeOK
  <2>2. CASE CreateTrack
    <3>1. id # freshId
      BY DEF TracksInv, IdsInv, TypeOK
    <3> QED
      BY <2>2, <3>1 DEF CreateTrack, TracksInv, TypeOK
  <2> QED
    BY <2>1, <2>2 DEF Next, BeginUpdate, FinishUpdate, GlobalPathCallback
<1> QED
  BY <1>1, TracksInvariant, PTL DEF Spec, IdsNeverReused

\* Only an update that was running during a reset brings tracks back.
THEOREM ResetHolds == Spec => ComesBackOnlyByRace
<1> DEFINE A == \A id \in tracked' \ tracked : id >= nextId \/ raced
<1>1. TracksInv /\ [Next]_vars => [A]_vars
  <2> SUFFICES ASSUME TracksInv, Next, NEW id \in tracked' \ tracked
               PROVE  id >= nextId \/ raced
    OBVIOUS
  <2>1. FinishUpdate /\ id \in work
    BY DEF Next, BeginUpdate, Associate, CreateTrack, FinishUpdate, GlobalPathCallback
  <2>2. id \in Int /\ nextId \in Int
    BY <2>1 DEF TracksInv, TypeOK
  <2>3. raced \/ ~(id < nextId)
    BY <2>1 DEF FinishUpdate, TracksInv, RaceInv
  <2> QED
    BY <2>2, <2>3
<1> QED
  BY <1>1, TracksInvariant, PTL DEF Spec, ComesBackOnlyByRace
=============================================================================
