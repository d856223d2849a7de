------------------------- MODULE ScanPipelineProofs -------------------------
(***************************************************************************)
(* Proofs about ScanPipeline, for every value of its constants: the type   *)
(* invariant, the order in which scans are evaluated, and the bound on how *)
(* often one scan enters the AEB count.                                    *)
(*                                                                         *)
(* The inductive invariant has two parts.  QueueInv says that whatever is  *)
(* still pending or in flight is newer than what was evaluated, and ties   *)
(* the turn of the stored clusters to the generation.  CountInv bounds the *)
(* number of times a turn was counted by how far the committed generation  *)
(* has come: every counting step moves last_aeb_scan_generation, and a     *)
(* turn can only be counted by a plan that read it while it was the newest.*)
(***************************************************************************)
EXTENDS ScanPipeline, SequenceTheorems, TLAPS

\* There is room to put the scan in flight back.
RoomInv == SensorBusy => Len(pending) < QueueLen

\* The deque is in order of arrival, and newer than the evaluated scan and
\* than the scan in flight.
OrderInv ==
    /\ \A i, j \in 1 .. Len(pending) : i < j => pending[i].id < pending[j].id
    /\ \A i \in 1 .. Len(pending) : /\ clusters.scan < pending[i].id
                                    /\ pending[i].id <= arrived
    /\ SensorBusy => \A i \in 1 .. Len(pending) : inflight.id < pending[i].id

\* The scan in flight, and what of it is stored.
FlightInv ==
    /\ SensorBusy => inflight \in PendingScan /\ inflight.id <= arrived
    /\ sensorPc \in {"transform", "inputs"} => clusters.scan < inflight.id
    /\ sensorPc = "generation" => clusters.scan = inflight.id
    /\ clusters.turn <= clusters.scan
    /\ clusters.scan <= arrived
    /\ generation = IF sensorPc = "generation" THEN clusters.turn - 1 ELSE clusters.turn

QueueInv == RoomInv /\ OrderInv /\ FlightInv

\* The generation that is, or is about to be, committed.
Ceiling == IF planPc = "commit" THEN generation ELSE lastAeb

CountInv ==
    /\ lastAeb <= generation
    /\ readTurn <= clusters.turn
    /\ planPc = "count" => lastAeb <= readTurn /\ readTurn <= generation + 1
    /\ \A t \in Turns : counted[t] = 0 \/ counted[t] <= Ceiling - t + 2
    /\ \A t \in Turns : counted[t] <= 3

PipelineInv == TypeOK /\ QueueInv /\ CountInv

-----------------------------------------------------------------------------
(* The three ways the deque changes. *)

\* scan_callback: appending to a deque with maxlen n.
LEMMA AppendBounded ==
    ASSUME NEW S, NEW s \in Seq(S), NEW e \in S, NEW n \in Nat \ {0}, Len(s) <= n,
           NEW t, t = IF Len(s) < n THEN Append(s, e) ELSE Append(Tail(s), e)
    PROVE  /\ t \in Seq(S)
           /\ Len(t) \in 1 .. n
           /\ t[Len(t)] = e
           /\ \E d \in {0, 1} : /\ Len(t) = Len(s) + 1 - d
                                /\ \A i \in 1 .. Len(t) - 1 : t[i] = s[i + d]
<1>0. Len(s) \in Nat
  BY LenProperties
<1>1. CASE Len(s) < n
  <2>1. t = Append(s, e)
    BY <1>1
  <2>2. /\ t \in Seq(S) /\ Len(t) = Len(s) + 1 /\ t[Len(s) + 1] = e
        /\ \A i \in 1 .. Len(s) : t[i] = s[i]
    BY <2>1, AppendProperties
  <2>3. Len(t) = Len(s) + 1 - 0 /\ \A i \in 1 .. Len(t) - 1 : t[i] = s[i + 0]
    BY <2>2, <1>0
  <2> QED
    BY <2>2, <2>3, <1>0, <1>1
<1>2. CASE ~(Len(s) < n)
  <2>1. t = Append(Tail(s), e) /\ Len(s) = n /\ s # <<>>
    BY <1>2, <1>0, EmptySeq
  <2>2. /\ Tail(s) \in Seq(S) /\ Len(Tail(s)) = Len(s) - 1
        /\ \A i \in 1 .. Len(Tail(s)) : Tail(s)[i] = s[i + 1]
    BY <2>1, HeadTailProperties
  <2>3. /\ t \in Seq(S) /\ Len(t) = Len(Tail(s)) + 1 /\ t[Len(Tail(s)) + 1] = e
        /\ \A i \in 1 .. Len(Tail(s)) : t[i] = Tail(s)[i]
    BY <2>1, <2>2, AppendProperties
  <2>4. Len(t) = Len(s) /\ Len(t) - 1 = Len(Tail(s)) /\ Len(s) = Len(s) + 1 - 1
    <3>1. Len(Tail(s)) = Len(s) - 1
      BY <2>2
    <3>2. Len(t) = Len(Tail(s)) + 1
      BY <2>3
    <3>3. \A k, m, l \in Int : m = k - 1 /\ l = m + 1 => l = k /\ l - 1 = m /\ k = k + 1 - 1
      OBVIOUS
    <3>4. Len(Tail(s)) \in Int /\ Len(t) \in Int
      BY <3>1, <3>2, <1>0
    <3> QED
      BY <3>1, <3>2, <3>3, <3>4, <1>0
  <2>5. \A i \in 1 .. Len(t) - 1 : t[i] = s[i + 1]
    BY <2>2, <2>3, <2>4
  <2> QED
    BY <2>1, <2>2, <2>3, <2>4, <2>5, <1>0
<1> QED
  BY <1>1, <1>2

\* process_pending_scan: popping everything up to and including index k.
LEMMA DropPrefix ==
    ASSUME NEW S, NEW s \in Seq(S), NEW k \in 1 .. Len(s)
    PROVE  /\ SubSeq(s, k + 1, Len(s)) \in Seq(S)
           /\ Len(SubSeq(s, k + 1, Len(s))) = Len(s) - k
           /\ \A i \in 1 .. Len(s) - k : SubSeq(s, k + 1, Len(s))[i] = s[k + i]
<1>1. Len(s) \in Nat /\ \A i \in k + 1 .. Len(s) : s[i] \in S
  BY LenProperties, ElementOfSeq
<1>2. /\ SubSeq(s, k + 1, Len(s)) \in Seq(S)
      /\ Len(SubSeq(s, k + 1, Len(s))) = IF k + 1 <= Len(s) THEN Len(s) - (k + 1) + 1 ELSE 0
      /\ \A i \in 1 .. Len(s) - (k + 1) + 1 : SubSeq(s, k + 1, Len(s))[i] = s[k + 1 + i - 1]
  BY <1>1, SubSeqProperties
<1> QED
  BY <1>1, <1>2

\* appendleft.
LEMMA PutBack ==
    ASSUME NEW S, NEW s \in Seq(S), NEW e \in S
    PROVE  /\ <<e>> \o s \in Seq(S)
           /\ Len(<<e>> \o s) = Len(s) + 1
           /\ (<<e>> \o s)[1] = e
           /\ \A i \in 2 .. Len(s) + 1 : (<<e>> \o s)[i] = s[i - 1]
<1>1. <<e>> \in Seq(S) /\ Len(<<e>>) = 1 /\ <<e>>[1] = e /\ Len(s) \in Nat
  BY LenProperties
<1>2. /\ <<e>> \o s \in Seq(S)
      /\ Len(<<e>> \o s) = 1 + Len(s)
      /\ \A i \in 1 .. 1 + Len(s) :
           (<<e>> \o s)[i] = IF i <= 1 THEN <<e>>[i] ELSE s[i - 1]
  BY <1>1, ConcatProperties
<1> QED
  BY <1>1, <1>2

-----------------------------------------------------------------------------
(* The invariant. *)

LEMMA InitPipeline == Init => PipelineInv
<1> SUFFICES ASSUME Init PROVE PipelineInv
  OBVIOUS
<1>1. pending = <<>> /\ Len(pending) = 0 /\ pending \in Seq(PendingScan)
  BY EmptySeq DEF Init
<1>2. TypeOK
  BY <1>1, PipelineAssumption DEF Init, TypeOK, NoScan, Expired, Turns
<1>3. QueueInv
  BY <1>1 DEF Init, QueueInv, RoomInv, OrderInv, FlightInv, SensorBusy
<1>4. CountInv
  BY DEF Init, CountInv, Ceiling, Turns
<1> QED
  BY <1>2, <1>3, <1>4 DEF PipelineInv

\* Steps that leave the sensor side alone preserve its part of the invariant.
LEMMA PlanKeepsQueue ==
    QueueInv /\ UNCHANGED <<sensorVars, arrived>> => QueueInv'
BY DEF QueueInv, RoomInv, OrderInv, FlightInv, SensorBusy, sensorVars

\* Steps that leave plan alone and only let turn and generation grow preserve
\* its part.
LEMMA SensorKeepsCount ==
    ASSUME PipelineInv, UNCHANGED planVars,
           clusters'.turn \in Int, clusters.turn <= clusters'.turn,
           generation' \in Int, generation <= generation'
    PROVE  CountInv'
<1>1. /\ lastAeb \in Int /\ generation \in Int /\ readTurn \in Int /\ clusters.turn \in Int
      /\ counted \in [Turns -> Nat] /\ Turns \subseteq Int
  BY DEF PipelineInv, TypeOK, Turns
<1>2. /\ lastAeb' = lastAeb /\ planPc' = planPc
      /\ readTurn' = readTurn /\ counted' = counted
  BY DEF planVars
<1>3. CountInv
  BY DEF PipelineInv
<1>4. lastAeb' <= generation' /\ readTurn' <= clusters'.turn
  BY <1>1, <1>2, <1>3 DEF CountInv
<1>5. planPc' = "count" => lastAeb' <= readTurn' /\ readTurn' <= generation' + 1
  <2> SUFFICES ASSUME planPc = "count"
               PROVE  lastAeb <= readTurn /\ readTurn <= generation' + 1
    BY <1>2
  <2>1. lastAeb <= readTurn /\ readTurn <= generation + 1
    BY <1>3 DEF CountInv
  <2>2. \A a, b, c \in Int : a <= b + 1 /\ b <= c => a <= c + 1
    OBVIOUS
  <2>3. generation' \in Int /\ generation <= generation'
    OBVIOUS
  <2>4. readTurn <= generation' + 1
    BY <1>1, <2>1, <2>2, <2>3
  <2> QED
    BY <2>1, <2>4
<1>6. Ceiling \in Int /\ Ceiling' \in Int /\ Ceiling <= Ceiling'
  BY <1>1, <1>2 DEF Ceiling
<1>7. \A t \in Turns : counted'[t] = 0 \/ counted'[t] <= Ceiling' - t + 2
  <2> SUFFICES ASSUME NEW t \in Turns, counted[t] # 0
               PROVE  counted[t] <= Ceiling' - t + 2
    BY <1>2
  <2>1. counted[t] <= Ceiling - t + 2
    BY <1>3 DEF CountInv
  <2>2. counted[t] \in Int /\ t \in Int
    BY <1>1
  <2> QED
    BY <1>6, <2>1, <2>2
<1>8. \A t \in Turns : counted'[t] <= 3
  BY <1>2, <1>3 DEF CountInv
<1> QED
  BY <1>4, <1>5, <1>7, <1>8 DEF CountInv

LEMMA TickStep == PipelineInv /\ Tick => PipelineInv'
<1> SUFFICES ASSUME PipelineInv, Tick PROVE PipelineInv'
  OBVIOUS
<1> USE DEF PipelineInv
<1>1. Len(pending) \in Nat /\ AgeCap \in Nat /\ Expired \in Nat
  BY LenProperties, PipelineAssumption DEF TypeOK, AgeCap, Expired
<1>2. \A i \in 1 .. Len(pending) : pending[i] \in PendingScan
  BY ElementOfSeq DEF TypeOK
<1>3. /\ pending' \in Seq(PendingScan)
      /\ Len(pending') = Len(pending)
      /\ \A i \in 1 .. Len(pending) : pending'[i].id = pending[i].id
  <2>1. \A i \in 1 .. Len(pending) :
          /\ [pending[i] EXCEPT !.age = Capped(@ + 1, AgeCap)] \in PendingScan
          /\ [pending[i] EXCEPT !.age = Capped(@ + 1, AgeCap)].id = pending[i].id
    BY <1>1, <1>2 DEF PendingScan, Capped
  <2>2. \A i \in 1 .. Len(pending) :
          pending'[i] = [pending[i] EXCEPT !.age = Capped(@ + 1, AgeCap)]
    BY DEF Tick
  <2>3. pending' \in Seq(PendingScan) /\ Len(pending') = Len(pending)
    <3>1. pending' = [i \in 1 .. Len(pending) |->
                        [pending[i] EXCEPT !.age = Capped(@ + 1, AgeCap)]]
      BY DEF Tick
    <3>2. pending' \in [1 .. Len(pending) -> PendingScan]
      BY <2>1, <3>1
    <3> QED
      BY <1>1, <3>2, IsASeq, LenProperties
  <2> QED
    BY <2>1, <2>2, <2>3
<1>4. held' \in 0 .. Expired /\ scanAge' \in 0 .. Expired
  <2>1. held \in 0 .. Expired /\ scanAge \in 0 .. Expired
    BY DEF TypeOK
  <2> QED
    BY <1>1, <2>1 DEF Tick, Capped
<1>5. TypeOK'
  BY <1>3, <1>4 DEF Tick, TypeOK, planVars
<1>6. QueueInv'
  BY <1>3 DEF Tick, QueueInv, RoomInv, OrderInv, FlightInv, SensorBusy
<1>7. CountInv'
  <2>1. UNCHANGED planVars /\ UNCHANGED clusters /\ UNCHANGED generation
    BY DEF Tick
  <2>2. clusters.turn \in Int /\ generation \in Int
    BY DEF TypeOK, Turns
  <2> QED
    BY <2>1, <2>2, SensorKeepsCount
<1> QED
  BY <1>5, <1>6, <1>7

LEMMA TfArrivesStep == PipelineInv /\ TfArrives => PipelineInv'
<1> SUFFICES ASSUME PipelineInv, TfArrives PROVE PipelineInv'
  OBVIOUS
<1> USE DEF PipelineInv
<1>1. TypeOK'
  BY DEF TfArrives, TypeOK, sensorVars, planVars
<1>2. QueueInv'
  BY PlanKeepsQueue DEF TfArrives
<1>3. CountInv'
  BY SensorKeepsCount DEF TfArrives, TypeOK, Turns, sensorVars
<1> QED
  BY <1>1, <1>2, <1>3

LEMMA ScanCallbackStep == PipelineInv /\ ScanCallback => PipelineInv'
<1> SUFFICES ASSUME PipelineInv, ScanCallback PROVE PipelineInv'
  OBVIOUS
<1> USE DEF PipelineInv
<1>1. PICK corrected \in BOOLEAN :
        pending' = IF Len(pending) < QueueLen
          THEN Append(pending, [id |-> arrived + 1, age |-> 0, corrected |-> corrected])
          ELSE Append(Tail(pending), [id |-> arrived + 1, age |-> 0, corrected |-> corrected])
  BY DEF ScanCallback
<1> DEFINE scan == [id |-> arrived + 1, age |-> 0, corrected |-> corrected]
<1>2. scan \in PendingScan /\ scan.id = arrived + 1
  BY PipelineAssumption DEF ScanCallback, TypeOK, PendingScan, Ids, AgeCap
<1> HIDE DEF scan
<1>3. pending' = IF Len(pending) < QueueLen THEN Append(pending, scan)
                                            ELSE Append(Tail(pending), scan)
  BY <1>1 DEF scan
<1>4. /\ pending' \in Seq(PendingScan)
      /\ Len(pending') \in 1 .. QueueLen
      /\ pending'[Len(pending')] = scan
      /\ \E d \in {0, 1} : /\ Len(pending') = Len(pending) + 1 - d
                           /\ \A i \in 1 .. Len(pending') - 1 : pending'[i] = pending[i + d]
  <2>1. pending \in Seq(PendingScan) /\ Len(pending) <= QueueLen /\ QueueLen \in Nat \ {0}
    BY PipelineAssumption DEF TypeOK
  <2> QED
    BY <1>2, <1>3, <2>1, AppendBounded
<1>5. Len(pending) \in Nat
  BY LenProperties DEF TypeOK
<1>6. PICK d \in {0, 1} : /\ Len(pending') = Len(pending) + 1 - d
                          /\ \A i \in 1 .. Len(pending') - 1 : pending'[i] = pending[i + d]
  BY <1>4
<1>7. \A i \in 1 .. Len(pending) : pending[i].id \in Nat
  <2>1. \A i \in 1 .. Len(pending) : pending[i] \in PendingScan
    BY ElementOfSeq DEF TypeOK
  <2> QED
    BY <2>1 DEF PendingScan, Ids
<1>8. TypeOK'
  <2>1. Len(pending') <= QueueLen
    BY <1>4, PipelineAssumption
  <2>2. arrived' \in 0 .. MaxScans /\ tfUpTo' \in 0 .. arrived'
    BY PipelineAssumption DEF ScanCallback, TypeOK
  <2> QED
    BY <1>4, <2>1, <2>2 DEF ScanCallback, TypeOK, planVars
<1>9. QueueInv'
  <2>1. RoomInv' /\ FlightInv'
    BY DEF ScanCallback, QueueInv, RoomInv, FlightInv, SensorBusy, TypeOK
  <2>2. \A i \in 1 .. Len(pending') - 1 :
          /\ i + d \in 1 .. Len(pending)
          /\ pending'[i] = pending[i + d]
    <3>1. Len(pending') \in Nat /\ Len(pending') - 1 = Len(pending) - d
      BY <1>4, <1>5, <1>6
    <3>2. \A i \in 1 .. Len(pending') - 1 : i + d \in 1 .. Len(pending)
      BY <1>5, <3>1
    <3> QED
      BY <1>6, <3>2
  <2>3. \A i \in 1 .. Len(pending') : i \in 1 .. Len(pending') - 1 \/ i = Len(pending')
    BY <1>4
  <2>4. \A i \in 1 .. Len(pending') : /\ clusters'.scan < pending'[i].id
                                      /\ pending'[i].id <= arrived'
    <3>1. /\ arrived \in Int /\ arrived' = arrived + 1
          /\ clusters' = clusters /\ clusters.scan \in Int /\ clusters.scan <= arrived
      BY DEF ScanCallback, TypeOK, QueueInv, FlightInv
    <3>2. \A i \in 1 .. Len(pending) : clusters.scan < pending[i].id /\ pending[i].id <= arrived
      BY DEF QueueInv, OrderInv
    <3>3. \A i \in 1 .. Len(pending') - 1 : /\ clusters'.scan < pending'[i].id
                                            /\ pending'[i].id <= arrived'
      BY <1>7, <2>2, <3>1, <3>2
    <3>4. clusters'.scan < scan.id /\ scan.id <= arrived'
      BY <1>2, <3>1
    <3> QED
      BY <1>4, <2>3, <3>3, <3>4
  <2>5. \A i, j \in 1 .. Len(pending') : i < j => pending'[i].id < pending'[j].id
    <3> SUFFICES ASSUME NEW i \in 1 .. Len(pending'), NEW j \in 1 .. Len(pending'), i < j
                 PROVE  pending'[i].id < pending'[j].id
      OBVIOUS
    <3>1. i \in 1 .. Len(pending') - 1
      BY <1>4
    <3>2. CASE j = Len(pending')
      <4>1. pending'[i].id <= arrived /\ pending'[i].id \in Int /\ arrived \in Int
        <5>1. i + d \in 1 .. Len(pending) /\ pending'[i] = pending[i + d]
          BY <2>2, <3>1
        <5>2. \A m \in 1 .. Len(pending) : pending[m].id <= arrived /\ pending[m].id \in Int
          BY <1>7 DEF QueueInv, OrderInv
        <5>3. arrived \in Int
          BY DEF TypeOK
        <5> QED
          BY <5>1, <5>2, <5>3
      <4>2. pending'[j].id = arrived + 1
        BY <1>2, <1>4, <3>2
      <4> QED
        BY <4>1, <4>2
    <3>3. CASE j \in 1 .. Len(pending') - 1
      <4>1. /\ i + d \in 1 .. Len(pending) /\ pending'[i] = pending[i + d]
            /\ j + d \in 1 .. Len(pending) /\ pending'[j] = pending[j + d]
        BY <2>2, <3>1, <3>3
      <4>2. i + d < j + d
        OBVIOUS
      <4> QED
        BY <4>1, <4>2 DEF QueueInv, OrderInv
    <3> QED
      BY <2>3, <3>2, <3>3
  <2> QED
    BY <2>1, <2>4, <2>5 DEF ScanCallback, QueueInv, OrderInv, SensorBusy
<1>10. CountInv'
  BY SensorKeepsCount DEF ScanCallback, TypeOK, Turns
<1> QED
  BY <1>8, <1>9, <1>10

LEMMA SelectScanStep == PipelineInv /\ SelectScan => PipelineInv'
<1> SUFFICES ASSUME PipelineInv, SelectScan PROVE PipelineInv'
  OBVIOUS
<1> USE DEF PipelineInv
<1>1. PICK k \in Eligible : /\ inflight' = pending[k]
                            /\ pending' = SubSeq(pending, k + 1, Len(pending))
  BY DEF SelectScan
<1>2. k \in 1 .. Len(pending) /\ Len(pending) \in Nat
  BY LenProperties DEF Eligible, TypeOK
<1>3. /\ pending' \in Seq(PendingScan)
      /\ Len(pending') = Len(pending) - k
      /\ \A i \in 1 .. Len(pending) - k : pending'[i] = pending[k + i]
  BY <1>1, <1>2, DropPrefix DEF TypeOK
<1>4. inflight' \in PendingScan
  BY <1>1, <1>2, ElementOfSeq DEF TypeOK
<1>5. TypeOK'
  <2>1. Len(pending') <= QueueLen
    BY <1>2, <1>3, PipelineAssumption DEF TypeOK
  <2>2. held' \in 0 .. Expired
    BY PipelineAssumption DEF SelectScan, Expired
  <2>3. sensorPc' = "transform"
    BY DEF SelectScan
  <2> QED
    BY <1>3, <1>4, <2>1, <2>2, <2>3 DEF SelectScan, TypeOK, planVars
<1>6. QueueInv'
  <2>1. RoomInv'
    BY <1>2, <1>3, PipelineAssumption DEF RoomInv, TypeOK
  <2>2. \A i \in 1 .. Len(pending') : /\ k + i \in 1 .. Len(pending)
                                      /\ k < k + i
                                      /\ pending'[i] = pending[k + i]
    BY <1>2, <1>3
  <2>3. OrderInv'
    <3>1. \A i, j \in 1 .. Len(pending') : i < j => pending'[i].id < pending'[j].id
      <4> SUFFICES ASSUME NEW i \in 1 .. Len(pending'), NEW j \in 1 .. Len(pending'), i < j
                   PROVE  pending'[i].id < pending'[j].id
        OBVIOUS
      <4>1. k + i < k + j
        BY <1>2
      <4>2. /\ k + i \in 1 .. Len(pending) /\ pending'[i] = pending[k + i]
            /\ k + j \in 1 .. Len(pending) /\ pending'[j] = pending[k + j]
        BY <2>2
      <4> QED
        BY <4>1, <4>2 DEF QueueInv, OrderInv
    <3>2. \A i \in 1 .. Len(pending') : /\ clusters'.scan < pending'[i].id
                                        /\ pending'[i].id <= arrived'
                                        /\ inflight'.id < pending'[i].id
      BY <1>1, <1>2, <2>2 DEF QueueInv, OrderInv, SelectScan
    <3> QED
      BY <3>1, <3>2 DEF OrderInv
  <2>4. FlightInv'
    BY <1>1, <1>2, <1>4 DEF SelectScan, QueueInv, OrderInv, FlightInv, SensorBusy
  <2> QED
    BY <2>1, <2>3, <2>4 DEF QueueInv
<1>7. CountInv'
  BY SensorKeepsCount DEF SelectScan, TypeOK, Turns
<1> QED
  BY <1>5, <1>6, <1>7

\* The end of process_pending_scan, whatever process_scan made of the scan:
\* the deque is as it was, or has the scan in flight in front again.
LEMMA ReturnShape ==
    ASSUME PipelineInv, SensorBusy, NEW processed \in BOOLEAN, Return(processed)
    PROVE  /\ sensorPc' = "idle" /\ inflight' = NoScan /\ held' = 0
           /\ \/ pending' = pending
              \/ /\ ~processed
                 /\ pending' \in Seq(PendingScan)
                 /\ Len(pending') = Len(pending) + 1
                 /\ pending'[1].id = inflight.id
                 /\ \A i \in 2 .. Len(pending) + 1 : pending'[i] = pending[i - 1]
<1> DEFINE scan == [inflight EXCEPT !.age = Capped(@ + held, AgeCap)]
<1>1. scan \in PendingScan /\ scan.id = inflight.id
  <2>1. inflight \in PendingScan
    BY DEF PipelineInv, QueueInv, FlightInv
  <2>2. held \in Nat /\ AgeCap \in Nat
    BY PipelineAssumption DEF PipelineInv, TypeOK, Expired, AgeCap
  <2> QED
    BY <2>1, <2>2 DEF PendingScan, Capped
<1> HIDE DEF scan
<1>2. pending' = IF ~processed /\ inflight.age < RetryAge THEN <<scan>> \o pending ELSE pending
  BY DEF Return, scan
<1>3. pending \in Seq(PendingScan)
  BY DEF PipelineInv, TypeOK
<1>4. /\ <<scan>> \o pending \in Seq(PendingScan)
      /\ Len(<<scan>> \o pending) = Len(pending) + 1
      /\ (<<scan>> \o pending)[1] = scan
      /\ \A i \in 2 .. Len(pending) + 1 : (<<scan>> \o pending)[i] = pending[i - 1]
  BY <1>1, <1>3, PutBack
<1>5. sensorPc' = "idle" /\ inflight' = NoScan /\ held' = 0
  BY DEF Return
<1> QED
  BY <1>1, <1>2, <1>4, <1>5

\* A scan that comes back unprocessed, by a failed lookup or for want of a
\* path or map, finds everything evaluated older than itself.
LEMMA UnprocessedStep ==
    ASSUME PipelineInv, sensorPc \in {"transform", "inputs"}, Return(FALSE),
           UNCHANGED <<inputs, arrived, tfUpTo, scanAge, clusters, generation, planVars>>
    PROVE  PipelineInv'
<1> USE DEF PipelineInv
<1>1. SensorBusy
  BY DEF SensorBusy
<1>2. /\ sensorPc' = "idle" /\ inflight' = NoScan /\ held' = 0
      /\ \/ pending' = pending
         \/ /\ pending' \in Seq(PendingScan)
            /\ Len(pending') = Len(pending) + 1
            /\ pending'[1].id = inflight.id
            /\ \A i \in 2 .. Len(pending) + 1 : pending'[i] = pending[i - 1]
  BY <1>1, ReturnShape
<1>3. Len(pending) \in Nat /\ Len(pending) < QueueLen
  BY <1>1, LenProperties DEF TypeOK, QueueInv, RoomInv
<1>4. TypeOK'
  <2>1. pending' \in Seq(PendingScan) /\ Len(pending') <= QueueLen
    BY <1>2, <1>3, PipelineAssumption DEF TypeOK
  <2>2. held' \in 0 .. Expired
    BY <1>2, PipelineAssumption DEF Expired
  <2> QED
    BY <1>2, <2>1, <2>2 DEF TypeOK, planVars
<1>5. QueueInv'
  <2>1. RoomInv'
    BY <1>2 DEF RoomInv, SensorBusy
  <2>2. FlightInv'
    BY <1>2 DEF QueueInv, FlightInv, SensorBusy
  <2>3. OrderInv'
    <3>1. CASE pending' = pending
      BY <1>2, <3>1 DEF QueueInv, OrderInv, SensorBusy
    <3>2. CASE /\ Len(pending') = Len(pending) + 1
               /\ pending'[1].id = inflight.id
               /\ \A i \in 2 .. Len(pending) + 1 : pending'[i] = pending[i - 1]
      <4>1. \A i \in 1 .. Len(pending') :
              \/ i = 1
              \/ i - 1 \in 1 .. Len(pending) /\ pending'[i] = pending[i - 1]
        BY <1>3, <3>2
      <4>2. clusters.scan < inflight.id /\ inflight.id <= arrived
        BY <1>1 DEF QueueInv, FlightInv
      <4>3. \A i \in 1 .. Len(pending') : /\ clusters'.scan < pending'[i].id
                                          /\ pending'[i].id <= arrived'
        BY <3>2, <4>1, <4>2 DEF QueueInv, OrderInv
      <4>4. \A i, j \in 1 .. Len(pending') : i < j => pending'[i].id < pending'[j].id
        <5> SUFFICES ASSUME NEW i \in 1 .. Len(pending'), NEW j \in 1 .. Len(pending'), i < j
                     PROVE  pending'[i].id < pending'[j].id
          OBVIOUS
        <5>1. j - 1 \in 1 .. Len(pending) /\ pending'[j] = pending[j - 1]
          BY <1>3, <3>2, <4>1
        <5>2. CASE i = 1
          BY <1>1, <3>2, <5>1, <5>2 DEF QueueInv, OrderInv
        <5>3. CASE i - 1 \in 1 .. Len(pending) /\ pending'[i] = pending[i - 1]
          <6>1. i - 1 < j - 1
            OBVIOUS
          <6> QED
            BY <5>1, <5>3, <6>1 DEF QueueInv, OrderInv
        <5> QED
          BY <4>1, <5>2, <5>3
      <4> QED
        BY <1>2, <4>3, <4>4 DEF OrderInv, SensorBusy
    <3> QED
      BY <1>2, <3>1, <3>2
  <2> QED
    BY <2>1, <2>2, <2>3 DEF QueueInv
<1>6. CountInv'
  <2>1. clusters.turn \in Int /\ generation \in Int
    BY DEF TypeOK, Turns
  <2> QED
    BY <2>1, SensorKeepsCount
<1> QED
  BY <1>4, <1>5, <1>6

LEMMA LookupSucceedsStep == PipelineInv /\ LookupSucceeds => PipelineInv'
<1> SUFFICES ASSUME PipelineInv, LookupSucceeds PROVE PipelineInv'
  OBVIOUS
<1> USE DEF PipelineInv
<1>1. TypeOK'
  BY DEF LookupSucceeds, TypeOK, planVars
<1>2. QueueInv'
  BY DEF LookupSucceeds, QueueInv, RoomInv, OrderInv, FlightInv, SensorBusy
<1>3. CountInv'
  BY SensorKeepsCount DEF LookupSucceeds, TypeOK, Turns
<1> QED
  BY <1>1, <1>2, <1>3

\* Storing clusters: turn never overtakes the scan number, which bounds it.
LEMMA StoreClustersStep == PipelineInv /\ StoreClusters => PipelineInv'
<1> SUFFICES ASSUME PipelineInv, StoreClusters PROVE PipelineInv'
  OBVIOUS
<1> USE DEF PipelineInv
<1>1. /\ clusters'.scan = inflight.id /\ clusters'.turn = clusters.turn + 1
      /\ sensorPc = "inputs" /\ sensorPc' = "generation" /\ SensorBusy /\ SensorBusy'
      /\ generation' = generation /\ inflight' = inflight /\ pending' = pending
      /\ arrived' = arrived
  BY DEF StoreClusters, SensorBusy
<1>2. /\ clusters.turn \in Nat /\ clusters.scan \in Int /\ inflight.id \in 1 .. MaxScans
      /\ generation \in Int /\ arrived \in Int
  BY <1>1 DEF TypeOK, QueueInv, FlightInv, PendingScan, Ids, Turns
<1>3. /\ clusters.turn <= clusters.scan /\ clusters.scan < inflight.id
      /\ inflight.id <= arrived /\ generation = clusters.turn
  BY <1>1 DEF QueueInv, FlightInv
<1>4. clusters.turn + 1 \in Turns /\ clusters.turn + 1 <= inflight.id
  BY <1>2, <1>3, PipelineAssumption DEF Turns
<1>5. TypeOK'
  <2>1. clusters' \in [scan : 0 .. MaxScans, turn : Turns]
    BY <1>2, <1>4, PipelineAssumption DEF StoreClusters
  <2> QED
    BY <1>1, <2>1 DEF StoreClusters, TypeOK, planVars
<1>6. QueueInv'
  <2>1. RoomInv'
    BY <1>1 DEF QueueInv, RoomInv
  <2>2. OrderInv'
    BY <1>1, <1>3 DEF QueueInv, OrderInv
  <2>3. FlightInv'
    <3>1. clusters'.turn <= clusters'.scan /\ clusters'.scan <= arrived'
      BY <1>1, <1>3, <1>4
    <3>2. generation' = clusters'.turn - 1
      BY <1>1, <1>2, <1>3
    <3>3. inflight' \in PendingScan /\ inflight'.id <= arrived'
      BY <1>1 DEF QueueInv, FlightInv
    <3> QED
      BY <1>1, <3>1, <3>2, <3>3 DEF FlightInv
  <2> QED
    BY <2>1, <2>2, <2>3 DEF QueueInv
<1>7. CountInv'
  <2>1. clusters'.turn \in Int /\ clusters.turn <= clusters'.turn
    BY <1>1, <1>2
  <2>2. generation' \in Int /\ generation <= generation'
    BY <1>1, <1>2
  <2>3. UNCHANGED planVars
    BY DEF StoreClusters
  <2> QED
    BY <2>1, <2>2, <2>3, SensorKeepsCount
<1> QED
  BY <1>5, <1>6, <1>7

LEMMA BumpGenerationStep == PipelineInv /\ BumpGeneration => PipelineInv'
<1> SUFFICES ASSUME PipelineInv, BumpGeneration PROVE PipelineInv'
  OBVIOUS
<1> USE DEF PipelineInv
<1>1. /\ sensorPc' = "idle" /\ inflight' = NoScan /\ held' = 0 /\ pending' = pending
  BY ReturnShape DEF BumpGeneration, SensorBusy
<1>2. generation' = clusters.turn /\ generation = clusters.turn - 1 /\ clusters' = clusters
  <2>1. clusters.turn \in Int
    BY DEF TypeOK, Turns
  <2>2. generation = clusters.turn - 1
    BY DEF BumpGeneration, QueueInv, FlightInv
  <2> QED
    BY <2>1, <2>2 DEF BumpGeneration
<1>3. TypeOK'
  <2>1. held' \in 0 .. Expired /\ generation' \in Turns
    BY <1>1, <1>2, PipelineAssumption DEF TypeOK, Expired
  <2> QED
    BY <1>1, <2>1 DEF BumpGeneration, TypeOK, planVars
<1>4. QueueInv'
  BY <1>1, <1>2 DEF BumpGeneration, QueueInv, RoomInv, OrderInv, FlightInv, SensorBusy
<1>5. CountInv'
  <2>1. clusters.turn \in Int /\ generation \in Int
    BY DEF TypeOK, Turns
  <2>2. clusters'.turn \in Int /\ clusters.turn <= clusters'.turn
    BY <1>2, <2>1
  <2>3. generation' \in Int /\ generation <= generation'
    BY <1>2, <2>1
  <2>4. UNCHANGED planVars
    BY DEF BumpGeneration
  <2> QED
    BY <2>2, <2>3, <2>4, SensorKeepsCount
<1> QED
  BY <1>3, <1>4, <1>5

LEMMA SensorStepInv == PipelineInv /\ SensorStep => PipelineInv'
<1> SUFFICES ASSUME PipelineInv, SensorStep PROVE PipelineInv'
  OBVIOUS
<1>1. CASE SelectScan
  BY <1>1, SelectScanStep
<1>2. CASE LookupFails
  BY <1>2, UnprocessedStep DEF LookupFails
<1>3. CASE LookupSucceeds
  BY <1>3, LookupSucceedsStep
<1>4. CASE InputsMissing
  BY <1>4, UnprocessedStep DEF InputsMissing
<1>5. CASE StoreClusters
  BY <1>5, StoreClustersStep
<1>6. CASE BumpGeneration
  BY <1>6, BumpGenerationStep
<1> QED
  BY <1>1, <1>2, <1>3, <1>4, <1>5, <1>6 DEF SensorStep

LEMMA InputArrivesStep ==
    ASSUME PipelineInv, NEW input \in {"path", "grid", "info"}, InputArrives(input)
    PROVE  PipelineInv'
<1> USE DEF PipelineInv
<1>1. TypeOK'
  BY DEF InputArrives, TypeOK, sensorVars, planVars
<1>2. QueueInv'
  BY PlanKeepsQueue DEF InputArrives
<1>3. CountInv'
  BY SensorKeepsCount DEF InputArrives, TypeOK, Turns, sensorVars
<1> QED
  BY <1>1, <1>2, <1>3

\* plan's steps that neither count nor commit.
LEMMA QuietPlanStep ==
    ASSUME PipelineInv,
           PlanStops \/ PlanStarts \/ ReadClusters \/ SkipReading \/ PublishStop
    PROVE  PipelineInv'
<1> USE DEF PipelineInv
<1>1. TypeOK'
  BY DEF PlanStops, PlanStarts, ReadClusters, SkipReading, PublishStop,
         TypeOK, sensorVars
<1>2. QueueInv'
  BY PlanKeepsQueue DEF PlanStops, PlanStarts, ReadClusters, SkipReading, PublishStop
<1>3. /\ planPc # "commit" /\ planPc' # "commit"
      /\ UNCHANGED <<clusters, generation, lastAeb, counted>>
  BY DEF PlanStops, PlanStarts, ReadClusters, SkipReading, PublishStop, sensorVars
<1>4. \/ readTurn' = readTurn /\ planPc' # "count"
      \/ readTurn' = clusters.turn
  BY DEF PlanStops, PlanStarts, ReadClusters, SkipReading, PublishStop
<1>5. /\ lastAeb \in Int /\ generation \in Int /\ clusters.turn \in Int
      /\ lastAeb <= generation /\ generation <= clusters.turn
      /\ clusters.turn <= generation + 1
  <2>1. lastAeb \in Int /\ generation \in Int /\ clusters.turn \in Int
    BY DEF TypeOK, Turns
  <2>2. generation = clusters.turn \/ generation = clusters.turn - 1
    BY DEF QueueInv, FlightInv
  <2> QED
    BY <2>1, <2>2 DEF CountInv
<1>6. lastAeb <= clusters.turn
  BY <1>5
<1>7. Ceiling' = Ceiling
  BY <1>3 DEF Ceiling
<1>8. CountInv'
  <2>1. lastAeb' <= generation' /\ readTurn' <= clusters'.turn
    BY <1>3, <1>4, <1>5 DEF CountInv
  <2>2. planPc' = "count" => lastAeb' <= readTurn' /\ readTurn' <= generation' + 1
    BY <1>3, <1>4, <1>5, <1>6
  <2>3. \A t \in Turns : counted'[t] = 0 \/ counted'[t] <= Ceiling' - t + 2
    BY <1>3, <1>7 DEF CountInv
  <2>4. \A t \in Turns : counted'[t] <= 3
    BY <1>3 DEF CountInv
  <2> QED
    BY <2>1, <2>2, <2>3, <2>4 DEF CountInv
<1> QED
  BY <1>1, <1>2, <1>8

\* The counting step.  The generation read here is above the committed one,
\* so the turn has one more count to spend, and never a fourth.
LEMMA CountReadingStep == PipelineInv /\ CountReading => PipelineInv'
<1> SUFFICES ASSUME PipelineInv, CountReading PROVE PipelineInv'
  OBVIOUS
<1> USE DEF PipelineInv
<1>1. /\ planPc = "count" /\ planPc' = "commit" /\ generation # lastAeb
      /\ counted' = [counted EXCEPT ![readTurn] = @ + 1]
      /\ UNCHANGED <<sensorVars, readTurn, rawStop, lastAeb>>
      /\ generation' = generation /\ clusters' = clusters
  BY DEF CountReading, Record, sensorVars
<1>2. /\ lastAeb \in Int /\ generation \in Int /\ readTurn \in Turns
      /\ counted \in [Turns -> Nat] /\ \A t \in Turns : t \in Int
  BY DEF TypeOK, Turns
<1>3. /\ lastAeb <= generation /\ lastAeb <= readTurn /\ readTurn <= generation + 1
      /\ Ceiling = lastAeb /\ Ceiling' = generation
  BY <1>1 DEF CountInv, Ceiling
<1>4. lastAeb + 1 <= generation
  BY <1>1, <1>2, <1>3
<1>5. \A t \in Turns : counted[t] = 0 \/ counted[t] <= lastAeb - t + 2
  BY <1>3 DEF CountInv
<1>6. TypeOK'
  <2>1. aebCount' \in Nat /\ counted' \in [Turns -> Nat]
    BY <1>1, <1>2 DEF CountReading, TypeOK
  <2>2. run' \in [first : Turns, last : Turns]
    BY <1>2 DEF CountReading, Record, TypeOK
  <2> QED
    BY <2>1, <2>2 DEF CountReading, TypeOK, sensorVars
<1>7. QueueInv'
  BY PlanKeepsQueue DEF CountReading
<1>8. CountInv'
  <2>1. counted'[readTurn] = counted[readTurn] + 1
    BY <1>1, <1>2
  <2>2. \A t \in Turns : t # readTurn => counted'[t] = counted[t]
    BY <1>1, <1>2
  <2>3. counted[readTurn] \in Nat /\ readTurn \in Int
    BY <1>2
  <2>4. counted'[readTurn] <= generation - readTurn + 2 /\ counted'[readTurn] <= 3
    <3>1. CASE counted[readTurn] = 0
      BY <1>2, <1>3, <2>1, <2>3, <3>1
    <3>2. CASE counted[readTurn] <= lastAeb - readTurn + 2
      <4>1. counted[readTurn] <= 2
        BY <1>2, <1>3, <2>3, <3>2
      <4>2. counted[readTurn] + 1 <= generation - readTurn + 2
        BY <1>2, <1>4, <2>3, <3>2
      <4> QED
        BY <2>1, <2>3, <4>1, <4>2
    <3> QED
      BY <1>2, <1>5, <3>1, <3>2
  <2>5. \A t \in Turns : counted'[t] = 0 \/ counted'[t] <= Ceiling' - t + 2
    <3> SUFFICES ASSUME NEW t \in Turns, t # readTurn, counted[t] # 0
                 PROVE  counted[t] <= generation - t + 2
      BY <1>3, <2>2, <2>4
    <3>1. counted[t] <= lastAeb - t + 2 /\ t \in Int /\ counted[t] \in Int
      BY <1>2, <1>5
    <3> QED
      BY <1>2, <1>3, <3>1
  <2>6. \A t \in Turns : counted'[t] <= 3
    BY <2>2, <2>4 DEF CountInv
  <2> QED
    BY <1>1, <2>5, <2>6 DEF CountInv
<1> QED
  BY <1>6, <1>7, <1>8

LEMMA CommitGenerationStep == PipelineInv /\ CommitGeneration => PipelineInv'
<1> SUFFICES ASSUME PipelineInv, CommitGeneration PROVE PipelineInv'
  OBVIOUS
<1> USE DEF PipelineInv
<1>1. TypeOK'
  BY DEF CommitGeneration, TypeOK, sensorVars
<1>2. QueueInv'
  BY PlanKeepsQueue DEF CommitGeneration
<1>3. Ceiling' = Ceiling
  BY DEF CommitGeneration, Ceiling, sensorVars
<1>4. CountInv'
  <2>1. lastAeb' <= generation' /\ readTurn' <= clusters'.turn
    BY DEF CommitGeneration, CountInv, sensorVars, TypeOK, Turns
  <2> QED
    BY <1>3, <2>1 DEF CommitGeneration, CountInv
<1> QED
  BY <1>1, <1>2, <1>4

LEMMA NextPipeline == PipelineInv /\ [Next]_vars => PipelineInv'
<1> SUFFICES ASSUME PipelineInv, [Next]_vars PROVE PipelineInv'
  OBVIOUS
<1>1. CASE Tick
  BY <1>1, TickStep
<1>2. CASE TfArrives
  BY <1>2, TfArrivesStep
<1>3. CASE ScanCallback
  BY <1>3, ScanCallbackStep
<1>4. CASE SensorStep
  BY <1>4, SensorStepInv
<1>5. ASSUME NEW input \in {"path", "grid", "info"}, InputArrives(input) PROVE PipelineInv'
  BY <1>5, InputArrivesStep
<1>6. CASE PlanStep
  BY <1>6, QuietPlanStep, CountReadingStep, CommitGenerationStep DEF PlanStep
<1>7. CASE UNCHANGED vars
  BY <1>7 DEF vars, sensorVars, planVars, PipelineInv, TypeOK, QueueInv, RoomInv,
              OrderInv, FlightInv, CountInv, Ceiling, SensorBusy
<1> QED
  BY <1>1, <1>2, <1>3, <1>4, <1>5, <1>6, <1>7 DEF Next

LEMMA PipelineInvariant == Spec => []PipelineInv
<1>1. Init => PipelineInv
  BY InitPipeline
<1>2. PipelineInv /\ [Next]_vars => PipelineInv'
  BY NextPipeline
<1> QED
  BY <1>1, <1>2, PTL DEF Spec

-----------------------------------------------------------------------------
(* The theorems. *)

\* Every attribute the two callback groups share stays in its domain, and the
\* deque within its maxlen although process_pending_scan puts scans back with
\* appendleft (which would evict the newest scan of a full deque).
THEOREM TypeCorrect == Spec => []TypeOK
<1>1. PipelineInv => TypeOK
  BY DEF PipelineInv
<1> QED
  BY <1>1, PipelineInvariant, PTL

\* However the unlocked reads of plan and process_scan interleave, the
\* clusters of one scan enter aeb_detection_count at most three times.
THEOREM CountBound == Spec => []CountedAtMostThrice
<1>1. PipelineInv => CountedAtMostThrice
  BY DEF PipelineInv, CountInv, CountedAtMostThrice
<1> QED
  BY <1>1, PipelineInvariant, PTL

\* Discarding, retrying and re-queueing never makes the clusters of an older
\* scan replace those of a newer one.
THEOREM InOrder == Spec => EvaluatedInOrder
<1> DEFINE A == clusters'.scan # clusters.scan => /\ clusters'.scan > clusters.scan
                                                 /\ clusters'.turn = clusters.turn + 1
<1>1. PipelineInv /\ [Next]_vars => [A]_clusters
  <2> SUFFICES ASSUME PipelineInv, Next, clusters' # clusters PROVE A
    BY DEF vars, sensorVars
  <2>1. StoreClusters
    BY DEF Next, Tick, TfArrives, ScanCallback, SensorStep, SelectScan, LookupFails,
           LookupSucceeds, InputsMissing, BumpGeneration, InputArrives, PlanStep,
           PlanStops, PlanStarts, ReadClusters, CountReading, SkipReading,
           CommitGeneration, PublishStop, sensorVars
  <2>2. clusters'.scan = inflight.id /\ clusters'.turn = clusters.turn + 1
    BY <2>1 DEF StoreClusters
  <2>3. clusters.scan < inflight.id
    BY <2>1 DEF StoreClusters, PipelineInv, QueueInv, FlightInv
  <2>4. clusters.scan \in Int /\ inflight.id \in Int
    BY <2>1 DEF PipelineInv, TypeOK, QueueInv, FlightInv, StoreClusters, SensorBusy,
                PendingScan, Ids
  <2> QED
    BY <2>2, <2>3, <2>4
<1> QED
  BY <1>1, PipelineInvariant, PTL DEF Spec, EvaluatedInOrder
=============================================================================
