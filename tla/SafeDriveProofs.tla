---------------------------- MODULE SafeDriveProofs ----------------------------
(***************************************************************************)
(* ScanPipeline implements SafeDrive, for every value of its constants.    *)
(* RunInv adds to the invariant of ScanPipelineProofs what the run of      *)
(* blocked readings has to do with the committed generation: every reading *)
(* that is counted raises Ceiling, and it can only be counted while the    *)
(* committed generation is not above the turn that was read.               *)
(***************************************************************************)
EXTENDS ScanPipelineProofs

RunInv ==
    /\ aebCount <= Ceiling - run.first + 2
    /\ run.last <= readTurn
    /\ rawStop => readTurn > 0
    /\ ConfirmationsSpanScans

\* Only CountReading changes the count and its run,
RunKept == UNCHANGED <<aebCount, run>>

LEMMA RunInitHolds == Init => RunInv
    BY DEF Init, RunInv, Ceiling, ConfirmationsSpanScans

\* The domains of what RunInv speaks of.
LEMMA RunTypes ==
    ASSUME TypeOK
    PROVE  /\ aebCount \in Int /\ run.first \in Int /\ run.last \in Int /\ readTurn \in Int
           /\ lastAeb \in Int /\ generation \in Int /\ clusters.turn \in Int
           /\ Ceiling \in Int
    BY DEF TypeOK, Turns, Ceiling

\* The steps of the sensor group and of the environment: the generation grows.
LEMMA SensorKeepsRun ==
    ASSUME PipelineInv, PipelineInv', RunInv, UNCHANGED planVars, generation <= generation'
    PROVE  RunInv'
<1>1. TypeOK /\ TypeOK'
    BY DEF PipelineInv
<1>2. Ceiling <= Ceiling' /\ Ceiling \in Int /\ Ceiling' \in Int
    BY <1>1, RunTypes DEF Ceiling, planVars, TypeOK, Turns
<1>3. aebCount' = aebCount /\ run' = run /\ readTurn' = readTurn /\ rawStop' = rawStop
    BY DEF planVars
<1>4. aebCount \in Int /\ run.first \in Int
    BY <1>1, RunTypes
<1>5. aebCount <= Ceiling' - run.first + 2
    BY <1>2, <1>4 DEF RunInv
<1> QED
    BY <1>3, <1>5 DEF RunInv, ConfirmationsSpanScans

\* The steps of plan that count nothing.
LEMMA QuietPlanKeepsRun ==
    ASSUME PipelineInv, RunInv,
           PlanStops \/ PlanStarts \/ ReadClusters \/ SkipReading \/ CommitGeneration
             \/ PublishStop
    PROVE  RunInv'
<1> USE DEF PipelineInv
<1>1. /\ UNCHANGED <<aebCount, run, generation, clusters>>
      /\ Ceiling' = Ceiling
    BY DEF PlanStops, PlanStarts, ReadClusters, SkipReading, CommitGeneration, PublishStop,
           sensorVars, Ceiling
<1>2. \/ readTurn' = readTurn /\ rawStop' = rawStop
      \/ readTurn' = clusters.turn /\ (rawStop' => clusters.turn > 0)
    BY DEF PlanStops, PlanStarts, ReadClusters, SkipReading, CommitGeneration, PublishStop
<1>3. readTurn <= clusters.turn
    BY DEF CountInv
<1>4. run.last <= readTurn' /\ (rawStop' => readTurn' > 0)
    BY <1>2, <1>3, RunTypes DEF RunInv
<1> QED
    BY <1>1, <1>4 DEF RunInv, ConfirmationsSpanScans

\* The counting step, which raises Ceiling by one at least.
LEMMA CountReadingKeepsRun ==
    ASSUME PipelineInv, RunInv, CountReading
    PROVE  RunInv'
<1> USE DEF PipelineInv
<1>1. /\ planPc = "count" /\ planPc' = "commit" /\ generation # lastAeb
      /\ UNCHANGED <<generation, readTurn, rawStop>>
      /\ aebCount' = IF rawStop THEN aebCount + 1 ELSE 0
      /\ run'.first = IF rawStop /\ aebCount > 0 THEN run.first ELSE readTurn
      /\ run'.last = readTurn
    BY DEF CountReading, Record, sensorVars
<1>2. /\ aebCount \in Int /\ run.first \in Int /\ run.last \in Int /\ readTurn \in Int
      /\ lastAeb \in Int /\ generation \in Int /\ aebCount >= 0
    BY RunTypes DEF TypeOK
<1>3. /\ lastAeb < generation /\ lastAeb <= readTurn /\ readTurn <= generation + 1
      /\ Ceiling = lastAeb /\ Ceiling' = generation
    BY <1>1, <1>2 DEF CountInv, Ceiling
<1>4. aebCount <= lastAeb - run.first + 2
    BY <1>3 DEF RunInv
<1>5. CASE rawStop /\ aebCount > 0
  <2>1. aebCount' = aebCount + 1 /\ run'.first = run.first
    BY <1>1, <1>5
  <2>2. aebCount' <= generation - run'.first + 2 /\ aebCount' <= readTurn - run'.first + 3
    BY <1>2, <1>3, <1>4, <2>1
  <2> QED
    BY <1>1, <1>2, <1>3, <2>2 DEF RunInv, ConfirmationsSpanScans
<1>6. CASE ~(rawStop /\ aebCount > 0)
  <2>1. aebCount' \in {0, 1} /\ run'.first = readTurn
    BY <1>1, <1>2, <1>6
  <2>2. aebCount' <= generation - run'.first + 2 /\ aebCount' <= readTurn - run'.first + 3
    BY <1>2, <1>3, <2>1
  <2> QED
    BY <1>1, <1>2, <1>3, <2>2 DEF RunInv, ConfirmationsSpanScans
<1> QED
    BY <1>5, <1>6

\* The steps outside plan.
OutsidePlan ==
    Tick \/ TfArrives \/ ScanCallback \/ SensorStep
        \/ \E input \in {"path", "grid", "info"} : InputArrives(input)

\* They leave its variables alone, and generations only grow.
LEMMA OutsidePlanKeeps ==
    ASSUME PipelineInv, OutsidePlan
    PROVE  UNCHANGED planVars /\ generation <= generation'
<1>1. UNCHANGED planVars
    BY DEF OutsidePlan, Tick, TfArrives, ScanCallback, SensorStep, SelectScan, LookupFails,
           LookupSucceeds, InputsMissing, StoreClusters, BumpGeneration, InputArrives
<1>2. generation' = generation \/ generation' = generation + 1
    BY DEF OutsidePlan, Tick, TfArrives, ScanCallback, SensorStep, SelectScan, LookupFails,
           LookupSucceeds, InputsMissing, StoreClusters, BumpGeneration, InputArrives,
           sensorVars
<1>3. generation \in Int
    BY RunTypes DEF PipelineInv
<1> QED
    BY <1>1, <1>2, <1>3

\* Every step is one of plan, one outside of it, or none.
LEMMA StepKinds ==
    ASSUME [Next]_vars
    PROVE  PlanStep \/ OutsidePlan \/ UNCHANGED vars
    BY DEF Next, OutsidePlan

LEMMA RunStep == PipelineInv /\ PipelineInv' /\ RunInv /\ [Next]_vars => RunInv'
<1> SUFFICES ASSUME PipelineInv, PipelineInv', RunInv, [Next]_vars PROVE RunInv'
    OBVIOUS
<1>1. CASE PlanStep
    BY <1>1, QuietPlanKeepsRun, CountReadingKeepsRun DEF PlanStep
<1>2. CASE OutsidePlan
    BY <1>2, OutsidePlanKeeps, SensorKeepsRun
<1>3. CASE UNCHANGED vars
    BY <1>3 DEF vars, planVars, sensorVars, RunInv, Ceiling, ConfirmationsSpanScans
<1> QED
    BY <1>1, <1>2, <1>3, StepKinds

SafeInv == PipelineInv /\ RunInv

LEMMA SafeInvariant == Spec => []SafeInv
<1>1. Init => SafeInv
    BY InitPipeline, RunInitHolds DEF SafeInv
<1>2. SafeInv /\ [Next]_vars => SafeInv'
    BY NextPipeline, RunStep DEF SafeInv
<1> QED
    BY <1>1, <1>2, PTL DEF Spec

\* However plan and process_scan interleave, n confirmations in a row span at
\* least n - 2 evaluated scans, for any number of scans and any Confirm.
THEOREM ConfirmationsSpan == Spec => []ConfirmationsSpanScans
<1>1. SafeInv => ConfirmationsSpanScans
    BY DEF SafeInv, RunInv
<1> QED
    BY <1>1, SafeInvariant, PTL

-----------------------------------------------------------------------------
(* The refinement, step by step. *)

\* What SafeDrive sees of a step that tells it nothing.
LEMMA NothingSeen ==
    ASSUME UNCHANGED <<scanAge, inputs, clusters, aebCount, run, stop>>,
           (planPc = "idle") <=> (planPc' = "idle")
    PROVE  [Decisions!Next]_Decisions!vars
    BY DEF Decisions!vars, InputsReady

\* The clock, a looked-up transform and a first path or map change at most the
\* sight of the scans.
LEMMA SightSteps ==
    ASSUME UNCHANGED <<clusters, planVars>>
    PROVE  [Decisions!Next]_Decisions!vars
<1>1. Decisions!SightChanges \/ UNCHANGED Decisions!vars
    BY DEF Decisions!SightChanges, Decisions!vars, planVars
<1> QED
    BY <1>1 DEF Decisions!Next

\* process_scan tells of a scan when it stores the clusters.
LEMMA StoreClustersEvaluates ==
    ASSUME TypeOK, StoreClusters
    PROVE  Decisions!Evaluate
    BY DEF TypeOK, StoreClusters, Decisions!Evaluate, planVars, InputsReady

LEMMA OutsideSteps ==
    ASSUME TypeOK, OutsidePlan
    PROVE  [Decisions!Next]_Decisions!vars
<1>1. CASE StoreClusters
    BY <1>1, StoreClustersEvaluates DEF Decisions!Next
<1>2. CASE ~StoreClusters
  <2>1. UNCHANGED <<clusters, planVars>>
    BY <1>2 DEF OutsidePlan, Tick, TfArrives, ScanCallback, SensorStep, SelectScan,
           LookupFails, LookupSucceeds, InputsMissing, BumpGeneration, InputArrives,
           sensorVars
  <2> QED
    BY <2>1, SightSteps
<1> QED
    BY <1>1, <1>2

\* The guards of plan: a cycle begins on sight of a scan, or ends in a stop.
LEMMA GuardSteps ==
    ASSUME PlanStops \/ PlanStarts
    PROVE  Decisions!Next
<1>1. CASE PlanStops
  <2>1. Decisions!Refuse
    BY <1>1 DEF PlanStops, sensorVars, Decisions!Refuse, InputsReady
  <2> QED
    BY <2>1 DEF Decisions!Next
<1>2. CASE PlanStarts
  <2>1. Decisions!Begin
    BY <1>2 DEF PlanStarts, sensorVars, Decisions!Begin, InputsReady
  <2> QED
    BY <2>1 DEF Decisions!Next
<1> QED
    BY <1>1, <1>2

\* The reads of plan that SafeDrive does not tell apart from the count.
LEMMA ReadSteps ==
    ASSUME ReadClusters \/ SkipReading \/ CommitGeneration
    PROVE  [Decisions!Next]_Decisions!vars
<1>1. /\ UNCHANGED <<scanAge, inputs, clusters, aebCount, run, stop>>
      /\ planPc # "idle" /\ planPc' # "idle"
    BY DEF ReadClusters, SkipReading, CommitGeneration, sensorVars
<1> QED
    BY <1>1, NothingSeen

\* The reading that is counted is of a scan between the last one counted and
\* the last one evaluated.
LEMMA CountReadingCounts ==
    ASSUME SafeInv, SafeInv', CountReading
    PROVE  Decisions!Next
<1> USE DEF SafeInv, PipelineInv
<1>1. /\ UNCHANGED <<scanAge, inputs, clusters, stop, rawStop, readTurn>>
      /\ planPc = "count" /\ planPc' = "commit"
      /\ aebCount' = IF rawStop THEN aebCount + 1 ELSE 0
      /\ run'.first = IF rawStop /\ aebCount > 0 THEN run.first ELSE readTurn
      /\ run'.last = readTurn
    BY DEF CountReading, Record, sensorVars
<1>2. readTurn \in run.last .. clusters.turn
    BY RunTypes DEF CountInv, RunInv
<1>3. CASE rawStop
  <2>1. readTurn > 0 /\ aebCount' <= run'.last - run'.first + 3
    BY <1>3 DEF RunInv, ConfirmationsSpanScans
  <2>2. Decisions!CountBlocked
    BY <1>1, <1>2, <1>3, <2>1 DEF Decisions!CountBlocked, InputsReady
  <2> QED
    BY <2>2 DEF Decisions!Next
<1>4. CASE ~rawStop
  <2>1. Decisions!CountClear
    BY <1>1, <1>2, <1>4 DEF Decisions!CountClear, InputsReady
  <2> QED
    BY <2>1 DEF Decisions!Next
<1> QED
    BY <1>3, <1>4

LEMMA PublishStopDecides ==
    ASSUME PublishStop
    PROVE  Decisions!Next
<1>1. PICK feasible \in BOOLEAN : stop' = (aebCount >= Confirm \/ ~feasible)
    BY DEF PublishStop
<1>2. stop' \in BOOLEAN /\ (aebCount >= Confirm => stop')
    BY <1>1
<1>3. Decisions!Decide
    BY <1>2 DEF PublishStop, sensorVars, Decisions!Decide, InputsReady
<1> QED
    BY <1>3 DEF Decisions!Next

LEMMA DecisionStep == SafeInv /\ SafeInv' /\ [Next]_vars => [Decisions!Next]_Decisions!vars
<1> SUFFICES ASSUME SafeInv, SafeInv', [Next]_vars PROVE [Decisions!Next]_Decisions!vars
    OBVIOUS
<1>1. CASE PlanStep
    BY <1>1, GuardSteps, ReadSteps, CountReadingCounts, PublishStopDecides DEF PlanStep
<1>2. CASE OutsidePlan
    BY <1>2, OutsideSteps DEF SafeInv, PipelineInv
<1>3. CASE UNCHANGED vars
    BY <1>3, NothingSeen DEF vars, sensorVars, planVars
<1> QED
    BY <1>1, <1>2, <1>3, StepKinds

\* The safety part of ImplementsSafeDrive: for every deque length, delay,
\* timeout and confirmation, plan decides about the emergency stop as
\* SafeDrive does, although process_scan runs between its reads.
THEOREM StepsImplementSafeDrive ==
    Spec => Decisions!Init /\ [][Decisions!Next]_Decisions!vars
<1>1. Init => Decisions!Init
    BY DEF Init, Decisions!Init, InputsReady, Expired
<1> QED
    BY <1>1, DecisionStep, SafeInvariant, PTL DEF Spec

\* The safety part of ScanLossStops (plan, AEB_SCAN_TIMEOUT): an emergency
\* stop that is published while no plan is under way and no recent scan is
\* known is lifted by nothing but a new recent scan.
THEOREM StopLasts ==
    Spec => [][stop /\ planPc = "idle" /\ scanAge > ScanTimeout
                 => stop' /\ planPc' = "idle"]_vars
<1>1. ASSUME TypeOK, [Next]_vars, stop, planPc = "idle", scanAge > ScanTimeout
      PROVE  stop' /\ planPc' = "idle"
  <2>1. ScanTimeout \in Int /\ scanAge \in Int
    BY <1>1, PipelineAssumption DEF TypeOK, Expired
  <2>2. CASE PlanStep
    <3>1. ~PlanStarts
      <4>1. ~(scanAge <= ScanTimeout)
        BY <1>1, <2>1
      <4> QED
        BY <4>1, Zenon DEF PlanStarts
    <3>2. ~(ReadClusters \/ CountReading \/ SkipReading \/ CommitGeneration \/ PublishStop)
      BY <1>1 DEF ReadClusters, CountReading, SkipReading, CommitGeneration, PublishStop
    <3>3. CASE PlanStops
      BY <1>1, <3>3 DEF PlanStops
    <3> QED
      BY <2>2, <3>1, <3>2, <3>3 DEF PlanStep
  <2>3. CASE OutsidePlan \/ UNCHANGED vars
    BY <1>1, <2>3 DEF OutsidePlan, Tick, TfArrives, ScanCallback, SensorStep, SelectScan,
           LookupFails, LookupSucceeds, InputsMissing, StoreClusters, BumpGeneration,
           InputArrives, planVars, vars
  <2> QED
    BY <1>1, <2>2, <2>3, StepKinds
<1>2. TypeOK /\ [Next]_vars
        => [stop /\ planPc = "idle" /\ scanAge > ScanTimeout
              => stop' /\ planPc' = "idle"]_vars
    BY <1>1
<1>3. SafeInv => TypeOK
    BY DEF SafeInv, PipelineInv
<1> QED
    BY <1>2, <1>3, SafeInvariant, PTL DEF Spec
-----------------------------------------------------------------------------
(* Scans run out after the last one: why ScanLossStops holds.              *)

\* The scans that may still refresh last_scan_time.
Waiting == Len(pending) + (IF SensorBusy THEN 1 ELSE 0)

\* A scan that was there before, and was not older.
Waited(scan) ==
    \/ \E i \in 1 .. Len(pending) : pending[i].id = scan.id /\ pending[i].age <= scan.age
    \/ SensorBusy /\ inflight.id = scan.id /\ inflight.age <= scan.age

\* No scan comes into being or gets younger, one that is too old for a retry is
\* gone when its processing ends, and only a scan in flight counts as recent.
RunsOut ==
    /\ Waiting' <= Waiting
    /\ \A i \in 1 .. Len(pending') : Waited(pending'[i])
    /\ SensorBusy' => Waited(inflight')
    /\ SensorBusy /\ ~SensorBusy' /\ inflight.age >= RetryAge => Waiting' < Waiting
    /\ scanAge' < scanAge => SensorBusy

\* The ages compared are numbers, and the deque is a sequence of scans.
LEMMA WaitingTypes ==
    ASSUME TypeOK, QueueInv
    PROVE  /\ pending \in Seq(PendingScan) /\ Len(pending) \in Nat
           /\ \A i \in 1 .. Len(pending) : pending[i].age \in 0 .. AgeCap
           /\ SensorBusy => inflight \in PendingScan /\ inflight.age \in 0 .. AgeCap
           /\ held \in Nat /\ AgeCap \in Nat /\ RetryAge \in Nat /\ RetryAge <= AgeCap
           /\ scanAge \in 0 .. Expired /\ Expired \in Nat
<1>1. pending \in Seq(PendingScan) /\ Len(pending) \in Nat
    BY LenProperties DEF TypeOK
<1>2. \A i \in 1 .. Len(pending) : pending[i] \in PendingScan
    BY <1>1, ElementOfSeq
<1>3. SensorBusy => inflight \in PendingScan
    BY DEF QueueInv, FlightInv
<1>4. AgeCap \in Nat /\ RetryAge \in Nat /\ RetryAge <= AgeCap /\ Expired \in Nat
    BY PipelineAssumption DEF AgeCap, Expired
<1>5. held \in Nat /\ scanAge \in 0 .. Expired
    BY <1>4 DEF TypeOK
<1> QED
    BY <1>1, <1>2, <1>3, <1>4, <1>5 DEF PendingScan

\* The deque unchanged, scans in it have waited.
LEMMA QueueWaited ==
    ASSUME TypeOK, QueueInv, pending' = pending
    PROVE  \A i \in 1 .. Len(pending') : Waited(pending'[i])
    BY WaitingTypes DEF Waited

\* Putting the scan in flight back.
LEMMA ReturnRunsOut ==
    ASSUME TypeOK, QueueInv, SensorBusy, NEW processed \in BOOLEAN, Return(processed),
           scanAge' = scanAge
    PROVE  RunsOut
<1>1. ~SensorBusy'
    BY DEF Return, SensorBusy
<1>2. CASE ~processed /\ inflight.age < RetryAge
  <2> DEFINE back == [inflight EXCEPT !.age = Capped(@ + held, AgeCap)]
  <2>1. pending' = <<back>> \o pending
    BY <1>2 DEF Return
  <2>2. back \in PendingScan /\ back.id = inflight.id /\ inflight.age <= back.age
    <3>1. inflight \in [id : Ids, age : 0 .. AgeCap, corrected : BOOLEAN]
      BY WaitingTypes DEF PendingScan
    <3>2. Capped(inflight.age + held, AgeCap) \in inflight.age .. AgeCap
      BY WaitingTypes DEF Capped
    <3>3. /\ back = [inflight EXCEPT !.age = Capped(inflight.age + held, AgeCap)]
          /\ inflight.age \in 0 .. AgeCap
      BY WaitingTypes
    <3> HIDE DEF back
    <3>4. back.id = inflight.id /\ back.age = Capped(inflight.age + held, AgeCap)
      BY <3>1, <3>3
    <3>5. back \in [id : Ids, age : 0 .. AgeCap, corrected : BOOLEAN]
      <4>1. Capped(inflight.age + held, AgeCap) \in 0 .. AgeCap
        BY <3>2, <3>3
      <4> QED
        BY <3>1, <3>3, <4>1
    <3> QED
      BY <3>2, <3>3, <3>4, <3>5, WaitingTypes DEF PendingScan
  <2> HIDE DEF back
  <2>3. /\ Len(pending') = Len(pending) + 1
        /\ pending'[1] = back
        /\ \A i \in 2 .. Len(pending) + 1 : pending'[i] = pending[i - 1]
    BY <2>1, <2>2, WaitingTypes, PutBack
  <2>4. ASSUME NEW i \in 1 .. Len(pending') PROVE Waited(pending'[i])
    <3>1. CASE i = 1
      BY <2>2, <2>3, <3>1 DEF Waited
    <3>2. CASE i # 1
      <4>1. i - 1 \in 1 .. Len(pending) /\ pending'[i] = pending[i - 1]
        BY <2>3, <2>4, <3>2, WaitingTypes
      <4> QED
        BY <4>1, WaitingTypes DEF Waited
    <3> QED
      BY <3>1, <3>2
  <2>5. Waiting' <= Waiting
    BY <1>1, <2>3, WaitingTypes DEF Waiting
  <2> QED
    BY <1>1, <1>2, <2>4, <2>5, WaitingTypes DEF RunsOut
<1>3. CASE ~(~processed /\ inflight.age < RetryAge)
  <2>1. pending' = pending
    BY <1>3 DEF Return
  <2>2. Waiting' < Waiting /\ Waiting' <= Waiting
    BY <1>1, <2>1, WaitingTypes DEF Waiting
  <2> QED
    BY <1>1, <2>1, <2>2, QueueWaited, WaitingTypes DEF RunsOut
<1> QED
    BY <1>2, <1>3

\* Selecting a scan discards the older ones.
LEMMA SelectRunsOut ==
    ASSUME TypeOK, QueueInv, SelectScan
    PROVE  RunsOut
<1>1. PICK k \in 1 .. Len(pending) : /\ inflight' = pending[k]
                                     /\ pending' = SubSeq(pending, k + 1, Len(pending))
    BY DEF SelectScan, Eligible
<1>2. ~SensorBusy /\ SensorBusy' /\ scanAge' = scanAge
    BY DEF SelectScan, SensorBusy
<1>3. /\ Len(pending') = Len(pending) - k
      /\ \A i \in 1 .. Len(pending) - k : pending'[i] = pending[k + i]
    BY <1>1, WaitingTypes, DropPrefix
<1>4. Waiting' <= Waiting
    BY <1>1, <1>2, <1>3, WaitingTypes DEF Waiting
<1>5. ASSUME NEW i \in 1 .. Len(pending') PROVE Waited(pending'[i])
  <2>1. i \in 1 .. Len(pending) - k
    BY <1>3, <1>5
  <2>2. k + i \in 1 .. Len(pending)
    BY <2>1, WaitingTypes
  <2>3. pending'[i] = pending[k + i]
    BY <1>3, <2>1
  <2>4. pending[k + i].age <= pending[k + i].age
    BY <2>2, WaitingTypes
  <2> QED
    BY <2>2, <2>3, <2>4, Zenon DEF Waited
<1>6. Waited(inflight')
    BY <1>1, WaitingTypes DEF Waited
<1> QED
    BY <1>2, <1>4, <1>5, <1>6, WaitingTypes DEF RunsOut

\* Time makes the waiting scans older.
LEMMA TickRunsOut ==
    ASSUME TypeOK, QueueInv, Tick
    PROVE  RunsOut
<1>1. pending' = [i \in 1 .. Len(pending) |->
                    [pending[i] EXCEPT !.age = Capped(@ + 1, AgeCap)]]
      /\ sensorPc' = sensorPc /\ inflight' = inflight
      /\ scanAge' = Capped(scanAge + 1, Expired)
    BY DEF Tick
<1>2. /\ Len(pending') = Len(pending)
      /\ \A i \in 1 .. Len(pending) :
            pending'[i] = [pending[i] EXCEPT !.age = Capped(pending[i].age + 1, AgeCap)]
    BY <1>1, WaitingTypes
<1>3. ASSUME NEW i \in 1 .. Len(pending')
      PROVE  pending[i].id = pending'[i].id /\ pending[i].age <= pending'[i].age
  <2>1. pending[i] \in PendingScan
    BY <1>2, <1>3, WaitingTypes, ElementOfSeq
  <2>2. pending'[i] = [pending[i] EXCEPT !.age = Capped(pending[i].age + 1, AgeCap)]
    BY <1>2, <1>3
  <2> QED
    BY <2>1, <2>2, WaitingTypes DEF PendingScan, Capped
<1>4. Waiting' = Waiting /\ SensorBusy' = SensorBusy /\ scanAge <= scanAge'
    BY <1>1, <1>2, WaitingTypes DEF Waiting, SensorBusy, Capped
<1>5. \A i \in 1 .. Len(pending') : Waited(pending'[i])
    BY <1>2, <1>3, Zenon DEF Waited
<1>6. SensorBusy' => Waited(inflight')
    BY <1>1, <1>4, WaitingTypes DEF Waited
<1>7. Waiting' <= Waiting /\ ~(scanAge' < scanAge) /\ ~(SensorBusy /\ ~SensorBusy')
  <2>1. Waiting \in Nat
    BY WaitingTypes DEF Waiting
  <2>2. scanAge' \in Int /\ scanAge \in Int
    BY <1>1, WaitingTypes DEF Capped
  <2> QED
    BY <1>4, <2>1, <2>2
<1> QED
    BY <1>5, <1>6, <1>7, Zenon DEF RunsOut

(* When the LiDAR is silent the scans that wait, are processed and retried  *)
(* run out: their number never grows, none of them gets younger, one older  *)
(* than RetryAge is not retried, and nothing else refreshes last_scan_time. *)
(* For any deque length and delays it is the descent behind ScanLossStops.  *)
THEOREM ScansRunOut == Spec => [][arrived' = arrived => RunsOut]_vars
<1>1. ASSUME TypeOK, QueueInv, Next, arrived' = arrived PROVE RunsOut
  <2>1. CASE Tick
    BY <1>1, <2>1, TickRunsOut
  <2>2. CASE SelectScan
    BY <1>1, <2>2, SelectRunsOut
  <2>3. CASE LookupFails \/ InputsMissing \/ BumpGeneration
    <3>1. SensorBusy /\ scanAge' = scanAge /\ \E processed \in BOOLEAN : Return(processed)
      BY <2>3 DEF LookupFails, InputsMissing, BumpGeneration, SensorBusy
    <3> QED
      BY <1>1, <3>1, ReturnRunsOut
  <2>4. CASE LookupSucceeds \/ StoreClusters
    <3>1. /\ pending' = pending /\ inflight' = inflight
          /\ SensorBusy /\ SensorBusy'
      BY <2>4 DEF LookupSucceeds, StoreClusters, SensorBusy
    <3> QED
      BY <1>1, <3>1, QueueWaited, WaitingTypes DEF RunsOut, Waiting, Waited
  <2>5. CASE UNCHANGED sensorVars
    <3>1. pending' = pending /\ inflight' = inflight /\ sensorPc' = sensorPc /\ scanAge' = scanAge
      BY <2>5 DEF sensorVars
    <3> QED
      BY <1>1, <3>1, QueueWaited, WaitingTypes DEF RunsOut, Waiting, Waited, SensorBusy
  <2>6. ~ScanCallback
    BY <1>1 DEF ScanCallback, TypeOK
  <2>7. TfArrives \/ PlanStep \/ (\E input \in {"path", "grid", "info"} : InputArrives(input))
          => UNCHANGED sensorVars
    BY DEF TfArrives, PlanStep, PlanStops, PlanStarts, ReadClusters, CountReading, SkipReading,
           CommitGeneration, PublishStop, InputArrives
  <2> QED
    BY <1>1, <2>1, <2>2, <2>3, <2>4, <2>5, <2>6, <2>7 DEF Next, SensorStep
<1>2. SafeInv /\ [Next]_vars => [arrived' = arrived => RunsOut]_vars
    BY <1>1 DEF SafeInv, PipelineInv
<1> QED
    BY <1>2, SafeInvariant, PTL DEF Spec
================================================================================
