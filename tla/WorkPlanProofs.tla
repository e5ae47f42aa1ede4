--------------------------- MODULE WorkPlanProofs ---------------------------
(***************************************************************************)
(* What holds of the repository and of the plans made from it, for any     *)
(* workers, algorithms, populations and bounds.                            *)
(***************************************************************************)
EXTENDS WorkPlan, FiniteSetTheorems, SequenceTheorems, TLAPS

-----------------------------------------------------------------------------
(***************************************************************************)
(* The repository.                                                         *)
(***************************************************************************)
Stats == [processedPopulation : Nat, workTime : Nat]

Info == [totalStats : Stats, statsByAlgorithm : [1..Algorithms -> Stats],
         lastWorkStartTime : Nat]

RepositoryTypes ==
    /\ workerRecords \in [DOMAIN workerRecords -> Info]
    /\ clock \in Nat /\ clock >= StartTime

OutstandingTypes == outstanding \in [Workers -> Nat] /\ broken \in BOOLEAN

\* Work is allocated to connected workers, and these have a record.
Recorded ==
    /\ allocated \subseteq connectedWorkers
    /\ connectedWorkers \subseteq DOMAIN workerRecords

\* While connections end only with their worker, a worker has results to send
\* for its allocation and no others.
InStep ==
    ~broken => \A w \in Workers : outstanding[w] = IF w \in allocated THEN 1 ELSE 0

\* No start lies in the future.
Started == \A w \in DOMAIN workerRecords : workerRecords[w].lastWorkStartTime <= clock

\* A worker was charged for time since the start, and what it works on began
\* after that: the running interval comes on top of all earlier ones.
Charged ==
    ~broken => \A w \in DOMAIN workerRecords :
        LET info == workerRecords[w] IN
        /\ info.totalStats.workTime + StartTime <= clock
        /\ w \in allocated =>
              info.totalStats.workTime + StartTime <= info.lastWorkStartTime

RepositoryInv ==
    RepositoryTypes /\ OutstandingTypes /\ Recorded /\ InStep /\ Started /\ Charged

LEMMA JoinKeeps ==
    ASSUME RepositoryInv, NEW w, worker_joined(w)
    PROVE  /\ RepositoryInv'
           /\ DOMAIN workerRecords \subseteq DOMAIN workerRecords'
  <1>1. /\ connectedWorkers' = connectedWorkers \cup {w}
        /\ allocated' = allocated /\ clock' = clock
        /\ outstanding' = outstanding /\ broken' = broken
        /\ workerRecords' = [v \in DOMAIN workerRecords \cup {w} |->
                              IF v \in DOMAIN workerRecords THEN workerRecords[v]
                                                            ELSE worker_info]
        /\ w \notin connectedWorkers
    BY DEF worker_joined, controller
  <1>2. worker_info \in Info /\ worker_info.lastWorkStartTime = 0
        /\ worker_info.totalStats.workTime = 0
    BY DEF worker_info, Info, Stats, work_stats, Epoch
  <1>3. /\ DOMAIN workerRecords' = DOMAIN workerRecords \cup {w}
        /\ \A v \in DOMAIN workerRecords : workerRecords'[v] = workerRecords[v]
        /\ w \notin DOMAIN workerRecords => workerRecords'[w] = worker_info
    BY <1>1
  <1>4. RepositoryTypes' /\ OutstandingTypes'
    BY <1>1, <1>2, <1>3 DEF RepositoryInv, RepositoryTypes, OutstandingTypes
  <1>5. Recorded' /\ InStep'
    BY <1>1, <1>3 DEF RepositoryInv, Recorded, InStep
  <1>6. Started' /\ Charged'
    BY <1>1, <1>2, <1>3 DEF Started, RepositoryInv, RepositoryTypes, Recorded, Charged, StartTime
  <1>. QED  BY <1>3, <1>4, <1>5, <1>6 DEF RepositoryInv

LEMMA LeaveKeeps ==
    ASSUME RepositoryInv, NEW w \in Workers, worker_left(w)
    PROVE  RepositoryInv' /\ workerRecords' = workerRecords
  <1>1. /\ connectedWorkers' = connectedWorkers \ {w}
        /\ allocated' = allocated \ {w}
        /\ clock' = clock /\ workerRecords' = workerRecords
    BY DEF worker_left
  <1>2. PICK n \in 0..outstanding[w] :
           /\ outstanding' = [outstanding EXCEPT ![w] = n]
           /\ broken' = (broken \/ n > 0)
    BY DEF worker_left, LoseResults
  <1>3. outstanding \in [Workers -> Nat] /\ n \in Nat
    BY <1>2 DEF RepositoryInv, OutstandingTypes
  <1>4. broken' \in BOOLEAN /\ (~broken' => ~broken)
    BY <1>2
  <1>5. ~broken' => n = 0
    <2>1. ~broken' => ~(n > 0)
      BY <1>2, Zenon
    <2>. QED  BY <2>1, <1>3
  <1>6. OutstandingTypes'
    BY <1>2, <1>3, <1>4 DEF OutstandingTypes
  <1>7. RepositoryTypes' /\ Recorded' /\ Started'
    BY <1>1 DEF RepositoryInv, RepositoryTypes, Recorded, Started
  <1>8. InStep'
    BY <1>1, <1>2, <1>3, <1>4, <1>5 DEF RepositoryInv, InStep
  <1>9. Charged'
    BY <1>1, <1>4 DEF RepositoryInv, Charged
  <1>. QED  BY <1>1, <1>6, <1>7, <1>8, <1>9 DEF RepositoryInv

LEMMA StartKeeps ==
    ASSUME RepositoryInv, NEW w \in Workers, worker_started_work(w)
    PROVE  RepositoryInv' /\ DOMAIN workerRecords' = DOMAIN workerRecords
  <1>1. /\ w \in connectedWorkers /\ w \notin allocated
        /\ allocated' = allocated \cup {w}
        /\ outstanding' = [outstanding EXCEPT ![w] = @ + 1] /\ broken' = broken
        /\ workerRecords' = [workerRecords EXCEPT ![w].lastWorkStartTime = clock]
        /\ connectedWorkers' = connectedWorkers /\ clock' = clock
    BY DEF worker_started_work
  <1>2. /\ w \in DOMAIN workerRecords /\ workerRecords[w] \in Info
    BY <1>1 DEF RepositoryInv, RepositoryTypes, Recorded
  <1>3. /\ DOMAIN workerRecords' = DOMAIN workerRecords
        /\ workerRecords'[w] = [workerRecords[w] EXCEPT !.lastWorkStartTime = clock]
        /\ \A v \in DOMAIN workerRecords \ {w} : workerRecords'[v] = workerRecords[v]
    BY <1>1, <1>2 DEF RepositoryInv, RepositoryTypes
  <1>4. /\ workerRecords'[w] \in Info
        /\ workerRecords'[w].lastWorkStartTime = clock
        /\ workerRecords'[w].totalStats = workerRecords[w].totalStats
    BY <1>2, <1>3 DEF Info, RepositoryInv, RepositoryTypes
  <1>5. RepositoryTypes'
    <2>1. workerRecords' = [v \in DOMAIN workerRecords |-> workerRecords'[v]]
      BY <1>1 DEF RepositoryInv, RepositoryTypes
    <2>. QED  BY <1>1, <1>3, <1>4, <2>1 DEF RepositoryInv, RepositoryTypes
  <1>6. Recorded' /\ OutstandingTypes' /\ InStep'
    BY <1>1, <1>3 DEF RepositoryInv, OutstandingTypes, Recorded, InStep
  <1>7. Started' /\ Charged'
    BY <1>1, <1>2, <1>3, <1>4
    DEF RepositoryInv, RepositoryTypes, Started, Charged, StartTime
  <1>. QED  BY <1>3, <1>5, <1>6, <1>7 DEF RepositoryInv

LEMMA FinishKeeps ==
    ASSUME RepositoryInv, NEW w \in Workers, NEW size \in WorkSizes,
           NEW a \in 1..Algorithms,
           worker_finished_work(w, size, a)
    PROVE  RepositoryInv' /\ DOMAIN workerRecords' = DOMAIN workerRecords
  <1> DEFINE time == clock - workerRecords[w].lastWorkStartTime
             total == Measured(workerRecords[w].totalStats, size, time)
             byAlgorithm == [workerRecords[w].statsByAlgorithm EXCEPT
                               ![a] = Measured(@, size, time)]
  <1>1. /\ w \in connectedWorkers /\ outstanding[w] > 0
        /\ allocated' = allocated \ {w}
        /\ outstanding' = [outstanding EXCEPT ![w] = @ - 1] /\ broken' = broken
        /\ workerRecords' = [workerRecords EXCEPT
              ![w].totalStats = Measured(@, size, time),
              ![w].statsByAlgorithm[a] = Measured(@, size, time)]
        /\ connectedWorkers' = connectedWorkers /\ clock' = clock
    BY DEF worker_finished_work
  <1>2. /\ w \in DOMAIN workerRecords /\ workerRecords[w] \in Info
    BY <1>1 DEF RepositoryInv, RepositoryTypes, Recorded
  <1>3. /\ workerRecords[w].totalStats \in Stats
        /\ workerRecords[w].statsByAlgorithm \in [1..Algorithms -> Stats]
        /\ workerRecords[w].lastWorkStartTime \in Nat
    BY <1>2 DEF Info
  <1>4. time \in Nat /\ size \in Nat
    BY <1>2, <1>3, WorkerInfoAssumption DEF RepositoryInv, RepositoryTypes, Started
  <1>5. \A s \in Stats : /\ Measured(s, size, time) \in Stats
                         /\ Measured(s, size, time).workTime = s.workTime + time
    BY <1>4 DEF Measured, Stats
  <1>6. total \in Stats /\ byAlgorithm \in [1..Algorithms -> Stats]
    BY <1>3, <1>5
  <1>7. /\ DOMAIN workerRecords' = DOMAIN workerRecords
        /\ workerRecords'[w] = [workerRecords[w] EXCEPT
              !.totalStats = Measured(@, size, time),
              !.statsByAlgorithm[a] = Measured(@, size, time)]
        /\ \A v \in DOMAIN workerRecords \ {w} : workerRecords'[v] = workerRecords[v]
    BY <1>1, <1>2 DEF RepositoryInv, RepositoryTypes
  <1>8. /\ workerRecords'[w].totalStats = total
        /\ workerRecords'[w].lastWorkStartTime = workerRecords[w].lastWorkStartTime
        /\ workerRecords'[w] = [totalStats |-> total, statsByAlgorithm |-> byAlgorithm,
              lastWorkStartTime |-> workerRecords[w].lastWorkStartTime]
    BY <1>2, <1>7 DEF Info
  <1>9. total.workTime = workerRecords[w].totalStats.workTime + time
    BY <1>3, <1>5
  <1> HIDE DEF total, byAlgorithm
  <1>10. workerRecords'[w] \in Info
    BY <1>3, <1>6, <1>8 DEF Info
  <1>11. RepositoryTypes'
    <2>1. workerRecords' = [v \in DOMAIN workerRecords |-> workerRecords'[v]]
      BY <1>1 DEF RepositoryInv, RepositoryTypes
    <2>. QED  BY <1>1, <1>7, <1>10, <2>1 DEF RepositoryInv, RepositoryTypes
  <1>12. Recorded' /\ Started'
    BY <1>1, <1>7, <1>8 DEF RepositoryInv, Recorded, Started
  <1>13. ASSUME ~broken  PROVE  w \in allocated /\ outstanding[w] = 1
    BY <1>1, <1>13 DEF RepositoryInv, InStep
  <1>14. OutstandingTypes' /\ InStep'
    BY <1>1, <1>13 DEF RepositoryInv, OutstandingTypes, InStep
  <1>15. ASSUME NEW v \in DOMAIN workerRecords, ~broken
         PROVE  /\ workerRecords'[v].totalStats.workTime + StartTime <= clock
                /\ v \in allocated' =>
                      workerRecords'[v].totalStats.workTime + StartTime
                        <= workerRecords'[v].lastWorkStartTime
    <2>1. CASE v = w
      <3>1. /\ workerRecords[w].lastWorkStartTime <= clock
            /\ workerRecords[w].totalStats.workTime + StartTime
                 <= workerRecords[w].lastWorkStartTime
            /\ workerRecords[w].totalStats.workTime \in Nat
            /\ clock \in Nat
        BY <1>1, <1>2, <1>3, <1>15, <1>13
        DEF RepositoryInv, RepositoryTypes, Started, Charged, Stats
      <3>. QED  BY <3>1, <2>1, <1>1, <1>3, <1>8, <1>9 DEF StartTime
    <2>2. CASE v # w
      BY <2>2, <1>1, <1>7, <1>15 DEF RepositoryInv, Charged
    <2>. QED  BY <2>1, <2>2
  <1>16. Charged'
    BY <1>1, <1>7, <1>15 DEF Charged
  <1>. QED  BY <1>7, <1>11, <1>12, <1>14, <1>16 DEF RepositoryInv

LEMMA TickKeeps ==
    ASSUME RepositoryInv, Tick
    PROVE  RepositoryInv' /\ workerRecords' = workerRecords
  <1>1. /\ clock' = clock + 1
        /\ UNCHANGED <<connectedWorkers, workerRecords, allocated, outstanding, broken>>
    BY DEF Tick, controller
  <1>2. RepositoryTypes' /\ OutstandingTypes' /\ Recorded' /\ InStep'
    BY <1>1 DEF RepositoryInv, RepositoryTypes, OutstandingTypes, Recorded, InStep, StartTime
  <1>3. ASSUME NEW w \in DOMAIN workerRecords
        PROVE  /\ workerRecords[w].lastWorkStartTime <= clock'
               /\ ~broken => workerRecords[w].totalStats.workTime + StartTime <= clock'
    <2>1. /\ workerRecords[w].lastWorkStartTime \in Nat
          /\ workerRecords[w].totalStats.workTime \in Nat /\ clock \in Nat
      BY DEF RepositoryInv, RepositoryTypes, Info, Stats
    <2>. QED  BY <1>1, <2>1 DEF RepositoryInv, Started, Charged, StartTime
  <1>4. Started' /\ Charged'
    BY <1>1, <1>3 DEF RepositoryInv, Started, Charged
  <1>. QED  BY <1>1, <1>2, <1>4 DEF RepositoryInv

-----------------------------------------------------------------------------
(***************************************************************************)
(* The plan.                                                               *)
(***************************************************************************)
\* Where the user's thread is: nothing is planned before the workers are
\* copied.
Phase ==
    /\ solver \in {"ready", "counted", "plan"}
    /\ \E S : workersPreprocessed \in Seq(S)
    /\ \E S : output \in Seq(S)
    /\ solver # "plan" =>
          workersPreprocessed = << >> /\ output = << >> /\ unassigned = {}

\* The workers the plan may still choose have records.
Choosable ==
    /\ unassigned \subseteq workers
    /\ unassigned \subseteq DOMAIN workerRecords

\* The first option prefers nobody.  The second takes every preferred worker out
\* of the set, and hands the choices on in their order.
Chosen ==
    IF EqualIslands
    THEN \A n \in 1..Len(output) : output[n].worker = NoWorker
    ELSE /\ \A n \in 1..Len(workersPreprocessed) :
               workersPreprocessed[n].worker \in workers \ unassigned
         /\ \A n, m \in 1..Len(workersPreprocessed) :
               workersPreprocessed[n].worker = workersPreprocessed[m].worker => n = m
         /\ Len(output) <= Len(workersPreprocessed)
         /\ \A n \in 1..Len(output) :
               output[n].worker = workersPreprocessed[n].worker

PlanInv == RepositoryInv /\ Phase /\ Choosable /\ (solver = "plan" => Chosen)

\* Appending to a sequence of whatever it holds.
LEMMA AppendFacts ==
    ASSUME NEW s, \E S : s \in Seq(S), NEW e
    PROVE  /\ \E S : Append(s, e) \in Seq(S)
           /\ Len(s) \in Nat
           /\ Len(Append(s, e)) = Len(s) + 1
           /\ \A n \in 1..Len(s) : Append(s, e)[n] = s[n]
           /\ Append(s, e)[Len(s) + 1] = e
  <1>1. PICK S : s \in Seq(S)
    OBVIOUS
  <1> DEFINE T == S \cup {e}
  <1>2. s \in Seq(T)
    BY <1>1
  <1>3. e \in T
    OBVIOUS
  <1> HIDE DEF T
  <1>4. /\ Append(s, e) \in Seq(T) /\ Len(Append(s, e)) = Len(s) + 1
        /\ \A n \in 1..Len(s) : Append(s, e)[n] = s[n]
        /\ Append(s, e)[Len(s) + 1] = e
    BY <1>2, <1>3, AppendProperties
  <1>5. Len(s) \in Nat
    BY <1>2
  <1>. QED  BY <1>4, <1>5

LEMMA RepositoryUntouched ==
    ASSUME RepositoryInv, UNCHANGED repository
    PROVE  RepositoryInv'
  <1>1. UNCHANGED <<connectedWorkers, workerRecords, allocated, outstanding, broken, clock>>
    BY DEF repository, controller
  <1>. QED  BY <1>1 DEF RepositoryInv, RepositoryTypes, OutstandingTypes, Recorded, InStep,
                        Started, Charged

\* The plan does not change while the repository does.
LEMMA PlanUntouched ==
    ASSUME PlanInv, RepositoryInv', UNCHANGED <<inputs, plan>>,
           DOMAIN workerRecords \subseteq DOMAIN workerRecords'
    PROVE  PlanInv'
  <1>1. UNCHANGED <<solver, allEqual, islandCount, workers, unassigned,
                    workersPreprocessed, output>>
    BY DEF inputs, plan, choices
  <1>2. EqualIslands' = EqualIslands
    BY <1>1 DEF EqualIslands
  <1>3. Phase' /\ Choosable'
    BY <1>1 DEF PlanInv, Phase, Choosable
  <1>4. solver' = "plan" => Chosen'
    BY <1>1, <1>2 DEF PlanInv, Chosen
  <1>. QED  BY <1>3, <1>4 DEF PlanInv

LEMMA WorkKeeps ==
    ASSUME PlanInv, Work
    PROVE  PlanInv'
  <1>1. RepositoryInv' /\ DOMAIN workerRecords \subseteq DOMAIN workerRecords'
    <2>0. RepositoryInv
      BY DEF PlanInv
    <2>1. ASSUME NEW w \in Workers, worker_started_work(w)
          PROVE  RepositoryInv' /\ DOMAIN workerRecords \subseteq DOMAIN workerRecords'
      BY <2>0, <2>1, StartKeeps
    <2>2. CASE Tick
      BY <2>0, <2>2, TickKeeps
    <2>. QED  BY <2>1, <2>2 DEF Work
  <1>. QED  BY <1>1, PlanUntouched DEF Work

LEMMA ServerThreadKeeps ==
    ASSUME PlanInv, ServerThread
    PROVE  PlanInv'
  <1>1. RepositoryInv' /\ DOMAIN workerRecords \subseteq DOMAIN workerRecords'
    <2>0. RepositoryInv
      BY DEF PlanInv
    <2>1. PICK w \in Workers :
             \/ worker_joined(w) \/ worker_left(w)
             \/ \E size \in WorkSizes, a \in 1..Algorithms : worker_finished_work(w, size, a)
      BY DEF ServerThread
    <2>2. CASE worker_joined(w) \/ worker_left(w)
      BY <2>0, <2>2, JoinKeeps, LeaveKeeps
    <2>3. CASE \E size \in WorkSizes, a \in 1..Algorithms : worker_finished_work(w, size, a)
      BY <2>0, <2>3, FinishKeeps
    <2>. QED  BY <2>1, <2>2, <2>3
  <1>. QED  BY <1>1, PlanUntouched DEF ServerThread

LEMMA EvolveKeeps ==
    ASSUME PlanInv, evolve
    PROVE  PlanInv'
  <1>1. /\ solver = "ready" /\ solver' = "counted"
        /\ UNCHANGED repository
        /\ UNCHANGED <<workers, unassigned, workersPreprocessed, output>>
    BY DEF evolve, plan, choices
  <1>2. RepositoryInv'
    BY <1>1, RepositoryUntouched DEF PlanInv
  <1>3. Phase' /\ Choosable'
    BY <1>1 DEF PlanInv, Phase, Choosable, repository
  <1>. QED  BY <1>1, <1>2, <1>3 DEF PlanInv

LEMMA CopyKeeps ==
    ASSUME PlanInv, CopyConnectedWorkers
    PROVE  PlanInv'
  <1>1. /\ solver = "counted" /\ solver' = "plan"
        /\ workers' = connectedWorkers /\ unassigned' = connectedWorkers
        /\ UNCHANGED repository
        /\ UNCHANGED <<workersPreprocessed, output>>
    BY DEF CopyConnectedWorkers
  <1>2. workersPreprocessed = << >> /\ output = << >>
    BY <1>1 DEF PlanInv, Phase
  <1>3. RepositoryInv'
    BY <1>1, RepositoryUntouched DEF PlanInv
  <1>4. Phase' /\ Choosable'
    BY <1>1 DEF PlanInv, RepositoryInv, Recorded, Phase, Choosable, repository
  <1>5. Chosen'
    BY <1>1, <1>2 DEF Chosen
  <1>. QED  BY <1>3, <1>4, <1>5 DEF PlanInv

LEMMA EqualIslandKeeps ==
    ASSUME PlanInv, PlanEqualIsland
    PROVE  PlanInv'
  <1> DEFINE e == [size |-> IslandSize(populationSize \div islandCount),
                   worker |-> NoWorker, algorithm |-> algorithmPtr]
  <1>1. /\ solver = "plan" /\ EqualIslands
        /\ output' = Append(output, e)
        /\ UNCHANGED repository
        /\ UNCHANGED <<solver, allEqual, islandCount, workers, unassigned,
                       workersPreprocessed>>
    BY DEF PlanEqualIsland, inputs
  <1>2. e.worker = NoWorker
    OBVIOUS
  <1> HIDE DEF e
  <1>3. RepositoryInv' /\ EqualIslands'
    BY <1>1, RepositoryUntouched DEF PlanInv, EqualIslands
  <1>4. \E S : output \in Seq(S)
    BY DEF PlanInv, Phase
  <1>5. /\ \E S : output' \in Seq(S)
        /\ Len(output) \in Nat /\ Len(output') = Len(output) + 1
        /\ \A n \in 1..Len(output) : output'[n] = output[n]
        /\ output'[Len(output) + 1] = e
    BY <1>1, <1>4, AppendFacts
  <1>6. Phase' /\ Choosable'
    BY <1>1, <1>5 DEF PlanInv, Phase, Choosable, repository
  <1>7. \A n \in 1..Len(output) : output[n].worker = NoWorker
    BY <1>1 DEF PlanInv, Chosen
  <1>8. \A n \in 1..Len(output') : output'[n].worker = NoWorker
    <2>1. \A n \in 1..Len(output') : n \in 1..Len(output) \/ n = Len(output) + 1
      BY <1>5
    <2>. QED  BY <2>1, <1>2, <1>5, <1>7
  <1>9. Chosen'
    BY <1>3, <1>8 DEF Chosen
  <1>. QED  BY <1>3, <1>6, <1>9 DEF PlanInv

LEMMA ChooseKeeps ==
    ASSUME PlanInv, ChooseWorker
    PROVE  PlanInv'
  <1> DEFINE pre == workersPreprocessed
  <1>1. /\ solver = "plan" /\ ~EqualIslands
        /\ Len(pre) < islandCount
        /\ UNCHANGED repository
        /\ UNCHANGED <<solver, allEqual, islandCount, workers, output>>
    BY DEF ChooseWorker, inputs
  <1>2. PICK t \in Best([w \in unassigned |-> totalAverage(w)]),
             a \in Best([w \in unassigned |-> algoAverage(w, algorithmPtr)]) :
          LET preferTotal == Less(Twice(algoAverage(a, algorithmPtr)),
                                  totalAverage(t))
              chosen == IF preferTotal THEN t ELSE a
              metric == IF preferTotal THEN totalAverage(t)
                                       ELSE algoAverage(a, algorithmPtr)
          IN /\ pre' = Append(pre, [worker |-> chosen, algorithm |-> algorithmPtr,
                                    metric |-> metric])
             /\ EraseChosen(chosen)
    BY DEF ChooseWorker
  <1>3. t \in unassigned /\ a \in unassigned
    BY <1>2 DEF Best
  <1>4. \E w \in unassigned : \E algorithm, metric :
          /\ pre' = Append(pre, [worker |-> w, algorithm |-> algorithm,
                                 metric |-> metric])
          /\ unassigned' = unassigned \ {w}
    <2>1. CASE Less(Twice(algoAverage(a, algorithmPtr)), totalAverage(t))
      BY <1>2, <1>3, <2>1 DEF EraseChosen
    <2>2. CASE ~Less(Twice(algoAverage(a, algorithmPtr)), totalAverage(t))
      BY <1>2, <1>3, <2>2 DEF EraseChosen
    <2>. QED  BY <2>1, <2>2
  <1>5. PICK w, e : /\ w \in unassigned /\ e.worker = w
                    /\ pre' = Append(pre, e)
                    /\ unassigned' = unassigned \ {w}
    BY <1>4
  <1>6. RepositoryInv' /\ ~EqualIslands'
    BY <1>1, RepositoryUntouched DEF PlanInv, EqualIslands
  <1>7. \E S : pre \in Seq(S)
    BY DEF PlanInv, Phase
  <1>8. /\ \E S : pre' \in Seq(S)
        /\ Len(pre) \in Nat /\ Len(pre') = Len(pre) + 1
        /\ \A n \in 1..Len(pre) : pre'[n] = pre[n]
        /\ pre'[Len(pre) + 1] = e
    <2>1. /\ \E S : Append(pre, e) \in Seq(S)
          /\ Len(pre) \in Nat /\ Len(Append(pre, e)) = Len(pre) + 1
          /\ \A n \in 1..Len(pre) : Append(pre, e)[n] = pre[n]
          /\ Append(pre, e)[Len(pre) + 1] = e
      BY <1>7, AppendFacts, Zenon
    <2>. QED  BY <1>5, <2>1, Zenon
  <1>9. Len(output) \in Nat
    BY DEF PlanInv, Phase
  <1>10. Phase' /\ Choosable'
    BY <1>1, <1>5, <1>8 DEF PlanInv, Phase, Choosable, repository
  <1>11. /\ \A n \in 1..Len(pre) : pre[n].worker \in workers \ unassigned
         /\ \A n, m \in 1..Len(pre) : pre[n].worker = pre[m].worker => n = m
         /\ Len(output) <= Len(pre)
         /\ \A n \in 1..Len(output) : output[n].worker = pre[n].worker
         /\ w \in workers
    BY <1>1, <1>5 DEF PlanInv, Chosen, Choosable
  <1>12. ASSUME NEW n \in 1..Len(pre')
         PROVE  \/ n \in 1..Len(pre) /\ pre'[n] = pre[n]
                \/ n = Len(pre) + 1 /\ pre'[n].worker = w
    BY <1>5, <1>8
  <1>13. \A n \in 1..Len(pre') : pre'[n].worker \in workers \ unassigned'
    BY <1>5, <1>11, <1>12
  <1>14. \A n, m \in 1..Len(pre') : pre'[n].worker = pre'[m].worker => n = m
    BY <1>5, <1>11, <1>12
  <1>15. /\ Len(output) <= Len(pre')
         /\ \A n \in 1..Len(output) : output[n].worker = pre'[n].worker
    BY <1>8, <1>9, <1>11
  <1>16. Chosen'
    BY <1>1, <1>6, <1>13, <1>14, <1>15 DEF Chosen
  <1>. QED  BY <1>6, <1>10, <1>16 DEF PlanInv

LEMMA AddKeeps ==
    ASSUME PlanInv, AddPerformance
    PROVE  PlanInv'
  <1>1. /\ UNCHANGED repository
        /\ UNCHANGED <<solver, allEqual, islandCount, workers, unassigned,
                       workersPreprocessed, output>>
    BY DEF AddPerformance, inputs, choices
  <1>2. RepositoryInv' /\ workerRecords' = workerRecords
    BY <1>1, RepositoryUntouched DEF PlanInv, repository
  <1>3. EqualIslands' = EqualIslands
    BY <1>1 DEF EqualIslands
  <1>4. Phase' /\ Choosable'
    BY <1>1, <1>2 DEF PlanInv, Phase, Choosable
  <1>5. solver' = "plan" => Chosen'
    BY <1>1, <1>3 DEF PlanInv, Chosen
  <1>. QED  BY <1>2, <1>4, <1>5 DEF PlanInv

LEMMA ShareKeeps ==
    ASSUME PlanInv, PlanShare
    PROVE  PlanInv'
  <1> DEFINE k == Len(output) + 1
  <1>1. /\ solver = "plan" /\ ~EqualIslands
        /\ Len(workersPreprocessed) = islandCount /\ Len(output) < islandCount
        /\ UNCHANGED repository
        /\ UNCHANGED <<solver, allEqual, islandCount, workers, unassigned,
                       workersPreprocessed>>
    BY DEF PlanShare, inputs, choices
  <1>2. \E size, algorithm :
          output' = Append(output, [size |-> size, worker |-> workersPreprocessed[k].worker,
                                    algorithm |-> algorithm])
    BY DEF PlanShare
  <1>3. PICK e : /\ e.worker = workersPreprocessed[k].worker
                 /\ output' = Append(output, e)
    BY <1>2
  <1>4. RepositoryInv' /\ ~EqualIslands'
    BY <1>1, RepositoryUntouched DEF PlanInv, EqualIslands
  <1>5. /\ \E S : output \in Seq(S)
        /\ Len(workersPreprocessed) \in Nat
    BY DEF PlanInv, Phase
  <1>6. /\ \E S : output' \in Seq(S)
        /\ Len(output) \in Nat /\ Len(output') = Len(output) + 1
        /\ \A n \in 1..Len(output) : output'[n] = output[n]
        /\ output'[Len(output) + 1] = e
    <2>1. /\ \E S : Append(output, e) \in Seq(S)
          /\ Len(output) \in Nat /\ Len(Append(output, e)) = Len(output) + 1
          /\ \A n \in 1..Len(output) : Append(output, e)[n] = output[n]
          /\ Append(output, e)[Len(output) + 1] = e
      BY <1>5, AppendFacts, Zenon
    <2>. QED  BY <1>3, <2>1, Zenon
  <1>7. Phase' /\ Choosable'
    BY <1>1, <1>6 DEF PlanInv, Phase, Choosable, repository
  <1>8. Chosen
    BY <1>1 DEF PlanInv
  <1>9. /\ Len(output') <= Len(workersPreprocessed)
        /\ \A n \in 1..Len(output') : n \in 1..Len(output) \/ n = k
    BY <1>1, <1>5, <1>6
  <1>10. \A n \in 1..Len(output') : output'[n].worker = workersPreprocessed[n].worker
    BY <1>1, <1>3, <1>6, <1>8, <1>9 DEF Chosen
  <1>11. Chosen'
    BY <1>1, <1>4, <1>8, <1>9, <1>10 DEF Chosen
  <1>. QED  BY <1>4, <1>7, <1>11 DEF PlanInv

LEMMA PlanInit == Init => PlanInv
  <1> SUFFICES ASSUME Init  PROVE  PlanInv
    OBVIOUS
  <1>1. /\ connectedWorkers = {} /\ workerRecords = << >> /\ allocated = {}
        /\ outstanding = [w \in Workers |-> 0] /\ broken = FALSE
        /\ clock = StartTime /\ solver = "ready" /\ workers = {} /\ unassigned = {}
        /\ workersPreprocessed = << >> /\ output = << >>
    BY DEF Init, RepositoryInit
  <1>2. RepositoryTypes
    <2>1. << >> \in [{} -> Info] /\ DOMAIN << >> = {}
      OBVIOUS
    <2>. QED  BY <1>1, <2>1 DEF RepositoryTypes, StartTime
  <1>3. OutstandingTypes /\ Recorded /\ InStep /\ Started /\ Charged
    <2>1. DOMAIN << >> = {}
      OBVIOUS
    <2>. QED  BY <1>1, <2>1 DEF OutstandingTypes, Recorded, InStep, Started, Charged
  <1>4. \E S : << >> \in Seq(S)
    <2>1. << >> \in Seq({})
      OBVIOUS
    <2>. QED  BY <2>1
  <1>5. Phase /\ Choosable
    BY <1>1, <1>4 DEF Phase, Choosable
  <1>. QED  BY <1>1, <1>2, <1>3, <1>5 DEF PlanInv, RepositoryInv

LEMMA PlanNext == PlanInv /\ [Next]_vars => PlanInv'
  <1> SUFFICES ASSUME PlanInv, [Next]_vars  PROVE  PlanInv'
    OBVIOUS
  <1>1. CASE UNCHANGED vars
    <2>1. UNCHANGED repository /\ UNCHANGED <<inputs, plan>>
      BY <1>1 DEF vars
    <2>2. RepositoryInv' /\ workerRecords' = workerRecords
      BY <2>1, RepositoryUntouched DEF PlanInv, repository
    <2>. QED  BY <2>1, <2>2, PlanUntouched
  <1>. QED
    BY <1>1, WorkKeeps, ServerThreadKeeps, EvolveKeeps, CopyKeeps, EqualIslandKeeps,
       ChooseKeeps, AddKeeps, ShareKeeps DEF Next

-----------------------------------------------------------------------------
(***************************************************************************)
(* The sizes of the islands.  What a double is in the code is a fraction   *)
(* here, and a floor of fractions keeps their order.                       *)
(***************************************************************************)
LEMMA ProductFacts ==
    ASSUME NEW a \in Nat, NEW b \in Nat
    PROVE  a * b \in Nat /\ (a > 0 /\ b > 0 => a * b > 0)
  OBVIOUS

LEMMA MulMono ==
    ASSUME NEW a \in Nat, NEW b \in Nat, NEW c \in Nat, a <= b
    PROVE  a * c <= b * c
  OBVIOUS

LEMMA MulStrict ==
    ASSUME NEW a \in Nat, NEW b \in Nat, NEW c \in Nat, a < b, c > 0
    PROVE  a * c < b * c
  OBVIOUS

LEMMA DivFacts ==
    ASSUME NEW x \in Nat, NEW p \in Nat, p > 0
    PROVE  /\ x \div p \in Nat
           /\ (x \div p) * p <= x
           /\ x < (x \div p + 1) * p
           /\ x % p = 0 => x = (x \div p) * p
  OBVIOUS

LEMMA Rearranged ==
    ASSUME NEW P \in Nat, NEW a \in Nat, NEW b \in Nat, NEW s \in Nat, NEW t \in Nat
    PROVE  (P * a * t) * (b * s) = (a * b) * (P * t * s)
  OBVIOUS

LEMMA Swapped ==
    ASSUME NEW a \in Nat, NEW b \in Nat, NEW c \in Nat
    PROVE  (a * b) * c = (a * c) * b
  OBVIOUS

LEMMA FloorMono ==
    ASSUME NEW x \in Nat, NEW y \in Nat, NEW p \in Nat, NEW q \in Nat, p > 0, q > 0,
           x * q < y * p
    PROVE  /\ x \div p <= y \div q
           /\ y % q = 0 => x \div p < y \div q
  <1> DEFINE k == x \div p
             l == y \div q
  <1>1. k \in Nat /\ k * p <= x /\ l \in Nat /\ y < (l + 1) * q
        /\ (y % q = 0 => y = l * q)
    BY DivFacts
  <1> HIDE DEF k, l
  <1>2. /\ (k * p) * q <= x * q
    BY <1>1, ProductFacts, MulMono
  <1>3. k <= l
    <2>1. SUFFICES ASSUME l + 1 <= k  PROVE FALSE
      BY <1>1
    <2>2. (l + 1) * p <= k * p
      BY <2>1, <1>1, MulMono
    <2>3. ((l + 1) * p) * q <= (k * p) * q
      BY <2>2, <1>1, ProductFacts, MulMono
    <2>4. y * p < ((l + 1) * q) * p
      BY <1>1, ProductFacts, MulStrict
    <2>5. ((l + 1) * q) * p = ((l + 1) * p) * q
      BY <1>1, Swapped
    <2>6. x * q \in Nat /\ y * p \in Nat /\ (k * p) * q \in Nat /\ ((l + 1) * p) * q \in Nat
      BY <1>1, ProductFacts
    <2>. QED  BY <1>2, <2>3, <2>4, <2>5, <2>6
  <1>4. ASSUME y % q = 0  PROVE  k < l
    <2>1. SUFFICES ASSUME l <= k  PROVE FALSE
      BY <1>1
    <2>2. l * p <= k * p
      BY <2>1, <1>1, MulMono
    <2>3. (l * p) * q <= (k * p) * q
      BY <2>2, <1>1, ProductFacts, MulMono
    <2>4. y * p = (l * p) * q
      BY <1>1, <1>4, Swapped
    <2>5. x * q \in Nat /\ y * p \in Nat /\ (k * p) * q \in Nat /\ (l * p) * q \in Nat
      BY <1>1, ProductFacts
    <2>. QED  BY <1>2, <2>3, <2>4, <2>5
  <1>. QED  BY <1>3, <1>4 DEF k, l

LEMMA CeilMono ==
    ASSUME NEW x \in Nat, NEW y \in Nat, x <= y
    PROVE  ceil_to_multiple(x, 4) <= ceil_to_multiple(y, 4)
  BY DEF ceil_to_multiple

Fraction == Nat \X (Nat \ {0})

LEMMA LessFloors ==
    ASSUME NEW P \in Nat, P > 0, NEW a \in Fraction, NEW b \in Fraction,
           NEW T \in Fraction, T[1] > 0, Less(a, b)
    PROVE  LET x == P * a[1] * T[2]
               p == a[2] * T[1]
               y == P * b[1] * T[2]
               q == b[2] * T[1]
           IN /\ x \in Nat /\ y \in Nat /\ p \in Nat /\ q \in Nat /\ p > 0 /\ q > 0
              /\ x * q < y * p
  <1> DEFINE c == P * T[2] * T[1]
  <1>1. /\ a[1] \in Nat /\ a[2] \in Nat /\ a[2] > 0
        /\ b[1] \in Nat /\ b[2] \in Nat /\ b[2] > 0
        /\ T[1] \in Nat /\ T[2] \in Nat /\ T[2] > 0
    BY DEF Fraction
  <1>2. /\ P * a[1] * T[2] \in Nat /\ P * b[1] * T[2] \in Nat
        /\ a[2] * T[1] \in Nat /\ a[2] * T[1] > 0
        /\ b[2] * T[1] \in Nat /\ b[2] * T[1] > 0
    BY <1>1, ProductFacts
  <1>3. c \in Nat /\ c > 0
    BY <1>1, ProductFacts
  <1>4. /\ (P * a[1] * T[2]) * (b[2] * T[1]) = (a[1] * b[2]) * c
        /\ (P * b[1] * T[2]) * (a[2] * T[1]) = (b[1] * a[2]) * c
    BY <1>1, Rearranged
  <1>5. a[1] * b[2] \in Nat /\ b[1] * a[2] \in Nat /\ a[1] * b[2] < b[1] * a[2]
    BY <1>1, ProductFacts DEF Less
  <1> HIDE DEF c
  <1>6. (a[1] * b[2]) * c < (b[1] * a[2]) * c
    BY <1>3, <1>5, MulStrict
  <1>. QED  BY <1>2, <1>4, <1>6

\* A worker with a smaller metric has no larger share, also where the share that
\* a double holds is one too small.
LEMMA SharesKeepOrder ==
    ASSUME populationSize \in Nat, totalPerformance \in Fraction,
           totalPerformance[1] > 0,
           NEW a \in Fraction, NEW b \in Fraction, Less(a, b),
           NEW s \in WorkerPopSizes(a), NEW r \in WorkerPopSizes(b)
    PROVE  s \in Nat /\ r \in Nat /\ s <= r
  <1> DEFINE x == populationSize * a[1] * totalPerformance[2]
             p == a[2] * totalPerformance[1]
             y == populationSize * b[1] * totalPerformance[2]
             q == b[2] * totalPerformance[1]
  <1>1. ExactShare(a) = <<x, p>> /\ ExactShare(b) = <<y, q>>
    BY DEF ExactShare
  <1>2. /\ s \in (IF x \div p > 0 /\ x % p = 0 THEN {x \div p - 1, x \div p} ELSE {x \div p})
        /\ r \in (IF y \div q > 0 /\ y % q = 0 THEN {y \div q - 1, y \div q} ELSE {y \div q})
    BY <1>1 DEF WorkerPopSizes
  <1>3. CASE populationSize > 0
    <2>1. /\ x \in Nat /\ y \in Nat /\ p \in Nat /\ q \in Nat /\ p > 0 /\ q > 0
          /\ x * q < y * p
      BY <1>3, LessFloors
    <2> HIDE DEF x, y, p, q
    <2>2. /\ x \div p \in Nat /\ y \div q \in Nat
          /\ x \div p <= y \div q
          /\ y % q = 0 => x \div p < y \div q
      BY <2>1, FloorMono, DivFacts
    <2>. QED  BY <1>2, <2>2
  <1>4. CASE populationSize = 0
    <2>1. x = 0 /\ y = 0 /\ p \in Nat /\ q \in Nat /\ p > 0 /\ q > 0
      BY <1>4, ProductFacts DEF Fraction
    <2> HIDE DEF x, y, p, q
    <2>2. x \div p = 0 /\ y \div q = 0
      BY <2>1
    <2>. QED  BY <1>2, <2>2
  <1>. QED  BY <1>3, <1>4

LEMMA IslandSizesKeepOrder ==
    ASSUME minIslandPopSize \in Nat, NEW s \in Nat, NEW r \in Nat, s <= r
    PROVE  IslandSize(s) <= IslandSize(r)
  <1>1. /\ larger(minIslandPopSize, s) \in Nat /\ larger(minIslandPopSize, r) \in Nat
        /\ larger(minIslandPopSize, s) <= larger(minIslandPopSize, r)
    BY DEF larger
  <1>. QED  BY <1>1, CeilMono DEF IslandSize

-----------------------------------------------------------------------------
\* The arguments of evolve() are numbers, and getAlgorithm() has an algorithm.
Arguments ==
    /\ populationSize \in Nat /\ minIslandPopSize \in Nat
    /\ algorithmPtr \in 1..Algorithms

Metrics ==
    \A n \in 1..Len(workersPreprocessed) : workersPreprocessed[n].metric \in Fraction

\* A total of zero is a sum of zeros.
Totalled ==
    /\ totalPerformance \in Fraction
    /\ summed \in Nat /\ summed <= Len(workersPreprocessed)
    /\ totalPerformance[1] = 0 =>
          \A n \in 1..summed : workersPreprocessed[n].metric[1] = 0

\* No size is computed before every worker is chosen and every metric is in the
\* total; from then on neither changes.
Shared ==
    /\ Len(output) > 0 =>
          summed = islandCount /\ Len(workersPreprocessed) = islandCount
    /\ \A n \in 1..Len(output) :
          \E share \in WorkerPopSizes(workersPreprocessed[n].metric) :
              output[n].size = IslandSize(share)

SizesInv ==
    Arguments /\ Metrics /\ Totalled /\ (solver = "plan" /\ ~EqualIslands => Shared)

LEMMA SizesUntouched ==
    ASSUME SizesInv, UNCHANGED <<inputs, plan>>
    PROVE  SizesInv'
  <1>1. /\ UNCHANGED <<solver, allEqual, islandCount, workers, populationSize,
                       minIslandPopSize>>
        /\ UNCHANGED <<algorithmPtr, workersPreprocessed, totalPerformance, summed,
                       output>>
    BY DEF inputs, plan, choices
  <1>2. EqualIslands' = EqualIslands
    BY <1>1 DEF EqualIslands
  <1>3. Arguments' /\ Metrics' /\ Totalled'
    BY <1>1 DEF SizesInv, Arguments, Metrics, Totalled
  <1>4. Shared' = Shared
    BY <1>1 DEF Shared, WorkerPopSizes, ExactShare, IslandSize
  <1>. QED  BY <1>1, <1>2, <1>3, <1>4 DEF SizesInv

LEMMA EvolveSizes ==
    ASSUME PlanInv, SizesInv, evolve
    PROVE  SizesInv'
  <1>1. /\ solver' = "counted"
        /\ populationSize' \in Populations /\ minIslandPopSize' \in MinPopSizes
        /\ UNCHANGED <<algorithmPtr, workersPreprocessed, totalPerformance, summed>>
    BY DEF evolve, plan, choices
  <1>2. Arguments' /\ Metrics' /\ Totalled'
    BY <1>1, WorkPlanAssumption DEF SizesInv, Arguments, Metrics, Totalled
  <1>. QED  BY <1>1, <1>2 DEF SizesInv

LEMMA CopySizes ==
    ASSUME PlanInv, SizesInv, CopyConnectedWorkers
    PROVE  SizesInv'
  <1>1. /\ solver = "counted"
        /\ UNCHANGED <<populationSize, minIslandPopSize, algorithmPtr,
                       workersPreprocessed, totalPerformance, summed, output>>
    BY DEF CopyConnectedWorkers
  <1>2. Arguments' /\ Metrics' /\ Totalled'
    BY <1>1 DEF SizesInv, Arguments, Metrics, Totalled
  <1>3. output' = << >>
    BY <1>1 DEF PlanInv, Phase
  <1>4. Shared'
    BY <1>3 DEF Shared
  <1>. QED  BY <1>2, <1>4 DEF SizesInv

LEMMA NextAlgorithmFacts ==
    ASSUME NEW a \in 1..Algorithms
    PROVE  NextAlgorithm(a) \in 1..Algorithms
  BY WorkerInfoAssumption DEF NextAlgorithm

LEMMA EqualIslandSizes ==
    ASSUME PlanInv, SizesInv, PlanEqualIsland
    PROVE  SizesInv'
  <1>1. /\ EqualIslands /\ algorithmPtr' = NextAlgorithm(algorithmPtr)
        /\ UNCHANGED <<allEqual, islandCount, workers, populationSize,
                       minIslandPopSize, workersPreprocessed, totalPerformance, summed>>
    BY DEF PlanEqualIsland, inputs
  <1>2. EqualIslands'
    BY <1>1 DEF EqualIslands
  <1>3. algorithmPtr' \in 1..Algorithms
    BY <1>1, NextAlgorithmFacts DEF SizesInv, Arguments
  <1>4. Arguments' /\ Metrics' /\ Totalled'
    BY <1>1, <1>3 DEF SizesInv, Arguments, Metrics, Totalled
  <1>. QED  BY <1>2, <1>4 DEF SizesInv

\* safe_divide() has no denominator of zero.
LEMMA AverageFacts ==
    ASSUME PlanInv, SizesInv, NEW w \in unassigned
    PROVE  totalAverage(w) \in Fraction /\ algoAverage(w, algorithmPtr) \in Fraction
  <1>1. workerRecords[w] \in Info
    BY DEF PlanInv, RepositoryInv, RepositoryTypes, Choosable
  <1>2. \A s \in Stats : Average(s) \in Fraction
    BY DEF Average, safe_divide, Stats, Fraction
  <1>3. /\ workerRecords[w].totalStats \in Stats
        /\ workerRecords[w].statsByAlgorithm[algorithmPtr] \in Stats
    BY <1>1 DEF Info, SizesInv, Arguments
  <1>. QED  BY <1>2, <1>3 DEF totalAverage, algoAverage, get_worker_info

LEMMA ChooseSizes ==
    ASSUME PlanInv, SizesInv, ChooseWorker
    PROVE  SizesInv'
  <1> DEFINE pre == workersPreprocessed
  <1>1. /\ solver = "plan" /\ ~EqualIslands
        /\ Len(pre) < islandCount
        /\ algorithmPtr' = NextAlgorithm(algorithmPtr)
        /\ UNCHANGED <<populationSize, minIslandPopSize, totalPerformance, summed, output>>
    BY DEF ChooseWorker, inputs
  <1>2. PICK t \in Best([w \in unassigned |-> totalAverage(w)]),
             a \in Best([w \in unassigned |-> algoAverage(w, algorithmPtr)]) :
          LET preferTotal == Less(Twice(algoAverage(a, algorithmPtr)),
                                  totalAverage(t))
              chosen == IF preferTotal THEN t ELSE a
              metric == IF preferTotal THEN totalAverage(t)
                                       ELSE algoAverage(a, algorithmPtr)
          IN pre' = Append(pre, [worker |-> chosen, algorithm |-> algorithmPtr,
                                 metric |-> metric])
    BY DEF ChooseWorker
  <1>3. totalAverage(t) \in Fraction /\ algoAverage(a, algorithmPtr) \in Fraction
    BY <1>2, AverageFacts DEF Best
  <1>4. \E chosen, metric :
          /\ metric \in Fraction
          /\ pre' = Append(pre, [worker |-> chosen, algorithm |-> algorithmPtr,
                                 metric |-> metric])
    <2>1. CASE Less(Twice(algoAverage(a, algorithmPtr)), totalAverage(t))
      BY <1>2, <1>3, <2>1
    <2>2. CASE ~Less(Twice(algoAverage(a, algorithmPtr)), totalAverage(t))
      BY <1>2, <1>3, <2>2
    <2>. QED  BY <2>1, <2>2
  <1>5. PICK e : e.metric \in Fraction /\ pre' = Append(pre, e)
    BY <1>4
  <1>6. \E S : pre \in Seq(S)
    BY DEF PlanInv, Phase
  <1>7. /\ Len(pre) \in Nat /\ Len(pre') = Len(pre) + 1
        /\ \A n \in 1..Len(pre) : pre'[n] = pre[n]
        /\ pre'[Len(pre) + 1] = e
    <2>1. /\ Len(pre) \in Nat /\ Len(Append(pre, e)) = Len(pre) + 1
          /\ \A n \in 1..Len(pre) : Append(pre, e)[n] = pre[n]
          /\ Append(pre, e)[Len(pre) + 1] = e
      BY <1>6, AppendFacts, Zenon
    <2>. QED  BY <1>5, <2>1, Zenon
  <1>8. Arguments'
    BY <1>1, NextAlgorithmFacts DEF SizesInv, Arguments
  <1>9. Metrics'
    <2>1. \A n \in 1..Len(pre') : n \in 1..Len(pre) \/ n = Len(pre) + 1
      BY <1>7
    <2>. QED  BY <2>1, <1>5, <1>7 DEF SizesInv, Metrics
  <1>10. Totalled'
    <2>1. summed \in Nat /\ summed <= Len(pre) /\ totalPerformance \in Fraction
      BY DEF SizesInv, Totalled
    <2>2. \A n \in 1..summed : pre'[n] = pre[n]
      BY <2>1, <1>7
    <2>. QED  BY <2>1, <2>2, <1>1, <1>7 DEF SizesInv, Totalled
  <1>11. Shared'
    <2>1. Shared
      BY <1>1 DEF SizesInv
    <2>2. Len(output) \in Nat /\ ~(Len(output) > 0)
      BY <2>1, <1>1, <1>7 DEF Shared, PlanInv, Phase
    <2>3. Len(output') = 0
      BY <2>2, <1>1
    <2>. QED  BY <2>3 DEF Shared
  <1>. QED  BY <1>8, <1>9, <1>10, <1>11 DEF SizesInv

\* The sum is zero only when both are.
LEMMA PlusFacts ==
    ASSUME NEW a \in Fraction, NEW b \in Fraction
    PROVE  /\ Plus(a, b) \in Fraction
           /\ Plus(a, b)[1] = 0 => a[1] = 0 /\ b[1] = 0
  <1>1. /\ a[1] \in Nat /\ a[2] \in Nat /\ a[2] > 0
        /\ b[1] \in Nat /\ b[2] \in Nat /\ b[2] > 0
    BY DEF Fraction
  <1>2. /\ a[1] * b[2] \in Nat /\ (a[1] > 0 => a[1] * b[2] > 0)
        /\ b[1] * a[2] \in Nat /\ (b[1] > 0 => b[1] * a[2] > 0)
        /\ a[2] * b[2] \in Nat /\ a[2] * b[2] > 0
    BY <1>1, ProductFacts
  <1>. QED  BY <1>1, <1>2 DEF Plus, Fraction

LEMMA AddSizes ==
    ASSUME PlanInv, SizesInv, AddPerformance
    PROVE  SizesInv'
  <1> DEFINE pre == workersPreprocessed
  <1>1. /\ solver = "plan" /\ ~EqualIslands
        /\ Len(pre) = islandCount /\ summed < islandCount /\ summed' = summed + 1
        /\ totalPerformance' = Plus(totalPerformance, pre[summed'].metric)
        /\ UNCHANGED <<populationSize, minIslandPopSize, algorithmPtr,
                       workersPreprocessed, output>>
    BY DEF AddPerformance, inputs, choices
  <1>2. /\ Len(pre) \in Nat /\ summed \in Nat /\ totalPerformance \in Fraction
        /\ Len(output) \in Nat
    BY DEF PlanInv, Phase, SizesInv, Totalled
  <1>3. pre[summed'].metric \in Fraction
    BY <1>1, <1>2 DEF SizesInv, Metrics
  <1>4. /\ totalPerformance' \in Fraction
        /\ totalPerformance'[1] = 0 =>
              totalPerformance[1] = 0 /\ pre[summed'].metric[1] = 0
    BY <1>1, <1>2, <1>3, PlusFacts
  <1>5. Arguments' /\ Metrics'
    BY <1>1 DEF SizesInv, Arguments, Metrics
  <1>6. Totalled'
    <2>1. \A n \in 1..summed' : n \in 1..summed \/ n = summed'
      BY <1>1, <1>2
    <2>2. ASSUME totalPerformance'[1] = 0, NEW n \in 1..summed'
          PROVE  pre[n].metric[1] = 0
      BY <2>1, <2>2, <1>4 DEF SizesInv, Totalled
    <2>. QED  BY <2>2, <1>1, <1>2, <1>4 DEF Totalled
  <1>7. Shared'
    <2>1. Shared
      BY <1>1 DEF SizesInv
    <2>2. Len(output') = 0
      BY <2>1, <1>1, <1>2 DEF Shared
    <2>. QED  BY <2>2 DEF Shared
  <1>. QED  BY <1>5, <1>6, <1>7 DEF SizesInv

LEMMA ShareSizes ==
    ASSUME PlanInv, SizesInv, PlanShare
    PROVE  SizesInv'
  <1> DEFINE pre == workersPreprocessed
             k == Len(output) + 1
  <1>1. /\ solver = "plan" /\ ~EqualIslands
        /\ Len(pre) = islandCount /\ summed = islandCount
        /\ UNCHANGED <<islandCount, populationSize, minIslandPopSize, algorithmPtr,
                       workersPreprocessed, totalPerformance, summed>>
    BY DEF PlanShare, inputs, choices
  <1>2. \E share \in WorkerPopSizes(pre[k].metric) : \E worker, algorithm :
          output' = Append(output, [size |-> IslandSize(share), worker |-> worker,
                                    algorithm |-> algorithm])
    BY DEF PlanShare
  <1>3. PICK share, e :
          /\ share \in WorkerPopSizes(pre[k].metric)
          /\ e.size = IslandSize(share) /\ output' = Append(output, e)
    BY <1>2
  <1>4. \E S : output \in Seq(S)
    BY DEF PlanInv, Phase
  <1>5. /\ Len(output) \in Nat /\ Len(output') = Len(output) + 1
        /\ \A n \in 1..Len(output) : output'[n] = output[n]
        /\ output'[Len(output) + 1] = e
    <2>1. /\ Len(output) \in Nat /\ Len(Append(output, e)) = Len(output) + 1
          /\ \A n \in 1..Len(output) : Append(output, e)[n] = output[n]
          /\ Append(output, e)[Len(output) + 1] = e
      BY <1>4, AppendFacts, Zenon
    <2>. QED  BY <1>3, <2>1, Zenon
  <1>6. Arguments' /\ Metrics' /\ Totalled'
    BY <1>1 DEF SizesInv, Arguments, Metrics, Totalled
  <1>7. ASSUME NEW n \in 1..Len(output')
        PROVE  \E s \in WorkerPopSizes(pre[n].metric) : output'[n].size = IslandSize(s)
    <2>1. CASE n = k
      BY <2>1, <1>3, <1>5
    <2>2. CASE n # k
      <3>1. n \in 1..Len(output)
        BY <2>2, <1>5
      <3>2. Shared
        BY <1>1 DEF SizesInv
      <3>. QED  BY <3>1, <3>2, <1>5 DEF Shared
    <2>. QED  BY <2>1, <2>2
  <1>8. \A s : IslandSize(s)' = IslandSize(s)
    BY <1>1 DEF IslandSize
  <1>9. \A n : WorkerPopSizes(pre[n].metric)' = WorkerPopSizes(pre[n].metric)
    BY <1>1 DEF WorkerPopSizes, ExactShare
  <1>10. Shared'
    BY <1>1, <1>7, <1>8, <1>9 DEF Shared
  <1>. QED  BY <1>6, <1>10 DEF SizesInv

LEMMA SizesInit == Init => SizesInv
  <1> SUFFICES ASSUME Init  PROVE  SizesInv
    OBVIOUS
  <1>1. /\ solver = "ready" /\ populationSize = 0 /\ minIslandPopSize = 0
        /\ algorithmPtr = 1 /\ workersPreprocessed = << >>
        /\ totalPerformance = <<0, 1>> /\ summed = 0
    BY DEF Init
  <1>. QED
    BY <1>1, WorkerInfoAssumption DEF SizesInv, Arguments, Metrics, Totalled, Fraction

LEMMA SizesNext == PlanInv /\ SizesInv /\ [Next]_vars => SizesInv'
  <1> SUFFICES ASSUME PlanInv, SizesInv, [Next]_vars  PROVE  SizesInv'
    OBVIOUS
  <1>1. CASE UNCHANGED vars \/ Work \/ ServerThread
    BY <1>1, SizesUntouched DEF vars, Work, ServerThread
  <1>. QED
    BY <1>1, EvolveSizes, CopySizes, EqualIslandSizes, ChooseSizes, AddSizes, ShareSizes
    DEF Next

-----------------------------------------------------------------------------
(***************************************************************************)
(* The sum of the sizes.  Every round of the plan's loops adds one island, *)
(* so that the sum is known from step to step, if there is one at all.     *)
(***************************************************************************)
AddsUp(f, islands) ==
    f = [n \in 0..Len(islands) |-> IF n = 0 THEN 0 ELSE f[n - 1] + islands[n].size]

HasSum(islands) == \E g : \A f : AddsUp(f, islands) <=> f = g

LEMMA TotalOfSum ==
    ASSUME NEW s, NEW f, AddsUp(f, s), HasSum(s)
    PROVE  TotalSize(s) = f[Len(s)]
  <1> DEFINE c == CHOOSE g : AddsUp(g, s)
  <1>1. AddsUp(c, s)
    OBVIOUS
  <1>2. TotalSize(s) = c[Len(s)]
    BY DEF TotalSize, AddsUp
  <1>3. c = f
    BY <1>1 DEF HasSum
  <1>. QED  BY <1>2, <1>3

LEMMA EmptySum ==
    HasSum(<< >>) /\ TotalSize(<< >>) = 0
  <1> DEFINE g == [n \in 0..0 |-> 0]
  <1>1. \A f : AddsUp(f, << >>) <=> f = g
    <2>1. Len(<< >>) = 0
      OBVIOUS
    <2>2. \A f : [n \in 0..0 |-> IF n = 0 THEN 0 ELSE f[n - 1] + << >>[n].size] = g
      OBVIOUS
    <2>. QED  BY <2>1, <2>2 DEF AddsUp
  <1>2. g[Len(<< >>)] = 0
    OBVIOUS
  <1> HIDE DEF g
  <1>3. HasSum(<< >>)
    BY <1>1 DEF HasSum
  <1>4. AddsUp(g, << >>)
    BY <1>1
  <1>. QED  BY <1>2, <1>3, <1>4, TotalOfSum

\* Two functions that add up the same islands and one more agree on it when they
\* agree on the others.
LEMMA SumAppend ==
    ASSUME NEW s, \E S : s \in Seq(S), NEW e, HasSum(s)
    PROVE  /\ HasSum(Append(s, e))
           /\ TotalSize(Append(s, e)) = TotalSize(s) + e.size
  <1> DEFINE t == Append(s, e)
             k == Len(s)
  <1>1. /\ k \in Nat /\ Len(t) = k + 1
        /\ \A n \in 1..k : t[n] = s[n]
        /\ t[k + 1] = e
    BY AppendFacts
  <1> HIDE DEF t, k
  <1>2. PICK g : \A f : AddsUp(f, s) <=> f = g
    BY DEF HasSum
  <1>3. g = [n \in 0..k |-> IF n = 0 THEN 0 ELSE g[n - 1] + s[n].size]
    BY <1>2 DEF AddsUp, k
  <1> DEFINE h == [n \in 0..(k + 1) |-> IF n = k + 1 THEN g[k] + e.size ELSE g[n]]
  <1>4. AddsUp(h, t)
    <2>1. ASSUME NEW n \in 0..(k + 1)
          PROVE  h[n] = IF n = 0 THEN 0 ELSE h[n - 1] + t[n].size
      <3>1. CASE n = 0
        BY <1>1, <1>3, <3>1
      <3>2. CASE n \in 1..k
        <4>1. n - 1 \in 0..k /\ n \in 0..k /\ n # k + 1 /\ n - 1 # k + 1
          BY <1>1, <3>2
        <4>2. h[n] = g[n] /\ h[n - 1] = g[n - 1]
          BY <1>1, <4>1
        <4>3. g[n] = g[n - 1] + s[n].size
          BY <1>3, <3>2, <4>1
        <4>. QED  BY <1>1, <3>2, <4>2, <4>3
      <3>3. CASE n = k + 1
        <4>1. n - 1 = k /\ k \in 0..(k + 1) /\ k # k + 1 /\ n # 0
          BY <1>1, <3>3
        <4>2. h[n] = g[k] + e.size /\ h[n - 1] = g[k]
          BY <3>3, <4>1
        <4>. QED  BY <1>1, <3>3, <4>1, <4>2
      <3>. QED  BY <1>1, <3>1, <3>2, <3>3
    <2>2. h = [n \in 0..(k + 1) |-> h[n]]
      OBVIOUS
    <2> HIDE DEF h
    <2>. QED  BY <1>1, <2>1, <2>2 DEF AddsUp
  <1>5. ASSUME NEW f, AddsUp(f, t)
        PROVE  f = h
    <2> DEFINE r == [n \in 0..k |-> f[n]]
    <2>1. f = [n \in 0..(k + 1) |-> IF n = 0 THEN 0 ELSE f[n - 1] + t[n].size]
      BY <1>1, <1>5 DEF AddsUp
    <2>2. r = [n \in 0..k |-> IF n = 0 THEN 0 ELSE r[n - 1] + s[n].size]
      <3>1. ASSUME NEW n \in 0..k
            PROVE  f[n] = IF n = 0 THEN 0 ELSE r[n - 1] + s[n].size
        <4>1. n \in 0..(k + 1) /\ (n # 0 => n - 1 \in 0..k /\ n \in 1..k)
          BY <1>1
        <4>. QED  BY <1>1, <2>1, <4>1
      <3>. QED  BY <3>1
    <2>3. r = g
      BY <1>2, <2>2 DEF AddsUp, k
    <2> HIDE DEF r
    <2>4. \A n \in 0..k : f[n] = g[n]
      BY <2>3 DEF r
    <2>5. f[k + 1] = f[k] + e.size
      <3>1. k + 1 \in 0..(k + 1) /\ k + 1 # 0 /\ (k + 1) - 1 = k
        BY <1>1
      <3>. QED  BY <1>1, <2>1, <3>1
    <2>6. k \in 0..k
      BY <1>1
    <2>7. \A n \in 0..(k + 1) : n = k + 1 \/ n \in 0..k
      BY <1>1
    <2>8. \A n \in 0..(k + 1) : f[n] = h[n]
      BY <2>4, <2>5, <2>6, <2>7
    <2>9. f = [n \in 0..(k + 1) |-> f[n]]
      BY <2>1
    <2>. QED  BY <2>8, <2>9
  <1>6. HasSum(t)
    BY <1>4, <1>5 DEF HasSum
  <1>7. h[k + 1] = g[k] + e.size
    BY <1>1
  <1> HIDE DEF h
  <1>8. TotalSize(t) = g[k] + e.size
    BY <1>1, <1>4, <1>6, <1>7, TotalOfSum
  <1>9. TotalSize(s) = g[k]
    BY <1>2, TotalOfSum DEF k
  <1>. QED  BY <1>6, <1>8, <1>9 DEF t

-----------------------------------------------------------------------------
(***************************************************************************)
(* What the sizes add up to, at every round of the loops that compute      *)
(* them: up to one individual per island, the part of the population that  *)
(* their metrics are of the sum of all metrics.                            *)
(***************************************************************************)
\* h holds the sum of the metrics after each round.
PartialSums(h) ==
    /\ h \in [0..summed -> Fraction]
    /\ h[0] = <<0, 1>>
    /\ \A n \in 1..summed : h[n] = Plus(h[n - 1], workersPreprocessed[n].metric)
    /\ h[summed] = totalPerformance

Placed == TotalSize(output) + Len(output)

CoveredEqually == Placed * islandCount >= populationSize * Len(output)

CoveredByMetrics ==
    \A h : PartialSums(h) =>
        Placed * (totalPerformance[1] * h[Len(output)][2])
          >= populationSize * (h[Len(output)][1] * totalPerformance[2])

Covered ==
    IF EqualIslands \/ totalPerformance[1] = 0 THEN CoveredEqually
                                               ELSE CoveredByMetrics

\* An evolution has islands; the set of workers is finite, so it has a size.
Counted ==
    /\ IsFiniteSet(connectedWorkers)
    /\ solver # "ready" => islandCount \in Nat \ {0}

CoverInv ==
    /\ Counted
    /\ HasSum(output) /\ TotalSize(output) \in Nat
    /\ \E h : PartialSums(h)
    /\ solver = "plan" => Covered

LEMMA ShareRounding ==
    ASSUME NEW x \in Nat, NEW p \in Nat, p > 0,
           NEW share \in IF x \div p > 0 /\ x % p = 0 THEN {x \div p - 1, x \div p}
                                                      ELSE {x \div p}
    PROVE  share \in Nat /\ (share + 1) * p >= x
  <1> DEFINE k == x \div p
  <1>1. /\ k \in Nat /\ x < (k + 1) * p
        /\ x % p = 0 => x = k * p
    BY DivFacts
  <1>2. share = k \/ (share = k - 1 /\ k > 0 /\ x % p = 0)
    OBVIOUS
  <1> HIDE DEF k
  <1>3. CASE share = k
    <2>1. (k + 1) * p \in Nat
      BY <1>1, ProductFacts
    <2>. QED  BY <1>1, <1>3, <2>1
  <1>4. CASE share = k - 1 /\ k > 0 /\ x % p = 0
    <2>1. share \in Nat /\ share + 1 = k
      BY <1>1, <1>4
    <2>. QED  BY <1>1, <1>4, <2>1
  <1>. QED  BY <1>2, <1>3, <1>4

LEMMA IslandSizeFacts ==
    ASSUME minIslandPopSize \in Nat, NEW share \in Nat
    PROVE  IslandSize(share) \in Nat /\ IslandSize(share) >= share
  <1>1. larger(minIslandPopSize, share) \in Nat /\ larger(minIslandPopSize, share) >= share
    BY DEF larger
  <1>2. \A n \in Nat : ceil_to_multiple(n, 4) \in Nat /\ ceil_to_multiple(n, 4) >= n
    BY DEF ceil_to_multiple
  <1>. QED  BY <1>1, <1>2 DEF IslandSize

\* One island more of an equal share c of the population P.
LEMMA OneMoreEqual ==
    ASSUME NEW S \in Nat, NEW n \in Nat, NEW c \in Nat, NEW P \in Nat,
           NEW size \in Nat, NEW share \in Nat, share <= size,
           S * c >= P * n, (share + 1) * c >= P
    PROVE  (S + size + 1) * c >= P * (n + 1)
  <1>1. (share + 1) * c <= (size + 1) * c
    BY MulMono
  <1>2. (S + size + 1) * c = S * c + (size + 1) * c
    OBVIOUS
  <1>3. P * (n + 1) = P * n + P
    OBVIOUS
  <1>4. /\ S * c \in Nat /\ (size + 1) * c \in Nat /\ (share + 1) * c \in Nat
        /\ P * n \in Nat
    BY ProductFacts
  <1>. QED  BY <1>1, <1>2, <1>3, <1>4

\* One island more of the metric a / b; h1 / h2 is the sum of those before it.
LEMMA OneMoreByMetric ==
    ASSUME NEW S \in Nat, NEW P \in Nat, NEW size \in Nat, NEW share \in Nat,
           share <= size,
           NEW T1 \in Nat, NEW T2 \in Nat, NEW h1 \in Nat, NEW h2 \in Nat,
           NEW a \in Nat, NEW b \in Nat,
           S * (T1 * h2) >= P * (h1 * T2),
           (share + 1) * (b * T1) >= P * a * T2
    PROVE  (S + size + 1) * (T1 * (h2 * b)) >= P * ((h1 * b + a * h2) * T2)
  <1>1. (S * (T1 * h2)) * b >= (P * (h1 * T2)) * b
    BY ProductFacts, MulMono
  <1>2. ((share + 1) * (b * T1)) * h2 >= (P * a * T2) * h2
    BY ProductFacts, MulMono
  <1>3. ((size + 1) * (b * T1)) * h2 >= ((share + 1) * (b * T1)) * h2
    <2>1. (size + 1) * (b * T1) >= (share + 1) * (b * T1)
      BY ProductFacts, MulMono
    <2>. QED  BY <2>1, ProductFacts, MulMono
  <1>4. (S + size + 1) * (T1 * (h2 * b))
          = (S * (T1 * h2)) * b + ((size + 1) * (b * T1)) * h2
    OBVIOUS
  <1>5. P * ((h1 * b + a * h2) * T2) = (P * (h1 * T2)) * b + (P * a * T2) * h2
    OBVIOUS
  <1>6. /\ (S * (T1 * h2)) * b \in Nat /\ (P * (h1 * T2)) * b \in Nat
        /\ ((share + 1) * (b * T1)) * h2 \in Nat /\ (P * a * T2) * h2 \in Nat
        /\ ((size + 1) * (b * T1)) * h2 \in Nat
    BY ProductFacts
  <1>. QED  BY <1>1, <1>2, <1>3, <1>4, <1>5, <1>6

LEMMA CancelRight ==
    ASSUME NEW a \in Nat, NEW b \in Nat, NEW c \in Nat, c > 0, a * c >= b * c
    PROVE  a >= b
  <1> SUFFICES ASSUME a < b  PROVE  FALSE
    OBVIOUS
  <1>1. a * c < b * c
    BY MulStrict
  <1>2. a * c \in Nat /\ b * c \in Nat
    BY ProductFacts
  <1>. QED  BY <1>1, <1>2

-----------------------------------------------------------------------------
\* Before the first island there is nothing to cover.
LEMMA NothingCovered ==
    ASSUME SizesInv', output' = << >>, islandCount' \in Nat
    PROVE  Covered'
  <1>1. Len(output') = 0 /\ Placed' = 0
    BY EmptySum DEF Placed
  <1>2. populationSize' \in Nat /\ totalPerformance' \in Fraction
    BY DEF SizesInv, Arguments, Totalled
  <1>3. CoveredEqually'
    <2>1. Placed' * islandCount' = 0 /\ populationSize' * Len(output') = 0
      <3>1. \A c \in Nat : 0 * c = 0 /\ c * 0 = 0
        OBVIOUS
      <3>. QED  BY <1>1, <1>2, <3>1, Zenon
    <2>. QED  BY <2>1 DEF CoveredEqually
  <1>4. CoveredByMetrics'
    <2> SUFFICES ASSUME NEW h, PartialSums(h)'
                 PROVE  Placed' * (totalPerformance'[1] * h[Len(output')][2])
                          >= populationSize' * (h[Len(output')][1] * totalPerformance'[2])
      BY DEF CoveredByMetrics
    <2>1. h[Len(output')] = <<0, 1>>
      BY <1>1 DEF PartialSums
    <2>2. totalPerformance'[1] \in Nat /\ totalPerformance'[2] \in Nat
      BY <1>2 DEF Fraction
    <2>. QED  BY <1>1, <1>2, <2>1, <2>2
  <1>. QED  BY <1>3, <1>4 DEF Covered

LEMMA CoverInit == Init => CoverInv
  <1> SUFFICES ASSUME Init  PROVE  CoverInv
    OBVIOUS
  <1>1. /\ connectedWorkers = {} /\ solver = "ready" /\ output = << >>
        /\ totalPerformance = <<0, 1>> /\ summed = 0
    BY DEF Init, RepositoryInit
  <1>2. PartialSums([n \in 0..0 |-> <<0, 1>>])
    <2>1. <<0, 1>> \in Fraction
      BY DEF Fraction
    <2>. QED  BY <1>1, <2>1 DEF PartialSums
  <1>3. IsFiniteSet(connectedWorkers)
    BY <1>1, FS_EmptySet
  <1>. QED  BY <1>1, <1>2, <1>3, EmptySum DEF CoverInv, Counted

LEMMA CountedStep ==
    ASSUME IsFiniteSet(connectedWorkers), [Next]_vars
    PROVE  IsFiniteSet(connectedWorkers')
  <1>1. CASE ServerThread
    <2>1. PICK w \in Workers :
             \/ worker_joined(w) \/ worker_left(w)
             \/ \E size \in WorkSizes, a \in 1..Algorithms : worker_finished_work(w, size, a)
      BY <1>1 DEF ServerThread
    <2>2. CASE worker_joined(w)
      BY <2>2, FS_AddElement DEF worker_joined
    <2>3. CASE worker_left(w)
      BY <2>3, FS_RemoveElement DEF worker_left
    <2>4. CASE \E size \in WorkSizes, a \in 1..Algorithms : worker_finished_work(w, size, a)
      BY <2>4 DEF worker_finished_work
    <2>. QED  BY <2>1, <2>2, <2>3, <2>4
  <1>2. CASE ~ServerThread
    <2>1. connectedWorkers' = connectedWorkers
      BY <1>2 DEF Next, vars, repository, Work, worker_started_work,
            Tick, evolve, CopyConnectedWorkers, PlanEqualIsland, ChooseWorker,
            AddPerformance, PlanShare
    <2>. QED  BY <2>1
  <1>. QED  BY <1>1, <1>2

LEMMA CoverUntouched ==
    ASSUME CoverInv, IsFiniteSet(connectedWorkers'), UNCHANGED <<inputs, plan>>
    PROVE  CoverInv'
  <1>1. /\ UNCHANGED <<solver, allEqual, islandCount, workers, populationSize>>
        /\ UNCHANGED <<workersPreprocessed, totalPerformance, summed, output>>
    BY DEF inputs, plan, choices
  <1>2. EqualIslands' = EqualIslands
    BY <1>1 DEF EqualIslands
  <1>3. \A h : PartialSums(h)' = PartialSums(h)
    BY <1>1 DEF PartialSums
  <1>4. Placed' = Placed
    BY <1>1 DEF Placed
  <1>5. CoveredEqually' = CoveredEqually
    BY <1>1, <1>4 DEF CoveredEqually
  <1>6. CoveredByMetrics' = CoveredByMetrics
    BY <1>1, <1>3, <1>4 DEF CoveredByMetrics
  <1>7. Covered' = Covered
    BY <1>1, <1>2, <1>5, <1>6 DEF Covered
  <1>. QED  BY <1>1, <1>3, <1>7 DEF CoverInv, Counted

LEMMA EvolveCovers ==
    ASSUME CoverInv, IsFiniteSet(connectedWorkers'), evolve
    PROVE  CoverInv'
  <1>1. /\ solver' = "counted"
        /\ islandCount' = larger(Cardinality(connectedWorkers), ExpectedWorkerCount)
        /\ UNCHANGED <<workersPreprocessed, totalPerformance, summed, output>>
    BY DEF evolve, plan, choices
  <1>2. Cardinality(connectedWorkers) \in Nat
    BY FS_CardinalityType DEF CoverInv, Counted
  <1>3. islandCount' \in Nat \ {0}
    BY <1>1, <1>2, WorkPlanAssumption DEF larger
  <1>4. \A h : PartialSums(h)' = PartialSums(h)
    BY <1>1 DEF PartialSums
  <1>. QED  BY <1>1, <1>3, <1>4 DEF CoverInv, Counted

LEMMA CopyCovers ==
    ASSUME PlanInv, SizesInv', CoverInv, IsFiniteSet(connectedWorkers'),
           CopyConnectedWorkers
    PROVE  CoverInv'
  <1>1. /\ solver = "counted"
        /\ UNCHANGED <<islandCount, workersPreprocessed, totalPerformance, summed, output>>
    BY DEF CopyConnectedWorkers
  <1>2. output' = << >>
    BY <1>1 DEF PlanInv, Phase
  <1>3. islandCount' \in Nat \ {0}
    BY <1>1 DEF CoverInv, Counted
  <1>4. Covered'
    BY <1>2, <1>3, NothingCovered
  <1>5. \A h : PartialSums(h)' = PartialSums(h)
    BY <1>1 DEF PartialSums
  <1>. QED  BY <1>1, <1>3, <1>4, <1>5 DEF CoverInv, Counted

LEMMA EqualIslandCovers ==
    ASSUME PlanInv, SizesInv, CoverInv, IsFiniteSet(connectedWorkers'), PlanEqualIsland
    PROVE  CoverInv'
  <1> DEFINE share == populationSize \div islandCount
  <1>1. /\ solver = "plan" /\ EqualIslands
        /\ UNCHANGED <<solver, allEqual, islandCount, workers, populationSize>>
        /\ UNCHANGED <<workersPreprocessed, totalPerformance, summed>>
    BY DEF PlanEqualIsland, inputs
  <1>2. PICK e : e.size = IslandSize(share) /\ output' = Append(output, e)
    BY DEF PlanEqualIsland
  <1>3. islandCount \in Nat /\ islandCount > 0 /\ populationSize \in Nat
        /\ minIslandPopSize \in Nat
    BY <1>1 DEF CoverInv, Counted, SizesInv, Arguments
  <1>4. share \in Nat /\ (share + 1) * islandCount >= populationSize
    BY <1>3, ShareRounding
  <1> HIDE DEF share
  <1>5. e.size \in Nat /\ e.size >= share
    BY <1>2, <1>3, <1>4, IslandSizeFacts
  <1>6. \E S : output \in Seq(S)
    BY DEF PlanInv, Phase
  <1>7. /\ HasSum(output') /\ TotalSize(output') = TotalSize(output) + e.size
        /\ Len(output) \in Nat /\ Len(output') = Len(output) + 1
    <2>1. HasSum(output)
      BY DEF CoverInv
    <2>2. /\ HasSum(Append(output, e))
          /\ TotalSize(Append(output, e)) = TotalSize(output) + e.size
      BY <1>6, <2>1, SumAppend, Zenon
    <2>3. Len(output) \in Nat /\ Len(Append(output, e)) = Len(output) + 1
      BY <1>6, AppendFacts, Zenon
    <2>. QED  BY <1>2, <2>2, <2>3, Zenon
  <1>8. /\ TotalSize(output) \in Nat /\ CoveredEqually
    BY <1>1 DEF CoverInv, Covered
  <1>9. TotalSize(output') \in Nat /\ Placed \in Nat /\ Placed' = Placed + e.size + 1
    BY <1>5, <1>7, <1>8 DEF Placed
  <1>10. CoveredEqually'
    <2>1. Placed * islandCount >= populationSize * Len(output)
      BY <1>8 DEF CoveredEqually
    <2>2. (Placed + e.size + 1) * islandCount >= populationSize * (Len(output) + 1)
      BY <2>1, <1>3, <1>4, <1>5, <1>7, <1>9, OneMoreEqual
    <2>. QED  BY <2>2, <1>1, <1>7, <1>9 DEF CoveredEqually
  <1>11. EqualIslands'
    BY <1>1 DEF EqualIslands
  <1>12. \A h : PartialSums(h)' = PartialSums(h)
    BY <1>1 DEF PartialSums
  <1>. QED  BY <1>1, <1>3, <1>7, <1>9, <1>10, <1>11, <1>12 DEF CoverInv, Counted, Covered

\* No size is computed before the last worker is chosen and the last metric added.
LEMMA NothingShared ==
    ASSUME PlanInv, SizesInv, solver = "plan", ~EqualIslands,
           Len(workersPreprocessed) < islandCount \/ summed < islandCount
    PROVE  output = << >>
  <1>1. PICK S : output \in Seq(S)
    BY DEF PlanInv, Phase
  <1>2. Len(workersPreprocessed) \in Nat /\ summed \in Nat
    BY DEF PlanInv, Phase, SizesInv, Totalled
  <1>3. ~(Len(output) > 0)
    BY <1>2 DEF SizesInv, Shared
  <1>4. Len(output) = 0
    BY <1>1, <1>3
  <1>. QED  BY <1>1, <1>4, EmptySeq

LEMMA ChooseCovers ==
    ASSUME PlanInv, SizesInv, SizesInv', CoverInv, IsFiniteSet(connectedWorkers'),
           ChooseWorker
    PROVE  CoverInv'
  <1> DEFINE pre == workersPreprocessed
  <1>1. /\ solver = "plan" /\ ~EqualIslands /\ Len(pre) < islandCount
        /\ UNCHANGED <<solver, islandCount, totalPerformance, summed, output>>
    BY DEF ChooseWorker, inputs
  <1>2. PICK e : pre' = Append(pre, e)
    BY DEF ChooseWorker
  <1>3. output' = << >>
    BY <1>1, NothingShared
  <1>4. islandCount' \in Nat \ {0}
    BY <1>1 DEF CoverInv, Counted
  <1>5. Covered'
    BY <1>3, <1>4, NothingCovered
  <1>6. \A n \in 1..summed : pre'[n] = pre[n]
    <2>1. \E S : pre \in Seq(S)
      BY DEF PlanInv, Phase
    <2>2. Len(pre) \in Nat /\ \A n \in 1..Len(pre) : Append(pre, e)[n] = pre[n]
      BY <2>1, AppendFacts, Zenon
    <2>3. \A n \in 1..Len(pre) : pre'[n] = pre[n]
      BY <1>2, <2>2, Zenon
    <2>4. summed \in Nat /\ summed <= Len(pre)
      BY DEF SizesInv, Totalled
    <2>. QED  BY <2>2, <2>3, <2>4
  <1>7. \A h : PartialSums(h) => PartialSums(h)'
    BY <1>1, <1>6 DEF PartialSums
  <1>. QED  BY <1>1, <1>4, <1>5, <1>7 DEF CoverInv, Counted

LEMMA AddCovers ==
    ASSUME PlanInv, SizesInv, SizesInv', CoverInv, IsFiniteSet(connectedWorkers'),
           AddPerformance
    PROVE  CoverInv'
  <1> DEFINE pre == workersPreprocessed
  <1>1. /\ solver = "plan" /\ ~EqualIslands
        /\ summed < islandCount /\ summed' = summed + 1
        /\ totalPerformance' = Plus(totalPerformance, pre[summed'].metric)
        /\ UNCHANGED <<solver, islandCount, workersPreprocessed, output>>
    BY DEF AddPerformance, inputs, choices
  <1>2. output' = << >>
    BY <1>1, NothingShared
  <1>3. islandCount' \in Nat \ {0}
    BY <1>1 DEF CoverInv, Counted
  <1>4. Covered'
    BY <1>2, <1>3, NothingCovered
  <1>5. summed \in Nat /\ totalPerformance' \in Fraction
    BY DEF SizesInv, Totalled
  <1>6. PICK h : PartialSums(h)
    BY DEF CoverInv
  <1>7. PICK g : /\ g \in [0..(summed + 1) -> Fraction]
                 /\ g[0] = <<0, 1>> /\ g[summed + 1] = totalPerformance'
                 /\ \A n \in 0..summed : g[n] = h[n]
    <2> DEFINE f == [n \in 0..(summed + 1) |-> IF n = summed + 1 THEN totalPerformance'
                                                               ELSE h[n]]
    <2>1. f \in [0..(summed + 1) -> Fraction]
      BY <1>5, <1>6 DEF PartialSums
    <2>2. f[0] = <<0, 1>> /\ f[summed + 1] = totalPerformance'
      BY <1>5, <1>6 DEF PartialSums
    <2>3. \A n \in 0..summed : f[n] = h[n]
      BY <1>5
    <2> HIDE DEF f
    <2>. QED  BY <2>1, <2>2, <2>3
  <1>8. PartialSums(g)'
    <2>1. ASSUME NEW n \in 1..(summed + 1)
          PROVE  g[n] = Plus(g[n - 1], pre[n].metric)
      <3>1. CASE n = summed + 1
        <4>1. n - 1 = summed /\ summed \in 0..summed
          BY <1>5, <3>1
        <4>2. g[n - 1] = totalPerformance
          BY <1>6, <1>7, <4>1 DEF PartialSums
        <4>. QED  BY <1>1, <1>7, <3>1, <4>2
      <3>2. CASE n # summed + 1
        <4>1. n \in 1..summed /\ n \in 0..summed /\ n - 1 \in 0..summed
          BY <1>5, <3>2
        <4>. QED  BY <1>6, <1>7, <4>1 DEF PartialSums
      <3>. QED  BY <3>1, <3>2
    <2>. QED  BY <1>1, <1>7, <2>1 DEF PartialSums
  <1>. QED  BY <1>1, <1>3, <1>4, <1>8 DEF CoverInv, Counted

LEMMA ShareCovers ==
    ASSUME PlanInv, SizesInv, CoverInv, IsFiniteSet(connectedWorkers'), PlanShare
    PROVE  CoverInv'
  <1> DEFINE pre == workersPreprocessed
             T == totalPerformance
             k == Len(output)
             metric == pre[k + 1].metric
  <1>1. /\ solver = "plan" /\ ~EqualIslands
        /\ Len(pre) = islandCount /\ summed = islandCount /\ k < islandCount
        /\ UNCHANGED <<solver, allEqual, islandCount, workers, populationSize>>
        /\ UNCHANGED <<workersPreprocessed, totalPerformance, summed>>
    BY DEF PlanShare, inputs, choices
  <1>2. \E share \in WorkerPopSizes(metric) : \E worker, algorithm :
          output' = Append(output, [size |-> IslandSize(share), worker |-> worker,
                                    algorithm |-> algorithm])
    BY DEF PlanShare
  <1>3. PICK share, e :
          /\ share \in WorkerPopSizes(metric)
          /\ e.size = IslandSize(share) /\ output' = Append(output, e)
    BY <1>2
  <1>4. /\ islandCount \in Nat /\ islandCount > 0 /\ populationSize \in Nat
        /\ minIslandPopSize \in Nat /\ T \in Fraction
    BY <1>1 DEF CoverInv, Counted, SizesInv, Arguments, Totalled
  <1>5. \E S : output \in Seq(S)
    BY DEF PlanInv, Phase
  <1>6. /\ HasSum(output') /\ TotalSize(output') = TotalSize(output) + e.size
        /\ k \in Nat /\ Len(output') = k + 1
    <2>1. HasSum(output)
      BY DEF CoverInv
    <2>2. /\ HasSum(Append(output, e))
          /\ TotalSize(Append(output, e)) = TotalSize(output) + e.size
      BY <1>5, <2>1, SumAppend, Zenon
    <2>3. k \in Nat /\ Len(Append(output, e)) = k + 1
      BY <1>5, AppendFacts, Zenon
    <2>. QED  BY <1>3, <2>2, <2>3, Zenon
  <1>7. metric \in Fraction
    BY <1>1, <1>4, <1>6 DEF SizesInv, Metrics
  <1>8. /\ T[1] \in Nat /\ T[2] \in Nat /\ metric[1] \in Nat
        /\ metric[2] \in Nat /\ metric[2] > 0
    BY <1>4, <1>7 DEF Fraction
  <1>9. /\ share \in Nat
        /\ T[1] = 0 => (share + 1) * islandCount >= populationSize
        /\ T[1] # 0 =>
             (share + 1) * (metric[2] * T[1]) >= populationSize * metric[1] * T[2]
    <2>1. CASE T[1] = 0
      <3>1. ExactShare(metric) = <<populationSize, islandCount>>
        BY <2>1 DEF ExactShare
      <3>2. share \in IF populationSize \div islandCount > 0
                         /\ populationSize % islandCount = 0
                      THEN {populationSize \div islandCount - 1,
                            populationSize \div islandCount}
                      ELSE {populationSize \div islandCount}
        BY <1>3, <3>1 DEF WorkerPopSizes
      <3>. QED  BY <1>4, <2>1, <3>2, ShareRounding
    <2>2. CASE T[1] # 0
      <3> DEFINE x == populationSize * metric[1] * T[2]
                 p == metric[2] * T[1]
      <3>1. T[1] > 0
        BY <1>8, <2>2
      <3>2. x \in Nat /\ p \in Nat /\ p > 0
        BY <1>4, <1>8, <3>1, ProductFacts
      <3>3. ExactShare(metric) = <<x, p>>
        BY <3>1 DEF ExactShare
      <3> HIDE DEF x, p
      <3>4. share \in IF x \div p > 0 /\ x % p = 0 THEN {x \div p - 1, x \div p}
                                                   ELSE {x \div p}
        BY <1>3, <3>3 DEF WorkerPopSizes
      <3>5. share \in Nat /\ (share + 1) * p >= x
        BY <3>2, <3>4, ShareRounding
      <3>. QED  BY <2>2, <3>5 DEF x, p
    <2>. QED  BY <2>1, <2>2
  <1>10. e.size \in Nat /\ e.size >= share
    BY <1>3, <1>4, <1>9, IslandSizeFacts
  <1>11. TotalSize(output') \in Nat /\ Placed \in Nat /\ Placed' = Placed + e.size + 1
    <2>1. TotalSize(output) \in Nat
      BY DEF CoverInv
    <2>. QED  BY <2>1, <1>6, <1>10 DEF Placed
  <1>12. EqualIslands' = EqualIslands
    BY <1>1 DEF EqualIslands
  <1>13. \A h : PartialSums(h)' = PartialSums(h)
    BY <1>1 DEF PartialSums
  <1>14. Covered'
    <2>1. CASE T[1] = 0
      <3>1. Placed * islandCount >= populationSize * k
        BY <1>1, <2>1 DEF CoverInv, Covered, CoveredEqually
      <3>2. (Placed + e.size + 1) * islandCount >= populationSize * (k + 1)
        BY <3>1, <2>1, <1>4, <1>6, <1>9, <1>10, <1>11, OneMoreEqual
      <3>3. CoveredEqually'
        BY <3>2, <1>1, <1>6, <1>11 DEF CoveredEqually
      <3>. QED  BY <3>3, <2>1, <1>1 DEF Covered
    <2>2. CASE T[1] # 0
      <3>1. CoveredByMetrics
        BY <1>1, <2>2 DEF CoverInv, Covered
      <3>2. ASSUME NEW h, PartialSums(h)
            PROVE  Placed' * (T[1] * h[k + 1][2]) >= populationSize * (h[k + 1][1] * T[2])
        <4>1. k \in 0..summed /\ k + 1 \in 1..summed /\ (k + 1) - 1 = k
          BY <1>1, <1>4, <1>6
        <4>2. h[k] \in Fraction /\ h[k + 1] = Plus(h[k], metric)
          BY <3>2, <4>1 DEF PartialSums
        <4>3. h[k][1] \in Nat /\ h[k][2] \in Nat
          BY <4>2 DEF Fraction
        <4>4. Placed * (T[1] * h[k][2]) >= populationSize * (h[k][1] * T[2])
          BY <3>1, <3>2 DEF CoveredByMetrics
        <4>5. (share + 1) * (metric[2] * T[1]) >= populationSize * metric[1] * T[2]
          BY <1>9, <2>2
        <4>6. (Placed + e.size + 1) * (T[1] * (h[k][2] * metric[2]))
                >= populationSize * ((h[k][1] * metric[2] + metric[1] * h[k][2]) * T[2])
          <5> HIDE DEF T, k, metric
          <5>. QED
            BY <1>4, <1>8, <1>9, <1>10, <1>11, <4>3, <4>4, <4>5, OneMoreByMetric
        <4>7. /\ h[k + 1][1] = h[k][1] * metric[2] + metric[1] * h[k][2]
              /\ h[k + 1][2] = h[k][2] * metric[2]
          BY <4>2 DEF Plus
        <4> HIDE DEF T, k, metric
        <4>. QED  BY <4>6, <4>7, <1>11
      <3>3. CoveredByMetrics'
        BY <3>2, <1>1, <1>6, <1>13 DEF CoveredByMetrics
      <3>. QED  BY <3>3, <2>2, <1>1, <1>12 DEF Covered
    <2>. QED  BY <2>1, <2>2
  <1>. QED  BY <1>1, <1>4, <1>6, <1>11, <1>13, <1>14 DEF CoverInv, Counted

LEMMA CoverNext ==
    PlanInv /\ SizesInv /\ SizesInv' /\ CoverInv /\ [Next]_vars => CoverInv'
  <1> SUFFICES ASSUME PlanInv, SizesInv, SizesInv', CoverInv, [Next]_vars
               PROVE  CoverInv'
    OBVIOUS
  <1>1. IsFiniteSet(connectedWorkers')
    BY CountedStep DEF CoverInv, Counted
  <1>2. CASE UNCHANGED vars \/ Work \/ ServerThread
    BY <1>1, <1>2, CoverUntouched DEF vars, Work, ServerThread
  <1>. QED
    BY <1>1, <1>2, EvolveCovers, CopyCovers, EqualIslandCovers, ChooseCovers, AddCovers,
       ShareCovers
    DEF Next

-----------------------------------------------------------------------------
\* The inductive invariant of the repository and the plan holds in every state.
THEOREM PlanHolds == Spec => []PlanInv
  BY PlanInit, PlanNext, PTL DEF Spec

\* No time is charged twice: worker_finished_work() adds up disjoint intervals
\* since the start, however often a worker ends with its work and comes back, until
\* a connection breaks under a worker that goes on.
THEOREM TimeIsReal == Spec => []MeasuredTimeIsReal
  <1>1. PlanInv => MeasuredTimeIsReal
    <2> SUFFICES ASSUME PlanInv, ~broken, NEW w \in DOMAIN workerRecords
                 PROVE  workerRecords[w].totalStats.workTime
                          + (IF w \in allocated
                             THEN clock - workerRecords[w].lastWorkStartTime ELSE 0)
                          <= clock - StartTime
      BY DEF MeasuredTimeIsReal, ChargedOnce
    <2>1. /\ workerRecords[w].lastWorkStartTime \in Nat
          /\ workerRecords[w].totalStats.workTime \in Nat /\ clock \in Nat
      BY DEF PlanInv, RepositoryInv, RepositoryTypes, Info, Stats
    <2>. QED  BY <2>1 DEF PlanInv, RepositoryInv, Charged, StartTime
  <1>. QED  BY <1>1, PlanHolds, PTL

\* _generate_work_plan() never uses the empty optional of an unknown worker,
\* although workers leave and join between its looks at the repository.
THEOREM PlannedWorkersStayRecorded == Spec => []PlannedWorkersAreRecorded
  <1>1. PlanInv => PlannedWorkersAreRecorded
    BY DEF PlanInv, Choosable, PlannedWorkersAreRecorded
  <1>. QED  BY <1>1, PlanHolds, PTL

\* A finished plan prefers nobody, or a different worker of the copied set for
\* every island.
THEOREM PreferencesDiffer == Spec => []PreferredWorkersDiffer
  <1>1. PlanInv => PreferredWorkersDiffer
    <2> SUFFICES ASSUME PlanInv, IsPlanned
                 PROVE  \/ \A n \in Plan : output[n].worker = NoWorker
                        \/ /\ \A n \in Plan : output[n].worker \in workers
                           /\ \A n, m \in Plan :
                                 n # m => output[n].worker # output[m].worker
      BY DEF PreferredWorkersDiffer
    <2>1. Chosen
      BY DEF PlanInv, IsPlanned
    <2>2. CASE EqualIslands
      BY <2>1, <2>2 DEF Chosen, Plan
    <2>3. CASE ~EqualIslands
      <3>1. Len(output) \in Nat /\ Len(workersPreprocessed) \in Nat
        BY DEF PlanInv, Phase
      <3>2. \A n \in Plan : /\ n \in 1..Len(workersPreprocessed)
                             /\ output[n].worker = workersPreprocessed[n].worker
        BY <2>1, <2>3, <3>1 DEF Chosen, Plan
      <3>. QED  BY <2>1, <2>3, <3>2 DEF Chosen
    <2>. QED  BY <2>2, <2>3
  <1>. QED  BY <1>1, PlanHolds, PTL

\* Sizes are computed from one total, after all choices.
THEOREM SizesHold == Spec => []SizesInv
  BY PlanHolds, SizesInit, SizesNext, PTL DEF Spec

\* A worker that was faster at what it was chosen for never gets the smaller
\* island, for any statistics, population and minimal size, and with a cast that
\* may lose one individual.
THEOREM FasterWorkersAreGivenMore == Spec => []FasterWorkersGetMore
  <1>1. PlanInv /\ SizesInv => FasterWorkersGetMore
    <2> DEFINE metric(n) == workersPreprocessed[n].metric
    <2> SUFFICES ASSUME PlanInv, SizesInv, IsPlanned, ~EqualIslands,
                        NEW n \in Plan, NEW m \in Plan, Less(metric(n), metric(m))
                 PROVE  output[n].size <= output[m].size
      BY DEF FasterWorkersGetMore
    <2>1. /\ Len(output) \in Nat /\ Len(workersPreprocessed) \in Nat
          /\ solver = "plan" /\ Chosen /\ Shared
      BY DEF PlanInv, SizesInv, Phase, IsPlanned
    <2>2. /\ n \in 1..Len(workersPreprocessed) /\ m \in 1..Len(workersPreprocessed)
          /\ n \in 1..Len(output) /\ m \in 1..Len(output)
          /\ summed = Len(workersPreprocessed)
      BY <2>1 DEF Chosen, Shared, Plan
    <2>3. metric(n) \in Fraction /\ metric(m) \in Fraction
      BY <2>2 DEF SizesInv, Metrics
    <2>4. totalPerformance \in Fraction /\ totalPerformance[1] > 0
      <3>1. metric(m)[1] # 0
        <4>1. /\ metric(n)[1] \in Nat /\ metric(m)[2] \in Nat /\ metric(n)[2] \in Nat
              /\ metric(n)[1] * metric(m)[2] < metric(m)[1] * metric(n)[2]
          BY <2>3 DEF Fraction, Less
        <4>2. metric(n)[1] * metric(m)[2] \in Nat
          BY <4>1, ProductFacts
        <4>. QED  BY <4>1, <4>2
      <3>2. totalPerformance \in Fraction /\ totalPerformance[1] # 0
        BY <3>1, <2>2 DEF SizesInv, Totalled
      <3>. QED  BY <3>2 DEF Fraction
    <2>5. PICK s \in WorkerPopSizes(metric(n)) : output[n].size = IslandSize(s)
      BY <2>1, <2>2 DEF Shared
    <2>6. PICK r \in WorkerPopSizes(metric(m)) : output[m].size = IslandSize(r)
      BY <2>1, <2>2 DEF Shared
    <2>7. populationSize \in Nat /\ minIslandPopSize \in Nat
      BY DEF SizesInv, Arguments
    <2> HIDE DEF metric
    <2>8. s \in Nat /\ r \in Nat /\ s <= r
      BY <2>3, <2>4, <2>5, <2>6, <2>7, SharesKeepOrder
    <2>. QED  BY <2>5, <2>6, <2>7, <2>8, IslandSizesKeepOrder
  <1>. QED  BY <1>1, PlanHolds, SizesHold, PTL

\* The islands planned so far hold their part of the population.
THEOREM CoverHolds == Spec => []CoverInv
  BY PlanHolds, SizesHold, CoverInit, CoverNext, PTL DEF Spec

\* _generate_work_plan() loses less than one individual per island to the casts
\* and the doubles that compute the shares, for any number of islands, any
\* statistics and any population.
THEOREM PopulationIsCovered == Spec => []PlanCoversPopulation
  <1>1. PlanInv /\ SizesInv /\ CoverInv => PlanCoversPopulation
    <2> SUFFICES ASSUME PlanInv, SizesInv, CoverInv, IsPlanned
                 PROVE  TotalSize(output) + islandCount >= populationSize
      BY DEF PlanCoversPopulation
    <2> DEFINE T == totalPerformance
    <2>1. /\ solver = "plan" /\ Len(output) = islandCount /\ Covered
          /\ islandCount \in Nat /\ islandCount > 0 /\ populationSize \in Nat
          /\ TotalSize(output) \in Nat /\ T \in Fraction
      BY DEF IsPlanned, CoverInv, Counted, SizesInv, Arguments, Totalled
    <2>2. Placed \in Nat /\ Placed = TotalSize(output) + islandCount
      BY <2>1 DEF Placed
    <2>3. CASE EqualIslands \/ T[1] = 0
      <3>1. Placed * islandCount >= populationSize * islandCount
        BY <2>1, <2>3 DEF Covered, CoveredEqually
      <3>. QED  BY <3>1, <2>1, <2>2, CancelRight
    <2>4. CASE ~EqualIslands /\ T[1] # 0
      <3>1. summed = islandCount
        BY <2>1, <2>4 DEF SizesInv, Shared
      <3>2. PICK h : PartialSums(h)
        BY DEF CoverInv
      <3>3. h[Len(output)] = T
        BY <3>1, <3>2, <2>1 DEF PartialSums
      <3>4. Placed * (T[1] * T[2]) >= populationSize * (T[1] * T[2])
        BY <3>2, <3>3, <2>1, <2>4 DEF Covered, CoveredByMetrics
      <3>5. T[1] * T[2] \in Nat /\ T[1] * T[2] > 0
        <4>1. T[1] \in Nat /\ T[1] > 0 /\ T[2] \in Nat /\ T[2] > 0
          BY <2>1, <2>4 DEF Fraction
        <4>. QED  BY <4>1, ProductFacts
      <3>. QED  BY <3>4, <3>5, <2>1, <2>2, CancelRight
    <2>. QED  BY <2>3, <2>4
  <1>. QED  BY <1>1, PlanHolds, SizesHold, CoverHolds, PTL

=============================================================================
