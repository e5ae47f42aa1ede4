------------------------------ MODULE WorkPlan ------------------------------
(***************************************************************************)
(* distributed_solver::_generate_work_plan(): how many individuals, which  *)
(* algorithm and which preferred worker each island of an evolution gets.  *)
(* It follows a history of work that filled the repository's statistics,   *)
(* and workers join and leave while it runs: the number of islands comes   *)
(* from an earlier look at the repository than the set of workers the plan *)
(* works with, and statistics are looked up in yet later ones.             *)
(*                                                                         *)
(* A performance is an exact fraction <<individuals, time>>.  The code's   *)
(* doubles can only differ where the exact share is an integer: rounding   *)
(* may put the product just below it.                                      *)
(***************************************************************************)
EXTENDS WorkerInfo

CONSTANTS
    NoWorker,             \* the empty preferredWorkerId
    ExpectedWorkerCount,  \* _expectedWorkerCount
    Populations,          \* populationSize of the call of evolve()
    MinPopSizes           \* minIslandPopSize of the call of evolve()

ASSUME WorkPlanAssumption ==
    /\ NoWorker \notin Workers
    /\ ExpectedWorkerCount \in Nat \ {0}
    /\ Populations \subseteq Nat /\ MinPopSizes \subseteq Nat

VARIABLES
    solver,               \* where the user's thread is
    allEqual,             \* _loadBalancingStrategy is ALL_ISLANDS_EQUAL
    islandCount, populationSize, minIslandPopSize,
    workers,              \* repo.get_connected_workers(), as copied
    unassigned,           \* the plan's connectedWorkers: no island has them
    algorithmPtr,         \* the algorithm that getAlgorithm() yields next
    workersPreprocessed,  \* [worker, algorithm, metric] for each island
    totalPerformance,     \* the sum of the metrics so far,
    summed,               \* and of how many of them
    output                \* [size, worker, algorithm] for each island

inputs == <<solver, allEqual, islandCount, populationSize, minIslandPopSize,
            workers>>

choices == <<unassigned, algorithmPtr, workersPreprocessed>>

plan == <<choices, totalPerformance, summed, output>>

vars == <<repository, inputs, plan>>

Init ==
    /\ RepositoryInit
    /\ solver = "ready"
    /\ allEqual \in BOOLEAN
    /\ islandCount = 0 /\ populationSize = 0 /\ minIslandPopSize = 0
    /\ workers = {} /\ unassigned = {}
    /\ algorithmPtr = 1
    /\ workersPreprocessed = << >>
    /\ totalPerformance = <<0, 1>> /\ summed = 0
    /\ output = << >>

-----------------------------------------------------------------------------
\* The islands of an earlier evolution have their work done; evolve() starts
\* no other one before the last of them has its result.
Work ==
    /\ solver = "ready"
    /\ (\E w \in Workers : worker_started_work(w)) \/ Tick
    /\ UNCHANGED <<inputs, plan>>

\* The server thread lets workers join and leave at any time, and reads results,
\* among them those that no island waits for.
ServerThread ==
    /\ \E w \in Workers :
          \/ worker_joined(w) \/ worker_left(w)
          \/ \E size \in WorkSizes, a \in 1..Algorithms :
                worker_finished_work(w, size, a)
    /\ UNCHANGED <<inputs, plan>>

\* evolve(): as many islands as workers are connected or expected.
evolve ==
    /\ solver = "ready" /\ allocated = {}
    /\ solver' = "counted"
    /\ islandCount' = larger(Cardinality(connectedWorkers), ExpectedWorkerCount)
    /\ populationSize' \in Populations
    /\ minIslandPopSize' \in MinPopSizes
    /\ UNCHANGED <<repository, allEqual, workers, plan>>

\* The plan begins with a copy of the set of workers.
CopyConnectedWorkers ==
    /\ solver = "counted"
    /\ solver' = "plan"
    /\ workers' = connectedWorkers
    /\ unassigned' = connectedWorkers
    /\ UNCHANGED <<repository, allEqual, islandCount, populationSize,
                   minIslandPopSize, algorithmPtr, workersPreprocessed,
                   totalPerformance, summed, output>>

-----------------------------------------------------------------------------
\* a < b, a + b and 2 * a, of fractions.
Less(a, b) == a[1] * b[2] < b[1] * a[2]
Plus(a, b) == <<a[1] * b[2] + b[1] * a[2], a[2] * b[2]>>
Twice(a) == <<2 * a[1], a[2]>>

Average(stats) == safe_divide(stats.processedPopulation, stats.workTime)

get_worker_info(w) == workerRecords[w]

algoAverage(w, a) == Average(get_worker_info(w).statsByAlgorithm[a])

totalAverage(w) == Average(get_worker_info(w).totalStats)

\* The set is traversed in any order and the last of the best is kept.
Best(avg) ==
    {w \in unassigned : \A v \in unassigned : ~Less(avg[w], avg[v])}

\* getAlgorithm(): round-robin.
NextAlgorithm(a) == IF a = Algorithms THEN 1 ELSE a + 1

EqualIslands == islandCount > Cardinality(workers) \/ allEqual

IslandSize(share) == ceil_to_multiple(larger(minIslandPopSize, share), 4)

\* OPTION 1, one round of the loop.
PlanEqualIsland ==
    /\ solver = "plan" /\ EqualIslands
    /\ Len(output) < islandCount
    /\ output' = Append(output,
         [size |-> IslandSize(populationSize \div islandCount),
          worker |-> NoWorker, algorithm |-> algorithmPtr])
    /\ algorithmPtr' = NextAlgorithm(algorithmPtr)
    /\ UNCHANGED <<repository, inputs, unassigned, workersPreprocessed,
                   totalPerformance, summed>>

\* Mutant: the chosen worker stays in the set.
KeepChosen(w) == UNCHANGED unassigned

\* The chosen worker cannot be assigned to another island.
EraseChosen(w) == unassigned' = unassigned \ {w}

\* OPTION 2, step 1, one round: by the algorithm's statistics, unless the best
\* in total is more than twice as good.
ChooseWorker ==
    /\ solver = "plan" /\ ~EqualIslands
    /\ Len(workersPreprocessed) < islandCount
    /\ \E t \in Best([w \in unassigned |-> totalAverage(w)]),
          a \in Best([w \in unassigned |-> algoAverage(w, algorithmPtr)]) :
         LET preferTotal == Less(Twice(algoAverage(a, algorithmPtr)),
                                 totalAverage(t))
             chosen == IF preferTotal THEN t ELSE a
             metric == IF preferTotal THEN totalAverage(t)
                                      ELSE algoAverage(a, algorithmPtr)
         IN /\ workersPreprocessed' = Append(workersPreprocessed,
                 [worker |-> chosen, algorithm |-> algorithmPtr,
                  metric |-> metric])
            /\ EraseChosen(chosen)
    /\ algorithmPtr' = NextAlgorithm(algorithmPtr)
    /\ UNCHANGED <<repository, inputs, totalPerformance, summed, output>>

\* OPTION 2, step 2, one round.
AddPerformance ==
    /\ solver = "plan" /\ ~EqualIslands
    /\ Len(workersPreprocessed) = islandCount
    /\ summed < islandCount
    /\ summed' = summed + 1
    /\ totalPerformance' = Plus(totalPerformance, workersPreprocessed[summed'].metric)
    /\ UNCHANGED <<repository, inputs, choices, output>>

\* The exact share as a fraction of individuals.
ExactShare(metric) ==
    IF totalPerformance[1] > 0
    THEN <<populationSize * metric[1] * totalPerformance[2],
           metric[2] * totalPerformance[1]>>
    ELSE <<populationSize, islandCount>>

\* Mutant: the time a worker took is taken for its performance.
WorkerPopSizesByTime(metric) == {populationSize \div (islandCount * metric[2])}

\* The cast to size_t truncates.
WorkerPopSizes(metric) ==
    LET share == ExactShare(metric)
        size  == share[1] \div share[2]
    IN IF size > 0 /\ share[1] % share[2] = 0 THEN {size - 1, size} ELSE {size}

\* OPTION 2, step 3, one round.
PlanShare ==
    /\ solver = "plan" /\ ~EqualIslands
    /\ Len(workersPreprocessed) = islandCount /\ summed = islandCount
    /\ Len(output) < islandCount
    /\ LET p == workersPreprocessed[Len(output) + 1]
       IN \E share \in WorkerPopSizes(p.metric) :
            output' = Append(output, [size |-> IslandSize(share),
                                      worker |-> p.worker,
                                      algorithm |-> p.algorithm])
    /\ UNCHANGED <<repository, inputs, choices, totalPerformance, summed>>

Next ==
    \/ Work \/ ServerThread
    \/ evolve \/ CopyConnectedWorkers
    \/ PlanEqualIsland \/ ChooseWorker \/ AddPerformance \/ PlanShare

Spec == Init /\ [][Next]_vars

-----------------------------------------------------------------------------
IsPlanned == solver = "plan" /\ Len(output) = islandCount

Plan == 1..Len(output)

\* The individuals of all islands.
TotalSize(islands) ==
    LET upTo[n \in 0..Len(islands)] ==
          IF n = 0 THEN 0 ELSE upTo[n - 1] + islands[n].size
    IN upTo[Len(islands)]

\* No worker is asked to take two islands while another idles: preferred
\* workers are workers of the copied set, one island each, and either all
\* islands prefer a worker or none does.
PreferredWorkersDiffer ==
    IsPlanned =>
      \/ \A n \in Plan : output[n].worker = NoWorker
      \/ /\ \A n \in Plan : output[n].worker \in workers
         /\ \A n, m \in Plan : n # m => output[n].worker # output[m].worker

\* "wInfo->" is never used on an empty optional: every worker the plan has yet
\* to look at has a record, also one that has left since the copy was made.
PlannedWorkersAreRecorded == unassigned \subseteq DOMAIN workerRecords

\* Truncating every share loses less than one individual per island (and what
\* a double rounds away), whatever the statistics say.
PlanCoversPopulation ==
    IsPlanned => TotalSize(output) + islandCount >= populationSize

\* A worker that was faster at what it was chosen for gets no smaller island
\* than a slower one.
FasterWorkersGetMore ==
    IsPlanned /\ ~EqualIslands =>
      \A n, m \in Plan :
         Less(workersPreprocessed[n].metric, workersPreprocessed[m].metric)
           => output[n].size <= output[m].size

=============================================================================
