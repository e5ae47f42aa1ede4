----------------------------- MODULE WorkerInfo -----------------------------
(***************************************************************************)
(* worker_info_repository: who is connected, and how long each worker took *)
(* for how many individuals of which algorithm.  The controller's server   *)
(* thread changes it, the solver reads it; a mutex makes every member      *)
(* function atomic.  (Its condition variable is Solver's matter.)          *)
(*                                                                         *)
(* Records are never removed, and a worker that comes back goes on with    *)
(* its old one.  A default-constructed time_point is the clock's epoch,    *)
(* which lies before the controller's start.  Results are charged to the   *)
(* worker they come from before anyone looks whether it has an allocation: *)
(* a worker that only lost its connection comes back with results of work  *)
(* that was taken from it.                                                 *)
(***************************************************************************)
EXTENDS PopulationTools, FiniteSets

CONSTANTS
    Workers,
    Algorithms,   \* algorithms.size()
    WorkSizes,    \* sizes of the populations that come back
    MaxWorks,     \* bound: allocations
    MaxLeaves,    \* bound: workers that leave
    MaxTime       \* bound: the clock, in milliseconds

ASSUME WorkerInfoAssumption ==
    /\ Algorithms \in Nat \ {0}
    /\ WorkSizes \subseteq Nat
    /\ MaxWorks \in Nat /\ MaxLeaves \in Nat /\ MaxTime \in Nat \ {0}

VARIABLES
    connectedWorkers,  \* _connectedWorkers
    workerRecords,     \* _workerRecords
    allocated,         \* the keys of the controller's _workAllocationMap
    outstanding,       \* works of each worker whose results are yet to be read
    broken,            \* history: a connection ended without its worker
    serverRuns,        \* has the server thread not ended with an exception
    clock,
    works,             \* allocations so far
    leaves             \* workers that left so far

controller == <<allocated, outstanding, broken, serverRuns>>

repository == <<connectedWorkers, workerRecords, controller, clock, works, leaves>>

Epoch == 0
StartTime == 1

work_stats == [processedPopulation |-> 0, workTime |-> 0]

\* An algorithm without an entry in the map has the statistics of a new one.
worker_info ==
    [totalStats |-> work_stats,
     statsByAlgorithm |-> [a \in 1..Algorithms |-> work_stats],
     lastWorkStartTime |-> Epoch]

\* A controller that finds no settings file.
RepositoryInit ==
    /\ connectedWorkers = {}
    /\ workerRecords = << >>
    /\ allocated = {} /\ outstanding = [w \in Workers |-> 0]
    /\ broken = FALSE /\ serverRuns = TRUE
    /\ clock = StartTime
    /\ works = 0 /\ leaves = 0

-----------------------------------------------------------------------------
\* A worker that was here before keeps its record.
worker_joined(w) ==
    /\ serverRuns
    /\ w \notin connectedWorkers
    /\ connectedWorkers' = connectedWorkers \cup {w}
    /\ workerRecords' = [v \in DOMAIN workerRecords \cup {w} |->
                           IF v \in DOMAIN workerRecords THEN workerRecords[v]
                                                         ELSE worker_info]
    /\ UNCHANGED <<controller, clock, works, leaves>>

\* The process of a worker that leaves has ended, and its results with it; or
\* its connection has, and they come on the next one, unless they were lost.
LoseResults(w) ==
    \E n \in 0..outstanding[w] :
        /\ outstanding' = [outstanding EXCEPT ![w] = n]
        /\ broken' = (broken \/ n > 0)

\* Mutant: the record leaves with its worker.
LeaveWithRecord(w) ==
    /\ serverRuns
    /\ w \in connectedWorkers
    /\ leaves < MaxLeaves /\ leaves' = leaves + 1
    /\ connectedWorkers' = connectedWorkers \ {w}
    /\ workerRecords' = Restrict(workerRecords, DOMAIN workerRecords \ {w})
    /\ allocated' = allocated \ {w}
    /\ LoseResults(w)
    /\ UNCHANGED <<serverRuns, clock, works>>

\* The controller gives the work of a worker that leaves to another one.
worker_left(w) ==
    /\ serverRuns
    /\ w \in connectedWorkers
    /\ leaves < MaxLeaves /\ leaves' = leaves + 1
    /\ connectedWorkers' = connectedWorkers \ {w}
    /\ allocated' = allocated \ {w}
    /\ LoseResults(w)
    /\ UNCHANGED <<workerRecords, serverRuns, clock, works>>

\* Mutant: the time of the first start stays.
StartUntimed(w) ==
    /\ serverRuns
    /\ w \in connectedWorkers \ allocated
    /\ works < MaxWorks
    /\ works' = works + 1
    /\ allocated' = allocated \cup {w}
    /\ outstanding' = [outstanding EXCEPT ![w] = @ + 1]
    /\ workerRecords' = [workerRecords EXCEPT ![w].lastWorkStartTime =
                           IF @ = Epoch THEN clock ELSE @]
    /\ UNCHANGED <<connectedWorkers, broken, serverRuns, clock, leaves>>

\* The controller allocates work to connected workers only, one at a time.
worker_started_work(w) ==
    /\ serverRuns
    /\ w \in connectedWorkers \ allocated
    /\ works < MaxWorks
    /\ works' = works + 1
    /\ allocated' = allocated \cup {w}
    /\ outstanding' = [outstanding EXCEPT ![w] = @ + 1]
    /\ workerRecords' = [workerRecords EXCEPT ![w].lastWorkStartTime = clock]
    /\ UNCHANGED <<connectedWorkers, broken, serverRuns, clock, leaves>>

Measured(stats, size, time) ==
    [processedPopulation |-> stats.processedPopulation + size,
     workTime |-> stats.workTime + time]

\* Whatever work the results are of, the time since the last start is charged.
\* They come after the WORKER_JOIN of their connection.  When the worker has no
\* allocation, _workAllocationMap.at() then throws and ends the server thread.
worker_finished_work(w, size, a) ==
    /\ serverRuns
    /\ w \in connectedWorkers /\ outstanding[w] > 0
    /\ outstanding' = [outstanding EXCEPT ![w] = @ - 1]
    /\ allocated' = allocated \ {w}
    /\ serverRuns' = (w \in allocated)
    /\ LET time == clock - workerRecords[w].lastWorkStartTime
       IN workerRecords' = [workerRecords EXCEPT
            ![w].totalStats = Measured(@, size, time),
            ![w].statsByAlgorithm[a] = Measured(@, size, time)]
    /\ UNCHANGED <<connectedWorkers, broken, clock, works, leaves>>

\* Time that no worker works in is time nobody measures.
Tick ==
    /\ \E w \in Workers : outstanding[w] > 0
    /\ clock < MaxTime
    /\ clock' = clock + 1
    /\ UNCHANGED <<connectedWorkers, workerRecords, controller, works, leaves>>

-----------------------------------------------------------------------------
\* What a worker was charged for are disjoint intervals since the start.
ChargedOnce ==
    \A w \in DOMAIN workerRecords :
        LET info == workerRecords[w]
            running == IF w \in allocated
                       THEN clock - info.lastWorkStartTime ELSE 0
        IN info.totalStats.workTime + running <= clock - StartTime

\* No time is charged twice, however often a worker ends with its work and
\* comes back, as long as connections end only with their worker.
MeasuredTimeIsReal == ~broken => ChargedOnce

\* What the comment on work_stats::workTime says, "Total time spent by the worker
\* on running computations": it is no more than the time there was.
WorkTimeWasSpent == ChargedOnce
=============================================================================
