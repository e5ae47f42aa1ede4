------------------------------ MODULE Cluster ------------------------------
(***************************************************************************)
(* The running system: one controller process with its islands, and the    *)
(* worker processes, over the network.  Two kinds of faults are bounded:   *)
(* a worker's process ends (and may be started again under its persisted   *)
(* id), and connections break under a worker that lives on: one of them,   *)
(* or all when the controller's process ends and is started again.         *)
(***************************************************************************)
EXTENDS Controller, Worker, Island, FiniteSets

CONSTANTS
    MaxCrashes,   \* bound: worker processes that end
    MaxDrops      \* bound: times that connections break under live workers

ASSUME FaultAssumption == MaxCrashes \in Nat /\ MaxDrops \in Nat

VARIABLES crashes, drops

faultVars == <<crashes, drops>>

vars == <<networkVars, controllerVars, workerVars, islandVars, faultVars>>

Init ==
    /\ NetworkInit
    /\ ControllerInit
    /\ WorkerInit
    /\ IslandInit
    /\ crashes = 0
    /\ drops = 0

-----------------------------------------------------------------------------
ControllerHandlesWorker(w) ==
    /\ \/ HandleWorkerJoin(w)
       \/ HandleWorkerLeave(w)
       \/ HandleWorkResults(w)
       \/ HandleGetDll(w)
    /\ UNCHANGED <<workerVars, islandVars, faultVars>>

ControllerHandlesIsland(i) ==
    /\ HandleAllocateWork(i)
    /\ UNCHANGED <<workerVars, islandVars, faultVars>>

\* The worker's message loop and its thread.
WorkerRuns(w) ==
    /\ \/ StartWorkerThread(w)
       \/ StartOverRunningThread(w)
       \/ HandleDllBinary(w)
       \/ LoadWork(w)
       \/ RequestDll(w)
       \/ Evolve(w)
       \/ HandleThreadResults(w)
    /\ UNCHANGED <<controllerVars, islandVars, faultVars>>

WorkerConnects(w) ==
    /\ WorkerConnect(w)
    /\ UNCHANGED <<controllerVars, islandVars, faultVars>>

IslandSends(i) ==
    /\ SendWork(i)
    /\ UNCHANGED <<controllerVars, workerVars, faultVars>>

IslandReceives(i) ==
    /\ ReceiveResults(i)
    /\ UNCHANGED <<controllerVars, workerVars, faultVars>>

WorkerStarts(w) ==
    /\ StartWorker(w)
    /\ UNCHANGED <<controllerVars, islandVars, faultVars>>

WorkerDies(w) ==
    /\ crashes < MaxCrashes
    /\ crashes' = crashes + 1
    /\ CrashWorker(w) \/ WorkerThreadFails(w)
    /\ UNCHANGED <<controllerVars, islandVars, drops>>

LinkBreaks(w) ==
    /\ drops < MaxDrops
    /\ drops' = drops + 1
    /\ DropLink(w)
    /\ UNCHANGED <<controllerVars, workerVars, islandVars, crashes>>

ControllerRestarts ==
    /\ drops < MaxDrops
    /\ drops' = drops + 1
    /\ RestartController
    /\ RestartIslands
    /\ DropController
    /\ UNCHANGED <<workerVars, crashes>>

\* The archipelago is done: every island has made its calls.
Finished ==
    /\ \A i \in Islands : cycle[i] = MaxCycles
    /\ UNCHANGED vars

Next ==
    \/ \E w \in Workers : \/ ControllerHandlesWorker(w)
                          \/ WorkerRuns(w)
                          \/ WorkerConnects(w)
                          \/ WorkerStarts(w)
                          \/ WorkerDies(w)
                          \/ LinkBreaks(w)
    \/ \E i \in Islands : \/ ControllerHandlesIsland(i)
                          \/ IslandSends(i)
                          \/ IslandReceives(i)
    \/ ControllerRestarts
    \/ Finished

Spec == Init /\ [][Next]_vars

(***************************************************************************)
(* Fairness the code's scheduling gives.  The poll loops serve every       *)
(* socket and ZeroMQ fair-queues the peers of a ROUTER; ZeroMQ keeps       *)
(* reconnecting; an evolution ends; receive() returns once there is a      *)
(* message.  Nobody promises that a worker is started (again), nor that an *)
(* island makes another call.                                              *)
(***************************************************************************)
Fairness ==
    /\ \A w \in Workers : /\ WF_vars(ControllerHandlesWorker(w))
                          /\ WF_vars(WorkerRuns(w))
                          /\ WF_vars(WorkerConnects(w))
    /\ \A i \in Islands : /\ WF_vars(ControllerHandlesIsland(i))
                          /\ WF_vars(IslandReceives(i))

FairSpec == Spec /\ Fairness

-----------------------------------------------------------------------------
(***************************************************************************)
(* Types.  Every variable of the composed system keeps its shape.          *)
(***************************************************************************)
TypeOK ==
    /\ NetworkTypeOK
    /\ ControllerTypeOK
    /\ WorkerTypeOK
    /\ IslandTypeOK
    /\ crashes \in 0..MaxCrashes
    /\ drops \in 0..MaxDrops

\* _allocate_island_work() and _add_free_worker() never leave an island
\* waiting while a worker is free, whatever joins, leaves, results and
\* requests they are called for.
WorkConservation ==
    WaitingIslands(islandsWaitingForAlloc) # {} => freeWorkersPool = {}

AllocatedWorkers == {w \in Workers : workAllocationMap[w] # NoWork}

Pending(w, t) == \E n \in 1..Len(workersSocket[w]) : workersSocket[w][n].type = t

\* A worker the controller counts on (free or allocated) is in one place only,
\* is counted by the worker_info_repository, has a record there (so
\* worker_started_work() cannot throw) and is either connected or has its
\* WORKER_LEAVE under way.
RegisteredWorkers ==
    /\ freeWorkersPool \cap AllocatedWorkers = {}
    /\ freeWorkersPool \cup AllocatedWorkers \subseteq connectedWorkers
    /\ connectedWorkers \subseteq workerRecords
    /\ \A w \in connectedWorkers : linkUp[w] \/ Pending(w, "WORKER_LEAVE")

\* The places an island's outstanding work can be in, each with how often.
Places(i) ==
      Len(islandsSocket[i])
    + (IF islandsWaitingForAlloc[i] # NoWork THEN 1 ELSE 0)
    + Cardinality({w \in AllocatedWorkers : workAllocationMap[w].island = i})
    + Len(dealerSocket[i])

\* run_evolve() blocks without a timeout: while it does, exactly one of the
\* controller's queues, maps or replies holds its work; work is neither lost
\* nor duplicated when it is handed on, re-allocated or answered.
WorkInOnePlace ==
    \A i \in Islands : Places(i) = IF evolving[i] THEN 1 ELSE 0

\* A work_allocation_record is never orphaned: the worker it names is about to
\* get that very work, is running it, or has sent its results, or else the
\* WORKER_LEAVE that re-allocates it is under way.
AllocationIsServed ==
    \A w \in AllocatedWorkers :
        LET work == workAllocationMap[w] IN
        \/ Pending(w, "WORKER_LEAVE")
        \/ workerThread[w].work = work
        \/ \E n \in 1..Len(workersSocket[w]) :
              workersSocket[w][n] = WORK_RESULTS(work)
        \/ \E n \in 1..Len(workerSocket[w]) :
              workerSocket[w][n] = ALLOCATE_WORK(work)

(***************************************************************************)
(* The next four hold until a connection breaks under a live worker: while *)
(* connections only end with their worker's process.                       *)
(***************************************************************************)
Unbroken == drops = 0

\* The bookkeeping of the handlers (the repository, _workAllocationMap.at())
\* throws for no sequence of messages, so the server thread runs on.  What
\* vector_deserialize() or a save of the settings may throw is not modelled.
ServerSurvives == Unbroken => Serving

\* _start_worker_thread() never assigns to a thread that is still joinable.
ThreadsApart == \A w \in Workers : ~terminated[w]

OneThreadAtATime == Unbroken => ThreadsApart

\* An island only ever gets the results of its own current population, not
\* those of another island or of an earlier call.
ResultsBelongToIsland ==
    Unbroken => \A i \in Islands :
        /\ population[i] # NoWork => /\ population[i].island = i
                                     /\ population[i].cycle = cycle[i]
        /\ \A n \in 1..Len(dealerSocket[i]) :
              /\ dealerSocket[i][n].island = i
              /\ dealerSocket[i][n].cycle = cycle[i] + 1

(***************************************************************************)
(* One worker as all parties see it: S is what the controller has yet to   *)
(* read from it, R what it has yet to read, T its thread, unsent its       *)
(* queue, free and work its entries in the controller's maps.              *)
(***************************************************************************)
Silent(R, T, unsent) == R = << >> /\ T = NoThread /\ unsent = << >>

\* The process is gone, or not connected yet; its WORKER_LEAVE comes last.
Away(S, R, T, unsent, free, work) ==
    /\ Silent(R, T, unsent)
    /\ \/ S \in {<< >>, <<WORKER_JOIN, WORKER_LEAVE>>} /\ ~free /\ work = NoWork
       \/ S = <<WORKER_LEAVE>> /\ (free => work = NoWork)
       \/ /\ S \in {<<GET_DLL, WORKER_LEAVE>>,
                    <<WORK_RESULTS(work), WORKER_LEAVE>>}
          /\ ~free /\ work # NoWork

\* Connected, and not allocated: about to join, or free.
Unallocated(S, R, T, unsent, free, work) ==
    /\ Silent(R, T, unsent)
    /\ work = NoWork
    /\ S = IF free THEN << >> ELSE <<WORKER_JOIN>>

\* Connected and allocated: the work, or what became of it, is in one place.
Busy(S, R, T, unsent, free, work) ==
    /\ ~free /\ work # NoWork /\ unsent = << >>
    /\ \/ S = << >> /\ R = <<ALLOCATE_WORK(work)>> /\ T = NoThread
       \/ S = << >> /\ R = << >> /\ T.work = work /\ T.phase \notin {"none", "dll"}
       \/ S = <<GET_DLL>> /\ R = << >> /\ T.work = work /\ T.phase = "dll"
       \/ S = << >> /\ R = <<DLL_BINARY>> /\ T.work = work /\ T.phase = "dll"
       \/ S = <<WORK_RESULTS(work)>> /\ R = << >> /\ T = NoThread

SessionState(link, S, R, T, unsent, free, work) ==
    IF link THEN \/ Unallocated(S, R, T, unsent, free, work)
                 \/ Busy(S, R, T, unsent, free, work)
            ELSE Away(S, R, T, unsent, free, work)

SessionsInStep ==
    \A w \in Workers :
        SessionState(linkUp[w], workersSocket[w], workerSocket[w],
                     workerThread[w], workerUnsent[w],
                     w \in freeWorkersPool, workAllocationMap[w])

\* Controller and worker agree on what the worker is doing, whatever is in
\* flight: no message of an earlier connection is taken for one of the present.
SessionsAgree == Unbroken => SessionsInStep

\* What the comment on _workAllocationMap says, "which worker is currently being
\* used by which island": the results that the controller is about to read from
\* a worker are those of the work it has on record for it.
ResultsMatchAllocation ==
    \A w \in Workers : HasFromWorker(w, "WORK_RESULTS") =>
        workAllocationMap[w] = Head(workersSocket[w]).work

\* As long as some worker stays up from some time on, every run_evolve() that
\* blocks returns.
EveryCallReturns ==
    (\E w \in Workers : <>[]processUp[w])
        => \A i \in Islands : evolving[i] ~> ~evolving[i]

\* get_dll_from_controller() blocks without a timeout and holds the registry's
\* mutex: no worker's thread stays in it, as long as connections end only with
\* the worker's process.
LibraryRequestsReturn ==
    \A w \in Workers : workerThread[w].phase = "dll" ~> workerThread[w].phase # "dll"

\* What the islands see is the service of WorkService.
Service == INSTANCE WorkService WITH
    status <- [i \in Islands |-> IF ~evolving[i] THEN "idle"
                                 ELSE IF dealerSocket[i] = << >>
                                      THEN "requested" ELSE "answered"],
    answer <- [i \in Islands |-> IF population[i] = NoWork THEN << >>
                                 ELSE <<population[i].island,
                                        population[i].cycle>>]

\* The cluster implements the abstract service: each call is answered once and
\* with its own results.
ImplementsService == Service!Spec
=============================================================================
