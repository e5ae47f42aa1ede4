----------------------------- MODULE Controller -----------------------------
(***************************************************************************)
(* distributed_controller: the server thread that hands the work of the    *)
(* islands to the workers.  The thread runs one handler at a time, so each *)
(* handler is one action.  An exception in a handler leaves the poll loop, *)
(* and run_server()'s catch (...) ends the thread without a word.          *)
(*                                                                         *)
(* The two unordered maps are total functions with NoWork for "no entry".  *)
(* The choice that begin() of an unordered container makes is arbitrary.   *)
(***************************************************************************)
EXTENDS Network

VARIABLES
    freeWorkersPool,         \* _freeWorkersPool
    workAllocationMap,       \* _workAllocationMap: worker -> work of an island
    islandsWaitingForAlloc,  \* _islandsWaitingForAlloc: island -> work
    connectedWorkers,        \* worker_info_repository::_connectedWorkers
    workerRecords,           \* worker_info_repository::_workerRecords (keys)
    serverThread             \* "running", or "dead" after an exception

controllerVars == <<freeWorkersPool, workAllocationMap, islandsWaitingForAlloc,
                    connectedWorkers, workerRecords, serverThread>>

repositoryVars == <<connectedWorkers, workerRecords>>

ControllerTypeOK ==
    /\ freeWorkersPool \subseteq Workers
    /\ workAllocationMap \in [Workers -> Work \cup {NoWork}]
    /\ islandsWaitingForAlloc \in [Islands -> Work \cup {NoWork}]
    /\ connectedWorkers \subseteq Workers
    /\ workerRecords \subseteq Workers
    /\ serverThread \in {"running", "dead"}

\* The records come from the settings file of an earlier run; the rest is new.
ControllerInit ==
    /\ freeWorkersPool = {}
    /\ workAllocationMap = [w \in Workers |-> NoWork]
    /\ islandsWaitingForAlloc = [i \in Islands |-> NoWork]
    /\ connectedWorkers = {}
    /\ workerRecords \in SUBSET Workers
    /\ serverThread = "running"

\* The process is started again: its maps are empty, and its records are those
\* that the last complete save of the settings had.
RestartController ==
    /\ freeWorkersPool' = {}
    /\ workAllocationMap' = [w \in Workers |-> NoWork]
    /\ islandsWaitingForAlloc' = [i \in Islands |-> NoWork]
    /\ connectedWorkers' = {}
    /\ workerRecords' \in SUBSET workerRecords
    /\ serverThread' = "running"

-----------------------------------------------------------------------------
\* run_server(): the poll loop calls handlers until one throws.
Serving == serverThread = "running"

\* worker_info_repository: the keys of its two containers, and when it throws.
\* The times and counts it keeps are not used by the controller.
worker_joined(w) ==
    /\ workerRecords' = workerRecords \cup {w}
    /\ connectedWorkers' = connectedWorkers \cup {w}

worker_left(w) ==
    /\ connectedWorkers' = connectedWorkers \ {w}
    /\ UNCHANGED workerRecords

worker_started_work_throws(w, records) == w \notin records

worker_finished_work_throws(w) == w \notin workerRecords

-----------------------------------------------------------------------------
(***************************************************************************)
(* Controller data logic.  The operators take the maps as the handler has  *)
(* changed them so far and set their next values.                          *)
(***************************************************************************)
SetMaps(pool, alloc, waiting) ==
    /\ freeWorkersPool' = pool
    /\ workAllocationMap' = alloc
    /\ islandsWaitingForAlloc' = waiting

\* unordered_map::emplace() keeps an entry that is already there.
Emplace(map, key, value) ==
    [map EXCEPT ![key] = IF @ = NoWork THEN value ELSE @]

WaitingIslands(waiting) == {i \in Islands : waiting[i] # NoWork}

\* The preferred worker when it is free, otherwise whatever begin() yields.
SelectableWorkers(pool, work) ==
    IF work.preferredWorkerId \in pool THEN {work.preferredWorkerId} ELSE pool

\* Mutant: the allocated worker stays in the free pool.
AllocateWorkerStillFree(pool, alloc, waiting, records, work) ==
    \E w \in SelectableWorkers(pool, work) :
        /\ SetMaps(pool, Emplace(alloc, w, work), waiting)
        /\ SendToWorker(w, ALLOCATE_WORK(work))
        /\ UNCHANGED serverThread

\* Mutant: no work_allocation_record is made.
AllocateWorkerUnrecorded(pool, alloc, waiting, records, work) ==
    \E w \in SelectableWorkers(pool, work) :
        /\ SetMaps(pool \ {w}, alloc, waiting)
        /\ SendToWorker(w, ALLOCATE_WORK(work))
        /\ UNCHANGED serverThread

AllocateWorkerToIsland(pool, alloc, waiting, records, work) ==
    \E w \in SelectableWorkers(pool, work) :
        /\ SetMaps(pool \ {w}, Emplace(alloc, w, work), waiting)
        /\ IF worker_started_work_throws(w, records)
           THEN serverThread' = "dead" /\ UNCHANGED workerSocket
           ELSE SendToWorker(w, ALLOCATE_WORK(work)) /\ UNCHANGED serverThread

AllocateIslandWork(pool, alloc, waiting, records, work) ==
    IF pool = {}
    THEN /\ SetMaps(pool, alloc, Emplace(waiting, work.island, work))
         /\ UNCHANGED <<workerSocket, serverThread>>
    ELSE AllocateWorkerToIsland(pool, alloc, waiting, records, work)

\* Mutant: the islands that wait are not looked at.
AddFreeWorkerOnly(pool, alloc, waiting, records, w) ==
    /\ SetMaps(pool \cup {w}, alloc, waiting)
    /\ UNCHANGED <<workerSocket, serverThread>>

\* Mutant: the island stays in _islandsWaitingForAlloc.
AddFreeWorkerKeepsIsland(pool, alloc, waiting, records, w) ==
    IF WaitingIslands(waiting) = {}
    THEN /\ SetMaps(pool \cup {w}, alloc, waiting)
         /\ UNCHANGED <<workerSocket, serverThread>>
    ELSE \E i \in WaitingIslands(waiting) :
            AllocateWorkerToIsland(pool \cup {w}, alloc, waiting, records,
                                   waiting[i])

AddFreeWorker(pool, alloc, waiting, records, w) ==
    IF WaitingIslands(waiting) = {}
    THEN /\ SetMaps(pool \cup {w}, alloc, waiting)
         /\ UNCHANGED <<workerSocket, serverThread>>
    ELSE \E i \in WaitingIslands(waiting) :      \* _pop_waiting_island()
            AllocateWorkerToIsland(pool \cup {w}, alloc,
                [waiting EXCEPT ![i] = NoWork], records, waiting[i])

-----------------------------------------------------------------------------
(***************************************************************************)
(* Handling of socket messages.                                            *)
(***************************************************************************)
HandleWorkerJoin(w) ==
    /\ Serving
    /\ HasFromWorker(w, "WORKER_JOIN")
    /\ TakeFromWorker(w)
    /\ IF w \in freeWorkersPool
       THEN UNCHANGED <<controllerVars, workerSocket>>
       ELSE /\ worker_joined(w)
            /\ AddFreeWorker(freeWorkersPool, workAllocationMap,
                             islandsWaitingForAlloc, workerRecords', w)
    /\ UNCHANGED <<islandsSocket, workerUnsent, dealerSocket, linkUp>>

\* Mutant: a busy worker that leaves is not looked up.
LeaveForgetsWork(w) ==
    /\ Serving
    /\ HasFromWorker(w, "WORKER_LEAVE")
    /\ TakeFromWorker(w)
    /\ worker_left(w)
    /\ SetMaps(freeWorkersPool \ {w}, workAllocationMap, islandsWaitingForAlloc)
    /\ UNCHANGED <<islandsSocket, workerSocket, workerUnsent, dealerSocket,
                   linkUp, serverThread>>

\* Mutant: the work is re-allocated and its old record stays.
LeaveKeepsRecord(w) ==
    /\ Serving
    /\ HasFromWorker(w, "WORKER_LEAVE")
    /\ TakeFromWorker(w)
    /\ worker_left(w)
    /\ LET pool == freeWorkersPool \ {w}
       IN IF workAllocationMap[w] = NoWork
          THEN /\ SetMaps(pool, workAllocationMap, islandsWaitingForAlloc)
               /\ UNCHANGED <<workerSocket, serverThread>>
          ELSE AllocateIslandWork(pool, workAllocationMap,
                                  islandsWaitingForAlloc, workerRecords,
                                  workAllocationMap[w])
    /\ UNCHANGED <<islandsSocket, workerUnsent, dealerSocket, linkUp>>

\* Mutant: the free pool keeps the worker that left.
LeaveKeepsFreeWorker(w) ==
    /\ Serving
    /\ HasFromWorker(w, "WORKER_LEAVE")
    /\ TakeFromWorker(w)
    /\ worker_left(w)
    /\ IF workAllocationMap[w] = NoWork
       THEN UNCHANGED <<freeWorkersPool, workAllocationMap,
                        islandsWaitingForAlloc, workerSocket, serverThread>>
       ELSE AllocateIslandWork(freeWorkersPool,
                               [workAllocationMap EXCEPT ![w] = NoWork],
                               islandsWaitingForAlloc, workerRecords,
                               workAllocationMap[w])
    /\ UNCHANGED <<islandsSocket, workerUnsent, dealerSocket, linkUp>>

HandleWorkerLeave(w) ==
    /\ Serving
    /\ HasFromWorker(w, "WORKER_LEAVE")
    /\ TakeFromWorker(w)
    /\ worker_left(w)
    /\ LET pool  == freeWorkersPool \ {w}
           alloc == [workAllocationMap EXCEPT ![w] = NoWork]
       IN IF workAllocationMap[w] = NoWork
          THEN /\ SetMaps(pool, workAllocationMap, islandsWaitingForAlloc)
               /\ UNCHANGED <<workerSocket, serverThread>>
          ELSE AllocateIslandWork(pool, alloc, islandsWaitingForAlloc,
                                  workerRecords, workAllocationMap[w])
    /\ UNCHANGED <<islandsSocket, workerUnsent, dealerSocket, linkUp>>

\* Mutant: the whole message, not its payload, goes to the island.
ResultsForwardMessage(w) ==
    /\ Serving
    /\ HasFromWorker(w, "WORK_RESULTS")
    /\ workAllocationMap[w] # NoWork
    /\ TakeFromWorker(w)
    /\ dealerSocket' = [dealerSocket EXCEPT ![workAllocationMap[w].island] =
                          Append(@, Head(workersSocket[w]))]
    /\ AddFreeWorker(freeWorkersPool, [workAllocationMap EXCEPT ![w] = NoWork],
                     islandsWaitingForAlloc, workerRecords, w)
    /\ UNCHANGED <<repositoryVars, islandsSocket, workerUnsent, linkUp>>

\* Mutant: the record of some allocated worker is used, not that of this one.
ResultsOfAnyRecord(w) ==
    /\ Serving
    /\ HasFromWorker(w, "WORK_RESULTS")
    /\ TakeFromWorker(w)
    /\ \E v \in Workers :
         /\ workAllocationMap[v] # NoWork
         /\ dealerSocket' = [dealerSocket EXCEPT ![workAllocationMap[v].island] =
                               Append(@, Head(workersSocket[w]).work)]
    /\ AddFreeWorker(freeWorkersPool, [workAllocationMap EXCEPT ![w] = NoWork],
                     islandsWaitingForAlloc, workerRecords, w)
    /\ UNCHANGED <<repositoryVars, islandsSocket, workerUnsent, linkUp>>

\* worker_finished_work() and _workAllocationMap.at() both throw when the
\* worker is unknown to them.  (vector_deserialize() and the save inside
\* _settings() are taken not to throw, here and in the other handlers.)
HandleWorkResults(w) ==
    /\ Serving
    /\ HasFromWorker(w, "WORK_RESULTS")
    /\ TakeFromWorker(w)
    /\ IF worker_finished_work_throws(w) \/ workAllocationMap[w] = NoWork
       THEN /\ serverThread' = "dead"
            /\ UNCHANGED <<freeWorkersPool, workAllocationMap,
                           islandsWaitingForAlloc, workerSocket, dealerSocket>>
       ELSE /\ dealerSocket' =
                 [dealerSocket EXCEPT ![workAllocationMap[w].island] =
                     Append(@, Head(workersSocket[w]).work)]
            /\ AddFreeWorker(freeWorkersPool,
                             [workAllocationMap EXCEPT ![w] = NoWork],
                             islandsWaitingForAlloc, workerRecords, w)
    /\ UNCHANGED <<repositoryVars, islandsSocket, workerUnsent, linkUp>>

\* Mutant: no reply when the registry does not have the file.
GetDllOnlyIfFound(w) ==
    /\ Serving
    /\ HasFromWorker(w, "GET_DLL")
    /\ TakeFromWorker(w)
    /\ SendToWorker(w, DLL_BINARY) \/ UNCHANGED workerSocket
    /\ UNCHANGED <<controllerVars, islandsSocket, workerUnsent, dealerSocket,
                   linkUp>>

\* The reply is sent also when there is no such file: the worker's registry throws.
HandleGetDll(w) ==
    /\ Serving
    /\ HasFromWorker(w, "GET_DLL")
    /\ TakeFromWorker(w)
    /\ SendToWorker(w, DLL_BINARY)
    /\ UNCHANGED <<controllerVars, islandsSocket, workerUnsent, dealerSocket,
                   linkUp>>

HandleAllocateWork(i) ==
    /\ Serving
    /\ islandsSocket[i] # << >>
    /\ islandsSocket' = [islandsSocket EXCEPT ![i] = Tail(@)]
    /\ AllocateIslandWork(freeWorkersPool, workAllocationMap,
                          islandsWaitingForAlloc, workerRecords,
                          Head(islandsSocket[i]))
    /\ UNCHANGED <<repositoryVars, workersSocket, workerUnsent, dealerSocket,
                   linkUp>>
=============================================================================
