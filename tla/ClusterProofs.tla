--------------------------- MODULE ClusterProofs ----------------------------
(***************************************************************************)
(* Proofs about Cluster, for any sets of workers and islands and any       *)
(* bounds on cycles, crashes and broken connections: types and the         *)
(* conservation of work under all faults; and, until a connection breaks   *)
(* under a live worker, that controller and workers never disagree, so no  *)
(* handler throws and no worker thread is started over another.            *)
(***************************************************************************)
EXTENDS Cluster, SequenceTheorems, TLAPS

\* The maps and the sockets that the allocation operators write.
MapsTypeOK ==
    /\ freeWorkersPool \subseteq Workers
    /\ workAllocationMap \in [Workers -> Work \cup {NoWork}]
    /\ islandsWaitingForAlloc \in [Islands -> Work \cup {NoWork}]
    /\ workerSocket \in [Workers -> Seq(ControllerMessage)]
    /\ serverThread \in {"running", "dead"}

-----------------------------------------------------------------------------
\* A message a worker sends is a WorkerMessage, and WORK_RESULTS carries work.
LEMMA WorkerMessageType ==
    /\ WORKER_JOIN \in WorkerMessage
    /\ WORKER_LEAVE \in WorkerMessage
    /\ GET_DLL \in WorkerMessage
    /\ \A k \in Work : WORK_RESULTS(k) \in WorkerMessage
    /\ \A m \in WorkerMessage : m.type = "WORK_RESULTS" => m.work \in Work
<1>1. \A m \in WorkerMessage : m.type = "WORK_RESULTS" => m.work \in Work
  <2> SUFFICES ASSUME NEW m \in WorkerMessage, m.type = "WORK_RESULTS"
               PROVE  m.work \in Work
    OBVIOUS
  <2>1. m \in {WORKER_JOIN, WORKER_LEAVE, GET_DLL}
        \/ \E k \in Work : m = WORK_RESULTS(k)
    BY DEF WorkerMessage
  <2>2. CASE m \in {WORKER_JOIN, WORKER_LEAVE, GET_DLL}
    BY <2>2 DEF WORKER_JOIN, WORKER_LEAVE, GET_DLL
  <2>3. CASE \E k \in Work : m = WORK_RESULTS(k)
    BY <2>3 DEF WORK_RESULTS
  <2> QED
    BY <2>1, <2>2, <2>3
<1> QED
  BY <1>1 DEF WorkerMessage

\* A message the controller sends is a ControllerMessage, and ALLOCATE_WORK
\* carries work.
LEMMA ControllerMessageType ==
    /\ DLL_BINARY \in ControllerMessage
    /\ \A k \in Work : ALLOCATE_WORK(k) \in ControllerMessage
    /\ \A m \in ControllerMessage : m.type = "ALLOCATE_WORK" => m.work \in Work
<1>1. \A m \in ControllerMessage : m.type = "ALLOCATE_WORK" => m.work \in Work
  <2> SUFFICES ASSUME NEW m \in ControllerMessage, m.type = "ALLOCATE_WORK"
               PROVE  m.work \in Work
    OBVIOUS
  <2>1. m = DLL_BINARY \/ \E k \in Work : m = ALLOCATE_WORK(k)
    BY DEF ControllerMessage
  <2> QED
    BY <2>1 DEF DLL_BINARY, ALLOCATE_WORK
<1> QED
  BY <1>1 DEF ControllerMessage

\* The part of a channel that survives a lost connection is a channel.
LEMMA PrefixType ==
    ASSUME NEW S, NEW s \in Seq(S), NEW n \in 0..Len(s)
    PROVE  SubSeq(s, 1, n) \in Seq(S)
OBVIOUS

\* Sending on one of a family of channels.
LEMMA AppendAtType ==
    ASSUME NEW D, NEW S, NEW f \in [D -> Seq(S)], NEW d \in D, NEW m \in S
    PROVE  [f EXCEPT ![d] = Append(@, m)] \in [D -> Seq(S)]
<1>1. Append(f[d], m) \in Seq(S)
  OBVIOUS
<1> QED
  BY <1>1

\* Receiving from one of a family of channels.
LEMMA TailAtType ==
    ASSUME NEW D, NEW S, NEW f \in [D -> Seq(S)], NEW d \in D, f[d] # << >>
    PROVE  /\ [f EXCEPT ![d] = Tail(@)] \in [D -> Seq(S)]
           /\ Head(f[d]) \in S
<1>1. Tail(f[d]) \in Seq(S) /\ Head(f[d]) \in S
  OBVIOUS
<1> QED
  BY <1>1

\* _allocate_worker_to_island() keeps the types of everything it writes.
LEMMA AllocateWorkerType ==
    ASSUME NEW pool \in SUBSET Workers,
           NEW alloc \in [Workers -> Work \cup {NoWork}],
           NEW waiting \in [Islands -> Work \cup {NoWork}],
           NEW records, NEW work \in Work,
           MapsTypeOK,
           AllocateWorkerToIsland(pool, alloc, waiting, records, work)
    PROVE  MapsTypeOK'
<1>1. PICK w \in SelectableWorkers(pool, work) :
        /\ SetMaps(pool \ {w}, Emplace(alloc, w, work), waiting)
        /\ IF w \in records
           THEN SendToWorker(w, ALLOCATE_WORK(work)) /\ UNCHANGED serverThread
           ELSE serverThread' = "dead" /\ UNCHANGED workerSocket
  BY DEF AllocateWorkerToIsland, worker_started_work_throws
<1>2. w \in Workers
  BY DEF SelectableWorkers
<1>3. Emplace(alloc, w, work) \in [Workers -> Work \cup {NoWork}]
  BY <1>2 DEF Emplace
<1>4. workerSocket' \in [Workers -> Seq(ControllerMessage)]
  <2>1. ALLOCATE_WORK(work) \in ControllerMessage
    BY ControllerMessageType
  <2>2. [workerSocket EXCEPT ![w] = Append(@, ALLOCATE_WORK(work))]
           \in [Workers -> Seq(ControllerMessage)]
    BY <1>2, <2>1, AppendAtType DEF MapsTypeOK
  <2> QED
    BY <1>1, <2>2 DEF SendToWorker, MapsTypeOK
<1>5. serverThread' \in {"running", "dead"}
  BY <1>1 DEF MapsTypeOK
<1> QED
  BY <1>1, <1>2, <1>3, <1>4, <1>5 DEF SetMaps, MapsTypeOK

\* So does _allocate_island_work().
LEMMA AllocateIslandType ==
    ASSUME NEW pool \in SUBSET Workers,
           NEW alloc \in [Workers -> Work \cup {NoWork}],
           NEW waiting \in [Islands -> Work \cup {NoWork}],
           NEW records, NEW work \in Work,
           MapsTypeOK,
           AllocateIslandWork(pool, alloc, waiting, records, work)
    PROVE  MapsTypeOK'
<1>1. CASE pool = {}
  <2>1. Emplace(waiting, work.island, work) \in [Islands -> Work \cup {NoWork}]
    BY DEF Emplace, Work
  <2> QED
    BY <1>1, <2>1 DEF AllocateIslandWork, SetMaps, MapsTypeOK
<1>2. CASE pool # {}
  BY <1>2, AllocateWorkerType DEF AllocateIslandWork
<1> QED
  BY <1>1, <1>2

\* So does _add_free_worker().
LEMMA AddFreeWorkerType ==
    ASSUME NEW pool \in SUBSET Workers,
           NEW alloc \in [Workers -> Work \cup {NoWork}],
           NEW waiting \in [Islands -> Work \cup {NoWork}],
           NEW records, NEW w \in Workers,
           MapsTypeOK,
           AddFreeWorker(pool, alloc, waiting, records, w)
    PROVE  MapsTypeOK'
<1>1. CASE WaitingIslands(waiting) = {}
  BY <1>1 DEF AddFreeWorker, SetMaps, MapsTypeOK
<1>2. CASE WaitingIslands(waiting) # {}
  <2>1. PICK i \in WaitingIslands(waiting) :
          AllocateWorkerToIsland(pool \cup {w}, alloc,
            [waiting EXCEPT ![i] = NoWork], records, waiting[i])
    BY <1>2 DEF AddFreeWorker
  <2>2. /\ waiting[i] \in Work
        /\ [waiting EXCEPT ![i] = NoWork] \in [Islands -> Work \cup {NoWork}]
    BY DEF WaitingIslands
  <2> QED
    BY <2>1, <2>2, AllocateWorkerType
<1> QED
  BY <1>1, <1>2

-----------------------------------------------------------------------------
\* The handlers of the worker socket keep all types.
LEMMA ControllerWorkerType ==
    ASSUME TypeOK, NEW w \in Workers, ControllerHandlesWorker(w)
    PROVE  TypeOK'
<1> USE DEF TypeOK, NetworkTypeOK, ControllerTypeOK
<1>0. /\ MapsTypeOK
      /\ WorkerTypeOK' /\ IslandTypeOK'
      /\ crashes' \in 0..MaxCrashes /\ drops' \in 0..MaxDrops
  BY DEF MapsTypeOK, ControllerHandlesWorker, WorkerTypeOK, IslandTypeOK,
         workerVars, islandVars, faultVars
<1>1. ASSUME NEW t, HasFromWorker(w, t), TakeFromWorker(w)
      PROVE  /\ workersSocket' \in [Workers -> Seq(WorkerMessage)]
             /\ Head(workersSocket[w]) \in WorkerMessage
             /\ Head(workersSocket[w]).type = t
  BY <1>1, TailAtType DEF HasFromWorker, TakeFromWorker
<1>2. CASE HandleWorkerJoin(w)
  <2>1. workersSocket' \in [Workers -> Seq(WorkerMessage)]
    BY <1>1, <1>2 DEF HandleWorkerJoin, worker_joined
  <2>2. CASE w \in freeWorkersPool
    BY <1>0, <1>2, <2>1, <2>2 DEF HandleWorkerJoin, worker_joined, controllerVars
  <2>3. CASE w \notin freeWorkersPool
    <3>1. AddFreeWorker(freeWorkersPool, workAllocationMap,
                        islandsWaitingForAlloc, workerRecords', w)
      BY <1>2, <2>3 DEF HandleWorkerJoin, worker_joined
    <3>2. MapsTypeOK'
      BY <1>0, <3>1, AddFreeWorkerType
    <3> QED
      BY <1>0, <1>2, <2>1, <2>3, <3>2 DEF HandleWorkerJoin, worker_joined, MapsTypeOK
  <2> QED
    BY <2>2, <2>3
<1>3. CASE HandleWorkerLeave(w)
  <2>1. workersSocket' \in [Workers -> Seq(WorkerMessage)]
    BY <1>1, <1>3 DEF HandleWorkerLeave, worker_left
  <2>2. CASE workAllocationMap[w] = NoWork
    BY <1>0, <1>3, <2>1, <2>2 DEF HandleWorkerLeave, worker_left, SetMaps
  <2>3. CASE workAllocationMap[w] # NoWork
    <3>1. AllocateIslandWork(freeWorkersPool \ {w},
             [workAllocationMap EXCEPT ![w] = NoWork],
             islandsWaitingForAlloc, workerRecords, workAllocationMap[w])
      BY <1>3, <2>3 DEF HandleWorkerLeave, worker_left
    <3>2. /\ workAllocationMap[w] \in Work
          /\ [workAllocationMap EXCEPT ![w] = NoWork]
                \in [Workers -> Work \cup {NoWork}]
      BY <2>3
    <3>3. MapsTypeOK'
      BY <1>0, <3>1, <3>2, AllocateIslandType
    <3> QED
      BY <1>0, <1>3, <2>1, <3>3 DEF HandleWorkerLeave, worker_left, MapsTypeOK
  <2> QED
    BY <2>2, <2>3
<1>4. CASE HandleWorkResults(w)
  <2>1. /\ workersSocket' \in [Workers -> Seq(WorkerMessage)]
        /\ Head(workersSocket[w]).work \in Work
    BY <1>1, <1>4, WorkerMessageType DEF HandleWorkResults, worker_finished_work_throws
  <2>2. CASE w \notin workerRecords \/ workAllocationMap[w] = NoWork
    BY <1>0, <1>4, <2>1, <2>2 DEF HandleWorkResults, worker_finished_work_throws, repositoryVars
  <2>3. CASE ~(w \notin workerRecords \/ workAllocationMap[w] = NoWork)
    <3>1. /\ AddFreeWorker(freeWorkersPool,
               [workAllocationMap EXCEPT ![w] = NoWork],
               islandsWaitingForAlloc, workerRecords, w)
          /\ dealerSocket' =
               [dealerSocket EXCEPT ![workAllocationMap[w].island] =
                  Append(@, Head(workersSocket[w]).work)]
      BY <1>4, <2>3 DEF HandleWorkResults, worker_finished_work_throws
    <3>2. /\ workAllocationMap[w].island \in Islands
          /\ [workAllocationMap EXCEPT ![w] = NoWork]
                \in [Workers -> Work \cup {NoWork}]
      BY <2>3 DEF Work
    <3>3. MapsTypeOK'
      BY <1>0, <3>1, <3>2, AddFreeWorkerType
    <3>4. dealerSocket' \in [Islands -> Seq(Work)]
      BY <2>1, <3>1, <3>2, AppendAtType
    <3> QED
      BY <1>0, <1>4, <2>1, <3>3, <3>4
      DEF HandleWorkResults, worker_finished_work_throws, repositoryVars, MapsTypeOK
  <2> QED
    BY <2>2, <2>3
<1>5. CASE HandleGetDll(w)
  <2>1. workersSocket' \in [Workers -> Seq(WorkerMessage)]
    BY <1>1, <1>5 DEF HandleGetDll
  <2>2. workerSocket' \in [Workers -> Seq(ControllerMessage)]
    BY <1>5, ControllerMessageType, AppendAtType DEF HandleGetDll, SendToWorker
  <2> QED
    BY <1>0, <1>5, <2>1, <2>2 DEF HandleGetDll, controllerVars
<1> QED
  BY <1>2, <1>3, <1>4, <1>5 DEF ControllerHandlesWorker

\* The handler of the island socket keeps all types.
LEMMA ControllerIslandType ==
    ASSUME TypeOK, NEW i \in Islands, ControllerHandlesIsland(i)
    PROVE  TypeOK'
<1> USE DEF TypeOK, NetworkTypeOK, ControllerTypeOK
<1>0. /\ MapsTypeOK
      /\ WorkerTypeOK' /\ IslandTypeOK'
      /\ crashes' \in 0..MaxCrashes /\ drops' \in 0..MaxDrops
  BY DEF MapsTypeOK, ControllerHandlesIsland, WorkerTypeOK, IslandTypeOK,
         workerVars, islandVars, faultVars
<1>1. HandleAllocateWork(i)
  BY DEF ControllerHandlesIsland
<1>2. /\ islandsSocket' \in [Islands -> Seq(Work)]
      /\ Head(islandsSocket[i]) \in Work
  BY <1>1, TailAtType DEF HandleAllocateWork
<1>3. MapsTypeOK'
  BY <1>0, <1>1, <1>2, AllocateIslandType DEF HandleAllocateWork
<1> QED
  BY <1>0, <1>1, <1>2, <1>3 DEF HandleAllocateWork, MapsTypeOK, repositoryVars

\* A send by a worker keeps the types of the two queues it may write.
LEMMA SendToControllerType ==
    ASSUME TypeOK, NEW w \in Workers, NEW m \in WorkerMessage,
           SendToController(w, m)
    PROVE  /\ workersSocket' \in [Workers -> Seq(WorkerMessage)]
           /\ workerUnsent' \in [Workers -> Seq(WorkerMessage)]
<1>1. /\ workersSocket \in [Workers -> Seq(WorkerMessage)]
      /\ workerUnsent \in [Workers -> Seq(WorkerMessage)]
  BY DEF TypeOK, NetworkTypeOK
<1>2. /\ [workersSocket EXCEPT ![w] = Append(@, m)]
            \in [Workers -> Seq(WorkerMessage)]
      /\ [workerUnsent EXCEPT ![w] = Append(@, m)]
            \in [Workers -> Seq(WorkerMessage)]
  BY <1>1, AppendAtType
<1> QED
  BY <1>1, <1>2 DEF SendToController

\* The controller's end of a connection keeps its type when it is lost.
LEMMA LoseFromWorkerType ==
    ASSUME TypeOK, NEW w \in Workers, LoseFromWorker(w)
    PROVE  workersSocket' \in [Workers -> Seq(WorkerMessage)]
<1> USE DEF TypeOK, NetworkTypeOK
<1>1. CASE linkUp[w]
  <2>1. PICK n \in 0..Len(workersSocket[w]) :
          workersSocket' = [workersSocket EXCEPT
            ![w] = Append(SubSeq(@, 1, n), WORKER_LEAVE)]
    BY <1>1 DEF LoseFromWorker
  <2>2. SubSeq(workersSocket[w], 1, n) \in Seq(WorkerMessage)
    BY PrefixType
  <2>3. Append(SubSeq(workersSocket[w], 1, n), WORKER_LEAVE)
          \in Seq(WorkerMessage)
    BY <2>2, WorkerMessageType
  <2> QED
    BY <2>1, <2>3
<1>2. CASE ~linkUp[w]
  BY <1>2 DEF LoseFromWorker
<1> QED
  BY <1>1, <1>2

\* The end of a worker's process keeps all types it touches.
LEMMA ExitType ==
    ASSUME TypeOK, NEW w \in Workers, Exit(w)
    PROVE  /\ NetworkTypeOK'
           /\ processUp' \in [Workers -> BOOLEAN]
           /\ workerThread' \in [Workers -> Thread \cup {NoThread}]
<1>1. workersSocket' \in [Workers -> Seq(WorkerMessage)]
  BY LoseFromWorkerType DEF Exit, DropProcess
<1>2. /\ workerSocket' \in [Workers -> Seq(ControllerMessage)]
      /\ workerUnsent' \in [Workers -> Seq(WorkerMessage)]
  <2>1. << >> \in Seq(ControllerMessage) /\ << >> \in Seq(WorkerMessage)
    OBVIOUS
  <2> QED
    BY <2>1 DEF Exit, DropProcess, TypeOK, NetworkTypeOK
<1>3. linkUp' \in [Workers -> BOOLEAN] /\ processUp' \in [Workers -> BOOLEAN]
  BY DEF Exit, DropProcess, TypeOK, NetworkTypeOK, WorkerTypeOK
<1>4. workerThread' \in [Workers -> Thread \cup {NoThread}]
  BY DEF Exit, TypeOK, WorkerTypeOK
<1>5. islandsSocket' \in [Islands -> Seq(Work)]
      /\ dealerSocket' \in [Islands -> Seq(Work)]
  BY DEF Exit, DropProcess, TypeOK, NetworkTypeOK
<1> QED
  BY <1>1, <1>2, <1>3, <1>4, <1>5 DEF NetworkTypeOK

\* Moving a thread to another phase keeps its type.
LEMMA SetPhaseType ==
    ASSUME TypeOK, NEW w \in Workers,
           NEW p \in {"dll", "evolve", "done"},
           workerThread[w].phase \in {"load", "dll", "evolve", "done"},
           SetPhase(w, p)
    PROVE  workerThread' \in [Workers -> Thread \cup {NoThread}]
<1>1. workerThread[w] \in Thread
  BY DEF TypeOK, WorkerTypeOK, NoThread
<1>2. [workerThread[w] EXCEPT !.phase = p] \in Thread
  BY <1>1 DEF Thread
<1> QED
  BY <1>2 DEF SetPhase, TypeOK, WorkerTypeOK

\* The worker's message loop and its thread keep all types.
LEMMA WorkerRunsType ==
    ASSUME TypeOK, NEW w \in Workers, WorkerRuns(w)
    PROVE  TypeOK'
<1> USE DEF TypeOK, NetworkTypeOK, WorkerTypeOK
<1>0. /\ ControllerTypeOK' /\ IslandTypeOK'
      /\ crashes' \in 0..MaxCrashes /\ drops' \in 0..MaxDrops
  BY DEF WorkerRuns, ControllerTypeOK, IslandTypeOK,
         controllerVars, islandVars, faultVars
<1>1. ASSUME NEW t, HasFromController(w, t), TakeFromController(w)
      PROVE  /\ workerSocket' \in [Workers -> Seq(ControllerMessage)]
             /\ Head(workerSocket[w]) \in ControllerMessage
             /\ Head(workerSocket[w]).type = t
  BY <1>1, TailAtType DEF HasFromController, TakeFromController
<1>2. CASE StartWorkerThread(w)
  <2>1. /\ workerSocket' \in [Workers -> Seq(ControllerMessage)]
        /\ Head(workerSocket[w]).work \in Work
    BY <1>1, <1>2, ControllerMessageType DEF StartWorkerThread
  <2>2. [phase |-> "load", work |-> Head(workerSocket[w]).work] \in Thread
    BY <2>1 DEF Thread
  <2> QED
    BY <1>0, <1>2, <2>1, <2>2 DEF StartWorkerThread
<1>3. CASE StartOverRunningThread(w)
  <2>1. /\ NetworkTypeOK'
        /\ processUp' \in [Workers -> BOOLEAN]
        /\ workerThread' \in [Workers -> Thread \cup {NoThread}]
    BY <1>3, ExitType DEF StartOverRunningThread
  <2>2. terminated' \in [Workers -> BOOLEAN]
    BY <1>3 DEF StartOverRunningThread
  <2> QED
    BY <1>0, <2>1, <2>2
<1>4. CASE HandleDllBinary(w)
  <2>1. workerSocket' \in [Workers -> Seq(ControllerMessage)]
    BY <1>1, <1>4 DEF HandleDllBinary
  <2>2. workerThread' \in [Workers -> Thread \cup {NoThread}]
    BY <1>4, SetPhaseType DEF HandleDllBinary
  <2> QED
    BY <1>0, <1>4, <2>1, <2>2 DEF HandleDllBinary
<1>5. CASE LoadWork(w)
  <2>1. workerThread' \in [Workers -> Thread \cup {NoThread}]
    BY <1>5, SetPhaseType DEF LoadWork
  <2> QED
    BY <1>0, <1>5, <2>1 DEF LoadWork, networkVars
<1>6. CASE RequestDll(w)
  <2>1. workerThread' \in [Workers -> Thread \cup {NoThread}]
    BY <1>6, SetPhaseType DEF RequestDll
  <2>2. /\ workersSocket' \in [Workers -> Seq(WorkerMessage)]
        /\ workerUnsent' \in [Workers -> Seq(WorkerMessage)]
    BY <1>6, WorkerMessageType, SendToControllerType DEF RequestDll
  <2> QED
    BY <1>0, <1>6, <2>1, <2>2 DEF RequestDll
<1>7. CASE Evolve(w)
  <2>1. workerThread' \in [Workers -> Thread \cup {NoThread}]
    BY <1>7, SetPhaseType DEF Evolve
  <2> QED
    BY <1>0, <1>7, <2>1 DEF Evolve, networkVars
<1>8. CASE HandleThreadResults(w)
  <2>1. workerThread[w].work \in Work
    BY <1>8 DEF HandleThreadResults, Thread, NoThread
  <2>2. /\ workersSocket' \in [Workers -> Seq(WorkerMessage)]
        /\ workerUnsent' \in [Workers -> Seq(WorkerMessage)]
    BY <1>8, <2>1, WorkerMessageType, SendToControllerType
    DEF HandleThreadResults
  <2> QED
    BY <1>0, <1>8, <2>2 DEF HandleThreadResults
<1> QED
  BY <1>2, <1>3, <1>4, <1>5, <1>6, <1>7, <1>8 DEF WorkerRuns

\* Starting, connecting and losing a worker keeps all types.
LEMMA WorkerFaultsType ==
    ASSUME TypeOK, NEW w \in Workers,
           WorkerConnects(w) \/ WorkerStarts(w) \/ WorkerDies(w) \/ LinkBreaks(w)
    PROVE  TypeOK'
<1> USE DEF TypeOK, NetworkTypeOK, WorkerTypeOK
<1>0. /\ ControllerTypeOK' /\ IslandTypeOK'
      /\ crashes' \in 0..MaxCrashes /\ drops' \in 0..MaxDrops
  BY FaultAssumption
  DEF WorkerConnects, WorkerStarts, WorkerDies, LinkBreaks, ControllerTypeOK,
      IslandTypeOK, controllerVars, islandVars, faultVars
<1>1. CASE WorkerConnects(w)
  <2>1. <<WORKER_JOIN>> \in Seq(WorkerMessage) /\ << >> \in Seq(WorkerMessage)
    BY WorkerMessageType
  <2>2. <<WORKER_JOIN>> \o workerUnsent[w] \in Seq(WorkerMessage)
    BY <2>1
  <2> QED
    BY <1>0, <1>1, <2>1, <2>2
    DEF WorkerConnects, WorkerConnect, Connect, workerVars
<1>2. CASE WorkerStarts(w)
  BY <1>0, <1>2 DEF WorkerStarts, StartWorker, networkVars
<1>3. CASE WorkerDies(w)
  <2>1. Exit(w) /\ UNCHANGED terminated
    BY <1>3 DEF WorkerDies, CrashWorker, WorkerThreadFails
  <2> QED
    BY <1>0, <2>1, ExitType
<1>4. CASE LinkBreaks(w)
  <2>1. DropLink(w) /\ UNCHANGED workerVars
    BY <1>4 DEF LinkBreaks
  <2>2. workersSocket' \in [Workers -> Seq(WorkerMessage)]
    BY <2>1, LoseFromWorkerType DEF DropLink
  <2>3. PICK n \in 0..Len(workerSocket[w]) :
          workerSocket' = [workerSocket EXCEPT ![w] = SubSeq(@, 1, n)]
    BY <2>1 DEF DropLink
  <2>4. SubSeq(workerSocket[w], 1, n) \in Seq(ControllerMessage)
    BY PrefixType
  <2> QED
    BY <1>0, <2>1, <2>2, <2>3, <2>4 DEF DropLink, workerVars
<1> QED
  BY <1>1, <1>2, <1>3, <1>4

\* An island's call keeps all types; its cycle count stays in range because a
\* call is only accepted while it is being made.
LEMMA IslandType ==
    ASSUME TypeOK, \A i \in Islands : evolving[i] => cycle[i] < MaxCycles,
           NEW i \in Islands, IslandSends(i) \/ IslandReceives(i)
    PROVE  TypeOK'
<1> USE DEF TypeOK, NetworkTypeOK, IslandTypeOK
<1>0. /\ ControllerTypeOK' /\ WorkerTypeOK'
      /\ crashes' \in 0..MaxCrashes /\ drops' \in 0..MaxDrops
  BY DEF IslandSends, IslandReceives, ControllerTypeOK, WorkerTypeOK,
         controllerVars, workerVars, faultVars
<1>1. CASE IslandSends(i)
  <2>1. SendWork(i)
    BY <1>1 DEF IslandSends
  <2>2. PICK p \in Workers \cup {NoWorker} :
          islandsSocket' = [islandsSocket EXCEPT ![i] =
            Append(@, [island |-> i, cycle |-> cycle[i] + 1,
                       preferredWorkerId |-> p])]
    BY <2>1 DEF SendWork
  <2>3. [island |-> i, cycle |-> cycle[i] + 1, preferredWorkerId |-> p] \in Work
    BY <2>1, NetworkAssumption DEF SendWork, Work
  <2>4. islandsSocket' \in [Islands -> Seq(Work)]
    BY <2>2, <2>3, AppendAtType
  <2> QED
    BY <1>0, <2>1, <2>4 DEF SendWork
<1>2. CASE IslandReceives(i)
  <2>1. ReceiveResults(i)
    BY <1>2 DEF IslandReceives
  <2>2. /\ dealerSocket' \in [Islands -> Seq(Work)]
        /\ Head(dealerSocket[i]) \in Work
    BY <2>1, TailAtType DEF ReceiveResults
  <2>3. cycle' \in [Islands -> 0..MaxCycles]
    <3>1. cycle[i] + 1 \in 0..MaxCycles
      BY <2>1, NetworkAssumption DEF ReceiveResults
    <3> QED
      BY <2>1, <3>1 DEF ReceiveResults
  <2> QED
    BY <1>0, <2>1, <2>2, <2>3 DEF ReceiveResults
<1> QED
  BY <1>1, <1>2

\* A new controller process keeps all types.
LEMMA RestartType ==
    ASSUME TypeOK, \A i \in Islands : evolving[i] => cycle[i] < MaxCycles,
           ControllerRestarts
    PROVE  TypeOK'
<1> USE DEF TypeOK, NetworkTypeOK
<1>1. WorkerTypeOK' /\ crashes' \in 0..MaxCrashes /\ drops' \in 0..MaxDrops
  BY FaultAssumption DEF ControllerRestarts, WorkerTypeOK, workerVars
<1>2. ControllerTypeOK'
  BY DEF ControllerRestarts, RestartController, ControllerTypeOK
<1>3. IslandTypeOK'
  <2>1. \A i \in Islands :
          cycle[i] + (IF evolving[i] THEN 1 ELSE 0) \in 0..MaxCycles
    BY NetworkAssumption DEF IslandTypeOK
  <2> QED
    BY <2>1 DEF ControllerRestarts, RestartIslands, IslandTypeOK
<1>4. workerSocket' \in [Workers -> Seq(ControllerMessage)]
  <2>1. PICK kept \in [Workers ->
                        UNION {Prefixes(workerSocket[w]) : w \in Workers}] :
          /\ \A w \in Workers : kept[w] \in Prefixes(workerSocket[w])
          /\ workerSocket' = kept
    BY DEF ControllerRestarts, DropController
  <2>2. ASSUME NEW w \in Workers PROVE kept[w] \in Seq(ControllerMessage)
    <3>1. PICK n \in 0..Len(workerSocket[w]) :
            kept[w] = SubSeq(workerSocket[w], 1, n)
      BY <2>1 DEF Prefixes
    <3> QED
      BY <3>1, PrefixType
  <2> QED
    BY <2>1, <2>2
<1>5. << >> \in Seq(WorkerMessage) /\ << >> \in Seq(Work)
  OBVIOUS
<1> QED
  BY <1>1, <1>2, <1>3, <1>4, <1>5 DEF ControllerRestarts, DropController

\* What keeps an island's cycle count in range.
CallsInRange == \A i \in Islands : evolving[i] => cycle[i] < MaxCycles

\* Type correctness of the composed system.
THEOREM TypeCorrect == Spec => []TypeOK
<1>1. Init => TypeOK /\ CallsInRange
  <2> SUFFICES ASSUME Init PROVE TypeOK /\ CallsInRange
    OBVIOUS
  <2>1. << >> \in Seq(WorkerMessage) /\ << >> \in Seq(ControllerMessage)
        /\ << >> \in Seq(Work)
    OBVIOUS
  <2>2. NetworkTypeOK
    BY <2>1 DEF Init, NetworkInit, NetworkTypeOK
  <2>3. ControllerTypeOK /\ WorkerTypeOK
    BY DEF Init, ControllerInit, ControllerTypeOK, WorkerInit, WorkerTypeOK
  <2>4. IslandTypeOK /\ CallsInRange
    BY NetworkAssumption DEF Init, IslandInit, IslandTypeOK, CallsInRange
  <2> QED
    BY <2>2, <2>3, <2>4, FaultAssumption DEF Init, TypeOK
<1>2. TypeOK /\ CallsInRange /\ [Next]_vars => TypeOK'
  <2> SUFFICES ASSUME TypeOK, CallsInRange, [Next]_vars PROVE TypeOK'
    OBVIOUS
  <2>1. CASE UNCHANGED vars
    BY <2>1 DEF vars, networkVars, controllerVars, workerVars, islandVars,
                faultVars, TypeOK, NetworkTypeOK, ControllerTypeOK,
                WorkerTypeOK, IslandTypeOK
  <2>2. CASE Next /\ ~UNCHANGED vars
    BY <2>2, ControllerWorkerType, ControllerIslandType, WorkerRunsType,
       WorkerFaultsType, RestartType, IslandType
    DEF Next, Finished, CallsInRange
  <2> QED
    BY <2>1, <2>2
<1>3. TypeOK /\ CallsInRange /\ [Next]_vars => CallsInRange'
  <2> SUFFICES ASSUME TypeOK, CallsInRange, [Next]_vars PROVE CallsInRange'
    OBVIOUS
  <2>1. CASE UNCHANGED <<evolving, cycle>>
    BY <2>1 DEF CallsInRange
  <2>2. ASSUME NEW i \in Islands, IslandSends(i) PROVE CallsInRange'
    BY <2>2 DEF IslandSends, SendWork, CallsInRange, TypeOK, IslandTypeOK
  <2>3. ASSUME NEW i \in Islands, IslandReceives(i) PROVE CallsInRange'
    BY <2>3 DEF IslandReceives, ReceiveResults, CallsInRange, TypeOK,
                IslandTypeOK
  <2>4. CASE ControllerRestarts
    BY <2>4, NetworkAssumption
    DEF ControllerRestarts, RestartIslands, CallsInRange
  <2> QED
    BY <2>1, <2>2, <2>3, <2>4
    DEF Next, vars, islandVars, Finished, ControllerHandlesWorker,
        ControllerHandlesIsland, WorkerRuns, WorkerConnects, WorkerStarts,
        WorkerDies, LinkBreaks
<1> QED
  BY <1>1, <1>2, <1>3, PTL DEF Spec

-----------------------------------------------------------------------------
\* _allocate_island_work() leaves no island waiting while a worker is free.
LEMMA AllocateIslandConserves ==
    ASSUME NEW pool, NEW alloc, NEW waiting, NEW records, NEW work,
           WaitingIslands(waiting) # {} => pool = {},
           AllocateIslandWork(pool, alloc, waiting, records, work)
    PROVE  WorkConservation'
<1>1. CASE pool = {}
  BY <1>1 DEF AllocateIslandWork, SetMaps, WorkConservation
<1>2. CASE pool # {}
  BY <1>2 DEF AllocateIslandWork, AllocateWorkerToIsland, SetMaps,
              WorkConservation, WaitingIslands
<1> QED
  BY <1>1, <1>2

\* Nor does _add_free_worker().
LEMMA AddFreeWorkerConserves ==
    ASSUME NEW pool, NEW alloc, NEW waiting, NEW records, NEW w,
           WaitingIslands(waiting) # {} => pool = {},
           AddFreeWorker(pool, alloc, waiting, records, w)
    PROVE  WorkConservation'
<1>1. CASE WaitingIslands(waiting) = {}
  BY <1>1 DEF AddFreeWorker, SetMaps, WorkConservation, WaitingIslands
<1>2. CASE WaitingIslands(waiting) # {}
  <2>1. PICK i \in WaitingIslands(waiting) :
          AllocateWorkerToIsland({w}, alloc,
            [waiting EXCEPT ![i] = NoWork], records, waiting[i])
    BY <1>2 DEF AddFreeWorker
  <2>2. freeWorkersPool' = {}
    BY <2>1 DEF AllocateWorkerToIsland, SelectableWorkers, SetMaps
  <2> QED
    BY <2>2 DEF WorkConservation
<1> QED
  BY <1>1, <1>2

\* The controller is work conserving: no worker is free while an island waits,
\* whatever workers join, leave, crash, reconnect or send.
THEOREM WorkIsConserved == Spec => []WorkConservation
<1>1. Init => WorkConservation
  BY DEF Init, ControllerInit, WorkConservation
<1>2. WorkConservation /\ [Next]_vars => WorkConservation'
  <2> SUFFICES ASSUME WorkConservation, [Next]_vars PROVE WorkConservation'
    OBVIOUS
  <2>0. CASE UNCHANGED <<freeWorkersPool, islandsWaitingForAlloc>>
    BY <2>0 DEF WorkConservation, WaitingIslands
  <2>1. ASSUME NEW w \in Workers, HandleWorkerJoin(w) PROVE WorkConservation'
    <3>1. CASE w \in freeWorkersPool
      BY <2>0, <2>1, <3>1 DEF HandleWorkerJoin, worker_joined, controllerVars
    <3>2. CASE w \notin freeWorkersPool
      BY <2>1, <3>2, AddFreeWorkerConserves
      DEF HandleWorkerJoin, worker_joined, WorkConservation
    <3> QED
      BY <3>1, <3>2
  <2>2. ASSUME NEW w \in Workers, HandleWorkerLeave(w) PROVE WorkConservation'
    <3>1. CASE workAllocationMap[w] = NoWork
      BY <2>2, <3>1
      DEF HandleWorkerLeave, worker_left, SetMaps, WorkConservation, WaitingIslands
    <3>2. CASE workAllocationMap[w] # NoWork
      <4>1. AllocateIslandWork(freeWorkersPool \ {w},
               [workAllocationMap EXCEPT ![w] = NoWork],
               islandsWaitingForAlloc, workerRecords, workAllocationMap[w])
        BY <2>2, <3>2 DEF HandleWorkerLeave, worker_left
      <4>2. WaitingIslands(islandsWaitingForAlloc) # {}
              => freeWorkersPool \ {w} = {}
        BY DEF WorkConservation
      <4> QED
        BY <4>1, <4>2, AllocateIslandConserves
    <3> QED
      BY <3>1, <3>2
  <2>3. ASSUME NEW w \in Workers, HandleWorkResults(w) PROVE WorkConservation'
    <3>1. CASE w \notin workerRecords \/ workAllocationMap[w] = NoWork
      BY <2>0, <2>3, <3>1 DEF HandleWorkResults, worker_finished_work_throws
    <3>2. CASE ~(w \notin workerRecords \/ workAllocationMap[w] = NoWork)
      BY <2>3, <3>2, AddFreeWorkerConserves
      DEF HandleWorkResults, worker_finished_work_throws, WorkConservation
    <3> QED
      BY <3>1, <3>2
  <2>4. ASSUME NEW i \in Islands, HandleAllocateWork(i) PROVE WorkConservation'
    BY <2>4, AllocateIslandConserves DEF HandleAllocateWork, WorkConservation
  <2>5. CASE ControllerRestarts
    BY <2>5 DEF ControllerRestarts, RestartController, WorkConservation
  <2> QED
    BY <2>0, <2>1, <2>2, <2>3, <2>4, <2>5
    DEF Next, ControllerHandlesWorker, ControllerHandlesIsland, HandleGetDll,
        WorkerRuns, WorkerConnects, WorkerStarts, WorkerDies, LinkBreaks,
        IslandSends, IslandReceives, Finished, vars, controllerVars
<1> QED
  BY <1>1, <1>2, PTL DEF Spec

-----------------------------------------------------------------------------
\* Every message shows its type, and the two that carry work show it.
LEMMA MessageTypes ==
    /\ WORKER_JOIN.type = "WORKER_JOIN"
    /\ WORKER_LEAVE.type = "WORKER_LEAVE"
    /\ GET_DLL.type = "GET_DLL"
    /\ DLL_BINARY.type = "DLL_BINARY"
    /\ \A k : /\ ALLOCATE_WORK(k).type = "ALLOCATE_WORK"
              /\ ALLOCATE_WORK(k).work = k
              /\ WORK_RESULTS(k).type = "WORK_RESULTS"
              /\ WORK_RESULTS(k).work = k
BY DEF WORKER_JOIN, WORKER_LEAVE, GET_DLL, DLL_BINARY, ALLOCATE_WORK,
       WORK_RESULTS

\* Receiving from, and sending on, channels of at most two messages.
LEMMA ShortChannels ==
    /\ \A a : /\ <<a>> # << >> /\ Head(<<a>>) = a /\ Tail(<<a>>) = << >>
              /\ Append(<< >>, a) = <<a>>
    /\ \A a, b : <<a, b>> # << >> /\ Head(<<a, b>>) = a /\ Tail(<<a, b>>) = <<b>>
OBVIOUS

(***************************************************************************)
(* How each step moves one worker's session.                               *)
(***************************************************************************)

\* The controller reads WORKER_JOIN: the worker was unknown, and is free.
LEMMA SessionJoin ==
    ASSUME TypeOK, SessionsInStep, NEW w \in Workers,
           HasFromWorker(w, "WORKER_JOIN")
    PROVE  /\ w \notin freeWorkersPool /\ workAllocationMap[w] = NoWork
           /\ SessionState(linkUp[w], Tail(workersSocket[w]), workerSocket[w],
                           workerThread[w], workerUnsent[w], TRUE, NoWork)
<1> DEFINE link == linkUp[w]
           S == workersSocket[w]
           R == workerSocket[w]
           T == workerThread[w]
           unsent == workerUnsent[w]
           pool == freeWorkersPool
           work == workAllocationMap[w]
<1>0. /\ link \in BOOLEAN
      /\ SessionState(link, S, R, T, unsent, w \in pool, work)
      /\ S # << >> /\ Head(S).type = "WORKER_JOIN"
  BY DEF TypeOK, NetworkTypeOK, SessionsInStep, HasFromWorker
<1> SUFFICES /\ w \notin pool /\ work = NoWork
             /\ SessionState(link, Tail(S), R, T, unsent, TRUE, NoWork)
  OBVIOUS
<1> HIDE DEF link, S, R, T, unsent, pool, work
<1>1. CASE link
  <2>1. ~Busy(S, R, T, unsent, w \in pool, work)
    BY <1>0, MessageTypes, ShortChannels DEF Busy
  <2>2. Unallocated(S, R, T, unsent, w \in pool, work)
    BY <1>0, <1>1, <2>1 DEF SessionState
  <2>3. S = <<WORKER_JOIN>> /\ w \notin pool
    BY <1>0, <2>2 DEF Unallocated
  <2>4. Unallocated(Tail(S), R, T, unsent, TRUE, NoWork)
    BY <2>2, <2>3, ShortChannels DEF Unallocated
  <2> QED
    BY <1>1, <2>2, <2>3, <2>4 DEF SessionState, Unallocated
<1>2. CASE ~link
  <2>1. Away(S, R, T, unsent, w \in pool, work)
    BY <1>0, <1>2 DEF SessionState
  <2>2. /\ Silent(R, T, unsent) /\ w \notin pool /\ work = NoWork
        /\ S = <<WORKER_JOIN, WORKER_LEAVE>>
    BY <1>0, <2>1, MessageTypes, ShortChannels DEF Away
  <2>3. Away(Tail(S), R, T, unsent, TRUE, NoWork)
    BY <2>2, ShortChannels DEF Away
  <2> QED
    BY <1>2, <2>2, <2>3 DEF SessionState
<1> QED
  BY <1>0, <1>1, <1>2

\* The controller reads WORKER_LEAVE: nothing is left of the connection.
LEMMA SessionLeave ==
    ASSUME NEW link \in BOOLEAN, NEW S, NEW R, NEW T, NEW unsent,
           NEW w, NEW pool, NEW work \in Work \cup {NoWork},
           SessionState(link, S, R, T, unsent, w \in pool, work),
           S # << >>, Head(S).type = "WORKER_LEAVE"
    PROVE  SessionState(link, Tail(S), R, T, unsent, FALSE, NoWork)
<1>1. ~link
  BY MessageTypes, ShortChannels DEF SessionState, Unallocated, Busy
<1>2. Away(S, R, T, unsent, w \in pool, work)
  BY <1>1 DEF SessionState
<1>3. Silent(R, T, unsent) /\ S = <<WORKER_LEAVE>>
  BY <1>2, MessageTypes, ShortChannels DEF Away
<1>4. Away(Tail(S), R, T, unsent, FALSE, NoWork)
  BY <1>3, ShortChannels DEF Away
<1> QED
  BY <1>1, <1>4 DEF SessionState

\* The controller reads WORK_RESULTS: they are of the work it has allocated.
LEMMA SessionResults ==
    ASSUME TypeOK, SessionsInStep, NEW w \in Workers,
           HasFromWorker(w, "WORK_RESULTS")
    PROVE  /\ w \notin freeWorkersPool /\ workAllocationMap[w] # NoWork
           /\ Head(workersSocket[w]).work = workAllocationMap[w]
           /\ SessionState(linkUp[w], Tail(workersSocket[w]), workerSocket[w],
                           workerThread[w], workerUnsent[w], TRUE, NoWork)
<1> DEFINE link == linkUp[w]
           S == workersSocket[w]
           R == workerSocket[w]
           T == workerThread[w]
           unsent == workerUnsent[w]
           pool == freeWorkersPool
           work == workAllocationMap[w]
<1>0. /\ link \in BOOLEAN
      /\ SessionState(link, S, R, T, unsent, w \in pool, work)
      /\ S # << >> /\ Head(S).type = "WORK_RESULTS"
  BY DEF TypeOK, NetworkTypeOK, SessionsInStep, HasFromWorker
<1> SUFFICES /\ w \notin pool /\ work # NoWork
             /\ Head(S).work = work
             /\ SessionState(link, Tail(S), R, T, unsent, TRUE, NoWork)
  OBVIOUS
<1> HIDE DEF link, S, R, T, unsent, pool, work
<1>1. CASE link
  <2>1. ~Unallocated(S, R, T, unsent, w \in pool, work)
    BY <1>0, MessageTypes, ShortChannels DEF Unallocated
  <2>2. Busy(S, R, T, unsent, w \in pool, work)
    BY <1>0, <1>1, <2>1 DEF SessionState
  <2>3. /\ w \notin pool /\ work # NoWork
        /\ S = <<WORK_RESULTS(work)>> /\ Silent(R, T, unsent)
    BY <1>0, <2>2, MessageTypes, ShortChannels DEF Busy, Silent
  <2>4. Unallocated(Tail(S), R, T, unsent, TRUE, NoWork)
    BY <2>3, ShortChannels DEF Unallocated
  <2> QED
    BY <1>1, <2>3, <2>4, MessageTypes, ShortChannels DEF SessionState
<1>2. CASE ~link
  <2>1. Away(S, R, T, unsent, w \in pool, work)
    BY <1>0, <1>2 DEF SessionState
  <2>2. /\ Silent(R, T, unsent) /\ w \notin pool /\ work # NoWork
        /\ S = <<WORK_RESULTS(work), WORKER_LEAVE>>
    <3>1. /\ S # <<WORKER_JOIN, WORKER_LEAVE>>
          /\ S # <<WORKER_LEAVE>>
          /\ S # <<GET_DLL, WORKER_LEAVE>>
      BY <1>0, MessageTypes, ShortChannels
    <3> QED
      BY <1>0, <2>1, <3>1 DEF Away
  <2>3. Away(Tail(S), R, T, unsent, TRUE, NoWork)
    BY <2>2, ShortChannels DEF Away
  <2>4. Head(S).work = work
    BY <1>0, <2>2, MessageTypes, ShortChannels
  <2> QED
    BY <1>2, <2>2, <2>3, <2>4 DEF SessionState
<1> QED
  BY <1>0, <1>1, <1>2

\* The controller reads GET_DLL and answers it.
LEMMA SessionGetDll ==
    ASSUME NEW link \in BOOLEAN, NEW S, NEW R, NEW T, NEW unsent,
           NEW w, NEW pool, NEW work \in Work \cup {NoWork},
           SessionState(link, S, R, T, unsent, w \in pool, work),
           S # << >>, Head(S).type = "GET_DLL"
    PROVE  SessionState(link, Tail(S),
                        IF link THEN Append(R, DLL_BINARY) ELSE R,
                        T, unsent, w \in pool, work)
<1>1. CASE link
  <2>1. ~Unallocated(S, R, T, unsent, w \in pool, work)
    BY MessageTypes, ShortChannels DEF Unallocated
  <2>2. Busy(S, R, T, unsent, w \in pool, work)
    BY <1>1, <2>1 DEF SessionState
  <2>3. /\ w \notin pool /\ work # NoWork /\ unsent = << >>
        /\ S = <<GET_DLL>> /\ R = << >> /\ T.work = work /\ T.phase = "dll"
    BY <2>2, MessageTypes, ShortChannels DEF Busy
  <2>4. Busy(Tail(S), Append(R, DLL_BINARY), T, unsent, w \in pool, work)
    BY <2>3, ShortChannels DEF Busy
  <2> QED
    BY <1>1, <2>4 DEF SessionState
<1>2. CASE ~link
  <2>1. Away(S, R, T, unsent, w \in pool, work)
    BY <1>2 DEF SessionState
  <2>2. /\ Silent(R, T, unsent) /\ w \notin pool /\ work # NoWork
        /\ S = <<GET_DLL, WORKER_LEAVE>>
    BY <2>1, MessageTypes, ShortChannels DEF Away
  <2>3. Away(Tail(S), R, T, unsent, w \in pool, work)
    BY <2>2, ShortChannels DEF Away
  <2> QED
    BY <1>2, <2>3 DEF SessionState
<1> QED
  BY <1>1, <1>2

\* The controller allocates work to a free worker.
LEMMA SessionAllocate ==
    ASSUME NEW link \in BOOLEAN, NEW S, NEW R, NEW T, NEW unsent,
           NEW work \in Work \cup {NoWork}, NEW new \in Work,
           SessionState(link, S, R, T, unsent, TRUE, work)
    PROVE  /\ work = NoWork
           /\ SessionState(link, S,
                           IF link THEN Append(R, ALLOCATE_WORK(new)) ELSE R,
                           T, unsent, FALSE, new)
BY NoWorkAssumption, MessageTypes, ShortChannels
DEF SessionState, Away, Unallocated, Busy, Silent

\* The worker starts the thread that its allocation asks for.
LEMMA SessionStart ==
    ASSUME NEW link \in BOOLEAN, NEW S, NEW R, NEW T, NEW unsent,
           NEW w, NEW pool, NEW work \in Work \cup {NoWork},
           SessionState(link, S, R, T, unsent, w \in pool, work),
           R # << >>, Head(R).type = "ALLOCATE_WORK"
    PROVE  /\ T = NoThread
           /\ SessionState(link, S, Tail(R),
                           [phase |-> "load", work |-> Head(R).work],
                           unsent, w \in pool, work)
<1>1. link /\ Busy(S, R, T, unsent, w \in pool, work)
  BY DEF SessionState, Away, Unallocated, Silent
<1>2. /\ w \notin pool /\ work # NoWork /\ unsent = << >>
      /\ S = << >> /\ R = <<ALLOCATE_WORK(work)>> /\ T = NoThread
  BY <1>1, MessageTypes, ShortChannels DEF Busy
<1>3. Busy(S, Tail(R), [phase |-> "load", work |-> Head(R).work],
           unsent, w \in pool, work)
  BY <1>2, MessageTypes, ShortChannels DEF Busy
<1> QED
  BY <1>1, <1>2, <1>3 DEF SessionState

\* The worker forwards the library to the thread that waits for it.
LEMMA SessionDll ==
    ASSUME NEW link \in BOOLEAN, NEW S, NEW R, NEW T, NEW unsent,
           NEW w, NEW pool, NEW work \in Work \cup {NoWork},
           SessionState(link, S, R, T, unsent, w \in pool, work),
           R # << >>, Head(R).type = "DLL_BINARY"
    PROVE  /\ T.phase = "dll"
           /\ \A U : U.work = T.work /\ U.phase = "evolve"
                => SessionState(link, S, Tail(R), U, unsent, w \in pool, work)
<1>1. link /\ Busy(S, R, T, unsent, w \in pool, work)
  BY DEF SessionState, Away, Unallocated, Silent
<1>2. /\ w \notin pool /\ work # NoWork /\ unsent = << >>
      /\ S = << >> /\ R = <<DLL_BINARY>> /\ T.work = work /\ T.phase = "dll"
  BY <1>1, MessageTypes, ShortChannels DEF Busy
<1>3. ASSUME NEW U, U.work = T.work, U.phase = "evolve"
      PROVE  SessionState(link, S, Tail(R), U, unsent, w \in pool, work)
  <2>1. Busy(S, Tail(R), U, unsent, w \in pool, work)
    BY <1>2, <1>3, ShortChannels DEF Busy
  <2> QED
    BY <1>1, <2>1 DEF SessionState
<1> QED
  BY <1>2, <1>3

\* The thread moves on, with or without asking for the library.
LEMMA SessionThread ==
    ASSUME NEW link \in BOOLEAN, NEW S, NEW R, NEW T, NEW unsent,
           NEW w, NEW pool, NEW work \in Work \cup {NoWork},
           SessionState(link, S, R, T, unsent, w \in pool, work),
           T.phase \in {"load", "evolve", "done"}
    PROVE  /\ link /\ w \notin pool /\ work # NoWork /\ T.work = work
           /\ S = << >> /\ R = << >> /\ unsent = << >>
           /\ \A U : U.work = work /\ U.phase \in {"evolve", "done"}
                => SessionState(link, S, R, U, unsent, w \in pool, work)
           /\ \A U : U.work = work /\ U.phase = "dll"
                => SessionState(link, Append(S, GET_DLL), R, U, unsent,
                                w \in pool, work)
           /\ SessionState(link, Append(S, WORK_RESULTS(work)), R, NoThread,
                           unsent, w \in pool, work)
<1>0. T # NoThread
  BY DEF NoThread
<1>1. link /\ Busy(S, R, T, unsent, w \in pool, work)
  BY <1>0 DEF SessionState, Away, Unallocated, Silent
<1>2. /\ w \notin pool /\ work # NoWork /\ unsent = << >>
      /\ S = << >> /\ R = << >> /\ T.work = work
  BY <1>0, <1>1 DEF Busy
<1>3. ASSUME NEW U, U.work = work, U.phase \in {"evolve", "done"}
      PROVE  SessionState(link, S, R, U, unsent, w \in pool, work)
  <2>1. Busy(S, R, U, unsent, w \in pool, work)
    BY <1>2, <1>3 DEF Busy
  <2> QED
    BY <1>1, <2>1 DEF SessionState
<1>4. ASSUME NEW U, U.work = work, U.phase = "dll"
      PROVE  SessionState(link, Append(S, GET_DLL), R, U, unsent, w \in pool, work)
  <2>1. Busy(Append(S, GET_DLL), R, U, unsent, w \in pool, work)
    BY <1>2, <1>4, ShortChannels DEF Busy
  <2> QED
    BY <1>1, <2>1 DEF SessionState
<1>5. SessionState(link, Append(S, WORK_RESULTS(work)), R, NoThread, unsent,
                   w \in pool, work)
  <2>1. Busy(Append(S, WORK_RESULTS(work)), R, NoThread, unsent, w \in pool, work)
    BY <1>2, ShortChannels DEF Busy
  <2> QED
    BY <1>1, <2>1 DEF SessionState
<1> QED
  BY <1>1, <1>2, <1>3, <1>4, <1>5

\* The connection comes up: the hello message is all there is.
LEMMA SessionConnect ==
    ASSUME NEW R, NEW T, NEW unsent,
           NEW w, NEW pool, NEW work \in Work \cup {NoWork},
           SessionState(FALSE, << >>, R, T, unsent, w \in pool, work)
    PROVE  SessionState(TRUE, <<WORKER_JOIN>> \o unsent, R, T, << >>,
                        w \in pool, work)
<1>1. Away(<< >>, R, T, unsent, w \in pool, work)
  BY DEF SessionState
<1>2. Silent(R, T, unsent) /\ w \notin pool /\ work = NoWork
  BY <1>1, ShortChannels DEF Away
<1>3. <<WORKER_JOIN>> \o unsent = <<WORKER_JOIN>>
  BY <1>2 DEF Silent
<1>4. Unallocated(<<WORKER_JOIN>>, R, T, << >>, w \in pool, work)
  BY <1>2 DEF Unallocated, Silent
<1> QED
  BY <1>3, <1>4 DEF SessionState

\* What a lost connection leaves of at most one message, and WORKER_LEAVE.
LEMMA ShortPrefix ==
    /\ \A b : \A n \in 0..Len(<< >>) : Append(SubSeq(<< >>, 1, n), b) = <<b>>
    /\ \A a, b : \A n \in 0..Len(<<a>>) :
          Append(SubSeq(<<a>>, 1, n), b) \in {<<b>>, <<a, b>>}
<1>1. ASSUME NEW n \in 0..Len(<< >>), NEW b
      PROVE  Append(SubSeq(<< >>, 1, n), b) = <<b>>
  <2>1. SubSeq(<< >>, 1, n) = << >>
    OBVIOUS
  <2> QED
    BY <2>1, ShortChannels
<1>2. ASSUME NEW a, NEW b, NEW n \in 0..Len(<<a>>)
      PROVE  Append(SubSeq(<<a>>, 1, n), b) \in {<<b>>, <<a, b>>}
  <2>0. <<a>> \in Seq({a, b}) /\ Len(<<a>>) = 1
    OBVIOUS
  <2>1. CASE n = 0
    <3>1. SubSeq(<<a>>, 1, n) = << >>
      BY <2>0, <2>1
    <3> QED
      BY <3>1, ShortChannels
  <2>2. CASE n = 1
    <3>1. SubSeq(<<a>>, 1, n) = <<a>>
      <4>1. /\ SubSeq(<<a>>, 1, n) \in Seq({a, b})
            /\ Len(SubSeq(<<a>>, 1, n)) = 1
            /\ SubSeq(<<a>>, 1, n)[1] = a
        BY <2>0, <2>2
      <4>2. \A j \in 1..Len(SubSeq(<<a>>, 1, n)) :
              SubSeq(<<a>>, 1, n)[j] = <<a>>[j]
        BY <4>1
      <4> QED
        BY <2>0, <4>1, <4>2, SeqEqual
    <3>2. Append(<<a>>, b) = <<a, b>>
      <4>1. Append(<<a>>, b) \in Seq({a, b}) /\ <<a, b>> \in Seq({a, b})
        BY <2>0
      <4>2. Len(Append(<<a>>, b)) = 2 /\ Len(<<a, b>>) = 2
        BY <2>0
      <4>3. Append(<<a>>, b)[1] = a /\ Append(<<a>>, b)[2] = b
        BY <2>0
      <4>4. \A j \in 1..Len(Append(<<a>>, b)) : Append(<<a>>, b)[j] = <<a, b>>[j]
        BY <4>2, <4>3
      <4> QED
        BY <4>1, <4>2, <4>4, SeqEqual
    <3> QED
      BY <3>1, <3>2
  <2> QED
    BY <2>0, <2>1, <2>2
<1> QED
  BY <1>1, <1>2

\* The worker's process ends, at any moment of its session.
LEMMA SessionExit ==
    ASSUME NEW link \in BOOLEAN, NEW S, NEW R, NEW T, NEW unsent,
           NEW w, NEW pool, NEW work \in Work \cup {NoWork},
           SessionState(link, S, R, T, unsent, w \in pool, work),
           NEW L,
           IF link THEN \E n \in 0..Len(S) :
                          L = Append(SubSeq(S, 1, n), WORKER_LEAVE)
                   ELSE L = S
    PROVE  SessionState(FALSE, L, << >>, NoThread, << >>, w \in pool, work)
<1>1. Silent(<< >>, NoThread, << >>)
  BY DEF Silent
<1>2. CASE ~link
  BY <1>1, <1>2 DEF SessionState, Away
<1>3. CASE link
  <2>1. PICK n \in 0..Len(S) : L = Append(SubSeq(S, 1, n), WORKER_LEAVE)
    BY <1>3
  <2>2. CASE S = << >>
    <3>1. L = <<WORKER_LEAVE>>
      BY <2>1, <2>2, ShortPrefix
    <3>2. w \in pool => work = NoWork
      BY <1>3 DEF SessionState, Unallocated, Busy
    <3> QED
      BY <1>1, <3>1, <3>2 DEF SessionState, Away
  <2>3. CASE Unallocated(S, R, T, unsent, w \in pool, work) /\ S # << >>
    <3>1. S = <<WORKER_JOIN>> /\ w \notin pool /\ work = NoWork
      BY <2>3 DEF Unallocated
    <3>2. L \in {<<WORKER_LEAVE>>, <<WORKER_JOIN, WORKER_LEAVE>>}
      BY <2>1, <3>1, ShortPrefix
    <3> QED
      BY <1>1, <3>1, <3>2 DEF SessionState, Away
  <2>4. CASE Busy(S, R, T, unsent, w \in pool, work) /\ S # << >>
    <3>1. w \notin pool /\ work # NoWork /\ S \in {<<GET_DLL>>, <<WORK_RESULTS(work)>>}
      BY <2>4 DEF Busy
    <3>2. L \in {<<WORKER_LEAVE>>, <<GET_DLL, WORKER_LEAVE>>,
                 <<WORK_RESULTS(work), WORKER_LEAVE>>}
      <4>1. PICK a \in {GET_DLL, WORK_RESULTS(work)} : S = <<a>>
        BY <3>1
      <4>2. L \in {<<WORKER_LEAVE>>, <<a, WORKER_LEAVE>>}
        BY <2>1, <4>1, ShortPrefix
      <4> QED
        BY <4>2
    <3> QED
      BY <1>1, <3>1, <3>2 DEF SessionState, Away
  <2> QED
    BY <1>3, <2>2, <2>3, <2>4 DEF SessionState
<1> QED
  BY <1>2, <1>3

-----------------------------------------------------------------------------
(***************************************************************************)
(* The sessions in the middle of a handler: a message has been read from   *)
(* the socket, and pool and alloc are the maps as changed so far.          *)
(***************************************************************************)
Sessions(received, pool, alloc) ==
    \A x \in Workers :
        SessionState(linkUp[x], received[x], workerSocket[x], workerThread[x],
                     workerUnsent[x], x \in pool, alloc[x])

\* The workers in the maps have a record in the repository.
Recorded(pool, alloc, records) ==
    \A x \in Workers : x \in pool \/ alloc[x] # NoWork => x \in records

\* What holds after a handler.
HandlerDone(records) ==
    /\ SessionsInStep'
    /\ serverThread' = serverThread
    /\ Recorded(freeWorkersPool', workAllocationMap', records)

\* _allocate_worker_to_island() finds an idle worker, and does not throw.
LEMMA AllocateWorkerSession ==
    ASSUME TypeOK,
           NEW pool \in SUBSET Workers,
           NEW alloc \in [Workers -> Work \cup {NoWork}],
           NEW waiting, NEW records, NEW work \in Work,
           UNCHANGED <<linkUp, workerThread, workerUnsent>>,
           Sessions(workersSocket', pool, alloc),
           Recorded(pool, alloc, records),
           AllocateWorkerToIsland(pool, alloc, waiting, records, work)
    PROVE  HandlerDone(records)
<1>1. PICK v \in SelectableWorkers(pool, work) :
        /\ SetMaps(pool \ {v}, Emplace(alloc, v, work), waiting)
        /\ IF v \in records
           THEN SendToWorker(v, ALLOCATE_WORK(work)) /\ UNCHANGED serverThread
           ELSE serverThread' = "dead" /\ UNCHANGED workerSocket
  BY DEF AllocateWorkerToIsland, worker_started_work_throws
<1>2. v \in pool /\ v \in Workers /\ v \in records
  BY DEF SelectableWorkers, Recorded
<1>3. SessionState(linkUp[v], workersSocket'[v], workerSocket[v],
                   workerThread[v], workerUnsent[v], TRUE, alloc[v])
  BY <1>2 DEF Sessions
<1>4. linkUp[v] \in BOOLEAN /\ alloc[v] \in Work \cup {NoWork}
  BY <1>2 DEF TypeOK, NetworkTypeOK
<1>5. /\ alloc[v] = NoWork
      /\ SessionState(linkUp[v], workersSocket'[v],
           IF linkUp[v] THEN Append(workerSocket[v], ALLOCATE_WORK(work))
                        ELSE workerSocket[v],
           workerThread[v], workerUnsent[v], FALSE, work)
  BY <1>3, <1>4, SessionAllocate
<1>6. /\ freeWorkersPool' = pool \ {v}
      /\ workAllocationMap' = [alloc EXCEPT ![v] = work]
  BY <1>1, <1>2, <1>5 DEF SetMaps, Emplace
<1>7. /\ workerSocket' = IF linkUp[v]
            THEN [workerSocket EXCEPT ![v] = Append(@, ALLOCATE_WORK(work))]
            ELSE workerSocket
      /\ serverThread' = serverThread
  BY <1>1, <1>2 DEF SendToWorker
<1>8. SessionsInStep'
  <2> SUFFICES ASSUME NEW x \in Workers
               PROVE  SessionState(linkUp[x], workersSocket'[x],
                        workerSocket'[x], workerThread[x], workerUnsent[x],
                        x \in freeWorkersPool', workAllocationMap'[x])
    BY DEF SessionsInStep
  <2>1. CASE x = v
    <3>1. /\ (x \in freeWorkersPool') = FALSE
          /\ workAllocationMap'[x] = work
          /\ workerSocket'[x] =
               IF linkUp[v] THEN Append(workerSocket[v], ALLOCATE_WORK(work))
                            ELSE workerSocket[v]
      BY <1>2, <1>6, <1>7, <2>1 DEF TypeOK, NetworkTypeOK
    <3> QED
      BY <1>5, <2>1, <3>1
  <2>2. CASE x # v
    <3>1. /\ (x \in freeWorkersPool') = (x \in pool)
          /\ workAllocationMap'[x] = alloc[x]
          /\ workerSocket'[x] = workerSocket[x]
      BY <1>2, <1>6, <1>7, <2>2 DEF TypeOK, NetworkTypeOK
    <3>2. SessionState(linkUp[x], workersSocket'[x], workerSocket[x],
            workerThread[x], workerUnsent[x], x \in pool, alloc[x])
      BY DEF Sessions
    <3> QED
      BY <3>1, <3>2
  <2> QED
    BY <2>1, <2>2
<1>9. Recorded(freeWorkersPool', workAllocationMap', records)
  BY <1>2, <1>6 DEF Recorded
<1> QED
  BY <1>7, <1>8, <1>9 DEF HandlerDone

\* Nor does _allocate_island_work().
LEMMA AllocateIslandSession ==
    ASSUME TypeOK,
           NEW pool \in SUBSET Workers,
           NEW alloc \in [Workers -> Work \cup {NoWork}],
           NEW waiting, NEW records, NEW work \in Work,
           UNCHANGED <<linkUp, workerThread, workerUnsent>>,
           Sessions(workersSocket', pool, alloc),
           Recorded(pool, alloc, records),
           AllocateIslandWork(pool, alloc, waiting, records, work)
    PROVE  HandlerDone(records)
<1>1. CASE pool = {}
  <2>1. /\ freeWorkersPool' = pool /\ workAllocationMap' = alloc
        /\ UNCHANGED <<workerSocket, serverThread>>
    BY <1>1 DEF AllocateIslandWork, SetMaps
  <2> QED
    BY <2>1 DEF HandlerDone, Sessions, SessionsInStep
<1>2. CASE pool # {}
  BY <1>2, AllocateWorkerSession DEF AllocateIslandWork
<1> QED
  BY <1>1, <1>2

\* Nor does _add_free_worker().
LEMMA AddFreeWorkerSession ==
    ASSUME TypeOK,
           NEW pool \in SUBSET Workers,
           NEW alloc \in [Workers -> Work \cup {NoWork}],
           NEW waiting \in [Islands -> Work \cup {NoWork}],
           NEW records, NEW w \in Workers,
           UNCHANGED <<linkUp, workerThread, workerUnsent>>,
           Sessions(workersSocket', pool \cup {w}, alloc),
           Recorded(pool \cup {w}, alloc, records),
           AddFreeWorker(pool, alloc, waiting, records, w)
    PROVE  HandlerDone(records)
<1>1. CASE WaitingIslands(waiting) = {}
  <2>1. /\ freeWorkersPool' = pool \cup {w} /\ workAllocationMap' = alloc
        /\ UNCHANGED <<workerSocket, serverThread>>
    BY <1>1 DEF AddFreeWorker, SetMaps
  <2> QED
    BY <2>1 DEF HandlerDone, Sessions, SessionsInStep
<1>2. CASE WaitingIslands(waiting) # {}
  <2>1. PICK i \in WaitingIslands(waiting) :
          AllocateWorkerToIsland(pool \cup {w}, alloc,
            [waiting EXCEPT ![i] = NoWork], records, waiting[i])
    BY <1>2 DEF AddFreeWorker
  <2>2. waiting[i] \in Work
    BY DEF WaitingIslands
  <2> QED
    BY <2>1, <2>2, AllocateWorkerSession
<1> QED
  BY <1>1, <1>2

-----------------------------------------------------------------------------
(***************************************************************************)
(* The inductive invariant.  That the server thread runs and that no       *)
(* worker was terminated is not inductive alone: it needs to be known what *)
(* can be in flight to and from each worker, which SessionsInStep says.     *)
(***************************************************************************)
SessionInv ==
    /\ SessionsInStep
    /\ Serving
    /\ ThreadsApart
    /\ Recorded(freeWorkersPool, workAllocationMap, workerRecords)

\* The types of one worker's session.
LEMMA SessionTypes ==
    ASSUME TypeOK, SessionsInStep, NEW w \in Workers
    PROVE  /\ linkUp[w] \in BOOLEAN
           /\ (w \in freeWorkersPool) \in BOOLEAN
           /\ workAllocationMap[w] \in Work \cup {NoWork}
           /\ SessionState(linkUp[w], workersSocket[w], workerSocket[w],
                           workerThread[w], workerUnsent[w],
                           w \in freeWorkersPool, workAllocationMap[w])
BY DEF TypeOK, NetworkTypeOK, ControllerTypeOK, SessionsInStep

\* The handlers of the worker socket: each message finds the worker's session
\* in the state that it assumes.
LEMMA ControllerWorkerSession ==
    ASSUME TypeOK, SessionInv, NEW w \in Workers, ControllerHandlesWorker(w)
    PROVE  SessionInv'
<1>0. /\ UNCHANGED <<linkUp, workerThread, workerUnsent, terminated>>
      /\ ThreadsApart'
  BY DEF ControllerHandlesWorker, HandleWorkerJoin, worker_joined, HandleWorkerLeave, worker_left,
         HandleWorkResults, worker_finished_work_throws, HandleGetDll, workerVars, SessionInv,
         ThreadsApart
<1>1. /\ linkUp[w] \in BOOLEAN
      /\ (w \in freeWorkersPool) \in BOOLEAN
      /\ workAllocationMap[w] \in Work \cup {NoWork}
      /\ SessionState(linkUp[w], workersSocket[w], workerSocket[w],
                      workerThread[w], workerUnsent[w],
                      w \in freeWorkersPool, workAllocationMap[w])
  BY SessionTypes DEF SessionInv
<1>2. /\ freeWorkersPool \in SUBSET Workers
      /\ workAllocationMap \in [Workers -> Work \cup {NoWork}]
      /\ islandsWaitingForAlloc \in [Islands -> Work \cup {NoWork}]
      /\ workersSocket \in [Workers -> Seq(WorkerMessage)]
      /\ workerSocket \in [Workers -> Seq(ControllerMessage)]
  BY DEF TypeOK, ControllerTypeOK, NetworkTypeOK
<1>3. ASSUME TakeFromWorker(w)
      PROVE  /\ workersSocket'[w] = Tail(workersSocket[w])
             /\ \A x \in Workers \ {w} : workersSocket'[x] = workersSocket[x]
  BY <1>2, <1>3 DEF TakeFromWorker
<1>4. ASSUME NEW records, HandlerDone(records), workerRecords' = records
      PROVE  SessionInv'
  BY <1>0, <1>4 DEF HandlerDone, SessionInv, Serving, Recorded
<1>5. CASE HandleWorkerJoin(w)
  <2>1. HasFromWorker(w, "WORKER_JOIN") /\ TakeFromWorker(w)
    BY <1>5 DEF HandleWorkerJoin, worker_joined
  <2>2. /\ w \notin freeWorkersPool /\ workAllocationMap[w] = NoWork
        /\ SessionState(linkUp[w], workersSocket'[w], workerSocket[w],
                        workerThread[w], workerUnsent[w], TRUE, NoWork)
    BY <1>3, <2>1, SessionJoin DEF SessionInv
  <2>3. Sessions(workersSocket', freeWorkersPool \cup {w}, workAllocationMap)
    <3> SUFFICES ASSUME NEW x \in Workers
                 PROVE  SessionState(linkUp[x], workersSocket'[x],
                          workerSocket[x], workerThread[x], workerUnsent[x],
                          x \in freeWorkersPool \cup {w}, workAllocationMap[x])
      BY DEF Sessions
    <3>1. CASE x = w
      <4>1. (x \in freeWorkersPool \cup {w}) = TRUE
        BY <3>1
      <4> QED
        BY <2>2, <3>1, <4>1
    <3>2. CASE x # w
      <4>1. /\ workersSocket'[x] = workersSocket[x]
            /\ (x \in freeWorkersPool \cup {w}) = (x \in freeWorkersPool)
        BY <1>3, <2>1, <3>2
      <4> QED
        BY <4>1 DEF SessionInv, SessionsInStep
    <3> QED
      BY <3>1, <3>2
  <2>4. /\ workerRecords' = workerRecords \cup {w}
        /\ AddFreeWorker(freeWorkersPool, workAllocationMap,
                         islandsWaitingForAlloc, workerRecords', w)
    BY <1>5, <2>2 DEF HandleWorkerJoin, worker_joined
  <2>5. Recorded(freeWorkersPool \cup {w}, workAllocationMap, workerRecords')
    BY <2>4 DEF SessionInv, Recorded
  <2>6. HandlerDone(workerRecords')
    BY <1>0, <1>2, <2>3, <2>4, <2>5, AddFreeWorkerSession
  <2> QED
    BY <1>4, <2>6
<1>6. CASE HandleWorkerLeave(w)
  <2>1. HasFromWorker(w, "WORKER_LEAVE") /\ TakeFromWorker(w)
    BY <1>6 DEF HandleWorkerLeave, worker_left
  <2>2. SessionState(linkUp[w], workersSocket'[w], workerSocket[w],
                     workerThread[w], workerUnsent[w], FALSE, NoWork)
    <3>1. /\ workersSocket[w] # << >>
          /\ Head(workersSocket[w]).type = "WORKER_LEAVE"
      BY <2>1 DEF HasFromWorker
    <3>2. /\ SessionState(linkUp[w], Tail(workersSocket[w]), workerSocket[w],
                          workerThread[w], workerUnsent[w], FALSE, NoWork)
      BY <1>1, <3>1, SessionLeave
    <3> QED
      BY <1>3, <2>1, <3>2
  <2> DEFINE pool == freeWorkersPool \ {w}
             alloc == [workAllocationMap EXCEPT ![w] = NoWork]
  <2>3. alloc \in [Workers -> Work \cup {NoWork}] /\ alloc[w] = NoWork
        /\ \A x \in Workers \ {w} : alloc[x] = workAllocationMap[x]
    BY <1>2
  <2>4. Sessions(workersSocket', pool, alloc)
    <3> SUFFICES ASSUME NEW x \in Workers
                 PROVE  SessionState(linkUp[x], workersSocket'[x],
                          workerSocket[x], workerThread[x], workerUnsent[x],
                          x \in pool, alloc[x])
      BY DEF Sessions
    <3>1. CASE x = w
      <4>1. (x \in pool) = FALSE
        BY <3>1
      <4> QED
        BY <2>2, <2>3, <3>1, <4>1
    <3>2. CASE x # w
      <4>1. /\ workersSocket'[x] = workersSocket[x]
            /\ (x \in pool) = (x \in freeWorkersPool)
            /\ alloc[x] = workAllocationMap[x]
        BY <1>3, <2>1, <2>3, <3>2
      <4> QED
        BY <4>1 DEF SessionInv, SessionsInStep
    <3> QED
      BY <3>1, <3>2
  <2>5. Recorded(pool, alloc, workerRecords)
    BY <2>3 DEF SessionInv, Recorded
  <2>6. HandlerDone(workerRecords)
    <3>1. CASE workAllocationMap[w] = NoWork
      <4>1. alloc = workAllocationMap
        BY <1>2, <3>1
      <4>2. /\ freeWorkersPool' = pool /\ workAllocationMap' = alloc
            /\ UNCHANGED <<workerSocket, serverThread>>
        BY <1>6, <3>1, <4>1 DEF HandleWorkerLeave, worker_left, SetMaps
      <4> QED
        BY <1>0, <2>4, <2>5, <4>2 DEF HandlerDone, Sessions, SessionsInStep
    <3>2. CASE workAllocationMap[w] # NoWork
      <4>1. AllocateIslandWork(pool, alloc, islandsWaitingForAlloc,
                               workerRecords, workAllocationMap[w])
        BY <1>6, <3>2 DEF HandleWorkerLeave, worker_left
      <4>2. workAllocationMap[w] \in Work /\ pool \in SUBSET Workers
        BY <1>2, <3>2
      <4> HIDE DEF pool, alloc
      <4> QED
        BY <1>0, <2>3, <2>4, <2>5, <4>1, <4>2, AllocateIslandSession
    <3> QED
      BY <3>1, <3>2
  <2>7. workerRecords' = workerRecords
    BY <1>6 DEF HandleWorkerLeave, worker_left
  <2> QED
    BY <1>4, <2>6, <2>7
<1>7. CASE HandleWorkResults(w)
  <2>1. HasFromWorker(w, "WORK_RESULTS") /\ TakeFromWorker(w)
    BY <1>7 DEF HandleWorkResults, worker_finished_work_throws
  <2>2. /\ w \notin freeWorkersPool /\ workAllocationMap[w] # NoWork
        /\ SessionState(linkUp[w], workersSocket'[w], workerSocket[w],
                        workerThread[w], workerUnsent[w], TRUE, NoWork)
    BY <1>3, <2>1, SessionResults DEF SessionInv
  <2>3. w \in workerRecords
    BY <2>2 DEF SessionInv, Recorded
  <2> DEFINE alloc == [workAllocationMap EXCEPT ![w] = NoWork]
  <2>4. alloc \in [Workers -> Work \cup {NoWork}] /\ alloc[w] = NoWork
        /\ \A x \in Workers \ {w} : alloc[x] = workAllocationMap[x]
    BY <1>2
  <2>5. AddFreeWorker(freeWorkersPool, alloc, islandsWaitingForAlloc,
                      workerRecords, w)
    BY <1>7, <2>2, <2>3 DEF HandleWorkResults, worker_finished_work_throws
  <2>6. Sessions(workersSocket', freeWorkersPool \cup {w}, alloc)
    <3> SUFFICES ASSUME NEW x \in Workers
                 PROVE  SessionState(linkUp[x], workersSocket'[x],
                          workerSocket[x], workerThread[x], workerUnsent[x],
                          x \in freeWorkersPool \cup {w}, alloc[x])
      BY DEF Sessions
    <3>1. CASE x = w
      <4>1. (x \in freeWorkersPool \cup {w}) = TRUE
        BY <3>1
      <4> QED
        BY <2>2, <2>4, <3>1, <4>1
    <3>2. CASE x # w
      <4>1. /\ workersSocket'[x] = workersSocket[x]
            /\ (x \in freeWorkersPool \cup {w}) = (x \in freeWorkersPool)
            /\ alloc[x] = workAllocationMap[x]
        BY <1>3, <2>1, <2>4, <3>2
      <4> QED
        BY <4>1 DEF SessionInv, SessionsInStep
    <3> QED
      BY <3>1, <3>2
  <2>7. Recorded(freeWorkersPool \cup {w}, alloc, workerRecords)
    BY <2>3, <2>4 DEF SessionInv, Recorded
  <2> HIDE DEF alloc
  <2>8. HandlerDone(workerRecords)
    BY <1>0, <1>2, <2>4, <2>5, <2>6, <2>7, AddFreeWorkerSession
  <2>9. workerRecords' = workerRecords
    BY <1>7 DEF HandleWorkResults, worker_finished_work_throws, repositoryVars
  <2> QED
    BY <1>4, <2>8, <2>9
<1>8. CASE HandleGetDll(w)
  <2>1. /\ HasFromWorker(w, "GET_DLL") /\ TakeFromWorker(w)
        /\ SendToWorker(w, DLL_BINARY)
        /\ UNCHANGED controllerVars
    BY <1>8 DEF HandleGetDll
  <2>2. SessionState(linkUp[w], workersSocket'[w],
          IF linkUp[w] THEN Append(workerSocket[w], DLL_BINARY)
                       ELSE workerSocket[w],
          workerThread[w], workerUnsent[w],
          w \in freeWorkersPool, workAllocationMap[w])
    BY <1>1, <1>3, <2>1, SessionGetDll DEF HasFromWorker
  <2>3. /\ workerSocket'[w] =
             IF linkUp[w] THEN Append(workerSocket[w], DLL_BINARY)
                          ELSE workerSocket[w]
        /\ \A x \in Workers \ {w} : workerSocket'[x] = workerSocket[x]
    BY <1>2, <2>1 DEF SendToWorker
  <2>4. SessionsInStep'
    <3> SUFFICES ASSUME NEW x \in Workers
                 PROVE  SessionState(linkUp[x], workersSocket'[x],
                          workerSocket'[x], workerThread[x], workerUnsent[x],
                          x \in freeWorkersPool, workAllocationMap[x])
      BY <1>0, <2>1 DEF SessionsInStep, controllerVars
    <3>1. CASE x = w
      BY <2>2, <2>3, <3>1
    <3>2. CASE x # w
      BY <1>3, <2>1, <2>3, <3>2 DEF SessionInv, SessionsInStep
    <3> QED
      BY <3>1, <3>2
  <2> QED
    BY <1>0, <2>1, <2>4
    DEF SessionInv, Serving, Recorded, controllerVars
<1> QED
  BY <1>5, <1>6, <1>7, <1>8 DEF ControllerHandlesWorker

\* The handler of the island socket.
LEMMA ControllerIslandSession ==
    ASSUME TypeOK, SessionInv, NEW i \in Islands, ControllerHandlesIsland(i)
    PROVE  SessionInv'
<1>1. /\ HandleAllocateWork(i)
      /\ UNCHANGED <<linkUp, workerThread, workerUnsent, workersSocket,
                     terminated, workerRecords>>
  BY DEF ControllerHandlesIsland, HandleAllocateWork, workerVars,
         repositoryVars
<1>2. /\ freeWorkersPool \in SUBSET Workers
      /\ workAllocationMap \in [Workers -> Work \cup {NoWork}]
      /\ Head(islandsSocket[i]) \in Work
  BY <1>1, TailAtType
  DEF TypeOK, ControllerTypeOK, NetworkTypeOK, HandleAllocateWork
<1>3. Sessions(workersSocket', freeWorkersPool, workAllocationMap)
  BY <1>1 DEF Sessions, SessionInv, SessionsInStep
<1>4. AllocateIslandWork(freeWorkersPool, workAllocationMap,
        islandsWaitingForAlloc, workerRecords, Head(islandsSocket[i]))
  BY <1>1 DEF HandleAllocateWork
<1>5. HandlerDone(workerRecords)
  BY <1>1, <1>2, <1>3, <1>4, AllocateIslandSession DEF SessionInv
<1> QED
  BY <1>1, <1>5
  DEF HandlerDone, SessionInv, Serving, ThreadsApart, Recorded

\* A step that moves the session of one worker only.
LEMMA OneSessionMoves ==
    ASSUME SessionInv, NEW w \in Workers,
           UNCHANGED <<controllerVars, terminated>>,
           SessionState(linkUp'[w], workersSocket'[w], workerSocket'[w],
                        workerThread'[w], workerUnsent'[w],
                        w \in freeWorkersPool, workAllocationMap[w]),
           \A x \in Workers \ {w} :
              /\ linkUp'[x] = linkUp[x]
              /\ workersSocket'[x] = workersSocket[x]
              /\ workerSocket'[x] = workerSocket[x]
              /\ workerThread'[x] = workerThread[x]
              /\ workerUnsent'[x] = workerUnsent[x]
    PROVE  SessionInv'
<1>1. SessionsInStep'
  <2> SUFFICES ASSUME NEW x \in Workers
               PROVE  SessionState(linkUp'[x], workersSocket'[x],
                        workerSocket'[x], workerThread'[x], workerUnsent'[x],
                        x \in freeWorkersPool, workAllocationMap[x])
    BY DEF SessionsInStep, controllerVars
  <2>1. CASE x = w
    BY <2>1
  <2>2. CASE x # w
    BY <2>2 DEF SessionInv, SessionsInStep
  <2> QED
    BY <2>1, <2>2
<1> QED
  BY <1>1
  DEF SessionInv, Serving, ThreadsApart, Recorded, controllerVars

\* The end of a worker's process.
LEMMA ExitSession ==
    ASSUME TypeOK, SessionInv, NEW w \in Workers, Exit(w),
           UNCHANGED <<controllerVars, terminated>>
    PROVE  SessionInv'
<1>1. /\ linkUp[w] \in BOOLEAN
      /\ workAllocationMap[w] \in Work \cup {NoWork}
      /\ SessionState(linkUp[w], workersSocket[w], workerSocket[w],
                      workerThread[w], workerUnsent[w],
                      w \in freeWorkersPool, workAllocationMap[w])
  BY SessionTypes DEF SessionInv
<1>2. /\ linkUp'[w] = FALSE /\ workerSocket'[w] = << >>
      /\ workerThread'[w] = NoThread /\ workerUnsent'[w] = << >>
  BY DEF Exit, DropProcess, TypeOK, NetworkTypeOK, WorkerTypeOK
<1>3. IF linkUp[w]
      THEN \E n \in 0..Len(workersSocket[w]) :
             workersSocket'[w] = Append(SubSeq(workersSocket[w], 1, n),
                                        WORKER_LEAVE)
      ELSE workersSocket'[w] = workersSocket[w]
  BY DEF Exit, DropProcess, LoseFromWorker, TypeOK, NetworkTypeOK
<1>4. SessionState(FALSE, workersSocket'[w], << >>, NoThread, << >>,
                   w \in freeWorkersPool, workAllocationMap[w])
  BY <1>1, <1>3, SessionExit
<1>5. \A x \in Workers \ {w} :
         /\ linkUp'[x] = linkUp[x]
         /\ workersSocket'[x] = workersSocket[x]
         /\ workerSocket'[x] = workerSocket[x]
         /\ workerThread'[x] = workerThread[x]
         /\ workerUnsent'[x] = workerUnsent[x]
  BY DEF Exit, DropProcess, LoseFromWorker, TypeOK, NetworkTypeOK, WorkerTypeOK
<1> QED
  BY <1>2, <1>4, <1>5, OneSessionMoves

\* The worker's message loop and its thread.
LEMMA WorkerRunsSession ==
    ASSUME TypeOK, SessionInv, NEW w \in Workers, WorkerRuns(w)
    PROVE  SessionInv'
<1> USE DEF TypeOK, NetworkTypeOK, WorkerTypeOK
<1>0. UNCHANGED controllerVars
  BY DEF WorkerRuns
<1>1. /\ linkUp[w] \in BOOLEAN
      /\ workAllocationMap[w] \in Work \cup {NoWork}
      /\ SessionState(linkUp[w], workersSocket[w], workerSocket[w],
                      workerThread[w], workerUnsent[w],
                      w \in freeWorkersPool, workAllocationMap[w])
  BY SessionTypes DEF SessionInv
<1>2. CASE HasFromController(w, "ALLOCATE_WORK")
           /\ (StartWorkerThread(w) \/ StartOverRunningThread(w))
  <2>1. workerSocket[w] # << >> /\ Head(workerSocket[w]).type = "ALLOCATE_WORK"
    BY <1>2 DEF HasFromController
  <2>2. /\ workerThread[w] = NoThread
        /\ SessionState(linkUp[w], workersSocket[w], Tail(workerSocket[w]),
             [phase |-> "load", work |-> Head(workerSocket[w]).work],
             workerUnsent[w], w \in freeWorkersPool, workAllocationMap[w])
    BY <1>1, <2>1, SessionStart
  <2>3. StartWorkerThread(w)
    BY <1>2, <2>2 DEF StartOverRunningThread
  <2>4. /\ workerSocket'[w] = Tail(workerSocket[w])
        /\ workerThread'[w] =
             [phase |-> "load", work |-> Head(workerSocket[w]).work]
        /\ UNCHANGED <<linkUp, workersSocket, workerUnsent, terminated>>
        /\ \A x \in Workers \ {w} : /\ workerSocket'[x] = workerSocket[x]
                                    /\ workerThread'[x] = workerThread[x]
    BY <2>3 DEF StartWorkerThread, TakeFromController
  <2> QED
    BY <1>0, <2>2, <2>4, OneSessionMoves
<1>3. CASE HandleDllBinary(w)
  <2>1. workerSocket[w] # << >> /\ Head(workerSocket[w]).type = "DLL_BINARY"
    BY <1>3 DEF HandleDllBinary, HasFromController
  <2> DEFINE U == [workerThread[w] EXCEPT !.phase = "evolve"]
  <2>2. /\ workerThread[w].phase = "dll"
        /\ \A V : V.work = workerThread[w].work /\ V.phase = "evolve"
             => SessionState(linkUp[w], workersSocket[w],
                  Tail(workerSocket[w]), V, workerUnsent[w],
                  w \in freeWorkersPool, workAllocationMap[w])
    BY <1>1, <2>1, SessionDll
  <2>3. U.phase = "evolve" /\ U.work = workerThread[w].work
    BY <2>2 DEF Thread, NoThread
  <2> HIDE DEF U
  <2>4. SessionState(linkUp[w], workersSocket[w], Tail(workerSocket[w]), U,
          workerUnsent[w], w \in freeWorkersPool, workAllocationMap[w])
    BY <2>2, <2>3
  <2>5. /\ workerSocket'[w] = Tail(workerSocket[w])
        /\ workerThread'[w] = U
        /\ UNCHANGED <<linkUp, workersSocket, workerUnsent, terminated>>
        /\ \A x \in Workers \ {w} : /\ workerSocket'[x] = workerSocket[x]
                                    /\ workerThread'[x] = workerThread[x]
    BY <1>3, <2>2 DEF HandleDllBinary, TakeFromController, SetPhase, U
  <2> QED
    BY <1>0, <2>4, <2>5, OneSessionMoves
<1>4. CASE LoadWork(w) \/ RequestDll(w) \/ Evolve(w) \/ HandleThreadResults(w)
  <2>1. workerThread[w].phase \in {"load", "evolve", "done"}
    BY <1>4 DEF LoadWork, RequestDll, Evolve, HandleThreadResults
  <2>2. /\ linkUp[w]
        /\ workerThread[w].work = workAllocationMap[w]
        /\ \A U : U.work = workAllocationMap[w] /\ U.phase \in {"evolve", "done"}
             => SessionState(linkUp[w], workersSocket[w], workerSocket[w], U,
                  workerUnsent[w], w \in freeWorkersPool, workAllocationMap[w])
        /\ \A U : U.work = workAllocationMap[w] /\ U.phase = "dll"
             => SessionState(linkUp[w], Append(workersSocket[w], GET_DLL),
                  workerSocket[w], U, workerUnsent[w],
                  w \in freeWorkersPool, workAllocationMap[w])
        /\ SessionState(linkUp[w],
             Append(workersSocket[w], WORK_RESULTS(workAllocationMap[w])),
             workerSocket[w], NoThread, workerUnsent[w],
             w \in freeWorkersPool, workAllocationMap[w])
    BY <1>1, <2>1, SessionThread
  <2>3. ASSUME NEW p, SetPhase(w, p)
        PROVE  /\ workerThread'[w].phase = p
               /\ workerThread'[w].work = workAllocationMap[w]
               /\ \A x \in Workers \ {w} : workerThread'[x] = workerThread[x]
    BY <2>1, <2>2, <2>3 DEF SetPhase, Thread, NoThread
  <2>4. CASE LoadWork(w) \/ Evolve(w)
    <3>1. UNCHANGED <<linkUp, workersSocket, workerSocket, workerUnsent,
                      terminated>>
      BY <2>4 DEF LoadWork, Evolve, networkVars
    <3>2. /\ workerThread'[w].phase \in {"evolve", "done"}
          /\ workerThread'[w].work = workAllocationMap[w]
          /\ \A x \in Workers \ {w} : workerThread'[x] = workerThread[x]
      BY <2>3, <2>4 DEF LoadWork, Evolve
    <3>3. SessionState(linkUp[w], workersSocket[w], workerSocket[w],
            workerThread'[w], workerUnsent[w],
            w \in freeWorkersPool, workAllocationMap[w])
      BY <2>2, <3>2
    <3> QED
      BY <1>0, <3>1, <3>2, <3>3, OneSessionMoves
  <2>5. CASE RequestDll(w)
    <3>1. /\ UNCHANGED <<linkUp, workerSocket, workerUnsent, terminated>>
          /\ workersSocket'[w] = Append(workersSocket[w], GET_DLL)
          /\ \A x \in Workers \ {w} : workersSocket'[x] = workersSocket[x]
      BY <2>2, <2>5 DEF RequestDll, SendToController
    <3>2. /\ workerThread'[w].phase = "dll"
          /\ workerThread'[w].work = workAllocationMap[w]
          /\ \A x \in Workers \ {w} : workerThread'[x] = workerThread[x]
      BY <2>3, <2>5 DEF RequestDll
    <3>3. SessionState(linkUp[w], workersSocket'[w], workerSocket[w],
            workerThread'[w], workerUnsent[w],
            w \in freeWorkersPool, workAllocationMap[w])
      BY <2>2, <3>1, <3>2
    <3> QED
      BY <1>0, <3>1, <3>2, <3>3, OneSessionMoves
  <2>6. CASE HandleThreadResults(w)
    <3>1. /\ UNCHANGED <<linkUp, workerSocket, workerUnsent, terminated>>
          /\ workersSocket'[w] =
               Append(workersSocket[w], WORK_RESULTS(workAllocationMap[w]))
          /\ workerThread'[w] = NoThread
          /\ \A x \in Workers \ {w} : /\ workersSocket'[x] = workersSocket[x]
                                      /\ workerThread'[x] = workerThread[x]
      BY <2>2, <2>6 DEF HandleThreadResults, SendToController
    <3> QED
      BY <1>0, <2>2, <3>1, OneSessionMoves
  <2> QED
    BY <1>4, <2>4, <2>5, <2>6
<1> QED
  BY <1>2, <1>3, <1>4
  DEF WorkerRuns, StartWorkerThread, StartOverRunningThread

\* A worker connects, starts or dies.
LEMMA WorkerFaultsSession ==
    ASSUME TypeOK, SessionInv, NEW w \in Workers,
           WorkerConnects(w) \/ WorkerStarts(w) \/ WorkerDies(w)
    PROVE  SessionInv'
<1>1. CASE WorkerConnects(w)
  <2>1. Connect(w) /\ UNCHANGED <<controllerVars, terminated, workerThread>>
    BY <1>1 DEF WorkerConnects, WorkerConnect, workerVars
  <2>2. /\ workAllocationMap[w] \in Work \cup {NoWork}
        /\ SessionState(FALSE, << >>, workerSocket[w],
                        workerThread[w], workerUnsent[w],
                        w \in freeWorkersPool, workAllocationMap[w])
    <3>1. linkUp[w] = FALSE /\ workersSocket[w] = << >>
      BY <2>1, SessionTypes DEF Connect, SessionInv
    <3> QED
      BY <3>1, SessionTypes DEF SessionInv
  <2>3. SessionState(TRUE, <<WORKER_JOIN>> \o workerUnsent[w],
                     workerSocket[w], workerThread[w], << >>,
                     w \in freeWorkersPool, workAllocationMap[w])
    BY <2>2, SessionConnect
  <2>4. /\ linkUp'[w] = TRUE
        /\ workersSocket'[w] = <<WORKER_JOIN>> \o workerUnsent[w]
        /\ workerUnsent'[w] = << >>
        /\ UNCHANGED <<workerSocket, workerThread, terminated>>
        /\ \A x \in Workers \ {w} : /\ linkUp'[x] = linkUp[x]
                                    /\ workersSocket'[x] = workersSocket[x]
                                    /\ workerUnsent'[x] = workerUnsent[x]
    BY <2>1 DEF Connect, TypeOK, NetworkTypeOK
  <2> QED
    BY <2>1, <2>3, <2>4, OneSessionMoves
<1>2. CASE WorkerStarts(w)
  BY <1>2 DEF WorkerStarts, StartWorker, networkVars, controllerVars,
              SessionInv, SessionsInStep, Serving, ThreadsApart,
              Recorded
<1>3. CASE WorkerDies(w)
  BY <1>3, ExitSession DEF WorkerDies, CrashWorker, WorkerThreadFails
<1> QED
  BY <1>1, <1>2, <1>3

\* An island's call touches no worker's session.
LEMMA IslandSession ==
    ASSUME SessionInv, NEW i \in Islands, IslandSends(i) \/ IslandReceives(i)
    PROVE  SessionInv'
<1>1. UNCHANGED <<linkUp, workersSocket, workerSocket, workerUnsent,
                  workerVars, controllerVars>>
  BY DEF IslandSends, IslandReceives, SendWork, ReceiveResults
<1> QED
  BY <1>1 DEF workerVars, controllerVars, SessionInv, SessionsInStep,
              Serving, ThreadsApart, Recorded

-----------------------------------------------------------------------------
\* A step that breaks no connection under a live worker keeps SessionInv.
LEMMA UnbrokenStep ==
    ASSUME TypeOK, SessionInv, [Next]_vars, drops' = drops
    PROVE  SessionInv'
<1>1. CASE UNCHANGED vars
  BY <1>1 DEF vars, networkVars, controllerVars, workerVars, SessionInv,
              SessionsInStep, Serving, ThreadsApart, Recorded
<1>2. drops + 1 # drops
  BY DEF TypeOK
<1>3. ~ControllerRestarts /\ \A w \in Workers : ~LinkBreaks(w)
  BY <1>2 DEF LinkBreaks, ControllerRestarts
<1> QED
  BY <1>1, <1>3, ControllerWorkerSession, ControllerIslandSession,
     WorkerRunsSession, WorkerFaultsSession, IslandSession
  DEF Next, Finished

\* SessionInv holds until a connection breaks under a live worker.
THEOREM SessionsStayInStep == Spec => [](Unbroken => SessionInv)
<1>1. Init => SessionInv
  <2> SUFFICES ASSUME Init PROVE SessionInv
    OBVIOUS
  <2>1. SessionsInStep
    <3> SUFFICES ASSUME NEW w \in Workers
                 PROVE  SessionState(linkUp[w], workersSocket[w],
                          workerSocket[w], workerThread[w], workerUnsent[w],
                          w \in freeWorkersPool, workAllocationMap[w])
      BY DEF SessionsInStep
    <3>1. /\ ~linkUp[w] /\ workersSocket[w] = << >> /\ workerSocket[w] = << >>
          /\ workerThread[w] = NoThread /\ workerUnsent[w] = << >>
          /\ w \notin freeWorkersPool /\ workAllocationMap[w] = NoWork
      BY DEF Init, NetworkInit, ControllerInit, WorkerInit
    <3> QED
      BY <3>1 DEF SessionState, Away, Silent
  <2> QED
    BY <2>1
    DEF Init, ControllerInit, WorkerInit, SessionInv, Serving, ThreadsApart,
        Recorded
<1>2. TypeOK /\ (Unbroken => SessionInv) /\ [Next]_vars
        => (Unbroken => SessionInv)'
  <2> SUFFICES ASSUME TypeOK, Unbroken => SessionInv, [Next]_vars, Unbroken'
               PROVE  SessionInv'
    OBVIOUS
  <2>1. drops' = drops \/ drops' = drops + 1
    BY DEF Next, vars, faultVars, ControllerHandlesWorker,
           ControllerHandlesIsland, WorkerRuns, WorkerConnects, IslandSends,
           IslandReceives, WorkerStarts, WorkerDies, LinkBreaks,
           ControllerRestarts, Finished
  <2>2. drops' = drops
    BY <2>1 DEF Unbroken, TypeOK
  <2> QED
    BY <2>2, UnbrokenStep DEF Unbroken
<1> QED
  BY <1>1, <1>2, TypeCorrect, PTL DEF Spec

\* No handler of the controller throws as long as connections end only with
\* their worker's process.
THEOREM ServerNeverDies == Spec => []ServerSurvives
<1>1. (Unbroken => SessionInv) => ServerSurvives
  BY DEF SessionInv, ServerSurvives
<1> QED
  BY <1>1, SessionsStayInStep, PTL

\* No worker is handed work while its thread is still joinable.
THEOREM ThreadsNeverOverlap == Spec => []OneThreadAtATime
<1>1. (Unbroken => SessionInv) => OneThreadAtATime
  BY DEF SessionInv, OneThreadAtATime
<1> QED
  BY <1>1, SessionsStayInStep, PTL

\* Controller and worker agree on what the worker is doing.
THEOREM SessionsAlwaysAgree == Spec => []SessionsAgree
<1>1. (Unbroken => SessionInv) => SessionsAgree
  BY DEF SessionInv, SessionsAgree
<1> QED
  BY <1>1, SessionsStayInStep, PTL
=============================================================================
