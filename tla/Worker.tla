------------------------------- MODULE Worker -------------------------------
(***************************************************************************)
(* distributed_worker: a process with a message loop and at most one       *)
(* worker thread.  _workerThread is joinable from the moment it is started *)
(* until the loop has read its results; assigning to a joinable            *)
(* std::thread calls std::terminate(), and so does an exception in it.     *)
(***************************************************************************)
EXTENDS Network

VARIABLES
    processUp,      \* is the worker's process running
    workerThread,   \* phase of _workerThread and the work it runs
    terminated      \* did the assignment in _start_worker_thread() ever
                    \* meet a joinable thread (history variable)

workerVars == <<processUp, workerThread, terminated>>

(***************************************************************************)
(* "load": deserialising the work;  "dll": blocked in                      *)
(* get_dll_from_controller();  "evolve": evolving;  "done": the results    *)
(* are on the thread socket;  "none": not joinable.                        *)
(***************************************************************************)
NoThread == [phase |-> "none", work |-> NoWork]
Thread == [phase : {"load", "dll", "evolve", "done"}, work : Work]

WorkerTypeOK ==
    /\ processUp \in [Workers -> BOOLEAN]
    /\ workerThread \in [Workers -> Thread \cup {NoThread}]
    /\ terminated \in [Workers -> BOOLEAN]

WorkerInit ==
    /\ processUp = [w \in Workers |-> FALSE]
    /\ workerThread = [w \in Workers |-> NoThread]
    /\ terminated = [w \in Workers |-> FALSE]

SetPhase(w, p) == workerThread' = [workerThread EXCEPT ![w].phase = p]

-----------------------------------------------------------------------------
\* The constructor: the id comes from the settings file of an earlier run.
StartWorker(w) ==
    /\ ~processUp[w]
    /\ processUp' = [processUp EXCEPT ![w] = TRUE]
    /\ UNCHANGED <<workerThread, terminated, networkVars>>

WorkerConnect(w) ==
    /\ processUp[w]
    /\ Connect(w)
    /\ UNCHANGED workerVars

\* The process ends at any moment: killed, or the destructor runs.
Exit(w) ==
    /\ processUp' = [processUp EXCEPT ![w] = FALSE]
    /\ workerThread' = [workerThread EXCEPT ![w] = NoThread]
    /\ DropProcess(w)

CrashWorker(w) ==
    /\ processUp[w]
    /\ Exit(w)
    /\ UNCHANGED terminated

\* The thread's catch block throws again (no DLL, an algorithm's exception).
WorkerThreadFails(w) ==
    /\ workerThread[w].phase \in {"load", "evolve"}
    /\ Exit(w)
    /\ UNCHANGED terminated

-----------------------------------------------------------------------------
\* _handle_Worker_Socket_Msg, ALLOCATE_WORK: _start_worker_thread().
StartWorkerThread(w) ==
    /\ HasFromController(w, "ALLOCATE_WORK")
    /\ workerThread[w] = NoThread
    /\ workerThread' = [workerThread EXCEPT
         ![w] = [phase |-> "load", work |-> Head(workerSocket[w]).work]]
    /\ TakeFromController(w)
    /\ UNCHANGED <<processUp, terminated, workersSocket, workerUnsent,
                   islandsSocket, dealerSocket, linkUp>>

StartOverRunningThread(w) ==
    /\ HasFromController(w, "ALLOCATE_WORK")
    /\ workerThread[w] # NoThread
    /\ terminated' = [terminated EXCEPT ![w] = TRUE]
    /\ Exit(w)

\* DLL_BINARY is forwarded to "worker_dll_handler", if it is there.
HandleDllBinary(w) ==
    /\ HasFromController(w, "DLL_BINARY")
    /\ TakeFromController(w)
    /\ IF workerThread[w].phase = "dll" THEN SetPhase(w, "evolve")
                                        ELSE UNCHANGED workerThread
    /\ UNCHANGED <<processUp, terminated, workersSocket, workerUnsent,
                   islandsSocket, dealerSocket, linkUp>>

-----------------------------------------------------------------------------
\* The library is in the local cache, or the problem needs none.
LoadWork(w) ==
    /\ workerThread[w].phase = "load"
    /\ SetPhase(w, "evolve")
    /\ UNCHANGED <<processUp, terminated, networkVars>>

\* get_dll_from_controller(); _handle_Thread_Socket_Msg, GET_DLL.
RequestDll(w) ==
    /\ workerThread[w].phase = "load"
    /\ SetPhase(w, "dll")
    /\ SendToController(w, GET_DLL)
    /\ UNCHANGED <<processUp, terminated, workerSocket, islandsSocket,
                   dealerSocket, linkUp>>

\* _single_threaded_worker() and _archipelago_based_worker().
Evolve(w) ==
    /\ workerThread[w].phase = "evolve"
    /\ SetPhase(w, "done")
    /\ UNCHANGED <<processUp, terminated, networkVars>>

\* _handle_Thread_Socket_Msg, WORK_RESULTS: join, then send.
HandleThreadResults(w) ==
    /\ workerThread[w].phase = "done"
    /\ workerThread' = [workerThread EXCEPT ![w] = NoThread]
    /\ SendToController(w, WORK_RESULTS(workerThread[w].work))
    /\ UNCHANGED <<processUp, terminated, workerSocket, islandsSocket,
                   dealerSocket, linkUp>>
=============================================================================
