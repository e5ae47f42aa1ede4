------------------------------ MODULE Network ------------------------------
(***************************************************************************)
(* The messages of the distributed solver and the ZeroMQ sockets that      *)
(* carry them.  ZeroMQ itself is external: the module states what the code *)
(* relies on.                                                              *)
(*                                                                         *)
(*   - A connection is a pair of FIFO pipes.  The ROUTER fair-queues the   *)
(*     pipes of its peers, so each worker has a queue of its own.          *)
(*   - The hello message of a worker is the first message of each of its   *)
(*     connections; the disconnect message is what the controller reads    *)
(*     last from a connection that was lost.                               *)
(*   - A lost connection loses any suffix of either pipe.                  *)
(*   - A ROUTER drops a message for a peer without a connection.           *)
(*   - A DEALER queues what it cannot send until it is connected again;    *)
(*     what it sends before it has noticed the loss is gone.               *)
(*   - A routing id is accepted again once the old pipe has been drained.  *)
(***************************************************************************)
EXTENDS Naturals, Sequences

CONSTANTS
    Workers,      \* the routing ids of the workers (persisted UUIDs)
    Islands,      \* the routing ids of the distributed islands
    NoWorker,     \* the empty preferredWorkerId
    NoWork,       \* stands for "no entry" in the maps that hold work
    MaxCycles     \* bound: run_evolve() calls of an island

ASSUME NetworkAssumption ==
    /\ NoWorker \notin Workers
    /\ MaxCycles \in Nat

VARIABLES
    workersSocket,   \* controller, _workersSocket: received, per worker
    islandsSocket,   \* controller, _islandsSocket: received, per island
    workerSocket,    \* worker, _workerSocket: received from the controller
    workerUnsent,    \* worker, _workerSocket: queued while disconnected
    dealerSocket,    \* island, _dealerSocket: received from the controller
    linkUp           \* is there a connection between worker and controller

networkVars == <<workersSocket, islandsSocket, workerSocket, workerUnsent,
                 dealerSocket, linkUp>>

-----------------------------------------------------------------------------
(***************************************************************************)
(* work_container: which island's population this is, after how many       *)
(* cycles, and the worker it would like to run on.  NoWork is not a work.  *)
(***************************************************************************)
Work == [island : Islands, cycle : 1..MaxCycles,
         preferredWorkerId : Workers \cup {NoWorker}]

ASSUME NoWorkAssumption == NoWork \notin Work

\* MsgType, with the payload that matters.
WORKER_JOIN  == [type |-> "WORKER_JOIN",  work |-> NoWork]
WORKER_LEAVE == [type |-> "WORKER_LEAVE", work |-> NoWork]
GET_DLL      == [type |-> "GET_DLL",      work |-> NoWork]
DLL_BINARY   == [type |-> "DLL_BINARY",   work |-> NoWork]
ALLOCATE_WORK(k) == [type |-> "ALLOCATE_WORK", work |-> k]
WORK_RESULTS(k)  == [type |-> "WORK_RESULTS",  work |-> k]

\* What a worker, resp. the controller, puts on the wire.
WorkerMessage ==
    {WORKER_JOIN, WORKER_LEAVE, GET_DLL} \cup {WORK_RESULTS(k) : k \in Work}
ControllerMessage ==
    {DLL_BINARY} \cup {ALLOCATE_WORK(k) : k \in Work}

NetworkTypeOK ==
    /\ workersSocket \in [Workers -> Seq(WorkerMessage)]
    /\ islandsSocket \in [Islands -> Seq(Work)]
    /\ workerSocket  \in [Workers -> Seq(ControllerMessage)]
    /\ workerUnsent  \in [Workers -> Seq(WorkerMessage)]
    /\ dealerSocket  \in [Islands -> Seq(Work)]
    /\ linkUp        \in [Workers -> BOOLEAN]

NetworkInit ==
    /\ workersSocket = [w \in Workers |-> << >>]
    /\ islandsSocket = [i \in Islands |-> << >>]
    /\ workerSocket  = [w \in Workers |-> << >>]
    /\ workerUnsent  = [w \in Workers |-> << >>]
    /\ dealerSocket  = [i \in Islands |-> << >>]
    /\ linkUp        = [w \in Workers |-> FALSE]

-----------------------------------------------------------------------------
(***************************************************************************)
(* router_socket: send() to a worker, receive() from one.                  *)
(***************************************************************************)
SendToWorker(w, m) ==
    workerSocket' =
        IF linkUp[w] THEN [workerSocket EXCEPT ![w] = Append(@, m)]
                     ELSE workerSocket

HasFromWorker(w, t) ==
    /\ workersSocket[w] # << >>
    /\ Head(workersSocket[w]).type = t

TakeFromWorker(w) ==
    workersSocket' = [workersSocket EXCEPT ![w] = Tail(@)]

(***************************************************************************)
(* dealer_socket of a worker: send() on a connection, or while there is    *)
(* none (queued, or lost on a connection that is already dead).            *)
(***************************************************************************)
SendToController(w, m) ==
    \/ /\ linkUp[w]
       /\ workersSocket' = [workersSocket EXCEPT ![w] = Append(@, m)]
       /\ UNCHANGED workerUnsent
    \/ /\ ~linkUp[w]
       /\ \/ workerUnsent' = [workerUnsent EXCEPT ![w] = Append(@, m)]
          \/ UNCHANGED workerUnsent
       /\ UNCHANGED workersSocket

HasFromController(w, t) ==
    /\ workerSocket[w] # << >>
    /\ Head(workerSocket[w]).type = t

TakeFromController(w) ==
    workerSocket' = [workerSocket EXCEPT ![w] = Tail(@)]

(***************************************************************************)
(* ZeroMQ (re)connects in the background: hello message first, then what   *)
(* the DEALER had queued.                                                  *)
(***************************************************************************)
Connect(w) ==
    /\ ~linkUp[w]
    /\ workersSocket[w] = << >>
    /\ linkUp' = [linkUp EXCEPT ![w] = TRUE]
    /\ workersSocket' =
         [workersSocket EXCEPT ![w] = <<WORKER_JOIN>> \o workerUnsent[w]]
    /\ workerUnsent' = [workerUnsent EXCEPT ![w] = << >>]
    /\ UNCHANGED <<workerSocket, islandsSocket, dealerSocket>>

Prefixes(s) == {SubSeq(s, 1, n) : n \in 0..Len(s)}

\* The controller's side of a lost connection.
LoseFromWorker(w) ==
    IF linkUp[w]
    THEN \E n \in 0..Len(workersSocket[w]) :
           workersSocket' = [workersSocket EXCEPT
             ![w] = Append(SubSeq(@, 1, n), WORKER_LEAVE)]
    ELSE UNCHANGED workersSocket

\* The connection breaks and both processes survive.
DropLink(w) ==
    /\ linkUp[w]
    /\ LoseFromWorker(w)
    /\ \E n \in 0..Len(workerSocket[w]) :
         workerSocket' = [workerSocket EXCEPT ![w] = SubSeq(@, 1, n)]
    /\ linkUp' = [linkUp EXCEPT ![w] = FALSE]
    /\ UNCHANGED <<workerUnsent, islandsSocket, dealerSocket>>

\* The controller's process ends: every connection breaks, what either ROUTER
\* and the islands' sockets held is gone, a worker keeps what had reached it.
DropController ==
    /\ workersSocket' = [w \in Workers |-> << >>]
    /\ islandsSocket' = [i \in Islands |-> << >>]
    /\ dealerSocket' = [i \in Islands |-> << >>]
    /\ linkUp' = [w \in Workers |-> FALSE]
    /\ \E kept \in [Workers -> UNION {Prefixes(workerSocket[w]) : w \in Workers}] :
         /\ \A w \in Workers : kept[w] \in Prefixes(workerSocket[w])
         /\ workerSocket' = kept
    /\ UNCHANGED workerUnsent

\* The worker's process ends, and everything it held with it.
DropProcess(w) ==
    /\ LoseFromWorker(w)
    /\ workerSocket' = [workerSocket EXCEPT ![w] = << >>]
    /\ workerUnsent' = [workerUnsent EXCEPT ![w] = << >>]
    /\ linkUp' = [linkUp EXCEPT ![w] = FALSE]
    /\ UNCHANGED <<islandsSocket, dealerSocket>>
=============================================================================
