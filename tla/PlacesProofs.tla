---------------------------- MODULE PlacesProofs ----------------------------
(***************************************************************************)
(* What holds of the controller's maps and of an island's work under every *)
(* fault of Cluster, broken connections and restarts of the controller     *)
(* included: a worker is counted on only while its connection, or its      *)
(* WORKER_LEAVE, is there; a work_allocation_record is never orphaned; a   *)
(* call of run_evolve() has its work in one place of the controller.       *)
(* Until a connection breaks under a live worker it also gets its own      *)
(* results back, and the cluster implements the service of WorkService.    *)
(***************************************************************************)
EXTENDS ClusterProofs, FiniteSetTheorems

-----------------------------------------------------------------------------
(***************************************************************************)
(* One worker: S is what the controller has yet to read from it, unsent    *)
(* its queue, R what it has yet to read, T its thread, link whether it is  *)
(* connected, conn the connected workers, pool the free ones, work its     *)
(* entry in _workAllocationMap.                                            *)
(***************************************************************************)

\* WORKER_JOIN comes first and only from a worker that is not counted as
\* connected; WORKER_LEAVE comes last, of a connection that is gone, and is not
\* missing from one; a connected worker is on a connection or has it coming.
InOrder(w, S, unsent, link, conn) ==
    /\ \A n \in 1..Len(unsent) :
          unsent[n].type # "WORKER_JOIN" /\ unsent[n].type # "WORKER_LEAVE"
    /\ \A n \in 1..Len(S) : S[n].type = "WORKER_JOIN" => n = 1 /\ w \notin conn
    /\ \A n \in 1..Len(S) : S[n].type = "WORKER_LEAVE" => n = Len(S) /\ ~link
    /\ ~link /\ Len(S) > 0 => S[Len(S)].type = "WORKER_LEAVE"
    /\ w \in conn /\ ~link => Len(S) > 0

\* What AllocationIsServed says of one worker.
Served(S, R, T, work) ==
    \/ \E n \in 1..Len(S) : S[n].type = "WORKER_LEAVE"
    \/ T.work = work
    \/ \E n \in 1..Len(S) : S[n] = WORK_RESULTS(work)
    \/ \E n \in 1..Len(R) : R[n] = ALLOCATE_WORK(work)

\* A worker that is free has no work, and one with work is served.
Kept(w, S, unsent, R, T, link, conn, pool, work) ==
    /\ InOrder(w, S, unsent, link, conn)
    /\ w \in pool => work = NoWork /\ w \in conn
    /\ work # NoWork => w \in conn /\ Served(S, R, T, work)

-----------------------------------------------------------------------------
\* Reading the first message of a channel.
LEMMA ReceiveOne ==
    ASSUME NEW M, NEW s \in Seq(M), s # << >>
    PROVE  /\ Len(s) \in Nat \ {0} /\ 1 \in 1..Len(s) /\ Len(s) \in 1..Len(s)
           /\ Head(s) = s[1] /\ Head(s) \in M
           /\ Tail(s) \in Seq(M) /\ Len(Tail(s)) = Len(s) - 1
           /\ \A n \in 1..Len(Tail(s)) :
                 Tail(s)[n] = s[n + 1] /\ n + 1 \in 1..Len(s) /\ n + 1 # 1
<1>1. Len(s) \in Nat \ {0}
  OBVIOUS
<1>2. /\ 1 \in 1..Len(s) /\ Len(s) \in 1..Len(s)
      /\ Head(s) = s[1] /\ Head(s) \in M
  BY <1>1
<1>3. Tail(s) \in Seq(M) /\ Len(Tail(s)) = Len(s) - 1
  OBVIOUS
<1>4. \A n \in 1..(Len(s) - 1) : Tail(s)[n] = s[n + 1]
  BY <1>1
<1> QED
  BY <1>1, <1>2, <1>3, <1>4

\* The controller reads a message.
LEMMA OrderTail ==
    ASSUME NEW w, NEW S \in Seq(WorkerMessage), NEW unsent,
           NEW link \in BOOLEAN, NEW conn, InOrder(w, S, unsent, link, conn),
           S # << >>
    PROVE  /\ Head(S).type = "WORKER_JOIN" =>
                w \notin conn /\ InOrder(w, Tail(S), unsent, link, conn \cup {w})
           /\ Head(S).type = "WORKER_LEAVE" =>
                InOrder(w, Tail(S), unsent, link, conn \ {w})
           /\ Head(S).type \in {"GET_DLL", "WORK_RESULTS"} =>
                InOrder(w, Tail(S), unsent, link, conn)
<1>0. InOrder(w, S, unsent, link, conn)
  OBVIOUS
<1> DEFINE t == Tail(S)
<1>1. /\ Len(S) \in Nat \ {0} /\ 1 \in 1..Len(S) /\ Head(S) = S[1]
      /\ Len(t) = Len(S) - 1 /\ Len(S) \in 1..Len(S)
      /\ \A n \in 1..Len(t) : t[n] = S[n + 1] /\ n + 1 \in 1..Len(S) /\ n + 1 # 1
  BY ReceiveOne
<1> HIDE DEF t
<1>2. CASE Head(S).type = "WORKER_JOIN"
  <2>1. w \notin conn
    BY <1>0, <1>1, <1>2 DEF InOrder
  <2>2. ~link => Len(t) > 0
    BY <1>0, <1>1, <1>2 DEF InOrder
  <2>3. InOrder(w, t, unsent, link, conn \cup {w})
    BY <1>0, <1>1, <2>1, <2>2 DEF InOrder
  <2> QED
    BY <1>2, <2>1, <2>3 DEF t
<1>3. CASE Head(S).type = "WORKER_LEAVE"
  <2>1. Len(t) = 0 /\ ~link
    BY <1>0, <1>1, <1>3 DEF InOrder
  <2>2. InOrder(w, t, unsent, link, conn \ {w})
    BY <1>0, <2>1 DEF InOrder
  <2> QED
    BY <1>3, <2>2 DEF t
<1>4. CASE Head(S).type \in {"GET_DLL", "WORK_RESULTS"}
  <2>1. ~link => Len(t) > 0
    BY <1>0, <1>1, <1>4 DEF InOrder
  <2>2. InOrder(w, t, unsent, link, conn)
    BY <1>0, <1>1, <1>4, <2>1 DEF InOrder
  <2> QED
    BY <1>4, <2>2 DEF t
<1> QED
  BY <1>2, <1>3, <1>4

\* The worker sends a message, on its connection or into its queue.
LEMMA OrderSend ==
    ASSUME NEW w, NEW S \in Seq(WorkerMessage), NEW unsent \in Seq(WorkerMessage),
           NEW link \in BOOLEAN, NEW conn, InOrder(w, S, unsent, link, conn),
           NEW m, m.type # "WORKER_JOIN", m.type # "WORKER_LEAVE"
    PROVE  /\ link => InOrder(w, Append(S, m), unsent, link, conn)
           /\ InOrder(w, S, Append(unsent, m), link, conn)
<1>1. /\ Len(Append(S, m)) = Len(S) + 1 /\ Len(S) \in Nat
      /\ Append(S, m)[Len(S) + 1] = m
      /\ \A n \in 1..Len(S) : Append(S, m)[n] = S[n]
      /\ Append(S, m) # << >>
      /\ Len(Append(unsent, m)) = Len(unsent) + 1 /\ Len(unsent) \in Nat
      /\ Append(unsent, m)[Len(unsent) + 1] = m
      /\ \A n \in 1..Len(unsent) : Append(unsent, m)[n] = unsent[n]
  OBVIOUS
<1>2. link => InOrder(w, Append(S, m), unsent, link, conn)
  BY <1>1 DEF InOrder
<1>3. InOrder(w, S, Append(unsent, m), link, conn)
  BY <1>1 DEF InOrder
<1> QED
  BY <1>2, <1>3

\* ZeroMQ connects: hello message, then the queue.
LEMMA OrderConnect ==
    ASSUME NEW w, NEW unsent \in Seq(WorkerMessage), NEW conn,
           InOrder(w, << >>, unsent, FALSE, conn)
    PROVE  /\ w \notin conn
           /\ InOrder(w, <<WORKER_JOIN>> \o unsent, << >>, TRUE, conn)
<1> DEFINE J == <<WORKER_JOIN>> \o unsent
<1>1. /\ Len(J) = Len(unsent) + 1 /\ Len(unsent) \in Nat /\ J[1] = WORKER_JOIN
      /\ \A n \in 2..Len(J) : J[n] = unsent[n - 1] /\ n - 1 \in 1..Len(unsent)
      /\ Len(<< >>) = 0
  OBVIOUS
<1>2. w \notin conn
  BY DEF InOrder
<1> HIDE DEF J
<1>3. InOrder(w, J, << >>, TRUE, conn)
  BY <1>1, <1>2, MessageTypes DEF InOrder
<1> QED
  BY <1>2, <1>3 DEF J

\* A connection is lost.
LEMMA OrderLose ==
    ASSUME NEW w, NEW S \in Seq(WorkerMessage), NEW unsent, NEW conn,
           InOrder(w, S, unsent, TRUE, conn), NEW n \in 0..Len(S)
    PROVE  /\ InOrder(w, Append(SubSeq(S, 1, n), WORKER_LEAVE), unsent, FALSE, conn)
           /\ \E m \in 1..Len(Append(SubSeq(S, 1, n), WORKER_LEAVE)) :
                 Append(SubSeq(S, 1, n), WORKER_LEAVE)[m].type = "WORKER_LEAVE"
<1> DEFINE P == SubSeq(S, 1, n)
           L == Append(P, WORKER_LEAVE)
<1>1. /\ P \in Seq(WorkerMessage) /\ Len(P) = n /\ n \in Nat
      /\ \A m \in 1..n : P[m] = S[m] /\ m \in 1..Len(S)
  OBVIOUS
<1> HIDE DEF P
<1>2. /\ Len(L) = n + 1 /\ L[n + 1] = WORKER_LEAVE
      /\ \A m \in 1..n : L[m] = P[m]
  BY <1>1
<1> HIDE DEF L
<1>3. InOrder(w, L, unsent, FALSE, conn)
  BY <1>1, <1>2, MessageTypes DEF InOrder
<1>4. \E m \in 1..Len(L) : L[m].type = "WORKER_LEAVE"
  BY <1>2, MessageTypes
<1> QED
  BY <1>3, <1>4 DEF L, P

-----------------------------------------------------------------------------
(***************************************************************************)
(* How each step keeps one worker.                                         *)
(***************************************************************************)

\* The controller reads WORKER_JOIN, and the worker is free.
LEMMA KeptJoin ==
    ASSUME NEW w, NEW S \in Seq(WorkerMessage), NEW unsent, NEW R, NEW T,
           NEW link \in BOOLEAN, NEW conn, NEW pool, NEW work,
           Kept(w, S, unsent, R, T, link, conn, pool, work),
           S # << >>, Head(S).type = "WORKER_JOIN"
    PROVE  Kept(w, Tail(S), unsent, R, T, link, conn \cup {w},
                pool \cup {w}, work)
<1>1. w \notin conn /\ InOrder(w, Tail(S), unsent, link, conn \cup {w})
  BY OrderTail DEF Kept
<1> QED
  BY <1>1 DEF Kept

\* The controller reads WORKER_LEAVE, and forgets the worker.
LEMMA KeptLeave ==
    ASSUME NEW w, NEW S \in Seq(WorkerMessage), NEW unsent, NEW R, NEW T,
           NEW link \in BOOLEAN, NEW conn, NEW pool, NEW work,
           Kept(w, S, unsent, R, T, link, conn, pool, work),
           S # << >>, Head(S).type = "WORKER_LEAVE"
    PROVE  Kept(w, Tail(S), unsent, R, T, link, conn \ {w}, pool \ {w}, NoWork)
<1>1. InOrder(w, Tail(S), unsent, link, conn \ {w})
  BY OrderTail DEF Kept
<1> QED
  BY <1>1 DEF Kept

\* The controller reads WORK_RESULTS: the worker is free, or had no work.
LEMMA KeptResults ==
    ASSUME NEW w, NEW S \in Seq(WorkerMessage), NEW unsent, NEW R, NEW T,
           NEW link \in BOOLEAN, NEW conn, NEW pool, NEW work,
           Kept(w, S, unsent, R, T, link, conn, pool, work),
           S # << >>, Head(S).type = "WORK_RESULTS"
    PROVE  /\ work = NoWork =>
                Kept(w, Tail(S), unsent, R, T, link, conn, pool, work)
           /\ work # NoWork =>
                Kept(w, Tail(S), unsent, R, T, link, conn, pool \cup {w}, NoWork)
<1>1. InOrder(w, Tail(S), unsent, link, conn)
  BY OrderTail DEF Kept
<1> QED
  BY <1>1 DEF Kept

\* The controller reads GET_DLL and answers it: no work is forgotten.
LEMMA KeptGetDll ==
    ASSUME NEW w, NEW S \in Seq(WorkerMessage), NEW unsent,
           NEW R \in Seq(ControllerMessage), NEW T,
           NEW link \in BOOLEAN, NEW conn, NEW pool, NEW work,
           Kept(w, S, unsent, R, T, link, conn, pool, work),
           S # << >>, Head(S).type = "GET_DLL"
    PROVE  Kept(w, Tail(S), unsent, IF link THEN Append(R, DLL_BINARY) ELSE R,
                T, link, conn, pool, work)
<1> DEFINE Q == IF link THEN Append(R, DLL_BINARY) ELSE R
           t == Tail(S)
<1>1. InOrder(w, t, unsent, link, conn)
  BY OrderTail DEF Kept
<1>2. ASSUME NEW n \in 1..Len(S), S[n].type # "GET_DLL"
      PROVE  \E m \in 1..Len(t) : t[m] = S[n]
  <2>1. /\ Len(S) \in Nat /\ Head(S) = S[1] /\ Len(t) = Len(S) - 1
        /\ \A m \in 1..Len(t) : t[m] = S[m + 1]
    BY ReceiveOne
  <2> HIDE DEF t
  <2>2. n - 1 \in 1..Len(t) /\ t[n - 1] = S[n]
    BY <1>2, <2>1
  <2> QED
    BY <2>2
<1>3. \A n \in 1..Len(R) : n \in 1..Len(Q) /\ Q[n] = R[n]
  OBVIOUS
<1> HIDE DEF Q, t
<1>4. Served(S, R, T, work) => Served(t, Q, T, work)
  <2>1. CASE \E n \in 1..Len(S) : S[n].type = "WORKER_LEAVE"
    BY <1>2, <2>1 DEF Served
  <2>2. CASE \E n \in 1..Len(S) : S[n] = WORK_RESULTS(work)
    BY <1>2, <2>2, MessageTypes DEF Served
  <2>3. CASE \E n \in 1..Len(R) : R[n] = ALLOCATE_WORK(work)
    BY <1>3, <2>3 DEF Served
  <2> QED
    BY <2>1, <2>2, <2>3 DEF Served
<1>5. Kept(w, t, unsent, Q, T, link, conn, pool, work)
  BY <1>1, <1>4 DEF Kept
<1> QED
  BY <1>5 DEF Q, t

\* A connected worker that is not on a connection is served: its WORKER_LEAVE is
\* under way.
LEMMA LeaveServes ==
    ASSUME NEW w, NEW S \in Seq(WorkerMessage), NEW unsent,
           NEW link, NEW conn, InOrder(w, S, unsent, link, conn),
           w \in conn, ~link
    PROVE  \A R, T, work : Served(S, R, T, work)
<1>1. Len(S) \in 1..Len(S) /\ S[Len(S)].type = "WORKER_LEAVE"
  BY DEF InOrder
<1> QED
  BY <1>1 DEF Served

\* So is one to which its work has been sent.
LEMMA AllocationServes ==
    ASSUME NEW S, NEW R \in Seq(ControllerMessage), NEW T, NEW work
    PROVE  Served(S, Append(R, ALLOCATE_WORK(work)), T, work)
<1>1. /\ Len(R) + 1 \in 1..Len(Append(R, ALLOCATE_WORK(work)))
      /\ Append(R, ALLOCATE_WORK(work))[Len(R) + 1] = ALLOCATE_WORK(work)
  OBVIOUS
<1> QED
  BY <1>1 DEF Served

\* The worker starts the thread for the work that it reads.
LEMMA KeptStart ==
    ASSUME NEW w, NEW S, NEW unsent, NEW R \in Seq(ControllerMessage),
           NEW link, NEW conn, NEW pool, NEW work, NEW U,
           Kept(w, S, unsent, R, NoThread, link, conn, pool, work),
           R # << >>, U.work = Head(R).work
    PROVE  Kept(w, S, unsent, Tail(R), U, link, conn, pool, work)
<1> DEFINE t == Tail(R)
<1>1. /\ Len(R) \in Nat /\ Head(R) = R[1] /\ Len(t) = Len(R) - 1
      /\ \A m \in 1..Len(t) : t[m] = R[m + 1]
  BY ReceiveOne
<1> HIDE DEF t
<1>2. ASSUME work # NoWork, Served(S, R, NoThread, work)
      PROVE  Served(S, t, U, work)
  <2>1. NoThread.work # work
    BY <1>2 DEF NoThread
  <2>2. CASE \E n \in 1..Len(R) : R[n] = ALLOCATE_WORK(work)
    <3>1. PICK n \in 1..Len(R) : R[n] = ALLOCATE_WORK(work)
      BY <2>2
    <3>2. CASE n = 1
      BY <1>1, <3>1, <3>2, MessageTypes DEF Served
    <3>3. CASE n # 1
      <4>1. n - 1 \in 1..Len(t) /\ t[n - 1] = R[n]
        BY <1>1, <3>3
      <4> QED
        BY <3>1, <4>1 DEF Served
    <3> QED
      BY <3>2, <3>3
  <2> QED
    BY <1>2, <2>1, <2>2 DEF Served
<1> QED
  BY <1>2 DEF Kept, t

\* The worker reads DLL_BINARY, or its thread moves on.
LEMMA KeptPhase ==
    ASSUME NEW w, NEW S, NEW unsent, NEW R \in Seq(ControllerMessage),
           NEW T, NEW link, NEW conn, NEW pool, NEW work, NEW U,
           Kept(w, S, unsent, R, T, link, conn, pool, work),
           U.work = T.work
    PROVE  /\ Kept(w, S, unsent, R, U, link, conn, pool, work)
           /\ R # << >> /\ Head(R).type = "DLL_BINARY" =>
                Kept(w, S, unsent, Tail(R), U, link, conn, pool, work)
<1>1. Kept(w, S, unsent, R, U, link, conn, pool, work)
  BY DEF Kept, Served
<1>2. ASSUME R # << >>, Head(R).type = "DLL_BINARY"
      PROVE  Kept(w, S, unsent, Tail(R), U, link, conn, pool, work)
  <2> DEFINE t == Tail(R)
  <2>1. /\ Len(R) \in Nat /\ Head(R) = R[1] /\ Len(t) = Len(R) - 1
        /\ \A m \in 1..Len(t) : t[m] = R[m + 1]
    BY <1>2, ReceiveOne
  <2> HIDE DEF t
  <2>2. ASSUME NEW n \in 1..Len(R), R[n] = ALLOCATE_WORK(work)
        PROVE  n - 1 \in 1..Len(t) /\ t[n - 1] = R[n]
    BY <1>2, <2>1, <2>2, MessageTypes
  <2>3. Served(S, R, U, work) => Served(S, t, U, work)
    BY <2>2 DEF Served
  <2> QED
    BY <1>1, <2>3 DEF Kept, t
<1> QED
  BY <1>1, <1>2

\* The worker sends GET_DLL, or the results of its thread.
LEMMA KeptSend ==
    ASSUME NEW w, NEW S \in Seq(WorkerMessage), NEW unsent \in Seq(WorkerMessage),
           NEW R, NEW T, NEW link \in BOOLEAN, NEW conn, NEW pool, NEW work,
           NEW m, NEW U,
           Kept(w, S, unsent, R, T, link, conn, pool, work),
           m.type # "WORKER_JOIN", m.type # "WORKER_LEAVE",
           U.work = T.work \/ m = WORK_RESULTS(T.work)
    PROVE  /\ link => Kept(w, Append(S, m), unsent, R, U, link, conn, pool, work)
           /\ ~link => /\ Kept(w, S, Append(unsent, m), R, U, link, conn, pool, work)
                       /\ Kept(w, S, unsent, R, U, link, conn, pool, work)
<1>1. /\ InOrder(w, S, unsent, link, conn)
      /\ link => InOrder(w, Append(S, m), unsent, link, conn)
      /\ InOrder(w, S, Append(unsent, m), link, conn)
  BY OrderSend DEF Kept
<1> DEFINE A == Append(S, m)
<1>2. /\ \A n \in 1..Len(S) : n \in 1..Len(A) /\ A[n] = S[n]
      /\ Len(S) + 1 \in 1..Len(A) /\ A[Len(S) + 1] = m
  OBVIOUS
<1> HIDE DEF A
<1>3. ASSUME Served(S, R, T, work)
      PROVE  Served(A, R, U, work)
  <2>1. CASE T.work = work
    BY <1>2, <2>1 DEF Served
  <2>2. CASE T.work # work
    BY <1>2, <1>3, <2>2 DEF Served
  <2> QED
    BY <2>1, <2>2
<1>4. ASSUME ~link, w \in conn
      PROVE  Served(S, R, U, work)
  BY <1>1, <1>4, LeaveServes
<1>5. link => Kept(w, A, unsent, R, U, link, conn, pool, work)
  BY <1>1, <1>3 DEF Kept, A
<1>6. ~link => /\ Kept(w, S, Append(unsent, m), R, U, link, conn, pool, work)
               /\ Kept(w, S, unsent, R, U, link, conn, pool, work)
  BY <1>1, <1>4 DEF Kept
<1> QED
  BY <1>5, <1>6 DEF A

\* The worker connects.
LEMMA KeptConnect ==
    ASSUME NEW w, NEW unsent \in Seq(WorkerMessage), NEW R, NEW T, NEW conn,
           NEW pool, NEW work,
           Kept(w, << >>, unsent, R, T, FALSE, conn, pool, work)
    PROVE  Kept(w, <<WORKER_JOIN>> \o unsent, << >>, R, T, TRUE, conn, pool, work)
<1>1. /\ w \notin conn
      /\ InOrder(w, <<WORKER_JOIN>> \o unsent, << >>, TRUE, conn)
  BY OrderConnect DEF Kept
<1> QED
  BY <1>1 DEF Kept

\* The worker's connection is lost, and maybe its process with it.
LEMMA KeptLose ==
    ASSUME NEW w, NEW S \in Seq(WorkerMessage), NEW unsent, NEW R, NEW T,
           NEW conn, NEW pool, NEW work, NEW n \in 0..Len(S), NEW Q, NEW U,
           Kept(w, S, unsent, R, T, TRUE, conn, pool, work)
    PROVE  /\ Kept(w, Append(SubSeq(S, 1, n), WORKER_LEAVE), unsent, Q, U,
                   FALSE, conn, pool, work)
           /\ Kept(w, Append(SubSeq(S, 1, n), WORKER_LEAVE), << >>, Q, U,
                   FALSE, conn, pool, work)
<1> DEFINE L == Append(SubSeq(S, 1, n), WORKER_LEAVE)
<1>1. /\ InOrder(w, L, unsent, FALSE, conn)
      /\ \E m \in 1..Len(L) : L[m].type = "WORKER_LEAVE"
  BY OrderLose DEF Kept
<1> HIDE DEF L
<1>2. InOrder(w, L, << >>, FALSE, conn)
  BY <1>1 DEF InOrder
<1>3. Served(L, Q, U, work)
  BY <1>1 DEF Served
<1> QED
  BY <1>1, <1>2, <1>3 DEF Kept, L

\* The process of a worker that is not connected ends.
LEMMA KeptGone ==
    ASSUME NEW w, NEW S \in Seq(WorkerMessage), NEW unsent, NEW R, NEW T,
           NEW conn, NEW pool, NEW work, NEW Q, NEW U,
           Kept(w, S, unsent, R, T, FALSE, conn, pool, work)
    PROVE  Kept(w, S, << >>, Q, U, FALSE, conn, pool, work)
<1>1. InOrder(w, S, << >>, FALSE, conn)
  BY DEF Kept, InOrder
<1>2. ASSUME w \in conn PROVE Served(S, Q, U, work)
  BY <1>1, <1>2, LeaveServes
<1> QED
  BY <1>1, <1>2 DEF Kept

-----------------------------------------------------------------------------
(***************************************************************************)
(* All workers, in the middle of a handler: received is what is left to    *)
(* read, sent what the workers have yet to read, conn, pool and alloc are  *)
(* the containers as changed so far.                                       *)
(***************************************************************************)
AllKept(received, sent, conn, pool, alloc) ==
    \A x \in Workers :
        Kept(x, received[x], workerUnsent[x], sent[x], workerThread[x],
             linkUp[x], conn, pool, alloc[x])

WorkersKept ==
    AllKept(workersSocket, workerSocket, connectedWorkers, freeWorkersPool,
            workAllocationMap)

(***************************************************************************)
(* The inductive invariant.  RegisteredWorkers alone is not inductive: a   *)
(* WORKER_JOIN read from a worker with work, or a WORKER_LEAVE read from a *)
(* connection that is up, would break it, and InOrder rules them out.      *)
(***************************************************************************)
RegistrationInv ==
    /\ WorkersKept
    /\ connectedWorkers \subseteq workerRecords

\* _allocate_worker_to_island() hands work to a worker that has none, and does
\* not throw.
LEMMA AllocateWorkerKept ==
    ASSUME TypeOK,
           NEW pool \in SUBSET Workers,
           NEW alloc \in [Workers -> Work \cup {NoWork}],
           NEW waiting, NEW records, NEW work \in Work,
           workersSocket' \in [Workers -> Seq(WorkerMessage)],
           AllKept(workersSocket', workerSocket, connectedWorkers', pool, alloc),
           connectedWorkers' \subseteq records,
           AllocateWorkerToIsland(pool, alloc, waiting, records, work)
    PROVE  AllKept(workersSocket', workerSocket', connectedWorkers',
                   freeWorkersPool', workAllocationMap')
<1>1. PICK v \in SelectableWorkers(pool, work) :
        /\ SetMaps(pool \ {v}, Emplace(alloc, v, work), waiting)
        /\ IF v \in records
           THEN SendToWorker(v, ALLOCATE_WORK(work)) /\ UNCHANGED serverThread
           ELSE serverThread' = "dead" /\ UNCHANGED workerSocket
  BY DEF AllocateWorkerToIsland, worker_started_work_throws
<1>2. v \in pool /\ v \in Workers
  BY DEF SelectableWorkers
<1>3. Kept(v, workersSocket'[v], workerUnsent[v], workerSocket[v],
           workerThread[v], linkUp[v], connectedWorkers', pool, alloc[v])
  BY <1>2 DEF AllKept
<1>4. v \in records /\ alloc[v] = NoWork
  BY <1>2, <1>3 DEF Kept
<1>5. /\ linkUp[v] \in BOOLEAN /\ workersSocket'[v] \in Seq(WorkerMessage)
      /\ workerSocket[v] \in Seq(ControllerMessage)
  BY <1>2 DEF TypeOK, NetworkTypeOK
<1>7. /\ freeWorkersPool' = pool \ {v}
      /\ workAllocationMap' = [alloc EXCEPT ![v] = work]
  BY <1>1, <1>2, <1>4 DEF SetMaps, Emplace
<1>8. workerSocket' = IF linkUp[v]
            THEN [workerSocket EXCEPT ![v] = Append(@, ALLOCATE_WORK(work))]
            ELSE workerSocket
  BY <1>1, <1>4 DEF SendToWorker
<1>6. Served(workersSocket'[v], workerSocket'[v], workerThread[v], work)
  <2>1. CASE linkUp[v]
    <3>1. workerSocket'[v] = Append(workerSocket[v], ALLOCATE_WORK(work))
      BY <1>2, <1>8, <2>1 DEF TypeOK, NetworkTypeOK
    <3> QED
      BY <1>5, <3>1, AllocationServes
  <2>2. CASE ~linkUp[v]
    <3>1. /\ InOrder(v, workersSocket'[v], workerUnsent[v], linkUp[v],
                     connectedWorkers')
          /\ v \in connectedWorkers'
      BY <1>2, <1>3 DEF Kept
    <3> QED
      BY <1>5, <2>2, <3>1, LeaveServes
  <2> QED
    BY <2>1, <2>2
<1> SUFFICES ASSUME NEW x \in Workers
             PROVE  Kept(x, workersSocket'[x], workerUnsent[x], workerSocket'[x],
                         workerThread[x], linkUp[x], connectedWorkers',
                         freeWorkersPool', workAllocationMap'[x])
  BY DEF AllKept
<1>9. CASE x = v
  <2>1. workAllocationMap'[x] = work
    BY <1>2, <1>7, <1>9
  <2> QED
    BY <1>2, <1>3, <1>6, <1>7, <1>9, <2>1 DEF Kept
<1>10. CASE x # v
  <2>1. /\ workAllocationMap'[x] = alloc[x] /\ workerSocket'[x] = workerSocket[x]
    BY <1>2, <1>7, <1>8, <1>10 DEF TypeOK, NetworkTypeOK
  <2>2. Kept(x, workersSocket'[x], workerUnsent[x], workerSocket[x],
             workerThread[x], linkUp[x], connectedWorkers', pool, alloc[x])
    BY DEF AllKept
  <2> QED
    BY <1>7, <2>1, <2>2 DEF Kept
<1> QED
  BY <1>9, <1>10

\* So does _allocate_island_work().
LEMMA AllocateIslandKept ==
    ASSUME TypeOK,
           NEW pool \in SUBSET Workers,
           NEW alloc \in [Workers -> Work \cup {NoWork}],
           NEW waiting, NEW records, NEW work \in Work,
           workersSocket' \in [Workers -> Seq(WorkerMessage)],
           AllKept(workersSocket', workerSocket, connectedWorkers', pool, alloc),
           connectedWorkers' \subseteq records,
           AllocateIslandWork(pool, alloc, waiting, records, work)
    PROVE  AllKept(workersSocket', workerSocket', connectedWorkers',
                   freeWorkersPool', workAllocationMap')
<1>1. CASE pool = {}
  <2>1. /\ freeWorkersPool' = pool /\ workAllocationMap' = alloc
        /\ UNCHANGED workerSocket
    BY <1>1 DEF AllocateIslandWork, SetMaps
  <2> QED
    BY <2>1 DEF AllKept
<1>2. CASE pool # {}
  BY <1>2, AllocateWorkerKept DEF AllocateIslandWork
<1> QED
  BY <1>1, <1>2

\* So does _add_free_worker().
LEMMA AddFreeWorkerKept ==
    ASSUME TypeOK,
           NEW pool \in SUBSET Workers,
           NEW alloc \in [Workers -> Work \cup {NoWork}],
           NEW waiting \in [Islands -> Work \cup {NoWork}],
           NEW records, NEW w \in Workers,
           workersSocket' \in [Workers -> Seq(WorkerMessage)],
           AllKept(workersSocket', workerSocket, connectedWorkers', pool \cup {w},
                   alloc),
           connectedWorkers' \subseteq records,
           AddFreeWorker(pool, alloc, waiting, records, w)
    PROVE  AllKept(workersSocket', workerSocket', connectedWorkers',
                   freeWorkersPool', workAllocationMap')
<1>1. CASE WaitingIslands(waiting) = {}
  <2>1. /\ freeWorkersPool' = pool \cup {w} /\ workAllocationMap' = alloc
        /\ UNCHANGED workerSocket
    BY <1>1 DEF AddFreeWorker, SetMaps
  <2> QED
    BY <2>1 DEF AllKept
<1>2. CASE WaitingIslands(waiting) # {}
  <2>1. PICK i \in WaitingIslands(waiting) :
          AllocateWorkerToIsland(pool \cup {w}, alloc,
            [waiting EXCEPT ![i] = NoWork], records, waiting[i])
    BY <1>2 DEF AddFreeWorker
  <2>2. waiting[i] \in Work
    BY DEF WaitingIslands
  <2> QED
    BY <2>1, <2>2, AllocateWorkerKept
<1> QED
  BY <1>1, <1>2

\* What the proofs below use of the types.
LEMMA KeptTypes ==
    ASSUME TypeOK
    PROVE  /\ freeWorkersPool \in SUBSET Workers
           /\ workAllocationMap \in [Workers -> Work \cup {NoWork}]
           /\ islandsWaitingForAlloc \in [Islands -> Work \cup {NoWork}]
           /\ workersSocket \in [Workers -> Seq(WorkerMessage)]
           /\ workerSocket \in [Workers -> Seq(ControllerMessage)]
           /\ workerUnsent \in [Workers -> Seq(WorkerMessage)]
           /\ linkUp \in [Workers -> BOOLEAN]
BY DEF TypeOK, ControllerTypeOK, NetworkTypeOK

\* The handlers of the worker socket.
LEMMA ControllerWorkerKept ==
    ASSUME TypeOK, TypeOK', RegistrationInv, NEW w \in Workers,
           ControllerHandlesWorker(w)
    PROVE  RegistrationInv'
<1>0. UNCHANGED <<linkUp, workerThread, workerUnsent>>
  BY DEF ControllerHandlesWorker, HandleWorkerJoin, HandleWorkerLeave,
         HandleWorkResults, HandleGetDll, workerVars
<1>1. /\ freeWorkersPool \in SUBSET Workers
      /\ workAllocationMap \in [Workers -> Work \cup {NoWork}]
      /\ islandsWaitingForAlloc \in [Islands -> Work \cup {NoWork}]
      /\ workersSocket \in [Workers -> Seq(WorkerMessage)]
      /\ workersSocket' \in [Workers -> Seq(WorkerMessage)]
      /\ workerSocket \in [Workers -> Seq(ControllerMessage)]
      /\ linkUp \in [Workers -> BOOLEAN]
  BY KeptTypes DEF TypeOK, NetworkTypeOK
<1>2. ASSUME NEW x \in Workers
      PROVE  Kept(x, workersSocket[x], workerUnsent[x], workerSocket[x],
                  workerThread[x], linkUp[x], connectedWorkers,
                  freeWorkersPool, workAllocationMap[x])
  BY DEF RegistrationInv, WorkersKept, AllKept
<1>2a. /\ workersSocket[w] \in Seq(WorkerMessage) /\ linkUp[w] \in BOOLEAN
      /\ Kept(w, workersSocket[w], workerUnsent[w], workerSocket[w],
              workerThread[w], linkUp[w], connectedWorkers,
              freeWorkersPool, workAllocationMap[w])
  BY <1>1, <1>2
<1>3. ASSUME TakeFromWorker(w)
      PROVE  /\ workersSocket'[w] = Tail(workersSocket[w])
             /\ \A x \in Workers \ {w} : workersSocket'[x] = workersSocket[x]
  BY <1>1, <1>3 DEF TakeFromWorker
<1>4. connectedWorkers \subseteq workerRecords
  BY DEF RegistrationInv
<1> DEFINE emptied == [workAllocationMap EXCEPT ![w] = NoWork]
<1>5. /\ emptied \in [Workers -> Work \cup {NoWork}] /\ emptied[w] = NoWork
      /\ \A x \in Workers \ {w} : emptied[x] = workAllocationMap[x]
      /\ workAllocationMap[w] = NoWork => emptied = workAllocationMap
  BY <1>1
<1> HIDE DEF emptied
<1>6. CASE HandleWorkerJoin(w)
  <2>1. /\ workersSocket[w] # << >> /\ Head(workersSocket[w]).type = "WORKER_JOIN"
        /\ TakeFromWorker(w)
    BY <1>6 DEF HandleWorkerJoin, HasFromWorker
  <2>2. w \notin freeWorkersPool
    BY <1>2a, <2>1, OrderTail DEF Kept
  <2>2a. Kept(w, Tail(workersSocket[w]), workerUnsent[w], workerSocket[w],
              workerThread[w], linkUp[w], connectedWorkers \cup {w},
              freeWorkersPool \cup {w}, workAllocationMap[w])
    BY <1>2a, <2>1, KeptJoin
  <2>3. /\ workerRecords' = workerRecords \cup {w}
        /\ connectedWorkers' = connectedWorkers \cup {w}
        /\ AddFreeWorker(freeWorkersPool, workAllocationMap,
                         islandsWaitingForAlloc, workerRecords', w)
    BY <1>6, <2>2 DEF HandleWorkerJoin, worker_joined
  <2>4. AllKept(workersSocket', workerSocket, connectedWorkers',
                freeWorkersPool \cup {w}, workAllocationMap)
    <3> SUFFICES ASSUME NEW x \in Workers
                 PROVE  Kept(x, workersSocket'[x], workerUnsent[x],
                          workerSocket[x], workerThread[x], linkUp[x],
                          connectedWorkers', freeWorkersPool \cup {w},
                          workAllocationMap[x])
      BY DEF AllKept
    <3>1. CASE x = w
      BY <1>3, <2>1, <2>2a, <2>3, <3>1
    <3>2. CASE x # w
      BY <1>2, <1>3, <2>1, <2>3, <3>2 DEF Kept, InOrder
    <3> QED
      BY <3>1, <3>2
  <2>5. connectedWorkers' \subseteq workerRecords'
    BY <1>4, <2>3
  <2>6. AllKept(workersSocket', workerSocket', connectedWorkers',
                freeWorkersPool', workAllocationMap')
    BY <1>1, <2>3, <2>4, <2>5, AddFreeWorkerKept
  <2> QED
    BY <1>0, <2>5, <2>6 DEF RegistrationInv, WorkersKept, AllKept
<1>7. CASE HandleWorkerLeave(w)
  <2>1. /\ workersSocket[w] # << >> /\ Head(workersSocket[w]).type = "WORKER_LEAVE"
        /\ TakeFromWorker(w)
    BY <1>7 DEF HandleWorkerLeave, HasFromWorker
  <2> DEFINE pool == freeWorkersPool \ {w}
  <2>2. Kept(w, Tail(workersSocket[w]), workerUnsent[w], workerSocket[w],
             workerThread[w], linkUp[w], connectedWorkers \ {w}, pool, NoWork)
    BY <1>2a, <2>1, KeptLeave
  <2>3. /\ workerRecords' = workerRecords
        /\ connectedWorkers' = connectedWorkers \ {w}
        /\ IF workAllocationMap[w] = NoWork
           THEN /\ freeWorkersPool' = pool /\ UNCHANGED workerSocket
                /\ workAllocationMap' = workAllocationMap
           ELSE AllocateIslandWork(pool, emptied, islandsWaitingForAlloc,
                                   workerRecords, workAllocationMap[w])
    BY <1>7 DEF HandleWorkerLeave, worker_left, SetMaps, emptied
  <2> HIDE DEF pool
  <2>4. AllKept(workersSocket', workerSocket, connectedWorkers', pool, emptied)
    <3> SUFFICES ASSUME NEW x \in Workers
                 PROVE  Kept(x, workersSocket'[x], workerUnsent[x],
                          workerSocket[x], workerThread[x], linkUp[x],
                          connectedWorkers', pool, emptied[x])
      BY DEF AllKept
    <3>1. CASE x = w
      BY <1>3, <1>5, <2>1, <2>2, <2>3, <3>1
    <3>2. CASE x # w
      BY <1>2, <1>3, <1>5, <2>1, <2>3, <3>2 DEF Kept, InOrder, pool
    <3> QED
      BY <3>1, <3>2
  <2>5. connectedWorkers' \subseteq workerRecords'
    BY <1>4, <2>3
  <2>6. CASE workAllocationMap[w] = NoWork
    BY <1>0, <1>5, <2>3, <2>4, <2>5, <2>6 DEF RegistrationInv, WorkersKept, AllKept
  <2>7. CASE workAllocationMap[w] # NoWork
    <3>1. workAllocationMap[w] \in Work /\ pool \in SUBSET Workers
      BY <1>1, <2>7 DEF pool
    <3>2. AllKept(workersSocket', workerSocket', connectedWorkers',
                  freeWorkersPool', workAllocationMap')
      BY <1>1, <1>5, <2>3, <2>4, <2>5, <2>7, <3>1, AllocateIslandKept
    <3> QED
      BY <1>0, <2>5, <3>2 DEF RegistrationInv, WorkersKept, AllKept
  <2> QED
    BY <2>6, <2>7
<1>8. CASE HandleWorkResults(w)
  <2>1. /\ workersSocket[w] # << >> /\ Head(workersSocket[w]).type = "WORK_RESULTS"
        /\ TakeFromWorker(w)
        /\ UNCHANGED <<connectedWorkers, workerRecords>>
    BY <1>8 DEF HandleWorkResults, HasFromWorker, repositoryVars
  <2>2. CASE workAllocationMap[w] = NoWork
    <3>1. Kept(w, Tail(workersSocket[w]), workerUnsent[w], workerSocket[w],
               workerThread[w], linkUp[w], connectedWorkers, freeWorkersPool,
               workAllocationMap[w])
      BY <1>2a, <2>1, <2>2, KeptResults
    <3>2. UNCHANGED <<freeWorkersPool, workAllocationMap, workerSocket>>
      BY <1>8, <2>2 DEF HandleWorkResults
    <3> SUFFICES ASSUME NEW x \in Workers
                 PROVE  Kept(x, workersSocket'[x], workerUnsent[x],
                          workerSocket[x], workerThread[x], linkUp[x],
                          connectedWorkers, freeWorkersPool,
                          workAllocationMap[x])
      BY <1>0, <1>4, <2>1, <3>2 DEF RegistrationInv, WorkersKept, AllKept
    <3>3. CASE x = w
      BY <1>3, <2>1, <3>1, <3>3
    <3>4. CASE x # w
      BY <1>2, <1>3, <2>1, <3>4
    <3> QED
      BY <3>3, <3>4
  <2>3. CASE workAllocationMap[w] # NoWork
    <3>1. Kept(w, Tail(workersSocket[w]), workerUnsent[w], workerSocket[w],
               workerThread[w], linkUp[w], connectedWorkers,
               freeWorkersPool \cup {w}, NoWork)
      BY <1>2a, <2>1, <2>3, KeptResults
    <3>2. w \in workerRecords
      BY <1>2, <1>4, <2>3 DEF Kept
    <3>3. AddFreeWorker(freeWorkersPool, emptied, islandsWaitingForAlloc,
                        workerRecords, w)
      BY <1>8, <2>3, <3>2
      DEF HandleWorkResults, worker_finished_work_throws, emptied
    <3>4. AllKept(workersSocket', workerSocket, connectedWorkers',
                  freeWorkersPool \cup {w}, emptied)
      <4> SUFFICES ASSUME NEW x \in Workers
                   PROVE  Kept(x, workersSocket'[x], workerUnsent[x],
                            workerSocket[x], workerThread[x], linkUp[x],
                            connectedWorkers, freeWorkersPool \cup {w},
                            emptied[x])
        BY <2>1 DEF AllKept
      <4>1. CASE x = w
        BY <1>3, <1>5, <2>1, <3>1, <4>1
      <4>2. CASE x # w
        BY <1>2, <1>3, <1>5, <2>1, <4>2 DEF Kept
      <4> QED
        BY <4>1, <4>2
    <3>5. AllKept(workersSocket', workerSocket', connectedWorkers',
                  freeWorkersPool', workAllocationMap')
      BY <1>1, <1>4, <1>5, <2>1, <3>3, <3>4, AddFreeWorkerKept
    <3> QED
      BY <1>0, <1>4, <2>1, <3>5 DEF RegistrationInv, WorkersKept, AllKept
  <2> QED
    BY <2>2, <2>3
<1>9. CASE HandleGetDll(w)
  <2>1. /\ workersSocket[w] # << >> /\ Head(workersSocket[w]).type = "GET_DLL"
        /\ TakeFromWorker(w) /\ SendToWorker(w, DLL_BINARY)
        /\ UNCHANGED <<connectedWorkers, workerRecords, freeWorkersPool,
                       workAllocationMap>>
    BY <1>9 DEF HandleGetDll, HasFromWorker, controllerVars
  <2>2. Kept(w, Tail(workersSocket[w]), workerUnsent[w],
          IF linkUp[w] THEN Append(workerSocket[w], DLL_BINARY)
                       ELSE workerSocket[w],
          workerThread[w], linkUp[w], connectedWorkers, freeWorkersPool,
          workAllocationMap[w])
    BY <1>1, <1>2, <2>1, KeptGetDll
  <2>3. /\ workerSocket'[w] =
             IF linkUp[w] THEN Append(workerSocket[w], DLL_BINARY)
                          ELSE workerSocket[w]
        /\ \A x \in Workers \ {w} : workerSocket'[x] = workerSocket[x]
    BY <1>1, <2>1 DEF SendToWorker
  <2> SUFFICES ASSUME NEW x \in Workers
               PROVE  Kept(x, workersSocket'[x], workerUnsent[x],
                        workerSocket'[x], workerThread[x], linkUp[x],
                        connectedWorkers, freeWorkersPool,
                        workAllocationMap[x])
    BY <1>0, <1>4, <2>1 DEF RegistrationInv, WorkersKept, AllKept
  <2>4. CASE x = w
    BY <1>3, <2>1, <2>2, <2>3, <2>4
  <2>5. CASE x # w
    BY <1>2, <1>3, <2>1, <2>3, <2>5
  <2> QED
    BY <2>4, <2>5
<1> QED
  BY <1>6, <1>7, <1>8, <1>9 DEF ControllerHandlesWorker

\* The handler of the island socket.
LEMMA ControllerIslandKept ==
    ASSUME TypeOK, RegistrationInv, NEW i \in Islands, ControllerHandlesIsland(i)
    PROVE  RegistrationInv'
<1>1. /\ HandleAllocateWork(i)
      /\ UNCHANGED <<linkUp, workerThread, workerUnsent, workersSocket,
                     connectedWorkers, workerRecords>>
  BY DEF ControllerHandlesIsland, HandleAllocateWork, workerVars,
         repositoryVars
<1>2. /\ Head(islandsSocket[i]) \in Work
      /\ workersSocket' \in [Workers -> Seq(WorkerMessage)]
  BY <1>1, TailAtType DEF TypeOK, NetworkTypeOK, HandleAllocateWork
<1>3. /\ AllKept(workersSocket', workerSocket, connectedWorkers', freeWorkersPool,
                 workAllocationMap)
      /\ connectedWorkers' \subseteq workerRecords
  BY <1>1 DEF RegistrationInv, WorkersKept, AllKept
<1>4. AllocateIslandWork(freeWorkersPool, workAllocationMap,
        islandsWaitingForAlloc, workerRecords, Head(islandsSocket[i]))
  BY <1>1 DEF HandleAllocateWork
<1>5. AllKept(workersSocket', workerSocket', connectedWorkers',
              freeWorkersPool', workAllocationMap')
  BY <1>2, <1>3, <1>4, AllocateIslandKept, KeptTypes
<1> QED
  BY <1>1, <1>3, <1>5 DEF RegistrationInv, WorkersKept, AllKept

\* A step that concerns one worker only, and not the controller's containers.
LEMMA OneKeptMoves ==
    ASSUME RegistrationInv, NEW w \in Workers, UNCHANGED controllerVars,
           Kept(w, workersSocket'[w], workerUnsent'[w], workerSocket'[w],
                workerThread'[w], linkUp'[w], connectedWorkers,
                freeWorkersPool, workAllocationMap[w]),
           \A x \in Workers \ {w} :
              /\ linkUp'[x] = linkUp[x]
              /\ workersSocket'[x] = workersSocket[x]
              /\ workerSocket'[x] = workerSocket[x]
              /\ workerThread'[x] = workerThread[x]
              /\ workerUnsent'[x] = workerUnsent[x]
    PROVE  RegistrationInv'
<1>1. ASSUME NEW x \in Workers
      PROVE  Kept(x, workersSocket'[x], workerUnsent'[x], workerSocket'[x],
                  workerThread'[x], linkUp'[x], connectedWorkers,
                  freeWorkersPool, workAllocationMap[x])
  <2>1. CASE x = w
    BY <2>1
  <2>2. CASE x # w
    <3>1. Kept(x, workersSocket[x], workerUnsent[x], workerSocket[x],
               workerThread[x], linkUp[x], connectedWorkers,
               freeWorkersPool, workAllocationMap[x])
      BY DEF RegistrationInv, WorkersKept, AllKept
    <3> QED
      BY <2>2, <3>1
  <2> QED
    BY <2>1, <2>2
<1>2. UNCHANGED <<connectedWorkers, workerRecords, freeWorkersPool,
                  workAllocationMap>>
  BY DEF controllerVars
<1> QED
  BY <1>1, <1>2 DEF RegistrationInv, WorkersKept, AllKept

\* A worker's connection is lost, and maybe its process with it.
LEMMA LoseKept ==
    ASSUME TypeOK, RegistrationInv, NEW w \in Workers, LoseFromWorker(w),
           NEW unsent,
           unsent = << >> \/ (unsent = workerUnsent[w] /\ linkUp[w] = TRUE)
    PROVE  /\ \A Q, U : Kept(w, workersSocket'[w], unsent, Q, U, FALSE,
                   connectedWorkers, freeWorkersPool, workAllocationMap[w])
           /\ \A x \in Workers \ {w} : workersSocket'[x] = workersSocket[x]
<1>1. /\ workersSocket[w] \in Seq(WorkerMessage) /\ linkUp[w] \in BOOLEAN
      /\ workersSocket \in [Workers -> Seq(WorkerMessage)]
      /\ Kept(w, workersSocket[w], workerUnsent[w], workerSocket[w],
              workerThread[w], linkUp[w], connectedWorkers,
              freeWorkersPool, workAllocationMap[w])
  BY KeptTypes DEF RegistrationInv, WorkersKept, AllKept
<1>2. CASE linkUp[w]
  <2>1. PICK n \in 0..Len(workersSocket[w]) :
          workersSocket' = [workersSocket EXCEPT
             ![w] = Append(SubSeq(@, 1, n), WORKER_LEAVE)]
    BY <1>2 DEF LoseFromWorker
  <2>2. /\ workersSocket'[w] = Append(SubSeq(workersSocket[w], 1, n), WORKER_LEAVE)
        /\ \A x \in Workers \ {w} : workersSocket'[x] = workersSocket[x]
    BY <1>1, <2>1
  <2>3. Kept(w, workersSocket[w], workerUnsent[w], workerSocket[w],
             workerThread[w], TRUE, connectedWorkers,
             freeWorkersPool, workAllocationMap[w])
    BY <1>1, <1>2
  <2>4. ASSUME NEW Q, NEW U
        PROVE  /\ Kept(w, Append(SubSeq(workersSocket[w], 1, n), WORKER_LEAVE),
                       workerUnsent[w], Q, U, FALSE, connectedWorkers,
                       freeWorkersPool, workAllocationMap[w])
               /\ Kept(w, Append(SubSeq(workersSocket[w], 1, n), WORKER_LEAVE),
                       << >>, Q, U, FALSE, connectedWorkers,
                       freeWorkersPool, workAllocationMap[w])
    BY <1>1, <2>3, KeptLose
  <2> QED
    BY <2>2, <2>4
<1>3. CASE ~linkUp[w]
  <2>1. workersSocket' = workersSocket /\ unsent = << >>
    BY <1>3 DEF LoseFromWorker
  <2>2. Kept(w, workersSocket[w], workerUnsent[w], workerSocket[w],
             workerThread[w], FALSE, connectedWorkers,
             freeWorkersPool, workAllocationMap[w])
    BY <1>1, <1>3
  <2>3. ASSUME NEW Q, NEW U
        PROVE  Kept(w, workersSocket[w], << >>, Q, U, FALSE, connectedWorkers,
                    freeWorkersPool, workAllocationMap[w])
    BY <1>1, <2>2, KeptGone
  <2> QED
    BY <2>1, <2>3
<1> QED
  BY <1>2, <1>3

\* The end of a worker's process.
LEMMA ExitKept ==
    ASSUME TypeOK, RegistrationInv, NEW w \in Workers, Exit(w),
           UNCHANGED controllerVars
    PROVE  RegistrationInv'
<1>1. /\ linkUp'[w] = FALSE /\ workerUnsent'[w] = << >> /\ LoseFromWorker(w)
      /\ \A x \in Workers \ {w} : /\ linkUp'[x] = linkUp[x]
                                  /\ workerSocket'[x] = workerSocket[x]
                                  /\ workerThread'[x] = workerThread[x]
                                  /\ workerUnsent'[x] = workerUnsent[x]
  BY DEF Exit, DropProcess, TypeOK, NetworkTypeOK, WorkerTypeOK
<1>2. /\ \A Q, U : Kept(w, workersSocket'[w], << >>, Q, U, FALSE,
              connectedWorkers, freeWorkersPool, workAllocationMap[w])
      /\ \A x \in Workers \ {w} : workersSocket'[x] = workersSocket[x]
  BY <1>1, LoseKept
<1>3. Kept(w, workersSocket'[w], workerUnsent'[w], workerSocket'[w],
           workerThread'[w], linkUp'[w], connectedWorkers,
           freeWorkersPool, workAllocationMap[w])
  BY <1>1, <1>2
<1> QED
  BY <1>1, <1>2, <1>3, OneKeptMoves

\* A worker's message, on its connection or into its queue.
LEMMA SendKept ==
    ASSUME TypeOK, RegistrationInv, NEW w \in Workers, NEW m,
           SendToController(w, m),
           m.type # "WORKER_JOIN", m.type # "WORKER_LEAVE",
           workerThread'[w].work = workerThread[w].work
             \/ m = WORK_RESULTS(workerThread[w].work),
           \A x \in Workers \ {w} : workerThread'[x] = workerThread[x],
           UNCHANGED <<controllerVars, workerSocket, linkUp>>
    PROVE  RegistrationInv'
<1>1. /\ workersSocket[w] \in Seq(WorkerMessage) /\ linkUp[w] \in BOOLEAN
      /\ workerUnsent[w] \in Seq(WorkerMessage)
      /\ Kept(w, workersSocket[w], workerUnsent[w], workerSocket[w],
              workerThread[w], linkUp[w], connectedWorkers,
              freeWorkersPool, workAllocationMap[w])
  BY KeptTypes DEF RegistrationInv, WorkersKept, AllKept
<1>2. /\ workersSocket \in [Workers -> Seq(WorkerMessage)]
      /\ workerUnsent \in [Workers -> Seq(WorkerMessage)]
  BY KeptTypes
<1>3. \A x \in Workers \ {w} : /\ workersSocket'[x] = workersSocket[x]
                               /\ workerUnsent'[x] = workerUnsent[x]
  BY <1>2 DEF SendToController
<1>4. Kept(w, workersSocket'[w], workerUnsent'[w], workerSocket[w],
           workerThread'[w], linkUp[w], connectedWorkers,
           freeWorkersPool, workAllocationMap[w])
  <2>1. CASE linkUp[w]
    <3>1. Kept(w, workersSocket[w], workerUnsent[w], workerSocket[w],
               workerThread[w], TRUE, connectedWorkers,
               freeWorkersPool, workAllocationMap[w])
      BY <1>1, <2>1
    <3>2. Kept(w, Append(workersSocket[w], m), workerUnsent[w], workerSocket[w],
               workerThread'[w], TRUE, connectedWorkers,
               freeWorkersPool, workAllocationMap[w])
      BY <1>1, <3>1, KeptSend
    <3>3. /\ workersSocket'[w] = Append(workersSocket[w], m)
          /\ workerUnsent' = workerUnsent
      BY <1>2, <2>1 DEF SendToController
    <3> QED
      BY <1>1, <2>1, <3>2, <3>3
  <2>2. CASE ~linkUp[w]
    <3>1. Kept(w, workersSocket[w], workerUnsent[w], workerSocket[w],
               workerThread[w], FALSE, connectedWorkers,
               freeWorkersPool, workAllocationMap[w])
      BY <1>1, <2>2
    <3>2. /\ Kept(w, workersSocket[w], Append(workerUnsent[w], m),
                  workerSocket[w], workerThread'[w], FALSE, connectedWorkers,
                  freeWorkersPool, workAllocationMap[w])
          /\ Kept(w, workersSocket[w], workerUnsent[w], workerSocket[w],
                  workerThread'[w], FALSE, connectedWorkers,
                  freeWorkersPool, workAllocationMap[w])
      BY <1>1, <3>1, KeptSend
    <3>3. /\ workersSocket' = workersSocket
          /\ \/ workerUnsent'[w] = Append(workerUnsent[w], m)
             \/ workerUnsent' = workerUnsent
      BY <1>2, <2>2 DEF SendToController
    <3> QED
      BY <1>1, <2>2, <3>2, <3>3
  <2> QED
    BY <2>1, <2>2
<1> QED
  BY <1>3, <1>4, OneKeptMoves

\* The worker's message loop and its thread.
LEMMA WorkerRunsKept ==
    ASSUME TypeOK, RegistrationInv, NEW w \in Workers, WorkerRuns(w)
    PROVE  RegistrationInv'
<1>0. UNCHANGED controllerVars
  BY DEF WorkerRuns
<1>1. /\ workerSocket[w] \in Seq(ControllerMessage)
      /\ Kept(w, workersSocket[w], workerUnsent[w], workerSocket[w],
              workerThread[w], linkUp[w], connectedWorkers,
              freeWorkersPool, workAllocationMap[w])
  BY KeptTypes DEF RegistrationInv, WorkersKept, AllKept
<1>2. /\ workerSocket \in [Workers -> Seq(ControllerMessage)]
      /\ workerThread \in [Workers -> Thread \cup {NoThread}]
  BY DEF TypeOK, NetworkTypeOK, WorkerTypeOK
<1>3. ASSUME NEW p, SetPhase(w, p)
      PROVE  /\ workerThread'[w].work = workerThread[w].work
             /\ \A x \in Workers \ {w} : workerThread'[x] = workerThread[x]
  BY <1>2, <1>3 DEF SetPhase, Thread, NoThread
<1>4. CASE StartWorkerThread(w)
  <2> DEFINE U == [phase |-> "load", work |-> Head(workerSocket[w]).work]
  <2>1. /\ workerSocket[w] # << >> /\ workerThread[w] = NoThread
        /\ UNCHANGED <<linkUp, workersSocket, workerUnsent>>
    BY <1>4 DEF StartWorkerThread, HasFromController
  <2>2. /\ workerSocket'[w] = Tail(workerSocket[w]) /\ workerThread'[w] = U
        /\ \A x \in Workers \ {w} : /\ workerSocket'[x] = workerSocket[x]
                                    /\ workerThread'[x] = workerThread[x]
    BY <1>2, <1>4 DEF StartWorkerThread, TakeFromController
  <2>3. U.work = Head(workerSocket[w]).work
    OBVIOUS
  <2> HIDE DEF U
  <2>4. Kept(w, workersSocket[w], workerUnsent[w], workerSocket[w],
             NoThread, linkUp[w], connectedWorkers,
             freeWorkersPool, workAllocationMap[w])
    BY <1>1, <2>1
  <2>5. Kept(w, workersSocket[w], workerUnsent[w], Tail(workerSocket[w]), U,
             linkUp[w], connectedWorkers, freeWorkersPool, workAllocationMap[w])
    BY <1>1, <2>1, <2>3, <2>4, KeptStart
  <2> QED
    BY <1>0, <2>1, <2>2, <2>5, OneKeptMoves
<1>5. CASE StartOverRunningThread(w)
  BY <1>0, <1>5, ExitKept DEF StartOverRunningThread
<1>6. CASE HandleDllBinary(w)
  <2>1. /\ workerSocket[w] # << >> /\ Head(workerSocket[w]).type = "DLL_BINARY"
        /\ UNCHANGED <<linkUp, workersSocket, workerUnsent>>
        /\ workerSocket'[w] = Tail(workerSocket[w])
        /\ \A x \in Workers \ {w} : workerSocket'[x] = workerSocket[x]
    BY <1>2, <1>6 DEF HandleDllBinary, HasFromController, TakeFromController
  <2>2. /\ workerThread'[w].work = workerThread[w].work
        /\ \A x \in Workers \ {w} : workerThread'[x] = workerThread[x]
    BY <1>3, <1>6 DEF HandleDllBinary
  <2>3. Kept(w, workersSocket[w], workerUnsent[w], Tail(workerSocket[w]),
             workerThread'[w], linkUp[w], connectedWorkers,
             freeWorkersPool, workAllocationMap[w])
    BY <1>1, <2>1, <2>2, KeptPhase
  <2> QED
    BY <1>0, <2>1, <2>2, <2>3, OneKeptMoves
<1>7. CASE LoadWork(w) \/ Evolve(w)
  <2>1. /\ UNCHANGED <<linkUp, workersSocket, workerUnsent, workerSocket>>
        /\ workerThread'[w].work = workerThread[w].work
        /\ \A x \in Workers \ {w} : workerThread'[x] = workerThread[x]
    BY <1>3, <1>7 DEF LoadWork, Evolve, networkVars
  <2>2. Kept(w, workersSocket[w], workerUnsent[w], workerSocket[w],
             workerThread'[w], linkUp[w], connectedWorkers,
             freeWorkersPool, workAllocationMap[w])
    BY <1>1, <2>1, KeptPhase
  <2> QED
    BY <1>0, <2>1, <2>2, OneKeptMoves
<1>8. CASE RequestDll(w)
  <2>1. /\ UNCHANGED <<linkUp, workerSocket>> /\ SendToController(w, GET_DLL)
        /\ workerThread'[w].work = workerThread[w].work
        /\ \A x \in Workers \ {w} : workerThread'[x] = workerThread[x]
    BY <1>3, <1>8 DEF RequestDll
  <2> QED
    BY <1>0, <2>1, SendKept, MessageTypes
<1>9. CASE HandleThreadResults(w)
  <2>1. /\ UNCHANGED <<linkUp, workerSocket>>
        /\ SendToController(w, WORK_RESULTS(workerThread[w].work))
        /\ \A x \in Workers \ {w} : workerThread'[x] = workerThread[x]
    BY <1>2, <1>9 DEF HandleThreadResults
  <2> QED
    BY <1>0, <2>1, SendKept, MessageTypes
<1> QED
  BY <1>4, <1>5, <1>6, <1>7, <1>8, <1>9 DEF WorkerRuns

\* A worker connects, starts or dies, or its connection breaks.
LEMMA WorkerFaultsKept ==
    ASSUME TypeOK, RegistrationInv, NEW w \in Workers,
           \/ WorkerConnects(w) \/ WorkerStarts(w)
           \/ WorkerDies(w) \/ LinkBreaks(w)
    PROVE  RegistrationInv'
<1>0. UNCHANGED controllerVars
  BY DEF WorkerConnects, WorkerStarts, WorkerDies, LinkBreaks
<1>1. CASE WorkerConnects(w)
  <2>1. Connect(w) /\ UNCHANGED workerThread
    BY <1>1 DEF WorkerConnects, WorkerConnect, workerVars
  <2>2. linkUp[w] = FALSE /\ workersSocket[w] = << >>
    BY <2>1, KeptTypes DEF Connect
  <2>3. /\ workerUnsent[w] \in Seq(WorkerMessage)
        /\ Kept(w, << >>, workerUnsent[w], workerSocket[w],
                workerThread[w], FALSE, connectedWorkers,
                freeWorkersPool, workAllocationMap[w])
    BY <2>2, KeptTypes DEF RegistrationInv, WorkersKept, AllKept
  <2>4. Kept(w, <<WORKER_JOIN>> \o workerUnsent[w], << >>, workerSocket[w],
             workerThread[w], TRUE, connectedWorkers,
             freeWorkersPool, workAllocationMap[w])
    BY <2>3, KeptConnect
  <2>5. /\ linkUp'[w] = TRUE
        /\ workersSocket'[w] = <<WORKER_JOIN>> \o workerUnsent[w]
        /\ workerUnsent'[w] = << >> /\ UNCHANGED <<workerSocket, workerThread>>
        /\ \A x \in Workers \ {w} : /\ linkUp'[x] = linkUp[x]
                                    /\ workersSocket'[x] = workersSocket[x]
                                    /\ workerUnsent'[x] = workerUnsent[x]
    BY <2>1, KeptTypes DEF Connect
  <2> QED
    BY <1>0, <2>4, <2>5, OneKeptMoves
<1>2. CASE WorkerStarts(w)
  BY <1>0, <1>2 DEF WorkerStarts, StartWorker, networkVars, controllerVars,
                    RegistrationInv, WorkersKept, AllKept
<1>3. CASE WorkerDies(w)
  BY <1>0, <1>3, ExitKept DEF WorkerDies, CrashWorker, WorkerThreadFails
<1>4. CASE LinkBreaks(w)
  <2>1. /\ linkUp[w] = TRUE /\ LoseFromWorker(w) /\ linkUp'[w] = FALSE
        /\ UNCHANGED <<workerThread, workerUnsent>>
        /\ \A x \in Workers \ {w} : /\ linkUp'[x] = linkUp[x]
                                    /\ workerSocket'[x] = workerSocket[x]
    BY <1>4, KeptTypes DEF LinkBreaks, DropLink, workerVars
  <2>2. /\ \A Q, U : Kept(w, workersSocket'[w], workerUnsent[w], Q, U, FALSE,
                connectedWorkers, freeWorkersPool, workAllocationMap[w])
        /\ \A x \in Workers \ {w} : workersSocket'[x] = workersSocket[x]
    BY <2>1, LoseKept
  <2>3. Kept(w, workersSocket'[w], workerUnsent'[w], workerSocket'[w],
             workerThread'[w], linkUp'[w], connectedWorkers,
             freeWorkersPool, workAllocationMap[w])
    BY <2>1, <2>2
  <2> QED
    BY <1>0, <2>1, <2>2, <2>3, OneKeptMoves
<1> QED
  BY <1>1, <1>2, <1>3, <1>4

\* A worker that the controller does not know and that is not connected.
LEMMA KeptApart ==
    ASSUME NEW w, NEW unsent, NEW R, NEW T,
           \A n \in 1..Len(unsent) : unsent[n].type # "WORKER_JOIN"
                                     /\ unsent[n].type # "WORKER_LEAVE"
    PROVE  Kept(w, << >>, unsent, R, T, FALSE, {}, {}, NoWork)
<1>1. Len(<< >>) = 0
  OBVIOUS
<1> QED
  BY <1>1 DEF Kept, InOrder

\* A new controller knows no worker, and all of them will connect anew.
LEMMA RestartKept ==
    ASSUME RegistrationInv, ControllerRestarts
    PROVE  RegistrationInv'
<1>1. /\ workersSocket' = [w \in Workers |-> << >>]
      /\ linkUp' = [w \in Workers |-> FALSE]
      /\ freeWorkersPool' = {} /\ connectedWorkers' = {}
      /\ workAllocationMap' = [w \in Workers |-> NoWork]
      /\ UNCHANGED <<workerThread, workerUnsent>>
  BY DEF ControllerRestarts, RestartController, DropController, workerVars
<1>2. ASSUME NEW x \in Workers
      PROVE  Kept(x, workersSocket'[x], workerUnsent[x], workerSocket'[x],
                  workerThread[x], linkUp'[x], connectedWorkers',
                  freeWorkersPool', workAllocationMap'[x])
  <2>1. \A n \in 1..Len(workerUnsent[x]) :
           /\ workerUnsent[x][n].type # "WORKER_JOIN"
           /\ workerUnsent[x][n].type # "WORKER_LEAVE"
    BY DEF RegistrationInv, WorkersKept, AllKept, Kept, InOrder
  <2>2. Kept(x, << >>, workerUnsent[x], workerSocket'[x], workerThread[x],
             FALSE, {}, {}, NoWork)
    BY <2>1, KeptApart
  <2> QED
    BY <1>1, <2>2
<1> QED
  BY <1>1, <1>2 DEF RegistrationInv, WorkersKept, AllKept

\* An island's call touches no worker.
LEMMA IslandKept ==
    ASSUME RegistrationInv, NEW i \in Islands, IslandSends(i) \/ IslandReceives(i)
    PROVE  RegistrationInv'
<1>1. UNCHANGED <<linkUp, workersSocket, workerSocket, workerUnsent,
                  workerVars, controllerVars>>
  BY DEF IslandSends, IslandReceives, SendWork, ReceiveResults
<1> QED
  BY <1>1 DEF workerVars, controllerVars, RegistrationInv, WorkersKept, AllKept

-----------------------------------------------------------------------------
\* RegistrationInv holds whatever breaks: it needs neither Unbroken nor a
\* bound on the faults.
THEOREM RegistrationHolds == Spec => []RegistrationInv
<1>1. Init => RegistrationInv
  <2> SUFFICES ASSUME Init PROVE RegistrationInv
    OBVIOUS
  <2>1. ASSUME NEW w \in Workers
        PROVE  Kept(w, workersSocket[w], workerUnsent[w], workerSocket[w],
                    workerThread[w], linkUp[w], connectedWorkers,
                    freeWorkersPool, workAllocationMap[w])
    <3>1. /\ workersSocket[w] = << >> /\ workerUnsent[w] = << >>
          /\ linkUp[w] = FALSE /\ connectedWorkers = {}
          /\ freeWorkersPool = {} /\ workAllocationMap[w] = NoWork
      BY DEF Init, NetworkInit, ControllerInit
    <3>2. \A n \in 1..Len(<< >>) : << >>[n].type # "WORKER_JOIN"
                                   /\ << >>[n].type # "WORKER_LEAVE"
      OBVIOUS
    <3>3. Kept(w, << >>, << >>, workerSocket[w], workerThread[w],
               FALSE, {}, {}, NoWork)
      BY <3>2, KeptApart
    <3> QED
      BY <3>1, <3>3
  <2> QED
    BY <2>1 DEF Init, ControllerInit, RegistrationInv, WorkersKept, AllKept
<1>2. TypeOK /\ TypeOK' /\ RegistrationInv /\ [Next]_vars => RegistrationInv'
  <2> SUFFICES ASSUME TypeOK, TypeOK', RegistrationInv, [Next]_vars
               PROVE  RegistrationInv'
    OBVIOUS
  <2>1. CASE UNCHANGED vars
    BY <2>1 DEF vars, networkVars, controllerVars, workerVars,
                RegistrationInv, WorkersKept, AllKept
  <2> QED
    BY <2>1, ControllerWorkerKept, ControllerIslandKept, WorkerRunsKept,
       WorkerFaultsKept, RestartKept, IslandKept DEF Next, Finished
<1> QED
  BY <1>1, <1>2, TypeCorrect, PTL DEF Spec

\* A worker that the controller counts on, free or allocated, is in one map
\* only, has its record, and is connected or has its WORKER_LEAVE under way.
THEOREM WorkersAreRegistered == Spec => []RegisteredWorkers
<1>1. TypeOK /\ RegistrationInv => RegisteredWorkers
  <2> SUFFICES ASSUME TypeOK, RegistrationInv PROVE RegisteredWorkers
    OBVIOUS
  <2>1. ASSUME NEW w \in Workers
        PROVE  Kept(w, workersSocket[w], workerUnsent[w], workerSocket[w],
                    workerThread[w], linkUp[w], connectedWorkers,
                    freeWorkersPool, workAllocationMap[w])
    BY DEF RegistrationInv, WorkersKept, AllKept
  <2>2. freeWorkersPool \subseteq Workers /\ connectedWorkers \subseteq Workers
    BY DEF TypeOK, ControllerTypeOK
  <2>3. /\ freeWorkersPool \cap AllocatedWorkers = {}
        /\ freeWorkersPool \cup AllocatedWorkers \subseteq connectedWorkers
    BY <2>1, <2>2 DEF Kept, AllocatedWorkers
  <2>4. ASSUME NEW w \in connectedWorkers, ~linkUp[w]
        PROVE  Pending(w, "WORKER_LEAVE")
    <3>1. /\ w \in Workers /\ workersSocket[w] \in Seq(WorkerMessage)
          /\ InOrder(w, workersSocket[w], workerUnsent[w], linkUp[w],
                     connectedWorkers)
      BY <2>1, <2>2, KeptTypes DEF Kept
    <3>2. /\ Len(workersSocket[w]) \in 1..Len(workersSocket[w])
          /\ workersSocket[w][Len(workersSocket[w])].type = "WORKER_LEAVE"
      BY <2>4, <3>1 DEF InOrder
    <3> QED
      BY <3>2 DEF Pending
  <2> QED
    BY <2>3, <2>4 DEF RegisteredWorkers, RegistrationInv
<1> QED
  BY <1>1, RegistrationHolds, TypeCorrect, PTL

\* No work_allocation_record is orphaned, whatever messages are lost with the
\* connections that break.
THEOREM AllocationsAreServed == Spec => []AllocationIsServed
<1>1. RegistrationInv => AllocationIsServed
  <2> SUFFICES ASSUME RegistrationInv, NEW w \in AllocatedWorkers
               PROVE  Served(workersSocket[w], workerSocket[w],
                             workerThread[w], workAllocationMap[w])
    BY DEF AllocationIsServed, Served, Pending
  <2> QED
    BY DEF AllocatedWorkers, RegistrationInv, WorkersKept, AllKept, Kept
<1> QED
  BY <1>1, RegistrationHolds, PTL

-----------------------------------------------------------------------------
\* The work of the call that island i is making.
Current(i, work) == work.island = i /\ work.cycle = cycle[i] + 1

(***************************************************************************)
(* _workAllocationMap and _islandsWaitingForAlloc, in the middle of a      *)
(* handler too: whatever they hold is of a current call, and no call is    *)
(* there twice.                                                            *)
(***************************************************************************)
OnceInMaps(alloc, waiting) ==
    /\ \A i \in Islands : waiting[i] # NoWork => Current(i, waiting[i])
    /\ \A w \in Workers : alloc[w] # NoWork =>
          /\ Current(alloc[w].island, alloc[w])
          /\ waiting[alloc[w].island] = NoWork
    /\ \A v, w \in Workers :
          alloc[v] # NoWork /\ alloc[w] # NoWork
            /\ alloc[v].island = alloc[w].island => v = w

\* Island i's work is in one of the two maps.
InMaps(alloc, waiting, i) ==
    \/ waiting[i] # NoWork
    \/ \E w \in Workers : alloc[w] # NoWork /\ alloc[w].island = i

(***************************************************************************)
(* The inductive invariant.  WorkInOnePlace counts, and is not inductive:  *)
(* that emplace() never meets an entry needs the two maps disjoint, and    *)
(* that a result ends the right call needs the entries to be current.      *)
(***************************************************************************)
OnePlace(i) ==
    LET held == InMaps(workAllocationMap, islandsWaitingForAlloc, i) IN
    /\ \A n \in 1..Len(islandsSocket[i]) : Current(i, islandsSocket[i][n])
    /\ \/ /\ ~evolving[i] /\ ~held
          /\ Len(islandsSocket[i]) = 0 /\ Len(dealerSocket[i]) = 0
       \/ /\ evolving[i] /\ ~held
          /\ Len(islandsSocket[i]) = 1 /\ Len(dealerSocket[i]) = 0
       \/ /\ evolving[i] /\ held
          /\ Len(islandsSocket[i]) = 0 /\ Len(dealerSocket[i]) = 0
       \/ /\ evolving[i] /\ ~held
          /\ Len(islandsSocket[i]) = 0 /\ Len(dealerSocket[i]) = 1

PlacesInv ==
    /\ OnceInMaps(workAllocationMap, islandsWaitingForAlloc)
    /\ \A i \in Islands : OnePlace(i)

-----------------------------------------------------------------------------
(***************************************************************************)
(* The two maps under the controller's helpers.                            *)
(***************************************************************************)

\* An entry is taken out of _workAllocationMap.
LEMMA EraseAllocation ==
    ASSUME NEW alloc \in [Workers -> Work \cup {NoWork}], NEW waiting,
           NEW w \in Workers, alloc[w] # NoWork, OnceInMaps(alloc, waiting)
    PROVE  /\ OnceInMaps([alloc EXCEPT ![w] = NoWork], waiting)
           /\ \A i \in Islands : InMaps([alloc EXCEPT ![w] = NoWork], waiting, i)
                <=> InMaps(alloc, waiting, i) /\ i # alloc[w].island
<1> DEFINE emptied == [alloc EXCEPT ![w] = NoWork]
<1>1. /\ emptied[w] = NoWork
      /\ \A x \in Workers : x # w => emptied[x] = alloc[x]
  OBVIOUS
<1> HIDE DEF emptied
<1>2. OnceInMaps(emptied, waiting)
  BY <1>1 DEF OnceInMaps
<1>3. ASSUME NEW i \in Islands
      PROVE  InMaps(emptied, waiting, i)
               <=> InMaps(alloc, waiting, i) /\ i # alloc[w].island
  <2>1. ASSUME InMaps(emptied, waiting, i)
        PROVE  InMaps(alloc, waiting, i) /\ i # alloc[w].island
    BY <1>1, <2>1 DEF InMaps, OnceInMaps
  <2>2. ASSUME InMaps(alloc, waiting, i), i # alloc[w].island
        PROVE  InMaps(emptied, waiting, i)
    BY <1>1, <2>2 DEF InMaps
  <2> QED
    BY <2>1, <2>2
<1> QED
  BY <1>2, <1>3 DEF emptied

\* _pop_waiting_island().
LEMMA EraseWaiting ==
    ASSUME NEW alloc, NEW waiting \in [Islands -> Work \cup {NoWork}],
           NEW i \in Islands, waiting[i] # NoWork, OnceInMaps(alloc, waiting)
    PROVE  /\ OnceInMaps(alloc, [waiting EXCEPT ![i] = NoWork])
           /\ \A j \in Islands : InMaps(alloc, [waiting EXCEPT ![i] = NoWork], j)
                <=> InMaps(alloc, waiting, j) /\ j # i
<1> DEFINE popped == [waiting EXCEPT ![i] = NoWork]
<1>1. /\ popped[i] = NoWork
      /\ \A j \in Islands : j # i => popped[j] = waiting[j]
      /\ \A j : waiting[j] = NoWork => popped[j] = NoWork
  OBVIOUS
<1> HIDE DEF popped
<1>2. OnceInMaps(alloc, popped)
  BY <1>1 DEF OnceInMaps
<1>3. ASSUME NEW j \in Islands
      PROVE  InMaps(alloc, popped, j) <=> InMaps(alloc, waiting, j) /\ j # i
  BY <1>1 DEF InMaps, OnceInMaps
<1> QED
  BY <1>2, <1>3 DEF popped

\* _allocate_worker_to_island() puts the work of a call into
\* _workAllocationMap, when it is in neither map.
LEMMA AllocateWorkerOnce ==
    ASSUME NEW pool \in SUBSET Workers,
           NEW alloc \in [Workers -> Work \cup {NoWork}],
           NEW waiting \in [Islands -> Work \cup {NoWork}],
           NEW records, NEW work \in Work,
           \A v \in pool : alloc[v] = NoWork,
           OnceInMaps(alloc, waiting), Current(work.island, work),
           ~InMaps(alloc, waiting, work.island),
           AllocateWorkerToIsland(pool, alloc, waiting, records, work)
    PROVE  /\ OnceInMaps(workAllocationMap', islandsWaitingForAlloc')
           /\ \A i \in Islands :
                InMaps(workAllocationMap', islandsWaitingForAlloc', i)
                  <=> InMaps(alloc, waiting, i) \/ i = work.island
<1>1. PICK v \in SelectableWorkers(pool, work) :
        SetMaps(pool \ {v}, Emplace(alloc, v, work), waiting)
  BY DEF AllocateWorkerToIsland
<1>2. v \in pool /\ v \in Workers /\ alloc[v] = NoWork
  BY DEF SelectableWorkers
<1> DEFINE filled == [alloc EXCEPT ![v] = work]
<1>3. workAllocationMap' = filled /\ islandsWaitingForAlloc' = waiting
  BY <1>1, <1>2 DEF SetMaps, Emplace
<1>4. /\ filled[v] = work /\ work # NoWork
      /\ \A x \in Workers : x # v => filled[x] = alloc[x]
  BY <1>2, NoWorkAssumption
<1> HIDE DEF filled
<1>5. /\ waiting[work.island] = NoWork
      /\ \A x \in Workers : alloc[x] # NoWork => alloc[x].island # work.island
  BY DEF InMaps
<1>6. OnceInMaps(filled, waiting)
  <2>1. ASSUME NEW x \in Workers, filled[x] # NoWork
        PROVE  /\ Current(filled[x].island, filled[x])
               /\ waiting[filled[x].island] = NoWork
    BY <1>4, <1>5, <2>1 DEF OnceInMaps
  <2>2. ASSUME NEW x \in Workers, NEW y \in Workers, filled[x] # NoWork,
               filled[y] # NoWork, filled[x].island = filled[y].island
        PROVE  x = y
    BY <1>4, <1>5, <2>2 DEF OnceInMaps
  <2> QED
    BY <2>1, <2>2 DEF OnceInMaps
<1>7. ASSUME NEW i \in Islands
      PROVE  InMaps(filled, waiting, i)
               <=> InMaps(alloc, waiting, i) \/ i = work.island
  BY <1>2, <1>4 DEF InMaps
<1> QED
  BY <1>3, <1>6, <1>7

\* _allocate_island_work() puts it into one of the two maps.
LEMMA AllocateIslandOnce ==
    ASSUME NEW pool \in SUBSET Workers,
           NEW alloc \in [Workers -> Work \cup {NoWork}],
           NEW waiting \in [Islands -> Work \cup {NoWork}],
           NEW records, NEW work \in Work,
           \A v \in pool : alloc[v] = NoWork,
           OnceInMaps(alloc, waiting), Current(work.island, work),
           ~InMaps(alloc, waiting, work.island),
           AllocateIslandWork(pool, alloc, waiting, records, work)
    PROVE  /\ OnceInMaps(workAllocationMap', islandsWaitingForAlloc')
           /\ \A i \in Islands :
                InMaps(workAllocationMap', islandsWaitingForAlloc', i)
                  <=> InMaps(alloc, waiting, i) \/ i = work.island
<1>1. CASE pool = {}
  <2>1. /\ workAllocationMap' = alloc
        /\ islandsWaitingForAlloc' = Emplace(waiting, work.island, work)
    BY <1>1 DEF AllocateIslandWork, SetMaps
  <2>2. /\ work.island \in Islands /\ waiting[work.island] = NoWork
        /\ \A x \in Workers : alloc[x] # NoWork => alloc[x].island # work.island
    BY DEF InMaps, Work
  <2> DEFINE queued == [waiting EXCEPT ![work.island] = work]
  <2>3. islandsWaitingForAlloc' = queued
    BY <2>1, <2>2 DEF Emplace
  <2>4. /\ queued[work.island] = work /\ work # NoWork
        /\ \A j \in Islands : j # work.island => queued[j] = waiting[j]
    BY <2>2, NoWorkAssumption
  <2>5. \A x \in Workers : alloc[x] # NoWork => alloc[x].island \in Islands
    BY DEF Work
  <2> HIDE DEF queued
  <2>6. OnceInMaps(alloc, queued)
    BY <2>2, <2>4, <2>5 DEF OnceInMaps
  <2>7. ASSUME NEW i \in Islands
        PROVE  InMaps(alloc, queued, i)
                 <=> InMaps(alloc, waiting, i) \/ i = work.island
    BY <2>4 DEF InMaps
  <2> QED
    BY <2>1, <2>3, <2>6, <2>7
<1>2. CASE pool # {}
  <2>1. AllocateWorkerToIsland(pool, alloc, waiting, records, work)
    BY <1>2 DEF AllocateIslandWork
  <2> QED
    BY <2>1, AllocateWorkerOnce
<1> QED
  BY <1>1, <1>2

\* _add_free_worker() moves work from one map to the other.
LEMMA AddFreeWorkerOnce ==
    ASSUME NEW pool \in SUBSET Workers,
           NEW alloc \in [Workers -> Work \cup {NoWork}],
           NEW waiting \in [Islands -> Work \cup {NoWork}],
           NEW records, NEW w \in Workers,
           \A v \in pool \cup {w} : alloc[v] = NoWork,
           OnceInMaps(alloc, waiting),
           AddFreeWorker(pool, alloc, waiting, records, w)
    PROVE  /\ OnceInMaps(workAllocationMap', islandsWaitingForAlloc')
           /\ \A i \in Islands :
                InMaps(workAllocationMap', islandsWaitingForAlloc', i)
                  <=> InMaps(alloc, waiting, i)
<1>1. CASE WaitingIslands(waiting) = {}
  BY <1>1 DEF AddFreeWorker, SetMaps
<1>2. CASE WaitingIslands(waiting) # {}
  <2>1. PICK i \in WaitingIslands(waiting) :
          AllocateWorkerToIsland(pool \cup {w}, alloc,
            [waiting EXCEPT ![i] = NoWork], records, waiting[i])
    BY <1>2 DEF AddFreeWorker
  <2> DEFINE popped == [waiting EXCEPT ![i] = NoWork]
  <2>2. /\ i \in Islands /\ waiting[i] # NoWork /\ waiting[i] \in Work
        /\ waiting[i].island = i /\ Current(waiting[i].island, waiting[i])
    BY DEF WaitingIslands, OnceInMaps, Current
  <2>3. /\ OnceInMaps(alloc, popped)
        /\ \A j \in Islands : InMaps(alloc, popped, j)
             <=> InMaps(alloc, waiting, j) /\ j # i
    BY <2>2, EraseWaiting
  <2>4. popped \in [Islands -> Work \cup {NoWork}] /\ pool \cup {w} \in SUBSET Workers
    OBVIOUS
  <2> HIDE DEF popped
  <2>5. AllocateWorkerToIsland(pool \cup {w}, alloc, popped, records, waiting[i])
    BY <2>1 DEF popped
  <2>6. /\ OnceInMaps(workAllocationMap', islandsWaitingForAlloc')
        /\ \A j \in Islands :
             InMaps(workAllocationMap', islandsWaitingForAlloc', j)
               <=> InMaps(alloc, popped, j) \/ j = i
    BY <2>2, <2>3, <2>4, <2>5, AllocateWorkerOnce
  <2>7. InMaps(alloc, waiting, i)
    BY <2>2 DEF InMaps
  <2> QED
    BY <2>3, <2>6, <2>7
<1> QED
  BY <1>1, <1>2

-----------------------------------------------------------------------------
\* What the proofs below use of the types and of the registrations.
LEMMA PlacesTypes ==
    ASSUME TypeOK, RegistrationInv
    PROVE  /\ freeWorkersPool \in SUBSET Workers
           /\ workAllocationMap \in [Workers -> Work \cup {NoWork}]
           /\ islandsWaitingForAlloc \in [Islands -> Work \cup {NoWork}]
           /\ islandsSocket \in [Islands -> Seq(Work)]
           /\ dealerSocket \in [Islands -> Seq(Work)]
           /\ cycle \in [Islands -> 0..MaxCycles]
           /\ evolving \in [Islands -> BOOLEAN]
           /\ \A v \in freeWorkersPool : workAllocationMap[v] = NoWork
<1>1. \A v \in freeWorkersPool : workAllocationMap[v] = NoWork
  BY DEF TypeOK, ControllerTypeOK, RegistrationInv, WorkersKept, AllKept, Kept
<1> QED
  BY <1>1 DEF TypeOK, NetworkTypeOK, ControllerTypeOK, IslandTypeOK

\* A worker whose WORKER_JOIN is read has no work.
LEMMA JoinsWithoutWork ==
    ASSUME TypeOK, RegistrationInv, NEW w \in Workers,
           HasFromWorker(w, "WORKER_JOIN")
    PROVE  workAllocationMap[w] = NoWork
<1>1. /\ workersSocket[w] \in Seq(WorkerMessage) /\ linkUp[w] \in BOOLEAN
      /\ Kept(w, workersSocket[w], workerUnsent[w], workerSocket[w],
              workerThread[w], linkUp[w], connectedWorkers,
              freeWorkersPool, workAllocationMap[w])
  BY KeptTypes DEF RegistrationInv, WorkersKept, AllKept
<1>2. w \notin connectedWorkers
  BY <1>1, OrderTail DEF HasFromWorker, Kept
<1> QED
  BY <1>1, <1>2 DEF Kept

\* A step that keeps every island's work where it is, or moves it between the
\* two maps.
LEMMA PlacesStay ==
    ASSUME PlacesInv, UNCHANGED <<islandsSocket, dealerSocket, evolving, cycle>>,
           OnceInMaps(workAllocationMap', islandsWaitingForAlloc'),
           \A i \in Islands :
              InMaps(workAllocationMap', islandsWaitingForAlloc', i)
                <=> InMaps(workAllocationMap, islandsWaitingForAlloc, i)
    PROVE  PlacesInv'
<1>1. OnceInMaps(workAllocationMap, islandsWaitingForAlloc)'
  BY DEF OnceInMaps, Current
<1>2. ASSUME NEW i \in Islands PROVE OnePlace(i)'
  <2>1. InMaps(workAllocationMap', islandsWaitingForAlloc', i)
          <=> InMaps(workAllocationMap, islandsWaitingForAlloc, i)
    OBVIOUS
  <2> QED
    BY <2>1 DEF PlacesInv, OnePlace, Current
<1> QED
  BY <1>1, <1>2 DEF PlacesInv

\* The handlers of the worker socket.
LEMMA ControllerWorkerPlaces ==
    ASSUME TypeOK, RegistrationInv, PlacesInv, NEW w \in Workers,
           ControllerHandlesWorker(w)
    PROVE  PlacesInv'
<1>0. UNCHANGED <<islandsSocket, evolving, cycle>>
  BY DEF ControllerHandlesWorker, HandleWorkerJoin, HandleWorkerLeave,
         HandleWorkResults, HandleGetDll, islandVars
<1>1. /\ freeWorkersPool \in SUBSET Workers
      /\ workAllocationMap \in [Workers -> Work \cup {NoWork}]
      /\ islandsWaitingForAlloc \in [Islands -> Work \cup {NoWork}]
      /\ dealerSocket \in [Islands -> Seq(Work)]
      /\ islandsSocket \in [Islands -> Seq(Work)]
      /\ \A v \in freeWorkersPool : workAllocationMap[v] = NoWork
  BY PlacesTypes
<1>2. OnceInMaps(workAllocationMap, islandsWaitingForAlloc)
  BY DEF PlacesInv
<1>3. CASE UNCHANGED <<workAllocationMap, islandsWaitingForAlloc, dealerSocket>>
  BY <1>0, <1>2, <1>3, PlacesStay
<1> DEFINE emptied == [workAllocationMap EXCEPT ![w] = NoWork]
<1>4. /\ emptied \in [Workers -> Work \cup {NoWork}]
      /\ \A v \in freeWorkersPool \cup {w} : emptied[v] = NoWork
  BY <1>1
<1>5. ASSUME workAllocationMap[w] # NoWork
      PROVE  /\ workAllocationMap[w] \in Work
             /\ workAllocationMap[w].island \in Islands
             /\ Current(workAllocationMap[w].island, workAllocationMap[w])
             /\ InMaps(workAllocationMap, islandsWaitingForAlloc,
                       workAllocationMap[w].island)
             /\ OnceInMaps(emptied, islandsWaitingForAlloc)
             /\ \A i \in Islands : InMaps(emptied, islandsWaitingForAlloc, i)
                  <=> InMaps(workAllocationMap, islandsWaitingForAlloc, i)
                      /\ i # workAllocationMap[w].island
  <2>1. workAllocationMap[w] \in Work /\ workAllocationMap[w].island \in Islands
    BY <1>1, <1>5 DEF Work
  <2>2. InMaps(workAllocationMap, islandsWaitingForAlloc,
               workAllocationMap[w].island)
    BY <1>5 DEF InMaps
  <2>3. Current(workAllocationMap[w].island, workAllocationMap[w])
    BY <1>2, <1>5 DEF OnceInMaps
  <2>4. /\ OnceInMaps(emptied, islandsWaitingForAlloc)
        /\ \A i \in Islands : InMaps(emptied, islandsWaitingForAlloc, i)
             <=> InMaps(workAllocationMap, islandsWaitingForAlloc, i)
                 /\ i # workAllocationMap[w].island
    BY <1>1, <1>2, <1>5, EraseAllocation
  <2> QED
    BY <2>1, <2>2, <2>3, <2>4
<1> HIDE DEF emptied
<1>6. CASE HandleWorkerJoin(w)
  <2>1. CASE w \in freeWorkersPool
    BY <1>3, <1>6, <2>1 DEF HandleWorkerJoin, controllerVars
  <2>2. CASE w \notin freeWorkersPool
    <3>1. /\ AddFreeWorker(freeWorkersPool, workAllocationMap,
                           islandsWaitingForAlloc, workerRecords', w)
          /\ UNCHANGED dealerSocket
      BY <1>6, <2>2 DEF HandleWorkerJoin
    <3>2. \A v \in freeWorkersPool \cup {w} : workAllocationMap[v] = NoWork
      BY <1>1, <1>6, JoinsWithoutWork DEF HandleWorkerJoin
    <3>3. /\ OnceInMaps(workAllocationMap', islandsWaitingForAlloc')
          /\ \A i \in Islands :
               InMaps(workAllocationMap', islandsWaitingForAlloc', i)
                 <=> InMaps(workAllocationMap, islandsWaitingForAlloc, i)
      BY <1>1, <1>2, <3>1, <3>2, AddFreeWorkerOnce
    <3> QED
      BY <1>0, <3>1, <3>3, PlacesStay
  <2> QED
    BY <2>1, <2>2
<1>7. CASE HandleWorkerLeave(w)
  <2>1. CASE workAllocationMap[w] = NoWork
    BY <1>3, <1>7, <2>1 DEF HandleWorkerLeave, SetMaps
  <2>2. CASE workAllocationMap[w] # NoWork
    <3>1. /\ AllocateIslandWork(freeWorkersPool \ {w}, emptied,
               islandsWaitingForAlloc, workerRecords, workAllocationMap[w])
          /\ UNCHANGED dealerSocket
      BY <1>7, <2>2 DEF HandleWorkerLeave, emptied
    <3>2. /\ freeWorkersPool \ {w} \in SUBSET Workers
          /\ \A v \in freeWorkersPool \ {w} : emptied[v] = NoWork
          /\ ~InMaps(emptied, islandsWaitingForAlloc, workAllocationMap[w].island)
      BY <1>1, <1>4, <1>5, <2>2
    <3>3. /\ OnceInMaps(workAllocationMap', islandsWaitingForAlloc')
          /\ \A i \in Islands :
               InMaps(workAllocationMap', islandsWaitingForAlloc', i)
                 <=> InMaps(emptied, islandsWaitingForAlloc, i)
                     \/ i = workAllocationMap[w].island
      BY <1>1, <1>4, <1>5, <2>2, <3>1, <3>2, AllocateIslandOnce
    <3>4. \A i \in Islands :
            InMaps(workAllocationMap', islandsWaitingForAlloc', i)
              <=> InMaps(workAllocationMap, islandsWaitingForAlloc, i)
      BY <1>5, <2>2, <3>3
    <3> QED
      BY <1>0, <3>1, <3>3, <3>4, PlacesStay
  <2> QED
    BY <2>1, <2>2
<1>8. CASE HandleWorkResults(w)
  <2>1. CASE worker_finished_work_throws(w) \/ workAllocationMap[w] = NoWork
    BY <1>3, <1>8, <2>1 DEF HandleWorkResults
  <2>2. CASE ~(worker_finished_work_throws(w) \/ workAllocationMap[w] = NoWork)
    <3> DEFINE isle == workAllocationMap[w].island
    <3>1. /\ AddFreeWorker(freeWorkersPool, emptied, islandsWaitingForAlloc,
                           workerRecords, w)
          /\ dealerSocket' = [dealerSocket EXCEPT ![isle] =
                                Append(@, Head(workersSocket[w]).work)]
      BY <1>8, <2>2 DEF HandleWorkResults, emptied
    <3>2. workAllocationMap[w] # NoWork /\ isle \in Islands
      BY <1>5, <2>2
    <3>3. /\ OnceInMaps(workAllocationMap', islandsWaitingForAlloc')
          /\ \A i \in Islands :
               InMaps(workAllocationMap', islandsWaitingForAlloc', i)
                 <=> InMaps(emptied, islandsWaitingForAlloc, i)
      BY <1>1, <1>4, <1>5, <3>1, <3>2, AddFreeWorkerOnce
    <3>4. OnceInMaps(workAllocationMap, islandsWaitingForAlloc)'
      BY <1>0, <3>3 DEF OnceInMaps, Current
    <3>5. ASSUME NEW i \in Islands PROVE OnePlace(i)'
      <4>1. OnePlace(i)
        BY DEF PlacesInv
      <4>2. InMaps(workAllocationMap', islandsWaitingForAlloc', i)
              <=> InMaps(workAllocationMap, islandsWaitingForAlloc, i) /\ i # isle
        BY <1>5, <3>2, <3>3
      <4>3. CASE i = isle
        <5>1. /\ Len(dealerSocket'[i]) = Len(dealerSocket[i]) + 1
              /\ Len(dealerSocket[i]) \in Nat /\ Len(islandsSocket[i]) \in Nat
          <6>1. dealerSocket'[i] = Append(dealerSocket[i], Head(workersSocket[w]).work)
            BY <1>1, <3>1, <4>3
          <6> QED
            BY <1>1, <6>1
        <5>2. InMaps(workAllocationMap, islandsWaitingForAlloc, i)
          BY <1>5, <3>2, <4>3
        <5>3. /\ evolving[i] /\ Len(islandsSocket[i]) = 0
              /\ Len(dealerSocket[i]) = 0
          BY <4>1, <5>2 DEF OnePlace
        <5>4. \A n \in 1..Len(islandsSocket[i]) : Current(i, islandsSocket[i][n])
          BY <4>1 DEF OnePlace
        <5> QED
          BY <1>0, <4>2, <4>3, <5>1, <5>3, <5>4 DEF OnePlace, Current
      <4>4. CASE i # isle
        <5>1. dealerSocket'[i] = dealerSocket[i]
          BY <1>1, <3>1, <4>4
        <5> QED
          BY <1>0, <4>1, <4>2, <4>4, <5>1 DEF OnePlace, Current
      <4> QED
        BY <4>3, <4>4
    <3> QED
      BY <3>4, <3>5 DEF PlacesInv
  <2> QED
    BY <2>1, <2>2
<1>9. CASE HandleGetDll(w)
  BY <1>3, <1>9 DEF HandleGetDll, controllerVars
<1> QED
  BY <1>6, <1>7, <1>8, <1>9 DEF ControllerHandlesWorker

\* The handler of the island socket.
LEMMA ControllerIslandPlaces ==
    ASSUME TypeOK, RegistrationInv, PlacesInv, NEW i \in Islands,
           ControllerHandlesIsland(i)
    PROVE  PlacesInv'
<1>0. /\ UNCHANGED <<dealerSocket, evolving, cycle>> /\ HandleAllocateWork(i)
  BY DEF ControllerHandlesIsland, HandleAllocateWork, islandVars
<1>1. /\ freeWorkersPool \in SUBSET Workers
      /\ workAllocationMap \in [Workers -> Work \cup {NoWork}]
      /\ islandsWaitingForAlloc \in [Islands -> Work \cup {NoWork}]
      /\ dealerSocket \in [Islands -> Seq(Work)]
      /\ islandsSocket \in [Islands -> Seq(Work)]
      /\ \A v \in freeWorkersPool : workAllocationMap[v] = NoWork
  BY PlacesTypes
<1>2. OnceInMaps(workAllocationMap, islandsWaitingForAlloc) /\ OnePlace(i)
  BY DEF PlacesInv
<1> DEFINE work == Head(islandsSocket[i])
<1>3. /\ AllocateIslandWork(freeWorkersPool, workAllocationMap,
                            islandsWaitingForAlloc, workerRecords, work)
      /\ islandsSocket[i] # << >> /\ islandsSocket[i] \in Seq(Work)
      /\ islandsSocket' = [islandsSocket EXCEPT ![i] = Tail(@)]
  BY <1>0, <1>1 DEF HandleAllocateWork
<1>4. /\ Len(islandsSocket[i]) \in Nat \ {0} /\ 1 \in 1..Len(islandsSocket[i])
      /\ work = islandsSocket[i][1] /\ work \in Work
      /\ Len(Tail(islandsSocket[i])) = Len(islandsSocket[i]) - 1
      /\ \A n \in 1..Len(Tail(islandsSocket[i])) :
            /\ Tail(islandsSocket[i])[n] = islandsSocket[i][n + 1]
            /\ n + 1 \in 1..Len(islandsSocket[i])
  BY <1>3, ReceiveOne
<1> HIDE DEF work
<1>5. work.island = i /\ Current(work.island, work)
  BY <1>2, <1>4 DEF OnePlace, Current
<1>6. /\ Len(dealerSocket[i]) \in Nat
      /\ ~InMaps(workAllocationMap, islandsWaitingForAlloc, i)
  BY <1>1, <1>2, <1>4 DEF OnePlace
<1>7. /\ OnceInMaps(workAllocationMap', islandsWaitingForAlloc')
      /\ \A j \in Islands :
           InMaps(workAllocationMap', islandsWaitingForAlloc', j)
             <=> InMaps(workAllocationMap, islandsWaitingForAlloc, j) \/ j = i
  BY <1>1, <1>2, <1>3, <1>4, <1>5, <1>6, AllocateIslandOnce
<1>8. OnceInMaps(workAllocationMap, islandsWaitingForAlloc)'
  BY <1>0, <1>7 DEF OnceInMaps, Current
<1>9. ASSUME NEW j \in Islands PROVE OnePlace(j)'
  <2>1. InMaps(workAllocationMap', islandsWaitingForAlloc', j)
          <=> InMaps(workAllocationMap, islandsWaitingForAlloc, j) \/ j = i
    BY <1>7
  <2>2. CASE j = i
    <3>1. islandsSocket'[j] = Tail(islandsSocket[i])
      BY <1>1, <1>3, <2>2
    <3>2. /\ evolving[i] /\ Len(islandsSocket[i]) = 1
          /\ Len(dealerSocket[i]) = 0
      BY <1>2, <1>4 DEF OnePlace
    <3>3. \A n \in 1..Len(islandsSocket'[j]) : Current(j, islandsSocket'[j][n])
      BY <1>2, <1>4, <2>2, <3>1 DEF OnePlace
    <3> QED
      BY <1>0, <1>4, <2>1, <2>2, <3>1, <3>2, <3>3 DEF OnePlace, Current
  <2>3. CASE j # i
    <3>1. islandsSocket'[j] = islandsSocket[j] /\ OnePlace(j)
      BY <1>1, <1>3, <2>3 DEF PlacesInv
    <3> QED
      BY <1>0, <2>1, <2>3, <3>1 DEF OnePlace, Current
  <2> QED
    BY <2>2, <2>3
<1> QED
  BY <1>8, <1>9 DEF PlacesInv

\* run_evolve() up to its receive(): no place held work of the island.
LEMMA IslandSendsPlaces ==
    ASSUME TypeOK, RegistrationInv, PlacesInv, NEW i \in Islands, IslandSends(i)
    PROVE  PlacesInv'
<1>0. /\ UNCHANGED <<workAllocationMap, islandsWaitingForAlloc, dealerSocket,
                     cycle>>
      /\ ~evolving[i] /\ evolving' = [evolving EXCEPT ![i] = TRUE]
  BY DEF IslandSends, SendWork, controllerVars
<1>1. PICK p \in Workers \cup {NoWorker} :
        islandsSocket' = [islandsSocket EXCEPT ![i] =
          Append(@, [island |-> i, cycle |-> cycle[i] + 1,
                     preferredWorkerId |-> p])]
  BY DEF IslandSends, SendWork
<1>2. /\ islandsSocket \in [Islands -> Seq(Work)]
      /\ evolving \in [Islands -> BOOLEAN]
  BY PlacesTypes
<1>3. OnceInMaps(workAllocationMap, islandsWaitingForAlloc)'
  BY <1>0 DEF PlacesInv, OnceInMaps, Current
<1>4. ASSUME NEW j \in Islands PROVE OnePlace(j)'
  <2>1. OnePlace(j)
    BY DEF PlacesInv
  <2>2. CASE j = i
    <3>1. Len(islandsSocket[j]) = 0
      BY <1>0, <2>1, <2>2 DEF OnePlace
    <3> DEFINE k == [island |-> i, cycle |-> cycle[i] + 1,
                     preferredWorkerId |-> p]
    <3>2. Current(j, k)
      BY <2>2 DEF Current
    <3> HIDE DEF k
    <3>3. islandsSocket'[j] = Append(islandsSocket[j], k)
      BY <1>1, <1>2, <2>2 DEF k
    <3>4. Len(islandsSocket'[j]) = 1 /\ islandsSocket'[j][1] = k
      BY <1>2, <3>1, <3>3
    <3>5. \A n \in 1..Len(islandsSocket'[j]) : Current(j, islandsSocket'[j][n])
      BY <3>2, <3>4
    <3>6. evolving'[j] = TRUE
      BY <1>0, <1>2, <2>2
    <3> QED
      BY <1>0, <2>1, <2>2, <3>4, <3>5, <3>6 DEF OnePlace, Current
  <2>3. CASE j # i
    <3>1. islandsSocket'[j] = islandsSocket[j] /\ evolving'[j] = evolving[j]
      BY <1>0, <1>1, <1>2, <2>3
    <3> QED
      BY <1>0, <2>1, <3>1 DEF OnePlace, Current
  <2> QED
    BY <2>2, <2>3
<1> QED
  BY <1>3, <1>4 DEF PlacesInv

\* run_evolve() from receive() on: no other place holds work of the island, so
\* nothing of the call is left behind when the next one begins.
LEMMA IslandReceivesPlaces ==
    ASSUME TypeOK, RegistrationInv, PlacesInv, NEW i \in Islands,
           IslandReceives(i)
    PROVE  PlacesInv'
<1>0. /\ UNCHANGED <<workAllocationMap, islandsWaitingForAlloc, islandsSocket>>
      /\ evolving[i] /\ dealerSocket[i] # << >>
      /\ evolving' = [evolving EXCEPT ![i] = FALSE]
      /\ dealerSocket' = [dealerSocket EXCEPT ![i] = Tail(@)]
      /\ cycle' = [cycle EXCEPT ![i] = @ + 1]
  BY DEF IslandReceives, ReceiveResults, controllerVars
<1>1. /\ dealerSocket \in [Islands -> Seq(Work)]
      /\ evolving \in [Islands -> BOOLEAN]
      /\ cycle \in [Islands -> 0..MaxCycles]
      /\ workAllocationMap \in [Workers -> Work \cup {NoWork}]
  BY PlacesTypes
<1>2. /\ Len(islandsSocket[i]) = 0 /\ Len(dealerSocket[i]) = 1
      /\ ~InMaps(workAllocationMap, islandsWaitingForAlloc, i)
  <2>1. OnePlace(i) /\ Len(dealerSocket[i]) \in Nat \ {0}
    BY <1>0, <1>1 DEF PlacesInv
  <2> QED
    BY <2>1 DEF OnePlace
<1>3. /\ \A j \in Islands : j # i => cycle'[j] = cycle[j]
      /\ islandsWaitingForAlloc[i] = NoWork
      /\ \A w \in Workers : workAllocationMap[w] # NoWork =>
            /\ workAllocationMap[w].island # i
            /\ workAllocationMap[w].island \in Islands
  BY <1>0, <1>1, <1>2 DEF InMaps, Work
<1>4. OnceInMaps(workAllocationMap, islandsWaitingForAlloc)'
  BY <1>0, <1>3 DEF PlacesInv, OnceInMaps, Current
<1>5. ASSUME NEW j \in Islands PROVE OnePlace(j)'
  <2>1. CASE j = i
    <3>1. dealerSocket'[j] = Tail(dealerSocket[i]) /\ evolving'[j] = FALSE
      BY <1>0, <1>1, <2>1
    <3>2. Len(dealerSocket'[j]) = 0
      BY <1>0, <1>1, <1>2, <3>1
    <3> QED
      BY <1>0, <1>2, <2>1, <3>1, <3>2 DEF OnePlace
  <2>2. CASE j # i
    <3>1. /\ dealerSocket'[j] = dealerSocket[j] /\ evolving'[j] = evolving[j]
          /\ cycle'[j] = cycle[j] /\ OnePlace(j)
      BY <1>0, <1>1, <2>2 DEF PlacesInv
    <3> QED
      BY <1>0, <3>1 DEF OnePlace, Current
  <2> QED
    BY <2>1, <2>2
<1> QED
  BY <1>4, <1>5 DEF PlacesInv

\* Maps without entries.
LEMMA NothingInMaps ==
    ASSUME NEW alloc, NEW waiting, \A w \in Workers : alloc[w] = NoWork,
           \A i \in Islands : waiting[i] = NoWork
    PROVE  /\ OnceInMaps(alloc, waiting)
           /\ \A i \in Islands : ~InMaps(alloc, waiting, i)
BY DEF OnceInMaps, InMaps

\* A new controller and its islands: the calls of the old ones are gone.
LEMMA RestartPlaces ==
    ASSUME ControllerRestarts
    PROVE  PlacesInv'
<1>1. \A i \in Islands : /\ islandsSocket'[i] = << >> /\ dealerSocket'[i] = << >>
                         /\ evolving'[i] = FALSE
                         /\ islandsWaitingForAlloc'[i] = NoWork
  BY DEF ControllerRestarts, DropController, RestartController, RestartIslands
<1>2. \A w \in Workers : workAllocationMap'[w] = NoWork
  BY DEF ControllerRestarts, RestartController
<1>3. OnceInMaps(workAllocationMap, islandsWaitingForAlloc)'
  BY <1>1, <1>2 DEF OnceInMaps
<1>4. \A i \in Islands : ~InMaps(workAllocationMap', islandsWaitingForAlloc', i)
  BY <1>1, <1>2, NothingInMaps
<1>5. Len(<< >>) = 0
  OBVIOUS
<1> QED
  BY <1>1, <1>3, <1>4, <1>5 DEF PlacesInv, OnePlace

\* Every step keeps PlacesInv.
LEMMA PlacesStep ==
    ASSUME TypeOK, RegistrationInv, PlacesInv, [Next]_vars
    PROVE  PlacesInv'
<1>1. CASE UNCHANGED <<islandsSocket, dealerSocket, evolving, cycle,
                       workAllocationMap, islandsWaitingForAlloc>>
  BY <1>1, PlacesStay DEF PlacesInv
<1>2. ASSUME NEW w \in Workers,
             \/ WorkerRuns(w) \/ WorkerConnects(w) \/ WorkerStarts(w)
             \/ WorkerDies(w) \/ LinkBreaks(w)
      PROVE  PlacesInv'
  <2>1. UNCHANGED <<islandsSocket, dealerSocket>>
    BY <1>2
    DEF WorkerRuns, StartWorkerThread, StartOverRunningThread, HandleDllBinary,
        LoadWork, RequestDll, Evolve, HandleThreadResults, WorkerConnects,
        WorkerConnect, Connect, WorkerStarts, StartWorker, WorkerDies,
        CrashWorker, WorkerThreadFails, Exit, DropProcess, LinkBreaks,
        DropLink, networkVars
  <2>2. UNCHANGED <<controllerVars, islandVars>>
    BY <1>2 DEF WorkerRuns, WorkerConnects, WorkerStarts, WorkerDies, LinkBreaks
  <2> QED
    BY <1>1, <2>1, <2>2 DEF controllerVars, islandVars
<1>3. CASE UNCHANGED vars
  BY <1>1, <1>3 DEF vars, networkVars, controllerVars, islandVars
<1> QED
  BY <1>2, <1>3, ControllerWorkerPlaces, ControllerIslandPlaces,
     IslandSendsPlaces, IslandReceivesPlaces, RestartPlaces DEF Next, Finished

-----------------------------------------------------------------------------
\* PlacesInv holds whatever breaks.
THEOREM PlacesHold == Spec => []PlacesInv
<1>1. Init => PlacesInv
  <2> SUFFICES ASSUME Init PROVE PlacesInv
    OBVIOUS
  <2>1. /\ \A i \in Islands : /\ islandsSocket[i] = << >> /\ dealerSocket[i] = << >>
                              /\ evolving[i] = FALSE
                              /\ islandsWaitingForAlloc[i] = NoWork
        /\ \A w \in Workers : workAllocationMap[w] = NoWork
    BY DEF Init, NetworkInit, ControllerInit, IslandInit
  <2>2. /\ OnceInMaps(workAllocationMap, islandsWaitingForAlloc)
        /\ \A i \in Islands :
             ~InMaps(workAllocationMap, islandsWaitingForAlloc, i)
    BY <2>1, NothingInMaps
  <2>3. Len(<< >>) = 0
    OBVIOUS
  <2> QED
    BY <2>1, <2>2, <2>3 DEF PlacesInv, OnePlace
<1>2. TypeOK /\ RegistrationInv /\ PlacesInv /\ [Next]_vars => PlacesInv'
  BY PlacesStep
<1> QED
  BY <1>1, <1>2, TypeCorrect, RegistrationHolds, PTL DEF Spec

\* While run_evolve() blocks, exactly one of the controller's queues, maps or
\* replies holds its work: it is neither lost nor duplicated, whatever workers
\* crash and connections break.
THEOREM WorkIsInOnePlace == Spec => []WorkInOnePlace
<1>1. TypeOK /\ RegistrationInv /\ PlacesInv => WorkInOnePlace
  <2> SUFFICES ASSUME TypeOK, RegistrationInv, PlacesInv, NEW i \in Islands
               PROVE  Places(i) = IF evolving[i] THEN 1 ELSE 0
    BY DEF WorkInOnePlace
  <2> DEFINE holders == {w \in AllocatedWorkers : workAllocationMap[w].island = i}
             held == InMaps(workAllocationMap, islandsWaitingForAlloc, i)
  <2>1. OnePlace(i) /\ OnceInMaps(workAllocationMap, islandsWaitingForAlloc)
    BY DEF PlacesInv
  <2>2. /\ Cardinality(holders) \in {0, 1}
        /\ Cardinality(holders) = 0 <=> holders = {}
    <3>1. CASE holders = {}
      BY <3>1, FS_EmptySet
    <3>2. CASE holders # {}
      <4>1. PICK w \in holders : TRUE
        BY <3>2
      <4>2. holders = {w}
        BY <2>1, <4>1 DEF AllocatedWorkers, OnceInMaps
      <4>3. Cardinality(holders) = 1
        BY <4>2, FS_Singleton
      <4> QED
        BY <3>2, <4>3
    <3> QED
      BY <3>1, <3>2
  <2>3. held <=> islandsWaitingForAlloc[i] # NoWork \/ holders # {}
    BY DEF InMaps, AllocatedWorkers
  <2>4. islandsWaitingForAlloc[i] # NoWork => holders = {}
    BY <2>1 DEF AllocatedWorkers, OnceInMaps
  <2> DEFINE waits == IF islandsWaitingForAlloc[i] # NoWork THEN 1 ELSE 0
             count == Cardinality(holders)
  <2>5. /\ held => waits + count = 1 /\ waits \in Nat /\ count \in Nat
        /\ ~held => waits = 0 /\ count = 0
    BY <2>2, <2>3, <2>4
  <2>6. Places(i) = Len(islandsSocket[i]) + waits + count + Len(dealerSocket[i])
    BY DEF Places
  <2> HIDE DEF holders, held, waits, count
  <2>7. /\ evolving[i] \in BOOLEAN
        /\ \/ /\ ~evolving[i] /\ ~held
              /\ Len(islandsSocket[i]) = 0 /\ Len(dealerSocket[i]) = 0
           \/ /\ evolving[i] /\ ~held
              /\ Len(islandsSocket[i]) = 1 /\ Len(dealerSocket[i]) = 0
           \/ /\ evolving[i] /\ held
              /\ Len(islandsSocket[i]) = 0 /\ Len(dealerSocket[i]) = 0
           \/ /\ evolving[i] /\ ~held
              /\ Len(islandsSocket[i]) = 0 /\ Len(dealerSocket[i]) = 1
    BY <2>1, PlacesTypes DEF OnePlace, held
  <2>8. CASE held
    <3>1. /\ evolving[i] /\ Len(islandsSocket[i]) = 0 /\ Len(dealerSocket[i]) = 0
          /\ waits + count = 1 /\ waits \in Nat /\ count \in Nat
      BY <2>5, <2>7, <2>8
    <3>2. Places(i) = 1
      BY <2>6, <3>1
    <3> QED
      BY <3>1, <3>2
  <2>9. CASE ~held
    <3>1. Places(i) = Len(islandsSocket[i]) + 0 + 0 + Len(dealerSocket[i])
      BY <2>5, <2>6, <2>9
    <3>2. CASE evolving[i]
      <4>1. \/ Len(islandsSocket[i]) = 1 /\ Len(dealerSocket[i]) = 0
            \/ Len(islandsSocket[i]) = 0 /\ Len(dealerSocket[i]) = 1
        BY <2>7, <2>9, <3>2
      <4>2. CASE Len(islandsSocket[i]) = 1 /\ Len(dealerSocket[i]) = 0
        BY <3>1, <3>2, <4>2
      <4>3. CASE Len(islandsSocket[i]) = 0 /\ Len(dealerSocket[i]) = 1
        BY <3>1, <3>2, <4>3
      <4> QED
        BY <4>1, <4>2, <4>3
    <3>3. CASE ~evolving[i]
      <4>1. Len(islandsSocket[i]) = 0 /\ Len(dealerSocket[i]) = 0
        BY <2>7, <2>9, <3>3
      <4>2. Places(i) = 0
        BY <3>1, <4>1
      <4> QED
        BY <3>3, <4>2
    <3> QED
      BY <3>2, <3>3
  <2> QED
    BY <2>8, <2>9
<1> QED
  BY <1>1, TypeCorrect, RegistrationHolds, PlacesHold, PTL

-----------------------------------------------------------------------------
(***************************************************************************)
(* The results.  While sessions agree, the results that a worker sends are *)
(* those of the work on record for it, which PlacesInv says is current.    *)
(***************************************************************************)
OwnResults ==
    \A i \in Islands :
        /\ population[i] # NoWork => /\ population[i].island = i
                                     /\ population[i].cycle = cycle[i]
        /\ \A n \in 1..Len(dealerSocket[i]) : Current(i, dealerSocket[i][n])

\* The controller forwards the results to the island that waits for them, and
\* they are of its current call.
LEMMA ResultsForwarded ==
    ASSUME TypeOK, RegistrationInv, SessionInv, PlacesInv, NEW w \in Workers,
           HandleWorkResults(w)
    PROVE  /\ workAllocationMap[w] \in Work
           /\ workAllocationMap[w].island \in Islands
           /\ Current(workAllocationMap[w].island, workAllocationMap[w])
           /\ evolving[workAllocationMap[w].island]
           /\ Len(dealerSocket[workAllocationMap[w].island]) = 0
           /\ dealerSocket' =
                [dealerSocket EXCEPT ![workAllocationMap[w].island] =
                    Append(@, workAllocationMap[w])]
<1>1. /\ workAllocationMap[w] # NoWork
      /\ Head(workersSocket[w]).work = workAllocationMap[w]
  BY SessionResults DEF HandleWorkResults, SessionInv
<1>2. workAllocationMap[w] \in Work /\ workAllocationMap[w].island \in Islands
  BY <1>1, PlacesTypes DEF Work
<1>3. Current(workAllocationMap[w].island, workAllocationMap[w])
  BY <1>1 DEF PlacesInv, OnceInMaps
<1>4. /\ evolving[workAllocationMap[w].island]
      /\ Len(dealerSocket[workAllocationMap[w].island]) = 0
  <2>1. /\ OnePlace(workAllocationMap[w].island)
        /\ InMaps(workAllocationMap, islandsWaitingForAlloc,
                  workAllocationMap[w].island)
    BY <1>1, <1>2 DEF PlacesInv, InMaps
  <2> QED
    BY <2>1 DEF OnePlace
<1>5. w \in workerRecords
  BY <1>1 DEF SessionInv, Recorded
<1>6. dealerSocket' = [dealerSocket EXCEPT ![workAllocationMap[w].island] =
                         Append(@, Head(workersSocket[w]).work)]
  BY <1>1, <1>5 DEF HandleWorkResults, worker_finished_work_throws
<1> QED
  BY <1>1, <1>2, <1>3, <1>4, <1>6

\* What an island gets is the result of its current call, and the only one.
LEMMA ResultsAccepted ==
    ASSUME TypeOK, RegistrationInv, PlacesInv, OwnResults, NEW i \in Islands,
           IslandReceives(i)
    PROVE  /\ evolving[i] /\ dealerSocket[i] # << >>
           /\ Head(dealerSocket[i]) \in Work
           /\ Current(i, Head(dealerSocket[i]))
           /\ dealerSocket'[i] = << >>
           /\ population' = [population EXCEPT ![i] = Head(dealerSocket[i])]
           /\ cycle' = [cycle EXCEPT ![i] = @ + 1]
           /\ evolving' = [evolving EXCEPT ![i] = FALSE]
           /\ \A j \in Islands : j # i => dealerSocket'[j] = dealerSocket[j]
<1>1. ReceiveResults(i)
  BY DEF IslandReceives
<1>2. dealerSocket \in [Islands -> Seq(Work)] /\ dealerSocket[i] # << >>
  BY <1>1, PlacesTypes DEF ReceiveResults
<1>3. /\ Head(dealerSocket[i]) = dealerSocket[i][1] /\ 1 \in 1..Len(dealerSocket[i])
      /\ Head(dealerSocket[i]) \in Work
      /\ Len(dealerSocket[i]) \in Nat \ {0}
      /\ Tail(dealerSocket[i]) \in Seq(Work)
      /\ Len(Tail(dealerSocket[i])) = Len(dealerSocket[i]) - 1
  BY <1>2, ReceiveOne
<1>4. Len(dealerSocket[i]) = 1
  BY <1>3 DEF PlacesInv, OnePlace
<1>5. Tail(dealerSocket[i]) = << >>
  <2> DEFINE t == Tail(dealerSocket[i])
  <2>1. t \in Seq(Work) /\ Len(t) = 0
    BY <1>3, <1>4
  <2> HIDE DEF t
  <2>2. t = << >>
    BY <2>1
  <2> QED
    BY <2>2 DEF t
<1> QED
  BY <1>1, <1>2, <1>3, <1>5 DEF ReceiveResults, OwnResults

\* The steps that the islands see.
LEMMA OtherStepsUnseen ==
    ASSUME SessionInv, [Next]_vars, ~ControllerRestarts,
           \A i \in Islands : ~IslandSends(i) /\ ~IslandReceives(i),
           \A w \in Workers : ~(ControllerHandlesWorker(w) /\ HandleWorkResults(w))
    PROVE  UNCHANGED <<dealerSocket, evolving, cycle, population>>
<1>1. CASE UNCHANGED vars
  BY <1>1 DEF vars, networkVars, islandVars
<1>2. ASSUME NEW w \in Workers, ControllerHandlesWorker(w)
      PROVE  UNCHANGED <<dealerSocket, evolving, cycle, population>>
  BY <1>2 DEF ControllerHandlesWorker, HandleWorkerJoin, HandleWorkerLeave,
              HandleGetDll, islandVars
<1>3. ASSUME NEW w \in Workers,
             \/ WorkerRuns(w) \/ WorkerConnects(w) \/ WorkerStarts(w)
             \/ WorkerDies(w) \/ LinkBreaks(w)
      PROVE  UNCHANGED <<dealerSocket, evolving, cycle, population>>
  <2>1. UNCHANGED dealerSocket
    BY <1>3
    DEF WorkerRuns, StartWorkerThread, StartOverRunningThread, HandleDllBinary,
        LoadWork, RequestDll, Evolve, HandleThreadResults, WorkerConnects,
        WorkerConnect, Connect, WorkerStarts, StartWorker, WorkerDies,
        CrashWorker, WorkerThreadFails, Exit, DropProcess, LinkBreaks,
        DropLink, networkVars
  <2>2. UNCHANGED islandVars
    BY <1>3 DEF WorkerRuns, WorkerConnects, WorkerStarts, WorkerDies, LinkBreaks
  <2> QED
    BY <2>1, <2>2 DEF islandVars
<1>4. ASSUME NEW i \in Islands, ControllerHandlesIsland(i)
      PROVE  UNCHANGED <<dealerSocket, evolving, cycle, population>>
  BY <1>4 DEF ControllerHandlesIsland, HandleAllocateWork, islandVars
<1> QED
  BY <1>1, <1>2, <1>3, <1>4 DEF Next, Finished

\* As long as no connection breaks under a live worker, every step keeps
\* OwnResults.
LEMMA OwnResultsStep ==
    ASSUME TypeOK, RegistrationInv, SessionInv, PlacesInv, OwnResults,
           [Next]_vars, ~ControllerRestarts
    PROVE  OwnResults'
<1>1. /\ dealerSocket \in [Islands -> Seq(Work)]
      /\ cycle \in [Islands -> 0..MaxCycles]
      /\ population \in [Islands -> Work \cup {NoWork}]
  BY PlacesTypes DEF TypeOK, IslandTypeOK
<1>2. ASSUME NEW i \in Islands, IslandSends(i) PROVE OwnResults'
  BY <1>2 DEF IslandSends, SendWork, OwnResults, Current
<1>3. ASSUME NEW i \in Islands, IslandReceives(i) PROVE OwnResults'
  <2>1. /\ Head(dealerSocket[i]) \in Work /\ Current(i, Head(dealerSocket[i]))
        /\ dealerSocket'[i] = << >>
        /\ population' = [population EXCEPT ![i] = Head(dealerSocket[i])]
        /\ cycle' = [cycle EXCEPT ![i] = @ + 1]
        /\ \A j \in Islands : j # i => dealerSocket'[j] = dealerSocket[j]
    BY <1>3, ResultsAccepted
  <2> SUFFICES ASSUME NEW j \in Islands
               PROVE  /\ population'[j] # NoWork =>
                           /\ population'[j].island = j
                           /\ population'[j].cycle = cycle'[j]
                      /\ \A n \in 1..Len(dealerSocket'[j]) :
                           /\ dealerSocket'[j][n].island = j
                           /\ dealerSocket'[j][n].cycle = cycle'[j] + 1
    BY DEF OwnResults, Current
  <2>2. CASE j = i
    <3>1. /\ population'[j] = Head(dealerSocket[i]) /\ cycle'[j] = cycle[i] + 1
          /\ Len(dealerSocket'[j]) = 0
      BY <1>1, <2>1, <2>2
    <3> QED
      BY <2>1, <2>2, <3>1 DEF Current
  <2>3. CASE j # i
    <3>1. /\ population'[j] = population[j] /\ cycle'[j] = cycle[j]
          /\ dealerSocket'[j] = dealerSocket[j]
      BY <1>1, <2>1, <2>3
    <3> QED
      BY <3>1 DEF OwnResults, Current
  <2> QED
    BY <2>2, <2>3
<1>4. ASSUME NEW w \in Workers, ControllerHandlesWorker(w), HandleWorkResults(w)
      PROVE  OwnResults'
  <2> DEFINE isle == workAllocationMap[w].island
  <2>1. /\ isle \in Islands /\ Current(isle, workAllocationMap[w])
        /\ Len(dealerSocket[isle]) = 0
        /\ dealerSocket' = [dealerSocket EXCEPT ![isle] =
                              Append(@, workAllocationMap[w])]
    BY <1>4, ResultsForwarded
  <2>2. UNCHANGED <<population, cycle>>
    BY <1>4 DEF ControllerHandlesWorker, islandVars
  <2>3. dealerSocket'[isle] = Append(dealerSocket[isle], workAllocationMap[w])
    BY <1>1, <2>1
  <2> HIDE DEF isle
  <2>4. Len(dealerSocket'[isle]) = 1 /\ dealerSocket'[isle][1] = workAllocationMap[w]
    BY <1>1, <2>1, <2>3
  <2>5. ASSUME NEW j \in Islands, NEW n \in 1..Len(dealerSocket'[j])
        PROVE  Current(j, dealerSocket'[j][n])
    <3>1. CASE j = isle
      BY <2>1, <2>4, <2>5, <3>1
    <3>2. CASE j # isle
      BY <1>1, <2>1, <2>5, <3>2 DEF OwnResults
    <3> QED
      BY <3>1, <3>2
  <2> QED
    BY <2>2, <2>5 DEF OwnResults, Current
<1>5. CASE UNCHANGED <<dealerSocket, evolving, cycle, population>>
  BY <1>5 DEF OwnResults, Current
<1> QED
  BY <1>2, <1>3, <1>4, <1>5, OtherStepsUnseen

\* Nothing has broken before a state in which nothing has broken.
LEMMA StillUnbroken ==
    ASSUME TypeOK, [Next]_vars, Unbroken'
    PROVE  Unbroken /\ ~ControllerRestarts
<1>1. drops' = drops \/ drops' = drops + 1
  BY DEF Next, vars, faultVars, ControllerHandlesWorker,
         ControllerHandlesIsland, WorkerRuns, WorkerConnects, IslandSends,
         IslandReceives, WorkerStarts, WorkerDies, LinkBreaks,
         ControllerRestarts, Finished
<1>2. drops = 0 /\ drops' = 0
  BY <1>1 DEF Unbroken, TypeOK
<1> QED
  BY <1>2 DEF Unbroken, ControllerRestarts

\* OwnResults holds until a connection breaks under a live worker.
THEOREM ResultsStayOwn == Spec => [](Unbroken => OwnResults)
<1>1. Init => OwnResults
  <2> SUFFICES ASSUME Init, NEW i \in Islands
               PROVE  population[i] = NoWork /\ Len(dealerSocket[i]) = 0
    BY DEF OwnResults
  <2>1. population[i] = NoWork /\ dealerSocket[i] = << >>
    BY DEF Init, NetworkInit, IslandInit
  <2> QED
    BY <2>1
<1>2. TypeOK /\ RegistrationInv /\ PlacesInv /\ (Unbroken => SessionInv)
        /\ (Unbroken => OwnResults) /\ [Next]_vars
        => (Unbroken => OwnResults)'
  BY StillUnbroken, OwnResultsStep
<1> QED
  BY <1>1, <1>2, TypeCorrect, RegistrationHolds, PlacesHold,
     SessionsStayInStep, PTL DEF Spec

\* An island gets the results of its own current population only, not those of
\* another island or of an earlier call.
THEOREM ResultsAreOwn == Spec => []ResultsBelongToIsland
<1>1. (Unbroken => OwnResults) => ResultsBelongToIsland
  BY DEF OwnResults, Current, ResultsBelongToIsland
<1> QED
  BY <1>1, ResultsStayOwn, PTL

-----------------------------------------------------------------------------
(***************************************************************************)
(* The safety half of EveryCallReturns: everyone waiting on everyone never *)
(* happens.  The guards of the steps are spelled out.                      *)
(***************************************************************************)
\* The poll loop of run_server() has a message of the worker to handle.
ServerHasMail(w) == Serving /\ workersSocket[w] # << >>

\* The message loop or the thread of the worker is not blocked.
WorkerHasStep(w) ==
    workerSocket[w] # << >> \/ workerThread[w].phase \in {"load", "evolve", "done"}

CanConnect(w) == ~linkUp[w] /\ workersSocket[w] = << >>

\* While run_evolve() blocks, its results are there, or its request can be
\* read, or the worker that has its work is heard of or works; and when it waits
\* for a worker, no process of a worker idles.
NobodyIsStuck ==
    \A i \in Islands : evolving[i] =>
        \/ dealerSocket[i] # << >>
        \/ Serving /\ islandsSocket[i] # << >>
        \/ \E w \in Workers : /\ workAllocationMap[w] # NoWork
                              /\ workAllocationMap[w].island = i
                              /\ ServerHasMail(w) \/ WorkerHasStep(w)
        \/ /\ islandsWaitingForAlloc[i] # NoWork
           /\ \A w \in Workers :
                 processUp[w] => ServerHasMail(w) \/ WorkerHasStep(w) \/ CanConnect(w)

\* Only a free worker has nothing to do.
LEMMA NotFreeNotIdle ==
    ASSUME TypeOK, SessionInv, NEW w \in Workers, w \notin freeWorkersPool
    PROVE  \/ ServerHasMail(w) \/ WorkerHasStep(w)
           \/ CanConnect(w) /\ workAllocationMap[w] = NoWork
<1> DEFINE S == workersSocket[w]
           R == workerSocket[w]
           T == workerThread[w]
           work == workAllocationMap[w]
<1>1. /\ Serving
      /\ SessionState(linkUp[w], S, R, T, workerUnsent[w], w \in freeWorkersPool, work)
  BY SessionTypes DEF SessionInv
<1>2. T \in Thread \cup {NoThread}
  BY DEF TypeOK, WorkerTypeOK
<1>3. T.phase \in {"none", "load", "dll", "evolve", "done"}
  BY <1>2 DEF Thread, NoThread
<1>4. \A m, n : <<m>> # << >> /\ <<m, n>> # << >>
  OBVIOUS
<1> HIDE DEF S, R, T, work
<1>5. CASE linkUp[w]
  <2>1. CASE Unallocated(S, R, T, workerUnsent[w], w \in freeWorkersPool, work)
    BY <1>1, <1>4, <2>1 DEF Unallocated, ServerHasMail, S
  <2>2. CASE Busy(S, R, T, workerUnsent[w], w \in freeWorkersPool, work)
    <3>1. S # << >> \/ R # << >> \/ T.phase \notin {"none", "dll"}
      BY <1>4, <2>2 DEF Busy
    <3> QED
      BY <1>1, <1>3, <3>1 DEF ServerHasMail, WorkerHasStep, S, R, T
  <2> QED
    BY <1>1, <1>5, <2>1, <2>2 DEF SessionState
<1>6. CASE ~linkUp[w]
  <2>1. Away(S, R, T, workerUnsent[w], w \in freeWorkersPool, work)
    BY <1>1, <1>6 DEF SessionState
  <2>2. S # << >> \/ (S = << >> /\ work = NoWork)
    BY <1>4, <2>1 DEF Away
  <2> QED
    BY <1>1, <1>6, <2>2 DEF ServerHasMail, CanConnect, S, work
<1> QED
  BY <1>5, <1>6

\* Until a connection breaks under a live worker a blocked run_evolve() always
\* has a step of somebody to wait for, for any number of workers, islands and
\* crashes: what cluster_live then needs is only that these steps are taken.
THEOREM NobodyGetsStuck == Spec => [](Unbroken => NobodyIsStuck)
<1>1. TypeOK /\ WorkConservation /\ RegistrationInv /\ PlacesInv /\ SessionInv
        => NobodyIsStuck
  <2> SUFFICES ASSUME TypeOK, WorkConservation, RegistrationInv, PlacesInv, SessionInv,
                      NEW i \in Islands, evolving[i],
                      dealerSocket[i] = << >>, islandsSocket[i] = << >>
               PROVE  \/ \E w \in Workers : /\ workAllocationMap[w] # NoWork
                                            /\ workAllocationMap[w].island = i
                                            /\ ServerHasMail(w) \/ WorkerHasStep(w)
                      \/ /\ islandsWaitingForAlloc[i] # NoWork
                         /\ \A w \in Workers : processUp[w] =>
                              ServerHasMail(w) \/ WorkerHasStep(w) \/ CanConnect(w)
    BY DEF NobodyIsStuck, SessionInv
  <2>1. Len(dealerSocket[i]) = 0 /\ Len(islandsSocket[i]) = 0
    OBVIOUS
  <2>2. InMaps(workAllocationMap, islandsWaitingForAlloc, i)
    BY <2>1 DEF PlacesInv, OnePlace
  <2>3. CASE islandsWaitingForAlloc[i] # NoWork
    <3>1. freeWorkersPool = {}
      BY <2>3 DEF WorkConservation, WaitingIslands
    <3>2. \A w \in Workers : ServerHasMail(w) \/ WorkerHasStep(w) \/ CanConnect(w)
      BY <3>1, NotFreeNotIdle
    <3> QED
      BY <2>3, <3>2
  <2>4. CASE \E w \in Workers :
               workAllocationMap[w] # NoWork /\ workAllocationMap[w].island = i
    <3>1. PICK w \in Workers :
             workAllocationMap[w] # NoWork /\ workAllocationMap[w].island = i
      BY <2>4
    <3>2. w \notin freeWorkersPool
      BY <3>1 DEF RegistrationInv, WorkersKept, AllKept, Kept
    <3>3. ServerHasMail(w) \/ WorkerHasStep(w)
      BY <3>1, <3>2, NotFreeNotIdle
    <3> QED
      BY <3>1, <3>3
  <2> QED
    BY <2>2, <2>3, <2>4 DEF InMaps
<1> QED
  BY <1>1, TypeCorrect, WorkIsConserved, RegistrationHolds, PlacesHold,
     SessionsStayInStep, PTL

-----------------------------------------------------------------------------
(***************************************************************************)
(* The refinement of WorkService.  As the islands see it, only three steps *)
(* of the cluster are not stuttering steps.                                *)
(***************************************************************************)
callStatus == [i \in Islands |-> IF ~evolving[i] THEN "idle"
                                 ELSE IF dealerSocket[i] = << >>
                                      THEN "requested" ELSE "answered"]
callAnswer == [i \in Islands |-> IF population[i] = NoWork THEN << >>
                                 ELSE <<population[i].island,
                                        population[i].cycle>>]

\* run_evolve() up to its receive() is Request.
LEMMA SendsIsRequest ==
    ASSUME TypeOK, RegistrationInv, PlacesInv, NEW i \in Islands, IslandSends(i)
    PROVE  Service!Request(i)
<1>1. /\ ~evolving[i] /\ cycle[i] < MaxCycles
      /\ evolving' = [evolving EXCEPT ![i] = TRUE]
      /\ UNCHANGED <<cycle, population, dealerSocket>>
  BY DEF IslandSends, SendWork
<1>2. evolving \in [Islands -> BOOLEAN] /\ dealerSocket[i] \in Seq(Work)
  BY PlacesTypes
<1>3. Len(dealerSocket[i]) = 0
  BY <1>1 DEF PlacesInv, OnePlace
<1>4. dealerSocket[i] = << >>
  BY <1>2, <1>3
<1>5. callStatus' = [callStatus EXCEPT ![i] = "requested"]
  BY <1>1, <1>2, <1>4 DEF callStatus
<1>6. callStatus[i] = "idle" /\ callAnswer' = callAnswer
  BY <1>1 DEF callStatus, callAnswer
<1> QED
  BY <1>1, <1>5, <1>6 DEF Service!Request, callStatus, callAnswer

\* Results forwarded by the controller are Answer.
LEMMA ForwardIsAnswer ==
    ASSUME TypeOK, RegistrationInv, SessionInv, PlacesInv, NEW w \in Workers,
           ControllerHandlesWorker(w), HandleWorkResults(w)
    PROVE  \E i \in Islands : Service!Answer(i)
<1>0. PICK isle \in Islands : isle = workAllocationMap[w].island
  BY ResultsForwarded
<1>1. /\ evolving[isle] /\ Len(dealerSocket[isle]) = 0
      /\ workAllocationMap[w] \in Work
      /\ dealerSocket' = [dealerSocket EXCEPT ![isle] =
                            Append(@, workAllocationMap[w])]
  BY <1>0, ResultsForwarded
<1>2. UNCHANGED <<evolving, cycle, population>>
  BY DEF ControllerHandlesWorker, islandVars
<1>3. dealerSocket \in [Islands -> Seq(Work)] /\ dealerSocket[isle] \in Seq(Work)
  BY <1>1, PlacesTypes
<1>4. dealerSocket[isle] = << >>
  BY <1>1, <1>3
<1>5. /\ dealerSocket'[isle] = Append(dealerSocket[isle], workAllocationMap[w])
      /\ \A j \in Islands : j # isle => dealerSocket'[j] = dealerSocket[j]
  BY <1>1, <1>3
<1>6. dealerSocket'[isle] # << >>
  BY <1>1, <1>3, <1>5
<1>7. callStatus' = [callStatus EXCEPT ![isle] = "answered"]
  BY <1>1, <1>2, <1>5, <1>6 DEF callStatus
<1>8. callStatus[isle] = "requested" /\ callAnswer' = callAnswer
  BY <1>1, <1>2, <1>4 DEF callStatus, callAnswer
<1>9. Service!Answer(isle)
  BY <1>2, <1>7, <1>8 DEF Service!Answer, callStatus, callAnswer
<1> QED
  BY <1>9

\* run_evolve() from receive() on is Accept.
LEMMA ReceivesIsAccept ==
    ASSUME TypeOK, RegistrationInv, PlacesInv, OwnResults, NEW i \in Islands,
           IslandReceives(i)
    PROVE  Service!Accept(i)
<1> DEFINE work == Head(dealerSocket[i])
<1>1. /\ evolving[i] /\ dealerSocket[i] # << >>
      /\ work \in Work /\ Current(i, work)
      /\ dealerSocket'[i] = << >>
      /\ population' = [population EXCEPT ![i] = work]
      /\ cycle' = [cycle EXCEPT ![i] = @ + 1]
      /\ evolving' = [evolving EXCEPT ![i] = FALSE]
      /\ \A j \in Islands : j # i => dealerSocket'[j] = dealerSocket[j]
  BY ResultsAccepted
<1> HIDE DEF work
<1>2. /\ evolving \in [Islands -> BOOLEAN]
      /\ population \in [Islands -> Work \cup {NoWork}]
  BY PlacesTypes DEF TypeOK, IslandTypeOK
<1>3. work # NoWork /\ <<work.island, work.cycle>> = <<i, cycle[i] + 1>>
  BY <1>1, NoWorkAssumption DEF Current
<1>4. callStatus' = [callStatus EXCEPT ![i] = "idle"]
  BY <1>1, <1>2 DEF callStatus
<1>5. callAnswer' = [callAnswer EXCEPT ![i] = <<i, cycle[i] + 1>>]
  BY <1>1, <1>2, <1>3 DEF callAnswer
<1>6. callStatus[i] = "answered"
  BY <1>1 DEF callStatus
<1> QED
  BY <1>1, <1>4, <1>5, <1>6 DEF Service!Accept, callStatus, callAnswer

\* As long as connections end only with their worker's process, the cluster
\* implements the abstract service: each call is answered once, with its own
\* results, for any number of workers, islands, calls and crashes.
THEOREM ClusterImplementsService == Spec /\ []Unbroken => ImplementsService
<1>1. Init => Service!Init
  <2> SUFFICES ASSUME Init PROVE Service!Init
    OBVIOUS
  <2>1. /\ cycle = [i \in Islands |-> 0]
        /\ callStatus = [i \in Islands |-> "idle"]
        /\ callAnswer = [i \in Islands |-> << >>]
    BY DEF Init, IslandInit, callStatus, callAnswer
  <2> QED
    BY <2>1 DEF Service!Init, Service!Nothing, callStatus, callAnswer
<1>2. TypeOK /\ RegistrationInv /\ PlacesInv /\ (Unbroken => SessionInv)
        /\ (Unbroken => OwnResults) /\ Unbroken' /\ [Next]_vars
        => [Service!Next]_Service!vars
  <2> SUFFICES ASSUME TypeOK, RegistrationInv, PlacesInv, SessionInv,
                      OwnResults, ~ControllerRestarts, [Next]_vars
               PROVE  [Service!Next]_Service!vars
    BY StillUnbroken
  <2>1. ASSUME NEW i \in Islands, IslandSends(i) PROVE Service!Next
    BY <2>1, SendsIsRequest DEF Service!Next
  <2>2. ASSUME NEW i \in Islands, IslandReceives(i) PROVE Service!Next
    BY <2>2, ReceivesIsAccept DEF Service!Next
  <2>3. ASSUME NEW w \in Workers, ControllerHandlesWorker(w), HandleWorkResults(w)
        PROVE  Service!Next
    BY <2>3, ForwardIsAnswer DEF Service!Next
  <2>4. CASE UNCHANGED <<dealerSocket, evolving, cycle, population>>
    <3>1. UNCHANGED <<callStatus, cycle, callAnswer>>
      BY <2>4 DEF callStatus, callAnswer
    <3> QED
      BY <3>1 DEF Service!vars, callStatus, callAnswer
  <2> QED
    BY <2>1, <2>2, <2>3, <2>4, OtherStepsUnseen
<1> QED
  BY <1>1, <1>2, TypeCorrect, RegistrationHolds, PlacesHold,
     SessionsStayInStep, ResultsStayOwn, PTL
  DEF Spec, ImplementsService, Service!Spec
=============================================================================
