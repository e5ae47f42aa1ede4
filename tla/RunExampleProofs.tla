-------------------------- MODULE RunExampleProofs --------------------------
(***************************************************************************)
(* What holds of every process of run_example, for any number of problems  *)
(* and algorithms of a benchmark: where main and the threads can be        *)
(* together, what the registry keeps alive, and what the reports have.     *)
(* Each invariant is inductive relative to the ones before it.             *)
(***************************************************************************)
EXTENDS RunExample, FiniteSetTheorems, SequenceTheorems, TLAPS

-----------------------------------------------------------------------------
(***************************************************************************)
(* Control: main, its tasks and the threads of the present object.         *)
(***************************************************************************)
Places == {"main", "next", "construct", "constructed", "set_default", "work",
           "evolving", "waiting", "~logger_control", "catch"} \cup Destructors \cup Ends

Task == {"default", "benchmark", "worker"}

ControlTypes ==
    /\ args \in main_args
    /\ pc \in Places
    /\ tasks \in Seq(Task)
    /\ unwinding \in BOOLEAN
    /\ running \subseteq Threads
    /\ workerUp \in BOOLEAN

\* Between the options and the end there is a task; with an option for a
\* benchmark, all of them are.
TasksLeft ==
    /\ pc \notin {"main"} \cup Ends => tasks # << >>
    /\ args.isController /\ (args.runSO \/ args.runMO) =>
         \A n \in 1..Len(tasks) : tasks[n] = "benchmark"

\* The threads that can run, by main's place: none outlives its object.
Crew ==
    /\ pc \in {"main", "next", "construct", "~logger_control", "catch"} => running = {}
    /\ pc \in {"constructed", "set_default"} => "work" \notin running
    /\ pc \in {"~controller", "join"} => running \subseteq {"server"}
    /\ pc \in {"evolving", "waiting", "~archipelago", "~controller", "join"} =>
         args.isController
    /\ pc = "~worker" => ~args.isController
    /\ IF args.isController THEN "work" \notin running ELSE running \subseteq {"work"}

\* A worker's object is only ever destroyed by an exception.
Unwinding ==
    /\ pc \in {"main", "next", "construct", "constructed", "set_default", "work",
               "evolving", "waiting", "exit_0"} => ~unwinding
    /\ ~args.isController => /\ pc \notin {"next", "exit_0"}
                             /\ pc \in {"~worker", "~logger_control"} => unwinding

ControlInv == ControlTypes /\ TasksLeft /\ Crew /\ Unwinding

\* Two sequences of one element in a row.
LEMMA ConcatOfTwo ==
    ASSUME NEW S, NEW s \in Seq(S), NEW u \in Seq(S), Len(s) = 1, Len(u) = 1
    PROVE  /\ s \o u \in Seq(S) /\ Len(s \o u) = 2
           /\ (s \o u)[1] = s[1] /\ (s \o u)[2] = u[1]
<1> DEFINE w == s \o u
<1>1. /\ w \in Seq(S) /\ Len(w) = Len(s) + Len(u)
      /\ \A i \in 1..(Len(s) + Len(u)) :
           w[i] = IF i <= Len(s) THEN s[i] ELSE u[i - Len(s)]
  BY ConcatProperties, Zenon
<1> HIDE DEF w
<1>2. Len(w) = 2 /\ w[1] = s[1] /\ w[2] = u[1]
  BY <1>1
<1> QED
  BY <1>1, <1>2 DEF w

\* The tasks that the options ask for.
LEMMA TasksOfOptions ==
    ASSUME args \in main_args
    PROVE  /\ Tasks \in Seq(Task) /\ Tasks # << >>
           /\ args.isController /\ (args.runSO \/ args.runMO) =>
                \A n \in 1..Len(Tasks) : Tasks[n] = "benchmark"
           /\ args.isController /\ args.runSO /\ args.runMO => Len(Tasks) = 2
           /\ args.isController /\ args.runSO /\ ~args.runMO => Len(Tasks) = 1
           /\ args.isController /\ ~args.runSO /\ args.runMO => Len(Tasks) = 1
<1>1. CASE ~args.isController
  BY <1>1 DEF Tasks, Task
<1>2. CASE args.isController /\ ~args.runSO /\ ~args.runMO
  BY <1>2 DEF Tasks, Task
<1>3. CASE args.isController /\ args.runSO /\ args.runMO
  <2>1. Tasks = <<"benchmark">> \o <<"benchmark">>
    BY <1>3 DEF Tasks
  <2>2. <<"benchmark">> \in Seq(Task) /\ Len(<<"benchmark">>) = 1
    BY DEF Task
  <2> DEFINE b == <<"benchmark">>
  <2>3. b \in Seq(Task) /\ Len(b) = 1 /\ b[1] = "benchmark"
    BY <2>2
  <2> HIDE DEF b
  <2>4. /\ b \o b \in Seq(Task) /\ Len(b \o b) = 2
        /\ (b \o b)[1] = b[1] /\ (b \o b)[2] = b[1]
    BY <2>3, ConcatOfTwo, Zenon
  <2>5. Tasks = b \o b
    BY <2>1 DEF b
  <2>6. /\ Tasks \in Seq(Task) /\ Len(Tasks) = 2
        /\ Tasks[1] = "benchmark" /\ Tasks[2] = "benchmark"
    BY <2>3, <2>4, <2>5, Zenon
  <2>7. Tasks # << >>
    <3>1. Len(<< >>) = 0
      OBVIOUS
    <3>2. 2 # 0
      OBVIOUS
    <3> QED
      BY <2>6, <3>1, <3>2, Zenon
  <2>8. ASSUME NEW n \in 1..Len(Tasks) PROVE Tasks[n] = "benchmark"
    <3>1. n = 1 \/ n = 2
      BY <2>6
    <3> QED
      BY <2>6, <3>1
  <2> QED
    BY <1>3, <2>6, <2>7, <2>8, Zenon
<1>4. CASE args.isController /\ args.runSO /\ ~args.runMO
  <2>1. Tasks = <<"benchmark">> \o << >>
    BY <1>4 DEF Tasks
  <2>2. Tasks = <<"benchmark">>
    BY <2>1
  <2> QED
    BY <1>4, <2>2 DEF Task
<1>5. CASE args.isController /\ ~args.runSO /\ args.runMO
  <2>1. Tasks = << >> \o <<"benchmark">>
    BY <1>5 DEF Tasks
  <2>2. Tasks = <<"benchmark">>
    BY <2>1
  <2> QED
    BY <1>5, <2>2 DEF Task
<1>6. /\ args.isController \in BOOLEAN /\ args.runSO \in BOOLEAN
      /\ args.runMO \in BOOLEAN
  BY DEF main_args
<1> QED
  BY <1>1, <1>2, <1>3, <1>4, <1>5, <1>6

\* Steps of main before the object exists and after its end.
LEMMA MainControl ==
    ASSUME ControlInv, Main \/ ParseFails \/ PrepareThrows \/ NextTask \/ Catch
    PROVE  ControlInv'
<1>1. CASE Main
  <2>1. UNCHANGED <<args, workerUp, unwinding, running>> /\ tasks' = Tasks /\ pc = "main"
        /\ pc' = "construct"
    BY <1>1 DEF Main
  <2>2. TasksLeft' /\ ControlTypes'
    BY <2>1, TasksOfOptions DEF ControlInv, ControlTypes, TasksLeft, Places
  <2>3. Crew' /\ Unwinding'
    BY <2>1 DEF ControlInv, Crew, Unwinding
  <2> QED
    BY <2>2, <2>3 DEF ControlInv
<1>2. CASE ParseFails
  BY <1>2 DEF ParseFails, mainVars, ControlInv, ControlTypes, Places, TasksLeft,
              Crew, Unwinding, Ends
<1>3. CASE PrepareThrows
  BY <1>3 DEF PrepareThrows, Throw, mainVars, ControlInv, ControlTypes, Places,
              TasksLeft, Crew, Unwinding, Ends
<1>4. CASE NextTask
  <2>1. /\ UNCHANGED <<args, workerUp, unwinding, running>> /\ tasks' = Tail(tasks)
        /\ pc = "next" /\ pc' = IF Len(tasks) > 1 THEN "construct" ELSE "exit_0"
    BY <1>4 DEF NextTask
  <2>2. tasks \in Seq(Task) /\ tasks # << >>
    BY <2>1 DEF ControlInv, ControlTypes, TasksLeft, Ends
  <2>3. /\ Len(tasks) \in Nat /\ tasks' \in Seq(Task) /\ Len(tasks') = Len(tasks) - 1
        /\ \A n \in 1..Len(tasks') : tasks'[n] = tasks[n + 1] /\ n + 1 \in 1..Len(tasks)
    <3>1. ASSUME NEW S, NEW s \in Seq(S), s # << >>
          PROVE  /\ Len(s) \in Nat /\ Tail(s) \in Seq(S) /\ Len(Tail(s)) = Len(s) - 1
                 /\ \A n \in 1..Len(Tail(s)) : Tail(s)[n] = s[n + 1] /\ n + 1 \in 1..Len(s)
      BY <3>1
    <3> QED
      BY <2>1, <2>2, <3>1
  <2>4. Len(tasks) > 1 => tasks' # << >>
    BY <2>3
  <2>5. TasksLeft'
    <3>1. args.isController /\ (args.runSO \/ args.runMO) =>
            \A n \in 1..Len(tasks') : tasks'[n] = "benchmark"
      BY <2>3 DEF ControlInv, TasksLeft
    <3> QED
      BY <2>1, <2>4, <3>1 DEF TasksLeft, Ends
  <2>6. ControlTypes'
    BY <2>1, <2>3 DEF ControlInv, ControlTypes, Places, Ends
  <2>7. Crew' /\ Unwinding'
    BY <2>1 DEF ControlInv, Crew, Unwinding
  <2> QED
    BY <2>5, <2>6, <2>7 DEF ControlInv
<1>5. CASE Catch
  BY <1>5 DEF Catch, mainVars, ControlInv, ControlTypes, Places, TasksLeft,
              Crew, Unwinding, Ends
<1> QED
  BY <1>1, <1>2, <1>3, <1>4, <1>5

\* Steps of main that make the object, work with it and destroy it.  They leave
\* the options and the tasks alone.
LEMMA ObjectControl ==
    ASSUME ControlInv,
           \/ Construct \/ EnableLogging \/ SetDefaultLogger \/ evolve
           \/ wait_until_completion \/ EvolutionEnds \/ TaskEnds \/ ClientLoop
           \/ DestroyMembers \/ DestroyLoggerControl
    PROVE  ControlInv'
<1> USE DEF ControlTypes, Crew, Unwinding, Places, Throw, FirstDestructor, mainVars
<1>0. UNCHANGED <<args, tasks, workerUp>>
  BY DEF Construct, EnableLogging, SetDefaultLogger, evolve, wait_until_completion, EvolutionEnds,
         TaskEnds, ClientLoop, DestroyMembers, DestroyLoggerControl
<1>1. TasksLeft'
  <2>1. pc \notin {"main"} \cup Ends
    BY DEF Construct, EnableLogging, SetDefaultLogger, evolve,
           wait_until_completion, EvolutionEnds, TaskEnds, ClientLoop, DestroyMembers, DestroySolverMembers,
           DestroyWorkerMembers, DestroyLoggerControl, Ends
  <2> QED
    BY <1>0, <2>1 DEF ControlInv, TasksLeft
<1>2. (ControlTypes /\ Crew /\ Unwinding)'
  <2>1. CASE Construct
    <3>1. /\ pc = "construct"
          /\ \/ pc' \in {"catch", "~logger_control"} /\ unwinding' = TRUE /\ running' = running
             \/ /\ pc' = "constructed" /\ unwinding' = unwinding
                /\ running' = IF args.isController THEN {"server"} ELSE {}
      BY <2>1 DEF Construct
    <3>2. running' \subseteq Threads /\ pc' \in Places
      BY <3>1 DEF ControlInv, Threads
    <3>3. unwinding' \in BOOLEAN
      BY <3>1, Zenon DEF ControlInv
    <3>4. Crew'
      BY <1>0, <3>1 DEF ControlInv
    <3>5. Unwinding'
      BY <1>0, <3>1 DEF ControlInv
    <3> QED
      BY <1>0, <3>2, <3>3, <3>4, <3>5 DEF ControlInv
  <2>2. CASE EnableLogging
    BY <1>0, <2>2 DEF EnableLogging, ControlInv, Destructors
  <2>3. CASE evolve
    <3>1. /\ pc = "work" /\ args.isController
          /\ running' \in {running, running \cup {"islands"}}
          /\ \/ pc' = "evolving" /\ unwinding' = unwinding
             \/ pc' = "~archipelago" /\ unwinding' = TRUE
      BY <2>3 DEF evolve
    <3>2. running' \subseteq Threads /\ pc' \in Places
      BY <3>1 DEF ControlInv, Destructors, Threads
    <3>3. unwinding' \in BOOLEAN
      BY <3>1, Zenon DEF ControlInv
    <3>4. Crew'
      BY <1>0, <3>1 DEF ControlInv
    <3>5. Unwinding'
      BY <1>0, <3>1 DEF ControlInv
    <3> QED
      BY <1>0, <3>2, <3>3, <3>4, <3>5 DEF ControlInv
  <2>4. CASE wait_until_completion
    BY <1>0, <2>4 DEF wait_until_completion, ControlInv, Destructors
  <2>5. CASE EvolutionEnds
    <3>1. /\ pc = "waiting" /\ running' = running
          /\ \/ pc' = "work" /\ unwinding' = unwinding
             \/ pc' = FirstDestructor /\ unwinding' = TRUE
      BY <2>5 DEF EvolutionEnds
    <3>2. running' \subseteq Threads /\ pc' \in Places
      BY <3>1 DEF ControlInv, Destructors
    <3>3. unwinding' \in BOOLEAN
      BY <3>1, Zenon DEF ControlInv
    <3>4. Crew'
      BY <1>0, <3>1 DEF ControlInv
    <3>5. Unwinding'
      BY <1>0, <3>1 DEF ControlInv
    <3> QED
      BY <1>0, <3>2, <3>3, <3>4, <3>5 DEF ControlInv
  <2>6. CASE TaskEnds
    <3>1. /\ pc = "work" /\ args.isController /\ running' = running
          /\ pc' = "~archipelago" /\ unwinding' \in {unwinding, TRUE}
      BY <2>6 DEF TaskEnds
    <3>2. unwinding' \in BOOLEAN
      BY <3>1, Zenon DEF ControlInv
    <3> QED
      BY <1>0, <3>1, <3>2 DEF ControlInv, Destructors
  <2>7. CASE ClientLoop
    <3>1. /\ pc = "work" /\ ~args.isController
          /\ \/ pc' = "work" /\ unwinding' = unwinding /\ running' \in {{}, {"work"}}
             \/ pc' = "~worker" /\ unwinding' = TRUE /\ running' = running
      BY <2>7 DEF ClientLoop
    <3>2. running' \subseteq Threads /\ pc' \in Places
      BY <3>1 DEF ControlInv, Destructors, Threads
    <3>3. unwinding' \in BOOLEAN
      BY <3>1, Zenon DEF ControlInv
    <3>4. Crew'
      BY <1>0, <3>1 DEF ControlInv
    <3>5. Unwinding'
      BY <1>0, <3>1 DEF ControlInv
    <3> QED
      BY <1>0, <3>2, <3>3, <3>4, <3>5 DEF ControlInv
  <2>8. CASE DestroyMembers
    BY <1>0, <2>8 DEF DestroyMembers, DestroySolverMembers, DestroyWorkerMembers,
                      ControlInv, Destructors, Ends, Threads
  <2>9. CASE DestroyLoggerControl
    BY <1>0, <2>9 DEF DestroyLoggerControl, ControlInv
  <2>10. CASE SetDefaultLogger
    BY <1>0, <2>10 DEF SetDefaultLogger, ControlInv
  <2> QED
    BY <2>1, <2>2, <2>3, <2>4, <2>5, <2>6, <2>7, <2>8, <2>9, <2>10
<1> QED
  BY <1>1, <1>2 DEF ControlInv

\* Steps of the other threads.
LEMMA ThreadsControl ==
    ASSUME ControlInv,
           \/ IslandsEnd \/ ServerThreadEnds \/ WorkerComesOrGoes
           \/ WorkerThreadThrows \/ WorkerThreadFails
           \/ \E t \in Threads : GetDefaultRaw(t) \/ LogMessage(t)
    PROVE  ControlInv'
<1>1. CASE IslandsEnd \/ ServerThreadEnds
  BY <1>1 DEF IslandsEnd, ServerThreadEnds, mainVars, ControlInv, ControlTypes,
              TasksLeft, Crew, Unwinding
<1>2. CASE WorkerComesOrGoes
  <2>1. UNCHANGED <<args, pc, tasks, unwinding, running>> /\ workerUp' \in BOOLEAN
    BY <1>2 DEF WorkerComesOrGoes
  <2> QED
    BY <2>1 DEF ControlInv, ControlTypes, TasksLeft, Crew, Unwinding
<1>3. CASE WorkerThreadThrows \/ WorkerThreadFails
  BY <1>3 DEF WorkerThreadThrows, WorkerThreadFails, mainVars, ControlInv,
              ControlTypes, Places, TasksLeft, Crew, Unwinding, Ends
<1>4. CASE \E t \in Threads : GetDefaultRaw(t) \/ LogMessage(t)
  <2>1. UNCHANGED <<args, workerUp, pc, tasks, unwinding, running>>
    BY <1>4 DEF GetDefaultRaw, LogMessage, mainVars
  <2> QED
    BY <2>1 DEF ControlInv, ControlTypes, TasksLeft, Crew, Unwinding
<1> QED
  BY <1>1, <1>3, <1>4, <1>2

\* main, its tasks and the threads fit together in every state.
THEOREM ControlHolds == Spec => []ControlInv
<1>1. Init => ControlInv
  <2> SUFFICES ASSUME Init PROVE ControlInv
    OBVIOUS
  <2>1. tasks = << >> /\ tasks \in Seq(Task) /\ Len(tasks) = 0
    BY DEF Init
  <2>2. ControlTypes
    BY <2>1 DEF Init, ControlTypes, Places
  <2>3. TasksLeft
    BY <2>1 DEF Init, TasksLeft
  <2>4. Crew /\ Unwinding
    BY DEF Init, Crew, Unwinding
  <2> QED
    BY <2>2, <2>3, <2>4 DEF ControlInv
<1>2. ControlInv /\ [Next]_vars => ControlInv'
  <2> SUFFICES ASSUME ControlInv, [Next]_vars PROVE ControlInv'
    OBVIOUS
  <2>1. CASE Next /\ ~Ended
    BY <2>1, MainControl, ObjectControl, ThreadsControl DEF Next
  <2>2. CASE Ended \/ UNCHANGED vars
    <3>1. UNCHANGED <<args, workerUp, pc, tasks, unwinding, running>>
      BY <2>2 DEF Ended, vars, mainVars
    <3> QED
      BY <3>1 DEF ControlInv, ControlTypes, TasksLeft, Crew, Unwinding
  <2> QED
    BY <2>1, <2>2
<1> QED
  BY <1>1, <1>2, PTL DEF Spec

-----------------------------------------------------------------------------
(***************************************************************************)
(* The loggers.                                                            *)
(***************************************************************************)
LoggerTypes ==
    /\ loggers \subseteq {default_logger_name, "null_logger", "global_logger"}
    /\ defaultLogger \in loggers \cup {NoLogger}
    /\ loggerEnabled \in BOOLEAN
    /\ holds \in [Threads -> {default_logger_name, "null_logger", "global_logger",
                              NoLogger}]
    /\ buffered \subseteq {"debug", "warn", "critical"}
    /\ written \subseteq {"debug", "warn", "critical"}

\* A thread with a logger in hand is running, and the logger is registered.
HeldIsAlive ==
    \A t \in Threads : holds[t] # NoLogger => t \in running /\ holds[t] \in loggers

Working == pc \in {"work", "evolving", "waiting"} \/ "work" \in running

Fresh == pc \in {"main", "next", "construct", "constructed"}

\* While an object works, enable_logging() has had its effect or was not called.
\* (After an exception of enable_logging() the flag is set and the logger is
\* missing, but the object does not work then.)  Before set_default_logger() begins,
\* the new logger is registered.
EnabledMeansGlobal ==
    /\ loggerEnabled /\ Working => defaultLogger = "global_logger"
    /\ Fresh => ~loggerEnabled
    /\ pc = "set_default" => "global_logger" \in loggers

LoggerInv == LoggerTypes /\ HeldIsAlive /\ EnabledMeansGlobal /\ FailureIsOnDisk

\* A step of main or of a thread that neither logs nor changes the registry.
LEMMA SilentStep ==
    ASSUME LoggerInv, UNCHANGED <<logVars, holds>>,
           \A t \in Threads : holds[t] # NoLogger /\ t \in running => t \in running',
           Working' => Working, Fresh' => Fresh, pc' # "thread_failed",
           pc' = "set_default" => pc = "set_default"
    PROVE  LoggerInv'
<1>1. UNCHANGED <<loggers, defaultLogger, loggerEnabled, buffered, written, holds>>
  BY DEF logVars, registryVars, fileVars
<1>2. LoggerTypes' /\ HeldIsAlive'
  BY <1>1 DEF LoggerInv, LoggerTypes, HeldIsAlive
<1>3. EnabledMeansGlobal'
  BY <1>1 DEF LoggerInv, EnabledMeansGlobal
<1>4. FailureIsOnDisk'
  BY DEF FailureIsOnDisk
<1> QED
  BY <1>2, <1>3, <1>4 DEF LoggerInv

LEMMA SilentSteps ==
    ASSUME ControlInv, LoggerInv,
           \/ ParseFails \/ PrepareThrows \/ evolve \/ wait_until_completion
           \/ EvolutionEnds \/ TaskEnds \/ ClientLoop \/ DestroyMembers \/ NextTask
           \/ IslandsEnd \/ ServerThreadEnds \/ WorkerComesOrGoes
           \/ WorkerThreadThrows
    PROVE  LoggerInv'
<1> USE DEF Working, Fresh, Throw, FirstDestructor
<1>1. UNCHANGED <<logVars, holds>>
  BY DEF ParseFails, PrepareThrows, evolve, wait_until_completion, EvolutionEnds,
         TaskEnds, ClientLoop, DestroyMembers, NextTask, IslandsEnd, ServerThreadEnds,
         WorkerComesOrGoes, WorkerThreadThrows
<1>2. CASE ParseFails \/ PrepareThrows \/ WorkerThreadThrows \/ NextTask
  <2>1. running' = running
        /\ pc' \notin {"set_default", "work", "evolving", "waiting", "thread_failed"}
        /\ (Fresh' => Fresh)
    BY <1>2 DEF ParseFails, PrepareThrows, NextTask, WorkerThreadThrows
  <2> QED
    BY <1>1, <2>1, SilentStep
<1>3. CASE evolve
  <2>1. /\ pc = "work" /\ pc' \in {"evolving", "~archipelago", "~worker"}
        /\ running' \in {running, running \cup {"islands"}}
    BY <1>3 DEF evolve
  <2> QED
    BY <1>1, <2>1, SilentStep
<1>4. CASE wait_until_completion \/ EvolutionEnds \/ TaskEnds
  <2>1. /\ pc \in {"work", "evolving", "waiting"} /\ running' = running
        /\ pc' \in {"work", "waiting", "~archipelago", "~worker"}
    BY <1>4 DEF wait_until_completion, EvolutionEnds, TaskEnds
  <2> QED
    BY <1>1, <2>1, SilentStep
<1>5. CASE ClientLoop
  <2>1. /\ pc = "work" /\ pc' \in {"work", "~archipelago", "~worker"}
        /\ running \subseteq {"work"}
        /\ \/ running' \in {running, {"work"}}
           \/ running' = {} /\ holds["work"] = NoLogger
    BY <1>5 DEF ClientLoop, ControlInv, Crew
  <2> QED
    BY <1>1, <2>1, SilentStep
<1>6. CASE DestroyMembers
  <2>1. /\ pc' \in {"~controller", "join", "~logger_control", "joinable"}
        /\ \/ running' = running
           \/ running' = running \ {"server"} /\ holds["server"] = NoLogger
    BY <1>6 DEF DestroyMembers, DestroySolverMembers, DestroyWorkerMembers
  <2> QED
    BY <1>1, <2>1, SilentStep
<1>7. CASE IslandsEnd \/ ServerThreadEnds \/ WorkerComesOrGoes
  <2>1. /\ pc' = pc /\ pc # "thread_failed"
        /\ \/ running' = running
           \/ running' = running \ {"islands"} /\ holds["islands"] = NoLogger
           \/ running' = running \ {"server"} /\ holds["server"] = NoLogger
    BY <1>7 DEF IslandsEnd, ServerThreadEnds, WorkerComesOrGoes, Alive, Ends
  <2> QED
    BY <1>1, <2>1, SilentStep
<1> QED
  BY <1>2, <1>3, <1>4, <1>5, <1>6, <1>7

\* A message: whatever the logger, what the file has stays in it.
LEMMA SinkKeeps ==
    ASSUME LoggerTypes, NEW logger, NEW level \in {"debug", "warn", "critical"},
           sink_it(logger, level)
    PROVE  /\ buffered' \subseteq {"debug", "warn", "critical"}
           /\ written' \subseteq {"debug", "warn", "critical"}
           /\ written \subseteq written'
           /\ logger = "global_logger" /\ level = "critical" => "critical" \in written'
<1>1. CASE logger # "global_logger"
  BY <1>1 DEF sink_it, fileVars, LoggerTypes
<1>2. CASE logger = "global_logger" /\ should_flush(level)
  BY <1>2 DEF sink_it, LoggerTypes
<1>3. CASE logger = "global_logger" /\ ~should_flush(level)
  BY <1>3 DEF sink_it, LoggerTypes, should_flush
<1> QED
  BY <1>1, <1>2, <1>3

\* Steps that log.
LEMMA LoggingSteps ==
    ASSUME ControlInv, LoggerInv,
           \/ Catch \/ WorkerThreadFails
           \/ \E t \in Threads : GetDefaultRaw(t) \/ LogMessage(t)
    PROVE  LoggerInv'
<1> USE DEF Working, Fresh
<1>1. CASE Catch
  <2>1. /\ UNCHANGED <<loggers, defaultLogger, loggerEnabled, running, holds>>
        /\ pc' \in {"null_pointer", "exit_2"} /\ sink_it(defaultLogger, "critical")
    BY <1>1 DEF Catch, registryVars
  <2>2. /\ buffered' \subseteq {"debug", "warn", "critical"}
        /\ written' \subseteq {"debug", "warn", "critical"}
    BY <2>1, SinkKeeps DEF LoggerInv
  <2>3. LoggerTypes' /\ HeldIsAlive'
    BY <2>1, <2>2 DEF LoggerInv, LoggerTypes, HeldIsAlive
  <2>4. EnabledMeansGlobal' /\ FailureIsOnDisk'
    BY <2>1 DEF LoggerInv, EnabledMeansGlobal, FailureIsOnDisk
  <2> QED
    BY <2>3, <2>4 DEF LoggerInv
<1>2. CASE WorkerThreadFails
  <2>1. /\ UNCHANGED <<loggers, defaultLogger, loggerEnabled, running, holds>>
        /\ "work" \in running
        /\ pc' = "thread_failed" /\ sink_it(defaultLogger, "critical")
    BY <1>2 DEF WorkerThreadFails, registryVars
  <2>2. /\ buffered' \subseteq {"debug", "warn", "critical"}
        /\ written' \subseteq {"debug", "warn", "critical"}
        /\ defaultLogger = "global_logger" => "critical" \in written'
    BY <2>1, SinkKeeps DEF LoggerInv
  <2>3. LoggerTypes' /\ HeldIsAlive'
    BY <2>1, <2>2 DEF LoggerInv, LoggerTypes, HeldIsAlive
  <2>4. EnabledMeansGlobal' /\ FailureIsOnDisk'
    BY <2>1, <2>2 DEF LoggerInv, EnabledMeansGlobal, FailureIsOnDisk
  <2> QED
    BY <2>3, <2>4 DEF LoggerInv
<1>3. ASSUME NEW t \in Threads, GetDefaultRaw(t) PROVE LoggerInv'
  <2>1. /\ UNCHANGED <<loggers, defaultLogger, loggerEnabled, buffered, written,
                       running, pc>>
        /\ t \in running
    BY <1>3 DEF GetDefaultRaw, logVars, registryVars, fileVars
  <2>2. PICK logger \in loggers \cup {NoLogger} :
          holds' = [holds EXCEPT ![t] = logger]
    <3>1. PICK logger \in get_default_raw : holds' = [holds EXCEPT ![t] = logger]
      BY <1>3 DEF GetDefaultRaw
    <3>2. logger \in loggers \cup {NoLogger}
      BY <3>1 DEF get_default_raw, LoggerInv, LoggerTypes, EnabledMeansGlobal
    <3> QED
      BY <3>1, <3>2
  <2>3. LoggerTypes' /\ HeldIsAlive'
    BY <2>1, <2>2 DEF LoggerInv, LoggerTypes, HeldIsAlive
  <2>4. EnabledMeansGlobal' /\ FailureIsOnDisk'
    BY <2>1 DEF LoggerInv, EnabledMeansGlobal, FailureIsOnDisk
  <2> QED
    BY <2>3, <2>4 DEF LoggerInv
<1>4. ASSUME NEW t \in Threads, LogMessage(t) PROVE LoggerInv'
  <2>1. PICK level \in {"debug", "warn"} : sink_it(holds[t], level)
    BY <1>4 DEF LogMessage
  <2>2. /\ UNCHANGED <<loggers, defaultLogger, loggerEnabled, running, pc>>
        /\ holds' = [holds EXCEPT ![t] = NoLogger]
    BY <1>4 DEF LogMessage, registryVars
  <2>3. /\ buffered' \subseteq {"debug", "warn", "critical"}
        /\ written' \subseteq {"debug", "warn", "critical"}
        /\ written \subseteq written'
    BY <2>1, SinkKeeps DEF LoggerInv
  <2>4. LoggerTypes' /\ HeldIsAlive'
    BY <2>2, <2>3 DEF LoggerInv, LoggerTypes, HeldIsAlive
  <2>5. EnabledMeansGlobal' /\ FailureIsOnDisk'
    BY <2>2, <2>3 DEF LoggerInv, EnabledMeansGlobal, FailureIsOnDisk
  <2> QED
    BY <2>4, <2>5 DEF LoggerInv
<1> QED
  BY <1>1, <1>2, <1>3, <1>4

\* Steps that change the registry.
LEMMA RegistrySteps ==
    ASSUME ControlInv, LoggerInv,
           \/ Main \/ Construct \/ EnableLogging \/ SetDefaultLogger
           \/ DestroyLoggerControl
    PROVE  LoggerInv'
<1> USE DEF Working, Fresh
<1>1. CASE Main
  <2>1. /\ UNCHANGED <<loggerEnabled, buffered, written, running, holds>>
        /\ pc = "main" /\ pc' = "construct" /\ running = {}
    BY <1>1 DEF Main, fileVars, ControlInv, Crew
  <2>2. \/ loggers' = loggers /\ defaultLogger' = defaultLogger
        \/ loggers' = loggers \cup {"null_logger"} /\ defaultLogger' = "null_logger"
    BY <1>1 DEF Main, use_null_logger, set_default_logger, registryVars
  <2>3. LoggerTypes' /\ HeldIsAlive'
    BY <2>1, <2>2 DEF LoggerInv, LoggerTypes, HeldIsAlive
  <2>4. EnabledMeansGlobal' /\ FailureIsOnDisk'
    BY <2>1 DEF LoggerInv, EnabledMeansGlobal, FailureIsOnDisk
  <2> QED
    BY <2>3, <2>4 DEF LoggerInv
<1>2. CASE Construct
  <2>1. /\ UNCHANGED <<loggerEnabled, buffered, written, holds>>
        /\ pc = "construct" /\ pc' \in {"constructed", "catch", "~logger_control"}
        /\ running = {} /\ running' \subseteq {"server"}
    BY <1>2 DEF Construct, Throw, fileVars, ControlInv, Crew
  <2>2. \/ loggers' = loggers /\ defaultLogger' = defaultLogger
        \/ loggers' = loggers \cup {"null_logger"} /\ defaultLogger' = "null_logger"
    BY <1>2 DEF Construct, use_null_logger, set_default_logger, registryVars
  <2>3. LoggerTypes' /\ HeldIsAlive'
    BY <2>1, <2>2 DEF LoggerInv, LoggerTypes, HeldIsAlive
  <2>4. EnabledMeansGlobal' /\ FailureIsOnDisk'
    BY <2>1 DEF LoggerInv, EnabledMeansGlobal, FailureIsOnDisk
  <2> QED
    BY <2>3, <2>4 DEF LoggerInv
<1>3. CASE EnableLogging
  <2>1. /\ UNCHANGED <<buffered, written, holds, running>>
        /\ pc = "constructed" /\ "work" \notin running
        /\ pc' \in {"set_default", "work", "~archipelago", "~worker"}
    BY <1>3 DEF EnableLogging, Throw, FirstDestructor, fileVars, ControlInv, Crew
  <2>2. \/ /\ loggers' = loggers /\ defaultLogger' = defaultLogger
           /\ loggerEnabled' = loggerEnabled /\ pc' # "set_default"
        \/ /\ loggers' = loggers /\ defaultLogger' = defaultLogger
           /\ loggerEnabled' = TRUE /\ pc' \notin {"set_default", "work"}
        \/ /\ loggers' = loggers \cup {"global_logger"}
           /\ defaultLogger' = defaultLogger /\ loggerEnabled' = TRUE
           /\ pc' = "set_default"
    BY <1>3 DEF EnableLogging, Throw, FirstDestructor, registryVars
  <2>3. LoggerTypes' /\ HeldIsAlive'
    BY <2>1, <2>2 DEF LoggerInv, LoggerTypes, HeldIsAlive
  <2>4. EnabledMeansGlobal' /\ FailureIsOnDisk'
    BY <2>1, <2>2 DEF LoggerInv, EnabledMeansGlobal, FailureIsOnDisk
  <2> QED
    BY <2>3, <2>4 DEF LoggerInv
<1>4. CASE DestroyLoggerControl
  <2>1. /\ pc = "~logger_control" /\ pc' \in {"catch", "next"} /\ loggerEnabled' = FALSE
        /\ running = {} /\ running' = {} /\ holds' = holds
    BY <1>4 DEF DestroyLoggerControl, ControlInv, Crew
  <2>2. \/ UNCHANGED <<loggers, defaultLogger, buffered, written>>
        \/ /\ loggers' = {} /\ defaultLogger' = NoLogger
           /\ written' = written \cup buffered /\ buffered' = {}
    BY <1>4 DEF DestroyLoggerControl, shutdown, registryVars, fileVars
  <2>3. LoggerTypes' /\ HeldIsAlive'
    BY <2>1, <2>2 DEF LoggerInv, LoggerTypes, HeldIsAlive
  <2>4. EnabledMeansGlobal' /\ FailureIsOnDisk'
    BY <2>1 DEF EnabledMeansGlobal, FailureIsOnDisk
  <2> QED
    BY <2>3, <2>4 DEF LoggerInv
<1>5. CASE SetDefaultLogger
  <2>1. /\ UNCHANGED <<buffered, written, holds, running, loggerEnabled>>
        /\ loggers' = loggers \cup {"global_logger"}
        /\ defaultLogger' = "global_logger"
        /\ pc = "set_default" /\ pc' = "work"
    BY <1>5 DEF SetDefaultLogger, set_default_logger, fileVars
  <2>2. LoggerTypes' /\ HeldIsAlive'
    BY <2>1 DEF LoggerInv, LoggerTypes, HeldIsAlive
  <2>3. EnabledMeansGlobal' /\ FailureIsOnDisk'
    BY <2>1 DEF EnabledMeansGlobal, FailureIsOnDisk
  <2> QED
    BY <2>2, <2>3 DEF LoggerInv
<1> QED
  BY <1>1, <1>2, <1>3, <1>4, <1>5

\* The registry and the threads that log through it fit together.
THEOREM LoggersHold == Spec => []LoggerInv
<1>1. Init => LoggerInv
  <2> SUFFICES ASSUME Init PROVE LoggerInv
    OBVIOUS
  <2>1. LoggerTypes /\ HeldIsAlive
    BY DEF Init, LoggerTypes, HeldIsAlive
  <2> QED
    BY <2>1 DEF Init, LoggerInv, EnabledMeansGlobal, FailureIsOnDisk
<1>2. ControlInv /\ LoggerInv /\ [Next]_vars => LoggerInv'
  <2> SUFFICES ASSUME ControlInv, LoggerInv, [Next]_vars PROVE LoggerInv'
    OBVIOUS
  <2>1. CASE Next /\ ~Ended
    BY <2>1, SilentSteps, LoggingSteps, RegistrySteps DEF Next
  <2>2. CASE Ended \/ UNCHANGED vars
    <3>1. UNCHANGED <<pc, running, loggers, defaultLogger, loggerEnabled, buffered,
                      written, holds>>
      BY <2>2 DEF Ended, vars, logVars, registryVars, fileVars
    <3> QED
      BY <3>1 DEF LoggerInv, LoggerTypes, HeldIsAlive, EnabledMeansGlobal, Working,
                  Fresh, FailureIsOnDisk
  <2> QED
    BY <2>1, <2>2
<1> QED
  BY <1>1, <1>2, ControlHolds, PTL DEF Spec

\* get_default_raw() takes no lock, and enable_logging() replaces the default
\* logger while the server thread runs: whichever of the two pointers that race
\* gives a thread, it never logs through a logger that the registry has let go.
THEOREM LoggersInUseStayAlive == Spec => []LoggerInUseIsAlive
<1>1. ControlInv /\ LoggerInv => LoggerInUseIsAlive
  BY DEF ControlInv, ControlTypes, LoggerInv, HeldIsAlive, LoggerInUseIsAlive
<1> QED
  BY <1>1, ControlHolds, LoggersHold, PTL

\* The message with which the worker's thread ends its process is in the log
\* file when the process ends, whenever the file is in use.
THEOREM FailureReachesDisk == Spec => []FailureIsOnDisk
<1>1. LoggerInv => FailureIsOnDisk
  BY DEF LoggerInv
<1> QED
  BY <1>1, LoggersHold, PTL

-----------------------------------------------------------------------------
(***************************************************************************)
(* The reports of a benchmark.                                             *)
(***************************************************************************)
Runs == Algorithms + 1

\* The runs of problem p, each once, in some order.
OfProblem(r, p) ==
    /\ Len(r) = Algorithms + 1
    /\ {r[n] : n \in 1..Len(r)} = {p} \X (0..Algorithms)

\* What a file was made with, whatever the disk has kept of it.
GoodFile(f) ==
    IF f.kind = "csv"
    THEN \E p \in 1..Problems : OfProblem(f.reports[1], p)
    ELSE /\ Len(f.reports) = Problems
         /\ \A p \in 1..Problems : OfProblem(f.reports[p], p)

BenchTypes ==
    /\ evolutions \in Nat
    /\ dataPoints \in Seq(DataPoint)
    /\ statsBuffer \in Seq(Report)
    /\ saved \in Seq(File)

InTask == pc \in {"constructed", "set_default", "work", "evolving", "waiting"}

\* The number of evolutions is what the buffered reports and the data points of
\* the present problem add up to.
Counted ==
    /\ evolutions = Len(statsBuffer) * Runs + Len(dataPoints)
    /\ Len(dataPoints) < Runs
    /\ \A n \in 1..Len(dataPoints) : dataPoints[n] = <<Len(statsBuffer) + 1, n - 1>>
    /\ \A p \in 1..Len(statsBuffer) : OfProblem(statsBuffer[p], p)

Measured ==
    InTask /\ Head(tasks) = "benchmark" =>
        Counted /\ (pc \in {"evolving", "waiting"} => Len(statsBuffer) < Problems)

IsBenchmark == args.isController /\ (args.runSO \/ args.runMO)

Benchmarks == IF args.runSO /\ args.runMO THEN 2 ELSE 1

Before == pc \in {"construct", "constructed", "set_default", "work", "evolving",
                  "waiting"}
After == pc \in {"~archipelago", "~controller", "join", "~logger_control", "next"}

\* c benchmarks have written all of their files.
Done(c) ==
    /\ Len(saved) = c * (Problems + 1)
    /\ pc = "main" => c = 0
    /\ Before => c + Len(tasks) = Benchmarks
    /\ After => c + Len(tasks) = Benchmarks + 1
    /\ pc = "exit_0" => c = Benchmarks

Saved ==
    /\ \A f \in 1..Len(saved) :
         /\ GoodFile(saved[f])
         /\ saved[f].state = "cut" => f = Len(saved) /\ unwinding
    /\ IsBenchmark /\ ~unwinding => \E c \in 0..2 : Done(c)

BenchInv == BenchTypes /\ Measured /\ Saved

-----------------------------------------------------------------------------
\* Arithmetic of evolutions: whole problems, and runs of the present one.
LEMMA MoreProblems ==
    ASSUME NEW s \in Nat, NEW k \in Nat, NEW a \in Nat, s >= k
    PROVE  s * a >= k * a
OBVIOUS

LEMMA ProblemsLeft ==
    ASSUME NEW s \in Nat, NEW k \in Nat, NEW a \in Nat \ {0}, NEW d \in Nat,
           s * a + d < k * a
    PROVE  s < k
BY MoreProblems

LEMMA ProblemsDone ==
    ASSUME NEW s \in Nat, NEW k \in Nat, NEW a \in Nat \ {0}, NEW d \in Nat, d < a,
           s * a + d = k * a
    PROVE  s = k /\ d = 0
OBVIOUS

LEMMA PresentRun ==
    ASSUME NEW s \in Nat, NEW a \in Nat \ {0}, NEW d \in Nat, d < a
    PROVE  (s * a + d) \div a = s /\ (s * a + d) % a = d
OBVIOUS

LEMMA NextRun ==
    ASSUME NEW s \in Nat, NEW a \in Nat \ {0}, NEW d \in Nat
    PROVE  s * a + d + 1 = s * a + (d + 1)
           /\ (d + 1 = a => s * a + d + 1 = (s + 1) * a + 0)
OBVIOUS

\* An order of the rows leaves none out.
LEMMA OrdersAreOnto ==
    ASSUME NEW k \in Nat, NEW order \in [1..k -> 1..k],
           \A m, n \in 1..k : order[m] = order[n] => m = n
    PROVE  \A m \in 1..k : \E n \in 1..k : order[n] = m
<1> DEFINE D == 1..k
<1>1. IsFiniteSet(D)
  BY FS_Interval
<1>2. order \in Injection(D, D)
  BY DEF Injection, IsInjective
<1> HIDE DEF D
<1>3. order \in Surjection(D, D)
  BY <1>1, <1>2, FS_Injection
<1> QED
  BY <1>3 DEF Surjection, D

\* _get_current_stats_csv() for the points of one problem.
LEMMA ReportOfProblem ==
    ASSUME NEW p, NEW points \in Seq(DataPoint), Len(points) = Runs,
           \A n \in 1..Runs : points[n] = <<p, n - 1>>,
           NEW order \in StatsOrders(points)
    PROVE  StatsOf(points, order) \in Report /\ OfProblem(StatsOf(points, order), p)
<1> DEFINE r == StatsOf(points, order)
<1>1. Runs \in Nat \ {0} /\ Algorithms \in Nat
  BY RunExampleAssumption DEF Runs
<1>2. /\ order \in [1..Runs -> 1..Runs]
      /\ \A m, n \in 1..Runs : order[m] = order[n] => m = n
  BY DEF StatsOrders
<1>3. r = [n \in 1..Runs |-> points[order[n]]]
  BY DEF StatsOf
<1>4. \A n \in 1..Runs : points[n] \in DataPoint
  OBVIOUS
<1>5. r \in [1..Runs -> DataPoint]
  BY <1>2, <1>3, <1>4
<1> HIDE DEF r
<1>6. r \in Seq(DataPoint) /\ Len(r) = Runs
  BY <1>1, <1>5
<1>7. \A m \in 1..Runs : \E n \in 1..Runs : order[n] = m
  BY <1>1, <1>2, OrdersAreOnto
<1>8. ASSUME NEW n \in 1..Runs PROVE r[n] \in {p} \X (0..Algorithms)
  <2>1. order[n] \in 1..Runs /\ r[n] = <<p, order[n] - 1>>
    BY <1>2, <1>3
  <2>2. order[n] - 1 \in 0..Algorithms
    BY <1>1, <2>1 DEF Runs
  <2> QED
    BY <2>1, <2>2
<1>9. ASSUME NEW x \in {p} \X (0..Algorithms) PROVE \E n \in 1..Runs : r[n] = x
  <2>1. x[2] \in 0..Algorithms /\ x = <<p, x[2]>>
    OBVIOUS
  <2>2. x[2] + 1 \in 1..Runs /\ (x[2] + 1) - 1 = x[2]
    BY <1>1, <2>1 DEF Runs
  <2>3. PICK n \in 1..Runs : order[n] = x[2] + 1
    BY <1>7, <2>2
  <2>4. r[n] = <<p, x[2]>>
    BY <1>3, <2>2, <2>3
  <2> QED
    BY <2>1, <2>4
<1>10. {r[n] : n \in 1..Runs} = {p} \X (0..Algorithms)
  BY <1>8, <1>9
<1> QED
  BY <1>6, <1>10 DEF r, Report, OfProblem, Runs

\* The files of a benchmark whose problems are all measured.
LEMMA ResultFilesAreGood ==
    ASSUME statsBuffer \in Seq(Report), Len(statsBuffer) = Problems,
           \A p \in 1..Problems : OfProblem(statsBuffer[p], p)
    PROVE  /\ ResultFiles \in Seq(File) /\ Len(ResultFiles) = Problems + 1
           /\ \A n \in 1..Len(ResultFiles) : GoodFile(ResultFiles[n])
<1> DEFINE Csv(n) == [kind |-> "csv", reports |-> <<statsBuffer[n]>>,
                      state |-> "whole"]
           html == [kind |-> "html", reports |-> statsBuffer, state |-> "whole"]
           csvs == [n \in 1..Problems |-> Csv(n)]
           last == <<html>>
           w == csvs \o last
<1>1. Problems \in Nat \ {0}
  BY RunExampleAssumption
<1>2. ASSUME NEW n \in 1..Problems PROVE Csv(n) \in File /\ GoodFile(Csv(n))
  <2>1. statsBuffer[n] \in Report
    OBVIOUS
  <2>2. <<statsBuffer[n]>> \in Seq(Report) /\ <<statsBuffer[n]>>[1] = statsBuffer[n]
    BY <2>1
  <2>3. Csv(n).kind = "csv" /\ Csv(n).reports = <<statsBuffer[n]>>
    OBVIOUS
  <2>4. Csv(n) \in File
    BY <2>2 DEF File, FileState
  <2>5. GoodFile(Csv(n))
    BY <2>2, <2>3 DEF GoodFile
  <2> QED
    BY <2>4, <2>5
<1>3. html \in File /\ GoodFile(html)
  BY DEF File, FileState, GoodFile
<1>4. ResultFiles = w
  BY DEF ResultFiles
<1> HIDE DEF Csv, html
<1>5. /\ csvs \in Seq(File) /\ Len(csvs) = Problems
      /\ \A n \in 1..Problems : csvs[n] = Csv(n)
  <2>1. csvs \in [1..Problems -> File]
    BY <1>2
  <2> QED
    BY <1>1, <2>1
<1>6. last \in Seq(File) /\ Len(last) = 1 /\ last[1] = html
  BY <1>3
<1> HIDE DEF csvs, last
<1>7. /\ w \in Seq(File) /\ Len(w) = Len(csvs) + Len(last)
      /\ \A i \in 1..(Len(csvs) + Len(last)) :
           w[i] = IF i <= Len(csvs) THEN csvs[i] ELSE last[i - Len(csvs)]
  BY <1>5, <1>6, ConcatProperties, Zenon
<1> HIDE DEF w
<1>8. Len(w) = Problems + 1
  BY <1>5, <1>6, <1>7
<1>9. ASSUME NEW i \in 1..Len(w) PROVE GoodFile(w[i])
  <2>1. CASE i <= Problems
    <3>1. i \in 1..Problems /\ w[i] = Csv(i)
      BY <1>1, <1>5, <1>6, <1>7, <1>8, <2>1
    <3> QED
      BY <1>2, <3>1
  <2>2. CASE ~(i <= Problems)
    <3>1. w[i] = html
      BY <1>1, <1>5, <1>6, <1>7, <1>8, <2>2
    <3> QED
      BY <1>3, <3>1
  <2> QED
    BY <2>1, <2>2
<1> QED
  BY <1>4, <1>7, <1>8, <1>9

\* A file that the disk has cut or lost was made with the same reports.
LEMMA StateOfFile ==
    ASSUME NEW f \in File, NEW st \in FileState, GoodFile(f)
    PROVE  LET g == [f EXCEPT !.state = st]
           IN  g \in File /\ GoodFile(g) /\ g.state = st
<1> DEFINE g == [f EXCEPT !.state = st]
<1>1. g \in File
  BY DEF File
<1>2. g.kind = f.kind /\ g.reports = f.reports /\ g.state = st
  BY DEF File
<1> HIDE DEF g
<1>3. GoodFile(g)
  BY <1>2 DEF GoodFile
<1> QED
  BY <1>1, <1>2, <1>3 DEF g

\* The files that _write_results_to_file() leaves: only the last one can be cut.
LEMMA LeftFiles ==
    ASSUME ResultFiles \in Seq(File),
           \A m \in 1..Len(ResultFiles) : GoodFile(ResultFiles[m]),
           NEW n \in 0..Len(ResultFiles), NEW states \in write_results_to_file(n)
    PROVE  /\ Left(states) \in Seq(File) /\ Len(Left(states)) = n
           /\ \A m \in 1..n : /\ GoodFile(Left(states)[m])
                              /\ Left(states)[m].state = states[m]
                              /\ states[m] = "cut" => m = n
<1> DEFINE w == ResultFiles
           G(m) == [w[m] EXCEPT !.state = states[m]]
           u == [m \in 1..n |-> G(m)]
<1>1. /\ n \in Nat /\ states \in [1..n -> FileState]
      /\ \A m \in 1..(n - 1) : states[m] # "cut"
  BY DEF write_results_to_file
<1>2. Len(states) = n
  BY <1>1
<1>3. Left(states) = u
  BY <1>2 DEF Left
<1>4. ASSUME NEW m \in 1..n
      PROVE  G(m) \in File /\ GoodFile(G(m)) /\ G(m).state = states[m]
  <2>1. m \in 1..Len(w) /\ states[m] \in FileState
    BY <1>1
  <2>2. w[m] \in File /\ GoodFile(w[m])
    BY <2>1
  <2> QED
    BY <2>1, <2>2, StateOfFile
<1> HIDE DEF G, w
<1>5. u \in [1..n -> File]
  BY <1>4
<1>6. u \in Seq(File) /\ Len(u) = n
  BY <1>1, <1>5
<1>7. \A m \in 1..n : GoodFile(u[m]) /\ u[m].state = states[m]
  BY <1>4
<1>8. \A m \in 1..n : states[m] = "cut" => m = n
  BY <1>1
<1> QED
  BY <1>3, <1>6, <1>7, <1>8

\* Files after files that are not cut.
LEMMA MoreFiles ==
    ASSUME NEW s \in Seq(File), NEW u \in Seq(File), NEW x,
           \A n \in 1..Len(s) : GoodFile(s[n]) /\ s[n].state # "cut",
           \A n \in 1..Len(u) :
              GoodFile(u[n]) /\ (u[n].state = "cut" => n = Len(u) /\ x)
    PROVE  /\ s \o u \in Seq(File) /\ Len(s \o u) = Len(s) + Len(u)
           /\ \A n \in 1..Len(s \o u) :
                /\ GoodFile((s \o u)[n])
                /\ (s \o u)[n].state = "cut" => n = Len(s \o u) /\ x
<1> DEFINE w == s \o u
<1>1. /\ w \in Seq(File) /\ Len(w) = Len(s) + Len(u)
      /\ \A i \in 1..(Len(s) + Len(u)) :
           w[i] = IF i <= Len(s) THEN s[i] ELSE u[i - Len(s)]
  BY ConcatProperties, Zenon
<1> HIDE DEF w
<1>2. ASSUME NEW n \in 1..Len(w)
      PROVE  GoodFile(w[n]) /\ (w[n].state = "cut" => n = Len(w) /\ x)
  <2>1. CASE n <= Len(s)
    <3>1. n \in 1..Len(s) /\ w[n] = s[n]
      BY <1>1, <2>1
    <3> QED
      BY <3>1
  <2>2. CASE ~(n <= Len(s))
    <3>1. n - Len(s) \in 1..Len(u) /\ w[n] = u[n - Len(s)]
      BY <1>1, <2>2
    <3>2. u[n - Len(s)].state = "cut" => n - Len(s) = Len(u) /\ x
      BY <3>1
    <3>3. n - Len(s) = Len(u) => n = Len(w)
      BY <1>1
    <3> QED
      BY <3>1, <3>2, <3>3
  <2> QED
    BY <2>1, <2>2
<1> QED
  BY <1>1, <1>2 DEF w

-----------------------------------------------------------------------------
\* A step that leaves the tasks and the measurements alone.
LEMMA MeasuredKept ==
    ASSUME Measured, UNCHANGED <<tasks, evolutions, dataPoints, statsBuffer>>,
           InTask' => InTask,
           pc' \in {"evolving", "waiting"} => pc \in {"evolving", "waiting"}
    PROVE  Measured'
<1>1. Counted => Counted'
  BY DEF Counted
<1> QED
  BY <1>1 DEF Measured

\* main stays on its side of the files of the present task.
SameSide ==
    /\ Before' => Before
    /\ After' => After
    /\ pc' \in {"main", "exit_0"} => pc' = pc

\* A step that leaves the tasks and the files alone.
LEMMA SavedKept ==
    ASSUME Saved, UNCHANGED <<args, tasks, saved>>, unwinding => unwinding',
           IsBenchmark /\ ~unwinding' => ~unwinding /\ SameSide
    PROVE  Saved'
<1>1. \A f \in 1..Len(saved') :
        /\ GoodFile(saved'[f])
        /\ saved'[f].state = "cut" => f = Len(saved') /\ unwinding'
  BY DEF Saved
<1>2. ASSUME IsBenchmark', ~unwinding' PROVE \E c \in 0..2 : Done(c)'
  <2>1. IsBenchmark /\ ~unwinding /\ SameSide
    BY <1>2 DEF IsBenchmark
  <2>2. PICK c \in 0..2 : Done(c)
    BY <2>1 DEF Saved
  <2>3. Done(c)'
    BY <2>1, <2>2 DEF Done, SameSide, Benchmarks
  <2> QED
    BY <2>3
<1> QED
  BY <1>1, <1>2 DEF Saved

\* Steps of main that write no file and end no evolution.
LEMMA QuietBench ==
    ASSUME ControlInv, BenchInv,
           \/ ParseFails \/ PrepareThrows \/ EnableLogging \/ SetDefaultLogger
           \/ wait_until_completion \/ ClientLoop \/ DestroyMembers
           \/ DestroyLoggerControl \/ Catch
           \/ IslandsEnd \/ ServerThreadEnds \/ WorkerComesOrGoes
           \/ WorkerThreadThrows \/ WorkerThreadFails
           \/ \E t \in Threads : GetDefaultRaw(t) \/ LogMessage(t)
    PROVE  BenchInv'
<1> USE DEF InTask, Before, After, SameSide, Throw, FirstDestructor
<1>0. UNCHANGED <<args, tasks, evolutions, dataPoints, statsBuffer, saved>>
  BY DEF ParseFails, PrepareThrows, EnableLogging, SetDefaultLogger,
         wait_until_completion, ClientLoop, DestroyMembers, DestroyLoggerControl, Catch,
         IslandsEnd, ServerThreadEnds, WorkerComesOrGoes, WorkerThreadThrows,
         WorkerThreadFails, GetDefaultRaw, LogMessage, mainVars, benchVars
<1>1. BenchTypes'
  BY <1>0 DEF BenchInv, BenchTypes
<1>2. /\ InTask' => InTask
      /\ pc' \in {"evolving", "waiting"} => pc \in {"evolving", "waiting"}
      /\ unwinding => unwinding'
      /\ IsBenchmark /\ ~unwinding' => ~unwinding /\ SameSide
  <2>1. CASE ParseFails
    BY <2>1 DEF ParseFails
  <2>2. CASE PrepareThrows
    BY <2>2 DEF PrepareThrows
  <2>3. CASE EnableLogging
    <3>1. /\ pc = "constructed"
          /\ \/ pc' \in {"set_default", "work"} /\ unwinding' = unwinding
             \/ pc' = FirstDestructor /\ unwinding' = TRUE
      BY <2>3 DEF EnableLogging
    <3> QED
      BY <3>1
  <2>4. CASE wait_until_completion
    BY <2>4 DEF wait_until_completion
  <2>5. CASE ClientLoop
    BY <2>5 DEF ClientLoop, IsBenchmark
  <2>6. CASE DestroyMembers
    BY <2>6 DEF DestroyMembers, DestroySolverMembers, DestroyWorkerMembers,
                IsBenchmark, ControlInv, Crew
  <2>7. CASE DestroyLoggerControl
    BY <2>7 DEF DestroyLoggerControl
  <2>8. CASE Catch
    BY <2>8 DEF Catch
  <2>9. CASE IslandsEnd \/ ServerThreadEnds \/ WorkerComesOrGoes
    BY <2>9 DEF IslandsEnd, ServerThreadEnds, WorkerComesOrGoes
  <2>10. CASE WorkerThreadThrows \/ WorkerThreadFails
    BY <2>10 DEF WorkerThreadThrows, WorkerThreadFails
  <2>11. CASE \E t \in Threads : GetDefaultRaw(t) \/ LogMessage(t)
    <3>1. UNCHANGED <<pc, unwinding>>
      BY <2>11 DEF GetDefaultRaw, LogMessage
    <3> QED
      BY <3>1
  <2>12. CASE SetDefaultLogger
    BY <2>12 DEF SetDefaultLogger
  <2> QED
    BY <2>1, <2>2, <2>3, <2>4, <2>5, <2>6, <2>7, <2>8, <2>9, <2>10, <2>11, <2>12
<1>3. Measured'
  BY <1>0, <1>2, MeasuredKept DEF BenchInv
<1>4. Saved'
  BY <1>0, <1>2, SavedKept DEF BenchInv
<1> QED
  BY <1>1, <1>3, <1>4 DEF BenchInv

\* The first task begins, or the next one.
LEMMA TaskBegins ==
    ASSUME ControlInv, BenchInv, Main \/ NextTask
    PROVE  BenchInv'
<1> USE DEF InTask, Before, After
<1>1. /\ UNCHANGED <<args, unwinding, evolutions, dataPoints, statsBuffer, saved>>
      /\ pc' \in {"construct", "exit_0"}
  BY DEF Main, NextTask, benchVars
<1>2. BenchTypes' /\ Measured'
  BY <1>1 DEF BenchInv, BenchTypes, Measured
<1>3. \A f \in 1..Len(saved') :
        /\ GoodFile(saved'[f])
        /\ saved'[f].state = "cut" => f = Len(saved') /\ unwinding'
  BY <1>1 DEF BenchInv, Saved
<1>4. ASSUME IsBenchmark, ~unwinding PROVE \E c \in 0..2 : Done(c)'
  <2>1. PICK c \in 0..2 : Done(c)
    BY <1>4 DEF BenchInv, Saved
  <2>2. CASE Main
    <3>1. pc = "main" /\ pc' = "construct" /\ tasks' = Tasks /\ c = 0
      BY <2>1, <2>2 DEF Main, Done
    <3>2. Len(Tasks) = Benchmarks /\ Benchmarks \in {1, 2}
      BY <1>4, TasksOfOptions DEF ControlInv, ControlTypes, IsBenchmark, Benchmarks
    <3>3. 0 + Len(tasks') = Benchmarks'
      BY <1>1, <3>1, <3>2 DEF Benchmarks
    <3> QED
      BY <1>1, <2>1, <3>1, <3>3 DEF Done
  <2>3. CASE NextTask
    <3>1. /\ pc = "next" /\ tasks' = Tail(tasks)
          /\ pc' = IF Len(tasks) > 1 THEN "construct" ELSE "exit_0"
      BY <2>3 DEF NextTask
    <3>2. tasks \in Seq(Task) /\ tasks # << >>
      BY <3>1 DEF ControlInv, ControlTypes, TasksLeft, Ends
    <3>3. Len(tasks) \in Nat \ {0} /\ Len(tasks') = Len(tasks) - 1
      BY <3>1, <3>2
    <3>4. c + Len(tasks) = Benchmarks + 1 /\ Len(saved) = c * (Problems + 1)
      BY <2>1, <3>1 DEF Done
    <3>5. Benchmarks' = Benchmarks /\ Benchmarks \in {1, 2}
      BY <1>1 DEF Benchmarks
    <3>6. CASE Len(tasks) > 1
      <4>1. c + Len(tasks') = Benchmarks' /\ pc' = "construct"
        BY <3>1, <3>3, <3>4, <3>5, <3>6
      <4> QED
        BY <1>1, <3>4, <4>1 DEF Done
    <3>7. CASE ~(Len(tasks) > 1)
      <4>1. c = Benchmarks' /\ pc' = "exit_0"
        BY <3>1, <3>3, <3>4, <3>5, <3>7
      <4> QED
        BY <1>1, <3>4, <4>1 DEF Done
    <3> QED
      BY <3>6, <3>7
  <2> QED
    BY <2>2, <2>3
<1>5. Saved'
  BY <1>1, <1>3, <1>4 DEF Saved, IsBenchmark
<1> QED
  BY <1>2, <1>5 DEF BenchInv

\* The object is made, with an empty benchmark_stats.
LEMMA ConstructBench ==
    ASSUME ControlInv, BenchInv, Construct
    PROVE  BenchInv'
<1>1. /\ UNCHANGED <<args, tasks, saved>>
      /\ evolutions' = 0 /\ dataPoints' = << >> /\ statsBuffer' = << >>
      /\ pc = "construct"
      /\ \/ pc' = "constructed" /\ unwinding' = unwinding
         \/ pc' \in {"catch", "~logger_control"} /\ unwinding' = TRUE
  BY DEF Construct, Throw
<1>2. /\ dataPoints' \in Seq(DataPoint) /\ statsBuffer' \in Seq(Report)
      /\ Len(dataPoints') = 0 /\ Len(statsBuffer') = 0
  BY <1>1
<1>3. BenchTypes'
  BY <1>1, <1>2 DEF BenchInv, BenchTypes
<1>4. Counted'
  <2>1. Runs \in Nat \ {0} /\ 0 * Runs + 0 = 0
    BY RunExampleAssumption DEF Runs
  <2> QED
    BY <1>1, <1>2, <2>1 DEF Counted
<1>5. Measured'
  BY <1>1, <1>4 DEF Measured
<1>6. Saved'
  BY <1>1, SavedKept DEF BenchInv, SameSide, Before, After
<1> QED
  BY <1>3, <1>5, <1>6 DEF BenchInv

\* evolve(): there is a problem left.
LEMMA EvolveBench ==
    ASSUME ControlInv, BenchInv, evolve
    PROVE  BenchInv'
<1>1. /\ UNCHANGED <<args, tasks, evolutions, dataPoints, statsBuffer, saved>>
      /\ pc = "work" /\ args.isController /\ evolutions < TotalEvolutions
      /\ \/ pc' = "evolving" /\ unwinding' = unwinding
         \/ pc' = "~archipelago" /\ unwinding' = TRUE
  BY DEF evolve, Throw, FirstDestructor, mainVars, benchVars
<1>2. BenchTypes'
  BY <1>1 DEF BenchInv, BenchTypes
<1>3. ASSUME Head(tasks) = "benchmark" PROVE Counted' /\ Len(statsBuffer') < Problems
  <2>1. Counted /\ Counted'
    BY <1>1, <1>3 DEF BenchInv, Measured, InTask, Counted
  <2>2. Len(statsBuffer) * Runs + Len(dataPoints) < Problems * Runs
    BY <1>1, <1>3, <2>1 DEF Counted, TotalEvolutions, Runs
  <2>3. /\ Len(statsBuffer) \in Nat /\ Len(dataPoints) \in Nat
        /\ Problems \in Nat /\ Runs \in Nat \ {0}
    BY RunExampleAssumption DEF BenchInv, BenchTypes, Runs
  <2> QED
    BY <1>1, <2>1, <2>2, <2>3, ProblemsLeft
<1>4. Measured'
  BY <1>1, <1>3 DEF Measured
<1>5. Saved'
  BY <1>1, SavedKept DEF BenchInv, SameSide, Before, After
<1> QED
  BY <1>2, <1>4, <1>5 DEF BenchInv

\* A data point is added, and with the last one of a problem its report.
LEMMA PointIsAdded ==
    ASSUME BenchTypes, Counted, Len(statsBuffer) < Problems,
           evolutions' = evolutions + 1,
           EndMeasurement(Append(dataPoints, CurrentPoint))
    PROVE  /\ Counted'
           /\ dataPoints' \in Seq(DataPoint) /\ statsBuffer' \in Seq(Report)
<1> DEFINE s == Len(statsBuffer)
           d == Len(dataPoints)
           x == <<s + 1, d>>
           points == Append(dataPoints, x)
<1>1. /\ s \in Nat /\ d \in Nat /\ Problems \in Nat /\ Algorithms \in Nat
      /\ Runs \in Nat \ {0} /\ Runs = Algorithms + 1 /\ d < Runs
      /\ evolutions = s * Runs + d /\ s < Problems
  BY RunExampleAssumption DEF BenchTypes, Counted, Runs
<1>2. CurrentPoint = x
  <2> HIDE DEF s, d
  <2>1. (s * Runs + d) \div Runs = s /\ (s * Runs + d) % Runs = d
    BY <1>1, PresentRun
  <2>2. evolutions \div (Algorithms + 1) = s /\ evolutions % (Algorithms + 1) = d
    BY <1>1, <2>1
  <2> QED
    BY <1>1, <2>2 DEF CurrentPoint
<1>3. x \in DataPoint
  <2>1. s + 1 \in 1..Problems /\ d \in 0..Algorithms
    BY <1>1
  <2> QED
    BY <2>1 DEF DataPoint
<1>4. \A n \in 1..d : dataPoints[n] = <<s + 1, n - 1>>
  BY DEF Counted
<1>5. \A q \in 1..s : OfProblem(statsBuffer[q], q)
  BY DEF Counted
<1>6. /\ points \in Seq(DataPoint) /\ Len(points) = d + 1
      /\ \A n \in 1..d : points[n] = dataPoints[n]
      /\ points[d + 1] = x
  <2> HIDE DEF x
  <2> QED
    BY <1>3, AppendProperties DEF BenchTypes
<1>7. /\ IF x[2] = Algorithms
         THEN /\ \E order \in StatsOrders(points) :
                   statsBuffer' = Append(statsBuffer, StatsOf(points, order))
              /\ dataPoints' = << >>
         ELSE dataPoints' = points /\ statsBuffer' = statsBuffer
  BY <1>2 DEF EndMeasurement
<1>8. x[2] = d
  OBVIOUS
<1> HIDE DEF points
<1>9. \A n \in 1..(d + 1) : points[n] = <<s + 1, n - 1>>
  <2> SUFFICES ASSUME NEW n \in 1..(d + 1) PROVE points[n] = <<s + 1, n - 1>>
    OBVIOUS
  <2>1. CASE n \in 1..d
    BY <1>4, <1>6, <2>1
  <2>2. CASE n = d + 1
    <3>1. n - 1 = d
      BY <1>1, <2>2
    <3> QED
      BY <1>6, <2>2, <3>1
  <2> QED
    BY <1>1, <2>1, <2>2
<1>10. CASE d = Algorithms
  <2>1. PICK order \in StatsOrders(points) :
          statsBuffer' = Append(statsBuffer, StatsOf(points, order))
    BY <1>7, <1>8, <1>10
  <2>2. dataPoints' = << >>
    BY <1>7, <1>8, <1>10
  <2>3. d + 1 = Runs
    BY <1>1, <1>10
  <2> DEFINE r == StatsOf(points, order)
  <2>4. r \in Report /\ OfProblem(r, s + 1)
    <3>1. Len(points) = Runs /\ \A n \in 1..Runs : points[n] = <<s + 1, n - 1>>
      BY <1>6, <1>9, <2>3
    <3> HIDE DEF s
    <3> QED
      BY <1>6, <3>1, ReportOfProblem
  <2> HIDE DEF r
  <2>5. /\ statsBuffer' \in Seq(Report) /\ Len(statsBuffer') = s + 1
        /\ \A q \in 1..s : statsBuffer'[q] = statsBuffer[q]
        /\ statsBuffer'[s + 1] = r
    <3>1. statsBuffer' = Append(statsBuffer, r)
      BY <2>1 DEF r
    <3>2. statsBuffer \in Seq(Report)
      BY DEF BenchTypes
    <3> QED
      BY <2>4, <3>1, <3>2, AppendProperties
  <2>6. dataPoints' \in Seq(DataPoint) /\ Len(dataPoints') = 0
    BY <2>2
  <2> HIDE DEF s, d
  <2>7. evolutions' = Len(statsBuffer') * Runs + Len(dataPoints')
    <3>1. s * Runs + d + 1 = (s + 1) * Runs + 0
      BY <1>1, <2>3, NextRun
    <3> QED
      BY <1>1, <2>5, <2>6, <3>1
  <2>8. ASSUME NEW q \in 1..Len(statsBuffer') PROVE OfProblem(statsBuffer'[q], q)
    <3>1. q \in 1..s \/ q = s + 1
      BY <1>1, <2>5
    <3>2. CASE q \in 1..s
      BY <1>5, <2>5, <3>2
    <3>3. CASE q = s + 1
      BY <2>4, <2>5, <3>3
    <3> QED
      BY <3>1, <3>2, <3>3
  <2>9. Counted'
    BY <1>1, <2>6, <2>7, <2>8 DEF Counted
  <2> QED
    BY <2>5, <2>6, <2>9
<1>11. CASE d # Algorithms
  <2>1. dataPoints' = points /\ statsBuffer' = statsBuffer
    BY <1>7, <1>8, <1>11
  <2>2. d + 1 < Runs
    BY <1>1, <1>11
  <2>3. evolutions' = s * Runs + (d + 1)
    <3> HIDE DEF s, d
    <3> QED
      BY <1>1, NextRun
  <2>4. Counted'
    BY <1>5, <1>6, <1>9, <2>1, <2>2, <2>3 DEF Counted
  <2> QED
    BY <1>6, <2>1, <2>4 DEF BenchTypes
<1> QED
  BY <1>10, <1>11

\* wait_check() has returned, or thrown.
LEMMA EvolutionEndsBench ==
    ASSUME ControlInv, BenchInv, EvolutionEnds
    PROVE  BenchInv'
<1>1. /\ UNCHANGED <<args, tasks, saved>> /\ pc = "waiting" /\ args.isController
      /\ \/ pc' = "work" /\ unwinding' = unwinding
         \/ pc' = "~archipelago" /\ unwinding' = TRUE
  BY DEF EvolutionEnds, Throw, FirstDestructor, ControlInv, Crew
<1>2. Saved'
  BY <1>1, SavedKept DEF BenchInv, SameSide, Before, After
<1>3. CASE UNCHANGED <<evolutions, dataPoints, statsBuffer>> /\ pc' # "work"
  <2>1. BenchTypes'
    BY <1>1, <1>3 DEF BenchInv, BenchTypes
  <2>2. Measured'
    BY <1>1, <1>3 DEF Measured, InTask
  <2> QED
    BY <1>2, <2>1, <2>2 DEF BenchInv
<1>4. CASE /\ Head(tasks) # "benchmark" /\ evolutions' = evolutions + 1
           /\ UNCHANGED <<dataPoints, statsBuffer>>
  <2>1. BenchTypes'
    BY <1>1, <1>4 DEF BenchInv, BenchTypes
  <2>2. Measured'
    BY <1>1, <1>4 DEF Measured
  <2> QED
    BY <1>2, <2>1, <2>2 DEF BenchInv
<1>5. CASE /\ Head(tasks) = "benchmark" /\ evolutions' = evolutions + 1 /\ pc' = "work"
           /\ EndMeasurement(Append(dataPoints, CurrentPoint))
  <2>1. Counted /\ Len(statsBuffer) < Problems /\ BenchTypes
    BY <1>1, <1>5 DEF BenchInv, Measured, InTask
  <2>2. /\ Counted'
        /\ dataPoints' \in Seq(DataPoint) /\ statsBuffer' \in Seq(Report)
    BY <1>5, <2>1, PointIsAdded
  <2>3. BenchTypes'
    BY <1>1, <1>5, <2>1, <2>2 DEF BenchTypes
  <2>4. Measured'
    BY <1>5, <2>2 DEF Measured
  <2> QED
    BY <1>2, <2>3, <2>4 DEF BenchInv
<1> QED
  BY <1>3, <1>4, <1>5 DEF EvolutionEnds, Throw, FirstDestructor

\* The benchmark writes its files, all or some.
LEMMA TaskEndsBench ==
    ASSUME ControlInv, BenchInv, TaskEnds
    PROVE  BenchInv'
<1>1. /\ UNCHANGED <<args, tasks, evolutions, dataPoints, statsBuffer>>
      /\ pc = "work" /\ args.isController /\ evolutions = TotalEvolutions
      /\ pc' = "~archipelago"
  BY DEF TaskEnds, Throw, FirstDestructor, mainVars
<1>2. Measured'
  BY <1>1 DEF Measured, InTask
<1>3. tasks \in Seq(Task) /\ tasks # << >> /\ ~unwinding
  BY <1>1 DEF ControlInv, ControlTypes, TasksLeft, Ends, Unwinding
<1>4. saved \in Seq(File) /\ \A f \in 1..Len(saved) : /\ GoodFile(saved[f])
                                                      /\ saved[f].state # "cut"
  BY <1>3 DEF BenchInv, BenchTypes, Saved
<1>5. IsBenchmark => Head(tasks) = "benchmark"
  <2>1. Head(tasks) = tasks[1] /\ 1 \in 1..Len(tasks)
    BY <1>3
  <2> QED
    BY <2>1 DEF IsBenchmark, ControlInv, TasksLeft
<1>6. IsBenchmark' = IsBenchmark
  BY <1>1 DEF IsBenchmark
<1>7. CASE Head(tasks) = "default"
  <2>1. saved' = saved
    BY <1>7 DEF TaskEnds
  <2>2. BenchTypes'
    BY <1>1, <2>1 DEF BenchInv, BenchTypes
  <2>3. ~IsBenchmark
    BY <1>5, <1>7
  <2>4. Saved'
    BY <1>4, <1>6, <2>1, <2>3 DEF Saved
  <2> QED
    BY <1>2, <2>2, <2>4 DEF BenchInv
<1>8. CASE Head(tasks) = "benchmark"
  <2>1. /\ Counted /\ Len(statsBuffer) \in Nat /\ Len(dataPoints) \in Nat
        /\ Problems \in Nat /\ Runs \in Nat \ {0}
    BY <1>1, <1>8, RunExampleAssumption
    DEF BenchInv, Measured, InTask, BenchTypes, Runs
  <2>2. Len(statsBuffer) * Runs + Len(dataPoints) = Problems * Runs
    BY <1>1, <1>8, <2>1 DEF Counted, TotalEvolutions, Runs
  <2>3. Len(statsBuffer) = Problems
    <3>1. Len(dataPoints) < Runs
      BY <2>1 DEF Counted
    <3> QED
      BY <2>1, <2>2, <3>1, ProblemsDone
  <2>4. /\ ResultFiles \in Seq(File) /\ Len(ResultFiles) = Problems + 1
        /\ \A n \in 1..Len(ResultFiles) : GoodFile(ResultFiles[n])
    BY <2>1, <2>3, ResultFilesAreGood DEF BenchInv, BenchTypes, Counted
  <2>5. PICK n \in 0..Len(ResultFiles) :
          \E states \in write_results_to_file(n) :
             /\ saved' = saved \o Left(states)
             /\ IF n = Len(ResultFiles) /\ states[n] # "cut"
                THEN unwinding' = unwinding
                ELSE unwinding' = TRUE
    BY <1>8 DEF TaskEnds, Throw
  <2>6. PICK states \in write_results_to_file(n) :
          /\ saved' = saved \o Left(states)
          /\ IF n = Len(ResultFiles) /\ states[n] # "cut"
             THEN unwinding' = unwinding
             ELSE unwinding' = TRUE
    BY <2>5
  <2>7. /\ Left(states) \in Seq(File) /\ Len(Left(states)) = n
        /\ \A m \in 1..n : /\ GoodFile(Left(states)[m])
                           /\ Left(states)[m].state = states[m]
                           /\ states[m] = "cut" => m = n
    BY <2>4, <2>6, LeftFiles
  <2>8. \A m \in 1..n : Left(states)[m].state = "cut" => m = n /\ unwinding'
    BY <2>6, <2>7
  <2>9. /\ saved' \in Seq(File) /\ Len(saved') = Len(saved) + n
        /\ \A f \in 1..Len(saved') :
             /\ GoodFile(saved'[f])
             /\ saved'[f].state = "cut" => f = Len(saved') /\ unwinding'
    <3> DEFINE u == Left(states)
    <3>1. /\ saved' = saved \o u /\ u \in Seq(File) /\ Len(u) = n
          /\ \A m \in 1..Len(u) :
               GoodFile(u[m]) /\ (u[m].state = "cut" => m = Len(u) /\ unwinding')
      BY <2>6, <2>7, <2>8
    <3> HIDE DEF u
    <3> QED
      BY <1>4, <3>1, MoreFiles
  <2>10. BenchTypes'
    BY <1>1, <2>9 DEF BenchInv, BenchTypes
  <2>11. ASSUME IsBenchmark, ~unwinding' PROVE \E c \in 0..2 : Done(c)'
    <3>1. n = Problems + 1
      BY <2>4, <2>6, <2>11
    <3>2. PICK c \in 0..2 : Done(c)
      BY <1>3, <2>11 DEF BenchInv, Saved
    <3>3. Len(saved) = c * (Problems + 1) /\ c + Len(tasks) = Benchmarks
      BY <1>1, <3>2 DEF Done, Before
    <3>4. Len(tasks) \in Nat \ {0} /\ Benchmarks \in {1, 2} /\ Benchmarks' = Benchmarks
      BY <1>1, <1>3 DEF Benchmarks
    <3>5. c = 0 \/ c = 1
      BY <3>3, <3>4
    <3>6. Len(saved') = (c + 1) * (Problems + 1)
      BY <2>1, <2>9, <3>1, <3>3, <3>5
    <3>7. (c + 1) + Len(tasks') = Benchmarks' + 1
      BY <1>1, <3>3, <3>4
    <3>8. Done(c + 1)'
      BY <1>1, <3>6, <3>7 DEF Done, Before, After
    <3> QED
      BY <3>5, <3>8
  <2>12. Saved'
    BY <1>6, <2>9, <2>11 DEF Saved
  <2> QED
    BY <1>2, <2>10, <2>12 DEF BenchInv
<1> QED
  BY <1>7, <1>8 DEF TaskEnds

\* The measurements and the files of a benchmark are what its evolutions make.
THEOREM BenchmarksHold == Spec => []BenchInv
<1>1. Init => BenchInv
  <2> SUFFICES ASSUME Init PROVE BenchInv
    OBVIOUS
  <2>1. /\ evolutions = 0 /\ dataPoints = << >> /\ statsBuffer = << >> /\ saved = << >>
        /\ pc = "main"
    BY DEF Init
  <2>2. saved \in Seq(File) /\ Len(saved) = 0
    BY <2>1
  <2>3. BenchTypes
    BY <2>1 DEF BenchTypes
  <2>4. Done(0)
    <3>1. 0 = 0 * (Problems + 1)
      BY RunExampleAssumption
    <3> QED
      BY <2>1, <2>2, <3>1 DEF Done, Before, After
  <2>5. Saved
    BY <2>2, <2>4 DEF Saved
  <2> QED
    BY <2>1, <2>3, <2>5 DEF BenchInv, Measured, InTask
<1>2. ControlInv /\ BenchInv /\ [Next]_vars => BenchInv'
  <2> SUFFICES ASSUME ControlInv, BenchInv, [Next]_vars PROVE BenchInv'
    OBVIOUS
  <2>1. CASE Next /\ ~Ended
    BY <2>1, QuietBench, TaskBegins, ConstructBench, EvolveBench, EvolutionEndsBench,
       TaskEndsBench DEF Next
  <2>2. CASE Ended \/ UNCHANGED vars
    <3>1. UNCHANGED <<args, tasks, pc, unwinding, evolutions, dataPoints, statsBuffer,
                      saved>>
      BY <2>2 DEF Ended, vars, mainVars, benchVars
    <3>2. BenchTypes'
      BY <3>1 DEF BenchInv, BenchTypes
    <3>3. Measured'
      BY <3>1, MeasuredKept DEF BenchInv, InTask
    <3>4. Saved'
      BY <3>1, SavedKept DEF BenchInv, SameSide, Before, After
    <3> QED
      BY <3>2, <3>3, <3>4 DEF BenchInv
  <2> QED
    BY <2>1, <2>2
<1> QED
  BY <1>1, <1>2, ControlHolds, PTL DEF Spec

\* Every variable of the process keeps its type.
THEOREM RunExampleTypeCorrect == Spec => []TypeOK
<1>1. ControlInv /\ LoggerInv /\ BenchInv => TypeOK
  BY DEF ControlInv, ControlTypes, Places, Task, LoggerInv, LoggerTypes, BenchInv,
         BenchTypes, TypeOK
<1> QED
  BY <1>1, ControlHolds, LoggersHold, BenchmarksHold, PTL

\* Whatever throws on the way, every file that a benchmark leaves and that the disk
\* has kept whole has complete reports, one for each problem of the suite.  A write
\* that fails ends the process: the file that it cuts is the last one, and a
\* process that returns 0 (main.cpp) has written all of its files and cut none.
THEOREM ReportsStayComplete == Spec => []ReportsAreComplete
<1>1. ControlInv /\ BenchInv => ReportsAreComplete
  <2> SUFFICES ASSUME ControlInv, BenchInv PROVE ReportsAreComplete
    OBVIOUS
  <2>1. \A f \in 1..Len(saved) :
          /\ GoodFile(saved[f])
          /\ saved[f].state = "cut" => f = Len(saved) /\ pc # "exit_0"
    BY DEF BenchInv, Saved, ControlInv, Unwinding
  <2>2. ASSUME pc = "exit_0", args.runSO \/ args.runMO
        PROVE  Len(saved) = (IF args.runSO THEN Problems + 1 ELSE 0)
                            + (IF args.runMO THEN Problems + 1 ELSE 0)
    <3>1. IsBenchmark /\ ~unwinding
      BY <2>2 DEF ControlInv, Unwinding, IsBenchmark
    <3>2. PICK c \in 0..2 : Done(c)
      BY <3>1 DEF BenchInv, Saved
    <3>3. Len(saved) = Benchmarks * (Problems + 1) /\ Problems \in Nat
      BY <2>2, <3>2, RunExampleAssumption DEF Done
    <3>4. 1 * (Problems + 1) = Problems + 1 /\ 2 * (Problems + 1) = (Problems + 1) + (Problems + 1)
      BY <3>3
    <3>5. CASE args.runSO /\ args.runMO
      BY <3>3, <3>4, <3>5 DEF Benchmarks
    <3>6. CASE args.runSO /\ ~args.runMO
      BY <3>3, <3>4, <3>6 DEF Benchmarks
    <3>7. CASE ~args.runSO /\ args.runMO
      BY <3>3, <3>4, <3>7 DEF Benchmarks
    <3> QED
      BY <2>2, <3>5, <3>6, <3>7
  <2> QED
    BY <2>1, <2>2 DEF ReportsAreComplete, GoodFile, OfProblem
<1> QED
  BY <1>1, ControlHolds, BenchmarksHold, PTL
=============================================================================
