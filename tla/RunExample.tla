----------------------------- MODULE RunExample -----------------------------
(***************************************************************************)
(* One process of run_example: main() with its options, the solver or the  *)
(* worker that it makes and destroys, the threads of that object, and      *)
(* spdlog's registry, which all of them log through.  What the threads do  *)
(* besides logging is Cluster's and Solver's matter.                       *)
(***************************************************************************)
EXTENDS Naturals, Sequences

CONSTANTS
    NoLogger,     \* a null pointer
    Problems,     \* problems of a benchmark
    Algorithms    \* algorithms that a benchmark compares

\* registry(): the name of the logger that is there from the start.
default_logger_name == ""

ASSUME RunExampleAssumption ==
    /\ NoLogger \notin {default_logger_name, "null_logger", "global_logger"}
    /\ Problems \in Nat \ {0}
    /\ Algorithms \in Nat

VARIABLES
    args,           \* main_args
    pc,             \* where main's thread is
    tasks,          \* the objects that are yet to be made, the present first
    unwinding,      \* is an exception on its way to a catch block
    loggers,        \* registry: names in loggers_
    defaultLogger,  \* registry: default_logger_
    loggerEnabled,  \* _loggerEnabled of the object
    running,        \* threads of the object
    holds,          \* the logger that a thread is logging through
    buffered,       \* levels of the messages that the log file's buffer has
    written,        \* levels of the messages that the file has
    evolutions,     \* evolutions of the present task that were waited for
    dataPoints,     \* benchmark_stats::_dataPoints
    statsBuffer,    \* benchmark_stats::_csvStatsBuffer
    saved,          \* the files with reports
    workerUp        \* environment: a worker is there to do the islands' work

registryVars == <<loggers, defaultLogger>>
fileVars == <<buffered, written>>
logVars == <<registryVars, loggerEnabled, fileVars>>
benchVars == <<dataPoints, statsBuffer, saved>>
mainVars == <<args, tasks, evolutions, workerUp>>
vars == <<mainVars, pc, unwinding, logVars, running, holds, benchVars>>

\* The controller's server thread, the archipelago's threads, _workerThread.
Threads == {"server", "islands", "work"}

\* What parse_main_args() can make of the options that matter here.
main_args == [isController : BOOLEAN, disableLogging : BOOLEAN,
              runSO : BOOLEAN, runMO : BOOLEAN]

\* A run of a benchmark: its problem, and 0 for all algorithms or the one used.
DataPoint == (1..Problems) \X (0..Algorithms)

\* A report has the runs of one problem, a file one report (CSV) or all (HTML).
Report == Seq(DataPoint)
\* It is whole; or cut, where writing it failed; or lost, where the bytes that the
\* stream still had could not be written when it was closed.
FileState == {"whole", "cut", "lost"}
File == [kind : {"csv", "html"}, reports : Seq(Report), state : FileState]

Ends == {"exit_0", "exit_2", "uncaught", "null_pointer", "load_failed",
         "thread_failed", "joinable"}

Destructors == {"~archipelago", "~controller", "join", "~worker"}

TypeOK ==
    /\ args \in main_args
    /\ pc \in {"main", "next", "construct", "constructed", "set_default", "work",
               "evolving", "waiting", "~logger_control", "catch"} \cup Destructors \cup Ends
    /\ tasks \in Seq({"default", "benchmark", "worker"})
    /\ unwinding \in BOOLEAN
    /\ loggers \subseteq {default_logger_name, "null_logger", "global_logger"}
    /\ defaultLogger \in loggers \cup {NoLogger}
    /\ loggerEnabled \in BOOLEAN
    /\ running \subseteq Threads
    /\ holds \in [Threads -> {default_logger_name, "null_logger", "global_logger",
                              NoLogger}]
    /\ buffered \subseteq {"debug", "warn", "critical"}
    /\ written \subseteq {"debug", "warn", "critical"}
    /\ evolutions \in Nat
    /\ dataPoints \in Seq(DataPoint)
    /\ statsBuffer \in Seq(Report)
    /\ saved \in Seq(File)
    /\ workerUp \in BOOLEAN

\* registry(): a default logger without a name.
Init ==
    /\ args \in main_args
    /\ pc = "main"
    /\ tasks = << >>
    /\ unwinding = FALSE
    /\ loggers = {default_logger_name} /\ defaultLogger = default_logger_name
    /\ loggerEnabled = FALSE
    /\ running = {}
    /\ holds = [t \in Threads |-> NoLogger]
    /\ buffered = {} /\ written = {}
    /\ evolutions = 0
    /\ dataPoints = << >> /\ statsBuffer = << >> /\ saved = << >>
    /\ workerUp \in BOOLEAN

-----------------------------------------------------------------------------
(***************************************************************************)
(* spdlog's registry.                                                      *)
(***************************************************************************)
throw_if_exists(name) == name \in loggers

\* Mutant: the logger that is replaced is dropped, as spdlog::drop() would.
ReplaceLogger(name) ==
    /\ loggers' = (loggers \ {defaultLogger}) \cup {name}
    /\ defaultLogger' = name

set_default_logger(name) ==
    /\ loggers' = loggers \cup {name}
    /\ defaultLogger' = name

\* use_null_logger(): register_logger(), then set_default_logger().  No other
\* thread is there to see a state in between.
use_null_logger == set_default_logger("null_logger")

\* Mutant: the default logger stays when the map is cleared.
DropMapOnly ==
    /\ loggers' = {}
    /\ UNCHANGED defaultLogger
    /\ written' = written \cup buffered
    /\ buffered' = {}

\* drop_all(): the loggers' destructors close the file.
shutdown ==
    /\ loggers' = {}
    /\ defaultLogger' = NoLogger
    /\ written' = written \cup buffered
    /\ buffered' = {}

\* Mutant: flush_on() is not called.
NeverFlush(level) == FALSE

\* flush_on(warn).
should_flush(level) == level \in {"warn", "critical"}

\* A message for a logger: only the file logger keeps any.
sink_it(logger, level) ==
    IF logger # "global_logger" THEN UNCHANGED fileVars
    ELSE IF should_flush(level)
         THEN /\ written' = written \cup buffered \cup {level}
              /\ buffered' = {}
         ELSE /\ buffered' = buffered \cup {level}
              /\ UNCHANGED written

-----------------------------------------------------------------------------
(***************************************************************************)
(* main() and the life of an object.                                       *)
(***************************************************************************)
Tasks ==
    IF ~args.isController THEN <<"worker">>
    ELSE IF ~args.runSO /\ ~args.runMO THEN <<"default">>
    ELSE (IF args.runSO THEN <<"benchmark">> ELSE << >>)
         \o (IF args.runMO THEN <<"benchmark">> ELSE << >>)

Main ==
    /\ pc = "main"
    /\ IF args.disableLogging THEN use_null_logger
                              ELSE UNCHANGED registryVars
    /\ tasks' = Tasks
    /\ pc' = "construct"
    /\ UNCHANGED <<args, workerUp, unwinding, loggerEnabled, fileVars, running,
                   holds, evolutions, benchVars>>

\* An unknown option gives the help; parse_main_args() is outside of main()'s try
\* block, so what it throws (an option without its value) is not caught.
ParseFails ==
    /\ pc = "main"
    /\ pc' \in {"exit_2", "uncaught"}
    /\ UNCHANGED <<mainVars, unwinding, logVars, running, holds, benchVars>>

\* An exception leaves the present scope; to is the first destructor.
Throw(to) ==
    /\ pc' = to
    /\ unwinding' = TRUE

\* What comes before the object throws: the library of the example's problem is
\* not there, or the worker's directory cannot be made (nobody logs that).
PrepareThrows ==
    /\ pc = "construct"
    /\ \/ Head(tasks) = "default" /\ Throw("catch")
       \/ Head(tasks) = "worker" /\ Throw("exit_2")
    /\ UNCHANGED <<mainVars, logVars, running, holds, benchVars>>

\* logger_control(), then the members of the object and the body of its
\* constructor, which may throw (settings, sockets).
Construct ==
    /\ pc = "construct"
    /\ IF throw_if_exists("null_logger")
       THEN Throw("catch") /\ UNCHANGED <<registryVars, running>>
       ELSE /\ use_null_logger
            /\ \/ /\ pc' = "constructed"
                  /\ running' = IF args.isController THEN {"server"} ELSE {}
                  /\ UNCHANGED unwinding
               \/ Throw("~logger_control") /\ UNCHANGED running
    /\ evolutions' = 0
    /\ dataPoints' = << >> /\ statsBuffer' = << >>
    /\ UNCHANGED <<args, tasks, workerUp, loggerEnabled, fileVars, holds, saved>>

FirstDestructor == IF args.isController THEN "~archipelago" ELSE "~worker"

\* enable_logging(), unless it is a benchmark or logging is disabled, as far as
\* register_logger().  The log file may be impossible to open.
EnableLogging ==
    /\ pc = "constructed"
    /\ IF Head(tasks) = "benchmark" \/ args.disableLogging
       THEN pc' = "work" /\ UNCHANGED <<registryVars, loggerEnabled, unwinding>>
       ELSE /\ loggerEnabled' = TRUE
            /\ UNCHANGED defaultLogger
            /\ \/ /\ ~throw_if_exists("global_logger")
                  /\ loggers' = loggers \cup {"global_logger"}
                  /\ pc' = "set_default"
                  /\ UNCHANGED unwinding
               \/ Throw(FirstDestructor) /\ UNCHANGED loggers
    /\ UNCHANGED <<mainVars, fileVars, running, holds, benchVars>>

\* set_default_logger(), which began with the step before, has returned.
SetDefaultLogger ==
    /\ pc = "set_default"
    /\ set_default_logger("global_logger")
    /\ pc' = "work"
    /\ UNCHANGED <<mainVars, unwinding, loggerEnabled, fileVars, running, holds,
                   benchVars>>

-----------------------------------------------------------------------------
(***************************************************************************)
(* The controller's tasks: evolve() and wait_until_completion(), again and *)
(* again; for a benchmark, with all algorithms and then with each alone,   *)
(* for each problem.                                                       *)
(***************************************************************************)
TotalEvolutions ==
    IF Head(tasks) = "default" THEN 2 ELSE Problems * (Algorithms + 1)

\* evolve() may throw: while it plans, or in archipelago::evolve(), which starts
\* one island after the other, when some of them run already.
evolve ==
    /\ pc = "work" /\ args.isController
    /\ evolutions < TotalEvolutions
    /\ \/ /\ pc' = "evolving"
          /\ running' = running \cup {"islands"}
          /\ UNCHANGED unwinding
       \/ /\ Throw(FirstDestructor)
          /\ running' \in {running, running \cup {"islands"}}
    /\ UNCHANGED <<mainVars, logVars, holds, benchVars>>

\* wait_until_completion() throws when the evolution is over already.
wait_until_completion ==
    /\ pc = "evolving"
    /\ IF "islands" \in running THEN pc' = "waiting" /\ UNCHANGED unwinding
                                ELSE Throw(FirstDestructor)
    /\ UNCHANGED <<mainVars, logVars, running, holds, benchVars>>

CurrentPoint == <<1 + evolutions \div (Algorithms + 1),
                  evolutions % (Algorithms + 1)>>

\* _get_current_stats_csv(): one row for each point, the best point first.
StatsOrders(points) ==
    {order \in [1..Len(points) -> 1..Len(points)] :
        \A m, n \in 1..Len(points) : order[m] = order[n] => m = n}

StatsOf(points, order) == [n \in 1..Len(points) |-> points[order[n]]]

\* Mutant: the points of one problem stay for the next.
KeepMeasurement(points) ==
    IF CurrentPoint[2] = Algorithms
    THEN /\ \E order \in StatsOrders(points) :
              statsBuffer' = Append(statsBuffer, StatsOf(points, order))
         /\ dataPoints' = points
    ELSE dataPoints' = points /\ UNCHANGED statsBuffer

\* end_current_measurement() when a problem has had its last run.
EndMeasurement(points) ==
    IF CurrentPoint[2] = Algorithms
    THEN /\ \E order \in StatsOrders(points) :
              statsBuffer' = Append(statsBuffer, StatsOf(points, order))
         /\ dataPoints' = << >>
    ELSE dataPoints' = points /\ UNCHANGED statsBuffer

\* wait_check() returns, and a benchmark adds its data point; or it throws what
\* an island has thrown.
EvolutionEnds ==
    /\ pc = "waiting"
    /\ "islands" \notin running
    /\ \/ /\ pc' = "work"
          /\ evolutions' = evolutions + 1
          /\ IF Head(tasks) = "benchmark"
             THEN EndMeasurement(Append(dataPoints, CurrentPoint))
             ELSE UNCHANGED <<dataPoints, statsBuffer>>
          /\ UNCHANGED unwinding
       \/ /\ Throw(FirstDestructor)
          /\ UNCHANGED <<evolutions, dataPoints, statsBuffer>>
    /\ UNCHANGED <<args, tasks, workerUp, logVars, running, holds, saved>>

\* save_all_results_as_csv(), then save_all_results_as_html().
ResultFiles ==
    [n \in 1..Len(statsBuffer) |->
        [kind |-> "csv", reports |-> <<statsBuffer[n]>>, state |-> "whole"]]
    \o <<[kind |-> "html", reports |-> statsBuffer, state |-> "whole"]>>

\* _write_results_to_file() for the first n of them: each is opened, truncated and
\* written, a write that fails throws, and nobody looks whether closing succeeds.
write_results_to_file(n) ==
    {states \in [1..n -> FileState] : \A m \in 1..(n - 1) : states[m] # "cut"}

Left(states) ==
    [m \in 1..Len(states) |-> [ResultFiles[m] EXCEPT !.state = states[m]]]

\* The task's scope ends; a benchmark writes its files before, until one of them
\* cannot be opened or written.
TaskEnds ==
    /\ pc = "work" /\ args.isController
    /\ evolutions = TotalEvolutions
    /\ \/ /\ Head(tasks) = "default"
          /\ pc' = FirstDestructor
          /\ UNCHANGED <<unwinding, saved>>
       \/ /\ Head(tasks) = "benchmark"
          /\ \E n \in 0..Len(ResultFiles) :
               \E states \in write_results_to_file(n) :
                  /\ saved' = saved \o Left(states)
                  /\ IF n = Len(ResultFiles) /\ states[n] # "cut"
                     THEN pc' = FirstDestructor /\ UNCHANGED unwinding
                     ELSE Throw(FirstDestructor)
    /\ UNCHANGED <<mainVars, logVars, running, holds, dataPoints, statsBuffer>>

\* The worker's task: client_loop() for ever, or until it throws.  It starts and
\* joins the worker thread.
ClientLoop ==
    /\ pc = "work" /\ ~args.isController
    /\ \/ /\ "work" \notin running
          /\ running' = {"work"}
          /\ UNCHANGED <<pc, unwinding>>
       \/ /\ "work" \in running /\ holds["work"] = NoLogger
          /\ running' = {}
          /\ UNCHANGED <<pc, unwinding>>
       \/ Throw(FirstDestructor) /\ UNCHANGED running
    /\ UNCHANGED <<mainVars, logVars, holds, benchVars>>

-----------------------------------------------------------------------------
(***************************************************************************)
(* Destructors: members in the reverse order of their declaration, then    *)
(* the base class.                                                         *)
(***************************************************************************)
\* Mutant: the archipelago is destroyed after the controller.
ControllerFirst ==
    \/ pc = "~archipelago" /\ pc' = "~controller" /\ UNCHANGED running
    \/ pc = "~controller" /\ pc' = "join" /\ UNCHANGED running
    \/ /\ pc = "join" /\ holds["server"] = NoLogger
       /\ running' = running \ {"server"}
       /\ pc' = IF "islands" \in running THEN "join" ELSE "~logger_control"

\* ~archipelago() waits for the islands, ~distributed_controller() closes the
\* sockets, which ends the poll loop, and joins the server thread.
DestroySolverMembers ==
    \/ /\ pc = "~archipelago" /\ "islands" \notin running
       /\ pc' = "~controller" /\ UNCHANGED running
    \/ pc = "~controller" /\ pc' = "join" /\ UNCHANGED running
    \/ /\ pc = "join" /\ holds["server"] = NoLogger
       /\ running' = running \ {"server"}
       /\ pc' = "~logger_control"

\* A std::thread that is destroyed while it is joinable ends the process.
DestroyWorkerMembers ==
    /\ pc = "~worker"
    /\ pc' = IF "work" \in running THEN "joinable" ELSE "~logger_control"
    /\ UNCHANGED running

DestroyMembers ==
    /\ DestroySolverMembers \/ DestroyWorkerMembers
    /\ UNCHANGED <<mainVars, unwinding, logVars, holds, benchVars>>

DestroyLoggerControl ==
    /\ pc = "~logger_control"
    /\ IF loggerEnabled THEN shutdown ELSE UNCHANGED <<registryVars, fileVars>>
    /\ loggerEnabled' = FALSE
    /\ pc' = IF unwinding THEN "catch" ELSE "next"
    /\ UNCHANGED <<mainVars, unwinding, running, holds, benchVars>>

NextTask ==
    /\ pc = "next"
    /\ tasks' = Tail(tasks)
    /\ pc' = IF Len(tasks) > 1 THEN "construct" ELSE "exit_0"
    /\ UNCHANGED <<args, workerUp, unwinding, logVars, running, holds, evolutions,
                   benchVars>>

\* The catch blocks of run_controller(), run_worker() and main(): critical() goes
\* through get_default_raw(), whatever that is now.
Catch ==
    /\ pc = "catch"
    /\ pc' = IF defaultLogger = NoLogger THEN "null_pointer" ELSE "exit_2"
    /\ sink_it(defaultLogger, "critical")
    /\ UNCHANGED <<mainVars, unwinding, registryVars, loggerEnabled, running,
                   holds, benchVars>>

-----------------------------------------------------------------------------
(***************************************************************************)
(* The other threads, and the workers elsewhere.  get_default_raw() takes  *)
(* no lock: a thread uses the logger that it found after main may have     *)
(* replaced it, and finds the old or the new one while main does that (a   *)
(* data race on a pointer, of which the build makes one or the other).     *)
(***************************************************************************)
Alive == pc \notin Ends

get_default_raw ==
    IF pc = "set_default" THEN {defaultLogger, "global_logger"} ELSE {defaultLogger}

GetDefaultRaw(t) ==
    /\ Alive
    /\ t \in running
    /\ holds[t] = NoLogger
    /\ \E logger \in get_default_raw : holds' = [holds EXCEPT ![t] = logger]
    /\ UNCHANGED <<mainVars, pc, unwinding, logVars, running, benchVars>>

LogMessage(t) ==
    /\ Alive
    /\ holds[t] # NoLogger
    /\ \E level \in {"debug", "warn"} : sink_it(holds[t], level)
    /\ holds' = [holds EXCEPT ![t] = NoLogger]
    /\ UNCHANGED <<mainVars, pc, unwinding, registryVars, loggerEnabled, running,
                   benchVars>>

\* The controller has answered all islands, or they have thrown.
IslandsEnd ==
    /\ Alive
    /\ "islands" \in running
    /\ holds["islands"] = NoLogger
    /\ running' = running \ {"islands"}
    /\ UNCHANGED <<mainVars, pc, unwinding, logVars, holds, benchVars>>

\* An exception of a handler ends the server thread, and nobody notices.
ServerThreadEnds ==
    /\ Alive
    /\ "server" \in running
    /\ holds["server"] = NoLogger
    /\ running' = running \ {"server"}
    /\ UNCHANGED <<mainVars, pc, unwinding, logVars, holds, benchVars>>

\* The last worker of the controller leaves, or the first one joins.
WorkerComesOrGoes ==
    /\ Alive /\ args.isController
    /\ workerUp' = ~workerUp
    /\ UNCHANGED <<args, tasks, evolutions, pc, unwinding, logVars, running, holds,
                   benchVars>>

\* An exception of the worker thread before its try block: the work, or the
\* library that it needs, cannot be loaded.  (Or one in it that is not a
\* std::exception: nothing catches that one either.)
WorkerThreadThrows ==
    /\ Alive
    /\ "work" \in running /\ holds["work"] = NoLogger
    /\ pc' = "load_failed"
    /\ UNCHANGED <<mainVars, unwinding, logVars, running, holds, benchVars>>

\* ... and in it: the thread logs the exception and throws it again.
WorkerThreadFails ==
    /\ Alive
    /\ "work" \in running /\ holds["work"] = NoLogger
    /\ sink_it(defaultLogger, "critical")
    /\ pc' = "thread_failed"
    /\ UNCHANGED <<mainVars, unwinding, registryVars, loggerEnabled, running,
                   holds, benchVars>>

Ended == ~Alive /\ UNCHANGED vars

Next ==
    \/ Main \/ ParseFails \/ PrepareThrows \/ Construct \/ EnableLogging
    \/ SetDefaultLogger \/ evolve \/ wait_until_completion \/ EvolutionEnds \/ TaskEnds
    \/ ClientLoop \/ DestroyMembers \/ DestroyLoggerControl \/ NextTask \/ Catch
    \/ IslandsEnd \/ ServerThreadEnds \/ WorkerComesOrGoes
    \/ WorkerThreadThrows \/ WorkerThreadFails \/ Ended
    \/ \E t \in Threads : GetDefaultRaw(t) \/ LogMessage(t)

Spec == Init /\ [][Next]_vars

(***************************************************************************)
(* A log message ends, and so does a handler of the controller.  An        *)
(* evolution is sure to end only while a worker is up and the server       *)
(* thread passes messages on (Cluster: EveryCallReturns; run_evolve() has  *)
(* no timeout).  All of these end after finitely many messages: hence      *)
(* strong fairness for what waits for them.                                *)
(***************************************************************************)
FairSpec ==
    /\ Spec
    /\ \A t \in Threads : WF_vars(LogMessage(t))
    /\ SF_vars(DestroyMembers)
    /\ SF_vars(IslandsEnd /\ workerUp /\ "server" \in running)

-----------------------------------------------------------------------------
\* The server thread runs before enable_logging() replaces the default logger,
\* and get_default_raw() takes no lock.  Whichever of the two pointers the race
\* gives it, the logger that a thread has in hand is one that the registry keeps
\* alive.
LoggerInUseIsAlive ==
    \A t \in running : holds[t] # NoLogger => holds[t] \in loggers

\* spdlog's registry: get_default_raw() "cannot be used concurrently with
\* set_default_logger()", so "do not call set_default_logger() from one thread
\* while calling spdlog::info() from another".
DefaultIsSetAlone ==
    pc = "set_default" => \A t \in running : holds[t] = NoLogger

\* When an exception of the evolution ends the worker's process, the log file
\* has the message that says so: it is not left in a buffer.
FailureIsOnDisk ==
    pc = "thread_failed" /\ loggerEnabled => "critical" \in written

\* Whatever throws on the way, a file of a benchmark that is neither cut nor lost
\* to the disk has complete reports, each of the runs of one problem (one with
\* all algorithms and one with each alone), and an HTML file has one of every
\* problem.  Nothing is written after a file that was cut, and when main() returns
\* 0 there is none, and no file of a benchmark is missing.  (One that was lost when
\* it was closed goes unnoticed.)
ReportsAreComplete ==
    /\ \A f \in 1..Len(saved) :
         LET reports == saved[f].reports
             OfProblem(r, p) == /\ Len(r) = Algorithms + 1
                                /\ {r[n] : n \in 1..Len(r)} = {p} \X (0..Algorithms)
         IN /\ saved[f].state = "whole" =>
                 IF saved[f].kind = "csv"
                 THEN \E p \in 1..Problems : OfProblem(reports[1], p)
                 ELSE /\ Len(reports) = Problems
                      /\ \A p \in 1..Problems : OfProblem(reports[p], p)
            /\ saved[f].state = "cut" => f = Len(saved) /\ pc # "exit_0"
    /\ pc = "exit_0" /\ (args.runSO \/ args.runMO) =>
         Len(saved) = (IF args.runSO THEN Problems + 1 ELSE 0)
                      + (IF args.runMO THEN Problems + 1 ELSE 0)

\* The destructors of solver and worker return, also when an exception unwinds
\* main's stack in the middle of an evolution: ~archipelago() on condition that
\* the server thread lives until then and a worker stays up in the end (without
\* them the islands wait for ever), the others in any case.
DestructorsReturn ==
    /\ pc \in Destructors \ {"~archipelago"} ~> pc \notin Destructors
    /\ [](pc = "~archipelago" => "server" \in running) /\ <>[]workerUp
         => (pc = "~archipelago" ~> pc \notin Destructors)

\* "--disable-logging", "--benchmark-so" and "--benchmark-mo" are documented as
\* options: whatever is given, the constructor of the object that main() is
\* about to make can register its logger.
ConstructorCanRegister == pc = "construct" => ~throw_if_exists("null_logger")
=============================================================================
