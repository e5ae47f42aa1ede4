# A TLA+ model of Pagmo-solver-distributed

The program distributes an optimisation with pagmo over a cluster. A *solver* process makes an
archipelago whose islands hand their populations to a *controller* (a thread of the same
process); the controller passes them to *worker* processes that may join, leave, crash and
reconnect at any time, and passes their results back. Problems are dynamic libraries that are
fetched from the controller when a worker does not have them.

This directory models that system: TLA+ modules, the TLC configurations that check them on small
instances, and proofs for TLAPS. `PROJECT.json` lists components, runs, the source lines behind
every definition, findings, hazards and theorems.

## 1. Inventory

| Component | State | Operations | Module |
|---|---|---|---|
| `distributed_controller` | free pool, allocation map, waiting islands, server thread | handlers of WORKER_JOIN, WORKER_LEAVE, WORK_RESULTS, GET_DLL, ALLOCATE_WORK; destructor | `Controller`, `Settings` |
| `distributed_worker` (loop, thread) | process, `_workerThread`, sockets | handlers of ALLOCATE_WORK, DLL_BINARY, thread results; the thread; `get_dll_from_controller()` | `Worker` |
| `distributed_worker` (archipelago) | the populations of one call | island count, split, evolve, merge, select | `ArchipelagoWorker`, `PopulationTools` |
| `distributed_island` | population, blocked or not | `run_evolve()` | `Island` |
| `distributed_solver` | archipelago, repository | `wait_until_workers_connect()`, `evolve()`, `wait_until_completion()`, best individuals, work plan | `Solver`, `WorkPlan` |
| `worker_info_repository` | connected workers, records, statistics | joined, left, started, finished, wait for a count | `WorkerInfo` (records, statistics), `Controller` (who throws), `Solver` (waiting) |
| `settings<T>` | value, file | constructor, `operator()`, `save()` | `Settings` |
| `population_tools`, `number_utils` | none | pure functions | `PopulationTools` |
| messages, sockets, ZeroMQ | queues, connections | send, receive, connect, lose | `Network` |
| `udp_registry`, `hash_cache`, `lru_cache`, `udp_dll_wrapper` | library files, buffer, hashes, loaders | construct, initialise, save, load, fetch, delete | `UdpRegistry`, `LruCache` |
| `run_example`, `logger_control`, `logger_init`, spdlog's registry | options, registered and default logger, threads, log file | main, construct, enable logging, log, destroy, catch | `RunExample` |
| benchmark | data points, measurements, files | run, end a measurement, save | `RunExample` |
| SHA-256, CSV, HTML, paths, UUIDs; the rest of spdlog and fmt (vendored) | - | - | not modelled |

How they interact. An island sends ALLOCATE_WORK to the controller over an ipc ROUTER/DEALER pair
and blocks. The controller sends the work to a free worker (the preferred one if it is free) or
keeps it in `_islandsWaitingForAlloc`. The worker runs it in a thread, may ask for a library in
between (GET_DLL, DLL_BINARY), and sends WORK_RESULTS. ZeroMQ's hello message makes WORKER_JOIN
the first message of every connection; its disconnect message makes WORKER_LEAVE the last one.
The server thread reports to the `worker_info_repository`, which lives inside the controller's
settings; the user's thread waits on it and reads it for the work plan. All threads of a process
log through spdlog's default logger, which constructors, `enable_logging()` and destructors change.

What is hard here:

- *failure*: a worker dies at any step; a connection breaks under two live processes (the
  controller's heartbeat timeout is 3 s, the worker's 5 min, so the two sides notice at
  different times); the controller is started again while workers are busy; a process dies inside
  a write to a file;
- *ordering*: results, joins and leaves of an old and a new connection of one worker;
- *no timeouts*: `run_evolve()` and `get_dll_from_controller()` block for ever;
- *exceptions*: one in a handler ends the server thread silently, one in a worker's thread
  ends its process;
- *shared state*: settings and repository are used by two threads, populations by the
  islands' threads and the user's;
- *numbers*: truncations and roundings to multiples of 4 in plan and split;
- *caches*: three per process, for the same file, with different lifetimes;
- *lifetimes*: destructors that wait for threads which need what is destroyed next, and a logger
  that is replaced and dropped while threads use it.

## 2. Modules

```
Network <- Controller, Worker, Island <- Cluster <- MCCluster
                                           |  \---- WorkService (refined by Cluster)
                                           \------- ClusterProofs <- PlacesProofs
PopulationTools <- ArchipelagoWorker <- ArchipelagoProofs
                <- WorkerInfo <- WorkPlan <- MCWorkPlan, WorkPlanProofs
LruCache <- UdpRegistry <- UdpRegistryProofs
Settings <- SettingsProofs     Solver <- SolverProofs     RunExample <- RunExampleProofs
```

**Network.** ZeroMQ is external; the module states what the code relies on: per-connection FIFO
pipes, hello first, disconnect last, a lost connection loses any suffix of either pipe, a ROUTER
drops messages for absent peers, a DEALER queues while it is disconnected, and what it writes to
a connection that is already dead is gone. Work is identified by island and call number. The
real messages carry no such identity: it is the tag by which the properties tell results apart,
and no action decides anything by it.

**Controller.** One action per message type, because the server thread runs one handler at a
time. A handler that throws sets `serverThread` to `"dead"`; every action needs `"running"`.
`begin()` of an unordered container is an arbitrary choice, `emplace()` keeps existing entries.
The repository appears as its two key sets and the conditions under which it throws. These and
`_workAllocationMap.at()` are the exceptions of the model; see section 6 for the others.

**Worker.** The thread is `none`, `load`, `dll` (blocked in `get_dll_from_controller()`),
`evolve` or `done`. It stays joinable until the loop has read its results. New work for a
joinable thread is `StartOverRunningThread`: `std::terminate()`. An exception in the thread ends
the process too (`WorkerThreadFails`).

**Island.** `run_evolve()` in two halves, before and after `receive()`.

**Cluster.** Composition, faults, fairness, properties. Three faults, all bounded: a worker's
process ends (`WorkerDies`) and may come back under its persisted id; a connection breaks under
two live processes (`LinkBreaks`); the controller's process ends and is started again while
workers live (`ControllerRestarts`, counted like a broken connection). A restart empties the
controller's maps and its queues, keeps any subset of the repository's records (what the settings
file had), and drops a suffix of what was on its way to each worker; calls of islands that were
blocked are gone with their process. Islands and controller share a process, so their
connections do not break. Properties that a broken connection can destroy are stated
as `Unbroken => ...`: they hold in all states before the first one.

**WorkService.** What an island may rely on: each call is answered once, after it was made, with
the results of exactly that call. `Cluster!ImplementsService` is the refinement.

**Settings.** A value is a version number; a save truncates the file and writes `Blocks` blocks
at the thread's own offset, each serialised at some moment since the save began. Two threads may
be in it together. `disturbed` is a history variable: the last save met another save or a change.
At most one thread changes the value (`ChangersAssumption`): only the controller's handlers do, and
the server thread runs them all.

**ArchipelagoWorker, PopulationTools.** Inputs are all population sizes the plan can send,
minimal sizes and core counts within bounds. Individuals are their index, so that loss,
duplication and order can be seen; after the evolution (pagmo's) they are ranked by every
rotation of a strict order. For several objectives pagmo's selection is taken to return the best
N positions. The minimal size of an island is applied before the size is rounded down to a multiple
of 4, so what the code keeps of it are its whole fours (`IslandSizesAreEven`); that it keeps the
minimum itself, as its comments say, is `MinimumIsKept` (section 5).

**WorkerInfo.** `worker_info_repository`: connected workers, and for each worker ever seen a
record with the time and the individuals it was measured for, in total and per algorithm. A clock
ticks while somebody works. `allocated` stands for the keys of the controller's allocation map,
which says who may be given work. It does not say whose results are read: `outstanding` counts the works of a
worker whose results are still to come, and these are charged whether or not there is an
allocation, as the handler does before it looks for one. A worker that leaves loses its
results with its process; if only the connection ended (`broken`), any number of them come on the next one, and
without an allocation they end the server thread. A work that took no whole millisecond counts
its individuals and no time.

**WorkPlan.** A history of measured work, then `evolve()`'s count, the copy of the set of
workers, and `_generate_work_plan()`, loop by loop; the server thread lets workers join and leave
between all of these. The total performance is summed one worker at a time (`AddPerformance`), as
the code's loop does, before the first share is computed. Performance values are exact fractions; where an exact share is an integer
the double may fall just below it, and both results are taken.

**Solver.** The user's calls against the server thread and the islands' threads. A call that
blocks has its own `user` states. An island's task is `cycleCount` calls of `run_evolve()`, and
the first that throws ends it. `evolve()` may throw after it has thrown the old archipelago away
(`StartFails`: in the plan, in an island's constructor, in `set_x()` of a hint, in
`archipelago::evolve()`): then any number of islands are made, some of them evolve if all were made, and the hints
are still set. The server thread may end (`ServerThreadEnds`); nobody joins or leaves after that. Initial hints are the number of the call that set them. `merge_populations()` reads x and f of an island in two steps.

**UdpRegistry, LruCache.** Both processes' registries. A library's content is its version or
`Broken` (half-written); a hash is the content it was computed from. `initialize_udp()` on the
worker is split where it waits for the provider and where it writes the file. Loading results
with a different hash in the controller unloads a library under live objects and deletes its
file, with nobody to provide another: the process counts as failed. The controller restarts
between evolutions; a restart during one is a broken connection, which is `Cluster`'s matter.
A library buffer of 1 and a hash cache of 2 keep the relation of the code's 5 and 50: the
buffer evicts what the hash cache still knows.

**RunExample.** One process of the example program. `pc` is where main's thread is: options, the
next task, its object's constructor, its work, the destructors in the order C++ gives them, the
catch blocks, and the ways the process can end. An exception sets `unwinding` and goes through the
destructors of what exists, also in the middle of an evolution that only some islands have begun. The registry is the set of registered names and the default logger;
the other threads (server, islands, worker thread) fetch the default logger in one step and log
through it in another. `enable_logging()` is two steps, `register_logger()` and `set_default_logger()`; a
thread that fetches the default logger during the second gets the old one or the new one, the outcomes of
that data race on a pointer. A message is a level: in the file logger's buffer, or in the file. A
benchmark is a sequence of evolutions, one data point for each, a report for each problem and,
at the end, one CSV file per report and one HTML file. Each of these may fail to open, may be cut off by a
write that throws, or may lose what the stream still had when it is closed, which nobody checks.
The server thread may end, and `workerUp` says whether a worker is there to do the islands' work. The evolutions themselves, waiting for
workers included, are `Solver`'s and `Cluster`'s.

## 3. Runs

| Run | Instance | Shows |
|---|---|---|
| `cluster` | 2 workers, 2 islands, 2 calls each; 2 crashes, or 1 broken connection or restart of the controller | under all faults: `TypeOK`, `WorkConservation`, `RegisteredWorkers`, `WorkInOnePlace`, `AllocationIsServed`; until a connection breaks: `SessionsAgree`, `OneThreadAtATime`, `ServerSurvives`, `ResultsBelongToIsland` |
| `cluster_live` | 1 call each, 2 crashes, fairness | `ImplementsService`, `EveryCallReturns`, `LibraryRequestsReturn` |
| `settings` | 2 threads, 2 blocks, 3 changes, 2 crashes | `LoneSaveKeepsPreviousVersion`, `CleanStopSavesAll`, `QuietFileIsComplete`, `RestartLosesAtMostOneChange` |
| `archipelago_worker` | shares 0-24, minima 0-9, 0-5 cores | `EveryIndividualIsPlaced`, `IslandSizesAreEven`, `BestIndividualsReturn` |
| `work_plan` | 3 workers, 2 expected, 2 algorithms, 3 works of 3 or 7 individuals in 2 ms, 1 leave, 17 individuals | `MeasuredTimeIsReal`, `PlannedWorkersAreRecorded`, `PreferredWorkersDiffer`, `PlanCoversPopulation`, `FasterWorkersGetMore` |
| `solver` | 2 workers, 1 expected, 2 cycles, 4 calls, fairness | `WaitedResultsAreFinal`, `WaitForWorkersReturns`, `CompletionReturns`, `NothingInterrupted`, `HintsAreUsedOnce` |
| `udp_registry` | 2 libraries, 2 versions, 1 crash | `BrokenIsNeverLoaded`, `WorkerRunsSentVersion`, `ControllerKeepsLibraries`, `WorkerCachesAgree` |
| `run_example` | 2 problems, 2 algorithms, all options, fairness | `LoggerInUseIsAlive`, `FailureIsOnDisk`, `ReportsAreComplete`, `DestructorsReturn` |
| `cluster_drop` | 2 workers, 2 islands, 2 calls each, 1 broken connection or restart | finding 1, `ResultsMatchAllocation` |
| `settings_mixed` | 2 threads, 2 blocks, 3 changes | finding 2, `PreviousVersionSaved` |
| `solver_wait` | 3 workers, 2 expected, 3 calls | finding 3, `WaitFindsEvolution` |
| `run_example_race` | 1 problem, 1 algorithm | finding 4, `DefaultIsSetAlone` |

Three more configurations are there to be run by hand and are not in `PROJECT.json`. Each ends with the
violation that a finding of section 5 describes: `WorkTime.cfg` (module `MCWorkPlan`, `WorkTimeWasSpent`, finding 5),
`IslandMinimum.cfg` (`ArchipelagoWorker`, `MinimumIsKept`, finding 6) and `RunExampleOptions.cfg` (`RunExample`,
`ConstructorCanRegister`, finding 7).

Why the bounds are enough. Two islands and two workers give every relation of supply and demand
(more islands than free workers, fewer, equal) and a second party that results can be confused
with; two calls let results of an earlier call meet a later one; two crashes let a worker die
again in the session that follows a recovery. One broken connection or restart already separates the two
views of a session, and the violation needs no more. The constraint `OneKindOfFault` keeps `cluster`
(1.2 million states) to behaviours with crashes only, or with one broken connection or restart, after
which one island at most makes a second call. Without that last limit (4.1 million states), and with
a mixture of one crash and one broken connection or restart and one call per island, the invariants hold too. With four calls the user can wait for
workers, evolve, wait or look, and evolve again. A share of 24 passes every residue of the
roundings to 4 several times for every core count (a count of 0 stands for the library's
"unknown", which the code turns into 8 islands). Two versions and two libraries over a buffer of one make
every cached value stale once. Three works let one worker be measured twice
and overtaken, or all three workers be measured for different things; one leave makes the copied set smaller than
the count, a join after the count makes it larger. Two problems and two algorithms show points that stay from one
measurement to the next, and files that are written before another one fails.

Symmetry is used in the safety runs over interchangeable workers and islands, never with
liveness. Deadlock is not checked where the system may stop: after broken connections (a dead
server thread, a thread that waits for a lost reply), in `Settings` (a failed constructor, used
up bounds), in `UdpRegistry` (the controller has failed), in `WorkPlan` (the one plan is made, or the
server thread has ended) and in `Solver` (the calls are used up, or the user waits and the server thread has ended).

Fairness. The poll loops serve every socket and ZeroMQ fair-queues the peers of a ROUTER, so each
handler is weakly fair per peer; ZeroMQ keeps reconnecting; an evolution ends; a blocked
`receive()` returns once there is a message; `notify_all()` follows the unlock. No fairness is
assumed for starting workers, joining, the user's calls or the islands' calls. `run_evolve()` has no
timeout, so `Solver` makes a call of it fair only while one and the same worker stays connected and the server
thread lives (`Served`), and `RunExample` the end of an evolution only with a worker up and a
server thread: elsewhere the code may wait for ever. In `RunExample` a
thread finishes the message it is logging, and what waits for a thread between two messages (a
join, the end of an evolution) is strongly fair: a handler and an evolution log finitely often.
`EveryCallReturns` therefore asks that some worker stays up from some time on, `CompletionReturns`
that one stays connected to a server thread that lives, `WaitForWorkersReturns` that enough workers stay
connected, and `DestructorsReturn`, for `~archipelago()`, that a worker stays up and the server thread lives
until then. The other destructors return without a condition.

## 4. Proofs

Eight modules hold theorems. All of them are about the specifications that TLC runs, for every value
of the constants: any sets of workers, islands, threads and libraries, any counts and sizes, any
bounds on calls, changes and faults. They rest on the assumptions on the constants only, which every
run evaluates. Most are weak (a set is not empty, a bound is a natural number, a marker is not a
member of a set). Three say something about the code: `ChangersAssumption` (one thread changes the
settings, section 2), `WorkPlanAssumption` and `SolverAssumption` (at least one worker is expected, section 6), and the
capacities of the two LRU caches, which the code fixes to positive numbers.

Each theorem `Spec => []P` comes from an inductive invariant, because the property alone says too
little about the state before a step. What had to be added is the interesting part:

**ClusterProofs.**

- `TypeCorrect`: `TypeOK` is inductive as it stands.
- `WorkIsConserved`: `WorkConservation`, inductive with `TypeOK`: the allocation
  operators either leave the pool empty when they put an island into the waiting map, or take
  the worker that was just added out again for an island that waits. One lemma per operator,
  cited by the handlers' steps. A restarted controller has empty maps.
- `SessionsAlwaysAgree`, `ServerNeverDies`, `ThreadsNeverOverlap`.
  `ServerSurvives` alone is not inductive: to know that results come from an allocated worker one
  must know everything that can be in flight for it. `SessionsAgree` says that: for each worker
  the contents of both queues, the state of its thread and its entries in the controller's maps
  are in one of a few combinations (away, unallocated, busy). The inductive invariant
  (`SessionInv`, `SessionsStayInStep`: `Spec => [](Unbroken => SessionInv)`) adds that
  no process that is down has a connection and that workers the controller counts on have a
  record in the repository. `drops` never decreases (`UnbrokenStep`), so a step into an unbroken
  state comes from one. The condition is needed: after one broken connection
  what `cluster_drop` shows makes all three false.

**PlacesProofs**, on top of these.

- `WorkersAreRegistered`, `AllocationsAreServed`: under all faults. `RegistrationInv` says of each
  worker that the messages the controller has yet to read from it are in order (a WORKER_JOIN only
  as the first, from a worker that does not count as connected; a WORKER_LEAVE only as the last, of a connection that is gone):
  without that a WORKER_JOIN could be read from a worker with work, and a worker that is gone could
  stay in the pool.
- `WorkIsInOnePlace`: under all faults. `WorkInOnePlace` counts entries; `PlacesInv` says instead that
  the two maps are disjoint, hold only work of current calls and no call twice, and lists the four
  places a call can be in. Then `emplace()` never meets an entry, and a result ends the right call.
- `ResultsAreOwn`: until a connection breaks. From `SessionInv` the results a worker sends are those
  of the work on record for it, and from `PlacesInv` that work is current.
- `ClusterImplementsService`: `Spec /\ []Unbroken => ImplementsService`. Initial states map to initial
  states, `run_evolve()`'s first half is `Request`, the handler that forwards results is `Answer`, its
  second half is `Accept`, and every other step is a stutter. Behaviours in which a
  connection breaks are excluded for the reason `cluster_drop` shows.
- `NobodyGetsStuck`: until a connection breaks, a call that blocks has a step of somebody to wait for.
  Its results are there, or its request can be read, or the worker that has its work has a step
  or a message the server thread can read; and when it waits for a worker, every worker's process has
  a step. It combines `PlacesInv` (where the call is), `SessionInv` (what a worker that is not free is
  doing) and `WorkConservation` (nobody is free while an island waits). What is left to fairness is that
  such steps are taken, and that they end.

**SettingsProofs.** `SettingsInv` relates the file to the saves under way: without a process nobody
saves (`Lifecycle`); the thread that truncated the file last has written every block before the one it
is at, so no hole is left when it is done (`NoPartMissing`, for `QuietFileIsComplete`); in a save that met
no other save and no change all blocks are of the present version and there are as many as the thread
has written (`LoneSave`, for `LoneSaveKeepsPreviousVersion` and `CleanStopSavesAll`).
`RestartLosesAtMostOneChange`, an action property, follows from the same invariant for the step that starts the process.

**RunExampleProofs.** Three invariants, each inductive relative to the ones before it. `ControlInv`: which
threads can run at which place of main, and that no thread outlives its object. `LoggerInv`: the logger
a thread has in hand is registered, also if it was read while the default was being set (the new logger is
registered before), and while an object works `enable_logging()` has had its effect or
was not called; `LoggerInUseIsAlive` and `FailureIsOnDisk` follow. `BenchInv`: evolutions are counted by
buffered reports and data points, data points are those of the present problem in order, and the number
of files is that of the benchmarks finished, of which none is cut off unless an exception is on its
way; `TypeOK` and `ReportsAreComplete` follow.

**SolverProofs.** `SolverInv`: calls of `run_evolve()` that are left and calls that are made add up, unless one
has thrown, until somebody has waited, on every island that was started, and are zero on the
others (`Evolving`, `Accounted`); how far `merge_populations()` is and that after a wait all it has
read is final (`Merging`); hints that were used are never the present ones (`Hints`). The set of connected
workers is shown to be finite, not assumed to be. `WaitedResultsAreFinal` and the action properties `NothingInterrupted` and
`HintsAreUsedOnce` follow. `NobodySleepsIn` is the safety half of the two liveness properties: who sleeps in
`wait_until_workers_connect()` with enough workers there has a `notify_all()` still coming, a wait for completion
is for islands that exist, and the merge after it has a next read (`NobodyOversleeps`).

**UdpRegistryProofs.** First what the operations of the LRU cache do to a cache that has one item per
key: which items `erase`, `get` and `put` keep and which they may evict. Then `RegistryInv`: a
buffer that is switched off is empty; whatever the worker keeps was made from the file it has; while
a file is being written nothing is kept of the one before (`Loading`); the controller's files are whole,
and its caches are of the file it has unless it was replaced; no hash of a half-written file ever
travels. Dropping any of these lets a stale hash vouch for a file it was not made from. `TypeOK`,
`BrokenIsNeverLoaded`, `WorkerRunsSentVersion`, `ControllerKeepsLibraries` and `WorkerCachesAgree` follow.

**WorkPlanProofs.** `RepositoryInv`: time a worker was charged for lies before the start of what it works
on now (`Charged`), and only results of present allocations are outstanding (`InStep`). Both hold until a connection
ends without its worker, and no step goes back to a state before that; this gives `MeasuredTimeIsReal`. `PlanInv`: workers that may still be chosen have
records, chosen ones differ and are out of the set, shares are in the order of the choices; this gives
`PlannedWorkersAreRecorded` and `PreferredWorkersDiffer`. `SizesInv`, relative to these: no size is computed before
all metrics are summed, a total of zero is a sum of zeros, and each size comes from its metric and that
total. That a floor of fractions keeps their order, also where a share that is an
integer may be one too small, is `FloorMono`; `FasterWorkersGetMore` follows.
`CoverInv`, relative to these: at every round of the loops the sizes planned so far, with one individual
for each island, are at least the part of the population that the metrics of these islands are of the sum of all
(`CoveredByMetrics`, `PartialSums` holds the sums after each round), or, with equal shares, that their number
is of the number of islands (`CoveredEqually`). At the last round that part is the whole, and
`PlanCoversPopulation` follows. The sum over a sequence is defined by recursion; what it is
after one more island (`SumAppend`) follows when the recursion has exactly one solution, which is an invariant too
(`HasSum`): the induction is over the steps of the loop, not over the data. The set of connected workers is
shown to be finite, so that the number of islands is a number.

**ArchipelagoProofs.** `SplitInv`: every island has the base size or four more; this gives
`IslandSizesAreEven`. `PlacedInv`, relative to it: for the islands to come, their base sizes and the extra
individuals are enough for who is left (`Enough`), extra individuals are a multiple of 4 and at most four
for each island to come. It starts with `BaseSizeIsLarge` (base sizes and four more on each island hold
the population), and with the loop's end it gives that nobody is left. With `Complete`, `InRange` and
`InOrder`, `EveryIndividualIsPlaced` follows. This needs the population to be a multiple of 4, which
`PlannedSize` makes it. `ResultsInv`, relative to both: the islands merge to at least the individuals handed out
(`Merged`; as for the sum of the plan, that the merge has one value is part of the invariant, `HasFlatten`), so that there are
at least as many to select from as were sent and `resize()` never pads. `SortFacts`: the index at place
k of the sort has rank k - 1 when ranks are a permutation, because as many come before an individual as there
are smaller ranks (`SmallerRanks`, by a bijection). `BestIndividualsReturn` follows, for one objective and for several.

Only model-checked: `EveryCallReturns`, `LibraryRequestsReturn`, `WaitForWorkersReturns`, `CompletionReturns` and
`DestructorsReturn`: liveness and fairness are out of the prover's reach. The safety half of the first
(`NobodyGetsStuck`) and of `WaitForWorkersReturns` and `CompletionReturns` (`NobodyOversleeps`) is proved.

## 5. Findings

1. `cluster_drop`. Results are attributed by the worker's id alone. After a reconnection, or after
   the controller was started again, results of earlier work are read with no record for the worker
   or with the record of other work. With another record they go to the wrong island or
   call. With none, the repository charges the worker for the time since its last start (which the
   settings file does not keep: after a restart, since the clock's epoch, and the next save makes
   that permanent), then `.at()` throws, `catch (...)` ends the server thread, and all islands wait
   for ever; the comment there expects only an interrupt of the poller. The common cause:
   WORKER_JOIN puts the worker into the free pool while its thread still runs. New work that arrives
   before that thread ends terminates the worker's process.
2. `settings_mixed`. `_save_to_file()` has no lock, and main and server thread both save. The file
   can hold parts of two versions.
3. `solver_wait`. `wait_until_completion()` throws "no evolution is running" when the evolution
   is already over, and an island's error is then never seen.
4. `run_example_race`. `enable_logging()` is a member of an object whose constructor has started the server
   thread. It sets spdlog's default logger while that thread may be logging, which spdlog's comment on
   `get_default_raw()` rules out. The pointer is read without a lock: the C++ standard gives no outcome;
   with a pointer that is read whole the logger is alive all the same (`LoggerInUseIsAlive`), because nothing drops the old one.
5. `WorkTime.cfg`. `worker_finished_work()` charges the time since the worker's last start for any results, and
   the handler calls it before it looks for an allocation. After a broken connection the results of the
   work that was taken away and those of new work are both charged from the same start, and
   `workTime` ("Total time spent by the worker on running computations") exceeds the time there was.
   Plans made from it give that worker less.
6. `IslandMinimum.cfg`. "Round down ..., make sure to not go below min pop": the minimum is applied
   first and the result rounded down to a multiple of 4, so that a minimum that is none is undercut by up
   to 3. The default, 80, is one.
7. `RunExampleOptions.cfg`. `--disable-logging` cannot be used: `main()` registers "null_logger", the
   constructor of solver or worker registers it again, and spdlog throws. Nor can `--benchmark-so`
   together with `--benchmark-mo`: the first solver leaves its logger in the registry.

Behaviour worth knowing that the models contain and no run is about: a process that ends inside a
save leaves an incomplete settings file, and every later start fails (`Settings!StartFails`);
`get_best_individual()` during an evolution may pair x with the f of another generation
(`Solver!MergeX`, `MergeF`); an `evolve()` that throws keeps the hints for the next call, even if some islands
have begun to evolve with them (`Solver!StartFails`); an evolution without a worker, or whose server thread has ended, holds up
`wait_until_completion()` and the solver's destructor for ever; a report that was lost when its file was
closed goes unnoticed, and main returns 0 (`RunExample!TaskEnds`); a library file that is replaced while the controller runs can make the controller delete
it when results come back (`UdpRegistry!LoadResults`); an exception that leaves a worker or solver
whose logging was enabled is logged after spdlog was shut down, through a null pointer, and one that
leaves `client_loop()` while the worker's thread runs terminates the process before that
(`RunExample!Catch`, `DestroyWorkerMembers`); work that a worker cannot load ends its process without
a line in the log (`RunExample!WorkerThreadThrows`); one run of a benchmark that throws loses the
results of all (`RunExample!TaskEnds` is never reached).

Seen while modelling, and not in a model: `get_lib_file_hash()` uses the hash cache without the
registry's mutex, from all islands that save their work at once; `_load_lib()` registers a library
before it opens it, so that after a failed open every later attempt of the process finds a library
without a handle; `--workers` has no effect on benchmarks, which expect as many workers as there
are algorithms.

## 6. Not modelled

Formatting, CSV and HTML output, the values in benchmark reports, SHA-256, UUIDs and the example
problems: computations on values that no property tells apart. Serialisation (Boost) is a tag for
content. `pair_socket` is not used. Of spdlog, which the repository carries as source together with
fmt, only the registry and the logger's way to its sinks are modelled; the other 26 900 lines of
these two libraries are not this program's (whose own code is 6 100 lines). `lib_loader`'s symbol
lookup and the forwarding calls of `udp_dll_wrapper` change no state.

Exceptions of `vector_deserialize()` (a malformed message) and of the settings' file I/O inside the controller's
handlers are not in `Controller`: `ServerSurvives` is about the bookkeeping. They would end the server thread, a
state that `Solver` and `RunExample` have from any cause. In `UdpRegistry` the controller restarts only
when no work is outstanding, and the loads of work inside the controller's process
(`_allocate_worker_to_island()`, the island's own load of its results) are not told apart from `LoadResults`.

Data races on containers have no outcome a model could enumerate, so these steps are taken as
atomic: the copy of `_connectedWorkers` that `get_connected_workers()` hands out by reference, and
the hash cache in `get_lib_file_hash()`. The race on spdlog's default logger (finding 4) is one on a pointer, and is taken
to give the old value or the new one. Closing ZeroMQ sockets under a polling thread
(`~distributed_controller()`) is taken to do what the comment there expects. ExpectedWorkerCount is
taken to be positive; with 0 and no workers the plan divides by zero.

## 7. Plan

Every invariant, every action property and the refinement that the runs check have a theorem. What could follow:

1. the safety half of `DestructorsReturn`: whom a destructor waits for;
2. a restarted controller that tells results of earlier work apart: with a fix of finding 1, the theorems
   that hold until a connection breaks should hold without that condition.
