------------------------------- MODULE Solver -------------------------------
(***************************************************************************)
(* distributed_solver as its user sees it, while other threads run: the    *)
(* server thread that lets workers join and leave, and the threads in      *)
(* which pagmo's archipelago evolves its islands.  What happens between an *)
(* island and a worker is Cluster's matter; here an island makes its calls *)
(* of run_evolve() one after the other, each with a new population, until  *)
(* one throws.                                                             *)
(***************************************************************************)
EXTENDS Naturals, Sequences, FiniteSets

CONSTANTS
    Workers,
    ExpectedWorkerCount,   \* _expectedWorkerCount
    CycleCount,            \* cycleCount of evolve()
    MaxCalls               \* bound: calls the user makes

ASSUME SolverAssumption ==
    /\ ExpectedWorkerCount \in Nat \ {0}
    /\ CycleCount \in Nat \ {0}
    /\ MaxCalls \in Nat

VARIABLES
    connectedWorkers,  \* worker_info_repository::_connectedWorkers
    notifying,         \* the server thread is between unlock and notify_all()
    serverRuns,        \* the server thread has not ended
    user,              \* where the user's thread is
    islandCount,       \* evolve(): optimalIslandCount
    archipelago,       \* island -> calls yet to make, population, exception
    started,           \* the islands that archipelago::evolve() has started
    initialHints,      \* _initialHints: the call that set them, 0 for none
    allPopulations,    \* merge_populations(): generation of the x of each
    allFitnesses,      \* island, and of its f
    outcome,           \* of the last call of the user
    unwaited,          \* history: an evolution was started and not waited for
    usedHints,         \* history: hints of the evolutions that were started
    calls

repositoryVars == <<connectedWorkers, notifying, serverRuns>>
hintVars == <<initialHints, usedHints>>
evolutionVars == <<islandCount, archipelago, started, unwaited, hintVars>>
mergeVars == <<allPopulations, allFitnesses>>

vars == <<repositoryVars, user, evolutionVars, mergeVars, outcome, calls>>

Island == [left : 0..CycleCount, generation : 0..CycleCount, error : BOOLEAN,
           hints : 0..MaxCalls]

Init ==
    /\ connectedWorkers = {}
    /\ notifying = FALSE
    /\ serverRuns = TRUE
    /\ user = "ready"
    /\ islandCount = 0
    /\ archipelago = << >> /\ started = 0
    /\ allPopulations = << >>
    /\ allFitnesses = << >>
    /\ outcome = "none"
    /\ unwaited = FALSE
    /\ initialHints = 0 /\ usedHints = {}
    /\ calls = 0

-----------------------------------------------------------------------------
(***************************************************************************)
(* The server thread: worker_joined() and worker_left() change the set     *)
(* under the mutex and notify after it is released.  An exception of a     *)
(* handler ends the thread, and nobody notices (controller.cpp:247).       *)
(***************************************************************************)
\* Mutant: a join is not announced.
JoinSilently(w) ==
    /\ serverRuns /\ ~notifying
    /\ w \notin connectedWorkers
    /\ connectedWorkers' = connectedWorkers \cup {w}
    /\ UNCHANGED <<notifying, serverRuns, user, evolutionVars, mergeVars, outcome,
                   calls>>

worker_joined(w) ==
    /\ serverRuns /\ ~notifying
    /\ w \notin connectedWorkers
    /\ connectedWorkers' = connectedWorkers \cup {w}
    /\ notifying' = TRUE
    /\ UNCHANGED <<serverRuns, user, evolutionVars, mergeVars, outcome, calls>>

worker_left(w) ==
    /\ serverRuns /\ ~notifying
    /\ w \in connectedWorkers
    /\ connectedWorkers' = connectedWorkers \ {w}
    /\ notifying' = TRUE
    /\ UNCHANGED <<serverRuns, user, evolutionVars, mergeVars, outcome, calls>>

notify_all ==
    /\ notifying
    /\ notifying' = FALSE
    /\ user' = IF user = "asleep" THEN "check" ELSE user
    /\ UNCHANGED <<connectedWorkers, serverRuns, evolutionVars, mergeVars, outcome,
                   calls>>

ServerThreadEnds ==
    /\ serverRuns /\ ~notifying
    /\ serverRuns' = FALSE
    /\ UNCHANGED <<connectedWorkers, notifying, user, evolutionVars, mergeVars,
                   outcome, calls>>

-----------------------------------------------------------------------------
\* A call of the user begins.
Call(next) ==
    /\ user = "ready"
    /\ calls < MaxCalls
    /\ calls' = calls + 1
    /\ user' = next

\* ... and throws at once.
Throws(why) ==
    /\ Call("ready")
    /\ outcome' = why
    /\ UNCHANGED <<repositoryVars, evolutionVars, mergeVars>>

get_worker_count == Cardinality(connectedWorkers)

\* wait_until_workers_connect().
wait_until_workers_connect ==
    /\ Call("check")
    /\ outcome' = "none"
    /\ UNCHANGED <<repositoryVars, evolutionVars, mergeVars>>

\* wait_until_worker_count(): the predicate, under the mutex.
CheckWorkerCount ==
    /\ user = "check"
    /\ IF get_worker_count >= ExpectedWorkerCount
       THEN user' = "ready" /\ outcome' = "connected"
       ELSE user' = "asleep" /\ UNCHANGED outcome
    /\ UNCHANGED <<repositoryVars, evolutionVars, mergeVars, calls>>

-----------------------------------------------------------------------------
(***************************************************************************)
(* pagmo::archipelago (external): an island is busy while it has calls to  *)
(* make, and keeps an exception until wait_check() throws it.              *)
(***************************************************************************)
Busy == \E i \in 1..Len(archipelago) : archipelago[i].left > 0

run_evolve(i) ==
    /\ i <= Len(archipelago)
    /\ archipelago[i].left > 0
    /\ archipelago' = [archipelago EXCEPT ![i].left = @ - 1,
                                          ![i].generation = @ + 1]
    /\ UNCHANGED <<repositoryVars, user, islandCount, started, hintVars, mergeVars,
                   outcome, unwaited, calls>>

\* The algorithm or the problem lacks thread safety, or something that
\* run_evolve() calls throws.  The island keeps its population, and makes none
\* of the other calls of the same task.
run_evolve_throws(i) ==
    /\ i <= Len(archipelago)
    /\ archipelago[i].left > 0
    /\ archipelago' = [archipelago EXCEPT ![i].left = 0, ![i].error = TRUE]
    /\ UNCHANGED <<repositoryVars, user, islandCount, started, hintVars, mergeVars,
                   outcome, unwaited, calls>>

FirstError(archi) ==
    CHOOSE i \in 1..Len(archi) :
        archi[i].error /\ \A j \in 1..(i - 1) : ~archi[j].error

-----------------------------------------------------------------------------
OptimalIslandCount ==
    IF get_worker_count < ExpectedWorkerCount THEN ExpectedWorkerCount
                                              ELSE get_worker_count

evolve_throws == Busy /\ Throws("busy")

\* Mutant: no look at the status.
evolve_unchecked ==
    /\ Call("plan")
    /\ archipelago' = << >> /\ started' = 0
    /\ islandCount' = OptimalIslandCount
    /\ outcome' = "none"
    /\ UNCHANGED <<repositoryVars, mergeVars, unwaited, hintVars>>

\* evolve() up to the plan: a new archipelago, and the number of its islands.
evolve ==
    /\ Call("plan")
    /\ ~Busy
    /\ archipelago' = << >> /\ started' = 0
    /\ islandCount' = OptimalIslandCount
    /\ outcome' = "none"
    /\ UNCHANGED <<repositoryVars, mergeVars, unwaited, hintVars>>

\* An island that the plan asks for, with _set_island_hints().
NewIsland(cycles) ==
    [left |-> cycles, generation |-> 0, error |-> FALSE, hints |-> initialHints]

\* Mutant: the hints stay.
StartKeepsHints ==
    /\ user = "plan"
    /\ archipelago' = [i \in 1..islandCount |-> NewIsland(CycleCount)]
    /\ started' = islandCount
    /\ usedHints' = usedHints \cup ({initialHints} \ {0})
    /\ user' = "ready"
    /\ outcome' = "started"
    /\ unwaited' = TRUE
    /\ UNCHANGED <<repositoryVars, islandCount, initialHints, mergeVars, calls>>

\* The rest of it, once _generate_work_plan() has returned: the islands are
\* made, their threads started, and the hints cleared.
StartEvolution ==
    /\ user = "plan"
    /\ archipelago' = [i \in 1..islandCount |-> NewIsland(CycleCount)]
    /\ started' = islandCount
    /\ initialHints' = 0 /\ usedHints' = usedHints \cup ({initialHints} \ {0})
    /\ user' = "ready"
    /\ outcome' = "started"
    /\ unwaited' = TRUE
    /\ UNCHANGED <<repositoryVars, islandCount, mergeVars, calls>>

\* ... or the plan, an island's constructor, a set_x() of a hint or
\* archipelago::evolve() throws: some islands are made, some of them evolve if
\* all were made, and the hints stay as they are.
StartFails ==
    /\ user = "plan"
    /\ \E made, running \in 0..islandCount :
         /\ running < islandCount
         /\ running > 0 => made = islandCount
         /\ archipelago' = [i \in 1..made |->
                              NewIsland(IF i <= running THEN CycleCount ELSE 0)]
         /\ started' = running
    /\ user' = "ready"
    /\ outcome' = "evolve error"
    /\ unwaited' = FALSE
    /\ UNCHANGED <<repositoryVars, islandCount, hintVars, mergeVars, calls>>

set_initial_hints ==
    /\ Call("ready")
    /\ initialHints' = calls + 1
    /\ outcome' = "hints"
    /\ UNCHANGED <<repositoryVars, islandCount, archipelago, started, unwaited,
                   usedHints, mergeVars>>

wait_throws == ~Busy /\ Throws("no evolution")

wait_until_completion ==
    /\ Call("wait")
    /\ Busy
    /\ outcome' = "waited"
    /\ UNCHANGED <<repositoryVars, evolutionVars, mergeVars>>

\* Mutant: the wait does not wait.
WaitUnchecked ==
    /\ user = "wait"
    /\ user' = "merge"
    /\ allPopulations' = << >> /\ allFitnesses' = << >>
    /\ unwaited' = FALSE
    /\ UNCHANGED <<repositoryVars, archipelago, started, islandCount, hintVars,
                   outcome, calls>>

\* Mutant: an exception is not thrown, and holds up the wait.
WaitForSuccess ==
    /\ user = "wait"
    /\ \A i \in 1..Len(archipelago) :
         archipelago[i].left = 0 /\ ~archipelago[i].error
    /\ user' = "merge"
    /\ allPopulations' = << >> /\ allFitnesses' = << >>
    /\ unwaited' = FALSE
    /\ UNCHANGED <<repositoryVars, archipelago, started, islandCount, hintVars,
                   outcome, calls>>

\* wait_check() returns, or throws the first exception.
WaitChecked ==
    /\ user = "wait"
    /\ ~Busy
    /\ unwaited' = FALSE
    /\ IF \E i \in 1..Len(archipelago) : archipelago[i].error
       THEN /\ archipelago' =
                 [archipelago EXCEPT ![FirstError(archipelago)].error = FALSE]
            /\ user' = "ready" /\ outcome' = "island error"
            /\ UNCHANGED mergeVars
       ELSE /\ user' = "merge"
            /\ allPopulations' = << >> /\ allFitnesses' = << >>
            /\ UNCHANGED <<archipelago, outcome>>
    /\ UNCHANGED <<repositoryVars, islandCount, started, hintVars, calls>>

\* get_best_N_individuals(), called at any time.
get_best_individual ==
    /\ Call("merge")
    /\ archipelago # << >>
    /\ outcome' = "best"
    /\ allPopulations' = << >> /\ allFitnesses' = << >>
    /\ UNCHANGED <<repositoryVars, evolutionVars>>

\* merge_populations(): get_population() once for x and once for f.
MergeX ==
    /\ user = "merge"
    /\ Len(allPopulations) = Len(allFitnesses)
    /\ Len(allPopulations) < Len(archipelago)
    /\ allPopulations' = Append(allPopulations,
                           archipelago[Len(allPopulations) + 1].generation)
    /\ UNCHANGED <<repositoryVars, user, evolutionVars, allFitnesses, outcome,
                   calls>>

MergeF ==
    /\ user = "merge"
    /\ Len(allPopulations) > Len(allFitnesses)
    /\ allFitnesses' = Append(allFitnesses,
                         archipelago[Len(allPopulations)].generation)
    /\ user' = IF Len(allPopulations) = Len(archipelago) THEN "ready" ELSE user
    /\ UNCHANGED <<repositoryVars, evolutionVars, allPopulations, outcome, calls>>

-----------------------------------------------------------------------------
ServerThread ==
    \/ notify_all \/ ServerThreadEnds
    \/ \E w \in Workers : worker_joined(w) \/ worker_left(w)

UserCalls == \/ wait_until_workers_connect \/ set_initial_hints
             \/ evolve \/ evolve_throws
             \/ wait_until_completion \/ wait_throws \/ get_best_individual

UserRuns == \/ CheckWorkerCount \/ StartEvolution \/ StartFails
            \/ WaitChecked \/ MergeX \/ MergeF

\* evolve() makes no more islands than workers or ExpectedWorkerCount.
MaxIslands == Cardinality(Workers) + ExpectedWorkerCount

Next ==
    \/ ServerThread \/ UserCalls \/ UserRuns
    \/ \E i \in 1..MaxIslands : run_evolve(i) \/ run_evolve_throws(i)

Spec == Init /\ [][Next]_vars

\* Somebody does the work: a worker is connected, and the server thread passes
\* messages on.
Served(w) == serverRuns /\ w \in connectedWorkers

(***************************************************************************)
(* The user's thread runs when it can, and notify_all() follows the        *)
(* unlock.  A call of run_evolve() waits for its results without a timeout *)
(* (island.cpp:120): it is sure to end only while a worker stays connected *)
(* and the server thread lives (Cluster: EveryCallReturns).  Nobody        *)
(* promises that workers join, or that they stay.                          *)
(***************************************************************************)
FairSpec ==
    /\ Spec
    /\ WF_vars(UserRuns)
    /\ WF_vars(notify_all)
    /\ \A i \in 1..MaxIslands, w \in Workers :
         WF_vars(Served(w) /\ (run_evolve(i) \/ run_evolve_throws(i)))

-----------------------------------------------------------------------------
EnoughWorkers == get_worker_count >= ExpectedWorkerCount

\* No wake-up is lost between the predicate, the mutex and notify_all(): when
\* enough workers stay connected, wait_until_workers_connect() returns.
WaitForWorkersReturns ==
    <>[]EnoughWorkers => (user = "check" ~> user = "ready")

\* If some worker stays connected to a server thread that lives, a call that
\* waits for an evolution returns, with a result or an error, whichever islands
\* throw and also when archipelago::evolve() started only some of them.  Without
\* such a worker the code may wait for ever.
CompletionReturns ==
    (\E w \in Workers : <>[]Served(w)) => (user = "wait" ~> user = "ready")

\* "This will prevent interrupting the archipelago if it's already evolving":
\* no island loses a call of run_evolve() it has yet to make, unless one of its
\* own calls has thrown.
NothingInterrupted ==
    [][Busy => /\ Len(archipelago') = Len(archipelago)
               /\ \A i \in 1..Len(archipelago) :
                    \/ archipelago'[i].left + 1 >= archipelago[i].left
                    \/ archipelago'[i].error]_vars

\* The calls of run_evolve() that island i was started with.
CyclesOf(i) == IF i <= started THEN CycleCount ELSE 0

\* What wait_until_completion() picks the best individual from is the final
\* population of every island, each with its own fitness: all cycles are done
\* on every island that was started.  The others, where archipelago::evolve()
\* threw half-way, count with the population they were made with.
WaitedResultsAreFinal ==
    user = "ready" /\ outcome = "waited" =>
      /\ Len(allPopulations) = Len(archipelago)
      /\ \A i \in 1..Len(archipelago) :
           /\ allPopulations[i] = archipelago[i].generation
           /\ allFitnesses[i] = archipelago[i].generation
           /\ archipelago[i].generation = CyclesOf(i)

\* Hints are good for one evolution that evolve() started without an exception
\* ("so they're not re-used next time"): whatever calls are refused, throw or
\* come in between, all its islands are made with the same hints, and no later
\* one sees these again.  An evolve() that throws does not clear the hints: the
\* next call uses them, also if some islands had begun to evolve with them.
HintsAreUsedOnce ==
    [][user = "plan" /\ user' = "ready" /\ outcome' = "started" =>
         \A i \in 1..Len(archipelago') :
            /\ archipelago'[i].hints = archipelago'[1].hints
            /\ archipelago'[i].hints \notin usedHints]_vars

\* README: evolve(), then wait_until_completion() "for completion": the wait
\* for an evolution that was started does not throw that there is none.
WaitFindsEvolution == outcome = "no evolution" => ~unwaited
=============================================================================
