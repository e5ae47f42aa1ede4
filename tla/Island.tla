------------------------------- MODULE Island -------------------------------
(***************************************************************************)
(* distributed_island: run_evolve() sends the island's population to the   *)
(* controller and blocks until its results come back.  The archipelago     *)
(* calls it once per cycle, with the hints the solver has set.             *)
(***************************************************************************)
EXTENDS Network

VARIABLES
    evolving,     \* is run_evolve() blocked in receive()
    cycle,        \* completed calls of run_evolve()
    population    \* what set_population() was last given

islandVars == <<evolving, cycle, population>>

IslandTypeOK ==
    /\ evolving \in [Islands -> BOOLEAN]
    /\ cycle \in [Islands -> 0..MaxCycles]
    /\ population \in [Islands -> Work \cup {NoWork}]

IslandInit ==
    /\ evolving = [i \in Islands |-> FALSE]
    /\ cycle = [i \in Islands |-> 0]
    /\ population = [i \in Islands |-> NoWork]

\* run_evolve() up to its receive().
SendWork(i) ==
    /\ ~evolving[i]
    /\ cycle[i] < MaxCycles
    /\ evolving' = [evolving EXCEPT ![i] = TRUE]
    /\ \E p \in Workers \cup {NoWorker} :
         islandsSocket' = [islandsSocket EXCEPT ![i] =
            Append(@, [island |-> i, cycle |-> cycle[i] + 1,
                       preferredWorkerId |-> p])]
    /\ UNCHANGED <<cycle, population, workersSocket, workerSocket,
                   workerUnsent, dealerSocket, linkUp>>

\* run_evolve() from receive() on.
ReceiveResults(i) ==
    /\ evolving[i]
    /\ dealerSocket[i] # << >>
    /\ population' = [population EXCEPT ![i] = Head(dealerSocket[i])]
    /\ dealerSocket' = [dealerSocket EXCEPT ![i] = Tail(@)]
    /\ evolving' = [evolving EXCEPT ![i] = FALSE]
    /\ cycle' = [cycle EXCEPT ![i] = @ + 1]
    /\ UNCHANGED <<workersSocket, islandsSocket, workerSocket, workerUnsent,
                   linkUp>>

\* New islands in a new process.  A call that died with the old one counts as
\* made, so that its work is told apart from what the new islands send.
RestartIslands ==
    /\ evolving' = [i \in Islands |-> FALSE]
    /\ cycle' = [i \in Islands |-> cycle[i] + IF evolving[i] THEN 1 ELSE 0]
    /\ population' = [i \in Islands |-> NoWork]
=============================================================================
