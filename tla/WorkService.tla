---------------------------- MODULE WorkService ----------------------------
(***************************************************************************)
(* What the controller and its workers together promise an island: every   *)
(* call of run_evolve() is answered at most once, after it was made, and   *)
(* with the results of exactly that call's population.  Nothing here knows *)
(* of workers, allocation or failures.                                     *)
(***************************************************************************)
EXTENDS Naturals

CONSTANTS Islands, MaxCycles

VARIABLES
    status,    \* of an island's current call
    cycle,     \* calls completed
    answer     \* whose population, of which call, the island holds

vars == <<status, cycle, answer>>

Nothing == <<>>

Init ==
    /\ status = [i \in Islands |-> "idle"]
    /\ cycle = [i \in Islands |-> 0]
    /\ answer = [i \in Islands |-> Nothing]

Request(i) ==
    /\ status[i] = "idle"
    /\ cycle[i] < MaxCycles
    /\ status' = [status EXCEPT ![i] = "requested"]
    /\ UNCHANGED <<cycle, answer>>

Answer(i) ==
    /\ status[i] = "requested"
    /\ status' = [status EXCEPT ![i] = "answered"]
    /\ UNCHANGED <<cycle, answer>>

Accept(i) ==
    /\ status[i] = "answered"
    /\ status' = [status EXCEPT ![i] = "idle"]
    /\ cycle' = [cycle EXCEPT ![i] = @ + 1]
    /\ answer' = [answer EXCEPT ![i] = <<i, cycle[i] + 1>>]

Next == \E i \in Islands : Request(i) \/ Answer(i) \/ Accept(i)

Spec == Init /\ [][Next]_vars
=============================================================================
