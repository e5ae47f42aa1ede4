---------------------------- MODULE SolverProofs ----------------------------
(***************************************************************************)
(* What distributed_solver promises its user, for any number of workers,   *)
(* cycles and calls, whatever joins, leaves and throws.                    *)
(***************************************************************************)
EXTENDS Solver, FiniteSetTheorems, SequenceTheorems, TLAPS

-----------------------------------------------------------------------------
(***************************************************************************)
(* The inductive invariant.                                                *)
(***************************************************************************)
IslandState == [left : Nat, generation : Nat, error : BOOLEAN, hints : Nat]

SolverTypes ==
    /\ IsFiniteSet(connectedWorkers)
    /\ islandCount \in Nat /\ started \in Nat /\ calls \in Nat
    /\ archipelago \in Seq(IslandState)
    /\ allPopulations \in Seq(Nat) /\ allFitnesses \in Seq(Nat)

\* Every call of run_evolve() that an island was started with is made or yet to
\* make, unless one has thrown.
Accounted ==
    \A i \in 1..Len(archipelago) :
       \/ archipelago[i].error
       \/ archipelago[i].left + archipelago[i].generation = CyclesOf(i)

\* That holds until the evolution has ended and somebody has waited for it; an
\* island whose exception was thrown to the user is never busy again.  The
\* archipelago is empty while the plan is made.
Evolving ==
    /\ Busy \/ user = "wait" => Accounted
    /\ user = "plan" => archipelago = << >>

\* Every island is done, with all of its cycles.
AllFinal ==
    \A i \in 1..Len(archipelago) :
        archipelago[i].left = 0 /\ archipelago[i].generation = CyclesOf(i)

\* Where merge_populations() is, and what it has after a wait.
Merging ==
    /\ user = "merge" =>
         /\ Len(allFitnesses) <= Len(allPopulations)
         /\ Len(allPopulations) <= Len(allFitnesses) + 1
         /\ Len(allPopulations) <= Len(archipelago)
    /\ outcome = "waited" => user \in {"wait", "merge", "ready"}
    /\ outcome = "waited" /\ user # "wait" =>
         /\ AllFinal
         /\ \A i \in 1..Len(allPopulations) : allPopulations[i] = CyclesOf(i)
         /\ \A i \in 1..Len(allFitnesses) : allFitnesses[i] = CyclesOf(i)
    /\ outcome = "waited" /\ user = "ready" =>
         /\ Len(allPopulations) = Len(archipelago)
         /\ Len(allFitnesses) = Len(archipelago)

\* Hints bear the number of the call that set them; the present ones are new.
Hints ==
    /\ initialHints \in 0..calls
    /\ usedHints \subseteq 1..calls
    /\ initialHints \notin usedHints

SolverInv == SolverTypes /\ Evolving /\ Merging /\ Hints

-----------------------------------------------------------------------------
\* What the steps use of the archipelago's type.
LEMMA IslandTypes ==
    ASSUME SolverTypes
    PROVE  /\ Len(archipelago) \in Nat
           /\ archipelago \in [1..Len(archipelago) -> IslandState]
           /\ \A i \in 1..Len(archipelago) :
                /\ archipelago[i] \in IslandState
                /\ archipelago[i].left \in Nat /\ archipelago[i].generation \in Nat
<1>1. /\ Len(archipelago) \in Nat
      /\ archipelago \in [1..Len(archipelago) -> IslandState]
  <2>1. archipelago \in Seq(IslandState)
    BY DEF SolverTypes
  <2> QED
    BY <2>1
<1>2. ASSUME NEW i \in 1..Len(archipelago)
      PROVE  /\ archipelago[i] \in IslandState
             /\ archipelago[i].left \in Nat /\ archipelago[i].generation \in Nat
  <2>1. archipelago[i] \in IslandState
    BY <1>1
  <2>2. \A r \in IslandState : r.left \in Nat /\ r.generation \in Nat
    BY DEF IslandState
  <2> QED
    BY <2>1, <2>2
<1> QED
  BY <1>1, <1>2

\* The server thread changes the set of workers, and wakes the user.
LEMMA ServerThreadInv ==
    ASSUME SolverInv, ServerThread
    PROVE  SolverInv'
<1>1. /\ UNCHANGED <<islandCount, archipelago, started, initialHints, usedHints,
                     allPopulations, allFitnesses, outcome, calls>>
      /\ user' = user \/ (user = "asleep" /\ user' = "check")
  BY DEF ServerThread, notify_all, ServerThreadEnds, worker_joined, worker_left,
         evolutionVars, hintVars, mergeVars
<1>2. IsFiniteSet(connectedWorkers')
  <2>1. CASE notify_all \/ ServerThreadEnds
    BY <2>1 DEF notify_all, ServerThreadEnds, SolverInv, SolverTypes
  <2>2. ASSUME NEW w \in Workers, worker_joined(w) \/ worker_left(w)
        PROVE  IsFiniteSet(connectedWorkers')
    <3>1. IsFiniteSet(connectedWorkers)
      BY DEF SolverInv, SolverTypes
    <3>2. IsFiniteSet(connectedWorkers \cup {w}) /\ IsFiniteSet(connectedWorkers \ {w})
      BY <3>1, FS_AddElement, FS_RemoveElement
    <3> QED
      BY <2>2, <3>2 DEF worker_joined, worker_left
  <2> QED
    BY <2>1, <2>2 DEF ServerThread
<1>3. SolverTypes'
  BY <1>1, <1>2 DEF SolverInv, SolverTypes
<1>4. Evolving'
  BY <1>1 DEF SolverInv, Evolving, Accounted, Busy, CyclesOf
<1>5. Merging'
  BY <1>1 DEF SolverInv, Merging, AllFinal, CyclesOf
<1>6. Hints'
  BY <1>1 DEF SolverInv, Hints
<1> QED
  BY <1>3, <1>4, <1>5, <1>6 DEF SolverInv

\* Calls that leave the archipelago alone: the ones that are refused at once, the
\* wait for workers, and the beginning of a wait for completion.
LEMMA OtherCallsInv ==
    ASSUME SolverInv,
           \/ evolve_throws \/ wait_throws \/ wait_until_workers_connect
           \/ CheckWorkerCount \/ wait_until_completion
    PROVE  SolverInv'
<1>1. /\ UNCHANGED <<connectedWorkers, islandCount, archipelago, started,
                     initialHints, usedHints, allPopulations, allFitnesses>>
      /\ calls' \in {calls, calls + 1}
  BY DEF evolve_throws, wait_throws, wait_until_workers_connect, CheckWorkerCount,
         wait_until_completion, Throws, Call, repositoryVars, evolutionVars, hintVars,
         mergeVars
<1>2. \/ user' \in {"ready", "check"} /\ outcome' # "waited"
      \/ user = "check" /\ user' = "asleep" /\ outcome' = outcome
      \/ user' = "wait" /\ Busy
  BY DEF evolve_throws, wait_throws, wait_until_workers_connect, CheckWorkerCount,
         wait_until_completion, Throws, Call
<1>3. SolverTypes'
  BY <1>1 DEF SolverInv, SolverTypes
<1>4. Evolving'
  BY <1>1, <1>2 DEF SolverInv, Evolving, Accounted, Busy, CyclesOf
<1>5. Merging'
  BY <1>1, <1>2 DEF SolverInv, Merging, AllFinal, CyclesOf
<1>6. Hints'
  BY <1>1 DEF SolverInv, SolverTypes, Hints
<1> QED
  BY <1>3, <1>4, <1>5, <1>6 DEF SolverInv

LEMMA SetHintsInv ==
    ASSUME SolverInv, set_initial_hints
    PROVE  SolverInv'
<1>1. /\ UNCHANGED <<connectedWorkers, islandCount, archipelago, started, usedHints,
                     allPopulations, allFitnesses>>
      /\ calls' = calls + 1 /\ initialHints' = calls + 1
      /\ user' = "ready" /\ outcome' = "hints"
  BY DEF set_initial_hints, Call, repositoryVars, mergeVars
<1>2. calls \in Nat
  BY DEF SolverInv, SolverTypes
<1>3. SolverTypes'
  BY <1>1 DEF SolverInv, SolverTypes
<1>4. Evolving' /\ Merging'
  BY <1>1 DEF SolverInv, Evolving, Accounted, Busy, CyclesOf, Merging
<1>5. Hints'
  BY <1>1, <1>2 DEF SolverInv, Hints
<1> QED
  BY <1>3, <1>4, <1>5 DEF SolverInv

\* evolve() up to the plan.
LEMMA EvolveInv ==
    ASSUME SolverInv, evolve
    PROVE  SolverInv'
<1>1. /\ UNCHANGED <<connectedWorkers, initialHints, usedHints,
                     allPopulations, allFitnesses>>
      /\ archipelago' = << >> /\ started' = 0 /\ islandCount' = OptimalIslandCount
      /\ calls' = calls + 1 /\ user' = "plan" /\ outcome' = "none"
  BY DEF evolve, Call, repositoryVars, mergeVars, hintVars
<1>2. OptimalIslandCount \in Nat
  BY FS_CardinalityType, SolverAssumption
  DEF SolverInv, SolverTypes, OptimalIslandCount, get_worker_count
<1>3. archipelago' \in Seq(IslandState) /\ Len(archipelago') = 0
  BY <1>1
<1>4. SolverTypes'
  BY <1>1, <1>2, <1>3 DEF SolverInv, SolverTypes
<1>5. Evolving'
  BY <1>1, <1>3 DEF Evolving, Accounted, Busy, CyclesOf
<1>6. Merging'
  BY <1>1 DEF Merging
<1>7. Hints'
  BY <1>1 DEF SolverInv, SolverTypes, Hints
<1> QED
  BY <1>4, <1>5, <1>6, <1>7 DEF SolverInv

\* A new island, whether or not it gets cycles to make.
LEMMA NewIslandType ==
    ASSUME SolverInv, NEW c \in {0, CycleCount}
    PROVE  /\ NewIsland(c) \in IslandState
           /\ NewIsland(c).left = c /\ NewIsland(c).generation = 0
           /\ NewIsland(c).left + NewIsland(c).generation = c
           /\ NewIsland(c).hints = initialHints
BY SolverAssumption DEF NewIsland, IslandState, SolverInv, SolverTypes, Hints

\* The islands that evolve() makes, and the ones it starts, whether it returns or
\* throws.
LEMMA NewArchipelago ==
    ASSUME SolverInv, StartEvolution \/ StartFails
    PROVE  /\ archipelago' \in Seq(IslandState) /\ Len(archipelago') <= islandCount
           /\ started' \in 0..islandCount
           /\ \A i \in 1..Len(archipelago') : archipelago'[i] = NewIsland(CyclesOf(i)')
<1>1. PICK made \in 0..islandCount :
        /\ archipelago' = [i \in 1..made |->
                             NewIsland(IF i <= started' THEN CycleCount ELSE 0)]
        /\ started' \in 0..islandCount
  <2>0. islandCount \in Nat
    BY DEF SolverInv, SolverTypes
  <2>1. CASE StartEvolution
    <3>1. /\ archipelago' = [i \in 1..islandCount |-> NewIsland(CycleCount)]
          /\ started' = islandCount
      BY <2>1 DEF StartEvolution
    <3>2. \A i \in 1..islandCount : i <= started'
      BY <2>0, <3>1
    <3>3. archipelago' = [i \in 1..islandCount |->
                           NewIsland(IF i <= started' THEN CycleCount ELSE 0)]
      BY <3>1, <3>2 DEF NewIsland
    <3> QED
      BY <2>0, <3>1, <3>3
  <2>2. CASE StartFails
    BY <2>2 DEF StartFails
  <2> QED
    BY <2>1, <2>2
<1>2. made \in Nat /\ islandCount \in Nat /\ made <= islandCount
  BY DEF SolverInv, SolverTypes
<1>3. \A i \in 1..made :
        NewIsland(IF i <= started' THEN CycleCount ELSE 0) \in IslandState
  BY NewIslandType
<1> HIDE DEF NewIsland
<1>4. archipelago' \in [1..made -> IslandState]
  BY <1>1, <1>3
<1>5. Len(archipelago') = made /\ archipelago' \in Seq(IslandState)
  BY <1>2, <1>4
<1> QED
  BY <1>1, <1>2, <1>5 DEF CyclesOf

\* evolve() returns, or throws on the way and leaves what it had made so far.
LEMMA StartInv ==
    ASSUME SolverInv, StartEvolution \/ StartFails
    PROVE  SolverInv'
<1>1. /\ UNCHANGED <<connectedWorkers, islandCount, allPopulations, allFitnesses, calls>>
      /\ \/ initialHints' = 0 /\ usedHints' = usedHints \cup ({initialHints} \ {0})
         \/ UNCHANGED <<initialHints, usedHints>>
      /\ user' = "ready" /\ outcome' \in {"started", "evolve error"}
  BY DEF StartEvolution, StartFails, repositoryVars, hintVars, mergeVars
<1>2. SolverTypes'
  <2>1. archipelago' \in Seq(IslandState) /\ started' \in Nat
    BY NewArchipelago
  <2> QED
    BY <1>1, <2>1 DEF SolverInv, SolverTypes
<1>3. ASSUME NEW i \in 1..Len(archipelago')
      PROVE  archipelago'[i].left + archipelago'[i].generation = CyclesOf(i)'
  <2>1. archipelago'[i] = NewIsland(CyclesOf(i)')
    BY NewArchipelago
  <2>2. CyclesOf(i)' \in {0, CycleCount}
    BY DEF CyclesOf
  <2> QED
    BY <2>1, <2>2, NewIslandType
<1>4. Evolving'
  BY <1>1, <1>3 DEF Evolving, Accounted
<1>5. Merging'
  BY <1>1 DEF Merging
<1>6. Hints'
  <2>1. CASE initialHints' = 0 /\ usedHints' = usedHints \cup ({initialHints} \ {0})
    <3>1. /\ calls \in Nat /\ initialHints \in 0..calls
          /\ usedHints \subseteq 1..calls
      BY DEF SolverInv, SolverTypes, Hints
    <3>2. usedHints' \subseteq 1..calls
      BY <2>1, <3>1
    <3>3. 0 \in 0..calls /\ 0 \notin 1..calls
      BY <3>1
    <3> QED
      BY <1>1, <2>1, <3>2, <3>3 DEF Hints
  <2>2. CASE UNCHANGED <<initialHints, usedHints>>
    BY <1>1, <2>2 DEF SolverInv, Hints
  <2> QED
    BY <1>1, <2>1, <2>2
<1> QED
  BY <1>2, <1>4, <1>5, <1>6 DEF SolverInv

\* wait_check() returns, or throws the first exception.
LEMMA WaitCheckedInv ==
    ASSUME SolverInv, WaitChecked
    PROVE  SolverInv'
<1>1. /\ UNCHANGED <<connectedWorkers, islandCount, started, initialHints, usedHints,
                     calls>>
      /\ user = "wait" /\ ~Busy /\ Accounted
  BY DEF WaitChecked, repositoryVars, hintVars, SolverInv, Evolving
<1>2. archipelago \in Seq(IslandState) /\ Len(archipelago) \in Nat
  BY DEF SolverInv, SolverTypes
<1>3. \A i \in 1..Len(archipelago) : archipelago[i].left = 0
  BY <1>1, IslandTypes DEF SolverInv, Busy
<1>4. Hints'
  BY <1>1 DEF SolverInv, Hints
<1>5. CASE \E i \in 1..Len(archipelago) : archipelago[i].error
  <2>1. /\ archipelago' = [archipelago EXCEPT ![FirstError(archipelago)].error = FALSE]
        /\ user' = "ready" /\ outcome' = "island error"
        /\ UNCHANGED <<allPopulations, allFitnesses>>
    BY <1>5 DEF WaitChecked, mergeVars
  <2>2. /\ archipelago' \in Seq(IslandState) /\ Len(archipelago') = Len(archipelago)
        /\ \A i \in 1..Len(archipelago) : archipelago'[i].left = archipelago[i].left
    <3> DEFINE k == FirstError(archipelago)
    <3> HIDE DEF k
    <3>0. archipelago \in [1..Len(archipelago) -> IslandState]
      BY IslandTypes DEF SolverInv
    <3>1. archipelago' = [archipelago EXCEPT ![k].error = FALSE]
      BY <2>1 DEF k
    <3>2. ASSUME NEW i \in 1..Len(archipelago)
          PROVE  /\ archipelago[i] \in IslandState
                 /\ archipelago'[i] \in IslandState
                 /\ archipelago'[i].left = archipelago[i].left
      <4>1. archipelago[i] \in IslandState
        BY <1>2
      <4>2. CASE i = k
        <5>1. archipelago'[i] = [archipelago[i] EXCEPT !.error = FALSE]
          BY <3>0, <3>1, <4>2
        <5> QED
          BY <4>1, <5>1 DEF IslandState
      <4>3. CASE i # k
        <5>1. archipelago'[i] = archipelago[i]
          BY <3>0, <3>1, <4>3
        <5> QED
          BY <4>1, <5>1
      <4> QED
        BY <4>2, <4>3
    <3>3. archipelago' = [i \in 1..Len(archipelago) |-> archipelago'[i]]
      BY <3>0, <3>1
    <3>4. archipelago' \in [1..Len(archipelago) -> IslandState]
      BY <3>2, <3>3
    <3> QED
      BY <1>2, <3>2, <3>4
  <2>3. SolverTypes'
    BY <1>1, <2>1, <2>2 DEF SolverInv, SolverTypes
  <2>4. ~Busy'
    BY <1>2, <1>3, <2>2 DEF Busy
  <2>5. Evolving' /\ Merging'
    BY <1>1, <2>1, <2>4 DEF Evolving, Merging
  <2> QED
    BY <1>4, <2>3, <2>5 DEF SolverInv
<1>6. CASE ~\E i \in 1..Len(archipelago) : archipelago[i].error
  <2>1. /\ archipelago' = archipelago /\ user' = "merge" /\ outcome' = outcome
        /\ allPopulations' = << >> /\ allFitnesses' = << >>
    BY <1>6 DEF WaitChecked
  <2>2. AllFinal
    <3> SUFFICES ASSUME NEW i \in 1..Len(archipelago)
                 PROVE  archipelago[i].left = 0 /\ archipelago[i].generation = CyclesOf(i)
      BY DEF AllFinal
    <3>1. archipelago[i].left = 0 /\ archipelago[i].generation \in Nat
      BY <1>3, IslandTypes DEF SolverInv
    <3>2. archipelago[i].left + archipelago[i].generation = CyclesOf(i)
      BY <1>1, <1>6 DEF Accounted
    <3> QED
      BY <3>1, <3>2
  <2>3. /\ allPopulations' \in Seq(Nat) /\ allFitnesses' \in Seq(Nat)
        /\ Len(allPopulations') = 0 /\ Len(allFitnesses') = 0
    BY <2>1
  <2>4. SolverTypes'
    BY <1>1, <2>1, <2>3 DEF SolverInv, SolverTypes
  <2>5. Evolving'
    BY <1>1, <2>1 DEF Evolving, Accounted, Busy, CyclesOf
  <2>6. Merging'
    BY <1>1, <1>2, <2>1, <2>2, <2>3 DEF Merging, AllFinal, CyclesOf
  <2> QED
    BY <1>4, <2>4, <2>5, <2>6 DEF SolverInv
<1> QED
  BY <1>5, <1>6

\* get_best_N_individuals() at any time, and the loop of merge_populations().
LEMMA MergeInv ==
    ASSUME SolverInv, get_best_individual \/ MergeX \/ MergeF
    PROVE  SolverInv'
<1>1. /\ UNCHANGED <<connectedWorkers, islandCount, archipelago, started,
                     initialHints, usedHints>>
      /\ calls' \in {calls, calls + 1} /\ user' \in {"merge", "ready"}
  BY DEF get_best_individual, MergeX, MergeF, Call, repositoryVars, evolutionVars,
         hintVars
<1>2. /\ archipelago \in Seq(IslandState) /\ Len(archipelago) \in Nat
      /\ allPopulations \in Seq(Nat) /\ Len(allPopulations) \in Nat
      /\ allFitnesses \in Seq(Nat) /\ Len(allFitnesses) \in Nat
  BY DEF SolverInv, SolverTypes
<1>3. Evolving' /\ Hints'
  BY <1>1 DEF SolverInv, SolverTypes, Evolving, Accounted, Busy, CyclesOf, Hints
<1>4. \A i \in 1..Len(archipelago) : archipelago[i].generation \in Nat
  BY IslandTypes DEF SolverInv
<1>5. CASE get_best_individual
  <2>1. /\ user' = "merge" /\ outcome' = "best"
        /\ allPopulations' = << >> /\ allFitnesses' = << >>
    BY <1>5 DEF get_best_individual, Call
  <2>2. /\ allPopulations' \in Seq(Nat) /\ allFitnesses' \in Seq(Nat)
        /\ Len(allPopulations') = 0 /\ Len(allFitnesses') = 0
    BY <2>1
  <2>3. SolverTypes'
    BY <1>1, <2>2 DEF SolverInv, SolverTypes
  <2>4. Merging'
    BY <1>1, <1>2, <2>1, <2>2 DEF Merging
  <2> QED
    BY <1>3, <2>3, <2>4 DEF SolverInv
<1>6. CASE MergeX
  <2> DEFINE n == Len(allPopulations) + 1
             g == archipelago[n].generation
  <2>1. /\ user = "merge" /\ user' = "merge" /\ outcome' = outcome
        /\ allFitnesses' = allFitnesses /\ allPopulations' = Append(allPopulations, g)
        /\ Len(allPopulations) = Len(allFitnesses)
        /\ n \in 1..Len(archipelago)
    BY <1>2, <1>6 DEF MergeX
  <2>2. g \in Nat
    BY <1>4, <2>1
  <2>3. outcome = "waited" => g = CyclesOf(n)
    BY <2>1 DEF SolverInv, Merging, AllFinal, CyclesOf
  <2> HIDE DEF g
  <2>4. /\ allPopulations' \in Seq(Nat) /\ Len(allPopulations') = n
        /\ \A i \in 1..Len(allPopulations) : allPopulations'[i] = allPopulations[i]
        /\ allPopulations'[n] = g
    BY <1>2, <2>1, <2>2, AppendProperties
  <2>5. SolverTypes'
    BY <1>1, <2>1, <2>4 DEF SolverInv, SolverTypes
  <2>6. ASSUME outcome = "waited"
        PROVE  /\ AllFinal'
               /\ \A i \in 1..Len(allPopulations') : allPopulations'[i] = CyclesOf(i)'
               /\ \A i \in 1..Len(allFitnesses') : allFitnesses'[i] = CyclesOf(i)'
    <3>1. /\ AllFinal /\ \A i \in 1..Len(allPopulations) : allPopulations[i] = CyclesOf(i)
          /\ \A i \in 1..Len(allFitnesses) : allFitnesses[i] = CyclesOf(i)
      BY <2>1, <2>6 DEF SolverInv, Merging
    <3>2. ASSUME NEW i \in 1..n PROVE allPopulations'[i] = CyclesOf(i)'
      <4>1. i \in 1..Len(allPopulations) \/ i = n
        BY <1>2
      <4> QED
        BY <1>1, <2>3, <2>4, <2>6, <3>1, <4>1 DEF CyclesOf
    <3> QED
      BY <1>1, <2>1, <2>4, <3>1, <3>2 DEF AllFinal, CyclesOf
  <2>7. Merging'
    BY <1>1, <1>2, <2>1, <2>4, <2>6 DEF Merging
  <2> QED
    BY <1>3, <2>5, <2>7 DEF SolverInv
<1>7. CASE MergeF
  <2> DEFINE n == Len(allFitnesses) + 1
             g == archipelago[Len(allPopulations)].generation
  <2>1. /\ user = "merge" /\ outcome' = outcome /\ allPopulations' = allPopulations
        /\ allFitnesses' = Append(allFitnesses, g)
        /\ Len(allPopulations) > Len(allFitnesses)
        /\ user' = IF Len(allPopulations) = Len(archipelago) THEN "ready" ELSE user
    BY <1>7 DEF MergeF
  <2>2. Len(allPopulations) = n /\ n \in 1..Len(archipelago)
    BY <1>2, <2>1 DEF SolverInv, Merging
  <2>3. g \in Nat
    BY <1>4, <2>2
  <2>4. outcome = "waited" => g = CyclesOf(n)
    BY <2>1, <2>2 DEF SolverInv, Merging, AllFinal, CyclesOf
  <2> HIDE DEF g
  <2>5. /\ allFitnesses' \in Seq(Nat) /\ Len(allFitnesses') = n
        /\ \A i \in 1..Len(allFitnesses) : allFitnesses'[i] = allFitnesses[i]
        /\ allFitnesses'[n] = g
    BY <1>2, <2>1, <2>3, AppendProperties
  <2>6. SolverTypes'
    BY <1>1, <2>1, <2>5 DEF SolverInv, SolverTypes
  <2>7. ASSUME outcome = "waited"
        PROVE  /\ AllFinal'
               /\ \A i \in 1..Len(allPopulations') : allPopulations'[i] = CyclesOf(i)'
               /\ \A i \in 1..Len(allFitnesses') : allFitnesses'[i] = CyclesOf(i)'
    <3>1. /\ AllFinal /\ \A i \in 1..Len(allPopulations) : allPopulations[i] = CyclesOf(i)
          /\ \A i \in 1..Len(allFitnesses) : allFitnesses[i] = CyclesOf(i)
      BY <2>1, <2>7 DEF SolverInv, Merging
    <3>2. ASSUME NEW i \in 1..n PROVE allFitnesses'[i] = CyclesOf(i)'
      <4>1. i \in 1..Len(allFitnesses) \/ i = n
        BY <1>2
      <4> QED
        BY <1>1, <2>4, <2>5, <2>7, <3>1, <4>1 DEF CyclesOf
    <3> QED
      BY <1>1, <2>1, <2>5, <3>1, <3>2 DEF AllFinal, CyclesOf
  <2>8. user' = "ready" => /\ Len(allPopulations') = Len(archipelago')
                          /\ Len(allFitnesses') = Len(archipelago')
    BY <1>1, <2>1, <2>2, <2>5
  <2>9. Merging'
    BY <1>1, <1>2, <2>1, <2>2, <2>5, <2>7, <2>8 DEF Merging
  <2> QED
    BY <1>3, <2>6, <2>9 DEF SolverInv
<1> QED
  BY <1>5, <1>6, <1>7

\* What one call of run_evolve() makes of the archipelago.
LEMMA IslandStep ==
    ASSUME SolverInv, NEW i \in Nat \ {0}, run_evolve(i) \/ run_evolve_throws(i)
    PROVE  /\ i \in 1..Len(archipelago) /\ archipelago[i].left > 0
           /\ archipelago' \in Seq(IslandState) /\ Len(archipelago') = Len(archipelago)
           /\ \A j \in 1..Len(archipelago) : j # i => archipelago'[j] = archipelago[j]
           /\ \/ /\ archipelago'[i].left = archipelago[i].left - 1
                 /\ archipelago'[i].generation = archipelago[i].generation + 1
                 /\ archipelago'[i].error = archipelago[i].error
              \/ archipelago'[i].error = TRUE /\ archipelago'[i].left = 0
<1>1. archipelago \in Seq(IslandState) /\ Len(archipelago) \in Nat
  BY DEF SolverInv, SolverTypes
<1>2. i \in 1..Len(archipelago) /\ archipelago[i].left > 0
  BY <1>1 DEF run_evolve, run_evolve_throws
<1>3. archipelago[i] \in IslandState
  BY <1>1, <1>2
<1>4. PICK isl \in IslandState :
        /\ archipelago' = [archipelago EXCEPT ![i] = isl]
        /\ \/ /\ isl.left = archipelago[i].left - 1
              /\ isl.generation = archipelago[i].generation + 1
              /\ isl.error = archipelago[i].error
           \/ isl.error = TRUE /\ isl.left = 0
  <2>1. CASE run_evolve(i)
    <3> DEFINE isl == [archipelago[i] EXCEPT !.left = @ - 1, !.generation = @ + 1]
    <3>1. isl \in IslandState
      <4>1. archipelago[i].left - 1 \in Nat /\ archipelago[i].generation + 1 \in Nat
        BY <1>2, IslandTypes DEF SolverInv
      <4> QED
        BY <1>3, <4>1 DEF IslandState
    <3>2. /\ isl.left = archipelago[i].left - 1
          /\ isl.generation = archipelago[i].generation + 1
          /\ isl.error = archipelago[i].error
      BY <1>3 DEF IslandState
    <3>3. archipelago' = [archipelago EXCEPT ![i] = isl]
      BY <1>1, <1>2, <2>1 DEF run_evolve
    <3> QED
      BY <3>1, <3>2, <3>3
  <2>2. CASE run_evolve_throws(i)
    <3> DEFINE isl == [archipelago[i] EXCEPT !.left = 0, !.error = TRUE]
    <3>1. isl \in IslandState
      BY <1>2, <1>3 DEF IslandState
    <3>2. isl.error = TRUE /\ isl.left = 0
      BY <1>3 DEF IslandState
    <3>3. archipelago' = [archipelago EXCEPT ![i] = isl]
      BY <1>1, <1>2, <2>2 DEF run_evolve_throws
    <3> QED
      BY <3>1, <3>2, <3>3
  <2> QED
    BY <2>1, <2>2
<1>5. /\ archipelago' \in Seq(IslandState) /\ Len(archipelago') = Len(archipelago)
      /\ archipelago'[i] = isl
      /\ \A j \in 1..Len(archipelago) : j # i => archipelago'[j] = archipelago[j]
  BY <1>1, <1>2, <1>4
<1> QED
  BY <1>2, <1>4, <1>5

LEMMA IslandInv ==
    ASSUME SolverInv, NEW i \in Nat \ {0}, run_evolve(i) \/ run_evolve_throws(i)
    PROVE  SolverInv'
<1>1. UNCHANGED <<connectedWorkers, user, islandCount, started, initialHints, usedHints,
                  allPopulations, allFitnesses, outcome, calls>>
  BY DEF run_evolve, run_evolve_throws, repositoryVars, hintVars, mergeVars
<1>2. /\ i \in 1..Len(archipelago) /\ archipelago[i].left > 0
      /\ archipelago' \in Seq(IslandState) /\ Len(archipelago') = Len(archipelago)
      /\ \A j \in 1..Len(archipelago) : j # i => archipelago'[j] = archipelago[j]
      /\ \/ /\ archipelago'[i].left = archipelago[i].left - 1
            /\ archipelago'[i].generation = archipelago[i].generation + 1
            /\ archipelago'[i].error = archipelago[i].error
         \/ archipelago'[i].error = TRUE /\ archipelago'[i].left = 0
  BY IslandStep
<1>3. Busy /\ Accounted /\ archipelago # << >>
  BY <1>2 DEF Busy, SolverInv, Evolving
<1>4. SolverTypes'
  BY <1>1, <1>2 DEF SolverInv, SolverTypes
<1>5. Evolving'
  <2>1. ASSUME NEW j \in 1..Len(archipelago'), ~archipelago'[j].error
        PROVE  archipelago'[j].left + archipelago'[j].generation = CyclesOf(j)'
    <3>1. CASE j # i
      BY <1>1, <1>2, <1>3, <2>1, <3>1 DEF Accounted, CyclesOf
    <3>2. CASE j = i
      <4>1. archipelago[i].left \in Nat /\ archipelago[i].generation \in Nat
        BY <1>2, IslandTypes DEF SolverInv
      <4>2. /\ archipelago'[i].left = archipelago[i].left - 1
            /\ archipelago'[i].generation = archipelago[i].generation + 1
            /\ ~archipelago[i].error
        BY <1>2, <2>1, <3>2
      <4>3. archipelago[i].left + archipelago[i].generation = CyclesOf(i)
        BY <1>2, <1>3, <4>2 DEF Accounted
      <4> QED
        BY <1>1, <3>2, <4>1, <4>2, <4>3 DEF CyclesOf
    <3> QED
      BY <3>1, <3>2
  <2>2. user # "plan"
    BY <1>3 DEF SolverInv, Evolving
  <2> QED
    BY <1>1, <1>3, <2>1, <2>2 DEF Evolving, Accounted
<1>6. outcome = "waited" => user = "wait"
  BY <1>2 DEF SolverInv, Merging, AllFinal, CyclesOf
<1>7. Merging'
  BY <1>1, <1>2, <1>6 DEF SolverInv, Merging
<1>8. Hints'
  BY <1>1 DEF SolverInv, Hints
<1> QED
  BY <1>4, <1>5, <1>7, <1>8 DEF SolverInv

-----------------------------------------------------------------------------
(***************************************************************************)
(* The theorems.                                                           *)
(***************************************************************************)
LEMMA SolverStep ==
    ASSUME SolverInv, [Next]_vars
    PROVE  SolverInv'
<1>1. CASE ServerThread
  BY <1>1, ServerThreadInv
<1>2. CASE UserCalls
  BY <1>2, OtherCallsInv, SetHintsInv, EvolveInv, MergeInv DEF UserCalls
<1>3. CASE UserRuns
  BY <1>3, OtherCallsInv, StartInv, WaitCheckedInv, MergeInv DEF UserRuns
<1>4. ASSUME NEW i \in 1..MaxIslands, run_evolve(i) \/ run_evolve_throws(i)
      PROVE  SolverInv'
  <2>1. i \in Nat \ {0}
    OBVIOUS
  <2> QED
    BY <1>4, <2>1, IslandInv
<1>5. CASE UNCHANGED vars
  <2>1. UNCHANGED <<connectedWorkers, user, islandCount, archipelago, started,
                    initialHints, usedHints, allPopulations, allFitnesses, outcome,
                    calls>>
    BY <1>5 DEF vars, repositoryVars, evolutionVars, hintVars, mergeVars
  <2> QED
    BY <2>1 DEF SolverInv, SolverTypes, Evolving, Accounted, Busy, CyclesOf, Merging, AllFinal, CyclesOf, Hints
<1> QED
  BY <1>1, <1>2, <1>3, <1>4, <1>5 DEF Next

\* The solver's state fits together, whatever its user calls and when.
THEOREM SolverHolds == Spec => []SolverInv
<1>1. Init => SolverInv
  <2> SUFFICES ASSUME Init PROVE SolverInv
    OBVIOUS
  <2>1. /\ archipelago \in Seq(IslandState) /\ Len(archipelago) = 0
        /\ allPopulations \in Seq(Nat) /\ allFitnesses \in Seq(Nat)
    BY DEF Init
  <2>2. SolverTypes
    BY <2>1, FS_EmptySet DEF Init, SolverTypes
  <2>3. Evolving /\ Merging
    BY <2>1 DEF Init, Evolving, Accounted, Busy, CyclesOf, Merging
  <2>4. Hints
    BY DEF Init, Hints
  <2> QED
    BY <2>2, <2>3, <2>4 DEF SolverInv
<1>2. SolverInv /\ [Next]_vars => SolverInv'
  BY SolverStep
<1> QED
  BY <1>1, <1>2, PTL DEF Spec

\* wait_until_completion() returns the best of the final populations: every
\* island has made all of its cycles, and its x and its f are of the same one.
THEOREM WaitedResultsStayFinal == Spec => []WaitedResultsAreFinal
<1>1. SolverInv => WaitedResultsAreFinal
  BY DEF SolverInv, SolverTypes, Merging, AllFinal, CyclesOf, WaitedResultsAreFinal
<1> QED
  BY <1>1, SolverHolds, PTL

\* No call of the user interrupts an archipelago that evolves: evolve() looks at
\* the status first, and no island is busy while a plan is made.
THEOREM EvolutionsAreNotInterrupted == Spec => NothingInterrupted
<1>1. SolverInv /\ [Next]_vars =>
        [Busy => /\ Len(archipelago') = Len(archipelago)
                 /\ \A i \in 1..Len(archipelago) :
                      \/ archipelago'[i].left + 1 >= archipelago[i].left
                      \/ archipelago'[i].error]_vars
  <2> SUFFICES ASSUME SolverInv, [Next]_vars, Busy
               PROVE  /\ Len(archipelago') = Len(archipelago)
                      /\ \A i \in 1..Len(archipelago) :
                           \/ archipelago'[i].left + 1 >= archipelago[i].left
                           \/ archipelago'[i].error
    OBVIOUS
  <2>1. \A j \in 1..Len(archipelago) : archipelago[j].left \in Nat
    BY IslandTypes DEF SolverInv
  <2>2. CASE archipelago' = archipelago
    BY <2>1, <2>2
  <2>3. ASSUME NEW i \in 1..MaxIslands, run_evolve(i) \/ run_evolve_throws(i)
        PROVE  /\ Len(archipelago') = Len(archipelago)
               /\ \A j \in 1..Len(archipelago) :
                    \/ archipelago'[j].left + 1 >= archipelago[j].left
                    \/ archipelago'[j].error
    <3>1. i \in Nat \ {0}
      OBVIOUS
    <3>2. /\ Len(archipelago') = Len(archipelago)
          /\ \A j \in 1..Len(archipelago) : j # i => archipelago'[j] = archipelago[j]
          /\ \/ archipelago'[i].left = archipelago[i].left - 1
             \/ archipelago'[i].error = TRUE
          /\ i \in 1..Len(archipelago)
      BY <2>3, <3>1, IslandStep
    <3>3. ASSUME NEW j \in 1..Len(archipelago)
          PROVE  archipelago'[j].left + 1 >= archipelago[j].left \/ archipelago'[j].error
      BY <2>1, <3>2
    <3> QED
      BY <3>2, <3>3
  <2>4. user # "plan"
    <3>1. Len(<< >>) = 0
      OBVIOUS
    <3>2. archipelago # << >>
      BY <3>1 DEF Busy
    <3> QED
      BY <3>2 DEF SolverInv, Evolving
  <2>5. \/ archipelago' = archipelago
        \/ \E i \in 1..MaxIslands : run_evolve(i) \/ run_evolve_throws(i)
    BY <2>4 DEF Next, vars, ServerThread, notify_all, ServerThreadEnds, worker_joined,
                worker_left, UserCalls, wait_until_workers_connect,
                set_initial_hints, evolve, evolve_throws, wait_until_completion,
                wait_throws, Throws, get_best_individual, UserRuns, CheckWorkerCount, StartEvolution,
                StartFails, WaitChecked, MergeX, MergeF, evolutionVars
  <2> QED
    BY <2>2, <2>3, <2>5
<1> QED
  BY <1>1, SolverHolds, PTL DEF Spec, NothingInterrupted

\* All islands of an evolution that evolve() started without an exception are made
\* with the hints of one call, and with none that an earlier such evolution had.
\* (An evolve() that throws leaves the hints for the next call.)
THEOREM HintsServeOneEvolution == Spec => HintsAreUsedOnce
<1>1. SolverInv /\ [Next]_vars =>
        [user = "plan" /\ user' = "ready" /\ outcome' = "started" =>
           \A i \in 1..Len(archipelago') :
              /\ archipelago'[i].hints = archipelago'[1].hints
              /\ archipelago'[i].hints \notin usedHints]_vars
  <2> SUFFICES ASSUME SolverInv, [Next]_vars, user = "plan", user' = "ready",
                      outcome' = "started",
                      NEW i \in 1..Len(archipelago')
               PROVE  /\ archipelago'[i].hints = archipelago'[1].hints
                      /\ archipelago'[i].hints \notin usedHints
    OBVIOUS
  <2>1. StartEvolution
    BY DEF Next, vars, ServerThread, notify_all, ServerThreadEnds, worker_joined,
           worker_left, UserCalls, wait_until_workers_connect,
           set_initial_hints, evolve, evolve_throws,
           wait_until_completion, wait_throws, Throws, Call, get_best_individual,
           UserRuns, CheckWorkerCount, StartFails, WaitChecked, MergeX, MergeF,
           run_evolve, run_evolve_throws
  <2>2. 1 \in 1..Len(archipelago')
    <3>1. archipelago' \in Seq(IslandState)
      BY <2>1, NewArchipelago
    <3>2. Len(archipelago') \in Nat
      BY <3>1
    <3> QED
      BY <3>2
  <2>3. archipelago'[i].hints = initialHints /\ archipelago'[1].hints = initialHints
    <3>1. \A j \in 1..Len(archipelago') : archipelago'[j] = NewIsland(CyclesOf(j)')
      BY <2>1, NewArchipelago
    <3>2. \A c : NewIsland(c).hints = initialHints
      BY DEF NewIsland
    <3> QED
      BY <2>2, <3>1, <3>2
  <2> QED
    BY <2>3 DEF SolverInv, Hints
<1> QED
  BY <1>1, SolverHolds, PTL DEF Spec, HintsAreUsedOnce

-----------------------------------------------------------------------------
(***************************************************************************)
(* The safety half of WaitForWorkersReturns and CompletionReturns.         *)
(***************************************************************************)
\* Who sleeps although there are enough workers is about to be woken: the
\* predicate is checked under the mutex, and notify_all() follows every change.
WakeUpIsComing == user = "asleep" => ~EnoughWorkers \/ notifying

\* A wait is for islands that exist, and merge_populations() has something left
\* to read: its loop ends with the last fitness.
ReadIsLeft ==
    /\ user \in {"wait", "merge"} => Len(archipelago) > 0
    /\ user = "merge" => Len(allFitnesses) < Len(archipelago)

NobodySleepsIn == WakeUpIsComing /\ ReadIsLeft

LEMMA WakeUpStep ==
    ASSUME WakeUpIsComing, [Next]_vars
    PROVE  WakeUpIsComing'
<1> SUFFICES ASSUME user' = "asleep" PROVE ~EnoughWorkers' \/ notifying'
  BY DEF WakeUpIsComing
<1>1. CASE ServerThread
  <2>1. CASE ServerThreadEnds
    BY <2>1 DEF ServerThreadEnds, WakeUpIsComing, EnoughWorkers, get_worker_count
  <2>2. CASE ~ServerThreadEnds
    BY <1>1, <2>2 DEF ServerThread, notify_all, worker_joined, worker_left
  <2> QED
    BY <2>1, <2>2
<1>2. CASE CheckWorkerCount
  BY <1>2 DEF CheckWorkerCount, repositoryVars, EnoughWorkers, get_worker_count
<1>3. CASE ~ServerThread /\ ~CheckWorkerCount
  <2>1. user = "asleep" /\ UNCHANGED <<connectedWorkers, notifying>>
    BY <1>3 DEF Next, vars, repositoryVars, UserCalls, wait_until_workers_connect,
                set_initial_hints, evolve, evolve_throws, wait_until_completion,
                wait_throws, Throws, Call, get_best_individual, UserRuns,
                StartEvolution, StartFails, WaitChecked, MergeX, MergeF, run_evolve,
                run_evolve_throws
  <2> QED
    BY <2>1 DEF WakeUpIsComing, EnoughWorkers, get_worker_count
<1> QED
  BY <1>1, <1>2, <1>3

LEMMA ReadStep ==
    ASSUME SolverInv, ReadIsLeft, [Next]_vars
    PROVE  ReadIsLeft'
<1>1. /\ archipelago \in Seq(IslandState) /\ Len(archipelago) \in Nat
      /\ allPopulations \in Seq(Nat) /\ Len(allPopulations) \in Nat
      /\ allFitnesses \in Seq(Nat) /\ Len(allFitnesses) \in Nat
  BY DEF SolverInv, SolverTypes
<1>2. CASE user' \notin {"wait", "merge"}
  BY <1>2 DEF ReadIsLeft
<1>3. CASE wait_until_completion
  <2>1. user' = "wait" /\ Busy /\ archipelago' = archipelago
    BY <1>3 DEF wait_until_completion, Call, evolutionVars
  <2> QED
    BY <1>1, <2>1 DEF ReadIsLeft, Busy
<1>4. CASE WaitChecked /\ user' = "merge"
  <2>1. user = "wait" /\ archipelago' = archipelago /\ allFitnesses' = << >>
    BY <1>4 DEF WaitChecked
  <2> QED
    BY <1>1, <2>1 DEF ReadIsLeft
<1>5. CASE get_best_individual
  <2>1. archipelago # << >> /\ archipelago' = archipelago /\ allFitnesses' = << >>
    BY <1>5 DEF get_best_individual, evolutionVars
  <2>2. Len(archipelago) > 0
    BY <1>1, <2>1, EmptySeq
  <2> QED
    BY <1>1, <2>1, <2>2 DEF ReadIsLeft
<1>6. CASE MergeF /\ user' = "merge"
  <2>1. /\ user = "merge" /\ archipelago' = archipelago
        /\ Len(allPopulations) > Len(allFitnesses)
        /\ Len(allPopulations) # Len(archipelago)
        /\ allFitnesses' = Append(allFitnesses,
                             archipelago[Len(allPopulations)].generation)
    BY <1>6 DEF MergeF, evolutionVars
  <2>2. /\ Len(allPopulations) <= Len(allFitnesses) + 1
        /\ Len(allPopulations) <= Len(archipelago)
    BY <2>1 DEF SolverInv, Merging
  <2>3. Len(allFitnesses') = Len(allFitnesses) + 1
    <3>1. archipelago[Len(allPopulations)].generation \in Nat
      BY <1>1, <2>1, <2>2, IslandTypes DEF SolverInv
    <3> QED
      BY <1>1, <2>1, <3>1, AppendProperties
  <2> QED
    BY <1>1, <2>1, <2>2, <2>3 DEF ReadIsLeft
<1>7. ASSUME NEW i \in 1..MaxIslands, run_evolve(i) \/ run_evolve_throws(i)
      PROVE  ReadIsLeft'
  <2>1. UNCHANGED <<user, allFitnesses>>
    BY <1>7 DEF run_evolve, run_evolve_throws, mergeVars
  <2>2. i \in Nat \ {0}
    OBVIOUS
  <2>3. Len(archipelago') = Len(archipelago)
    BY <1>7, <2>2, IslandStep
  <2> QED
    BY <2>1, <2>3 DEF ReadIsLeft
<1>8. CASE MergeX \/ ServerThread \/ UNCHANGED vars
  <2>1. UNCHANGED <<archipelago, allFitnesses>> /\ (user' = user \/ user' = "check")
    BY <1>8 DEF MergeX, ServerThread, notify_all, ServerThreadEnds, worker_joined,
                worker_left, vars, evolutionVars, mergeVars
  <2> QED
    BY <2>1 DEF ReadIsLeft
<1>9. user' \in {"wait", "merge"} =>
        \/ wait_until_completion \/ get_best_individual
        \/ WaitChecked /\ user' = "merge"
        \/ MergeF /\ user' = "merge"
        \/ MergeX \/ ServerThread \/ UNCHANGED vars
        \/ \E i \in 1..MaxIslands : run_evolve(i) \/ run_evolve_throws(i)
  BY DEF Next, UserCalls, wait_until_workers_connect, set_initial_hints, evolve,
         evolve_throws, wait_throws, Throws, Call, UserRuns, CheckWorkerCount,
         StartEvolution, StartFails, WaitChecked, MergeF
<1> QED
  BY <1>2, <1>3, <1>4, <1>5, <1>6, <1>7, <1>8, <1>9

\* No wake-up of wait_until_workers_connect() is lost, however joins and leaves
\* fall between its look at the set and its sleep; wait_until_completion() waits
\* for islands that exist, and the merge after it always has a next read.
THEOREM NobodyOversleeps == Spec => []NobodySleepsIn
<1>1. Init => WakeUpIsComing /\ ReadIsLeft
  BY DEF Init, WakeUpIsComing, ReadIsLeft
<1>2. SolverInv /\ WakeUpIsComing /\ ReadIsLeft /\ [Next]_vars
        => WakeUpIsComing' /\ ReadIsLeft'
  BY WakeUpStep, ReadStep
<1>3. WakeUpIsComing /\ ReadIsLeft => NobodySleepsIn
  BY DEF NobodySleepsIn
<1> QED
  BY <1>1, <1>2, <1>3, SolverHolds, PTL DEF Spec
=============================================================================
