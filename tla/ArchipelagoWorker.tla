------------------------- MODULE ArchipelagoWorker -------------------------
(***************************************************************************)
(* What the thread of a worker does with a population: it is split among   *)
(* the islands of a local archipelago, evolved, merged, and cut down to    *)
(* its old size.  The population comes from the solver's work plan, the    *)
(* minimal island size and the number of cores from the worker's own host. *)
(***************************************************************************)
EXTENDS PopulationTools

CONSTANTS
    MaxShare,       \* bound: individuals the plan wants on this worker
    MaxMinPopSize,  \* bound: the two minIslandPopSize parameters
    MaxCores        \* bound: std::thread::hardware_concurrency()

ASSUME BoundsAssumption ==
    MaxShare \in Nat /\ MaxMinPopSize \in Nat /\ MaxCores \in Nat

VARIABLES
    phase,             \* "start", "split", "evolve" or "sent"
    totalPopSize,      \* pop.size()
    minIslandPopSize,  \* _minIslandPopSize
    islandCount,
    multiObjective,    \* prob.get_nobj() > 1
    baseSize,
    remainingPop,
    mainPopIndex,      \* individuals handed out so far
    islandPops,        \* the x of each island's individuals
    newPop             \* the results

vars == <<phase, totalPopSize, minIslandPopSize, islandCount, multiObjective,
          baseSize, remainingPop, mainPopIndex, islandPops, newPop>>

inputs == <<totalPopSize, minIslandPopSize, islandCount, multiObjective>>

\* A random individual of the pagmo::population constructor.
Random == 0

\* _generate_work_plan() sends a share, raised to its own minimum and to a
\* multiple of 4.
PlannedSize(share, minPop) == ceil_to_multiple(larger(minPop, share), 4)

\* _compute_optimal_island_count(), for the cores the library reports.
compute_optimal_island_count(cores) == IF cores = 0 THEN 8 ELSE cores

Init ==
    /\ phase = "start"
    /\ \E share \in 0..MaxShare, minPop \in 0..MaxMinPopSize :
          totalPopSize = PlannedSize(share, minPop)
    /\ minIslandPopSize \in 0..MaxMinPopSize
    /\ \E cores \in 0..MaxCores :
          islandCount = compute_optimal_island_count(cores)
    /\ multiObjective \in BOOLEAN
    /\ baseSize = 0 /\ remainingPop = 0 /\ mainPopIndex = 0
    /\ islandPops = << >> /\ newPop = << >>

-----------------------------------------------------------------------------
\* Mutant: the minimum is not applied to the base size.
BaseSizeUnguarded(total, islands, minPop) ==
    floor_to_multiple(total \div islands, 4)

BaseSize(total, islands, minPop) ==
    LET size    == larger(minPop, total \div islands)
        rounded == size - (size % 4)
    IN IF rounded = 0 THEN 4 ELSE rounded

\* _split_population_for_islands() up to its loop.
ComputeSizes ==
    /\ phase = "start"
    /\ phase' = "split"
    /\ baseSize' = BaseSize(totalPopSize, islandCount, minIslandPopSize)
    /\ remainingPop' = IF baseSize' * islandCount < totalPopSize
                       THEN totalPopSize - baseSize' * islandCount ELSE 0
    /\ UNCHANGED <<inputs, mainPopIndex, islandPops, newPop>>

\* Mutant: one island too early the extra individuals run out.
CurrentSizeLate == IF remainingPop > 4 THEN baseSize + 4 ELSE baseSize

CurrentSize == IF remainingPop >= 4 THEN baseSize + 4 ELSE baseSize

\* One round of the loop.
SplitIsland ==
    /\ phase = "split"
    /\ Len(islandPops) < islandCount
    /\ remainingPop' = remainingPop - (CurrentSize - baseSize)
    /\ islandPops' = Append(islandPops, [j \in 1..CurrentSize |->
          IF mainPopIndex + j <= totalPopSize THEN mainPopIndex + j ELSE Random])
    /\ mainPopIndex' = IF mainPopIndex + CurrentSize < totalPopSize
                       THEN mainPopIndex + CurrentSize ELSE totalPopSize
    /\ UNCHANGED <<phase, inputs, baseSize, newPop>>

StartArchipelago ==
    /\ phase = "split"
    /\ Len(islandPops) = islandCount
    /\ phase' = "evolve"
    /\ UNCHANGED <<inputs, baseSize, remainingPop, mainPopIndex, islandPops,
                   newPop>>

\* Evolution gives the individuals new ranks (external, pagmo): every rotation
\* of a strict order, so that the best are in every place.
Evolved(size, shift) ==
    [n \in 1..size |-> [x |-> n, f |-> (n + shift) % size]]

MergedSize == Len(merge_populations(islandPops))

\* Evolve, merge, select pop.size() individuals, send.
EvolveAndSend ==
    /\ phase = "evolve"
    /\ \E shift \in 0..(MergedSize - 1) :
          newPop' = select_best_N_into_new_population(multiObjective,
                        Evolved(MergedSize, shift), totalPopSize)
    /\ phase' = "sent"
    /\ UNCHANGED <<inputs, baseSize, remainingPop, mainPopIndex, islandPops>>

Done == phase = "sent" /\ UNCHANGED vars

Next == ComputeSizes \/ SplitIsland \/ StartArchipelago \/ EvolveAndSend \/ Done

Spec == Init /\ [][Next]_vars

-----------------------------------------------------------------------------
IsSplit == phase \in {"evolve", "sent"}

\* _split_population_for_islands() gives away every individual of the
\* population once, in order, before any random one: because the plan sends
\* multiples of 4, the two roundings never lose the rest of a division.
EveryIndividualIsPlaced ==
    IsSplit =>
      /\ \A n \in 1..totalPopSize : \E i \in 1..islandCount :
            \E j \in 1..Len(islandPops[i]) : islandPops[i][j] = n
      /\ \A i \in 1..islandCount : \A j \in 1..Len(islandPops[i]) :
            islandPops[i][j] \in 1..totalPopSize \cup {Random}
      /\ \A i, k \in 1..islandCount :
            \A j \in 1..Len(islandPops[i]), l \in 1..Len(islandPops[k]) :
               (i < k \/ (i = k /\ j < l)) /\ islandPops[k][l] # Random
                 => islandPops[i][j] # Random /\ islandPops[i][j] < islandPops[k][l]

\* What the algorithms ask of an island: a size that is a multiple of 4 and
\* not 0, and no island with more than four individuals more than another.
\* Of the host's minimum, which is applied before the size is rounded down, an
\* island has all the whole fours: a minimum such as the default of 80 is kept,
\* any other is not (MinimumIsKept).
IslandSizesAreEven ==
    IsSplit => \A i, j \in 1..islandCount :
                  /\ Len(islandPops[i]) % 4 = 0
                  /\ Len(islandPops[i]) > 0
                  /\ Len(islandPops[i]) >= minIslandPopSize - (minIslandPopSize % 4)
                  /\ Len(islandPops[i]) <= Len(islandPops[j]) + 4

\* The comment on the base size, "make sure to not go below min pop", and the
\* constructor's, "Minimal population size of an island".
MinimumIsKept ==
    IsSplit => \A i \in 1..islandCount : Len(islandPops[i]) >= minIslandPopSize

\* "A new population of size N, containing only the best N individuals": the
\* results are as many as were sent, all different, and no individual left
\* behind on an island is better than one of them.
BestIndividualsReturn ==
    phase = "sent" =>
      /\ Len(newPop) = totalPopSize
      /\ \A n, m \in 1..Len(newPop) : n # m => newPop[n].x # newPop[m].x
      /\ \A n \in 1..Len(newPop) : newPop[n].f < totalPopSize
=============================================================================
