-------------------------- MODULE PopulationTools --------------------------
(***************************************************************************)
(* population_tools.h and number_utils.h: the arithmetic and the selection *)
(* functions shared by the solver and the workers.  A population is a      *)
(* sequence of individuals [x, f]; f is the rank pagmo's comparison gives  *)
(* an individual (its fitness, the constrained or the multi-objective      *)
(* order), smaller is better.  Indexes count from 1.                       *)
(***************************************************************************)
EXTENDS Naturals, FiniteSets, Sequences, SequencesExt

larger(a, b) == IF a < b THEN b ELSE a

\* Mutant: the remainder is cut off instead.
floor_to_multiple(input, multiple) == input - (input % multiple)

ceil_to_multiple(input, multiple) ==
    IF input % multiple = 0 THEN input
                            ELSE input + (multiple - (input % multiple))

\* a / b as a fraction, 0 when b is 0.
safe_divide(a, b) == IF b > 0 THEN <<a, b>> ELSE <<0, 1>>

-----------------------------------------------------------------------------
\* The individuals of all islands, one after the other.
merge_populations(islands) == FlattenSeq(islands)

\* The order std::sort leaves: at a place the index that so many are before.
\* Which of two equals comes first is open there.
SortedIndexes(fitness) ==
    LET indexes      == 1..Len(fitness)
        before(m, n) == \/ fitness[m] < fitness[n]
                        \/ fitness[m] = fitness[n] /\ m < n
        place == [n \in indexes |-> 1 + Cardinality({m \in indexes : before(m, n)})]
    IN [k \in indexes |-> CHOOSE n \in indexes : place[n] = k]

\* resize(N) cuts the indexes off, or pads them with the index of the first.
select_best_N_so(fitness, N) ==
    LET idx == SortedIndexes(fitness)
    IN [n \in 1..N |-> IF n <= Len(idx) THEN idx[n] ELSE 1]

select_best_N_mo(fitness, N) ==
    LET idx == SortedIndexes(fitness)
    IN SubSeq(idx, 1, IF N < Len(idx) THEN N ELSE Len(idx))

\* Mutant: the first N, unsorted.
FirstNIndexes(multiObjective, fitness, N) == [n \in 1..N |-> n]

get_best_N_individuals_indexes(multiObjective, fitness, N) ==
    IF multiObjective THEN select_best_N_mo(fitness, N)
                      ELSE select_best_N_so(fitness, N)

\* build_new_population(): the selected individuals, in that order.
select_best_N_into_new_population(multiObjective, population, N) ==
    LET idx == get_best_N_individuals_indexes(multiObjective,
                   [n \in 1..Len(population) |-> population[n].f], N)
    IN [n \in 1..Len(idx) |-> population[idx[n]]]
=============================================================================
