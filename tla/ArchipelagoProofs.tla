------------------------- MODULE ArchipelagoProofs -------------------------
(***************************************************************************)
(* The sizes of a worker's islands, where the individuals go and which of  *)
(* them come back, for any population the plan sends and any minimum and   *)
(* number of cores of the host.                                            *)
(***************************************************************************)
EXTENDS ArchipelagoWorker, FiniteSetTheorems, FunctionTheorems, SequenceTheorems, TLAPS

-----------------------------------------------------------------------------
Inputs ==
    /\ totalPopSize \in Nat /\ minIslandPopSize \in Nat
    /\ islandCount \in Nat \ {0}

SplitTypes ==
    /\ phase \in {"start", "split", "evolve", "sent"}
    /\ baseSize \in Nat /\ remainingPop \in Nat /\ mainPopIndex \in Nat
    /\ islandPops \in Seq(Seq(Nat))

\* What the loop starts from.
BaseSizeIsEven ==
    /\ baseSize % 4 = 0 /\ baseSize > 0
    /\ baseSize + 3 >= minIslandPopSize

\* An island has the base size, or four of the remaining individuals more.
SizesAreBase ==
    \A i \in 1..Len(islandPops) :
        Len(islandPops[i]) = baseSize \/ Len(islandPops[i]) = baseSize + 4

SplitInv ==
    /\ Inputs /\ SplitTypes
    /\ phase = "start" => islandPops = << >>
    /\ phase # "start" => BaseSizeIsEven /\ SizesAreBase
    /\ phase \in {"evolve", "sent"} => Len(islandPops) = islandCount

-----------------------------------------------------------------------------
\* The number utilities.
LEMMA LargerFacts ==
    ASSUME NEW a \in Nat, NEW b \in Nat
    PROVE  larger(a, b) \in Nat /\ larger(a, b) >= a /\ larger(a, b) >= b
  BY DEF larger

LEMMA CeilFacts ==
    ASSUME NEW n \in Nat
    PROVE  /\ ceil_to_multiple(n, 4) \in Nat
           /\ ceil_to_multiple(n, 4) % 4 = 0
           /\ ceil_to_multiple(n, 4) >= n /\ ceil_to_multiple(n, 4) < n + 4
  BY DEF ceil_to_multiple

LEMMA ProductFacts ==
    ASSUME NEW a \in Nat, NEW b \in Nat
    PROVE  a * b \in Nat
  OBVIOUS

LEMMA ShareFacts ==
    ASSUME NEW n \in Nat, NEW m \in Nat \ {0}
    PROVE  n \div m \in Nat
  OBVIOUS

LEMMA BaseSizeFacts ==
    ASSUME NEW total \in Nat, NEW islands \in Nat \ {0}, NEW minPop \in Nat
    PROVE  LET base == BaseSize(total, islands, minPop) IN
           base \in Nat /\ base % 4 = 0 /\ base > 0 /\ base + 3 >= minPop
  <1> DEFINE size == larger(minPop, total \div islands)
  <1>1. size \in Nat /\ size >= minPop
    BY ShareFacts, LargerFacts
  <1> HIDE DEF size
  <1>2. /\ size - (size % 4) \in Nat /\ (size - (size % 4)) % 4 = 0
        /\ size - (size % 4) + 3 >= size
    BY <1>1
  <1>3. BaseSize(total, islands, minPop) =
          IF size - (size % 4) = 0 THEN 4 ELSE size - (size % 4)
    BY DEF BaseSize, size
  <1>. QED  BY <1>1, <1>2, <1>3

-----------------------------------------------------------------------------
LEMMA SplitInit == Init => SplitInv
  <1> SUFFICES ASSUME Init  PROVE  SplitInv
    OBVIOUS
  <1>1. totalPopSize \in Nat
    <2>1. PICK share \in 0..MaxShare, minPop \in 0..MaxMinPopSize :
            totalPopSize = PlannedSize(share, minPop)
      BY DEF Init
    <2>2. share \in Nat /\ minPop \in Nat
      BY BoundsAssumption
    <2>3. larger(minPop, share) \in Nat
      BY <2>2, LargerFacts
    <2>. QED  BY <2>1, <2>3, CeilFacts DEF PlannedSize
  <1>2. islandCount \in Nat \ {0}
    BY BoundsAssumption DEF Init, compute_optimal_island_count
  <1>3. minIslandPopSize \in Nat
    BY BoundsAssumption DEF Init
  <1>4. << >> \in Seq(Seq(Nat))
    OBVIOUS
  <1>. QED  BY <1>1, <1>2, <1>3, <1>4 DEF Init, SplitInv, Inputs, SplitTypes

LEMMA ComputeSizesKeeps ==
    ASSUME SplitInv, ComputeSizes
    PROVE  SplitInv'
  <1>1. /\ phase = "start" /\ phase' = "split"
        /\ baseSize' = BaseSize(totalPopSize, islandCount, minIslandPopSize)
        /\ remainingPop' = IF baseSize' * islandCount < totalPopSize
                           THEN totalPopSize - baseSize' * islandCount ELSE 0
        /\ UNCHANGED <<totalPopSize, minIslandPopSize, islandCount, mainPopIndex,
                       islandPops>>
    BY DEF ComputeSizes, inputs
  <1>2. Inputs /\ SplitTypes /\ islandPops = << >>
    BY <1>1 DEF SplitInv
  <1>3. BaseSizeIsEven' /\ baseSize' \in Nat
    BY <1>1, <1>2, BaseSizeFacts DEF BaseSizeIsEven, Inputs
  <1>4. remainingPop' \in Nat
    <2>1. baseSize' * islandCount \in Nat
      BY <1>2, <1>3, ProductFacts DEF Inputs
    <2>. QED  BY <1>1, <1>2, <2>1 DEF Inputs
  <1>5. SizesAreBase'
    BY <1>1, <1>2 DEF SizesAreBase
  <1>. QED  BY <1>1, <1>2, <1>3, <1>4, <1>5 DEF SplitInv, Inputs, SplitTypes

LEMMA SplitIslandKeeps ==
    ASSUME SplitInv, SplitIsland
    PROVE  SplitInv'
  <1> DEFINE pop == [j \in 1..CurrentSize |->
                       IF mainPopIndex + j <= totalPopSize THEN mainPopIndex + j
                                                           ELSE Random]
  <1>1. /\ phase = "split" /\ phase' = "split"
        /\ remainingPop' = remainingPop - (CurrentSize - baseSize)
        /\ islandPops' = Append(islandPops, pop)
        /\ mainPopIndex' = IF mainPopIndex + CurrentSize < totalPopSize
                           THEN mainPopIndex + CurrentSize ELSE totalPopSize
        /\ UNCHANGED <<totalPopSize, minIslandPopSize, islandCount, baseSize>>
    BY DEF SplitIsland, inputs
  <1>2. Inputs /\ SplitTypes /\ BaseSizeIsEven /\ SizesAreBase
    BY <1>1 DEF SplitInv
  <1>3. /\ CurrentSize \in Nat
        /\ CurrentSize = baseSize \/ CurrentSize = baseSize + 4
        /\ remainingPop' \in Nat
    BY <1>1, <1>2 DEF CurrentSize, SplitTypes
  <1>4. pop \in Seq(Nat) /\ Len(pop) = CurrentSize
    <2>1. pop \in [1..CurrentSize -> Nat]
      BY <1>2, <1>3 DEF Inputs, SplitTypes, Random
    <2>. QED  BY <1>3, <2>1
  <1> HIDE DEF pop
  <1>5. /\ islandPops' \in Seq(Seq(Nat))
        /\ Len(islandPops) \in Nat /\ Len(islandPops') = Len(islandPops) + 1
        /\ \A i \in 1..Len(islandPops) : islandPops'[i] = islandPops[i]
        /\ islandPops'[Len(islandPops) + 1] = pop
    <2>1. islandPops \in Seq(Seq(Nat)) /\ Len(islandPops) \in Nat
      BY <1>2 DEF SplitTypes
    <2>. QED  BY <1>1, <1>4, <2>1, AppendProperties
  <1>6. SizesAreBase'
    <2>1. \A i \in 1..Len(islandPops') :
            i \in 1..Len(islandPops) \/ i = Len(islandPops) + 1
      BY <1>5
    <2>. QED  BY <1>1, <1>2, <1>3, <1>4, <1>5, <2>1 DEF SizesAreBase
  <1>7. mainPopIndex' \in Nat
    BY <1>1, <1>2, <1>3 DEF Inputs, SplitTypes
  <1>. QED
    BY <1>1, <1>2, <1>3, <1>5, <1>6, <1>7
    DEF SplitInv, Inputs, SplitTypes, BaseSizeIsEven

LEMMA SplitNext == SplitInv /\ [Next]_vars => SplitInv'
  <1> SUFFICES ASSUME SplitInv, [Next]_vars  PROVE  SplitInv'
    OBVIOUS
  <1> USE DEF SplitInv, Inputs, SplitTypes, BaseSizeIsEven, SizesAreBase
  <1>1. CASE UNCHANGED vars
    BY <1>1 DEF vars
  <1>2. CASE ComputeSizes
    BY <1>2, ComputeSizesKeeps
  <1>3. CASE SplitIsland
    BY <1>3, SplitIslandKeeps
  <1>4. CASE StartArchipelago
    BY <1>4 DEF StartArchipelago, inputs
  <1>5. CASE EvolveAndSend
    BY <1>5 DEF EvolveAndSend, inputs
  <1>6. CASE Done
    BY <1>6 DEF Done, vars
  <1>. QED  BY <1>1, <1>2, <1>3, <1>4, <1>5, <1>6 DEF Next

-----------------------------------------------------------------------------
(***************************************************************************)
(* Where the individuals go.  The sizes of the islands that are still to   *)
(* come are enough for the individuals that are left: at every round of    *)
(* the loop there is a base size for each of them, and the extra fours.    *)
(***************************************************************************)
Enough ==
    LET left == islandCount - Len(islandPops) IN
    /\ left \in Nat
    /\ remainingPop <= 4 * left
    /\ mainPopIndex + remainingPop + left * baseSize >= totalPopSize

\* An individual that was handed out has a place.
Complete ==
    \A n \in 1..mainPopIndex : \E i \in 1..Len(islandPops) :
        \E j \in 1..Len(islandPops[i]) : islandPops[i][j] = n

\* A random individual means that there was no other one left.
InRange ==
    \A i \in 1..Len(islandPops) : \A j \in 1..Len(islandPops[i]) :
        \/ islandPops[i][j] \in 1..mainPopIndex
        \/ islandPops[i][j] = Random /\ mainPopIndex = totalPopSize

InOrder ==
    \A i, k \in 1..Len(islandPops) :
        \A j \in 1..Len(islandPops[i]), l \in 1..Len(islandPops[k]) :
           (i < k \/ (i = k /\ j < l)) /\ islandPops[k][l] # Random
             => islandPops[i][j] # Random /\ islandPops[i][j] < islandPops[k][l]

PlacedInv ==
    /\ totalPopSize % 4 = 0 /\ remainingPop % 4 = 0
    /\ mainPopIndex <= totalPopSize
    /\ phase = "start" => mainPopIndex = 0
    /\ phase = "split" => Enough
    /\ phase \in {"evolve", "sent"} => mainPopIndex = totalPopSize
    /\ Complete /\ InRange /\ InOrder

LEMMA FourTimes ==
    ASSUME NEW n \in Nat
    PROVE  (4 * n) % 4 = 0
  OBVIOUS

LEMMA FourLess ==
    ASSUME NEW n \in Nat, n % 4 = 0
    PROVE  /\ n = 0 \/ n >= 4
           /\ n >= 4 => n - 4 \in Nat /\ (n - 4) % 4 = 0
  OBVIOUS

LEMMA MultipleOfFour ==
    ASSUME NEW b \in Nat, NEW n \in Nat, b % 4 = 0
    PROVE  (b * n) % 4 = 0
  <1>1. PICK d \in Nat : b = 4 * d
    OBVIOUS
  <1>2. d * n \in Nat
    BY ProductFacts
  <1>3. b * n = 4 * (d * n)
    BY <1>1
  <1>4. (4 * (d * n)) % 4 = 0
    BY <1>2, FourTimes
  <1>. QED  BY <1>3, <1>4, Zenon

LEMMA ProductMono ==
    ASSUME NEW a \in Nat, NEW b \in Nat, NEW c \in Nat, a <= b
    PROVE  a * c <= b * c
  OBVIOUS

LEMMA QuotientBound ==
    ASSUME NEW n \in Nat, NEW m \in Nat \ {0}
    PROVE  n < (n \div m + 1) * m
  OBVIOUS

\* With the base size and four more on every island nobody is left.
LEMMA BaseSizeIsLarge ==
    ASSUME NEW total \in Nat, NEW islands \in Nat \ {0}, NEW minPop \in Nat
    PROVE  total <= BaseSize(total, islands, minPop) * islands + 4 * islands
  <1> DEFINE base == BaseSize(total, islands, minPop)
             size == larger(minPop, total \div islands)
             q == total \div islands
  <1>1. size \in Nat /\ q \in Nat /\ size >= q
    BY ShareFacts, LargerFacts
  <1>2. base = IF size - (size % 4) = 0 THEN 4 ELSE size - (size % 4)
    BY DEF BaseSize
  <1>3. base \in Nat
    BY BaseSizeFacts
  <1>4. total < (q + 1) * islands
    BY QuotientBound
  <1> HIDE DEF size, base, q
  <1>5. q + 1 <= base + 4
    BY <1>1, <1>2
  <1>6. (q + 1) * islands <= (base + 4) * islands
    BY <1>1, <1>3, <1>5, ProductMono
  <1>7. (base + 4) * islands = base * islands + 4 * islands
    BY <1>3
  <1>8. (q + 1) * islands \in Nat /\ base * islands \in Nat
    BY <1>1, <1>3, ProductFacts
  <1>. QED  BY <1>4, <1>6, <1>7, <1>8 DEF base

LEMMA PlacedInit == Init => PlacedInv
  <1> SUFFICES ASSUME Init  PROVE  PlacedInv
    OBVIOUS
  <1>1. totalPopSize \in Nat /\ totalPopSize % 4 = 0
    <2>1. PICK share \in 0..MaxShare, minPop \in 0..MaxMinPopSize :
            totalPopSize = PlannedSize(share, minPop)
      BY DEF Init
    <2>2. share \in Nat /\ minPop \in Nat
      BY BoundsAssumption
    <2>3. larger(minPop, share) \in Nat
      BY <2>2, LargerFacts
    <2>. QED  BY <2>1, <2>3, CeilFacts DEF PlannedSize
  <1>2. /\ phase = "start" /\ remainingPop = 0 /\ mainPopIndex = 0
        /\ islandPops = << >>
    BY DEF Init
  <1>3. Complete /\ InRange /\ InOrder
    BY <1>2 DEF Complete, InRange, InOrder
  <1>. QED  BY <1>1, <1>2, <1>3 DEF PlacedInv

LEMMA ComputeSizesPlaces ==
    ASSUME SplitInv, PlacedInv, ComputeSizes
    PROVE  PlacedInv'
  <1> DEFINE product == baseSize' * islandCount
  <1>1. /\ phase = "start" /\ phase' = "split"
        /\ baseSize' = BaseSize(totalPopSize, islandCount, minIslandPopSize)
        /\ remainingPop' = IF product < totalPopSize THEN totalPopSize - product ELSE 0
        /\ UNCHANGED <<totalPopSize, islandCount, mainPopIndex, islandPops>>
    BY DEF ComputeSizes, inputs
  <1>2. /\ Inputs /\ islandPops = << >>
        /\ mainPopIndex = 0 /\ totalPopSize % 4 = 0
    BY <1>1 DEF SplitInv, PlacedInv
  <1>3. /\ baseSize' \in Nat /\ baseSize' % 4 = 0
    BY <1>1, <1>2, BaseSizeFacts DEF Inputs
  <1>4. product \in Nat /\ product % 4 = 0
    BY <1>2, <1>3, ProductFacts, MultipleOfFour DEF Inputs
  <1>5. totalPopSize <= product + 4 * islandCount
    BY <1>1, <1>2, BaseSizeIsLarge DEF Inputs
  <1>6. islandCount * baseSize' = product
    BY <1>2, <1>3 DEF Inputs
  <1> HIDE DEF product
  <1>7. /\ remainingPop' \in Nat /\ remainingPop' % 4 = 0
        /\ remainingPop' <= 4 * islandCount
        /\ remainingPop' + product >= totalPopSize
    BY <1>1, <1>2, <1>4, <1>5 DEF Inputs
  <1>8. Len(islandPops') = 0 /\ islandCount' - Len(islandPops') = islandCount
    BY <1>1, <1>2 DEF Inputs
  <1>9. Enough'
    BY <1>1, <1>2, <1>6, <1>7, <1>8, <1>4 DEF Enough, Inputs
  <1>10. Complete' /\ InRange' /\ InOrder'
    BY <1>1, <1>2 DEF Complete, InRange, InOrder
  <1>. QED  BY <1>1, <1>2, <1>7, <1>9, <1>10 DEF PlacedInv, Inputs

LEMMA PlacesUntouched ==
    ASSUME PlacedInv, UNCHANGED <<totalPopSize, mainPopIndex, islandPops>>
    PROVE  Complete' /\ InRange' /\ InOrder'
  <1>1. Complete' = Complete
    BY DEF Complete
  <1>2. InRange' = InRange
    BY DEF InRange
  <1>3. InOrder' = InOrder
    BY DEF InOrder
  <1>. QED  BY <1>1, <1>2, <1>3 DEF PlacedInv

LEMMA OneFewer ==
    ASSUME NEW n \in Nat, NEW b \in Nat, n >= 1
    PROVE  n * b = (n - 1) * b + b /\ (n - 1) * b \in Nat
  OBVIOUS

LEMMA SplitIslandPlaces ==
    ASSUME SplitInv, PlacedInv, SplitIsland
    PROVE  PlacedInv'
  <1> DEFINE pop == [j \in 1..CurrentSize |->
                       IF mainPopIndex + j <= totalPopSize THEN mainPopIndex + j
                                                           ELSE Random]
             k == Len(islandPops) + 1
  <1>1. /\ phase = "split" /\ phase' = "split" /\ Len(islandPops) < islandCount
        /\ remainingPop' = remainingPop - (CurrentSize - baseSize)
        /\ islandPops' = Append(islandPops, pop)
        /\ mainPopIndex' = IF mainPopIndex + CurrentSize < totalPopSize
                           THEN mainPopIndex + CurrentSize ELSE totalPopSize
        /\ UNCHANGED <<totalPopSize, islandCount, baseSize>>
    BY DEF SplitIsland, inputs
  <1>2. /\ totalPopSize \in Nat /\ islandCount \in Nat /\ baseSize \in Nat
        /\ remainingPop \in Nat /\ mainPopIndex \in Nat
        /\ islandPops \in Seq(Seq(Nat)) /\ Len(islandPops) \in Nat
        /\ mainPopIndex <= totalPopSize /\ remainingPop % 4 = 0
        /\ Enough /\ Complete /\ InRange /\ InOrder
    BY <1>1 DEF SplitInv, PlacedInv, Inputs, SplitTypes
  <1>3. /\ CurrentSize \in Nat
        /\ \/ remainingPop >= 4 /\ CurrentSize = baseSize + 4
           \/ remainingPop = 0 /\ CurrentSize = baseSize
    BY <1>2, FourLess DEF CurrentSize
  <1>4. pop \in Seq(Nat) /\ Len(pop) = CurrentSize
    <2>1. pop \in [1..CurrentSize -> Nat]
      BY <1>2, <1>3 DEF Random
    <2>. QED  BY <1>3, <2>1
  <1>5. \A j \in 1..Len(pop) : pop[j] = IF mainPopIndex + j <= totalPopSize
                                        THEN mainPopIndex + j ELSE 0
    BY <1>4 DEF Random
  <1> HIDE DEF pop
  <1>6. /\ Len(islandPops') = k
        /\ \A i \in 1..Len(islandPops) : islandPops'[i] = islandPops[i]
        /\ islandPops'[k] = pop
        /\ \A i \in 1..k : i \in 1..Len(islandPops) \/ i = k
    BY <1>1, <1>2, <1>4, AppendProperties
  <1>7. /\ mainPopIndex' \in Nat /\ mainPopIndex <= mainPopIndex'
        /\ mainPopIndex' <= totalPopSize
        /\ mainPopIndex' <= mainPopIndex + Len(pop)
        /\ mainPopIndex' = mainPopIndex + Len(pop) \/ mainPopIndex' = totalPopSize
    BY <1>1, <1>2, <1>3, <1>4
  <1>8. remainingPop' \in Nat /\ remainingPop' % 4 = 0
    <2>1. CASE remainingPop >= 4 /\ CurrentSize = baseSize + 4
      <3>1. remainingPop' = remainingPop - 4
        BY <1>1, <1>2, <2>1
      <3>. QED  BY <1>2, <2>1, <3>1, FourLess
    <2>2. CASE remainingPop = 0 /\ CurrentSize = baseSize
      <3>1. remainingPop' = remainingPop
        BY <1>1, <1>2, <2>2
      <3>. QED  BY <1>2, <3>1
    <2>. QED  BY <1>3, <2>1, <2>2
  <1>9. Enough'
    <2> DEFINE left == islandCount - Len(islandPops)
               rest == (left - 1) * baseSize
    <2>1. left \in Nat /\ left >= 1 /\ islandCount' - Len(islandPops') = left - 1
      BY <1>1, <1>2, <1>6
    <2>2. /\ remainingPop <= 4 * left
          /\ mainPopIndex + remainingPop + left * baseSize >= totalPopSize
      BY <1>2 DEF Enough
    <2>3. left * baseSize = rest + baseSize /\ rest \in Nat
      BY <1>2, <2>1, OneFewer
    <2>4. Enough' = /\ left - 1 \in Nat
                    /\ remainingPop' <= 4 * (left - 1)
                    /\ mainPopIndex' + remainingPop' + rest >= totalPopSize
      BY <1>1, <2>1 DEF Enough
    <2> HIDE DEF left, rest
    <2>5. remainingPop' <= 4 * (left - 1)
      BY <1>1, <1>2, <1>3, <2>1, <2>2
    <2>6. mainPopIndex' + remainingPop' + rest >= totalPopSize
      BY <1>1, <1>2, <1>3, <1>8, <2>1, <2>2, <2>3
    <2>. QED  BY <2>1, <2>4, <2>5, <2>6
  <1>10. Complete'
    <2> SUFFICES ASSUME NEW n \in 1..mainPopIndex'
                 PROVE  \E i \in 1..k : \E j \in 1..Len(islandPops'[i]) :
                           islandPops'[i][j] = n
      BY <1>6 DEF Complete
    <2>1. CASE n <= mainPopIndex
      <3>1. n \in 1..mainPopIndex
        BY <2>1, <1>2, <1>7
      <3>2. PICK i \in 1..Len(islandPops) :
              \E j \in 1..Len(islandPops[i]) : islandPops[i][j] = n
        BY <3>1, <1>2 DEF Complete
      <3>3. i \in 1..k /\ islandPops'[i] = islandPops[i]
        BY <1>2, <1>6
      <3>. QED  BY <3>2, <3>3
    <2>2. CASE n > mainPopIndex
      <3>1. /\ n - mainPopIndex \in 1..Len(pop)
            /\ pop[n - mainPopIndex] = n
        BY <2>2, <1>2, <1>3, <1>4, <1>5, <1>7
      <3>2. k \in 1..k
        BY <1>2
      <3>. QED  BY <3>1, <3>2, <1>6
    <2>. QED  BY <2>1, <2>2, <1>2, <1>7
  <1>11. \A j \in 1..Len(pop) :
            \/ pop[j] \in 1..mainPopIndex' /\ pop[j] = mainPopIndex + j
            \/ pop[j] = 0 /\ mainPopIndex' = totalPopSize
    BY <1>2, <1>3, <1>4, <1>5, <1>7
  <1>12. InRange'
    <2> SUFFICES ASSUME NEW i \in 1..k, NEW j \in 1..Len(islandPops'[i])
                 PROVE  \/ islandPops'[i][j] \in 1..mainPopIndex'
                        \/ islandPops'[i][j] = 0 /\ mainPopIndex' = totalPopSize
      BY <1>1, <1>6 DEF InRange, Random
    <2>1. CASE i = k
      BY <2>1, <1>6, <1>11
    <2>2. CASE i \in 1..Len(islandPops)
      <3>1. j \in 1..Len(islandPops[i]) /\ islandPops'[i][j] = islandPops[i][j]
        BY <2>2, <1>6
      <3>2. \/ islandPops[i][j] \in 1..mainPopIndex
            \/ islandPops[i][j] = 0 /\ mainPopIndex = totalPopSize
        BY <2>2, <3>1, <1>2 DEF InRange, Random
      <3>. QED  BY <3>1, <3>2, <1>2, <1>7
    <2>. QED  BY <2>1, <2>2, <1>6
  <1>13. InOrder'
    <2> SUFFICES ASSUME NEW i \in 1..k, NEW m \in 1..k,
                        NEW j \in 1..Len(islandPops'[i]), NEW l \in 1..Len(islandPops'[m]),
                        i < m \/ (i = m /\ j < l), islandPops'[m][l] # 0
                 PROVE  islandPops'[i][j] # 0 /\ islandPops'[i][j] < islandPops'[m][l]
      BY <1>6 DEF InOrder, Random
    <2>1. CASE m \in 1..Len(islandPops)
      <3>1. i \in 1..Len(islandPops)
        BY <2>1, <1>2
      <3>2. islandPops'[i] = islandPops[i] /\ islandPops'[m] = islandPops[m]
        BY <2>1, <3>1, <1>6
      <3>. QED  BY <2>1, <3>1, <3>2, <1>2 DEF InOrder, Random
    <2>2. CASE m = k
      <3>1. l \in 1..Len(pop) /\ pop[l] # 0 /\ islandPops'[m][l] = pop[l]
        BY <2>2, <1>6
      <3>2. pop[l] = mainPopIndex + l /\ mainPopIndex + l <= totalPopSize
        BY <3>1, <1>5
      <3>3. CASE i = k
        <4>1. j \in 1..Len(pop) /\ j < l /\ islandPops'[i][j] = pop[j]
          BY <2>2, <3>3, <1>2, <1>6
        <4>2. Len(pop) \in Nat
          BY <1>3, <1>4
        <4>. QED  BY <3>1, <3>2, <4>1, <4>2, <1>2, <1>5
      <3>4. CASE i \in 1..Len(islandPops)
        <4>1. /\ j \in 1..Len(islandPops[i]) /\ islandPops'[i][j] = islandPops[i][j]
          BY <3>4, <1>6
        <4>2. mainPopIndex # totalPopSize /\ l \in Nat /\ l >= 1
          BY <3>1, <3>2, <1>2, <1>3, <1>4
        <4>3. islandPops[i][j] \in 1..mainPopIndex
          <5>1. \/ islandPops[i][j] \in 1..mainPopIndex
                \/ mainPopIndex = totalPopSize
            BY <3>4, <4>1, <1>2 DEF InRange
          <5>. QED  BY <5>1, <4>2
        <4>4. mainPopIndex \in Nat
          BY <1>2
        <4>5. islandPops[i][j] # 0 /\ islandPops[i][j] < mainPopIndex + l
          BY <4>2, <4>3, <4>4
        <4>6. islandPops'[m][l] = mainPopIndex + l
          BY <3>1, <3>2
        <4>. QED  BY <4>1, <4>5, <4>6, Zenon
      <3>. QED  BY <3>3, <3>4, <1>6
    <2>. QED  BY <2>1, <2>2, <1>6
  <1>. QED
    BY <1>1, <1>7, <1>8, <1>9, <1>10, <1>12, <1>13 DEF PlacedInv

\* When the loop ends no extra individuals remain, and so nobody does.
LEMMA StartArchipelagoPlaces ==
    ASSUME SplitInv, PlacedInv, StartArchipelago
    PROVE  PlacedInv'
  <1>1. /\ phase = "split" /\ phase' = "evolve" /\ Len(islandPops) = islandCount
        /\ UNCHANGED <<totalPopSize, remainingPop, mainPopIndex, islandPops>>
    BY DEF StartArchipelago, inputs
  <1>2. /\ totalPopSize \in Nat /\ islandCount \in Nat /\ baseSize \in Nat
        /\ remainingPop \in Nat /\ mainPopIndex \in Nat
        /\ mainPopIndex <= totalPopSize /\ Enough
    BY <1>1 DEF SplitInv, PlacedInv, Inputs, SplitTypes
  <1>3. islandCount - Len(islandPops) = 0 /\ 0 * baseSize = 0
    BY <1>1, <1>2
  <1>4. mainPopIndex = totalPopSize
    BY <1>2, <1>3 DEF Enough
  <1>5. Complete' /\ InRange' /\ InOrder'
    BY <1>1, PlacesUntouched
  <1>. QED  BY <1>1, <1>2, <1>4, <1>5 DEF PlacedInv

LEMMA PlacedNext == SplitInv /\ PlacedInv /\ [Next]_vars => PlacedInv'
  <1> SUFFICES ASSUME SplitInv, PlacedInv, [Next]_vars  PROVE  PlacedInv'
    OBVIOUS
  <1>1. CASE UNCHANGED vars \/ Done
    <2>1. UNCHANGED <<phase, totalPopSize, islandCount, baseSize, remainingPop,
                      mainPopIndex, islandPops>>
      BY <1>1 DEF Done, vars
    <2>2. Complete' /\ InRange' /\ InOrder'
      BY <2>1, PlacesUntouched
    <2>. QED  BY <2>1, <2>2 DEF PlacedInv, Enough
  <1>2. CASE EvolveAndSend
    <2>1. /\ phase = "evolve" /\ phase' = "sent"
          /\ UNCHANGED <<totalPopSize, remainingPop, mainPopIndex, islandPops>>
      BY <1>2 DEF EvolveAndSend, inputs
    <2>2. Complete' /\ InRange' /\ InOrder'
      BY <2>1, PlacesUntouched
    <2>. QED  BY <2>1, <2>2 DEF PlacedInv
  <1>. QED
    BY <1>1, <1>2, ComputeSizesPlaces, SplitIslandPlaces, StartArchipelagoPlaces DEF Next

-----------------------------------------------------------------------------
(***************************************************************************)
(* The selection.  Ranks that are a permutation of 0..size-1 are the       *)
(* places the sort gives, less one: as many individuals come before one as *)
(* there are smaller ranks.                                                *)
(***************************************************************************)
Ranks(fitness, size) ==
    /\ Len(fitness) = size
    /\ \A n \in 1..size : fitness[n] \in 0..(size - 1)
    /\ \A n, m \in 1..size : fitness[n] = fitness[m] => n = m
    /\ \A r \in 0..(size - 1) : \E n \in 1..size : fitness[n] = r

LEMMA SmallerRanks ==
    ASSUME NEW size \in Nat, NEW fitness, Ranks(fitness, size), NEW n \in 1..size
    PROVE  Cardinality({m \in 1..size : fitness[m] < fitness[n]
                                        \/ (fitness[m] = fitness[n] /\ m < n)})
             = fitness[n]
  <1> DEFINE S == {m \in 1..size : fitness[m] < fitness[n]
                                   \/ (fitness[m] = fitness[n] /\ m < n)}
             T == 0..(fitness[n] - 1)
             g == [r \in T |-> CHOOSE m \in 1..size : fitness[m] = r]
  <1>1. /\ fitness[n] \in Nat /\ fitness[n] <= size - 1
        /\ \A m \in 1..size : fitness[m] \in Nat /\ fitness[m] <= size - 1
    BY DEF Ranks
  <1>2. S = {m \in 1..size : fitness[m] < fitness[n]}
    <2>1. \A m \in 1..size : ~(fitness[m] = fitness[n] /\ m < n)
      BY DEF Ranks
    <2>. QED  BY <2>1
  <1>3. ASSUME NEW r \in T
        PROVE  g[r] \in 1..size /\ fitness[g[r]] = r
    <2>1. r \in 0..(size - 1)
      BY <1>1
    <2>2. \E m \in 1..size : fitness[m] = r
      BY <2>1 DEF Ranks
    <2>. QED  BY <2>2
  <1>4. \A m \in S : m \in 1..size /\ fitness[m] \in T
    BY <1>1, <1>2
  <1>5. g = [r \in T |-> g[r]]
    OBVIOUS
  <1>6. \A r \in T : r < fitness[n]
    BY <1>1
  <1> HIDE DEF g
  <1>7. g \in Bijection(T, S)
    <2>1. g \in [T -> S]
      BY <1>2, <1>3, <1>5, <1>6
    <2>2. \A a, b \in T : g[a] = g[b] => a = b
      BY <1>3
    <2>3. ASSUME NEW m \in S
          PROVE  g[fitness[m]] = m
      <3>1. fitness[m] \in T /\ m \in 1..size
        BY <1>4
      <3>2. g[fitness[m]] \in 1..size /\ fitness[g[fitness[m]]] = fitness[m]
        BY <3>1, <1>3
      <3>. QED  BY <3>1, <3>2 DEF Ranks
    <2>4. \A m \in S : \E r \in T : g[r] = m
      BY <1>4, <2>3
    <2> HIDE DEF S, T
    <2>. QED  BY <2>1, <2>2, <2>4 DEF Bijection, Injection, Surjection, IsInjective
  <1> HIDE DEF S
  <1>8. ExistsBijection(T, S)
    BY <1>7 DEF ExistsBijection
  <1>9. IsFiniteSet(T) /\ Cardinality(T) = fitness[n]
    <2>1. fitness[n] - 1 \in Int /\ 0 \in Int
      BY <1>1
    <2>2. /\ IsFiniteSet(T)
          /\ Cardinality(T) = IF 0 > fitness[n] - 1 THEN 0 ELSE (fitness[n] - 1) - 0 + 1
      BY <2>1, FS_Interval
    <2>. QED  BY <1>1, <2>2
  <1>10. Cardinality(S) = fitness[n]
    BY <1>8, <1>9, FS_Bijection
  <1>. QED  BY <1>10 DEF S

LEMMA SortFacts ==
    ASSUME NEW size \in Nat, NEW fitness, Ranks(fitness, size)
    PROVE  /\ SortedIndexes(fitness) \in [1..size -> 1..size]
           /\ \A k \in 1..size : fitness[SortedIndexes(fitness)[k]] = k - 1
  <1> DEFINE place == [n \in 1..size |->
                1 + Cardinality({m \in 1..size : fitness[m] < fitness[n]
                                                 \/ (fitness[m] = fitness[n] /\ m < n)})]
             idx == [k \in 1..size |-> CHOOSE n \in 1..size : place[n] = k]
  <1>1. SortedIndexes(fitness) = idx
    BY DEF SortedIndexes, Ranks
  <1>2. \A n \in 1..size : place[n] = 1 + fitness[n]
    BY SmallerRanks
  <1> HIDE DEF place
  <1>3. ASSUME NEW k \in 1..size
        PROVE  idx[k] \in 1..size /\ fitness[idx[k]] = k - 1
    <2>1. k - 1 \in 0..(size - 1)
      OBVIOUS
    <2>2. PICK n \in 1..size : fitness[n] = k - 1
      BY <2>1 DEF Ranks
    <2>3. place[n] = k
      BY <1>2, <2>2
    <2>4. idx[k] \in 1..size /\ place[idx[k]] = k
      BY <2>3
    <2> HIDE DEF idx
    <2>5. fitness[idx[k]] \in Nat
      BY <2>4 DEF Ranks
    <2>. QED  BY <1>2, <2>4, <2>5
  <1>4. idx \in [1..size -> 1..size]
    BY <1>3
  <1> HIDE DEF idx
  <1>. QED  BY <1>1, <1>3, <1>4

LEMMA RotationFacts ==
    ASSUME NEW size \in Nat, NEW shift \in 0..(size - 1), NEW n \in 1..size
    PROVE  (n + shift) % size = IF n + shift < size THEN n + shift ELSE n + shift - size
  OBVIOUS

\* A rotation of a strict order is one.
LEMMA EvolvedRanks ==
    ASSUME NEW size \in Nat, NEW shift \in 0..(size - 1), NEW fitness,
           fitness = [n \in 1..size |-> Evolved(size, shift)[n].f]
    PROVE  Ranks(fitness, size)
  <1>1. \A n \in 1..size :
          fitness[n] = IF n + shift < size THEN n + shift ELSE n + shift - size
    <2>1. \A n \in 1..size : fitness[n] = (n + shift) % size
      BY DEF Evolved
    <2>. QED  BY <2>1, RotationFacts
  <1>2. Len(fitness) = size
    OBVIOUS
  <1>3. \A n \in 1..size : fitness[n] \in 0..(size - 1)
    BY <1>1
  <1>4. \A n, m \in 1..size : fitness[n] = fitness[m] => n = m
    BY <1>1
  <1>5. ASSUME NEW r \in 0..(size - 1)
        PROVE  \E n \in 1..size : fitness[n] = r
    <2>1. CASE r > shift
      <3>1. r - shift \in 1..size /\ fitness[r - shift] = r
        BY <1>1, <2>1
      <3>. QED  BY <3>1
    <2>2. CASE r <= shift
      <3>1. r + size - shift \in 1..size /\ fitness[r + size - shift] = r
        BY <1>1, <2>2
      <3>. QED  BY <3>1
    <2>. QED  BY <2>1, <2>2
  <1>. QED  BY <1>2, <1>3, <1>4, <1>5 DEF Ranks

\* N different individuals, the best first.
BestOf(best, N) ==
    /\ Len(best) = N
    /\ \A n \in 1..N : best[n].f = n - 1
    /\ \A n, m \in 1..N : best[n].x = best[m].x => n = m

\* What select_best_N_into_new_population() makes of at least N individuals.
LEMMA SelectionFacts ==
    ASSUME NEW size \in Nat, NEW shift \in 0..(size - 1), NEW N \in 0..size,
           NEW mo \in BOOLEAN, NEW best,
           best = select_best_N_into_new_population(mo, Evolved(size, shift), N)
    PROVE  BestOf(best, N)
  <1> DEFINE pop == Evolved(size, shift)
             fitness == [n \in 1..size |-> pop[n].f]
             idx == SortedIndexes(fitness)
             chosen == get_best_N_individuals_indexes(mo, fitness, N)
  <1>1. /\ Len(pop) = size
        /\ \A n \in 1..size : pop[n].x = n /\ pop[n].f = fitness[n]
    BY DEF Evolved
  <1>2. Ranks(fitness, size)
    BY EvolvedRanks
  <1>3. best = [n \in 1..Len(chosen) |-> pop[chosen[n]]]
    BY <1>1 DEF select_best_N_into_new_population
  <1> HIDE DEF pop, fitness
  <1>4. /\ idx \in [1..size -> 1..size]
        /\ \A k \in 1..size : fitness[idx[k]] = k - 1
    BY <1>2, SortFacts
  <1> HIDE DEF idx
  <1>5. Len(idx) = size
    BY <1>4
  <1>6. Len(chosen) = N /\ \A n \in 1..N : chosen[n] = idx[n]
    <2>1. CASE mo
      <3>1. chosen = SubSeq(idx, 1, IF N < Len(idx) THEN N ELSE Len(idx))
        BY <2>1 DEF get_best_N_individuals_indexes, select_best_N_mo, idx
      <3>2. chosen = SubSeq(idx, 1, N)
        BY <1>5, <3>1
      <3>3. idx \in Seq(1..size)
        <4> DEFINE S == 1..size
        <4>1. idx \in [1..size -> S]
          BY <1>4
        <4> HIDE DEF S
        <4>2. idx \in Seq(S)
          BY <4>1
        <4>. QED  BY <4>2 DEF S
      <3>4. Len(SubSeq(idx, 1, N)) = N /\ \A n \in 1..N : SubSeq(idx, 1, N)[n] = idx[n]
        BY <1>5, <3>3
      <3>. QED  BY <3>2, <3>4
    <2>2. CASE ~mo
      <3>1. chosen = [n \in 1..N |-> IF n <= Len(idx) THEN idx[n] ELSE 1]
        BY <2>2 DEF get_best_N_individuals_indexes, select_best_N_so, idx
      <3>. QED  BY <1>5, <3>1
    <2>. QED  BY <2>1, <2>2
  <1> HIDE DEF chosen
  <1>7. \A n \in 1..N : n \in 1..size /\ idx[n] \in 1..size
    BY <1>4
  <1>8. Len(best) = N /\ \A n \in 1..N : best[n] = pop[idx[n]]
    BY <1>3, <1>6
  <1>9. \A n \in 1..N : best[n].f = n - 1 /\ best[n].x = idx[n]
    BY <1>1, <1>4, <1>7, <1>8
  <1>10. ASSUME NEW n \in 1..N, NEW m \in 1..N, idx[n] = idx[m]
         PROVE  n = m
    <2>1. fitness[idx[n]] = n - 1 /\ fitness[idx[m]] = m - 1
      BY <1>4, <1>7
    <2>2. n - 1 = m - 1
      BY <2>1, <1>10
    <2>. QED  BY <2>2
  <1>. QED  BY <1>8, <1>9, <1>10 DEF BestOf

-----------------------------------------------------------------------------
(***************************************************************************)
(* The merged population.  The loop of the split adds one island at a      *)
(* time, so that what they merge to is known from step to step.            *)
(***************************************************************************)
Flattens(f, seqs) ==
    f = [i \in 1..Len(seqs) |-> IF i = 1 THEN seqs[i] ELSE f[i - 1] \o seqs[i]]

HasFlatten(seqs) == \E g : \A f : Flattens(f, seqs) <=> f = g

LEMMA FlattenOf ==
    ASSUME NEW s, Len(s) # 0, NEW f, Flattens(f, s), HasFlatten(s)
    PROVE  FlattenSeq(s) = f[Len(s)]
  <1> DEFINE c == CHOOSE g : Flattens(g, s)
  <1>1. Flattens(c, s)
    OBVIOUS
  <1>2. FlattenSeq(s) = c[Len(s)]
    BY DEF FlattenSeq, Flattens
  <1>3. c = f
    BY <1>1 DEF HasFlatten
  <1>. QED  BY <1>2, <1>3

LEMMA FlattenEmpty ==
    ASSUME NEW s, Len(s) = 0
    PROVE  HasFlatten(s) /\ FlattenSeq(s) = s
  <1> DEFINE g == [i \in 1..0 |-> 0]
  <1>1. \A f : [i \in 1..Len(s) |-> IF i = 1 THEN s[i] ELSE f[i - 1] \o s[i]] = g
    OBVIOUS
  <1> HIDE DEF g
  <1>2. Flattens(g, s)
    BY <1>1, Zenon DEF Flattens
  <1>3. ASSUME NEW f, Flattens(f, s)
        PROVE  f = g
    BY <1>1, <1>3, Zenon DEF Flattens
  <1>4. HasFlatten(s)
    BY <1>2, <1>3 DEF HasFlatten
  <1>. QED  BY <1>4 DEF FlattenSeq

LEMMA FlattenAppend ==
    ASSUME NEW s \in Seq(Seq(Nat)), NEW e \in Seq(Nat), HasFlatten(s)
    PROVE  /\ HasFlatten(Append(s, e))
           /\ FlattenSeq(Append(s, e)) = FlattenSeq(s) \o e
  <1> DEFINE t == Append(s, e)
             k == Len(s)
  <1>1. /\ k \in Nat /\ Len(t) = k + 1
        /\ \A n \in 1..k : t[n] = s[n]
        /\ t[k + 1] = e
    BY AppendProperties
  <1> HIDE DEF t, k
  <1>2. PICK g : \A f : Flattens(f, s) <=> f = g
    BY DEF HasFlatten
  <1>3. g = [i \in 1..k |-> IF i = 1 THEN s[i] ELSE g[i - 1] \o s[i]]
    BY <1>2 DEF Flattens, k
  <1> DEFINE last == IF k = 0 THEN e ELSE g[k] \o e
             h == [i \in 1..(k + 1) |-> IF i = k + 1 THEN last ELSE g[i]]
  <1>4. Flattens(h, t)
    <2>1. ASSUME NEW i \in 1..(k + 1)
          PROVE  h[i] = IF i = 1 THEN t[i] ELSE h[i - 1] \o t[i]
      <3>1. CASE i = k + 1
        <4>1. CASE k = 0
          BY <1>1, <3>1, <4>1
        <4>2. CASE k # 0
          <5>1. i - 1 = k /\ i # 1 /\ k \in 1..(k + 1) /\ k # k + 1
            BY <1>1, <3>1, <4>2
          <5>2. h[i] = g[k] \o e /\ h[i - 1] = g[k]
            BY <3>1, <4>2, <5>1
          <5>. QED  BY <1>1, <3>1, <5>1, <5>2
        <4>. QED  BY <4>1, <4>2
      <3>2. CASE i # k + 1
        <4>1. /\ i \in 1..k /\ i # k + 1 /\ i - 1 # k + 1
              /\ i # 1 => i - 1 \in 1..k /\ i - 1 \in 1..(k + 1)
          BY <1>1, <3>2
        <4>2. h[i] = g[i] /\ (i # 1 => h[i - 1] = g[i - 1])
          BY <4>1
        <4>3. g[i] = IF i = 1 THEN s[i] ELSE g[i - 1] \o s[i]
          BY <1>3, <4>1
        <4> HIDE DEF h
        <4>. QED  BY <1>1, <4>1, <4>2, <4>3
      <3>. QED  BY <3>1, <3>2
    <2>2. h = [i \in 1..(k + 1) |-> h[i]]
      OBVIOUS
    <2> HIDE DEF h
    <2>. QED  BY <1>1, <2>1, <2>2 DEF Flattens
  <1>5. ASSUME NEW f, Flattens(f, t)
        PROVE  f = h
    <2> DEFINE r == [i \in 1..k |-> f[i]]
    <2>1. f = [i \in 1..(k + 1) |-> IF i = 1 THEN t[i] ELSE f[i - 1] \o t[i]]
      BY <1>1, <1>5 DEF Flattens
    <2>2. r = [i \in 1..k |-> IF i = 1 THEN s[i] ELSE r[i - 1] \o s[i]]
      <3>1. ASSUME NEW i \in 1..k
            PROVE  f[i] = IF i = 1 THEN s[i] ELSE r[i - 1] \o s[i]
        <4>1. i \in 1..(k + 1) /\ (i # 1 => i - 1 \in 1..k)
          BY <1>1
        <4>2. t[i] = s[i]
          BY <1>1
        <4>3. f[i] = IF i = 1 THEN t[i] ELSE f[i - 1] \o t[i]
          BY <2>1, <4>1
        <4>4. i # 1 => r[i - 1] = f[i - 1]
          BY <4>1
        <4> HIDE DEF r
        <4>. QED  BY <4>2, <4>3, <4>4
      <3>. QED  BY <3>1
    <2>3. r = g
      BY <1>2, <2>2 DEF Flattens, k
    <2> HIDE DEF r
    <2>4. \A i \in 1..k : f[i] = g[i]
      BY <2>3 DEF r
    <2>5. f[k + 1] = last
      <3>1. k + 1 \in 1..(k + 1) /\ (k + 1) - 1 = k
        BY <1>1
      <3>2. f[k + 1] = IF k + 1 = 1 THEN t[k + 1] ELSE f[k] \o t[k + 1]
        BY <2>1, <3>1
      <3>3. CASE k = 0
        BY <1>1, <3>2, <3>3
      <3>4. CASE k # 0
        <4>1. k \in 1..k /\ k + 1 # 1
          BY <1>1, <3>4
        <4>. QED  BY <1>1, <2>4, <3>2, <3>4, <4>1
      <3>. QED  BY <3>3, <3>4
    <2>6. \A i \in 1..(k + 1) : i = k + 1 \/ i \in 1..k
      BY <1>1
    <2> HIDE DEF last
    <2>7. \A i \in 1..(k + 1) : f[i] = h[i]
      BY <2>4, <2>5, <2>6
    <2>8. f = [i \in 1..(k + 1) |-> f[i]]
      BY <2>1
    <2>. QED  BY <2>7, <2>8
  <1>6. HasFlatten(t)
    BY <1>4, <1>5 DEF HasFlatten
  <1>7. h[k + 1] = last
    BY <1>1
  <1> HIDE DEF h
  <1>8. FlattenSeq(t) = last
    <2>1. Len(t) # 0 /\ Len(t) = k + 1
      BY <1>1
    <2>2. FlattenSeq(t) = h[Len(t)]
      BY <1>4, <1>6, <2>1, FlattenOf, Zenon
    <2>. QED  BY <1>7, <2>1, <2>2, Zenon
  <1>9. CASE k = 0
    <2>1. s = << >>
      BY <1>9, EmptySeq DEF k
    <2>2. FlattenSeq(s) = << >>
      BY <1>9, <2>1, FlattenEmpty DEF k
    <2>3. << >> \o e = e
      BY ConcatEmptySeq
    <2>. QED  BY <1>6, <1>8, <1>9, <2>2, <2>3 DEF t
  <1>10. CASE k # 0
    <2>1. FlattenSeq(s) = g[k]
      BY <1>2, <1>10, FlattenOf DEF k
    <2>. QED  BY <1>6, <1>8, <1>10, <2>1 DEF t
  <1>. QED  BY <1>9, <1>10

-----------------------------------------------------------------------------
\* Merging the islands gives at least the individuals that were handed out.
Merged ==
    /\ HasFlatten(islandPops)
    /\ merge_populations(islandPops) \in Seq(Nat)
    /\ MergedSize >= mainPopIndex

ResultsInv ==
    multiObjective \in BOOLEAN /\ Merged /\ (phase = "sent" => BestOf(newPop, totalPopSize))

LEMMA ResultsInit == Init => ResultsInv
  <1> SUFFICES ASSUME Init  PROVE  ResultsInv
    OBVIOUS
  <1>1. /\ phase = "start" /\ islandPops = << >> /\ mainPopIndex = 0
        /\ multiObjective \in BOOLEAN
    BY DEF Init
  <1>2. << >> \in Seq(Nat) /\ Len(<< >>) = 0
    OBVIOUS
  <1>3. merge_populations(islandPops) = << >> /\ HasFlatten(islandPops)
    BY <1>1, <1>2, FlattenEmpty DEF merge_populations
  <1>4. MergedSize = 0 /\ mainPopIndex = 0
    BY <1>1, <1>2, <1>3 DEF MergedSize
  <1>5. MergedSize >= mainPopIndex
    BY <1>4
  <1>6. Merged
    BY <1>2, <1>3, <1>5, Zenon DEF Merged
  <1>7. phase # "sent"
    BY <1>1
  <1>. QED  BY <1>1, <1>6, <1>7, Zenon DEF ResultsInv

LEMMA ResultsUntouched ==
    ASSUME ResultsInv,
           UNCHANGED <<totalPopSize, multiObjective, mainPopIndex, islandPops, newPop>>,
           phase' = "sent" => phase = "sent"
    PROVE  ResultsInv'
  <1>1. Merged' = Merged
    BY DEF Merged, MergedSize
  <1>2. BestOf(newPop, totalPopSize)' = BestOf(newPop, totalPopSize)
    BY DEF BestOf
  <1>. QED  BY <1>1, <1>2 DEF ResultsInv

LEMMA SplitIslandMerges ==
    ASSUME SplitInv, ResultsInv, SplitIsland
    PROVE  ResultsInv'
  <1> DEFINE pop == [j \in 1..CurrentSize |->
                       IF mainPopIndex + j <= totalPopSize THEN mainPopIndex + j
                                                           ELSE Random]
             merged == FlattenSeq(islandPops)
  <1>1. /\ phase = "split" /\ phase' = "split"
        /\ islandPops' = Append(islandPops, pop)
        /\ mainPopIndex' = IF mainPopIndex + CurrentSize < totalPopSize
                           THEN mainPopIndex + CurrentSize ELSE totalPopSize
        /\ UNCHANGED multiObjective
    BY DEF SplitIsland, inputs
  <1>2. /\ totalPopSize \in Nat /\ mainPopIndex \in Nat /\ islandPops \in Seq(Seq(Nat))
        /\ CurrentSize \in Nat
    BY DEF SplitInv, Inputs, SplitTypes, CurrentSize
  <1>3. pop \in Seq(Nat) /\ Len(pop) = CurrentSize
    <2>1. pop \in [1..CurrentSize -> Nat] /\ CurrentSize \in Nat
      BY <1>2 DEF Random
    <2> HIDE DEF pop
    <2>. QED  BY <2>1
  <1> HIDE DEF pop
  <1>4. HasFlatten(islandPops) /\ merged \in Seq(Nat) /\ Len(merged) >= mainPopIndex
    BY DEF ResultsInv, Merged, MergedSize, merge_populations
  <1>5. HasFlatten(islandPops') /\ FlattenSeq(islandPops') = merged \o pop
    BY <1>1, <1>2, <1>3, <1>4, FlattenAppend
  <1> HIDE DEF merged
  <1>6. /\ merged \o pop \in Seq(Nat) /\ Len(merged) \in Nat
        /\ Len(merged \o pop) = Len(merged) + CurrentSize
    BY <1>3, <1>4
  <1>7. mainPopIndex' <= Len(merged) + CurrentSize
    BY <1>1, <1>2, <1>4, <1>6
  <1>8. MergedSize' = Len(merged) + CurrentSize
    BY <1>5, <1>6 DEF MergedSize, merge_populations
  <1>9. Merged'
    BY <1>5, <1>6, <1>7, <1>8 DEF Merged, merge_populations
  <1>. QED  BY <1>1, <1>9 DEF ResultsInv

LEMMA EvolveAndSendSelects ==
    ASSUME SplitInv, PlacedInv, ResultsInv, EvolveAndSend
    PROVE  ResultsInv'
  <1> DEFINE size == MergedSize
  <1>1. /\ phase = "evolve"
        /\ UNCHANGED <<totalPopSize, multiObjective, mainPopIndex, islandPops>>
    BY DEF EvolveAndSend, inputs
  <1>2. PICK shift \in 0..(size - 1) :
          newPop' = select_best_N_into_new_population(multiObjective,
                        Evolved(size, shift), totalPopSize)
    BY DEF EvolveAndSend
  <1>3. size \in Nat /\ multiObjective \in BOOLEAN
    BY DEF ResultsInv, Merged, MergedSize
  <1>4. totalPopSize \in 0..size
    <2>1. totalPopSize \in Nat /\ mainPopIndex = totalPopSize
      BY <1>1 DEF SplitInv, Inputs, PlacedInv
    <2>. QED  BY <2>1, <1>3 DEF ResultsInv, Merged
  <1> HIDE DEF size
  <1>5. BestOf(newPop', totalPopSize)
    BY <1>2, <1>3, <1>4, SelectionFacts, Zenon
  <1>6. BestOf(newPop, totalPopSize)'
    BY <1>1, <1>5 DEF BestOf
  <1>7. Merged' = Merged
    BY <1>1 DEF Merged, MergedSize
  <1>. QED  BY <1>1, <1>6, <1>7 DEF ResultsInv

LEMMA ResultsNext == SplitInv /\ PlacedInv /\ ResultsInv /\ [Next]_vars => ResultsInv'
  <1> SUFFICES ASSUME SplitInv, PlacedInv, ResultsInv, [Next]_vars
               PROVE  ResultsInv'
    OBVIOUS
  <1>1. CASE UNCHANGED vars \/ Done
    BY <1>1, ResultsUntouched DEF Done, vars
  <1>2. CASE ComputeSizes
    BY <1>2, ResultsUntouched DEF ComputeSizes, inputs
  <1>3. CASE StartArchipelago
    BY <1>3, ResultsUntouched DEF StartArchipelago, inputs
  <1>. QED
    BY <1>1, <1>2, <1>3, SplitIslandMerges, EvolveAndSendSelects DEF Next

-----------------------------------------------------------------------------
\* _split_population_for_islands() keeps its sizes in every state of its loop.
THEOREM SplitHolds == Spec => []SplitInv
  BY SplitInit, SplitNext, PTL DEF Spec

\* Rounding down to a multiple of 4 keeps the whole fours of what it rounds.
LEMMA WholeFours ==
    ASSUME NEW b \in Nat, NEW m \in Nat, b % 4 = 0, b + 3 >= m
    PROVE  b >= m - (m % 4)
  <1>1. m = 4 * (m \div 4) + (m % 4) /\ m % 4 \in 0..3 /\ m \div 4 \in Nat
    OBVIOUS
  <1>2. b = 4 * (b \div 4) + (b % 4) /\ b \div 4 \in Nat
    OBVIOUS
  <1>3. ASSUME NEW p \in Nat, NEW q \in Nat, NEW r \in 0..3, 4 * p + 3 >= 4 * q + r
        PROVE  4 * p >= 4 * q
    BY <1>3
  <1>4. 4 * (b \div 4) >= 4 * (m \div 4)
    BY <1>1, <1>2, <1>3
  <1>. QED  BY <1>1, <1>2, <1>4

\* Every island of a worker has a size that is a multiple of 4 and not 0, at
\* least the whole fours of the host's minimum, and at most four individuals
\* more than any other island, for any number of cores.
THEOREM IslandsAreEven == Spec => []IslandSizesAreEven
  <1>1. SplitInv => IslandSizesAreEven
    <2> SUFFICES ASSUME SplitInv, IsSplit, NEW i \in 1..islandCount,
                        NEW j \in 1..islandCount
                 PROVE  /\ Len(islandPops[i]) % 4 = 0
                        /\ Len(islandPops[i]) > 0
                        /\ Len(islandPops[i]) >= minIslandPopSize - (minIslandPopSize % 4)
                        /\ Len(islandPops[i]) <= Len(islandPops[j]) + 4
      BY DEF IslandSizesAreEven
    <2>1. /\ BaseSizeIsEven /\ baseSize \in Nat /\ minIslandPopSize \in Nat
          /\ Len(islandPops[i]) = baseSize \/ Len(islandPops[i]) = baseSize + 4
          /\ Len(islandPops[j]) = baseSize \/ Len(islandPops[j]) = baseSize + 4
      BY DEF SplitInv, SizesAreBase, IsSplit, Inputs, SplitTypes
    <2>2. (baseSize + 4) % 4 = 0
      BY <2>1 DEF BaseSizeIsEven
    <2>3. baseSize % 4 = 0 /\ baseSize > 0 /\ baseSize + 3 >= minIslandPopSize
      BY <2>1 DEF BaseSizeIsEven
    <2>4. Len(islandPops[i]) % 4 = 0
      BY <2>1, <2>2, <2>3
    <2>5. /\ Len(islandPops[i]) > 0
          /\ Len(islandPops[i]) <= Len(islandPops[j]) + 4
      BY <2>1, <2>3
    <2>6. baseSize >= minIslandPopSize - (minIslandPopSize % 4)
      BY <2>1, <2>3, WholeFours
    <2>7. Len(islandPops[i]) >= minIslandPopSize - (minIslandPopSize % 4)
      <3>1. minIslandPopSize - (minIslandPopSize % 4) \in Int
        BY <2>1
      <3>2. ASSUME NEW b \in Nat, NEW m \in Int, b >= m  PROVE  b + 4 >= m
        BY <3>2
      <3>. QED  BY <2>1, <2>6, <3>1, <3>2
    <2>. QED  BY <2>4, <2>5, <2>7
  <1>. QED  BY <1>1, SplitHolds, PTL

\* Individuals are handed out completely by the end of the loop.
THEOREM PlacedHolds == Spec => []PlacedInv
  BY SplitHolds, PlacedInit, PlacedNext, PTL DEF Spec

\* _split_population_for_islands() loses no individual of any population the
\* plan can send and places none twice, for any minimum and number of cores.
THEOREM IndividualsArePlaced == Spec => []EveryIndividualIsPlaced
  <1>1. SplitInv /\ PlacedInv => EveryIndividualIsPlaced
    <2> SUFFICES ASSUME SplitInv, PlacedInv, IsSplit  PROVE  EveryIndividualIsPlaced
      BY DEF EveryIndividualIsPlaced
    <2>1. Len(islandPops) = islandCount /\ mainPopIndex = totalPopSize
      BY DEF SplitInv, PlacedInv, IsSplit
    <2>. QED
      BY <2>1 DEF PlacedInv, Complete, InRange, InOrder, EveryIndividualIsPlaced
  <1>. QED  BY <1>1, SplitHolds, PlacedHolds, PTL

\* The results are known once they are sent.
THEOREM ResultsHold == Spec => []ResultsInv
  BY SplitHolds, PlacedHolds, ResultsInit, ResultsNext, PTL DEF Spec

\* The worker's thread returns as many individuals as it got, all different, and
\* no one it leaves behind is better: for any population the plan can send and
\* any number of islands, one objective or several.
THEOREM BestReturn == Spec => []BestIndividualsReturn
  <1>1. SplitInv /\ ResultsInv => BestIndividualsReturn
    <2> SUFFICES ASSUME SplitInv, ResultsInv, phase = "sent"
                 PROVE  /\ Len(newPop) = totalPopSize
                        /\ \A n, m \in 1..Len(newPop) : n # m => newPop[n].x # newPop[m].x
                        /\ \A n \in 1..Len(newPop) : newPop[n].f < totalPopSize
      BY DEF BestIndividualsReturn
    <2>1. BestOf(newPop, totalPopSize) /\ totalPopSize \in Nat
      BY DEF ResultsInv, SplitInv, Inputs
    <2>2. \A n \in 1..totalPopSize : n - 1 < totalPopSize
      BY <2>1
    <2>. QED  BY <2>1, <2>2 DEF BestOf
  <1>. QED  BY <1>1, SplitHolds, ResultsHold, PTL
=============================================================================
