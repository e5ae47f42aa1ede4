----------------------------- MODULE MCCluster -----------------------------
(***************************************************************************)
(* Cluster on small instances for TLC.                                     *)
(***************************************************************************)
EXTENDS Cluster, TLC

\* Nothing tells two workers or two islands apart.
Symmetry == Permutations(Workers) \cup Permutations(Islands)

\* Both kinds of faults in one run, but not in one behaviour; after a broken
\* connection or a restart, only one of the islands gets to a second call.
InSecondCall(i) == cycle[i] > 1 \/ (cycle[i] = 1 /\ evolving[i])

OneKindOfFault ==
    \/ drops = 0
    \/ /\ crashes = 0
       /\ \E i \in Islands : ~InSecondCall(i)
=============================================================================
