----------------------------- MODULE MCWorkPlan -----------------------------
(***************************************************************************)
(* WorkPlan on small instances for TLC.                                    *)
(***************************************************************************)
EXTENDS WorkPlan

\* Nothing tells two workers apart but their records.
Symmetry == Permutations(Workers)
=============================================================================
