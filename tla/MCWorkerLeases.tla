-------------------------- MODULE MCWorkerLeases --------------------------
(***************************************************************************)
(* WorkerLeases for TLC.  Workers, claimers and runs are interchangeable.  *)
(* The invariants say nothing of a run in `raced', so with one run nothing *)
(* is left to check after its first race: Unraced stops the search there.  *)
(***************************************************************************)
EXTENDS WorkerLeases, TLC

Symmetry == Permutations(Workers) \cup Permutations(Claimers) \cup Permutations(Runs)

Unraced == raced = {}
=============================================================================
