-------------------------- MODULE MCRunLifecycle --------------------------
(***************************************************************************)
(* RunLifecycle for TLC: request threads and worker threads are model      *)
(* values, interchangeable where only safety is checked.                   *)
(***************************************************************************)
EXTENDS RunLifecycle, TLC

CONSTANTS c1, c2, d1, d2

OneClient  == {c1}
TwoClients == {c1, c2}
TwoDrives  == {d1, d2}

Symmetry == Permutations(Clients) \cup Permutations(Drives)
=============================================================================
