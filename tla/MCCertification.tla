-------------------------- MODULE MCCertification --------------------------
(* Two callers on a workload with two artifacts. *)
EXTENDS Certification, FiniteSets, TLC

\* The properties say nothing once a call was overtaken; one attestation lapses.
Focus == ~torn /\ ~Swapped /\ Cardinality(lapsed) <= 1

Symmetry == Permutations(Callers)
===========================================================================
