---------------------------- MODULE MCLeaseElection ----------------------------
(* LeaseElection with two pods, which are interchangeable. *)
EXTENDS LeaseElection, TLC

Symmetry == Permutations(Pods)
===============================================================================
