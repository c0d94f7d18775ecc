---------------------------- MODULE MCFrontPort ----------------------------
(* An instance of FrontPort for TLC: two routes, between which nothing     *)
(* tells, and one inner port, for which two chained programs compete.      *)
EXTENDS FrontPort, FiniteSets, TLC

MCSymmetry == Permutations(Names)

(* No property is about three programs, so two of them are on a host.      *)
TwoOnAHost == Cardinality({p \in Programs : p \in installed \/ conf[p] # Bare}) <= 2
=============================================================================
