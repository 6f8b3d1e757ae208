----------------------------- MODULE MCTraffic -----------------------------
(* Traffic for TLC: all constants are given in the configurations. *)
EXTENDS Traffic, TLC

\* Nodes differ in nothing but their state.
NodeSymmetry == Permutations(Node)
=============================================================================
