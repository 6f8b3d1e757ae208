--------------------------- MODULE MCNodeHandlers ---------------------------
(* Values of the constants of NodeHandlers for TLC. *)
EXTENDS NodeHandlers, TLC

CONSTANTS s1, f1, f2, any, lo

\* One Snell node and two ShadowTLS nodes.
Nodes == {s1, f1, f2}
Types == [i \in Nodes |-> IF i = s1 THEN "snell" ELSE "shadowtls"]

\* Two hosts that meet on port 1, and room for the others on 2 and 3.
Endpoints == {[host |-> h, port |-> p, nets |-> {"tcp"}, pool |-> {}] :
                <<h, p>> \in {<<any, 1>>, <<lo, 1>>, <<any, 2>>, <<any, 3>>}}

\* ShadowTLS nodes, names and requests are interchangeable.
Symmetry == Permutations({f1, f2}) \cup Permutations(Caller) \cup Permutations(Name)
=============================================================================
