---------------------------- MODULE MCSupervisor ----------------------------
(* Values of the constants of Supervisor for TLC. *)
EXTENDS Supervisor, TLC

CONSTANTS n1, n2, front, back

\* Two nodes without a backend.
PlainNodes == {n1, n2}
NoBackends == [n \in PlainNodes |-> NoNode]

\* One ShadowTLS node in front of one Snell or SS-2022 node.
Chain == {front, back}
ChainBackends == [n \in Chain |-> IF n = front THEN back ELSE NoNode]

\* One node.
SingleNode == {n1}
SingleBackend == [n \in SingleNode |-> NoNode]

\* Processes are interchangeable.
PidSymmetry == Permutations(Pid)
=============================================================================
