------------------------------- MODULE MCNode -------------------------------
(* A small instance of NodeAgent for TLC. *)
EXTENDS NodeAgent

CONSTANTS d1, x1

\* Two environments share the node, one has a deployment, the other a sandbox.
OwnerOf == [w \in {d1, x1} |-> IF w = d1 THEN 1 ELSE 2]

=============================================================================
