----------------------------- MODULE MCInbound ------------------------------
(* A small instance of Inbound for TLC. *)
EXTENDS Inbound

CONSTANTS s1, s2, l1, l2

=============================================================================
