------------------------------ MODULE MCUplink ------------------------------
(* Small instances of Uplink for TLC. *)
EXTENDS Uplink

CONSTANTS c1, c2, b1

=============================================================================
