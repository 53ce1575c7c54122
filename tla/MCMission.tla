------------------------------ MODULE MCMission --------------------------------
(* A small instance of MissionBranches for TLC. *)
EXTENDS MissionBranches

CONSTANTS w1, w2, i1
=============================================================================
