------------------------------ MODULE MCBridge -------------------------------
(* The four components of the bridge's message path, one of them in each     *)
(* behaviour: they share no variable, so their product would only repeat     *)
(* each of them once for every state of the others.                          *)
EXTENDS AcpEngine, BridgeSessions, TaskTurn, Callbacks, TLC

CONSTANTS p1, p2, q1, t1, s1, s2, r1, r2, r3

MCReportedTask == (r1 :> "t1") @@ (r2 :> "t1") @@ (r3 :> "t2")

VARIABLE part

BridgeInit ==
    /\ AcpInit /\ SessionInit /\ TurnInit /\ CallbackInit
    /\ part \in {"acp", "sessions", "turn", "callbacks"}

BridgeNext ==
    /\ UNCHANGED part
    /\ \/ part = "acp" /\ AcpNext /\ UNCHANGED <<sessionVars, taskTurnVars, callbackVars>>
       \/ part = "sessions" /\ SessionNext /\ UNCHANGED <<acpVars, taskTurnVars, callbackVars>>
       \/ part = "turn" /\ TurnNext /\ UNCHANGED <<acpVars, sessionVars, callbackVars>>
       \/ part = "callbacks" /\ CallbackNext /\ UNCHANGED <<acpVars, sessionVars, taskTurnVars>>

BridgeVars == <<acpVars, sessionVars, taskTurnVars, callbackVars, part>>
BridgeSpec == BridgeInit /\ [][BridgeNext]_BridgeVars /\ AcpFairness

\* Each component's variables stay in their types.
BridgeTypeOK == AcpTypeOK /\ SessionTypeOK /\ TurnTypeOK /\ CallbackTypeOK
=============================================================================
