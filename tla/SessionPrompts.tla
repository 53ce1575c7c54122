--------------------------- MODULE SessionPrompts ---------------------------
(***************************************************************************)
(* What the inbound path promises about prompts: a prompt that has arrived *)
(* may be lost before it is run, and those that are run are run one at a   *)
(* time in each session, in their order of arrival.  No queue, worker or   *)
(* lane is visible here; module Inbound implements it.                     *)
(***************************************************************************)
EXTENDS Naturals

CONSTANTS
    Session,   \* sessions a prompt may address
    Prompt     \* the prompts, numbered in their order of arrival

VARIABLES
    addressee,  \* addressee[m]: the session of prompt m, or something else
    arrived,    \* prompts that have arrived
    waiting,    \* prompts that have arrived and were neither run nor lost
    running     \* prompts whose handler is running

pvars == <<addressee, arrived, waiting, running>>

InitPrompts ==
    /\ arrived = {} /\ waiting = {} /\ running = {}

\* Prompts arrive in their order; what is not addressed to a session is not
\* a prompt and leaves no trace.
Arrive(m) ==
    /\ m \notin arrived
    /\ \A n \in arrived : n < m
    /\ arrived' = arrived \cup {m}
    /\ waiting' = IF addressee[m] \in Session THEN waiting \cup {m} ELSE waiting
    /\ UNCHANGED <<addressee, running>>

Lose(m) ==
    /\ m \in waiting
    /\ waiting' = waiting \ {m}
    /\ UNCHANGED <<addressee, arrived, running>>

Begin(m) ==
    /\ m \in waiting
    /\ \A n \in waiting : addressee[n] = addressee[m] => m <= n
    /\ \A n \in running : addressee[n] # addressee[m]
    /\ waiting' = waiting \ {m}
    /\ running' = running \cup {m}
    /\ UNCHANGED <<addressee, arrived>>

End(m) ==
    /\ m \in running
    /\ running' = running \ {m}
    /\ UNCHANGED <<addressee, arrived, waiting>>

NextPrompts == \E m \in Prompt : Arrive(m) \/ Lose(m) \/ Begin(m) \/ End(m)

PromptSpec == InitPrompts /\ [][NextPrompts]_pvars

=============================================================================
