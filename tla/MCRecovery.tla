----------------------------- MODULE MCRecovery ------------------------------
(* One conversation that dies and is started again: while it answers one     *)
(* turn with two tool calls, or once while it answers two turns.             *)
EXTENDS CrashRecovery

CONSTANTS c1, c2

OneTurn == Cardinality({t \in Turns : turn[t] # "none"}) <= 1
OneCall == Cardinality({o[2] : o \in DOMAIN results}) <= 1

Bounded == OneTurn \/ (OneCall /\ crashes + faults <= 1)
=============================================================================
