---------------------------- MODULE MCInteraction ----------------------------
(* One request with everything that may settle it, or two that one client    *)
(* answers and that a drain finds alive together.                            *)
EXTENDS InteractionRendezvous

CONSTANTS i1, i2, c1, c2

OneRequest == Cardinality({i \in Interactions : waiter[i] # "idle"}) <= 1
OneClient == Cardinality({c \in Clients : answer[c] # None}) <= 1

\* nothing but the drain cancels a request
OnlyDrainCancels ==
    \A i \in Interactions : cause[i] = None \/ (lifecycle # "Running" /\ cause[i] = "attempt")

Bounded == OneRequest \/ (OneClient /\ ~routed /\ ~lost /\ OnlyDrainCancels)
=============================================================================
