---------------------------- MODULE MCBackground ----------------------------
(* Two background jobs of one conversation, or one of them with errors.     *)
EXTENDS BackgroundRegistry

CONSTANTS j1, j2

Dispatched == {j \in Jobs : dispatch[j] # "none"}

NoFault == faults.refused + faults.lost + faults.crashes = 0

Bounded == NoFault \/ Cardinality(Dispatched) <= 1
=============================================================================
