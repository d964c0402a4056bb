------------------------------- MODULE MCGate -------------------------------
(* The gate with three ownership tasks and two failure reporters.           *)
EXTENDS DurabilityGate
=============================================================================
