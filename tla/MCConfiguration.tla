-------------------------- MODULE MCConfiguration --------------------------
(* ConfigurationCommit for TLC: of all that may happen to the owner and to  *)
(* the runtime, at most so many things happen in one behaviour.  A new      *)
(* model catalog counts twice, or once more than the rest of its input.     *)
EXTENDS ConfigurationCommit

CONSTANT MaxEvents

Events == used.captures + used.messages + used.crossings + used.records
             + live + (rt.alloc - 1) + owner.input.models

Bounded == Events <= MaxEvents
=============================================================================
