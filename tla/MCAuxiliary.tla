----------------------------- MODULE MCAuxiliary -----------------------------
(* Two auxiliary calls of two conversations of one process, with everything  *)
(* that may end them, or a third one of the first conversation while all     *)
(* three are being reserved.                                                 *)
EXTENDS AuxiliaryCalls

CONSTANTS k1, k2, c1, c2, c3

TwoCalls == pc[c3] = "idle"
Reserving ==
    /\ cancelled = {}
    /\ \A k \in Conversations : running[k]
    /\ \A c \in Calls : pc[c] \notin {"submitted", "exited", "releasing", "retiring", "unscoping", "done"}

Bounded == /\ kind[c3] = [conversation |-> k1, compaction |-> FALSE]
           /\ TwoCalls \/ Reserving
=============================================================================
