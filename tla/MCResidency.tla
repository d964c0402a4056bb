---------------------------- MODULE MCResidency ----------------------------
(* Two conversations of two sessions, of which one is yet to be created,   *)
(* and two callers, or a third that submits, deletes or retries.           *)
EXTENDS SessionResidency, TLC

CONSTANTS k1, k2, s1, s2, p1, p2, p3

TwoSessions == (k1 :> s1) @@ (k2 :> s2)

Everything == {"load", "unload", "replace", "submit", "scheduled", "delete",
               "operate", "storage", "create", "retry"}
Choices == [c \in Callers |-> IF c = p3 THEN {"submit", "delete", "retry"} ELSE Everything]

(* A submission, a scheduled activation and a recovery of one conversation.*)
Recoveries == (p1 :> {"submit"}) @@ (p2 :> {"scheduled"}) @@ (p3 :> {"retry"})

Active(c) == calls[c].op # "none"
Used == {calls[c].op : c \in Callers} \ {"none"}
Reaped == \E f \in Flights : flights[f].kind = "reap"

(* Callers are alike: the first call is p1's, the second p2's.             *)
InOrder == (Active(p3) => Active(p2)) /\ (Active(p2) => Active(p1))

(* The operations that meet each other in one behaviour: those that race   *)
(* for a slot, those that compete for capacity, those that the drain of    *)
(* the process finds, submissions that meet a deletion, and recoveries of  *)
(* a failed submission that meet a storage access or a scheduled load.     *)
Racing == ~draining /\ Used \subseteq {"load", "unload", "replace", "submit", "delete", "operate"}
Competing == ~Reaped /\ Used \subseteq {"load", "create", "submit", "retry"}
Drained == ~Reaped /\ Used \subseteq {"load", "unload", "replace", "scheduled", "storage"}
Submitting == ~draining /\ Used \subseteq {"submit", "delete"}
Recovering == ~Reaped /\ ~draining /\ Used \subseteq {"submit", "storage", "scheduled", "retry"}

Bounded == /\ InOrder
           /\ \/ Submitting \/ Recovering
              \/ ~Active(p3) /\ (Racing \/ Competing \/ Drained)
=============================================================================
