--------------------------- MODULE InboundDelivery ---------------------------
(***************************************************************************)
(* What the pending inbox of a conversation promises to those who send to  *)
(* it, whatever crashes in between: a message is accepted under a number   *)
(* of its own, and from then on it is either still waiting, or delivered   *)
(* once, or withdrawn by its author before delivery.  Delivery takes every *)
(* waiting message up to some number, so messages reach the conversation   *)
(* in the order in which they were accepted.                               *)
(***************************************************************************)
EXTENDS Naturals

VARIABLES
    last,       \* the number of the last accepted message
    waiting,    \* accepted and not yet delivered
    delivered,  \* in the conversation
    withdrawn   \* taken back before delivery

fates == <<last, waiting, delivered, withdrawn>>

Init ==
    /\ last = 0
    /\ waiting = {}
    /\ delivered = {}
    /\ withdrawn = {}

\* One message, or an inseparable run of messages, is accepted.
Accept ==
    /\ last' \in Nat
    /\ last' > last
    /\ waiting' = waiting \cup ((last + 1) .. last')
    /\ UNCHANGED <<delivered, withdrawn>>

\* Everything that waits up to a number is delivered at once.
Deliver ==
    \E w \in 1..last :
        /\ delivered' = delivered \cup {s \in waiting : s <= w}
        /\ waiting' = {s \in waiting : s > w}
        /\ UNCHANGED <<last, withdrawn>>

Withdraw ==
    \E s \in waiting :
        /\ waiting' = waiting \ {s}
        /\ withdrawn' = withdrawn \cup {s}
        /\ UNCHANGED <<last, delivered>>

Next == Accept \/ Deliver \/ Withdraw

Spec == Init /\ [][Next]_fates
=============================================================================
