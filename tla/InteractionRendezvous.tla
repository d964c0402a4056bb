------------------------ MODULE InteractionRendezvous ------------------------
(***************************************************************************)
(* Approvals, reviews and questionnaires (src/src/runtime/interaction.rs). *)
(* The owner of an execution publishes a request and waits; a client's     *)
(* answer, a client's cancellation, the cancellation of the execution, a   *)
(* deadline and the drain of the runtime race to settle it.                *)
(*                                                                         *)
(* The race is decided by removing the entry from the pending map, under   *)
(* one mutex and together with the commit of the durable audit.  What      *)
(* follows is not under the mutex: the winner tells the parent process     *)
(* (a child conversation has a reliable route to it), hands the outcome to *)
(* the owner over a oneshot channel, and whoever drops the outcome releases*)
(* two lifecycle admissions around the callback of the observer.           *)
(***************************************************************************)
EXTENDS Naturals, FiniteSets

CONSTANTS
    Interactions,   \* identities of the requests
    Clients,        \* clients, each of which answers or cancels one request
    None            \* no value

ASSUME InteractionAssumption ==
    /\ IsFiniteSet(Interactions)
    /\ Clients \cap {"waiter", "drain"} = {}

VARIABLES
    lifecycle,    \* ConversationLifecycle: Running, Draining or Quiescent
    admissions,   \* its counted admissions
    available,    \* CoordinatorState.provider_available
    routed,       \* a route to a parent is installed, before activation
    lost,         \* the parent process is gone
    waiter,       \* where the owner of each request stands
    pending,      \* CoordinatorState.pending
    orphans,      \* entries taken by abandon_after_parent_loss and not released yet
    delivery,     \* the SettlementDelivery of each request and who has it
    payload,      \* where the WaiterPayload of each request stands
    chan,         \* what was sent to the owner of each request
    result,       \* what the owner got
    requested,    \* audit: InteractionRequested facts
    settled,      \* audit: InteractionSettled facts
    cause,        \* why the execution of each request is cancelled
    marked,       \* mark_interaction_failure: the execution must stop
    answer,       \* what each client asked and was told
    drain         \* the supervisor's cancel_pending_async: its step and what is left to do

owner == <<waiter, chan, result>>
facts == <<requested, settled>>
world == <<available, routed>>
vars == <<lifecycle, admissions, world, lost, owner, pending, orphans, delivery, payload,
          facts, cause, marked, answer, drain>>

Causes == {"attempt", "deadline"}
Responded(c) == <<"responded", c>>
Outcomes == {Responded(c) : c \in Clients} \cup {<<"cancelled", x>> : x \in Causes \cup {"user", "shutdown"}}
Failed(why) == <<"failed", why>>
Failures == {Failed(x) : x \in {"unavailable", "publication_failed", "control_lost", "audit_failed"}}
Actors == Clients \cup {"waiter", "drain"}
Waiting == {"waiting", "cancelling", "delivering", "receiving"}
Deliveries == [by : Actors, outcome : Outcomes, audit : BOOLEAN, won : BOOLEAN]
Answers == [of : Interactions, said : {"waits", "accepted", "not_pending", "audit_failed", "control_lost"}]

ASSUME NoneAssumption ==
    /\ None \notin Causes /\ None \notin Outcomes /\ None \notin Failures
    /\ None \notin Deliveries /\ None \notin Answers

TypeOK ==
    /\ lifecycle \in {"Running", "Draining", "Quiescent"}
    /\ admissions \in Nat
    /\ {available, routed, lost} \subseteq BOOLEAN
    /\ waiter \in [Interactions -> {"idle", "permitted", "routing", "done"} \cup Waiting]
    /\ {pending, orphans, requested, marked} \subseteq SUBSET Interactions
    /\ delivery \in [Interactions -> {None} \cup Deliveries]
    /\ payload \in [Interactions -> {"none", "held", "sent", "dropping", "callback", "told", "gone"}]
    /\ chan \in [Interactions -> {None} \cup Outcomes \cup Failures]
    /\ result \in [Interactions -> {None} \cup Outcomes \cup Failures]
    /\ settled \in [Interactions -> {None} \cup Outcomes]
    /\ cause \in [Interactions -> {None} \cup Causes]
    /\ answer \in [Clients -> {None} \cup Answers]
    /\ drain \in [step : {"off", "snapshot", "cancel", "done"}, todo : SUBSET Interactions]

Init ==
    /\ lifecycle = "Running"
    /\ admissions = 0
    /\ routed \in BOOLEAN
    /\ available \in BOOLEAN /\ (routed => ~available)
    /\ lost = FALSE
    /\ waiter = [i \in Interactions |-> "idle"]
    /\ pending = {}
    /\ orphans = {}
    /\ delivery = [i \in Interactions |-> None]
    /\ payload = [i \in Interactions |-> "none"]
    /\ chan = [i \in Interactions |-> None]
    /\ result = [i \in Interactions |-> None]
    /\ requested = {}
    /\ settled = [i \in Interactions |-> None]
    /\ cause = [i \in Interactions |-> None]
    /\ marked = {}
    /\ answer = [c \in Clients |-> None]
    /\ drain = [step |-> "off", todo |-> {}]

-----------------------------------------------------------------------------
(* Publication: the owner's side of request_approval, request_review and    *)
(* request_questionnaire up to the wait.                                    *)

\* the owner's call ends with a failure; its receiver, and what is in it, is dropped
Fails(i, why) ==
    /\ waiter' = [waiter EXCEPT ![i] = "done"]
    /\ result' = [result EXCEPT ![i] = Failed(why)]
    /\ UNCHANGED chan

\* The parent's permit, before anything is recorded.
AdmitPublication(i) ==
    /\ routed
    /\ waiter[i] = "idle"
    /\ \/ waiter' = [waiter EXCEPT ![i] = "permitted"] /\ UNCHANGED <<chan, result>>
       \/ \E why \in {"unavailable", "control_lost"} : Fails(i, why)
    /\ UNCHANGED <<lifecycle, admissions, world, lost, pending, orphans, delivery, payload, facts,
                   cause, marked, answer, drain>>

\* publish_inner refuses: the runtime drains, nobody can answer, or the audit
\* cannot be written.
PublishRefused(i) ==
    /\ waiter[i] = IF routed THEN "permitted" ELSE "idle"
    /\ \/ ~routed /\ ~available /\ Fails(i, "unavailable")
       \/ (routed \/ available) /\ Fails(i, "publication_failed")
    /\ UNCHANGED <<lifecycle, admissions, world, lost, pending, orphans, delivery, payload, facts,
                   cause, marked, answer, drain>>

\* publish_inner commits, under the commit boundary of the lifecycle: the
\* requested fact, the entry and the prompt.
PublishInner(i) ==
    /\ waiter[i] = IF routed THEN "permitted" ELSE "idle"
    /\ lifecycle = "Running"
    /\ routed \/ available
    /\ requested' = requested \cup {i}
    /\ pending' = pending \cup {i}
    /\ admissions' = admissions + 1
    /\ waiter' = [waiter EXCEPT ![i] = IF routed THEN "routing" ELSE "waiting"]
    /\ UNCHANGED <<lifecycle, world, lost, chan, result, orphans, delivery, payload, settled,
                   cause, marked, answer, drain>>

RouteRequested(i) ==
    /\ waiter[i] = "routing"
    /\ waiter' = [waiter EXCEPT ![i] = "waiting"]
    /\ UNCHANGED <<lifecycle, admissions, world, lost, chan, result, pending, orphans, delivery,
                   payload, facts, cause, marked, answer, drain>>

\* abandon_after_control_failure: the parent never heard of the request.  The
\* owner leaves with an error, and with its receiver goes what was sent to it.
RouteRequestedFails(i) ==
    /\ waiter[i] = "routing"
    /\ Fails(i, "control_lost")
    /\ marked' = marked \cup {i}
    /\ pending' = pending \ {i}
    /\ admissions' = IF i \in pending THEN admissions - 1 ELSE admissions
    /\ payload' = [payload EXCEPT ![i] = IF @ = "sent" THEN "dropping" ELSE @]
    /\ UNCHANGED <<lifecycle, world, lost, orphans, delivery, facts, cause, answer, drain>>

-----------------------------------------------------------------------------
(* Settlement.                                                              *)

\* an answer that comes after the execution was cancelled settles the
\* cancellation in its place
Prevails(i, outcome, validate) ==
    IF validate /\ cause[i] # None THEN <<"cancelled", cause[i]>> ELSE outcome

\* The lifecycle refuses only a quiescent runtime.  The settled fact may fail
\* to commit; the entry is gone all the same.
BeginSettle(i, by, outcome, validate) ==
    /\ lifecycle # "Quiescent"
    /\ i \in pending
    /\ pending' = pending \ {i}
    /\ admissions' = admissions + 1
    /\ \E ok \in BOOLEAN :
          LET final == Prevails(i, outcome, validate) IN
          /\ settled' = IF ok THEN [settled EXCEPT ![i] = final] ELSE settled
          /\ delivery' = [delivery EXCEPT ![i] =
                [by |-> by, outcome |-> final, audit |-> ok, won |-> validate /\ cause[i] # None]]
    /\ payload' = [payload EXCEPT ![i] = "held"]
    /\ UNCHANGED <<lifecycle, world, lost, chan, result, orphans, requested, cause, marked>>

\* respond_async and cancel_async up to the first await.
Control(c, i) ==
    /\ answer[c] = None
    /\ answer' = [answer EXCEPT ![c] = [of |-> i, said |-> "waits"]]
    /\ \/ BeginSettle(i, c, Responded(c), TRUE)
       \/ BeginSettle(i, c, <<"cancelled", "user">>, FALSE)
    /\ UNCHANGED <<waiter, drain>>

ControlStale(c, i) ==
    /\ answer[c] = None
    /\ i \in requested
    /\ i \notin pending \/ lifecycle = "Quiescent"
    /\ answer' = [answer EXCEPT ![c] = [of |-> i, said |-> "not_pending"]]
    /\ UNCHANGED <<lifecycle, admissions, world, lost, owner, pending, orphans, delivery, payload,
                   facts, cause, marked, drain>>

\* The owner listens to its attempt and not to the deadline of its execution.
Mut_NoticeAttemptOnly(i) ==
    /\ waiter[i] = "waiting"
    /\ chan[i] = None
    /\ cause[i] = "attempt"
    /\ waiter' = [waiter EXCEPT ![i] = "cancelling"]
    /\ UNCHANGED <<lifecycle, admissions, world, lost, chan, result, pending, orphans, delivery,
                   payload, facts, cause, marked, answer, drain>>

\* The select of wait_result is biased to the channel: cancellation is looked
\* at when nothing was sent.
NoticeCancellation(i) ==
    /\ waiter[i] = "waiting"
    /\ chan[i] = None
    /\ cause[i] # None
    /\ waiter' = [waiter EXCEPT ![i] = "cancelling"]
    /\ UNCHANGED <<lifecycle, admissions, world, lost, chan, result, pending, orphans, delivery,
                   payload, facts, cause, marked, answer, drain>>

\* An owner that lost the race answers with its own cancellation.
Mut_WaiterCancelsAlone(i) ==
    /\ waiter[i] = "cancelling"
    /\ \/ /\ BeginSettle(i, "waiter", <<"cancelled", cause[i]>>, FALSE)
          /\ waiter' = [waiter EXCEPT ![i] = "delivering"]
       \/ /\ i \notin pending \/ lifecycle = "Quiescent"
          /\ waiter' = [waiter EXCEPT ![i] = "done"]
          /\ result' = [result EXCEPT ![i] = <<"cancelled", cause[i]>>]
          /\ payload' = [payload EXCEPT ![i] = IF @ = "sent" THEN "dropping" ELSE @]
          /\ UNCHANGED <<lifecycle, admissions, world, lost, chan, pending, orphans, delivery,
                         facts, cause, marked>>
    /\ UNCHANGED <<answer, drain>>

\* The owner settles its own request, or finds that somebody else has and
\* waits for what that one sends.
WaiterCancels(i) ==
    /\ waiter[i] = "cancelling"
    /\ \/ /\ BeginSettle(i, "waiter", <<"cancelled", cause[i]>>, FALSE)
          /\ waiter' = [waiter EXCEPT ![i] = "delivering"]
       \/ /\ i \notin pending \/ lifecycle = "Quiescent"
          /\ waiter' = [waiter EXCEPT ![i] = "receiving"]
          /\ UNCHANGED <<lifecycle, admissions, world, lost, chan, result, pending, orphans,
                         delivery, payload, facts, cause, marked>>
    /\ UNCHANGED <<answer, drain>>

-----------------------------------------------------------------------------
(* deliver_async: the parent, then the owner, then the answer to the caller *)

\* an outcome whose receiver is gone comes back and is dropped here
Send(i, value) ==
    /\ chan' = [chan EXCEPT ![i] = IF waiter[i] = "done" THEN @ ELSE value]
    /\ payload' = [payload EXCEPT ![i] = IF value \in Failures \/ waiter[i] = "done"
                                         THEN "dropping" ELSE "sent"]

Delivered(i, said) ==
    LET d == delivery[i] IN
    /\ delivery' = [delivery EXCEPT ![i] = None]
    /\ waiter' = IF d.by = "waiter" THEN [waiter EXCEPT ![i] = "receiving"] ELSE waiter
    /\ answer' = [c \in Clients |-> IF c = d.by THEN [of |-> i, said |-> said] ELSE answer[c]]
    /\ UNCHANGED <<lifecycle, admissions, world, lost, result, pending, orphans, facts, cause, drain>>

\* The fact was not committed, or the parent cannot be told: the owner gets an
\* error in place of the outcome.
DeliverFailure(i) ==
    /\ delivery[i] # None
    /\ \E why \in {"audit_failed", "control_lost"} :
          /\ IF delivery[i].audit THEN routed /\ why = "control_lost" ELSE why = "audit_failed"
          /\ Send(i, Failed(why))
          /\ Delivered(i, IF delivery[i].won THEN "not_pending" ELSE why)
    /\ marked' = marked \cup {i}

DeliverOutcome(i) ==
    /\ delivery[i] # None
    /\ delivery[i].audit
    /\ Send(i, delivery[i].outcome)
    /\ Delivered(i, IF delivery[i].won THEN "not_pending" ELSE "accepted")
    /\ UNCHANGED marked

Receive(i) ==
    /\ waiter[i] \in {"waiting", "receiving"}
    /\ chan[i] # None
    /\ result' = [result EXCEPT ![i] = chan[i]]
    /\ waiter' = [waiter EXCEPT ![i] = "done"]
    /\ payload' = [payload EXCEPT ![i] = IF @ = "sent" THEN "dropping" ELSE @]
    /\ UNCHANGED <<lifecycle, admissions, world, lost, chan, pending, orphans, delivery, facts,
                   cause, marked, answer, drain>>

-----------------------------------------------------------------------------
(* WaiterPayload::drop, in three steps: the waiter's admission, the         *)
(* observer's callback, the settlement's admission.                         *)

\* what changes when a payload is dropped
Dropping(i, from, to, released) ==
    /\ payload[i] = from
    /\ payload' = [payload EXCEPT ![i] = to]
    /\ admissions' = admissions - released
    /\ UNCHANGED <<lifecycle, world, lost, owner, pending, orphans, delivery, facts, cause, marked,
                   answer, drain>>

DropPayload(i) == \/ Dropping(i, "dropping", "callback", 1)
                  \/ Dropping(i, "callback", "told", 0)
                  \/ Dropping(i, "told", "gone", 1)

-----------------------------------------------------------------------------
(* Everything around the coordinator.                                       *)

\* read only where no parent gives permits
SetProviderAvailable ==
    /\ ~routed
    /\ available' = ~available
    /\ UNCHANGED <<lifecycle, admissions, routed, lost, owner, pending, orphans, delivery, payload,
                   facts, cause, marked, answer, drain>>

\* the attempt is cancelled, or a deadline ends the execution, before or after
CancelExecution(i, x) ==
    /\ waiter[i] # "done"
    /\ cause[i] = None \/ (cause[i] = "attempt" /\ x = "deadline")
    /\ cause' = [cause EXCEPT ![i] = x]
    /\ UNCHANGED <<lifecycle, admissions, world, lost, owner, pending, orphans, delivery, payload,
                   facts, marked, answer, drain>>

\* The parent died: abandon_after_parent_loss takes every entry, and the drain
\* follows.
ParentLost ==
    /\ routed
    /\ ~lost
    /\ lifecycle = "Running"
    /\ lost' = TRUE
    /\ pending' = {}
    /\ orphans' = orphans \cup pending
    /\ UNCHANGED <<lifecycle, admissions, world, owner, delivery, payload, facts, cause, marked,
                   answer, drain>>

ReleaseOrphan(i) ==
    /\ i \in orphans
    /\ orphans' = orphans \ {i}
    /\ chan' = [chan EXCEPT ![i] = IF waiter[i] = "done" THEN @ ELSE Failed("control_lost")]
    /\ admissions' = admissions - 1
    /\ UNCHANGED <<lifecycle, world, lost, waiter, result, pending, delivery, payload, facts, cause,
                   marked, answer, drain>>

\* begin_drain_internal: the current attempt or scheduled run, which owns every
\* request, is cancelled, and then the boundary closes
BeginDrain ==
    /\ lifecycle = "Running"
    /\ orphans = {}
    /\ lifecycle' = "Draining"
    /\ cause' = [i \in Interactions |-> IF cause[i] = None /\ waiter[i] # "done" THEN "attempt" ELSE cause[i]]
    /\ drain' = [drain EXCEPT !.step = "snapshot"]
    /\ UNCHANGED <<admissions, world, lost, owner, pending, orphans, delivery, payload, facts,
                   marked, answer>>

DrainSnapshot ==
    /\ drain.step = "snapshot"
    /\ drain' = [step |-> "cancel", todo |-> pending]
    /\ UNCHANGED <<lifecycle, admissions, world, lost, owner, pending, orphans, delivery, payload,
                   facts, cause, marked, answer>>

\* the supervisor is not in the middle of a delivery of its own
DrainFree == \A i \in Interactions : delivery[i] # None => delivery[i].by # "drain"

DrainCancels(i) ==
    /\ drain.step = "cancel"
    /\ DrainFree
    /\ i \in drain.todo
    /\ drain' = [drain EXCEPT !.todo = @ \ {i}]
    /\ \/ BeginSettle(i, "drain", <<"cancelled", "shutdown">>, FALSE)
       \/ /\ i \notin pending
          /\ UNCHANGED <<lifecycle, admissions, world, lost, chan, result, pending, orphans,
                         delivery, payload, facts, cause, marked>>
    /\ UNCHANGED <<waiter, answer>>

DrainDone ==
    /\ drain = [step |-> "cancel", todo |-> {}]
    /\ DrainFree
    /\ drain' = [drain EXCEPT !.step = "done"]
    /\ UNCHANGED <<lifecycle, admissions, world, lost, owner, pending, orphans, delivery, payload,
                   facts, cause, marked, answer>>

\* the last step of the drain: no admission is left
MarkQuiescent ==
    /\ drain.step = "done"
    /\ lifecycle = "Draining"
    /\ admissions = 0
    /\ lifecycle' = "Quiescent"
    /\ UNCHANGED <<admissions, world, lost, owner, pending, orphans, delivery, payload, facts,
                   cause, marked, answer, drain>>

-----------------------------------------------------------------------------
Owner(i) == \/ AdmitPublication(i) \/ PublishRefused(i) \/ PublishInner(i)
            \/ RouteRequested(i) \/ RouteRequestedFails(i)
            \/ NoticeCancellation(i) \/ WaiterCancels(i) \/ Receive(i)

Deliver(i) == DeliverFailure(i) \/ DeliverOutcome(i)

Supervise == \/ DrainSnapshot \/ DrainDone \/ MarkQuiescent
             \/ \E i \in Interactions : DrainCancels(i)

Next ==
    \/ \E i \in Interactions : \/ Owner(i) \/ Deliver(i) \/ DropPayload(i) \/ ReleaseOrphan(i)
                               \/ \E x \in Causes : CancelExecution(i, x)
                               \/ \E c \in Clients : Control(c, i) \/ ControlStale(c, i)
    \/ SetProviderAvailable \/ ParentLost \/ BeginDrain \/ Supervise

Spec == Init /\ [][Next]_vars

\* A task that was started is polled, the reliable lane answers or fails, and a
\* lost parent is followed by the drain.  Nothing is assumed of clients.
Fairness ==
    /\ \A i \in Interactions : /\ WF_vars(RouteRequested(i) \/ RouteRequestedFails(i))
                               /\ WF_vars(NoticeCancellation(i) \/ WaiterCancels(i))
                               /\ WF_vars(Receive(i))
                               /\ WF_vars(Deliver(i))
                               /\ WF_vars(DropPayload(i))
                               /\ WF_vars(ReleaseOrphan(i))
    /\ WF_vars(Supervise)
    /\ WF_vars(lost /\ BeginDrain)

FairSpec == Spec /\ Fairness

-----------------------------------------------------------------------------
(* Properties.                                                              *)

\* Everybody hears the same end of a request.  An outcome that the owner acts
\* on is the committed fact; a client that was told its answer counts finds
\* it in that fact, and the owner got it or was stopped; a client that was told
\* its answer was late is not in the fact; and an owner that gets an error
\* after its prompt was shown is stopped, by the marker or with its parent
\* (interaction.rs 1839-1877, 2235-2340, 2378-2431).
SettlementIsOne ==
    /\ \A i \in Interactions :
          /\ result[i] \in Outcomes => settled[i] = result[i]
          /\ (i \in requested /\ result[i] \in Failures) => i \in marked \/ lost
    /\ \A c \in Clients : answer[c] # None =>
          LET i == answer[c].of IN
          /\ answer[c].said = "accepted" =>
                /\ settled[i] \in {Responded(c), <<"cancelled", "user">>}
                /\ result[i] \in {None, settled[i]} \/ i \in marked
          /\ answer[c].said = "not_pending" => settled[i] # Responded(c)

\* A quiescent runtime owes nothing: no request is pending, none is being
\* delivered, and the observer's callback of every settlement has returned
\* (interaction.rs 1031-1058).
QuiescentIsSettled ==
    lifecycle = "Quiescent" =>
        /\ pending = {} /\ orphans = {}
        /\ \A i \in Interactions : delivery[i] = None /\ payload[i] \in {"none", "told", "gone"}

\* A waiting owner returns once its execution is cancelled, whoever wins, and
\* once the runtime drains, cancelled or not; and the drain is not held up by
\* an interaction (interaction.rs 1839-1877, 2056-2064).
WaitersReturn ==
    /\ \A i \in Interactions :
          (waiter[i] \in Waiting /\ (cause[i] # None \/ lifecycle = "Draining"))
              ~> waiter[i] = "done"
    /\ lifecycle = "Draining" ~> lifecycle = "Quiescent"

\* One end for every request, heard by all who wait for it, and nothing of it
\* left when the runtime is quiescent (interaction.rs 1655-1734, 2235-2431).
RendezvousIsSound == TypeOK /\ SettlementIsOne /\ QuiescentIsSettled
=============================================================================
