-------------------- MODULE InteractionRendezvousProofs ---------------------
(***************************************************************************)
(* Proofs of the safety properties of InteractionRendezvous for any finite *)
(* set of requests and any number of clients.                              *)
(***************************************************************************)
EXTENDS InteractionRendezvous, FiniteSetTheorems, TLAPS

\* A request is in one place: not published, pending, taken by the loss of the
\* parent, in the hands of the one who settled it, or past that.
PlaceInv ==
    \A i \in Interactions :
        /\ waiter[i] \in {"idle", "permitted"} =>
              /\ i \notin requested \cup pending \cup orphans
              /\ payload[i] = "none" /\ chan[i] = None
        /\ i \in pending \cup orphans => /\ i \in requested
                                         /\ payload[i] = "none" /\ chan[i] = None
        /\ i \in pending => i \notin orphans /\ waiter[i] # "done"
        /\ i \in orphans => lost
        /\ delivery[i] # None <=> payload[i] = "held"
        /\ payload[i] = "held" => chan[i] = None
        /\ waiter[i] = "delivering" <=> delivery[i] # None /\ delivery[i].by = "waiter"
        /\ waiter[i] = "cancelling" => cause[i] # None
        /\ result[i] = None <=> waiter[i] # "done"

\* what an owner has or will get is an error
Erred(i) == chan[i] \in Failures \/ result[i] \in Failures

\* The settled fact is what is being delivered, was sent and was received; an
\* error in its place is marked.
FactInv ==
    \A i \in Interactions :
        /\ payload[i] = "none" => settled[i] = None
        /\ delivery[i] # None =>
              settled[i] = IF delivery[i].audit THEN delivery[i].outcome ELSE None
        /\ chan[i] \in Outcomes => settled[i] = chan[i]
        /\ result[i] \in Outcomes => settled[i] = result[i]
        /\ Erred(i) /\ i \in requested => i \in marked \/ lost
        /\ Erred(i) /\ settled[i] # None => i \in marked

\* What clients asked and what is delivered in their name agree.
DeliveryInv ==
    \A i \in Interactions : delivery[i] # None =>
        /\ delivery[i].by \in Clients =>
              /\ answer[delivery[i].by] = [of |-> i, said |-> "waits"]
              /\ ~delivery[i].won =>
                    delivery[i].outcome \in {Responded(delivery[i].by), <<"cancelled", "user">>}
        /\ delivery[i].by \notin Clients \/ delivery[i].won =>
              \A c \in Clients : delivery[i].outcome # Responded(c)

AnswerInv ==
    \A c \in Clients :
        /\ answer[c] # None => answer[c].of \in requested \ pending
        /\ answer[c] # None /\ answer[c].said = "accepted" =>
              settled[answer[c].of] \in {Responded(c), <<"cancelled", "user">>}
        /\ \A i \in Interactions : settled[i] = Responded(c) =>
              answer[c] # None /\ answer[c].of = i /\ answer[c].said # "not_pending"

\* Each admission of the lifecycle belongs to a request that is pending or
\* orphaned, or to a payload that has not given back one or both of its own.
Two == {i \in Interactions : payload[i] \in {"held", "sent", "dropping"}}
One == {i \in Interactions : payload[i] \in {"held", "sent", "dropping", "callback", "told"}}
AdmissionsInv ==
    /\ admissions = Cardinality(pending) + Cardinality(orphans) + Cardinality(One) + Cardinality(Two)
    /\ lifecycle = "Quiescent" => admissions = 0

RendezvousInv == TypeOK /\ PlaceInv /\ FactInv /\ DeliveryInv /\ AnswerInv /\ AdmissionsInv

-----------------------------------------------------------------------------
(* The values that tell outcomes from errors.                               *)

LEMMA OutcomeValues ==
    /\ \A c \in Clients : Responded(c) \in Outcomes
    /\ \A x \in Causes \cup {"user", "shutdown"} : <<"cancelled", x>> \in Outcomes
    /\ \A c, x : Responded(c) # <<"cancelled", x>>
    /\ \A c, e : Responded(c) = Responded(e) => c = e
    /\ \A why \in {"unavailable", "publication_failed", "control_lost", "audit_failed"} :
          Failed(why) \in Failures
    /\ \A v \in Outcomes : v \notin Failures
BY DEF Responded, Outcomes, Failed, Failures

\* What the winner of the race does, whoever it is.
Settles(i, by, o, validate) ==
    /\ lifecycle # "Quiescent" /\ i \in pending
    /\ pending' = pending \ {i} /\ admissions' = admissions + 1
    /\ payload' = [payload EXCEPT ![i] = "held"]
    /\ delivery'[i] \in Deliveries
    /\ delivery' = [delivery EXCEPT ![i] = delivery'[i]]
    /\ delivery'[i].by = by
    /\ settled' = [settled EXCEPT ![i] = IF delivery'[i].audit THEN delivery'[i].outcome ELSE @]
    /\ ~delivery'[i].won => delivery'[i].outcome = o
    /\ delivery'[i].won => validate /\ \A c : delivery'[i].outcome # Responded(c)
    /\ UNCHANGED <<lifecycle, world, lost, chan, result, orphans, requested, cause, marked>>

LEMMA SettleEffects ==
    ASSUME TypeOK, NEW i \in Interactions, NEW by \in Actors, NEW o \in Outcomes,
           NEW validate \in BOOLEAN, BeginSettle(i, by, o, validate)
    PROVE  Settles(i, by, o, validate)
<1> DEFINE final == Prevails(i, o, validate)
           won == validate /\ cause[i] # None
<1>1. PICK ok \in BOOLEAN :
        /\ settled' = IF ok THEN [settled EXCEPT ![i] = final] ELSE settled
        /\ delivery' = [delivery EXCEPT ![i] =
              [by |-> by, outcome |-> final, audit |-> ok, won |-> won]]
  BY DEF BeginSettle
<1>2. /\ final \in Outcomes /\ won \in BOOLEAN
      /\ ~won => final = o
      /\ won => validate /\ \A c : final # Responded(c)
  BY OutcomeValues DEF Prevails, TypeOK
<1> HIDE DEF final, won
<1>3. delivery'[i] = [by |-> by, outcome |-> final, audit |-> ok, won |-> won]
  BY <1>1 DEF TypeOK
<1>4. /\ delivery'[i] \in Deliveries /\ delivery'[i].by = by
      /\ delivery'[i].outcome = final /\ delivery'[i].audit = ok /\ delivery'[i].won = won
  BY <1>2, <1>3 DEF Deliveries
<1>5. delivery' = [delivery EXCEPT ![i] = delivery'[i]]
  BY <1>1, <1>3
<1>6. settled' = [settled EXCEPT ![i] = IF ok THEN final ELSE @]
  BY <1>1 DEF TypeOK
<1>7. /\ lifecycle # "Quiescent" /\ i \in pending
      /\ pending' = pending \ {i} /\ admissions' = admissions + 1
      /\ payload' = [payload EXCEPT ![i] = "held"]
      /\ UNCHANGED <<lifecycle, world, lost, chan, result, orphans, requested, cause, marked>>
  BY DEF BeginSettle
<1> QED
  BY <1>2, <1>4, <1>5, <1>6, <1>7 DEF Settles

-----------------------------------------------------------------------------
LEMMA RendezvousInit == Init => RendezvousInv
<1> SUFFICES ASSUME Init PROVE RendezvousInv
  OBVIOUS
<1>1. TypeOK
  BY DEF Init, TypeOK
<1>2. PlaceInv /\ FactInv /\ DeliveryInv /\ AnswerInv
  BY NoneAssumption, OutcomeValues DEF Init, PlaceInv, FactInv, DeliveryInv, AnswerInv, Erred
<1>3. AdmissionsInv
  <2>1. One = {} /\ Two = {}
    BY DEF Init, One, Two
  <2> QED
    BY <2>1, FS_EmptySet DEF Init, AdmissionsInv
<1> QED
  BY <1>1, <1>2, <1>3 DEF RendezvousInv

\* Types, where the counter of admissions is a number if what it counts is finite.
Typed ==
    /\ pending' \subseteq Interactions /\ orphans' \subseteq Interactions
    /\ admissions' \in Nat => TypeOK'

\* Each action keeps the types, of the counter of admissions apart.
LEMMA RendezvousTypeStep ==
    ASSUME RendezvousInv, [Next]_vars
    PROVE  Typed
<1> USE NoneAssumption, InteractionAssumption, OutcomeValues
    DEF Typed, TypeOK, Waiting, Causes, Answers, owner, facts, world
<1> TypeOK /\ PlaceInv /\ FactInv /\ DeliveryInv /\ AnswerInv /\ AdmissionsInv
  BY DEF RendezvousInv
<1>1. ASSUME NEW i \in Interactions, AdmitPublication(i)
      PROVE  Typed
  BY <1>1 DEF AdmitPublication, Fails
<1>2. ASSUME NEW i \in Interactions, PublishRefused(i)
      PROVE  Typed
  BY <1>2 DEF PublishRefused, Fails
<1>3. ASSUME NEW i \in Interactions, PublishInner(i)
      PROVE  Typed
  BY <1>3 DEF PublishInner
<1>4. ASSUME NEW i \in Interactions, RouteRequested(i)
      PROVE  Typed
  BY <1>4 DEF RouteRequested
<1>5. ASSUME NEW i \in Interactions, RouteRequestedFails(i)
      PROVE  Typed
  BY <1>5 DEF RouteRequestedFails, Fails
<1>6. ASSUME NEW i \in Interactions, NoticeCancellation(i)
      PROVE  Typed
  BY <1>6 DEF NoticeCancellation
<1>7. ASSUME NEW i \in Interactions, WaiterCancels(i)
      PROVE  Typed
  <2>1. CASE BeginSettle(i, "waiter", <<"cancelled", cause[i]>>, FALSE)
    <3>1. cause[i] \in Causes /\ waiter[i] = "cancelling"
      BY <1>7 DEF WaiterCancels, PlaceInv, TypeOK
    <3>2. waiter' = [waiter EXCEPT ![i] = "delivering"] /\ UNCHANGED <<answer, drain>>
      BY <1>7, <2>1 DEF WaiterCancels, BeginSettle
    <3>3. Settles(i, "waiter", <<"cancelled", cause[i]>>, FALSE)
      BY <2>1, <3>1, SettleEffects DEF Actors
    <3> QED
      BY <3>1, <3>2, <3>3 DEF Settles
  <2>2. CASE ~BeginSettle(i, "waiter", <<"cancelled", cause[i]>>, FALSE)
    <3>1. /\ waiter[i] = "cancelling" /\ waiter' = [waiter EXCEPT ![i] = "receiving"]
          /\ UNCHANGED <<lifecycle, admissions, available, routed, lost, chan, result, pending,
                         orphans, delivery, payload, requested, settled, cause, marked, answer, drain>>
      BY <1>7, <2>2 DEF WaiterCancels
    <3> QED
      BY <3>1
  <2> QED
    BY <2>1, <2>2
<1>8. ASSUME NEW i \in Interactions, Receive(i)
      PROVE  Typed
  BY <1>8 DEF Receive
<1>9. ASSUME NEW i \in Interactions, DeliverFailure(i)
      PROVE  Typed
  BY <1>9 DEF DeliverFailure, Send, Delivered
<1>10. ASSUME NEW i \in Interactions, DeliverOutcome(i)
      PROVE  Typed
  <2>1. delivery[i].outcome \in Outcomes
    BY <1>10 DEF DeliverOutcome, Deliveries
  <2>2. answer' \in [Clients -> {None} \cup Answers]
    BY <1>10 DEF DeliverOutcome, Delivered
  <2> QED
    BY <1>10, <2>1, <2>2 DEF DeliverOutcome, Send, Delivered
<1>11. ASSUME NEW i \in Interactions, DropPayload(i)
      PROVE  Typed
  BY <1>11 DEF DropPayload, Dropping
<1>12. ASSUME NEW i \in Interactions, ReleaseOrphan(i)
      PROVE  Typed
  BY <1>12 DEF ReleaseOrphan
<1>13. ASSUME NEW i \in Interactions, NEW x \in Causes, CancelExecution(i, x)
      PROVE  Typed
  BY <1>13 DEF CancelExecution
<1>14. ASSUME NEW i \in Interactions, NEW c \in Clients, Control(c, i)
      PROVE  Typed
  <2>1. /\ answer[c] = None /\ answer' = [answer EXCEPT ![c] = [of |-> i, said |-> "waits"]]
        /\ UNCHANGED <<waiter, drain>>
    BY <1>14 DEF Control
  <2>2. CASE BeginSettle(i, c, Responded(c), TRUE)
    <3>1. Settles(i, c, Responded(c), TRUE)
      BY <2>2, SettleEffects DEF Actors
    <3>2. answer' \in [Clients -> {None} \cup Answers]
      BY <2>1
    <3>3. /\ delivery' \in [Interactions -> {None} \cup Deliveries]
          /\ settled' \in [Interactions -> {None} \cup Outcomes]
      BY <3>1 DEF Settles, Deliveries
    <3> QED
      BY <2>1, <3>1, <3>2, <3>3 DEF Settles
  <2>3. CASE BeginSettle(i, c, <<"cancelled", "user">>, FALSE)
    <3>1. Settles(i, c, <<"cancelled", "user">>, FALSE)
      BY <2>3, SettleEffects DEF Actors
    <3>2. answer' \in [Clients -> {None} \cup Answers]
      BY <2>1
    <3>3. /\ delivery' \in [Interactions -> {None} \cup Deliveries]
          /\ settled' \in [Interactions -> {None} \cup Outcomes]
      BY <3>1 DEF Settles, Deliveries
    <3> QED
      BY <2>1, <3>1, <3>2, <3>3 DEF Settles
  <2> QED
    BY <1>14, <2>2, <2>3 DEF Control
<1>15. ASSUME NEW i \in Interactions, NEW c \in Clients, ControlStale(c, i)
      PROVE  Typed
  BY <1>15 DEF ControlStale
<1>16. ASSUME NEW i \in Interactions, DrainCancels(i)
      PROVE  Typed
  <2>1. drain' = [drain EXCEPT !.todo = @ \ {i}] /\ UNCHANGED <<waiter, answer>>
    BY <1>16 DEF DrainCancels
  <2>2. CASE BeginSettle(i, "drain", <<"cancelled", "shutdown">>, FALSE)
    <3>1. Settles(i, "drain", <<"cancelled", "shutdown">>, FALSE)
      BY <2>2, SettleEffects DEF Actors
    <3> QED
      BY <2>1, <3>1 DEF Settles
  <2>3. CASE ~BeginSettle(i, "drain", <<"cancelled", "shutdown">>, FALSE)
    <3>1. UNCHANGED <<lifecycle, admissions, available, routed, lost, chan, result, pending, orphans,
                      delivery, payload, requested, settled, cause, marked>>
      BY <1>16, <2>3 DEF DrainCancels
    <3> QED
      BY <2>1, <3>1
  <2> QED
    BY <2>2, <2>3
<1>17. CASE SetProviderAvailable
  BY <1>17 DEF SetProviderAvailable
<1>18. CASE ParentLost
  BY <1>18 DEF ParentLost
<1>19. CASE BeginDrain
  BY <1>19 DEF BeginDrain
<1>20. CASE DrainSnapshot
  BY <1>20 DEF DrainSnapshot
<1>21. CASE DrainDone
  BY <1>21 DEF DrainDone
<1>22. CASE MarkQuiescent
  BY <1>22 DEF MarkQuiescent
<1>23. CASE UNCHANGED vars
  BY <1>23 DEF vars
<1> QED
  BY <1>1, <1>2, <1>3, <1>4, <1>5, <1>6, <1>7, <1>8, <1>9, <1>10, <1>11, <1>12,
     <1>13, <1>14, <1>15, <1>16, <1>17, <1>18, <1>19, <1>20, <1>21, <1>22, <1>23
     DEF Next, Owner, Deliver, Supervise

\* Each action keeps every request in one place.
LEMMA PlaceStep ==
    ASSUME RendezvousInv, [Next]_vars
    PROVE  PlaceInv'
<1> USE NoneAssumption, InteractionAssumption, OutcomeValues
    DEF TypeOK, PlaceInv, owner, facts, world
<1> TypeOK /\ PlaceInv /\ FactInv /\ DeliveryInv /\ AnswerInv /\ AdmissionsInv
  BY DEF RendezvousInv
<1>1. ASSUME NEW i \in Interactions, AdmitPublication(i)
      PROVE  PlaceInv'
  BY <1>1 DEF AdmitPublication, Fails
<1>2. ASSUME NEW i \in Interactions, PublishRefused(i)
      PROVE  PlaceInv'
  BY <1>2 DEF PublishRefused, Fails
<1>3. ASSUME NEW i \in Interactions, PublishInner(i)
      PROVE  PlaceInv'
  BY <1>3 DEF PublishInner
<1>4. ASSUME NEW i \in Interactions, RouteRequested(i)
      PROVE  PlaceInv'
  BY <1>4 DEF RouteRequested
<1>5. ASSUME NEW i \in Interactions, RouteRequestedFails(i)
      PROVE  PlaceInv'
  BY <1>5 DEF RouteRequestedFails, Fails
<1>6. ASSUME NEW i \in Interactions, NoticeCancellation(i)
      PROVE  PlaceInv'
  BY <1>6 DEF NoticeCancellation
<1>7. ASSUME NEW i \in Interactions, WaiterCancels(i)
      PROVE  PlaceInv'
  <2>1. CASE BeginSettle(i, "waiter", <<"cancelled", cause[i]>>, FALSE)
    <3>1. cause[i] \in Causes /\ waiter[i] = "cancelling"
      BY <1>7 DEF WaiterCancels, PlaceInv, TypeOK
    <3>2. waiter' = [waiter EXCEPT ![i] = "delivering"] /\ UNCHANGED <<answer, drain>>
      BY <1>7, <2>1 DEF WaiterCancels, BeginSettle
    <3>3. Settles(i, "waiter", <<"cancelled", cause[i]>>, FALSE)
      BY <2>1, <3>1, SettleEffects DEF Actors
    <3> QED
      BY <3>1, <3>2, <3>3 DEF Settles
  <2>2. CASE ~BeginSettle(i, "waiter", <<"cancelled", cause[i]>>, FALSE)
    <3>1. /\ waiter[i] = "cancelling" /\ waiter' = [waiter EXCEPT ![i] = "receiving"]
          /\ UNCHANGED <<lifecycle, admissions, available, routed, lost, chan, result, pending,
                         orphans, delivery, payload, requested, settled, cause, marked, answer, drain>>
      BY <1>7, <2>2 DEF WaiterCancels
    <3> QED
      BY <3>1
  <2> QED
    BY <2>1, <2>2
<1>8. ASSUME NEW i \in Interactions, Receive(i)
      PROVE  PlaceInv'
  BY <1>8 DEF Receive
<1>9. ASSUME NEW i \in Interactions, DeliverFailure(i)
      PROVE  PlaceInv'
  BY <1>9 DEF DeliverFailure, Send, Delivered
<1>10. ASSUME NEW i \in Interactions, DeliverOutcome(i)
      PROVE  PlaceInv'
  BY <1>10 DEF DeliverOutcome, Send, Delivered
<1>11. ASSUME NEW i \in Interactions, DropPayload(i)
      PROVE  PlaceInv'
  BY <1>11 DEF DropPayload, Dropping
<1>12. ASSUME NEW i \in Interactions, ReleaseOrphan(i)
      PROVE  PlaceInv'
  BY <1>12 DEF ReleaseOrphan
<1>13. ASSUME NEW i \in Interactions, NEW x \in Causes, CancelExecution(i, x)
      PROVE  PlaceInv'
  BY <1>13 DEF CancelExecution
<1>14. ASSUME NEW i \in Interactions, NEW c \in Clients, Control(c, i)
      PROVE  PlaceInv'
  <2>1. /\ answer[c] = None /\ answer' = [answer EXCEPT ![c] = [of |-> i, said |-> "waits"]]
        /\ UNCHANGED <<waiter, drain>>
    BY <1>14 DEF Control
  <2>2. CASE BeginSettle(i, c, Responded(c), TRUE)
    <3>1. Settles(i, c, Responded(c), TRUE)
      BY <2>2, SettleEffects DEF Actors
    <3> QED
      BY <2>1, <3>1 DEF Settles
  <2>3. CASE BeginSettle(i, c, <<"cancelled", "user">>, FALSE)
    <3>1. Settles(i, c, <<"cancelled", "user">>, FALSE)
      BY <2>3, SettleEffects DEF Actors
    <3> QED
      BY <2>1, <3>1 DEF Settles
  <2> QED
    BY <1>14, <2>2, <2>3 DEF Control
<1>15. ASSUME NEW i \in Interactions, NEW c \in Clients, ControlStale(c, i)
      PROVE  PlaceInv'
  BY <1>15 DEF ControlStale
<1>16. ASSUME NEW i \in Interactions, DrainCancels(i)
      PROVE  PlaceInv'
  <2>1. drain' = [drain EXCEPT !.todo = @ \ {i}] /\ UNCHANGED <<waiter, answer>>
    BY <1>16 DEF DrainCancels
  <2>2. CASE BeginSettle(i, "drain", <<"cancelled", "shutdown">>, FALSE)
    <3>1. Settles(i, "drain", <<"cancelled", "shutdown">>, FALSE)
      BY <2>2, SettleEffects DEF Actors
    <3> QED
      BY <2>1, <3>1 DEF Settles
  <2>3. CASE ~BeginSettle(i, "drain", <<"cancelled", "shutdown">>, FALSE)
    <3>1. UNCHANGED <<lifecycle, admissions, available, routed, lost, chan, result, pending, orphans,
                      delivery, payload, requested, settled, cause, marked>>
      BY <1>16, <2>3 DEF DrainCancels
    <3> QED
      BY <2>1, <3>1
  <2> QED
    BY <2>2, <2>3
<1>17. CASE SetProviderAvailable
  BY <1>17 DEF SetProviderAvailable
<1>18. CASE ParentLost
  BY <1>18 DEF ParentLost
<1>19. CASE BeginDrain
  BY <1>19 DEF BeginDrain
<1>20. CASE DrainSnapshot
  BY <1>20 DEF DrainSnapshot
<1>21. CASE DrainDone
  BY <1>21 DEF DrainDone
<1>22. CASE MarkQuiescent
  BY <1>22 DEF MarkQuiescent
<1>23. CASE UNCHANGED vars
  BY <1>23 DEF vars
<1> QED
  BY <1>1, <1>2, <1>3, <1>4, <1>5, <1>6, <1>7, <1>8, <1>9, <1>10, <1>11, <1>12,
     <1>13, <1>14, <1>15, <1>16, <1>17, <1>18, <1>19, <1>20, <1>21, <1>22, <1>23
     DEF Next, Owner, Deliver, Supervise

\* Each action keeps the fact, the delivery, the channel and the result together.
LEMMA FactStep ==
    ASSUME RendezvousInv, [Next]_vars
    PROVE  FactInv'
<1> USE NoneAssumption, InteractionAssumption, OutcomeValues
    DEF TypeOK, PlaceInv, FactInv, Erred, owner, facts, world
<1> TypeOK /\ PlaceInv /\ FactInv /\ DeliveryInv /\ AnswerInv /\ AdmissionsInv
  BY DEF RendezvousInv
<1>1. ASSUME NEW i \in Interactions, AdmitPublication(i)
      PROVE  FactInv'
  BY <1>1 DEF AdmitPublication, Fails
<1>2. ASSUME NEW i \in Interactions, PublishRefused(i)
      PROVE  FactInv'
  BY <1>2 DEF PublishRefused, Fails
<1>3. ASSUME NEW i \in Interactions, PublishInner(i)
      PROVE  FactInv'
  BY <1>3 DEF PublishInner
<1>4. ASSUME NEW i \in Interactions, RouteRequested(i)
      PROVE  FactInv'
  BY <1>4 DEF RouteRequested
<1>5. ASSUME NEW i \in Interactions, RouteRequestedFails(i)
      PROVE  FactInv'
  BY <1>5 DEF RouteRequestedFails, Fails
<1>6. ASSUME NEW i \in Interactions, NoticeCancellation(i)
      PROVE  FactInv'
  BY <1>6 DEF NoticeCancellation
<1>7. ASSUME NEW i \in Interactions, WaiterCancels(i)
      PROVE  FactInv'
  <2>1. CASE BeginSettle(i, "waiter", <<"cancelled", cause[i]>>, FALSE)
    <3>1. cause[i] \in Causes /\ waiter[i] = "cancelling"
      BY <1>7 DEF WaiterCancels, PlaceInv, TypeOK
    <3>2. waiter' = [waiter EXCEPT ![i] = "delivering"] /\ UNCHANGED <<answer, drain>>
      BY <1>7, <2>1 DEF WaiterCancels, BeginSettle
    <3>3. Settles(i, "waiter", <<"cancelled", cause[i]>>, FALSE)
      BY <2>1, <3>1, SettleEffects DEF Actors
    <3> QED
      BY <3>1, <3>2, <3>3 DEF Settles
  <2>2. CASE ~BeginSettle(i, "waiter", <<"cancelled", cause[i]>>, FALSE)
    <3>1. /\ waiter[i] = "cancelling" /\ waiter' = [waiter EXCEPT ![i] = "receiving"]
          /\ UNCHANGED <<lifecycle, admissions, available, routed, lost, chan, result, pending,
                         orphans, delivery, payload, requested, settled, cause, marked, answer, drain>>
      BY <1>7, <2>2 DEF WaiterCancels
    <3> QED
      BY <3>1
  <2> QED
    BY <2>1, <2>2
<1>8. ASSUME NEW i \in Interactions, Receive(i)
      PROVE  FactInv'
  BY <1>8 DEF Receive
<1>9. ASSUME NEW i \in Interactions, DeliverFailure(i)
      PROVE  FactInv'
  BY <1>9 DEF DeliverFailure, Send, Delivered
<1>10. ASSUME NEW i \in Interactions, DeliverOutcome(i)
      PROVE  FactInv'
  BY <1>10 DEF DeliverOutcome, Send, Delivered
<1>11. ASSUME NEW i \in Interactions, DropPayload(i)
      PROVE  FactInv'
  BY <1>11 DEF DropPayload, Dropping
<1>12. ASSUME NEW i \in Interactions, ReleaseOrphan(i)
      PROVE  FactInv'
  BY <1>12 DEF ReleaseOrphan
<1>13. ASSUME NEW i \in Interactions, NEW x \in Causes, CancelExecution(i, x)
      PROVE  FactInv'
  BY <1>13 DEF CancelExecution
<1>14. ASSUME NEW i \in Interactions, NEW c \in Clients, Control(c, i)
      PROVE  FactInv'
  <2>1. /\ answer[c] = None /\ answer' = [answer EXCEPT ![c] = [of |-> i, said |-> "waits"]]
        /\ UNCHANGED <<waiter, drain>>
    BY <1>14 DEF Control
  <2>2. CASE BeginSettle(i, c, Responded(c), TRUE)
    <3>1. Settles(i, c, Responded(c), TRUE)
      BY <2>2, SettleEffects DEF Actors
    <3> QED
      BY <2>1, <3>1 DEF Settles
  <2>3. CASE BeginSettle(i, c, <<"cancelled", "user">>, FALSE)
    <3>1. Settles(i, c, <<"cancelled", "user">>, FALSE)
      BY <2>3, SettleEffects DEF Actors
    <3> QED
      BY <2>1, <3>1 DEF Settles
  <2> QED
    BY <1>14, <2>2, <2>3 DEF Control
<1>15. ASSUME NEW i \in Interactions, NEW c \in Clients, ControlStale(c, i)
      PROVE  FactInv'
  BY <1>15 DEF ControlStale
<1>16. ASSUME NEW i \in Interactions, DrainCancels(i)
      PROVE  FactInv'
  <2>1. drain' = [drain EXCEPT !.todo = @ \ {i}] /\ UNCHANGED <<waiter, answer>>
    BY <1>16 DEF DrainCancels
  <2>2. CASE BeginSettle(i, "drain", <<"cancelled", "shutdown">>, FALSE)
    <3>1. Settles(i, "drain", <<"cancelled", "shutdown">>, FALSE)
      BY <2>2, SettleEffects DEF Actors
    <3> QED
      BY <2>1, <3>1 DEF Settles
  <2>3. CASE ~BeginSettle(i, "drain", <<"cancelled", "shutdown">>, FALSE)
    <3>1. UNCHANGED <<lifecycle, admissions, available, routed, lost, chan, result, pending, orphans,
                      delivery, payload, requested, settled, cause, marked>>
      BY <1>16, <2>3 DEF DrainCancels
    <3> QED
      BY <2>1, <3>1
  <2> QED
    BY <2>2, <2>3
<1>17. CASE SetProviderAvailable
  BY <1>17 DEF SetProviderAvailable
<1>18. CASE ParentLost
  BY <1>18 DEF ParentLost
<1>19. CASE BeginDrain
  BY <1>19 DEF BeginDrain
<1>20. CASE DrainSnapshot
  BY <1>20 DEF DrainSnapshot
<1>21. CASE DrainDone
  BY <1>21 DEF DrainDone
<1>22. CASE MarkQuiescent
  BY <1>22 DEF MarkQuiescent
<1>23. CASE UNCHANGED vars
  BY <1>23 DEF vars
<1> QED
  BY <1>1, <1>2, <1>3, <1>4, <1>5, <1>6, <1>7, <1>8, <1>9, <1>10, <1>11, <1>12,
     <1>13, <1>14, <1>15, <1>16, <1>17, <1>18, <1>19, <1>20, <1>21, <1>22, <1>23
     DEF Next, Owner, Deliver, Supervise

\* The cardinalities that count admissions are natural numbers.
LEMMA CountsAreNat ==
    ASSUME TypeOK
    PROVE  /\ IsFiniteSet(pending) /\ IsFiniteSet(orphans) /\ IsFiniteSet(One) /\ IsFiniteSet(Two)
           /\ Cardinality(pending) \in Nat /\ Cardinality(orphans) \in Nat
           /\ Cardinality(One) \in Nat /\ Cardinality(Two) \in Nat
<1>1. pending \subseteq Interactions /\ orphans \subseteq Interactions
  BY DEF TypeOK
<1>2. One \subseteq Interactions /\ Two \subseteq Interactions
  BY DEF One, Two
<1>3. IsFiniteSet(pending) /\ IsFiniteSet(orphans) /\ IsFiniteSet(One) /\ IsFiniteSet(Two)
  BY <1>1, <1>2, InteractionAssumption, FS_Subset
<1> QED
  BY <1>3, FS_CardinalityType

\* A quiescent runtime counts no admission, so nothing that needs one is left.
LEMMA QuiescentIsEmpty ==
    ASSUME RendezvousInv, lifecycle = "Quiescent"
    PROVE  pending = {} /\ orphans = {} /\ One = {} /\ Two = {}
<1>1. admissions = 0 /\ TypeOK /\ AdmissionsInv
  BY DEF RendezvousInv, AdmissionsInv
<1>2. /\ Cardinality(pending) \in Nat /\ Cardinality(orphans) \in Nat
      /\ Cardinality(One) \in Nat /\ Cardinality(Two) \in Nat
  BY <1>1, CountsAreNat
<1>3. 0 = Cardinality(pending) + Cardinality(orphans) + Cardinality(One) + Cardinality(Two)
  BY <1>1 DEF AdmissionsInv
<1>4. /\ Cardinality(pending) = 0 /\ Cardinality(orphans) = 0
      /\ Cardinality(One) = 0 /\ Cardinality(Two) = 0
  <2>1. \A a, b, c, d \in Nat : 0 = a + b + c + d => a = 0 /\ b = 0 /\ c = 0 /\ d = 0
    OBVIOUS
  <2> QED
    BY <1>2, <1>3, <2>1
<1> QED
  BY <1>1, <1>4, CountsAreNat, FS_EmptySet

\* What a client can be told, and that it is something.
Told == {"accepted", "not_pending", "audit_failed", "control_lost"}

LEMMA AnswerValues ==
    ASSUME NEW i \in Interactions, NEW said \in Told \cup {"waits"}
    PROVE  /\ [of |-> i, said |-> said] # None
           /\ [of |-> i, said |-> said].of = i /\ [of |-> i, said |-> said].said = said
<1>1. [of |-> i, said |-> said] \in Answers
  BY DEF Answers, Told
<1> QED
  BY <1>1, NoneAssumption

\* The client of a delivery waits for it.
LEMMA DeliveryClient ==
    ASSUME DeliveryInv, NEW i \in Interactions, delivery[i] # None, delivery[i].by \in Clients
    PROVE  /\ answer[delivery[i].by] # None
           /\ answer[delivery[i].by].of = i /\ answer[delivery[i].by].said = "waits"
<1>1. answer[delivery[i].by] = [of |-> i, said |-> "waits"]
  BY DEF DeliveryInv
<1> QED
  BY <1>1, AnswerValues

\* The one who settles a request is a client that had not asked before and now
\* waits, or is none.
LEMMA ClientSettles ==
    ASSUME RendezvousInv, NEW i \in Interactions, NEW by \in Actors, NEW o \in Outcomes,
           NEW validate \in BOOLEAN, Settles(i, by, o, validate),
           \/ /\ by \in Clients /\ answer[by] = None
              /\ answer' = [answer EXCEPT ![by] = [of |-> i, said |-> "waits"]]
              /\ o \in {Responded(by), <<"cancelled", "user">>}
           \/ /\ by \notin Clients /\ answer' = answer
              /\ \A c : o # Responded(c)
    PROVE  DeliveryInv' /\ AnswerInv'
<1> USE NoneAssumption, OutcomeValues DEF RendezvousInv, TypeOK
<1>1. /\ i \in pending /\ i \in requested /\ settled[i] = None
      /\ \A j \in Interactions : j # i => delivery'[j] = delivery[j] /\ settled'[j] = settled[j]
      /\ settled'[i] = IF delivery'[i].audit THEN delivery'[i].outcome ELSE None
      /\ requested' = requested /\ pending' = pending \ {i}
  BY DEF Settles, PlaceInv, FactInv
<1>2. /\ delivery'[i] \in Deliveries /\ delivery'[i].by = by
      /\ ~delivery'[i].won => delivery'[i].outcome = o
      /\ delivery'[i].won => \A c : delivery'[i].outcome # Responded(c)
  BY DEF Settles
<1>3. \A c \in Clients : c # by => answer'[c] = answer[c]
  OBVIOUS
<1>4. by \in Clients => answer'[by] = [of |-> i, said |-> "waits"] /\ answer[by] = None
  OBVIOUS
<1>5. DeliveryInv'
  <2> SUFFICES ASSUME NEW j \in Interactions, delivery'[j] # None
               PROVE  /\ delivery'[j].by \in Clients =>
                            /\ answer'[delivery'[j].by] = [of |-> j, said |-> "waits"]
                            /\ ~delivery'[j].won => delivery'[j].outcome
                                  \in {Responded(delivery'[j].by), <<"cancelled", "user">>}
                      /\ delivery'[j].by \notin Clients \/ delivery'[j].won =>
                            \A c \in Clients : delivery'[j].outcome # Responded(c)
    BY DEF DeliveryInv
  <2>1. CASE j = i
    BY <2>1, <1>2, <1>4
  <2>2. CASE j # i
    <3>1. delivery'[j] = delivery[j] /\ delivery[j] # None
      BY <1>1, <2>2
    <3>2. delivery[j].by \in Clients => answer[delivery[j].by] # None
      BY <3>1, DeliveryClient
    <3>3. delivery[j].by \in Clients => answer'[delivery[j].by] = answer[delivery[j].by]
      BY <1>3, <1>4, <3>2
    <3> QED
      BY <3>1, <3>3 DEF DeliveryInv
  <2> QED
    BY <2>1, <2>2
<1>6. ASSUME NEW c \in Clients
      PROVE  /\ answer'[c] # None => answer'[c].of \in requested' \ pending'
             /\ answer'[c] # None /\ answer'[c].said = "accepted" =>
                   settled'[answer'[c].of] \in {Responded(c), <<"cancelled", "user">>}
  <2>1. CASE c = by
    BY <2>1, <1>1, <1>4
  <2>2. CASE c # by
    <3>1. answer'[c] = answer[c]
      BY <2>2, <1>3
    <3>2. answer[c] # None => /\ answer[c].of \in requested \ pending /\ answer[c].of \in Interactions
                              /\ answer[c].of # i
      BY <1>1 DEF AnswerInv, Answers
    <3>3. answer[c] # None => settled'[answer[c].of] = settled[answer[c].of]
      BY <1>1, <3>2
    <3> QED
      BY <1>1, <3>1, <3>2, <3>3 DEF AnswerInv
  <2> QED
    BY <2>1, <2>2
<1>7. ASSUME NEW c \in Clients, NEW j \in Interactions, settled'[j] = Responded(c)
      PROVE  answer'[c] # None /\ answer'[c].of = j /\ answer'[c].said # "not_pending"
  <2>1. CASE j = i
    <3>1. delivery'[i].audit /\ delivery'[i].outcome = Responded(c)
      BY <1>1, <1>7, <2>1
    <3>2. by = c
      BY <1>2, <3>1
    <3>3. answer'[c] = [of |-> i, said |-> "waits"]
      BY <1>4, <3>2
    <3>4. answer'[c] \in Answers
      BY <3>3 DEF Answers
    <3> QED
      BY <2>1, <3>3, <3>4
  <2>2. CASE j # i
    <3>1. answer[c] # None /\ answer[c].of = j /\ answer[c].said # "not_pending"
      BY <1>1, <1>7, <2>2 DEF AnswerInv
    <3> QED
      BY <1>3, <1>4, <3>1
  <2> QED
    BY <2>1, <2>2
<1> QED
  BY <1>5, <1>6, <1>7 DEF AnswerInv

\* The client in whose name a request was settled is told what became of it.
LEMMA ClientIsTold ==
    ASSUME RendezvousInv, NEW i \in Interactions, NEW said \in Told,
           delivery[i] # None, Delivered(i, said),
           said = "accepted" => delivery[i].audit /\ ~delivery[i].won,
           said = "not_pending" => delivery[i].won
    PROVE  DeliveryInv' /\ AnswerInv'
<1> USE NoneAssumption, OutcomeValues DEF RendezvousInv, TypeOK
<1>1. /\ requested' = requested /\ pending' = pending /\ settled' = settled
      /\ delivery' = [delivery EXCEPT ![i] = None]
      /\ \A c \in Clients : answer'[c] = IF c = delivery[i].by THEN [of |-> i, said |-> said]
                                           ELSE answer[c]
  BY DEF Delivered, facts
<1>2. delivery[i].by \in Clients =>
          answer[delivery[i].by] # None /\ answer[delivery[i].by].of = i
  BY DeliveryClient
<1>3. DeliveryInv'
  <2> SUFFICES ASSUME NEW j \in Interactions, delivery'[j] # None
               PROVE  /\ delivery'[j].by \in Clients =>
                            /\ answer'[delivery'[j].by] = [of |-> j, said |-> "waits"]
                            /\ ~delivery'[j].won => delivery'[j].outcome
                                  \in {Responded(delivery'[j].by), <<"cancelled", "user">>}
                      /\ delivery'[j].by \notin Clients \/ delivery'[j].won =>
                            \A c \in Clients : delivery'[j].outcome # Responded(c)
    BY DEF DeliveryInv
  <2>1. j # i /\ delivery'[j] = delivery[j] /\ delivery[j] # None
    BY <1>1
  <2>2. delivery[j].by \in Clients => answer[delivery[j].by].of = j
    BY <2>1, DeliveryClient
  <2>3. delivery[j].by \in Clients => answer'[delivery[j].by] = answer[delivery[j].by]
    BY <1>1, <1>2, <2>1, <2>2
  <2> QED
    BY <2>1, <2>3 DEF DeliveryInv
<1>4. ASSUME NEW c \in Clients
      PROVE  /\ answer'[c] # None => answer'[c].of \in requested' \ pending'
             /\ answer'[c] # None /\ answer'[c].said = "accepted" =>
                   settled'[answer'[c].of] \in {Responded(c), <<"cancelled", "user">>}
             /\ \A j \in Interactions : settled'[j] = Responded(c) =>
                   answer'[c] # None /\ answer'[c].of = j /\ answer'[c].said # "not_pending"
  <2>1. CASE c # delivery[i].by
    BY <1>1, <2>1 DEF AnswerInv
  <2>2. CASE c = delivery[i].by
    <3>1. answer'[c] = [of |-> i, said |-> said] /\ i \in requested \ pending
      BY <1>1, <1>2, <2>2 DEF AnswerInv
    <3>2. settled[i] = IF delivery[i].audit THEN delivery[i].outcome ELSE None
      BY DEF FactInv
    <3>3. said = "accepted" => settled[i] \in {Responded(c), <<"cancelled", "user">>}
      BY <2>2, <3>2 DEF DeliveryInv
    <3>4. answer'[c] # None
      BY <3>1 DEF Answers, Told
    <3>5. ASSUME NEW j \in Interactions, settled[j] = Responded(c)
          PROVE  j = i /\ said # "not_pending"
      <4>1. j = i
        BY <1>2, <2>2, <3>5 DEF AnswerInv
      <4>2. settled[i] = delivery[i].outcome
        BY <3>2, <3>5, <4>1
      <4>3. delivery[i].won => delivery[i].outcome # Responded(c)
        BY DEF DeliveryInv
      <4> QED
        BY <3>5, <4>1, <4>2, <4>3
    <3> QED
      BY <1>1, <3>1, <3>3, <3>4, <3>5
  <2> QED
    BY <2>1, <2>2
<1> QED
  BY <1>3, <1>4 DEF AnswerInv

\* Each action keeps what is delivered in the name of a client, and what clients were told, true.
LEMMA ClientStep ==
    ASSUME RendezvousInv, [Next]_vars
    PROVE  DeliveryInv' /\ AnswerInv'
<1> USE NoneAssumption, InteractionAssumption, OutcomeValues
    DEF TypeOK, PlaceInv, FactInv, DeliveryInv, AnswerInv, owner, facts, world
<1> TypeOK /\ PlaceInv /\ FactInv /\ DeliveryInv /\ AnswerInv /\ AdmissionsInv
  BY DEF RendezvousInv
<1>1. ASSUME NEW i \in Interactions, AdmitPublication(i)
      PROVE  DeliveryInv' /\ AnswerInv'
  BY <1>1 DEF AdmitPublication, Fails
<1>2. ASSUME NEW i \in Interactions, PublishRefused(i)
      PROVE  DeliveryInv' /\ AnswerInv'
  BY <1>2 DEF PublishRefused, Fails
<1>3. ASSUME NEW i \in Interactions, PublishInner(i)
      PROVE  DeliveryInv' /\ AnswerInv'
  BY <1>3 DEF PublishInner
<1>4. ASSUME NEW i \in Interactions, RouteRequested(i)
      PROVE  DeliveryInv' /\ AnswerInv'
  BY <1>4 DEF RouteRequested
<1>5. ASSUME NEW i \in Interactions, RouteRequestedFails(i)
      PROVE  DeliveryInv' /\ AnswerInv'
  BY <1>5 DEF RouteRequestedFails, Fails
<1>6. ASSUME NEW i \in Interactions, NoticeCancellation(i)
      PROVE  DeliveryInv' /\ AnswerInv'
  BY <1>6 DEF NoticeCancellation
<1>7. ASSUME NEW i \in Interactions, WaiterCancels(i)
      PROVE  DeliveryInv' /\ AnswerInv'
  <2>1. CASE BeginSettle(i, "waiter", <<"cancelled", cause[i]>>, FALSE)
    <3>1. cause[i] \in Causes /\ waiter[i] = "cancelling"
      BY <1>7 DEF WaiterCancels, PlaceInv, TypeOK
    <3>2. waiter' = [waiter EXCEPT ![i] = "delivering"] /\ UNCHANGED <<answer, drain>>
      BY <1>7, <2>1 DEF WaiterCancels, BeginSettle
    <3>3. Settles(i, "waiter", <<"cancelled", cause[i]>>, FALSE)
      BY <2>1, <3>1, SettleEffects DEF Actors
    <3> QED
      <4>1. "waiter" \in Actors /\ "waiter" \notin Clients /\ answer' = answer
        BY <3>2 DEF Actors
      <4>2. /\ <<"cancelled", cause[i]>> \in Outcomes
            /\ \A c : <<"cancelled", cause[i]>> # Responded(c)
        BY <3>1
      <4> QED
        BY <3>3, <4>1, <4>2, ClientSettles
  <2>2. CASE ~BeginSettle(i, "waiter", <<"cancelled", cause[i]>>, FALSE)
    <3>1. /\ waiter[i] = "cancelling" /\ waiter' = [waiter EXCEPT ![i] = "receiving"]
          /\ UNCHANGED <<lifecycle, admissions, available, routed, lost, chan, result, pending,
                         orphans, delivery, payload, requested, settled, cause, marked, answer, drain>>
      BY <1>7, <2>2 DEF WaiterCancels
    <3> QED
      BY <3>1
  <2> QED
    BY <2>1, <2>2
<1>8. ASSUME NEW i \in Interactions, Receive(i)
      PROVE  DeliveryInv' /\ AnswerInv'
  BY <1>8 DEF Receive
<1>9. ASSUME NEW i \in Interactions, DeliverFailure(i)
      PROVE  DeliveryInv' /\ AnswerInv'
  <2>1. PICK why \in {"audit_failed", "control_lost"} :
            Delivered(i, IF delivery[i].won THEN "not_pending" ELSE why)
    BY <1>9 DEF DeliverFailure
  <2> QED
    BY <1>9, <2>1, ClientIsTold DEF DeliverFailure, Told
<1>10. ASSUME NEW i \in Interactions, DeliverOutcome(i)
      PROVE  DeliveryInv' /\ AnswerInv'
  BY <1>10, ClientIsTold DEF DeliverOutcome, Told
<1>11. ASSUME NEW i \in Interactions, DropPayload(i)
      PROVE  DeliveryInv' /\ AnswerInv'
  BY <1>11 DEF DropPayload, Dropping
<1>12. ASSUME NEW i \in Interactions, ReleaseOrphan(i)
      PROVE  DeliveryInv' /\ AnswerInv'
  BY <1>12 DEF ReleaseOrphan
<1>13. ASSUME NEW i \in Interactions, NEW x \in Causes, CancelExecution(i, x)
      PROVE  DeliveryInv' /\ AnswerInv'
  BY <1>13 DEF CancelExecution
<1>14. ASSUME NEW i \in Interactions, NEW c \in Clients, Control(c, i)
      PROVE  DeliveryInv' /\ AnswerInv'
  <2>1. /\ answer[c] = None /\ answer' = [answer EXCEPT ![c] = [of |-> i, said |-> "waits"]]
        /\ UNCHANGED <<waiter, drain>>
    BY <1>14 DEF Control
  <2>2. CASE BeginSettle(i, c, Responded(c), TRUE)
    <3>1. Settles(i, c, Responded(c), TRUE)
      BY <2>2, SettleEffects DEF Actors
    <3> QED
      BY <2>1, <3>1, ClientSettles DEF Actors
  <2>3. CASE BeginSettle(i, c, <<"cancelled", "user">>, FALSE)
    <3>1. Settles(i, c, <<"cancelled", "user">>, FALSE)
      BY <2>3, SettleEffects DEF Actors
    <3> QED
      BY <2>1, <3>1, ClientSettles DEF Actors
  <2> QED
    BY <1>14, <2>2, <2>3 DEF Control
<1>15. ASSUME NEW i \in Interactions, NEW c \in Clients, ControlStale(c, i)
      PROVE  DeliveryInv' /\ AnswerInv'
  <2>1. i \in requested /\ i \notin pending /\ answer[c] = None
    BY <1>15, QuiescentIsEmpty DEF ControlStale
  <2>2. answer' = [answer EXCEPT ![c] = [of |-> i, said |-> "not_pending"]]
        /\ UNCHANGED <<requested, pending, settled, delivery>>
    BY <1>15 DEF ControlStale
  <2>3. \A j \in Interactions : delivery[j] # None => delivery[j].by # c
    BY <2>1, DeliveryClient
  <2>4. DeliveryInv'
    BY <2>2, <2>3
  <2>5. AnswerInv'
    BY <2>1, <2>2
  <2> QED
    BY <2>4, <2>5
<1>16. ASSUME NEW i \in Interactions, DrainCancels(i)
      PROVE  DeliveryInv' /\ AnswerInv'
  <2>1. drain' = [drain EXCEPT !.todo = @ \ {i}] /\ UNCHANGED <<waiter, answer>>
    BY <1>16 DEF DrainCancels
  <2>2. CASE BeginSettle(i, "drain", <<"cancelled", "shutdown">>, FALSE)
    <3>1. Settles(i, "drain", <<"cancelled", "shutdown">>, FALSE)
      BY <2>2, SettleEffects DEF Actors
    <3> QED
      <4>1. "drain" \in Actors /\ "drain" \notin Clients /\ answer' = answer
        BY <2>1 DEF Actors
      <4>2. /\ <<"cancelled", "shutdown">> \in Outcomes
            /\ \A c : <<"cancelled", "shutdown">> # Responded(c)
        OBVIOUS
      <4> QED
        BY <3>1, <4>1, <4>2, ClientSettles
  <2>3. CASE ~BeginSettle(i, "drain", <<"cancelled", "shutdown">>, FALSE)
    <3>1. UNCHANGED <<lifecycle, admissions, available, routed, lost, chan, result, pending, orphans,
                      delivery, payload, requested, settled, cause, marked>>
      BY <1>16, <2>3 DEF DrainCancels
    <3> QED
      BY <2>1, <3>1
  <2> QED
    BY <2>2, <2>3
<1>17. CASE SetProviderAvailable
  BY <1>17 DEF SetProviderAvailable
<1>18. CASE ParentLost
  BY <1>18 DEF ParentLost
<1>19. CASE BeginDrain
  BY <1>19 DEF BeginDrain
<1>20. CASE DrainSnapshot
  BY <1>20 DEF DrainSnapshot
<1>21. CASE DrainDone
  BY <1>21 DEF DrainDone
<1>22. CASE MarkQuiescent
  BY <1>22 DEF MarkQuiescent
<1>23. CASE UNCHANGED vars
  BY <1>23 DEF vars
<1> QED
  BY <1>1, <1>2, <1>3, <1>4, <1>5, <1>6, <1>7, <1>8, <1>9, <1>10, <1>11, <1>12,
     <1>13, <1>14, <1>15, <1>16, <1>17, <1>18, <1>19, <1>20, <1>21, <1>22, <1>23
     DEF Next, Owner, Deliver, Supervise

\* What is counted does not change.
CountsUnchanged ==
    pending' = pending /\ orphans' = orphans /\ One' = One /\ Two' = Two /\ admissions' = admissions

LEMMA SettleCounts ==
    ASSUME RendezvousInv, NEW i \in Interactions, NEW by, NEW o, NEW validate,
           Settles(i, by, o, validate)
    PROVE  AdmissionsInv'
<1>1. TypeOK /\ PlaceInv /\ AdmissionsInv
  BY DEF RendezvousInv
<1>2. /\ i \in pending /\ pending' = pending \ {i} /\ orphans' = orphans
      /\ admissions' = admissions + 1 /\ lifecycle' = lifecycle /\ lifecycle # "Quiescent"
      /\ payload[i] = "none" /\ payload' = [payload EXCEPT ![i] = "held"]
  BY <1>1 DEF Settles, PlaceInv
<1>3. /\ i \notin One /\ One' = One \cup {i}
      /\ i \notin Two /\ Two' = Two \cup {i}
  BY <1>1, <1>2 DEF One, Two, TypeOK
<1>4. /\ Cardinality(pending') = Cardinality(pending) - 1
      /\ Cardinality(One') = Cardinality(One) + 1 /\ Cardinality(Two') = Cardinality(Two) + 1
  BY <1>1, <1>2, <1>3, CountsAreNat, FS_AddElement, FS_RemoveElement
<1> QED
  BY <1>1, <1>2, <1>4, CountsAreNat DEF AdmissionsInv

\* Each action counts an admission up or down with what it is held for.
LEMMA AdmissionsStep ==
    ASSUME RendezvousInv, [Next]_vars
    PROVE  AdmissionsInv'
<1> USE NoneAssumption, InteractionAssumption, OutcomeValues DEF owner, facts, world
<1> TypeOK /\ PlaceInv /\ AdmissionsInv
  BY DEF RendezvousInv
<1>a. ASSUME CountsUnchanged, lifecycle' = "Quiescent" => lifecycle = "Quiescent"
      PROVE  AdmissionsInv'
  BY <1>a DEF AdmissionsInv, CountsUnchanged
<1>b. ASSUME UNCHANGED <<pending, orphans, payload, admissions>>
      PROVE  CountsUnchanged
  BY <1>b DEF CountsUnchanged, One, Two
<1>1. ASSUME NEW i \in Interactions, PublishInner(i)
      PROVE  AdmissionsInv'
  <2>1. /\ i \notin pending /\ pending' = pending \cup {i} /\ admissions' = admissions + 1
        /\ lifecycle' = "Running" /\ orphans' = orphans /\ payload' = payload
    BY <1>1 DEF PublishInner, PlaceInv
  <2>2. One' = One /\ Two' = Two
    BY <2>1 DEF One, Two
  <2>3. Cardinality(pending') = Cardinality(pending) + 1
    BY <2>1, CountsAreNat, FS_AddElement
  <2> QED
    BY <2>1, <2>2, <2>3, CountsAreNat DEF AdmissionsInv
<1>2. ASSUME NEW i \in Interactions, RouteRequestedFails(i)
      PROVE  AdmissionsInv'
  <2>1. /\ pending' = pending \ {i} /\ orphans' = orphans /\ lifecycle' = lifecycle
        /\ admissions' = IF i \in pending THEN admissions - 1 ELSE admissions
        /\ payload' = [payload EXCEPT ![i] = IF @ = "sent" THEN "dropping" ELSE @]
    BY <1>2 DEF RouteRequestedFails
  <2>2. One' = One /\ Two' = Two
    BY <2>1 DEF One, Two, TypeOK
  <2>3. CASE i \in pending
    <3>1. Cardinality(pending') = Cardinality(pending) - 1
      BY <2>1, <2>3, CountsAreNat, FS_RemoveElement
    <3>2. lifecycle # "Quiescent"
      BY <2>3, QuiescentIsEmpty
    <3> QED
      BY <2>1, <2>2, <2>3, <3>1, <3>2, CountsAreNat DEF AdmissionsInv
  <2>4. CASE i \notin pending
    <3>1. pending' = pending
      BY <2>1, <2>4
    <3> QED
      BY <2>1, <2>2, <2>4, <3>1, <1>a DEF CountsUnchanged
  <2> QED
    BY <2>3, <2>4
<1>3. ASSUME NEW i \in Interactions, WaiterCancels(i)
      PROVE  AdmissionsInv'
  <2>1. CASE BeginSettle(i, "waiter", <<"cancelled", cause[i]>>, FALSE)
    <3>1. cause[i] \in Causes
      BY <1>3 DEF WaiterCancels, PlaceInv, TypeOK
    <3>2. Settles(i, "waiter", <<"cancelled", cause[i]>>, FALSE)
      BY <2>1, <3>1, SettleEffects DEF Actors
    <3> QED
      BY <3>2, SettleCounts
  <2>2. CASE ~BeginSettle(i, "waiter", <<"cancelled", cause[i]>>, FALSE)
    BY <1>3, <2>2, <1>a, <1>b DEF WaiterCancels
  <2> QED
    BY <2>1, <2>2
<1>4. ASSUME NEW i \in Interactions, NEW c \in Clients, Control(c, i)
      PROVE  AdmissionsInv'
  <2>1. CASE BeginSettle(i, c, Responded(c), TRUE)
    <3>1. Settles(i, c, Responded(c), TRUE)
      BY <2>1, SettleEffects DEF Actors
    <3> QED
      BY <3>1, SettleCounts
  <2>2. CASE BeginSettle(i, c, <<"cancelled", "user">>, FALSE)
    <3>1. Settles(i, c, <<"cancelled", "user">>, FALSE)
      BY <2>2, SettleEffects DEF Actors
    <3> QED
      BY <3>1, SettleCounts
  <2> QED
    BY <1>4, <2>1, <2>2 DEF Control
<1>5. ASSUME NEW i \in Interactions, DrainCancels(i)
      PROVE  AdmissionsInv'
  <2>1. CASE BeginSettle(i, "drain", <<"cancelled", "shutdown">>, FALSE)
    <3>1. Settles(i, "drain", <<"cancelled", "shutdown">>, FALSE)
      BY <2>1, SettleEffects DEF Actors
    <3> QED
      BY <3>1, SettleCounts
  <2>2. CASE ~BeginSettle(i, "drain", <<"cancelled", "shutdown">>, FALSE)
    BY <1>5, <2>2, <1>a, <1>b DEF DrainCancels
  <2> QED
    BY <2>1, <2>2
<1>6. ASSUME NEW i \in Interactions, Deliver(i)
      PROVE  AdmissionsInv'
  <2>1. /\ payload[i] = "held" /\ \E to \in {"sent", "dropping"} : payload' = [payload EXCEPT ![i] = to]
        /\ UNCHANGED <<lifecycle, pending, orphans, admissions>>
    BY <1>6 DEF Deliver, DeliverFailure, DeliverOutcome, Send, Delivered, PlaceInv
  <2>2. One' = One /\ Two' = Two
    BY <2>1 DEF One, Two, TypeOK
  <2> QED
    BY <2>1, <2>2, <1>a DEF CountsUnchanged
<1>7. ASSUME NEW i \in Interactions, Receive(i)
      PROVE  AdmissionsInv'
  <2>1. /\ payload' = [payload EXCEPT ![i] = IF @ = "sent" THEN "dropping" ELSE @]
        /\ UNCHANGED <<lifecycle, pending, orphans, admissions>>
    BY <1>7 DEF Receive
  <2>2. One' = One /\ Two' = Two
    BY <2>1 DEF One, Two, TypeOK
  <2> QED
    BY <2>1, <2>2, <1>a DEF CountsUnchanged
<1>8. ASSUME NEW i \in Interactions, DropPayload(i)
      PROVE  AdmissionsInv'
  <2>1. UNCHANGED <<lifecycle, pending, orphans>>
    BY <1>8 DEF DropPayload, Dropping
  <2>2. i \in One => lifecycle # "Quiescent"
    BY QuiescentIsEmpty
  <2>3. CASE Dropping(i, "dropping", "callback", 1)
    <3>1. /\ payload[i] = "dropping" /\ payload' = [payload EXCEPT ![i] = "callback"]
          /\ admissions' = admissions - 1
      BY <2>3 DEF Dropping
    <3>2. One' = One /\ i \in One /\ i \in Two /\ Two' = Two \ {i}
      BY <3>1 DEF One, Two, TypeOK
    <3>3. Cardinality(Two') = Cardinality(Two) - 1
      BY <3>2, CountsAreNat, FS_RemoveElement
    <3> QED
      BY <2>1, <2>2, <3>1, <3>2, <3>3, CountsAreNat DEF AdmissionsInv
  <2>4. CASE Dropping(i, "callback", "told", 0)
    <3>1. /\ payload[i] = "callback" /\ payload' = [payload EXCEPT ![i] = "told"]
          /\ admissions' = admissions
      BY <2>4 DEF Dropping, TypeOK
    <3>2. One' = One /\ Two' = Two
      BY <3>1 DEF One, Two, TypeOK
    <3> QED
      BY <2>1, <3>1, <3>2, <1>a DEF CountsUnchanged
  <2>5. CASE Dropping(i, "told", "gone", 1)
    <3>1. /\ payload[i] = "told" /\ payload' = [payload EXCEPT ![i] = "gone"]
          /\ admissions' = admissions - 1
      BY <2>5 DEF Dropping
    <3>2. Two' = Two /\ i \in One /\ One' = One \ {i}
      BY <3>1 DEF One, Two, TypeOK
    <3>3. Cardinality(One') = Cardinality(One) - 1
      BY <3>2, CountsAreNat, FS_RemoveElement
    <3> QED
      BY <2>1, <2>2, <3>1, <3>2, <3>3, CountsAreNat DEF AdmissionsInv
  <2> QED
    BY <1>8, <2>3, <2>4, <2>5 DEF DropPayload
<1>9. ASSUME NEW i \in Interactions, ReleaseOrphan(i)
      PROVE  AdmissionsInv'
  <2>1. /\ i \in orphans /\ orphans' = orphans \ {i} /\ admissions' = admissions - 1
        /\ UNCHANGED <<lifecycle, pending, payload>>
    BY <1>9 DEF ReleaseOrphan
  <2>2. One' = One /\ Two' = Two /\ lifecycle # "Quiescent"
    BY <2>1, QuiescentIsEmpty DEF One, Two
  <2>3. Cardinality(orphans') = Cardinality(orphans) - 1
    BY <2>1, CountsAreNat, FS_RemoveElement
  <2> QED
    BY <2>1, <2>2, <2>3, CountsAreNat DEF AdmissionsInv
<1>10. CASE ParentLost
  <2>1. /\ pending' = {} /\ orphans' = orphans \cup pending /\ lifecycle = "Running"
        /\ UNCHANGED <<lifecycle, payload, admissions>>
    BY <1>10 DEF ParentLost
  <2>2. One' = One /\ Two' = Two /\ orphans \cap pending = {}
    BY <2>1 DEF One, Two, PlaceInv, TypeOK
  <2>3. Cardinality(orphans') = Cardinality(orphans) + Cardinality(pending) /\ Cardinality(pending') = 0
    <3>1. Cardinality(orphans \cup pending)
             = Cardinality(orphans) + Cardinality(pending) - Cardinality(orphans \cap pending)
      BY CountsAreNat, FS_Union
    <3>2. Cardinality({}) = 0
      BY FS_EmptySet
    <3>3. Cardinality(orphans) \in Nat /\ Cardinality(pending) \in Nat
      BY CountsAreNat
    <3>4. Cardinality(orphans \cap pending) = 0
      BY <2>2, <3>2
    <3> QED
      BY <2>1, <3>1, <3>2, <3>3, <3>4
  <2> QED
    BY <2>1, <2>2, <2>3, CountsAreNat DEF AdmissionsInv
<1>11. CASE MarkQuiescent
  <2>1. admissions = 0 /\ UNCHANGED <<pending, orphans, payload, admissions>>
    BY <1>11 DEF MarkQuiescent
  <2> QED
    BY <2>1, <1>b DEF AdmissionsInv, CountsUnchanged
<1>12. ASSUME NEW i \in Interactions,
              \/ AdmitPublication(i) \/ PublishRefused(i) \/ RouteRequested(i)
              \/ NoticeCancellation(i)
              \/ \E x \in Causes : CancelExecution(i, x)
              \/ \E c \in Clients : ControlStale(c, i)
       PROVE  AdmissionsInv'
  BY <1>12, <1>a, <1>b
     DEF AdmitPublication, PublishRefused, RouteRequested, NoticeCancellation, CancelExecution,
         ControlStale
<1>13. CASE SetProviderAvailable \/ BeginDrain \/ DrainSnapshot \/ DrainDone \/ UNCHANGED vars
  BY <1>13, <1>a, <1>b DEF SetProviderAvailable, BeginDrain, DrainSnapshot, DrainDone, vars
<1> QED
  BY <1>1, <1>2, <1>3, <1>4, <1>5, <1>6, <1>7, <1>8, <1>9, <1>10, <1>11, <1>12, <1>13
     DEF Next, Owner, Supervise

-----------------------------------------------------------------------------
(* The theorems.                                                            *)

\* The inductive invariant of the rendezvous.
THEOREM RendezvousInvariant == Spec => []RendezvousInv
<1>1. ASSUME RendezvousInv, [Next]_vars PROVE RendezvousInv'
  <2>1. AdmissionsInv' /\ PlaceInv' /\ FactInv' /\ DeliveryInv' /\ AnswerInv'
    BY <1>1, AdmissionsStep, PlaceStep, FactStep, ClientStep
  <2>2. admissions' \in Nat
    <3>1. pending' \subseteq Interactions /\ orphans' \subseteq Interactions
      BY <1>1, RendezvousTypeStep DEF Typed
    <3>2. One' \subseteq Interactions /\ Two' \subseteq Interactions
      BY DEF One, Two
    <3>3. /\ Cardinality(pending') \in Nat /\ Cardinality(orphans') \in Nat
          /\ Cardinality(One') \in Nat /\ Cardinality(Two') \in Nat
      BY <3>1, <3>2, InteractionAssumption, FS_Subset, FS_CardinalityType
    <3>4. admissions' = Cardinality(pending') + Cardinality(orphans') + Cardinality(One')
                        + Cardinality(Two')
      BY <2>1 DEF AdmissionsInv
    <3> QED
      BY <3>3, <3>4
  <2>3. TypeOK'
    BY <1>1, <2>2, RendezvousTypeStep DEF Typed
  <2> QED
    BY <2>1, <2>3 DEF RendezvousInv
<1> QED
  BY RendezvousInit, <1>1, PTL DEF Spec

\* One end for every request, told to all who wait for it, and nothing of it
\* left in a quiescent runtime, for any number of requests and of clients
\* (settle, deliver_async, wait_result, WaiterPayload::drop).
THEOREM RendezvousIsAlwaysSound == Spec => []RendezvousIsSound
<1>1. ASSUME RendezvousInv PROVE SettlementIsOne
  <2> USE <1>1, NoneAssumption, OutcomeValues DEF RendezvousInv, TypeOK
  <2>1. ASSUME NEW i \in Interactions
        PROVE  /\ result[i] \in Outcomes => settled[i] = result[i]
               /\ (i \in requested /\ result[i] \in Failures) => i \in marked \/ lost
    BY DEF FactInv, Erred
  <2>2. ASSUME NEW c \in Clients, answer[c] # None
        PROVE  /\ answer[c].said = "accepted" =>
                     /\ settled[answer[c].of] \in {Responded(c), <<"cancelled", "user">>}
                     /\ \/ result[answer[c].of] \in {None, settled[answer[c].of]}
                        \/ answer[c].of \in marked
               /\ answer[c].said = "not_pending" => settled[answer[c].of] # Responded(c)
    <3> DEFINE i == answer[c].of
    <3>1. i \in Interactions
      BY <2>2 DEF Answers
    <3>2. answer[c].said = "accepted" => settled[i] \in {Responded(c), <<"cancelled", "user">>}
      BY <2>2 DEF AnswerInv
    <3>3. answer[c].said = "accepted" => settled[i] # None
      BY <3>2
    <3>4. result[i] \in Failures /\ settled[i] # None => i \in marked
      BY <3>1 DEF FactInv, Erred
    <3>5. result[i] \in Outcomes => settled[i] = result[i]
      BY <3>1 DEF FactInv
    <3>6. result[i] \in {None} \cup Outcomes \cup Failures
      BY <3>1
    <3>7. answer[c].said = "not_pending" => settled[i] # Responded(c)
      BY <3>1, <2>2 DEF AnswerInv
    <3> QED
      BY <3>2, <3>3, <3>4, <3>5, <3>6, <3>7
  <2> QED
    BY <2>1, <2>2 DEF SettlementIsOne
<1>2. ASSUME RendezvousInv PROVE QuiescentIsSettled
  <2> SUFFICES ASSUME lifecycle = "Quiescent", NEW i \in Interactions
               PROVE  /\ pending = {} /\ orphans = {}
                      /\ delivery[i] = None /\ payload[i] \in {"none", "told", "gone"}
    BY <1>2, QuiescentIsEmpty DEF QuiescentIsSettled
  <2>1. pending = {} /\ orphans = {} /\ One = {} /\ PlaceInv /\ TypeOK
    BY <1>2, QuiescentIsEmpty DEF RendezvousInv
  <2>2. payload[i] \in {"none", "gone"}
    BY <2>1 DEF One, TypeOK
  <2> QED
    BY <2>1, <2>2 DEF PlaceInv
<1>3. RendezvousInv => RendezvousIsSound
  BY <1>1, <1>2 DEF RendezvousIsSound, RendezvousInv
<1> QED
  BY <1>3, RendezvousInvariant, PTL

\* What is settled, returned or told stays as it is.
Stands ==
    /\ \A i \in Interactions : /\ settled[i] # None => settled'[i] = settled[i]
                               /\ result[i] # None => result'[i] = result[i]
    /\ \A c \in Clients : answer[c] # None /\ answer[c].said # "waits" => answer'[c] = answer[c]

\* Only what is undecided changes.
LEMMA StandsStep ==
    ASSUME RendezvousInv, [Next]_vars
    PROVE  Stands
<1> USE NoneAssumption, InteractionAssumption, OutcomeValues
    DEF TypeOK, PlaceInv, FactInv, Stands, owner, facts, world
<1> TypeOK /\ PlaceInv /\ FactInv /\ DeliveryInv /\ AnswerInv /\ AdmissionsInv
  BY DEF RendezvousInv
<1>1. ASSUME NEW i \in Interactions, AdmitPublication(i)
      PROVE  Stands
  BY <1>1 DEF AdmitPublication, Fails
<1>2. ASSUME NEW i \in Interactions, PublishRefused(i)
      PROVE  Stands
  BY <1>2 DEF PublishRefused, Fails
<1>3. ASSUME NEW i \in Interactions, PublishInner(i)
      PROVE  Stands
  BY <1>3 DEF PublishInner
<1>4. ASSUME NEW i \in Interactions, RouteRequested(i)
      PROVE  Stands
  BY <1>4 DEF RouteRequested
<1>5. ASSUME NEW i \in Interactions, RouteRequestedFails(i)
      PROVE  Stands
  BY <1>5 DEF RouteRequestedFails, Fails
<1>6. ASSUME NEW i \in Interactions, NoticeCancellation(i)
      PROVE  Stands
  BY <1>6 DEF NoticeCancellation
<1>7. ASSUME NEW i \in Interactions, WaiterCancels(i)
      PROVE  Stands
  <2>1. CASE BeginSettle(i, "waiter", <<"cancelled", cause[i]>>, FALSE)
    <3>1. cause[i] \in Causes /\ waiter[i] = "cancelling"
      BY <1>7 DEF WaiterCancels, PlaceInv, TypeOK
    <3>2. waiter' = [waiter EXCEPT ![i] = "delivering"] /\ UNCHANGED <<answer, drain>>
      BY <1>7, <2>1 DEF WaiterCancels, BeginSettle
    <3>3. Settles(i, "waiter", <<"cancelled", cause[i]>>, FALSE)
      BY <2>1, <3>1, SettleEffects DEF Actors
    <3> QED
      BY <3>1, <3>2, <3>3 DEF Settles
  <2>2. CASE ~BeginSettle(i, "waiter", <<"cancelled", cause[i]>>, FALSE)
    <3>1. /\ waiter[i] = "cancelling" /\ waiter' = [waiter EXCEPT ![i] = "receiving"]
          /\ UNCHANGED <<lifecycle, admissions, available, routed, lost, chan, result, pending,
                         orphans, delivery, payload, requested, settled, cause, marked, answer, drain>>
      BY <1>7, <2>2 DEF WaiterCancels
    <3> QED
      BY <3>1
  <2> QED
    BY <2>1, <2>2
<1>8. ASSUME NEW i \in Interactions, Receive(i)
      PROVE  Stands
  BY <1>8 DEF Receive
<1>9. ASSUME NEW i \in Interactions, DeliverFailure(i)
      PROVE  Stands
  <2>1. PICK why \in {"audit_failed", "control_lost"} :
            Delivered(i, IF delivery[i].won THEN "not_pending" ELSE why)
    BY <1>9 DEF DeliverFailure
  <2>2. \A c \in Clients : c = delivery[i].by => answer[c].said = "waits"
    BY <1>9, DeliveryClient DEF DeliverFailure
  <2> QED
    BY <2>1, <2>2 DEF Delivered
<1>10. ASSUME NEW i \in Interactions, DeliverOutcome(i)
      PROVE  Stands
  <2>2. \A c \in Clients : c = delivery[i].by => answer[c].said = "waits"
    BY <1>10, DeliveryClient DEF DeliverOutcome
  <2> QED
    BY <1>10, <2>2 DEF DeliverOutcome, Delivered
<1>11. ASSUME NEW i \in Interactions, DropPayload(i)
      PROVE  Stands
  BY <1>11 DEF DropPayload, Dropping
<1>12. ASSUME NEW i \in Interactions, ReleaseOrphan(i)
      PROVE  Stands
  BY <1>12 DEF ReleaseOrphan
<1>13. ASSUME NEW i \in Interactions, NEW x \in Causes, CancelExecution(i, x)
      PROVE  Stands
  BY <1>13 DEF CancelExecution
<1>14. ASSUME NEW i \in Interactions, NEW c \in Clients, Control(c, i)
      PROVE  Stands
  <2>1. /\ answer[c] = None /\ answer' = [answer EXCEPT ![c] = [of |-> i, said |-> "waits"]]
        /\ UNCHANGED <<waiter, drain>>
    BY <1>14 DEF Control
  <2>2. CASE BeginSettle(i, c, Responded(c), TRUE)
    <3>1. Settles(i, c, Responded(c), TRUE)
      BY <2>2, SettleEffects DEF Actors
    <3> QED
      BY <2>1, <3>1 DEF Settles
  <2>3. CASE BeginSettle(i, c, <<"cancelled", "user">>, FALSE)
    <3>1. Settles(i, c, <<"cancelled", "user">>, FALSE)
      BY <2>3, SettleEffects DEF Actors
    <3> QED
      BY <2>1, <3>1 DEF Settles
  <2> QED
    BY <1>14, <2>2, <2>3 DEF Control
<1>15. ASSUME NEW i \in Interactions, NEW c \in Clients, ControlStale(c, i)
      PROVE  Stands
  BY <1>15 DEF ControlStale
<1>16. ASSUME NEW i \in Interactions, DrainCancels(i)
      PROVE  Stands
  <2>1. drain' = [drain EXCEPT !.todo = @ \ {i}] /\ UNCHANGED <<waiter, answer>>
    BY <1>16 DEF DrainCancels
  <2>2. CASE BeginSettle(i, "drain", <<"cancelled", "shutdown">>, FALSE)
    <3>1. Settles(i, "drain", <<"cancelled", "shutdown">>, FALSE)
      BY <2>2, SettleEffects DEF Actors
    <3> QED
      BY <2>1, <3>1 DEF Settles
  <2>3. CASE ~BeginSettle(i, "drain", <<"cancelled", "shutdown">>, FALSE)
    <3>1. UNCHANGED <<lifecycle, admissions, available, routed, lost, chan, result, pending, orphans,
                      delivery, payload, requested, settled, cause, marked>>
      BY <1>16, <2>3 DEF DrainCancels
    <3> QED
      BY <2>1, <3>1
  <2> QED
    BY <2>2, <2>3
<1>17. CASE SetProviderAvailable
  BY <1>17 DEF SetProviderAvailable
<1>18. CASE ParentLost
  BY <1>18 DEF ParentLost
<1>19. CASE BeginDrain
  BY <1>19 DEF BeginDrain
<1>20. CASE DrainSnapshot
  BY <1>20 DEF DrainSnapshot
<1>21. CASE DrainDone
  BY <1>21 DEF DrainDone
<1>22. CASE MarkQuiescent
  BY <1>22 DEF MarkQuiescent
<1>23. CASE UNCHANGED vars
  BY <1>23 DEF vars
<1> QED
  BY <1>1, <1>2, <1>3, <1>4, <1>5, <1>6, <1>7, <1>8, <1>9, <1>10, <1>11, <1>12,
     <1>13, <1>14, <1>15, <1>16, <1>17, <1>18, <1>19, <1>20, <1>21, <1>22, <1>23
     DEF Next, Owner, Deliver, Supervise

\* A request is decided once: no step changes a settled fact or a result that
\* an owner has, and a client that was answered is not answered again
\* (settle_locked removes the entry together with the commit of the fact).
FirstAnswerStands == [][Stands]_vars

THEOREM FirstAnswerAlwaysStands == Spec => FirstAnswerStands
<1>1. RendezvousInv /\ [Next]_vars => [Stands]_vars
  BY StandsStep
<1> QED
  BY <1>1, RendezvousInvariant, PTL DEF Spec, FirstAnswerStands
=============================================================================
