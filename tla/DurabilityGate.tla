--------------------------- MODULE DurabilityGate ---------------------------
(***************************************************************************)
(* The durability-failure frontier of one conversation runtime             *)
(* (DurabilityGate, src/src/runtime/types.rs 776-1100).                    *)
(*                                                                         *)
(* One absorbing failure is ordered against the durable writers: at most   *)
(* one ownership writer and at most one coordinator mutation, which may    *)
(* overlap.  A failure reported while either is active is only requested;  *)
(* it closes admission at once and becomes the committed fact when the     *)
(* last of them drops its guard.  Decisions are taken under a short mutex; *)
(* notification and publication follow after it is released, as steps of   *)
(* their own.                                                              *)
(***************************************************************************)
EXTENDS Naturals, Sequences

CONSTANTS
    Owners,      \* tasks that ask for the ownership-commit permission
    Reporters,   \* callers of commit_failure; each reports a failure of its own
    NoFailure    \* Option::None

Coordinator == "coordinator"
Writers == Owners \cup {Coordinator}
Actors == Writers \cup Reporters

ASSUME GateAssumption == /\ Coordinator \notin Owners \cup Reporters
                         /\ Owners \cap Reporters = {}
                         /\ NoFailure \notin Reporters

VARIABLES
    failure,             \* DurabilityGateState.failure
    requested,           \* DurabilityGateState.requested_failure
    ownershipActive,     \* DurabilityGateState.ownership_active
    coordinatorActive,   \* DurabilityGateState.coordinator_active
    step,                \* where each actor is
    outbox,              \* the failure an actor took and has still to publish
    ownerNotified,       \* an owner's registered Notified has fired
    published            \* what the installed publisher received, in order

gateVars == <<failure, requested, ownershipActive, coordinatorActive, step, outbox,
              ownerNotified, published>>

WriterSteps == {"idle", "check", "await", "writing", "announce", "publish", "refused"}
ReporterSteps == {"idle", "announce", "publish", "done"}

GateTypeOK ==
    /\ failure \in Reporters \cup {NoFailure}
    /\ requested \in Reporters \cup {NoFailure}
    /\ ownershipActive \in BOOLEAN
    /\ coordinatorActive \in BOOLEAN
    /\ step \in [Actors -> WriterSteps \cup ReporterSteps]
    /\ outbox \in [Actors -> Reporters \cup {NoFailure}]
    /\ ownerNotified \in [Owners -> BOOLEAN]
    /\ published \in Seq(Reporters)

GateInitial ==
    /\ failure = NoFailure
    /\ requested = NoFailure
    /\ ownershipActive = FALSE
    /\ coordinatorActive = FALSE
    /\ step = [a \in Actors |-> "idle"]
    /\ outbox = [a \in Actors |-> NoFailure]
    /\ ownerNotified = [o \in Owners |-> FALSE]
    /\ published = <<>>

\* is_failed, admission_failure: a committed or a requested failure closes entry
IsFailed == failure # NoFailure \/ requested # NoFailure

\* changed.notify_waiters
NotifyWaiters == ownerNotified' = [o \in Owners |-> TRUE]

-----------------------------------------------------------------------------
(* commit_failure.                                                         *)

\* The decision under the mutex: an earlier winner is kept, an active writer
\* defers the fact, and otherwise this call installs it.
CommitFailure(r) ==
    /\ step[r] = "idle"
    /\ IF IsFailed
         THEN /\ step' = [step EXCEPT ![r] = "done"]
              /\ UNCHANGED <<failure, requested, outbox>>
       ELSE IF ownershipActive \/ coordinatorActive
         THEN /\ requested' = r
              /\ step' = [step EXCEPT ![r] = "announce"]
              /\ UNCHANGED <<failure, outbox>>
       ELSE /\ failure' = r
            /\ outbox' = [outbox EXCEPT ![r] = r]
            /\ step' = [step EXCEPT ![r] = "publish"]
            /\ UNCHANGED requested
    /\ UNCHANGED <<ownershipActive, coordinatorActive, ownerNotified, published>>

\* after the unlock of a deferred failure
AnnounceRequest(r) ==
    /\ step[r] = "announce"
    /\ step' = [step EXCEPT ![r] = "done"]
    /\ NotifyWaiters
    /\ UNCHANGED <<failure, requested, ownershipActive, coordinatorActive, outbox, published>>

-----------------------------------------------------------------------------
(* Entry.  enter_ownership_commit_async registers for the next change      *)
(* before it looks at the state, so a release in between is not missed.    *)

Register(o) ==
    /\ step[o] = "idle"
    /\ step' = [step EXCEPT ![o] = "check"]
    /\ ownerNotified' = [ownerNotified EXCEPT ![o] = FALSE]
    /\ UNCHANGED <<failure, requested, ownershipActive, coordinatorActive, outbox, published>>

EnterOwnershipCommit(o) ==
    /\ step[o] = "check"
    /\ IF IsFailed
         THEN step' = [step EXCEPT ![o] = "refused"] /\ UNCHANGED ownershipActive
       ELSE IF ~ownershipActive
         THEN step' = [step EXCEPT ![o] = "writing"] /\ ownershipActive' = TRUE
       ELSE step' = [step EXCEPT ![o] = "await"] /\ UNCHANGED ownershipActive
    /\ UNCHANGED <<failure, requested, coordinatorActive, outbox, ownerNotified, published>>

Wake(o) ==
    /\ step[o] = "await"
    /\ ownerNotified[o]
    /\ step' = [step EXCEPT ![o] = "idle"]
    /\ UNCHANGED <<failure, requested, ownershipActive, coordinatorActive, outbox,
                   ownerNotified, published>>

\* The coordinator never waits behind an ownership writer.  Its own mutex
\* keeps it from asking twice, so it is one actor here.
EnterCoordinatorCommit ==
    /\ step[Coordinator] = "idle"
    /\ IF IsFailed
         THEN /\ step' = [step EXCEPT ![Coordinator] = "refused"]
              /\ UNCHANGED coordinatorActive
         ELSE /\ step' = [step EXCEPT ![Coordinator] = "writing"]
              /\ coordinatorActive' = TRUE
    /\ UNCHANGED <<failure, requested, ownershipActive, outbox, ownerNotified, published>>

\* a refused caller reports the refusal to its own caller, and may ask again
Return(w) ==
    /\ step[w] = "refused"
    /\ step' = [step EXCEPT ![w] = "idle"]
    /\ UNCHANGED <<failure, requested, ownershipActive, coordinatorActive, outbox,
                   ownerNotified, published>>

-----------------------------------------------------------------------------
(* Exit: DurabilityCommitGuard::drop.                                      *)

\* The requested failure is committed by the first guard that drops.
Mut_FirstExitCommits(w) ==
    /\ step[w] = "writing"
    /\ step' = [step EXCEPT ![w] = "announce"]
    /\ ownershipActive' = (ownershipActive /\ w = Coordinator)
    /\ coordinatorActive' = (coordinatorActive /\ w # Coordinator)
    /\ IF requested = NoFailure
         THEN UNCHANGED <<failure, requested, outbox>>
         ELSE /\ failure' = requested
              /\ requested' = NoFailure
              /\ outbox' = [outbox EXCEPT ![w] = requested]
    /\ UNCHANGED <<ownerNotified, published>>

DropGuard(w) ==
    /\ step[w] = "writing"
    /\ step' = [step EXCEPT ![w] = "announce"]
    /\ ownershipActive' = (ownershipActive /\ w = Coordinator)
    /\ coordinatorActive' = (coordinatorActive /\ w # Coordinator)
    /\ IF ownershipActive' \/ coordinatorActive' \/ requested = NoFailure
         THEN UNCHANGED <<failure, requested, outbox>>
         ELSE /\ failure' = requested
              /\ requested' = NoFailure
              /\ outbox' = [outbox EXCEPT ![w] = requested]
    /\ UNCHANGED <<ownerNotified, published>>

\* The drop unlocks and publishes without the notification of a plain exit.
Mut_ExitDoesNotNotify(w) ==
    /\ step[w] = "announce"
    /\ step' = [step EXCEPT ![w] = IF outbox[w] = NoFailure THEN "idle" ELSE "publish"]
    /\ UNCHANGED <<failure, requested, ownershipActive, coordinatorActive, outbox,
                   ownerNotified, published>>

AnnounceExit(w) ==
    /\ step[w] = "announce"
    /\ step' = [step EXCEPT ![w] = IF outbox[w] = NoFailure THEN "idle" ELSE "publish"]
    /\ NotifyWaiters
    /\ UNCHANGED <<failure, requested, ownershipActive, coordinatorActive, outbox, published>>

\* publish: notifies again and hands the taken failure to the publisher
Publish(a) ==
    /\ step[a] = "publish"
    /\ step' = [step EXCEPT ![a] = IF a \in Writers THEN "idle" ELSE "done"]
    /\ published' = Append(published, outbox[a])
    /\ outbox' = [outbox EXCEPT ![a] = NoFailure]
    /\ NotifyWaiters
    /\ UNCHANGED <<failure, requested, ownershipActive, coordinatorActive>>

-----------------------------------------------------------------------------
GateNext ==
    \/ \E r \in Reporters : CommitFailure(r) \/ AnnounceRequest(r)
    \/ \E o \in Owners : Register(o) \/ EnterOwnershipCommit(o) \/ Wake(o)
    \/ EnterCoordinatorCommit
    \/ \E w \in Writers : Return(w) \/ DropGuard(w) \/ AnnounceExit(w)
    \/ \E a \in Actors : Publish(a)

GateSpec == GateInitial /\ [][GateNext]_gateVars

(***************************************************************************)
(* Fairness: an authorised write returns and its guard is dropped, what    *)
(* follows an unlock is carried out, and a woken task runs.  Nothing       *)
(* obliges anyone to ask for a permission or to report a failure.          *)
(***************************************************************************)
GateFairness ==
    /\ \A w \in Writers : WF_gateVars(DropGuard(w)) /\ WF_gateVars(AnnounceExit(w))
    /\ \A a \in Actors : WF_gateVars(Publish(a))
    /\ \A r \in Reporters : WF_gateVars(AnnounceRequest(r))
    /\ \A o \in Owners : WF_gateVars(EnterOwnershipCommit(o)) /\ WF_gateVars(Wake(o))

GateFairSpec == GateSpec /\ GateFairness

-----------------------------------------------------------------------------
Winner == IF failure # NoFailure THEN failure ELSE requested

Writing == {w \in Writers : step[w] = "writing"}

\* The committed fact excludes every writer: it is installed only after both
\* the ownership writer and the coordinator mutation that preceded it have
\* exited, and no writer is authorised afterwards (types.rs 885-893, 1062-1087).
FailureFollowsWriters == failure # NoFailure => Writing = {}

\* At most one ownership writer holds the permission, also when several tasks
\* wake on the same release (types.rs 1003-1032).
OneOwnershipWriter == \A o, p \in Owners \cap Writing : o = p

\* The first failure that closed admission is the one that is ever stored:
\* neither a later report nor a guard's exit rewrites it (types.rs 857-897).
WinnerIsAbsorbing == [][Winner # NoFailure => Winner' = Winner]_gateVars

\* A requested failure closes entry at once, before it is committed: from then
\* on no writer becomes authorised (types.rs 815-817, 952-964, 1003-1032).
RequestClosesEntry == [][IsFailed => (Writing' \subseteq Writing)]_gateVars

\* The publisher is called at most once, with the winner, and never while the
\* fact is only requested (types.rs 848-854, 1080-1087).
PublishedOnce == published # <<>> => published = <<failure>> /\ failure # NoFailure

\* A reported failure reaches the publisher (types.rs 866-897, 1062-1087).
FailureIsPublished == (Winner # NoFailure) ~> (published # <<>>)

\* A task parked for the permission never sleeps through the release or the
\* failure that it waits for (types.rs 1003-1032).
NoLostWakeup == \A o \in Owners : step[o] = "await" ~> step[o] # "await"

\* The order of the gate, together: one writer, the failure after the writers,
\* and its publication once and after both (types.rs 848-897, 1003-1087).
FailureIsOrdered == FailureFollowsWriters /\ OneOwnershipWriter /\ PublishedOnce

\* Nobody waits at the gate for ever: the failure is published, the parked task
\* is woken (types.rs 866-897, 1003-1087).
GateWakes == FailureIsPublished /\ NoLostWakeup
=============================================================================
