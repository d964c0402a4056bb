-------------------------- MODULE AttemptAdmission --------------------------
(***************************************************************************)
(* The coordinator of one conversation runtime                             *)
(* (src/src/runtime/conversation_runtime/): which thread turns waiting     *)
(* work into the next attempt, who is woken to do so, what happens when    *)
(* the store refuses, when the session reaper evicts an idle runtime, and  *)
(* how a drain collects everything before it declares the runtime quiet.   *)
(*                                                                         *)
(* Four kinds of thread run the admission pass (admit_next_attempt): the   *)
(* worker when it is woken, activation once, and the tasks of an attempt   *)
(* and of a manual compaction when they hand the conversation back.  A     *)
(* pass holds the coordinator lock from its first check to its last        *)
(* effect; the inbox it reads in one transaction and adopts in another is  *)
(* not protected by that lock, so senders, background jobs and clients     *)
(* that take a message back act in between.                                *)
(*                                                                         *)
(* The inbox is what InboundDelivery promises of it.  Waking a parked      *)
(* worker leaves one permit (tokio's Notify), however often it is done.    *)
(***************************************************************************)
EXTENDS Integers, FiniteSets, FiniteSetsExt

CONSTANTS
    Jobs,        \* background executions an attempt may start
    MaxInbound,  \* bound on accepted messages
    MaxFaults,   \* bound on storage errors of one behaviour
    MaxRounds,   \* bound on the rounds a Goal may be granted at a time
    Clients      \* who uses the runtime besides its senders

ASSUME AdmissionAssumption == /\ IsFiniteSet(Jobs)
                              /\ MaxInbound \in Nat
                              /\ Cardinality(Jobs) < MaxInbound
                              /\ MaxFaults \in Nat
                              /\ MaxRounds \in Nat
                              /\ Clients \subseteq {"catalog", "compaction", "schedule", "sender"}

Worker == 0
Activator == -1
Compactor == -2
Scheduler == -3
Attempts == 1 .. (MaxInbound + 1)   \* each adopts a message, one may continue
Threads == (-3 .. 0) \cup Attempts

VARIABLES
    lifecycle,     \* Running, Draining or Quiescent
    pc,            \* where each thread is
    slot,          \* the foreground owner: current_attempt, manual_compaction, scheduled
    admitted,      \* admitted_attempts, and the identity of the last attempt
    cancelled,     \* cancellation was requested of the current attempt
    last, waiting, \* the inbox: the last number, the numbers that wait
    fixed,         \* those that are correlated, which no client can take back
    cut,           \* the watermark of the batch that is selected
    permits,       \* wake permits: "runtime" (WakeGate) and "mailbox"
    closed,        \* WakeGate.closed
    continuation,  \* recovered_continuation: an adopted turn that was never answered
    rounds,        \* rounds the Goal may still start by itself
    available,     \* the catalog admits the selected model
    failed,        \* the durability gate holds a failure
    cycle,         \* AdmissionDurabilityCycle: stages that used their retry, the retry armed
    faults,        \* storage errors so far, and those since the cycle began
    sender,        \* a producer outside the coordinator, between commit and wake
    control,       \* a Goal control, between its commit and its wake
    job,           \* the background executions
    start,         \* the scheduled workflow start that waits, if any
    probe,         \* the reaper holds an idle epoch that is still current
    drain          \* the drain supervisor: its step

wakeVars == <<permits, closed>>
inboxVars == <<last, waiting, fixed>>
owedVars == <<continuation, rounds>>
healthVars == <<failed, cycle, faults>>
sideVars == <<sender, control, start>>
vars == <<lifecycle, pc, slot, admitted, cancelled, inboxVars, cut, wakeVars,
          owedVars, available, healthVars, sideVars, job, probe, drain>>

\* parked: waits (or does not exist yet); schedule: will call admit_next_scheduled;
\* handoff: will call admit_next_attempt; admitting: holds the coordinator lock
\* between selection and adoption; selected: an attempt between the two; broken:
\* an attempt that met a storage error; exit: has only its admission left to
\* drop; dropped: has dropped it and is still to wake the worker; joinable: the
\* compaction task returned and is to be joined.
Steps == {"parked", "schedule", "handoff", "admitting", "run", "selected",
          "broken", "exit", "dropped", "joinable", "gone"}
JobSteps == {"none", "running", "retrying", "committed", "notified", "settled",
             "abandoned"}
DrainSteps == {"off", "tail", "foreground", "background", "admissions", "recheck",
               "worker", "last", "decide", "ok", "failed"}
Stages == {"select", "adopt"}

InboxTypeOK ==
    /\ last \in 0..MaxInbound
    /\ waiting \subseteq 1..last
    /\ fixed \subseteq waiting
    /\ cut \in 0..last

FlagTypeOK ==
    /\ cancelled \in BOOLEAN
    /\ closed \in BOOLEAN
    /\ continuation \in BOOLEAN
    /\ available \in BOOLEAN
    /\ failed \in BOOLEAN
    /\ probe \in BOOLEAN

HealthTypeOK ==
    /\ cycle \in [used : SUBSET Stages, retry : Stages \cup {"none"}]
    /\ faults \in [total : 0..MaxFaults, cycle : 0..MaxFaults]

TypeOK ==
    /\ InboxTypeOK
    /\ FlagTypeOK
    /\ HealthTypeOK
    /\ lifecycle \in {"Running", "Draining", "Quiescent"}
    /\ pc \in [Threads -> Steps]
    /\ slot \in {"none", "attempt", "compaction", "scheduled"}
    /\ admitted \in 0..(MaxInbound + 1)
    /\ permits \subseteq {"runtime", "mailbox"}
    /\ rounds \in 0..MaxRounds
    /\ sender \in {"idle", "committed"}
    /\ control \in {"idle", "committed"}
    /\ job \in [Jobs -> JobSteps]
    /\ start \in {"none", "accepted", "delayed", "claimed"}
    /\ drain \in DrainSteps

\* Activation has just moved the lifecycle to Running and spawned the worker.
\* Recovery may have left messages, an unanswered turn and a claimed start, and
\* the catalog may no longer know the model.
Init ==
    /\ lifecycle = "Running"
    /\ pc = [t \in Threads |-> IF t = Activator THEN "schedule" ELSE "parked"]
    /\ slot = "none"
    /\ admitted = 0
    /\ cancelled = FALSE
    /\ last \in 0..1
    /\ waiting = 1..last
    /\ fixed = {}
    /\ cut = 0
    /\ permits = {}
    /\ closed = FALSE
    /\ continuation \in BOOLEAN
    /\ rounds \in 0..MaxRounds
    /\ available \in {TRUE, "catalog" \notin Clients}
    /\ failed = FALSE
    /\ cycle = [used |-> {}, retry |-> "none"]
    /\ faults = [total |-> 0, cycle |-> 0]
    /\ sender = "idle"
    /\ control = "idle"
    /\ job = [j \in Jobs |-> "none"]
    /\ start \in {"none"} \cup (IF "schedule" \in Clients THEN {"claimed"} ELSE {})
    /\ probe = FALSE
    /\ drain = "off"

-----------------------------------------------------------------------------
(* Locks and counted admissions.                                           *)

\* The coordinator lock is held across states only by a pass that has selected.
LockFree == \A t \in Threads : pc[t] # "admitting"

\* The commit boundary, held from the commit of an outside producer to its wake.
BoundaryFree == sender = "idle"

\* The background registry lock, held from a terminal's commit to the record's
\* settlement.
RegistryFree == \A j \in Jobs : job[j] \notin {"committed", "notified"}

BackgroundIdle == \A j \in Jobs : job[j] \in {"none", "settled"}

\* A task keeps its admission until its last callback has returned.
HoldsAdmission(t) ==
    /\ t \notin {Worker, Activator}
    /\ pc[t] \notin {"parked", "dropped", "joinable", "gone"}

NoAdmissions ==
    /\ \A t \in Threads : ~HoldsAdmission(t)
    /\ BoundaryFree
    /\ \A j \in Jobs : job[j] # "committed"

\* Room for one more message, with what the jobs still have to say set aside.
Room == last + Cardinality({j \in Jobs : job[j] \in {"none", "running", "retrying"}})
            < MaxInbound

Wake(w) == permits' = permits \cup {w}

\* What a thread does once its pass has returned.
After(t) ==
    CASE t = Worker -> "parked"
      [] t = Activator -> "gone"
      [] OTHER -> "exit"

Return(t) == pc' = [pc EXCEPT ![t] = After(t)]

-----------------------------------------------------------------------------
(* The store: what InboundDelivery promises.                               *)

Accept == /\ last' = last + 1
          /\ waiting' = waiting \cup {last + 1}

Adoptable == {s \in waiting : s <= cut}

-----------------------------------------------------------------------------
(* Storage errors (durability.rs).                                         *)

Fault == /\ faults.total < MaxFaults
         /\ faults' = [faults EXCEPT !.total = @ + 1]

\* record_durability_failure of an error that earns no retry
Persistent ==
    /\ Fault
    /\ failed' = TRUE
    /\ UNCHANGED <<cycle, permits>>

\* record_durability_failure of a stage: the first error of the stage in this
\* cycle arms one retry, the second is final
Transient(stage) ==
    /\ faults.total < MaxFaults
    /\ faults' = [total |-> faults.total + 1, cycle |-> faults.cycle + 1]
    /\ \/ /\ stage \notin cycle.used
          /\ cycle' = [used |-> cycle.used \cup {stage}, retry |-> stage]
          /\ Wake("runtime")
          /\ UNCHANGED failed
       \/ /\ stage \in cycle.used
          /\ failed' = TRUE
          /\ UNCHANGED <<cycle, permits>>

\* A stage that succeeds has its retry back.
Mut_BudgetPerStage(stage) ==
    [used |-> cycle.used \ {stage},
     retry |-> IF cycle.retry = stage THEN "none" ELSE cycle.retry]

\* record_durability_success: the retry that was armed for this stage is done
Succeeded(stage) ==
    [cycle EXCEPT !.retry = IF @ = stage THEN "none" ELSE @]

\* complete_admission_cycle
CompleteCycle ==
    /\ cycle' = [used |-> {}, retry |-> "none"]
    /\ faults' = [faults EXCEPT !.cycle = 0]

-----------------------------------------------------------------------------
(* The admission pass (admission.rs, admit_next_attempt).                  *)

\* publish_attempt: the conversation goes to a new task, in the slot
Publish(t) ==
    /\ admitted' = admitted + 1
    /\ slot' = "attempt"
    /\ cancelled' = FALSE
    /\ pc' = [pc EXCEPT ![t] = After(t), ![admitted + 1] = "run"]
    /\ probe' = FALSE

\* The early returns of admit_next_attempt.
MayAdmit == /\ lifecycle = "Running"
            /\ slot = "none"
            /\ ~failed
            /\ available

PassRefused(t) ==
    /\ ~MayAdmit
    /\ Return(t)
    /\ UNCHANGED <<slot, admitted, cancelled, inboxVars, cut, permits, owedVars,
                   healthVars, probe>>

\* The selection fails, or the guard finds a torn tool turn and fails for good.
PassFails(t) ==
    /\ MayAdmit
    /\ Transient("select") \/ Persistent
    /\ Return(t)
    /\ UNCHANGED <<slot, admitted, cancelled, inboxVars, cut, owedVars, probe>>

\* The recovered turn is struck off as soon as a batch is selected.
Mut_SelectConsumes(t) ==
    /\ MayAdmit
    /\ waiting # {}
    /\ cut' = Max(waiting)
    /\ cycle' = Succeeded("select")
    /\ pc' = [pc EXCEPT ![t] = "admitting"]
    /\ continuation' = FALSE
    /\ UNCHANGED <<slot, admitted, cancelled, inboxVars, permits, rounds, failed,
                   faults, probe>>

PassSelects(t) ==
    /\ MayAdmit
    /\ waiting # {}
    /\ cut' = Max(waiting)
    /\ cycle' = Succeeded("select")
    /\ pc' = [pc EXCEPT ![t] = "admitting"]
    /\ UNCHANGED <<slot, admitted, cancelled, inboxVars, permits, owedVars, failed,
                   faults, probe>>

\* Nothing waits: the turn that recovery found unanswered continues.
PassContinues(t) ==
    /\ MayAdmit
    /\ waiting = {}
    /\ continuation
    /\ continuation' = FALSE
    /\ CompleteCycle
    /\ Publish(t)
    /\ UNCHANGED <<inboxVars, cut, permits, rounds, failed>>

\* The Goal may start a round: with_goal_idle takes the registry lock.
GoalIdle == RegistryFree /\ BackgroundIdle

\* A claim that does not wait for the registry lock sees a record that is about
\* to settle as active.
Mut_GoalIdleTryLock(t) ==
    /\ MayAdmit
    /\ waiting = {}
    /\ ~continuation
    /\ CompleteCycle
    /\ Return(t)
    /\ \/ /\ GoalIdle /\ rounds > 0 /\ Room
          /\ rounds' = rounds - 1
          /\ Accept
          /\ Wake("mailbox")
          /\ probe' = FALSE
       \/ /\ ~(GoalIdle /\ rounds > 0 /\ Room)
          /\ UNCHANGED <<rounds, last, waiting, permits, probe>>
    /\ UNCHANGED <<slot, admitted, cancelled, fixed, cut, continuation, failed>>

\* Nothing waits and no turn is owed: the Goal starts a round if it may, and the
\* round is a message like any other.
PassIdle(t) ==
    /\ MayAdmit
    /\ waiting = {}
    /\ ~continuation
    /\ RegistryFree
    /\ CompleteCycle
    /\ Return(t)
    /\ \/ /\ GoalIdle /\ rounds > 0 /\ Room
          /\ rounds' = rounds - 1
          /\ Accept
          /\ Wake("mailbox")
          /\ probe' = FALSE
       \/ /\ ~(GoalIdle /\ rounds > 0 /\ Room)
          /\ UNCHANGED <<rounds, last, waiting, permits, probe>>
    /\ UNCHANGED <<slot, admitted, cancelled, fixed, cut, continuation, failed>>

\* The durable acceptance of a round fails.
PassGoalFails(t) ==
    /\ MayAdmit
    /\ waiting = {}
    /\ ~continuation
    /\ GoalIdle
    /\ rounds > 0
    /\ faults.total < MaxFaults
    /\ faults' = [total |-> faults.total + 1, cycle |-> 0]
    /\ cycle' = [used |-> {}, retry |-> "none"]
    /\ failed' = TRUE
    /\ Return(t)
    /\ UNCHANGED <<slot, admitted, cancelled, inboxVars, cut, permits, owedVars, probe>>

AdmitNextAttempt(t) ==
    /\ pc[t] = "handoff"
    /\ LockFree
    /\ \/ PassRefused(t)
       \/ PassFails(t)
       \/ PassSelects(t)
       \/ PassContinues(t)
       \/ PassIdle(t)
       \/ PassGoalFails(t)
    /\ UNCHANGED <<lifecycle, closed, available, sideVars, job, drain>>

\* The second transaction of the pass.  An identity that cannot be prepared and
\* an adoption that fails end it; a batch that was taken back meanwhile restarts
\* it; anything else becomes an attempt.
AdoptionFails(t) ==
    /\ Transient("adopt") \/ Persistent
    /\ Return(t)
    /\ UNCHANGED <<slot, admitted, cancelled, inboxVars, continuation, probe>>

AdoptsNothing(t) ==
    /\ Adoptable = {}
    /\ CompleteCycle
    /\ Wake("mailbox")
    /\ Return(t)
    /\ UNCHANGED <<slot, admitted, cancelled, inboxVars, continuation, failed, probe>>

AdoptsBatch(t) ==
    /\ Adoptable # {}
    /\ waiting' = waiting \ Adoptable
    /\ fixed' = fixed \ Adoptable
    /\ continuation' = FALSE
    /\ CompleteCycle
    /\ Publish(t)
    /\ UNCHANGED <<last, permits, failed>>

Adopt(t) ==
    /\ pc[t] = "admitting"
    /\ AdoptionFails(t) \/ AdoptsNothing(t) \/ AdoptsBatch(t)
    /\ cut' = 0
    /\ UNCHANGED <<lifecycle, closed, rounds, available, sideVars, job, drain>>

-----------------------------------------------------------------------------
(* The attempt task (attempt.rs, agent/execution/step.rs).                 *)

\* Safe boundary: unless it is cancelled, the attempt takes what waits, in the
\* same two transactions and without the coordinator lock.
BoundarySelect(n) ==
    /\ pc[n] = "run"
    /\ ~cancelled
    /\ waiting # {}
    /\ cut' = Max(waiting)
    /\ pc' = [pc EXCEPT ![n] = "selected"]
    /\ UNCHANGED <<lifecycle, slot, admitted, cancelled, inboxVars, wakeVars, owedVars,
                   available, healthVars, sideVars, job, probe, drain>>

BoundaryAdopt(n) ==
    /\ pc[n] = "selected"
    /\ waiting' = waiting \ Adoptable
    /\ fixed' = fixed \ Adoptable
    /\ cut' = 0
    /\ pc' = [pc EXCEPT ![n] = "run"]
    /\ UNCHANGED <<lifecycle, slot, admitted, cancelled, last, wakeVars,
                   owedVars, available, healthVars, sideVars, job, probe, drain>>

\* A canonical write of the attempt, or one of the two above, fails.
AttemptBreaks(n) ==
    /\ pc[n] \in {"run", "selected"}
    /\ Fault
    /\ cut' = 0
    /\ pc' = [pc EXCEPT ![n] = "broken"]
    /\ UNCHANGED <<lifecycle, slot, admitted, cancelled, inboxVars, wakeVars, owedVars,
                   available, failed, cycle, sideVars, job, probe, drain>>

\* The model of the attempt writes the Goal (write_from_tool).
AttemptGrants(n) ==
    /\ pc[n] = "run"
    /\ ~cancelled
    /\ lifecycle = "Running"
    /\ BoundaryFree
    /\ rounds' \in 0..MaxRounds
    /\ UNCHANGED <<lifecycle, pc, slot, admitted, cancelled, inboxVars, cut, wakeVars,
                   continuation, available, healthVars, sideVars, job, probe, drain>>

\* A tool call is detached: its ownership is committed while the runtime runs.
AttemptDetaches(n, j) ==
    /\ pc[n] = "run"
    /\ ~cancelled
    /\ lifecycle = "Running"
    /\ BoundaryFree
    /\ RegistryFree
    /\ ~failed
    /\ job[j] = "none"
    /\ job' = [job EXCEPT ![j] = "running"]
    /\ UNCHANGED <<lifecycle, pc, slot, admitted, cancelled, inboxVars, cut, wakeVars,
                   owedVars, available, healthVars, sideVars, probe, drain>>

\* The attempt settles and looks for no successor.
Mut_FinishWithoutHandoff(n) ==
    /\ pc[n] \in {"run", "selected", "broken"}
    /\ LockFree
    /\ slot' = "none"
    /\ cancelled' = FALSE
    /\ cut' = 0
    /\ failed' = (failed \/ pc[n] = "broken")
    /\ pc' = [pc EXCEPT ![n] = "exit"]
    /\ UNCHANGED <<lifecycle, admitted, inboxVars, wakeVars, owedVars,
                   available, cycle, faults, sideVars, job, probe, drain>>

\* finish_attempt up to its handoff
FinishAttempt(n) ==
    /\ pc[n] \in {"run", "selected", "broken"}
    /\ LockFree
    /\ slot' = "none"
    /\ cancelled' = FALSE
    /\ cut' = 0
    /\ failed' = (failed \/ pc[n] = "broken")
    /\ pc' = [pc EXCEPT ![n] = "handoff"]
    /\ UNCHANGED <<lifecycle, admitted, inboxVars, wakeVars, owedVars,
                   available, cycle, faults, sideVars, job, probe, drain>>

TaskExits(n) ==
    /\ pc[n] = "exit"
    /\ pc' = [pc EXCEPT ![n] = "gone"]
    /\ UNCHANGED <<lifecycle, slot, admitted, cancelled, inboxVars, cut, wakeVars, owedVars,
                   available, healthVars, sideVars, job, probe, drain>>

\* cancel_attempt_locked: an attempt that answers a Goal round pauses the Goal, if
\* the runtime still commits; it is cancelled whether or not the pause commits.
CancelAttempt ==
    /\ LockFree
    /\ slot = "attempt"
    /\ cancelled' = TRUE
    /\ \/ UNCHANGED <<rounds, healthVars, permits>>
       \/ /\ lifecycle = "Running"
          /\ BoundaryFree
          /\ \/ rounds' = 0 /\ UNCHANGED <<healthVars, permits>>
             \/ Persistent /\ UNCHANGED rounds
    /\ UNCHANGED <<lifecycle, pc, slot, admitted, inboxVars, cut, closed, continuation,
                   available, sideVars, job, probe, drain>>

-----------------------------------------------------------------------------
(* Manual compaction (compaction.rs).                                      *)

\* admit_compaction; the start event may fail to persist
AdmitCompaction ==
    /\ LockFree
    /\ MayAdmit
    /\ pc[Compactor] = "parked"
    /\ \/ /\ slot' = "compaction"
          /\ pc' = [pc EXCEPT ![Compactor] = "run"]
          /\ probe' = FALSE
          /\ UNCHANGED <<healthVars, permits>>
       \/ /\ Persistent
          /\ UNCHANGED <<slot, pc, probe>>
    /\ UNCHANGED <<lifecycle, admitted, cancelled, inboxVars, cut, closed, owedVars,
                   available, sideVars, job, drain>>

\* finish_manual_compaction up to its handoff
FinishCompaction ==
    /\ pc[Compactor] = "run"
    /\ LockFree
    /\ slot' = "none"
    /\ pc' = [pc EXCEPT ![Compactor] = "handoff"]
    /\ Persistent \/ UNCHANGED <<healthVars, permits>>
    /\ UNCHANGED <<lifecycle, admitted, cancelled, inboxVars, cut, closed, owedVars,
                   available, sideVars, job, probe, drain>>

\* ManualTailExit: the worker may join the task now
CompactionExits ==
    /\ pc[Compactor] = "exit"
    /\ pc' = [pc EXCEPT ![Compactor] = "joinable"]
    /\ Wake("runtime")
    /\ UNCHANGED <<lifecycle, slot, admitted, cancelled, inboxVars, cut, closed, owedVars,
                   available, healthVars, sideVars, job, probe, drain>>

-----------------------------------------------------------------------------
(* Scheduled workflow starts (scheduled.rs).                               *)

\* A claimed start is resumed whoever owns the conversation.
Mut_ClaimedStartsFirst ==
    /\ lifecycle = "Running"
    /\ ~failed
    /\ \/ start = "claimed"
       \/ start = "accepted" /\ waiting = {} /\ slot = "none"

MayStart == /\ lifecycle = "Running"
            /\ slot = "none"
            /\ ~failed
            /\ start = "claimed" \/ (start = "accepted" /\ waiting = {})

\* admit_next_scheduled, which the worker and activation try first.  (A bound: a
\* start waits until the task of the one before it has gone.)
AdmitNextScheduled(t) ==
    /\ pc[t] = "schedule"
    /\ LockFree
    /\ \/ /\ MayStart
          /\ pc[Scheduler] = "parked"
          /\ slot' = "scheduled"
          /\ pc' = [pc EXCEPT ![t] = After(t), ![Scheduler] = "run"]
          /\ probe' = FALSE
       \/ /\ ~MayStart
          /\ pc' = [pc EXCEPT ![t] = "handoff"]
          /\ UNCHANGED <<slot, probe>>
    /\ UNCHANGED <<lifecycle, admitted, cancelled, inboxVars, cut, wakeVars, owedVars,
                   available, healthVars, sideVars, job, drain>>

\* The start is settled, must wait for its resources, or is left as it was.
FinishScheduled ==
    /\ pc[Scheduler] = "run"
    /\ LockFree
    /\ slot' = "none"
    /\ start' \in (IF start = "claimed" THEN {"none"} ELSE {"none", "delayed", "accepted"})
    /\ pc' = [pc EXCEPT ![Scheduler] = "exit"]
    /\ UNCHANGED <<lifecycle, admitted, cancelled, inboxVars, cut, wakeVars, owedVars,
                   available, healthVars, sender, control, job, probe, drain>>

ScheduledExits ==
    /\ pc[Scheduler] = "exit"
    /\ pc' = [pc EXCEPT ![Scheduler] = "dropped"]
    /\ UNCHANGED <<lifecycle, slot, admitted, cancelled, inboxVars, cut, wakeVars, owedVars,
                   available, healthVars, sideVars, job, probe, drain>>

ScheduledWakes ==
    /\ pc[Scheduler] = "dropped"
    /\ pc' = [pc EXCEPT ![Scheduler] = "parked"]
    /\ Wake("mailbox")
    /\ UNCHANGED <<lifecycle, slot, admitted, cancelled, inboxVars, cut, closed, owedVars,
                   available, healthVars, sideVars, job, probe, drain>>

\* schedule_operation admits a start; the session's driver wakes the runtime of
\* a start that is due.
AcceptStart ==
    /\ lifecycle = "Running"
    /\ BoundaryFree
    /\ start = "none"
    /\ start' = "accepted"
    /\ Wake("mailbox")
    /\ probe' = FALSE
    /\ UNCHANGED <<lifecycle, pc, slot, admitted, cancelled, inboxVars, cut, closed, owedVars,
                   available, healthVars, sender, control, job, drain>>

DriverWakes ==
    /\ start # "none"
    /\ start' = IF start = "delayed" THEN "accepted" ELSE start
    /\ Wake("mailbox")
    /\ UNCHANGED <<lifecycle, pc, slot, admitted, cancelled, inboxVars, cut, closed, owedVars,
                   available, healthVars, sender, control, job, probe, drain>>

-----------------------------------------------------------------------------
(* The worker (ensure_worker).                                             *)

\* The select is biased: the runtime's own permit is taken first.
Taken == IF "runtime" \in permits THEN "runtime" ELSE "mailbox"

\* A closed gate ends the worker; otherwise it joins a finished compaction
\* (reap_manual_tail, which wakes it again) and goes on to admit.
WorkerWakes ==
    /\ pc[Worker] = "parked"
    /\ permits # {}
    /\ \/ /\ closed
          /\ pc' = [pc EXCEPT ![Worker] = "gone"]
          /\ permits' = permits \ {Taken}
       \/ /\ ~closed
          /\ pc[Compactor] = "joinable"
          /\ pc' = [pc EXCEPT ![Worker] = "schedule", ![Compactor] = "parked"]
          /\ permits' = (permits \ {Taken}) \cup {"runtime"}
       \/ /\ ~closed
          /\ pc[Compactor] # "joinable"
          /\ pc' = [pc EXCEPT ![Worker] = "schedule"]
          /\ permits' = permits \ {Taken}
    /\ UNCHANGED <<lifecycle, slot, admitted, cancelled, inboxVars, cut, closed, owedVars,
                   available, healthVars, sideVars, job, probe, drain>>

\* A change of the lifecycle also turns the worker's loop once: it joins, and
\* admits nothing.
WorkerReaps ==
    /\ pc[Worker] = "parked"
    /\ pc[Compactor] = "joinable"
    /\ pc' = [pc EXCEPT ![Compactor] = "parked"]
    /\ Wake("runtime")
    /\ UNCHANGED <<lifecycle, slot, admitted, cancelled, inboxVars, cut, closed, owedVars,
                   available, healthVars, sideVars, job, probe, drain>>

-----------------------------------------------------------------------------
(* Those who send (inbound.rs).                                            *)

\* submit_inbound, under the coordinator lock
Submit ==
    /\ LockFree
    /\ BoundaryFree
    /\ lifecycle = "Running"
    /\ ~failed
    /\ available
    /\ Room
    /\ Accept
    /\ Wake("mailbox")
    /\ probe' = FALSE
    /\ UNCHANGED <<lifecycle, pc, slot, admitted, cancelled, fixed, cut, closed, owedVars,
                   available, healthVars, sideVars, job, drain>>

\* The commit is not counted as activity.
Mut_EnqueueUncounted ==
    /\ BoundaryFree
    /\ lifecycle = "Running"
    /\ Room
    /\ Accept
    /\ sender' = "committed"
    /\ UNCHANGED <<lifecycle, pc, slot, admitted, cancelled, fixed, cut, wakeVars, owedVars,
                   available, healthVars, control, start, job, probe, drain>>

\* accept_draft by a producer of its own: inside the commit boundary only
Enqueue ==
    /\ BoundaryFree
    /\ lifecycle = "Running"
    /\ Room
    /\ Accept
    /\ sender' = "committed"
    /\ probe' = FALSE
    /\ UNCHANGED <<lifecycle, pc, slot, admitted, cancelled, fixed, cut, wakeVars, owedVars,
                   available, healthVars, control, start, job, drain>>

EnqueueWakes ==
    /\ sender = "committed"
    /\ sender' = "idle"
    /\ Wake("mailbox")
    /\ UNCHANGED <<lifecycle, pc, slot, admitted, cancelled, inboxVars, cut, closed, owedVars,
                   available, healthVars, control, start, job, probe, drain>>

\* remove_pending: no wake
Withdraw(s) ==
    /\ BoundaryFree
    /\ lifecycle = "Running"
    /\ s \notin fixed
    /\ waiting' = waiting \ {s}
    /\ probe' = FALSE
    /\ UNCHANGED <<lifecycle, pc, slot, admitted, cancelled, last, fixed, cut, wakeVars,
                   owedVars, available, healthVars, sideVars, job, drain>>

\* The terminal of a background execution is a correlated message; it may be
\* published while the runtime drains (accept_draft_with_event).
JobCommits(j) ==
    /\ job[j] \in {"running", "retrying"}
    /\ BoundaryFree
    /\ RegistryFree
    /\ lifecycle # "Quiescent"
    /\ Accept
    /\ fixed' = fixed \cup {last + 1}
    /\ job' = [job EXCEPT ![j] = "committed"]
    /\ probe' = FALSE
    /\ UNCHANGED <<lifecycle, pc, slot, admitted, cancelled, cut, wakeVars, owedVars,
                   available, healthVars, sideVars, drain>>

JobWakes(j) ==
    /\ job[j] = "committed"
    /\ job' = [job EXCEPT ![j] = "notified"]
    /\ Wake("mailbox")
    /\ UNCHANGED <<lifecycle, pc, slot, admitted, cancelled, inboxVars, cut, closed, owedVars,
                   available, healthVars, sideVars, probe, drain>>

JobSettles(j) ==
    /\ job[j] = "notified"
    /\ job' = [job EXCEPT ![j] = "settled"]
    /\ UNCHANGED <<lifecycle, pc, slot, admitted, cancelled, inboxVars, cut, wakeVars, owedVars,
                   available, healthVars, sideVars, probe, drain>>

\* The publication fails once and is tried again; then it is abandoned, and the
\* failure is reported to the coordinator (BackgroundFailureSink).
JobFails(j) ==
    /\ Fault
    /\ \/ /\ job[j] = "running"
          /\ RegistryFree
          /\ job' = [job EXCEPT ![j] = "retrying"]
          /\ UNCHANGED failed
       \/ /\ job[j] = "retrying"
          /\ LockFree
          /\ job' = [job EXCEPT ![j] = "abandoned"]
          /\ failed' = TRUE
    /\ UNCHANGED <<lifecycle, pc, slot, admitted, cancelled, inboxVars, cut, wakeVars, owedVars,
                   available, cycle, sideVars, probe, drain>>

-----------------------------------------------------------------------------
(* Goal controls and the model selection.                                  *)

\* control_goal: committed under the coordinator lock, woken after it is released
ControlGoal(r) ==
    /\ LockFree
    /\ BoundaryFree
    /\ lifecycle = "Running"
    /\ control = "idle"
    /\ rounds' = r
    /\ control' = IF r > 0 THEN "committed" ELSE "idle"
    /\ probe' = FALSE
    /\ UNCHANGED <<lifecycle, pc, slot, admitted, cancelled, inboxVars, cut, wakeVars,
                   continuation, available, healthVars, sender, start, job, drain>>

ControlWakes ==
    /\ control = "committed"
    /\ control' = "idle"
    /\ Wake("runtime")
    /\ UNCHANGED <<lifecycle, pc, slot, admitted, cancelled, inboxVars, cut, closed, owedVars,
                   available, healthVars, sender, start, job, probe, drain>>

\* publish_model_catalog: the catalog no longer admits the selected model
PublishCatalog ==
    /\ LockFree
    /\ available
    /\ available' = FALSE
    /\ UNCHANGED <<lifecycle, pc, slot, admitted, cancelled, inboxVars, cut, wakeVars, owedVars,
                   healthVars, sideVars, job, probe, drain>>

\* commit_model_selection.  It is an operation of the session, whose counter the
\* reaper compares as well, so it ends the reaper's idle epoch.
SelectModel ==
    /\ LockFree
    /\ lifecycle = "Running"
    /\ ~failed
    /\ ~available
    /\ available' = TRUE
    /\ Wake("mailbox")
    /\ probe' = FALSE
    /\ UNCHANGED <<lifecycle, pc, slot, admitted, cancelled, inboxVars, cut, closed, owedVars,
                   healthVars, sideVars, job, drain>>

-----------------------------------------------------------------------------
(* The session reaper (idle_epoch_locked, claim_idle).                     *)

\* What waits for a model that the catalog does not admit keeps nobody here.
ProbeIdle ==
    /\ ~probe
    /\ LockFree
    /\ lifecycle = "Running"
    /\ NoAdmissions
    /\ slot = "none"
    /\ pc[Compactor] = "parked"
    /\ ~failed
    /\ cycle.retry = "none"
    /\ available => ~continuation /\ rounds = 0 /\ waiting = {}
    /\ RegistryFree
    /\ BackgroundIdle
    /\ probe' = TRUE
    /\ UNCHANGED <<lifecycle, pc, slot, admitted, cancelled, inboxVars, cut, wakeVars, owedVars,
                   available, healthVars, sideVars, job, drain>>

\* The claim takes its locks only if they are free, and looks at the inbox and at
\* the Goal no more: the epoch vouches for them.
ClaimIdle ==
    /\ probe
    /\ LockFree
    /\ BoundaryFree
    /\ slot = "none"
    /\ ~continuation
    /\ ~failed
    /\ cycle.retry = "none"
    /\ lifecycle = "Running"
    /\ NoAdmissions
    /\ lifecycle' = "Draining"
    /\ probe' = FALSE
    /\ UNCHANGED <<pc, slot, admitted, cancelled, inboxVars, cut, wakeVars, owedVars,
                   available, healthVars, sideVars, job, drain>>

-----------------------------------------------------------------------------
(* The drain (drain.rs).                                                   *)

\* The supervisor waits for a record whose terminal was given up as for any other.
Mut_UnsettledAbandoned == {j \in Jobs : job[j] \notin {"none", "settled"}}

\* A record whose terminal was given up is evidence, nothing to wait for.
Unsettled == {j \in Jobs : job[j] \notin {"none", "settled", "abandoned"}}

\* begin_drain_internal: a running attempt is cancelled before the lifecycle
\* moves; an idle claim has moved it already.
BeginDrain ==
    /\ LockFree
    /\ BoundaryFree
    /\ drain = "off"
    /\ lifecycle \in {"Running", "Draining"}
    /\ lifecycle' = "Draining"
    /\ cancelled' = (cancelled \/ slot = "attempt")
    /\ closed' = TRUE
    /\ Wake("runtime")
    /\ drain' = "tail"
    /\ probe' = FALSE
    /\ UNCHANGED <<pc, slot, admitted, inboxVars, cut, owedVars, available, healthVars,
                   sideVars, job>>

\* reap_manual_tail(true): joins the compaction task, if there is one
DrainJoinsTail ==
    /\ drain = "tail"
    /\ pc[Compactor] \in {"parked", "joinable"}
    /\ IF pc[Compactor] = "joinable"
         THEN pc' = [pc EXCEPT ![Compactor] = "parked"] /\ Wake("runtime")
         ELSE UNCHANGED <<pc, permits>>
    /\ drain' = "foreground"

\* The supervisor does not wait for the worker.
Mut_DrainLeavesWorker ==
    /\ \/ drain = "foreground" /\ LockFree /\ slot = "none" /\ drain' = "background"
       \/ drain = "background" /\ RegistryFree /\ Unsettled = {} /\ drain' = "admissions"
       \/ drain = "admissions" /\ NoAdmissions /\ drain' = "recheck"
       \/ /\ drain = "recheck"
          /\ RegistryFree
          /\ drain' = IF Unsettled = {} THEN "worker" ELSE "foreground"
       \/ drain = "worker" /\ drain' = "last"
       \/ drain = "last" /\ NoAdmissions /\ drain' = "decide"
    /\ UNCHANGED <<pc, permits>>

\* The waits of drain_to_quiescence: each names the step it ends and the next.
DrainWaits ==
    /\ \/ drain = "foreground" /\ LockFree /\ slot = "none" /\ drain' = "background"
       \/ drain = "background" /\ RegistryFree /\ Unsettled = {} /\ drain' = "admissions"
       \/ drain = "admissions" /\ NoAdmissions /\ drain' = "recheck"
       \/ /\ drain = "recheck"
          /\ RegistryFree
          /\ drain' = IF Unsettled = {} THEN "worker" ELSE "foreground"
       \/ drain = "worker" /\ pc[Worker] = "gone" /\ drain' = "last"
       \/ drain = "last" /\ NoAdmissions /\ drain' = "decide"
    /\ UNCHANGED <<pc, permits>>

Resolved == ~failed /\ \A j \in Jobs : job[j] # "abandoned"

\* A failure was collected: the runtime never becomes quiescent.
DrainFails ==
    /\ drain = "decide"
    /\ ~Resolved
    /\ drain' = "failed"
    /\ UNCHANGED <<lifecycle, pc, permits>>

\* mark_quiescent; an admission that slipped in sends the supervisor back
DrainDecides ==
    /\ drain = "decide"
    /\ Resolved
    /\ \/ /\ NoAdmissions
          /\ lifecycle' = "Quiescent"
          /\ drain' = "ok"
       \/ /\ ~NoAdmissions
          /\ drain' = "foreground"
          /\ UNCHANGED lifecycle
    /\ UNCHANGED <<pc, permits>>

Supervise ==
    /\ \/ DrainJoinsTail /\ UNCHANGED lifecycle
       \/ DrainWaits /\ UNCHANGED lifecycle
       \/ DrainFails
       \/ DrainDecides
    /\ UNCHANGED <<slot, admitted, cancelled, inboxVars, cut, closed, owedVars, available,
                   healthVars, sideVars, job, probe>>

-----------------------------------------------------------------------------
Pass(t) == AdmitNextAttempt(t) \/ Adopt(t)

AttemptStep(n) == \/ BoundarySelect(n) \/ BoundaryAdopt(n) \/ AttemptBreaks(n)
                  \/ AttemptGrants(n) \/ FinishAttempt(n) \/ TaskExits(n)
                  \/ \E j \in Jobs : AttemptDetaches(n, j)

CompactionStep == \/ "compaction" \in Clients /\ AdmitCompaction
                  \/ FinishCompaction \/ CompactionExits

ScheduleStep == \/ \E t \in {Worker, Activator} : AdmitNextScheduled(t)
                \/ FinishScheduled \/ ScheduledExits \/ ScheduledWakes
                \/ "schedule" \in Clients /\ (AcceptStart \/ DriverWakes)

SenderStep == \/ Submit \/ \E s \in waiting : Withdraw(s)
              \/ "sender" \in Clients /\ Enqueue
              \/ EnqueueWakes

JobStep(j) == JobCommits(j) \/ JobWakes(j) \/ JobSettles(j) \/ JobFails(j)

ClientStep == \/ \E r \in 0..MaxRounds : ControlGoal(r)
              \/ ControlWakes \/ CancelAttempt
              \/ "catalog" \in Clients /\ (PublishCatalog \/ SelectModel)

DrainStep == ProbeIdle \/ ClaimIdle \/ BeginDrain \/ Supervise

Next == \/ \E t \in Threads : Pass(t)
        \/ \E n \in Attempts : AttemptStep(n)
        \/ \E j \in Jobs : JobStep(j)
        \/ CompactionStep \/ ScheduleStep \/ WorkerWakes \/ WorkerReaps
        \/ SenderStep \/ ClientStep \/ DrainStep

Spec == Init /\ [][Next]_vars

\* What the executor and the owners guarantee: a spawned task runs, an attempt,
\* a compaction and a start end (their timeouts and deadlines see to it), a
\* thread between its commit and its wake goes on, a cancelled background
\* execution settles, and an idle claim is followed by its drain.
Fairness ==
    /\ \A t \in Threads : WF_vars(Pass(t))
    /\ \A t \in {Worker, Activator} : WF_vars(AdmitNextScheduled(t))
    /\ \A n \in Attempts : /\ WF_vars(BoundaryAdopt(n))
                            /\ WF_vars(FinishAttempt(n))
                            /\ WF_vars(TaskExits(n))
    /\ WF_vars(FinishCompaction) /\ WF_vars(CompactionExits)
    /\ WF_vars(FinishScheduled) /\ WF_vars(ScheduledExits) /\ WF_vars(ScheduledWakes)
    /\ WF_vars(WorkerWakes)
    /\ WF_vars(EnqueueWakes) /\ WF_vars(ControlWakes)
    /\ \A j \in Jobs : /\ WF_vars(lifecycle = "Draining" /\ JobCommits(j))
                        /\ WF_vars(JobWakes(j))
                        /\ WF_vars(JobSettles(j))
    /\ WF_vars(lifecycle = "Draining" /\ BeginDrain)
    /\ WF_vars(Supervise)

LiveSpec == Spec /\ Fairness

-----------------------------------------------------------------------------
(* Properties.                                                             *)

\* Work the coordinator could admit at once.
Owed == /\ MayAdmit
        /\ \/ waiting # {}
           \/ continuation
           \/ rounds > 0 /\ BackgroundIdle /\ Room
           \/ cycle.retry # "none"

\* Somebody is bound to run a pass that has not begun its checks.
PassIsDue ==
    \/ permits # {}
    \/ \E t \in Threads : pc[t] \in {"schedule", "handoff", "admitting"}
    \/ pc[Compactor] \in {"exit", "joinable"}
    \/ pc[Scheduler] \in {"exit", "dropped"}
    \/ sender = "committed"
    \/ control = "committed"
    \/ \E j \in Jobs : job[j] = "committed"

\* No wake is lost: whenever a message, an unanswered turn, a Goal round or an
\* armed retry could be admitted, some thread is on its way to a pass.  Every
\* producer wakes only after its commit and every pass may return without
\* admitting, so each pair of the two has its own window (admit_next_attempt,
\* ensure_worker, with_goal_idle).
NoStrandedWork == Owed => PassIsDue

Owners == {t \in Threads : pc[t] \in {"admitting", "run", "selected", "broken"}}

\* What the slot holds while a thread owns the conversation state.
SlotOf(t) == IF pc[t] = "admitting" THEN "none"
             ELSE IF t = Compactor THEN "compaction"
             ELSE IF t = Scheduler THEN "scheduled" ELSE "attempt"

\* The conversation state has one owner: a pass between its two transactions or
\* the one task the foreground slot names (publish_attempt, admit_compaction,
\* admit_next_scheduled).
OneConversationOwner ==
    /\ Cardinality(Owners) <= 1
    /\ \A t \in Owners : slot = SlotOf(t)

\* publish_attempt expects its lifecycle admission to succeed: no drain, idle
\* claim or quiescence gets in between the checks of a pass and its adoption.
AdmittingIsRunning ==
    \A t \in Threads : pc[t] = "admitting" => lifecycle = "Running"

\* The reaper evicts no runtime that has work it could do: the probe reads the
\* inbox and the Goal, the claim trusts the epoch (claim_idle).
IdleClaimIsSafe ==
    [][ClaimIdle => /\ available => waiting = {} /\ rounds = 0
                    /\ ~continuation
                    /\ BackgroundIdle]_vars

\* One retry for each stage and cycle: the third error of a cycle is never
\* retried, however selection and adoption alternate (AdmissionRetryBudget).
FaultsAreBounded ==
    /\ faults.cycle <= Cardinality(Stages) + 1
    /\ faults.cycle = Cardinality(Stages) + 1 => failed

\* A recovered turn stays owed until an attempt that answers it is published: a
\* pass that selects and then fails or adopts nothing leaves it (admission.rs).
ObligationIsKept ==
    [][continuation /\ ~continuation' => admitted' = admitted + 1]_vars

\* A quiescent runtime has collected everything: no admission is held, every
\* background execution is settled, the worker is gone and nothing failed
\* (drain_to_quiescence).
QuiescenceIsTotal ==
    lifecycle = "Quiescent" => /\ NoAdmissions
                               /\ slot = "none"
                               /\ BackgroundIdle
                               /\ pc[Worker] = "gone"
                               /\ pc[Compactor] = "parked"
                               /\ ~failed

\* A message that waits is adopted or taken back, unless the model stays out of
\* the catalog, the store fails or the runtime drains.
InboundIsAnswered ==
    <>[]available =>
        \A s \in 1..MaxInbound :
            s \in waiting ~> s \notin waiting \/ failed \/ lifecycle # "Running"

\* A drain, and an idle claim, ends: quiescent or with the failures it collected.
DrainCompletes == lifecycle = "Draining" ~> drain \in {"ok", "failed"}

\* Closing a conversation is safe: its attempt is admitted under the checks that
\* were made for it, and Quiescent means that nothing is owed
\* (admission.rs 940-986, drain.rs 437-605).
ClosingIsSafe == TypeOK /\ AdmittingIsRunning /\ QuiescenceIsTotal
=============================================================================
