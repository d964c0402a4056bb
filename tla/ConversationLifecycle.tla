------------------------ MODULE ConversationLifecycle ------------------------
(***************************************************************************)
(* The lifecycle of one conversation runtime (src/src/runtime/types.rs):   *)
(* Inactive -> Running -> Draining -> Quiescent, the counted admissions of *)
(* the operations the runtime owns, the idle probe and claim of the        *)
(* session reaper, and the drain supervisor that publishes Quiescent.      *)
(*                                                                         *)
(* Every entry and every transition holds the commit boundary, a mutex.    *)
(* An exit does not: LifecycleAdmission::drop decrements two atomics and   *)
(* notifies, three separate steps that interleave with everything else.    *)
(* So an owner that holds the boundary and reads the two counters reads    *)
(* them at different instants, which is what this module is about.         *)
(***************************************************************************)
EXTENDS Naturals, FiniteSets

CONSTANTS
    Ops,          \* identities of the operations and resources that may be admitted
    MaxActivity   \* bound on the number of admissions of one run

ASSUME LifecycleAssumption == /\ IsFiniteSet(Ops)
                              /\ MaxActivity \in Nat
                              /\ Ops \cap {"free", "prober", "drainer"} = {}

VARIABLES
    state,        \* ConversationLifecycleState
    admissions,   \* LifecycleInner.admissions
    residents,    \* LifecycleInner.resident_resources
    activity,     \* LifecycleInner.activity, the change token
    guard,        \* what is left of each operation's LifecycleAdmission
    boundary,     \* holder of commit_boundary, or "free"
    probe,        \* the reaper: its step, the total it loaded, its idle epoch
    drainer,      \* the drain supervisor's step
    notified,     \* which registered Notified futures have fired, per waiter
    closer,       \* the step of a caller of shutdown, in wait_until_quiescent
    entered       \* operations admitted since the probe sampled its epoch

vars == <<state, admissions, residents, activity, guard, boundary, probe,
          drainer, notified, closer, entered>>

States == {"Inactive", "Running", "Draining", "Quiescent"}

\* out: no guard; active: an admitted operation; resident: a retained resource;
\* releasing: drop has removed the subset count; leaving: drop has also removed
\* the total, and has not notified yet.
GuardStates == {"out", "active", "resident", "releasing", "leaving"}
Counted == {"active", "resident", "releasing"}

ProbeSteps == {"off", "total", "idle", "claim"}
DrainSteps == {"off", "check", "register", "recheck", "await", "lock", "cas", "done"}
CloserSteps == {"off", "check", "register", "recheck", "await", "done"}
Waiters == {"drainer", "closer"}

TypeOK ==
    /\ state \in States
    /\ admissions \in Nat
    /\ residents \in Nat
    /\ activity \in Nat
    /\ guard \in [Ops -> GuardStates]
    /\ boundary \in Ops \cup {"free", "prober", "drainer"}
    /\ probe \in [step : ProbeSteps, total : Nat, epoch : Nat]
    /\ drainer \in DrainSteps
    /\ notified \in [Waiters -> BOOLEAN]
    /\ closer \in CloserSteps
    /\ entered \subseteq Ops

Init ==
    /\ state = "Inactive"
    /\ admissions = 0
    /\ residents = 0
    /\ activity = 0
    /\ guard = [o \in Ops |-> "out"]
    /\ boundary = "free"
    /\ probe = [step |-> "off", total |-> 0, epoch |-> 0]
    /\ drainer = "off"
    /\ notified = [w \in Waiters |-> FALSE]
    /\ closer = "off"
    /\ entered = {}

\* notify_waiters: whoever registered before this call is woken
Announce == notified' = [w \in Waiters |-> TRUE]

-----------------------------------------------------------------------------
(* The three lifecycle transitions an owner requests directly.             *)

Transition(from, to) ==
    /\ boundary = "free"
    /\ state = from
    /\ state' = to
    /\ Announce
    /\ UNCHANGED <<admissions, residents, activity, guard, boundary, probe,
                   drainer, entered, closer>>

Activate == Transition("Inactive", "Running")
BeginDrain == Transition("Running", "Draining")
BeginInactiveDrain == Transition("Inactive", "Draining")

-----------------------------------------------------------------------------
(* Entry.  admitted(from) is the common tail: the change token, the total, *)
(* and the guard handed to the operation.                                  *)

Admitted(o) ==
    /\ guard[o] = "out"
    /\ activity < MaxActivity
    /\ activity' = activity + 1
    /\ admissions' = admissions + 1
    /\ guard' = [guard EXCEPT ![o] = "active"]
    /\ entered' = entered \cup {o}
    /\ Announce
    /\ UNCHANGED <<state, residents, probe, drainer, closer>>

\* try_enter_running: a normal semantic commit boundary
TryEnterRunning(o) ==
    /\ boundary = "free"
    /\ state = "Running"
    /\ Admitted(o)
    /\ UNCHANGED boundary

\* try_enter_preparation: composition work, allowed before activation too
TryEnterPreparation(o) ==
    /\ boundary = "free"
    /\ state \in {"Inactive", "Running"}
    /\ Admitted(o)
    /\ UNCHANGED boundary

\* A settlement entry that skips the boundary, as the comment on
\* try_enter_settlement warns.
Mut_SettlementWithoutBoundary(o) ==
    /\ state \in {"Running", "Draining"}
    /\ Admitted(o)
    /\ UNCHANGED boundary

\* try_enter_settlement: already-owned work settles while Running or Draining
TryEnterSettlement(o) ==
    /\ boundary = "free"
    /\ state \in {"Running", "Draining"}
    /\ Admitted(o)
    /\ UNCHANGED boundary

\* with_running_commit, admit_running_commit and try_admit_running_commit:
\* the operation itself (SQL and publication) runs while the boundary is held.
BeginRunningCommit(o) ==
    /\ boundary = "free"
    /\ state = "Running"
    /\ Admitted(o)
    /\ boundary' = o

\* The boundary guard goes out of scope: with the admission already dropped
\* (with_running_commit) or retained by the operation (admit_running_commit).
EndRunningCommit(o) ==
    /\ boundary = o
    /\ boundary' = "free"
    /\ UNCHANGED <<state, admissions, residents, activity, guard, probe, drainer,
                   notified, entered, closer>>

\* into_resident_resource: the guard of a retained process or connection
IntoResidentResource(o) ==
    /\ boundary = "free"
    /\ guard[o] = "active"
    /\ guard' = [guard EXCEPT ![o] = "resident"]
    /\ residents' = residents + 1
    /\ Announce
    /\ UNCHANGED <<state, admissions, activity, boundary, probe, drainer,
                   entered, closer>>

-----------------------------------------------------------------------------
(* Exit: LifecycleAdmission::drop, without the boundary.                   *)

DropSubset(o) ==
    /\ guard[o] = "resident"
    /\ guard' = [guard EXCEPT ![o] = "releasing"]
    /\ residents' = residents - 1
    /\ UNCHANGED <<state, admissions, activity, boundary, probe, drainer,
                   notified, entered, closer>>

DropTotal(o) ==
    /\ guard[o] \in {"active", "releasing"}
    /\ guard' = [guard EXCEPT ![o] = "leaving"]
    /\ admissions' = admissions - 1
    /\ UNCHANGED <<state, residents, activity, boundary, probe, drainer,
                   notified, entered, closer>>

DropNotify(o) ==
    /\ guard[o] = "leaving"
    /\ guard' = [guard EXCEPT ![o] = "out"]
    /\ Announce
    /\ UNCHANGED <<state, admissions, residents, activity, boundary, probe,
                   drainer, entered, closer>>

-----------------------------------------------------------------------------
(* The idle probe and claim.  has_no_active_operations loads the total and *)
(* then the subset; both callers hold the boundary across the two loads.   *)

IdleEpochLoad ==
    /\ probe.step \in {"off", "idle"}
    /\ boundary = "free"
    /\ state = "Running"
    /\ boundary' = "prober"
    /\ probe' = [probe EXCEPT !.step = "total", !.total = admissions]
    /\ UNCHANGED <<state, admissions, residents, activity, guard, drainer,
                   notified, entered, closer>>

IdleEpochDecide ==
    /\ probe.step = "total"
    /\ boundary' = "free"
    /\ IF probe.total = residents
         THEN /\ probe' = [probe EXCEPT !.step = "idle", !.epoch = activity]
              /\ entered' = {}
         ELSE /\ probe' = [probe EXCEPT !.step = "off"]
              /\ UNCHANGED entered
    /\ UNCHANGED <<state, admissions, residents, activity, guard, drainer,
                   notified, closer>>

BeginIdleDrainLoad ==
    /\ probe.step = "idle"
    /\ boundary = "free"
    /\ state = "Running"
    /\ boundary' = "prober"
    /\ probe' = [probe EXCEPT !.step = "claim", !.total = admissions]
    /\ UNCHANGED <<state, admissions, residents, activity, guard, drainer,
                   notified, entered, closer>>

\* The claim trusts its earlier probe and does not validate the token.
Mut_ClaimIgnoresEpoch ==
    /\ probe.step = "claim"
    /\ boundary' = "free"
    /\ probe' = [probe EXCEPT !.step = "off"]
    /\ IF probe.total = residents
         THEN state' = "Draining" /\ Announce
         ELSE UNCHANGED <<state, notified>>
    /\ UNCHANGED <<admissions, residents, activity, guard, drainer, entered,
                   closer>>

BeginIdleDrainDecide ==
    /\ probe.step = "claim"
    /\ boundary' = "free"
    /\ probe' = [probe EXCEPT !.step = "off"]
    /\ IF probe.total = residents /\ activity = probe.epoch
         THEN state' = "Draining" /\ Announce
         ELSE UNCHANGED <<state, notified>>
    /\ UNCHANGED <<admissions, residents, activity, guard, drainer, entered,
                   closer>>

-----------------------------------------------------------------------------
(* The drain supervisor: wait_for_no_admissions, then mark_quiescent, and  *)
(* round again when a settlement entered in between.                       *)

\* the supervisor is spawned once the drain transition has won
SpawnDrain ==
    /\ state = "Draining"
    /\ drainer = "off"
    /\ drainer' = "check"
    /\ UNCHANGED <<state, admissions, residents, activity, guard, boundary, probe,
                   notified, entered, closer>>

NoAdmissionsCheck ==
    /\ drainer = "check"
    /\ drainer' = IF admissions = 0 THEN "lock" ELSE "register"
    /\ UNCHANGED <<state, admissions, residents, activity, guard, boundary, probe,
                   notified, entered, closer>>

\* changed.notified() is created and enabled: only later announcements count
NoAdmissionsRegister ==
    /\ drainer = "register"
    /\ drainer' = "recheck"
    /\ notified' = [notified EXCEPT !["drainer"] = FALSE]
    /\ UNCHANGED <<state, admissions, residents, activity, guard, boundary, probe,
                   entered, closer>>

\* The waiter parks without looking at the counter again.
Mut_ParkWithoutRecheck ==
    /\ drainer = "recheck"
    /\ drainer' = "await"
    /\ UNCHANGED <<state, admissions, residents, activity, guard, boundary, probe,
                   notified, entered, closer>>

NoAdmissionsRecheck ==
    /\ drainer = "recheck"
    /\ drainer' = IF admissions = 0 THEN "lock" ELSE "await"
    /\ UNCHANGED <<state, admissions, residents, activity, guard, boundary, probe,
                   notified, entered, closer>>

NoAdmissionsAwait ==
    /\ drainer = "await"
    /\ notified["drainer"]
    /\ drainer' = "check"
    /\ UNCHANGED <<state, admissions, residents, activity, guard, boundary, probe,
                   notified, entered, closer>>

\* mark_quiescent, first half: an admission that is still counted refuses it
MarkQuiescentLoad ==
    /\ drainer = "lock"
    /\ boundary = "free"
    /\ IF admissions = 0
         THEN boundary' = "drainer" /\ drainer' = "cas"
         ELSE drainer' = "check" /\ UNCHANGED boundary
    /\ UNCHANGED <<state, admissions, residents, activity, guard, probe,
                   notified, entered, closer>>

\* mark_quiescent, second half: the compare-exchange
MarkQuiescentSwap ==
    /\ drainer = "cas"
    /\ IF state = "Draining"
         THEN state' = "Quiescent" /\ Announce
         ELSE UNCHANGED <<state, notified>>
    /\ boundary' = "free"
    /\ drainer' = "done"
    /\ UNCHANGED <<admissions, residents, activity, guard, probe, entered, closer>>

-----------------------------------------------------------------------------
(* A caller of shutdown waits for the state itself, on the same announcer. *)

CloserRest == UNCHANGED <<state, admissions, residents, activity, guard, boundary,
                          probe, drainer, entered>>

\* wait_until_quiescent is called once the drain is requested, and looks first
CloserCheck ==
    /\ closer \in {"off", "check"}
    /\ state \in {"Draining", "Quiescent"}
    /\ closer' = IF state = "Quiescent" THEN "done" ELSE "register"
    /\ UNCHANGED notified
    /\ CloserRest

CloserRegister ==
    /\ closer = "register"
    /\ closer' = "recheck"
    /\ notified' = [notified EXCEPT !["closer"] = FALSE]
    /\ CloserRest

CloserRecheck ==
    /\ closer = "recheck"
    /\ closer' = IF state = "Quiescent" THEN "done" ELSE "await"
    /\ UNCHANGED notified
    /\ CloserRest

CloserAwait ==
    /\ closer = "await"
    /\ notified["closer"]
    /\ closer' = "check"
    /\ UNCHANGED notified
    /\ CloserRest

-----------------------------------------------------------------------------
Drop(o) == DropSubset(o) \/ DropTotal(o) \/ DropNotify(o)

Enter(o) ==
    \/ TryEnterRunning(o)
    \/ TryEnterPreparation(o)
    \/ TryEnterSettlement(o)
    \/ BeginRunningCommit(o)

Prober ==
    \/ IdleEpochLoad
    \/ IdleEpochDecide
    \/ BeginIdleDrainLoad
    \/ BeginIdleDrainDecide

Drainer ==
    \/ SpawnDrain
    \/ NoAdmissionsCheck
    \/ NoAdmissionsRegister
    \/ NoAdmissionsRecheck
    \/ NoAdmissionsAwait
    \/ MarkQuiescentLoad
    \/ MarkQuiescentSwap

Closer == CloserCheck \/ CloserRegister \/ CloserRecheck \/ CloserAwait

Next ==
    \/ Activate \/ BeginDrain \/ BeginInactiveDrain
    \/ \E o \in Ops : Enter(o) \/ EndRunningCommit(o) \/ IntoResidentResource(o) \/ Drop(o)
    \/ Prober
    \/ Drainer
    \/ Closer

Spec == Init /\ [][Next]_vars

(***************************************************************************)
(* Fairness.  Threads that hold the boundary release it, an admitted       *)
(* operation returns and its guard is dropped (the drain cancels every     *)
(* owner and each has a terminal boundary), and the spawned supervisor is  *)
(* scheduled.  Nothing is assumed about entries, probes or drain requests. *)
(***************************************************************************)
Fairness ==
    /\ \A o \in Ops : WF_vars(Drop(o)) /\ WF_vars(EndRunningCommit(o))
    /\ WF_vars(IdleEpochDecide) /\ WF_vars(BeginIdleDrainDecide)
    /\ WF_vars(Drainer)
    /\ WF_vars(Closer)

FairSpec == Spec /\ Fairness

-----------------------------------------------------------------------------
ActiveOps == {o \in Ops : guard[o] = "active"}
CountedOps == {o \in Ops : guard[o] \in Counted}
ResidentOps == {o \in Ops : guard[o] = "resident"}

\* The two atomics count what they claim to count at every instant, also
\* between the steps of a drop: the total every guard not yet removed from it,
\* the subset the resources whose release has not begun (types.rs 169-200).
CountsAreExact ==
    /\ admissions = Cardinality(CountedOps)
    /\ residents = Cardinality(ResidentOps)

\* Quiescent is published only when no operation holds a counted admission,
\* and none enters afterwards: "settlement is allowed while Running or
\* Draining, but never after Quiescent" (types.rs 544-600).
QuiescentIsSilent ==
    state = "Quiescent" => CountedOps = {}

\* A semantic commit that runs under the boundary is never overtaken by a
\* drain: the lifecycle is Running from its check to the release of the
\* boundary (with_running_commit, types.rs 411-440).
CommitsPrecedeDrain ==
    boundary \in Ops => state = "Running"

\* An idle claim closes admission only when no operation is active at that
\* instant, although it loads the two counters one after the other while
\* guards are dropped concurrently, and only when nothing was admitted since
\* the probe it was decided from (types.rs 352-383, 607-610).
IdleClaimIsExclusive ==
    [][(probe.step = "claim" /\ state' # state) => ActiveOps = {} /\ entered = {}]_vars

\* The lifecycle only moves forward, and never from Running or Inactive to
\* Quiescent without draining (types.rs 203-210, 300-405, 575-600).
LifecycleIsMonotone ==
    [][state' # state =>
          <<state, state'>> \in {<<"Inactive", "Running">>, <<"Inactive", "Draining">>,
                                 <<"Running", "Draining">>, <<"Draining", "Quiescent">>}]_vars

\* A drain reaches Quiescent: the supervisor never sleeps through the last
\* exit, because it registers before it looks at the counter again
\* (wait_for_no_admissions, types.rs 644-657).
DrainReachesQuiescence == state = "Draining" ~> state = "Quiescent"

\* Every caller of shutdown returns: wait_until_quiescent never sleeps through
\* the one announcement of Quiescent (types.rs 660-672).
ShutdownReturns == closer \notin {"off", "done"} ~> closer = "done"

\* What the drain rests on, together: exact counters, silence after Quiescent,
\* and no commit that a drain has overtaken (types.rs 169-200, 411-440, 544-600).
AdmissionIsSafe == CountsAreExact /\ QuiescentIsSilent /\ CommitsPrecedeDrain

\* Neither the supervisor nor a caller of shutdown sleeps through the
\* announcement that it needs (types.rs 644-672).
WaitersWake == DrainReachesQuiescence /\ ShutdownReturns
=============================================================================
