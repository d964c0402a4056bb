------------------------- MODULE BackgroundRegistry -------------------------
(***************************************************************************)
(* The registry of background executions (src/src/tools/background.rs).    *)
(*                                                                         *)
(* An attempt prepares a job, whose runner is parked behind a gate, and    *)
(* then commits it: the durable ownership fact comes before the gate is    *)
(* opened, inside the durability gate, the registry lock and the commit    *)
(* boundary of the lifecycle.  From then on the job belongs to the         *)
(* conversation.  When its executor returns, the runner publishes the      *)
(* terminal message, tries once more if that fails, and then reports the   *)
(* failure and abandons the publication.  Clients cancel jobs, the drain   *)
(* supervisor cancels and awaits them, and the process may die.            *)
(*                                                                         *)
(* A critical section of the registry lock is one step.                    *)
(***************************************************************************)
EXTENDS Naturals, FiniteSets

CONSTANTS
    Jobs,         \* the executions an attempt may start
    Rounds,       \* Goal rounds that want admission when the conversation is idle
    MaxRefused,   \* bound on commits that fail and leave nothing behind
    MaxLost,      \* bound on commits that are durable and answer with an error
    MaxCrashes    \* bound on deaths of the process

ASSUME RegistryAssumption == {Rounds, MaxRefused, MaxLost, MaxCrashes} \subseteq Nat

VARIABLES
    lifecycle,   \* ConversationLifecycle; Down: no process
    attempt,     \* the attempt in the foreground slot
    dispatch,    \* where the attempt stands with each job
    prepared,    \* BackgroundRegistryState.prepared
    runner,      \* the runner task of each job
    record,      \* BackgroundRegistryState.records
    real,        \* what the executor of each job returned
    gate,        \* DurabilityGate: open, requested or failed
    owned,       \* durable: BackgroundExecutionCommitted facts
    notice,      \* durable: the terminal messages of each job, with their facts
    adopted,     \* durable: jobs whose message an attempt has seen
    rounds,      \* Goal rounds left
    wake,        \* the permit of the mailbox's Notify
    drain,       \* the drain supervisor: its step, and the jobs it still awaits
    changed,     \* the supervisor's watch receiver has an unseen version
    faults       \* storage errors and deaths so far

durable == <<owned, notice, adopted, rounds>>
tasks == <<prepared, runner, record, real>>
vars == <<lifecycle, attempt, dispatch, tasks, gate, durable, wake, drain, changed, faults>>

Reasons == {"none", "user", "shutdown"}
Outcomes == {"Succeeded", "Cancelled", "OutcomeUnknown"}
Active == {"Starting", "Running", "Cancelling", "PublishingTerminal"}
Phases == {"none", "before", "during"}
Candidates == [settled : Outcomes, reason : Reasons, phase : Phases]
Notices == [settled : Outcomes, reason : Reasons, phase : Phases, at : 0..2]
Records == [state : Active \cup Outcomes \cup {"absent"}, reason : Reasons, started : BOOLEAN,
            pending : SUBSET Candidates, abandoned : BOOLEAN]
NoRecord == [state |-> "absent", reason |-> "none", started |-> FALSE,
             pending |-> {}, abandoned |-> FALSE]

TypeOK ==
    /\ lifecycle \in {"Running", "Draining", "Quiescent", "Down"}
    /\ attempt \in {"running", "cancelled", "ended"}
    /\ dispatch \in [Jobs -> {"none", "prepared", "waiting", "permitted", "refused", "done"}]
    /\ {prepared, owned, adopted} \subseteq SUBSET Jobs
    /\ runner \in [Jobs -> {"none", "parked", "aborted", "released", "executing", "returned",
                            "finished", "exhausted", "reporting", "reported", "done"}]
    /\ record \in [Jobs -> Records]
    /\ real \in [Jobs -> Outcomes \cup {"none"}]
    /\ gate \in {"open", "requested", "failed"}
    /\ notice \in [Jobs -> SUBSET Notices]
    /\ rounds \in 0..Rounds
    /\ {wake, changed} \subseteq BOOLEAN
    /\ drain \in [step : {"off", "foreground", "inspect", "parked", "admissions", "decide",
                          "quiescent", "failed"}, awaits : SUBSET Jobs]
    /\ faults \in [refused : 0..MaxRefused, lost : 0..MaxLost, crashes : 0..MaxCrashes]

Init ==
    /\ lifecycle = "Running"
    /\ attempt \in {"running", "ended"}
    /\ dispatch = [j \in Jobs |-> "none"]
    /\ prepared = {}
    /\ runner = [j \in Jobs |-> "none"]
    /\ record = [j \in Jobs |-> NoRecord]
    /\ real = [j \in Jobs |-> "none"]
    /\ gate = "open"
    /\ owned = {} /\ adopted = {}
    /\ notice = [j \in Jobs |-> {}]
    /\ rounds = Rounds
    /\ wake = TRUE
    /\ drain = [step |-> "off", awaits |-> {}]
    /\ changed = FALSE
    /\ faults = [refused |-> 0, lost |-> 0, crashes |-> 0]

\* Counted lifecycle admissions that outlive a step: a commit that awaits the
\* durability gate or holds it, and the report of an exhausted publication.
Admitted == {j \in Jobs : dispatch[j] \in {"waiting", "permitted", "refused"}
                          \/ runner[j] \in {"reporting", "reported"}}

Refused == faults.refused < MaxRefused /\ faults' = [faults EXCEPT !.refused = @ + 1]
Lost == faults.lost < MaxLost /\ faults' = [faults EXCEPT !.lost = @ + 1]

-----------------------------------------------------------------------------
(* Dispatch: prepare, then commit.                                          *)

\* prepare_dispatch_with_mcp_leases: refused once the runtime drains
Prepare(j) ==
    /\ lifecycle = "Running"
    /\ attempt # "ended"
    /\ dispatch[j] = "none"
    /\ dispatch' = [dispatch EXCEPT ![j] = "prepared"]
    /\ prepared' = prepared \cup {j}
    /\ runner' = [runner EXCEPT ![j] = "parked"]
    /\ changed' = TRUE
    /\ UNCHANGED <<lifecycle, attempt, record, real, gate, durable, wake, drain, faults>>

\* rollback_prepared, or the discard inside the commit: the runner is aborted
\* behind its gate, and a Goal that the preparation blocked is looked at again
Rollback(j) ==
    /\ dispatch' = [dispatch EXCEPT ![j] = "done"]
    /\ prepared' = prepared \ {j}
    /\ runner' = [runner EXCEPT ![j] = "aborted"]
    /\ wake' = TRUE

\* commit_dispatch_owned: the admission
BeginCommit(j) ==
    /\ dispatch[j] = "prepared"
    /\ \/ /\ lifecycle = "Running"
          /\ dispatch' = [dispatch EXCEPT ![j] = "waiting"]
          /\ UNCHANGED <<prepared, runner, wake>>
       \/ lifecycle # "Running" /\ Rollback(j)
    /\ UNCHANGED <<lifecycle, attempt, record, real, gate, durable, drain, changed, faults>>

\* The select is biased: a cancelled attempt does not look at the gate.
AwaitPermission(j) ==
    /\ dispatch[j] = "waiting"
    /\ \/ attempt = "cancelled" /\ Rollback(j)
       \/ /\ attempt # "cancelled"
          /\ \/ /\ gate = "open"
                /\ \A k \in Jobs : dispatch[k] # "permitted"
                /\ dispatch' = [dispatch EXCEPT ![j] = "permitted"]
             \/ gate # "open" /\ dispatch' = [dispatch EXCEPT ![j] = "refused"]
          /\ UNCHANGED <<prepared, runner, wake>>
    /\ UNCHANGED <<lifecycle, attempt, record, real, gate, durable, drain, changed, faults>>

\* Dropping the guard commits a failure that was requested while it was held.
LeaveGate == gate' = IF gate = "requested" THEN "failed" ELSE gate

\* The commit finds the runtime draining, the gate closed or the attempt
\* cancelled, all under the registry lock.
CommitRefused(j) ==
    /\ \/ dispatch[j] = "refused" /\ UNCHANGED gate
       \/ dispatch[j] = "permitted" /\ (lifecycle # "Running" \/ attempt = "cancelled") /\ LeaveGate
    /\ Rollback(j)
    /\ changed' = TRUE
    /\ UNCHANGED <<lifecycle, attempt, record, real, durable, drain, faults>>

Committable(j) == dispatch[j] = "permitted" /\ lifecycle = "Running" /\ attempt = "running"

\* The ownership fact fails, or its receipt is lost: the runner is aborted.
CommitFails(j) ==
    /\ Committable(j)
    /\ LeaveGate
    /\ \/ Refused /\ UNCHANGED owned
       \/ Lost /\ owned' = owned \cup {j}
    /\ Rollback(j)
    /\ changed' = TRUE
    /\ UNCHANGED <<lifecycle, attempt, record, real, notice, adopted, rounds, drain>>

\* The ownership fact, the record and the runner's gate, in one critical section
CommitDispatch(j) ==
    /\ Committable(j)
    /\ LeaveGate
    /\ owned' = owned \cup {j}
    /\ dispatch' = [dispatch EXCEPT ![j] = "done"]
    /\ prepared' = prepared \ {j}
    /\ record' = [record EXCEPT ![j] = [NoRecord EXCEPT !.state = "Starting"]]
    /\ runner' = [runner EXCEPT ![j] = "released"]
    /\ changed' = TRUE
    /\ UNCHANGED <<lifecycle, attempt, real, notice, adopted, rounds, wake, drain, faults>>

-----------------------------------------------------------------------------
(* Cancellation, and the runner.                                            *)

\* A job whose executor returned is not supervised any more.
Mut_PublishingIsSettled ==
    {j \in Jobs : record[j].state \in Active \ {"PublishingTerminal"} /\ ~record[j].abandoned}

\* unsettled_snapshot: what the drain supervises
Unsettled == {j \in Jobs : record[j].state \in Active /\ ~record[j].abandoned}

\* cancel_at_cut: the first cause stays
CancelAtCut(r, why) ==
    IF r.state \in {"Starting", "Running"} THEN [r EXCEPT !.state = "Cancelling", !.reason = why]
    ELSE r

\* cancel: the execution tool or a client
Cancel(j) ==
    /\ lifecycle \in {"Running", "Draining"}
    /\ CancelAtCut(record[j], "user") # record[j]
    /\ record' = [record EXCEPT ![j] = CancelAtCut(@, "user")]
    /\ changed' = TRUE
    /\ UNCHANGED <<lifecycle, attempt, dispatch, prepared, runner, real, gate, durable, wake,
                   drain, faults>>

\* mark_running: a job that is already cancelled keeps its state
MarkRunning(j) ==
    /\ runner[j] = "released"
    /\ runner' = [runner EXCEPT ![j] = "executing"]
    /\ record' = IF record[j].state = "Starting"
                 THEN [record EXCEPT ![j].state = "Running", ![j].started = TRUE]
                 ELSE record
    /\ changed' = (changed \/ record' # record)
    /\ UNCHANGED <<lifecycle, attempt, dispatch, prepared, real, gate, durable, wake, drain,
                   faults>>

\* The executor completes, or its settlement plane answers a cancellation.
ExecutorReturns(j, o) ==
    /\ runner[j] = "executing"
    /\ runner' = [runner EXCEPT ![j] = "returned"]
    /\ real' = [real EXCEPT ![j] = o]
    /\ UNCHANGED <<lifecycle, attempt, dispatch, prepared, record, gate, durable, wake, drain,
                   changed, faults>>

\* A job under cancellation ends cancelled, whatever the executor proved.
Mut_CancellationWins(r, o) ==
    [settled |-> IF r.state = "Cancelling" THEN "Cancelled" ELSE o,
     reason |-> IF r.state = "Cancelling" THEN r.reason ELSE "none",
     phase |-> "none"]

\* terminal_candidate: the executor decides the outcome, the registry the
\* reason and the phase of a cancellation
TerminalCandidate(r, o) ==
    [settled |-> o,
     reason |-> IF o # "Cancelled" THEN "none"
                ELSE IF r.state = "Cancelling" THEN r.reason ELSE "user",
     phase |-> IF o # "Cancelled" THEN "none"
               ELSE IF r.started THEN "during" ELSE "before"]

\* The message and its fact, with the clock read when they are built: the
\* second one is built at the same instant or at a later one.
Draft(c, at) == [settled |-> c.settled, reason |-> c.reason, phase |-> c.phase, at |-> at]

\* The terminal is stored and the coordinator is not woken.
Mut_AcceptQuietly(j, d) ==
    /\ notice[j] \subseteq {d}
    /\ notice' = [notice EXCEPT ![j] = {d}]
    /\ record' = [record EXCEPT ![j].state = d.settled, ![j].pending = {}]
    /\ UNCHANGED <<wake, faults>>

\* accept_draft_with_event answers: a row with the correlation of the job must
\* be the same row, time included, and then nobody is woken
Accepted(j, d) ==
    /\ notice[j] \subseteq {d}
    /\ notice' = [notice EXCEPT ![j] = {d}]
    /\ wake' = (wake \/ notice[j] = {})
    /\ record' = [record EXCEPT ![j].state = d.settled, ![j].pending = {}]
    /\ UNCHANGED faults

\* It fails: by a conflict, with nothing written, or with its receipt lost.
NotAccepted(j, d) ==
    /\ \/ ~ notice[j] \subseteq {d} /\ UNCHANGED <<notice, faults>>
       \/ Refused /\ UNCHANGED notice
       \/ notice[j] = {} /\ Lost /\ notice' = [notice EXCEPT ![j] = {d}]
    /\ UNCHANGED wake

\* finish: the first attempt; the candidate is kept when it fails
Finish(j) ==
    LET c == TerminalCandidate(record[j], real[j])
    IN  /\ runner[j] = "returned"
        /\ lifecycle # "Quiescent"
        /\ runner' = [runner EXCEPT ![j] = "finished"]
        /\ \/ Accepted(j, Draft(c, 1))
           \/ /\ NotAccepted(j, Draft(c, 1))
              /\ record' = [record EXCEPT ![j].state = "PublishingTerminal", ![j].pending = {c}]
        /\ changed' = TRUE
        /\ UNCHANGED <<lifecycle, attempt, dispatch, prepared, real, gate, owned, adopted,
                       rounds, drain>>

\* retry_terminal_publication: the second attempt, if there is a candidate
RetryPublication(j) ==
    /\ runner[j] = "finished"
    /\ lifecycle # "Quiescent" \/ record[j].pending = {}
    /\ \/ /\ record[j].pending = {}
          /\ runner' = [runner EXCEPT ![j] = "done"]
          /\ UNCHANGED <<notice, wake, record, changed, faults>>
       \/ \E c \in record[j].pending, at \in {1, 2} :
             /\ \/ Accepted(j, Draft(c, at)) /\ runner' = [runner EXCEPT ![j] = "done"]
                \/ /\ NotAccepted(j, Draft(c, at))
                   /\ runner' = [runner EXCEPT ![j] = "exhausted"]
                   /\ UNCHANGED record
             /\ changed' = TRUE
    /\ UNCHANGED <<lifecycle, attempt, dispatch, prepared, real, gate, owned, adopted, rounds,
                   drain>>

\* settle_terminal: the settlement admission of the report
BeginReport(j) ==
    /\ runner[j] = "exhausted"
    /\ lifecycle # "Quiescent"
    /\ runner' = [runner EXCEPT ![j] = "reporting"]
    /\ UNCHANGED <<lifecycle, attempt, dispatch, prepared, record, real, gate, durable, wake,
                   drain, changed, faults>>

\* The sink: the runtime is failed, once the commits in the gate have left it.
ReportFailure(j) ==
    /\ runner[j] = "reporting"
    /\ runner' = [runner EXCEPT ![j] = "reported"]
    /\ gate' = IF gate = "open" /\ \E k \in Jobs : dispatch[k] = "permitted"
               THEN "requested" ELSE IF gate = "open" THEN "failed" ELSE gate
    /\ UNCHANGED <<lifecycle, attempt, dispatch, prepared, record, real, durable, wake, drain,
                   changed, faults>>

\* The abandoned fact commits and its waiters are not told.
Mut_AbandonQuietly(j) ==
    /\ runner[j] = "reported"
    /\ runner' = [runner EXCEPT ![j] = "done"]
    /\ record' = [record EXCEPT ![j].abandoned = TRUE]
    /\ UNCHANGED <<lifecycle, attempt, dispatch, prepared, real, gate, durable, wake, drain,
                   changed, faults>>

\* mark_publication_abandoned, after the callback returned
MarkAbandoned(j) ==
    /\ runner[j] = "reported"
    /\ runner' = [runner EXCEPT ![j] = "done"]
    /\ record' = [record EXCEPT ![j].abandoned = TRUE]
    /\ changed' = TRUE
    /\ UNCHANGED <<lifecycle, attempt, dispatch, prepared, real, gate, durable, wake, drain,
                   faults>>

Runner(j) ==
    \/ MarkRunning(j) \/ (\E o \in Outcomes : ExecutorReturns(j, o)) \/ Finish(j)
    \/ RetryPublication(j) \/ BeginReport(j) \/ ReportFailure(j) \/ MarkAbandoned(j)

-----------------------------------------------------------------------------
(* The coordinator: attempts, Goal rounds and messages.                     *)

Waiting == {j \in Jobs \ adopted : notice[j] # {}}
Idle == prepared = {} /\ \A j \in Jobs : record[j].state \notin Active

\* A pass of the admission worker: messages first, then a Goal round, if
\* with_goal_idle finds nothing prepared and nothing active.
AdmitNextAttempt ==
    /\ wake
    /\ lifecycle = "Running"
    /\ wake' = FALSE
    /\ \/ /\ attempt # "ended" \/ gate # "open" \/ (Waiting = {} /\ (rounds = 0 \/ ~Idle))
          /\ UNCHANGED <<attempt, adopted, rounds>>
       \/ /\ attempt = "ended" /\ gate = "open"
          /\ \/ Waiting # {} /\ adopted' = adopted \cup Waiting /\ UNCHANGED rounds
             \/ Waiting = {} /\ rounds > 0 /\ Idle /\ rounds' = rounds - 1 /\ UNCHANGED adopted
          /\ attempt' = "running"
    /\ UNCHANGED <<lifecycle, dispatch, tasks, gate, owned, notice, drain, changed, faults>>

CancelAttempt ==
    /\ attempt = "running"
    /\ attempt' = "cancelled"
    /\ UNCHANGED <<lifecycle, dispatch, tasks, gate, durable, wake, drain, changed, faults>>

\* finish_attempt: every dispatch of the attempt has returned
FinishAttempt ==
    /\ attempt # "ended"
    /\ \A j \in Jobs : dispatch[j] \in {"none", "done"}
    /\ attempt' = "ended"
    /\ wake' = TRUE
    /\ UNCHANGED <<lifecycle, dispatch, tasks, gate, durable, drain, changed, faults>>

-----------------------------------------------------------------------------
(* The drain supervisor.                                                    *)

BeginDrain ==
    /\ lifecycle = "Running"
    /\ lifecycle' = "Draining"
    /\ attempt' = IF attempt = "running" THEN "cancelled" ELSE attempt
    /\ drain' = [drain EXCEPT !.step = "foreground"]
    /\ UNCHANGED <<dispatch, tasks, gate, durable, wake, changed, faults>>

\* wait_for_foreground_operation, then cancel and await every unsettled job
DrainJobs ==
    /\ drain.step = "foreground"
    /\ attempt = "ended"
    /\ drain' = [step |-> IF Unsettled = {} THEN "admissions" ELSE "inspect", awaits |-> Unsettled]
    /\ record' = [j \in Jobs |-> IF j \in Unsettled THEN CancelAtCut(record[j], "shutdown")
                                 ELSE record[j]]
    /\ UNCHANGED <<lifecycle, attempt, dispatch, prepared, runner, real, gate, durable, wake,
                   changed, faults>>

\* wait_until_settled: subscribe, inspect under the lock, and sleep until the
\* version changes
DrainAwaits ==
    /\ \/ drain.step = "inspect"
       \/ drain.step = "parked" /\ changed
    /\ changed' = FALSE
    /\ drain' = IF drain.awaits = {} THEN [drain EXCEPT !.step = "foreground"]
                ELSE IF drain.awaits \cap Unsettled = {}
                     THEN [drain EXCEPT !.step = "inspect", !.awaits = {}]
                     ELSE [drain EXCEPT !.step = "parked", !.awaits = @ \cap Unsettled]
    /\ UNCHANGED <<lifecycle, attempt, dispatch, tasks, gate, durable, wake, faults>>

\* wait_for_no_admissions, abort_prepared_for_drain and the second look
DrainAborts ==
    /\ drain.step = "admissions"
    /\ Admitted = {}
    /\ prepared' = {}
    /\ runner' = [j \in Jobs |-> IF j \in prepared THEN "aborted" ELSE runner[j]]
    /\ drain' = [drain EXCEPT !.step = IF Unsettled = {} THEN "decide" ELSE "foreground"]
    /\ changed' = TRUE
    /\ UNCHANGED <<lifecycle, attempt, dispatch, record, real, gate, durable, wake, faults>>

\* Failures keep the runtime from becoming quiescent; mark_quiescent.
DrainDecides ==
    LET failures == gate # "open" \/ \E j \in Jobs : record[j].abandoned
    IN  /\ drain.step = "decide"
        /\ Admitted = {}
        /\ drain' = [drain EXCEPT !.step = IF failures THEN "failed" ELSE "quiescent"]
        /\ lifecycle' = IF failures THEN lifecycle ELSE "Quiescent"
        /\ UNCHANGED <<attempt, dispatch, tasks, gate, durable, wake, changed, faults>>

Drain == DrainJobs \/ DrainAwaits \/ DrainAborts \/ DrainDecides

-----------------------------------------------------------------------------
(* Process death, and the background plane of recovery.                     *)

Crash ==
    /\ lifecycle # "Down"
    /\ faults.crashes < MaxCrashes
    /\ faults' = [faults EXCEPT !.crashes = @ + 1]
    /\ lifecycle' = "Down"
    /\ attempt' = "ended"
    /\ dispatch' = [j \in Jobs |-> IF dispatch[j] = "none" THEN "none" ELSE "done"]
    /\ prepared' = {}
    /\ runner' = [j \in Jobs |-> IF runner[j] \in {"none", "done"} THEN runner[j] ELSE "aborted"]
    /\ record' = [j \in Jobs |-> NoRecord]
    /\ gate' = "open"
    /\ wake' = FALSE
    /\ drain' = [step |-> "off", awaits |-> {}]
    /\ changed' = FALSE
    /\ UNCHANGED <<real, durable>>

\* publish_background_terminals: every owned job without a terminal fact
PublishInterrupted(j) ==
    /\ lifecycle = "Down"
    /\ j \in owned
    /\ notice[j] = {}
    /\ notice' = [notice EXCEPT ![j] =
                    {Draft([settled |-> "OutcomeUnknown", reason |-> "none", phase |-> "none"], 0)}]
    /\ UNCHANGED <<lifecycle, attempt, dispatch, tasks, gate, owned, adopted, rounds, wake,
                   drain, changed, faults>>

Activate ==
    /\ lifecycle = "Down"
    /\ \A j \in owned : notice[j] # {}
    /\ lifecycle' = "Running"
    /\ wake' = TRUE
    /\ UNCHANGED <<attempt, dispatch, tasks, gate, durable, drain, changed, faults>>

-----------------------------------------------------------------------------
Dispatch(j) ==
    \/ Prepare(j) \/ BeginCommit(j) \/ AwaitPermission(j)
    \/ CommitRefused(j) \/ CommitFails(j) \/ CommitDispatch(j)

Next ==
    \/ \E j \in Jobs : Dispatch(j) \/ Cancel(j) \/ Runner(j) \/ PublishInterrupted(j)
    \/ AdmitNextAttempt \/ CancelAttempt \/ FinishAttempt
    \/ BeginDrain \/ Drain \/ Crash \/ Activate

Spec == Init /\ [][Next]_vars

\* Tasks that can go on do; a dispatch ends once its attempt is cancelled; an
\* executor that was cancelled returns or is given up by its settlement plane,
\* and one that was not may run for ever.
Fairness ==
    /\ \A j \in Jobs :
          /\ WF_vars(BeginCommit(j) \/ AwaitPermission(j) \/ CommitRefused(j) \/ CommitFails(j)
                     \/ CommitDispatch(j))
          /\ WF_vars(MarkRunning(j))
          /\ WF_vars(record[j].state = "Cancelling" /\ \E o \in Outcomes : ExecutorReturns(j, o))
          /\ WF_vars(Finish(j) \/ RetryPublication(j) \/ BeginReport(j) \/ ReportFailure(j)
                     \/ MarkAbandoned(j))
          /\ WF_vars(PublishInterrupted(j))
    /\ WF_vars(FinishAttempt /\ attempt = "cancelled")
    /\ WF_vars(Drain)
    /\ WF_vars(Activate)

FairSpec == Spec /\ Fairness

-----------------------------------------------------------------------------
(* Properties.                                                              *)

\* No external effect without durable evidence: the executor of a job begins
\* only once the fact that the conversation owns it is durable, whatever
\* became of the attempt, the gate and the storage (background.rs 1461-1500).
RunningIsOwned ==
    \A j \in Jobs :
        runner[j] \in {"released", "executing", "returned", "finished", "exhausted", "reporting",
                       "reported", "done"} => j \in owned

\* What is told of a job is true: at most one terminal message, of an owned
\* job, that says what the executor proved or that the outcome is unknown; a
\* record is terminal only once that message is durable, agrees with it, and
\* names the cause that won the cancellation (background.rs 1890-2020).
NoticeIsTruthful ==
    \A j \in Jobs :
        /\ Cardinality(notice[j]) <= 1
        /\ \A n \in notice[j] : j \in owned /\ n.settled \in {real[j], "OutcomeUnknown"}
        /\ record[j].state \in Outcomes =>
              /\ record[j].state = real[j]
              /\ \E n \in notice[j] :
                    /\ n.settled = record[j].state
                    /\ (n.settled = "Cancelled" /\ record[j].reason # "none")
                          => n.reason = record[j].reason

\* When a drain has ended, quiescent or failed, nothing of a job can call back
\* into the conversation: no dispatch is under way, no runner is left, and
\* every record is terminal or abandoned (background.rs 2044-2110).
DrainLeavesNoCallback ==
    drain.step \in {"quiescent", "failed"} =>
        /\ prepared = {} /\ Unsettled = {}
        /\ \A j \in Jobs : /\ dispatch[j] \in {"none", "done"}
                           /\ runner[j] \in {"none", "aborted", "finished", "done"}
                           /\ runner[j] = "finished" => record[j].pending = {}

\* An idle conversation with something to do has a wake on its way: a message
\* that waits, or a Goal round that a prepared or running job held back
\* (background.rs 2256-2290).  After a lost receipt the code promises less: the
\* retry that finds its row sends no wake (inbound.rs 1027-1032).
NothingIsStranded ==
    \/ faults.lost > 0
    \/ lifecycle # "Running" \/ attempt # "ended" \/ gate # "open" \/ wake
    \/ Waiting = {} /\ (rounds = 0 \/ ~Idle)

\* A retry after a lost receipt finds the row of the first attempt and settles
\* the job: what is abandoned was never published.
LostReceiptIsResolved ==
    \A j \in Jobs : record[j].abandoned => notice[j] = {}

\* A drain ends although publications fail and are abandoned, and once it is
\* cancelled, or its process died, an owned job gets its message unless the
\* runtime is declared failed (background.rs 2297-2303, recovery.rs 1963-1982).
DrainEnds ==
    /\ drain.step # "off" ~> drain.step \in {"quiescent", "failed", "off"}
    /\ \A j \in Jobs : (j \in owned /\ (record[j].state = "Cancelling" \/ lifecycle = "Down"))
                           ~> (notice[j] # {} \/ gate = "failed")

\* A job runs only when it is durably owned, and its notice says what became of
\* it (background.rs 1361-1510, 1903-2216).
JobsAreTruthful == TypeOK /\ RunningIsOwned /\ NoticeIsTruthful
=============================================================================
