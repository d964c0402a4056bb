# rustX: the conversation core in TLA+

rustX is an execution runtime for durable, tool-using language-model agents. A
*session* owns conversations; a conversation has a SQLite store, and while it is
resident in the process a *conversation runtime* turns messages from people,
detached jobs, subagents, schedules and its own Goal into *attempts* of an agent
loop. This directory models the part of that runtime which decides **who may act
on a conversation, what wakes them, what is owed after a failure or a death of the
process, and when the runtime may be closed**, and the registry of the process that
loads and retires such runtimes. It is the part with the most threads and the
fewest deterministic tests.

Contents: [Inventory](#inventory) · [Modules](#modules) · [Runs](#runs) ·
[Findings](#findings) · [Fairness](#fairness) · [Proofs](#proofs) ·
[What is left out](#what-is-left-out) · [Plan](#plan) · [Reproducing](#reproducing)

All source paths below are relative to the crate, `src/src/`.

## Inventory

### Conversation lifecycle — `runtime/types.rs`

State: `Inactive → Running → Draining → Quiescent` in an atomic, two counters
(`admissions` and its subset `resident_resources`), an activity token, the commit
boundary mutex, a `Notify`. Operations: activate, enter (several flavours),
turn an admission into a resident resource, drop a guard, probe for idleness,
claim an idle runtime, begin a drain, wait for no admissions, mark quiescent,
wait until quiescent. Entering and every transition hold the boundary; dropping a
guard does not and consists of three steps. Correct means: counters are never
wrong in a way a reader can act on; `Quiescent` is never published over a live
admission; a commit is not overtaken by a drain; nobody sleeps for ever.

### Durability gate — `runtime/types.rs`

One absorbing failure of storage, ordered after all commits that were allowed
before it. Two kinds of writers (an ownership commit, at most one; a coordinator
mutation, at most one; they may overlap) and any number of failure reporters.
Deciding happens under a mutex; notifying and publishing happen after unlocking.

### Pending inbox — `durable/sqlite/inbox.rs`

The tables `pending_inbound`, `inbound_correlation`, the canonical ledger, the
journal and a derived count. Senders accept messages (idempotent when they carry
a correlation); a coordinator selects a batch in one transaction and adopts it in
another; clients edit and remove rows by revision; a detached job or a subagent
publishes notice, report and event together. Process death may follow any
transaction.

### Goal — `goal.rs`, `durable/sqlite/inbox.rs`

One optional row with a reference (id, revision), phase, round budget and rounds
consumed. Controls come from clients and from the model, rounds from the
coordinator, pauses from the interrupt of an attempt; all hold references that
may be old.

### Coordinator — `runtime/conversation_runtime/`

`CoordinatorState` behind one mutex: the foreground slot (attempt, compaction or
scheduled start), counters of attempts, a recovered continuation, the retry
budget of the current admission cycle. Around it: the worker and its two wakes,
the mailbox, the background registry, the model catalog, the reaper of idle
sessions, the drain supervisor. `admission.rs` contains the pass that everything
leads to, `attempt.rs` the tasks it starts, `durability.rs` the policy for storage
errors, `drain.rs` the supervisor, `compaction.rs` and `scheduled.rs` two other
owners of the slot.

### Attempts, their durable facts and recovery — `agent/execution/`, `durable/sqlite/publication.rs`, `runtime/recovery.rs`

An attempt writes a fact before and after each external effect: the request and its
outcome, the publication stream of the model's output and its settlement, the
canonical message, each tool call's start and outcome, the results, the terminal.
After a death the journal is folded into evidence, the interrupted attempt is
classified, and a plan is committed piece by piece: publications terminalised, tool
turns repaired, the attempt settled, perhaps a continuation permitted. Correct
means: what recovery says and writes is true whatever prefix it found, its own
interrupted prefixes included; nothing that reached a provider is sent again; no
adopted turn is dropped.

### Interaction coordinator — `runtime/interaction.rs`

Approvals, reviews and questionnaires: a map of pending requests behind one mutex,
an audit fact committed together with the removal of an entry, and after that,
without the mutex, delivery to a parent process, to the owner over a channel, and
to an observer. A client's answer, its cancellation, the cancellation of the
execution, a deadline, the loss of the parent and the drain race. Correct means:
one end, heard by all, and nothing left at quiescence.

### Auxiliary calls — `runtime/auxiliary/`

Model calls outside an attempt (titles, summaries, compactions): semaphores of the
process and of the conversation, with slots protected for compaction, and a
registry that owns each call until its thread is joined. Correct means: a refusal is
due to calls that really run, a refused consumer is woken, a drained or closed scope
is over.

### Background registry — `tools/background.rs`

Prepared jobs and records behind one lock; a runner for each; ownership facts and
terminal messages in the store. Correct means: no effect without durable ownership,
one true terminal, a drain that ends and leaves no callback.

### Staged configuration — `local_runtime/configuration/`, `runtime/conversation_runtime/configuration.rs`

An application owner captures, prepares and stages candidates; the runtime commits
one at its own boundary, when nothing owns the old generation, and reports. Passes
are deferred for a candidate or a catalog and must be resumed. Correct means: what a
client is shown as applied is retained and runs; attempts freeze the newest ready
generation; desires and deferred messages do not starve.

### Session residency — `local_runtime/session_runtime_manager*`

One slot for each conversation (nothing, storage only, loading, loaded, unloading),
flights that own the transitions, callers that wait for them, receipts of
submissions, retained failures, deletion fences, a limit on residents, an idle
reaper and the drain of the process. Correct means: one writer, absence proved
before it is relied on, room never overdrawn, every call returns.

### How they interact

| from | to | by |
|---|---|---|
| senders, jobs, clients | inbox | a transaction, then a wake of the worker |
| coordinator pass | inbox | select, then adopt, holding the coordinator mutex but not the store between them |
| everything that runs | lifecycle | a counted guard, dropped when it ends |
| background jobs, pass, attempts | durability gate | enter and exit of commits, a failure report |
| background registry | coordinator | mutual exclusion of Goal continuation and job settlement |
| reaper | lifecycle, inbox, Goal | probe, later a claim under the boundary |
| drain supervisor | all of them | closes admission, cancels, waits, collects failures, decides |
| attempts | interactions | publish and wait; the audit fact decides, the drain cancels |
| attempts, background settlement, compaction | auxiliary calls | reserve without waiting, await an announcement |
| configuration owner | coordinator | stages under both locks; the commit is a part of a pass; a report task answers |
| session registry | runtime | activates, drains, joins; native close outside the registry lock |

### Other parts of the repository

Schedules, subagents, workflows, tools and MCP, supervised processes, projections,
context assembly, model adapters, the client protocol and the two user
interfaces. `PROJECT.json` lists each with its status and reason; the
[plan](#plan) says which come next.

### What is hard here

Four patterns recur and most hazards in `PROJECT.json` are an instance of one:

1. *Commit, then wake.* Every producer of work commits in one critical section
   and notifies in another. Every consumer may return without consuming. The two
   gaps meet in dozens of pairs.
2. *Read, release, decide.* Idle probes, selected batches, Goal references and
   client views of rows are used after the lock that made them true is gone.
3. *Several owners, one end.* A drain must outlive every guard, job, task and
   worker, and must not wait for the ones that can no longer end.
4. *Durable, then answered.* A fact is committed in one step and its receipt arrives in
   another; a death, an error or a retry may come between them.

## Modules

| module | models | kind |
|---|---|---|
| `ConversationLifecycle` | lifecycle, guards, probe and claim, drain supervisor's last steps, a caller of shutdown | component |
| `DurabilityGate` | the gate, its writers and reporters | component |
| `InboundDelivery` | numbered delivery of messages | abstract specification |
| `PendingInbox` | the store's inbox operations, crash | component, implements `InboundDelivery` |
| `GoalRounds` | Goal row and rounds, over `PendingInbox` | composition |
| `AttemptAdmission` | coordinator, worker, attempts, jobs, compaction, scheduled starts, clients, reaper, drain | composition |
| `CrashRecovery` | durable facts of an attempt, publication of output, death, recovery | component |
| `InteractionRendezvous` | requests to people and their settlement, with a parent and a drain | component |
| `AuxiliaryCalls` | capacity, registry and scopes of auxiliary calls | component |
| `BackgroundRegistry` | jobs from preparation to terminal, gate, drain, death | component |
| `ConfigurationCommit` | application owner, staging, commit, catalogs, deferral of passes | composition |
| `SessionResidency` | slots, flights and calls of the registry of resident runtimes | component |
| `MC…` | instances for TLC | configuration |
| `…Proofs` (eight) | theorems for the module they are named after; `PendingInboxProofs` also for the Goal, `RuntimeGuardsProofs` for lifecycle, gate and auxiliary calls | proofs |

Definitions named `Mut_…` are deliberately wrong variants of a neighbouring
definition: what a plausible slip in that code would be. Nothing uses them except
the mutants of `PROJECT.json`, each of which must violate the property it is
listed with.

### ConversationLifecycle

`guard[o]` says what remains of operation `o`'s `LifecycleAdmission`. Dropping it
takes up to three actions because `LifecycleAdmission::drop` decrements the
subset, then the total, then notifies, without the boundary. The reaper
(`probe`) loads the total and the subset at two instants, holding the boundary;
its claim does so again and compares the activity token. The supervisor
(`drainer`) follows `wait_for_no_admissions` and `mark_quiescent` instruction by
instruction: look, register with `Notify`, look again, sleep, lock, swap. The
variable `entered` is a ghost: what was admitted since the probe sampled.

Not modelled: `LifecycleCommitBoundary::available`, a wait for the mutex itself.
A probe that reports busy is a stutter. Draining is followed up to the point where
the supervisor has no collected failures; failing drains are in
`AttemptAdmission`.

### DurabilityGate

`step[a]` is where actor `a` stands. A critical section of the gate's mutex is one
action; the notification and the call of the publisher after it are actions of
their own (`AnnounceRequest`, `AnnounceExit`, `Publish`). An owner that finds the
permission taken has already registered with `Notify` (`Register`, then
`EnterOwnershipCommit`, then sleep and `Wake`). The coordinator is one actor
because its mutations are serialised by its own mutex. The publisher is installed
by bootstrap before the runtime is active, and a panic in it is caught, so
publishing always returns. The Condvar path exists for tests only.

### PendingInbox and InboundDelivery

Each store operation runs in an IMMEDIATE transaction, so it is one action; a
transaction that fails, a conflicting edit and an edit of a row that is gone
change nothing. Tables are sets of rows, a message is its sequence number, the
place of a ledger row is (adopting batch, sequence). `receipts` and `removed` are
ghosts: what senders were told, what clients took back. `Crash` keeps the tables
and loses the selection and the views.

`InboundDelivery` has three actions over `last`, `waiting`, `delivered`,
`withdrawn`. `PendingInbox` implements it (`DeliversInOrder`) with
`last ← next`, `waiting ← Seqs(pending)`, `delivered ← Seqs(ledger)`,
`withdrawn ← removed`. Selection, reading and crashes are stutters; a terminal
with a notice accepts two numbers in one step. `AttemptAdmission` relies on this
abstraction and not on the tables.

### GoalRounds

`Create`, `Pause`, `Resume`, `Block`, `Complete`, `EditObjective`, `SetBudget` are the
arms of the pure `transition` function; `AcceptGoalRound` is the transaction which
pays a round and accepts its message (`AcceptContinuation` of the inbox, the same
transaction); `PauseIfCurrent` is the interrupt, which
holds the reference recorded by *any* earlier round. Writers observe the row at
any time and may act on what they saw at any later time. In-process publication
order is not assumed: the compare-and-set of the store carries the argument alone.
`MaxBudget` stands for `MAX_ROUND_BUDGET` (100). Objectives are not represented; an
edit of one is still a step, because it changes the revision.

### AttemptAdmission

Threads are numbered: the worker, activation, the compaction task, the scheduled
start's task, and one task for every attempt. `pc[t]` is where thread `t` is, `slot` the
foreground owner.

A pass of `admit_next_attempt` is atomic from the lock to the selection
(`PassRefused`, `PassContinues`, `PassIdle`, `PassSelects`, `PassFails`,
`PassGoalFails`), then keeps the lock (`pc[t] = "admitting"`) while others may touch
the inbox, and ends in `AdoptsBatch`, `AdoptsNothing` or `AdoptionFails`. `MayAdmit`
is the list of early returns. An attempt drains its boundary (`BoundarySelect`,
`BoundaryAdopt`), may break on a storage error, may detach a background job or
grant the Goal a budget, finishes under the lock, and hands over. `Wake` puts a permit into
`permits`, which is all that tokio's `notify_one` does for a single waiter;
the worker's `select!` is biased, so `WorkerWakes` takes one permit a turn, the
runtime's own before the mailbox's (`Taken`). Senders, jobs and Goal controls are each
modelled between their commit and their wake. `ProbeIdle` and `ClaimIdle` are the
reaper, with `probe` reset by every action that moves the epoch. `DrainStep` walks through the waits
of `drain_to_quiescence` in its order, including the loop back when new background
work appeared, and the final decision from what was collected.

Simplifications, each deliberate:

* cancelling an attempt pauses the Goal or not, nondeterministically, because the
  model does not remember which message started the attempt;
* a local variable that can no longer be read (`cut`, `cancelled`) is reset when its
  owner ends, which only merges equivalent states;
* the return of the compaction task, its wake and the drop of its admission are
  one action, `CompactionExits`; joining it is separate;
* at most one scheduled start is around at a time, and its settlement obtains the
  physical proof it asks for;
* bounds leave room for each job to report (`Cardinality(Jobs) < MaxInbound`).

A remark for readers of `admission.rs`: the comment at lines 596-599 says that the
permission to continue "is consumed here", at selection; the code clears
`recovered_continuation` only after a non-empty adoption (line 722).
`ObligationIsKept` shows what the later place buys: a pass that fails in between
still owes the turn.

### CrashRecovery

Every commit is a step, and `Crash` may follow any of them, those of the recovery
included. `evidence` is what `reconstruct` folds from the journal; the model folds each
fact when it is written, which gives the same value because the fold reads events in
order and keeps nothing else. `live` is the attempt's place in its step, `plan` what
remains of a `RecoveryPlan`. `effects` records what really happened to each tool call and
`outcome` what is durable of each request: the properties are stated over these and not
over the fold. Call ids are used again in every message, as a model does. `CommitFails`
and `SettlementFails` are storage errors of a live process, `RecoveryFails` one of a
recovery.

Abstractions: completed, cancelled and failed terminals of a live attempt conclude a turn
alike; cancellation is possible wherever the code looks for it; frames of a stream are
one flag; settled rows of earlier attempts are forgotten when the next attempt starts,
since nothing reads them. `Attempts` and `Steps` are derived from the other bounds and
never refuse a step. Left out: the workflow output protocol, compaction inside a step
and retired surfaces, the background and subagent planes, Goal provenance, degrading a
carryover.

### InteractionRendezvous

`pending` is the map; `waiter[i]` is where the owner of request `i` stands, `delivery[i]`
who is delivering its settlement, `payload[i]` how far its payload is dropped (two
admissions around a callback), `requested` and `settled` the audit. `BeginSettle` takes
the entry and commits the audit; `Deliver`, `Receive`, `DropPayload` happen later. A route to a parent
may be installed; `ParentLost` abandons what it carried. The pre-check of `respond_async`
is contained in the critical section it precedes. Owners are foreground executions, which
the drain cancels. Not modelled: a delivering future that is dropped half way, which needs
a detached caller.

### AuxiliaryCalls

`held[c]` are the permits of call `c` and its announcement. `Take` and `Rollback` follow the
order of the code, under the reservation mutex; `Release` drops one field after the other
without it. `dirty` is the unseen version of the watch channel each waiting consumer
subscribed to before asking. The work of an owner's thread is one step. `Closing` and
`Draining` say which consumers may close their scope and which conversations may drain.
Left out: `with_healthy_commit`, the drain's panic path, the size of the reaper pool.

### BackgroundRegistry

A critical section of the registry lock is one step, so is the drain's snapshot with its
cancellations. `dispatch[j]` is the attempt's place in dispatching `j`, `runner[j]` its task,
`record[j]` the registry's row, `real[j]` what the executor returned, `owned` and `notice`
the store. A commit may be refused, or be durable and answered with an error (`Lost`).
A retried publication carries the same instant or a later one. `gate` is the durability
gate reduced to open, requested, failed. `AdmitNextAttempt` stands for the coordinator.
Left out: the standalone claim and the Inactive phase, progress, output files, listings.
Branches that refuse work after quiescence are unreachable: `DrainLeavesNoCallback` says why.

### ConfigurationCommit

`owner` is the application state of a scope, `prep` its worker, `rt` the newest runtime
allocation with its staged candidate and its admission worker, `retained` what the Session
keeps, `reports` the tasks that carry outcomes home. A critical section of the application
or of the coordinator lock is one step and staging holds both. An input has two parts: the
model catalog, and everything else that a generation is prepared from. Each has the unit a client is
shown, `owner.provider` and `owner.unit`. `SettleProvider` is the publication of a model catalog that
changes no invocation: without a candidate, to the resident runtime and the retained
binding, or on a cold Session by a deferral alone; with nothing else to prepare the whole
application is then `Applied`. Whether an invocation changes is a choice. `Fence` is the takeover of
process limits, shared capacity and execution policy; their values are not told apart, but the
change record may fail. Whoever holds the commit boundary releases it without
announcing it, so the worker's wait for the boundary carries the resumption alone. A
runtime in an in-place drain stays `Loaded` until it is quiescent. `failed` is a gate that was
asked to fail or did. Left out: the units of execution policy, shared capacity and process
limits (they are applied at once or not at all), the model that a published catalog makes
unavailable (see `AttemptAdmission`), explicit refreshes, forgetting a session.

### SessionResidency

A runtime is named by the flight that composed it, because the two share their
initialization. One action is one critical section of the registry with the work of the
same task up to its next await. `entries` are the slots, `flights` the tasks, `calls` what each
caller waits for; the drain retires every conversation with a call of its own.
`retire()` cancels after leaving the lock and the native lifecycle is closed in a third step
(`CloseNative`), so a load may finish in between. Shutdown with the projection's drain has
three outcomes: absent, failed but absent, not proved. `req` tells a requested
retirement from one that is being carried out. `unload_incarnation` is `RetireLoaded` without its
loop. `overwritten` is a ghost: the conversations whose slot a retry took from its owner.
Left out: pins of clients, idle grace and epochs, fences of schedule writes and
schedule drivers, the limit of 64 storage flights, recovery of a committed deletion, deletion
previews. A submission that meets a slot whose retirement was not proved is answered Ok and
excused in `IntentIsServed`.

## Runs

One run for each question, most of them safety and liveness together.

| run | instance | distinct states | question |
|---|---|---|---|
| `lifecycle` | 2 operations | 65 k | Are counters, quiescence and idle claims right between the steps of a drop, and does every waiter wake? |
| `gate` | 3 owners, coordinator, 2 reporters | 65 k | Is the failure ordered after its writers, published once, and nobody forgotten? |
| `inbox_and_goal` | 3 messages, 1 correlation, 1 terminal, 2 clients; 2 Goal writers, 5 revisions | 410 k | Do the tables agree, are snapshots rechecked, is delivery in order, are rounds paid once? |
| `coordinator` | 2 messages, job, Goal, sender, compaction, schedule, catalog, 3 errors | 226 k | Is no work stranded, the conversation owned once and closed only when nothing is owed, every message answered, every drain ended? |
| `interaction` | 2 requests, 2 clients | 249 k | Do owner, client and record hear one end, and does the owner return? |
| `auxiliary` | 3 calls, 2 conversations | 75 k | Is a refusal real, a closed scope over, and a refused consumer woken? |
| `recovery` | 2 turns, 2 tool calls, 1 retry, 2 deaths, 1 error | 1.0 M | Is recovery truthful, never replaying, and is no turn stranded? |
| `background` | 2 jobs, 1 Goal round, 2 refusals, 1 lost receipt, 1 death | 139 k | Is a job owned before it runs and told truly, and does a drain end clean? |
| `background_lost_receipt` | 1 job, 1 lost receipt | violation | Does the retry of a terminal resolve a lost receipt? |
| `configuration` | 2 captures, catalog, message, boundary, 2 allocations, 1 failed record | 904 k | Is the view true, do attempts freeze the newest, do desires and messages end? |
| `residency` | 2 conversations, 3 callers, room for 1 | 63 k | Is there one writer, proof before reliance, room, and an answer to every call? |
| `residency_retry` | a submission, a scheduled activation and a retry of one conversation | violation | Has a conversation at most one live runtime? |

Bounds are of two kinds. Constants are bounds in guards. In eight runs the `MC` module also
has a state constraint `Bounded`, which says which of the things that the constants allow may
meet in one behaviour; the reason is always that their product is too large while each of the
mixtures is not:

* `inbox_and_goal`: a Goal exists only over an inbox in which nobody edits and nothing is correlated.
* `coordinator`: a job and a sender with a Goal or a second message; or a compaction, or the catalog and
  a scheduled start (which a drain finds without a message), and a compaction with a scheduled start
  without either; or errors, three of them alone, one that a drain finds, one under a job, the two
  with which it gives its terminal up before the drain, one under a Goal or a compaction. A state may be in more than one, and behaviours pass from one to another.
* `interaction`: one request with everything, or two that are alive together with one client and the
  drain, which cancels both.
* `auxiliary`: a third call only while all three are being reserved.
* `recovery`: two deaths and an error over one turn with two calls, or one of them over two turns.
* `background`: two jobs without errors, or one with all of them.
* `configuration`: at most three events (`MaxEvents`) of captures, messages, crossings, failed records, live
  catalogs and allocations; a new model catalog counts twice.
* `residency`: callers begin in a fixed order, since they are alike; operations that race, that
  compete for room, or that a drain finds, in pairs; three callers that submit and delete; three that
  submit, use storage, activate by schedule and retry.

A liveness property is then checked of the behaviours that stay within `Bounded` for ever. In
`coordinator` a behaviour that leaves its mixture is cut, so each kind of work is followed to its end in the
mixture it belongs to. In `interaction`, `background`, `configuration` and `residency` what the constraint counts only grows, so it
removes whole behaviours and never the end of one that it keeps; in `auxiliary` the three calls,
and in `recovery` the second call of a second turn, are there for safety only.
Safety alone was also checked on
larger instances: without `Bounded` three operations for the lifecycle, three reporters for the gate,
two requests with one client (2.7 M states), three calls of two conversations (4.5 M), two turns with two calls
and two deaths (3.3 M), two jobs with all errors (2.7 M); and the coordinator with three messages, its mixtures wider (2.3 M).
Liveness of the coordinator was also checked without `Bounded` of two messages, a job and two errors (159 k).

Why the bounds suffice for the questions asked. Two operations are the least for
one to enter while another leaves. Three owners let two wait for one.
Three messages allow a batch of two of which one is withdrawn, with a third
accepted after selection. One correlated sender with unbounded retries covers retry after
adoption, after crash and before both. Five revisions of a Goal are a round, its completion and
a replacement with a round of its own. In the coordinator two messages and a continuation give three
attempts, enough for an attempt, its successor and work arriving between them (with a job that
reports, its message is one of the two);
three faults are exactly one more than the two retries of a cycle. Every
two kinds of foreground work that compete for the slot are together in one of the mixtures.

Two interactions let one be settled while the other is published; a second client is
needed for the race of two answers. Capacities of
two with one protected slot are the least where ordinary work and compaction meet; three
calls let one hold, one be refused and one ask. Two deaths let a recovery die
and be recovered; the third start finds two interrupted prefixes. Two turns let one be
adopted while the other waits, two calls let one tool be settled and its sibling not. Two jobs are
enough for one to hold back a round that the other's settlement releases; two refused commits
are a publication and its retry. A capture over an applied configuration, a
catalog that supersedes its candidate and a second allocation are three events. Three callers
suffice for a runtime, a retirement that a submission meets, and a deletion that fences both;
`FlightCount` was checked never to refuse a flight.

Symmetry is used for clients, bodies and writers of `inbox_and_goal`, which occur only in
equality tests, and in no run with liveness.
Deadlock checking is off where the system really may stop: a drained lifecycle, a
failed gate, a quiescent coordinator, a registry all of whose callers returned have
nothing left to do. It is on for the inbox and the Goal, whose senders never stop.

### What the properties say

Properties that share a run and a subject are conjoined under one name; the conjuncts
keep names of their own, and the theorems use them. Each module's type invariant is a
conjunct of one of its properties or a theorem.

*Lifecycle.* `AdmissionIsSafe`: `CountsAreExact` (the counters are the number of guards,
between the steps of a drop too), `QuiescentIsSilent`, `CommitsPrecedeDrain`.
`IdleClaimIsExclusive`: a claim closes admission only if nothing is active and nothing came
since the probe. `WaitersWake`: every drain ends, every shutdown returns. That the lifecycle
only moves forward (`LifecycleIsMonotone`) is proved, not run.

*Gate.* `FailureIsOrdered`: one failure, committed after its writers, one ownership writer
at a time, published once. `GateWakes`: a failure is published and no waiter is forgotten.
`WinnerIsAbsorbing` and `RequestClosesEntry` are proved, not run.

*Inbox.* `TablesAgree` relates the tables: the count is the rows, the ledger is in order,
receipts survive, terminals are whole, facts name adopted rows. `SnapshotsAreRechecked`: an
adoption takes only what was selected and an edit overwrites only what its client saw.
`DeliversInOrder` is the refinement of `InboundDelivery`. `EveryMessageOnce`, proved and not
run, partitions the numbers given so far into pending, adopted and removed.

*Goal.* `RoundsAreHonest`: rounds consumed are the rounds admitted, numbered without a gap,
never above the budget, and a continuation waits alone.

*Coordinator.* `NoStrandedWork` is the central one: whenever something is owed — a
message, a continuation, a Goal round, an armed retry — and nothing legitimately blocks it,
some thread is on its way to a pass: a permit, a thread between commit and wake, a task that
will hand over. `ClosingIsSafe`: no drain between the checks of a pass and its attempt, and
quiescence is total. `OneConversationOwner` across three kinds of foreground work and the pass;
`IdleClaimIsSafe`; `FaultsAreBounded` (with `NoStrandedWork`: retries are bounded and woken); `ObligationIsKept`; `InboundIsAnswered`; `DrainCompletes`.

*Recovery.* `RecoveryIsTruthful`: the verdict on an interrupted attempt is what its requests
and effects say, a tool result claims no more than is durable, no prefix is refused.
`OutputIsAccountedFor`: a durable terminal leaves no stream open and the carryover is
the newest unaccepted output. `NeverReplayed`; `NoTurnIsStranded`. The model also shows that the
obligation already decides resumption where `classify` looks at indeterminacy again.

*Interactions.* `RendezvousIsSound`: owner, client and durable record hear the same end, and a
quiescent runtime owes nothing. `WaitersReturn`.

*Auxiliary calls.* `BusyIsReal`: nobody is refused because of a reservation that itself
fails. `ClosedIsOver`: what a drain waited for holds no permit, admission or thread, and when the
close of a scope has returned its call is no longer reserved, submitted, running or releasing, whatever
step of the call the close overtook. `NobodyIsForgotten`.

*Background.* `JobsAreTruthful`: an executor begins only under a durable fact, a job has one
terminal and it is true. `DrainLeavesNoCallback`; `NothingIsStranded` (messages and rounds held
back by a job, as long as no receipt was lost); `DrainEnds`.

*Configuration.* `ViewIsTruthful`: what is shown as applied is retained, and run by the resident runtime;
a model catalog published to a cold Session is the exception, and then the deferral by which the next
allocation takes it up is there. `AttemptsFreezeTheReady`; `DesireSettles`; `WorkIsAdmitted`.

*Residency.* `SlotsAreTruthful`: one writer, named by its slot, and a published resident is
usable. `RetirementIsProven`: before a deletion destroys, after an unload reports, and while an
operation runs, absence or presence of the composition is a fact. `SlotsAreCounted`: the session
index and the room. `DrainIsComplete`; `EveryCallReturns`; `IntentIsServed`. The invariants
speak of behaviours in which no retry has taken a slot from its owner (`overwritten`);
what happens then is the second finding. The two liveness properties have no such condition.

## Findings

Two runs expect a violation.

`background_lost_receipt`: the retry of a terminal publication is rebuilt with a new timestamp, so after a commit that was durable but answered with an error it
conflicts with its own row, and the published job is abandoned and fails the runtime. The
comment on the retry says that it is exactly-once in that very case; `PROJECT.json` quotes both
sides. The subagent registry keeps the timestamp with its candidate and does not have the problem.

`residency_retry`: `retry_failed_initialization`
(`local_runtime/session_runtime_manager/lifecycle.rs:118-132`) asks whether a failure is retained and
not whether the slot is empty. A scheduled activation claims the empty slot of a failed submission
and leaves the failure where it is, and so does a storage command while it runs; a retry then overwrites
the slot of a live owner. In the trace a submission fails to initialize, a
scheduled activation claims the slot, and a retry claims it again: both flights compose and activate, and
the conversation has two live runtimes. `docs/runtime-residency.md:5` says "One durable `ConversationId`
has at most one writable live `ConversationRuntime` in that process", and
`docs/app-server-protocol.md:2868` says of the retry "Absent, loading and loaded owners are unchanged."
In `residency` retries meet storage commands and scheduled activations too: the
invariants hold until a slot is overwritten, and every call still returns.

Three smaller disagreements between a text and the code were met on the way. They have no run of
their own; a configuration with the constants given here shows the first two.

* *A retried acceptance wakes nobody* (`runtime/inbound.rs:1027`). When both attempts of a
  publication read the same instant, the retry is accepted as already there and sends no wake, and
  the first attempt, answered with an error, sent none either; `runtime/inbound.rs:544` says that
  "every successful acceptance notifies". `NothingIsStranded` excuses behaviours with a lost
  receipt for this reason: without its first disjunct, one job and `MaxLost = 1` violate it.
* *Protected capacity* (`runtime/auxiliary/capacity.rs:215`). A releasing call drops its general
  permit before its total permit, without the reservation mutex; another ordinary call can take
  the total slot meant for compaction, and a compaction is refused though none runs.
  `capacity.rs:135` says "without borrowing protected capacity". The window is a few instructions long, and a compaction that
  is refused does not wait. `ProtectedCapacity` with one conversation, three calls,
  `ProcessTotal = 3`, `ProcessGeneral = 2`, `ConversationTotal = 2`, `ConversationGeneral = 1`.
* *A schedule command on the cold store* (`session_runtime_manager/schedule.rs:714`) forgets the
  retained failure, so an automatic attach loads again; `docs/invariants.md:8211` says that it
  "remains a retained result until explicit recovery". The model has this step and no property forbids it.

## Fairness

Only weak fairness is used, and only for steps that the executor or the operating system
takes by itself:

* a thread that left its critical section goes on to notify, wake or publish
  (`AnnounceExit`, `Publish`, `EnqueueWakes`, `JobWakes`, `ControlWakes`);
* a guard is dropped: the operations it belongs to have deadlines or are cancelled
  by the drain (`Drop`, `DropGuard`, `EndRunningCommit`);
* a spawned task is polled (`Pass`, `WorkerWakes`, `TaskExits`, `CompactionExits`,
  `ScheduledExits`), and model calls, compactions and scheduled starts end because
  `model/deadline.rs` and their own limits end them;
* a background job is assumed to settle by itself only *while draining*, when it
  has been cancelled; a server process started by an agent may otherwise run as long
  as it likes;
* the drain supervisor proceeds, and a claim of the reaper is followed by the drain
  that `spawn_unload` starts;
* an owner of an interaction is polled, the reliable lane to a parent answers or fails,
  and a lost parent is followed by a drain;
* the consumer of an auxiliary call, its thread and a worker of the reaper pool run, and a
  request has a deadline;
* an attempt and a recovery go on, and a runtime that is down is started again; nothing is assumed of
  the number of deaths beyond its bound;
* an executor of a job returns once it is cancelled or is given up by its settlement
  plane; one that was not cancelled may run for ever;
* the configuration owner's worker, the admission worker and report tasks run; a held
  boundary is released; preparation has a deadline;
* a flight's task runs, operations of clients end, a call that was made goes on; nobody has
  to make one.

Nothing is assumed of clients, senders, reporters, reapers, storage or the catalog:
they may stop at any time. `InboundIsAnswered` therefore has to say that the model
stays available eventually, and excuses a failed store and a draining runtime.

## Proofs

TLAPS checks the following for every value of the constants that satisfies the
`ASSUME`s. They are weak: sets that are counted are finite, names are distinct, the `Max…`
bounds occur in guards only and any natural number will do. Two say more, because the code
does: `CapacityAssumption` has each general limit below its total, as in
`runtime/auxiliary/capacity.rs`, and `AdmissionAssumption` leaves every job a number for its message.

**RuntimeGuardsProofs**, the lifecycle. `LifecycleInv` strengthens the checked invariants
by what the code keeps implicitly. `BoundaryInv` says who may hold the boundary at
which step and in which state, that a total loaded by the probe is an upper bound
of the counter while the probe holds the boundary (guards leave without it but
nobody enters), and that the supervisor between its zero check and its swap sees
no admission. `EpochInv` says that an unmoved activity token means that nothing
entered. Without the first, neither quiescence nor the claim is inductive; without
the second the claim's freshness is not. Counting is isolated in lemmas on how one change of `guard` changes the
cardinality of a class of guards. Theorems: `LifecycleInvariant`,
`LifecycleTyped`, `CountersExact`, `QuiescenceSafe`, `CommitsBeforeDrain`,
`AdmissionSafe` (the three together, as the run checks them), `IdleClaimSafe`,
`LifecycleForward`.

**RuntimeGuardsProofs**, the durability gate. `GateInv` = types, `FlagsInv` (the two flags mean exactly
that a writer is inside), `FactInv` (a request exists only behind a writer, a
committed failure excludes both flags and requests), `OutboxInv` (one actor at
most carries the failure to the publisher and nobody published before it).
Theorems: `GateInvariant`, `GateTyped`, `FailureAfterWriters`,
`OwnershipExclusive`, `SinglePublication`, `FailureOrdered` (the three together),
`AbsorbingWinner`, `ClosedOnceRequested`.

**PendingInboxProofs.** `InboxInv` adds to the checked invariants: correlation rows
are unique by key and point to a row that a client cannot remove, or to the ledger
(`CorrelationInv`, the reason receipts survive); batch numbers stay below
the number of adoption facts (`BatchInv`); whatever is pending under a selected
watermark was selected (`SelectionInv`: numbers only grow, so nothing can slip
under a watermark); a client's view is never ahead of the row, and tells its text
while the revisions agree (`ViewInv`). The proof goes through four summaries of
what a transaction does to the tables and then one case per action. Theorems:
`InboxInvariant`, `InboxTyped`, `MessageOnce`, `LedgerOrdered`, `CountExact`,
`TerminalsWhole`, `ReceiptsKept`, `FactsAdopted`, `TablesConsistent` (these together),
`AdoptsSelected`, `EditsSeen`, `SnapshotsSafe` (the two together), and
`ImplementsDelivery`, the refinement of `InboundDelivery`.

The same module proves the composition with `GoalRounds`. `GoalImplementsInbox` shows that
every step of the composed store is a step of the inbox or leaves it alone, so
`GoalTablesConsistent`, `GoalSnapshotsSafe` and `GoalImplementsDelivery` follow from what is
proved of the inbox. `RoundsAlwaysHonest` needs `RoundsInv`: revisions
only grow and a Goal takes its id from one that no round has seen, so the rounds of an earlier
Goal are never counted for its successor.

**AttemptAdmissionProofs.** `AdmissionInv` has eight parts. `ThreadInv`: the steps each kind of
thread may be in, and that attempts start in order. `OwnerInv`: one thread owns the
conversation, the slot names it, and what a pass checked under the coordinator's lock stays
true while it holds it. `CountInv`: an attempt uses up a message or the recovered turn, and a
job that has not spoken has a number set aside; this is why numbers never run out. `FaultInv`:
while nothing failed for good, the errors of a cycle are the retries it used. `DrainInv`: what
each wait of the supervisor established stays so. `ProbeInv`: what the reaper saw holds while
its epoch is current. `WorkInv` strengthens `NoStrandedWork`: a job that has woken the
coordinator and has not settled its record is work too, since the pass will wait for its lock;
without that the step by which it settles could strand it. Theorems: `AdmissionInvariant`,
`NoWorkIsEverStranded`, `ClosingIsAlwaysSafe`, `ConversationHasOneOwner`,
`FaultsAreAlwaysBounded`, `IdleClaimIsAlwaysSafe`, `ObligationIsAlwaysKept`.

**InteractionRendezvousProofs.** `RendezvousInv`: a request is in one place (`PlaceInv`); the
settled fact is what is being delivered, was sent and was received (`FactInv`); what clients
asked and what is delivered in their name agree (`DeliveryInv`, `AnswerInv`); and each
admission belongs to a pending or orphaned request or to a payload that has not given back its
own (`AdmissionsInv`, which makes quiescence mean that nothing is left). Theorems:
`RendezvousInvariant`, `RendezvousIsAlwaysSound`, `FirstAnswerAlwaysStands`.

**RuntimeGuardsProofs**, the auxiliary calls. `AuxInv`: the mutex and the commit boundary name who is inside
(`MutexInv`, `CommitInv`), registry, scope and lifecycle count the calls that have reached them
and not left (`RegistryInv`), what is held at each step (`HeldInv`), and what a drain waited for
does not come back (`DrainInv`). `ScopeInv` does the same for a scope: it is cancelled before it is
waited for, so no call enters it after the wait has seen it empty. `CapacityInv` counts the holders of each permit and rests on
lemmas about one call taking or returning one. Theorems: `AuxInvariant`, `BusyIsAlwaysReal`,
`ClosedIsAlwaysOver`, and `LimitsAreAlwaysHonoured`, which is proved and not run.

**BackgroundRegistryProofs.** `RegistryInv`: the runner of a dispatch under way is parked
(`DispatchInv`), past its second look the supervisor left no job that could be awaited
(`PhaseInv`), record, result and candidate by the step of the runner (`RecordInv`), and the
notice is the one the record names (`NoticeInv`). `NothingIsStranded` is inductive together with
them. Theorems: `RegistryInvariant`, `JobsAreAlwaysTruthful`, `DrainAlwaysLeavesNoCallback`,
`NothingIsEverStranded`.

**CrashRecoveryProofs.** The argument is that a death leaves little to be uncertain about.
`RecoveryInv` says: at most the newest attempt is open, and it is the one that runs or that the
recovery settles (`OpenInv`); only its newest request may be unsettled, and every call belongs to
an accepted message (`RowInv`); how far the attempt is with that request (`LiveInv`, `StartedInv`);
the fold tells it truly (`EvidenceInv`); the calls without a result are those of one message
and the repair map says how far each came (`CallInv`); what the attempt's summary keeps of its
tools after their details were released (`ToolInv`: irreversible exactly if a call whose outcome
is unknown has its result); a plan is what is left to settle, so committing one part of it and
dying leaves the plan of the next recovery (`PlanInv`); and what a concluded attempt carries over
(`CarryInv`). `CountInv` pays for each attempt with a turn, a death or an error, which is
what keeps the identities within their sets. `VerdictIsTruthful` and `ResultInv` are then
inductive. Theorems: `RecoveryInvariant`, `RecoveryIsAlwaysTruthful`,
`OutputIsAlwaysAccountedFor`, `NothingIsEverReplayed`.

**SessionResidencyProofs.** `ResidencyInv` ties the registry to the tasks that own its slots.
`SlotInv` and `FlightInv` say, from both ends, which flight a slot names in each phase and at which
step that flight may be; a flight that holds a composition is named by its slot, which is why a
conversation has one writer. `IndexInv` and `RoomInv` are the session index and the room
held by residents and by creations on their way, `ExistInv` and `CallInv` what each caller waits
for, and `OpsInv` that a runtime counts exactly the operations it admitted. `DeleteInv` says that what a deletion
has ticked off does not come back: the fence it set under the registry's lock refuses every new claim, and
a restart looks at the fence under the lock that frees the slot. `UsableInv` finds somebody
responsible for each loaded runtime that can no longer be used, and `DrainInv` says what the last pass of the
drain has reached. Theorems: `ResidencyInvariant`, `SlotsTellTheTruth`, `SlotsStayCounted`,
`DrainLeavesNothing`, `RetirementsAreProven`.

They hold of every behaviour up to a retry that takes a slot from its owner (`lifecycle.rs:120`, the second
finding): `ResidencyInvariant` is `Spec => [](overwritten = {} => ResidencyInv)`, with `overwritten` the history variable
that `Retry` writes and nothing else reads. Past that point `SlotInv` is false of the code,
as `residency_retry` shows. `RetriesAloneMeetEmptySlots` says for whom that point is never reached: for callers
that never retry, and for callers that make neither scheduled activations nor storage commands, since nothing
else claims a slot past a retained failure. There `overwritten` stays empty and the invariants are
unconditional.

**ConfigurationCommitProofs.** `ConfigurationInv` follows the desired application through the
owner, its worker and the runtime. No identity is ahead of the desired one (`IdentitiesOK`); the desired
one is queued, taken by the worker, staged or in a report, and never in two of them (`OnePlace`); a staged
candidate of it carries the current input, a report of its commit means that the input is retained, and once
the owner calls it applied or uncertain it is in none of these places (`Truth`). Its model catalog may be
decided earlier, while the rest is still under way: it is then retained, or a deferral waits for the next
allocation, and an attached allocation leaves no such catalog waiting (`CatalogDecided`,
`AttachedOK`). Without `OnePlace` a second report could overrule the first one. `AllocationInv`: the runtime runs what its Session
retains, an allocation that could not record a commit has failed, and the owner knows the allocation it is attached
to. The commit itself is summarised once by `CommitOutcomes`: it waits, drops the candidate or
installs it. Theorems: `ConfigurationInvariant`, `ViewsAreTruthful`, `AttemptsFreezeReady`. The last is an
action property: its proof reads off the admission what it looked at, and shows that no other
step starts an Attempt.

Only model-checked, since fairness is out of this prover's reach: the liveness properties
`WaitersWake`, `GateWakes`, `InboundIsAnswered`, `DrainCompletes`, `WaitersReturn`,
`NobodyIsForgotten`, `NoTurnIsStranded`, `DrainEnds`, `DesireSettles`, `WorkIsAdmitted`,
`EveryCallReturns` and `IntentIsServed`. Every invariant and every action property of a passing run
is a theorem.

## What is left out

* *Data*: message texts beyond one body, display tables, transcript cursors,
  message identities other than the number (so `DuplicateMessageId` cannot occur),
  exhaustion of 64-bit sequences.
* *Errors after a durable commit* in the inbox and coordinator modules, where a storage
  error aborts its transaction. They are a part of `BackgroundRegistry`.
* *In the coordinator*: permits of a parent's turns and the guidance seal, the subagent
  registry, one-shot cancellation; in the drain, capability and MCP processes, subagents
  and the title task. Staged configurations, interactions and auxiliary calls have modules of
  their own, in which the coordinator is reduced to what they need of it; the composition of
  all of them is not checked as a whole.
* *Whole components*: see `PROJECT.json`.

## Plan

Done: lifecycle, gate, inbox with its refinement, Goal, coordinator; recovery with
publication, interactions, auxiliary calls, background registry, configuration, residency; all
their invariants and action properties are proved.
Next, in this order:

1. `SubagentRegistry`: settlement of a child over its terminal candidate, against
   `BackgroundRegistry`, whose timestamp slip it avoids.
2. `ScheduleDriver`: generations of the index against those of the store, claims of due
   starts, with the storage flights of `SessionResidency`.
3. Recovery of a committed deletion and ownership across processes.
4. An abstraction of `BackgroundRegistry` in place of the jobs of `AttemptAdmission`.
5. Checkpoint and delta delivery to clients; the workflow engine.

## Reproducing

In this directory, `tlc -workers 2 -config MCGoal.cfg MCGoal` runs one
configuration (`PROJECT.json` pairs modules and files) and
`tlapm PendingInboxProofs.tla` checks one module of proofs. The longest run takes
about four minutes, the longest module of proofs (`SessionResidencyProofs`) more than ten.
