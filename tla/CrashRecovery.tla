---------------------------- MODULE CrashRecovery ----------------------------
(***************************************************************************)
(* What an attempt writes before and after each external effect            *)
(* (src/src/agent/execution), the publication rows of its model output     *)
(* (src/src/durable/sqlite/publication.rs), and the recovery that reads    *)
(* the prefix a dead process left (src/src/runtime/recovery.rs).           *)
(*                                                                         *)
(* Every commit is a step of its own and the process may die between any   *)
(* two of them, those of the recovery included.  evidence is the fold of   *)
(* the journal written so far: reconstruct computes it again at every      *)
(* start from the same events in the same order.  A terminal of a live     *)
(* attempt is one kind: completed, cancelled and failed all conclude the   *)
(* turn.                                                                   *)
(***************************************************************************)
EXTENDS Naturals, FiniteSets

CONSTANTS
    Turns,          \* 1..n: the user turns producers submit
    Calls,          \* tool call ids; a model uses them again in every message
    ToolSteps,      \* the steps of an attempt in which the model calls tools
    MaxRetries,     \* requests of one logical step beyond the first
    MaxCrashes, MaxFaults,
    None

ASSUME RecoveryAssumption ==
    /\ Turns \subseteq Nat /\ IsFiniteSet(Turns)
    /\ {ToolSteps, MaxRetries, MaxCrashes, MaxFaults} \subseteq Nat

Attempts == 1 .. (Cardinality(Turns) + MaxCrashes + MaxFaults)
Steps == 1 .. (ToolSteps + Cardinality(Turns) + 1)
\* RequestIdentity; it also names the request's provisional message and its stream
Requests == Attempts \X Steps \X (0 .. MaxRetries)
Occurrences == Requests \X Calls

ASSUME NoneAssumption == None \notin Requests \cup Attempts

VARIABLES
    turn,         \* each turn: pending and adopted are durable, the other two say what became of it
    evidence,     \* RecoveryEvidence: the fold of the journal
    outcome,      \* the started requests and their durable outcome
    streams,      \* publication_streams
    results,      \* the tool calls of canonical messages and the result each has
    effects,      \* what really happened to each call, recorded: its outcome is durable
    carryover,    \* pending_unresolved_output_stream_id
    phase,        \* what the process does
    live,         \* the attempt it runs
    plan,         \* RecoveryPlan, less what has been committed of it
    continuation, \* recovered_continuation
    crashes, faults

durable == <<turn, evidence, outcome, streams, results, carryover>>
process == <<phase, live, plan, continuation>>
vars == <<durable, effects, process, crashes, faults>>

With(f, k, v) == [x \in DOMAIN f \cup {k} |-> IF x = k THEN v ELSE f[x]]
WithAll(f, K, v) == [x \in DOMAIN f \cup K |-> IF x \in K THEN v ELSE f[x]]

NotOpen == [open |-> FALSE, request |-> "never", tools |-> "never", last |-> None, accepted |-> None]
NoAttempt == [at |-> "none", id |-> <<0, 0, 0>>, started |-> {}, tools |-> FALSE, unresolved |-> FALSE, failed |-> FALSE]
NoPlan == [publications |-> {}, repairs |-> [o \in {} |-> None], class |-> "settled", attempt |-> None,
           last |-> None, accepted |-> None, resume |-> FALSE]

Entries == [open : BOOLEAN, request : {"never", "unknown", "known"},
            tools : {"never", "known", "outstanding", "irreversible"},
            last : Requests \cup {None}, accepted : Requests \cup {None}]
RecoveryEvidence == [attempts : [Attempts -> Entries], obligation : BOOLEAN,
                     repairs : [Attempts \X Calls -> {"none", "unknown", "known"}],
                     highest : Attempts \cup {0}]
Rows == [terminal : BOOLEAN, output : BOOLEAN,
         settlement : {"none", "incomplete", "unaccepted", "canonical"}]
Places == {"starting", "turn", "streaming", "failed", "retrying", "completed", "published",
           "tools", "settling", "boundary", "ending"}

DurableTypeOK ==
    /\ turn \in [Turns -> {"none", "pending", "adopted", "carried", "decided"}]
    /\ evidence \in RecoveryEvidence
    /\ DOMAIN outcome \subseteq Requests
    /\ outcome \in [DOMAIN outcome -> {"started", "failed", "completed"}]
    /\ DOMAIN streams \subseteq DOMAIN outcome
    /\ streams \in [DOMAIN streams -> Rows]
    /\ DOMAIN results \subseteq Occurrences
    /\ results \in [DOMAIN results -> {"missing", "not_run", "known", "unknown"}]
    /\ carryover \in Requests \cup {None}

ProcessTypeOK ==
    /\ DOMAIN effects \subseteq DOMAIN results
    /\ effects \in [DOMAIN effects -> {"announced", "running", "ended", "recorded"}]
    /\ phase \in {"down", "recovering", "refused", "idle", "attempt", "blocked"}
    /\ live \in [at : Places \cup {"none"},
                 id : (Attempts \cup {0}) \X (Steps \cup {0}) \X (0 .. MaxRetries),
                 started : SUBSET Calls, tools : BOOLEAN, unresolved : BOOLEAN, failed : BOOLEAN]
    /\ continuation \in BOOLEAN
    /\ crashes \in 0 .. MaxCrashes /\ faults \in 0 .. MaxFaults

PlanTypeOK ==
    /\ DOMAIN plan = DOMAIN NoPlan
    /\ plan.publications \subseteq Requests
    /\ DOMAIN plan.repairs \subseteq Occurrences
    /\ plan.repairs \in [DOMAIN plan.repairs -> {"not_run", "known", "unknown"}]
    /\ plan.class \in {"settled", "indeterminate", "clean", "known"}
    /\ plan.attempt \in Attempts \cup {None}
    /\ {plan.last, plan.accepted} \subseteq Requests \cup {None}
    /\ plan.resume \in BOOLEAN

TypeOK == DurableTypeOK /\ ProcessTypeOK /\ PlanTypeOK

Init ==
    /\ turn = [t \in Turns |-> "none"]
    /\ evidence = [attempts |-> [a \in Attempts |-> NotOpen], obligation |-> FALSE,
                   repairs |-> [k \in Attempts \X Calls |-> "none"], highest |-> 0]
    /\ outcome = [r \in {} |-> None]
    /\ streams = [r \in {} |-> None]
    /\ results = [o \in {} |-> None]
    /\ effects = [o \in {} |-> None]
    /\ carryover = None
    /\ phase = "down" /\ live = NoAttempt /\ plan = NoPlan /\ continuation = FALSE
    /\ crashes = 0 /\ faults = 0

-----------------------------------------------------------------------------
(* RecoveryEvidence::fold, one operator per event that it tells apart.      *)

OpenAttempts(ev) == {a \in Attempts : ev.attempts[a].open}

\* evidence about an attempt is kept only while it has no terminal
Revise(ev, a, entry) == IF ev.attempts[a].open THEN [ev EXCEPT !.attempts[a] = entry] ELSE ev

FoldAttemptStarted(ev, a) ==
    [ev EXCEPT !.attempts[a] = [NotOpen EXCEPT !.open = TRUE], !.highest = a]

\* The adoption opens an answer obligation and begins a new logical step.
FoldAdopted(ev) ==
    [ev EXCEPT !.obligation = TRUE,
               !.attempts = [a \in Attempts |-> [ev.attempts[a] EXCEPT !.last = None]]]

\* mutant: the terminal written by a recovery concludes the turn too
Mut_EveryTerminalDecides(restartInterrupted) == TRUE
\* The terminal written by a recovery concludes the attempt, not the turn.
DecidesTheTurn(restartInterrupted) == ~restartInterrupted
FoldTerminal(ev, a, restartInterrupted) ==
    [ev EXCEPT !.attempts[a] = NotOpen,
               !.obligation = @ /\ ~DecidesTheTurn(restartInterrupted),
               !.highest = IF a > @ THEN a ELSE @]

\* mutant: a started request leaves the answer obligation open
Mut_ObligationSurvives(ev, r) ==
    Revise(ev, r[1], [ev.attempts[r[1]] EXCEPT !.request = "unknown", !.last = r])
FoldRequestStarted(ev, r) ==
    Revise([ev EXCEPT !.obligation = FALSE], r[1],
           [ev.attempts[r[1]] EXCEPT !.request = "unknown", !.last = r])
FoldRequestSettled(ev, r) == Revise(ev, r[1], [ev.attempts[r[1]] EXCEPT !.request = "known"])
FoldAssistant(ev, r) == Revise(ev, r[1], [ev.attempts[r[1]] EXCEPT !.accepted = r])

FoldToolStarted(ev, a, c) ==
    LET tools == IF ev.attempts[a].tools = "irreversible" THEN "irreversible" ELSE "outstanding"
    IN Revise([ev EXCEPT !.repairs[<<a, c>>] = "unknown"], a, [ev.attempts[a] EXCEPT !.tools = tools])

\* note_known_tool_outcome looks at what else of the attempt is unknown
FoldToolCompleted(ev, a, c) ==
    LET repairs == [ev.repairs EXCEPT ![<<a, c>>] = "known"]
        tools == IF ev.attempts[a].tools = "irreversible" THEN "irreversible"
                 ELSE IF \E d \in Calls : repairs[<<a, d>>] = "unknown" THEN "outstanding" ELSE "known"
    IN Revise([ev EXCEPT !.repairs = repairs], a, [ev.attempts[a] EXCEPT !.tools = tools])

\* mutant: with the evidence of the call the attempt forgets that its outcome is unknown
Mut_RepairMakesKnown(ev, a, C) ==
    LET repairs == [k \in Attempts \X Calls |-> IF k[1] = a /\ k[2] \in C THEN "none" ELSE ev.repairs[k]]
    IN Revise([ev EXCEPT !.repairs = repairs], a, [ev.attempts[a] EXCEPT !.tools = IF @ = "never" THEN @ ELSE "known"])
\* A canonical result releases the call's evidence.  A call whose outcome was unknown
\* until then can never become known, and its attempt keeps that.
FoldResults(ev, a, C) ==
    LET unknown == \E c \in C : ev.repairs[<<a, c>>] = "unknown"
        tools == IF unknown THEN "irreversible" ELSE ev.attempts[a].tools
        repairs == [k \in Attempts \X Calls |-> IF k[1] = a /\ k[2] \in C THEN "none" ELSE ev.repairs[k]]
    IN Revise([ev EXCEPT !.repairs = repairs], a, [ev.attempts[a] EXCEPT !.tools = tools])

-----------------------------------------------------------------------------
(* Publication rows.                                                        *)

Missing == {o \in DOMAIN results : results[o] = "missing"}
Unsettled == {r \in DOMAIN streams : streams[r].settlement = "none"}

\* The kind of an audit follows from the durable rows alone.
AuditKind(r) == IF streams[r].terminal THEN "unaccepted" ELSE "incomplete"
AuditRefused(r) ==
    \/ streams[r].settlement # "none"
    \/ streams[r].terminal /\ outcome[r] # "completed"
    \/ \E c \in Calls : <<r, c>> \in DOMAIN effects
Audited(r) == [streams EXCEPT ![r].settlement = AuditKind(r)]

\* select_unresolved_output_source: the newest audit of the step that released output
Carriable(r) == {n \in 0 .. r[3] :
    LET q == <<r[1], r[2], n>>
    IN q \in DOMAIN streams /\ streams[q].settlement \in {"incomplete", "unaccepted"} /\ streams[q].output}
UnresolvedOutputSource(r) ==
    IF Carriable(r) = {} THEN None
    ELSE <<r[1], r[2], CHOOSE n \in Carriable(r) : \A m \in Carriable(r) : m <= n>>

-----------------------------------------------------------------------------
(* The inbox and admission.                                                 *)

Accept(t) ==
    /\ phase \in {"idle", "attempt"}
    /\ turn[t] = "none"
    /\ \A u \in Turns : u < t => turn[u] # "none"
    /\ turn' = [turn EXCEPT ![t] = "pending"]
    /\ UNCHANGED <<evidence, outcome, streams, results, effects, carryover, process, crashes, faults>>

Pending == {t \in Turns : turn[t] = "pending"}
Adopted == [t \in Turns |-> IF turn[t] = "pending" THEN "adopted" ELSE turn[t]]

BeginAttempt ==
    /\ phase' = "attempt"
    /\ live' = [NoAttempt EXCEPT !.at = "starting", !.id = <<evidence.highest + 1, 0, 0>>]
    /\ continuation' = FALSE

\* A fresh batch subsumes the recovered continuation.
AdmitNextAttempt ==
    /\ phase = "idle"
    /\ Pending # {}
    /\ turn' = Adopted
    /\ evidence' = FoldAdopted(evidence)
    /\ BeginAttempt
    /\ UNCHANGED <<outcome, streams, results, effects, carryover, plan, crashes, faults>>

AdmitContinuation ==
    /\ phase = "idle"
    /\ Pending = {}
    /\ continuation
    /\ BeginAttempt
    /\ UNCHANGED <<durable, effects, plan, crashes, faults>>

-----------------------------------------------------------------------------
(* One attempt.                                                             *)

At(where) == phase = "attempt" /\ live.at = where
Goto(where) == live' = [live EXCEPT !.at = where]
ControlUnchanged == UNCHANGED <<phase, plan, continuation, crashes, faults>>
Ours == {o \in DOMAIN results : o[1] = live.id}
Ran(kinds) == {c \in live.started : effects[<<live.id, c>>] \in kinds}

\* No operation reads a settled row of an earlier attempt again.  The model forgets such
\* rows when the next attempt starts, so that states differ only by what can matter.
Kept == {r \in DOMAIN outcome : r \in Unsettled \/ \E o \in Missing : o[1] = r}
KeepOnly(f, K) == [x \in DOMAIN f \cap K |-> f[x]]

AttemptStarted ==
    /\ At("starting")
    /\ evidence' = FoldAttemptStarted(evidence, live.id[1])
    /\ Goto("turn")
    /\ outcome' = KeepOnly(outcome, Kept) /\ streams' = KeepOnly(streams, Kept)
    /\ results' = KeepOnly(results, Kept \X Calls) /\ effects' = KeepOnly(effects, Kept \X Calls)
    /\ UNCHANGED <<turn, carryover>> /\ ControlUnchanged

\* Cancellation before a turn or during its preparation, a rejected step, a failed
\* preparation; also a failed request without a retry, a rejected preflight, and
\* cancellation at a boundary.
Conclude ==
    /\ live.at \in {"turn", "failed", "retrying", "published", "boundary"}
    /\ phase = "attempt"
    /\ Goto("ending")
    /\ UNCHANGED <<durable, effects>> /\ ControlUnchanged

\* commit_model_turn_start; the first request of a step consumes the carryover
StartRequest(r) ==
    /\ outcome' = With(outcome, r, "started")
    /\ evidence' = FoldRequestStarted(evidence, r)
    /\ turn' = [t \in Turns |-> IF turn[t] = "adopted" THEN "carried" ELSE turn[t]]
    /\ carryover' = IF r[3] = 0 THEN None ELSE carryover
    /\ live' = [live EXCEPT !.at = "streaming", !.id = r, !.unresolved = TRUE, !.started = {}]
    /\ UNCHANGED <<streams, results, effects>> /\ ControlUnchanged

StartTurn ==
    /\ At("turn")
    /\ StartRequest(<<live.id[1], live.id[2] + 1, 0>>)

OpenPublication ==
    /\ At("streaming")
    /\ live.id \notin DOMAIN streams
    /\ streams' = With(streams, live.id, [terminal |-> FALSE, settlement |-> "none", output |-> FALSE])
    /\ UNCHANGED <<turn, evidence, outcome, results, effects, carryover, live>> /\ ControlUnchanged

StagePublication ==
    /\ At("streaming")
    /\ live.id \in DOMAIN streams
    /\ ~streams[live.id].output
    /\ streams' = [streams EXCEPT ![live.id].output = TRUE]
    /\ UNCHANGED <<turn, evidence, outcome, results, effects, carryover, live>> /\ ControlUnchanged

\* Cancelled while streaming, or the stream broke its contract: no outcome is written.
AbandonStream ==
    /\ At("streaming")
    /\ live' = [live EXCEPT !.at = "ending"]
    /\ UNCHANGED <<durable, effects>> /\ ControlUnchanged

SettleRequest(how, next) ==
    /\ outcome' = [outcome EXCEPT ![live.id] = how]
    /\ evidence' = FoldRequestSettled(evidence, live.id)
    /\ Goto(next)
    /\ UNCHANGED <<turn, streams, results, effects, carryover>> /\ ControlUnchanged

RequestFailed ==
    /\ At("streaming")
    /\ SettleRequest("failed", "failed")

\* P
RequestCompleted ==
    /\ At("streaming")
    /\ live.id \in DOMAIN streams
    /\ SettleRequest("completed", "completed")

\* A retry settles the abandoned stream before it starts.
ScheduleRetry ==
    /\ At("failed")
    /\ live.id[3] < MaxRetries
    /\ streams' = IF live.id \in Unsettled THEN Audited(live.id) ELSE streams
    /\ Goto("retrying")
    /\ UNCHANGED <<turn, evidence, outcome, results, effects, carryover>> /\ ControlUnchanged

Retry ==
    /\ At("retrying")
    /\ StartRequest(<<live.id[1], live.id[2], live.id[3] + 1>>)

\* U, refused without P
CommitPublicationTerminal ==
    /\ At("completed")
    /\ outcome[live.id] = "completed" /\ ~streams[live.id].terminal
    /\ streams' = [streams EXCEPT ![live.id].terminal = TRUE]
    /\ Goto("published")
    /\ UNCHANGED <<turn, evidence, outcome, results, effects, carryover>> /\ ControlUnchanged

\* C, refused without U and P and once the stream is settled
CommitAssistantMessage ==
    /\ At("published")
    /\ streams[live.id].terminal /\ outcome[live.id] = "completed" /\ live.id \in Unsettled
    /\ \E C \in SUBSET Calls :
         /\ live.id[2] > ToolSteps => C = {}
         /\ results' = WithAll(results, {live.id} \X C, "missing")
         /\ live' = [live EXCEPT !.at = IF C = {} THEN "boundary" ELSE "tools",
                                 !.unresolved = FALSE, !.tools = C # {}]
    /\ streams' = [streams EXCEPT ![live.id].settlement = "canonical"]
    /\ evidence' = FoldAssistant(evidence, live.id)
    /\ UNCHANGED <<turn, outcome, effects, carryover>> /\ ControlUnchanged

\* The start fact of a call precedes its executor.  The calls of a parallel group are
\* all announced before any executor of it runs.
ToolStarted(c) ==
    /\ At("tools")
    /\ <<live.id, c>> \in Ours
    /\ c \notin live.started
    /\ Ran({"running"}) = {}
    /\ live' = [live EXCEPT !.started = @ \cup {c}]
    /\ effects' = With(effects, <<live.id, c>>, "announced")
    /\ evidence' = FoldToolStarted(evidence, live.id[1], c)
    /\ UNCHANGED <<turn, outcome, streams, results, carryover>> /\ ControlUnchanged

RunExecutors ==
    /\ At("tools")
    /\ Ran({"announced"}) # {}
    /\ effects' = [o \in DOMAIN effects |->
         IF o[1] = live.id /\ effects[o] = "announced" THEN "running" ELSE effects[o]]
    /\ UNCHANGED <<durable, live>> /\ ControlUnchanged

ExecutorEnds(c) ==
    /\ At("tools")
    /\ c \in Ran({"running"})
    /\ effects' = [effects EXCEPT ![<<live.id, c>>] = "ended"]
    /\ UNCHANGED <<durable, live>> /\ ControlUnchanged

\* Every call has a result slot: of its executor, of a rejection, or of cancellation.
ToolsSettled ==
    /\ At("tools")
    /\ Ran({"announced", "running"}) = {}
    /\ Goto("settling")
    /\ UNCHANGED <<durable, effects>> /\ ControlUnchanged

\* The interaction channel was lost: the attempt fails and writes no result.
InteractionFailed ==
    /\ At("tools")
    /\ Ran({"announced", "running"}) = {}
    /\ Goto("ending")
    /\ UNCHANGED <<durable, effects>> /\ ControlUnchanged

ToolCompleted(c) ==
    /\ At("settling")
    /\ c \in Ran({"ended"})
    /\ effects' = [effects EXCEPT ![<<live.id, c>>] = "recorded"]
    /\ evidence' = FoldToolCompleted(evidence, live.id[1], c)
    /\ UNCHANGED <<turn, outcome, streams, results, carryover, live>> /\ ControlUnchanged

CommitToolResults ==
    /\ At("settling")
    /\ Ran({"ended"}) = {}
    /\ results' = [o \in DOMAIN results |->
         IF o[1] # live.id THEN results[o] ELSE IF o[2] \in live.started THEN "known" ELSE "not_run"]
    /\ evidence' = FoldResults(evidence, live.id[1], {o[2] : o \in Ours})
    /\ Goto("boundary")
    /\ UNCHANGED <<turn, outcome, streams, effects, carryover>> /\ ControlUnchanged

\* safe_boundary_drain: adopt what is pending, else continue a tool turn, else complete
SafeBoundary ==
    /\ At("boundary")
    /\ turn' = Adopted
    /\ evidence' = IF Pending # {} THEN FoldAdopted(evidence) ELSE evidence
    /\ Goto(IF Pending # {} \/ live.tools THEN "turn" ELSE "ending")
    /\ UNCHANGED <<outcome, streams, results, effects, carryover>> /\ ControlUnchanged

\* run_turn leaves no stream unsettled behind it.
SettleAudit ==
    /\ At("ending")
    /\ live.id \in Unsettled
    /\ streams' = Audited(live.id)
    /\ UNCHANGED <<turn, evidence, outcome, results, effects, carryover, live>> /\ ControlUnchanged

\* The attempt's task is over; the coordinator admits nothing after a failed commit or
\* in front of a tool call without a result.
LeaveAttempt(failed) ==
    /\ phase' = IF failed \/ Missing # {} THEN "blocked" ELSE "idle"
    /\ live' = NoAttempt
    /\ UNCHANGED <<plan, continuation, crashes>>

EmitTerminal ==
    /\ At("ending")
    /\ live.id \notin Unsettled
    /\ evidence' = FoldTerminal(evidence, live.id[1], FALSE)
    /\ turn' = [t \in Turns |-> IF turn[t] = "adopted" THEN "decided" ELSE turn[t]]
    /\ carryover' = IF live.unresolved THEN UnresolvedOutputSource(live.id) ELSE carryover
    /\ LeaveAttempt(live.failed)
    /\ UNCHANGED <<outcome, streams, results, effects, faults>>

\* A commit of the attempt fails: it ends as failed.
CommitFails ==
    /\ phase = "attempt"
    /\ faults < MaxFaults
    /\ faults' = faults + 1
    /\ live.at \notin {"ending", "failed"}
    /\ live.at = "tools" => Ran({"running"}) = {}
    /\ live' = [live EXCEPT !.at = "ending", !.failed = TRUE]
    /\ UNCHANGED <<durable, effects, phase, plan, continuation, crashes>>

\* The audit or the terminal cannot be written: the terminal stays absent for recovery.
SettlementFails ==
    /\ phase = "attempt"
    /\ faults < MaxFaults
    /\ faults' = faults + 1
    /\ \/ live.at = "ending"
       \/ live.at = "failed" /\ live.id \in Unsettled
    /\ LeaveAttempt(TRUE)
    /\ UNCHANGED <<durable, effects>>

-----------------------------------------------------------------------------
(* Process death and recovery.                                              *)

Die ==
    /\ phase' = "down"
    /\ live' = NoAttempt /\ plan' = NoPlan /\ continuation' = FALSE
    /\ UNCHANGED <<durable, effects>>

Crash ==
    /\ phase # "down"
    /\ crashes < MaxCrashes
    /\ crashes' = crashes + 1
    /\ Die
    /\ UNCHANGED faults

\* A runtime that admits nothing more is shut down.
Shutdown ==
    /\ phase = "blocked"
    /\ Die
    /\ UNCHANGED <<crashes, faults>>

ClassifyAttempt(ev, a) ==
    CASE ev.attempts[a].request = "unknown" -> "indeterminate"
      [] ev.attempts[a].request # "unknown" /\ ev.attempts[a].tools \in {"outstanding", "irreversible"} -> "indeterminate"
      [] /\ ev.attempts[a].request = "never" /\ ev.attempts[a].tools = "never"
         /\ \A c \in Calls : ev.repairs[<<a, c>>] = "none" -> "clean"
      [] OTHER -> "known"

\* The result a call without one receives says only what is durable.
PlannedResult(ev, o) ==
    CASE ev.repairs[<<o[1][1], o[2]>>] = "unknown" -> "unknown"
      [] ev.repairs[<<o[1][1], o[2]>>] = "known" -> "known"
      [] ev.repairs[<<o[1][1], o[2]>>] = "none" -> "not_run"

Classify(ev) ==
    LET interrupted == IF OpenAttempts(ev) = {} THEN None ELSE CHOOSE a \in OpenAttempts(ev) : TRUE
        class == IF interrupted = None THEN "settled" ELSE ClassifyAttempt(ev, interrupted)
    IN [publications |-> Unsettled,
        repairs |-> [o \in Missing |-> PlannedResult(ev, o)],
        class |-> class,
        attempt |-> interrupted,
        last |-> IF interrupted = None THEN None ELSE ev.attempts[interrupted].last,
        accepted |-> IF interrupted = None THEN None ELSE ev.attempts[interrupted].accepted,
        resume |-> class # "indeterminate" /\ ev.obligation]

\* Startup: the evidence is read and classified; two open attempts are refused.
Restart ==
    /\ phase = "down"
    /\ plan' = Classify(evidence)
    /\ phase' = IF Cardinality(OpenAttempts(evidence)) > 1 THEN "refused" ELSE "recovering"
    /\ UNCHANGED <<durable, effects, live, continuation, crashes, faults>>

Recovering == phase = "recovering"
RecoveryUnchanged == UNCHANGED <<turn, outcome, effects, live, continuation, crashes, faults>>

TerminalizePublication ==
    /\ Recovering
    /\ \E r \in plan.publications :
         IF AuditRefused(r)
         THEN phase' = "refused" /\ UNCHANGED <<streams, plan>>
         ELSE /\ streams' = Audited(r)
              /\ plan' = [plan EXCEPT !.publications = @ \ {r}]
              /\ UNCHANGED phase
    /\ UNCHANGED <<evidence, results, carryover>> /\ RecoveryUnchanged

\* One batch per message, all of its missing results or none.
RepairToolTurn ==
    /\ Recovering
    /\ plan.publications = {}
    /\ \E m \in {o[1] : o \in DOMAIN plan.repairs} :
         LET batch == {o \in DOMAIN plan.repairs : o[1] = m}
         IN /\ results' = [o \in DOMAIN results |-> IF o \in batch THEN plan.repairs[o] ELSE results[o]]
            /\ evidence' = FoldResults(evidence, m[1], {o[2] : o \in batch})
            /\ plan' = [plan EXCEPT !.repairs = [o \in DOMAIN @ \ batch |-> @[o]]]
    /\ UNCHANGED <<streams, carryover, phase>> /\ RecoveryUnchanged

\* mutant: the attempt is settled before its publication is
Mut_AttemptBeforePublication ==
    /\ Recovering
    /\ plan.attempt # None
    /\ evidence' = FoldTerminal(evidence, plan.attempt, TRUE)
    /\ carryover' = CASE plan.last = None -> carryover
                      [] plan.last # None /\ plan.accepted = plan.last -> None
                      [] OTHER -> UnresolvedOutputSource(plan.last)
    /\ plan' = [plan EXCEPT !.attempt = None]
    /\ UNCHANGED <<streams, results, phase>> /\ RecoveryUnchanged
\* The carryover is decided only if a request of the step was started.
SettleInterruptedAttempt ==
    /\ Recovering
    /\ plan.publications = {} /\ DOMAIN plan.repairs = {}
    /\ plan.attempt # None
    /\ evidence' = FoldTerminal(evidence, plan.attempt, TRUE)
    /\ carryover' = CASE plan.last = None -> carryover
                      [] plan.last # None /\ plan.accepted = plan.last -> None
                      [] OTHER -> UnresolvedOutputSource(plan.last)
    /\ plan' = [plan EXCEPT !.attempt = None]
    /\ UNCHANGED <<streams, results, phase>> /\ RecoveryUnchanged

\* The post-condition of recover, then activation with the permission it found.
Recovered ==
    /\ Recovering
    /\ plan.publications = {} /\ DOMAIN plan.repairs = {} /\ plan.attempt = None
    /\ phase' = IF Missing = {} THEN "idle" ELSE "refused"
    /\ continuation' = (Missing = {} /\ plan.resume)
    /\ plan' = NoPlan
    /\ UNCHANGED <<durable, effects, live, crashes, faults>>

\* A recovery commit fails: no runtime is produced.
RecoveryFails ==
    /\ Recovering
    /\ faults < MaxFaults
    /\ faults' = faults + 1
    /\ Die
    /\ UNCHANGED crashes

-----------------------------------------------------------------------------
RunAttempt ==
    \/ AttemptStarted \/ StartTurn \/ OpenPublication \/ RequestFailed \/ RequestCompleted
    \/ AbandonStream \/ ScheduleRetry \/ Retry \/ CommitPublicationTerminal \/ CommitAssistantMessage
    \/ \E c \in Calls : ToolStarted(c) \/ ExecutorEnds(c) \/ ToolCompleted(c)
    \/ RunExecutors \/ ToolsSettled \/ CommitToolResults \/ SafeBoundary \/ SettleAudit \/ EmitTerminal

Reconcile == TerminalizePublication \/ RepairToolTurn \/ SettleInterruptedAttempt \/ Recovered

Next ==
    \/ \E t \in Turns : Accept(t)
    \/ AdmitNextAttempt \/ AdmitContinuation
    \/ RunAttempt \/ StagePublication \/ Conclude \/ InteractionFailed
    \/ CommitFails \/ SettlementFails
    \/ Crash \/ Shutdown \/ Restart \/ Reconcile \/ RecoveryFails

Spec == Init /\ [][Next]_vars

\* The coordinator admits what is there, an attempt and a recovery go on, every wait of
\* an attempt has a deadline, and a runtime that is down is started again.
FairSpec ==
    /\ Spec
    /\ WF_vars(AdmitNextAttempt \/ AdmitContinuation)
    /\ WF_vars(RunAttempt)
    /\ WF_vars(Reconcile)
    /\ WF_vars(Shutdown) /\ WF_vars(Restart)

-----------------------------------------------------------------------------
(* Properties.                                                              *)

\* what is true of an attempt, told by its requests and effects instead of the fold
RequestsOf(a) == {r \in DOMAIN outcome : r[1] = a}
Newest(a) == CHOOSE r \in RequestsOf(a) : \A q \in RequestsOf(a) :
                 q[2] < r[2] \/ (q[2] = r[2] /\ q[3] <= r[3])
RequestUnknown(a) == RequestsOf(a) # {} /\ outcome[Newest(a)] = "started"
ToolUnknown(a) == \E o \in DOMAIN effects : o[1][1] = a /\ effects[o] # "recorded"

(* However often the process died, and however much of a recovery it had already
   committed, the next recovery says of the interrupted attempt what is true: that an
   external outcome is unknown exactly if a request or a started tool call of it has no
   durable outcome, and that nothing was started exactly if nothing was. *)
VerdictIsTruthful ==
    plan.attempt # None =>
        /\ plan.class = "indeterminate" <=> (RequestUnknown(plan.attempt) \/ ToolUnknown(plan.attempt))
        /\ plan.class = "clean" <=> RequestsOf(plan.attempt) = {}

(* A canonical tool result never claims more than is durable: one that says the call
   did not run stands for a call whose executor was never announced, one with an outcome
   for a call whose outcome was recorded, and one without for a call that was started and
   whose outcome was not.  And no request leaves with a call that lacks its result. *)
ResultsAreTruthful ==
    /\ \A o \in DOMAIN results :
         /\ results[o] = "not_run" => o \notin DOMAIN effects
         /\ results[o] = "known" => o \in DOMAIN effects /\ effects[o] = "recorded"
         /\ results[o] = "unknown" => o \in DOMAIN effects /\ effects[o] # "recorded"
    /\ live.at = "streaming" => Missing = {}

(* An attempt whose terminal is durable, its own or the one a recovery wrote, leaves no
   stream unsettled; and until the next attempt begins, the output carried to its first
   request is the newest that the attempt's last step released without acceptance. *)
OutputIsAccountedFor ==
    \A a \in 1 .. evidence.highest : ~evidence.attempts[a].open =>
        /\ \A r \in Unsettled : r[1] # a
        /\ (a = evidence.highest /\ RequestsOf(a) # {}) =>
             carryover = IF Newest(a) \in DOMAIN streams /\ streams[Newest(a)].settlement = "canonical"
                         THEN None ELSE UnresolvedOutputSource(Newest(a))

(* A turn that was carried to a provider is not carried again because of a death: the
   permission to continue exists only while some adopted turn was in no request. *)
NeverReplayed ==
    (continuation \/ (plan.resume /\ Recovering)) => \E t \in Turns : turn[t] = "adopted"

(* No prefix that a death can leave is refused by a recovery. *)
NothingIsRefused == phase # "refused"

(* Every prefix that a death can leave is accepted, and what a recovery concludes and
   writes from it is true (recovery.rs 852-1326, 1698-1963). *)
RecoveryIsTruthful == TypeOK /\ VerdictIsTruthful /\ ResultsAreTruthful /\ NothingIsRefused

(* A turn that the runtime adopted is carried to a provider or decided by a terminal of
   a live attempt, however the deaths fall. *)
NoTurnIsStranded == \A t \in Turns : turn[t] = "adopted" ~> turn[t] \in {"carried", "decided"}
=============================================================================
