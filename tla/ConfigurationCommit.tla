------------------------- MODULE ConfigurationCommit -------------------------
(***************************************************************************)
(* How an authored configuration reaches the runtime of a Session.         *)
(*                                                                         *)
(* The application owner (local_runtime/configuration/application.rs and   *)
(* application/worker.rs) captures an input under a new identity, publishes *)
(* its model catalog on its own where no invocation changes, prepares what *)
(* is left as a candidate against the binding revision of the resident     *)
(* runtime, and stages it there.  The runtime (conversation_runtime/configuration.rs)   *)
(* commits it at its own boundary, when the identity is still the desired  *)
(* one and no work owns the old generation, and reports the outcome in a   *)
(* task of its own.  The admission worker (admission.rs) repeats that pass *)
(* and the publication of live tool catalogs, and resumes the admissions   *)
(* that either of them put off.  Meanwhile inputs change, sources report   *)
(* catalogs, another admission holds the commit boundary, and the runtime  *)
(* drains and is loaded again.                                             *)
(*                                                                         *)
(* A critical section of the application lock or of the coordinator lock   *)
(* is one step; staging holds both.                                        *)
(***************************************************************************)
EXTENDS Naturals

CONSTANTS
    Captures,   \* inputs and reconciliations the owner captures
    Catalogs,   \* live results of the tool sources
    Messages,   \* messages that want an Attempt
    Crossings,  \* admissions that hold the commit boundary
    Loads,      \* allocations of the runtime
    Records     \* change records that fail

ASSUME ConfigurationAssumption ==
    /\ {Captures, Catalogs, Messages, Crossings, Records} \subseteq Nat
    /\ Loads \in Nat \ {0}

VARIABLES
    owner,       \* ApplicationState of the Session's scope
    prep,        \* the preparation worker
    reports,     \* spawned settlements of staged candidates
    retained,    \* configuration_bindings of the Session
    resident,    \* the incarnation the registry holds as Loaded; 0: none
    attachDue,   \* report_resident has not reached rebind_runtime
    rt,          \* the latest runtime allocation
    live,        \* McpInvalidation: revision of the live catalogs
    boundary,    \* the commit boundary of the lifecycle is held
    unrecorded,  \* allocations with a commit they could not record
    work,        \* messages waiting
    used         \* what is used up of each bound

vars == <<owner, prep, reports, retained, resident, attachDue, rt, live, boundary,
          unrecorded, work, used>>

\* An input: the model catalog, and the capabilities, instructions, skills and
\* the selection that a generation is prepared from
Inputs == [context : 0..Captures, models : 0..Captures]

Units == {"Preparing", "Ready", "Applied", "Failed", "Uncertain"}
Outcomes == {"Committed", "Superseded", "Failed", "Uncertain"}

\* An allocation composed from the retained binding, activated
Fresh(alloc, from) ==
    [alloc |-> alloc, life |-> "running", binding |-> from.binding, config |-> from.input,
     seen |-> live, watched |-> live, pendingCatalog |-> {}, catalogBlocked |-> FALSE,
     catalogDeferred |-> FALSE, staged |-> {}, waiting |-> FALSE, admissionDeferred |-> FALSE,
     attempt |-> FALSE, job |-> "none", failed |-> FALSE, pc |-> "pass", admit |-> FALSE,
     blocked |-> FALSE, kick |-> TRUE, eligibility |-> FALSE, announced |-> FALSE,
     published |-> FALSE]

\* A candidate staged in the runtime, and a settlement on its way to the owner
Candidates == [id : Nat, input : Inputs, baseline : Nat, live : 0..Catalogs]
Reports == [id : Nat, outcome : Outcomes]

OwnerStates ==
    [desired : Nat, input : Inputs, unit : Units, provider : Units, pending : SUBSET Nat,
     deferred : BOOLEAN, stagedIn : SUBSET [alloc : 1..Loads, id : Nat], health : 1..Loads]

Preparations ==
    [pc : {"off", "next", "lookup", "fence", "catalog", "baseline", "prepared"}, id : Nat,
     alloc : 0..Loads, running : BOOLEAN, baseline : Nat, live : 0..Catalogs,
     published : BOOLEAN]

Allocations ==
    [alloc : 1..Loads, life : {"running", "draining", "quiescent"}, binding : Nat,
     config : Inputs, seen : 0..Catalogs, watched : 0..Catalogs,
     pendingCatalog : SUBSET [rev : 0..Catalogs, binding : Nat], catalogBlocked : BOOLEAN,
     catalogDeferred : BOOLEAN, staged : SUBSET Candidates, waiting : BOOLEAN,
     admissionDeferred : BOOLEAN, attempt : BOOLEAN, job : {"none", "active", "settled"},
     failed : BOOLEAN, pc : {"pass", "admit", "check", "wait", "exited"}, admit : BOOLEAN,
     blocked : BOOLEAN, kick : BOOLEAN, eligibility : BOOLEAN, announced : BOOLEAN,
     published : BOOLEAN]

TypeOK ==
    /\ owner \in OwnerStates
    /\ prep \in Preparations
    /\ reports \subseteq Reports
    /\ retained \in [input : Inputs, binding : Nat]
    /\ resident \in {0, rt.alloc}
    /\ rt \in Allocations
    /\ \A s, t \in rt.staged : s = t
    /\ \A m, n \in owner.pending : m = n
    /\ live \in 0..Catalogs
    /\ {attachDue, boundary} \subseteq BOOLEAN
    /\ unrecorded \subseteq 1..Loads
    /\ work \in Nat
    /\ used \in [captures : 0..Captures, messages : 0..Messages, crossings : 0..Crossings,
                 records : 0..Records]

\* The preparation worker between two scopes
NoPreparation == [pc |-> "next", id |-> 0, alloc |-> 0, running |-> FALSE, baseline |-> 0,
                  live |-> 0, published |-> FALSE]

Init ==
    /\ owner = [desired |-> 1, input |-> [context |-> 0, models |-> 0], unit |-> "Applied",
                provider |-> "Applied", pending |-> {}, deferred |-> FALSE,
                stagedIn |-> {}, health |-> 1]
    /\ prep = [NoPreparation EXCEPT !.pc = "off"]
    /\ reports = {} /\ unrecorded = {}
    /\ retained = [input |-> [context |-> 0, models |-> 0], binding |-> 1]
    /\ resident = 1
    /\ attachDue = FALSE /\ boundary = FALSE
    /\ live = 0
    /\ rt = Fresh(1, retained)
    /\ work = 0
    /\ used = [captures |-> 0, messages |-> 0, crossings |-> 0, records |-> 0]

-----------------------------------------------------------------------------
(* The runtime: live catalogs.                                              *)

\* complete_runtime_catalog_observation: a later result gets another pass, an
\* admission that reached this cut is resumed
CompleteObservation(r, observed) ==
    IF live > observed THEN [r EXCEPT !.seen = observed, !.eligibility = TRUE]
    ELSE [r EXCEPT !.seen = observed, !.catalogDeferred = FALSE,
                   !.kick = @ \/ r.catalogDeferred]

\* publish_runtime_catalogs_locked: the allocations it may leave.  A captured
\* result is unchanged, invalid, out of date, or it commits, with or without a
\* new generation; a held boundary keeps it.
PublishCatalogs(r) ==
    LET clear == [r EXCEPT !.catalogBlocked = FALSE]
        taken == [clear EXCEPT !.pendingCatalog = {}]
        captured == IF r.pendingCatalog = {} THEN [rev |-> live, binding |-> r.binding]
                    ELSE CHOOSE p \in r.pendingCatalog : TRUE
        invalid == IF live > captured.rev THEN [taken EXCEPT !.eligibility = TRUE]
                   ELSE CompleteObservation(taken, live)
        done == [CompleteObservation(taken, captured.rev) EXCEPT !.announced = TRUE]
    IN  IF live = r.seen /\ r.pendingCatalog = {}
        THEN {IF r.catalogDeferred THEN CompleteObservation(clear, live) ELSE clear}
        ELSE IF r.life # "running" \/ r.attempt THEN {clear}
        ELSE {invalid}
             \cup (IF r.pendingCatalog = {} THEN {CompleteObservation(taken, live)} ELSE {})
             \cup (IF captured.binding # r.binding THEN {[taken EXCEPT !.eligibility = TRUE]}
                   ELSE {})
             \cup (IF boundary
                   THEN {[taken EXCEPT !.pendingCatalog = {captured}, !.catalogBlocked = TRUE]}
                   ELSE {done, [done EXCEPT !.binding = @ + 1, !.published = TRUE]})

-----------------------------------------------------------------------------
(* The runtime: the staged candidate.                                       *)

\* configuration_commit_blocked: work that owns the committed generation
CommitBlocked(r) == r.attempt \/ r.job = "active" \/ r.failed

\* The lifecycle, the binding and the desire of a candidate, in the commit
Superseded(r, s, desired) ==
    r.life # "running" \/ s.id # desired \/ s.baseline # r.binding

\* commit_staged_configuration_locked: what it may do to the allocation, with
\* the report it spawns, if any, and the binding it retains
CommitStaged(r, desired, kept, mayFail) ==
    LET clear == [r EXCEPT !.waiting = FALSE]
        gone == [clear EXCEPT !.staged = {}]
        same(next) == [rt |-> next, report |-> {}, retained |-> kept, lost |-> FALSE]
        ends(next, s, outcome) ==
            [same(next) EXCEPT !.report = {[id |-> s.id, outcome |-> outcome]}]
        install(s) == [gone EXCEPT !.config = s.input, !.binding = @ + 1, !.announced = TRUE]
        commits(next, s, outcome) ==
            [ends(next, s, outcome)
                EXCEPT !.retained = [input |-> s.input, binding |-> next.binding]]
    IN  IF r.staged = {} THEN {same(clear)}
        ELSE UNION {
            IF Superseded(r, s, desired) THEN {ends(gone, s, "Superseded")}
            ELSE IF CommitBlocked(r) THEN {same(clear)}
            ELSE IF boundary THEN {same([clear EXCEPT !.waiting = TRUE])}
            ELSE {commits(install(s), s, "Committed")}
                 \cup (IF live > s.live THEN {ends(gone, s, "Failed")} ELSE {})
                 \cup (IF mayFail
                       THEN {[commits([install(s) EXCEPT !.failed = TRUE], s, "Uncertain")
                                 EXCEPT !.lost = TRUE]}
                       ELSE {})
            : s \in r.staged}

\* What a commit of the staged candidate may come to, in the present state
CommitResults(r) == CommitStaged(r, owner.desired, retained, used.records < Records)

\* The effects of one result, of which its caller makes the allocation next
Commits(c, next) ==
    /\ rt' = next
    /\ reports' = reports \cup c.report
    /\ retained' = c.retained
    /\ unrecorded' = IF c.lost THEN unrecorded \cup {rt.alloc} ELSE unrecorded
    /\ used' = IF c.lost THEN [used EXCEPT !.records = @ + 1] ELSE used

-----------------------------------------------------------------------------
(* The runtime: the admission worker.                                       *)

\* The pass forgets the admission that was put off.
Mut_DeferralIsForgotten(r) ==
    [r EXCEPT !.admissionDeferred = @ /\ r.waiting, !.pc = IF r.admit THEN "admit" ELSE "check"]

\* An admission that met a waiting candidate is resumed by the pass that finds
\* it gone.
ResumeAdmission(r) ==
    LET admit == r.admit \/ (~r.waiting /\ r.admissionDeferred)
    IN  [r EXCEPT !.admissionDeferred = @ /\ r.waiting, !.admit = admit,
                  !.pc = IF admit THEN "admit" ELSE "check"]

\* The top of the loop: the announcement is enabled, then catalogs and the
\* staged candidate are looked at
Pass ==
    /\ rt.pc = "pass"
    /\ \E r \in PublishCatalogs([rt EXCEPT !.announced = FALSE]) :
          \E c \in CommitResults(r) : Commits(c, ResumeAdmission(c.rt))
    /\ UNCHANGED <<owner, prep, resident, attachDue, live, boundary, work>>

\* The admission is over, and the worker asks which wait may end early.
Checked(r) == [r EXCEPT !.pc = "check", !.admit = FALSE]

\* An Attempt starts although a ready candidate waits for the boundary.
Mut_AdmitPastCandidate(r) ==
    IF ~r.failed /\ work > 0 THEN [Checked(r) EXCEPT !.attempt = TRUE] ELSE Checked(r)

\* The admission after its own pass: it is put off for a candidate or a
\* catalog that waits, refused on a failed runtime, or it starts an Attempt
Admitted(r) ==
    IF r.waiting THEN [Checked(r) EXCEPT !.admissionDeferred = TRUE]
    ELSE IF r.catalogBlocked \/ r.pendingCatalog # {} \/ r.seen # live
    THEN [Checked(r) EXCEPT !.catalogDeferred = TRUE, !.eligibility = TRUE]
    ELSE IF ~r.failed /\ work > 0 THEN [Checked(r) EXCEPT !.attempt = TRUE]
    ELSE Checked(r)

\* admit_next_attempt
AdmitNextAttempt ==
    /\ rt.pc = "admit"
    /\ IF rt.life = "running" /\ ~rt.attempt
       THEN \E r \in PublishCatalogs(rt) :
                \E c \in CommitResults(r) : Commits(c, Admitted(c.rt))
       ELSE rt' = Checked(rt) /\ UNCHANGED <<reports, retained, unrecorded, used>>
    /\ work' = IF rt'.attempt /\ ~rt.attempt THEN work - 1 ELSE work
    /\ UNCHANGED <<owner, prep, resident, attachDue, live, boundary>>

\* The worker reads whether it has to wait for the boundary, and waits.
Check ==
    /\ rt.pc = "check"
    /\ rt' = [rt EXCEPT !.pc = "wait", !.blocked = rt.catalogBlocked \/ rt.waiting]
    /\ UNCHANGED <<owner, prep, reports, retained, resident, attachDue, live, boundary,
                   unrecorded, work, used>>

\* The select, in its order
Wake ==
    /\ rt.pc = "wait" /\ rt.life = "running"
    /\ \/ rt.kick /\ rt' = [rt EXCEPT !.kick = FALSE, !.admit = TRUE, !.blocked = FALSE, !.pc = "pass"]
       \/ /\ ~rt.kick /\ rt.eligibility
          /\ rt' = [rt EXCEPT !.eligibility = FALSE, !.blocked = FALSE, !.pc = "pass"]
       \/ /\ ~rt.kick /\ ~rt.eligibility
          /\ \/ rt.announced
             \/ rt.blocked /\ ~boundary
          /\ rt' = [rt EXCEPT !.blocked = FALSE, !.pc = "pass"]
       \/ /\ ~rt.kick /\ ~rt.eligibility /\ ~rt.announced /\ ~(rt.blocked /\ ~boundary)
          /\ rt.watched # live
          /\ rt' = [rt EXCEPT !.watched = live, !.blocked = FALSE, !.pc = "pass"]
    /\ UNCHANGED <<owner, prep, reports, retained, resident, attachDue, live, boundary,
                   unrecorded, work, used>>

\* The closed worker leaves its loop and supersedes a staged candidate.
Exit ==
    /\ rt.pc = "wait" /\ rt.life # "running"
    /\ \E c \in CommitResults(rt) : Commits(c, [c.rt EXCEPT !.pc = "exited"])
    /\ UNCHANGED <<owner, prep, resident, attachDue, live, boundary, work>>

-----------------------------------------------------------------------------
(* The runtime: its work, and its end.                                      *)

Runtime(r) ==
    /\ rt' = r
    /\ UNCHANGED <<owner, prep, reports, retained, unrecorded>>

Accept ==
    /\ rt.life = "running" /\ used.messages < Messages
    /\ work' = work + 1 /\ used' = [used EXCEPT !.messages = @ + 1]
    /\ Runtime([rt EXCEPT !.kick = TRUE])
    /\ UNCHANGED <<resident, attachDue, live, boundary>>

\* An Attempt leaves a background job behind, or not.
FinishAttempt ==
    /\ rt.attempt
    /\ \E job \in {rt.job, "active"} :
          Runtime([rt EXCEPT !.attempt = FALSE, !.job = job, !.kick = TRUE])
    /\ UNCHANGED <<resident, attachDue, live, boundary, work, used>>

\* A job settles under an admission, whose end announces it.
SettleJob ==
    /\ rt.job # "none"
    /\ Runtime(IF rt.job = "active" THEN [rt EXCEPT !.job = "settled"]
               ELSE [rt EXCEPT !.job = "none", !.announced = TRUE])
    /\ UNCHANGED <<resident, attachDue, live, boundary, work, used>>

HoldBoundary ==
    /\ rt.life = "running" /\ ~boundary /\ used.crossings < Crossings
    /\ boundary' = TRUE /\ used' = [used EXCEPT !.crossings = @ + 1]
    /\ Runtime(rt)
    /\ UNCHANGED <<resident, attachDue, live, work>>

ReleaseBoundary ==
    /\ boundary /\ boundary' = FALSE
    /\ Runtime(rt)
    /\ UNCHANGED <<resident, attachDue, live, work, used>>

SourceReports ==
    /\ live < Catalogs /\ live' = live + 1
    /\ Runtime(rt)
    /\ UNCHANGED <<resident, attachDue, boundary, work, used>>

\* begin_drain_internal: by an unload, which takes the entry out first, or in
\* place, when the runtime fails
BeginDrain ==
    /\ rt.life = "running" /\ ~boundary
    /\ resident' \in {0, resident}
    /\ Runtime([rt EXCEPT !.life = "draining", !.pendingCatalog = {}, !.catalogBlocked = FALSE,
                          !.catalogDeferred = FALSE, !.kick = TRUE])
    /\ UNCHANGED <<attachDue, live, boundary, work, used>>

Quiesce ==
    /\ rt.life = "draining" /\ rt.pc = "exited"
    /\ ~rt.attempt /\ rt.job = "none"
    /\ Runtime([rt EXCEPT !.life = "quiescent"])
    /\ resident' = 0
    /\ UNCHANGED <<attachDue, live, boundary, work, used>>

\* FlightTerminal::finish publishes the entry, before it attaches the runtime.
Load ==
    /\ rt.life = "quiescent" /\ rt.alloc < Loads /\ ~attachDue
    /\ Runtime(Fresh(rt.alloc + 1, retained))
    /\ resident' = rt.alloc + 1
    /\ attachDue' = TRUE
    /\ UNCHANGED <<live, boundary, work, used>>

-----------------------------------------------------------------------------
(* The application owner.                                                   *)

\* desire, capture_binding: a new identity for an input
Desire(o, input) ==
    [o EXCEPT !.desired = @ + 1, !.input = input, !.unit = "Preparing",
              !.provider = "Preparing", !.pending = {o.desired + 1}]

\* run: one worker
Run(p) == IF p.pc = "off" THEN [p EXCEPT !.pc = "next"] ELSE p

\* attach: units that the last allocation left uncertain are applied in a
\* healthy one
Attach(o, alloc) ==
    LET healthy(u) == IF u = "Uncertain" /\ alloc \notin unrecorded THEN "Applied" ELSE u
    IN  IF o.health = alloc THEN o
        ELSE [o EXCEPT !.health = alloc, !.unit = healthy(@), !.provider = healthy(@)]

Owner(o, p) ==
    /\ owner' = o /\ prep' = p
    /\ UNCHANGED <<resident, live, boundary, work>>

\* capture: a new input, or the same one when a unit of it failed
Capture ==
    /\ used.captures < Captures
    /\ used' = [used EXCEPT !.captures = @ + 1]
    /\ \E c \in {0, 1}, m \in {0, 1} :
          LET input == [context |-> owner.input.context + c, models |-> owner.input.models + m]
          IN  /\ c + m = 0 => "Failed" \in {owner.unit, owner.provider}
              /\ Owner(Desire(owner, input), Run(prep))
    /\ UNCHANGED <<reports, retained, attachDue, rt, unrecorded>>

\* The late report of a superseded candidate is taken for the current one.
Mut_AnyReport(o, r) ==
    [o EXCEPT !.stagedIn = {s \in @ : s.id # r.id},
              !.unit = IF r.outcome = "Committed" THEN "Applied" ELSE r.outcome,
              !.provider = IF r.outcome = "Committed" THEN "Applied" ELSE r.outcome]

\* staged_settled: only for the current identity, and only for the units that
\* were staged; a candidate that the runtime superseded on its own is prepared
\* again from its captured input
Settled(o, r) ==
    LET cleaned == [o EXCEPT !.stagedIn = {s \in @ : s.id # r.id}]
        outcome == IF r.outcome = "Committed" THEN "Applied" ELSE r.outcome
    IN  IF o.desired # r.id THEN cleaned
        ELSE IF r.outcome = "Superseded" THEN Desire(cleaned, o.input)
        ELSE [cleaned EXCEPT !.unit = outcome,
                             !.provider = IF @ = "Ready" THEN outcome ELSE @]

Report(r) ==
    /\ r \in reports
    /\ reports' = reports \ {r}
    /\ LET next == Settled(owner, r)
       IN  Owner(next, IF next.pending # owner.pending THEN Run(prep) ELSE prep)
    /\ UNCHANGED <<retained, attachDue, rt, unrecorded, used>>

\* rebind_runtime: what waits for an allocation, or was staged in another one,
\* is prepared again
Rebound(o, alloc) ==
    LET attached == Attach(o, alloc)
        obsolete == \E s \in o.stagedIn : s.alloc # alloc
    IN  IF obsolete \/ o.deferred
        THEN Desire([attached EXCEPT !.deferred = FALSE,
                                     !.stagedIn = IF obsolete THEN {} ELSE @], o.input)
        ELSE attached

RebindRuntime ==
    /\ attachDue /\ attachDue' = FALSE
    /\ IF resident = rt.alloc
       THEN LET next == Rebound(owner, rt.alloc)
            IN  Owner(next, IF next.pending # owner.pending THEN Run(prep) ELSE prep)
       ELSE Owner(owner, prep)
    /\ UNCHANGED <<reports, retained, rt, unrecorded, used>>

\* The catalog observer: rebase_runtime_catalog
RebaseCatalog ==
    /\ rt.published /\ rt.life = "running"
    /\ rt' = [rt EXCEPT !.published = FALSE]
    /\ IF resident = rt.alloc
       THEN /\ retained' = IF retained.binding < rt.binding
                           THEN [retained EXCEPT !.binding = rt.binding] ELSE retained
            /\ IF "Preparing" \in {owner.unit, owner.provider}
               THEN Owner(Desire(owner, owner.input), Run(prep))
               ELSE Owner(owner, prep)
       ELSE UNCHANGED retained /\ Owner(owner, prep)
    /\ UNCHANGED <<reports, attachDue, unrecorded, used>>

-----------------------------------------------------------------------------
(* The preparation worker: prepare_scope.                                   *)

Current == owner.desired = prep.id
Preparing(o, p) ==
    /\ Owner(o, p)
    /\ UNCHANGED <<reports, retained, attachDue, rt, unrecorded, used>>

\* An application that looked at a replaced allocation is dropped.
Mut_NotRequeued == owner

\* still_resident: an application that looked at another allocation is queued
Requeued == [owner EXCEPT !.pending = {prep.id}]

PrepareNext ==
    /\ prep.pc = "next"
    /\ IF owner.pending = {} THEN Preparing(owner, [prep EXCEPT !.pc = "off"])
       ELSE \E id \in owner.pending :
               Preparing([owner EXCEPT !.pending = {}], [prep EXCEPT !.pc = "lookup", !.id = id])

\* The captured input, and configuration_preparation
LookUp ==
    /\ prep.pc = "lookup"
    /\ IF Current
       THEN Preparing(owner, [prep EXCEPT !.pc = "fence", !.alloc = resident,
                                          !.running = resident # 0 /\ rt.life = "running"])
       ELSE Preparing(owner, NoPreparation)

\* The publication fence of the units that need no candidate: the runtime takes
\* over the limits, the shared capacity and the execution policy, none of which is
\* told apart here, and may be unable to record that change.
Fence ==
    /\ prep.pc = "fence"
    /\ IF ~Current THEN Preparing(owner, NoPreparation)
       ELSE IF resident # prep.alloc THEN Preparing(Requeued, NoPreparation)
       ELSE \E lost \in BOOLEAN :
              /\ lost => prep.running /\ rt.life = "running" /\ used.records < Records
              /\ rt' = [rt EXCEPT !.failed = @ \/ lost]
              /\ unrecorded' = IF lost THEN unrecorded \cup {rt.alloc} ELSE unrecorded
              /\ used' = IF lost THEN [used EXCEPT !.records = @ + 1] ELSE used
              /\ Owner(IF prep.running THEN Attach(owner, prep.alloc) ELSE owner,
                       [prep EXCEPT !.pc = "catalog"])
              /\ UNCHANGED <<reports, retained, attachDue>>

\* fail_units: the units that are not settled yet
FailUnits ==
    LET failed(u) == IF u = "Preparing" THEN "Failed" ELSE u
    IN  [owner EXCEPT !.unit = failed(@), !.provider = failed(@)]

\* A cold Session is left with the older catalog.
Mut_ColdIsApplied(cold) == owner.deferred

\* publish_catalog on a cold Session leaves it to the next allocation.
AwaitsResidency(cold) == owner.deferred \/ cold

\* The Provider unit on its own: a catalog that changes no invocation goes to the
\* resident runtime, whatever its state, and into the retained binding; with
\* nothing else to prepare the application is applied.  The binding it is
\* compared with cannot change while the application is current.
SettleProvider ==
    /\ prep.pc = "catalog"
    /\ LET others == owner.input.context = retained.input.context
           same == owner.input.models = retained.input.models
           cold == ~same /\ resident = 0
           publishes == ~same /\ resident # 0
           published == [rt EXCEPT !.config = [@ EXCEPT !.models = owner.input.models],
                                 !.binding = @ + 1]
       IN  \/ ~Current /\ Preparing(owner, NoPreparation)
           \/ /\ Current /\ ~(others /\ same)
              /\ Preparing(owner, [prep EXCEPT !.pc = "baseline"])
           \/ /\ Current /\ (others \/ ~same)
              /\ Preparing(FailUnits, NoPreparation)
           \/ /\ Current
              /\ Owner([owner EXCEPT !.provider = "Applied",
                                     !.unit = IF others THEN "Applied" ELSE @,
                                     !.deferred = AwaitsResidency(cold)],
                       IF others THEN NoPreparation
                       ELSE [prep EXCEPT !.pc = "baseline", !.published = TRUE])
              /\ rt' = IF publishes THEN published ELSE rt
              /\ retained' = IF publishes
                             THEN [input |-> published.config, binding |-> published.binding]
                             ELSE retained
              /\ UNCHANGED <<reports, attachDue, unrecorded, used>>

\* No runtime: the application waits for the next allocation.
Defer ==
    /\ prep.pc = "baseline" /\ ~prep.running
    /\ Preparing(IF ~Current THEN owner
                 ELSE IF resident # prep.alloc THEN Requeued
                 ELSE [owner EXCEPT !.deferred = TRUE], NoPreparation)

\* prepare_configuration: the binding it starts from
Baseline ==
    /\ prep.pc = "baseline" /\ prep.running
    /\ Preparing(owner, [prep EXCEPT !.pc = "prepared", !.baseline = rt.binding, !.live = live])

PrepareFails ==
    /\ prep.pc = "prepared"
    /\ Preparing(IF Current THEN FailUnits ELSE owner, NoPreparation)

\* The publication fence: stage_configuration replaces an earlier candidate,
\* tries to commit, and asks the worker for a pass
Stage ==
    /\ prep.pc = "prepared"
    /\ IF Current /\ resident = prep.alloc
       THEN LET s == [id |-> prep.id, input |-> owner.input, baseline |-> prep.baseline,
                      live |-> prep.live]
                earlier == {[id |-> e.id, outcome |-> "Superseded"] : e \in rt.staged}
            IN  /\ \E c \in CommitStaged([rt EXCEPT !.staged = {s}], owner.desired, retained,
                                         used.records < Records) :
                      /\ rt' = [c.rt EXCEPT !.eligibility = TRUE]
                      /\ reports' = reports \cup earlier \cup c.report
                      /\ retained' = c.retained
                      /\ unrecorded' = IF c.lost THEN unrecorded \cup {rt.alloc} ELSE unrecorded
                      /\ used' = IF c.lost THEN [used EXCEPT !.records = @ + 1] ELSE used
                /\ Owner([Attach(owner, prep.alloc)
                             EXCEPT !.unit = "Ready",
                                    !.provider = IF prep.published THEN @ ELSE "Ready",
                                    !.stagedIn = {[alloc |-> prep.alloc, id |-> prep.id]}],
                         NoPreparation)
                /\ UNCHANGED attachDue
       ELSE Preparing(IF Current THEN Requeued ELSE owner, NoPreparation)

-----------------------------------------------------------------------------
Prepare ==
    \/ PrepareNext \/ LookUp \/ Fence \/ SettleProvider \/ Defer \/ Baseline
    \/ PrepareFails \/ Stage
Worker == Pass \/ AdmitNextAttempt \/ Check \/ Wake \/ Exit
Settlement == (\E r \in reports : Report(r)) \/ RebindRuntime \/ RebaseCatalog
Environment ==
    \/ Accept \/ HoldBoundary \/ SourceReports \/ BeginDrain \/ Load \/ Capture

Next ==
    \/ Worker \/ Prepare \/ Settlement \/ Environment
    \/ FinishAttempt \/ SettleJob \/ ReleaseBoundary \/ Quiesce

Spec == Init /\ [][Next]_vars

\* Tasks that are ready are run, Attempts and jobs end, a held boundary is
\* released; the owner's worker is never stuck in a preparation, which has a
\* deadline.
Fairness ==
    /\ WF_vars(Worker) /\ WF_vars(Prepare) /\ WF_vars(Settlement)
    /\ WF_vars(FinishAttempt) /\ WF_vars(SettleJob) /\ WF_vars(ReleaseBoundary)
    /\ WF_vars(Quiesce)

LiveSpec == Spec /\ Fairness

-----------------------------------------------------------------------------
(* Properties.                                                              *)

\* What a client is shown of a unit: the failure of the attached allocation
\* overrides
View(unit) == IF unit = "Applied" /\ owner.health \in unrecorded THEN "Uncertain" ELSE unit

\* Units that are shown as applied are what their Session retains, and what its
\* resident runtime runs and has recorded: no late report, replaced allocation or
\* newer input makes the view of view/owned claim more.  The one exception is a
\* model catalog that was published to a cold Session: it is retained as soon as
\* the next allocation is attached, and until then the deferral is kept
\* (publish_catalog, rebind_runtime).
ViewIsTruthful ==
    /\ TypeOK
    /\ View(owner.unit) = "Applied" =>
        /\ retained.input.context = owner.input.context
        /\ resident # 0 /\ ~attachDue =>
              rt.config.context = owner.input.context /\ rt.alloc \notin unrecorded
    /\ View(owner.provider) = "Applied" =>
        /\ \/ retained.input.models = owner.input.models
           \/ owner.deferred /\ (resident = 0 \/ attachDue)
        /\ resident # 0 /\ ~attachDue =>
              rt.config.models = owner.input.models /\ rt.alloc \notin unrecorded

\* An Attempt freezes the newest generation that was ready when it started: it
\* never overtakes a current candidate that waits only for the commit boundary,
\* nor a catalog that was reported, and it never starts on a runtime with an
\* unrecorded commit (admit_next_attempt).
AttemptsFreezeTheReady ==
    [][rt'.attempt /\ ~rt.attempt =>
          /\ \A s \in rt'.staged : CommitBlocked(rt)
          /\ rt'.seen = live
          /\ rt.alloc \notin unrecorded']_vars

\* A desired application ends once inputs stop changing: it is applied, fails or is
\* uncertain, unless the allocation fails or leaves Running; what waited for the
\* next allocation ends there (staged_settled, rebind_runtime, stage_configuration).
DesireSettles ==
    LET unsettled == {owner.unit, owner.provider} \cap {"Preparing", "Ready"} # {}
    IN  unsettled ~> (~unsettled \/ rt.failed \/ rt.life # "running")

\* A message is admitted although the pass that should have admitted it was put
\* off for a candidate or for a catalog.
WorkIsAdmitted ==
    \A n \in 1..Messages : (work = n) ~> (work # n \/ rt.failed \/ rt.life # "running")
=============================================================================
