---------------------- MODULE BackgroundRegistryProofs ----------------------
(***************************************************************************)
(* Proofs of the safety properties of BackgroundRegistry for any number of *)
(* jobs, Goal rounds, storage errors and deaths of the process.            *)
(***************************************************************************)
EXTENDS BackgroundRegistry, FiniteSetTheorems, TLAPS

UnderWay == {"prepared", "waiting", "permitted", "refused"}
Behind == {"none", "parked", "aborted"}
Undone == {"finished", "exhausted", "reporting", "reported"}

\* A cancellation is told with the cause that won it.
NamesCause(n, r) == (n.settled = "Cancelled" /\ r.reason # "none") => n.reason = r.reason

\* The runner of a dispatch that is under way is parked and its job prepared;
\* an attempt that has ended left none of its dispatches behind.
DispatchInv ==
    \A j \in Jobs :
        /\ dispatch[j] = "none" <=> runner[j] = "none"
        /\ dispatch[j] \in UnderWay <=> runner[j] = "parked"
        /\ j \in prepared <=> runner[j] = "parked"
        /\ attempt = "ended" => dispatch[j] \notin UnderWay

\* The supervisor runs while the conversation drains; past the foreground no
\* attempt is left, and past its second look no job that could be awaited.
PhaseInv ==
    /\ lifecycle \in {"Running", "Down"} <=> drain.step = "off"
    /\ lifecycle = "Quiescent" <=> drain.step = "quiescent"
    /\ drain.step \notin {"off", "foreground"} => attempt = "ended"
    /\ drain.step \in {"decide", "quiescent", "failed"} => Unsettled = {}
    /\ lifecycle = "Down" => \A j \in Jobs : /\ runner[j] \in {"none", "aborted", "done"}
                                             /\ record[j] = NoRecord

\* The record, the result and the candidate of a job, by the step of its runner.
RecordInv ==
    \A j \in Jobs :
        /\ runner[j] \in Behind => record[j] = NoRecord
        /\ runner[j] \notin Behind => j \in owned
        /\ runner[j] \in {"none", "parked"} => j \notin owned
        /\ runner[j] \in {"none", "parked", "released", "executing"} => real[j] = "none"
        /\ runner[j] \in {"none", "parked", "released", "executing", "returned"} => notice[j] = {}
        /\ runner[j] \in {"returned"} \cup Undone => real[j] \in Outcomes
        /\ runner[j] = "released" => record[j].state \in {"Starting", "Cancelling"}
        /\ runner[j] \in {"executing", "returned"} => record[j].state \in {"Running", "Cancelling"}
        /\ runner[j] \in {"released", "executing", "returned"} =>
              /\ record[j].pending = {} /\ ~record[j].abandoned
              /\ record[j].state = "Cancelling" <=> record[j].reason # "none"
        /\ runner[j] = "finished" =>
              IF record[j].pending = {} THEN record[j].state \in Outcomes
              ELSE record[j].state = "PublishingTerminal"
        /\ runner[j] \in {"exhausted", "reporting", "reported"} =>
              record[j].state = "PublishingTerminal"
        /\ runner[j] \in Undone => ~record[j].abandoned
        /\ runner[j] = "done" => record[j].state \in Outcomes \cup {"absent", "PublishingTerminal"}
        /\ \A c \in record[j].pending : c.settled = real[j] /\ NamesCause(c, record[j])
        /\ faults.lost = 0 /\ record[j].state = "PublishingTerminal" => notice[j] = {}

\* NoticeIsTruthful, without a cardinality
NoticeInv ==
    \A j \in Jobs :
        /\ \A n, m \in notice[j] : n = m
        /\ \A n \in notice[j] : j \in owned /\ n.settled \in {real[j], "OutcomeUnknown"}
        /\ record[j].state \in Outcomes =>
              /\ record[j].state = real[j]
              /\ \E n \in notice[j] : n.settled = record[j].state /\ NamesCause(n, record[j])

RegistryInv == TypeOK /\ DispatchInv /\ PhaseInv /\ RecordInv /\ NoticeInv /\ NothingIsStranded

-----------------------------------------------------------------------------
(* What the helpers of the model do to a record.                            *)

LEMMA FirstRecords ==
    /\ NoRecord \in Records /\ NoRecord.state = "absent" /\ NoRecord.pending = {}
    /\ ~NoRecord.abandoned
    /\ [NoRecord EXCEPT !.state = "Starting"] \in Records
BY DEF NoRecord, Records, Active, Reasons

\* mark_publication_abandoned, as an edit of the record
LEMMA AbandonEffects ==
    ASSUME TypeOK, NEW j \in Jobs, MarkAbandoned(j)
    PROVE  /\ record'[j] \in Records
           /\ record' = [record EXCEPT ![j] = record'[j]]
           /\ record'[j].state = record[j].state
           /\ record'[j].reason = record[j].reason
           /\ record'[j].pending = record[j].pending
<1>1. /\ record \in [Jobs -> Records] /\ record[j] \in Records
      /\ record' = [record EXCEPT ![j] = [record[j] EXCEPT !.abandoned = TRUE]]
  BY DEF TypeOK, MarkAbandoned
<1> QED
  BY <1>1 DEF Records

\* The message of recovery says nothing that is not known.
LEMMA InterruptedIsUnknown ==
    LET d == Draft([settled |-> "OutcomeUnknown", reason |-> "none", phase |-> "none"], 0)
    IN  d \in Notices /\ d.settled = "OutcomeUnknown"
BY DEF Draft, Notices, Outcomes, Reasons, Phases

\* cancel_at_cut touches a record that has not returned, and its cause only.
LEMMA CutEffects ==
    ASSUME NEW r \in Records, NEW why \in {"user", "shutdown"}
    PROVE  LET q == CancelAtCut(r, why)
           IN  /\ q \in Records
               /\ q.pending = r.pending /\ q.abandoned = r.abandoned
               /\ IF r.state \in {"Starting", "Running"}
                  THEN q.state = "Cancelling" /\ q.reason = why
                  ELSE q = r
BY DEF CancelAtCut, Records, Active, Reasons

\* mark_running, as an edit of the record
LEMMA MarkEffects ==
    ASSUME TypeOK, NEW j \in Jobs, MarkRunning(j)
    PROVE  /\ record'[j] \in Records
           /\ record' = [record EXCEPT ![j] = record'[j]]
           /\ record'[j].state = IF record[j].state = "Starting" THEN "Running" ELSE record[j].state
           /\ record'[j].reason = record[j].reason
           /\ record'[j].pending = record[j].pending
           /\ record'[j].abandoned = record[j].abandoned
<1> record[j] \in Records /\ record \in [Jobs -> Records]
  BY DEF TypeOK
<1>1. CASE record[j].state = "Starting"
  <2>1. record' = [record EXCEPT ![j] = [record[j] EXCEPT !.state = "Running", !.started = TRUE]]
    BY <1>1 DEF MarkRunning
  <2> QED
    BY <1>1, <2>1 DEF Records, Active
<1>2. CASE record[j].state # "Starting"
  BY <1>2 DEF MarkRunning
<1> QED
  BY <1>1, <1>2

\* The candidate says what the executor returned and who won the cancellation.
LEMMA CandidateIsTrue ==
    ASSUME NEW r \in Records, NEW o \in Outcomes, r.state = "Cancelling" <=> r.reason # "none"
    PROVE  LET c == TerminalCandidate(r, o)
           IN  c \in Candidates /\ c.settled = o /\ NamesCause(c, r)
<1> DEFINE c == TerminalCandidate(r, o)
<1>1. c \in Candidates
  BY DEF TerminalCandidate, Candidates, Records, Reasons, Phases
<1>2. c.settled = o /\ NamesCause(c, r)
  BY DEF TerminalCandidate, NamesCause
<1> QED
  BY <1>1, <1>2

\* The message says what its candidate says.
LEMMA DraftSays ==
    ASSUME NEW c \in Candidates, NEW at \in 0..2
    PROVE  /\ Draft(c, at) \in Notices
           /\ Draft(c, at).settled = c.settled /\ Draft(c, at).reason = c.reason
BY DEF Draft, Candidates, Notices

\* What an attempt of the runner to publish the message d does: it is accepted,
\* or the job goes on with a candidate, and the row may be there all the same.
Publishes(j, d) ==
    /\ runner[j] \in {"returned", "finished"}
    /\ runner[j] = "finished" => record[j].pending # {}
    /\ UNCHANGED <<lifecycle, attempt, dispatch, prepared, real, gate, owned, adopted, rounds, drain>>
    /\ changed' = TRUE
    /\ runner' = [runner EXCEPT ![j] = runner'[j]]
    /\ record' = [record EXCEPT ![j] = record'[j]]
    /\ record'[j] \in Records
    /\ record'[j].reason = record[j].reason /\ record'[j].abandoned = record[j].abandoned
    /\ d.settled = real[j] /\ real[j] \in Outcomes /\ NamesCause(d, record[j])
    /\ faults' \in [refused : 0..MaxRefused, lost : 0..MaxLost, crashes : 0..MaxCrashes]
    /\ faults'.lost = 0 => faults.lost = 0
    /\ \/ /\ notice[j] \subseteq {d} /\ notice' = [notice EXCEPT ![j] = {d}]
          /\ wake' = (wake \/ notice[j] = {})
          /\ record'[j].state = d.settled /\ record'[j].pending = {}
          /\ runner'[j] \in {"finished", "done"}
       \/ /\ \/ notice' = notice
             \/ /\ notice[j] = {} /\ notice' = [notice EXCEPT ![j] = {d}]
                /\ faults'.lost # 0
          /\ wake' = wake
          /\ record'[j].state = "PublishingTerminal" /\ record'[j].pending # {}
          /\ \A c \in record'[j].pending : c.settled = real[j] /\ NamesCause(c, record[j])
          /\ runner'[j] \in {"finished", "exhausted"}

\* The two answers of the inbox.
LEMMA AcceptedEffects ==
    ASSUME RegistryInv, NEW j \in Jobs, NEW d \in Notices, Accepted(j, d)
    PROVE  /\ notice[j] \subseteq {d} /\ notice' = [notice EXCEPT ![j] = {d}]
           /\ wake' = (wake \/ notice[j] = {})
           /\ faults' = faults
           /\ record' = [record EXCEPT ![j] = record'[j]]
           /\ record'[j] \in Records
           /\ record'[j].state = d.settled /\ record'[j].pending = {}
           /\ record'[j].reason = record[j].reason /\ record'[j].abandoned = record[j].abandoned
<1>1. /\ record \in [Jobs -> Records] /\ record[j] \in Records
      /\ record' = [record EXCEPT ![j] = [record[j] EXCEPT !.state = d.settled, !.pending = {}]]
      /\ d.settled \in Outcomes
  BY DEF RegistryInv, TypeOK, Accepted, Notices
<1>2. record'[j] = [record[j] EXCEPT !.state = d.settled, !.pending = {}]
  BY <1>1
<1>3. /\ record'[j] \in Records
      /\ record'[j].state = d.settled /\ record'[j].pending = {}
      /\ record'[j].reason = record[j].reason /\ record'[j].abandoned = record[j].abandoned
  BY <1>1, <1>2 DEF Records
<1> QED
  BY <1>1, <1>2, <1>3 DEF Accepted

LEMMA NotAcceptedEffects ==
    ASSUME RegistryInv, NEW j \in Jobs, NEW d \in Notices, NotAccepted(j, d)
    PROVE  /\ \/ notice' = notice
              \/ notice[j] = {} /\ notice' = [notice EXCEPT ![j] = {d}] /\ faults'.lost # 0
           /\ wake' = wake
           /\ faults' \in [refused : 0..MaxRefused, lost : 0..MaxLost, crashes : 0..MaxCrashes]
           /\ faults'.lost = 0 => faults.lost = 0
BY RegistryAssumption DEF RegistryInv, TypeOK, NotAccepted, Refused, Lost

LEMMA FinishPublishes ==
    ASSUME RegistryInv, NEW j \in Jobs, Finish(j)
    PROVE  \E d \in Notices : Publishes(j, d)
<1> DEFINE c == TerminalCandidate(record[j], real[j])
<1> DEFINE d == Draft(c, 1)
<1>1. /\ record \in [Jobs -> Records] /\ record[j] \in Records /\ runner[j] = "returned"
      /\ real[j] \in Outcomes /\ (record[j].state = "Cancelling" <=> record[j].reason # "none")
      /\ faults \in [refused : 0..MaxRefused, lost : 0..MaxLost, crashes : 0..MaxCrashes]
      /\ runner' = [runner EXCEPT ![j] = "finished"] /\ runner'[j] = "finished"
  BY DEF RegistryInv, TypeOK, RecordInv, Finish
<1>2. c \in Candidates /\ c.settled = real[j] /\ NamesCause(c, record[j])
  BY <1>1, CandidateIsTrue
<1>3. d \in Notices /\ d.settled = real[j] /\ d.reason = c.reason
  BY <1>2, DraftSays
<1>4. NamesCause(d, record[j])
  BY <1>2, <1>3 DEF NamesCause
<1>5. /\ UNCHANGED <<lifecycle, attempt, dispatch, prepared, real, gate, owned, adopted, rounds, drain>>
      /\ changed' = TRUE
      /\ \/ Accepted(j, d)
         \/ /\ NotAccepted(j, d)
            /\ record' = [record EXCEPT ![j].state = "PublishingTerminal", ![j].pending = {c}]
  BY DEF Finish
<1> HIDE DEF c, d
<1>6. CASE Accepted(j, d)
  <2>1. /\ notice[j] \subseteq {d} /\ notice' = [notice EXCEPT ![j] = {d}]
        /\ wake' = (wake \/ notice[j] = {}) /\ faults' = faults
        /\ record' = [record EXCEPT ![j] = record'[j]] /\ record'[j] \in Records
        /\ record'[j].state = d.settled /\ record'[j].pending = {}
        /\ record'[j].reason = record[j].reason /\ record'[j].abandoned = record[j].abandoned
    BY <1>3, <1>6, AcceptedEffects
  <2> QED
    BY <1>1, <1>3, <1>4, <1>5, <2>1 DEF Publishes
<1>7. CASE /\ NotAccepted(j, d)
           /\ record' = [record EXCEPT ![j].state = "PublishingTerminal", ![j].pending = {c}]
  <2>1. record'[j] = [record[j] EXCEPT !.state = "PublishingTerminal", !.pending = {c}]
    BY <1>1, <1>7
  <2>2. /\ record'[j] \in Records
        /\ record'[j].state = "PublishingTerminal" /\ record'[j].pending = {c}
        /\ record'[j].reason = record[j].reason /\ record'[j].abandoned = record[j].abandoned
    <3>1. {c} \in SUBSET Candidates
      BY <1>2
    <3> HIDE <1>2
    <3> QED
      BY <1>1, <2>1, <3>1 DEF Records, Active
  <2>3. record' = [record EXCEPT ![j] = record'[j]]
    BY <1>1, <1>7, <2>1
  <2> QED
    BY <1>1, <1>2, <1>3, <1>4, <1>5, <1>7, <2>2, <2>3, NotAcceptedEffects DEF Publishes
<1> QED
  BY <1>5, <1>6, <1>7

\* A retry without a candidate only ends the runner.
RetryIsOver(j) ==
    /\ runner[j] = "finished" /\ record[j].pending = {}
    /\ runner' = [runner EXCEPT ![j] = "done"]
    /\ UNCHANGED <<lifecycle, attempt, dispatch, prepared, record, real, gate, durable, wake, drain,
                   changed, faults>>

LEMMA RetryPublishes ==
    ASSUME RegistryInv, NEW j \in Jobs, RetryPublication(j)
    PROVE  RetryIsOver(j) \/ \E d \in Notices : Publishes(j, d)
<1>1. CASE record[j].pending = {}
  BY <1>1 DEF RetryPublication, RetryIsOver, durable
<1>2. CASE record[j].pending # {}
  <2>1. PICK c \in record[j].pending, at \in {1, 2} :
          /\ \/ Accepted(j, Draft(c, at)) /\ runner' = [runner EXCEPT ![j] = "done"]
             \/ /\ NotAccepted(j, Draft(c, at))
                /\ runner' = [runner EXCEPT ![j] = "exhausted"]
                /\ UNCHANGED record
          /\ changed' = TRUE
    BY <1>2 DEF RetryPublication
  <2> DEFINE d == Draft(c, at)
  <2>2. /\ record \in [Jobs -> Records] /\ record[j] \in Records /\ runner[j] = "finished"
        /\ runner \in [Jobs -> {"none", "parked", "aborted", "released", "executing", "returned",
                                "finished", "exhausted", "reporting", "reported", "done"}]
        /\ real[j] \in Outcomes /\ record[j].state = "PublishingTerminal"
        /\ \A e \in record[j].pending : e.settled = real[j] /\ NamesCause(e, record[j])
        /\ faults \in [refused : 0..MaxRefused, lost : 0..MaxLost, crashes : 0..MaxCrashes]
    BY <1>2 DEF RegistryInv, TypeOK, RecordInv, RetryPublication, Undone
  <2>3. c \in Candidates /\ c.settled = real[j] /\ NamesCause(c, record[j])
    BY <2>1, <2>2 DEF Records
  <2>4. d \in Notices /\ d.settled = real[j] /\ d.reason = c.reason
    BY <2>1, <2>3, DraftSays
  <2>5. NamesCause(d, record[j])
    BY <2>3, <2>4 DEF NamesCause
  <2>6. UNCHANGED <<lifecycle, attempt, dispatch, prepared, real, gate, owned, adopted, rounds, drain>>
    BY DEF RetryPublication
  <2> HIDE DEF d
  <2>7. CASE Accepted(j, d) /\ runner' = [runner EXCEPT ![j] = "done"]
    <3>1. runner'[j] = "done"
      BY <2>2, <2>7
    <3> QED
      BY <1>2, <2>1, <2>2, <2>4, <2>5, <2>6, <2>7, <3>1, AcceptedEffects DEF Publishes
  <2>8. CASE /\ NotAccepted(j, d) /\ runner' = [runner EXCEPT ![j] = "exhausted"]
             /\ UNCHANGED record
    <3>1. runner'[j] = "exhausted" /\ record' = [record EXCEPT ![j] = record'[j]]
      BY <2>2, <2>8
    <3> QED
      BY <1>2, <2>1, <2>2, <2>4, <2>5, <2>6, <2>8, <3>1, NotAcceptedEffects DEF Publishes
  <2> QED
    BY <2>1, <2>7, <2>8 DEF d
<1> QED
  BY <1>1, <1>2

\* Cancelling jobs that have not returned keeps records in step with runners.
LEMMA CutKeepsRecord ==
    ASSUME RecordInv, UNCHANGED <<runner, real, owned, notice, faults>>,
           \A k \in Jobs :
              \/ record'[k] = record[k]
              \/ /\ runner[k] \in {"released", "executing", "returned"}
                 /\ record[k].state \in {"Starting", "Running"}
                 /\ record'[k].state = "Cancelling" /\ record'[k].reason # "none"
                 /\ record'[k].pending = record[k].pending
                 /\ record'[k].abandoned = record[k].abandoned
    PROVE  RecordInv'
<1> SUFFICES ASSUME NEW k \in Jobs
             PROVE  RecordInv!(k)'
  BY DEF RecordInv
<1>1. CASE record'[k] = record[k]
  BY <1>1 DEF RecordInv, NamesCause
<1>2. CASE /\ runner[k] \in {"released", "executing", "returned"}
           /\ record[k].state \in {"Starting", "Running"}
           /\ record'[k].state = "Cancelling" /\ record'[k].reason # "none"
           /\ record'[k].pending = record[k].pending
           /\ record'[k].abandoned = record[k].abandoned
  BY <1>2 DEF RecordInv, Behind, Undone, NamesCause
<1> QED
  BY <1>1, <1>2

\* The first message of a job comes with a wake; a failure changes nothing the
\* conversation could do.
LEMMA PublishingWakes ==
    ASSUME RegistryInv, NEW j \in Jobs, NEW d \in Notices, Publishes(j, d)
    PROVE  NothingIsStranded'
<1> TypeOK /\ RecordInv /\ NothingIsStranded
  BY DEF RegistryInv
<1> SUFFICES ASSUME faults'.lost = 0
             PROVE  NothingIsStranded'
  BY DEF NothingIsStranded, TypeOK, Publishes
<1>1. notice[j] = {} /\ faults.lost = 0
  BY DEF Publishes, RecordInv
<1>2. CASE wake' = (wake \/ notice[j] = {})
  BY <1>1, <1>2 DEF NothingIsStranded
<1>3. CASE /\ notice' = notice /\ wake' = wake
           /\ record'[j].state = "PublishingTerminal"
  <2>1. record[j].state \in Active
    BY DEF Publishes, RecordInv, Active
  <2>2. Idle' = Idle
    BY <1>3, <2>1 DEF Publishes, TypeOK, Idle, Active
  <2>3. Waiting' = Waiting
    BY <1>3 DEF Publishes, Waiting
  <2>4. UNCHANGED <<lifecycle, attempt, gate, rounds>>
    BY DEF Publishes
  <2> QED
    BY <1>1, <1>3, <2>2, <2>3, <2>4 DEF NothingIsStranded, TypeOK
<1> QED
  BY <1>2, <1>3 DEF Publishes

\* An attempt to publish keeps the types, whatever the answer.
LEMMA PublishingKeepsTypes ==
    ASSUME RegistryInv, NEW j \in Jobs, NEW d \in Notices, Publishes(j, d)
    PROVE  TypeOK'
<1>1. TypeOK
  BY DEF RegistryInv
<1>2. wake' \in BOOLEAN
  BY <1>1 DEF TypeOK, Publishes
<1>3. notice' \in [Jobs -> SUBSET Notices]
  BY <1>1 DEF TypeOK, Publishes
<1>4. record' \in [Jobs -> Records]
  BY <1>1 DEF TypeOK, Publishes
<1>5. runner'[j] \in {"finished", "done", "exhausted"}
  BY DEF Publishes
<1> QED
  BY <1>1, <1>2, <1>3, <1>4, <1>5 DEF TypeOK, Publishes

-----------------------------------------------------------------------------
LEMMA RegistryInit == Init => RegistryInv
<1> SUFFICES ASSUME Init PROVE RegistryInv
  OBVIOUS
<1>1. TypeOK
  <2>2. faults \in [refused : 0..MaxRefused, lost : 0..MaxLost, crashes : 0..MaxCrashes]
    BY RegistryAssumption DEF Init
  <2>3. rounds \in 0..Rounds
    BY RegistryAssumption DEF Init
  <2> QED
    BY <2>2, <2>3, FirstRecords DEF Init, TypeOK
<1>2. DispatchInv
  BY DEF Init, DispatchInv, UnderWay
<1>3. PhaseInv
  BY DEF Init, PhaseInv
<1>4. RecordInv
  BY DEF Init, RecordInv, Behind, Undone, NoRecord
<1>5. NoticeInv
  BY DEF Init, NoticeInv, NoRecord, Outcomes
<1>6. NothingIsStranded
  BY DEF Init, NothingIsStranded
<1> QED
  BY <1>1, <1>2, <1>3, <1>4, <1>5, <1>6 DEF RegistryInv

\* Each action keeps the types.
LEMMA RegistryTypeStep ==
    ASSUME RegistryInv, [Next]_vars
    PROVE  TypeOK'
<1> USE RegistryAssumption DEF TypeOK, durable, tasks
<1> TypeOK /\ DispatchInv /\ PhaseInv /\ RecordInv /\ NoticeInv /\ NothingIsStranded
  BY DEF RegistryInv
<1>1. ASSUME NEW j \in Jobs, Prepare(j)
      PROVE  TypeOK'
  BY <1>1 DEF Prepare
<1>2. ASSUME NEW j \in Jobs, BeginCommit(j)
      PROVE  TypeOK'
  <2>1. CASE Rollback(j)
    BY <1>2, <2>1 DEF BeginCommit, Rollback
  <2>2. CASE ~Rollback(j)
    BY <1>2, <2>2 DEF BeginCommit
  <2> QED
    BY <2>1, <2>2
<1>3. ASSUME NEW j \in Jobs, AwaitPermission(j)
      PROVE  TypeOK'
  <2>1. CASE attempt = "cancelled"
    BY <1>3, <2>1 DEF AwaitPermission, Rollback
  <2>2. CASE attempt # "cancelled"
    BY <1>3, <2>2 DEF AwaitPermission
  <2> QED
    BY <2>1, <2>2
<1>4. ASSUME NEW j \in Jobs, CommitRefused(j)
      PROVE  TypeOK'
  BY <1>4 DEF CommitRefused, Rollback, LeaveGate
<1>5. ASSUME NEW j \in Jobs, CommitFails(j)
      PROVE  TypeOK'
  BY <1>5 DEF CommitFails, Rollback, LeaveGate, Committable, Refused, Lost
<1>6. ASSUME NEW j \in Jobs, CommitDispatch(j)
      PROVE  TypeOK'
  BY <1>6, FirstRecords DEF CommitDispatch, LeaveGate
<1>7. ASSUME NEW j \in Jobs, Cancel(j)
      PROVE  TypeOK'
  <2>1. /\ record'[j] \in Records
        /\ record' = [record EXCEPT ![j] = record'[j]]
        /\ record[j].state \in {"Starting", "Running"}
        /\ record'[j].state = "Cancelling" /\ record'[j].reason = "user"
        /\ record'[j].pending = record[j].pending /\ record'[j].abandoned = record[j].abandoned
    BY <1>7, CutEffects DEF Cancel
  <2> QED
    BY <1>7, <2>1 DEF Cancel, NamesCause
<1>8. ASSUME NEW j \in Jobs, MarkRunning(j)
      PROVE  TypeOK'
  <2>1. record'[j] \in Records /\ record' = [record EXCEPT ![j] = record'[j]]
    BY <1>8, MarkEffects
  <2>2. record' \in [Jobs -> Records]
    BY <2>1
  <2> QED
    BY <1>8, <2>2 DEF MarkRunning
<1>9. ASSUME NEW j \in Jobs, NEW o \in Outcomes, ExecutorReturns(j, o)
      PROVE  TypeOK'
  BY <1>9 DEF ExecutorReturns
<1>10. ASSUME NEW j \in Jobs, Finish(j)
      PROVE  TypeOK'
  <2>1. PICK d \in Notices : Publishes(j, d)
    BY <1>10, FinishPublishes
  <2> QED
    BY <2>1, PublishingKeepsTypes
<1>11. ASSUME NEW j \in Jobs, RetryPublication(j)
      PROVE  TypeOK'
  <2>1. CASE RetryIsOver(j)
    BY <2>1 DEF RetryIsOver
  <2>2. CASE \E d \in Notices : Publishes(j, d)
    BY <2>2, PublishingKeepsTypes
  <2> QED
    BY <1>11, <2>1, <2>2, RetryPublishes
<1>12. ASSUME NEW j \in Jobs, BeginReport(j)
      PROVE  TypeOK'
  BY <1>12 DEF BeginReport
<1>13. ASSUME NEW j \in Jobs, ReportFailure(j)
      PROVE  TypeOK'
  BY <1>13 DEF ReportFailure
<1>14. ASSUME NEW j \in Jobs, MarkAbandoned(j)
      PROVE  TypeOK'
  BY <1>14, AbandonEffects DEF MarkAbandoned, NamesCause
<1>15. ASSUME NEW j \in Jobs, PublishInterrupted(j)
      PROVE  TypeOK'
  BY <1>15, InterruptedIsUnknown DEF PublishInterrupted
<1>16. CASE AdmitNextAttempt
  <2>1. rounds' \in 0..Rounds
    BY <1>16 DEF AdmitNextAttempt
  <2>2. adopted' \subseteq Jobs /\ attempt' \in {"running", "cancelled", "ended"}
    BY <1>16 DEF AdmitNextAttempt, Waiting
  <2> QED
    BY <1>16, <2>1, <2>2 DEF AdmitNextAttempt
<1>17. CASE CancelAttempt
  BY <1>17 DEF CancelAttempt
<1>18. CASE FinishAttempt
  BY <1>18 DEF FinishAttempt
<1>19. CASE BeginDrain
  BY <1>19 DEF BeginDrain
<1>20. CASE DrainJobs
  <2>1. record' \in [Jobs -> Records]
    BY <1>20, CutEffects DEF DrainJobs
  <2>2. Unsettled \subseteq Jobs
    BY DEF Unsettled
  <2> QED
    BY <1>20, <2>1, <2>2 DEF DrainJobs
<1>21. CASE DrainAwaits
  BY <1>21 DEF DrainAwaits
<1>22. CASE DrainAborts
  BY <1>22 DEF DrainAborts
<1>23. CASE DrainDecides
  BY <1>23 DEF DrainDecides
<1>24. CASE Crash
  <2>1. faults' \in [refused : 0..MaxRefused, lost : 0..MaxLost, crashes : 0..MaxCrashes]
    BY <1>24 DEF Crash
  <2>2. record' \in [Jobs -> Records]
    BY <1>24, FirstRecords DEF Crash
  <2> QED
    BY <1>24, <2>1, <2>2 DEF Crash
<1>25. CASE Activate
  BY <1>25 DEF Activate
<1>26. CASE UNCHANGED vars
  BY <1>26 DEF vars
<1> QED
  BY <1>1, <1>2, <1>3, <1>4, <1>5, <1>6, <1>7, <1>8, <1>9, <1>10, <1>11, <1>12, <1>13, <1>14,
     <1>15, <1>16, <1>17, <1>18, <1>19, <1>20, <1>21, <1>22, <1>23, <1>24, <1>25, <1>26
     DEF Next, Dispatch, Runner, Drain

\* Each action keeps dispatches, preparations and parked runners together.
LEMMA DispatchStep ==
    ASSUME RegistryInv, [Next]_vars
    PROVE  DispatchInv'
<1> USE DEF TypeOK, DispatchInv, UnderWay, durable, tasks
<1> TypeOK /\ DispatchInv /\ PhaseInv /\ RecordInv /\ NoticeInv /\ NothingIsStranded
  BY DEF RegistryInv
<1>1. ASSUME NEW j \in Jobs, Prepare(j)
      PROVE  DispatchInv'
  BY <1>1 DEF Prepare
<1>2. ASSUME NEW j \in Jobs, BeginCommit(j)
      PROVE  DispatchInv'
  BY <1>2 DEF BeginCommit, Rollback
<1>3. ASSUME NEW j \in Jobs, AwaitPermission(j)
      PROVE  DispatchInv'
  BY <1>3 DEF AwaitPermission, Rollback
<1>4. ASSUME NEW j \in Jobs, CommitRefused(j)
      PROVE  DispatchInv'
  BY <1>4 DEF CommitRefused, Rollback, LeaveGate
<1>5. ASSUME NEW j \in Jobs, CommitFails(j)
      PROVE  DispatchInv'
  BY <1>5 DEF CommitFails, Rollback, LeaveGate, Committable, Refused, Lost
<1>6. ASSUME NEW j \in Jobs, CommitDispatch(j)
      PROVE  DispatchInv'
  BY <1>6 DEF CommitDispatch, LeaveGate, Committable
<1>7. ASSUME NEW j \in Jobs, Cancel(j)
      PROVE  DispatchInv'
  <2>1. /\ record'[j] \in Records
        /\ record' = [record EXCEPT ![j] = record'[j]]
        /\ record[j].state \in {"Starting", "Running"}
        /\ record'[j].state = "Cancelling" /\ record'[j].reason = "user"
        /\ record'[j].pending = record[j].pending /\ record'[j].abandoned = record[j].abandoned
    BY <1>7, CutEffects DEF Cancel
  <2> QED
    BY <1>7, <2>1 DEF Cancel, NamesCause
<1>8. ASSUME NEW j \in Jobs, MarkRunning(j)
      PROVE  DispatchInv'
  <2>1. /\ record' = [record EXCEPT ![j] = record'[j]]
        /\ record'[j].state = IF record[j].state = "Starting" THEN "Running" ELSE record[j].state
        /\ record'[j].reason = record[j].reason
        /\ record'[j].pending = record[j].pending
        /\ record'[j].abandoned = record[j].abandoned
    BY <1>8, MarkEffects
  <2>2. /\ runner[j] = "released" /\ runner' = [runner EXCEPT ![j] = "executing"]
        /\ UNCHANGED <<lifecycle, attempt, dispatch, prepared, real, gate, durable, wake, drain,
                       faults>>
    BY <1>8 DEF MarkRunning
  <2> QED
    BY <2>1, <2>2 DEF NamesCause
<1>9. ASSUME NEW j \in Jobs, NEW o \in Outcomes, ExecutorReturns(j, o)
      PROVE  DispatchInv'
  BY <1>9 DEF ExecutorReturns
<1>10. ASSUME NEW j \in Jobs, Finish(j)
      PROVE  DispatchInv'
  <2>1. PICK d \in Notices : Publishes(j, d)
    BY <1>10, FinishPublishes
  <2> QED
    BY <2>1 DEF Publishes, NamesCause
<1>11. ASSUME NEW j \in Jobs, RetryPublication(j)
      PROVE  DispatchInv'
  <2>1. CASE RetryIsOver(j)
    BY <2>1 DEF RetryIsOver
  <2>2. CASE \E d \in Notices : Publishes(j, d)
    <3>1. PICK d \in Notices : Publishes(j, d)
      BY <2>2
    <3> QED
      BY <3>1 DEF Publishes, NamesCause
  <2> QED
    BY <1>11, <2>1, <2>2, RetryPublishes
<1>12. ASSUME NEW j \in Jobs, BeginReport(j)
      PROVE  DispatchInv'
  BY <1>12 DEF BeginReport
<1>13. ASSUME NEW j \in Jobs, ReportFailure(j)
      PROVE  DispatchInv'
  BY <1>13 DEF ReportFailure
<1>14. ASSUME NEW j \in Jobs, MarkAbandoned(j)
      PROVE  DispatchInv'
  BY <1>14, AbandonEffects DEF MarkAbandoned, NamesCause
<1>15. ASSUME NEW j \in Jobs, PublishInterrupted(j)
      PROVE  DispatchInv'
  BY <1>15, InterruptedIsUnknown DEF PublishInterrupted
<1>16. CASE AdmitNextAttempt
  BY <1>16 DEF AdmitNextAttempt
<1>17. CASE CancelAttempt
  BY <1>17 DEF CancelAttempt
<1>18. CASE FinishAttempt
  BY <1>18 DEF FinishAttempt
<1>19. CASE BeginDrain
  BY <1>19 DEF BeginDrain
<1>20. CASE DrainJobs
  <2>1. ASSUME NEW k \in Jobs
        PROVE  /\ record'[k] \in Records
               /\ record'[k].pending = record[k].pending
               /\ record'[k].abandoned = record[k].abandoned
               /\ \/ record'[k] = record[k]
                  \/ /\ record[k].state \in {"Starting", "Running"}
                     /\ record'[k].state = "Cancelling" /\ record'[k].reason = "shutdown"
    BY <1>20, CutEffects DEF DrainJobs
  <2>2. /\ attempt = "ended"
        /\ UNCHANGED <<lifecycle, attempt, dispatch, prepared, runner, real, gate, durable, wake,
                       changed, faults>>
    BY <1>20 DEF DrainJobs
  <2> QED
    BY <1>20, <2>1, <2>2 DEF DrainJobs, NamesCause
<1>21. CASE DrainAwaits
  BY <1>21 DEF DrainAwaits
<1>22. CASE DrainAborts
  <2>1. attempt = "ended" /\ prepared = {}
    BY <1>22 DEF DrainAborts, PhaseInv
  <2>2. runner' = runner /\ prepared' = {} /\ UNCHANGED <<dispatch, attempt>>
    BY <1>22, <2>1 DEF DrainAborts
  <2> QED
    BY <2>1, <2>2
<1>23. CASE DrainDecides
  BY <1>23 DEF DrainDecides
<1>24. CASE Crash
  BY <1>24 DEF Crash
<1>25. CASE Activate
  BY <1>25 DEF Activate
<1>26. CASE UNCHANGED vars
  BY <1>26 DEF vars
<1> HIDE DEF TypeOK, DispatchInv, UnderWay, durable, tasks
<1> QED
  BY <1>1, <1>2, <1>3, <1>4, <1>5, <1>6, <1>7, <1>8, <1>9, <1>10, <1>11, <1>12, <1>13, <1>14,
     <1>15, <1>16, <1>17, <1>18, <1>19, <1>20, <1>21, <1>22, <1>23, <1>24, <1>25, <1>26
     DEF Next, Dispatch, Runner, Drain

\* Each action keeps the record of a job in step with its runner.
LEMMA RecordStep ==
    ASSUME RegistryInv, [Next]_vars
    PROVE  RecordInv'
<1> USE DEF TypeOK, DispatchInv, RecordInv, Behind, Undone, Outcomes, NoRecord, UnderWay, durable, tasks
<1> TypeOK /\ DispatchInv /\ PhaseInv /\ RecordInv /\ NoticeInv /\ NothingIsStranded
  BY DEF RegistryInv
<1>1. ASSUME NEW j \in Jobs, Prepare(j)
      PROVE  RecordInv'
  BY <1>1 DEF Prepare
<1>2. ASSUME NEW j \in Jobs, BeginCommit(j)
      PROVE  RecordInv'
  BY <1>2 DEF BeginCommit, Rollback
<1>3. ASSUME NEW j \in Jobs, AwaitPermission(j)
      PROVE  RecordInv'
  BY <1>3 DEF AwaitPermission, Rollback
<1>4. ASSUME NEW j \in Jobs, CommitRefused(j)
      PROVE  RecordInv'
  BY <1>4 DEF CommitRefused, Rollback, LeaveGate
<1>5. ASSUME NEW j \in Jobs, CommitFails(j)
      PROVE  RecordInv'
  BY <1>5 DEF CommitFails, Rollback, LeaveGate, Committable, Refused, Lost
<1>6. ASSUME NEW j \in Jobs, CommitDispatch(j)
      PROVE  RecordInv'
  BY <1>6 DEF CommitDispatch, LeaveGate, Committable
<1>7. ASSUME NEW j \in Jobs, Cancel(j)
      PROVE  RecordInv'
  <2>1. /\ record'[j] \in Records
        /\ record' = [record EXCEPT ![j] = record'[j]]
        /\ record[j].state \in {"Starting", "Running"}
        /\ record'[j].state = "Cancelling" /\ record'[j].reason = "user"
        /\ record'[j].pending = record[j].pending /\ record'[j].abandoned = record[j].abandoned
    BY <1>7, CutEffects DEF Cancel
  <2>2. runner[j] \in {"released", "executing"} \/ runner[j] = "returned"
    BY <2>1
  <2>3. UNCHANGED <<runner, real, owned, notice, faults>>
    BY <1>7 DEF Cancel
  <2> QED
    BY <2>1, <2>2, <2>3, CutKeepsRecord
<1>8. ASSUME NEW j \in Jobs, MarkRunning(j)
      PROVE  RecordInv'
  <2>1. /\ record' = [record EXCEPT ![j] = record'[j]]
        /\ record'[j].state = IF record[j].state = "Starting" THEN "Running" ELSE record[j].state
        /\ record'[j].reason = record[j].reason
        /\ record'[j].pending = record[j].pending
        /\ record'[j].abandoned = record[j].abandoned
    BY <1>8, MarkEffects
  <2>2. /\ runner[j] = "released" /\ runner' = [runner EXCEPT ![j] = "executing"]
        /\ UNCHANGED <<lifecycle, attempt, dispatch, prepared, real, gate, durable, wake, drain,
                       faults>>
    BY <1>8 DEF MarkRunning
  <2> QED
    BY <2>1, <2>2 DEF NamesCause
<1>9. ASSUME NEW j \in Jobs, NEW o \in Outcomes, ExecutorReturns(j, o)
      PROVE  RecordInv'
  BY <1>9 DEF ExecutorReturns
<1>10. ASSUME NEW j \in Jobs, Finish(j)
      PROVE  RecordInv'
  <2>1. PICK d \in Notices : Publishes(j, d)
    BY <1>10, FinishPublishes
  <2> QED
    BY <2>1 DEF Publishes, NamesCause
<1>11. ASSUME NEW j \in Jobs, RetryPublication(j)
      PROVE  RecordInv'
  <2>1. CASE RetryIsOver(j)
    BY <2>1 DEF RetryIsOver
  <2>2. CASE \E d \in Notices : Publishes(j, d)
    <3>1. PICK d \in Notices : Publishes(j, d)
      BY <2>2
    <3> QED
      BY <3>1 DEF Publishes, NamesCause
  <2> QED
    BY <1>11, <2>1, <2>2, RetryPublishes
<1>12. ASSUME NEW j \in Jobs, BeginReport(j)
      PROVE  RecordInv'
  BY <1>12 DEF BeginReport
<1>13. ASSUME NEW j \in Jobs, ReportFailure(j)
      PROVE  RecordInv'
  BY <1>13 DEF ReportFailure
<1>14. ASSUME NEW j \in Jobs, MarkAbandoned(j)
      PROVE  RecordInv'
  BY <1>14, AbandonEffects DEF MarkAbandoned, NamesCause
<1>15. ASSUME NEW j \in Jobs, PublishInterrupted(j)
      PROVE  RecordInv'
  <2>1. \A k \in Jobs : runner[k] \in {"none", "aborted", "done"} /\ record[k] = NoRecord
    BY <1>15 DEF PublishInterrupted, PhaseInv
  <2>2. /\ j \in owned /\ notice[j] = {} /\ lifecycle = "Down"
        /\ notice' = [notice EXCEPT ![j] = notice'[j]]
        /\ \A n \in notice'[j] : n.settled = "OutcomeUnknown"
        /\ \A n, m \in notice'[j] : n = m
        /\ UNCHANGED <<lifecycle, attempt, dispatch, tasks, gate, owned, adopted, rounds, wake,
                       drain, changed, faults>>
    BY <1>15, InterruptedIsUnknown DEF PublishInterrupted
  <2> QED
    BY <2>1, <2>2
<1>16. CASE AdmitNextAttempt
  BY <1>16 DEF AdmitNextAttempt
<1>17. CASE CancelAttempt
  BY <1>17 DEF CancelAttempt
<1>18. CASE FinishAttempt
  BY <1>18 DEF FinishAttempt
<1>19. CASE BeginDrain
  BY <1>19 DEF BeginDrain
<1>20. CASE DrainJobs
  <2>1. ASSUME NEW k \in Jobs
        PROVE  /\ record'[k] \in Records
               /\ record'[k].pending = record[k].pending
               /\ record'[k].abandoned = record[k].abandoned
               /\ \/ record'[k] = record[k]
                  \/ /\ record[k].state \in {"Starting", "Running"}
                     /\ record'[k].state = "Cancelling" /\ record'[k].reason = "shutdown"
    BY <1>20, CutEffects DEF DrainJobs
  <2>2. /\ attempt = "ended"
        /\ UNCHANGED <<lifecycle, attempt, dispatch, prepared, runner, real, gate, durable, wake,
                       changed, faults>>
    BY <1>20 DEF DrainJobs
  <2>3. ASSUME NEW k \in Jobs, record[k].state \in {"Starting", "Running"}
        PROVE  runner[k] \in {"released", "executing", "returned"}
    BY <2>3
  <2> QED
    BY <2>1, <2>2, <2>3, CutKeepsRecord
<1>21. CASE DrainAwaits
  BY <1>21 DEF DrainAwaits
<1>22. CASE DrainAborts
  BY <1>22 DEF DrainAborts
<1>23. CASE DrainDecides
  BY <1>23 DEF DrainDecides
<1>24. CASE Crash
  BY <1>24 DEF Crash
<1>25. CASE Activate
  BY <1>25 DEF Activate
<1>26. CASE UNCHANGED vars
  BY <1>26 DEF vars
<1> HIDE DEF TypeOK, DispatchInv, RecordInv, Behind, Undone, Outcomes, NoRecord, UnderWay, durable, tasks
<1> QED
  BY <1>1, <1>2, <1>3, <1>4, <1>5, <1>6, <1>7, <1>8, <1>9, <1>10, <1>11, <1>12, <1>13, <1>14,
     <1>15, <1>16, <1>17, <1>18, <1>19, <1>20, <1>21, <1>22, <1>23, <1>24, <1>25, <1>26
     DEF Next, Dispatch, Runner, Drain

\* Each action keeps the phases of the drain apart.
LEMMA PhaseStep ==
    ASSUME RegistryInv, [Next]_vars
    PROVE  PhaseInv'
<1> USE DEF TypeOK, DispatchInv, PhaseInv, RecordInv, Unsettled, Active, UnderWay, Behind, NoRecord, durable, tasks
<1> TypeOK /\ DispatchInv /\ PhaseInv /\ RecordInv /\ NoticeInv /\ NothingIsStranded
  BY DEF RegistryInv
<1>1. ASSUME NEW j \in Jobs, Prepare(j)
      PROVE  PhaseInv'
  BY <1>1 DEF Prepare
<1>2. ASSUME NEW j \in Jobs, BeginCommit(j)
      PROVE  PhaseInv'
  BY <1>2 DEF BeginCommit, Rollback
<1>3. ASSUME NEW j \in Jobs, AwaitPermission(j)
      PROVE  PhaseInv'
  BY <1>3 DEF AwaitPermission, Rollback
<1>4. ASSUME NEW j \in Jobs, CommitRefused(j)
      PROVE  PhaseInv'
  BY <1>4 DEF CommitRefused, Rollback, LeaveGate
<1>5. ASSUME NEW j \in Jobs, CommitFails(j)
      PROVE  PhaseInv'
  BY <1>5 DEF CommitFails, Rollback, LeaveGate, Committable, Refused, Lost
<1>6. ASSUME NEW j \in Jobs, CommitDispatch(j)
      PROVE  PhaseInv'
  BY <1>6 DEF CommitDispatch, LeaveGate, Committable
<1>7. ASSUME NEW j \in Jobs, Cancel(j)
      PROVE  PhaseInv'
  <2>1. /\ record'[j] \in Records
        /\ record' = [record EXCEPT ![j] = record'[j]]
        /\ record[j].state \in {"Starting", "Running"}
        /\ record'[j].state = "Cancelling" /\ record'[j].reason = "user"
        /\ record'[j].pending = record[j].pending /\ record'[j].abandoned = record[j].abandoned
    BY <1>7, CutEffects DEF Cancel
  <2> QED
    BY <1>7, <2>1 DEF Cancel, NamesCause
<1>8. ASSUME NEW j \in Jobs, MarkRunning(j)
      PROVE  PhaseInv'
  <2>1. /\ record' = [record EXCEPT ![j] = record'[j]]
        /\ record'[j].state = IF record[j].state = "Starting" THEN "Running" ELSE record[j].state
        /\ record'[j].reason = record[j].reason
        /\ record'[j].pending = record[j].pending
        /\ record'[j].abandoned = record[j].abandoned
    BY <1>8, MarkEffects
  <2>2. /\ runner[j] = "released" /\ runner' = [runner EXCEPT ![j] = "executing"]
        /\ UNCHANGED <<lifecycle, attempt, dispatch, prepared, real, gate, durable, wake, drain,
                       faults>>
    BY <1>8 DEF MarkRunning
  <2> QED
    BY <2>1, <2>2 DEF NamesCause
<1>9. ASSUME NEW j \in Jobs, NEW o \in Outcomes, ExecutorReturns(j, o)
      PROVE  PhaseInv'
  BY <1>9 DEF ExecutorReturns
<1>10. ASSUME NEW j \in Jobs, Finish(j)
      PROVE  PhaseInv'
  <2>1. PICK d \in Notices : Publishes(j, d)
    BY <1>10, FinishPublishes
  <2> QED
    BY <2>1 DEF Publishes, NamesCause
<1>11. ASSUME NEW j \in Jobs, RetryPublication(j)
      PROVE  PhaseInv'
  <2>1. CASE RetryIsOver(j)
    BY <2>1 DEF RetryIsOver
  <2>2. CASE \E d \in Notices : Publishes(j, d)
    <3>1. PICK d \in Notices : Publishes(j, d)
      BY <2>2
    <3> QED
      BY <3>1 DEF Publishes, NamesCause
  <2> QED
    BY <1>11, <2>1, <2>2, RetryPublishes
<1>12. ASSUME NEW j \in Jobs, BeginReport(j)
      PROVE  PhaseInv'
  BY <1>12 DEF BeginReport
<1>13. ASSUME NEW j \in Jobs, ReportFailure(j)
      PROVE  PhaseInv'
  BY <1>13 DEF ReportFailure
<1>14. ASSUME NEW j \in Jobs, MarkAbandoned(j)
      PROVE  PhaseInv'
  BY <1>14, AbandonEffects DEF MarkAbandoned, NamesCause
<1>15. ASSUME NEW j \in Jobs, PublishInterrupted(j)
      PROVE  PhaseInv'
  <2>1. \A k \in Jobs : runner[k] \in {"none", "aborted", "done"} /\ record[k] = NoRecord
    BY <1>15 DEF PublishInterrupted, PhaseInv
  <2>2. /\ j \in owned /\ notice[j] = {} /\ lifecycle = "Down"
        /\ notice' = [notice EXCEPT ![j] = notice'[j]]
        /\ \A n \in notice'[j] : n.settled = "OutcomeUnknown"
        /\ \A n, m \in notice'[j] : n = m
        /\ UNCHANGED <<lifecycle, attempt, dispatch, tasks, gate, owned, adopted, rounds, wake,
                       drain, changed, faults>>
    BY <1>15, InterruptedIsUnknown DEF PublishInterrupted
  <2> QED
    BY <2>1, <2>2
<1>16. CASE AdmitNextAttempt
  BY <1>16 DEF AdmitNextAttempt
<1>17. CASE CancelAttempt
  BY <1>17 DEF CancelAttempt
<1>18. CASE FinishAttempt
  BY <1>18 DEF FinishAttempt
<1>19. CASE BeginDrain
  BY <1>19 DEF BeginDrain
<1>20. CASE DrainJobs
  <2>1. ASSUME NEW k \in Jobs
        PROVE  /\ record'[k] \in Records
               /\ record'[k].pending = record[k].pending
               /\ record'[k].abandoned = record[k].abandoned
               /\ \/ record'[k] = record[k]
                  \/ /\ record[k].state \in {"Starting", "Running"}
                     /\ record'[k].state = "Cancelling" /\ record'[k].reason = "shutdown"
    BY <1>20, CutEffects DEF DrainJobs
  <2>2. /\ attempt = "ended"
        /\ UNCHANGED <<lifecycle, attempt, dispatch, prepared, runner, real, gate, durable, wake,
                       changed, faults>>
    BY <1>20 DEF DrainJobs
  <2> QED
    BY <1>20, <2>1, <2>2 DEF DrainJobs, NamesCause
<1>21. CASE DrainAwaits
  BY <1>21 DEF DrainAwaits
<1>22. CASE DrainAborts
  BY <1>22 DEF DrainAborts
<1>23. CASE DrainDecides
  BY <1>23 DEF DrainDecides
<1>24. CASE Crash
  BY <1>24 DEF Crash
<1>25. CASE Activate
  BY <1>25 DEF Activate
<1>26. CASE UNCHANGED vars
  BY <1>26 DEF vars
<1> HIDE DEF TypeOK, DispatchInv, PhaseInv, RecordInv, Unsettled, Active, UnderWay, Behind, NoRecord, durable, tasks
<1> QED
  BY <1>1, <1>2, <1>3, <1>4, <1>5, <1>6, <1>7, <1>8, <1>9, <1>10, <1>11, <1>12, <1>13, <1>14,
     <1>15, <1>16, <1>17, <1>18, <1>19, <1>20, <1>21, <1>22, <1>23, <1>24, <1>25, <1>26
     DEF Next, Dispatch, Runner, Drain

\* Each action keeps the messages true.
LEMMA NoticeStep ==
    ASSUME RegistryInv, [Next]_vars
    PROVE  NoticeInv'
<1> USE DEF TypeOK, RecordInv, NoticeInv, Behind, Undone, Outcomes, NoRecord, durable, tasks
<1> TypeOK /\ DispatchInv /\ PhaseInv /\ RecordInv /\ NoticeInv /\ NothingIsStranded
  BY DEF RegistryInv
<1>1. ASSUME NEW j \in Jobs, Prepare(j)
      PROVE  NoticeInv'
  BY <1>1 DEF Prepare
<1>2. ASSUME NEW j \in Jobs, BeginCommit(j)
      PROVE  NoticeInv'
  BY <1>2 DEF BeginCommit, Rollback
<1>3. ASSUME NEW j \in Jobs, AwaitPermission(j)
      PROVE  NoticeInv'
  BY <1>3 DEF AwaitPermission, Rollback
<1>4. ASSUME NEW j \in Jobs, CommitRefused(j)
      PROVE  NoticeInv'
  BY <1>4 DEF CommitRefused, Rollback, LeaveGate
<1>5. ASSUME NEW j \in Jobs, CommitFails(j)
      PROVE  NoticeInv'
  BY <1>5 DEF CommitFails, Rollback, LeaveGate, Committable, Refused, Lost
<1>6. ASSUME NEW j \in Jobs, CommitDispatch(j)
      PROVE  NoticeInv'
  BY <1>6 DEF CommitDispatch, LeaveGate, Committable
<1>7. ASSUME NEW j \in Jobs, Cancel(j)
      PROVE  NoticeInv'
  <2>1. /\ record'[j] \in Records
        /\ record' = [record EXCEPT ![j] = record'[j]]
        /\ record[j].state \in {"Starting", "Running"}
        /\ record'[j].state = "Cancelling" /\ record'[j].reason = "user"
        /\ record'[j].pending = record[j].pending /\ record'[j].abandoned = record[j].abandoned
    BY <1>7, CutEffects DEF Cancel
  <2> QED
    BY <1>7, <2>1 DEF Cancel, NamesCause
<1>8. ASSUME NEW j \in Jobs, MarkRunning(j)
      PROVE  NoticeInv'
  <2>1. /\ record' = [record EXCEPT ![j] = record'[j]]
        /\ record'[j].state = IF record[j].state = "Starting" THEN "Running" ELSE record[j].state
        /\ record'[j].reason = record[j].reason
        /\ record'[j].pending = record[j].pending
        /\ record'[j].abandoned = record[j].abandoned
    BY <1>8, MarkEffects
  <2>2. /\ runner[j] = "released" /\ runner' = [runner EXCEPT ![j] = "executing"]
        /\ UNCHANGED <<lifecycle, attempt, dispatch, prepared, real, gate, durable, wake, drain,
                       faults>>
    BY <1>8 DEF MarkRunning
  <2> QED
    BY <2>1, <2>2 DEF NamesCause
<1>9. ASSUME NEW j \in Jobs, NEW o \in Outcomes, ExecutorReturns(j, o)
      PROVE  NoticeInv'
  BY <1>9 DEF ExecutorReturns
<1>10. ASSUME NEW j \in Jobs, Finish(j)
      PROVE  NoticeInv'
  <2>1. PICK d \in Notices : Publishes(j, d)
    BY <1>10, FinishPublishes
  <2> QED
    BY <2>1 DEF Publishes, NamesCause
<1>11. ASSUME NEW j \in Jobs, RetryPublication(j)
      PROVE  NoticeInv'
  <2>1. CASE RetryIsOver(j)
    BY <2>1 DEF RetryIsOver
  <2>2. CASE \E d \in Notices : Publishes(j, d)
    <3>1. PICK d \in Notices : Publishes(j, d)
      BY <2>2
    <3> QED
      BY <3>1 DEF Publishes, NamesCause
  <2> QED
    BY <1>11, <2>1, <2>2, RetryPublishes
<1>12. ASSUME NEW j \in Jobs, BeginReport(j)
      PROVE  NoticeInv'
  BY <1>12 DEF BeginReport
<1>13. ASSUME NEW j \in Jobs, ReportFailure(j)
      PROVE  NoticeInv'
  BY <1>13 DEF ReportFailure
<1>14. ASSUME NEW j \in Jobs, MarkAbandoned(j)
      PROVE  NoticeInv'
  BY <1>14, AbandonEffects DEF MarkAbandoned, NamesCause
<1>15. ASSUME NEW j \in Jobs, PublishInterrupted(j)
      PROVE  NoticeInv'
  <2>1. \A k \in Jobs : runner[k] \in {"none", "aborted", "done"} /\ record[k] = NoRecord
    BY <1>15 DEF PublishInterrupted, PhaseInv
  <2>2. /\ j \in owned /\ notice[j] = {} /\ lifecycle = "Down"
        /\ notice' = [notice EXCEPT ![j] = notice'[j]]
        /\ \A n \in notice'[j] : n.settled = "OutcomeUnknown"
        /\ \A n, m \in notice'[j] : n = m
        /\ UNCHANGED <<lifecycle, attempt, dispatch, tasks, gate, owned, adopted, rounds, wake,
                       drain, changed, faults>>
    BY <1>15, InterruptedIsUnknown DEF PublishInterrupted
  <2> QED
    BY <2>1, <2>2
<1>16. CASE AdmitNextAttempt
  BY <1>16 DEF AdmitNextAttempt
<1>17. CASE CancelAttempt
  BY <1>17 DEF CancelAttempt
<1>18. CASE FinishAttempt
  BY <1>18 DEF FinishAttempt
<1>19. CASE BeginDrain
  BY <1>19 DEF BeginDrain
<1>20. CASE DrainJobs
  <2>1. ASSUME NEW k \in Jobs
        PROVE  /\ record'[k] \in Records
               /\ record'[k].pending = record[k].pending
               /\ record'[k].abandoned = record[k].abandoned
               /\ \/ record'[k] = record[k]
                  \/ /\ record[k].state \in {"Starting", "Running"}
                     /\ record'[k].state = "Cancelling" /\ record'[k].reason = "shutdown"
    BY <1>20, CutEffects DEF DrainJobs
  <2>2. /\ attempt = "ended"
        /\ UNCHANGED <<lifecycle, attempt, dispatch, prepared, runner, real, gate, durable, wake,
                       changed, faults>>
    BY <1>20 DEF DrainJobs
  <2> QED
    BY <1>20, <2>1, <2>2 DEF DrainJobs, NamesCause
<1>21. CASE DrainAwaits
  BY <1>21 DEF DrainAwaits
<1>22. CASE DrainAborts
  BY <1>22 DEF DrainAborts
<1>23. CASE DrainDecides
  BY <1>23 DEF DrainDecides
<1>24. CASE Crash
  BY <1>24 DEF Crash
<1>25. CASE Activate
  BY <1>25 DEF Activate
<1>26. CASE UNCHANGED vars
  BY <1>26 DEF vars
<1> HIDE DEF TypeOK, RecordInv, NoticeInv, Behind, Undone, Outcomes, NoRecord, durable, tasks
<1> QED
  BY <1>1, <1>2, <1>3, <1>4, <1>5, <1>6, <1>7, <1>8, <1>9, <1>10, <1>11, <1>12, <1>13, <1>14,
     <1>15, <1>16, <1>17, <1>18, <1>19, <1>20, <1>21, <1>22, <1>23, <1>24, <1>25, <1>26
     DEF Next, Dispatch, Runner, Drain

\* Each action that gives an idle conversation work leaves it a wake.
LEMMA StrandedStep ==
    ASSUME RegistryInv, [Next]_vars
    PROVE  NothingIsStranded'
<1> USE DEF TypeOK, DispatchInv, RecordInv, NothingIsStranded, Idle, Waiting, Active, Behind, NoRecord, Undone, UnderWay, Outcomes, durable, tasks
<1> TypeOK /\ DispatchInv /\ PhaseInv /\ RecordInv /\ NoticeInv /\ NothingIsStranded
  BY DEF RegistryInv
<1>1. ASSUME NEW j \in Jobs, Prepare(j)
      PROVE  NothingIsStranded'
  BY <1>1 DEF Prepare
<1>2. ASSUME NEW j \in Jobs, BeginCommit(j)
      PROVE  NothingIsStranded'
  BY <1>2 DEF BeginCommit, Rollback
<1>3. ASSUME NEW j \in Jobs, AwaitPermission(j)
      PROVE  NothingIsStranded'
  BY <1>3 DEF AwaitPermission, Rollback
<1>4. ASSUME NEW j \in Jobs, CommitRefused(j)
      PROVE  NothingIsStranded'
  BY <1>4 DEF CommitRefused, Rollback, LeaveGate
<1>5. ASSUME NEW j \in Jobs, CommitFails(j)
      PROVE  NothingIsStranded'
  BY <1>5 DEF CommitFails, Rollback, LeaveGate, Committable, Refused, Lost
<1>6. ASSUME NEW j \in Jobs, CommitDispatch(j)
      PROVE  NothingIsStranded'
  BY <1>6 DEF CommitDispatch, LeaveGate, Committable
<1>7. ASSUME NEW j \in Jobs, Cancel(j)
      PROVE  NothingIsStranded'
  <2>1. /\ record'[j] \in Records
        /\ record' = [record EXCEPT ![j] = record'[j]]
        /\ record[j].state \in {"Starting", "Running"}
        /\ record'[j].state = "Cancelling" /\ record'[j].reason = "user"
        /\ record'[j].pending = record[j].pending /\ record'[j].abandoned = record[j].abandoned
    BY <1>7, CutEffects DEF Cancel
  <2> QED
    BY <1>7, <2>1 DEF Cancel, NamesCause
<1>8. ASSUME NEW j \in Jobs, MarkRunning(j)
      PROVE  NothingIsStranded'
  <2>1. /\ record' = [record EXCEPT ![j] = record'[j]]
        /\ record'[j].state = IF record[j].state = "Starting" THEN "Running" ELSE record[j].state
        /\ record'[j].reason = record[j].reason
        /\ record'[j].pending = record[j].pending
        /\ record'[j].abandoned = record[j].abandoned
    BY <1>8, MarkEffects
  <2>2. /\ runner[j] = "released" /\ runner' = [runner EXCEPT ![j] = "executing"]
        /\ UNCHANGED <<lifecycle, attempt, dispatch, prepared, real, gate, durable, wake, drain,
                       faults>>
    BY <1>8 DEF MarkRunning
  <2> QED
    BY <2>1, <2>2 DEF NamesCause
<1>9. ASSUME NEW j \in Jobs, NEW o \in Outcomes, ExecutorReturns(j, o)
      PROVE  NothingIsStranded'
  BY <1>9 DEF ExecutorReturns
<1>10. ASSUME NEW j \in Jobs, Finish(j)
      PROVE  NothingIsStranded'
  <2>1. PICK d \in Notices : Publishes(j, d)
    BY <1>10, FinishPublishes
  <2> QED
    BY <2>1, PublishingWakes
<1>11. ASSUME NEW j \in Jobs, RetryPublication(j)
      PROVE  NothingIsStranded'
  <2>1. CASE RetryIsOver(j)
    BY <2>1 DEF RetryIsOver
  <2>2. CASE \E d \in Notices : Publishes(j, d)
    BY <2>2, PublishingWakes
  <2> QED
    BY <1>11, <2>1, <2>2, RetryPublishes
<1>12. ASSUME NEW j \in Jobs, BeginReport(j)
      PROVE  NothingIsStranded'
  BY <1>12 DEF BeginReport
<1>13. ASSUME NEW j \in Jobs, ReportFailure(j)
      PROVE  NothingIsStranded'
  BY <1>13 DEF ReportFailure
<1>14. ASSUME NEW j \in Jobs, MarkAbandoned(j)
      PROVE  NothingIsStranded'
  BY <1>14, AbandonEffects DEF MarkAbandoned, NamesCause
<1>15. ASSUME NEW j \in Jobs, PublishInterrupted(j)
      PROVE  NothingIsStranded'
  <2>1. \A k \in Jobs : runner[k] \in {"none", "aborted", "done"} /\ record[k] = NoRecord
    BY <1>15 DEF PublishInterrupted, PhaseInv
  <2>2. /\ j \in owned /\ notice[j] = {} /\ lifecycle = "Down"
        /\ notice' = [notice EXCEPT ![j] = notice'[j]]
        /\ \A n \in notice'[j] : n.settled = "OutcomeUnknown"
        /\ \A n, m \in notice'[j] : n = m
        /\ UNCHANGED <<lifecycle, attempt, dispatch, tasks, gate, owned, adopted, rounds, wake,
                       drain, changed, faults>>
    BY <1>15, InterruptedIsUnknown DEF PublishInterrupted
  <2> QED
    BY <2>1, <2>2
<1>16. CASE AdmitNextAttempt
  BY <1>16 DEF AdmitNextAttempt
<1>17. CASE CancelAttempt
  BY <1>17 DEF CancelAttempt
<1>18. CASE FinishAttempt
  BY <1>18 DEF FinishAttempt
<1>19. CASE BeginDrain
  BY <1>19 DEF BeginDrain
<1>20. CASE DrainJobs
  <2>1. ASSUME NEW k \in Jobs
        PROVE  /\ record'[k] \in Records
               /\ record'[k].pending = record[k].pending
               /\ record'[k].abandoned = record[k].abandoned
               /\ \/ record'[k] = record[k]
                  \/ /\ record[k].state \in {"Starting", "Running"}
                     /\ record'[k].state = "Cancelling" /\ record'[k].reason = "shutdown"
    BY <1>20, CutEffects DEF DrainJobs
  <2>2. /\ attempt = "ended"
        /\ UNCHANGED <<lifecycle, attempt, dispatch, prepared, runner, real, gate, durable, wake,
                       changed, faults>>
    BY <1>20 DEF DrainJobs
  <2> QED
    BY <1>20, <2>1, <2>2 DEF DrainJobs, NamesCause
<1>21. CASE DrainAwaits
  BY <1>21 DEF DrainAwaits
<1>22. CASE DrainAborts
  BY <1>22 DEF DrainAborts
<1>23. CASE DrainDecides
  BY <1>23 DEF DrainDecides
<1>24. CASE Crash
  BY <1>24 DEF Crash
<1>25. CASE Activate
  BY <1>25 DEF Activate
<1>26. CASE UNCHANGED vars
  BY <1>26 DEF vars
<1> HIDE DEF TypeOK, DispatchInv, RecordInv, NothingIsStranded, Idle, Waiting, Active, Behind, NoRecord, Undone, UnderWay, Outcomes, durable, tasks
<1> QED
  BY <1>1, <1>2, <1>3, <1>4, <1>5, <1>6, <1>7, <1>8, <1>9, <1>10, <1>11, <1>12, <1>13, <1>14,
     <1>15, <1>16, <1>17, <1>18, <1>19, <1>20, <1>21, <1>22, <1>23, <1>24, <1>25, <1>26
     DEF Next, Dispatch, Runner, Drain

-----------------------------------------------------------------------------
(* Theorems.                                                                *)

\* In every behaviour the dispatch, the runner, the record and the messages of
\* a job, and the phases of the drain, agree (background.rs 1151-2484).
THEOREM RegistryInvariant == Spec => []RegistryInv
<1>1. RegistryInv /\ [Next]_vars => RegistryInv'
  BY RegistryTypeStep, DispatchStep, RecordStep, PhaseStep, NoticeStep, StrandedStep
     DEF RegistryInv
<1> QED
  BY RegistryInit, <1>1, PTL DEF Spec

\* A set whose elements are equal has at most one.
LEMMA AtMostOne ==
    ASSUME NEW S, \A n, m \in S : n = m
    PROVE  Cardinality(S) <= 1
<1>1. CASE S = {}
  BY <1>1, FS_EmptySet
<1>2. CASE S # {}
  <2>1. PICK n : S = {n}
    BY <1>2
  <2> QED
    BY <2>1, FS_Singleton, 1 <= 1
<1> QED
  BY <1>1, <1>2

\* A job runs only when the conversation durably owns it, it gets at most one
\* terminal message, and the message says what the executor proved, or that
\* nobody knows, and who won the cancellation (background.rs 1361-1510,
\* 1903-2216), for any number of jobs, storage errors and deaths.
THEOREM JobsAreAlwaysTruthful == Spec => []JobsAreTruthful
<1>1. RegistryInv => JobsAreTruthful
  <2> SUFFICES ASSUME RegistryInv PROVE JobsAreTruthful
    OBVIOUS
  <2>1. TypeOK /\ RecordInv /\ NoticeInv
    BY DEF RegistryInv
  <2>2. RunningIsOwned
    BY <2>1 DEF RecordInv, RunningIsOwned, Behind
  <2>3. NoticeIsTruthful
    BY <2>1, AtMostOne DEF NoticeInv, NamesCause, NoticeIsTruthful
  <2> QED
    BY <2>1, <2>2, <2>3 DEF JobsAreTruthful
<1> QED
  BY <1>1, RegistryInvariant, PTL

\* When a drain has ended nothing of a job can call back into the conversation
\* (background.rs 2044-2110): no dispatch, no runner, no publication is left.
THEOREM DrainAlwaysLeavesNoCallback == Spec => []DrainLeavesNoCallback
<1>1. RegistryInv => DrainLeavesNoCallback
  <2> SUFFICES ASSUME RegistryInv, drain.step \in {"quiescent", "failed"}
               PROVE  /\ prepared = {} /\ Unsettled = {}
                      /\ \A j \in Jobs : /\ dispatch[j] \in {"none", "done"}
                                         /\ runner[j] \in {"none", "aborted", "finished", "done"}
                                         /\ runner[j] = "finished" => record[j].pending = {}
    BY DEF DrainLeavesNoCallback
  <2>1. TypeOK /\ DispatchInv /\ PhaseInv /\ RecordInv
    BY DEF RegistryInv
  <2>2. attempt = "ended" /\ Unsettled = {}
    BY <2>1 DEF PhaseInv
  <2>3. \A j \in Jobs : dispatch[j] \in {"none", "done"} /\ runner[j] # "parked"
    BY <2>1, <2>2 DEF TypeOK, DispatchInv, UnderWay
  <2>4. prepared = {}
    BY <2>1, <2>3 DEF TypeOK, DispatchInv
  <2>5. ASSUME NEW j \in Jobs
        PROVE  /\ runner[j] \in {"none", "aborted", "finished", "done"}
               /\ runner[j] = "finished" => record[j].pending = {}
    <3>1. record[j].state \notin Active \/ record[j].abandoned
      BY <2>2 DEF Unsettled
    <3> QED
      BY <2>1, <2>3, <3>1 DEF TypeOK, RecordInv, Active, Undone
  <2> QED
    BY <2>2, <2>3, <2>4, <2>5
<1> QED
  BY <1>1, RegistryInvariant, PTL

\* An idle conversation with something to do has a wake on its way, whatever
\* its jobs do, unless a receipt was lost (background.rs 2256-2290).
THEOREM NothingIsEverStranded == Spec => []NothingIsStranded
<1>1. RegistryInv => NothingIsStranded
  BY DEF RegistryInv
<1> QED
  BY <1>1, RegistryInvariant, PTL
=============================================================================
