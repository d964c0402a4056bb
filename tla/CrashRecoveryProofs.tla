------------------------ MODULE CrashRecoveryProofs -------------------------
(***************************************************************************)
(* Proofs of the safety properties of CrashRecovery for any number of      *)
(* turns, calls, retries, deaths and storage errors.                       *)
(***************************************************************************)
EXTENDS CrashRecovery, FiniteSetTheorems, WellFoundedInduction, NaturalsInduction, TLAPS

\* The newest attempt: its evidence, and its requests in the order they started.
Top == evidence.highest
Entry == evidence.attempts[Top]
IsOpen == Top # 0 /\ Entry.open
Own == RequestsOf(Top)
Before(q, r) == q[2] < r[2] \/ (q[2] = r[2] /\ q[3] <= r[3])
IsNewest(r) == r \in Own /\ \A q \in Own : Before(q, r)
Canonical(r) == r \in DOMAIN streams /\ streams[r].settlement = "canonical"
Begun == live.id[1] = Top

\* What the process does, and what it may go on with.
PhaseInv ==
    /\ phase # "refused"
    /\ phase # "attempt" => live = NoAttempt
    /\ phase = "attempt" => live.at \in Places
    /\ phase # "recovering" => plan = NoPlan
    /\ continuation => phase = "idle" /\ evidence.obligation
    /\ plan.resume => evidence.obligation
    /\ evidence.obligation => \E t \in Turns : turn[t] = "adopted"

\* At most the newest attempt is open: it is the one the process runs, or the one
\* that the recovery settles.
OpenInv ==
    /\ \A a \in Attempts : ~evidence.attempts[a].open => evidence.attempts[a] = NotOpen
    /\ \A a \in Attempts : evidence.attempts[a].open => a = Top
    /\ phase = "idle" => ~IsOpen
    /\ phase = "attempt" /\ Begun => IsOpen /\ live.at # "starting"
    /\ phase = "attempt" /\ ~Begun =>
          /\ live.id = <<Top + 1, 0, 0>> /\ Top + 1 \in Attempts
          /\ ~IsOpen /\ evidence.obligation
          /\ live.at \in {"starting", "ending"} /\ ~live.unresolved
    /\ phase = "recovering" => plan.attempt = (IF IsOpen THEN Top ELSE None)

\* Only the newest request may have an unsettled stream, and only while its attempt
\* is open; a call belongs to a message that was accepted.
RowInv ==
    /\ \A r \in DOMAIN outcome : r[1] <= Top /\ (IsOpen => r[1] = Top)
    /\ Own # {} => \E r \in Own : IsNewest(r)
    /\ \A r \in Unsettled : IsOpen /\ IsNewest(r)
    /\ \A r \in DOMAIN streams : streams[r].terminal => outcome[r] = "completed"
    /\ \A o \in DOMAIN results : Canonical(o[1])

\* How far the running attempt is with its newest request.
LiveInv ==
    phase = "attempt" /\ Begun =>
        /\ (live.id[2] = 0 /\ Own = {} /\ ~live.unresolved) \/ IsNewest(live.id)
        /\ IsNewest(live.id) => (live.unresolved <=> ~Canonical(live.id))
        /\ live.at \notin {"turn", "ending"} => IsNewest(live.id)
        /\ live.at = "turn" /\ IsNewest(live.id) => Canonical(live.id)
        /\ live.at = "streaming" => outcome[live.id] = "started"
        /\ live.at \in {"failed", "retrying"} => outcome[live.id] = "failed"
        /\ live.at \in {"completed", "published"} =>
              outcome[live.id] = "completed" /\ live.id \in Unsettled
        /\ live.at \in {"streaming", "failed"} /\ live.id \in DOMAIN streams => live.id \in Unsettled
        /\ live.at = "retrying" => live.id \notin Unsettled /\ live.unresolved /\ live.id[3] < MaxRetries
        /\ live.at \in {"tools", "settling", "boundary"} => Canonical(live.id)
        /\ live.at \in {"tools", "settling"} => live.tools
        /\ live.at \in {"tools", "settling", "boundary"} /\ live.tools => live.id[2] <= ToolSteps

\* What the fold says of the newest attempt's requests is so.
EvidenceInv ==
    IsOpen =>
        /\ Entry.request = "never" <=> Own = {}
        /\ Own # {} => carryover = None
        /\ Entry.last = None => Own = {} \/ \E r \in Own : IsNewest(r) /\ Canonical(r)
        /\ Entry.last # None => IsNewest(Entry.last)
        /\ Entry.accepted # None => Entry.accepted \in Own
        /\ \A r \in Own : IsNewest(r) =>
              /\ Entry.request = "unknown" <=> outcome[r] = "started"
              /\ Canonical(r) <=> Entry.accepted = r

\* The calls without a result are those of one message of the newest attempt, and the
\* fold tells how far each of them came.
Told(o) == IF o \notin DOMAIN effects THEN "none"
           ELSE IF effects[o] = "recorded" THEN "known" ELSE "unknown"
CallInv ==
    /\ \A o \in Missing : o[1] \in Own /\ evidence.repairs[<<Top, o[2]>>] = Told(o)
    /\ \A o, p \in Missing : o[1] = p[1]
    /\ \A a \in Attempts, c \in Calls :
          evidence.repairs[<<a, c>>] # "none" => a = Top /\ \E o \in Missing : o[2] = c
    /\ Missing # {} => \/ phase \in {"down", "recovering", "blocked"}
                       \/ /\ phase = "attempt" /\ live.at \in {"tools", "settling", "ending"}
                          /\ \A o \in Missing : o[1] = live.id

\* Which calls the running attempt has started.
StartedInv ==
    phase = "attempt" =>
        /\ live.at \in {"streaming", "completed", "published"} => live.started = {}
        /\ live.at \in {"tools", "settling"} =>
              /\ \A o \in Ours : o \in Missing
              /\ \A c \in Calls : c \in live.started <=> <<live.id, c>> \in DOMAIN effects
        /\ live.at = "settling" => Ran({"announced", "running"}) = {}

\* What the attempt keeps of its tools.
ToolInv ==
    IsOpen =>
        /\ Entry.tools = "never" <=> DOMAIN effects = {}
        /\ Entry.tools = "irreversible" <=>
              \E o \in DOMAIN effects : o \notin Missing /\ effects[o] # "recorded"
        /\ Entry.tools = "outstanding" => \E o \in DOMAIN effects : effects[o] # "recorded"
        /\ Entry.tools = "known" => \A o \in DOMAIN effects : effects[o] = "recorded"

\* The plan of a recovery, less what it has committed.
PlanInv ==
    phase = "recovering" =>
        /\ plan.publications = Unsettled
        /\ DOMAIN plan.repairs = Missing
        /\ \A o \in Missing : plan.repairs[o] = IF Told(o) = "none" THEN "not_run" ELSE Told(o)
        /\ IsOpen => plan.last = Entry.last /\ plan.accepted = Entry.accepted

\* Attempts and their steps are paid for by turns, deaths and errors.
Taken == {t \in Turns : turn[t] \notin {"none", "pending"}}
Due == evidence.obligation /\ (phase # "attempt" \/ ~Begun)
CountInv ==
    /\ Top <= Cardinality(Taken) + crashes + faults
    /\ Due => Top + 1 <= Cardinality(Taken) + crashes + faults
    /\ phase = "attempt" =>
          /\ live.id[2] <= ToolSteps + Cardinality(Taken) + 1
          /\ live.at = "turn" => live.id[2] <= ToolSteps + Cardinality(Taken)

\* What the result of a call says of it.
ResultInv ==
    \A o \in DOMAIN results :
         /\ results[o] = "not_run" => o \notin DOMAIN effects
         /\ results[o] = "known" => o \in DOMAIN effects /\ effects[o] = "recorded"
         /\ results[o] = "unknown" => o \in DOMAIN effects /\ effects[o] # "recorded"

\* What a concluded attempt leaves to the next one.
CarryInv ==
    Top # 0 /\ ~IsOpen => \A r \in Own : IsNewest(r) =>
        carryover = IF Canonical(r) THEN None ELSE UnresolvedOutputSource(r)

RecoveryInv ==
    /\ TypeOK /\ PhaseInv /\ OpenInv /\ RowInv /\ LiveInv /\ EvidenceInv
    /\ CallInv /\ StartedInv /\ ToolInv /\ PlanInv /\ CountInv /\ ResultInv /\ CarryInv
    /\ VerdictIsTruthful

-----------------------------------------------------------------------------
(* Identities, and what the operators of the model do.                      *)

\* The bounds are numbers, and an identity is made of its parts.
LEMMA Bounds ==
    /\ Cardinality(Turns) \in Nat /\ ToolSteps \in Nat /\ MaxRetries \in Nat
    /\ MaxCrashes \in Nat /\ MaxFaults \in Nat
    /\ Attempts \subseteq Nat /\ 0 \notin Attempts /\ Steps \subseteq Nat /\ 0 \notin Steps
    /\ 0 \in 0 .. MaxRetries /\ 0 .. MaxRetries \subseteq Nat
BY RecoveryAssumption, FS_CardinalityType DEF Attempts, Steps

LEMMA RequestParts ==
    \A r \in Requests : /\ r[1] \in Attempts /\ r[2] \in Steps /\ r[3] \in 0 .. MaxRetries
                        /\ r[1] \in Nat /\ r[2] \in Nat /\ r[3] \in Nat /\ r[1] # 0 /\ r[2] # 0
                        /\ r = <<r[1], r[2], r[3]>>
<1> TAKE r \in Requests
<1>1. r[1] \in Attempts /\ r[2] \in Steps /\ r[3] \in 0 .. MaxRetries
  BY DEF Requests
<1>2. r = <<r[1], r[2], r[3]>>
  BY DEF Requests
<1> QED
  BY <1>1, <1>2, Bounds

LEMMA OccurrenceParts ==
    /\ \A o \in Occurrences : o[1] \in Requests /\ o[2] \in Calls /\ o = <<o[1], o[2]>>
    /\ \A r \in Requests, c \in Calls : <<r, c>> \in Occurrences /\ <<r, c>>[1] = r /\ <<r, c>>[2] = c
BY DEF Occurrences

LEMMA NoneIsNothing == None \notin Requests /\ None \notin Attempts
BY NoneAssumption

\* The order of the requests of an attempt has one newest request.
LEMMA NewestIsUnique ==
    ASSUME TypeOK, NEW a, NEW r \in RequestsOf(a), \A q \in RequestsOf(a) : Before(q, r)
    PROVE  Newest(a) = r
<1>1. RequestsOf(a) \subseteq Requests
  BY DEF RequestsOf, TypeOK, DurableTypeOK
<1>2. \A q \in RequestsOf(a) : (\A p \in RequestsOf(a) : Before(p, q)) => q = r
  <2> SUFFICES ASSUME NEW q \in RequestsOf(a), Before(r, q), Before(q, r) PROVE q = r
    OBVIOUS
  <2>1. /\ q[2] \in Nat /\ r[2] \in Nat /\ q[3] \in Nat /\ r[3] \in Nat
        /\ q = <<q[1], q[2], q[3]>> /\ r = <<r[1], r[2], r[3]>> /\ q[1] = a /\ r[1] = a
    BY <1>1, RequestParts DEF RequestsOf
  <2>2. q[2] = r[2] /\ q[3] = r[3]
    BY <2>1 DEF Before
  <2> QED
    BY <2>1, <2>2
<1> DEFINE IsOne(q) == \A p \in RequestsOf(a) : p[2] < q[2] \/ (p[2] = q[2] /\ p[3] <= q[3])
<1>3. Newest(a) = CHOOSE q \in RequestsOf(a) : IsOne(q)
  BY DEF Newest
<1>4. IsOne(r) /\ \A q \in RequestsOf(a) : IsOne(q) => q = r
  BY <1>2 DEF Before
<1> HIDE DEF IsOne
<1> QED
  BY <1>3, <1>4

LEMMA NewestOwn ==
    ASSUME TypeOK, NEW r, IsNewest(r)
    PROVE  Newest(Top) = r /\ r \in Own /\ r \in DOMAIN outcome /\ r[1] = Top
BY NewestIsUnique DEF IsNewest, Own, RequestsOf

LEMMA WithIs ==
    ASSUME NEW f, NEW k, NEW v
    PROVE  /\ DOMAIN With(f, k, v) = DOMAIN f \cup {k} /\ With(f, k, v)[k] = v
           /\ \A x \in DOMAIN f : x # k => With(f, k, v)[x] = f[x]
           /\ With(f, k, v) \in [DOMAIN f \cup {k} -> {v} \cup {f[x] : x \in DOMAIN f}]
BY DEF With

LEMMA WithAllIs ==
    ASSUME NEW f, NEW K, NEW v
    PROVE  /\ DOMAIN WithAll(f, K, v) = DOMAIN f \cup K
           /\ \A x \in DOMAIN f \cup K : WithAll(f, K, v)[x] = IF x \in K THEN v ELSE f[x]
BY DEF WithAll

\* What an event of the open attempt leaves of the evidence: its entry becomes e.
Revised(e) ==
    /\ evidence' \in RecoveryEvidence /\ Top' = Top /\ Entry' = e /\ IsOpen'
    /\ \A a \in Attempts : a # Top => evidence'.attempts[a] = evidence.attempts[a]

LEMMA ReviseIs ==
    ASSUME TypeOK, IsOpen, NEW ev \in RecoveryEvidence, ev.attempts = evidence.attempts,
           ev.highest = Top, NEW e \in Entries, e.open, evidence' = Revise(ev, Top, e)
    PROVE  Revised(e) /\ evidence'.repairs = ev.repairs /\ evidence'.obligation = ev.obligation
<1>1. Top \in Attempts /\ ev.attempts[Top].open /\ ev.attempts \in [Attempts -> Entries]
  BY DEF IsOpen, Top, Entry, TypeOK, DurableTypeOK, RecoveryEvidence
<1>2. evidence' = [ev EXCEPT !.attempts[Top] = e]
  BY <1>1 DEF Revise
<1>3. evidence'.attempts = [ev.attempts EXCEPT ![Top] = e]
  BY <1>1, <1>2 DEF RecoveryEvidence
<1>4. /\ evidence'.highest = ev.highest /\ evidence'.repairs = ev.repairs
      /\ evidence'.obligation = ev.obligation /\ evidence' \in RecoveryEvidence
  BY <1>1, <1>2, <1>3 DEF RecoveryEvidence
<1>5. Top' = Top
  BY <1>4 DEF Top
<1>6. Entry' = e
  BY <1>1, <1>3, <1>5 DEF Entry
<1> QED
  BY <1>1, <1>3, <1>4, <1>5, <1>6 DEF Revised, IsOpen, Entry

LEMMA EntryType ==
    ASSUME TypeOK, IsOpen
    PROVE  Top \in Attempts /\ Entry \in Entries /\ Entry.open /\ evidence.attempts[Top] = Entry
           /\ evidence \in RecoveryEvidence
BY DEF IsOpen, Top, Entry, TypeOK, DurableTypeOK, RecoveryEvidence

LEMMA RequestStartedFolds ==
    ASSUME TypeOK, IsOpen, NEW r \in Requests, r[1] = Top,
           evidence' = FoldRequestStarted(evidence, r)
    PROVE  /\ Revised([Entry EXCEPT !.request = "unknown", !.last = r])
           /\ evidence'.repairs = evidence.repairs /\ evidence'.obligation = FALSE
<1> DEFINE ev == [evidence EXCEPT !.obligation = FALSE]
           e == [Entry EXCEPT !.request = "unknown", !.last = r]
<1>1. /\ ev \in RecoveryEvidence /\ ev.attempts = evidence.attempts /\ ev.highest = Top
      /\ ev.repairs = evidence.repairs /\ ev.obligation = FALSE
  BY EntryType DEF RecoveryEvidence, Top
<1>2. e \in Entries /\ e.open
  BY EntryType DEF Entries
<1>3. evidence' = Revise(ev, Top, e)
  BY EntryType DEF FoldRequestStarted
<1> QED
  BY <1>1, <1>2, <1>3, ReviseIs

LEMMA RequestSettledFolds ==
    ASSUME TypeOK, IsOpen, NEW r \in Requests, r[1] = Top,
           evidence' = FoldRequestSettled(evidence, r)
    PROVE  /\ Revised([Entry EXCEPT !.request = "known"])
           /\ evidence'.repairs = evidence.repairs /\ evidence'.obligation = evidence.obligation
<1>1. [Entry EXCEPT !.request = "known"] \in Entries /\ [Entry EXCEPT !.request = "known"].open
  BY EntryType DEF Entries
<1> QED
  BY <1>1, EntryType, ReviseIs DEF FoldRequestSettled, Top

LEMMA AssistantFolds ==
    ASSUME TypeOK, IsOpen, NEW r \in Requests, r[1] = Top,
           evidence' = FoldAssistant(evidence, r)
    PROVE  /\ Revised([Entry EXCEPT !.accepted = r])
           /\ evidence'.repairs = evidence.repairs /\ evidence'.obligation = evidence.obligation
<1>1. [Entry EXCEPT !.accepted = r] \in Entries /\ [Entry EXCEPT !.accepted = r].open
  BY EntryType DEF Entries
<1> QED
  BY <1>1, EntryType, ReviseIs DEF FoldAssistant, Top

LEMMA ToolStartedFolds ==
    ASSUME TypeOK, IsOpen, NEW c \in Calls, evidence' = FoldToolStarted(evidence, Top, c)
    PROVE  /\ Revised([Entry EXCEPT !.tools = IF Entry.tools = "irreversible" THEN "irreversible" ELSE "outstanding"])
           /\ evidence'.repairs = [evidence.repairs EXCEPT ![<<Top, c>>] = "unknown"]
           /\ evidence'.obligation = evidence.obligation
<1> DEFINE ev == [evidence EXCEPT !.repairs[<<Top, c>>] = "unknown"]
           e == [Entry EXCEPT !.tools = IF Entry.tools = "irreversible" THEN "irreversible" ELSE "outstanding"]
<1>1. /\ ev.repairs = [evidence.repairs EXCEPT ![<<Top, c>>] = "unknown"]
      /\ ev.attempts = evidence.attempts /\ ev.highest = Top /\ ev.obligation = evidence.obligation
  BY EntryType DEF RecoveryEvidence, Top
<1>2. ev \in RecoveryEvidence
  BY EntryType DEF RecoveryEvidence
<1>3. e \in Entries /\ e.open
  BY EntryType DEF Entries
<1>4. evidence' = Revise(ev, Top, e)
  BY EntryType DEF FoldToolStarted
<1> HIDE DEF ev, e
<1>5. Revised(e) /\ evidence'.repairs = ev.repairs /\ evidence'.obligation = ev.obligation
  BY <1>1, <1>2, <1>3, <1>4, ReviseIs
<1> QED
  BY <1>1, <1>5 DEF e

LEMMA ToolCompletedFolds ==
    ASSUME TypeOK, IsOpen, NEW c \in Calls, evidence' = FoldToolCompleted(evidence, Top, c)
    PROVE  /\ evidence'.repairs = [evidence.repairs EXCEPT ![<<Top, c>>] = "known"]
           /\ evidence'.obligation = evidence.obligation
           /\ \E tools : /\ Revised([Entry EXCEPT !.tools = tools])
                         /\ tools = IF Entry.tools = "irreversible" THEN "irreversible"
                                    ELSE IF \E d \in Calls : evidence'.repairs[<<Top, d>>] = "unknown"
                                         THEN "outstanding" ELSE "known"
<1> DEFINE repairs == [evidence.repairs EXCEPT ![<<Top, c>>] = "known"]
           ev == [evidence EXCEPT !.repairs = repairs]
           tools == IF Entry.tools = "irreversible" THEN "irreversible"
                    ELSE IF \E d \in Calls : repairs[<<Top, d>>] = "unknown" THEN "outstanding" ELSE "known"
           e == [Entry EXCEPT !.tools = tools]
<1>1. /\ ev.repairs = repairs
      /\ ev.attempts = evidence.attempts /\ ev.highest = Top /\ ev.obligation = evidence.obligation
  BY EntryType DEF RecoveryEvidence, Top
<1>2. ev \in RecoveryEvidence
  BY EntryType DEF RecoveryEvidence
<1>3. e \in Entries /\ e.open
  BY EntryType DEF Entries
<1>4. evidence' = Revise(ev, Top, e)
  BY EntryType DEF FoldToolCompleted
<1> HIDE DEF ev
<1>5. Revised(e) /\ evidence'.repairs = repairs /\ evidence'.obligation = evidence.obligation
  BY <1>1, <1>2, <1>3, <1>4, ReviseIs
<1> QED
  BY <1>5

\* The results of the calls C of attempt a release their evidence.
Released(C) ==
    /\ evidence' \in RecoveryEvidence /\ Top' = Top
    /\ evidence'.obligation = evidence.obligation
    /\ \A a \in Attempts, c \in Calls : evidence'.repairs[<<a, c>>] =
          IF a = Top /\ c \in C THEN "none" ELSE evidence.repairs[<<a, c>>]

LEMMA ResultsFold ==
    ASSUME TypeOK, Top \in Attempts, NEW C \in SUBSET Calls,
           evidence' = FoldResults(evidence, Top, C)
    PROVE  /\ Released(C)
           /\ IsOpen => Revised([Entry EXCEPT !.tools =
                 IF \E c \in C : evidence.repairs[<<Top, c>>] = "unknown" THEN "irreversible" ELSE Entry.tools])
           /\ ~IsOpen => evidence'.attempts = evidence.attempts
<1> DEFINE tools == IF \E c \in C : evidence.repairs[<<Top, c>>] = "unknown"
                    THEN "irreversible" ELSE Entry.tools
           repairs == [k \in Attempts \X Calls |->
                         IF k[1] = Top /\ k[2] \in C THEN "none" ELSE evidence.repairs[k]]
           ev == [evidence EXCEPT !.repairs = repairs]
           e == [Entry EXCEPT !.tools = tools]
<1>0. evidence \in RecoveryEvidence
  BY DEF TypeOK, DurableTypeOK
<1>1. /\ ev.repairs = repairs
      /\ ev.attempts = evidence.attempts /\ ev.highest = Top /\ ev.obligation = evidence.obligation
  BY <1>0 DEF RecoveryEvidence, Top
<1>2. repairs \in [Attempts \X Calls -> {"none", "unknown", "known"}]
  BY <1>0 DEF RecoveryEvidence
<1>3. ev \in RecoveryEvidence
  BY <1>0, <1>2 DEF RecoveryEvidence
<1>4. evidence' = Revise(ev, Top, e)
  BY DEF FoldResults, Entry
<1>5. \A a \in Attempts, c \in Calls : repairs[<<a, c>>] =
          IF a = Top /\ c \in C THEN "none" ELSE evidence.repairs[<<a, c>>]
  OBVIOUS
<1> HIDE DEF ev, repairs
<1>6. CASE IsOpen
  <2>1. e \in Entries /\ e.open
    BY <1>6, EntryType DEF Entries
  <2>2. Revised(e) /\ evidence'.repairs = repairs /\ evidence'.obligation = evidence.obligation
    BY <1>1, <1>3, <1>4, <1>6, <2>1, ReviseIs
  <2> QED
    BY <1>5, <1>6, <2>2 DEF Revised, Released
<1>7. CASE ~IsOpen
  <2>1. evidence' = ev
    BY <1>0, <1>1, <1>4, <1>7, Bounds DEF Revise, IsOpen, Entry
  <2> QED
    BY <1>1, <1>3, <1>5, <1>7, <2>1 DEF Released, Top
<1> QED
  BY <1>6, <1>7

-----------------------------------------------------------------------------
(* One lemma per action.                                                    *)

\* The parts of the invariant that are about rows and evidence stay as they are.
Durables == <<evidence, outcome, streams, results, effects, carryover>>
LEMMA SameDurables ==
    ASSUME UNCHANGED Durables
    PROVE  /\ Top' = Top /\ Entry' = Entry /\ IsOpen' = IsOpen /\ Own' = Own
           /\ Missing' = Missing /\ Unsettled' = Unsettled
           /\ \A r : IsNewest(r)' = IsNewest(r) /\ Canonical(r)' = Canonical(r)
           /\ \A r : UnresolvedOutputSource(r)' = UnresolvedOutputSource(r)
           /\ \A o : Told(o)' = Told(o)
           /\ \A a : /\ RequestsOf(a)' = RequestsOf(a)
                     /\ RequestUnknown(a)' = RequestUnknown(a) /\ ToolUnknown(a)' = ToolUnknown(a)
BY DEF Durables, Top, Entry, IsOpen, Own, RequestsOf, Missing, Unsettled, IsNewest, Canonical,
       UnresolvedOutputSource, Carriable, Told, RequestUnknown, ToolUnknown, Newest

LEMMA AcceptKeeps ==
    ASSUME RecoveryInv, NEW t \in Turns, Accept(t)
    PROVE  RecoveryInv'
<1> /\ TypeOK /\ PhaseInv /\ OpenInv /\ RowInv /\ LiveInv /\ EvidenceInv
    /\ CallInv /\ StartedInv /\ ToolInv /\ PlanInv /\ CountInv /\ ResultInv /\ CarryInv
    /\ VerdictIsTruthful
  BY DEF RecoveryInv
<1>1. /\ UNCHANGED Durables /\ UNCHANGED <<process, crashes, faults>>
      /\ turn[t] = "none" /\ turn' = [turn EXCEPT ![t] = "pending"]
  BY DEF Accept, Durables
<1>2. TypeOK'
  BY <1>1 DEF TypeOK, DurableTypeOK, ProcessTypeOK, PlanTypeOK, Durables, process
<1>3. Taken' = Taken
  BY <1>1 DEF Taken, TypeOK, DurableTypeOK
<1>4. PhaseInv' /\ CountInv'
  BY <1>1, <1>3 DEF PhaseInv, CountInv, Due, Begun, Top, Durables, process, TypeOK, DurableTypeOK
<1>5. OpenInv' /\ RowInv' /\ LiveInv' /\ EvidenceInv'
  BY <1>1, SameDurables DEF OpenInv, RowInv, LiveInv, EvidenceInv, Begun, Durables, process
<1>6. CallInv' /\ StartedInv' /\ ToolInv' /\ PlanInv'
  BY <1>1, SameDurables DEF CallInv, StartedInv, ToolInv, PlanInv, Ours, Ran, Durables, process
<1>7. ResultInv' /\ CarryInv' /\ VerdictIsTruthful'
  BY <1>1, SameDurables DEF ResultInv, CarryInv, VerdictIsTruthful, Durables, process
<1> QED
  BY <1>2, <1>4, <1>5, <1>6, <1>7 DEF RecoveryInv

\* A runtime that is left or dies forgets what it holds; the rest is durable.
LEMMA LeavingKeeps ==
    ASSUME RecoveryInv, UNCHANGED Durables, turn' = turn, live' = NoAttempt, plan' = NoPlan,
           continuation' = FALSE, phase' \in {"down", "blocked"},
           crashes' \in 0 .. MaxCrashes, faults' \in 0 .. MaxFaults,
           \/ crashes' = crashes /\ faults' = faults /\ phase # "attempt"
           \/ crashes' = crashes + 1 /\ faults' = faults
           \/ crashes' = crashes /\ faults' = faults + 1
    PROVE  RecoveryInv'
<1> /\ TypeOK /\ PhaseInv /\ OpenInv /\ RowInv /\ LiveInv /\ EvidenceInv
    /\ CallInv /\ StartedInv /\ ToolInv /\ PlanInv /\ CountInv /\ ResultInv /\ CarryInv
    /\ VerdictIsTruthful
  BY DEF RecoveryInv
<1>1. NoAttempt.id \in (Attempts \cup {0}) \X (Steps \cup {0}) \X (0 .. MaxRetries)
  BY Bounds DEF NoAttempt
<1>2. TypeOK'
  BY <1>1 DEF TypeOK, DurableTypeOK, ProcessTypeOK, PlanTypeOK, Durables, NoAttempt, NoPlan
<1>3. PhaseInv' /\ OpenInv'
  BY SameDurables DEF PhaseInv, OpenInv, Durables, NoPlan
<1>4. RowInv' /\ LiveInv' /\ EvidenceInv'
  BY SameDurables DEF RowInv, LiveInv, EvidenceInv, Durables
<1>5. CallInv' /\ StartedInv' /\ ToolInv' /\ PlanInv'
  BY SameDurables DEF CallInv, StartedInv, ToolInv, PlanInv, Durables
<1>6. ResultInv' /\ CarryInv' /\ VerdictIsTruthful'
  BY SameDurables DEF ResultInv, CarryInv, VerdictIsTruthful, Durables, NoPlan
<1>7. CountInv'
  <2>1. Taken' = Taken /\ Cardinality(Taken) \in Nat /\ Top \in Nat
    BY Bounds, RecoveryAssumption, FS_Subset, FS_CardinalityType
       DEF Taken, Top, TypeOK, DurableTypeOK, RecoveryEvidence
  <2>2. crashes \in Nat /\ faults \in Nat /\ crashes' \in Nat /\ faults' \in Nat
    BY Bounds DEF TypeOK, ProcessTypeOK
  <2>3. Due' <=> evidence.obligation
    BY DEF Due, Durables
  <2>4. Top' = Top /\ phase' # "attempt"
    BY SameDurables
  <2>5. /\ Top <= Cardinality(Taken) + crashes + faults
        /\ Due => Top + 1 <= Cardinality(Taken) + crashes + faults
    BY DEF CountInv
  <2>6. /\ Top <= Cardinality(Taken) + crashes' + faults'
        /\ Due' => Top + 1 <= Cardinality(Taken) + crashes' + faults'
    <3>1. CASE crashes' = crashes /\ faults' = faults /\ phase # "attempt"
      BY <2>3, <2>5, <3>1 DEF Due
    <3>2. CASE crashes' = crashes + 1 /\ faults' = faults
      BY <2>1, <2>2, <2>5, <3>2
    <3>3. CASE crashes' = crashes /\ faults' = faults + 1
      BY <2>1, <2>2, <2>5, <3>3
    <3> QED
      BY <3>1, <3>2, <3>3
  <2> QED
    BY <2>1, <2>4, <2>6 DEF CountInv
<1> QED
  BY <1>2, <1>3, <1>4, <1>5, <1>6, <1>7 DEF RecoveryInv

LEMMA CrashKeeps ==
    ASSUME RecoveryInv, Crash
    PROVE  RecoveryInv'
<1>1. crashes \in 0 .. MaxCrashes /\ faults \in 0 .. MaxFaults
  BY DEF RecoveryInv, TypeOK, ProcessTypeOK
<1>2. /\ UNCHANGED Durables /\ turn' = turn /\ live' = NoAttempt /\ plan' = NoPlan
      /\ continuation' = FALSE /\ phase' = "down" /\ faults' = faults
      /\ crashes < MaxCrashes /\ crashes' = crashes + 1
  BY DEF Crash, Die, Durables, durable
<1>3. crashes' \in 0 .. MaxCrashes
  BY <1>1, <1>2, Bounds
<1> QED
  BY <1>1, <1>2, <1>3, LeavingKeeps

LEMMA ShutdownKeeps ==
    ASSUME RecoveryInv, Shutdown
    PROVE  RecoveryInv'
BY LeavingKeeps, Bounds DEF Shutdown, Die, Durables, durable, RecoveryInv, TypeOK, ProcessTypeOK

LEMMA RecoveryFailsKeeps ==
    ASSUME RecoveryInv, RecoveryFails
    PROVE  RecoveryInv'
<1>1. crashes \in 0 .. MaxCrashes /\ faults \in 0 .. MaxFaults
  BY DEF RecoveryInv, TypeOK, ProcessTypeOK
<1>2. /\ UNCHANGED Durables /\ turn' = turn /\ live' = NoAttempt /\ plan' = NoPlan
      /\ continuation' = FALSE /\ phase' = "down" /\ crashes' = crashes
      /\ faults < MaxFaults /\ faults' = faults + 1
  BY DEF RecoveryFails, Die, Durables, durable
<1>3. faults' \in 0 .. MaxFaults
  BY <1>1, <1>2, Bounds
<1> QED
  BY <1>1, <1>2, <1>3, LeavingKeeps

LEMMA SettlementFailsKeeps ==
    ASSUME RecoveryInv, SettlementFails
    PROVE  RecoveryInv'
<1>1. crashes \in 0 .. MaxCrashes /\ faults \in 0 .. MaxFaults
  BY DEF RecoveryInv, TypeOK, ProcessTypeOK
<1>2. /\ UNCHANGED Durables /\ turn' = turn /\ live' = NoAttempt /\ phase' = "blocked"
      /\ UNCHANGED <<plan, continuation, crashes>> /\ phase = "attempt"
      /\ faults < MaxFaults /\ faults' = faults + 1
  BY DEF SettlementFails, LeaveAttempt, Durables, durable
<1>3. plan' = NoPlan /\ continuation' = FALSE
  BY <1>2 DEF RecoveryInv, PhaseInv, TypeOK, ProcessTypeOK
<1>4. faults' \in 0 .. MaxFaults
  BY <1>1, <1>2, Bounds
<1> QED
  BY <1>1, <1>2, <1>3, <1>4, LeavingKeeps

\* An attempt gives up: from any place, with a failed commit or without.
LEMMA EndingKeeps ==
    ASSUME RecoveryInv, phase = "attempt", UNCHANGED Durables, turn' = turn,
           UNCHANGED <<phase, plan, continuation, crashes>>, NEW f \in BOOLEAN,
           live' = [live EXCEPT !.at = "ending", !.failed = f],
           faults' \in {faults, faults + 1}, faults' \in 0 .. MaxFaults
    PROVE  RecoveryInv'
<1> /\ TypeOK /\ PhaseInv /\ OpenInv /\ RowInv /\ LiveInv /\ EvidenceInv
    /\ CallInv /\ StartedInv /\ ToolInv /\ PlanInv /\ CountInv /\ ResultInv /\ CarryInv
    /\ VerdictIsTruthful
  BY DEF RecoveryInv
<1>1. /\ live'.at = "ending" /\ live'.id = live.id /\ live'.unresolved = live.unresolved
      /\ live' \in [at : Places \cup {"none"},
                 id : (Attempts \cup {0}) \X (Steps \cup {0}) \X (0 .. MaxRetries),
                 started : SUBSET Calls, tools : BOOLEAN, unresolved : BOOLEAN, failed : BOOLEAN]
  BY DEF TypeOK, ProcessTypeOK, Places
<1>2. TypeOK'
  BY <1>1 DEF TypeOK, DurableTypeOK, ProcessTypeOK, PlanTypeOK, Durables
<1>3. PhaseInv' /\ OpenInv'
  BY <1>1, SameDurables DEF PhaseInv, OpenInv, Durables, Begun, Places
<1>4. RowInv' /\ LiveInv' /\ EvidenceInv'
  BY <1>1, SameDurables DEF RowInv, LiveInv, EvidenceInv, Durables, Begun
<1>5. CallInv' /\ StartedInv' /\ ToolInv' /\ PlanInv'
  BY <1>1, SameDurables DEF CallInv, StartedInv, ToolInv, PlanInv, Durables
<1>6. ResultInv' /\ CarryInv' /\ VerdictIsTruthful'
  BY <1>1, SameDurables DEF ResultInv, CarryInv, VerdictIsTruthful, Durables
<1>7. CountInv'
  <2>1. Taken' = Taken /\ Cardinality(Taken) \in Nat /\ Top \in Nat
    BY Bounds, RecoveryAssumption, FS_Subset, FS_CardinalityType
       DEF Taken, Top, TypeOK, DurableTypeOK, RecoveryEvidence
  <2>2. crashes \in Nat /\ faults \in Nat
    BY Bounds DEF TypeOK, ProcessTypeOK
  <2>3. Due' <=> Due
    BY <1>1, SameDurables DEF Due, Durables, Begun
  <2> QED
    BY <1>1, <2>1, <2>2, <2>3, SameDurables DEF CountInv
<1> QED
  BY <1>2, <1>3, <1>4, <1>5, <1>6, <1>7 DEF RecoveryInv

LEMMA GivingUpKeeps ==
    ASSUME RecoveryInv, Conclude \/ AbandonStream \/ InteractionFailed \/ CommitFails
    PROVE  RecoveryInv'
<1>1. /\ phase = "attempt" /\ UNCHANGED Durables /\ turn' = turn
      /\ UNCHANGED <<phase, plan, continuation, crashes>>
  BY DEF Conclude, AbandonStream, InteractionFailed, CommitFails, At, ControlUnchanged, Durables, durable
<1>2. faults \in Nat /\ MaxFaults \in Nat /\ faults \in 0 .. MaxFaults
  BY Bounds DEF RecoveryInv, TypeOK, ProcessTypeOK
<1>3. faults' \in {faults, faults + 1} /\ faults' \in 0 .. MaxFaults
  BY <1>2 DEF Conclude, AbandonStream, InteractionFailed, CommitFails, At, ControlUnchanged
<1>4. \E f \in BOOLEAN : live' = [live EXCEPT !.at = "ending", !.failed = f]
  <2>1. /\ live.failed \in BOOLEAN
        /\ [live EXCEPT !.at = "ending"] = [live EXCEPT !.at = "ending", !.failed = live.failed]
    BY DEF RecoveryInv, TypeOK, ProcessTypeOK
  <2> QED
    BY <2>1 DEF Conclude, AbandonStream, InteractionFailed, CommitFails, Goto
<1> QED
  BY <1>1, <1>3, <1>4, EndingKeeps

\* The turns taken from the inbox, and what a boundary or an admission takes.
LEMMA TakenCount ==
    ASSUME TypeOK
    PROVE  IsFiniteSet(Taken) /\ Cardinality(Taken) \in Nat /\ Cardinality(Taken) <= Cardinality(Turns)
<1>1. Taken \subseteq Turns /\ IsFiniteSet(Turns)
  BY RecoveryAssumption DEF Taken
<1> QED
  BY <1>1, FS_Subset, FS_CardinalityType

LEMMA AdoptedTakes ==
    ASSUME TypeOK, turn' = Adopted
    PROVE  /\ turn' \in [Turns -> {"none", "pending", "adopted", "carried", "decided"}]
           /\ Cardinality(Taken') \in Nat /\ Cardinality(Taken') <= Cardinality(Turns)
           /\ Cardinality(Taken) <= Cardinality(Taken')
           /\ \A t \in Turns : turn[t] = "adopted" => turn'[t] = "adopted"
           /\ Pending # {} => /\ Cardinality(Taken) + 1 <= Cardinality(Taken')
                              /\ \E t \in Turns : turn'[t] = "adopted"
<1>1. /\ turn \in [Turns -> {"none", "pending", "adopted", "carried", "decided"}]
      /\ turn' \in [Turns -> {"none", "pending", "adopted", "carried", "decided"}]
      /\ \A t \in Turns : turn'[t] = IF turn[t] = "pending" THEN "adopted" ELSE turn[t]
  BY DEF TypeOK, DurableTypeOK, Adopted
<1>2. Taken \subseteq Taken' /\ Taken' \subseteq Turns /\ IsFiniteSet(Turns)
  BY <1>1, RecoveryAssumption DEF Taken
<1>3. Pending # {} => Taken # Taken' /\ \E t \in Turns : turn'[t] = "adopted"
  BY <1>1 DEF Pending, Taken
<1>4. IsFiniteSet(Taken') /\ Cardinality(Taken') \in Nat /\ Cardinality(Taken') <= Cardinality(Turns)
  BY <1>2, FS_Subset, FS_CardinalityType
<1>5. /\ Cardinality(Taken) \in Nat /\ Cardinality(Taken) <= Cardinality(Taken')
      /\ Cardinality(Taken) = Cardinality(Taken') => Taken = Taken'
  BY <1>2, <1>4, FS_Subset, FS_CardinalityType
<1>6. Pending # {} => Cardinality(Taken) + 1 <= Cardinality(Taken')
  BY <1>3, <1>4, <1>5
<1> QED
  BY <1>1, <1>3, <1>4, <1>5, <1>6

\* The turns of a request or of a terminal were taken before.
LEMMA CarriedTakes ==
    ASSUME TypeOK, NEW s \in {"carried", "decided"},
           turn' = [t \in Turns |-> IF turn[t] = "adopted" THEN s ELSE turn[t]]
    PROVE  /\ turn' \in [Turns -> {"none", "pending", "adopted", "carried", "decided"}]
           /\ Taken' = Taken
BY DEF TypeOK, DurableTypeOK, Taken

LEMMA NumbersType ==
    ASSUME TypeOK
    PROVE  /\ crashes \in Nat /\ faults \in Nat /\ Top \in Nat
           /\ crashes <= MaxCrashes /\ faults <= MaxFaults
           /\ live.id[1] \in Nat /\ live.id[2] \in Nat /\ live.id[3] \in Nat
           /\ live.id = <<live.id[1], live.id[2], live.id[3]>>
<1>1. live.id \in (Attempts \cup {0}) \X (Steps \cup {0}) \X (0 .. MaxRetries)
  BY DEF TypeOK, ProcessTypeOK
<1>2. live.id[1] \in Attempts \cup {0} /\ live.id[2] \in Steps \cup {0} /\ live.id[3] \in 0 .. MaxRetries
  BY <1>1
<1>3. live.id = <<live.id[1], live.id[2], live.id[3]>>
  BY <1>1
<1>4. crashes \in Nat /\ faults \in Nat /\ crashes <= MaxCrashes /\ faults <= MaxFaults
  BY Bounds DEF TypeOK, ProcessTypeOK
<1>5. Top \in Nat
  BY Bounds DEF Top, TypeOK, DurableTypeOK, RecoveryEvidence
<1> QED
  BY <1>2, <1>3, <1>4, <1>5, Bounds

\* An admission follows an obligation that some turn, death or error has paid for.
LEMMA BeginKeeps ==
    ASSUME RecoveryInv, phase = "idle", BeginAttempt,
           evidence' = [evidence EXCEPT !.obligation = TRUE],
           UNCHANGED <<outcome, streams, results, effects, carryover, plan, crashes, faults>>,
           turn' \in [Turns -> {"none", "pending", "adopted", "carried", "decided"}],
           Cardinality(Taken') \in Nat, Cardinality(Taken') <= Cardinality(Turns),
           Top + 1 <= Cardinality(Taken') + crashes + faults,
           \E t \in Turns : turn'[t] = "adopted"
    PROVE  RecoveryInv'
<1> /\ TypeOK /\ PhaseInv /\ OpenInv /\ RowInv /\ LiveInv /\ EvidenceInv
    /\ CallInv /\ StartedInv /\ ToolInv /\ PlanInv /\ CountInv /\ ResultInv /\ CarryInv
    /\ VerdictIsTruthful
  BY DEF RecoveryInv
<1>1. Top + 1 \in Attempts /\ Top \in Nat
  BY NumbersType, Bounds DEF Attempts
<1>2. /\ phase' = "attempt" /\ continuation' = FALSE
      /\ live'.at = "starting" /\ live'.id = <<Top + 1, 0, 0>> /\ live'.started = {}
      /\ ~live'.unresolved /\ live' = [NoAttempt EXCEPT !.at = "starting", !.id = <<Top + 1, 0, 0>>]
  BY DEF BeginAttempt, NoAttempt, Top
<1>3. /\ evidence' \in RecoveryEvidence /\ evidence'.obligation = TRUE
      /\ evidence'.attempts = evidence.attempts /\ evidence'.repairs = evidence.repairs
      /\ evidence'.highest = evidence.highest
  BY DEF TypeOK, DurableTypeOK, RecoveryEvidence
<1>4. /\ Top' = Top /\ Entry' = Entry /\ IsOpen' = IsOpen /\ Own' = Own
      /\ Missing' = Missing /\ Unsettled' = Unsettled
      /\ \A r : IsNewest(r)' = IsNewest(r) /\ Canonical(r)' = Canonical(r)
      /\ \A r : UnresolvedOutputSource(r)' = UnresolvedOutputSource(r)
  BY <1>3 DEF Top, Entry, IsOpen, Own, RequestsOf, Missing, Unsettled, IsNewest, Canonical,
              UnresolvedOutputSource, Carriable
<1>5. ~IsOpen /\ ~Begun' /\ Missing = {} /\ plan = NoPlan
  BY <1>1, <1>2, <1>4 DEF OpenInv, Begun, CallInv, PhaseInv
<1>6. TypeOK'
  <2>1. live'.id \in (Attempts \cup {0}) \X (Steps \cup {0}) \X (0 .. MaxRetries)
    BY <1>1, <1>2, Bounds
  <2> QED
    BY <1>2, <1>3, <2>1 DEF TypeOK, DurableTypeOK, ProcessTypeOK, PlanTypeOK, NoAttempt, Places
<1>7. PhaseInv' /\ OpenInv'
  BY <1>1, <1>2, <1>3, <1>4, <1>5 DEF PhaseInv, OpenInv, Places, NoPlan
<1>8. RowInv' /\ LiveInv' /\ EvidenceInv'
  BY <1>4, <1>5 DEF RowInv, LiveInv, EvidenceInv
<1>9. CallInv' /\ StartedInv' /\ ToolInv' /\ PlanInv'
  BY <1>2, <1>3, <1>4, <1>5 DEF CallInv, StartedInv, ToolInv, PlanInv
<1>10. ResultInv' /\ CarryInv' /\ VerdictIsTruthful'
  BY <1>4, <1>5 DEF ResultInv, CarryInv, VerdictIsTruthful, NoPlan
<1>11. CountInv'
  <2>1. live'.id[2] = 0
    BY <1>2
  <2> QED
    BY <1>1, <1>2, <1>4, <2>1, Bounds, NumbersType DEF CountInv
<1> QED
  BY <1>6, <1>7, <1>8, <1>9, <1>10, <1>11 DEF RecoveryInv

LEMMA AdmitContinuationKeeps ==
    ASSUME RecoveryInv, AdmitContinuation
    PROVE  RecoveryInv'
<1>1. /\ TypeOK /\ phase = "idle" /\ evidence.obligation = TRUE
      /\ \E t \in Turns : turn[t] = "adopted"
      /\ Top + 1 <= Cardinality(Taken) + crashes + faults
  BY DEF AdmitContinuation, RecoveryInv, PhaseInv, CountInv, Due, TypeOK, DurableTypeOK, RecoveryEvidence
<1>2. evidence' = [evidence EXCEPT !.obligation = TRUE]
  BY <1>1 DEF AdmitContinuation, durable, TypeOK, DurableTypeOK, RecoveryEvidence
<1>3. turn' = turn /\ Taken' = Taken
      /\ turn' \in [Turns -> {"none", "pending", "adopted", "carried", "decided"}]
  BY <1>1 DEF AdmitContinuation, durable, Taken, TypeOK, DurableTypeOK
<1> QED
  BY <1>1, <1>2, <1>3, TakenCount, BeginKeeps DEF AdmitContinuation, durable

LEMMA AdmitNextAttemptKeeps ==
    ASSUME RecoveryInv, AdmitNextAttempt
    PROVE  RecoveryInv'
<1>1. /\ TypeOK /\ phase = "idle" /\ turn' = Adopted /\ Pending # {}
      /\ Top <= Cardinality(Taken) + crashes + faults
      /\ \A a \in Attempts : evidence.attempts[a] = NotOpen
  <2>1. \A a \in Attempts : ~evidence.attempts[a].open
    BY Bounds DEF AdmitNextAttempt, RecoveryInv, OpenInv, IsOpen, Entry
  <2> QED
    BY <2>1 DEF AdmitNextAttempt, RecoveryInv, CountInv, OpenInv
<1>2. evidence' = [evidence EXCEPT !.obligation = TRUE]
  <2>1. [a \in Attempts |-> [evidence.attempts[a] EXCEPT !.last = None]] = evidence.attempts
    BY <1>1 DEF NotOpen, TypeOK, DurableTypeOK, RecoveryEvidence
  <2> QED
    BY <2>1 DEF AdmitNextAttempt, FoldAdopted, TypeOK, DurableTypeOK, RecoveryEvidence
<1>3. Top + 1 <= Cardinality(Taken') + crashes + faults
  BY <1>1, AdoptedTakes, TakenCount, NumbersType
<1> QED
  BY <1>1, <1>2, <1>3, AdoptedTakes, BeginKeeps DEF AdmitNextAttempt

\* Startup finds at most the newest attempt open, and says of it what is so.
LEMMA OpenIsTop ==
    ASSUME TypeOK, OpenInv
    PROVE  OpenAttempts(evidence) = IF IsOpen THEN {Top} ELSE {}
BY Bounds DEF OpenAttempts, OpenInv, IsOpen, Entry, Top, TypeOK, DurableTypeOK, RecoveryEvidence

LEMMA MissingIs ==
    ASSUME TypeOK, RowInv, CallInv
    PROVE  \A o \in Missing : /\ o \in Occurrences /\ o[1] \in Own /\ o[1][1] = Top /\ o[1] \in Requests
                              /\ o[2] \in Calls /\ Top \in Attempts /\ o = <<o[1], o[2]>>
                              /\ evidence.repairs[<<Top, o[2]>>] = Told(o)
BY OccurrenceParts, RequestParts DEF Missing, CallInv, Own, RequestsOf, TypeOK, DurableTypeOK

LEMMA EffectsAreOwn ==
    ASSUME TypeOK, RowInv, IsOpen
    PROVE  \A o \in DOMAIN effects : o \in Occurrences /\ o[1][1] = Top /\ o[1] \in Own
BY DEF TypeOK, DurableTypeOK, ProcessTypeOK, RowInv, Canonical, Own, RequestsOf

LEMMA ClassifyIs ==
    ASSUME RecoveryInv, NEW p, p = Classify(evidence)
    PROVE  /\ DOMAIN p = DOMAIN NoPlan
           /\ p.publications = Unsettled /\ DOMAIN p.repairs = Missing
           /\ \A o \in Missing : p.repairs[o] = IF Told(o) = "none" THEN "not_run" ELSE Told(o)
           /\ p.repairs \in [Missing -> {"not_run", "known", "unknown"}]
           /\ p.attempt = IF IsOpen THEN Top ELSE None
           /\ p.last = IF IsOpen THEN Entry.last ELSE None
           /\ p.accepted = IF IsOpen THEN Entry.accepted ELSE None
           /\ p.class = IF IsOpen THEN ClassifyAttempt(evidence, Top) ELSE "settled"
           /\ p.resume = (p.class # "indeterminate" /\ evidence.obligation)
<1> /\ TypeOK /\ OpenInv /\ RowInv /\ CallInv
  BY DEF RecoveryInv
<1> DEFINE it == IF OpenAttempts(evidence) = {} THEN None ELSE CHOOSE a \in OpenAttempts(evidence) : TRUE
           cl == IF it = None THEN "settled" ELSE ClassifyAttempt(evidence, it)
<1>1. it = IF IsOpen THEN Top ELSE None
  BY OpenIsTop
<1>2. IsOpen => Top # None /\ evidence.attempts[Top] = Entry
  BY EntryType, NoneIsNothing
<1>3. p = [publications |-> Unsettled,
           repairs |-> [o \in Missing |-> PlannedResult(evidence, o)],
           class |-> cl,
           attempt |-> it,
           last |-> IF it = None THEN None ELSE evidence.attempts[it].last,
           accepted |-> IF it = None THEN None ELSE evidence.attempts[it].accepted,
           resume |-> cl # "indeterminate" /\ evidence.obligation]
  BY DEF Classify
<1> HIDE DEF it
<1>4. cl = IF IsOpen THEN ClassifyAttempt(evidence, Top) ELSE "settled"
  BY <1>1, <1>2
<1> HIDE DEF cl
<1>5. \A o \in Missing : PlannedResult(evidence, o) = IF Told(o) = "none" THEN "not_run" ELSE Told(o)
  BY MissingIs DEF PlannedResult, Told
<1>6. \A o \in Missing : Told(o) \in {"none", "known", "unknown"}
  BY DEF Told
<1>7. /\ p.publications = Unsettled /\ p.repairs = [o \in Missing |-> PlannedResult(evidence, o)]
      /\ p.class = cl /\ p.attempt = it /\ p.resume = (cl # "indeterminate" /\ evidence.obligation)
      /\ DOMAIN p = DOMAIN NoPlan
  BY <1>3 DEF NoPlan
<1>8. p.last = IF it = None THEN None ELSE evidence.attempts[it].last
  BY <1>3
<1>9. p.accepted = IF it = None THEN None ELSE evidence.attempts[it].accepted
  BY <1>3
<1>10. /\ DOMAIN p.repairs = Missing
       /\ \A o \in Missing : p.repairs[o] = IF Told(o) = "none" THEN "not_run" ELSE Told(o)
       /\ p.repairs \in [Missing -> {"not_run", "known", "unknown"}]
  BY <1>5, <1>6, <1>7
<1>11. /\ p.last = IF IsOpen THEN Entry.last ELSE None
       /\ p.accepted = IF IsOpen THEN Entry.accepted ELSE None
  BY <1>1, <1>2, <1>8, <1>9
<1> QED
  BY <1>1, <1>4, <1>7, <1>10, <1>11

\* The class of the open attempt.
LEMMA ClassIsTrue ==
    ASSUME RecoveryInv, IsOpen, NEW k, k = ClassifyAttempt(evidence, Top)
    PROVE  /\ k \in {"indeterminate", "clean", "known"}
           /\ k = "indeterminate" <=> (RequestUnknown(Top) \/ ToolUnknown(Top))
           /\ k = "clean" <=> RequestsOf(Top) = {}
<1> /\ TypeOK /\ OpenInv /\ RowInv /\ CallInv /\ EvidenceInv /\ ToolInv
  BY DEF RecoveryInv
<1>1. /\ Entry.request \in {"never", "unknown", "known"}
      /\ Entry.tools \in {"never", "known", "outstanding", "irreversible"}
      /\ evidence.attempts[Top] = Entry /\ Top \in Attempts
  BY EntryType DEF Entries
<1> DEFINE quiet == \A c \in Calls : evidence.repairs[<<Top, c>>] = "none"
<1>2. k = IF Entry.request = "unknown" \/ Entry.tools \in {"outstanding", "irreversible"} THEN "indeterminate"
          ELSE IF Entry.request = "never" /\ Entry.tools = "never" /\ quiet THEN "clean" ELSE "known"
  BY <1>1 DEF ClassifyAttempt
<1>3. Entry.request = "unknown" <=> RequestUnknown(Top)
  <2>1. CASE Own = {}
    BY <2>1 DEF EvidenceInv, RequestUnknown, Own
  <2>2. CASE Own # {}
    <3>1. PICK r \in Own : IsNewest(r)
      BY <2>2 DEF RowInv
    <3>2. Newest(Top) = r
      BY <3>1, NewestOwn
    <3> QED
      BY <2>2, <3>1, <3>2 DEF EvidenceInv, RequestUnknown, Own
  <2> QED
    BY <2>1, <2>2
<1>4. Entry.tools \in {"outstanding", "irreversible"} <=> ToolUnknown(Top)
  BY <1>1, EffectsAreOwn DEF ToolInv, ToolUnknown
<1>5. Own = {} => Entry.request = "never" /\ Entry.tools = "never" /\ quiet
  <2>1. Own = {} => DOMAIN effects = {}
    BY EffectsAreOwn
  <2>2. Own = {} => Missing = {}
    BY DEF CallInv
  <2>3. Missing = {} => quiet
    BY <1>1 DEF CallInv
  <2> QED
    BY <2>1, <2>2, <2>3 DEF EvidenceInv, ToolInv
<1>6. Entry.request = "never" => Own = {}
  BY DEF EvidenceInv
<1> HIDE DEF quiet
<1> QED
  BY <1>1, <1>2, <1>3, <1>4, <1>5, <1>6 DEF Own

LEMMA RestartKeeps ==
    ASSUME RecoveryInv, Restart
    PROVE  RecoveryInv'
<1> /\ TypeOK /\ PhaseInv /\ OpenInv /\ RowInv /\ LiveInv /\ EvidenceInv
    /\ CallInv /\ StartedInv /\ ToolInv /\ PlanInv /\ CountInv /\ ResultInv /\ CarryInv
    /\ VerdictIsTruthful
  BY DEF RecoveryInv
<1>1. /\ phase = "down" /\ UNCHANGED Durables /\ turn' = turn
      /\ UNCHANGED <<live, continuation, crashes, faults>> /\ plan' = Classify(evidence)
  BY DEF Restart, Durables, durable
<1>2. phase' = "recovering"
  <2>1. Cardinality({Top}) = 1 /\ Cardinality({}) = 0
    BY FS_Singleton, FS_EmptySet
  <2>2. ~(Cardinality(OpenAttempts(evidence)) > 1)
    BY <2>1, OpenIsTop
  <2> QED
    BY <2>2 DEF Restart
<1>3. /\ DOMAIN plan' = DOMAIN NoPlan
      /\ plan'.publications = Unsettled /\ DOMAIN plan'.repairs = Missing
      /\ \A o \in Missing : plan'.repairs[o] = IF Told(o) = "none" THEN "not_run" ELSE Told(o)
      /\ plan'.repairs \in [Missing -> {"not_run", "known", "unknown"}]
      /\ plan'.attempt = IF IsOpen THEN Top ELSE None
      /\ plan'.last = IF IsOpen THEN Entry.last ELSE None
      /\ plan'.accepted = IF IsOpen THEN Entry.accepted ELSE None
      /\ plan'.class = IF IsOpen THEN ClassifyAttempt(evidence, Top) ELSE "settled"
      /\ plan'.resume = (plan'.class # "indeterminate" /\ evidence.obligation)
  BY <1>1, ClassifyIs
<1>4. plan'.class \in {"settled", "indeterminate", "clean", "known"}
  BY <1>3, ClassIsTrue
<1>5. PlanTypeOK'
  <2>1. Unsettled \subseteq Requests /\ Missing \subseteq Occurrences
    BY DEF Unsettled, Missing, TypeOK, DurableTypeOK
  <2>2. plan'.attempt \in Attempts \cup {None}
    BY <1>3, EntryType
  <2>3. {plan'.last, plan'.accepted} \subseteq Requests \cup {None}
    BY <1>3, EntryType DEF Entries
  <2>4. plan'.resume \in BOOLEAN
    BY <1>3
  <2> QED
    BY <1>3, <1>4, <2>1, <2>2, <2>3, <2>4 DEF PlanTypeOK
<1>6. TypeOK'
  BY <1>1, <1>2, <1>5 DEF TypeOK, DurableTypeOK, ProcessTypeOK, Durables
<1>7. PhaseInv' /\ OpenInv'
  BY <1>1, <1>2, <1>3, SameDurables DEF PhaseInv, OpenInv, Durables
<1>8. RowInv' /\ LiveInv' /\ EvidenceInv'
  BY <1>1, <1>2, SameDurables DEF RowInv, LiveInv, EvidenceInv, Durables
<1>9. CallInv' /\ StartedInv' /\ ToolInv'
  BY <1>1, <1>2, SameDurables DEF CallInv, StartedInv, ToolInv, Durables
<1>10. PlanInv'
  BY <1>1, <1>3, SameDurables DEF PlanInv
<1>11. ResultInv' /\ CarryInv'
  BY <1>1, SameDurables DEF ResultInv, CarryInv, Durables
<1>12. VerdictIsTruthful'
  BY <1>1, <1>3, ClassIsTrue, SameDurables DEF VerdictIsTruthful
<1>13. CountInv'
  <2>1. Taken' = Taken /\ (Due' <=> Due)
    BY <1>1, <1>2 DEF Taken, Due, Durables
  <2> QED
    BY <1>1, <1>2, <2>1, SameDurables DEF CountInv
<1> QED
  BY <1>6, <1>7, <1>8, <1>9, <1>10, <1>11, <1>12, <1>13 DEF RecoveryInv

LEMMA RecoveredKeeps ==
    ASSUME RecoveryInv, Recovered
    PROVE  RecoveryInv'
<1> /\ TypeOK /\ PhaseInv /\ OpenInv /\ RowInv /\ LiveInv /\ EvidenceInv
    /\ CallInv /\ StartedInv /\ ToolInv /\ PlanInv /\ CountInv /\ ResultInv /\ CarryInv
    /\ VerdictIsTruthful
  BY DEF RecoveryInv
<1>1. /\ phase = "recovering" /\ UNCHANGED Durables /\ turn' = turn
      /\ UNCHANGED <<live, crashes, faults>> /\ plan' = NoPlan
      /\ plan.attempt = None /\ DOMAIN plan.repairs = {}
      /\ phase' = (IF Missing = {} THEN "idle" ELSE "refused")
      /\ continuation' = (Missing = {} /\ plan.resume)
  BY DEF Recovered, Recovering, Durables, durable
<1>2. Missing = {} /\ phase' = "idle" /\ (continuation' => evidence.obligation)
  BY <1>1 DEF PlanInv, PhaseInv
<1>3. ~IsOpen
  BY <1>1, EntryType, NoneIsNothing DEF OpenInv
<1>4. TypeOK'
  BY <1>1, <1>2 DEF TypeOK, DurableTypeOK, ProcessTypeOK, PlanTypeOK, Durables, NoPlan
<1>5. PhaseInv' /\ OpenInv'
  BY <1>1, <1>2, <1>3, SameDurables DEF PhaseInv, OpenInv, Durables, NoPlan
<1>6. RowInv' /\ LiveInv' /\ EvidenceInv'
  BY <1>1, <1>2, SameDurables DEF RowInv, LiveInv, EvidenceInv, Durables
<1>7. CallInv' /\ StartedInv' /\ ToolInv' /\ PlanInv'
  BY <1>1, <1>2, SameDurables DEF CallInv, StartedInv, ToolInv, PlanInv, Durables
<1>8. ResultInv' /\ CarryInv' /\ VerdictIsTruthful'
  BY <1>1, SameDurables DEF ResultInv, CarryInv, VerdictIsTruthful, Durables, NoPlan
<1>9. CountInv'
  <2>1. Taken' = Taken /\ (Due' <=> Due)
    BY <1>1, <1>2 DEF Taken, Due, Durables
  <2> QED
    BY <1>1, <1>2, <2>1, SameDurables DEF CountInv
<1> QED
  BY <1>4, <1>5, <1>6, <1>7, <1>8, <1>9 DEF RecoveryInv

LEMMA ToolsSettledKeeps ==
    ASSUME RecoveryInv, ToolsSettled
    PROVE  RecoveryInv'
<1> /\ TypeOK /\ PhaseInv /\ OpenInv /\ RowInv /\ LiveInv /\ EvidenceInv
    /\ CallInv /\ StartedInv /\ ToolInv /\ PlanInv /\ CountInv /\ ResultInv /\ CarryInv
    /\ VerdictIsTruthful
  BY DEF RecoveryInv
<1>1. /\ phase = "attempt" /\ live.at = "tools" /\ UNCHANGED Durables /\ turn' = turn
      /\ UNCHANGED <<phase, plan, continuation, crashes, faults>>
      /\ live' = [live EXCEPT !.at = "settling"] /\ Ran({"announced", "running"}) = {}
  BY DEF ToolsSettled, At, Goto, ControlUnchanged, Durables, durable
<1>2. /\ live'.at = "settling" /\ live'.id = live.id /\ live'.unresolved = live.unresolved
      /\ live'.started = live.started /\ live'.tools = live.tools
      /\ live' \in [at : Places \cup {"none"},
                 id : (Attempts \cup {0}) \X (Steps \cup {0}) \X (0 .. MaxRetries),
                 started : SUBSET Calls, tools : BOOLEAN, unresolved : BOOLEAN, failed : BOOLEAN]
  BY <1>1 DEF TypeOK, ProcessTypeOK, Places
<1>3. TypeOK'
  BY <1>1, <1>2 DEF TypeOK, DurableTypeOK, ProcessTypeOK, PlanTypeOK, Durables
<1>4. PhaseInv' /\ OpenInv'
  BY <1>1, <1>2, SameDurables DEF PhaseInv, OpenInv, Durables, Begun, Places
<1>5. RowInv' /\ LiveInv' /\ EvidenceInv'
  BY <1>1, <1>2, SameDurables DEF RowInv, LiveInv, EvidenceInv, Durables, Begun, OpenInv
<1>6. CallInv' /\ ToolInv' /\ PlanInv'
  BY <1>1, <1>2, SameDurables DEF CallInv, ToolInv, PlanInv, Durables
<1>7. StartedInv'
  BY <1>1, <1>2, SameDurables DEF StartedInv, Ours, Ran, Durables
<1>8. ResultInv' /\ CarryInv' /\ VerdictIsTruthful'
  BY <1>1, <1>2, SameDurables DEF ResultInv, CarryInv, VerdictIsTruthful, Durables
<1>9. CountInv'
  <2>1. Taken' = Taken /\ (Due' <=> Due)
    BY <1>1, <1>2, SameDurables DEF Taken, Due, Durables, Begun
  <2> QED
    BY <1>1, <1>2, <2>1, SameDurables DEF CountInv
<1> QED
  BY <1>3, <1>4, <1>5, <1>6, <1>7, <1>8, <1>9 DEF RecoveryInv

\* Between its first request and its end, the running attempt is the open one and
\* the request it works on is the newest.
LEMMA InBody ==
    ASSUME RecoveryInv, phase = "attempt", live.at \notin {"starting", "turn", "ending"}
    PROVE  /\ Begun /\ IsOpen /\ IsNewest(live.id) /\ live.id \in Own /\ live.id \in Requests
           /\ live.id \in DOMAIN outcome /\ live.id[1] = Top
           /\ plan = NoPlan /\ continuation = FALSE /\ live.at \in Places
<1>1. Begun /\ IsOpen
  BY DEF RecoveryInv, OpenInv
<1>2. IsNewest(live.id)
  BY <1>1 DEF RecoveryInv, LiveInv
<1>3. live.id \in Own /\ live.id \in DOMAIN outcome /\ live.id[1] = Top /\ live.id \in Requests
  BY <1>2 DEF IsNewest, Own, RequestsOf, RecoveryInv, TypeOK, DurableTypeOK
<1> QED
  BY <1>1, <1>2, <1>3 DEF RecoveryInv, PhaseInv, TypeOK, ProcessTypeOK

\* Only the newest request of the open attempt may be unsettled.
LEMMA UnsettledIs ==
    ASSUME RecoveryInv, NEW r, IsNewest(r)
    PROVE  Unsettled \subseteq {r}
<1>1. TypeOK /\ RowInv
  BY DEF RecoveryInv
<1> QED
  BY <1>1, NewestOwn DEF RowInv

\* While an attempt runs no plan is kept.
LEMMA NoPlanKeeps ==
    ASSUME plan' = NoPlan, phase' # "recovering"
    PROVE  PlanInv' /\ VerdictIsTruthful' /\ PlanTypeOK'
BY DEF PlanInv, VerdictIsTruthful, NoPlan, PlanTypeOK

LEMMA MoveType ==
    ASSUME TypeOK, NEW w \in Places, live' = [live EXCEPT !.at = w]
    PROVE  /\ live'.at = w /\ live'.id = live.id /\ live'.unresolved = live.unresolved
           /\ live'.started = live.started /\ live'.tools = live.tools
           /\ live' \in [at : Places \cup {"none"},
                 id : (Attempts \cup {0}) \X (Steps \cup {0}) \X (0 .. MaxRetries),
                 started : SUBSET Calls, tools : BOOLEAN, unresolved : BOOLEAN, failed : BOOLEAN]
BY DEF TypeOK, ProcessTypeOK

\* A step of the attempt that changes the row of its newest request and no more.
LEMMA StreamKeeps ==
    ASSUME RecoveryInv, phase = "attempt", Begun, IsNewest(live.id),
           UNCHANGED <<turn, evidence, outcome, results, effects, carryover>>, ControlUnchanged,
           streams' \in [DOMAIN streams' -> Rows], DOMAIN streams' \subseteq DOMAIN outcome,
           \A r : Canonical(r)' <=> Canonical(r), Unsettled' \subseteq {live.id},
           \A r \in DOMAIN streams' : streams'[r].terminal => outcome[r] = "completed",
           NEW w \in Places \ {"starting", "turn", "tools", "settling", "boundary"},
           live' = [live EXCEPT !.at = w], w = live.at \/ Missing = {},
           w \in {"streaming", "completed", "published"} => live.started = {},
           w = "streaming" => outcome[live.id] = "started",
           w \in {"failed", "retrying"} => outcome[live.id] = "failed",
           w \in {"completed", "published"} => outcome[live.id] = "completed" /\ live.id \in Unsettled',
           w \in {"streaming", "failed"} /\ live.id \in DOMAIN streams' => live.id \in Unsettled',
           w = "retrying" => live.id \notin Unsettled' /\ live.unresolved /\ live.id[3] < MaxRetries
    PROVE  RecoveryInv'
<1> /\ TypeOK /\ PhaseInv /\ OpenInv /\ RowInv /\ LiveInv /\ EvidenceInv
    /\ CallInv /\ StartedInv /\ ToolInv /\ PlanInv /\ CountInv /\ ResultInv /\ CarryInv
    /\ VerdictIsTruthful
  BY DEF RecoveryInv
<1>1. /\ live'.at = w /\ live'.id = live.id /\ live'.unresolved = live.unresolved
      /\ live'.started = live.started /\ live'.tools = live.tools
      /\ live' \in [at : Places \cup {"none"},
                 id : (Attempts \cup {0}) \X (Steps \cup {0}) \X (0 .. MaxRetries),
                 started : SUBSET Calls, tools : BOOLEAN, unresolved : BOOLEAN, failed : BOOLEAN]
  BY MoveType
<1>2. UNCHANGED <<phase, plan, continuation, crashes, faults>> /\ plan = NoPlan
  BY DEF ControlUnchanged, PhaseInv
<1>3. /\ Top' = Top /\ Entry' = Entry /\ IsOpen' = IsOpen /\ Own' = Own /\ Missing' = Missing
      /\ \A r : IsNewest(r)' = IsNewest(r) /\ \A o : Told(o)' = Told(o)
  BY DEF Top, Entry, IsOpen, Own, RequestsOf, Missing, IsNewest, Told
<1>4. Begun' = Begun
  BY <1>1, <1>3 DEF Begun
<1>5. IsOpen
  BY DEF OpenInv
<1>6. PlanInv' /\ VerdictIsTruthful' /\ PlanTypeOK'
  BY <1>2, NoPlanKeeps
<1>7. TypeOK'
  BY <1>1, <1>2, <1>6 DEF TypeOK, DurableTypeOK, ProcessTypeOK
<1>8. PhaseInv' /\ OpenInv'
  BY <1>1, <1>2, <1>3, <1>4 DEF PhaseInv, OpenInv
<1>9. RowInv'
  BY <1>3, <1>5 DEF RowInv
<1>10. LiveInv'
  BY <1>1, <1>2, <1>3, <1>4 DEF LiveInv
<1>11. EvidenceInv'
  BY <1>3 DEF EvidenceInv
<1>12. CallInv' /\ StartedInv' /\ ToolInv'
  BY <1>1, <1>2, <1>3 DEF CallInv, StartedInv, ToolInv
<1>13. ResultInv' /\ CarryInv'
  BY <1>3, <1>5 DEF ResultInv, CarryInv
<1>14. CountInv'
  <2>1. Taken' = Taken /\ (Due' <=> Due)
    BY <1>2, <1>4 DEF Taken, Due
  <2> QED
    BY <1>1, <1>2, <1>3, <2>1 DEF CountInv
<1> QED
  BY <1>6, <1>7, <1>8, <1>9, <1>10, <1>11, <1>12, <1>13, <1>14 DEF RecoveryInv

LEMMA StayType ==
    ASSUME TypeOK, live' = live
    PROVE  live' = [live EXCEPT !.at = live.at]
BY DEF TypeOK, ProcessTypeOK

LEMMA OpenPublicationKeeps ==
    ASSUME RecoveryInv, OpenPublication
    PROVE  RecoveryInv'
<1> /\ TypeOK /\ RowInv /\ LiveInv /\ CallInv /\ StartedInv
  BY DEF RecoveryInv
<1>1. /\ phase = "attempt" /\ live.at = "streaming" /\ live.id \notin DOMAIN streams
      /\ streams' = With(streams, live.id, [terminal |-> FALSE, settlement |-> "none", output |-> FALSE])
      /\ UNCHANGED <<turn, evidence, outcome, results, effects, carryover>> /\ ControlUnchanged
      /\ live' = live
  BY DEF OpenPublication, At
<1>2. Begun /\ IsNewest(live.id) /\ live.id \in DOMAIN outcome /\ Unsettled \subseteq {live.id}
  BY <1>1, InBody, UnsettledIs
<1>3. /\ DOMAIN streams' = DOMAIN streams \cup {live.id}
      /\ streams'[live.id] = [terminal |-> FALSE, settlement |-> "none", output |-> FALSE]
      /\ \A r \in DOMAIN streams : streams'[r] = streams[r]
      /\ streams' \in [DOMAIN streams' -> Rows]
  BY <1>1 DEF With, TypeOK, DurableTypeOK, Rows
<1>4. Unsettled' \subseteq {live.id} /\ live.id \in Unsettled'
  BY <1>2, <1>3 DEF Unsettled
<1>5. \A r : Canonical(r)' <=> Canonical(r)
  BY <1>1, <1>3 DEF Canonical
<1>6. /\ \A r \in DOMAIN streams' : streams'[r].terminal => outcome[r] = "completed"
      /\ DOMAIN streams' \subseteq DOMAIN outcome
  BY <1>2, <1>3 DEF RowInv, TypeOK, DurableTypeOK
<1>7. outcome[live.id] = "started" /\ live.started = {}
  BY <1>1, <1>2 DEF LiveInv, StartedInv
<1> QED
  BY <1>1, <1>2, <1>3, <1>4, <1>5, <1>6, <1>7, StayType, StreamKeeps DEF Places

LEMMA StagePublicationKeeps ==
    ASSUME RecoveryInv, StagePublication
    PROVE  RecoveryInv'
<1> /\ TypeOK /\ RowInv /\ LiveInv /\ CallInv /\ StartedInv
  BY DEF RecoveryInv
<1>1. /\ phase = "attempt" /\ live.at = "streaming" /\ live.id \in DOMAIN streams
      /\ streams' = [streams EXCEPT ![live.id].output = TRUE]
      /\ UNCHANGED <<turn, evidence, outcome, results, effects, carryover>> /\ ControlUnchanged
      /\ live' = live
  BY DEF StagePublication, At
<1>2. Begun /\ IsNewest(live.id) /\ live.id \in DOMAIN outcome /\ Unsettled \subseteq {live.id}
  BY <1>1, InBody, UnsettledIs
<1>3. /\ DOMAIN streams' = DOMAIN streams
      /\ \A r \in DOMAIN streams : /\ streams'[r].settlement = streams[r].settlement
                                   /\ streams'[r].terminal = streams[r].terminal
      /\ streams' \in [DOMAIN streams' -> Rows]
  <2> DEFINE row == [streams[live.id] EXCEPT !.output = TRUE]
  <2>1. /\ streams[live.id] \in Rows /\ live.id \in DOMAIN streams
        /\ streams \in [DOMAIN streams -> Rows]
    BY <1>1 DEF TypeOK, DurableTypeOK
  <2>2. row \in Rows /\ row.settlement = streams[live.id].settlement /\ row.terminal = streams[live.id].terminal
    BY <2>1 DEF Rows
  <2>3. streams' = [streams EXCEPT ![live.id] = row]
    BY <1>1, <2>1
  <2> HIDE DEF row
  <2> QED
    BY <2>1, <2>2, <2>3
<1>4. Unsettled' = Unsettled
  BY <1>3 DEF Unsettled
<1>5. \A r : Canonical(r)' <=> Canonical(r)
  BY <1>3 DEF Canonical
<1>6. /\ \A r \in DOMAIN streams' : streams'[r].terminal => outcome[r] = "completed"
      /\ DOMAIN streams' \subseteq DOMAIN outcome
  BY <1>3 DEF RowInv, TypeOK, DurableTypeOK
<1>7. outcome[live.id] = "started" /\ live.started = {} /\ live.id \in Unsettled
  BY <1>1, <1>2 DEF LiveInv, StartedInv
<1> QED
  BY <1>1, <1>2, <1>3, <1>4, <1>5, <1>6, <1>7, StayType, StreamKeeps DEF Places

LEMMA CommitPublicationTerminalKeeps ==
    ASSUME RecoveryInv, CommitPublicationTerminal
    PROVE  RecoveryInv'
<1> /\ TypeOK /\ RowInv /\ LiveInv /\ CallInv /\ StartedInv
  BY DEF RecoveryInv
<1>1. /\ phase = "attempt" /\ live.at = "completed" /\ outcome[live.id] = "completed"
      /\ streams' = [streams EXCEPT ![live.id].terminal = TRUE]
      /\ UNCHANGED <<turn, evidence, outcome, results, effects, carryover>> /\ ControlUnchanged
      /\ live' = [live EXCEPT !.at = "published"]
  BY DEF CommitPublicationTerminal, At, Goto
<1>2. Begun /\ IsNewest(live.id) /\ live.id \in DOMAIN outcome /\ Unsettled \subseteq {live.id}
  BY <1>1, InBody, UnsettledIs
<1>3. /\ DOMAIN streams' = DOMAIN streams
      /\ \A r \in DOMAIN streams : /\ streams'[r].settlement = streams[r].settlement
                                   /\ r # live.id => streams'[r].terminal = streams[r].terminal
      /\ streams' \in [DOMAIN streams' -> Rows]
  <2> DEFINE row == [streams[live.id] EXCEPT !.terminal = TRUE]
  <2>1. /\ streams[live.id] \in Rows /\ live.id \in DOMAIN streams
        /\ streams \in [DOMAIN streams -> Rows]
    BY <1>1, <1>2 DEF TypeOK, DurableTypeOK, LiveInv, Unsettled
  <2>2. row \in Rows /\ row.settlement = streams[live.id].settlement
    BY <2>1 DEF Rows
  <2>3. streams' = [streams EXCEPT ![live.id] = row]
    BY <1>1, <2>1
  <2> HIDE DEF row
  <2> QED
    BY <2>1, <2>2, <2>3
<1>4. Unsettled' = Unsettled
  BY <1>3 DEF Unsettled
<1>5. \A r : Canonical(r)' <=> Canonical(r)
  BY <1>3 DEF Canonical
<1>6. /\ \A r \in DOMAIN streams' : streams'[r].terminal => outcome[r] = "completed"
      /\ DOMAIN streams' \subseteq DOMAIN outcome
  BY <1>1, <1>3 DEF RowInv, TypeOK, DurableTypeOK
<1>7. live.started = {} /\ live.id \in Unsettled /\ Missing = {}
  BY <1>1, <1>2 DEF LiveInv, StartedInv, CallInv
<1> QED
  BY <1>1, <1>2, <1>3, <1>4, <1>5, <1>6, <1>7, StreamKeeps DEF Places

\* An audit settles one row and nothing becomes canonical by it.
LEMMA AuditIs ==
    ASSUME TypeOK, NEW r \in Unsettled, streams' = Audited(r)
    PROVE  /\ DOMAIN streams' = DOMAIN streams /\ streams' \in [DOMAIN streams' -> Rows]
           /\ \A q \in DOMAIN streams : streams'[q].terminal = streams[q].terminal
           /\ \A q : Canonical(q)' <=> Canonical(q)
           /\ Unsettled' = Unsettled \ {r}
<1>1. r \in DOMAIN streams /\ streams[r].settlement = "none" /\ AuditKind(r) \in {"unaccepted", "incomplete"}
  BY DEF Unsettled, AuditKind
<1>2. /\ DOMAIN streams' = DOMAIN streams /\ streams' \in [DOMAIN streams' -> Rows]
      /\ \A q \in DOMAIN streams : streams'[q].terminal = streams[q].terminal
      /\ streams'[r].settlement \in {"unaccepted", "incomplete"}
      /\ \A q \in DOMAIN streams : q # r => streams'[q] = streams[q]
  BY <1>1 DEF Audited, TypeOK, DurableTypeOK, Rows
<1> QED
  BY <1>1, <1>2 DEF Canonical, Unsettled

LEMMA SettleAuditKeeps ==
    ASSUME RecoveryInv, SettleAudit
    PROVE  RecoveryInv'
<1> /\ TypeOK /\ RowInv /\ LiveInv /\ OpenInv
  BY DEF RecoveryInv
<1>1. /\ phase = "attempt" /\ live.at = "ending" /\ live.id \in Unsettled
      /\ streams' = Audited(live.id) /\ live' = live
      /\ UNCHANGED <<turn, evidence, outcome, results, effects, carryover>> /\ ControlUnchanged
  BY DEF SettleAudit, At
<1>2. Begun /\ IsNewest(live.id) /\ Unsettled \subseteq {live.id}
  BY <1>1, UnsettledIs DEF RowInv, OpenInv, Begun
<1>3. /\ \A r \in DOMAIN streams' : streams'[r].terminal => outcome[r] = "completed"
      /\ DOMAIN streams' \subseteq DOMAIN outcome
  BY <1>1, AuditIs DEF RowInv, TypeOK, DurableTypeOK
<1> QED
  BY <1>1, <1>2, <1>3, AuditIs, StayType, StreamKeeps DEF Places

LEMMA ScheduleRetryKeeps ==
    ASSUME RecoveryInv, ScheduleRetry
    PROVE  RecoveryInv'
<1> /\ TypeOK /\ RowInv /\ LiveInv /\ OpenInv /\ CallInv
  BY DEF RecoveryInv
<1>1. /\ phase = "attempt" /\ live.at = "failed" /\ live.id[3] < MaxRetries
      /\ streams' = IF live.id \in Unsettled THEN Audited(live.id) ELSE streams
      /\ live' = [live EXCEPT !.at = "retrying"]
      /\ UNCHANGED <<turn, evidence, outcome, results, effects, carryover>> /\ ControlUnchanged
  BY DEF ScheduleRetry, At, Goto
<1>2. Begun /\ IsNewest(live.id) /\ Unsettled \subseteq {live.id}
  BY <1>1, InBody, UnsettledIs
<1>3. Missing = {} /\ outcome[live.id] = "failed" /\ live.unresolved
  <2>1. ~Canonical(live.id)
    BY <1>1, <1>2 DEF LiveInv, Canonical, Unsettled
  <2> QED
    BY <1>1, <1>2, <2>1 DEF CallInv, LiveInv
<1>4. /\ DOMAIN streams' = DOMAIN streams /\ streams' \in [DOMAIN streams' -> Rows]
      /\ \A q \in DOMAIN streams : streams'[q].terminal = streams[q].terminal
      /\ \A q : Canonical(q)' <=> Canonical(q)
      /\ Unsettled' = Unsettled \ {live.id}
  <2>1. CASE live.id \in Unsettled
    BY <1>1, <2>1, AuditIs
  <2>2. CASE live.id \notin Unsettled
    <3>1. streams' = streams
      BY <1>1, <2>2
    <3> QED
      BY <2>2, <3>1 DEF Canonical, Unsettled, TypeOK, DurableTypeOK
  <2> QED
    BY <2>1, <2>2
<1>5. /\ \A r \in DOMAIN streams' : streams'[r].terminal => outcome[r] = "completed"
      /\ DOMAIN streams' \subseteq DOMAIN outcome
  BY <1>4 DEF RowInv, TypeOK, DurableTypeOK
<1> QED
  BY <1>1, <1>2, <1>3, <1>4, <1>5, StreamKeeps DEF Places

LEMMA BeforeAntisymmetric ==
    ASSUME NEW q \in Requests, NEW r \in Requests, q[1] = r[1], Before(q, r), Before(r, q)
    PROVE  q = r
<1>1. /\ q[2] \in Nat /\ r[2] \in Nat /\ q[3] \in Nat /\ r[3] \in Nat
      /\ q = <<q[1], q[2], q[3]>> /\ r = <<r[1], r[2], r[3]>>
  BY RequestParts
<1>2. q[2] = r[2] /\ q[3] = r[3]
  BY <1>1 DEF Before
<1> QED
  BY <1>1, <1>2

\* A request starts when the one before it is settled and every call has its result.
LEMMA StartRequestKeeps ==
    ASSUME RecoveryInv, phase = "attempt", Begun, IsOpen, NEW r \in Requests, r[1] = Top,
           r \notin DOMAIN outcome, \A q \in Own : Before(q, r), Unsettled = {}, Missing = {},
           r[3] # 0 => Own # {}, r[2] <= ToolSteps + Cardinality(Taken) + 1, StartRequest(r)
    PROVE  RecoveryInv'
<1> /\ TypeOK /\ PhaseInv /\ OpenInv /\ RowInv /\ LiveInv /\ EvidenceInv
    /\ CallInv /\ StartedInv /\ ToolInv /\ PlanInv /\ CountInv /\ ResultInv /\ CarryInv
    /\ VerdictIsTruthful
  BY DEF RecoveryInv
<1>1. /\ outcome' = With(outcome, r, "started")
      /\ evidence' = FoldRequestStarted(evidence, r)
      /\ turn' = [t \in Turns |-> IF turn[t] = "adopted" THEN "carried" ELSE turn[t]]
      /\ carryover' = IF r[3] = 0 THEN None ELSE carryover
      /\ live' = [live EXCEPT !.at = "streaming", !.id = r, !.unresolved = TRUE, !.started = {}]
      /\ UNCHANGED <<streams, results, effects, phase, plan, continuation, crashes, faults>>
      /\ plan = NoPlan
  BY DEF StartRequest, ControlUnchanged, PhaseInv
<1>2. /\ live'.at = "streaming" /\ live'.id = r /\ live'.unresolved = TRUE /\ live'.started = {}
      /\ live' \in [at : Places \cup {"none"},
                 id : (Attempts \cup {0}) \X (Steps \cup {0}) \X (0 .. MaxRetries),
                 started : SUBSET Calls, tools : BOOLEAN, unresolved : BOOLEAN, failed : BOOLEAN]
  <2>1. r \in (Attempts \cup {0}) \X (Steps \cup {0}) \X (0 .. MaxRetries)
    BY DEF Requests
  <2> QED
    BY <1>1, <2>1 DEF TypeOK, ProcessTypeOK, Places
<1>3. /\ Revised([Entry EXCEPT !.request = "unknown", !.last = r])
      /\ evidence'.repairs = evidence.repairs /\ evidence'.obligation = FALSE
  BY <1>1, RequestStartedFolds
<1>4. /\ Top' = Top /\ IsOpen' /\ evidence' \in RecoveryEvidence
      /\ Entry'.request = "unknown" /\ Entry'.last = r
      /\ Entry'.tools = Entry.tools /\ Entry'.accepted = Entry.accepted
      /\ \A a \in Attempts : a # Top => evidence'.attempts[a] = evidence.attempts[a]
      /\ evidence'.attempts[Top].open
  BY <1>3, EntryType DEF Revised, Entries, IsOpen, Entry
<1>5. /\ DOMAIN outcome' = DOMAIN outcome \cup {r} /\ outcome'[r] = "started"
      /\ \A q \in DOMAIN outcome : outcome'[q] = outcome[q]
      /\ outcome' \in [DOMAIN outcome' -> {"started", "failed", "completed"}]
  BY <1>1 DEF With, TypeOK, DurableTypeOK
<1>6. Own' = Own \cup {r}
  BY <1>4, <1>5 DEF Own, RequestsOf
<1>7. /\ Missing' = {} /\ Unsettled' = {} /\ (\A q : Canonical(q)' <=> Canonical(q))
      /\ ~Canonical(r) /\ r \notin DOMAIN streams /\ r \notin Own
  BY <1>1 DEF Missing, Unsettled, Canonical, TypeOK, DurableTypeOK, Own, RequestsOf
<1>8. IsNewest(r)' /\ \A q \in Own' : IsNewest(q)' => q = r
  <2>1. Before(r, r)
    BY RequestParts DEF Before
  <2>2. Own \subseteq Requests /\ \A q \in Own : q[1] = Top
    BY DEF Own, RequestsOf, TypeOK, DurableTypeOK
  <2> QED
    BY <1>6, <2>1, <2>2, BeforeAntisymmetric DEF IsNewest
<1>9. PlanInv' /\ VerdictIsTruthful' /\ PlanTypeOK'
  BY <1>1, NoPlanKeeps
<1>10. /\ turn' \in [Turns -> {"none", "pending", "adopted", "carried", "decided"}] /\ Taken' = Taken
  BY <1>1, CarriedTakes
<1>11. TypeOK'
  <2>1. carryover' \in Requests \cup {None}
    BY <1>1 DEF TypeOK, DurableTypeOK
  <2>2. DOMAIN outcome' \subseteq Requests /\ DOMAIN streams' \subseteq DOMAIN outcome'
    BY <1>1, <1>5 DEF TypeOK, DurableTypeOK
  <2> QED
    BY <1>1, <1>2, <1>4, <1>5, <1>9, <1>10, <2>1, <2>2 DEF TypeOK, DurableTypeOK, ProcessTypeOK
<1>12. Begun'
  BY <1>2, <1>4 DEF Begun
<1>13. PhaseInv' /\ OpenInv'
  <2>1. PhaseInv'
    BY <1>1, <1>2, <1>3 DEF PhaseInv, Places, NoPlan
  <2>2. OpenInv'
    BY <1>1, <1>2, <1>4, <1>12 DEF OpenInv
  <2> QED
    BY <2>1, <2>2
<1>14. RowInv'
  BY <1>1, <1>4, <1>5, <1>6, <1>7, <1>8, RequestParts, NumbersType DEF RowInv, TypeOK, DurableTypeOK
<1>15. LiveInv'
  BY <1>1, <1>2, <1>5, <1>7, <1>8 DEF LiveInv
<1>16. EvidenceInv'
  <2>1. carryover' = None
    BY <1>1 DEF EvidenceInv
  <2>2. Entry.accepted # r
    BY <1>7, NoneIsNothing DEF EvidenceInv
  <2>3. r # None
    BY NoneIsNothing
  <2> QED
    BY <1>4, <1>5, <1>6, <1>7, <1>8, <2>1, <2>2, <2>3 DEF EvidenceInv
<1>17. CallInv' /\ StartedInv' /\ ToolInv'
  BY <1>1, <1>2, <1>3, <1>4, <1>7 DEF CallInv, StartedInv, ToolInv
<1>18. ResultInv' /\ CarryInv'
  BY <1>1, <1>4 DEF ResultInv, CarryInv
<1>19. CountInv'
  BY <1>1, <1>2, <1>3, <1>4, <1>10 DEF CountInv, Due
<1> QED
  BY <1>9, <1>11, <1>13, <1>14, <1>15, <1>16, <1>17, <1>18, <1>19 DEF RecoveryInv

LEMMA StartTurnKeeps ==
    ASSUME RecoveryInv, StartTurn
    PROVE  RecoveryInv'
<1> /\ TypeOK /\ OpenInv /\ RowInv /\ LiveInv /\ CallInv /\ CountInv
  BY DEF RecoveryInv
<1> DEFINE r == <<live.id[1], live.id[2] + 1, 0>>
<1>1. phase = "attempt" /\ live.at = "turn" /\ StartRequest(r)
  BY DEF StartTurn, At
<1>2. Begun /\ IsOpen /\ Missing = {}
  BY <1>1 DEF OpenInv, CallInv
<1>3. /\ live.id[2] \in Nat /\ live.id[2] <= ToolSteps + Cardinality(Taken)
      /\ Cardinality(Taken) \in Nat /\ Cardinality(Taken) <= Cardinality(Turns)
  BY <1>1, NumbersType, TakenCount DEF CountInv
<1>4. r[1] = Top /\ r[2] = live.id[2] + 1 /\ r[3] = 0
  BY <1>2 DEF Begun
<1>5. r[2] <= ToolSteps + Cardinality(Taken) + 1 /\ r[2] \in Steps
  BY <1>3, <1>4, Bounds DEF Steps
<1>6. r \in Requests
  BY <1>2, <1>4, <1>5, EntryType, Bounds DEF Requests, Begun
<1>7. /\ Unsettled = {}
      /\ \A q \in Own : q[2] \in Nat /\ live.id[2] \in Nat /\ q[2] <= live.id[2]
  <2>1. CASE Own = {}
    BY <2>1 DEF RowInv, IsNewest
  <2>2. CASE IsNewest(live.id)
    <3>1. Canonical(live.id) /\ Unsettled \subseteq {live.id}
      BY <1>1, <1>2, <2>2, UnsettledIs DEF LiveInv
    <3>2. \A q \in Own : Before(q, live.id) /\ q[2] \in Nat /\ q[3] \in Nat
      BY <2>2, RequestParts DEF IsNewest, Own, RequestsOf, TypeOK, DurableTypeOK
    <3> QED
      BY <1>3, <3>1, <3>2 DEF Canonical, Unsettled, Before
  <2> QED
    BY <1>1, <1>2, <2>1, <2>2 DEF LiveInv
<1>8. \A q \in Own : Before(q, r)
  BY <1>4, <1>7 DEF Before
<1>9. r \notin DOMAIN outcome
  BY <1>4, <1>7 DEF Own, RequestsOf
<1> HIDE DEF r
<1> QED
  BY <1>1, <1>2, <1>4, <1>5, <1>6, <1>7, <1>8, <1>9, StartRequestKeeps

LEMMA RetryKeeps ==
    ASSUME RecoveryInv, Retry
    PROVE  RecoveryInv'
<1> /\ TypeOK /\ OpenInv /\ RowInv /\ LiveInv /\ CallInv /\ CountInv
  BY DEF RecoveryInv
<1> DEFINE r == <<live.id[1], live.id[2], live.id[3] + 1>>
<1>1. phase = "attempt" /\ live.at = "retrying" /\ StartRequest(r)
  BY DEF Retry, At
<1>2. /\ Begun /\ IsOpen /\ Missing = {} /\ IsNewest(live.id) /\ live.id \in Requests /\ live.id \in Own
      /\ live.id[1] = Top
  BY <1>1, InBody DEF CallInv
<1>3. /\ live.id[3] < MaxRetries /\ Unsettled = {}
      /\ live.id[2] <= ToolSteps + Cardinality(Taken) + 1
  BY <1>1, <1>2, UnsettledIs DEF LiveInv, CountInv
<1>4. r[1] = Top /\ r[2] = live.id[2] /\ r[3] = live.id[3] + 1
  BY <1>2
<1>5. /\ live.id[1] \in Attempts /\ live.id[2] \in Steps /\ live.id[3] \in Nat /\ live.id[2] \in Nat
      /\ live.id[3] + 1 \in 0 .. MaxRetries
  BY <1>2, <1>3, RequestParts, Bounds
<1>6. r \in Requests
  BY <1>5 DEF Requests
<1>7. \A q \in Own : Before(q, live.id) /\ q[2] \in Nat /\ q[3] \in Nat
  BY <1>2, RequestParts DEF IsNewest, Own, RequestsOf, TypeOK, DurableTypeOK
<1>8. \A q \in Own : Before(q, r) /\ q # r
  BY <1>4, <1>5, <1>7 DEF Before
<1>9. r \notin DOMAIN outcome
  BY <1>4, <1>8 DEF Own, RequestsOf
<1> HIDE DEF r
<1> QED
  BY <1>1, <1>2, <1>3, <1>4, <1>6, <1>8, <1>9, StartRequestKeeps

\* The outcome of a request is recorded.
LEMMA SettleRequestKeeps ==
    ASSUME RecoveryInv, phase = "attempt", live.at = "streaming",
           NEW how \in {"failed", "completed"}, SettleRequest(how, how),
           how = "completed" => live.id \in DOMAIN streams
    PROVE  RecoveryInv'
<1> /\ TypeOK /\ PhaseInv /\ OpenInv /\ RowInv /\ LiveInv /\ EvidenceInv
    /\ CallInv /\ StartedInv /\ ToolInv /\ PlanInv /\ CountInv /\ ResultInv /\ CarryInv
    /\ VerdictIsTruthful
  BY DEF RecoveryInv
<1>1. /\ outcome' = [outcome EXCEPT ![live.id] = how]
      /\ evidence' = FoldRequestSettled(evidence, live.id)
      /\ live' = [live EXCEPT !.at = how]
      /\ UNCHANGED <<turn, streams, results, effects, carryover>>
      /\ UNCHANGED <<phase, plan, continuation, crashes, faults>> /\ plan = NoPlan
  BY DEF SettleRequest, ControlUnchanged, Goto, PhaseInv
<1>2. /\ Begun /\ IsOpen /\ IsNewest(live.id) /\ live.id \in Own /\ live.id \in Requests
      /\ live.id \in DOMAIN outcome /\ live.id[1] = Top /\ Unsettled \subseteq {live.id}
      /\ outcome[live.id] = "started"
  BY InBody, UnsettledIs DEF LiveInv
<1>3. how \in Places
  BY DEF Places
<1>4. /\ live'.at = how /\ live'.id = live.id /\ live'.unresolved = live.unresolved
      /\ live'.started = live.started /\ live'.tools = live.tools
      /\ live' \in [at : Places \cup {"none"},
                 id : (Attempts \cup {0}) \X (Steps \cup {0}) \X (0 .. MaxRetries),
                 started : SUBSET Calls, tools : BOOLEAN, unresolved : BOOLEAN, failed : BOOLEAN]
  BY <1>1, <1>3, MoveType
<1>5. /\ Revised([Entry EXCEPT !.request = "known"])
      /\ evidence'.repairs = evidence.repairs /\ evidence'.obligation = evidence.obligation
  BY <1>1, <1>2, RequestSettledFolds
<1>6. /\ Top' = Top /\ IsOpen' /\ evidence' \in RecoveryEvidence
      /\ Entry'.request = "known" /\ Entry'.last = Entry.last
      /\ Entry'.tools = Entry.tools /\ Entry'.accepted = Entry.accepted
      /\ \A a \in Attempts : a # Top => evidence'.attempts[a] = evidence.attempts[a]
      /\ evidence'.attempts[Top].open
  BY <1>2, <1>5, EntryType DEF Revised, Entries, IsOpen, Entry
<1>7. /\ DOMAIN outcome' = DOMAIN outcome /\ outcome'[live.id] = how
      /\ \A q \in DOMAIN outcome : q # live.id => outcome'[q] = outcome[q]
      /\ outcome' \in [DOMAIN outcome' -> {"started", "failed", "completed"}]
  BY <1>1, <1>2 DEF TypeOK, DurableTypeOK
<1>8. Own' = Own /\ \A r : IsNewest(r)' = IsNewest(r)
  BY <1>6, <1>7 DEF Own, RequestsOf, IsNewest
<1>9. Missing' = Missing /\ Unsettled' = Unsettled /\ \A q : Canonical(q)' <=> Canonical(q)
  BY <1>1 DEF Missing, Unsettled, Canonical
<1>10. \A r \in Own : IsNewest(r) => r = live.id
  BY <1>2, NewestOwn
<1>11. PlanInv' /\ VerdictIsTruthful' /\ PlanTypeOK'
  BY <1>1, NoPlanKeeps
<1>12. TypeOK'
  BY <1>1, <1>4, <1>6, <1>7, <1>11 DEF TypeOK, DurableTypeOK, ProcessTypeOK
<1>13. Begun'
  BY <1>2, <1>4, <1>6 DEF Begun
<1>14. PhaseInv' /\ OpenInv'
  BY <1>1, <1>3, <1>4, <1>5, <1>6, <1>13 DEF PhaseInv, OpenInv
<1>15. RowInv'
  BY <1>1, <1>2, <1>6, <1>7, <1>8, <1>9 DEF RowInv, TypeOK, DurableTypeOK
<1>16. LiveInv'
  BY <1>1, <1>2, <1>4, <1>7, <1>8, <1>9 DEF LiveInv
<1>17. EvidenceInv'
  BY <1>1, <1>2, <1>6, <1>7, <1>8, <1>9, <1>10 DEF EvidenceInv
<1>18. CallInv' /\ StartedInv' /\ ToolInv'
  BY <1>1, <1>2, <1>4, <1>5, <1>6, <1>8, <1>9 DEF CallInv, StartedInv, ToolInv, Told
<1>19. ResultInv' /\ CarryInv'
  BY <1>1, <1>6 DEF ResultInv, CarryInv
<1>20. CountInv'
  <2>1. Taken' = Taken /\ ~Due'
    BY <1>1, <1>13 DEF Taken, Due
  <2> QED
    BY <1>1, <1>4, <1>6, <2>1 DEF CountInv
<1> QED
  BY <1>11, <1>12, <1>14, <1>15, <1>16, <1>17, <1>18, <1>19, <1>20 DEF RecoveryInv

LEMMA RequestEndsKeeps ==
    ASSUME RecoveryInv, RequestFailed \/ RequestCompleted
    PROVE  RecoveryInv'
BY SettleRequestKeeps DEF RequestFailed, RequestCompleted, At

LEMMA AttemptStartedKeeps ==
    ASSUME RecoveryInv, AttemptStarted
    PROVE  RecoveryInv'
<1> /\ TypeOK /\ PhaseInv /\ OpenInv /\ RowInv /\ LiveInv /\ EvidenceInv
    /\ CallInv /\ StartedInv /\ ToolInv /\ PlanInv /\ CountInv /\ ResultInv /\ CarryInv
    /\ VerdictIsTruthful
  BY DEF RecoveryInv
<1>1. /\ phase = "attempt" /\ live.at = "starting"
      /\ evidence' = FoldAttemptStarted(evidence, live.id[1])
      /\ live' = [live EXCEPT !.at = "turn"]
      /\ outcome' = KeepOnly(outcome, Kept) /\ streams' = KeepOnly(streams, Kept)
      /\ results' = KeepOnly(results, Kept \X Calls) /\ effects' = KeepOnly(effects, Kept \X Calls)
      /\ UNCHANGED <<turn, carryover>>
      /\ UNCHANGED <<phase, plan, continuation, crashes, faults>> /\ plan = NoPlan
  BY DEF AttemptStarted, At, Goto, ControlUnchanged, PhaseInv
<1>2. /\ ~Begun /\ live.id = <<Top + 1, 0, 0>> /\ Top + 1 \in Attempts /\ ~IsOpen
      /\ evidence.obligation /\ ~live.unresolved /\ Top \in Nat
  BY <1>1, NumbersType DEF OpenInv
<1>3. Missing = {} /\ Unsettled = {} /\ Kept = {}
  BY <1>1, <1>2 DEF CallInv, RowInv, Kept
<1>4. DOMAIN outcome' = {} /\ DOMAIN streams' = {} /\ DOMAIN results' = {} /\ DOMAIN effects' = {}
  BY <1>1, <1>3 DEF KeepOnly
<1>5. "turn" \in Places
  BY DEF Places
<1>6. /\ live'.at = "turn" /\ live'.id = live.id /\ live'.unresolved = live.unresolved
      /\ live' \in [at : Places \cup {"none"},
                 id : (Attempts \cup {0}) \X (Steps \cup {0}) \X (0 .. MaxRetries),
                 started : SUBSET Calls, tools : BOOLEAN, unresolved : BOOLEAN, failed : BOOLEAN]
  BY <1>1, <1>5, MoveType
<1>7. live.id[1] = Top + 1 /\ live.id[2] = 0
  BY <1>2
<1> DEFINE e == [NotOpen EXCEPT !.open = TRUE]
<1>8. /\ e \in Entries /\ e.open /\ e.request = "never" /\ e.tools = "never"
      /\ e.last = None /\ e.accepted = None
  BY DEF Entries, NotOpen
<1>9. evidence' = [evidence EXCEPT !.attempts[Top + 1] = e, !.highest = Top + 1]
  BY <1>1, <1>7 DEF FoldAttemptStarted
<1> HIDE DEF e
<1>10. /\ evidence'.attempts = [evidence.attempts EXCEPT ![Top + 1] = e]
       /\ evidence'.highest = Top + 1 /\ evidence'.repairs = evidence.repairs
       /\ evidence'.obligation = evidence.obligation
  BY <1>9 DEF TypeOK, DurableTypeOK, RecoveryEvidence
<1>11. evidence' \in RecoveryEvidence
  BY <1>2, <1>8, <1>9 DEF TypeOK, DurableTypeOK, RecoveryEvidence
<1>12. /\ Top' = Top + 1 /\ evidence'.attempts[Top + 1] = e
       /\ \A a \in Attempts : a # Top + 1 => evidence'.attempts[a] = evidence.attempts[a]
  BY <1>2, <1>10 DEF Top, TypeOK, DurableTypeOK, RecoveryEvidence
<1>13. Entry' = e /\ IsOpen'
  BY <1>2, <1>8, <1>12 DEF Entry, IsOpen
<1>14. Own' = {} /\ Missing' = {} /\ Unsettled' = {}
  BY <1>4 DEF Own, RequestsOf, Missing, Unsettled
<1>15. PlanInv' /\ VerdictIsTruthful' /\ PlanTypeOK'
  BY <1>1, NoPlanKeeps
<1>16. TypeOK'
  <2>1. /\ outcome' \in [DOMAIN outcome' -> {"started", "failed", "completed"}]
        /\ streams' \in [DOMAIN streams' -> Rows]
        /\ results' \in [DOMAIN results' -> {"missing", "not_run", "known", "unknown"}]
        /\ effects' \in [DOMAIN effects' -> {"announced", "running", "ended", "recorded"}]
    BY <1>1, <1>4 DEF KeepOnly
  <2> QED
    BY <1>1, <1>4, <1>6, <1>11, <1>15, <2>1 DEF TypeOK, DurableTypeOK, ProcessTypeOK
<1>17. Begun'
  BY <1>6, <1>7, <1>12 DEF Begun
<1>18. PhaseInv'
  BY <1>1, <1>5, <1>6, <1>10 DEF PhaseInv
<1>19. OpenInv'
  <2>1. \A a \in Attempts : evidence.attempts[a] = NotOpen
    BY <1>2, Bounds DEF OpenInv, IsOpen, Entry
  <2>2. ~NotOpen.open
    BY DEF NotOpen
  <2> QED
    BY <1>1, <1>6, <1>8, <1>12, <1>13, <1>17, <2>1, <2>2 DEF OpenInv
<1>20. RowInv' /\ LiveInv' /\ EvidenceInv'
  BY <1>4, <1>6, <1>2, <1>7, <1>8, <1>13, <1>14 DEF RowInv, LiveInv, EvidenceInv, IsNewest
<1>21. CallInv' /\ StartedInv'
  BY <1>3, <1>6, <1>10, <1>14 DEF CallInv, StartedInv
<1>22. ToolInv'
  BY <1>4, <1>8, <1>13 DEF ToolInv
<1>23. ResultInv' /\ CarryInv'
  BY <1>4, <1>13 DEF ResultInv, CarryInv
<1>24. CountInv'
  <2>1. Taken' = Taken /\ ~Due' /\ Due
    BY <1>1, <1>2, <1>17 DEF Taken, Due
  <2>2. Cardinality(Taken) \in Nat
    BY TakenCount
  <2> QED
    BY <1>1, <1>6, <1>7, <1>12, <2>1, <2>2, Bounds DEF CountInv
<1> QED
  BY <1>15, <1>16, <1>18, <1>19, <1>20, <1>21, <1>22, <1>23, <1>24 DEF RecoveryInv

\* The message is accepted, and with it the calls it makes.
LEMMA CommitAssistantMessageKeeps ==
    ASSUME RecoveryInv, CommitAssistantMessage
    PROVE  RecoveryInv'
<1> /\ TypeOK /\ PhaseInv /\ OpenInv /\ RowInv /\ LiveInv /\ EvidenceInv
    /\ CallInv /\ StartedInv /\ ToolInv /\ PlanInv /\ CountInv /\ ResultInv /\ CarryInv
    /\ VerdictIsTruthful
  BY DEF RecoveryInv
<1>1. /\ phase = "attempt" /\ live.at = "published" /\ live.id \in Unsettled
      /\ outcome[live.id] = "completed"
      /\ streams' = [streams EXCEPT ![live.id].settlement = "canonical"]
      /\ evidence' = FoldAssistant(evidence, live.id)
      /\ UNCHANGED <<turn, outcome, effects, carryover>>
      /\ UNCHANGED <<phase, plan, continuation, crashes, faults>> /\ plan = NoPlan
  BY DEF CommitAssistantMessage, At, ControlUnchanged, PhaseInv
<1>2. PICK C \in SUBSET Calls :
         /\ live.id[2] > ToolSteps => C = {}
         /\ results' = WithAll(results, {live.id} \X C, "missing")
         /\ live' = [live EXCEPT !.at = IF C = {} THEN "boundary" ELSE "tools",
                                 !.unresolved = FALSE, !.tools = C # {}]
  BY DEF CommitAssistantMessage
<1>3. /\ Begun /\ IsOpen /\ IsNewest(live.id) /\ live.id \in Own /\ live.id \in Requests
      /\ live.id \in DOMAIN outcome /\ live.id[1] = Top /\ Unsettled \subseteq {live.id}
      /\ Missing = {} /\ live.started = {}
  BY <1>1, InBody, UnsettledIs DEF CallInv, StartedInv
<1>4. /\ live'.at = (IF C = {} THEN "boundary" ELSE "tools") /\ live'.id = live.id
      /\ live'.unresolved = FALSE /\ live'.started = {} /\ live'.tools = (C # {})
      /\ live'.at \in Places
      /\ live' \in [at : Places \cup {"none"},
                 id : (Attempts \cup {0}) \X (Steps \cup {0}) \X (0 .. MaxRetries),
                 started : SUBSET Calls, tools : BOOLEAN, unresolved : BOOLEAN, failed : BOOLEAN]
  BY <1>2, <1>3 DEF TypeOK, ProcessTypeOK, Places
<1>5. /\ Revised([Entry EXCEPT !.accepted = live.id])
      /\ evidence'.repairs = evidence.repairs /\ evidence'.obligation = evidence.obligation
  BY <1>1, <1>3, AssistantFolds
<1>6. /\ Top' = Top /\ IsOpen' /\ evidence' \in RecoveryEvidence
      /\ Entry'.request = Entry.request /\ Entry'.last = Entry.last
      /\ Entry'.tools = Entry.tools /\ Entry'.accepted = live.id
      /\ \A a \in Attempts : a # Top => evidence'.attempts[a] = evidence.attempts[a]
      /\ evidence'.attempts[Top].open
  BY <1>3, <1>5, EntryType DEF Revised, Entries, IsOpen, Entry
<1>7. Own' = Own /\ \A r : IsNewest(r)' = IsNewest(r)
  BY <1>1, <1>6 DEF Own, RequestsOf, IsNewest
<1>8. /\ DOMAIN streams' = DOMAIN streams /\ live.id \in DOMAIN streams
      /\ streams' \in [DOMAIN streams' -> Rows]
      /\ streams'[live.id].settlement = "canonical"
      /\ \A q \in DOMAIN streams : /\ q # live.id => streams'[q] = streams[q]
                                   /\ streams'[q].terminal = streams[q].terminal
  BY <1>1 DEF Unsettled, TypeOK, DurableTypeOK, Rows
<1>9. Unsettled' = {} /\ \A q : Canonical(q)' <=> (Canonical(q) \/ q = live.id)
  BY <1>3, <1>8 DEF Unsettled, Canonical
<1>10. \A o \in DOMAIN results : o[1] # live.id /\ o \in Occurrences
  BY <1>1 DEF RowInv, Canonical, Unsettled, TypeOK, DurableTypeOK
<1> DEFINE N == {live.id} \X C
<1>11. /\ \A o \in N : o[1] = live.id /\ o[2] \in C /\ o \in Occurrences /\ o \notin DOMAIN results
       /\ \A o \in N : o \notin DOMAIN effects
       /\ \A c \in C : <<live.id, c>> \in N
  <2>1. \A o \in N : o[1] = live.id /\ o[2] \in C
    OBVIOUS
  <2>2. \A o \in N : o \in Occurrences
    BY <1>3 DEF Occurrences
  <2> QED
    BY <1>10, <2>1, <2>2 DEF TypeOK, ProcessTypeOK
<1> HIDE DEF N
<1>12. /\ DOMAIN results' = DOMAIN results \cup N
       /\ \A o \in DOMAIN results : results'[o] = results[o]
       /\ \A o \in N : results'[o] = "missing"
       /\ results' \in [DOMAIN results' -> {"missing", "not_run", "known", "unknown"}]
  BY <1>2, <1>11 DEF N, WithAll, TypeOK, DurableTypeOK
<1>13. Missing' = N
  BY <1>3, <1>11, <1>12 DEF Missing
<1>14. N = {} <=> C = {}
  BY <1>11
<1>15. PlanInv' /\ VerdictIsTruthful' /\ PlanTypeOK'
  BY <1>1, NoPlanKeeps
<1>16. TypeOK'
  <2>1. DOMAIN results' \subseteq Occurrences /\ DOMAIN effects' \subseteq DOMAIN results'
    BY <1>1, <1>10, <1>11, <1>12 DEF TypeOK, ProcessTypeOK
  <2> QED
    BY <1>1, <1>4, <1>6, <1>8, <1>12, <1>15, <2>1 DEF TypeOK, DurableTypeOK, ProcessTypeOK
<1>17. Begun'
  BY <1>3, <1>4, <1>6 DEF Begun
<1>18. PhaseInv' /\ OpenInv'
  <2>1. PhaseInv'
    BY <1>1, <1>4, <1>5 DEF PhaseInv
  <2>2. OpenInv'
    BY <1>1, <1>4, <1>6, <1>17 DEF OpenInv
  <2> QED
    BY <2>1, <2>2
<1>19. RowInv'
  <2>1. \A o \in DOMAIN results' : Canonical(o[1])'
    BY <1>9, <1>11, <1>12 DEF RowInv
  <2> QED
    BY <1>1, <1>3, <1>6, <1>7, <1>8, <1>9, <2>1 DEF RowInv
<1>20. LiveInv'
  <2>1. live'.tools => live.id[2] <= ToolSteps
    <3>1. live.id[2] \in Nat /\ ToolSteps \in Nat
      BY NumbersType, Bounds
    <3>2. C # {} => ~(live.id[2] > ToolSteps)
      BY <1>2
    <3> QED
      BY <1>4, <3>1, <3>2
  <2> QED
    BY <1>3, <1>4, <1>7, <1>9, <1>14, <2>1 DEF LiveInv
<1>21. EvidenceInv'
  <2>1. \A r \in Own : IsNewest(r) => r = live.id
    BY <1>3, NewestOwn
  <2> QED
    BY <1>1, <1>3, <1>6, <1>7, <1>9, <2>1, NoneIsNothing DEF EvidenceInv
<1>22. CallInv'
  <2>1. \A o \in N : Told(o)' = "none"
    BY <1>1, <1>11 DEF Told
  <2>2. \A a \in Attempts, c \in Calls : evidence.repairs[<<a, c>>] = "none"
    BY <1>3 DEF CallInv
  <2>3. Top \in Attempts /\ \A o \in N : o[2] \in Calls
    BY <1>3, <1>11, EntryType
  <2> QED
    BY <1>1, <1>3, <1>4, <1>5, <1>6, <1>7, <1>11, <1>13, <1>14, <2>1, <2>2, <2>3 DEF CallInv
<1>23. StartedInv'
  <2>1. \A c \in Calls : <<live.id, c>> \notin DOMAIN effects
    BY <1>3, <1>10, OccurrenceParts DEF TypeOK, ProcessTypeOK
  <2>2. \A o \in Ours' : o \in Missing'
    BY <1>4, <1>10, <1>12, <1>13 DEF Ours
  <2> QED
    BY <1>1, <1>4, <2>1, <2>2 DEF StartedInv
<1>24. ToolInv'
  BY <1>1, <1>3, <1>6, <1>11, <1>13 DEF ToolInv
<1>25. ResultInv' /\ CarryInv'
  BY <1>1, <1>6, <1>12 DEF ResultInv, CarryInv
<1>26. CountInv'
  <2>1. Taken' = Taken /\ ~Due'
    BY <1>1, <1>17 DEF Taken, Due
  <2> QED
    BY <1>1, <1>4, <1>6, <2>1 DEF CountInv
<1> QED
  BY <1>15, <1>16, <1>18, <1>19, <1>20, <1>21, <1>22, <1>23, <1>24, <1>25, <1>26 DEF RecoveryInv

\* A step of the tool phase: neither the requests nor the results change.
LEMMA ToolPhase ==
    ASSUME RecoveryInv, phase = "attempt", live.at \in {"tools", "settling"}
    PROVE  /\ Begun /\ IsOpen /\ live.id \in Requests /\ live.id \in Own /\ live.id[1] = Top
           /\ Top \in Attempts /\ plan = NoPlan
           /\ \A o \in Missing : o \in Occurrences /\ o = <<live.id, o[2]>> /\ o[2] \in Calls /\ o[1] = live.id
           /\ \A o \in DOMAIN effects : o \in Occurrences /\ o = <<o[1], o[2]>> /\ o[2] \in Calls /\ o \in DOMAIN results
           /\ \A o \in DOMAIN results : o[1] = live.id => o \in Missing
           /\ \A c \in Calls : c \in live.started <=> <<live.id, c>> \in DOMAIN effects
           /\ \A c \in Calls : c \in live.started => <<live.id, c>> \in Missing
           /\ live.started \subseteq Calls
<1> /\ TypeOK /\ CallInv /\ StartedInv
  BY DEF RecoveryInv
<1>1. /\ Begun /\ IsOpen /\ live.id \in Requests /\ live.id \in Own /\ live.id[1] = Top /\ plan = NoPlan
  BY InBody
<1>2. \A o \in Missing : o[1] = live.id /\ o \in Occurrences
  BY DEF CallInv, Missing, TypeOK, DurableTypeOK
<1>3. \A o \in DOMAIN effects : o \in Occurrences /\ o \in DOMAIN results
  BY DEF TypeOK, DurableTypeOK, ProcessTypeOK
<1>4. \A o \in DOMAIN results : o[1] = live.id => o \in Missing
  BY DEF StartedInv, Ours
<1>5. \A c \in Calls : c \in live.started <=> <<live.id, c>> \in DOMAIN effects
  BY DEF StartedInv
<1>6. \A c \in Calls : <<live.id, c>>[1] = live.id
  OBVIOUS
<1>7. live.started \subseteq Calls
  BY DEF TypeOK, ProcessTypeOK
<1> QED
  BY <1>1, <1>2, <1>3, <1>4, <1>5, <1>6, <1>7, OccurrenceParts, EntryType

\* The parts that a step of the tool phase does not touch.
LEMMA ToolPhaseKeeps ==
    ASSUME RecoveryInv, phase = "attempt", live.at \in {"tools", "settling"},
           NEW e, Revised(e) \/ (evidence' = evidence /\ e = Entry), e \in Entries, e.open,
           e.request = Entry.request, e.last = Entry.last, e.accepted = Entry.accepted,
           evidence' \in RecoveryEvidence, evidence'.obligation = evidence.obligation,
           UNCHANGED <<turn, outcome, streams, results, carryover>>, ControlUnchanged,
           live'.at = live.at, live'.id = live.id, live'.unresolved = live.unresolved,
           live'.tools = live.tools, live'.started \subseteq Calls,
           live' = [live EXCEPT !.started = live'.started],
           DOMAIN effects' \subseteq DOMAIN results,
           effects' \in [DOMAIN effects' -> {"announced", "running", "ended", "recorded"}],
           CallInv', StartedInv', ToolInv', ResultInv'
    PROVE  RecoveryInv'
<1> /\ TypeOK /\ PhaseInv /\ OpenInv /\ RowInv /\ LiveInv /\ EvidenceInv /\ CountInv /\ CarryInv
  BY DEF RecoveryInv
<1>1. /\ UNCHANGED <<phase, plan, continuation, crashes, faults>> /\ plan = NoPlan
      /\ Begun /\ IsOpen
  BY ToolPhase DEF ControlUnchanged
<1>2. /\ Top' = Top /\ IsOpen' /\ Entry' = e
      /\ \A a \in Attempts : a # Top => evidence'.attempts[a] = evidence.attempts[a]
      /\ evidence'.attempts[Top].open
  BY <1>1 DEF Revised, Top, Entry, IsOpen
<1>3. /\ Own' = Own /\ Missing' = Missing /\ Unsettled' = Unsettled
      /\ \A r : IsNewest(r)' = IsNewest(r) /\ Canonical(r)' = Canonical(r)
  BY <1>2 DEF Own, RequestsOf, Missing, Unsettled, IsNewest, Canonical
<1>4. PlanInv' /\ VerdictIsTruthful' /\ PlanTypeOK'
  BY <1>1, NoPlanKeeps
<1>5. TypeOK'
  <2>1. live' \in [at : Places \cup {"none"},
                 id : (Attempts \cup {0}) \X (Steps \cup {0}) \X (0 .. MaxRetries),
                 started : SUBSET Calls, tools : BOOLEAN, unresolved : BOOLEAN, failed : BOOLEAN]
    BY DEF TypeOK, ProcessTypeOK
  <2> QED
    BY <1>1, <1>4, <2>1 DEF TypeOK, DurableTypeOK, ProcessTypeOK
<1>6. Begun' /\ (Due' <=> Due) /\ Taken' = Taken
  BY <1>1, <1>2 DEF Begun, Due, Taken
<1>7. PhaseInv'
  BY <1>1 DEF PhaseInv
<1>8. OpenInv'
  BY <1>1, <1>2, <1>6 DEF OpenInv
<1>9. RowInv' /\ LiveInv' /\ EvidenceInv'
  <2>1. RowInv'
    BY <1>1, <1>2, <1>3 DEF RowInv
  <2>2. LiveInv'
    BY <1>1, <1>3 DEF LiveInv
  <2>3. EvidenceInv'
    BY <1>1, <1>2, <1>3 DEF EvidenceInv
  <2> QED
    BY <2>1, <2>2, <2>3
<1>10. CarryInv' /\ CountInv'
  BY <1>1, <1>2, <1>6 DEF CarryInv, CountInv
<1> QED
  BY <1>4, <1>5, <1>7, <1>8, <1>9, <1>10 DEF RecoveryInv

\* An executor that runs or ends changes nothing durable.
LEMMA ExecutorKeeps ==
    ASSUME RecoveryInv, RunExecutors \/ (\E c \in Calls : ExecutorEnds(c))
    PROVE  RecoveryInv'
<1> /\ TypeOK /\ CallInv /\ StartedInv /\ ToolInv /\ ResultInv
  BY DEF RecoveryInv
<1>1. /\ phase = "attempt" /\ live.at = "tools" /\ live' = live
      /\ UNCHANGED <<turn, evidence, outcome, streams, results, carryover>> /\ ControlUnchanged
  BY DEF RunExecutors, ExecutorEnds, At, durable
<1>2. /\ DOMAIN effects' = DOMAIN effects
      /\ effects' \in [DOMAIN effects' -> {"announced", "running", "ended", "recorded"}]
      /\ \A o \in DOMAIN effects : effects'[o] = "recorded" <=> effects[o] = "recorded"
  <2>1. CASE RunExecutors
    BY <2>1 DEF RunExecutors, TypeOK, ProcessTypeOK
  <2>2. ASSUME NEW c \in Calls, ExecutorEnds(c)
        PROVE  /\ DOMAIN effects' = DOMAIN effects
               /\ effects' \in [DOMAIN effects' -> {"announced", "running", "ended", "recorded"}]
               /\ \A o \in DOMAIN effects : effects'[o] = "recorded" <=> effects[o] = "recorded"
    BY <2>2 DEF ExecutorEnds, Ran, TypeOK, ProcessTypeOK
  <2> QED
    BY <2>1, <2>2
<1>3. /\ Top' = Top /\ Entry' = Entry /\ IsOpen' = IsOpen /\ Own' = Own /\ Missing' = Missing
      /\ Ours' = Ours
  BY <1>1 DEF Top, Entry, IsOpen, Own, RequestsOf, Missing, Ours
<1>4. \A o : Told(o)' = Told(o)
  BY <1>2 DEF Told
<1>5. CallInv' /\ ToolInv' /\ ResultInv'
  <2>1. CallInv'
    BY <1>1, <1>3, <1>4 DEF CallInv, ControlUnchanged
  <2>2. ToolInv'
    BY <1>2, <1>3 DEF ToolInv
  <2>3. ResultInv'
    BY <1>1, <1>2 DEF ResultInv
  <2> QED
    BY <2>1, <2>2, <2>3
<1>6. StartedInv'
  BY <1>1, <1>2, <1>3 DEF StartedInv
<1>7. Entry \in Entries /\ Entry.open /\ evidence \in RecoveryEvidence
  BY <1>1, ToolPhase, EntryType
<1>8. /\ live.started \subseteq Calls /\ live' = [live EXCEPT !.started = live'.started]
      /\ DOMAIN effects' \subseteq DOMAIN results
  BY <1>1, <1>2 DEF TypeOK, ProcessTypeOK
<1> QED
  BY <1>1, <1>2, <1>5, <1>6, <1>7, <1>8, ToolPhaseKeeps

LEMMA ToolStartedKeeps ==
    ASSUME RecoveryInv, NEW c \in Calls, ToolStarted(c)
    PROVE  RecoveryInv'
<1> /\ TypeOK /\ CallInv /\ StartedInv /\ ToolInv /\ ResultInv
  BY DEF RecoveryInv
<1>0. PICK k : k = <<live.id, c>>
  OBVIOUS
<1> DEFINE e == [Entry EXCEPT !.tools = IF Entry.tools = "irreversible" THEN "irreversible" ELSE "outstanding"]
<1>1. /\ phase = "attempt" /\ live.at = "tools" /\ k \in Ours /\ c \notin live.started
      /\ live' = [live EXCEPT !.started = @ \cup {c}]
      /\ effects' = With(effects, k, "announced")
      /\ evidence' = FoldToolStarted(evidence, live.id[1], c)
      /\ UNCHANGED <<turn, outcome, streams, results, carryover>> /\ ControlUnchanged
  BY <1>0 DEF ToolStarted, At
<1>2. /\ Begun /\ IsOpen /\ live.id \in Requests /\ live.id \in Own /\ live.id[1] = Top /\ Top \in Attempts
      /\ \A o \in Missing : o \in Occurrences /\ o = <<live.id, o[2]>> /\ o[2] \in Calls /\ o[1] = live.id
      /\ \A o \in DOMAIN results : o[1] = live.id => o \in Missing
      /\ \A d \in Calls : d \in live.started <=> <<live.id, d>> \in DOMAIN effects
      /\ live.started \subseteq Calls
  BY <1>1, ToolPhase
<1>3. k \in Missing /\ k \notin DOMAIN effects /\ k \in DOMAIN results /\ k[1] = live.id /\ k[2] = c
  BY <1>0, <1>1, <1>2 DEF Ours
<1>4. /\ Revised(e)
      /\ evidence'.repairs = [evidence.repairs EXCEPT ![<<Top, c>>] = "unknown"]
      /\ evidence'.obligation = evidence.obligation
  BY <1>1, <1>2, ToolStartedFolds
<1>5. /\ e \in Entries /\ e.open /\ e.request = Entry.request /\ e.last = Entry.last
      /\ e.accepted = Entry.accepted
      /\ e.tools = IF Entry.tools = "irreversible" THEN "irreversible" ELSE "outstanding"
  BY <1>2, EntryType DEF Entries
<1> HIDE DEF e
<1>6. /\ DOMAIN effects' = DOMAIN effects \cup {k} /\ effects'[k] = "announced"
      /\ \A o \in DOMAIN effects : effects'[o] = effects[o]
      /\ effects' \in [DOMAIN effects' -> {"announced", "running", "ended", "recorded"}]
  BY <1>1, <1>3 DEF With, TypeOK, ProcessTypeOK
<1>7. /\ Top' = Top /\ Entry' = e /\ IsOpen' /\ Own' = Own /\ Missing' = Missing
  BY <1>1, <1>4 DEF Revised, Own, RequestsOf, Missing
<1>8. /\ live'.at = "tools" /\ live'.id = live.id /\ live'.unresolved = live.unresolved
      /\ live'.tools = live.tools /\ live'.started = live.started \cup {c}
      /\ live' = [live EXCEPT !.started = live'.started]
  BY <1>1 DEF TypeOK, ProcessTypeOK
<1>9. /\ Told(k)' = "unknown" /\ \A o : o # k => Told(o)' = Told(o)
  BY <1>6 DEF Told
<1>10. CallInv'
  <2>1. \A o \in Missing : evidence'.repairs[<<Top, o[2]>>] = Told(o)'
    <3> SUFFICES ASSUME NEW o \in Missing PROVE evidence'.repairs[<<Top, o[2]>>] = Told(o)'
      OBVIOUS
    <3>1. evidence.repairs \in [Attempts \X Calls -> {"none", "unknown", "known"}]
      BY DEF TypeOK, DurableTypeOK, RecoveryEvidence
    <3>2. CASE o = k
      BY <1>2, <1>3, <1>4, <1>9, <3>1, <3>2
    <3>3. CASE o # k
      <4>1. o[2] # c /\ o[2] \in Calls
        BY <1>0, <1>2, <1>3, <3>3
      <4>2. evidence'.repairs[<<Top, o[2]>>] = evidence.repairs[<<Top, o[2]>>]
        BY <1>2, <1>4, <3>1, <4>1
      <4> QED
        BY <1>9, <3>3, <4>2 DEF CallInv
    <3> QED
      BY <3>2, <3>3
  <2>2. \A a \in Attempts, d \in Calls :
          evidence'.repairs[<<a, d>>] # "none" => a = Top /\ \E o \in Missing : o[2] = d
    <3> SUFFICES ASSUME NEW a \in Attempts, NEW d \in Calls, evidence'.repairs[<<a, d>>] # "none"
                 PROVE  a = Top /\ \E o \in Missing : o[2] = d
      OBVIOUS
    <3>1. evidence.repairs \in [Attempts \X Calls -> {"none", "unknown", "known"}]
      BY DEF TypeOK, DurableTypeOK, RecoveryEvidence
    <3>2. CASE a = Top /\ d = c
      BY <1>3, <3>2
    <3>3. CASE ~(a = Top /\ d = c)
      <4>1. evidence'.repairs[<<a, d>>] = evidence.repairs[<<a, d>>]
        BY <1>2, <1>4, <3>1, <3>3
      <4> QED
        BY <4>1 DEF CallInv
    <3> QED
      BY <3>2, <3>3
  <2> QED
    BY <1>1, <1>2, <1>7, <1>8, <2>1, <2>2 DEF CallInv, ControlUnchanged
<1>11. StartedInv'
  <2>1. Ours' = Ours
    BY <1>1, <1>8 DEF Ours
  <2>2. \A d \in Calls : d \in live'.started <=> <<live.id, d>> \in DOMAIN effects'
    BY <1>0, <1>2, <1>6, <1>8
  <2> QED
    BY <1>1, <1>7, <1>8, <2>1, <2>2 DEF StartedInv
<1>12. ToolInv'
  BY <1>2, <1>3, <1>5, <1>6, <1>7 DEF ToolInv
<1>13. ResultInv'
  <2>1. results[k] = "missing"
    BY <1>3 DEF Missing
  <2> QED
    BY <1>1, <1>3, <1>6, <2>1 DEF ResultInv
<1>14. /\ live'.started \subseteq Calls /\ DOMAIN effects' \subseteq DOMAIN results
       /\ evidence' \in RecoveryEvidence
  BY <1>2, <1>3, <1>4, <1>6, <1>8 DEF TypeOK, ProcessTypeOK, Revised
<1> QED
  BY <1>1, <1>4, <1>5, <1>6, <1>8, <1>10, <1>11, <1>12, <1>13, <1>14, ToolPhaseKeeps

LEMMA ToolCompletedKeeps ==
    ASSUME RecoveryInv, NEW c \in Calls, ToolCompleted(c)
    PROVE  RecoveryInv'
<1> /\ TypeOK /\ CallInv /\ StartedInv /\ ToolInv /\ ResultInv
  BY DEF RecoveryInv
<1>0. PICK k : k = <<live.id, c>>
  OBVIOUS
<1>1. /\ phase = "attempt" /\ live.at = "settling" /\ c \in live.started
      /\ effects[k] = "ended" /\ live' = live
      /\ effects' = [effects EXCEPT ![k] = "recorded"]
      /\ evidence' = FoldToolCompleted(evidence, live.id[1], c)
      /\ UNCHANGED <<turn, outcome, streams, results, carryover>> /\ ControlUnchanged
  BY <1>0 DEF ToolCompleted, At, Ran
<1>2. /\ Begun /\ IsOpen /\ live.id \in Requests /\ live.id \in Own /\ live.id[1] = Top /\ Top \in Attempts
      /\ \A o \in Missing : o \in Occurrences /\ o = <<live.id, o[2]>> /\ o[2] \in Calls /\ o[1] = live.id
      /\ \A o \in DOMAIN results : o[1] = live.id => o \in Missing
      /\ \A d \in Calls : d \in live.started <=> <<live.id, d>> \in DOMAIN effects
      /\ live.started \subseteq Calls
  BY <1>1, ToolPhase
<1>3. k \in Missing /\ k \in DOMAIN effects /\ k \in DOMAIN results /\ k[1] = live.id /\ k[2] = c
  BY <1>0, <1>1, <1>2 DEF TypeOK, ProcessTypeOK
<1>4. /\ evidence'.repairs = [evidence.repairs EXCEPT ![<<Top, c>>] = "known"]
      /\ evidence'.obligation = evidence.obligation
  BY <1>1, <1>2, ToolCompletedFolds
<1>5. PICK tools : /\ Revised([Entry EXCEPT !.tools = tools])
                   /\ tools = IF Entry.tools = "irreversible" THEN "irreversible"
                              ELSE IF \E d \in Calls : evidence'.repairs[<<Top, d>>] = "unknown"
                                   THEN "outstanding" ELSE "known"
  BY <1>1, <1>2, ToolCompletedFolds
<1> DEFINE e == [Entry EXCEPT !.tools = tools]
<1>6. /\ e \in Entries /\ e.open /\ e.request = Entry.request /\ e.last = Entry.last
      /\ e.accepted = Entry.accepted /\ e.tools = tools
  BY <1>2, <1>5, EntryType DEF Entries
<1>7. Revised(e)
  BY <1>5
<1> HIDE DEF e
<1>8. /\ DOMAIN effects' = DOMAIN effects /\ effects'[k] = "recorded"
      /\ \A o \in DOMAIN effects : o # k => effects'[o] = effects[o]
      /\ effects' \in [DOMAIN effects' -> {"announced", "running", "ended", "recorded"}]
  BY <1>1, <1>3 DEF TypeOK, ProcessTypeOK
<1>9. /\ Top' = Top /\ Entry' = e /\ IsOpen' /\ Own' = Own /\ Missing' = Missing
  BY <1>1, <1>7 DEF Revised, Own, RequestsOf, Missing
<1>10. /\ Told(k)' = "known" /\ \A o : o # k => Told(o)' = Told(o)
  BY <1>3, <1>8 DEF Told
<1>11. \A o \in Missing : evidence'.repairs[<<Top, o[2]>>] = Told(o)'
  <2> SUFFICES ASSUME NEW o \in Missing PROVE evidence'.repairs[<<Top, o[2]>>] = Told(o)'
    OBVIOUS
  <2>1. evidence.repairs \in [Attempts \X Calls -> {"none", "unknown", "known"}]
    BY DEF TypeOK, DurableTypeOK, RecoveryEvidence
  <2>2. CASE o = k
    BY <1>2, <1>3, <1>4, <1>10, <2>1, <2>2
  <2>3. CASE o # k
    <3>1. o[2] # c /\ o[2] \in Calls
      BY <1>0, <1>2, <1>3, <2>3
    <3>2. evidence'.repairs[<<Top, o[2]>>] = evidence.repairs[<<Top, o[2]>>]
      BY <1>2, <1>4, <2>1, <3>1
    <3> QED
      BY <1>10, <2>3, <3>2 DEF CallInv
  <2> QED
    BY <2>2, <2>3
<1>12. \A a \in Attempts, d \in Calls :
          evidence'.repairs[<<a, d>>] # "none" => a = Top /\ \E o \in Missing : o[2] = d
  <2> SUFFICES ASSUME NEW a \in Attempts, NEW d \in Calls, evidence'.repairs[<<a, d>>] # "none"
               PROVE  a = Top /\ \E o \in Missing : o[2] = d
    OBVIOUS
  <2>1. evidence.repairs \in [Attempts \X Calls -> {"none", "unknown", "known"}]
    BY DEF TypeOK, DurableTypeOK, RecoveryEvidence
  <2>2. CASE a = Top /\ d = c
    BY <1>3, <2>2
  <2>3. CASE ~(a = Top /\ d = c)
    <3>1. evidence'.repairs[<<a, d>>] = evidence.repairs[<<a, d>>]
      BY <1>2, <1>4, <2>1, <2>3
    <3> QED
      BY <3>1 DEF CallInv
  <2> QED
    BY <2>2, <2>3
<1>13. CallInv'
  BY <1>1, <1>2, <1>9, <1>11, <1>12 DEF CallInv, ControlUnchanged
<1>14. StartedInv'
  <2>1. Ours' = Ours
    BY <1>1 DEF Ours
  <2>2. Ran({"announced", "running"})' = {}
    <3>1. \A d \in live.started : effects[<<live.id, d>>] \notin {"announced", "running"}
      BY <1>1 DEF StartedInv, Ran
    <3>2. \A d \in live.started : <<live.id, d>> \in DOMAIN effects
      BY <1>2
    <3>3. \A d \in live.started : effects'[<<live.id, d>>] \notin {"announced", "running"}
      BY <1>8, <3>1, <3>2
    <3> QED
      BY <1>1, <3>3 DEF Ran
  <2> QED
    BY <1>1, <1>2, <1>8, <1>9, <2>1, <2>2 DEF StartedInv
<1>15. ToolInv'
  <2>1. \A o \in DOMAIN effects : o \notin Missing => effects'[o] = effects[o]
    BY <1>3, <1>8
  <2>2. tools = "outstanding" => \E o \in DOMAIN effects : effects'[o] # "recorded"
    <3> SUFFICES ASSUME tools = "outstanding" PROVE \E o \in DOMAIN effects : effects'[o] # "recorded"
      OBVIOUS
    <3>1. PICK d \in Calls : evidence'.repairs[<<Top, d>>] = "unknown"
      BY <1>5
    <3>2. PICK o \in Missing : o[2] = d
      BY <1>2, <1>12, <3>1
    <3>3. Told(o)' = "unknown"
      BY <1>11, <3>1, <3>2
    <3> QED
      BY <1>8, <3>3 DEF Told
  <2>3. tools = "known" => \A o \in DOMAIN effects : effects'[o] = "recorded"
    <3> SUFFICES ASSUME tools = "known", NEW o \in DOMAIN effects PROVE effects'[o] = "recorded"
      OBVIOUS
    <3>1. CASE o \in Missing
      <4>1. evidence'.repairs[<<Top, o[2]>>] # "unknown" /\ Told(o)' # "unknown"
        BY <1>2, <1>5, <1>11, <3>1
      <4> QED
        BY <1>8, <4>1 DEF Told
    <3>2. CASE o \notin Missing
      BY <1>2, <1>5, <2>1, <3>2 DEF ToolInv
    <3> QED
      BY <3>1, <3>2
  <2>4. tools # "never" /\ DOMAIN effects # {}
    BY <1>3, <1>5
  <2>5. tools = "irreversible" <=> Entry.tools = "irreversible"
    BY <1>5
  <2> QED
    BY <1>2, <1>6, <1>8, <1>9, <2>1, <2>2, <2>3, <2>4, <2>5 DEF ToolInv
<1>16. ResultInv'
  <2>1. results[k] = "missing"
    BY <1>3 DEF Missing
  <2> QED
    BY <1>1, <1>3, <1>8, <2>1 DEF ResultInv
<1>17. /\ DOMAIN effects' \subseteq DOMAIN results /\ evidence' \in RecoveryEvidence
       /\ live' = [live EXCEPT !.started = live'.started]
  BY <1>1, <1>7, <1>8 DEF TypeOK, ProcessTypeOK, Revised
<1> QED
  BY <1>1, <1>2, <1>4, <1>6, <1>7, <1>8, <1>13, <1>14, <1>15, <1>16, <1>17, ToolPhaseKeeps

LEMMA CommitToolResultsKeeps ==
    ASSUME RecoveryInv, CommitToolResults
    PROVE  RecoveryInv'
<1> /\ TypeOK /\ PhaseInv /\ OpenInv /\ RowInv /\ LiveInv /\ EvidenceInv
    /\ CallInv /\ StartedInv /\ ToolInv /\ PlanInv /\ CountInv /\ ResultInv /\ CarryInv
    /\ VerdictIsTruthful
  BY DEF RecoveryInv
<1>0. PICK C : C = {o[2] : o \in Ours}
  OBVIOUS
<1>1. /\ phase = "attempt" /\ live.at = "settling" /\ Ran({"ended"}) = {}
      /\ results' = [o \in DOMAIN results |->
            IF o[1] # live.id THEN results[o] ELSE IF o[2] \in live.started THEN "known" ELSE "not_run"]
      /\ evidence' = FoldResults(evidence, live.id[1], C)
      /\ live' = [live EXCEPT !.at = "boundary"]
      /\ UNCHANGED <<turn, outcome, streams, effects, carryover>>
      /\ UNCHANGED <<phase, plan, continuation, crashes, faults>>
  BY <1>0 DEF CommitToolResults, At, Goto, ControlUnchanged
<1>2. /\ Begun /\ IsOpen /\ live.id \in Requests /\ live.id \in Own /\ live.id[1] = Top
      /\ Top \in Attempts /\ plan = NoPlan
      /\ \A o \in Missing : o \in Occurrences /\ o = <<live.id, o[2]>> /\ o[2] \in Calls /\ o[1] = live.id
      /\ \A o \in DOMAIN results : o[1] = live.id => o \in Missing
      /\ \A c \in Calls : c \in live.started <=> <<live.id, c>> \in DOMAIN effects
      /\ live.started \subseteq Calls
  BY <1>1, ToolPhase
<1>3. \A o \in Missing : /\ o[2] \in live.started <=> o \in DOMAIN effects
                         /\ o \in DOMAIN effects => effects[o] = "recorded"
  <2>1. \A c \in live.started : <<live.id, c>> \in DOMAIN effects /\ effects[<<live.id, c>>] = "recorded"
    <3>1. \A c \in live.started : effects[<<live.id, c>>] \notin {"announced", "running", "ended"}
      BY <1>1 DEF StartedInv, Ran
    <3>2. \A c \in live.started : <<live.id, c>> \in DOMAIN effects
      BY <1>2
    <3> QED
      BY <3>1, <3>2 DEF TypeOK, ProcessTypeOK
  <2> QED
    BY <1>2, <2>1
<1>4. /\ Ours = Missing /\ C \in SUBSET Calls /\ \A c : c \in C <=> \E o \in Missing : o[2] = c
  <2>1. Ours = Missing
    BY <1>2 DEF Ours, Missing
  <2> QED
    BY <1>0, <1>2, <2>1
<1>5. /\ Released(C)
      /\ Revised([Entry EXCEPT !.tools =
            IF \E c \in C : evidence.repairs[<<Top, c>>] = "unknown" THEN "irreversible" ELSE Entry.tools])
  BY <1>1, <1>2, <1>4, ResultsFold
<1>6. ~\E c \in C : evidence.repairs[<<Top, c>>] = "unknown"
  <2> SUFFICES ASSUME NEW o \in Missing, evidence.repairs[<<Top, o[2]>>] = "unknown" PROVE FALSE
    BY <1>4
  <2> QED
    BY <1>3 DEF CallInv, Told
<1>7. /\ Top' = Top /\ IsOpen' /\ evidence' \in RecoveryEvidence
      /\ Entry'.request = Entry.request /\ Entry'.last = Entry.last
      /\ Entry'.tools = Entry.tools /\ Entry'.accepted = Entry.accepted
      /\ \A a \in Attempts : a # Top => evidence'.attempts[a] = evidence.attempts[a]
      /\ evidence'.attempts[Top].open
  BY <1>2, <1>5, <1>6, EntryType DEF Revised, Entries, IsOpen, Entry
<1>8. \A a \in Attempts, c \in Calls : evidence'.repairs[<<a, c>>] = "none"
  <2> SUFFICES ASSUME NEW a \in Attempts, NEW c \in Calls PROVE evidence'.repairs[<<a, c>>] = "none"
    OBVIOUS
  <2>1. evidence'.repairs[<<a, c>>] = IF a = Top /\ c \in C THEN "none" ELSE evidence.repairs[<<a, c>>]
    BY <1>5 DEF Released
  <2>2. evidence.repairs[<<a, c>>] # "none" => a = Top /\ c \in C
    BY <1>4 DEF CallInv
  <2> QED
    BY <2>1, <2>2
<1>9. /\ DOMAIN results' = DOMAIN results
      /\ \A o \in DOMAIN results : o \notin Missing => results'[o] = results[o]
      /\ \A o \in Missing : results'[o] = IF o \in DOMAIN effects THEN "known" ELSE "not_run"
      /\ results' \in [DOMAIN results' -> {"missing", "not_run", "known", "unknown"}]
  <2>1. /\ DOMAIN results' = DOMAIN results
        /\ results' \in [DOMAIN results' -> {"missing", "not_run", "known", "unknown"}]
    BY <1>1 DEF TypeOK, DurableTypeOK
  <2>2. Missing \subseteq DOMAIN results
    BY DEF Missing
  <2> QED
    BY <1>1, <1>2, <1>3, <2>1, <2>2
<1>10. Missing' = {}
  BY <1>9 DEF Missing
<1>11. /\ live'.at = "boundary" /\ live'.id = live.id /\ live'.unresolved = live.unresolved
       /\ live'.started = live.started /\ live'.tools = live.tools
       /\ live' \in [at : Places \cup {"none"},
                 id : (Attempts \cup {0}) \X (Steps \cup {0}) \X (0 .. MaxRetries),
                 started : SUBSET Calls, tools : BOOLEAN, unresolved : BOOLEAN, failed : BOOLEAN]
       /\ live'.at \in Places
  BY <1>1, MoveType DEF Places
<1>12. /\ Own' = Own /\ Unsettled' = Unsettled
       /\ \A r : IsNewest(r)' = IsNewest(r) /\ Canonical(r)' = Canonical(r)
  BY <1>1, <1>7 DEF Own, RequestsOf, Unsettled, IsNewest, Canonical
<1>13. PlanInv' /\ VerdictIsTruthful' /\ PlanTypeOK'
  BY <1>1, <1>2, NoPlanKeeps
<1>14. TypeOK'
  BY <1>1, <1>7, <1>9, <1>11, <1>13 DEF TypeOK, DurableTypeOK, ProcessTypeOK
<1>15. Begun' /\ ~Due' /\ Taken' = Taken
  BY <1>1, <1>2, <1>7, <1>11 DEF Begun, Due, Taken
<1>16. PhaseInv'
  BY <1>1, <1>5, <1>11 DEF PhaseInv, Released
<1>17. OpenInv'
  BY <1>1, <1>7, <1>11, <1>15 DEF OpenInv
<1>18. RowInv'
  BY <1>1, <1>7, <1>9, <1>12, <1>2 DEF RowInv
<1>19. LiveInv'
  BY <1>1, <1>2, <1>11, <1>12 DEF LiveInv
<1>20. EvidenceInv'
  BY <1>1, <1>2, <1>7, <1>12 DEF EvidenceInv
<1>21. CallInv' /\ StartedInv'
  BY <1>8, <1>10, <1>11 DEF CallInv, StartedInv
<1>22. ToolInv'
  BY <1>1, <1>2, <1>3, <1>7, <1>10 DEF ToolInv
<1>23. ResultInv'
  BY <1>1, <1>3, <1>9 DEF ResultInv
<1>24. CarryInv' /\ CountInv'
  BY <1>1, <1>7, <1>11, <1>15 DEF CarryInv, CountInv
<1> QED
  BY <1>13, <1>14, <1>16, <1>17, <1>18, <1>19, <1>20, <1>21, <1>22, <1>23, <1>24 DEF RecoveryInv

LEMMA AdoptedFolds ==
    ASSUME TypeOK, OpenInv, IsOpen, evidence' = FoldAdopted(evidence)
    PROVE  /\ Revised([Entry EXCEPT !.last = None])
           /\ evidence'.repairs = evidence.repairs /\ evidence'.obligation = TRUE
<1> DEFINE A == [a \in Attempts |-> [evidence.attempts[a] EXCEPT !.last = None]]
           e == [Entry EXCEPT !.last = None]
<1>1. /\ evidence \in RecoveryEvidence /\ Top \in Attempts /\ evidence.attempts[Top] = Entry
      /\ evidence.attempts \in [Attempts -> Entries] /\ Entry \in Entries /\ Entry.open
  BY EntryType DEF RecoveryEvidence
<1>2. evidence' = [evidence EXCEPT !.obligation = TRUE, !.attempts = A]
  BY DEF FoldAdopted
<1>3. A \in [Attempts -> Entries] /\ A[Top] = e /\ e \in Entries /\ e.open
  BY <1>1 DEF Entries
<1>4. \A a \in Attempts : a # Top => A[a] = evidence.attempts[a]
  <2> SUFFICES ASSUME NEW a \in Attempts, a # Top PROVE A[a] = evidence.attempts[a]
    OBVIOUS
  <2>1. evidence.attempts[a] = NotOpen
    BY DEF OpenInv
  <2>2. evidence.attempts[a] \in Entries /\ evidence.attempts[a].last = None
    BY <1>1, <2>1 DEF NotOpen
  <2>3. [evidence.attempts[a] EXCEPT !.last = None] = evidence.attempts[a]
    BY <2>2 DEF Entries
  <2> QED
    BY <2>3
<1> HIDE DEF A, e
<1>5. /\ evidence'.attempts = A /\ evidence'.highest = evidence.highest /\ evidence' \in RecoveryEvidence
      /\ evidence'.repairs = evidence.repairs /\ evidence'.obligation = TRUE
  BY <1>1, <1>2, <1>3 DEF RecoveryEvidence
<1>6. Top' = Top /\ Entry' = e
  BY <1>3, <1>5 DEF Top, Entry
<1> QED
  BY <1>1, <1>3, <1>4, <1>5, <1>6, Bounds DEF Revised, IsOpen, e

LEMMA SafeBoundaryKeeps ==
    ASSUME RecoveryInv, SafeBoundary
    PROVE  RecoveryInv'
<1> /\ TypeOK /\ PhaseInv /\ OpenInv /\ RowInv /\ LiveInv /\ EvidenceInv
    /\ CallInv /\ StartedInv /\ ToolInv /\ PlanInv /\ CountInv /\ ResultInv /\ CarryInv
    /\ VerdictIsTruthful
  BY DEF RecoveryInv
<1>0. PICK w : w = IF Pending # {} \/ live.tools THEN "turn" ELSE "ending"
  OBVIOUS
<1>1. /\ phase = "attempt" /\ live.at = "boundary" /\ turn' = Adopted
      /\ evidence' = IF Pending # {} THEN FoldAdopted(evidence) ELSE evidence
      /\ live' = [live EXCEPT !.at = w]
      /\ UNCHANGED <<outcome, streams, results, effects, carryover>>
      /\ UNCHANGED <<phase, plan, continuation, crashes, faults>>
  BY <1>0 DEF SafeBoundary, At, Goto, ControlUnchanged
<1>2. /\ Begun /\ IsOpen /\ IsNewest(live.id) /\ live.id \in Own /\ plan = NoPlan
      /\ Missing = {} /\ Canonical(live.id)
  BY <1>1, InBody DEF CallInv, LiveInv
<1>3. w \in Places /\ w \in {"turn", "ending"}
  BY <1>0 DEF Places
<1>4. /\ live'.at = w /\ live'.id = live.id /\ live'.unresolved = live.unresolved
      /\ live'.started = live.started /\ live'.tools = live.tools
      /\ live' \in [at : Places \cup {"none"},
                 id : (Attempts \cup {0}) \X (Steps \cup {0}) \X (0 .. MaxRetries),
                 started : SUBSET Calls, tools : BOOLEAN, unresolved : BOOLEAN, failed : BOOLEAN]
  BY <1>1, <1>3, MoveType
<1>5. /\ Top' = Top /\ IsOpen' /\ evidence' \in RecoveryEvidence
      /\ Entry'.request = Entry.request /\ Entry'.last \in {Entry.last, None}
      /\ Entry'.tools = Entry.tools /\ Entry'.accepted = Entry.accepted
      /\ \A a \in Attempts : a # Top => evidence'.attempts[a] = evidence.attempts[a]
      /\ evidence'.attempts[Top].open /\ evidence'.repairs = evidence.repairs
      /\ evidence'.obligation => evidence.obligation \/ Pending # {}
  <2>1. CASE Pending # {}
    <3>1. /\ Revised([Entry EXCEPT !.last = None])
          /\ evidence'.repairs = evidence.repairs /\ evidence'.obligation = TRUE
      BY <1>1, <1>2, <2>1, AdoptedFolds
    <3> QED
      BY <1>2, <2>1, <3>1, EntryType DEF Revised, Entries, IsOpen, Entry
  <2>2. CASE Pending = {}
    <3>1. evidence' = evidence
      BY <1>1, <2>2
    <3> QED
      BY <1>2, <3>1, EntryType DEF Top, Entry, IsOpen
  <2> QED
    BY <2>1, <2>2
<1>6. /\ Own' = Own /\ Missing' = Missing /\ Unsettled' = Unsettled
      /\ \A r : IsNewest(r)' = IsNewest(r) /\ Canonical(r)' = Canonical(r)
  BY <1>1, <1>5 DEF Own, RequestsOf, Missing, Unsettled, IsNewest, Canonical
<1>7. PlanInv' /\ VerdictIsTruthful' /\ PlanTypeOK'
  BY <1>1, <1>2, NoPlanKeeps
<1>8. TypeOK'
  BY <1>1, <1>4, <1>5, <1>7, AdoptedTakes DEF TypeOK, DurableTypeOK, ProcessTypeOK
<1>9. Begun' /\ ~Due'
  BY <1>1, <1>2, <1>4, <1>5 DEF Begun, Due
<1>10. PhaseInv'
  <2>1. evidence'.obligation => \E t \in Turns : turn'[t] = "adopted"
    BY <1>1, <1>5, AdoptedTakes DEF PhaseInv
  <2> QED
    BY <1>1, <1>2, <1>3, <1>4, <2>1 DEF PhaseInv, NoPlan
<1>11. OpenInv'
  BY <1>1, <1>3, <1>4, <1>5, <1>9 DEF OpenInv
<1>12. RowInv'
  BY <1>1, <1>2, <1>5, <1>6 DEF RowInv
<1>13. LiveInv'
  BY <1>1, <1>2, <1>3, <1>4, <1>6 DEF LiveInv
<1>14. EvidenceInv'
  BY <1>1, <1>2, <1>5, <1>6 DEF EvidenceInv
<1>15. CallInv' /\ StartedInv' /\ ToolInv'
  <2>1. CallInv'
    BY <1>2, <1>5, <1>6 DEF CallInv
  <2>2. StartedInv'
    BY <1>3, <1>4 DEF StartedInv
  <2>3. ToolInv'
    BY <1>1, <1>2, <1>5, <1>6 DEF ToolInv
  <2> QED
    BY <2>1, <2>2, <2>3
<1>16. ResultInv' /\ CarryInv'
  BY <1>1, <1>5 DEF ResultInv, CarryInv
<1>17. CountInv'
  <2>1. /\ Cardinality(Taken) \in Nat /\ Cardinality(Taken') \in Nat
        /\ Cardinality(Taken) <= Cardinality(Taken')
        /\ Pending # {} => Cardinality(Taken) + 1 <= Cardinality(Taken')
    BY <1>1, TakenCount, AdoptedTakes
  <2>2. /\ crashes \in Nat /\ faults \in Nat /\ Top \in Nat /\ live.id[2] \in Nat /\ ToolSteps \in Nat
    BY NumbersType, Bounds
  <2>3. /\ Top <= Cardinality(Taken) + crashes + faults
        /\ live.id[2] <= ToolSteps + Cardinality(Taken) + 1
    BY <1>1 DEF CountInv
  <2>4. live.tools => live.id[2] <= ToolSteps
    BY <1>1, <1>2 DEF LiveInv
  <2>5. Top <= Cardinality(Taken') + crashes + faults
    BY <2>1, <2>2, <2>3
  <2>6. live.id[2] <= ToolSteps + Cardinality(Taken') + 1
    BY <2>1, <2>2, <2>3
  <2>7. w = "turn" => live.id[2] <= ToolSteps + Cardinality(Taken')
    BY <1>0, <2>1, <2>2, <2>3, <2>4
  <2> QED
    BY <1>1, <1>4, <1>5, <1>9, <2>5, <2>6, <2>7 DEF CountInv
<1> QED
  BY <1>7, <1>8, <1>10, <1>11, <1>12, <1>13, <1>14, <1>15, <1>16, <1>17 DEF RecoveryInv

\* The output that is carried, if any, is that of a request.
LEMMA GreatestExists ==
    ASSUME NEW b \in Nat, NEW S \in SUBSET (0 .. b), S # {}
    PROVE  \E n \in S : \A m \in S : m <= n
<1> DEFINE T == {b - s : s \in S}
           R == OpToRel(<, Nat)
<1>1. T \subseteq Nat /\ T # {}
  <2>1. \A s \in S : b - s \in Nat
    OBVIOUS
  <2>2. PICK s \in S : TRUE
    OBVIOUS
  <2>3. b - s \in T
    BY <2>2
  <2> QED
    BY <2>1, <2>3
<1>2. PICK d \in T : \A e \in T : ~(<<e, d>> \in R)
  BY <1>1, NatLessThanWellFounded, WFMin
<1>3. \A e \in T : ~(e < d)
  BY <1>1, <1>2 DEF OpToRel
<1>4. PICK n \in S : d = b - n
  OBVIOUS
<1>5. \A m \in S : m <= n
  <2> TAKE m \in S
  <2>1. ~(b - m < b - n) /\ n \in Nat /\ m \in Nat
    BY <1>3, <1>4
  <2> QED
    BY <2>1
<1> QED
  BY <1>5

LEMMA CarriedType ==
    ASSUME NEW r \in Requests
    PROVE  UnresolvedOutputSource(r) \in Requests \cup {None}
<1> DEFINE S == Carriable(r)
           g == CHOOSE n \in S : \A m \in S : m <= n
<1>1. r[3] \in Nat /\ r[3] \in 0 .. MaxRetries /\ r[1] \in Attempts /\ r[2] \in Steps
  BY RequestParts
<1>2. S \in SUBSET (0 .. r[3])
  BY DEF Carriable
<1>3. UnresolvedOutputSource(r) = IF S = {} THEN None ELSE <<r[1], r[2], g>>
  BY DEF UnresolvedOutputSource
<1> HIDE DEF S
<1>4. S # {} => g \in S
  BY <1>1, <1>2, GreatestExists
<1> HIDE DEF g
<1>5. S # {} => g \in 0 .. MaxRetries
  <2> SUFFICES ASSUME S # {} PROVE g \in 0 .. MaxRetries
    OBVIOUS
  <2>1. g \in 0 .. r[3]
    BY <1>2, <1>4
  <2>2. MaxRetries \in Nat
    BY Bounds
  <2> QED
    BY <1>1, <2>1, <2>2
<1> QED
  BY <1>1, <1>3, <1>5 DEF Requests

\* The terminal of the newest attempt, or of the one that is its successor.
LEMMA TerminalFolds ==
    ASSUME TypeOK, OpenInv, NEW a \in Attempts, a = Top \/ (a = Top + 1 /\ ~IsOpen),
           NEW ri \in BOOLEAN, evidence' = FoldTerminal(evidence, a, ri)
    PROVE  /\ evidence' \in RecoveryEvidence /\ Top' = a /\ ~IsOpen'
           /\ \A b \in Attempts : evidence'.attempts[b] = NotOpen
           /\ evidence'.repairs = evidence.repairs
           /\ evidence'.obligation <=> evidence.obligation /\ ri
<1> DEFINE h == IF a > evidence.highest THEN a ELSE evidence.highest
           b == evidence.obligation /\ ~DecidesTheTurn(ri)
<1>1. evidence \in RecoveryEvidence /\ evidence.attempts \in [Attempts -> Entries]
  BY DEF TypeOK, DurableTypeOK, RecoveryEvidence
<1>2. h = a
  BY NumbersType DEF Top
<1>3. b \in BOOLEAN /\ (b <=> evidence.obligation /\ ri)
  BY <1>1 DEF DecidesTheTurn, RecoveryEvidence
<1>4. evidence' = [evidence EXCEPT !.attempts[a] = NotOpen, !.obligation = b, !.highest = h]
  BY DEF FoldTerminal
<1> HIDE DEF h, b
<1>5. NotOpen \in Entries
  BY DEF NotOpen, Entries
<1>6. /\ evidence'.attempts = [evidence.attempts EXCEPT ![a] = NotOpen] /\ evidence'.highest = h
      /\ evidence'.obligation = b /\ evidence'.repairs = evidence.repairs
      /\ evidence' \in RecoveryEvidence
  <2> DEFINE A == [evidence.attempts EXCEPT ![a] = NotOpen]
  <2>1. A \in [Attempts -> Entries]
    BY <1>1, <1>5
  <2>2. evidence' = [evidence EXCEPT !.attempts = A, !.obligation = b, !.highest = h]
    BY <1>1, <1>4 DEF RecoveryEvidence
  <2> HIDE DEF A
  <2>3. /\ evidence'.attempts = A /\ evidence'.highest = h
        /\ evidence'.obligation = b /\ evidence'.repairs = evidence.repairs
    BY <1>1, <2>2 DEF RecoveryEvidence
  <2>4. evidence' \in RecoveryEvidence
    BY <1>1, <1>2, <1>3, <2>1, <2>2 DEF RecoveryEvidence
  <2> QED
    BY <2>3, <2>4 DEF A
<1>7. \A c \in Attempts : c # a => evidence.attempts[c] = NotOpen
  BY Bounds DEF OpenInv, IsOpen, Entry
<1>8. \A c \in Attempts : evidence'.attempts[c] = NotOpen
  BY <1>1, <1>6, <1>7
<1>9. Top' = a
  BY <1>2, <1>6 DEF Top
<1>10. ~IsOpen'
  BY <1>8, <1>9 DEF IsOpen, Entry, NotOpen
<1> QED
  BY <1>3, <1>6, <1>8, <1>9, <1>10

LEMMA EmitTerminalKeeps ==
    ASSUME RecoveryInv, EmitTerminal
    PROVE  RecoveryInv'
<1> /\ TypeOK /\ PhaseInv /\ OpenInv /\ RowInv /\ LiveInv /\ EvidenceInv
    /\ CallInv /\ StartedInv /\ ToolInv /\ PlanInv /\ CountInv /\ ResultInv /\ CarryInv
    /\ VerdictIsTruthful
  BY DEF RecoveryInv
<1>0. PICK a : a = live.id[1]
  OBVIOUS
<1>1. /\ phase = "attempt" /\ live.at = "ending" /\ live.id \notin Unsettled
      /\ evidence' = FoldTerminal(evidence, a, FALSE)
      /\ turn' = [t \in Turns |-> IF turn[t] = "adopted" THEN "decided" ELSE turn[t]]
      /\ carryover' = IF live.unresolved THEN UnresolvedOutputSource(live.id) ELSE carryover
      /\ phase' = IF live.failed \/ Missing # {} THEN "blocked" ELSE "idle"
      /\ live' = NoAttempt /\ UNCHANGED <<plan, continuation, crashes>>
      /\ UNCHANGED <<outcome, streams, results, effects, faults>>
  BY <1>0 DEF EmitTerminal, At, LeaveAttempt
<1>2. plan = NoPlan /\ continuation = FALSE /\ phase' \in {"idle", "blocked"}
      /\ (Missing # {} => phase' = "blocked")
  BY <1>1 DEF PhaseInv, TypeOK, ProcessTypeOK
<1>3. /\ a \in Attempts /\ (a = Top \/ (a = Top + 1 /\ ~IsOpen)) /\ (a = Top <=> Begun)
      /\ a # Top => evidence.obligation /\ ~live.unresolved /\ a = Top + 1 /\ ~IsOpen
  <2>1. CASE Begun
    BY <1>0, <1>1, <2>1, EntryType DEF Begun, OpenInv
  <2>2. CASE ~Begun
    <3>1. live.id = <<Top + 1, 0, 0>> /\ Top + 1 \in Attempts /\ ~IsOpen /\ evidence.obligation /\ ~live.unresolved
      BY <1>1, <2>2 DEF OpenInv
    <3>2. a = Top + 1
      BY <1>0, <3>1
    <3> QED
      BY <1>0, <2>2, <3>1, <3>2 DEF Begun
  <2> QED
    BY <2>1, <2>2
<1>4. /\ evidence' \in RecoveryEvidence /\ Top' = a /\ ~IsOpen'
      /\ \A b \in Attempts : evidence'.attempts[b] = NotOpen
      /\ evidence'.repairs = evidence.repairs /\ ~evidence'.obligation
  <2>1. FALSE \in BOOLEAN
    OBVIOUS
  <2> QED
    BY <1>1, <1>3, <2>1, TerminalFolds
<1>5. Unsettled = {}
  <2>1. CASE Begun /\ IsNewest(live.id)
    BY <1>1, <2>1, UnsettledIs
  <2>2. CASE Begun /\ Own = {}
    BY <2>2 DEF RowInv, IsNewest
  <2>3. CASE ~Begun
    BY <1>3, <2>3 DEF RowInv
  <2> QED
    BY <1>1, <2>1, <2>2, <2>3 DEF LiveInv
<1>6. a # Top => Missing = {}
  <2>1. \A o \in Missing : o[1] = live.id /\ o[1][1] = Top
    BY <1>1, MissingIs DEF CallInv
  <2> QED
    BY <1>0, <2>1
<1>7. /\ Missing' = Missing /\ Unsettled' = {} /\ (\A r : Canonical(r)' = Canonical(r))
      /\ (\A r : UnresolvedOutputSource(r)' = UnresolvedOutputSource(r))
      /\ (\A o : Told(o)' = Told(o)) /\ (\A b : RequestsOf(b)' = RequestsOf(b))
  BY <1>1, <1>5 DEF Missing, Unsettled, Canonical, UnresolvedOutputSource, Carriable, Told, RequestsOf
<1>8. a = Top => Own' = Own /\ \A r : IsNewest(r)' = IsNewest(r)
  BY <1>4, <1>7 DEF Own, IsNewest
<1>9. a # Top => Own' = {}
  <2>1. \A r \in DOMAIN outcome : r[1] <= Top /\ r[1] \in Nat /\ Top \in Nat
    BY RequestParts, NumbersType DEF RowInv, TypeOK, DurableTypeOK
  <2>2. Own' = RequestsOf(a)
    BY <1>4, <1>7 DEF Own
  <2> QED
    BY <1>3, <2>1, <2>2 DEF RequestsOf
<1>10. PlanInv' /\ VerdictIsTruthful' /\ PlanTypeOK'
  BY <1>1, <1>2, NoPlanKeeps
<1>11. turn' \in [Turns -> {"none", "pending", "adopted", "carried", "decided"}] /\ Taken' = Taken
  BY <1>1, CarriedTakes
<1>12. carryover' \in Requests \cup {None}
  <2>1. CASE live.unresolved
    <3>1. Begun /\ live.id \in Requests
      BY <1>1, <1>3, <2>1 DEF LiveInv, IsNewest, Own, RequestsOf, TypeOK, DurableTypeOK
    <3> QED
      BY <1>1, <2>1, <3>1, CarriedType
  <2>2. CASE ~live.unresolved
    BY <1>1, <2>2 DEF TypeOK, DurableTypeOK
  <2> QED
    BY <2>1, <2>2
<1>13. TypeOK'
  <2>1. NoAttempt.id \in (Attempts \cup {0}) \X (Steps \cup {0}) \X (0 .. MaxRetries)
    BY Bounds DEF NoAttempt
  <2> QED
    BY <1>1, <1>2, <1>4, <1>10, <1>11, <1>12, <2>1 DEF TypeOK, DurableTypeOK, ProcessTypeOK, NoAttempt
<1>14. PhaseInv'
  BY <1>1, <1>2, <1>4 DEF PhaseInv, NoPlan
<1>15. OpenInv'
  <2>0. ~NotOpen.open
    BY DEF NotOpen
  <2>1. \A b \in Attempts : ~evidence'.attempts[b].open /\ evidence'.attempts[b] = NotOpen
    BY <1>4, <2>0
  <2>2. phase' # "attempt" /\ phase' # "recovering"
    BY <1>2
  <2> QED
    BY <1>4, <2>1, <2>2 DEF OpenInv
<1>16. RowInv'
  <2>1. \A r \in DOMAIN outcome : r[1] <= a
    BY <1>3, RequestParts, NumbersType DEF RowInv, TypeOK, DurableTypeOK
  <2>2. Own' # {} => \E r \in Own' : IsNewest(r)'
    BY <1>8, <1>9 DEF RowInv
  <2> QED
    BY <1>1, <1>4, <1>7, <2>1, <2>2 DEF RowInv
<1>17. LiveInv' /\ EvidenceInv' /\ ToolInv' /\ StartedInv'
  BY <1>2, <1>4 DEF LiveInv, EvidenceInv, ToolInv, StartedInv
<1>18. CallInv'
  <2>1. CASE a = Top
    BY <1>2, <1>4, <1>7, <1>8, <2>1 DEF CallInv
  <2>2. CASE a # Top
    BY <1>4, <1>6, <1>7, <2>2 DEF CallInv
  <2> QED
    BY <2>1, <2>2
<1>19. ResultInv'
  BY <1>1 DEF ResultInv
<1>20. CarryInv'
  <2> SUFFICES ASSUME NEW r \in Own', IsNewest(r)'
               PROVE  carryover' = IF Canonical(r) THEN None ELSE UnresolvedOutputSource(r)
    BY <1>7 DEF CarryInv
  <2>1. a = Top /\ r \in Own /\ IsNewest(r) /\ Begun /\ IsOpen
    BY <1>1, <1>3, <1>8, <1>9 DEF OpenInv
  <2>2. r = live.id /\ IsNewest(live.id)
    BY <1>1, <2>1, NewestOwn DEF LiveInv
  <2>3. carryover = None
    BY <2>1 DEF EvidenceInv
  <2>4. live.unresolved <=> ~Canonical(live.id)
    BY <1>1, <2>1, <2>2 DEF LiveInv
  <2> QED
    BY <1>1, <2>2, <2>3, <2>4
<1>21. CountInv'
  <2>1. a <= Cardinality(Taken) + crashes + faults
    <3>1. CASE a = Top
      BY <3>1 DEF CountInv
    <3>2. CASE a # Top
      BY <1>3, <3>2 DEF CountInv, Due
    <3> QED
      BY <3>1, <3>2
  <2> QED
    BY <1>1, <1>2, <1>4, <1>11, <2>1 DEF CountInv, Due
<1> QED
  BY <1>10, <1>13, <1>14, <1>15, <1>16, <1>17, <1>18, <1>19, <1>20, <1>21 DEF RecoveryInv

-----------------------------------------------------------------------------
(* The steps of a recovery.                                                 *)

\* No row that a death leaves is refused its audit.
LEMMA TerminalizePublicationKeeps ==
    ASSUME RecoveryInv, TerminalizePublication
    PROVE  RecoveryInv'
<1> /\ TypeOK /\ PhaseInv /\ OpenInv /\ RowInv /\ LiveInv /\ EvidenceInv
    /\ CallInv /\ StartedInv /\ ToolInv /\ PlanInv /\ CountInv /\ ResultInv /\ CarryInv
    /\ VerdictIsTruthful
  BY DEF RecoveryInv
<1>1. /\ phase = "recovering"
      /\ UNCHANGED <<evidence, results, carryover, turn, outcome, effects, live, continuation, crashes, faults>>
  BY DEF TerminalizePublication, Recovering, RecoveryUnchanged
<1>2. PICK r \in plan.publications :
         IF AuditRefused(r)
         THEN phase' = "refused" /\ UNCHANGED <<streams, plan>>
         ELSE /\ streams' = Audited(r)
              /\ plan' = [plan EXCEPT !.publications = @ \ {r}]
              /\ UNCHANGED phase
  BY DEF TerminalizePublication
<1>3. r \in Unsettled /\ plan.publications = Unsettled /\ IsOpen
  BY <1>1, <1>2 DEF PlanInv, RowInv
<1>4. ~AuditRefused(r)
  <2>1. r \in DOMAIN streams /\ streams[r].settlement = "none" /\ ~Canonical(r)
    BY <1>3 DEF Unsettled, Canonical
  <2>2. streams[r].terminal => outcome[r] = "completed"
    BY <2>1 DEF RowInv
  <2>3. \A c \in Calls : <<r, c>> \notin DOMAIN effects
    <3> SUFFICES ASSUME NEW c \in Calls, <<r, c>> \in DOMAIN effects PROVE FALSE
      OBVIOUS
    <3>1. <<r, c>> \in DOMAIN results /\ <<r, c>>[1] = r
      BY DEF TypeOK, ProcessTypeOK
    <3> QED
      BY <2>1, <3>1 DEF RowInv
  <2> QED
    BY <2>1, <2>2, <2>3 DEF AuditRefused
<1>5. streams' = Audited(r) /\ plan' = [plan EXCEPT !.publications = Unsettled \ {r}] /\ phase' = phase
  BY <1>2, <1>3, <1>4
<1>6. /\ DOMAIN streams' = DOMAIN streams /\ streams' \in [DOMAIN streams' -> Rows]
      /\ \A q \in DOMAIN streams : streams'[q].terminal = streams[q].terminal
      /\ \A q : Canonical(q)' <=> Canonical(q)
      /\ Unsettled' = Unsettled \ {r}
  BY <1>3, <1>5, AuditIs
<1>7. /\ DOMAIN plan' = DOMAIN NoPlan /\ plan'.publications = Unsettled \ {r}
      /\ plan'.repairs = plan.repairs /\ plan'.class = plan.class /\ plan'.attempt = plan.attempt
      /\ plan'.last = plan.last /\ plan'.accepted = plan.accepted /\ plan'.resume = plan.resume
  BY <1>5 DEF TypeOK, PlanTypeOK, NoPlan
<1>8. /\ Top' = Top /\ Entry' = Entry /\ IsOpen' = IsOpen /\ Own' = Own /\ Missing' = Missing
      /\ \A q : IsNewest(q)' = IsNewest(q)
      /\ \A o : Told(o)' = Told(o)
      /\ \A a : /\ RequestsOf(a)' = RequestsOf(a)
                /\ RequestUnknown(a)' = RequestUnknown(a) /\ ToolUnknown(a)' = ToolUnknown(a)
  BY <1>1 DEF Top, Entry, IsOpen, Own, RequestsOf, Missing, IsNewest, Told, RequestUnknown, ToolUnknown, Newest
<1>9. PlanTypeOK'
  BY <1>3, <1>7 DEF TypeOK, PlanTypeOK
<1>10. TypeOK'
  BY <1>1, <1>5, <1>6, <1>9 DEF TypeOK, DurableTypeOK, ProcessTypeOK
<1>11. PhaseInv' /\ OpenInv'
  BY <1>1, <1>5, <1>7, <1>8 DEF PhaseInv, OpenInv
<1>12. RowInv'
  BY <1>1, <1>6, <1>8 DEF RowInv
<1>13. LiveInv' /\ StartedInv'
  BY <1>1, <1>5 DEF LiveInv, StartedInv
<1>14. EvidenceInv'
  BY <1>1, <1>6, <1>8 DEF EvidenceInv
<1>15. CallInv' /\ ToolInv'
  BY <1>1, <1>5, <1>8 DEF CallInv, ToolInv
<1>16. PlanInv'
  BY <1>1, <1>6, <1>7, <1>8 DEF PlanInv
<1>17. ResultInv' /\ CarryInv'
  BY <1>1, <1>3, <1>8 DEF ResultInv, CarryInv
<1>18. CountInv'
  <2>1. Taken' = Taken /\ (Due' <=> Due)
    BY <1>1, <1>5 DEF Taken, Due
  <2> QED
    BY <1>1, <1>5, <1>8, <2>1 DEF CountInv
<1>19. VerdictIsTruthful'
  BY <1>7, <1>8 DEF VerdictIsTruthful
<1> QED
  BY <1>10, <1>11, <1>12, <1>13, <1>14, <1>15, <1>16, <1>17, <1>18, <1>19 DEF RecoveryInv

\* The calls without a result are all of one message: one batch repairs them.
LEMMA RepairToolTurnKeeps ==
    ASSUME RecoveryInv, RepairToolTurn
    PROVE  RecoveryInv'
<1> /\ TypeOK /\ PhaseInv /\ OpenInv /\ RowInv /\ LiveInv /\ EvidenceInv
    /\ CallInv /\ StartedInv /\ ToolInv /\ PlanInv /\ CountInv /\ ResultInv /\ CarryInv
    /\ VerdictIsTruthful
  BY DEF RecoveryInv
<1>1. /\ phase = "recovering" /\ plan.publications = {}
      /\ UNCHANGED <<streams, carryover, phase, turn, outcome, effects, live, continuation, crashes, faults>>
  BY DEF RepairToolTurn, Recovering, RecoveryUnchanged
<1>2. PICK m \in {o[1] : o \in DOMAIN plan.repairs} :
         LET batch == {o \in DOMAIN plan.repairs : o[1] = m}
         IN /\ results' = [o \in DOMAIN results |-> IF o \in batch THEN plan.repairs[o] ELSE results[o]]
            /\ evidence' = FoldResults(evidence, m[1], {o[2] : o \in batch})
            /\ plan' = [plan EXCEPT !.repairs = [o \in DOMAIN @ \ batch |-> @[o]]]
  BY DEF RepairToolTurn
<1>3. /\ DOMAIN plan.repairs = Missing
      /\ \A o \in Missing : plan.repairs[o] = IF Told(o) = "none" THEN "not_run" ELSE Told(o)
  BY <1>1 DEF PlanInv
<1>4. /\ {o \in DOMAIN plan.repairs : o[1] = m} = Missing /\ m[1] = Top /\ Top \in Attempts
      /\ \A o \in Missing : o[1] = m /\ o \in Occurrences /\ o[2] \in Calls
                             /\ evidence.repairs[<<Top, o[2]>>] = Told(o)
  <2>1. PICK p \in Missing : m = p[1]
    BY <1>2, <1>3
  <2>2. \A o \in Missing : o[1] = m
    BY <2>1 DEF CallInv
  <2> QED
    BY <1>3, <2>1, <2>2, MissingIs
<1>5. PICK C : C = {o[2] : o \in Missing}
  OBVIOUS
<1>6. /\ C \in SUBSET Calls /\ \A c : c \in C <=> \E o \in Missing : o[2] = c
  BY <1>4, <1>5
<1>7. /\ results' = [o \in DOMAIN results |-> IF o \in Missing THEN plan.repairs[o] ELSE results[o]]
      /\ evidence' = FoldResults(evidence, Top, C)
      /\ plan' = [plan EXCEPT !.repairs = [o \in DOMAIN @ \ Missing |-> @[o]]]
  BY <1>2, <1>4, <1>5
<1>8. /\ Released(C)
      /\ IsOpen => Revised([Entry EXCEPT !.tools =
            IF \E c \in C : evidence.repairs[<<Top, c>>] = "unknown" THEN "irreversible" ELSE Entry.tools])
      /\ ~IsOpen => evidence'.attempts = evidence.attempts
  BY <1>4, <1>6, <1>7, ResultsFold
<1>9. (\E c \in C : evidence.repairs[<<Top, c>>] = "unknown") <=> \E o \in Missing : Told(o) = "unknown"
  <2>1. ASSUME NEW c \in C, evidence.repairs[<<Top, c>>] = "unknown"
        PROVE  \E o \in Missing : Told(o) = "unknown"
    <3>1. PICK o \in Missing : o[2] = c
      BY <1>6
    <3> QED
      BY <1>4, <2>1, <3>1
  <2>2. ASSUME NEW o \in Missing, Told(o) = "unknown"
        PROVE  o[2] \in C /\ evidence.repairs[<<Top, o[2]>>] = "unknown"
    BY <1>4, <1>6, <2>2
  <2> QED
    BY <2>1, <2>2
<1>10. /\ Top' = Top /\ (IsOpen' <=> IsOpen) /\ evidence' \in RecoveryEvidence
       /\ (evidence'.obligation <=> evidence.obligation)
       /\ \A a \in Attempts : a # Top => evidence'.attempts[a] = evidence.attempts[a]
       /\ evidence'.attempts[Top].open <=> evidence.attempts[Top].open
       /\ ~IsOpen => evidence'.attempts = evidence.attempts
  <2>1. Top' = Top /\ evidence' \in RecoveryEvidence /\ evidence'.obligation = evidence.obligation
    BY <1>8 DEF Released
  <2>2. CASE IsOpen
    BY <1>8, <2>1, <2>2 DEF Revised, IsOpen, Entry
  <2>3. CASE ~IsOpen
    BY <1>8, <2>1, <2>3 DEF IsOpen, Entry
  <2> QED
    BY <2>1, <2>2, <2>3
<1>11. IsOpen => /\ Entry'.request = Entry.request /\ Entry'.last = Entry.last
                 /\ Entry'.accepted = Entry.accepted
                 /\ Entry'.tools = IF \E o \in Missing : Told(o) = "unknown" THEN "irreversible" ELSE Entry.tools
  BY <1>8, <1>9, EntryType DEF Revised, Entries
<1>12. \A a \in Attempts, c \in Calls : evidence'.repairs[<<a, c>>] = "none"
  <2> SUFFICES ASSUME NEW a \in Attempts, NEW c \in Calls PROVE evidence'.repairs[<<a, c>>] = "none"
    OBVIOUS
  <2>1. evidence'.repairs[<<a, c>>] = IF a = Top /\ c \in C THEN "none" ELSE evidence.repairs[<<a, c>>]
    BY <1>8 DEF Released
  <2>2. evidence.repairs[<<a, c>>] # "none" => a = Top /\ c \in C
    BY <1>6 DEF CallInv
  <2> QED
    BY <2>1, <2>2
<1>13. /\ DOMAIN results' = DOMAIN results
       /\ \A o \in DOMAIN results : o \notin Missing => results'[o] = results[o]
       /\ \A o \in Missing : o \in DOMAIN results
                              /\ results'[o] = IF Told(o) = "none" THEN "not_run" ELSE Told(o)
  BY <1>3, <1>7 DEF Missing
<1>14. \A o : Told(o) \in {"none", "known", "unknown"}
  BY DEF Told
<1>15. results' \in [DOMAIN results' -> {"missing", "not_run", "known", "unknown"}]
  <2>1. \A o \in DOMAIN results : results'[o] \in {"missing", "not_run", "known", "unknown"}
    BY <1>13, <1>14 DEF TypeOK, DurableTypeOK
  <2> QED
    BY <1>7, <1>13, <2>1
<1>16. Missing' = {}
  BY <1>13, <1>14 DEF Missing
<1>17. /\ DOMAIN plan' = DOMAIN NoPlan /\ plan'.publications = plan.publications
       /\ DOMAIN plan'.repairs = {} /\ plan'.repairs \in [{} -> {"not_run", "known", "unknown"}]
       /\ plan'.class = plan.class /\ plan'.attempt = plan.attempt
       /\ plan'.last = plan.last /\ plan'.accepted = plan.accepted /\ plan'.resume = plan.resume
  <2> DEFINE f == [o \in DOMAIN plan.repairs \ Missing |-> plan.repairs[o]]
  <2>1. DOMAIN f = {} /\ f \in [{} -> {"not_run", "known", "unknown"}]
    BY <1>3
  <2>2. plan' = [plan EXCEPT !.repairs = f]
    BY <1>7
  <2> HIDE DEF f
  <2> QED
    BY <2>1, <2>2 DEF TypeOK, PlanTypeOK, NoPlan
<1>18. /\ Own' = Own /\ Unsettled' = Unsettled
       /\ \A q : IsNewest(q)' = IsNewest(q) /\ Canonical(q)' = Canonical(q)
       /\ \A q : UnresolvedOutputSource(q)' = UnresolvedOutputSource(q)
       /\ \A a : /\ RequestsOf(a)' = RequestsOf(a)
                 /\ RequestUnknown(a)' = RequestUnknown(a) /\ ToolUnknown(a)' = ToolUnknown(a)
  BY <1>1, <1>10 DEF Own, RequestsOf, Unsettled, IsNewest, Canonical, UnresolvedOutputSource, Carriable,
                     RequestUnknown, ToolUnknown, Newest
<1>19. PlanTypeOK'
  BY <1>17 DEF TypeOK, PlanTypeOK
<1>20. TypeOK'
  BY <1>1, <1>10, <1>13, <1>15, <1>19 DEF TypeOK, DurableTypeOK, ProcessTypeOK
<1>21. PhaseInv'
  BY <1>1, <1>10, <1>17 DEF PhaseInv
<1>22. OpenInv'
  <2>1. \A a \in Attempts : ~evidence'.attempts[a].open => evidence'.attempts[a] = NotOpen
    <3>1. IsOpen => evidence.attempts[Top].open
      BY EntryType
    <3> QED
      BY <1>10, <3>1 DEF OpenInv
  <2>2. \A a \in Attempts : evidence'.attempts[a].open => a = Top
    BY <1>10 DEF OpenInv
  <2> QED
    BY <1>1, <1>10, <1>17, <2>1, <2>2 DEF OpenInv
<1>23. RowInv'
  BY <1>1, <1>10, <1>13, <1>18 DEF RowInv
<1>24. LiveInv' /\ StartedInv'
  BY <1>1 DEF LiveInv, StartedInv
<1>25. EvidenceInv'
  BY <1>1, <1>10, <1>11, <1>18 DEF EvidenceInv
<1>26. CallInv'
  BY <1>12, <1>16 DEF CallInv
<1>27. ToolInv'
  <2> SUFFICES ASSUME IsOpen
               PROVE  /\ Entry'.tools = "never" <=> DOMAIN effects = {}
                      /\ Entry'.tools = "irreversible" <=> \E o \in DOMAIN effects : effects[o] # "recorded"
                      /\ Entry'.tools = "outstanding" => \E o \in DOMAIN effects : effects[o] # "recorded"
                      /\ Entry'.tools = "known" => \A o \in DOMAIN effects : effects[o] = "recorded"
    BY <1>1, <1>10, <1>16 DEF ToolInv
  <2>1. \A o \in Missing : Told(o) = "unknown" <=> o \in DOMAIN effects /\ effects[o] # "recorded"
    BY DEF Told
  <2>2. CASE \E o \in Missing : Told(o) = "unknown"
    BY <1>11, <2>1, <2>2
  <2>3. CASE ~\E o \in Missing : Told(o) = "unknown"
    <3>1. \A o \in DOMAIN effects : effects[o] # "recorded" => o \notin Missing
      BY <2>1, <2>3
    <3>2. Entry'.tools = Entry.tools
      BY <1>11, <2>3
    <3> QED
      BY <3>1, <3>2 DEF ToolInv
  <2> QED
    BY <2>2, <2>3
<1>28. PlanInv'
  BY <1>1, <1>10, <1>11, <1>16, <1>17, <1>18 DEF PlanInv
<1>29. ResultInv'
  <2> SUFFICES ASSUME NEW o \in DOMAIN results
               PROVE  /\ results'[o] = "not_run" => o \notin DOMAIN effects
                      /\ results'[o] = "known" => o \in DOMAIN effects /\ effects[o] = "recorded"
                      /\ results'[o] = "unknown" => o \in DOMAIN effects /\ effects[o] # "recorded"
    BY <1>1, <1>13 DEF ResultInv
  <2>1. CASE o \in Missing
    BY <1>13, <2>1 DEF Told
  <2>2. CASE o \notin Missing
    BY <1>13, <2>2 DEF ResultInv
  <2> QED
    BY <2>1, <2>2
<1>30. CarryInv'
  BY <1>1, <1>10, <1>18 DEF CarryInv
<1>31. CountInv'
  <2>1. Taken' = Taken /\ (Due' <=> Due)
    BY <1>1, <1>10 DEF Taken, Due
  <2> QED
    BY <1>1, <1>10, <2>1 DEF CountInv
<1>32. VerdictIsTruthful'
  BY <1>17, <1>18 DEF VerdictIsTruthful
<1> QED
  BY <1>20, <1>21, <1>22, <1>23, <1>24, <1>25, <1>26, <1>27, <1>28, <1>29, <1>30, <1>31, <1>32 DEF RecoveryInv

\* The terminal of the interrupted attempt, and the output that it leaves to the next one.
LEMMA SettleInterruptedAttemptKeeps ==
    ASSUME RecoveryInv, SettleInterruptedAttempt
    PROVE  RecoveryInv'
<1> /\ TypeOK /\ PhaseInv /\ OpenInv /\ RowInv /\ LiveInv /\ EvidenceInv
    /\ CallInv /\ StartedInv /\ ToolInv /\ PlanInv /\ CountInv /\ ResultInv /\ CarryInv
    /\ VerdictIsTruthful
  BY DEF RecoveryInv
<1>1. /\ phase = "recovering" /\ plan.publications = {} /\ DOMAIN plan.repairs = {} /\ plan.attempt # None
      /\ evidence' = FoldTerminal(evidence, plan.attempt, TRUE)
      /\ carryover' = CASE plan.last = None -> carryover
                        [] plan.last # None /\ plan.accepted = plan.last -> None
                        [] OTHER -> UnresolvedOutputSource(plan.last)
      /\ plan' = [plan EXCEPT !.attempt = None]
      /\ UNCHANGED <<streams, results, phase, turn, outcome, effects, live, continuation, crashes, faults>>
  BY DEF SettleInterruptedAttempt, Recovering, RecoveryUnchanged
<1>2. /\ IsOpen /\ plan.attempt = Top /\ Top \in Attempts /\ Unsettled = {} /\ Missing = {}
      /\ plan.last = Entry.last /\ plan.accepted = Entry.accepted
  <2>1. IsOpen /\ plan.attempt = Top
    BY <1>1 DEF OpenInv
  <2> QED
    BY <1>1, <2>1, EntryType DEF PlanInv
<1>3. /\ evidence' \in RecoveryEvidence /\ Top' = Top /\ ~IsOpen'
      /\ \A b \in Attempts : evidence'.attempts[b] = NotOpen
      /\ evidence'.repairs = evidence.repairs /\ (evidence'.obligation <=> evidence.obligation)
  <2>1. TRUE \in BOOLEAN
    OBVIOUS
  <2> QED
    BY <1>1, <1>2, <2>1, TerminalFolds
<1>4. /\ DOMAIN plan' = DOMAIN NoPlan /\ plan'.publications = {} /\ plan'.attempt = None
      /\ plan'.repairs = plan.repairs /\ plan'.class = plan.class
      /\ plan'.last = plan.last /\ plan'.accepted = plan.accepted /\ plan'.resume = plan.resume
  BY <1>1 DEF TypeOK, PlanTypeOK, NoPlan
<1>5. /\ Missing' = {} /\ Unsettled' = {} /\ Own' = Own
      /\ \A q : IsNewest(q)' = IsNewest(q) /\ Canonical(q)' = Canonical(q)
      /\ \A q : UnresolvedOutputSource(q)' = UnresolvedOutputSource(q)
  BY <1>1, <1>2, <1>3 DEF Missing, Unsettled, Own, RequestsOf, IsNewest, Canonical, UnresolvedOutputSource, Carriable
<1>6. carryover' = IF plan.last = None THEN carryover
                   ELSE IF plan.accepted = plan.last THEN None ELSE UnresolvedOutputSource(plan.last)
  BY <1>1
<1>7. carryover' \in Requests \cup {None}
  <2>1. CASE plan.last = None
    BY <1>6, <2>1 DEF TypeOK, DurableTypeOK
  <2>2. CASE plan.last # None
    <3>1. plan.last \in Requests
      BY <2>2 DEF TypeOK, PlanTypeOK
    <3> QED
      BY <1>6, <2>2, <3>1, CarriedType
  <2> QED
    BY <2>1, <2>2
<1>8. PlanTypeOK'
  BY <1>4 DEF TypeOK, PlanTypeOK
<1>9. TypeOK'
  BY <1>1, <1>3, <1>7, <1>8 DEF TypeOK, DurableTypeOK, ProcessTypeOK
<1>10. PhaseInv'
  BY <1>1, <1>3, <1>4 DEF PhaseInv
<1>11. OpenInv'
  <2>0. ~NotOpen.open
    BY DEF NotOpen
  <2>1. \A b \in Attempts : ~evidence'.attempts[b].open /\ evidence'.attempts[b] = NotOpen
    BY <1>3, <2>0
  <2> QED
    BY <1>1, <1>3, <1>4, <2>1 DEF OpenInv
<1>12. RowInv'
  BY <1>1, <1>3, <1>5 DEF RowInv
<1>13. LiveInv' /\ EvidenceInv' /\ ToolInv' /\ StartedInv'
  BY <1>1, <1>3 DEF LiveInv, EvidenceInv, ToolInv, StartedInv
<1>14. CallInv'
  BY <1>2, <1>3, <1>5 DEF CallInv
<1>15. PlanInv'
  BY <1>1, <1>3, <1>4, <1>5 DEF PlanInv
<1>16. ResultInv'
  BY <1>1 DEF ResultInv
<1>17. CarryInv'
  <2> SUFFICES ASSUME NEW r \in Own, IsNewest(r)
               PROVE  carryover' = IF Canonical(r) THEN None ELSE UnresolvedOutputSource(r)
    BY <1>5 DEF CarryInv
  <2>1. /\ carryover = None /\ (Canonical(r) <=> Entry.accepted = r)
        /\ Entry.last # None => IsNewest(Entry.last)
        /\ Entry.last = None => \E q \in Own : IsNewest(q) /\ Canonical(q)
    BY <1>2 DEF EvidenceInv
  <2>2. CASE Entry.last = None
    <3>1. Canonical(r)
      BY <2>1, <2>2, NewestOwn
    <3> QED
      BY <1>2, <1>6, <2>1, <2>2, <3>1
  <2>3. CASE Entry.last # None
    <3>1. Entry.last = r
      BY <2>1, <2>3, NewestOwn
    <3> QED
      BY <1>2, <1>6, <2>1, <2>3, <3>1
  <2> QED
    BY <2>2, <2>3
<1>18. CountInv'
  <2>1. Taken' = Taken /\ (Due' <=> Due)
    BY <1>1, <1>3 DEF Taken, Due
  <2> QED
    BY <1>1, <1>3, <2>1 DEF CountInv
<1>19. VerdictIsTruthful'
  BY <1>4 DEF VerdictIsTruthful
<1> QED
  BY <1>9, <1>10, <1>11, <1>12, <1>13, <1>14, <1>15, <1>16, <1>17, <1>18, <1>19 DEF RecoveryInv

-----------------------------------------------------------------------------
(* The theorems.                                                            *)

LEMMA InitKeeps ==
    ASSUME Init
    PROVE  RecoveryInv
<1>1. /\ DOMAIN outcome = {} /\ DOMAIN streams = {} /\ DOMAIN results = {} /\ DOMAIN effects = {}
      /\ outcome \in [{} -> {"started", "failed", "completed"}] /\ streams \in [{} -> Rows]
      /\ results \in [{} -> {"missing", "not_run", "known", "unknown"}]
      /\ effects \in [{} -> {"announced", "running", "ended", "recorded"}]
      /\ phase = "down" /\ live = NoAttempt /\ plan = NoPlan /\ continuation = FALSE
      /\ crashes = 0 /\ faults = 0 /\ carryover = None
      /\ turn = [t \in Turns |-> "none"]
  BY DEF Init
<1>2. /\ evidence \in RecoveryEvidence /\ Top = 0 /\ evidence.obligation = FALSE
      /\ \A a \in Attempts : evidence.attempts[a] = NotOpen
      /\ \A a \in Attempts, c \in Calls : evidence.repairs[<<a, c>>] = "none"
  <2>1. NotOpen \in Entries
    BY DEF NotOpen, Entries
  <2> QED
    BY <2>1 DEF Init, RecoveryEvidence, Top
<1>3. ~IsOpen /\ Missing = {} /\ Unsettled = {} /\ Own = {} /\ Taken = {} /\ ~Due
  BY <1>1, <1>2 DEF IsOpen, Missing, Unsettled, Own, RequestsOf, Taken, Due
<1>4. DurableTypeOK
  BY <1>1, <1>2 DEF DurableTypeOK
<1>5. ProcessTypeOK
  <2>1. live.id \in (Attempts \cup {0}) \X (Steps \cup {0}) \X (0 .. MaxRetries)
    BY <1>1, Bounds DEF NoAttempt
  <2>2. 0 \in 0 .. MaxCrashes /\ 0 \in 0 .. MaxFaults
    BY Bounds
  <2> QED
    BY <1>1, <2>1, <2>2 DEF ProcessTypeOK, NoAttempt
<1>6. PlanTypeOK
  BY <1>1 DEF PlanTypeOK, NoPlan
<1>7. PhaseInv /\ OpenInv
  <2>1. ~NotOpen.open
    BY DEF NotOpen
  <2>2. PhaseInv
    BY <1>1, <1>2 DEF PhaseInv, NoPlan
  <2> QED
    BY <1>1, <1>2, <1>3, <2>1, <2>2 DEF OpenInv
<1>8. RowInv /\ LiveInv /\ EvidenceInv /\ ToolInv /\ StartedInv /\ PlanInv
  BY <1>1, <1>3 DEF RowInv, LiveInv, EvidenceInv, ToolInv, StartedInv, PlanInv
<1>9. CallInv /\ ResultInv /\ CarryInv /\ VerdictIsTruthful
  BY <1>1, <1>2, <1>3 DEF CallInv, ResultInv, CarryInv, VerdictIsTruthful, NoPlan
<1>10. CountInv
  <2>1. Cardinality(Taken) = 0
    BY <1>3, FS_EmptySet
  <2> QED
    BY <1>1, <1>2, <1>3, <2>1 DEF CountInv
<1> QED
  BY <1>4, <1>5, <1>6, <1>7, <1>8, <1>9, <1>10 DEF RecoveryInv, TypeOK

LEMMA StutterKeeps ==
    ASSUME RecoveryInv, UNCHANGED vars
    PROVE  RecoveryInv'
<1> /\ TypeOK /\ PhaseInv /\ OpenInv /\ RowInv /\ LiveInv /\ EvidenceInv
    /\ CallInv /\ StartedInv /\ ToolInv /\ PlanInv /\ CountInv /\ ResultInv /\ CarryInv
    /\ VerdictIsTruthful
  BY DEF RecoveryInv
<1>1. /\ UNCHANGED Durables /\ UNCHANGED <<turn, phase, live, plan, continuation, crashes, faults>>
  BY DEF vars, durable, process, Durables
<1>2. TypeOK'
  BY <1>1 DEF TypeOK, DurableTypeOK, ProcessTypeOK, PlanTypeOK, Durables
<1>3. PhaseInv' /\ CountInv'
  BY <1>1 DEF PhaseInv, CountInv, Taken, Due, Begun, Top, Durables
<1>4. OpenInv' /\ RowInv' /\ LiveInv' /\ EvidenceInv'
  BY <1>1, SameDurables DEF OpenInv, RowInv, LiveInv, EvidenceInv, Begun, Durables
<1>5. CallInv' /\ StartedInv' /\ ToolInv' /\ PlanInv'
  BY <1>1, SameDurables DEF CallInv, StartedInv, ToolInv, PlanInv, Ours, Ran, Durables
<1>6. ResultInv' /\ CarryInv' /\ VerdictIsTruthful'
  BY <1>1, SameDurables DEF ResultInv, CarryInv, VerdictIsTruthful, Durables
<1> QED
  BY <1>2, <1>3, <1>4, <1>5, <1>6 DEF RecoveryInv

LEMMA RunAttemptKeeps ==
    ASSUME RecoveryInv, RunAttempt
    PROVE  RecoveryInv'
<1>1. CASE AttemptStarted
  BY <1>1, AttemptStartedKeeps
<1>2. CASE StartTurn
  BY <1>2, StartTurnKeeps
<1>3. CASE OpenPublication
  BY <1>3, OpenPublicationKeeps
<1>4. CASE RequestFailed \/ RequestCompleted
  BY <1>4, RequestEndsKeeps
<1>5. CASE AbandonStream
  BY <1>5, GivingUpKeeps
<1>6. CASE ScheduleRetry
  BY <1>6, ScheduleRetryKeeps
<1>7. CASE Retry
  BY <1>7, RetryKeeps
<1>8. CASE CommitPublicationTerminal
  BY <1>8, CommitPublicationTerminalKeeps
<1>9. CASE CommitAssistantMessage
  BY <1>9, CommitAssistantMessageKeeps
<1>10. ASSUME NEW c \in Calls, ToolStarted(c) PROVE RecoveryInv'
  BY <1>10, ToolStartedKeeps
<1>11. CASE RunExecutors \/ \E c \in Calls : ExecutorEnds(c)
  BY <1>11, ExecutorKeeps
<1>12. ASSUME NEW c \in Calls, ToolCompleted(c) PROVE RecoveryInv'
  BY <1>12, ToolCompletedKeeps
<1>13. CASE ToolsSettled
  BY <1>13, ToolsSettledKeeps
<1>14. CASE CommitToolResults
  BY <1>14, CommitToolResultsKeeps
<1>15. CASE SafeBoundary
  BY <1>15, SafeBoundaryKeeps
<1>16. CASE SettleAudit
  BY <1>16, SettleAuditKeeps
<1>17. CASE EmitTerminal
  BY <1>17, EmitTerminalKeeps
<1> QED
  BY <1>1, <1>2, <1>3, <1>4, <1>5, <1>6, <1>7, <1>8, <1>9, <1>10, <1>11, <1>12, <1>13, <1>14,
     <1>15, <1>16, <1>17 DEF RunAttempt

LEMMA StepKeeps ==
    ASSUME RecoveryInv, [Next]_vars
    PROVE  RecoveryInv'
<1>1. CASE UNCHANGED vars
  BY <1>1, StutterKeeps
<1>2. ASSUME NEW t \in Turns, Accept(t) PROVE RecoveryInv'
  BY <1>2, AcceptKeeps
<1>3. CASE AdmitNextAttempt
  BY <1>3, AdmitNextAttemptKeeps
<1>4. CASE AdmitContinuation
  BY <1>4, AdmitContinuationKeeps
<1>5. CASE RunAttempt
  BY <1>5, RunAttemptKeeps
<1>6. CASE StagePublication
  BY <1>6, StagePublicationKeeps
<1>7. CASE Conclude \/ InteractionFailed \/ CommitFails
  BY <1>7, GivingUpKeeps
<1>8. CASE SettlementFails
  BY <1>8, SettlementFailsKeeps
<1>9. CASE Crash
  BY <1>9, CrashKeeps
<1>10. CASE Shutdown
  BY <1>10, ShutdownKeeps
<1>11. CASE Restart
  BY <1>11, RestartKeeps
<1>12. CASE Reconcile
  BY <1>12, TerminalizePublicationKeeps, RepairToolTurnKeeps, SettleInterruptedAttemptKeeps,
     RecoveredKeeps DEF Reconcile
<1>13. CASE RecoveryFails
  BY <1>13, RecoveryFailsKeeps
<1> QED
  BY <1>1, <1>2, <1>3, <1>4, <1>5, <1>6, <1>7, <1>8, <1>9, <1>10, <1>11, <1>12, <1>13 DEF Next

(* What the journal's fold, the rows and the process say of each other is kept by every
   step of an attempt, by every death and by every step of a recovery. *)
THEOREM RecoveryInvariant == Spec => []RecoveryInv
<1>1. Init => RecoveryInv
  BY InitKeeps
<1>2. RecoveryInv /\ [Next]_vars => RecoveryInv'
  BY StepKeeps
<1> QED
  BY <1>1, <1>2, PTL DEF Spec

(* Whatever prefix a death leaves, of an attempt or of a recovery, the next recovery
   accepts it, classifies the interrupted attempt by what is so, and writes no tool
   result that claims more than is durable (recovery.rs 852-1326, 1698-1963). *)
THEOREM RecoveryIsAlwaysTruthful == Spec => []RecoveryIsTruthful
<1>1. RecoveryInv => RecoveryIsTruthful
  <2> SUFFICES ASSUME RecoveryInv PROVE RecoveryIsTruthful
    OBVIOUS
  <2>1. NothingIsRefused /\ TypeOK /\ VerdictIsTruthful
    BY DEF NothingIsRefused, RecoveryInv, PhaseInv
  <2>2. live.at = "streaming" => Missing = {}
    <3>1. live.at = "streaming" => phase = "attempt"
      BY DEF RecoveryInv, PhaseInv, NoAttempt
    <3> QED
      BY <3>1 DEF RecoveryInv, CallInv
  <2>3. ResultsAreTruthful
    BY <2>2 DEF ResultsAreTruthful, RecoveryInv, ResultInv
  <2> QED
    BY <2>1, <2>3 DEF RecoveryIsTruthful
<1> QED
  BY <1>1, RecoveryInvariant, PTL

(* An attempt whose terminal is durable leaves no stream unsettled, and the output that
   is carried to the next attempt's first request is the newest its last step released
   without acceptance, whoever wrote the terminal. *)
THEOREM OutputIsAlwaysAccountedFor == Spec => []OutputIsAccountedFor
<1>1. RecoveryInv => OutputIsAccountedFor
  <2> SUFFICES ASSUME RecoveryInv, NEW a \in 1 .. evidence.highest, ~evidence.attempts[a].open
               PROVE  /\ \A r \in Unsettled : r[1] # a
                      /\ (a = evidence.highest /\ RequestsOf(a) # {}) =>
                            carryover = IF Newest(a) \in DOMAIN streams /\ streams[Newest(a)].settlement = "canonical"
                                        THEN None ELSE UnresolvedOutputSource(Newest(a))
    BY DEF OutputIsAccountedFor
  <2>1. TypeOK /\ RowInv /\ CarryInv /\ OpenInv
    BY DEF RecoveryInv
  <2>2. \A r \in Unsettled : r[1] # a
    <3> SUFFICES ASSUME NEW r \in Unsettled, r[1] = a PROVE FALSE
      OBVIOUS
    <3>1. IsOpen /\ r[1] = Top
      BY <2>1, NewestOwn DEF RowInv
    <3> QED
      BY <3>1 DEF IsOpen, Entry, Top
  <2>3. ASSUME a = evidence.highest, RequestsOf(a) # {}
        PROVE  carryover = IF Newest(a) \in DOMAIN streams /\ streams[Newest(a)].settlement = "canonical"
                           THEN None ELSE UnresolvedOutputSource(Newest(a))
    <3>1. a = Top /\ Top # 0 /\ ~IsOpen /\ Own # {}
      BY <2>3, <2>1, NumbersType DEF Top, IsOpen, Entry, Own
    <3>2. PICK r \in Own : IsNewest(r)
      BY <2>1, <3>1 DEF RowInv
    <3>3. Newest(a) = r
      BY <2>1, <3>1, <3>2, NewestOwn
    <3>4. carryover = IF Canonical(r) THEN None ELSE UnresolvedOutputSource(r)
      BY <2>1, <3>1, <3>2 DEF CarryInv
    <3> QED
      BY <3>3, <3>4 DEF Canonical
  <2> QED
    BY <2>2, <2>3
<1> QED
  BY <1>1, RecoveryInvariant, PTL

(* A turn that a provider has seen is not carried again because of a death: a permission
   to continue, planned or in force, means that some adopted turn was in no request. *)
THEOREM NothingIsEverReplayed == Spec => []NeverReplayed
<1>1. RecoveryInv => NeverReplayed
  BY DEF RecoveryInv, PhaseInv, NeverReplayed
<1> QED
  BY <1>1, RecoveryInvariant, PTL

=============================================================================
