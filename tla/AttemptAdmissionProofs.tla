----------------------- MODULE AttemptAdmissionProofs -----------------------
(***************************************************************************)
(* Proofs of the safety properties of AttemptAdmission for any number of   *)
(* messages, background jobs, Goal rounds and storage errors.              *)
(***************************************************************************)
EXTENDS AttemptAdmission, FiniteSetTheorems, WellFoundedInduction, NaturalsInduction, TLAPS

\* The steps each kind of thread takes; attempts are started in order.
ThreadInv ==
    /\ pc[Worker] \in {"parked", "schedule", "handoff", "admitting", "gone"}
    /\ pc[Activator] \in {"schedule", "handoff", "admitting", "gone"}
    /\ pc[Compactor] \in {"parked", "run", "handoff", "admitting", "exit", "joinable"}
    /\ pc[Scheduler] \in {"parked", "run", "exit", "dropped"}
    /\ \A n \in Attempts :
          /\ pc[n] \in {"parked", "run", "selected", "broken", "handoff", "admitting", "exit",
                        "gone"}
          /\ n > admitted => pc[n] = "parked"

\* One owner, which the slot names; what a pass checked under the coordinator
\* lock stays true as long as it holds the lock.
OwnerInv ==
    /\ \A t, u \in Owners : t = u
    /\ \A t \in Owners : slot = SlotOf(t)
    /\ \A t \in Threads : pc[t] = "admitting" => lifecycle = "Running" /\ ~failed

\* Bookkeeping of the bounds: an attempt uses up a message or the recovered
\* turn, and every job that has not spoken has a number set aside.
Silent == {j \in Jobs : job[j] \in {"none", "running", "retrying"}}
CountInv ==
    /\ admitted + Cardinality(waiting) + (IF continuation THEN 1 ELSE 0) <= last + 1
    /\ last + Cardinality(Silent) <= MaxInbound

\* While nothing has failed for good, the errors of a cycle are the retries
\* that were used.
FaultInv ==
    /\ faults.cycle <= faults.total
    /\ ~failed => faults.cycle = IF cycle.used = {} THEN 0 ELSE IF cycle.used = Stages THEN 2 ELSE 1
    /\ failed => faults.cycle <= 3

\* What each wait of the supervisor has established stays so, because nothing
\* is admitted any more.
DrainInv ==
    /\ closed => lifecycle # "Running"
    /\ drain # "off" => lifecycle # "Running"
    /\ lifecycle = "Quiescent" => drain = "ok"
    /\ drain \notin {"off", "tail"} => pc[Compactor] = "parked"
    /\ drain \notin {"off", "tail", "foreground"} => slot = "none"
    /\ drain \in {"admissions", "recheck", "worker", "last", "decide", "ok"} => Unsettled = {}
    /\ drain \in {"last", "decide", "ok"} => pc[Worker] = "gone"
    /\ drain = "ok" => NoAdmissions /\ Resolved

\* What the reaper saw is so as long as its epoch is current.
ProbeInv ==
    probe => /\ slot = "none"
             /\ available => waiting = {} /\ rounds = 0
             /\ BackgroundIdle

\* NoStrandedWork, in which a job that has woken the coordinator and has yet to
\* settle its record counts as work: the pass waits for its lock.
WorkInv ==
    MayAdmit /\ (\/ waiting # {}
                 \/ continuation
                 \/ rounds > 0 /\ BackgroundIdle /\ Room
                 \/ cycle.retry # "none"
                 \/ \E j \in Jobs : job[j] = "notified") => PassIsDue

AdmissionInv ==
    TypeOK /\ ThreadInv /\ OwnerInv /\ CountInv /\ FaultInv /\ DrainInv /\ ProbeInv /\ WorkInv

-----------------------------------------------------------------------------
(* Threads, and the effects of the helpers.                                 *)

LEMMA ThreadNames ==
    /\ {Worker, Activator, Compactor, Scheduler} \subseteq Threads
    /\ Attempts \subseteq Threads /\ Attempts \subseteq Nat
    /\ \A t \in Threads : t \in Attempts \/ t \in {Worker, Activator, Compactor, Scheduler}
    /\ \A t \in Attempts : t \notin {Worker, Activator, Compactor, Scheduler}
    /\ Worker # Activator /\ Worker # Compactor /\ Worker # Scheduler
    /\ Activator # Compactor /\ Activator # Scheduler /\ Compactor # Scheduler
BY AdmissionAssumption DEF Threads, Attempts, Worker, Activator, Compactor, Scheduler

LEMMA AfterIs ==
    /\ After(Worker) = "parked" /\ After(Activator) = "gone"
    /\ \A t \in Threads \ {Worker, Activator} : After(t) = "exit"
BY ThreadNames DEF After

\* A set of numbers up to a bound has a greatest one.
LEMMA MaxIsMember ==
    ASSUME NEW n \in Nat, NEW S \in SUBSET (1..n), S # {}
    PROVE  Max(S) \in S
<1> DEFINE T == {n - s : s \in S}
           R == OpToRel(<, Nat)
<1>1. T \subseteq Nat /\ T # {}
  <2>1. \A s \in S : n - s \in Nat
    OBVIOUS
  <2>2. PICK s \in S : TRUE
    OBVIOUS
  <2>3. n - s \in T
    BY <2>2
  <2> QED
    BY <2>1, <2>3
<1>2. PICK d \in T : \A e \in T : ~(<<e, d>> \in R)
  BY <1>1, NatLessThanWellFounded, WFMin
<1>3. \A e \in T : ~(e < d)
  BY <1>1, <1>2 DEF OpToRel
<1>4. PICK x \in S : d = n - x
  OBVIOUS
<1>5. \A y \in S : x >= y
  <2> TAKE y \in S
  <2>1. ~(n - y < n - x) /\ x \in Nat /\ y \in Nat
    BY <1>3, <1>4
  <2> QED
    BY <2>1
<1> QED
  BY <1>5 DEF Max

\* What waits is finite, and so are the jobs that have yet to speak.
LEMMA CountsAreNat ==
    ASSUME TypeOK
    PROVE  /\ IsFiniteSet(waiting) /\ Cardinality(waiting) \in Nat
           /\ IsFiniteSet(Silent) /\ Cardinality(Silent) \in Nat
           /\ waiting # {} => Cardinality(waiting) # 0
<1>1. last \in Nat /\ waiting \subseteq 1..last
  BY AdmissionAssumption DEF TypeOK, InboxTypeOK
<1>2. IsFiniteSet(1..last)
  BY <1>1, FS_Interval
<1>3. IsFiniteSet(waiting)
  BY <1>1, <1>2, FS_Subset
<1>4. IsFiniteSet(Silent)
  BY AdmissionAssumption, FS_Subset DEF Silent
<1> QED
  BY <1>3, <1>4, FS_CardinalityType, FS_EmptySet

\* An attempt that may be published has a number, which no thread uses yet.
LEMMA NextAttempt ==
    ASSUME AdmissionInv, waiting # {} \/ continuation
    PROVE  admitted + 1 \in Attempts /\ pc[admitted + 1] = "parked"
<1>1. TypeOK /\ ThreadInv /\ CountInv
  BY DEF AdmissionInv
<1>2. Cardinality(waiting) \in Nat /\ (waiting # {} => Cardinality(waiting) # 0)
  BY <1>1, CountsAreNat
<1>3. admitted \in Nat /\ last \in Nat /\ last <= MaxInbound /\ MaxInbound \in Nat
  BY <1>1, AdmissionAssumption DEF TypeOK, InboxTypeOK
<1>4. admitted + 1 <= last + 1
  BY <1>1, <1>2, <1>3 DEF CountInv, TypeOK
<1>5. admitted + 1 \in Attempts
  BY <1>3, <1>4 DEF Attempts
<1> QED
  BY <1>1, <1>3, <1>5 DEF ThreadInv

\* publish_attempt gives the conversation to a thread that was parked.
Publishes(t) ==
    /\ admitted + 1 \in Attempts /\ pc[admitted + 1] = "parked" /\ t # admitted + 1
    /\ admitted' = admitted + 1 /\ slot' = "attempt" /\ cancelled' = FALSE /\ probe' = FALSE
    /\ admitted' \in 0..(MaxInbound + 1)
    /\ pc' \in [Threads -> Steps]
    /\ pc'[admitted + 1] = "run" /\ pc'[t] = After(t)
    /\ \A u \in Threads : u # t /\ u # admitted + 1 => pc'[u] = pc[u]

LEMMA PublishEffects ==
    ASSUME AdmissionInv, NEW t \in Threads, pc[t] # "parked", waiting # {} \/ continuation, Publish(t)
    PROVE  Publishes(t)
<1>1. admitted + 1 \in Attempts /\ pc[admitted + 1] = "parked" /\ pc \in [Threads -> Steps]
  BY NextAttempt DEF AdmissionInv, TypeOK
<1>2. admitted + 1 \in Threads /\ After(t) \in Steps /\ "run" \in Steps
  BY <1>1, ThreadNames, AfterIs DEF Steps
<1>3. pc' = [pc EXCEPT ![t] = After(t), ![admitted + 1] = "run"]
  BY DEF Publish
<1>4. admitted' \in 0..(MaxInbound + 1)
  BY <1>1, AdmissionAssumption DEF Publish, Attempts
<1> QED
  BY <1>1, <1>2, <1>3, <1>4 DEF Publish, Publishes

\* The new attempt is the only owner: the pass that publishes it found the slot
\* empty and holds the coordinator lock.
LEMMA PublishKeeps ==
    ASSUME AdmissionInv, NEW t \in Threads, Publishes(t), slot = "none",
           pc[t] = "admitting" \/ (pc[t] = "handoff" /\ LockFree)
    PROVE  ThreadInv' /\ Owners' = {admitted + 1}
<1>1. ThreadInv /\ OwnerInv /\ TypeOK
  BY DEF AdmissionInv
<1>2. admitted \in Nat /\ admitted + 1 \in Attempts /\ pc' \in [Threads -> Steps]
  BY <1>1, AdmissionAssumption DEF Publishes, TypeOK
<1>3. ThreadInv'
  <2>1. ASSUME NEW n \in Attempts
        PROVE  /\ pc'[n] \in {"parked", "run", "selected", "broken", "handoff", "admitting",
                              "exit", "gone"}
               /\ n > admitted' => pc'[n] = "parked"
    <3>1. /\ pc[n] \in {"parked", "run", "selected", "broken", "handoff", "admitting", "exit",
                        "gone"}
          /\ n > admitted => pc[n] = "parked"
      BY <1>1 DEF ThreadInv
    <3>2. CASE n = admitted + 1
      BY <1>2, <3>2 DEF Publishes
    <3>3. CASE n = t
      BY <1>2, <3>1, <3>3, ThreadNames, AfterIs DEF Publishes
    <3>4. CASE n # admitted + 1 /\ n # t
      <4>1. pc'[n] = pc[n]
        BY <3>4, ThreadNames DEF Publishes
      <4>2. n > admitted' => n > admitted
        BY <1>2, ThreadNames DEF Publishes
      <4> QED
        BY <3>1, <4>1, <4>2
    <3> QED
      BY <3>2, <3>3, <3>4
  <2>2. ASSUME NEW u \in {Worker, Activator, Compactor, Scheduler}
        PROVE  pc'[u] = pc[u] \/ (u = t /\ pc'[u] = After(u))
    BY ThreadNames DEF Publishes
  <2>3. t # Scheduler
    BY <1>1 DEF ThreadInv
  <2> QED
    BY <1>1, <2>1, <2>2, <2>3, ThreadNames, AfterIs DEF ThreadInv
<1>4. Owners \subseteq {t}
  BY <1>1, ThreadNames DEF OwnerInv, Owners, SlotOf, LockFree
<1>5. \A u \in Threads : u # admitted + 1 => u \notin Owners'
  BY <1>2, <1>4, ThreadNames, AfterIs DEF Owners, Publishes
<1>6. admitted + 1 \in Owners'
  BY <1>2, ThreadNames DEF Owners, Publishes
<1> QED
  BY <1>3, <1>5, <1>6 DEF Owners

\* What is accepted has a number within the bound.
LEMMA AcceptFits ==
    ASSUME AdmissionInv, Room \/ \E j \in Jobs : job[j] \in {"running", "retrying"}
    PROVE  last + 1 \in 0..MaxInbound
<1>1. TypeOK /\ CountInv
  BY DEF AdmissionInv
<1>2. IsFiniteSet(Silent) /\ Cardinality(Silent) \in Nat /\ last \in Nat /\ MaxInbound \in Nat
  BY <1>1, CountsAreNat, AdmissionAssumption DEF TypeOK, InboxTypeOK
<1>3. CASE Room
  BY <1>2, <1>3 DEF Room, Silent
<1>4. ASSUME NEW j \in Jobs, job[j] \in {"running", "retrying"}
      PROVE  last + 1 \in 0..MaxInbound
  <2>1. Silent # {}
    BY <1>4 DEF Silent
  <2>2. Cardinality(Silent) # 0
    BY <1>2, <2>1, FS_EmptySet
  <2> QED
    BY <1>1, <1>2, <2>2 DEF CountInv
<1> QED
  BY <1>3, <1>4

LEMMA AcceptKeepsInbox ==
    ASSUME AdmissionInv, last + 1 \in 0..MaxInbound, Accept, cut' = cut,
           fixed' = fixed \/ fixed' = fixed \cup {last + 1}
    PROVE  InboxTypeOK'
<1>1. InboxTypeOK /\ last \in Nat
  BY AdmissionAssumption DEF AdmissionInv, TypeOK, InboxTypeOK
<1>2. last' = last + 1 /\ waiting' = waiting \cup {last + 1}
  BY DEF Accept
<1>3. waiting' \subseteq 1..last' /\ cut' \in 0..last'
  BY <1>1, <1>2 DEF InboxTypeOK
<1>4. fixed' \subseteq waiting'
  BY <1>1, <1>2 DEF InboxTypeOK
<1> QED
  BY <1>2, <1>3, <1>4 DEF InboxTypeOK

\* What is taken out of the inbox, and what a job says, is counted.
LEMMA TakenIsCounted ==
    ASSUME TypeOK, NEW S \in SUBSET waiting
    PROVE  /\ Cardinality(waiting \ S) \in Nat
           /\ Cardinality(waiting \ S) <= Cardinality(waiting)
           /\ S # {} => Cardinality(waiting \ S) + 1 <= Cardinality(waiting)
<1>1. IsFiniteSet(waiting) /\ Cardinality(waiting) \in Nat
  BY CountsAreNat
<1>2. IsFiniteSet(waiting \ S) /\ Cardinality(waiting \ S) <= Cardinality(waiting)
  BY <1>1, FS_Subset
<1>3. Cardinality(waiting \ S) \in Nat
  BY <1>2, FS_CardinalityType
<1>4. S # {} => waiting # waiting \ S
  OBVIOUS
<1>5. S # {} => Cardinality(waiting) # Cardinality(waiting \ S)
  BY <1>1, <1>4, FS_Subset
<1> QED
  BY <1>1, <1>2, <1>3, <1>5

LEMMA SpokenIsCounted ==
    ASSUME TypeOK, NEW j \in Silent
    PROVE  /\ Cardinality(Silent \ {j}) \in Nat
           /\ Cardinality(Silent \ {j}) + 1 = Cardinality(Silent)
<1>1. IsFiniteSet(Silent) /\ Cardinality(Silent) \in Nat
  BY CountsAreNat
<1>2. IsFiniteSet(Silent \ {j}) /\ Cardinality(Silent \ {j}) = Cardinality(Silent) - 1
  BY <1>1, FS_RemoveElement
<1> QED
  BY <1>1, <1>2, FS_CardinalityType

LEMMA AcceptIsCounted ==
    ASSUME TypeOK, Accept
    PROVE  /\ Cardinality(waiting') = Cardinality(waiting) + 1
           /\ Cardinality(waiting) \in Nat /\ last \in Nat /\ last' = last + 1
<1>1. IsFiniteSet(waiting) /\ Cardinality(waiting) \in Nat
  BY CountsAreNat
<1>2. last \in Nat /\ last + 1 \notin waiting
  BY AdmissionAssumption DEF TypeOK, InboxTypeOK
<1>3. Cardinality(waiting \cup {last + 1}) = Cardinality(waiting) + 1
  BY <1>1, <1>2, FS_AddElement
<1> QED
  BY <1>1, <1>2, <1>3 DEF Accept

\* A message for which there is room, and the terminal of a job.
LEMMA AcceptKeepsCounts ==
    ASSUME AdmissionInv, Accept, UNCHANGED <<admitted, continuation>>,
           \/ Room /\ UNCHANGED job
           \/ \E j \in Silent : Silent' = Silent \ {j}
    PROVE  CountInv'
<1>1. TypeOK /\ CountInv
  BY DEF AdmissionInv
<1>2. Cardinality(Silent) \in Nat /\ MaxInbound \in Nat /\ admitted \in Nat
  BY <1>1, CountsAreNat, AdmissionAssumption DEF TypeOK
<1>3. /\ Cardinality(waiting') = Cardinality(waiting) + 1
      /\ Cardinality(waiting) \in Nat /\ last \in Nat /\ last' = last + 1
  BY <1>1, AcceptIsCounted
<1>4. last' + Cardinality(Silent') <= MaxInbound
  <2>1. CASE Room /\ UNCHANGED job
    BY <1>2, <1>3, <2>1 DEF Room, Silent
  <2>2. ASSUME NEW j \in Silent, Silent' = Silent \ {j}
        PROVE  last' + Cardinality(Silent') <= MaxInbound
    BY <1>1, <1>2, <1>3, <2>2, SpokenIsCounted DEF CountInv
  <2> QED
    BY <2>1, <2>2
<1>5. admitted' + Cardinality(waiting') + (IF continuation' THEN 1 ELSE 0) <= last' + 1
  BY <1>1, <1>2, <1>3 DEF CountInv
<1> QED
  BY <1>4, <1>5 DEF CountInv

\* An attempt that takes a message or the recovered turn, or one that takes
\* messages into its own turn.
LEMMA TakeKeepsCounts ==
    ASSUME AdmissionInv, NEW S \in SUBSET waiting, waiting' = waiting \ S,
           UNCHANGED <<last, job>>,
           \/ UNCHANGED <<admitted, continuation>>
           \/ /\ admitted' = admitted + 1 /\ continuation' = FALSE
              /\ S # {} \/ continuation
    PROVE  CountInv'
<1>1. TypeOK /\ CountInv
  BY DEF AdmissionInv
<1>2. /\ Cardinality(waiting) \in Nat /\ MaxInbound \in Nat /\ admitted \in Nat
      /\ last \in Nat
  BY <1>1, CountsAreNat, AdmissionAssumption DEF TypeOK, InboxTypeOK
<1>3. /\ Cardinality(waiting') \in Nat /\ Cardinality(waiting') <= Cardinality(waiting)
      /\ S # {} => Cardinality(waiting') + 1 <= Cardinality(waiting)
  BY <1>1, TakenIsCounted
<1>4. Silent' = Silent
  BY DEF Silent
<1>5. admitted' + Cardinality(waiting') + (IF continuation' THEN 1 ELSE 0) <= last' + 1
  BY <1>1, <1>2, <1>3 DEF CountInv
<1> QED
  BY <1>1, <1>4, <1>5 DEF CountInv

\* A selection takes the last number that waits.
LEMMA CutIsWaiting ==
    ASSUME AdmissionInv, waiting # {}
    PROVE  Max(waiting) \in waiting /\ Max(waiting) \in 0..last
<1>1. last \in Nat /\ waiting \in SUBSET (1..last)
  BY AdmissionAssumption DEF AdmissionInv, TypeOK, InboxTypeOK
<1>2. PICK m \in waiting : m = Max(waiting)
  BY <1>1, MaxIsMember
<1>3. m \in 0..last
  BY <1>1
<1> QED
  BY <1>2, <1>3

\* The accounts of storage errors, when the store refuses.
LEMMA ErrorsAreCounted ==
    ASSUME AdmissionInv, Persistent \/ \E stage \in Stages : Transient(stage)
    PROVE  HealthTypeOK'
<1>1. HealthTypeOK /\ faults.cycle <= faults.total
  BY DEF AdmissionInv, TypeOK, FaultInv
<1>2. MaxFaults \in Nat /\ faults.total \in Nat /\ faults.cycle \in Nat
  BY <1>1, AdmissionAssumption DEF HealthTypeOK
<1>3. CASE Persistent
  BY <1>1, <1>2, <1>3 DEF Persistent, Fault, HealthTypeOK
<1>4. ASSUME NEW stage \in Stages, Transient(stage)
      PROVE  HealthTypeOK'
  <2>1. faults' \in [total : 0..MaxFaults, cycle : 0..MaxFaults]
    BY <1>1, <1>2, <1>4 DEF Transient
  <2>2. cycle' \in [used : SUBSET Stages, retry : Stages \cup {"none"}]
    BY <1>1, <1>4 DEF Transient, HealthTypeOK
  <2> QED
    BY <2>1, <2>2 DEF HealthTypeOK
<1> QED
  BY <1>3, <1>4

-----------------------------------------------------------------------------
LEMMA AdmissionInit == Init => AdmissionInv
<1> SUFFICES ASSUME Init PROVE AdmissionInv
  OBVIOUS
<1>1. Cardinality(Jobs) \in Nat /\ MaxInbound \in Nat /\ last \in Nat
  BY AdmissionAssumption, FS_CardinalityType DEF Init
<1>2. last <= MaxInbound /\ last + Cardinality(Jobs) <= MaxInbound
  BY <1>1, AdmissionAssumption DEF Init
<1>3. TypeOK
  <2>1. InboxTypeOK
    BY <1>1, <1>2 DEF Init, InboxTypeOK
  <2>2. pc \in [Threads -> Steps] /\ job \in [Jobs -> JobSteps] /\ drain \in DrainSteps
    BY DEF Init, Steps, JobSteps, DrainSteps
  <2>3. admitted \in 0..(MaxInbound + 1) /\ rounds \in 0..MaxRounds /\ available \in BOOLEAN
    <3>1. rounds \in 0..MaxRounds /\ available \in BOOLEAN
      BY DEF Init
    <3> QED
      BY <1>1, <3>1 DEF Init
  <2>4. faults \in [total : 0..MaxFaults, cycle : 0..MaxFaults]
    BY AdmissionAssumption DEF Init
  <2> QED
    BY <2>1, <2>2, <2>3, <2>4 DEF Init, TypeOK, FlagTypeOK, HealthTypeOK
<1>4. ThreadInv
  BY ThreadNames DEF Init, ThreadInv
<1>5. OwnerInv
  BY DEF Init, OwnerInv, Owners
<1>6. CountInv
  <2>1. Cardinality(waiting) = last
    BY <1>1, FS_Interval DEF Init
  <2>2. Silent = Jobs
    BY DEF Init, Silent
  <2> QED
    BY <1>1, <1>2, <2>1, <2>2 DEF Init, CountInv
<1>7. FaultInv
  BY DEF Init, FaultInv
<1>8. DrainInv /\ ProbeInv
  BY DEF Init, DrainInv, ProbeInv
<1>9. WorkInv
  BY ThreadNames DEF Init, WorkInv, PassIsDue
<1> QED
  BY <1>3, <1>4, <1>5, <1>6, <1>7, <1>8, <1>9 DEF AdmissionInv

\* Each action keeps the flags.
LEMMA FlagsKept ==
    ASSUME AdmissionInv, [Next]_vars
    PROVE  FlagTypeOK'
<1> USE DEF TypeOK, FlagTypeOK, wakeVars, inboxVars, owedVars, healthVars, sideVars
<1> /\ TypeOK /\ ThreadInv /\ OwnerInv /\ CountInv /\ FaultInv /\ DrainInv /\ ProbeInv
    /\ WorkInv
  BY DEF AdmissionInv
<1>1. ASSUME NEW t \in Threads, AdmitNextAttempt(t)
      PROVE  FlagTypeOK'
  <2>1. /\ pc[t] = "handoff" /\ LockFree
        /\ UNCHANGED <<lifecycle, closed, available, sideVars, job, drain>>
    BY <1>1 DEF AdmitNextAttempt
  <2>2. CASE PassRefused(t)
    BY <2>1, <2>2 DEF PassRefused, Return
  <2>3. CASE PassFails(t)
    BY <2>1, <2>3 DEF PassFails, Return, Transient, Persistent, Fault, Wake, MayAdmit
  <2>4. CASE PassSelects(t)
    BY <2>1, <2>4 DEF PassSelects, Succeeded, MayAdmit
  <2>5. CASE PassContinues(t)
    BY <2>1, <2>5, PublishEffects DEF PassContinues, CompleteCycle, Publishes, MayAdmit
  <2>6. CASE PassIdle(t)
    BY <2>1, <2>6 DEF PassIdle, Return, CompleteCycle, Accept, Wake, MayAdmit
  <2>7. CASE PassGoalFails(t)
    BY <2>1, <2>7 DEF PassGoalFails, Return, MayAdmit
  <2> QED
    BY <1>1, <2>2, <2>3, <2>4, <2>5, <2>6, <2>7 DEF AdmitNextAttempt
<1>2. ASSUME NEW t \in Threads, Adopt(t)
      PROVE  FlagTypeOK'
  <2>1. /\ pc[t] = "admitting" /\ cut' = 0
        /\ UNCHANGED <<lifecycle, closed, rounds, available, sideVars, job, drain>>
    BY <1>2 DEF Adopt
  <2>2. CASE AdoptionFails(t)
    BY <2>1, <2>2 DEF AdoptionFails, Return, Transient, Persistent, Fault, Wake
  <2>3. CASE AdoptsNothing(t)
    BY <2>1, <2>3 DEF AdoptsNothing, Return, CompleteCycle, Wake
  <2>4. CASE AdoptsBatch(t)
    BY <2>1, <2>4, PublishEffects DEF AdoptsBatch, CompleteCycle, Publishes, Adoptable
  <2> QED
    BY <1>2, <2>2, <2>3, <2>4 DEF Adopt
<1>3. ASSUME NEW n \in Attempts, BoundarySelect(n)
      PROVE  FlagTypeOK'
  BY <1>3 DEF BoundarySelect
<1>4. ASSUME NEW n \in Attempts, BoundaryAdopt(n)
      PROVE  FlagTypeOK'
  BY <1>4 DEF BoundaryAdopt, Adoptable
<1>5. ASSUME NEW n \in Attempts, AttemptBreaks(n)
      PROVE  FlagTypeOK'
  BY <1>5 DEF AttemptBreaks, Fault
<1>6. ASSUME NEW n \in Attempts, AttemptGrants(n)
      PROVE  FlagTypeOK'
  BY <1>6 DEF AttemptGrants
<1>7. ASSUME NEW n \in Attempts, NEW j \in Jobs, AttemptDetaches(n, j)
      PROVE  FlagTypeOK'
  BY <1>7 DEF AttemptDetaches
<1>8. ASSUME NEW n \in Attempts, FinishAttempt(n)
      PROVE  FlagTypeOK'
  BY <1>8 DEF FinishAttempt
<1>9. ASSUME NEW n \in Attempts, TaskExits(n)
      PROVE  FlagTypeOK'
  BY <1>9 DEF TaskExits
<1>10. ASSUME NEW j \in Jobs, JobCommits(j)
      PROVE  FlagTypeOK'
  BY <1>10 DEF JobCommits, Accept
<1>11. ASSUME NEW j \in Jobs, JobWakes(j)
      PROVE  FlagTypeOK'
  BY <1>11 DEF JobWakes, Wake
<1>12. ASSUME NEW j \in Jobs, JobSettles(j)
      PROVE  FlagTypeOK'
  BY <1>12 DEF JobSettles
<1>13. ASSUME NEW j \in Jobs, JobFails(j)
      PROVE  FlagTypeOK'
  BY <1>13 DEF JobFails, Fault
<1>14. CASE AdmitCompaction
  BY <1>14 DEF AdmitCompaction, MayAdmit, Persistent, Fault
<1>15. CASE FinishCompaction
  BY <1>15 DEF FinishCompaction, Persistent, Fault
<1>16. CASE CompactionExits
  BY <1>16 DEF CompactionExits, Wake
<1>17. ASSUME NEW t \in {Worker, Activator}, AdmitNextScheduled(t)
      PROVE  FlagTypeOK'
  BY <1>17 DEF AdmitNextScheduled, MayStart
<1>18. CASE FinishScheduled
  BY <1>18 DEF FinishScheduled
<1>19. CASE ScheduledExits
  BY <1>19 DEF ScheduledExits
<1>20. CASE ScheduledWakes
  BY <1>20 DEF ScheduledWakes, Wake
<1>21. CASE AcceptStart
  BY <1>21 DEF AcceptStart, Wake
<1>22. CASE DriverWakes
  BY <1>22 DEF DriverWakes, Wake
<1>23. CASE WorkerWakes
  BY <1>23 DEF WorkerWakes
<1>24. CASE WorkerReaps
  BY <1>24 DEF WorkerReaps, Wake
<1>25. CASE Submit
  BY <1>25 DEF Submit, Accept, Wake
<1>26. ASSUME NEW x \in waiting, Withdraw(x)
      PROVE  FlagTypeOK'
  BY <1>26 DEF Withdraw
<1>27. CASE Enqueue
  BY <1>27 DEF Enqueue, Accept
<1>28. CASE EnqueueWakes
  BY <1>28 DEF EnqueueWakes, Wake
<1>29. ASSUME NEW r \in 0..MaxRounds, ControlGoal(r)
      PROVE  FlagTypeOK'
  BY <1>29 DEF ControlGoal
<1>30. CASE ControlWakes
  BY <1>30 DEF ControlWakes, Wake
<1>31. CASE CancelAttempt
  BY <1>31 DEF CancelAttempt, Persistent, Fault
<1>32. CASE PublishCatalog
  BY <1>32 DEF PublishCatalog
<1>33. CASE SelectModel
  BY <1>33 DEF SelectModel, Wake
<1>34. CASE ProbeIdle
  BY <1>34 DEF ProbeIdle
<1>35. CASE ClaimIdle
  BY <1>35 DEF ClaimIdle
<1>36. CASE BeginDrain
  BY <1>36 DEF BeginDrain, Wake
<1>37. CASE Supervise
  BY <1>37 DEF Supervise, DrainJoinsTail, DrainWaits, DrainFails, DrainDecides, Wake
<1>38. CASE UNCHANGED vars
  BY <1>38 DEF vars
<1> QED
  BY <1>1, <1>2, <1>3, <1>4, <1>5, <1>6, <1>7, <1>8, <1>9, <1>10, <1>11, <1>12, <1>13, <1>14,
     <1>15, <1>16, <1>17, <1>18, <1>19, <1>20, <1>21, <1>22, <1>23, <1>24, <1>25, <1>26,
     <1>27, <1>28, <1>29, <1>30, <1>31, <1>32, <1>33, <1>34, <1>35, <1>36, <1>37, <1>38
     DEF Next, Pass, AttemptStep, CompactionStep, ScheduleStep, SenderStep, JobStep,
         ClientStep, DrainStep

\* Each action keeps the accounts of storage errors.
LEMMA HealthKept ==
    ASSUME AdmissionInv, [Next]_vars
    PROVE  HealthTypeOK'
<1> USE AdmissionAssumption
    DEF TypeOK, HealthTypeOK, Stages, wakeVars, inboxVars, owedVars, healthVars, sideVars
<1> /\ TypeOK /\ ThreadInv /\ OwnerInv /\ CountInv /\ FaultInv /\ DrainInv /\ ProbeInv
    /\ WorkInv
  BY DEF AdmissionInv
<1>1. ASSUME NEW t \in Threads, AdmitNextAttempt(t)
      PROVE  HealthTypeOK'
  <2>1. /\ pc[t] = "handoff" /\ LockFree
        /\ UNCHANGED <<lifecycle, closed, available, sideVars, job, drain>>
    BY <1>1 DEF AdmitNextAttempt
  <2>2. CASE PassRefused(t)
    BY <2>1, <2>2 DEF PassRefused, Return
  <2>3. CASE PassFails(t)
    BY <2>1, <2>3, ErrorsAreCounted DEF PassFails
  <2>4. CASE PassSelects(t)
    BY <2>1, <2>4 DEF PassSelects, Succeeded, MayAdmit
  <2>5. CASE PassContinues(t)
    BY <2>1, <2>5, PublishEffects DEF PassContinues, CompleteCycle, Publishes, MayAdmit
  <2>6. CASE PassIdle(t)
    BY <2>1, <2>6 DEF PassIdle, Return, CompleteCycle, Accept, Wake, MayAdmit
  <2>7. CASE PassGoalFails(t)
    BY <2>1, <2>7 DEF PassGoalFails, Return, MayAdmit
  <2> QED
    BY <1>1, <2>2, <2>3, <2>4, <2>5, <2>6, <2>7 DEF AdmitNextAttempt
<1>2. ASSUME NEW t \in Threads, Adopt(t)
      PROVE  HealthTypeOK'
  <2>1. /\ pc[t] = "admitting" /\ cut' = 0
        /\ UNCHANGED <<lifecycle, closed, rounds, available, sideVars, job, drain>>
    BY <1>2 DEF Adopt
  <2>2. CASE AdoptionFails(t)
    BY <2>1, <2>2, ErrorsAreCounted DEF AdoptionFails
  <2>3. CASE AdoptsNothing(t)
    BY <2>1, <2>3 DEF AdoptsNothing, Return, CompleteCycle, Wake
  <2>4. CASE AdoptsBatch(t)
    BY <2>1, <2>4, PublishEffects DEF AdoptsBatch, CompleteCycle, Publishes, Adoptable
  <2> QED
    BY <1>2, <2>2, <2>3, <2>4 DEF Adopt
<1>3. ASSUME NEW n \in Attempts, BoundarySelect(n)
      PROVE  HealthTypeOK'
  BY <1>3 DEF BoundarySelect
<1>4. ASSUME NEW n \in Attempts, BoundaryAdopt(n)
      PROVE  HealthTypeOK'
  BY <1>4 DEF BoundaryAdopt, Adoptable
<1>5. ASSUME NEW n \in Attempts, AttemptBreaks(n)
      PROVE  HealthTypeOK'
  BY <1>5 DEF AttemptBreaks, Fault
<1>6. ASSUME NEW n \in Attempts, AttemptGrants(n)
      PROVE  HealthTypeOK'
  BY <1>6 DEF AttemptGrants
<1>7. ASSUME NEW n \in Attempts, NEW j \in Jobs, AttemptDetaches(n, j)
      PROVE  HealthTypeOK'
  BY <1>7 DEF AttemptDetaches
<1>8. ASSUME NEW n \in Attempts, FinishAttempt(n)
      PROVE  HealthTypeOK'
  BY <1>8 DEF FinishAttempt
<1>9. ASSUME NEW n \in Attempts, TaskExits(n)
      PROVE  HealthTypeOK'
  BY <1>9 DEF TaskExits
<1>10. ASSUME NEW j \in Jobs, JobCommits(j)
      PROVE  HealthTypeOK'
  BY <1>10 DEF JobCommits, Accept
<1>11. ASSUME NEW j \in Jobs, JobWakes(j)
      PROVE  HealthTypeOK'
  BY <1>11 DEF JobWakes, Wake
<1>12. ASSUME NEW j \in Jobs, JobSettles(j)
      PROVE  HealthTypeOK'
  BY <1>12 DEF JobSettles
<1>13. ASSUME NEW j \in Jobs, JobFails(j)
      PROVE  HealthTypeOK'
  BY <1>13 DEF JobFails, Fault
<1>14. CASE AdmitCompaction
  BY <1>14 DEF AdmitCompaction, MayAdmit, Persistent, Fault
<1>15. CASE FinishCompaction
  BY <1>15 DEF FinishCompaction, Persistent, Fault
<1>16. CASE CompactionExits
  BY <1>16 DEF CompactionExits, Wake
<1>17. ASSUME NEW t \in {Worker, Activator}, AdmitNextScheduled(t)
      PROVE  HealthTypeOK'
  BY <1>17 DEF AdmitNextScheduled, MayStart
<1>18. CASE FinishScheduled
  BY <1>18 DEF FinishScheduled
<1>19. CASE ScheduledExits
  BY <1>19 DEF ScheduledExits
<1>20. CASE ScheduledWakes
  BY <1>20 DEF ScheduledWakes, Wake
<1>21. CASE AcceptStart
  BY <1>21 DEF AcceptStart, Wake
<1>22. CASE DriverWakes
  BY <1>22 DEF DriverWakes, Wake
<1>23. CASE WorkerWakes
  BY <1>23 DEF WorkerWakes
<1>24. CASE WorkerReaps
  BY <1>24 DEF WorkerReaps, Wake
<1>25. CASE Submit
  BY <1>25 DEF Submit, Accept, Wake
<1>26. ASSUME NEW x \in waiting, Withdraw(x)
      PROVE  HealthTypeOK'
  BY <1>26 DEF Withdraw
<1>27. CASE Enqueue
  BY <1>27 DEF Enqueue, Accept
<1>28. CASE EnqueueWakes
  BY <1>28 DEF EnqueueWakes, Wake
<1>29. ASSUME NEW r \in 0..MaxRounds, ControlGoal(r)
      PROVE  HealthTypeOK'
  BY <1>29 DEF ControlGoal
<1>30. CASE ControlWakes
  BY <1>30 DEF ControlWakes, Wake
<1>31. CASE CancelAttempt
  BY <1>31 DEF CancelAttempt, Persistent, Fault
<1>32. CASE PublishCatalog
  BY <1>32 DEF PublishCatalog
<1>33. CASE SelectModel
  BY <1>33 DEF SelectModel, Wake
<1>34. CASE ProbeIdle
  BY <1>34 DEF ProbeIdle
<1>35. CASE ClaimIdle
  BY <1>35 DEF ClaimIdle
<1>36. CASE BeginDrain
  BY <1>36 DEF BeginDrain, Wake
<1>37. CASE Supervise
  BY <1>37 DEF Supervise, DrainJoinsTail, DrainWaits, DrainFails, DrainDecides, Wake
<1>38. CASE UNCHANGED vars
  BY <1>38 DEF vars
<1> QED
  BY <1>1, <1>2, <1>3, <1>4, <1>5, <1>6, <1>7, <1>8, <1>9, <1>10, <1>11, <1>12, <1>13, <1>14,
     <1>15, <1>16, <1>17, <1>18, <1>19, <1>20, <1>21, <1>22, <1>23, <1>24, <1>25, <1>26,
     <1>27, <1>28, <1>29, <1>30, <1>31, <1>32, <1>33, <1>34, <1>35, <1>36, <1>37, <1>38
     DEF Next, Pass, AttemptStep, CompactionStep, ScheduleStep, SenderStep, JobStep,
         ClientStep, DrainStep

\* Each action keeps the numbers of the inbox in order.
LEMMA InboxKept ==
    ASSUME AdmissionInv, [Next]_vars
    PROVE  InboxTypeOK'
<1> USE AdmissionAssumption
    DEF TypeOK, InboxTypeOK, wakeVars, inboxVars, owedVars, healthVars, sideVars
<1> /\ TypeOK /\ ThreadInv /\ OwnerInv /\ CountInv /\ FaultInv /\ DrainInv /\ ProbeInv
    /\ WorkInv
  BY DEF AdmissionInv
<1>1. ASSUME NEW t \in Threads, AdmitNextAttempt(t)
      PROVE  InboxTypeOK'
  <2>1. /\ pc[t] = "handoff" /\ LockFree
        /\ UNCHANGED <<lifecycle, closed, available, sideVars, job, drain>>
    BY <1>1 DEF AdmitNextAttempt
  <2>2. CASE PassRefused(t)
    BY <2>1, <2>2 DEF PassRefused, Return
  <2>3. CASE PassFails(t)
    BY <2>1, <2>3 DEF PassFails, Return, Transient, Persistent, Fault, Wake, MayAdmit
  <2>4. CASE PassSelects(t)
    BY <2>1, <2>4, CutIsWaiting DEF PassSelects
  <2>5. CASE PassContinues(t)
    BY <2>1, <2>5, PublishEffects DEF PassContinues, CompleteCycle, Publishes, MayAdmit
  <2>6. CASE PassIdle(t)
    <3>1. CASE rounds > 0 /\ Room /\ Accept
      BY <2>6, <3>1, AcceptFits, AcceptKeepsInbox DEF PassIdle
    <3>2. CASE UNCHANGED <<last, waiting>>
      BY <2>6, <3>2 DEF PassIdle
    <3> QED
      BY <2>6, <3>1, <3>2 DEF PassIdle
  <2>7. CASE PassGoalFails(t)
    BY <2>1, <2>7 DEF PassGoalFails, Return, MayAdmit
  <2> QED
    BY <1>1, <2>2, <2>3, <2>4, <2>5, <2>6, <2>7 DEF AdmitNextAttempt
<1>2. ASSUME NEW t \in Threads, Adopt(t)
      PROVE  InboxTypeOK'
  <2>1. /\ pc[t] = "admitting" /\ cut' = 0
        /\ UNCHANGED <<lifecycle, closed, rounds, available, sideVars, job, drain>>
    BY <1>2 DEF Adopt
  <2>2. CASE AdoptionFails(t)
    BY <2>1, <2>2 DEF AdoptionFails, Return, Transient, Persistent, Fault, Wake
  <2>3. CASE AdoptsNothing(t)
    BY <2>1, <2>3 DEF AdoptsNothing, Return, CompleteCycle, Wake
  <2>4. CASE AdoptsBatch(t)
    BY <2>1, <2>4, PublishEffects DEF AdoptsBatch, CompleteCycle, Publishes, Adoptable
  <2> QED
    BY <1>2, <2>2, <2>3, <2>4 DEF Adopt
<1>3. ASSUME NEW n \in Attempts, BoundarySelect(n)
      PROVE  InboxTypeOK'
  BY <1>3, CutIsWaiting DEF BoundarySelect
<1>4. ASSUME NEW n \in Attempts, BoundaryAdopt(n)
      PROVE  InboxTypeOK'
  <2>1. /\ waiting' = waiting \ Adoptable /\ fixed' = fixed \ Adoptable
        /\ last' = last /\ cut' = 0
    BY <1>4 DEF BoundaryAdopt
  <2>2. last \in Nat /\ 0 \in 0..last
    BY AdmissionAssumption
  <2> QED
    BY <2>1, <2>2
<1>5. ASSUME NEW n \in Attempts, AttemptBreaks(n)
      PROVE  InboxTypeOK'
  BY <1>5 DEF AttemptBreaks, Fault
<1>6. ASSUME NEW n \in Attempts, AttemptGrants(n)
      PROVE  InboxTypeOK'
  BY <1>6 DEF AttemptGrants
<1>7. ASSUME NEW n \in Attempts, NEW j \in Jobs, AttemptDetaches(n, j)
      PROVE  InboxTypeOK'
  BY <1>7 DEF AttemptDetaches
<1>8. ASSUME NEW n \in Attempts, FinishAttempt(n)
      PROVE  InboxTypeOK'
  BY <1>8 DEF FinishAttempt
<1>9. ASSUME NEW n \in Attempts, TaskExits(n)
      PROVE  InboxTypeOK'
  BY <1>9 DEF TaskExits
<1>10. ASSUME NEW j \in Jobs, JobCommits(j)
      PROVE  InboxTypeOK'
  BY <1>10, AcceptFits, AcceptKeepsInbox DEF JobCommits
<1>11. ASSUME NEW j \in Jobs, JobWakes(j)
      PROVE  InboxTypeOK'
  BY <1>11 DEF JobWakes, Wake
<1>12. ASSUME NEW j \in Jobs, JobSettles(j)
      PROVE  InboxTypeOK'
  BY <1>12 DEF JobSettles
<1>13. ASSUME NEW j \in Jobs, JobFails(j)
      PROVE  InboxTypeOK'
  BY <1>13 DEF JobFails, Fault
<1>14. CASE AdmitCompaction
  BY <1>14 DEF AdmitCompaction, MayAdmit, Persistent, Fault
<1>15. CASE FinishCompaction
  BY <1>15 DEF FinishCompaction, Persistent, Fault
<1>16. CASE CompactionExits
  BY <1>16 DEF CompactionExits, Wake
<1>17. ASSUME NEW t \in {Worker, Activator}, AdmitNextScheduled(t)
      PROVE  InboxTypeOK'
  BY <1>17 DEF AdmitNextScheduled, MayStart
<1>18. CASE FinishScheduled
  BY <1>18 DEF FinishScheduled
<1>19. CASE ScheduledExits
  BY <1>19 DEF ScheduledExits
<1>20. CASE ScheduledWakes
  BY <1>20 DEF ScheduledWakes, Wake
<1>21. CASE AcceptStart
  BY <1>21 DEF AcceptStart, Wake
<1>22. CASE DriverWakes
  BY <1>22 DEF DriverWakes, Wake
<1>23. CASE WorkerWakes
  BY <1>23 DEF WorkerWakes
<1>24. CASE WorkerReaps
  BY <1>24 DEF WorkerReaps, Wake
<1>25. CASE Submit
  BY <1>25, AcceptFits, AcceptKeepsInbox DEF Submit
<1>26. ASSUME NEW x \in waiting, Withdraw(x)
      PROVE  InboxTypeOK'
  BY <1>26 DEF Withdraw
<1>27. CASE Enqueue
  BY <1>27, AcceptFits, AcceptKeepsInbox DEF Enqueue
<1>28. CASE EnqueueWakes
  BY <1>28 DEF EnqueueWakes, Wake
<1>29. ASSUME NEW r \in 0..MaxRounds, ControlGoal(r)
      PROVE  InboxTypeOK'
  BY <1>29 DEF ControlGoal
<1>30. CASE ControlWakes
  BY <1>30 DEF ControlWakes, Wake
<1>31. CASE CancelAttempt
  BY <1>31 DEF CancelAttempt, Persistent, Fault
<1>32. CASE PublishCatalog
  BY <1>32 DEF PublishCatalog
<1>33. CASE SelectModel
  BY <1>33 DEF SelectModel, Wake
<1>34. CASE ProbeIdle
  BY <1>34 DEF ProbeIdle
<1>35. CASE ClaimIdle
  BY <1>35 DEF ClaimIdle
<1>36. CASE BeginDrain
  BY <1>36 DEF BeginDrain, Wake
<1>37. CASE Supervise
  BY <1>37 DEF Supervise, DrainJoinsTail, DrainWaits, DrainFails, DrainDecides, Wake
<1>38. CASE UNCHANGED vars
  BY <1>38 DEF vars
<1> QED
  BY <1>1, <1>2, <1>3, <1>4, <1>5, <1>6, <1>7, <1>8, <1>9, <1>10, <1>11, <1>12, <1>13, <1>14,
     <1>15, <1>16, <1>17, <1>18, <1>19, <1>20, <1>21, <1>22, <1>23, <1>24, <1>25, <1>26,
     <1>27, <1>28, <1>29, <1>30, <1>31, <1>32, <1>33, <1>34, <1>35, <1>36, <1>37, <1>38
     DEF Next, Pass, AttemptStep, CompactionStep, ScheduleStep, SenderStep, JobStep,
         ClientStep, DrainStep

\* Each action keeps the types.
LEMMA TypesKept ==
    ASSUME AdmissionInv, [Next]_vars, InboxTypeOK', FlagTypeOK', HealthTypeOK'
    PROVE  TypeOK'
<1> USE ThreadNames, AfterIs
    DEF TypeOK, Steps, JobSteps, DrainSteps, wakeVars, inboxVars, owedVars, healthVars, sideVars
<1> TypeOK
  BY DEF AdmissionInv
<1>1. ASSUME NEW t \in Threads, AdmitNextAttempt(t)
      PROVE  TypeOK'
  <2>1. /\ pc[t] = "handoff" /\ LockFree
        /\ UNCHANGED <<lifecycle, closed, available, sideVars, job, drain>>
    BY <1>1 DEF AdmitNextAttempt
  <2>2. CASE PassRefused(t)
    BY <2>1, <2>2 DEF PassRefused, Return
  <2>3. CASE PassFails(t)
    BY <2>1, <2>3 DEF PassFails, Return, Transient, Persistent, Fault, Wake, MayAdmit
  <2>4. CASE PassSelects(t)
    BY <2>1, <2>4 DEF PassSelects, Succeeded, MayAdmit
  <2>5. CASE PassContinues(t)
    <3>1. Publishes(t)
      BY <2>1, <2>5, PublishEffects DEF PassContinues
    <3>2. UNCHANGED <<inboxVars, cut, permits, rounds, failed>>
      BY <2>5 DEF PassContinues
    <3> QED
      BY <2>1, <3>1, <3>2 DEF Publishes
  <2>6. CASE PassIdle(t)
    <3>1. rounds' \in 0..MaxRounds
      BY <2>6, AdmissionAssumption DEF PassIdle
    <3>2. permits' \subseteq {"runtime", "mailbox"}
      BY <2>6 DEF PassIdle, Wake
    <3> QED
      BY <2>1, <2>6, <3>1, <3>2 DEF PassIdle, Return
  <2>7. CASE PassGoalFails(t)
    BY <2>1, <2>7 DEF PassGoalFails, Return, MayAdmit
  <2> QED
    BY <1>1, <2>2, <2>3, <2>4, <2>5, <2>6, <2>7 DEF AdmitNextAttempt
<1>2. ASSUME NEW t \in Threads, Adopt(t)
      PROVE  TypeOK'
  <2>1. /\ pc[t] = "admitting" /\ cut' = 0
        /\ UNCHANGED <<lifecycle, closed, rounds, available, sideVars, job, drain>>
    BY <1>2 DEF Adopt
  <2>2. CASE AdoptionFails(t)
    BY <2>1, <2>2 DEF AdoptionFails, Return, Transient, Persistent, Fault, Wake
  <2>3. CASE AdoptsNothing(t)
    BY <2>1, <2>3 DEF AdoptsNothing, Return, CompleteCycle, Wake
  <2>4. CASE AdoptsBatch(t)
    <3>1. Publishes(t) /\ permits' = permits
      BY <2>1, <2>4, PublishEffects DEF AdoptsBatch, Adoptable
    <3> QED
      BY <2>1, <3>1 DEF Publishes
  <2> QED
    BY <1>2, <2>2, <2>3, <2>4 DEF Adopt
<1>3. ASSUME NEW n \in Attempts, BoundarySelect(n)
      PROVE  TypeOK'
  BY <1>3 DEF BoundarySelect
<1>4. ASSUME NEW n \in Attempts, BoundaryAdopt(n)
      PROVE  TypeOK'
  BY <1>4 DEF BoundaryAdopt, Adoptable
<1>5. ASSUME NEW n \in Attempts, AttemptBreaks(n)
      PROVE  TypeOK'
  BY <1>5 DEF AttemptBreaks, Fault
<1>6. ASSUME NEW n \in Attempts, AttemptGrants(n)
      PROVE  TypeOK'
  BY <1>6 DEF AttemptGrants
<1>7. ASSUME NEW n \in Attempts, NEW j \in Jobs, AttemptDetaches(n, j)
      PROVE  TypeOK'
  BY <1>7 DEF AttemptDetaches
<1>8. ASSUME NEW n \in Attempts, FinishAttempt(n)
      PROVE  TypeOK'
  BY <1>8 DEF FinishAttempt
<1>9. ASSUME NEW n \in Attempts, TaskExits(n)
      PROVE  TypeOK'
  BY <1>9 DEF TaskExits
<1>10. ASSUME NEW j \in Jobs, JobCommits(j)
      PROVE  TypeOK'
  BY <1>10 DEF JobCommits, Accept
<1>11. ASSUME NEW j \in Jobs, JobWakes(j)
      PROVE  TypeOK'
  BY <1>11 DEF JobWakes, Wake
<1>12. ASSUME NEW j \in Jobs, JobSettles(j)
      PROVE  TypeOK'
  BY <1>12 DEF JobSettles
<1>13. ASSUME NEW j \in Jobs, JobFails(j)
      PROVE  TypeOK'
  BY <1>13 DEF JobFails, Fault
<1>14. CASE AdmitCompaction
  BY <1>14 DEF AdmitCompaction, MayAdmit, Persistent, Fault
<1>15. CASE FinishCompaction
  BY <1>15 DEF FinishCompaction, Persistent, Fault
<1>16. CASE CompactionExits
  BY <1>16 DEF CompactionExits, Wake
<1>17. ASSUME NEW t \in {Worker, Activator}, AdmitNextScheduled(t)
      PROVE  TypeOK'
  BY <1>17 DEF AdmitNextScheduled, MayStart
<1>18. CASE FinishScheduled
  BY <1>18 DEF FinishScheduled
<1>19. CASE ScheduledExits
  BY <1>19 DEF ScheduledExits
<1>20. CASE ScheduledWakes
  BY <1>20 DEF ScheduledWakes, Wake
<1>21. CASE AcceptStart
  BY <1>21 DEF AcceptStart, Wake
<1>22. CASE DriverWakes
  BY <1>22 DEF DriverWakes, Wake
<1>23. CASE WorkerWakes
  <2>1. pc' \in [Threads -> Steps]
    BY <1>23 DEF WorkerWakes
  <2>2. permits' \subseteq {"runtime", "mailbox"}
    BY <1>23 DEF WorkerWakes
  <2> QED
    BY <1>23, <2>1, <2>2 DEF WorkerWakes
<1>24. CASE WorkerReaps
  BY <1>24 DEF WorkerReaps, Wake
<1>25. CASE Submit
  BY <1>25 DEF Submit, Accept, Wake
<1>26. ASSUME NEW x \in waiting, Withdraw(x)
      PROVE  TypeOK'
  BY <1>26 DEF Withdraw
<1>27. CASE Enqueue
  BY <1>27 DEF Enqueue, Accept
<1>28. CASE EnqueueWakes
  BY <1>28 DEF EnqueueWakes, Wake
<1>29. ASSUME NEW r \in 0..MaxRounds, ControlGoal(r)
      PROVE  TypeOK'
  BY <1>29 DEF ControlGoal
<1>30. CASE ControlWakes
  BY <1>30 DEF ControlWakes, Wake
<1>31. CASE CancelAttempt
  <2>1. rounds' \in 0..MaxRounds
    BY <1>31, AdmissionAssumption DEF CancelAttempt
  <2>2. permits' = permits
    BY <1>31 DEF CancelAttempt, Persistent
  <2> QED
    BY <1>31, <2>1, <2>2 DEF CancelAttempt
<1>32. CASE PublishCatalog
  BY <1>32 DEF PublishCatalog
<1>33. CASE SelectModel
  BY <1>33 DEF SelectModel, Wake
<1>34. CASE ProbeIdle
  BY <1>34 DEF ProbeIdle
<1>35. CASE ClaimIdle
  BY <1>35 DEF ClaimIdle
<1>36. CASE BeginDrain
  BY <1>36 DEF BeginDrain, Wake
<1>37. CASE Supervise
  <2>1. CASE DrainJoinsTail /\ UNCHANGED lifecycle
    BY <1>37, <2>1 DEF Supervise, DrainJoinsTail, Wake
  <2>2. CASE DrainWaits /\ UNCHANGED lifecycle
    BY <1>37, <2>2 DEF Supervise, DrainWaits
  <2>3. CASE DrainFails
    BY <1>37, <2>3 DEF Supervise, DrainFails
  <2>4. CASE DrainDecides
    BY <1>37, <2>4 DEF Supervise, DrainDecides
  <2> QED
    BY <1>37, <2>1, <2>2, <2>3, <2>4 DEF Supervise
<1>38. CASE UNCHANGED vars
  BY <1>38 DEF vars
<1> QED
  BY <1>1, <1>2, <1>3, <1>4, <1>5, <1>6, <1>7, <1>8, <1>9, <1>10, <1>11, <1>12, <1>13, <1>14,
     <1>15, <1>16, <1>17, <1>18, <1>19, <1>20, <1>21, <1>22, <1>23, <1>24, <1>25, <1>26,
     <1>27, <1>28, <1>29, <1>30, <1>31, <1>32, <1>33, <1>34, <1>35, <1>36, <1>37, <1>38
     DEF Next, Pass, AttemptStep, CompactionStep, ScheduleStep, SenderStep, JobStep,
         ClientStep, DrainStep

\* Each action keeps every thread within its own steps.
LEMMA ThreadsKept ==
    ASSUME AdmissionInv, [Next]_vars
    PROVE  ThreadInv'
<1> USE ThreadNames, AfterIs
    DEF TypeOK, ThreadInv, wakeVars, inboxVars, owedVars, healthVars, sideVars
<1> /\ TypeOK /\ ThreadInv /\ OwnerInv /\ CountInv /\ FaultInv /\ DrainInv /\ ProbeInv
    /\ WorkInv
  BY DEF AdmissionInv
<1>1. ASSUME NEW t \in Threads, AdmitNextAttempt(t)
      PROVE  ThreadInv'
  <2>1. /\ pc[t] = "handoff" /\ LockFree
        /\ UNCHANGED <<lifecycle, closed, available, sideVars, job, drain>>
    BY <1>1 DEF AdmitNextAttempt
  <2>2. CASE PassRefused(t)
    BY <2>1, <2>2 DEF PassRefused, Return
  <2>3. CASE PassFails(t)
    BY <2>1, <2>3 DEF PassFails, Return, Transient, Persistent, Fault, Wake, MayAdmit
  <2>4. CASE PassSelects(t)
    BY <2>1, <2>4 DEF PassSelects, Succeeded, MayAdmit
  <2>5. CASE PassContinues(t)
    <3>1. Publishes(t)
      BY <2>1, <2>5, PublishEffects DEF PassContinues
    <3>2. slot = "none"
      BY <2>1, <2>5 DEF PassContinues, MayAdmit, OwnerInv, Owners, SlotOf
    <3> QED
      BY <2>1, <3>1, <3>2, PublishKeeps
  <2>6. CASE PassIdle(t)
    BY <2>1, <2>6 DEF PassIdle, Return, CompleteCycle, Accept, Wake, MayAdmit
  <2>7. CASE PassGoalFails(t)
    BY <2>1, <2>7 DEF PassGoalFails, Return, MayAdmit
  <2> QED
    BY <1>1, <2>2, <2>3, <2>4, <2>5, <2>6, <2>7 DEF AdmitNextAttempt
<1>2. ASSUME NEW t \in Threads, Adopt(t)
      PROVE  ThreadInv'
  <2>1. /\ pc[t] = "admitting" /\ cut' = 0
        /\ UNCHANGED <<lifecycle, closed, rounds, available, sideVars, job, drain>>
    BY <1>2 DEF Adopt
  <2>2. CASE AdoptionFails(t)
    BY <2>1, <2>2 DEF AdoptionFails, Return, Transient, Persistent, Fault, Wake
  <2>3. CASE AdoptsNothing(t)
    BY <2>1, <2>3 DEF AdoptsNothing, Return, CompleteCycle, Wake
  <2>4. CASE AdoptsBatch(t)
    <3>1. Publishes(t)
      BY <2>1, <2>4, PublishEffects DEF AdoptsBatch, Adoptable
    <3>2. slot = "none"
      BY <2>1, <2>4 DEF AdoptsBatch, OwnerInv, Owners, SlotOf
    <3> QED
      BY <2>1, <3>1, <3>2, PublishKeeps
  <2> QED
    BY <1>2, <2>2, <2>3, <2>4 DEF Adopt
<1>3. ASSUME NEW n \in Attempts, BoundarySelect(n)
      PROVE  ThreadInv'
  BY <1>3 DEF BoundarySelect
<1>4. ASSUME NEW n \in Attempts, BoundaryAdopt(n)
      PROVE  ThreadInv'
  BY <1>4 DEF BoundaryAdopt, Adoptable
<1>5. ASSUME NEW n \in Attempts, AttemptBreaks(n)
      PROVE  ThreadInv'
  BY <1>5 DEF AttemptBreaks, Fault
<1>6. ASSUME NEW n \in Attempts, AttemptGrants(n)
      PROVE  ThreadInv'
  BY <1>6 DEF AttemptGrants
<1>7. ASSUME NEW n \in Attempts, NEW j \in Jobs, AttemptDetaches(n, j)
      PROVE  ThreadInv'
  BY <1>7 DEF AttemptDetaches
<1>8. ASSUME NEW n \in Attempts, FinishAttempt(n)
      PROVE  ThreadInv'
  BY <1>8 DEF FinishAttempt
<1>9. ASSUME NEW n \in Attempts, TaskExits(n)
      PROVE  ThreadInv'
  BY <1>9 DEF TaskExits
<1>10. ASSUME NEW j \in Jobs, JobCommits(j)
      PROVE  ThreadInv'
  BY <1>10 DEF JobCommits, Accept
<1>11. ASSUME NEW j \in Jobs, JobWakes(j)
      PROVE  ThreadInv'
  BY <1>11 DEF JobWakes, Wake
<1>12. ASSUME NEW j \in Jobs, JobSettles(j)
      PROVE  ThreadInv'
  BY <1>12 DEF JobSettles
<1>13. ASSUME NEW j \in Jobs, JobFails(j)
      PROVE  ThreadInv'
  BY <1>13 DEF JobFails, Fault
<1>14. CASE AdmitCompaction
  BY <1>14 DEF AdmitCompaction, MayAdmit, Persistent, Fault
<1>15. CASE FinishCompaction
  BY <1>15 DEF FinishCompaction, Persistent, Fault
<1>16. CASE CompactionExits
  BY <1>16 DEF CompactionExits, Wake
<1>17. ASSUME NEW t \in {Worker, Activator}, AdmitNextScheduled(t)
      PROVE  ThreadInv'
  <2>1. CASE MayStart
    <3>1. /\ t \in Threads /\ pc[t] = "schedule" /\ pc[Scheduler] = "parked"
          /\ slot = "none" /\ slot' = "scheduled"
          /\ pc' = [pc EXCEPT ![t] = After(t), ![Scheduler] = "run"]
          /\ UNCHANGED <<lifecycle, admitted, cancelled, inboxVars, cut, wakeVars,
                         owedVars, available, healthVars, sideVars, job, drain>>
      BY <1>17, <2>1 DEF AdmitNextScheduled, MayStart
    <3> QED
      BY <3>1
  <2>2. CASE ~MayStart
    BY <1>17, <2>2 DEF AdmitNextScheduled
  <2> QED
    BY <2>1, <2>2
<1>18. CASE FinishScheduled
  BY <1>18 DEF FinishScheduled
<1>19. CASE ScheduledExits
  BY <1>19 DEF ScheduledExits
<1>20. CASE ScheduledWakes
  BY <1>20 DEF ScheduledWakes, Wake
<1>21. CASE AcceptStart
  BY <1>21 DEF AcceptStart, Wake
<1>22. CASE DriverWakes
  BY <1>22 DEF DriverWakes, Wake
<1>23. CASE WorkerWakes
  BY <1>23 DEF WorkerWakes
<1>24. CASE WorkerReaps
  BY <1>24 DEF WorkerReaps, Wake
<1>25. CASE Submit
  BY <1>25 DEF Submit, Accept, Wake
<1>26. ASSUME NEW x \in waiting, Withdraw(x)
      PROVE  ThreadInv'
  BY <1>26 DEF Withdraw
<1>27. CASE Enqueue
  BY <1>27 DEF Enqueue, Accept
<1>28. CASE EnqueueWakes
  BY <1>28 DEF EnqueueWakes, Wake
<1>29. ASSUME NEW r \in 0..MaxRounds, ControlGoal(r)
      PROVE  ThreadInv'
  BY <1>29 DEF ControlGoal
<1>30. CASE ControlWakes
  BY <1>30 DEF ControlWakes, Wake
<1>31. CASE CancelAttempt
  BY <1>31 DEF CancelAttempt, Persistent, Fault
<1>32. CASE PublishCatalog
  BY <1>32 DEF PublishCatalog
<1>33. CASE SelectModel
  BY <1>33 DEF SelectModel, Wake
<1>34. CASE ProbeIdle
  BY <1>34 DEF ProbeIdle
<1>35. CASE ClaimIdle
  BY <1>35 DEF ClaimIdle
<1>36. CASE BeginDrain
  BY <1>36 DEF BeginDrain, Wake
<1>37. CASE Supervise
  <2>1. CASE DrainJoinsTail /\ UNCHANGED lifecycle
    BY <1>37, <2>1 DEF Supervise, DrainJoinsTail, Wake
  <2>2. CASE DrainWaits /\ UNCHANGED lifecycle
    BY <1>37, <2>2 DEF Supervise, DrainWaits
  <2>3. CASE DrainFails
    BY <1>37, <2>3 DEF Supervise, DrainFails
  <2>4. CASE DrainDecides
    BY <1>37, <2>4 DEF Supervise, DrainDecides
  <2> QED
    BY <1>37, <2>1, <2>2, <2>3, <2>4 DEF Supervise
<1>38. CASE UNCHANGED vars
  BY <1>38 DEF vars
<1> QED
  BY <1>1, <1>2, <1>3, <1>4, <1>5, <1>6, <1>7, <1>8, <1>9, <1>10, <1>11, <1>12, <1>13, <1>14,
     <1>15, <1>16, <1>17, <1>18, <1>19, <1>20, <1>21, <1>22, <1>23, <1>24, <1>25, <1>26,
     <1>27, <1>28, <1>29, <1>30, <1>31, <1>32, <1>33, <1>34, <1>35, <1>36, <1>37, <1>38
     DEF Next, Pass, AttemptStep, CompactionStep, ScheduleStep, SenderStep, JobStep,
         ClientStep, DrainStep

\* Each action keeps at most one owner of the conversation state.
LEMMA OwnersKept ==
    ASSUME AdmissionInv, [Next]_vars
    PROVE  OwnerInv'
<1> USE ThreadNames, AfterIs
    DEF TypeOK, ThreadInv, OwnerInv, Owners, SlotOf, LockFree, wakeVars, inboxVars, owedVars,
        healthVars, sideVars
<1> /\ TypeOK /\ ThreadInv /\ OwnerInv /\ CountInv /\ FaultInv /\ DrainInv /\ ProbeInv
    /\ WorkInv
  BY DEF AdmissionInv
<1>1. ASSUME NEW t \in Threads, AdmitNextAttempt(t)
      PROVE  OwnerInv'
  <2>1. /\ pc[t] = "handoff" /\ LockFree
        /\ UNCHANGED <<lifecycle, closed, available, sideVars, job, drain>>
    BY <1>1 DEF AdmitNextAttempt
  <2>2. CASE PassRefused(t)
    BY <2>1, <2>2 DEF PassRefused, Return
  <2>3. CASE PassFails(t)
    BY <2>1, <2>3 DEF PassFails, Return, Transient, Persistent, Fault, Wake, MayAdmit
  <2>4. CASE PassSelects(t)
    BY <2>1, <2>4 DEF PassSelects, Succeeded, MayAdmit
  <2>5. CASE PassContinues(t)
    <3>1. Publishes(t)
      BY <2>1, <2>5, PublishEffects DEF PassContinues
    <3>2. slot = "none"
      BY <2>1, <2>5 DEF PassContinues, MayAdmit
    <3> QED
      <4> PICK k \in Attempts : k = admitted + 1
        BY <3>1 DEF Publishes
      <4>1. Owners' = {k}
        BY <2>1, <3>1, <3>2, PublishKeeps
      <4>2. slot' = SlotOf(k)' /\ pc'[k] = "run"
        BY <3>1 DEF Publishes
      <4> QED
        BY <4>1, <4>2
  <2>6. CASE PassIdle(t)
    BY <2>1, <2>6 DEF PassIdle, Return, CompleteCycle, Accept, Wake, MayAdmit
  <2>7. CASE PassGoalFails(t)
    BY <2>1, <2>7 DEF PassGoalFails, Return, MayAdmit
  <2> QED
    BY <1>1, <2>2, <2>3, <2>4, <2>5, <2>6, <2>7 DEF AdmitNextAttempt
<1>2. ASSUME NEW t \in Threads, Adopt(t)
      PROVE  OwnerInv'
  <2>1. /\ pc[t] = "admitting" /\ cut' = 0
        /\ UNCHANGED <<lifecycle, closed, rounds, available, sideVars, job, drain>>
    BY <1>2 DEF Adopt
  <2>2. CASE AdoptionFails(t)
    BY <2>1, <2>2 DEF AdoptionFails, Return, Transient, Persistent, Fault, Wake
  <2>3. CASE AdoptsNothing(t)
    BY <2>1, <2>3 DEF AdoptsNothing, Return, CompleteCycle, Wake
  <2>4. CASE AdoptsBatch(t)
    <3>1. Publishes(t)
      BY <2>1, <2>4, PublishEffects DEF AdoptsBatch, Adoptable
    <3>2. slot = "none"
      BY <2>1, <2>4 DEF AdoptsBatch
    <3> QED
      <4> PICK k \in Attempts : k = admitted + 1
        BY <3>1 DEF Publishes
      <4>1. Owners' = {k}
        BY <2>1, <3>1, <3>2, PublishKeeps
      <4>2. slot' = SlotOf(k)' /\ pc'[k] = "run"
        BY <3>1 DEF Publishes
      <4> QED
        BY <4>1, <4>2
  <2> QED
    BY <1>2, <2>2, <2>3, <2>4 DEF Adopt
<1>3. ASSUME NEW n \in Attempts, BoundarySelect(n)
      PROVE  OwnerInv'
  BY <1>3 DEF BoundarySelect
<1>4. ASSUME NEW n \in Attempts, BoundaryAdopt(n)
      PROVE  OwnerInv'
  <2>1. /\ pc[n] = "selected" /\ pc' = [pc EXCEPT ![n] = "run"]
        /\ UNCHANGED <<lifecycle, slot, failed>>
    BY <1>4 DEF BoundaryAdopt
  <2>2. Owners' = Owners
    BY <2>1
  <2>3. \A t \in Owners : SlotOf(t)' = SlotOf(t)
    BY <2>1
  <2> QED
    BY <2>1, <2>2, <2>3
<1>5. ASSUME NEW n \in Attempts, AttemptBreaks(n)
      PROVE  OwnerInv'
  BY <1>5 DEF AttemptBreaks, Fault
<1>6. ASSUME NEW n \in Attempts, AttemptGrants(n)
      PROVE  OwnerInv'
  BY <1>6 DEF AttemptGrants
<1>7. ASSUME NEW n \in Attempts, NEW j \in Jobs, AttemptDetaches(n, j)
      PROVE  OwnerInv'
  BY <1>7 DEF AttemptDetaches
<1>8. ASSUME NEW n \in Attempts, FinishAttempt(n)
      PROVE  OwnerInv'
  BY <1>8 DEF FinishAttempt
<1>9. ASSUME NEW n \in Attempts, TaskExits(n)
      PROVE  OwnerInv'
  BY <1>9 DEF TaskExits
<1>10. ASSUME NEW j \in Jobs, JobCommits(j)
      PROVE  OwnerInv'
  BY <1>10 DEF JobCommits, Accept
<1>11. ASSUME NEW j \in Jobs, JobWakes(j)
      PROVE  OwnerInv'
  BY <1>11 DEF JobWakes, Wake
<1>12. ASSUME NEW j \in Jobs, JobSettles(j)
      PROVE  OwnerInv'
  BY <1>12 DEF JobSettles
<1>13. ASSUME NEW j \in Jobs, JobFails(j)
      PROVE  OwnerInv'
  BY <1>13 DEF JobFails, Fault
<1>14. CASE AdmitCompaction
  BY <1>14 DEF AdmitCompaction, MayAdmit, Persistent, Fault
<1>15. CASE FinishCompaction
  BY <1>15 DEF FinishCompaction, Persistent, Fault
<1>16. CASE CompactionExits
  BY <1>16 DEF CompactionExits, Wake
<1>17. ASSUME NEW t \in {Worker, Activator}, AdmitNextScheduled(t)
      PROVE  OwnerInv'
  BY <1>17 DEF AdmitNextScheduled, MayStart
<1>18. CASE FinishScheduled
  <2>1. /\ pc[Scheduler] = "run" /\ pc' = [pc EXCEPT ![Scheduler] = "exit"]
        /\ slot' = "none" /\ UNCHANGED <<lifecycle, failed>>
    BY <1>18 DEF FinishScheduled
  <2>2. \A t \in Threads : t \in Owners => t = Scheduler
    BY <2>1
  <2>3. \A t \in Threads : t # Scheduler => pc'[t] = pc[t]
    BY <2>1
  <2>4. Owners' = {}
    BY <2>1, <2>2, <2>3
  <2> QED
    BY <2>1, <2>4
<1>19. CASE ScheduledExits
  BY <1>19 DEF ScheduledExits
<1>20. CASE ScheduledWakes
  BY <1>20 DEF ScheduledWakes, Wake
<1>21. CASE AcceptStart
  BY <1>21 DEF AcceptStart, Wake
<1>22. CASE DriverWakes
  BY <1>22 DEF DriverWakes, Wake
<1>23. CASE WorkerWakes
  BY <1>23 DEF WorkerWakes
<1>24. CASE WorkerReaps
  BY <1>24 DEF WorkerReaps, Wake
<1>25. CASE Submit
  BY <1>25 DEF Submit, Accept, Wake
<1>26. ASSUME NEW x \in waiting, Withdraw(x)
      PROVE  OwnerInv'
  BY <1>26 DEF Withdraw
<1>27. CASE Enqueue
  BY <1>27 DEF Enqueue, Accept
<1>28. CASE EnqueueWakes
  BY <1>28 DEF EnqueueWakes, Wake
<1>29. ASSUME NEW r \in 0..MaxRounds, ControlGoal(r)
      PROVE  OwnerInv'
  BY <1>29 DEF ControlGoal
<1>30. CASE ControlWakes
  BY <1>30 DEF ControlWakes, Wake
<1>31. CASE CancelAttempt
  BY <1>31 DEF CancelAttempt, Persistent, Fault
<1>32. CASE PublishCatalog
  BY <1>32 DEF PublishCatalog
<1>33. CASE SelectModel
  BY <1>33 DEF SelectModel, Wake
<1>34. CASE ProbeIdle
  BY <1>34 DEF ProbeIdle
<1>35. CASE ClaimIdle
  BY <1>35 DEF ClaimIdle
<1>36. CASE BeginDrain
  BY <1>36 DEF BeginDrain, Wake
<1>37. CASE Supervise
  <2>1. /\ \A t \in Threads : pc'[t] = pc[t] \/ (t = Compactor /\ pc'[t] = "parked")
        /\ UNCHANGED <<slot, failed>>
    BY <1>37 DEF Supervise, DrainJoinsTail, DrainWaits, DrainFails, DrainDecides
  <2>2. \A t \in Owners' : t \in Owners /\ SlotOf(t)' = SlotOf(t)
    BY <2>1
  <2>3. lifecycle = "Running" => lifecycle' = "Running"
    BY <1>37 DEF Supervise, DrainDecides, DrainFails, DrainInv
  <2> QED
    BY <2>1, <2>2, <2>3
<1>38. CASE UNCHANGED vars
  <2>1. UNCHANGED <<pc, slot, lifecycle, failed>>
    BY <1>38 DEF vars
  <2>2. Owners' = Owners /\ \A t \in Owners : SlotOf(t)' = SlotOf(t)
    BY <2>1
  <2> QED
    BY <2>1, <2>2
<1> QED
  BY <1>1, <1>2, <1>3, <1>4, <1>5, <1>6, <1>7, <1>8, <1>9, <1>10, <1>11, <1>12, <1>13, <1>14,
     <1>15, <1>16, <1>17, <1>18, <1>19, <1>20, <1>21, <1>22, <1>23, <1>24, <1>25, <1>26,
     <1>27, <1>28, <1>29, <1>30, <1>31, <1>32, <1>33, <1>34, <1>35, <1>36, <1>37, <1>38
     DEF Next, Pass, AttemptStep, CompactionStep, ScheduleStep, SenderStep, JobStep,
         ClientStep, DrainStep

\* Each action keeps the accounts of messages, attempts and jobs.
LEMMA CountsKept ==
    ASSUME AdmissionInv, [Next]_vars
    PROVE  CountInv'
<1> USE ThreadNames, AfterIs
    DEF TypeOK, CountInv, Silent, wakeVars, inboxVars, owedVars, healthVars, sideVars
<1> /\ TypeOK /\ ThreadInv /\ OwnerInv /\ CountInv /\ FaultInv /\ DrainInv /\ ProbeInv
    /\ WorkInv
  BY DEF AdmissionInv
<1>1. ASSUME NEW t \in Threads, AdmitNextAttempt(t)
      PROVE  CountInv'
  <2>1. /\ pc[t] = "handoff" /\ LockFree
        /\ UNCHANGED <<lifecycle, closed, available, sideVars, job, drain>>
    BY <1>1 DEF AdmitNextAttempt
  <2>2. CASE PassRefused(t)
    BY <2>1, <2>2 DEF PassRefused, Return
  <2>3. CASE PassFails(t)
    BY <2>1, <2>3 DEF PassFails, Return, Transient, Persistent, Fault, Wake, MayAdmit
  <2>4. CASE PassSelects(t)
    BY <2>1, <2>4 DEF PassSelects, Succeeded, MayAdmit
  <2>5. CASE PassContinues(t)
    <3>1. waiting' = waiting \ {} /\ admitted' = admitted + 1 /\ UNCHANGED <<last, job>>
      BY <2>1, <2>5 DEF PassContinues, Publish
    <3> QED
      BY <2>5, <3>1, TakeKeepsCounts DEF PassContinues
  <2>6. CASE PassIdle(t)
    <3>1. CASE Room /\ Accept
      BY <2>1, <2>6, <3>1, AcceptKeepsCounts DEF PassIdle
    <3>2. CASE UNCHANGED <<last, waiting>>
      BY <2>1, <2>6, <3>2 DEF PassIdle
    <3> QED
      BY <2>6, <3>1, <3>2 DEF PassIdle
  <2>7. CASE PassGoalFails(t)
    BY <2>1, <2>7 DEF PassGoalFails, Return, MayAdmit
  <2> QED
    BY <1>1, <2>2, <2>3, <2>4, <2>5, <2>6, <2>7 DEF AdmitNextAttempt
<1>2. ASSUME NEW t \in Threads, Adopt(t)
      PROVE  CountInv'
  <2>1. /\ pc[t] = "admitting" /\ cut' = 0
        /\ UNCHANGED <<lifecycle, closed, rounds, available, sideVars, job, drain>>
    BY <1>2 DEF Adopt
  <2>2. CASE AdoptionFails(t)
    BY <2>1, <2>2 DEF AdoptionFails, Return, Transient, Persistent, Fault, Wake
  <2>3. CASE AdoptsNothing(t)
    BY <2>1, <2>3 DEF AdoptsNothing, Return, CompleteCycle, Wake
  <2>4. CASE AdoptsBatch(t)
    <3>1. /\ Adoptable \in SUBSET waiting /\ Adoptable # {}
          /\ waiting' = waiting \ Adoptable /\ admitted' = admitted + 1
          /\ continuation' = FALSE /\ UNCHANGED <<last, job>>
      BY <2>1, <2>4 DEF AdoptsBatch, Publish, Adoptable
    <3> QED
      BY <3>1, TakeKeepsCounts
  <2> QED
    BY <1>2, <2>2, <2>3, <2>4 DEF Adopt
<1>3. ASSUME NEW n \in Attempts, BoundarySelect(n)
      PROVE  CountInv'
  BY <1>3 DEF BoundarySelect
<1>4. ASSUME NEW n \in Attempts, BoundaryAdopt(n)
      PROVE  CountInv'
  <2>1. /\ Adoptable \in SUBSET waiting /\ waiting' = waiting \ Adoptable
        /\ UNCHANGED <<last, job, admitted, continuation>>
    BY <1>4 DEF BoundaryAdopt, Adoptable
  <2> QED
    BY <2>1, TakeKeepsCounts
<1>5. ASSUME NEW n \in Attempts, AttemptBreaks(n)
      PROVE  CountInv'
  BY <1>5 DEF AttemptBreaks, Fault
<1>6. ASSUME NEW n \in Attempts, AttemptGrants(n)
      PROVE  CountInv'
  BY <1>6 DEF AttemptGrants
<1>7. ASSUME NEW n \in Attempts, NEW j \in Jobs, AttemptDetaches(n, j)
      PROVE  CountInv'
  BY <1>7 DEF AttemptDetaches
<1>8. ASSUME NEW n \in Attempts, FinishAttempt(n)
      PROVE  CountInv'
  BY <1>8 DEF FinishAttempt
<1>9. ASSUME NEW n \in Attempts, TaskExits(n)
      PROVE  CountInv'
  BY <1>9 DEF TaskExits
<1>10. ASSUME NEW j \in Jobs, JobCommits(j)
      PROVE  CountInv'
  <2>1. j \in Silent /\ Silent' = Silent \ {j} /\ Accept /\ UNCHANGED <<admitted, continuation>>
    BY <1>10 DEF JobCommits
  <2> QED
    BY <2>1, AcceptKeepsCounts
<1>11. ASSUME NEW j \in Jobs, JobWakes(j)
      PROVE  CountInv'
  BY <1>11 DEF JobWakes, Wake
<1>12. ASSUME NEW j \in Jobs, JobSettles(j)
      PROVE  CountInv'
  BY <1>12 DEF JobSettles
<1>13. ASSUME NEW j \in Jobs, JobFails(j)
      PROVE  CountInv'
  <2>1. UNCHANGED <<last, waiting, admitted, continuation>>
    BY <1>13 DEF JobFails
  <2>2. j \in Silent /\ (Silent' = Silent \/ Silent' = Silent \ {j})
    BY <1>13 DEF JobFails
  <2>3. Cardinality(Silent') <= Cardinality(Silent) /\ Cardinality(Silent') \in Nat
    BY <2>2, SpokenIsCounted, CountsAreNat
  <2>4. last \in Nat /\ MaxInbound \in Nat /\ Cardinality(Silent) \in Nat
    BY AdmissionAssumption, CountsAreNat DEF InboxTypeOK
  <2>5. last' + Cardinality(Silent') <= MaxInbound
    BY <2>1, <2>3, <2>4
  <2> QED
    BY <2>1, <2>5
<1>14. CASE AdmitCompaction
  BY <1>14 DEF AdmitCompaction, MayAdmit, Persistent, Fault
<1>15. CASE FinishCompaction
  BY <1>15 DEF FinishCompaction, Persistent, Fault
<1>16. CASE CompactionExits
  BY <1>16 DEF CompactionExits, Wake
<1>17. ASSUME NEW t \in {Worker, Activator}, AdmitNextScheduled(t)
      PROVE  CountInv'
  BY <1>17 DEF AdmitNextScheduled, MayStart
<1>18. CASE FinishScheduled
  BY <1>18 DEF FinishScheduled
<1>19. CASE ScheduledExits
  BY <1>19 DEF ScheduledExits
<1>20. CASE ScheduledWakes
  BY <1>20 DEF ScheduledWakes, Wake
<1>21. CASE AcceptStart
  BY <1>21 DEF AcceptStart, Wake
<1>22. CASE DriverWakes
  BY <1>22 DEF DriverWakes, Wake
<1>23. CASE WorkerWakes
  BY <1>23 DEF WorkerWakes
<1>24. CASE WorkerReaps
  BY <1>24 DEF WorkerReaps, Wake
<1>25. CASE Submit
  BY <1>25, AcceptKeepsCounts DEF Submit
<1>26. ASSUME NEW x \in waiting, Withdraw(x)
      PROVE  CountInv'
  <2>1. /\ {x} \in SUBSET waiting /\ waiting' = waiting \ {x}
        /\ UNCHANGED <<last, job, admitted, continuation>>
    BY <1>26 DEF Withdraw
  <2> QED
    BY <2>1, TakeKeepsCounts
<1>27. CASE Enqueue
  BY <1>27, AcceptKeepsCounts DEF Enqueue
<1>28. CASE EnqueueWakes
  BY <1>28 DEF EnqueueWakes, Wake
<1>29. ASSUME NEW r \in 0..MaxRounds, ControlGoal(r)
      PROVE  CountInv'
  BY <1>29 DEF ControlGoal
<1>30. CASE ControlWakes
  BY <1>30 DEF ControlWakes, Wake
<1>31. CASE CancelAttempt
  BY <1>31 DEF CancelAttempt, Persistent, Fault
<1>32. CASE PublishCatalog
  BY <1>32 DEF PublishCatalog
<1>33. CASE SelectModel
  BY <1>33 DEF SelectModel, Wake
<1>34. CASE ProbeIdle
  BY <1>34 DEF ProbeIdle
<1>35. CASE ClaimIdle
  BY <1>35 DEF ClaimIdle
<1>36. CASE BeginDrain
  BY <1>36 DEF BeginDrain, Wake
<1>37. CASE Supervise
  BY <1>37 DEF Supervise, DrainJoinsTail, DrainWaits, DrainFails, DrainDecides, Wake
<1>38. CASE UNCHANGED vars
  BY <1>38 DEF vars
<1> QED
  BY <1>1, <1>2, <1>3, <1>4, <1>5, <1>6, <1>7, <1>8, <1>9, <1>10, <1>11, <1>12, <1>13, <1>14,
     <1>15, <1>16, <1>17, <1>18, <1>19, <1>20, <1>21, <1>22, <1>23, <1>24, <1>25, <1>26,
     <1>27, <1>28, <1>29, <1>30, <1>31, <1>32, <1>33, <1>34, <1>35, <1>36, <1>37, <1>38
     DEF Next, Pass, AttemptStep, CompactionStep, ScheduleStep, SenderStep, JobStep,
         ClientStep, DrainStep

\* Each action keeps the errors of a cycle within the retries it used.
LEMMA FaultsKept ==
    ASSUME AdmissionInv, [Next]_vars
    PROVE  FaultInv'
<1> USE ThreadNames, AfterIs
    DEF TypeOK, HealthTypeOK, OwnerInv, FaultInv, Stages, wakeVars, inboxVars, owedVars,
        healthVars, sideVars
<1> /\ TypeOK /\ ThreadInv /\ OwnerInv /\ CountInv /\ FaultInv /\ DrainInv /\ ProbeInv
    /\ WorkInv
  BY DEF AdmissionInv
<1>1. ASSUME NEW t \in Threads, AdmitNextAttempt(t)
      PROVE  FaultInv'
  <2>1. /\ pc[t] = "handoff" /\ LockFree
        /\ UNCHANGED <<lifecycle, closed, available, sideVars, job, drain>>
    BY <1>1 DEF AdmitNextAttempt
  <2>2. CASE PassRefused(t)
    BY <2>1, <2>2 DEF PassRefused, Return
  <2>3. CASE PassFails(t)
    BY <2>1, <2>3 DEF PassFails, Return, Transient, Persistent, Fault, Wake, MayAdmit
  <2>4. CASE PassSelects(t)
    BY <2>1, <2>4 DEF PassSelects, Succeeded, MayAdmit
  <2>5. CASE PassContinues(t)
    BY <2>1, <2>5, PublishEffects DEF PassContinues, CompleteCycle, Publishes, MayAdmit
  <2>6. CASE PassIdle(t)
    BY <2>1, <2>6 DEF PassIdle, Return, CompleteCycle, Accept, Wake, MayAdmit
  <2>7. CASE PassGoalFails(t)
    BY <2>1, <2>7 DEF PassGoalFails, Return, MayAdmit
  <2> QED
    BY <1>1, <2>2, <2>3, <2>4, <2>5, <2>6, <2>7 DEF AdmitNextAttempt
<1>2. ASSUME NEW t \in Threads, Adopt(t)
      PROVE  FaultInv'
  <2>1. /\ pc[t] = "admitting" /\ cut' = 0
        /\ UNCHANGED <<lifecycle, closed, rounds, available, sideVars, job, drain>>
    BY <1>2 DEF Adopt
  <2>2. CASE AdoptionFails(t)
    BY <2>1, <2>2 DEF AdoptionFails, Return, Transient, Persistent, Fault, Wake
  <2>3. CASE AdoptsNothing(t)
    BY <2>1, <2>3 DEF AdoptsNothing, Return, CompleteCycle, Wake
  <2>4. CASE AdoptsBatch(t)
    BY <2>1, <2>4, PublishEffects DEF AdoptsBatch, CompleteCycle, Publishes, Adoptable
  <2> QED
    BY <1>2, <2>2, <2>3, <2>4 DEF Adopt
<1>3. ASSUME NEW n \in Attempts, BoundarySelect(n)
      PROVE  FaultInv'
  BY <1>3 DEF BoundarySelect
<1>4. ASSUME NEW n \in Attempts, BoundaryAdopt(n)
      PROVE  FaultInv'
  BY <1>4 DEF BoundaryAdopt, Adoptable
<1>5. ASSUME NEW n \in Attempts, AttemptBreaks(n)
      PROVE  FaultInv'
  BY <1>5 DEF AttemptBreaks, Fault
<1>6. ASSUME NEW n \in Attempts, AttemptGrants(n)
      PROVE  FaultInv'
  BY <1>6 DEF AttemptGrants
<1>7. ASSUME NEW n \in Attempts, NEW j \in Jobs, AttemptDetaches(n, j)
      PROVE  FaultInv'
  BY <1>7 DEF AttemptDetaches
<1>8. ASSUME NEW n \in Attempts, FinishAttempt(n)
      PROVE  FaultInv'
  <2>1. faults' = faults /\ cycle' = cycle /\ (failed => failed')
    BY <1>8 DEF FinishAttempt
  <2>2. faults.cycle <= 3
    OBVIOUS
  <2> QED
    BY <2>1, <2>2
<1>9. ASSUME NEW n \in Attempts, TaskExits(n)
      PROVE  FaultInv'
  BY <1>9 DEF TaskExits
<1>10. ASSUME NEW j \in Jobs, JobCommits(j)
      PROVE  FaultInv'
  BY <1>10 DEF JobCommits, Accept
<1>11. ASSUME NEW j \in Jobs, JobWakes(j)
      PROVE  FaultInv'
  BY <1>11 DEF JobWakes, Wake
<1>12. ASSUME NEW j \in Jobs, JobSettles(j)
      PROVE  FaultInv'
  BY <1>12 DEF JobSettles
<1>13. ASSUME NEW j \in Jobs, JobFails(j)
      PROVE  FaultInv'
  BY <1>13 DEF JobFails, Fault
<1>14. CASE AdmitCompaction
  BY <1>14 DEF AdmitCompaction, MayAdmit, Persistent, Fault
<1>15. CASE FinishCompaction
  BY <1>15 DEF FinishCompaction, Persistent, Fault
<1>16. CASE CompactionExits
  BY <1>16 DEF CompactionExits, Wake
<1>17. ASSUME NEW t \in {Worker, Activator}, AdmitNextScheduled(t)
      PROVE  FaultInv'
  BY <1>17 DEF AdmitNextScheduled, MayStart
<1>18. CASE FinishScheduled
  BY <1>18 DEF FinishScheduled
<1>19. CASE ScheduledExits
  BY <1>19 DEF ScheduledExits
<1>20. CASE ScheduledWakes
  BY <1>20 DEF ScheduledWakes, Wake
<1>21. CASE AcceptStart
  BY <1>21 DEF AcceptStart, Wake
<1>22. CASE DriverWakes
  BY <1>22 DEF DriverWakes, Wake
<1>23. CASE WorkerWakes
  BY <1>23 DEF WorkerWakes
<1>24. CASE WorkerReaps
  BY <1>24 DEF WorkerReaps, Wake
<1>25. CASE Submit
  BY <1>25 DEF Submit, Accept, Wake
<1>26. ASSUME NEW x \in waiting, Withdraw(x)
      PROVE  FaultInv'
  BY <1>26 DEF Withdraw
<1>27. CASE Enqueue
  BY <1>27 DEF Enqueue, Accept
<1>28. CASE EnqueueWakes
  BY <1>28 DEF EnqueueWakes, Wake
<1>29. ASSUME NEW r \in 0..MaxRounds, ControlGoal(r)
      PROVE  FaultInv'
  BY <1>29 DEF ControlGoal
<1>30. CASE ControlWakes
  BY <1>30 DEF ControlWakes, Wake
<1>31. CASE CancelAttempt
  BY <1>31 DEF CancelAttempt, Persistent, Fault
<1>32. CASE PublishCatalog
  BY <1>32 DEF PublishCatalog
<1>33. CASE SelectModel
  BY <1>33 DEF SelectModel, Wake
<1>34. CASE ProbeIdle
  BY <1>34 DEF ProbeIdle
<1>35. CASE ClaimIdle
  BY <1>35 DEF ClaimIdle
<1>36. CASE BeginDrain
  BY <1>36 DEF BeginDrain, Wake
<1>37. CASE Supervise
  BY <1>37 DEF Supervise, DrainJoinsTail, DrainWaits, DrainFails, DrainDecides, Wake
<1>38. CASE UNCHANGED vars
  BY <1>38 DEF vars
<1> QED
  BY <1>1, <1>2, <1>3, <1>4, <1>5, <1>6, <1>7, <1>8, <1>9, <1>10, <1>11, <1>12, <1>13, <1>14,
     <1>15, <1>16, <1>17, <1>18, <1>19, <1>20, <1>21, <1>22, <1>23, <1>24, <1>25, <1>26,
     <1>27, <1>28, <1>29, <1>30, <1>31, <1>32, <1>33, <1>34, <1>35, <1>36, <1>37, <1>38
     DEF Next, Pass, AttemptStep, CompactionStep, ScheduleStep, SenderStep, JobStep,
         ClientStep, DrainStep

\* Each action keeps what the supervisor has waited for.
LEMMA DrainKept ==
    ASSUME AdmissionInv, [Next]_vars
    PROVE  DrainInv'
<1> USE ThreadNames, AfterIs
    DEF TypeOK, ThreadInv, OwnerInv, DrainInv, Owners, SlotOf, Unsettled, NoAdmissions,
        HoldsAdmission, BoundaryFree, Resolved, wakeVars, inboxVars, owedVars, healthVars,
        sideVars
<1> /\ TypeOK /\ ThreadInv /\ OwnerInv /\ CountInv /\ FaultInv /\ DrainInv /\ ProbeInv
    /\ WorkInv
  BY DEF AdmissionInv
<1>1. ASSUME NEW t \in Threads, AdmitNextAttempt(t)
      PROVE  DrainInv'
  <2>1. /\ pc[t] = "handoff" /\ LockFree
        /\ UNCHANGED <<lifecycle, closed, available, sideVars, job, drain>>
    BY <1>1 DEF AdmitNextAttempt
  <2>2. CASE PassRefused(t)
    BY <2>1, <2>2 DEF PassRefused, Return
  <2>3. CASE PassFails(t)
    BY <2>1, <2>3 DEF PassFails, Return, Transient, Persistent, Fault, Wake, MayAdmit
  <2>4. CASE PassSelects(t)
    BY <2>1, <2>4 DEF PassSelects, Succeeded, MayAdmit
  <2>5. CASE PassContinues(t)
    BY <2>1, <2>5, PublishEffects DEF PassContinues, CompleteCycle, Publishes, MayAdmit
  <2>6. CASE PassIdle(t)
    BY <2>1, <2>6 DEF PassIdle, Return, CompleteCycle, Accept, Wake, MayAdmit
  <2>7. CASE PassGoalFails(t)
    BY <2>1, <2>7 DEF PassGoalFails, Return, MayAdmit
  <2> QED
    BY <1>1, <2>2, <2>3, <2>4, <2>5, <2>6, <2>7 DEF AdmitNextAttempt
<1>2. ASSUME NEW t \in Threads, Adopt(t)
      PROVE  DrainInv'
  <2>1. /\ pc[t] = "admitting" /\ cut' = 0
        /\ UNCHANGED <<lifecycle, closed, rounds, available, sideVars, job, drain>>
    BY <1>2 DEF Adopt
  <2>2. CASE AdoptionFails(t)
    BY <2>1, <2>2 DEF AdoptionFails, Return, Transient, Persistent, Fault, Wake
  <2>3. CASE AdoptsNothing(t)
    BY <2>1, <2>3 DEF AdoptsNothing, Return, CompleteCycle, Wake
  <2>4. CASE AdoptsBatch(t)
    BY <2>1, <2>4, PublishEffects DEF AdoptsBatch, CompleteCycle, Publishes, Adoptable
  <2> QED
    BY <1>2, <2>2, <2>3, <2>4 DEF Adopt
<1>3. ASSUME NEW n \in Attempts, BoundarySelect(n)
      PROVE  DrainInv'
  BY <1>3 DEF BoundarySelect
<1>4. ASSUME NEW n \in Attempts, BoundaryAdopt(n)
      PROVE  DrainInv'
  BY <1>4 DEF BoundaryAdopt, Adoptable
<1>5. ASSUME NEW n \in Attempts, AttemptBreaks(n)
      PROVE  DrainInv'
  BY <1>5 DEF AttemptBreaks, Fault
<1>6. ASSUME NEW n \in Attempts, AttemptGrants(n)
      PROVE  DrainInv'
  BY <1>6 DEF AttemptGrants
<1>7. ASSUME NEW n \in Attempts, NEW j \in Jobs, AttemptDetaches(n, j)
      PROVE  DrainInv'
  BY <1>7 DEF AttemptDetaches
<1>8. ASSUME NEW n \in Attempts, FinishAttempt(n)
      PROVE  DrainInv'
  BY <1>8 DEF FinishAttempt
<1>9. ASSUME NEW n \in Attempts, TaskExits(n)
      PROVE  DrainInv'
  BY <1>9 DEF TaskExits
<1>10. ASSUME NEW j \in Jobs, JobCommits(j)
      PROVE  DrainInv'
  BY <1>10 DEF JobCommits, Accept
<1>11. ASSUME NEW j \in Jobs, JobWakes(j)
      PROVE  DrainInv'
  BY <1>11 DEF JobWakes, Wake
<1>12. ASSUME NEW j \in Jobs, JobSettles(j)
      PROVE  DrainInv'
  BY <1>12 DEF JobSettles
<1>13. ASSUME NEW j \in Jobs, JobFails(j)
      PROVE  DrainInv'
  BY <1>13 DEF JobFails, Fault
<1>14. CASE AdmitCompaction
  BY <1>14 DEF AdmitCompaction, MayAdmit, Persistent, Fault
<1>15. CASE FinishCompaction
  BY <1>15 DEF FinishCompaction, Persistent, Fault
<1>16. CASE CompactionExits
  BY <1>16 DEF CompactionExits, Wake
<1>17. ASSUME NEW t \in {Worker, Activator}, AdmitNextScheduled(t)
      PROVE  DrainInv'
  <2>1. CASE MayStart
    BY <1>17, <2>1 DEF AdmitNextScheduled, MayStart
  <2>2. CASE ~MayStart
    <3>1. /\ t \in Threads /\ pc[t] = "schedule" /\ pc' = [pc EXCEPT ![t] = "handoff"]
          /\ UNCHANGED <<slot, probe, lifecycle, admitted, cancelled, inboxVars, cut, wakeVars,
                         owedVars, available, healthVars, sideVars, job, drain>>
      BY <1>17, <2>2 DEF AdmitNextScheduled
    <3> QED
      BY <3>1
  <2> QED
    BY <2>1, <2>2
<1>18. CASE FinishScheduled
  BY <1>18 DEF FinishScheduled
<1>19. CASE ScheduledExits
  BY <1>19 DEF ScheduledExits
<1>20. CASE ScheduledWakes
  BY <1>20 DEF ScheduledWakes, Wake
<1>21. CASE AcceptStart
  BY <1>21 DEF AcceptStart, Wake
<1>22. CASE DriverWakes
  BY <1>22 DEF DriverWakes, Wake
<1>23. CASE WorkerWakes
  BY <1>23 DEF WorkerWakes
<1>24. CASE WorkerReaps
  BY <1>24 DEF WorkerReaps, Wake
<1>25. CASE Submit
  BY <1>25 DEF Submit, Accept, Wake
<1>26. ASSUME NEW x \in waiting, Withdraw(x)
      PROVE  DrainInv'
  BY <1>26 DEF Withdraw
<1>27. CASE Enqueue
  BY <1>27 DEF Enqueue, Accept
<1>28. CASE EnqueueWakes
  BY <1>28 DEF EnqueueWakes, Wake
<1>29. ASSUME NEW r \in 0..MaxRounds, ControlGoal(r)
      PROVE  DrainInv'
  BY <1>29 DEF ControlGoal
<1>30. CASE ControlWakes
  BY <1>30 DEF ControlWakes, Wake
<1>31. CASE CancelAttempt
  BY <1>31 DEF CancelAttempt, Persistent, Fault
<1>32. CASE PublishCatalog
  BY <1>32 DEF PublishCatalog
<1>33. CASE SelectModel
  BY <1>33 DEF SelectModel, Wake
<1>34. CASE ProbeIdle
  BY <1>34 DEF ProbeIdle
<1>35. CASE ClaimIdle
  BY <1>35 DEF ClaimIdle
<1>36. CASE BeginDrain
  BY <1>36 DEF BeginDrain, Wake
<1>37. CASE Supervise
  BY <1>37 DEF Supervise, DrainJoinsTail, DrainWaits, DrainFails, DrainDecides, Wake
<1>38. CASE UNCHANGED vars
  BY <1>38 DEF vars
<1> QED
  BY <1>1, <1>2, <1>3, <1>4, <1>5, <1>6, <1>7, <1>8, <1>9, <1>10, <1>11, <1>12, <1>13, <1>14,
     <1>15, <1>16, <1>17, <1>18, <1>19, <1>20, <1>21, <1>22, <1>23, <1>24, <1>25, <1>26,
     <1>27, <1>28, <1>29, <1>30, <1>31, <1>32, <1>33, <1>34, <1>35, <1>36, <1>37, <1>38
     DEF Next, Pass, AttemptStep, CompactionStep, ScheduleStep, SenderStep, JobStep,
         ClientStep, DrainStep

\* Each action keeps what the reaper saw, or ends its epoch.
LEMMA ProbeKept ==
    ASSUME AdmissionInv, [Next]_vars
    PROVE  ProbeInv'
<1> USE ThreadNames, AfterIs
    DEF TypeOK, ThreadInv, OwnerInv, ProbeInv, Owners, SlotOf, BackgroundIdle, wakeVars,
        inboxVars, owedVars, healthVars, sideVars
<1> /\ TypeOK /\ ThreadInv /\ OwnerInv /\ CountInv /\ FaultInv /\ DrainInv /\ ProbeInv
    /\ WorkInv
  BY DEF AdmissionInv
<1>1. ASSUME NEW t \in Threads, AdmitNextAttempt(t)
      PROVE  ProbeInv'
  <2>1. /\ pc[t] = "handoff" /\ LockFree
        /\ UNCHANGED <<lifecycle, closed, available, sideVars, job, drain>>
    BY <1>1 DEF AdmitNextAttempt
  <2>2. CASE PassRefused(t)
    BY <2>1, <2>2 DEF PassRefused, Return
  <2>3. CASE PassFails(t)
    BY <2>1, <2>3 DEF PassFails, Return, Transient, Persistent, Fault, Wake, MayAdmit
  <2>4. CASE PassSelects(t)
    BY <2>1, <2>4 DEF PassSelects, Succeeded, MayAdmit
  <2>5. CASE PassContinues(t)
    BY <2>1, <2>5, PublishEffects DEF PassContinues, CompleteCycle, Publishes, MayAdmit
  <2>6. CASE PassIdle(t)
    BY <2>1, <2>6 DEF PassIdle, Return, CompleteCycle, Accept, Wake, MayAdmit
  <2>7. CASE PassGoalFails(t)
    BY <2>1, <2>7 DEF PassGoalFails, Return, MayAdmit
  <2> QED
    BY <1>1, <2>2, <2>3, <2>4, <2>5, <2>6, <2>7 DEF AdmitNextAttempt
<1>2. ASSUME NEW t \in Threads, Adopt(t)
      PROVE  ProbeInv'
  <2>1. /\ pc[t] = "admitting" /\ cut' = 0
        /\ UNCHANGED <<lifecycle, closed, rounds, available, sideVars, job, drain>>
    BY <1>2 DEF Adopt
  <2>2. CASE AdoptionFails(t)
    BY <2>1, <2>2 DEF AdoptionFails, Return, Transient, Persistent, Fault, Wake
  <2>3. CASE AdoptsNothing(t)
    BY <2>1, <2>3 DEF AdoptsNothing, Return, CompleteCycle, Wake
  <2>4. CASE AdoptsBatch(t)
    BY <2>1, <2>4, PublishEffects DEF AdoptsBatch, CompleteCycle, Publishes, Adoptable
  <2> QED
    BY <1>2, <2>2, <2>3, <2>4 DEF Adopt
<1>3. ASSUME NEW n \in Attempts, BoundarySelect(n)
      PROVE  ProbeInv'
  BY <1>3 DEF BoundarySelect
<1>4. ASSUME NEW n \in Attempts, BoundaryAdopt(n)
      PROVE  ProbeInv'
  BY <1>4 DEF BoundaryAdopt, Adoptable
<1>5. ASSUME NEW n \in Attempts, AttemptBreaks(n)
      PROVE  ProbeInv'
  BY <1>5 DEF AttemptBreaks, Fault
<1>6. ASSUME NEW n \in Attempts, AttemptGrants(n)
      PROVE  ProbeInv'
  BY <1>6 DEF AttemptGrants
<1>7. ASSUME NEW n \in Attempts, NEW j \in Jobs, AttemptDetaches(n, j)
      PROVE  ProbeInv'
  BY <1>7 DEF AttemptDetaches
<1>8. ASSUME NEW n \in Attempts, FinishAttempt(n)
      PROVE  ProbeInv'
  BY <1>8 DEF FinishAttempt
<1>9. ASSUME NEW n \in Attempts, TaskExits(n)
      PROVE  ProbeInv'
  BY <1>9 DEF TaskExits
<1>10. ASSUME NEW j \in Jobs, JobCommits(j)
      PROVE  ProbeInv'
  BY <1>10 DEF JobCommits, Accept
<1>11. ASSUME NEW j \in Jobs, JobWakes(j)
      PROVE  ProbeInv'
  BY <1>11 DEF JobWakes, Wake
<1>12. ASSUME NEW j \in Jobs, JobSettles(j)
      PROVE  ProbeInv'
  BY <1>12 DEF JobSettles
<1>13. ASSUME NEW j \in Jobs, JobFails(j)
      PROVE  ProbeInv'
  BY <1>13 DEF JobFails, Fault
<1>14. CASE AdmitCompaction
  BY <1>14 DEF AdmitCompaction, MayAdmit, Persistent, Fault
<1>15. CASE FinishCompaction
  BY <1>15 DEF FinishCompaction, Persistent, Fault
<1>16. CASE CompactionExits
  BY <1>16 DEF CompactionExits, Wake
<1>17. ASSUME NEW t \in {Worker, Activator}, AdmitNextScheduled(t)
      PROVE  ProbeInv'
  BY <1>17 DEF AdmitNextScheduled, MayStart
<1>18. CASE FinishScheduled
  BY <1>18 DEF FinishScheduled
<1>19. CASE ScheduledExits
  BY <1>19 DEF ScheduledExits
<1>20. CASE ScheduledWakes
  BY <1>20 DEF ScheduledWakes, Wake
<1>21. CASE AcceptStart
  BY <1>21 DEF AcceptStart, Wake
<1>22. CASE DriverWakes
  BY <1>22 DEF DriverWakes, Wake
<1>23. CASE WorkerWakes
  BY <1>23 DEF WorkerWakes
<1>24. CASE WorkerReaps
  BY <1>24 DEF WorkerReaps, Wake
<1>25. CASE Submit
  BY <1>25 DEF Submit, Accept, Wake
<1>26. ASSUME NEW x \in waiting, Withdraw(x)
      PROVE  ProbeInv'
  BY <1>26 DEF Withdraw
<1>27. CASE Enqueue
  BY <1>27 DEF Enqueue, Accept
<1>28. CASE EnqueueWakes
  BY <1>28 DEF EnqueueWakes, Wake
<1>29. ASSUME NEW r \in 0..MaxRounds, ControlGoal(r)
      PROVE  ProbeInv'
  BY <1>29 DEF ControlGoal
<1>30. CASE ControlWakes
  BY <1>30 DEF ControlWakes, Wake
<1>31. CASE CancelAttempt
  BY <1>31 DEF CancelAttempt, Persistent, Fault
<1>32. CASE PublishCatalog
  BY <1>32 DEF PublishCatalog
<1>33. CASE SelectModel
  BY <1>33 DEF SelectModel, Wake
<1>34. CASE ProbeIdle
  BY <1>34 DEF ProbeIdle
<1>35. CASE ClaimIdle
  BY <1>35 DEF ClaimIdle
<1>36. CASE BeginDrain
  BY <1>36 DEF BeginDrain, Wake
<1>37. CASE Supervise
  BY <1>37 DEF Supervise, DrainJoinsTail, DrainWaits, DrainFails, DrainDecides, Wake
<1>38. CASE UNCHANGED vars
  BY <1>38 DEF vars
<1> QED
  BY <1>1, <1>2, <1>3, <1>4, <1>5, <1>6, <1>7, <1>8, <1>9, <1>10, <1>11, <1>12, <1>13, <1>14,
     <1>15, <1>16, <1>17, <1>18, <1>19, <1>20, <1>21, <1>22, <1>23, <1>24, <1>25, <1>26,
     <1>27, <1>28, <1>29, <1>30, <1>31, <1>32, <1>33, <1>34, <1>35, <1>36, <1>37, <1>38
     DEF Next, Pass, AttemptStep, CompactionStep, ScheduleStep, SenderStep, JobStep,
         ClientStep, DrainStep

\* Each action that makes or leaves work makes sure of a pass.
LEMMA WorkKept ==
    ASSUME AdmissionInv, [Next]_vars
    PROVE  WorkInv'
<1> USE ThreadNames, AfterIs
    DEF TypeOK, ThreadInv, OwnerInv, DrainInv, WorkInv, Owners, SlotOf, MayAdmit,
        BackgroundIdle, RegistryFree, GoalIdle, PassIsDue, wakeVars, inboxVars, owedVars,
        healthVars, sideVars
<1> /\ TypeOK /\ ThreadInv /\ OwnerInv /\ CountInv /\ FaultInv /\ DrainInv /\ ProbeInv
    /\ WorkInv
  BY DEF AdmissionInv
<1>1. ASSUME NEW t \in Threads, AdmitNextAttempt(t)
      PROVE  WorkInv'
  <2>1. /\ pc[t] = "handoff" /\ LockFree
        /\ UNCHANGED <<lifecycle, closed, available, sideVars, job, drain>>
    BY <1>1 DEF AdmitNextAttempt
  <2>2. CASE PassRefused(t)
    BY <2>1, <2>2 DEF PassRefused, Return
  <2>3. CASE PassFails(t)
    BY <2>1, <2>3 DEF PassFails, Return, Transient, Persistent, Fault, Wake, MayAdmit
  <2>4. CASE PassSelects(t)
    BY <2>1, <2>4 DEF PassSelects, Succeeded, MayAdmit
  <2>5. CASE PassContinues(t)
    BY <2>1, <2>5, PublishEffects DEF PassContinues, CompleteCycle, Publishes, MayAdmit
  <2>6. CASE PassIdle(t)
    <3>1. CASE permits' = permits \cup {"mailbox"}
      BY <3>1
    <3>2. CASE ~(GoalIdle /\ rounds > 0 /\ Room) /\ UNCHANGED <<rounds, last, waiting>>
      <4>1. Room' = Room
        BY <2>1, <3>2 DEF Room
      <4>2. /\ waiting' = {} /\ ~continuation' /\ cycle'.retry = "none" /\ job' = job
            /\ RegistryFree
        BY <2>1, <2>6, <3>2 DEF PassIdle, CompleteCycle
      <4> QED
        BY <3>2, <4>1, <4>2
    <3> QED
      BY <2>6, <3>1, <3>2 DEF PassIdle, Wake
  <2>7. CASE PassGoalFails(t)
    BY <2>1, <2>7 DEF PassGoalFails, Return, MayAdmit
  <2> QED
    BY <1>1, <2>2, <2>3, <2>4, <2>5, <2>6, <2>7 DEF AdmitNextAttempt
<1>2. ASSUME NEW t \in Threads, Adopt(t)
      PROVE  WorkInv'
  <2>1. /\ pc[t] = "admitting" /\ cut' = 0
        /\ UNCHANGED <<lifecycle, closed, rounds, available, sideVars, job, drain>>
    BY <1>2 DEF Adopt
  <2>2. CASE AdoptionFails(t)
    BY <2>1, <2>2 DEF AdoptionFails, Return, Transient, Persistent, Fault, Wake
  <2>3. CASE AdoptsNothing(t)
    BY <2>1, <2>3 DEF AdoptsNothing, Return, CompleteCycle, Wake
  <2>4. CASE AdoptsBatch(t)
    BY <2>1, <2>4, PublishEffects DEF AdoptsBatch, CompleteCycle, Publishes, Adoptable
  <2> QED
    BY <1>2, <2>2, <2>3, <2>4 DEF Adopt
<1>3. ASSUME NEW n \in Attempts, BoundarySelect(n)
      PROVE  WorkInv'
  BY <1>3 DEF BoundarySelect
<1>4. ASSUME NEW n \in Attempts, BoundaryAdopt(n)
      PROVE  WorkInv'
  BY <1>4 DEF BoundaryAdopt, Adoptable
<1>5. ASSUME NEW n \in Attempts, AttemptBreaks(n)
      PROVE  WorkInv'
  BY <1>5 DEF AttemptBreaks, Fault
<1>6. ASSUME NEW n \in Attempts, AttemptGrants(n)
      PROVE  WorkInv'
  BY <1>6 DEF AttemptGrants
<1>7. ASSUME NEW n \in Attempts, NEW j \in Jobs, AttemptDetaches(n, j)
      PROVE  WorkInv'
  BY <1>7 DEF AttemptDetaches
<1>8. ASSUME NEW n \in Attempts, FinishAttempt(n)
      PROVE  WorkInv'
  BY <1>8 DEF FinishAttempt
<1>9. ASSUME NEW n \in Attempts, TaskExits(n)
      PROVE  WorkInv'
  <2>1. PassIsDue => PassIsDue'
    BY <1>9 DEF TaskExits
  <2>2. Room' = Room
    BY <1>9 DEF TaskExits, Room
  <2> QED
    BY <1>9, <2>1, <2>2 DEF TaskExits
<1>10. ASSUME NEW j \in Jobs, JobCommits(j)
      PROVE  WorkInv'
  BY <1>10 DEF JobCommits, Accept
<1>11. ASSUME NEW j \in Jobs, JobWakes(j)
      PROVE  WorkInv'
  BY <1>11 DEF JobWakes, Wake
<1>12. ASSUME NEW j \in Jobs, JobSettles(j)
      PROVE  WorkInv'
  BY <1>12 DEF JobSettles
<1>13. ASSUME NEW j \in Jobs, JobFails(j)
      PROVE  WorkInv'
  BY <1>13 DEF JobFails, Fault
<1>14. CASE AdmitCompaction
  BY <1>14 DEF AdmitCompaction, MayAdmit, Persistent, Fault
<1>15. CASE FinishCompaction
  BY <1>15 DEF FinishCompaction, Persistent, Fault
<1>16. CASE CompactionExits
  BY <1>16 DEF CompactionExits, Wake
<1>17. ASSUME NEW t \in {Worker, Activator}, AdmitNextScheduled(t)
      PROVE  WorkInv'
  <2>1. CASE MayStart
    BY <1>17, <2>1 DEF AdmitNextScheduled, MayStart
  <2>2. CASE ~MayStart
    <3>1. /\ t \in Threads /\ pc[t] = "schedule" /\ pc' = [pc EXCEPT ![t] = "handoff"]
          /\ UNCHANGED <<slot, probe, lifecycle, admitted, cancelled, inboxVars, cut, wakeVars,
                         owedVars, available, healthVars, sideVars, job, drain>>
      BY <1>17, <2>2 DEF AdmitNextScheduled
    <3> QED
      BY <3>1
  <2> QED
    BY <2>1, <2>2
<1>18. CASE FinishScheduled
  BY <1>18 DEF FinishScheduled
<1>19. CASE ScheduledExits
  BY <1>19 DEF ScheduledExits
<1>20. CASE ScheduledWakes
  BY <1>20 DEF ScheduledWakes, Wake
<1>21. CASE AcceptStart
  BY <1>21 DEF AcceptStart, Wake
<1>22. CASE DriverWakes
  BY <1>22 DEF DriverWakes, Wake
<1>23. CASE WorkerWakes
  BY <1>23 DEF WorkerWakes
<1>24. CASE WorkerReaps
  BY <1>24 DEF WorkerReaps, Wake
<1>25. CASE Submit
  BY <1>25 DEF Submit, Accept, Wake
<1>26. ASSUME NEW x \in waiting, Withdraw(x)
      PROVE  WorkInv'
  BY <1>26 DEF Withdraw
<1>27. CASE Enqueue
  BY <1>27 DEF Enqueue, Accept
<1>28. CASE EnqueueWakes
  BY <1>28 DEF EnqueueWakes, Wake
<1>29. ASSUME NEW r \in 0..MaxRounds, ControlGoal(r)
      PROVE  WorkInv'
  BY <1>29 DEF ControlGoal
<1>30. CASE ControlWakes
  BY <1>30 DEF ControlWakes, Wake
<1>31. CASE CancelAttempt
  BY <1>31 DEF CancelAttempt, Persistent, Fault
<1>32. CASE PublishCatalog
  BY <1>32 DEF PublishCatalog
<1>33. CASE SelectModel
  BY <1>33 DEF SelectModel, Wake
<1>34. CASE ProbeIdle
  BY <1>34 DEF ProbeIdle
<1>35. CASE ClaimIdle
  BY <1>35 DEF ClaimIdle
<1>36. CASE BeginDrain
  BY <1>36 DEF BeginDrain, Wake
<1>37. CASE Supervise
  BY <1>37 DEF Supervise, DrainJoinsTail, DrainWaits, DrainFails, DrainDecides, Wake
<1>38. CASE UNCHANGED vars
  <2>1. PassIsDue' = PassIsDue
    BY <1>38 DEF vars
  <2>2. Room' = Room
    BY <1>38 DEF vars, Room
  <2> QED
    BY <1>38, <2>1, <2>2 DEF vars
<1> QED
  BY <1>1, <1>2, <1>3, <1>4, <1>5, <1>6, <1>7, <1>8, <1>9, <1>10, <1>11, <1>12, <1>13, <1>14,
     <1>15, <1>16, <1>17, <1>18, <1>19, <1>20, <1>21, <1>22, <1>23, <1>24, <1>25, <1>26,
     <1>27, <1>28, <1>29, <1>30, <1>31, <1>32, <1>33, <1>34, <1>35, <1>36, <1>37, <1>38
     DEF Next, Pass, AttemptStep, CompactionStep, ScheduleStep, SenderStep, JobStep,
         ClientStep, DrainStep

\* Only an attempt that is published discharges the recovered turn.
LEMMA ObligationStep ==
    ASSUME [Next]_vars
    PROVE  (continuation /\ ~continuation' => admitted' = admitted + 1)
<1> USE DEF owedVars
<1>1. ASSUME NEW t \in Threads, AdmitNextAttempt(t)
      PROVE  (continuation /\ ~continuation' => admitted' = admitted + 1)
  <2>1. /\ pc[t] = "handoff" /\ LockFree
        /\ UNCHANGED <<lifecycle, closed, available, sideVars, job, drain>>
    BY <1>1 DEF AdmitNextAttempt
  <2>2. CASE PassRefused(t)
    BY <2>1, <2>2 DEF PassRefused, Return
  <2>3. CASE PassFails(t)
    BY <2>1, <2>3 DEF PassFails, Return, Transient, Persistent, Fault, Wake, MayAdmit
  <2>4. CASE PassSelects(t)
    BY <2>1, <2>4 DEF PassSelects, Succeeded, MayAdmit
  <2>5. CASE PassContinues(t)
    BY <2>5 DEF PassContinues, Publish
  <2>6. CASE PassIdle(t)
    BY <2>1, <2>6 DEF PassIdle, Return, CompleteCycle, Accept, Wake, MayAdmit
  <2>7. CASE PassGoalFails(t)
    BY <2>1, <2>7 DEF PassGoalFails, Return, MayAdmit
  <2> QED
    BY <1>1, <2>2, <2>3, <2>4, <2>5, <2>6, <2>7 DEF AdmitNextAttempt
<1>2. ASSUME NEW t \in Threads, Adopt(t)
      PROVE  (continuation /\ ~continuation' => admitted' = admitted + 1)
  <2>1. /\ pc[t] = "admitting" /\ cut' = 0
        /\ UNCHANGED <<lifecycle, closed, rounds, available, sideVars, job, drain>>
    BY <1>2 DEF Adopt
  <2>2. CASE AdoptionFails(t)
    BY <2>1, <2>2 DEF AdoptionFails, Return, Transient, Persistent, Fault, Wake
  <2>3. CASE AdoptsNothing(t)
    BY <2>1, <2>3 DEF AdoptsNothing, Return, CompleteCycle, Wake
  <2>4. CASE AdoptsBatch(t)
    BY <2>4 DEF AdoptsBatch, Publish
  <2> QED
    BY <1>2, <2>2, <2>3, <2>4 DEF Adopt
<1>3. ASSUME NEW n \in Attempts, BoundarySelect(n)
      PROVE  (continuation /\ ~continuation' => admitted' = admitted + 1)
  BY <1>3 DEF BoundarySelect
<1>4. ASSUME NEW n \in Attempts, BoundaryAdopt(n)
      PROVE  (continuation /\ ~continuation' => admitted' = admitted + 1)
  BY <1>4 DEF BoundaryAdopt, Adoptable
<1>5. ASSUME NEW n \in Attempts, AttemptBreaks(n)
      PROVE  (continuation /\ ~continuation' => admitted' = admitted + 1)
  BY <1>5 DEF AttemptBreaks, Fault
<1>6. ASSUME NEW n \in Attempts, AttemptGrants(n)
      PROVE  (continuation /\ ~continuation' => admitted' = admitted + 1)
  BY <1>6 DEF AttemptGrants
<1>7. ASSUME NEW n \in Attempts, NEW j \in Jobs, AttemptDetaches(n, j)
      PROVE  (continuation /\ ~continuation' => admitted' = admitted + 1)
  BY <1>7 DEF AttemptDetaches
<1>8. ASSUME NEW n \in Attempts, FinishAttempt(n)
      PROVE  (continuation /\ ~continuation' => admitted' = admitted + 1)
  BY <1>8 DEF FinishAttempt
<1>9. ASSUME NEW n \in Attempts, TaskExits(n)
      PROVE  (continuation /\ ~continuation' => admitted' = admitted + 1)
  BY <1>9 DEF TaskExits
<1>10. ASSUME NEW j \in Jobs, JobCommits(j)
      PROVE  (continuation /\ ~continuation' => admitted' = admitted + 1)
  BY <1>10 DEF JobCommits, Accept
<1>11. ASSUME NEW j \in Jobs, JobWakes(j)
      PROVE  (continuation /\ ~continuation' => admitted' = admitted + 1)
  BY <1>11 DEF JobWakes, Wake
<1>12. ASSUME NEW j \in Jobs, JobSettles(j)
      PROVE  (continuation /\ ~continuation' => admitted' = admitted + 1)
  BY <1>12 DEF JobSettles
<1>13. ASSUME NEW j \in Jobs, JobFails(j)
      PROVE  (continuation /\ ~continuation' => admitted' = admitted + 1)
  BY <1>13 DEF JobFails, Fault
<1>14. CASE AdmitCompaction
  BY <1>14 DEF AdmitCompaction, MayAdmit, Persistent, Fault
<1>15. CASE FinishCompaction
  BY <1>15 DEF FinishCompaction, Persistent, Fault
<1>16. CASE CompactionExits
  BY <1>16 DEF CompactionExits, Wake
<1>17. ASSUME NEW t \in {Worker, Activator}, AdmitNextScheduled(t)
      PROVE  (continuation /\ ~continuation' => admitted' = admitted + 1)
  BY <1>17 DEF AdmitNextScheduled, MayStart
<1>18. CASE FinishScheduled
  BY <1>18 DEF FinishScheduled
<1>19. CASE ScheduledExits
  BY <1>19 DEF ScheduledExits
<1>20. CASE ScheduledWakes
  BY <1>20 DEF ScheduledWakes, Wake
<1>21. CASE AcceptStart
  BY <1>21 DEF AcceptStart, Wake
<1>22. CASE DriverWakes
  BY <1>22 DEF DriverWakes, Wake
<1>23. CASE WorkerWakes
  BY <1>23 DEF WorkerWakes
<1>24. CASE WorkerReaps
  BY <1>24 DEF WorkerReaps, Wake
<1>25. CASE Submit
  BY <1>25 DEF Submit, Accept, Wake
<1>26. ASSUME NEW x \in waiting, Withdraw(x)
      PROVE  (continuation /\ ~continuation' => admitted' = admitted + 1)
  BY <1>26 DEF Withdraw
<1>27. CASE Enqueue
  BY <1>27 DEF Enqueue, Accept
<1>28. CASE EnqueueWakes
  BY <1>28 DEF EnqueueWakes, Wake
<1>29. ASSUME NEW r \in 0..MaxRounds, ControlGoal(r)
      PROVE  (continuation /\ ~continuation' => admitted' = admitted + 1)
  BY <1>29 DEF ControlGoal
<1>30. CASE ControlWakes
  BY <1>30 DEF ControlWakes, Wake
<1>31. CASE CancelAttempt
  BY <1>31 DEF CancelAttempt, Persistent, Fault
<1>32. CASE PublishCatalog
  BY <1>32 DEF PublishCatalog
<1>33. CASE SelectModel
  BY <1>33 DEF SelectModel, Wake
<1>34. CASE ProbeIdle
  BY <1>34 DEF ProbeIdle
<1>35. CASE ClaimIdle
  BY <1>35 DEF ClaimIdle
<1>36. CASE BeginDrain
  BY <1>36 DEF BeginDrain, Wake
<1>37. CASE Supervise
  BY <1>37 DEF Supervise, DrainJoinsTail, DrainWaits, DrainFails, DrainDecides, Wake
<1>38. CASE UNCHANGED vars
  BY <1>38 DEF vars
<1> QED
  BY <1>1, <1>2, <1>3, <1>4, <1>5, <1>6, <1>7, <1>8, <1>9, <1>10, <1>11, <1>12, <1>13, <1>14,
     <1>15, <1>16, <1>17, <1>18, <1>19, <1>20, <1>21, <1>22, <1>23, <1>24, <1>25, <1>26,
     <1>27, <1>28, <1>29, <1>30, <1>31, <1>32, <1>33, <1>34, <1>35, <1>36, <1>37, <1>38
     DEF Next, Pass, AttemptStep, CompactionStep, ScheduleStep, SenderStep, JobStep,
         ClientStep, DrainStep

-----------------------------------------------------------------------------
(* The theorems.                                                            *)

\* The whole invariant of the coordinator: who runs, who owns the conversation,
\* the accounts of messages and errors, what the drain and the reaper rely on.
THEOREM AdmissionInvariant == Spec => []AdmissionInv
<1>1. AdmissionInv /\ [Next]_vars => AdmissionInv'
  <2> SUFFICES ASSUME AdmissionInv, [Next]_vars PROVE AdmissionInv'
    OBVIOUS
  <2>1. TypeOK'
    BY FlagsKept, HealthKept, InboxKept, TypesKept
  <2> QED
    BY <2>1, ThreadsKept, OwnersKept, CountsKept, FaultsKept, DrainKept, ProbeKept, WorkKept
       DEF AdmissionInv
<1> QED
  BY AdmissionInit, <1>1, PTL DEF Spec

\* No wake is lost: whatever a pass could admit, some thread is on its way to a
\* pass (ensure_worker, admit_next_attempt, with_goal_idle).
THEOREM NoWorkIsEverStranded == Spec => []NoStrandedWork
<1>1. AdmissionInv => NoStrandedWork
  BY DEF AdmissionInv, WorkInv, NoStrandedWork, Owed
<1> QED
  BY AdmissionInvariant, <1>1, PTL

\* An attempt is published only while the runtime runs, and a quiescent runtime
\* holds nothing (publish_attempt, drain_to_quiescence).
THEOREM ClosingIsAlwaysSafe == Spec => []ClosingIsSafe
<1>1. AdmissionInv => ClosingIsSafe
  <2> SUFFICES ASSUME AdmissionInv PROVE ClosingIsSafe
    OBVIOUS
  <2>1. TypeOK /\ OwnerInv /\ DrainInv
    BY DEF AdmissionInv
  <2>2. AdmittingIsRunning
    BY <2>1 DEF OwnerInv, AdmittingIsRunning
  <2>3. ASSUME lifecycle = "Quiescent"
        PROVE  /\ NoAdmissions /\ slot = "none" /\ BackgroundIdle
               /\ pc[Worker] = "gone" /\ pc[Compactor] = "parked" /\ ~failed
    <3>1. drain = "ok"
      BY <2>1, <2>3 DEF DrainInv
    <3>2. Unsettled = {} /\ Resolved /\ NoAdmissions
      BY <2>1, <3>1 DEF DrainInv
    <3>3. BackgroundIdle
      BY <3>2 DEF Unsettled, Resolved, BackgroundIdle
    <3> QED
      BY <2>1, <3>1, <3>2, <3>3 DEF DrainInv, Resolved
  <2> QED
    BY <2>1, <2>2, <2>3 DEF ClosingIsSafe, QuiescenceIsTotal
<1> QED
  BY AdmissionInvariant, <1>1, PTL

\* The conversation state has at most one owner, which the slot names
\* (publish_attempt, admit_compaction, admit_next_scheduled).
THEOREM ConversationHasOneOwner == Spec => []OneConversationOwner
<1>1. AdmissionInv => OneConversationOwner
  <2> SUFFICES ASSUME AdmissionInv PROVE OneConversationOwner
    OBVIOUS
  <2>1. OwnerInv
    BY DEF AdmissionInv
  <2>2. Cardinality(Owners) <= 1
    <3>1. CASE Owners = {}
      BY <3>1, FS_EmptySet
    <3>2. ASSUME NEW t \in Owners
          PROVE  Cardinality(Owners) <= 1
      <4>1. Owners = {t}
        BY <2>1 DEF OwnerInv
      <4> QED
        BY <4>1, FS_Singleton
    <3> QED
      BY <3>1, <3>2
  <2> QED
    BY <2>1, <2>2 DEF OwnerInv, OneConversationOwner
<1> QED
  BY AdmissionInvariant, <1>1, PTL

\* A cycle meets at most three storage errors, and the third is final
\* (AdmissionRetryBudget).
THEOREM FaultsAreAlwaysBounded == Spec => []FaultsAreBounded
<1>1. AdmissionInv => FaultsAreBounded
  <2> SUFFICES ASSUME AdmissionInv PROVE FaultsAreBounded
    OBVIOUS
  <2>1. FaultInv /\ faults.cycle \in Nat
    BY AdmissionAssumption DEF AdmissionInv, TypeOK, HealthTypeOK
  <2>2. Cardinality(Stages) = 2
    <3>1. IsFiniteSet({"select"}) /\ Cardinality({"select"}) = 1
      BY FS_Singleton
    <3>2. Stages = {"select"} \cup {"adopt"} /\ "adopt" \notin {"select"}
      BY DEF Stages
    <3> QED
      BY <3>1, <3>2, FS_AddElement
  <2> QED
    BY <2>1, <2>2 DEF FaultInv, FaultsAreBounded
<1> QED
  BY AdmissionInvariant, <1>1, PTL

\* The reaper never claims a runtime that has work it could do (claim_idle).
THEOREM IdleClaimIsAlwaysSafe == Spec => IdleClaimIsSafe
<1>1. AdmissionInv /\ ClaimIdle =>
        (available => waiting = {} /\ rounds = 0) /\ ~continuation /\ BackgroundIdle
  BY DEF AdmissionInv, ProbeInv, ClaimIdle
<1>2. AdmissionInv /\ [Next]_vars =>
        [ClaimIdle => /\ available => waiting = {} /\ rounds = 0
                      /\ ~continuation
                      /\ BackgroundIdle]_vars
  BY <1>1
<1> QED
  BY AdmissionInvariant, <1>2, PTL DEF Spec, IdleClaimIsSafe

\* A recovered turn is owed until an attempt that answers it is published
\* (admission.rs).
THEOREM ObligationIsAlwaysKept == Spec => ObligationIsKept
<1>1. [Next]_vars => [continuation /\ ~continuation' => admitted' = admitted + 1]_vars
  BY ObligationStep
<1> QED
  BY <1>1, PTL DEF Spec, ObligationIsKept
=============================================================================
