---------------------------- MODULE MCAdmission ----------------------------
(* An instance of the coordinator for TLC.  Its states are those of three    *)
(* kinds of behaviour and of their mixtures.                                 *)
EXTENDS AttemptAdmission

CONSTANT j1

NoCompaction == pc[Compactor] = "parked"
NoOther == available /\ start = "none" /\ pc[Scheduler] = "parked"
NoGoal == rounds = 0 /\ control = "idle"
NoSender == sender = "idle"
NoJob == \A j \in Jobs : job[j] = "none"

\* a job and a sender outside the coordinator, with a Goal or a second message
Working == /\ NoCompaction /\ NoOther
           /\ faults.total = 0
           /\ NoGoal \/ last <= 1

\* a compaction, or a scheduled start and the catalog, which a drain finds
\* without a message; or a compaction and a scheduled start without either
Visited == /\ NoSender /\ NoJob /\ NoGoal
           /\ faults.total = 0
           /\ \/ NoOther
              \/ NoCompaction /\ (last = 0 \/ drain = "off")
              \/ last = 0 /\ available /\ drain = "off"
           /\ available \/ start = "none"

\* storage errors: as many as the policy allows or one that a drain finds; one
\* under a job, or the two that make it give its terminal up before the drain; or
\* one under a compaction or a Goal
Failing == /\ NoSender /\ NoOther
           /\ last <= 1
           /\ \/ /\ NoJob /\ NoGoal /\ NoCompaction
                 /\ faults.total <= 1 \/ drain = "off"
              \/ /\ NoGoal /\ NoCompaction
                 /\ \/ faults.total <= 1 /\ drain = "off"
                    \/ faults.total <= 2 /\ \E j \in Jobs : job[j] = "abandoned"
              \/ /\ NoJob /\ last = 0
                 /\ faults.total <= 1
                 /\ NoGoal \/ (NoCompaction /\ drain = "off")

Bounded == Working \/ Visited \/ Failing
============================================================================
