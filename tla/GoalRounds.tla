----------------------------- MODULE GoalRounds -----------------------------
(***************************************************************************)
(* The conversation Goal and its autonomous rounds                         *)
(* (src/src/goal.rs and accept_goal_round, write_goal of                   *)
(* src/src/durable/sqlite/inbox.rs), composed with the pending inbox.      *)
(*                                                                         *)
(* Several writers hold a GoalRef they observed earlier: runtime clients   *)
(* (user controls), the model's goal tool, the round driver, and the       *)
(* interrupt of a Goal attempt, which holds the reference that admitted    *)
(* that attempt.  A round takes one unit of the budget and accepts its     *)
(* continuation message in the same transaction.                           *)
(***************************************************************************)
EXTENDS PendingInbox

CONSTANTS
    Writers,       \* holders of an observed GoalRef; one of them is the driver
    MaxBudget,     \* MAX_ROUND_BUDGET
    MaxGoal        \* bound on the revisions of one run

ASSUME GoalAssumption == /\ MaxBudget \in Nat \ {0}
                         /\ MaxGoal \in Nat

VARIABLES
    goal,     \* table goal_state, at most one row
    rounds,   \* the journal's RoundAdmitted facts
    seen      \* the GoalRef each writer observed last

goalVars == <<goal, rounds, seen>>
allVars == <<vars, goalVars>>

Phases == {"Active", "Paused", "Blocked", "Complete"}

\* the id is named after the revision that created the Goal, so a number is enough
GoalRef == [id : Nat, revision : Nat]
NoRef == [id |-> 0, revision |-> 0]

\* revision 0 stands for the absent row
NoGoal == [ref |-> NoRef, phase |-> "Complete", budget |-> 0, consumed |-> 0]

GoalTypeOK ==
    /\ goal \in [ref : GoalRef, phase : Phases, budget : Nat, consumed : Nat]
    /\ rounds \subseteq [ref : GoalRef, round : Nat, seq : Sequences]
    /\ seen \in [Writers -> GoalRef]

GoalInit ==
    /\ Init
    /\ goal = NoGoal
    /\ rounds = {}
    /\ seen = [w \in Writers |-> NoRef]

-----------------------------------------------------------------------------
(* transition: the pure state machine of the durable write.                *)

Bump(ref) == [ref EXCEPT !.revision = @ + 1]

\* A new Goal starts its revisions again, as an independent object would.
Mut_CreateRestartsRevision(b) ==
    /\ goal.phase = "Complete"
    /\ b \in 1..MaxBudget
    /\ goal' = [ref |-> [id |-> 1, revision |-> 1], phase |-> "Active",
                budget |-> b, consumed |-> 0]
    /\ UNCHANGED <<vars, rounds, seen>>

\* GoalWrite::Create: only over nothing or over a finished Goal
Create(b) ==
    /\ goal.phase = "Complete"
    /\ goal.ref.revision < MaxGoal
    /\ b \in 1..MaxBudget
    /\ goal' = [ref |-> [id |-> goal.ref.revision + 1, revision |-> goal.ref.revision + 1],
                phase |-> "Active", budget |-> b, consumed |-> 0]
    /\ UNCHANGED <<vars, rounds, seen>>

\* the guard common to every GoalWrite::Mutate: an exact reference, not terminal
Current(ref) ==
    /\ goal # NoGoal
    /\ goal.ref = ref
    /\ goal.phase # "Complete"
    /\ goal.ref.revision < MaxGoal

MovePhase(w, from, to) ==
    /\ Current(seen[w])
    /\ goal.phase \in from
    /\ goal' = [goal EXCEPT !.phase = to, !.ref = Bump(@)]
    /\ UNCHANGED <<vars, rounds, seen>>

Pause(w) == MovePhase(w, {"Active"}, "Paused")
Resume(w) == MovePhase(w, {"Paused", "Blocked"}, "Active")
Block(w) == MovePhase(w, {"Active"}, "Blocked")
Complete(w) == MovePhase(w, {"Active"}, "Complete")

\* GoalMutation::Edit: another objective, which is not modelled
EditObjective(w) ==
    /\ Current(seen[w])
    /\ goal' = [goal EXCEPT !.ref = Bump(@)]
    /\ UNCHANGED <<vars, rounds, seen>>

SetBudget(w, b) ==
    /\ Current(seen[w])
    /\ b \in 1..MaxBudget
    /\ b >= goal.consumed
    /\ goal' = [goal EXCEPT !.budget = b, !.ref = Bump(@)]
    /\ UNCHANGED <<vars, rounds, seen>>

\* load_goal: an observation that may be stale when it is used
Observe(w) ==
    /\ goal # NoGoal
    /\ seen' = [seen EXCEPT ![w] = goal.ref]
    /\ UNCHANGED <<vars, goal, rounds>>

-----------------------------------------------------------------------------
(* The round frontier and the interrupt.                                   *)

\* accept_goal_round: compare the reference, take one unit of the budget and
\* accept the continuation, all or nothing
AcceptGoalRound(w, b) ==
    /\ Current(seen[w])
    /\ goal.phase = "Active"
    /\ goal.consumed < goal.budget
    /\ AcceptContinuation(b)
    /\ goal' = [goal EXCEPT !.consumed = @ + 1, !.ref = Bump(@)]
    /\ rounds' = rounds \cup {[ref |-> Bump(goal.ref), round |-> goal.consumed + 1,
                               seq |-> next + 1]}
    /\ UNCHANGED seen

\* pause_if_current: the interrupt of an attempt that an adopted round started
\* pauses the Goal only while it is exactly the authority that admitted it
PauseIfCurrent(f) ==
    /\ f \in rounds
    /\ f.seq \in Seqs(ledger)
    /\ Current(f.ref)
    /\ goal.phase = "Active"
    /\ goal' = [goal EXCEPT !.phase = "Paused", !.ref = Bump(@)]
    /\ UNCHANGED <<vars, rounds, seen>>

-----------------------------------------------------------------------------
GoalWrite ==
    \/ \E b \in 1..MaxBudget : Create(b)
    \/ \E w \in Writers : \/ Pause(w) \/ Resume(w) \/ Block(w) \/ Complete(w)
                          \/ EditObjective(w)
                          \/ \E b \in 1..MaxBudget : SetBudget(w, b)
    \/ \E f \in rounds : PauseIfCurrent(f)

GoalAction ==
    \/ GoalWrite
    \/ \E w \in Writers : Observe(w) \/ \E b \in Bodies : AcceptGoalRound(w, b)

\* the inbox goes on as before; only its death is also the death of the observers
InboxAction == (Accept \/ SelectPendingBatch \/ AdoptPendingBatch \/ Edit) /\ UNCHANGED goalVars

Restart ==
    /\ Crash
    /\ seen' = [w \in Writers |-> NoRef]
    /\ UNCHANGED <<goal, rounds>>

GoalNext == GoalAction \/ InboxAction \/ Restart

GoalSpec == GoalInit /\ [][GoalNext]_allVars

-----------------------------------------------------------------------------
RoundsOf(g) == {f \in rounds : f.ref.id = g.ref.id}

\* What the Goal says it consumed is the number of rounds the journal admitted
\* for that very Goal, never more than its budget, across edits of the budget,
\* crashes and replaced Goals (goal.rs 155-249, inbox.rs 88-163).
BudgetIsHonoured ==
    /\ goal.consumed = Cardinality(RoundsOf(goal))
    /\ goal.consumed <= goal.budget

\* At most one continuation waits, and each admitted round has its message,
\* pending or adopted: a restart neither repeats nor loses a paid round
\* (inbox.rs 107-160).
OneContinuationWaits ==
    /\ \A r, q \in {p \in pending : p.source = "goal"} : r = q
    /\ {f.seq : f \in rounds} =
          Seqs({p \in pending : p.source = "goal"}) \cup Seqs({x \in ledger : x.source = "goal"})

\* The accounts of a Goal hold together over stale references, replacements,
\* budget changes and process death: rounds are paid once, within the budget,
\* and at most one of them waits (goal.rs 155-248, inbox.rs 88-164).
RoundsAreHonest == GoalTypeOK /\ BudgetIsHonoured /\ OneContinuationWaits
=============================================================================
