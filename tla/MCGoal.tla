------------------------------- MODULE MCGoal -------------------------------
(* The inbox with its senders and clients, and the Goal over an inbox in     *)
(* which nobody edits and nothing is correlated.                             *)
EXTENDS GoalRounds, TLC

GoalSymmetry == Permutations(Writers) \cup Permutations(Clients) \cup Permutations(Bodies)

Plain == /\ correlation = {}
         /\ removed = {}
         /\ \A c \in Clients : view[c] = NoView
         /\ \A r \in pending : r.revision = 0

Bounded == goal = NoGoal \/ Plain
=============================================================================
