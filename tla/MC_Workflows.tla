----------------------------- MODULE MC_Workflows -----------------------------
(* Small instances of Workflows: two runs in one conversation that a person's *)
(* Goals, a schedule and other users share.                                   *)
EXTENDS Workflows, TLC

CONSTANTS r1, r2, s1, e1, p1
OneProject == [e \in Entries |-> p1]
GoalInOne == {[entry |-> e1, cwd |-> p1, mode |-> "goal"]}
BoundToOne == {[entry |-> e1, cwd |-> p1, mode |-> "task", repeats |-> TRUE]}
Symmetry == Permutations(Runs)

\* A failed save or a crash in a turn is not met as well while a run is there that
\* the calendar left behind.
SlipAlone == (\E r \in Runs : run[r].again) => healthy /\ unsure = {}
=============================================================================
