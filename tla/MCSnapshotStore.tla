--------------------------- MODULE MCSnapshotStore ---------------------------
(***************************************************************************)
(* An instance of SnapshotStore for TLC.                                   *)
(***************************************************************************)
EXTENDS SnapshotStore, TLC

Over(t) == at[t] \in {"answered", "lost"}
Active == {t \in Threads : at[t] # "idle" /\ ~Over(t)}

\* Bound: two operations at a time.
TwoAtATime == Cardinality(Active) <= 2

\* Bound: one evaluation is created, the longest of the operations.
OneEvaluation == Cardinality({t \in Threads : op[t] = "create_evaluation_job"}) <= 1

Symmetric == Permutations(Threads) \union Permutations(Processes)
=============================================================================
