---------------------------- MODULE MCHumanReview ----------------------------
(***************************************************************************)
(* Instances of HumanReview for TLC.                                       *)
(***************************************************************************)
EXTENDS HumanReview, TLC

Begun == {q \in Requests : ~Asks(q, "idle")} \union {r \in Runs : ~At(r, "idle")}
Done == {q \in Requests : Finished(q)} \union {r \in Runs : At(r, "over")}
RunsOverlap == \E r, s \in Runs \intersect Begun : r # s /\ r \notin before[s] /\ s \notin before[r]

\* Bound: three requests and runs in all, two of them at a time; under
\* LangGraph the third comes after the other two, and runs overlap by
\* themselves.
TwoAtATime ==
    /\ Cardinality(Begun) <= 3
    /\ Cardinality(Begun \ Done) <=
          IF runtime = "compat" \/ Cardinality(Begun) < 3 THEN 2 ELSE 1
    /\ RunsOverlap => runtime = "compat" \/ Begun \subseteq Runs

Symmetric == Permutations(Requests) \union Permutations(Runs) \union Permutations(Keys)
=============================================================================
