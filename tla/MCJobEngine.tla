----------------------------- MODULE MCJobEngine -----------------------------
(***************************************************************************)
(* Instances of JobEngine for TLC: the types of a small set of jobs and    *)
(* the sets that are interchangeable.                                      *)
(***************************************************************************)
EXTENDS JobEngine, TLC

CONSTANTS parse1, resume1    \* the jobs that do not evaluate

MCJobType ==
    [j \in Jobs |-> CASE j = parse1  -> "parse"
                      [] j = resume1 -> "resume"
                      [] OTHER       -> "evaluation"]

\* Message ids are interchangeable, and so are the threads of one endpoint.
MCSymmetry == Permutations(Msgs) \union Permutations(Relays)
=============================================================================
