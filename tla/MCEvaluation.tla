---------------------------- MODULE MCEvaluation ----------------------------
(***************************************************************************)
(* An instance of Evaluation for TLC.                                      *)
(***************************************************************************)
EXTENDS Evaluation, TLC

CONSTANTS d1, d2, d3

\* Bound: three criteria.  The index finds up to four items for the first,
\* of three documents; for the second nothing or two large items; and for the
\* third three items of one document.
Some(scores, tokens) == [doc : {d1, d2, d3}, score : scores, tokens : tokens]
First == UNION {[1..n -> Some({4, 9}, {1, 3})] : n \in 1..3}
         \union [1..4 -> Some({9}, {3})]
Large == <<[doc |-> d1, score |-> 5, tokens |-> 5], [doc |-> d2, score |-> 6, tokens |-> 4]>>
Three == [i \in 1..3 |-> [doc |-> d1, score |-> 10 - i, tokens |-> 2]]

\* Bound: scores are looked at for a little evidence only ...
Little == {<<<<>>, <<>>, Three>>}
MCFound == <<{<<first, second, Three>> : first \in First, second \in {<<>>, Large}}
                \union Little,
             Little>>
FewScored == stage \in {"retrieve", "rules"} \/ found = Retrieved(CHOOSE f \in Little : TRUE)

\* ... and a second run for what it spends.
SecondSpends == runs = 2 => report.total = 0 /\ report.review

MCStandin == <<[doc |-> None, score |-> 8, tokens |-> 1]>>
MCLlmScores == {-1, 6, 9, 21}
MCWeight == <<2, 1, 1>>
MCMaxScore == <<10, 20, 10>>
=============================================================================
