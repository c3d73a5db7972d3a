---------------------------- MODULE TokenBudget ----------------------------
(***************************************************************************)
(* Packing evidence into token budgets (token_budget.py): one budget for   *)
(* the evidence of a criterion, one for the whole report.                  *)
(*                                                                         *)
(* An item of evidence is a record [doc, score, tokens]: what it says is   *)
(* left out, and tokens is what count_tokens makes of it.                  *)
(***************************************************************************)
EXTENDS Integers, Sequences, FiniteSets

CONSTANTS
    SingleBudget, ReportBudget,     \* SINGLE_CRITERIA_BUDGET, TOTAL_REPORT_BUDGET
    MinEvidence, MaxEvidence,       \* per criterion
    Documents,                      \* the ids of documents
    None                            \* no document id, no report

ASSUME BudgetAssumption ==
    /\ SingleBudget \in Int /\ ReportBudget \in Int
    /\ MinEvidence \in Nat \ {0} /\ MaxEvidence \in Nat
    /\ MinEvidence <= MaxEvidence

Items == [doc : Documents \union {None}, score : Int, tokens : Nat]

Least(a, b) == IF a <= b THEN a ELSE b

\* f[1] + ... + f[n], as a recursive function for the proofs' sake.
SumTo(f, n) ==
    LET sum[k \in 0..n] == IF k = 0 THEN 0 ELSE sum[k - 1] + f[k]
    IN sum[n]

\* S in the order of Before; SetToSortSeq enumerates too much for this.
Sorted(S, Before(_, _)) ==
    [k \in 1..Cardinality(S) |->
        CHOOSE x \in S : Cardinality({y \in S : Before(y, x)}) = k - 1]

\* What s has at the positions in S.
Ascending(S) == Sorted(S, <)
Picked(s, S) == [k \in 1..Cardinality(S) |-> s[Ascending(S)[k]]]

TokensOf(ev) == SumTo([i \in DOMAIN ev |-> ev[i].tokens], Len(ev))

\* Best first; items of one score stay in the order they were retrieved.
Ranked(ev) ==
    LET Better(i, j) == \/ ev[i].score > ev[j].score
                        \/ ev[i].score = ev[j].score /\ i < j
        order == Sorted(DOMAIN ev, Better)
    IN [k \in 1..Least(Len(ev), MaxEvidence) |-> ev[order[k]]]

\* One item of each document, and of the others as many as the minimum wants.
DedupByDocument(ranked) ==
    LET Again(i)  == ranked[i].doc # None /\ \E j \in 1..(i - 1) : ranked[j].doc = ranked[i].doc
        kept      == Picked(ranked, {i \in DOMAIN ranked : ~Again(i)})
        deferred  == Picked(ranked, {i \in DOMAIN ranked : Again(i)})
        needed    == IF Len(kept) < MinEvidence THEN MinEvidence - Len(kept) ELSE 0
    IN kept \o SubSeq(deferred, 1, Least(needed, Len(deferred)))

\* Mutant: the item that goes over the budget is still taken.
Packed_OneTooMany(ev) ==
    LET Fits(n) == n <= MinEvidence \/ TokensOf(SubSeq(ev, 1, n - 1)) <= SingleBudget
    IN SubSeq(ev, 1, CHOOSE n \in 0..Len(ev) :
                        /\ \A m \in 1..n : Fits(m)
                        /\ n = Len(ev) \/ ~Fits(n + 1))

\* Items are taken until one does not fit; the minimum always is.
Packed(ev) ==
    LET Fits(n) == n <= MinEvidence \/ TokensOf(SubSeq(ev, 1, n)) <= SingleBudget
    IN SubSeq(ev, 1, CHOOSE n \in 0..Len(ev) :
                        /\ \A m \in 1..n : Fits(m)
                        /\ n = Len(ev) \/ ~Fits(n + 1))

TrimToBudget(ev) == Packed(DedupByDocument(Ranked(ev)))

-----------------------------------------------------------------------------
(* The whole report: evidence is a function from 1..N to sequences          *)

References(evidence) ==
    UNION {{<<c, i>> : i \in DOMAIN evidence[c]} : c \in DOMAIN evidence}

Item(evidence, ref) == evidence[ref[1]][ref[2]]

TokensOfReport(evidence) ==
    SumTo([c \in DOMAIN evidence |-> TokensOf(evidence[c])], Len(evidence))

\* The positions of criterion c that are left.
Stays(evidence, gone, c) == {i \in DOMAIN evidence[c] : <<c, i>> \notin gone}

\* The lower score first; of one score, the order of criteria and items.
Lower(evidence, r, s) ==
    LET a == Item(evidence, r).score  b == Item(evidence, s).score
    IN \/ a < b
       \/ a = b /\ r[1] < s[1]
       \/ a = b /\ r[1] = s[1] /\ r[2] < s[2]

ScoredRefs(evidence) == Sorted(References(evidence), LAMBDA r, s : Lower(evidence, r, s))

\* What goes, and what it leaves to be packed: the lowest scores, whatever
\* criterion they belong to, until the rest fits; a criterion keeps its minimum.
Consider(evidence, state, r) ==
    IF \/ state.total <= ReportBudget
       \/ Cardinality(Stays(evidence, state.gone, r[1])) <= MinEvidence
    THEN state
    ELSE [gone |-> state.gone \union {r}, total |-> state.total - Item(evidence, r).tokens]

Removed(evidence) ==
    LET order == ScoredRefs(evidence)
        last  == Cardinality(References(evidence))
        state[k \in 0..last] ==
            IF k = 0 THEN [gone |-> {}, total |-> TokensOfReport(evidence)]
            ELSE Consider(evidence, state[k - 1], order[k])
    IN state[last].gone

ApplyReportBudget(evidence) ==
    LET trimmed == [c \in DOMAIN evidence |-> TrimToBudget(evidence[c])]
    IN IF TokensOfReport(trimmed) <= ReportBudget THEN trimmed
       ELSE LET gone == Removed(trimmed)
            IN [c \in DOMAIN trimmed |-> Picked(trimmed[c], Stays(trimmed, gone, c))]
=============================================================================
