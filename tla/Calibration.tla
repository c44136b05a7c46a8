----------------------------- MODULE Calibration -----------------------------
(***************************************************************************)
(* `sectum-ai calibrate`: from labelled similarities, the semantic gate     *)
(* that admits no negative and has the best F1.  Similarities are even      *)
(* integers, so that a midpoint is an integer and one unit above or below   *)
(* a score stands for the harness's 1e-6.                                   *)
(***************************************************************************)
EXTENDS Integers, FiniteSets, FiniteSetsExt

CONSTANT DEFAULT_SEMANTIC_THRESHOLD

\* An example is a label, whether it is a leak, and its similarity.
Admitted(examples, t) == {e \in examples : e.similarity >= t}
Positives(examples) == {e \in examples : e.positive}

TruePositives(examples, t)  == Cardinality(Positives(Admitted(examples, t)))
FalsePositives(examples, t) == Cardinality(Admitted(examples, t)) - TruePositives(examples, t)
FalseNegatives(examples, t) == Cardinality(Positives(examples)) - TruePositives(examples, t)

\* _score_at's F1 as a fraction: 2 tp / (2 tp + fp + fn).
F1(examples, t) == [num |-> 2 * TruePositives(examples, t),
                    den |-> 2 * TruePositives(examples, t)
                            + FalsePositives(examples, t) + FalseNegatives(examples, t)]
Better(f, g) == f.num * g.den > g.num * f.den

Scores(examples) == {e.similarity : e \in examples}

\* The scores with no other between them.
Neighbours(scores) ==
    {p \in scores \X scores :
        p[1] < p[2] /\ \A s \in scores : s <= p[1] \/ s >= p[2]}

\* _candidate_thresholds: a point below the least score, the midpoints of
\* neighbours, a point above the greatest.
Candidates(examples) ==
    LET scores == Scores(examples)
        Clamp(n) == IF n < 0 THEN 0 ELSE n
    IN IF scores = {} THEN {DEFAULT_SEMANTIC_THRESHOLD}
       ELSE {Clamp(Min(scores) - 1), Max(scores) + 1}
            \cup {(p[1] + p[2]) \div 2 : p \in Neighbours(scores)}

Eligible(examples) ==
    {t \in Candidates(examples) :
        FalsePositives(examples, t) = 0 /\ TruePositives(examples, t) > 0}

\* Fault: the best F1 wins, false positives or not.
RecommendBestF1(examples) ==
    {t \in Candidates(examples) : \A u \in Candidates(examples) :
        ~Better(F1(examples, u), F1(examples, t))}

\* _recommend: the best F1 among the eligible, the lower threshold on a tie; no
\* eligible candidate recommends nothing.
Recommended(examples) ==
    {t \in Eligible(examples) : \A u \in Eligible(examples) :
        \/ Better(F1(examples, t), F1(examples, u))
        \/ ~Better(F1(examples, u), F1(examples, t)) /\ t <= u}

\* calibrate_threshold: the recommendation, or the shipped default.
CalibratedThreshold(examples) ==
    IF Recommended(examples) = {} THEN DEFAULT_SEMANTIC_THRESHOLD
    ELSE CHOOSE t \in Recommended(examples) : TRUE
=============================================================================
