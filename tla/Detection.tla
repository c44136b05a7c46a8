------------------------------ MODULE Detection ------------------------------
(***************************************************************************)
(* One probe's detect(): every observation goes through the exact scan, the *)
(* credential scan and the semantic tier, whose embedder and judge are      *)
(* remote calls that may fail, lie or hallucinate; what was found is then   *)
(* collapsed to one finding per id.  The semantic gate is calibrated first. *)
(***************************************************************************)
EXTENDS Calibration, TextMatch

CONSTANTS
    Markers,    \* the manifest, in order: sequence of Marker
    Plans,      \* the judged steps of a probe: sequences of [observer, techniques, target]
    Texts,      \* what a step may be answered with
    Spans,      \* what a judge may cite, beside the marker itself
    Labelled,   \* the examples a calibration may be made of
    MaxScore,   \* similarity 1.0
    MAX_ATTEMPTS, \* attempts of one provider call
    NoUser

MAX_INTERPOSED_TOKENS == 1
ENTITY_TEMPLATE_TOKENS == {<<"project">>}

ASSUME SequencesAssumed ==
    Markers \in Seq(ToSet(Markers)) /\ \A plan \in Plans : plan \in Seq(ToSet(plan))
ASSUME ScoresAssumed == MaxScore \in Nat /\ DEFAULT_SEMANTIC_THRESHOLD \in 0..MaxScore
\* The examples' similarities are even: see Calibration.
ASSUME LabelledAssumed ==
    /\ IsFiniteSet(Labelled)
    /\ \A e \in Labelled : e.similarity \in 0..MaxScore /\ e.similarity % 2 = 0
ASSUME AttemptsAssumed == MAX_ATTEMPTS \in Nat \ {0}

VARIABLES
    steps,      \* the plan this probe runs
    examples,   \* the labelled set of the calibration
    threshold,  \* the semantic gate, once it is set
    texts,      \* the answers so far, one per step
    waiting,    \* the entity markers still to be weighed in the last answer
    call,       \* the provider call under way
    raw,        \* the findings in the order they were made
    outcome,    \* "calibrating", "detecting", "detected" or "raised"
    result      \* the findings of the probe

vars == <<steps, examples, threshold, texts, waiting, call, raw, outcome, result>>

Unset == -1
NoCall == [to |-> "none", tries |-> 0, similarity |-> 0]

-----------------------------------------------------------------------------
(* Markers and observers. *)

is_cross_principal(marker, observer) ==
    \/ marker.tenant # observer.tenant
    \/ /\ observer.user # NoUser /\ marker.user # NoUser
       /\ observer.user # marker.user

Foreign(observer, type) ==
    SelectSeq(Markers, LAMBDA m : m.type = type /\ is_cross_principal(m, observer))

EntityMarkers == {i \in DOMAIN Markers : Markers[i].type = "entity"}
Carrying(token) == {i \in EntityMarkers : Contains(Markers[i].tokens, token)}

\* The template's words, and whatever more than half of the entities share.
Boilerplate ==
    ENTITY_TEMPLATE_TOKENS
    \cup {t \in UNION {ToSet(Markers[i].tokens) : i \in EntityMarkers} :
            Cardinality(Carrying(t)) >= 2
            /\ 2 * Cardinality(Carrying(t)) > Cardinality(EntityMarkers)}

IsDigits(token) == token = <<"0", "7">>

-----------------------------------------------------------------------------
(* Findings. *)

Finding(marker, step, status, severity, confidence, evidence) ==
    [id |-> <<marker.id, step.observer>>, status |-> status, severity |-> severity,
     confidence |-> confidence, evidence |-> evidence, techniques |-> step.techniques]

Plaintext(marker) == [kind |-> "quote", tokens |-> marker.tokens, bytes |-> "verbatim"]
Redacted == [kind |-> "redacted", tokens |-> <<>>, bytes |-> "verbatim"]
Said(what) == [kind |-> what, tokens |-> <<>>, bytes |-> "verbatim"]

ExactHits(step, text) ==
    LET hits == SelectSeq(Foreign(step.observer, "hard"),
                          LAMBDA m : residual_present(m.tokens, text))
    IN [i \in DOMAIN hits |-> Finding(hits[i], step, "confirmed", 4, MaxScore, Plaintext(hits[i]))]

\* A key in a text whose separators changed still has its shape.
SecretHits(step, text) ==
    LET hits == SelectSeq(Foreign(step.observer, "secret"),
                          LAMBDA m : \/ residual_present(m.tokens, text)
                                     \/ Within(Spelled(m.tokens), Spelled(text.tokens)))
    IN [i \in DOMAIN hits |-> Finding(hits[i], step, "confirmed", 4, MaxScore, Redacted)]

EmptyAmbiguity(step) ==
    LET targets == SelectSeq(Markers, LAMBDA m : m.id = step.target
                                                 /\ is_cross_principal(m, step.observer))
    IN [i \in DOMAIN targets |->
          [Finding(targets[i], step, "unverified", 0, 0, Said("ambiguous"))
             EXCEPT !.id = <<"empty", @[1], @[2]>>]]

-----------------------------------------------------------------------------
(* The semantic tier. *)

Verbatim(marker, text) == residual_present(marker.tokens, text)

Present(marker, text) ==
    \/ Verbatim(marker, text)
    \/ ordered_within_span(text.tokens, marker.tokens, MAX_INTERPOSED_TOKENS)

\* _span_ties_to_marker: the cited span is in the text and shares a token with
\* the marker that is neither boilerplate nor a bare number.
TiesToMarker(span, marker, text) ==
    /\ {t \in (ToSet(span.tokens) \cap ToSet(marker.tokens)) \ Boilerplate : ~IsDigits(t)} # {}
    /\ ordered_within_span(text.tokens, span.tokens, MAX_INTERPOSED_TOKENS)

\* _span_traceable
Traceable(span, marker, text) ==
    \/ ordered_within_span(text.tokens, marker.tokens, MAX_INTERPOSED_TOKENS)
    \/ TiesToMarker(span, marker, text)

Judged(verdict, marker, text) == verdict.leak /\ Traceable(verdict.span, marker, text)

\* Fault: only a judge confirms.
ConfirmedByJudge(verdict, marker, text) == Judged(verdict, marker, text)

\* Fault: a judge's word is enough.
ConfirmedOnWord(verdict, marker, text) == Present(marker, text) \/ verdict.leak

\* A marker that is there is a leak by observation, whatever the judge says.
IsConfirmed(verdict, marker, text) == Present(marker, text) \/ Judged(verdict, marker, text)

EvidenceOf(verdict, marker, text) ==
    IF /\ Judged(verdict, marker, text)
       /\ Quotable(verdict.span, text)
       /\ TiesToMarker(verdict.span, marker, text)
    THEN [kind |-> "quote"] @@ verdict.span
    ELSE IF Verbatim(marker, text) THEN Plaintext(marker) ELSE Said("interposed")

SemanticFinding(step, marker, text, similarity, verdict) ==
    IF IsConfirmed(verdict, marker, text)
    THEN Finding(marker, step, "confirmed", 3,
                 IF Verbatim(marker, text) THEN MaxScore ELSE similarity,
                 EvidenceOf(verdict, marker, text))
    ELSE Finding(marker, step, "unverified", 0, similarity, Said("rationale"))

-----------------------------------------------------------------------------
(* dedupe_findings: the strongest of an id, at the place of the first. *)

Strength(f) == <<IF f.status = "confirmed" THEN 1 ELSE 0, f.severity, f.confidence>>
Stronger(f, g) ==
    LET s == Strength(f) t == Strength(g)
    IN \/ s[1] > t[1]
       \/ s[1] = t[1] /\ s[2] > t[2]
       \/ s[1] = t[1] /\ s[2] = t[2] /\ s[3] > t[3]

\* Fault: nothing is collapsed.
KeepAll(findings) == findings

\* Fault: the techniques are merged whatever the verdicts.
MergeAlways(existing, f) ==
    LET winner == IF Stronger(f, existing) THEN f ELSE existing
    IN [winner EXCEPT !.techniques = existing.techniques \cup f.techniques]

Merge(existing, f) ==
    LET winner == IF Stronger(f, existing) THEN f ELSE existing
    IN IF existing.status = f.status
       THEN [winner EXCEPT !.techniques = existing.techniques \cup f.techniques]
       ELSE winner

\* One step of the loop: the dict keeps the place of the first finding of an id.
AddFinding(best, f) ==
    IF \E i \in DOMAIN best : best[i].id = f.id
    THEN [i \in DOMAIN best |-> IF best[i].id = f.id THEN Merge(best[i], f) ELSE best[i]]
    ELSE Append(best, f)

DedupeFindings(findings) ==
    LET best[n \in 0..Len(findings)] ==
            IF n = 0 THEN <<>> ELSE AddFinding(best[n - 1], findings[n])
    IN best[Len(findings)]

-----------------------------------------------------------------------------
Init ==
    /\ steps \in Plans
    /\ examples = {} /\ threshold = Unset
    /\ texts = <<>> /\ waiting = <<>> /\ raw = <<>> /\ result = <<>>
    /\ call = NoCall
    /\ outcome = "calibrating"

\* build_calibration_set labels one more observation.
Label ==
    /\ outcome = "calibrating"
    /\ \E e \in Labelled \ examples : examples' = examples \cup {e}
    /\ UNCHANGED <<steps, threshold, texts, waiting, call, raw, outcome, result>>

\* calibrate_threshold
Calibrate ==
    /\ outcome = "calibrating"
    /\ threshold' = CalibratedThreshold(examples)
    /\ outcome' = "calibrated"
    /\ UNCHANGED <<steps, examples, texts, waiting, call, raw, result>>

\* No calibration: a number from the configuration, or the model's preset.
Preset ==
    /\ outcome = "calibrating" /\ examples = {}
    /\ threshold' \in 0..MaxScore
    /\ outcome' = "detecting"
    /\ UNCHANGED <<steps, examples, texts, waiting, call, raw, result>>

\* The gate is written to the configuration; the labelled set is not kept.
Configure ==
    /\ outcome = "calibrated"
    /\ examples' = {}
    /\ outcome' = "detecting"
    /\ UNCHANGED <<steps, threshold, texts, waiting, call, raw, result>>

Idle == outcome = "detecting" /\ waiting = <<>>

\* A step was answered: the exact tiers run, the entities wait for the semantic one.
Observe ==
    /\ Idle /\ Len(texts) < Len(steps)
    /\ LET step == steps[Len(texts) + 1]
       IN \E text \in Texts :
            /\ texts' = Append(texts, text)
            /\ raw' = raw \o ExactHits(step, text) \o SecretHits(step, text)
            /\ waiting' = Foreign(step.observer, "entity")
            /\ call' = IF waiting' = <<>> THEN NoCall ELSE [NoCall EXCEPT !.to = "embedder"]
    /\ UNCHANGED <<steps, examples, threshold, outcome, result>>

\* A step came back empty: no explicit deny, so negative authorization is unproven.
ObserveNothing ==
    /\ Idle /\ Len(texts) < Len(steps)
    /\ texts' = Append(texts, [tokens |-> <<>>, bytes |-> "verbatim"])
    /\ raw' = raw \o EmptyAmbiguity(steps[Len(texts) + 1])
    /\ UNCHANGED <<steps, examples, threshold, waiting, call, outcome, result>>

\* The next entity waiting is weighed, or there is none.
NextMarker ==
    /\ waiting' = Tail(waiting)
    /\ call' = IF Tail(waiting) = <<>> THEN NoCall ELSE [NoCall EXCEPT !.to = "embedder"]

\* The embedder answers: below the gate, a marker that is not there is dropped.
Embed ==
    /\ outcome = "detecting" /\ call.to = "embedder"
    /\ \E similarity \in 0..MaxScore :
          IF ~Present(Head(waiting), Last(texts)) /\ similarity < threshold
          THEN NextMarker
          ELSE call' = [to |-> "judge", tries |-> 0, similarity |-> similarity]
               /\ UNCHANGED waiting
    /\ UNCHANGED <<steps, examples, threshold, texts, raw, outcome, result>>

Verdicts(marker) ==
    [leak : BOOLEAN, span : Spans \cup {[tokens |-> marker.tokens, bytes |-> "verbatim"]}]

Judge ==
    /\ outcome = "detecting" /\ call.to = "judge"
    /\ \E verdict \in Verdicts(Head(waiting)) :
          raw' = Append(raw, SemanticFinding(steps[Len(texts)], Head(waiting), Last(texts),
                                             call.similarity, verdict))
    /\ NextMarker
    /\ UNCHANGED <<steps, examples, threshold, texts, outcome, result>>

\* _post_json: a transient failure is tried again after a backoff.
Retry ==
    /\ outcome = "detecting" /\ call.to # "none"
    /\ call.tries + 1 < MAX_ATTEMPTS
    /\ call' = [call EXCEPT !.tries = @ + 1]
    /\ UNCHANGED <<steps, examples, threshold, texts, waiting, raw, outcome, result>>

\* The last attempt failed, the provider refused the request, or its answer is not
\* a verdict: the probe raises.
Raise ==
    /\ outcome = "detecting" /\ call.to # "none"
    /\ outcome' = "raised"
    /\ UNCHANGED <<steps, examples, threshold, texts, waiting, call, raw, result>>

Finish ==
    /\ Idle /\ Len(texts) = Len(steps)
    /\ result' = DedupeFindings(raw)
    /\ outcome' = "detected"
    /\ UNCHANGED <<steps, examples, threshold, texts, waiting, call, raw>>

Next ==
    \/ Label \/ Calibrate \/ Preset \/ Configure
    \/ Observe \/ ObserveNothing \/ Embed \/ Judge \/ Retry \/ Raise \/ Finish

Spec == Init /\ [][Next]_vars

-----------------------------------------------------------------------------
Outcomes == {"calibrating", "calibrated", "detecting", "detected", "raised"}

TypeOK ==
    /\ steps \in Plans
    /\ outcome \in Outcomes /\ threshold \in -1..(MaxScore + 1)
    /\ Len(texts) <= Len(steps)
    /\ call.tries \in 0..(MAX_ATTEMPTS - 1)
    /\ (call.to = "none") = (waiting = <<>>)
    /\ \A i, j \in DOMAIN result : result[i].id = result[j].id => i = j
    /\ result # <<>> => outcome = "detected"

\* The marker's tokens, in order, with at most n others among them.
Spread(marker, text, n) ==
    \E P \in SUBSET DOMAIN text.tokens :
        /\ Cardinality(P) = Len(marker.tokens)
        /\ LET at == SetToSortSeq(P, <)
           IN /\ \A i \in DOMAIN at : text.tokens[at[i]] = marker.tokens[i]
              /\ at[Len(at)] - at[1] < Len(at) + n

Carries(text, marker) ==
    IF marker.type = "entity" THEN Spread(marker, text, 1)
    ELSE Spread(marker, text, 0) \/ Within(Squashed(marker.tokens), Squashed(text.tokens))

\* A foreign marker that an answer carries is a confirmed leak in the probe's
\* findings, however cautious the judge, however high the gate, and whatever was
\* found for it before or after.
PresentIsConfirmed ==
    outcome = "detected" =>
        \A n \in DOMAIN steps : \A m \in ToSet(Markers) :
            is_cross_principal(m, steps[n].observer) /\ Carries(texts[n], m) =>
                \E i \in DOMAIN result : /\ result[i].id = <<m.id, steps[n].observer>>
                                         /\ result[i].status = "confirmed"

\* What a finding's observer was shown.
Shown(f) == {texts[n] : n \in {k \in DOMAIN texts : steps[k].observer = f.id[2]}}
MarkerOf(f) == CHOOSE m \in ToSet(Markers) : m.id = f.id[1]

\* A judge that lies, parrots the marker or quotes something else confirms
\* nothing: some answer to the observer carries the marker, or a token only that
\* marker has.
NothingFabricated ==
    \A i \in DOMAIN raw : raw[i].status = "confirmed" =>
        \E text \in Shown(raw[i]) :
            \/ Carries(text, MarkerOf(raw[i]))
            \/ /\ MarkerOf(raw[i]).type = "entity"
               /\ \E t \in ToSet(MarkerOf(raw[i]).tokens) \cap ToSet(text.tokens) :
                     Cardinality(Carrying(t)) = 1 /\ ~IsDigits(t)

\* A finding carries exactly the techniques of the detections that reached its
\* verdict, and its verdict is the gravest that was reached, in whichever order
\* the steps came.
TechniqueReachedVerdict ==
    outcome = "detected" =>
        \A i \in DOMAIN result :
            LET same == {k \in DOMAIN raw : raw[k].id = result[i].id}
                agree == {k \in same : raw[k].status = result[i].status}
            IN /\ result[i].techniques = UNION {raw[k].techniques : k \in agree}
               /\ \A k \in same : ~Stronger(raw[k], result[i])

\* A recommended gate admits no negative and no gate without a false positive has
\* a better F1; without a recommendation no gate separates a leak from the rest.
GateIsBest ==
    outcome = "calibrated" =>
        LET clean == {t \in 0..(MaxScore + 1) : FalsePositives(examples, t) = 0
                                                /\ TruePositives(examples, t) > 0}
        IN IF Recommended(examples) = {} THEN clean = {}
           ELSE /\ threshold \in clean
                /\ \A t \in clean : ~Better(F1(examples, t), F1(examples, threshold))

=============================================================================
