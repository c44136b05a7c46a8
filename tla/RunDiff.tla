------------------------------- MODULE RunDiff -------------------------------
(***************************************************************************)
(* `sectum-ai diff` and `baseline --compare`: two run records compared, by *)
(* metric and by finding, with every way the later run can have measured   *)
(* less than the earlier one.  A metric key a record lacks counts as zero. *)
(***************************************************************************)
EXTENDS Score, Sequences

Scalars == {"confirmed_findings", "retrieval_pivot_rate", "poisoning_bleed_delta",
            "inversion_reconstruction_rate", "extraction_efficiency"}
RateNames == Scalars \ {"confirmed_findings"}
Maps == {"retrieval_pivot_rate_by_model", "per_probe_findings", "erasure_residue",
         "side_channel_effect_sizes", "erasure_caveats"}

\* The keys compare_metrics makes a delta of.
Deltas(old, new) ==
    {<<name, "">> : name \in Scalars}
    \cup {k \in DOMAIN old.metrics \cup DOMAIN new.metrics : k[1] \in Maps}

\* A count that is simply absent when it is zero is not a lost measurement.
AbsentWhenClean(key) == key[1] \in {"per_probe_findings", "confirmed_findings"}
KeyLost(old, new, key) == ~AbsentWhenClean(key) /\ Measured(old, key) /\ ~Measured(new, key)
NeitherMeasured(old, new, key) ==
    ~AbsentWhenClean(key) /\ ~Measured(old, key) /\ ~Measured(new, key)
Informational(key) == key[1] = "erasure_caveats"

\* Either run's variance floor makes the pair incomparable.
Bounded(old, new, key) ==
    key[1] = "side_channel_effect_sizes" /\ key[2] \in old.floored \cup new.floored

Worsened(old, new, key) ==
    /\ ~Informational(key) /\ ~Bounded(old, new, key)
    /\ Metric(new, key) > Metric(old, key)

HeadlineUnmeasured(old, new) == {n \in RateNames : KeyLost(old, new, <<n, "">>)}

-----------------------------------------------------------------------------
(* diff_findings, by id. *)

Ids(findings) == {f.id : f \in findings}

NewlyConfirmed(old, new) == {f \in Confirmed(new) : f.id \notin Ids(Confirmed(old))}

Rank(severity) == CASE severity = "critical" -> 4 [] severity = "high" -> 3
                    [] severity = "medium" -> 2 [] severity = "low" -> 1 [] OTHER -> 0

SeverityEscalations(old, new) ==
    {f \in Confirmed(new) : \E g \in Confirmed(old) :
        g.id = f.id /\ Rank(f.severity) > Rank(g.severity)}

-----------------------------------------------------------------------------
(* What the later run measured less of. *)

CoverageLost(old, new) == ExercisedProbes(old) \ ExercisedProbes(new)

ScopeLost(old, new) == LiveSurfaces(old) \ LiveSurfaces(new)

NewlyCounted(old, new, label) ==
    {p \in KeysOf(new, label) : Metric(new, <<label, p>>) > 0 /\ Metric(old, <<label, p>>) = 0}
BoundaryLost(old, new) == NewlyCounted(old, new, "user_steps_dropped")
PlantsLost(old, new)   == NewlyCounted(old, new, "unconfirmed_plants")

\* _erasure_lost: no count at all, a count that became a caveat, or, for records
\* without any baseline, a surface the later run has no provenance row for.
ErasureLost(old, new) ==
    ((KeysOf(old, "erasure_residue") \cup KeysOf(old, "erasure_caveats"))
        \ (KeysOf(new, "erasure_residue") \cup KeysOf(new, "erasure_caveats")))
    \cup (KeysOf(old, "erasure_residue") \ KeysOf(new, "erasure_residue"))
    \cup ((old.coverage \cap RecordedSurfaces(old)) \ RecordedSurfaces(new))

SideChannelLost(old, new) ==
    KeysOf(old, "side_channel_effect_sizes") \ KeysOf(new, "side_channel_effect_sizes")

ScenarioChanged(old, new) == old.scenario # new.scenario

EmbedderChanged(old, new) ==
    old.embedder # "none" /\ new.embedder # "none" /\ old.embedder # new.embedder

\* _swap_scoped: what an embedder swap may have moved in a run.
SwapScoped(run) ==
    ExercisedProbes(run) \cap
        (GEOMETRY_PROBES \cup ErasureWorkflows
         \cup IF "rag_pipeline" \in LiveSurfaces(run) THEN {"rag-pipeline-bleed"} ELSE {})
EmbedderScoped(old, new) ==
    IF EmbedderChanged(old, new) THEN SwapScoped(old) \cup SwapScoped(new) ELSE {}

\* Fault: the gate sees what leaks more, not what was measured less.
RegressedByLeaks(old, new) ==
    \/ \E k \in Deltas(old, new) : Worsened(old, new, k)
    \/ NewlyConfirmed(old, new) # {} \/ SeverityEscalations(old, new) # {}

\* RunDiff.regressed
Regressed(old, new) ==
    \/ \E k \in Deltas(old, new) : Worsened(old, new, k)
    \/ NewlyConfirmed(old, new) # {} \/ SeverityEscalations(old, new) # {}
    \/ CoverageLost(old, new) # {} \/ ScopeLost(old, new) # {}
    \/ BoundaryLost(old, new) # {} \/ PlantsLost(old, new) # {}
    \/ ErasureLost(old, new) # {} \/ SideChannelLost(old, new) # {}
    \/ HeadlineUnmeasured(old, new) # {}
    \/ ScenarioChanged(old, new) \/ EmbedderChanged(old, new)

-----------------------------------------------------------------------------
(* The tag of a metric line, _delta_verdict as _lost_verdict calls it. *)

FedBy(label) ==
    CASE label = "retrieval_pivot_rate"          -> {"rag-entity-bleed", "rag-pipeline-bleed"}
      [] label = "poisoning_bleed_delta"         -> {"rag-poisoning"}
      [] label = "inversion_reconstruction_rate" -> {"embedding-inversion"}
      [] label = "extraction_efficiency"         -> {"ikea-extraction"}
      [] label = "side_channel_effect_sizes"     -> {"kv-cache-timing"}
      [] OTHER                                   -> {}

\* The probes that did not re-measure what the earlier run measured.
LostProbes(old, new) ==
    CoverageLost(old, new) \cup EmbedderScoped(old, new)
    \cup BoundaryLost(old, new) \cup PlantsLost(old, new)
    \cup {p \in CatalogProbes : PROBE_SURFACES(p) \cap ScopeLost(old, new) # {}}

\* The surfaces and tenant pairs it did not re-measure.
LostKeys(old, new) ==
    ErasureLost(old, new) \cup ScopeLost(old, new) \cup SideChannelLost(old, new)
    \cup IF EmbedderChanged(old, new) THEN {"vector_db"} ELSE {}

=============================================================================
