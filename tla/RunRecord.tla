------------------------------ MODULE RunRecord ------------------------------
(***************************************************************************)
(* The run record (run.json) as the commands that grade and compare one    *)
(* read it: its findings, the probes and surfaces it versions, and its     *)
(* metrics, as one map from <<label, key>> to a number.  A record is data  *)
(* another build, another machine or an editor may have written.           *)
(***************************************************************************)
EXTENDS Naturals, FiniteSets, FiniteSetsExt, Functions

Confirmed(run) == {f \in run.findings : f.status = "confirmed"}

\* backing_surface: the KV-timing probe's findings name the cache, the model
\* adapter is what ran.
Backing(f) == IF f.surface = "kv_cache" THEN "model_adapter" ELSE f.surface

RecordedSurfaces(run) == DOMAIN run.provenance
LiveSurfaces(run) == {s \in RecordedSurfaces(run) : run.provenance[s] = "live"}
SyntheticSurfaces(run) == {s \in RecordedSurfaces(run) : run.provenance[s] = "synthetic"}

\* A finding proves its probe ran, whatever the bookkeeping says.
ExercisedProbes(run) == run.versions \cup {f.probe : f \in run.findings}

\* The value a record has under a metric key, absent read as zero.
Metric(run, key) == IF key \in DOMAIN run.metrics THEN run.metrics[key] ELSE 0
Measured(run, key) == key \in DOMAIN run.metrics
KeysOf(run, label) == {k[2] : k \in {m \in DOMAIN run.metrics : m[1] = label}}

ErasureWorkflows == {"gdpr-erasure-verification", "gdpr-subject-erasure-verification"}

\* _per_probe_counts
CountOf(run, probe) == Cardinality({f \in Confirmed(run) : f.probe = probe})

\* _refuse_self_contradicting_record: the counts must be those of the findings;
\* only an erasure record may leave the per-probe map empty.
SelfContradicting(run) ==
    LET counted   == {f.probe : f \in Confirmed(run)}
        recorded  == KeysOf(run, "per_probe_findings")
        exempt    == recorded = {} /\ counted \subseteq ErasureWorkflows
    IN \/ Metric(run, <<"confirmed_findings", "">>) # Cardinality(Confirmed(run))
       \/ /\ ~exempt
          /\ \E p \in counted \cup recorded :
                CountOf(run, p) # Metric(run, <<"per_probe_findings", p>>)
=============================================================================
