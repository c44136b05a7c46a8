----------------------------- MODULE Regression -----------------------------
(***************************************************************************)
(* The gate of a CI pipeline over time: the stack under test changes, so   *)
(* do the configuration and the way the backends behave; each run writes a *)
(* record, `baseline --save` keeps one, and `baseline --compare` (or       *)
(* `diff`) passes or fails the next.  The stack is the environment: it is  *)
(* what the records are about, and what a green gate claims to know.       *)
(***************************************************************************)
EXTENDS RunDiff

CONSTANTS
    Leaks,       \* the leaks the stack may have, see Leak
    FakeLeaks,   \* the ones the built-in fakes show
    Workflows,   \* the commands whose records are compared
    MaxChanges   \* bound: how often the stack or the configuration changes

\* The leaks the probes find, and the residue the erasure commands find.
Residues == {l \in Leaks : l.probe \in ErasureWorkflows}
Attacks  == Leaks \ Residues
ERASURE_SURFACES == {l.surface : l \in Residues}

Probes   == {l.probe : l \in Attacks}
Surfaces == {l.surface : l \in Leaks}
LeaksOf(p) == {l \in Leaks : l.probe = p}
PlantsOf(p) == {l.plant : l \in LeaksOf(p)} \ {0}
SurfaceOf(p) == (CHOOSE l \in LeaksOf(p) : TRUE).surface

\* A leak is known by its id, and only the findings of the timing probe name the cache.
ASSUME LeaksAssumed ==
    /\ IsFiniteSet(Leaks)
    /\ \A l, m \in Leaks : l.id = m.id => l = m
    /\ \A l \in Leaks : l.surface # "kv_cache"
\* A probe drives a surface its slot speaks for, and a slot holds one adapter.
ASSUME SlotsAssumed ==
    /\ \A l \in Attacks : l.surface \in PROBE_SURFACES(l.probe)
    /\ \A l, m \in Attacks : l.surface \in PROBE_SURFACES(m.probe) => l.surface = m.surface
\* What the configured embedder ranks, a similarity search of the vector store finds.
ASSUME GeometryAssumed ==
    \A l \in Attacks : l.geometry # "any" =>
        l.geometry \in {"a", "b"} /\ l.probe \in GEOMETRY_PROBES /\ l.surface = "vector_db"
ASSUME FakesAssumed == FakeLeaks \subseteq Attacks

VARIABLES
    workflow,  \* the command that produces the records
    open,      \* environment: the leaks, or the residue, the stack has
    cfg,       \* environment: configuration and behaviour of the backends
    changes,   \* how often open and cfg have changed
    run,       \* run.json
    tested,    \* the leaks the stack had when run was recorded
    saved,     \* baseline.json
    gate       \* what the last comparison said

vars == <<workflow, open, cfg, changes, run, tested, saved, gate>>

NoRun == [scenario |-> 0]

Cfg0 == [suite |-> Probes, live |-> Surfaces, carries |-> TRUE,
         keeps |-> UNION {PlantsOf(p) : p \in Probes}, detection |-> "full", scenario |-> 1,
         embedder |-> "a", resolved |-> TRUE, floored |-> FALSE,
         scope |-> ERASURE_SURFACES, fails |-> {}, purges |-> ERASURE_SURFACES]

-----------------------------------------------------------------------------
(* The record of `probe`. *)

Live(c, p) == SurfaceOf(p) \in c.live
Dropped(c, p) == {l \in LeaksOf(p) : l.user /\ Live(c, p) /\ ~c.carries}
Landed(c, p) == IF Live(c, p) THEN PlantsOf(p) \cap c.keeps ELSE PlantsOf(p)

Reached(c, l) ==
    /\ l \notin Dropped(c, l.probe)
    /\ l.plant = 0 \/ l.plant \in Landed(c, l.probe)
    /\ l.geometry = "any" \/ l.geometry = c.embedder
    /\ l.verbatim \/ c.detection # "shut"
    /\ l.probe = "kv-cache-timing" => c.resolved
Shown(c, l) == IF Live(c, l.probe) THEN l \in open ELSE l \in FakeLeaks

FindingOf(c, l) ==
    [id |-> <<c.scenario, l.id>>, probe |-> l.probe, severity |-> l.severity,
     surface |-> IF l.probe = "kv-cache-timing" THEN "kv_cache" ELSE l.surface,
     status |-> IF l.verbatim \/ c.detection = "full" THEN "confirmed" ELSE "unverified"]

FoundBy(c, p) == {l \in LeaksOf(p) : Reached(c, l) /\ Shown(c, l)}

\* The probes that interrogated the stack: some step ran, and not every plant of
\* a probe that found nothing had vanished.
Interrogated(c) ==
    {p \in c.suite :
        /\ Dropped(c, p) # LeaksOf(p)
        /\ PlantsOf(p) # {} /\ Landed(c, p) = {} => FoundBy(c, p) # {}
        /\ p = "kv-cache-timing" => c.resolved}

\* Every headline describes the live surfaces only, if the run drove any.
HeadlineProbes(c, name) ==
    {p \in FedBy(name) \cap Interrogated(c) :
        Live(c, p) \/ \A q \in Interrogated(c) : ~Live(c, q)}

ProbeMetrics(c, findings) ==
    LET confirmed == {f \in findings : f.status = "confirmed"}
        count(ps) == Cardinality({f \in confirmed : f.probe \in ps})
        timed     == {"a-b" : p \in Interrogated(c) \cap {"kv-cache-timing"}}
        dropped   == {p \in c.suite : Dropped(c, p) # {}}
        unlanded  == {p \in c.suite : Landed(c, p) # PlantsOf(p) /\ Dropped(c, p) # LeaksOf(p)}
    IN [k \in {<<"confirmed_findings", "">>}
              \cup {<<n, "">> : n \in {m \in RateNames : HeadlineProbes(c, m) # {}}}
              \cup {<<"per_probe_findings", f.probe>> : f \in confirmed}
              \cup {<<"side_channel_effect_sizes", pair>> : pair \in timed}
              \cup {<<"user_steps_dropped", p>> : p \in dropped}
              \cup {<<"unconfirmed_plants", p>> : p \in unlanded} |->
          CASE k[1] = "confirmed_findings"        -> Cardinality(confirmed)
            [] k[1] \in RateNames                 -> count(HeadlineProbes(c, k[1]))
            [] k[1] = "per_probe_findings"        -> count({k[2]})
            [] k[1] = "side_channel_effect_sizes" -> count({"kv-cache-timing"})
            [] k[1] = "user_steps_dropped"        -> Cardinality(Dropped(c, k[2]))
            [] k[1] = "unconfirmed_plants"        -> Cardinality(PlantsOf(k[2]) \ Landed(c, k[2]))]

Provenance(c, surfaces) == [s \in surfaces |-> IF s \in c.live THEN "live" ELSE "synthetic"]

ProbeRecord(c) ==
    LET ran      == Interrogated(c)
        findings == {FindingOf(c, l) : l \in UNION {FoundBy(c, p) : p \in ran}}
    IN [readable   |-> TRUE,
        scenario   |-> c.scenario,
        embedder   |-> IF ran \cap GEOMETRY_PROBES # {} /\ "vector_db" \in c.live
                       THEN c.embedder ELSE "none",
        detection  |-> c.detection,
        versions   |-> ran,
        findings   |-> findings,
        provenance |-> Provenance(c, {SurfaceOf(p) : p \in ran}),
        pivot      |-> [k |-> 0, n |-> 0],
        coverage   |-> {},
        floored    |-> IF c.floored THEN {"a-b"} ELSE {},
        failed     |-> {},
        metrics    |-> ProbeMetrics(c, findings)]

-----------------------------------------------------------------------------
(* The record of `erasure`: it seeds canaries, deletes and scans.  That of      *)
(* `erasure --subject` only scans for a person already deleted.                *)

Residue(c) == {l \in open : l.surface \in c.scope \ c.fails}

\* The surfaces whose backend can delete per tenant and whose scan decided.
Counted(c)  == (c.scope \cap c.purges) \ c.fails
Retained(c) == (c.scope \ c.purges) \ c.fails

ErasureRecord(c) ==
    LET canary   == workflow = "gdpr-erasure-verification"
        left(s)  == {l \in Residue(c) : l.surface = s}
        findings == {[id |-> <<c.scenario, l.id>>, probe |-> workflow, surface |-> l.surface,
                      severity |-> l.severity,
                      status |-> IF canary /\ l.surface \notin c.purges
                                 THEN "unverified" ELSE "confirmed"] : l \in Residue(c)}
    IN [readable   |-> TRUE,
        scenario   |-> c.scenario,
        embedder   |-> IF "vector_db" \in c.scope \cap c.live THEN c.embedder ELSE "none",
        detection  |-> "none",
        versions   |-> {workflow},
        findings   |-> findings,
        provenance |-> Provenance(c, c.scope),
        pivot      |-> [k |-> 0, n |-> 0],
        coverage   |-> ERASURE_SURFACES,
        floored    |-> {},
        failed     |-> c.fails \cap c.scope,
        metrics    |->
            [k \in {<<"confirmed_findings", "">>}
                   \cup ({"erasure_residue"} \X IF canary THEN Counted(c) ELSE {})
                   \cup ({"erasure_caveats"} \X IF canary THEN Retained(c) ELSE {}) |->
               IF k[1] = "confirmed_findings"
               THEN Cardinality({f \in findings : f.status = "confirmed"})
               ELSE Cardinality(left(k[2]))]]

RecordOf(c) == IF workflow = "probe" THEN ProbeRecord(c) ELSE ErasureRecord(c)

-----------------------------------------------------------------------------
Init ==
    /\ workflow \in Workflows
    /\ open = IF workflow = "probe" THEN Attacks ELSE Residues
    /\ cfg = Cfg0
    /\ changes = 0
    /\ run = NoRun /\ saved = NoRun
    /\ tested = {}
    /\ gate = "none"

Toggle(set, x) == IF x \in set THEN set \ {x} ELSE set \cup {x}

\* The operator edits sectum-ai.yaml, or a backend starts to behave otherwise.
ProbeChanges ==
    {[cfg EXCEPT !.suite = Toggle(@, p)] : p \in Probes}
    \cup {[cfg EXCEPT !.live = Toggle(@, s)] : s \in {l.surface : l \in Attacks}}
    \cup {[cfg EXCEPT !.keeps = Toggle(@, k)] : k \in Cfg0.keeps}
    \cup {[cfg EXCEPT !.detection = d] : d \in {"full", "nojudge", "shut"}}
    \cup {[cfg EXCEPT !.carries = ~@], [cfg EXCEPT !.resolved = ~@], [cfg EXCEPT !.floored = ~@],
          [cfg EXCEPT !.scenario = 3 - @],
          [cfg EXCEPT !.embedder = IF @ = "a" THEN "b" ELSE "a"]}
ErasureChanges ==
    (UNION {{[cfg EXCEPT !.live = Toggle(@, s)], [cfg EXCEPT !.scope = Toggle(@, s)],
             [cfg EXCEPT !.fails = Toggle(@, s)], [cfg EXCEPT !.purges = Toggle(@, s)]} :
               s \in ERASURE_SURFACES})
    \cup {[cfg EXCEPT !.scenario = 3 - @],
          [cfg EXCEPT !.embedder = IF @ = "a" THEN "b" ELSE "a"]}

Change ==
    /\ changes < MaxChanges
    /\ changes' = changes + 1
    /\ \/ /\ \E l \in IF workflow = "probe" THEN Attacks ELSE Residues : open' = Toggle(open, l)
          /\ UNCHANGED cfg
       \/ /\ cfg' \in (IF workflow = "probe" THEN ProbeChanges ELSE ErasureChanges) \ {cfg}
          /\ UNCHANGED open
    /\ gate' = "none"
    /\ UNCHANGED <<workflow, run, tested, saved>>

\* The command that records a run; one with nothing to record leaves run.json.
Rerun ==
    /\ LET r == RecordOf(cfg)
       IN /\ r.versions # {} \/ r.findings # {}
          /\ run' = r
    /\ tested' = open
    /\ gate' = "none"
    /\ UNCHANGED <<workflow, open, cfg, changes, saved>>

\* baseline --save
Save ==
    /\ run # NoRun /\ saved # run
    /\ saved' = run
    /\ gate' = "none"
    /\ UNCHANGED <<workflow, open, cfg, changes, run, tested>>

\* The saved record is written partially: findings are gone, the counts are not.
Truncate ==
    /\ saved # NoRun /\ gate # "none"
    /\ saved' = [saved EXCEPT !.findings = {f \in @ : f.probe \in GEOMETRY_PROBES}]
    /\ gate' = "none"
    /\ UNCHANGED <<workflow, open, cfg, changes, run, tested>>

\* The saved record is malformed, or of another schema line.
Spoil ==
    /\ saved # NoRun /\ gate # "none"
    /\ saved' = [saved EXCEPT !.readable = FALSE]
    /\ gate' = "none"
    /\ UNCHANGED <<workflow, open, cfg, changes, run, tested>>

\* There is no baseline, it cannot be read, or the counts of a record are not its own.
Refused(old, new) ==
    \/ old = NoRun \/ ~old.readable
    \/ SelfContradicting(old) \/ SelfContradicting(new)

\* baseline --compare, and diff of the two records.
Compare ==
    /\ run # NoRun /\ gate = "none"
    /\ gate' = IF Refused(saved, run) THEN "refused"
               ELSE IF Regressed(saved, run) THEN "regression" ELSE "green"
    /\ UNCHANGED <<workflow, open, cfg, changes, run, tested, saved>>

\* score reads run.json alone, so it is graded before a baseline is kept: a bound
\* that loses no record.
Grade ==
    /\ run # NoRun /\ saved = NoRun
    /\ gate' = IF Ungradable(run) THEN "refused" ELSE "graded"
    /\ UNCHANGED <<workflow, open, cfg, changes, run, tested, saved>>

Next == Change \/ Rerun \/ Save \/ Truncate \/ Spoil \/ Compare \/ Grade

Spec == Init /\ [][Next]_vars

-----------------------------------------------------------------------------
LeakWithId(id) == CHOOSE l \in Leaks : l.id = id[2]

\* A confirmed finding on a live surface is gone from the later record although the
\* stack still had the leak: the later run did not test for it.
NotRetested(old, new) ==
    {f \in Confirmed(old) : /\ Backing(f) \in LiveSurfaces(old)
                            /\ f.id \notin Ids(new.findings)
                            /\ LeakWithId(f.id) \in tested}

\* The two runs looked with the same detection tiers, the earlier one had all its
\* plants, and the later one could scan what it had in scope.
SameInstrument(old, new) ==
    /\ old.detection = new.detection
    /\ KeysOf(old, "unconfirmed_plants") = {}
    /\ new.failed = {}

\* A later run that measured less than the earlier one is not waved through: no
\* leak the baseline confirmed has gone unnoticed while the stack still has it.
NothingWavedThrough == gate = "green" => NotRetested(saved, run) = {}

\* The same between runs of one instrument: whatever is narrowed in between - the
\* suite, the live adapters, the users carried, the plants kept, the scope of an
\* erasure, the seed, the embedder, the timer - a green gate means every confirmed
\* leak that is gone is really gone.
GreenMeansRetested ==
    gate = "green" /\ SameInstrument(saved, run) => NotRetested(saved, run) = {}

Graded == gate = "graded"

\* A class line that reads PASS and qualifies nothing, on the scorecard of a
\* configured stack with every detection tier on, is about a class none of whose
\* leaks the stack had (a leak that ranks under another embedder apart).
SilentPassIsComplete ==
    Graded /\ Scope(run) = "configured_stack" /\ run.detection = "full" =>
        \A e \in CATALOG :
            Verdict(e, run) = "PASS" /\ Notes(e, run) = {} =>
                \A l \in tested : l.geometry \in {"any", run.embedder} => l.probe \notin e.probes

\* The record as a third party may hold it: one provenance row is missing.
Without(r, s) == [r EXCEPT !.provenance = Restrict(@, DOMAIN @ \ {s})]
With(r, l) == [r EXCEPT !.findings = @ \cup {[FindingOf(cfg, l) EXCEPT !.status = "confirmed"]}]

\* Every confirmed finding that is not put down to a fake caps the letter at the
\* band of its class, whichever rows of the provenance are missing, and one more
\* confirmed finding on a live surface never improves the letter.
LeaksHoldTheLetterDown ==
    Graded =>
        /\ \A r \in {run} \cup {Without(run, s) : s \in RecordedSurfaces(run)} :
              ~Ungradable(r) =>
                  \A e \in CATALOG : \A f \in ConfirmedIn(e, r) :
                      Backing(f) \notin Withheld(r) => Letter(r) >= Cap(e.band)
        /\ \A l \in Attacks :
              l.surface \notin Withheld(run) => Letter(With(run, l)) >= Letter(run)

=============================================================================
