--------------------------- MODULE RegressionProofs ---------------------------
(***************************************************************************)
(* What holds of the CI gate for any stack of leaks, any commands and      *)
(* however often the stack and the configuration change between two runs.  *)
(***************************************************************************)
EXTENDS Regression, FiniteSetTheorems, TLAPS

(* The inductive invariant. *)

Config ==
    [suite : SUBSET Probes, live : SUBSET Surfaces, carries : BOOLEAN,
     keeps : SUBSET (UNION {PlantsOf(p) : p \in Probes}), detection : {"full", "nojudge", "shut"},
     scenario : 1..2, embedder : {"a", "b"}, resolved : BOOLEAN, floored : BOOLEAN,
     scope : SUBSET ERASURE_SURFACES, fails : SUBSET ERASURE_SURFACES,
     purges : SUBSET ERASURE_SURFACES]

Stack == IF workflow = "probe" THEN Attacks ELSE Residues

\* A record has the fields of one.
IsRecord(r) ==
    r \in [readable : BOOLEAN, scenario : {r.scenario}, embedder : {r.embedder},
           detection : {r.detection}, versions : {r.versions}, findings : {r.findings},
           provenance : {r.provenance}, pivot : {r.pivot}, coverage : {r.coverage},
           floored : {r.floored}, failed : {r.failed}, metrics : {r.metrics}]

\* What the record of a run of the probes under configuration c holds: of the findings, the
\* ones that were found; of the rest, what the later reader of it goes by.
ProbesTold(r, c) ==
    /\ r.detection = c.detection /\ r.versions \subseteq Probes
    /\ \A p \in r.versions : Dropped(c, p) # LeaksOf(p) /\ (p = "kv-cache-timing" => c.resolved)
    /\ r.embedder = IF r.versions \cap GEOMETRY_PROBES # {} /\ "vector_db" \in c.live
                    THEN c.embedder ELSE "none"
    /\ r.provenance = Provenance(c, {SurfaceOf(p) : p \in r.versions})
    /\ \A f \in r.findings : \E l \in Attacks :
          f = FindingOf(c, l) /\ l.probe \in r.versions /\ Reached(c, l)
    /\ \A p \in r.versions :
          /\ Metric(r, <<"user_steps_dropped", p>>) = Cardinality(Dropped(c, p))
          /\ Metric(r, <<"unconfirmed_plants", p>>) = Cardinality(PlantsOf(p) \ Landed(c, p))

ErasureTold(r, c) ==
    /\ r.provenance = Provenance(c, c.scope) /\ r.failed = c.fails \cap c.scope
    /\ \A f \in r.findings : \E l \in Residues :
          f.id = <<c.scenario, l.id>> /\ f.surface = l.surface

Told(r, c) ==
    /\ IsRecord(r) /\ r.scenario = c.scenario
    /\ IF workflow = "probe" THEN ProbesTold(r, c) ELSE ErasureTold(r, c)

\* Nothing that the run could find is missing: o is what the stack had.
Exhausts(r, c, o) ==
    IF workflow = "probe"
    THEN \A l \in o : l.probe \in r.versions /\ Reached(c, l) /\ Live(c, l.probe) =>
            FindingOf(c, l) \in r.findings
    ELSE \A l \in o : l.surface \in c.scope \ c.fails =>
            \E f \in r.findings : f.id = <<c.scenario, l.id>>

IInv ==
    /\ cfg \in Config /\ open \subseteq Stack /\ tested \subseteq Stack
    /\ run # NoRun => \E c \in Config : Told(run, c) /\ Exhausts(run, c, tested)
    /\ saved # NoRun => \E c \in Config : Told(saved, c)
    /\ gate = "green" => run # NoRun /\ saved # NoRun /\ ~Regressed(saved, run)
    /\ gate = "graded" => run # NoRun

-----------------------------------------------------------------------------
(* The leaks. *)

LEMMA LeakFacts ==
    ASSUME NEW l \in Attacks
    PROVE  /\ l \in Leaks /\ l.probe \in Probes /\ l \in LeaksOf(l.probe)
           /\ SurfaceOf(l.probe) = l.surface
           /\ l.surface \in PROBE_SURFACES(l.probe)
           /\ l.probe \notin ErasureWorkflows
           /\ LeaksOf(l.probe) \subseteq Attacks
  <1>1. l \in Leaks /\ l.probe \in Probes /\ l \in LeaksOf(l.probe) /\ l.probe \notin ErasureWorkflows
    BY DEF Attacks, Residues, Probes, LeaksOf
  <1>2. LeaksOf(l.probe) \subseteq Attacks
    BY <1>1 DEF LeaksOf, Attacks, Residues
  <1>3. l.surface \in PROBE_SURFACES(l.probe)
    BY SlotsAssumed
  <1>4. \A m \in LeaksOf(l.probe) : m.surface = l.surface
    <2> TAKE m \in LeaksOf(l.probe)
    <2>1. m \in Attacks /\ m.probe = l.probe
      BY <1>2 DEF LeaksOf
    <2> QED
      BY <1>3, <2>1, SlotsAssumed
  <1>5. SurfaceOf(l.probe) = l.surface
    BY <1>1, <1>4 DEF SurfaceOf
  <1> QED
    BY <1>1, <1>2, <1>3, <1>5

\* A set of leaks, or of their plants, that counts nothing is empty.
LEMMA Finite ==
    ASSUME NEW p
    PROVE  /\ IsFiniteSet(LeaksOf(p)) /\ IsFiniteSet(PlantsOf(p))
           /\ \A S \in SUBSET LeaksOf(p) : Cardinality(S) \in Nat /\ (Cardinality(S) = 0 <=> S = {})
           /\ \A S \in SUBSET PlantsOf(p) : Cardinality(S) \in Nat /\ (Cardinality(S) = 0 <=> S = {})
  <1>1. IsFiniteSet(LeaksOf(p))
    BY LeaksAssumed, FS_Subset DEF LeaksOf
  <1>2. IsFiniteSet({l.plant : l \in LeaksOf(p)})
    <2> DEFINE f == [l \in LeaksOf(p) |-> l.plant]
    <2>1. f \in Surjection(LeaksOf(p), {l.plant : l \in LeaksOf(p)})
      BY DEF Surjection
    <2> QED
      BY <1>1, <2>1, FS_Surjection
  <1>3. IsFiniteSet(PlantsOf(p))
    BY <1>2, FS_Subset DEF PlantsOf
  <1>4. \A S : IsFiniteSet(S) => Cardinality(S) \in Nat /\ (Cardinality(S) = 0 <=> S = {})
    BY FS_CardinalityType, FS_EmptySet
  <1>5. \A S \in SUBSET LeaksOf(p) : IsFiniteSet(S)
    BY <1>1, FS_Subset
  <1>6. \A S \in SUBSET PlantsOf(p) : IsFiniteSet(S)
    BY <1>3, FS_Subset
  <1> QED
    BY <1>1, <1>3, <1>4, <1>5, <1>6

LEMMA FindingSays ==
    ASSUME NEW c \in Config, NEW l \in Attacks
    PROVE  /\ FindingOf(c, l).id = <<c.scenario, l.id>> /\ FindingOf(c, l).probe = l.probe
           /\ FindingOf(c, l).status = "confirmed" <=> l.verbatim \/ c.detection = "full"
           /\ Backing(FindingOf(c, l)) = l.surface
  <1>1. l.surface # "kv_cache"
    BY LeakFacts, LeaksAssumed
  <1>2. l.probe = "kv-cache-timing" => l.surface = "model_adapter"
    BY LeakFacts DEF PROBE_SURFACES, StoreProbes
  <1> QED
    BY <1>1, <1>2 DEF FindingOf, Backing

-----------------------------------------------------------------------------
(* The records. *)

\* A measure of a probe's record, or zero.
LEMMA DroppedMetric ==
    ASSUME NEW c \in Config, NEW fs, NEW p \in c.suite, NEW r, r.metrics = ProbeMetrics(c, fs)
    PROVE  Metric(r, <<"user_steps_dropped", p>>) = Cardinality(Dropped(c, p))
  <1>1. <<"user_steps_dropped", p>> \in DOMAIN r.metrics <=> Dropped(c, p) # {}
    BY DEF ProbeMetrics, RateNames, Scalars
  <1>2. Dropped(c, p) # {} => r.metrics[<<"user_steps_dropped", p>>] = Cardinality(Dropped(c, p))
    BY <1>1 DEF ProbeMetrics, RateNames, Scalars
  <1> QED
    BY <1>1, <1>2, FS_EmptySet DEF Metric

LEMMA PlantsMetric ==
    ASSUME NEW c \in Config, NEW fs, NEW p \in c.suite, Dropped(c, p) # LeaksOf(p),
           NEW r, r.metrics = ProbeMetrics(c, fs)
    PROVE  Metric(r, <<"unconfirmed_plants", p>>) = Cardinality(PlantsOf(p) \ Landed(c, p))
  <1>1. <<"unconfirmed_plants", p>> \in DOMAIN r.metrics <=> Landed(c, p) # PlantsOf(p)
    BY DEF ProbeMetrics, RateNames, Scalars
  <1>2. Landed(c, p) # PlantsOf(p) =>
           r.metrics[<<"unconfirmed_plants", p>>] = Cardinality(PlantsOf(p) \ Landed(c, p))
    BY <1>1 DEF ProbeMetrics, RateNames, Scalars
  <1>3. Landed(c, p) = PlantsOf(p) => PlantsOf(p) \ Landed(c, p) = {}
    OBVIOUS
  <1> QED
    BY <1>1, <1>2, <1>3, FS_EmptySet DEF Metric

LEMMA ProbeRecordTells ==
    ASSUME NEW c \in Config, open \subseteq Attacks, workflow = "probe"
    PROVE  Told(ProbeRecord(c), c) /\ Exhausts(ProbeRecord(c), c, open)
  <1> DEFINE r == ProbeRecord(c)
             ran == Interrogated(c)
             fs == {FindingOf(c, l) : l \in UNION {FoundBy(c, p) : p \in ran}}
  <1>1. /\ IsRecord(r) /\ r.scenario = c.scenario /\ r.detection = c.detection
        /\ r.versions = ran /\ r.findings = fs
        /\ r.provenance = Provenance(c, {SurfaceOf(p) : p \in ran})
        /\ r.embedder = IF ran \cap GEOMETRY_PROBES # {} /\ "vector_db" \in c.live
                        THEN c.embedder ELSE "none"
        /\ r.metrics = ProbeMetrics(c, fs)
    BY DEF ProbeRecord, IsRecord
  <1> HIDE DEF r
  <1>2. ran \subseteq c.suite /\ c.suite \subseteq Probes
    BY DEF Interrogated, Config
  <1>3. \A p \in ran : Dropped(c, p) # LeaksOf(p) /\ (p = "kv-cache-timing" => c.resolved)
    BY DEF Interrogated
  <1>4. \A p \in ran : LeaksOf(p) \subseteq Attacks
    BY <1>2, LeakFacts DEF Probes
  <1>5. \A f \in fs : \E l \in Attacks : f = FindingOf(c, l) /\ l.probe \in ran /\ Reached(c, l)
    <2> SUFFICES ASSUME NEW p \in ran, NEW l \in FoundBy(c, p)
                 PROVE  l \in Attacks /\ l.probe \in ran /\ Reached(c, l)
      OBVIOUS
    <2>1. l \in LeaksOf(p) /\ Reached(c, l)
      BY DEF FoundBy
    <2>2. l.probe = p
      BY <2>1 DEF LeaksOf
    <2> QED
      BY <1>4, <2>1, <2>2
  <1>6. ASSUME NEW p \in ran
        PROVE  /\ Metric(r, <<"user_steps_dropped", p>>) = Cardinality(Dropped(c, p))
               /\ Metric(r, <<"unconfirmed_plants", p>>) = Cardinality(PlantsOf(p) \ Landed(c, p))
    <2> HIDE DEF fs, ran
    <2>1. p \in c.suite /\ Dropped(c, p) # LeaksOf(p)
      BY <1>2, <1>3
    <2> QED
      BY <1>1, <2>1, DroppedMetric, PlantsMetric
  <1>7. ASSUME NEW l \in open, l.probe \in ran, Reached(c, l), Live(c, l.probe)
        PROVE  FindingOf(c, l) \in fs
    <2>1. l \in LeaksOf(l.probe)
      BY LeakFacts
    <2>2. l \in FoundBy(c, l.probe)
      BY <1>7, <2>1 DEF FoundBy, Shown
    <2> QED
      BY <1>7, <2>2
  <1> HIDE DEF ran, fs
  <1>8. ProbesTold(r, c)
    BY <1>1, <1>2, <1>3, <1>5, <1>6 DEF ProbesTold
  <1>9. Told(r, c) /\ Exhausts(r, c, open)
    BY <1>1, <1>7, <1>8 DEF Told, Exhausts
  <1> QED
    BY <1>9 DEF r

LEMMA ErasureRecordTells ==
    ASSUME NEW c \in Config, open \subseteq Residues, workflow # "probe"
    PROVE  Told(ErasureRecord(c), c) /\ Exhausts(ErasureRecord(c), c, open)
  <1> DEFINE r == ErasureRecord(c)
             status(l) == IF workflow = "gdpr-erasure-verification" /\ l.surface \notin c.purges
                          THEN "unverified" ELSE "confirmed"
             finding(l) == [id |-> <<c.scenario, l.id>>, probe |-> workflow, surface |-> l.surface,
                            severity |-> l.severity, status |-> status(l)]
  <1>1. /\ IsRecord(r) /\ r.scenario = c.scenario
        /\ r.provenance = Provenance(c, c.scope) /\ r.failed = c.fails \cap c.scope
        /\ r.findings = {finding(l) : l \in Residue(c)}
    BY DEF ErasureRecord, IsRecord
  <1>2. \A l : finding(l).id = <<c.scenario, l.id>> /\ finding(l).surface = l.surface
    OBVIOUS
  <1> HIDE DEF r, finding
  <1>3. Residue(c) \subseteq Residues
    BY DEF Residue
  <1>4. ErasureTold(r, c)
    BY <1>1, <1>2, <1>3 DEF ErasureTold
  <1>5. ASSUME NEW l \in open, l.surface \in c.scope \ c.fails
        PROVE  \E f \in r.findings : f.id = <<c.scenario, l.id>>
    BY <1>1, <1>2, <1>5 DEF Residue
  <1>6. Told(r, c) /\ Exhausts(r, c, open)
    BY <1>1, <1>4, <1>5 DEF Told, Exhausts
  <1> QED
    BY <1>6 DEF r

\* A record with fewer findings, or that no reader accepts, tells nothing else.
LEMMA StillTold ==
    ASSUME NEW c \in Config, NEW r, Told(r, c)
    PROVE  /\ \A fs \in SUBSET r.findings : Told([r EXCEPT !.findings = fs], c)
           /\ Told([r EXCEPT !.readable = FALSE], c)
  <1>1. ASSUME NEW fs \in SUBSET r.findings PROVE Told([r EXCEPT !.findings = fs], c)
    <2> DEFINE t == [r EXCEPT !.findings = fs]
    <2>1. /\ IsRecord(t) /\ t.scenario = r.scenario /\ t.detection = r.detection
          /\ t.versions = r.versions /\ t.embedder = r.embedder /\ t.findings = fs
          /\ t.provenance = r.provenance /\ t.metrics = r.metrics /\ t.failed = r.failed
      BY DEF Told, IsRecord
    <2> HIDE DEF t
    <2>2. \A k : Metric(t, k) = Metric(r, k)
      BY <2>1 DEF Metric
    <2>3. ProbesTold(r, c) => ProbesTold(t, c)
      BY <2>1, <2>2 DEF ProbesTold
    <2>4. ErasureTold(r, c) => ErasureTold(t, c)
      BY <2>1 DEF ErasureTold
    <2>5. Told(t, c)
      BY <2>1, <2>3, <2>4 DEF Told
    <2> QED
      BY <2>5 DEF t
  <1>2. Told([r EXCEPT !.readable = FALSE], c)
    <2> DEFINE t == [r EXCEPT !.readable = FALSE]
    <2>1. /\ IsRecord(t) /\ t.scenario = r.scenario /\ t.detection = r.detection
          /\ t.versions = r.versions /\ t.embedder = r.embedder /\ t.findings = r.findings
          /\ t.provenance = r.provenance /\ t.metrics = r.metrics /\ t.failed = r.failed
      BY DEF Told, IsRecord
    <2> HIDE DEF t
    <2>2. \A k : Metric(t, k) = Metric(r, k)
      BY <2>1 DEF Metric
    <2>3. ProbesTold(r, c) => ProbesTold(t, c)
      BY <2>1, <2>2 DEF ProbesTold
    <2>4. ErasureTold(r, c) => ErasureTold(t, c)
      BY <2>1 DEF ErasureTold
    <2>5. Told(t, c)
      BY <2>1, <2>3, <2>4 DEF Told
    <2> QED
      BY <2>5 DEF t
  <1> QED
    BY <1>1, <1>2

-----------------------------------------------------------------------------
(* The steps. *)

LEMMA InitIInv == Init => IInv
  <1> SUFFICES ASSUME Init PROVE IInv
    OBVIOUS
  <1>1. Cfg0 \in Config
    BY DEF Cfg0, Config
  <1>2. workflow \in Workflows /\ open = Stack /\ cfg = Cfg0 /\ run = NoRun /\ saved = NoRun
        /\ tested = {} /\ gate = "none"
    BY DEF Init, Stack
  <1> QED
    BY <1>1, <1>2 DEF IInv

LEMMA ChangesOK ==
    ASSUME cfg \in Config
    PROVE  ProbeChanges \subseteq Config /\ ErasureChanges \subseteq Config
  <1>1. /\ \A p \in Probes : Toggle(cfg.suite, p) \in SUBSET Probes
        /\ \A x \in Surfaces : Toggle(cfg.live, x) \in SUBSET Surfaces
        /\ \A k \in Cfg0.keeps : Toggle(cfg.keeps, k) \in SUBSET (UNION {PlantsOf(p) : p \in Probes})
        /\ \A x \in ERASURE_SURFACES :
              /\ Toggle(cfg.scope, x) \in SUBSET ERASURE_SURFACES
              /\ Toggle(cfg.fails, x) \in SUBSET ERASURE_SURFACES
              /\ Toggle(cfg.purges, x) \in SUBSET ERASURE_SURFACES
    BY DEF Toggle, Config, Cfg0
  <1>2. /\ 3 - cfg.scenario \in 1..2 /\ (~cfg.carries) \in BOOLEAN
        /\ (~cfg.resolved) \in BOOLEAN /\ (~cfg.floored) \in BOOLEAN
    BY DEF Config
  <1>3. {l.surface : l \in Attacks} \subseteq Surfaces /\ ERASURE_SURFACES \subseteq Surfaces
    BY DEF Attacks, Surfaces, ERASURE_SURFACES, Residues
  <1>4. /\ \A v \in SUBSET Probes : [cfg EXCEPT !.suite = v] \in Config
        /\ \A v \in SUBSET Surfaces : [cfg EXCEPT !.live = v] \in Config
        /\ \A v \in SUBSET (UNION {PlantsOf(p) : p \in Probes}) : [cfg EXCEPT !.keeps = v] \in Config
        /\ \A v \in {"full", "nojudge", "shut"} : [cfg EXCEPT !.detection = v] \in Config
        /\ \A v \in BOOLEAN : [cfg EXCEPT !.carries = v] \in Config
        /\ \A v \in BOOLEAN : [cfg EXCEPT !.resolved = v] \in Config
        /\ \A v \in BOOLEAN : [cfg EXCEPT !.floored = v] \in Config
        /\ \A v \in 1..2 : [cfg EXCEPT !.scenario = v] \in Config
        /\ \A v \in {"a", "b"} : [cfg EXCEPT !.embedder = v] \in Config
        /\ \A v \in SUBSET ERASURE_SURFACES : [cfg EXCEPT !.scope = v] \in Config
        /\ \A v \in SUBSET ERASURE_SURFACES : [cfg EXCEPT !.fails = v] \in Config
        /\ \A v \in SUBSET ERASURE_SURFACES : [cfg EXCEPT !.purges = v] \in Config
    BY DEF Config
  <1>5. ASSUME NEW x \in ProbeChanges PROVE x \in Config
    <2>1. CASE x \in {[cfg EXCEPT !.suite = Toggle(@, p)] : p \in Probes}
      BY <1>1, <1>4, <2>1
    <2>2. CASE x \in {[cfg EXCEPT !.live = Toggle(@, s)] : s \in {l.surface : l \in Attacks}}
      BY <1>1, <1>3, <1>4, <2>2
    <2>3. CASE x \in {[cfg EXCEPT !.keeps = Toggle(@, k)] : k \in Cfg0.keeps}
      BY <1>1, <1>4, <2>3
    <2>4. CASE x \in {[cfg EXCEPT !.detection = d] : d \in {"full", "nojudge", "shut"}}
      BY <1>4, <2>4
    <2>5. CASE x \in {[cfg EXCEPT !.carries = ~@], [cfg EXCEPT !.resolved = ~@],
                      [cfg EXCEPT !.floored = ~@], [cfg EXCEPT !.scenario = 3 - @],
                      [cfg EXCEPT !.embedder = IF @ = "a" THEN "b" ELSE "a"]}
      BY <1>2, <1>4, <2>5
    <2>6. x \in {[cfg EXCEPT !.suite = Toggle(@, p)] : p \in Probes}
               \cup {[cfg EXCEPT !.live = Toggle(@, s)] : s \in {l.surface : l \in Attacks}}
               \cup {[cfg EXCEPT !.keeps = Toggle(@, k)] : k \in Cfg0.keeps}
               \cup {[cfg EXCEPT !.detection = d] : d \in {"full", "nojudge", "shut"}}
               \cup {[cfg EXCEPT !.carries = ~@], [cfg EXCEPT !.resolved = ~@], [cfg EXCEPT !.floored = ~@],
                     [cfg EXCEPT !.scenario = 3 - @],
                     [cfg EXCEPT !.embedder = IF @ = "a" THEN "b" ELSE "a"]}
      BY Zenon DEF ProbeChanges
    <2> QED
      BY <2>1, <2>2, <2>3, <2>4, <2>5, <2>6, Zenon
  <1>6. ASSUME NEW x \in ErasureChanges PROVE x \in Config
    <2>1. ASSUME NEW s \in ERASURE_SURFACES,
                 x \in {[cfg EXCEPT !.live = Toggle(@, s)], [cfg EXCEPT !.scope = Toggle(@, s)],
                        [cfg EXCEPT !.fails = Toggle(@, s)], [cfg EXCEPT !.purges = Toggle(@, s)]}
          PROVE  x \in Config
      <3>1. s \in Surfaces
        BY <1>3
      <3> QED
        BY <1>1, <1>4, <2>1, <3>1
    <2>2. CASE x \in {[cfg EXCEPT !.scenario = 3 - @],
                      [cfg EXCEPT !.embedder = IF @ = "a" THEN "b" ELSE "a"]}
      BY <1>2, <1>4, <2>2
    <2>3. \/ x \in {[cfg EXCEPT !.scenario = 3 - @],
                   [cfg EXCEPT !.embedder = IF @ = "a" THEN "b" ELSE "a"]}
          \/ \E s \in ERASURE_SURFACES :
                x \in {[cfg EXCEPT !.live = Toggle(@, s)], [cfg EXCEPT !.scope = Toggle(@, s)],
                       [cfg EXCEPT !.fails = Toggle(@, s)], [cfg EXCEPT !.purges = Toggle(@, s)]}
      BY DEF ErasureChanges
    <2> QED
      BY <2>1, <2>2, <2>3
  <1> QED
    BY <1>5, <1>6

LEMMA NextIInv == IInv /\ [Next]_vars => IInv'
  <1> SUFFICES ASSUME IInv, [Next]_vars PROVE IInv'
    OBVIOUS
  <1>1. /\ cfg \in Config /\ open \subseteq Stack /\ tested \subseteq Stack
        /\ run # NoRun => \E c \in Config : Told(run, c) /\ Exhausts(run, c, tested)
        /\ saved # NoRun => \E c \in Config : Told(saved, c)
        /\ gate = "green" => run # NoRun /\ saved # NoRun /\ ~Regressed(saved, run)
        /\ gate = "graded" => run # NoRun
    BY DEF IInv
  \* A step of the gate's command reads the records, any other writes no verdict.
  <1>2. ASSUME UNCHANGED <<workflow, run, tested>>, cfg' \in Config, open' \subseteq Stack,
               saved' # NoRun => \E c \in Config : Told(saved', c),
               gate' = "green" => run # NoRun /\ saved' # NoRun /\ ~Regressed(saved', run),
               gate' = "graded" => run # NoRun
        PROVE  IInv'
    <2>1. Stack' = Stack
      BY <1>2 DEF Stack
    <2>2. \A r, c : Told(r, c)' = Told(r, c)
      BY <1>2 DEF Told, IsRecord, ProbesTold, ErasureTold, Metric
    <2> QED
      BY <1>1, <1>2, <2>1 DEF IInv, Told, Exhausts, ProbesTold, ErasureTold, IsRecord
  <1>3. CASE Change
    <2>1. cfg' \in Config
      BY <1>1, <1>3, ChangesOK DEF Change
    <2>2. open' \subseteq Stack
      BY <1>1, <1>3 DEF Change, Toggle, Stack
    <2> QED
      BY <1>1, <1>2, <1>3, <2>1, <2>2 DEF Change
  <1>4. CASE Rerun
    <2>1. UNCHANGED <<workflow, open, cfg, saved>> /\ run' = RecordOf(cfg) /\ tested' = open
          /\ gate' = "none"
      BY <1>4 DEF Rerun
    <2>2. Told(RecordOf(cfg), cfg) /\ Exhausts(RecordOf(cfg), cfg, open)
      BY <1>1, ProbeRecordTells, ErasureRecordTells DEF RecordOf, Stack
    <2>3. \A r, c : Told(r, c)' = Told(r, c)
      BY <2>1 DEF Told, IsRecord, ProbesTold, ErasureTold, Metric
    <2>4. \A r, c, o : Exhausts(r, c, o)' = Exhausts(r, c, o)
      BY <2>1 DEF Exhausts
    <2>5. Stack' = Stack
      BY <2>1 DEF Stack
    <2>6. (\E c \in Config : Told(run, c) /\ Exhausts(run, c, tested))'
      BY <1>1, <2>1, <2>2 DEF Told, IsRecord, ProbesTold, ErasureTold, Metric, Exhausts
    <2> QED
      BY <1>1, <2>1, <2>3, <2>5, <2>6 DEF IInv
  <1>5. CASE Save
    BY <1>1, <1>2, <1>5 DEF Save
  <1>6. CASE Truncate
    <2>1. saved' = [saved EXCEPT !.findings = {f \in saved.findings : f.probe \in GEOMETRY_PROBES}]
      BY <1>6 DEF Truncate
    <2>2. \E c \in Config : Told(saved', c)
      <3>1. PICK c \in Config : Told(saved, c)
        BY <1>1, <1>6 DEF Truncate
      <3>2. {f \in saved.findings : f.probe \in GEOMETRY_PROBES} \in SUBSET saved.findings
        OBVIOUS
      <3>3. Told(saved', c)
        BY <2>1, <3>1, <3>2, StillTold
      <3> QED
        BY <3>3
    <2> QED
      BY <1>1, <1>2, <1>6, <2>2 DEF Truncate
  <1>7. CASE Spoil
    <2>1. \E c \in Config : Told(saved', c)
      <3>1. PICK c \in Config : Told(saved, c)
        BY <1>1, <1>7 DEF Spoil
      <3>2. Told([saved EXCEPT !.readable = FALSE], c)
        BY <3>1, StillTold
      <3> QED
        BY <1>7, <3>2 DEF Spoil
    <2> QED
      BY <1>1, <1>2, <1>7, <2>1 DEF Spoil
  <1>8. CASE Compare
    <2>1. gate' = "green" => saved # NoRun /\ ~Regressed(saved, run)
      BY <1>8 DEF Compare, Refused
    <2>2. gate' # "graded"
      BY <1>8 DEF Compare
    <2> QED
      BY <1>1, <1>2, <1>8, <2>1, <2>2 DEF Compare
  <1>9. CASE Grade
    <2>1. gate' # "green"
      BY <1>9 DEF Grade
    <2> QED
      BY <1>1, <1>2, <1>9, <2>1 DEF Grade
  <1>10. CASE UNCHANGED vars
    BY <1>1, <1>2, <1>10 DEF vars
  <1> QED
    BY <1>3, <1>4, <1>5, <1>6, <1>7, <1>8, <1>9, <1>10 DEF Next

\* Whatever is changed, run, kept, truncated or spoilt: a record holds what its run found under
\* some configuration, the latest one all it could find, and a verdict is of the records there.
THEOREM GateInductive == Spec => []IInv
  <1> QED
    BY InitIInv, NextIInv, PTL DEF Spec

-----------------------------------------------------------------------------
(* The green gate. *)

\* A measure that is recorded has its key; one that was nothing has not grown unnoticed.
LEMMA Measures ==
    ASSUME NEW old, NEW new, NEW label, NEW p, NewlyCounted(old, new, label) = {},
           Metric(old, <<label, p>>) = 0
    PROVE  ~(Metric(new, <<label, p>>) > 0)
  <1> SUFFICES ASSUME Metric(new, <<label, p>>) > 0 PROVE FALSE
    OBVIOUS
  <1>1. <<label, p>> \in DOMAIN new.metrics
    BY DEF Metric
  <1>2. p \in KeysOf(new, label)
    BY <1>1 DEF KeysOf
  <1> QED
    BY <1>2 DEF NewlyCounted

LEMMA NoKeyIsZero ==
    ASSUME NEW r, NEW label, NEW p, KeysOf(r, label) = {}
    PROVE  Metric(r, <<label, p>>) = 0
  <1>1. <<label, p>> \in DOMAIN r.metrics => p \in KeysOf(r, label)
    BY DEF KeysOf
  <1> QED
    BY <1>1 DEF Metric

LEMMA IdsAreOf ==
    ASSUME NEW l \in Leaks, NEW s
    PROVE  LeakWithId(<<s, l.id>>) = l
  <1>1. <<s, l.id>>[2] = l.id
    OBVIOUS
  <1> QED
    BY <1>1, LeaksAssumed DEF LeakWithId

\* A leak the stack still has, of a probe that ran again on a live surface.
LEMMA LookedAgain ==
    ASSUME NEW c0 \in Config, NEW c1 \in Config, workflow = "probe",
           Told(saved, c0), Told(run, c1), ~Regressed(saved, run), SameInstrument(saved, run),
           NEW l \in Attacks, l.probe \in saved.versions, Reached(c0, l), Live(c0, l.probe),
           FindingOf(c0, l).status = "confirmed"
    PROVE  /\ l.probe \in run.versions /\ Live(c1, l.probe) /\ Reached(c1, l)
           /\ c1.scenario = c0.scenario
  <1> DEFINE p == l.probe
  <1>1. /\ CoverageLost(saved, run) = {} /\ ScopeLost(saved, run) = {}
        /\ BoundaryLost(saved, run) = {} /\ PlantsLost(saved, run) = {}
        /\ saved.scenario = run.scenario /\ ~EmbedderChanged(saved, run)
    BY DEF Regressed, ScenarioChanged
  <1>2. ProbesTold(saved, c0) /\ ProbesTold(run, c1) /\ c1.scenario = c0.scenario
    BY <1>1 DEF Told
  <1>3. p \in run.versions
    <2>1. p \in ExercisedProbes(run)
      BY <1>1 DEF CoverageLost, ExercisedProbes
    <2>2. \A f \in run.findings : f.probe \in run.versions
      BY <1>2, FindingSays DEF ProbesTold
    <2> QED
      BY <2>1, <2>2 DEF ExercisedProbes
  <1>4. Live(c1, p)
    <2>1. l.surface \in RecordedSurfaces(saved) /\ saved.provenance[l.surface] = "live"
      BY <1>2, LeakFacts DEF ProbesTold, Provenance, RecordedSurfaces, Live
    <2>2. l.surface \in LiveSurfaces(run)
      BY <1>1, <2>1 DEF ScopeLost, LiveSurfaces
    <2> QED
      BY <1>2, <2>2, LeakFacts DEF ProbesTold, Provenance, RecordedSurfaces, LiveSurfaces, Live
  <1>5. l \notin Dropped(c1, p)
    <2>1. CASE ~l.user
      BY <2>1 DEF Dropped
    <2>2. CASE l.user
      <3>1. l \notin Dropped(c0, p)
        BY DEF Reached
      <3>2. Dropped(c0, p) = {}
        BY <2>2, <3>1, LeakFacts DEF Dropped
      <3>3. Metric(saved, <<"user_steps_dropped", p>>) = 0
        BY <1>2, <3>2, FS_EmptySet DEF ProbesTold
      <3>4. ~(Cardinality(Dropped(c1, p)) > 0)
        <4>1. NewlyCounted(saved, run, "user_steps_dropped") = {}
          BY <1>1 DEF BoundaryLost
        <4>2. ~(Metric(run, <<"user_steps_dropped", p>>) > 0)
          BY <3>3, <4>1, Measures
        <4>3. Metric(run, <<"user_steps_dropped", p>>) = Cardinality(Dropped(c1, p))
          BY <1>2, <1>3 DEF ProbesTold
        <4> QED
          BY <4>2, <4>3
      <3>5. Dropped(c1, p) \subseteq LeaksOf(p)
        BY DEF Dropped
      <3> QED
        BY <3>4, <3>5, Finite
    <2> QED
      BY <2>1, <2>2
  <1>6. l.plant = 0 \/ l.plant \in Landed(c1, p)
    <2>1. Metric(saved, <<"unconfirmed_plants", p>>) = 0
      BY NoKeyIsZero DEF SameInstrument
    <2>2. ~(Cardinality(PlantsOf(p) \ Landed(c1, p)) > 0)
      <3>1. NewlyCounted(saved, run, "unconfirmed_plants") = {}
        BY <1>1 DEF PlantsLost
      <3>2. ~(Metric(run, <<"unconfirmed_plants", p>>) > 0)
        BY <2>1, <3>1, Measures
      <3>3. Metric(run, <<"unconfirmed_plants", p>>) = Cardinality(PlantsOf(p) \ Landed(c1, p))
        BY <1>2, <1>3 DEF ProbesTold
      <3> QED
        BY <3>2, <3>3
    <2>3. PlantsOf(p) \ Landed(c1, p) = {}
      BY <2>2, Finite
    <2>4. l.plant = 0 \/ l.plant \in PlantsOf(p)
      BY LeakFacts DEF PlantsOf
    <2> QED
      BY <2>3, <2>4
  <1>7. l.geometry = "any" \/ l.geometry = c1.embedder
    <2> SUFFICES ASSUME l.geometry # "any" PROVE l.geometry = c1.embedder
      OBVIOUS
    <2>1. p \in GEOMETRY_PROBES /\ l.surface = "vector_db" /\ l.geometry = c0.embedder
      BY GeometryAssumed DEF Reached
    <2>2. "vector_db" \in c0.live /\ "vector_db" \in c1.live
      BY <1>4, <2>1, LeakFacts DEF Live
    <2>3. saved.embedder = c0.embedder /\ run.embedder = c1.embedder
      BY <1>2, <1>3, <2>1, <2>2 DEF ProbesTold
    <2>4. c0.embedder # "none" /\ c1.embedder # "none"
      BY DEF Config
    <2> QED
      BY <1>1, <2>1, <2>3, <2>4 DEF EmbedderChanged
  <1>8. l.verbatim \/ c1.detection # "shut"
    <2>1. l.verbatim \/ c0.detection = "full"
      BY FindingSays
    <2>2. c1.detection = c0.detection
      BY <1>2 DEF ProbesTold, SameInstrument
    <2> QED
      BY <2>1, <2>2
  <1>9. p = "kv-cache-timing" => c1.resolved
    BY <1>2, <1>3 DEF ProbesTold
  <1> QED
    BY <1>2, <1>3, <1>4, <1>5, <1>6, <1>7, <1>8, <1>9 DEF Reached

\* baseline --compare: between runs of one instrument a green gate means that every confirmed
\* leak that is gone is really gone, whatever else was narrowed in between.
THEOREM GreenGateHasRetested == Spec => []GreenMeansRetested
  <1>1. IInv => GreenMeansRetested
    <2> SUFFICES ASSUME IInv, gate = "green", SameInstrument(saved, run),
                        NEW f \in NotRetested(saved, run)
                 PROVE  FALSE
      BY DEF GreenMeansRetested
    <2>1. /\ f \in saved.findings /\ f.status = "confirmed" /\ Backing(f) \in LiveSurfaces(saved)
          /\ f.id \notin Ids(run.findings) /\ LeakWithId(f.id) \in tested
      BY DEF NotRetested, Confirmed
    <2>2. run # NoRun /\ saved # NoRun /\ ~Regressed(saved, run)
      BY DEF IInv
    <2>3. PICK c1 \in Config : Told(run, c1) /\ Exhausts(run, c1, tested)
      BY <2>2 DEF IInv
    <2>4. PICK c0 \in Config : Told(saved, c0)
      BY <2>2 DEF IInv
    <2>5. CASE workflow = "probe"
      <3>1. PICK l \in Attacks : f = FindingOf(c0, l) /\ l.probe \in saved.versions /\ Reached(c0, l)
        BY <2>1, <2>4, <2>5 DEF Told, ProbesTold
      <3>2. f.id = <<c0.scenario, l.id>> /\ Backing(f) = l.surface
        BY <3>1, FindingSays
      <3>3. l \in tested
        BY <2>1, <3>2, LeakFacts, IdsAreOf
      <3>4. Live(c0, l.probe)
        BY <2>1, <2>4, <2>5, <3>2, LeakFacts
           DEF Told, ProbesTold, Provenance, RecordedSurfaces, LiveSurfaces, Live
      <3>5. /\ l.probe \in run.versions /\ Live(c1, l.probe) /\ Reached(c1, l)
            /\ c1.scenario = c0.scenario
        BY <2>1, <2>2, <2>3, <2>4, <2>5, <3>1, <3>4, LookedAgain
      <3>6. FindingOf(c1, l) \in run.findings
        BY <2>3, <2>5, <3>3, <3>5 DEF Exhausts
      <3> QED
        BY <2>1, <3>2, <3>5, <3>6, FindingSays DEF Ids
    <2>6. CASE workflow # "probe"
      <3>1. ErasureTold(saved, c0) /\ ErasureTold(run, c1)
        BY <2>3, <2>4, <2>6 DEF Told
      <3>2. PICK l \in Residues : f.id = <<c0.scenario, l.id>> /\ f.surface = l.surface
        BY <2>1, <3>1 DEF ErasureTold
      <3>3. l \in Leaks /\ l.surface # "kv_cache"
        BY LeaksAssumed DEF Residues
      <3>4. l \in tested /\ Backing(f) = l.surface
        BY <2>1, <3>2, <3>3, IdsAreOf DEF Backing
      <3>5. ScopeLost(saved, run) = {} /\ saved.scenario = run.scenario
        BY <2>2 DEF Regressed, ScenarioChanged
      <3>6. l.surface \in RecordedSurfaces(run)
        BY <2>1, <3>4, <3>5 DEF ScopeLost, LiveSurfaces
      <3>7. l.surface \in c1.scope \ c1.fails
        BY <3>1, <3>6 DEF ErasureTold, RecordedSurfaces, Provenance, SameInstrument
      <3>8. \E g \in run.findings : g.id = <<c1.scenario, l.id>>
        BY <2>3, <2>6, <3>4, <3>7 DEF Exhausts
      <3>9. c1.scenario = c0.scenario
        BY <2>3, <2>4, <3>5 DEF Told
      <3> QED
        BY <2>1, <3>2, <3>8, <3>9 DEF Ids
    <2> QED
      BY <2>5, <2>6
  <1> QED
    BY <1>1, GateInductive, PTL

-----------------------------------------------------------------------------
(* The silent pass. *)

\* On the scorecard of a configured stack, a class that is graded, holds no confirmed finding
\* and says nothing about it, drove every probe of it on a live surface, with all its steps
\* and all its plants.
LEMMA PassHasLooked ==
    ASSUME NEW c \in Config, workflow = "probe", Told(run, c), Scope(run) = "configured_stack",
           NEW e \in CATALOG, Verdict(e, run) = "PASS", Notes(e, run) = {},
           NEW l \in Attacks, l.probe \in e.probes
    PROVE  /\ l.probe \in run.versions /\ Live(c, l.probe)
           /\ Dropped(c, l.probe) = {} /\ PlantsOf(l.probe) \subseteq Landed(c, l.probe)
           /\ FailingIn(e, run) = {}
  <1> DEFINE p == l.probe
  <1>1. ProbesTold(run, c)
    BY DEF Told
  <1>2. Covered(e, run) /\ FailingIn(e, run) = {}
    BY DEF Verdict
  <1>3. /\ e.probes \subseteq Ran(e, run)
        /\ ~(\E q \in Ran(e, run) : Metric(run, <<"user_steps_dropped", q>>) > 0)
        /\ ~(\E q \in Ran(e, run) : Metric(run, <<"unconfirmed_plants", q>>) > 0)
        /\ FakeBacked(e, run) = {} \/ FakeBacked(e, run) = Ran(e, run)
    <2>1. "missing" \notin Notes(e, run) /\ "user_dropped" \notin Notes(e, run)
          /\ "unlanded" \notin Notes(e, run) /\ "fake_backed" \notin Notes(e, run)
      OBVIOUS
    <2>2. "missing" \notin Notes(e, run) => e.probes \subseteq Ran(e, run)
      BY DEF Notes
    <2>3. "user_dropped" \notin Notes(e, run) =>
            ~(\E q \in Ran(e, run) : Metric(run, <<"user_steps_dropped", q>>) > 0)
      BY <1>2 DEF Notes
    <2>4. "unlanded" \notin Notes(e, run) =>
            ~(\E q \in Ran(e, run) : Metric(run, <<"unconfirmed_plants", q>>) > 0)
      BY <1>2 DEF Notes
    <2>5. "fake_backed" \notin Notes(e, run) =>
            FakeBacked(e, run) = {} \/ FakeBacked(e, run) = Ran(e, run)
      BY DEF Notes
    <2> QED
      BY <2>1, <2>2, <2>3, <2>4, <2>5
  <1>4. p \in Ran(e, run) /\ p \in run.versions
    <2>1. p \in Ran(e, run)
      BY <1>3
    <2>2. \A f \in run.findings : f.probe \in run.versions
      BY <1>1, FindingSays DEF ProbesTold
    <2> QED
      BY <2>1, <2>2 DEF Ran, ExercisedProbes
  <1>5. Dropped(c, p) = {}
    <2>1. ~(Cardinality(Dropped(c, p)) > 0)
      BY <1>1, <1>3, <1>4 DEF ProbesTold
    <2>2. Dropped(c, p) \subseteq LeaksOf(p)
      BY DEF Dropped
    <2> QED
      BY <2>1, <2>2, Finite
  <1>6. PlantsOf(p) \subseteq Landed(c, p)
    <2>1. ~(Cardinality(PlantsOf(p) \ Landed(c, p)) > 0)
      BY <1>1, <1>3, <1>4 DEF ProbesTold
    <2>2. PlantsOf(p) \ Landed(c, p) = {}
      BY <2>1, Finite
    <2> QED
      BY <2>2
  <1>7. RecordedSurfaces(run) = {SurfaceOf(q) : q \in run.versions}
    BY <1>1 DEF ProbesTold, RecordedSurfaces, Provenance
  <1>8. l.surface \in OwnBacking(p, run)
    BY <1>4, <1>7, LeakFacts DEF OwnBacking
  <1>9. FakeBacked(e, run) # Ran(e, run)
    <2> SUFFICES ASSUME FakeBacked(e, run) = Ran(e, run) PROVE FALSE
      OBVIOUS
    <2>1. \A q \in Ran(e, run) : OwnBacking(q, run) \subseteq Withheld(run)
      BY DEF FakeBacked
    <2>2. BackedBy(e, run) \subseteq Withheld(run)
      BY <2>1 DEF BackedBy, Accepted, OwnBacking
    <2>3. l.surface \in BackedBy(e, run)
      BY <1>4, <1>8 DEF BackedBy, Accepted, OwnBacking
    <2> QED
      BY <1>2, <2>2, <2>3 DEF Covered, FakeOnly
  <1>10. PICK s \in OwnBacking(p, run) : s \notin Withheld(run)
    BY <1>3, <1>4, <1>8, <1>9 DEF FakeBacked
  <1>11. s = l.surface
    <2>1. PICK q \in run.versions : s = SurfaceOf(q)
      BY <1>7, <1>10 DEF OwnBacking
    <2>2. PICK m \in Attacks : m.probe = q
      BY <1>1, <2>1 DEF ProbesTold, Probes
    <2>3. m.surface \in PROBE_SURFACES(p)
      BY <1>10, <2>1, <2>2, LeakFacts DEF OwnBacking
    <2> QED
      BY <2>1, <2>2, <2>3, LeakFacts, SlotsAssumed
  <1>12. Live(c, p)
    <2>1. l.surface \notin SyntheticSurfaces(run) /\ l.surface \in RecordedSurfaces(run)
      BY <1>10, <1>11 DEF Withheld, OwnBacking
    <2> QED
      BY <1>1, <2>1, LeakFacts DEF SyntheticSurfaces, ProbesTold, Provenance, RecordedSurfaces, Live
  <1> QED
    BY <1>2, <1>4, <1>5, <1>6, <1>12

\* score: a PASS that qualifies nothing, with every detection tier on, is about a class of
\* which the stack had no leak but one that ranks under another embedder.
THEOREM SilentPassIsTrue == Spec => []SilentPassIsComplete
  <1>1. IInv => SilentPassIsComplete
    <2> SUFFICES ASSUME IInv, gate = "graded", Scope(run) = "configured_stack",
                        run.detection = "full",
                        NEW e \in CATALOG, Verdict(e, run) = "PASS", Notes(e, run) = {},
                        NEW l \in tested, l.geometry \in {"any", run.embedder},
                        l.probe \in e.probes
                 PROVE  FALSE
      BY DEF SilentPassIsComplete, Graded
    <2>1. PICK c \in Config : Told(run, c) /\ Exhausts(run, c, tested)
      BY DEF IInv
    <2>2. workflow = "probe" /\ l \in Attacks
      <3>1. e.probes \cap ErasureWorkflows = {}
        BY DEF CATALOG, CatalogClass, ErasureWorkflows
      <3>2. l \notin Residues
        BY <3>1 DEF Residues
      <3> QED
        BY <3>2 DEF IInv, Stack
    <2>3. ProbesTold(run, c)
      BY <2>1, <2>2 DEF Told
    <2>4. /\ l.probe \in run.versions /\ Live(c, l.probe)
          /\ Dropped(c, l.probe) = {} /\ PlantsOf(l.probe) \subseteq Landed(c, l.probe)
          /\ FailingIn(e, run) = {}
      BY <2>1, <2>2, PassHasLooked
    <2>5. Reached(c, l)
      <3>1. l.plant = 0 \/ l.plant \in Landed(c, l.probe)
        BY <2>2, <2>4, LeakFacts DEF PlantsOf
      <3>2. l.geometry = "any" \/ l.geometry = c.embedder
        <4>1. l.geometry = "any" \/ l.geometry \in {"a", "b"}
          BY <2>2, GeometryAssumed
        <4> QED
          BY <2>3, <4>1 DEF ProbesTold
      <3>3. c.detection = "full" /\ (l.probe = "kv-cache-timing" => c.resolved)
        BY <2>3, <2>4 DEF ProbesTold
      <3> QED
        BY <2>4, <3>1, <3>2, <3>3 DEF Reached
    <2> DEFINE f == FindingOf(c, l)
    <2>6. f \in run.findings
      BY <2>1, <2>2, <2>4, <2>5 DEF Exhausts
    <2>7. f.probe = l.probe /\ f.status = "confirmed" /\ Backing(f) = l.surface
      BY <2>2, <2>3, FindingSays DEF ProbesTold
    <2> HIDE DEF f
    <2>8. l.surface \in LiveSurfaces(run) /\ l.surface \notin SyntheticSurfaces(run)
      BY <2>2, <2>3, <2>4, LeakFacts
         DEF ProbesTold, Provenance, LiveSurfaces, SyntheticSurfaces, RecordedSurfaces, Live
    <2>9. f \in ConfirmedIn(e, run) /\ f \notin UnattributedIn(e, run) /\ f \notin WithheldIn(e, run)
      BY <2>6, <2>7, <2>8
         DEF ConfirmedIn, Confirmed, UnattributedIn, WithheldIn, Withheld, LiveSurfaces
    <2> QED
      BY <2>4, <2>9 DEF FailingIn
  <1> QED
    BY <1>1, GateInductive, PTL

-----------------------------------------------------------------------------
(* The letter. *)

Bands == {"critical", "high", "medium", "low"}

LEMMA CatalogFacts ==
    /\ \A e \in CATALOG : e.band \in Bands /\ e.id \in Nat
    /\ \A e, g \in CATALOG : \A p \in e.probes \cap g.probes : e = g
    /\ IsFiniteSet(CATALOG)
  <1>1. \A e \in CATALOG : e.band \in Bands /\ e.id \in Nat
    BY DEF CATALOG, CatalogClass, Bands
  <1>2. ASSUME NEW e \in CATALOG, NEW g \in CATALOG, NEW p \in e.probes \cap g.probes
        PROVE  e = g
    BY DEF CATALOG, CatalogClass
  <1>3. IsFiniteSet(CATALOG)
    <2> DEFINE f == [i \in 1..13 |-> CHOOSE e \in CATALOG : (\E g \in CATALOG : g.id = i) => e.id = i]
    <2>1. \A e, g \in CATALOG : e.id = g.id => e = g
      BY DEF CATALOG, CatalogClass
    <2>2. \A e \in CATALOG : e.id \in 1..13
      BY DEF CATALOG, CatalogClass
    <2>3. CATALOG # {}
      BY DEF CATALOG
    <2>4. \A i \in 1..13 : f[i] \in CATALOG
      BY <2>3
    <2>5. \A e \in CATALOG : f[e.id] = e
      BY <2>1, <2>2
    <2> HIDE DEF f
    <2>6. f \in Surjection(1..13, CATALOG)
      BY <2>2, <2>4, <2>5 DEF Surjection, f
    <2>7. IsFiniteSet(1..13)
      <3>1. 1 \in Int /\ 13 \in Int
        OBVIOUS
      <3> QED
        BY ONLY <3>1, FS_Interval
    <2> QED
      BY <2>6, <2>7, FS_Surjection
  <1> QED
    BY <1>1, <1>2, <1>3

\* One class more weighs its band more.
LEMMA ClassWeighs ==
    ASSUME NEW S \in SUBSET CATALOG, NEW e \in CATALOG, e \notin S
    PROVE  /\ WeightOf(S) \in Nat /\ WeightOf(S \cup {e}) \in Nat
           /\ WeightOf(S \cup {e}) = WeightOf(S) + Weight(e.band)
           /\ Weight(e.band) \in Nat
  <1> DEFINE In(T, b) == {g \in T : g.band = b}
  <1>1. \A b : IsFiniteSet(In(S, b)) /\ IsFiniteSet(In(S \cup {e}, b))
    <2>1. \A T \in SUBSET CATALOG : \A b : IsFiniteSet(In(T, b))
      BY CatalogFacts, FS_Subset
    <2> QED
      BY <2>1
  <1>2. \A b : Cardinality(In(S, b)) \in Nat /\ Cardinality(In(S \cup {e}, b)) \in Nat
    BY <1>1, FS_CardinalityType
  <1>3. \A b : b # e.band => Cardinality(In(S \cup {e}, b)) = Cardinality(In(S, b))
    <2>1. \A b : b # e.band => In(S \cup {e}, b) = In(S, b)
      OBVIOUS
    <2> HIDE DEF In
    <2> QED
      BY <2>1
  <1>4. Cardinality(In(S \cup {e}, e.band)) = Cardinality(In(S, e.band)) + 1
    <2>1. In(S \cup {e}, e.band) = In(S, e.band) \cup {e} /\ e \notin In(S, e.band)
      OBVIOUS
    <2> HIDE DEF In
    <2> QED
      BY <1>1, <2>1, FS_AddElement
  <1> DEFINE of(T, b) == Cardinality(In(T, b))
  <1>5. \A T : WeightOf(T) = 5 * of(T, "critical") + 3 * of(T, "high")
                               + 1 * of(T, "medium") + 1 * of(T, "low")
    BY DEF WeightOf, Weight
  <1>6. /\ Weight("critical") = 5 /\ Weight("high") = 3
        /\ Weight("medium") = 1 /\ Weight("low") = 1
    BY DEF Weight
  <1>7. \A b : of(S, b) \in Nat /\ of(S \cup {e}, b) \in Nat
    BY <1>2
  <1>8. /\ \A b : b # e.band => of(S \cup {e}, b) = of(S, b)
        /\ of(S \cup {e}, e.band) = of(S, e.band) + 1
    BY <1>3, <1>4
  <1>9. e.band \in Bands
    BY CatalogFacts
  <1> HIDE DEF of
  <1> DEFINE c == of(S, "critical")
             h == of(S, "high")
             m == of(S, "medium")
             l == of(S, "low")
  <1>10. c \in Nat /\ h \in Nat /\ m \in Nat /\ l \in Nat
    BY <1>7
  <1>11. WeightOf(S) = 5 * c + 3 * h + 1 * m + 1 * l
    BY <1>5
  <1>12. WeightOf(S \cup {e}) =
           CASE e.band = "critical" -> 5 * (c + 1) + 3 * h + 1 * m + 1 * l
             [] e.band = "high"     -> 5 * c + 3 * (h + 1) + 1 * m + 1 * l
             [] e.band = "medium"   -> 5 * c + 3 * h + 1 * (m + 1) + 1 * l
             [] e.band = "low"      -> 5 * c + 3 * h + 1 * m + 1 * (l + 1)
    BY <1>5, <1>8, <1>9 DEF Bands
  <1> HIDE DEF c, h, m, l
  <1> QED
    BY <1>6, <1>9, <1>10, <1>11, <1>12 DEF Bands

\* A grade is a letter, and is no better when classes that passed no longer do, whether
\* they are still graded or not.
LEMMA GradeFalls ==
    ASSUME NEW P \in Nat, NEW C \in Nat, NEW w \in Nat
    PROVE  /\ GradeFor(P, C) \in 1..5
           /\ GradeFor(P, C) >= GradeFor(P + w, C)
           /\ GradeFor(P, C) >= GradeFor(P + w, C + w)
           /\ GradeFor(P, C + w) >= GradeFor(P, C)
  BY DEF GradeFor

\* The worst of some letters.
LEMMA WorstOf ==
    ASSUME NEW S \in SUBSET (1..5), S # {}
    PROVE  Max(S) \in S /\ \A x \in S : Max(S) >= x
  <1>1. \E x \in S : \A y \in S : x >= y
    <2>1. CASE 5 \in S BY <2>1
    <2>2. CASE 5 \notin S /\ 4 \in S BY <2>2
    <2>3. CASE 5 \notin S /\ 4 \notin S /\ 3 \in S BY <2>3
    <2>4. CASE 5 \notin S /\ 4 \notin S /\ 3 \notin S /\ 2 \in S BY <2>4
    <2>5. CASE 5 \notin S /\ 4 \notin S /\ 3 \notin S /\ 2 \notin S
      <3>1. \A x \in S : x = 1
        <4> TAKE x \in S
        <4>1. x \in 1..5 /\ x # 5 /\ x # 4 /\ x # 3 /\ x # 2
          BY <2>5
        <4> QED
          BY <4>1
      <3>2. 1 \in S
        BY <3>1
      <3>3. \A y \in S : 1 >= y
        BY <3>1
      <3> QED
        BY <3>2, <3>3
    <2> QED
      BY <2>1, <2>2, <2>3, <2>4, <2>5
  <1> QED
    BY <1>1 DEF Max

LEMMA CapsAreLetters ==
    ASSUME NEW r
    PROVE  Caps(r) \cup {1} \in SUBSET (1..5) /\ Caps(r) \cup {1} # {}
  BY DEF Caps, Cap

LEMMA VerdictSays ==
    ASSUME NEW e, NEW r
    PROVE  /\ Verdict(e, r) = "NOT_COVERED" <=> ~Covered(e, r)
           /\ Verdict(e, r) = "FAIL" <=> Covered(e, r) /\ FailingIn(e, r) # {}
  <1>1. ~Covered(e, r) => Verdict(e, r) = "NOT_COVERED"
    BY DEF Verdict
  <1>2. Covered(e, r) /\ FailingIn(e, r) # {} => Verdict(e, r) = "FAIL"
    BY DEF Verdict
  <1>3. Covered(e, r) /\ FailingIn(e, r) = {} => Verdict(e, r) = "PASS"
    BY DEF Verdict
  <1> QED
    BY <1>1, <1>2, <1>3

\* A confirmed finding that is not put down to a fake caps the letter at its class.
LEMMA FindingCaps ==
    ASSUME NEW r, NEW e \in CATALOG, NEW f \in ConfirmedIn(e, r), Backing(f) \notin Withheld(r)
    PROVE  Cap(e.band) \in Caps(r)
  <1>1. f.probe \in Ran(e, r)
    BY DEF ConfirmedIn, Confirmed, Ran, ExercisedProbes
  <1>2. CASE Verdict(e, r) = "FAIL"
    BY <1>2 DEF Caps
  <1>3. CASE Covered(e, r) /\ FailingIn(e, r) = {}
    <2>1. f \in UnattributedIn(e, r)
      BY <1>3 DEF FailingIn, WithheldIn
    <2> QED
      BY <1>3, <2>1 DEF Covered, Unattributable
  <1>4. CASE ~Covered(e, r)
    <2>1. RecordedSurfaces(r) # {}
      <3> SUFFICES ASSUME RecordedSurfaces(r) = {} PROVE FALSE
        OBVIOUS
      <3>1. ~Unplaceable(e, r) /\ BackedBy(e, r) = {} /\ UnattributedIn(e, r) = {}
        BY DEF Unplaceable, BackedBy, UnattributedIn
      <3> QED
        BY <1>1, <1>4, <3>1 DEF Covered, FakeOnly, Unattributable
    <2>2. UncappedConfirmed(e, r)
      BY <2>1 DEF UncappedConfirmed
    <2>3. Verdict(e, r) = "NOT_COVERED"
      BY <1>4, VerdictSays
    <2> QED
      BY <2>2, <2>3 DEF Caps
  <1> QED
    BY <1>2, <1>3, <1>4, VerdictSays

LEMMA LetterHolds ==
    ASSUME NEW r
    PROVE  /\ Letter(r) >= Max(Caps(r) \cup {1})
           /\ \A x \in Caps(r) : Letter(r) >= x
  <1> DEFINE P == WeightOf({e \in CoveredClasses(r) : FailingIn(e, r) = {}})
             C == WeightOf(CoveredClasses(r))
             M == Max(Caps(r) \cup {1})
  <1>1. M \in 1..5 /\ \A x \in Caps(r) : M >= x
    <2> DEFINE S == Caps(r) \cup {1}
    <2>1. S \in SUBSET (1..5) /\ S # {}
      BY CapsAreLetters
    <2> HIDE DEF S
    <2>2. Max(S) \in S /\ \A x \in S : Max(S) >= x
      BY <2>1, WorstOf
    <2> QED
      BY <2>1, <2>2 DEF S
  <1>2. GradeFor(P, C) \in 1..5
    BY DEF GradeFor
  <1>3. Letter(r) = Worse(GradeFor(P, C), M)
    BY DEF Letter
  <1>4. \A x \in Caps(r) : x \in 1..5
    BY CapsAreLetters
  <1> HIDE DEF P, C, M
  <1>5. Letter(r) >= M /\ \A x \in Caps(r) : Letter(r) >= x
    BY <1>1, <1>2, <1>3, <1>4 DEF Worse
  <1> QED
    BY <1>5 DEF M

\* One more confirmed finding on a live surface: it is a finding of its class alone.
LEMMA WithSays ==
    ASSUME NEW c \in Config, Told(run, c), cfg \in Config, NEW l \in Attacks
    PROVE  \E f :
             /\ With(run, l).findings = run.findings \cup {f}
             /\ f.probe = l.probe /\ f.status = "confirmed" /\ Backing(f) = l.surface
             /\ \A e : ConfirmedIn(e, With(run, l)) = ConfirmedIn(e, run)
                         \cup (IF l.probe \in e.probes THEN {f} ELSE {})
             /\ ExercisedProbes(With(run, l)) = ExercisedProbes(run) \cup {l.probe}
             /\ RecordedSurfaces(With(run, l)) = RecordedSurfaces(run)
             /\ Withheld(With(run, l)) = Withheld(run)
  <1> DEFINE f == [FindingOf(cfg, l) EXCEPT !.status = "confirmed"]
             r == With(run, l)
  <1>1. f.probe = l.probe /\ f.status = "confirmed" /\ Backing(f) = l.surface
    <2>1. f.surface = FindingOf(cfg, l).surface /\ f.probe = FindingOf(cfg, l).probe
          /\ f.status = "confirmed"
      BY DEF FindingOf
    <2> HIDE DEF f
    <2> QED
      BY <2>1, FindingSays DEF Backing
  <1>2. r.findings = run.findings \cup {f} /\ r.versions = run.versions /\ r.provenance = run.provenance
    BY DEF With, Told, IsRecord
  <1> HIDE DEF f, r
  <1>3. \A e : ConfirmedIn(e, r) = ConfirmedIn(e, run) \cup (IF l.probe \in e.probes THEN {f} ELSE {})
    BY <1>1, <1>2 DEF ConfirmedIn, Confirmed
  <1>4. ExercisedProbes(r) = ExercisedProbes(run) \cup {l.probe}
    BY <1>1, <1>2 DEF ExercisedProbes
  <1>5. RecordedSurfaces(r) = RecordedSurfaces(run) /\ Withheld(r) = Withheld(run)
    BY <1>2 DEF RecordedSurfaces, Withheld, Scope, LiveSurfaces, SyntheticSurfaces
  <1> QED
    BY <1>1, <1>2, <1>3, <1>4, <1>5 DEF r

\* A class whose probes did not find it is graded as before.
LEMMA OtherClasses ==
    ASSUME NEW r, NEW t, NEW e,
           ConfirmedIn(e, t) = ConfirmedIn(e, r), Ran(e, t) = Ran(e, r),
           RecordedSurfaces(t) = RecordedSurfaces(r), Withheld(t) = Withheld(r)
    PROVE  /\ Covered(e, t) <=> Covered(e, r)
           /\ FailingIn(e, t) = FailingIn(e, r)
           /\ UncappedConfirmed(e, t) <=> UncappedConfirmed(e, r)
  <1>1. UnattributedIn(e, t) = UnattributedIn(e, r) /\ WithheldIn(e, t) = WithheldIn(e, r)
    BY DEF UnattributedIn, WithheldIn
  <1>2. BackedBy(e, t) = BackedBy(e, r)
    BY DEF BackedBy, Accepted
  <1>3. FailingIn(e, t) = FailingIn(e, r)
    BY <1>1 DEF FailingIn
  <1>4. Covered(e, t) <=> Covered(e, r)
    BY <1>1, <1>2, <1>3 DEF Covered, Unplaceable, FakeOnly, Unattributable
  <1> QED
    BY <1>3, <1>4 DEF UncappedConfirmed

\* The class that found it does not pass, and fails on if it failed.
LEMMA TheClassFails ==
    ASSUME NEW r, NEW t, NEW e, NEW f,
           ConfirmedIn(e, t) = ConfirmedIn(e, r) \cup {f}, Ran(e, r) \subseteq Ran(e, t),
           Ran(e, t) \subseteq Ran(e, r) \cup {f.probe}, f.probe \in Ran(e, t),
           RecordedSurfaces(t) = RecordedSurfaces(r), Withheld(t) = Withheld(r),
           Backing(f) \notin Withheld(r)
    PROVE  /\ ~(Covered(e, t) /\ FailingIn(e, t) = {})
           /\ Covered(e, r) /\ FailingIn(e, r) # {} => Covered(e, t)
  <1>1. FailingIn(e, r) \subseteq FailingIn(e, t)
    BY DEF FailingIn, UnattributedIn, WithheldIn
  <1>2. ~(Covered(e, t) /\ FailingIn(e, t) = {})
    <2>1. FailingIn(e, t) = {} => f \in UnattributedIn(e, t)
      BY DEF FailingIn, WithheldIn
    <2> QED
      BY <2>1 DEF Covered, Unattributable
  <1>3. ASSUME Covered(e, r), FailingIn(e, r) # {} PROVE Covered(e, t)
    <2>1. Ran(e, t) # {}
      OBVIOUS
    <2>2. BackedBy(e, r) \subseteq BackedBy(e, t)
      BY DEF BackedBy, Accepted
    <2>3. ~Unplaceable(e, t)
      BY <1>3, <2>2 DEF Covered, Unplaceable
    <2>4. ~FakeOnly(e, t)
      <3>1. CASE BackedBy(e, r) # {}
        BY <1>3, <2>2, <3>1 DEF Covered, FakeOnly
      <3>2. CASE BackedBy(e, r) = {}
        BY <1>3, <3>2 DEF Covered, Unplaceable, FakeOnly, BackedBy
      <3> QED
        BY <3>1, <3>2
    <2>5. ~Unattributable(e, t)
      BY <1>1, <1>3 DEF Unattributable
    <2> QED
      BY <2>1, <2>3, <2>4, <2>5 DEF Covered
  <1> QED
    BY <1>2, <1>3

\* The weighted grade, as one class stops passing or starts to be graded.
LEMMA WeightedFalls ==
    ASSUME NEW A \in SUBSET CATALOG, NEW B \in SUBSET CATALOG, NEW P \in SUBSET A,
           NEW e \in CATALOG, A \ {e} = B \ {e}, e \in A \ P => e \in B
    PROVE  /\ GradeFor(WeightOf(P \ {e}), WeightOf(B)) >= GradeFor(WeightOf(P), WeightOf(A))
           /\ GradeFor(WeightOf(P \ {e}), WeightOf(B)) \in 1..5
           /\ GradeFor(WeightOf(P), WeightOf(A)) \in 1..5
  <1> DEFINE Q == P \ {e}
             D == A \ {e}
             w == Weight(e.band)
  <1>1. /\ WeightOf(Q) \in Nat /\ WeightOf(D) \in Nat /\ w \in Nat
        /\ WeightOf(Q \cup {e}) = WeightOf(Q) + w /\ WeightOf(D \cup {e}) = WeightOf(D) + w
    <2>1. Q \in SUBSET CATALOG /\ e \notin Q /\ D \in SUBSET CATALOG /\ e \notin D
      OBVIOUS
    <2> HIDE DEF Q, D
    <2>2. WeightOf(Q) \in Nat /\ w \in Nat /\ WeightOf(Q \cup {e}) = WeightOf(Q) + w
      BY <2>1, ClassWeighs
    <2>3. WeightOf(D) \in Nat /\ WeightOf(D \cup {e}) = WeightOf(D) + w
      BY <2>1, ClassWeighs
    <2> QED
      BY <2>2, <2>3
  <1>2. P = Q \/ (P = Q \cup {e} /\ A = D \cup {e})
    OBVIOUS
  <1>3. (A = D \/ A = D \cup {e}) /\ (B = D \/ B = D \cup {e})
    OBVIOUS
  <1>4. P = Q /\ A = D \cup {e} /\ A # D => B = D \cup {e}
    OBVIOUS
  <1> HIDE DEF Q, D, w
  <1> DEFINE p == WeightOf(Q)
             d == WeightOf(D)
  <1>5. WeightOf(P) \in {p, p + w} /\ WeightOf(A) \in {d, d + w} /\ WeightOf(B) \in {d, d + w}
    BY <1>1, <1>2, <1>3
  <1>6. \/ WeightOf(P) = p /\ WeightOf(B) = WeightOf(A)
        \/ WeightOf(P) = p /\ WeightOf(A) = d /\ WeightOf(B) = d + w
        \/ WeightOf(P) = p + w /\ WeightOf(A) = d + w /\ WeightOf(B) \in {d, d + w}
    BY <1>1, <1>2, <1>3, <1>4
  <1>7. p \in Nat /\ d \in Nat /\ w \in Nat
    BY <1>1
  <1> HIDE DEF p, d
  <1>8. d + w \in Nat /\ p + w \in Nat
    BY <1>7
  <1>9. /\ GradeFor(p, d) \in 1..5 /\ GradeFor(p, d + w) \in 1..5
        /\ GradeFor(p + w, d) \in 1..5 /\ GradeFor(p + w, d + w) \in 1..5
    BY <1>7, <1>8, GradeFalls
  <1>10. /\ GradeFor(p, d + w) >= GradeFor(p, d)
         /\ GradeFor(p, d) >= GradeFor(p + w, d + w)
         /\ GradeFor(p, d + w) >= GradeFor(p + w, d + w)
    BY <1>7, <1>8, GradeFalls
  <1>11. /\ GradeFor(p, WeightOf(B)) >= GradeFor(WeightOf(P), WeightOf(A))
         /\ GradeFor(p, WeightOf(B)) \in 1..5 /\ GradeFor(WeightOf(P), WeightOf(A)) \in 1..5
    <2>1. CASE WeightOf(P) = p /\ WeightOf(B) = WeightOf(A)
      BY <1>5, <1>9, <2>1
    <2>2. CASE WeightOf(P) = p /\ WeightOf(A) = d /\ WeightOf(B) = d + w
      BY <1>9, <1>10, <2>2
    <2>3. CASE WeightOf(P) = p + w /\ WeightOf(A) = d + w /\ WeightOf(B) \in {d, d + w}
      BY <1>9, <1>10, <2>3
    <2> QED
      BY <1>6, <2>1, <2>2, <2>3
  <1> QED
    BY <1>11 DEF p, Q

Passing(r) == {e \in CoveredClasses(r) : FailingIn(e, r) = {}}

\* One more confirmed finding on a live surface does not improve the letter.
LEMMA LetterFalls ==
    ASSUME NEW c \in Config, Told(run, c), cfg \in Config, NEW l \in Attacks,
           l.surface \notin Withheld(run)
    PROVE  Letter(With(run, l)) >= Letter(run)
  <1> DEFINE t == With(run, l)
  <1>1. PICK f :
          /\ f.probe = l.probe /\ f.status = "confirmed" /\ Backing(f) = l.surface
          /\ \A e : ConfirmedIn(e, t) = ConfirmedIn(e, run)
                      \cup (IF l.probe \in e.probes THEN {f} ELSE {})
          /\ ExercisedProbes(t) = ExercisedProbes(run) \cup {l.probe}
          /\ RecordedSurfaces(t) = RecordedSurfaces(run) /\ Withheld(t) = Withheld(run)
    BY WithSays
  <1> HIDE DEF t
  <1>2. ASSUME NEW e \in CATALOG, l.probe \notin e.probes
        PROVE  /\ Covered(e, t) <=> Covered(e, run)
               /\ FailingIn(e, t) = FailingIn(e, run)
               /\ UncappedConfirmed(e, t) <=> UncappedConfirmed(e, run)
    <2>1. ConfirmedIn(e, t) = ConfirmedIn(e, run) /\ Ran(e, t) = Ran(e, run)
      BY <1>1, <1>2 DEF Ran
    <2> QED
      BY <1>1, <2>1, OtherClasses
  <1>3. ASSUME NEW e \in CATALOG, l.probe \in e.probes
        PROVE  /\ Cap(e.band) \in Caps(t)
               /\ ~(Covered(e, t) /\ FailingIn(e, t) = {})
               /\ Covered(e, run) /\ FailingIn(e, run) # {} => Covered(e, t)
    <2>1. /\ ConfirmedIn(e, t) = ConfirmedIn(e, run) \cup {f}
          /\ Ran(e, run) \subseteq Ran(e, t) /\ Ran(e, t) \subseteq Ran(e, run) \cup {f.probe}
          /\ f.probe \in Ran(e, t)
      BY <1>1, <1>3 DEF Ran
    <2>2. Backing(f) \notin Withheld(run) /\ Backing(f) \notin Withheld(t)
      BY <1>1
    <2>3. Cap(e.band) \in Caps(t)
      BY <2>1, <2>2, FindingCaps
    <2>4. /\ ~(Covered(e, t) /\ FailingIn(e, t) = {})
          /\ Covered(e, run) /\ FailingIn(e, run) # {} => Covered(e, t)
      BY <1>1, <2>1, <2>2, TheClassFails
    <2> QED
      BY <2>3, <2>4
  <1>4. Caps(run) \subseteq Caps(t)
    <2> SUFFICES ASSUME NEW e \in CATALOG,
                        \/ Verdict(e, run) = "FAIL"
                        \/ Verdict(e, run) = "NOT_COVERED" /\ UncappedConfirmed(e, run)
                 PROVE  Cap(e.band) \in Caps(t)
      BY DEF Caps
    <2>1. CASE l.probe \in e.probes
      BY <1>3, <2>1
    <2>2. CASE l.probe \notin e.probes
      <3>1. \/ Verdict(e, t) = "FAIL"
            \/ Verdict(e, t) = "NOT_COVERED" /\ UncappedConfirmed(e, t)
        BY <1>2, <2>2, VerdictSays
      <3> QED
        BY <3>1 DEF Caps
    <2> QED
      BY <2>1, <2>2
  <1>5. Max(Caps(t) \cup {1}) >= Max(Caps(run) \cup {1})
        /\ Max(Caps(t) \cup {1}) \in 1..5 /\ Max(Caps(run) \cup {1}) \in 1..5
    <2> DEFINE S == Caps(run) \cup {1}
               T == Caps(t) \cup {1}
    <2>1. S \in SUBSET (1..5) /\ S # {} /\ T \in SUBSET (1..5) /\ T # {} /\ S \subseteq T
      BY <1>4, CapsAreLetters
    <2> HIDE DEF S, T
    <2>2. Max(S) \in S /\ Max(T) \in T /\ \A x \in T : Max(T) >= x
      BY <2>1, WorstOf
    <2>3. Max(T) >= Max(S) /\ Max(T) \in 1..5 /\ Max(S) \in 1..5
      BY <2>1, <2>2
    <2> QED
      BY <2>3 DEF S, T
  <1> DEFINE G(r) == GradeFor(WeightOf(Passing(r)), WeightOf(CoveredClasses(r)))
  <1>6. G(t) >= G(run) /\ G(t) \in 1..5 /\ G(run) \in 1..5
    <2>1. Passing(run) \in SUBSET CoveredClasses(run) /\ CoveredClasses(run) \in SUBSET CATALOG
          /\ CoveredClasses(t) \in SUBSET CATALOG
      BY DEF Passing, CoveredClasses
    <2>2. PICK e \in CATALOG :
             \A g \in CATALOG : l.probe \in g.probes => g = e
      <3>1. \A g, h \in CATALOG : l.probe \in g.probes /\ l.probe \in h.probes => g = h
        BY CatalogFacts
      <3>2. CATALOG # {}
        BY DEF CATALOG
      <3> QED
        BY <3>1, <3>2
    <2>3. CASE l.probe \in e.probes
      <3>1. CoveredClasses(run) \ {e} = CoveredClasses(t) \ {e}
        BY <1>2, <2>2 DEF CoveredClasses
      <3>2. e \in CoveredClasses(run) \ Passing(run) => e \in CoveredClasses(t)
        BY <1>3, <2>3 DEF CoveredClasses, Passing
      <3>3. Passing(t) = Passing(run) \ {e}
        BY <1>2, <1>3, <2>2, <2>3 DEF Passing, CoveredClasses
      <3> QED
        BY <2>1, <3>1, <3>2, <3>3, WeightedFalls
    <2>4. CASE l.probe \notin e.probes
      <3>1. \A g \in CATALOG : l.probe \notin g.probes
        BY <2>2, <2>4
      <3>2. CoveredClasses(t) = CoveredClasses(run) /\ Passing(t) = Passing(run)
        BY <1>2, <3>1 DEF CoveredClasses, Passing
      <3>3. G(run) \in 1..5
        BY <2>1, WeightedFalls
      <3> QED
        BY <3>2, <3>3
    <2> QED
      BY <2>3, <2>4
  <1>7. \A r : Letter(r) = Worse(G(r), Max(Caps(r) \cup {1}))
    BY DEF Letter, Passing
  <1> HIDE DEF G
  <1>8. Letter(t) >= Letter(run)
    BY <1>5, <1>6, <1>7 DEF Worse
  <1> QED
    BY <1>8 DEF t

\* score: every confirmed finding that is not put down to a fake caps the letter at its
\* class, also with a row of the provenance missing, and one more never improves it.
THEOREM LeaksHold == Spec => []LeaksHoldTheLetterDown
  <1>1. IInv => LeaksHoldTheLetterDown
    <2> SUFFICES ASSUME IInv, gate = "graded" PROVE LeaksHoldTheLetterDown
      BY DEF LeaksHoldTheLetterDown, Graded
    <2>1. PICK c \in Config : Told(run, c)
      BY DEF IInv
    <2>2. \A r : \A e \in CATALOG : \A f \in ConfirmedIn(e, r) :
             Backing(f) \notin Withheld(r) => Letter(r) >= Cap(e.band)
      BY FindingCaps, LetterHolds
    <2>3. \A l \in Attacks :
             l.surface \notin Withheld(run) => Letter(With(run, l)) >= Letter(run)
      BY <2>1, LetterFalls DEF IInv
    <2> QED
      BY <2>2, <2>3 DEF LeaksHoldTheLetterDown
  <1> QED
    BY <1>1, GateInductive, PTL

=============================================================================
