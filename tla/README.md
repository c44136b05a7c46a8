# TLA+ models of Sectum AI

Sectum AI is a command-line program that verifies tenant isolation and data erasure in AI
systems. It seeds a work directory with synthetic tenants and canary markers, drives the
configured backends through probes, grades what it sees, and signs an evidence pack that
others verify. Its product is a claim. The properties here ask, of each claim the code can
emit (ERASED, a passed class, a letter, a green gate, exit 0, VERIFIED), whether the run
behind it supports it, however the backends, the files and the operator behave.

Paths below are relative to `src/packages/`; `app.py` is `core/src/sectum_ai/cli/app.py`.

## 1. Inventory

| Component | State it keeps | Operations | Modules |
|---|---|---|---|
| Erasure verification, canary mode: `probes/.../erasure/probe.py`, `app.py` `erasure` | what the backends hold; per surface the scan's `_partial`, `_inconclusive`, `before`, `purge_failed`; the report, the findings, the exit code | seed, clear, seed canaries, scan, delete, scan, emit | `ErasureVerdict`, `ErasureRun` |
| Erasure verification of a data subject (A3): `probes/.../subject_erasure/probe.py` | the manifest, what the scan has seen and decided, the report and its second channel `unverifiable` | read a needle, contain a raise, close a surface, emit | `SubjectErasure`, `ErasureVerdict` |
| Job runner: `core/.../jobs.py` | the futures of a pool, how far the caller has collected | start, end, collect, cancel, join, deliver | `JobRunner`, `JobBatch` |
| Probe runner: `core/.../runner.py`, `app.py` `probe` | per probe the step, its plants, what did not read back, what was dropped; the run record | plant, read back, judge, drop, raise, finish; record, refuse, abort | `ProbeRun` |
| Probe plans, and the substrate they are made from: `probes/.../*/probe.py`, `core/.../substrate` | the plan, what of it is sent, the findings | plan, skip, load, send, detect | `ProbePlans` |
| Detection and its calibration: `probes/.../detection.py`, `providers.py`, `calibrate.py`, `spec/.../text.py` | the observations, the marker being weighed, the provider call, the findings | exact, credential and semantic tiers, retry, raise, deduplicate; calibrate | `Detection`, `Calibration`, `TextMatch` |
| Vector store adapters: `adapters/.../vector` | none beyond a flag or two; the backend's index | upsert, query, fetch, delete, settle | `VectorStores` |
| Trace backends: `adapters/.../observability` | none; the backend's traces | search, fetch, delete with its confirmation | `TraceBackends` |
| Backup, eval set, search index, memory and cache adapters | the versioning, or the policy, read once; the backend's rows | search, purge | `SurfaceStores` |
| Agent adapters: `adapters/.../agent` | the thread or the history kept per tenant | a run: post, poll, call tools, read the answer, roll back | `AgentTurn` |
| KV-cache timing probe: `probes/.../kv_cache_timing/probe.py` | the schedule, the two arms' samples; the backend's warm prefixes | warm up, measure, close a pair | `KvTiming` |
| Embedder bridge: `core/.../embeddings.py` | two caches of vectors, the registered queries | prefetch, register, embed on demand | `Embedder` |
| Isolation score, baseline, diff: `core/.../score.py`, `baseline.py`, `app.py` | two run records | record, save, compare, grade | `RunRecord`, `Score`, `RunDiff`, `Regression` |
| Work directory: `app.py` `seed`, `probe`, `report`, `pack`, `erasure` | the two variants of the substrate, `run.json`, the packs with their documents, a staged PDF, the bundles | each command as its writes; a failed anchor, a failed write, a kill | `Workdir` |
| Evidence verification: `evidence/.../verify.py`, `bundle.py`, `app.py` `verify` | none | judge, name or leave open each sibling; the exit code; the bundle verdict | `PackFolder` |

How they interact. `seed` writes the substrate every other command loads. `probe` makes each
probe plan from it, drops what the stack cannot take, hands the suite to the job runner, and
its jobs drive one shared bundle of adapters, through one embedder; the detector judges what
they observe; what they return becomes `run.json`. `erasure` drives the same adapters one
surface after the other. `score`, `baseline` and `diff` read run records, `report` signs one
and writes four files, `erasure` writes three of its own, `pack` and `report --bundle` zip
what lies there, `verify` reads any of it. Backends are shared state without a lock; the
files are shared between commands that run one after the other.

What is hard in each, and what makes it correct:

- *Erasure.* Any call may raise, before or after it took effect; a delete may be refused or
  keep data; a similarity page may be full; ingestion may lag. Correct: ERASED is said only
  of a surface that holds nothing, one failure costs one surface its verdict, the cascades
  (verdict, coverage, metric, control assertion, headline) tell one story.
- *A3.* The check runs after somebody else's deletion, possibly during it. Correct: what was
  seen is reported, and what was not resolved is counted.
- *Jobs.* Workers, the calling thread and its cancellations interleave. Correct: an answer
  in every schedule, the first error of the input order, nobody running after the answer.
- *Probes and plans.* Backends leak, lose plants or hide them; a probe raises; a stack cannot
  receive a canary, or carry a user. Correct: no class passes on a question without an
  answer, every boundary is crossed, no leak is dropped, every narrowing is disclosed.
- *Detection.* The judge is a remote model that may decline, invent and misquote. Correct:
  what is there is confirmed, nothing else is, whichever order steps come in.
- *Adapters.* A hosted service applies writes late, lists up to a cap, pages while its
  contents move, accepts deletions without finishing them. Correct: "not there" and
  "deleted" are said only of what was; a call that cannot tell raises.
- *Agents.* A polled run outlives its deadline, a conversation outlives its run. Correct: the
  answer is the tenant's own agent's.
- *Timing and embedding.* State left by one measurement or batch is used by the next.
  Correct: a gap is the owner's doing; a text has one vector for a whole run.
- *Score and gate.* A finding disappears because it was fixed, or because nobody looked.
  Correct: a green gate and a silent pass rest on what was measured.
- *Work directory.* A failure or a kill between two writes; re-seeding, re-probing, copying.
  Correct: an untouched folder is never called altered, an altered document is never
  certified, evidence is never of two runs.

### Not modelled

`PROJECT.json` lists each component with its status and reason. In short:

- floating-point statistics (Welch, Wilson, incomplete beta) and cryptography (AES-GCM, RFC
  3161, Rekor) are out of a model checker's reach; their outcome is a choice or an integer
  that stands for it;
- exports (SARIF, OSCAL, PDF), configuration parsing, the commands that only print: no state
  another step relies on;
- RAG and MCP adapters (one request, one answer, nothing kept), model weights and serving,
  media rendering, the built-in fakes: the environment of the models, not part of them;
- `preflight`, the confidence intervals of a run, the multimodal documents, the routing
  finding of the agent-framework probe, the sweep over embedding models, `init`'s templates,
  and two commands running at once in one directory.

## 2. Modules and the code

`PROJECT.json` maps every definition to its lines. Helpers keep the source's names.

**`ErasureVerdict`** holds the pure cascades of `erasure/probe.py` (`SurfaceErasure.erased`,
`coverage_verdict`, the report's), the residue metric of `app.py` and the control assertion
of `evidence/controls.py`. `SurfaceErasure(Markers)` is the record, with counts.

**`ErasureRun`** is one command. `phase` and `pos` are its program counter. `SeedTarget`,
`SeedOthers`, `ClearTarget` and `SeedCanaries` are the seeding in the order of `app.py`; every
write may be refused before or after it landed. `StartSurface`, `ReadMarker`, `ReadListing`,
`PreDone`, `PreRaises`, `Delete`, `PostDone`, `PostRaises` are the per-surface flow; the nine
scan bodies of the code are one action per decided marker (`ReadMarker`), or one listing
(`ReadListing`). `Emit` is the report, the headline and the exit code. `stored` and `visible`
are the environment: they differ only on a surface in `Lagging`, until `Settle`.

**`SubjectErasure`** is `SubjectErasureProbe.verify`: `ReadNeedle`, `NoTraceFetch`,
`ReadRaises`, `ScanDone`, `Emit`. `ControllerDeletes` is the controller's own deletion, which
may still run. The recall controls of `_recall.py` are abstracted to `base_control`. The
command configures an adapter for every surface, so none is ever missing; ids named for a
surface that has no by-id check are not part of what is asked; reads do not lag behind writes.

**`JobBatch`** is the promise of `JobRunner.map`; **`JobRunner`** is both implementations. The
refinement mapping hides the queue, the cancellations and the join: a queued or cancelled job
is `idle`, an answer exists once the calling thread has left the pool.

**`ProbeRun`** EXTENDS `JobRunner` and gives a job its body, `Runner.run_per_step`. The plans
(`Suite`) are a constant. The actions of a job are `StartProbe`, `DropProbe`, `DropStep`,
`Plant`, `ReadBack`, `Judge`, `StepRaises`, `FinishProbe`; those of the command `Calling` (the
runner's calling thread), `Abort`, `Refuse`, `Record`. A plant is two backend calls, so
another probe may act between them. `leaky`, `lossy` and `blind` say how a family misbehaves.

**`ProbePlans`** takes one probe from the substrate to what the record may say of it. The
plan of each of the eleven probes (`BoundaryPlan` ... `PoisonPlan`) is a function of the
substrate; `Refuse`, `SkipInapplicable`, `Load`, `SkipUnseedable`, `DropProbe`, `SendSteps` and
`Detect` are what the command and the runner do with it. The stack varies: a fake or a live
adapter, that carries a user or not, that separates tenants, users or nobody, that drops
plants. A lookup stands for its variants and an extraction question for its turns; a
poisoning lure brings back poisoned documents only.

**`Detection`** (on **`Calibration`** and **`TextMatch`**) is one probe's `detect`. `Observe`
runs the exact and the credential tier on an answer; `Embed` and `Judge` are the provider
calls of the semantic tier, one per entity marker, each of which may be retried (`Retry`) or
raise (`Raise`); `Finish` deduplicates. Before it, `Calibrate` chooses the gate from labelled
similarities. A text is its tokens and how its bytes render them, so that the substring, the
ordered-window and the squashed matches differ as they do in `text.py`. A quotation the
judge gives is bytes of the answer, or the marker's own.

**`TraceBackends`** has the three calls of six adapters as their remote requests, one action
each; between any two, traces arrive, expire and are deleted. **`VectorStores`** has the four
calls of eight adapters for two clients of one tenant; on the hosted two, accepted writes are
applied later, in order. **`SurfaceStores`** has a scan and a purge of the other seven stores;
what a restore could bring back counts as held. What the S3 and GCS adapters cache is read in
steps of their own (`ReadVersioning`, `ReadPolicy`), and the operator may version a bucket or
give it a soft-delete policy before, after, or between two requests of a call (`SetVersioning`,
`SetRetention`); `outdated` notes that a bucket began to keep what is deleted after its adapter
had read that it does not. What others soft-deleted before the run is not in it. **`AgentTurn`** has a run of six frameworks,
two workers at once; the service behind the assistants may never finish. **`KvTiming`** counts
latencies as integers and keeps the prefix caches per domain of tenants. **`Embedder`** follows
the texts of a run through the prefetches and the calls on demand.

**`RunRecord`**, **`Score`** and **`RunDiff`** are operators on run records. **`Regression`** is
the gate over time: `Change` is the operator or the stack, `Rerun` records a run, `Save` keeps
it, `Compare` gates the next, `Grade` scores it, `Truncate` and `Spoil` damage the baseline.

**`PackFolder`** is what `verify` concludes from a folder or a bundle: operators over a
function from file names to contents. Cryptography is abstracted to what it binds: a document
*is* the run, manifest and anchoring it was rendered from, and it binds to the pack of the same.

**`Workdir`** runs the commands. A command that starts checks what the code checks and puts
its remaining writes in `todo`; one action performs each (`WriteSubstrate`, `UnlinkOther`,
`Stage`, `Build`, `Write`, `Publish`, `WriteBundle`). `BuildFails`, `WriteFails` and `Killed`
end it early, with the file half written or not. `CopyPack` and `Alter` act between commands.

The instances: **`MCErasure`**, **`MCRegression`**, **`MCWorkdir`**; and three
that put parts without shared state side by side, so that one run checks them: **`MCProbe`**
(values for **`ProbeParts`**: the interleaved suite, and one probe from its plan),
**`MCServices`** (values for **`ServiceParts`**: detection, trace backends, agents, the pool) and **`MCStores`** (vector
stores, the other stores, timing, the embedder, the data-subject check over such stores). Their variable `part` says which part a
behaviour is of; the others stay in an initial state. They EXTEND their parts, so what a theorem
says is the very definition their run checks. The theorems are in modules of their own:
**`ErasureProofs`**, **`SubjectProofs`**, **`ProbeProofs`** (about `JobRunner`, `ProbeRun` and
`ProbePlans`), **`ServicesProofs`** (trace backends, agents, the semantic gate, the findings, the types of all these),
**`VectorStoresProofs`**, **`StoresProofs`** (the embedder, the other stores, the timing
probe), **`RegressionProofs`** (with the letter of `Score`) and **`WorkdirProofs`** (with the
sibling rules of `PackFolder`).

Definitions preceded by "Fault:" are variants with a plausible bug in them; no specification
uses them. Substituted for the definition they vary, each breaks the property named beside it
in `PROJECT.json` "mutants".

## 3. Runs

| Run | Shows |
|---|---|
| `erasure_safety` | over a vector store, a lagging tracing backend and a listed cache, nothing signed claims more than the backends hold, and the command reaches an exit code, whatever is raised |
| `probe_suite` | on two workers, over every mix of leaky, lossy and blind backends, and for each probe over every small substrate and stack: no pass on nothing, no boundary left out, no lost leak, no undisclosed narrowing, and the schedule does not change what is found by a probe no other probe plants for |
| `services` | no service a run waits for makes it say more than it was shown, and every wait ends |
| `stores` | no store, cache or table makes a later step read what an earlier one did not put there; and the data-subject check, for every small manifest, loses nothing still held between its findings and its open counts |
| `regression_gate` | a green gate, a silent PASS and the letter rest on what was measured, through two changes of the stack or the configuration |
| `workdir` | an untouched folder verifies, evidence is of one run, a completed seed leaves one substrate, and no neighbour makes `verify` certify an altered document |
| `erasure_exit_code`, `erasure_purge`, `plans_unplanted`, `regression_waved`, `workdir_torn`, `stores_stale` | six disagreements, section 6 |

The properties worth reading first:

- `ErasedIsSound`: a surface recorded ERASED holds none of the target's markers. It is stated
  against the environment's `stored`, which no verdict can read. A lagging backend is excluded
  by its own hypothesis, since no scan can see behind it.
- `NothingVanishes` (A3): of the needles a backend still holds, no more are missing from the
  residual than the counts of what the run says it did not resolve.
- `NoVacuousPass`, `PlansAreCarriedOut`: a probe recorded without a confirmed finding could
  have had one, and a recorded probe confirms exactly what its adapter could show it.
- `PresentIsConfirmed`, `NothingFabricated`: the two sides of the semantic tier, against a
  definition of "the answer carries the marker" that is not the detector's.
- `AnswersAreHonest`: "absent" only of a trace that was, at some moment of the call, not
  there; "done" only of a deletion that was taken. One exception is written into it: a trace
  that vanishes between two pages of Langfuse shifts the later ones (section 6).
- `FreshUpsertIsVisible`: the poll looks at the last document only; since a hosted service
  applies writes in order, that is enough, unless another write had put it there, or the
  index was dropped and created again in the middle: what had landed before went with it. That
  takes three calls, one more than the run makes; the proof attempt found it.
- `SurfacesAreHonest`: "absent" and "done" of a backup, index, memory or cache, against what can
  be read or restored. Where a bucket began to keep rows behind its adapter's cached answer, it
  asks no more than that nothing is *listed*; that more is not true is `stores_stale`.
- `ChannelIsTheOwners`: the gap measured of a pair equals what the owner's warm-up did, exactly,
  over every assignment of tenants to caches and every drift.
- `GreenMeansRetested`: a leak the baseline confirmed that is gone from a green run is gone
  from the stack. Its hypothesis `SameInstrument` excludes what section 6 shows is waved through.
- `LeaksHoldTheLetterDown`: withholding a class, or losing a row of the provenance, never
  lifts the cap of a finding nobody put down to a fake, and a further leak never helps.
- `UntouchedVerifies`, `TamperedNeverExcused`: the two sides of the sibling rules. Each is
  easy alone; the code's comments record the times one was broken to get the other.
- `EverythingAnswers`: liveness, and the refinement `Jobs!KeepsPromise`: the pool implements
  `JobBatch`. `SuiteKeepsPromise` says the same of the suite of `ProbeRun`.

### Bounds, and why they are enough

- *Erasure*: two markers (one a hard canary, so that scans can be partial and the marker
  surfaces differ), three surfaces of different kinds: seedable and ranked; live, lagging,
  optional and possibly without an erasure API; listed. Surfaces interact only through the
  report's quantifiers and the shared scan state, which a third exercises. The violation runs
  use two surfaces. The theorems remove these bounds.
- *A3*: `MaxRepeats` = 1 repeated entry (the count needs one to exceed the set), one id, two
  phrases of which one cannot be verified, every manifest over them (`Manifests`). Proved
  without these bounds.
- *Jobs*: five jobs on three workers, so that results wait behind an earlier job, two raise,
  and jobs are queued when the first does. The refinement is proved without this bound.
- *Probes*: three probes on two workers, one of which runs nothing; two tenants and two users
  of one, three families (no user carried; user carried; plants not read back).
- *Plans*: two tenants (`MaxTenants`) of up to two users (`MaxUsers`), two markers of each type
  (`MARKERS_PER_TYPE`), so that one is each user's; two shared entities, so that a question
  brings back some markers and not others (`MaxEntities`; none in `plans_unplanted`).
- *Detection*: two steps, four markers of the three types, seven answers that separate the
  matching rules, five spans a judge may cite; `MaxScore` = 4 and labelled sets over three
  scores, so that a midpoint exists between any two.
- *Traces*: pages of two (`TRACE_PAGE`), a budget and cap of four (`TRACE_LIMIT`), at most
  `MaxTraces` = 5 traces, one beyond the cap; `MaxIngests` and `MaxExpiries` 1 move the pages
  once; two polls (`TRIES`).
- *Agents*: two workers, two tenants, `MaxRuns` = 2, so that two runs share or do not share a
  thread; two retrievals (`POLLS`) and two turns of the tool loop (`ITERATIONS`).
- *Vector stores*: two clients, two documents in batches of one, pages of one (`K`), two polls,
  two calls (`MaxCalls`): a write or a delete against anything; proved without these bounds.
  `MCStores` EXTENDS `VectorStores` and `Embedder`, so their assumptions are evaluated there.
  *Other stores*: two rows, a cap of one, two calls, so that a purge failed half-way is
  followed by a scan, and a scan that reads the versioning by a purge that relies on it. The
  operator is not bounded.
- *Timing*: three tenants (a third neither owns nor observes), two trials, one eviction.
  *Embedder*: a text shared by corpus and plan, one both asked and planted, batches of one, two
  workers, three calls; proved without these bounds.
- *Regression*: a leak per kind of measurement; two changes (`MaxChanges`), which may be before
  and after the saved run. *Work directory*: `MaxSeeds` = 2, `MaxRuns` = 2 (an artefact of one
  run beside one of another), one copied pack, and a `World`: which commands run, how and how
  often one may be cut short, and whether one document is altered. `MCWorkdir` takes five: all
  commands with failing anchors; erasure and copies, with one failing write or kill and an
  altered document; erasure cut short twice; `report --bundle` with a kill; `pack` with a kill.
  That a bundle passes its verification is asked of an untouched folder only, since `pack` zips
  a torn sibling as it finds it. Both are proved without these bounds.

`CHECK_DEADLOCK FALSE` is set where the program ends (a command exits) or a bound stops the
operator.

### Fairness

`ErasureRun!FairSpec` assumes weak fairness of the command's own next step: it is one
sequential thread whose calls return or raise. Nothing is assumed of the environment, so
lagging reads may never settle. `ServiceParts!PartSpec` assumes weak fairness of `Progress`: a
request returns or times out and whoever waited takes the next step, the calling thread and
idle workers are scheduled, a running job ends (the adapters' own timeouts). The services owe
nothing: an accepted deletion may never be applied, an agent's run may stay in progress, a
provider may fail every attempt; what ends the wait then is the code's budget, deadline or
bound. The other runs check safety and assume nothing.

## 4. What is proved

Each theorem holds for every value of the constants that meets the named assumptions of the
modules (TLC evaluates them on every run). All but the refinements follow one pattern: an
inductive invariant, proved with one step per action, and each property from it.

### The erasure verification (`ErasureProofs`)

For every finite set of surfaces and markers and every plan, under `MarkersAssumed` (finitely
many and at least one), `CanariesAssumed`, `SurfacesAssumed`, `PlanAssumed` (the plan visits
every surface once) and `NoneAssumed`:

| Theorem | Property |
|---|---|
| `TypeCorrect` | `TypeOK`; an undecided count never goes negative |
| `ErasedSound` | `ErasedIsSound` |
| `EverySurfaceAnswered` | `ContainedPerSurface` |
| `ExitZeroVerified` | `ExitZeroIsVerified` |
| `ResidualAlwaysFails` | `ResidualFails` |
| `MetricAgrees`, `AssertionHonest` | `ResidueMetricAgrees` (proved only), `AssertionIsHonest` |
| `ScopeRespected` | the action property `ScopeIsRespected` (proved only) |

`ErasedIsSound` is not inductive: nothing in it says why a scan that found nothing may be
believed. `Inductive` adds what the code relies on without saying so: `ReportFollowsPlan`
(exactly the surfaces the probe has passed have a record, so none is overwritten), `InScope`,
`ReadsFollowWrites` (off a lagging backend a read shows what is stored), `ScanIsSound` (while
the post-scan has left nothing open, each marker it has decided is found or not stored; `todo`
is what it has not), `RecordsAreSound` and `ExitFollowsReport`. The seeding actions share
`SeedingStep`, skipped surfaces `SkipStep`, recorded ones `RecordStep`, which asks its caller
for the one fact that matters: if the record says ERASED, the backend is empty. Only
`PostDone` and `PreDone` have to work for it. The cascades' agreement follows from
`ExitFollowsReport` and facts about `ErasureVerdict` alone.

### The data-subject check (`SubjectProofs`)

For every finite set of needles, every set of manifests and every plan, under the named
assumptions of `SubjectErasure`:

| Theorem | Property |
|---|---|
| `NothingEverVanishes` | `NothingVanishes` |
| `CleanSound` | `CleanIsSound` |
| `ObservedReported` | `ObservedIsReported` |
| `FailuresStayContained` | `FailuresContained` |

The count behind `NothingVanishes` is the hard part, since an open needle is reported as a
number and not by name: the handler subtracts what it decided from what is at stake, and the
two count different things. `ScanAccounts` says that a needle of the scan in progress is still
to be read, or decided, or among those a full page left open, and that one decided as held is
kept; `Accounted` carries this to the record: what a backend holds and the record does not name
is at most what the record and the shortfall on file count. The controller's deletion, which
may act between any two reads, only shrinks what is held. `ShortfallOnFile` covers the phrases
that could not be looked for, and `EveryoneAnswered` that a surface without a record had
nothing to look for.

### The job runner and the suite (`ProbeProofs`)

For every number of jobs and workers, and for every suite (any sequences of steps, any mix of
leaky, lossy and blind backends) under the assumptions of `JobRunner` and `ProbeRun`:

| Theorem | Property |
|---|---|
| `RunnerKeepsPromise` | `KeepsPromise`: the serial runner and the pool implement `JobBatch` |
| `SuiteKeeps` | `SuiteKeepsPromise`: so do the probes of a suite run on them |
| `LeaksAreRecorded` | `LeakIsNeverSuppressed` |
| `BoundaryIsHonest` | `UserBoundaryIsHonest` |
| `NoVacuousProbe` | `PassAskedSomething`, one of the two halves of `NoVacuousPass` |
| `SuiteTypes` | `TypeOK` of `ProbeRun` |
| `ScheduleDoesNotMatter` | `UndisturbedIsSerial` |

`JobInductive` says what the calling thread has collected returned, what stopped it raised, a
serial runner has begun nothing beyond the job it waits for, and a runner that has answered
has left no job running (the join of the pool). Each step then maps to a step of `JobBatch` or
to a stutter. A step of a suite is a step of the pool or changes no variable of it
(`SuiteRunsJobs`), so the suite inherits the refinement. `ProbesInductive` says of one probe
that a leak to a user was seen on an adapter that carries users (`Attributed`), that its
plants, losses and dropped reads are counted (`Counted`), that one that confirmed a leak ran a
step (`Ran`) and that what its job returned is what it saw (`Reported`); `RecordFollows` ties
the record to that.

`NoVacuousProbe` has a hypothesis: a probe that plants also reads. Without it the theorem is
false of the runner, which would record such a probe as a pass; that no probe of the code plans
so is proved of its plans, below.

`ScheduleDoesNotMatter` compares a concurrent suite with the serial one read by read.
`StoreIsSent` says what the backends hold (the corpus, and whatever was sent to one that keeps
it), so that at a read of a probe nobody else plants for, the store and the store of the serial
suite agree on the family asked (`SameStore`) and the read confirms the same leaks
(`SameLeaks`); `FoundAsSerial` adds them up, and `Finished` says that none is left out.

### The probe plans (`ProbeProofs`)

For any number of tenants, users, markers and entities, and any stack, under the assumptions of
`ProbePlans` (a marker of each type at least):

| Theorem | Property |
|---|---|
| `PlansInductive` | the inductive invariant `PlanInv` |
| `PlansCarryOut` | `PlansAreCarriedOut` |
| `PassesCouldFail` | `PassCouldHaveFailed`, the other half of `NoVacuousPass` |
| `NoPassIsVacuous` | `NoVacuousPass` |
| `PartsTypes` | `TypesOK` of `ProbeParts` |

The eleven plans are loops over tenants, users, markers and entities, nested, filtered and
strung together; what matters of such a sequence is which steps it has and which come before
which. `FlatPlaces` and `Filtered` give every step of the parts a place in the whole and keep
the order; the folds behind them are recursive functions, and what they come to is shown for
the least length for which it would fail. `PlanOfPlans` then says of each probe's plan that it
reads of what it goes for and nothing else (`ReadsSought`), plants only what somebody else will
ask for (`PlantsSought`) and asks each principal to whom a marker is foreign for it, after
planting it (`Crosses`). `SendingSends` says that what the runner drops leaves this true of
whoever the adapter can express (`WellSent`). `PlanInv` carries it through the command, and
adds that the findings are what the answers come to (`PlanRecorded`). From that,
`BoundariesCrossed` and `LookupsAnswered` are the two halves of `PlansAreCarriedOut`.

For `PassCouldHaveFailed` it takes more: of what landed, something is foreign to somebody the
adapter can express (`SomethingToFind`, `EachIsForeign`), and he was asked. That needs a shared
entity, `MinEntities > 0`: without one it is false, which is the third disagreement of section
6. `NoPassIsVacuous` has both hypotheses, and they are those of a corpus `seed` makes by default.

### The vector stores (`VectorStoresProofs`)

For any number of clients, documents and users, any batch, page and poll sizes, under
`BackendsAssumed`, `BoundsAssumed` and `DocsAssumed` (a corpus has a document, and no id twice):

| Theorem | Property |
|---|---|
| `StoresInductive` | the inductive invariant `IInv` |
| `FreshWritesAreWhole` | `FreshUpsertIsVisible` |
| `ErasedStays` | `ErasedStaysErased` |
| `UserScopeIsKept` | the action property `UserScopeHolds` |

The adapters poll for the last document and conclude that all are there. `OnItsWay` is why
that may be concluded: each document of a write in progress is unsent, in the service's log,
or has been visible; what is unsent is disjoint from what was accepted; in the log the last
document comes in the last request; so once it is stored, none of the write is still to come.
`AppliedInOrder` is the step that uses the order of the log, `DroppedMeanwhile` and
`Overwritten` the ones that need the two exceptions. For the deletes, `QuietOK` says that
while a delete races no write nothing but deletions is left to apply. Forty actions of eight
backends are sorted once by what they do to the store (`StepMoves`), and the conjuncts are
proved of those kinds. The history variables (`landed`, `quiet`, `emptied`) are read by no
action.

### The embedder bridge (`StoresProofs`)

For any corpus, plan, batch size and calls, and any finite pool of threads, under
`CorpusAssumed` (there is a corpus) and `WorkersAssumed` (there is a thread, and finitely many):

| Theorem | Property |
|---|---|
| `BridgeInductive` | the inductive invariant `IInv` |
| `BridgeKeepsItsWord` | `EmbedderKeepsItsWord`: `OneVectorPerText` and `BatchesAreKept` |

The code reads a table, lets go of the thread and writes the table later. `UnderWay` is why no
text gets a second mode meanwhile: a text asked for as a query is registered and in no document
table, one asked for as a document is not registered, and registration happens at once, when
nobody asks. (It is also why `self._queries[text]` is there after `prefetch_queries([text])`,
which skips a text that has become a document.) `Accounted` adds who is still asking for a text
to who has paid for it: the sum is at most the pool, and nobody asks for the text of a batch.

### The other stores of an erasure (`StoresProofs`)

For any rows, tenants, users, batch and cap sizes, under the named assumptions of
`SurfaceStores` (finitely many rows, some tenant):

| Theorem | Property |
|---|---|
| `SurfacesKeepTheirWord` | the action property `SurfacesAreHonest`: `AbsentIsGone` and `PurgesAreWhole` |

The operator may change the bucket at any time, and the theorem does not say that the cached
answers stay true: it says what holds as long as they do, and what is left when one is
`outdated` ("absent" and "done" of what is listed; never another tenant's row; "unsupported"
before anything is deleted). `SurfaceInv` says what a scan may rest on: old versions exist only
in a bucket that is or was versioned; unless the answer is outdated, a bucket read as
unversioned is, and nothing an adapter deleted can be restored, since it refuses to purge a
bucket that keeps what is deleted (`VersionsAreKnown`); and a purge in batches has listed all
that is left of its tenant, or of what is listed (`ListingIsWhole`). Each answer then is proved
of the step that gives it.

### The timing probe (`StoresProofs`)

For any number of tenants and of trials, any latencies, drifts, caches and balanced orders,
under `PairsAssumed`, `TrialsAssumed` and `LatencyAssumed`:

| Theorem | Property |
|---|---|
| `TimingInductive` | the inductive invariant `TimingInv` |
| `GapIsTheOwners` | `ChannelIsTheOwners` |

`ChannelIsTheOwners` speaks of finished pairs only. `TimingInv` says what the caches hold while
one is timed: no prefix is warm before its pair (`LaterAreCold`), a control prompt's never
before it is timed (`ControlsAreCold`), a primed one's in its owner's cache only, and there
unless it was evicted (`PrimedAreTheOwners`). `GapIsTheSaving` then accounts for the difference
of the arms, trial by trial: what the warm-up has saved, plus the drift times by how much one
arm has led. At the end of a pair a balanced order has led by nothing, so the drift is gone.

### The trace backends (`ServicesProofs`)

For any pages, budgets, polls and numbers of traces, and any number of calls one after the
other, under `KindsAssumed`, `PagesAssumed` and `TracesAssumed`:

| Theorem | Property |
|---|---|
| `TracesAnswerHonestly` | `AnswersAreHonest` |

A call spans requests between which traces arrive, expire and are deleted. `TraceInv` has what
the history variables mean at each request (`HistoryIsKept`), what a backend has promised to
delete (`Promises`: a whole project where there are projects, never a project of `otel`), and,
for the numbered pages of Langfuse, `NothingSlipsBetweenPages`: a target not yet read, and
neither gone nor shifted by a trace that vanished, is on a page to come. The run makes one call
(`MaxCalls`); the theorem is of any number. The proof attempt showed what that takes: a second
delete may ask for what the backend has promised already, so `accepted` says that all the tenant
has is promised, not that something became so.

### The agents (`ServicesProofs`)

For any number of workers, tenants and runs, under `TenantsAssumed` and `RunsAssumed`:

| Theorem | Property |
|---|---|
| `AgentsAnswerTheirTenant` | `AnswerIsTheAgents` |

The code keeps no note of whose a thread is, so the invariant has to: `AgentInv` is that there
*is* an assignment `own` of runs to tenants which every worker (`RunsAreOwned`), every thread
with its messages and active run (`ThreadsAreOwned`) and every run of the service
(`ServiceKeepsTo`) keep to. A new run extends the assignment; nothing else changes it. That two
workers of one tenant may both create a thread, and one is forgotten, is no exception to it. An
answer cut short is that of a run the service calls incomplete, and no such run is read.

### The semantic gate (`ServicesProofs`)

For any finite labelled sets and any scale of scores, under `ScoresAssumed` and
`LabelledAssumed` (similarities are even, so that a midpoint is an integer):

| Theorem | Property |
|---|---|
| `CalibratedGateIsBest` | `GateIsBest` |

`GateIsBest` compares the recommendation with every gate of the scale, the code only
candidates. A gate matters by what it admits, and every gate admits exactly what one of the
candidates admits: the one below the least score, the one above the greatest, or the midpoint of
the two neighbours it falls between. That neighbours exist is a minimality argument over
finite sets; so is that some eligible candidate is best.

### The findings of a probe (`ServicesProofs`)

For any manifest, plans, texts and citations, and whatever embedder and judge answer, under the
assumptions of `Detection`:

| Theorem | Property |
|---|---|
| `TechniquesReachTheirVerdict` | `TechniqueReachedVerdict` |

`Deduped` says of the fold after n findings that each id among them is kept once, as the gravest
of its findings with the techniques of those that share its status. Adding one keeps it
(`AddKeepsDeduped`): a finding of another id leaves a verdict as it is (`OtherVerdict`), the
first of an id is its verdict (`FirstVerdict`), and in `MergedVerdict` one that is graver by its
status drops the techniques so far, one that is no graver by its status adds its own. The
finding that fails to outrank a verdict today is compared with a different one tomorrow, so it
matters that `Stronger` is an order (`StrongerOrders`). That holds for any number of findings by
the least number for which it would not. `DetectInv` says that what is collapsed are findings.

### The types of these parts (`ServicesProofs`)

For all the parts of `ServiceParts`, whichever a behaviour is of, and any number of jobs,
workers, traces, runs, tries and polls:

| Theorem | Property |
|---|---|
| `ServicesTypes` | `TypesOK` of `ServiceParts` |

The bounds of the code are in it: attempts of a provider call, the page and poll budgets of a
trace backend, retrievals and tool turns of an agent. They are counters beside the invariants
above (`TraceCounts`, `AgentCounts`, `DetectCounts`, `JobTypes`). Two need those invariants:
that the service runs nothing on two threads, since what is active is under way
(`CreateRunCounts`, `ServeRunCounts`), and that no two findings share an id (`Deduped`).

### Score, baseline and diff (`RegressionProofs`)

For any finite set of leaks, any commands and any number of changes, under `LeaksAssumed` (a
leak is known by its id), `SlotsAssumed` (a probe drives a surface its adapter slot speaks
for, and a slot holds one adapter), `GeometryAssumed` (what only one embedder ranks is found
by a similarity probe of the vector store; an application's API declares no semantic
retrieval) and `FakesAssumed`:

| Theorem | Property |
|---|---|
| `GateInductive` | the inductive invariant `IInv` |
| `GreenGateHasRetested` | `GreenMeansRetested` |
| `SilentPassIsTrue` | `SilentPassIsComplete` |
| `LeaksHold` | `LeaksHoldTheLetterDown` |

A gate sees two records and no stack. `Told` says what a record tells of the configuration it
was made under, and `Exhausts` that nothing this configuration reaches and the stack has is
missing from it. A damaged baseline still tells, since damage removes findings only
(`StillTold`), so the gate may be shown any baseline. `LookedAgain` is the heart: without a
regression, each kind of loss `Regressed` lists is ruled out in turn, until the later
configuration reaches whatever the earlier one had confirmed; then `Exhausts` has the finding
in the later record. `PassHasLooked` does the same for a PASS without a note, where the absence
of each note rules out one way of not having looked. `LeaksHold` needs no more of the record
than its fields: `FindingCaps` is rule 7 in one step (a confirmed finding that is not
withheld makes its class fail, or withholds it and then caps), `TheClassFails` says the one
class a new finding belongs to cannot pass afterwards, and `WeightedFalls` that the weighted
grade cannot improve when it stops passing, whether it leaves the denominator or not.

### The work directory (`WorkdirProofs`)

For any number of seeds, runs and copies, any worlds, under `MarksAssumed` (nothing a command
writes looks absent, torn or altered), `CopyNamesAssumed` (a copy has a name no command writes),
`BoundsAssumed` and `WorldsAssumed`:

| Theorem | Property |
|---|---|
| `FolderInductive` | the inductive invariant `IInv` |
| `UntouchedIsCleared` | `UntouchedVerifies` |
| `TamperingIsFound` | `TamperedNeverExcused` |
| `EvidenceHoldsTogether` | `EvidenceIsOfOneRun` |
| `SeedIsWhole` | `SeedReplaces` |

Between commands an untouched folder keeps each pack with its documents (`Kept`); during one
it does not, so `Phase` says which command runs and how far it has come: `Published` lists, for
each step of a report or an erasure, which files are already of the new pack. The two commands
write disjoint files (`KeptBeside`), so the other pack stays `Sound` meanwhile.
`TamperingIsFound` needs no invariant: the sibling rules of `PackFolder` keep an altered
document from being excused in any folder whatever (`ClaimsAreWarranted`, `PassedIsOwned`).

Replacing a definition these proofs rest on by its "Fault:" variant makes them fail, as it
makes TLC find the property violated.

## 5. What is only model-checked

Liveness under fairness (`Terminates`, `EverythingAnswers`) stays with TLC: it is out of the
prover's reach. So do `PresentIsConfirmed` and `NothingFabricated`, for a reason of their own:
they compare the matching of `text.py` with a definition of "the answer carries the marker" that
is not the detector's, and the two agree for manifests and texts like those of the substrate,
not for all. A marker whose last token is the beginning of a longer one in the text is contained
in its bytes and not in its tokens; a hard canary none of whose tokens is opaque is not looked
for with its separators dropped; a token that two of many entities share is not boilerplate to
the detector. The run has the manifest and the texts that separate the rules; a theorem would
assume that these cases away. No module declares a RECURSIVE operator, so none is excluded from
proof.

## 6. Disagreements met

Each of the first six is a run that TLC must find violated, with the quoted line in
`PROJECT.json` "findings".

1. `erasure_exit_code`: a residual observed on a backend without an erasure API and without a
   baseline exits 3 instead of 2 as soon as another marker is undecided; `app.py` says 2.
2. `erasure_purge`: a delete that raises an exception with an empty message counts as one that
   succeeded, so the surface can read ERASED.
3. `plans_unplanted`: the embedding-inversion probe plans from the manifest, so on a corpus
   without shared entities it queries canaries planted nowhere and is recorded as measured,
   where `corpus.py` says such probes plan no step and read NOT_COVERED.
4. `regression_waved`: between runs that looked with fewer tiers, lost more plants, or failed
   to scan a surface, a leak that is still there is waved through.
5. `workdir_torn`: the side path of the PDF closes the false accusation for a failed build, not
   for a write that fails after the pack is on disk.
6. `stores_stale`: a bucket versioned after the S3 adapter has asked whether it is (once, for its
   life) gets plain deletes; the purge says done and the scan that follows says absent over the
   versions they retained, which the comment at `s3.py:108` says is closed. The GCS adapter keeps
   the soft-delete policy it read in the same way (`gcs.py:97`): what it deletes under one given
   to the bucket later is restorable, and its purge says done.

Others met on the way, noted for whoever changes the code, without a run of their own:

- such a residual as in 1 is in no finding, while the signed control assertion says it "is
  itemized in this pack" (`evidence/.../controls.py:330`);
- a model surface scanned for a subject with an unverifiable phrase is left out of the
  headline, and the check exits 0 where the quickstart says 3;
- `jobs.py:11` says concurrency changes only timing; what a probe finds where another plants
  does follow the schedule (the ADR concedes it);
- a class withheld from the letter leaves the denominator, so the letter can rise;
- the "quoted" evidence of a finding may be the marker's plaintext where the answer renders it
  differently (`detection.py:919`);
- Langfuse pages by number: a trace deleted between two pages hides a later one for that call;
- a text registered as a query and planted too "is a document" (`embeddings.py:653`) unless the
  planted batch failed: then it is embedded, and indexed, as a query;
- the results Azure returns for each document of an upload are not read (`azure_search.py:186`);
  the model takes or refuses a batch whole, so a document refused alone is outside it;
- an upsert over ids that are already there is not waited for: the poll is met by the old
  version; and the answer read from an assistants thread may be an earlier run's;
- two runs of one tenant at once share the Anthropic history, whose roll-back pops whatever
  is last; autogen's fallback returns Sectum's own prompt.

## 7. What is left

*Models*: an abstract promise of an erasure (per surface: a verdict, once, true of the
backend) with `ErasureRun` and `SubjectErasure` shown to implement it; `ProbeRun`'s `Suite`
taken from `ProbePlans` on a stack that both share; the adapters' calls of `TraceBackends` and
`SurfaceStores` in place of the reads and deletes of `ErasureRun`; the writes of memories,
caches and backups.
