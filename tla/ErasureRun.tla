----------------------------- MODULE ErasureRun -----------------------------
(***************************************************************************)
(* `sectum-ai erasure`, canary mode: the Class 11 run of one target tenant *)
(* against live backends.  The command seeds the target's markers on every *)
(* surface in scope, then drives each planned surface through             *)
(* scan / delete / scan, containing every failure to its own surface, and  *)
(* finally emits one report.                                               *)
(*                                                                         *)
(* The backends are the environment: a call may fail, before or after it   *)
(* took effect; a delete may be refused, may keep data, may fail half way; *)
(* a similarity page may be full; and a surface in Lagging serves reads    *)
(* from a view that trails its writes.                                     *)
(***************************************************************************)
EXTENDS ErasureVerdict, Integers, Sequences

CONSTANTS
    Markers,       \* the markers the target tenant owns
    HardCanaries,  \* the ones planted on the marker surfaces
    Vector,        \* the vector store, the one surface read by ranked pages
    ReadOnly,      \* surfaces this command cannot seed (live tracing, live model)
    Optional,      \* surfaces the probe may have no adapter for, or one that holds nothing
    Listed,        \* surfaces whose scan lists the store once (the cache)
    NoApi,         \* surfaces whose delete may raise ErasureUnsupported
    Lagging,       \* surfaces whose reads trail their writes
    PlanOrder,     \* the fixed order the probe visits the surfaces in
    None           \* the exit code of a run that has not finished

ASSUME MarkersAssumed   == IsFiniteSet(Markers) /\ Markers # {}
ASSUME CanariesAssumed  == HardCanaries \subseteq Markers
ASSUME SurfacesAssumed  == /\ Vector \in ErasureSurfaces
                           /\ ReadOnly \subseteq ErasureSurfaces \ {Vector}
                           /\ Optional \subseteq ErasureSurfaces \ {Vector}
                           /\ Listed \subseteq ErasureSurfaces \ {Vector}
                           /\ NoApi \subseteq ErasureSurfaces
                           /\ Lagging \subseteq ErasureSurfaces
ASSUME PlanAssumed      == /\ PlanOrder \in Seq(ErasureSurfaces)
                           /\ \A s \in ErasureSurfaces :
                                 \E i \in 1..Len(PlanOrder) : PlanOrder[i] = s
                           /\ \A i, j \in 1..Len(PlanOrder) :
                                 PlanOrder[i] = PlanOrder[j] => i = j
ASSUME NoneAssumed      == None \notin ExitCodes

VARIABLES
    planned,      \* surfaces with an adapter that can hold the data (vector always)
    scope,        \* --scope, or every surface
    stored,       \* environment: the target's markers each backend holds
    visible,      \* environment: the ones its reads serve
    phase,        \* where the command is
    pos,          \* index into PlanOrder of the surface in progress
    unseedable,   \* surfaces whose seeding was refused
    todo,         \* markers the scan in progress has not decided
    partial,      \* markers the scan in progress has found (_partial)
    inconclusive, \* markers it could neither find nor rule out (_inconclusive)
    before,       \* what the pre-erasure scan returned
    supported,    \* FALSE once delete raised ErasureUnsupported
    purge_failed, \* the text of anything else delete raised, see PurgeErrors
    report,       \* the SurfaceErasure records so far
    findings,     \* the findings so far, see Finding
    exit          \* the exit code

backendVars == <<stored, visible>>
inputVars   == <<planned, scope>>
scanVars    == <<todo, partial, inconclusive>>
surfaceVars == <<before, supported, purge_failed>>
resultVars  == <<report, findings>>
vars == <<planned, scope, stored, visible, phase, pos, unseedable, todo,
          partial, inconclusive, before, supported, purge_failed, report, findings, exit>>

Phases == {"seed_target", "seed_others", "clear", "seed_canaries",
           "next", "pre", "delete", "post", "emit", "done"}

\* str(error) of a delete that raised, or Python's None.
PurgeErrors == {"None", "message", "empty_message"}

\* `if purge_failed`: the code tests the text, and an empty text is false.
Failed(text) == text = "message"

Max2(a, b) == IF a > b THEN a ELSE b

current == PlanOrder[pos]

EmptyReport == [s \in {} |-> {}]

\* Only a surface the command does not seed starts with the target's markers: on
\* the others, what an earlier run left is among what the seeding may land.
Init ==
    /\ planned \in {ErasureSurfaces \ absent : absent \in SUBSET Optional}
    /\ scope \in (SUBSET ErasureSurfaces) \ {{}}
    /\ stored \in {[s \in ErasureSurfaces |-> IF s \in ReadOnly THEN held ELSE {}] :
                       held \in SUBSET Markers}
    /\ \E shown \in SUBSET Markers :
          visible = [s \in ErasureSurfaces |->
                        IF s \in Lagging THEN stored[s] \cap shown ELSE stored[s]]
    /\ phase = "seed_target"
    /\ pos = 1
    /\ unseedable = {}
    /\ todo = {} /\ partial = {} /\ inconclusive = 0
    /\ before = {} /\ supported = TRUE /\ purge_failed = "None"
    /\ report = EmptyReport /\ findings = {}
    /\ exit = None

-----------------------------------------------------------------------------
(* The environment. *)

\* A backend now holds `held`: reads follow at once, or later on a lagging one.
Holds(s, held) ==
    /\ stored' = [stored EXCEPT ![s] = held]
    /\ visible' = IF s \in Lagging THEN visible ELSE [visible EXCEPT ![s] = held]

\* A lagging backend catches up with its own writes.
Settle ==
    /\ \E s \in Lagging :
          /\ visible[s] # stored[s]
          /\ visible' = [visible EXCEPT ![s] = stored[s]]
    /\ UNCHANGED <<planned, scope, stored, phase, pos, unseedable, scanVars,
                   surfaceVars, resultVars, exit>>

-----------------------------------------------------------------------------
(* Seeding. *)

\* One contained write: it lands whole, or is refused with part of it landed.
SeedWrite(s, written) ==
    \/ Holds(s, stored[s] \cup written) /\ UNCHANGED unseedable
    \/ \E landed \in SUBSET written :
          /\ Holds(s, stored[s] \cup landed)
          /\ unseedable' = unseedable \cup {s}

\* A surface outside --scope is not written to.
NotSeeded == UNCHANGED <<stored, visible, unseedable>>

SeedTarget ==
    /\ phase = "seed_target"
    /\ IF Vector \in scope THEN SeedWrite(Vector, Markers) ELSE NotSeeded
    /\ phase' = "seed_others"
    /\ UNCHANGED <<inputVars, pos, scanVars, surfaceVars, resultVars, exit>>

\* On a shared index the other tenants' corpus crowds the target's page; a
\* refusal there voids the vector surface too.
SeedOthers ==
    /\ phase = "seed_others"
    /\ \/ UNCHANGED unseedable
       \/ /\ Vector \notin unseedable /\ Vector \in scope
          /\ unseedable' = unseedable \cup {Vector}
    /\ phase' = "clear"
    /\ UNCHANGED <<inputVars, backendVars, pos, scanVars, surfaceVars, resultVars, exit>>

\* What landed of a refused corpus is asked to be deleted; the outcome, a
\* refusal included, is only mentioned in the warning.
ClearTarget ==
    /\ phase = "clear"
    /\ IF Vector \in unseedable
       THEN \E kept \in SUBSET stored[Vector] : Holds(Vector, kept)
       ELSE UNCHANGED backendVars
    /\ phase' = "seed_canaries"
    /\ UNCHANGED <<inputVars, pos, unseedable, scanVars, surfaceVars, resultVars, exit>>

\* The canary loop, one surface at a time: the first refusal ends the writes
\* to that surface, and only to that one.
SeedCanaries ==
    /\ phase = "seed_canaries"
    /\ IF current \in scope \ (ReadOnly \cup {Vector})
       THEN SeedWrite(current, HardCanaries)
       ELSE NotSeeded
    /\ IF pos < Len(PlanOrder)
       THEN pos' = pos + 1 /\ UNCHANGED phase
       ELSE pos' = 1 /\ phase' = "next"
    /\ UNCHANGED <<inputVars, scanVars, surfaceVars, resultVars, exit>>

-----------------------------------------------------------------------------
(* ErasureProbe.run and _erase_surface. *)

\* Move on to the surface after this one, or to the report.
Advance ==
    IF pos < Len(PlanOrder)
    THEN pos' = pos + 1 /\ phase' = "next"
    ELSE pos' = pos /\ phase' = "emit"

\* Enter the SurfaceErasure of the current surface into the report.
Recorded(r) ==
    report' = [s \in DOMAIN report \cup {current} |->
                  IF s = current THEN r ELSE report[s]]

\* A scan starts from nothing found and nothing decided.
BeginScan ==
    /\ todo' = Markers
    /\ partial' = {}
    /\ inconclusive' = 0

\* The locals of _erase_surface end with it.
Returned ==
    /\ todo' = {} /\ partial' = {} /\ inconclusive' = 0
    /\ before' = {} /\ supported' = TRUE /\ purge_failed' = "None"

Unseeded == [before |-> {}, residual |-> {}, supported |-> TRUE,
             unverifiable |-> Cardinality(Markers), baselineObserved |-> TRUE]

\* Skip a surface with no adapter or out of scope; record an unseeded vector
\* store without scanning it; otherwise start the pre-erasure scan.
StartSurface ==
    /\ phase = "next"
    /\ \/ /\ current \notin planned \cap scope
          /\ Advance
          /\ UNCHANGED <<scanVars, report>>
       \/ /\ current \in planned \cap scope
          /\ current = Vector /\ Vector \in unseedable
          /\ Recorded(Unseeded)
          /\ Advance
          /\ UNCHANGED scanVars
       \/ /\ current \in planned \cap scope
          /\ ~(current = Vector /\ Vector \in unseedable)
          /\ BeginScan
          /\ phase' = "pre"
          /\ UNCHANGED <<pos, report>>
    /\ UNCHANGED <<inputVars, backendVars, unseedable, surfaceVars, findings, exit>>

\* Fault: a full page without the marker counts as its absence.
FullPageIsAbsence ==
    /\ phase \in {"pre", "post"}
    /\ current \notin Listed
    /\ \E m \in todo :
          /\ todo' = todo \ {m}
          /\ \/ m \in visible[current] /\ partial' = partial \cup {m}
             \/ m \notin visible[current] /\ UNCHANGED partial
             \/ current = Vector /\ UNCHANGED partial
    /\ UNCHANGED <<inputVars, backendVars, phase, pos, unseedable, inconclusive,
                   surfaceVars, resultVars, exit>>

\* The read that decides one marker.  On the vector store a marker may also come
\* back as a full page without it, which decides nothing about it.
ReadMarker ==
    /\ phase \in {"pre", "post"}
    /\ current \notin Listed
    /\ \E m \in todo :
          /\ todo' = todo \ {m}
          /\ \/ /\ m \in visible[current]
                /\ partial' = partial \cup {m}
                /\ UNCHANGED inconclusive
             \/ /\ m \notin visible[current]
                /\ UNCHANGED <<partial, inconclusive>>
             \/ /\ current = Vector
                /\ inconclusive' = inconclusive + 1
                /\ UNCHANGED partial
    /\ UNCHANGED <<inputVars, backendVars, phase, pos, unseedable,
                   surfaceVars, resultVars, exit>>

\* A Listed surface is read once; every marker is decided over that listing.
ReadListing ==
    /\ phase \in {"pre", "post"}
    /\ current \in Listed
    /\ todo # {}
    /\ todo' = {}
    /\ partial' = visible[current]
    /\ UNCHANGED <<inputVars, backendVars, phase, pos, unseedable, inconclusive,
                   surfaceVars, resultVars, exit>>

\* The pre-erasure scan is complete: its hits are the baseline.
PreDone ==
    /\ phase = "pre" /\ todo = {}
    /\ before' = partial
    /\ phase' = "delete"
    /\ UNCHANGED <<inputVars, backendVars, pos, unseedable, scanVars, supported,
                   purge_failed, resultVars, exit>>

PreFailed == [before |-> {}, residual |-> {}, supported |-> TRUE,
              unverifiable |-> 1, baselineObserved |-> TRUE]

\* Fault: a surface whose pre-scan raised is skipped without a record.
PreRaisesSkips ==
    /\ phase = "pre" /\ todo # {}
    /\ Returned
    /\ Advance
    /\ UNCHANGED <<inputVars, backendVars, unseedable, resultVars, exit>>

\* A read of the pre-erasure scan raises: the surface ends there, and nothing
\* on it is deleted.
PreRaises ==
    /\ phase = "pre" /\ todo # {}
    /\ Recorded(PreFailed)
    /\ Returned
    /\ Advance
    /\ UNCHANGED <<inputVars, backendVars, unseedable, findings, exit>>

\* delete(target) completes (a soft-deleting backend keeps what it likes), or is
\* unsupported, or raises with any part of it done.  The post-scan follows.
Delete ==
    /\ phase = "delete"
    /\ \/ /\ \E kept \in SUBSET stored[current] : Holds(current, kept)
          /\ UNCHANGED <<supported, purge_failed>>
       \/ /\ current \in NoApi
          /\ supported' = FALSE
          /\ UNCHANGED <<backendVars, purge_failed>>
       \/ /\ \E kept \in SUBSET stored[current] : Holds(current, kept)
          /\ purge_failed' \in {"message", "empty_message"}
          /\ UNCHANGED supported
    /\ BeginScan
    /\ phase' = "post"
    /\ UNCHANGED <<inputVars, pos, unseedable, before, resultVars, exit>>

Finding == [kind : {"residual", "caveat"}, surface : ErasureSurfaces, marker : Markers]

\* Findings itemize what the post-scan saw, or, where nothing was deleted, every
\* marker of the baseline as a caveat.
Itemized(seen) ==
    findings' = findings \cup
        (IF supported
         THEN {[kind |-> "residual", surface |-> current, marker |-> m] : m \in seen}
         ELSE {[kind |-> "caveat", surface |-> current, marker |-> m] : m \in before})

\* Unverifiable after a delete that raised: everything the baseline held.
PurgeUndecided == Max2(Cardinality(before), 1)

PostDone ==
    /\ phase = "post" /\ todo = {}
    /\ Recorded([before |-> before, residual |-> partial, supported |-> supported,
                 unverifiable |-> IF Failed(purge_failed) THEN PurgeUndecided ELSE inconclusive,
                 baselineObserved |-> TRUE])
    /\ Itemized(partial)
    /\ Returned
    /\ Advance
    /\ UNCHANGED <<inputVars, backendVars, unseedable, exit>>

\* Fault: the count is not kept at one or more.
UndecidedUnclamped ==
    LET decided == Cardinality(Markers) - Cardinality(todo)
    IN Cardinality(before) - decided + inconclusive

\* Markers the failed post-scan never reached, plus those it could not decide.
ScanUndecided ==
    LET decided == Cardinality(Markers) - Cardinality(todo)
    IN Max2(Cardinality(before) - decided + inconclusive, 1)

\* Fault: a post-scan that raised is retried from the pre-scan, without a limit.
PostRaisesRetries ==
    /\ phase = "post" /\ todo # {}
    /\ Returned
    /\ phase' = "next"
    /\ UNCHANGED <<inputVars, backendVars, pos, unseedable, resultVars, exit>>

\* A read of the post-erasure scan raises: what it saw is kept and itemized.
PostRaises ==
    /\ phase = "post" /\ todo # {}
    /\ Recorded([before |-> before, residual |-> partial, supported |-> supported,
                 unverifiable |-> IF Failed(purge_failed) THEN PurgeUndecided ELSE ScanUndecided,
                 baselineObserved |-> TRUE])
    /\ Itemized(partial)
    /\ Returned
    /\ Advance
    /\ UNCHANGED <<inputVars, backendVars, unseedable, exit>>

\* _emit_erasure_attestation: the record is signed and the command exits.
Emit ==
    /\ phase = "emit"
    /\ exit' = exit_code(report)
    /\ phase' = "done"
    /\ UNCHANGED <<inputVars, backendVars, pos, unseedable, scanVars, surfaceVars,
                   resultVars>>

Command ==
    \/ SeedTarget \/ SeedOthers \/ ClearTarget \/ SeedCanaries
    \/ StartSurface \/ ReadMarker \/ ReadListing \/ PreDone \/ PreRaises
    \/ Delete \/ PostDone \/ PostRaises \/ Emit

Next == Command \/ Settle

Spec == Init /\ [][Next]_vars

\* Every backend call returns or raises (the clients have timeouts), so the
\* single-threaded command always takes its next step.
FairSpec == Spec /\ WF_vars(Command)

-----------------------------------------------------------------------------
TypeOK ==
    /\ planned \subseteq ErasureSurfaces
    /\ scope \subseteq ErasureSurfaces
    /\ stored \in [ErasureSurfaces -> SUBSET Markers]
    /\ visible \in [ErasureSurfaces -> SUBSET Markers]
    /\ phase \in Phases
    /\ pos \in 1..Len(PlanOrder)
    /\ unseedable \subseteq ErasureSurfaces
    /\ todo \subseteq Markers
    /\ partial \subseteq Markers
    /\ inconclusive \in Nat
    /\ before \subseteq Markers
    /\ supported \in BOOLEAN
    /\ purge_failed \in PurgeErrors
    /\ DOMAIN report \subseteq ErasureSurfaces
    /\ \A s \in DOMAIN report : report[s] \in SurfaceErasure(Markers)
    /\ findings \subseteq Finding
    /\ exit \in ExitCodes \cup {None}

\* A surface the report calls ERASED holds none of the target's markers, on any
\* backend whose reads reflect its writes: a soft delete, a delete that failed
\* half way, a full similarity page or a scan that died never reads as a purge.
ErasedIsSound ==
    \A s \in DOMAIN report \ Lagging : erased(report[s]) => stored[s] = {}

\* Exit 0 means that every surface the run set out to verify was scanned to
\* ERASED: a failure contained to one surface is never dropped from the verdict.
ExitZeroIsVerified ==
    exit = 0 => /\ DOMAIN report = planned \cap scope
                /\ \A s \in planned \cap scope : coverage_verdict(report[s]) = "ERASED"

\* Each surface of the finished run has its verdict, whatever the other backends did.
ContainedPerSurface == exit # None => DOMAIN report = planned \cap scope

\* A marker the post-scan of an erasable surface saw is itemized as a residual
\* finding, and the command exits 2, even when the scan or the purge also failed.
ResidualFails ==
    exit # None =>
        \A s \in DOMAIN report : report[s].supported =>
            /\ {f.marker : f \in {g \in findings : g.surface = s}} = report[s].residual
            /\ report[s].residual # {} => exit = 2

\* A residue count of zero in the signed metrics is only recorded for a surface
\* attested ERASED, and a count above zero only for one graded RESIDUAL.
ResidueMetricAgrees ==
    LET residue == erasure_residue(report)
    IN \A s \in DOMAIN residue :
          coverage(report)[s] = IF residue[s] = 0 THEN "ERASED" ELSE "RESIDUAL"

\* The signed Article 17 control says "verified" only when every live surface of
\* the run was attested ERASED, whichever of the surfaces were live.
AssertionIsHonest ==
    \A live \in SUBSET DOMAIN report :
        AssertsVerified(report, live) <=>
            live # {} /\ \A s \in live : erased(report[s])

\* The command never writes to, or deletes from, a surface outside --scope.
ScopeIsRespected == [][\A s \in ErasureSurfaces \ scope : stored'[s] = stored[s]]_vars

\* The run ends with an exit code whatever the backends answer.
Terminates == <>(exit # None)

\* As the comment on the failed delete has it: a surface whose purge raised can
\* never read ERASED, whatever its post-scan happens to see.
FailedPurgeNeverErased ==
    [][\A s \in DOMAIN report' \ DOMAIN report :
          purge_failed # "None" => ~erased(report'[s])]_vars

\* As the exit-code comment has it: a residual the scan observed exits 2.
ObservedResidualExitsTwo ==
    exit # None /\ (\E s \in DOMAIN report : report[s].residual # {}) => exit = 2

=============================================================================
