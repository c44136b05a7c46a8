--------------------------- MODULE SubjectErasure ---------------------------
(***************************************************************************)
(* `sectum-ai erasure --subject`: the check that a real data subject's     *)
(* records and content are gone, run after the controller's own deletion.  *)
(* SubjectErasureProbe.verify takes the surfaces in a fixed order; on each *)
(* it looks up the supplied record ids, then searches for the supplied     *)
(* content phrases, and keeps whatever a backend raises to that surface.   *)
(*                                                                         *)
(* Nothing is planted and nothing is deleted here, so the backends only    *)
(* change under the check: the controller's deletion may still be running. *)
(* The command configures an adapter for every surface.                    *)
(***************************************************************************)
EXTENDS ErasureVerdict, Integers, Sequences

CONSTANTS
    Ids,          \* record ids a subject manifest may name
    Phrases,      \* content fingerprints it may name
    Verifiable,   \* the phrases continuation_split can cut
    ById,         \* SUBJECT_VERIFIABLE_SURFACES
    ByContent,    \* SUBJECT_FINGERPRINT_SURFACES
    Vector,       \* searched by ranked pages
    Tracing,      \* by-id only where the adapter implements fetch_trace
    Model,        \* probed by inference, against controls
    PlanOrder,    \* the order verify takes the surfaces in
    Manifests,    \* the subject manifests considered: [ErasureSurfaces -> SUBSET Needles]
    MaxRepeats,   \* bound on the repeated entries of a manifest list
    None          \* the exit code of a run that has not finished

Needles == Ids \cup Phrases

ASSUME NeedlesAssumed   == IsFiniteSet(Needles) /\ Ids \cap Phrases = {}
ASSUME VerifiableAssumed == Verifiable \subseteq Phrases
ASSUME SubjectSurfacesAssumed ==
    /\ ById \cup ByContent \subseteq ErasureSurfaces
    /\ Vector \in ById \cap ByContent
    /\ Tracing \in ById \ ByContent
    /\ Model \in ByContent \ ById
ASSUME PlanAssumed      == /\ PlanOrder \in Seq(ById \cup ByContent)
                           /\ \A s \in ById \cup ByContent :
                                 \E i \in 1..Len(PlanOrder) : PlanOrder[i] = s
                           /\ \A i, j \in 1..Len(PlanOrder) :
                                 PlanOrder[i] = PlanOrder[j] => i = j
ASSUME ManifestsAssumed == Manifests \subseteq [ErasureSurfaces -> SUBSET Needles]
ASSUME RepeatsAssumed   == MaxRepeats \in Nat
ASSUME NoneAssumed      == None \notin ExitCodes

VARIABLES
    asked,          \* the manifest: ids and phrases named for each surface
    repeats,        \* entries each of its lists repeats
    base_control,   \* has_base_control: a recall can be told from base knowledge
    fetches_traces, \* whether the tracing adapter implements fetch_trace
    held,           \* environment: the needles each backend still holds
    phase,          \* where the command is
    pos,            \* index into PlanOrder of the surface in progress
    to_read,        \* needles the scan in progress has not read
    present,        \* needles it has seen (_Scan.findings)
    decided,        \* needles each surface's scan resolved either way (_Scan.decided)
    undecided,      \* needles a full page left open
    report,         \* the SurfaceErasure records so far
    unverifiable,   \* supplied phrases per surface that no check can verify
    findings,       \* the findings so far
    exit            \* the exit code

inputVars == <<asked, repeats, base_control, fetches_traces>>
scanVars  == <<to_read, present, undecided>>
subjectVars ==
    <<asked, repeats, base_control, fetches_traces, held, phase, pos, to_read, present,
      decided, undecided, report, unverifiable, findings, exit>>

current == PlanOrder[pos]

EmptyReport == [s \in {} |-> {}]

Max2(a, b) == IF a > b THEN a ELSE b

\* The ids and the content of a surface that its check can look for.
ids(s) == IF s \in ById THEN asked[s] \cap Ids ELSE {}
supplied(s) == IF s \in ByContent THEN asked[s] \cap Phrases ELSE {}

SubjectInit ==
    /\ asked \in Manifests
    /\ repeats \in 0..MaxRepeats
    /\ base_control \in BOOLEAN
    /\ fetches_traces \in BOOLEAN
    /\ \E pairs \in SUBSET {p \in ErasureSurfaces \X Needles : p[2] \in ids(p[1]) \cup supplied(p[1])} :
          held = [s \in ErasureSurfaces |-> {n \in Needles : <<s, n>> \in pairs}]
    /\ phase = "next" /\ pos = 1
    /\ to_read = {} /\ present = {} /\ undecided = 0
    /\ decided = [s \in ErasureSurfaces |-> {}]
    /\ report = EmptyReport /\ unverifiable = EmptyReport /\ findings = {}
    /\ exit = None

\* The controller's deletion reaches one more record.
ControllerDeletes ==
    /\ \E s \in ErasureSurfaces : \E n \in held[s] :
          held' = [held EXCEPT ![s] = @ \ {n}]
    /\ UNCHANGED <<inputVars, phase, pos, scanVars, decided, report, unverifiable,
                   findings, exit>>

-----------------------------------------------------------------------------
(* SubjectErasureProbe.verify, one surface at a time. *)

phrases(s) ==
    IF s # Model        THEN supplied(s)
    ELSE IF base_control THEN supplied(s) \cap Verifiable
    ELSE                      {}

\* Supplied phrases the check cannot verify.
Shortfall(s) == Cardinality(supplied(s)) - Cardinality(phrases(s))

\* Everything the manifest lists for a surface, as written there.
at_stake(s) ==
    Cardinality(asked[s]) + (IF asked[s] = {} THEN 0 ELSE repeats)

Advance ==
    IF pos < Len(PlanOrder)
    THEN pos' = pos + 1 /\ phase' = "next"
    ELSE pos' = pos /\ phase' = "emit"

Recorded(r) ==
    report' = [s \in DOMAIN report \cup {current} |->
                  IF s = current THEN r ELSE report[s]]

ScanOver == to_read' = {} /\ present' = {} /\ undecided' = 0

\* Findings are flushed on every way out of a surface.
Flushed == findings' = findings \cup {<<current, n>> : n \in present}

\* Begin a surface: with nothing to look for it is left unscanned, and a phrase
\* the check cannot verify is counted either way.
StartSurface ==
    /\ phase = "next"
    /\ unverifiable' =
          IF Shortfall(current) # 0
          THEN [s \in DOMAIN unverifiable \cup {current} |->
                   IF s = current THEN Shortfall(current) ELSE unverifiable[s]]
          ELSE unverifiable
    /\ to_read' = ids(current) \cup phrases(current)
    /\ IF to_read' = {} THEN Advance ELSE phase' = "scan" /\ UNCHANGED pos
    /\ UNCHANGED <<inputVars, held, present, undecided, decided, report, findings, exit>>

\* The record ids of a surface are all looked up before its first phrase.
NextNeedle(n) == n \in to_read /\ (n \in Phrases => to_read \cap Ids = {})

\* The tracing adapter without fetch_trace refuses the very first read.
Readable == current = Tracing => fetches_traces

\* Fault: a full page without the phrase counts as its absence.
FullPageIsAbsence ==
    /\ phase = "scan" /\ Readable
    /\ \E n \in Needles :
          /\ NextNeedle(n)
          /\ to_read' = to_read \ {n}
          /\ decided' = [decided EXCEPT ![current] = @ \cup {n}]
          /\ \/ n \in held[current] /\ present' = present \cup {n}
             \/ n \notin held[current] /\ UNCHANGED present
             \/ current = Vector /\ n \in Phrases /\ UNCHANGED present
    /\ UNCHANGED <<inputVars, held, phase, pos, undecided, report, unverifiable,
                   findings, exit>>

\* _seen: one read resolves one needle, and a positive one is kept at once. A
\* full page of the vector store without the phrase resolves nothing.
ReadNeedle ==
    /\ phase = "scan" /\ Readable
    /\ \E n \in Needles :
          /\ NextNeedle(n)
          /\ to_read' = to_read \ {n}
          /\ \/ /\ n \in held[current]
                /\ present' = present \cup {n}
                /\ decided' = [decided EXCEPT ![current] = @ \cup {n}]
                /\ UNCHANGED undecided
             \/ /\ n \notin held[current]
                /\ decided' = [decided EXCEPT ![current] = @ \cup {n}]
                /\ UNCHANGED <<present, undecided>>
             \/ /\ current = Vector /\ n \in Phrases
                /\ undecided' = undecided + 1
                /\ UNCHANGED <<present, decided>>
    /\ UNCHANGED <<inputVars, held, phase, pos, report, unverifiable, findings, exit>>

\* NotImplementedError leaves the tracing surface out of the report.
NoTraceFetch ==
    /\ phase = "scan" /\ ~Readable
    /\ ScanOver
    /\ Flushed
    /\ Advance
    /\ UNCHANGED <<inputVars, held, decided, report, unverifiable, exit>>

\* Faults of the record made when a read raised: it forgets what was seen, it
\* calls the supplied needles a baseline, it counts one needle as left open.
ForgetsSeen ==
    [before |-> asked[current], residual |-> {}, supported |-> TRUE,
     unverifiable |-> Max2(at_stake(current) - Cardinality(decided[current]), 1),
     baselineObserved |-> FALSE]
CountsOne ==
    [before |-> asked[current], residual |-> present, supported |-> TRUE,
     unverifiable |-> 1, baselineObserved |-> FALSE]

Interrupted ==
    [before |-> asked[current], residual |-> present, supported |-> TRUE,
     unverifiable |-> Max2(at_stake(current) - Cardinality(decided[current]), 1),
     baselineObserved |-> FALSE]

\* Fault: what one backend raised ends the whole check.
RaiseEndsTheCheck ==
    /\ phase = "scan" /\ Readable
    /\ to_read # {}
    /\ Recorded(Interrupted)
    /\ ScanOver
    /\ Flushed
    /\ phase' = "emit" /\ pos' = pos
    /\ UNCHANGED <<inputVars, held, decided, unverifiable, exit>>

\* _contained: a read raises; what the scan saw stays a residual, and what it
\* had not resolved is unverifiable.
ReadRaises ==
    /\ phase = "scan" /\ Readable
    /\ to_read # {}
    /\ Recorded(Interrupted)
    /\ ScanOver
    /\ Flushed
    /\ Advance
    /\ UNCHANGED <<inputVars, held, decided, unverifiable, exit>>

Completed ==
    [before |-> ids(current) \cup phrases(current), residual |-> present,
     supported |-> TRUE, unverifiable |-> undecided, baselineObserved |-> FALSE]

\* The scan is complete. The model is left out of the report when it recalled
\* nothing while some of the supplied phrases could not be checked.
ScanDone ==
    /\ phase = "scan" /\ to_read = {}
    /\ IF current = Model /\ present = {} /\ Model \in DOMAIN unverifiable
       THEN UNCHANGED report
       ELSE Recorded(Completed)
    /\ ScanOver
    /\ Flushed
    /\ Advance
    /\ UNCHANGED <<inputVars, held, decided, unverifiable, exit>>

\* _emit_erasure_attestation: the record is signed and the command exits.
Emit ==
    /\ phase = "emit"
    /\ exit' = exit_code(report)
    /\ phase' = "done"
    /\ UNCHANGED <<inputVars, held, pos, scanVars, decided, report, unverifiable, findings>>

SubjectNext ==
    \/ StartSurface \/ ReadNeedle \/ NoTraceFetch \/ ReadRaises \/ ScanDone \/ Emit
    \/ ControllerDeletes

SubjectSpec == SubjectInit /\ [][SubjectNext]_subjectVars

-----------------------------------------------------------------------------
\* A check that exits 0 leaves nothing behind on a surface it reports: every id
\* and phrase its probe was given for that surface is gone from the backend.
CleanIsSound ==
    exit = 0 => \A s \in DOMAIN report : held[s] \cap (ids(s) \cup supplied(s)) = {}

\* A record or phrase a read has returned is a residual of its surface's record
\* and a finding, and the command exits 2, whatever was raised after that read.
ObservedIsReported ==
    exit # None =>
        /\ findings = {f \in ErasureSurfaces \X Needles :
                          f[1] \in DOMAIN report /\ f[2] \in report[f[1]].residual}
        /\ findings # {} <=> exit = 2

\* Whatever the backend still holds of what was supplied is either a residual
\* or part of a count of needles the run says it did not resolve.
NothingVanishes ==
    exit # None =>
        \A s \in DOMAIN report \cup DOMAIN unverifiable :
            LET residual == IF s \in DOMAIN report THEN report[s].residual ELSE {}
                open     == IF s \in DOMAIN report THEN report[s].unverifiable ELSE 0
                unable   == IF s \in DOMAIN unverifiable THEN unverifiable[s] ELSE 0
            IN Cardinality((held[s] \cap (ids(s) \cup supplied(s))) \ residual) <= open + unable

\* What a backend raises costs its own surface only: every surface with something
\* to look for is in the finished report, unless nothing there could be checked.
FailuresContained ==
    exit # None =>
        \A s \in ById \cup ByContent :
            ids(s) \cup supplied(s) # {} =>
                \/ s \in DOMAIN report
                \/ s = Tracing /\ ~fetches_traces
                \/ s \in DOMAIN unverifiable

=============================================================================
