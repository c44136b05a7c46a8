---------------------------- MODULE ErasureProofs ----------------------------
(***************************************************************************)
(* What the erasure run guarantees for every set of surfaces, markers and  *)
(* every plan.  The safety properties of ErasureRun are not inductive on   *)
(* their own: they rest on Inductive, which says which surfaces already    *)
(* have a verdict, that reads off a lagging backend show what it holds,    *)
(* and what a scan in progress has established so far.                     *)
(***************************************************************************)
EXTENDS ErasureRun, FiniteSetTheorems, TLAPS

Seeding == {"seed_target", "seed_others", "clear", "seed_canaries"}

\* The surfaces the probe has finished with.
Visited ==
    IF phase \in Seeding THEN {}
    ELSE IF phase \in {"emit", "done"} THEN {PlanOrder[i] : i \in 1..pos}
    ELSE {PlanOrder[i] : i \in 1..(pos - 1)}

\* Every planned surface in scope gets a record when the probe is past it, and
\* the last position is the one past which it reports.
ReportFollowsPlan ==
    /\ DOMAIN report = Visited \cap planned \cap scope
    /\ phase \in {"emit", "done"} => pos = Len(PlanOrder)

\* What the command touches is in scope.
InScope ==
    /\ unseedable \subseteq scope
    /\ phase \in {"pre", "delete", "post"} => current \in planned \cap scope

\* Off the lagging backends, a read shows what is stored.
ReadsFollowWrites ==
    \A s \in ErasureSurfaces \ Lagging : visible[s] = stored[s]

\* Every marker the post-scan has decided, on a backend whose reads follow its
\* writes, is either among the ones found or not stored.
ScanIsSound ==
    phase = "post" /\ current \notin Lagging /\ inconclusive = 0
        => stored[current] \ todo \subseteq partial

\* Records of this run rest on a baseline it observed, and a record that says
\* ERASED is true of the backend.
RecordsAreSound ==
    /\ \A s \in DOMAIN report : report[s].baselineObserved
    /\ ErasedIsSound

\* The exit code is the one the finished report calls for.
ExitFollowsReport ==
    IF phase = "done" THEN exit = exit_code(report) ELSE exit = None

Inductive ==
    /\ TypeOK
    /\ ReportFollowsPlan
    /\ InScope
    /\ ReadsFollowWrites
    /\ ScanIsSound
    /\ RecordsAreSound
    /\ ExitFollowsReport

-----------------------------------------------------------------------------
(* The operators the actions are built from. *)

\* Counting any of the target's markers gives a natural number.
LEMMA MarkerCount == \A M \in SUBSET Markers : Cardinality(M) \in Nat
  BY FS_Subset, FS_CardinalityType, MarkersAssumed

\* The clamp keeps an undecided count at one or more.
LEMMA ClampedCount == \A n \in Int : Max2(n, 1) \in Nat /\ Max2(n, 1) > 0
  BY DEF Max2

\* The surface in progress is a surface.
LEMMA CurrentIsSurface == TypeOK => current \in ErasureSurfaces
  BY PlanAssumed DEF TypeOK, current

\* A write touches one backend, and its reads follow unless it lags.
LEMMA HoldsEffect ==
    ASSUME TypeOK, NEW s \in ErasureSurfaces, NEW held \in SUBSET Markers, Holds(s, held)
    PROVE  /\ stored' \in [ErasureSurfaces -> SUBSET Markers]
           /\ visible' \in [ErasureSurfaces -> SUBSET Markers]
           /\ stored'[s] = held
           /\ \A t \in ErasureSurfaces \ {s} : stored'[t] = stored[t]
           /\ ReadsFollowWrites => ReadsFollowWrites'
  BY DEF TypeOK, Holds, ReadsFollowWrites

\* A contained write only ever adds the surface it was refused on.
LEMMA SeedWriteEffect ==
    ASSUME TypeOK, NEW s \in ErasureSurfaces, NEW written \in SUBSET Markers,
           SeedWrite(s, written)
    PROVE  /\ stored' \in [ErasureSurfaces -> SUBSET Markers]
           /\ visible' \in [ErasureSurfaces -> SUBSET Markers]
           /\ unseedable' \in {unseedable, unseedable \cup {s}}
           /\ \A t \in ErasureSurfaces \ {s} : stored'[t] = stored[t]
           /\ ReadsFollowWrites => ReadsFollowWrites'
  <1>1. PICK held \in SUBSET Markers :
            Holds(s, held) /\ unseedable' \in {unseedable, unseedable \cup {s}}
    <2>1. stored[s] \in SUBSET Markers
      BY DEF TypeOK
    <2>2. CASE Holds(s, stored[s] \cup written) /\ UNCHANGED unseedable
      BY <2>1, <2>2
    <2>3. CASE \E landed \in SUBSET written :
                   /\ Holds(s, stored[s] \cup landed)
                   /\ unseedable' = unseedable \cup {s}
      BY <2>1, <2>3
    <2> QED
      BY <2>2, <2>3 DEF SeedWrite
  <1> QED
    BY <1>1, HoldsEffect

\* Entering a record changes that surface's entry of the report and no other.
LEMMA RecordedEffect ==
    ASSUME TypeOK, NEW r \in SurfaceErasure(Markers), Recorded(r)
    PROVE  /\ DOMAIN report' = DOMAIN report \cup {current}
           /\ DOMAIN report' \subseteq ErasureSurfaces
           /\ \A s \in DOMAIN report' : report'[s] \in SurfaceErasure(Markers)
           /\ report'[current] = r
           /\ \A s \in DOMAIN report \ {current} : report'[s] = report[s]
  BY CurrentIsSurface DEF TypeOK, Recorded

\* The plan visits at least one surface.
LEMMA PlanLength == Len(PlanOrder) \in Nat /\ 1 \in 1..Len(PlanOrder)
  <1>1. Len(PlanOrder) \in Nat
    BY PlanAssumed
  <1>2. PICK i \in 1..Len(PlanOrder) : PlanOrder[i] = Vector
    BY PlanAssumed, SurfacesAssumed
  <1> QED
    BY <1>1, <1>2

\* A position that is not the last has another after it.
LEMMA NextPosition ==
    \A p \in 1..Len(PlanOrder) : p < Len(PlanOrder) => p + 1 \in 1..Len(PlanOrder)
  BY PlanLength

\* Moving on stays inside the plan.
LEMMA AdvanceEffect ==
    ASSUME TypeOK, Advance
    PROVE  pos' \in 1..Len(PlanOrder) /\ phase' \in {"next", "emit"}
  BY PlanLength DEF TypeOK, Advance

\* Every record the run enters is a SurfaceErasure.
LEMMA RecordTypes ==
    ASSUME TypeOK
    PROVE  /\ Unseeded \in SurfaceErasure(Markers)
           /\ PreFailed \in SurfaceErasure(Markers)
           /\ \A text \in PurgeErrors, n \in Nat :
                 [before |-> before, residual |-> partial, supported |-> supported,
                  unverifiable |-> IF Failed(text) THEN PurgeUndecided ELSE n,
                  baselineObserved |-> TRUE] \in SurfaceErasure(Markers)
           /\ ScanUndecided \in Nat /\ ScanUndecided > 0
           /\ PurgeUndecided \in Nat /\ PurgeUndecided > 0
  <1>1. /\ Cardinality(Markers) \in Nat
        /\ Cardinality(before) \in Nat
        /\ Cardinality(todo) \in Nat
    BY MarkerCount DEF TypeOK
  <1>2. PurgeUndecided \in Nat /\ PurgeUndecided > 0
    BY <1>1, ClampedCount DEF PurgeUndecided
  <1>3. ScanUndecided \in Nat /\ ScanUndecided > 0
    <2>1. Cardinality(before) - (Cardinality(Markers) - Cardinality(todo)) + inconclusive \in Int
      BY <1>1 DEF TypeOK
    <2> QED
      BY <2>1, ClampedCount DEF ScanUndecided
  <1>4. Unseeded \in SurfaceErasure(Markers) /\ PreFailed \in SurfaceErasure(Markers)
    BY <1>1 DEF Unseeded, PreFailed, SurfaceErasure
  <1>5. ASSUME NEW text \in PurgeErrors, NEW n \in Nat
        PROVE  [before |-> before, residual |-> partial, supported |-> supported,
                unverifiable |-> IF Failed(text) THEN PurgeUndecided ELSE n,
                baselineObserved |-> TRUE] \in SurfaceErasure(Markers)
    BY <1>2 DEF TypeOK, SurfaceErasure
  <1> QED
    BY <1>2, <1>3, <1>4, <1>5

-----------------------------------------------------------------------------
(* Type correctness. *)

LEMMA TypeInit == Init => TypeOK
  <1> SUFFICES ASSUME Init PROVE TypeOK
    OBVIOUS
  <1>1. stored \in [ErasureSurfaces -> SUBSET Markers]
    BY DEF Init
  <1>2. visible \in [ErasureSurfaces -> SUBSET Markers]
    BY <1>1 DEF Init
  <1>3. pos \in 1..Len(PlanOrder)
    BY PlanLength DEF Init
  <1>4. /\ DOMAIN report \subseteq ErasureSurfaces
        /\ \A s \in DOMAIN report : report[s] \in SurfaceErasure(Markers)
    BY DEF Init, EmptyReport
  <1>5. /\ planned \subseteq ErasureSurfaces /\ scope \subseteq ErasureSurfaces
        /\ phase \in Phases /\ unseedable \subseteq ErasureSurfaces
        /\ todo \subseteq Markers /\ partial \subseteq Markers /\ inconclusive \in Nat
        /\ before \subseteq Markers /\ supported \in BOOLEAN
        /\ purge_failed \in PurgeErrors /\ findings \subseteq Finding
        /\ exit \in ExitCodes \cup {None}
    BY DEF Init, Phases, PurgeErrors
  <1> QED
    BY <1>1, <1>2, <1>3, <1>4, <1>5 DEF TypeOK

LEMMA TypeStep == TypeOK /\ [Next]_vars => TypeOK'
  <1> SUFFICES ASSUME TypeOK, [Next]_vars PROVE TypeOK'
    OBVIOUS
  <1> USE DEF inputVars, backendVars, scanVars, surfaceVars, resultVars
  <1>1. CASE SeedTarget
    <2>1. /\ stored' \in [ErasureSurfaces -> SUBSET Markers]
          /\ visible' \in [ErasureSurfaces -> SUBSET Markers]
          /\ unseedable' \subseteq ErasureSurfaces
      <3>1. CASE Vector \in scope
        BY <1>1, <3>1, SeedWriteEffect, SurfacesAssumed DEF SeedTarget, TypeOK
      <3>2. CASE Vector \notin scope
        BY <1>1, <3>2 DEF SeedTarget, NotSeeded, TypeOK
      <3> QED
        BY <3>1, <3>2
    <2> QED
      BY <1>1, <2>1 DEF SeedTarget, TypeOK, Phases
  <1>2. CASE SeedOthers
    BY <1>2, SurfacesAssumed DEF SeedOthers, TypeOK, Phases
  <1>3. CASE ClearTarget
    <2>1. /\ stored' \in [ErasureSurfaces -> SUBSET Markers]
          /\ visible' \in [ErasureSurfaces -> SUBSET Markers]
      <3>1. CASE Vector \in unseedable
        <4>1. PICK kept \in SUBSET stored[Vector] : Holds(Vector, kept)
          BY <1>3, <3>1 DEF ClearTarget
        <4>2. kept \in SUBSET Markers
          BY SurfacesAssumed DEF TypeOK
        <4> QED
          BY <4>1, <4>2, HoldsEffect, SurfacesAssumed
      <3>2. CASE Vector \notin unseedable
        BY <1>3, <3>2 DEF ClearTarget, TypeOK
      <3> QED
        BY <3>1, <3>2
    <2> QED
      BY <1>3, <2>1 DEF ClearTarget, TypeOK, Phases
  <1>4. CASE SeedCanaries
    <2>1. /\ stored' \in [ErasureSurfaces -> SUBSET Markers]
          /\ visible' \in [ErasureSurfaces -> SUBSET Markers]
          /\ unseedable' \subseteq ErasureSurfaces
      <3>1. CASE current \in scope \ (ReadOnly \cup {Vector})
        BY <1>4, <3>1, SeedWriteEffect, CanariesAssumed, CurrentIsSurface
           DEF SeedCanaries, TypeOK
      <3>2. CASE current \notin scope \ (ReadOnly \cup {Vector})
        BY <1>4, <3>2 DEF SeedCanaries, NotSeeded, TypeOK
      <3> QED
        BY <3>1, <3>2
    <2>2. pos' \in 1..Len(PlanOrder) /\ phase' \in Phases
      <3>1. \/ pos < Len(PlanOrder) /\ pos' = pos + 1 /\ phase' = phase
            \/ pos' = 1 /\ phase' = "next"
        BY <1>4 DEF SeedCanaries
      <3>2. phase \in Phases /\ pos \in 1..Len(PlanOrder)
        BY DEF TypeOK
      <3>3. pos' \in 1..Len(PlanOrder)
        BY <3>1, <3>2, PlanLength, NextPosition
      <3>4. phase' \in Phases
        BY <3>1, <3>2 DEF Phases
      <3> QED
        BY <3>3, <3>4
    <2> QED
      BY <1>4, <2>1, <2>2 DEF SeedCanaries, TypeOK
  <1>5. CASE StartSurface
    <2>1. /\ DOMAIN report' \subseteq ErasureSurfaces
          /\ \A s \in DOMAIN report' : report'[s] \in SurfaceErasure(Markers)
      BY <1>5, RecordTypes, RecordedEffect DEF StartSurface, TypeOK
    <2>2. pos' \in 1..Len(PlanOrder) /\ phase' \in Phases
      BY <1>5, AdvanceEffect DEF StartSurface, TypeOK, Phases
    <2>3. todo' \subseteq Markers /\ partial' \subseteq Markers /\ inconclusive' \in Nat
      BY <1>5 DEF StartSurface, BeginScan, TypeOK
    <2> QED
      BY <1>5, <2>1, <2>2, <2>3 DEF StartSurface, TypeOK
  <1>6. CASE ReadMarker
    <2>1. todo' \subseteq Markers /\ partial' \subseteq Markers /\ inconclusive' \in Nat
      BY <1>6 DEF ReadMarker, TypeOK
    <2> QED
      BY <1>6, <2>1 DEF ReadMarker, TypeOK
  <1>7. CASE ReadListing
    BY <1>7, CurrentIsSurface DEF ReadListing, TypeOK
  <1>8. CASE PreDone
    BY <1>8 DEF PreDone, TypeOK, Phases
  <1>9. CASE PreRaises
    <2>1. /\ DOMAIN report' \subseteq ErasureSurfaces
          /\ \A s \in DOMAIN report' : report'[s] \in SurfaceErasure(Markers)
      BY <1>9, RecordTypes, RecordedEffect DEF PreRaises
    <2>2. pos' \in 1..Len(PlanOrder) /\ phase' \in Phases
      BY <1>9, AdvanceEffect DEF PreRaises, Phases
    <2> QED
      BY <1>9, <2>1, <2>2 DEF PreRaises, Returned, TypeOK, PurgeErrors
  <1>10. CASE Delete
    <2>1. /\ stored' \in [ErasureSurfaces -> SUBSET Markers]
          /\ visible' \in [ErasureSurfaces -> SUBSET Markers]
      <3>1. ASSUME NEW kept \in SUBSET stored[current], Holds(current, kept)
            PROVE  /\ stored' \in [ErasureSurfaces -> SUBSET Markers]
                   /\ visible' \in [ErasureSurfaces -> SUBSET Markers]
        <4>1. kept \in SUBSET Markers
          BY CurrentIsSurface DEF TypeOK
        <4> QED
          BY <3>1, <4>1, HoldsEffect, CurrentIsSurface
      <3>2. CASE UNCHANGED backendVars
        BY <3>2 DEF TypeOK
      <3> QED
        BY <1>10, <3>1, <3>2 DEF Delete
    <2>2. supported' \in BOOLEAN /\ purge_failed' \in PurgeErrors
      BY <1>10 DEF Delete, TypeOK, PurgeErrors
    <2> QED
      BY <1>10, <2>1, <2>2 DEF Delete, BeginScan, TypeOK, Phases
  <1>11. CASE PostDone \/ PostRaises
    <2>1. /\ DOMAIN report' \subseteq ErasureSurfaces
          /\ \A s \in DOMAIN report' : report'[s] \in SurfaceErasure(Markers)
      BY <1>11, RecordTypes, RecordedEffect DEF PostDone, PostRaises, TypeOK
    <2>2. pos' \in 1..Len(PlanOrder) /\ phase' \in Phases
      BY <1>11, AdvanceEffect DEF PostDone, PostRaises, Phases
    <2>3. findings' \subseteq Finding
      <3>1. Itemized(partial)
        BY <1>11 DEF PostDone, PostRaises
      <3> QED
        BY <3>1, CurrentIsSurface DEF Itemized, TypeOK, Finding
    <2>4. Returned /\ UNCHANGED <<inputVars, backendVars, unseedable, exit>>
      BY <1>11 DEF PostDone, PostRaises
    <2> QED
      BY <2>1, <2>2, <2>3, <2>4 DEF Returned, TypeOK, PurgeErrors
  <1>12. CASE Emit
    BY <1>12 DEF Emit, exit_code, ExitCodes, TypeOK, Phases
  <1>13. CASE Settle
    BY <1>13 DEF Settle, TypeOK
  <1>14. CASE UNCHANGED vars
    BY <1>14 DEF vars, TypeOK
  <1> QED
    BY <1>1, <1>2, <1>3, <1>4, <1>5, <1>6, <1>7, <1>8, <1>9, <1>10, <1>11, <1>12,
       <1>13, <1>14 DEF Next, Command

\* In every run every variable has its type: whatever is raised, refused or left
\* undecided, an undecided count is a natural number and every record is complete.
THEOREM TypeCorrect == Spec => []TypeOK
  BY TypeInit, TypeStep, PTL DEF Spec

-----------------------------------------------------------------------------
(* The inductive invariant. *)

\* A surface joins the visited ones when the probe moves past it, and it was
\* not among them before.
LEMMA VisitedGrows ==
    ASSUME TypeOK, phase \in {"next", "pre", "post"}, Advance
    PROVE  /\ Visited' = Visited \cup {current}
           /\ current \notin Visited
           /\ phase' \in {"next", "emit"}
           /\ phase' = "emit" => pos' = Len(PlanOrder)
  <1>1. pos \in 1..Len(PlanOrder) /\ Len(PlanOrder) \in Nat
    BY PlanLength DEF TypeOK
  <1>2. Visited = {PlanOrder[i] : i \in 1..(pos - 1)}
    BY DEF Visited, Seeding
  <1>3. current \notin Visited
    <2>1. ASSUME NEW i \in 1..(pos - 1) PROVE PlanOrder[i] # PlanOrder[pos]
      <3>1. i \in 1..Len(PlanOrder) /\ i # pos
        BY <1>1
      <3> QED
        BY <1>1, <3>1, PlanAssumed
    <2> QED
      BY <1>2, <2>1 DEF current
  <1>4. {PlanOrder[i] : i \in 1..pos} = Visited \cup {current}
    BY <1>1, <1>2 DEF current
  <1>5. CASE pos < Len(PlanOrder)
    <2>1. phase' = "next" /\ pos' - 1 = pos
      BY <1>1, <1>5 DEF Advance
    <2>2. Visited' = {PlanOrder[i] : i \in 1..pos}
      BY <2>1 DEF Visited, Seeding
    <2> QED
      BY <1>3, <1>4, <2>1, <2>2
  <1>6. CASE ~(pos < Len(PlanOrder))
    <2>1. phase' = "emit" /\ pos' = pos /\ pos = Len(PlanOrder)
      BY <1>1, <1>6 DEF Advance
    <2>2. Visited' = {PlanOrder[i] : i \in 1..pos}
      BY <2>1 DEF Visited, Seeding
    <2> QED
      BY <1>3, <1>4, <2>1, <2>2
  <1> QED
    BY <1>5, <1>6

\* A surface is only scanned or deleted before it has a record.
LEMMA CurrentUnrecorded ==
    ASSUME TypeOK, ReportFollowsPlan, phase \in {"next", "pre", "delete", "post"}
    PROVE  current \notin DOMAIN report
  <1>1. pos \in 1..Len(PlanOrder) /\ Len(PlanOrder) \in Nat
    BY PlanLength DEF TypeOK
  <1>2. Visited = {PlanOrder[i] : i \in 1..(pos - 1)}
    BY DEF Visited, Seeding
  <1>3. ASSUME NEW i \in 1..(pos - 1) PROVE PlanOrder[i] # PlanOrder[pos]
    <2>1. i \in 1..Len(PlanOrder) /\ i # pos
      BY <1>1
    <2> QED
      BY <1>1, <2>1, PlanAssumed
  <1>4. current \notin Visited
    BY <1>2, <1>3 DEF current
  <1> QED
    BY <1>4 DEF ReportFollowsPlan

\* Nothing is recorded while the command still seeds.
LEMMA NothingRecorded ==
    ASSUME ReportFollowsPlan, phase \in Seeding
    PROVE  DOMAIN report = {}
  BY DEF ReportFollowsPlan, Visited

LEMMA InductiveInit == Init => Inductive
  <1> SUFFICES ASSUME Init PROVE Inductive
    OBVIOUS
  <1>1. TypeOK
    BY TypeInit
  <1>2. DOMAIN report = {}
    BY DEF Init, EmptyReport
  <1>3. ReportFollowsPlan
    BY <1>2 DEF Init, ReportFollowsPlan, Visited, Seeding
  <1>4. InScope /\ ScanIsSound /\ ExitFollowsReport
    BY DEF Init, InScope, ScanIsSound, ExitFollowsReport
  <1>5. ReadsFollowWrites
    BY <1>1 DEF Init, ReadsFollowWrites, TypeOK
  <1>6. RecordsAreSound
    BY <1>2 DEF RecordsAreSound, ErasedIsSound
  <1> QED
    BY <1>1, <1>3, <1>4, <1>5, <1>6 DEF Inductive

\* While seeding, nothing but the backends, the refusals and the position moves.
LEMMA SeedingStep ==
    ASSUME Inductive, SeedTarget \/ SeedOthers \/ ClearTarget \/ SeedCanaries
    PROVE  /\ ReportFollowsPlan' /\ InScope' /\ ReadsFollowWrites'
           /\ ScanIsSound' /\ RecordsAreSound' /\ ExitFollowsReport'
  <1> USE DEF inputVars, backendVars, scanVars, surfaceVars, resultVars
  <1>1. TypeOK /\ DOMAIN report = {} /\ exit = None
    BY NothingRecorded DEF Inductive, SeedTarget, SeedOthers, ClearTarget, SeedCanaries,
       Seeding, ExitFollowsReport
  <1>2. /\ UNCHANGED <<planned, scope, report, exit>>
        /\ phase' \in Seeding \/ (phase' = "next" /\ pos' = 1)
    BY DEF SeedTarget, SeedOthers, ClearTarget, SeedCanaries, Seeding
  <1>3. DOMAIN report' = {}
    BY <1>1, <1>2
  <1>4. ReportFollowsPlan'
    <2>1. CASE phase' \in Seeding
      BY <1>3, <2>1 DEF ReportFollowsPlan, Visited, Seeding
    <2>2. CASE phase' = "next" /\ pos' = 1
      <3>1. Visited' = {}
        BY <2>2 DEF Visited, Seeding
      <3> QED
        BY <1>3, <2>2, <3>1 DEF ReportFollowsPlan
    <2> QED
      BY <1>2, <2>1, <2>2
  <1>5. ScanIsSound' /\ RecordsAreSound' /\ ExitFollowsReport'
    BY <1>1, <1>2, <1>3
       DEF ScanIsSound, RecordsAreSound, ErasedIsSound, ExitFollowsReport, Seeding
  <1>6. unseedable' \subseteq scope /\ ReadsFollowWrites'
    <2>1. unseedable \subseteq scope /\ ReadsFollowWrites
      BY DEF Inductive, InScope
    <2>2. CASE SeedTarget
      <3>1. CASE Vector \in scope
        BY <1>1, <2>1, <2>2, <3>1, SeedWriteEffect, SurfacesAssumed DEF SeedTarget
      <3>2. CASE Vector \notin scope
        BY <2>1, <2>2, <3>2 DEF SeedTarget, NotSeeded, ReadsFollowWrites
      <3> QED
        BY <3>1, <3>2
    <2>3. CASE SeedOthers
      BY <2>1, <2>3 DEF SeedOthers, ReadsFollowWrites
    <2>4. CASE ClearTarget
      <3>1. CASE Vector \in unseedable
        <4>1. PICK kept \in SUBSET stored[Vector] : Holds(Vector, kept)
          BY <2>4, <3>1 DEF ClearTarget
        <4>2. kept \in SUBSET Markers
          BY <1>1, SurfacesAssumed DEF TypeOK
        <4>3. UNCHANGED unseedable
          BY <2>4 DEF ClearTarget
        <4> QED
          BY <1>1, <2>1, <4>1, <4>2, <4>3, HoldsEffect, SurfacesAssumed
      <3>2. CASE Vector \notin unseedable
        BY <2>1, <2>4, <3>2 DEF ClearTarget, ReadsFollowWrites
      <3> QED
        BY <3>1, <3>2
    <2>5. CASE SeedCanaries
      <3>1. CASE current \in scope \ (ReadOnly \cup {Vector})
        BY <1>1, <2>1, <2>5, <3>1, SeedWriteEffect, CanariesAssumed, CurrentIsSurface
           DEF SeedCanaries
      <3>2. CASE current \notin scope \ (ReadOnly \cup {Vector})
        BY <2>1, <2>5, <3>2 DEF SeedCanaries, NotSeeded, ReadsFollowWrites
      <3> QED
        BY <3>1, <3>2
    <2> QED
      BY <2>2, <2>3, <2>4, <2>5
  <1>7. InScope'
    BY <1>2, <1>6 DEF InScope, Seeding
  <1> QED
    BY <1>4, <1>5, <1>6, <1>7

\* A surface skipped by the plan leaves the report alone and gets no record.
LEMMA SkipStep ==
    ASSUME Inductive, phase = "next", current \notin planned \cap scope, Advance,
           UNCHANGED <<planned, scope, stored, visible, unseedable, report, exit>>
    PROVE  /\ ReportFollowsPlan' /\ InScope' /\ ReadsFollowWrites'
           /\ ScanIsSound' /\ RecordsAreSound' /\ ExitFollowsReport'
  <1>1. /\ Visited' = Visited \cup {current}
        /\ phase' \in {"next", "emit"}
        /\ phase' = "emit" => pos' = Len(PlanOrder)
    BY VisitedGrows DEF Inductive
  <1>2. ReportFollowsPlan'
    BY <1>1 DEF Inductive, ReportFollowsPlan
  <1>3. InScope' /\ ScanIsSound' /\ ExitFollowsReport'
    BY <1>1 DEF Inductive, InScope, ScanIsSound, ExitFollowsReport
  <1>4. ReadsFollowWrites' /\ RecordsAreSound'
    BY DEF Inductive, ReadsFollowWrites, RecordsAreSound, ErasedIsSound
  <1> QED
    BY <1>2, <1>3, <1>4

\* Recording a surface and moving past it keeps the invariant, provided the
\* record says ERASED only if the backend is empty.
LEMMA RecordStep ==
    ASSUME Inductive, phase \in {"next", "pre", "post"}, current \in planned \cap scope,
           NEW r \in SurfaceErasure(Markers), Recorded(r), r.baselineObserved,
           current \notin Lagging /\ erased(r) => stored[current] = {},
           Advance,
           UNCHANGED <<planned, scope, stored, visible, unseedable, exit>>
    PROVE  /\ ReportFollowsPlan' /\ InScope' /\ ReadsFollowWrites'
           /\ ScanIsSound' /\ RecordsAreSound' /\ ExitFollowsReport'
  <1>1. /\ Visited' = Visited \cup {current}
        /\ phase' \in {"next", "emit"}
        /\ phase' = "emit" => pos' = Len(PlanOrder)
    BY VisitedGrows DEF Inductive
  <1>2. /\ DOMAIN report' = DOMAIN report \cup {current}
        /\ report'[current] = r
        /\ \A s \in DOMAIN report \ {current} : report'[s] = report[s]
    BY RecordedEffect DEF Inductive
  <1>3. ReportFollowsPlan'
    BY <1>1, <1>2 DEF Inductive, ReportFollowsPlan
  <1>4. InScope' /\ ScanIsSound' /\ ExitFollowsReport'
    BY <1>1 DEF Inductive, InScope, ScanIsSound, ExitFollowsReport
  <1>5. ReadsFollowWrites'
    BY DEF Inductive, ReadsFollowWrites
  <1>6. RecordsAreSound'
    <2> SUFFICES ASSUME NEW s \in DOMAIN report'
                 PROVE  /\ report'[s].baselineObserved
                        /\ s \notin Lagging /\ erased(report'[s]) => stored'[s] = {}
      BY DEF RecordsAreSound, ErasedIsSound
    <2>1. CASE s = current
      BY <1>2, <2>1
    <2>2. CASE s # current
      BY <1>2, <2>2 DEF Inductive, RecordsAreSound, ErasedIsSound
    <2> QED
      BY <2>1, <2>2
  <1> QED
    BY <1>3, <1>4, <1>5, <1>6

\* A step that leaves the report, the plan position and the backends alone, and
\* stays on the surface in progress, only has the scan to answer for.
LEMMA SurfaceStep ==
    ASSUME Inductive, phase \in {"next", "pre", "delete", "post"},
           phase' \in {"pre", "delete", "post"}, current \in planned \cap scope,
           UNCHANGED <<planned, scope, unseedable, pos, report, exit>>,
           ReadsFollowWrites', ScanIsSound',
           \A s \in ErasureSurfaces \ {current} : stored'[s] = stored[s]
    PROVE  /\ ReportFollowsPlan' /\ InScope'
           /\ RecordsAreSound' /\ ExitFollowsReport'
  <1>1. Visited' = Visited
    BY DEF Visited, Seeding
  <1>2. ReportFollowsPlan'
    BY <1>1 DEF Inductive, ReportFollowsPlan
  <1>3. InScope' /\ ExitFollowsReport'
    BY DEF Inductive, InScope, ExitFollowsReport, current
  <1>4. RecordsAreSound'
    <2>1. current \notin DOMAIN report /\ DOMAIN report \subseteq ErasureSurfaces
      BY CurrentUnrecorded DEF Inductive, TypeOK
    <2> QED
      BY <2>1 DEF Inductive, RecordsAreSound, ErasedIsSound
  <1> QED
    BY <1>2, <1>3, <1>4

LEMMA InductiveStep == Inductive /\ [Next]_vars => Inductive'
  <1> SUFFICES ASSUME Inductive, [Next]_vars PROVE Inductive'
    OBVIOUS
  <1> USE DEF inputVars, backendVars, scanVars, surfaceVars, resultVars
  <1>t. TypeOK /\ TypeOK'
    BY TypeStep DEF Inductive
  <1> SUFFICES /\ ReportFollowsPlan' /\ InScope' /\ ReadsFollowWrites'
               /\ ScanIsSound' /\ RecordsAreSound' /\ ExitFollowsReport'
    BY <1>t DEF Inductive
  <1>s. current \in ErasureSurfaces
    BY <1>t, CurrentIsSurface
  <1>1. CASE SeedTarget \/ SeedOthers \/ ClearTarget \/ SeedCanaries
    BY <1>1, SeedingStep
  <1>2. CASE StartSurface
    <2>1. CASE current \notin planned \cap scope
      BY <1>2, <2>1, SkipStep DEF StartSurface
    <2>2. CASE current \in planned \cap scope /\ current = Vector /\ Vector \in unseedable
      <3>1. ~erased(Unseeded) /\ Unseeded.baselineObserved
        BY DEF Unseeded, erased
      <3>2. Unseeded \in SurfaceErasure(Markers)
        BY <1>t, RecordTypes
      <3> QED
        BY <1>2, <2>2, <3>1, <3>2, RecordStep DEF StartSurface
    <2>3. CASE current \in planned \cap scope /\ ~(current = Vector /\ Vector \in unseedable)
      <3>1. /\ phase = "next" /\ phase' = "pre"
            /\ UNCHANGED <<planned, scope, stored, visible, unseedable, pos, report, exit>>
        BY <1>2, <2>3 DEF StartSurface
      <3>2. ScanIsSound' /\ ReadsFollowWrites'
        BY <3>1 DEF Inductive, ScanIsSound, ReadsFollowWrites
      <3> QED
        BY <2>3, <3>1, <3>2, SurfaceStep
    <2> QED
      BY <2>1, <2>2, <2>3
  <1>3. CASE ReadMarker
    <2>1. /\ phase \in {"pre", "post"} /\ phase' = phase
          /\ current \in planned \cap scope
          /\ UNCHANGED <<planned, scope, stored, visible, unseedable, pos, report, exit>>
      BY <1>3 DEF ReadMarker, Inductive, InScope
    <2>2. ReadsFollowWrites'
      BY <2>1 DEF Inductive, ReadsFollowWrites
    <2>3. ScanIsSound'
      <3> SUFFICES ASSUME phase = "post", current \notin Lagging, inconclusive' = 0
                   PROVE  stored[current] \ todo' \subseteq partial'
        BY <2>1 DEF ScanIsSound, current
      <3>1. PICK m \in todo :
                /\ todo' = todo \ {m}
                /\ \/ /\ m \in visible[current]
                      /\ partial' = partial \cup {m}
                      /\ UNCHANGED inconclusive
                   \/ /\ m \notin visible[current]
                      /\ UNCHANGED <<partial, inconclusive>>
                   \/ /\ current = Vector
                      /\ inconclusive' = inconclusive + 1
                      /\ UNCHANGED partial
        BY <1>3 DEF ReadMarker
      <3>2. UNCHANGED inconclusive
        BY <1>t, <3>1 DEF TypeOK
      <3>3. visible[current] = stored[current]
        BY <1>s DEF Inductive, ReadsFollowWrites
      <3>4. stored[current] \ todo \subseteq partial
        BY <3>2 DEF Inductive, ScanIsSound
      <3>5. inconclusive' # inconclusive + 1
        BY <1>t, <3>2 DEF TypeOK
      <3> QED
        BY <3>1, <3>3, <3>4, <3>5
    <2> QED
      BY <2>1, <2>2, <2>3, SurfaceStep
  <1>4. CASE ReadListing
    <2>1. /\ phase \in {"pre", "post"} /\ phase' = phase
          /\ current \in planned \cap scope
          /\ UNCHANGED <<planned, scope, stored, visible, unseedable, pos, report, exit>>
          /\ partial' = visible[current]
      BY <1>4 DEF ReadListing, Inductive, InScope
    <2>2. ReadsFollowWrites'
      BY <2>1 DEF Inductive, ReadsFollowWrites
    <2>3. ScanIsSound'
      BY <1>s, <2>1 DEF Inductive, ReadsFollowWrites, ScanIsSound, current
    <2> QED
      BY <2>1, <2>2, <2>3, SurfaceStep
  <1>5. CASE PreDone
    <2>1. /\ phase = "pre" /\ phase' = "delete"
          /\ current \in planned \cap scope
          /\ UNCHANGED <<planned, scope, stored, visible, unseedable, pos, report, exit>>
      BY <1>5 DEF PreDone, Inductive, InScope
    <2>2. ReadsFollowWrites' /\ ScanIsSound'
      BY <2>1 DEF Inductive, ReadsFollowWrites, ScanIsSound
    <2> QED
      BY <2>1, <2>2, SurfaceStep
  <1>6. CASE PreRaises
    <2>1. ~erased(PreFailed) /\ PreFailed.baselineObserved
      BY DEF PreFailed, erased
    <2>2. PreFailed \in SurfaceErasure(Markers)
      BY <1>t, RecordTypes
    <2>3. phase = "pre" /\ current \in planned \cap scope
      BY <1>6 DEF PreRaises, Inductive, InScope
    <2> QED
      BY <1>6, <2>1, <2>2, <2>3, RecordStep DEF PreRaises
  <1>7. CASE Delete
    <2>1. /\ phase = "delete" /\ phase' = "post"
          /\ current \in planned \cap scope
          /\ todo' = Markers
          /\ UNCHANGED <<planned, scope, unseedable, pos, report, exit>>
      BY <1>7 DEF Delete, BeginScan, Inductive, InScope
    <2>2. /\ ReadsFollowWrites'
          /\ \A s \in ErasureSurfaces \ {current} : stored'[s] = stored[s]
      <3>1. ASSUME NEW kept \in SUBSET stored[current], Holds(current, kept)
            PROVE  /\ ReadsFollowWrites'
                   /\ \A s \in ErasureSurfaces \ {current} : stored'[s] = stored[s]
        <4>1. kept \in SUBSET Markers
          BY <1>t, <1>s DEF TypeOK
        <4> QED
          BY <1>t, <1>s, <3>1, <4>1, HoldsEffect DEF Inductive
      <3>2. CASE UNCHANGED backendVars
        BY <3>2 DEF Inductive, ReadsFollowWrites
      <3> QED
        BY <1>7, <3>1, <3>2 DEF Delete
    <2>3. ScanIsSound'
      <3>1. stored'[current] \subseteq Markers /\ current' = current
        BY <1>t, <1>s, <2>1 DEF TypeOK, current
      <3> QED
        BY <2>1, <3>1 DEF ScanIsSound
    <2> QED
      BY <2>1, <2>2, <2>3, SurfaceStep
  <1>8. CASE PostDone
    <2> DEFINE r == [before |-> before, residual |-> partial, supported |-> supported,
                     unverifiable |-> IF Failed(purge_failed) THEN PurgeUndecided
                                      ELSE inconclusive,
                     baselineObserved |-> TRUE]
    <2>1. /\ phase = "post" /\ todo = {} /\ Recorded(r) /\ Advance
          /\ UNCHANGED <<planned, scope, stored, visible, unseedable, exit>>
      BY <1>8 DEF PostDone
    <2>2. r \in SurfaceErasure(Markers)
      BY <1>t, RecordTypes DEF TypeOK
    <2>3. ASSUME current \notin Lagging, erased(r) PROVE stored[current] = {}
      <3>1. inconclusive = 0 /\ partial = {}
        BY <1>t, <2>3, RecordTypes DEF erased
      <3>2. stored[current] \ todo \subseteq partial
        BY <2>1, <2>3, <3>1 DEF Inductive, ScanIsSound
      <3> QED
        BY <2>1, <3>1, <3>2
    <2>4. current \in planned \cap scope
      BY <2>1 DEF Inductive, InScope
    <2> QED
      BY <2>1, <2>2, <2>3, <2>4, RecordStep
  <1>9. CASE PostRaises
    <2> DEFINE r == [before |-> before, residual |-> partial, supported |-> supported,
                     unverifiable |-> IF Failed(purge_failed) THEN PurgeUndecided
                                      ELSE ScanUndecided,
                     baselineObserved |-> TRUE]
    <2>1. /\ phase = "post" /\ Recorded(r) /\ Advance
          /\ UNCHANGED <<planned, scope, stored, visible, unseedable, exit>>
      BY <1>9 DEF PostRaises
    <2>2. r \in SurfaceErasure(Markers)
      BY <1>t, RecordTypes DEF TypeOK
    <2>3. ~erased(r)
      BY <1>t, RecordTypes DEF erased
    <2>4. current \in planned \cap scope
      BY <2>1 DEF Inductive, InScope
    <2> QED
      BY <2>1, <2>2, <2>3, <2>4, RecordStep
  <1>10. CASE Emit
    <2>1. /\ phase = "emit" /\ phase' = "done" /\ exit' = exit_code(report)
          /\ UNCHANGED <<planned, scope, stored, visible, pos, unseedable, report>>
      BY <1>10 DEF Emit
    <2>2. Visited' = Visited
      BY <2>1 DEF Visited, Seeding
    <2>3. ReportFollowsPlan'
      BY <2>1, <2>2 DEF Inductive, ReportFollowsPlan
    <2>4. InScope' /\ ReadsFollowWrites' /\ ScanIsSound' /\ RecordsAreSound'
      BY <2>1 DEF Inductive, InScope, ReadsFollowWrites, ScanIsSound, RecordsAreSound,
         ErasedIsSound
    <2>5. ExitFollowsReport'
      BY <2>1 DEF ExitFollowsReport
    <2> QED
      BY <2>3, <2>4, <2>5
  <1>11. CASE Settle \/ UNCHANGED vars
    <2>1. /\ UNCHANGED <<planned, scope, stored, phase, pos, unseedable, todo, partial,
                         inconclusive, report, exit>>
          /\ \A s \in ErasureSurfaces \ Lagging : visible'[s] = visible[s]
      <3>1. CASE Settle
        BY <1>t, <3>1 DEF Settle, TypeOK
      <3>2. CASE UNCHANGED vars
        BY <3>2 DEF vars
      <3> QED
        BY <1>11, <3>1, <3>2
    <2>2. Visited' = Visited /\ current' = current
      BY <2>1 DEF Visited, Seeding, current
    <2>3. ReportFollowsPlan' /\ InScope' /\ ExitFollowsReport'
      BY <2>1, <2>2 DEF Inductive, ReportFollowsPlan, InScope, ExitFollowsReport
    <2>4. ReadsFollowWrites' /\ ScanIsSound' /\ RecordsAreSound'
      BY <2>1, <2>2 DEF Inductive, ReadsFollowWrites, ScanIsSound, RecordsAreSound,
         ErasedIsSound
    <2> QED
      BY <2>3, <2>4
  <1> QED
    BY <1>1, <1>2, <1>3, <1>4, <1>5, <1>6, <1>7, <1>8, <1>9, <1>10, <1>11
       DEF Next, Command

-----------------------------------------------------------------------------
(* What follows in every run. *)

THEOREM InductiveInvariant == Spec => []Inductive
  BY InductiveInit, InductiveStep, PTL DEF Spec

\* A surface the report calls ERASED holds none of the target's markers, whatever
\* was raised, refused, half done or answered with a full page on the way there.
THEOREM ErasedSound == Spec => []ErasedIsSound
  <1>1. Inductive => ErasedIsSound
    BY DEF Inductive, RecordsAreSound
  <1> QED
    BY <1>1, InductiveInvariant, PTL

\* A run that finishes has a record for each surface it set out to verify: one
\* backend's failure never costs another surface its verdict.
THEOREM EverySurfaceAnswered == Spec => []ContainedPerSurface
  <1>1. Inductive => ContainedPerSurface
    <2> SUFFICES ASSUME Inductive, exit # None
                 PROVE  DOMAIN report = planned \cap scope
      BY DEF ContainedPerSurface
    <2>1. phase = "done" /\ pos = Len(PlanOrder)
      BY DEF Inductive, ExitFollowsReport, ReportFollowsPlan
    <2>2. Visited = {PlanOrder[i] : i \in 1..Len(PlanOrder)}
      BY <2>1 DEF Visited, Seeding
    <2>3. ErasureSurfaces \subseteq Visited
      BY <2>2, PlanAssumed
    <2>4. planned \subseteq ErasureSurfaces
      BY DEF Inductive, TypeOK
    <2> QED
      BY <2>3, <2>4 DEF Inductive, ReportFollowsPlan
  <1> QED
    BY <1>1, InductiveInvariant, PTL

\* Exit 0 only when each of those surfaces was scanned to ERASED.
THEOREM ExitZeroVerified == Spec => []ExitZeroIsVerified
  <1>1. Inductive /\ ContainedPerSurface => ExitZeroIsVerified
    <2> SUFFICES ASSUME Inductive, ContainedPerSurface, exit = 0
                 PROVE  /\ DOMAIN report = planned \cap scope
                        /\ \A s \in planned \cap scope : coverage_verdict(report[s]) = "ERASED"
      BY DEF ExitZeroIsVerified
    <2>1. exit # None
      BY NoneAssumed DEF ExitCodes
    <2>2. DOMAIN report = planned \cap scope /\ exit_code(report) = 0
      BY <2>1 DEF ContainedPerSurface, Inductive, ExitFollowsReport
    <2>3. \A s \in DOMAIN report : report[s].baselineObserved
      BY DEF Inductive, RecordsAreSound
    <2>4. headline(report) \in {"VERIFIED", "NO_RESIDUAL_FOUND"}
      BY <2>2 DEF exit_code
    <2>5. ~AllPostHoc(report)
      BY <2>3 DEF AllPostHoc
    <2>6. reportErased(report)
      BY <2>4, <2>5 DEF headline
    <2>7. \A s \in DOMAIN report : coverage_verdict(report[s]) = "ERASED"
      BY <2>6 DEF reportErased, erased, coverage_verdict, attestable_with_caveat
    <2> QED
      BY <2>2, <2>7
  <1> QED
    BY <1>1, InductiveInvariant, EverySurfaceAnswered, PTL

\* The residue metric counts zero only on an ERASED surface, and more only on a
\* RESIDUAL one.
THEOREM MetricAgrees == Spec => []ResidueMetricAgrees
  <1>1. TypeOK => ResidueMetricAgrees
    <2> SUFFICES ASSUME TypeOK, NEW s \in ResidueKeys(report)
                 PROVE  coverage(report)[s] =
                          IF Cardinality(report[s].residual) = 0 THEN "ERASED" ELSE "RESIDUAL"
      BY DEF ResidueMetricAgrees, erasure_residue
    <2>1. /\ s \in DOMAIN report /\ s \in ErasureSurfaces
          /\ report[s] \in SurfaceErasure(Markers)
      BY DEF TypeOK, ResidueKeys
    <2>2. IsFiniteSet(report[s].residual)
      BY <2>1, FS_Subset, MarkersAssumed DEF SurfaceErasure
    <2>3. Cardinality(report[s].residual) = 0 <=> report[s].residual = {}
      BY <2>2, FS_EmptySet
    <2>4. coverage(report)[s] = coverage_verdict(report[s])
      BY <2>1 DEF coverage
    <2>5. /\ report[s].supported /\ report[s].baselineObserved /\ report[s].before # {}
          /\ report[s].residual # {} \/ report[s].unverifiable = 0
      BY DEF ResidueKeys
    <2> QED
      BY <2>3, <2>4, <2>5 DEF coverage_verdict, attestable_with_caveat
  <1> QED
    BY <1>1, TypeCorrect, PTL

\* The control assertion says "verified" exactly when every live surface was
\* attested ERASED, whichever surfaces were live.
THEOREM AssertionHonest == Spec => []AssertionIsHonest
  <1>1. TypeOK => AssertionIsHonest
    <2> SUFFICES ASSUME TypeOK, NEW live \in SUBSET DOMAIN report
                 PROVE  AssertsVerified(report, live) <=>
                          live # {} /\ \A s \in live : erased(report[s])
      BY DEF AssertionIsHonest
    <2>1. \A s \in live : /\ coverage(report)[s] = coverage_verdict(report[s])
                          /\ s \in DOMAIN report
                          /\ report[s].unverifiable \in Nat
      BY DEF TypeOK, coverage, SurfaceErasure
    <2>2. \A s \in live : erased(report[s]) <=> coverage(report)[s] = "ERASED"
      BY <2>1 DEF erased, coverage_verdict, attestable_with_caveat
    <2>3. \A s \in live : coverage(report)[s] \in CoverageVerdicts
      BY <2>1 DEF coverage_verdict, CoverageVerdicts
    <2>4. \A s \in live : coverage(report)[s] = "ERASED" => s \notin Unverified(report)
      BY <2>1, <2>2 DEF erased, Unverified
    <2>5. AssertsVerified(report, live) <=>
            /\ \E s \in live : coverage(report)[s] \in {"ERASED", "RESIDUAL"}
            /\ \A s \in live : coverage(report)[s] # "NOT_COVERED"
            /\ \A s \in live : coverage(report)[s] # "RESIDUAL"
            /\ \A s \in live : coverage(report)[s] # "ATTESTABLE_WITH_CAVEAT"
            /\ \A s \in live : s \notin Unverified(report)
      BY DEF AssertsVerified, ErasureControlAsserted, erasure_assertion,
             erasure_scanned_surfaces
    <2> QED
      BY <2>2, <2>3, <2>4, <2>5 DEF CoverageVerdicts
  <1> QED
    BY <1>1, TypeCorrect, PTL

\* The command writes to, and deletes from, surfaces in scope only.
THEOREM ScopeRespected == Spec => ScopeIsRespected
  <1>1. Inductive /\ [Next]_vars
          => [\A s \in ErasureSurfaces \ scope : stored'[s] = stored[s]]_vars
    <2> SUFFICES ASSUME Inductive, Next, NEW s \in ErasureSurfaces \ scope
                 PROVE  stored'[s] = stored[s]
      OBVIOUS
    <2> USE DEF inputVars, backendVars
    <2>1. TypeOK /\ unseedable \subseteq scope /\ current \in ErasureSurfaces
      BY CurrentIsSurface DEF Inductive, InScope
    <2>2. CASE SeedTarget
      BY <2>1, <2>2, SeedWriteEffect, SurfacesAssumed DEF SeedTarget, NotSeeded
    <2>3. CASE ClearTarget
      <3>1. CASE Vector \in unseedable
        <4>1. PICK kept \in SUBSET stored[Vector] : Holds(Vector, kept)
          BY <2>3, <3>1 DEF ClearTarget
        <4> QED
          BY <2>1, <3>1, <4>1 DEF Holds, TypeOK
      <3>2. CASE Vector \notin unseedable
        BY <2>3, <3>2 DEF ClearTarget
      <3> QED
        BY <3>1, <3>2
    <2>4. CASE SeedCanaries
      BY <2>1, <2>4, SeedWriteEffect, CanariesAssumed DEF SeedCanaries, NotSeeded
    <2>5. CASE Delete
      <3>1. current # s
        BY <2>5 DEF Delete, Inductive, InScope
      <3>2. stored' = stored \/ \E kept \in SUBSET stored[current] : Holds(current, kept)
        BY <2>5 DEF Delete
      <3> QED
        BY <2>1, <3>1, <3>2 DEF Holds, TypeOK
    <2>6. CASE SeedOthers \/ StartSurface \/ ReadMarker \/ ReadListing \/ PreDone
               \/ PreRaises \/ PostDone \/ PostRaises \/ Emit \/ Settle
      BY <2>6 DEF SeedOthers, StartSurface, ReadMarker, ReadListing, PreDone, PreRaises,
                  PostDone, PostRaises, Emit, Settle
    <2> QED
      BY <2>2, <2>3, <2>4, <2>5, <2>6 DEF Next, Command
  <1> QED
    BY <1>1, InductiveInvariant, PTL DEF Spec, ScopeIsRespected

-----------------------------------------------------------------------------
(* Findings and exit code. *)

\* Only recorded surfaces have findings, and where the backend could erase they
\* itemize exactly the residual of its record.
FindingsAgree ==
    /\ \A f \in findings : f.surface \in DOMAIN report
    /\ \A s \in DOMAIN report : report[s].supported =>
          {f.marker : f \in {g \in findings : g.surface = s}} = report[s].residual

LEMMA FindingsInit == Init => FindingsAgree
  BY DEF Init, FindingsAgree, EmptyReport

LEMMA FindingsStep == Inductive /\ FindingsAgree /\ [Next]_vars => FindingsAgree'
  <1> SUFFICES ASSUME Inductive, FindingsAgree, [Next]_vars PROVE FindingsAgree'
    OBVIOUS
  <1> USE DEF resultVars
  <1>1. TypeOK /\ ReportFollowsPlan
    BY DEF Inductive
  <1>2. CASE UNCHANGED <<report, findings>>
    BY <1>2 DEF FindingsAgree
  <1>3. ASSUME NEW r \in SurfaceErasure(Markers), Recorded(r), r.residual = {},
               phase \in {"next", "pre"}, UNCHANGED findings
        PROVE  FindingsAgree'
    <2>1. /\ DOMAIN report' = DOMAIN report \cup {current} /\ current \notin DOMAIN report
          /\ report'[current] = r
          /\ \A s \in DOMAIN report \ {current} : report'[s] = report[s]
      BY <1>1, <1>3, RecordedEffect, CurrentUnrecorded
    <2>2. {g \in findings : g.surface = current} = {}
      BY <2>1 DEF FindingsAgree
    <2>3. {f.marker : f \in {g \in findings : g.surface = current}} = {}
      BY <2>2
    <2> QED
      BY <1>3, <2>1, <2>3 DEF FindingsAgree
  <1>4. CASE StartSurface
    <2>1. CASE UNCHANGED report
      BY <1>2, <1>4, <2>1 DEF StartSurface
    <2>2. CASE Recorded(Unseeded)
      <3>1. Unseeded \in SurfaceErasure(Markers) /\ Unseeded.residual = {}
        BY <1>1, RecordTypes DEF Unseeded
      <3> QED
        BY <1>3, <1>4, <2>2, <3>1 DEF StartSurface
    <2> QED
      BY <1>4, <2>1, <2>2 DEF StartSurface
  <1>5. CASE PreRaises
    <2>1. PreFailed \in SurfaceErasure(Markers) /\ PreFailed.residual = {}
      BY <1>1, RecordTypes DEF PreFailed
    <2> QED
      BY <1>3, <1>5, <2>1 DEF PreRaises
  <1>6. CASE PostDone \/ PostRaises
    <2>1. PICK r \in SurfaceErasure(Markers) :
              /\ Recorded(r) /\ r.residual = partial /\ r.supported = supported
              /\ Itemized(partial) /\ phase = "post"
      <3>1. CASE PostDone
        BY <1>1, <3>1, RecordTypes DEF PostDone, TypeOK
      <3>2. CASE PostRaises
        BY <1>1, <3>2, RecordTypes DEF PostRaises, TypeOK
      <3> QED
        BY <1>6, <3>1, <3>2
    <2>2. /\ DOMAIN report' = DOMAIN report \cup {current} /\ current \notin DOMAIN report
          /\ report'[current] = r
          /\ \A s \in DOMAIN report \ {current} : report'[s] = report[s]
      BY <1>1, <2>1, RecordedEffect, CurrentUnrecorded
    <2> DEFINE kind == IF supported THEN "residual" ELSE "caveat"
               seen == IF supported THEN partial ELSE before
               new  == {[kind |-> kind, surface |-> current, marker |-> m] : m \in seen}
    <2>3. findings' = findings \cup new
      BY <2>1 DEF Itemized
    <2>4. \A s \in DOMAIN report :
             {g \in findings' : g.surface = s} = {g \in findings : g.surface = s}
      BY <2>2, <2>3
    <2>5. {g \in findings' : g.surface = current} = new
      BY <2>2, <2>3 DEF FindingsAgree
    <2>6. {f.marker : f \in new} = seen
      <3> HIDE DEF kind, seen
      <3>1. \A f \in new : f.marker \in seen
        OBVIOUS
      <3>2. \A m \in seen : \E f \in new : f.marker = m
        <4> SUFFICES ASSUME NEW m \in seen PROVE \E f \in new : f.marker = m
          OBVIOUS
        <4> WITNESS [kind |-> kind, surface |-> current, marker |-> m] \in new
        <4> QED
          OBVIOUS
      <3> HIDE DEF new
      <3> QED
        BY <3>1, <3>2
    <2>7. \A f \in findings' : f.surface \in DOMAIN report'
      BY <2>2, <2>3 DEF FindingsAgree
    <2> HIDE DEF new
    <2>8. ASSUME NEW s \in DOMAIN report', report'[s].supported
          PROVE  {f.marker : f \in {g \in findings' : g.surface = s}} = report'[s].residual
      <3>1. CASE s = current
        BY <2>1, <2>2, <2>5, <2>6, <2>8, <3>1
      <3>2. CASE s # current
        BY <2>2, <2>4, <2>8, <3>2 DEF FindingsAgree
      <3> QED
        BY <3>1, <3>2
    <2> QED
      BY <2>7, <2>8 DEF FindingsAgree
  <1>7. CASE SeedTarget \/ SeedOthers \/ ClearTarget \/ SeedCanaries \/ ReadMarker
             \/ ReadListing \/ PreDone \/ Delete \/ Emit \/ Settle \/ UNCHANGED vars
    BY <1>2, <1>7 DEF SeedTarget, SeedOthers, ClearTarget, SeedCanaries, ReadMarker,
                      ReadListing, PreDone, Delete, Emit, Settle, vars
  <1> QED
    BY <1>4, <1>5, <1>6, <1>7 DEF Next, Command

\* A marker seen after the erasure on a backend that can erase is itemized and
\* exits 2, even when the delete or the post-scan also failed.
THEOREM ResidualAlwaysFails == Spec => []ResidualFails
  <1>1. Inductive /\ FindingsAgree => ResidualFails
    <2> SUFFICES ASSUME Inductive, FindingsAgree, exit # None,
                        NEW s \in DOMAIN report, report[s].supported, report[s].residual # {}
                 PROVE  exit = 2
      BY DEF ResidualFails, FindingsAgree
    <2>1. exit = exit_code(report)
      BY DEF Inductive, ExitFollowsReport
    <2>2. genuine_residual(report)
      BY DEF genuine_residual
    <2>3. headline(report) = "FAILED"
      BY <2>2 DEF headline
    <2> QED
      BY <2>1, <2>3 DEF exit_code
  <1> QED
    BY <1>1, FindingsInit, FindingsStep, InductiveInvariant, PTL DEF Spec
=============================================================================
