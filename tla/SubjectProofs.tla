--------------------------- MODULE SubjectProofs ---------------------------
(***************************************************************************)
(* What the data-subject check guarantees for every set of surfaces, every *)
(* manifest and every plan, while the controller's deletion may still run. *)
(* The argument rests on Inductive: what the scan in progress has read,    *)
(* decided and left open, and, for each surface the check is past, that    *)
(* its record accounts by number for everything its backend still holds.   *)
(***************************************************************************)
EXTENDS SubjectErasure, FiniteSetTheorems, TLAPS

\* What the check was given for a surface, and the part of it it can look for.
Given(s)   == ids(s) \cup supplied(s)
Checked(s) == ids(s) \cup phrases(s)

\* The surfaces the check is past, and those it has begun.
Visited ==
    IF phase \in {"emit", "done"} THEN {PlanOrder[i] : i \in 1..Len(PlanOrder)}
    ELSE {PlanOrder[i] : i \in 1..(pos - 1)}

Begun == IF phase = "scan" THEN Visited \cup {current} ELSE Visited

Types ==
    /\ asked \in [ErasureSurfaces -> SUBSET Needles]
    /\ repeats \in Nat
    /\ fetches_traces \in BOOLEAN
    /\ held \in [ErasureSurfaces -> SUBSET Needles]
    /\ phase \in {"next", "scan", "emit", "done"}
    /\ pos \in 1..Len(PlanOrder)
    /\ to_read \subseteq Needles /\ present \subseteq Needles /\ undecided \in Nat
    /\ decided \in [ErasureSurfaces -> SUBSET Needles]
    /\ DOMAIN report \subseteq ErasureSurfaces
    /\ \A s \in DOMAIN report : report[s] \in SurfaceErasure(Needles)

\* Every needle of the scan is still to be read, or has been decided, or is one of
\* the reads a full page left open; and one decided as held is kept.
ScanAccounts ==
    IF phase = "scan"
    THEN /\ to_read \subseteq Checked(current)
         /\ present \subseteq Checked(current)
         /\ decided[current] \subseteq Checked(current)
         /\ decided[current] \cap held[current] \subseteq present
         /\ Cardinality((Checked(current) \ to_read) \ decided[current]) <= undecided
         /\ undecided # 0 => current = Vector
         /\ ~Readable => present = {}
    ELSE to_read = {} /\ present = {} /\ undecided = 0

\* A surface not begun has no decision, no record and no shortfall on file.
Untouched ==
    /\ \A s \in ErasureSurfaces \ Begun : decided[s] = {}
    /\ DOMAIN report \subseteq Visited
    /\ DOMAIN unverifiable \subseteq Begun

\* The phrases that cannot be verified are the model's, and they are all on file.
ShortfallOnFile ==
    /\ \A s \in DOMAIN unverifiable :
          s = Model /\ phrases(s) # supplied(s) /\ unverifiable[s] = Shortfall(s)
    /\ \A s \in Begun : phrases(s) # supplied(s) => s \in DOMAIN unverifiable

open(s)   == IF s \in DOMAIN report THEN report[s].unverifiable ELSE 0
unable(s) == IF s \in DOMAIN unverifiable THEN unverifiable[s] ELSE 0
kept(s)   == IF s \in DOMAIN report THEN report[s].residual ELSE {}

\* The record of a surface accounts for everything its backend still holds.
Accounted ==
    \A s \in Visited :
        s \in DOMAIN report \cup DOMAIN unverifiable =>
            Cardinality((held[s] \cap Given(s)) \ kept(s)) <= open(s) + unable(s)

\* A record is post-hoc of a backend that can erase, and one with phrases it could
\* not verify shows a residual or an open count.
RecordsPostHoc ==
    \A s \in DOMAIN report :
        /\ report[s].supported /\ ~report[s].baselineObserved
        /\ s \in DOMAIN unverifiable => report[s].residual # {} \/ report[s].unverifiable > 0

\* Whatever the check is past has its record, or the reason it has none.
EveryoneAnswered ==
    \A s \in Visited :
        Given(s) # {} =>
            \/ s \in DOMAIN report
            \/ s = Tracing /\ ~fetches_traces
            \/ s \in DOMAIN unverifiable

FindingsAreResiduals ==
    findings = {x \in ErasureSurfaces \X Needles : x[1] \in DOMAIN report /\ x[2] \in kept(x[1])}

ExitFollowsReport ==
    IF phase = "done" THEN exit = exit_code(report) ELSE exit = None

Inductive ==
    /\ Types
    /\ ScanAccounts
    /\ Untouched
    /\ ShortfallOnFile
    /\ Accounted
    /\ RecordsPostHoc
    /\ EveryoneAnswered
    /\ FindingsAreResiduals
    /\ ExitFollowsReport

-----------------------------------------------------------------------------
(* The plan and the sets of needles. *)

LEMMA PlanLength == Len(PlanOrder) \in Nat /\ 1 \in 1..Len(PlanOrder)
  <1>1. Len(PlanOrder) \in Nat
    BY PlanAssumed
  <1>2. PICK i \in 1..Len(PlanOrder) : PlanOrder[i] = Vector
    BY PlanAssumed, SubjectSurfacesAssumed
  <1> QED
    BY <1>1, <1>2

\* The surface in progress is a surface of the plan.
LEMMA CurrentIsSurface == Types => current \in ErasureSurfaces /\ current \in ById \cup ByContent
  BY PlanAssumed, SubjectSurfacesAssumed DEF Types, current

\* The surface in progress has not been visited.
LEMMA CurrentUnvisited ==
    ASSUME Types, phase \in {"next", "scan"} PROVE current \notin Visited
  <1>1. pos \in 1..Len(PlanOrder) /\ Len(PlanOrder) \in Nat
    BY PlanLength DEF Types
  <1>2. ASSUME NEW i \in 1..(pos - 1) PROVE PlanOrder[i] # PlanOrder[pos]
    <2>1. i \in 1..Len(PlanOrder) /\ i # pos
      BY <1>1
    <2> QED
      BY <1>1, <2>1, PlanAssumed
  <1> QED
    BY <1>2 DEF Visited, current

\* Moving on visits the surface in progress.
LEMMA AdvanceEffect ==
    ASSUME Types, phase \in {"next", "scan"}, Advance
    PROVE  /\ Visited' = Visited \cup {current}
           /\ Begun' = Visited'
           /\ pos' \in 1..Len(PlanOrder)
           /\ phase' \in {"next", "emit"}
  <1>1. pos \in 1..Len(PlanOrder) /\ Len(PlanOrder) \in Nat
    BY PlanLength DEF Types
  <1>2. {PlanOrder[i] : i \in 1..pos} = Visited \cup {current}
    BY <1>1 DEF Visited, current
  <1>3. CASE pos < Len(PlanOrder)
    <2>1. phase' = "next" /\ pos' = pos + 1 /\ pos' - 1 = pos /\ pos' \in 1..Len(PlanOrder)
      BY <1>1, <1>3 DEF Advance
    <2> QED
      BY <1>2, <2>1 DEF Visited, Begun
  <1>4. CASE ~(pos < Len(PlanOrder))
    <2>1. phase' = "emit" /\ pos' = pos /\ pos = Len(PlanOrder)
      BY <1>1, <1>4 DEF Advance
    <2> QED
      BY <1>1, <1>2, <2>1 DEF Visited, Begun
  <1> QED
    BY <1>3, <1>4

\* The sets of needles are finite, so counting any of them gives a number.
LEMMA NeedleCount ==
    ASSUME NEW M \in SUBSET Needles
    PROVE  IsFiniteSet(M) /\ Cardinality(M) \in Nat
  BY FS_Subset, FS_CardinalityType, NeedlesAssumed

LEMMA GivenNeedles ==
    ASSUME Types, NEW s \in ErasureSurfaces
    PROVE  /\ Given(s) \subseteq asked[s] /\ asked[s] \subseteq Needles
           /\ phrases(s) \subseteq supplied(s) /\ supplied(s) \subseteq Needles
           /\ Checked(s) \subseteq Given(s)
           /\ s # Model => phrases(s) = supplied(s)
           /\ ids(s) \cap supplied(s) = {}
  BY NeedlesAssumed DEF Types, Given, Checked, ids, supplied, phrases

\* There is a shortfall exactly when some supplied phrase cannot be verified, and
\* it counts those phrases.
LEMMA ShortfallCounts ==
    ASSUME Types, NEW s \in ErasureSurfaces
    PROVE  /\ Shortfall(s) \in Nat
           /\ Shortfall(s) = Cardinality(supplied(s) \ phrases(s))
           /\ Shortfall(s) = 0 <=> phrases(s) = supplied(s)
  <1>1. phrases(s) \subseteq supplied(s) /\ supplied(s) \subseteq Needles
    BY GivenNeedles
  <1>2. /\ IsFiniteSet(supplied(s)) /\ IsFiniteSet(phrases(s))
        /\ Cardinality(supplied(s)) \in Nat /\ Cardinality(phrases(s)) \in Nat
    BY <1>1, NeedleCount
  <1>3. supplied(s) \cap phrases(s) = phrases(s)
    BY <1>1
  <1>4. Shortfall(s) = Cardinality(supplied(s) \ phrases(s))
    <2>1. Cardinality(supplied(s) \ phrases(s))
             = Cardinality(supplied(s)) - Cardinality(supplied(s) \cap phrases(s))
      BY <1>2, FS_Difference
    <2> QED
      BY <1>3, <2>1 DEF Shortfall
  <1>5. Shortfall(s) \in Nat
    BY <1>1, <1>4, NeedleCount
  <1>6. Shortfall(s) = 0 <=> phrases(s) = supplied(s)
    <2>1. Cardinality(supplied(s)) = Cardinality(phrases(s)) => supplied(s) = phrases(s)
      BY <1>1, <1>2, FS_Subset
    <2> QED
      BY <1>2, <2>1 DEF Shortfall
  <1> QED
    BY <1>4, <1>5, <1>6

\* What is held of the given needles only shrinks while the check runs.
LEMMA FewerHeld ==
    ASSUME Types, NEW S, NEW T, S \subseteq T, T \subseteq Needles
    PROVE  /\ Cardinality(S) \in Nat /\ Cardinality(T) \in Nat
           /\ Cardinality(S) <= Cardinality(T)
  <1>1. IsFiniteSet(T) /\ IsFiniteSet(S) /\ Cardinality(S) \in Nat /\ Cardinality(T) \in Nat
    BY NeedleCount
  <1> QED
    BY <1>1, FS_Subset

-----------------------------------------------------------------------------
(* Counting what a record leaves open. *)

\* A read that raised leaves open whatever was listed and not decided.
LEMMA InterruptedAccounts ==
    ASSUME Types, ScanAccounts, phase = "scan"
    PROVE  /\ Interrupted \in SurfaceErasure(Needles)
           /\ Interrupted.unverifiable > 0
           /\ Cardinality((held[current] \cap Given(current)) \ present)
                 <= Interrupted.unverifiable
  <1> DEFINE D == decided[current]
             A == asked[current]
             S == (held[current] \cap Given(current)) \ present
  <1>1. current \in ErasureSurfaces
    BY CurrentIsSurface
  <1>2. /\ D \subseteq A /\ A \subseteq Needles /\ S \subseteq A \ D
    BY <1>1, GivenNeedles DEF ScanAccounts
  <1>3. /\ Cardinality(D) \in Nat /\ Cardinality(A) \in Nat /\ IsFiniteSet(A)
        /\ Cardinality(S) \in Nat /\ Cardinality(A \ D) \in Nat
        /\ Cardinality(S) <= Cardinality(A \ D)
    BY <1>2, NeedleCount, FewerHeld
  <1>4. Cardinality(A \ D) = Cardinality(A) - Cardinality(D)
    <2>1. A \cap D = D
      BY <1>2
    <2> QED
      BY <1>3, <2>1, FS_Difference
  <1>5. at_stake(current) \in Nat /\ at_stake(current) >= Cardinality(A)
    BY <1>3 DEF at_stake, Types
  <1> DEFINE u == Max2(at_stake(current) - Cardinality(D), 1)
  <1>6. u \in Nat /\ u > 0 /\ u >= Cardinality(S)
    BY <1>3, <1>4, <1>5 DEF Max2
  <1>7. Interrupted = [before |-> A, residual |-> present, supported |-> TRUE,
                       unverifiable |-> u, baselineObserved |-> FALSE]
    BY DEF Interrupted
  <1> HIDE DEF u, S, A
  <1>8. A \in SUBSET Needles /\ present \in SUBSET Needles
    BY <1>2 DEF Types
  <1> QED
    BY <1>6, <1>7, <1>8 DEF SurfaceErasure, S

\* A finished scan leaves open the reads a full page left open, and the phrases it
\* could not verify.
LEMMA CompletedAccounts ==
    ASSUME Types, ScanAccounts, phase = "scan", to_read = {}
    PROVE  /\ Completed \in SurfaceErasure(Needles)
           /\ Cardinality((held[current] \cap Given(current)) \ present)
                 <= undecided + Shortfall(current)
  <1> DEFINE S == (held[current] \cap Given(current)) \ present
             R == Checked(current) \ decided[current]
             U == supplied(current) \ phrases(current)
  <1>1. current \in ErasureSurfaces
    BY CurrentIsSurface
  <1>2. Given(current) \subseteq Needles /\ Checked(current) \subseteq Needles
    BY <1>1, GivenNeedles
  <1>3. R \subseteq Needles /\ U \subseteq Needles /\ S \subseteq R \cup U
    <2>1. \A n \in S : n \in Checked(current) => n \notin decided[current]
      BY DEF ScanAccounts
    <2>2. Given(current) \subseteq Checked(current) \cup U
      BY DEF Given, Checked
    <2>3. U \subseteq Needles
      BY <1>1, GivenNeedles
    <2> QED
      BY <1>2, <2>1, <2>2, <2>3
  <1>4. /\ Cardinality(R) \in Nat /\ Cardinality(U) \in Nat
        /\ IsFiniteSet(R) /\ IsFiniteSet(U)
        /\ Cardinality(R \cap U) \in Nat
    BY <1>3, NeedleCount
  <1>5. Cardinality(R) <= undecided
    <2>1. (Checked(current) \ to_read) \ decided[current] = R
      OBVIOUS
    <2> QED
      BY <2>1 DEF ScanAccounts
  <1>6. Cardinality(R \cup U) <= Cardinality(R) + Cardinality(U)
    <2> HIDE DEF R, U
    <2>1. Cardinality(R \cup U) = Cardinality(R) + Cardinality(U) - Cardinality(R \cap U)
      BY <1>4, FS_Union
    <2> QED
      BY <1>4, <2>1
  <1>7. /\ Cardinality(S) <= Cardinality(R \cup U)
        /\ Cardinality(S) \in Nat /\ Cardinality(R \cup U) \in Nat
    BY <1>3, FewerHeld
  <1>8. Cardinality(U) = Shortfall(current)
    BY <1>1, ShortfallCounts
  <1>9. Cardinality(S) <= undecided + Shortfall(current)
    <2> HIDE DEF S, R, U
    <2> QED
      BY <1>4, <1>5, <1>6, <1>7, <1>8 DEF Types
  <1>10. Completed \in SurfaceErasure(Needles)
    BY <1>1, <1>2 DEF Completed, SurfaceErasure, Types, Checked
  <1> QED
    BY <1>9, <1>10

-----------------------------------------------------------------------------
(* Each step keeps the invariant. *)

\* The manifest does not change under the check.
LEMMA InputsFixed ==
    ASSUME UNCHANGED inputVars
    PROVE  \A s : /\ Given(s)' = Given(s) /\ Checked(s)' = Checked(s)
                 /\ phrases(s)' = phrases(s) /\ supplied(s)' = supplied(s)
                 /\ Shortfall(s)' = Shortfall(s)
  BY DEF inputVars, Given, Checked, ids, supplied, phrases, Shortfall

LEMMA InductiveInit == SubjectInit => Inductive
  <1> SUFFICES ASSUME SubjectInit PROVE Inductive
    OBVIOUS
  <1>1. Types
    <2>1. asked \in [ErasureSurfaces -> SUBSET Needles] /\ repeats \in Nat
      BY ManifestsAssumed, RepeatsAssumed DEF SubjectInit
    <2>2. held \in [ErasureSurfaces -> SUBSET Needles]
      BY DEF SubjectInit
    <2> QED
      BY <2>1, <2>2, PlanLength DEF SubjectInit, Types, EmptyReport
  <1>2. Visited = {} /\ Begun = {}
    BY DEF SubjectInit, Visited, Begun
  <1>3. DOMAIN report = {} /\ DOMAIN unverifiable = {}
    BY DEF SubjectInit, EmptyReport
  <1>4. ScanAccounts /\ ExitFollowsReport
    BY DEF SubjectInit, ScanAccounts, ExitFollowsReport
  <1>5. Untouched
    BY <1>3 DEF SubjectInit, Untouched
  <1>6. ShortfallOnFile /\ Accounted /\ RecordsPostHoc /\ EveryoneAnswered
    BY <1>2, <1>3 DEF ShortfallOnFile, Accounted, RecordsPostHoc, EveryoneAnswered
  <1>7. FindingsAreResiduals
    BY <1>3 DEF SubjectInit, FindingsAreResiduals
  <1> QED
    BY <1>1, <1>4, <1>5, <1>6, <1>7 DEF Inductive

\* The controller's deletion can only make the account of a record more generous.
LEMMA ControllerKeeps == ASSUME Inductive, ControllerDeletes PROVE Inductive'
  <1> USE DEF scanVars
  <1>1. /\ UNCHANGED <<inputVars, phase, pos, to_read, present, undecided, decided, report,
                       unverifiable, findings, exit>>
        /\ Types
    BY DEF ControllerDeletes, Inductive
  <1>2. /\ held' \in [ErasureSurfaces -> SUBSET Needles]
        /\ \A s \in ErasureSurfaces : held'[s] \subseteq held[s]
    BY <1>1 DEF ControllerDeletes, Types
  <1>3. /\ Visited' = Visited /\ Begun' = Begun /\ current' = current
        /\ Readable' = Readable
    BY <1>1 DEF Visited, Begun, current, Readable, inputVars
  <1>4. \A s : open(s)' = open(s) /\ unable(s)' = unable(s) /\ kept(s)' = kept(s)
    BY <1>1 DEF open, unable, kept
  <1>5. Types'
    BY <1>1, <1>2 DEF Types, inputVars
  <1>6. ScanAccounts'
    <2>1. current \in ErasureSurfaces
      BY <1>1, CurrentIsSurface
    <2> QED
      BY <1>1, <1>2, <1>3, <2>1, InputsFixed DEF Inductive, ScanAccounts
  <1>7. Untouched' /\ ShortfallOnFile' /\ EveryoneAnswered'
    BY <1>1, <1>3, InputsFixed DEF Inductive, Untouched, ShortfallOnFile, EveryoneAnswered, inputVars
  <1>8. Accounted'
    <2> SUFFICES ASSUME NEW s \in Visited, s \in DOMAIN report \cup DOMAIN unverifiable
                 PROVE  Cardinality((held'[s] \cap Given(s)) \ kept(s)) <= open(s) + unable(s)
      BY <1>1, <1>3, <1>4, InputsFixed DEF Accounted
    <2> DEFINE T == (held[s] \cap Given(s)) \ kept(s)
               S == (held'[s] \cap Given(s)) \ kept(s)
    <2>1. s \in ErasureSurfaces
      <3>1. DOMAIN unverifiable \subseteq {Model}
        BY DEF Inductive, ShortfallOnFile
      <3> QED
        BY <1>1, <3>1, SubjectSurfacesAssumed DEF Types
    <2>2. S \subseteq T /\ T \subseteq Needles
      BY <1>1, <1>2, <2>1, GivenNeedles
    <2>3. Cardinality(S) \in Nat /\ Cardinality(T) \in Nat /\ Cardinality(S) <= Cardinality(T)
      BY <1>1, <2>2, FewerHeld
    <2>4. Cardinality(T) <= open(s) + unable(s)
      BY DEF Inductive, Accounted
    <2>5. open(s) \in Nat /\ unable(s) \in Nat
      <3>1. open(s) \in Nat
        BY <1>1 DEF Types, open, SurfaceErasure
      <3>2. unable(s) \in Nat
        BY <1>1, <2>1, ShortfallCounts DEF Inductive, ShortfallOnFile, unable
      <3> QED
        BY <3>1, <3>2
    <2> HIDE DEF S, T
    <2>6. Cardinality(S) <= open(s) + unable(s)
      BY <2>3, <2>4, <2>5
    <2> QED
      BY <2>6 DEF S
  <1>9. RecordsPostHoc' /\ FindingsAreResiduals' /\ ExitFollowsReport'
    BY <1>1, <1>4 DEF Inductive, RecordsPostHoc, FindingsAreResiduals, ExitFollowsReport
  <1> QED
    BY <1>5, <1>6, <1>7, <1>8, <1>9 DEF Inductive

\* Reading a needle moves it from the unread to the decided or to the open ones.
LEMMA ReadKeeps == ASSUME Inductive, ReadNeedle PROVE Inductive'
  <1>1. /\ UNCHANGED <<inputVars, held, phase, pos, report, unverifiable, findings, exit>>
        /\ Types /\ ScanAccounts /\ phase = "scan" /\ Readable
        /\ current \in ErasureSurfaces
    BY CurrentIsSurface DEF ReadNeedle, Inductive
  <1>2. /\ Visited' = Visited /\ Begun' = Begun /\ current' = current
        /\ Readable' = Readable
    BY <1>1 DEF Visited, Begun, current, Readable, inputVars
  <1>3. PICK n \in to_read :
            /\ to_read' = to_read \ {n}
            /\ \/ /\ n \in held[current]
                  /\ present' = present \cup {n}
                  /\ decided' = [decided EXCEPT ![current] = @ \cup {n}]
                  /\ UNCHANGED undecided
               \/ /\ n \notin held[current]
                  /\ decided' = [decided EXCEPT ![current] = @ \cup {n}]
                  /\ UNCHANGED <<present, undecided>>
               \/ /\ current = Vector /\ n \in Phrases
                  /\ undecided' = undecided + 1
                  /\ UNCHANGED <<present, decided>>
    BY DEF ReadNeedle, NextNeedle
  <1>4. n \in Checked(current) /\ n \in Needles
    BY <1>1, <1>3 DEF ScanAccounts, Types
  <1>5. /\ decided' \in [ErasureSurfaces -> SUBSET Needles]
        /\ decided'[current] \in {decided[current], decided[current] \cup {n}}
        /\ \A s \in ErasureSurfaces \ {current} : decided'[s] = decided[s]
    BY <1>1, <1>3, <1>4 DEF Types
  <1>6. present' \subseteq Checked(current) /\ present' \subseteq Needles /\ undecided' \in Nat
    BY <1>1, <1>3, <1>4 DEF ScanAccounts, Types
  <1>7. Types'
    BY <1>1, <1>3, <1>5, <1>6 DEF Types, inputVars
  <1>8. Cardinality((Checked(current) \ to_read') \ decided'[current]) <= undecided'
    <2> DEFINE O == (Checked(current) \ to_read) \ decided[current]
               P == (Checked(current) \ to_read') \ decided'[current]
    <2>1. O \subseteq Needles
      BY <1>1, GivenNeedles
    <2>2. IsFiniteSet(O) /\ Cardinality(O) \in Nat /\ Cardinality(O) <= undecided
      BY <1>1, <2>1, NeedleCount DEF ScanAccounts
    <2>3. CASE decided'[current] = decided[current] \cup {n} /\ undecided' = undecided
      <3>1. P \subseteq O
        BY <1>3, <2>3
      <3>2. Cardinality(P) <= Cardinality(O) /\ Cardinality(P) \in Nat
        BY <1>1, <2>1, <3>1, FewerHeld
      <3> HIDE DEF O, P
      <3>3. Cardinality(P) <= undecided'
        BY <1>1, <2>2, <2>3, <3>2 DEF Types
      <3> QED
        BY <3>3 DEF P
    <2>4. CASE undecided' = undecided + 1 /\ UNCHANGED decided
      <3>1. P \subseteq O \cup {n} /\ O \cup {n} \subseteq Needles
        BY <1>3, <1>4, <2>1, <2>4
      <3>2. Cardinality(O \cup {n}) <= Cardinality(O) + 1
        <4> HIDE DEF O
        <4>1. Cardinality(O \cup {n}) = IF n \in O THEN Cardinality(O) ELSE Cardinality(O) + 1
          BY <2>2, FS_AddElement
        <4> QED
          BY <2>2, <4>1
      <3>3. /\ Cardinality(P) <= Cardinality(O \cup {n})
            /\ Cardinality(P) \in Nat /\ Cardinality(O \cup {n}) \in Nat
        BY <1>1, <3>1, FewerHeld
      <3> HIDE DEF O, P
      <3>4. Cardinality(P) <= undecided'
        BY <1>1, <2>2, <2>4, <3>2, <3>3 DEF Types
      <3> QED
        BY <3>4 DEF P
    <2>5. \/ decided'[current] = decided[current] \cup {n} /\ undecided' = undecided
          \/ undecided' = undecided + 1 /\ UNCHANGED decided
      BY <1>1, <1>3 DEF Types
    <2> QED
      BY <2>3, <2>4, <2>5
  <1>9. ScanAccounts'
    <2>1. to_read' \subseteq Checked(current) /\ decided'[current] \subseteq Checked(current)
      BY <1>1, <1>3, <1>4, <1>5 DEF ScanAccounts
    <2>2. decided'[current] \cap held'[current] \subseteq present'
      BY <1>1, <1>3, <1>5 DEF ScanAccounts, Types
    <2>3. undecided' # 0 => current = Vector
      BY <1>1, <1>3 DEF ScanAccounts
    <2>4. phase' = "scan" /\ Readable' /\ Checked(current)' = Checked(current)
      BY <1>1, <1>2, InputsFixed
    <2> QED
      BY <1>2, <1>6, <1>8, <2>1, <2>2, <2>3, <2>4 DEF ScanAccounts
  <1>10. Untouched'
    <2>1. current \in Begun
      BY <1>1 DEF Begun
    <2> QED
      BY <1>1, <1>2, <1>5, <2>1 DEF Inductive, Untouched
  <1>11. \A s : open(s)' = open(s) /\ unable(s)' = unable(s) /\ kept(s)' = kept(s)
    BY <1>1 DEF open, unable, kept
  <1>12. ShortfallOnFile' /\ Accounted' /\ EveryoneAnswered'
    BY <1>1, <1>2, <1>11, InputsFixed
       DEF Inductive, ShortfallOnFile, Accounted, EveryoneAnswered, inputVars
  <1>13. RecordsPostHoc' /\ FindingsAreResiduals' /\ ExitFollowsReport'
    BY <1>1, <1>11 DEF Inductive, RecordsPostHoc, FindingsAreResiduals, ExitFollowsReport
  <1> QED
    BY <1>7, <1>9, <1>10, <1>12, <1>13 DEF Inductive

\* The phrases of the surface in progress that cannot be verified are on file.
ShortfallEntered ==
    /\ DOMAIN unverifiable' \subseteq DOMAIN unverifiable \cup {current}
    /\ \A s \in DOMAIN unverifiable :
          s \in DOMAIN unverifiable' /\ unverifiable'[s] = unverifiable[s]
    /\ current \in DOMAIN unverifiable' <=> phrases(current) # supplied(current)
    /\ current \in DOMAIN unverifiable' => unverifiable'[current] = Shortfall(current)

\* The surface in progress is left without a record: nothing was seen, and what its
\* backend may still hold is on file as a shortfall.
LeavesNone ==
    /\ UNCHANGED report
    /\ present = {}
    /\ current \in DOMAIN unverifiable'
          => Cardinality(held[current] \cap Given(current)) <= Shortfall(current)
    /\ Given(current) # {} => \/ current = Tracing /\ ~fetches_traces
                              \/ current \in DOMAIN unverifiable'

\* It is left with record r, which accounts for what its backend holds.
Leaves(r) ==
    /\ Recorded(r)
    /\ r.supported /\ ~r.baselineObserved /\ r.residual = present
    /\ Cardinality((held[current] \cap Given(current)) \ present)
          <= r.unverifiable + (IF current \in DOMAIN unverifiable' THEN Shortfall(current) ELSE 0)
    /\ current \in DOMAIN unverifiable' => present # {} \/ r.unverifiable > 0

\* The surface in progress is left with a record of it, or with the reason for none.
LEMMA LeaveKeeps ==
    ASSUME Inductive, phase \in {"next", "scan"}, Advance,
           UNCHANGED <<inputVars, held, decided, exit>>,
           ScanOver, Flushed, ShortfallEntered,
           LeavesNone \/ \E r \in SurfaceErasure(Needles) : Leaves(r)
    PROVE  Inductive'
  <1>1. /\ Types /\ current \in ErasureSurfaces /\ current \notin Visited
        /\ current \notin DOMAIN report
        /\ Visited' = Visited \cup {current} /\ Begun' = Visited'
        /\ pos' \in 1..Len(PlanOrder) /\ phase' \in {"next", "emit"}
    BY CurrentIsSurface, CurrentUnvisited, AdvanceEffect DEF Inductive, Untouched
  <1>2. /\ DOMAIN report' \subseteq DOMAIN report \cup {current}
        /\ \A s \in DOMAIN report : s \in DOMAIN report' /\ report'[s] = report[s]
        /\ \A s \in DOMAIN report' : report'[s] \in SurfaceErasure(Needles)
    <2>1. CASE LeavesNone
      BY <1>1, <2>1 DEF LeavesNone, Types
    <2>2. ASSUME NEW r \in SurfaceErasure(Needles), Leaves(r)
          PROVE  /\ DOMAIN report' = DOMAIN report \cup {current}
                 /\ report'[current] = r
                 /\ \A s \in DOMAIN report : report'[s] = report[s]
      BY <1>1, <2>2 DEF Leaves, Recorded
    <2> QED
      BY <1>1, <2>1, <2>2 DEF Types
  <1> USE DEF ShortfallEntered
  <1>3. LeavesNone \/ \E r \in SurfaceErasure(Needles) : Leaves(r)
    OBVIOUS
  <1>4. PICK c \in ErasureSurfaces : c = current
    BY <1>1
  <1>5. Types'
    BY <1>1, <1>2 DEF Types, inputVars, ScanOver
  <1>6. ScanAccounts'
    BY <1>1 DEF ScanAccounts, ScanOver
  <1>7. Begun \subseteq Visited' /\ Visited \subseteq Begun
    BY <1>1 DEF Begun
  <1>8. Untouched'
    <2>1. \A s \in ErasureSurfaces \ Begun' : decided'[s] = {}
      BY <1>1, <1>7 DEF Inductive, Untouched
    <2>2. DOMAIN report' \subseteq Visited'
      BY <1>1, <1>2 DEF Inductive, Untouched
    <2>3. DOMAIN unverifiable' \subseteq Begun'
      BY <1>1, <1>7 DEF Inductive, Untouched
    <2> QED
      BY <2>1, <2>2, <2>3 DEF Untouched
  <1>9. ShortfallOnFile'
    <2>1. \A s \in DOMAIN unverifiable' :
              s = Model /\ phrases(s) # supplied(s) /\ unverifiable'[s] = Shortfall(s)
      BY <1>1, GivenNeedles DEF Inductive, ShortfallOnFile
    <2>2. \A s \in Begun' : phrases(s) # supplied(s) => s \in DOMAIN unverifiable'
      BY <1>1, <1>7 DEF Inductive, ShortfallOnFile
    <2> QED
      BY <2>1, <2>2, InputsFixed DEF ShortfallOnFile
  <1>10. \A s \in Visited :
                           /\ s # current
                           /\ s \in DOMAIN report' <=> s \in DOMAIN report
                           /\ s \in DOMAIN unverifiable' <=> s \in DOMAIN unverifiable
                           /\ open(s)' = open(s) /\ unable(s)' = unable(s) /\ kept(s)' = kept(s)
    BY <1>1, <1>2 DEF open, unable, kept
  <1>11. Accounted'
    <2>1. ASSUME NEW s \in Visited, s \in DOMAIN report' \cup DOMAIN unverifiable'
          PROVE  Cardinality((held[s] \cap Given(s)) \ kept(s)') <= open(s)' + unable(s)'
      BY <1>10, <2>1 DEF Inductive, Accounted
    <2>2. ASSUME current \in DOMAIN report' \cup DOMAIN unverifiable'
          PROVE  Cardinality((held[current] \cap Given(current)) \ kept(c)')
                    <= open(c)' + unable(c)'
      <3>1. unable(c)' = IF current \in DOMAIN unverifiable' THEN Shortfall(current) ELSE 0
        BY <1>4 DEF unable
      <3>2. CASE LeavesNone
        <4>1. current \notin DOMAIN report' /\ current \in DOMAIN unverifiable'
          BY <1>1, <2>2, <3>2 DEF LeavesNone
        <4>2. open(c)' = 0 /\ kept(c)' = {}
          BY <1>4, <4>1 DEF open, kept
        <4>3. (held[current] \cap Given(current)) \ {} = held[current] \cap Given(current)
          OBVIOUS
        <4>4. Cardinality(held[current] \cap Given(current)) <= Shortfall(current)
          BY <3>2, <4>1 DEF LeavesNone
        <4>5. Shortfall(current) \in Nat
          BY <1>1, ShortfallCounts
        <4>6. unable(c)' = Shortfall(current)
          BY <3>1, <4>1
        <4> QED
          BY <4>2, <4>3, <4>4, <4>5, <4>6
      <3>3. ASSUME NEW r \in SurfaceErasure(Needles), Leaves(r)
            PROVE  Cardinality((held[current] \cap Given(current)) \ kept(c)')
                      <= open(c)' + unable(c)'
        <4>1. open(c)' = r.unverifiable /\ kept(c)' = present
          BY <1>4, <3>3 DEF Leaves, Recorded, open, kept
        <4> QED
          BY <3>1, <3>3, <4>1 DEF Leaves
      <3> QED
        BY <1>3, <3>2, <3>3
    <2>3. \A s : Given(s)' = Given(s)
      BY InputsFixed
    <2> QED
      BY <1>1, <1>4, <2>1, <2>2, <2>3 DEF Accounted
  <1>12. RecordsPostHoc'
    <2>1. ASSUME NEW s \in DOMAIN report
          PROVE  /\ report'[s].supported /\ ~report'[s].baselineObserved
                 /\ s \in DOMAIN unverifiable'
                       => report'[s].residual # {} \/ report'[s].unverifiable > 0
      BY <1>1, <1>2 DEF Inductive, RecordsPostHoc
    <2>2. ASSUME current \in DOMAIN report'
          PROVE  /\ report'[current].supported /\ ~report'[current].baselineObserved
                 /\ current \in DOMAIN unverifiable'
                       => report'[current].residual # {} \/ report'[current].unverifiable > 0
      <3>1. PICK r \in SurfaceErasure(Needles) : Leaves(r)
        BY <1>1, <2>2 DEF LeavesNone
      <3>2. report'[current] = r
        BY <3>1 DEF Leaves, Recorded
      <3> QED
        BY <3>1, <3>2 DEF Leaves
    <2> QED
      BY <1>2, <2>1, <2>2 DEF RecordsPostHoc
  <1>13. EveryoneAnswered'
    <2>1. Given(current) # {} => \/ current \in DOMAIN report'
                                 \/ current = Tracing /\ ~fetches_traces
                                 \/ current \in DOMAIN unverifiable'
      <3>1. CASE LeavesNone
        BY <3>1 DEF LeavesNone
      <3>2. CASE \E r \in SurfaceErasure(Needles) : Leaves(r)
        BY <3>2 DEF Leaves, Recorded
      <3> QED
        BY <1>3, <3>1, <3>2
    <2>2. \A s \in Visited :
              Given(s) # {} => \/ s \in DOMAIN report'
                               \/ s = Tracing /\ ~fetches_traces
                               \/ s \in DOMAIN unverifiable'
      BY <1>10 DEF Inductive, EveryoneAnswered
    <2> QED
      BY <1>1, <2>1, <2>2, InputsFixed DEF EveryoneAnswered, inputVars
  <1>14. FindingsAreResiduals'
    <2>1. findings' = findings \cup {<<current, n>> : n \in present}
      BY DEF Flushed
    <2>2. \A s \in DOMAIN report : s \in DOMAIN report' /\ kept(s)' = kept(s)
      BY <1>2 DEF kept
    <2>3. IF current \in DOMAIN report' THEN kept(c)' = present ELSE present = {}
      <3>1. CASE LeavesNone
        BY <1>1, <3>1 DEF LeavesNone
      <3>2. ASSUME NEW r \in SurfaceErasure(Needles), Leaves(r)
            PROVE  current \in DOMAIN report' /\ kept(c)' = present
        BY <1>4, <3>2 DEF Leaves, Recorded, kept
      <3> QED
        BY <3>1, <3>2
    <2>4. present \subseteq Needles /\ findings \subseteq ErasureSurfaces \X Needles
      BY <1>1 DEF Types, Inductive, FindingsAreResiduals
    <2> DEFINE F == {x \in ErasureSurfaces \X Needles :
                        x[1] \in DOMAIN report' /\ x[2] \in kept(x[1])'}
    <2>5. \A x \in findings' : x \in F
      BY <1>1, <1>4, <1>2, <2>1, <2>2, <2>3, <2>4 DEF Inductive, FindingsAreResiduals
    <2>6. ASSUME NEW x \in F PROVE x \in findings'
      <3>1. PICK s \in ErasureSurfaces, n \in Needles : x = <<s, n>>
        OBVIOUS
      <3>2. CASE s = current
        BY <1>4, <2>1, <2>3, <3>1, <3>2
      <3>3. CASE s # current
        <4>1. s \in DOMAIN report /\ n \in kept(s)
          BY <1>2, <2>2, <3>1, <3>3
        <4> QED
          BY <2>1, <3>1, <4>1 DEF Inductive, FindingsAreResiduals
      <3> QED
        BY <3>2, <3>3
    <2> HIDE DEF F
    <2>7. findings' = F
      BY <2>5, <2>6 DEF F
    <2> QED
      BY <2>7 DEF FindingsAreResiduals, F
  <1>15. ExitFollowsReport'
    BY <1>1 DEF Inductive, ExitFollowsReport
  <1> QED
    BY <1>5, <1>6, <1>8, <1>9, <1>11, <1>12, <1>13, <1>14, <1>15 DEF Inductive

\* Nothing new is entered for a surface in the middle of its scan.
LEMMA ScanKeepsShortfall ==
    ASSUME Inductive, phase = "scan", UNCHANGED unverifiable
    PROVE  /\ ShortfallEntered
           /\ (current \in DOMAIN unverifiable => current = Model)
           /\ current \notin DOMAIN unverifiable => Shortfall(current) = 0
           /\ Types /\ ScanAccounts /\ current \in ErasureSurfaces
  <1>1. Types /\ ScanAccounts /\ current \in ErasureSurfaces /\ current \in Begun
    BY CurrentIsSurface DEF Inductive, Begun
  <1>2. Shortfall(current) = 0 <=> phrases(current) = supplied(current)
    BY <1>1, ShortfallCounts
  <1>3. /\ current \in DOMAIN unverifiable
              => current = Model /\ unverifiable[current] = Shortfall(current)
        /\ phrases(current) # supplied(current) => current \in DOMAIN unverifiable
    BY <1>1 DEF Inductive, ShortfallOnFile
  <1>4. ShortfallEntered
    BY <1>3 DEF Inductive, ShortfallOnFile, ShortfallEntered
  <1> QED
    BY <1>1, <1>2, <1>3, <1>4

\* Beginning a surface, or skipping it.
LEMMA StartKeeps == ASSUME Inductive, StartSurface PROVE Inductive'
  <1> USE DEF inputVars
  <1>1. /\ Types /\ phase = "next" /\ current \in ErasureSurfaces /\ current \notin Visited
        /\ Begun = Visited /\ to_read = {} /\ present = {} /\ undecided = 0
        /\ decided[current] = {} /\ current \notin DOMAIN unverifiable
        /\ UNCHANGED <<inputVars, held, present, undecided, decided, report, findings, exit>>
        /\ to_read' = Checked(current)
    BY CurrentIsSurface, CurrentUnvisited
       DEF StartSurface, Inductive, ScanAccounts, Untouched, Begun, Checked
  <1>2. Checked(current) \subseteq Given(current) /\ Given(current) \subseteq Needles
    BY <1>1, GivenNeedles
  <1>3. ShortfallEntered
    <2>1. Shortfall(current) = 0 <=> phrases(current) = supplied(current)
      BY <1>1, ShortfallCounts
    <2> QED
      BY <1>1, <2>1 DEF StartSurface, ShortfallEntered
  <1>4. CASE Checked(current) = {}
    <2>1. Advance /\ ScanOver /\ Flushed
      BY <1>1, <1>4 DEF StartSurface, ScanOver, Flushed
    <2>2. ids(current) = {} /\ phrases(current) = {} /\ Given(current) = supplied(current)
      BY <1>4 DEF Checked, Given
    <2>3. Cardinality(held[current] \cap Given(current)) <= Shortfall(current)
      <3> DEFINE S == held[current] \cap Given(current)
                 U == supplied(current) \ phrases(current)
      <3>1. S \subseteq U /\ U \subseteq Needles
        BY <1>2, <2>2
      <3>2. Cardinality(S) <= Cardinality(U)
        BY <1>1, <3>1, FewerHeld
      <3>3. Cardinality(U) = Shortfall(current)
        BY <1>1, ShortfallCounts
      <3> QED
        BY <3>2, <3>3
    <2>4. Given(current) # {} => current \in DOMAIN unverifiable'
      BY <1>3, <2>2 DEF ShortfallEntered
    <2>5. LeavesNone
      BY <1>1, <2>3, <2>4 DEF LeavesNone
    <2> QED
      BY <1>1, <1>3, <2>1, <2>5, LeaveKeeps
  <1>5. CASE Checked(current) # {}
    <2>1. phase' = "scan" /\ pos' = pos
      BY <1>1, <1>5 DEF StartSurface
    <2>2. /\ current' = current /\ Visited' = Visited /\ Begun' = Visited \cup {current}
          /\ Readable' = Readable
      BY <1>1, <2>1 DEF current, Visited, Begun, Readable
    <2>3. Types'
      BY <1>1, <1>2, <2>1 DEF Types
    <2>4. ScanAccounts'
      <3>1. (Checked(current) \ to_read') \ decided'[current] = {}
        BY <1>1
      <3>2. Cardinality((Checked(current) \ to_read') \ decided'[current]) = 0
        BY <3>1, FS_EmptySet
      <3>3. Checked(current)' = Checked(current)
        BY <1>1, <2>2, InputsFixed
      <3> QED
        BY <1>1, <2>1, <2>2, <3>2, <3>3 DEF ScanAccounts
    <2>5. Untouched' /\ ShortfallOnFile'
      <3>1. Untouched'
        BY <1>1, <1>3, <2>2 DEF Inductive, Untouched, ShortfallEntered
      <3>2. \A s \in DOMAIN unverifiable' :
              s = Model /\ phrases(s) # supplied(s) /\ unverifiable'[s] = Shortfall(s)
        BY <1>1, <1>3, GivenNeedles DEF Inductive, ShortfallOnFile, ShortfallEntered
      <3>3. \A s \in Begun' : phrases(s) # supplied(s) => s \in DOMAIN unverifiable'
        BY <1>1, <1>3, <2>2 DEF Inductive, ShortfallOnFile, ShortfallEntered
      <3> QED
        BY <1>1, <3>1, <3>2, <3>3, InputsFixed DEF ShortfallOnFile
    <2>6. \A s \in Visited :
              /\ s # current
              /\ s \in DOMAIN unverifiable' <=> s \in DOMAIN unverifiable
              /\ open(s)' = open(s) /\ unable(s)' = unable(s) /\ kept(s)' = kept(s)
      BY <1>1, <1>3 DEF open, unable, kept, ShortfallEntered
    <2>7. Accounted' /\ EveryoneAnswered'
      BY <1>1, <2>2, <2>6, InputsFixed DEF Inductive, Accounted, EveryoneAnswered
    <2>8. RecordsPostHoc'
      BY <1>1, <2>6 DEF Inductive, RecordsPostHoc, Untouched
    <2>9. FindingsAreResiduals' /\ ExitFollowsReport'
      BY <1>1, <2>1 DEF Inductive, FindingsAreResiduals, ExitFollowsReport, kept
    <2> QED
      BY <2>3, <2>4, <2>5, <2>7, <2>8, <2>9 DEF Inductive
  <1> QED
    BY <1>4, <1>5

\* The three ways a scan ends.
LEMMA ScanEndKeeps == ASSUME Inductive, NoTraceFetch \/ ReadRaises \/ ScanDone PROVE Inductive'
  <1>1. /\ phase = "scan" /\ Advance /\ ScanOver /\ Flushed
        /\ UNCHANGED <<inputVars, held, decided, unverifiable, exit>>
    BY DEF NoTraceFetch, ReadRaises, ScanDone
  <1>2. /\ ShortfallEntered
        /\ (current \in DOMAIN unverifiable => current = Model)
        /\ current \notin DOMAIN unverifiable => Shortfall(current) = 0
        /\ Types /\ ScanAccounts /\ current \in ErasureSurfaces
        /\ Shortfall(current) \in Nat
    BY <1>1, ScanKeepsShortfall, ShortfallCounts
  <1>3. LeavesNone \/ \E r \in SurfaceErasure(Needles) : Leaves(r)
    <2>1. CASE NoTraceFetch
      <3>1. UNCHANGED report /\ ~Readable
        BY <2>1 DEF NoTraceFetch
      <3>2. present = {} /\ current = Tracing /\ ~fetches_traces
        BY <1>1, <1>2, <3>1 DEF ScanAccounts, Readable
      <3>3. current \notin DOMAIN unverifiable
        BY <1>2, <3>2, SubjectSurfacesAssumed
      <3> QED
        BY <1>1, <3>1, <3>2, <3>3 DEF LeavesNone
    <2>2. CASE ReadRaises
      <3>1. /\ Interrupted \in SurfaceErasure(Needles) /\ Interrupted.unverifiable > 0
            /\ Cardinality((held[current] \cap Given(current)) \ present)
                  <= Interrupted.unverifiable
        BY <1>1, <1>2, InterruptedAccounts
      <3>2. /\ Interrupted.supported /\ ~Interrupted.baselineObserved
            /\ Interrupted.residual = present
        BY DEF Interrupted
      <3>3. Interrupted.unverifiable \in Nat
        BY <3>1 DEF SurfaceErasure
      <3>4. Cardinality((held[current] \cap Given(current)) \ present) \in Nat
        BY <1>2, GivenNeedles, NeedleCount
      <3>5. Recorded(Interrupted)
        BY <2>2 DEF ReadRaises
      <3>6. Cardinality((held[current] \cap Given(current)) \ present)
              <= Interrupted.unverifiable
                   + (IF current \in DOMAIN unverifiable' THEN Shortfall(current) ELSE 0)
        BY <1>2, <3>1, <3>3, <3>4
      <3>7. Leaves(Interrupted)
        BY <3>1, <3>2, <3>5, <3>6 DEF Leaves
      <3> QED
        BY <3>1, <3>7
    <2>3. CASE ScanDone
      <3>1. /\ Completed \in SurfaceErasure(Needles)
            /\ Cardinality((held[current] \cap Given(current)) \ present)
                  <= undecided + Shortfall(current)
        BY <1>1, <1>2, <2>3, CompletedAccounts DEF ScanDone
      <3>2. CASE current = Model /\ present = {} /\ Model \in DOMAIN unverifiable
        <4>1. undecided = 0
          BY <1>1, <1>2, <3>2, SubjectSurfacesAssumed DEF ScanAccounts
        <4>2. (held[current] \cap Given(current)) \ present = held[current] \cap Given(current)
          BY <3>2
        <4>3. Cardinality(held[current] \cap Given(current)) <= Shortfall(current)
          BY <1>2, <3>1, <4>1, <4>2
        <4> QED
          BY <1>1, <2>3, <3>2, <4>3 DEF ScanDone, LeavesNone
      <3>3. CASE ~(current = Model /\ present = {} /\ Model \in DOMAIN unverifiable)
        <4>1. Recorded(Completed)
          BY <2>3, <3>3 DEF ScanDone
        <4>2. /\ Completed.supported /\ ~Completed.baselineObserved
              /\ Completed.residual = present /\ Completed.unverifiable = undecided
          BY DEF Completed
        <4>3. Cardinality((held[current] \cap Given(current)) \ present)
                <= undecided + (IF current \in DOMAIN unverifiable' THEN Shortfall(current) ELSE 0)
          BY <1>1, <1>2, <3>1
        <4>4. current \in DOMAIN unverifiable' => present # {}
          BY <1>1, <1>2, <3>3
        <4>5. Leaves(Completed)
          BY <4>1, <4>2, <4>3, <4>4 DEF Leaves
        <4> QED
          BY <3>1, <4>5
      <3> QED
        BY <3>2, <3>3
    <2> QED
      BY <2>1, <2>2, <2>3
  <1> QED
    BY <1>1, <1>2, <1>3, LeaveKeeps

\* The command reports and exits.
LEMMA EmitKeeps == ASSUME Inductive, Emit \/ UNCHANGED subjectVars PROVE Inductive'
  <1>1. /\ UNCHANGED <<inputVars, held, pos, to_read, present, undecided, decided, report,
                       unverifiable, findings>>
        /\ \/ phase = "emit" /\ phase' = "done" /\ exit' = exit_code(report)
           \/ UNCHANGED <<phase, exit>>
    BY DEF Emit, subjectVars, inputVars, scanVars
  <1>2. /\ Visited' = Visited /\ Begun' = Begun /\ current' = current /\ Readable' = Readable
    BY <1>1 DEF Visited, Begun, current, Readable, inputVars
  <1>3. \A s : open(s)' = open(s) /\ unable(s)' = unable(s) /\ kept(s)' = kept(s)
    BY <1>1 DEF open, unable, kept
  <1>4. Types' /\ Untouched'
    BY <1>1, <1>2 DEF Inductive, Types, Untouched, inputVars
  <1>5. ScanAccounts'
    BY <1>1, <1>2, InputsFixed DEF Inductive, ScanAccounts
  <1>6. ShortfallOnFile' /\ Accounted' /\ EveryoneAnswered'
    BY <1>1, <1>2, <1>3, InputsFixed
       DEF Inductive, ShortfallOnFile, Accounted, EveryoneAnswered, inputVars
  <1>7. RecordsPostHoc' /\ FindingsAreResiduals'
    BY <1>1, <1>3 DEF Inductive, RecordsPostHoc, FindingsAreResiduals
  <1>8. ExitFollowsReport'
    BY <1>1 DEF Inductive, ExitFollowsReport
  <1> QED
    BY <1>4, <1>5, <1>6, <1>7, <1>8 DEF Inductive

\* The invariant the theorems below rest on.
THEOREM CheckInductive == SubjectSpec => []Inductive
  <1>1. Inductive /\ [SubjectNext]_subjectVars => Inductive'
    BY ControllerKeeps, ReadKeeps, StartKeeps, ScanEndKeeps, EmitKeeps DEF SubjectNext
  <1> QED
    BY <1>1, InductiveInit, PTL DEF SubjectSpec

-----------------------------------------------------------------------------
(* The properties of the check. *)

\* When the command has exited, every surface of the plan has been visited.
LEMMA ExitedAfterAll ==
    ASSUME Inductive, exit # None
    PROVE  /\ phase = "done" /\ exit = exit_code(report)
           /\ Visited = ById \cup ByContent
           /\ DOMAIN report \subseteq ErasureSurfaces
           /\ \A s \in DOMAIN report : report[s] \in SurfaceErasure(Needles)
  <1>1. phase = "done" /\ exit = exit_code(report)
    BY DEF Inductive, ExitFollowsReport
  <1>2. Visited = ById \cup ByContent
    BY <1>1, PlanAssumed DEF Visited
  <1> QED
    BY <1>1, <1>2 DEF Inductive, Types

\* For every manifest and plan, whatever a backend still holds of what was supplied is
\* a residual or within the number of needles the run says it did not resolve.
THEOREM NothingEverVanishes == SubjectSpec => []NothingVanishes
  <1>1. Inductive => NothingVanishes
    <2> SUFFICES ASSUME Inductive, exit # None, NEW s \in DOMAIN report \cup DOMAIN unverifiable
                 PROVE  Cardinality((held[s] \cap Given(s)) \ kept(s)) <= open(s) + unable(s)
      BY DEF NothingVanishes, Given, kept, open, unable
    <2>1. phase # "scan" /\ s \in Visited
      BY ExitedAfterAll DEF Inductive, Untouched, Begun
    <2> QED
      BY <2>1 DEF Inductive, Accounted
  <1> QED
    BY <1>1, CheckInductive, PTL

\* For every manifest and plan, a check that exits 0 leaves nothing it was given behind
\* on a surface it reports.
THEOREM CleanSound == SubjectSpec => []CleanIsSound
  <1>1. Inductive => CleanIsSound
    <2> SUFFICES ASSUME Inductive, exit = 0, NEW s \in DOMAIN report
                 PROVE  held[s] \cap Given(s) = {}
      BY DEF CleanIsSound, Given
    <2>1. /\ exit # None /\ exit_code(report) = 0 /\ s \in Visited /\ Types
          /\ s \in ErasureSurfaces /\ report[s] \in SurfaceErasure(Needles)
      <3>1. exit # None
        BY NoneAssumed DEF ExitCodes
      <3> QED
        BY <3>1, ExitedAfterAll DEF Inductive, Untouched
    <2>2. headline(report) \in {"VERIFIED", "NO_RESIDUAL_FOUND"}
      BY <2>1 DEF exit_code
    <2>3. report[s].residual = {} /\ report[s].unverifiable = 0
      <3>1. report[s].supported /\ ~report[s].baselineObserved
        BY DEF Inductive, RecordsPostHoc
      <3>2. ~genuine_residual(report) /\ Unverified(report) = {}
        BY <2>2, <3>1 DEF headline, reportErased, erased
      <3> QED
        BY <2>1, <3>1, <3>2 DEF genuine_residual, Unverified, SurfaceErasure
    <2>4. s \notin DOMAIN unverifiable
      BY <2>3 DEF Inductive, RecordsPostHoc
    <2>5. open(s) = 0 /\ unable(s) = 0 /\ kept(s) = {}
      BY <2>3, <2>4 DEF open, unable, kept
    <2> DEFINE S == held[s] \cap Given(s)
    <2>6. S \ {} = S
      OBVIOUS
    <2>7. IsFiniteSet(S) /\ Cardinality(S) \in Nat
      BY <2>1, GivenNeedles, NeedleCount
    <2>8. Cardinality(S) <= 0
      BY <2>1, <2>5, <2>6 DEF Inductive, Accounted
    <2> QED
      BY <2>7, <2>8, FS_EmptySet
  <1> QED
    BY <1>1, CheckInductive, PTL

\* For every manifest and plan, a needle a read has returned is a residual of its
\* surface's record and a finding, and the command exits 2.
THEOREM ObservedReported == SubjectSpec => []ObservedIsReported
  <1>1. Inductive => ObservedIsReported
    <2> SUFFICES ASSUME Inductive, exit # None PROVE ObservedIsReported
      BY DEF ObservedIsReported
    <2>1. /\ exit = exit_code(report) /\ DOMAIN report \subseteq ErasureSurfaces
          /\ \A s \in DOMAIN report : report[s] \in SurfaceErasure(Needles)
      BY ExitedAfterAll
    <2>2. findings = {f \in ErasureSurfaces \X Needles :
                         f[1] \in DOMAIN report /\ f[2] \in report[f[1]].residual}
      BY DEF Inductive, FindingsAreResiduals, kept
    <2>3. \A s \in DOMAIN report : report[s].supported /\ ~report[s].baselineObserved
      BY DEF Inductive, RecordsPostHoc
    <2>4. exit = 2 <=> genuine_residual(report)
      <3>1. caveats(report) = {}
        BY <2>3 DEF caveats, attestable_with_caveat
      <3>2. ObservedResidual(report) # {} => genuine_residual(report)
        BY <2>3 DEF ObservedResidual, genuine_residual
      <3> QED
        BY <2>1, <3>1, <3>2 DEF exit_code, headline
    <2>5. genuine_residual(report) <=> findings # {}
      <3>1. ASSUME NEW s \in DOMAIN report, report[s].residual # {} PROVE findings # {}
        <4>1. PICK n \in Needles : n \in report[s].residual
          BY <2>1, <3>1 DEF SurfaceErasure
        <4>2. <<s, n>> \in findings
          BY <2>1, <2>2, <4>1
        <4> QED
          BY <4>2
      <3> QED
        BY <2>2, <2>3, <3>1 DEF genuine_residual
    <2> QED
      BY <2>2, <2>4, <2>5 DEF ObservedIsReported
  <1> QED
    BY <1>1, CheckInductive, PTL

\* For every manifest and plan, what a backend raises costs its own surface only:
\* every surface with something to look for is in the finished report, unless
\* nothing there could be checked.
THEOREM FailuresStayContained == SubjectSpec => []FailuresContained
  <1>1. Inductive => FailuresContained
    BY ExitedAfterAll DEF FailuresContained, Inductive, EveryoneAnswered, Given
  <1> QED
    BY <1>1, CheckInductive, PTL
=============================================================================
