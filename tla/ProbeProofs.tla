---------------------------- MODULE ProbeProofs ----------------------------
(***************************************************************************)
(* What a suite of probes guarantees for every suite, stack, number of     *)
(* workers and schedule, and what each probe guarantees for every          *)
(* substrate and stack its plan is made for.  Next to JobInductive of the  *)
(* job runner the argument about the suite rests on ProbesInductive, which *)
(* says probe by probe what has been dropped, planted, confirmed and       *)
(* returned, and on RecordFollows: the record is made of results that no   *)
(* longer change.  The argument about a plan follows its steps: what the   *)
(* sequence of them holds (Plans), what is left of it (WellSent), and what *)
(* the answers to that come to (PlanInv).                                  *)
(***************************************************************************)
EXTENDS
    ProbeParts,
    FiniteSetTheorems, SequenceTheorems, WellFoundedInduction, NaturalsInduction, TLAPS

-----------------------------------------------------------------------------
(* The job runner implements JobBatch, for every number of jobs and of workers: what *)
(* the calling thread has collected returned, what stopped it raised, and a serial   *)
(* runner has begun nothing beyond the job it waits for.                             *)

\* What was collected is what returned, in input order.
CollectedReturned == \A j \in 1..collected : status[j] = "returned"

\* The calling thread stops at the first result it could not collect.
StoppedAtRaise ==
    /\ mapped \in {"mapping", "results"} => error = 0
    /\ mapped \in {"cancelling", "error"} =>
          /\ collected < N
          /\ error = collected + 1
          /\ status[error] = "raised"
    /\ mapped = "results" => collected = N

\* A serial runner never has a job queued behind one that runs, and no pool to leave.
OneByOne ==
    Serial =>
        /\ mapped # "cancelling"
        /\ \A j \in 1..N : j > collected + 1 => status[j] = "queued"

\* After its answer no job of the batch is running.
NoneLeft == mapped \in {"results", "error"} => Running = {}

JobInductive ==
    /\ JobTypeOK
    /\ CollectedReturned
    /\ StoppedAtRaise
    /\ OneByOne
    /\ NoneLeft

LEMMA JobInductiveInit == JobInit => JobInductive
  BY JobsAssumed
     DEF JobInit, JobInductive, JobTypeOK, CollectedReturned, StoppedAtRaise, OneByOne,
         NoneLeft, Statuses, Stages

\* A job that begins or ends is not one the calling thread has collected or
\* stopped at, and none begins after the answer.
LEMMA JobInductiveWorker ==
    ASSUME JobInductive, NEW j \in 1..N, Start(j) \/ Returns(j) \/ Raises(j)
    PROVE  JobInductive'
  <1> USE JobsAssumed DEF JobInductive, JobTypeOK
  <1>1. /\ status[j] \in {"queued", "running"}
        /\ status' \in [1..N -> Statuses]
        /\ \A i \in 1..N \ {j} : status'[i] = status[i]
        /\ UNCHANGED <<collected, mapped, error>>
    BY DEF Start, Returns, Raises, Ends, Queued, Running, Statuses
  <1>2. CollectedReturned'
    BY <1>1 DEF CollectedReturned
  <1>3. StoppedAtRaise'
    BY <1>1 DEF StoppedAtRaise
  <1>4. mapped \in {"mapping", "cancelling"}
    BY DEF Start, Returns, Raises, Ends, Queued, Running, NoneLeft, Stages
  <1>5. OneByOne'
    <2>1. CASE Start(j)
      BY <1>1, <2>1 DEF Start, Serial, OneByOne
    <2>2. CASE Returns(j) \/ Raises(j)
      BY <1>1, <2>2 DEF Returns, Raises, Ends, Running, Serial, OneByOne
    <2> QED
      BY <2>1, <2>2
  <1>6. NoneLeft'
    BY <1>1, <1>4 DEF NoneLeft
  <1> QED
    BY <1>1, <1>2, <1>3, <1>5, <1>6

\* The calling thread keeps it.
LEMMA JobInductiveCaller == JobInductive /\ Caller => JobInductive'
  <1> SUFFICES ASSUME JobInductive, Caller PROVE JobInductive'
    OBVIOUS
  <1> USE JobsAssumed DEF JobInductive, JobTypeOK, Stages
  <1>1. CASE Collect
    BY <1>1 DEF Collect, CollectedReturned, StoppedAtRaise, OneByOne, NoneLeft, Serial
  <1>2. CASE CollectError
    <2>1. error' = collected + 1 /\ error' \in 1..N /\ status[error'] = "raised"
      BY <1>2 DEF CollectError
    <2>2. CollectedReturned' /\ StoppedAtRaise' /\ OneByOne'
      BY <1>2, <2>1 DEF CollectError, CollectedReturned, StoppedAtRaise, OneByOne, Serial
    <2>3. NoneLeft'
      <3>1. CASE Serial
        <4>1. \A j \in 1..N : status[j] # "running"
          BY <1>2, <3>1 DEF CollectError, CollectedReturned, OneByOne
        <4> QED
          BY <1>2, <4>1 DEF CollectError, NoneLeft, Running
      <3>2. CASE ~Serial
        BY <1>2, <3>2 DEF CollectError, NoneLeft
      <3> QED
        BY <3>1, <3>2
    <2> QED
      BY <1>2, <2>1, <2>2, <2>3 DEF CollectError
  <1>3. CASE CancelQueued
    <2>1. PICK j \in Queued : status' = [status EXCEPT ![j] = "cancelled"]
      BY <1>3 DEF CancelQueued
    <2>2. /\ j \in 1..N /\ status[j] = "queued"
          /\ status' \in [1..N -> Statuses]
          /\ \A i \in 1..N \ {j} : status'[i] = status[i]
      BY <2>1 DEF Queued, Statuses
    <2> QED
      BY <1>3, <2>2 DEF CancelQueued, CollectedReturned, StoppedAtRaise, OneByOne, NoneLeft,
                        Serial
  <1>4. CASE Join
    BY <1>4 DEF Join, CollectedReturned, StoppedAtRaise, OneByOne, NoneLeft, Running, Serial
  <1>5. CASE Deliver
    BY <1>5 DEF Deliver, CollectedReturned, StoppedAtRaise, OneByOne, NoneLeft, Running, Serial
  <1> QED
    BY <1>1, <1>2, <1>3, <1>4, <1>5 DEF Caller

LEMMA JobInductiveStep == JobInductive /\ [JobNext]_jobVars => JobInductive'
  <1> SUFFICES ASSUME JobInductive, [JobNext]_jobVars PROVE JobInductive'
    OBVIOUS
  <1>1. CASE UNCHANGED jobVars
    BY <1>1 DEF jobVars, JobInductive, JobTypeOK, CollectedReturned, StoppedAtRaise,
                OneByOne, NoneLeft, Running, Serial
  <1>2. CASE JobNext
    BY <1>2, JobInductiveWorker, JobInductiveCaller DEF JobNext
  <1> QED
    BY <1>1, <1>2

-----------------------------------------------------------------------------
(* The refinement. *)

\* The batch begins idle and unanswered.
LEMMA PromiseInit == JobInit => Promise!BatchInit
  BY DEF JobInit, Promise!BatchInit

\* Every step of the runner is a step of the batch, or leaves the batch alone.
LEMMA PromiseStep ==
    JobInductive /\ [JobNext]_jobVars => [Promise!BatchNext]_(Promise!batchVars)
  <1> SUFFICES ASSUME JobInductive, [JobNext]_jobVars
               PROVE  [Promise!BatchNext]_(Promise!batchVars)
    OBVIOUS
  <1> DEFINE job == [j \in 1..N |->
                        IF status[j] \in {"queued", "cancelled"} THEN "idle" ELSE status[j]]
             answer == IF mapped \in {"results", "error"} THEN mapped ELSE "none"
             raised == IF mapped = "error" THEN error ELSE 0
  <1> USE JobsAssumed DEF JobInductive, JobTypeOK, Stages
  <1>1. ASSUME NEW j \in 1..N, Start(j)
        PROVE  Promise!Begin(j)
    <2>1. /\ answer = "none" /\ job[j] = "idle"
          /\ UNCHANGED <<answer, raised>>
      BY <1>1 DEF Start, Queued
    <2>2. job' = [job EXCEPT ![j] = "running"]
      BY <1>1 DEF Start
    <2> QED
      BY <2>1, <2>2 DEF Promise!Begin
  <1>2. ASSUME NEW j \in 1..N, NEW how \in {"returned", "raised"}, Ends(j, how)
        PROVE  Promise!End(j)
    <2>1. job[j] = "running" /\ UNCHANGED <<answer, raised>>
      BY <1>2 DEF Ends, Running
    <2>2. job' = [job EXCEPT ![j] = how]
      BY <1>2 DEF Ends
    <2> QED
      BY <2>1, <2>2 DEF Promise!End
  <1>3. CASE Collect
    BY <1>3 DEF Collect, Promise!batchVars
  <1>4. CASE CollectError
    <2>1. CASE Serial
      <3>1. \A j \in 1..N : job[j] # "running"
        BY <1>4, <2>1 DEF CollectError, CollectedReturned, OneByOne
      <3>2. /\ answer = "none" /\ answer' = "error"
            /\ raised' = collected + 1 /\ collected + 1 \in 1..N
            /\ job[collected + 1] = "raised"
            /\ UNCHANGED job
        BY <1>4, <2>1 DEF CollectError
      <3>3. \A i \in 1..((collected + 1) - 1) : job[i] = "returned"
        BY <3>2 DEF CollectedReturned
      <3>4. Promise!AnswerError(collected + 1)
        BY <3>1, <3>2, <3>3 DEF Promise!AnswerError
      <3> QED
        BY <3>2, <3>4 DEF Promise!BatchNext
    <2>2. CASE ~Serial
      BY <1>4, <2>2 DEF CollectError, Promise!batchVars
    <2> QED
      BY <2>1, <2>2
  <1>5. CASE CancelQueued
    BY <1>5 DEF CancelQueued, Queued, Promise!batchVars
  <1>6. CASE Join
    <2>1. \A j \in 1..N : job[j] # "running"
      BY <1>6 DEF Join, Running
    <2>2. /\ answer = "none" /\ answer' = "error"
          /\ raised' = error /\ error \in 1..N /\ error - 1 = collected
          /\ job[error] = "raised"
          /\ UNCHANGED job
      BY <1>6 DEF Join, StoppedAtRaise
    <2>3. \A i \in 1..(error - 1) : job[i] = "returned"
      BY <2>2 DEF CollectedReturned
    <2>4. Promise!AnswerError(error)
      BY <2>1, <2>2, <2>3 DEF Promise!AnswerError
    <2> QED
      BY <2>2, <2>4 DEF Promise!BatchNext
  <1>7. CASE Deliver
    <2>1. /\ answer = "none" /\ answer' = "results"
          /\ \A j \in 1..N : job[j] = "returned"
          /\ UNCHANGED <<job, raised>>
      BY <1>7 DEF Deliver, CollectedReturned
    <2> QED
      BY <2>1 DEF Promise!AnswerResults, Promise!BatchNext
  <1>8. CASE UNCHANGED jobVars
    BY <1>8 DEF jobVars, Promise!batchVars
  <1> QED
    BY <1>1, <1>2, <1>3, <1>4, <1>5, <1>6, <1>7, <1>8
       DEF JobNext, Caller, Returns, Raises, Promise!BatchNext

\* The pool and the serial runner keep map's promise for every batch: the results
\* of jobs that all returned, or the exception of the first job that raised, and
\* after either no job runs or starts.
THEOREM RunnerKeepsPromise == JobInit /\ [][JobNext]_jobVars => KeepsPromise
  BY JobInductiveInit, JobInductiveStep, PromiseInit, PromiseStep, PTL
     DEF KeepsPromise, Promise!BatchSpec

-----------------------------------------------------------------------------
(* The jobs of the suite. *)

\* A step of the suite is a step of its job runner, or leaves the runner alone.
LEMMA SuiteRunsJobs == [Next]_vars => [JobNext]_jobVars
  <1> SUFFICES ASSUME [Next]_vars PROVE [JobNext]_jobVars
    OBVIOUS
  <1>1. ASSUME NEW p \in Probes, StartProbe(p) PROVE JobNext
    BY <1>1 DEF StartProbe, JobNext, Probes
  <1>2. ASSUME NEW p \in Probes, DropProbe(p) \/ FinishProbe(p) PROVE JobNext
    BY <1>2 DEF DropProbe, FinishProbe, JobNext, Probes
  <1>3. ASSUME NEW p \in Probes, StepRaises(p) PROVE JobNext
    BY <1>3 DEF StepRaises, JobNext, Probes
  <1>4. ASSUME NEW p \in Probes, DropStep(p) \/ Plant(p) \/ ReadBack(p) \/ Judge(p)
        PROVE  UNCHANGED jobVars
    BY <1>4 DEF DropStep, Plant, ReadBack, Judge
  <1>5. CASE Calling
    BY <1>5 DEF Calling, JobNext
  <1>6. CASE Abort \/ Refuse \/ Record
    BY <1>6 DEF Abort, Refuse, Record
  <1>7. CASE UNCHANGED vars
    BY <1>7 DEF vars
  <1> QED
    BY <1>1, <1>2, <1>3, <1>4, <1>5, <1>6, <1>7 DEF Next

\* Whatever the probes do, the jobs of a suite keep what map promises: no probe is
\* still running when the command records the run or gives up.
THEOREM SuiteKeeps == Spec => SuiteKeepsPromise
  <1>1. Init => JobInit
    BY DEF Init
  <1> QED
    BY <1>1, SuiteRunsJobs, RunnerKeepsPromise, PTL DEF Spec, SuiteKeepsPromise

\* The invariant of the job runner holds of the suite.
LEMMA SuiteJobs == Spec => []JobInductive
  <1>1. Init => JobInductive
    BY JobInductiveInit DEF Init
  <1> QED
    BY <1>1, SuiteRunsJobs, JobInductiveStep, PTL DEF Spec

-----------------------------------------------------------------------------
(* The invariant. *)

Leaks == Document \X Principal

\* The functions of the run are functions of the probes.
Shapes ==
    /\ store \subseteq Document
    /\ at \in [Probes -> Nat]
    /\ \A p \in Probes : at[p] \in 1..(Len(Suite[p]) + 1)
    /\ reading_back \in [Probes -> BOOLEAN] /\ ran \in [Probes -> BOOLEAN]
    /\ planted \in [Probes -> Nat] /\ unconfirmed \in [Probes -> Nat]
    /\ dropped \in [Probes -> Nat]
    /\ confirmed \in [Probes -> SUBSET Leaks]
    /\ dropped_user_steps \in [Probes -> Nat] /\ unconfirmed_plants \in [Probes -> Nat]
    /\ group \in [Probes -> [ran : BOOLEAN, confirmed : SUBSET Leaks]]

\* One of the probe's own canaries is where its reads can find it.
Landed(p) ==
    \E i \in Plants(p) : Suite[p][i].doc \in store \/ Suite[p][i].doc.family \in NotReadBack

\* A leak to a user was seen on an adapter that carries users.
Attributed(p) ==
    \A pair \in confirmed[p] : pair[2].user # NoUser => pair[1].family \in CarriesUser

\* Every step behind the probe has been counted: a dropped read, a plant, and a
\* plant that neither failed nor waits for its read-back landed.
Counted(p) ==
    /\ reading_back[p] => at[p] \in Plants(p)
    /\ (\E i \in Judged(p) \cap Droppable(p) : i < at[p]) => dropped[p] > 0
    /\ (\E i \in Plants(p) : i < at[p]) => planted[p] > 0
    /\ unconfirmed[p] + (IF reading_back[p] THEN 1 ELSE 0) <= planted[p]
    /\ unconfirmed[p] + (IF reading_back[p] THEN 1 ELSE 0) < planted[p] => Landed(p)

\* A probe that confirmed a leak ran a step, and one that ran a step planned one and
\* was not dropped whole.
Ran(p) ==
    /\ confirmed[p] # {} => ran[p]
    /\ ran[p] => ~DropsWholeProbe(p) /\ Plants(p) \cup Judged(p) # {}
    /\ group[p].ran => ran[p]
    /\ group[p].confirmed \subseteq confirmed[p]

\* What a job returned is what its probe saw.
Reported(p) ==
    status[p] = "returned" =>
        /\ Judged(p) \cap Droppable(p) # {} => dropped_user_steps[p] > 0
        /\ group[p].confirmed = confirmed[p]
        /\ confirmed[p] # {} => group[p].ran
        /\ group[p].ran /\ confirmed[p] = {} /\ Plants(p) # {} => Landed(p)

ProbeOK(p) == Attributed(p) /\ Counted(p) /\ Ran(p) /\ Reported(p)

ProbesInductive == Shapes /\ \A p \in Probes : ProbeOK(p)

\* A run is recorded once every job has returned, from what the jobs returned.
RecordFollows ==
    Recorded =>
        /\ mapped = "results"
        /\ record.versions = Versions
        /\ record.findings = Findings
        /\ record.dropped = {p \in Probes : dropped_user_steps[p] > 0}
        /\ Findings # {} => exit = 2

\* The map is over when every job has returned.
LEMMA AllReturned ==
    ASSUME JobInductive, mapped = "results", NEW p \in Probes
    PROVE  status[p] = "returned"
  BY JobsAssumed DEF JobInductive, JobTypeOK, CollectedReturned, StoppedAtRaise, Probes

\* A planned step, and what the run sends for it, is a step.
LEMMA PlannedStep ==
    ASSUME NEW p \in Probes, NEW i \in 1..Len(Suite[p])
    PROVE  /\ Suite[p][i] \in Step
           /\ Suite[p][i].doc \in Document
           /\ Suite[p][i].actor \in Principal
           /\ AsSent(p, i).doc = Suite[p][i].doc
  <1>1. Suite[p] \in Seq(Step)
    BY SuiteAssumed DEF Probes
  <1>2. Suite[p][i] \in Step
    BY <1>1
  <1>3. Suite[p][i].doc \in Document /\ Suite[p][i].actor \in Principal
    BY <1>2 DEF Step
  <1>4. AsSent(p, i).doc = Suite[p][i].doc
    BY <1>2 DEF AsSent, Step
  <1> QED
    BY <1>2, <1>3, <1>4

\* The length of a plan is a number.
LEMMA PlanLength == \A p \in Probes : Len(Suite[p]) \in Nat
  BY SuiteAssumed DEF Probes

\* Whoever is dropped whole has a user-level step to report.
LEMMA DroppedIsCounted ==
    ASSUME NEW p \in Probes
    PROVE  /\ Cardinality(UserLevel(p)) \in Nat
           /\ Droppable(p) # {} => Cardinality(UserLevel(p)) > 0
  <1>1. IsFiniteSet(1..Len(Suite[p]))
    BY PlanLength, FS_Interval
  <1>2. IsFiniteSet(UserLevel(p))
    BY <1>1, FS_Subset DEF UserLevel
  <1>3. Droppable(p) # {} => UserLevel(p) # {}
    BY DEF Droppable
  <1>4. Cardinality(UserLevel(p)) \in Nat
    BY <1>2, FS_CardinalityType
  <1> QED
    BY <1>2, <1>3, <1>4, FS_EmptySet

LEMMA ProbesInit == Init => ProbesInductive /\ RecordFollows
  <1> SUFFICES ASSUME Init PROVE ProbesInductive /\ RecordFollows
    OBVIOUS
  <1>1. Shapes
    BY CorpusAssumed, PlanLength DEF Init, Shapes
  <1>2. ASSUME NEW p \in Probes PROVE ProbeOK(p)
    <2>1. Attributed(p) /\ Ran(p) /\ Reported(p)
      BY <1>2 DEF Init, JobInit, Attributed, Ran, Reported, Probes
    <2>2. \A i \in Judged(p) \cup Plants(p) : ~(i < at[p])
      BY <1>2, PlanLength DEF Init, Judged, Plants
    <2>3. Counted(p)
      BY <2>2 DEF Init, Counted
    <2> QED
      BY <2>1, <2>3 DEF ProbeOK
  <1>3. RecordFollows
    BY ExitAssumed DEF Init, RecordFollows, Recorded
  <1> QED
    BY <1>1, <1>2, <1>3 DEF ProbesInductive

-----------------------------------------------------------------------------
(* Each step keeps the invariant. *)

\* The state a probe's own conjunct is about.
ProbeState(p) ==
    <<at[p], reading_back[p], planted[p], unconfirmed[p], dropped[p], ran[p],
      confirmed[p], dropped_user_steps[p], unconfirmed_plants[p], group[p]>>

\* What other probes do, a plant among it, takes nothing away from a probe.
LEMMA Undisturbed ==
    ASSUME NEW p \in Probes, ProbeOK(p), store \subseteq store',
           UNCHANGED ProbeState(p),
           status'[p] = "returned" => status[p] = "returned"
    PROVE  ProbeOK(p)'
  <1>1. Landed(p) => Landed(p)'
    BY DEF Landed
  <1>2. Attributed(p)' /\ Counted(p)' /\ Ran(p)'
    BY <1>1 DEF ProbeState, ProbeOK, Attributed, Counted, Ran
  <1>3. Reported(p)'
    BY <1>1 DEF ProbeState, ProbeOK, Reported
  <1> QED
    BY <1>2, <1>3 DEF ProbeOK

\* A probe's step keeps the invariant if it keeps the shapes and its own conjunct.
LEMMA OwnStep ==
    ASSUME ProbesInductive, NEW p \in Probes, Shapes', ProbeOK(p)',
           store \subseteq store',
           \A q \in Probes \ {p} : UNCHANGED ProbeState(q) /\ status'[q] = status[q]
    PROVE  ProbesInductive'
  BY Undisturbed DEF ProbesInductive

\* A probe is not running and dropped whole unless it has nothing else to do.
LEMMA ReadsAndPlants ==
    ASSUME NEW p \in Probes
    PROVE  /\ Plants(p) \cap Judged(p) = {}
           /\ Plants(p) \subseteq 1..Len(Suite[p])
           /\ Judged(p) \subseteq 1..Len(Suite[p])
  BY DEF Plants, Judged

\* Moving to the next step stays inside the plan.
LEMMA NextStepStays ==
    ASSUME Shapes, NEW p \in Probes, at[p] \in 1..Len(Suite[p]), NextStep(p)
    PROVE  /\ at' \in [Probes -> Nat]
           /\ \A q \in Probes : at'[q] \in 1..(Len(Suite[q]) + 1)
           /\ at'[p] = at[p] + 1
           /\ \A q \in Probes \ {p} : at'[q] = at[q]
  <1>1. Len(Suite[p]) \in Nat
    BY PlanLength
  <1>2. at[p] + 1 \in Nat /\ at[p] + 1 \in 1..(Len(Suite[p]) + 1)
    BY <1>1
  <1>3. at' = [at EXCEPT ![p] = at[p] + 1]
    BY DEF NextStep
  <1>4. at' \in [Probes -> Nat] /\ at'[p] = at[p] + 1 /\ \A q \in Probes \ {p} : at'[q] = at[q]
    BY <1>2, <1>3 DEF Shapes
  <1>5. ASSUME NEW q \in Probes PROVE at'[q] \in 1..(Len(Suite[q]) + 1)
    BY <1>2, <1>4 DEF Shapes
  <1> QED
    BY <1>4, <1>5

LEMMA DropStepKeeps ==
    ASSUME ProbesInductive, NEW p \in Probes, DropStep(p) PROVE ProbesInductive'
  <1> USE DEF envVars, runVars, notes
  <1>1. Shapes /\ ProbeOK(p) /\ at[p] \in 1..Len(Suite[p]) /\ at[p] \in Judged(p)
    BY ReadsAndPlants DEF ProbesInductive, DropStep
  <1>2. /\ dropped'[p] = dropped[p] + 1
        /\ \A q \in Probes \ {p} : dropped'[q] = dropped[q]
        /\ dropped' \in [Probes -> Nat]
    BY <1>1 DEF DropStep, Shapes
  <1>3. Shapes'
    BY <1>1, <1>2, NextStepStays DEF DropStep, Shapes
  <1>4. Attributed(p)' /\ Ran(p)' /\ Reported(p)'
    BY <1>1 DEF DropStep, InProbe, jobVars, ProbeOK, Attributed, Ran, Reported
  <1>5. Counted(p)'
    <2>1. dropped'[p] > 0 /\ ~reading_back[p] /\ at'[p] = at[p] + 1
      BY <1>1, <1>2, NextStepStays, ReadsAndPlants DEF DropStep, Shapes, ProbeOK, Counted
    <2>2. \A i \in Plants(p) : i < at'[p] => i < at[p]
      BY <1>1, <2>1, ReadsAndPlants, PlanLength
    <2>3. Landed(p)' <=> Landed(p)
      BY DEF DropStep, Landed
    <2> QED
      BY <1>1, <2>1, <2>2, <2>3 DEF DropStep, ProbeOK, Counted
  <1>6. \A q \in Probes \ {p} : UNCHANGED ProbeState(q) /\ status'[q] = status[q]
    BY <1>1, <1>2, NextStepStays DEF DropStep, ProbeState, jobVars
  <1>7. ProbeOK(p)'
    BY <1>4, <1>5 DEF ProbeOK
  <1>8. store \subseteq store'
    BY DEF DropStep
  <1> QED
    BY <1>3, <1>6, <1>7, <1>8, OwnStep

LEMMA PlantKeeps ==
    ASSUME ProbesInductive, NEW p \in Probes, Plant(p) PROVE ProbesInductive'
  <1> USE DEF envVars, runVars, notes
  <1>1. /\ Shapes /\ ProbeOK(p) /\ at[p] \in 1..Len(Suite[p]) /\ at[p] \in Plants(p)
        /\ ~reading_back[p]
    BY ReadsAndPlants DEF ProbesInductive, Plant
  <1>2. store \subseteq store' /\ store' \subseteq Document
    <2>1. AsSent(p, at[p]).doc \in Document
      BY <1>1, PlannedStep
    <2>2. store' \in {store, store \cup {AsSent(p, at[p]).doc}}
      BY DEF Plant
    <2> QED
      BY <1>1, <2>1, <2>2 DEF Shapes
  <1>3. /\ planted' \in [Probes -> Nat] /\ planted'[p] = planted[p] + 1
        /\ reading_back' \in [Probes -> BOOLEAN] /\ reading_back'[p]
        /\ \A q \in Probes \ {p} : planted'[q] = planted[q] /\ reading_back'[q] = reading_back[q]
    BY <1>1 DEF Plant, Shapes
  <1>4. Shapes'
    BY <1>1, <1>2, <1>3 DEF Plant, Shapes
  <1>5. Attributed(p)' /\ Ran(p)' /\ Reported(p)'
    BY <1>1 DEF Plant, InProbe, jobVars, ProbeOK, Attributed, Ran, Reported
  <1>6. Counted(p)'
    <2>1. Landed(p) => Landed(p)'
      BY <1>2 DEF Landed
    <2>2. planted[p] \in Nat /\ unconfirmed[p] \in Nat
      BY <1>1 DEF Shapes
    <2> QED
      BY <1>1, <1>3, <2>1, <2>2 DEF Plant, ProbeOK, Counted
  <1>7. \A q \in Probes \ {p} : UNCHANGED ProbeState(q) /\ status'[q] = status[q]
    BY <1>3 DEF Plant, ProbeState, jobVars
  <1>8. ProbeOK(p)'
    BY <1>5, <1>6 DEF ProbeOK
  <1> QED
    BY <1>2, <1>4, <1>7, <1>8, OwnStep

LEMMA ReadBackKeeps ==
    ASSUME ProbesInductive, NEW p \in Probes, ReadBack(p) PROVE ProbesInductive'
  <1> USE DEF envVars, runVars, notes
  <1>1. /\ Shapes /\ ProbeOK(p) /\ reading_back[p]
        /\ at[p] \in Plants(p) /\ at[p] \in 1..Len(Suite[p]) /\ at[p] \notin Judged(p)
    BY ReadsAndPlants DEF ProbesInductive, ReadBack, ProbeOK, Counted
  <1> DEFINE doc    == Suite[p][at[p]].doc
             stored == \/ doc.family \in NotReadBack
                       \/ doc \in store /\ doc.family \notin blind
  <1>2. /\ unconfirmed' \in [Probes -> Nat]
        /\ unconfirmed'[p] = unconfirmed[p] + (IF stored THEN 0 ELSE 1)
        /\ reading_back' \in [Probes -> BOOLEAN] /\ ~reading_back'[p]
        /\ ran' \in [Probes -> BOOLEAN] /\ ran'[p]
        /\ \A q \in Probes \ {p} : /\ unconfirmed'[q] = unconfirmed[q]
                                   /\ reading_back'[q] = reading_back[q]
                                   /\ ran'[q] = ran[q]
    BY <1>1 DEF ReadBack, Shapes
  <1>3. Shapes'
    BY <1>1, <1>2, NextStepStays DEF ReadBack, Shapes
  <1>4. Attributed(p)' /\ Ran(p)' /\ Reported(p)'
    BY <1>1, <1>2 DEF ReadBack, InProbe, jobVars, ProbeOK, Attributed, Ran, Reported
  <1>5. Counted(p)'
    <2>1. at'[p] = at[p] + 1
      BY <1>1, NextStepStays DEF ReadBack
    <2>2. \A i \in Judged(p) : i < at'[p] => i < at[p]
      BY <1>1, <2>1, ReadsAndPlants, PlanLength
    <2>3. stored => Landed(p)
      BY <1>1 DEF Landed
    <2>4. Landed(p)' <=> Landed(p)
      BY DEF ReadBack, Landed
    <2>5. planted[p] \in Nat /\ unconfirmed[p] \in Nat /\ planted'[p] = planted[p]
      BY <1>1 DEF ReadBack, Shapes
    <2>6. unconfirmed[p] + 1 <= planted[p]
      BY <1>1 DEF ProbeOK, Counted
    <2>7. (\E i \in Judged(p) \cap Droppable(p) : i < at'[p]) => dropped'[p] > 0
      BY <1>1, <2>2 DEF ReadBack, ProbeOK, Counted
    <2>8. unconfirmed'[p] < planted'[p] => Landed(p)'
      <3>1. CASE stored
        BY <2>3, <2>4, <3>1
      <3>2. CASE ~stored
        BY <1>1, <1>2, <2>4, <2>5, <3>2 DEF ProbeOK, Counted
      <3> QED
        BY <3>1, <3>2
    <2>9. unconfirmed'[p] <= planted'[p] /\ planted'[p] > 0
      BY <1>2, <2>5, <2>6
    <2> HIDE DEF stored
    <2> QED
      BY <1>2, <2>5, <2>7, <2>8, <2>9 DEF Counted
  <1>6. \A q \in Probes \ {p} : UNCHANGED ProbeState(q) /\ status'[q] = status[q]
    BY <1>1, <1>2, NextStepStays DEF ReadBack, ProbeState, jobVars
  <1>7. ProbeOK(p)'
    BY <1>4, <1>5 DEF ProbeOK
  <1>8. store \subseteq store'
    BY DEF ReadBack
  <1> QED
    BY <1>3, <1>6, <1>7, <1>8, OwnStep

LEMMA JudgeKeeps ==
    ASSUME ProbesInductive, NEW p \in Probes, Judge(p) PROVE ProbesInductive'
  <1> USE DEF envVars, runVars, notes
  <1>1. /\ Shapes /\ ProbeOK(p) /\ at[p] \in 1..Len(Suite[p])
        /\ at[p] \in Judged(p) /\ at[p] \notin Droppable(p) /\ at[p] \notin Plants(p)
    BY ReadsAndPlants DEF ProbesInductive, Judge
  <1> DEFINE step == Suite[p][at[p]]
             new  == {<<d, step.actor>> : d \in {e \in Served(step) : Foreign(e, step.actor)}}
  <1>2. /\ ran' \in [Probes -> BOOLEAN] /\ ran'[p]
        /\ \A q \in Probes \ {p} : ran'[q] = ran[q]
    BY <1>1 DEF Judge, Shapes
  <1>3. /\ new \subseteq Leaks
        /\ \A pair \in new : pair[2].user # NoUser => pair[1].family \in CarriesUser
    <2>1. step \in Step /\ step.actor \in Principal /\ step.doc \in Document
      BY <1>1, PlannedStep
    <2>2. ASSUME NEW d \in Served(step)
          PROVE  d \in Document /\ d.family = step.doc.family
      BY <1>1, <2>2 DEF Served, Matches, Shapes
    <2>3. step.actor.user # NoUser => step.doc.family \in CarriesUser
      BY <1>1 DEF Droppable, UserLevel
    <2> HIDE DEF step
    <2> QED
      BY <2>1, <2>2, <2>3 DEF Leaks
  <1>4. /\ confirmed' \in [Probes -> SUBSET Leaks]
        /\ confirmed'[p] = confirmed[p] \cup new
        /\ \A q \in Probes \ {p} : confirmed'[q] = confirmed[q]
    <2>1. confirmed' = [confirmed EXCEPT ![p] = confirmed[p] \cup new]
      BY DEF Judge
    <2> HIDE DEF new
    <2> QED
      BY <1>1, <1>3, <2>1 DEF Shapes
  <1> HIDE DEF new
  <1>5. Shapes'
    BY <1>1, <1>2, <1>4, NextStepStays DEF Judge, Shapes
  <1>6. Attributed(p)' /\ Ran(p)' /\ Reported(p)'
    BY <1>1, <1>2, <1>3, <1>4
       DEF Judge, InProbe, jobVars, ProbeOK, Attributed, Ran, Reported
  <1>7. Counted(p)'
    <2>1. at'[p] = at[p] + 1 /\ ~reading_back[p]
      BY <1>1, NextStepStays DEF Judge, ProbeOK, Counted
    <2>2. \A i \in Plants(p) \cup (Judged(p) \cap Droppable(p)) : i < at'[p] => i < at[p]
      BY <1>1, <2>1, ReadsAndPlants, PlanLength
    <2>3. Landed(p)' <=> Landed(p)
      BY DEF Judge, Landed
    <2> QED
      BY <1>1, <2>1, <2>2, <2>3 DEF Judge, ProbeOK, Counted
  <1>8. \A q \in Probes \ {p} : UNCHANGED ProbeState(q) /\ status'[q] = status[q]
    BY <1>1, <1>2, <1>4, NextStepStays DEF Judge, ProbeState, jobVars
  <1>9. ProbeOK(p)'
    BY <1>6, <1>7 DEF ProbeOK
  <1>10. store \subseteq store'
    BY DEF Judge
  <1> QED
    BY <1>5, <1>8, <1>9, <1>10, OwnStep

\* A job that starts, or raises, has nothing to report.
LEMMA StatusKeeps ==
    ASSUME ProbesInductive, JobInductive,
           (\E p \in Probes : StartProbe(p) \/ StepRaises(p)) \/ Calling
    PROVE  ProbesInductive'
  <1> USE DEF envVars, runVars, notes
  <1>1. /\ UNCHANGED <<store, at, reading_back, planted, unconfirmed, dropped, ran, confirmed,
                       dropped_user_steps, unconfirmed_plants, group>>
        /\ \A q \in Probes : status'[q] = "returned" => status[q] = "returned"
    <2>1. ASSUME NEW p \in Probes, StartProbe(p) \/ StepRaises(p)
          PROVE  /\ status' \in {[status EXCEPT ![p] = "running"], [status EXCEPT ![p] = "raised"]}
                 /\ UNCHANGED <<store, runVars, notes, group>>
      BY <2>1 DEF StartProbe, StepRaises, Start, Raises, Ends
    <2>2. ASSUME Calling
          PROVE  /\ \/ UNCHANGED status
                    \/ \E j \in 1..N : status' = [status EXCEPT ![j] = "cancelled"]
                 /\ UNCHANGED <<store, runVars, notes, group>>
      BY <2>2 DEF Calling, Caller, Collect, CollectError, CancelQueued, Join, Deliver, Queued
    <2>3. status \in [1..N -> Statuses]
      BY DEF JobInductive, JobTypeOK
    <2> QED
      BY <2>1, <2>2, <2>3 DEF Probes
  <1>2. Shapes'
    BY <1>1 DEF ProbesInductive, Shapes
  <1>3. ASSUME NEW q \in Probes PROVE ProbeOK(q)'
    <2>1. UNCHANGED ProbeState(q) /\ store \subseteq store'
      BY <1>1 DEF ProbeState
    <2> QED
      BY <1>1, <2>1, Undisturbed DEF ProbesInductive
  <1> QED
    BY <1>2, <1>3 DEF ProbesInductive

\* What a job returns notes everything its probe dropped.
LEMMA DropProbeKeeps ==
    ASSUME ProbesInductive, JobInductive, NEW p \in Probes, DropProbe(p) PROVE ProbesInductive'
  <1> USE DEF envVars, runVars, notes
  <1>1. /\ Shapes /\ ProbeOK(p) /\ DropsWholeProbe(p) /\ ~ran[p] /\ confirmed[p] = {}
        /\ ~group[p].ran /\ group[p].confirmed = {}
    BY DEF ProbesInductive, DropProbe, ProbeOK, Ran
  <1>2. /\ dropped_user_steps' \in [Probes -> Nat]
        /\ dropped_user_steps'[p] > 0
        /\ \A q \in Probes \ {p} : dropped_user_steps'[q] = dropped_user_steps[q]
    <2>1. Cardinality(UserLevel(p)) \in Nat /\ Cardinality(UserLevel(p)) > 0
      BY <1>1, DroppedIsCounted DEF DropsWholeProbe
    <2> QED
      BY <1>1, <2>1 DEF DropProbe, Shapes
  <1>3. Shapes'
    BY <1>1, <1>2 DEF DropProbe, Shapes
  <1>4. Attributed(p)' /\ Ran(p)'
    BY <1>1 DEF DropProbe, ProbeOK, Attributed, Ran, DropsWholeProbe
  <1>5. Counted(p)'
    <2>1. Landed(p)' <=> Landed(p)
      BY DEF DropProbe, Landed
    <2> QED
      BY <1>1, <2>1 DEF DropProbe, ProbeOK, Counted
  <1>6. Reported(p)'
    BY <1>1, <1>2 DEF DropProbe, Reported
  <1>7. \A q \in Probes \ {p} : UNCHANGED ProbeState(q) /\ status'[q] = status[q]
    <2>1. status' = [status EXCEPT ![p] = "returned"] /\ status \in [1..N -> Statuses]
      BY DEF DropProbe, Returns, Ends, JobInductive, JobTypeOK
    <2> QED
      BY <1>2, <2>1 DEF DropProbe, ProbeState, Probes
  <1>8. ProbeOK(p)'
    BY <1>4, <1>5, <1>6 DEF ProbeOK
  <1>9. store \subseteq store'
    BY DEF DropProbe
  <1> QED
    BY <1>3, <1>7, <1>8, <1>9, OwnStep

LEMMA FinishProbeKeeps ==
    ASSUME ProbesInductive, JobInductive, NEW p \in Probes, FinishProbe(p) PROVE ProbesInductive'
  <1> USE DEF envVars, runVars, notes
  <1>1. /\ Shapes /\ ProbeOK(p) /\ ~DropsWholeProbe(p) /\ at[p] > Len(Suite[p])
    BY DEF ProbesInductive, FinishProbe, InProbe
  <1> DEFINE what == IF AskedNothing(p) THEN [ran |-> FALSE, confirmed |-> {}]
                     ELSE [ran |-> ran[p], confirmed |-> confirmed[p]]
  <1>2. what \in [ran : BOOLEAN, confirmed : SUBSET Leaks]
    BY <1>1 DEF Shapes
  <1>3. /\ what.confirmed = confirmed[p]
        /\ what.ran => ran[p]
        /\ confirmed[p] # {} => what.ran
        /\ what.ran => ~AskedNothing(p)
    BY <1>1 DEF AskedNothing, ProbeOK, Ran
  <1>4. /\ dropped_user_steps' \in [Probes -> Nat]
        /\ dropped_user_steps'[p] = dropped[p]
        /\ unconfirmed_plants' \in [Probes -> Nat]
        /\ \A q \in Probes \ {p} : /\ dropped_user_steps'[q] = dropped_user_steps[q]
                                   /\ unconfirmed_plants'[q] = unconfirmed_plants[q]
    BY <1>1 DEF FinishProbe, Shapes
  <1>5. /\ group' \in [Probes -> [ran : BOOLEAN, confirmed : SUBSET Leaks]]
        /\ group'[p] = what
        /\ \A q \in Probes \ {p} : group'[q] = group[q]
    <2>1. group' = [group EXCEPT ![p] = what]
      BY DEF FinishProbe
    <2> HIDE DEF what
    <2> QED
      BY <1>1, <1>2, <2>1 DEF Shapes
  <1> HIDE DEF what
  <1>6. Shapes'
    BY <1>1, <1>4, <1>5 DEF FinishProbe, Shapes
  <1>7. Attributed(p)' /\ Ran(p)'
    BY <1>1, <1>3, <1>5 DEF FinishProbe, ProbeOK, Attributed, Ran, DropsWholeProbe
  <1>8. Landed(p)' <=> Landed(p)
    BY DEF FinishProbe, Landed
  <1>9. Counted(p)'
    BY <1>1, <1>8 DEF FinishProbe, ProbeOK, Counted
  <1>10. Reported(p)'
    <2>1. \A i \in Plants(p) \cup Judged(p) : i < at[p] /\ i # at[p]
      BY <1>1, ReadsAndPlants, PlanLength DEF Shapes
    <2>2. Judged(p) \cap Droppable(p) # {} => dropped'[p] > 0 /\ dropped'[p] = dropped[p]
      BY <1>1, <2>1 DEF FinishProbe, ProbeOK, Counted
    <2>3. /\ ~reading_back[p]
          /\ planted[p] \in Nat /\ unconfirmed[p] \in Nat /\ unconfirmed[p] <= planted[p]
          /\ Plants(p) # {} => planted[p] > 0
          /\ unconfirmed[p] < planted[p] => Landed(p)
      BY <1>1, <2>1 DEF ProbeOK, Counted, Shapes
    <2>4. ~AskedNothing(p) /\ confirmed[p] = {} /\ Plants(p) # {} => Landed(p)
      BY <2>3 DEF AskedNothing
    <2>5. UNCHANGED <<confirmed, dropped>>
      BY DEF FinishProbe
    <2> QED
      BY <1>3, <1>4, <1>5, <1>8, <2>2, <2>4, <2>5 DEF Reported
  <1>11. \A q \in Probes \ {p} : UNCHANGED ProbeState(q) /\ status'[q] = status[q]
    <2>1. status' = [status EXCEPT ![p] = "returned"] /\ status \in [1..N -> Statuses]
      BY DEF FinishProbe, Returns, Ends, JobInductive, JobTypeOK
    <2> QED
      BY <1>4, <1>5, <2>1 DEF FinishProbe, ProbeState, Probes
  <1>12. ProbeOK(p)'
    BY <1>7, <1>9, <1>10 DEF ProbeOK
  <1>13. store \subseteq store'
    BY DEF FinishProbe
  <1> QED
    BY <1>6, <1>11, <1>12, <1>13, OwnStep

\* The record is made once, and of results no probe changes any more.
LEMMA RecordKeeps ==
    ASSUME JobInductive, RecordFollows, [Next]_vars PROVE RecordFollows'
  <1> USE ExitAssumed DEF envVars, runVars, notes
  <1>1. CASE mapped = "results" /\ exit # None
    <2>1. \A p \in Probes : status[p] = "returned"
      BY <1>1, AllReturned
    <2>2. ASSUME NEW p \in Probes
          PROVE  ~(\/ StartProbe(p) \/ DropProbe(p) \/ DropStep(p) \/ Plant(p) \/ ReadBack(p)
                   \/ Judge(p) \/ StepRaises(p) \/ FinishProbe(p))
      <3>1. status[p] # "running" /\ status[p] # "queued"
        BY <2>1
      <3> QED
        BY <3>1 DEF StartProbe, Start, DropProbe, FinishProbe, StepRaises, Returns, Raises,
                    Ends, Running, Queued, DropStep, Plant, ReadBack, Judge, InProbe
    <2>3. UNCHANGED <<mapped, record, exit, group, dropped_user_steps>>
      <3>1. ~Calling
        BY <1>1 DEF Calling, Caller, Collect, CollectError, CancelQueued, Join, Deliver
      <3>2. ~Abort /\ ~Refuse /\ ~Record
        BY <1>1 DEF Abort, Refuse, Record
      <3> QED
        BY <2>2, <3>1, <3>2 DEF Next, vars, jobVars
    <2>4. Versions' = Versions /\ Findings' = Findings
      BY <2>3 DEF Versions, Findings
    <2> QED
      BY <2>3, <2>4 DEF RecordFollows, Recorded
  <1>2. CASE exit = None
    <2>1. CASE Record
      <3>1. Versions' = Versions /\ Findings' = Findings
        BY <2>1 DEF Record, Versions, Findings
      <3> QED
        BY <2>1, <3>1 DEF Record, RecordFollows, Recorded, jobVars
    <2>2. CASE Abort \/ Refuse
      BY <2>2 DEF Abort, Refuse, RecordFollows, Recorded
    <2>3. CASE Calling \/ UNCHANGED vars
      BY <1>2, <2>3 DEF Calling, vars, RecordFollows, Recorded
    <2>4. ASSUME NEW p \in Probes,
                 \/ StartProbe(p) \/ DropProbe(p) \/ DropStep(p) \/ Plant(p) \/ ReadBack(p)
                 \/ Judge(p) \/ StepRaises(p) \/ FinishProbe(p)
          PROVE  exit' = None
      BY <1>2, <2>4 DEF StartProbe, DropProbe, DropStep, Plant, ReadBack, Judge, StepRaises,
                        FinishProbe
    <2> QED
      BY <2>1, <2>2, <2>3, <2>4 DEF Next, RecordFollows, Recorded
  <1>3. CASE mapped # "results" /\ exit # None
    <2>1. ~Recorded
      BY <1>3 DEF RecordFollows
    <2>2. UNCHANGED exit
      <3>1. ASSUME NEW p \in Probes,
                   \/ StartProbe(p) \/ DropProbe(p) \/ DropStep(p) \/ Plant(p) \/ ReadBack(p)
                   \/ Judge(p) \/ StepRaises(p) \/ FinishProbe(p)
            PROVE  UNCHANGED exit
        BY <3>1 DEF StartProbe, DropProbe, DropStep, Plant, ReadBack, Judge, StepRaises,
                    FinishProbe
      <3>2. CASE Calling \/ UNCHANGED vars
        BY <3>2 DEF Calling, vars
      <3>3. ~Abort /\ ~Refuse /\ ~Record
        BY <1>3 DEF Abort, Refuse, Record
      <3> QED
        BY <3>1, <3>2, <3>3 DEF Next
    <2> QED
      BY <2>1, <2>2 DEF RecordFollows, Recorded
  <1> QED
    BY <1>1, <1>2, <1>3

LEMMA ProbesStep ==
    JobInductive /\ ProbesInductive /\ RecordFollows /\ [Next]_vars
        => ProbesInductive' /\ RecordFollows'
  <1> SUFFICES ASSUME JobInductive, ProbesInductive, RecordFollows, [Next]_vars
               PROVE  ProbesInductive'
    BY RecordKeeps
  <1>1. ASSUME NEW p \in Probes,
               \/ StartProbe(p) \/ DropProbe(p) \/ DropStep(p) \/ Plant(p) \/ ReadBack(p)
               \/ Judge(p) \/ StepRaises(p) \/ FinishProbe(p)
        PROVE  ProbesInductive'
    BY <1>1, StatusKeeps, DropProbeKeeps, DropStepKeeps, PlantKeeps, ReadBackKeeps, JudgeKeeps,
       FinishProbeKeeps
  <1>2. CASE Calling
    BY <1>2, StatusKeeps
  <1>3. CASE Abort \/ Refuse \/ Record \/ UNCHANGED vars
    <2>1. UNCHANGED <<store, at, reading_back, planted, unconfirmed, dropped, ran, confirmed,
                      dropped_user_steps, unconfirmed_plants, group, status>>
      BY <1>3 DEF Abort, Refuse, Record, vars, jobVars, runVars, notes
    <2>2. Shapes'
      BY <2>1 DEF ProbesInductive, Shapes
    <2>3. ASSUME NEW q \in Probes PROVE ProbeOK(q)'
      <3>1. UNCHANGED ProbeState(q) /\ store \subseteq store'
        BY <2>1 DEF ProbeState
      <3> QED
        BY <2>1, <3>1, Undisturbed DEF ProbesInductive
    <2> QED
      BY <2>2, <2>3 DEF ProbesInductive
  <1> QED
    BY <1>1, <1>2, <1>3 DEF Next

\* The invariant the theorems below rest on: JobInductive for the jobs,
\* ProbesInductive for the probes, RecordFollows for the record made of them.
THEOREM SuiteInductive == Spec => [](JobInductive /\ ProbesInductive /\ RecordFollows)
  BY SuiteJobs, ProbesInit, ProbesStep, PTL DEF Spec

-----------------------------------------------------------------------------
(* The properties of the suite. *)

\* For every suite, a leak a judged read has seen is in the record of a run that
\* has one, its probe is versioned there and the command exits 2: no lost plant,
\* no dropped step and no schedule of the pool takes it out again.
THEOREM LeaksAreRecorded == Spec => []LeakIsNeverSuppressed
  <1>1. JobInductive /\ ProbesInductive /\ RecordFollows => LeakIsNeverSuppressed
    <2> SUFFICES ASSUME JobInductive, ProbesInductive, RecordFollows, Recorded,
                        NEW p \in Probes, NEW pair \in confirmed[p]
                 PROVE  /\ <<p, pair[1], pair[2]>> \in record.findings
                        /\ p \in record.versions
                        /\ exit = 2
      BY DEF LeakIsNeverSuppressed
    <2>1. status[p] = "returned"
      BY AllReturned DEF RecordFollows
    <2>2. pair \in group[p].confirmed /\ group[p].ran
      BY <2>1 DEF ProbesInductive, ProbeOK, Reported
    <2> DEFINE finding == <<p, pair[1], pair[2]>>
    <2>3. finding \in Findings
      BY <2>2 DEF Findings
    <2>4. p \in Versions
      BY <2>2 DEF Versions
    <2> QED
      BY <2>3, <2>4 DEF RecordFollows
  <1> QED
    BY <1>1, SuiteInductive, PTL

\* For every suite, no leak is attributed to a user on an adapter that cannot carry
\* one, and a probe narrowed to the tenant boundary is disclosed in the record.
THEOREM BoundaryIsHonest == Spec => []UserBoundaryIsHonest
  <1>1. JobInductive /\ ProbesInductive /\ RecordFollows => UserBoundaryIsHonest
    <2> SUFFICES ASSUME JobInductive, ProbesInductive, RecordFollows
                 PROVE  UserBoundaryIsHonest
      OBVIOUS
    <2>1. \A p \in Probes : Attributed(p)
      BY DEF ProbesInductive, ProbeOK
    <2>2. ASSUME Recorded, NEW p \in Probes, Judged(p) \cap Droppable(p) # {}
          PROVE  p \in record.dropped
      <3>1. status[p] = "returned"
        BY <2>2, AllReturned DEF RecordFollows
      <3> QED
        BY <2>2, <3>1 DEF ProbesInductive, ProbeOK, Reported, RecordFollows
    <2> QED
      BY <2>1, <2>2 DEF UserBoundaryIsHonest, Attributed
  <1> QED
    BY <1>1, SuiteInductive, PTL

\* For every suite in which a probe that plants also reads, a probe versioned without a
\* finding judged a read, and if it plants at all one of its own canaries was stored
\* where that read could find it.
THEOREM NoVacuousProbe ==
    ASSUME \A p \in Probes : Plants(p) # {} => Judged(p) # {}
    PROVE  Spec => []PassAskedSomething
  <1>1. JobInductive /\ ProbesInductive /\ RecordFollows => PassAskedSomething
    <2> SUFFICES ASSUME JobInductive, ProbesInductive, RecordFollows, Recorded,
                        NEW p \in record.versions, \A f \in record.findings : f[1] # p
                 PROVE  /\ ~(Judged(p) \subseteq Droppable(p))
                        /\ Plants(p) # {} => Landed(p)
      BY DEF PassAskedSomething, Landed
    <2>1. p \in Probes /\ group[p].ran /\ record.findings = Findings
      BY DEF RecordFollows, Versions
    <2>2. status[p] = "returned"
      BY <2>1, AllReturned DEF RecordFollows
    <2>3. group[p].confirmed = confirmed[p] /\ ~DropsWholeProbe(p)
      BY <2>1, <2>2 DEF ProbesInductive, ProbeOK, Reported, Ran
    <2>4. Judged(p) # {}
      BY <2>1 DEF ProbesInductive, ProbeOK, Ran
    <2>5. confirmed[p] = {}
      <3>1. ASSUME NEW pair \in confirmed[p]
            PROVE  <<p, pair[1], pair[2]>> \in Findings
        BY <2>1, <2>3 DEF Findings
      <3>2. \A d, a : <<p, d, a>>[1] = p
        OBVIOUS
      <3> QED
        BY <2>1, <3>1, <3>2
    <2> QED
      BY <2>1, <2>2, <2>3, <2>4, <2>5 DEF ProbesInductive, ProbeOK, Reported, DropsWholeProbe
  <1> QED
    BY <1>1, SuiteInductive, PTL

-----------------------------------------------------------------------------
(* Type correctness. *)

\* What the stack, the record and the exit code are.
Outcome ==
    /\ leaky \subseteq Families /\ lossy \subseteq Families /\ blind \subseteq Families
    /\ record.versions \subseteq Probes
    /\ record.findings \subseteq Probes \X Document \X Principal
    /\ exit \in {None, 0, 1, 2, 3}

\* The findings of a record are a probe, a document and the principal it was served to.
LEMMA FindingsTyped ==
    ASSUME ProbesInductive PROVE Findings \subseteq Probes \X Document \X Principal
  <1>1. ASSUME NEW p \in Probes, NEW pair \in group[p].confirmed
        PROVE  <<p, pair[1], pair[2]>> \in Probes \X Document \X Principal
    BY <1>1 DEF ProbesInductive, Shapes, Leaks
  <1> QED
    BY <1>1 DEF Findings

LEMMA OutcomeStep == ProbesInductive /\ Outcome /\ [Next]_vars => Outcome'
  <1> SUFFICES ASSUME ProbesInductive, Outcome, [Next]_vars PROVE Outcome'
    OBVIOUS
  <1> USE DEF envVars, runVars, notes
  <1>1. ASSUME NEW p \in Probes,
               \/ StartProbe(p) \/ DropProbe(p) \/ DropStep(p) \/ Plant(p) \/ ReadBack(p)
               \/ Judge(p) \/ StepRaises(p) \/ FinishProbe(p)
        PROVE  UNCHANGED <<leaky, lossy, blind, record, exit>>
    BY <1>1 DEF StartProbe, DropProbe, DropStep, Plant, ReadBack, Judge, StepRaises, FinishProbe
  <1>2. CASE Calling \/ UNCHANGED vars
    BY <1>2 DEF Calling, vars, Outcome
  <1>3. CASE Abort \/ Refuse
    BY <1>3 DEF Abort, Refuse, Outcome
  <1>4. CASE Record
    <2>1. Versions \subseteq Probes
      BY DEF Versions
    <2>2. /\ record'.versions = Versions /\ record'.findings = Findings
          /\ exit' \in {0, 2} /\ UNCHANGED <<leaky, lossy, blind>>
      BY <1>4 DEF Record
    <2> QED
      BY <2>1, <2>2, FindingsTyped DEF Outcome
  <1> QED
    BY <1>1, <1>2, <1>3, <1>4 DEF Next, Outcome

\* In every run of every suite every variable has its type: no more plants go
\* unconfirmed than were made, and a job returns no leak its probe did not confirm.
THEOREM SuiteTypes == Spec => []TypeOK
  <1>1. Init => Outcome
    BY DEF Init, Outcome, NoRecord
  <1>2. JobInductive /\ ProbesInductive /\ Outcome => TypeOK
    <2> SUFFICES ASSUME JobInductive, ProbesInductive, Outcome PROVE TypeOK
      OBVIOUS
    <2>1. ASSUME NEW p \in Probes
          PROVE  /\ unconfirmed[p] <= planted[p]
                 /\ group[p].ran \in BOOLEAN /\ group[p].confirmed \subseteq confirmed[p]
      <3>1. planted[p] \in Nat /\ unconfirmed[p] \in Nat /\ group[p].ran \in BOOLEAN
        BY DEF ProbesInductive, Shapes
      <3>2. ProbeOK(p)
        BY DEF ProbesInductive
      <3>3. unconfirmed[p] <= planted[p]
        BY <3>1, <3>2 DEF ProbeOK, Counted
      <3> QED
        BY <3>1, <3>2, <3>3 DEF ProbeOK, Ran
    <2>2. JobTypeOK /\ Shapes
      BY DEF JobInductive, ProbesInductive
    <2>3. confirmed \in [Probes -> SUBSET (Document \X Principal)]
      BY <2>2 DEF Shapes, Leaks
    <2>5. /\ store \subseteq Document
          /\ \A p \in Probes : at[p] \in 1..(Len(Suite[p]) + 1)
          /\ reading_back \in [Probes -> BOOLEAN] /\ ran \in [Probes -> BOOLEAN]
          /\ planted \in [Probes -> Nat] /\ unconfirmed \in [Probes -> Nat]
          /\ dropped \in [Probes -> Nat]
          /\ dropped_user_steps \in [Probes -> Nat] /\ unconfirmed_plants \in [Probes -> Nat]
      BY <2>2 DEF Shapes
    <2> QED
      BY <2>1, <2>2, <2>3, <2>5 DEF TypeOK, Outcome
  <1> QED
    BY <1>1, <1>2, OutcomeStep, SuiteInductive, PTL DEF Spec

-----------------------------------------------------------------------------
(* The schedule of the pool does not change what a probe finds, unless       *)
(* another probe plants where it reads: for every suite, what the record     *)
(* says of such a probe is what the suite finds when its probes run one      *)
(* after the other.  The argument compares, at every read, the store with    *)
(* the plants the serial suite would have made by then.                      *)

\* The plant at step i of probe q has been written.
Sent(q, i) ==
    /\ i \in Plants(q) /\ ~DropsWholeProbe(q)
    /\ i < at[q] \/ (i = at[q] /\ reading_back[q])

\* The backends hold the corpus and what was sent to those that keep it.
StoreIsSent ==
    \A d : d \in store <=>
        \/ d \in Corpus
        \/ \E q \in Probes : \E i \in 1..Len(Suite[q]) :
              Sent(q, i) /\ d = Suite[q][i].doc /\ d.family \notin lossy

\* What the serial suite finds at step j of probe p.
SerialLeaks(p, j) == {<<d, Suite[p][j].actor>> : d \in LeaksAt(<<p, j>>)}

Asked(p) == Judged(p) \ Droppable(p)

\* An undisturbed probe has found at the reads behind it what the serial suite does.
FoundAsSerial(p) ==
    ~Disturbed(p) =>
        \A pair : pair \in confirmed[p] <=>
            \E j \in Asked(p) : j < at[p] /\ pair \in SerialLeaks(p, j)

\* A probe returns at the end of its plan, unless it was dropped whole.
Finished(p) == status[p] = "returned" => DropsWholeProbe(p) \/ at[p] > Len(Suite[p])

ScheduleInductive ==
    /\ StoreIsSent
    /\ \A p \in Probes : FoundAsSerial(p) /\ Finished(p)

LEMMA ScheduleInit == Init => ScheduleInductive
  <1> SUFFICES ASSUME Init PROVE ScheduleInductive
    OBVIOUS
  <1>1. \A q \in Probes : at[q] = 1 /\ ~reading_back[q] /\ confirmed[q] = {} /\ status[q] = "queued"
    BY DEF Init, JobInit, Probes
  <1>2. \A q \in Probes : \A i \in 1..Len(Suite[q]) : ~Sent(q, i) /\ ~(i < at[q])
    BY <1>1, PlanLength DEF Sent
  <1>3. StoreIsSent
    BY <1>2 DEF Init, StoreIsSent
  <1>4. \A p \in Probes : FoundAsSerial(p) /\ Finished(p)
    BY <1>1, <1>2, ReadsAndPlants DEF FoundAsSerial, Finished, Asked
  <1> QED
    BY <1>3, <1>4 DEF ScheduleInductive

-----------------------------------------------------------------------------
(* What a read finds. *)

\* Where no other probe plants, the store holds what the serial suite would have put there.
LEMMA SameStore ==
    ASSUME ProbesInductive, StoreIsSent, NEW p \in Probes, ~Disturbed(p), ~DropsWholeProbe(p),
           at[p] \in Asked(p), NEW d, d.family = Suite[p][at[p]].doc.family
    PROVE  d \in store <=> d \in StoredFor(<<p, at[p]>>)
  <1> DEFINE y == <<p, at[p]>>
             Before(q, i) == /\ i \in Plants(q) /\ ~DropsWholeProbe(q)
                             /\ q < p \/ (q = p /\ i < at[p])
                             /\ d = Suite[q][i].doc /\ d.family \notin lossy
  <1>1. ASSUME NEW q \in Probes, NEW i \in Plants(q), ~DropsWholeProbe(q), d = Suite[q][i].doc
        PROVE  q = p
    BY <1>1 DEF Disturbed, Asked
  <1>2. ~reading_back[p] /\ p \in Nat
    BY ReadsAndPlants, JobsAssumed DEF ProbesInductive, ProbeOK, Counted, Asked, Probes
  <1>3. d \in StoredFor(y) <=>
            \/ d \in Corpus
            \/ \E q \in Probes : \E i \in 1..Len(Suite[q]) : Before(q, i)
    <2> DEFINE puts == {z \in Positions : /\ z[2] \in Plants(z[1]) /\ ~DropsWholeProbe(z[1])
                                          /\ Earlier(z, y)
                                          /\ Suite[z[1]][z[2]].doc.family \notin lossy}
    <2>1. d \in StoredFor(y) <=>
              d \in Corpus \/ \E z \in puts : d = Suite[z[1]][z[2]].doc
      BY DEF StoredFor
    <2>2. ASSUME NEW z \in puts, d = Suite[z[1]][z[2]].doc
          PROVE  \E q \in Probes : \E i \in 1..Len(Suite[q]) : Before(q, i)
      <3>1. PICK q \in Probes : \E i \in 1..Len(Suite[q]) : z = <<q, i>>
        BY DEF Positions
      <3> QED
        BY <2>2, <3>1 DEF Earlier
    <2>3. ASSUME NEW q \in Probes, NEW i \in 1..Len(Suite[q]), Before(q, i)
          PROVE  \E z \in puts : d = Suite[z[1]][z[2]].doc
      <3>1. <<q, i>> \in Positions
        BY DEF Positions
      <3>2. <<q, i>> \in puts
        BY <2>3, <3>1 DEF Earlier
      <3> QED
        BY <2>3, <3>2
    <2> HIDE DEF puts, Before
    <2> QED
      BY <2>1, <2>2, <2>3
  <1>4. ASSUME NEW q \in Probes, NEW i \in 1..Len(Suite[q])
        PROVE  Before(q, i) <=> Sent(q, i) /\ d = Suite[q][i].doc /\ d.family \notin lossy
    <2>1. Before(q, i) => q = p /\ i < at[p]
      <3>1. Before(q, i) => q = p
        BY <1>1
      <3>2. ~(p < p)
        BY <1>2
      <3> QED
        BY <3>1, <3>2
    <2>2. Sent(q, i) /\ d = Suite[q][i].doc => q = p /\ i < at[p]
      BY <1>1, <1>2 DEF Sent
    <2> QED
      BY <2>1, <2>2, <1>2 DEF Sent
  <1> HIDE DEF Before, y
  <1>5. d \in StoredFor(y) <=> d \in store
    BY <1>3, <1>4 DEF StoreIsSent
  <1> QED
    BY <1>5 DEF y

\* So a read of it confirms the leaks the serial suite would.
LEMMA SameLeaks ==
    ASSUME ProbesInductive, StoreIsSent, NEW p \in Probes, ~Disturbed(p), ~DropsWholeProbe(p),
           at[p] \in Asked(p)
    PROVE  {<<d, Suite[p][at[p]].actor>> :
               d \in {e \in Served(Suite[p][at[p]]) : Foreign(e, Suite[p][at[p]].actor)}}
               = SerialLeaks(p, at[p])
  <1> DEFINE step == Suite[p][at[p]]
             seen == {e \in Served(step) : Foreign(e, step.actor)}
  <1>1. ASSUME NEW d
        PROVE  d \in seen <=> /\ d \in store /\ d.family = step.doc.family
                              /\ step.all \/ d = step.doc
                              /\ d.family \in leaky /\ Foreign(d, step.actor)
    BY DEF Served, Matches
  <1>2. ASSUME NEW d
        PROVE  d \in LeaksAt(<<p, at[p]>>) <=>
                   /\ d \in StoredFor(<<p, at[p]>>) /\ d.family = step.doc.family
                   /\ step.all \/ d = step.doc
                   /\ d.family \in leaky /\ Foreign(d, step.actor)
    BY DEF LeaksAt
  <1>3. \A d : d \in seen <=> d \in LeaksAt(<<p, at[p]>>)
    <2> HIDE DEF seen
    <2> QED
      BY <1>1, <1>2, SameStore
  <1>4. seen = LeaksAt(<<p, at[p]>>)
    <2> HIDE DEF seen
    <2> QED
      BY <1>3
  <1> QED
    BY <1>4 DEF SerialLeaks

-----------------------------------------------------------------------------
(* Each step keeps the invariant. *)

\* The plan fixes what the serial suite finds; only the environment's faults enter.
LEMMA SerialFixed ==
    ASSUME UNCHANGED <<leaky, lossy>>
    PROVE  \A p, j : SerialLeaks(p, j)' = SerialLeaks(p, j)
  BY DEF SerialLeaks, LeaksAt, StoredFor

\* A step that sends no plant leaves the store what it was.
LEMMA NothingSent ==
    ASSUME StoreIsSent, UNCHANGED <<store, lossy>>,
           \A q \in Probes : \A i \in 1..Len(Suite[q]) : Sent(q, i)' <=> Sent(q, i)
    PROVE  StoreIsSent'
  BY DEF StoreIsSent

\* A probe that neither moves nor confirms anything, and does not return.
LEMMA StandsStill ==
    ASSUME UNCHANGED <<leaky, lossy>>, NEW p \in Probes, FoundAsSerial(p), Finished(p),
           UNCHANGED <<at[p], confirmed[p]>>, status'[p] = "returned" => status[p] = "returned"
    PROVE  FoundAsSerial(p)' /\ Finished(p)'
  <1>1. FoundAsSerial(p)'
    BY SerialFixed DEF FoundAsSerial
  <1>2. Finished(p)'
    BY DEF Finished
  <1> QED
    BY <1>1, <1>2

\* A step past which nothing new is asked or sent: a dropped read, a plant read back.
LEMMA PassKeeps ==
    ASSUME ProbesInductive, ScheduleInductive, NEW p \in Probes, DropStep(p) \/ ReadBack(p)
    PROVE  ScheduleInductive'
  <1> USE DEF envVars, runVars, notes, jobVars
  <1>1. /\ Shapes /\ at[p] \in 1..Len(Suite[p]) /\ at[p] \notin Asked(p)
        /\ UNCHANGED <<store, leaky, lossy, confirmed, status>> /\ NextStep(p)
        /\ status[p] = "running"
    BY ReadsAndPlants
       DEF ProbesInductive, ProbeOK, Counted, DropStep, ReadBack, InProbe, Asked
  <1>2. /\ at'[p] = at[p] + 1 /\ at[p] \in Nat
        /\ \A q \in Probes \ {p} : at'[q] = at[q]
    BY <1>1, NextStepStays DEF Shapes
  <1>3. ASSUME NEW q \in Probes, NEW i \in 1..Len(Suite[q]) PROVE Sent(q, i)' <=> Sent(q, i)
    <2>1. CASE q # p
      BY <1>1, <1>2, <2>1 DEF Sent, DropStep, ReadBack, Shapes, ProbesInductive
    <2>2. CASE q = p /\ DropStep(p)
      <3>1. ~reading_back[p] /\ ~reading_back'[p] /\ at[p] \notin Plants(p)
        BY <2>2, ReadsAndPlants DEF ProbesInductive, ProbeOK, Counted, DropStep
      <3> QED
        BY <1>2, <2>2, <3>1, PlanLength DEF Sent
    <2>3. CASE q = p /\ ReadBack(p)
      <3>1. reading_back[p] /\ ~reading_back'[p]
        BY <1>1, <2>3 DEF ReadBack, Shapes
      <3> QED
        BY <1>2, <2>3, <3>1, PlanLength DEF Sent
    <2> QED
      BY <2>1, <2>2, <2>3
  <1>4. StoreIsSent'
    BY <1>1, <1>3, NothingSent DEF ScheduleInductive
  <1>5. ASSUME NEW q \in Probes PROVE FoundAsSerial(q)' /\ Finished(q)'
    <2>1. CASE q # p
      BY <1>1, <1>2, <2>1, StandsStill DEF ScheduleInductive
    <2>2. CASE q = p
      <3>1. \A j \in Asked(p) : j < at'[p] <=> j < at[p]
        BY <1>1, <1>2, ReadsAndPlants, PlanLength DEF Asked
      <3>2. FoundAsSerial(p)'
        BY <1>1, <3>1, SerialFixed DEF ScheduleInductive, FoundAsSerial
      <3> QED
        BY <1>1, <2>2, <3>2 DEF Finished
    <2> QED
      BY <2>1, <2>2
  <1> QED
    BY <1>4, <1>5 DEF ScheduleInductive

LEMMA SendKeeps ==
    ASSUME ProbesInductive, ScheduleInductive, NEW p \in Probes, Plant(p)
    PROVE  ScheduleInductive'
  <1> USE DEF envVars, runVars, notes, jobVars
  <1> DEFINE doc == Suite[p][at[p]].doc
  <1>1. /\ Shapes /\ at[p] \in 1..Len(Suite[p]) /\ at[p] \in Plants(p)
        /\ ~reading_back[p] /\ ~DropsWholeProbe(p)
        /\ UNCHANGED <<leaky, lossy, at, confirmed, status>>
    BY ReadsAndPlants DEF ProbesInductive, Plant, InProbe
  <1>2. store' = IF doc.family \in lossy THEN store ELSE store \cup {doc}
    BY <1>1, PlannedStep DEF Plant
  <1>3. /\ reading_back'[p]
        /\ \A q \in Probes \ {p} : reading_back'[q] = reading_back[q]
    BY <1>1 DEF Plant, Shapes
  <1>4. ASSUME NEW q \in Probes, NEW i \in 1..Len(Suite[q])
        PROVE  Sent(q, i)' <=> Sent(q, i) \/ (q = p /\ i = at[p])
    BY <1>1, <1>3 DEF Sent
  <1>5. StoreIsSent'
    <2> SUFFICES ASSUME NEW d
                 PROVE  d \in store' <=>
                            \/ d \in Corpus
                            \/ \E q \in Probes : \E i \in 1..Len(Suite[q]) :
                                  Sent(q, i)' /\ d = Suite[q][i].doc /\ d.family \notin lossy'
      BY DEF StoreIsSent
    <2>1. d \in store' <=> d \in store \/ (d = doc /\ d.family \notin lossy)
      BY <1>2
    <2>2. d \in store <=>
              \/ d \in Corpus
              \/ \E q \in Probes : \E i \in 1..Len(Suite[q]) :
                    Sent(q, i) /\ d = Suite[q][i].doc /\ d.family \notin lossy
      BY DEF ScheduleInductive, StoreIsSent
    <2> QED
      BY <1>1, <1>4, <2>1, <2>2
  <1>6. ASSUME NEW q \in Probes PROVE FoundAsSerial(q)' /\ Finished(q)'
    BY <1>1, StandsStill DEF ScheduleInductive
  <1> QED
    BY <1>5, <1>6 DEF ScheduleInductive

LEMMA ReadKeeps ==
    ASSUME ProbesInductive, ScheduleInductive, NEW p \in Probes, Judge(p)
    PROVE  ScheduleInductive'
  <1> USE DEF envVars, runVars, notes, jobVars
  <1> DEFINE step == Suite[p][at[p]]
             new  == {<<d, step.actor>> : d \in {e \in Served(step) : Foreign(e, step.actor)}}
  <1>1. /\ Shapes /\ at[p] \in 1..Len(Suite[p]) /\ at[p] \in Asked(p) /\ at[p] \notin Plants(p)
        /\ UNCHANGED <<store, leaky, lossy, reading_back, status>> /\ NextStep(p)
        /\ ~DropsWholeProbe(p) /\ ~reading_back[p] /\ status[p] = "running"
    BY ReadsAndPlants DEF ProbesInductive, ProbeOK, Counted, Judge, InProbe, Asked
  <1>2. /\ at'[p] = at[p] + 1 /\ at[p] \in Nat
        /\ \A q \in Probes \ {p} : at'[q] = at[q]
    BY <1>1, NextStepStays DEF Shapes
  <1>3. /\ confirmed'[p] = confirmed[p] \cup new
        /\ \A q \in Probes \ {p} : confirmed'[q] = confirmed[q]
    <2>1. confirmed' = [confirmed EXCEPT ![p] = confirmed[p] \cup new]
      BY DEF Judge
    <2> HIDE DEF new
    <2> QED
      BY <1>1, <2>1 DEF Shapes
  <1>4. ASSUME NEW q \in Probes, NEW i \in 1..Len(Suite[q]) PROVE Sent(q, i)' <=> Sent(q, i)
    <2>1. CASE q # p
      BY <1>1, <1>2, <2>1 DEF Sent
    <2>2. CASE q = p
      BY <1>1, <1>2, <2>2, PlanLength DEF Sent
    <2> QED
      BY <2>1, <2>2
  <1>5. StoreIsSent'
    BY <1>1, <1>4, NothingSent DEF ScheduleInductive
  <1>6. ASSUME NEW q \in Probes PROVE FoundAsSerial(q)' /\ Finished(q)'
    <2>1. CASE q # p
      BY <1>1, <1>2, <1>3, <2>1, StandsStill DEF ScheduleInductive
    <2>2. CASE q = p
      <3>1. \A j \in Asked(p) : j < at'[p] <=> j < at[p] \/ j = at[p]
        BY <1>1, <1>2, ReadsAndPlants, PlanLength DEF Asked
      <3>2. ~Disturbed(p) => new = SerialLeaks(p, at[p])
        BY <1>1, SameLeaks DEF ScheduleInductive
      <3> HIDE DEF new
      <3>3. FoundAsSerial(p)'
        <4> SUFFICES ASSUME ~Disturbed(p), NEW pair
                     PROVE  pair \in confirmed'[p] <=>
                                \E j \in Asked(p) : j < at'[p] /\ pair \in SerialLeaks(p, j)'
          BY DEF FoundAsSerial, Disturbed, Asked
        <4>1. pair \in confirmed[p] <=>
                  \E j \in Asked(p) : j < at[p] /\ pair \in SerialLeaks(p, j)
          BY DEF ScheduleInductive, FoundAsSerial
        <4>2. \A j : SerialLeaks(p, j)' = SerialLeaks(p, j)
          BY <1>1, SerialFixed
        <4> QED
          BY <1>1, <1>3, <3>1, <3>2, <4>1, <4>2
      <3> QED
        BY <1>1, <2>2, <3>3 DEF Finished
    <2> QED
      BY <2>1, <2>2
  <1> QED
    BY <1>5, <1>6 DEF ScheduleInductive

\* The other steps neither ask nor send; a probe that returns is at its end.
LEMMA RestKeeps ==
    ASSUME JobInductive, ProbesInductive, ScheduleInductive,
           \/ \E p \in Probes : StartProbe(p) \/ DropProbe(p) \/ StepRaises(p) \/ FinishProbe(p)
           \/ Calling \/ Abort \/ Refuse \/ Record \/ UNCHANGED vars
    PROVE  ScheduleInductive'
  <1> USE DEF envVars, runVars, notes, jobVars
  <1>1. UNCHANGED <<store, leaky, lossy, at, reading_back, confirmed>>
    BY DEF StartProbe, DropProbe, StepRaises, FinishProbe, Calling, Abort, Refuse, Record, vars
  <1>2. status \in [1..N -> Statuses]
    BY DEF JobInductive, JobTypeOK
  <1>3. ASSUME NEW q \in Probes, status'[q] = "returned", status[q] # "returned"
        PROVE  DropsWholeProbe(q) \/ at[q] > Len(Suite[q])
    <2>1. ASSUME NEW p \in Probes, StartProbe(p) \/ StepRaises(p) PROVE FALSE
      BY <1>2, <1>3, <2>1 DEF StartProbe, StepRaises, Start, Raises, Ends, Probes
    <2>2. ASSUME NEW p \in Probes, DropProbe(p) \/ FinishProbe(p) PROVE p = q
      BY <1>2, <1>3, <2>2 DEF DropProbe, FinishProbe, Returns, Ends, Probes
    <2>3. ASSUME Calling \/ Abort \/ Refuse \/ Record \/ UNCHANGED vars PROVE FALSE
      BY <1>2, <1>3, <2>3
         DEF Calling, Caller, Collect, CollectError, CancelQueued, Join, Deliver, Queued,
             Abort, Refuse, Record, vars, Probes
    <2> QED
      BY <2>1, <2>2, <2>3 DEF DropProbe, FinishProbe
  <1>4. \A q \in Probes : \A i \in 1..Len(Suite[q]) : Sent(q, i)' <=> Sent(q, i)
    BY <1>1 DEF Sent
  <1>5. StoreIsSent'
    BY <1>1, <1>4, NothingSent DEF ScheduleInductive
  <1>6. \A q \in Probes : FoundAsSerial(q)'
    BY <1>1, SerialFixed DEF ScheduleInductive, FoundAsSerial
  <1>7. \A q \in Probes : Finished(q)'
    BY <1>1, <1>3 DEF ScheduleInductive, Finished
  <1> QED
    BY <1>5, <1>6, <1>7 DEF ScheduleInductive

THEOREM ScheduleInvariant == Spec => []ScheduleInductive
  <1>1. JobInductive /\ ProbesInductive /\ ScheduleInductive /\ [Next]_vars => ScheduleInductive'
    BY PassKeeps, SendKeeps, ReadKeeps, RestKeeps DEF Next
  <1> QED
    BY <1>1, ScheduleInit, SuiteInductive, PTL DEF Spec

-----------------------------------------------------------------------------
\* For every suite and every schedule of the pool, what the record says of a probe no
\* other probe plants for is what the suite finds with its probes in order.
THEOREM ScheduleDoesNotMatter == Spec => []UndisturbedIsSerial
  <1>1. JobInductive /\ ProbesInductive /\ RecordFollows /\ ScheduleInductive
            => UndisturbedIsSerial
    <2> SUFFICES ASSUME JobInductive, ProbesInductive, RecordFollows, ScheduleInductive, Recorded,
                        NEW p \in Probes, ~Disturbed(p)
                 PROVE  FindingsOf(p, record.findings) = FindingsOf(p, SerialFindings)
      BY DEF UndisturbedIsSerial
    <2>1. /\ record.findings = Findings
          /\ group[p].confirmed = confirmed[p] /\ Finished(p) /\ Shapes
      BY AllReturned DEF RecordFollows, ProbesInductive, ProbeOK, Reported, ScheduleInductive
    <2>2. \A j \in Asked(p) : j < at[p]
      <3>1. status[p] = "returned"
        BY AllReturned DEF RecordFollows
      <3>2. CASE DropsWholeProbe(p)
        BY <3>2 DEF DropsWholeProbe, Asked
      <3>3. CASE at[p] > Len(Suite[p])
        BY <2>1, <3>3, ReadsAndPlants, PlanLength DEF Asked, Shapes
      <3> QED
        BY <2>1, <3>1, <3>2, <3>3 DEF Finished
    <2>3. \A pair : pair \in confirmed[p] <=> \E j \in Asked(p) : pair \in SerialLeaks(p, j)
      BY <2>2 DEF ScheduleInductive, FoundAsSerial
    <2>4. ASSUME NEW f \in FindingsOf(p, Findings) PROVE f \in FindingsOf(p, SerialFindings)
      <3>1. PICK q \in Probes : \E pair \in group[q].confirmed : f = <<q, pair[1], pair[2]>>
        BY DEF FindingsOf, Findings
      <3>2. PICK pair \in confirmed[p] : f = <<p, pair[1], pair[2]>>
        BY <2>1, <3>1 DEF FindingsOf
      <3>3. PICK j \in Asked(p) : pair \in SerialLeaks(p, j)
        BY <2>3, <3>2
      <3>4. PICK d \in LeaksAt(<<p, j>>) : pair = <<d, Suite[p][j].actor>>
        BY <3>3 DEF SerialLeaks
      <3>5. f = <<p, d, Suite[p][j].actor>>
        BY <3>2, <3>4
      <3>6. <<p, j>> \in Positions /\ <<p, j>>[2] \in Judged(<<p, j>>[1]) \ Droppable(<<p, j>>[1])
        BY ReadsAndPlants DEF Positions, Asked
      <3>7. f \in SerialFindings
        BY <3>5, <3>6 DEF SerialFindings
      <3> QED
        BY <3>5, <3>7 DEF FindingsOf
    <2>5. ASSUME NEW f \in FindingsOf(p, SerialFindings) PROVE f \in FindingsOf(p, Findings)
      <3>1. PICK y \in Positions :
                /\ y[2] \in Judged(y[1]) \ Droppable(y[1])
                /\ \E d \in LeaksAt(y) : f = <<y[1], d, Suite[y[1]][y[2]].actor>>
        BY DEF FindingsOf, SerialFindings
      <3>2. PICK d \in LeaksAt(y) : f = <<y[1], d, Suite[y[1]][y[2]].actor>>
        BY <3>1
      <3>3. PICK j \in Judged(p) : y = <<p, j>> /\ j \notin Droppable(p)
        BY <3>1, <3>2 DEF FindingsOf, Positions
      <3>4. j \in Asked(p) /\ <<d, Suite[p][j].actor>> \in SerialLeaks(p, j)
        BY <3>3 DEF Asked, SerialLeaks
      <3>5. <<d, Suite[p][j].actor>> \in group[p].confirmed
        BY <2>1, <2>3, <3>4
      <3>6. f = <<p, d, Suite[p][j].actor>>
        BY <3>2, <3>3
      <3>7. f \in Findings
        BY <3>5, <3>6 DEF Findings
      <3> QED
        BY <3>6, <3>7 DEF FindingsOf
    <2>6. FindingsOf(p, Findings) = FindingsOf(p, SerialFindings)
      BY <2>4, <2>5 DEF FindingsOf
    <2> QED
      BY <2>1, <2>6
  <1> QED
    BY <1>1, SuiteInductive, ScheduleInvariant, PTL

-----------------------------------------------------------------------------
(* Sequences made of sequences.  What a flattened sequence holds is computed by a *)
(* recursive function; the facts about it are proved of the least index at which  *)
(* they would fail.                                                               *)

LEMMA LeastOne ==
    ASSUME NEW S \in SUBSET Nat, S # {}
    PROVE  \E m \in S : \A x \in S : m <= x
<1> DEFINE R == OpToRel(<, Nat)
<1>1. IsWellFoundedOn(R, Nat)
    BY NatLessThanWellFounded
<1>2. PICK m \in S : \A y \in S : ~(<<y, m>> \in R)
    <2> HIDE DEF R
    <2> QED BY <1>1, WFMin
<1>3. \A y \in S : m <= y
    <2> SUFFICES ASSUME NEW y \in S PROVE ~(y < m)
        OBVIOUS
    <2> QED BY <1>2 DEF OpToRel
<1> QED
    BY <1>3

\* One sequence after another.
Joins(E, s, t, joined) ==
    /\ joined \in Seq(E) /\ Len(s) \in Nat /\ Len(t) \in Nat
    /\ Len(joined) = Len(s) + Len(t)
    /\ \A i \in 1..Len(s) : joined[i] = s[i]
    /\ \A j \in 1..Len(t) : joined[Len(s) + j] = t[j]

LEMMA Joined ==
    ASSUME NEW E, NEW s \in Seq(E), NEW t \in Seq(E)
    PROVE  Joins(E, s, t, s \o t)
BY DEF Joins

LEMMA Short ==
    ASSUME NEW E, NEW e \in E
    PROVE  /\ <<>> \in Seq(E) /\ Len(<<>>) = 0
           /\ <<e>> \in Seq(E) /\ Len(<<e>>) = 1 /\ <<e>>[1] = e
<1>1. <<>> \in Seq(E) /\ Len(<<>>) = 0
    OBVIOUS
<1>2. <<e>> \in Seq(E)
    OBVIOUS
<1> QED BY <1>1, <1>2

\* The prefixes of a flattened sequence: pre[k] is made of the first k sequences.
Beginnings(E, n, ss, pre) ==
    /\ pre \in [0..n -> Seq(E)]
    /\ pre[0] = <<>>
    /\ \A k \in 1..n : pre[k] = pre[k - 1] \o ss[k]

LEMMA PrefixesExist ==
    ASSUME NEW E, NEW n \in Nat, NEW ss \in [1..n -> Seq(E)]
    PROVE  \E pre : Beginnings(E, n, ss, pre)
<1> DEFINE Bad == {k \in 0..n : ~\E pre : Beginnings(E, k, ss, pre)}
<1>1. ASSUME Bad # {} PROVE FALSE
    <2>1. Bad \in SUBSET Nat
        OBVIOUS
    <2>2. PICK k \in Bad : \A x \in Bad : k <= x
        BY <1>1, <2>1, LeastOne
    <2>3. k \in 0..n /\ ~\E pre : Beginnings(E, k, ss, pre)
        BY <2>2
    <2>4. k # 0
        <3>1. Beginnings(E, 0, ss, [i \in 0..0 |-> <<>>])
            BY DEF Beginnings
        <3> QED BY <3>1, <2>3
    <2>5. k - 1 \in 0..n /\ k - 1 \notin Bad
        <3>1. k \in 0..n /\ (k - 1 \in Bad => k <= k - 1)
            BY <2>2, <2>3
        <3> HIDE DEF Bad
        <3> QED BY <3>1, <2>4
    <2>6. PICK pre : Beginnings(E, k - 1, ss, pre)
        BY <2>5
    <2> DEFINE ext == [i \in 0..k |-> IF i = k THEN pre[k - 1] \o ss[k] ELSE pre[i]]
    <2>7. k \in 1..n /\ ss[k] \in Seq(E)
        BY <2>3, <2>4
    <2>8. pre[k - 1] \in Seq(E) /\ pre[k - 1] \o ss[k] \in Seq(E)
        BY <2>6, <2>7 DEF Beginnings
    <2>9. ext \in [0..k -> Seq(E)]
        BY <2>6, <2>7, <2>8 DEF Beginnings
    <2>10. ext[0] = <<>>
        BY <2>6, <2>7 DEF Beginnings
    <2>11. \A i \in 1..k : ext[i] = ext[i - 1] \o ss[i]
        <3> SUFFICES ASSUME NEW i \in 1..k PROVE ext[i] = ext[i - 1] \o ss[i]
            OBVIOUS
        <3>1. CASE i = k
            <4>1. k \in 0..k /\ k - 1 \in 0..k /\ k - 1 # k
                BY <2>7
            <4> QED BY <3>1, <4>1
        <3>2. CASE i # k
            <4>1. i \in 1..(k - 1) /\ i \in 0..k /\ i - 1 \in 0..k /\ i - 1 # k
                BY <3>2, <2>7
            <4>2. pre[i] = pre[i - 1] \o ss[i]
                BY <4>1, <2>6 DEF Beginnings
            <4> QED BY <4>1, <4>2, <3>2
        <3> QED BY <3>1, <3>2
    <2>12. Beginnings(E, k, ss, ext)
        <3> HIDE DEF ext
        <3> QED BY <2>9, <2>10, <2>11 DEF Beginnings
    <2> QED BY <2>3, <2>12
<1>2. n \in 0..n
    OBVIOUS
<1> QED
    BY <1>1, <1>2

LEMMA FlattenedIsLast ==
    ASSUME NEW E, NEW n \in Nat, NEW ss \in [1..n -> Seq(E)],
           NEW pre, Beginnings(E, n, ss, pre)
    PROVE  FlattenSeq(ss) = pre[n]
<1>1. ss \in Seq(Seq(E)) /\ Len(ss) = n
    OBVIOUS
<1>2. CASE n = 0
    <2>1. ss = <<>>
        BY <1>1, <1>2
    <2>2. FlattenSeq(ss) = ss
        BY <1>1, <1>2 DEF FlattenSeq
    <2> QED BY <2>1, <2>2, <1>2 DEF Beginnings
<1>3. CASE n # 0
    <2> DEFINE Rec(f) == [i \in 1..n |-> IF i = 1 THEN ss[i] ELSE f[i - 1] \o ss[i]]
               f == CHOOSE f : f = Rec(f)
               g == [i \in 1..n |-> pre[i]]
    <2>1. g = Rec(g)
        <3>1. \A i \in 1..n : g[i] = Rec(g)[i]
            <4> SUFFICES ASSUME NEW i \in 1..n PROVE g[i] = Rec(g)[i]
                OBVIOUS
            <4>1. pre[i] = pre[i - 1] \o ss[i] /\ ss[i] \in Seq(E)
                BY DEF Beginnings
            <4>2. CASE i = 1
                <5>1. pre[1] = <<>> \o ss[1]
                    <6>1. i - 1 = 0 /\ pre[0] = <<>>
                        BY <4>2 DEF Beginnings
                    <6> QED BY <4>1, <4>2, <6>1
                <5>2. <<>> \o ss[1] = ss[1]
                    BY <4>1, <4>2
                <5> QED BY <4>2, <5>1, <5>2
            <4>3. CASE i # 1
                <5>1. i - 1 \in 1..n
                    BY <4>3
                <5> QED BY <4>1, <4>3, <5>1
            <4> QED BY <4>2, <4>3
        <3> QED BY <3>1
    <2>2. f = Rec(f)
        <3> HIDE DEF Rec
        <3> QED BY <2>1
    <2>3. FlattenSeq(ss) = f[n]
        BY <1>1, <1>3 DEF FlattenSeq
    <2> HIDE DEF f
    <2> DEFINE Bad == {i \in 1..n : f[i] # pre[i]}
    <2>4. ASSUME Bad # {} PROVE FALSE
        <3>1. Bad \in SUBSET Nat
            OBVIOUS
        <3>2. PICK k \in Bad : \A x \in Bad : k <= x
            BY <2>4, <3>1, LeastOne
        <3>3. f[k] = IF k = 1 THEN ss[k] ELSE f[k - 1] \o ss[k]
            BY <2>2, <3>2
        <3>4. pre[k] = pre[k - 1] \o ss[k] /\ ss[k] \in Seq(E)
            BY <3>2 DEF Beginnings
        <3>5. k # 1
            <4> SUFFICES ASSUME k = 1 PROVE FALSE
                OBVIOUS
            <4>1. pre[1] = <<>> \o ss[1]
                <5>1. k - 1 = 0 /\ pre[0] = <<>>
                    BY DEF Beginnings
                <5> QED BY <3>4, <5>1
            <4>2. <<>> \o ss[1] = ss[1]
                BY <3>4
            <4> QED BY <3>2, <3>3, <4>1, <4>2
        <3>6. k - 1 \in 1..n /\ k - 1 \notin Bad
            BY <3>2, <3>5
        <3> QED BY <3>2, <3>3, <3>4, <3>5, <3>6
    <2>5. n \in 1..n
        BY <1>3
    <2> QED BY <2>3, <2>4, <2>5
<1> QED
    BY <1>2, <1>3

\* The places of a flattened sequence: off[k] is where the first k sequences end.
Places(n, ss, flat, off) ==
    /\ off \in [0..n -> Nat]
    /\ off[0] = 0 /\ off[n] = Len(flat)
    /\ \A k \in 1..n : off[k] = off[k - 1] + Len(ss[k])
    /\ \A k, l \in 0..n : k <= l => off[k] <= off[l]
    /\ \A k \in 1..n : \A j \in 1..Len(ss[k]) :
          off[k - 1] + j \in 1..Len(flat) /\ flat[off[k - 1] + j] = ss[k][j]
    /\ \A i \in 1..Len(flat) : \E k \in 1..n : \E j \in 1..Len(ss[k]) : i = off[k - 1] + j

LEMMA FlatPlaces ==
    ASSUME NEW E, NEW n \in Nat, NEW ss \in [1..n -> Seq(E)]
    PROVE  FlattenSeq(ss) \in Seq(E) /\ \E off : Places(n, ss, FlattenSeq(ss), off)
<1>1. PICK pre : Beginnings(E, n, ss, pre)
    BY PrefixesExist
<1> DEFINE off == [k \in 0..n |-> Len(pre[k])]
           flat == FlattenSeq(ss)
<1>2. flat = pre[n] /\ n \in 0..n /\ 0 \in 0..n
    <2>1. flat = pre[n]
        BY <1>1, FlattenedIsLast, Zenon
    <2> QED BY <2>1
<1>3. \A k \in 0..n : pre[k] \in Seq(E) /\ Len(pre[k]) \in Nat
    BY <1>1 DEF Beginnings
<1>4. flat \in Seq(E)
    BY <1>2, <1>3
<1>5. off \in [0..n -> Nat] /\ off[0] = 0 /\ off[n] = Len(flat)
    BY <1>1, <1>2, <1>3 DEF Beginnings
<1>6. \A k \in 1..n : k \in 0..n /\ k - 1 \in 0..n /\ ss[k] \in Seq(E) /\ Len(ss[k]) \in Nat
                      /\ pre[k] = pre[k - 1] \o ss[k]
    <2> SUFFICES ASSUME NEW k \in 1..n
                 PROVE  /\ k \in 0..n /\ k - 1 \in 0..n
                        /\ ss[k] \in Seq(E) /\ pre[k] = pre[k - 1] \o ss[k]
        <3>1. \A k \in 1..n : ss[k] \in Seq(E)
            OBVIOUS
        <3> QED BY <3>1
    <2>1. k \in 0..n /\ k - 1 \in 0..n
        OBVIOUS
    <2>2. ss[k] \in Seq(E)
        OBVIOUS
    <2>3. pre[k] = pre[k - 1] \o ss[k]
        BY <1>1, Zenon DEF Beginnings
    <2> QED BY <2>1, <2>2, <2>3
<1>7. \A k \in 1..n : off[k] = off[k - 1] + Len(ss[k])
    <2> SUFFICES ASSUME NEW k \in 1..n PROVE Len(pre[k]) = Len(pre[k - 1]) + Len(ss[k])
        BY <1>6
    <2>1. pre[k - 1] \in Seq(E) /\ ss[k] \in Seq(E) /\ pre[k] = pre[k - 1] \o ss[k]
        BY <1>3, <1>6
    <2>2. Joins(E, pre[k - 1], ss[k], pre[k])
        BY <2>1, Joined
    <2> QED BY <2>2 DEF Joins
<1> HIDE DEF flat
<1>8. ASSUME NEW k \in 0..n, NEW l \in 0..n, k <= l
      PROVE  off[k] <= off[l] /\ \A i \in 1..off[k] : pre[l][i] = pre[k][i]
    <2> DEFINE Bad == {m \in k..n : ~(off[k] <= off[m] /\ \A i \in 1..off[k] : pre[m][i] = pre[k][i])}
    <2>1. ASSUME Bad # {} PROVE FALSE
        <3>1. Bad \in SUBSET Nat
            OBVIOUS
        <3>2. PICK m \in Bad : \A x \in Bad : m <= x
            BY <2>1, <3>1, LeastOne
        <3>3. m # k
            <4> HIDE DEF off
            <4> QED BY <3>2, <1>5
        <3>4. m \in 1..n /\ m - 1 \in k..n /\ m - 1 \notin Bad
            <4>1. m \in k..n /\ (m - 1 \in Bad => m <= m - 1)
                BY <3>2
            <4> HIDE DEF Bad
            <4> QED BY <4>1, <3>3
        <3>5. off[k] <= off[m - 1] /\ \A i \in 1..off[k] : pre[m - 1][i] = pre[k][i]
            <4> HIDE DEF off
            <4> QED BY <3>4
        <3>6. /\ off[m] = off[m - 1] + Len(ss[m]) /\ Len(ss[m]) \in Nat /\ pre[m] = pre[m - 1] \o ss[m]
              /\ off[m] \in Nat /\ off[m - 1] \in Nat /\ off[k] \in Nat /\ off[m - 1] = Len(pre[m - 1])
              /\ pre[m - 1] \in Seq(E) /\ ss[m] \in Seq(E)
            <4>1. m - 1 \in 0..n /\ m \in 0..n
                BY <3>4
            <4> QED BY <1>3, <1>5, <1>6, <1>7, <3>4, <4>1
        <3> HIDE DEF off, Bad
        <3>7. off[k] <= off[m]
            <4>1. off[m - 1] <= off[m]
                BY <3>4, <3>6
            <4> QED BY <4>1, <3>4, <3>5, <3>6
        <3>8. \A i \in 1..off[k] : pre[m][i] = pre[k][i]
            <4> SUFFICES ASSUME NEW i \in 1..off[k] PROVE pre[m][i] = pre[k][i]
                OBVIOUS
            <4>1. i \in 1..Len(pre[m - 1])
                BY <3>5, <3>6
            <4>3. Joins(E, pre[m - 1], ss[m], pre[m])
                BY <3>4, <3>6, Joined
            <4>2. pre[m][i] = pre[m - 1][i]
                BY <4>1, <4>3 DEF Joins
            <4> QED BY <4>2, <3>5
        <3> QED BY <3>2, <3>7, <3>8 DEF Bad
    <2>2. l \in k..n
        BY <1>8
    <2> HIDE DEF off
    <2> QED BY <2>1, <2>2
<1>9. \A k \in 1..n : \A j \in 1..Len(ss[k]) :
          off[k - 1] + j \in 1..Len(flat) /\ flat[off[k - 1] + j] = ss[k][j]
    <2> SUFFICES ASSUME NEW k \in 1..n, NEW j \in 1..Len(ss[k])
                 PROVE  off[k - 1] + j \in 1..Len(flat) /\ flat[off[k - 1] + j] = ss[k][j]
        OBVIOUS
    <2>1. k \in 0..n /\ k - 1 \in 0..n /\ n \in 0..n /\ k <= n
        OBVIOUS
    <2>2. /\ off[k] = off[k - 1] + Len(ss[k]) /\ Len(ss[k]) \in Nat /\ off[k - 1] \in Nat
          /\ off[k] \in Nat /\ off[n] = Len(flat)
          /\ off[k - 1] = Len(pre[k - 1]) /\ pre[k] = pre[k - 1] \o ss[k]
          /\ pre[k - 1] \in Seq(E) /\ ss[k] \in Seq(E)
        BY <1>3, <1>5, <1>6, <1>7, <2>1
    <2>3. off[k] <= off[n] /\ \A i \in 1..off[k] : pre[n][i] = pre[k][i]
        BY <2>1, <1>8
    <2> HIDE DEF off
    <2>4. off[k - 1] + j \in 1..off[k] /\ off[k - 1] + j \in 1..Len(flat)
        BY <2>2, <2>3
    <2>5. flat[off[k - 1] + j] = pre[k][off[k - 1] + j]
        BY <2>3, <2>4, <1>2
    <2>6. pre[k][off[k - 1] + j] = ss[k][j]
        <3>1. Joins(E, pre[k - 1], ss[k], pre[k])
            BY <2>2, Joined
        <3> QED BY <3>1, <2>2 DEF Joins
    <2> QED BY <2>4, <2>5, <2>6
<1>10. \A i \in 1..Len(flat) : \E k \in 1..n : \E j \in 1..Len(ss[k]) : i = off[k - 1] + j
    <2> SUFFICES ASSUME NEW i \in 1..off[n]
                 PROVE  \E k \in 1..n : \E j \in 1..Len(ss[k]) : i = off[k - 1] + j
        BY <1>5
    <2> DEFINE Past == {k \in 0..n : i <= off[k]}
    <2>1. Past \in SUBSET Nat /\ n \in Past
        OBVIOUS
    <2>2. PICK k \in Past : \A x \in Past : k <= x
        BY <2>1, LeastOne
    <2>3. i <= off[k] /\ k \in 0..n /\ i \in Nat /\ i > 0
        BY <2>2, <1>5
    <2>4. k \in 1..n
        <3> HIDE DEF off
        <3> QED BY <2>3, <1>5
    <2>5. k - 1 \in 0..n /\ k - 1 \notin Past
        BY <2>2, <2>4
    <2>6. /\ off[k] = off[k - 1] + Len(ss[k]) /\ Len(ss[k]) \in Nat /\ off[k - 1] \in Nat
        BY <1>5, <1>6, <1>7, <2>4, <2>5
    <2> HIDE DEF off
    <2>7. i - off[k - 1] \in 1..Len(ss[k]) /\ i = off[k - 1] + (i - off[k - 1])
        BY <2>3, <2>5, <2>6
    <2> QED BY <2>4, <2>7
<1>11. Places(n, ss, flat, off)
    <2>1. \A k, l \in 0..n : k <= l => off[k] <= off[l]
        BY <1>8
    <2> HIDE DEF off
    <2> QED BY <2>1, <1>5, <1>7, <1>9, <1>10 DEF Places
<1> QED
    BY <1>4, <1>11 DEF flat

\* A finite set in some order.
LEMMA InOrder ==
    ASSUME NEW S, IsFiniteSet(S)
    PROVE  /\ Cardinality(S) \in Nat
           /\ SetToSeq(S) \in [1..Cardinality(S) -> S]
           /\ SetToSeq(S) \in Seq(S) /\ Len(SetToSeq(S)) = Cardinality(S)
           /\ \A x \in S : \E i \in 1..Cardinality(S) : SetToSeq(S)[i] = x
<1> DEFINE n == Cardinality(S)
           f == SetToSeq(S)
<1>1. n \in Nat /\ ExistsBijection(1..n, S)
    BY FS_CardinalityType
<1>2. PICK g : g \in Bijection(1..n, S)
    BY <1>1 DEF ExistsBijection
<1>3. g \in [1..n -> S] /\ IsInjective(g)
    BY <1>2 DEF Bijection, Injection, IsInjective
<1>4. f \in [1..n -> S] /\ IsInjective(f)
    BY <1>3 DEF SetToSeq
<1> HIDE DEF f
<1>5. f \in Injection(1..n, S)
    BY <1>4 DEF Injection, IsInjective
<1>6. IsFiniteSet(1..n) /\ Cardinality(1..n) = n
    BY <1>1, FS_Interval
<1> HIDE DEF n
<1>7. Cardinality(1..n) = Cardinality(S) <=> f \in Surjection(1..n, S)
    BY <1>5, FS_Injection
<1>8. f \in Surjection(1..n, S)
    BY <1>6, <1>7 DEF n
<1>9. \A x \in S : \E i \in 1..n : f[i] = x
    BY <1>8 DEF Surjection
<1>10. f \in Seq(S) /\ Len(f) = n
    BY <1>1, <1>4
<1> QED
    BY <1>1, <1>4, <1>9, <1>10 DEF f, n

\* For each element of a finite set a part, one after the other.
Strung(S, parts) == FlattenSeq([i \in DOMAIN SetToSeq(S) |-> parts[SetToSeq(S)[i]]])

MadeOf(E, S, parts, made) ==
    /\ made \in Seq(E)
    /\ \A i \in 1..Len(made) : \E x \in S : \E j \in 1..Len(parts[x]) : made[i] = parts[x][j]
    /\ \A x \in S : \E o \in Nat : \A j \in 1..Len(parts[x]) :
          o + j \in 1..Len(made) /\ made[o + j] = parts[x][j]

LEMMA StrungParts ==
    ASSUME NEW E, NEW S, IsFiniteSet(S), NEW parts \in [S -> Seq(E)]
    PROVE  MadeOf(E, S, parts, Strung(S, parts))
<1> DEFINE n == Cardinality(S)
           f == SetToSeq(S)
           ss == [i \in 1..n |-> parts[f[i]]]
           flat == FlattenSeq(ss)
<1>1. /\ n \in Nat /\ f \in [1..n -> S] /\ DOMAIN f = 1..n
      /\ \A x \in S : \E i \in 1..n : f[i] = x
    BY InOrder
<1>2. Strung(S, parts) = flat
    BY <1>1 DEF Strung
<1> HIDE DEF n, f
<1>3. ss \in [1..n -> Seq(E)]
    BY <1>1
<1>4. \A i \in 1..n : ss[i] = parts[f[i]]
    OBVIOUS
<1> HIDE DEF ss
<1>5. flat \in Seq(E) /\ \E off : Places(n, ss, flat, off)
    BY <1>1, <1>3, FlatPlaces
<1> HIDE DEF flat
<1>6. PICK off : Places(n, ss, flat, off)
    BY <1>5
<1>7. ASSUME NEW i \in 1..Len(flat)
      PROVE  \E x \in S : \E j \in 1..Len(parts[x]) : flat[i] = parts[x][j]
    <2>1. PICK k \in 1..n : \E j \in 1..Len(ss[k]) : i = off[k - 1] + j
        BY <1>6, <1>7, Zenon DEF Places
    <2>2. PICK j \in 1..Len(ss[k]) : i = off[k - 1] + j
        BY <2>1
    <2>3. flat[off[k - 1] + j] = ss[k][j]
        BY <1>6, Zenon DEF Places
    <2>4. f[k] \in S /\ ss[k] = parts[f[k]]
        BY <1>1, <1>4
    <2>5. flat[i] = parts[f[k]][j] /\ j \in 1..Len(parts[f[k]])
        BY <2>2, <2>3, <2>4, Zenon
    <2> QED BY <2>4, <2>5, Zenon
<1>8. ASSUME NEW x \in S
      PROVE  \E o \in Nat : \A j \in 1..Len(parts[x]) :
                o + j \in 1..Len(flat) /\ flat[o + j] = parts[x][j]
    <2>1. PICK k \in 1..n : f[k] = x
        BY <1>1, Zenon
    <2>2. ss[k] = parts[x]
        BY <2>1, <1>4, Zenon
    <2>3. \A j \in 1..Len(ss[k]) : off[k - 1] + j \in 1..Len(flat) /\ flat[off[k - 1] + j] = ss[k][j]
        BY <1>6, Zenon DEF Places
    <2>4. off[k - 1] \in Nat
        <3>1. k - 1 \in 0..n
            BY <1>1
        <3> QED BY <3>1, <1>6 DEF Places
    <2> QED BY <2>2, <2>3, <2>4, Zenon
<1>9. MadeOf(E, S, parts, flat)
    BY <1>5, <1>7, <1>8, Zenon DEF MadeOf
<1> QED
    BY <1>2, <1>9

\* Some elements of a sequence left out, the others changed one by one.
LeftOf(E, n, keep, as, flat) ==
    /\ flat \in Seq(E) /\ Len(flat) <= n
    /\ \A i \in 1..Len(flat) : \E k \in keep : flat[i] = as[k]
    /\ \E place \in [keep -> 1..Len(flat)] :
          /\ \A k \in keep : flat[place[k]] = as[k]
          /\ \A k, l \in keep : k < l => place[k] < place[l]

LEMMA Filtered ==
    ASSUME NEW E, NEW n \in Nat, NEW keep \in SUBSET (1..n), NEW as \in [1..n -> E],
           NEW ss, ss = [i \in 1..n |-> IF i \notin keep THEN <<>> ELSE <<as[i]>>],
           NEW flat, flat = FlattenSeq(ss)
    PROVE  LeftOf(E, n, keep, as, flat)
<1>1. ss \in [1..n -> Seq(E)]
    <2> SUFFICES ASSUME NEW i \in 1..n
                 PROVE  (IF i \notin keep THEN <<>> ELSE <<as[i]>>) \in Seq(E)
        OBVIOUS
    <2>1. as[i] \in E
        OBVIOUS
    <2>2. <<as[i]>> \in Seq(E) /\ <<>> \in Seq(E)
        BY <2>1, Short
    <2> QED BY <2>2
<1>2. \A i \in 1..n : IF i \in keep THEN ss[i] = <<as[i]>> /\ Len(ss[i]) = 1 /\ ss[i][1] = as[i]
                                    ELSE Len(ss[i]) = 0
    OBVIOUS
<1>3. flat \in Seq(E) /\ \E off : Places(n, ss, flat, off)
    BY <1>1, FlatPlaces
<1>4. PICK off : Places(n, ss, flat, off)
    BY <1>3
<1>5. /\ off \in [0..n -> Nat] /\ off[0] = 0 /\ off[n] = Len(flat)
      /\ \A k \in 1..n : off[k] = off[k - 1] + Len(ss[k])
      /\ \A k, l \in 0..n : k <= l => off[k] <= off[l]
    BY <1>4, Zenon DEF Places
<1>6. /\ \A k \in 1..n : \A j \in 1..Len(ss[k]) :
            off[k - 1] + j \in 1..Len(flat) /\ flat[off[k - 1] + j] = ss[k][j]
      /\ \A i \in 1..Len(flat) : \E k \in 1..n : \E j \in 1..Len(ss[k]) : i = off[k - 1] + j
    BY <1>4, Zenon DEF Places
<1>7. Len(flat) <= n
    <2> DEFINE Bad == {k \in 0..n : ~(off[k] <= k)}
    <2>1. ASSUME Bad # {} PROVE FALSE
        <3>1. Bad \in SUBSET Nat
            OBVIOUS
        <3>2. PICK k \in Bad : \A x \in Bad : k <= x
            BY <2>1, <3>1, LeastOne
        <3>3. k \in 0..n /\ ~(off[k] <= k) /\ (k - 1 \in Bad => k <= k - 1)
            BY <3>2
        <3>4. k \in 1..n
            BY <3>3, <1>5
        <3>5. k - 1 \in 0..n /\ k - 1 \notin Bad
            <4> HIDE DEF Bad
            <4> QED BY <3>3, <3>4
        <3>6. off[k - 1] <= k - 1
            BY <3>5
        <3> HIDE DEF Bad
        <3>7. off[k] = off[k - 1] + Len(ss[k]) /\ (Len(ss[k]) = 0 \/ Len(ss[k]) = 1)
            BY <3>4, <1>2, <1>5
        <3>8. off[k - 1] \in Nat
            BY <3>5, <1>5
        <3> QED BY <3>3, <3>4, <3>6, <3>7, <3>8
    <2>2. n \in 0..n
        OBVIOUS
    <2> QED BY <2>1, <2>2, <1>5
<1>8. ASSUME NEW i \in 1..Len(flat) PROVE \E k \in keep : flat[i] = as[k]
    <2>1. PICK k \in 1..n : \E j \in 1..Len(ss[k]) : i = off[k - 1] + j
        BY <1>6, <1>8, Zenon
    <2>2. PICK j \in 1..Len(ss[k]) : i = off[k - 1] + j
        BY <2>1
    <2>3. flat[off[k - 1] + j] = ss[k][j]
        BY <1>6, Zenon
    <2>4. k \in keep /\ j = 1
        BY <1>2, <2>2
    <2>5. ss[k][1] = as[k]
        BY <1>2, <2>4
    <2> QED BY <2>2, <2>3, <2>4, <2>5, Zenon
<1> DEFINE place == [k \in keep |-> off[k - 1] + 1]
<1>9. place \in [keep -> 1..Len(flat)] /\ \A k \in keep : flat[place[k]] = as[k]
    <2> SUFFICES ASSUME NEW k \in keep
                 PROVE  off[k - 1] + 1 \in 1..Len(flat) /\ flat[off[k - 1] + 1] = as[k]
        OBVIOUS
    <2>1. k \in 1..n
        OBVIOUS
    <2>2. Len(ss[k]) = 1 /\ ss[k][1] = as[k]
        BY <1>2, <2>1
    <2>3. 1 \in 1..Len(ss[k])
        BY <2>2
    <2> QED BY <2>1, <2>2, <2>3, <1>6
<1>10. \A k, l \in keep : k < l => place[k] < place[l]
    <2> SUFFICES ASSUME NEW k \in keep, NEW l \in keep, k < l
                 PROVE  off[k - 1] + 1 < off[l - 1] + 1
        OBVIOUS
    <2>1. k \in 1..n /\ l \in 1..n /\ k \in 0..n /\ l - 1 \in 0..n /\ k - 1 \in 0..n /\ k <= l - 1
        OBVIOUS
    <2>2. off[k] <= off[l - 1] /\ off[k] = off[k - 1] + Len(ss[k]) /\ Len(ss[k]) = 1
        BY <2>1, <1>2, <1>5
    <2>3. off[k] \in Nat /\ off[k - 1] \in Nat /\ off[l - 1] \in Nat
        BY <2>1, <1>5
    <2> QED BY <2>2, <2>3
<1> HIDE DEF place
<1> QED
    BY <1>3, <1>7, <1>8, <1>9, <1>10 DEF LeftOf

-----------------------------------------------------------------------------
(* The substrate, and the plans made from it. *)

SubstrateTyped ==
    /\ \E t \in 1..MaxTenants : users \in [1..t -> 0..MaxUsers]
    /\ entities \in Nat /\ entities >= MinEntities
    /\ probe \in ProbeKinds /\ live \in BOOLEAN /\ carries \in BOOLEAN
    /\ landed \subseteq TenantIds /\ (live \/ landed = TenantIds)
    /\ vanish \subseteq Hard
    /\ leak \in {"nobody", "tenants", "principals"}

LEMMA SubstrateFacts ==
    ASSUME SubstrateTyped
    PROVE  /\ TenantIds # {} /\ \A t \in TenantIds : users[t] \in Nat
           /\ IsFiniteSet(Principals) /\ IsFiniteSet(Markers)
           /\ Hard \subseteq Markers /\ EntityCanaries \subseteq Markers /\ InCorpus \subseteq Markers
           /\ \A p \in Principals : p.tenant \in TenantIds /\ p.user \in 0..users[p.tenant]
           /\ \A t \in TenantIds : \A u \in 0..users[t] : [tenant |-> t, user |-> u] \in Principals
           /\ \A m \in Markers : m.tenant \in TenantIds /\ m.n \in Nat /\ Owner(m) \in Principals
<1>1. PICK t \in 1..MaxTenants : users \in [1..t -> 0..MaxUsers]
    BY DEF SubstrateTyped
<1>2. TenantIds = 1..t /\ t \in Nat /\ MaxUsers \in Nat /\ MARKERS_PER_TYPE \in Nat
    BY <1>1, MarkersAssumed, SubstrateAssumed DEF TenantIds
<1>3. TenantIds # {} /\ \A s \in TenantIds : users[s] \in 0..MaxUsers /\ users[s] \in Nat
    BY <1>1, <1>2
<1>4. \A p \in Principals : p.tenant \in TenantIds /\ p.user \in 0..users[p.tenant]
    BY DEF Principals
<1>5. \A s \in TenantIds : \A u \in 0..users[s] : [tenant |-> s, user |-> u] \in Principals
    BY DEF Principals
<1>6. IsFiniteSet(Principals)
    <2> DEFINE pairs == TenantIds \X (0..MaxUsers)
               all == {[tenant |-> x[1], user |-> x[2]] : x \in pairs}
               f == [x \in pairs |-> [tenant |-> x[1], user |-> x[2]]]
    <2>1. IsFiniteSet(TenantIds) /\ IsFiniteSet(0..MaxUsers)
        BY <1>2, FS_Interval
    <2>2. IsFiniteSet(pairs)
        BY <2>1, FS_Product
    <2>3. f \in Surjection(pairs, all)
        BY DEF Surjection
    <2> HIDE DEF pairs, f, all
    <2>4. IsFiniteSet(all)
        BY <2>2, <2>3, FS_Surjection
    <2>5. Principals \subseteq all
        <3> SUFFICES ASSUME NEW s \in TenantIds, NEW u \in 0..users[s]
                     PROVE  [tenant |-> s, user |-> u] \in all
            BY DEF Principals
        <3>1. u \in 0..MaxUsers
            <4>1. users[s] \in 0..MaxUsers /\ u \in 0..users[s]
                BY <1>3
            <4> QED BY <4>1, <1>2
        <3>2. <<s, u>> \in pairs
            BY <3>1 DEF pairs
        <3> QED BY <3>2 DEF all
    <2> QED BY <2>4, <2>5, FS_Subset
<1>7. IsFiniteSet(Markers)
    <2> DEFINE numbers == 0..(3 * MARKERS_PER_TYPE - 1)
               pairs == TenantIds \X numbers
               f == [x \in pairs |-> [tenant |-> x[1], n |-> x[2]]]
    <2>1. IsFiniteSet(TenantIds) /\ IsFiniteSet(numbers)
        BY <1>2, FS_Interval
    <2>2. IsFiniteSet(pairs)
        BY <2>1, FS_Product
    <2>3. f \in Surjection(pairs, Markers)
        <3>1. f \in [pairs -> Markers]
            BY DEF Markers
        <3>2. \A m \in Markers : \E x \in pairs : f[x] = m
            <4> SUFFICES ASSUME NEW m \in Markers PROVE \E x \in pairs : f[x] = m
                OBVIOUS
            <4>1. <<m.tenant, m.n>> \in pairs /\ m = [tenant |-> m.tenant, n |-> m.n]
                BY DEF Markers
            <4> QED BY <4>1
        <3> QED BY <3>1, <3>2 DEF Surjection
    <2> HIDE DEF pairs, f
    <2> QED BY <2>2, <2>3, FS_Surjection
<1>8. Hard \subseteq Markers /\ EntityCanaries \subseteq Markers /\ InCorpus \subseteq Markers
    BY DEF Hard, EntityCanaries, InCorpus
<1>9. ASSUME NEW m \in Markers
      PROVE  m.tenant \in TenantIds /\ m.n \in Nat /\ Owner(m) \in Principals
    <2>1. m.tenant \in TenantIds /\ m.n \in Nat
        BY <1>2 DEF Markers
    <2>2. Owner(m).user \in 0..users[m.tenant]
        <3> DEFINE k == users[m.tenant]
        <3>1. k \in Nat /\ (k # 0 => m.n % k \in 0..(k - 1))
            BY <1>3, <2>1
        <3> HIDE DEF k
        <3>2. (IF k = 0 THEN 0 ELSE (m.n % k) + 1) \in 0..k
            BY <3>1
        <3> QED BY <3>2 DEF k, Owner, TENANT_LEVEL
    <2>3. Owner(m) = [tenant |-> m.tenant, user |-> Owner(m).user]
        BY DEF Owner
    <2> QED BY <2>1, <2>2, <2>3, <1>5
<1> QED
    BY <1>3, <1>4, <1>5, <1>6, <1>7, <1>8, <1>9

Steps == [action : {"plant", "read"}, actor : Principals, asks : SUBSET Markers]

\* The reads of some principals, in some order.
ReadsBy(readers, asks) == {ReadStep(p, asks) : p \in readers}

ReadsAre(readers, asks, reads) ==
    /\ reads \in Seq(Steps)
    /\ \A j \in 1..Len(reads) : \E p \in readers : reads[j] = ReadStep(p, asks)
    /\ \A p \in readers : \E j \in 1..Len(reads) : reads[j] = ReadStep(p, asks)

LEMMA ReadsInOrder ==
    ASSUME SubstrateTyped, NEW asks \in SUBSET Markers, NEW readers \in SUBSET Principals
    PROVE  ReadsAre(readers, asks, SetToSeq(ReadsBy(readers, asks)))
<1> DEFINE S == ReadsBy(readers, asks)
           f == [p \in readers |-> ReadStep(p, asks)]
           reads == SetToSeq(S)
<1>1. IsFiniteSet(readers)
    BY SubstrateFacts, FS_Subset
<1>2. f \in Surjection(readers, S)
    BY DEF Surjection, ReadsBy
<1>3. S \subseteq Steps /\ \A x \in S : \E p \in readers : x = ReadStep(p, asks)
    BY DEF ReadStep, Steps, ReadsBy
<1> HIDE DEF f
<1>4. IsFiniteSet(S)
    <2> HIDE DEF S
    <2> QED BY <1>1, <1>2, FS_Surjection
<1>5. /\ reads \in Seq(S)
      /\ \A j \in 1..Len(reads) : reads[j] \in S
      /\ \A x \in S : \E j \in 1..Len(reads) : reads[j] = x
    <2> HIDE DEF S
    <2>1. /\ Cardinality(S) \in Nat /\ SetToSeq(S) \in [1..Cardinality(S) -> S]
          /\ SetToSeq(S) \in Seq(S) /\ Len(SetToSeq(S)) = Cardinality(S)
          /\ \A x \in S : \E i \in 1..Cardinality(S) : SetToSeq(S)[i] = x
        BY <1>4, InOrder
    <2> QED BY <2>1
<1>6. reads \in Seq(Steps)
    BY <1>3, <1>5
<1>7. \A p \in readers : ReadStep(p, asks) \in S
    BY DEF ReadsBy
<1> QED
    BY <1>3, <1>5, <1>6, <1>7 DEF ReadsAre

\* What is asked of each element of a set, by everybody to whom some of it is foreign.
AsksAre(S, asked, steps) ==
    /\ steps \in Seq(Steps)
    /\ \A i \in 1..Len(steps) : \E x \in S : \E p \in Observers(asked[x]) :
          steps[i] = ReadStep(p, asked[x])
    /\ \A x \in S : \A p \in Observers(asked[x]) : \E i \in 1..Len(steps) :
          steps[i] = ReadStep(p, asked[x])

LEMMA AskedOfEach ==
    ASSUME SubstrateTyped, NEW S, IsFiniteSet(S), NEW asked \in [S -> SUBSET Markers],
           NEW steps, steps = Strung(S, [x \in S |-> Asking(asked[x])])
    PROVE  AsksAre(S, asked, steps)
<1> DEFINE parts == [x \in S |-> Asking(asked[x])]
<1>1. ASSUME NEW x \in S
      PROVE  /\ parts[x] \in Seq(Steps)
             /\ \A j \in 1..Len(parts[x]) : \E p \in Observers(asked[x]) :
                   parts[x][j] = ReadStep(p, asked[x])
             /\ \A p \in Observers(asked[x]) : \E j \in 1..Len(parts[x]) :
                   parts[x][j] = ReadStep(p, asked[x])
    <2>1. asked[x] \in SUBSET Markers /\ Observers(asked[x]) \in SUBSET Principals
        BY DEF Observers
    <2>2. parts[x] = SetToSeq(ReadsBy(Observers(asked[x]), asked[x]))
        BY DEF Asking, ReadsBy
    <2> HIDE DEF parts
    <2>3. ReadsAre(Observers(asked[x]), asked[x],
                   SetToSeq(ReadsBy(Observers(asked[x]), asked[x])))
        BY <2>1, ReadsInOrder
    <2>4. ReadsAre(Observers(asked[x]), asked[x], parts[x])
        BY <2>2, <2>3
    <2> QED BY <2>4, Zenon DEF ReadsAre
<1>2. parts \in [S -> Seq(Steps)]
    BY <1>1
<1>3. steps = Strung(S, parts)
    OBVIOUS
<1> HIDE DEF parts
<1>4. /\ steps \in Seq(Steps)
      /\ \A i \in 1..Len(steps) : \E x \in S : \E j \in 1..Len(parts[x]) : steps[i] = parts[x][j]
      /\ \A x \in S : \E o \in Nat : \A j \in 1..Len(parts[x]) :
            o + j \in 1..Len(steps) /\ steps[o + j] = parts[x][j]
    <2>1. MadeOf(Steps, S, parts, Strung(S, parts))
        BY <1>2, StrungParts
    <2>2. MadeOf(Steps, S, parts, steps)
        BY <2>1, <1>3
    <2> QED BY <2>2, Zenon DEF MadeOf
<1>5. ASSUME NEW i \in 1..Len(steps)
      PROVE  \E x \in S : \E p \in Observers(asked[x]) : steps[i] = ReadStep(p, asked[x])
    <2>1. PICK x \in S : \E j \in 1..Len(parts[x]) : steps[i] = parts[x][j]
        BY <1>4
    <2>2. PICK j \in 1..Len(parts[x]) : steps[i] = parts[x][j]
        BY <2>1
    <2> QED BY <2>2, <1>1, Zenon
<1>6. ASSUME NEW x \in S, NEW p \in Observers(asked[x])
      PROVE  \E i \in 1..Len(steps) : steps[i] = ReadStep(p, asked[x])
    <2>1. PICK o \in Nat : \A j \in 1..Len(parts[x]) :
              o + j \in 1..Len(steps) /\ steps[o + j] = parts[x][j]
        BY <1>4
    <2>2. PICK j \in 1..Len(parts[x]) : parts[x][j] = ReadStep(p, asked[x])
        BY <1>1, Zenon
    <2> QED BY <2>1, <2>2, Zenon
<1> QED
    BY <1>4, <1>5, <1>6 DEF AsksAre

\* The markers a probe goes for.
Sought ==
    CASE probe = "boundary"  -> Hard \cap InCorpus
      [] probe = "inversion" -> EntityCanaries
      [] probe \in {"entity", "ikea", "pipeline"} -> InCorpus
      [] OTHER -> Hard

\* A read asks for markers the probe goes for, one of them foreign to the reader, ...
ReadsSought(s) ==
    \A i \in 1..Len(s) : IsRead(s[i]) =>
        /\ s[i].asks \subseteq Sought /\ \E m \in s[i].asks : ForeignTo(m, s[i].actor)
        /\ probe \in ByMarker => \E m \in Sought : s[i].asks = {m}

\* ... a plant is of one of them, foreign to somebody, ...
PlantsSought(s) ==
    \A i \in 1..Len(s) : ~IsRead(s[i]) =>
        /\ probe \in Planting
        /\ \E m \in Sought : s[i].asks = {m} /\ \E p \in Principals : ForeignTo(m, p)

\* ... and whoever the adapter can express asks for what is foreign to it, once that is
\* planted.
Expressed(p, carried) == p.user # TENANT_LEVEL => carried

Crossed(s, m, p) ==
    \E i \in 1..Len(s) :
        /\ IsRead(s[i]) /\ s[i].actor = p /\ m \in s[i].asks
        /\ probe \in Planting => \E k \in 1..(i - 1) : ~IsRead(s[k]) /\ s[k].asks = {m}

Crosses(s, carried) ==
    \A m \in Sought : \A p \in Principals :
        ForeignTo(m, p) /\ Expressed(p, carried) => Crossed(s, m, p)

Plans(s) == s \in Seq(Steps) /\ ReadsSought(s) /\ PlantsSought(s) /\ Crosses(s, TRUE)

LEMMA SoughtAreMarkers ==
    ASSUME SubstrateTyped
    PROVE  Sought \subseteq Markers /\ IsFiniteSet(Sought) /\ (probe \in Planting => Sought = Hard)
<1>1. Sought \subseteq Markers
    BY SubstrateFacts DEF Sought
<1>2. probe \in Planting => Sought = Hard
    BY DEF Sought, Planting
<1> QED
    BY <1>1, <1>2, SubstrateFacts, FS_Subset

LEMMA AskingPlans ==
    ASSUME SubstrateTyped, NEW S, IsFiniteSet(S), NEW asked \in [S -> SUBSET Sought],
           probe \notin Planting,
           \A m \in Sought : \E x \in S : m \in asked[x],
           probe \in ByMarker => \A x \in S : \E m \in Sought : asked[x] = {m}
    PROVE  Plans(Strung(S, [x \in S |-> Asking(asked[x])]))
<1> DEFINE s == Strung(S, [x \in S |-> Asking(asked[x])])
<1>1. asked \in [S -> SUBSET Markers]
    BY SoughtAreMarkers
<1>2. /\ s \in Seq(Steps)
      /\ \A i \in 1..Len(s) : \E x \in S : \E p \in Observers(asked[x]) : s[i] = ReadStep(p, asked[x])
      /\ \A x \in S : \A p \in Observers(asked[x]) : \E i \in 1..Len(s) :
            s[i] = ReadStep(p, asked[x])
    <2>1. AsksAre(S, asked, s)
        BY <1>1, AskedOfEach
    <2> HIDE DEF s
    <2> QED BY <2>1 DEF AsksAre
<1> HIDE DEF s
<1>3. \A i \in 1..Len(s) : IsRead(s[i])
    <2> SUFFICES ASSUME NEW i \in 1..Len(s) PROVE IsRead(s[i])
        OBVIOUS
    <2>1. \E x \in S : \E p \in Observers(asked[x]) : s[i] = ReadStep(p, asked[x])
        BY <1>2
    <2> QED BY <2>1 DEF ReadStep, IsRead
<1>4. ReadsSought(s)
    <2> SUFFICES ASSUME NEW i \in 1..Len(s)
                 PROVE  /\ s[i].asks \subseteq Sought /\ \E m \in s[i].asks : ForeignTo(m, s[i].actor)
                        /\ probe \in ByMarker => \E m \in Sought : s[i].asks = {m}
        BY DEF ReadsSought
    <2>1. PICK x \in S : \E p \in Observers(asked[x]) : s[i] = ReadStep(p, asked[x])
        BY <1>2
    <2>2. PICK p \in Observers(asked[x]) : s[i] = ReadStep(p, asked[x])
        BY <2>1
    <2>3. s[i].asks = asked[x] /\ s[i].actor = p
        BY <2>2 DEF ReadStep
    <2>4. \E m \in asked[x] : ForeignTo(m, p)
        BY DEF Observers
    <2> QED BY <2>3, <2>4
<1>5. PlantsSought(s)
    BY <1>3 DEF PlantsSought
<1>6. Crosses(s, TRUE)
    <2> SUFFICES ASSUME NEW m \in Sought, NEW p \in Principals, ForeignTo(m, p)
                 PROVE  Crossed(s, m, p)
        BY DEF Crosses
    <2>1. PICK x \in S : m \in asked[x]
        OBVIOUS
    <2>2. p \in Observers(asked[x])
        BY <2>1 DEF Observers
    <2>3. PICK i \in 1..Len(s) : s[i] = ReadStep(p, asked[x])
        BY <1>2, <2>2
    <2>4. s[i].asks = asked[x] /\ s[i].actor = p
        BY <2>3 DEF ReadStep
    <2> QED BY <1>3, <2>1, <2>4 DEF Crossed
<1> QED
    BY <1>2, <1>4, <1>5, <1>6 DEF Plans, s

\* Each marker asked for by name.
LEMMA PlansByMarker ==
    ASSUME SubstrateTyped, NEW S, S = Sought, probe \notin Planting
    PROVE  Plans(ForEach(S, LAMBDA m : Asking({m})))
<1> DEFINE asked == [m \in S |-> {m}]
<1>1. IsFiniteSet(S) /\ asked \in [S -> SUBSET Sought]
    BY SoughtAreMarkers
<1>2. \A m \in Sought : \E x \in S : m \in asked[x]
    OBVIOUS
<1>3. \A x \in S : \E m \in Sought : asked[x] = {m}
    OBVIOUS
<1>4. Strung(S, [x \in S |-> Asking(asked[x])]) = ForEach(S, LAMBDA m : Asking({m}))
    <2> DEFINE f == SetToSeq(S)
    <2>1. \A i \in DOMAIN f : f[i] \in S
        BY <1>1, InOrder
    <2> HIDE DEF f
    <2>2. [i \in DOMAIN f |-> [x \in S |-> Asking(asked[x])][f[i]]] = [i \in DOMAIN f |-> Asking({f[i]})]
        BY <2>1
    <2> QED BY <2>2 DEF Strung, ForEach, f
<1> HIDE DEF asked
<1>5. Plans(Strung(S, [x \in S |-> Asking(asked[x])]))
    BY <1>1, <1>2, <1>3, AskingPlans
<1> QED
    BY <1>4, <1>5

\* Each entity asked about, by whoever some canary that names it is foreign to.
LEMMA PlansByEntity ==
    ASSUME SubstrateTyped, Sought = InCorpus, probe \notin Planting, probe \notin ByMarker
    PROVE  Plans(EntityPlan)
<1> DEFINE S == 0..(entities - 1)
           asked == [e \in S |-> Naming(e)]
<1>1. IsFiniteSet(S) /\ entities \in Nat
    BY FS_Interval DEF SubstrateTyped
<1>2. asked \in [S -> SUBSET Sought]
    BY DEF Naming
<1>3. \A m \in Sought : \E x \in S : m \in asked[x]
    <2> SUFFICES ASSUME NEW m \in InCorpus PROVE \E x \in S : m \in Naming(x)
        OBVIOUS
    <2>1. entities # 0 /\ m \in Markers
        BY DEF InCorpus
    <2>2. m.n \in Nat
        BY <2>1, SubstrateFacts
    <2>3. m.n % entities \in S
        BY <1>1, <2>1, <2>2
    <2>4. m \in Naming(m.n % entities)
        BY DEF Naming
    <2> QED BY <2>3, <2>4
<1>4. Strung(S, [x \in S |-> Asking(asked[x])]) = EntityPlan
    <2> DEFINE f == SetToSeq(S)
    <2>1. \A i \in DOMAIN f : f[i] \in S
        BY <1>1, InOrder
    <2> HIDE DEF f
    <2>2. [i \in DOMAIN f |-> [x \in S |-> Asking(asked[x])][f[i]]]
          = [i \in DOMAIN f |-> Asking(Naming(f[i]))]
        BY <2>1
    <2> QED BY <2>2 DEF Strung, ForEach, EntityPlan, f
<1> HIDE DEF asked, S
<1>5. Plans(Strung(S, [x \in S |-> Asking(asked[x])]))
    BY <1>1, <1>2, <1>3, AskingPlans
<1> QED
    BY <1>4, <1>5

\* Each hard canary planted, and then asked for: what a read of it may bring back is hard
\* canaries, itself among them.
PlantedAndAsked(asks) ==
    [m \in {m \in Hard : Observers({m}) # {}} |->
        <<PlantStep(m)>> \o SetToSeq(ReadsBy(Observers({m}), asks[m]))]

LEMMA PlantedPart ==
    ASSUME SubstrateTyped, NEW asks \in [Hard -> SUBSET Hard],
           NEW m \in Hard, Observers({m}) # {}
    PROVE  LET piece == PlantedAndAsked(asks)[m] IN
           /\ piece \in Seq(Steps) /\ 1 \in 1..Len(piece) /\ piece[1] = PlantStep(m)
           /\ \A j \in 1..Len(piece) : j # 1 =>
                 \E p \in Observers({m}) : piece[j] = ReadStep(p, asks[m])
           /\ \A p \in Observers({m}) : \E j \in 1..Len(piece) : j > 1 /\ piece[j] = ReadStep(p, asks[m])
<1> DEFINE piece == PlantedAndAsked(asks)[m]
           reads == SetToSeq(ReadsBy(Observers({m}), asks[m]))
<1>1. m \in Markers /\ Hard \subseteq Markers /\ asks[m] \in SUBSET Markers
    BY SubstrateFacts
<1>2. Observers({m}) \in SUBSET Principals
    BY DEF Observers
<1>3. ReadsAre(Observers({m}), asks[m], reads)
    BY <1>1, <1>2, ReadsInOrder
<1>4. /\ reads \in Seq(Steps)
      /\ \A j \in 1..Len(reads) : \E p \in Observers({m}) : reads[j] = ReadStep(p, asks[m])
      /\ \A p \in Observers({m}) : \E j \in 1..Len(reads) : reads[j] = ReadStep(p, asks[m])
    BY <1>3 DEF ReadsAre
<1>5. PlantStep(m) \in Steps
    BY <1>1, SubstrateFacts DEF PlantStep, Steps
<1> DEFINE first == <<PlantStep(m)>>
<1>6. first \in Seq(Steps) /\ Len(first) = 1 /\ first[1] = PlantStep(m)
    BY <1>5, Short
<1>7. piece = first \o reads
    BY DEF PlantedAndAsked
<1> HIDE DEF piece, reads, first
<1>8. /\ piece \in Seq(Steps) /\ Len(reads) \in Nat /\ Len(piece) = 1 + Len(reads)
      /\ piece[1] = PlantStep(m)
      /\ \A j \in 1..Len(reads) : piece[1 + j] = reads[j]
    <2>1. Joins(Steps, first, reads, first \o reads)
        BY <1>4, <1>6, Joined
    <2>2. Joins(Steps, first, reads, piece)
        BY <2>1, <1>7
    <2> QED BY <2>2, <1>6 DEF Joins
<1>9. ASSUME NEW j \in 1..Len(piece), j # 1
      PROVE  \E p \in Observers({m}) : piece[j] = ReadStep(p, asks[m])
    <2>1. j - 1 \in 1..Len(reads) /\ 1 + (j - 1) = j
        BY <1>8, <1>9
    <2>2. piece[j] = reads[j - 1]
        BY <1>8, <2>1
    <2> QED BY <1>4, <2>1, <2>2
<1>10. ASSUME NEW p \in Observers({m})
       PROVE  \E j \in 1..Len(piece) : j > 1 /\ piece[j] = ReadStep(p, asks[m])
    <2>1. PICK j \in 1..Len(reads) : reads[j] = ReadStep(p, asks[m])
        BY <1>4
    <2>2. 1 + j \in 1..Len(piece) /\ 1 + j > 1 /\ piece[1 + j] = reads[j]
        BY <1>8
    <2> QED BY <2>1, <2>2
<1>11. 1 \in 1..Len(piece)
    BY <1>8
<1> QED
    BY <1>8, <1>9, <1>10, <1>11 DEF piece

LEMMA PlansByPlanting ==
    ASSUME SubstrateTyped, NEW asks \in [Hard -> SUBSET Hard],
           \A m \in Hard : m \in asks[m],
           probe \in Planting,
           probe \in ByMarker => \A m \in Hard : asks[m] = {m}
    PROVE  Plans(PlantThenAsk(asks))
<1> DEFINE S == {m \in Hard : Observers({m}) # {}}
           parts == PlantedAndAsked(asks)
           s == PlantThenAsk(asks)
<1>1. IsFiniteSet(S) /\ Sought = Hard /\ S \subseteq Hard
    BY SoughtAreMarkers, FS_Subset
<1>2. ASSUME NEW m \in S
      PROVE  /\ parts[m] \in Seq(Steps) /\ 1 \in 1..Len(parts[m]) /\ parts[m][1] = PlantStep(m)
             /\ \A j \in 1..Len(parts[m]) : j # 1 =>
                   \E p \in Observers({m}) : parts[m][j] = ReadStep(p, asks[m])
             /\ \A p \in Observers({m}) :
                   \E j \in 1..Len(parts[m]) : j > 1 /\ parts[m][j] = ReadStep(p, asks[m])
    BY PlantedPart
<1>3. parts \in [S -> Seq(Steps)]
    <2>1. parts = [m \in S |-> parts[m]]
        BY DEF PlantedAndAsked
    <2> HIDE DEF parts, S
    <2> QED BY <1>2, <2>1
<1>4. s = Strung(S, parts)
    <2> DEFINE f == SetToSeq(S)
    <2> HIDE DEF S
    <2>1. \A i \in DOMAIN f : f[i] \in S
        BY <1>1, InOrder
    <2> HIDE DEF f
    <2>2. [i \in DOMAIN f |-> parts[f[i]]]
          = [i \in DOMAIN f |->
                <<PlantStep(f[i])>> \o
                SetToSeq({ReadStep(p, asks[f[i]]) : p \in Observers({f[i]})})]
        <3>1. \A m \in S : parts[m] = <<PlantStep(m)>> \o
                                      SetToSeq({ReadStep(p, asks[m]) : p \in Observers({m})})
            BY DEF PlantedAndAsked, ReadsBy, S
        <3> HIDE DEF parts
        <3> QED BY <2>1, <3>1
    <2> QED BY <2>2 DEF Strung, ForEach, PlantThenAsk, f, S
<1> HIDE DEF parts, s
<1>5. MadeOf(Steps, S, parts, s)
    <2> HIDE DEF S
    <2> QED BY <1>1, <1>3, <1>4, StrungParts
<1>6. /\ s \in Seq(Steps)
      /\ \A i \in 1..Len(s) : \E x \in S : \E j \in 1..Len(parts[x]) : s[i] = parts[x][j]
      /\ \A x \in S : \E o \in Nat : \A j \in 1..Len(parts[x]) :
            o + j \in 1..Len(s) /\ s[o + j] = parts[x][j]
    BY <1>5, Zenon DEF MadeOf
<1>7. ASSUME NEW i \in 1..Len(s)
      PROVE  \E m \in S : \/ s[i] = PlantStep(m)
                          \/ \E p \in Observers({m}) : s[i] = ReadStep(p, asks[m])
    <2>1. PICK m \in S : \E j \in 1..Len(parts[m]) : s[i] = parts[m][j]
        BY <1>6
    <2>2. PICK j \in 1..Len(parts[m]) : s[i] = parts[m][j]
        BY <2>1
    <2> HIDE DEF S
    <2>3. CASE j = 1
        BY <2>2, <2>3, <1>2
    <2>4. CASE j # 1
        <3>1. \E p \in Observers({m}) : parts[m][j] = ReadStep(p, asks[m])
            BY <2>4, <1>2
        <3> QED BY <3>1, <2>2
    <2> QED BY <2>3, <2>4
<1>8. ReadsSought(s)
    <2> SUFFICES ASSUME NEW i \in 1..Len(s), IsRead(s[i])
                 PROVE  /\ s[i].asks \subseteq Sought /\ \E m \in s[i].asks : ForeignTo(m, s[i].actor)
                        /\ probe \in ByMarker => \E m \in Sought : s[i].asks = {m}
        BY DEF ReadsSought
    <2>1. PICK m \in S : \/ s[i] = PlantStep(m)
                         \/ \E p \in Observers({m}) : s[i] = ReadStep(p, asks[m])
        BY <1>7
    <2>7. ~IsRead(PlantStep(m))
        BY DEF PlantStep, IsRead
    <2>8. s[i] # PlantStep(m)
        BY <2>7
    <2>2. PICK p \in Observers({m}) : s[i] = ReadStep(p, asks[m])
        BY <2>1, <2>8
    <2>3. s[i].asks = asks[m] /\ s[i].actor = p
        BY <2>2 DEF ReadStep
    <2>4. ForeignTo(m, p)
        BY DEF Observers
    <2>5. m \in Hard /\ asks[m] \subseteq Hard /\ m \in asks[m]
        OBVIOUS
    <2>6. probe \in ByMarker => asks[m] = {m}
        BY <2>5
    <2> HIDE DEF S
    <2> QED BY <1>1, <2>3, <2>4, <2>5, <2>6
<1>9. PlantsSought(s)
    <2> SUFFICES ASSUME NEW i \in 1..Len(s), ~IsRead(s[i])
                 PROVE  \E m \in Sought : s[i].asks = {m} /\ \E p \in Principals : ForeignTo(m, p)
        BY DEF PlantsSought
    <2>1. PICK m \in S : \/ s[i] = PlantStep(m)
                         \/ \E p \in Observers({m}) : s[i] = ReadStep(p, asks[m])
        BY <1>7
    <2>5. \A p \in Observers({m}) : IsRead(ReadStep(p, asks[m]))
        BY DEF ReadStep, IsRead
    <2>2. s[i] = PlantStep(m)
        BY <2>1, <2>5
    <2>3. s[i].asks = {m} /\ m \in Hard
        BY <2>2 DEF PlantStep
    <2>4. \E p \in Principals : ForeignTo(m, p)
        BY DEF Observers
    <2> QED BY <1>1, <2>3, <2>4
<1>10. Crosses(s, TRUE)
    <2> SUFFICES ASSUME NEW m \in Sought, NEW p \in Principals, ForeignTo(m, p)
                 PROVE  Crossed(s, m, p)
        BY DEF Crosses
    <2>0. m \in Hard
        BY <1>1
    <2>1. p \in Observers({m}) /\ m \in S
        BY <2>0 DEF Observers
    <2> HIDE DEF S
    <2>2. PICK o \in Nat : \A j \in 1..Len(parts[m]) :
              o + j \in 1..Len(s) /\ s[o + j] = parts[m][j]
        BY <1>6, <2>1
    <2>3. PICK j \in 1..Len(parts[m]) : j > 1 /\ parts[m][j] = ReadStep(p, asks[m])
        BY <1>2, <2>1
    <2>4. o + j \in 1..Len(s) /\ s[o + j] = ReadStep(p, asks[m])
        BY <2>2, <2>3
    <2>5. o + 1 \in 1..(o + j - 1) /\ s[o + 1] = PlantStep(m)
        <3>1. 1 \in 1..Len(parts[m]) /\ parts[m][1] = PlantStep(m)
            BY <1>2, <2>1
        <3>2. s[o + 1] = parts[m][1]
            BY <3>1, <2>2
        <3>3. parts[m] \in Seq(Steps)
            BY <1>2, <2>1
        <3>4. Len(parts[m]) \in Nat
            BY <3>3
        <3>5. o + 1 \in 1..(o + j - 1)
            BY <3>4, <2>3
        <3> QED BY <3>1, <3>2, <3>5
    <2>6. IsRead(s[o + j]) /\ s[o + j].actor = p /\ m \in s[o + j].asks
        <3>1. IsRead(ReadStep(p, asks[m])) /\ ReadStep(p, asks[m]).actor = p
              /\ ReadStep(p, asks[m]).asks = asks[m]
            BY DEF ReadStep, IsRead
        <3> QED BY <3>1, <2>4, <2>0
    <2>7. ~IsRead(s[o + 1]) /\ s[o + 1].asks = {m}
        BY <2>5 DEF PlantStep, IsRead
    <2> QED BY <2>4, <2>5, <2>6, <2>7 DEF Crossed
<1> QED
    BY <1>6, <1>8, <1>9, <1>10 DEF Plans, s

\* All are planted, and then all are asked for by everybody to whom some are foreign.
LEMMA PlansByPoisoning ==
    ASSUME SubstrateTyped, probe \in Planting, probe \notin ByMarker
    PROVE  Plans(PoisonPlan)
<1> DEFINE S == {m \in Hard : Observers({m}) # {}}
           parts == [m \in S |-> <<PlantStep(m)>>]
           plants == Strung(S, parts)
           reads == Asking(S)
           s == PoisonPlan
<1>1. /\ IsFiniteSet(S) /\ Sought = Hard /\ S \subseteq Hard /\ S \in SUBSET Markers
      /\ Observers(S) \in SUBSET Principals
    BY SoughtAreMarkers, FS_Subset DEF Observers
<1>2. ASSUME NEW m \in S
      PROVE  parts[m] \in Seq(Steps) /\ Len(parts[m]) = 1 /\ parts[m][1] = PlantStep(m)
    <2>1. PlantStep(m) \in Steps
        BY <1>1, SubstrateFacts DEF PlantStep, Steps
    <2>2. parts[m] = <<PlantStep(m)>>
        OBVIOUS
    <2> HIDE DEF parts, S
    <2> QED BY <2>1, <2>2, Short
<1>3. parts \in [S -> Seq(Steps)]
    BY <1>2
<1>4. s = plants \o reads
    <2> DEFINE f == SetToSeq(S)
    <2> HIDE DEF S
    <2>1. \A i \in DOMAIN f : f[i] \in S
        BY <1>1, InOrder
    <2> HIDE DEF f
    <2>2. [i \in DOMAIN f |-> parts[f[i]]] = [i \in DOMAIN f |-> <<PlantStep(f[i])>>]
        BY <2>1
    <2> QED BY <2>2 DEF Strung, ForEach, PoisonPlan, f, S
<1>5. MadeOf(Steps, S, parts, plants)
    <2> HIDE DEF parts, S
    <2> QED BY <1>1, <1>3, StrungParts
<1>6. ReadsAre(Observers(S), S, reads)
    <2>1. reads = SetToSeq(ReadsBy(Observers(S), S))
        BY DEF Asking, ReadsBy
    <2> HIDE DEF reads, S
    <2> QED BY <1>1, <2>1, ReadsInOrder
<1> HIDE DEF parts, s, plants, reads
<1>7. /\ plants \in Seq(Steps)
      /\ \A i \in 1..Len(plants) : \E x \in S : \E j \in 1..Len(parts[x]) : plants[i] = parts[x][j]
      /\ \A x \in S : \E o \in Nat : \A j \in 1..Len(parts[x]) :
            o + j \in 1..Len(plants) /\ plants[o + j] = parts[x][j]
    BY <1>5, Zenon DEF MadeOf
<1>8. /\ reads \in Seq(Steps)
      /\ \A j \in 1..Len(reads) : \E p \in Observers(S) : reads[j] = ReadStep(p, S)
      /\ \A p \in Observers(S) : \E j \in 1..Len(reads) : reads[j] = ReadStep(p, S)
    BY <1>6, Zenon DEF ReadsAre
<1>9. /\ s \in Seq(Steps) /\ Len(plants) \in Nat /\ Len(reads) \in Nat
      /\ Len(s) = Len(plants) + Len(reads)
      /\ \A i \in 1..Len(plants) : s[i] = plants[i]
      /\ \A j \in 1..Len(reads) : s[Len(plants) + j] = reads[j]
    <2>1. Joins(Steps, plants, reads, plants \o reads)
        BY <1>7, <1>8, Joined
    <2>2. Joins(Steps, plants, reads, s)
        BY <2>1, <1>4
    <2> QED BY <2>2 DEF Joins
<1>10. ASSUME NEW i \in 1..Len(plants)
       PROVE  ~IsRead(s[i]) /\ \E m \in S : s[i].asks = {m}
    <2>1. PICK m \in S : \E j \in 1..Len(parts[m]) : plants[i] = parts[m][j]
        BY <1>7
    <2>2. s[i] = PlantStep(m)
        BY <2>1, <1>2, <1>9
    <2>3. ~IsRead(PlantStep(m)) /\ PlantStep(m).asks = {m}
        BY DEF PlantStep, IsRead
    <2> HIDE DEF S
    <2> QED BY <2>2, <2>3
<1>11. ASSUME NEW m \in S
       PROVE  \E k \in 1..Len(plants) : ~IsRead(s[k]) /\ s[k].asks = {m}
    <2> HIDE DEF S
    <2>1. PICK o \in Nat : \A j \in 1..Len(parts[m]) :
              o + j \in 1..Len(plants) /\ plants[o + j] = parts[m][j]
        BY <1>7
    <2>2. o + 1 \in 1..Len(plants) /\ s[o + 1] = PlantStep(m)
        BY <2>1, <1>2, <1>9
    <2> QED BY <2>2 DEF PlantStep, IsRead
<1>12. ASSUME NEW i \in 1..Len(s), i \notin 1..Len(plants)
       PROVE  \E p \in Observers(S) : IsRead(s[i]) /\ s[i].actor = p /\ s[i].asks = S
    <2> HIDE DEF S
    <2>1. i - Len(plants) \in 1..Len(reads) /\ Len(plants) + (i - Len(plants)) = i
        BY <1>9, <1>12
    <2>2. s[i] = reads[i - Len(plants)]
        BY <1>9, <2>1
    <2>3. PICK p \in Observers(S) : reads[i - Len(plants)] = ReadStep(p, S)
        BY <1>8, <2>1
    <2> QED BY <2>2, <2>3 DEF ReadStep, IsRead
<1>13. ReadsSought(s)
    <2> SUFFICES ASSUME NEW i \in 1..Len(s), IsRead(s[i])
                 PROVE  s[i].asks \subseteq Sought /\ \E m \in s[i].asks : ForeignTo(m, s[i].actor)
        BY DEF ReadsSought
    <2>1. PICK p \in Observers(S) : s[i].actor = p /\ s[i].asks = S
        BY <1>10, <1>12
    <2>2. \E m \in S : ForeignTo(m, p)
        BY DEF Observers
    <2> HIDE DEF S
    <2> QED BY <1>1, <2>1, <2>2
<1>14. PlantsSought(s)
    <2> SUFFICES ASSUME NEW i \in 1..Len(s), ~IsRead(s[i])
                 PROVE  \E m \in Sought : s[i].asks = {m} /\ \E p \in Principals : ForeignTo(m, p)
        BY DEF PlantsSought
    <2>1. PICK m \in S : s[i].asks = {m}
        BY <1>10, <1>12
    <2>2. \E p \in Principals : ForeignTo(m, p)
        BY DEF Observers
    <2> QED BY <1>1, <2>1, <2>2
<1>15. Crosses(s, TRUE)
    <2> SUFFICES ASSUME NEW m \in Sought, NEW p \in Principals, ForeignTo(m, p)
                 PROVE  Crossed(s, m, p)
        BY DEF Crosses
    <2>1. m \in S /\ p \in Observers(S)
        BY <1>1 DEF Observers
    <2> HIDE DEF S
    <2>2. PICK j \in 1..Len(reads) : reads[j] = ReadStep(p, S)
        BY <1>8, <2>1
    <2>3. Len(plants) + j \in 1..Len(s) /\ s[Len(plants) + j] = ReadStep(p, S)
        BY <1>9, <2>2
    <2>4. IsRead(s[Len(plants) + j]) /\ s[Len(plants) + j].actor = p /\ m \in s[Len(plants) + j].asks
        <3>1. IsRead(ReadStep(p, S)) /\ ReadStep(p, S).actor = p /\ ReadStep(p, S).asks = S
            BY DEF ReadStep, IsRead
        <3> QED BY <3>1, <2>3, <2>1
    <2>5. PICK k \in 1..Len(plants) : ~IsRead(s[k]) /\ s[k].asks = {m}
        BY <1>11, <2>1
    <2>6. k \in 1..(Len(plants) + j - 1)
        BY <1>9
    <2> QED BY <2>3, <2>4, <2>5, <2>6 DEF Crossed
<1> QED
    BY <1>9, <1>13, <1>14, <1>15 DEF Plans, s

\* So every probe's plan asks for all it goes for, of everybody to whom it is foreign.
LEMMA PlanOfPlans ==
    ASSUME SubstrateTyped
    PROVE  Plans(PlanOf)
<1>1. CASE probe = "boundary"
    <2>1. Sought = Hard \cap InCorpus /\ probe \notin Planting /\ PlanOf = BoundaryPlan
        BY <1>1 DEF Sought, Planting, PlanOf
    <2> QED BY <2>1, PlansByMarker DEF BoundaryPlan
<1>2. CASE probe \in {"entity", "pipeline", "ikea"}
    <2>1. /\ Sought = InCorpus /\ probe \notin Planting /\ probe \notin ByMarker
          /\ PlanOf = EntityPlan
        BY <1>2 DEF Sought, Planting, ByMarker, PlanOf, PipelinePlan, ExtractionPlan
    <2> QED BY <2>1, PlansByEntity
<1>3. CASE probe = "cache"
    <2> DEFINE asks == [m \in Hard |-> {m}]
    <2>1. probe \in Planting /\ PlanOf = PlantThenAsk(asks)
        BY <1>3 DEF Planting, PlanOf, CachePlan
    <2>2. asks \in [Hard -> SUBSET Hard] /\ \A m \in Hard : m \in asks[m] /\ asks[m] = {m}
        OBVIOUS
    <2> HIDE DEF asks
    <2> QED BY <2>1, <2>2, PlansByPlanting
<1>4. CASE probe \in {"memory", "lora"}
    <2> DEFINE asks == [m \in Hard |-> Hard]
    <2>1. probe \in Planting /\ probe \notin ByMarker /\ PlanOf = PlantThenAsk(asks)
        BY <1>4 DEF Planting, ByMarker, PlanOf, MemoryPlan, AdapterPlan
    <2>2. asks \in [Hard -> SUBSET Hard] /\ \A m \in Hard : m \in asks[m]
        OBVIOUS
    <2> HIDE DEF asks
    <2> QED BY <2>1, <2>2, PlansByPlanting
<1>5. CASE probe \in {"tool", "framework"}
    <2>1. Sought = Hard /\ probe \notin Planting /\ PlanOf = ToolPlan
        BY <1>5 DEF Sought, Planting, PlanOf, ToolPlan, FrameworkPlan
    <2> QED BY <2>1, PlansByMarker DEF ToolPlan
<1>6. CASE probe = "inversion"
    <2>1. Sought = EntityCanaries /\ probe \notin Planting /\ PlanOf = InversionPlan
        BY <1>6 DEF Sought, Planting, PlanOf
    <2> QED BY <2>1, PlansByMarker DEF InversionPlan
<1>7. CASE probe = "poisoning"
    <2>1. probe \in Planting /\ probe \notin ByMarker /\ PlanOf = PoisonPlan
        BY <1>7 DEF Planting, ByMarker, PlanOf
    <2> QED BY <2>1, PlansByPoisoning
<1>8. probe \in {"boundary", "entity", "pipeline", "cache", "lora", "tool", "framework", "memory",
                 "inversion", "ikea", "poisoning"}
    BY DEF SubstrateTyped, ProbeKinds, Slot
<1> QED
    BY <1>1, <1>2, <1>3, <1>4, <1>5, <1>6, <1>7, <1>8

-----------------------------------------------------------------------------
(* What the runner sends of a plan. *)

WellSent(s) ==
    /\ s \in Seq(Steps) /\ ReadsSought(s) /\ PlantsSought(s) /\ Crosses(s, carries)
    /\ \A i \in 1..Len(s) : IsRead(s[i]) => Expressed(s[i].actor, carries)
    /\ s # <<>> => \E i \in 1..Len(s) : IsRead(s[i])

\* A step made as the tenant is the same step otherwise; a step that the adapter can express
\* is sent as it is.
LEMMA SentAs ==
    ASSUME SubstrateTyped, NEW x \in Steps
    PROVE  /\ AsTenant(x) \in Steps /\ AsTenant(x).asks = x.asks
           /\ IsRead(AsTenant(x)) <=> IsRead(x)
           /\ ~DroppableStep(x) => AsTenant(x) = x
<1>1. x.actor \in Principals /\ x.asks \in SUBSET Markers /\ x.action \in {"plant", "read"}
      /\ x = [action |-> x.action, actor |-> x.actor, asks |-> x.asks]
    BY DEF Steps
<1>2. x.actor.tenant \in TenantIds /\ users[x.actor.tenant] \in Nat
    BY <1>1, SubstrateFacts
<1>3. x.actor = [tenant |-> x.actor.tenant, user |-> x.actor.user]
    BY <1>1 DEF Principals
<1>4. [tenant |-> x.actor.tenant, user |-> TENANT_LEVEL] \in Principals
    <2>1. TENANT_LEVEL \in 0..users[x.actor.tenant]
        BY <1>2 DEF TENANT_LEVEL
    <2> QED BY <1>2, <2>1, SubstrateFacts
<1>5. CASE ~DroppableStep(x)
    BY <1>5 DEF AsTenant
<1>6. CASE DroppableStep(x)
    <2> DEFINE q == [tenant |-> x.actor.tenant, user |-> TENANT_LEVEL]
    <2>1. [x.actor EXCEPT !.user = TENANT_LEVEL] = q
        <3> DEFINE g == x.actor
        <3>1. g = [tenant |-> g.tenant, user |-> g.user]
            BY <1>3
        <3> HIDE DEF g
        <3>2. [g EXCEPT !.user = TENANT_LEVEL] = [tenant |-> g.tenant, user |-> TENANT_LEVEL]
            BY <3>1
        <3> QED BY <3>2 DEF g
    <2>2. AsTenant(x) = [x EXCEPT !.actor = [x.actor EXCEPT !.user = TENANT_LEVEL]]
        BY <1>6 DEF AsTenant
    <2>3. AsTenant(x) = [x EXCEPT !.actor = q]
        BY <2>1, <2>2
    <2>4. q \in Principals
        BY <1>4
    <2> HIDE DEF q
    <2>5. AsTenant(x) = [action |-> x.action, actor |-> q, asks |-> x.asks]
        BY <1>1, <2>3
    <2> QED BY <1>1, <1>6, <2>4, <2>5 DEF Steps, IsRead
<1> QED
    BY <1>5, <1>6

LEMMA SendingSends ==
    ASSUME SubstrateTyped, Plans(plan), ~DropsPlan
    PROVE  WellSent(StepsToSend) /\ Len(StepsToSend) <= Len(plan)
<1> DEFINE n == Len(plan)
           keep == {i \in 1..n : ~(IsRead(plan[i]) /\ DroppableStep(plan[i]))}
           as == [i \in 1..n |-> AsTenant(plan[i])]
           ss == [i \in 1..n |-> IF i \notin keep THEN <<>> ELSE <<as[i]>>]
           s == StepsToSend
<1>1. /\ plan \in Seq(Steps) /\ n \in Nat /\ DOMAIN plan = 1..n
      /\ \A i \in 1..n : plan[i] \in Steps
    BY DEF Plans
<1>2. \A i \in 1..n : /\ as[i] \in Steps /\ as[i].asks = plan[i].asks
                      /\ IsRead(as[i]) <=> IsRead(plan[i])
                      /\ ~DroppableStep(plan[i]) => as[i] = plan[i]
    BY <1>1, SentAs
<1>3. s = FlattenSeq(ss)
    BY <1>1 DEF StepsToSend
<1>4. keep \in SUBSET (1..n) /\ as \in [1..n -> Steps]
    BY <1>2
<1>5. \A i \in 1..n : i \in keep <=> ~(IsRead(plan[i]) /\ DroppableStep(plan[i]))
    OBVIOUS
<1> HIDE DEF n, keep, as
<1>6. ss = [i \in 1..n |-> IF i \notin keep THEN <<>> ELSE <<as[i]>>]
    OBVIOUS
<1> HIDE DEF ss, s
<1>7. /\ s \in Seq(Steps) /\ Len(s) <= n
      /\ \A i \in 1..Len(s) : \E k \in keep : s[i] = as[k]
      /\ \E place \in [keep -> 1..Len(s)] :
            /\ \A k \in keep : s[place[k]] = as[k]
            /\ \A k, l \in keep : k < l => place[k] < place[l]
    <2>1. LeftOf(Steps, n, keep, as, s)
        BY <1>1, <1>3, <1>4, <1>6, Filtered
    <2> QED BY <2>1, Zenon DEF LeftOf
<1>8. PICK place \in [keep -> 1..Len(s)] :
            /\ \A k \in keep : s[place[k]] = as[k]
            /\ \A k, l \in keep : k < l => place[k] < place[l]
    BY <1>7
<1>9. ReadsSought(plan) /\ PlantsSought(plan) /\ Crosses(plan, TRUE)
    BY DEF Plans
<1>10. \A i \in 1..Len(s) : IsRead(s[i]) =>
           \E k \in 1..n : IsRead(plan[k]) /\ s[i] = plan[k] /\ ~DroppableStep(plan[k])
    <2> SUFFICES ASSUME NEW i \in 1..Len(s), IsRead(s[i])
                 PROVE  \E k \in 1..n : IsRead(plan[k]) /\ s[i] = plan[k] /\ ~DroppableStep(plan[k])
        OBVIOUS
    <2>1. PICK k \in keep : s[i] = as[k]
        BY <1>7
    <2> QED BY <2>1, <1>2, <1>4, <1>5
<1>11. \A i \in 1..Len(s) : ~IsRead(s[i]) =>
           \E k \in 1..n : ~IsRead(plan[k]) /\ s[i].asks = plan[k].asks
    <2> SUFFICES ASSUME NEW i \in 1..Len(s), ~IsRead(s[i])
                 PROVE  \E k \in 1..n : ~IsRead(plan[k]) /\ s[i].asks = plan[k].asks
        OBVIOUS
    <2>1. PICK k \in keep : s[i] = as[k]
        BY <1>7
    <2> QED BY <2>1, <1>2, <1>4
<1>12. ReadsSought(s)
    <2> SUFFICES ASSUME NEW i \in 1..Len(s), IsRead(s[i])
                 PROVE  /\ s[i].asks \subseteq Sought /\ \E m \in s[i].asks : ForeignTo(m, s[i].actor)
                        /\ probe \in ByMarker => \E m \in Sought : s[i].asks = {m}
        BY DEF ReadsSought
    <2>1. PICK k \in 1..n : IsRead(plan[k]) /\ s[i] = plan[k]
        BY <1>10
    <2>2. k \in 1..Len(plan)
        BY DEF n
    <2> QED BY <1>9, <2>1, <2>2 DEF ReadsSought
<1>13. PlantsSought(s)
    <2> SUFFICES ASSUME NEW i \in 1..Len(s), ~IsRead(s[i])
                 PROVE  /\ probe \in Planting
                        /\ \E m \in Sought : s[i].asks = {m} /\ \E p \in Principals : ForeignTo(m, p)
        BY DEF PlantsSought
    <2>1. PICK k \in 1..n : ~IsRead(plan[k]) /\ s[i].asks = plan[k].asks
        BY <1>11
    <2>2. k \in 1..Len(plan)
        BY DEF n
    <2> QED BY <1>9, <2>1, <2>2 DEF PlantsSought
<1>14. ASSUME NEW m \in Sought, NEW p \in Principals, ForeignTo(m, p), Expressed(p, carries)
       PROVE  Crossed(s, m, p)
    <2>1. Crossed(plan, m, p)
        BY <1>9, <1>14 DEF Crosses, Expressed
    <2>2. PICK i \in 1..n :
              /\ IsRead(plan[i]) /\ plan[i].actor = p /\ m \in plan[i].asks
              /\ probe \in Planting => \E k \in 1..(i - 1) : ~IsRead(plan[k]) /\ plan[k].asks = {m}
        BY <2>1 DEF Crossed, n
    <2>3. ~DroppableStep(plan[i])
        BY <2>2, <1>14 DEF DroppableStep, Expressed
    <2>4. i \in keep /\ as[i] = plan[i]
        BY <1>2, <1>5, <2>3
    <2>5. place[i] \in 1..Len(s) /\ s[place[i]] = plan[i]
        BY <1>8, <2>4
    <2>6. ASSUME probe \in Planting
          PROVE  \E k \in 1..(place[i] - 1) : ~IsRead(s[k]) /\ s[k].asks = {m}
        <3>1. PICK k \in 1..(i - 1) : ~IsRead(plan[k]) /\ plan[k].asks = {m}
            BY <2>2, <2>6
        <3>2. k \in 1..n /\ k < i
            BY <1>1
        <3>3. k \in keep /\ ~IsRead(as[k]) /\ as[k].asks = {m}
            BY <1>2, <1>5, <3>1, <3>2
        <3>4. place[k] \in 1..Len(s) /\ s[place[k]] = as[k] /\ place[k] < place[i]
            BY <1>8, <2>4, <3>2, <3>3
        <3>5. place[k] \in 1..(place[i] - 1)
            BY <2>5, <3>4
        <3> QED BY <3>3, <3>4, <3>5
    <2> QED BY <2>2, <2>5, <2>6 DEF Crossed
<1>15. Crosses(s, carries)
    BY <1>14 DEF Crosses
<1>16. \A i \in 1..Len(s) : IsRead(s[i]) => Expressed(s[i].actor, carries)
    BY <1>10 DEF DroppableStep, Expressed
<1>17. ASSUME s # <<>>
       PROVE  \E i \in 1..Len(s) : IsRead(s[i])
    <2>1. \E i \in 1..n : IsRead(plan[i])
        <3>1. Len(s) \in Nat /\ Len(s) # 0
            BY <1>7, <1>17
        <3>2. 1 \in 1..Len(s)
            BY <3>1
        <3>3. CASE IsRead(s[1])
            BY <1>10, <3>2, <3>3
        <3>4. CASE ~IsRead(s[1])
            <4>1. PICK m \in Sought : \E p \in Principals : ForeignTo(m, p)
                BY <1>13, <3>2, <3>4 DEF PlantsSought
            <4>2. PICK p \in Principals : ForeignTo(m, p)
                BY <4>1
            <4>3. Crossed(plan, m, p)
                BY <1>9, <4>2 DEF Crosses, Expressed
            <4> QED BY <4>3 DEF Crossed, n
        <3> QED BY <3>3, <3>4
    <2>2. PICK i \in 1..n : IsRead(plan[i]) /\ ~DroppableStep(plan[i])
        BY <2>1, <1>1 DEF DropsPlan
    <2>3. i \in keep /\ as[i] = plan[i]
        BY <1>2, <1>5, <2>2
    <2>4. place[i] \in 1..Len(s) /\ s[place[i]] = plan[i]
        BY <1>8, <2>3
    <2> QED BY <2>2, <2>4
<1> QED
    BY <1>7, <1>12, <1>13, <1>15, <1>16, <1>17 DEF WellSent, n, s

-----------------------------------------------------------------------------
(* The invariant. *)

LoadedCorpus ==
    CASE Slot[probe] = "vector" /\ probe \in OnCorpus -> {m \in InCorpus : m.tenant \in landed}
      [] probe = "pipeline" /\ live ->
            (IF reads_store THEN {m \in InCorpus : m.tenant \in landed} ELSE {})
      [] probe = "pipeline" /\ ~live -> InCorpus
      [] probe \in {"tool", "framework"} -> (IF live THEN {} ELSE Hard)
      [] OTHER -> {}

AllConfirmed  == UNION {Confirmed(i) : i \in Reads}
AllUnverified == UNION {Unverified(i) : i \in Reads}
NothingToSay  == NothingLanded /\ AllConfirmed = {}

PlanRecorded ==
    /\ WellSent(sent) /\ ~Starved /\ sent # <<>> /\ corpus = LoadedCorpus
    /\ ~NothingToSay /\ findings = AllConfirmed \cup AllUnverified

PlanInv ==
    /\ SubstrateTyped
    /\ stage \in {"start", "refused", "skipped", "loaded", "sent", "run"}
    /\ corpus \subseteq Markers /\ dropped_steps \in Nat /\ versioned \in BOOLEAN
    /\ stage \in {"loaded", "sent"} => corpus = LoadedCorpus
    /\ stage = "loaded" => Plans(plan)
    /\ stage = "sent" => WellSent(sent) /\ ~Starved
    /\ stage # "run" => ~versioned
    /\ ~versioned => findings = {}
    /\ versioned => PlanRecorded

LEMMA SubstrateStays ==
    ASSUME UNCHANGED command
    PROVE  /\ Principals' = Principals /\ Markers' = Markers /\ Steps' = Steps
           /\ Hard' = Hard /\ EntityCanaries' = EntityCanaries /\ InCorpus' = InCorpus
           /\ Sought' = Sought /\ SubstrateTyped' = SubstrateTyped
<1>1. /\ users' = users /\ entities' = entities /\ probe' = probe /\ live' = live
      /\ carries' = carries /\ landed' = landed /\ vanish' = vanish /\ leak' = leak
    BY DEF command, stack, env
<1>2. TenantIds' = TenantIds
    BY <1>1 DEF TenantIds
<1>3. Principals' = Principals /\ Markers' = Markers
    BY <1>1, <1>2 DEF Principals, Markers
<1>4. Hard' = Hard /\ EntityCanaries' = EntityCanaries /\ InCorpus' = InCorpus
    BY <1>1, <1>3 DEF Hard, EntityCanaries, InCorpus
<1>5. Sought' = Sought
    BY <1>1, <1>4 DEF Sought
<1>6. Steps' = Steps
    BY <1>3 DEF Steps
<1>7. SubstrateTyped' = SubstrateTyped
    BY <1>1, <1>2, <1>4 DEF SubstrateTyped
<1> QED
    BY <1>3, <1>4, <1>5, <1>6, <1>7

LEMMA StoresStay ==
    ASSUME UNCHANGED <<command, corpus>>
    PROVE  LoadedCorpus' = LoadedCorpus /\ Starved' = Starved
<1>1. /\ probe' = probe /\ live' = live /\ reads_store' = reads_store /\ landed' = landed
      /\ corpus' = corpus /\ Hard' = Hard /\ InCorpus' = InCorpus
    BY SubstrateStays DEF command, stack, env
<1>2. LoadedCorpus' = LoadedCorpus
    BY <1>1 DEF LoadedCorpus
<1>3. Starved' = Starved
    BY <1>1 DEF Starved
<1> QED
    BY <1>2, <1>3

LEMMA ForeignStays ==
    ASSUME UNCHANGED command, NEW m, NEW p
    PROVE  ForeignTo(m, p)' = ForeignTo(m, p)
<1>1. users' = users
    BY DEF command
<1> QED
    BY <1>1 DEF ForeignTo, Owner

LEMMA StaysPlanned ==
    ASSUME UNCHANGED command, NEW s, s = plan', Plans(s)
    PROVE  Plans(plan)'
<1>1. /\ Principals' = Principals /\ Steps' = Steps /\ Sought' = Sought /\ users' = users
      /\ probe' = probe
    BY SubstrateStays DEF command
<1>2. (plan \in Seq(Steps))'
    BY <1>1 DEF Plans
<1>3. ReadsSought(plan)'
    BY <1>1 DEF Plans, ReadsSought, ForeignTo, Owner, IsRead
<1>4. PlantsSought(plan)'
    BY <1>1 DEF Plans, PlantsSought, ForeignTo, Owner, IsRead
<1>5. Crosses(plan, TRUE)'
    <2>1. ASSUME NEW m \in Sought', NEW p \in Principals', ForeignTo(m, p)'
          PROVE  Crossed(plan, m, p)'
        <3>1. ForeignTo(m, p)
            BY <2>1, ForeignStays
        <3>2. Crossed(s, m, p)
            BY <1>1, <3>1 DEF Plans, Crosses, Expressed
        <3> QED BY <1>1, <3>2 DEF Crossed, IsRead
    <2> QED BY <2>1 DEF Crosses
<1> QED
    BY <1>2, <1>3, <1>4, <1>5 DEF Plans

LEMMA StaysSent ==
    ASSUME UNCHANGED command, NEW s, s = sent', WellSent(s)
    PROVE  WellSent(sent)'
<1>1. /\ Principals' = Principals /\ Steps' = Steps /\ Sought' = Sought /\ users' = users
      /\ probe' = probe /\ carries' = carries
    BY SubstrateStays DEF command, stack
<1>2. (sent \in Seq(Steps))'
    BY <1>1 DEF WellSent
<1>3. ReadsSought(sent)'
    BY <1>1 DEF WellSent, ReadsSought, ForeignTo, Owner, IsRead
<1>4. PlantsSought(sent)'
    BY <1>1 DEF WellSent, PlantsSought, ForeignTo, Owner, IsRead
<1>5. Crosses(sent, carries)'
    <2>1. ASSUME NEW m \in Sought', NEW p \in Principals', ForeignTo(m, p)', Expressed(p, carries)'
          PROVE  Crossed(sent, m, p)'
        <3>1. ForeignTo(m, p) /\ Expressed(p, carries)
            BY <1>1, <2>1, ForeignStays DEF Expressed
        <3>2. Crossed(s, m, p)
            BY <1>1, <3>1 DEF WellSent, Crosses
        <3> QED BY <1>1, <3>2 DEF Crossed, IsRead
    <2> QED BY <2>1 DEF Crosses
<1>6. (\A i \in 1..Len(sent) : IsRead(sent[i]) => Expressed(sent[i].actor, carries))'
    BY <1>1 DEF WellSent, Expressed, IsRead
<1>7. (sent # <<>> => \E i \in 1..Len(sent) : IsRead(sent[i]))'
    BY <1>1 DEF WellSent, IsRead
<1> QED
    BY <1>2, <1>3, <1>4, <1>5, <1>6, <1>7 DEF WellSent

LEMMA AnswersStay ==
    ASSUME UNCHANGED <<command, corpus, sent>>
    PROVE  /\ AllConfirmed' = AllConfirmed /\ AllUnverified' = AllUnverified
           /\ NothingToSay' = NothingToSay
<1>1. /\ users' = users /\ probe' = probe /\ vanish' = vanish /\ leak' = leak
      /\ corpus' = corpus /\ sent' = sent
    BY DEF command, env
<1>2. Reads' = Reads /\ PlantsSent' = PlantsSent
    BY <1>1 DEF Reads, PlantsSent, IsRead
<1>3. ASSUME NEW i
      PROVE  /\ ServedAt(i)' = ServedAt(i)
             /\ Confirmed(i)' = Confirmed(i) /\ Unverified(i)' = Unverified(i)
    <2>1. Stored(i)' = Stored(i)
        BY <1>1 DEF Stored, IsRead
    <2>2. ServedAt(i)' = ServedAt(i)
        BY <1>1, <2>1 DEF ServedAt, Serves, ForeignTo, Owner
    <2>3. Confirmed(i)' = Confirmed(i)
        BY <1>1, <2>2 DEF Confirmed, Finding, ForeignTo, Owner
    <2>4. Ambiguous(i)' = Ambiguous(i)
        BY <1>1, <2>2, <2>3 DEF Ambiguous
    <2>5. Unverified(i)' = Unverified(i)
        BY <1>1, <2>4 DEF Unverified, Finding, ForeignTo, Owner
    <2> QED BY <2>2, <2>3, <2>5
<1>4. AllConfirmed' = AllConfirmed
    BY <1>2, <1>3 DEF AllConfirmed
<1>5. AllUnverified' = AllUnverified
    BY <1>2, <1>3 DEF AllUnverified
<1>6. NothingLanded' = NothingLanded
    BY <1>1, <1>2 DEF NothingLanded
<1> QED
    BY <1>4, <1>5, <1>6 DEF NothingToSay

LEMMA PlanStarts ==
    ASSUME PlanInit
    PROVE  PlanInv
<1>1. SubstrateTyped
    <2>1. \E t \in 1..MaxTenants : users \in [1..t -> 0..MaxUsers]
        BY DEF PlanInit
    <2>2. entities \in Nat /\ entities >= MinEntities
        BY SubstrateAssumed DEF PlanInit
    <2>3. probe \in ProbeKinds /\ live \in BOOLEAN /\ leak \in {"nobody", "tenants", "principals"}
        BY DEF PlanInit
    <2>4. carries \in BOOLEAN
        BY DEF PlanInit
    <2>5. landed \subseteq TenantIds /\ (live \/ landed = TenantIds)
        BY DEF PlanInit
    <2>6. vanish \subseteq Hard
        BY DEF PlanInit
    <2> QED BY <2>1, <2>2, <2>3, <2>4, <2>5, <2>6 DEF SubstrateTyped
<1> QED
    BY <1>1 DEF PlanInit, PlanInv

LEMMA CorpusIsMarkers ==
    ASSUME SubstrateTyped
    PROVE  LoadedCorpus \subseteq Markers
BY SubstrateFacts DEF LoadedCorpus

LEMMA StepsAreCounted ==
    ASSUME SubstrateTyped, Plans(plan)
    PROVE  /\ Cardinality({i \in DOMAIN plan : plan[i].actor.user # TENANT_LEVEL}) \in Nat
           /\ ~DropsPlan => Len(plan) - Len(StepsToSend) \in Nat
<1>1. plan \in Seq(Steps) /\ Len(plan) \in Nat /\ DOMAIN plan = 1..Len(plan)
    BY DEF Plans
<1> DEFINE users_steps == {i \in DOMAIN plan : plan[i].actor.user # TENANT_LEVEL}
<1>2. users_steps \subseteq 1..Len(plan)
    BY <1>1
<1> HIDE DEF users_steps
<1>3. IsFiniteSet(users_steps)
    <2> DEFINE n == Len(plan)
    <2>1. n \in Nat
        BY <1>1
    <2> HIDE DEF n
    <2>2. IsFiniteSet(1..n)
        BY <2>1, FS_Interval
    <2>3. users_steps \subseteq 1..n
        BY <1>2 DEF n
    <2> QED BY <2>2, <2>3, FS_Subset
<1>4. Cardinality(users_steps) \in Nat
    BY <1>3, FS_CardinalityType
<1>5. ASSUME ~DropsPlan
      PROVE  Len(plan) - Len(StepsToSend) \in Nat
    <2>1. WellSent(StepsToSend) /\ Len(StepsToSend) <= Len(plan)
        BY <1>5, SendingSends
    <2> DEFINE k == Len(StepsToSend)
    <2>2. k \in Nat
        BY <2>1 DEF WellSent
    <2> HIDE DEF k
    <2>3. k <= Len(plan)
        BY <2>1 DEF k
    <2>4. Len(plan) - k \in Nat
        BY <1>1, <2>2, <2>3
    <2> QED BY <2>4 DEF k
<1> QED
    BY <1>4, <1>5 DEF users_steps

LEMMA PlanStepsKeep ==
    ASSUME PlanInv, [PlanNext]_planVars
    PROVE  PlanInv'
<1>1. CASE RefuseRun \/ SkipInapplicable \/ SkipUnseedable
    <2>1. /\ UNCHANGED <<command, corpus, plan, sent, dropped_steps, versioned, findings>>
          /\ stage' \in {"refused", "skipped"} /\ stage # "run"
        BY <1>1 DEF RefuseRun, SkipInapplicable, SkipUnseedable
    <2>2. SubstrateTyped' /\ Markers' = Markers
        BY <2>1, SubstrateStays DEF PlanInv
    <2> QED BY <2>1, <2>2 DEF PlanInv
<1>2. CASE Load
    <2>1. /\ UNCHANGED <<command, sent, dropped_steps, versioned, findings>>
          /\ stage' = "loaded" /\ stage = "start" /\ plan' = PlanOf /\ corpus' = LoadedCorpus
        BY <1>2 DEF Load, LoadedCorpus
    <2>2. SubstrateTyped' /\ SubstrateTyped /\ Markers' = Markers
        BY <2>1, SubstrateStays DEF PlanInv
    <2>3. Plans(plan)'
        BY <2>1, <2>2, PlanOfPlans, StaysPlanned
    <2>4. LoadedCorpus' = LoadedCorpus
        BY <2>1, SubstrateStays DEF LoadedCorpus, command, stack, env
    <2>5. corpus' \subseteq Markers'
        BY <2>1, <2>2, CorpusIsMarkers
    <2>6. ~versioned' /\ findings' = {} /\ dropped_steps' \in Nat /\ versioned' \in BOOLEAN
        BY <2>1 DEF PlanInv
    <2> QED BY <2>1, <2>2, <2>3, <2>4, <2>5, <2>6 DEF PlanInv
<1>3. CASE DropPlan
    <2>1. /\ UNCHANGED <<command, corpus, plan, sent, versioned, findings>>
          /\ stage' = "run" /\ stage = "loaded"
          /\ dropped_steps' = Cardinality({i \in DOMAIN plan : plan[i].actor.user # TENANT_LEVEL})
        BY <1>3 DEF DropPlan
    <2>2. SubstrateTyped' /\ SubstrateTyped /\ Markers' = Markers /\ Plans(plan)
        BY <2>1, SubstrateStays DEF PlanInv
    <2>3. dropped_steps' \in Nat
        BY <2>1, <2>2, StepsAreCounted
    <2> QED BY <2>1, <2>2, <2>3 DEF PlanInv
<1>4. CASE SendSteps
    <2>1. /\ UNCHANGED <<command, corpus, plan, versioned, findings>>
          /\ stage' = "sent" /\ stage = "loaded" /\ sent' = StepsToSend /\ ~DropsPlan /\ ~Starved
          /\ dropped_steps' = Len(plan) - Len(StepsToSend)
        BY <1>4 DEF SendSteps
    <2>2. SubstrateTyped' /\ SubstrateTyped /\ Markers' = Markers /\ Plans(plan)
        BY <2>1, SubstrateStays DEF PlanInv
    <2>3. dropped_steps' \in Nat
        BY <2>1, <2>2, StepsAreCounted
    <2>4. WellSent(sent)'
        BY <2>1, <2>2, SendingSends, StaysSent
    <2>5. LoadedCorpus' = LoadedCorpus /\ Starved' = Starved
        BY <2>1, StoresStay
    <2> QED BY <2>1, <2>2, <2>3, <2>4, <2>5 DEF PlanInv
<1>5. CASE Detect
    <2>1. /\ UNCHANGED <<command, corpus, plan, sent, dropped_steps>>
          /\ stage' = "run" /\ stage = "sent"
          /\ versioned' = (sent # <<>> /\ ~NothingToSay)
          /\ findings' = IF NothingToSay THEN {} ELSE AllConfirmed \cup AllUnverified
        BY <1>5 DEF Detect, NothingToSay, AllConfirmed, AllUnverified
    <2>2. SubstrateTyped' /\ Markers' = Markers
        BY <2>1, SubstrateStays DEF PlanInv
    <2>3. WellSent(sent)'
        BY <2>1, StaysSent DEF PlanInv
    <2>4. LoadedCorpus' = LoadedCorpus /\ Starved' = Starved
        BY <2>1, StoresStay
    <2>5. /\ AllConfirmed' = AllConfirmed /\ AllUnverified' = AllUnverified
          /\ NothingToSay' = NothingToSay
        BY <2>1, AnswersStay
    <2>6. versioned' => PlanRecorded'
        BY <2>1, <2>3, <2>4, <2>5 DEF PlanInv, PlanRecorded
    <2>7. ~versioned' => findings' = {}
        <3>1. sent = <<>> => Reads = {}
            BY DEF Reads
        <3>2. sent = <<>> => AllConfirmed = {} /\ AllUnverified = {}
            BY <3>1 DEF AllConfirmed, AllUnverified
        <3> QED BY <2>1, <3>2
    <2> QED BY <2>1, <2>2, <2>6, <2>7 DEF PlanInv
<1>6. CASE UNCHANGED planVars
    <2>1. UNCHANGED <<command, corpus, stage, plan, sent, dropped_steps, versioned, findings>>
        BY <1>6 DEF planVars
    <2>2. SubstrateTyped' = SubstrateTyped /\ Markers' = Markers
        BY <2>1, SubstrateStays
    <2>3. LoadedCorpus' = LoadedCorpus /\ Starved' = Starved
        BY <2>1, StoresStay
    <2>4. /\ AllConfirmed' = AllConfirmed /\ AllUnverified' = AllUnverified
          /\ NothingToSay' = NothingToSay
        BY <2>1, AnswersStay
    <2>5. WellSent(sent) => WellSent(sent)'
        BY <2>1, StaysSent
    <2>6. Plans(plan) => Plans(plan)'
        BY <2>1, StaysPlanned
    <2>7. PlanRecorded => PlanRecorded'
        BY <2>1, <2>3, <2>4, <2>5 DEF PlanRecorded
    <2> QED BY <2>1, <2>2, <2>3, <2>5, <2>6, <2>7 DEF PlanInv
<1> QED
    BY <1>1, <1>2, <1>3, <1>4, <1>5, <1>6 DEF PlanNext

\* Every probe, whatever the substrate and its stack, from its plan to its findings: what is
\* planned asks for all that the probe goes for, what is sent for all that the adapter can
\* express of it, and what is recorded is made of the answers.
THEOREM PlansInductive == PlanSpec => []PlanInv
<1>1. PlanInit => PlanInv
    BY PlanStarts
<1>2. PlanInv /\ [PlanNext]_planVars => PlanInv'
    BY PlanStepsKeep
<1> QED
    BY <1>1, <1>2, PTL DEF PlanSpec

-----------------------------------------------------------------------------
(* What the recorded findings say. *)

\* The canaries a probe finds are those it goes for, where they are.
LEMMA TargetsAre ==
    ASSUME SubstrateTyped, corpus = LoadedCorpus
    PROVE  IF probe \in Planting THEN corpus = {} /\ Targets = Sought \ vanish
                                 ELSE Targets = Sought \cap corpus
<1>1. corpus \subseteq Markers /\ Hard \subseteq Markers /\ InCorpus \subseteq Markers
    BY CorpusIsMarkers, SubstrateFacts
<1>2. CASE probe \in Planting
    <2>1. corpus = {}
        BY <1>2 DEF LoadedCorpus, Planting, Slot, OnCorpus
    <2>2. Targets = Hard \ vanish
        BY <1>2 DEF Targets, Planting
    <2> QED BY <1>2, <2>1, <2>2, SoughtAreMarkers
<1>3. CASE probe \in OnCorpus
    <2>1. corpus \subseteq InCorpus
        BY <1>3 DEF LoadedCorpus, OnCorpus
    <2>2. Targets = Sought \cap corpus
        BY <1>3, <2>1 DEF Targets, Sought, OnCorpus
    <2> QED BY <1>3, <2>2 DEF OnCorpus, Planting
<1>4. CASE probe \in {"tool", "framework"}
    <2>1. Targets = Sought \cap corpus
        BY <1>4 DEF Targets, Sought
    <2> QED BY <1>4, <2>1 DEF Planting
<1>5. probe \in Planting \/ probe \in OnCorpus \/ probe \in {"tool", "framework"}
    BY DEF SubstrateTyped, ProbeKinds, Slot, Planting, OnCorpus
<1> QED
    BY <1>2, <1>3, <1>4, <1>5

\* A read that was sent finds nothing but these, ...
LEMMA ReadsTargets ==
    ASSUME SubstrateTyped, corpus = LoadedCorpus, WellSent(sent),
           NEW i \in Reads, NEW m \in Stored(i) \cap sent[i].asks
    PROVE  m \in Targets /\ sent[i].actor \in Principals /\ Expressed(sent[i].actor, carries)
<1>1. i \in 1..Len(sent) /\ IsRead(sent[i]) /\ sent[i] \in Steps
    BY DEF Reads, WellSent
<1>2. sent[i].asks \subseteq Sought
    BY <1>1 DEF WellSent, ReadsSought
<1>3. sent[i].actor \in Principals /\ Expressed(sent[i].actor, carries)
    BY <1>1 DEF WellSent, Steps
<1>4. CASE probe \in Planting
    <2>1. corpus = {} /\ Targets = Sought \ vanish
        BY <1>4, TargetsAre
    <2>2. m \notin vanish
        BY <2>1 DEF Stored
    <2> QED BY <1>2, <1>3, <2>1, <2>2
<1>5. CASE probe \notin Planting
    <2>1. Targets = Sought \cap corpus
        BY <1>5, TargetsAre
    <2>2. \A j \in 1..(i - 1) : IsRead(sent[j])
        <3> SUFFICES ASSUME NEW j \in 1..(i - 1) PROVE IsRead(sent[j])
            OBVIOUS
        <3>1. Len(sent) \in Nat
            BY DEF WellSent
        <3>2. j \in 1..Len(sent)
            BY <1>1, <3>1
        <3> QED BY <1>5, <3>2 DEF WellSent, PlantsSought
    <2>3. m \in corpus
        BY <2>2 DEF Stored
    <2> QED BY <1>2, <1>3, <2>1, <2>3
<1> QED
    BY <1>4, <1>5

\* ... and each of them is asked for by everybody it is foreign to whom the adapter carries.
LEMMA TargetIsAsked ==
    ASSUME SubstrateTyped, corpus = LoadedCorpus, WellSent(sent),
           NEW m \in Targets, NEW p \in Principals, ForeignTo(m, p), Expressed(p, carries)
    PROVE  \E i \in Reads : sent[i].actor = p /\ m \in Stored(i) \cap sent[i].asks
<1>1. m \in Sought
    BY TargetsAre
<1>2. Crossed(sent, m, p)
    BY <1>1 DEF WellSent, Crosses
<1>3. PICK i \in 1..Len(sent) :
          /\ IsRead(sent[i]) /\ sent[i].actor = p /\ m \in sent[i].asks
          /\ probe \in Planting => \E k \in 1..(i - 1) : ~IsRead(sent[k]) /\ sent[k].asks = {m}
    BY <1>2 DEF Crossed
<1>4. i \in Reads
    BY <1>3 DEF Reads, WellSent
<1>5. m \in Stored(i)
    <2>1. CASE probe \in Planting
        <3>1. m \notin vanish
            BY <2>1, TargetsAre
        <3>2. PICK k \in 1..(i - 1) : ~IsRead(sent[k]) /\ sent[k].asks = {m}
            BY <1>3, <2>1
        <3> QED BY <3>1, <3>2 DEF Stored
    <2>2. CASE probe \notin Planting
        BY <2>2, TargetsAre DEF Stored
    <2> QED BY <2>1, <2>2
<1> QED
    BY <1>3, <1>4, <1>5

\* The confirmed findings, one by one.
LEMMA ConfirmedAre ==
    /\ \A f \in AllConfirmed : \E i \in Reads : \E m \in Stored(i) \cap sent[i].asks :
           /\ f = Finding(m, sent[i].actor, "confirmed")
           /\ Serves(m, sent[i].actor) /\ ForeignTo(m, sent[i].actor)
    /\ \A i \in Reads : \A m \in Stored(i) \cap sent[i].asks :
           Serves(m, sent[i].actor) /\ ForeignTo(m, sent[i].actor) =>
               Finding(m, sent[i].actor, "confirmed") \in Confirmed(i)
    /\ \A i \in Reads : Confirmed(i) \subseteq AllConfirmed /\ Unverified(i) \subseteq AllUnverified
    /\ \A f \in AllUnverified : \E i \in Reads : \E m \in sent[i].asks :
           f = Finding(m, sent[i].actor, "unverified")
<1>1. ASSUME NEW f \in AllConfirmed
      PROVE  \E i \in Reads : \E m \in Stored(i) \cap sent[i].asks :
                 /\ f = Finding(m, sent[i].actor, "confirmed")
                 /\ Serves(m, sent[i].actor) /\ ForeignTo(m, sent[i].actor)
    <2>1. PICK i \in Reads : f \in Confirmed(i)
        BY DEF AllConfirmed
    <2> QED BY <2>1 DEF Confirmed, ServedAt
<1>2. ASSUME NEW i \in Reads, NEW m \in Stored(i) \cap sent[i].asks,
             Serves(m, sent[i].actor), ForeignTo(m, sent[i].actor)
      PROVE  Finding(m, sent[i].actor, "confirmed") \in Confirmed(i)
    BY <1>2 DEF Confirmed, ServedAt
<1>3. \A i \in Reads : Confirmed(i) \subseteq AllConfirmed /\ Unverified(i) \subseteq AllUnverified
    BY DEF AllConfirmed, AllUnverified
<1>4. ASSUME NEW f \in AllUnverified
      PROVE  \E i \in Reads : \E m \in sent[i].asks : f = Finding(m, sent[i].actor, "unverified")
    <2>1. PICK i \in Reads : f \in Unverified(i)
        BY DEF AllUnverified
    <2> QED BY <2>1 DEF Unverified
<1> QED
    BY <1>1, <1>2, <1>3, <1>4

LEMMA BoundariesCrossed ==
    ASSUME PlanInv
    PROVE  EveryBoundaryIsCrossed
<1> SUFFICES ASSUME versioned
             PROVE  {f \in findings : f.status = "confirmed"} =
                        {f \in [marker : Targets, actor : Principals, status : {"confirmed"}] :
                            /\ ForeignTo(f.marker, f.actor) /\ Serves(f.marker, f.actor)
                            /\ f.actor.user # TENANT_LEVEL => carries}
    BY DEF EveryBoundaryIsCrossed
<1>1. /\ SubstrateTyped /\ corpus = LoadedCorpus /\ WellSent(sent)
      /\ findings = AllConfirmed \cup AllUnverified
    BY DEF PlanInv, PlanRecorded
<1>2. ASSUME NEW f \in findings, f.status = "confirmed"
      PROVE  /\ f \in [marker : Targets, actor : Principals, status : {"confirmed"}]
             /\ ForeignTo(f.marker, f.actor) /\ Serves(f.marker, f.actor)
             /\ f.actor.user # TENANT_LEVEL => carries
    <2>1. f \notin AllUnverified
        <3> SUFFICES ASSUME f \in AllUnverified PROVE FALSE
            OBVIOUS
        <3>1. \E i \in Reads : \E m \in sent[i].asks : f = Finding(m, sent[i].actor, "unverified")
            BY ConfirmedAre
        <3> QED BY <1>2, <3>1 DEF Finding
    <2>2. f \in AllConfirmed
        BY <1>1, <2>1
    <2>3. PICK i \in Reads : \E m \in Stored(i) \cap sent[i].asks :
                 /\ f = Finding(m, sent[i].actor, "confirmed")
                 /\ Serves(m, sent[i].actor) /\ ForeignTo(m, sent[i].actor)
        BY <2>2, ConfirmedAre
    <2>4. PICK m \in Stored(i) \cap sent[i].asks :
                 /\ f = Finding(m, sent[i].actor, "confirmed")
                 /\ Serves(m, sent[i].actor) /\ ForeignTo(m, sent[i].actor)
        BY <2>3
    <2>5. m \in Targets /\ sent[i].actor \in Principals /\ Expressed(sent[i].actor, carries)
        BY <1>1, ReadsTargets
    <2>6. f = [marker |-> m, actor |-> sent[i].actor, status |-> "confirmed"]
        BY <2>4 DEF Finding
    <2> QED BY <2>4, <2>5, <2>6 DEF Expressed
<1>3. ASSUME NEW f \in [marker : Targets, actor : Principals, status : {"confirmed"}],
             ForeignTo(f.marker, f.actor), Serves(f.marker, f.actor),
             f.actor.user # TENANT_LEVEL => carries
      PROVE  f \in findings /\ f.status = "confirmed"
    <2>1. f.marker \in Targets /\ f.actor \in Principals /\ Expressed(f.actor, carries)
          /\ f = [marker |-> f.marker, actor |-> f.actor, status |-> "confirmed"]
        BY <1>3 DEF Expressed
    <2>2. PICK i \in Reads : sent[i].actor = f.actor /\ f.marker \in Stored(i) \cap sent[i].asks
        BY <1>1, <1>3, <2>1, TargetIsAsked
    <2>3. Finding(f.marker, f.actor, "confirmed") \in Confirmed(i)
        BY <1>3, <2>2, ConfirmedAre
    <2>4. f \in AllConfirmed
        BY <2>1, <2>3, ConfirmedAre DEF Finding
    <2> QED BY <1>1, <2>1, <2>4
<1> QED
    BY <1>2, <1>3

LEMMA LookupsAnswered ==
    ASSUME PlanInv
    PROVE  LookupsAreAnswered
<1> SUFFICES ASSUME versioned, probe \in ByMarker, NEW i \in Reads
             PROVE  \E f \in findings : f.actor = sent[i].actor /\ f.marker \in sent[i].asks
    BY DEF LookupsAreAnswered
<1>1. /\ WellSent(sent) /\ findings = AllConfirmed \cup AllUnverified
    BY DEF PlanInv, PlanRecorded
<1>2. i \in 1..Len(sent) /\ IsRead(sent[i])
    BY <1>1 DEF Reads, WellSent
<1>3. PICK m : sent[i].asks = {m} /\ ForeignTo(m, sent[i].actor)
    BY <1>1, <1>2 DEF WellSent, ReadsSought
<1>4. CASE Confirmed(i) # {}
    <2>1. PICK f \in Confirmed(i) : TRUE
        BY <1>4
    <2>2. f.actor = sent[i].actor /\ f.marker \in sent[i].asks
        BY DEF Confirmed, ServedAt, Finding
    <2> QED BY <1>1, <2>2, ConfirmedAre
<1>5. CASE Confirmed(i) = {}
    <2>1. ServedAt(i) = {}
        <3> SUFFICES ASSUME NEW x \in ServedAt(i) PROVE FALSE
            OBVIOUS
        <3>1. x \in {m} /\ x \in ServedAt(i)
            BY <1>3 DEF ServedAt
        <3>2. Finding(x, sent[i].actor, "confirmed") \in Confirmed(i)
            BY <1>3, <3>1 DEF Confirmed
        <3> QED BY <1>5, <3>2
    <2>2. Ambiguous(i)
        BY <1>5, <2>1 DEF Ambiguous
    <2>3. Finding(m, sent[i].actor, "unverified") \in Unverified(i)
        BY <1>3, <2>2 DEF Unverified
    <2>4. Finding(m, sent[i].actor, "unverified") \in findings
        BY <1>1, <2>3, ConfirmedAre
    <2> QED BY <1>3, <2>4 DEF Finding
<1> QED
    BY <1>4, <1>5

\* For every substrate, probe, stack and backend: a recorded probe has crossed exactly the
\* boundaries its adapter can express, and no lookup by name passed in silence.
THEOREM PlansCarryOut == PlanSpec => []PlansAreCarriedOut
<1>1. PlanInv => PlansAreCarriedOut
    BY BoundariesCrossed, LookupsAnswered DEF PlansAreCarriedOut
<1> QED
    BY <1>1, PlansInductive, PTL

LEMMA PlanTyped ==
    ASSUME PlanInv
    PROVE  PlanTypeOK
<1> SUFFICES ASSUME NEW f \in findings
             PROVE  f.marker \in Markers /\ f.actor \in Principals
    BY DEF PlanInv, PlanTypeOK
<1>1. SubstrateTyped /\ WellSent(sent) /\ findings = AllConfirmed \cup AllUnverified
    BY DEF PlanInv, PlanRecorded
<1>2. PICK i \in Reads : \E m \in sent[i].asks : f.marker = m /\ f.actor = sent[i].actor
    <2>1. CASE f \in AllConfirmed
        <3>1. PICK i \in Reads : \E m \in Stored(i) \cap sent[i].asks :
                  f = Finding(m, sent[i].actor, "confirmed")
            BY <2>1, ConfirmedAre
        <3> QED BY <3>1 DEF Finding
    <2>2. CASE f \in AllUnverified
        <3>1. PICK i \in Reads : \E m \in sent[i].asks : f = Finding(m, sent[i].actor, "unverified")
            BY <2>2, ConfirmedAre
        <3> QED BY <3>1 DEF Finding
    <2> QED BY <1>1, <2>1, <2>2
<1>3. sent[i] \in Steps
    BY <1>1 DEF Reads, WellSent
<1> QED
    BY <1>2, <1>3 DEF Steps

\* If one canary is foreign to somebody the adapter carries, every canary is: to a tenant of
\* its own, or, where there is one tenant only, to one of two of its users.
LEMMA EachIsForeign ==
    ASSUME SubstrateTyped,
           NEW m \in Markers, NEW p \in Principals, ForeignTo(m, p), Expressed(p, carries),
           NEW n \in Markers
    PROVE  \E q \in Principals : ForeignTo(n, q) /\ Expressed(q, carries)
<1>1. /\ m.tenant \in TenantIds /\ n.tenant \in TenantIds /\ p.tenant \in TenantIds
      /\ Owner(m) \in Principals
    BY SubstrateFacts
<1>2. CASE \E t \in TenantIds : t # n.tenant
    <2>1. PICK t \in TenantIds : t # n.tenant
        BY <1>2
    <2> DEFINE q == [tenant |-> t, user |-> TENANT_LEVEL]
    <2>2. users[t] \in Nat
        BY SubstrateFacts
    <2>3. TENANT_LEVEL \in 0..users[t]
        BY <2>2 DEF TENANT_LEVEL
    <2>4. q \in Principals
        BY <2>3, SubstrateFacts
    <2> QED BY <2>1, <2>4 DEF ForeignTo, Expressed
<1>3. CASE \A t \in TenantIds : t = n.tenant
    <2>1. m.tenant = n.tenant /\ p.tenant = n.tenant
        BY <1>1, <1>3
    <2>2. p.user # TENANT_LEVEL /\ Owner(m).user # p.user /\ Owner(m).user # TENANT_LEVEL
        BY <2>1 DEF ForeignTo
    <2>3. Owner(m).tenant = n.tenant
        BY <2>1 DEF Owner
    <2>4. Owner(m).user \in 0..users[n.tenant] /\ users[n.tenant] \in Nat
        BY <1>1, <2>3, SubstrateFacts
    <2>5. users[n.tenant] # 0
        BY <2>2, <2>4 DEF TENANT_LEVEL
    <2>6. Owner(n).user # TENANT_LEVEL
        <3>1. Owner(n).user = (n.n % users[n.tenant]) + 1
            BY <2>5 DEF Owner
        <3>2. n.n \in Nat
            BY SubstrateFacts
        <3> DEFINE u == users[n.tenant]
        <3>3. u \in Nat /\ u # 0
            BY <2>4, <2>5
        <3> HIDE DEF u
        <3>4. (n.n % u) + 1 # 0
            BY <3>2, <3>3
        <3> QED BY <3>1, <3>4 DEF u, TENANT_LEVEL
    <2>7. carries
        BY <2>2 DEF Expressed
    <2>8. PICK q \in {p, Owner(m)} : q.user # Owner(n).user
        BY <2>2
    <2>9. q \in Principals /\ q.user # TENANT_LEVEL
        BY <1>1, <2>2, <2>8
    <2> QED BY <2>6, <2>7, <2>8, <2>9 DEF ForeignTo, Expressed
<1> QED
    BY <1>2, <1>3

\* There is something for a recorded probe to find, or it has confirmed something.
LEMMA SomethingToFind ==
    ASSUME PlanInv, versioned, MinEntities > 0, AllConfirmed = {}
    PROVE  Targets # {}
<1>1. /\ SubstrateTyped /\ WellSent(sent) /\ ~Starved /\ sent # <<>> /\ corpus = LoadedCorpus
      /\ ~NothingLanded
    BY DEF PlanInv, PlanRecorded, NothingToSay
<1>2. InCorpus = Markers
    BY <1>1, SubstrateAssumed DEF InCorpus, SubstrateTyped
<1>3. \A t \in TenantIds : [tenant |-> t, n |-> 0] \in Hard
                           /\ [tenant |-> t, n |-> MARKERS_PER_TYPE] \in EntityCanaries
    <2>1. /\ 0 \in 0..(3 * MARKERS_PER_TYPE - 1) /\ 0 < MARKERS_PER_TYPE
          /\ MARKERS_PER_TYPE \in 0..(3 * MARKERS_PER_TYPE - 1)
        BY MarkersAssumed
    <2>2. MARKERS_PER_TYPE \div MARKERS_PER_TYPE = 1
        BY MarkersAssumed
    <2> QED BY <2>1, <2>2 DEF Markers, Hard, EntityCanaries
<1>4. CASE probe \in Planting
    <2>1. Targets = Sought \ vanish
        BY <1>1, <1>4, TargetsAre
    <2>2. PICK i \in 1..Len(sent) : IsRead(sent[i])
        BY <1>1 DEF WellSent
    <2>3. sent[i] \in Steps /\ Len(sent) \in Nat /\ DOMAIN sent = 1..Len(sent)
        BY <1>1 DEF WellSent
    <2>4. PICK m \in sent[i].asks : m \in Sought /\ ForeignTo(m, sent[i].actor)
        BY <1>1, <2>2 DEF WellSent, ReadsSought
    <2>5. Crossed(sent, m, sent[i].actor)
        BY <1>1, <2>2, <2>3, <2>4 DEF WellSent, Crosses, Steps
    <2>6. \E k \in 1..Len(sent) : ~IsRead(sent[k])
        <3>1. PICK j \in 1..Len(sent) : \E k \in 1..(j - 1) : ~IsRead(sent[k])
            BY <1>4, <2>5 DEF Crossed
        <3>2. PICK k \in 1..(j - 1) : ~IsRead(sent[k])
            BY <3>1
        <3>3. k \in 1..Len(sent)
            BY <2>3
        <3> QED BY <3>2, <3>3
    <2>7. PlantsSent # {}
        BY <2>3, <2>6 DEF PlantsSent
    <2>8. PICK k \in PlantsSent : ~(sent[k].asks \subseteq vanish)
        BY <1>1, <2>7 DEF NothingLanded
    <2>9. k \in 1..Len(sent) /\ ~IsRead(sent[k])
        BY <2>3 DEF PlantsSent
    <2>10. PICK x \in Sought : sent[k].asks = {x}
        BY <1>1, <2>9 DEF WellSent, PlantsSought
    <2> QED BY <2>1, <2>8, <2>10
<1>5. CASE probe \in {"boundary", "inversion", "entity", "ikea"}
    <2>1. corpus = {m \in Markers : m.tenant \in landed}
        BY <1>1, <1>2, <1>5 DEF LoadedCorpus, Slot, OnCorpus
    <2>2. \E t \in TenantIds : t \in landed
        <3>1. live => landed # {}
            BY <1>1, <1>5 DEF Starved, Slot
        <3>2. landed # {}
            BY <1>1, <3>1, SubstrateFacts DEF SubstrateTyped
        <3> QED BY <1>1, <3>2 DEF SubstrateTyped
    <2>3. PICK t \in TenantIds : t \in landed
        BY <2>2
    <2>4. \E m \in corpus : m \in Hard
        BY <1>1, <1>3, <2>1, <2>3, SubstrateFacts
    <2>5. \E m \in corpus : m \in EntityCanaries
        BY <1>1, <1>3, <2>1, <2>3, SubstrateFacts
    <2> QED BY <1>5, <2>4, <2>5 DEF Targets
<1>6. CASE probe = "pipeline"
    <2>1. Targets = corpus
        BY <1>6 DEF Targets
    <2>2. CASE live
        BY <1>1, <1>6, <2>1, <2>2 DEF Starved, Slot
    <2>3. CASE ~live
        <3>1. corpus = Markers
            BY <1>1, <1>2, <1>6, <2>3 DEF LoadedCorpus, Slot
        <3> QED BY <1>1, <1>3, <2>1, <3>1, SubstrateFacts
    <2> QED BY <2>2, <2>3
<1>7. CASE probe \in {"tool", "framework"}
    <2>1. ~live
        BY <1>1, <1>7 DEF Starved, Slot
    <2>2. corpus = Hard
        BY <1>1, <1>7, <2>1 DEF LoadedCorpus, Slot
    <2>3. Targets = Hard
        BY <1>7, <2>2 DEF Targets
    <2> QED BY <1>1, <1>3, <2>3, SubstrateFacts
<1>8. \/ probe \in Planting \/ probe \in {"boundary", "inversion", "entity", "ikea"}
      \/ probe = "pipeline" \/ probe \in {"tool", "framework"}
    BY <1>1 DEF SubstrateTyped, ProbeKinds, Slot, Planting
<1> QED
    BY <1>4, <1>5, <1>6, <1>7, <1>8

LEMMA CouldHaveFailed ==
    ASSUME PlanInv, MinEntities > 0
    PROVE  PassCouldHaveFailed
<1> SUFFICES ASSUME versioned, ~HasConfirmed
             PROVE  \E i \in Reads : \E m \in Stored(i) \cap sent[i].asks : ForeignTo(m, sent[i].actor)
    BY DEF PassCouldHaveFailed
<1>1. /\ SubstrateTyped /\ WellSent(sent) /\ sent # <<>> /\ corpus = LoadedCorpus
      /\ findings = AllConfirmed \cup AllUnverified
    BY DEF PlanInv, PlanRecorded
<1>2. AllConfirmed = {}
    <2> SUFFICES ASSUME NEW f \in AllConfirmed PROVE FALSE
        OBVIOUS
    <2>1. f.status = "confirmed"
        BY ConfirmedAre DEF Finding
    <2> QED BY <1>1, <2>1 DEF HasConfirmed
<1>3. PICK n \in Targets : TRUE
    BY <1>2, SomethingToFind
<1>4. PICK i \in 1..Len(sent) : IsRead(sent[i])
    BY <1>1 DEF WellSent
<1>5. sent[i].actor \in Principals /\ Expressed(sent[i].actor, carries)
    <2>1. sent[i] \in Steps
        BY <1>1 DEF WellSent
    <2> QED BY <1>1, <1>4, <2>1 DEF WellSent, Steps
<1>6. PICK m \in sent[i].asks : m \in Sought /\ ForeignTo(m, sent[i].actor)
    BY <1>1, <1>4 DEF WellSent, ReadsSought
<1>7. m \in Markers /\ n \in Markers
    <2>1. n \in Sought
        BY <1>1, TargetsAre
    <2> QED BY <1>1, <1>6, <2>1, SoughtAreMarkers
<1>8. PICK q \in Principals : ForeignTo(n, q) /\ Expressed(q, carries)
    BY <1>1, <1>5, <1>6, <1>7, EachIsForeign
<1>9. PICK j \in Reads : sent[j].actor = q /\ n \in Stored(j) \cap sent[j].asks
    BY <1>1, <1>8, TargetIsAsked
<1> QED
    BY <1>8, <1>9

\* Whatever the substrate, its shared entities among them at least one, the probe and its
\* stack: a probe that is recorded and confirmed nothing could have confirmed something.
THEOREM PassesCouldFail ==
    ASSUME MinEntities > 0
    PROVE  PlanSpec => []PassCouldHaveFailed
<1>1. PlanInv => PassCouldHaveFailed
    BY CouldHaveFailed
<1> QED
    BY <1>1, PlansInductive, PTL

-----------------------------------------------------------------------------
(* The two parts. *)

LEMMA PartsAreSpecs == PartSpec => Spec /\ PlanSpec
<1>1. PartInit => Init /\ PlanInit
    BY DEF PartInit
<1>2. [PartNext]_<<part, vars, planVars>> => [Next]_vars /\ [PlanNext]_planVars
    BY DEF PartNext
<1> QED
    BY <1>1, <1>2, PTL DEF PartSpec, Spec, PlanSpec

\* Both parts keep their types: the suite's record, its findings and versions included, and
\* a probe's findings, which are of markers and principals of the substrate.
THEOREM PartsTypes == PartSpec => []TypesOK
<1>1. PlanInv => PlanTypeOK
    BY PlanTyped
<1> QED
    BY <1>1, PartsAreSpecs, SuiteTypes, PlansInductive, PTL DEF TypesOK

\* For every suite in which a probe that plants also reads, as PlanOfPlans says the plans
\* do, and every substrate with a shared entity: no recorded probe passes for nothing.
THEOREM NoPassIsVacuous ==
    ASSUME MinEntities > 0, \A p \in Probes : Plants(p) # {} => Judged(p) # {}
    PROVE  PartSpec => []NoVacuousPass
<1>1. Spec => []PassAskedSomething
    BY NoVacuousProbe
<1>2. PlanSpec => []PassCouldHaveFailed
    BY PassesCouldFail
<1> QED
    BY <1>1, <1>2, PartsAreSpecs, PTL DEF NoVacuousPass
=============================================================================
