------------------------------ MODULE ProbeRun ------------------------------
(***************************************************************************)
(* `sectum-ai probe`: the suite of probes is handed to a JobRunner, one    *)
(* job per probe, and every job is Runner.run_per_step over the same       *)
(* adapters.  A probe's plan is a sequence of steps that plant a canary as *)
(* one principal or read as another; a step is one or two backend calls,   *)
(* and the calls of concurrent probes interleave.  What the jobs return    *)
(* becomes the run record and the exit code.                               *)
(*                                                                         *)
(* The stack under test is the environment: a leaky backend serves         *)
(* everybody's documents, a lossy one acknowledges a plant and drops it, a *)
(* blind one cannot read a plant back, and any call may raise.             *)
(***************************************************************************)
EXTENDS JobRunner, Sequences

CONSTANTS
    Suite,         \* <<plan, ...>>: the steps each probe plans, see Step
    Families,      \* adapter families
    CarriesUser,   \* the ones whose adapter carries the user of a step
    NotReadBack,   \* the ones whose plants are not read back (model.train)
    Corpus,        \* documents seeded before the suite, see Document
    Tenants, Users,
    NoUser,        \* the actor or owner is a tenant, not one of its users
    None           \* the exit code of a run that has not finished

Principal == [tenant : Tenants, user : Users \cup {NoUser}]

\* A document holds one canary; by is the probe that planted it, 0 the corpus.
Document == [family : Families, owner : Principal, by : 0..N]

\* A plant writes doc as the step's actor. A read asks for one planted document
\* (by key), or with by = 0 for every document of the family.
Step == [action : {"plant", "read"}, actor : Principal, doc : Document, all : BOOLEAN]

ASSUME SuiteAssumed    == Suite \in [1..N -> Seq(Step)]
ASSUME FamiliesAssumed == CarriesUser \subseteq Families /\ NotReadBack \subseteq Families
ASSUME CorpusAssumed   == Corpus \subseteq Document
ASSUME UsersAssumed    == NoUser \notin Users
ASSUME ExitAssumed     == None \notin {0, 1, 2, 3}

VARIABLES
    leaky, lossy, blind,  \* environment: how each family's backend misbehaves
    store,                \* environment: the documents the backends hold
    at,                   \* index of the next step of each probe
    reading_back,         \* whether its plant is being read back
    planted, unconfirmed, \* plants it made, and those that did not read back
    dropped,              \* its user-level steps that were not run
    ran,                  \* whether any of its steps was run
    confirmed,            \* the leaks its reads confirmed: <<document, actor>>
    dropped_user_steps,   \* of the Runner, per probe
    unconfirmed_plants,   \* of the Runner, per probe
    group,                \* what run_per_step returned: whether any step, which leaks
    record,               \* run.json: the probes it versions, their findings
    exit

envVars == <<leaky, lossy, blind>>
runVars == <<at, reading_back, planted, unconfirmed, dropped, ran, confirmed>>
notes   == <<dropped_user_steps, unconfirmed_plants>>
vars == <<jobVars, leaky, lossy, blind, store, at, reading_back, planted, unconfirmed,
          dropped, ran, confirmed, dropped_user_steps, unconfirmed_plants, group,
          record, exit>>

Probes == 1..N
NoRecord == [versions |-> {}, findings |-> {}, dropped |-> {}, unconfirmed |-> {}]

Init ==
    /\ JobInit
    /\ leaky \in SUBSET Families
    /\ lossy \in SUBSET (Families \ NotReadBack)
    /\ blind \in SUBSET (Families \ (NotReadBack \cup lossy))
    /\ store = Corpus
    /\ at = [p \in Probes |-> 1]
    /\ reading_back = [p \in Probes |-> FALSE]
    /\ planted = [p \in Probes |-> 0] /\ unconfirmed = [p \in Probes |-> 0]
    /\ dropped = [p \in Probes |-> 0]
    /\ ran = [p \in Probes |-> FALSE]
    /\ confirmed = [p \in Probes |-> {}]
    /\ dropped_user_steps = [p \in Probes |-> 0]
    /\ unconfirmed_plants = [p \in Probes |-> 0]
    /\ group = [p \in Probes |-> [ran |-> FALSE, confirmed |-> {}]]
    /\ record = NoRecord
    /\ exit = None

-----------------------------------------------------------------------------
(* Helpers of the runner and of detection. *)

\* is_cross_principal
Foreign(doc, observer) ==
    \/ doc.owner.tenant # observer.tenant
    \/ /\ observer.user # NoUser /\ doc.owner.user # NoUser
       /\ doc.owner.user # observer.user

Plants(p) == {i \in 1..Len(Suite[p]) : Suite[p][i].action = "plant"}
Judged(p) == {i \in 1..Len(Suite[p]) : Suite[p][i].action = "read"}
UserLevel(p) == {i \in 1..Len(Suite[p]) : Suite[p][i].actor.user # NoUser}

\* _droppable: a user-level step on an adapter that cannot carry a user.
Droppable(p) == {i \in UserLevel(p) : Suite[p][i].doc.family \notin CarriesUser}

\* _drops_whole_probe: not one judged step can run.
DropsWholeProbe(p) == Judged(p) # {} /\ Judged(p) \subseteq Droppable(p)

\* _as_sent: what is dropped as a read is sent as its tenant if it is a plant.
AsSent(p, i) ==
    IF i \in Droppable(p) THEN [Suite[p][i] EXCEPT !.actor.user = NoUser] ELSE Suite[p][i]

Matches(step) ==
    {d \in store : d.family = step.doc.family /\ (step.all \/ d = step.doc)}

\* What a backend serves to the actor of a read.
Served(step) ==
    {d \in Matches(step) : step.doc.family \in leaky \/ ~Foreign(d, step.actor)}

-----------------------------------------------------------------------------
(* Runner.run_per_step, as the job of probe p. *)

StartProbe(p) ==
    /\ Start(p)
    /\ UNCHANGED <<envVars, store, runVars, notes, group, record, exit>>

InProbe(p) ==
    /\ status[p] = "running"
    /\ ~DropsWholeProbe(p)

\* A probe with nothing to judge runs nothing, its plants included.
DropProbe(p) ==
    /\ DropsWholeProbe(p)
    /\ dropped_user_steps' = [dropped_user_steps EXCEPT ![p] = Cardinality(UserLevel(p))]
    /\ Returns(p)
    /\ UNCHANGED <<envVars, store, runVars, unconfirmed_plants, group, record, exit>>

NextStep(p) == at' = [at EXCEPT ![p] = @ + 1]

DropStep(p) ==
    /\ InProbe(p)
    /\ at[p] \in Judged(p) \cap Droppable(p)
    /\ dropped' = [dropped EXCEPT ![p] = @ + 1]
    /\ NextStep(p)
    /\ UNCHANGED <<jobVars, envVars, store, reading_back, planted, unconfirmed, ran,
                   confirmed, notes, group, record, exit>>

\* Fault: a plant sent as the tenant is not counted among the plants.
PlantUncounted(p) ==
    /\ InProbe(p)
    /\ at[p] \in Plants(p) /\ ~reading_back[p]
    /\ LET step == AsSent(p, at[p])
       IN store' = IF step.doc.family \in lossy THEN store ELSE store \cup {step.doc}
    /\ planted' = [planted EXCEPT ![p] = @ + IF at[p] \in Droppable(p) THEN 0 ELSE 1]
    /\ reading_back' = [reading_back EXCEPT ![p] = TRUE]
    /\ UNCHANGED <<jobVars, envVars, at, unconfirmed, dropped, ran, confirmed, notes,
                   group, record, exit>>

\* The write of a plant step; a lossy backend acknowledges it and drops it.
Plant(p) ==
    /\ InProbe(p)
    /\ at[p] \in Plants(p) /\ ~reading_back[p]
    /\ LET step == AsSent(p, at[p])
       IN store' = IF step.doc.family \in lossy THEN store ELSE store \cup {step.doc}
    /\ planted' = [planted EXCEPT ![p] = @ + 1]
    /\ reading_back' = [reading_back EXCEPT ![p] = TRUE]
    /\ UNCHANGED <<jobVars, envVars, at, unconfirmed, dropped, ran, confirmed, notes,
                   group, record, exit>>

\* _plant_landed: the planted content must come back to the principal that wrote
\* it; a read that fails has not confirmed it.
ReadBack(p) ==
    /\ InProbe(p)
    /\ reading_back[p]
    /\ LET doc    == Suite[p][at[p]].doc
           landed == \/ doc.family \in NotReadBack
                     \/ doc \in store /\ doc.family \notin blind
       IN unconfirmed' = [unconfirmed EXCEPT ![p] = @ + IF landed THEN 0 ELSE 1]
    /\ reading_back' = [reading_back EXCEPT ![p] = FALSE]
    /\ ran' = [ran EXCEPT ![p] = TRUE]
    /\ NextStep(p)
    /\ UNCHANGED <<jobVars, envVars, store, planted, dropped, confirmed, notes, group,
                   record, exit>>

\* Fault: a leak to a user is put down to the user's tenant.
JudgeAsTenant(p) ==
    /\ InProbe(p)
    /\ at[p] \in Judged(p) \ Droppable(p)
    /\ LET step == Suite[p][at[p]]
       IN confirmed' = [confirmed EXCEPT ![p] = @ \cup
              {<<d, [step.actor EXCEPT !.user = NoUser]>> :
                   d \in {e \in Served(step) : Foreign(e, step.actor)}}]
    /\ ran' = [ran EXCEPT ![p] = TRUE]
    /\ NextStep(p)
    /\ UNCHANGED <<jobVars, envVars, store, reading_back, planted, unconfirmed, dropped,
                   notes, group, record, exit>>

\* A read, judged: each foreign canary in the response is a confirmed leak.
Judge(p) ==
    /\ InProbe(p)
    /\ at[p] \in Judged(p) \ Droppable(p)
    /\ LET step == Suite[p][at[p]]
       IN confirmed' = [confirmed EXCEPT ![p] = @ \cup
              {<<d, step.actor>> : d \in {e \in Served(step) : Foreign(e, step.actor)}}]
    /\ ran' = [ran EXCEPT ![p] = TRUE]
    /\ NextStep(p)
    /\ UNCHANGED <<jobVars, envVars, store, reading_back, planted, unconfirmed, dropped,
                   notes, group, record, exit>>

\* A call raises: the exception ends the probe, and its results are gone.
StepRaises(p) ==
    /\ InProbe(p)
    /\ at[p] <= Len(Suite[p]) /\ (at[p] \in Droppable(p) => at[p] \in Plants(p))
    /\ Raises(p)
    /\ UNCHANGED <<envVars, store, runVars, notes, group, record, exit>>

\* Fault: leaks do not save a probe whose plants vanished.
VanishedAnyway(p) == planted[p] > 0 /\ unconfirmed[p] = planted[p]

AskedNothing(p) ==
    planted[p] > 0 /\ unconfirmed[p] = planted[p] /\ confirmed[p] = {}

\* Fault: a probe that lost its plants does not note the steps it dropped.
FinishNotesLate(p) ==
    /\ InProbe(p)
    /\ at[p] > Len(Suite[p])
    /\ dropped_user_steps' = [dropped_user_steps EXCEPT ![p] =
                                  IF AskedNothing(p) THEN 0 ELSE dropped[p]]
    /\ unconfirmed_plants' = [unconfirmed_plants EXCEPT ![p] = unconfirmed[p]]
    /\ group' = [group EXCEPT ![p] = IF AskedNothing(p)
                                     THEN [ran |-> FALSE, confirmed |-> {}]
                                     ELSE [ran |-> ran[p], confirmed |-> confirmed[p]]]
    /\ Returns(p)
    /\ UNCHANGED <<envVars, store, runVars, record, exit>>

\* The end of run_per_step: both disclosures are noted, and a probe whose every
\* plant vanished and that saw nothing returns no step at all.
FinishProbe(p) ==
    /\ InProbe(p)
    /\ at[p] > Len(Suite[p])
    /\ dropped_user_steps' = [dropped_user_steps EXCEPT ![p] = dropped[p]]
    /\ unconfirmed_plants' = [unconfirmed_plants EXCEPT ![p] = unconfirmed[p]]
    /\ group' = [group EXCEPT ![p] = IF AskedNothing(p)
                                     THEN [ran |-> FALSE, confirmed |-> {}]
                                     ELSE [ran |-> ran[p], confirmed |-> confirmed[p]]]
    /\ Returns(p)
    /\ UNCHANGED <<envVars, store, runVars, record, exit>>

-----------------------------------------------------------------------------
(* The command. *)

Calling ==
    /\ Caller
    /\ UNCHANGED <<envVars, store, runVars, notes, group, record, exit>>

\* The exception map propagates is a typed error (exit 3) or a crash (exit 1);
\* either way nothing is recorded.
Abort ==
    /\ mapped = "error" /\ exit = None
    /\ exit' \in {1, 3}
    /\ UNCHANGED <<jobVars, envVars, store, runVars, notes, group, record>>

Findings == UNION {{<<p, leak[1], leak[2]>> : leak \in group[p].confirmed} : p \in Probes}
Versions == {p \in Probes : group[p].ran}

\* Nothing interrogated the stack: there is no run to record.
Refuse ==
    /\ mapped = "results" /\ exit = None
    /\ Versions = {} /\ Findings = {}
    /\ exit' = 3
    /\ UNCHANGED <<jobVars, envVars, store, runVars, notes, group, record>>

Record ==
    /\ mapped = "results" /\ exit = None
    /\ ~(Versions = {} /\ Findings = {})
    /\ record' = [versions |-> Versions, findings |-> Findings,
                  dropped |-> {p \in Probes : dropped_user_steps[p] > 0},
                  unconfirmed |-> {p \in Probes : unconfirmed_plants[p] > 0}]
    /\ exit' = IF Findings # {} THEN 2 ELSE 0
    /\ UNCHANGED <<jobVars, envVars, store, runVars, notes, group>>

Next ==
    \/ \E p \in Probes :
          \/ StartProbe(p) \/ DropProbe(p) \/ DropStep(p) \/ Plant(p) \/ ReadBack(p)
          \/ Judge(p) \/ StepRaises(p) \/ FinishProbe(p)
    \/ Calling \/ Abort \/ Refuse \/ Record

Spec == Init /\ [][Next]_vars

-----------------------------------------------------------------------------
TypeOK ==
    /\ JobTypeOK
    /\ leaky \subseteq Families /\ lossy \subseteq Families /\ blind \subseteq Families
    /\ store \subseteq Document
    /\ \A p \in Probes : at[p] \in 1..(Len(Suite[p]) + 1)
    /\ reading_back \in [Probes -> BOOLEAN]
    /\ planted \in [Probes -> Nat] /\ unconfirmed \in [Probes -> Nat]
    /\ \A p \in Probes : unconfirmed[p] <= planted[p]
    /\ dropped \in [Probes -> Nat]
    /\ ran \in [Probes -> BOOLEAN]
    /\ confirmed \in [Probes -> SUBSET (Document \X Principal)]
    /\ dropped_user_steps \in [Probes -> Nat] /\ unconfirmed_plants \in [Probes -> Nat]
    /\ \A p \in Probes : group[p].ran \in BOOLEAN /\ group[p].confirmed \subseteq confirmed[p]
    /\ record.versions \subseteq Probes /\ record.findings \subseteq Probes \X Document \X Principal
    /\ exit \in {None, 0, 1, 2, 3}

Recorded == exit \in {0, 2}

\* A probe the record versions without a finding did ask the stack something: it
\* judged a read, and if it plants at all, one of its own canaries was stored
\* (training is the exception: its plants are not read back).
PassAskedSomething ==
    Recorded =>
        \A p \in record.versions : (\A f \in record.findings : f[1] # p) =>
            /\ ~(Judged(p) \subseteq Droppable(p))
            /\ Plants(p) # {} =>
                  \E i \in Plants(p) :
                      Suite[p][i].doc \in store \/ Suite[p][i].doc.family \in NotReadBack

\* A leak a judged read has seen is in the record of a run that has one, its
\* probe is versioned there, and the command exits 2.
LeakIsNeverSuppressed ==
    Recorded =>
        \A p \in Probes : \A leak \in confirmed[p] :
            /\ <<p, leak[1], leak[2]>> \in record.findings
            /\ p \in record.versions
            /\ exit = 2

\* No leak is ever attributed to a user on an adapter that cannot carry one, and
\* a probe the run narrowed to the tenant boundary is disclosed in the record.
UserBoundaryIsHonest ==
    /\ \A p \in Probes : \A leak \in confirmed[p] :
          leak[2].user # NoUser => leak[1].family \in CarriesUser
    /\ Recorded => \A p \in Probes : Judged(p) \cap Droppable(p) # {} => p \in record.dropped

\* The jobs of the suite keep what JobBatch promises: in particular no probe is
\* still writing to a backend when the command records the run or gives up.
SuiteKeepsPromise == KeepsPromise

-----------------------------------------------------------------------------
(* What the suite finds when its probes run one after the other. *)

Positions == UNION {{<<p, i>> : i \in 1..Len(Suite[p])} : p \in Probes}

Earlier(x, y) == x[1] < y[1] \/ (x[1] = y[1] /\ x[2] < y[2])

\* The documents a read finds there: every plant before it has been made.
StoredFor(y) ==
    Corpus \cup {Suite[x[1]][x[2]].doc : x \in
        {z \in Positions : /\ z[2] \in Plants(z[1]) /\ ~DropsWholeProbe(z[1])
                           /\ Earlier(z, y)
                           /\ Suite[z[1]][z[2]].doc.family \notin lossy}}

LeaksAt(y) ==
    LET step == Suite[y[1]][y[2]]
    IN {d \in StoredFor(y) : /\ d.family = step.doc.family /\ d.family \in leaky
                             /\ step.all \/ d = step.doc
                             /\ Foreign(d, step.actor)}

SerialFindings ==
    UNION {{<<y[1], d, Suite[y[1]][y[2]].actor>> : d \in LeaksAt(y)} :
              y \in {z \in Positions : z[2] \in Judged(z[1]) \ Droppable(z[1])}}

\* Another probe plants where p reads.
Disturbed(p) ==
    \E q \in Probes \ {p} :
        /\ ~DropsWholeProbe(q)
        /\ \E i \in Plants(q), j \in Judged(p) \ Droppable(p) :
              Suite[q][i].doc.family = Suite[p][j].doc.family

FindingsOf(p, findings) == {f \in findings : f[1] = p}

\* The schedule of the pool and the fate of the other probes do not change what
\* the record says of a probe no other probe plants for: its findings are those
\* of the suite run in order.
UndisturbedIsSerial ==
    Recorded => \A p \in Probes :
        ~Disturbed(p) => FindingsOf(p, record.findings) = FindingsOf(p, SerialFindings)

=============================================================================
