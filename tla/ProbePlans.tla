------------------------------ MODULE ProbePlans ------------------------------
(***************************************************************************)
(* The probes of the suite, one at a time, from the seeded substrate to    *)
(* what the run may say of them: which steps a probe plans, whether the    *)
(* configured stack can receive its canaries and answer it, which steps    *)
(* the runner sends, and what the probe makes of the answers.  How steps   *)
(* of concurrent probes interleave is in ProbeRun.                         *)
(*                                                                         *)
(* The substrate is the generator's: of each tenant, MARKERS_PER_TYPE      *)
(* markers of each type, dealt to its users in turn, each in a document of *)
(* its own that names a shared entity; without an entity, no document.     *)
(***************************************************************************)
EXTENDS Naturals, FiniteSets, SequencesExt

CONSTANTS
    MARKERS_PER_TYPE,
    MaxTenants, MaxUsers, MinEntities, MaxEntities

ASSUME MarkersAssumed   == MARKERS_PER_TYPE \in Nat \ {0}
ASSUME SubstrateAssumed == MaxTenants \in Nat /\ MaxUsers \in Nat /\ MinEntities \in Nat

VARIABLES
    users,      \* substrate: how many users each tenant declares
    entities,   \* substrate: how many shared entities
    probe,      \* the probe under run, of ProbeKinds
    live,       \* the slot's adapter is not the built-in fake
    carries,    \* it carries a user
    capable,    \* it has one of the capabilities the probe requires
    reads_store,\* environment: a live RAG pipeline answers from the vector store
    landed,     \* environment: tenants whose corpus a live vector store serves
    vanish,     \* environment: markers whose plant is acknowledged and dropped
    leak,       \* environment: the backend separates "tenants", "principals" or "nobody"
    corpus,     \* markers the command put where the probe reads
    stage,      \* "start", "refused", "skipped", "loaded", "sent", "run"
    plan,       \* the steps the probe plans
    sent,       \* of them, those the runner sends
    dropped_steps, \* user-level steps not run
    versioned,  \* the probe is in probe_versions
    findings

stack == <<live, carries, capable>>
env   == <<reads_store, landed, vanish, leak>>
command  == <<users, entities, probe, stack, env>>
planVars == <<command, corpus, stage, plan, sent, dropped_steps, versioned, findings>>

Slot == [boundary |-> "vector", entity |-> "vector", pipeline |-> "rag", cache |-> "cache",
         lora |-> "model", tool |-> "mcp", framework |-> "agent", memory |-> "memory",
         inversion |-> "vector", ikea |-> "vector", poisoning |-> "vector"]
ProbeKinds   == DOMAIN Slot
Planting == {"cache", "lora", "memory", "poisoning"}
OnCorpus == {"boundary", "entity", "pipeline", "inversion", "ikea"}
ByMarker == {"boundary", "cache", "tool", "framework"}   \* lookups of one marker
Userless   == {"rag", "agent"}      \* ask and run take no user
Gated    == {"lora", "inversion"} \* requires_any_capability

-----------------------------------------------------------------------------
(* The substrate. *)

TENANT_LEVEL == 0
TenantIds    == DOMAIN users
Principals == UNION {{[tenant |-> t, user |-> u] : u \in 0..users[t]} : t \in TenantIds}
Markers    == [tenant : TenantIds, n : 0..(3 * MARKERS_PER_TYPE - 1)]
Hard       == {m \in Markers : m.n < MARKERS_PER_TYPE}
EntityCanaries == {m \in Markers : m.n \div MARKERS_PER_TYPE = 1}

\* Dealt in turn; of a tenant without users, its own.
Owner(m) == [tenant |-> m.tenant,
             user   |-> IF users[m.tenant] = 0 THEN TENANT_LEVEL ELSE (m.n % users[m.tenant]) + 1]

InCorpus    == IF entities = 0 THEN {} ELSE Markers
Naming(e)   == {m \in InCorpus : m.n % entities = e}

ForeignTo(m, p) ==
    \/ m.tenant # p.tenant
    \/ p.user # TENANT_LEVEL /\ Owner(m).user \notin {TENANT_LEVEL, p.user}

\* Fault: a probe asks as the tenants only.
TenantObservers(ms) == {p \in Principals : p.user = TENANT_LEVEL /\ \E m \in ms : ForeignTo(m, p)}

Observers(ms) == {p \in Principals : \E m \in ms : ForeignTo(m, p)}

-----------------------------------------------------------------------------
(* The plans: sequences of steps, each a plant of one marker or a read that asks for some. *)

PlantStep(m)      == [action |-> "plant", actor |-> Owner(m), asks |-> {m}]
ReadStep(p, asks) == [action |-> "read", actor |-> p, asks |-> asks]
Asking(asks)  == SetToSeq({ReadStep(p, asks) : p \in Observers(asks)})
ForEach(S, Part(_)) == LET s == SetToSeq(S) IN FlattenSeq([i \in DOMAIN s |-> Part(s[i])])

\* A marker that is foreign to nobody is not planted; asks names what a read of it may
\* bring back.
PlantThenAsk(asks) ==
    ForEach({m \in Hard : Observers({m}) # {}},
            LAMBDA m : <<PlantStep(m)>> \o
                       SetToSeq({ReadStep(p, asks[m]) : p \in Observers({m})}))

BoundaryPlan  == ForEach(Hard \cap InCorpus, LAMBDA m : Asking({m}))
EntityPlan    == ForEach(0..(entities - 1), LAMBDA e : Asking(Naming(e)))
PipelinePlan  == EntityPlan
CachePlan     == PlantThenAsk([m \in Hard |-> {m}])
\* A recall, or an inference, may bring back any note.
MemoryPlan    == PlantThenAsk([m \in Hard |-> Hard])
AdapterPlan   == PlantThenAsk([m \in Hard |-> Hard])
\* A lookup stands for its variants, and an extraction's question for its turns.
ToolPlan      == ForEach(Hard, LAMBDA m : Asking({m}))
FrameworkPlan == ForEach(Hard, LAMBDA m : Asking({m}))
ExtractionPlan == EntityPlan
InversionPlan == ForEach(EntityCanaries, LAMBDA m : Asking({m}))
PoisonPlan    == LET planted == {m \in Hard : Observers({m}) # {}}
                 IN  ForEach(planted, LAMBDA m : <<PlantStep(m)>>) \o Asking(planted)

PlanOf == CASE probe = "boundary"  -> BoundaryPlan
            [] probe = "entity"    -> EntityPlan
            [] probe = "pipeline"  -> PipelinePlan
            [] probe = "cache"     -> CachePlan
            [] probe = "memory"    -> MemoryPlan
            [] probe = "lora"      -> AdapterPlan
            [] probe = "tool"      -> ToolPlan
            [] probe = "framework" -> FrameworkPlan
            [] probe = "inversion" -> InversionPlan
            [] probe = "ikea"      -> ExtractionPlan
            [] probe = "poisoning" -> PoisonPlan

-----------------------------------------------------------------------------
(* The runner. *)

DroppableStep(step) == step.actor.user # TENANT_LEVEL /\ ~carries
IsRead(step)    == step.action = "read"
DropsPlan == /\ \E i \in DOMAIN plan : IsRead(plan[i])
             /\ \A i \in DOMAIN plan : IsRead(plan[i]) => DroppableStep(plan[i])

\* A plant that cannot be made as the user is made as the tenant.
AsTenant(step) ==
    IF DroppableStep(step) THEN [step EXCEPT !.actor.user = TENANT_LEVEL] ELSE step

\* Fault: a plant as a user that cannot be carried is dropped like a read.
SentWithoutPlants ==
    FlattenSeq([i \in DOMAIN plan |-> IF DroppableStep(plan[i]) THEN <<>> ELSE <<plan[i]>>])

StepsToSend ==
    FlattenSeq([i \in DOMAIN plan |->
        IF IsRead(plan[i]) /\ DroppableStep(plan[i]) THEN <<>> ELSE <<AsTenant(plan[i])>>])

\* What the backend holds for the probe before a step.
Stored(i) ==
    corpus \cup ((UNION {sent[j].asks : j \in {k \in 1..(i - 1) : ~IsRead(sent[k])}}) \ vanish)

Serves(m, p) == CASE leak = "nobody"     -> TRUE
                  [] leak = "tenants"    -> m.tenant = p.tenant
                  [] leak = "principals" -> ~ForeignTo(m, p)

ServedAt(i) == {m \in Stored(i) \cap sent[i].asks : Serves(m, sent[i].actor)}

Finding(m, p, status) == [marker |-> m, actor |-> p, status |-> status]
Confirmed(i) == {Finding(m, sent[i].actor, "confirmed") :
                    m \in {x \in ServedAt(i) : ForeignTo(x, sent[i].actor)}}

\* A lookup that surfaced nothing foreign is no enforced deny; a tool's or an agent's is
\* ambiguous whatever it answered.
Ambiguous(i) ==
    /\ probe \in ByMarker /\ Confirmed(i) = {}
    /\ ServedAt(i) = {} \/ probe \in {"tool", "framework"}

Unverified(i) ==
    IF Ambiguous(i)
    THEN {Finding(m, sent[i].actor, "unverified") :
              m \in {x \in sent[i].asks : ForeignTo(x, sent[i].actor)}}
    ELSE {}

Reads        == {i \in DOMAIN sent : IsRead(sent[i])}
PlantsSent   == {i \in DOMAIN sent : ~IsRead(sent[i])}
NothingLanded == PlantsSent # {} /\ \A i \in PlantsSent : sent[i].asks \subseteq vanish

-----------------------------------------------------------------------------
(* The command. *)

Crossable == Observers(Markers) # {}

RefuseRun ==
    /\ stage = "start" /\ ~Crossable
    /\ stage' = "refused"
    /\ UNCHANGED <<command, corpus, plan, sent, dropped_steps, versioned, findings>>

SkipInapplicable ==
    /\ stage = "start" /\ Crossable
    /\ probe \in Gated /\ ~capable
    /\ stage' = "skipped"
    /\ UNCHANGED <<command, corpus, plan, sent, dropped_steps, versioned, findings>>

\* The corpus is loaded into the vector store; the fakes that have no write are
\* provisioned, the RAG pipeline with the corpus, the tools with the hard canaries.
Load ==
    /\ stage = "start" /\ Crossable
    /\ probe \in Gated => capable
    /\ corpus' = CASE Slot[probe] = "vector" /\ probe \in OnCorpus ->
                        {m \in InCorpus : m.tenant \in landed}
                   [] probe = "pipeline" /\ live ->
                        (IF reads_store THEN {m \in InCorpus : m.tenant \in landed} ELSE {})
                   [] probe = "pipeline" /\ ~live -> InCorpus
                   [] probe \in {"tool", "framework"} -> (IF live THEN {} ELSE Hard)
                   [] OTHER -> {}
    /\ plan' = PlanOf
    /\ stage' = "loaded"
    /\ UNCHANGED <<command, sent, dropped_steps, versioned, findings>>

\* A live pipeline is asked for one canary of the first tenant, a live store for one
\* document of each tenant; a live tool or agent cannot have been given any.
Starved ==
    /\ live
    /\ CASE Slot[probe] = "vector" -> landed = {}
         [] probe = "pipeline"     -> {m \in Hard \cap corpus : m.tenant = 1} = {}
         [] probe \in {"tool", "framework"} -> TRUE
         [] OTHER -> FALSE

SkipUnseedable ==
    /\ stage = "loaded" /\ Starved
    /\ stage' = "skipped"
    /\ UNCHANGED <<command, corpus, plan, sent, dropped_steps, versioned, findings>>

DropPlan ==
    /\ stage = "loaded" /\ ~Starved /\ DropsPlan
    /\ dropped_steps' = Cardinality({i \in DOMAIN plan : plan[i].actor.user # TENANT_LEVEL})
    /\ stage' = "run"
    /\ UNCHANGED <<command, corpus, plan, sent, versioned, findings>>

SendSteps ==
    /\ stage = "loaded" /\ ~Starved /\ ~DropsPlan
    /\ sent' = StepsToSend
    /\ dropped_steps' = Len(plan) - Len(StepsToSend)
    /\ stage' = "sent"
    /\ UNCHANGED <<command, corpus, plan, versioned, findings>>

Detect ==
    /\ stage = "sent"
    /\ LET confirmed == UNION {Confirmed(i) : i \in Reads}
           nothing   == NothingLanded /\ confirmed = {}
       IN  /\ versioned' = (sent # <<>> /\ ~nothing)
           /\ findings' = IF nothing THEN {}
                          ELSE confirmed \cup UNION {Unverified(i) : i \in Reads}
    /\ stage' = "run"
    /\ UNCHANGED <<command, corpus, plan, sent, dropped_steps>>

PlanInit ==
    /\ users \in UNION {[1..t -> 0..MaxUsers] : t \in 1..MaxTenants}
    /\ entities \in MinEntities..MaxEntities
    /\ probe \in ProbeKinds
    /\ live \in BOOLEAN
    /\ carries \in (IF Slot[probe] \in Userless THEN {FALSE} ELSE BOOLEAN)
    /\ capable \in (IF probe \in Gated THEN BOOLEAN ELSE {TRUE})
    /\ reads_store \in (IF probe = "pipeline" /\ live THEN BOOLEAN ELSE {FALSE})
    /\ landed \in (IF live /\ probe \in OnCorpus THEN SUBSET TenantIds ELSE {TenantIds})
    /\ vanish \in (IF probe \in Planting \ {"lora"}
                  THEN {{}, Hard} \cup {{m} : m \in Hard} ELSE {{}})
    /\ leak \in {"nobody", "tenants", "principals"}
    /\ corpus = {} /\ plan = <<>> /\ sent = <<>> /\ stage = "start"
    /\ dropped_steps = 0 /\ versioned = FALSE /\ findings = {}

PlanNext ==
    RefuseRun \/ SkipInapplicable \/ Load \/ SkipUnseedable \/ DropPlan \/ SendSteps \/ Detect

PlanSpec == PlanInit /\ [][PlanNext]_planVars

-----------------------------------------------------------------------------
\* Types; a probe that is not recorded has no findings.
PlanTypeOK ==
    /\ stage \in {"start", "refused", "skipped", "loaded", "sent", "run"}
    /\ corpus \subseteq Markers /\ dropped_steps \in Nat
    /\ findings # {} => versioned
    /\ \A f \in findings : f.marker \in Markers /\ f.actor \in Principals

HasConfirmed == \E f \in findings : f.status = "confirmed"

\* A probe that is recorded and confirmed nothing could have confirmed something: one of
\* the reads it sent asks for a canary that is there and is foreign to the reader.
PassCouldHaveFailed ==
    versioned /\ ~HasConfirmed =>
        \E i \in Reads : \E m \in Stored(i) \cap sent[i].asks : ForeignTo(m, sent[i].actor)

\* The canaries of the kind a probe goes for, where it finds them.
Targets ==
    CASE probe = "boundary"  -> Hard \cap corpus
      [] probe = "inversion" -> EntityCanaries \cap corpus
      [] probe \in {"entity", "ikea", "pipeline"} -> corpus
      [] probe \in {"tool", "framework"} -> Hard \cap corpus
      [] OTHER -> Hard \ vanish

\* A probe that is recorded has crossed every boundary its adapter can express: it
\* confirms every canary that is there and that the backend serves to a foreign
\* principal, tenant or user, and no other.
EveryBoundaryIsCrossed ==
    versioned =>
        {f \in findings : f.status = "confirmed"} =
            {f \in [marker : Targets, actor : Principals, status : {"confirmed"}] :
                /\ ForeignTo(f.marker, f.actor) /\ Serves(f.marker, f.actor)
                /\ f.actor.user # TENANT_LEVEL => carries}

\* A lookup of a foreign canary by name never passes in silence: it is a leak, or a note
\* that an empty answer is no deny.
LookupsAreAnswered ==
    versioned /\ probe \in ByMarker =>
        \A i \in Reads : \E f \in findings : f.actor = sent[i].actor /\ f.marker \in sent[i].asks

\* A recorded probe crossed every boundary its adapter can express, and no lookup it made
\* passed in silence.
PlansAreCarriedOut == EveryBoundaryIsCrossed /\ LookupsAreAnswered

\* corpus.py: without a shared entity "the probes that query the corpus then plan no step
\* and their classes read NOT_COVERED".
UnplantedIsNotCovered == entities = 0 /\ probe \in OnCorpus => ~versioned
=============================================================================
