------------------------------- MODULE MCStores -------------------------------
(* The stores the probes and the erasure drive, what is asked of a model to fill  *)
(* them, and the check of a data subject over them, side by side: the vector      *)
(* store adapters, the other stores, the KV-cache timing probe, the embedder and  *)
(* `erasure --subject`.  They share no state; part says which of them a behaviour *)
(* is of, and the others stay in one of their initial states.                     *)
(*                                                                                *)
(* The subject check has the vector store (by id and by content), the tracing     *)
(* backend (by id, listed in the manifest with a phrase it cannot be probed for)  *)
(* and the model (by content); one record id, and two phrases of which one is too *)
(* short to verify.                                                               *)
EXTENDS VectorStores, Embedder, KvTiming, SurfaceStores, SubjectErasure

CONSTANTS
    d1, d2,   \* the documents of the vector store
    vector, tracing, model, id, long, short,   \* the surfaces and needles of the subject check
    Parts     \* the parts whose behaviours are checked

VARIABLE part

TheDocs == <<d1, d2>>

Three      == {vector, tracing, model}
ThreeOrder == <<vector, tracing, model>>

Asked ==
    {[s \in Three |-> CASE s = vector -> v [] s = tracing -> t [] s = model -> m] :
        v \in SUBSET {id, long, short}, t \in SUBSET {id, long}, m \in SUBSET {long, short}}

partVars == <<part, vars, surfaceVars, timingVars, bridgeVars, subjectVars>>

-----------------------------------------------------------------------------
StoresIdle   == backend = "pgvector" /\ user_scoped = FALSE /\ store = Empty
SurfacesIdle ==
    /\ kind = "redis_cache" /\ shared = FALSE
    /\ row = [r \in Rows |-> CHOOSE x \in Row : x.user = NO_USER]
TimingIdle   == domain = [t \in TimedTenants |-> t] /\ infers = FALSE /\ flat = FALSE /\ drift = 0
SubjectIdle  ==
    /\ asked = [s \in Three |-> {}] /\ repeats = 0
    /\ base_control = FALSE /\ fetches_traces = FALSE

PartInit ==
    /\ part \in Parts
    /\ IF part = "stores"   THEN TRUE ELSE StoresIdle
    /\ IF part = "surfaces" THEN TRUE ELSE SurfacesIdle
    /\ IF part = "timing"   THEN TRUE ELSE TimingIdle
    /\ IF part = "subject"  THEN TRUE ELSE SubjectIdle
    /\ Init /\ SurfaceInit /\ TimingInit /\ BridgeInit /\ SubjectInit

PartNext ==
    \/ /\ part = "stores" /\ Next
       /\ UNCHANGED <<part, surfaceVars, timingVars, bridgeVars, subjectVars>>
    \/ /\ part = "surfaces" /\ SurfaceNext
       /\ UNCHANGED <<part, vars, timingVars, bridgeVars, subjectVars>>
    \/ /\ part = "timing" /\ TimingNext
       /\ UNCHANGED <<part, vars, surfaceVars, bridgeVars, subjectVars>>
    \/ /\ part = "texts" /\ BridgeNext
       /\ UNCHANGED <<part, vars, surfaceVars, timingVars, subjectVars>>
    \/ /\ part = "subject" /\ SubjectNext
       /\ UNCHANGED <<part, vars, surfaceVars, timingVars, bridgeVars>>

PartSpec == PartInit /\ [][PartNext]_partVars
=============================================================================
