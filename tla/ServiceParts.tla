---------------------------- MODULE ServiceParts ----------------------------
(***************************************************************************)
(* The parts that wait for a service, side by side: one probe's detection, *)
(* with its embedder and judge, the trace backends, the agents, and the    *)
(* runner that waits for the jobs it gave out.  They share no state; part  *)
(* says which of them a behaviour is of, and the others stay in one of     *)
(* their initial states.                                                   *)
(***************************************************************************)
EXTENDS Detection, TraceBackends, AgentTurn

CONSTANTS NJobs, NWorkers   \* the jobs of the runner, and its pool

ASSUME PoolAssumed == NJobs \in Nat /\ NWorkers \in Nat \ {0}

VARIABLES
    part,
    pool, collected, mapped, error   \* a job runner

Jobs == INSTANCE JobRunner WITH N <- NJobs, MaxWorkers <- NWorkers, status <- pool

jobVars  == <<pool, collected, mapped, error>>
partVars  == <<part, vars, traceVars, agentVars, jobVars>>

DetectionIdle == steps = (CHOOSE plan \in Plans : TRUE)
TracesIdle == kind = "otel" /\ target = 0 /\ field = "name" /\ route = "accepts" /\ stored = <<>>
AgentsIdle == framework = "http"

PartInit ==
    /\ part \in {"detection", "traces", "agents", "jobs"}
    /\ IF part = "detection" THEN TRUE ELSE DetectionIdle
    /\ IF part = "traces"    THEN TRUE ELSE TracesIdle
    /\ IF part = "agents"    THEN TRUE ELSE AgentsIdle
    /\ Init /\ TraceInit /\ AgentInit /\ Jobs!JobInit

PartNext ==
    \/ /\ part = "detection" /\ Next
       /\ UNCHANGED <<part, traceVars, agentVars, jobVars>>
    \/ /\ part = "traces" /\ TraceNext
       /\ UNCHANGED <<part, vars, agentVars, jobVars>>
    \/ /\ part = "agents" /\ AgentNext
       /\ UNCHANGED <<part, vars, traceVars, jobVars>>
    \/ /\ part = "jobs" /\ Jobs!JobNext
       /\ UNCHANGED <<part, vars, traceVars, agentVars>>

\* What goes on by itself: a request returns or times out and whatever waits for it
\* takes its next step, the calling thread and idle workers are scheduled, a job ends.
\* The services owe nothing.
Progress ==
    \/ part = "detection" /\ Next /\ UNCHANGED <<part, traceVars, agentVars, jobVars>>
    \/ /\ part = "traces" /\ TraceStep /\ Watch
       /\ UNCHANGED <<part, vars, agentVars, jobVars>>
    \/ /\ part = "agents" /\ \E w \in Workers : AgentStep(w)
       /\ UNCHANGED <<part, vars, traceVars, jobVars>>
    \/ part = "jobs" /\ Jobs!JobNext /\ UNCHANGED <<part, vars, traceVars, agentVars>>

PartSpec == PartInit /\ [][PartNext]_partVars /\ WF_partVars(Progress)

-----------------------------------------------------------------------------
\* Every part keeps to its types, its counters and its places.
TypesOK ==
    CASE part = "detection" -> TypeOK
      [] part = "traces"    -> TraceTypeOK
      [] part = "agents"    -> AgentTypeOK
      [] part = "jobs"      -> Jobs!JobTypeOK

Pending ==
    CASE part = "detection" -> outcome \notin {"detected", "raised"}
      [] part = "traces"    -> op.call # "none"
      [] part = "agents"    -> turn[1].at # "rest"     \* the workers are alike
      [] part = "jobs"      -> mapped \notin {"results", "error"}

\* A probe's detection, a call of a trace backend, an agent's run and a map of jobs all
\* end, whatever the services they wait for do: by an answer, an error, a deadline or a
\* bound on the tries; and what map ends with is what JobBatch promises.
EverythingAnswers == (Pending ~> ~Pending) /\ Jobs!KeepsPromise
=============================================================================
