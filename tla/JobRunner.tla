------------------------------ MODULE JobRunner ------------------------------
(***************************************************************************)
(* JobRunner.map: SerialJobRunner when MaxWorkers is 1, otherwise          *)
(* ThreadJobRunner, a thread pool whose executor.map is drained by list(). *)
(* The calling thread takes the results in input order; on the first that  *)
(* is an exception it cancels what is still queued, last submitted first,  *)
(* and leaves the pool's `with` block, which waits for the running jobs.   *)
(* Between two cancellations a worker may still start a queued job.        *)
(***************************************************************************)
EXTENDS Integers, FiniteSets

CONSTANTS
    N,            \* the number of jobs; they are 1..N in input order
    MaxWorkers    \* --max-concurrency, or 1 for a suite of one

ASSUME JobsAssumed    == N \in Nat
ASSUME WorkersAssumed == MaxWorkers \in Nat \ {0}   \* build_job_runner refuses less

VARIABLES
    status,       \* of each job: see Statuses
    collected,    \* results the calling thread has taken
    mapped,       \* what the calling thread is doing: see Stages
    error         \* the job whose exception it propagates, or 0

jobVars == <<status, collected, mapped, error>>

Statuses == {"queued", "running", "returned", "raised", "cancelled"}
Stages   == {"mapping", "cancelling", "results", "error"}

JobInit ==
    /\ status = [j \in 1..N |-> "queued"]
    /\ collected = 0
    /\ mapped = "mapping"
    /\ error = 0

Serial  == MaxWorkers = 1
Queued  == {j \in 1..N : status[j] = "queued"}
Running == {j \in 1..N : status[j] = "running"}

-----------------------------------------------------------------------------
(* The jobs. *)

\* A serial runner calls its next job once it has the result of the one before;
\* in a pool, an idle worker takes the job that was queued first.
Start(j) ==
    /\ mapped \in {"mapping", "cancelling"}
    /\ j \in Queued
    /\ \A i \in Queued : j <= i
    /\ Cardinality(Running) < MaxWorkers
    /\ Serial => mapped = "mapping" /\ collected = j - 1
    /\ status' = [status EXCEPT ![j] = "running"]
    /\ UNCHANGED <<collected, mapped, error>>

Ends(j, how) ==
    /\ j \in Running
    /\ status' = [status EXCEPT ![j] = how]
    /\ UNCHANGED <<collected, mapped, error>>

Returns(j) == Ends(j, "returned")
Raises(j)  == Ends(j, "raised")

-----------------------------------------------------------------------------
(* The calling thread. *)

Collect ==
    /\ mapped = "mapping"
    /\ collected < N
    /\ status[collected + 1] = "returned"
    /\ collected' = collected + 1
    /\ UNCHANGED <<status, mapped, error>>

\* The result awaited is an exception. A serial runner has queued nothing.
CollectError ==
    /\ mapped = "mapping"
    /\ collected < N
    /\ status[collected + 1] = "raised"
    /\ error' = collected + 1
    /\ mapped' = IF Serial THEN "error" ELSE "cancelling"
    /\ UNCHANGED <<status, collected>>

CancelQueued ==
    /\ mapped = "cancelling"
    /\ \E j \in Queued :
          /\ \A i \in Queued : i <= j
          /\ status' = [status EXCEPT ![j] = "cancelled"]
    /\ UNCHANGED <<collected, mapped, error>>

\* Fault: the pool is left without waiting for its running jobs.
LeavesRunning ==
    /\ mapped = "cancelling"
    /\ Queued = {}
    /\ mapped' = "error"
    /\ UNCHANGED <<status, collected, error>>

\* The with block ends when every worker is idle.
Join ==
    /\ mapped = "cancelling"
    /\ Queued = {} /\ Running = {}
    /\ mapped' = "error"
    /\ UNCHANGED <<status, collected, error>>

Deliver ==
    /\ mapped = "mapping"
    /\ collected = N
    /\ mapped' = "results"
    /\ UNCHANGED <<status, collected, error>>

Caller == Collect \/ CollectError \/ CancelQueued \/ Join \/ Deliver

-----------------------------------------------------------------------------
(* The runner on its own, over jobs that return or raise. *)

JobNext ==
    \/ \E j \in 1..N : Start(j) \/ Returns(j) \/ Raises(j)
    \/ Caller

\* What map promises: see JobBatch. A queued or cancelled job has not begun.
Promise == INSTANCE JobBatch WITH
    job    <- [j \in 1..N |-> IF status[j] \in {"queued", "cancelled"} THEN "idle" ELSE status[j]],
    answer <- IF mapped \in {"results", "error"} THEN mapped ELSE "none",
    error  <- IF mapped = "error" THEN error ELSE 0

-----------------------------------------------------------------------------
JobTypeOK ==
    /\ status \in [1..N -> Statuses]
    /\ collected \in 0..N
    /\ mapped \in Stages
    /\ error \in 0..N

\* The pool, with its queue, its cancellations and its join, answers as JobBatch
\* promises: the results of jobs that all returned, or the exception of the first
\* job in input order that raised, and then no job runs or starts any more.
KeepsPromise == Promise!BatchSpec

=============================================================================
