------------------------------ MODULE JobBatch ------------------------------
(***************************************************************************)
(* What JobRunner.map promises its caller, whatever runs the batch: either *)
(* every job returned and the results are handed over, or the exception of *)
(* the first job, in input order, that raised is.  Once it has answered,   *)
(* no job of the batch is running and none will start.                     *)
(***************************************************************************)
EXTENDS Naturals

CONSTANT N              \* the jobs are 1..N, in input order

VARIABLES
    job,                \* what became of each job
    answer,             \* "none" until map answers
    error               \* the job whose exception map raises, or 0

batchVars == <<job, answer, error>>

BatchInit ==
    /\ job = [j \in 1..N |-> "idle"]
    /\ answer = "none"
    /\ error = 0

Begin(j) ==
    /\ answer = "none"
    /\ job[j] = "idle"
    /\ job' = [job EXCEPT ![j] = "running"]
    /\ UNCHANGED <<answer, error>>

End(j) ==
    /\ job[j] = "running"
    /\ \E how \in {"returned", "raised"} : job' = [job EXCEPT ![j] = how]
    /\ UNCHANGED <<answer, error>>

AnswerResults ==
    /\ answer = "none"
    /\ \A j \in 1..N : job[j] = "returned"
    /\ answer' = "results"
    /\ UNCHANGED <<job, error>>

AnswerError(j) ==
    /\ answer = "none"
    /\ job[j] = "raised"
    /\ \A i \in 1..(j - 1) : job[i] = "returned"
    /\ \A i \in 1..N : job[i] # "running"
    /\ answer' = "error"
    /\ error' = j
    /\ UNCHANGED job

BatchNext == AnswerResults \/ \E j \in 1..N : Begin(j) \/ End(j) \/ AnswerError(j)

BatchSpec == BatchInit /\ [][BatchNext]_batchVars
=============================================================================
