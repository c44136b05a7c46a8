------------------------------ MODULE ProbeParts ------------------------------
(***************************************************************************)
(* The two views of the probe command side by side: the interleaved suite  *)
(* of ProbeRun, and one probe from its plan of ProbePlans.  They share no  *)
(* state; part says which of them a behaviour is of, and the other stays   *)
(* as it began.                                                            *)
(***************************************************************************)
EXTENDS ProbeRun, ProbePlans

VARIABLE part   \* "suite" or "plan"

PartInit ==
    /\ part \in {"suite", "plan"}
    /\ IF part = "suite"
       THEN /\ users = <<0>> /\ entities = MinEntities /\ probe = "boundary"
            /\ live = FALSE /\ carries = FALSE /\ leak = "nobody"
       ELSE leaky = {} /\ lossy = {} /\ blind = {}
    /\ Init /\ PlanInit

PartNext ==
    \/ part = "suite" /\ Next /\ UNCHANGED <<part, planVars>>
    \/ part = "plan" /\ PlanNext /\ UNCHANGED <<part, vars>>

PartSpec == PartInit /\ [][PartNext]_<<part, vars, planVars>>

\* Both parts keep their types.
TypesOK == TypeOK /\ PlanTypeOK

\* A probe recorded without a finding could have had one: however the suite was
\* interleaved, and whatever the substrate and the stack its plan was made for.
NoVacuousPass == PassAskedSomething /\ PassCouldHaveFailed
=============================================================================
