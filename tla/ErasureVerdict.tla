--------------------------- MODULE ErasureVerdict ---------------------------
(***************************************************************************)
(* What an erasure run may say.  One SurfaceErasure record per scanned     *)
(* surface, the report built from them, the metrics and the control        *)
(* assertion put into the signed record, and the headline that fixes the   *)
(* exit code.  Shared by the canary run (ErasureRun) and the data-subject  *)
(* check (SubjectErasure), exactly as the code shares these definitions.   *)
(*                                                                         *)
(* A marker count is kept as the set of markers it counts; only the        *)
(* unverifiable count is a number, because the code adds to it.            *)
(***************************************************************************)
EXTENDS Naturals, FiniteSets

CONSTANT ErasureSurfaces   \* every surface an erasure run can verify

SurfaceErasure(Needle) ==
    [before           : SUBSET Needle,   \* markers_before
     residual         : SUBSET Needle,   \* residual_after
     supported        : BOOLEAN,         \* erasure_supported
     unverifiable     : Nat,             \* unverifiable_after
     baselineObserved : BOOLEAN]         \* baseline_observed

CoverageVerdicts == {"ERASED", "RESIDUAL", "ATTESTABLE_WITH_CAVEAT", "NOT_COVERED"}

-----------------------------------------------------------------------------
(* The properties of one SurfaceErasure. *)

erased(r) ==
    /\ r.supported
    /\ r.unverifiable = 0
    /\ r.baselineObserved
    /\ r.before # {}
    /\ r.residual = {}

attestable_with_caveat(r) ==
    /\ ~r.supported
    /\ r.before # {}
    /\ r.baselineObserved

coverage_verdict(r) ==
    IF attestable_with_caveat(r)                     THEN "ATTESTABLE_WITH_CAVEAT"
    ELSE IF r.residual # {}                          THEN "RESIDUAL"
    ELSE IF r.before = {} \/ ~r.baselineObserved     THEN "NOT_COVERED"
    ELSE IF r.unverifiable > 0                       THEN "NOT_COVERED"
    ELSE                                                  "ERASED"

-----------------------------------------------------------------------------
(* The report: a function from the scanned surfaces to their records. *)

\* Fault: one erased surface vouches for the whole report.
AnyErased(rep) == \E s \in DOMAIN rep : erased(rep[s])

reportErased(rep) ==
    DOMAIN rep # {} /\ \A s \in DOMAIN rep : erased(rep[s])

genuine_residual(rep) ==
    \E s \in DOMAIN rep : rep[s].supported /\ rep[s].residual # {}

caveats(rep) == {s \in DOMAIN rep : attestable_with_caveat(rep[s])}

coverage(rep) ==
    [s \in ErasureSurfaces |->
        IF s \in DOMAIN rep THEN coverage_verdict(rep[s]) ELSE "NOT_COVERED"]

-----------------------------------------------------------------------------
(* The metrics of the signed run record. *)

ResidueKeys(rep) ==
    {s \in DOMAIN rep :
        /\ rep[s].supported
        /\ rep[s].residual # {} \/ rep[s].unverifiable = 0
        /\ rep[s].baselineObserved
        /\ rep[s].before # {}}

erasure_residue(rep) ==
    [s \in ResidueKeys(rep) |-> Cardinality(rep[s].residual)]

CaveatKeys(rep) ==
    {s \in DOMAIN rep :
        /\ ~rep[s].supported
        /\ rep[s].unverifiable = 0
        /\ rep[s].baselineObserved
        /\ rep[s].before # {}}

-----------------------------------------------------------------------------
(* The headline the command prints, in the order it tries them, and the    *)
(* exit code that goes with it.                                            *)

Unverified(rep) == {s \in DOMAIN rep : rep[s].unverifiable > 0}

AllPostHoc(rep) ==
    DOMAIN rep # {} /\ \A s \in DOMAIN rep : ~rep[s].baselineObserved

ObservedResidual(rep) == {s \in DOMAIN rep : rep[s].residual # {}}

\* Fault: undecided surfaces are announced before residual ones.
UndecidedFirst(rep) ==
    IF Unverified(rep) # {}            THEN "INCONCLUSIVE"
    ELSE IF genuine_residual(rep)      THEN "FAILED"
    ELSE IF caveats(rep) # {}          THEN "CAVEAT"
    ELSE IF reportErased(rep)          THEN "VERIFIED"
    ELSE IF AllPostHoc(rep)            THEN "NO_RESIDUAL_FOUND"
    ELSE IF ObservedResidual(rep) # {} THEN "FAILED"
    ELSE                                    "INCONCLUSIVE"

headline(rep) ==
    IF genuine_residual(rep)           THEN "FAILED"
    ELSE IF caveats(rep) # {}          THEN "CAVEAT"
    ELSE IF reportErased(rep)          THEN "VERIFIED"
    ELSE IF Unverified(rep) # {}       THEN "INCONCLUSIVE"
    ELSE IF AllPostHoc(rep)            THEN "NO_RESIDUAL_FOUND"
    ELSE IF ObservedResidual(rep) # {} THEN "FAILED"
    ELSE                                    "INCONCLUSIVE"

ExitCodes == {0, 2, 3}

exit_code(rep) ==
    IF headline(rep) \in {"VERIFIED", "NO_RESIDUAL_FOUND"} THEN 0
    ELSE IF headline(rep) \in {"FAILED", "CAVEAT"}         THEN 2
    ELSE                                                        3

-----------------------------------------------------------------------------
(* The Article 17 control assertion placed in the signed pack, for the     *)
(* surfaces that ran against a live backend.  A record of what the         *)
(* sentence claims; "verified" is printed when it admits no failure.       *)

erasure_scanned_surfaces(rep, live) ==
    {s \in live : coverage(rep)[s] # "NOT_COVERED"}

ErasureControlAsserted(rep, live) ==
    \E s \in live : coverage(rep)[s] \in {"ERASED", "RESIDUAL"}

\* Fault: a live surface that reads NOT_COVERED drops out of the assertion.
ForgetsNotCovered(rep, live) ==
    LET named == erasure_scanned_surfaces(rep, live)
    IN [residualItemized |-> \E s \in named : coverage(rep)[s] = "RESIDUAL",
        presumedRetained |-> \E s \in named : coverage(rep)[s] = "ATTESTABLE_WITH_CAVEAT",
        unestablished    |-> named \cap Unverified(rep)]

erasure_assertion(rep, live) ==
    LET named == erasure_scanned_surfaces(rep, live)
    IN [residualItemized |-> \E s \in named : coverage(rep)[s] = "RESIDUAL",
        presumedRetained |-> \E s \in named : coverage(rep)[s] = "ATTESTABLE_WITH_CAVEAT",
        unestablished    |-> (live \ named) \cup (named \cap Unverified(rep))]

AssertsVerified(rep, live) ==
    /\ ErasureControlAsserted(rep, live)
    /\ LET a == erasure_assertion(rep, live)
       IN ~a.residualItemized /\ ~a.presumedRetained /\ a.unestablished = {}
=============================================================================
