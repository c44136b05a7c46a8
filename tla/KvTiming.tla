------------------------------- MODULE KvTiming -------------------------------
(***************************************************************************)
(* The KV-cache timing probe (Class 5).  For every ordered pair of tenants *)
(* the owner warms one prefix per trial, and the observer then times, per  *)
(* trial and in a shuffled, balanced order, a prompt on that prefix and a  *)
(* control prompt on a prefix nobody used.  A gap is a side channel.       *)
(*                                                                         *)
(* The backend keeps its prefix caches per domain of tenants: one shared   *)
(* cache is one domain.  Timing a prompt runs inference on some backends   *)
(* and then warms its prefix as well; latency drifts with every call, and  *)
(* the cache may evict.  Latencies are integers, and the statistics are    *)
(* reduced to the sums of the two arms: see Significant.                   *)
(***************************************************************************)
EXTENDS Integers, FiniteSets

CONSTANTS
    NTenants,
    TRIALS,      \* even
    BASE, MISS,  \* latency of a call, and what a cold prefix adds
    Drifts,      \* what each call may add to the latency of the next
    MaxEvictions

ASSUME PairsAssumed   == NTenants \in Nat /\ NTenants > 1
ASSUME TrialsAssumed  == TRIALS \in Nat /\ TRIALS > 0
ASSUME LatencyAssumed == BASE \in Nat /\ MISS \in Nat /\ Drifts \subseteq Nat

VARIABLES
    domain,      \* environment: the cache each tenant's prompts go to
    infers,      \* environment: timing a prompt warms its prefix
    flat,        \* environment: the latency metric has no resolution
    drift,
    warm,        \* environment: <<cache, prefix>> kept
    evictions,
    clock,       \* model calls made
    pair,        \* the pair measured, of 1..NPairs
    trial,
    at,          \* "warm", "first", "second", "done", "failed"
    order,       \* trials whose primed prompt is timed first
    primed, control, readings,   \* of the pair: the arms' sums, the distinct readings
    signals      \* the report

timingVars ==
    <<domain, infers, flat, drift, warm, evictions, clock, pair, trial, at, order,
      primed, control, readings, signals>>
serving == <<domain, infers, flat, drift>>

TimedTenants == 1..NTenants
Trials  == 1..TRIALS
NPairs  == NTenants * (NTenants - 1)

\* The pairs in the order of the two loops.
Owner(p) == ((p - 1) \div (NTenants - 1)) + 1
Observer(p) ==
    LET k == ((p - 1) % (NTenants - 1)) + 1
    IN  IF k < Owner(p) THEN k ELSE k + 1

\* Fault: an owner's prefixes serve all observers.
PrefixOfOwner(p, t) == <<"ses", Owner(p), 0, t>>

\* Unique to the owner, the observer and the trial.
Prefix(p, t) == <<"ses", Owner(p), Observer(p), t>>

ControlPrefix(p, t) == <<"ctl", Observer(p), Owner(p), t>>

\* Exactly half of the trials, any half.
BalancedOrders == {s \in SUBSET Trials : 2 * Cardinality(s) = TRIALS}

-----------------------------------------------------------------------------
\* infer, as the owner.
WarmUp ==
    /\ at = "warm"
    /\ warm' = warm \cup {<<domain[Owner(pair)], Prefix(pair, trial)>>}
    /\ clock' = clock + 1
    /\ IF trial < TRIALS
       THEN trial' = trial + 1 /\ UNCHANGED <<at, order>>
       ELSE trial' = 1 /\ at' = "first" /\ order' \in BalancedOrders
    /\ UNCHANGED <<serving, evictions, pair, primed, control, readings, signals>>

Latency(tenant, prefix) ==
    IF flat THEN BASE
    ELSE BASE + drift * clock + (IF <<domain[tenant], prefix>> \in warm THEN 0 ELSE MISS)

Arm == IF (trial \in order) <=> (at = "first") THEN "primed" ELSE "control"

\* Every reading alike: the backend's metric did not resolve the pair.
Resolved(seen) == Cardinality(seen) > 1

\* measure_latency, as the observer, of one arm's prompt; the last closes the pair.
Measure ==
    /\ at \in {"first", "second"}
    /\ LET prefix == IF Arm = "primed" THEN Prefix(pair, trial) ELSE ControlPrefix(pair, trial)
           took   == Latency(Observer(pair), prefix)
       IN  /\ primed'  = primed  + (IF Arm = "primed"  THEN took ELSE 0)
           /\ control' = control + (IF Arm = "control" THEN took ELSE 0)
           /\ readings' = readings \cup {took}
           /\ warm' = IF infers THEN warm \cup {<<domain[Observer(pair)], prefix>>} ELSE warm
    /\ clock' = clock + 1
    /\ CASE at = "first" -> at' = "second" /\ UNCHANGED trial
         [] at = "second" /\ trial < TRIALS -> at' = "first" /\ trial' = trial + 1
         [] OTHER -> at' = "pair" /\ UNCHANGED trial
    /\ UNCHANGED <<serving, evictions, pair, order, signals>>

MeanGap == control - primed

\* The pair's signal, and the next pair.
Close ==
    /\ at = "pair"
    /\ signals' = [signals EXCEPT ![pair] = [gap |-> MeanGap, resolved |-> Resolved(readings)]]
    /\ IF pair < NPairs THEN pair' = pair + 1 /\ at' = "warm" ELSE at' = "done" /\ UNCHANGED pair
    /\ trial' = 1 /\ primed' = 0 /\ control' = 0 /\ readings' = {} /\ order' = {}
    /\ UNCHANGED <<serving, warm, evictions, clock>>

\* A call that raises costs the run every pair: nothing is reported.
TimingRaises ==
    /\ at \in {"warm", "first", "second"}
    /\ at' = "failed"
    /\ UNCHANGED <<serving, warm, evictions, clock, pair, trial, order, primed, control, readings, signals>>

Evict ==
    /\ evictions < MaxEvictions
    /\ evictions' = evictions + 1
    /\ \E entry \in warm : warm' = warm \ {entry}
    /\ UNCHANGED <<serving, clock, pair, trial, at, order, primed, control, readings, signals>>

-----------------------------------------------------------------------------
(* The report. *)

\* The pairs with an effect size: those that were resolved.
EffectSizes == {p \in 1..NPairs : signals[p].resolved}

\* A p-value under the corrected level and a large effect, of a primed prompt that is
\* the faster one: with a noiseless drift, a mean gap above zero.
Significant(p) == signals[p].resolved /\ signals[p].gap > 0

Findings == IF at = "done" THEN {p \in 1..NPairs : Significant(p)} ELSE {}

-----------------------------------------------------------------------------
Unmeasured == [gap |-> 0, resolved |-> FALSE]

TimingInit ==
    /\ domain \in [TimedTenants -> TimedTenants]
    /\ \A t \in TimedTenants : domain[domain[t]] = domain[t] /\ domain[t] <= t
    /\ infers \in BOOLEAN /\ flat \in BOOLEAN
    /\ drift \in Drifts
    /\ flat => drift = 0 /\ ~infers
    /\ warm = {} /\ evictions = 0 /\ clock = 0
    /\ pair = 1 /\ trial = 1 /\ at = "warm" /\ order = {}
    /\ primed = 0 /\ control = 0 /\ readings = {}
    /\ signals = [p \in 1..NPairs |-> Unmeasured]

TimingNext == WarmUp \/ Measure \/ Close \/ TimingRaises \/ Evict

TimingSpec == TimingInit /\ [][TimingNext]_timingVars

-----------------------------------------------------------------------------
\* The gap measured of a pair is what the owner's warm-up, and nothing else, did to the
\* observer's calls: all of it between tenants that share a cache, none between tenants
\* that do not, whatever the measurements of earlier pairs warmed and however the latency
\* drifts; an eviction can only hide it.  A pair whose metric is flat has no effect size.
ChannelIsTheOwners ==
    /\ \A p \in EffectSizes :
          LET channel == IF domain[Owner(p)] = domain[Observer(p)] THEN TRIALS * MISS ELSE 0
          IN  /\ ~flat
              /\ signals[p].gap \in 0..channel
              /\ evictions = 0 => signals[p].gap = channel
    /\ \A p \in Findings : domain[Owner(p)] = domain[Observer(p)]
=============================================================================
