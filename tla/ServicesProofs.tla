---------------------------- MODULE ServicesProofs ----------------------------
(***************************************************************************)
(* What the adapters of services that work on their own guarantee, however *)
(* often they are called and whatever the service does between two of      *)
(* their requests.                                                         *)
(*                                                                         *)
(* For a trace backend the argument rests on TraceInv: what the backend    *)
(* has promised to delete, what the call in progress may conclude from its *)
(* last request, and, where pages are numbered, that a trace not yet       *)
(* fetched still lies on a page to come.                                   *)
(*                                                                         *)
(* For an agent it rests on AgentInv: there is an assignment of runs to    *)
(* tenants that every thread, run of the service, message and worker keeps *)
(* to, and a part of an answer is only ever that of an incomplete run.     *)
(*                                                                         *)
(* For the gate of the semantic tier it rests on what a candidate stands   *)
(* for: every gate admits what one of the candidates admits.               *)
(*                                                                         *)
(* For the findings of a probe it rests on Deduped: after any number of    *)
(* them, what is kept is one verdict for each id, the gravest so far.      *)
(*                                                                         *)
(* For the types it rests on those invariants and, of each part, on the    *)
(* counters it keeps: TraceCounts, AgentCounts, DetectCounts, JobTypes.    *)
(***************************************************************************)
EXTENDS
    ServiceParts,
    SequenceTheorems, FiniteSetTheorems, WellFoundedInduction, NaturalsInduction, TLAPS

-----------------------------------------------------------------------------
(* Trace backends. *)

CallsUnderWay ==
    [call : Calls \cup {"none"}, at : {"idle", "rows", "list", "remove", "confirm", "recheck"},
     page : Nat \ {0}, got : SUBSET Nat, seen : Nat, tries : Nat]
Histories ==
    [call : Calls \cup {"none"}, gone : BOOLEAN, beyond : BOOLEAN, vanished : BOOLEAN,
     empty : BOOLEAN, accepted : BOOLEAN]

\* The tenant's traces are distinct, and no ingest reuses an id.
TracesTyped ==
    /\ kind \in Kinds /\ field \in Fields
    /\ ingests \in Nat /\ calls \in Nat
    /\ stored \in Seq(1..(MaxTraces + ingests))
    /\ \A i, j \in DOMAIN stored : stored[i] = stored[j] => i = j
    /\ row \in BOOLEAN
    /\ op \in CallsUnderWay /\ saw \in Histories

\* Which backend goes through which step, for which call.
StepsOfKinds ==
    /\ op.at = "idle" <=> op.call = "none"
    /\ op.at = "rows" => kind \in PerProject
    /\ op.at = "list" /\ op.call = "delete" => kind = "langfuse"
    /\ op.at \in {"remove", "confirm", "recheck"} => op.call = "delete"
    /\ op.at = "confirm" => kind \in {"langfuse", "langsmith"}
    /\ op.at = "recheck" => kind \in {"phoenix", "otel"}
    /\ op.call # "none" => saw.call = op.call

\* What a backend has promised to delete: projects where there are projects, traces
\* elsewhere, and nothing without a route; a project that is not listed is deleted.
Promises ==
    /\ kind \in PerProject => doomed \subseteq {0}
    /\ kind \in PerProject /\ ~row => stored = <<>> /\ doomed = {}
    /\ kind = "otel" => 0 \notin doomed
    /\ kind \in {"phoenix", "otel"} /\ route # "accepts" => doomed = {}

\* The history of the call in progress is up to date.
HistoryIsKept ==
    op.call # "none" =>
        /\ target \notin Held => saw.gone
        /\ saw.gone => saw.beyond
        /\ (\A i \in DOMAIN stored : stored[i] = target => i > TRACE_LIMIT) => saw.beyond
        /\ stored = <<>> => saw.empty
        /\ op.at # "confirm" => ~saw.accepted
        /\ op.at = "recheck" /\ route = "accepts" => saw.empty

\* A target that is still held is on a page already read, or beyond them all.
NothingSlipsBetweenPages ==
    op.at = "list" /\ kind = "langfuse" =>
        /\ op.seen = (op.page - 1) * TRACE_PAGE
        /\ op.got = {} <=> op.page = 1
        /\ \/ saw.gone \/ saw.vanished \/ target \in op.got
           \/ \E i \in DOMAIN stored : stored[i] = target /\ op.seen < i

TraceInv ==
    /\ TracesTyped /\ StepsOfKinds /\ Promises /\ HistoryIsKept /\ NothingSlipsBetweenPages
    /\ AnswersAreHonest

-----------------------------------------------------------------------------
LEMMA StoredFacts ==
    ASSUME TracesTyped
    PROVE  /\ Len(stored) \in Nat /\ DOMAIN stored = 1..Len(stored)
           /\ \A i \in DOMAIN stored : stored[i] \in 1..(MaxTraces + ingests)
           /\ stored = <<>> <=> Len(stored) = 0
           /\ stored = <<>> <=> Held = {}
<1> USE DEF TracesTyped
<1>0. stored \in Seq(1..(MaxTraces + ingests))
    OBVIOUS
<1> HIDE DEF TracesTyped
<1>1. /\ Len(stored) \in Nat /\ DOMAIN stored = 1..Len(stored)
      /\ \A i \in DOMAIN stored : stored[i] \in 1..(MaxTraces + ingests)
    BY <1>0, LenProperties, ElementOfSeq
<1>2. stored = <<>> <=> Len(stored) = 0
    BY <1>0, <1>1, EmptySeq
<1>3. Len(stored) = 0 <=> Held = {}
    <2>1. CASE Len(stored) = 0
        BY <2>1, <1>1, 1..0 = {} DEF Held
    <2>2. CASE Len(stored) # 0
        <3>1. 1 \in DOMAIN stored
            BY <2>2, <1>1
        <3> QED
            BY <3>1, <2>2 DEF Held
    <2> QED
        BY <2>1, <2>2
<1> QED
    BY <1>1, <1>2, <1>3

\* The first n of a listing.
LEMMA PrefixFacts ==
    ASSUME NEW S, NEW s \in Seq(S), NEW n \in Nat
    PROVE  /\ Prefix(s, n) \in Seq(S)
           /\ Len(Prefix(s, n)) = IF n < Len(s) THEN n ELSE Len(s)
           /\ DOMAIN Prefix(s, n) = 1..Len(Prefix(s, n))
           /\ \A i \in DOMAIN Prefix(s, n) : Prefix(s, n)[i] = s[i]
<1> DEFINE m == IF n < Len(s) THEN n ELSE Len(s)
<1>1. Len(s) \in Nat /\ m \in Nat /\ m <= Len(s)
    BY LenProperties
<1>2. \A i \in 1..m : s[i] \in S
    BY <1>1, ElementOfSeq
<1>3. /\ SubSeq(s, 1, m) \in Seq(S)
      /\ Len(SubSeq(s, 1, m)) = IF 1 <= m THEN m - 1 + 1 ELSE 0
      /\ \A i \in 1..(m - 1 + 1) : SubSeq(s, 1, m)[i] = s[1 + i - 1]
    <2> HIDE DEF m
    <2> QED BY <1>1, <1>2, SubSeqProperties
<1>4. Prefix(s, n) = SubSeq(s, 1, m)
    BY DEF Prefix
<1>5. DOMAIN Prefix(s, n) = 1..Len(Prefix(s, n))
    BY <1>3, <1>4, LenProperties
<1>6. Len(Prefix(s, n)) = m
    <2> HIDE DEF m
    <2> QED BY <1>3, <1>4, <1>1
<1>7. \A i \in 1..m : Prefix(s, n)[i] = s[i]
    <2> HIDE DEF m
    <2> QED BY <1>3, <1>4, <1>1
<1> QED
    BY <1>3, <1>4, <1>5, <1>6, <1>7

\* A sequence without its element k.
LEMMA RemoveAtFacts ==
    ASSUME NEW S, NEW s \in Seq(S), NEW k \in 1..Len(s)
    PROVE  /\ RemoveAt(s, k) \in Seq(S)
           /\ Len(RemoveAt(s, k)) = Len(s) - 1
           /\ \A i \in 1..(Len(s) - 1) :
                 RemoveAt(s, k)[i] = IF i <= k - 1 THEN s[i] ELSE s[i + 1]
<1> DEFINE a == SubSeq(s, 1, k - 1)
           b == SubSeq(s, k + 1, Len(s))
<1>1. Len(s) \in Nat /\ k \in Nat /\ 1 <= k /\ k <= Len(s)
    BY LenProperties
<1>2. \A i \in 1..Len(s) : s[i] \in S
    BY ElementOfSeq
<1>3. /\ a \in Seq(S) /\ Len(a) = k - 1
      /\ \A i \in 1..(k - 1) : a[i] = s[i]
    <2>1. 1 \in Int /\ k - 1 \in Int /\ \A i \in 1..(k - 1) : s[i] \in S
        BY <1>1, <1>2
    <2> QED BY <2>1, <1>1, SubSeqProperties
<1>4. /\ b \in Seq(S) /\ Len(b) = Len(s) - k
      /\ \A i \in 1..(Len(s) - k) : b[i] = s[k + i]
    <2>1. k + 1 \in Int /\ Len(s) \in Int /\ \A i \in (k + 1)..Len(s) : s[i] \in S
        BY <1>1, <1>2
    <2> QED BY <2>1, <1>1, SubSeqProperties
<1>5. RemoveAt(s, k) = a \o b
    BY DEF RemoveAt
<1> HIDE DEF a, b
<1>6. /\ a \o b \in Seq(S)
      /\ Len(a \o b) = Len(a) + Len(b)
      /\ \A i \in 1..(Len(a) + Len(b)) :
            (a \o b)[i] = IF i <= Len(a) THEN a[i] ELSE b[i - Len(a)]
    BY <1>3, <1>4, ConcatProperties
<1>7. ASSUME NEW i \in 1..(Len(s) - 1)
      PROVE  (a \o b)[i] = IF i <= k - 1 THEN s[i] ELSE s[i + 1]
    <2>1. (a \o b)[i] = IF i <= k - 1 THEN a[i] ELSE b[i - (k - 1)]
        BY <1>6, <1>3, <1>4, <1>1
    <2>2. CASE i <= k - 1
        BY <2>1, <2>2, <1>1, <1>3
    <2>3. CASE ~(i <= k - 1)
        <3>1. i - (k - 1) \in 1..(Len(s) - k) /\ k + (i - (k - 1)) = i + 1
            BY <2>3, <1>1
        <3>2. b[i - (k - 1)] = s[i + 1]
            BY <3>1, <1>4
        <3> QED BY <3>2, <2>1, <2>3
    <2> QED BY <2>2, <2>3
<1> QED
    BY <1>1, <1>3, <1>4, <1>5, <1>6, <1>7

\* Removing a trace takes it, and only it.
LEMMA LosesOne ==
    ASSUME TracesTyped, NEW t, Loses(t), ingests' = ingests
    PROVE  /\ stored' \in Seq(1..(MaxTraces + ingests'))
           /\ \A i, j \in DOMAIN stored' : stored'[i] = stored'[j] => i = j
           /\ t \in Held /\ Held' = Held \ {t}
<1> DEFINE S == 1..(MaxTraces + ingests)
<1>1. PICK k \in DOMAIN stored : stored[k] = t /\ stored' = RemoveAt(stored, k)
    BY DEF Loses
<1>2. /\ Len(stored) \in Nat /\ DOMAIN stored = 1..Len(stored) /\ stored \in Seq(S)
      /\ k \in 1..Len(stored)
    BY StoredFacts DEF TracesTyped
<1>3. \A i, j \in 1..Len(stored) : stored[i] = stored[j] => i = j
    BY <1>2 DEF TracesTyped
<1>6. /\ stored' \in Seq(S) /\ Len(stored') = Len(stored) - 1
      /\ \A i \in 1..(Len(stored) - 1) :
            stored'[i] = IF i <= k - 1 THEN stored[i] ELSE stored[i + 1]
    BY <1>1, <1>2, RemoveAtFacts
<1>7. DOMAIN stored' = 1..(Len(stored) - 1)
    BY <1>6, LenProperties
<1>8. \A i, j \in DOMAIN stored' : stored'[i] = stored'[j] => i = j
    <2> SUFFICES ASSUME NEW i \in 1..(Len(stored) - 1), NEW j \in 1..(Len(stored) - 1),
                        stored'[i] = stored'[j]
                 PROVE  i = j
        BY <1>7
    <2> DEFINE I == IF i <= k - 1 THEN i ELSE i + 1
               J == IF j <= k - 1 THEN j ELSE j + 1
    <2>1. I \in 1..Len(stored) /\ J \in 1..Len(stored)
        BY <1>2
    <2>2. stored[I] = stored[J]
        BY <1>6
    <2> HIDE DEF I, J
    <2>3. I = J
        BY <2>1, <2>2, <1>3
    <2> QED BY <2>3, <1>2 DEF I, J
<1>9. t \in Held
    BY <1>1 DEF Held
<1>10. Held' = Held \ {t}
    <2>1. ASSUME NEW x \in Held' PROVE x \in Held \ {t}
        <3>1. PICK i \in DOMAIN stored' : stored'[i] = x
            BY DEF Held
        <3>2. PICK j \in DOMAIN stored : j # k /\ stored[j] = x
            BY <3>1, <1>6, <1>7, <1>2
        <3> QED BY <3>2, <1>1 DEF Held, TracesTyped
    <2>2. ASSUME NEW x \in Held \ {t} PROVE x \in Held'
        <3>1. PICK j \in DOMAIN stored : stored[j] = x /\ j # k
            BY <1>1 DEF Held
        <3>2. CASE j < k
            <4>1. j \in 1..(Len(stored) - 1) /\ j <= k - 1
                BY <3>2, <1>2
            <4> QED BY <4>1, <3>1, <1>6, <1>7 DEF Held
        <3>3. CASE j > k
            <4>1. j - 1 \in 1..(Len(stored) - 1) /\ ~(j - 1 <= k - 1) /\ (j - 1) + 1 = j
                BY <3>3, <1>2
            <4> QED BY <4>1, <3>1, <1>6, <1>7 DEF Held
        <3> QED BY <3>1, <3>2, <3>3, <1>2
    <2> QED BY <2>1, <2>2
<1> QED
    BY <1>6, <1>8, <1>9, <1>10
-----------------------------------------------------------------------------
\* The listing of a cap holds the target if one of its first places does.
LEMMA InReach ==
    ASSUME NEW S, NEW s \in Seq(S), NEW n \in Nat, NEW t
    PROVE  t \notin {Prefix(s, n)[i] : i \in DOMAIN Prefix(s, n)}
              <=> \A i \in DOMAIN s : s[i] = t => i > n
<1>1. Len(s) \in Nat /\ DOMAIN s = 1..Len(s)
    BY LenProperties
<1>2. /\ DOMAIN Prefix(s, n) = 1..(IF n < Len(s) THEN n ELSE Len(s))
      /\ \A i \in DOMAIN Prefix(s, n) : Prefix(s, n)[i] = s[i]
    BY PrefixFacts
<1> HIDE DEF Prefix
<1>3. {Prefix(s, n)[i] : i \in DOMAIN Prefix(s, n)} = {s[i] : i \in {k \in DOMAIN s : k <= n}}
    <2>1. DOMAIN Prefix(s, n) = {k \in DOMAIN s : k <= n}
        BY <1>1, <1>2
    <2> QED BY <2>1, <1>2
<1>4. t \notin {s[i] : i \in {k \in DOMAIN s : k <= n}} <=> \A i \in DOMAIN s : s[i] = t => i > n
    BY <1>1
<1> QED
    BY <1>3, <1>4

\* What Watch records of a step in a call that is not the call's first: the history
\* only grows.
LEMMA Grows ==
    ASSUME TracesTyped, op.call # "none", calls' = calls, Watch
    PROVE  /\ saw' \in Histories
           /\ saw'.call = saw.call
           /\ saw'.gone     = (saw.gone \/ target \notin Held')
           /\ saw'.beyond   = (saw.beyond \/ target \notin {Prefix(stored', TRACE_LIMIT)[i] :
                                             i \in DOMAIN Prefix(stored', TRACE_LIMIT)})
           /\ saw'.vanished = (saw.vanished \/ (op.page > 1 /\ Held \ Held' # {}))
           /\ saw'.empty    = (saw.empty \/ stored' = <<>>)
           /\ saw'.accepted = (saw.accepted \/ (Requested /\ Promised'))
<1> USE DEF Histories
<1>1. saw' = Saw(saw, stored', op.page > 1, Requested /\ Promised')
    BY DEF Watch
<1>2. saw \in Histories
    BY DEF TracesTyped
<1>3. Held' = {stored'[i] : i \in DOMAIN stored'}
    BY DEF Held
<1>4. /\ saw'.call = saw.call
      /\ saw'.gone     = (saw.gone \/ target \notin Held')
      /\ saw'.beyond   = (saw.beyond \/ target \notin {Prefix(stored', TRACE_LIMIT)[i] :
                                        i \in DOMAIN Prefix(stored', TRACE_LIMIT)})
      /\ saw'.vanished = (saw.vanished \/ (op.page > 1 /\ Held \ Held' # {}))
      /\ saw'.empty    = (saw.empty \/ stored' = <<>>)
      /\ saw'.accepted = (saw.accepted \/ (Requested /\ Promised'))
    <2> HIDE DEF Held
    <2> QED BY <1>1, <1>3 DEF Saw
<1>5. saw' \in Histories
    BY <1>1, <1>2 DEF Saw
<1> QED
    BY <1>4, <1>5

\* Nothing that the backend does not do adds to it, but the call's delete request.
LEMMA GrowsByRequest ==
    ASSUME TracesTyped, HistoryIsKept, op.call # "none", calls' = calls, Watch,
           stored' = stored, target' = target
    PROVE  /\ saw' \in Histories
           /\ saw'.call = saw.call /\ saw'.gone = saw.gone /\ saw'.beyond = saw.beyond
           /\ saw'.vanished = saw.vanished /\ saw'.empty = saw.empty
           /\ saw'.accepted = (saw.accepted \/ (Requested /\ Promised'))
<1>1. Held' = Held
    BY DEF Held
<1>2. stored \in Seq(1..(MaxTraces + ingests)) /\ TRACE_LIMIT \in Nat /\ saw \in Histories
    BY PagesAssumed DEF TracesTyped
<1>3. target \notin {Prefix(stored, TRACE_LIMIT)[i] : i \in DOMAIN Prefix(stored, TRACE_LIMIT)}
        => saw.beyond
    BY <1>2, InReach DEF HistoryIsKept
<1>4. (target \notin Held => saw.gone) /\ (stored = <<>> => saw.empty)
    BY DEF HistoryIsKept
<1>5. Held \ Held' = {}
    BY <1>1
<1> QED
    BY <1>1, <1>2, <1>3, <1>4, <1>5, Grows DEF Histories

\* A step of the call that leaves the backend's traces alone, and goes on.
LEMMA GoesOn ==
    ASSUME TraceInv, op.call # "none", Watch, op' \in CallsUnderWay, op'.call = op.call,
           UNCHANGED <<givenVars, stored, row, boundVars, calls>>
    PROVE  /\ TracesTyped'
           /\ saw'.call = saw.call /\ saw'.gone = saw.gone /\ saw'.beyond = saw.beyond
           /\ saw'.vanished = saw.vanished /\ saw'.empty = saw.empty
           /\ saw'.accepted = (saw.accepted \/ (Requested /\ Promised'))
           /\ target' = target /\ kind' = kind /\ route' = route /\ Held' = Held
           /\ AnswersAreHonest'
<1>1. /\ kind' = kind /\ target' = target /\ field' = field /\ route' = route
      /\ stored' = stored /\ row' = row /\ ingests' = ingests /\ calls' = calls
    BY DEF givenVars, boundVars
<1>2. TracesTyped /\ HistoryIsKept
    BY DEF TraceInv
<1>3. /\ saw' \in Histories
      /\ saw'.call = saw.call /\ saw'.gone = saw.gone /\ saw'.beyond = saw.beyond
      /\ saw'.vanished = saw.vanished /\ saw'.empty = saw.empty
      /\ saw'.accepted = (saw.accepted \/ (Requested /\ Promised'))
    BY <1>1, <1>2, GrowsByRequest
<1>4. TracesTyped'
    BY <1>1, <1>2, <1>3 DEF TracesTyped
<1>5. AnswersAreHonest'
    BY DEF AnswersAreHonest, ReadsAreHonest, PurgesAreHonest
<1> QED
    BY <1>1, <1>3, <1>4, <1>5 DEF Held

\* A call that returns leaves nothing in progress to say anything about.
LEMMA Returned ==
    ASSUME TraceInv, op.call # "none", NEW a, Return(a), Watch
    PROVE  /\ TracesTyped' /\ StepsOfKinds' /\ Promises' /\ HistoryIsKept'
           /\ NothingSlipsBetweenPages'
           /\ answer' = a /\ kind' = kind /\ route' = route /\ saw'.call = op.call
           /\ saw'.gone = saw.gone /\ saw'.beyond = saw.beyond
           /\ saw'.vanished = saw.vanished /\ saw'.empty = saw.empty
           /\ saw'.accepted = (saw.accepted \/ (op.at = "remove" /\ Promised))
<1>1. /\ kind' = kind /\ target' = target /\ field' = field /\ route' = route
      /\ stored' = stored /\ row' = row /\ doomed' = doomed /\ ingests' = ingests
      /\ calls' = calls /\ op' = TraceIdle /\ answer' = a
    BY DEF Return, givenVars, backendVars, boundVars
<1>2. TracesTyped /\ HistoryIsKept /\ StepsOfKinds /\ Promises
    BY DEF TraceInv
<1>3. /\ op'.at = "idle" /\ op'.call = "none" /\ op' \in CallsUnderWay
    BY <1>1 DEF TraceIdle, CallsUnderWay
<1>4. /\ saw' \in Histories
      /\ saw'.call = saw.call /\ saw'.gone = saw.gone /\ saw'.beyond = saw.beyond
      /\ saw'.vanished = saw.vanished /\ saw'.empty = saw.empty
      /\ saw'.accepted = (saw.accepted \/ (Requested /\ Promised'))
    BY <1>1, <1>2, GrowsByRequest
<1>5. Requested = (op.at = "remove") /\ Promised' = Promised
    BY <1>1, <1>3 DEF Requested, Promised, Held
<1>6. TracesTyped'
    BY <1>1, <1>2, <1>3, <1>4 DEF TracesTyped
<1>7. StepsOfKinds'
    BY <1>3 DEF StepsOfKinds
<1>8. Promises'
    BY <1>1, <1>2 DEF Promises
<1>9. HistoryIsKept' /\ NothingSlipsBetweenPages'
    BY <1>3 DEF HistoryIsKept, NothingSlipsBetweenPages
<1>10. saw.call = op.call
    BY <1>2 DEF StepsOfKinds
<1> QED
    BY <1>1, <1>4, <1>5, <1>6, <1>7, <1>8, <1>9, <1>10
\* An answer that is honest of the history the call ends with.
LEMMA Honest ==
    ASSUME TraceInv, op.call # "none", NEW a, Return(a), Watch,
           a = "absent" => saw.gone \/ saw.vanished,
           a = "refused" /\ op.call # "delete" /\ kind # "otel" => saw.beyond \/ saw.vanished,
           a = "done" => saw.empty,
           a = "unsupported" /\ kind \in {"phoenix", "otel"} =>
              ~saw.accepted /\ ~(op.at = "remove" /\ Promised) /\ (route = "accepts" => saw.empty)
    PROVE  TraceInv'
<1>1. /\ TracesTyped' /\ StepsOfKinds' /\ Promises' /\ HistoryIsKept'
      /\ NothingSlipsBetweenPages'
      /\ answer' = a /\ kind' = kind /\ route' = route /\ saw'.call = op.call
      /\ saw'.gone = saw.gone /\ saw'.beyond = saw.beyond
      /\ saw'.vanished = saw.vanished /\ saw'.empty = saw.empty
      /\ saw'.accepted = (saw.accepted \/ (op.at = "remove" /\ Promised))
    BY Returned
<1>2. ReadsAreHonest'
    BY <1>1 DEF ReadsAreHonest
<1>3. PurgesAreHonest'
    BY <1>1 DEF PurgesAreHonest
<1> QED
    BY <1>1, <1>2, <1>3 DEF TraceInv, AnswersAreHonest

\* A call that goes on to another step than confirming.
LEMMA Advanced ==
    ASSUME TraceInv, op.call # "none", Watch,
           NEW at \in {"list", "remove", "recheck"}, NEW page \in Nat \ {0},
           NEW got \in SUBSET Nat, NEW seen \in Nat,
           Advance(at, page, got, seen),
           op.at # "confirm",
           ~(op.at = "remove" /\ Promised),
           at = "list" /\ op.call = "delete" => kind = "langfuse",
           at \in {"remove", "recheck"} => op.call = "delete",
           at = "recheck" => kind \in {"phoenix", "otel"} /\ (route = "accepts" => saw.empty),
           at = "list" /\ kind = "langfuse" =>
              /\ seen = (page - 1) * TRACE_PAGE
              /\ got = {} <=> page = 1
              /\ \/ saw.gone \/ saw.vanished \/ target \in got
                 \/ \E i \in DOMAIN stored : stored[i] = target /\ seen < i
    PROVE  TraceInv'
<1>1. /\ UNCHANGED <<givenVars, stored, row, boundVars, calls>> /\ doomed' = doomed
      /\ op' = [op EXCEPT !.at = at, !.page = page, !.got = got, !.seen = seen]
    BY DEF Advance, backendVars
<1>2. TracesTyped /\ StepsOfKinds /\ Promises /\ HistoryIsKept /\ op \in CallsUnderWay
    BY DEF TraceInv, TracesTyped
<1>3. /\ op' \in CallsUnderWay /\ op'.call = op.call /\ op'.at = at /\ op'.page = page
      /\ op'.got = got /\ op'.seen = seen
    BY <1>1, <1>2 DEF CallsUnderWay
<1>4. /\ TracesTyped' /\ AnswersAreHonest'
      /\ saw'.call = saw.call /\ saw'.gone = saw.gone /\ saw'.beyond = saw.beyond
      /\ saw'.vanished = saw.vanished /\ saw'.empty = saw.empty
      /\ saw'.accepted = (saw.accepted \/ (Requested /\ Promised'))
      /\ target' = target /\ kind' = kind /\ route' = route /\ Held' = Held
    BY <1>1, <1>3, GoesOn
<1>5. stored' = stored /\ row' = row
    BY <1>1
<1>6. Promised' = Promised
    BY <1>1, <1>4, <1>5 DEF Promised
<1>7. ~saw'.accepted
    BY <1>2, <1>4, <1>6 DEF HistoryIsKept, Requested
<1>8. StepsOfKinds'
    BY <1>2, <1>3, <1>4 DEF StepsOfKinds
<1>9. Promises'
    BY <1>1, <1>2, <1>4, <1>5 DEF Promises
<1>10. HistoryIsKept'
    BY <1>2, <1>3, <1>4, <1>5, <1>7 DEF HistoryIsKept
<1>11. NothingSlipsBetweenPages'
    BY <1>3, <1>4, <1>5 DEF NothingSlipsBetweenPages
<1> QED
    BY <1>4, <1>8, <1>9, <1>10, <1>11 DEF TraceInv

\* A step of the backend, behind the back of a call.
LEMMA BehindTheCall ==
    ASSUME TraceInv, Watch, UNCHANGED <<givenVars, calls, op, answer>>,
           ingests' \in Nat, row' \in BOOLEAN, Promises',
           stored' \in Seq(1..(MaxTraces + ingests')),
           \A i, j \in DOMAIN stored' : stored'[i] = stored'[j] => i = j,
           \/ Held \ Held' # {}
           \/ \A i \in DOMAIN stored : \E j \in DOMAIN stored' : stored'[j] = stored[i] /\ i <= j
    PROVE  TraceInv'
<1>1. /\ kind' = kind /\ target' = target /\ field' = field /\ route' = route
      /\ calls' = calls /\ op' = op /\ answer' = answer
    BY DEF givenVars
<1>2. /\ TracesTyped /\ StepsOfKinds /\ HistoryIsKept /\ NothingSlipsBetweenPages
      /\ AnswersAreHonest /\ saw \in Histories /\ op \in CallsUnderWay
    BY DEF TraceInv, TracesTyped
<1>3. CASE op.call = "none"
    <2>1. saw' = saw
        BY <1>1, <1>3 DEF Watch
    <2>2. op.at = "idle"
        BY <1>2, <1>3 DEF StepsOfKinds
    <2>3. TracesTyped'
        BY <1>1, <1>2, <2>1 DEF TracesTyped
    <2>4. StepsOfKinds'
        BY <1>1, <1>2, <2>1 DEF StepsOfKinds
    <2>5. HistoryIsKept' /\ NothingSlipsBetweenPages'
        BY <1>1, <1>3, <2>2 DEF HistoryIsKept, NothingSlipsBetweenPages
    <2>6. AnswersAreHonest'
        BY <1>1, <1>2, <2>1 DEF AnswersAreHonest, ReadsAreHonest, PurgesAreHonest
    <2> QED
        BY <2>3, <2>4, <2>5, <2>6 DEF TraceInv
<1>4. CASE op.call # "none"
    <2>1. /\ saw' \in Histories
          /\ saw'.call = saw.call
          /\ saw'.gone     = (saw.gone \/ target \notin Held')
          /\ saw'.beyond   = (saw.beyond \/ target \notin {Prefix(stored', TRACE_LIMIT)[i] :
                                            i \in DOMAIN Prefix(stored', TRACE_LIMIT)})
          /\ saw'.vanished = (saw.vanished \/ (op.page > 1 /\ Held \ Held' # {}))
          /\ saw'.empty    = (saw.empty \/ stored' = <<>>)
          /\ saw'.accepted = (saw.accepted \/ (Requested /\ Promised'))
        BY <1>1, <1>2, <1>4, Grows
    <2>2. ~Requested
        BY <1>1 DEF Requested
    <2>3. (\A i \in DOMAIN stored' : stored'[i] = target => i > TRACE_LIMIT) => saw'.beyond
        <3>1. TRACE_LIMIT \in Nat
            BY PagesAssumed
        <3>2. target \notin {Prefix(stored', TRACE_LIMIT)[i] : i \in DOMAIN Prefix(stored', TRACE_LIMIT)}
                 <=> \A i \in DOMAIN stored' : stored'[i] = target => i > TRACE_LIMIT
            BY <3>1, InReach
        <3> QED BY <3>2, <2>1
    <2>4. TracesTyped'
        BY <1>1, <1>2, <2>1 DEF TracesTyped
    <2>5. StepsOfKinds'
        BY <1>1, <1>2, <2>1 DEF StepsOfKinds
    <2>6. saw'.gone => saw'.beyond
        <3>1. target \notin Held' => saw'.beyond
            BY <2>3, <1>1 DEF Held
        <3> QED BY <3>1, <2>1, <1>2, <1>4 DEF HistoryIsKept
    <2>7. HistoryIsKept'
        BY <1>1, <1>2, <1>4, <2>1, <2>2, <2>3, <2>6 DEF HistoryIsKept
    <2>8. ASSUME op.at = "list", kind = "langfuse"
          PROVE  \/ saw'.gone \/ saw'.vanished \/ target \in op.got
                 \/ \E i \in DOMAIN stored' : stored'[i] = target /\ op.seen < i
        <3>1. /\ op.seen = (op.page - 1) * TRACE_PAGE
              /\ \/ saw.gone \/ saw.vanished \/ target \in op.got
                 \/ \E i \in DOMAIN stored : stored[i] = target /\ op.seen < i
            BY <1>2, <2>8 DEF NothingSlipsBetweenPages
        <3>2. DOMAIN stored' \subseteq Nat \ {0} /\ DOMAIN stored \subseteq Nat
            BY <2>4, StoredFacts, LenProperties DEF TracesTyped
        <3>3. op.page \in Nat \ {0} /\ op.seen \in Nat
            BY <1>2 DEF CallsUnderWay
        <3>4. CASE op.page = 1
            <4>1. op.seen = 0
                BY <3>1, <3>4, PagesAssumed
            <4>2. target \in Held' => \E i \in DOMAIN stored' : stored'[i] = target
                BY <1>1 DEF Held
            <4>3. \A i \in DOMAIN stored' : op.seen < i
                BY <4>1, <3>2
            <4> QED BY <4>2, <4>3, <2>1
        <3>5. CASE op.page > 1 /\ Held \ Held' # {}
            BY <3>5, <2>1
        <3>6. CASE \A i \in DOMAIN stored : \E j \in DOMAIN stored' :
                      stored'[j] = stored[i] /\ i <= j
            <4>1. CASE \E i \in DOMAIN stored : stored[i] = target /\ op.seen < i
                <5>1. PICK i \in DOMAIN stored : stored[i] = target /\ op.seen < i
                    BY <4>1
                <5>2. PICK j \in DOMAIN stored' : stored'[j] = stored[i] /\ i <= j
                    BY <3>6
                <5>3. op.seen < j
                    BY <5>1, <5>2, <3>2, <3>3
                <5> QED BY <5>1, <5>2, <5>3
            <4> QED BY <4>1, <3>1, <2>1
        <3> QED BY <3>3, <3>4, <3>5, <3>6
    <2>9. NothingSlipsBetweenPages'
        BY <1>1, <1>2, <2>8 DEF NothingSlipsBetweenPages
    <2>10. AnswersAreHonest'
        BY <1>1, <1>4 DEF AnswersAreHonest, ReadsAreHonest, PurgesAreHonest
    <2> QED
        BY <2>4, <2>5, <2>7, <2>9, <2>10 DEF TraceInv
<1> QED
    BY <1>3, <1>4

-----------------------------------------------------------------------------
\* Every field that may carry a marker is looked at.
LEMMA EveryFieldIsSearched ==
    ASSUME TracesTyped, op.call \in {"search", "fetch"}, NEW got
    PROVE  Hit(got) <=> target \in got
<1>1. kind \in {"langfuse", "langsmith", "phoenix", "datadog", "helicone", "otel"}
    BY KindsAssumed DEF TracesTyped
<1>2. Snippet = {"name", "io", "metadata"}
    BY <1>1 DEF Snippet, LangfuseSnippet, LangsmithSnippet, PhoenixSnippet, DatadogSnippet,
                HeliconeSnippet, OtelSnippet
<1>3. field \in Snippet
    BY <1>2 DEF TracesTyped, Fields
<1> QED
    BY <1>3 DEF Hit

LEMMA FailsHonestly ==
    ASSUME TraceInv, Fails, Watch
    PROVE  TraceInv'
BY Honest DEF Fails

LEMMA BeginsHonestly ==
    ASSUME TraceInv, Watch, NEW c \in Calls, Begin(c)
    PROVE  TraceInv'
<1>1. /\ op.call = "none" /\ calls' = calls + 1 /\ answer' = "none"
      /\ op' = [TraceIdle EXCEPT !.call = c, !.at = FirstStep(c)]
      /\ kind' = kind /\ target' = target /\ field' = field /\ route' = route
      /\ stored' = stored /\ row' = row /\ doomed' = doomed /\ ingests' = ingests
      /\ ~(c = "delete" /\ kind \in {"datadog", "helicone"})
    BY DEF Begin, givenVars, backendVars, boundVars
<1>2. TracesTyped /\ Promises
    BY DEF TraceInv
<1>3. /\ op'.call = c /\ op'.at = FirstStep(c) /\ op'.page = 1 /\ op'.got = {} /\ op'.seen = 0
      /\ op'.tries = 0
    BY <1>1 DEF TraceIdle
<1>4. kind \in {"langfuse", "langsmith", "phoenix", "datadog", "helicone", "otel"}
    BY <1>2, KindsAssumed DEF TracesTyped
<1>5. /\ FirstStep(c) \in {"remove", "rows", "list"}
      /\ FirstStep(c) = "remove" => c = "delete"
      /\ FirstStep(c) = "rows" => kind \in PerProject
      /\ FirstStep(c) = "list" /\ c = "delete" => kind = "langfuse"
    BY <1>1, <1>4 DEF FirstStep, PerProject, Calls
<1>6. c \in Calls /\ c # "none"
    BY DEF Calls
<1>7. op' \in CallsUnderWay
    <2>1. op' = [call |-> c, at |-> FirstStep(c), page |-> 1, got |-> {}, seen |-> 0, tries |-> 0]
        BY <1>1 DEF TraceIdle
    <2>2. FirstStep(c) \in {"idle", "rows", "list", "remove", "confirm", "recheck"}
        BY <1>5
    <2> HIDE DEF FirstStep
    <2> QED BY <2>1, <2>2, <1>6 DEF CallsUnderWay
<1>8. saw' = Saw(NothingSeen(c), stored, FALSE, FALSE)
    <2>1. calls' # calls
        BY <1>1, <1>2 DEF TracesTyped
    <2> QED BY <2>1, <1>1, <1>3, <1>6 DEF Watch
<1>9. /\ saw' \in Histories /\ saw'.call = c /\ saw'.gone = (target \notin Held)
      /\ saw'.beyond = (target \notin {Prefix(stored, TRACE_LIMIT)[i] :
                             i \in DOMAIN Prefix(stored, TRACE_LIMIT)})
      /\ saw'.empty = (stored = <<>>) /\ saw'.accepted = FALSE
    BY <1>8, <1>6 DEF Saw, NothingSeen, Histories, Held
<1>10. TracesTyped'
    BY <1>1, <1>2, <1>7, <1>9 DEF TracesTyped
<1>11. StepsOfKinds'
    BY <1>1, <1>3, <1>5, <1>6, <1>9 DEF StepsOfKinds
<1>12. Promises'
    BY <1>1, <1>2 DEF Promises
<1>13. HistoryIsKept'
    <2>1. TRACE_LIMIT \in Nat /\ stored \in Seq(1..(MaxTraces + ingests))
        BY <1>2, PagesAssumed DEF TracesTyped
    <2>2. saw'.beyond <=> \A i \in DOMAIN stored : stored[i] = target => i > TRACE_LIMIT
        BY <2>1, <1>9, InReach
    <2>3. Held' = Held
        BY <1>1 DEF Held
    <2>4. saw'.gone => saw'.beyond
        BY <2>2, <1>9 DEF Held
    <2> QED BY <1>1, <1>3, <1>5, <1>9, <2>2, <2>3, <2>4 DEF HistoryIsKept
<1>14. NothingSlipsBetweenPages'
    <2>1. 0 = (1 - 1) * TRACE_PAGE
        BY PagesAssumed
    <2>2. saw'.gone \/ \E i \in DOMAIN stored : stored[i] = target /\ 0 < i
        <3>1. \A i \in DOMAIN stored : 0 < i
            BY <1>2, StoredFacts
        <3>2. target \in Held => \E i \in DOMAIN stored : stored[i] = target
            BY DEF Held
        <3> QED BY <3>1, <3>2, <1>9
    <2> QED BY <1>1, <1>3, <2>1, <2>2 DEF NothingSlipsBetweenPages
<1>15. AnswersAreHonest'
    BY <1>1 DEF AnswersAreHonest, ReadsAreHonest, PurgesAreHonest
<1> QED
    BY <1>10, <1>11, <1>12, <1>13, <1>14, <1>15 DEF TraceInv

LEMMA UngovernedHonestly ==
    ASSUME TraceInv, Watch, Ungoverned, kind \in {"datadog", "helicone"}
    PROVE  TraceInv'
<1>1. /\ op.call = "none" /\ op' = op /\ calls' = calls + 1 /\ answer' = "unsupported"
      /\ kind' = kind /\ target' = target /\ field' = field /\ route' = route
      /\ stored' = stored /\ row' = row /\ doomed' = doomed /\ ingests' = ingests
    BY DEF Ungoverned, givenVars, backendVars, boundVars
<1>2. TracesTyped /\ StepsOfKinds /\ Promises /\ op \in CallsUnderWay
    BY DEF TraceInv, TracesTyped
<1>3. op.at = "idle"
    BY <1>1, <1>2 DEF StepsOfKinds
<1>4. saw' = Saw(NothingSeen("delete"), stored, FALSE, FALSE)
    <2>1. calls' # calls
        BY <1>1, <1>2 DEF TracesTyped
    <2> QED BY <2>1, <1>1 DEF Watch
<1>5. saw' \in Histories
    BY <1>4 DEF Saw, NothingSeen, Histories, Calls
<1>6. TracesTyped'
    BY <1>1, <1>2, <1>5 DEF TracesTyped
<1>7. StepsOfKinds'
    BY <1>1, <1>3 DEF StepsOfKinds
<1>8. Promises'
    BY <1>1, <1>2 DEF Promises
<1>9. HistoryIsKept' /\ NothingSlipsBetweenPages'
    BY <1>1, <1>3 DEF HistoryIsKept, NothingSlipsBetweenPages
<1>10. AnswersAreHonest'
    BY <1>1 DEF AnswersAreHonest, ReadsAreHonest, PurgesAreHonest
<1> QED
    BY <1>6, <1>7, <1>8, <1>9, <1>10 DEF TraceInv

LEMMA ReadsRowsHonestly ==
    ASSUME TraceInv, Watch, ReadRows
    PROVE  TraceInv'
<1>1. /\ TracesTyped /\ StepsOfKinds /\ Promises /\ HistoryIsKept /\ op \in CallsUnderWay
      /\ row \in BOOLEAN /\ op.at = "rows"
    BY DEF TraceInv, TracesTyped, ReadRows
<1>2. kind \in PerProject /\ op.call # "none" /\ kind # "langfuse"
    BY <1>1 DEF StepsOfKinds, PerProject
<1>3. CASE row
    <2> DEFINE at == IF op.call = "delete" THEN "remove" ELSE "list"
    <2>1. Advance(at, 1, {}, 0)
        BY <1>3 DEF ReadRows
    <2>2. at \in {"list", "remove", "recheck"} /\ (at = "list" => op.call # "delete")
          /\ (at \in {"remove", "recheck"} => op.call = "delete") /\ at # "recheck"
        OBVIOUS
    <2> HIDE DEF at
    <2> QED BY <2>1, <2>2, <1>1, <1>2, Advanced
<1>4. CASE ~row
    <2>1. Return(IF op.call = "delete" THEN "done" ELSE "absent")
        BY <1>4 DEF ReadRows
    <2>2. stored = <<>>
        BY <1>1, <1>2, <1>4 DEF Promises
    <2>3. Held = {}
        BY <2>2, <1>1, StoredFacts
    <2>4. saw.empty /\ saw.gone
        BY <2>2, <2>3, <1>1, <1>2 DEF HistoryIsKept
    <2>5. CASE op.call = "delete"
        BY <2>1, <2>4, <2>5, <1>2, Honest
    <2>6. CASE op.call # "delete"
        BY <2>1, <2>4, <2>6, <1>2, Honest
    <2> QED BY <2>5, <2>6
<1> QED
    BY <1>1, <1>3, <1>4

LEMMA ReadsCappedHonestly ==
    ASSUME TraceInv, Watch, ReadCapped, op.call \in {"search", "fetch"}
    PROVE  TraceInv'
<1> DEFINE near == Prefix(stored, TRACE_LIMIT)
           got  == {near[i] : i \in DOMAIN near}
<1>1. /\ TracesTyped /\ HistoryIsKept /\ TRACE_LIMIT \in Nat
      /\ stored \in Seq(1..(MaxTraces + ingests)) /\ op.call # "none"
    BY PagesAssumed DEF TraceInv, TracesTyped
<1>2. Return(Verdict(got, Len(near) >= TRACE_LIMIT))
    BY DEF ReadCapped
<1>3. target \notin got <=> \A i \in DOMAIN stored : stored[i] = target => i > TRACE_LIMIT
    BY <1>1, InReach
<1>4. Len(near) = IF TRACE_LIMIT < Len(stored) THEN TRACE_LIMIT ELSE Len(stored)
    BY <1>1, PrefixFacts
<1> HIDE DEF near, got
<1>5. Hit(got) <=> target \in got
    BY <1>1, EveryFieldIsSearched
<1>6. target \notin got => saw.beyond
    BY <1>1, <1>3 DEF HistoryIsKept
<1>7. target \notin got /\ ~(Len(near) >= TRACE_LIMIT) => saw.gone
    <2> SUFFICES ASSUME target \notin got, ~(Len(near) >= TRACE_LIMIT) PROVE target \notin Held
        BY <1>1 DEF HistoryIsKept
    <2> QED BY <1>1, <1>3, <1>4, StoredFacts DEF Held
<1>8. CASE target \in got
    <2>1. Verdict(got, Len(near) >= TRACE_LIMIT) = "found"
        BY <1>5, <1>8 DEF Verdict
    <2> QED BY <2>1, <1>1, <1>2, Honest
<1>9. CASE target \notin got /\ Len(near) >= TRACE_LIMIT
    <2>1. Verdict(got, Len(near) >= TRACE_LIMIT) = "refused"
        BY <1>5, <1>9 DEF Verdict
    <2> QED BY <2>1, <1>1, <1>2, <1>6, <1>9, Honest
<1>10. CASE target \notin got /\ ~(Len(near) >= TRACE_LIMIT)
    <2>1. Verdict(got, Len(near) >= TRACE_LIMIT) = "absent"
        BY <1>5, <1>10 DEF Verdict
    <2> QED BY <2>1, <1>1, <1>2, <1>7, <1>10, Honest
<1> QED
    BY <1>8, <1>9, <1>10

LEMMA OtelReadsHonestly ==
    ASSUME TraceInv, Watch, OtelSearch
    PROVE  TraceInv'
<1>1. /\ TracesTyped /\ HistoryIsKept /\ StepsOfKinds /\ op.at = "list" /\ kind = "otel"
      /\ op \in CallsUnderWay
    BY DEF TraceInv, OtelSearch, TracesTyped
<1>2. op.call \in {"search", "fetch"} /\ op.call # "none"
    BY <1>1 DEF StepsOfKinds, CallsUnderWay, Calls
<1>3. PICK n \in 0..Len(stored) :
         Return(Verdict({stored[i] : i \in 1..n}, n < Len(stored)))
    BY DEF OtelSearch
<1>9. /\ Len(stored) \in Nat /\ DOMAIN stored = 1..Len(stored)
      /\ n \in Nat /\ ~(n < Len(stored)) => n = Len(stored)
    <2>1. Len(stored) \in Nat /\ DOMAIN stored = 1..Len(stored)
        BY <1>1, StoredFacts
    <2>2. n \in Nat /\ n <= Len(stored)
        BY <2>1
    <2>3. \A k, m \in Nat : k <= m /\ ~(k < m) => k = m
        OBVIOUS
    <2>4. ~(n < Len(stored)) => n = Len(stored)
        BY <2>1, <2>2, <2>3
    <2> QED BY <2>1, <2>4
<1> DEFINE got == {stored[i] : i \in 1..n}
<1>4. Hit(got) <=> target \in got
    BY <1>1, <1>2, EveryFieldIsSearched
<1>5. target \notin got /\ ~(n < Len(stored)) => saw.gone
    <2> SUFFICES ASSUME target \notin got, ~(n < Len(stored)) PROVE target \notin Held
        BY <1>1, <1>2 DEF HistoryIsKept
    <2>1. DOMAIN stored = 1..n
        BY <1>9
    <2> QED BY <2>1 DEF Held
<1> HIDE DEF got
<1>6. CASE target \in got
    <2>1. Verdict(got, n < Len(stored)) = "found"
        BY <1>4, <1>6 DEF Verdict
    <2> QED BY <2>1, <1>2, <1>3, Honest DEF got
<1>7. CASE target \notin got /\ n < Len(stored)
    <2>1. Verdict(got, n < Len(stored)) = "refused"
        BY <1>4, <1>7 DEF Verdict
    <2> QED BY <2>1, <1>1, <1>2, <1>3, Honest DEF got
<1>8. CASE target \notin got /\ ~(n < Len(stored))
    <2>1. Verdict(got, n < Len(stored)) = "absent"
        BY <1>4, <1>8 DEF Verdict
    <2> QED BY <2>1, <1>2, <1>3, <1>5, <1>8, Honest DEF got
<1> QED
    BY <1>6, <1>7, <1>8

-----------------------------------------------------------------------------
\* A page holds the traces at its places of the listing, and is short only if the
\* listing ends in it.
LEMMA PageFacts ==
    ASSUME TracesTyped, NEW n \in Nat \ {0}
    PROVE  LET batch == PageOf(n)
               lo    == (n - 1) * TRACE_PAGE
           IN  /\ Len(batch) \in Nat /\ DOMAIN batch = 1..Len(batch) /\ lo \in Nat
               /\ n * TRACE_PAGE = lo + TRACE_PAGE
               /\ Len(batch) <= TRACE_PAGE
               /\ Len(batch) < TRACE_PAGE => Len(stored) < lo + TRACE_PAGE
               /\ \A i \in DOMAIN batch : batch[i] \in Nat
               /\ \A i \in DOMAIN stored :
                     lo < i /\ i <= lo + TRACE_PAGE => \E j \in DOMAIN batch : batch[j] = stored[i]
<1> DEFINE batch == PageOf(n)
           lo    == (n - 1) * TRACE_PAGE
           last  == n * TRACE_PAGE
           hi    == IF last < Len(stored) THEN last ELSE Len(stored)
           S     == 1..(MaxTraces + ingests)
<1>1. TRACE_PAGE \in Nat /\ TRACE_PAGE >= 1
    BY PagesAssumed
<1>2. lo \in Nat /\ last = lo + TRACE_PAGE
    BY <1>1
<1>3. /\ Len(stored) \in Nat /\ DOMAIN stored = 1..Len(stored)
      /\ \A i \in 1..Len(stored) : stored[i] \in S
    BY StoredFacts
<1>4. S \subseteq Nat
    BY TracesAssumed DEF TracesTyped
<1>5. batch = SubSeq(stored, lo + 1, hi)
    <2>1. last - TRACE_PAGE + 1 = lo + 1
        BY <1>1, <1>2
    <2> QED BY <2>1 DEF PageOf
<1> HIDE DEF batch, lo, last
<1>6. hi \in Nat /\ hi <= Len(stored) /\ hi <= lo + TRACE_PAGE
    BY <1>1, <1>2, <1>3
<1>7. hi < lo + TRACE_PAGE => Len(stored) < lo + TRACE_PAGE
    BY <1>1, <1>2, <1>3
<1>8. \A i \in 1..Len(stored) : i <= lo + TRACE_PAGE => i <= hi
    BY <1>1, <1>2, <1>3
<1> HIDE DEF hi, S
<1>9. /\ batch \in Seq(S)
      /\ Len(batch) = IF lo + 1 <= hi THEN hi - (lo + 1) + 1 ELSE 0
      /\ \A i \in 1..(hi - (lo + 1) + 1) : batch[i] = stored[(lo + 1) + i - 1]
    <2>1. lo + 1 \in Int /\ hi \in Int /\ \A i \in (lo + 1)..hi : stored[i] \in S
        BY <1>2, <1>3, <1>6
    <2> QED BY <2>1, <1>5, SubSeqProperties
<1>10. Len(batch) \in Nat /\ DOMAIN batch = 1..Len(batch)
    BY <1>9, LenProperties
<1>11. \A i \in DOMAIN batch : batch[i] \in Nat
    BY <1>9, <1>10, <1>4, ElementOfSeq
<1>12. Len(batch) <= TRACE_PAGE /\ (Len(batch) < TRACE_PAGE => Len(stored) < lo + TRACE_PAGE)
    BY <1>1, <1>2, <1>3, <1>6, <1>7, <1>9
<1>13. ASSUME NEW i \in DOMAIN stored, lo < i, i <= lo + TRACE_PAGE
       PROVE  \E j \in DOMAIN batch : batch[j] = stored[i]
    <2>1. i \in Nat /\ i <= hi
        BY <1>13, <1>3, <1>8
    <2>2. Len(batch) = hi - lo
        BY <2>1, <1>2, <1>6, <1>9, <1>13
    <2>3. i - lo \in 1..(hi - (lo + 1) + 1) /\ (lo + 1) + (i - lo) - 1 = i
        BY <2>1, <1>2, <1>6, <1>13
    <2>4. batch[i - lo] = stored[i]
        BY <2>3, <1>9
    <2>5. i - lo \in DOMAIN batch
        BY <2>2, <2>3, <1>10, <1>2, <1>6
    <2> QED BY <2>4, <2>5
<1>14. n * TRACE_PAGE = lo + TRACE_PAGE
    BY <1>2 DEF last
<1> QED
    BY <1>2, <1>10, <1>11, <1>12, <1>13, <1>14 DEF batch, lo

\* The listing is complete, or its budget ran out beyond the cap.
LEMMA ConcludesHonestly ==
    ASSUME TraceInv, Watch, op.at = "list", kind = "langfuse",
           NEW got \in SUBSET Nat, NEW partial \in BOOLEAN, Conclude(got, partial),
           ~partial => /\ saw.gone \/ saw.vanished \/ target \in got
                       /\ got = {} => stored = <<>>,
           partial => saw.beyond \/ saw.vanished \/ target \in got
    PROVE  TraceInv'
<1>1. /\ TracesTyped /\ HistoryIsKept /\ StepsOfKinds /\ op \in CallsUnderWay
    BY DEF TraceInv, TracesTyped
<1>2. op.call # "none"
    BY <1>1 DEF StepsOfKinds
<1>3. CASE op.call # "delete"
    <2>1. Return(Verdict(got, partial)) /\ op.call \in {"search", "fetch"}
        BY <1>1, <1>2, <1>3 DEF Conclude, CallsUnderWay, Calls
    <2>2. Hit(got) <=> target \in got
        BY <2>1, <1>1, EveryFieldIsSearched
    <2>3. CASE target \in got
        <3>1. Verdict(got, partial) = "found"
            BY <2>2, <2>3 DEF Verdict
        <3> QED BY <3>1, <2>1, <1>2, Honest
    <2>4. CASE target \notin got /\ partial
        <3>1. Verdict(got, partial) = "refused"
            BY <2>2, <2>4 DEF Verdict
        <3> QED BY <3>1, <2>1, <2>4, <1>2, Honest
    <2>5. CASE target \notin got /\ ~partial
        <3>1. Verdict(got, partial) = "absent"
            BY <2>2, <2>5 DEF Verdict
        <3> QED BY <3>1, <2>1, <2>5, <1>2, Honest
    <2> QED BY <2>3, <2>4, <2>5
<1>4. CASE op.call = "delete" /\ partial
    <2>1. Return("refused")
        BY <1>4 DEF Conclude
    <2> QED BY <2>1, <1>2, <1>4, Honest
<1>5. CASE op.call = "delete" /\ ~partial /\ got = {}
    <2>1. Return("done")
        BY <1>5 DEF Conclude
    <2>2. saw.empty
        BY <1>1, <1>2, <1>5 DEF HistoryIsKept
    <2> QED BY <2>1, <2>2, <1>2, Honest
<1>6. CASE op.call = "delete" /\ ~partial /\ got # {}
    <2>1. Advance("remove", 1, got, 0)
        BY <1>6 DEF Conclude
    <2> QED BY <2>1, <1>2, <1>6, Advanced
<1> QED
    BY <1>3, <1>4, <1>5, <1>6

LEMMA ReadsPageHonestly ==
    ASSUME TraceInv, Watch, ReadPage
    PROVE  TraceInv'
<1> DEFINE batch == PageOf(op.page)
           got   == op.got \cup {batch[i] : i \in DOMAIN batch}
           seen  == op.seen + Len(batch)
           lo    == (op.page - 1) * TRACE_PAGE
<1>1. /\ TracesTyped /\ HistoryIsKept /\ StepsOfKinds /\ NothingSlipsBetweenPages
      /\ op \in CallsUnderWay /\ op.at = "list" /\ kind = "langfuse"
    BY DEF TraceInv, TracesTyped, ReadPage
<1>2. op.page \in Nat \ {0} /\ op.got \in SUBSET Nat /\ op.seen \in Nat /\ op.call # "none"
    BY <1>1 DEF CallsUnderWay, StepsOfKinds
<1>3. /\ op.seen = lo
      /\ op.got = {} <=> op.page = 1
      /\ \/ saw.gone \/ saw.vanished \/ target \in op.got
         \/ \E i \in DOMAIN stored : stored[i] = target /\ op.seen < i
    BY <1>1 DEF NothingSlipsBetweenPages
<1>4. /\ Len(batch) \in Nat /\ DOMAIN batch = 1..Len(batch) /\ lo \in Nat
      /\ op.page * TRACE_PAGE = lo + TRACE_PAGE
      /\ Len(batch) <= TRACE_PAGE
      /\ Len(batch) < TRACE_PAGE => Len(stored) < lo + TRACE_PAGE
      /\ \A i \in DOMAIN batch : batch[i] \in Nat
      /\ \A i \in DOMAIN stored :
            lo < i /\ i <= lo + TRACE_PAGE => \E j \in DOMAIN batch : batch[j] = stored[i]
    BY <1>1, <1>2, PageFacts
<1>5. IF Len(batch) < TRACE_PAGE THEN Conclude(got, FALSE)
      ELSE IF seen >= TRACE_LIMIT THEN Conclude(got, TRUE)
      ELSE Advance("list", op.page + 1, got, seen)
    BY DEF ReadPage
<1>6. /\ Len(stored) \in Nat /\ DOMAIN stored = 1..Len(stored)
      /\ TRACE_PAGE \in Nat \ {0} /\ TRACE_LIMIT \in Nat
    BY <1>1, StoredFacts, PagesAssumed
<1> HIDE DEF batch, lo
<1>7. got \in SUBSET Nat
    BY <1>2, <1>4
\* The target is on a page read by now, or beyond this one too.
<1>8. \/ saw.gone \/ saw.vanished \/ target \in got
      \/ \E i \in DOMAIN stored : stored[i] = target /\ lo + TRACE_PAGE < i
    <2> SUFFICES ASSUME NEW i \in DOMAIN stored, stored[i] = target, lo < i
                 PROVE  target \in got \/ lo + TRACE_PAGE < i
        BY <1>3
    <2> QED BY <1>4, <1>6
<1> DEFINE short == Len(batch) < TRACE_PAGE
           spent == seen >= TRACE_LIMIT
<1>20. IF short THEN Conclude(got, FALSE)
       ELSE IF spent THEN Conclude(got, TRUE)
       ELSE Advance("list", op.page + 1, got, seen)
    BY <1>5
<1>22. Len(batch) \in Nat /\ Len(batch) <= TRACE_PAGE /\ TRACE_PAGE \in Nat
    BY <1>4, <1>6
<1>21. ~short => Len(batch) = TRACE_PAGE
    BY <1>22
<1>9. CASE short
    <2>1. saw.gone \/ saw.vanished \/ target \in got
        BY <1>4, <1>6, <1>8, <1>9
    <2>2. got = {} => stored = <<>>
        <3> SUFFICES ASSUME got = {} PROVE Len(stored) = 0
            BY <1>1, StoredFacts
        <3>1. op.got = {} /\ op.page = 1
            BY <1>3
        <3>2. lo = 0
            BY <3>1, <1>6 DEF lo
        <3>3. DOMAIN batch = {}
            OBVIOUS
        <3>4. \A i \in DOMAIN stored : FALSE
            BY <3>2, <3>3, <1>4, <1>6, <1>9
        <3> QED BY <3>4, <1>6
    <2>3. Conclude(got, FALSE)
        <3> HIDE DEF got, seen, short, spent
        <3> QED BY <1>20, <1>9
    <2> HIDE DEF got
    <2> QED BY <2>1, <2>2, <2>3, <1>1, <1>7, ConcludesHonestly
<1>10. CASE ~short /\ spent
    <2>1. saw.beyond \/ saw.vanished \/ target \in got
        <3>1. saw.gone => saw.beyond
            BY <1>1, <1>2 DEF HistoryIsKept
        <3>2. ASSUME NEW i \in DOMAIN stored, stored[i] = target, lo + TRACE_PAGE < i
              PROVE  saw.beyond
            <4>1. i > TRACE_LIMIT
                BY <3>2, <1>3, <1>4, <1>6, <1>10, <1>21
            <4>2. \A j \in DOMAIN stored : stored[j] = target => j = i
                BY <3>2, <1>1 DEF TracesTyped
            <4> QED BY <4>1, <4>2, <1>1, <1>2 DEF HistoryIsKept
        <3> QED BY <3>1, <3>2, <1>8
    <2>2. Conclude(got, TRUE)
        <3> HIDE DEF got, seen, short, spent
        <3> QED BY <1>20, <1>10
    <2> HIDE DEF got
    <2> QED BY <2>1, <2>2, <1>1, <1>7, ConcludesHonestly
<1>11. CASE ~short /\ ~spent
    <2>1. Advance("list", op.page + 1, got, seen)
        <3> HIDE DEF got, seen, short, spent
        <3> QED BY <1>20, <1>11
    <2>2. seen = lo + TRACE_PAGE /\ seen \in Nat
        BY <1>3, <1>4, <1>6, <1>11, <1>21
    <2>3. seen = ((op.page + 1) - 1) * TRACE_PAGE /\ op.page + 1 \in Nat \ {0} /\ op.page + 1 # 1
        BY <2>2, <1>2, <1>4
    <2>4. got # {}
        <3>1. 1 \in DOMAIN batch
            BY <1>4, <1>6, <1>11, <1>21
        <3> QED BY <3>1
    <2>5. \/ saw.gone \/ saw.vanished \/ target \in got
          \/ \E i \in DOMAIN stored : stored[i] = target /\ seen < i
        BY <2>2, <1>8
    <2>6. op.call = "delete" => kind = "langfuse"
        BY <1>1
    <2> HIDE DEF got, seen
    <2> QED BY <2>1, <2>2, <2>3, <2>4, <2>5, <2>6, <1>1, <1>2, <1>7, Advanced
<1> HIDE DEF short, spent
<1> QED
    BY <1>9, <1>10, <1>11

-----------------------------------------------------------------------------
\* Deletion.

LEMMA RequestsAsync ==
    ASSUME TraceInv, Watch, DeleteAsync
    PROVE  TraceInv'
<1>1. /\ UNCHANGED <<givenVars, stored, row, boundVars, calls>>
      /\ op' = [op EXCEPT !.at = "confirm", !.tries = 0] /\ op.at = "remove"
      /\ kind \in {"langfuse", "langsmith"} /\ (kind = "langsmith" => row) /\ Accepts
    BY DEF DeleteAsync
<1>2. /\ TracesTyped /\ StepsOfKinds /\ Promises /\ HistoryIsKept /\ op \in CallsUnderWay
    BY DEF TraceInv, TracesTyped
<1>3. op.call = "delete" /\ op.call # "none"
    BY <1>1, <1>2 DEF StepsOfKinds
<1>4. op' \in CallsUnderWay /\ op'.call = op.call /\ op'.at = "confirm"
    BY <1>1, <1>2 DEF CallsUnderWay
<1>5. /\ TracesTyped' /\ AnswersAreHonest'
      /\ saw'.call = saw.call /\ saw'.gone = saw.gone /\ saw'.beyond = saw.beyond
      /\ saw'.vanished = saw.vanished /\ saw'.empty = saw.empty
      /\ target' = target /\ kind' = kind /\ route' = route /\ Held' = Held
    BY <1>1, <1>3, <1>4, GoesOn
<1>6. stored' = stored /\ row' = row
    BY <1>1
<1>7. StepsOfKinds'
    BY <1>1, <1>2, <1>3, <1>4, <1>5 DEF StepsOfKinds
<1>8. Promises'
    <2>1. kind = "langsmith" => doomed' = doomed \cup {0}
        BY <1>1 DEF Accepts, PerProject
    <2> QED BY <2>1, <1>1, <1>2, <1>5, <1>6 DEF Promises, PerProject
<1>9. HistoryIsKept'
    BY <1>2, <1>3, <1>4, <1>5, <1>6 DEF HistoryIsKept
<1>10. NothingSlipsBetweenPages'
    BY <1>4 DEF NothingSlipsBetweenPages
<1> QED
    BY <1>5, <1>7, <1>8, <1>9, <1>10 DEF TraceInv

LEMMA ConfirmsHonestly ==
    ASSUME TraceInv, Watch, Confirm
    PROVE  TraceInv'
<1> DEFINE gone == IF kind = "langfuse" THEN stored = <<>> ELSE ~row
<1>1. /\ TracesTyped /\ StepsOfKinds /\ Promises /\ HistoryIsKept /\ op \in CallsUnderWay
      /\ op.at = "confirm"
    BY DEF TraceInv, TracesTyped, Confirm
<1>2. op.call = "delete" /\ op.call # "none" /\ kind \in {"langfuse", "langsmith"}
    BY <1>1 DEF StepsOfKinds
<1>3. IF gone THEN Return("done")
      ELSE IF op.tries + 1 = TRIES THEN Return("error")
      ELSE /\ op' = [op EXCEPT !.tries = @ + 1]
           /\ UNCHANGED <<givenVars, backendVars, boundVars, calls, answer>>
    BY DEF Confirm
<1>4. CASE gone
    <2>1. Return("done")
        BY <1>3, <1>4
    <2>2. stored = <<>>
        BY <1>1, <1>2, <1>4 DEF Promises, PerProject
    <2>3. saw.empty
        BY <2>2, <1>1, <1>2 DEF HistoryIsKept
    <2> QED BY <2>1, <2>3, <1>2, Honest
<1>5. CASE ~gone /\ op.tries + 1 = TRIES
    <2>1. Return("error")
        BY <1>3, <1>5
    <2> QED BY <2>1, <1>2, Honest
<1>6. CASE ~gone /\ op.tries + 1 # TRIES
    <2>1. /\ op' = [op EXCEPT !.tries = @ + 1]
          /\ UNCHANGED <<givenVars, backendVars, boundVars, calls, answer>>
        BY <1>3, <1>6
    <2>2. /\ UNCHANGED <<givenVars, stored, row, boundVars, calls>> /\ doomed' = doomed
        BY <2>1 DEF backendVars
    <2>3. op' \in CallsUnderWay /\ op'.call = op.call /\ op'.at = "confirm"
        BY <2>1, <1>1 DEF CallsUnderWay
    <2>4. /\ TracesTyped' /\ AnswersAreHonest'
          /\ saw'.call = saw.call /\ saw'.gone = saw.gone /\ saw'.beyond = saw.beyond
          /\ saw'.vanished = saw.vanished /\ saw'.empty = saw.empty
          /\ target' = target /\ kind' = kind /\ route' = route /\ Held' = Held
        BY <2>2, <2>3, <1>2, GoesOn
    <2>5. stored' = stored /\ row' = row
        BY <2>2
    <2>6. StepsOfKinds'
        BY <2>3, <2>4, <1>1, <1>2 DEF StepsOfKinds
    <2>7. Promises'
        BY <2>2, <2>4, <2>5, <1>1 DEF Promises
    <2>8. HistoryIsKept'
        BY <2>3, <2>4, <2>5, <1>1, <1>2 DEF HistoryIsKept
    <2>9. NothingSlipsBetweenPages'
        BY <2>3 DEF NothingSlipsBetweenPages
    <2> QED BY <2>4, <2>6, <2>7, <2>8, <2>9 DEF TraceInv
<1> QED
    BY <1>4, <1>5, <1>6

\* A route that takes the request promises all that the tenant has.
LEMMA DeletesDirectly ==
    ASSUME TraceInv, Watch, DeleteDirect
    PROVE  TraceInv'
<1>1. /\ kind \in {"phoenix", "otel"} /\ route = "accepts" /\ (kind = "phoenix" => row)
      /\ Accepts /\ answer' = "done" /\ op' = TraceIdle /\ op.at = "remove"
      /\ kind' = kind /\ target' = target /\ field' = field /\ route' = route
      /\ stored' = stored /\ row' = row /\ ingests' = ingests /\ calls' = calls
    BY DEF DeleteDirect, givenVars, boundVars
<1>2. TracesTyped /\ StepsOfKinds /\ Promises /\ HistoryIsKept
    BY DEF TraceInv
<1>3. op.call = "delete" /\ op.call # "none"
    BY <1>1, <1>2 DEF StepsOfKinds
<1>4. op'.at = "idle" /\ op'.call = "none" /\ op' \in CallsUnderWay
    BY <1>1 DEF TraceIdle, CallsUnderWay
<1>5. /\ saw' \in Histories /\ saw'.empty = saw.empty
      /\ saw'.accepted = (saw.accepted \/ (Requested /\ Promised'))
    BY <1>1, <1>2, <1>3, GrowsByRequest
<1>6. doomed' = doomed \cup (IF kind = "phoenix" THEN {0} ELSE Held)
    BY <1>1 DEF Accepts, PerProject
<1>7. saw'.empty \/ saw'.accepted
    <2>1. CASE stored = <<>>
        BY <2>1, <1>2, <1>3, <1>5 DEF HistoryIsKept
    <2>2. CASE stored # <<>>
        <3>1. Promised'
            BY <2>2, <1>1, <1>6 DEF Promised, Held
        <3>2. Requested
            BY <1>1, <1>4 DEF Requested
        <3> QED BY <3>1, <3>2, <1>5
    <2> QED BY <2>1, <2>2
<1>8. TracesTyped'
    BY <1>1, <1>2, <1>4, <1>5 DEF TracesTyped
<1>9. StepsOfKinds'
    BY <1>4 DEF StepsOfKinds
<1>10. Promises'
    <2>1. kind = "otel" => 0 \notin Held
        BY <1>2, StoredFacts DEF Held
    <2> QED BY <2>1, <1>1, <1>2, <1>6 DEF Promises, PerProject
<1>11. HistoryIsKept' /\ NothingSlipsBetweenPages'
    BY <1>4 DEF HistoryIsKept, NothingSlipsBetweenPages
<1>12. AnswersAreHonest'
    BY <1>1, <1>7 DEF AnswersAreHonest, ReadsAreHonest, PurgesAreHonest
<1> QED
    BY <1>8, <1>9, <1>10, <1>11, <1>12 DEF TraceInv

LEMMA NotFoundHonestly ==
    ASSUME TraceInv, Watch, DeleteNotFound
    PROVE  TraceInv'
<1>1. /\ TracesTyped /\ StepsOfKinds /\ Promises /\ HistoryIsKept
      /\ kind \in {"phoenix", "otel"} /\ op.at = "remove" /\ Advance("recheck", 1, {}, 0)
      /\ \/ route = "404"
         \/ route = "accepts" /\ (IF kind = "phoenix" THEN ~row ELSE stored = <<>>)
    BY DEF TraceInv, DeleteNotFound
<1>2. op.call = "delete" /\ op.call # "none"
    BY <1>1 DEF StepsOfKinds
<1>3. stored = <<>> <=> Held = {}
    BY <1>1, StoredFacts
<1>4. ~Promised /\ (route = "accepts" => stored = <<>>)
    <2>1. CASE route = "404"
        <3>1. doomed = {}
            BY <2>1, <1>1 DEF Promises
        <3> QED BY <3>1, <2>1, <1>3 DEF Promised
    <2>2. CASE route = "accepts" /\ kind = "phoenix"
        <3>1. stored = <<>> /\ doomed = {}
            BY <2>2, <1>1 DEF Promises, PerProject
        <3> QED BY <3>1 DEF Promised
    <2>3. CASE route = "accepts" /\ kind = "otel"
        <3>1. stored = <<>> /\ 0 \notin doomed
            BY <2>3, <1>1 DEF Promises
        <3> QED BY <3>1 DEF Promised
    <2> QED BY <1>1, <2>1, <2>2, <2>3
<1>5. route = "accepts" => saw.empty
    BY <1>1, <1>2, <1>4 DEF HistoryIsKept
<1> QED
    BY <1>1, <1>2, <1>4, <1>5, Advanced

LEMMA NotAllowedHonestly ==
    ASSUME TraceInv, Watch, DeleteNotAllowed
    PROVE  TraceInv'
<1>1. /\ TracesTyped /\ StepsOfKinds /\ Promises /\ HistoryIsKept
      /\ kind = "otel" /\ op.at = "remove" /\ route = "405" /\ Return("unsupported")
    BY DEF TraceInv, DeleteNotAllowed
<1>2. op.call # "none"
    BY <1>1 DEF StepsOfKinds
<1>3. doomed = {}
    BY <1>1 DEF Promises
<1>4. ~Promised
    BY <1>1, <1>3, StoredFacts DEF Promised
<1>5. ~saw.accepted
    BY <1>1, <1>2 DEF HistoryIsKept
<1> QED
    BY <1>1, <1>2, <1>4, <1>5, Honest

LEMMA RechecksHonestly ==
    ASSUME TraceInv, Watch, RecheckProject \/ RecheckSpans
    PROVE  TraceInv'
<1>1. /\ TracesTyped /\ StepsOfKinds /\ Promises /\ HistoryIsKept /\ op.at = "recheck"
    BY DEF TraceInv, RecheckProject, RecheckSpans
<1>2. op.call # "none" /\ op.call = "delete"
    BY <1>1 DEF StepsOfKinds
<1>3. /\ ~saw.accepted /\ (route = "accepts" => saw.empty) /\ (stored = <<>> => saw.empty)
    BY <1>1, <1>2 DEF HistoryIsKept
<1>4. ASSUME Return("unsupported") PROVE TraceInv'
    BY <1>4, <1>1, <1>2, <1>3, Honest
<1>5. ASSUME Return("done"), stored = <<>> PROVE TraceInv'
    BY <1>5, <1>1, <1>2, <1>3, Honest
<1>6. ASSUME Return("refused") PROVE TraceInv'
    BY <1>6, <1>1, <1>2, <1>3, Honest
<1>7. CASE RecheckProject
    <2>1. kind = "phoenix" /\ Return(IF row THEN "unsupported" ELSE "done")
        BY <1>7 DEF RecheckProject
    <2>2. ~row => stored = <<>>
        BY <2>1, <1>1 DEF Promises, PerProject
    <2>3. CASE row
        BY <2>1, <2>3, <1>4
    <2>4. CASE ~row
        BY <2>1, <2>2, <2>4, <1>5
    <2> QED BY <2>3, <2>4
<1>8. CASE RecheckSpans
    <2>1. PICK n \in 0..Len(stored) :
             Return(IF n > 0 THEN "unsupported" ELSE IF n < Len(stored) THEN "refused" ELSE "done")
        BY <1>8 DEF RecheckSpans
    <2>2. Len(stored) \in Nat /\ (stored = <<>> <=> Len(stored) = 0)
        BY <1>1, StoredFacts
    <2>3. CASE n > 0
        BY <2>1, <2>3, <1>4
    <2>4. CASE ~(n > 0) /\ n < Len(stored)
        BY <2>1, <2>4, <1>6
    <2>5. CASE ~(n > 0) /\ ~(n < Len(stored))
        <3>1. Return("done")
            BY <2>1, <2>5
        <3>2. n \in Nat /\ n <= Len(stored)
            BY <2>2
        <3>3. Len(stored) = 0
            BY <2>2, <3>2, <2>5
        <3> QED BY <3>1, <3>3, <2>2, <1>5
    <2> QED BY <2>3, <2>4, <2>5
<1> QED
    BY <1>7, <1>8

-----------------------------------------------------------------------------
\* The backend between two calls.

LEMMA IngestsBehind ==
    ASSUME TraceInv, Watch, Ingest
    PROVE  TraceInv'
<1> DEFINE new == MaxTraces + ingests'
           S   == 1..new
<1>1. /\ UNCHANGED <<givenVars, calls, op, answer>> /\ ingests' = ingests + 1 /\ row' = TRUE
      /\ stored' = <<new>> \o stored /\ doomed' = doomed /\ kind' = kind /\ route' = route
    BY DEF Ingest, givenVars
<1>2. TracesTyped /\ Promises /\ ingests \in Nat
    BY DEF TraceInv, TracesTyped
<1>3. /\ Len(stored) \in Nat /\ DOMAIN stored = 1..Len(stored)
      /\ \A i \in DOMAIN stored : stored[i] \in 1..(MaxTraces + ingests)
      /\ stored \in Seq(1..(MaxTraces + ingests))
    BY <1>2, StoredFacts DEF TracesTyped
<1>4. new \in Nat /\ new = MaxTraces + ingests + 1 /\ new \in S /\ MaxTraces + ingests \in Nat
    BY <1>1, <1>2, TracesAssumed
<1>5. 1..(MaxTraces + ingests) \subseteq S /\ \A k \in 1..(MaxTraces + ingests) : k # new
    BY <1>4
<1> HIDE DEF S, new
<1>6. stored \in Seq(S) /\ <<new>> \in Seq(S) /\ Len(<<new>>) = 1 /\ <<new>>[1] = new
    BY <1>3, <1>4, <1>5, SeqMonotonic
<1>7. /\ stored' \in Seq(S) /\ Len(stored') = 1 + Len(stored)
      /\ \A i \in 1..(1 + Len(stored)) : stored'[i] = IF i <= 1 THEN <<new>>[i] ELSE stored[i - 1]
    <2>1. /\ <<new>> \o stored \in Seq(S)
          /\ Len(<<new>> \o stored) = Len(<<new>>) + Len(stored)
          /\ \A i \in 1..(Len(<<new>>) + Len(stored)) :
                (<<new>> \o stored)[i] = IF i <= Len(<<new>>) THEN <<new>>[i]
                                         ELSE stored[i - Len(<<new>>)]
        BY <1>6, ConcatProperties
    <2> QED BY <2>1, <1>1, <1>6
<1>8. DOMAIN stored' = 1..(1 + Len(stored))
    BY <1>7, LenProperties
<1>9. /\ stored'[1] = new
      /\ \A i \in 1..(1 + Len(stored)) : i # 1 => i - 1 \in DOMAIN stored /\ stored'[i] = stored[i - 1]
    BY <1>3, <1>6, <1>7
<1>10. \A i, j \in DOMAIN stored' : stored'[i] = stored'[j] => i = j
    <2> SUFFICES ASSUME NEW i \in 1..(1 + Len(stored)), NEW j \in 1..(1 + Len(stored)),
                        stored'[i] = stored'[j]
                 PROVE  i = j
        BY <1>8
    <2>1. i \in Nat /\ j \in Nat
        BY <1>3
    <2>2. CASE i = 1 /\ j # 1
        BY <2>2, <1>3, <1>5, <1>9
    <2>3. CASE i # 1 /\ j = 1
        BY <2>3, <1>3, <1>5, <1>9
    <2>4. CASE i # 1 /\ j # 1
        <3>1. i - 1 \in DOMAIN stored /\ j - 1 \in DOMAIN stored /\ stored[i - 1] = stored[j - 1]
            BY <2>4, <1>9
        <3>2. i - 1 = j - 1
            BY <3>1, <1>2 DEF TracesTyped
        <3> QED BY <3>2, <2>1
    <2> QED BY <2>2, <2>3, <2>4
<1>11. ASSUME NEW i \in DOMAIN stored
       PROVE  \E j \in DOMAIN stored' : stored'[j] = stored[i] /\ i <= j
    <2>1. i + 1 \in 1..(1 + Len(stored)) /\ i + 1 # 1 /\ (i + 1) - 1 = i /\ i <= i + 1
        BY <1>3
    <2> QED BY <2>1, <1>8, <1>9
<1>12. Promises'
    BY <1>1, <1>2 DEF Promises
<1>13. ingests' \in Nat /\ row' \in BOOLEAN
    BY <1>1, <1>2
<1>14. stored' \in Seq(1..(MaxTraces + ingests'))
    BY <1>7 DEF S, new
<1> QED
    BY <1>1, <1>10, <1>11, <1>12, <1>13, <1>14, BehindTheCall

\* A trace that goes leaves the promises as they are, or takes its own along.
LEMMA LosesBehind ==
    ASSUME TraceInv, Watch, NEW t \in Held, Loses(t),
           UNCHANGED <<givenVars, row, calls, op, answer>>, ingests' = ingests,
           doomed' \subseteq doomed
    PROVE  TraceInv'
<1>1. TracesTyped /\ Promises /\ ingests \in Nat /\ row \in BOOLEAN
    BY DEF TraceInv, TracesTyped
<1>2. /\ stored' \in Seq(1..(MaxTraces + ingests'))
      /\ \A i, j \in DOMAIN stored' : stored'[i] = stored'[j] => i = j
      /\ Held' = Held \ {t}
    BY <1>1, LosesOne
<1>3. kind' = kind /\ route' = route /\ row' = row
    BY DEF givenVars
<1>4. stored # <<>>
    BY <1>1, StoredFacts
<1>5. Promises'
    BY <1>1, <1>3, <1>4 DEF Promises
<1>6. Held \ Held' # {}
    BY <1>2
<1> QED
    BY <1>1, <1>2, <1>3, <1>5, <1>6, BehindTheCall

LEMMA DropsBehind ==
    ASSUME TraceInv, Watch, ApplyProject
    PROVE  TraceInv'
<1>1. /\ UNCHANGED <<givenVars, calls, op, answer>> /\ ingests' = ingests /\ row' = FALSE
      /\ stored' = <<>> /\ doomed' = {} /\ kind' = kind /\ route' = route
    BY DEF ApplyProject, givenVars, boundVars
<1>2. TracesTyped /\ ingests \in Nat
    BY DEF TraceInv, TracesTyped
<1>3. stored' \in Seq(1..(MaxTraces + ingests')) /\ Len(stored') = 0 /\ DOMAIN stored' = {}
    <2>1. <<>> \in Seq(1..(MaxTraces + ingests')) /\ Len(<<>>) = 0
        BY EmptySeq
    <2>2. DOMAIN <<>> = 1..Len(<<>>)
        BY <2>1, LenProperties
    <2> QED BY <1>1, <2>1, <2>2
<1>4. Promises'
    BY <1>1 DEF Promises
<1>5. Held' = {}
    BY <1>3 DEF Held
<1>6. \/ Held \ Held' # {}
      \/ \A i \in DOMAIN stored : \E j \in DOMAIN stored' : stored'[j] = stored[i] /\ i <= j
    <2>1. CASE Held = {}
        <3>1. DOMAIN stored = {}
            BY <2>1 DEF Held
        <3> QED BY <3>1
    <2>2. CASE Held # {}
        BY <2>2, <1>5
    <2> QED BY <2>1, <2>2
<1> QED
    BY <1>1, <1>2, <1>3, <1>4, <1>6, BehindTheCall

-----------------------------------------------------------------------------
LEMMA TraceInitHolds == TraceInit => TraceInv
<1> SUFFICES ASSUME TraceInit PROVE TraceInv
    OBVIOUS
<1>1. /\ kind \in Kinds /\ field \in Fields /\ row \in BOOLEAN
      /\ ingests = 0 /\ calls = 0 /\ op = TraceIdle /\ answer = "none" /\ saw = NothingSeen("none")
      /\ row \in (IF kind \in PerProject /\ stored = <<>> THEN BOOLEAN ELSE {TRUE})
      /\ doomed \in (IF kind = "langfuse" THEN {{}, Held} ELSE {{}})
    BY DEF TraceInit
<1>2. PICK n \in 0..MaxTraces : stored = [i \in 1..n |-> i]
    BY DEF TraceInit
<1>3. /\ stored \in Seq(1..(MaxTraces + ingests))
      /\ \A i, j \in DOMAIN stored : stored[i] = stored[j] => i = j
    <2>1. n \in Nat /\ MaxTraces + ingests = MaxTraces /\ n <= MaxTraces
        BY <1>1, TracesAssumed
    <2>2. stored \in [1..n -> 1..MaxTraces]
        BY <1>2, <2>1, TracesAssumed
    <2>3. DOMAIN stored = 1..n
        BY <1>2
    <2> QED BY <2>1, <2>2, <2>3, <1>2, SeqDef
<1>4. op.call = "none" /\ op.at = "idle" /\ op \in CallsUnderWay
    BY <1>1 DEF TraceIdle, CallsUnderWay
<1>5. saw \in Histories
    BY <1>1 DEF NothingSeen, Histories
<1>6. TracesTyped
    BY <1>1, <1>3, <1>4, <1>5 DEF TracesTyped
<1>7. StepsOfKinds
    BY <1>4 DEF StepsOfKinds
<1>8. Promises
    BY <1>1 DEF Promises, PerProject
<1>9. HistoryIsKept /\ NothingSlipsBetweenPages
    BY <1>4 DEF HistoryIsKept, NothingSlipsBetweenPages
<1>10. AnswersAreHonest
    BY <1>1 DEF AnswersAreHonest, ReadsAreHonest, PurgesAreHonest
<1> QED
    BY <1>6, <1>7, <1>8, <1>9, <1>10 DEF TraceInv

LEMMA TraceStepHolds == TraceInv /\ TraceStep /\ Watch => TraceInv'
<1> SUFFICES ASSUME TraceInv, TraceStep, Watch PROVE TraceInv'
    OBVIOUS
<1>1. CASE Fails
    BY <1>1, FailsHonestly
<1>2. CASE ReadRows
    BY <1>2, ReadsRowsHonestly
<1>3. CASE ReadCapped /\ op.call \in {"search", "fetch"}
    BY <1>3, ReadsCappedHonestly
<1>4. CASE OtelSearch
    BY <1>4, OtelReadsHonestly
<1>5. CASE ReadPage
    BY <1>5, ReadsPageHonestly
<1>6. CASE DeleteAsync
    BY <1>6, RequestsAsync
<1>7. CASE Confirm
    BY <1>7, ConfirmsHonestly
<1>8. CASE DeleteDirect
    BY <1>8, DeletesDirectly
<1>9. CASE DeleteNotFound
    BY <1>9, NotFoundHonestly
<1>10. CASE DeleteNotAllowed
    BY <1>10, NotAllowedHonestly
<1>11. CASE RecheckProject \/ RecheckSpans
    BY <1>11, RechecksHonestly
<1>12. CASE Read
    BY <1>2, <1>3, <1>4, <1>5, <1>12
       DEF Read, LangsmithProjectNames, PhoenixProjectNames, LangsmithSearch, LangsmithFetch,
           PhoenixSearch, PhoenixFetch, DatadogSearch, DatadogFetch, HeliconeSearch, HeliconeFetch,
           LangfuseSearch, LangfuseFetch
<1>13. CASE LangfuseDelete \/ LangsmithDelete \/ PhoenixDelete \/ OtelPurge
    BY <1>5, <1>6, <1>7, <1>8, <1>9, <1>10, <1>11, <1>13
       DEF LangfuseDelete, LangsmithDelete, PhoenixDelete, OtelPurge, LangfuseListed
<1>14. CASE DatadogPost \/ HeliconePost \/ OtelQuery \/ SdkRaises
    BY <1>1, <1>14 DEF DatadogPost, HeliconePost, OtelQuery, SdkRaises
<1> QED
    BY <1>12, <1>13, <1>14 DEF TraceStep

LEMMA TraceBackendHolds == TraceInv /\ Backend /\ Watch => TraceInv'
<1> SUFFICES ASSUME TraceInv, Backend, Watch PROVE TraceInv'
    OBVIOUS
<1>1. CASE Ingest
    BY <1>1, IngestsBehind
<1>2. CASE Apply
    <2>1. PICK t \in doomed \cap Held : Loses(t) /\ doomed' = doomed \ {t}
        BY <1>2 DEF Apply
    <2>2. UNCHANGED <<givenVars, row, calls, op, answer>> /\ ingests' = ingests
        BY <1>2 DEF Apply, boundVars
    <2> QED BY <2>1, <2>2, LosesBehind
<1>3. CASE ApplyProject
    BY <1>3, DropsBehind
<1>4. CASE Expire
    <2>1. PICK t \in Held \ doomed : Loses(t)
        BY <1>4 DEF Expire
    <2>2. /\ UNCHANGED <<givenVars, row, calls, op, answer>> /\ ingests' = ingests
          /\ doomed' = doomed
        BY <1>4 DEF Expire
    <2> QED BY <2>1, <2>2, LosesBehind
<1> QED
    BY <1>1, <1>2, <1>3, <1>4 DEF Backend

LEMMA TraceNextHolds == TraceInv /\ [TraceNext]_traceVars => TraceInv'
<1> SUFFICES ASSUME TraceInv, [TraceNext]_traceVars PROVE TraceInv'
    OBVIOUS
<1>1. CASE TraceStep /\ Watch
    BY <1>1, TraceStepHolds
<1>2. CASE Backend /\ Watch
    BY <1>2, TraceBackendHolds
<1>3. CASE (DatadogDelete \/ HeliconeDelete) /\ Watch
    BY <1>3, UngovernedHonestly DEF DatadogDelete, HeliconeDelete
<1>4. CASE (\E c \in Calls : Begin(c)) /\ Watch
    BY <1>4, BeginsHonestly
<1>5. CASE UNCHANGED traceVars
    <2>1. /\ kind' = kind /\ target' = target /\ field' = field /\ route' = route
          /\ stored' = stored /\ row' = row /\ doomed' = doomed /\ ingests' = ingests
          /\ calls' = calls /\ op' = op /\ answer' = answer /\ saw' = saw
        BY <1>5 DEF traceVars
    <2>2. Held' = Held
        BY <2>1 DEF Held
    <2>3. TracesTyped' /\ StepsOfKinds'
        BY <2>1 DEF TraceInv, TracesTyped, StepsOfKinds
    <2>4. Promises' /\ HistoryIsKept'
        BY <2>1, <2>2 DEF TraceInv, Promises, HistoryIsKept
    <2>5. NothingSlipsBetweenPages'
        BY <2>1 DEF TraceInv, NothingSlipsBetweenPages
    <2>6. AnswersAreHonest'
        BY <2>1 DEF TraceInv, AnswersAreHonest, ReadsAreHonest, PurgesAreHonest
    <2> QED BY <2>3, <2>4, <2>5, <2>6 DEF TraceInv
<1> QED
    BY <1>1, <1>2, <1>3, <1>4, <1>5 DEF TraceNext

\* Whatever a trace backend ingests, expires or applies between two of their requests,
\* search, fetch and delete never call a trace absent that was there throughout, nor
\* refuse a listing that was within their reach, nor claim or disclaim a deletion
\* wrongly: LangfuseObservability._tenant_traces and the capped listings of the others.
THEOREM TracesAnswerHonestly == TraceSpec => []AnswersAreHonest
<1>1. TraceInit => TraceInv
    BY TraceInitHolds
<1>2. TraceInv /\ [TraceNext]_traceVars => TraceInv'
    BY TraceNextHolds
<1>3. TraceInv => AnswersAreHonest
    BY DEF TraceInv
<1> QED
    BY <1>1, <1>2, <1>3, PTL DEF TraceSpec

-----------------------------------------------------------------------------
(* Agents. *)

Messages == [who : {"user", "agent"}, run : 1..MaxRuns, tenant : Tenants, whole : BOOLEAN]
Statuses == {"none", "in_progress", "requires_action", "completed", "incomplete", "failed"}
Turns ==
    [at : {"rest", "start", "create", "post", "run", "poll", "read", "loop"},
     tenant : Nat, run : 0..MaxRuns, place : Nat, tries : Nat]
Givens == [is : {"none", "returned", "raised"}, text : Messages \cup {NoText}]

AgentTyped ==
    /\ runs \in 0..MaxRuns
    /\ threads \in [Tenants -> 0..MaxRuns]
    /\ talk \in [Places -> Seq(Messages)]
    /\ active \in [Places -> 0..MaxRuns]
    /\ service \in [1..MaxRuns -> [status : Statuses, tenant : Tenants \cup {0}]]
    /\ turn \in [Workers -> Turns]
    /\ given \in [Workers -> Givens]

\* own[n] is the tenant of run n.  Two workers are never in the same run.
RunsAreOwned(own) ==
    /\ \A w \in Workers : turn[w].at # "rest" =>
          turn[w].run \in 1..runs /\ turn[w].tenant \in Tenants /\ own[turn[w].run] = turn[w].tenant
    /\ \A v, w \in Workers : turn[v].at # "rest" /\ turn[w].at # "rest" /\ turn[v].run = turn[w].run
          => v = w
    /\ \A n \in 1..runs : own[n] \in Tenants

\* A thread has the tenant of the run that created it, whoever writes to it or runs on it.
ThreadsAreOwned(own) ==
    framework = "openai" =>
        /\ \A t \in Tenants : threads[t] # 0 => threads[t] \in 1..runs /\ own[threads[t]] = t
        /\ \A w \in Workers : turn[w].at \in {"post", "run", "poll", "read"} =>
              turn[w].place \in 1..runs /\ own[turn[w].place] = turn[w].tenant
        /\ \A p \in Places : active[p] # 0 =>
              p \in 1..runs /\ active[p] \in 1..runs /\ own[active[p]] = own[p]
        /\ \A p \in Places : \A i \in DOMAIN talk[p] : p \in 1..runs /\ talk[p][i].tenant = own[p]

\* Elsewhere a history is the tenant's own, and all of it whole.
HistoriesAreOwned ==
    framework # "openai" =>
        \A p \in Places : \A i \in DOMAIN talk[p] : talk[p][i].tenant = p /\ talk[p][i].whole

\* How far the service is with a run, and what that says of the worker that polls it
\* and of the messages it left: a part of an answer is only ever that of an incomplete run.
ServiceKeepsTo(own) ==
    /\ \A n \in 1..MaxRuns : framework # "openai" \/ n > runs => service[n].status = "none"
    /\ \A n \in 1..MaxRuns : service[n].status \in {"in_progress", "requires_action"} =>
          service[n].tenant = own[n] /\ \E p \in Places : active[p] = n
    /\ \A w \in Workers :
          /\ turn[w].at \in {"start", "create", "post", "run"} => service[turn[w].run].status = "none"
          /\ turn[w].at = "poll" => service[turn[w].run].status # "none"
          /\ turn[w].at = "read" => service[turn[w].run].status = "completed"
    /\ \A p \in Places : \A i \in DOMAIN talk[p] :
          ~talk[p][i].whole => service[talk[p][i].run].status = "incomplete"

AgentHolds(own) ==
    /\ own \in [1..MaxRuns -> Tenants \cup {0}]
    /\ AgentTyped /\ HistoriesAreOwned /\ AnswerIsTheAgents
    /\ RunsAreOwned(own) /\ ThreadsAreOwned(own) /\ ServiceKeepsTo(own)

AgentInv == \E own : AgentHolds(own)

-----------------------------------------------------------------------------
\* A set of places of a sequence has a last one.
LEMMA LastOne ==
    ASSUME NEW n \in Nat, NEW at \in SUBSET (1..n), at # {}
    PROVE  \E i \in at : \A j \in at : j <= i
<1> DEFINE R == OpToRel(<, Nat)
           T == {n - i : i \in at}
<1>1. IsWellFoundedOn(R, Nat)
    BY NatLessThanWellFounded
<1>2. T \subseteq Nat /\ T # {}
    <2>1. \A i \in at : n - i \in Nat
        OBVIOUS
    <2>2. PICK i \in at : TRUE
        OBVIOUS
    <2>3. n - i \in T
        OBVIOUS
    <2> QED BY <2>1, <2>3
<1>3. PICK x \in T : \A y \in T : ~(<<y, x>> \in R)
    <2> HIDE DEF R, T
    <2> QED BY <1>1, <1>2, WFMin
<1>4. PICK i \in at : x = n - i
    BY <1>3
<1>5. ASSUME NEW j \in at PROVE j <= i
    <2>1. n - j \in T /\ n - j \in Nat /\ x \in Nat
        BY <1>2
    <2>2. ~(n - j < x)
        BY <2>1, <1>3 DEF OpToRel
    <2> QED BY <2>2, <1>4
<1> QED
    BY <1>5

LEMMA LatestSpoke ==
    ASSUME NEW S, NEW s \in Seq(S), NEW who
    PROVE  \/ Latest(s, who) = NoText
           \/ \E i \in DOMAIN s : Latest(s, who) = s[i] /\ s[i].who = who
<1> DEFINE at == {i \in DOMAIN s : s[i].who = who}
<1>1. CASE at = {}
    BY <1>1 DEF Latest
<1>2. CASE at # {}
    <2>1. Len(s) \in Nat /\ DOMAIN s = 1..Len(s)
        BY LenProperties
    <2>2. \E i \in at : \A j \in at : j <= i
        BY <2>1, <1>2, LastOne
    <2> DEFINE last == CHOOSE i \in at : \A j \in at : j <= i
    <2>3. last \in at
        BY <2>2
    <2>4. Latest(s, who) = s[last]
        BY <1>2 DEF Latest
    <2> QED BY <2>3, <2>4
<1> QED
    BY <1>1, <1>2

\* What may come back to a worker in turn r.
MayReturn(r, g) ==
    g.is = "returned" /\ g.text # NoText =>
        /\ g.text.who = "agent" \/ framework = "autogen"
        /\ g.text.run = r.run => g.text.whole
        /\ g.text.tenant = r.tenant

\* A run of a worker goes on or ends: it stays the same run of the same tenant.
LEMMA SameRun ==
    ASSUME NEW own, AgentHolds(own), NEW w \in Workers, turn[w].at # "rest",
           NEW r \in Turns, r.run = turn[w].run, r.tenant = turn[w].tenant,
           NEW g \in Givens, MayReturn(turn[w], g),
           turn' = [turn EXCEPT ![w] = r],
           given' = given \/ given' = [given EXCEPT ![w] = g],
           runs' = runs, framework' = framework
    PROVE  /\ RunsAreOwned(own)' /\ AnswerIsTheAgents'
           /\ turn' \in [Workers -> Turns] /\ given' \in [Workers -> Givens]
           /\ turn'[w] = r /\ \A v \in Workers : v # w => turn'[v] = turn[v]
<1>1. /\ RunsAreOwned(own) /\ turn \in [Workers -> Turns] /\ given \in [Workers -> Givens]
      /\ AnswerIsTheAgents
    BY DEF AgentHolds, AgentTyped
<1>2. turn'[w] = r /\ \A v \in Workers : v # w => turn'[v] = turn[v]
    BY <1>1
<1>3. turn' \in [Workers -> Turns] /\ given' \in [Workers -> Givens]
    BY <1>1
<1>4. \A v \in Workers : turn'[v].run = turn[v].run /\ turn'[v].tenant = turn[v].tenant
                         /\ (turn'[v].at # "rest" => turn[v].at # "rest")
    BY <1>2
<1>5. RunsAreOwned(own)'
    BY <1>1, <1>4 DEF RunsAreOwned
<1>6. \A v \in Workers : given'[v] = given[v] \/ (v = w /\ given'[v] = g)
    BY <1>1
<1>7. AnswerIsTheAgents'
    <2> SUFFICES ASSUME NEW v \in Workers, given'[v].is = "returned", given'[v].text # NoText
                 PROVE  /\ given'[v].text.who = "agent" \/ framework' = "autogen"
                        /\ given'[v].text.run = turn'[v].run => given'[v].text.whole
                        /\ given'[v].text.tenant = turn'[v].tenant
        BY DEF AnswerIsTheAgents
    <2>1. CASE given'[v] = given[v]
        BY <2>1, <1>1, <1>4 DEF AnswerIsTheAgents
    <2>2. CASE v = w /\ given'[v] = g
        BY <2>2, <1>4 DEF MayReturn
    <2> QED BY <1>6, <2>1, <2>2
<1> QED
    BY <1>2, <1>3, <1>5, <1>7

\* A step of a worker that leaves the service and the conversations alone.
LEMMA StepsAside ==
    ASSUME NEW own, AgentHolds(own), NEW w \in Workers, turn[w].at # "rest",
           NEW r \in Turns, r.run = turn[w].run, r.tenant = turn[w].tenant,
           NEW g \in Givens, MayReturn(turn[w], g),
           turn' = [turn EXCEPT ![w] = r],
           given' = given \/ given' = [given EXCEPT ![w] = g],
           UNCHANGED <<framework, threads, remote, talk, runs>>,
           framework = "openai" /\ r.at \in {"post", "run", "poll", "read"} =>
              r.place \in 1..runs /\ own[r.place] = r.tenant,
           r.at \in {"start", "create", "post", "run"} => service[r.run].status = "none",
           r.at = "poll" => service[r.run].status # "none",
           r.at = "read" => service[r.run].status = "completed"
    PROVE  AgentHolds(own)'
<1>1. /\ framework' = framework /\ threads' = threads /\ active' = active /\ service' = service
      /\ talk' = talk /\ runs' = runs
    BY DEF remote
<1>2. /\ AgentTyped /\ HistoriesAreOwned /\ ThreadsAreOwned(own) /\ ServiceKeepsTo(own)
      /\ own \in [1..MaxRuns -> Tenants \cup {0}]
    BY DEF AgentHolds
<1>3. /\ RunsAreOwned(own)' /\ AnswerIsTheAgents'
      /\ turn' \in [Workers -> Turns] /\ given' \in [Workers -> Givens]
      /\ turn'[w] = r /\ \A v \in Workers : v # w => turn'[v] = turn[v]
    BY <1>1, SameRun
<1>4. AgentTyped'
    BY <1>1, <1>2, <1>3 DEF AgentTyped
<1>5. HistoriesAreOwned'
    BY <1>1, <1>2 DEF HistoriesAreOwned
<1>6. ThreadsAreOwned(own)'
    BY <1>1, <1>2, <1>3 DEF ThreadsAreOwned
<1>7. ServiceKeepsTo(own)'
    <2>1. \A v \in Workers :
            /\ turn'[v].at \in {"start", "create", "post", "run"} => service[turn'[v].run].status = "none"
            /\ turn'[v].at = "poll" => service[turn'[v].run].status # "none"
            /\ turn'[v].at = "read" => service[turn'[v].run].status = "completed"
        BY <1>2, <1>3 DEF ServiceKeepsTo
    <2> QED BY <2>1, <1>1, <1>2 DEF ServiceKeepsTo
<1> QED
    BY <1>2, <1>3, <1>4, <1>5, <1>6, <1>7 DEF AgentHolds

\* A run ends, by an answer or by none.
LEMMA EndsIn ==
    ASSUME NEW own, AgentHolds(own), NEW w \in Workers, turn[w].at # "rest",
           NEW g \in Givens, MayReturn(turn[w], g),
           turn' = [turn EXCEPT ![w].at = "rest"], given' = [given EXCEPT ![w] = g],
           UNCHANGED <<framework, threads, remote, talk, runs>>
    PROVE  AgentHolds(own)'
<1> DEFINE r == [turn[w] EXCEPT !.at = "rest"]
<1>1. turn \in [Workers -> Turns]
    BY DEF AgentHolds, AgentTyped
<1>2. r \in Turns /\ r.run = turn[w].run /\ r.tenant = turn[w].tenant /\ r.at = "rest"
    BY <1>1 DEF Turns
<1>3. turn' = [turn EXCEPT ![w] = r]
    BY <1>1
<1> HIDE DEF r
<1> QED
    BY <1>2, <1>3, StepsAside

\* A conversation that an adapter or a checkpointer keeps of a tenant becomes s.
LEMMA Remembers ==
    ASSUME NEW own, AgentHolds(own), NEW w \in Workers, turn[w].at # "rest",
           framework # "openai",
           NEW r \in Turns, r.run = turn[w].run, r.tenant = turn[w].tenant,
           r.at \in {"rest", "loop"},
           NEW g \in Givens, MayReturn(turn[w], g),
           turn' = [turn EXCEPT ![w] = r],
           given' = given \/ given' = [given EXCEPT ![w] = g],
           UNCHANGED <<framework, threads, remote, runs>>,
           NEW s \in Seq(Messages), talk' = [talk EXCEPT ![turn[w].tenant] = s],
           \A i \in DOMAIN s : s[i].tenant = turn[w].tenant /\ s[i].whole
    PROVE  AgentHolds(own)'
<1>1. /\ framework' = framework /\ threads' = threads /\ active' = active /\ service' = service
      /\ runs' = runs
    BY DEF remote
<1>2. /\ AgentTyped /\ HistoriesAreOwned /\ ThreadsAreOwned(own) /\ ServiceKeepsTo(own)
      /\ own \in [1..MaxRuns -> Tenants \cup {0}] /\ talk \in [Places -> Seq(Messages)]
    BY DEF AgentHolds, AgentTyped
<1>3. /\ RunsAreOwned(own)' /\ AnswerIsTheAgents'
      /\ turn' \in [Workers -> Turns] /\ given' \in [Workers -> Givens]
      /\ turn'[w] = r /\ \A v \in Workers : v # w => turn'[v] = turn[v]
    BY <1>1, SameRun
<1>4. talk' \in [Places -> Seq(Messages)]
    BY <1>2
<1>5. AgentTyped'
    BY <1>1, <1>2, <1>3, <1>4 DEF AgentTyped
<1>6. \A p \in Places : talk'[p] = talk[p] \/ (p = turn[w].tenant /\ talk'[p] = s)
    BY <1>2
<1>7. \A p \in Places : \A i \in DOMAIN talk'[p] : talk'[p][i].tenant = p /\ talk'[p][i].whole
    <2> SUFFICES ASSUME NEW p \in Places, NEW i \in DOMAIN talk'[p]
                 PROVE  talk'[p][i].tenant = p /\ talk'[p][i].whole
        OBVIOUS
    <2>1. CASE talk'[p] = talk[p]
        BY <2>1, <1>2 DEF HistoriesAreOwned
    <2>2. CASE p = turn[w].tenant /\ talk'[p] = s
        BY <2>2
    <2> QED BY <1>6, <2>1, <2>2
<1>8. HistoriesAreOwned'
    BY <1>7 DEF HistoriesAreOwned
<1>9. ThreadsAreOwned(own)'
    BY <1>1 DEF ThreadsAreOwned
<1>10. ServiceKeepsTo(own)'
    <2>1. \A v \in Workers :
            /\ turn'[v].at \in {"start", "create", "post", "run"} => service[turn'[v].run].status = "none"
            /\ turn'[v].at = "poll" => service[turn'[v].run].status # "none"
            /\ turn'[v].at = "read" => service[turn'[v].run].status = "completed"
        BY <1>2, <1>3 DEF ServiceKeepsTo
    <2>2. \A p \in Places : \A i \in DOMAIN talk'[p] :
             ~talk'[p][i].whole => service[talk'[p][i].run].status = "incomplete"
        BY <1>7
    <2> QED BY <2>1, <2>2, <1>1, <1>2 DEF ServiceKeepsTo
<1> QED
    BY <1>2, <1>3, <1>5, <1>8, <1>9, <1>10 DEF AgentHolds

\* What a worker in a run may say and be given.
LEMMA OwnMessage ==
    ASSUME NEW own, AgentHolds(own), NEW w \in Workers, turn[w].at # "rest"
    PROVE  /\ turn[w] \in Turns /\ turn[w].run \in 1..runs /\ turn[w].run \in 1..MaxRuns
           /\ turn[w].tenant \in Tenants /\ turn[w].tenant # 0 /\ own[turn[w].run] = turn[w].tenant
           /\ runs \in 0..MaxRuns
           /\ \A who \in {"user", "agent"} : Message(who, w, TRUE) \in Messages
           /\ Message("agent", w, TRUE) # NoText
<1>1. turn \in [Workers -> Turns] /\ runs \in 0..MaxRuns /\ RunsAreOwned(own)
    BY DEF AgentHolds, AgentTyped
<1>2. /\ turn[w].run \in 1..runs /\ turn[w].tenant \in Tenants
      /\ own[turn[w].run] = turn[w].tenant
    BY <1>1 DEF RunsAreOwned
<1>3. turn[w].run \in 1..MaxRuns
    BY <1>1, <1>2, RunsAssumed
<1>4. turn[w].tenant # 0
    BY <1>2, TenantsAssumed
<1>5. \A who \in {"user", "agent"} : Message(who, w, TRUE) \in Messages
    BY <1>2, <1>3 DEF Message, Messages
<1>6. Message("agent", w, TRUE).who = "agent" /\ NoText.who = "nobody"
    BY DEF Message, NoText
<1> QED
    BY <1>1, <1>2, <1>3, <1>4, <1>5, <1>6

LEMMA RaiseHolds ==
    ASSUME NEW own, AgentHolds(own), NEW w \in Workers, turn[w].at # "rest", RunRaises(w),
           UNCHANGED <<framework, threads, remote, talk, runs>>
    PROVE  AgentHolds(own)'
<1> DEFINE g == Outcome("raised", NoText)
<1>1. g \in Givens /\ MayReturn(turn[w], g)
    BY DEF Givens, Outcome, MayReturn
<1>2. turn' = [turn EXCEPT ![w].at = "rest"] /\ given' = [given EXCEPT ![w] = g]
    BY DEF RunRaises
<1> HIDE DEF g
<1> QED
    BY <1>1, <1>2, EndsIn

LEMMA ReturnHolds ==
    ASSUME NEW own, AgentHolds(own), NEW w \in Workers, turn[w].at # "rest",
           NEW text \in Messages \cup {NoText}, RunReturns(w, text),
           text # NoText =>
              /\ text.who = "agent" \/ framework = "autogen"
              /\ text.run = turn[w].run => text.whole
              /\ text.tenant = turn[w].tenant,
           UNCHANGED <<framework, threads, remote, talk, runs>>
    PROVE  AgentHolds(own)'
<1> DEFINE g == Outcome("returned", text)
<1>1. g \in Givens /\ MayReturn(turn[w], g)
    BY DEF Givens, Outcome, MayReturn
<1>2. turn' = [turn EXCEPT ![w].at = "rest"] /\ given' = [given EXCEPT ![w] = g]
    BY DEF RunReturns
<1> HIDE DEF g
<1> QED
    BY <1>1, <1>2, EndsIn

\* The text is empty, or the agent's of this very run.
LEMMA ReturnedOwn ==
    ASSUME NEW own, AgentHolds(own), NEW w \in Workers, turn[w].at # "rest",
           NEW text \in {NoText, Message("agent", w, TRUE)}, RunReturns(w, text),
           UNCHANGED <<framework, threads, remote, talk, runs>>
    PROVE  AgentHolds(own)'
<1>1. Message("agent", w, TRUE) \in Messages
    BY OwnMessage
<1>2. text \in Messages \cup {NoText}
    BY <1>1
<1>3. text # NoText => /\ text.who = "agent" /\ text.whole /\ text.tenant = turn[w].tenant
    BY DEF Message
<1> QED
    BY <1>2, <1>3, ReturnHolds

-----------------------------------------------------------------------------
(* The frameworks that are one call. *)

LEMMA OneCallRaisesHolds ==
    ASSUME NEW own, AgentHolds(own), NEW w \in Workers, OneCallRaises(w)
    PROVE  AgentHolds(own)'
BY RaiseHolds DEF OneCallRaises

LEMMA CrewaiRunHolds ==
    ASSUME NEW own, AgentHolds(own), NEW w \in Workers, CrewaiRun(w)
    PROVE  AgentHolds(own)'
<1>1. PICK text \in {NoText, Message("agent", w, TRUE)}, last \in {NoText, Message("agent", w, TRUE)} :
        RunReturns(w, CrewaiFinalText(text, last))
    BY DEF CrewaiRun
<1>2. CrewaiFinalText(text, last) \in {NoText, Message("agent", w, TRUE)}
    BY DEF CrewaiFinalText
<1>3. turn[w].at # "rest" /\ UNCHANGED <<framework, threads, remote, talk, runs>>
    BY DEF CrewaiRun
<1> QED
    BY <1>1, <1>2, <1>3, ReturnedOwn

LEMMA HttpRunHolds ==
    ASSUME NEW own, AgentHolds(own), NEW w \in Workers, HttpRun(w)
    PROVE  AgentHolds(own)'
<1>1. PICK text \in {NoText, Message("agent", w, TRUE)} : RunReturns(w, text)
    BY DEF HttpRun
<1>2. turn[w].at # "rest" /\ UNCHANGED <<framework, threads, remote, talk, runs>>
    BY DEF HttpRun
<1> QED
    BY <1>1, <1>2, ReturnedOwn

\* A chat of one run has no message of another tenant, and none cut short.
LEMMA AutogenRunHolds ==
    ASSUME NEW own, AgentHolds(own), NEW w \in Workers, AutogenRun(w)
    PROVE  AgentHolds(own)'
<1> DEFINE task   == Message("user", w, TRUE)
           reply == Message("agent", w, TRUE)
<1>1. /\ turn[w].at # "rest" /\ framework = "autogen"
      /\ UNCHANGED <<framework, threads, remote, talk, runs>>
    BY DEF AutogenRun
<1>2. task \in Messages /\ reply \in Messages
    BY <1>1, OwnMessage
<1>3. /\ task.tenant = turn[w].tenant /\ task.whole
      /\ reply.tenant = turn[w].tenant /\ reply.whole
    BY DEF Message
<1>4. PICK replied \in BOOLEAN, named \in BOOLEAN :
        RunReturns(w, AutogenFinalText(IF replied THEN <<task, reply>> ELSE <<task>>, named))
    BY DEF AutogenRun
<1> DEFINE chat == IF replied THEN <<task, reply>> ELSE <<task>>
<1> HIDE DEF task, reply
<1>5. chat \in Seq(Messages) /\ \A i \in DOMAIN chat : chat[i] \in {task, reply}
    BY <1>2
<1> HIDE DEF chat
<1>6. \A who : Latest(chat, who) = NoText \/ Latest(chat, who) \in {task, reply}
    <2> TAKE who
    <2>1. \/ Latest(chat, who) = NoText
          \/ \E i \in DOMAIN chat : Latest(chat, who) = chat[i] /\ chat[i].who = who
        BY <1>5, LatestSpoke
    <2> QED BY <2>1, <1>5
<1> DEFINE text == AutogenFinalText(chat, named)
<1>7. text \in {NoText, task, reply}
    BY <1>6, Zenon DEF AutogenFinalText
<1>8. RunReturns(w, text)
    BY <1>4 DEF chat
<1> HIDE DEF text
<1>9. text \in Messages \cup {NoText}
    BY <1>7, <1>2
<1> QED
    BY <1>1, <1>3, <1>7, <1>8, <1>9, ReturnHolds

\* The answer read off a graph's messages is its last one, the agent's of this run.
LEMMA LanggraphRunHolds ==
    ASSUME NEW own, AgentHolds(own), NEW w \in Workers, LanggraphRun(w)
    PROVE  AgentHolds(own)'
<1> DEFINE task   == Message("user", w, TRUE)
           reply == Message("agent", w, TRUE)
           tenant == turn[w].tenant
<1>1. /\ turn[w].at # "rest" /\ framework = "langgraph"
      /\ UNCHANGED <<framework, threads, remote, runs>>
    BY DEF LanggraphRun
<1>2. /\ task \in Messages /\ reply \in Messages /\ tenant \in Tenants /\ tenant \in Places
    BY <1>1, OwnMessage DEF Places
<1>3. /\ task.tenant = tenant /\ task.whole /\ task.who = "user"
      /\ reply.tenant = tenant /\ reply.whole /\ reply.who = "agent"
    BY DEF Message
<1>4. talk[tenant] \in Seq(Messages)
    BY <1>2 DEF AgentHolds, AgentTyped
<1>5. \A i \in DOMAIN talk[tenant] : talk[tenant][i].tenant = tenant /\ talk[tenant][i].whole
    BY <1>1, <1>2 DEF AgentHolds, HistoriesAreOwned
<1>6. PICK kept \in BOOLEAN :
        LET before == IF kept THEN talk[tenant] ELSE <<>>
            all    == before \o <<task, reply>>
        IN  /\ RunReturns(w, LanggraphFinalText(all))
            /\ talk' = IF kept THEN [talk EXCEPT ![tenant] = all] ELSE talk
    BY DEF LanggraphRun
<1> DEFINE before == IF kept THEN talk[tenant] ELSE <<>>
           all    == before \o <<task, reply>>
           text   == LanggraphFinalText(all)
<1>7. RunReturns(w, text) /\ talk' = IF kept THEN [talk EXCEPT ![tenant] = all] ELSE talk
    BY <1>6
<1>8. before \in Seq(Messages) /\ \A i \in DOMAIN before : before[i].tenant = tenant /\ before[i].whole
    BY <1>4, <1>5
<1> HIDE DEF before, task, reply, tenant
<1>9. /\ all \in Seq(Messages)
      /\ \A i \in DOMAIN all : (i \in DOMAIN before /\ all[i] = before[i]) \/ all[i] \in {task, reply}
    BY <1>2, <1>8
<1>10. \A i \in DOMAIN all : all[i].tenant = tenant /\ all[i].whole
    BY <1>3, <1>8, <1>9
<1> HIDE DEF all
<1>11. \/ text = NoText
       \/ \E i \in DOMAIN all : text = all[i] /\ all[i].who = "agent"
    BY <1>9, LatestSpoke DEF LanggraphFinalText
<1>12. text # NoText => text.who = "agent" /\ text.tenant = tenant /\ text.whole
    BY <1>10, <1>11
<1>13. text \in Messages \cup {NoText}
    BY <1>9, <1>11, ElementOfSeq
<1> HIDE DEF text
<1>14. CASE ~kept
    <2>1. UNCHANGED <<framework, threads, remote, talk, runs>>
        BY <1>1, <1>7, <1>14
    <2> QED BY <2>1, <1>1, <1>7, <1>12, <1>13, ReturnHolds DEF tenant
<1>15. CASE kept
    <2> DEFINE r == [turn[w] EXCEPT !.at = "rest"]
               g == Outcome("returned", text)
    <2>1. g \in Givens /\ MayReturn(turn[w], g)
        BY <1>12, <1>13 DEF Givens, Outcome, MayReturn, tenant
    <2>2. turn \in [Workers -> Turns]
        BY DEF AgentHolds, AgentTyped
    <2>3. r \in Turns /\ r.run = turn[w].run /\ r.tenant = turn[w].tenant /\ r.at = "rest"
        BY <2>2 DEF Turns
    <2>4. turn' = [turn EXCEPT ![w] = r] /\ given' = [given EXCEPT ![w] = g]
        BY <1>7, <2>2 DEF RunReturns
    <2>5. talk' = [talk EXCEPT ![turn[w].tenant] = all]
        BY <1>7, <1>15 DEF tenant
    <2> HIDE DEF r, g
    <2>6. \A i \in DOMAIN all : all[i].tenant = turn[w].tenant /\ all[i].whole
        BY <1>10 DEF tenant
    <2> QED BY <1>1, <1>9, <2>1, <2>3, <2>4, <2>5, <2>6, Remembers
<1> QED
    BY <1>14, <1>15

-----------------------------------------------------------------------------
(* anthropic *)

LEMMA AppendTaskHolds ==
    ASSUME NEW own, AgentHolds(own), NEW w \in Workers, AppendTask(w)
    PROVE  AgentHolds(own)'
<1> DEFINE task   == Message("user", w, TRUE)
           tenant == turn[w].tenant
           s      == Append(talk[tenant], task)
           r      == [turn[w] EXCEPT !.at = "loop"]
           g      == Outcome("none", NoText)
<1>1. /\ turn[w].at # "rest" /\ framework = "anthropic" /\ given' = given
      /\ UNCHANGED <<framework, threads, remote, runs>>
    BY DEF AppendTask
<1>2. /\ task \in Messages /\ tenant \in Places /\ turn[w] \in Turns
      /\ task.tenant = tenant /\ task.whole
    BY <1>1, OwnMessage DEF Places, Message
<1>3. talk[tenant] \in Seq(Messages) /\ talk \in [Places -> Seq(Messages)]
      /\ turn \in [Workers -> Turns]
    BY <1>2 DEF AgentHolds, AgentTyped
<1>4. \A i \in DOMAIN talk[tenant] : talk[tenant][i].tenant = tenant /\ talk[tenant][i].whole
    BY <1>1, <1>2 DEF AgentHolds, HistoriesAreOwned
<1>5. r \in Turns /\ r.run = turn[w].run /\ r.tenant = tenant /\ r.at = "loop"
    BY <1>2 DEF Turns
<1>6. g \in Givens /\ MayReturn(turn[w], g)
    BY DEF Givens, Outcome, MayReturn
<1>7. turn' = [turn EXCEPT ![w] = r] /\ talk' = [talk EXCEPT ![tenant] = s]
    BY <1>2, <1>3 DEF AppendTask, Go
<1> HIDE DEF task
<1>8. s \in Seq(Messages) /\ \A i \in DOMAIN s : s[i].tenant = tenant /\ s[i].whole
    <2>1. \A i \in DOMAIN s : (i \in DOMAIN talk[tenant] /\ s[i] = talk[tenant][i]) \/ s[i] = task
        BY <1>2, <1>3
    <2> QED BY <2>1, <1>2, <1>3, <1>4
<1> HIDE DEF s, r, g
<1> QED
    BY <1>1, <1>5, <1>6, <1>7, <1>8, Remembers

LEMMA AnswerTaskHolds ==
    ASSUME NEW own, AgentHolds(own), NEW w \in Workers, AnswerTask(w)
    PROVE  AgentHolds(own)'
<1> DEFINE reply == Message("agent", w, TRUE)
           tenant == turn[w].tenant
           s      == Append(talk[tenant], reply)
           r      == [turn[w] EXCEPT !.at = "rest"]
           g      == Outcome("returned", reply)
<1>1. /\ turn[w].at # "rest" /\ framework = "anthropic"
      /\ UNCHANGED <<framework, threads, remote, runs>>
    BY DEF AnswerTask
<1>2. CASE RunReturns(w, NoText) /\ UNCHANGED talk
    <2>1. NoText \in {NoText, Message("agent", w, TRUE)}
        OBVIOUS
    <2> QED BY <2>1, <1>1, <1>2, ReturnedOwn
<1>3. CASE /\ RunReturns(w, reply)
           /\ talk' = [talk EXCEPT ![tenant] = Append(@, reply)]
    <2>1. /\ reply \in Messages /\ tenant \in Places /\ turn[w] \in Turns
          /\ reply.tenant = tenant /\ reply.whole /\ reply.who = "agent"
        BY <1>1, OwnMessage DEF Places, Message
    <2>2. talk[tenant] \in Seq(Messages) /\ talk \in [Places -> Seq(Messages)]
          /\ turn \in [Workers -> Turns]
        BY <2>1 DEF AgentHolds, AgentTyped
    <2>3. \A i \in DOMAIN talk[tenant] : talk[tenant][i].tenant = tenant /\ talk[tenant][i].whole
        BY <1>1, <2>1 DEF AgentHolds, HistoriesAreOwned
    <2>4. r \in Turns /\ r.run = turn[w].run /\ r.tenant = tenant /\ r.at = "rest"
        BY <2>1 DEF Turns
    <2>5. turn' = [turn EXCEPT ![w] = r] /\ talk' = [talk EXCEPT ![tenant] = s]
          /\ given' = [given EXCEPT ![w] = g]
        BY <1>3, <2>1, <2>2 DEF RunReturns
    <2> HIDE DEF reply
    <2>6. g \in Givens /\ MayReturn(turn[w], g)
        BY <2>1 DEF Givens, Outcome, MayReturn
    <2>7. s \in Seq(Messages) /\ \A i \in DOMAIN s : s[i].tenant = tenant /\ s[i].whole
        <3>1. \A i \in DOMAIN s : (i \in DOMAIN talk[tenant] /\ s[i] = talk[tenant][i]) \/ s[i] = reply
            BY <2>1, <2>2
        <3> QED BY <3>1, <2>1, <2>2, <2>3
    <2> HIDE DEF s, r, g
    <2> QED BY <1>1, <2>4, <2>5, <2>6, <2>7, Remembers
<1> QED
    BY <1>2, <1>3 DEF AnswerTask

LEMMA CallToolsHolds ==
    ASSUME NEW own, AgentHolds(own), NEW w \in Workers, CallTools(w)
    PROVE  AgentHolds(own)'
<1> DEFINE r == [turn[w] EXCEPT !.tries = @ + 1]
           g == Outcome("none", NoText)
<1>1. /\ turn[w].at = "loop" /\ framework = "anthropic" /\ given' = given
      /\ UNCHANGED <<framework, threads, remote, talk, runs>>
    BY DEF CallTools
<1>2. turn[w] \in Turns /\ turn \in [Workers -> Turns]
    BY DEF AgentHolds, AgentTyped
<1>3. r \in Turns /\ r.run = turn[w].run /\ r.tenant = turn[w].tenant /\ r.at = "loop"
    BY <1>1, <1>2 DEF Turns
<1>4. g \in Givens /\ MayReturn(turn[w], g)
    BY DEF Givens, Outcome, MayReturn
<1>5. turn' = [turn EXCEPT ![w] = r]
    BY <1>2 DEF CallTools
<1> HIDE DEF r, g
<1> QED
    BY <1>1, <1>3, <1>4, <1>5, StepsAside

\* The task goes, or whatever is last where two runs of a tenant overlap.
LEMMA RollBackHolds ==
    ASSUME NEW own, AgentHolds(own), NEW w \in Workers, RollBack(w)
    PROVE  AgentHolds(own)'
<1> DEFINE tenant == turn[w].tenant
           s      == SubSeq(talk[tenant], 1, Len(talk[tenant]) - 1)
           r      == [turn[w] EXCEPT !.at = "rest"]
           g      == Outcome("raised", NoText)
<1>1. /\ turn[w].at # "rest" /\ framework = "anthropic"
      /\ UNCHANGED <<framework, threads, remote, runs>>
    BY DEF RollBack
<1>2. tenant \in Places /\ turn[w] \in Turns
    BY <1>1, OwnMessage DEF Places
<1>3. talk[tenant] \in Seq(Messages) /\ talk \in [Places -> Seq(Messages)]
      /\ turn \in [Workers -> Turns]
    BY <1>2 DEF AgentHolds, AgentTyped
<1>4. \A i \in DOMAIN talk[tenant] : talk[tenant][i].tenant = tenant /\ talk[tenant][i].whole
    BY <1>1, <1>2 DEF AgentHolds, HistoriesAreOwned
<1>5. r \in Turns /\ r.run = turn[w].run /\ r.tenant = tenant /\ r.at = "rest"
    BY <1>2 DEF Turns
<1>6. g \in Givens /\ MayReturn(turn[w], g)
    BY DEF Givens, Outcome, MayReturn
<1>7. turn' = [turn EXCEPT ![w] = r] /\ talk' = [talk EXCEPT ![tenant] = s]
      /\ given' = [given EXCEPT ![w] = g]
    BY <1>2, <1>3 DEF RollBack, RunRaises
<1>8. s \in Seq(Messages) /\ \A i \in DOMAIN s : i \in DOMAIN talk[tenant] /\ s[i] = talk[tenant][i]
    <2> DEFINE t == talk[tenant]
    <2> HIDE DEF t
    <2>1. t \in Seq(Messages)
        BY <1>3 DEF t
    <2>2. Len(t) \in Nat /\ DOMAIN t = 1..Len(t)
        BY <2>1, LenProperties
    <2>3. /\ SubSeq(t, 1, Len(t) - 1) \in Seq(Messages)
          /\ \A i \in DOMAIN SubSeq(t, 1, Len(t) - 1) :
                i \in DOMAIN t /\ SubSeq(t, 1, Len(t) - 1)[i] = t[i]
        BY <2>1, <2>2
    <2> QED BY <2>3 DEF t
<1> HIDE DEF s, r, g
<1>9. \A i \in DOMAIN s : s[i].tenant = turn[w].tenant /\ s[i].whole
    BY <1>4, <1>8
<1> QED
    BY <1>1, <1>5, <1>6, <1>7, <1>8, <1>9, Remembers

-----------------------------------------------------------------------------
(* openai *)

LEMMA LookUpThreadHolds ==
    ASSUME NEW own, AgentHolds(own), NEW w \in Workers, LookUpThread(w)
    PROVE  AgentHolds(own)'
<1> DEFINE thread == threads[turn[w].tenant]
           r == [turn[w] EXCEPT !.at = IF thread = 0 THEN "create" ELSE "post",
                                !.place = IF thread = 0 THEN 1 ELSE thread]
           g == Outcome("none", NoText)
<1>1. /\ turn[w].at = "start" /\ framework = "openai" /\ given' = given
      /\ UNCHANGED <<framework, threads, remote, talk, runs>>
    BY DEF LookUpThread
<1>2. turn[w] \in Turns /\ turn \in [Workers -> Turns] /\ turn[w].tenant \in Tenants
    BY <1>1, OwnMessage DEF AgentHolds, AgentTyped
<1>3. thread \in 0..MaxRuns
    BY <1>2 DEF AgentHolds, AgentTyped
<1>4. thread # 0 => thread \in 1..runs /\ own[thread] = turn[w].tenant
    BY <1>1, <1>2 DEF AgentHolds, ThreadsAreOwned
<1>5. service[turn[w].run].status = "none"
    BY <1>1 DEF AgentHolds, ServiceKeepsTo
<1>6. turn' = [turn EXCEPT ![w] = r]
    BY <1>2 DEF LookUpThread
<1> HIDE DEF thread
<1>7. /\ r \in Turns /\ r.run = turn[w].run /\ r.tenant = turn[w].tenant
      /\ r.at = (IF thread = 0 THEN "create" ELSE "post")
      /\ r.place = (IF thread = 0 THEN 1 ELSE thread)
    <2> DEFINE at == IF thread = 0 THEN "create" ELSE "post"
               place == IF thread = 0 THEN 1 ELSE thread
    <2>1. at \in {"create", "post"} /\ place \in Nat
        BY <1>3, RunsAssumed
    <2> HIDE DEF at, place
    <2>2. LET q == [turn[w] EXCEPT !.at = at, !.place = place]
          IN  q \in Turns /\ q.run = turn[w].run /\ q.tenant = turn[w].tenant
              /\ q.at = at /\ q.place = place
        BY <1>2, <2>1 DEF Turns
    <2> QED BY <2>2 DEF at, place
<1>8. g \in Givens /\ MayReturn(turn[w], g)
    BY DEF Givens, Outcome, MayReturn
<1> HIDE DEF r, g
<1>9. r.at \in {"post", "run", "poll", "read"} => r.place \in 1..runs /\ own[r.place] = r.tenant
    BY <1>4, <1>7
<1> QED
    BY <1>1, <1>5, <1>6, <1>7, <1>8, <1>9, StepsAside

\* The newest message of the thread is the tenant's. A part of an answer is not this run's:
\* this run is complete.
LEMMA ReadAnswerHolds ==
    ASSUME NEW own, AgentHolds(own), NEW w \in Workers, ReadAnswer(w)
    PROVE  AgentHolds(own)'
<1> DEFINE place == turn[w].place
           s     == talk[place]
           text  == Latest(s, "agent")
<1>1. /\ turn[w].at = "read" /\ framework = "openai" /\ RunReturns(w, text)
      /\ UNCHANGED <<framework, threads, remote, talk, runs>>
    BY DEF ReadAnswer
<1>2. /\ turn[w] \in Turns /\ place \in 1..runs /\ own[place] = turn[w].tenant
      /\ runs \in 0..MaxRuns
    BY <1>1, OwnMessage DEF AgentHolds, ThreadsAreOwned
<1>3. place \in Places
    BY <1>2, RunsAssumed DEF Places
<1>4. s \in Seq(Messages)
    BY <1>3 DEF AgentHolds, AgentTyped
<1>5. \A i \in DOMAIN s : s[i].tenant = turn[w].tenant
    BY <1>1, <1>2, <1>3 DEF AgentHolds, ThreadsAreOwned
<1>6. \A i \in DOMAIN s : ~s[i].whole => service[s[i].run].status = "incomplete"
    BY <1>3 DEF AgentHolds, ServiceKeepsTo
<1>7. service[turn[w].run].status = "completed"
    BY <1>1 DEF AgentHolds, ServiceKeepsTo
<1> HIDE DEF s
<1>8. text = NoText \/ \E i \in DOMAIN s : text = s[i] /\ s[i].who = "agent"
    BY <1>4, LatestSpoke
<1> HIDE DEF text
<1>9. text \in Messages \cup {NoText}
    BY <1>4, <1>8, ElementOfSeq
<1>10. text # NoText => /\ text.who = "agent" /\ text.tenant = turn[w].tenant
                        /\ text.run = turn[w].run => text.whole
    BY <1>5, <1>6, <1>7, <1>8
<1> QED
    BY <1>1, <1>9, <1>10, ReturnHolds

LEMMA RunFailsHolds ==
    ASSUME NEW own, AgentHolds(own), NEW w \in Workers, RunFails(w)
    PROVE  AgentHolds(own)'
BY RaiseHolds DEF RunFails

\* A worker whose run is one of the service's, and the only one in it.
LEMMA PollHolds ==
    ASSUME NEW own, AgentHolds(own), NEW w \in Workers, Poll(w)
    PROVE  AgentHolds(own)'
<1> DEFINE n == turn[w].run
           status == service[n].status
<1>1. /\ turn[w].at = "poll" /\ framework = "openai"
      /\ framework' = framework /\ threads' = threads /\ active' = active /\ talk' = talk
      /\ runs' = runs
    BY DEF Poll
<1>2. /\ turn[w] \in Turns /\ turn \in [Workers -> Turns] /\ n \in 1..MaxRuns /\ n \in 1..runs
      /\ status # "none"
    BY <1>1, OwnMessage DEF AgentHolds, AgentTyped, ServiceKeepsTo
<1>3. turn[w].place \in 1..runs /\ own[turn[w].place] = turn[w].tenant
    BY <1>1 DEF AgentHolds, ThreadsAreOwned
<1>4. CASE RunRaises(w) /\ UNCHANGED service
    <2>1. turn[w].at # "rest" /\ UNCHANGED <<framework, threads, remote, talk, runs>>
        BY <1>1, <1>4 DEF remote
    <2> QED BY <2>1, <1>4, RaiseHolds
<1>5. CASE status = "completed" /\ Go(w, "read") /\ UNCHANGED <<service, given>>
    <2> DEFINE r == [turn[w] EXCEPT !.at = "read"]
               g == Outcome("none", NoText)
    <2>1. r \in Turns /\ r.run = turn[w].run /\ r.tenant = turn[w].tenant /\ r.at = "read"
          /\ r.place = turn[w].place
        BY <1>2 DEF Turns
    <2>2. turn' = [turn EXCEPT ![w] = r]
        BY <1>2, <1>5 DEF Go
    <2>3. g \in Givens /\ MayReturn(turn[w], g)
        BY DEF Givens, Outcome, MayReturn
    <2>4. UNCHANGED <<framework, threads, remote, talk, runs>> /\ turn[w].at # "rest"
        BY <1>1, <1>5 DEF remote
    <2> HIDE DEF r, g
    <2>5. r.place \in 1..runs /\ own[r.place] = r.tenant /\ service[r.run].status = "completed"
        BY <1>3, <1>5, <2>1
    <2> QED BY <1>5, <2>1, <2>2, <2>3, <2>4, <2>5, StepsAside
<1>6. CASE /\ status \notin {"completed"} \cup Terminal
           /\ service' = [service EXCEPT ![n].status = "in_progress"]
           /\ turn' = [turn EXCEPT ![w].tries = @ + 1]
           /\ UNCHANGED given
    <2> DEFINE r == [turn[w] EXCEPT !.tries = @ + 1]
               g == Outcome("none", NoText)
    <2>1. r \in Turns /\ r.run = turn[w].run /\ r.tenant = turn[w].tenant /\ r.at = "poll"
          /\ r.place = turn[w].place
        BY <1>1, <1>2 DEF Turns
    <2>2. turn' = [turn EXCEPT ![w] = r]
        BY <1>2, <1>6
    <2>3. g \in Givens /\ MayReturn(turn[w], g)
        BY DEF Givens, Outcome, MayReturn
    <2> HIDE DEF r, g
    <2>4. /\ AgentTyped /\ HistoriesAreOwned /\ ThreadsAreOwned(own) /\ ServiceKeepsTo(own)
          /\ own \in [1..MaxRuns -> Tenants \cup {0}]
          /\ service \in [1..MaxRuns -> [status : Statuses, tenant : Tenants \cup {0}]]
        BY DEF AgentHolds, AgentTyped
    <2>5. /\ RunsAreOwned(own)' /\ AnswerIsTheAgents'
          /\ turn' \in [Workers -> Turns] /\ given' \in [Workers -> Givens]
          /\ turn'[w] = r /\ \A v \in Workers : v # w => turn'[v] = turn[v]
        BY <1>1, <1>6, <2>1, <2>2, <2>3, SameRun
    <2>6. /\ service' \in [1..MaxRuns -> [status : Statuses, tenant : Tenants \cup {0}]]
          /\ service'[n].status = "in_progress"
          /\ \A m \in 1..MaxRuns : m # n => service'[m] = service[m]
          /\ \A m \in 1..MaxRuns : service'[m].tenant = service[m].tenant
        BY <1>2, <1>6, <2>4 DEF Statuses
    <2>7. status \in {"in_progress", "requires_action"}
        BY <1>2, <1>6, <2>4 DEF Statuses, Terminal
    <2>8. AgentTyped'
        BY <1>1, <2>4, <2>5, <2>6 DEF AgentTyped
    <2>9. HistoriesAreOwned' /\ ThreadsAreOwned(own)'
        <3>1. HistoriesAreOwned'
            BY <1>1 DEF HistoriesAreOwned
        <3>2. ThreadsAreOwned(own)'
            BY <1>1, <1>3, <2>1, <2>4, <2>5 DEF ThreadsAreOwned
        <3> QED BY <3>1, <3>2
    <2>10. ServiceKeepsTo(own)'
        <3>1. \A m \in 1..MaxRuns : framework # "openai" \/ m > runs' => service'[m].status = "none"
            BY <1>1, <1>2, <2>4, <2>6 DEF ServiceKeepsTo
        <3>2. \A m \in 1..MaxRuns : service'[m].status \in {"in_progress", "requires_action"} =>
                service'[m].tenant = own[m] /\ \E p \in Places : active'[p] = m
            BY <1>1, <2>4, <2>6, <2>7 DEF ServiceKeepsTo
        <3>3. ASSUME NEW v \in Workers
              PROVE  /\ turn'[v].at \in {"start", "create", "post", "run"} =>
                            service'[turn'[v].run].status = "none"
                     /\ turn'[v].at = "poll" => service'[turn'[v].run].status # "none"
                     /\ turn'[v].at = "read" => service'[turn'[v].run].status = "completed"
            <4>1. CASE v = w
                BY <4>1, <2>1, <2>5, <2>6
            <4>2. CASE v # w /\ turn[v].at # "rest"
                <5>1. turn'[v] = turn[v] /\ turn[v].run # n
                    BY <4>2, <1>1, <2>5 DEF AgentHolds, RunsAreOwned
                <5>2. turn[v].run \in 1..MaxRuns
                    BY <4>2, OwnMessage
                <5>3. service'[turn[v].run] = service[turn[v].run]
                    BY <5>1, <5>2, <2>6
                <5> QED BY <5>1, <5>3, <2>4 DEF ServiceKeepsTo
            <4>3. CASE v # w /\ turn[v].at = "rest"
                BY <4>3, <2>5
            <4> QED BY <4>1, <4>2, <4>3
        <3>4. \A p \in Places : \A i \in DOMAIN talk'[p] :
                ~talk'[p][i].whole => service'[talk'[p][i].run].status = "incomplete"
            <4> SUFFICES ASSUME NEW p \in Places, NEW i \in DOMAIN talk[p], ~talk[p][i].whole
                         PROVE  service'[talk[p][i].run].status = "incomplete"
                BY <1>1
            <4>1. service[talk[p][i].run].status = "incomplete"
                BY <2>4 DEF ServiceKeepsTo
            <4>2. talk[p] \in Seq(Messages)
                BY <2>4 DEF AgentTyped
            <4>3. talk[p][i] \in Messages
                BY <4>2, ElementOfSeq
            <4>4. talk[p][i].run \in 1..MaxRuns
                BY <4>3 DEF Messages
            <4> QED BY <4>1, <4>4, <2>6, <2>7
        <3> QED BY <1>1, <3>1, <3>2, <3>3, <3>4 DEF ServiceKeepsTo
    <2> QED BY <2>4, <2>5, <2>8, <2>9, <2>10 DEF AgentHolds
<1>7. \/ RunRaises(w) /\ UNCHANGED service
      \/ status = "completed" /\ Go(w, "read") /\ UNCHANGED <<service, given>>
      \/ /\ status \notin {"completed"} \cup Terminal
         /\ service' = [service EXCEPT ![n].status = "in_progress"]
         /\ turn' = [turn EXCEPT ![w].tries = @ + 1]
         /\ UNCHANGED given
    <2>1. CASE turn[w].tries = POLLS
        BY <2>1 DEF Poll
    <2>2. CASE turn[w].tries # POLLS /\ status = "completed"
        BY <2>2 DEF Poll, Terminal
    <2>3. CASE turn[w].tries # POLLS /\ status # "completed" /\ status \in Terminal
        BY <2>3 DEF Poll
    <2>4. CASE turn[w].tries # POLLS /\ status # "completed" /\ status \notin Terminal
        BY <2>4 DEF Poll
    <2> QED BY <2>1, <2>2, <2>3, <2>4
<1> QED
    BY <1>4, <1>5, <1>6, <1>7

LEMMA CreateThreadHolds ==
    ASSUME NEW own, AgentHolds(own), NEW w \in Workers, CreateThread(w)
    PROVE  AgentHolds(own)'
<1> DEFINE n == turn[w].run
           r == [turn[w] EXCEPT !.at = "post", !.place = n]
           g == Outcome("none", NoText)
<1>1. /\ turn[w].at = "create" /\ framework = "openai" /\ given' = given
      /\ framework' = framework /\ active' = active /\ service' = service /\ talk' = talk
      /\ runs' = runs /\ threads' = [threads EXCEPT ![turn[w].tenant] = n]
    BY DEF CreateThread, remote
<1>2. /\ turn[w] \in Turns /\ turn \in [Workers -> Turns] /\ n \in 1..MaxRuns /\ n \in 1..runs
      /\ turn[w].tenant \in Tenants /\ own[n] = turn[w].tenant
    BY <1>1, OwnMessage DEF AgentHolds, AgentTyped
<1>3. service[n].status = "none"
    BY <1>1 DEF AgentHolds, ServiceKeepsTo
<1>4. turn' = [turn EXCEPT ![w] = r]
    BY <1>2 DEF CreateThread
<1>5. r \in Turns /\ r.run = n /\ r.tenant = turn[w].tenant /\ r.at = "post" /\ r.place = n
    <2> HIDE DEF n
    <2>1. turn[w].run = n /\ n \in 1..MaxRuns /\ turn[w] \in Turns
        BY <1>2 DEF n
    <2>2. n \in Nat
        BY <2>1, RunsAssumed
    <2> QED BY <2>1, <2>2 DEF Turns
<1>6. g \in Givens /\ MayReturn(turn[w], g)
    BY DEF Givens, Outcome, MayReturn
<1> HIDE DEF r, g
<1>7. /\ AgentTyped /\ HistoriesAreOwned /\ ThreadsAreOwned(own) /\ ServiceKeepsTo(own)
      /\ own \in [1..MaxRuns -> Tenants \cup {0}]
    BY DEF AgentHolds
<1>8. /\ RunsAreOwned(own)' /\ AnswerIsTheAgents'
      /\ turn' \in [Workers -> Turns] /\ given' \in [Workers -> Givens]
      /\ turn'[w] = r /\ \A v \in Workers : v # w => turn'[v] = turn[v]
    BY <1>1, <1>4, <1>5, <1>6, SameRun
<1>9. threads' \in [Tenants -> 0..MaxRuns]
    BY <1>1, <1>2, <1>7 DEF AgentTyped
<1>10. AgentTyped'
    BY <1>1, <1>7, <1>8, <1>9 DEF AgentTyped
<1>11. HistoriesAreOwned'
    BY <1>1, <1>7 DEF HistoriesAreOwned
<1>12. ThreadsAreOwned(own)'
    <2>1. \A t \in Tenants : threads'[t] # 0 => threads'[t] \in 1..runs /\ own[threads'[t]] = t
        BY <1>1, <1>2, <1>7 DEF AgentTyped, ThreadsAreOwned
    <2>2. \A v \in Workers : turn'[v].at \in {"post", "run", "poll", "read"} =>
            turn'[v].place \in 1..runs /\ own[turn'[v].place] = turn'[v].tenant
        BY <1>1, <1>2, <1>5, <1>7, <1>8 DEF ThreadsAreOwned
    <2> QED BY <2>1, <2>2, <1>1, <1>7 DEF ThreadsAreOwned
<1>13. ServiceKeepsTo(own)'
    <2>1. \A v \in Workers :
            /\ turn'[v].at \in {"start", "create", "post", "run"} => service[turn'[v].run].status = "none"
            /\ turn'[v].at = "poll" => service[turn'[v].run].status # "none"
            /\ turn'[v].at = "read" => service[turn'[v].run].status = "completed"
        BY <1>3, <1>5, <1>7, <1>8 DEF ServiceKeepsTo
    <2> QED BY <2>1, <1>1, <1>7 DEF ServiceKeepsTo
<1> QED
    BY <1>7, <1>8, <1>10, <1>11, <1>12, <1>13 DEF AgentHolds

LEMMA PostMessageHolds ==
    ASSUME NEW own, AgentHolds(own), NEW w \in Workers, PostMessage(w)
    PROVE  AgentHolds(own)'
<1> DEFINE n     == turn[w].run
           place == turn[w].place
           task  == Message("user", w, TRUE)
           s     == Append(talk[place], task)
           r     == [turn[w] EXCEPT !.at = "run"]
           g     == Outcome("none", NoText)
<1>1. /\ turn[w].at = "post" /\ framework = "openai" /\ given' = given
      /\ framework' = framework /\ threads' = threads /\ active' = active /\ service' = service
      /\ runs' = runs
    BY DEF PostMessage, remote
<1>2. /\ turn[w] \in Turns /\ turn \in [Workers -> Turns] /\ runs \in 0..MaxRuns
      /\ task \in Messages /\ task.tenant = turn[w].tenant /\ task.whole
    BY <1>1, OwnMessage DEF AgentHolds, AgentTyped, Message
<1>3. /\ AgentTyped /\ HistoriesAreOwned /\ ThreadsAreOwned(own) /\ ServiceKeepsTo(own)
      /\ own \in [1..MaxRuns -> Tenants \cup {0}]
    BY DEF AgentHolds
<1>4. service[n].status = "none" /\ place \in 1..runs /\ own[place] = turn[w].tenant
    BY <1>1, <1>3 DEF ServiceKeepsTo, ThreadsAreOwned
<1>5. place \in Places
    BY <1>2, <1>4, RunsAssumed DEF Places
<1>6. r \in Turns /\ r.run = n /\ r.tenant = turn[w].tenant /\ r.at = "run" /\ r.place = place
    BY <1>2 DEF Turns
<1>7. turn' = [turn EXCEPT ![w] = r] /\ talk' = [talk EXCEPT ![place] = s]
    BY <1>2, <1>3, <1>5 DEF PostMessage, Go, AgentTyped
<1>8. g \in Givens /\ MayReturn(turn[w], g)
    BY DEF Givens, Outcome, MayReturn
<1> HIDE DEF task
<1>9. talk[place] \in Seq(Messages)
    BY <1>3, <1>5 DEF AgentTyped
<1>10. /\ s \in Seq(Messages)
       /\ \A i \in DOMAIN s : (i \in DOMAIN talk[place] /\ s[i] = talk[place][i]) \/ s[i] = task
    BY <1>2, <1>9
<1> HIDE DEF r, g, s
<1>11. /\ RunsAreOwned(own)' /\ AnswerIsTheAgents'
       /\ turn' \in [Workers -> Turns] /\ given' \in [Workers -> Givens]
       /\ turn'[w] = r /\ \A v \in Workers : v # w => turn'[v] = turn[v]
    BY <1>1, <1>6, <1>7, <1>8, SameRun
<1>12. \A p \in Places : talk'[p] = talk[p] \/ (p = place /\ talk'[p] = s)
    BY <1>3, <1>7 DEF AgentTyped
<1>13. talk' \in [Places -> Seq(Messages)]
    BY <1>3, <1>7, <1>10 DEF AgentTyped
<1>14. AgentTyped'
    BY <1>1, <1>3, <1>11, <1>13 DEF AgentTyped
<1>15. HistoriesAreOwned'
    BY <1>1 DEF HistoriesAreOwned
<1>16. ThreadsAreOwned(own)'
    <2>1. ASSUME NEW p \in Places, NEW i \in DOMAIN talk'[p]
          PROVE  p \in 1..runs /\ talk'[p][i].tenant = own[p]
        <3>1. CASE talk'[p] = talk[p]
            BY <3>1, <1>1, <1>3 DEF ThreadsAreOwned
        <3>2. CASE p = place /\ talk'[p] = s
            <4>1. (i \in DOMAIN talk[place] /\ s[i] = talk[place][i]) \/ s[i] = task
                BY <3>2, <1>10
            <4> QED BY <4>1, <3>2, <1>1, <1>2, <1>3, <1>4, <1>5 DEF ThreadsAreOwned
        <3> QED BY <3>1, <3>2, <1>12
    <2>2. \A v \in Workers : turn'[v].at \in {"post", "run", "poll", "read"} =>
            turn'[v].place \in 1..runs /\ own[turn'[v].place] = turn'[v].tenant
        BY <1>1, <1>3, <1>4, <1>6, <1>11 DEF ThreadsAreOwned
    <2> QED BY <2>1, <2>2, <1>1, <1>3 DEF ThreadsAreOwned
<1>17. ServiceKeepsTo(own)'
    <2>1. \A v \in Workers :
            /\ turn'[v].at \in {"start", "create", "post", "run"} => service[turn'[v].run].status = "none"
            /\ turn'[v].at = "poll" => service[turn'[v].run].status # "none"
            /\ turn'[v].at = "read" => service[turn'[v].run].status = "completed"
        BY <1>3, <1>4, <1>6, <1>11 DEF ServiceKeepsTo
    <2>2. ASSUME NEW p \in Places, NEW i \in DOMAIN talk'[p], ~talk'[p][i].whole
          PROVE  service[talk'[p][i].run].status = "incomplete"
        <3>1. CASE talk'[p] = talk[p]
            BY <3>1, <2>2, <1>3 DEF ServiceKeepsTo
        <3>2. CASE p = place /\ talk'[p] = s
            <4>1. i \in DOMAIN talk[place] /\ s[i] = talk[place][i]
                BY <3>2, <2>2, <1>2, <1>10
            <4> QED BY <4>1, <3>2, <2>2, <1>3, <1>5 DEF ServiceKeepsTo
        <3> QED BY <3>1, <3>2, <1>12
    <2> QED BY <2>1, <2>2, <1>1, <1>3 DEF ServiceKeepsTo
<1> QED
    BY <1>3, <1>11, <1>14, <1>15, <1>16, <1>17 DEF AgentHolds

\* Where a message is not whole, its run has ended: it is neither unknown to the service
\* nor under way.
LEMMA PartsAreOfTheEnded ==
    ASSUME NEW own, AgentHolds(own), NEW n \in 1..MaxRuns, service[n].status # "incomplete",
           NEW entry, service' = [service EXCEPT ![n] = entry], talk' = talk
    PROVE  \A p \in Places : \A i \in DOMAIN talk'[p] :
              ~talk'[p][i].whole => service'[talk'[p][i].run].status = "incomplete"
<1> SUFFICES ASSUME NEW p \in Places, NEW i \in DOMAIN talk[p], ~talk[p][i].whole
             PROVE  service'[talk[p][i].run].status = "incomplete"
    OBVIOUS
<1>1. AgentTyped /\ ServiceKeepsTo(own)
    BY DEF AgentHolds
<1>2. service[talk[p][i].run].status = "incomplete"
    BY <1>1 DEF ServiceKeepsTo
<1>3. talk[p] \in Seq(Messages)
    BY <1>1 DEF AgentTyped
<1>4. talk[p][i] \in Messages
    BY <1>3, ElementOfSeq
<1>5. talk[p][i].run \in 1..MaxRuns
    BY <1>4 DEF Messages
<1> QED
    BY <1>1, <1>2, <1>5 DEF AgentTyped

LEMMA CreateRunHolds ==
    ASSUME NEW own, AgentHolds(own), NEW w \in Workers, CreateRun(w)
    PROVE  AgentHolds(own)'
<1> DEFINE n     == turn[w].run
           place == turn[w].place
           entry == [status |-> "in_progress", tenant |-> turn[w].tenant]
           r     == [turn[w] EXCEPT !.at = "poll"]
           g     == Outcome("none", NoText)
<1>1. /\ turn[w].at = "run" /\ framework = "openai" /\ given' = given /\ active[place] = 0
      /\ framework' = framework /\ threads' = threads /\ talk' = talk /\ runs' = runs
      /\ active' = [active EXCEPT ![place] = n] /\ service' = [service EXCEPT ![n] = entry]
    BY DEF CreateRun
<1>2. /\ turn[w] \in Turns /\ turn \in [Workers -> Turns] /\ n \in 1..MaxRuns /\ n \in 1..runs
      /\ turn[w].tenant \in Tenants /\ own[n] = turn[w].tenant /\ runs \in 0..MaxRuns
    BY <1>1, OwnMessage DEF AgentHolds, AgentTyped
<1>3. /\ AgentTyped /\ HistoriesAreOwned /\ ThreadsAreOwned(own) /\ ServiceKeepsTo(own)
      /\ RunsAreOwned(own) /\ own \in [1..MaxRuns -> Tenants \cup {0}]
      /\ service \in [1..MaxRuns -> [status : Statuses, tenant : Tenants \cup {0}]]
      /\ active \in [Places -> 0..MaxRuns]
    BY DEF AgentHolds, AgentTyped
<1>4. service[n].status = "none" /\ place \in 1..runs /\ own[place] = turn[w].tenant
    BY <1>1, <1>3 DEF ServiceKeepsTo, ThreadsAreOwned
<1>5. place \in Places
    BY <1>2, <1>4, RunsAssumed DEF Places
<1>6. r \in Turns /\ r.run = n /\ r.tenant = turn[w].tenant /\ r.at = "poll" /\ r.place = place
    BY <1>2 DEF Turns
<1>7. turn' = [turn EXCEPT ![w] = r]
    BY <1>2 DEF CreateRun, Go
<1>8. g \in Givens /\ MayReturn(turn[w], g)
    BY DEF Givens, Outcome, MayReturn
<1>9. \A p \in Places : \A i \in DOMAIN talk'[p] :
         ~talk'[p][i].whole => service'[talk'[p][i].run].status = "incomplete"
    <2> HIDE DEF entry
    <2> QED BY <1>1, <1>2, <1>4, PartsAreOfTheEnded
<1> HIDE DEF r, g
<1>10. /\ RunsAreOwned(own)' /\ AnswerIsTheAgents'
       /\ turn' \in [Workers -> Turns] /\ given' \in [Workers -> Givens]
       /\ turn'[w] = r /\ \A v \in Workers : v # w => turn'[v] = turn[v]
    BY <1>1, <1>6, <1>7, <1>8, SameRun
<1>11. /\ entry \in [status : Statuses, tenant : Tenants \cup {0}]
       /\ entry.status = "in_progress" /\ entry.tenant = own[n]
    BY <1>2 DEF Statuses
<1> HIDE DEF entry
<1>12. /\ service' \in [1..MaxRuns -> [status : Statuses, tenant : Tenants \cup {0}]]
       /\ service'[n] = entry /\ \A m \in 1..MaxRuns : m # n => service'[m] = service[m]
    BY <1>1, <1>2, <1>3, <1>11
<1>13. /\ active' \in [Places -> 0..MaxRuns]
       /\ active'[place] = n /\ \A p \in Places : p # place => active'[p] = active[p]
    BY <1>1, <1>2, <1>3, <1>5, RunsAssumed
<1>14. AgentTyped'
    BY <1>1, <1>3, <1>10, <1>12, <1>13 DEF AgentTyped
<1>15. HistoriesAreOwned'
    BY <1>1 DEF HistoriesAreOwned
<1>16. ThreadsAreOwned(own)'
    <2>1. \A v \in Workers : turn'[v].at \in {"post", "run", "poll", "read"} =>
            turn'[v].place \in 1..runs /\ own[turn'[v].place] = turn'[v].tenant
        BY <1>1, <1>3, <1>4, <1>6, <1>10 DEF ThreadsAreOwned
    <2>2. \A p \in Places : active'[p] # 0 =>
            p \in 1..runs /\ active'[p] \in 1..runs /\ own[active'[p]] = own[p]
        BY <1>1, <1>2, <1>3, <1>4, <1>13 DEF ThreadsAreOwned
    <2> QED BY <2>1, <2>2, <1>1, <1>3 DEF ThreadsAreOwned
<1>17. ServiceKeepsTo(own)'
    <2>1. \A m \in 1..MaxRuns : framework # "openai" \/ m > runs' => service'[m].status = "none"
        BY <1>1, <1>2, <1>3, <1>12 DEF ServiceKeepsTo
    <2>2. ASSUME NEW m \in 1..MaxRuns, service'[m].status \in {"in_progress", "requires_action"}
          PROVE  service'[m].tenant = own[m] /\ \E p \in Places : active'[p] = m
        <3>1. CASE m = n
            BY <3>1, <1>5, <1>11, <1>12, <1>13
        <3>2. CASE m # n
            <4>1. service'[m] = service[m]
                BY <3>2, <1>12
            <4>2. service[m].tenant = own[m] /\ \E p \in Places : active[p] = m
                BY <4>1, <2>2, <1>3 DEF ServiceKeepsTo
            <4>3. PICK p \in Places : active[p] = m
                BY <4>2
            <4>4. p # place /\ active'[p] = m
                BY <4>3, <1>1, <1>13
            <4> QED BY <4>1, <4>2, <4>4
        <3> QED BY <3>1, <3>2
    <2>3. ASSUME NEW v \in Workers
          PROVE  /\ turn'[v].at \in {"start", "create", "post", "run"} =>
                        service'[turn'[v].run].status = "none"
                 /\ turn'[v].at = "poll" => service'[turn'[v].run].status # "none"
                 /\ turn'[v].at = "read" => service'[turn'[v].run].status = "completed"
        <3>1. CASE v = w
            BY <3>1, <1>6, <1>10, <1>11, <1>12
        <3>2. CASE v # w /\ turn[v].at # "rest"
            <4>1. turn'[v] = turn[v] /\ turn[v].run # n
                BY <3>2, <1>1, <1>3, <1>10 DEF RunsAreOwned
            <4>2. turn[v].run \in 1..MaxRuns
                BY <3>2, OwnMessage
            <4> QED BY <4>1, <4>2, <1>3, <1>12 DEF ServiceKeepsTo
        <3>3. CASE v # w /\ turn[v].at = "rest"
            BY <3>3, <1>10
        <3> QED BY <3>1, <3>2, <3>3
    <2> QED BY <2>1, <2>2, <2>3, <1>1, <1>9 DEF ServiceKeepsTo
<1> QED
    BY <1>3, <1>10, <1>14, <1>15, <1>16, <1>17 DEF AgentHolds

\* The run that the service has under way on a thread has the thread's tenant, who is the
\* one its answer is recorded for.
LEMMA ServeRunHolds ==
    ASSUME NEW own, AgentHolds(own), NEW n \in 1..MaxRuns, ServeRun(n)
    PROVE  AgentHolds(own)'
<1> DEFINE place == CHOOSE p \in Places : active[p] = n
           Spoken(whole) == [who |-> "agent", run |-> n, tenant |-> service[n].tenant, whole |-> whole]
           Entry(status) == [status |-> status, tenant |-> service[n].tenant]
           Services == [1..MaxRuns -> [status : Statuses, tenant : Tenants \cup {0}]]
           Says(whole) == talk' = [talk EXCEPT ![place] = Append(@, Spoken(whole))]
           Ends(status) == /\ service' = [service EXCEPT ![n].status = status]
                           /\ active' = [active EXCEPT ![place] = 0]
           Did(status) ==
              /\ service' = [service EXCEPT ![n].status = status]
              /\ active' = active \/ (status # "requires_action" /\ active' = [active EXCEPT ![place] = 0])
              /\ talk' = talk \/ Says(TRUE) \/ (status = "incomplete" /\ Says(FALSE))
<1>1. /\ service[n].status = "in_progress"
      /\ framework' = framework /\ threads' = threads /\ turn' = turn /\ runs' = runs
      /\ given' = given
    BY DEF ServeRun
<1>2. /\ AgentTyped /\ HistoriesAreOwned /\ ThreadsAreOwned(own) /\ ServiceKeepsTo(own)
      /\ RunsAreOwned(own) /\ AnswerIsTheAgents /\ own \in [1..MaxRuns -> Tenants \cup {0}]
      /\ service \in Services /\ active \in [Places -> 0..MaxRuns]
      /\ talk \in [Places -> Seq(Messages)] /\ runs \in 0..MaxRuns
    BY DEF AgentHolds, AgentTyped
<1>3. framework = "openai" /\ service[n].tenant = own[n] /\ \E p \in Places : active[p] = n
    BY <1>1, <1>2 DEF ServiceKeepsTo
<1>4. place \in Places /\ active[place] = n
    BY <1>3
<1> HIDE DEF place
<1>5. n # 0 /\ place \in 1..runs /\ n \in 1..runs /\ own[n] = own[place] /\ own[n] \in Tenants
    BY <1>2, <1>3, <1>4 DEF ThreadsAreOwned, RunsAreOwned
<1>6. \A whole \in BOOLEAN : Spoken(whole) \in Messages /\ Spoken(whole).tenant = own[place]
    BY <1>3, <1>5 DEF Messages
<1>7. PICK status \in {"requires_action", "completed", "incomplete", "failed"} : Did(status)
    <2>1. \/ /\ service' = [service EXCEPT ![n].status = "requires_action"]
             /\ UNCHANGED <<active, talk>>
          \/ Ends("completed") /\ UNCHANGED talk
          \/ Ends("completed") /\ Says(TRUE)
          \/ Ends("incomplete") /\ Says(FALSE)
          \/ Ends("failed") /\ UNCHANGED talk
        BY DEF ServeRun, place
    <2> HIDE DEF Says
    <2>2. Did("requires_action") \/ Did("completed") \/ Did("incomplete") \/ Did("failed")
        BY <2>1
    <2> HIDE DEF Did
    <2> QED BY <2>2
<1>8. /\ service' \in Services /\ service'[n] = Entry(status)
      /\ \A m \in 1..MaxRuns : m # n => service'[m] = service[m]
    <2>1. service' = [service EXCEPT ![n].status = status]
        BY <1>7
    <2> HIDE DEF Did
    <2>2. service[n] \in [status : Statuses, tenant : Tenants \cup {0}]
        BY <1>2
    <2>3. [service[n] EXCEPT !.status = status] = Entry(status)
        BY <2>2
    <2>4. service' = [service EXCEPT ![n] = Entry(status)]
        BY <2>1, <2>3, <1>2
    <2>5. Entry(status) \in [status : Statuses, tenant : Tenants \cup {0}]
        BY <1>2 DEF Statuses
    <2> HIDE DEF Entry
    <2> QED BY <2>4, <2>5, <1>2
<1>9. /\ Entry(status).status = status /\ Entry(status).tenant = own[n]
    BY <1>3
<1> HIDE DEF Entry
<1>10. /\ active' \in [Places -> 0..MaxRuns]
       /\ \A p \in Places : active'[p] = active[p] \/ (p = place /\ active'[p] = 0)
       /\ status = "requires_action" => active' = active
    BY <1>2, <1>7, RunsAssumed
<1> DEFINE Grown ==
       /\ talk' \in [Places -> Seq(Messages)]
       /\ \A p \in Places : \A i \in DOMAIN talk'[p] :
             \/ i \in DOMAIN talk[p] /\ talk'[p][i] = talk[p][i]
             \/ p = place /\ talk'[p][i] = Spoken(TRUE)
             \/ p = place /\ talk'[p][i] = Spoken(FALSE) /\ status = "incomplete"
<1>11. Grown
    <2> DEFINE s == talk[place]
    <2>1. s \in Seq(Messages)
        BY <1>2, <1>4
    <2>2. CASE talk' = talk
        BY <2>2, <1>2
    <2>3. ASSUME NEW whole \in BOOLEAN, whole \/ status = "incomplete", Says(whole)
          PROVE  Grown
        <3> DEFINE last == Spoken(whole)
        <3>1. last \in Messages
            BY <1>6
        <3>2. last = Spoken(TRUE) \/ (last = Spoken(FALSE) /\ status = "incomplete")
            BY <2>3
        <3>3. talk' = [talk EXCEPT ![place] = Append(s, last)]
            BY <2>3
        <3> HIDE DEF last, Spoken
        <3>4. /\ Append(s, last) \in Seq(Messages)
              /\ \A i \in DOMAIN Append(s, last) :
                    (i \in DOMAIN s /\ Append(s, last)[i] = s[i]) \/ Append(s, last)[i] = last
            BY <2>1, <3>1
        <3> QED BY <3>2, <3>3, <3>4, <1>2
    <2>4. talk' = talk \/ Says(TRUE) \/ (status = "incomplete" /\ Says(FALSE))
        BY <1>7
    <2>5. talk' = talk => Grown
        BY <2>2
    <2>6. Says(TRUE) => Grown
        BY <2>3
    <2>7. status = "incomplete" /\ Says(FALSE) => Grown
        BY <2>3
    <2> HIDE DEF Says, Grown
    <2> QED BY <2>4, <2>5, <2>6, <2>7
<1>12. AgentTyped'
    BY <1>1, <1>2, <1>8, <1>10, <1>11 DEF AgentTyped
<1>13. HistoriesAreOwned' /\ AnswerIsTheAgents' /\ RunsAreOwned(own)'
    BY <1>1, <1>2, <1>3 DEF HistoriesAreOwned, AnswerIsTheAgents, RunsAreOwned
<1>14. ThreadsAreOwned(own)'
    <2>1. \A p \in Places : active'[p] # 0 =>
            p \in 1..runs /\ active'[p] \in 1..runs /\ own[active'[p]] = own[p]
        BY <1>2, <1>3, <1>10 DEF ThreadsAreOwned
    <2>2. ASSUME NEW p \in Places, NEW i \in DOMAIN talk'[p]
          PROVE  p \in 1..runs /\ talk'[p][i].tenant = own[p]
        <3>1. CASE i \in DOMAIN talk[p] /\ talk'[p][i] = talk[p][i]
            BY <3>1, <1>2, <1>3 DEF ThreadsAreOwned
        <3>2. CASE p = place /\ talk'[p][i] \in {Spoken(TRUE), Spoken(FALSE)}
            BY <3>2, <1>5, <1>6
        <3> QED BY <3>1, <3>2, <1>11
    <2> QED BY <2>1, <2>2, <1>1, <1>2 DEF ThreadsAreOwned
<1>15. ServiceKeepsTo(own)'
    <2>1. ASSUME NEW m \in 1..MaxRuns, m > runs
          PROVE  service'[m].status = "none"
        <3>1. m # n
            BY <2>1, <1>2, <1>5
        <3>2. service[m].status = "none"
            BY <2>1, <1>2 DEF ServiceKeepsTo
        <3> QED BY <3>1, <3>2, <1>8
    <2>2. ASSUME NEW m \in 1..MaxRuns, service'[m].status \in {"in_progress", "requires_action"}
          PROVE  service'[m].tenant = own[m] /\ \E p \in Places : active'[p] = m
        <3>1. CASE m = n
            BY <3>1, <2>2, <1>4, <1>7, <1>8, <1>9, <1>10
        <3>2. CASE m # n
            <4>1. service'[m] = service[m]
                BY <3>2, <1>8
            <4>2. service[m].tenant = own[m] /\ \E p \in Places : active[p] = m
                BY <4>1, <2>2, <1>2 DEF ServiceKeepsTo
            <4>3. PICK p \in Places : active[p] = m
                BY <4>2
            <4>4. active'[p] = m
                BY <4>3, <3>2, <1>4, <1>10
            <4> QED BY <4>1, <4>2, <4>4
        <3> QED BY <3>1, <3>2
    <2>3. ASSUME NEW v \in Workers
          PROVE  /\ turn[v].at \in {"start", "create", "post", "run"} =>
                        service'[turn[v].run].status = "none"
                 /\ turn[v].at = "poll" => service'[turn[v].run].status # "none"
                 /\ turn[v].at = "read" => service'[turn[v].run].status = "completed"
        <3>1. CASE turn[v].at = "rest"
            BY <3>1
        <3>2. CASE turn[v].at # "rest" /\ turn[v].run = n
            BY <3>2, <1>1, <1>2, <1>7, <1>8, <1>9 DEF ServiceKeepsTo
        <3>3. CASE turn[v].at # "rest" /\ turn[v].run # n
            <4>1. turn[v].run \in 1..MaxRuns
                BY <3>3, OwnMessage
            <4>2. service'[turn[v].run] = service[turn[v].run]
                BY <4>1, <3>3, <1>8
            <4> QED BY <4>2, <1>2 DEF ServiceKeepsTo
        <3> QED BY <3>1, <3>2, <3>3
    <2>4. ASSUME NEW p \in Places, NEW i \in DOMAIN talk'[p], ~talk'[p][i].whole
          PROVE  service'[talk'[p][i].run].status = "incomplete"
        <3>1. CASE i \in DOMAIN talk[p] /\ talk'[p][i] = talk[p][i]
            <4>1. service[talk[p][i].run].status = "incomplete"
                BY <3>1, <2>4, <1>2 DEF ServiceKeepsTo
            <4>2. talk[p][i] \in Messages
                BY <3>1, <1>2, ElementOfSeq
            <4>3. talk[p][i].run \in 1..MaxRuns /\ talk[p][i].run # n
                BY <4>1, <4>2, <1>1 DEF Messages
            <4> QED BY <3>1, <4>1, <4>3, <1>8
        <3>2. CASE talk'[p][i] = Spoken(FALSE) /\ status = "incomplete"
            BY <3>2, <1>8, <1>9
        <3>3. talk'[p][i] # Spoken(TRUE)
            BY <2>4
        <3> QED BY <3>1, <3>2, <3>3, <1>11
    <2> QED BY <2>1, <2>2, <2>3, <2>4, <1>1, <1>3 DEF ServiceKeepsTo
<1> QED
    BY <1>2, <1>12, <1>13, <1>14, <1>15 DEF AgentHolds

-----------------------------------------------------------------------------
\* A new run is its tenant's, and nothing speaks of it yet.
LEMMA StartHolds ==
    ASSUME NEW own, AgentHolds(own), NEW w \in Workers, NEW tenant \in Tenants, Start(w, tenant)
    PROVE  AgentInv'
<1> DEFINE n    == runs + 1
           r    == [at |-> "start", tenant |-> tenant, run |-> n, place |-> 1, tries |-> 0]
           g    == Outcome("none", NoText)
<1>1. /\ turn[w].at = "rest" /\ runs < MaxRuns /\ runs' = n
      /\ framework' = framework /\ threads' = threads /\ active' = active /\ service' = service
      /\ talk' = talk /\ turn' = [turn EXCEPT ![w] = r] /\ given' = [given EXCEPT ![w] = g]
    BY DEF Start, remote
<1>2. /\ AgentTyped /\ HistoriesAreOwned /\ ThreadsAreOwned(own) /\ ServiceKeepsTo(own)
      /\ RunsAreOwned(own) /\ AnswerIsTheAgents /\ own \in [1..MaxRuns -> Tenants \cup {0}]
      /\ turn \in [Workers -> Turns] /\ given \in [Workers -> Givens] /\ runs \in 0..MaxRuns
    BY DEF AgentHolds, AgentTyped
<1>3. /\ n \in 1..MaxRuns /\ n \in 0..MaxRuns /\ n > runs /\ 1..runs \subseteq 1..n
      /\ n \notin 1..runs /\ 1..n = 1..runs \cup {n} /\ 1..runs \subseteq 1..MaxRuns
    BY <1>1, <1>2, RunsAssumed
<1>4. r \in Turns /\ r.run = n /\ r.tenant = tenant /\ r.at = "start"
    <2> HIDE DEF n
    <2>1. tenant \in Nat
        BY TenantsAssumed
    <2> QED BY <2>1, <1>3 DEF Turns
<1>5. g \in Givens /\ g.is = "none"
    BY DEF Givens, Outcome
<1> PICK mine : mine = [own EXCEPT ![n] = tenant]
    OBVIOUS
<1>6. /\ mine \in [1..MaxRuns -> Tenants \cup {0}] /\ mine[n] = tenant
      /\ \A m \in 1..runs : mine[m] = own[m]
      /\ \A m \in 1..MaxRuns : m # n => mine[m] = own[m]
    BY <1>2, <1>3
<1>7. \A m \in 1..MaxRuns : m > n => m > runs
    BY <1>2
<1> HIDE DEF r, g
<1>8. turn'[w] = r /\ \A v \in Workers : v # w => turn'[v] = turn[v]
    BY <1>1, <1>2
<1>9. given'[w] = g /\ \A v \in Workers : v # w => given'[v] = given[v]
    BY <1>1, <1>2
<1> HIDE DEF n
<1>10. turn' \in [Workers -> Turns] /\ given' \in [Workers -> Givens]
    BY <1>1, <1>2, <1>4, <1>5
<1>11. AgentTyped'
    BY <1>1, <1>2, <1>3, <1>10 DEF AgentTyped
<1>12. HistoriesAreOwned'
    BY <1>1, <1>2 DEF HistoriesAreOwned
<1>13. AnswerIsTheAgents'
    BY <1>1, <1>2, <1>5, <1>8, <1>9 DEF AnswerIsTheAgents
<1>14. RunsAreOwned(mine)'
    <2>1. \A v \in Workers : turn'[v].at # "rest" =>
             turn'[v].run \in 1..n /\ turn'[v].tenant \in Tenants /\ mine[turn'[v].run] = turn'[v].tenant
        BY <1>2, <1>3, <1>4, <1>6, <1>8 DEF RunsAreOwned
    <2>2. ASSUME NEW u \in Workers, NEW v \in Workers,
                 turn'[u].at # "rest", turn'[v].at # "rest", turn'[u].run = turn'[v].run
          PROVE  u = v
        <3>1. CASE u # w /\ v # w
            BY <3>1, <2>2, <1>2, <1>8 DEF RunsAreOwned
        <3>2. CASE u = w /\ v # w
            <4>1. turn[v].run \in 1..runs
                BY <3>2, <2>2, <1>2, <1>8 DEF RunsAreOwned
            <4> QED BY <4>1, <3>2, <2>2, <1>3, <1>4, <1>8
        <3>3. CASE u # w /\ v = w
            <4>1. turn[u].run \in 1..runs
                BY <3>3, <2>2, <1>2, <1>8 DEF RunsAreOwned
            <4> QED BY <4>1, <3>3, <2>2, <1>3, <1>4, <1>8
        <3> QED BY <3>1, <3>2, <3>3
    <2>3. \A m \in 1..n : mine[m] \in Tenants
        BY <1>2, <1>3, <1>6 DEF RunsAreOwned
    <2> QED BY <2>1, <2>2, <2>3, <1>1 DEF RunsAreOwned
<1>15. ThreadsAreOwned(mine)'
    <2> SUFFICES ASSUME framework = "openai"
                 PROVE  ThreadsAreOwned(mine)'
        BY <1>1 DEF ThreadsAreOwned
    <2>1. \A t \in Tenants : threads[t] # 0 => threads[t] \in 1..n /\ mine[threads[t]] = t
        BY <1>2, <1>3, <1>6 DEF ThreadsAreOwned
    <2>2. \A v \in Workers : turn'[v].at \in {"post", "run", "poll", "read"} =>
             turn'[v].place \in 1..n /\ mine[turn'[v].place] = turn'[v].tenant
        BY <1>2, <1>3, <1>4, <1>6, <1>8 DEF ThreadsAreOwned
    <2>3. \A p \in Places : active[p] # 0 =>
             p \in 1..n /\ active[p] \in 1..n /\ mine[active[p]] = mine[p]
        BY <1>2, <1>3, <1>6 DEF ThreadsAreOwned
    <2>4. \A p \in Places : \A i \in DOMAIN talk[p] : p \in 1..n /\ talk[p][i].tenant = mine[p]
        BY <1>2, <1>3, <1>6 DEF ThreadsAreOwned
    <2> QED BY <2>1, <2>2, <2>3, <2>4, <1>1 DEF ThreadsAreOwned
<1>16. ServiceKeepsTo(mine)'
    <2>1. \A m \in 1..MaxRuns : framework # "openai" \/ m > n => service[m].status = "none"
        BY <1>2, <1>7 DEF ServiceKeepsTo
    <2>2. service[n].status = "none"
        BY <1>2, <1>3 DEF ServiceKeepsTo
    <2>3. \A m \in 1..MaxRuns : service[m].status \in {"in_progress", "requires_action"} =>
            service[m].tenant = mine[m] /\ \E p \in Places : active[p] = m
        BY <1>2, <1>6, <2>2 DEF ServiceKeepsTo
    <2>4. \A v \in Workers :
            /\ turn'[v].at \in {"start", "create", "post", "run"} => service[turn'[v].run].status = "none"
            /\ turn'[v].at = "poll" => service[turn'[v].run].status # "none"
            /\ turn'[v].at = "read" => service[turn'[v].run].status = "completed"
        BY <1>2, <1>4, <1>8, <2>2 DEF ServiceKeepsTo
    <2> QED BY <2>1, <2>3, <2>4, <1>1, <1>2 DEF ServiceKeepsTo
<1>17. AgentHolds(mine)'
    BY <1>6, <1>11, <1>12, <1>13, <1>14, <1>15, <1>16 DEF AgentHolds
<1> QED
    BY <1>17 DEF AgentInv

LEMMA AgentStepHolds ==
    ASSUME NEW own, AgentHolds(own), NEW w \in Workers, AgentStep(w)
    PROVE  AgentInv'
<1>1. AgentHolds(own)'
    BY LookUpThreadHolds, CreateThreadHolds, PostMessageHolds, CreateRunHolds, PollHolds,
       ReadAnswerHolds, RunFailsHolds, AppendTaskHolds, AnswerTaskHolds, CallToolsHolds,
       RollBackHolds, OneCallRaisesHolds, AutogenRunHolds, CrewaiRunHolds, LanggraphRunHolds,
       HttpRunHolds, Zenon
    DEF AgentStep
<1> QED
    BY <1>1 DEF AgentInv

LEMMA AgentInvInit == AgentInit => AgentInv
<1> SUFFICES ASSUME AgentInit PROVE AgentInv
    OBVIOUS
<1> DEFINE own == [n \in 1..MaxRuns |-> 0]
<1>1. Resting \in Turns /\ Resting.at = "rest"
    BY RunsAssumed DEF Resting, Turns
<1>2. Outcome("none", NoText) \in Givens /\ Outcome("none", NoText).is = "none"
    BY DEF Outcome, Givens
<1>3. <<>> \in Seq(Messages) /\ DOMAIN <<>> = {}
    OBVIOUS
<1>4. /\ runs = 0 /\ \A t \in Tenants : threads[t] = 0
      /\ \A p \in Places : talk[p] = <<>> /\ active[p] = 0
      /\ \A n \in 1..MaxRuns : service[n].status = "none"
      /\ \A w \in Workers : turn[w] = Resting /\ given[w] = Outcome("none", NoText)
    BY DEF AgentInit
<1>5. \A n \in 1..MaxRuns : n > 0
    OBVIOUS
<1>6. AgentTyped
    <2>1. 0 \in 0..MaxRuns
        BY RunsAssumed
    <2>2. [status |-> "none", tenant |-> 0] \in [status : Statuses, tenant : Tenants \cup {0}]
        BY DEF Statuses
    <2> QED BY <2>1, <2>2, <1>1, <1>2, <1>3 DEF AgentTyped, AgentInit
<1>7. HistoriesAreOwned
    BY <1>3, <1>4 DEF HistoriesAreOwned
<1>8. AnswerIsTheAgents
    BY <1>2, <1>4 DEF AnswerIsTheAgents
<1>9. RunsAreOwned(own)
    BY <1>1, <1>4 DEF RunsAreOwned
<1>10. ThreadsAreOwned(own)
    BY <1>1, <1>3, <1>4 DEF ThreadsAreOwned
<1>11. ServiceKeepsTo(own)
    BY <1>1, <1>3, <1>4 DEF ServiceKeepsTo
<1>12. own \in [1..MaxRuns -> Tenants \cup {0}]
    OBVIOUS
<1> QED
    BY <1>6, <1>7, <1>8, <1>9, <1>10, <1>11, <1>12 DEF AgentInv, AgentHolds

LEMMA AgentInvNext == AgentInv /\ [AgentNext]_agentVars => AgentInv'
<1> SUFFICES ASSUME AgentInv, [AgentNext]_agentVars PROVE AgentInv'
    OBVIOUS
<1>1. PICK own : AgentHolds(own)
    BY DEF AgentInv
<1>2. CASE \E w \in Workers : AgentStep(w)
    BY <1>1, <1>2, AgentStepHolds
<1>3. CASE \E w \in Workers, t \in Tenants : Start(w, t)
    BY <1>1, <1>3, StartHolds
<1>4. CASE \E n \in 1..MaxRuns : ServeRun(n)
    BY <1>1, <1>4, ServeRunHolds DEF AgentInv
<1>5. CASE UNCHANGED agentVars
    <2>1. AgentHolds(own)'
        BY <1>1, <1>5 DEF AgentHolds, AgentTyped, HistoriesAreOwned, AnswerIsTheAgents,
           RunsAreOwned, ThreadsAreOwned, ServiceKeepsTo, agentVars
    <2> QED BY <2>1 DEF AgentInv
<1> QED
    BY <1>2, <1>3, <1>4, <1>5 DEF AgentNext

\* Whatever two workers run at once, in whichever framework, and whatever the service
\* answers meanwhile: a text that comes back was said to the tenant it comes back to, by
\* the agent, and all of it where it was said in that run: the threads per tenant of
\* OpenAIAssistantsAgent, the rollback of AnthropicAgent, the final texts of the others.
THEOREM AgentsAnswerTheirTenant == AgentSpec => []AnswerIsTheAgents
<1>1. AgentInv => AnswerIsTheAgents
    BY DEF AgentInv, AgentHolds
<1> QED
    BY <1>1, AgentInvInit, AgentInvNext, PTL DEF AgentSpec

-----------------------------------------------------------------------------
(* The calibration of the semantic gate. *)

LEMMA LeastOfNaturals ==
    ASSUME NEW S \in SUBSET Nat, S # {}
    PROVE  Min(S) \in S /\ \A x \in S : Min(S) <= x
<1> DEFINE R == OpToRel(<, Nat)
<1>1. IsWellFoundedOn(R, Nat)
    BY NatLessThanWellFounded
<1>2. PICK m \in S : \A y \in S : ~(<<y, m>> \in R)
    <2> HIDE DEF R
    <2> QED BY <1>1, WFMin
<1>3. \A y \in S : m <= y
    <2> SUFFICES ASSUME NEW y \in S PROVE ~(y < m)
        OBVIOUS
    <2> QED BY <1>2 DEF OpToRel
<1> QED
    BY <1>3 DEF Min

LEMMA GreatestOfNaturals ==
    ASSUME NEW n \in Nat, NEW S \in SUBSET (0..n), S # {}
    PROVE  Max(S) \in S /\ \A x \in S : x <= Max(S)
<1> DEFINE T == {n - x : x \in S}
<1>1. T \in SUBSET Nat /\ T # {}
    <2>1. \A x \in S : n - x \in Nat
        OBVIOUS
    <2>2. PICK x \in S : TRUE
        OBVIOUS
    <2>3. n - x \in T
        OBVIOUS
    <2> QED BY <2>1, <2>3
<1>2. Min(T) \in T /\ \A y \in T : Min(T) <= y
    <2> HIDE DEF T
    <2> QED BY <1>1, LeastOfNaturals
<1>3. PICK m \in S : Min(T) = n - m
    BY <1>2
<1>4. ASSUME NEW x \in S PROVE m >= x
    <2>1. n - x \in T
        OBVIOUS
    <2>2. n - m <= n - x
        BY <2>1, <1>2, <1>3
    <2> QED BY <2>2
<1> QED
    BY <1>4 DEF Max

-----------------------------------------------------------------------------
LEMMA Counted ==
    ASSUME NEW X \in SUBSET Labelled, NEW t \in Int
    PROVE  /\ TruePositives(X, t) \in Nat /\ FalsePositives(X, t) \in Nat
           /\ FalseNegatives(X, t) \in Nat
           /\ Cardinality(Positives(X)) \in Nat
           /\ FalseNegatives(X, t) = Cardinality(Positives(X)) - TruePositives(X, t)
<1>1. IsFiniteSet(X)
    BY LabelledAssumed, FS_Subset
<1>2. /\ Admitted(X, t) \subseteq X /\ Positives(X) \subseteq X
      /\ Positives(Admitted(X, t)) \subseteq Admitted(X, t)
      /\ Positives(Admitted(X, t)) \subseteq Positives(X)
    BY DEF Admitted, Positives
<1>3. IsFiniteSet(Admitted(X, t)) /\ IsFiniteSet(Positives(X))
    BY <1>1, <1>2, FS_Subset
<1>4. /\ Cardinality(Admitted(X, t)) \in Nat /\ Cardinality(Positives(X)) \in Nat
      /\ IsFiniteSet(Positives(Admitted(X, t)))
      /\ Cardinality(Positives(Admitted(X, t))) <= Cardinality(Admitted(X, t))
      /\ Cardinality(Positives(Admitted(X, t))) <= Cardinality(Positives(X))
    BY <1>2, <1>3, FS_Subset, FS_CardinalityType
<1>5. Cardinality(Positives(Admitted(X, t))) \in Nat
    BY <1>4, FS_CardinalityType
<1> QED
    BY <1>4, <1>5 DEF TruePositives, FalsePositives, FalseNegatives

\* The counts, and with them F1, are of what a gate admits.
LEMMA CountsAreOfAdmitted ==
    ASSUME NEW X, NEW t, NEW u, Admitted(X, t) = Admitted(X, u)
    PROVE  /\ TruePositives(X, t) = TruePositives(X, u)
           /\ FalsePositives(X, t) = FalsePositives(X, u)
           /\ F1(X, t) = F1(X, u)
BY DEF TruePositives, FalsePositives, FalseNegatives, F1

LEMMA ScoresAreEven ==
    ASSUME NEW X \in SUBSET Labelled
    PROVE  /\ Scores(X) \subseteq 0..MaxScore
           /\ Scores(X) \in SUBSET Nat
           /\ \A s \in Scores(X) : s % 2 = 0
           /\ \A e \in X : e.similarity \in Scores(X)
BY LabelledAssumed, ScoresAssumed DEF Scores

LEMMA CandidatesAreGates ==
    ASSUME NEW X \in SUBSET Labelled
    PROVE  Candidates(X) \subseteq 0..(MaxScore + 1)
<1> DEFINE S == Scores(X)
<1>1. S \subseteq 0..MaxScore /\ S \in SUBSET Nat
    BY ScoresAreEven
<1>2. CASE S = {}
    BY <1>2, ScoresAssumed DEF Candidates
<1>3. CASE S # {}
    <2> HIDE DEF S
    <2>1. Min(S) \in 0..MaxScore /\ Max(S) \in 0..MaxScore
        BY <1>1, <1>3, LeastOfNaturals, GreatestOfNaturals, ScoresAssumed
    <2>2. ASSUME NEW p \in Neighbours(S) PROVE (p[1] + p[2]) \div 2 \in 0..(MaxScore + 1)
        <3>1. p[1] \in 0..MaxScore /\ p[2] \in 0..MaxScore
            BY <1>1 DEF Neighbours
        <3> QED BY <3>1, ScoresAssumed
    <2>3. /\ (IF Min(S) - 1 < 0 THEN 0 ELSE Min(S) - 1) \in 0..(MaxScore + 1)
          /\ Max(S) + 1 \in 0..(MaxScore + 1)
        BY <2>1, ScoresAssumed
    <2> QED BY <2>2, <2>3, <1>3 DEF Candidates, S
<1> QED
    BY <1>2, <1>3

\* Every gate that admits something admits what one of the candidates admits.
LEMMA CandidateForEach ==
    ASSUME NEW X \in SUBSET Labelled, NEW t \in Int, Admitted(X, t) # {}
    PROVE  \E c \in Candidates(X) : Admitted(X, c) = Admitted(X, t)
<1> DEFINE S     == Scores(X)
           above == {s \in S : s >= t}
           below == {s \in S : s < t}
<1>1. /\ S \subseteq 0..MaxScore /\ S \in SUBSET Nat
      /\ \A s \in S : s % 2 = 0
      /\ \A e \in X : e.similarity \in S
    BY ScoresAreEven
<1>2. above # {} /\ S # {}
    BY <1>1 DEF Admitted
<1> HIDE DEF S
<1>3. above \in SUBSET Nat /\ below \in SUBSET (0..MaxScore)
    BY <1>1
<1>4. PICK hi \in above : \A s \in above : hi <= s
    <2> HIDE DEF above
    <2> QED BY <1>2, <1>3, LeastOfNaturals
\* A gate above all that lies below t, and not above hi, admits what t admits.
<1>5. ASSUME NEW c \in Int, c <= hi, \A s \in below : s < c
      PROVE  Admitted(X, c) = Admitted(X, t)
    <2>1. ASSUME NEW s \in S PROVE s >= c <=> s >= t
        <3>1. s \in Int /\ hi \in Int /\ hi >= t
            BY <1>1, <1>4
        <3>2. s >= t => s >= hi
            BY <1>4
        <3>3. ~(s >= t) => s < c
            BY <1>5, <3>1
        <3> QED BY <1>5, <3>1, <3>2, <3>3
    <2> QED BY <2>1, <1>1 DEF Admitted
<1>6. CASE below = {}
    <2> DEFINE c == IF Min(S) - 1 < 0 THEN 0 ELSE Min(S) - 1
    <2>1. Min(S) \in Nat /\ Min(S) <= hi /\ hi \in Nat
        BY <1>1, <1>2, LeastOfNaturals
    <2>2. c \in Int /\ c <= hi
        BY <2>1
    <2>3. c \in Candidates(X)
        BY <1>2 DEF Candidates, S
    <2> HIDE DEF c
    <2> QED BY <2>2, <2>3, <1>5, <1>6
<1>7. CASE below # {}
    <2>1. PICK lo \in below : \A s \in below : s <= lo
        <3> HIDE DEF below
        <3> QED BY <1>3, <1>7, GreatestOfNaturals, ScoresAssumed
    <2>2. lo \in Nat /\ hi \in Nat /\ lo < hi /\ lo % 2 = 0 /\ hi % 2 = 0 /\ lo \in S /\ hi \in S
        BY <1>1, <1>4, <2>1
    <2>3. <<lo, hi>> \in Neighbours(S)
        <3>1. \A s \in S : s <= lo \/ s >= hi
            BY <1>1, <1>4, <2>1
        <3> QED BY <2>2, <3>1 DEF Neighbours
    <2> DEFINE c == (lo + hi) \div 2
    <2>4. c \in Candidates(X)
        BY <1>2, <2>3 DEF Candidates, S
    <2>5. c \in Int /\ lo < c /\ c <= hi
        BY <2>2
    <2> HIDE DEF c
    <2>6. \A s \in below : s < c
        BY <2>1, <2>2, <2>5, <1>1
    <2> QED BY <2>4, <2>5, <2>6, <1>5
<1> QED
    BY <1>6, <1>7

-----------------------------------------------------------------------------
LEMMA BetterIsAsymmetric ==
    ASSUME NEW X \in SUBSET Labelled, NEW t \in Int, NEW u \in Int, Better(F1(X, t), F1(X, u))
    PROVE  ~Better(F1(X, u), F1(X, t))
<1>1. /\ F1(X, t).num \in Int /\ F1(X, t).den \in Int
      /\ F1(X, u).num \in Int /\ F1(X, u).den \in Int
    <2>1. ASSUME NEW v \in Int PROVE F1(X, v).num \in Int /\ F1(X, v).den \in Int
        <3>1. /\ TruePositives(X, v) \in Nat /\ FalsePositives(X, v) \in Nat
              /\ FalseNegatives(X, v) \in Nat
            BY <2>1, Counted, Zenon
        <3> QED BY <3>1 DEF F1
    <2> QED BY <2>1
<1>2. \A x, y \in Int : x * y \in Int
    OBVIOUS
<1> QED
    BY <1>1, <1>2 DEF Better

\* Without false positives, F1 grows with what is found, and a lower gate finds no less.
LEMMA LowerIsNoWorse ==
    ASSUME NEW X \in SUBSET Labelled, NEW t \in Int, NEW u \in Int, t <= u,
           FalsePositives(X, t) = 0, FalsePositives(X, u) = 0
    PROVE  ~Better(F1(X, u), F1(X, t))
<1> DEFINE a == TruePositives(X, u)
           b == TruePositives(X, t)
           p == Cardinality(Positives(X))
<1>1. a \in Nat /\ b \in Nat /\ p \in Nat
    BY Counted
<1>2. a <= b
    <2>1. Positives(Admitted(X, u)) \subseteq Positives(Admitted(X, t))
        <3>1. \A e \in X : e.similarity \in Int
            BY LabelledAssumed
        <3> QED BY <3>1 DEF Admitted, Positives
    <2>2. IsFiniteSet(Positives(Admitted(X, t)))
        <3>1. Positives(Admitted(X, t)) \subseteq Labelled
            BY DEF Admitted, Positives
        <3> QED BY <3>1, LabelledAssumed, FS_Subset
    <2> QED BY <2>1, <2>2, FS_Subset DEF TruePositives
<1>3. /\ F1(X, u).num = 2 * a /\ F1(X, u).den = a + p
      /\ F1(X, t).num = 2 * b /\ F1(X, t).den = b + p
    <2>1. FalseNegatives(X, u) = p - a /\ FalseNegatives(X, t) = p - b
        BY Counted
    <2>2. /\ F1(X, u).num = 2 * a /\ F1(X, u).den = 2 * a + 0 + (p - a)
          /\ F1(X, t).num = 2 * b /\ F1(X, t).den = 2 * b + 0 + (p - b)
        BY <2>1 DEF F1
    <2> HIDE DEF a, b, p
    <2> QED BY <1>1, <2>2
<1> HIDE DEF a, b, p
<1>4. a * p <= b * p
    BY <1>1, <1>2
<1>5. (2 * a) * (b + p) = 2 * (a * b) + 2 * (a * p) /\ (2 * b) * (a + p) = 2 * (a * b) + 2 * (b * p)
    BY <1>1
<1>6. a * b \in Int /\ a * p \in Int /\ b * p \in Int
    BY <1>1
<1>7. ~((2 * a) * (b + p) > (2 * b) * (a + p))
    BY <1>4, <1>5, <1>6
<1> QED
    BY <1>3, <1>7 DEF Better

\* The lowest of the eligible is recommended.
LEMMA SomethingIsRecommended ==
    ASSUME NEW X \in SUBSET Labelled, Eligible(X) # {}
    PROVE  Recommended(X) # {}
<1>1. Eligible(X) \in SUBSET Nat
    BY CandidatesAreGates, ScoresAssumed DEF Eligible
<1>2. PICK m \in Eligible(X) : \A u \in Eligible(X) : m <= u
    BY <1>1, LeastOfNaturals
<1>3. ASSUME NEW u \in Eligible(X) PROVE ~Better(F1(X, u), F1(X, m)) /\ m <= u
    BY <1>1, <1>2, LowerIsNoWorse DEF Eligible
<1>4. m \in Recommended(X)
    BY <1>3 DEF Recommended
<1> QED
    BY <1>4

\* A gate of every calibration that could be run on these examples.
LEMMA CalibratedIsBest ==
    ASSUME NEW X \in SUBSET Labelled
    PROVE  LET clean == {t \in 0..(MaxScore + 1) : FalsePositives(X, t) = 0
                                                   /\ TruePositives(X, t) > 0}
           IN IF Recommended(X) = {} THEN clean = {}
              ELSE /\ CalibratedThreshold(X) \in clean
                   /\ \A t \in clean : ~Better(F1(X, t), F1(X, CalibratedThreshold(X)))
<1> DEFINE clean == {t \in 0..(MaxScore + 1) : FalsePositives(X, t) = 0
                                               /\ TruePositives(X, t) > 0}
<1>1. ASSUME NEW t \in clean
      PROVE  \E c \in Eligible(X) : F1(X, c) = F1(X, t)
    <2>1. t \in Int /\ Admitted(X, t) # {}
        <3>1. Admitted(X, t) = {} => Positives(Admitted(X, t)) = {}
            BY DEF Positives
        <3> QED BY <3>1, FS_EmptySet DEF TruePositives
    <2>2. PICK c \in Candidates(X) : Admitted(X, c) = Admitted(X, t)
        BY <2>1, CandidateForEach
    <2> QED BY <2>2, CountsAreOfAdmitted DEF Eligible
<1>2. CASE Recommended(X) = {}
    BY <1>1, <1>2, SomethingIsRecommended
<1>3. CASE Recommended(X) # {}
    <2>1. PICK g : g = CalibratedThreshold(X)
        OBVIOUS
    <2>2. g \in Recommended(X)
        BY <1>3, <2>1 DEF CalibratedThreshold
    <2>3. g \in Eligible(X) /\ g \in 0..(MaxScore + 1)
        BY <2>2, CandidatesAreGates DEF Recommended, Eligible
    <2>4. g \in clean
        BY <2>3 DEF Eligible
    <2>5. ASSUME NEW t \in clean PROVE ~Better(F1(X, t), F1(X, g))
        <3>1. PICK c \in Eligible(X) : F1(X, c) = F1(X, t)
            BY <1>1
        <3>2. c \in Int /\ g \in Int
            BY <2>3, CandidatesAreGates DEF Eligible
        <3>3. Better(F1(X, g), F1(X, c)) \/ ~Better(F1(X, c), F1(X, g))
            BY <2>2 DEF Recommended
        <3> QED BY <3>1, <3>2, <3>3, BetterIsAsymmetric
    <2> QED BY <1>3, <2>1, <2>4, <2>5
<1> QED
    BY <1>2, <1>3

GateInv ==
    /\ examples \subseteq Labelled
    /\ outcome = "calibrated" => threshold = CalibratedThreshold(examples)

\* Whatever examples a calibration was given: the gate it sets admits no negative, none that
\* admits no negative has a better F1, and it recommends nothing only when no gate would do
\* (_candidate_thresholds, _recommend, calibrate_threshold).
THEOREM CalibratedGateIsBest == Spec => []GateIsBest
<1>1. Init => GateInv
    BY DEF Init, GateInv
<1>2. GateInv /\ [Next]_vars => GateInv'
    <2> SUFFICES ASSUME GateInv, [Next]_vars PROVE GateInv'
        OBVIOUS
    <2>1. CASE Label
        BY <2>1 DEF Label, GateInv
    <2>2. CASE Calibrate
        BY <2>2 DEF Calibrate, GateInv
    <2>3. CASE Preset
        BY <2>3 DEF Preset, GateInv
    <2>4. CASE Configure
        BY <2>4 DEF Configure, GateInv
    <2>5. CASE Observe \/ ObserveNothing \/ Embed \/ Judge \/ Retry
        <3>1. UNCHANGED <<examples, outcome, threshold>> /\ outcome = "detecting"
            BY <2>5 DEF Observe, ObserveNothing, Embed, Judge, Retry, Idle
        <3> QED BY <3>1 DEF GateInv
    <2>6. CASE Raise
        BY <2>6 DEF Raise, GateInv
    <2>7. CASE Finish
        BY <2>7 DEF Finish, GateInv
    <2>8. CASE UNCHANGED vars
        BY <2>8 DEF vars, GateInv
    <2> QED BY <2>1, <2>2, <2>3, <2>4, <2>5, <2>6, <2>7, <2>8 DEF Next
<1>3. GateInv => GateIsBest
    <2> SUFFICES ASSUME GateInv, outcome = "calibrated" PROVE GateIsBest
        BY DEF GateIsBest
    <2>1. examples \in SUBSET Labelled /\ threshold = CalibratedThreshold(examples)
        BY DEF GateInv
    <2> QED BY <2>1, CalibratedIsBest DEF GateIsBest
<1> QED
    BY <1>1, <1>2, <1>3, PTL DEF Spec

-----------------------------------------------------------------------------
(* Deduplication. *)

IsFinding(f) ==
    /\ f = [id |-> f.id, status |-> f.status, severity |-> f.severity, confidence |-> f.confidence,
            evidence |-> f.evidence, techniques |-> f.techniques]
    /\ f.status \in {"confirmed", "unverified"} /\ f.severity \in Nat /\ f.confidence \in Int

IsList(s) == Len(s) \in Nat /\ DOMAIN s = 1..Len(s) /\ \A i \in 1..Len(s) : IsFinding(s[i])

\* f is the verdict on its id, of the first n findings: the gravest there is, with the
\* techniques of those that reached it.
IsVerdict(f, n, findings) ==
    /\ \E k \in 1..n : findings[k].id = f.id
    /\ \A k \in 1..n : findings[k].id = f.id => ~Stronger(findings[k], f)
    /\ f.techniques = UNION {findings[k].techniques :
           k \in {l \in 1..n : findings[l].id = f.id /\ findings[l].status = f.status}}

Deduped(n, findings, best) ==
    /\ IsList(best)
    /\ \A i, j \in 1..Len(best) : best[i].id = best[j].id => i = j
    /\ \A k \in 1..n : \E i \in 1..Len(best) : best[i].id = findings[k].id
    /\ \A i \in 1..Len(best) : IsVerdict(best[i], n, findings)

LEMMA StrongerMeans ==
    ASSUME NEW f, NEW g, IsFinding(f), IsFinding(g)
    PROVE  Stronger(f, g) <=>
               \/ f.status = "confirmed" /\ g.status # "confirmed"
               \/ /\ f.status = g.status
                  /\ \/ f.severity > g.severity
                     \/ f.severity = g.severity /\ f.confidence > g.confidence
BY DEF Stronger, Strength, IsFinding

\* Being stronger is a strict order on findings.
LEMMA StrongerOrders ==
    ASSUME NEW f, NEW g, NEW h, IsFinding(f), IsFinding(g), IsFinding(h)
    PROVE  /\ Stronger(h, g) /\ Stronger(g, f) => Stronger(h, f)
           /\ ~Stronger(f, f) /\ (Stronger(g, f) => ~Stronger(f, g))
<1>1. /\ f.severity \in Int /\ g.severity \in Int /\ h.severity \in Int
      /\ f.confidence \in Int /\ g.confidence \in Int /\ h.confidence \in Int
    BY DEF IsFinding
<1>2. Stronger(h, g) /\ Stronger(g, f) => Stronger(h, f)
    <2> SUFFICES ASSUME Stronger(h, g), Stronger(g, f) PROVE Stronger(h, f)
        OBVIOUS
    <2>1. CASE h.status = g.status /\ g.status = f.status
        BY <1>1, <2>1, StrongerMeans
    <2>2. CASE h.status # g.status \/ g.status # f.status
        BY <2>2, StrongerMeans
    <2> QED BY <2>1, <2>2
<1>3. ~Stronger(f, f)
    BY <1>1, StrongerMeans
<1>4. Stronger(g, f) => ~Stronger(f, g)
    BY <1>1, StrongerMeans
<1> QED BY <1>2, <1>3, <1>4

\* A verdict stays one when another finding of its id is merged into it, ...
LEMMA MergedVerdict ==
    ASSUME NEW n \in Nat, NEW findings, IsList(findings), n + 1 <= Len(findings),
           NEW f, IsFinding(f), IsVerdict(f, n, findings), findings[n + 1].id = f.id
    PROVE  /\ IsFinding(Merge(f, findings[n + 1])) /\ Merge(f, findings[n + 1]).id = f.id
           /\ IsVerdict(Merge(f, findings[n + 1]), n + 1, findings)
<1> DEFINE g == findings[n + 1]
           w == IF Stronger(g, f) THEN g ELSE f
           m == Merge(f, g)
           of(k) == findings[k].id = f.id
<1>1. /\ n + 1 \in 1..(n + 1) /\ n + 1 \in 1..Len(findings) /\ IsFinding(g) /\ g.id = f.id
      /\ \A k \in 1..n : k \in 1..Len(findings) /\ IsFinding(findings[k])
      /\ \A k \in 1..(n + 1) : k \in 1..n \/ k = n + 1
      /\ 1..n \subseteq 1..(n + 1)
    BY DEF IsList
<1>2. IsFinding(w) /\ w.id = f.id /\ w \in {f, g}
    BY <1>1
<1>3. /\ IsFinding(m) /\ m.id = f.id /\ m.status = w.status
      /\ m.severity = w.severity /\ m.confidence = w.confidence
      /\ m.techniques = IF f.status = g.status THEN f.techniques \cup g.techniques ELSE w.techniques
    <2>1. CASE f.status = g.status
        <3> HIDE DEF g
        <3>1. m = [w EXCEPT !.techniques = f.techniques \cup g.techniques]
            BY <2>1 DEF Merge
        <3> HIDE DEF w, m
        <3>2. m = [id |-> w.id, status |-> w.status, severity |-> w.severity,
                   confidence |-> w.confidence, evidence |-> w.evidence,
                   techniques |-> f.techniques \cup g.techniques]
            BY <3>1, <1>2 DEF IsFinding
        <3> QED BY <2>1, <3>2, <1>2 DEF IsFinding
    <2>2. CASE f.status # g.status
        <3>1. m = w
            BY <2>2 DEF Merge
        <3> HIDE DEF w, m, g
        <3> QED BY <2>2, <3>1, <1>2
    <2> QED BY <2>1, <2>2
<1>4. ~Stronger(g, w) /\ (~Stronger(f, w)) /\ \A k \in 1..n : of(k) => ~Stronger(findings[k], w)
    <2>1. \A k \in 1..n : of(k) => ~Stronger(findings[k], f)
        BY DEF IsVerdict
    <2>2. \A k \in 1..n : of(k) => ~Stronger(findings[k], w)
        <3> SUFFICES ASSUME NEW k \in 1..n, of(k) PROVE ~Stronger(findings[k], w)
            OBVIOUS
        <3> DEFINE h == findings[k]
        <3>1. IsFinding(h) /\ ~Stronger(h, f)
            BY <1>1, <2>1
        <3> HIDE DEF h, g
        <3>2. CASE Stronger(g, f)
            <4>1. ~Stronger(h, g)
                BY <3>1, <3>2, <1>1, StrongerOrders
            <4> QED BY <4>1, <3>2 DEF h
        <3>3. CASE ~Stronger(g, f)
            BY <3>1, <3>3 DEF h
        <3> QED BY <3>2, <3>3
    <2>3. ~Stronger(g, w) /\ ~Stronger(f, w)
        <3> HIDE DEF g
        <3> QED BY <1>1, StrongerOrders
    <2> QED BY <2>2, <2>3
<1>5. \A h : IsFinding(h) => (Stronger(h, m) <=> Stronger(h, w))
    <2> HIDE DEF w, m, g
    <2> QED BY <1>2, <1>3, StrongerMeans
<1>6. \A k \in 1..(n + 1) : findings[k].id = m.id => ~Stronger(findings[k], m)
    <2> SUFFICES ASSUME NEW k \in 1..(n + 1), findings[k].id = m.id
                 PROVE  ~Stronger(findings[k], m)
        OBVIOUS
    <2>1. IsFinding(findings[k]) /\ of(k)
        BY <1>1, <1>3
    <2>2. ~Stronger(findings[k], w)
        BY <1>1, <1>4, <2>1
    <2> HIDE DEF w, m
    <2> QED BY <1>5, <2>1, <2>2
<1>7. m.techniques = UNION {findings[k].techniques :
           k \in {l \in 1..(n + 1) : findings[l].id = m.id /\ findings[l].status = m.status}}
    <2> DEFINE Agree(s, p) == {l \in 1..p : findings[l].id = f.id /\ findings[l].status = s}
    <2>1. f.techniques = UNION {findings[k].techniques : k \in Agree(f.status, n)}
        BY DEF IsVerdict
    <2>2. Agree(m.status, n + 1) = Agree(m.status, n) \cup (IF g.status = m.status THEN {n + 1} ELSE {})
        BY <1>1
    <2>3. CASE f.status = g.status
        <3>1. m.status = f.status /\ g.status = m.status
            BY <1>2, <1>3, <2>3
        <3>2. Agree(m.status, n + 1) = Agree(f.status, n) \cup {n + 1}
            BY <2>2, <3>1
        <3>3. m.techniques = f.techniques \cup findings[n + 1].techniques
            BY <1>3, <2>3
        <3> HIDE DEF m, Agree
        <3>4. m.techniques = UNION {findings[k].techniques : k \in Agree(m.status, n + 1)}
            BY <2>1, <3>2, <3>3
        <3> QED BY <3>4, <1>3 DEF Agree
    <2>4. CASE f.status # g.status /\ Stronger(g, f)
        <3>1. w = g /\ m.status = g.status /\ m.techniques = findings[n + 1].techniques
            BY <1>3, <2>4
        <3>2. g.status = "confirmed" /\ f.status # "confirmed"
            <4> HIDE DEF g
            <4> QED BY <1>1, <2>4, StrongerMeans
        <3>3. Agree(m.status, n) = {}
            <4> SUFFICES ASSUME NEW k \in 1..n, of(k), findings[k].status = "confirmed" PROVE FALSE
                BY <3>1, <3>2
            <4>1. IsFinding(findings[k]) /\ ~Stronger(findings[k], f)
                BY <1>1 DEF IsVerdict
            <4> QED BY <4>1, <3>2, StrongerMeans
        <3>4. Agree(m.status, n + 1) = {n + 1}
            BY <2>2, <3>1, <3>3
        <3> HIDE DEF m, Agree
        <3>5. m.techniques = UNION {findings[k].techniques : k \in Agree(m.status, n + 1)}
            BY <3>1, <3>4
        <3> QED BY <3>5, <1>3 DEF Agree
    <2>5. CASE f.status # g.status /\ ~Stronger(g, f)
        <3>1. w = f /\ m.status = f.status /\ m.techniques = f.techniques
            BY <1>3, <2>5
        <3>2. Agree(m.status, n + 1) = Agree(f.status, n)
            BY <2>2, <2>5, <3>1
        <3> HIDE DEF m, Agree
        <3>3. m.techniques = UNION {findings[k].techniques : k \in Agree(m.status, n + 1)}
            BY <2>1, <3>1, <3>2
        <3> QED BY <3>3, <1>3 DEF Agree
    <2> QED BY <2>3, <2>4, <2>5
<1>8. \E k \in 1..(n + 1) : findings[k].id = m.id
    BY <1>1, <1>3
<1> QED
    BY <1>3, <1>6, <1>7, <1>8 DEF IsVerdict

\* ... and of another id, with whatever findings of other ids come after it.
LEMMA OtherVerdict ==
    ASSUME NEW n \in Nat, NEW findings, IsList(findings), n + 1 <= Len(findings),
           NEW f, IsFinding(f), IsVerdict(f, n, findings), findings[n + 1].id # f.id
    PROVE  IsVerdict(f, n + 1, findings)
<1> DEFINE Agree(p) == {l \in 1..p : findings[l].id = f.id /\ findings[l].status = f.status}
<1>1. \A k \in 1..(n + 1) : k \in 1..n \/ k = n + 1
    OBVIOUS
<1>2. 1..n \subseteq 1..(n + 1)
    OBVIOUS
<1>3. Agree(n + 1) = Agree(n)
    BY <1>1, <1>2
<1>4. f.techniques = UNION {findings[k].techniques : k \in Agree(n)}
    BY DEF IsVerdict
<1>5. f.techniques = UNION {findings[k].techniques : k \in Agree(n + 1)}
    BY <1>3, <1>4
<1>6. \A k \in 1..(n + 1) : findings[k].id = f.id => ~Stronger(findings[k], f)
    BY <1>1 DEF IsVerdict
<1>7. \E k \in 1..(n + 1) : findings[k].id = f.id
    BY <1>2 DEF IsVerdict
<1> QED
    BY <1>5, <1>6, <1>7 DEF IsVerdict

\* The first finding of an id is the verdict on it.
LEMMA FirstVerdict ==
    ASSUME NEW n \in Nat, NEW findings, IsList(findings), n + 1 <= Len(findings),
           \A k \in 1..n : findings[k].id # findings[n + 1].id
    PROVE  IsVerdict(findings[n + 1], n + 1, findings)
<1> DEFINE g == findings[n + 1]
           Agree == {l \in 1..(n + 1) : findings[l].id = g.id /\ findings[l].status = g.status}
<1>1. n + 1 \in 1..(n + 1) /\ IsFinding(g)
    BY DEF IsList
<1>2. \A k \in 1..(n + 1) : findings[k].id = g.id => k = n + 1
    OBVIOUS
<1>3. Agree = {n + 1}
    BY <1>1, <1>2
<1>4. g.techniques = UNION {findings[k].techniques : k \in Agree}
    BY <1>3
<1>5. ~Stronger(g, g)
    <2> HIDE DEF g
    <2> QED BY <1>1, StrongerMeans DEF IsFinding
<1>6. \A k \in 1..(n + 1) : findings[k].id = g.id => ~Stronger(findings[k], g)
    BY <1>2, <1>5
<1> QED
    BY <1>1, <1>4, <1>6 DEF IsVerdict

\* Each step of the fold keeps one verdict per id.
LEMMA AddKeepsDeduped ==
    ASSUME NEW n \in Nat, NEW findings, IsList(findings), n + 1 <= Len(findings),
           NEW best, Deduped(n, findings, best)
    PROVE  Deduped(n + 1, findings, AddFinding(best, findings[n + 1]))
<1> DEFINE g == findings[n + 1]
           new == AddFinding(best, g)
<1>1. n + 1 \in 1..Len(findings) /\ IsFinding(g) /\ \A k \in 1..(n + 1) : k \in 1..n \/ k = n + 1
    BY DEF IsList
<1>2. /\ Len(best) \in Nat /\ DOMAIN best = 1..Len(best)
      /\ \A i \in 1..Len(best) : IsFinding(best[i]) /\ IsVerdict(best[i], n, findings)
      /\ \A i, j \in 1..Len(best) : best[i].id = best[j].id => i = j
      /\ \A k \in 1..n : \E i \in 1..Len(best) : best[i].id = findings[k].id
    BY DEF Deduped, IsList
<1>3. CASE \E i \in 1..Len(best) : best[i].id = g.id
    <2>1. new = [i \in 1..Len(best) |-> IF best[i].id = g.id THEN Merge(best[i], g) ELSE best[i]]
        BY <1>2, <1>3 DEF AddFinding
    <2>2. Len(new) = Len(best) /\ DOMAIN new = 1..Len(new)
        <3> HIDE DEF new, g
        <3> QED BY <2>1, <1>2
    <2>3. \A i \in 1..Len(best) :
              IsFinding(new[i]) /\ new[i].id = best[i].id /\ IsVerdict(new[i], n + 1, findings)
        <3> SUFFICES ASSUME NEW i \in 1..Len(best)
                     PROVE  IsFinding(new[i]) /\ new[i].id = best[i].id
                            /\ IsVerdict(new[i], n + 1, findings)
            OBVIOUS
        <3>1. CASE best[i].id = g.id
            <4>1. new[i] = Merge(best[i], findings[n + 1])
                BY <2>1, <3>1
            <4> HIDE DEF new
            <4> QED BY <4>1, <3>1, <1>2, MergedVerdict
        <3>2. CASE best[i].id # g.id
            <4>1. new[i] = best[i]
                BY <2>1, <3>2
            <4> HIDE DEF new
            <4> QED BY <4>1, <3>2, <1>2, OtherVerdict
        <3> QED BY <3>1, <3>2
    <2> HIDE DEF new
    <2>4. \A i, j \in 1..Len(new) : new[i].id = new[j].id => i = j
        BY <2>2, <2>3, <1>2
    <2>5. \A k \in 1..(n + 1) : \E i \in 1..Len(new) : new[i].id = findings[k].id
        BY <2>2, <2>3, <1>1, <1>2, <1>3
    <2>6. IsList(new)
        BY <2>2, <2>3, <1>2 DEF IsList
    <2>7. Deduped(n + 1, findings, new)
        BY <2>2, <2>3, <2>4, <2>5, <2>6 DEF Deduped
    <2> QED BY <2>7 DEF new
<1>4. CASE \A i \in 1..Len(best) : best[i].id # g.id
    <2>1. new = Append(best, g)
        BY <1>2, <1>4 DEF AddFinding
    <2>2. /\ Len(new) = Len(best) + 1 /\ DOMAIN new = 1..Len(new)
          /\ new[Len(best) + 1] = g /\ \A i \in 1..Len(best) : new[i] = best[i]
        <3> HIDE DEF new, g
        <3> QED BY <2>1, <1>2
    <2>3. \A k \in 1..n : findings[k].id # g.id
        BY <1>2, <1>4
    <2>4. IsVerdict(g, n + 1, findings)
        BY <2>3, FirstVerdict
    <2>5. \A i \in 1..Len(best) : IsVerdict(best[i], n + 1, findings)
        BY <1>2, <1>4, OtherVerdict
    <2> HIDE DEF new
    <2>6. \A i \in 1..Len(new) : i \in 1..Len(best) \/ i = Len(best) + 1
        BY <2>2, <1>2
    <2>7. \A i \in 1..Len(new) : IsFinding(new[i]) /\ IsVerdict(new[i], n + 1, findings)
        BY <2>2, <2>4, <2>5, <2>6, <1>1, <1>2
    <2>8. \A i, j \in 1..Len(new) : new[i].id = new[j].id => i = j
        BY <2>2, <2>6, <1>2, <1>4
    <2>9. \A k \in 1..(n + 1) : \E i \in 1..Len(new) : new[i].id = findings[k].id
        <3>1. Len(best) + 1 \in 1..Len(new) /\ 1..Len(best) \subseteq 1..Len(new)
            BY <2>2, <1>2
        <3> QED BY <3>1, <2>2, <1>1, <1>2
    <2>10. IsList(new)
        BY <2>2, <2>7, <1>2 DEF IsList
    <2>11. Deduped(n + 1, findings, new)
        BY <2>7, <2>8, <2>9, <2>10 DEF Deduped
    <2> QED BY <2>11 DEF new
<1> QED
    BY <1>3, <1>4


\* The fold exists, by the least number of findings for which it would not, ...
LEMMA FoldExists ==
    ASSUME NEW findings, Len(findings) \in Nat
    PROVE  \E best : best = [n \in 0..Len(findings) |->
                                IF n = 0 THEN <<>> ELSE AddFinding(best[n - 1], findings[n])]
<1> DEFINE Folds(m, b) == b = [n \in 0..m |-> IF n = 0 THEN <<>>
                                              ELSE AddFinding(b[n - 1], findings[n])]
           Never == {m \in Nat : ~(\E b : Folds(m, b))}
<1>1. SUFFICES ASSUME Never # {} PROVE FALSE
    OBVIOUS
<1>2. PICK m \in Never : \A x \in Never : m <= x
    <2>1. Never \in SUBSET Nat
        OBVIOUS
    <2> HIDE DEF Never
    <2> QED BY <1>1, <2>1, LeastOfNaturals
<1>3. m # 0
    <2>1. Folds(0, [n \in 0..0 |-> <<>>])
        OBVIOUS
    <2> HIDE DEF Folds
    <2> QED BY <2>1
<1>4. m \in Nat /\ m - 1 \in Nat /\ m - 1 \notin Never
    BY <1>2, <1>3
<1>5. PICK b : Folds(m - 1, b)
    BY <1>4
<1> DEFINE c == [n \in 0..m |-> IF n = m THEN AddFinding(b[m - 1], findings[m]) ELSE b[n]]
<1>6. \A n \in 0..m : n # m => n \in 0..(m - 1) /\ c[n] = b[n]
    BY <1>4
<1>7. \A n \in 0..m : c[n] = IF n = 0 THEN <<>> ELSE AddFinding(c[n - 1], findings[n])
    <2> SUFFICES ASSUME NEW n \in 0..m
                 PROVE  c[n] = IF n = 0 THEN <<>> ELSE AddFinding(c[n - 1], findings[n])
        OBVIOUS
    <2>1. n # 0 => n - 1 \in 0..m /\ n - 1 # m
        BY <1>4
    <2>2. n # 0 => c[n - 1] = b[n - 1]
        <3> HIDE DEF c
        <3> QED BY <2>1, <1>6
    <2>3. CASE n = m
        BY <2>2, <2>3, <1>3
    <2>4. CASE n # m
        <3>1. n \in 0..(m - 1) /\ c[n] = b[n]
            BY <2>4, <1>6
        <3>2. b[n] = IF n = 0 THEN <<>> ELSE AddFinding(b[n - 1], findings[n])
            BY <3>1, <1>5
        <3> HIDE DEF c
        <3> QED BY <3>1, <3>2, <2>2
    <2> QED BY <2>3, <2>4
<1>8. Folds(m, c)
    <2>1. c = [n \in 0..m |-> c[n]]
        OBVIOUS
    <2> HIDE DEF c
    <2> QED BY <1>7, <2>1
<1> HIDE DEF Folds
<1> QED BY <1>8, <1>2

\* ... and what it comes to has one verdict per id.
LEMMA DedupedFindings ==
    ASSUME NEW findings, IsList(findings)
    PROVE  Deduped(Len(findings), findings, DedupeFindings(findings))
<1> DEFINE N == Len(findings)
           Folds(b) == b = [n \in 0..N |-> IF n = 0 THEN <<>> ELSE AddFinding(b[n - 1], findings[n])]
           best == CHOOSE b : Folds(b)
           Wrong == {n \in 0..N : ~Deduped(n, findings, best[n])}
<1>1. N \in Nat
    BY DEF IsList
<1>2. Folds(best)
    <2>1. \E b : Folds(b)
        BY <1>1, FoldExists
    <2> HIDE DEF Folds
    <2> QED BY <2>1
<1>3. DedupeFindings(findings) = best[N]
    BY DEF DedupeFindings
<1> HIDE DEF best
<1>4. \A n \in 0..N : best[n] = IF n = 0 THEN <<>> ELSE AddFinding(best[n - 1], findings[n])
    BY <1>2
<1>5. Wrong = {}
    <2> SUFFICES ASSUME Wrong # {} PROVE FALSE
        OBVIOUS
    <2>1. PICK m \in Wrong : \A x \in Wrong : m <= x
        <3>1. Wrong \in SUBSET Nat
            OBVIOUS
        <3> HIDE DEF Wrong
        <3> QED BY <3>1, LeastOfNaturals
    <2>2. m \in 0..N
        OBVIOUS
    <2>3. m # 0
        <3>1. best[0] = <<>>
            BY <1>1, <1>4
        <3>2. Deduped(0, findings, <<>>)
            BY DEF Deduped, IsList
        <3> QED BY <3>1, <3>2
    <2>4. m - 1 \in Nat /\ m - 1 \in 0..N /\ (m - 1) + 1 = m /\ m - 1 \notin Wrong
        BY <2>1, <2>2, <2>3, <1>1
    <2>5. Deduped(m - 1, findings, best[m - 1])
        BY <2>4
    <2>6. best[m] = AddFinding(best[m - 1], findings[m])
        BY <2>2, <2>3, <1>4
    <2>7. Deduped(m, findings, best[m])
        BY <2>2, <2>4, <2>5, <2>6, AddKeepsDeduped
    <2> QED BY <2>7
<1>6. N \in 0..N
    BY <1>1
<1> QED
    BY <1>3, <1>5, <1>6

-----------------------------------------------------------------------------
(* What detect() finds is a list of findings. *)

LEMMA ListOfFindings ==
    ASSUME NEW n \in Nat, NEW s, DOMAIN s = 1..n, s = [i \in 1..n |-> s[i]],
           \A i \in 1..n : IsFinding(s[i])
    PROVE  IsList(s)
<1>1. s \in Seq({s[i] : i \in 1..n})
    <2>1. s \in [1..n -> {s[i] : i \in 1..n}]
        OBVIOUS
    <2> QED BY <2>1
<1>2. Len(s) = n
    BY <1>1
<1> QED
    BY <1>2 DEF IsList

LEMMA IsAFinding ==
    ASSUME NEW marker, NEW step, NEW status \in {"confirmed", "unverified"}, NEW severity \in Nat,
           NEW confidence \in Int, NEW evidence
    PROVE  IsFinding(Finding(marker, step, status, severity, confidence, evidence))
BY DEF IsFinding, Finding

LEMMA HitsAreFindings ==
    ASSUME NEW step, NEW text
    PROVE  IsList(ExactHits(step, text)) /\ IsList(SecretHits(step, text)) /\ IsList(EmptyAmbiguity(step))
<1>1. IsList(ExactHits(step, text))
    <2> DEFINE Test(m) == residual_present(m.tokens, text)
               hits == SelectSeq(Foreign(step.observer, "hard"), Test)
               found == [i \in DOMAIN hits |->
                             Finding(hits[i], step, "confirmed", 4, MaxScore, Plaintext(hits[i]))]
    <2>1. Len(hits) \in Nat /\ DOMAIN hits = 1..Len(hits)
        BY SequencesAssumed
    <2>2. ExactHits(step, text) = found
        BY DEF ExactHits
    <2> HIDE DEF hits
    <2>3. \A i \in 1..Len(hits) : IsFinding(found[i])
        BY <2>1, IsAFinding, ScoresAssumed
    <2>4. DOMAIN found = 1..Len(hits) /\ found = [i \in 1..Len(hits) |-> found[i]]
        BY <2>1
    <2> HIDE DEF found
    <2> QED BY <2>1, <2>2, <2>3, <2>4, ListOfFindings
<1>2. IsList(SecretHits(step, text))
    <2> DEFINE Test(m) == \/ residual_present(m.tokens, text)
                          \/ Within(Spelled(m.tokens), Spelled(text.tokens))
               hits == SelectSeq(Foreign(step.observer, "secret"), Test)
               found == [i \in DOMAIN hits |->
                             Finding(hits[i], step, "confirmed", 4, MaxScore, Redacted)]
    <2>1. Len(hits) \in Nat /\ DOMAIN hits = 1..Len(hits)
        BY SequencesAssumed
    <2>2. SecretHits(step, text) = found
        BY DEF SecretHits
    <2> HIDE DEF hits
    <2>3. \A i \in 1..Len(hits) : IsFinding(found[i])
        BY <2>1, IsAFinding, ScoresAssumed
    <2>4. DOMAIN found = 1..Len(hits) /\ found = [i \in 1..Len(hits) |-> found[i]]
        BY <2>1
    <2> HIDE DEF found
    <2> QED BY <2>1, <2>2, <2>3, <2>4, ListOfFindings
<1>3. IsList(EmptyAmbiguity(step))
    <2> DEFINE Test(m) == m.id = step.target /\ is_cross_principal(m, step.observer)
               targets == SelectSeq(Markers, Test)
               found == [i \in DOMAIN targets |->
                  [Finding(targets[i], step, "unverified", 0, 0, Said("ambiguous"))
                     EXCEPT !.id = <<"empty", @[1], @[2]>>]]
    <2>1. Len(targets) \in Nat /\ DOMAIN targets = 1..Len(targets)
        BY SequencesAssumed
    <2>2. EmptyAmbiguity(step) = found
        BY DEF EmptyAmbiguity
    <2> HIDE DEF targets
    <2>3. \A i \in 1..Len(targets) : IsFinding(found[i])
        BY <2>1 DEF IsFinding, Finding
    <2>4. DOMAIN found = 1..Len(targets) /\ found = [i \in 1..Len(targets) |-> found[i]]
        BY <2>1
    <2> HIDE DEF found
    <2> QED BY <2>1, <2>2, <2>3, <2>4, ListOfFindings
<1> QED
    BY <1>1, <1>2, <1>3

LEMMA JoinedLists ==
    ASSUME NEW r, NEW s, IsList(r), IsList(s)
    PROVE  IsList(r \o s)
BY DEF IsList

LEMMA LongerList ==
    ASSUME NEW r, NEW f, IsList(r), IsFinding(f)
    PROVE  IsList(Append(r, f))
BY DEF IsList

LEMMA WeighedIsFinding ==
    ASSUME NEW step, NEW marker, NEW text, NEW similarity \in 0..MaxScore, NEW verdict
    PROVE  IsFinding(SemanticFinding(step, marker, text, similarity, verdict))
BY ScoresAssumed DEF IsFinding, SemanticFinding, Finding


\* Why the findings can be collapsed: they are findings, and what they were weighed with
\* is a score.
DetectInv ==
    /\ IsList(raw)
    /\ call \in [to : {"none", "embedder", "judge"}, tries : Nat, similarity : 0..MaxScore]
    /\ outcome = "detected" => result = DedupeFindings(raw)

LEMMA DetectInvInit == Init => DetectInv
BY ScoresAssumed DEF Init, DetectInv, IsList, NoCall

LEMMA DetectInvNext == DetectInv /\ [Next]_vars => DetectInv'
<1> SUFFICES ASSUME DetectInv, [Next]_vars PROVE DetectInv'
    OBVIOUS
<1> DEFINE CallsMade == [to : {"none", "embedder", "judge"}, tries : Nat, similarity : 0..MaxScore]
<1>1. NoCall \in CallsMade /\ [NoCall EXCEPT !.to = "embedder"] \in CallsMade
    BY ScoresAssumed DEF NoCall
<1>2. IsList(raw) /\ call \in CallsMade /\ (outcome = "detected" => result = DedupeFindings(raw))
    BY DEF DetectInv
<1>3. CASE Label \/ Calibrate \/ Preset \/ Configure
    BY <1>2, <1>3 DEF Label, Calibrate, Preset, Configure, DetectInv
<1>4. CASE Observe
    <2> DEFINE step == steps[Len(texts) + 1]
    <2>1. PICK text \in Texts : raw' = raw \o ExactHits(step, text) \o SecretHits(step, text)
        BY <1>4 DEF Observe
    <2>2. call' \in {NoCall, [NoCall EXCEPT !.to = "embedder"]} /\ outcome' # "detected"
        BY <1>4 DEF Observe, Idle
    <2> HIDE DEF step
    <2>3. IsList(raw \o ExactHits(step, text))
        BY <1>2, HitsAreFindings, JoinedLists
    <2>4. IsList(raw')
        BY <2>1, <2>3, HitsAreFindings, JoinedLists
    <2> QED BY <1>1, <2>2, <2>4 DEF DetectInv
<1>5. CASE ObserveNothing
    <2>1. raw' = raw \o EmptyAmbiguity(steps[Len(texts) + 1]) /\ call' = call /\ outcome' # "detected"
        BY <1>5 DEF ObserveNothing, Idle
    <2>2. IsList(raw')
        BY <1>2, <2>1, HitsAreFindings, JoinedLists
    <2> QED BY <1>2, <2>1, <2>2 DEF DetectInv
<1>6. CASE Embed
    <2>1. PICK similarity \in 0..MaxScore :
              call' \in {NoCall, [NoCall EXCEPT !.to = "embedder"],
                         [to |-> "judge", tries |-> 0, similarity |-> similarity]}
        BY <1>6 DEF Embed, NextMarker
    <2>2. raw' = raw /\ outcome' # "detected"
        BY <1>6 DEF Embed
    <2>3. call' \in CallsMade
        BY <1>1, <2>1
    <2> QED BY <1>2, <2>2, <2>3 DEF DetectInv
<1>7. CASE Judge
    <2>1. PICK verdict :
              raw' = Append(raw, SemanticFinding(steps[Len(texts)], Head(waiting), Last(texts),
                                                 call.similarity, verdict))
        BY <1>7 DEF Judge
    <2>2. call' \in {NoCall, [NoCall EXCEPT !.to = "embedder"]} /\ outcome' # "detected"
        BY <1>7 DEF Judge, NextMarker
    <2>3. IsList(raw')
        BY <1>2, <2>1, WeighedIsFinding, LongerList
    <2> QED BY <1>1, <2>2, <2>3 DEF DetectInv
<1>8. CASE Retry
    <2>1. call' = [call EXCEPT !.tries = @ + 1] /\ raw' = raw /\ outcome' # "detected"
        BY <1>8 DEF Retry
    <2>2. call' \in CallsMade
        BY <1>2, <2>1
    <2> QED BY <1>2, <2>1, <2>2 DEF DetectInv
<1>9. CASE Raise
    BY <1>2, <1>9 DEF Raise, DetectInv
<1>10. CASE Finish
    BY <1>2, <1>10 DEF Finish, DetectInv
<1>11. CASE UNCHANGED vars
    BY <1>2, <1>11 DEF vars, DetectInv
<1> QED
    BY <1>3, <1>4, <1>5, <1>6, <1>7, <1>8, <1>9, <1>10, <1>11 DEF Next

\* Whatever the manifest, the texts, the order of the steps and what the providers say: what a
\* probe records under an id is the gravest verdict that was reached on it, with exactly the
\* techniques of the detections that reached that verdict.
THEOREM TechniquesReachTheirVerdict == Spec => []TechniqueReachedVerdict
<1>1. DetectInv => TechniqueReachedVerdict
    <2> SUFFICES ASSUME DetectInv, outcome = "detected", NEW i \in DOMAIN result
                 PROVE  LET same == {k \in DOMAIN raw : raw[k].id = result[i].id}
                            agree == {k \in same : raw[k].status = result[i].status}
                        IN /\ result[i].techniques = UNION {raw[k].techniques : k \in agree}
                           /\ \A k \in same : ~Stronger(raw[k], result[i])
        BY DEF TechniqueReachedVerdict
    <2> DEFINE agree == {k \in {l \in DOMAIN raw : raw[l].id = result[i].id} :
                            raw[k].status = result[i].status}
               one == {l \in 1..Len(raw) : raw[l].id = result[i].id
                                           /\ raw[l].status = result[i].status}
    <2>1. IsList(raw) /\ result = DedupeFindings(raw)
        BY DEF DetectInv
    <2>2. Deduped(Len(raw), raw, result)
        BY <2>1, DedupedFindings
    <2>3. DOMAIN raw = 1..Len(raw) /\ IsVerdict(result[i], Len(raw), raw)
        BY <2>1, <2>2 DEF Deduped, IsList
    <2>4. agree = one
        BY <2>3
    <2>5. result[i].techniques = UNION {raw[k].techniques : k \in one}
        BY <2>3 DEF IsVerdict
    <2>6. result[i].techniques = UNION {raw[k].techniques : k \in agree}
        BY <2>4, <2>5
    <2>7. \A k \in {l \in DOMAIN raw : raw[l].id = result[i].id} : ~Stronger(raw[k], result[i])
        BY <2>3 DEF IsVerdict
    <2> QED BY <2>6, <2>7
<1> QED
    BY <1>1, DetectInvInit, DetectInvNext, PTL DEF Spec

-----------------------------------------------------------------------------
(* The counters of the parts, beside their invariants. *)

TraceCounts ==
    /\ target \in 0..MaxTraces /\ route \in Routes /\ answer \in Answers
    /\ ingests \in 0..MaxIngests
    /\ doomed \subseteq 0..(MaxTraces + ingests)
    /\ op.tries < TRIES /\ op.seen <= TRACE_LIMIT

\* A call that returns leaves every counter but its own.
LEMMA ReturnCounts ==
    ASSUME TraceCounts, NEW a \in Answers, Return(a)
    PROVE  TraceCounts'
<1>1. answer' = a /\ op' = TraceIdle
      /\ UNCHANGED <<target, route, doomed, ingests>>
    BY DEF Return, givenVars, backendVars, boundVars
<1> QED
    BY <1>1, PagesAssumed DEF TraceCounts, TraceIdle

LEMMA AdvanceCounts ==
    ASSUME TraceCounts, op \in CallsUnderWay, NEW at, NEW page, NEW got, NEW seen \in Nat,
           seen <= TRACE_LIMIT, Advance(at, page, got, seen)
    PROVE  TraceCounts'
<1>1. /\ op'.seen = seen /\ op'.tries = op.tries
      /\ UNCHANGED <<target, route, doomed, ingests, answer>>
    BY DEF Advance, givenVars, backendVars, boundVars, CallsUnderWay
<1> QED
    BY <1>1 DEF TraceCounts

LEMMA AcceptsCounts ==
    ASSUME TraceCounts, TracesTyped, Accepts, UNCHANGED ingests
    PROVE  doomed' \subseteq 0..(MaxTraces + ingests')
<1>1. MaxTraces + ingests \in Nat /\ Held \subseteq 0..(MaxTraces + ingests)
    BY StoredFacts, TracesAssumed DEF Held, TracesTyped
<1>2. doomed' \subseteq doomed \cup (Held \cup {0})
    BY DEF Accepts
<1> QED
    BY <1>1, <1>2 DEF TraceCounts

LEMMA StepCounts == TraceInv /\ TraceCounts /\ TraceStep => TraceCounts'
<1> SUFFICES ASSUME TraceInv, TraceCounts, TraceStep PROVE TraceCounts'
    OBVIOUS
<1>1. op \in CallsUnderWay /\ TracesTyped /\ op.tries \in Nat /\ op.seen \in Nat /\ op.page \in Nat
    BY DEF TraceInv, TracesTyped, CallsUnderWay
<1>2. \A got, partial : Verdict(got, partial) \in Answers
    BY DEF Verdict, Answers
<1>3. 0 <= TRACE_LIMIT /\ 0 \in Nat /\ {"error", "done", "absent", "refused", "unsupported"} \subseteq Answers
    BY PagesAssumed DEF Answers
<1>4. CASE Fails
    BY <1>3, <1>4, ReturnCounts DEF Fails
<1>5. CASE ReadRows
    BY <1>1, <1>3, <1>5, ReturnCounts, AdvanceCounts DEF ReadRows
<1>6. CASE ReadCapped
    <2>1. PICK a \in Answers : Return(a)
        BY <1>2, <1>6 DEF ReadCapped
    <2> QED BY <2>1, ReturnCounts
<1>7. CASE OtelSearch
    <2>1. PICK a \in Answers : Return(a)
        BY <1>2, <1>7 DEF OtelSearch
    <2> QED BY <2>1, ReturnCounts
<1>8. CASE ReadPage
    <2> DEFINE batch == PageOf(op.page)
               read == op.got \cup {batch[i] : i \in DOMAIN batch}
               seen == op.seen + Len(batch)
    <2>1. /\ Len(batch) < TRACE_PAGE => Conclude(read, FALSE)
          /\ ~(Len(batch) < TRACE_PAGE) /\ seen >= TRACE_LIMIT => Conclude(read, TRUE)
          /\ ~(Len(batch) < TRACE_PAGE) /\ ~(seen >= TRACE_LIMIT) =>
                 Advance("list", op.page + 1, read, seen)
        BY <1>8 DEF ReadPage
    <2>2. Len(batch) \in Nat
        <3>1. op.page \in Nat \ {0}
            BY <1>1 DEF CallsUnderWay
        <3> QED BY <3>1, <1>1, PageFacts
    <2>3. seen \in Nat /\ (~(seen >= TRACE_LIMIT) => seen <= TRACE_LIMIT)
        BY <2>2, <1>1, PagesAssumed
    <2> HIDE DEF batch, read, seen
    <2>4. ASSUME NEW partial, Conclude(read, partial) PROVE TraceCounts'
        <3>1. \/ \E a \in Answers : Return(a)
              \/ Advance("remove", 1, read, 0)
            BY <2>4, <1>2, <1>3 DEF Conclude
        <3> QED BY <3>1, <1>1, <1>3, ReturnCounts, AdvanceCounts
    <2> QED BY <2>1, <2>3, <2>4, <1>1, AdvanceCounts
<1>9. CASE DeleteAsync
    <2>1. /\ op'.tries = 0 /\ op'.seen = op.seen /\ Accepts
          /\ UNCHANGED <<target, route, ingests, answer>>
        BY <1>1, <1>9 DEF DeleteAsync, givenVars, boundVars, CallsUnderWay
    <2> QED BY <2>1, <1>1, AcceptsCounts, PagesAssumed DEF TraceCounts
<1>10. CASE Confirm
    <2>1. CASE \E a \in Answers : Return(a)
        BY <2>1, ReturnCounts
    <2>2. CASE ~(\E a \in Answers : Return(a))
        <3>1. op.tries + 1 # TRIES /\ op' = [op EXCEPT !.tries = @ + 1]
              /\ UNCHANGED <<target, route, doomed, ingests, answer>>
            BY <1>3, <1>10, <2>2 DEF Confirm, givenVars, backendVars, boundVars
        <3>2. op'.tries = op.tries + 1 /\ op'.seen = op.seen
            BY <3>1, <1>1 DEF CallsUnderWay
        <3> QED BY <3>1, <3>2, <1>1, PagesAssumed DEF TraceCounts
    <2> QED BY <2>1, <2>2
<1>11. CASE DeleteDirect
    <2>1. /\ op' = TraceIdle /\ answer' = "done" /\ Accepts
          /\ UNCHANGED <<target, route, ingests>>
        BY <1>11 DEF DeleteDirect, givenVars, boundVars
    <2> QED BY <2>1, <1>1, <1>3, AcceptsCounts, PagesAssumed DEF TraceCounts, TraceIdle
<1>12. CASE DeleteNotFound
    BY <1>1, <1>3, <1>12, AdvanceCounts DEF DeleteNotFound
<1>13. CASE DeleteNotAllowed \/ RecheckProject \/ RecheckSpans
    <2>1. PICK a \in Answers : Return(a)
        BY <1>3, <1>13 DEF DeleteNotAllowed, RecheckProject, RecheckSpans
    <2> QED BY <2>1, ReturnCounts
<1>14. CASE Read
    BY <1>5, <1>6, <1>7, <1>8, <1>14
       DEF Read, LangsmithProjectNames, PhoenixProjectNames, LangsmithSearch, LangsmithFetch,
           PhoenixSearch, PhoenixFetch, DatadogSearch, DatadogFetch, HeliconeSearch, HeliconeFetch,
           LangfuseSearch, LangfuseFetch
<1>15. CASE LangfuseDelete \/ LangsmithDelete \/ PhoenixDelete \/ OtelPurge
    BY <1>8, <1>9, <1>10, <1>11, <1>12, <1>13, <1>15
       DEF LangfuseDelete, LangsmithDelete, PhoenixDelete, OtelPurge, LangfuseListed
<1>16. CASE DatadogPost \/ HeliconePost \/ OtelQuery \/ SdkRaises
    BY <1>4, <1>16 DEF DatadogPost, HeliconePost, OtelQuery, SdkRaises
<1> QED
    BY <1>14, <1>15, <1>16 DEF TraceStep

LEMMA TraceCountsNext == TraceInv /\ TraceCounts /\ [TraceNext]_traceVars => TraceCounts'
<1> SUFFICES ASSUME TraceInv, TraceCounts, [TraceNext]_traceVars PROVE TraceCounts'
    OBVIOUS
<1>1. CASE TraceStep
    BY <1>1, StepCounts
<1>2. CASE Ingest
    <2>1. ingests < MaxIngests /\ ingests' = ingests + 1 /\ UNCHANGED <<target, route, doomed, op, answer>>
        BY <1>2 DEF Ingest, givenVars
    <2>2. doomed \subseteq 0..(MaxTraces + ingests')
        BY <2>1, TracesAssumed DEF TraceCounts
    <2> QED BY <2>1, <2>2, TracesAssumed DEF TraceCounts
<1>3. CASE Apply \/ ApplyProject \/ Expire
    <2>1. doomed' \subseteq doomed /\ ingests' = ingests /\ UNCHANGED <<target, route, op, answer>>
        BY <1>3 DEF Apply, ApplyProject, Expire, givenVars, boundVars
    <2> QED BY <2>1 DEF TraceCounts
<1>4. CASE DatadogDelete \/ HeliconeDelete
    <2>1. answer' = "unsupported" /\ UNCHANGED <<target, route, doomed, ingests, op>>
        BY <1>4 DEF DatadogDelete, HeliconeDelete, Ungoverned, givenVars, backendVars, boundVars
    <2> QED BY <2>1 DEF TraceCounts, Answers
<1>5. CASE \E c \in Calls : Begin(c)
    <2>1. PICK c : /\ answer' = "none" /\ op' = [TraceIdle EXCEPT !.call = c, !.at = FirstStep(c)]
                   /\ UNCHANGED <<target, route, doomed, ingests>>
        BY <1>5 DEF Begin, givenVars, backendVars, boundVars
    <2>2. op'.tries = 0 /\ op'.seen = 0
        BY <2>1 DEF TraceIdle
    <2> QED BY <2>1, <2>2, PagesAssumed DEF TraceCounts, Answers
<1>6. CASE UNCHANGED traceVars
    BY <1>6 DEF traceVars, TraceCounts
<1> QED
    BY <1>1, <1>2, <1>3, <1>4, <1>5, <1>6 DEF TraceNext, Backend

LEMMA TraceCountsInit == TraceInit => TraceCounts
<1> SUFFICES ASSUME TraceInit PROVE TraceCounts
    OBVIOUS
<1>1. /\ target \in 0..MaxTraces /\ answer = "none" /\ ingests = 0
      /\ op.tries = 0 /\ op.seen = 0 /\ doomed \in {{}, Held}
    BY DEF TraceInit, TraceIdle
<1>2. route \in Routes
    <2>1. route \in (IF kind \in {"phoenix", "otel"} THEN Routes ELSE {"accepts"})
        BY DEF TraceInit
    <2> QED BY <2>1 DEF Routes
<1>3. PICK n \in 0..MaxTraces : stored = [i \in 1..n |-> i]
    BY DEF TraceInit
<1>4. Held \subseteq 0..MaxTraces
    BY <1>3, TracesAssumed DEF Held
<1>5. doomed \subseteq 0..(MaxTraces + ingests) /\ ingests \in 0..MaxIngests
    <2>1. MaxTraces + ingests = MaxTraces /\ ingests \in 0..MaxIngests
        BY <1>1, TracesAssumed
    <2>2. doomed \subseteq Held
        BY <1>1
    <2> QED BY <2>1, <2>2, <1>4
<1> QED
    BY <1>1, <1>2, <1>5, PagesAssumed DEF TraceCounts, Answers

LEMMA TraceTypes == TraceInv /\ TraceCounts => TraceTypeOK
<1> SUFFICES ASSUME TraceInv, TraceCounts PROVE TraceTypeOK
    OBVIOUS
<1>1. TracesTyped
    BY DEF TraceInv
<1>2. /\ Len(stored) \in Nat /\ DOMAIN stored = 1..Len(stored)
      /\ \A i \in 1..Len(stored) : stored[i] \in 1..(MaxTraces + ingests)
    BY <1>1, StoredFacts
<1>3. Held \subseteq 1..(MaxTraces + MaxIngests) /\ doomed \subseteq {0} \cup 1..(MaxTraces + MaxIngests)
    BY <1>2, TracesAssumed DEF Held, TraceCounts
<1>4. Cardinality(Held) = Len(stored)
    <2>1. stored \in Bijection(1..Len(stored), Held)
        <3>1. stored \in [1..Len(stored) -> Held]
            <4>1. stored = [i \in 1..Len(stored) |-> stored[i]]
                BY <1>1, <1>2 DEF TracesTyped
            <4> QED BY <1>2, <4>1 DEF Held
        <3>2. \A i, j \in 1..Len(stored) : stored[i] = stored[j] => i = j
            BY <1>1, <1>2 DEF TracesTyped
        <3>3. \A t \in Held : \E i \in 1..Len(stored) : stored[i] = t
            BY <1>2 DEF Held
        <3> QED BY <3>1, <3>2, <3>3 DEF Bijection, Injection, Surjection, IsInjective
    <2> QED BY <1>2, <2>1, FS_CountingElements DEF ExistsBijection
<1> QED
    BY <1>1, <1>3, <1>4 DEF TraceTypeOK, TraceCounts, TracesTyped, CallsUnderWay

-----------------------------------------------------------------------------
\* A run of the service is under way on one thread at most, and where one is, the service
\* is not done with it; only the assistants keep threads, and poll.
AgentCounts ==
    /\ \A w \in Workers : turn[w].tries <= POLLS \/ (framework # "openai" /\ turn[w].tries < ITERATIONS)
    /\ framework # "openai" => \A t \in Tenants : threads[t] = 0
    /\ \A p, q \in Places : active[p] = active[q] => p = q \/ active[p] = 0
    /\ \A p \in Places : active[p] # 0 =>
          service[active[p]].status \in {"in_progress", "requires_action"}

LEMMA AgentCountsInit == AgentInit => AgentCounts
BY PollsAssumed DEF AgentInit, AgentCounts, Resting

\* The tries of a worker are its turn's.
LEMMA KeepsTries ==
    ASSUME turn \in [Workers -> Turns], NEW w \in Workers, NEW at,
           turn' = [turn EXCEPT ![w].at = at]
    PROVE  \A v \in Workers : turn'[v].tries = turn[v].tries
<1> SUFFICES ASSUME NEW v \in Workers PROVE turn'[v].tries = turn[v].tries
    OBVIOUS
<1>1. turn[v] \in Turns /\ turn[w] \in Turns
    OBVIOUS
<1>2. CASE v = w
    <2>1. turn'[v] = [turn[w] EXCEPT !.at = at]
        BY <1>2
    <2> QED BY <2>1, <1>1, <1>2 DEF Turns
<1>3. CASE v # w
    BY <1>3
<1> QED BY <1>2, <1>3

\* What changes neither threads nor the service's runs, and no tries but to none.
LEMMA AsideCounts ==
    ASSUME AgentCounts, UNCHANGED <<framework, threads, remote>>,
           \A v \in Workers : turn'[v].tries = turn[v].tries \/ turn'[v].tries = 0
    PROVE  AgentCounts'
BY PollsAssumed DEF AgentCounts, remote

LEMMA CreateRunCounts ==
    ASSUME NEW own, AgentHolds(own), AgentCounts, NEW w \in Workers, CreateRun(w)
    PROVE  AgentCounts'
<1> DEFINE n     == turn[w].run
           place == turn[w].place
           entry == [status |-> "in_progress", tenant |-> turn[w].tenant]
<1>1. /\ turn[w].at = "run" /\ framework = "openai" /\ framework' = framework /\ threads' = threads
      /\ active' = [active EXCEPT ![place] = n] /\ service' = [service EXCEPT ![n] = entry]
      /\ turn' = [turn EXCEPT ![w].at = "poll"]
    BY DEF CreateRun, Go
<1>2. /\ turn \in [Workers -> Turns] /\ n \in 1..MaxRuns
      /\ service \in [1..MaxRuns -> [status : Statuses, tenant : Tenants \cup {0}]]
      /\ active \in [Places -> 0..MaxRuns] /\ service[n].status = "none"
    <2>1. turn[w] \in Turns /\ n \in 1..runs /\ runs \in 0..MaxRuns
        BY <1>1, OwnMessage DEF AgentHolds, AgentTyped
    <2> QED BY <2>1, <1>1, RunsAssumed DEF AgentHolds, AgentTyped, ServiceKeepsTo
<1>3. \A v \in Workers : turn'[v].tries = turn[v].tries
    BY <1>1, <1>2, KeepsTries
<1>4. \A p \in Places : active[p] # n
    BY <1>2, RunsAssumed DEF AgentCounts
<1>5. \A p \in Places : active'[p] = IF p = place THEN n ELSE active[p]
    BY <1>1, <1>2
<1>6. \A m \in 1..MaxRuns : service'[m] = IF m = n THEN entry ELSE service[m]
    BY <1>1, <1>2
<1>7. \A p \in Places : active[p] \in 0..MaxRuns /\ (active[p] # 0 => active[p] \in 1..MaxRuns)
    BY <1>2, RunsAssumed
<1> HIDE DEF n, place
<1>8. \A p, q \in Places : active'[p] = active'[q] => p = q \/ active'[p] = 0
    BY <1>4, <1>5 DEF AgentCounts
<1>9. \A p \in Places : active'[p] # 0 =>
         service'[active'[p]].status \in {"in_progress", "requires_action"}
    <2> SUFFICES ASSUME NEW p \in Places, active'[p] # 0
                 PROVE  service'[active'[p]].status \in {"in_progress", "requires_action"}
        OBVIOUS
    <2>1. CASE p = place
        <3>1. service'[active'[p]] = entry
            BY <1>2, <1>5, <1>6, <2>1
        <3> QED BY <3>1
    <2>2. CASE p # place
        <3>1. active'[p] = active[p] /\ service'[active[p]] = service[active[p]]
            BY <1>4, <1>5, <1>6, <1>7, <2>2
        <3> QED BY <3>1 DEF AgentCounts
    <2> QED BY <2>1, <2>2
<1>10. framework' # "openai" => \A t \in Tenants : threads'[t] = 0
    BY <1>1
<1>11. \A v \in Workers : turn'[v].tries <= POLLS \/ (framework' # "openai" /\ turn'[v].tries < ITERATIONS)
    BY <1>1, <1>3 DEF AgentCounts
<1> QED
    BY <1>8, <1>9, <1>10, <1>11 DEF AgentCounts

LEMMA CreateThreadCounts ==
    ASSUME NEW own, AgentHolds(own), AgentCounts, NEW w \in Workers, CreateThread(w)
    PROVE  AgentCounts'
<1>1. /\ framework = "openai" /\ framework' = framework /\ active' = active /\ service' = service
      /\ turn' = [turn EXCEPT ![w].at = "post", ![w].place = turn[w].run]
    BY DEF CreateThread, remote
<1>2. turn \in [Workers -> Turns]
    BY DEF AgentHolds, AgentTyped
<1>3. \A v \in Workers : turn'[v].tries = turn[v].tries
    BY <1>1, <1>2 DEF Turns
<1> QED
    BY <1>1, <1>3 DEF AgentCounts

LEMMA PollCounts ==
    ASSUME NEW own, AgentHolds(own), AgentCounts, NEW w \in Workers, Poll(w)
    PROVE  AgentCounts'
<1> DEFINE n == turn[w].run
<1>1. /\ framework = "openai" /\ framework' = framework /\ threads' = threads /\ active' = active
      /\ turn[w].at = "poll"
    BY DEF Poll
<1>2. /\ turn \in [Workers -> Turns] /\ n \in 1..MaxRuns
      /\ service \in [1..MaxRuns -> [status : Statuses, tenant : Tenants \cup {0}]]
      /\ active \in [Places -> 0..MaxRuns]
    <2>1. turn[w] \in Turns /\ n \in 1..runs /\ runs \in 0..MaxRuns
        BY <1>1, OwnMessage DEF AgentHolds, AgentTyped
    <2> QED BY <2>1, RunsAssumed DEF AgentHolds, AgentTyped
<1>3. CASE \E at : turn' = [turn EXCEPT ![w].at = at] /\ service' = service
    <2>1. \A v \in Workers : turn'[v].tries = turn[v].tries
        BY <1>2, <1>3, KeepsTries
    <2> QED BY <1>1, <1>3, <2>1, AsideCounts DEF remote
<1>4. CASE /\ turn[w].tries # POLLS /\ turn' = [turn EXCEPT ![w].tries = @ + 1]
           /\ service' = [service EXCEPT ![n].status = "in_progress"]
    <2>1. \A m \in 1..MaxRuns : service'[m].status = IF m = n THEN "in_progress" ELSE service[m].status
        BY <1>2, <1>4
    <2>2. \A p \in Places : active[p] # 0 => active[p] \in 1..MaxRuns
        BY <1>2, RunsAssumed
    <2>3. \A p \in Places : active'[p] # 0 =>
             service'[active'[p]].status \in {"in_progress", "requires_action"}
        BY <1>1, <2>1, <2>2 DEF AgentCounts
    <2>4. \A v \in Workers : turn'[v].tries = IF v = w THEN turn[w].tries + 1 ELSE turn[v].tries
        BY <1>2, <1>4 DEF Turns
    <2>5. turn[w].tries + 1 <= POLLS
        <3>1. turn[w].tries <= POLLS /\ turn[w].tries \in Nat
            BY <1>1, <1>2 DEF AgentCounts, Turns
        <3> QED BY <1>4, <3>1, PollsAssumed
    <2>6. \A v \in Workers : turn'[v].tries <= POLLS
        BY <1>1, <2>4, <2>5 DEF AgentCounts
    <2> QED BY <1>1, <2>3, <2>6 DEF AgentCounts
<1> QED
    BY <1>3, <1>4 DEF Poll, Go, RunRaises, Terminal

LEMMA ServeRunCounts ==
    ASSUME NEW own, AgentHolds(own), AgentCounts, NEW n \in 1..MaxRuns, ServeRun(n)
    PROVE  AgentCounts'
<1> DEFINE place == CHOOSE p \in Places : active[p] = n
<1>1. /\ service[n].status = "in_progress"
      /\ framework' = framework /\ threads' = threads /\ turn' = turn
      /\ \/ service' = [service EXCEPT ![n].status = "requires_action"] /\ active' = active
         \/ /\ \E status : service' = [service EXCEPT ![n].status = status]
            /\ active' = [active EXCEPT ![place] = 0]
    BY DEF ServeRun
<1>2. /\ service \in [1..MaxRuns -> [status : Statuses, tenant : Tenants \cup {0}]]
      /\ active \in [Places -> 0..MaxRuns] /\ \E p \in Places : active[p] = n
    BY <1>1 DEF AgentHolds, AgentTyped, ServiceKeepsTo
<1>3. place \in Places /\ active[place] = n
    BY <1>2
<1> HIDE DEF place
<1>4. \A p \in Places : active[p] # 0 => active[p] \in 1..MaxRuns
    BY <1>2, RunsAssumed
<1>5. CASE service' = [service EXCEPT ![n].status = "requires_action"] /\ active' = active
    <2>1. \A m \in 1..MaxRuns :
             service'[m].status = IF m = n THEN "requires_action" ELSE service[m].status
        BY <1>2, <1>5
    <2>2. \A p \in Places : active'[p] # 0 =>
             service'[active'[p]].status \in {"in_progress", "requires_action"}
        BY <1>4, <1>5, <2>1 DEF AgentCounts
    <2> QED BY <1>1, <1>5, <2>2 DEF AgentCounts
<1>6. CASE /\ \E status : service' = [service EXCEPT ![n].status = status]
           /\ active' = [active EXCEPT ![place] = 0]
    <2>1. \A m \in 1..MaxRuns : m # n => service'[m] = service[m]
        BY <1>2, <1>6
    <2>2. \A p \in Places : active'[p] = IF p = place THEN 0 ELSE active[p]
        BY <1>2, <1>3, <1>6
    <2>3. \A p \in Places : p # place => active[p] # n
        BY <1>3, RunsAssumed DEF AgentCounts
    <2>4. \A p \in Places : active'[p] # 0 =>
             service'[active'[p]].status \in {"in_progress", "requires_action"}
        BY <1>4, <2>1, <2>2, <2>3 DEF AgentCounts
    <2>5. \A p, q \in Places : active'[p] = active'[q] => p = q \/ active'[p] = 0
        BY <2>2 DEF AgentCounts
    <2> QED BY <1>1, <2>4, <2>5 DEF AgentCounts
<1> QED
    BY <1>1, <1>5, <1>6

LEMMA AgentCountsStep ==
    ASSUME NEW own, AgentHolds(own), AgentCounts, NEW w \in Workers, AgentStep(w)
    PROVE  AgentCounts'
<1>1. turn \in [Workers -> Turns]
    BY DEF AgentHolds, AgentTyped
<1>2. CASE LookUpThread(w)
    <2>1. UNCHANGED <<framework, threads, remote>> /\ \A v \in Workers : turn'[v].tries = turn[v].tries
        BY <1>1, <1>2 DEF LookUpThread, Turns
    <2> QED BY <2>1, AsideCounts
<1>3. CASE CallTools(w)
    <2>1. /\ UNCHANGED <<framework, threads, remote>> /\ framework # "openai"
          /\ turn[w].tries + 1 < ITERATIONS
          /\ \A v \in Workers : turn'[v].tries = IF v = w THEN turn[w].tries + 1 ELSE turn[v].tries
        BY <1>1, <1>3 DEF CallTools, Turns
    <2> QED BY <2>1 DEF AgentCounts, remote
<1>4. CASE PostMessage(w) \/ AppendTask(w)
    <2>1. UNCHANGED <<framework, threads, remote>> /\ \E at : turn' = [turn EXCEPT ![w].at = at]
        BY <1>4 DEF PostMessage, AppendTask, Go
    <2> QED BY <1>1, <2>1, KeepsTries, AsideCounts
<1>5. CASE \/ ReadAnswer(w) \/ RunFails(w) \/ AnswerTask(w) \/ RollBack(w) \/ OneCallRaises(w)
           \/ AutogenRun(w) \/ CrewaiRun(w) \/ LanggraphRun(w) \/ HttpRun(w)
    <2>1. UNCHANGED <<framework, threads, remote>> /\ turn' = [turn EXCEPT ![w].at = "rest"]
        BY <1>5 DEF ReadAnswer, RunFails, AnswerTask, RollBack, OneCallRaises, AutogenRun, CrewaiRun,
                    LanggraphRun, HttpRun, RunReturns, RunRaises
    <2> QED BY <1>1, <2>1, KeepsTries, AsideCounts
<1>6. CASE CreateThread(w) \/ CreateRun(w) \/ Poll(w)
    BY <1>6, CreateThreadCounts, CreateRunCounts, PollCounts
<1> QED
    BY <1>2, <1>3, <1>4, <1>5, <1>6 DEF AgentStep

LEMMA AgentCountsNext == AgentInv /\ AgentCounts /\ [AgentNext]_agentVars => AgentCounts'
<1> SUFFICES ASSUME AgentInv, AgentCounts, [AgentNext]_agentVars PROVE AgentCounts'
    OBVIOUS
<1>1. PICK own : AgentHolds(own)
    BY DEF AgentInv
<1>2. CASE \E w \in Workers : AgentStep(w)
    BY <1>1, <1>2, AgentCountsStep
<1>3. CASE \E w \in Workers, t \in Tenants : Start(w, t)
    <2>1. PICK w \in Workers, t \in Tenants : Start(w, t)
        BY <1>3
    <2>2. turn \in [Workers -> Turns]
        BY <1>1 DEF AgentHolds, AgentTyped
    <2>3. /\ UNCHANGED <<framework, threads, remote>>
          /\ \A v \in Workers : turn'[v].tries = turn[v].tries \/ turn'[v].tries = 0
        BY <2>1, <2>2 DEF Start
    <2> QED BY <2>3, AsideCounts
<1>4. CASE \E n \in 1..MaxRuns : ServeRun(n)
    BY <1>1, <1>4, ServeRunCounts
<1>5. CASE UNCHANGED agentVars
    BY <1>5 DEF agentVars, remote, AgentCounts
<1> QED
    BY <1>2, <1>3, <1>4, <1>5 DEF AgentNext

LEMMA AgentTypes == AgentInv /\ AgentCounts => AgentTypeOK
<1> SUFFICES ASSUME AgentInv, AgentCounts PROVE AgentTypeOK
    OBVIOUS
<1>1. PICK own : AgentHolds(own)
    BY DEF AgentInv
<1>2. runs \in 0..MaxRuns /\ ThreadsAreOwned(own)
    BY <1>1 DEF AgentHolds, AgentTyped
<1>3. \A t \in Tenants : threads[t] \in 0..runs
    <2>1. 1..runs \subseteq 0..runs /\ 0 \in 0..runs
        BY <1>2, RunsAssumed
    <2> QED BY <1>2, <2>1 DEF AgentCounts, ThreadsAreOwned
<1> QED
    BY <1>3 DEF AgentCounts, AgentTypeOK

-----------------------------------------------------------------------------
(* The counters of a detection. *)

DetectCounts ==
    /\ steps \in Plans /\ outcome \in Outcomes /\ threshold \in -1..(MaxScore + 1)
    /\ examples \in SUBSET Labelled
    /\ texts \in Seq(Texts \cup {[tokens |-> <<>>, bytes |-> "verbatim"]}) /\ Len(texts) <= Len(steps)
    /\ call.tries \in 0..(MAX_ATTEMPTS - 1)
    /\ (call.to = "none") = (waiting = <<>>)
    /\ result # <<>> => outcome = "detected"

LEMMA CalibratedIsGate ==
    ASSUME NEW X \in SUBSET Labelled
    PROVE  CalibratedThreshold(X) \in -1..(MaxScore + 1)
<1>1. 0..(MaxScore + 1) \subseteq -1..(MaxScore + 1)
    BY ScoresAssumed
<1>2. CASE Recommended(X) = {}
    BY <1>2, ScoresAssumed DEF CalibratedThreshold
<1>3. CASE Recommended(X) # {}
    <2>1. CalibratedThreshold(X) \in Recommended(X)
        <3>1. CalibratedThreshold(X) = CHOOSE t \in Recommended(X) : TRUE
            BY <1>3 DEF CalibratedThreshold
        <3> HIDE DEF CalibratedThreshold
        <3> QED BY <1>3, <3>1
    <2>2. CalibratedThreshold(X) \in Candidates(X)
        BY <2>1 DEF Recommended, Eligible
    <2> QED BY <1>1, <2>2, CandidatesAreGates
<1> QED
    BY <1>2, <1>3

LEMMA DetectCountsInit == Init => DetectCounts
<1> SUFFICES ASSUME Init PROVE DetectCounts
    OBVIOUS
<1>1. Len(steps) \in Nat
    BY SequencesAssumed DEF Init
<1>2. call.tries = 0 /\ call.to = "none"
    BY DEF Init, NoCall
<1> QED
    BY <1>1, <1>2, AttemptsAssumed, ScoresAssumed DEF Init, DetectCounts, Unset, Outcomes

LEMMA DetectCountsNext == DetectInv /\ DetectCounts /\ [Next]_vars => DetectCounts'
<1> SUFFICES ASSUME DetectInv, DetectCounts, [Next]_vars PROVE DetectCounts'
    OBVIOUS
<1> DEFINE Asked == [NoCall EXCEPT !.to = "embedder"]
           Blank == [tokens |-> <<>>, bytes |-> "verbatim"]
<1>1. /\ NoCall.tries = 0 /\ NoCall.to = "none" /\ Asked.tries = 0 /\ Asked.to = "embedder"
      /\ 0 \in 0..(MAX_ATTEMPTS - 1)
    BY AttemptsAssumed DEF NoCall
<1>2. call \in [to : {"none", "embedder", "judge"}, tries : Nat, similarity : 0..MaxScore]
    BY DEF DetectInv
<1>3. Len(steps) \in Nat
    BY SequencesAssumed DEF DetectCounts
<1>4. CASE Label
    BY <1>4 DEF Label, DetectCounts
<1>5. CASE Calibrate
    BY <1>5, CalibratedIsGate DEF Calibrate, DetectCounts, Outcomes
<1>6. CASE Preset
    BY <1>6, ScoresAssumed DEF Preset, DetectCounts, Outcomes
<1>7. CASE Configure
    BY <1>7 DEF Configure, DetectCounts, Outcomes
<1> HIDE DEF Asked
<1>8. CASE Observe
    <2>1. /\ Len(texts) < Len(steps) /\ \E text \in Texts : texts' = Append(texts, text)
          /\ call' = IF waiting' = <<>> THEN NoCall ELSE Asked
          /\ UNCHANGED <<steps, examples, threshold, outcome, result>>
        BY <1>8 DEF Observe, Asked
    <2>2. texts' \in Seq(Texts \cup {Blank}) /\ Len(texts') <= Len(steps)
        BY <2>1, <1>3 DEF DetectCounts
    <2>3. call'.tries \in 0..(MAX_ATTEMPTS - 1) /\ (call'.to = "none") = (waiting' = <<>>)
        BY <1>1, <2>1
    <2> QED BY <2>1, <2>2, <2>3 DEF DetectCounts
<1>9. CASE ObserveNothing
    <2>1. /\ Len(texts) < Len(steps) /\ texts' = Append(texts, Blank)
          /\ UNCHANGED <<steps, examples, threshold, waiting, call, outcome, result>>
        BY <1>9 DEF ObserveNothing
    <2>2. texts' \in Seq(Texts \cup {Blank}) /\ Len(texts') <= Len(steps)
        BY <2>1, <1>3 DEF DetectCounts
    <2> QED BY <2>1, <2>2 DEF DetectCounts
<1>10. ASSUME NextMarker, UNCHANGED <<steps, examples, threshold, texts, outcome, result>>
       PROVE  DetectCounts'
    <2>1. call' = IF waiting' = <<>> THEN NoCall ELSE Asked
        BY <1>10 DEF NextMarker, Asked
    <2>2. call'.tries \in 0..(MAX_ATTEMPTS - 1) /\ (call'.to = "none") = (waiting' = <<>>)
        BY <1>1, <2>1
    <2> QED BY <1>10, <2>2 DEF DetectCounts
<1>11. CASE Embed
    <2>1. UNCHANGED <<steps, examples, threshold, texts, outcome, result>> /\ call.to = "embedder"
        BY <1>11 DEF Embed
    <2>2. CASE NextMarker
        BY <1>10, <2>1, <2>2
    <2>3. CASE \E s \in 0..MaxScore : /\ call' = [to |-> "judge", tries |-> 0, similarity |-> s]
                                      /\ waiting' = waiting
        <3>1. call'.tries = 0 /\ call'.to = "judge" /\ waiting' = waiting
            BY <2>3
        <3>2. waiting # <<>>
            BY <2>1 DEF DetectCounts
        <3> QED BY <1>1, <2>1, <3>1, <3>2 DEF DetectCounts
    <2> QED BY <1>11, <2>2, <2>3 DEF Embed
<1>12. CASE Judge
    BY <1>10, <1>12 DEF Judge
<1>13. CASE Retry
    <2>1. /\ UNCHANGED <<steps, examples, threshold, texts, waiting, outcome, result>>
          /\ call'.tries = call.tries + 1 /\ call'.to = call.to /\ call.tries + 1 < MAX_ATTEMPTS
        BY <1>2, <1>13 DEF Retry
    <2>2. call'.tries \in 0..(MAX_ATTEMPTS - 1)
        BY <1>2, <2>1, AttemptsAssumed
    <2> QED BY <2>1, <2>2 DEF DetectCounts
<1>14. CASE Raise
    <2>1. outcome = "detecting" /\ outcome' = "raised"
          /\ UNCHANGED <<steps, examples, threshold, texts, waiting, call, result>>
        BY <1>14 DEF Raise
    <2> QED BY <2>1 DEF DetectCounts, Outcomes
<1>15. CASE Finish
    BY <1>15 DEF Finish, DetectCounts, Outcomes
<1>16. CASE UNCHANGED vars
    BY <1>16 DEF vars, DetectCounts
<1> QED
    BY <1>4, <1>5, <1>6, <1>7, <1>8, <1>9, <1>11, <1>12, <1>13, <1>14, <1>15, <1>16 DEF Next

LEMMA DetectTypes == DetectInv /\ DetectCounts => TypeOK
<1> SUFFICES ASSUME DetectInv, DetectCounts PROVE TypeOK
    OBVIOUS
<1>1. \A i, j \in DOMAIN result : result[i].id = result[j].id => i = j
    <2>1. CASE outcome = "detected"
        <3>1. Deduped(Len(raw), raw, result)
            BY <2>1, DedupedFindings DEF DetectInv
        <3> QED BY <3>1 DEF Deduped, IsList
    <2>2. CASE outcome # "detected"
        <3>1. result = <<>>
            BY <2>2 DEF DetectCounts
        <3> QED BY <3>1
    <2> QED BY <2>1, <2>2
<1> QED
    BY <1>1 DEF DetectCounts, TypeOK

-----------------------------------------------------------------------------
(* The runner, and the parts together. *)

JobTypes == Jobs!JobTypeOK

LEMMA JobTypesInit == Jobs!JobInit => JobTypes
BY PoolAssumed DEF Jobs!JobInit, JobTypes, Jobs!JobTypeOK, Jobs!Statuses, Jobs!Stages

LEMMA JobTypesNext == JobTypes /\ [Jobs!JobNext]_jobVars => JobTypes'
<1> SUFFICES ASSUME JobTypes, [Jobs!JobNext]_jobVars PROVE JobTypes'
    OBVIOUS
<1>1. /\ pool \in [1..NJobs -> Jobs!Statuses] /\ collected \in 0..NJobs
      /\ mapped \in Jobs!Stages /\ error \in 0..NJobs
    BY DEF JobTypes, Jobs!JobTypeOK
<1>2. CASE \E j \in 1..NJobs : Jobs!Start(j) \/ Jobs!Returns(j) \/ Jobs!Raises(j)
    BY <1>1, <1>2 DEF Jobs!Start, Jobs!Returns, Jobs!Raises, Jobs!Ends, Jobs!Statuses, JobTypes,
                      Jobs!JobTypeOK
<1>3. CASE Jobs!Collect
    BY <1>1, <1>3, PoolAssumed DEF Jobs!Collect, JobTypes, Jobs!JobTypeOK
<1>4. CASE Jobs!CollectError
    BY <1>1, <1>4, PoolAssumed DEF Jobs!CollectError, JobTypes, Jobs!JobTypeOK, Jobs!Stages
<1>5. CASE Jobs!CancelQueued
    BY <1>1, <1>5 DEF Jobs!CancelQueued, Jobs!Queued, Jobs!Statuses, JobTypes, Jobs!JobTypeOK
<1>6. CASE Jobs!Join \/ Jobs!Deliver
    BY <1>1, <1>6 DEF Jobs!Join, Jobs!Deliver, JobTypes, Jobs!JobTypeOK, Jobs!Stages
<1>7. CASE UNCHANGED jobVars
    BY <1>1, <1>7 DEF jobVars, JobTypes, Jobs!JobTypeOK
<1> QED
    BY <1>2, <1>3, <1>4, <1>5, <1>6, <1>7 DEF Jobs!JobNext, Jobs!Caller

PartsInv ==
    /\ part \in {"detection", "traces", "agents", "jobs"}
    /\ DetectInv /\ DetectCounts
    /\ TraceInv /\ TraceCounts
    /\ AgentInv /\ AgentCounts
    /\ JobTypes

LEMMA PartsInvNext == PartsInv /\ [PartNext]_partVars => PartsInv'
<1> SUFFICES ASSUME PartsInv, [PartNext]_partVars PROVE PartsInv'
    OBVIOUS
<1>1. /\ [Next]_vars /\ [TraceNext]_traceVars /\ [AgentNext]_agentVars /\ [Jobs!JobNext]_jobVars
      /\ part' = part
    BY DEF PartNext, partVars
<1>2. DetectInv' /\ DetectCounts'
    BY <1>1, DetectInvNext, DetectCountsNext DEF PartsInv
<1>3. TraceInv' /\ TraceCounts'
    BY <1>1, TraceNextHolds, TraceCountsNext DEF PartsInv
<1>4. AgentInv' /\ AgentCounts'
    BY <1>1, AgentInvNext, AgentCountsNext DEF PartsInv
<1>5. JobTypes'
    BY <1>1, JobTypesNext DEF PartsInv
<1> QED
    BY <1>1, <1>2, <1>3, <1>4, <1>5 DEF PartsInv

\* The parts that wait for a service keep to their types, whatever the services do: no call is
\* tried more often than its bound, no listing goes past its limit, no thread is named for a
\* run that was not begun, no two findings of a probe share an id.
THEOREM ServicesTypes == PartSpec => []TypesOK
<1>1. PartInit => PartsInv
    BY DetectInvInit, DetectCountsInit, TraceInitHolds, TraceCountsInit, AgentInvInit,
       AgentCountsInit, JobTypesInit DEF PartInit, PartsInv
<1>2. PartsInv => TypesOK
    BY DetectTypes, TraceTypes, AgentTypes DEF PartsInv, TypesOK, JobTypes
<1> QED
    BY <1>1, PartsInvNext, <1>2, PTL DEF PartSpec
=============================================================================
