---------------------------- MODULE TraceBackends ----------------------------
(***************************************************************************)
(* The live trace backends: searching a tenant's traces for a marker,      *)
(* fetching one of them by id, and deleting them all, as sequences of      *)
(* remote calls.  Nothing holds the backend still between two calls: it    *)
(* ingests, expires and applies deletions it accepted earlier, one trace   *)
(* at a time, while a listing is being paged or a deletion confirmed.      *)
(*                                                                         *)
(*   langfuse   pages through the tenant's traces within a budget; deletes *)
(*              the ids it listed, then polls until none is listed         *)
(*   langsmith, phoenix     one project per tenant, one capped listing     *)
(*   datadog, helicone      one capped listing, no erasure API             *)
(*   otel       one query, whose answer says whether it is partial         *)
(*                                                                         *)
(* Searching for the marker and fetching the subject look for one trace,   *)
(* the target.  Attribution of a hit to the project it names is left out.  *)
(***************************************************************************)
EXTENDS Naturals, SequencesExt

CONSTANTS
    Kinds,        \* the backends under test
    TRACE_PAGE,   \* largest page langfuse serves
    TRACE_LIMIT,  \* langfuse's budget, and the cap of the single listings
    TRIES,        \* polls before a deletion is given up
    MaxTraces,    \* bound on the traces a tenant has at the start
    MaxIngests, MaxExpiries, MaxCalls   \* bounds on the environment and the calls

ASSUME KindsAssumed  == Kinds \subseteq {"langfuse", "langsmith", "phoenix", "datadog", "helicone", "otel"}
ASSUME PagesAssumed  == TRACE_PAGE \in Nat \ {0} /\ TRACE_LIMIT \in Nat \ {0} /\ TRIES \in Nat \ {0}
ASSUME TracesAssumed == MaxTraces \in Nat /\ MaxIngests \in Nat

VARIABLES
    kind,
    target,   \* the trace asked for, 0 if the tenant never had it
    field,    \* which of its fields carries the marker
    route,    \* environment: how its delete route answers
    stored,   \* environment: the tenant's traces, most recent first
    row,      \* environment: whether the tenant's project is listed
    doomed,   \* environment: traces whose deletion was accepted and not yet applied,
              \* and 0 for that of the tenant's project
    ingests, expiries, calls,
    op,       \* the call in progress
    answer,   \* what the last call returned or raised
    saw       \* history: what happened to the tenant's traces during the call

traceVars == <<kind, target, field, route, stored, row, doomed, ingests, expiries, calls, op,
               answer, saw>>
backendVars == <<stored, row, doomed>>
boundVars   == <<ingests, expiries>>
givenVars   == <<kind, target, field, route>>

Calls   == {"search", "fetch", "delete"}
Answers == {"none", "found", "absent", "done", "refused", "unsupported", "error"}
Fields  == {"name", "io", "metadata"}
Routes  == {"accepts", "404", "405", "500"}
Held    == {stored[i] : i \in DOMAIN stored}
Prefix(s, n) == SubSeq(s, 1, IF n < Len(s) THEN n ELSE Len(s))

\* A project per tenant, whose absence is read as the absence of its traces.
PerProject == {"langsmith", "phoenix"}

\* Where each backend looks for a marker: the name, what the model was given and
\* answered, and the caller's metadata, under whatever names it stores them.
LangfuseSnippet  == {"name", "io", "metadata"}
LangsmithSnippet == {"name", "io", "metadata"}
PhoenixSnippet   == {"name", "io", "metadata"}
DatadogSnippet   == {"name", "io", "metadata"}
HeliconeSnippet  == {"name", "io", "metadata"}
OtelSnippet      == {"name", "io", "metadata"}

Snippet ==
    CASE kind = "langfuse"  -> LangfuseSnippet
      [] kind = "langsmith" -> LangsmithSnippet
      [] kind = "phoenix"   -> PhoenixSnippet
      [] kind = "datadog"   -> DatadogSnippet
      [] kind = "helicone"  -> HeliconeSnippet
      [] kind = "otel"      -> OtelSnippet

TraceIdle == [call |-> "none", at |-> "idle", page |-> 1, got |-> {}, seen |-> 0, tries |-> 0]

-----------------------------------------------------------------------------
(* What a listing means to the caller. *)

Hit(got) == target \in got /\ (op.call = "fetch" \/ field \in Snippet)

\* Fault: an incomplete listing is taken for the whole set.
VerdictOfMiss(got, partial) == IF Hit(got) THEN "found" ELSE "absent"

\* A hit on an incomplete listing is a hit; only a miss on one is refused.
Verdict(got, partial) ==
    IF Hit(got) THEN "found" ELSE IF partial THEN "refused" ELSE "absent"

Return(a) ==
    /\ answer' = a
    /\ op' = TraceIdle
    /\ UNCHANGED <<givenVars, backendVars, boundVars, calls>>

Advance(at, page, got, seen) ==
    /\ op' = [op EXCEPT !.at = at, !.page = page, !.got = got, !.seen = seen]
    /\ UNCHANGED <<givenVars, backendVars, boundVars, calls, answer>>

\* A request fails, or its reply holds no listing: an error envelope, a body
\* without the list it promised.  Neither is an empty tenant.
Fails ==
    /\ op.call # "none"
    /\ Return("error")

DatadogPost  == kind = "datadog"  /\ Fails
HeliconePost == kind = "helicone" /\ Fails
OtelQuery    == kind = "otel"     /\ Fails
SdkRaises    == kind \in {"langfuse", "langsmith", "phoenix"} /\ Fails

-----------------------------------------------------------------------------
(* The calls.  otel has no fetch: the base adapter refuses one. *)

Fetchable == kind # "otel"

FirstStep(c) ==
    CASE c = "delete" /\ kind \in {"phoenix", "otel"} -> "remove"
      [] kind \in PerProject /\ ~(c = "delete" /\ kind = "phoenix") -> "rows"
      [] OTHER -> "list"

Begin(c) ==
    /\ op.call = "none"
    /\ calls < MaxCalls
    /\ c = "fetch" => Fetchable
    /\ ~(c = "delete" /\ kind \in {"datadog", "helicone"})
    /\ calls' = calls + 1
    /\ op' = [TraceIdle EXCEPT !.call = c, !.at = FirstStep(c)]
    /\ answer' = "none"
    /\ UNCHANGED <<givenVars, backendVars, boundVars>>

\* Deletion is governed by retention: no call is made.
Ungoverned ==
    /\ op.call = "none"
    /\ calls < MaxCalls
    /\ calls' = calls + 1
    /\ answer' = "unsupported"
    /\ UNCHANGED <<givenVars, backendVars, boundVars, op>>

DatadogDelete  == kind = "datadog"  /\ Ungoverned
HeliconeDelete == kind = "helicone" /\ Ungoverned

\* The tenant's project is looked up among the projects listed.
ReadRows ==
    /\ op.at = "rows"
    /\ IF row
       THEN Advance(IF op.call = "delete" THEN "remove" ELSE "list", 1, {}, 0)
       ELSE Return(IF op.call = "delete" THEN "done" ELSE "absent")

LangsmithProjectNames == kind = "langsmith" /\ ReadRows
PhoenixProjectNames   == kind = "phoenix"   /\ ReadRows

\* One listing of a service with a cap, judged by its length.
ReadCapped ==
    /\ op.at = "list"
    /\ kind \in PerProject => row
    /\ LET got == Prefix(stored, TRACE_LIMIT)
       IN  Return(Verdict({got[i] : i \in DOMAIN got}, Len(got) >= TRACE_LIMIT))

LangsmithSearch == kind = "langsmith" /\ op.call = "search" /\ ReadCapped
LangsmithFetch  == kind = "langsmith" /\ op.call = "fetch"  /\ ReadCapped
PhoenixSearch   == kind = "phoenix"   /\ op.call = "search" /\ ReadCapped
PhoenixFetch    == kind = "phoenix"   /\ op.call = "fetch"  /\ ReadCapped
DatadogSearch   == kind = "datadog"   /\ op.call = "search" /\ ReadCapped
DatadogFetch    == kind = "datadog"   /\ op.call = "fetch"  /\ ReadCapped
HeliconeSearch  == kind = "helicone"  /\ op.call = "search" /\ ReadCapped
HeliconeFetch   == kind = "helicone"  /\ op.call = "fetch"  /\ ReadCapped

\* One answer of a store that may cut it anywhere, and then says so.
OtelSearch ==
    /\ op.at = "list"
    /\ kind = "otel"
    /\ \E n \in 0..Len(stored) :
          Return(Verdict({stored[i] : i \in 1..n}, n < Len(stored)))

PageOf(n) ==
    LET last == n * TRACE_PAGE
    IN  SubSeq(stored, last - TRACE_PAGE + 1, IF last < Len(stored) THEN last ELSE Len(stored))

\* The listing is complete, or the budget ran out before it was.
Conclude(got, partial) ==
    IF op.call # "delete" THEN Return(Verdict(got, partial))
    ELSE IF partial THEN Return("refused")
    ELSE IF got = {} THEN Return("done")
    ELSE Advance("remove", 1, got, 0)

\* The next page of _tenant_traces: a short one is the last, and a full one that
\* exhausts the budget leaves the listing incomplete.
ReadPage ==
    /\ op.at = "list"
    /\ kind = "langfuse"
    /\ LET batch == PageOf(op.page)
           got   == op.got \cup {batch[i] : i \in DOMAIN batch}
           seen  == op.seen + Len(batch)
       IN  IF Len(batch) < TRACE_PAGE THEN Conclude(got, FALSE)
           ELSE IF seen >= TRACE_LIMIT THEN Conclude(got, TRUE)
           ELSE Advance("list", op.page + 1, got, seen)

LangfuseSearch == op.call = "search" /\ ReadPage
LangfuseFetch  == op.call = "fetch"  /\ ReadPage
LangfuseListed == op.call = "delete" /\ ReadPage

-----------------------------------------------------------------------------
(* Deletion. *)

\* What the backend promises to delete: the traces langfuse was given by id, and
\* whatever the tenant or its project holds.
Accepts ==
    doomed' = doomed \cup (CASE kind = "langfuse"     -> op.got \cap Held
                             [] kind \in PerProject   -> {0}
                             [] OTHER                 -> Held)

\* delete_multiple and delete_project return when the deletion is accepted.
DeleteAsync ==
    /\ op.at = "remove"
    /\ kind \in {"langfuse", "langsmith"}
    /\ kind = "langsmith" => row
    /\ Accepts
    /\ op' = [op EXCEPT !.at = "confirm", !.tries = 0]
    /\ UNCHANGED <<givenVars, stored, row, boundVars, calls, answer>>

\* Fault: the poll has no bound.
ConfirmForever ==
    /\ op.at = "confirm"
    /\ IF (IF kind = "langfuse" THEN stored = <<>> ELSE ~row) THEN Return("done")
       ELSE /\ op' = [op EXCEPT !.tries = (@ + 1) % TRIES]
            /\ UNCHANGED <<givenVars, backendVars, boundVars, calls, answer>>

\* One poll: is a trace of the tenant, or its project, still listed?
Confirm ==
    /\ op.at = "confirm"
    /\ IF (IF kind = "langfuse" THEN stored = <<>> ELSE ~row) THEN Return("done")
       ELSE IF op.tries + 1 = TRIES THEN Return("error")
       ELSE /\ op' = [op EXCEPT !.tries = @ + 1]
            /\ UNCHANGED <<givenVars, backendVars, boundVars, calls, answer>>

\* The delete route took the request.
DeleteDirect ==
    /\ op.at = "remove"
    /\ kind \in {"phoenix", "otel"}
    /\ route = "accepts"
    /\ kind = "phoenix" => row
    /\ Accepts
    /\ answer' = "done" /\ op' = TraceIdle
    /\ UNCHANGED <<givenVars, stored, row, boundVars, calls>>

\* 404: there is nothing to delete, or no route to delete it by.
DeleteNotFound ==
    /\ op.at = "remove"
    /\ kind \in {"phoenix", "otel"}
    /\ route = "404" \/ (route = "accepts" /\ (IF kind = "phoenix" THEN ~row ELSE stored = <<>>))
    /\ Advance("recheck", 1, {}, 0)

\* 405 or 501 from a trace store: it deletes nothing.
DeleteNotAllowed ==
    /\ op.at = "remove"
    /\ kind = "otel"
    /\ route = "405"
    /\ Return("unsupported")

\* The project listing, or a query for every span, tells the two 404s apart.
\* Spans that are seen remain, whatever lies beyond a partial answer.
RecheckProject ==
    /\ op.at = "recheck"
    /\ kind = "phoenix"
    /\ Return(IF row THEN "unsupported" ELSE "done")

RecheckSpans ==
    /\ op.at = "recheck"
    /\ kind = "otel"
    /\ \E n \in 0..Len(stored) :
          Return(IF n > 0 THEN "unsupported" ELSE IF n < Len(stored) THEN "refused" ELSE "done")

LangfuseDelete  == kind = "langfuse"  /\ (LangfuseListed \/ DeleteAsync \/ Confirm)
LangsmithDelete == kind = "langsmith" /\ (DeleteAsync \/ Confirm)
PhoenixDelete   == kind = "phoenix"   /\ (DeleteDirect \/ DeleteNotFound \/ RecheckProject)
OtelPurge       == kind = "otel"      /\ (DeleteDirect \/ DeleteNotFound \/ DeleteNotAllowed \/ RecheckSpans)

Read ==
    \/ LangsmithProjectNames \/ PhoenixProjectNames
    \/ LangsmithSearch \/ LangsmithFetch \/ PhoenixSearch \/ PhoenixFetch
    \/ DatadogSearch \/ DatadogFetch \/ HeliconeSearch \/ HeliconeFetch
    \/ OtelSearch \/ LangfuseSearch \/ LangfuseFetch

TraceStep == Read \/ LangfuseDelete \/ LangsmithDelete \/ PhoenixDelete \/ OtelPurge
     \/ DatadogPost \/ HeliconePost \/ OtelQuery \/ SdkRaises

-----------------------------------------------------------------------------
(* The backend between two calls. *)

Loses(t) == \E i \in DOMAIN stored : stored[i] = t /\ stored' = RemoveAt(stored, i)

Ingest ==
    /\ ingests < MaxIngests
    /\ ingests' = ingests + 1
    /\ stored' = <<MaxTraces + ingests'>> \o stored
    /\ row' = TRUE
    /\ UNCHANGED <<givenVars, doomed, expiries, calls, op, answer>>

Apply ==
    /\ \E t \in doomed \cap Held :
          /\ Loses(t)
          /\ doomed' = doomed \ {t}
    /\ UNCHANGED <<givenVars, row, boundVars, calls, op, answer>>

ApplyProject ==
    /\ 0 \in doomed
    /\ row' = FALSE /\ stored' = <<>> /\ doomed' = {}
    /\ UNCHANGED <<givenVars, boundVars, calls, op, answer>>

\* Retention, or a purge of somebody else's, takes a trace.
Expire ==
    /\ expiries < MaxExpiries
    /\ expiries' = expiries + 1
    /\ \E t \in Held \ doomed : Loses(t)
    /\ UNCHANGED <<givenVars, row, doomed, ingests, calls, op, answer>>

Backend == Ingest \/ Apply \/ ApplyProject \/ Expire

-----------------------------------------------------------------------------
\* gone, beyond: at some moment of the call the target was not stored, or not
\* among the TRACE_LIMIT most recent; vanished: a trace went between two pages;
\* empty: at some moment the tenant had no trace; accepted: the delete request of
\* the call left nothing of the tenant that the backend had not promised to delete.
Saw(before, s, mid, took) ==
    LET held == {s[i] : i \in DOMAIN s}
        near == Prefix(s, TRACE_LIMIT)
    IN  [call     |-> before.call,
         gone     |-> before.gone     \/ target \notin held,
         beyond   |-> before.beyond   \/ target \notin {near[i] : i \in DOMAIN near},
         vanished |-> before.vanished \/ (mid /\ Held \ held # {}),
         empty    |-> before.empty    \/ s = <<>>,
         accepted |-> before.accepted \/ took]

NothingSeen(c) == [call |-> c, gone |-> FALSE, beyond |-> FALSE, vanished |-> FALSE,
                   empty |-> FALSE, accepted |-> FALSE]

Promised == 0 \in doomed \/ (stored # <<>> /\ Held \subseteq doomed)
Requested == op.at = "remove" /\ op'.at # "remove"

Watch ==
    saw' = IF calls' # calls
           THEN Saw(NothingSeen(IF op'.call = "none" THEN "delete" ELSE op'.call), stored', FALSE, FALSE)
           ELSE IF op.call = "none" THEN saw
           ELSE Saw(saw, stored', op.page > 1, Requested /\ Promised')

TraceInit ==
    /\ kind \in Kinds
    /\ target \in 0..MaxTraces
    /\ field \in Fields
    /\ route \in (IF kind \in {"phoenix", "otel"} THEN Routes ELSE {"accepts"})
    /\ \E n \in 0..MaxTraces : stored = [i \in 1..n |-> i]
    /\ row \in (IF kind \in PerProject /\ stored = <<>> THEN BOOLEAN ELSE {TRUE})
    /\ doomed \in (IF kind = "langfuse" THEN {{}, Held} ELSE {{}})   \* of an earlier delete
    /\ ingests = 0 /\ expiries = 0 /\ calls = 0
    /\ op = TraceIdle
    /\ answer = "none"
    /\ saw = NothingSeen("none")

TraceNext ==
    /\ TraceStep \/ Backend \/ DatadogDelete \/ HeliconeDelete \/ \E c \in Calls : Begin(c)
    /\ Watch

\* A request is answered or times out, so a call in progress takes its steps. A
\* backend owes nothing: a deletion it accepted may never be applied.
TraceSpec == TraceInit /\ [][TraceNext]_traceVars /\ WF_traceVars(TraceStep /\ Watch)

-----------------------------------------------------------------------------
TraceTypeOK ==
    /\ target \in 0..MaxTraces /\ field \in Fields /\ route \in Routes
    /\ Held \subseteq 1..(MaxTraces + MaxIngests)
    /\ Cardinality(Held) = Len(stored)
    /\ doomed \subseteq {0} \cup 1..(MaxTraces + MaxIngests)
    /\ op.call \in Calls \cup {"none"} /\ op.tries < TRIES
    /\ op.seen <= TRACE_LIMIT
    /\ answer \in Answers

\* "Not there" is only ever said of a target that was not there at some moment of
\* the call, and an answer is only ever refused when the target was, for a moment,
\* out of the listing's reach: a full page, a budget and a hit at the cap never
\* turn a held trace into an erased one, nor lose one that was listed.  The one
\* exception is a trace that vanishes between two pages and shifts the later ones.
ReadsAreHonest ==
    op.call = "none" =>
        /\ answer = "absent"  => saw.gone   \/ saw.vanished
        /\ answer = "refused" /\ saw.call # "delete" /\ kind # "otel" =>
              saw.beyond \/ saw.vanished

\* A delete that returns was taken by the backend's own delete route, for all that the
\* tenant had, or the tenant was seen without traces; one that answers "unsupported" took nothing, and never
\* says so of a backend that deletes, unless its tenant was empty and came back.
PurgesAreHonest ==
    op.call = "none" =>
        /\ answer = "done" => saw.empty \/ (kind \in {"phoenix", "otel"} /\ saw.accepted)
        /\ answer = "unsupported" /\ kind \in {"phoenix", "otel"} =>
              ~saw.accepted /\ (route = "accepts" => saw.empty)

\* What the trace backends tell their callers, taken together.
AnswersAreHonest == ReadsAreHonest /\ PurgesAreHonest

=============================================================================
