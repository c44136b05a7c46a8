----------------------------- MODULE VectorStores -----------------------------
(***************************************************************************)
(* The vector store adapters: writing a corpus for a tenant, querying it,  *)
(* fetching a document of it by id and deleting it, as sequences of remote *)
(* calls, by clients that share one tenant of one backend.                 *)
(*                                                                         *)
(*   pinecone, azure   hosted: a write is accepted in batches, applied     *)
(*                     later, in the order of acceptance, and polled for   *)
(*   qdrant            batches, each applied when it returns               *)
(*   chroma, milvus    one call for the corpus                             *)
(*   weaviate, opensearch   one call per document                          *)
(*   pgvector          one transaction                                     *)
(*                                                                         *)
(* The tenant's container is an index or a collection that is created and  *)
(* dropped, except that a pinecone namespace and the rows of pgvector are  *)
(* there while they hold something.  A document has an owner, its tenant   *)
(* or one of its users; its text and its vector are left out.              *)
(***************************************************************************)
EXTENDS Naturals, Sequences, FiniteSets

CONSTANTS
    Backends,      \* the backends under test
    Clients,
    Docs,          \* <<document id, ...>>: what a client may write, in order
    Users,
    TENANT_LEVEL,  \* the owner of a document that is no user's
    BATCH,         \* documents one request may hold
    SETTLE_TRIES,
    K,             \* hits asked for by a query
    MaxCalls       \* bound on the calls made

AllBackends == {"pinecone", "azure", "qdrant", "chroma", "milvus", "weaviate", "opensearch",
                "pgvector"}

ASSUME BackendsAssumed == Backends \subseteq AllBackends
ASSUME BoundsAssumed   == BATCH \in Nat \ {0} /\ K \in Nat \ {0} /\ MaxCalls \in Nat
\* A corpus has a document, and no id twice.
ASSUME DocsAssumed ==
    /\ Docs \in Seq({Docs[i] : i \in DOMAIN Docs}) /\ Docs # <<>>
    /\ \A i, j \in DOMAIN Docs : Docs[i] = Docs[j] => i = j

VARIABLES
    backend,
    user_scoped,
    store,     \* environment: the documents a read finds, see Stored
    created,   \* environment: whether the tenant's index or collection exists
    log,       \* environment: writes accepted and not yet applied
    dropping,  \* environment: a drop of the index accepted and not yet applied
    now,       \* the call of each client, see Call
    result,    \* what it returned or raised
    calls,     \* calls begun; a write is known by its number, a document by its write
    landed,    \* history: the documents of its write that have been applied, whether
               \* another write's version of the last one was there, and whether the
               \* index was dropped meanwhile
    quiet,     \* history: no write has been in progress during its delete, nor
               \* accepted earlier and not yet applied
    emptied     \* history: such a delete returned, and no write began since

vars == <<backend, user_scoped, store, created, log, dropping, now, result, calls,
          landed, quiet, emptied>>
given   == <<backend, user_scoped>>
remote  == <<store, created, log, dropping>>

DocIds  == {Docs[i] : i \in DOMAIN Docs}
Owners  == Users \cup {TENANT_LEVEL}
NoUser  == TENANT_LEVEL       \* a call made as the tenant
Absent  == [owner |-> TENANT_LEVEL, by |-> MaxCalls + 1]
Seeded  == [owner |-> TENANT_LEVEL, by |-> 0]
Holds(d) == store[d] # Absent
Empty   == [d \in DocIds |-> Absent]

Implicit == {"pinecone", "pgvector"}
Listed   == IF backend \in Implicit THEN store # Empty ELSE created

Resting == [call |-> "none", at |-> "rest", docs |-> <<>>, todo |-> <<>>, by |-> 0,
            user |-> NoUser, tries |-> 0]
Outcome(is, hits) == [is |-> is, hits |-> hits]

-----------------------------------------------------------------------------
Goto(c, at) == now' = [now EXCEPT ![c].at = at]

Answer(c, is) ==
    /\ now' = [now EXCEPT ![c].at = "rest"]
    /\ result' = [result EXCEPT ![c] = Outcome(is, {})]

Found(c, hits) ==
    /\ now' = [now EXCEPT ![c].at = "rest"]
    /\ result' = [result EXCEPT ![c] = Outcome("hits", hits)]

\* Any remote call raises; so does the embedder before the documents it was to
\* embed are written.
Raise(c) ==
    /\ now[c].at # "rest"
    /\ Answer(c, "error")
    /\ UNCHANGED <<given, remote, calls>>

-----------------------------------------------------------------------------
(* upsert.  An empty corpus makes no call: it is not modelled. *)

\* Consecutive documents of one request, never fewer than one.
Batch(todo) == SubSeq(todo, 1, IF Len(todo) < BATCH THEN Len(todo) ELSE BATCH)

Put(s, docs, entry) ==
    [d \in DocIds |-> IF \E i \in DOMAIN docs : docs[i] = d THEN entry ELSE s[d]]

\* The container is created on first use: looked up, then created.
EnsureLook(c) ==
    /\ now[c].at = "ensure"
    /\ Goto(c, IF created THEN "write" ELSE "create")
    /\ UNCHANGED <<given, remote, result, calls>>

\* Creating one that another client created meanwhile raises.
EnsureCreate(c) ==
    /\ now[c].at = "create"
    /\ ~created
    /\ created' = TRUE
    /\ Goto(c, "write")
    /\ UNCHANGED <<given, store, log, dropping, result, calls>>

AzureEnsure(c)      == backend = "azure"      /\ (EnsureLook(c) \/ EnsureCreate(c))
QdrantEnsure(c)     == backend = "qdrant"     /\ (EnsureLook(c) \/ EnsureCreate(c))
MilvusEnsure(c)     == backend = "milvus"     /\ (EnsureLook(c) \/ EnsureCreate(c))
WeaviateEnsure(c)   == backend = "weaviate"   /\ (EnsureLook(c) \/ EnsureCreate(c))
OpenSearchEnsure(c) == backend = "opensearch" /\ (EnsureLook(c) \/ EnsureCreate(c))

\* get_or_create is one call.
ChromaEnsure(c) ==
    /\ backend = "chroma"
    /\ now[c].at = "ensure"
    /\ created' = TRUE
    /\ Goto(c, "write")
    /\ UNCHANGED <<given, store, log, dropping, result, calls>>

Entry(c) == [owner |-> now[c].user, by |-> now[c].by]
Rest(c, docs) == SubSeq(now[c].todo, Len(docs) + 1, Len(now[c].todo))

\* A request that is applied when it returns.
Applied(c, docs) ==
    /\ now[c].at = "write"
    /\ store' = Put(store, docs, Entry(c))
    /\ IF Rest(c, docs) = <<>> THEN Answer(c, "done")
       ELSE now' = [now EXCEPT ![c].todo = Rest(c, docs)] /\ UNCHANGED result
    /\ UNCHANGED <<given, created, log, dropping, calls>>

\* A request that is accepted; after the last one the write is polled for.
Accepted(c, docs) ==
    /\ now[c].at = "write"
    /\ log' = Append(log, [put |-> docs, entry |-> Entry(c)])
    /\ now' = IF Rest(c, docs) = <<>> THEN [now EXCEPT ![c].at = "settle"]
              ELSE [now EXCEPT ![c].todo = Rest(c, docs)]
    /\ UNCHANGED <<given, store, created, dropping, result, calls>>

PineconeUpsert(c)   == backend = "pinecone" /\ Accepted(c, Batch(now[c].todo))
AzureUpsert(c)      == backend = "azure" /\ created /\ Accepted(c, Batch(now[c].todo))
QdrantUpsert(c)     == backend = "qdrant" /\ created /\ Applied(c, Batch(now[c].todo))
ChromaUpsert(c)     == backend = "chroma" /\ created /\ Applied(c, now[c].todo)
MilvusUpsert(c)     == backend = "milvus" /\ created /\ Applied(c, now[c].todo)
WeaviateUpsert(c)   == backend = "weaviate" /\ created /\ Applied(c, <<Head(now[c].todo)>>)
OpenSearchUpsert(c) == backend = "opensearch" /\ created /\ Applied(c, <<Head(now[c].todo)>>)
PgvectorUpsert(c)   == backend = "pgvector" /\ Applied(c, now[c].todo)

Last(docs) == docs[Len(docs)]

\* Fault: the poll looks for the first document.
FirstIsVisible(c) == Holds(Head(now[c].docs))

\* The poll looks for the last document, by its id.
LastIsVisible(c) == Holds(Last(now[c].docs))

\* Fault: the poll that ran out is taken for one that succeeded.
SettleQuietly(c, ready) ==
    IF ready \/ now[c].tries + 1 = SETTLE_TRIES THEN Answer(c, "done")
    ELSE now' = [now EXCEPT ![c].tries = @ + 1] /\ UNCHANGED result

\* Poll until ready; raise when it never is.
Settle(c, ready) ==
    IF ready THEN Answer(c, "done")
    ELSE IF now[c].tries + 1 = SETTLE_TRIES THEN Answer(c, "error")
    ELSE now' = [now EXCEPT ![c].tries = @ + 1] /\ UNCHANGED result

PineconeSettle(c) ==
    /\ backend = "pinecone"
    /\ now[c].at = "settle"
    /\ Settle(c, LastIsVisible(c))
    /\ UNCHANGED <<given, remote, calls>>

\* The document is asked for by its key; in an index that is gone it is not found either.
AzureSettle(c) ==
    /\ backend = "azure"
    /\ now[c].at = "settle"
    /\ Settle(c, LastIsVisible(c))
    /\ UNCHANGED <<given, remote, calls>>

-----------------------------------------------------------------------------
(* query and fetch. *)

\* What a call made as a user may see of a store that keeps users apart.
Visible(d, user) ==
    Holds(d) /\ (user_scoped /\ user # NoUser => store[d].owner \in {user, TENANT_LEVEL})

\* A read looks the container up, and finds nothing in one that is not there.
ReadLook(c) ==
    /\ now[c].at = "look" /\ now[c].call # "delete"
    /\ IF created THEN Goto(c, "read") /\ UNCHANGED result
       ELSE Found(c, {})
    /\ UNCHANGED <<given, remote, calls>>

\* Fault: the nearest documents are taken first and filtered afterwards.
FilteredAfter(user) ==
    LET held == {d \in DocIds : Holds(d)}
    IN  {{d \in s : Visible(d, user)} : s \in {t \in SUBSET held :
                           Cardinality(t) = K \/ (Cardinality(t) < K /\ t = held)}}

\* The filter is part of the query: K of the documents the user may see.
QueryHits(user) ==
    LET seen == {d \in DocIds : Visible(d, user)}
    IN  {s \in SUBSET seen : Cardinality(s) = K \/ (Cardinality(s) < K /\ s = seen)}

Query(c) ==
    /\ now[c].at = "read" /\ now[c].call = "query"
    /\ \E hits \in QueryHits(now[c].user) : Found(c, hits)
    /\ UNCHANGED <<given, remote, calls>>

PineconeQuery(c)   == backend = "pinecone" /\ Query(c)
AzureQuery(c)      == backend = "azure" /\ created /\ Query(c)
QdrantQuery(c)     == backend = "qdrant" /\ created /\ Query(c)
ChromaQuery(c)     == backend = "chroma" /\ created /\ Query(c)
MilvusQuery(c)     == backend = "milvus" /\ created /\ Query(c)
WeaviateQuery(c)   == backend = "weaviate" /\ created /\ Query(c)
OpenSearchQuery(c) == backend = "opensearch" /\ created /\ Query(c)
PgvectorQuery(c)   == backend = "pgvector" /\ Query(c)

\* A lookup by id has no filter: the owner is checked on what came back.
FetchChecked(c) ==
    /\ now[c].at = "read" /\ now[c].call = "fetch"
    /\ LET d == now[c].docs[1]
       IN  Found(c, IF Visible(d, now[c].user) THEN {d} ELSE {})
    /\ UNCHANGED <<given, remote, calls>>

PineconeFetch(c)   == backend = "pinecone" /\ FetchChecked(c)
AzureFetch(c)      == backend = "azure" /\ created /\ FetchChecked(c)
QdrantFetch(c)     == backend = "qdrant" /\ created /\ FetchChecked(c)
MilvusFetch(c)     == backend = "milvus" /\ created /\ FetchChecked(c)
WeaviateFetch(c)   == backend = "weaviate" /\ created /\ FetchChecked(c)
OpenSearchFetch(c) == backend = "opensearch" /\ created /\ FetchChecked(c)

\* The id and the owner are both conditions of the query.
FetchFiltered(c) ==
    /\ now[c].at = "read" /\ now[c].call = "fetch"
    /\ Found(c, {now[c].docs[1]} \cap {d \in DocIds : Visible(d, now[c].user)})
    /\ UNCHANGED <<given, remote, calls>>

ChromaFetch(c)   == backend = "chroma" /\ created /\ FetchFiltered(c)
PgvectorFetch(c) == backend = "pgvector" /\ FetchFiltered(c)

-----------------------------------------------------------------------------
(* delete. *)

DeleteLook(c) ==
    /\ now[c].at = "look" /\ now[c].call = "delete"
    /\ IF created THEN Goto(c, "drop") /\ UNCHANGED result
       ELSE Answer(c, "done")
    /\ UNCHANGED <<given, remote, calls>>

Drop(c) ==
    /\ now[c].at = "drop"
    /\ created
    /\ created' = FALSE /\ store' = Empty
    /\ Answer(c, "done")
    /\ UNCHANGED <<given, log, dropping, calls>>

QdrantDelete(c)     == backend = "qdrant"     /\ (DeleteLook(c) \/ Drop(c))
ChromaDelete(c)     == backend = "chroma"     /\ (DeleteLook(c) \/ Drop(c))
MilvusDelete(c)     == backend = "milvus"     /\ (DeleteLook(c) \/ Drop(c))
WeaviateDelete(c)   == backend = "weaviate"   /\ (DeleteLook(c) \/ Drop(c))
OpenSearchDelete(c) == backend = "opensearch" /\ (DeleteLook(c) \/ Drop(c))

AzureDrop(c) ==
    /\ now[c].at = "drop"
    /\ created
    /\ dropping' = TRUE
    /\ Goto(c, "gone")
    /\ UNCHANGED <<given, store, created, log, result, calls>>

AzureDelete(c) == backend = "azure" /\ (DeleteLook(c) \/ AzureDrop(c))

AzureGone(c) ==
    /\ backend = "azure"
    /\ now[c].at = "gone"
    /\ Settle(c, ~created)
    /\ UNCHANGED <<given, remote, calls>>

PgvectorDelete(c) ==
    /\ backend = "pgvector"
    /\ now[c].at = "look" /\ now[c].call = "delete"
    /\ store' = Empty
    /\ Answer(c, "done")
    /\ UNCHANGED <<given, created, log, dropping, calls>>

PineconeDelete(c) ==
    /\ backend = "pinecone"
    /\ now[c].at = "look" /\ now[c].call = "delete"
    /\ log' = Append(log, [put |-> Docs, entry |-> Absent])
    /\ Goto(c, "gone")
    /\ UNCHANGED <<given, store, created, dropping, result, calls>>

\* The namespace's vector count; an answer without one raises.
PineconeGone(c) ==
    /\ backend = "pinecone"
    /\ now[c].at = "gone"
    /\ Settle(c, store = Empty)
    /\ UNCHANGED <<given, remote, calls>>

-----------------------------------------------------------------------------
(* The service between two calls: what was accepted is applied in order. *)

Apply ==
    /\ log # <<>>
    /\ store' = Put(store, Head(log).put, Head(log).entry)
    /\ log' = Tail(log)
    /\ UNCHANGED <<given, created, dropping, now, result, calls>>

ApplyDrop ==
    /\ dropping
    /\ created' = FALSE /\ dropping' = FALSE
    /\ store' = Empty /\ log' = <<>>
    /\ UNCHANGED <<given, now, result, calls>>

-----------------------------------------------------------------------------
FirstStep(call) ==
    CASE call = "upsert" /\ backend \in Implicit -> "write"
      [] call = "upsert" /\ backend \notin Implicit -> "ensure"
      [] call \in {"query", "fetch"} /\ backend \in Implicit -> "read"
      [] OTHER -> "look"

\* Without a user scope no user reaches a read, and whose a document is tells nothing.
Begin(c, call, docs, user) ==
    /\ now[c].at = "rest"
    /\ calls < MaxCalls
    /\ call # "upsert" => docs = <<Docs[1]>>      \* of which a fetch asks the first
    /\ call = "delete" => user = NoUser
    /\ ~user_scoped => user = NoUser
    /\ calls' = calls + 1
    /\ now' = [now EXCEPT ![c] = [Resting EXCEPT !.call = call, !.at = FirstStep(call),
                                   !.docs = docs, !.todo = docs, !.by = calls', !.user = user]]
    /\ result' = [result EXCEPT ![c] = Outcome("none", {})]
    /\ UNCHANGED <<given, remote>>

Upsert(c) ==
    \/ AzureEnsure(c) \/ QdrantEnsure(c) \/ MilvusEnsure(c) \/ WeaviateEnsure(c)
    \/ OpenSearchEnsure(c) \/ ChromaEnsure(c)
    \/ PineconeUpsert(c) \/ AzureUpsert(c) \/ QdrantUpsert(c) \/ ChromaUpsert(c)
    \/ MilvusUpsert(c) \/ WeaviateUpsert(c) \/ OpenSearchUpsert(c) \/ PgvectorUpsert(c)
    \/ PineconeSettle(c) \/ AzureSettle(c)

Lookup(c) ==
    \/ ReadLook(c)
    \/ PineconeQuery(c) \/ AzureQuery(c) \/ QdrantQuery(c) \/ ChromaQuery(c)
    \/ MilvusQuery(c) \/ WeaviateQuery(c) \/ OpenSearchQuery(c) \/ PgvectorQuery(c)
    \/ PineconeFetch(c) \/ AzureFetch(c) \/ QdrantFetch(c) \/ ChromaFetch(c)
    \/ MilvusFetch(c) \/ WeaviateFetch(c) \/ OpenSearchFetch(c) \/ PgvectorFetch(c)

Delete(c) ==
    \/ PineconeDelete(c) \/ AzureDelete(c) \/ QdrantDelete(c) \/ ChromaDelete(c)
    \/ MilvusDelete(c) \/ WeaviateDelete(c) \/ OpenSearchDelete(c) \/ PgvectorDelete(c)
    \/ PineconeGone(c) \/ AzureGone(c)

Step(c) == Upsert(c) \/ Lookup(c) \/ Delete(c) \/ Raise(c)

Began(c) == now'[c].by # now[c].by
Unlanded == [seen |-> {}, stale |-> FALSE, dropped |-> FALSE]

Watch ==
    LET writes == \E c \in Clients : now'[c].call = "upsert" /\ now'[c].at # "rest"
        mine(c) == {d \in DocIds : store'[d].by = now'[c].by /\ store'[d] # Absent}
        last(c) == Last(now'[c].docs)
        other(c) == store'[last(c)] # Absent /\ store'[last(c)].by # now'[c].by
    IN  /\ landed' = [c \in Clients |->
               IF now'[c].call # "upsert" THEN Unlanded
               ELSE IF Began(c) THEN [Unlanded EXCEPT !.stale = other(c)]
               ELSE IF now[c].at = "rest" THEN landed[c]
               ELSE [seen    |-> landed[c].seen \cup mine(c),
                     stale   |-> landed[c].stale \/ other(c),
                     dropped |-> landed[c].dropped \/ (dropping /\ ~dropping')]]
        /\ quiet' = [c \in Clients |->
               now'[c].call = "delete" /\ ~writes /\ (IF Began(c) THEN log = <<>> ELSE quiet[c])]
        /\ emptied' = (~writes /\ (emptied \/ \E c \in Clients :
               quiet'[c] /\ result'[c] # result[c] /\ result'[c].is = "done"))

Init ==
    /\ backend \in Backends
    /\ user_scoped \in BOOLEAN
    /\ store \in {Empty, [d \in DocIds |-> Seeded]}
    /\ created \in (IF backend \in Implicit \/ store # Empty THEN {backend \notin Implicit}
                    ELSE BOOLEAN)
    /\ log = <<>> /\ dropping = FALSE
    /\ now = [c \in Clients |-> Resting]
    /\ result = [c \in Clients |-> Outcome("none", {})]
    /\ calls = 0
    /\ landed = [c \in Clients |-> Unlanded]
    /\ quiet = [c \in Clients |-> FALSE]
    /\ emptied = FALSE

Next ==
    /\ \/ \E c \in Clients : Step(c)
       \/ \E c \in Clients, docs \in {Docs, <<Docs[1]>>}, user \in Owners,
             call \in {"upsert", "query", "fetch", "delete"} : Begin(c, call, docs, user)
       \/ Apply \/ ApplyDrop
    /\ Watch

Spec == Init /\ [][Next]_vars

-----------------------------------------------------------------------------
\* A corpus write that returns has landed whole, although a hosted service applies
\* it later and only its last document is polled for.  The last id is new to the
\* store: over another write's version of it the poll is met at once.  And the index is
\* not dropped meanwhile: one that is, and is created again, has the last batch only.
FreshUpsertIsVisible ==
    \A c \in Clients :
        now[c].call = "upsert" /\ result[c].is = "done" /\ ~landed[c].stale /\ ~landed[c].dropped =>
            landed[c].seen = {now[c].docs[i] : i \in DOMAIN now[c].docs}

\* Once a delete has returned, with no write going on or still to be applied, the
\* tenant has no document and its container is not listed, whatever reads and other
\* deletes race it or follow.
ErasedStaysErased == emptied => store = Empty /\ ~Listed

\* A read made as a user of a store that keeps users apart returns no document of
\* another user, and is not left empty-handed because others' documents are nearer.
UserScopeHolds ==
    [][\A c \in Clients :
          LET user == now[c].user
          IN  now[c].at = "read" /\ user_scoped /\ user # NoUser /\ result'[c].is = "hits" =>
                 /\ \A d \in result'[c].hits : store[d].owner \in {user, TENANT_LEVEL}
                 /\ now[c].call = "query" /\ (\E d \in DocIds : Visible(d, user)) =>
                       result'[c].hits # {}]_vars

=============================================================================
