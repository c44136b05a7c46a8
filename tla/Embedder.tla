------------------------------- MODULE Embedder -------------------------------
(***************************************************************************)
(* The embedder bridge between a batch embedding model and a vector store  *)
(* that asks for one text at a time, through the probe command: the corpus *)
(* is embedded in batches and loaded, the suite's query texts are          *)
(* registered and embedded as queries, the texts it will plant as          *)
(* documents, and then the probes of the suite call the bridge from        *)
(* several threads.  Every request to the provider may fail, and a batch   *)
(* that failed is left to the calls on demand.                             *)
(*                                                                         *)
(* An asymmetric model embeds queries and documents into different halves  *)
(* of its space; a vector is the text and the mode it was embedded in.     *)
(***************************************************************************)
EXTENDS Naturals, FiniteSets

CONSTANTS
    Corpus, Planned, Planted,   \* the texts of the three prefetches
    Unplanned,                  \* queries the plan does not name
    EMBED_BATCH_SIZE,           \* texts of one request
    Workers,                    \* the threads of the pool
    MaxEmbeds                   \* bound on the calls of the suite

ASSUME CorpusAssumed == Corpus # {}
ASSUME WorkersAssumed == IsFiniteSet(Workers) /\ Workers # {}

VARIABLES
    stage,      \* of the probe command: see Stages
    todo,       \* the texts the stage has still to embed, or to load
    documents, queries,   \* the two caches: the texts in them
    query_texts,          \* texts registered as queries
    call,       \* the call of each worker: the text and where it is
    embeds,     \* calls of the suite begun
    served,     \* history: <<text, mode>> handed to the store
    paid,       \* history: requests that returned the text's vector
    batched     \* history: texts paid for by a batch

bridgeVars ==
    <<stage, todo, documents, queries, query_texts, call, embeds, served, paid, batched>>

Following == [prefetch |-> "load", load |-> "register", register |-> "plant", plant |-> "suite"]
Stages  == DOMAIN Following \cup {"suite", "ended"}
Texts   == Corpus \cup Planned \cup Planted \cup Unplanned
AtRest  == [at |-> "rest", text |-> CHOOSE t \in Corpus : TRUE]

Embedded == documents \cup queries
MissingDocuments(texts) == texts \ documents
\* A text already indexed as a document is served as one.
MissingQueries(texts) == texts \ Embedded

-----------------------------------------------------------------------------
(* The command's stages. *)

\* Fault: only a text that is embedded is registered.
RegisterEmbedded(texts) == query_texts' = query_texts \cup (texts \cap queries)

\* Every query text is registered, before any is embedded.
Register(texts) == query_texts' = query_texts \cup texts

Enter(next) ==
    /\ stage' = next
    /\ todo' = CASE next = "load"     -> Corpus
                 [] next = "register" -> MissingQueries(Planned)
                 [] next = "plant"    -> MissingDocuments(Planted)
                 [] OTHER             -> {}
    /\ IF next = "register" THEN Register(Planned) ELSE UNCHANGED query_texts

Chunks == {texts \in SUBSET todo : texts # {} /\ Cardinality(texts) <= EMBED_BATCH_SIZE}
Cache  == IF stage = "register" THEN "queries" ELSE "documents"

Keep(texts, cache) ==
    /\ documents' = documents \cup (IF cache = "documents" THEN texts ELSE {})
    /\ queries'   = queries   \cup (IF cache = "queries"   THEN texts ELSE {})
    /\ paid' = [t \in Texts |-> paid[t] + (IF t \in texts THEN 1 ELSE 0)]

\* One batch, cached as it arrives; the order of the texts is left open.
FillBatch ==
    /\ stage \in {"prefetch", "register", "plant"}
    /\ \E chunk \in Chunks :
          /\ todo' = todo \ chunk
          /\ Keep(chunk, Cache)
          /\ batched' = batched \cup chunk
    /\ UNCHANGED <<stage, query_texts, call, embeds, served>>

\* The provider raises, or returns a wrong number of vectors: a warning, and the rest
\* is left to the calls on demand.
FillFails ==
    /\ stage \in {"prefetch", "register", "plant"}
    /\ todo # {}
    /\ Enter(Following[stage])
    /\ UNCHANGED <<documents, queries, call, embeds, served, paid, batched>>

Filled ==
    /\ stage \in {"prefetch", "register", "plant", "load"}
    /\ todo = {}
    /\ \A w \in Workers : call[w].at = "rest"
    /\ Enter(Following[stage])
    /\ UNCHANGED <<documents, queries, call, embeds, served, paid, batched>>

-----------------------------------------------------------------------------
(* The calls of the store: the corpus as it is loaded, then those of the suite. *)

CallEmbedder(w, text) ==
    /\ call[w].at = "rest"
    /\ call' = [call EXCEPT ![w] = [at |-> "look", text |-> text]]

Load(w) ==
    /\ stage = "load"
    /\ \A v \in Workers : call[v].at = "rest"
    /\ \E text \in todo : CallEmbedder(w, text) /\ todo' = todo \ {text}
    /\ UNCHANGED <<stage, documents, queries, query_texts, embeds, served, paid, batched>>

Ask(w, text) ==
    /\ stage = "suite" /\ embeds < MaxEmbeds
    /\ embeds' = embeds + 1
    /\ CallEmbedder(w, text)
    /\ UNCHANGED <<stage, todo, documents, queries, query_texts, served, paid, batched>>

Serve(w, mode) ==
    /\ served' = served \cup {<<call[w].text, mode>>}
    /\ call' = [call EXCEPT ![w].at = "rest"]

\* Documents first: the index is what the store keeps.  A registered query that is in
\* neither cache is embedded as a query, anything else as a document.
Look(w) ==
    /\ call[w].at = "look"
    /\ LET t == call[w].text
       IN  CASE t \in documents -> Serve(w, "document")
             [] t \notin documents /\ t \in queries -> Serve(w, "query")
             [] OTHER -> /\ call' = [call EXCEPT ![w].at = IF t \in query_texts THEN "query"
                                                                    ELSE "document"]
                         /\ UNCHANGED served
    /\ UNCHANGED <<stage, todo, documents, queries, query_texts, embeds, paid, batched>>

\* Two workers that missed the same text both pay for it.
EmbedOnDemand(w) ==
    /\ call[w].at \in {"query", "document"}
    /\ Keep({call[w].text}, IF call[w].at = "query" THEN "queries" ELSE "documents")
    /\ Serve(w, call[w].at)
    /\ UNCHANGED <<stage, todo, query_texts, embeds, batched>>

\* On demand there is nothing left to fall back to: the run ends with the error.
DemandFails(w) ==
    /\ call[w].at \in {"query", "document"}
    /\ stage' = "ended"
    /\ call' = [call EXCEPT ![w].at = "rest"]
    /\ UNCHANGED <<todo, documents, queries, query_texts, embeds, served, paid, batched>>

Finish ==
    /\ stage = "suite"
    /\ \A w \in Workers : call[w].at = "rest"
    /\ stage' = "ended"
    /\ UNCHANGED <<todo, documents, queries, query_texts, call, embeds, served, paid, batched>>

BridgeInit ==
    /\ stage = "prefetch" /\ todo = Corpus
    /\ documents = {} /\ queries = {} /\ query_texts = {}
    /\ call = [w \in Workers |-> AtRest] /\ embeds = 0
    /\ served = {} /\ paid = [t \in Texts |-> 0] /\ batched = {}

BridgeNext ==
    \/ FillBatch \/ FillFails \/ Filled \/ Finish
    \/ \E w \in Workers : Load(w) \/ Look(w) \/ EmbedOnDemand(w) \/ DemandFails(w)
    \/ \E w \in Workers, t \in Planned \cup Planted \cup Unplanned : Ask(w, t)

BridgeSpec == BridgeInit /\ [][BridgeNext]_bridgeVars

-----------------------------------------------------------------------------
\* A text has one vector for the whole run, and it is the one its store would hold or
\* ask with: a document's for what is indexed, a query's for what the suite was planned to
\* ask and is not indexed, whichever batches failed.  Only a text that is asked and
\* planted too may have either.
OneVectorPerText ==
    \A t \in Texts :
        /\ ~(<<t, "query">> \in served /\ <<t, "document">> \in served)
        /\ <<t, "query">> \in served => t \in Planned \ Corpus
        /\ <<t, "document">> \in served => t \notin Planned \ (Corpus \cup Planted)

Both == (Planned \cap Planted) \ Corpus

\* What a batch has paid for is not paid for again in that mode, although a later batch of
\* the same prefetch fails, and a text asked for by several workers at most once by each.
BatchesAreKept ==
    \A t \in Texts :
        /\ paid[t] <= Cardinality(Workers) \/ (t \in Both /\ paid[t] = 2)
        /\ t \in batched => paid[t] = 1 \/ (t \in Both /\ paid[t] = 2)

\* The bridge gives the store one vector per text, and pays for it once.
EmbedderKeepsItsWord == OneVectorPerText /\ BatchesAreKept
=============================================================================
