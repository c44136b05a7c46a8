--------------------------- MODULE VectorStoresProofs ---------------------------
(***************************************************************************)
(* What holds of the vector store adapters for any number of clients,      *)
(* documents, users and calls, and whatever the sizes of a request, of a   *)
(* query's answer and of the patience of a poll.                           *)
(***************************************************************************)
EXTENDS VectorStores, SequenceTheorems, FiniteSetTheorems, TLAPS

(* The inductive invariant. *)

Hosted == {"pinecone", "azure"}

Version == [owner : Owners, by : 0..(MaxCalls + 1)]
Request == [put : Seq(DocIds), entry : Version]
Call ==
    [call : {"none", "upsert", "query", "fetch", "delete"},
     at : {"rest", "ensure", "create", "write", "settle", "look", "read", "drop", "gone"},
     docs : Seq(DocIds), todo : Seq(DocIds), by : 0..MaxCalls, user : Owners, tries : Nat]
Results == [is : {"none", "done", "error", "hits"}, hits : SUBSET DocIds]

TypeOK ==
    /\ backend \in Backends /\ user_scoped \in BOOLEAN
    /\ store \in [DocIds -> Version] /\ created \in BOOLEAN
    /\ log \in Seq(Request) /\ dropping \in BOOLEAN
    /\ now \in [Clients -> Call] /\ result \in [Clients -> Results] /\ calls \in 0..MaxCalls
    /\ landed \in [Clients -> [seen : SUBSET DocIds, stale : BOOLEAN, dropped : BOOLEAN]]
    /\ quiet \in [Clients -> BOOLEAN] /\ emptied \in BOOLEAN

Sending == {"ensure", "create", "write"}

\* The steps of a call are those of its kind, it has no result before it rests, and its
\* number is its own.
CallOK(c) ==
    /\ now[c].at \in Sending \cup {"settle"} => now[c].call = "upsert"
    /\ now[c].at \in {"look", "read"} => now[c].call # "upsert"
    /\ now[c].at \in {"drop", "gone"} => now[c].call = "delete"
    /\ now[c].at # "rest" => result[c].is = "none"
    /\ now[c].by <= calls
    /\ now[c].call # "none" => now[c].by > 0 /\ now[c].docs \in {Docs, <<Docs[1]>>}

CallsOK ==
    /\ \A c \in Clients : CallOK(c)
    /\ \A c, e \in Clients : c # e /\ now[c].by = now[e].by => now[c].by = 0

\* Nothing is in a container that is not there, only a hosted service has writes still to
\* apply, and every version is of a call that has begun.
Known == (0..calls) \cup {MaxCalls + 1}

RemoteOK ==
    /\ dropping => backend = "azure" /\ created
    /\ backend \notin Implicit /\ ~created => store = Empty /\ log = <<>>
    /\ backend \notin Hosted => log = <<>>
    /\ \A d \in DocIds : store[d].by \in Known
    /\ \A i \in DOMAIN log : log[i].entry.by \in Known

\* While a delete is quiet nobody writes, and all that is still to be applied are deletes.
NoWrites == \A c \in Clients : now[c].call = "upsert" => now[c].at = "rest"
Wipe     == [put |-> Docs, entry |-> Absent]

QuietOK ==
    /\ emptied \/ (\E c \in Clients : quiet[c]) => NoWrites /\ log \in Seq({Wipe})
    /\ emptied => store = Empty /\ ~Listed

Told(s) == {s[i] : i \in DOMAIN s}

\* The documents of the requests of call n in l, and, of these requests, none but the last
\* holds d.
ComingOf(l, n)   == {d \in DocIds : \E i \in DOMAIN l : l[i].entry.by = n /\ d \in Told(l[i].put)}
Ordered(l, n, d) == \A i, j \in DOMAIN l :
    i < j /\ l[i].entry.by = n /\ l[j].entry.by = n => d \notin Told(l[i].put)

\* The documents of a write are each on the way to the service, there to be applied, or
\* have been; in that order, so that the last one comes last.
Coming(c) == ComingOf(log, now[c].by)
Stored(c) == {d \in DocIds : store[d].by = now[c].by}
Unsent(c) == IF now[c].at \in Sending THEN Told(now[c].todo) ELSE {}

OnItsWay(c) ==
    /\ landed[c].seen \cup Coming(c) \cup Unsent(c) \subseteq Told(now[c].docs)
    /\ ~landed[c].dropped => Told(now[c].docs) \subseteq landed[c].seen \cup Coming(c) \cup Unsent(c)
    /\ Stored(c) \subseteq landed[c].seen
    /\ Unsent(c) \cap (Coming(c) \cup Stored(c)) = {}
    /\ now[c].at \in Sending =>
          /\ now[c].todo # <<>> /\ Last(now[c].todo) = Last(now[c].docs)
          /\ \A i, j \in DOMAIN now[c].todo : now[c].todo[i] = now[c].todo[j] => i = j
    /\ Last(now[c].docs) \in Stored(c) => Coming(c) = {}
    /\ Ordered(log, now[c].by, Last(now[c].docs))
    /\ ~landed[c].stale =>
          store[Last(now[c].docs)] = Absent \/ store[Last(now[c].docs)].by = now[c].by

FreshOK(c) ==
    now[c].call = "upsert" =>
        /\ now[c].at # "rest" => OnItsWay(c)
        /\ result[c].is = "done" /\ ~landed[c].stale /\ ~landed[c].dropped =>
              landed[c].seen = Told(now[c].docs)

FreshInv == \A c \in Clients : FreshOK(c)

IInv == TypeOK /\ CallsOK /\ RemoteOK /\ QuietOK /\ FreshInv

-----------------------------------------------------------------------------
(* Sequences of documents and of requests. *)

Distinct(t) == \A i, j \in DOMAIN t : t[i] = t[j] => i = j

\* What one request may take off a corpus: its first documents, at least one.
Parts(t) == {p \in Seq(DocIds) : /\ p # <<>> /\ Len(p) <= Len(t)
                                 /\ \A i \in 1..Len(p) : p[i] = t[i]}
After(t, p) == SubSeq(t, Len(p) + 1, Len(t))

LEMMA LastIsTold ==
    ASSUME NEW S, NEW t \in Seq(S), t # <<>>
    PROVE  Last(t) \in Told(t) /\ Last(t) \in S
  BY DEF Last, Told

LEMMA TakenOff ==
    ASSUME NEW t \in Seq(DocIds), t # <<>>, Distinct(t), NEW p \in Parts(t)
    PROVE  /\ After(t, p) \in Seq(DocIds) /\ Distinct(After(t, p))
           /\ Told(t) = Told(p) \cup Told(After(t, p))
           /\ Told(p) \cap Told(After(t, p)) = {}
           /\ After(t, p) # <<>> => Last(After(t, p)) = Last(t)
           /\ After(t, p) = <<>> => Told(p) = Told(t)
  <1> DEFINE m == Len(p)
             r == After(t, p)
  <1>1. m \in 1..Len(t) /\ Len(t) \in Nat /\ \A i \in 1..m : p[i] = t[i]
    BY DEF Parts
  <1>2. /\ r \in Seq(DocIds) /\ Len(r) = Len(t) - m
        /\ \A i \in 1..(Len(t) - m) : r[i] = t[m + i]
    <2>1. \A i \in (m + 1)..Len(t) : t[i] \in DocIds
      BY <1>1, ElementOfSeq
    <2> QED
      BY <1>1, <2>1, SubSeqProperties DEF After
  <1>3. DOMAIN p = 1..m /\ DOMAIN t = 1..Len(t) /\ DOMAIN r = 1..(Len(t) - m)
    BY <1>1, <1>2 DEF Parts
  <1> HIDE DEF m, r
  <1>4. Distinct(r)
    <2>1. ASSUME NEW i \in 1..(Len(t) - m), NEW j \in 1..(Len(t) - m), r[i] = r[j] PROVE i = j
      <3>1. m + i \in 1..Len(t) /\ m + j \in 1..Len(t) /\ t[m + i] = t[m + j]
        BY <1>1, <1>2, <2>1
      <3>2. m + i = m + j
        BY <1>3, <3>1 DEF Distinct
      <3> QED
        BY <1>1, <3>2
    <2> QED
      BY <1>3, <2>1 DEF Distinct
  <1>5. Told(t) = Told(p) \cup Told(r)
    <2>1. ASSUME NEW i \in 1..Len(t) PROVE t[i] \in Told(p) \cup Told(r)
      <3>1. CASE i \in 1..m
        BY <1>1, <1>3, <3>1 DEF Told
      <3>2. CASE i \notin 1..m
        <4>1. i - m \in 1..(Len(t) - m) /\ r[i - m] = t[i]
          BY <1>1, <1>2, <3>2
        <4> QED
          BY <1>3, <4>1 DEF Told
      <3> QED
        BY <3>1, <3>2
    <2>2. Told(p) \subseteq Told(t)
      BY <1>1, <1>3 DEF Told
    <2>3. Told(r) \subseteq Told(t)
      <3>1. \A i \in 1..(Len(t) - m) : m + i \in 1..Len(t) /\ r[i] = t[m + i]
        BY <1>1, <1>2
      <3> QED
        BY <1>3, <3>1 DEF Told
    <2> QED
      BY <1>3, <2>1, <2>2, <2>3 DEF Told
  <1>6. Told(p) \cap Told(r) = {}
    <2>1. ASSUME NEW i \in 1..m, NEW j \in 1..(Len(t) - m), p[i] = r[j] PROVE FALSE
      <3>1. i \in 1..Len(t) /\ m + j \in 1..Len(t) /\ t[i] = t[m + j]
        BY <1>1, <1>2, <2>1
      <3>2. i = m + j
        BY <1>3, <3>1 DEF Distinct
      <3> QED
        BY <1>1, <3>2
    <2> QED
      BY <1>3, <2>1 DEF Told
  <1>7. r # <<>> => Last(r) = Last(t)
    <2>1. r # <<>> => Len(r) \in 1..(Len(t) - m) /\ m + Len(r) = Len(t)
      BY <1>1, <1>2
    <2> QED
      BY <1>2, <2>1 DEF Last
  <1>8. r = <<>> => Told(r) = {}
    BY DEF Told
  <1> QED
    BY <1>2, <1>4, <1>5, <1>6, <1>7, <1>8 DEF r

\* A request that joins the end of the log.
LEMMA Joined ==
    ASSUME NEW l \in Seq(Request), NEW x \in Request, NEW n, NEW d
    PROVE  /\ Append(l, x) \in Seq(Request)
           /\ x.entry.by # n => ComingOf(Append(l, x), n) = ComingOf(l, n)
           /\ x.entry.by = n => ComingOf(Append(l, x), n) = ComingOf(l, n) \cup Told(x.put)
           /\ Ordered(l, n, d) /\ d \notin ComingOf(l, n) /\ d \in DocIds => Ordered(Append(l, x), n, d)
           /\ Ordered(l, n, d) /\ x.entry.by # n => Ordered(Append(l, x), n, d)
           /\ \A i \in DOMAIN Append(l, x) :
                 Append(l, x)[i] = x \/ \E j \in DOMAIN l : Append(l, x)[i] = l[j]
  <1> DEFINE m == Append(l, x)
  <1>1. /\ m \in Seq(Request) /\ Len(m) = Len(l) + 1 /\ Len(l) \in Nat
        /\ \A i \in 1..Len(l) : m[i] = l[i]
        /\ m[Len(l) + 1] = x
    BY AppendProperties
  <1>2. DOMAIN l = 1..Len(l) /\ DOMAIN m = 1..(Len(l) + 1)
    BY <1>1
  <1> HIDE DEF m
  <1>3. \A i \in DOMAIN m : i = Len(l) + 1 \/ i \in DOMAIN l
    BY <1>1, <1>2
  <1>4. DOMAIN l \subseteq DOMAIN m /\ Len(l) + 1 \in DOMAIN m
    BY <1>1, <1>2
  <1>5. Told(x.put) \subseteq DocIds
    BY ElementOfSeq DEF Told, Request
  <1>6. x.entry.by # n => ComingOf(m, n) = ComingOf(l, n)
    BY <1>1, <1>2, <1>3, <1>4 DEF ComingOf
  <1>7. x.entry.by = n => ComingOf(m, n) = ComingOf(l, n) \cup Told(x.put)
    BY <1>1, <1>2, <1>3, <1>4, <1>5 DEF ComingOf
  <1>8. ASSUME Ordered(l, n, d), (d \notin ComingOf(l, n) /\ d \in DocIds) \/ x.entry.by # n
        PROVE  Ordered(m, n, d)
    <2>1. ASSUME NEW i \in DOMAIN m, NEW j \in DOMAIN m, i < j, m[i].entry.by = n, m[j].entry.by = n
          PROVE  d \notin Told(m[i].put)
      <3>1. i \in DOMAIN l /\ m[i] = l[i]
        BY <1>1, <1>2, <2>1
      <3>2. CASE j \in DOMAIN l
        BY <1>1, <1>2, <1>8, <2>1, <3>1, <3>2 DEF Ordered
      <3>3. CASE j = Len(l) + 1
        BY <1>1, <1>8, <2>1, <3>1, <3>3 DEF ComingOf
      <3> QED
        BY <1>3, <3>2, <3>3
    <2> QED
      BY <2>1 DEF Ordered
  <1>9. \A i \in DOMAIN m : m[i] = x \/ \E j \in DOMAIN l : m[i] = l[j]
    BY <1>1, <1>2, <1>3
  <1> QED
    BY <1>1, <1>6, <1>7, <1>8, <1>9 DEF m

\* A request that leaves the head of the log.
LEMMA TakenIn ==
    ASSUME NEW l \in Seq(Request), l # <<>>, NEW n, NEW d
    PROVE  /\ Head(l) \in Request /\ Tail(l) \in Seq(Request)
           /\ Head(l).entry.by # n => ComingOf(Tail(l), n) = ComingOf(l, n)
           /\ Head(l).entry.by = n => ComingOf(l, n) = ComingOf(Tail(l), n) \cup Told(Head(l).put)
           /\ Ordered(l, n, d) => Ordered(Tail(l), n, d)
           /\ Ordered(l, n, d) /\ Head(l).entry.by = n /\ d \in Told(Head(l).put) =>
                 ComingOf(Tail(l), n) = {}
           /\ \E j \in DOMAIN l : Head(l) = l[j]
           /\ \A i \in DOMAIN Tail(l) : \E j \in DOMAIN l : Tail(l)[i] = l[j]
  <1> DEFINE h == Head(l)
             t == Tail(l)
  <1>1. /\ h \in Request /\ t \in Seq(Request) /\ Len(l) \in Nat \ {0} /\ Len(t) = Len(l) - 1
        /\ h = l[1] /\ \A i \in 1..Len(t) : t[i] = l[i + 1]
    BY HeadTailProperties, EmptySeq
  <1>2. DOMAIN l = 1..Len(l) /\ DOMAIN t = 1..(Len(l) - 1)
    BY <1>1
  <1> HIDE DEF h, t
  <1>3. 1 \in DOMAIN l /\ \A i \in DOMAIN l : i = 1 \/ (i - 1 \in DOMAIN t /\ l[i] = t[i - 1])
    BY <1>1, <1>2
  <1>4. \A i \in DOMAIN t : i + 1 \in DOMAIN l /\ t[i] = l[i + 1] /\ 1 < i + 1
    BY <1>1, <1>2
  <1>5. Told(h.put) \subseteq DocIds
    BY <1>1, ElementOfSeq DEF Told, Request
  <1>6. ComingOf(t, n) \subseteq ComingOf(l, n)
    BY <1>4 DEF ComingOf
  <1>7. h.entry.by = n => Told(h.put) \subseteq ComingOf(l, n)
    BY <1>1, <1>3, <1>5 DEF ComingOf
  <1>8. ASSUME NEW e \in ComingOf(l, n)
        PROVE  e \in ComingOf(t, n) \/ (h.entry.by = n /\ e \in Told(h.put))
    <2>1. PICK i \in DOMAIN l : l[i].entry.by = n /\ e \in Told(l[i].put)
      BY DEF ComingOf
    <2> QED
      BY <1>1, <1>3, <2>1 DEF ComingOf
  <1>9. Ordered(l, n, d) => Ordered(t, n, d)
    <2> SUFFICES ASSUME Ordered(l, n, d), NEW i \in DOMAIN t, NEW j \in DOMAIN t, i < j,
                        t[i].entry.by = n, t[j].entry.by = n
                 PROVE  d \notin Told(t[i].put)
      BY DEF Ordered
    <2>1. i + 1 < j + 1
      BY <1>2
    <2> QED
      BY <1>4, <2>1 DEF Ordered
  <1>10. Ordered(l, n, d) /\ h.entry.by = n /\ d \in Told(h.put) => ComingOf(t, n) = {}
    BY <1>1, <1>3, <1>4 DEF Ordered, ComingOf
  <1> QED
    BY <1>1, <1>3, <1>4, <1>6, <1>7, <1>8, <1>9, <1>10 DEF h, t

-----------------------------------------------------------------------------
(* The steps, whatever the adapter. *)

Container == backend \notin Implicit

LEMMA WhichStep ==
    ASSUME NEW c \in Clients, Step(c)
    PROVE  \/ EnsureLook(c)
           \/ Container /\ (EnsureCreate(c) \/ (now[c].at = "ensure" /\ ChromaEnsure(c)))
           \/ /\ backend \notin Hosted /\ (Container => created)
              /\ \/ Applied(c, Batch(now[c].todo))
                 \/ Applied(c, now[c].todo)
                 \/ Applied(c, <<Head(now[c].todo)>>)
           \/ backend \in Hosted /\ (Container => created) /\ Accepted(c, Batch(now[c].todo))
           \/ PineconeSettle(c) \/ AzureSettle(c)
           \/ ReadLook(c) \/ Query(c) \/ FetchChecked(c) \/ FetchFiltered(c)
           \/ Container /\ DeleteLook(c)
           \/ Container /\ backend \notin Hosted /\ Drop(c)
           \/ backend = "azure" /\ AzureDrop(c)
           \/ PgvectorDelete(c) \/ PineconeDelete(c) \/ PineconeGone(c) \/ AzureGone(c)
           \/ Raise(c)
  <1>1. CASE Upsert(c)
    <2>1. CASE \/ AzureEnsure(c) \/ QdrantEnsure(c) \/ MilvusEnsure(c) \/ WeaviateEnsure(c)
               \/ OpenSearchEnsure(c) \/ ChromaEnsure(c)
      BY <2>1 DEF AzureEnsure, QdrantEnsure, MilvusEnsure, WeaviateEnsure, OpenSearchEnsure,
                  ChromaEnsure, Container, Implicit
    <2>2. CASE \/ PineconeUpsert(c) \/ AzureUpsert(c) \/ QdrantUpsert(c) \/ ChromaUpsert(c)
               \/ MilvusUpsert(c) \/ WeaviateUpsert(c) \/ OpenSearchUpsert(c) \/ PgvectorUpsert(c)
      BY <2>2 DEF PineconeUpsert, AzureUpsert, QdrantUpsert, ChromaUpsert, MilvusUpsert,
                  WeaviateUpsert, OpenSearchUpsert, PgvectorUpsert, Container, Implicit, Hosted
    <2> QED
      BY <1>1, <2>1, <2>2 DEF Upsert
  <1>2. CASE Lookup(c)
    BY <1>2 DEF Lookup, PineconeQuery, AzureQuery, QdrantQuery, ChromaQuery, MilvusQuery,
                WeaviateQuery, OpenSearchQuery, PgvectorQuery, PineconeFetch, AzureFetch,
                QdrantFetch, ChromaFetch, MilvusFetch, WeaviateFetch, OpenSearchFetch,
                PgvectorFetch
  <1>3. CASE Delete(c)
    BY <1>3 DEF Delete, QdrantDelete, ChromaDelete, MilvusDelete, WeaviateDelete,
                OpenSearchDelete, AzureDelete, Container, Implicit, Hosted
  <1> QED
    BY <1>1, <1>2, <1>3 DEF Step

\* A client's step is of its call, which it leaves at another step, or at rest with what it
\* returns.
Going(c, at, todo) ==
    /\ now'[c].at = at /\ now'[c].todo = todo
    /\ result'[c] = result[c]
Rests(c, is) == now'[c].at = "rest" /\ result'[c].is = is
Reached(c) ==
    \/ now[c].at = "settle" /\ backend \in Hosted /\ LastIsVisible(c)
    \/ now[c].call = "delete" /\ Container /\ ~created
    \/ now[c].call = "delete" /\ ~Container /\ store = Empty

Looks(c) ==
    /\ UNCHANGED remote
    /\ \/ now[c].at \in Sending /\ \E at \in Sending : Going(c, at, now[c].todo)
       \/ now[c].at = "settle" /\ Going(c, "settle", now[c].todo)
       \/ now[c].at \in {"look", "drop", "gone"} /\ now[c].call # "upsert"
             /\ \E at \in {"read", "drop", "gone"} :
                   Going(c, at, now[c].todo) /\ (at # "read" => now[c].call = "delete")
       \/ \E is \in {"hits", "error"} : Rests(c, is)
       \/ Rests(c, "done") /\ Reached(c)
Creates(c) ==
    /\ Container /\ created' = TRUE /\ UNCHANGED <<store, log, dropping>>
    /\ now[c].at \in Sending /\ Going(c, "write", now[c].todo)
Applies(c, p) ==
    /\ now[c].at = "write" /\ backend \notin Hosted /\ (Container => created)
    /\ store' = Put(store, p, Entry(c)) /\ UNCHANGED <<created, log, dropping>>
    /\ \/ After(now[c].todo, p) = <<>> /\ Rests(c, "done")
       \/ After(now[c].todo, p) # <<>> /\ Going(c, "write", After(now[c].todo, p))
Accepts(c, p) ==
    /\ now[c].at = "write" /\ backend \in Hosted /\ (Container => created)
    /\ log' = Append(log, [put |-> p, entry |-> Entry(c)])
    /\ UNCHANGED <<store, created, dropping>>
    /\ \/ After(now[c].todo, p) = <<>> /\ Going(c, "settle", now[c].todo)
       \/ After(now[c].todo, p) # <<>> /\ Going(c, "write", After(now[c].todo, p))
Empties(c) ==
    /\ backend \notin Hosted /\ UNCHANGED <<log, dropping>>
    /\ store' = Empty /\ created' = IF Container THEN FALSE ELSE created
    /\ now[c].call = "delete" /\ Rests(c, "done")
Wipes(c) ==
    /\ backend \in Hosted /\ now[c].call = "delete" /\ Going(c, "gone", now[c].todo)
    /\ UNCHANGED <<store, created>>
    /\ \/ Container /\ created /\ dropping' = TRUE /\ UNCHANGED log
       \/ ~Container /\ log' = Append(log, Wipe) /\ UNCHANGED dropping

\* Nothing else of its call changes, and no other client's.
Kept(c) ==
    /\ now' \in [Clients -> Call] /\ result' \in [Clients -> Results]
    /\ \A e \in Clients \ {c} : now'[e] = now[e] /\ result'[e] = result[e]
    /\ now'[c].call = now[c].call /\ now'[c].docs = now[c].docs
    /\ now'[c].by = now[c].by /\ now'[c].user = now[c].user

Moves(c) ==
    /\ now[c].at # "rest" /\ UNCHANGED <<given, calls>>
    /\ Kept(c)
    /\ \/ Looks(c) \/ Creates(c) \/ Empties(c) \/ Wipes(c)
       \/ \E p \in Parts(now[c].todo) : Applies(c, p) \/ Accepts(c, p)

LEMMA ComesToRest ==
    ASSUME TypeOK, NEW c \in Clients, NEW is \in {"done", "error", "hits"},
           NEW hits \in SUBSET DocIds,
           now' = [now EXCEPT ![c].at = "rest"],
           result' = [result EXCEPT ![c] = Outcome(is, hits)]
    PROVE  /\ Kept(c)
           /\ Rests(c, is) /\ result'[c] = Outcome(is, hits)
  <1>1. now[c] \in Call
    BY DEF TypeOK
  <1>2. [now[c] EXCEPT !.at = "rest"] \in Call
    BY <1>1 DEF Call
  <1>3. Outcome(is, hits) \in Results /\ Outcome(is, hits).is = is
    BY DEF Outcome, Results
  <1> QED
    BY <1>1, <1>2, <1>3 DEF TypeOK, Rests, Call, Kept

LEMMA GoesOn ==
    ASSUME TypeOK, NEW c \in Clients, result' = result
    PROVE  /\ \A at \in {"ensure", "create", "write", "settle", "look", "read", "drop", "gone"} :
                 Goto(c, at) => Kept(c) /\ Going(c, at, now[c].todo)
           /\ \A todo \in Seq(DocIds) :
                 now' = [now EXCEPT ![c].todo = todo] => Kept(c) /\ Going(c, now[c].at, todo)
           /\ now' = [now EXCEPT ![c].tries = @ + 1] =>
                 Kept(c) /\ Going(c, now[c].at, now[c].todo)
  <1>1. now[c] \in Call /\ now[c].tries + 1 \in Nat
    BY DEF TypeOK, Call
  <1>2. ASSUME NEW n \in Call, now' = [now EXCEPT ![c] = n],
               n.call = now[c].call, n.docs = now[c].docs, n.by = now[c].by, n.user = now[c].user
        PROVE  Kept(c) /\ Going(c, n.at, n.todo)
    BY <1>2 DEF TypeOK, Kept, Going
  <1>3. ASSUME NEW at \in {"ensure", "create", "write", "settle", "look", "read", "drop", "gone"},
               Goto(c, at)
        PROVE  Kept(c) /\ Going(c, at, now[c].todo)
    <2> DEFINE n == [now[c] EXCEPT !.at = at]
    <2>1. /\ n \in Call /\ n.at = at /\ n.todo = now[c].todo
          /\ n.call = now[c].call /\ n.docs = now[c].docs /\ n.by = now[c].by
          /\ n.user = now[c].user
      BY <1>1 DEF Call
    <2>2. now' = [now EXCEPT ![c] = n]
      BY <1>3 DEF Goto
    <2> HIDE DEF n
    <2>3. Kept(c) /\ Going(c, n.at, n.todo)
      BY <1>2, <2>1, <2>2
    <2> QED
      BY <2>1, <2>3
  <1>4. ASSUME NEW todo \in Seq(DocIds), now' = [now EXCEPT ![c].todo = todo]
        PROVE  Kept(c) /\ Going(c, now[c].at, todo)
    <2> DEFINE n == [now[c] EXCEPT !.todo = todo]
    <2>1. /\ n \in Call /\ n.at = now[c].at /\ n.todo = todo
          /\ n.call = now[c].call /\ n.docs = now[c].docs /\ n.by = now[c].by
          /\ n.user = now[c].user
      BY <1>1 DEF Call
    <2>2. now' = [now EXCEPT ![c] = n]
      BY <1>4
    <2> HIDE DEF n
    <2>3. Kept(c) /\ Going(c, n.at, n.todo)
      BY <1>2, <2>1, <2>2
    <2> QED
      BY <2>1, <2>3
  <1>5. ASSUME now' = [now EXCEPT ![c].tries = @ + 1]
        PROVE  Kept(c) /\ Going(c, now[c].at, now[c].todo)
    <2> DEFINE n == [now[c] EXCEPT !.tries = now[c].tries + 1]
    <2>1. /\ n \in Call /\ n.at = now[c].at /\ n.todo = now[c].todo
          /\ n.call = now[c].call /\ n.docs = now[c].docs /\ n.by = now[c].by
          /\ n.user = now[c].user
      BY <1>1 DEF Call
    <2>2. now' = [now EXCEPT ![c] = n]
      BY <1>5
    <2> HIDE DEF n
    <2>3. Kept(c) /\ Going(c, n.at, n.todo)
      BY <1>2, <2>1, <2>2
    <2> QED
      BY <2>1, <2>3
  <1> QED
    BY <1>3, <1>4, <1>5

LEMMA SettleMoves ==
    ASSUME TypeOK, NEW c \in Clients, NEW ready, Settle(c, ready),
           now[c].at \in {"settle", "gone"}
    PROVE  /\ Kept(c)
           /\ \/ Going(c, now[c].at, now[c].todo)
              \/ ready /\ Rests(c, "done")
              \/ Rests(c, "error")
  <1>1. CASE ready
    BY <1>1, ComesToRest DEF Settle, Answer
  <1>2. CASE ~ready /\ now[c].tries + 1 = SETTLE_TRIES
    BY <1>2, ComesToRest DEF Settle, Answer
  <1>3. CASE ~ready /\ now[c].tries + 1 # SETTLE_TRIES
    BY <1>3, GoesOn DEF Settle
  <1> QED
    BY <1>1, <1>2, <1>3

LEMMA BatchIsPart ==
    ASSUME NEW t \in Seq(DocIds), t # <<>>
    PROVE  t \in Parts(t) /\ Batch(t) \in Parts(t) /\ <<Head(t)>> \in Parts(t)
  <1>1. Len(t) \in Nat /\ Len(t) >= 1 /\ DOMAIN t = 1..Len(t) /\ \A i \in 1..Len(t) : t[i] \in DocIds
    BY EmptySeq, ElementOfSeq
  <1>2. t \in Parts(t)
    BY <1>1 DEF Parts
  <1>3. Batch(t) \in Parts(t)
    <2> DEFINE m == IF Len(t) < BATCH THEN Len(t) ELSE BATCH
    <2>1. m \in 1..Len(t)
      BY <1>1, BoundsAssumed
    <2>2. /\ SubSeq(t, 1, m) \in Seq(DocIds) /\ Len(SubSeq(t, 1, m)) = m
          /\ \A i \in 1..m : SubSeq(t, 1, m)[i] = t[i]
      <3>1. \A i \in 1..m : t[i] \in DocIds
        BY <1>1, <2>1
      <3>2. m \in Nat /\ m - 1 + 1 = m /\ \A i \in 1..m : 1 + i - 1 = i
        BY <2>1
      <3> HIDE DEF m
      <3> QED
        BY <1>1, <2>1, <3>1, <3>2, SubSeqProperties
    <2>3. Batch(t) = SubSeq(t, 1, m)
      BY DEF Batch
    <2> HIDE DEF m
    <2>4. /\ Batch(t) \in Seq(DocIds) /\ Len(Batch(t)) = m
          /\ \A i \in 1..m : Batch(t)[i] = t[i]
      BY <2>2, <2>3
    <2>5. Batch(t) # <<>> /\ Len(Batch(t)) <= Len(t)
      BY <1>1, <2>1, <2>4, EmptySeq
    <2> QED
      BY <2>4, <2>5 DEF Parts
  <1>4. <<Head(t)>> \in Parts(t)
    <2>1. Head(t) = t[1] /\ t[1] \in DocIds
      BY <1>1, HeadTailProperties
    <2>2. \A d \in DocIds : <<d>> \in Seq(DocIds) /\ <<d>> # <<>> /\ Len(<<d>>) = 1 /\ <<d>>[1] = d
      OBVIOUS
    <2> QED
      BY <1>1, <2>1, <2>2 DEF Parts
  <1> QED
    BY <1>2, <1>3, <1>4

LEMMA StepMoves ==
    ASSUME TypeOK, CallsOK, FreshInv, NEW c \in Clients, Step(c)
    PROVE  Moves(c)
  <1> USE DEF Moves
  <1>1. now[c] \in Call /\ now[c].todo \in Seq(DocIds) /\ CallOK(c)
    BY DEF TypeOK, CallsOK, Call
  <1>2. now[c].at = "write" => now[c].todo # <<>>
    BY <1>1 DEF FreshInv, FreshOK, OnItsWay, CallOK, Sending
  <1>3. CASE EnsureLook(c)
    <2>1. Kept(c) /\ \E at \in Sending : Going(c, at, now[c].todo)
      BY <1>3, GoesOn DEF EnsureLook, Sending
    <2> QED
      BY <1>3, <2>1 DEF EnsureLook, Looks, Sending
  <1>4. CASE Container /\ (EnsureCreate(c) \/ (now[c].at = "ensure" /\ ChromaEnsure(c)))
    <2>1. Kept(c) /\ Going(c, "write", now[c].todo)
      BY <1>4, GoesOn DEF EnsureCreate, ChromaEnsure
    <2> QED
      BY <1>4, <2>1 DEF EnsureCreate, ChromaEnsure, Creates, Sending
  <1>5. ASSUME NEW p, backend \notin Hosted, Container => created, Applied(c, p),
               now[c].at = "write" => p \in Parts(now[c].todo)
        PROVE  Moves(c)
    <2>1. p \in Parts(now[c].todo) /\ now[c].at = "write" /\ Rest(c, p) = After(now[c].todo, p)
      BY <1>5 DEF Applied, Rest, After
    <2>2. After(now[c].todo, p) \in Seq(DocIds)
      <3>1. \A i \in 1..Len(now[c].todo) : now[c].todo[i] \in DocIds
        BY <1>1, ElementOfSeq
      <3> QED
        BY <1>1, <2>1, <3>1, SubSeqProperties DEF After, Parts
    <2>3. CASE After(now[c].todo, p) = <<>>
      BY <1>5, <2>1, <2>3, ComesToRest DEF Applied, Answer, Applies
    <2>4. CASE After(now[c].todo, p) # <<>>
      <3>1. now' = [now EXCEPT ![c].todo = After(now[c].todo, p)] /\ result' = result
        BY <1>5, <2>1, <2>4 DEF Applied
      <3>2. Kept(c) /\ Going(c, "write", After(now[c].todo, p))
        BY <2>1, <2>2, <3>1, GoesOn
      <3> QED
        BY <1>5, <2>1, <2>4, <3>2 DEF Applied, Applies
    <2> QED
      BY <2>3, <2>4
  <1>6. ASSUME NEW p, backend \in Hosted, Container => created, Accepted(c, p),
               now[c].at = "write" => p \in Parts(now[c].todo)
        PROVE  Moves(c)
    <2>1. p \in Parts(now[c].todo) /\ now[c].at = "write" /\ Rest(c, p) = After(now[c].todo, p)
      BY <1>6 DEF Accepted, Rest, After
    <2>2. After(now[c].todo, p) \in Seq(DocIds)
      <3>1. \A i \in 1..Len(now[c].todo) : now[c].todo[i] \in DocIds
        BY <1>1, ElementOfSeq
      <3> QED
        BY <1>1, <2>1, <3>1, SubSeqProperties DEF After, Parts
    <2>3. CASE After(now[c].todo, p) = <<>>
      <3>1. Goto(c, "settle") /\ result' = result
        BY <1>6, <2>1, <2>3 DEF Accepted, Goto
      <3>2. Kept(c) /\ Going(c, "settle", now[c].todo)
        BY <3>1, GoesOn
      <3> QED
        BY <1>6, <2>1, <2>3, <3>2 DEF Accepted, Accepts
    <2>4. CASE After(now[c].todo, p) # <<>>
      <3>1. now' = [now EXCEPT ![c].todo = After(now[c].todo, p)] /\ result' = result
        BY <1>6, <2>1, <2>4 DEF Accepted
      <3>2. Kept(c) /\ Going(c, "write", After(now[c].todo, p))
        BY <2>1, <2>2, <3>1, GoesOn
      <3> QED
        BY <1>6, <2>1, <2>4, <3>2 DEF Accepted, Accepts
    <2> QED
      BY <2>3, <2>4
  <1>7. CASE PineconeSettle(c) \/ AzureSettle(c)
    <2>1. /\ now[c].at = "settle" /\ backend \in Hosted /\ Settle(c, LastIsVisible(c))
          /\ UNCHANGED <<given, remote, calls>>
      BY <1>7 DEF PineconeSettle, AzureSettle, Hosted
    <2> QED
      BY <2>1, SettleMoves DEF Looks, Reached
  <1>8. CASE ReadLook(c)
    <2>1. CASE created
      <3>1. Kept(c) /\ Going(c, "read", now[c].todo)
        BY <1>8, <2>1, GoesOn DEF ReadLook
      <3> QED
        BY <1>1, <1>8, <3>1 DEF ReadLook, Looks, CallOK
    <2>2. CASE ~created
      <3>1. Kept(c) /\ Rests(c, "hits")
        BY <1>8, <2>2, ComesToRest DEF ReadLook, Found
      <3> QED
        BY <1>8, <3>1 DEF ReadLook, Looks
    <2> QED
      BY <2>1, <2>2
  <1>9. CASE Query(c) \/ FetchChecked(c) \/ FetchFiltered(c)
    <2>1. \E hits \in SUBSET DocIds : Found(c, hits)
      <3>1. CASE Query(c)
        BY <3>1 DEF Query, QueryHits
      <3>2. CASE FetchChecked(c)
        <4>1. now[c].docs[1] \in DocIds
          BY <1>1, <3>2, DocsAssumed DEF FetchChecked, CallOK, DocIds
        <4> QED
          BY <3>2, <4>1 DEF FetchChecked
      <3>3. CASE FetchFiltered(c)
        BY <3>3 DEF FetchFiltered
      <3> QED
        BY <1>9, <3>1, <3>2, <3>3
    <2>2. Kept(c) /\ Rests(c, "hits")
      BY <2>1, ComesToRest DEF Found
    <2> QED
      BY <1>9, <2>2 DEF Query, FetchChecked, FetchFiltered, Looks
  <1>10. CASE Container /\ DeleteLook(c)
    <2>1. CASE created
      <3>1. Kept(c) /\ Going(c, "drop", now[c].todo)
        BY <1>10, <2>1, GoesOn DEF DeleteLook
      <3> QED
        BY <1>10, <3>1 DEF DeleteLook, Looks
    <2>2. CASE ~created
      <3>1. Kept(c) /\ Rests(c, "done")
        BY <1>10, <2>2, ComesToRest DEF DeleteLook, Answer
      <3> QED
        BY <1>10, <2>2, <3>1 DEF DeleteLook, Looks, Reached
    <2> QED
      BY <2>1, <2>2
  <1>11. CASE \/ Container /\ backend \notin Hosted /\ Drop(c)
              \/ PgvectorDelete(c)
    <2>1. Kept(c) /\ Rests(c, "done")
      BY <1>11, ComesToRest DEF Drop, PgvectorDelete, Answer
    <2> QED
      BY <1>1, <1>11, <2>1
         DEF Drop, PgvectorDelete, Empties, CallOK, Hosted, Container, Implicit
  <1>12. CASE backend = "azure" /\ AzureDrop(c)
    <2>1. Kept(c) /\ Going(c, "gone", now[c].todo)
      BY <1>12, GoesOn DEF AzureDrop
    <2> QED
      BY <1>1, <1>12, <2>1 DEF AzureDrop, Wipes, CallOK, Hosted, Container, Implicit
  <1>13. CASE PineconeDelete(c)
    <2>1. Kept(c) /\ Going(c, "gone", now[c].todo)
      BY <1>13, GoesOn DEF PineconeDelete
    <2> QED
      BY <1>13, <2>1 DEF PineconeDelete, Wipes, Wipe, Hosted, Container, Implicit
  <1>14. CASE PineconeGone(c)
    <2>1. /\ Kept(c)
          /\ \/ Going(c, "gone", now[c].todo)
             \/ store = Empty /\ Rests(c, "done")
             \/ Rests(c, "error")
      BY <1>14, SettleMoves DEF PineconeGone
    <2> QED
      BY <1>1, <1>14, <2>1 DEF PineconeGone, Looks, Reached, CallOK, Container, Implicit
  <1>15. CASE AzureGone(c)
    <2>1. /\ Kept(c)
          /\ \/ Going(c, "gone", now[c].todo)
             \/ ~created /\ Rests(c, "done")
             \/ Rests(c, "error")
      BY <1>15, SettleMoves DEF AzureGone
    <2> QED
      BY <1>1, <1>15, <2>1 DEF AzureGone, Looks, Reached, CallOK, Container, Implicit
  <1>16. CASE Raise(c)
    <2>1. /\ now' = [now EXCEPT ![c].at = "rest"]
          /\ result' = [result EXCEPT ![c] = Outcome("error", {})]
      BY <1>16 DEF Raise, Answer
    <2>2. "error" \in {"done", "error", "hits"} /\ {} \in SUBSET DocIds
      OBVIOUS
    <2>3. Kept(c) /\ Rests(c, "error")
      BY <2>1, <2>2, ComesToRest, Zenon
    <2> QED
      BY <1>16, <2>3 DEF Raise, Looks
  <1>17. now[c].at = "write" => /\ now[c].todo \in Parts(now[c].todo)
                               /\ Batch(now[c].todo) \in Parts(now[c].todo)
                               /\ <<Head(now[c].todo)>> \in Parts(now[c].todo)
    BY <1>1, <1>2, BatchIsPart
  <1> QED
    BY <1>3, <1>4, <1>5, <1>6, <1>7, <1>8, <1>9, <1>10, <1>11, <1>12, <1>13, <1>14, <1>15, <1>16,
       <1>17, WhichStep

-----------------------------------------------------------------------------
(* Types. *)

LEMMA Versions ==
    ASSUME TypeOK, NEW c \in Clients
    PROVE  /\ Absent \in Version /\ Seeded \in Version /\ Entry(c) \in Version
           /\ Empty \in [DocIds -> Version] /\ Wipe \in Request
           /\ Entry(c).by = now[c].by /\ Absent.by = MaxCalls + 1
           /\ \A p \in Seq(DocIds) : \A e \in Version :
                 Put(store, p, e) \in [DocIds -> Version] /\ [put |-> p, entry |-> e] \in Request
  <1>1. Absent \in Version /\ Seeded \in Version /\ Absent.by = MaxCalls + 1
    BY BoundsAssumed DEF Absent, Seeded, Version, Owners
  <1>2. now[c] \in Call
    BY DEF TypeOK
  <1>3. Entry(c) \in Version /\ Entry(c).by = now[c].by
    BY <1>2, BoundsAssumed DEF Entry, Version, Call
  <1>4. Docs \in Seq(DocIds)
    BY DocsAssumed DEF DocIds
  <1>5. store \in [DocIds -> Version]
    BY DEF TypeOK
  <1>6. \A p \in Seq(DocIds) : \A e \in Version : Put(store, p, e) \in [DocIds -> Version]
    BY <1>5 DEF Put
  <1> QED
    BY <1>1, <1>3, <1>4, <1>6 DEF Empty, Wipe, Request

LEMMA WatchType ==
    ASSUME TypeOK, Watch, store' \in [DocIds -> Version], now' \in [Clients -> Call],
           dropping' \in BOOLEAN
    PROVE  /\ landed' \in [Clients -> [seen : SUBSET DocIds, stale : BOOLEAN, dropped : BOOLEAN]]
           /\ quiet' \in [Clients -> BOOLEAN] /\ emptied' \in BOOLEAN
  <1> DEFINE T == [seen : SUBSET DocIds, stale : BOOLEAN, dropped : BOOLEAN]
             mine(c) == {d \in DocIds : store'[d].by = now'[c].by /\ store'[d] # Absent}
             last(c) == Last(now'[c].docs)
             other(c) == store'[last(c)] # Absent /\ store'[last(c)].by # now'[c].by
             writes == \E c \in Clients : now'[c].call = "upsert" /\ now'[c].at # "rest"
  <1>1. Unlanded \in T
    BY DEF Unlanded
  <1>2. \A c \in Clients : [Unlanded EXCEPT !.stale = other(c)] \in T
    BY DEF Unlanded
  <1>3. \A c \in Clients : landed[c] \in T
    BY DEF TypeOK
  <1>4. \A c \in Clients : [seen    |-> landed[c].seen \cup mine(c),
                            stale   |-> landed[c].stale \/ other(c),
                            dropped |-> landed[c].dropped \/ (dropping /\ ~dropping')] \in T
    BY <1>3 DEF TypeOK
  <1>5. landed' \in [Clients -> T]
    BY <1>1, <1>2, <1>3, <1>4 DEF Watch
  <1>6. quiet' \in [Clients -> BOOLEAN]
    BY DEF Watch, TypeOK
  <1>7. emptied' \in BOOLEAN
    BY DEF Watch
  <1> QED
    BY <1>5, <1>6, <1>7

LEMMA MovesType ==
    ASSUME TypeOK, NEW c \in Clients, Moves(c), Watch
    PROVE  TypeOK'
  <1> USE Versions
  <1>1. /\ UNCHANGED <<backend, user_scoped, calls>>
        /\ now' \in [Clients -> Call] /\ result' \in [Clients -> Results]
    BY DEF Moves, Kept, given
  <1>2. \A x \in Request : Append(log, x) \in Seq(Request)
    BY Joined DEF TypeOK
  <1>3. /\ store' \in [DocIds -> Version] /\ created' \in BOOLEAN
        /\ log' \in Seq(Request) /\ dropping' \in BOOLEAN
    <2>1. CASE Looks(c)
      BY <2>1 DEF Looks, remote, TypeOK
    <2>2. CASE Creates(c)
      BY <2>2 DEF Creates, TypeOK
    <2>3. CASE Empties(c)
      BY <2>3 DEF Empties, TypeOK
    <2>4. CASE Wipes(c)
      BY <2>4, <1>2 DEF Wipes, TypeOK
    <2>5. ASSUME NEW p \in Parts(now[c].todo), Applies(c, p) \/ Accepts(c, p)
          PROVE  /\ store' \in [DocIds -> Version] /\ created' \in BOOLEAN
                 /\ log' \in Seq(Request) /\ dropping' \in BOOLEAN
      <3>1. p \in Seq(DocIds) /\ Entry(c) \in Version
        BY DEF Parts
      <3>2. Put(store, p, Entry(c)) \in [DocIds -> Version]
            /\ Append(log, [put |-> p, entry |-> Entry(c)]) \in Seq(Request)
        BY <1>2, <3>1
      <3> QED
        BY <2>5, <3>2 DEF Applies, Accepts, TypeOK
    <2> QED
      BY <2>1, <2>2, <2>3, <2>4, <2>5 DEF Moves
  <1> QED
    BY <1>1, <1>3, WatchType DEF TypeOK

LEMMA BeginType ==
    ASSUME TypeOK, NEW c \in Clients, NEW docs \in {Docs, <<Docs[1]>>}, NEW user \in Owners,
           NEW call \in {"upsert", "query", "fetch", "delete"}, Begin(c, call, docs, user)
    PROVE  /\ now[c].at = "rest" /\ calls' = calls + 1 /\ calls < MaxCalls
           /\ UNCHANGED <<backend, user_scoped, store, created, log, dropping>>
           /\ now' \in [Clients -> Call] /\ result' \in [Clients -> Results]
           /\ \A e \in Clients \ {c} : now'[e] = now[e] /\ result'[e] = result[e]
           /\ now'[c].call = call /\ now'[c].docs = docs /\ now'[c].todo = docs
           /\ now'[c].by = calls + 1 /\ now'[c].user = user
           /\ now'[c].at = FirstStep(call) /\ result'[c].is = "none"
           /\ FirstStep(call) \in IF call = "upsert" THEN {"write", "ensure"} ELSE {"read", "look"}
  <1> DEFINE n == [Resting EXCEPT !.call = call, !.at = FirstStep(call), !.docs = docs,
                                  !.todo = docs, !.by = calls', !.user = user]
  <1>1. FirstStep(call) \in IF call = "upsert" THEN {"write", "ensure"} ELSE {"read", "look"}
    BY DEF FirstStep
  <1>2. docs \in Seq(DocIds)
    <2>1. Docs \in Seq(DocIds) /\ Docs # <<>>
      BY DocsAssumed DEF DocIds
    <2>2. Docs[1] \in DocIds
      BY <2>1
    <2>3. <<Docs[1]>> \in Seq(DocIds)
      BY <2>2
    <2> QED
      BY <2>1, <2>3
  <1>3. calls' = calls + 1 /\ calls + 1 \in 0..MaxCalls /\ calls < MaxCalls
    BY BoundsAssumed DEF Begin, TypeOK
  <1>4. Resting \in Call
    BY BoundsAssumed DEF Resting, Call, NoUser, Owners
  <1>5. n \in Call
    BY <1>1, <1>2, <1>3, <1>4 DEF Call
  <1>6. Outcome("none", {}) \in Results /\ Outcome("none", {}).is = "none"
    BY DEF Outcome, Results
  <1>7. /\ now[c].at = "rest" /\ UNCHANGED <<backend, user_scoped, store, created, log, dropping>>
        /\ now' = [now EXCEPT ![c] = n] /\ result' = [result EXCEPT ![c] = Outcome("none", {})]
    BY DEF Begin, given, remote
  <1>8. /\ n.call = call /\ n.at = FirstStep(call) /\ n.docs = docs /\ n.todo = docs
        /\ n.by = calls + 1 /\ n.user = user
    BY <1>3, <1>4 DEF Call
  <1> HIDE DEF n
  <1>9. /\ now' \in [Clients -> Call] /\ result' \in [Clients -> Results]
        /\ \A e \in Clients \ {c} : now'[e] = now[e] /\ result'[e] = result[e]
        /\ now'[c] = n /\ result'[c].is = "none"
    BY <1>5, <1>6, <1>7 DEF TypeOK
  <1> QED
    BY <1>1, <1>3, <1>7, <1>8, <1>9

LEMMA NextType ==
    ASSUME TypeOK, CallsOK, FreshInv, [Next]_vars
    PROVE  TypeOK'
  <1>1. ASSUME NEW c \in Clients, Step(c), Watch PROVE TypeOK'
    BY <1>1, StepMoves, MovesType
  <1>2. ASSUME NEW c \in Clients, NEW docs \in {Docs, <<Docs[1]>>}, NEW user \in Owners,
               NEW call \in {"upsert", "query", "fetch", "delete"}, Begin(c, call, docs, user),
               Watch
        PROVE  TypeOK'
    <2>1. /\ calls' \in 0..MaxCalls
          /\ UNCHANGED <<backend, user_scoped, store, created, log, dropping>>
          /\ now' \in [Clients -> Call] /\ result' \in [Clients -> Results]
      <3>1. calls' = calls + 1 /\ calls < MaxCalls
        BY <1>2, BeginType
      <3>2. calls' \in 0..MaxCalls
        BY <3>1, BoundsAssumed DEF TypeOK
      <3> QED
        BY <1>2, <3>2, BeginType
    <2> QED
      BY <1>2, <2>1, WatchType DEF TypeOK
  <1>3. CASE Apply /\ Watch
    <2>1. Head(log).put \in Seq(DocIds) /\ Head(log).entry \in Version /\ Tail(log) \in Seq(Request)
      BY <1>3, TakenIn DEF Apply, TypeOK, Request
    <2>2. store' \in [DocIds -> Version]
      BY <1>3, <2>1 DEF Apply, Put, TypeOK
    <2> QED
      BY <1>3, <2>1, <2>2, WatchType DEF Apply, given, TypeOK
  <1>4. CASE ApplyDrop /\ Watch
    <2>1. Absent \in Version
      BY BoundsAssumed DEF Absent, Version, Owners
    <2>2. store' \in [DocIds -> Version] /\ <<>> \in Seq(Request)
      BY <1>4, <2>1 DEF ApplyDrop, Empty
    <2> QED
      BY <1>4, <2>2, WatchType DEF ApplyDrop, given, TypeOK
  <1>5. CASE UNCHANGED vars
    BY <1>5 DEF vars, TypeOK
  <1> QED
    BY <1>1, <1>2, <1>3, <1>4, <1>5 DEF Next

-----------------------------------------------------------------------------
(* Calls, and what is remote. *)

\* Where a step leaves its call.
LEMMA WhereTo ==
    ASSUME TypeOK, CallsOK, NEW c \in Clients, Moves(c)
    PROVE  /\ now'[c].at # "rest" => result'[c] = result[c]
           /\ now'[c].at \in Sending => now[c].at \in Sending
           /\ now'[c].at = "settle" => now[c].at \in {"write", "settle"}
           /\ now'[c].at \in {"look", "read"} => now[c].call # "upsert"
           /\ now'[c].at \in {"drop", "gone"} => now[c].call = "delete"
  <1>1. CASE Looks(c)
    BY <1>1 DEF Looks, Going, Rests, Sending
  <1>2. CASE Creates(c) \/ Empties(c) \/ Wipes(c)
    BY <1>2 DEF Creates, Empties, Wipes, Going, Rests, Sending
  <1>3. ASSUME NEW p \in Parts(now[c].todo), Applies(c, p) \/ Accepts(c, p)
        PROVE  /\ now[c].at = "write" /\ now'[c].at \in {"write", "settle", "rest"}
               /\ now'[c].at # "rest" => result'[c] = result[c]
    BY <1>3 DEF Applies, Accepts, Going, Rests
  <1> QED
    BY <1>1, <1>2, <1>3 DEF Moves, Sending

LEMMA NextCalls ==
    ASSUME TypeOK, CallsOK, FreshInv, [Next]_vars
    PROVE  CallsOK'
  <1>1. ASSUME NEW c \in Clients, Moves(c) PROVE CallsOK'
    <2>1. /\ UNCHANGED calls
          /\ \A e \in Clients \ {c} : now'[e] = now[e] /\ result'[e] = result[e]
          /\ now'[c].call = now[c].call /\ now'[c].docs = now[c].docs
          /\ now'[c].by = now[c].by /\ now[c].at # "rest"
      BY <1>1 DEF Moves, Kept
    <2>2. CallOK(c)'
      BY <1>1, <2>1, WhereTo DEF CallsOK, CallOK, Sending
    <2>3. \A e \in Clients \ {c} : CallOK(e)'
      BY <2>1 DEF CallsOK, CallOK
    <2>4. \A e \in Clients : now'[e].by = now[e].by
      BY <2>1
    <2> QED
      BY <2>2, <2>3, <2>4 DEF CallsOK
  <1>2. ASSUME NEW c \in Clients, NEW docs \in {Docs, <<Docs[1]>>}, NEW user \in Owners,
               NEW call \in {"upsert", "query", "fetch", "delete"}, Begin(c, call, docs, user)
        PROVE  CallsOK'
    <2>1. calls \in Nat /\ \A e \in Clients : now[e].by \in Nat /\ now[e].by <= calls
      BY BoundsAssumed DEF TypeOK, Call, CallsOK, CallOK
    <2>2. /\ calls' = calls + 1
          /\ \A e \in Clients \ {c} : now'[e] = now[e] /\ result'[e] = result[e]
          /\ now'[c].by = calls + 1 /\ now'[c].docs = docs /\ now'[c].call = call
          /\ now'[c].at = FirstStep(call) /\ result'[c].is = "none"
          /\ FirstStep(call) \in IF call = "upsert" THEN {"write", "ensure"} ELSE {"read", "look"}
      BY <1>2, BeginType
    <2>3. CallOK(c)'
      BY <2>1, <2>2 DEF CallOK, Sending
    <2>4. \A e \in Clients \ {c} : CallOK(e)'
      BY <2>1, <2>2 DEF CallsOK, CallOK
    <2>5. \A e \in Clients \ {c} : now'[e].by # now'[c].by
      BY <2>1, <2>2
    <2> QED
      BY <2>2, <2>3, <2>4, <2>5 DEF CallsOK
  <1>3. CASE Apply \/ ApplyDrop \/ UNCHANGED vars
    <2>1. UNCHANGED <<now, result, calls>>
      BY <1>3 DEF Apply, ApplyDrop, vars
    <2> QED
      BY <2>1 DEF CallsOK, CallOK
  <1> QED
    BY <1>1, <1>2, <1>3, StepMoves DEF Next

LEMMA NextRemote ==
    ASSUME TypeOK, CallsOK, RemoteOK, FreshInv, [Next]_vars
    PROVE  RemoteOK'
  <1>0. calls \in Nat /\ calls <= MaxCalls /\ MaxCalls \in Nat
    BY BoundsAssumed DEF TypeOK
  <1>1. ASSUME NEW c \in Clients, Moves(c) PROVE RemoteOK'
    <2>1. UNCHANGED <<backend, calls>> /\ Known' = Known /\ Container' = Container
      BY <1>1 DEF Moves, given, Known, Container
    <2>2. Entry(c).by \in Known /\ Absent.by \in Known
      <3>1. now[c].by \in Nat /\ now[c].by <= calls
        BY <1>0 DEF TypeOK, CallsOK, CallOK, Call
      <3> QED
        BY <1>0, <3>1, Versions DEF Known
    <2>3. CASE Looks(c)
      BY <2>1, <2>3 DEF Looks, remote, RemoteOK
    <2>4. CASE Creates(c)
      BY <2>1, <2>4 DEF Creates, RemoteOK, Container
    <2>5. CASE Empties(c)
      <3>1. \A d \in DocIds : store'[d].by \in Known
        BY <2>2, <2>5 DEF Empties, Empty
      <3>2. ~dropping
        BY <2>5 DEF Empties, RemoteOK, Hosted
      <3> QED
        BY <2>1, <2>5, <3>1, <3>2 DEF Empties, RemoteOK, Container
    <2>6. CASE Wipes(c)
      <3>1. \A i \in DOMAIN log' : log'[i].entry.by \in Known
        <4>1. CASE UNCHANGED log
          BY <4>1 DEF RemoteOK
        <4>2. CASE log' = Append(log, Wipe)
          <5>1. \A i \in DOMAIN log' : log'[i] = Wipe \/ \E j \in DOMAIN log : log'[i] = log[j]
            BY <4>2, Joined, Versions DEF TypeOK
          <5> QED
            BY <2>2, <5>1 DEF Wipe, RemoteOK
        <4> QED
          BY <2>6, <4>1, <4>2 DEF Wipes
      <3>2. Container => backend = "azure"
        BY <2>6 DEF Wipes, Container, Hosted, Implicit
      <3> QED
        BY <2>1, <2>6, <3>1, <3>2 DEF Wipes, RemoteOK, Container
    <2>7. ASSUME NEW p \in Parts(now[c].todo), Applies(c, p) PROVE RemoteOK'
      <3>1. \A d \in DocIds : store'[d].by \in Known
        BY <2>2, <2>7 DEF Applies, Put, RemoteOK
      <3> QED
        BY <2>1, <2>7, <3>1 DEF Applies, RemoteOK, Container
    <2>8. ASSUME NEW p \in Parts(now[c].todo), Accepts(c, p) PROVE RemoteOK'
      <3>1. \A i \in DOMAIN log' : log'[i].entry.by \in Known
        <4> DEFINE x == [put |-> p, entry |-> Entry(c)]
        <4>1. x \in Request /\ x.entry = Entry(c)
          BY Versions DEF Parts
        <4>2. log' = Append(log, x)
          BY <2>8 DEF Accepts
        <4> HIDE DEF x
        <4>3. \A i \in DOMAIN log' : log'[i] = x \/ \E j \in DOMAIN log : log'[i] = log[j]
          BY <4>1, <4>2, Joined DEF TypeOK
        <4> QED
          BY <2>2, <4>1, <4>3 DEF RemoteOK
      <3> QED
        BY <2>1, <2>8, <3>1 DEF Accepts, RemoteOK, Container
    <2> QED
      BY <1>1, <2>3, <2>4, <2>5, <2>6, <2>7, <2>8 DEF Moves
  <1>2. ASSUME NEW c \in Clients, NEW docs \in {Docs, <<Docs[1]>>}, NEW user \in Owners,
               NEW call \in {"upsert", "query", "fetch", "delete"}, Begin(c, call, docs, user)
        PROVE  RemoteOK'
    <2>1. calls' = calls + 1 /\ UNCHANGED <<backend, store, created, log, dropping>>
      BY <1>2, BeginType
    <2>2. Known \subseteq Known'
      BY <1>0, <2>1 DEF Known
    <2> QED
      BY <2>1, <2>2 DEF RemoteOK
  <1>3. CASE Apply
    <2>1. /\ UNCHANGED <<backend, calls, created, dropping>> /\ Known' = Known
          /\ log # <<>> /\ log' = Tail(log)
          /\ store' = Put(store, Head(log).put, Head(log).entry)
      BY <1>3 DEF Apply, given, Known
    <2>2. /\ \E j \in DOMAIN log : Head(log) = log[j]
          /\ \A i \in DOMAIN log' : \E j \in DOMAIN log : log'[i] = log[j]
      BY <2>1, TakenIn DEF TypeOK
    <2>3. \A d \in DocIds : store'[d].by \in Known
      BY <2>1, <2>2 DEF Put, RemoteOK
    <2> QED
      BY <2>1, <2>2, <2>3 DEF RemoteOK
  <1>4. CASE ApplyDrop
    <2>1. Absent.by \in Known
      BY <1>0 DEF Absent, Known
    <2> QED
      BY <1>4, <2>1 DEF ApplyDrop, given, RemoteOK, Known, Empty
  <1>5. CASE UNCHANGED vars
    BY <1>5 DEF vars, RemoteOK, Known, Implicit
  <1> QED
    BY <1>1, <1>2, <1>3, <1>4, <1>5, StepMoves DEF Next

-----------------------------------------------------------------------------
(* Deletes that nothing disturbs. *)

LEMMA OnlyWipes ==
    ASSUME NEW l \in Seq({Wipe})
    PROVE  /\ Append(l, Wipe) \in Seq({Wipe})
           /\ l # <<>> => Head(l) = Wipe /\ Tail(l) \in Seq({Wipe})
  <1>1. Append(l, Wipe) \in Seq({Wipe})
    BY AppendProperties
  <1>2. l # <<>> => Head(l) \in {Wipe} /\ Tail(l) \in Seq({Wipe})
    BY HeadTailProperties
  <1> QED
    BY <1>1, <1>2

\* What the history says of a step after which nobody writes.
LEMMA WatchQuiet ==
    ASSUME TypeOK, Watch
    PROVE  /\ emptied' => NoWrites'
           /\ emptied' => emptied \/ \E c \in Clients :
                 quiet'[c] /\ result'[c] # result[c] /\ result'[c].is = "done"
           /\ \A c \in Clients : quiet'[c] =>
                 /\ NoWrites' /\ now'[c].call = "delete"
                 /\ log = <<>> \/ (quiet[c] /\ now'[c].by = now[c].by)
                 /\ now'[c].by = now[c].by => quiet[c]
  BY DEF Watch, NoWrites, Began, TypeOK

\* Writes go on: a step of one leaves it under way, or applies something.
LEMMA WritesShow ==
    ASSUME TypeOK, CallsOK, NEW c \in Clients, Moves(c), now[c].call # "upsert"
    PROVE  \/ Looks(c) /\ ~(now[c].at = "settle")
           \/ Empties(c) \/ Wipes(c)
  <1>1. now[c].at \notin Sending \cup {"settle"}
    BY DEF CallsOK, CallOK
  <1> QED
    BY <1>1 DEF Moves, Creates, Applies, Accepts, Sending

LEMMA NextWipes ==
    ASSUME TypeOK, CallsOK, FreshInv, [Next]_vars, NoWrites', log \in Seq({Wipe})
    PROVE  log' \in Seq({Wipe})
  <1>1. ASSUME NEW c \in Clients, Moves(c) PROVE log' \in Seq({Wipe})
    <2>1. CASE Looks(c) \/ Creates(c) \/ Empties(c)
      BY <2>1 DEF Looks, Creates, Empties, remote
    <2>2. CASE Wipes(c)
      BY <2>2, OnlyWipes DEF Wipes
    <2>3. ASSUME NEW p \in Parts(now[c].todo), Applies(c, p) PROVE log' \in Seq({Wipe})
      BY <2>3 DEF Applies
    <2>4. ASSUME NEW p \in Parts(now[c].todo), Accepts(c, p) PROVE FALSE
      <3>1. now'[c].at # "rest" /\ now[c].call = "upsert"
        BY <2>4 DEF Accepts, Going, CallsOK, CallOK, Sending
      <3> QED
        BY <1>1, <3>1 DEF NoWrites, Moves, Kept
    <2> QED
      BY <1>1, <2>1, <2>2, <2>3, <2>4 DEF Moves
  <1>2. ASSUME NEW c \in Clients, NEW docs \in {Docs, <<Docs[1]>>}, NEW user \in Owners,
               NEW call \in {"upsert", "query", "fetch", "delete"}, Begin(c, call, docs, user)
        PROVE  log' \in Seq({Wipe})
    BY <1>2 DEF Begin, remote
  <1>3. CASE Apply
    BY <1>3, OnlyWipes DEF Apply
  <1>4. CASE ApplyDrop
    BY <1>4 DEF ApplyDrop
  <1>5. CASE UNCHANGED vars
    BY <1>5 DEF vars
  <1> QED
    BY <1>1, <1>2, <1>3, <1>4, <1>5, StepMoves DEF Next

\* Where nothing is and nobody writes, nothing comes.
LEMMA StaysEmpty ==
    ASSUME TypeOK, CallsOK, RemoteOK, FreshInv, [Next]_vars, NoWrites, log \in Seq({Wipe}),
           store = Empty, ~Listed
    PROVE  store' = Empty /\ ~Listed'
  <1>1. ASSUME NEW c \in Clients, Moves(c) PROVE store' = Empty /\ ~Listed'
    <2>1. now[c].call # "upsert" /\ UNCHANGED backend
      BY <1>1 DEF NoWrites, Moves, given
    <2>2. CASE Looks(c)
      BY <2>1, <2>2 DEF Looks, remote, Listed
    <2>3. CASE Empties(c)
      BY <2>1, <2>3 DEF Empties, Listed, Container, Empty
    <2>4. CASE Wipes(c)
      BY <2>1, <2>4 DEF Wipes, Listed
    <2> QED
      BY <1>1, <2>1, <2>2, <2>3, <2>4, WritesShow
  <1>2. ASSUME NEW c \in Clients, NEW docs \in {Docs, <<Docs[1]>>}, NEW user \in Owners,
               NEW call \in {"upsert", "query", "fetch", "delete"}, Begin(c, call, docs, user)
        PROVE  store' = Empty /\ ~Listed'
    BY <1>2 DEF Begin, remote, given, Listed
  <1>3. CASE Apply
    <2>1. Head(log) = Wipe
      BY <1>3, OnlyWipes DEF Apply
    <2>2. Head(log).put = Docs /\ Head(log).entry = Absent
      BY <2>1 DEF Wipe
    <2>3. store' = Empty
      BY <1>3, <2>2 DEF Apply, Put, Empty
    <2> QED
      BY <1>3, <2>3 DEF Apply, given, Listed
  <1>4. CASE ApplyDrop
    BY <1>4 DEF ApplyDrop, given, RemoteOK, Listed, Implicit
  <1>5. CASE UNCHANGED vars
    BY <1>5 DEF vars, Listed
  <1> QED
    BY <1>1, <1>2, <1>3, <1>4, <1>5, StepMoves DEF Next

\* A quiet delete that returns has seen its container gone.
LEMMA ReturnsEmpty ==
    ASSUME TypeOK, CallsOK, RemoteOK, FreshInv, Next, NEW c \in Clients,
           now[c].call = "delete", result'[c] # result[c], result'[c].is = "done"
    PROVE  store' = Empty /\ ~Listed'
  <1>1. ASSUME NEW e \in Clients, Moves(e) PROVE store' = Empty /\ ~Listed'
    <2>1. e = c /\ UNCHANGED backend
      BY <1>1 DEF Moves, Kept, given
    <2>2. CASE Looks(c) /\ ~(now[c].at = "settle")
      <3>1. Reached(c) /\ UNCHANGED remote
        BY <2>2 DEF Looks, Going, Rests
      <3> QED
        BY <2>1, <2>2, <3>1 DEF Reached, RemoteOK, Listed, Container, remote
    <2>3. CASE Empties(c)
      BY <2>1, <2>3 DEF Empties, Listed, Container, Empty
    <2>4. ~Wipes(c)
      BY DEF Wipes, Going
    <2> QED
      BY <1>1, <2>1, <2>2, <2>3, <2>4, WritesShow
  <1>2. ASSUME NEW e \in Clients, NEW docs \in {Docs, <<Docs[1]>>}, NEW user \in Owners,
               NEW call \in {"upsert", "query", "fetch", "delete"}, Begin(e, call, docs, user)
        PROVE  FALSE
    <2>1. result'[e].is = "none" /\ \A x \in Clients \ {e} : result'[x] = result[x]
      BY <1>2, BeginType
    <2> QED
      BY <2>1
  <1>3. ~Apply /\ ~ApplyDrop
    BY DEF Apply, ApplyDrop
  <1> QED
    BY <1>1, <1>2, <1>3, StepMoves DEF Next

LEMMA NextQuiet ==
    ASSUME TypeOK, CallsOK, RemoteOK, QuietOK, FreshInv, Next
    PROVE  QuietOK'
  <1>1. ASSUME emptied' \/ \E c \in Clients : quiet'[c]
        PROVE  NoWrites' /\ log' \in Seq({Wipe})
    <2>1. NoWrites'
      BY <1>1, WatchQuiet DEF Next
    <2>2. log \in Seq({Wipe})
      <3>1. emptied \/ (\E c \in Clients : quiet[c]) \/ log = <<>>
        BY <1>1, WatchQuiet DEF Next
      <3>2. CASE log = <<>>
        BY <3>2
      <3> QED
        BY <3>1, <3>2, Zenon DEF QuietOK
    <2> QED
      BY <2>1, <2>2, NextWipes
  <1>2. ASSUME emptied' PROVE store' = Empty /\ ~Listed'
    <2>1. CASE emptied
      BY <2>1, StaysEmpty DEF QuietOK
    <2>2. CASE ~emptied
      <3>1. PICK c \in Clients :
               quiet'[c] /\ result'[c] # result[c] /\ result'[c].is = "done"
        BY <1>2, <2>2, WatchQuiet DEF Next
      <3>2. now[c].call = "delete"
        <4>1. now'[c].call = "delete"
          BY <3>1, WatchQuiet DEF Next
        <4>2. ASSUME NEW e \in Clients, Moves(e) PROVE now'[c].call = now[c].call
          BY <4>2 DEF Moves, Kept
        <4>3. ASSUME NEW e \in Clients, NEW docs \in {Docs, <<Docs[1]>>}, NEW user \in Owners,
                     NEW call \in {"upsert", "query", "fetch", "delete"},
                     Begin(e, call, docs, user)
              PROVE  FALSE
          <5>1. result'[e].is = "none" /\ \A x \in Clients \ {e} : result'[x] = result[x]
            BY <4>3, BeginType
          <5> QED
            BY <3>1, <5>1
        <4>4. ~Apply /\ ~ApplyDrop
          BY <3>1 DEF Apply, ApplyDrop
        <4> QED
          BY <4>1, <4>2, <4>3, <4>4, StepMoves DEF Next
      <3> QED
        BY <3>1, <3>2, ReturnsEmpty
    <2> QED
      BY <2>1, <2>2
  <1> QED
    BY <1>1, <1>2 DEF QuietOK

-----------------------------------------------------------------------------
(* Writes on their way. *)

\* What the history says of a write under way.
LEMMA WatchLanded ==
    ASSUME TypeOK, TypeOK', Watch, NEW c \in Clients,
           now'[c].call = "upsert", now'[c].by = now[c].by
    PROVE  /\ now[c].at = "rest" => landed'[c] = landed[c]
           /\ now[c].at # "rest" =>
                 /\ landed'[c].seen = landed[c].seen \cup Stored(c)'
                 /\ ~landed'[c].dropped => ~landed[c].dropped /\ (dropping => dropping')
                 /\ ~landed'[c].stale =>
                       /\ ~landed[c].stale
                       /\ \/ store'[Last(now'[c].docs)] = Absent
                          \/ store'[Last(now'[c].docs)].by = now'[c].by
  <1> DEFINE mine == {d \in DocIds : store'[d].by = now'[c].by /\ store'[d] # Absent}
             last == Last(now'[c].docs)
             other == store'[last] # Absent /\ store'[last].by # now'[c].by
  <1>1. landed'[c] = IF now[c].at = "rest" THEN landed[c]
                     ELSE [seen    |-> landed[c].seen \cup mine,
                           stale   |-> landed[c].stale \/ other,
                           dropped |-> landed[c].dropped \/ (dropping /\ ~dropping')]
    BY Zenon DEF Watch, Began
  <1>2. mine = Stored(c)'
    <2>1. now'[c].by \in 0..MaxCalls
      BY DEF TypeOK, Call
    <2>2. Absent.by # now'[c].by
      BY <2>1, BoundsAssumed DEF Absent
    <2> QED
      BY <2>2 DEF Stored
  <1>3. CASE now[c].at = "rest"
    BY <1>1, <1>3
  <1>4. CASE now[c].at # "rest"
    <2>1. /\ landed'[c].seen = landed[c].seen \cup mine
          /\ landed'[c].stale = (landed[c].stale \/ other)
          /\ landed'[c].dropped = (landed[c].dropped \/ (dropping /\ ~dropping'))
      BY <1>1, <1>4
    <2> HIDE DEF mine
    <2> QED
      BY <1>2, <1>4, <2>1
  <1> QED
    BY <1>3, <1>4

\* A document of a write leaves it for the log, the log for the store: what has been lost,
\* a dropped index has lost.
Flows(c) ==
    /\ Unsent(c)' \subseteq Unsent(c)
    /\ Coming(c)' \subseteq Coming(c) \cup Unsent(c)
    /\ Stored(c)' \subseteq Stored(c) \cup Coming(c) \cup Unsent(c)
    /\ ~landed'[c].dropped => Unsent(c) \cup Coming(c) \subseteq Unsent(c)' \cup Coming(c)' \cup Stored(c)'

SameWrite(c) ==
    /\ now'[c].call = "upsert" /\ now[c].call = "upsert" /\ now[c].at # "rest"
    /\ now'[c].by = now[c].by /\ now'[c].docs = now[c].docs

LEMMA Carried ==
    ASSUME TypeOK, TypeOK', Watch, NEW c \in Clients, SameWrite(c), OnItsWay(c), Flows(c)
    PROVE  /\ landed'[c].seen \cup Coming(c)' \cup Unsent(c)' \subseteq Told(now'[c].docs)
           /\ ~landed'[c].dropped =>
                 Told(now'[c].docs) \subseteq landed'[c].seen \cup Coming(c)' \cup Unsent(c)'
           /\ Stored(c)' \subseteq landed'[c].seen
           /\ ~landed'[c].stale =>
                 \/ store'[Last(now'[c].docs)] = Absent
                 \/ store'[Last(now'[c].docs)].by = now'[c].by
  <1>1. /\ landed'[c].seen = landed[c].seen \cup Stored(c)'
        /\ ~landed'[c].dropped => ~landed[c].dropped
        /\ ~landed'[c].stale =>
              \/ store'[Last(now'[c].docs)] = Absent
              \/ store'[Last(now'[c].docs)].by = now'[c].by
    BY WatchLanded DEF SameWrite
  <1>2. now'[c].docs = now[c].docs
    BY DEF SameWrite
  <1>3. /\ landed[c].seen \cup Coming(c) \cup Unsent(c) \subseteq Told(now[c].docs)
        /\ ~landed[c].dropped => Told(now[c].docs) \subseteq landed[c].seen \cup Coming(c) \cup Unsent(c)
        /\ Stored(c) \subseteq landed[c].seen
    BY DEF OnItsWay
  <1> QED
    BY <1>1, <1>2, <1>3 DEF Flows

LEMMA StaysOnItsWay ==
    ASSUME TypeOK, TypeOK', Watch, NEW c \in Clients, SameWrite(c), OnItsWay(c), Flows(c),
           Unsent(c)' \cap (Coming(c)' \cup Stored(c)') = {},
           now'[c].at \in Sending =>
              /\ now'[c].todo # <<>> /\ Last(now'[c].todo) = Last(now[c].docs)
              /\ Distinct(now'[c].todo),
           Last(now[c].docs) \in Stored(c)' => Coming(c)' = {},
           Ordered(log', now[c].by, Last(now[c].docs))
    PROVE  OnItsWay(c)'
  <1>1. now'[c].docs = now[c].docs /\ now'[c].by = now[c].by
    BY DEF SameWrite
  <1>2. (Ordered(log, now[c].by, Last(now[c].docs)))' = Ordered(log', now'[c].by, Last(now'[c].docs))
    BY DEF Ordered
  <1> QED
    BY <1>1, <1>2, Carried DEF OnItsWay, Distinct

\* A write whose documents are neither to be sent nor to be applied has landed.
LEMMA HasLanded ==
    ASSUME TypeOK, TypeOK', Watch, NEW c \in Clients, SameWrite(c), OnItsWay(c), Flows(c),
           Unsent(c)' = {}, Coming(c)' = {}, now'[c].at = "rest"
    PROVE  FreshOK(c)'
  BY Carried DEF FreshOK

\* What a document's number says of its write.
LEMMA WrittenBy ==
    ASSUME TypeOK, CallsOK, NEW c \in Clients, now[c].call = "upsert"
    PROVE  /\ now[c].by \in 1..MaxCalls /\ now[c].by <= calls /\ Absent.by # now[c].by
           /\ \A e \in Clients \ {c} : now[e].by # now[c].by
           /\ now[c].docs # <<>> /\ now[c].docs \in Seq(DocIds)
           /\ Last(now[c].docs) \in DocIds /\ Last(now[c].docs) \in Told(now[c].docs)
           /\ Coming(c) \subseteq DocIds
  <1>1. now[c].by \in 1..MaxCalls /\ now[c].by <= calls
    <2>1. now[c] \in Call /\ CallOK(c)
      BY DEF TypeOK, CallsOK
    <2>2. now[c].by \in 0..MaxCalls
      BY <2>1 DEF Call
    <2>3. now[c].by <= calls /\ now[c].by > 0
      BY <2>1 DEF CallOK
    <2> QED
      BY <2>2, <2>3, BoundsAssumed
  <1>2. Absent.by = MaxCalls + 1
    BY DEF Absent
  <1>3. \A e \in Clients \ {c} : now[e].by # now[c].by
    BY <1>1 DEF CallsOK
  <1>4. now[c].docs # <<>> /\ now[c].docs \in Seq(DocIds)
    <2>1. now[c] \in Call /\ CallOK(c)
      BY DEF TypeOK, CallsOK
    <2>2. now[c].docs \in Seq(DocIds)
      BY <2>1 DEF Call
    <2>3. now[c].docs \in {Docs, <<Docs[1]>>}
      BY <2>1 DEF CallOK
    <2>4. <<Docs[1]>> # <<>>
      OBVIOUS
    <2> QED
      BY <2>2, <2>3, <2>4, DocsAssumed
  <1> QED
    BY <1>1, <1>2, <1>3, <1>4, LastIsTold, BoundsAssumed DEF Coming, ComingOf

\* A step that is not its own leaves a write on its way: one that puts other versions over
\* its documents, ...
LEMMA Overwritten ==
    ASSUME TypeOK, TypeOK', CallsOK, Watch, NEW c \in Clients, FreshOK(c),
           now'[c] = now[c], result'[c] = result[c],
           \A d \in DocIds : store'[d] = store[d] \/ store'[d].by # now[c].by,
           Coming(c)' = Coming(c),
           Ordered(log, now[c].by, Last(now[c].docs)) => Ordered(log', now[c].by, Last(now[c].docs))
    PROVE  FreshOK(c)'
  <1> SUFFICES ASSUME now[c].call = "upsert" PROVE FreshOK(c)'
    BY DEF FreshOK
  <1>1. CASE now[c].at = "rest"
    BY <1>1, WatchLanded DEF FreshOK
  <1>2. CASE now[c].at # "rest"
    <2>1. OnItsWay(c) /\ SameWrite(c) /\ result'[c].is = "none"
      BY <1>2 DEF FreshOK, SameWrite, CallsOK, CallOK
    <2>2. Stored(c)' \subseteq Stored(c) /\ Unsent(c)' = Unsent(c)
      BY DEF Stored, Unsent
    <2>3. Flows(c)
      BY <2>2 DEF Flows
    <2>4. OnItsWay(c)'
      BY <2>1, <2>2, <2>3, StaysOnItsWay DEF OnItsWay, Distinct
    <2> QED
      BY <2>1, <2>4 DEF FreshOK
  <1> QED
    BY <1>1, <1>2

\* ... one of the service, which applies what was accepted first, ...
LEMMA AppliedInOrder ==
    ASSUME TypeOK, TypeOK', CallsOK, Watch, NEW c \in Clients, FreshOK(c),
           now'[c] = now[c], result'[c] = result[c],
           log # <<>>, store' = Put(store, Head(log).put, Head(log).entry), log' = Tail(log)
    PROVE  FreshOK(c)'
  <1> SUFFICES ASSUME now[c].call = "upsert" PROVE FreshOK(c)'
    BY DEF FreshOK
  <1>1. CASE now[c].at = "rest"
    BY <1>1, WatchLanded DEF FreshOK
  <1>2. CASE now[c].at # "rest"
    <2> DEFINE n == now[c].by
               d == Last(now[c].docs)
    <2>1. OnItsWay(c) /\ SameWrite(c) /\ result'[c].is = "none"
      BY <1>2 DEF FreshOK, SameWrite, CallsOK, CallOK
    <2>2. Unsent(c)' = Unsent(c) /\ Coming(c)' = ComingOf(Tail(log), n)
      BY DEF Unsent, Coming, ComingOf
    <2>3. /\ Unsent(c) \cap (Coming(c) \cup Stored(c)) = {} /\ Ordered(log, n, d)
          /\ d \in Stored(c) => Coming(c) = {}
          /\ now[c].at \in Sending =>
                now[c].todo # <<>> /\ Last(now[c].todo) = d /\ Distinct(now[c].todo)
      BY <2>1 DEF OnItsWay, Distinct
    <2>4. Ordered(log', n, d)
      BY <2>3, TakenIn DEF TypeOK
    <2>5. CASE Head(log).entry.by # n
      <3>1. Coming(c)' = Coming(c)
        BY <2>2, <2>5, TakenIn DEF Coming, TypeOK
      <3>2. Stored(c)' \subseteq Stored(c)
        BY <2>5 DEF Put, Stored
      <3>3. Flows(c)
        BY <2>2, <3>1, <3>2 DEF Flows
      <3> QED
        BY <2>1, <2>2, <2>3, <2>4, <3>1, <3>2, <3>3, StaysOnItsWay DEF FreshOK
    <2>6. CASE Head(log).entry.by = n
      <3>1. Coming(c) = Coming(c)' \cup Told(Head(log).put)
        BY <2>2, <2>6, TakenIn DEF Coming, TypeOK
      <3>2. Stored(c)' = Stored(c) \cup Told(Head(log).put)
        <4>1. Told(Head(log).put) \subseteq DocIds
          BY <3>1, WrittenBy
        <4> QED
          BY <2>6, <4>1 DEF Put, Stored, Told
      <3>3. d \in Told(Head(log).put) => Coming(c)' = {}
        BY <2>2, <2>3, <2>6, TakenIn DEF TypeOK
      <3>4. Flows(c)
        BY <2>2, <3>1, <3>2 DEF Flows
      <3>5. /\ Unsent(c)' \cap (Coming(c)' \cup Stored(c)') = {}
            /\ d \in Stored(c)' => Coming(c)' = {}
        BY <2>2, <2>3, <3>1, <3>2, <3>3
      <3> QED
        BY <2>1, <2>2, <2>3, <2>4, <3>4, <3>5, StaysOnItsWay DEF FreshOK
    <2> QED
      BY <2>5, <2>6
  <1> QED
    BY <1>1, <1>2

\* ... or the service's drop of the index, which the history tells.
LEMMA DroppedMeanwhile ==
    ASSUME TypeOK, TypeOK', CallsOK, Watch, NEW c \in Clients, FreshOK(c),
           now'[c] = now[c], result'[c] = result[c],
           dropping, ~dropping', store' = Empty, log' = <<>>
    PROVE  FreshOK(c)'
  <1> SUFFICES ASSUME now[c].call = "upsert" PROVE FreshOK(c)'
    BY DEF FreshOK
  <1>1. CASE now[c].at = "rest"
    BY <1>1, WatchLanded DEF FreshOK
  <1>2. CASE now[c].at # "rest"
    <2>1. OnItsWay(c) /\ SameWrite(c) /\ result'[c].is = "none"
      BY <1>2 DEF FreshOK, SameWrite, CallsOK, CallOK
    <2>2. Unsent(c)' = Unsent(c) /\ Coming(c)' = {}
      BY DEF Unsent, Coming, ComingOf
    <2>3. Stored(c)' = {}
      BY WrittenBy DEF Stored, Empty
    <2>4. landed'[c].dropped
      <3>1. landed'[c].dropped \in BOOLEAN
        BY DEF TypeOK
      <3> QED
        BY <2>1, <3>1, WatchLanded DEF SameWrite
    <2>5. Flows(c)
      BY <2>2, <2>3, <2>4 DEF Flows
    <2>6. Ordered(log', now[c].by, Last(now[c].docs))
      BY DEF Ordered
    <2> QED
      BY <2>1, <2>2, <2>3, <2>5, <2>6, StaysOnItsWay DEF OnItsWay, FreshOK, Distinct
  <1> QED
    BY <1>1, <1>2

\* Its own steps send a part of what is left, or ask for the last document.
LEMMA WriteMoves ==
    ASSUME TypeOK, TypeOK', CallsOK, RemoteOK, Watch, NEW c \in Clients, FreshOK(c), Moves(c),
           now[c].call = "upsert"
    PROVE  FreshOK(c)'
  <1> DEFINE n == now[c].by
             d == Last(now[c].docs)
  <1>1. SameWrite(c) /\ OnItsWay(c) /\ now[c].at # "rest" /\ result[c].is = "none"
    BY DEF Moves, Kept, SameWrite, FreshOK, CallsOK, CallOK
  <1>2. /\ Unsent(c) \cap (Coming(c) \cup Stored(c)) = {} /\ Ordered(log, n, d)
        /\ d \in Stored(c) => Coming(c) = {}
        /\ now[c].at \in Sending =>
              now[c].todo # <<>> /\ Last(now[c].todo) = d /\ Distinct(now[c].todo)
    BY <1>1 DEF OnItsWay, Distinct
  <1>3. now'[c].by = now[c].by
    BY <1>1 DEF SameWrite
  <1>4. ASSUME Looks(c) \/ Creates(c) PROVE FreshOK(c)'
    <2>0. UNCHANGED <<store, log>>
      BY <1>4 DEF Looks, Creates, remote
    <2>1. Coming(c)' = Coming(c) /\ Stored(c)' = Stored(c)
      BY <1>3, <2>0 DEF Coming, ComingOf, Stored
    <2>2. CASE now[c].at \in Sending /\ \E at \in Sending : Going(c, at, now[c].todo)
      <3>1. now'[c].at \in Sending /\ now'[c].todo = now[c].todo /\ result'[c] = result[c]
        BY <2>2 DEF Going
      <3>2. Unsent(c)' = Unsent(c)
        BY <2>2, <3>1 DEF Unsent
      <3>3. Flows(c)
        BY <2>1, <3>2 DEF Flows
      <3>4. OnItsWay(c)'
        BY <1>1, <1>2, <2>0, <2>1, <2>2, <3>1, <3>2, <3>3, StaysOnItsWay
      <3> QED
        BY <1>1, <3>1, <3>4 DEF FreshOK
    <2>3. CASE now[c].at = "settle" /\ Going(c, "settle", now[c].todo)
      <3>1. now'[c].at = "settle" /\ result'[c] = result[c]
        BY <2>3 DEF Going
      <3>2. Unsent(c)' = {} /\ Unsent(c) = {}
        BY <2>3, <3>1 DEF Unsent, Sending
      <3>3. Flows(c)
        BY <2>1, <3>2 DEF Flows
      <3>4. OnItsWay(c)'
        BY <1>1, <1>2, <2>0, <2>1, <3>1, <3>2, <3>3, StaysOnItsWay DEF Sending
      <3> QED
        BY <1>1, <3>1, <3>4 DEF FreshOK
    <2>4. CASE \E is \in {"hits", "error"} : Rests(c, is)
      BY <2>4 DEF Rests, FreshOK
    <2>5. CASE now[c].at = "settle" /\ LastIsVisible(c) /\ Rests(c, "done")
      <3>1. Unsent(c)' = {} /\ Unsent(c) = {} /\ now'[c].at = "rest"
        BY <2>5 DEF Unsent, Sending, Rests
      <3>2. Flows(c)
        BY <2>1, <3>1 DEF Flows
      <3>3. CASE landed'[c].stale
        BY <3>1, <3>3 DEF FreshOK
      <3>4. CASE ~landed'[c].stale
        <4>1. ~landed[c].stale
          BY <1>1, <3>4, WatchLanded DEF SameWrite
        <4>2. store[d] # Absent /\ d \in DocIds
          BY <2>5, WrittenBy DEF LastIsVisible, Holds
        <4>3. d \in Stored(c)
          BY <1>1, <4>1, <4>2 DEF OnItsWay, Stored
        <4>4. Coming(c)' = {}
          BY <1>2, <2>1, <4>3
        <4> QED
          BY <1>1, <3>1, <3>2, <4>4, HasLanded
      <3> QED
        BY <3>3, <3>4
    <2>6. \/ now[c].at \in Sending /\ \E at \in Sending : Going(c, at, now[c].todo)
          \/ now[c].at = "settle" /\ Going(c, "settle", now[c].todo)
          \/ \E is \in {"hits", "error"} : Rests(c, is)
          \/ now[c].at = "settle" /\ LastIsVisible(c) /\ Rests(c, "done")
      <3>1. now[c].call # "delete"
        OBVIOUS
      <3>2. CASE Looks(c)
        BY <3>1, <3>2 DEF Looks, Reached
      <3>3. CASE Creates(c)
        BY <3>3 DEF Creates, Sending
      <3> QED
        BY <1>4, <3>2, <3>3
    <2> QED
      BY <2>2, <2>3, <2>4, <2>5, <2>6
  <1>5. ASSUME NEW p \in Parts(now[c].todo), Applies(c, p) \/ Accepts(c, p) PROVE FreshOK(c)'
    <2> DEFINE t == now[c].todo
               r == After(t, p)
    <2>1. /\ t \in Seq(DocIds) /\ t # <<>> /\ Distinct(t) /\ Last(t) = d
          /\ Unsent(c) = Told(t) /\ d \in Told(t)
      <3>1. now[c].at \in Sending
        BY <1>5 DEF Applies, Accepts, Sending
      <3>2. t \in Seq(DocIds)
        BY DEF TypeOK, Call
      <3> QED
        BY <1>2, <3>1, <3>2, LastIsTold DEF Unsent
    <2>2. /\ r \in Seq(DocIds) /\ Distinct(r) /\ Told(t) = Told(p) \cup Told(r)
          /\ Told(p) \cap Told(r) = {} /\ (r # <<>> => Last(r) = d)
          /\ (r = <<>> => Told(p) = Told(t)) /\ p \in Seq(DocIds)
      BY <2>1, TakenOff DEF Parts
    <2>3. Told(p) \subseteq DocIds
      BY <2>2, ElementOfSeq DEF Told
    <2>4. Unsent(c)' = IF r # <<>> THEN Told(r) ELSE {}
      BY <1>5 DEF Applies, Accepts, Rests, Going, Unsent, Sending
    <2>5. Entry(c).by = n
      BY Versions
    <2>6. CASE Applies(c, p)
      <3>1. Stored(c)' = Stored(c) \cup Told(p)
        BY <1>3, <2>3, <2>5, <2>6 DEF Applies, Put, Stored, Told
      <3>2. Coming(c) = {} /\ Coming(c)' = {} /\ log' = log
        <4>1. log = <<>> /\ log' = log
          BY <2>6 DEF Applies, RemoteOK
        <4> QED
          BY <4>1 DEF Coming, ComingOf
      <3>3. Flows(c)
        BY <2>1, <2>2, <2>4, <3>1, <3>2 DEF Flows
      <3>4. CASE r = <<>>
        <4>1. now'[c].at = "rest"
          BY <2>6, <3>4 DEF Applies, Rests
        <4> QED
          BY <1>1, <2>4, <3>2, <3>3, <3>4, <4>1, HasLanded
      <3>5. CASE r # <<>>
        <4>1. now'[c].at = "write" /\ now'[c].todo = r /\ result'[c] = result[c]
          BY <2>6, <3>5 DEF Applies, Going
        <4>2. Unsent(c)' \cap (Coming(c)' \cup Stored(c)') = {}
          BY <1>2, <2>1, <2>2, <2>4, <3>1, <3>2, <3>5
        <4>3. OnItsWay(c)'
          BY <1>1, <1>2, <2>2, <3>2, <3>3, <3>5, <4>1, <4>2, StaysOnItsWay
        <4> QED
          BY <1>1, <4>1, <4>3 DEF FreshOK
      <3> QED
        BY <3>4, <3>5
    <2>7. CASE Accepts(c, p)
      <3> DEFINE x == [put |-> p, entry |-> Entry(c)]
      <3>1. x \in Request /\ x.entry.by = n /\ x.put = p
        BY <2>2, <2>5, Versions
      <3>2. log' = Append(log, x) /\ store' = store
        BY <2>7 DEF Accepts
      <3> HIDE DEF x
      <3>3. Coming(c)' = Coming(c) \cup Told(p)
        <4>1. ComingOf(Append(log, x), n) = ComingOf(log, n) \cup Told(x.put)
          <5>1. log \in Seq(Request) /\ x \in Request /\ x.entry.by = n
            BY <3>1 DEF TypeOK
          <5> HIDE DEF n, d
          <5> QED
            BY <5>1, Joined, Zenon
        <4>2. Coming(c)' = ComingOf(log', n)
          BY <1>3 DEF Coming, ComingOf
        <4> QED
          BY <3>1, <3>2, <4>1, <4>2 DEF Coming
      <3>4. Stored(c)' = Stored(c)
        BY <1>3, <3>2 DEF Stored
      <3>5. Ordered(log', n, d)
        <4>1. d \notin Coming(c) /\ d \in DocIds
          BY <1>2, <2>1, WrittenBy
        <4> QED
          BY <1>2, <3>1, <3>2, <4>1, Joined DEF Coming, TypeOK
      <3>6. Flows(c)
        BY <2>1, <2>2, <2>4, <3>3, <3>4 DEF Flows
      <3>7. Unsent(c)' \cap (Coming(c)' \cup Stored(c)') = {} /\ d \notin Stored(c)'
        BY <1>2, <2>1, <2>2, <2>4, <3>3, <3>4
      <3>8. /\ result'[c] = result[c]
            /\ now'[c].at \in Sending => r # <<>> /\ now'[c].todo = r
        BY <2>7 DEF Accepts, Going, Sending
      <3>9. OnItsWay(c)'
        BY <1>1, <2>2, <3>5, <3>6, <3>7, <3>8, StaysOnItsWay
      <3> QED
        BY <1>1, <3>8, <3>9 DEF FreshOK
    <2> QED
      BY <1>5, <2>6, <2>7
  <1>6. ~Empties(c) /\ ~Wipes(c)
    BY DEF Empties, Wipes
  <1> QED
    BY <1>4, <1>5, <1>6 DEF Moves

\* A write begins with all its documents to be sent, and nothing of its number anywhere.
LEMMA WriteBegins ==
    ASSUME TypeOK, TypeOK', CallsOK, RemoteOK, Watch, NEW c \in Clients,
           NEW docs \in {Docs, <<Docs[1]>>}, NEW user \in Owners,
           NEW call \in {"upsert", "query", "fetch", "delete"}, Begin(c, call, docs, user)
    PROVE  FreshOK(c)'
  <1> DEFINE n == calls + 1
             d == Last(docs)
  <1>0. calls \in Nat /\ calls < MaxCalls /\ MaxCalls \in Nat
    BY BoundsAssumed, BeginType DEF TypeOK
  <1>1. /\ UNCHANGED <<store, log>>
        /\ now'[c].call = call /\ now'[c].docs = docs /\ now'[c].todo = docs
        /\ now'[c].by = n /\ result'[c].is = "none"
        /\ call = "upsert" => now'[c].at \in {"write", "ensure"}
    BY BeginType
  <1> SUFFICES ASSUME call = "upsert" PROVE OnItsWay(c)'
    BY <1>1 DEF FreshOK
  <1>2. /\ docs # <<>> /\ docs \in Seq(DocIds) /\ Distinct(docs)
        /\ d \in Told(docs) /\ d \in DocIds
    <2>1. Docs \in Seq(DocIds) /\ Docs # <<>> /\ Distinct(Docs) /\ Docs[1] \in DocIds
      BY DocsAssumed DEF DocIds, Distinct
    <2>2. <<Docs[1]>> # <<>> /\ <<Docs[1]>> \in Seq(DocIds) /\ Distinct(<<Docs[1]>>)
      BY <2>1 DEF Distinct
    <2>3. docs # <<>> /\ docs \in Seq(DocIds) /\ Distinct(docs)
      BY <2>1, <2>2
    <2> QED
      BY <2>3, LastIsTold
  <1>3. n \notin Known
    BY <1>0 DEF Known
  <1>4. Coming(c)' = {} /\ Stored(c)' = {} /\ Unsent(c)' = Told(docs)
    <2>1. Coming(c)' = {}
      BY <1>1, <1>3 DEF Coming, ComingOf, RemoteOK
    <2>2. Stored(c)' = {}
      BY <1>1, <1>3 DEF Stored, RemoteOK
    <2>3. Unsent(c)' = Told(docs)
      BY <1>1 DEF Unsent, Sending
    <2> QED
      BY <2>1, <2>2, <2>3
  <1>5. Ordered(log', n, d)
    BY <1>1, <1>3 DEF Ordered, RemoteOK
  <1>6. landed'[c].seen = {} /\ (~landed'[c].stale => store'[d] = Absent \/ store'[d].by = n)
    <2> DEFINE last == Last(now'[c].docs)
               other == store'[last] # Absent /\ store'[last].by # now'[c].by
    <2>1. now'[c].by # now[c].by
      <3>1. now[c].by <= calls /\ now[c].by \in Nat
        BY DEF TypeOK, Call, CallsOK, CallOK
      <3> QED
        BY <1>0, <1>1, <3>1
    <2>2. landed'[c] = [Unlanded EXCEPT !.stale = other]
      BY <1>1, <2>1 DEF Watch, Began
    <2>3. landed'[c].seen = {} /\ landed'[c].stale = other
      BY <2>2 DEF Unlanded
    <2> QED
      BY <1>1, <2>3
  <1> HIDE DEF n, d
  <1>7. /\ Distinct(now'[c].todo) /\ now'[c].todo # <<>> /\ Last(now'[c].todo) = d
        /\ now'[c].todo = docs /\ Last(now'[c].docs) = d
    BY <1>1, <1>2 DEF d
  <1> QED
    BY <1>1, <1>2, <1>4, <1>5, <1>6, <1>7 DEF OnItsWay, Distinct, Ordered

LEMMA NextFresh ==
    ASSUME TypeOK, TypeOK', CallsOK, RemoteOK, FreshInv, Next
    PROVE  FreshInv'
  <1> SUFFICES ASSUME NEW e \in Clients PROVE FreshOK(e)'
    BY DEF FreshInv
  <1>0. Watch /\ FreshOK(e)
    BY DEF Next, FreshInv
  <1>1. ASSUME NEW c \in Clients, Moves(c) PROVE FreshOK(e)'
    <2> SUFFICES ASSUME now[e].call = "upsert" PROVE FreshOK(e)'
      BY <1>1 DEF Moves, Kept, FreshOK
    <2>1. CASE e = c
      BY <1>0, <1>1, <2>1, WriteMoves
    <2>2. CASE e # c
      <3> DEFINE n == now[e].by
                 d == Last(now[e].docs)
      <3>1. now'[e] = now[e] /\ result'[e] = result[e]
        BY <1>1, <2>2 DEF Moves, Kept
      <3>2. /\ Absent.by # n /\ now[c].by # n
            /\ log \in Seq(Request)
        BY <2>2, WrittenBy DEF TypeOK
      <3>3. CASE UNCHANGED <<store, log>>
        <4>1. Coming(e)' = Coming(e)
          BY <3>1, <3>3 DEF Coming, ComingOf
        <4> QED
          BY <1>0, <3>1, <3>3, <4>1, Overwritten
      <3>4. CASE Empties(c)
        <4>1. log' = log /\ \A x \in DocIds : store'[x].by # n
          BY <3>2, <3>4 DEF Empties, Empty
        <4>2. Coming(e)' = Coming(e)
          BY <3>1, <4>1 DEF Coming, ComingOf
        <4> QED
          BY <1>0, <3>1, <4>1, <4>2, Overwritten
      <3>5. ASSUME NEW x \in Request, x.entry.by # n, log' = Append(log, x), store' = store
            PROVE  FreshOK(e)'
        <4>1. /\ ComingOf(log', n) = ComingOf(log, n)
              /\ Ordered(log, n, d) => Ordered(log', n, d)
          <5> HIDE DEF n, d
          <5> QED
            BY <3>2, <3>5, Joined
        <4>2. Coming(e)' = Coming(e)
          BY <3>1, <4>1 DEF Coming, ComingOf
        <4> QED
          BY <1>0, <3>1, <3>5, <4>1, <4>2, Overwritten
      <3>6. ASSUME NEW p \in Parts(now[c].todo), Applies(c, p) \/ Accepts(c, p)
            PROVE  FreshOK(e)'
        <4>1. Entry(c).by # n /\ [put |-> p, entry |-> Entry(c)] \in Request
          BY <3>2, Versions DEF Parts
        <4>2. CASE Applies(c, p)
          <5>1. log' = log /\ \A x \in DocIds : store'[x] = store[x] \/ store'[x].by # n
            BY <4>1, <4>2 DEF Applies, Put
          <5>2. Coming(e)' = Coming(e)
            BY <3>1, <5>1 DEF Coming, ComingOf
          <5> QED
            BY <1>0, <3>1, <5>1, <5>2, Overwritten
        <4>3. CASE Accepts(c, p)
          BY <3>5, <4>1, <4>3 DEF Accepts
        <4> QED
          BY <3>6, <4>2, <4>3
      <3>7. CASE Wipes(c)
        <4>1. Wipe \in Request /\ Wipe.entry.by # n
          BY <3>2, Versions DEF Wipe
        <4> QED
          BY <3>3, <3>5, <3>7, <4>1 DEF Wipes
      <3>8. CASE Looks(c) \/ Creates(c)
        BY <3>3, <3>8 DEF Looks, Creates, remote
      <3> QED
        BY <1>1, <3>4, <3>6, <3>7, <3>8 DEF Moves
    <2> QED
      BY <2>1, <2>2
  <1>2. ASSUME NEW c \in Clients, NEW docs \in {Docs, <<Docs[1]>>}, NEW user \in Owners,
               NEW call \in {"upsert", "query", "fetch", "delete"}, Begin(c, call, docs, user)
        PROVE  FreshOK(e)'
    <2>1. CASE e = c
      BY <1>0, <1>2, <2>1, WriteBegins
    <2>2. CASE e # c
      <3>1. UNCHANGED <<store, log>> /\ now'[e] = now[e] /\ result'[e] = result[e]
        BY <1>2, <2>2, BeginType
      <3>2. Coming(e)' = Coming(e)
        BY <3>1 DEF Coming, ComingOf
      <3> QED
        BY <1>0, <3>1, <3>2, Overwritten
    <2> QED
      BY <2>1, <2>2
  <1>3. CASE Apply
    BY <1>0, <1>3, AppliedInOrder DEF Apply
  <1>4. CASE ApplyDrop
    BY <1>0, <1>4, DroppedMeanwhile DEF ApplyDrop
  <1> QED
    BY <1>1, <1>2, <1>3, <1>4, StepMoves DEF Next

-----------------------------------------------------------------------------
(* The invariant, and what follows from it. *)

LEMMA InitIInv == Init => IInv
  <1> SUFFICES ASSUME Init PROVE IInv
    OBVIOUS
  <1>1. Absent \in Version /\ Seeded \in Version /\ Resting \in Call
    BY BoundsAssumed DEF Absent, Seeded, Version, Resting, Call, Owners, NoUser
  <1>2. Outcome("none", {}) \in Results /\ Outcome("none", {}).is = "none"
    BY DEF Outcome, Results
  <1>3. Unlanded \in [seen : SUBSET DocIds, stale : BOOLEAN, dropped : BOOLEAN]
    BY DEF Unlanded
  <1>4. \A c \in Clients : now[c] = Resting /\ result[c] = Outcome("none", {})
    BY DEF Init
  <1>5. Resting.call = "none" /\ Resting.at = "rest" /\ Resting.by = 0
    BY DEF Resting
  <1>6. TypeOK
    <2>1. store \in [DocIds -> Version]
      BY <1>1 DEF Init, Empty
    <2>2. created \in BOOLEAN
      <3>1. created \in {backend \notin Implicit} \/ created \in BOOLEAN
        BY DEF Init
      <3> QED
        BY <3>1
    <2>3. calls \in 0..MaxCalls
      BY BoundsAssumed DEF Init
    <2>4. log \in Seq(Request) /\ dropping \in BOOLEAN
      <3>1. log = <<>> /\ dropping = FALSE
        BY DEF Init
      <3>2. <<>> \in Seq(Request)
        OBVIOUS
      <3> QED
        BY <3>1, <3>2, Zenon
    <2>5. /\ now \in [Clients -> Call] /\ result \in [Clients -> Results]
          /\ landed \in [Clients -> [seen : SUBSET DocIds, stale : BOOLEAN, dropped : BOOLEAN]]
          /\ quiet \in [Clients -> BOOLEAN] /\ emptied \in BOOLEAN
      BY <1>1, <1>2, <1>3 DEF Init
    <2>6. backend \in Backends /\ user_scoped \in BOOLEAN
      BY DEF Init
    <2> QED
      BY <2>1, <2>2, <2>3, <2>4, <2>5, <2>6 DEF TypeOK
  <1>7. CallsOK
    BY <1>4, <1>5 DEF Init, CallsOK, CallOK, Sending
  <1>8. RemoteOK
    <2>1. \A d \in DocIds : store[d].by \in Known
      BY BoundsAssumed DEF Init, Empty, Absent, Seeded, Known
    <2>2. backend \notin Implicit /\ ~created => store = Empty
      BY DEF Init
    <2> QED
      BY <2>1, <2>2 DEF Init, RemoteOK
  <1>9. QuietOK
    BY DEF Init, QuietOK
  <1>10. FreshInv
    BY <1>4, <1>5 DEF FreshInv, FreshOK
  <1> QED
    BY <1>6, <1>7, <1>8, <1>9, <1>10 DEF IInv

LEMMA NextIInv == IInv /\ [Next]_vars => IInv'
  <1> SUFFICES ASSUME IInv, [Next]_vars PROVE IInv'
    OBVIOUS
  <1>1. TypeOK /\ CallsOK /\ RemoteOK /\ QuietOK /\ FreshInv
    BY DEF IInv
  <1>2. TypeOK' /\ CallsOK' /\ RemoteOK'
    BY <1>1, NextType, NextCalls, NextRemote
  <1>3. CASE Next
    BY <1>1, <1>2, <1>3, NextQuiet, NextFresh DEF IInv
  <1>4. CASE UNCHANGED vars
    <2>1. QuietOK'
      BY <1>1, <1>4 DEF vars, QuietOK, NoWrites, Listed
    <2>2. FreshInv'
      <3>1. \A c \in Clients : Coming(c)' = Coming(c) /\ Stored(c)' = Stored(c) /\ Unsent(c)' = Unsent(c)
        BY <1>4 DEF vars, Coming, ComingOf, Stored, Unsent
      <3>2. ASSUME NEW c \in Clients, OnItsWay(c) PROVE OnItsWay(c)'
        BY <1>4, <3>1, <3>2 DEF vars, OnItsWay, Ordered
      <3> QED
        BY <1>1, <1>4, <3>2 DEF vars, FreshInv, FreshOK
    <2> QED
      BY <1>2, <2>1, <2>2 DEF IInv
  <1> QED
    BY <1>3, <1>4

\* Whatever clients call at once: a write is on its way in the order it was accepted, calls
\* keep to their own steps, and a container holds nothing while it is not there.
THEOREM StoresInductive == Spec => []IInv
  <1> QED
    BY InitIInv, NextIInv, PTL DEF Spec

\* upsert of the adapters: a write that returned has landed whole, hosted or not, its last id
\* new to the store and its index not dropped meanwhile, however the service delays it and
\* whatever other clients do.
THEOREM FreshWritesAreWhole == Spec => []FreshUpsertIsVisible
  <1>1. IInv => FreshUpsertIsVisible
    <2> SUFFICES ASSUME IInv, NEW c \in Clients, now[c].call = "upsert", result[c].is = "done",
                        ~landed[c].stale, ~landed[c].dropped
                 PROVE  landed[c].seen = {now[c].docs[i] : i \in DOMAIN now[c].docs}
      BY DEF FreshUpsertIsVisible
    <2> QED
      BY DEF IInv, FreshInv, FreshOK, Told
  <1> QED
    BY <1>1, StoresInductive, PTL

\* delete_tenant of the adapters: once one has returned undisturbed nothing is left, and
\* nothing comes back until a write begins.
THEOREM ErasedStays == Spec => []ErasedStaysErased
  <1>1. IInv => ErasedStaysErased
    BY DEF IInv, QuietOK, ErasedStaysErased
  <1> QED
    BY <1>1, StoresInductive, PTL

\* The steps of a call that is at its read.
LEMMA ReadSteps ==
    ASSUME TypeOK, CallsOK, FreshInv, Next, NEW c \in Clients, now[c].at = "read",
           result'[c].is = "hits"
    PROVE  Query(c) \/ FetchChecked(c) \/ FetchFiltered(c)
  <1>1. result'[c] # result[c]
    BY DEF CallsOK, CallOK
  <1>2. ASSUME NEW e \in Clients, Step(e) PROVE e = c
    BY <1>1, <1>2, StepMoves DEF Moves, Kept
  <1>3. ASSUME Step(c) PROVE Query(c) \/ FetchChecked(c) \/ FetchFiltered(c)
    <2>1. ~Raise(c)
      <3>1. Raise(c) => result'[c].is = "error"
        BY DEF Raise, Answer, Outcome, TypeOK
      <3> QED
        BY <3>1
    <2> QED
      BY <1>3, <2>1, WhichStep
         DEF EnsureLook, EnsureCreate, Applied, Accepted, PineconeSettle, AzureSettle, ReadLook,
             DeleteLook, Drop, AzureDrop, PgvectorDelete, PineconeDelete, PineconeGone, AzureGone
  <1>4. ASSUME NEW e \in Clients, NEW docs \in {Docs, <<Docs[1]>>}, NEW user \in Owners,
               NEW call \in {"upsert", "query", "fetch", "delete"}, Begin(e, call, docs, user)
        PROVE  FALSE
    <2>1. result'[e].is = "none" /\ \A x \in Clients \ {e} : result'[x] = result[x]
      BY <1>4, BeginType
    <2> QED
      BY <1>1, <2>1
  <1>5. ~Apply /\ ~ApplyDrop
    BY <1>1 DEF Apply, ApplyDrop
  <1> QED
    BY <1>2, <1>3, <1>4, <1>5 DEF Next

\* query and fetch of the adapters: a user's read returns nothing of another user, and is not
\* left empty-handed by the nearer documents of others, whatever the call's k.
THEOREM UserScopeIsKept == Spec => UserScopeHolds
  <1> DEFINE Scoped(c) ==
          LET user == now[c].user
          IN  now[c].at = "read" /\ user_scoped /\ user # NoUser /\ result'[c].is = "hits" =>
                 /\ \A d \in result'[c].hits : store[d].owner \in {user, TENANT_LEVEL}
                 /\ now[c].call = "query" /\ (\E d \in DocIds : Visible(d, user)) =>
                       result'[c].hits # {}
  <1>1. ASSUME IInv, Next, NEW c \in Clients PROVE Scoped(c)
    <2> SUFFICES ASSUME now[c].at = "read", user_scoped, now[c].user # NoUser,
                        result'[c].is = "hits"
                 PROVE  /\ \A d \in result'[c].hits : Visible(d, now[c].user)
                        /\ now[c].call = "query" /\ (\E d \in DocIds : Visible(d, now[c].user)) =>
                              result'[c].hits # {}
      BY DEF Visible
    <2>1. Query(c) \/ FetchChecked(c) \/ FetchFiltered(c)
      BY <1>1, ReadSteps DEF IInv
    <2>2. ASSUME NEW hits, Found(c, hits) PROVE result'[c].hits = hits
      BY <1>1, <2>2 DEF Found, Outcome, IInv, TypeOK
    <2>3. CASE Query(c)
      <3> DEFINE seen == {d \in DocIds : Visible(d, now[c].user)}
      <3>1. PICK hits \in QueryHits(now[c].user) : Found(c, hits)
        BY <2>3 DEF Query
      <3>2. hits \subseteq seen /\ (Cardinality(hits) = K \/ hits = seen)
        BY DEF QueryHits
      <3>3. hits = {} => hits = seen
        BY <3>2, FS_EmptySet, BoundsAssumed
      <3> QED
        BY <2>2, <3>1, <3>2, <3>3
    <2>4. CASE FetchChecked(c) \/ FetchFiltered(c)
      <3>1. now[c].call = "fetch"
        BY <2>4 DEF FetchChecked, FetchFiltered
      <3>2. \E hits \in SUBSET {d \in DocIds \cup {now[c].docs[1]} : Visible(d, now[c].user)} : Found(c, hits)
        BY <2>4 DEF FetchChecked, FetchFiltered
      <3> QED
        BY <2>2, <3>1, <3>2
    <2> QED
      BY <2>1, <2>3, <2>4
  <1>2. IInv /\ [Next]_vars => [\A c \in Clients : Scoped(c)]_vars
    BY <1>1
  <1> QED
    BY <1>2, StoresInductive, PTL DEF Spec, UserScopeHolds

=============================================================================
