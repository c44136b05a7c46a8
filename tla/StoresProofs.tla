----------------------------- MODULE StoresProofs -----------------------------
(***************************************************************************)
(* What a run leans on beside the vector stores keeps its promises for     *)
(* every value of the constants.                                           *)
(*                                                                         *)
(* The embedder bridge: one vector per text, of the mode its store needs,  *)
(* and no batch paid for twice, whatever the corpus and plan, batch size,  *)
(* number of threads and failure.  IInv says that a text is looked for     *)
(* only while it can still be of one mode, and counts who is under way for *)
(* a text with who paid for it.                                            *)
(*                                                                         *)
(* The other stores of an erasure: "absent" and "deleted" are said only of *)
(* what is gone.  SurfaceInv says that the listing a purge goes by, and    *)
(* the versioning an adapter has read, still cover all there is.           *)
(*                                                                         *)
(* The KV-cache timing probe: a gap is the owner's doing, and all of it.   *)
(***************************************************************************)
EXTENDS Embedder, KvTiming, SurfaceStores, FiniteSetTheorems, TLAPS

-----------------------------------------------------------------------------
(* The embedder bridge. *)

Modes == {"query", "document"}

Shapes ==
    /\ stage \in Stages /\ todo \subseteq Texts
    /\ documents \subseteq Texts /\ queries \subseteq Texts
    /\ call \in [Workers -> [at : {"rest", "look"} \cup Modes, text : Texts]]
    /\ paid \in [Texts -> Nat]
    /\ batched \subseteq Embedded

\* What a stage has left to do, and what cannot have happened before it.
ByStage ==
    /\ stage \notin {"load", "suite", "ended"} => \A w \in Workers : call[w].at = "rest"
    /\ stage \in {"prefetch", "load"} => query_texts = {} /\ queries = {}
    /\ stage = "prefetch" => todo \subseteq Corpus \ documents
    /\ stage = "load" =>
          /\ todo \subseteq Corpus
          /\ \A t \in Corpus : \/ t \in todo \cup documents
                               \/ \E w \in Workers : call[w].at # "rest" /\ call[w].text = t
    /\ stage = "register" => todo \subseteq Planned \ Embedded
    /\ stage = "plant" => todo \subseteq Planted \ documents
    /\ stage \in {"register", "plant"} => queries \subseteq batched
    /\ stage \in {"register", "plant", "suite"} => query_texts = Planned
    /\ stage \notin {"suite", "ended"} => \A t \in Texts : <<t, "query">> \notin served

\* Queries are registered all at once, when the corpus is indexed.
Registered ==
    /\ query_texts # {} => query_texts = Planned /\ Corpus \subseteq documents
    /\ queries \subseteq query_texts \ Corpus
    /\ \A t \in documents : t \notin Planned \ (Corpus \cup Planted)

\* A call under way asks for a text in the one mode it can still have.
UnderWay ==
    \A w \in Workers :
        LET t == call[w].text
        IN /\ call[w].at # "rest" => t \in Corpus \/ query_texts = Planned
           /\ call[w].at = "query" => t \in query_texts \ documents
           /\ call[w].at = "document" => t \notin query_texts /\ t \notin Planned \ Corpus

\* What the store holds is in the table it came from, and not ahead of it.
ServedOnce ==
    \A t \in Texts :
        /\ <<t, "document">> \in served => t \in documents
        /\ <<t, "query">> \in served => t \in queries \ documents

Asking(t) == {w \in Workers : call[w].text = t /\ call[w].at \in Modes}

\* Whoever is still under way for a text may pay for it too, but for no text of a batch.
Accounted ==
    \A t \in Texts :
        /\ t \notin Embedded => paid[t] = 0
        /\ t \in Embedded \ batched => paid[t] + Cardinality(Asking(t)) <= Cardinality(Workers)
        /\ t \in batched => /\ Asking(t) = {}
                            /\ \/ paid[t] = 1
                               \/ t \in Both \cap documents \cap queries /\ paid[t] = 2

IInv == Shapes /\ ByStage /\ Registered /\ UnderWay /\ ServedOnce /\ Accounted

-----------------------------------------------------------------------------
(* The initial states, and the steps of the command. *)

LEMMA InitHolds == ASSUME BridgeInit PROVE IInv
  <1>1. Corpus \subseteq Texts /\ AtRest \in [at : {"rest", "look"} \cup Modes, text : Texts]
    BY CorpusAssumed DEF AtRest, Texts
  <1>2. Shapes
    BY <1>1 DEF BridgeInit, Shapes, Stages, Following, Embedded
  <1>3. \A w \in Workers : call[w].at = "rest"
    BY DEF BridgeInit, AtRest
  <1>4. ByStage /\ Registered /\ UnderWay /\ ServedOnce
    BY <1>3 DEF BridgeInit, ByStage, Registered, UnderWay, ServedOnce
  <1>5. Accounted
    BY DEF BridgeInit, Accounted, Embedded
  <1> QED
    BY <1>2, <1>4, <1>5 DEF IInv

\* A batch of texts that have no vector of that mode yet.
LEMMA FillHolds == ASSUME IInv, FillBatch PROVE IInv'
  <1> USE DEF IInv
  <1>1. PICK chunk \in Chunks : /\ todo' = todo \ chunk
                               /\ Keep(chunk, Cache)
                               /\ batched' = batched \cup chunk
    BY DEF FillBatch
  <1>2. /\ stage \in {"prefetch", "register", "plant"}
        /\ UNCHANGED <<stage, query_texts, call, embeds, served>>
    BY DEF FillBatch
  <1>3. chunk \subseteq todo /\ chunk # {} /\ chunk \subseteq Texts
    BY DEF Chunks, Shapes
  <1>4. \A w \in Workers : call[w].at = "rest"
    BY <1>2 DEF ByStage
  <1>5. \A t : Asking(t) = {}
    BY <1>4 DEF Asking, Modes
  <1>6. /\ documents' = IF stage = "register" THEN documents ELSE documents \cup chunk
        /\ queries' = IF stage = "register" THEN queries \cup chunk ELSE queries
        /\ paid' = [t \in Texts |-> paid[t] + (IF t \in chunk THEN 1 ELSE 0)]
    BY <1>1, <1>2 DEF Keep, Cache
  <1>7. stage = "register" => chunk \subseteq Planned \ Embedded /\ Corpus \subseteq documents
    BY <1>2, <1>3 DEF ByStage, Registered
  <1>8. stage = "prefetch" => chunk \subseteq Corpus \ documents /\ queries = {}
    BY <1>2, <1>3 DEF ByStage
  <1>9. stage = "plant" => chunk \subseteq Planted \ documents /\ queries \subseteq batched
    BY <1>2, <1>3 DEF ByStage
  <1>10. Shapes'
    <2>1. paid' \in [Texts -> Nat]
      BY <1>6 DEF Shapes
    <2>2. /\ todo' \subseteq Texts /\ documents' \subseteq Texts /\ queries' \subseteq Texts
          /\ batched' \subseteq documents' \cup queries'
      BY <1>1, <1>3, <1>6 DEF Shapes, Embedded
    <2> QED
      BY <1>2, <2>1, <2>2 DEF Shapes, Embedded
  <1>11. ByStage'
    BY <1>1, <1>2, <1>6, <1>7 DEF ByStage, Embedded
  <1>12. Registered' /\ ServedOnce'
    <2>1. query_texts # {} => query_texts = Planned /\ Corpus \subseteq documents'
      BY <1>6 DEF Registered
    <2>2. queries' \subseteq query_texts \ Corpus
      BY <1>2, <1>6, <1>7 DEF Registered, ByStage, Embedded
    <2>3. \A t \in documents' : t \notin Planned \ (Corpus \cup Planted)
      BY <1>2, <1>6, <1>8, <1>9 DEF Registered
    <2>4. ServedOnce'
      BY <1>2, <1>6 DEF ServedOnce, ByStage
    <2> QED
      BY <1>2, <2>1, <2>2, <2>3, <2>4 DEF Registered
  <1>13. UnderWay'
    BY <1>2, <1>4 DEF UnderWay
  <1>14. Accounted'
    <2> SUFFICES ASSUME NEW t \in Texts
                 PROVE  /\ t \notin Embedded' => paid'[t] = 0
                        /\ t \in Embedded' \ batched' =>
                              paid'[t] + Cardinality(Asking(t)) <= Cardinality(Workers)
                        /\ t \in batched' =>
                              /\ Asking(t) = {}
                              /\ \/ paid'[t] = 1
                                 \/ t \in Both \cap documents' \cap queries' /\ paid'[t] = 2
      BY <1>2 DEF Accounted, Asking
    <2>1. paid[t] \in Nat
      BY DEF Shapes
    <2>2. CASE t \notin chunk
      BY <1>1, <1>6, <2>1, <2>2 DEF Accounted, Embedded
    <2>3. CASE t \in chunk
      <3>1. paid'[t] = paid[t] + 1 /\ t \in batched' /\ t \in Embedded'
        BY <1>1, <1>6, <2>3 DEF Embedded
      <3>2. CASE t \notin Embedded
        BY <1>5, <3>1, <3>2, <2>1 DEF Accounted
      <3>3. CASE t \in Embedded
        <4>1. stage = "plant" /\ t \in Planted \ documents /\ t \in queries \cap batched
          BY <1>2, <1>7, <1>8, <1>9, <2>3, <3>3 DEF Embedded
        <4>2. t \in Both
          BY <4>1 DEF Both, Registered, ByStage
        <4>3. paid[t] = 1
          BY <4>1 DEF Accounted
        <4>4. t \in documents' /\ t \in queries'
          BY <1>6, <2>3, <4>1
        <4> QED
          BY <1>5, <3>1, <4>2, <4>3, <4>4
      <3> QED
        BY <3>2, <3>3
    <2> QED
      BY <2>2, <2>3
  <1> QED
    BY <1>10, <1>11, <1>12, <1>13, <1>14

\* A batch failed, or the stage is done: the next one begins.
LEMMA EnterHolds ==
    ASSUME IInv, FillFails \/ Filled
    PROVE  IInv'
  <1> USE DEF IInv
  <1>1. /\ stage \in {"prefetch", "register", "plant", "load"}
        /\ Enter(Following[stage])
        /\ UNCHANGED <<documents, queries, call, embeds, served, paid, batched>>
        /\ stage = "load" => todo = {}
    BY DEF FillFails, Filled
  <1>2. \A w \in Workers : call[w].at = "rest"
    BY DEF FillFails, Filled, ByStage
  <1>3. /\ stage = "prefetch" => stage' = "load" /\ todo' = Corpus
        /\ stage = "load" => stage' = "register" /\ todo' = Planned \ Embedded
        /\ stage = "register" => stage' = "plant" /\ todo' = Planted \ documents
        /\ stage = "plant" => stage' = "suite" /\ todo' = {}
    BY <1>1 DEF Enter, Following, MissingDocuments, MissingQueries
  <1>4. query_texts' = IF stage = "load" THEN query_texts \cup Planned ELSE query_texts
    BY <1>1 DEF Enter, Register, Following
  <1>5. stage = "load" => Corpus \subseteq documents /\ query_texts = {}
    BY <1>1, <1>2 DEF ByStage
  <1>6. Shapes'
    BY <1>1, <1>3 DEF Shapes, Stages, Following, Texts, Embedded
  <1>7. ByStage'
    BY <1>1, <1>2, <1>3, <1>4, <1>5 DEF ByStage, Embedded
  <1>8. Registered'
    BY <1>1, <1>4, <1>5 DEF Registered, ByStage
  <1>9. UnderWay' /\ ServedOnce'
    BY <1>1, <1>2 DEF UnderWay, ServedOnce
  <1>10. Accounted'
    BY <1>1 DEF Accounted, Asking, Embedded
  <1> QED
    BY <1>6, <1>7, <1>8, <1>9, <1>10

-----------------------------------------------------------------------------
(* The steps of the workers. *)

\* A worker that takes a text has not asked for it yet.
LEMMA TakeHolds ==
    ASSUME IInv, NEW w \in Workers, NEW t \in Texts,
           Load(w) \/ Ask(w, t)
    PROVE  IInv'
  <1> USE DEF IInv
  <1>1. PICK u \in Texts :
            /\ CallEmbedder(w, u)
            /\ \/ /\ stage = "load" /\ u \in todo /\ todo' = todo \ {u}
                  /\ \A v \in Workers : call[v].at = "rest"
               \/ stage = "suite" /\ todo' = todo
    BY DEF Load, Ask, Shapes
  <1>2. UNCHANGED <<stage, documents, queries, query_texts, served, paid, batched>>
    BY DEF Load, Ask
  <1>3. call[w].at = "rest" /\ call' = [call EXCEPT ![w] = [at |-> "look", text |-> u]]
    BY <1>1 DEF CallEmbedder
  <1>4. /\ call'[w] = [at |-> "look", text |-> u]
        /\ \A v \in Workers : v # w => call'[v] = call[v]
    BY <1>3 DEF Shapes
  <1>5. Shapes'
    BY <1>1, <1>2, <1>3 DEF Shapes, Embedded
  <1>6. ByStage'
    BY <1>1, <1>2, <1>3, <1>4 DEF ByStage
  <1>7. Registered' /\ ServedOnce'
    BY <1>2 DEF Registered, ServedOnce
  <1>8. UnderWay'
    BY <1>1, <1>2, <1>4 DEF UnderWay, ByStage
  <1>9. \A x : Asking(x)' = Asking(x)
    BY <1>3, <1>4 DEF Asking, Modes
  <1>10. Accounted'
    BY <1>2, <1>9 DEF Accounted, Embedded
  <1> QED
    BY <1>5, <1>6, <1>7, <1>8, <1>10

\* A worker that finds the text in a table is served it; else it asks in the text's mode.
LEMMA LookHolds == ASSUME IInv, NEW w \in Workers, Look(w) PROVE IInv'
  <1> USE DEF IInv
  <1> DEFINE t == call[w].text
  <1>1. /\ call[w].at = "look" /\ t \in Texts
        /\ UNCHANGED <<stage, todo, documents, queries, query_texts, paid, batched>>
    BY DEF Look, Shapes
  <1>2. t \in Corpus \/ query_texts = Planned
    BY <1>1 DEF UnderWay
  <1>3. CASE t \in documents \/ t \in queries
    <2>1. PICK mode \in Modes :
              /\ Serve(w, mode)
              /\ mode = IF t \in documents THEN "document" ELSE "query"
      BY <1>3 DEF Look, Modes
    <2>2. served' = served \cup {<<t, mode>>} /\ call' = [call EXCEPT ![w].at = "rest"]
      BY <2>1 DEF Serve
    <2>3. /\ call'[w].at = "rest" /\ call'[w].text = t
          /\ \A v \in Workers : v # w => call'[v] = call[v]
      BY <2>2 DEF Shapes
    <2>4. Shapes'
      BY <1>1, <2>2 DEF Shapes, Embedded
    <2>5. stage \notin {"suite", "ended"} => mode = "document" /\ t \in documents
      BY <1>1, <1>3, <2>1 DEF ByStage
    <2>6. ByStage'
      BY <1>1, <2>2, <2>3, <2>5 DEF ByStage
    <2>7. Registered' /\ UnderWay'
      BY <1>1, <2>3 DEF Registered, UnderWay
    <2>8. ServedOnce'
      BY <1>1, <1>3, <2>1, <2>2 DEF ServedOnce, Modes
    <2>9. \A x : Asking(x)' = Asking(x)
      BY <1>1, <2>3 DEF Asking, Modes
    <2>10. Accounted'
      BY <1>1, <2>9 DEF Accounted, Embedded
    <2> QED
      BY <2>4, <2>6, <2>7, <2>8, <2>10
  <1>4. CASE t \notin documents /\ t \notin queries
    <2> DEFINE mode == IF t \in query_texts THEN "query" ELSE "document"
    <2>1. call' = [call EXCEPT ![w].at = mode] /\ UNCHANGED served
      BY <1>4 DEF Look
    <2>2. /\ call'[w].at = mode /\ call'[w].text = t
          /\ \A v \in Workers : v # w => call'[v] = call[v]
      BY <2>1 DEF Shapes
    <2>3. Shapes'
      BY <1>1, <2>1 DEF Shapes, Embedded, Modes
    <2>4. ByStage'
      BY <1>1, <2>1, <2>2 DEF ByStage
    <2>5. Registered' /\ ServedOnce'
      BY <1>1, <2>1 DEF Registered, ServedOnce
    <2>6. UnderWay'
      BY <1>1, <1>2, <1>4, <2>2 DEF UnderWay
    <2>7. \A x : x # t => Asking(x)' = Asking(x)
      BY <2>2 DEF Asking
    <2>8. Accounted'
      <3>1. t \notin Embedded /\ t \notin batched
        BY <1>4 DEF Embedded, Shapes
      <3> QED
        BY <1>1, <2>7, <3>1 DEF Accounted, Embedded
    <2> QED
      BY <2>3, <2>4, <2>5, <2>6, <2>8
  <1> QED
    BY <1>3, <1>4

\* A worker that paid for a text is no longer asking for it.
LEMMA PaidFor ==
    ASSUME IInv, NEW w \in Workers, NEW t \in Texts, w \in Asking(t)
    PROVE  /\ t \notin batched
           /\ paid[t] + 1 + Cardinality(Asking(t) \ {w}) <= Cardinality(Workers)
  <1> USE DEF IInv
  <1>1. IsFiniteSet(Workers) /\ Asking(t) \subseteq Workers
    BY WorkersAssumed DEF Asking
  <1>2. IsFiniteSet(Asking(t)) /\ Cardinality(Asking(t)) <= Cardinality(Workers)
    BY <1>1, FS_Subset
  <1>3. /\ Cardinality(Asking(t) \ {w}) = Cardinality(Asking(t)) - 1
        /\ Cardinality(Asking(t)) \in Nat /\ Cardinality(Workers) \in Nat
    BY <1>1, <1>2, FS_RemoveElement, FS_CardinalityType
  <1>4. t \notin batched
    BY DEF Accounted
  <1>5. paid[t] \in Nat /\ (t \notin Embedded => paid[t] = 0)
    BY DEF Accounted, Shapes
  <1>6. t \in Embedded => paid[t] + Cardinality(Asking(t)) <= Cardinality(Workers)
    BY <1>4 DEF Accounted
  <1> QED
    BY <1>2, <1>3, <1>4, <1>5, <1>6

\* The vector is kept in the table of its mode, and the store is handed it.
LEMMA DemandHolds == ASSUME IInv, NEW w \in Workers, EmbedOnDemand(w) PROVE IInv'
  <1> USE DEF IInv
  <1> DEFINE t == call[w].text
             mode == call[w].at
  <1>1. /\ mode \in Modes /\ t \in Texts
        /\ UNCHANGED <<stage, todo, query_texts, batched>>
    BY DEF EmbedOnDemand, Shapes, Modes
  <1>2. /\ served' = served \cup {<<t, mode>>}
        /\ call' = [call EXCEPT ![w].at = "rest"]
    BY DEF EmbedOnDemand, Serve
  <1>3. /\ documents' = IF mode = "document" THEN documents \cup {t} ELSE documents
        /\ queries' = IF mode = "query" THEN queries \cup {t} ELSE queries
        /\ paid' = [x \in Texts |-> paid[x] + (IF x \in {t} THEN 1 ELSE 0)]
    BY <1>1 DEF EmbedOnDemand, Keep, Modes
  <1>4. /\ call'[w].at = "rest" /\ call'[w].text = t
        /\ \A v \in Workers : v # w => call'[v] = call[v]
    BY <1>2 DEF Shapes
  <1>5. stage \in {"load", "suite", "ended"}
    BY <1>1 DEF ByStage, Shapes, Stages, Following, Modes
  <1>6. mode = "query" => t \in query_texts \ documents /\ Corpus \subseteq documents
    BY DEF UnderWay, Registered
  <1>7. mode = "document" => t \notin query_texts /\ t \notin Planned \ Corpus
    BY DEF UnderWay
  <1>8. Shapes'
    <2>1. paid' \in [Texts -> Nat]
      BY <1>3 DEF Shapes
    <2> QED
      BY <1>1, <1>2, <1>3, <2>1 DEF Shapes, Embedded
  <1>9. ByStage'
    <2>1. stage = "load" => mode = "document"
      BY <1>1, <1>6 DEF ByStage, Modes
    <2> QED
      BY <1>1, <1>2, <1>3, <1>4, <1>5, <2>1 DEF ByStage
  <1>10. Registered'
    <2>1. query_texts # {} => query_texts = Planned /\ Corpus \subseteq documents'
      BY <1>3 DEF Registered
    <2>2. queries' \subseteq query_texts \ Corpus
      BY <1>3, <1>6 DEF Registered
    <2>3. \A x \in documents' : x \notin Planned \ (Corpus \cup Planted)
      BY <1>3, <1>7 DEF Registered
    <2> QED
      BY <1>1, <2>1, <2>2, <2>3 DEF Registered
  <1>11. UnderWay'
    BY <1>1, <1>3, <1>4, <1>7 DEF UnderWay
  <1>12. ServedOnce'
    BY <1>1, <1>2, <1>3, <1>6, <1>7 DEF ServedOnce, Registered, Modes
  <1>13. Accounted'
    <2>1. \A x : Asking(x)' = IF x = t THEN Asking(t) \ {w} ELSE Asking(x)
      BY <1>4 DEF Asking, Modes
    <2>2. w \in Asking(t)
      BY <1>1 DEF Asking
    <2>3. /\ t \notin batched
          /\ paid[t] + 1 + Cardinality(Asking(t) \ {w}) <= Cardinality(Workers)
      BY <1>1, <2>2, PaidFor
    <2> SUFFICES ASSUME NEW x \in Texts
                 PROVE  /\ x \notin Embedded' => paid'[x] = 0
                        /\ x \in Embedded' \ batched =>
                              paid'[x] + Cardinality(Asking(x)') <= Cardinality(Workers)
                        /\ x \in batched =>
                              /\ Asking(x)' = {}
                              /\ \/ paid'[x] = 1
                                 \/ x \in Both \cap documents' \cap queries' /\ paid'[x] = 2
      BY <1>1 DEF Accounted
    <2>4. CASE x = t
      <3>1. paid'[x] = paid[x] + 1 /\ x \in Embedded' /\ Asking(x)' = Asking(t) \ {w}
        BY <1>1, <1>3, <2>1, <2>4 DEF Embedded, Modes
      <3> QED
        BY <2>3, <2>4, <3>1
    <2>5. CASE x # t
      <3>1. paid'[x] = paid[x] /\ Asking(x)' = Asking(x)
        BY <1>3, <2>1, <2>5 DEF Shapes
      <3>2. (x \in documents' <=> x \in documents) /\ (x \in queries' <=> x \in queries)
        BY <1>3, <2>5
      <3> QED
        BY <3>1, <3>2 DEF Accounted, Embedded
    <2> QED
      BY <2>4, <2>5
  <1> QED
    BY <1>8, <1>9, <1>10, <1>11, <1>12, <1>13

\* A provider that fails on demand, and the end of the suite, ask for nothing more.
LEMMA EndHolds ==
    ASSUME IInv,
           (\E w \in Workers : DemandFails(w)) \/ Finish
    PROVE  IInv'
  <1> USE DEF IInv
  <1>1. /\ stage' = "ended"
        /\ UNCHANGED <<todo, documents, queries, query_texts, served, paid, batched>>
        /\ \/ call' = call
           \/ \E w \in Workers : call' = [call EXCEPT ![w].at = "rest"]
    BY DEF DemandFails, Finish
  <1>2. \A v \in Workers : \/ call'[v] = call[v]
                          \/ (call'[v].at = "rest" /\ call'[v].text = call[v].text)
    BY <1>1 DEF Shapes
  <1>3. Shapes'
    BY <1>1 DEF Shapes, Stages, Embedded
  <1>4. ByStage'
    BY <1>1 DEF ByStage
  <1>5. Registered' /\ UnderWay' /\ ServedOnce'
    BY <1>1, <1>2 DEF Registered, UnderWay, ServedOnce
  <1>6. \A t : Asking(t)' \subseteq Asking(t)
    BY <1>2 DEF Asking, Modes
  <1>7. Accounted'
    <2> SUFFICES ASSUME NEW t \in Texts
                 PROVE  /\ t \in Embedded \ batched =>
                              paid[t] + Cardinality(Asking(t)') <= Cardinality(Workers)
                        /\ t \in batched => Asking(t)' = {}
      BY <1>1 DEF Accounted, Embedded
    <2>1. IsFiniteSet(Workers) /\ Asking(t) \subseteq Workers
      BY WorkersAssumed DEF Asking
    <2>2. /\ Cardinality(Asking(t)') <= Cardinality(Asking(t))
          /\ Cardinality(Asking(t)') \in Nat /\ Cardinality(Asking(t)) \in Nat
          /\ Cardinality(Workers) \in Nat
      BY <1>6, <2>1, FS_Subset, FS_CardinalityType
    <2> QED
      BY <1>6, <2>2 DEF Accounted, Shapes
  <1> QED
    BY <1>3, <1>4, <1>5, <1>7

-----------------------------------------------------------------------------
LEMMA StutterHolds == ASSUME IInv, UNCHANGED bridgeVars PROVE IInv'
  <1> USE DEF IInv
  <1>1. UNCHANGED <<stage, todo, documents, queries, query_texts, call, served, paid, batched>>
    BY DEF bridgeVars
  <1>2. Shapes'
    BY <1>1 DEF Shapes, Embedded
  <1>3. ByStage'
    BY <1>1 DEF ByStage, Embedded
  <1>4. Registered' /\ UnderWay' /\ ServedOnce'
    BY <1>1 DEF Registered, UnderWay, ServedOnce
  <1>5. Accounted'
    BY <1>1 DEF Accounted, Asking, Embedded
  <1> QED
    BY <1>2, <1>3, <1>4, <1>5

LEMMA StepHolds == ASSUME IInv, [BridgeNext]_bridgeVars PROVE IInv'
  <1>1. CASE FillBatch
    BY <1>1, FillHolds
  <1>2. CASE FillFails \/ Filled
    BY <1>2, EnterHolds
  <1>3. ASSUME NEW w \in Workers, Load(w) PROVE IInv'
    <2>1. PICK t \in Texts : Load(w)
      BY <1>3, CorpusAssumed DEF Texts
    <2> QED
      BY <2>1, TakeHolds
  <1>4. ASSUME NEW w \in Workers, NEW t \in Planned \cup Planted \cup Unplanned, Ask(w, t)
        PROVE  IInv'
    <2>1. t \in Texts
      BY DEF Texts
    <2> QED
      BY <1>4, <2>1, TakeHolds
  <1>5. ASSUME NEW w \in Workers, Look(w) PROVE IInv'
    BY <1>5, LookHolds
  <1>6. ASSUME NEW w \in Workers, EmbedOnDemand(w) PROVE IInv'
    BY <1>6, DemandHolds
  <1>7. CASE Finish \/ \E w \in Workers : DemandFails(w)
    BY <1>7, EndHolds
  <1>8. CASE UNCHANGED bridgeVars
    BY <1>8, StutterHolds
  <1> QED
    BY <1>1, <1>2, <1>3, <1>4, <1>5, <1>6, <1>7, <1>8 DEF BridgeNext

\* The inductive invariant of the bridge: what is in a table, in flight, served and paid for
\* agree at every stage of the command, whichever requests fail (EmbedderBridge).
THEOREM BridgeInductive == BridgeSpec => []IInv
  <1>1. BridgeInit => IInv
    BY InitHolds
  <1>2. IInv /\ [BridgeNext]_bridgeVars => IInv'
    BY StepHolds
  <1> QED
    BY <1>1, <1>2, PTL DEF BridgeSpec

\* What the invariant promises of a state.
LEMMA WordKept == ASSUME IInv PROVE EmbedderKeepsItsWord
  <1> USE DEF IInv
  <1>1. OneVectorPerText
    BY DEF OneVectorPerText, ServedOnce, Registered
  <1>2. BatchesAreKept
    <2> SUFFICES ASSUME NEW t \in Texts
                 PROVE  /\ paid[t] <= Cardinality(Workers) \/ (t \in Both /\ paid[t] = 2)
                        /\ t \in batched => paid[t] = 1 \/ (t \in Both /\ paid[t] = 2)
      BY DEF BatchesAreKept
    <2>1. IsFiniteSet(Workers) /\ Asking(t) \subseteq Workers
      BY WorkersAssumed DEF Asking
    <2>2. Cardinality(Asking(t)) \in Nat /\ Cardinality(Workers) \in Nat
      BY <2>1, FS_Subset, FS_CardinalityType
    <2>3. Cardinality(Workers) >= 1
      BY <2>1, <2>2, FS_EmptySet, WorkersAssumed
    <2>4. paid[t] \in Nat
      BY DEF Shapes
    <2> QED
      BY <2>2, <2>3, <2>4 DEF Accounted, Shapes
  <1> QED
    BY <1>1, <1>2 DEF EmbedderKeepsItsWord

\* For any corpus, plan, batches and threads, and whichever requests fail: a text has one
\* vector, a query's only if it is asked and not indexed, and a batch is not paid for again
\* (EmbedderBridge.__call__ and ._fill).
THEOREM BridgeKeepsItsWord == BridgeSpec => []EmbedderKeepsItsWord
  <1>1. IInv => EmbedderKeepsItsWord
    BY WordKept
  <1> QED
    BY <1>1, BridgeInductive, PTL

-----------------------------------------------------------------------------
(* The other stores of an erasure. *)

Uses ==
    [call : {"none", "search", "delete"}, tenant : Tenants,
     user : SurfaceUsers \cup {NO_USER}, todo : SUBSET Rows]

\* No purge took another tenant's row.
SurfacesTyped ==
    /\ kind \in Kinds /\ live \subseteq Rows /\ old \subseteq Rows /\ lost = {}
    /\ op \in Uses

\* Old versions are of a bucket that is or was versioned; unless the answer is outdated,
\* a bucket read as unversioned is, and one read to have no policy has none, so that
\* nothing deleted can be restored.
VersionsAreKnown ==
    /\ versioning \in {"never", "on", "off"} /\ versioned \in {"unread", "yes", "no"}
    /\ kind \notin Backups \/ versioning = "never" => old = {}
    /\ kind \notin Backups => versioning = "never"
    /\ ~outdated =>
          /\ versioned = "no" => versioning = "never"
          /\ policy = "none" => retention = "none"
          /\ deleted = {}

\* A purge in batches has listed all that is left of the tenant, or of what is listed.
ListingIsWhole ==
    op.todo # {} =>
        /\ versioned # "unread"
        /\ Of(op.tenant) \cap live \subseteq op.todo
        /\ ~outdated => Of(op.tenant) \cap old \subseteq op.todo

SurfaceInv == SurfacesTyped /\ VersionsAreKnown /\ ListingIsWhole

\* What AbsentIsGone and PurgesAreWhole say of a step.
ScanStep ==
    op.call = "search" /\ op.user = NO_USER /\ op'.call = "none" /\ answer'.is = "absent"
      => ~HasMarker(IF outdated THEN TenantRows(op.tenant) ELSE Restorable(op.tenant))

PurgeStep ==
    op.call = "delete" =>
      /\ op'.call = "none" /\ answer'.is = "done" /\ ~soft_delete /\ ~(kind = "redis_cache" /\ shared) =>
            Of(op.tenant) \cap (live' \cup (IF outdated THEN {} ELSE old' \cup deleted')) = {}
      /\ op'.call = "none" /\ answer'.is = "unsupported" => UNCHANGED kept
      /\ lost' = {}

Kept == SurfaceInv' /\ ScanStep /\ PurgeStep

LEMMA IdleIsAUse ==
    /\ Idle \in Uses /\ Idle.call = "none" /\ Idle.todo = {}
<1>1. (CHOOSE t \in Tenants : TRUE) \in Tenants
    BY OwnersAssumed
<1> QED
    BY <1>1 DEF Idle, Uses

LEMMA ReturnHolds ==
    ASSUME NEW a, Return(a)
    PROVE  op' \in Uses /\ op'.call = "none" /\ op'.todo = {} /\ answer'.is = a
BY IdleIsAUse DEF Return

\* The versioning an adapter goes by covers whatever old versions there are.
LEMMA OldAreCovered ==
    ASSUME SurfaceInv
    PROVE  /\ versioned # "unread" /\ ~IsVersioned /\ ~outdated => old = {}
           /\ kind \notin Backups => old = {}
BY DEF SurfaceInv, VersionsAreKnown, IsVersioned

\* A scan that misses the marker on a page, and does not refuse it, saw all there is.
LEMMA ScannedHolds ==
    ASSUME SurfaceInv, op.call = "search", NEW a, Scanned(a),
           op.user = NO_USER /\ a = "absent" =>
              ~HasMarker(IF outdated THEN TenantRows(op.tenant) ELSE Restorable(op.tenant))
    PROVE  Kept
<1>1. op' \in Uses /\ op'.call = "none" /\ op'.todo = {} /\ answer'.is = a
    BY ReturnHolds DEF Scanned
<1>2. /\ kind' = kind /\ versioning' = versioning /\ row' = row
      /\ live' = live /\ old' = old /\ deleted' = deleted /\ lost' = lost
      /\ versioned' = versioned /\ policy' = policy /\ outdated' = outdated
      /\ retention' = retention
    BY DEF Scanned, config, bucket, kept, known
<1>3. SurfacesTyped'
    BY <1>1, <1>2 DEF SurfaceInv, SurfacesTyped
<1>4. VersionsAreKnown'
    BY <1>2, OldAreCovered DEF SurfaceInv, VersionsAreKnown
<1>5. ListingIsWhole'
    BY <1>1 DEF ListingIsWhole
<1>6. ScanStep /\ PurgeStep
    BY <1>1 DEF ScanStep, PurgeStep
<1> QED
    BY <1>3, <1>4, <1>5, <1>6 DEF Kept, SurfaceInv

\* What a miss says of the rows behind the page.
LEMMA MissOnAll ==
    ASSUME SurfaceInv, NEW rows, Of(op.tenant) \cap live \subseteq rows,
           ~outdated => Of(op.tenant) \cap old \subseteq rows,
           NEW partial, Judgement(rows, partial) = "absent"
    PROVE  ~HasMarker(IF outdated THEN TenantRows(op.tenant) ELSE Restorable(op.tenant))
BY DEF Judgement, HasMarker, Restorable, TenantRows, SurfaceInv, VersionsAreKnown

LEMMA PageIsWhole ==
    ASSUME NEW rows \in SUBSET Rows, NEW page \in Pages(rows), ~(Cardinality(page) >= LIMIT)
    PROVE  page = rows
<1>1. IsFiniteSet(page)
    BY RowsAssumed, FS_Subset DEF Pages
<1>2. Cardinality(page) \in Nat
    BY <1>1, FS_CardinalityType
<1> QED
    BY <1>2, LimitAssumed DEF Pages

LEMMA PageIsAll ==
    ASSUME NEW rows \in SUBSET Rows, NEW page \in Pages(rows),
           ~(Cardinality(rows) > Cardinality(page))
    PROVE  page = rows
<1>1. IsFiniteSet(rows) /\ page \subseteq rows
    BY RowsAssumed, FS_Subset DEF Pages
<1>2. /\ Cardinality(page) \in Nat /\ Cardinality(rows) \in Nat
      /\ Cardinality(page) <= Cardinality(rows)
      /\ Cardinality(page) = Cardinality(rows) => page = rows
    BY <1>1, FS_Subset, FS_CardinalityType
<1> QED
    BY <1>2

LEMMA SearchHolds ==
    ASSUME SurfaceInv, Search
    PROVE  Kept
<1>0. live \subseteq Rows /\ old \subseteq Rows
    BY DEF SurfaceInv, SurfacesTyped
<1>1. CASE S3Search
    <2>1. /\ Of(op.tenant) \cap live \subseteq S3Objects(op.tenant)
          /\ ~outdated => Of(op.tenant) \cap old \subseteq S3Objects(op.tenant)
        BY <1>1, OldAreCovered DEF S3Search, S3Objects
    <2> QED BY <1>1, <2>1, ScannedHolds, MissOnAll DEF S3Search
<1>2. CASE GcsSearch
    <2>1. Of(op.tenant) \cap (live \cup old) \subseteq GcsBlobs(op.tenant)
        BY DEF GcsBlobs
    <2> QED BY <1>2, <2>1, ScannedHolds, MissOnAll DEF GcsSearch
<1>3. CASE EvalSetSearch
    <2>1. PICK page \in Pages(TenantRows(op.tenant)) :
            Scanned(Judgement(page, Cardinality(page) >= LIMIT))
        BY <1>3 DEF EvalSetSearch
    <2>2. old = {}
        BY <1>3, OldAreCovered DEF EvalSetSearch, Backups
    <2>3. ASSUME Judgement(page, Cardinality(page) >= LIMIT) = "absent"
          PROVE  ~HasMarker(IF outdated THEN TenantRows(op.tenant) ELSE Restorable(op.tenant))
        <3>1. ~(Cardinality(page) >= LIMIT)
            BY <2>3 DEF Judgement
        <3>2. page = TenantRows(op.tenant)
            BY <3>1, <1>0, PageIsWhole DEF TenantRows
        <3>3. Of(op.tenant) \cap (live \cup old) \subseteq page
            BY <3>2, <2>2 DEF TenantRows
        <3> QED BY <2>3, <3>3, MissOnAll
    <2> QED BY <1>3, <2>1, <2>3, ScannedHolds DEF EvalSetSearch
<1>4. CASE SearchIndexSearch
    <2> DEFINE matches == Overlapping(TenantRows(op.tenant))
    <2>1. PICK page \in Pages(matches) :
            Scanned(Judgement(page, Cardinality(matches) > Cardinality(page)))
        BY <1>4 DEF SearchIndexSearch
    <2>2. old = {}
        BY <1>4, OldAreCovered DEF SearchIndexSearch, Backups
    <2>3. ASSUME Judgement(page, Cardinality(matches) > Cardinality(page)) = "absent"
          PROVE  ~HasMarker(IF outdated THEN TenantRows(op.tenant) ELSE Restorable(op.tenant))
        <3>1. ~(Cardinality(matches) > Cardinality(page)) /\ ~HasMarker(page)
            BY <2>3 DEF Judgement
        <3>2. matches \in SUBSET Rows
            BY <1>0 DEF Overlapping, TenantRows
        <3>3. page = matches
            BY <3>1, <3>2, PageIsAll
        <3>4. \A r \in Of(op.tenant) \cap (live \cup old) : row[r].text = "marker" => r \in page
            BY <3>3, <2>2 DEF Overlapping, TenantRows
        <3> QED BY <3>1, <3>4 DEF HasMarker, Restorable, TenantRows, SurfaceInv, VersionsAreKnown
    <2> QED BY <1>4, <2>1, <2>3, ScannedHolds DEF SearchIndexSearch
<1>5. CASE Mem0Recall
    <2>1. PICK page \in Pages(Mem0Scope(op.tenant)) :
            Scanned(Judgement(page, Cardinality(page) >= LIMIT))
        BY <1>5 DEF Mem0Recall
    <2>2. old = {}
        BY <1>5, OldAreCovered DEF Mem0Recall, Backups
    <2>3. ASSUME Judgement(page, Cardinality(page) >= LIMIT) = "absent"
          PROVE  ~HasMarker(IF outdated THEN TenantRows(op.tenant) ELSE Restorable(op.tenant))
        <3>1. ~(Cardinality(page) >= LIMIT)
            BY <2>3 DEF Judgement
        <3>2. page = Mem0Scope(op.tenant)
            BY <3>1, <1>0, PageIsWhole DEF Mem0Scope
        <3>3. Of(op.tenant) \cap (live \cup old) \subseteq page
            BY <3>2, <2>2 DEF Mem0Scope
        <3> QED BY <2>3, <3>3, MissOnAll
    <2> QED BY <1>5, <2>1, <2>3, ScannedHolds DEF Mem0Recall
<1>6. CASE RedisRecall
    <2>1. op.user = NO_USER => Of(op.tenant) \cap (live \cup old) \subseteq RedisEntries(op.tenant, op.user)
        BY <1>6, OldAreCovered DEF RedisRecall, RedisEntries, Backups
    <2> QED BY <1>6, <2>1, ScannedHolds, MissOnAll DEF RedisRecall
<1>7. CASE CacheValues
    <2>1. Of(op.tenant) \cap (live \cup old) \subseteq RedisValues(op.tenant)
        BY <1>7, OldAreCovered DEF CacheValues, RedisValues, Backups
    <2> QED BY <1>7, <2>1, ScannedHolds, MissOnAll DEF CacheValues
<1> QED
    BY <1>1, <1>2, <1>3, <1>4, <1>5, <1>6, <1>7 DEF Search

\* A purge in one go takes what it is given, of the tenant.
LEMMA PurgedHolds ==
    ASSUME SurfaceInv, op.call = "delete", NEW a, NEW rows, Purged(a, rows),
           rows \subseteq Of(op.tenant), a = "unsupported" => rows = {},
           a = "done" /\ ~soft_delete /\ ~(kind = "redis_cache" /\ shared) =>
              Of(op.tenant) \cap (live \cup old) \subseteq rows
    PROVE  Kept
<1>1. op' \in Uses /\ op'.call = "none" /\ op'.todo = {} /\ answer'.is = a
    BY ReturnHolds DEF Purged
<1>2. /\ kind' = kind /\ versioning' = versioning /\ row' = row /\ versioned' = versioned
      /\ live' = live \ rows /\ old' = old \ rows /\ deleted' = deleted /\ lost' = lost
      /\ policy' = policy /\ retention' = retention /\ outdated' = outdated
    BY DEF Purged, config, bucket, known
<1>3. SurfacesTyped' /\ VersionsAreKnown' /\ ListingIsWhole'
    BY <1>1, <1>2 DEF SurfaceInv, SurfacesTyped, VersionsAreKnown, ListingIsWhole
<1>4. ScanStep
    BY DEF ScanStep
<1>5. PurgeStep
    <2>1. lost' = {}
        BY <1>2 DEF SurfaceInv, SurfacesTyped
    <2>2. a = "unsupported" => UNCHANGED kept
        BY <1>2 DEF kept
    <2>3. a = "done" /\ ~soft_delete /\ ~(kind = "redis_cache" /\ shared) =>
            Of(op.tenant) \cap (live' \cup (IF outdated THEN {} ELSE old' \cup deleted')) = {}
        BY <1>2 DEF SurfaceInv, VersionsAreKnown
    <2> QED BY <1>1, <2>1, <2>2, <2>3 DEF PurgeStep
<1> QED
    BY <1>3, <1>4, <1>5 DEF Kept, SurfaceInv

LEMMA S3ListHolds ==
    ASSUME SurfaceInv, S3List
    PROVE  Kept
<1> DEFINE objects == S3Objects(op.tenant)
<1>1. /\ op.call = "delete" /\ kind' = kind /\ versioning' = versioning /\ row' = row
      /\ live' = live /\ old' = old /\ deleted' = deleted /\ lost' = lost
      /\ versioned' = versioned /\ policy' = policy /\ retention' = retention
      /\ outdated' = outdated /\ versioned # "unread"
    BY DEF S3List, Purges, Purging, config, bucket, kept, known
<1>2. /\ live \subseteq Rows /\ old \subseteq Rows /\ lost = {} /\ op \in Uses
      /\ ~outdated => deleted = {}
    BY DEF SurfaceInv, SurfacesTyped, VersionsAreKnown
<1>3. /\ Of(op.tenant) \cap live \subseteq objects /\ objects \subseteq Rows
      /\ ~outdated => Of(op.tenant) \cap old \subseteq objects
    BY <1>1, <1>2, OldAreCovered DEF S3Objects
<1>4. VersionsAreKnown'
    BY <1>1 DEF SurfaceInv, VersionsAreKnown
<1> HIDE DEF objects
<1>5. CASE objects = {} /\ Return("done")
    <2>1. op' \in Uses /\ op'.call = "none" /\ op'.todo = {} /\ answer'.is = "done"
        BY <1>5, ReturnHolds
    <2>2. SurfacesTyped' /\ ListingIsWhole'
        BY <1>1, <1>2, <2>1 DEF SurfaceInv, SurfacesTyped, ListingIsWhole
    <2>3. ScanStep /\ PurgeStep
        BY <1>1, <1>2, <1>3, <1>5, <2>1 DEF ScanStep, PurgeStep
    <2> QED BY <1>4, <2>2, <2>3 DEF Kept, SurfaceInv
<1>6. CASE op' = [op EXCEPT !.todo = objects]
    <2>1. op' \in Uses /\ op'.call = "delete" /\ op'.todo = objects /\ op'.tenant = op.tenant
        BY <1>1, <1>2, <1>3, <1>6 DEF Uses
    <2>2. SurfacesTyped'
        BY <1>1, <1>2, <2>1 DEF SurfaceInv, SurfacesTyped
    <2>3. ListingIsWhole'
        BY <1>1, <1>3, <2>1 DEF ListingIsWhole, Of
    <2>4. ScanStep /\ PurgeStep
        BY <1>1, <1>2, <2>1 DEF ScanStep, PurgeStep
    <2> QED BY <1>4, <2>2, <2>3, <2>4 DEF Kept, SurfaceInv
<1> QED
    BY <1>5, <1>6 DEF S3List, objects

LEMMA S3BatchHolds ==
    ASSUME SurfaceInv, S3Batch
    PROVE  Kept
<1>1. PICK batch \in SUBSET op.todo, left \in SUBSET op.todo :
        /\ \E hidden \in Hidden(batch \ left) :
              /\ live' = live \ (batch \ left)
              /\ old' = hidden \cup (IF IsVersioned THEN old \ (batch \ left) ELSE old)
        /\ IF left # {} THEN Return("error")
           ELSE IF batch = op.todo THEN Return("done")
           ELSE op' = [op EXCEPT !.todo = @ \ batch] /\ UNCHANGED answer
    BY DEF S3Batch
<1>2. /\ op.call = "delete" /\ kind' = kind /\ versioning' = versioning /\ row' = row
      /\ deleted' = deleted /\ lost' = lost /\ versioned' = versioned /\ op.todo # {}
      /\ policy' = policy /\ retention' = retention /\ outdated' = outdated
    BY DEF S3Batch, Purges, Purging, config, bucket, known
<1>3. /\ live \subseteq Rows /\ old \subseteq Rows /\ lost = {} /\ op \in Uses
      /\ ~outdated => deleted = {}
    BY DEF SurfaceInv, SurfacesTyped, VersionsAreKnown
<1>4. /\ versioned # "unread"
      /\ Of(op.tenant) \cap live \subseteq op.todo
      /\ ~outdated => Of(op.tenant) \cap old \subseteq op.todo
    BY <1>2 DEF SurfaceInv, ListingIsWhole
<1>5. /\ live' = live \ (batch \ left) /\ old' \subseteq Rows
      /\ ~outdated => old' = old \ (batch \ left)
      /\ versioning = "never" => old' \subseteq old
    <2>1. PICK hidden \in Hidden(batch \ left) :
            /\ live' = live \ (batch \ left)
            /\ old' = hidden \cup (IF IsVersioned THEN old \ (batch \ left) ELSE old)
        BY <1>1
    <2>2. hidden \subseteq live /\ (IsVersioned \/ versioning = "never" => hidden = {})
        BY DEF Hidden
    <2>3. ~outdated /\ ~IsVersioned => versioning = "never" /\ old = {}
        BY <1>4 DEF IsVersioned, SurfaceInv, VersionsAreKnown
    <2> QED BY <1>3, <2>1, <2>2, <2>3
<1>6. VersionsAreKnown'
    BY <1>2, <1>3, <1>5 DEF SurfaceInv, VersionsAreKnown, S3Batch, Purges, Purging, Backups
<1>7. CASE \E a \in {"error", "done"} : Return(a) /\ (a = "done" => left = {} /\ batch = op.todo)
    <2>1. PICK a \in {"error", "done"} : Return(a) /\ (a = "done" => left = {} /\ batch = op.todo)
        BY <1>7
    <2>2. op' \in Uses /\ op'.call = "none" /\ op'.todo = {} /\ answer'.is = a
        BY <2>1, ReturnHolds
    <2>3. SurfacesTyped' /\ ListingIsWhole'
        BY <1>2, <1>3, <1>5, <2>2 DEF SurfaceInv, SurfacesTyped, ListingIsWhole
    <2>4. ScanStep /\ PurgeStep
        BY <1>2, <1>3, <1>4, <1>5, <2>1, <2>2 DEF ScanStep, PurgeStep
    <2> QED BY <1>6, <2>3, <2>4 DEF Kept, SurfaceInv
<1>8. CASE left = {} /\ op' = [op EXCEPT !.todo = @ \ batch]
    <2>1. op' \in Uses /\ op'.call = "delete" /\ op'.todo = op.todo \ batch /\ op'.tenant = op.tenant
        BY <1>2, <1>3, <1>8 DEF Uses
    <2>2. SurfacesTyped'
        BY <1>2, <1>3, <1>5, <2>1 DEF SurfaceInv, SurfacesTyped
    <2>3. ListingIsWhole'
        BY <1>2, <1>4, <1>5, <1>8, <2>1 DEF ListingIsWhole, Of
    <2>4. ScanStep /\ PurgeStep
        BY <1>2, <1>3, <2>1 DEF ScanStep, PurgeStep
    <2> QED BY <1>6, <2>2, <2>3, <2>4 DEF Kept, SurfaceInv
<1> QED
    BY <1>1, <1>7, <1>8

LEMMA GcsDeleteHolds ==
    ASSUME SurfaceInv, GcsDelete
    PROVE  Kept
<1>1. op.call = "delete"
    BY DEF GcsDelete, Purges, Purging
<1>2. CASE KeepsDeleted
    <2>1. Purged(IF policy = "some" THEN "unsupported" ELSE "error", {})
        BY <1>2 DEF GcsDelete
    <2> QED BY <1>1, <2>1, PurgedHolds
<1>3. CASE ~KeepsDeleted
    <2>1. PICK failed \in SUBSET GcsBlobs(op.tenant) :
            /\ live' = live \ (GcsBlobs(op.tenant) \ failed)
            /\ old' = old \ (GcsBlobs(op.tenant) \ failed)
            /\ retention = "none" => deleted' = deleted
            /\ Return(IF failed = {} THEN "done" ELSE "error")
            /\ UNCHANGED <<config, bucket, row, known, uses, lost>>
        BY <1>3 DEF GcsDelete
    <2> DEFINE rows == GcsBlobs(op.tenant) \ failed
               a    == IF failed = {} THEN "done" ELSE "error"
    <2>2. op' \in Uses /\ op'.call = "none" /\ op'.todo = {} /\ answer'.is = a
        BY <2>1, ReturnHolds
    <2>3. /\ kind' = kind /\ versioning' = versioning /\ row' = row /\ versioned' = versioned
          /\ live' = live \ rows /\ old' = old \ rows /\ lost' = lost
          /\ policy' = policy /\ retention' = retention /\ outdated' = outdated
        BY <2>1 DEF config, bucket, known
    <2>4. ~outdated => deleted' = {}
        BY <1>3, <2>1 DEF KeepsDeleted, SurfaceInv, VersionsAreKnown
    <2>5. a = "done" => Of(op.tenant) \cap (live \cup old) \subseteq rows
        BY DEF GcsBlobs
    <2> HIDE DEF rows, a
    <2>6. SurfacesTyped' /\ VersionsAreKnown' /\ ListingIsWhole'
        BY <2>2, <2>3, <2>4 DEF SurfaceInv, SurfacesTyped, VersionsAreKnown, ListingIsWhole
    <2>7. a # "unsupported"
        BY DEF a
    <2>8. ScanStep /\ PurgeStep
        BY <1>1, <2>2, <2>3, <2>4, <2>5, <2>7 DEF ScanStep, PurgeStep, SurfaceInv, SurfacesTyped
    <2> QED BY <2>6, <2>8 DEF Kept, SurfaceInv
<1> QED
    BY <1>2, <1>3

LEMMA PurgeHolds ==
    ASSUME SurfaceInv, Purge
    PROVE  Kept
<1>1. CASE BackupRefuses
    BY <1>1, PurgedHolds DEF BackupRefuses
<1>2. CASE SoftDelete
    BY <1>2, PurgedHolds DEF SoftDelete, Done
<1>3. CASE EvalSetDelete
    <2>1. op.call = "delete" /\ Purged("done", TenantRows(op.tenant)) /\ old = {}
        BY <1>3, OldAreCovered DEF EvalSetDelete, Purges, Purging, Backups
    <2> QED BY <2>1, PurgedHolds DEF TenantRows
<1>4. CASE SearchIndexDelete
    <2>1. op.call = "delete" /\ Purged("done", TenantRows(op.tenant)) /\ old = {}
        BY <1>4, OldAreCovered DEF SearchIndexDelete, Purges, Purging, Backups
    <2> QED BY <2>1, PurgedHolds DEF TenantRows
<1>5. CASE Mem0Delete
    <2>1. op.call = "delete" /\ old = {}
        BY <1>5, OldAreCovered DEF Mem0Delete, Purges, Purging, Backups
    <2>2. CASE Purged("unsupported", {})
        BY <2>1, <2>2, PurgedHolds
    <2>3. CASE ~shared /\ Purged("done", Mem0Scope(op.tenant))
        BY <2>1, <2>3, PurgedHolds DEF Mem0Scope
    <2> QED BY <1>5, <2>2, <2>3 DEF Mem0Delete
<1>6. CASE RedisMemoryDelete
    <2>1. op.call = "delete" /\ Purged("done", TenantRows(op.tenant)) /\ old = {}
        BY <1>6, OldAreCovered DEF RedisMemoryDelete, Purges, Purging, Backups
    <2> QED BY <2>1, PurgedHolds DEF TenantRows
<1>7. CASE RedisCacheDelete
    <2>1. op.call = "delete" /\ old = {} /\ kind = "redis_cache"
        BY <1>7, OldAreCovered DEF RedisCacheDelete, Purges, Purging, Backups
    <2>2. CASE shared /\ Done
        BY <2>1, <2>2, PurgedHolds DEF Done
    <2>3. CASE Purged("done", TenantRows(op.tenant))
        BY <2>1, <2>3, PurgedHolds DEF TenantRows
    <2> QED BY <1>7, <2>2, <2>3 DEF RedisCacheDelete
<1> QED
    BY <1>1, <1>2, <1>3, <1>4, <1>5, <1>6, <1>7, S3ListHolds, S3BatchHolds, GcsDeleteHolds DEF Purge

\* The reading of a bucket: nothing of it changes, and the answer is as of now.
LEMMA ReadingHolds ==
    ASSUME SurfaceInv, Reading
    PROVE  Kept
<1>1. /\ op.call # "none" /\ op' = op /\ kind' = kind /\ versioning' = versioning /\ row' = row
      /\ live' = live /\ old' = old /\ deleted' = deleted /\ lost' = lost
      /\ retention' = retention /\ outdated' = outdated
    BY DEF Reading, ReadVersioning, ReadPolicy, Purges, Purging, config, bucket, kept
<1>2. /\ versioned' = versioned \/ versioned' = IF versioning = "never" THEN "no" ELSE "yes"
      /\ policy' = policy \/ policy' = retention
    BY DEF Reading, ReadVersioning, ReadPolicy
<1>3. SurfacesTyped'
    BY <1>1 DEF SurfaceInv, SurfacesTyped
<1>4. VersionsAreKnown'
    BY <1>1, <1>2 DEF SurfaceInv, VersionsAreKnown
<1>5. ListingIsWhole'
    BY <1>1, <1>2 DEF SurfaceInv, ListingIsWhole, Of
<1>6. ScanStep /\ PurgeStep
    BY <1>1 DEF ScanStep, PurgeStep, SurfaceInv, SurfacesTyped
<1> QED
    BY <1>3, <1>4, <1>5, <1>6 DEF Kept, SurfaceInv

\* The operator: what changes the bucket behind an adapter's answer says so.
LEMMA OperatorHolds ==
    ASSUME SurfaceInv, Operator
    PROVE  Kept
<1>1. /\ op' = op /\ kind' = kind /\ row' = row /\ versioned' = versioned /\ policy' = policy
      /\ deleted' = deleted /\ lost' = lost
    BY DEF Operator, SetVersioning, SetRetention, Supersede, config, bucket, kept, known
<1>2. ScanStep /\ PurgeStep
    BY <1>1 DEF ScanStep, PurgeStep, SurfaceInv, SurfacesTyped
<1>3. CASE SetVersioning \/ SetRetention
    <2>1. /\ live' = live /\ old' = old /\ (outdated => outdated')
          /\ ~outdated' => /\ versioned = "no" => versioning' = versioning
                           /\ policy = "none" => retention' = retention
          /\ \/ versioning' = versioning
             \/ kind \in Backups /\ versioning' \in {"on", "off"}
        BY <1>3 DEF SetVersioning, SetRetention, kept
    <2>2. SurfacesTyped'
        BY <1>1, <2>1 DEF SurfaceInv, SurfacesTyped
    <2>3. VersionsAreKnown'
        BY <1>1, <2>1 DEF SurfaceInv, VersionsAreKnown
    <2>4. ListingIsWhole'
        BY <1>1, <2>1 DEF SurfaceInv, ListingIsWhole, Of
    <2> QED BY <1>2, <2>2, <2>3, <2>4 DEF Kept, SurfaceInv
<1>4. CASE Supersede
    <2>1. PICK r \in live : live' = live \ {r} /\ old' = old \cup {r}
        BY <1>4 DEF Supersede
    <2>2. /\ versioning = "on" /\ versioning' = versioning /\ retention' = retention
          /\ outdated' = outdated
        BY <1>4 DEF Supersede, bucket, known
    <2>3. SurfacesTyped' /\ VersionsAreKnown'
        BY <1>1, <2>1, <2>2 DEF SurfaceInv, SurfacesTyped, VersionsAreKnown
    <2>4. ListingIsWhole'
        BY <1>1, <2>1, <2>2 DEF SurfaceInv, ListingIsWhole, Of
    <2> QED BY <1>2, <2>3, <2>4 DEF Kept, SurfaceInv
<1> QED
    BY <1>3, <1>4 DEF Operator

LEMMA SurfaceStepHolds ==
    ASSUME SurfaceInv, [SurfaceNext]_surfaceVars
    PROVE  Kept
<1>1. CASE Search
    BY <1>1, SearchHolds
<1>2. CASE Purge
    BY <1>2, PurgeHolds
<1>3. CASE Reading
    BY <1>3, ReadingHolds
<1>4. CASE Operator
    BY <1>4, OperatorHolds
<1>5. CASE SurfaceRaises
    <2>1. op' \in Uses /\ op'.call = "none" /\ op'.todo = {} /\ answer'.is = "error"
        BY <1>5, ReturnHolds DEF SurfaceRaises
    <2>2. /\ kind' = kind /\ versioning' = versioning /\ row' = row /\ versioned' = versioned
          /\ live' = live /\ old' = old /\ deleted' = deleted /\ lost' = lost
          /\ policy' = policy /\ retention' = retention /\ outdated' = outdated
        BY <1>5 DEF SurfaceRaises, config, bucket, kept, known
    <2>3. SurfacesTyped' /\ VersionsAreKnown' /\ ListingIsWhole'
        BY <2>1, <2>2 DEF SurfaceInv, SurfacesTyped, VersionsAreKnown, ListingIsWhole
    <2>4. ScanStep /\ PurgeStep
        BY <2>1, <2>2 DEF ScanStep, PurgeStep, SurfaceInv, SurfacesTyped
    <2> QED BY <2>3, <2>4 DEF Kept, SurfaceInv
<1>6. ASSUME NEW c \in {"search", "delete"}, NEW t \in Tenants,
             NEW user \in SurfaceUsers \cup {NO_USER}, SurfaceBegin(c, t, user)
      PROVE  Kept
    <2>1. /\ op.call = "none" /\ op' = [Idle EXCEPT !.call = c, !.tenant = t, !.user = user]
          /\ kind' = kind /\ row' = row /\ versioned' = versioned /\ versioning' = versioning
          /\ live' = live /\ old' = old /\ deleted' = deleted /\ lost' = lost
          /\ policy' = policy /\ retention' = retention /\ outdated' = outdated
        BY <1>6 DEF SurfaceBegin, config, bucket, kept, known
    <2>2. op' \in Uses /\ op'.todo = {}
        BY <2>1, IdleIsAUse DEF Uses
    <2>3. SurfacesTyped' /\ VersionsAreKnown' /\ ListingIsWhole'
        BY <2>1, <2>2 DEF SurfaceInv, SurfacesTyped, VersionsAreKnown, ListingIsWhole
    <2>4. ScanStep /\ PurgeStep
        BY <2>1 DEF ScanStep, PurgeStep
    <2> QED BY <2>3, <2>4 DEF Kept, SurfaceInv
<1>7. CASE UNCHANGED surfaceVars
    <2>1. /\ kind' = kind /\ row' = row /\ versioned' = versioned /\ versioning' = versioning
          /\ live' = live /\ old' = old /\ deleted' = deleted /\ lost' = lost /\ op' = op
          /\ policy' = policy /\ retention' = retention /\ outdated' = outdated
        BY <1>7 DEF surfaceVars
    <2>2. SurfacesTyped' /\ VersionsAreKnown'
        BY <2>1 DEF SurfaceInv, SurfacesTyped, VersionsAreKnown
    <2>3. ListingIsWhole'
        BY <2>1 DEF SurfaceInv, ListingIsWhole, Of
    <2>4. ScanStep
        BY <2>1 DEF ScanStep
    <2>5. PurgeStep
        BY <2>1 DEF PurgeStep, SurfaceInv, SurfacesTyped
    <2> QED BY <2>2, <2>3, <2>4, <2>5 DEF Kept, SurfaceInv
<1> QED
    BY <1>1, <1>2, <1>3, <1>4, <1>5, <1>6, <1>7 DEF SurfaceNext

\* Whatever the pages, batches and versions, whichever call fails, and whenever the operator
\* changes the bucket: a scan says "absent" only of what cannot be restored, and a purge says
\* "done" only of a tenant of whom nothing is left, unless the bucket began to keep rows after
\* the adapter had read that it keeps none; then both speak of what is listed only.  A purge
\* always says "unsupported" before it deletes anything, and never deletes another tenant's row
\* (scan and delete of the object stores, eval sets, search index, memory and cache adapters).
THEOREM SurfacesKeepTheirWord == SurfaceSpec => SurfacesAreHonest
<1>1. SurfaceInit => SurfaceInv
    <2> SUFFICES ASSUME SurfaceInit PROVE SurfaceInv
        OBVIOUS
    <2>1. SurfacesTyped
        BY IdleIsAUse DEF SurfaceInit, SurfacesTyped
    <2>2. VersionsAreKnown
        BY DEF SurfaceInit, VersionsAreKnown
    <2>3. ListingIsWhole
        BY IdleIsAUse DEF SurfaceInit, ListingIsWhole
    <2> QED BY <2>1, <2>2, <2>3 DEF SurfaceInv
<1>2. SurfaceInv /\ [SurfaceNext]_surfaceVars => SurfaceInv'
    BY SurfaceStepHolds DEF Kept
<1>3. SurfaceInv /\ [SurfaceNext]_surfaceVars => [ScanStep]_surfaceVars
    BY SurfaceStepHolds DEF Kept
<1>4. SurfaceInv /\ [SurfaceNext]_surfaceVars => [PurgeStep]_surfaceVars
    BY SurfaceStepHolds DEF Kept
<1>5. SurfaceSpec => [][ScanStep]_surfaceVars
    BY <1>1, <1>2, <1>3, PTL DEF SurfaceSpec
<1>6. SurfaceSpec => [][PurgeStep]_surfaceVars
    BY <1>1, <1>2, <1>4, PTL DEF SurfaceSpec
<1>7. [][ScanStep]_surfaceVars => AbsentIsGone
    BY DEF ScanStep, AbsentIsGone
<1>8. [][PurgeStep]_surfaceVars => PurgesAreWhole
    BY DEF PurgeStep, PurgesAreWhole
<1> QED
    BY <1>5, <1>6, <1>7, <1>8 DEF SurfacesAreHonest

-----------------------------------------------------------------------------
(* The KV-cache timing probe. *)

Shared == domain[Owner(pair)] = domain[Observer(pair)]

\* How many more of the first n trials time the primed prompt first.
Lead(s, n) == 2 * Cardinality(s \cap (1..n)) - n

\* What the owner's warm-up can have saved the observer over n primed prompts.
Savings(n, same, whole) ==
    {s \in 0..(n * MISS) : (~same => s = 0) /\ (same /\ whole => s = n * MISS)}

TimingTyped ==
    /\ at \in {"warm", "first", "second", "pair", "done", "failed"}
    /\ pair \in 1..NPairs /\ trial \in Trials
    /\ drift \in Nat /\ clock \in Nat /\ evictions \in Nat /\ flat \in BOOLEAN
    /\ primed \in Int /\ control \in Int
    /\ signals \in [1..NPairs -> [gap : Int, resolved : BOOLEAN]]
    /\ at = "warm" => primed = 0 /\ control = 0 /\ readings = {}
    /\ at \in {"first", "second", "pair"} => order \in BalancedOrders
    /\ at = "pair" => trial = TRIALS

\* The arm's prompt of the trial is still to be timed.
ToTime(arm, t) ==
    \/ at = "warm"
    \/ at = "first" /\ t >= trial
    \/ at = "second" /\ (t > trial \/ (t = trial /\ Arm = arm))

\* No prefix is warm before its pair, ...
LaterAreCold ==
    \A q \in 1..NPairs, t \in Trials, entry \in warm :
        q > pair => entry[2] # Prefix(q, t) /\ entry[2] # ControlPrefix(q, t)

\* ... a control prompt's not before it is timed, ...
ControlsAreCold ==
    \A t \in Trials : ToTime("control", t) =>
        \A entry \in warm : entry[2] # ControlPrefix(pair, t)

\* ... and a primed one's in the owner's cache only: there it is, unless it was evicted.
PrimedAreTheOwners ==
    \A t \in Trials : ToTime("primed", t) =>
        /\ \A entry \in warm : entry[2] = Prefix(pair, t) => entry[1] = domain[Owner(pair)]
        /\ (at = "warm" => t < trial) /\ evictions = 0 =>
              <<domain[Owner(pair)], Prefix(pair, t)>> \in warm

\* The arms differ by what was saved: the drift is shared out between them.
GapIsTheSaving ==
    ~flat =>
      /\ at = "first" => \E s \in Savings(trial - 1, Shared, evictions = 0) :
            control - primed = s + drift * Lead(order, trial - 1)
      /\ at = "second" /\ Arm = "primed" => \E s \in Savings(trial - 1, Shared, evictions = 0) :
            control - primed = s + drift * Lead(order, trial - 1) + (BASE + drift * (clock - 1) + MISS)
      /\ at = "second" /\ Arm = "control" => \E s \in Savings(trial, Shared, evictions = 0) :
            control - primed = s + drift * Lead(order, trial - 1) - (BASE + drift * (clock - 1) + MISS)
      /\ at = "pair" => \E s \in Savings(TRIALS, Shared, evictions = 0) : control - primed = s

FlatIsUnresolved == flat => readings \subseteq {BASE}

SignalsHold ==
    \A p \in EffectSizes :
        LET channel == IF domain[Owner(p)] = domain[Observer(p)] THEN TRIALS * MISS ELSE 0
        IN  /\ ~flat
            /\ signals[p].gap \in 0..channel
            /\ evictions = 0 => signals[p].gap = channel

TimingInv ==
    /\ TimingTyped
    /\ LaterAreCold /\ ControlsAreCold /\ PrimedAreTheOwners
    /\ GapIsTheSaving /\ FlatIsUnresolved
    /\ SignalsHold

-----------------------------------------------------------------------------
LEMMA PairsAreCounted == NPairs \in Nat /\ NPairs >= 1
<1>1. \A a, b \in Nat : a >= 1 /\ b >= 1 => a * b \in Nat /\ a * b >= 1
    OBVIOUS
<1>2. NTenants >= 1 /\ NTenants - 1 \in Nat /\ NTenants - 1 >= 1
    BY PairsAssumed
<1> QED
    BY <1>1, <1>2, PairsAssumed DEF NPairs

\* The two loops visit each ordered pair once.
LEMMA PairsDiffer ==
    ASSUME NEW p \in 1..NPairs, NEW q \in 1..NPairs,
           Owner(p) = Owner(q), Observer(p) = Observer(q)
    PROVE  p = q
<1> DEFINE m == NTenants - 1
           block(x) == (x - 1) \div m
           place(x) == (x - 1) % m
<1>1. m \in Nat /\ m > 0
    BY PairsAssumed
<1>2. ASSUME NEW x \in Int
      PROVE  block(x) \in Int /\ place(x) \in Int /\ x - 1 = m * block(x) + place(x)
    BY <1>1
<1>3. p \in Int /\ q \in Int
    BY PairsAreCounted
<1>4. Owner(p) = block(p) + 1 /\ Owner(q) = block(q) + 1
    BY DEF Owner
<1>5. /\ Observer(p) = IF place(p) + 1 < Owner(p) THEN place(p) + 1 ELSE (place(p) + 1) + 1
      /\ Observer(q) = IF place(q) + 1 < Owner(q) THEN place(q) + 1 ELSE (place(q) + 1) + 1
    BY DEF Observer
<1> HIDE DEF m, block, place
<1>6. block(p) \in Int /\ place(p) \in Int /\ p - 1 = m * block(p) + place(p)
    BY <1>2, <1>3
<1>7. block(q) \in Int /\ place(q) \in Int /\ q - 1 = m * block(q) + place(q)
    BY <1>2, <1>3
<1>8. block(p) = block(q)
    <2>1. block(p) + 1 = block(q) + 1
        BY <1>4
    <2> QED BY <1>6, <1>7, <2>1
<1>9. place(p) = place(q)
    <2>1. Owner(p) \in Int /\ Owner(q) = Owner(p)
        BY <1>4, <1>6
    <2>2. \A a, b, o \in Int :
            (IF a + 1 < o THEN a + 1 ELSE (a + 1) + 1) = (IF b + 1 < o THEN b + 1 ELSE (b + 1) + 1)
              => a = b
        OBVIOUS
    <2>3. (IF place(p) + 1 < Owner(p) THEN place(p) + 1 ELSE (place(p) + 1) + 1)
            = (IF place(q) + 1 < Owner(p) THEN place(q) + 1 ELSE (place(q) + 1) + 1)
        BY <2>1, <1>5
    <2> QED BY <1>6, <1>7, <2>1, <2>2, <2>3
<1>10. p - 1 = q - 1
    BY <1>6, <1>7, <1>8, <1>9
<1> QED
    BY <1>3, <1>10

LEMMA PrefixesDiffer ==
    ASSUME NEW p \in 1..NPairs, NEW q \in 1..NPairs, NEW t, NEW u
    PROVE  /\ Prefix(p, t) # ControlPrefix(q, u)
           /\ Prefix(p, t) = Prefix(q, u) => p = q /\ t = u
           /\ ControlPrefix(p, t) = ControlPrefix(q, u) => p = q /\ t = u
BY PairsDiffer DEF Prefix, ControlPrefix

LEMMA LeadSteps ==
    ASSUME NEW s \in SUBSET Trials
    PROVE  /\ \A n \in 0..TRIALS : Lead(s, n) \in Int
           /\ Lead(s, 0) = 0
           /\ \A n \in Trials : Lead(s, n) = Lead(s, n - 1) + (IF n \in s THEN 1 ELSE -1)
           /\ s \in BalancedOrders => Lead(s, TRIALS) = 0
<1>1. \A n \in 0..TRIALS : IsFiniteSet(s \cap (1..n)) /\ Cardinality(s \cap (1..n)) \in Nat
    <2> TAKE n \in 0..TRIALS
    <2>1. IsFiniteSet(1..n)
        BY FS_Interval
    <2>2. IsFiniteSet(s \cap (1..n))
        BY <2>1, FS_Subset
    <2> QED BY <2>2, FS_CardinalityType
<1>2. \A n \in 0..TRIALS : Lead(s, n) \in Int
    BY <1>1 DEF Lead
<1>3. Lead(s, 0) = 0
    <2>1. s \cap (1..0) = {}
        OBVIOUS
    <2> QED BY <2>1, FS_EmptySet DEF Lead
<1>4. \A n \in Trials : Lead(s, n) = Lead(s, n - 1) + (IF n \in s THEN 1 ELSE -1)
    <2> TAKE n \in Trials
    <2>0. n \in Nat /\ n - 1 \in 0..TRIALS
        BY TrialsAssumed DEF Trials
    <2> DEFINE before == s \cap (1..(n - 1))
               upto   == s \cap (1..n)
    <2>1. n \notin before
        BY <2>0
    <2>2. upto = IF n \in s THEN before \cup {n} ELSE before
        BY <2>0
    <2>3. IsFiniteSet(before) /\ Cardinality(before) \in Nat
        BY <1>1, <2>0
    <2> HIDE DEF before, upto
    <2>4. n \in s => Cardinality(upto) = Cardinality(before) + 1
        BY <2>1, <2>2, <2>3, FS_AddElement
    <2>5. n \notin s => Cardinality(upto) = Cardinality(before)
        BY <2>2
    <2> QED BY <2>0, <2>3, <2>4, <2>5 DEF Lead, before, upto
<1>5. s \in BalancedOrders => Lead(s, TRIALS) = 0
    <2>1. s \cap (1..TRIALS) = s
        BY DEF Trials
    <2>2. Cardinality(s) \in Nat
        BY <2>1, <1>1, TrialsAssumed
    <2>3. Lead(s, TRIALS) = 2 * Cardinality(s) - TRIALS
        BY <2>1 DEF Lead
    <2>4. s \in BalancedOrders => 2 * Cardinality(s) = TRIALS
        BY DEF BalancedOrders
    <2> QED BY <2>2, <2>3, <2>4, TrialsAssumed
<1> QED
    BY <1>2, <1>3, <1>4, <1>5
-----------------------------------------------------------------------------
LEMMA TimingInitHolds == ASSUME TimingInit PROVE TimingInv
<1>1. TimingTyped
    BY PairsAreCounted, TrialsAssumed, LatencyAssumed DEF TimingInit, TimingTyped, Trials, Unmeasured
<1>2. LaterAreCold /\ ControlsAreCold
    BY DEF TimingInit, LaterAreCold, ControlsAreCold
<1>3. PrimedAreTheOwners
    BY TrialsAssumed DEF TimingInit, PrimedAreTheOwners, Trials
<1>4. GapIsTheSaving /\ FlatIsUnresolved
    BY DEF TimingInit, GapIsTheSaving, FlatIsUnresolved
<1>5. SignalsHold
    BY DEF TimingInit, SignalsHold, EffectSizes, Unmeasured
<1> QED
    BY <1>1, <1>2, <1>3, <1>4, <1>5 DEF TimingInv

\* Nothing saved of nothing timed.
LEMMA NothingSaved ==
    /\ 0 * MISS = 0
    /\ \A x \in Int : x * 0 = 0
    /\ \A same, whole \in BOOLEAN : 0 \in Savings(0, same, whole)
<1>1. 0 * MISS = 0 /\ \A x \in Int : x * 0 = 0
    BY LatencyAssumed
<1> QED
    BY <1>1 DEF Savings

LEMMA SignalsStay ==
    ASSUME TimingInv, UNCHANGED <<domain, flat, signals>>, evictions' = 0 => evictions = 0
    PROVE  SignalsHold'
BY DEF TimingInv, SignalsHold, EffectSizes, Owner, Observer

LEMMA WarmUpHolds == ASSUME TimingInv, WarmUp PROVE TimingInv'
<1> USE DEF TimingInv
<1>1. /\ at = "warm" /\ clock' = clock + 1
      /\ warm' = warm \cup {<<domain[Owner(pair)], Prefix(pair, trial)>>}
      /\ UNCHANGED <<domain, flat, drift, evictions, pair, primed, control, readings, signals>>
    BY DEF WarmUp, serving
<1>2. \/ trial < TRIALS /\ trial' = trial + 1 /\ at' = "warm" /\ order' = order
      \/ trial = TRIALS /\ trial' = 1 /\ at' = "first" /\ order' \in BalancedOrders
    <2>1. trial \in Nat /\ trial <= TRIALS
        BY DEF TimingTyped, Trials
    <2> QED BY <1>1, <2>1, TrialsAssumed DEF WarmUp
<1>3. pair \in 1..NPairs /\ trial \in Trials
    BY DEF TimingTyped
<1>4. TimingTyped'
    <2>1. trial' \in Trials
        BY <1>2, <1>3, TrialsAssumed DEF Trials
    <2> QED BY <1>1, <1>2, <2>1 DEF TimingTyped
<1>5. LaterAreCold'
    <2> SUFFICES ASSUME NEW q \in 1..NPairs, NEW t \in Trials, NEW entry \in warm', q > pair
                 PROVE  entry[2] # Prefix(q, t) /\ entry[2] # ControlPrefix(q, t)
        BY <1>1 DEF LaterAreCold, Prefix, ControlPrefix, Owner, Observer
    <2>1. CASE entry \in warm
        BY <2>1 DEF LaterAreCold
    <2>2. CASE entry = <<domain[Owner(pair)], Prefix(pair, trial)>>
        <3>1. q # pair
            BY <1>3, PairsAreCounted
        <3>2. entry[2] = Prefix(pair, trial)
            BY <2>2
        <3> QED BY <3>1, <3>2, <1>3, PrefixesDiffer
    <2> QED BY <1>1, <2>1, <2>2
<1>6. ControlsAreCold'
    <2> SUFFICES ASSUME NEW t \in Trials, NEW entry \in warm'
                 PROVE  entry[2] # ControlPrefix(pair, t)
        BY <1>1 DEF ControlsAreCold, ControlPrefix, Owner, Observer
    <2>1. ToTime("control", t)
        BY <1>1 DEF ToTime
    <2>2. CASE entry \in warm
        BY <2>1, <2>2 DEF ControlsAreCold
    <2>3. CASE entry = <<domain[Owner(pair)], Prefix(pair, trial)>>
        <3>1. entry[2] = Prefix(pair, trial)
            BY <2>3
        <3> QED BY <3>1, <1>3, PrefixesDiffer
    <2> QED BY <1>1, <2>2, <2>3
<1>7. PrimedAreTheOwners'
    <2> SUFFICES ASSUME NEW t \in Trials
                 PROVE  /\ \A entry \in warm' :
                              entry[2] = Prefix(pair, t) => entry[1] = domain[Owner(pair)]
                        /\ (at' = "warm" => t < trial') /\ evictions = 0 =>
                              <<domain[Owner(pair)], Prefix(pair, t)>> \in warm'
        BY <1>1 DEF PrimedAreTheOwners, Prefix, Owner, Observer
    <2>1. ToTime("primed", t)
        BY <1>1 DEF ToTime
    <2>2. ASSUME NEW entry \in warm', entry[2] = Prefix(pair, t)
          PROVE  entry[1] = domain[Owner(pair)]
        <3>1. CASE entry \in warm
            BY <2>1, <2>2, <3>1 DEF PrimedAreTheOwners
        <3>2. CASE entry = <<domain[Owner(pair)], Prefix(pair, trial)>>
            BY <3>2
        <3> QED BY <1>1, <3>1, <3>2
    <2>3. ASSUME at' = "warm" => t < trial', evictions = 0
          PROVE  <<domain[Owner(pair)], Prefix(pair, t)>> \in warm'
        <3>1. t < trial \/ t = trial
            BY <2>3, <1>2, <1>3 DEF Trials
        <3> QED BY <3>1, <2>1, <2>3, <1>1 DEF PrimedAreTheOwners
    <2> QED BY <2>2, <2>3
<1>8. GapIsTheSaving'
    <2>1. CASE at' = "warm"
        BY <2>1 DEF GapIsTheSaving
    <2>2. CASE at' = "first" /\ trial' = 1 /\ order' \in BalancedOrders
        <3>1. Lead(order', 0) = 0
            BY <2>2, LeadSteps DEF BalancedOrders
        <3>2. control' = 0 /\ primed' = 0
            BY <1>1 DEF TimingTyped
        <3>3. 0 \in Savings(0, Shared', evictions' = 0)
            BY NothingSaved DEF Shared
        <3>4. drift' * Lead(order', 0) = 0 /\ trial' - 1 = 0
            BY <1>1, <2>2, <3>1, NothingSaved DEF TimingTyped
        <3> QED BY <2>2, <3>2, <3>3, <3>4 DEF GapIsTheSaving
    <2> QED BY <1>2, <2>1, <2>2
<1>9. FlatIsUnresolved'
    BY <1>1 DEF FlatIsUnresolved
<1> QED
    BY <1>1, <1>4, <1>5, <1>6, <1>7, <1>8, <1>9, SignalsStay

\* An eviction only makes room for less: a saving that is no longer whole.
LEMMA EvictHolds == ASSUME TimingInv, Evict PROVE TimingInv'
<1> USE DEF TimingInv
<1>1. /\ warm' \subseteq warm /\ evictions' = evictions + 1
      /\ UNCHANGED <<domain, flat, drift, clock, pair, trial, at, order,
                     primed, control, readings, signals>>
    BY DEF Evict, serving
<1>2. evictions' \in Nat /\ evictions' # 0
    BY <1>1 DEF TimingTyped
<1>3. TimingTyped' /\ FlatIsUnresolved'
    BY <1>1, <1>2 DEF TimingTyped, FlatIsUnresolved
<1>4. LaterAreCold' /\ ControlsAreCold' /\ PrimedAreTheOwners'
    BY <1>1, <1>2 DEF LaterAreCold, ControlsAreCold, PrimedAreTheOwners,
        ToTime, Arm, Prefix, ControlPrefix, Owner, Observer
<1>5. GapIsTheSaving'
    <2>1. Shared' = Shared /\ Arm' = Arm
        BY <1>1 DEF Shared, Arm, Owner, Observer
    <2>2. \A n, s : s \in Savings(n, Shared, evictions = 0) => s \in Savings(n, Shared', evictions' = 0)
        BY <1>2, <2>1 DEF Savings
    <2> HIDE DEF TimingInv
    <2>3. GapIsTheSaving
        BY DEF TimingInv
    <2> QED BY <1>1, <2>1, <2>2, <2>3 DEF GapIsTheSaving
<1> QED
    BY <1>1, <1>2, <1>3, <1>4, <1>5, SignalsStay

LEMMA TimingRaisesHolds == ASSUME TimingInv, TimingRaises PROVE TimingInv'
<1> USE DEF TimingInv
<1>1. /\ at' = "failed"
      /\ UNCHANGED <<domain, flat, drift, warm, evictions, clock, pair, trial, order,
                     primed, control, readings, signals>>
    BY DEF TimingRaises, serving
<1>2. TimingTyped' /\ FlatIsUnresolved' /\ GapIsTheSaving'
    BY <1>1 DEF TimingTyped, FlatIsUnresolved, GapIsTheSaving
<1>3. LaterAreCold' /\ ControlsAreCold' /\ PrimedAreTheOwners'
    BY <1>1 DEF LaterAreCold, ControlsAreCold, PrimedAreTheOwners,
        ToTime, Prefix, ControlPrefix, Owner, Observer
<1> QED
    BY <1>1, <1>2, <1>3, SignalsStay

LEMMA CloseHolds == ASSUME TimingInv, Close PROVE TimingInv'
<1> USE DEF TimingInv
<1>1. /\ at = "pair" /\ trial' = 1 /\ primed' = 0 /\ control' = 0 /\ readings' = {}
      /\ signals' = [signals EXCEPT ![pair] = [gap |-> control - primed, resolved |-> Resolved(readings)]]
      /\ UNCHANGED <<domain, flat, drift, warm, evictions, clock>>
    BY DEF Close, serving, MeanGap
<1>2. \/ pair < NPairs /\ pair' = pair + 1 /\ at' = "warm"
      \/ pair' = pair /\ at' = "done"
    BY DEF Close
<1>3. pair \in 1..NPairs /\ pair' \in 1..NPairs /\ pair' >= pair
    BY <1>2, PairsAreCounted DEF TimingTyped
<1>4. TimingTyped'
    <2>1. Resolved(readings) \in BOOLEAN /\ control - primed \in Int
        BY DEF Resolved, TimingTyped
    <2>2. signals' \in [1..NPairs -> [gap : Int, resolved : BOOLEAN]]
        BY <1>1, <2>1 DEF TimingTyped
    <2>3. trial' \in Trials
        BY <1>1, TrialsAssumed DEF Trials
    <2> QED BY <1>1, <1>2, <1>3, <2>2, <2>3 DEF TimingTyped
<1>5. LaterAreCold'
    <2>1. \A q \in 1..NPairs : q > pair' => q > pair
        BY <1>3, PairsAreCounted
    <2> QED BY <1>1, <2>1 DEF LaterAreCold, Prefix, ControlPrefix, Owner, Observer
<1>6. ControlsAreCold' /\ PrimedAreTheOwners'
    <2>1. CASE at' = "done"
        BY <2>1 DEF ControlsAreCold, PrimedAreTheOwners, ToTime
    <2>2. CASE pair < NPairs /\ pair' = pair + 1 /\ at' = "warm"
        <3>1. PICK next : next = pair'
            OBVIOUS
        <3>2. next \in 1..NPairs /\ next > pair
            BY <3>1, <2>2, <1>3, PairsAreCounted
        <3>3. \A t \in Trials, entry \in warm :
                 entry[2] # Prefix(next, t) /\ entry[2] # ControlPrefix(next, t)
            BY <3>2 DEF LaterAreCold
        <3>4. ControlsAreCold'
            BY <3>1, <3>3, <1>1 DEF ControlsAreCold, ControlPrefix, Owner, Observer
        <3>5. \A t \in Trials : ~(t < trial')
            BY <1>1 DEF Trials
        <3>6. PrimedAreTheOwners'
            BY <3>1, <3>3, <3>5, <2>2, <1>1 DEF PrimedAreTheOwners, Prefix, Owner, Observer
        <3> QED BY <3>4, <3>6
    <2> QED BY <1>2, <2>1, <2>2
<1>7. GapIsTheSaving' /\ FlatIsUnresolved'
    BY <1>1, <1>2 DEF GapIsTheSaving, FlatIsUnresolved
<1>8. Resolved(readings) => ~flat
    <2> SUFFICES ASSUME flat PROVE ~Resolved(readings)
        BY DEF TimingTyped
    <2>1. readings \subseteq {BASE}
        BY DEF FlatIsUnresolved
    <2>2. IsFiniteSet({BASE}) /\ Cardinality({BASE}) = 1
        BY FS_Singleton
    <2>3. IsFiniteSet(readings) /\ Cardinality(readings) <= 1
        BY <2>1, <2>2, FS_Subset
    <2>4. Cardinality(readings) \in Nat
        BY <2>3, FS_CardinalityType
    <2> QED BY <2>3, <2>4 DEF Resolved
<1>9. SignalsHold'
    <2> SUFFICES ASSUME NEW p \in 1..NPairs, signals'[p].resolved,
                        NEW channel,
                        channel = IF domain[Owner(p)] = domain[Observer(p)] THEN TRIALS * MISS ELSE 0
                 PROVE  /\ ~flat
                        /\ signals'[p].gap \in 0..channel
                        /\ evictions = 0 => signals'[p].gap = channel
        BY <1>1 DEF SignalsHold, EffectSizes, Owner, Observer
    <2>1. CASE p = pair
        <3>1. signals'[p] = [gap |-> control - primed, resolved |-> Resolved(readings)]
            BY <1>1, <2>1 DEF TimingTyped
        <3>2. ~flat
            BY <3>1, <1>8
        <3>3. PICK s \in Savings(TRIALS, Shared, evictions = 0) : control - primed = s
            BY <3>2, <1>1 DEF GapIsTheSaving
        <3>4. Shared <=> domain[Owner(p)] = domain[Observer(p)]
            BY <2>1 DEF Shared
        <3>5. signals'[p].gap = s
            BY <3>1, <3>3
        <3> QED BY <3>2, <3>3, <3>4, <3>5 DEF Savings
    <2>2. CASE p # pair
        <3>1. signals'[p] = signals[p]
            BY <1>1, <2>2 DEF TimingTyped
        <3> QED BY <3>1 DEF SignalsHold, EffectSizes
    <2> QED BY <2>1, <2>2
<1> QED
    BY <1>4, <1>5, <1>6, <1>7, <1>9

-----------------------------------------------------------------------------
(* One reading. *)

\* A control prompt is always cold; a primed one is warm by the owner's doing only.
Cold(arm, cost) ==
    /\ cost \in 0..MISS
    /\ arm = "control" \/ ~Shared => cost = MISS
    /\ arm = "primed" /\ Shared /\ evictions = 0 => cost = 0

LEMMA ReadingIs ==
    ASSUME TimingInv, at \in {"first", "second"}, ~flat,
           NEW prefix, prefix = IF Arm = "primed" THEN Prefix(pair, trial) ELSE ControlPrefix(pair, trial)
    PROVE  \E cost : Cold(Arm, cost) /\ Latency(Observer(pair), prefix) = (BASE + drift * clock) + cost
<1> USE DEF TimingInv
<1> DEFINE entry == <<domain[Observer(pair)], prefix>>
           cost  == IF entry \in warm THEN 0 ELSE MISS
<1>1. entry[1] = domain[Observer(pair)] /\ entry[2] = prefix
    OBVIOUS
<1>2. trial \in Trials /\ ToTime(Arm, trial)
    BY DEF TimingTyped, ToTime, Trials
<1>3. Arm \in {"primed", "control"}
    BY DEF Arm
<1>4. Arm = "control" => entry \notin warm
    BY <1>1, <1>2 DEF ControlsAreCold
<1>5. Arm = "primed" /\ ~Shared => entry \notin warm
    BY <1>1, <1>2 DEF PrimedAreTheOwners, Shared
<1>6. Arm = "primed" /\ Shared /\ evictions = 0 => entry \in warm
    BY <1>2 DEF PrimedAreTheOwners, Shared
<1>7. Cold(Arm, cost)
    BY <1>3, <1>4, <1>5, <1>6, LatencyAssumed DEF Cold
<1>8. Latency(Observer(pair), prefix) = (BASE + drift * clock) + cost
    BY DEF Latency
<1> QED
    BY <1>7, <1>8

\* One more primed prompt saves what it did not cost.
LEMMA SavedMore ==
    ASSUME TimingTyped, NEW n \in Nat, NEW s \in Savings(n, Shared, evictions = 0),
           NEW cost, Cold("primed", cost)
    PROVE  s + (MISS - cost) \in Savings(n + 1, Shared, evictions = 0)
<1>1. n * MISS \in Nat /\ (n + 1) * MISS = n * MISS + MISS
    BY LatencyAssumed
<1>2. s \in Nat /\ s <= n * MISS /\ cost \in Nat /\ cost <= MISS
    BY <1>1, LatencyAssumed DEF Savings, Cold
<1>3. s + (MISS - cost) \in 0..((n + 1) * MISS)
    BY <1>1, <1>2, LatencyAssumed
<1>4. ~Shared => s + (MISS - cost) = 0
    BY <1>2, LatencyAssumed DEF Savings, Cold
<1>5. Shared /\ evictions = 0 => s + (MISS - cost) = (n + 1) * MISS
    BY <1>1, <1>2, LatencyAssumed DEF Savings, Cold
<1> QED
    BY <1>3, <1>4, <1>5 DEF Savings

\* What the four orders of an arm and a turn make of the gap.
LEMMA DriftIsShared ==
    ASSUME NEW d \in Int, NEW c \in Int, NEW l \in Int
    PROVE  /\ d * (c - 1) = d * c - d /\ d * (l + 1) = d * l + d /\ d * (l - 1) = d * l - d
           /\ d * c \in Int /\ d * l \in Int
OBVIOUS

LEMMA MeasureGap == ASSUME TimingInv, Measure PROVE GapIsTheSaving'
<1> USE DEF TimingInv
<1> DEFINE prefix == IF Arm = "primed" THEN Prefix(pair, trial) ELSE ControlPrefix(pair, trial)
           d == drift * clock
           l == Lead(order, trial - 1)
<1>1. /\ at \in {"first", "second"} /\ clock' = clock + 1
      /\ UNCHANGED <<domain, flat, drift, evictions, pair, order>>
    BY DEF Measure, serving
<1>2. PICK took : /\ took = Latency(Observer(pair), prefix)
                  /\ primed'  = primed  + (IF Arm = "primed"  THEN took ELSE 0)
                  /\ control' = control + (IF Arm = "control" THEN took ELSE 0)
    BY DEF Measure
<1>3. SUFFICES ASSUME ~flat PROVE GapIsTheSaving'
    BY <1>1 DEF GapIsTheSaving
<1>4. PICK cost : Cold(Arm, cost) /\ took = (BASE + d) + cost
    BY <1>1, <1>2, <1>3, ReadingIs
<1>5. Shared' = Shared /\ (evictions = 0)' = (evictions = 0)
    BY <1>1 DEF Shared, Owner, Observer
<1>6. /\ trial \in Nat /\ trial >= 1 /\ trial <= TRIALS /\ trial - 1 \in Nat /\ TRIALS \in Nat
      /\ (trial - 1) + 1 = trial /\ trial - 1 \in 0..TRIALS /\ order \in SUBSET Trials
      /\ drift \in Int /\ clock \in Int /\ primed \in Int /\ control \in Int
    BY <1>1, TrialsAssumed DEF TimingTyped, Trials, BalancedOrders
<1>7. d \in Int /\ l \in Int /\ drift * l \in Int /\ BASE \in Int /\ MISS \in Int /\ cost \in Int
    BY <1>4, <1>6, LeadSteps, DriftIsShared, LatencyAssumed DEF Cold
<1>8. drift' * (clock' - 1) = d
    <2>1. clock' - 1 = clock
        BY <1>1, <1>6
    <2> QED BY <1>1, <2>1
<1>9. drift * (clock - 1) = d - drift
    BY <1>6, DriftIsShared
<1>10. Lead(order, trial) = IF trial \in order THEN l + 1 ELSE l - 1
    <2>1. trial \in Trials
        BY <1>6 DEF Trials
    <2>2. Lead(order, trial) = l + (IF trial \in order THEN 1 ELSE -1)
        BY <2>1, <1>6, LeadSteps
    <2> QED BY <2>2, <1>7
<1>11. drift * Lead(order, trial) = IF trial \in order THEN drift * l + drift ELSE drift * l - drift
    BY <1>10, <1>6, <1>7, DriftIsShared
<1>12. \A n, s : s \in Savings(n, Shared, evictions = 0) => s \in Int
    BY DEF Savings
<1> HIDE DEF d, l, prefix
<1>13. CASE at = "first"
    <2>1. at' = "second" /\ trial' = trial
        BY <1>13 DEF Measure
    <2>2. PICK s \in Savings(trial - 1, Shared, evictions = 0) : control - primed = s + drift * l
        BY <1>3, <1>13 DEF GapIsTheSaving, l
    <2>3. s \in Int
        BY <2>2, <1>12
    <2>4. Lead(order', trial' - 1) = l
        BY <1>1, <2>1 DEF l
    <2>5. CASE Arm = "primed"
        <3>1. Arm' = "control"
            BY <1>1, <1>13, <2>1, <2>5 DEF Arm
        <3>2. s + (MISS - cost) \in Savings(trial, Shared, evictions = 0)
            BY <1>4, <1>6, <2>2, <2>5, SavedMore
        <3>3. control' - primed' = (s + (MISS - cost)) + drift * l - (BASE + d + MISS)
            <4>1. control' = control /\ primed' = primed + took
                BY <1>2, <1>6, <2>5
            <4> QED BY <4>1, <1>4, <1>6, <1>7, <2>2, <2>3
        <3> QED BY <3>1, <3>2, <3>3, <1>1, <1>5, <1>8, <2>1, <2>4 DEF GapIsTheSaving
    <2>6. CASE Arm = "control"
        <3>1. Arm' = "primed"
            BY <1>1, <1>13, <2>1, <2>6 DEF Arm
        <3>2. control' - primed' = s + drift * l + (BASE + d + MISS)
            <4>1. control' = control + took /\ primed' = primed
                BY <1>2, <1>6, <2>6
            <4>2. cost = MISS
                BY <1>4, <2>6 DEF Cold
            <4> QED BY <4>1, <4>2, <1>4, <1>6, <1>7, <2>2, <2>3
        <3> QED BY <3>1, <3>2, <2>2, <1>1, <1>5, <1>8, <2>1, <2>4 DEF GapIsTheSaving
    <2> QED BY <2>5, <2>6 DEF Arm
<1>14. CASE at = "second"
    <2>1. \/ at' = "first" /\ trial' = trial + 1
          \/ at' = "pair" /\ trial = TRIALS
        BY <1>14, <1>6 DEF Measure
    <2>2. SUFFICES \E s \in Savings(trial, Shared, evictions = 0) :
                      control' - primed' = s + drift * Lead(order, trial)
        <3>1. PICK s \in Savings(trial, Shared, evictions = 0) :
                 control' - primed' = s + drift * Lead(order, trial)
            BY <2>2
        <3>2. CASE at' = "first" /\ trial' = trial + 1
            <4>1. trial' - 1 = trial
                BY <3>2, <1>6
            <4> QED BY <3>1, <3>2, <4>1, <1>1, <1>5 DEF GapIsTheSaving
        <3>3. CASE at' = "pair" /\ trial = TRIALS
            <4>1. Lead(order, trial) = 0
                BY <3>3, <1>6, <1>14, LeadSteps DEF TimingTyped
            <4>2. drift * Lead(order, trial) = 0 /\ s \in Int
                BY <4>1, <1>6, <1>12, NothingSaved
            <4>3. control' - primed' = s
                BY <3>1, <4>2
            <4> QED BY <3>1, <3>3, <4>3, <1>5 DEF GapIsTheSaving
        <3> QED BY <2>1, <3>2, <3>3
    <2>3. CASE Arm = "primed"
        <3>1. trial \notin order
            BY <1>14, <2>3 DEF Arm
        <3>2. PICK s \in Savings(trial - 1, Shared, evictions = 0) :
                 control - primed = s + drift * l + (BASE + (d - drift) + MISS)
            BY <1>3, <1>9, <1>14, <2>3 DEF GapIsTheSaving, l
        <3>3. s + (MISS - cost) \in Savings(trial, Shared, evictions = 0)
            BY <1>4, <1>6, <3>2, <2>3, SavedMore
        <3>4. control' = control /\ primed' = primed + took
            BY <1>2, <1>6, <2>3
        <3>5. control' - primed' = (s + (MISS - cost)) + (drift * l - drift)
            BY <3>2, <3>4, <1>4, <1>6, <1>7, <1>12
        <3> QED BY <3>1, <3>3, <3>5, <1>11
    <2>4. CASE Arm = "control"
        <3>1. trial \in order
            BY <1>14, <2>4 DEF Arm
        <3>2. PICK s \in Savings(trial, Shared, evictions = 0) :
                 control - primed = s + drift * l - (BASE + (d - drift) + MISS)
            BY <1>3, <1>9, <1>14, <2>4 DEF GapIsTheSaving, l
        <3>3. cost = MISS
            BY <1>4, <2>4 DEF Cold
        <3>4. control' = control + took /\ primed' = primed
            BY <1>2, <1>6, <2>4
        <3>5. control' - primed' = s + (drift * l + drift)
            BY <3>2, <3>3, <3>4, <1>4, <1>6, <1>7, <1>12
        <3> QED BY <3>1, <3>2, <3>5, <1>11
    <2> QED BY <2>3, <2>4 DEF Arm
<1> QED
    BY <1>1, <1>13, <1>14

\* A reading may warm its own prefix, in the observer's cache: no later prompt is on it.
LEMMA MeasureCaches ==
    ASSUME TimingInv, Measure
    PROVE  LaterAreCold' /\ ControlsAreCold' /\ PrimedAreTheOwners'
<1> USE DEF TimingInv
<1> DEFINE prefix == IF Arm = "primed" THEN Prefix(pair, trial) ELSE ControlPrefix(pair, trial)
           timed  == <<domain[Observer(pair)], prefix>>
<1>1. /\ warm \subseteq warm' /\ warm' \subseteq warm \cup {timed}
      /\ UNCHANGED <<domain, evictions, pair, order>>
    BY DEF Measure, serving
<1>2. pair \in 1..NPairs /\ trial \in Trials /\ timed[2] = prefix
    BY DEF TimingTyped
<1>3. ASSUME NEW arm, NEW t \in Trials, ToTime(arm, t)'
      PROVE  ToTime(arm, t) /\ at # "warm" /\ at' # "warm" /\ ~(arm = Arm /\ t = trial)
    <2>1. CASE at = "first"
        <3>1. at' = "second" /\ trial' = trial
            BY <2>1 DEF Measure
        <3>2. Arm' # Arm
            BY <1>1, <2>1, <3>1 DEF Arm
        <3> QED BY <1>2, <1>3, <2>1, <3>1, <3>2 DEF ToTime, Trials
    <2>2. CASE at = "second"
        <3>1. \/ at' = "first" /\ trial' = trial + 1
              \/ at' = "pair"
            BY <2>2 DEF Measure
        <3>2. at' = "first" /\ trial' = trial + 1 /\ t > trial
            BY <1>2, <1>3, <3>1 DEF ToTime, Trials
        <3> QED BY <1>2, <2>2, <3>2 DEF ToTime, Trials
    <2> QED BY <2>1, <2>2 DEF Measure
<1>4. LaterAreCold'
    <2> SUFFICES ASSUME NEW q \in 1..NPairs, NEW t \in Trials, NEW entry \in warm', q > pair
                 PROVE  entry[2] # Prefix(q, t) /\ entry[2] # ControlPrefix(q, t)
        BY <1>1 DEF LaterAreCold, Prefix, ControlPrefix, Owner, Observer
    <2>1. CASE entry \in warm
        BY <2>1 DEF LaterAreCold
    <2>2. CASE entry = timed
        <3>1. q # pair
            BY <1>2, PairsAreCounted
        <3>2. \/ entry[2] = Prefix(pair, trial)
              \/ entry[2] = ControlPrefix(pair, trial)
            BY <2>2
        <3> QED BY <3>1, <3>2, <1>2, PrefixesDiffer
    <2> QED BY <1>1, <2>1, <2>2
<1>5. ControlsAreCold'
    <2> SUFFICES ASSUME NEW t \in Trials, NEW entry \in warm', ToTime("control", t)'
                 PROVE  entry[2] # ControlPrefix(pair, t)
        BY <1>1 DEF ControlsAreCold, ControlPrefix, Owner, Observer
    <2>1. ToTime("control", t) /\ ~(Arm = "control" /\ t = trial)
        BY <1>3
    <2>2. CASE entry \in warm
        BY <2>1, <2>2 DEF ControlsAreCold
    <2>3. CASE entry = timed
        <3>1. entry[2] = prefix
            BY <2>3
        <3>2. Arm \in {"primed", "control"}
            BY DEF Arm
        <3>3. CASE Arm = "primed"
            <4>1. prefix = Prefix(pair, trial)
                BY <3>3
            <4> QED BY <4>1, <3>1, <1>2, PrefixesDiffer
        <3>4. CASE Arm = "control"
            <4>1. prefix = ControlPrefix(pair, trial) /\ t # trial
                BY <3>4, <2>1
            <4> QED BY <4>1, <3>1, <1>2, PrefixesDiffer
        <3> QED BY <3>2, <3>3, <3>4
    <2> QED BY <1>1, <2>2, <2>3
<1>6. PrimedAreTheOwners'
    <2> SUFFICES ASSUME NEW t \in Trials, ToTime("primed", t)'
                 PROVE  /\ \A entry \in warm' :
                              entry[2] = Prefix(pair, t) => entry[1] = domain[Owner(pair)]
                        /\ evictions = 0 => <<domain[Owner(pair)], Prefix(pair, t)>> \in warm'
        BY <1>1 DEF PrimedAreTheOwners, Prefix, Owner, Observer
    <2>1. ToTime("primed", t) /\ ~(Arm = "primed" /\ t = trial) /\ at # "warm"
        BY <1>3
    <2>2. evictions = 0 => <<domain[Owner(pair)], Prefix(pair, t)>> \in warm'
        BY <2>1, <1>1 DEF PrimedAreTheOwners
    <2>3. ASSUME NEW entry \in warm', entry[2] = Prefix(pair, t)
          PROVE  entry[1] = domain[Owner(pair)]
        <3>1. entry # timed
            <4> SUFFICES ASSUME entry = timed PROVE FALSE
                OBVIOUS
            <4>1. prefix = Prefix(pair, t)
                BY <2>3
            <4>2. prefix # ControlPrefix(pair, trial)
                BY <4>1, <1>2, PrefixesDiffer
            <4>3. Arm = "primed" /\ prefix = Prefix(pair, trial)
                BY <4>2
            <4> QED BY <4>1, <4>3, <2>1, <1>2, PrefixesDiffer
        <3> QED BY <3>1, <1>1, <2>1, <2>3 DEF PrimedAreTheOwners
    <2> QED BY <2>2, <2>3
<1> QED
    BY <1>4, <1>5, <1>6

LEMMA MeasureHolds == ASSUME TimingInv, Measure PROVE TimingInv'
<1> USE DEF TimingInv
<1> DEFINE prefix == IF Arm = "primed" THEN Prefix(pair, trial) ELSE ControlPrefix(pair, trial)
<1>1. /\ at \in {"first", "second"} /\ clock' = clock + 1
      /\ UNCHANGED <<domain, flat, drift, evictions, pair, order, signals>>
    BY DEF Measure, serving
<1>2. PICK took : /\ took = Latency(Observer(pair), prefix)
                  /\ primed'  = primed  + (IF Arm = "primed"  THEN took ELSE 0)
                  /\ control' = control + (IF Arm = "control" THEN took ELSE 0)
                  /\ readings' = readings \cup {took}
    BY DEF Measure
<1>3. flat => took = BASE
    BY <1>2 DEF Latency
<1>4. took \in Int
    <2>1. CASE flat
        BY <2>1, <1>3, LatencyAssumed
    <2>2. CASE ~flat
        <3>1. PICK cost : Cold(Arm, cost) /\ took = (BASE + drift * clock) + cost
            BY <1>1, <1>2, <2>2, ReadingIs
        <3>2. drift * clock \in Int /\ cost \in Int /\ BASE \in Int
            BY <3>1, LatencyAssumed DEF TimingTyped, Cold
        <3> QED BY <3>1, <3>2
    <2> QED BY <2>1, <2>2
<1>5. /\ at' \in {"first", "second", "pair"} /\ trial' \in Trials
      /\ at' = "pair" => trial' = TRIALS
    <2>1. trial \in Nat /\ trial >= 1 /\ trial <= TRIALS
        BY TrialsAssumed DEF TimingTyped, Trials
    <2>2. \/ at' = "second" /\ trial' = trial
          \/ at' = "first" /\ trial < TRIALS /\ trial' = trial + 1
          \/ at' = "pair" /\ trial' = trial /\ trial = TRIALS
        BY <1>1, <2>1, TrialsAssumed DEF Measure
    <2> QED BY <2>1, <2>2, TrialsAssumed DEF Trials
<1>6. TimingTyped'
    <2>1. primed' \in Int /\ control' \in Int
        BY <1>2, <1>4 DEF TimingTyped
    <2> QED BY <1>1, <1>5, <2>1 DEF TimingTyped
<1>7. FlatIsUnresolved'
    BY <1>1, <1>2, <1>3 DEF FlatIsUnresolved
<1> HIDE DEF TimingInv
<1>8. GapIsTheSaving' /\ LaterAreCold' /\ ControlsAreCold' /\ PrimedAreTheOwners'
    BY MeasureGap, MeasureCaches
<1>9. SignalsHold'
    BY <1>1, SignalsStay
<1> QED
    BY <1>6, <1>7, <1>8, <1>9 DEF TimingInv

LEMMA TimingStepHolds == ASSUME TimingInv, [TimingNext]_timingVars PROVE TimingInv'
<1>1. CASE UNCHANGED timingVars
    <2> USE <1>1 DEF timingVars, serving, TimingInv
    <2>1. TimingTyped' /\ FlatIsUnresolved'
        BY DEF TimingTyped, FlatIsUnresolved
    <2>2. LaterAreCold' /\ ControlsAreCold' /\ PrimedAreTheOwners'
        BY DEF LaterAreCold, ControlsAreCold, PrimedAreTheOwners,
            ToTime, Arm, Prefix, ControlPrefix, Owner, Observer
    <2>3. GapIsTheSaving'
        BY DEF GapIsTheSaving, Shared, Arm, Owner, Observer
    <2> QED BY <2>1, <2>2, <2>3, SignalsStay
<1> QED
    BY <1>1, WarmUpHolds, MeasureHolds, CloseHolds, TimingRaisesHolds, EvictHolds DEF TimingNext

\* Whatever a run of the timing probe has warmed and timed, and whatever was evicted: what
\* is warm, and by how much the two arms of the pair under way differ, is accounted for.
THEOREM TimingInductive == TimingSpec => []TimingInv
<1> QED
    BY TimingInitHolds, TimingStepHolds, PTL DEF TimingSpec

\* For any number of tenants and trials, any latencies and any balanced order of the arms:
\* a gap is never more than the owner's warm-up saved the observer, is all of that unless
\* the cache evicted, and a finding is of two tenants that share a cache (KvCacheTimingProbe.run
\* and ._measure).
THEOREM GapIsTheOwners == TimingSpec => []ChannelIsTheOwners
<1>1. ASSUME TimingInv PROVE ChannelIsTheOwners
    <2>1. SignalsHold
        BY <1>1 DEF TimingInv
    <2>2. \A p \in Findings : domain[Owner(p)] = domain[Observer(p)]
        <3> SUFFICES ASSUME NEW p \in Findings, domain[Owner(p)] # domain[Observer(p)]
                     PROVE  FALSE
            OBVIOUS
        <3>1. p \in EffectSizes /\ signals[p].gap > 0
            BY DEF Findings, Significant, EffectSizes
        <3>2. signals[p].gap \in 0..0
            BY <2>1, <3>1 DEF SignalsHold
        <3> QED BY <3>1, <3>2
    <2> QED BY <2>1, <2>2 DEF ChannelIsTheOwners, SignalsHold
<1> QED
    BY <1>1, TimingInductive, PTL
=============================================================================
