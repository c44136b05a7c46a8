---------------------------- MODULE MCRegression ----------------------------
(* Instances of Regression for TLC: a stack with one leak per kind of        *)
(* measurement (by similarity, behind two plants, by user, by paraphrase,    *)
(* by timing, through the RAG pipeline), and one with residue on two         *)
(* surfaces.                                                                 *)
EXTENDS Regression

Lk(id, probe, surface, user, plant, geometry, verbatim, severity) ==
    [id |-> id, probe |-> probe, surface |-> surface, user |-> user, plant |-> plant,
     geometry |-> geometry, verbatim |-> verbatim, severity |-> severity]

Bleed  == Lk(1, "rag-entity-bleed", "vector_db", FALSE, 0, "a", TRUE, "critical")
Poison == {Lk(2, "rag-poisoning", "vector_db", FALSE, 1, "any", TRUE, "high"),
           Lk(3, "rag-poisoning", "vector_db", FALSE, 2, "any", FALSE, "high")}
Cached == {Lk(4, "semantic-cache-contamination", "semantic_cache", FALSE, 3, "any", FALSE, "high"),
           Lk(5, "semantic-cache-contamination", "semantic_cache", TRUE, 3, "any", TRUE, "high")}
Timing == Lk(6, "kv-cache-timing", "model_adapter", FALSE, 0, "any", TRUE, "medium")
Piped  == Lk(7, "rag-pipeline-bleed", "rag_pipeline", FALSE, 0, "any", TRUE, "critical")

StackLeaks == {Bleed, Timing, Piped} \cup Poison \cup Cached
FakesShow  == Poison
Remains    == {Lk(8, "gdpr-erasure-verification", "vector_db", FALSE, 0, "any", TRUE, "high"),
               Lk(9, "gdpr-erasure-verification", "agent_memory", FALSE, 0, "any", TRUE, "high")}
All == StackLeaks \cup Remains
=============================================================================
