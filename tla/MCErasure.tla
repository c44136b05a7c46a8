------------------------------ MODULE MCErasure ------------------------------
(* Instances of ErasureRun for TLC: the vector store, a live tracing backend *)
(* that this command cannot seed, whose ingestion lags and which may have no *)
(* erasure API, and the cache, which is listed once per scan.  The target    *)
(* owns two markers, one of them a hard canary.                              *)
EXTENDS ErasureRun

CONSTANTS vector, tracing, cache, hard, soft

Two   == {vector, tracing}
Three == {vector, tracing, cache}

TwoOrder   == <<vector, tracing>>
ThreeOrder == <<vector, tracing, cache>>
=============================================================================
