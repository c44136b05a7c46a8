------------------------------- MODULE MCProbe -------------------------------
(* Instances of ProbeParts for TLC.  Two tenants, the second with two users, *)
(* on a vector store that carries no user, a cache that does, and a model:   *)
(*   Poison  plants in the vector store as tenant a and as b's user, queries *)
(*           it as tenant a and as that user                                 *)
(*   Cached  plants in the cache as b's user, reads it as a, and as b's      *)
(*           other user                                                      *)
(*   Narrow  plants and reads the vector store as b's users: nothing of it   *)
(*           can run                                                         *)
EXTENDS ProbeParts

CONSTANTS vector, cache, model, a, b, u, v

A  == [tenant |-> a, user |-> NoUser]
B  == [tenant |-> b, user |-> NoUser]
BU == [tenant |-> b, user |-> u]
BV == [tenant |-> b, user |-> v]

Doc(f, o, p)   == [family |-> f, owner |-> o, by |-> p]
Put(o, d)      == [action |-> "plant", actor |-> o, doc |-> d, all |-> FALSE]
Get(o, d)      == [action |-> "read", actor |-> o, doc |-> d, all |-> FALSE]
Query(o, f)    == [action |-> "read", actor |-> o, doc |-> Doc(f, o, 0), all |-> TRUE]

Poison(p) == <<Put(A, Doc(vector, A, p)), Put(BU, Doc(vector, BU, p)),
               Query(A, vector), Query(BU, vector)>>
Cached(p) == <<Put(BU, Doc(cache, BU, p)), Get(A, Doc(cache, BU, p)), Get(BV, Doc(cache, BU, p))>>
Narrow(p) == <<Put(BU, Doc(vector, BU, p)), Query(BV, vector)>>

PlantingSuite == <<Poison(1), Cached(2), Narrow(3)>>
Seeded == {Doc(vector, A, 0), Doc(vector, B, 0)}
=============================================================================
