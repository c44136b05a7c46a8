----------------------------- MODULE SurfaceStores -----------------------------
(***************************************************************************)
(* The stores of the erasure surfaces that are neither a vector store nor  *)
(* a trace backend: the backups (S3, GCS), the golden eval set, the search *)
(* index, the memories (mem0, Redis) and the cache (Redis).  A scan asks   *)
(* one of them for a marker, before and after an erasure, and a purge      *)
(* deletes a tenant's rows; an erasure does one at a time, but a purge is  *)
(* several requests, any of which may fail.                                *)
(*                                                                         *)
(* A row is a stored text, which is the marker, or shares a word with it   *)
(* as every canary does, or neither.  A bucket that is or was versioned    *)
(* keeps old rows, and one with a soft-delete policy what was deleted.  An *)
(* adapter reads which it is once, and keeps the answer for its life; the  *)
(* operator may change the bucket before that, after it, or in between two *)
(* requests of a call.                                                     *)
(***************************************************************************)
EXTENDS Naturals, FiniteSets

CONSTANTS
    Kinds,     \* the stores under test
    Rows,      \* the rows' names
    Tenants, SurfaceUsers,
    NO_USER,   \* the user of a row that is no user's, and of a tenant-level call
    LIMIT,     \* the cap of a listing or a page
    DELETE_BATCH,  \* keys of one delete request
    MaxUses    \* bound on the calls

ASSUME SurfacesAssumed ==
    Kinds \subseteq {"s3", "gcs", "eval_set", "search_index", "mem0", "redis_memory", "redis_cache"}
ASSUME RowsAssumed  == IsFiniteSet(Rows)
ASSUME LimitAssumed == LIMIT \in Nat
ASSUME OwnersAssumed == Tenants # {}

VARIABLES
    kind,
    soft_delete, no_erasure, shared, keeps_users,   \* the adapter's configuration
    versioning,   \* environment: "never", "on", or "off" again, old versions kept
    retention,    \* environment: "none", "some", or one that cannot be read
    row,          \* what each row is: see Row
    live, old,    \* environment: rows listed, rows kept as old versions
    deleted,      \* environment: rows a purge deleted and the policy can restore
    versioned,    \* what the adapter read of the versioning, once
    policy,       \* what the adapter read of the retention, once
    op, uses,
    answer,       \* what the last call returned or raised
    lost,         \* history: rows of other tenants a purge took
    outdated      \* history: the bucket began to keep rows after the adapter read it does not

surfaceVars ==
    <<kind, soft_delete, no_erasure, shared, keeps_users, versioning, retention, row,
      live, old, deleted, versioned, policy, op, uses, answer, lost, outdated>>
config == <<kind, soft_delete, no_erasure, shared, keeps_users>>
bucket == <<versioning, retention>>
kept   == <<live, old, deleted>>
known  == <<versioned, policy, outdated>>

Row     ==
    [tenant : Tenants, user : SurfaceUsers \cup {NO_USER}, text : {"marker", "decoy", "other"}]
Backups == {"s3", "gcs"}
Of(t)   == {r \in Rows : row[r].tenant = t}
Restorable(t) == Of(t) \cap (live \cup old \cup deleted)
Idle    == [call |-> "none", tenant |-> CHOOSE t \in Tenants : TRUE, user |-> NO_USER, todo |-> {}]

Return(a) ==
    /\ answer' = [call |-> op.call, tenant |-> op.tenant, user |-> op.user, is |-> a]
    /\ op' = Idle

\* Any request of a call raises, and so does an answer the adapter cannot read: a body
\* without its rows or its total, an object listed and not readable.
SurfaceRaises ==
    /\ op.call # "none"
    /\ Return("error")
    /\ UNCHANGED <<config, bucket, row, kept, known, uses, lost>>

-----------------------------------------------------------------------------
(* What each store lists of a tenant, and what a scan makes of it. *)

\* Old versions outlive the versioning: on and off both mean a versioned bucket.
IsVersioned == versioned = "yes"

S3Objects(t)  == Of(t) \cap (IF IsVersioned THEN live \cup old ELSE live)
GcsBlobs(t)   == Of(t) \cap (live \cup old)
TenantRows(t) == Of(t) \cap live
\* One shared scope holds every tenant's memories.
Mem0Scope(t)  == IF shared THEN live ELSE Of(t) \cap live
\* A shared recall reads every tenant's list, a user-scoped one leaves out other users'.
RedisEntries(t, user) ==
    {r \in (IF shared THEN live ELSE Of(t) \cap live) :
        keeps_users /\ user # NO_USER => row[r].user \in {user, NO_USER}}
\* Without the tenant in the key, the pattern matches every tenant's keys.
RedisValues(t) == IF shared THEN live ELSE Of(t) \cap live

\* What a capped listing may return of a set of rows.
Pages(rows) == {s \in SUBSET rows : Cardinality(s) = LIMIT \/ (s = rows /\ Cardinality(s) <= LIMIT)}

HasMarker(rows) == \E r \in rows : row[r].text = "marker"
Overlapping(rows) == {r \in rows : row[r].text # "other"}

\* Fault: any hit will do to accept a full page, one the caller will not count too.
LooseJudgement(page, partial) ==
    IF HasMarker(page) THEN "found"
    ELSE IF partial /\ Overlapping(page) = {} THEN "refused" ELSE "absent"

\* Only a miss on a page that may be cut is refused, and a miss is the caller's: a hit
\* on a shared word is none.
Judgement(page, partial) ==
    IF HasMarker(page) THEN "found" ELSE IF partial THEN "refused" ELSE "absent"

Scanned(a) ==
    /\ Return(a)
    /\ UNCHANGED <<config, bucket, row, kept, known, uses, lost>>

S3Search ==
    /\ kind = "s3" /\ op.call = "search" /\ versioned # "unread"
    /\ Scanned(Judgement(S3Objects(op.tenant), FALSE))

GcsSearch ==
    /\ kind = "gcs" /\ op.call = "search"
    /\ Scanned(Judgement(GcsBlobs(op.tenant), FALSE))

EvalSetSearch ==
    /\ kind = "eval_set" /\ op.call = "search"
    /\ \E page \in Pages(TenantRows(op.tenant)) :
          Scanned(Judgement(page, Cardinality(page) >= LIMIT))

\* A page of the rows that match the query, and their total.
SearchIndexSearch ==
    /\ kind = "search_index" /\ op.call = "search"
    /\ LET matches == Overlapping(TenantRows(op.tenant))
       IN  \E page \in Pages(matches) :
              Scanned(Judgement(page, Cardinality(matches) > Cardinality(page)))

\* The listing is filtered here, and every row of it counts toward its cap.
Mem0Recall ==
    /\ kind = "mem0" /\ op.call = "search"
    /\ \E page \in Pages(Mem0Scope(op.tenant)) :
          Scanned(Judgement(page, Cardinality(page) >= LIMIT))

RedisRecall ==
    /\ kind = "redis_memory" /\ op.call = "search"
    /\ Scanned(Judgement(RedisEntries(op.tenant, op.user), FALSE))

CacheValues ==
    /\ kind = "redis_cache" /\ op.call = "search"
    /\ Scanned(Judgement(RedisValues(op.tenant), FALSE))

-----------------------------------------------------------------------------
(* Purges. *)

Purged(a, rows) ==
    /\ live' = live \ rows /\ old' = old \ rows
    /\ lost' = lost \cup (rows \ Of(op.tenant))
    /\ Return(a)
    /\ UNCHANGED <<config, bucket, row, deleted, known, uses>>

Purging(k) == kind = k /\ op.call = "delete"
Done == Purged("done", {})     \* acknowledged, and nothing deleted

\* An immutable bucket has no purge, and a store that soft-deletes only says it has.
BackupRefuses == kind \in Backups /\ op.call = "delete" /\ no_erasure /\ Purged("unsupported", {})
SoftDelete ==
    /\ op.call = "delete" /\ soft_delete
    /\ ~no_erasure
    /\ ~(kind = "mem0" /\ shared)
    /\ Done

Purges(k) == Purging(k) /\ ~no_erasure /\ ~soft_delete

\* The first call that has to know asks the bucket, and no later one asks again.
ReadVersioning ==
    /\ kind = "s3" /\ versioned = "unread"
    /\ op.call = "search" \/ Purges("s3")
    /\ versioned' = IF versioning = "never" THEN "no" ELSE "yes"
    /\ UNCHANGED <<config, bucket, row, kept, policy, op, uses, answer, lost, outdated>>

ReadPolicy ==
    /\ Purges("gcs") /\ policy = "unasked"
    /\ policy' = retention
    /\ UNCHANGED <<config, bucket, row, kept, versioned, op, uses, answer, lost, outdated>>

S3List ==
    /\ Purges("s3") /\ op.todo = {} /\ versioned # "unread"
    /\ IF S3Objects(op.tenant) = {} THEN Return("done")
       ELSE op' = [op EXCEPT !.todo = S3Objects(op.tenant)] /\ UNCHANGED answer
    /\ UNCHANGED <<config, bucket, row, kept, known, uses, lost>>

\* What deleting listed rows may leave as old versions.  A listed version is deleted for
\* good.  A key without one is hidden under a delete marker where versioning is on; where
\* it is suspended, what was written before it was first on goes, and what was since stays.
Hidden(rows) ==
    IF IsVersioned \/ versioning = "never" THEN {{}}
    ELSE IF versioning = "on"               THEN {rows \cap live}
    ELSE                                         SUBSET (rows \cap live)

\* A batch of what was listed; one object that is left in place ends the purge.
S3Batch ==
    /\ Purges("s3") /\ op.todo # {}
    /\ \E batch \in SUBSET op.todo, left \in SUBSET op.todo :
          /\ Cardinality(batch) <= DELETE_BATCH /\ batch # {} /\ left \subseteq batch
          /\ \E hidden \in Hidden(batch \ left) :
                /\ live' = live \ (batch \ left)
                /\ old' = hidden \cup (IF IsVersioned THEN old \ (batch \ left) ELSE old)
          /\ IF left # {} THEN Return("error")
             ELSE IF batch = op.todo THEN Return("done")
             ELSE op' = [op EXCEPT !.todo = @ \ batch] /\ UNCHANGED answer
    /\ UNCHANGED <<config, bucket, row, deleted, known, uses, lost>>

\* A policy that keeps what is deleted makes a purge no erasure.
KeepsDeleted == policy # "none"

\* Every version is attempted; one that stays makes the purge an error.
GcsDelete ==
    /\ Purges("gcs") /\ policy # "unasked"
    /\ IF KeepsDeleted THEN Purged(IF policy = "some" THEN "unsupported" ELSE "error", {})
       ELSE \E failed \in SUBSET GcsBlobs(op.tenant) :
              LET rows == GcsBlobs(op.tenant) \ failed
              IN  /\ live' = live \ rows /\ old' = old \ rows
                  /\ deleted' = IF retention = "none" THEN deleted ELSE deleted \cup rows
                  /\ Return(IF failed = {} THEN "done" ELSE "error")
                  /\ UNCHANGED <<config, bucket, row, known, uses, lost>>

EvalSetDelete     == Purges("eval_set")     /\ Purged("done", TenantRows(op.tenant))
SearchIndexDelete == Purges("search_index") /\ Purged("done", TenantRows(op.tenant))

\* One scope for all tenants has no purge of one.
Mem0Delete ==
    \/ Purging("mem0") /\ shared /\ Purged("unsupported", {})
    \/ Purges("mem0") /\ ~shared /\ Purged("done", Mem0Scope(op.tenant))

\* A write lands in the tenant's own list, shared or not.
RedisMemoryDelete == Purges("redis_memory") /\ Purged("done", TenantRows(op.tenant))

\* Keys without a tenant cannot be told apart: nothing is deleted.
RedisCacheDelete ==
    \/ Purges("redis_cache") /\ shared /\ Done
    \/ Purges("redis_cache") /\ ~shared /\ Purged("done", TenantRows(op.tenant))

-----------------------------------------------------------------------------
SurfaceBegin(c, tenant, user) ==
    /\ op.call = "none" /\ uses < MaxUses
    /\ c = "delete" \/ kind # "redis_memory" => user = NO_USER
    /\ op' = [Idle EXCEPT !.call = c, !.tenant = tenant, !.user = user]
    /\ uses' = uses + 1
    /\ UNCHANGED <<config, bucket, row, kept, known, answer, lost>>

\* The operator turns versioning on or off, whatever an adapter has read of it.
SetVersioning ==
    /\ kind \in Backups
    /\ versioning' = (IF versioning = "on" THEN "off" ELSE "on")
    /\ outdated' = (outdated \/ versioned = "no")
    /\ UNCHANGED <<config, retention, row, kept, versioned, policy, op, uses, answer, lost>>

\* The operator gives the bucket a soft-delete policy or takes it away, whatever an
\* adapter has read of it; what was deleted under one stays restorable.
SetRetention ==
    /\ kind = "gcs" /\ retention # "unread"
    /\ retention' = (IF retention = "none" THEN "some" ELSE "none")
    /\ outdated' = (outdated \/ policy = "none")
    /\ UNCHANGED <<config, versioning, row, kept, versioned, policy, op, uses, answer, lost>>

\* A row is superseded, or deleted, under versioning and stays as an old version.
Supersede ==
    /\ versioning = "on"
    /\ \E r \in live : live' = live \ {r} /\ old' = old \cup {r}
    /\ UNCHANGED <<config, bucket, row, deleted, known, op, uses, answer, lost>>

Operator == SetVersioning \/ SetRetention \/ Supersede
Reading == ReadVersioning \/ ReadPolicy
Search == S3Search \/ GcsSearch \/ EvalSetSearch \/ SearchIndexSearch \/ Mem0Recall \/ RedisRecall \/ CacheValues
Purge == \/ BackupRefuses \/ SoftDelete \/ S3List \/ S3Batch \/ GcsDelete \/ EvalSetDelete
          \/ SearchIndexDelete \/ Mem0Delete \/ RedisMemoryDelete \/ RedisCacheDelete

SurfaceInit ==
    /\ kind \in Kinds
    /\ soft_delete \in (IF kind = "redis_cache" THEN {FALSE} ELSE BOOLEAN)
    /\ no_erasure \in (IF kind \in Backups THEN BOOLEAN ELSE {FALSE})
    /\ shared \in (IF kind \in {"mem0", "redis_memory", "redis_cache"} THEN BOOLEAN ELSE {FALSE})
    /\ keeps_users \in (IF kind = "redis_memory" THEN BOOLEAN ELSE {FALSE})
    /\ versioning \in (IF kind \in Backups THEN {"never", "on", "off"} ELSE {"never"})
    /\ retention \in (IF kind = "gcs" THEN {"none", "some", "unread"} ELSE {"none"})
    /\ row \in [Rows -> Row]
    /\ \A r \in Rows : kind # "redis_memory" => row[r].user = NO_USER
    /\ live = Rows /\ old = {} /\ deleted = {}
    /\ versioned = "unread" /\ policy = "unasked"
    /\ op = Idle /\ uses = 0
    /\ answer = [call |-> "none", tenant |-> Idle.tenant, user |-> NO_USER, is |-> "none"]
    /\ lost = {} /\ outdated = FALSE

SurfaceNext ==
    \/ Reading \/ Search \/ Purge \/ SurfaceRaises \/ Operator
    \/ \E c \in {"search", "delete"}, t \in Tenants, u \in SurfaceUsers \cup {NO_USER} :
          SurfaceBegin(c, t, u)

SurfaceSpec == SurfaceInit /\ [][SurfaceNext]_surfaceVars

-----------------------------------------------------------------------------
\* A tenant-level scan that finds nothing means that nothing of the marker can be read or
\* restored: no cap, old version, deleted object, shared word, unread policy or earlier
\* purge that failed half-way hides it.  Where the bucket began to keep rows after the
\* adapter had read that it keeps none, it means no more than that nothing is listed.
AbsentIsGone ==
    [][op.call = "search" /\ op.user = NO_USER /\ op'.call = "none" /\ answer'.is = "absent"
          => ~HasMarker(IF outdated THEN TenantRows(op.tenant) ELSE Restorable(op.tenant))]_surfaceVars

\* A purge that reports done has taken all of the tenant and no other tenant's row, unless
\* the store is configured to keep it, or began to after the adapter had read that it does
\* not, when only what is listed is gone; one that reports "unsupported" has taken nothing.
PurgesAreWhole ==
    [][op.call = "delete" =>
          /\ op'.call = "none" /\ answer'.is = "done" /\ ~soft_delete /\ ~(kind = "redis_cache" /\ shared) =>
                Of(op.tenant) \cap (live' \cup (IF outdated THEN {} ELSE old' \cup deleted')) = {}
          /\ op'.call = "none" /\ answer'.is = "unsupported" => UNCHANGED kept
          /\ lost' = {}]_surfaceVars

\* No cap, old version, soft-deleted object, unread policy or half-failed purge hides a
\* marker from a tenant-level scan, and a purge that reports done is whole, as long as what
\* the adapter read of the bucket, once, is so (S3Backup._is_versioned, GCSBackup._meta).
SurfacesAreHonest == AbsentIsGone /\ PurgesAreWhole

\* As the comment of S3Backup._is_versioned has it: the scan that follows a purge does not
\* read the versions the deletes retained as gone, whenever the bucket was versioned.
VersionsAreSeen ==
    [][answer.call = "delete" /\ answer.is = "done" /\ kind = "s3" /\ ~soft_delete
       /\ op.call = "search" /\ op.tenant = answer.tenant
       /\ op'.call = "none" /\ answer'.is = "absent"
          => ~HasMarker(Of(op.tenant) \cap old)]_surfaceVars
=============================================================================
