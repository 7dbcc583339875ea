------------------------------- MODULE Repo --------------------------------
(***************************************************************************)
(* The repository engine of model/mongox/mongox.go (CollectionLib) over a  *)
(* MongoDB collection, used concurrently by several callers.               *)
(*                                                                         *)
(* The collection is `store`, a function from document id to the stored   *)
(* entity.  Each driver call (FindOne, InsertOne, ReplaceOne, UpdateOne,   *)
(* CountDocuments, DeleteOne, UpdateMany, DeleteMany) is atomic, and       *)
(* callers interleave between them.  A caller holds one entity in memory   *)
(* (`doc`), a pointer the engine stamps in place before it calls the       *)
(* store.  Clock readings (timex.Now()) come from `now`; with StrictClock  *)
(* FALSE two readings may fall into the same millisecond.                  *)
(***************************************************************************)
EXTENDS Naturals, FiniteSets, TLC, Audit, RepoOpt

CONSTANTS
    Clients,      \* the callers sharing one CollectionLib
    Ids,          \* document ids (never the zero id)
    Vals,         \* values of the entity's own data field
    Users,        \* operator ids
    Tenants,      \* tenant ids
    Ctx,          \* Ctx[c]: the context.Context c passes to every call
    LibOpt,       \* the CollectionLib's own RepoOpt (l.opt)
    MaxTime,      \* bound on the clock
    StrictClock,  \* every timex.Now() returns a new millisecond
    BlindWrites,  \* callers pass hand-built entities to Update/Upsert/Patch/Delete
    StorageFailures, \* driver writes may fail with a driver error (StorageFailure)
    AuditMs,      \* the audit fields are the int64 epoch-ms variants
                  \* (CreateAuditMs, UpdateAuditMs, DeleteAuditMs)
    NoRecord      \* no document stored under an id / no entity held

ASSUME /\ DOMAIN Ctx = Clients /\ LibOpt \in RepoOpts
       /\ MaxTime \in Nat \ {0} /\ {StrictClock, BlindWrites, StorageFailures, AuditMs} \subseteq BOOLEAN

(***************************************************************************)
(* What the engine reads from a caller's context.  Every context carries  *)
(* an operator.  CtxCreateAudit needs the tenant id and the app id; the    *)
(* model keeps one field for both, NoId when either is missing (the        *)
(* modelled contexts bind both or neither).                                *)
(***************************************************************************)
User   == [c \in Clients |-> CtxGetOperator(Ctx[c]).val]
Tenant == [c \in Clients |-> IF CtxGetTenantID(Ctx[c]).ok /\ CtxGetAppID(Ctx[c]).ok
                             THEN CtxGetTenantID(Ctx[c]).val ELSE NoId]

ASSUME \A c \in Clients : /\ CtxGetOperator(Ctx[c]).ok /\ User[c] \in Users
                         /\ Tenant[c] \in Tenants \cup {NoId}
                         /\ CtxRepoOptOrNew(Ctx[c]) \in RepoOpts

VARIABLES
    store,   \* id -> stored entity or NoRecord
    now,     \* last millisecond read from the clock
    doc,     \* c -> the entity c holds in memory, or NoRecord
    origin,  \* c -> "loaded" if doc[c] is what c's last call returned on
             \* success, "retry" if that call failed in the driver and c
             \* retries with the entity it passed, "built" otherwise
    pc,      \* c -> "idle", or the step c is at inside a call
    pend,    \* c -> the filter c built before its next store call
    op,      \* c -> the call c is in
    tries,   \* c -> FindOne attempts the backoff Get of c has made
    view,    \* history: c -> "none", "current" or "stale": whether any
             \* write reached doc[c]'s id since c loaded or wrote it
    last     \* history: the last call that returned

vars == <<store, now, doc, origin, pc, pend, op, tries, view, last>>

Times   == 0..(MaxTime + Cardinality(Clients))
\* The audit times; an entity's Dates are those held as a BSON datetime
\* (time.Time) rather than an int64: all of them or, for the Ms variants,
\* none.  A stored document's Dates are the BSON types of its fields.
AuditFields == {"CreatedAt", "UpdatedAt", "DeletedAt"}
EntityDates == IF AuditMs THEN {} ELSE AuditFields
Entities == [ID : Ids, Data : Vals, TenantID : Tenants \cup {NoId},
             CreatedBy : Users \cup {NoId}, CreatedAt : Times,
             UpdatedBy : Users \cup {NoId}, UpdatedAt : Times,
             DeletedAt : Times, Dates : SUBSET AuditFields]

\* An isolation predicate: field = val, or none.
NoCond   == [field |-> "none", val |-> NoId]
IsoConds == {NoCond} \cup [field : {"CreatedBy"}, val : Users]
                     \cup [field : {"TenantID"}, val : Tenants]
\* A filter document: _id in ids, updated_at = lock (0: absent), the
\* isolation predicate, and deleted_at $exists false when soft.
Filters  == [ids : SUBSET Ids, lock : Times, iso : IsoConds, soft : BOOLEAN]

Ops     == {"none", "get", "create", "update", "upsert", "patch", "delete",
            "batchDelete"}
Results == {"none", "ok", "notfound", "conflict", "missing", "error"}
Views   == {"none", "current", "stale"}

\* A fresh entity built by the caller: an id and data, nothing stamped.
Fresh(i, v) == [ID |-> i, Data |-> v, TenantID |-> NoId, CreatedBy |-> NoId,
                CreatedAt |-> 0, UpdatedBy |-> NoId, UpdatedAt |-> 0,
                DeletedAt |-> 0, Dates |-> EntityDates]

(***************************************************************************)
(* Readings of timex.Now() available to a step.                            *)
(***************************************************************************)
Readings(limit) == {t \in {now, now + 1} : /\ t \in 1..limit
                                           /\ StrictClock => t = now + 1}
\* A call starts only while the clock is below MaxTime; a reading inside
\* a call already started (PatchRaw) may pass it, by at most one per caller.
StartTimes == Readings(MaxTime)
NextTimes  == Readings(MaxTime + Cardinality(Clients))

(***************************************************************************)
(* Filters: GetMergedRepoOpt, injectIsolationCond, injectSoftDeleteCond,   *)
(* InjectCond.                                                             *)
(***************************************************************************)
\* The merge depends on the caller alone, so it is computed once per caller.
MergedRepoOpt == [c \in Clients |-> CtxMergeRepoOpt(CtxRepoOptOrNew(Ctx[c]), LibOpt)]
GetMergedRepoOpt(c) == MergedRepoOpt[c]

injectIsolationCond(c) ==
    LET mode == GetMergedRepoOpt(c).DataIsolation IN
    CASE mode = "user"   /\ HasCreateAudit -> [field |-> "CreatedBy", val |-> User[c]]
      [] mode = "tenant" /\ HasTenant      -> [field |-> "TenantID", val |-> Tenant[c]]
      [] OTHER                             -> NoCond

\* injectIsolationCond's MissingContext return is not modelled: a caller
\* whose merged isolation is by tenant carries a tenant id.
ASSUME \A c \in Clients :
           GetMergedRepoOpt(c).DataIsolation = "tenant" => Tenant[c] # NoId

\* Defect: the soft-delete condition never injected.
injectSoftDeleteCondNever(c) == FALSE

injectSoftDeleteCond(c) ==
    GetMergedRepoOpt(c).SoftDelete # SoftDeleteDisable /\ HasDeleteAudit

InjectCond(c, ids, lock) ==
    [ids |-> ids, lock |-> lock, iso |-> injectIsolationCond(c),
     soft |-> injectSoftDeleteCond(c)]

\* The store's evaluation of a filter against a stored document.
Matches(r, f) ==
    /\ r # NoRecord
    /\ r.ID \in f.ids
    /\ f.lock # 0 => /\ r.UpdatedAt = f.lock
                     /\ "UpdatedAt" \in r.Dates <=> "UpdatedAt" \in EntityDates
    /\ f.iso.field # "none" => r[f.iso.field] = f.iso.val
    /\ f.soft => r.DeletedAt = 0

(***************************************************************************)
(* History bookkeeping: a store write to id i makes every other holder's   *)
(* view of i stale; the writer's own view becomes current when its entity *)
(* is what was written.                                                    *)
(***************************************************************************)
AfterWrite(c, ids, writerCurrent) ==
    [d \in Clients |->
        CASE d = c /\ writerCurrent                         -> "current"
          [] doc[d] # NoRecord /\ doc[d].ID \in ids
                               /\ view[d] = "current"       -> "stale"
          [] OTHER                                          -> view[d]]

Return(c, o, res, locked) ==
    /\ last' = [by |-> c, op |-> o, res |-> res, locked |-> locked,
                basis |-> view[c], retry |-> origin[c] = "retry"]
    /\ pc' = [pc EXCEPT ![c] = "idle"]
    /\ op' = [op EXCEPT ![c] = o]
    /\ tries' = [tries EXCEPT ![c] = 0]

\* The caller keeps the entity a write call returns on success, and the
\* entity it passed (stamped in place) to retry after a driver error.
Settle(c, res) ==
    origin' = [origin EXCEPT ![c] = CASE res = "ok"    -> "loaded"
                                      [] res = "error" -> "retry"
                                      [] OTHER         -> "built"]

(***************************************************************************)
(* With StorageFailures a driver write (InsertOne, ReplaceOne, UpdateOne,  *)
(* DeleteOne, UpdateMany, DeleteMany) may return an error instead of its   *)
(* result: before it wrote, or after the store applied written, the       *)
(* store the call leaves, to the ids it touches (the reply was lost).      *)
(***************************************************************************)
DriverError(c, o, ids, written, writerCurrent) ==
    /\ StorageFailures
    /\ \/ UNCHANGED <<store, view>>
       \/ /\ written # store
          /\ store' = written
          /\ view' = AfterWrite(c, ids, writerCurrent)
    /\ Return(c, o, "error", FALSE)

\* A write call o may take a caller's own entity only if it was loaded, or
\* to retry the call o that failed with it, unless callers are assumed to
\* build entities by hand.
MayWrite(c, o) ==
    /\ doc[c] # NoRecord
    /\ \/ BlindWrites
       \/ origin[c] = "loaded"
       \/ origin[c] = "retry" /\ op[c] = o

-----------------------------------------------------------------------------
(***************************************************************************)
(* The caller builds an entity by hand, or edits the data of the one it    *)
(* holds.  Neither touches the store.                                      *)
(***************************************************************************)
NewDoc(c, i, v) ==
    /\ pc[c] = "idle"
    /\ doc' = [doc EXCEPT ![c] = Fresh(i, v)]
    /\ origin' = [origin EXCEPT ![c] = "built"]
    /\ view' = [view EXCEPT ![c] = "none"]
    /\ UNCHANGED <<store, now, pc, pend, op, tries, last>>

EditDoc(c, v) ==
    /\ pc[c] = "idle"
    /\ doc[c] # NoRecord
    /\ doc' = [doc EXCEPT ![c].Data = v]
    /\ UNCHANGED <<store, now, origin, pc, pend, op, tries, view, last>>

(***************************************************************************)
(* Get(id) -> GetByFilter: InjectCond, then FindOne; a found document     *)
(* replaces the caller's entity.  With TryFixSyncDelay none (or unset) no *)
(* document is ErrNotFound.  With backoff, FindOne runs under retry.Do:   *)
(* ErrNotFound is retried after a 50-100 ms delay, in which other callers *)
(* act, up to retry.Attempts(3) FindOnes in all; the last error returns.  *)
(***************************************************************************)
RetryAttempts == 3

Backoff(c) == GetMergedRepoOpt(c).TryFixSyncDelay \notin {"none", ""}

\* Defect: retry.Attempts(0), which retry-go reads as "until success".
MayRetryForever(n) == TRUE

\* Whether retry.Do calls FindOne again after the n-th attempt found nothing.
MayRetry(n) == n < RetryAttempts

\* Decode(&ret) of a stored document: the driver's int64 decoder takes no
\* BSON datetime, nor its time.Time decoder an int64, so a document decodes
\* when its audit fields have the entity's own types.
Decodes(r) == r.Dates = EntityDates

\* FindOne found document i; a decode error is "mongo find failed: %w", which
\* the backoff's RetryIf does not retry.
GetFound(c, i) ==
    \/ /\ Decodes(store[i])
       /\ doc' = [doc EXCEPT ![c] = store[i]]
       /\ origin' = [origin EXCEPT ![c] = "loaded"]
       /\ view' = [view EXCEPT ![c] = "current"]
       /\ Return(c, "get", "ok", FALSE)
       /\ UNCHANGED pend
    \/ /\ ~Decodes(store[i])
       /\ Return(c, "get", "error", FALSE)
       /\ UNCHANGED <<doc, origin, view, pend>>

\* The n-th FindOne with filter f found nothing.  The count is kept only up
\* to RetryAttempts, the value it is compared with.
GetNotFound(c, f, n) ==
    \/ /\ Backoff(c) /\ MayRetry(n)
       /\ pc' = [pc EXCEPT ![c] = "backoff"]
       /\ op' = [op EXCEPT ![c] = "get"]
       /\ pend' = [pend EXCEPT ![c] = f]
       /\ tries' = [tries EXCEPT ![c] = IF n < RetryAttempts THEN n ELSE RetryAttempts]
       /\ UNCHANGED <<doc, origin, view, last>>
    \/ /\ ~(Backoff(c) /\ MayRetry(n))
       /\ Return(c, "get", "notfound", FALSE)
       /\ UNCHANGED <<doc, origin, view, pend>>

Get(c, i) ==
    /\ pc[c] = "idle"
    /\ LET f == InjectCond(c, {i}, 0) IN
       \/ Matches(store[i], f) /\ GetFound(c, i)
       \/ ~Matches(store[i], f) /\ GetNotFound(c, f, 1)
    /\ UNCHANGED <<store, now>>

\* The backoff Get's next FindOne, after the delay.
BackoffGet(c) ==
    /\ pc[c] = "backoff"
    /\ \E i \in pend[c].ids :
         \/ Matches(store[i], pend[c]) /\ GetFound(c, i)
         \/ ~Matches(store[i], pend[c]) /\ GetNotFound(c, pend[c], tries[c] + 1)
    /\ UNCHANGED <<store, now>>

(***************************************************************************)
(* Create: CtxCreateAudit stamps the caller's entity in place, then        *)
(* InsertOne; a duplicate _id is ErrConflict.  The id is never zero here,  *)
(* so checkIfIDExisted passes.  A context without a tenant id fails the    *)
(* audit (MissingContext) with the creator stamp already on the entity.    *)
(***************************************************************************)
Create(c) ==
    /\ pc[c] = "idle"
    /\ doc[c] # NoRecord
    /\ origin[c] = "retry" => op[c] = "create"
    /\ \E t \in StartTimes :
        LET a == CtxCreateAudit(doc[c], User[c], Tenant[c], t)
            d == a.doc
        IN
        /\ now' = t
        /\ doc' = [doc EXCEPT ![c] = d]
        /\ \/ /\ ~a.ok
              /\ Return(c, "create", "missing", FALSE)
              /\ Settle(c, "missing")
              /\ UNCHANGED <<store, view>>
           \/ /\ a.ok
              /\ store[d.ID] = NoRecord
              /\ store' = [store EXCEPT ![d.ID] = d]
              /\ view' = AfterWrite(c, {d.ID}, TRUE)
              /\ Return(c, "create", "ok", FALSE)
              /\ Settle(c, "ok")
           \/ /\ a.ok
              /\ store[d.ID] # NoRecord
              /\ Return(c, "create", "conflict", FALSE)
              /\ Settle(c, "conflict")
              /\ UNCHANGED <<store, view>>
           \/ /\ a.ok
              /\ DriverError(c, "create", {d.ID},
                     IF store[d.ID] = NoRecord THEN [store EXCEPT ![d.ID] = d] ELSE store,
                     TRUE)
              /\ Settle(c, "error")
    /\ UNCHANGED pend

(***************************************************************************)
(* auditAndBuildReplaceFilter: an Upsert of an entity whose CreatedAt is   *)
(* zero is a fresh create (CtxCreateAudit, filter _id only); every other   *)
(* replace goes through baseUpdateOp (UpdateLockAndAudit, then _id, the    *)
(* lock and InjectCond).  Result: the stamped entity, whether the audit    *)
(* succeeded (CtxCreateAudit may fail with MissingContext), the filter.    *)
(***************************************************************************)
baseUpdateOp(c, d, t) ==
    LET u == UpdateLockAndAudit(d, User[c], t) IN
    [doc |-> u.doc, ok |-> TRUE, filter |-> InjectCond(c, {d.ID}, u.lock)]

\* Defect: every upsert taken for a fresh create, CreatedAt not consulted.
auditAndBuildReplaceFilterAlwaysCreate(c, d, isUpsert, t) ==
    IF isUpsert /\ HasCreateAudit
    THEN LET a == CtxCreateAudit(d, User[c], Tenant[c], t) IN
         [doc |-> a.doc, ok |-> a.ok,
          filter |-> [ids |-> {d.ID}, lock |-> 0, iso |-> NoCond, soft |-> FALSE]]
    ELSE baseUpdateOp(c, d, t)

auditAndBuildReplaceFilter(c, d, isUpsert, t) ==
    IF isUpsert /\ HasCreateAudit /\ d.CreatedAt = 0
    THEN LET a == CtxCreateAudit(d, User[c], Tenant[c], t) IN
         [doc |-> a.doc, ok |-> a.ok,
          filter |-> [ids |-> {d.ID}, lock |-> 0, iso |-> NoCond, soft |-> FALSE]]
    ELSE baseUpdateOp(c, d, t)

\* The filter of the CountDocuments after a replace matched nothing:
\* delete(filter, "updated_at").
countFilter(f) == [f EXCEPT !.lock = 0]

(***************************************************************************)
(* commonReplace(doc, isUpsert) up to and including ReplaceOne.  A match   *)
(* replaces the whole document; ModifiedCount is 0 when the replacement    *)
(* equals what is stored, which with a lock in the filter is "optimistic   *)
(* locking failed".  No match: an upsert inserts, or fails on the          *)
(* duplicate _id; an update goes on to CountDocuments (ReplaceCount).      *)
(* With StorageFailures, ReplaceOne may instead return a driver error,    *)
(* before the write or after it was applied (the reply is lost).          *)
(***************************************************************************)
commonReplace(c, d0, isUpsert, t, o) ==
    LET b == auditAndBuildReplaceFilter(c, d0, isUpsert, t)
        d == b.doc
        f == b.filter
        r == store[d.ID]
    IN
    /\ now' = t
    /\ doc' = [doc EXCEPT ![c] = d]
    /\ \/ /\ ~b.ok
          /\ Return(c, o, "missing", FALSE)
          /\ Settle(c, "missing")
          /\ UNCHANGED <<store, view, pend>>
       \/ /\ b.ok
          /\ \/ /\ Matches(r, f)
                /\ r # d
                /\ store' = [store EXCEPT ![d.ID] = d]
                /\ view' = AfterWrite(c, {d.ID}, TRUE)
                /\ Return(c, o, "ok", f.lock # 0)
                /\ Settle(c, "ok")
                /\ UNCHANGED pend
             \/ /\ Matches(r, f)
                /\ r = d
                /\ LET res == IF f.lock # 0 THEN "conflict" ELSE "ok" IN
                   Return(c, o, res, f.lock # 0) /\ Settle(c, res)
                /\ UNCHANGED <<store, view, pend>>
             \/ /\ ~Matches(r, f)
                /\ isUpsert
                /\ r = NoRecord
                /\ store' = [store EXCEPT ![d.ID] = d]
                /\ view' = AfterWrite(c, {d.ID}, TRUE)
                /\ Return(c, o, "ok", FALSE)
                /\ Settle(c, "ok")
                /\ UNCHANGED pend
             \/ /\ ~Matches(r, f)
                /\ isUpsert
                /\ r # NoRecord
                /\ Return(c, o, "conflict", f.lock # 0)
                /\ Settle(c, "conflict")
                /\ UNCHANGED <<store, view, pend>>
             \/ /\ DriverError(c, o, {d.ID},
                       IF Matches(r, f) \/ (isUpsert /\ r = NoRecord)
                       THEN [store EXCEPT ![d.ID] = d] ELSE store,
                       TRUE)
                /\ Settle(c, "error")
                /\ UNCHANGED pend
             \/ /\ ~Matches(r, f)
                /\ ~isUpsert
                /\ pc' = [pc EXCEPT ![c] = "count"]
                /\ op' = [op EXCEPT ![c] = o]
                /\ pend' = [pend EXCEPT ![c] = countFilter(f)]
                /\ UNCHANGED <<store, origin, tries, view, last>>

Update(c) ==
    /\ pc[c] = "idle"
    /\ MayWrite(c, "update")
    /\ \E t \in StartTimes : commonReplace(c, doc[c], FALSE, t, "update")

Upsert(c) ==
    /\ pc[c] = "idle"
    /\ MayWrite(c, "upsert")
    /\ \E t \in StartTimes : commonReplace(c, doc[c], TRUE, t, "upsert")

(***************************************************************************)
(* commonReplace after MatchedCount == 0: delete(filter, "updated_at") and *)
(* CountDocuments; a document still there is "data is modified by other"  *)
(* (conflict), else ErrNotFound.                                           *)
(***************************************************************************)
ReplaceCount(c) ==
    /\ pc[c] = "count"
    /\ LET f == pend[c]
           found == \E i \in f.ids : Matches(store[i], f)
           res   == IF found THEN "conflict" ELSE "notfound"
       IN Return(c, op[c], res, FALSE) /\ Settle(c, res)
    /\ UNCHANGED <<store, now, doc, pend, view>>

(***************************************************************************)
(* BuildPatchPayload: the exported fields holding a non-zero value.  The   *)
(* time.Time fields (CreatedAt, UpdatedAt, DeletedAt) are structs whose    *)
(* own fields are unexported, so the recursion into them yields nothing    *)
(* and they never reach the payload; the Ms variants' int64 fields do     *)
(* (the audit structs are embedded inline, so under their own names).     *)
(***************************************************************************)
PatchableFields ==
    {"ID", "Data", "TenantID", "CreatedBy", "UpdatedBy"}
        \cup (IF AuditMs THEN AuditFields ELSE {})

BuildPatchPayload(d) ==
    [f \in {g \in PatchableFields : d[g] \notin {NoId, 0}} |-> d[f]]

\* $set of a payload on a stored document.
SetFields(r, p) == [g \in DOMAIN r |-> IF g \in DOMAIN p THEN p[g] ELSE r[g]]

(***************************************************************************)
(* Patch, first part: baseUpdateOp stamps the caller's entity and builds   *)
(* the filter (_id, lock, InjectCond).                                     *)
(***************************************************************************)
Patch(c) ==
    /\ pc[c] = "idle"
    /\ MayWrite(c, "patch")
    /\ \E t \in StartTimes :
        LET b == baseUpdateOp(c, doc[c], t) IN
        /\ now' = t
        /\ doc' = [doc EXCEPT ![c] = b.doc]
        /\ pend' = [pend EXCEPT ![c] = b.filter]
        /\ pc' = [pc EXCEPT ![c] = "patch"]
        /\ op' = [op EXCEPT ![c] = "patch"]
    /\ UNCHANGED <<store, origin, tries, view, last>>

(***************************************************************************)
(* Patch, second part: BuildPatchPayload(doc), then PatchRaw with          *)
(* SkipInjectCond: updated_at = timex.Now() (a second clock reading, a     *)
(* time.Time whatever the entity's field type, so stored as a datetime)   *)
(* and updated_by = operator go into the payload, then UpdateOne.  No     *)
(* match is ErrNotFound; a locked match that modifies nothing is a        *)
(* conflict.                                                               *)
(***************************************************************************)
PatchRaw(c) ==
    /\ pc[c] = "patch"
    /\ \E t \in NextTimes :
        LET f  == pend[c]
            i  == doc[c].ID
            r  == store[i]
            p  == IF HasUpdateAudit
                  THEN [UpdatedAt |-> t, UpdatedBy |-> User[c]]
                          @@ BuildPatchPayload(doc[c])
                  ELSE BuildPatchPayload(doc[c])
            r2 == IF HasUpdateAudit
                  THEN [SetFields(r, p) EXCEPT !.Dates = @ \cup {"UpdatedAt"}]
                  ELSE SetFields(r, p)
        IN
        /\ now' = t
        /\ \/ /\ ~Matches(r, f)
              /\ Return(c, "patch", "notfound", f.lock # 0)
              /\ Settle(c, "notfound")
              /\ UNCHANGED <<store, view>>
           \/ /\ Matches(r, f)
              /\ r2 # r
              /\ store' = [store EXCEPT ![i] = r2]
              /\ view' = AfterWrite(c, {i}, TRUE)
              /\ Return(c, "patch", "ok", f.lock # 0)
              /\ Settle(c, "ok")
           \/ /\ Matches(r, f)
              /\ r2 = r
              /\ LET res == IF f.lock # 0 THEN "conflict" ELSE "ok" IN
                 Return(c, "patch", res, f.lock # 0) /\ Settle(c, res)
              /\ UNCHANGED <<store, view>>
           \/ /\ DriverError(c, "patch", {i},
                     IF Matches(r, f) THEN [store EXCEPT ![i] = r2] ELSE store, TRUE)
              /\ Settle(c, "error")
    /\ UNCHANGED <<doc, pend>>

(***************************************************************************)
(* Delete: CtxDeleteAudit stamps DeletedAt; a soft-deletable entity under  *)
(* soft delete is written back through Update (commonReplace), anything    *)
(* else is removed by DeleteOne on _id and InjectCond.                     *)
(***************************************************************************)
Delete(c) ==
    /\ pc[c] = "idle"
    /\ MayWrite(c, "delete")
    /\ \E t \in StartTimes :
        LET dd   == CtxDeleteAudit(doc[c], t)
            i    == doc[c].ID
            f    == InjectCond(c, {i}, 0)
        IN
        \/ /\ dd.soft
           /\ GetMergedRepoOpt(c).SoftDelete # SoftDeleteDisable
           /\ commonReplace(c, dd.doc, FALSE, t, "delete")
        \/ /\ ~(dd.soft /\ GetMergedRepoOpt(c).SoftDelete # SoftDeleteDisable)
           /\ now' = IF HasDeleteAudit THEN t ELSE now
           /\ doc' = [doc EXCEPT ![c] = dd.doc]
           /\ \/ /\ Matches(store[i], f)
                 /\ store' = [store EXCEPT ![i] = NoRecord]
                 /\ view' = AfterWrite(c, {i}, FALSE)
                 /\ Return(c, "delete", "ok", FALSE)
                 /\ Settle(c, "ok")
              \/ /\ ~Matches(store[i], f)
                 /\ Return(c, "delete", "notfound", FALSE)
                 /\ Settle(c, "notfound")
                 /\ UNCHANGED <<store, view>>
              \/ /\ DriverError(c, "delete", {i},
                       IF Matches(store[i], f) THEN [store EXCEPT ![i] = NoRecord] ELSE store,
                       FALSE)
                 /\ Settle(c, "error")
           /\ UNCHANGED pend

(***************************************************************************)
(* BatchDelete(docs) / BatchDeleteByIDs(ids) -> BatchDeleteByFilter on     *)
(* _id $in ids and InjectCond.  Under soft delete one UpdateMany sets      *)
(* deleted_at = timex.Now() on every match (updated_at is not touched);    *)
(* otherwise one DeleteMany.  No match is ErrNotFound.  An empty id list   *)
(* returns before any store call and is left out.                          *)
(***************************************************************************)
BatchDeleteByIDs(c, ids) ==
    /\ pc[c] = "idle"
    /\ LET f       == InjectCond(c, ids, 0)
           matched == {i \in ids : Matches(store[i], f)}
           res     == IF matched = {} THEN "notfound" ELSE "ok"
           soft    == HasDeleteAudit /\ GetMergedRepoOpt(c).SoftDelete # SoftDeleteDisable
       IN
       \E t \in IF soft THEN StartTimes ELSE {now} :
          LET written == [i \in Ids |->
                            CASE i \notin matched -> store[i]
                              [] soft           -> [store[i] EXCEPT !.DeletedAt = t,
                                                     !.Dates = @ \cup {"DeletedAt"}]
                              [] OTHER          -> NoRecord]
          IN
          /\ now' = t
          /\ \/ /\ store' = written
                /\ view' = AfterWrite(c, matched, FALSE)
                /\ Return(c, "batchDelete", res, FALSE)
             \/ DriverError(c, "batchDelete", matched, written, FALSE)
    /\ UNCHANGED <<doc, origin, pend>>

-----------------------------------------------------------------------------
Init ==
    /\ store  = [i \in Ids |-> NoRecord]
    /\ now    = 0
    /\ doc    = [c \in Clients |-> NoRecord]
    /\ origin = [c \in Clients |-> "built"]
    /\ pc     = [c \in Clients |-> "idle"]
    /\ pend   = [c \in Clients |-> [ids |-> {}, lock |-> 0, iso |-> NoCond,
                                    soft |-> FALSE]]
    /\ op     = [c \in Clients |-> "none"]
    /\ tries  = [c \in Clients |-> 0]
    /\ view   = [c \in Clients |-> "none"]
    /\ last   = [by |-> CHOOSE c \in Clients : TRUE, op |-> "none",
                 res |-> "none", locked |-> FALSE, basis |-> "none",
                 retry |-> FALSE]

Next ==
    \E c \in Clients :
        \/ \E i \in Ids, v \in Vals : NewDoc(c, i, v)
        \/ \E v \in Vals : EditDoc(c, v)
        \/ \E i \in Ids : Get(c, i)
        \/ Create(c)
        \/ Update(c)
        \/ Upsert(c)
        \/ BackoffGet(c)
        \/ ReplaceCount(c)
        \/ Patch(c)
        \/ PatchRaw(c)
        \/ Delete(c)
        \/ \E ids \in SUBSET Ids \ {{}} : BatchDeleteByIDs(c, ids)

Spec == Init /\ [][Next]_vars

(***************************************************************************)
(* Inside a call the engine's goroutine goes on to its next driver call:  *)
(* the CountDocuments after a ReplaceOne that matched nothing, PatchRaw's *)
(* UpdateOne, the backoff's next FindOne.  Driver calls return (the spec: *)
(* they are bounded by the context's deadline).  Between calls a caller  *)
(* may stop for good, so nothing else is fair.                            *)
(***************************************************************************)
FairSpec ==
    /\ Spec
    /\ \A c \in Clients : /\ WF_vars(ReplaceCount(c))
                         /\ WF_vars(PatchRaw(c))
                         /\ WF_vars(BackoffGet(c))

-----------------------------------------------------------------------------
TypeOK ==
    /\ store  \in [Ids -> Entities \cup {NoRecord}]
    /\ now    \in Times
    /\ doc    \in [Clients -> Entities \cup {NoRecord}]
    /\ origin \in [Clients -> {"built", "loaded", "retry"}]
    /\ pc     \in [Clients -> {"idle", "backoff", "count", "patch"}]
    /\ tries  \in [Clients -> 0..RetryAttempts]
    /\ pend   \in [Clients -> Filters]
    /\ op     \in [Clients -> Ops]
    /\ view   \in [Clients -> Views]
    /\ last   \in [by : Clients, op : Ops, res : Results, locked : BOOLEAN,
                   basis : Views, retry : BOOLEAN]

-----------------------------------------------------------------------------
(***************************************************************************)
(* Whether c's context, read without the merge, asks for tenant isolation. *)
(***************************************************************************)
AsksTenantIsolationOf ==
    [c \in Clients |-> LET di == CtxRepoOptOrNew(Ctx[c]).DataIsolation IN
                       \/ di = "tenant"
                       \/ di = "" /\ LibOpt.DataIsolation = "tenant"]
AsksTenantIsolation(c) == AsksTenantIsolationOf[c]

\* The document stored under i is one c's filters let it see.
Visible(c, i) == Matches(store[i], InjectCond(c, {i}, 0))

(***************************************************************************)
(* No lost update: a write that carried the optimistic lock (updated_at in *)
(* the filter of ReplaceOne or UpdateOne) and succeeded was made from an   *)
(* entity no other write had reached since the caller loaded it.  This is  *)
(* what baseUpdateOp's lock is for (spec: a stale Update gets Conflict).   *)
(***************************************************************************)
NoLostUpdate ==
    last.res = "ok" /\ last.locked => last.basis = "current"

(***************************************************************************)
(* A retry is not a conflict: a caller that repeats a write with the       *)
(* entity it passed to a call that failed in the driver, while no other    *)
(* write has reached the document, does not get Conflict.  The engine      *)
(* stamps the entity in place before ReplaceOne (UpdateLockAndAudit), so   *)
(* the retry carries the new updated_at as its lock.                       *)
(***************************************************************************)
RetryNoConflict ==
    last.retry /\ last.basis = "current" /\ last.op \in {"update", "delete"}
        => last.res # "conflict"

(***************************************************************************)
(* A write that returns ErrNotFound returns it only when the caller cannot *)
(* see the document (absent, soft-deleted or outside its isolation); a    *)
(* document it can see but that changed is a conflict (commonReplace's     *)
(* CountDocuments without updated_at; spec: Patch classifies the same).    *)
(***************************************************************************)
WriteNotFoundMeansInvisible ==
    /\ last.op \in {"update", "upsert", "delete", "patch"}
    /\ last.res = "notfound"
    => ~Visible(last.by, doc[last.by].ID)

(***************************************************************************)
(* Every behaviour of the engine is a behaviour of DocLifecycle, the       *)
(* spec's life of a document, under the mapping of each stored document    *)
(* to its identity (created_by, created_at, tenant_id) and delete stamp:   *)
(* Create only fills an absent id; Update, Upsert, Patch and Delete never  *)
(* rewrite the identity of a stored document (spec 3: set once at          *)
(* creation) nor touch one that is soft-deleted; nothing undeletes.        *)
(* Replace writes the caller's whole entity, so this rests on the filters  *)
(* and on what the caller passes in.                                       *)
(***************************************************************************)
Lifecycle == INSTANCE DocLifecycle WITH
    Absent <- NoRecord,
    life   <- [i \in Ids |->
                 IF store[i] = NoRecord THEN NoRecord
                 ELSE [who |-> [creator |-> store[i].CreatedBy,
                                created |-> store[i].CreatedAt,
                                tenant  |-> store[i].TenantID],
                       deleted |-> store[i].DeletedAt]]

LifecycleRefined == Lifecycle!Spec

(***************************************************************************)
(* Tenant isolation of writes: a caller whose context asks for tenant     *)
(* isolation never changes a document stored under another tenant (spec   *)
(* 4.4: every operation applies the isolation filter before it touches    *)
(* storage).  Every step that changes the store is a returning call, so   *)
(* last' names the writer.                                                 *)
(***************************************************************************)
TenantIsolation ==
    [][\A i \in Ids :
         /\ store'[i] # store[i]
         /\ store[i] # NoRecord
         /\ AsksTenantIsolation(last'.by)
         => store[i].TenantID = Tenant[last'.by]]_vars

(***************************************************************************)
(* Every stored document of a TenantCarrier has a tenant: the tenant scope *)
(* is set at creation from the context (spec 3), and creating without a    *)
(* tenant id in the context fails with MissingContext (spec 4.1).  Create  *)
(* and a fresh Upsert reach the store only through CtxCreateAudit; any     *)
(* other write replaces a document with an entity the caller holds.        *)
(***************************************************************************)
TenantScopeSet ==
    HasTenant => \A i \in Ids : store[i] # NoRecord => store[i].TenantID # NoId

(***************************************************************************)
(* The int64 epoch-ms audit fields and the time.Time ones have identical   *)
(* semantics (spec 3), so whatever the engine itself writes stays          *)
(* readable: a Get of a document its filter matches returns the document, *)
(* never an error.  Patch (PatchRaw's updated_at) and BatchDelete's soft   *)
(* path (deleted_at) write timex.Now() as it is.                           *)
(***************************************************************************)
ReadsDecode == last.op = "get" => last.res # "error"

(***************************************************************************)
(* Every call a caller starts returns (spec 5: no operation blocks         *)
(* indefinitely; the read fix-up is bounded to 3 attempts), whatever the   *)
(* other callers do meanwhile: a backoff Get of a document that never      *)
(* appears, a replace whose count follows, a Patch between its stamps.     *)
(***************************************************************************)
CallsReturn == \A c \in Clients : pc[c] # "idle" ~> pc[c] = "idle"
=============================================================================
