# TLA+ models of the core-go repository layer

This directory holds TLA+ models of the repository engine in `src/model`.
The engine is `CollectionLib` over a MongoDB collection. It is used by several
concurrent callers, and it has no lock of its own. All exclusion comes from an
optimistic lock: each write puts `updated_at` into the store filter. The
models check, with TLC, what that design guarantees and where it does not hold.

## The system

| Part | Source | State | What it does |
|---|---|---|---|
| Audit engine | `model/audit.go`, `model/util.go` | fields of the caller's entity | `CtxCreateAudit`, `CtxUpdateAudit` and `CtxDeleteAudit` stamp who and when (`timex.Now()`) into the entity, in place. `UpdateLockAndAudit` remembers the old `UpdatedAt` as the lock value and then re-stamps. |
| Policy resolver | `model/types.go` | the library `RepoOpt` (`WithRepoOpt`) and a `RepoOpt` per context | `CtxMergeRepoOpt` merges field by field: the context wins, and `""` falls back to the library value. |
| Filter builder | `mongox.go` | none (pure) | `injectIsolationCond` adds `created_by`, `tenant_id` or `app_id`. `injectSoftDeleteCond` adds `deleted_at $exists false`. `baseUpdateOp` adds the lock. `auditAndBuildReplaceFilter` uses an `_id`-only filter for a fresh Upsert. |
| Patch payload builder | `mongox.go` `BuildPatchPayload` | none (pure) | Flattens the exported, non-zero fields of the entity into a `$set` payload. |
| Repository engine | `mongox.go` | the collection | Get, Find, PageQuery, Create, Update, Upsert, Patch/PatchRaw, Delete, BatchCreate, BatchUpdate, BatchDelete*. Each is one or two driver calls. |
| Error taxonomy | `datax/error.go` | none | `BaseError` with a code, the sentinels `ErrNotFound`/`ErrConflict`, `ErrCall` (unwraps to its source), `IsErrCode` and `BaseError.Is`: how a caller tells the kinds apart. |
| Context carrier | `pass/pass.go`, `model/types.go` `SetCtx*` | the `context.Context` of a call | Operator, tenant and app id, and a `RepoOpt` override, bound with `context.WithValue`: each setter returns a new context. |
| Logging | `trace/logging` | none | Log formatting (reads the trace and request ids). |

**How the parts interact.** Every engine call starts by resolving the policy
(`GetMergedRepoOpt`) and building a filter. A write first stamps the
caller's entity, in place, with the audit engine. It then makes one driver
call; `commonReplace` can make a second one, `CountDocuments`. The
caller keeps the stamped entity, and the caller's next write uses its
`UpdatedAt` as the lock. So the lock's correctness spans several calls and
several callers. It depends on the clock, on the write path, and on what the
caller passes back.

**Hard behaviours.**
- Callers interleave between the driver calls of one engine call:
  - ReplaceOne, then CountDocuments.
  - Patch's stamp, then PatchRaw's UpdateOne.
- The lock is a millisecond timestamp.
- Soft delete hides documents from filters but keeps their `_id`.
- Upsert of a fresh entity bypasses every filter.
- Batch delete's soft path does not touch `updated_at`.

The hazards are listed, each at its source line, in `PROJECT.json`.

## Modules

- `Audit.tla` models the audit engine. The entity's capabilities
  (CreateAuditor, UpdateAuditor, DeleteAuditor, TenantCarrier) are BOOLEAN
  constants. Timestamps are naturals, and 0 is the zero time.
- `DocLifecycle.tla` is the abstract specification of a stored document.
  Per id, it records Absent, or an identity and a delete stamp. Its actions
  are `Create`, `SoftDelete` and `Purge`. It is written from the spec (§3,
  §4.4), not from the code.
- `Pass.tla` models the context carrier. A context is the function that
  `ctx.Value` answers, and `context.WithValue` binds a key over the parent
  (`(key :> val) @@ ctx`). It has the operator, tenant and app getters and
  setters, with `FixedKey`'s prefix. A getter returns the value and the
  comma-ok flag.
- `RepoOpt.tla` models the policy resolver: `CtxMergeRepoOpt` over the
  DataIsolation, SoftDelete and TryFixSyncDelay fields. It also has
  `CtxRepoOptOrNew` and the setters `SetCtxRepoDataIsolation`,
  `SetCtxSoftDelete` and `SetCtxFixedStrategy`: each copies the context's
  `RepoOpt`, sets one field, and binds the copy in a new context.
- `Repo.tla` models the engine and the collection. It extends Audit and
  RepoOpt (and, through RepoOpt, Pass). A caller's context is the constant
  `Ctx[c]`. `User[c]` is its operator. `Tenant[c]` is its tenant id, or
  `NoId` when `CtxGetTenantID` or `CtxGetAppID` finds none.
  `GetMergedRepoOpt(c)` merges `CtxRepoOptOrNew(Ctx[c])` with the library's
  option.
- `PatchPayload.tla` models `BuildPatchPayload`, `BuildPatchPayloadWithParent`
  and `genDbKey` as RECURSIVE operators over Go struct values, and compares
  them with a reference flattening written from the spec (`RefPayload`). A
  struct value is a sequence of field records `[go, tag, exported, kind, val]`,
  in declaration order. `time.Time` is what reflect sees: a struct whose field
  is unexported. Keys are the strings the code builds. The one variable, `ent`,
  ranges over a bounded family of entity values: a leaf and a
  struct in either order, with the struct holding a leaf and possibly a time.
  (`Init` states the shapes as a disjunction: TLC cannot compare the string
  of a leaf value with the tuple of a struct value inside one set.)
  The tags cover none, a name, `-` and `inline`, and a name tag that collides
  with another field's default key. Two constants, both FALSE in the runs, add two kinds of shape:
  `NestedInline` (an inline struct under a named one) and `EmptyTagNames` (a
  tag such as `bson:",omitempty"`).
- `Paging.tla` models `PageQuery`, `modifyPageOpt`, `modifySortOpt` and
  `SortAble.GetSortInfo` (`datax/page.go`):
  - Variables:
    - the matching documents (`docs`) with their `created` and `data`;
    - the caller's request (`req`: page size, OrderBy);
    - the next page number (`num`);
    - the last `TotalCount` and `Rows` (`total`, `rows`);
    - everything fetched in the walk (`got`).
  - `PageQuery` is the whole call. `Restart` begins a new walk once the
    pages cover the count.
  - OrderBy is given as what GetSortInfo's two `strings.Split`s produce: a
    sequence of clauses, each a sequence of words.
  - The store's Find (`FindRows`) may order documents with equal sort keys
    differently in every call. That is the driver contract, not repository
    code.
  - `RefSort` and `RefPage` are the spec's paging, written from §3 and §4.4.
  - `MCPaging.tla` gives the OrderBy inputs and symmetry over documents for
    the paging_ties run.
- `ErrorTaxonomy.tla` models `datax/error.go` and the errors the engine
  returns. `mongox.go` imports its errors from
  `github.com/shiningrush/droplet/data`, not from `datax`; `datax/error.go`
  reads as a copy of that package, which is not in the repository; the
  model of the repository's file stands for the one the engine links, and
  would be wrong only where the two differ. An error value is a record tagged with its Go type; a
  `*BaseError` carries its code and which pointer it is (`ErrNotFound`,
  `ErrConflict`, or one a constructor allocated). The standard library's
  part is written from its documented contract: `Unwrap` of `ErrCall` and of
  fmt's `%w` wrapper, the chain (`RECURSIVE Chain`), `errors.As` (the first
  error of the type in the chain) and `errors.Is`. `IsErrCode` is the code's
  type switch, then `errors.As` to `*ErrWrapper` and to `*BaseError`. One
  set per operation (`GetErrors`, `ReplaceErrors`, ...) lists what that
  operation returns, each with the kind of the spec's taxonomy it stands
  for, read from its return statements. The variable `err` is one of those
  errors, bare or wrapped by the caller in up to two layers (`%w`,
  `ErrCall`).
- `Batch.tla` models `BatchCreate` and `BatchUpdate`. A stored document is
  its version (0: none), standing for the `updated_at` an Update carries as
  its lock. BatchCreate is `checkIfIDExisted` on every element (a zero id
  returns before any insert) and one `InsertMany`, the driver's ordered
  insert that stops at the first duplicate key (`RECURSIVE InsertMany`).
  BatchUpdate is its loop (`UpdateStep`), one `Update` per element, whose
  outcome is written or not, with or without a driver error; another
  caller's Create, Update or Delete (`OtherWrite`) may come between the
  Updates. `list`, `wrote` and `last` record what the call was given and
  what it wrote.
- `MCParts.tla` checks Paging, PatchPayload, ErrorTaxonomy and Batch in one
  model. They share no state, so the model is their
  disjoint union: `Init` picks the part, the other parts' variables rest at
  a fixed value, and each property is guarded by its part.
- `MCRepo.tla` instantiates Repo for TLC:
  - Two callers: `c1` is tenant-isolated (`tA`), and `c2` uses the library
    default `none` (`tB`). In hard_delete the library's TryFixSyncDelay
    is `backoff` (`MCLibOptBackoff`, as in mongox_test.go:111); `c1`'s
    context sets `none`, so only `c2`'s Gets retry. In hard_delete and
    missing_ctx_retry, `c2`'s context has an operator but no tenant id
    (`MCCtxNoTenant`).
  - Every context is built with the code's setters, from `Background`:
    `CtxSetOperator`, `CtxSetTenantID` and `CtxSetAppID` (`Request`), then
    `SetCtxRepoDataIsolation` and `SetCtxFixedStrategy` for `c1`, and
    `SetCtxSoftDelete` for `c2` in `MCCtxAdmin`.
  - One id and two data values, with symmetry over the values.

### Repo: state

| Variable | Code |
|---|---|
| `store` | the collection: id → stored document |
| `now` | the last `timex.Now()` reading |
| `doc[c]` | the entity pointer caller `c` passes in and gets back. The engine stamps it in place. |
| `pc[c]`, `pend[c]`, `op[c]` | where `c` is inside a multi-step call (`backoff`, `count`, `patch`), and the filter it built for the next step |
| `tries[c]` | how many FindOnes `c`'s backoff Get has made (kept up to `RetryAttempts`) |
| `origin[c]` | where `doc[c]` came from: what `c`'s last call returned on success (`loaded`), the entity a driver error left behind, which `c` may pass again only to retry the call that failed (`retry`, `MayWrite`), or something `c` built or a non-driver failure left behind (`built`) |
| field `Dates` of an entity | which audit fields are held as a BSON datetime rather than an int64. A caller's entity has all three, or, with `AuditMs` (the `*AuditMs` variants), none. A stored document has the types the engine wrote. |
| `view[c]`, `last` | history, used only by properties: whether any other write reached `doc[c]`'s id since `c` loaded it, and the last call that returned |

### Repo: actions

Every action is a whole call, or a whole stretch of a call between two
driver calls. Each driver call (FindOne, InsertOne, ReplaceOne, UpdateOne,
CountDocuments, DeleteOne, UpdateMany, DeleteMany) is atomic.

| Action | Code |
|---|---|
| `NewDoc`, `EditDoc` | the caller builds an entity or edits its data. There is no store call. |
| `Get` | `Get` → `GetByFilter`: InjectCond and the first FindOne. Found → ok, or a decode error when a stored audit field has the other BSON type (`GetFound`, `Decodes`). Not found → NotFound, or, when the merged TryFixSyncDelay is neither `none` nor `""`, the `retry.Do` loop (`GetNotFound`, `MayRetry`: `retry.Attempts(3)`, retrying only ErrNotFound). |
| `BackoffGet` | the next FindOne of `retry.Do`, after the delay in which other callers act |
| `Create` | `checkIfIDExisted`, `CtxCreateAudit`, `InsertOne`; a duplicate key → Conflict |
| `DriverError` (in every write action) | with `StorageFailures`, the driver write of the call (InsertOne, ReplaceOne, UpdateOne, DeleteOne, UpdateMany, DeleteMany) returns an error instead, either before it wrote or after the store applied it (a lost reply). The call returns the error; the caller keeps the entity stamped in place and may retry the same call with it. |
| `Update`, `Upsert` | `commonReplace` up to ReplaceOne, through `auditAndBuildReplaceFilter` and `baseUpdateOp`. Match and modified → ok. Match, unchanged and locked → conflict. No match: an upsert inserts or hits the duplicate `_id`; an update goes on to `ReplaceCount`. With `StorageFailures`, ReplaceOne may instead return a driver error, either before the write or after it has been applied (a lost reply). The caller keeps the entity that was stamped in place. |
| `ReplaceCount` | `delete(filter,"updated_at")` (`countFilter`) and `CountDocuments`: >0 → conflict, else NotFound |
| `Patch`, `PatchRaw` | `baseUpdateOp`, then `BuildPatchPayload` with the second `timex.Now()` and UpdateOne. No match → NotFound; locked and unmodified → conflict. |
| `Delete` | `CtxDeleteAudit`, then either Update (soft) or DeleteOne |
| `BatchDeleteByIDs` | `BatchDelete`/`BatchDeleteByIDs`/`BatchDeleteByFilter`: an UpdateMany setting `deleted_at` (soft) or a DeleteMany; no match → NotFound. An empty id list returns before any store call and is left out. |

`Matches` and `SetFields` give the store's semantics of a filter and of
`$set`. They are the driver contract, not repository code.

## Properties

- `TypeOK`: the type invariant.
- `NoLostUpdate`: a write that carried the lock and succeeded was made from an
  entity no other write had reached. This is the point of the optimistic lock
  (spec: a stale Update gets Conflict).
- `TenantScopeSet`: every stored document of a TenantCarrier has a tenant.
  The spec (§3, §4.1) sets the tenant scope at creation from the context
  and fails a create without a tenant id with MissingContext. In Repo a
  tenant of `NoId` is a context where `CtxGetTenantID` reports no value.
  `CtxCreateAudit` then sets the creator first and fails (audit.go:12-24),
  and the caller keeps the half-stamped entity. Create and a fresh Upsert
  return `missing`, and `Settle` makes the caller's origin `built`. Only
  missing_ctx_retry checks it: a caller that passes only loaded entities
  can never store anything after MissingContext, so in the other runs it
  would restate the tenant check.
- `WriteNotFoundMeansInvisible`: Update, Upsert, Delete and Patch return
  NotFound only when the caller cannot see the document. For the replace
  paths this restates the count filter (`countFilter`), so it is checked
  only where Patch breaks it (patch_notfound).
- `LifecycleRefined` (refinement): Repo implements `DocLifecycle`, the
  spec's life of a document. `Lifecycle == INSTANCE DocLifecycle WITH life
  <- ...` maps each stored document to two things:
  - its identity: `created_by`, `created_at` and `tenant_id`;
  - its `deleted_at`.

  The property is `Lifecycle!Spec`. It says:
  - Create fills only an absent id.
  - No write rewrites the identity of a stored document.
  - A soft-deleted document is frozen, and nothing undeletes it.
  - Data updates are abstract stutters.
- `TenantIsolation` (action property): a caller whose context asks for tenant
  isolation never changes another tenant's document.
- `RetryNoConflict`: a caller that retries, with no other write in between,
  a write that failed in the driver does not get Conflict.
- `CallsReturn` (liveness): every call a caller starts returns (spec §5:
  no operation blocks indefinitely), whatever the other caller does. It is
  about the steps inside a call: the recount after ReplaceOne, PatchRaw's
  UpdateOne and the backoff Get's bounded retries, for example of a
  document the other caller never creates.
- `PageIsSlice` (Paging): whenever the sort orders the documents totally,
  each page is the slice of the sorted documents the spec defines.
- `WalkCoversOnce` (Paging): under the same condition, a walk of pages
  1, 2, … returns every document exactly once, though each page is a
  separate Find.
- `WalkNoRepeat` (Paging): a walk never returns a document twice.
- `PayloadSound` (PatchPayload): every key the builder sets is a path of the
  spec's flattening, with the same value.
- `KindComparable` (ErrorTaxonomy): every error the engine returns, bare or
  wrapped, is `errors.Is` `data.ErrNotFound` / `data.ErrConflict`, and
  `IsErrCode` of their codes, exactly when it is of that kind; so
  `data.ErrNotFound.Is`, the backoff Get's `RetryIf`, retries NotFound and
  nothing else (spec §7: callers branch on kind).
- `BatchWritesPrefix` (Batch): a batch that succeeds wrote all its
  elements, and one that fails wrote a prefix of them, never an element
  after one that was not written (spec §5: batch failure means an unknown
  prefix succeeded). It rests on the ordered InsertMany and on BatchUpdate
  returning at the first error.
- `ReadsDecode`: a Get of a document the caller's filter matches never
  fails: the two audit representations have identical semantics (spec §3),
  so what the engine writes stays readable.
- `PayloadComplete` (PatchPayload): every non-zero field the spec's flattening
  gives is in the payload.

## Runs

Each run's cfg sets the entity's capabilities, the clock and the callers'
discipline.

| Run (cfg) | Expect | Setting | Shows |
|---|---|---|---|
| core (`MCRepo.cfg`) | pass | full audit entity, strict clock, read-modify-write callers, driver write failures before or after the write, retries of the failed call | `TypeOK`, `NoLostUpdate`, `LifecycleRefined` and `TenantIsolation` hold over every interleaving of two callers, whatever the driver errors and retries. |
| hard_delete (`MCRepo_hard.cfg`) | pass | testEntity (no DeleteAudit), strict clock, `MaxTime` 3, backoff Get for `c2`, `c2` without a tenant id, weak fairness inside calls, no symmetry | `NoLostUpdate` and `LifecycleRefined` with physical deletes, re-creates and Upsert re-inserts (the ABA case: delete, re-create, stale Update), and `CallsReturn`. `TenantIsolation` is core's question (only `c1` can create here). |
| same_ms_lost_update (`MCRepo_clock.cfg`) | violation | core, clock may repeat a millisecond | Lost update: the stale caller's lock matches the newer write. |
| missing_ctx_retry (`MCRepo_missing_ctx.cfg`) | violation | only `c2` (no tenant id), entities built by hand, `TenantScopeSet` | NewDoc, then Create fails with MissingContext but leaves `CreatedBy`/`CreatedAt` set, then Upsert of the same entity. Its `CreatedAt` is non-zero, so Upsert takes `baseUpdateOp`, which needs only the operator, and inserts the document with no tenant. |
| patch_notfound (`MCRepo_patch_notfound.cfg`) | violation | core | The second Patch of a visible document returns NotFound. The first Patch left the caller's `UpdatedAt` different from the stored one, and PatchRaw has no recount. |
| upsert_crosses_tenant (`MCRepo_upsert_iso.cfg`) | violation | callers may pass hand-built entities | A fresh Upsert by a tenant-isolated caller replaces another tenant's document. |
| batch_soft_delete_no_lock_bump (`MCRepo_batch_soft.cfg`) | violation | `c2`'s context disables soft delete | A stale Update by `c2` overwrites `c1`'s batch soft delete. |
| retry_after_failure (`MCRepo_retry.cfg`) | violation | hard_delete, with failures | Create, then an Update whose ReplaceOne fails unapplied, then a retry → "data is modified by other". The failed call stamped `updated_at` into the entity in place. |
| parts (`MCParts.cfg`) | pass | Paging: up to 3 documents, page sizes 0–2, default, `data`, `data desc`, `created_at desc` and two-key sorts. PatchPayload: the repository shapes. ErrorTaxonomy: every operation's errors, wrapped up to twice. Batch: two ids, batches of 1–2 elements, versions up to 3 | `PageIsSlice` and `WalkCoversOnce` hold whenever the sort keys are distinct; `PayloadSound` over every shape; `KindComparable` over every returned error; `BatchWritesPrefix` over every batch and interference. |
| ms_audit_unreadable (`MCRepo_ms.cfg`) | violation | core without failures, `AuditMs` | Create, Get, Patch, Get: PatchRaw stored `updated_at` as a datetime, and the second Get cannot decode it into the int64 field. |
| paging_ties (`MCPaging_ties.cfg`) | violation | the same, `WalkNoRepeat` | Default sort, two matching documents `d1` and `d2` with equal `created_at`, page size 1: the walk returns `d1` on pages 1 and 2. |
| patch_payload_time (`MCPatchPayload_time.cfg`) | violation | the same | A non-zero `time.Time` field is missing from the payload (`PayloadComplete`). |

Every property of a passing run has a mutant in `PROJECT.json`: a plausible
defect of the code it depends on. Each mutant is defined in the module next
to the definition it replaces. TLC finds the property violated once the
mutant is in place:
- the tenant read from the operator key breaks `TypeOK`;
- a `CtxUpdateAudit` that stamps only once breaks `NoLostUpdate`;
- a soft-delete condition left out of the filters breaks `LifecycleRefined`
  in core (a second Delete re-stamps a deleted document);
- an Upsert that always takes the create path breaks it in hard_delete;
- a merge in which the library option wins breaks `TenantIsolation` in core;
- `retry.Attempts(0)` (retry-go: until success) breaks `CallsReturn`: a
  backoff Get of a document nobody creates never returns;
- a skip of `pSize*pNum` breaks `WalkCoversOnce`, and a GetSortInfo that
  ignores `desc` breaks `PageIsSlice`;
- a `genDbKey` that always writes the dot, or a builder that does not skip
  `bson:"-"`, breaks `PayloadSound`;
- an `IsErrCode` that looks only at the error itself, not its chain,
  breaks `KindComparable` on a wrapped NotFound;
- an unordered InsertMany (`SetOrdered(false)`), or a BatchUpdate loop that
  skips a failed element, breaks `BatchWritesPrefix`.

## Bounds and why they are enough

- **Two callers** are the least that can interleave. They differ where it
  matters: isolation mode, tenant and (in one run) soft-delete mode.
- **One id** suffices, because each call touches one id, except
  BatchDelete, whose multi-id behaviour only repeats the one-id effect.
- **PatchPayload shapes:** each field kind appears at depth one and depth
  two, in both orders. Every tag form appears, along with zero and non-zero
  values of both leaves and structs, so each branch of the builder and one
  key overwrite are reached. The RECURSIVE operators recurse on the
  structure of the value, so deeper nesting only repeats these cases.
- **Paging:** three documents and page sizes 0–2 give:
  - a size-0 walk (no limit);
  - a two-page walk whose last page is partial;
  - a three-page walk;
  - ties of two and of three documents;
  - sorts on either field, in both directions, and on two keys.

  Three `created_at` values let all three documents be distinct or tie.
- **Errors:** every operation's return statements give at most one error
  per kind and shape, and a caller wraps it in up to two layers of `%w` and
  `ErrCall`, both orders. A longer chain repeats the same unwrap step that
  `Chain` takes recursively.
- **Batch:** two ids and batches of two elements give a duplicate inside
  the batch, a stored id before or after a new one, and a failure of the
  first Update with a second one to skip. `MaxVersion` 3 lets another
  caller write once between a load and the batch's Update.
- **Ms audit:** the ms run needs one caller's Create, Get, Patch and Get,
  so `MaxTime` 4 is enough; its other settings are core's.
- **Two data values** are enough to tell a changed entity from an unchanged
  one.
- **Clock:** `MaxTime` 4 allows four stamped calls in all, shared by the two
  callers. That is enough for create → other write → stale write, for a
  failed write followed by its retry, and for delete → re-create → stale
  write. A reading inside a started call
  (PatchRaw's second one) may pass `MaxTime` by one per caller, so no call is
  left half done. The hard_delete run uses `MaxTime` 3 (create → other
  write → stale write still fits), which keeps its liveness check, done
  without symmetry, within minutes.
- **`StrictClock`** selects whether two readings may fall into the same
  millisecond. The pass runs use a strict clock. This is an assumption about
  the deployment (writes to one document more than a millisecond apart), and
  the violation runs show what happens without it.
- **Millisecond readings:** the stored `updated_at` is a BSON datetime, which
  has millisecond precision. The model assumes `timex.Now()` returns
  millisecond-truncated times. Otherwise an entity just returned by Create
  would never match its own lock, which the test at mongox_test.go:116
  contradicts.

## Fairness

`FairSpec` adds weak fairness to the steps a caller takes inside a call
that has started: `ReplaceCount`, `PatchRaw` and `BackoffGet`. The code
justifies this. Once a call is under way, its goroutine goes straight on to
its next driver call (the backoff only sleeps 50–100 ms first), and driver
calls return, bounded by the context's deadline. Nothing else is fair: a
caller may stop between calls for good, and the model allows that. Only
hard_delete checks `FairSpec`; the other runs check safety under `Spec`.
TLC does not check liveness soundly under symmetry, so hard_delete has
none.

Some outcomes the model shows have no run of their own, because another run
already shows the same root cause. They are listed as hazards in
`PROJECT.json`:
- With a clock that may repeat a millisecond, two more outcomes follow from
  the same cause as same_ms_lost_update: an Update of an unchanged entity
  gets "optimistic locking failed", and a document deleted and re-created in
  one millisecond is overwritten by a stale Update.
- With `BlindWrites`, an Update of a hand-built entity erases the creation
  stamp.
- With `EmptyTagNames`, `PayloadSound` fails on the key `""`.
- With `NestedInline`, `PayloadSound` fails on the key `b.inline.c`.

## Simplifications

- The audit representation is one constant for all three stamps: an
  entity with `AuditMs` embeds the three `*AuditMs` variants. A mix (a
  `CreateAudit` and an `UpdateAuditMs`) is not modelled.
- `CtxCreateAudit` reads the clock once for the create stamp and once for the
  update stamp (two `SetUser` calls). `Delete` reads it once in `CtxDeleteAudit` and once more in
  Update. The model uses one reading per call for these. The lock depends
  only on `updated_at`, and PatchRaw's separate reading, which matters, is
  modelled.
- AppID is folded into TenantID (they are set together), and
  `DataIsolationApp` behaves like the tenant mode.
- `deleted_by` is not a field of the model.
- Callers: with `BlindWrites` FALSE, a caller passes to a write only the
  entity its last successful call returned (or the one a driver error left,
  to retry that call), as the read-modify-write tests do. The tests also
  pass hand-built entities (mongox_test.go:130 Upsert, :150 Patch); with
  `BlindWrites` TRUE any entity the caller built may be passed, which
  upsert_crosses_tenant and missing_ctx_retry use.

## Not modelled yet (plan for later sittings)

1. Driver failures of the reads (FindOne, CountDocuments). They change no
   state and only return an error; every driver write may fail
   (`StorageFailures`, `DriverError`). A retried Create after a lost
   InsertOne reply gets Conflict for its own document; the core run goes
   through it, but no run asks about it (see the hazard at mongox.go:348).
2. Find (InjectCond and one Find; it changes no state). Writes during a page
   walk: the spec promises no snapshot between count and fetch.
3. BatchCreate and BatchUpdate against the full Repo (their elements'
   audit and lock): Batch abstracts each Update to its outcome, which Repo
   models, and InsertMany to one atomic step.
4. A lagging replica behind the backoff Get. The retry loop and its bound
   are modelled, but the single store has no secondaries, so a stale read
   cannot happen.
5. The MissingContext returns of `injectIsolationCond`, and contexts
   without an operator. An ASSUME restricts the models to callers whose
   tenant isolation has a tenant id, and every caller has an operator.
   BatchCreate's MissingContext is not modelled either: Batch's elements
   are ids. A repository default that disables soft delete.
   Upsert after the caller's own soft Delete returns Conflict on the
   duplicate `_id`: a write on a current view gets Conflict. It is not
   kept as a run, because the spec also calls an identifier collision on
   insert a Conflict. An Update or Upsert after the caller's own Patch
   also gets Conflict on a current view (the lock PatchRaw never stored);
   it needs four clock readings, and patch_notfound shows the same cause.
6. The lock as an abstract compare-and-set register per document. Patch
   could not refine it, because Patch leaves the caller a lock value that
   was never stored (patch_notfound). The lifecycle refinement covers the
   rest of what the spec promises about a stored document.
7. The kinds MissingContext, Validation and StorageFailure are
   `fmt.Errorf` values with no code or sentinel, so a caller cannot compare
   them with `errors.Is` as spec §7 promises. There is nothing to compare
   them with, so no property can fail on them; `KindComparable` covers
   NotFound and Conflict. It is listed as a hazard.

Not to be modelled: the construction-time tag check (a one-time panic with no
state), logging, and error message formatting.
