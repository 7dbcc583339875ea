------------------------------ MODULE RepoOpt ------------------------------
(***************************************************************************)
(* The policy resolver of model/types.go: the repository-level RepoOpt     *)
(* (CollectionLib.opt) merged with the RepoOpt carried in the context.     *)
(* Each option is a string and "" means "not set"; the merge keeps the     *)
(* context's value where it is set and falls back to the repository's      *)
(* field by field.  SoftDeleteEnable is the empty string itself.           *)
(***************************************************************************)
EXTENDS Pass

\* DataIsolationApp filters on app_id, which CtxCreateAudit sets together
\* with tenant_id from the same context; the model keeps one of the two.
DataIsolations == {"", "none", "user", "tenant"}
SoftDeletes    == {"", "disable"}
\* FixedStrategy: how GetByFilter copes with a read that lags a write.
FixedStrategies == {"", "none", "backoff"}

SoftDeleteEnable  == ""
SoftDeleteDisable == "disable"

RepoOpts == [DataIsolation : DataIsolations, SoftDelete : SoftDeletes,
             TryFixSyncDelay : FixedStrategies]

\* RepoOpt{}: nothing set.
NoRepoOpt == [DataIsolation |-> "", SoftDelete |-> "", TryFixSyncDelay |-> ""]

CtxKeyRepoOpt == "repo-opt"

\* CtxRepoOptOrNew: the RepoOpt bound in the context (a copy, RepoOpt being
\* a struct value), or RepoOpt{}.
CtxRepoOptOrNew(ctx) ==
    IF CtxKeyRepoOpt \in DOMAIN ctx THEN ctx[CtxKeyRepoOpt] ELSE NoRepoOpt

(***************************************************************************)
(* The SetCtx* setters: copy the context's RepoOpt, set one field, bind    *)
(* the copy in a new context.  SetCtxRepoDeployIsolation and               *)
(* SetCtxRepoUpdateRunContext set fields the model leaves out.             *)
(***************************************************************************)
SetCtxRepoDataIsolation(ctx, di) ==
    WithValue(ctx, CtxKeyRepoOpt, [CtxRepoOptOrNew(ctx) EXCEPT !.DataIsolation = di])

SetCtxSoftDelete(ctx, sd) ==
    WithValue(ctx, CtxKeyRepoOpt, [CtxRepoOptOrNew(ctx) EXCEPT !.SoftDelete = sd])

SetCtxFixedStrategy(ctx, fs) ==
    WithValue(ctx, CtxKeyRepoOpt, [CtxRepoOptOrNew(ctx) EXCEPT !.TryFixSyncDelay = fs])

(***************************************************************************)
(* CtxMergeRepoOpt(ctxOpt, merge), ctxOpt being CtxRepoOptOrNew(ctx): a   *)
(* field of the context's option that is "" is taken from merge.          *)
(***************************************************************************)
\* Defect: the repository's option wins wherever it is set.
CtxMergeRepoOptLibFirst(ctxOpt, merge) ==
    [f \in DOMAIN ctxOpt |-> IF merge[f] = "" THEN ctxOpt[f] ELSE merge[f]]

CtxMergeRepoOpt(ctxOpt, merge) ==
    [f \in DOMAIN ctxOpt |-> IF ctxOpt[f] = "" THEN merge[f] ELSE ctxOpt[f]]
=============================================================================
