------------------------------ MODULE MCRepo --------------------------------
(***************************************************************************)
(* Two callers and one document id.  c1 works in tenant tA with tenant     *)
(* isolation asked in its context; c2 works in tenant tB with no isolation *)
(* (the CollectionLib's own option says "none"), so c2 can reach c1's      *)
(* documents and the two contend on the same id.  With MCCtxNoTenant,      *)
(* c2's context has no tenant id.  With MCLibOptBackoff, c2's reads retry  *)
(* NotFound; c1's context turns the backoff off.  The entity embeds every  *)
(* audit struct and TenantAudit, like mongox_test's testEntity plus        *)
(* DeleteAudit.                                                            *)
(***************************************************************************)
EXTENDS Repo

CONSTANTS c1, c2, u1, u2, tA, tB

MCLibOpt == [DataIsolation |-> "none", SoftDelete |-> SoftDeleteEnable,
             TryFixSyncDelay |-> ""]
\* The library reads with the backoff (mongox_test.go:111).
MCLibOptBackoff == [MCLibOpt EXCEPT !.TryFixSyncDelay = "backoff"]
\* The identities of a request: operator u, tenant t, and app t.
Request(u, t) == CtxSetAppID(CtxSetTenantID(CtxSetOperator(Background, u), t), t)

\* c1's context asks for tenant isolation and turns the backoff off; c2's
\* carries no RepoOpt.
MCCtx ==
    [c \in Clients |->
        IF c = c1 THEN SetCtxFixedStrategy(SetCtxRepoDataIsolation(Request(u1, tA),
                                                                   "tenant"), "none")
                  ELSE Request(u2, tB)]
\* c2's context disables soft delete (an administrator's view of the data).
MCCtxAdmin == [MCCtx EXCEPT ![c2] = SetCtxSoftDelete(@, SoftDeleteDisable)]
\* c2's context carries an operator but no tenant id nor app id.
MCCtxNoTenant == [MCCtx EXCEPT ![c2] = CtxSetOperator(Background, u2)]

MCSymmetry == Permutations(Vals)
=============================================================================
