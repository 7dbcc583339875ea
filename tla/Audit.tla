------------------------------- MODULE Audit -------------------------------
(***************************************************************************)
(* The audit engine of model/audit.go and model/util.go: how an entity is  *)
(* stamped with who/when it was created, updated and deleted, and with the *)
(* tenant of the caller.  An entity is a record whose fields keep the Go   *)
(* names of the embedded audit structs; a timestamp is a natural number,   *)
(* 0 standing for the zero time.Time (IsZero) or the zero int64.           *)
(*                                                                         *)
(* Which audit structs the entity type embeds is a capability, fixed per   *)
(* type: the code probes it with a type assertion (entity.(CreateAuditor))*)
(* and here it is a BOOLEAN constant.                                      *)
(***************************************************************************)
CONSTANTS
    HasCreateAudit,  \* the entity implements CreateAuditor (CreateAudit)
    HasUpdateAudit,  \* the entity implements UpdateAuditor (UpdateAudit)
    HasDeleteAudit,  \* the entity implements DeleteAuditor (DeleteAudit)
    HasTenant,       \* the entity implements TenantCarrier (TenantAudit)
    NoId             \* the empty string of an unset user or tenant id

ASSUME {HasCreateAudit, HasUpdateAudit, HasDeleteAudit, HasTenant} \subseteq BOOLEAN

(***************************************************************************)
(* CtxUpdateAudit: an UpdateAuditor gets UpdatedBy = operator and          *)
(* UpdatedAt = timex.Now(); any other entity is left alone.                *)
(***************************************************************************)
\* Defect: the create-time "only if zero" guard copied onto UpdatedAt.
CtxUpdateAuditOnce(d, user, t) ==
    IF HasUpdateAudit
    THEN [d EXCEPT !.UpdatedBy = user,
                   !.UpdatedAt = IF d.UpdatedAt = 0 THEN t ELSE @]
    ELSE d

CtxUpdateAudit(d, user, t) ==
    IF HasUpdateAudit THEN [d EXCEPT !.UpdatedBy = user, !.UpdatedAt = t]
                      ELSE d

(***************************************************************************)
(* CtxCreateAudit: creator stamp, then tenant (TenantID and AppID, which   *)
(* are set from the context together and are one field here), then the    *)
(* update stamp through CtxUpdateAudit.  A context without a tenant id     *)
(* (tenant = NoId: CtxGetTenantID's ok is false) fails the call after the  *)
(* creator stamp was set: the result is the entity as the call leaves it   *)
(* and whether the call succeeded.                                         *)
(***************************************************************************)
\* Defect: the tenant taken from the operator's context key.
CtxCreateAuditTenantFromUser(d, user, tenant, t) ==
    LET created == IF HasCreateAudit
                   THEN [d EXCEPT !.CreatedBy = user, !.CreatedAt = t]
                   ELSE d
        scoped  == IF HasTenant THEN [created EXCEPT !.TenantID = user]
                                ELSE created
    IN  [doc |-> CtxUpdateAudit(scoped, user, t), ok |-> TRUE]

CtxCreateAudit(d, user, tenant, t) ==
    LET created == IF HasCreateAudit
                   THEN [d EXCEPT !.CreatedBy = user, !.CreatedAt = t]
                   ELSE d
        scoped  == IF HasTenant THEN [created EXCEPT !.TenantID = tenant]
                                ELSE created
    IN  IF HasTenant /\ tenant = NoId
        THEN [doc |-> created, ok |-> FALSE]
        ELSE [doc |-> CtxUpdateAudit(scoped, user, t), ok |-> TRUE]

(***************************************************************************)
(* CtxDeleteAudit: a DeleteAuditor gets DeletedAt = timex.Now() and the    *)
(* call reports TRUE (soft delete applies); otherwise FALSE and no stamp.  *)
(***************************************************************************)
CtxDeleteAudit(d, t) ==
    IF HasDeleteAudit THEN [doc |-> [d EXCEPT !.DeletedAt = t], soft |-> TRUE]
                      ELSE [doc |-> d, soft |-> FALSE]

(***************************************************************************)
(* UpdateLockAndAudit: remember the entity's UpdatedAt before re-stamping  *)
(* it; a non-zero original becomes the optimistic-lock value (0 = none).   *)
(* Both UpdateRunContext branches call CtxUpdateAudit, so the mode does    *)
(* not show here.                                                          *)
(***************************************************************************)
UpdateLockAndAudit(d, user, t) ==
    [doc  |-> CtxUpdateAudit(d, user, t),
     lock |-> IF HasUpdateAudit THEN d.UpdatedAt ELSE 0]
=============================================================================
