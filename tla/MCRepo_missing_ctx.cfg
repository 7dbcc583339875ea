\* One caller whose context has an operator but no tenant id, upserting an
\* entity it built (Upsert creates or replaces) and calling again with the
\* same entity after an error.
CONSTANTS
    c1 = c1  c2 = c2  u1 = u1  u2 = u2  tA = tA  tB = tB
    Clients = {c2}
    Ids = {i1}
    Vals = {v1, v2}
    Users = {u1, u2}
    Tenants = {tA, tB}
    NoId = NoId
    NoRecord = NoRecord
    Ctx <- MCCtxNoTenant
    LibOpt <- MCLibOpt
    MaxTime = 3
    StrictClock = TRUE
    BlindWrites = TRUE
    StorageFailures = FALSE
    AuditMs = FALSE
    HasCreateAudit = TRUE
    HasUpdateAudit = TRUE
    HasDeleteAudit = TRUE
    HasTenant = TRUE
SPECIFICATION Spec
SYMMETRY MCSymmetry
INVARIANT TenantScopeSet
