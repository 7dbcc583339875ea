\* Entities with the epoch-ms audit variants (CreateAuditMs, UpdateAuditMs,
\* DeleteAuditMs): a Patch, then a Get of the patched document.
CONSTANTS
    c1 = c1  c2 = c2  u1 = u1  u2 = u2  tA = tA  tB = tB
    Clients = {c1, c2}
    Ids = {i1}
    Vals = {v1, v2}
    Users = {u1, u2}
    Tenants = {tA, tB}
    NoId = NoId
    NoRecord = NoRecord
    Ctx <- MCCtx
    LibOpt <- MCLibOpt
    MaxTime = 4
    StrictClock = TRUE
    BlindWrites = FALSE
    StorageFailures = FALSE
    AuditMs = TRUE
    HasCreateAudit = TRUE
    HasUpdateAudit = TRUE
    HasDeleteAudit = TRUE
    HasTenant = TRUE
SPECIFICATION Spec
SYMMETRY MCSymmetry
INVARIANT ReadsDecode
