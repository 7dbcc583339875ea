\* Read-modify-write callers, two clock readings may fall into one millisecond.
CONSTANTS
    c1 = c1  c2 = c2  u1 = u1  u2 = u2  tA = tA  tB = tB
    Clients = {c1, c2}
    Ids = {i1}
    Vals = {v1, v2}
    Users = {u1, u2}
    Tenants = {tA, tB}
    NoId = NoId
    NoRecord = NoRecord
    Ctx <- MCCtx
    LibOpt <- MCLibOpt
    MaxTime = 5
    StrictClock = FALSE
    BlindWrites = FALSE
    StorageFailures = FALSE
    AuditMs = FALSE
    HasCreateAudit = TRUE
    HasUpdateAudit = TRUE
    HasDeleteAudit = TRUE
    HasTenant = TRUE
SPECIFICATION Spec
SYMMETRY MCSymmetry
INVARIANT NoLostUpdate
