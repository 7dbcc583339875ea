\* Read-modify-write callers, a clock that advances on every reading, and a
\* driver write (InsertOne, ReplaceOne, UpdateOne, DeleteOne, ...) that may fail
\* before or after it writes; callers retry the failed call with the entity they passed.
CONSTANTS
    c1 = c1  c2 = c2  u1 = u1  u2 = u2  tA = tA  tB = tB
    Clients = {c1, c2}
    Ids = {i1}
    Vals = {v1, v2}
    Users = {u1, u2}
    Tenants = {tA, tB}
    NoId = NoId
    NoRecord = NoRecord
    Ctx <- MCCtx
    LibOpt <- MCLibOpt
    MaxTime = 4
    StrictClock = TRUE
    BlindWrites = FALSE
    StorageFailures = TRUE
    AuditMs = FALSE
    HasCreateAudit = TRUE
    HasUpdateAudit = TRUE
    HasDeleteAudit = TRUE
    HasTenant = TRUE
SPECIFICATION Spec
SYMMETRY MCSymmetry
INVARIANT TypeOK
INVARIANT NoLostUpdate
PROPERTY LifecycleRefined
PROPERTY TenantIsolation
