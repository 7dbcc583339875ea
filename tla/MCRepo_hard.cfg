\* mongox_test's testEntity (no DeleteAudit: deletes are physical), read-modify-write
\* callers, a clock that advances on every reading, and weak fairness of the
\* steps inside a call; c2's context has no tenant id, so its Creates fail
\* with MissingContext.  Liveness is checked without symmetry (with it TLC
\* may miss a violation); MaxTime 3 keeps the liveness check small.
CONSTANTS
    c1 = c1  c2 = c2  u1 = u1  u2 = u2  tA = tA  tB = tB
    Clients = {c1, c2}
    Ids = {i1}
    Vals = {v1, v2}
    Users = {u1, u2}
    Tenants = {tA, tB}
    NoId = NoId
    NoRecord = NoRecord
    Ctx <- MCCtxNoTenant
    LibOpt <- MCLibOptBackoff
    MaxTime = 3
    StrictClock = TRUE
    BlindWrites = FALSE
    StorageFailures = FALSE
    AuditMs = FALSE
    HasCreateAudit = TRUE
    HasUpdateAudit = TRUE
    HasDeleteAudit = FALSE
    HasTenant = TRUE
SPECIFICATION FairSpec
INVARIANT NoLostUpdate
PROPERTY LifecycleRefined
PROPERTY CallsReturn
