\* The walk of MCPaging.cfg, checked for a repeated row: created_at values
\* may be equal, as readings in one millisecond are.
CONSTANTS
    d1 = d1  d2 = d2  d3 = d3
    Docs = {d1, d2, d3}
    Stamps = {1, 2, 3}
    Vals = {1, 2}
    PageSizes = {0, 1, 2}
    OrderBys <- MCOrderBys
    CreateAuditor = TRUE
SYMMETRY MCSymmetry
SPECIFICATION Spec
INVARIANT WalkNoRepeat
