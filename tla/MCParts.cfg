\* The page walk of up to three documents by the default sort and explicit
\* sorts; the repository's struct shapes (named tags, inline only at the top
\* level); every error the repository returns, wrapped up to two layers;
\* batches of up to two elements over two ids, with writes of other callers.
CONSTANTS
    d1 = d1  d2 = d2  d3 = d3
    Docs = {d1, d2, d3}
    Stamps = {1, 2, 3}
    Vals = {1, 2}
    PageSizes = {0, 1, 2}
    OrderBys <- MCOrderBys
    CreateAuditor = TRUE
    NoTag = NoTag
    Zero = Zero
    NestedInline = FALSE
    EmptyTagNames = FALSE
    i1 = i1  i2 = i2
    Ids = {i1, i2}
    NoId = NoId
    MaxBatch = 2
    MaxVersion = 3
    None = None
SPECIFICATION Spec
INVARIANT PageIsSlice
INVARIANT WalkCoversOnce
INVARIANT PayloadSound
INVARIANT KindComparable
INVARIANT BatchWritesPrefix
