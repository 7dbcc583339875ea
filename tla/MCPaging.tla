------------------------------ MODULE MCPaging ------------------------------
EXTENDS Paging, TLC

\* OrderBy "", "data", "data desc", "created_at desc" and
\* "data desc, created_at", each clause split into its words.
MCOrderBys == {<<>>, <<<<"data">>>>, <<<<"data", "desc">>>>,
               <<<<"created_at", "desc">>>>,
               <<<<"data", "desc">>, <<"created_at">>>>}

MCSymmetry == Permutations(Docs)
=============================================================================
