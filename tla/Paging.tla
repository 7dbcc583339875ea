------------------------------- MODULE Paging -------------------------------
(***************************************************************************)
(* PageQuery of model/mongox/mongox.go with modifyPageOpt, modifySortOpt   *)
(* and SortAble.GetSortInfo of model/datax/page.go: a caller walks the    *)
(* pages of one query, page 1, 2, ... until the total count is covered,    *)
(* over a set of visible documents that nobody writes meanwhile.           *)
(*                                                                         *)
(* The isolation and soft-delete filter (InjectCond, modelled in Repo) is  *)
(* abstracted into the set of documents it lets through.  A document has   *)
(* a created_at and one data field.  OrderBy is given as the result of the *)
(* two splits GetSortInfo applies: a sequence of clauses, each a sequence  *)
(* of words.  Each Find orders documents whose sort keys are equal in any *)
(* order, and may choose differently in the next call, as the store does.  *)
(***************************************************************************)
EXTENDS Integers, Sequences, SequencesExt, FiniteSets

CONSTANTS
    Docs,           \* document ids
    Stamps,         \* created_at values
    Vals,           \* values of the data field
    PageSizes,      \* Pager.PageSize values a caller may pass
    OrderBys,       \* SortAble.OrderBy values, split into clauses of words
    CreateAuditor   \* the entity type implements model.CreateAuditor

VARIABLES
    docs,      \* the documents the query's filter matches
    created,   \* created_at of each document
    data,      \* the data field of each document
    req,       \* the caller's PageQueryInput: page size and OrderBy
    num,       \* the page number of the next PageQuery
    total,     \* TotalCount of the last PageQuery (-1 before the first)
    rows,      \* Rows of the last PageQuery
    got        \* the rows of all pages of the walk, in order

vars == <<docs, created, data, req, num, total, rows, got>>

Lesser(a, b) == IF a < b THEN a ELSE b

\* GetSortInfo: one SortPair per clause, named by its first word and
\* descending when its second word is "desc".
GetSortInfoNoDesc(orderBy) ==
    [i \in 1..Len(orderBy) |-> [Field |-> orderBy[i][1], IsDescending |-> FALSE]]

GetSortInfo(orderBy) ==
    [i \in 1..Len(orderBy) |->
        [Field |-> orderBy[i][1],
         IsDescending |-> Len(orderBy[i]) > 1 /\ orderBy[i][2] = "desc"]]

\* modifySortOpt: the pairs as (key, 1 | -1); with no pairs, ascending
\* created_at when the entity has a creation audit, else no sort at all.
modifySortOpt(orderBy) ==
    LET pairs == GetSortInfo(orderBy)
        conf  == [i \in 1..Len(pairs) |->
                    [Key |-> pairs[i].Field,
                     Value |-> IF pairs[i].IsDescending THEN -1 ELSE 1]]
    IN  IF Len(conf) = 0 /\ CreateAuditor
        THEN <<[Key |-> "created_at", Value |-> 1]>>
        ELSE conf

\* Defect: the skip counts the requested page itself.
modifyPageOptSkipPage(pSize, pNum) ==
    [limit |-> IF pSize > 0 THEN pSize ELSE 0,
     skip  |-> IF pSize > 0 /\ pNum > 0 THEN pSize * pNum ELSE 0]

\* modifyPageOpt: a limit only for a positive size (0 means none), and a
\* skip of the pages before pNum only for a positive page number.
modifyPageOpt(pSize, pNum) ==
    [limit |-> IF pSize > 0 THEN pSize ELSE 0,
     skip  |-> IF pSize > 0 /\ pNum > 0 THEN pSize * (pNum - 1) ELSE 0]

-----------------------------------------------------------------------------
(***************************************************************************)
(* The store's Find with sort, skip and limit.  A document missing the   *)
(* sort field does not occur: both fields are always stored.              *)
(***************************************************************************)
SortKey(d, field) == IF field = "created_at" THEN created[d] ELSE data[d]

\* d sorts strictly before e under the sort document conf.
SortsBefore(conf, d, e) ==
    \E i \in 1..Len(conf) :
        /\ \A j \in 1..(i - 1) : SortKey(d, conf[j].Key) = SortKey(e, conf[j].Key)
        /\ IF conf[i].Value = 1 THEN SortKey(d, conf[i].Key) < SortKey(e, conf[i].Key)
                                ELSE SortKey(d, conf[i].Key) > SortKey(e, conf[i].Key)

\* Every order of S the sort allows; equal keys in any order.
SortedOrders(S, conf) ==
    {s \in SetToSeqs(S) :
        \A i, j \in 1..Len(s) : i < j => ~SortsBefore(conf, s[j], s[i])}

Window(s, opt) ==
    SubSeq(s, opt.skip + 1,
           IF opt.limit = 0 THEN Len(s) ELSE Lesser(Len(s), opt.skip + opt.limit))

FindRows(S, conf, opt) == {Window(s, opt) : s \in SortedOrders(S, conf)}

-----------------------------------------------------------------------------
Requests == [size : PageSizes, orderBy : OrderBys]

\* The caller has every page: it fetched page 1, and either the page size
\* is not positive (one page holds all) or the pages cover TotalCount.
Done == num > 1 /\ (req.size <= 0 \/ (num - 1) * req.size >= total)

Init ==
    /\ docs \in SUBSET Docs
    /\ created \in [Docs -> Stamps]
    /\ data \in [Docs -> Vals]
    /\ req \in Requests
    /\ num = 1
    /\ total = -1
    /\ rows = <<>>
    /\ got = <<>>

\* PageQuery: InjectCond, CountDocuments, then Find with the page and sort
\* options; the caller appends the rows and asks for the next page.
PageQuery ==
    /\ ~Done
    /\ total' = Cardinality(docs)
    /\ rows' \in FindRows(docs, modifySortOpt(req.orderBy),
                          modifyPageOpt(req.size, num))
    /\ got' = got \o rows'
    /\ num' = num + 1
    /\ UNCHANGED <<docs, created, data, req>>

\* The caller starts a new walk with another request.
Restart ==
    /\ Done
    /\ req' \in Requests
    /\ num' = 1
    /\ total' = -1
    /\ rows' = <<>>
    /\ got' = <<>>
    /\ UNCHANGED <<docs, created, data>>

Next == PageQuery \/ Restart

Spec == Init /\ [][Next]_vars

-----------------------------------------------------------------------------
(***************************************************************************)
(* The spec's paging: sort pairs parsed from "field[ desc], ..."; with    *)
(* none, ascending creation time for an entity with a creation audit;     *)
(* page number 1-based, offset (pageNumber - 1) * pageSize, and a size    *)
(* <= 0 meaning no limit.                                                  *)
(***************************************************************************)
RefSort(orderBy) ==
    IF orderBy = <<>>
    THEN IF CreateAuditor THEN <<[Key |-> "created_at", Value |-> 1]>> ELSE <<>>
    ELSE [i \in 1..Len(orderBy) |->
            [Key |-> orderBy[i][1],
             Value |-> IF Len(orderBy[i]) = 2 /\ orderBy[i][2] = "desc"
                       THEN -1 ELSE 1]]

\* The sort orders the documents totally: no two share all sort keys.
KeysDistinct ==
    \A d, e \in docs : d # e => \E i \in 1..Len(RefSort(req.orderBy)) :
        SortKey(d, RefSort(req.orderBy)[i].Key) # SortKey(e, RefSort(req.orderBy)[i].Key)

RefOrder == SetToSortSeq(docs, LAMBDA d, e : SortsBefore(RefSort(req.orderBy), d, e))

RefPage(p) ==
    IF req.size <= 0 THEN RefOrder
    ELSE SubSeq(RefOrder, (p - 1) * req.size + 1,
                Lesser(Len(RefOrder), p * req.size))

(***************************************************************************)
(* Each page PageQuery returns is the slice of the sorted documents the   *)
(* spec defines (spec: 8 records, size 2, page 2 gives the 3rd and 4th),  *)
(* whenever the sort orders them totally.                                 *)
(***************************************************************************)
PageIsSlice == num > 1 /\ KeysDistinct => rows = RefPage(num - 1)

(***************************************************************************)
(* A walk over pages 1, 2, ... returns every matching document exactly   *)
(* once, although each page is a separate Find that orders ties on its    *)
(* own, whenever the sort orders the documents totally.                   *)
(***************************************************************************)
WalkCoversOnce ==
    Done /\ KeysDistinct => Len(got) = Cardinality(docs) /\ Range(got) = docs

(***************************************************************************)
(* A walk over pages 1, 2, ... never returns the same document twice.      *)
(* With no OrderBy, modifySortOpt sorts by created_at alone, and Create    *)
(* and BatchCreate stamp it with millisecond readings that may be equal.   *)
(***************************************************************************)
WalkNoRepeat == Done => IsInjective(got)
=============================================================================
