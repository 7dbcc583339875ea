------------------------------- MODULE MCParts ------------------------------
(***************************************************************************)
(* The parts checked on their own, in one model: the page walk (Paging),  *)
(* the Patch payload builder (PatchPayload), the error taxonomy            *)
(* (ErrorTaxonomy) and the batch writes (Batch).  They share no state, so  *)
(* the model is their disjoint union: each behaviour belongs to one of     *)
(* them, chosen in the initial state, while the others rest at a fixed     *)
(* value (None, or the walk before its first page over no documents).     *)
(* Each property is checked in the behaviours of its part.                 *)
(***************************************************************************)
EXTENDS Integers, TLC

CONSTANTS
    Docs, Stamps, Vals, PageSizes, OrderBys, CreateAuditor,  \* Paging
    NoTag, Zero, NestedInline, EmptyTagNames,                \* PatchPayload
    Ids, NoId, MaxBatch, MaxVersion,                         \* Batch
    None            \* the value of a part's variable outside its behaviours

VARIABLES docs, created, data, req, num, total, rows, got, ent, err,
          store, call, list, next, wrote, last

walkVars  == <<docs, created, data, req, num, total, rows, got>>
batchVars == <<store, call, list, next, wrote, last>>
vars == <<walkVars, ent, err, batchVars>>

Walk    == INSTANCE Paging
Payload == INSTANCE PatchPayload
Errors  == INSTANCE ErrorTaxonomy
Batches == INSTANCE Batch

\* OrderBy "", "data", "data desc", "created_at desc" and
\* "data desc, created_at", each clause split into its words.
MCOrderBys == {<<>>, <<<<"data">>>>, <<<<"data", "desc">>>>,
               <<<<"created_at", "desc">>>>,
               <<<<"data", "desc">>, <<"created_at">>>>}

InBatch == store # None
InWalk  == ent = None /\ err = None /\ ~InBatch

WalkAtRest ==
    /\ docs = {}
    /\ created = [d \in Docs |-> CHOOSE s \in Stamps : TRUE]
    /\ data = [d \in Docs |-> CHOOSE v \in Vals : TRUE]
    /\ req = CHOOSE r \in Walk!Requests : TRUE
    /\ num = 1 /\ total = -1 /\ rows = <<>> /\ got = <<>>

BatchAtRest ==
    /\ store = None /\ call = "idle" /\ list = <<>> /\ next = 1 /\ wrote = <<>>
    /\ last = [op |-> "none", res |-> "none", list |-> <<>>, wrote |-> <<>>]

Init ==
    \/ Walk!Init /\ ent = None /\ err = None /\ BatchAtRest
    \/ WalkAtRest /\ Payload!Init /\ err = None /\ BatchAtRest
    \/ WalkAtRest /\ ent = None /\ Errors!Init /\ BatchAtRest
    \/ WalkAtRest /\ ent = None /\ err = None /\ Batches!Init

Next ==
    \/ InWalk /\ Walk!Next /\ UNCHANGED <<ent, err, batchVars>>
    \/ InBatch /\ Batches!Next /\ UNCHANGED <<walkVars, ent, err>>
    \/ ~InWalk /\ ~InBatch /\ UNCHANGED vars

Spec == Init /\ [][Next]_vars

MCSymmetry == Permutations(Docs)

(***************************************************************************)
(* The properties of the three parts, each stated in its module:           *)
(* PageIsSlice, WalkCoversOnce (Paging), PayloadSound (PatchPayload),      *)
(* KindComparable (ErrorTaxonomy), BatchWritesPrefix (Batch).              *)
(***************************************************************************)
\* Each page PageQuery returns is the spec's slice of the sorted documents.
PageIsSlice == InWalk => Walk!PageIsSlice

\* A page walk returns every matching document exactly once.
WalkCoversOnce == InWalk => Walk!WalkCoversOnce

\* Every key BuildPatchPayload sets is a path of the spec's flattening.
PayloadSound == ent # None => Payload!PayloadSound

\* A returned error compares equal to data.ErrNotFound / data.ErrConflict
\* (errors.Is, IsErrCode, ErrNotFound.Is) exactly when it is of that kind.
KindComparable == err # None => Errors!KindComparable

\* A batch that succeeds wrote all its elements; one that fails wrote a
\* prefix of them (BatchCreate's ordered InsertMany, BatchUpdate's loop).
BatchWritesPrefix == InBatch => Batches!BatchWritesPrefix
=============================================================================
