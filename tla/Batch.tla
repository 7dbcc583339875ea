-------------------------------- MODULE Batch --------------------------------
(***************************************************************************)
(* BatchCreate and BatchUpdate of model/mongox/mongox.go: what a batch     *)
(* call writes when one of its elements fails, while other callers write   *)
(* the same documents.                                                     *)
(*                                                                         *)
(* A stored document is its version: 0 when there is none, otherwise the  *)
(* number of writes it has had, standing for the updated_at an Update     *)
(* carries as its lock (Repo models the lock itself).  A BatchCreate       *)
(* element is an id; a BatchUpdate element is an id with the version the   *)
(* caller loaded.  BatchCreate makes one InsertMany, an atomic driver     *)
(* call here; BatchUpdate makes one Update per element, and other callers *)
(* act between them.  A driver call may fail before or after it writes.    *)
(***************************************************************************)
EXTENDS Naturals, Sequences, SequencesExt

CONSTANTS
    Ids,          \* document ids
    NoId,         \* the zero id
    MaxBatch,     \* bound on the length of a batch
    MaxVersion    \* bound on the writes to one document

VARIABLES
    store,   \* id -> version, 0: no document
    call,    \* "idle", or "update" inside a BatchUpdate
    list,    \* the batch the caller passed
    next,    \* index of the element BatchUpdate's loop is at
    wrote,   \* history: the elements this call has written, in order
    last     \* history: the last batch call that returned

vars == <<store, call, list, next, wrote, last>>

Versions == 0..MaxVersion
Locks    == 1..(MaxVersion - 1)
Results  == {"none", "ok", "conflict", "error"}
Stored   == {i \in Ids : store[i] # 0}

Return(op, res, w) ==
    /\ last' = [op |-> op, res |-> res, list |-> list', wrote |-> w]
    /\ call' = "idle"

(***************************************************************************)
(* The driver's InsertMany: in order, each element that is not already     *)
(* stored (or inserted earlier in the batch) is inserted; an ordered      *)
(* InsertMany stops at the first duplicate key, an unordered one goes on.  *)
(* Its result is the elements inserted.                                    *)
(***************************************************************************)
RECURSIVE InsertMany(_, _, _)
InsertMany(docs, taken, ordered) ==
    IF docs = <<>> THEN <<>>
    ELSE IF Head(docs) \in taken
         THEN IF ordered THEN <<>> ELSE InsertMany(Tail(docs), taken, ordered)
         ELSE <<Head(docs)>> \o InsertMany(Tail(docs), taken \cup {Head(docs)}, ordered)

\* Defect: options.InsertMany().SetOrdered(false).
BatchCreateOrderedUnset == FALSE

\* BatchCreate passes no options: the driver's default, ordered.
BatchCreateOrdered == TRUE

(***************************************************************************)
(* BatchCreate: checkIfIDExisted on every element (a zero id returns       *)
(* before any insert), CtxCreateAudit (stamps only), then InsertMany.  A   *)
(* duplicate key is ErrConflict; a driver error may come after some of    *)
(* the elements were inserted.                                             *)
(***************************************************************************)
BatchCreate(docs) ==
    /\ call = "idle"
    /\ list' = docs
    /\ \/ /\ NoId \in ToSet(docs)
          /\ Return("batchCreate", "error", <<>>)
          /\ UNCHANGED store
       \/ /\ NoId \notin ToSet(docs)
          /\ LET ins == InsertMany(docs, Stored, BatchCreateOrdered) IN
             \E w \in {SubSeq(ins, 1, n) : n \in 0..Len(ins)} :
                /\ store' = [i \in Ids |-> IF i \in ToSet(w) THEN 1 ELSE store[i]]
                /\ LET res == CASE w # ins        -> "error"
                                [] ins = docs     -> "ok"
                                [] OTHER          -> "conflict"
                   IN Return("batchCreate", res, w)
    /\ UNCHANGED <<next, wrote>>

\* BatchUpdate: the loop begins.
BatchUpdate(docs) ==
    /\ call = "idle"
    /\ call' = "update"
    /\ list' = docs
    /\ next' = 1
    /\ wrote' = <<>>
    /\ UNCHANGED <<store, last>>

(***************************************************************************)
(* One iteration: Update(ctx, v).  It writes when the stored version is   *)
(* the element's lock; otherwise the document is gone or changed and      *)
(* Update returns NotFound or Conflict.  ReplaceOne may also fail with a  *)
(* driver error, before or after the write.  The loop returns the first   *)
(* error; after the last element it returns nil.                           *)
(***************************************************************************)
\* Defect: an element whose Update failed is skipped and the loop goes on.
BatchUpdateContinues(err) == FALSE

\* if _, err := l.Update(ctx, v); err != nil { return err }
BatchUpdateReturnsOn(err) == err

UpdateStep ==
    /\ call = "update"
    /\ UNCHANGED list
    /\ LET e == list[next] IN
       \E written \in BOOLEAN, driverErr \in BOOLEAN :
          LET err == driverErr \/ ~written IN
          /\ written => store[e.id] = e.lock
          /\ ~written /\ ~driverErr => store[e.id] # e.lock
          /\ store' = IF written THEN [store EXCEPT ![e.id] = e.lock + 1] ELSE store
          /\ wrote' = IF written THEN Append(wrote, e) ELSE wrote
          /\ IF BatchUpdateReturnsOn(err) \/ next = Len(list)
             THEN /\ Return("batchUpdate", IF err THEN "error" ELSE "ok", wrote')
                  /\ UNCHANGED next
             ELSE /\ next' = next + 1
                  /\ UNCHANGED <<call, last>>

(***************************************************************************)
(* Another caller's write between two driver calls: a Create of an absent  *)
(* id, an Update, or a physical Delete.                                    *)
(***************************************************************************)
OtherWrite(i) ==
    /\ \/ store[i] = 0 /\ store' = [store EXCEPT ![i] = 1]
       \/ store[i] \in 1..(MaxVersion - 2) /\ store' = [store EXCEPT ![i] = @ + 1]
       \/ store[i] # 0 /\ store' = [store EXCEPT ![i] = 0]
    /\ UNCHANGED <<call, list, next, wrote, last>>

CreateLists == SeqOf(Ids \cup {NoId}, MaxBatch) \ {<<>>}
UpdateLists == SeqOf([id : Ids, lock : Locks], MaxBatch) \ {<<>>}

Init ==
    /\ store \in [Ids -> {0, 1}]
    /\ call = "idle" /\ list = <<>> /\ next = 1 /\ wrote = <<>>
    /\ last = [op |-> "none", res |-> "none", list |-> <<>>, wrote |-> <<>>]

Next ==
    \/ \E docs \in CreateLists : BatchCreate(docs)
    \/ \E docs \in UpdateLists : BatchUpdate(docs)
    \/ UpdateStep
    \/ \E i \in Ids : OtherWrite(i)

Spec == Init /\ [][Next]_vars

TypeOK ==
    /\ store \in [Ids -> Versions]
    /\ call \in {"idle", "update"}
    /\ next \in 1..MaxBatch
    /\ last.res \in Results

(***************************************************************************)
(* Batches are not transactions (spec 5): a batch that succeeds wrote all *)
(* of its elements, and one that fails wrote a prefix of them, never an   *)
(* element after one that was not written.  BatchCreate relies on the      *)
(* driver's ordered InsertMany, BatchUpdate on returning at the first      *)
(* failed Update.                                                          *)
(***************************************************************************)
BatchWritesPrefix ==
    last.op # "none" =>
        /\ IsPrefix(last.wrote, last.list)
        /\ last.res = "ok" => last.wrote = last.list
====
