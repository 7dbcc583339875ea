---------------------------- MODULE ErrorTaxonomy ----------------------------
(***************************************************************************)
(* The error taxonomy of model/datax/error.go and the errors the           *)
(* repository engine (model/mongox/mongox.go) returns: which of them a     *)
(* caller can tell apart with errors.Is(err, data.ErrX), IsErrCode and     *)
(* data.ErrNotFound.Is, the last being the RetryIf of the backoff Get.     *)
(*                                                                         *)
(* An error value is a record tagged with its dynamic Go type.  A          *)
(* *BaseError carries its code and which pointer it is: one of the package *)
(* variables ErrNotFound / ErrConflict, or "new" for one a constructor     *)
(* allocated (only compared with the package variables, so one tag does). *)
(* Messages are abstracted to empty or not; Error() strings are left out. *)
(* fmt.Errorf with %w is a wrapError, without %w an errorString; a driver  *)
(* error is "mongo".                                                        *)
(***************************************************************************)
EXTENDS Naturals, Sequences, SequencesExt

VARIABLE err   \* an error the repository returned, as the caller holds it

ErrCodeNotFound == 10001
ErrCodeConflict == 10002

NoErr == [type |-> "nil"]

BaseError(code, ptr) == [type |-> "BaseError", code |-> code, ptr |-> ptr]
ErrNotFound == BaseError(ErrCodeNotFound, "ErrNotFound")
ErrConflict == BaseError(ErrCodeConflict, "ErrConflict")

ErrCall(src)     == [type |-> "ErrCall", src |-> src]
Errorf(src)      == [type |-> "wrapError", src |-> src]
Plain            == [type |-> "errorString"]
MongoErr         == [type |-> "mongo"]

NewNotFoundError(msg) ==
    IF msg = "" THEN ErrNotFound ELSE BaseError(ErrCodeNotFound, "new")

NewConflictError(msg) ==
    IF msg = "" THEN ErrConflict ELSE BaseError(ErrCodeConflict, "new")

-----------------------------------------------------------------------------
(***************************************************************************)
(* The standard library's contract: Unwrap of ErrCall and of fmt's         *)
(* wrapError, the chain errors.Is and errors.As walk, errors.As to a       *)
(* pointer type (the first error of that type in the chain), and          *)
(* errors.Is (an element equal to the target, or whose Is method says     *)
(* so).                                                                    *)
(***************************************************************************)
Unwrap(e) == IF e.type \in {"ErrCall", "wrapError"} THEN e.src ELSE NoErr

RECURSIVE Chain(_)
Chain(e) == IF e = NoErr THEN <<>> ELSE <<e>> \o Chain(Unwrap(e))

As(e, t) ==
    LET c == Chain(e)
        OfType(x) == x.type = t
        i == SelectInSeq(c, OfType)
    IN  IF i = 0 THEN NoErr ELSE c[i]

\* Defect: only the error itself is looked at, the chain not searched.
IsErrCodeNoUnwrap(code, e) ==
    e.type \in {"ErrWrapper", "BaseError"} /\ e.code = code

\* IsErrCode: the type switch, then errors.As to *ErrWrapper, then to
\* *BaseError; nil and anything else is FALSE.  (*ErrWrapper is matched
\* by its type tag; the repository never returns one.)
IsErrCode(code, e) ==
    CASE e = NoErr                                  -> FALSE
      [] e.type \in {"ErrWrapper", "BaseError"}     -> e.code = code
      [] As(e, "ErrWrapper") # NoErr                -> As(e, "ErrWrapper").code = code
      [] As(e, "BaseError") # NoErr                 -> As(e, "BaseError").code = code
      [] OTHER                                      -> FALSE

\* (*BaseError).Is(target): the receiver's code checked against target.
BaseErrorIs(e, target) == IsErrCode(e.code, target)

ErrorsIs(e, target) ==
    \E x \in Range(Chain(e)) :
        x = target \/ (x.type = "BaseError" /\ BaseErrorIs(x, target))

-----------------------------------------------------------------------------
(***************************************************************************)
(* What each operation returns, with the kind of the spec's taxonomy it   *)
(* stands for.  InjectCond's and the audit functions' MissingContext      *)
(* errors are fmt.Errorf strings; wrapped by %w where the caller adds     *)
(* "audit doc failed" and the like.                                        *)
(***************************************************************************)
K(e, kind) == [err |-> e, kind |-> kind]
Missing == K(Plain, "MissingContext")
Storage == K(Errorf(MongoErr), "StorageFailure")

InjectCondErrors == {Missing}
GetErrors  == InjectCondErrors \cup {K(ErrNotFound, "NotFound"), Storage}
FindErrors == InjectCondErrors \cup {Storage}
CreateErrors ==
    {K(Plain, "Validation"), K(Errorf(Plain), "MissingContext"),
     K(ErrConflict, "Conflict"), Storage}
ReplaceErrors ==
    {K(Errorf(Plain), "MissingContext"), Missing, K(ErrConflict, "Conflict"),
     Storage, K(NewConflictError("data is modified by other"), "Conflict"),
     K(ErrNotFound, "NotFound"),
     K(NewConflictError("optimistic locking failed"), "Conflict")}
PatchErrors ==
    {Missing, Storage, K(ErrNotFound, "NotFound"),
     K(NewConflictError("optimistic locking failed"), "Conflict")}
\* DeleteOne's error is returned as the driver gave it.
DeleteErrors ==
    {K(Errorf(Plain), "MissingContext"), Missing, K(MongoErr, "StorageFailure"),
     K(ErrNotFound, "NotFound")}
BatchCreateErrors ==
    {K(Plain, "Validation"), K(Errorf(Plain), "MissingContext"),
     K(ErrConflict, "Conflict"), Storage}
BatchDeleteErrors == {Missing, Storage, K(ErrNotFound, "NotFound")}

RepoErrors ==
    GetErrors \cup FindErrors \cup CreateErrors \cup ReplaceErrors \cup PatchErrors
        \cup DeleteErrors \cup BatchCreateErrors \cup BatchDeleteErrors

\* What a caller holds: the error itself or wrapped, by fmt.Errorf("%w") or
\* in an ErrCall, up to two layers.
Wrapped(e) == {e, Errorf(e), ErrCall(e), Errorf(ErrCall(e)), ErrCall(Errorf(e))}

Returned == UNION {{K(w, x.kind) : w \in Wrapped(x.err)} : x \in RepoErrors}

Init == err \in Returned
Next == UNCHANGED err
Spec == Init /\ [][Next]_err

-----------------------------------------------------------------------------
Sentinel == [NotFound |-> ErrNotFound, Conflict |-> ErrConflict]
Code     == [NotFound |-> ErrCodeNotFound, Conflict |-> ErrCodeConflict]

(***************************************************************************)
(* A caller branches on the kind, not the message (spec 7): an error the   *)
(* repository returned, wrapped or not, is errors.Is data.ErrNotFound /    *)
(* data.ErrConflict, and IsErrCode of their codes, exactly when it is of   *)
(* that kind; in particular data.ErrNotFound.Is (the backoff's RetryIf)    *)
(* retries NotFound and nothing else.                                      *)
(***************************************************************************)
KindComparable ==
    \A k \in DOMAIN Sentinel :
        /\ ErrorsIs(err.err, Sentinel[k]) <=> err.kind = k
        /\ IsErrCode(Code[k], err.err) <=> err.kind = k
        /\ BaseErrorIs(Sentinel[k], err.err) <=> err.kind = k
====
