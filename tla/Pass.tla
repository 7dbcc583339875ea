-------------------------------- MODULE Pass --------------------------------
(***************************************************************************)
(* The context carrier of pass/pass.go: the operator, tenant and app ids a *)
(* call carries in its context.Context.  A context is modelled by what     *)
(* ctx.Value answers: a function from the keys bound in it to their        *)
(* values.  context.WithValue returns a new context in which the key is    *)
(* bound to the value and every other key answers as in the parent; the    *)
(* parent is not changed.  Keys are strings; the Go key types (string for *)
(* FixedKey, model.CtxKey for the RepoOpt) keep them apart, and here their *)
(* texts do.                                                               *)
(***************************************************************************)
EXTENDS Sequences, TLC

\* context.Background(): no key bound.
Background == [k \in {} |-> ""]

\* context.WithValue(ctx, key, val): the newest binding of a key shadows
\* the older ones.
WithValue(ctx, key, val) == (key :> val) @@ ctx

\* ctx.Value(key).(string) with the comma-ok form: the value, and whether
\* one is bound.  Only strings are bound under the pass keys.
Value(ctx, key) ==
    IF key \in DOMAIN ctx THEN [val |-> ctx[key], ok |-> TRUE]
                          ELSE [val |-> "", ok |-> FALSE]

KeyOperator == "OFA_OPERATOR"
KeyTenantID == "OFA_TENANT_ID"
KeyAppID    == "OFA_APP_ID"

\* FixedKey: "OFA_PASS_" + strings.ToUpper(key); the keys are upper case
\* already, so ToUpper returns them as they are.
FixedKey(key) == "OFA_PASS_" \o key

CtxGetPassVal(ctx, key)      == Value(ctx, FixedKey(key))
CtxSetPassVal(ctx, key, val) == WithValue(ctx, FixedKey(key), val)

CtxGetOperator(ctx)      == CtxGetPassVal(ctx, KeyOperator)
CtxSetOperator(ctx, val) == CtxSetPassVal(ctx, KeyOperator, val)
CtxGetTenantID(ctx)      == CtxGetPassVal(ctx, KeyTenantID)
CtxSetTenantID(ctx, val) == CtxSetPassVal(ctx, KeyTenantID, val)
CtxGetAppID(ctx)         == CtxGetPassVal(ctx, KeyAppID)
CtxSetAppID(ctx, val)    == CtxSetPassVal(ctx, KeyAppID, val)
=============================================================================
