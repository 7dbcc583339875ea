---------------------------- MODULE PatchPayload ----------------------------
(***************************************************************************)
(* BuildPatchPayload of model/mongox/mongox.go: the reflective flattening  *)
(* of an entity into the $set payload of Patch, and the flattening the     *)
(* spec describes, as two recursive operators compared over every struct   *)
(* value of a bounded family of struct types.                              *)
(*                                                                         *)
(* A struct value is a sequence of fields in declaration order.  A field   *)
(* is a record: its Go name, its bson tag (NoTag when Tag.Lookup fails,    *)
(* else the part before the first comma, which is all the code reads),    *)
(* whether it is exported, its kind and its value.  A leaf's value is      *)
(* Zero or its Go name (a token standing for the value); a struct's value  *)
(* is again a sequence of fields.  time.Time is what reflect sees: a       *)
(* struct whose own fields are unexported.  Keys are the strings the code  *)
(* builds.                                                                 *)
(***************************************************************************)
EXTENDS Naturals, Sequences, SequencesExt

CONSTANTS
    NoTag,         \* the field has no bson tag
    Zero,          \* the zero value of a leaf
    NestedInline,  \* the shapes include an inline struct inside a named one
    EmptyTagNames  \* the shapes include tags like `bson:",omitempty"`

VARIABLE ent   \* the entity passed to Patch

EmptyPayload == [k \in {} |-> Zero]

\* reflect's Value.IsZero: a leaf equal to its zero value, a struct all of
\* whose fields (exported or not) are zero.
RECURSIVE IsZero(_)
IsZero(f) == IF f.kind = "leaf" THEN f.val = Zero
             ELSE \A j \in DOMAIN f.val : IsZero(f.val[j])

\* strings.ToLower of the Go field names used below.
Lower == ("A" :> "a") @@ ("B" :> "b") @@ ("C" :> "c") @@ ("D" :> "d")
         @@ ("E" :> "e") @@ ("wall" :> "wall")

\* Defect: the separator written even under an empty parent.
genDbKeyAlwaysDot(parent, fieldKey) == parent \o "." \o fieldKey

genDbKey(parent, fieldKey) ==
    IF parent = "" THEN fieldKey ELSE parent \o "." \o fieldKey

\* The key name of a field before the parent prefix: the bson tag's name
\* part when there is a tag, else the lower-cased Go name.
TagName(f) == IF f.tag = NoTag THEN Lower[f.go] ELSE f.tag

(***************************************************************************)
(* BuildPatchPayloadWithParent(v, parent): for each field in order, skip   *)
(* the unexported, the zero and the "-" ones; prefix the name with parent *)
(* unless parent is the string "inline"; recurse into a struct with that   *)
(* name as parent, else set payload[name].  A later field overwrites an    *)
(* earlier key.                                                            *)
(***************************************************************************)
RECURSIVE BuildPatchPayloadWithParent(_, _)
FieldPayload(f, parent) ==
    LET name == IF parent # "inline" THEN genDbKey(parent, TagName(f))
                                     ELSE TagName(f)
    IN  CASE ~f.exported \/ IsZero(f) \/ TagName(f) = "-" -> EmptyPayload
          [] f.kind # "leaf" -> BuildPatchPayloadWithParent(f.val, name)
          [] OTHER           -> [k \in {name} |-> f.val]

BuildPatchPayloadWithParent(v, parent) ==
    FoldLeft(LAMBDA p, f : FieldPayload(f, parent) @@ p, EmptyPayload, v)

\* Defect: the bson:"-" exclusion left out.
BuildPatchPayloadKeepDash(ptr) ==
    LET RECURSIVE Walk(_, _)
        Field(f, parent) ==
          LET name == IF parent # "inline" THEN genDbKey(parent, TagName(f))
                                           ELSE TagName(f)
          IN  CASE ~f.exported \/ IsZero(f) -> EmptyPayload
                [] f.kind # "leaf" -> Walk(f.val, name)
                [] OTHER           -> [k \in {name} |-> f.val]
        Walk(v, parent) == FoldLeft(LAMBDA p, f : Field(f, parent) @@ p,
                                    EmptyPayload, v)
    IN  Walk(ptr, "")

BuildPatchPayload(ptr) == BuildPatchPayloadWithParent(ptr, "")

-----------------------------------------------------------------------------
(***************************************************************************)
(* The flattening the spec describes (buildPatchPayload): dot-qualified    *)
(* path -> value of every exported, non-zero, not excluded field; a field  *)
(* marked inline puts its sub-fields at its parent's prefix, any other    *)
(* nested struct recurses with its name appended; a time.Time is a value, *)
(* as the driver stores it.  A field's name is its tag's name, or the      *)
(* driver's default, the lower-cased Go name, when the tag gives none.     *)
(***************************************************************************)
RefName(f) == IF f.tag = NoTag \/ f.tag = "" THEN Lower[f.go] ELSE f.tag

RECURSIVE RefPayload(_, _)
RefField(f, prefix) ==
    LET path == IF prefix = "" THEN RefName(f) ELSE prefix \o "." \o RefName(f)
    IN  CASE ~f.exported \/ IsZero(f) \/ RefName(f) = "-" -> EmptyPayload
          [] f.kind = "struct" /\ f.tag = "inline" -> RefPayload(f.val, prefix)
          [] f.kind = "struct" -> RefPayload(f.val, path)
          [] f.kind = "time"   -> [k \in {path} |-> f.go]
          [] OTHER             -> [k \in {path} |-> f.val]

RefPayload(v, prefix) ==
    FoldLeft(LAMBDA p, f : RefField(f, prefix) @@ p, EmptyPayload, v)

-----------------------------------------------------------------------------
(***************************************************************************)
(* The bounded family of struct values: a leaf A and a struct B, in either *)
(* order; B holds a leaf C and possibly a time.Time D (and, with          *)
(* NestedInline, an inline struct E holding C).  Tags: none, a name, "-", *)
(* "inline" on structs, and with EmptyTagNames a tag without a name.  A    *)
(* name tag of A collides with C's default key, so overwrites happen.      *)
(***************************************************************************)
NameTag == [n \in {"A", "B", "C", "D", "E"} |->
              IF n = "A" THEN "c" ELSE Lower[n] \o "_t"]
LeafTags(n) == {NoTag, NameTag[n], "-"} \cup (IF EmptyTagNames THEN {""} ELSE {})

Leaves(n) == [go : {n}, tag : LeafTags(n), exported : BOOLEAN, kind : {"leaf"},
              val : {Zero, n}]
Wall(v) == [go |-> "wall", tag |-> NoTag, exported |-> FALSE, kind |-> "leaf",
            val |-> v]
Times(n) == [go : {n}, tag : {NoTag, NameTag[n]}, exported : {TRUE},
             kind : {"time"}, val : {<<Wall(Zero)>>, <<Wall("wall")>>}]
Inlined == [go : {"E"}, tag : {"inline"}, exported : {TRUE}, kind : {"struct"},
            val : {<<c>> : c \in Leaves("C")}]

Inner == {<<c>> : c \in Leaves("C")}
         \cup {<<c, d>> : c \in Leaves("C"), d \in Times("D")}
         \cup (IF NestedInline THEN {<<e>> : e \in Inlined} ELSE {})
Structs == [go : {"B"}, tag : {NoTag, NameTag["B"], "inline"},
            exported : {TRUE}, kind : {"struct"}, val : Inner]

\* A leaf A and a struct B in either order.  (Stated as a disjunction, not
\* as a set: TLC cannot order a set of these values, whose leaf and struct
\* values are a string and a tuple.)
Init == \E a \in Leaves("A"), b \in Structs : ent = <<a, b>> \/ ent = <<b, a>>
Next == UNCHANGED ent
Spec == Init /\ [][Next]_ent

-----------------------------------------------------------------------------
(***************************************************************************)
(* Sound: every key BuildPatchPayload sets is a path the spec's flattening *)
(* gives for the entity, with the same value, so Patch writes only fields *)
(* the caller set, at their stored paths.                                  *)
(***************************************************************************)
PayloadSound ==
    LET p == BuildPatchPayload(ent)
        r == RefPayload(ent, "")
    IN  \A k \in DOMAIN p : k \in DOMAIN r /\ p[k] = r[k]

(***************************************************************************)
(* Complete: every non-zero field the spec's flattening gives is in the    *)
(* payload, so Patch writes everything the caller set (spec: keys present *)
(* are written).                                                           *)
(***************************************************************************)
PayloadComplete ==
    DOMAIN RefPayload(ent, "") \subseteq DOMAIN BuildPatchPayload(ent)
=============================================================================
