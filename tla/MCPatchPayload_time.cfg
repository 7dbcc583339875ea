\* The struct shapes of this repository's entities, which carry time.Time
\* audit fields: is every non-zero field in the payload?
CONSTANTS
    NoTag = NoTag
    Zero = Zero
    NestedInline = FALSE
    EmptyTagNames = FALSE
SPECIFICATION Spec
INVARIANT PayloadComplete
