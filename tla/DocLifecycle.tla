---------------------------- MODULE DocLifecycle ----------------------------
(***************************************************************************)
(* What the repository promises about the life of a stored document       *)
(* (spec 3, Entity, Audit Stamp and Tenant Scope; 4.4, Create and Delete), *)
(* with its data abstracted away: an id is absent until a Create puts a    *)
(* document there; the document's identity (creator, create stamp,         *)
(* tenant) is set then and never changes; a soft delete stamps it once,    *)
(* after which it is frozen; a physical delete makes the id absent again.  *)
(* Updates of the data are stuttering steps here.                          *)
(***************************************************************************)
CONSTANTS
    Ids,     \* document ids
    Absent   \* no document stored under an id

VARIABLE life   \* id -> Absent or [who |-> identity, deleted |-> 0 or stamp]

Live(i) == life[i] # Absent /\ life[i].deleted = 0

\* A document appears under an absent id, not deleted.
Create(i) ==
    /\ life[i] = Absent
    /\ life'[i] # Absent
    /\ life'[i].deleted = 0

\* A live document gets its delete stamp; its identity stays.
SoftDelete(i) ==
    /\ Live(i)
    /\ life'[i] # Absent
    /\ life'[i].who = life[i].who
    /\ life'[i].deleted # 0

\* A document, live or soft-deleted, is removed.
Purge(i) ==
    /\ life[i] # Absent
    /\ life'[i] = Absent

Init == life = [i \in Ids |-> Absent]

\* One store call may change several ids at once (BatchDelete).
Next ==
    /\ life' # life
    /\ \A i \in Ids : life'[i] = life[i] \/ Create(i) \/ SoftDelete(i) \/ Purge(i)

Spec == Init /\ [][Next]_life
=============================================================================
