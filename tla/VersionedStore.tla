--------------------------- MODULE VersionedStore ---------------------------
(***************************************************************************)
(* What the domain object repository promises its callers: a map from each *)
(* object to one current revision.  A commit moves every object of a batch *)
(* one revision on, all together or not at all; a retirement ends an       *)
(* object for good; nothing else, a crash included, changes the map.       *)
(***************************************************************************)
EXTENDS Naturals

CONSTANTS
    Objects,    \* identities
    Values,     \* what a caller may write
    Root        \* the project every other object belongs to

VARIABLE current

\* An object that was never registered.
Absent == [revision |-> 0, value |-> {}, retired |-> FALSE]

Active(o) == current[o].revision > 0 /\ ~current[o].retired

Init == current = [o \in Objects |-> Absent]

Commit(batch, v) ==
    /\ \A o \in batch : ~current[o].retired
    /\ \A o \in batch : Active(Root) \/ Root \in batch
    /\ current' = [o \in Objects |->
                      IF o \in batch
                      THEN [revision |-> current[o].revision + 1,
                            value |-> v, retired |-> FALSE]
                      ELSE current[o]]

Retire(o) ==
    /\ Active(o)
    /\ current' = [current EXCEPT ![o].revision = @ + 1, ![o].retired = TRUE]

Next ==
    \/ \E batch \in (SUBSET Objects) \ {{}}, v \in Values : Commit(batch, v)
    \/ \E o \in Objects : Retire(o)

Spec == Init /\ [][Next]_current
=============================================================================
