---------------------------- MODULE AtomicStore ----------------------------
(***************************************************************************)
(* What a MetricsStore promises the reflector that fills it and the HTTP   *)
(* handler that reads it: a map from object UID to the object's rendered   *)
(* metric families, changed one object at a time or emptied in one step,   *)
(* and pages that each show, for every family, exactly the objects of one  *)
(* instant.  Replace is deliberately not an atomic operation here: the     *)
(* code empties the map in one critical section and adds each item of the  *)
(* list in a later one of its own.                                         *)
(***************************************************************************)
EXTENDS Naturals

CONSTANTS
    UIDs,           \* object identities
    Entries,        \* what the store keeps for an object: one blob per family
    NumFamilies,    \* the number of metric families (headers) of the store
    Readers         \* concurrent scrapes

VARIABLES
    contents,       \* the map: UID -> entry, partial
    pages           \* the page each reader was last served, <<>> if none

vars == <<contents, pages>>

EmptyMap == [u \in {} |-> {}]

\* A page shows, under each family's header, that family's blob of every object.
Render(m) == [i \in 1..NumFamilies |-> {m[u][i] : u \in DOMAIN m}]

Init ==
    /\ contents = EmptyMap
    /\ pages = [r \in Readers |-> <<>>]

Put(u, e) ==
    /\ contents' = [x \in DOMAIN contents \cup {u} |->
                        IF x = u THEN e ELSE contents[x]]
    /\ UNCHANGED pages

Remove(u) ==
    /\ contents' = [x \in DOMAIN contents \ {u} |-> contents[x]]
    /\ UNCHANGED pages

Clear ==
    /\ contents' = EmptyMap
    /\ UNCHANGED pages

Scrape(r) ==
    /\ pages' = [pages EXCEPT ![r] = Render(contents)]
    /\ UNCHANGED contents

\* The reader is done with its page and asks for another.
Discard(r) ==
    /\ pages' = [pages EXCEPT ![r] = <<>>]
    /\ UNCHANGED contents

Next ==
    \/ \E u \in UIDs, e \in Entries : Put(u, e)
    \/ \E u \in UIDs : Remove(u)
    \/ Clear
    \/ \E r \in Readers : Scrape(r) \/ Discard(r)

Spec == Init /\ [][Next]_vars
=============================================================================
