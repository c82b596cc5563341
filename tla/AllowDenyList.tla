---------------------------- MODULE AllowDenyList ----------------------------
(* pkg/allowdenylist.  An entry of the list is a regular expression: whether it *)
(* compiles, and the set of family names it matches anywhere in the name.  An  *)
(* operation that can fail returns a set: {} for an error.                     *)
EXTENDS FiniteSets

New(allow, deny) ==
    IF allow # {} /\ deny # {} THEN {}
    ELSE {[list |-> IF allow # {} THEN allow ELSE deny, isAllowList |-> allow # {}, rList |-> {}]}

\* Mutant: an entry that does not compile is skipped.
ParseSkippingErrors(l) == {[l EXCEPT !.rList = {r \in l.list : r.compiles}]}

Parse(l) == IF \E r \in l.list : ~r.compiles THEN {} ELSE {[l EXCEPT !.rList = l.list]}

\* Include and Exclude change the list; what is compiled stays until Parse.
Include(l, items) == [l EXCEPT !.list = IF l.isAllowList THEN @ \cup items ELSE @ \ items]

Exclude(l, items) == [l EXCEPT !.list = IF l.isAllowList THEN @ \ items ELSE @ \cup items]

IsIncluded(l, name) ==
    LET matched == \E r \in l.rList : name \in r.matches
    IN  IF l.isAllowList THEN matched ELSE ~matched
=============================================================================
