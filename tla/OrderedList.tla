------------------------------ MODULE OrderedList ------------------------------
(***************************************************************************)
(* What an arraylinkedlist promises: a sequence of distinct handles, each  *)
(* of which keeps naming the same item until it is removed, whatever is    *)
(* inserted, removed or moved around it.                                   *)
(***************************************************************************)
EXTENDS Integers, Sequences

CONSTANTS Handles, NoHandle

VARIABLE order

Members == {order[j] : j \in DOMAIN order}

IndexIn(s, i) == CHOOSE j \in DOMAIN s : s[j] = i
Without(s, i) == LET k == IndexIn(s, i) IN SubSeq(s, 1, k - 1) \o SubSeq(s, k + 1, Len(s))

\* s with i put right after position k
PutAfter(s, k, i) == SubSeq(s, 1, k) \o <<i>> \o SubSeq(s, k + 1, Len(s))

Init == order = << >>

\* an empty list is inserted into at no handle
InsertAfter(p, i) ==
    /\ i \notin Members
    /\ p \in Members \/ (p = NoHandle /\ order = << >>)
    /\ order' = IF order = << >> THEN <<i>> ELSE PutAfter(order, IndexIn(order, p), i)

InsertBefore(n, i) ==
    /\ i \notin Members
    /\ n \in Members \/ (n = NoHandle /\ order = << >>)
    /\ order' = IF order = << >> THEN <<i>> ELSE PutAfter(order, IndexIn(order, n) - 1, i)

Remove(i) ==
    /\ i \in Members
    /\ order' = Without(order, i)

\* next to itself, a handle stays where it is
MoveAfter(p, i) ==
    /\ {p, i} \subseteq Members /\ p # i
    /\ LET rest == Without(order, i) IN order' = PutAfter(rest, IndexIn(rest, p), i)

MoveBefore(n, i) ==
    /\ {n, i} \subseteq Members /\ n # i
    /\ LET rest == Without(order, i) IN order' = PutAfter(rest, IndexIn(rest, n) - 1, i)

Clear == order' = << >>

Next == \/ Clear
        \/ \E i \in Handles : Remove(i)
        \/ \E p \in Handles \cup {NoHandle}, i \in Handles :
               InsertAfter(p, i) \/ InsertBefore(p, i) \/ MoveAfter(p, i) \/ MoveBefore(p, i)

Spec == Init /\ [][Next]_order
===============================================================================
