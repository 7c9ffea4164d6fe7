------------------------------ MODULE LinkedList ------------------------------
(***************************************************************************)
(* The operations of terra/linkedlist.t on a list object: links kept in an *)
(* array that only grows, linked by their indices, with a stack of the     *)
(* indices of removed links.  An index of -1 is no link.  The links' items *)
(* are left to the modules that use a list.                                *)
(* Definitions marked "variant" are mistakes the code could have made; no  *)
(* definition uses them.                                                   *)
(***************************************************************************)
EXTENDS Integers, Sequences

NoLink == -1

empty == [next |-> << >>, prev |-> << >>, free |-> << >>,
          first |-> NoLink, last |-> NoLink, count |-> 0]

Slots(L) == DOMAIN L.next
Freed(L) == {L.free[j] : j \in DOMAIN L.free}
Links(L) == Slots(L) \ Freed(L)

\* link(i): the asserts that i is in range and is not deleted
IsLinkInRange(L, i) == i \in Slots(L)                           \* variant
IsLink(L, i) == i \in Slots(L) /\ (L.next[i] # NoLink \/ L.prev[i] # NoLink \/ i = L.first)

\* anchorlink(i): the asserts on the link to insert at
IsAnchor(L, i) == IF i = NoLink THEN L.last = NoLink ELSE IsLink(L, i)

\* _newlink(): the index of the link it returns, and the list it leaves
NewIndex(L) == IF L.free # << >> THEN L.free[Len(L.free)] ELSE L.count

Grown(f, i) == [j \in DOMAIN f \cup {i} |-> IF j = i THEN NoLink ELSE f[j]]

newlink(L) == [L EXCEPT !.count = @ + 1,
                        !.free = SubSeq(@, 1, Len(@) - 1),
                        !.next = Grown(@, NewIndex(L)),
                        !.prev = Grown(@, NewIndex(L))]

freelink(L, i) == [L EXCEPT !.count = @ - 1, !.free = Append(@, i)]

\* _link_between(): i goes between p and n
link_between_forward(L, p, n, i) ==                             \* variant
    [L EXCEPT !.next = [j \in Slots(L) |-> IF j = i THEN n ELSE IF j = p THEN i ELSE L.next[j]],
              !.prev[i] = p,
              !.first = IF p = NoLink THEN i ELSE @,
              !.last = IF n = NoLink THEN i ELSE @]
link_between(L, p, n, i) ==
    [L EXCEPT !.next = [j \in Slots(L) |-> IF j = i THEN n ELSE IF j = p THEN i ELSE L.next[j]],
              !.prev = [j \in Slots(L) |-> IF j = i THEN p ELSE IF j = n THEN i ELSE L.prev[j]],
              !.first = IF p = NoLink THEN i ELSE @,
              !.last = IF n = NoLink THEN i ELSE @]

link_after(L, p, i)  == link_between(L, p, IF p = NoLink THEN NoLink ELSE L.next[p], i)
link_before(L, n, i) == link_between(L, IF n = NoLink THEN NoLink ELSE L.prev[n], n, i)

unlink_dangling(L, i) ==                                        \* variant
    [L EXCEPT !.next = [j \in Slots(L) |-> IF j = L.prev[i] THEN L.next[i] ELSE L.next[j]],
              !.prev = [j \in Slots(L) |-> IF j = L.next[i] THEN L.prev[i] ELSE L.prev[j]],
              !.first = IF L.prev[i] = NoLink THEN L.next[i] ELSE @,
              !.last = IF L.next[i] = NoLink THEN L.prev[i] ELSE @]
unlink(L, i) ==
    [L EXCEPT !.next = [j \in Slots(L) |-> IF j = i THEN NoLink
                                           ELSE IF j = L.prev[i] THEN L.next[i] ELSE L.next[j]],
              !.prev = [j \in Slots(L) |-> IF j = i THEN NoLink
                                           ELSE IF j = L.next[i] THEN L.prev[i] ELSE L.prev[j]],
              !.first = IF L.prev[i] = NoLink THEN L.next[i] ELSE @,
              !.last = IF L.next[i] = NoLink THEN L.prev[i] ELSE @]

\* the methods; the new link of an insertion is NewIndex(L)
insert_after(L, p)   == link_after(newlink(L), p, NewIndex(L))
insert_before(L, n)  == link_before(newlink(L), n, NewIndex(L))
remove(L, i)         == freelink(unlink(L, i), i)
move_before(L, n, i) == IF i = n THEN L ELSE link_before(unlink(L, i), n, i)
move_after(L, p, i)  == IF i = p THEN L ELSE link_after(unlink(L, i), p, i)

\* the links in the order an iteration from first along next visits them, and
\* in the order of backwards()
Along(f, i) == IF i = NoLink THEN NoLink ELSE f[i]
Forward(L) ==
    LET at[n \in Nat] == IF n = 0 THEN L.first ELSE Along(L.next, at[n - 1])
    IN  [n \in 1..L.count |-> at[n - 1]]
Backward(L) ==
    LET at[n \in Nat] == IF n = 0 THEN L.last ELSE Along(L.prev, at[n - 1])
    IN  [n \in 1..L.count |-> at[n - 1]]
-------------------------------------------------------------------------------
\* The shape of a list object: a record whose indices are in range.
Typed(L) ==
    /\ DOMAIN L = {"next", "prev", "free", "first", "last", "count"}
    /\ L.count \in Nat
    /\ L.free \in Seq(Nat)
    /\ Slots(L) = 0..(L.count + Len(L.free) - 1)
    /\ L.next \in [Slots(L) -> Slots(L) \cup {NoLink}]
    /\ L.prev \in [Slots(L) -> Slots(L) \cup {NoLink}]
    /\ L.first \in Slots(L) \cup {NoLink}
    /\ L.last \in Slots(L) \cup {NoLink}

\* The stack of free indices holds slots, each once.
FreeOnce(L) ==
    /\ \A j \in DOMAIN L.free : L.free[j] \in Slots(L)
    /\ \A j, k \in DOMAIN L.free : L.free[j] = L.free[k] => j = k

\* The slots of S are chained: next and prev undo each other, the ends are
\* where first and last say, and the other slots point nowhere.
Chained(L, S) ==
    /\ \A i \in Slots(L) : /\ L.next[i] # NoLink => L.prev[L.next[i]] = i
                           /\ L.prev[i] # NoLink => L.next[L.prev[i]] = i
    /\ \A i \in S : /\ L.next[i] = NoLink <=> i = L.last
                    /\ L.prev[i] = NoLink <=> i = L.first
    /\ \A i \in Slots(L) \ S : L.next[i] = NoLink /\ L.prev[i] = NoLink
    /\ L.first # NoLink => L.first \in S
    /\ L.last # NoLink => L.last \in S
    /\ L.first = NoLink <=> L.last = NoLink

ListInv(L) == Typed(L) /\ FreeOnce(L) /\ Chained(L, Links(L))
===============================================================================
