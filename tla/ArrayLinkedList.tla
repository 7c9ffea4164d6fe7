---------------------------- MODULE ArrayLinkedList ----------------------------
(***************************************************************************)
(* A list object of terra/linkedlist.t in the hands of a caller who keeps  *)
(* the indices of links: insertions, removals and moves anywhere, clear(), *)
(* and the two iterations, whose body may remove the link it is at.        *)
(* MaxLinks bounds the links that are in the list at once.                 *)
(***************************************************************************)
EXTENDS LinkedList, FiniteSets

CONSTANT MaxLinks

ASSUME MaxLinksAssumption == MaxLinks \in Nat \ {0}

VARIABLES
    list,   \* the list object
    iter    \* the iteration under way, if any

vars == <<list, iter>>

\* at is the link the body is called with and saved what the loop goes to
\* after the body; todo (of the model) is what was promised after at.
idle == [on |-> FALSE, back |-> FALSE, at |-> NoLink, saved |-> NoLink, todo |-> << >>]

Order == Forward(list)
-------------------------------------------------------------------------------
Init == list = empty /\ iter = idle

InsertAfter(p) ==
    /\ list.count < MaxLinks
    /\ IsAnchor(list, p)
    /\ list' = insert_after(list, p)
    /\ UNCHANGED iter

InsertBefore(n) ==
    /\ list.count < MaxLinks
    /\ IsAnchor(list, n)
    /\ list' = insert_before(list, n)
    /\ UNCHANGED iter

Remove(i) ==
    /\ IsLink(list, i)
    /\ list' = remove(list, i)
    /\ UNCHANGED iter

MoveAfter(p, i) ==
    /\ i # p => IsLink(list, i) /\ IsLink(list, p)
    /\ list' = move_after(list, p, i)
    /\ UNCHANGED iter

MoveBefore(n, i) ==
    /\ i # n => IsLink(list, i) /\ IsLink(list, n)
    /\ list' = move_before(list, n, i)
    /\ UNCHANGED iter

Clear == list' = empty /\ UNCHANGED iter

\* the loops over list and over list:backwards(), which read where to go from
\* at before they run the body
Toward(back) == IF back THEN list.prev ELSE list.next

GoToReread == Toward(iter.back)[iter.at]                        \* variant
GoTo == iter.saved

BeginIteration(back) ==
    LET promised == IF back THEN Backward(list) ELSE Order
        i        == IF back THEN list.last ELSE list.first
    IN  /\ ~iter.on
        /\ i # NoLink
        /\ iter' = [on |-> TRUE, back |-> back, at |-> i,
                    saved |-> Toward(back)[i], todo |-> Tail(promised)]
        /\ UNCHANGED list

ContinueIteration ==
    /\ iter.on
    /\ iter' = IF GoTo = NoLink THEN idle
               ELSE [iter EXCEPT !.at = GoTo, !.saved = Toward(iter.back)[GoTo],
                                 !.todo = Tail(@)]
    /\ UNCHANGED list

BreakIteration == iter.on /\ iter' = idle /\ UNCHANGED list

RemoveCurrent == iter.on /\ Remove(iter.at)

Mutate == \/ \E p \in Slots(list) \cup {NoLink} : InsertAfter(p) \/ InsertBefore(p)
          \/ \E i \in Slots(list) : Remove(i)
          \/ \E p, i \in Slots(list) : MoveAfter(p, i) \/ MoveBefore(p, i)
          \/ Clear

Next == \/ ~iter.on /\ Mutate
        \/ \E back \in BOOLEAN : BeginIteration(back)
        \/ ContinueIteration
        \/ BreakIteration
        \/ RemoveCurrent

Spec == Init /\ [][Next]_vars
-------------------------------------------------------------------------------
\* The list is well formed: its fields are in range, next and prev undo each
\* other, and no slot is free twice (linkedlist.t:197-246).
TypeOK == ListInv(list)

\* The assert of link(i) (linkedlist.t:117) tells removed links from links of
\* the list: it lets through every link of the list, the only one of a list
\* included, and no index that was removed or given out before.
LinkCheckExact == \A i \in Slots(list) : IsLink(list, i) <=> i \in Links(list)

\* An iteration goes through every link that was in the list when it began,
\* though the body removes links under it.
IterationVisitsAll ==
    iter.on => IF iter.todo = << >> THEN GoTo = NoLink ELSE GoTo = Head(iter.todo)

Ordered == INSTANCE OrderedList
               WITH Handles <- 0..(MaxLinks - 1), NoHandle <- NoLink, order <- Order

\* The list is a sequence of stable handles, and each method does to it what its
\* name says (linkedlist.t:213-310): the link lands on the asked side of the
\* asked link, and no other link moves.
OperationsPlace ==
    \A p \in Slots(list) \cup {NoLink} :
        /\ InsertAfter(p)  => Ordered!InsertAfter(p, NewIndex(list))
        /\ InsertBefore(p) => Ordered!InsertBefore(p, NewIndex(list))
        /\ \A i \in Slots(list) \ {p} :
              /\ MoveAfter(p, i)  => Ordered!MoveAfter(p, i)
              /\ MoveBefore(p, i) => Ordered!MoveBefore(p, i)
              /\ Remove(i)        => Ordered!Remove(i)
ImplementsOrderedList == Ordered!Spec /\ [][OperationsPlace]_vars
===============================================================================
