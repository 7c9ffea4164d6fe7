------------------------------ MODULE CachePairs -------------------------------
(***************************************************************************)
(* The operations of terra/lrucache.t on a cache object: a linked list of  *)
(* pairs, most recent first, a set of the list's indices looked up by key, *)
(* and the counts.  item holds what a link's item holds: the pair's key,   *)
(* its refcount and its bytes, which is what pair_memsize() gives now.     *)
(* Definitions marked "variant" are mistakes the code could have made; no  *)
(* definition uses them.                                                   *)
(***************************************************************************)
EXTENDS LinkedList, FiniteSets

init == [pairs |-> empty, item |-> << >>, indices |-> {}, size |-> 0, count |-> 0,
         first_active_index |-> NoLink]

\* the set's index(k), which compares k with the keys the indices stand for
IndexOf(C, k) == IF \E i \in C.indices : C.item[i].key = k
                 THEN CHOOSE i \in C.indices : C.item[i].key = k
                 ELSE NoLink

Cached(C) == {C.item[i].key : i \in C.indices}
Referenced(C, i) == C.item[i].refcount > 0
Activated(C, i) == IF C.first_active_index = NoLink THEN i ELSE C.first_active_index

\* get(k), k being found at i
get_in_place(C, i) ==                                           \* variant
    [C EXCEPT !.item[i].refcount = @ + 1, !.first_active_index = Activated(C, i)]
get(C, i) == [C EXCEPT !.pairs = move_before(@, @.first, i),
                       !.item[i].refcount = @ + 1,
                       !.first_active_index = Activated(C, i)]

\* an iteration of the loop of shrink()
Overfull(C, max_size, max_count) == C.size > max_size \/ C.count > max_count
MayEvictAny(C) == C.pairs.last # NoLink                         \* variant
MayEvict(C) == C.pairs.last # NoLink /\ ~Referenced(C, C.pairs.last)

evict(C) ==
    LET i == C.pairs.last
    IN  [C EXCEPT !.indices = @ \ {i},
                  !.pairs = remove(@, i),
                  !.item = [j \in DOMAIN @ \ {i} |-> @[j]],
                  !.size = @ - C.item[i].bytes,
                  !.count = @ - 1]

\* put() once it has shrunk the cache; the new pair is at NewIndex(C.pairs)
insert(C, k, bytes) ==
    LET i == NewIndex(C.pairs)
    IN  [C EXCEPT !.pairs = insert_before(@, @.first),
                  !.item = [j \in DOMAIN @ \cup {i} |->
                              IF j = i THEN [key |-> k, refcount |-> 1, bytes |-> bytes] ELSE @[j]],
                  !.indices = @ \cup {i},
                  !.size = @ + bytes,
                  !.count = @ + 1,
                  !.first_active_index = Activated(C, i)]

\* forget(i) takes a reference, and the last one moves the pair behind the
\* first active one
forget_kept(C, i) ==                                            \* variant
    LET D == [C EXCEPT !.item[i].refcount = @ - 1]
    IN  IF Referenced(D, i) \/ D.first_active_index = NoLink THEN D
        ELSE [D EXCEPT !.pairs = move_after(@, D.first_active_index, i)]
forget(C, i) ==
    LET D == [C EXCEPT !.item[i].refcount = @ - 1]
    IN  IF Referenced(D, i) \/ D.first_active_index = NoLink THEN D
        ELSE IF D.first_active_index = i THEN [D EXCEPT !.first_active_index = NoLink]
        ELSE [D EXCEPT !.pairs = move_after(@, D.first_active_index, i)]

\* the cached keys, most recent first
KeysInOrder(C) == [j \in 1..C.pairs.count |-> C.item[Forward(C.pairs)[j]].key]
-------------------------------------------------------------------------------
\* The list, the set, the items and count are of one cache over the keys in K.
Coherent(C, K) ==
    /\ DOMAIN C = {"pairs", "item", "indices", "size", "count", "first_active_index"}
    /\ ListInv(C.pairs)
    /\ C.indices = Links(C.pairs)
    /\ C.item \in [C.indices -> [key : K, refcount : Nat, bytes : Nat]]
    /\ \A i, j \in C.indices : C.item[i].key = C.item[j].key => i = j
    /\ C.count = C.pairs.count
    /\ C.size \in Int
===============================================================================
