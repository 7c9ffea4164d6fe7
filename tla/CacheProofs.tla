------------------------------ MODULE CacheProofs ------------------------------
(***************************************************************************)
(* Proofs about the cache of terra/lrucache.t, for any keys, sizes, limits *)
(* and references: what its operations do to a cache object, a cache and   *)
(* its callers (LRUCache), the LRU cache that it is to callers who hold    *)
(* one pair at a time (RecencyOrder), and the two caches of fonts with the *)
(* spans that point into them (FontCache).                                 *)
(***************************************************************************)
EXTENDS LRUCache, FontCache, LinkedListProofs, FiniteSetTheorems, TLAPS
-------------------------------------------------------------------------------
\* Moving a link to the front keeps a well-formed list; the only link of a
\* list whose first is lost would be moved to no link.
LEMMA MoveToFrontInv ==
  ASSUME NEW L, ListInv(L), NEW i \in Links(L)
  PROVE  /\ ListInv(move_before(L, L.first, i))
         /\ Links(move_before(L, L.first, i)) = Links(L)
         /\ move_before(L, L.first, i).count = L.count
<1>1. CASE L.first # NoLink
  <2>1. L.first \in Links(L)
    BY <1>1 DEF ListInv, Chained
  <2> QED
    BY <2>1, MoveBeforeInv
<1>2. CASE L.first = NoLink
  <2> DEFINE U == unlink(L, i)
             S == Links(L) \ {i}
             R == link_between(U, NoLink, NoLink, i)
  <2>1. Links(L) \in SUBSET Slots(L) /\ i \in Slots(L) /\ i # NoLink
    BY DEF Links, ListInv, Typed, NoLink
  <2>2. /\ Typed(U) /\ Slots(U) = Slots(L) /\ U.free = L.free /\ U.count = L.count
        /\ Chained(U, S)
    BY <2>1, UnlinkChained DEF ListInv
  <2>3. move_before(L, L.first, i) = R
    BY <1>2, <2>1 DEF move_before, link_before
  <2>4. L.prev[i] # NoLink /\ L.next[i] # NoLink /\ L.last = NoLink
    BY <1>2, <2>1 DEF ListInv, Chained
  <2>5. U.first = NoLink /\ U.last = NoLink
    BY <1>2, <2>1, <2>4, UnlinkFields DEF ListInv
  <2>6. Neighbours(U, NoLink, NoLink) /\ NoLink \in S \cup {NoLink}
    BY <2>5 DEF Neighbours
  <2>7. S \in SUBSET Slots(U) /\ i \in Slots(U) \ S /\ S \cup {i} = Links(L)
    BY <2>1, <2>2
  <2> HIDE DEF U, S, R
  <2>8. ASSUME NEW r, r = link_between(U, NoLink, NoLink, i)
        PROVE  /\ Typed(r) /\ Slots(r) = Slots(U) /\ r.free = U.free /\ r.count = U.count
               /\ Chained(r, S \cup {i})
    BY <2>2, <2>6, <2>7, <2>8, LinkChained
  <2>9. /\ Typed(R) /\ Slots(R) = Slots(U) /\ R.free = U.free /\ R.count = U.count
        /\ Chained(R, S \cup {i})
    BY <2>8 DEF R
  <2>10. Links(R) = Links(L) /\ FreeOnce(R)
    BY <2>2, <2>9 DEF ListInv, Links, Freed, FreeOnce
  <2> QED
    BY <2>2, <2>3, <2>7, <2>9, <2>10 DEF ListInv
<1> QED
  BY <1>1, <1>2

\* get(i) takes a reference to the pair at i and leaves the other pairs alone.
LEMMA GetCoherent ==
  ASSUME NEW C, NEW K, Coherent(C, K), NEW i \in C.indices
  PROVE  /\ Coherent(get(C, i), K)
         /\ get(C, i).indices = C.indices
         /\ get(C, i).item = [C.item EXCEPT ![i].refcount = @ + 1]
         /\ get(C, i).first_active_index = Activated(C, i)
<1> DEFINE D == get(C, i)
<1>1. /\ DOMAIN D = DOMAIN C
      /\ D.pairs = move_before(C.pairs, C.pairs.first, i)
      /\ D.item = [C.item EXCEPT ![i].refcount = @ + 1]
      /\ D.indices = C.indices /\ D.size = C.size /\ D.count = C.count
      /\ D.first_active_index = Activated(C, i)
  BY DEF Coherent, get
<1>2. ListInv(D.pairs) /\ Links(D.pairs) = Links(C.pairs) /\ D.pairs.count = C.pairs.count
  BY <1>1, MoveToFrontInv DEF Coherent
<1> HIDE DEF D
<1>3. /\ D.item \in [D.indices -> [key : K, refcount : Nat, bytes : Nat]]
      /\ \A j \in D.indices : D.item[j].key = C.item[j].key
  BY <1>1 DEF Coherent
<1>4. Coherent(D, K)
  BY <1>1, <1>2, <1>3 DEF Coherent
<1> QED
  BY <1>1, <1>4 DEF D

\* evict() takes out the last pair, which nobody references.
LEMMA EvictCoherent ==
  ASSUME NEW C, NEW K, Coherent(C, K), MayEvict(C)
  PROVE  /\ C.pairs.last \in C.indices /\ C.item[C.pairs.last].refcount = 0
         /\ Coherent(evict(C), K)
         /\ evict(C).indices = C.indices \ {C.pairs.last}
         /\ \A j \in evict(C).indices : evict(C).item[j] = C.item[j]
         /\ evict(C).first_active_index = C.first_active_index
<1> DEFINE D == evict(C)
           i == C.pairs.last
<1>1. i \in C.indices /\ C.item[i].refcount = 0
  BY DEF MayEvict, Referenced, Coherent, ListInv, Chained
<1>2. /\ DOMAIN D = DOMAIN C
      /\ D.pairs = remove(C.pairs, i)
      /\ D.item = [j \in DOMAIN C.item \ {i} |-> C.item[j]]
      /\ D.indices = C.indices \ {i} /\ D.size = C.size - C.item[i].bytes
      /\ D.count = C.count - 1 /\ D.first_active_index = C.first_active_index
  BY DEF Coherent, evict
<1>3. ListInv(D.pairs) /\ Links(D.pairs) = Links(C.pairs) \ {i} /\ D.pairs.count = C.pairs.count - 1
  BY <1>1, <1>2, RemoveInv DEF Coherent
<1> HIDE DEF D, i
<1>4. /\ D.item \in [D.indices -> [key : K, refcount : Nat, bytes : Nat]]
      /\ \A j \in D.indices : D.item[j] = C.item[j]
      /\ D.indices \subseteq C.indices
  BY <1>2 DEF Coherent
<1>5. D.size \in Int
  BY <1>1, <1>2 DEF Coherent
<1>6. Coherent(D, K)
  BY <1>2, <1>3, <1>4, <1>5 DEF Coherent
<1> QED
  BY <1>1, <1>2, <1>4, <1>6 DEF D, i

\* insert() gives a new pair an index that no cached pair has.
LEMMA InsertCoherent ==
  ASSUME NEW C, NEW K, Coherent(C, K), NEW k \in K \ Cached(C), NEW b \in Nat
  PROVE  /\ Coherent(insert(C, k, b), K)
         /\ NewIndex(C.pairs) \notin C.indices
         /\ insert(C, k, b).indices = C.indices \cup {NewIndex(C.pairs)}
         /\ insert(C, k, b).item[NewIndex(C.pairs)] = [key |-> k, refcount |-> 1, bytes |-> b]
         /\ \A j \in C.indices : insert(C, k, b).item[j] = C.item[j]
         /\ insert(C, k, b).first_active_index = Activated(C, NewIndex(C.pairs))
<1> DEFINE i == NewIndex(C.pairs)
           e == [key |-> k, refcount |-> 1, bytes |-> b]
           D == insert(C, k, b)
<1>1. /\ DOMAIN D = DOMAIN C
      /\ D.pairs = insert_before(C.pairs, C.pairs.first)
      /\ D.item = [j \in DOMAIN C.item \cup {i} |-> IF j = i THEN e ELSE C.item[j]]
      /\ D.indices = C.indices \cup {i} /\ D.size = C.size + b
      /\ D.count = C.count + 1 /\ D.first_active_index = Activated(C, i)
  BY DEF Coherent, insert
<1>2. C.pairs.first \in Links(C.pairs) \cup {NoLink} /\ IsAnchor(C.pairs, C.pairs.first)
  <2>1. C.pairs.first \in Slots(C.pairs) => (IsLink(C.pairs, C.pairs.first) <=> C.pairs.first \in Links(C.pairs))
    BY CheckExact DEF Coherent
  <2> QED
    BY <2>1 DEF Coherent, ListInv, Chained, Typed, IsAnchor
<1>3. /\ ListInv(D.pairs) /\ Links(D.pairs) = Links(C.pairs) \cup {i} /\ i \notin Links(C.pairs)
      /\ D.pairs.count = C.pairs.count + 1
  BY <1>1, <1>2, InsertBeforeInv DEF Coherent
<1> HIDE DEF i, D
<1>4. /\ D.item[i] = e /\ \A j \in C.indices : D.item[j] = C.item[j]
      /\ D.item \in [D.indices -> [key : K, refcount : Nat, bytes : Nat]]
  BY <1>1, <1>3 DEF Coherent
<1>5. \A j, m \in D.indices : D.item[j].key = D.item[m].key => j = m
  BY <1>1, <1>4 DEF Coherent, Cached
<1>6. Coherent(D, K)
  <2>1. C.indices = Links(C.pairs) /\ C.count = C.pairs.count /\ C.size \in Int
    BY DEF Coherent
  <2>2. D.indices = Links(D.pairs) /\ D.count = D.pairs.count
    BY <1>1, <1>3, <2>1
  <2>3. D.size \in Int
    BY <1>1, <2>1
  <2> QED
    BY <1>1, <1>3, <1>4, <1>5, <2>2, <2>3 DEF Coherent
<1> QED
  BY <1>1, <1>3, <1>4, <1>6 DEF i, D, Coherent

\* forget(i) takes back a reference to the pair at i and leaves the other pairs
\* alone; the first active pair is then no pair, or as it was and not i if i
\* has no reference left.
LEMMA ForgetCoherent ==
  ASSUME NEW C, NEW K, Coherent(C, K), NEW i \in C.indices, Referenced(C, i),
         C.first_active_index \in C.indices \cup {NoLink}
  PROVE  /\ Coherent(forget(C, i), K)
         /\ forget(C, i).indices = C.indices
         /\ forget(C, i).item = [C.item EXCEPT ![i].refcount = @ - 1]
         /\ \/ forget(C, i).first_active_index = NoLink
            \/ /\ forget(C, i).first_active_index = C.first_active_index
               /\ C.first_active_index = i => C.item[i].refcount - 1 > 0
<1> DEFINE D == [C EXCEPT !.item[i].refcount = @ - 1]
<1>1. /\ DOMAIN D = DOMAIN C /\ D.pairs = C.pairs
      /\ D.item = [C.item EXCEPT ![i].refcount = @ - 1]
      /\ D.indices = C.indices /\ D.size = C.size /\ D.count = C.count
      /\ D.first_active_index = C.first_active_index
  BY DEF Coherent
<1> HIDE DEF D
<1>2. /\ D.item \in [D.indices -> [key : K, refcount : Nat, bytes : Nat]]
      /\ \A j \in D.indices : D.item[j].key = C.item[j].key
      /\ D.item[i].refcount = C.item[i].refcount - 1
  BY <1>1 DEF Coherent, Referenced
<1>3. Coherent(D, K)
  BY <1>1, <1>2 DEF Coherent
<1>4. CASE Referenced(D, i) \/ D.first_active_index = NoLink
  <2>1. forget(C, i) = D
    BY <1>4 DEF forget, D
  <2> QED
    BY <1>1, <1>2, <1>3, <1>4, <2>1 DEF Referenced
<1>5. CASE ~Referenced(D, i) /\ D.first_active_index # NoLink /\ D.first_active_index = i
  <2> DEFINE F == [D EXCEPT !.first_active_index = NoLink]
  <2>1. forget(C, i) = F
    BY <1>5 DEF forget, D
  <2>2. /\ DOMAIN F = DOMAIN D /\ F.pairs = D.pairs /\ F.item = D.item
        /\ F.indices = D.indices /\ F.size = D.size /\ F.count = D.count
        /\ F.first_active_index = NoLink
    BY <1>3 DEF Coherent
  <2> HIDE DEF F
  <2> QED
    BY <1>1, <1>3, <2>1, <2>2 DEF Coherent
<1>6. CASE ~Referenced(D, i) /\ D.first_active_index # NoLink /\ D.first_active_index # i
  <2> DEFINE F == [D EXCEPT !.pairs = move_after(@, D.first_active_index, i)]
  <2>1. forget(C, i) = F
    BY <1>6 DEF forget, D
  <2>2. /\ DOMAIN F = DOMAIN D /\ F.pairs = move_after(D.pairs, D.first_active_index, i)
        /\ F.item = D.item /\ F.indices = D.indices /\ F.size = D.size /\ F.count = D.count
        /\ F.first_active_index = D.first_active_index
    BY <1>3 DEF Coherent
  <2> HIDE DEF F
  <2>3. D.first_active_index \in Links(D.pairs) /\ i \in Links(D.pairs) /\ ListInv(D.pairs)
    BY <1>1, <1>3, <1>6 DEF Coherent
  <2>4. ListInv(F.pairs) /\ Links(F.pairs) = Links(D.pairs) /\ F.pairs.count = D.pairs.count
    BY <2>2, <2>3, MoveAfterInv
  <2>5. Coherent(F, K)
    BY <1>3, <2>2, <2>4 DEF Coherent
  <2> QED
    BY <1>1, <1>6, <2>1, <2>2, <2>5
<1> QED
  BY <1>4, <1>5, <1>6
-------------------------------------------------------------------------------
\* The inductive invariant: what was given out names what it was given for, and
\* the first active pair is one of those.  Knowing only that held indices are
\* good would not do: that nobody references a pair nobody holds is what lets
\* evict() take it.
Inv == TypeOK /\ HandlesValid /\ ActiveIsHeld

LEMMA HeldIsCached ==
  ASSUME Inv, NEW k \in Keys, held[k].n > 0
  PROVE  /\ held[k].at \in cache.indices
         /\ cache.item[held[k].at].key = k
         /\ cache.item[held[k].at].refcount = held[k].n
<1>1. /\ ListInv(cache.pairs) /\ cache.indices = Links(cache.pairs)
      /\ IsLink(cache.pairs, held[k].at) /\ held[k].at \in Slots(cache.pairs)
      /\ cache.item[held[k].at].key = k
      /\ cache.item[held[k].at].refcount = held[k].n
  BY DEF Inv, TypeOK, Coherent, HandlesValid, IsLink
<1> QED
  BY <1>1, CheckExact

LEMMA CachedIsLink ==
  ASSUME NEW C, NEW K, Coherent(C, K), NEW i \in C.indices
  PROVE  IsLink(C.pairs, i) /\ i \in Int
<1>1. i \in Links(C.pairs) /\ i \in Slots(C.pairs) /\ ListInv(C.pairs) /\ i \in Int
  BY DEF Coherent, Links, ListInv, Typed
<1> QED
  BY <1>1, CheckExact

\* The same for the next state, from the facts about the operators.
LEMMA HandlesPrimed ==
  ASSUME Coherent(cache', Keys),
         \A k \in Keys :
            IF held'[k].n > 0
            THEN /\ held'[k].at \in (cache').indices
                 /\ (cache').item[held'[k].at].key = k
                 /\ (cache').item[held'[k].at].refcount = held'[k].n
            ELSE \A i \in (cache').indices : (cache').item[i].key = k => ~Referenced(cache', i)
  PROVE  HandlesValid'
  BY CachedIsLink DEF HandlesValid

LEMMA InitInv == Init => Inv
<1> SUFFICES ASSUME Init PROVE Inv
  OBVIOUS
<1>1. Links(empty) = {} /\ ListInv(empty) /\ empty.count = 0
  BY EmptyInv DEF Links, Slots, empty
<1>2. Coherent(init, Keys)
  BY <1>1 DEF Coherent, init
<1>3. TypeOK
  BY <1>2, LimitsAssumption DEF Init, TypeOK, NotHeld, NoCall, NoLink
<1>4. HandlesValid /\ ActiveIsHeld
  BY DEF Init, HandlesValid, ActiveIsHeld, NotHeld, init
<1> QED
  BY <1>3, <1>4 DEF Inv

LEMMA GetInv ==
  ASSUME Inv, NEW k \in Keys, Get(k)
  PROVE  Inv'
<1> DEFINE i == IndexOf(cache, k)
<1>1. i \in cache.indices /\ cache.item[i].key = k
  BY DEF Get, IndexOf, Inv, TypeOK, Coherent
<1>2. /\ cache' = get(cache, i) /\ held' = [held EXCEPT ![k] = [n |-> @.n + 1, at |-> i]]
      /\ UNCHANGED <<max_size, max_count, call>> /\ call.op = "none"
  BY DEF Get, NoCall
<1> HIDE DEF i
<1>3. /\ Coherent(cache, Keys) /\ held \in [Keys -> [n : Nat, at : Int]]
      /\ max_size \in Nat /\ max_count \in Nat
  BY DEF Inv, TypeOK
<1>4. /\ Coherent(cache', Keys) /\ (cache').indices = cache.indices
      /\ (cache').item = [cache.item EXCEPT ![i].refcount = @ + 1]
      /\ (cache').first_active_index = Activated(cache, i)
  BY <1>1, <1>2, <1>3, GetCoherent
<1>5. /\ \A j \in cache.indices : /\ (cache').item[j].key = cache.item[j].key
                                 /\ j # i => (cache').item[j] = cache.item[j]
      /\ (cache').item[i].refcount = cache.item[i].refcount + 1
  BY <1>1, <1>3, <1>4 DEF Coherent
<1>6. /\ held'[k].n = held[k].n + 1 /\ held'[k].at = i
      /\ \A q \in Keys \ {k} : held'[q] = held[q]
  BY <1>2, <1>3
<1>7. i \in Int
  BY <1>1, <1>3, CachedIsLink
<1>8. TypeOK'
  BY <1>2, <1>3, <1>4, <1>7 DEF TypeOK
<1>9. cache.item[i].refcount = held[k].n
  <2>1. CASE held[k].n > 0
    BY <1>1, <1>3, <2>1, HeldIsCached DEF Coherent
  <2>2. CASE ~(held[k].n > 0)
    BY <1>1, <1>3, <2>2 DEF Inv, HandlesValid, Referenced, Coherent
  <2> QED
    BY <2>1, <2>2
<1>10. HandlesValid'
  <2>1. ASSUME NEW q \in Keys, q # k, held[q].n > 0
        PROVE  /\ held[q].at \in cache.indices /\ held[q].at # i
               /\ cache.item[held[q].at].key = q
               /\ cache.item[held[q].at].refcount = held[q].n
    BY <1>1, <2>1, HeldIsCached
  <2>2. ASSUME NEW q \in Keys, q # k, ~(held[q].n > 0), NEW j \in cache.indices, cache.item[j].key = q
        PROVE  ~Referenced(cache, j) /\ j # i
    BY <1>1, <2>2 DEF Inv, HandlesValid
  <2>3. held'[k].n > 0
    BY <1>3, <1>6
  <2> QED
    BY <1>1, <1>4, <1>5, <1>6, <1>9, <2>1, <2>2, <2>3, HandlesPrimed DEF Referenced
<1>11. ActiveIsHeld'
  <2>1. held'[k].n > 0
    BY <1>3, <1>6
  <2>2. \A q \in Keys : held[q].n > 0 =>
            held'[q].n > 0 /\ (held[q].at = held'[q].at \/ q = k)
    BY <1>3, <1>6
  <2>3. held[k].n > 0 => held[k].at = i
    BY <1>1, <1>3, HeldIsCached DEF Coherent
  <2> QED
    BY <1>4, <1>6, <2>1, <2>2, <2>3 DEF Inv, ActiveIsHeld, Activated
<1> QED
  BY <1>8, <1>10, <1>11 DEF Inv

LEMMA EvictInv ==
  ASSUME Inv, Evict
  PROVE  Inv'
<1> DEFINE i == cache.pairs.last
<1>1. Coherent(cache, Keys) /\ MayEvict(cache) /\ cache' = evict(cache)
      /\ UNCHANGED <<max_size, max_count, held, call>>
  BY DEF Inv, TypeOK, Evict, MustEvict
<1>2. /\ i \in cache.indices /\ cache.item[i].refcount = 0
      /\ Coherent(cache', Keys) /\ (cache').indices = cache.indices \ {i}
      /\ \A j \in (cache').indices : (cache').item[j] = cache.item[j]
      /\ (cache').first_active_index = cache.first_active_index
  BY <1>1, EvictCoherent
<1> HIDE DEF i
<1>3. TypeOK'
  BY <1>1, <1>2 DEF Inv, TypeOK, Cached
<1>4. ASSUME NEW k \in Keys, held[k].n > 0
      PROVE  /\ held[k].at \in (cache').indices
             /\ (cache').item[held[k].at].key = k
             /\ (cache').item[held[k].at].refcount = held[k].n
  BY <1>2, <1>4, HeldIsCached
<1>5. ASSUME NEW k \in Keys, ~(held[k].n > 0), NEW j \in (cache').indices, (cache').item[j].key = k
      PROVE  ~Referenced(cache', j)
  BY <1>2, <1>5 DEF Inv, HandlesValid, Referenced
<1>6. HandlesValid'
  BY <1>1, <1>2, <1>4, <1>5, HandlesPrimed
<1>7. ActiveIsHeld'
  BY <1>1, <1>2 DEF Inv, ActiveIsHeld
<1> QED
  BY <1>3, <1>6, <1>7 DEF Inv

LEMMA EndPutInv ==
  ASSUME Inv, EndPut
  PROVE  Inv'
<1> DEFINE i == NewIndex(cache.pairs)
           k == call.key
<1>1. /\ Coherent(cache, Keys) /\ held \in [Keys -> [n : Nat, at : Int]]
      /\ max_size \in Nat /\ max_count \in Nat
      /\ k \in Keys \ Cached(cache) /\ Bytes[k] \in Nat
      /\ cache' = insert(cache, k, Bytes[k])
      /\ held' = [held EXCEPT ![k] = [n |-> 1, at |-> i]]
      /\ UNCHANGED <<max_size, max_count>> /\ call' = NoCall
  BY BytesAssumption DEF Inv, TypeOK, EndPut
<1>2. /\ Coherent(cache', Keys) /\ i \notin cache.indices
      /\ (cache').indices = cache.indices \cup {i}
      /\ (cache').item[i] = [key |-> k, refcount |-> 1, bytes |-> Bytes[k]]
      /\ \A j \in cache.indices : (cache').item[j] = cache.item[j]
      /\ (cache').first_active_index = Activated(cache, i)
  BY <1>1, InsertCoherent
<1> HIDE DEF i, k
<1>3. i \in Int
  BY <1>2, CachedIsLink
<1>4. TypeOK'
  BY <1>1, <1>2, <1>3 DEF TypeOK, NoCall
<1>5. held'[k] = [n |-> 1, at |-> i] /\ \A q \in Keys \ {k} : held'[q] = held[q]
  BY <1>1
<1>6. ASSUME NEW q \in Keys, q # k, held[q].n > 0
      PROVE  /\ held[q].at \in cache.indices
             /\ cache.item[held[q].at].key = q
             /\ cache.item[held[q].at].refcount = held[q].n
  BY <1>6, HeldIsCached
<1>7. ASSUME NEW q \in Keys, q # k, ~(held[q].n > 0), NEW j \in cache.indices, cache.item[j].key = q
      PROVE  ~Referenced(cache, j)
  BY <1>7 DEF Inv, HandlesValid
<1>8. HandlesValid'
  BY <1>1, <1>2, <1>5, <1>6, <1>7, HandlesPrimed DEF Referenced
<1>9. ~(held[k].n > 0)
  BY <1>1, HeldIsCached DEF Cached
<1>10. ActiveIsHeld'
  BY <1>1, <1>2, <1>5, <1>9 DEF Inv, ActiveIsHeld, Activated
<1> QED
  BY <1>4, <1>8, <1>10 DEF Inv

LEMMA ForgetInv ==
  ASSUME Inv, NEW k \in Keys, Forget(k)
  PROVE  Inv'
<1> DEFINE i == held[k].at
<1>1. /\ Coherent(cache, Keys) /\ held \in [Keys -> [n : Nat, at : Int]]
      /\ max_size \in Nat /\ max_count \in Nat
      /\ held[k].n > 0 /\ cache' = forget(cache, i)
      /\ held' = [held EXCEPT ![k] = IF @.n = 1 THEN NotHeld ELSE [n |-> @.n - 1, at |-> @.at]]
      /\ UNCHANGED <<max_size, max_count, call>> /\ call.op = "none"
  BY DEF Inv, TypeOK, Forget, NoCall
<1>2. i \in cache.indices /\ cache.item[i].key = k /\ cache.item[i].refcount = held[k].n
  BY <1>1, HeldIsCached
<1>3. cache.first_active_index \in cache.indices \cup {NoLink} /\ Referenced(cache, i)
  BY <1>1, <1>2, HeldIsCached DEF Inv, ActiveIsHeld, Referenced
<1>4. /\ Coherent(cache', Keys) /\ (cache').indices = cache.indices
      /\ (cache').item = [cache.item EXCEPT ![i].refcount = @ - 1]
      /\ \/ (cache').first_active_index = NoLink
         \/ /\ (cache').first_active_index = cache.first_active_index
            /\ cache.first_active_index = i => cache.item[i].refcount - 1 > 0
  BY <1>1, <1>2, <1>3, ForgetCoherent
<1>5. /\ \A j \in cache.indices : /\ (cache').item[j].key = cache.item[j].key
                                 /\ j # i => (cache').item[j] = cache.item[j]
      /\ (cache').item[i].refcount = cache.item[i].refcount - 1
  BY <1>1, <1>2, <1>4 DEF Coherent
<1>6. /\ held'[k].n = held[k].n - 1
      /\ held[k].n # 1 => held'[k].at = i
      /\ held'[k] \in [n : Nat, at : Int]
      /\ \A q \in Keys \ {k} : held'[q] = held[q]
  <2>1. \A q \in Keys \ {k} : held'[q] = held[q]
    BY <1>1
  <2>2. held'[k] = IF held[k].n = 1 THEN NotHeld ELSE [n |-> held[k].n - 1, at |-> held[k].at]
    BY <1>1
  <2>3. held[k].n - 1 \in Nat /\ held[k].at \in Int
    BY <1>1
  <2> QED
    BY <2>1, <2>2, <2>3 DEF NotHeld, NoLink
<1> HIDE DEF i
<1>7. TypeOK'
  BY <1>1, <1>4, <1>6 DEF TypeOK
<1>8. HandlesValid'
  <2>1. ASSUME NEW q \in Keys, q # k, held[q].n > 0
        PROVE  /\ held[q].at \in cache.indices /\ held[q].at # i
               /\ cache.item[held[q].at].key = q
               /\ cache.item[held[q].at].refcount = held[q].n
    BY <1>2, <2>1, HeldIsCached
  <2>2. ASSUME NEW q \in Keys, q # k, ~(held[q].n > 0), NEW j \in cache.indices, cache.item[j].key = q
        PROVE  ~Referenced(cache, j) /\ j # i
    BY <1>2, <2>2 DEF Inv, HandlesValid
  <2>3. \A j \in cache.indices : cache.item[j].key = k => j = i
    BY <1>1, <1>2 DEF Coherent
  <2>4. IF held'[k].n > 0 THEN held'[k].at = i ELSE ~Referenced(cache', i)
    BY <1>1, <1>2, <1>5, <1>6 DEF Referenced
  <2> QED
    BY <1>2, <1>4, <1>5, <1>6, <2>1, <2>2, <2>3, <2>4, HandlesPrimed DEF Referenced
<1>9. ActiveIsHeld'
  <2>1. CASE (cache').first_active_index = NoLink
    BY <2>1 DEF ActiveIsHeld
  <2>2. CASE (cache').first_active_index # NoLink
    <3>1. PICK q \in Keys : held[q].n > 0 /\ held[q].at = cache.first_active_index
      BY <1>4, <2>2 DEF Inv, ActiveIsHeld
    <3>2. CASE q = k
      <4>1. held[k].n - 1 > 0
        BY <1>2, <1>4, <2>2, <3>1, <3>2 DEF i
      <4> QED
        BY <1>1, <1>4, <1>6, <2>2, <3>1, <3>2, <4>1 DEF ActiveIsHeld, i
    <3>3. CASE q # k
      BY <1>4, <1>6, <2>2, <3>1, <3>3 DEF ActiveIsHeld
    <3> QED
      BY <3>2, <3>3
  <2> QED
    BY <2>1, <2>2
<1> QED
  BY <1>7, <1>8, <1>9 DEF Inv

LEMMA GrowInv ==
  ASSUME Inv, NEW k \in Keys, Grow(k)
  PROVE  Inv'
<1> DEFINE i == held[k].at
<1>1. /\ Coherent(cache, Keys) /\ held[k].n > 0
      /\ cache' = [cache EXCEPT !.item[i].bytes = @ + 1]
      /\ UNCHANGED <<max_size, max_count, held, call>>
  BY DEF Inv, TypeOK, Grow
<1>2. i \in cache.indices
  BY <1>1, HeldIsCached
<1>3. /\ DOMAIN cache' = DOMAIN cache /\ (cache').pairs = cache.pairs
      /\ (cache').item = [cache.item EXCEPT ![i].bytes = @ + 1]
      /\ (cache').indices = cache.indices /\ (cache').size = cache.size
      /\ (cache').count = cache.count
      /\ (cache').first_active_index = cache.first_active_index
  BY <1>1 DEF Coherent
<1> HIDE DEF i
<1>4. /\ (cache').item \in [cache.indices -> [key : Keys, refcount : Nat, bytes : Nat]]
      /\ \A j \in cache.indices : /\ (cache').item[j].key = cache.item[j].key
                                  /\ (cache').item[j].refcount = cache.item[j].refcount
  BY <1>1, <1>2, <1>3 DEF Coherent
<1>5. Coherent(cache', Keys)
  BY <1>1, <1>3, <1>4 DEF Coherent
<1>6. TypeOK'
  BY <1>1, <1>3, <1>4, <1>5 DEF Inv, TypeOK, Cached
<1>7. HandlesValid'
  BY <1>1, <1>3, <1>4, <1>5, HeldIsCached, HandlesPrimed DEF Inv, HandlesValid, Referenced
<1>8. ActiveIsHeld'
  BY <1>1, <1>3 DEF Inv, ActiveIsHeld
<1> QED
  BY <1>6, <1>7, <1>8 DEF Inv

LEMMA ClearInv ==
  ASSUME Inv, Clear
  PROVE  Inv'
<1>1. Links(empty) = {} /\ ListInv(empty) /\ empty.count = 0
  BY EmptyInv DEF Links, Slots, empty
<1>2. Coherent(init, Keys) /\ init.indices = {} /\ init.first_active_index = NoLink
  BY <1>1 DEF Coherent, init
<1>3. TypeOK'
  BY <1>2 DEF Inv, TypeOK, Clear, NotHeld, NoCall, NoLink
<1>4. HandlesValid' /\ ActiveIsHeld'
  BY <1>2 DEF Clear, HandlesValid, ActiveIsHeld, NotHeld
<1> QED
  BY <1>3, <1>4 DEF Inv

\* The calls that only begin or end, and those that change only the limits.
LEMMA LimitsInv ==
  ASSUME Inv, UNCHANGED <<cache, held>>, max_size' \in Nat, max_count' \in Nat,
         call'.op = "put" => call'.key \in Keys \ Cached(cache)
  PROVE  Inv'
  BY DEF Inv, TypeOK, HandlesValid, ActiveIsHeld

LEMMA StepKeepsInv == Inv /\ [Next]_vars => Inv'
<1> SUFFICES ASSUME Inv, [Next]_vars PROVE Inv'
  OBVIOUS
<1>1. max_size \in Nat /\ max_count \in Nat
      /\ (call.op = "put" => call.key \in Keys \ Cached(cache))
  BY DEF Inv, TypeOK
<1>2. ASSUME NEW k \in Keys, BeginPut(k) PROVE Inv'
  <2>1. k \notin Cached(cache)
    <3>1. NoLink \notin cache.indices
      BY DEF Inv, TypeOK, Coherent, ListInv, Typed, Links, NoLink
    <3> QED
      BY <1>2, <3>1 DEF BeginPut, IndexOf, Cached
  <2> QED
    BY <1>1, <1>2, <2>1, LimitsInv DEF BeginPut, PutCall
<1>3. ASSUME NEW s \in Limits, NEW n \in Counts, BeginShrink(s, n) PROVE Inv'
  BY <1>1, <1>3, LimitsInv DEF BeginShrink, ShrinkCall
<1>4. ASSUME NEW v \in Limits, SetMaxSize(v) PROVE Inv'
  BY <1>1, <1>4, LimitsInv, LimitsAssumption DEF SetMaxSize, ShrinkCall
<1>5. ASSUME NEW v \in Counts, SetMaxCount(v) PROVE Inv'
  BY <1>1, <1>5, LimitsInv, LimitsAssumption DEF SetMaxCount, ShrinkCall
<1>6. CASE EndShrink
  BY <1>1, <1>6, LimitsInv DEF EndShrink, NoCall
<1>7. CASE UNCHANGED vars
  BY <1>1, <1>7, LimitsInv DEF vars
<1> QED
  BY <1>2, <1>3, <1>4, <1>5, <1>6, <1>7, GetInv, ForgetInv, GrowInv, EvictInv, EndPutInv, ClearInv
     DEF Next

\* The invariant of the cache and its callers.
THEOREM Invariance == Spec => []Inv
  BY InitInv, StepKeepsInv, PTL DEF Spec

\* The list, the index set, the items and the count stay of one cache.
THEOREM TypeCorrect == Spec => []TypeOK
  BY Invariance, PTL DEF Inv

\* An index that get() or put() gave out stays good until it is forgotten,
\* and its pair has exactly the references that are held (lrucache.t:8-9).
THEOREM HandlesStayValid == Spec => []HandlesValid
  BY Invariance, PTL DEF Inv

\* first_active_index is never the index of a pair that nobody holds
\* (lrucache.t:216-221).
THEOREM ActiveStaysHeld == Spec => []ActiveIsHeld
  BY Invariance, PTL DEF Inv
-------------------------------------------------------------------------------
(***************************************************************************)
(* The sum of a function over a finite set takes the members one at a time *)
(* in some order; it is shown to be the same in any.                       *)
(***************************************************************************)
\* The member a sum takes first, and the sums of f over the subsets of S.
Some(s) == CHOOSE x \in s : TRUE
IsSum(h, f, S) ==
    h = [s \in SUBSET S |-> IF s = {} THEN 0 ELSE f[Some(s)] + h[s \ {Some(s)}]]

\* It is a member.
LEMMA SomeIn == \A s : s # {} => Some(s) \in s
  BY DEF Some

\* There are such sums: induction over the size of the subsets.
LEMMA SumExists ==
  ASSUME NEW f, NEW S, IsFiniteSet(S)
  PROVE  \E h : IsSum(h, f, S)
<1> DEFINE R(h, s) == IF s = {} THEN 0 ELSE f[Some(s)] + h[s \ {Some(s)}]
           Upto(h, n) == \A s \in SUBSET S : Cardinality(s) <= n => h[s] = R(h, s)
           T == {n \in Nat : \E h : Upto(h, n)}
<1>0. \A s \in SUBSET S : /\ Cardinality(s) \in Nat
                          /\ Cardinality(s) = 0 => s = {}
                          /\ s # {} => /\ s \ {Some(s)} \in SUBSET S
                                       /\ Cardinality(s \ {Some(s)}) = Cardinality(s) - 1
  <2> SUFFICES ASSUME NEW s \in SUBSET S
               PROVE  /\ Cardinality(s) \in Nat
                      /\ Cardinality(s) = 0 => s = {}
                      /\ s # {} => /\ s \ {Some(s)} \in SUBSET S
                                   /\ Cardinality(s \ {Some(s)}) = Cardinality(s) - 1
    OBVIOUS
  <2>1. IsFiniteSet(s) /\ Cardinality(s) \in Nat
    BY FS_Subset, FS_CardinalityType
  <2>2. Cardinality(s) = 0 => s = {}
    BY <2>1, FS_EmptySet
  <2>3. s # {} => Cardinality(s \ {Some(s)}) = Cardinality(s) - 1
    BY <2>1, FS_RemoveElement, SomeIn
  <2> QED
    BY <2>1, <2>2, <2>3
<1>1. 0 \in T
  <2> DEFINE h == [s \in SUBSET S |-> 0]
  <2>1. ASSUME NEW s \in SUBSET S, Cardinality(s) <= 0
        PROVE  h[s] = R(h, s)
    <3>1. Cardinality(s) = 0
      <4>1. \A m \in Nat : m <= 0 => m = 0
        OBVIOUS
      <4> QED
        BY <1>0, <2>1, <4>1, Zenon
    <3>2. s = {}
      BY <1>0, <3>1, Zenon
    <3> QED
      BY <3>2, Zenon
  <2>2. Upto(h, 0)
    BY <2>1
  <2> QED
    BY <2>2
<1>2. ASSUME NEW n \in Nat, n \in T
      PROVE  n + 1 \in T
  <2>1. PICK g : Upto(g, n)
    BY <1>2
  <2> DEFINE h == [s \in SUBSET S |-> R(g, s)]
  <2>2. ASSUME NEW s \in SUBSET S, Cardinality(s) <= n + 1
        PROVE  h[s] = R(h, s)
    <3>1. CASE s = {}
      BY <3>1
    <3>2. CASE s # {}
      <4>1. s \ {Some(s)} \in SUBSET S /\ Cardinality(s \ {Some(s)}) <= n
        BY <1>0, <2>2, <3>2
      <4>2. g[s \ {Some(s)}] = R(g, s \ {Some(s)})
        BY <2>1, <4>1
      <4>3. h[s \ {Some(s)}] = g[s \ {Some(s)}]
        BY <4>1, <4>2, Zenon
      <4>4. h[s] = R(g, s)
        BY Zenon
      <4>5. R(g, s) = R(h, s)
        BY <4>3, Zenon
      <4> QED
        BY <4>4, <4>5, Zenon
    <3> QED
      BY <3>1, <3>2
  <2> HIDE DEF h
  <2>3. Upto(h, n + 1)
    BY <2>2
  <2> QED
    BY <2>3
<1> HIDE DEF T
<1>3. Nat \subseteq T
  BY <1>1, <1>2, SetInduction
<1>4. PICK h : Upto(h, Cardinality(S))
  <2>1. Cardinality(S) \in Nat
    BY FS_CardinalityType
  <2> QED
    BY <1>3, <2>1 DEF T
<1>5. \A s \in SUBSET S : h[s] = R(h, s)
  BY <1>4, FS_Subset
<1> DEFINE g == [s \in SUBSET S |-> h[s]]
<1>6. ASSUME NEW s \in SUBSET S
      PROVE  R(h, s) = R(g, s)
  <2>1. CASE s = {}
    BY <2>1, Zenon
  <2>2. CASE s # {}
    <3>1. g[s \ {Some(s)}] = h[s \ {Some(s)}]
      BY <1>0, <2>2, Zenon
    <3> QED
      BY <3>1, Zenon
  <2> QED
    BY <2>1, <2>2
<1>7. g = [s \in SUBSET S |-> R(g, s)]
  BY <1>5, <1>6, Zenon
<1> QED
  BY <1>7, Zenon DEF IsSum

\* What a sum is, for any f on a finite S.
LEMMA SumIs ==
  ASSUME NEW f, NEW S, IsFiniteSet(S)
  PROVE  \E h : IsSum(h, f, S) /\ SumFunctionOnSet(f, S) = h[S]
<1> DEFINE it == CHOOSE h : IsSum(h, f, S)
<1>1. IsSum(it, f, S)
  BY SumExists, Zenon
<1>2. SumFunctionOnSet(f, S) = it[S]
  BY Zenon DEF SumFunctionOnSet, FoldFunctionOnSet, MapThenFoldSet, IsSum, Some
<1> QED
  BY <1>1, <1>2

\* The sum over no members.
LEMMA SumEmpty ==
  ASSUME NEW f
  PROVE  SumFunctionOnSet(f, {}) = 0
<1>1. PICK h : IsSum(h, f, {}) /\ SumFunctionOnSet(f, {}) = h[{}]
  BY SumIs, FS_EmptySet
<1>2. h[{}] = 0
  BY <1>1, Zenon DEF IsSum
<1> QED
  BY <1>1, <1>2

\* The sum over a subset by the sum over one that is smaller.
LEMMA IsSumOf ==
  ASSUME NEW h, NEW f, NEW S, IsSum(h, f, S), IsFiniteSet(S), NEW U \in SUBSET S
  PROVE  IF U = {} THEN h[U] = 0
         ELSE /\ h[U] = f[Some(U)] + h[U \ {Some(U)}]
              /\ U \ {Some(U)} \in SUBSET S
              /\ Cardinality(U) \in Nat /\ Cardinality(U \ {Some(U)}) = Cardinality(U) - 1
<1>1. h[U] = IF U = {} THEN 0 ELSE f[Some(U)] + h[U \ {Some(U)}]
  BY Zenon DEF IsSum
<1>2. IsFiniteSet(U) /\ Cardinality(U) \in Nat
  BY FS_Subset, FS_CardinalityType
<1>3. U # {} => Cardinality(U \ {Some(U)}) = Cardinality(U) - 1
  BY <1>2, FS_RemoveElement, SomeIn
<1> QED
  BY <1>1, <1>2, <1>3

\* Sums of functions that agree on a set agree on it.
LEMMA SumsAgree ==
  ASSUME NEW f, NEW S, IsFiniteSet(S), NEW g, NEW T, IsFiniteSet(T),
         NEW h, IsSum(h, f, S), NEW i, IsSum(i, g, T),
         NEW U \in SUBSET S, U \in SUBSET T, \A x \in U : f[x] = g[x]
  PROVE  h[U] = i[U]
<1> DEFINE N == {n \in Nat : \A s \in SUBSET U : Cardinality(s) <= n => h[s] = i[s]}
<1>0. IsFiniteSet(U) /\ Cardinality(U) \in Nat
  BY FS_Subset, FS_CardinalityType
<1>1. 0 \in N
  <2>1. ASSUME NEW s \in SUBSET U, Cardinality(s) <= 0
        PROVE  h[s] = i[s]
    <3>1. s = {}
      BY <1>0, <2>1, FS_Subset, FS_CardinalityType, FS_EmptySet
    <3> QED
      BY <3>1, IsSumOf
  <2> QED
    BY <2>1
<1>2. ASSUME NEW n \in Nat, n \in N
      PROVE  n + 1 \in N
  <2>1. ASSUME NEW s \in SUBSET U, Cardinality(s) <= n + 1
        PROVE  h[s] = i[s]
    <3>1. s \in SUBSET S /\ s \in SUBSET T
      OBVIOUS
    <3>2. CASE s = {}
      BY <3>1, <3>2, IsSumOf
    <3>3. CASE s # {}
      <4> DEFINE x == Some(s)
                 t == s \ {x}
      <4>1. /\ h[s] = f[x] + h[t] /\ i[s] = g[x] + i[t]
            /\ Cardinality(s) \in Nat /\ Cardinality(t) = Cardinality(s) - 1
        BY <3>1, <3>3, IsSumOf
      <4>2. x \in U /\ t \in SUBSET U
        BY <3>3, SomeIn
      <4> HIDE DEF x, t
      <4>3. h[t] = i[t] /\ f[x] = g[x]
        BY <1>2, <2>1, <4>1, <4>2
      <4> QED
        BY <4>1, <4>3
    <3> QED
      BY <3>2, <3>3
  <2> HIDE DEF N
  <2> QED
    BY <2>1 DEF N
<1> HIDE DEF N
<1>3. Nat \subseteq N
  BY <1>1, <1>2, SetInduction
<1> QED
  BY <1>0, <1>3 DEF N

\* A sum of integers is one, and any member can be taken out of it.
LEMMA SumTake ==
  ASSUME NEW f, NEW S, IsFiniteSet(S), \A x \in S : f[x] \in Int
  PROVE  /\ SumFunctionOnSet(f, S) \in Int
         /\ \A x \in S : SumFunctionOnSet(f, S) = f[x] + SumFunctionOnSet(f, S \ {x})
<1>1. PICK h : IsSum(h, f, S) /\ SumFunctionOnSet(f, S) = h[S]
  BY SumIs
<1> DEFINE Any(s) == h[s] \in Int /\ \A x \in s : h[s] = f[x] + h[s \ {x}]
           N == {n \in Nat : \A s \in SUBSET S : Cardinality(s) <= n => Any(s)}
<1>2. 0 \in N
  <2>1. ASSUME NEW s \in SUBSET S, Cardinality(s) <= 0
        PROVE  Any(s)
    <3>1. s = {}
      BY <2>1, FS_Subset, FS_CardinalityType, FS_EmptySet
    <3>2. h[s] = 0
      BY <1>1, <3>1, IsSumOf
    <3> QED
      BY <3>1, <3>2
  <2> QED
    BY <2>1
<1>3. ASSUME NEW n \in Nat, n \in N
      PROVE  n + 1 \in N
  <2>1. ASSUME NEW s \in SUBSET S, Cardinality(s) <= n + 1
        PROVE  Any(s)
    <3>1. CASE s = {}
      <4>1. h[s] = 0
        BY <1>1, <3>1, IsSumOf
      <4> QED
        BY <3>1, <4>1
    <3>2. CASE s # {}
      <4> DEFINE y == Some(s)
      <4>1. /\ h[s] = f[y] + h[s \ {y}] /\ s \ {y} \in SUBSET S
            /\ Cardinality(s) \in Nat /\ Cardinality(s \ {y}) = Cardinality(s) - 1
        BY <1>1, <3>2, IsSumOf
      <4>2. y \in s
        BY <3>2, SomeIn
      <4> HIDE DEF y
      <4>3. Any(s \ {y})
        <5>1. Cardinality(s \ {y}) <= n
          BY <2>1, <4>1
        <5> QED
          BY <1>3, <4>1, <5>1
      <4>4. h[s] \in Int /\ f[y] \in Int /\ h[s \ {y}] \in Int
        BY <4>1, <4>2, <4>3
      <4>5. ASSUME NEW x \in s
            PROVE  h[s] = f[x] + h[s \ {x}]
        <5>1. CASE x = y
          BY <4>1, <5>1
        <5>2. CASE x # y
          <6>1. x \in s \ {y} /\ y \in s \ {x} /\ f[x] \in Int /\ s \ {x} \in SUBSET S
            BY <4>2, <5>2
          <6>2. Any(s \ {x})
            <7>1. IsFiniteSet(s)
              BY FS_Subset
            <7>2. Cardinality(s \ {x}) = Cardinality(s) - 1
              BY <7>1, FS_RemoveElement
            <7>3. Cardinality(s \ {x}) <= n
              BY <2>1, <4>1, <7>2
            <7> QED
              BY <1>3, <6>1, <7>3
          <6>3. h[s \ {y}] = f[x] + h[(s \ {y}) \ {x}]
            BY <4>3, <6>1
          <6>4. h[s \ {x}] = f[y] + h[(s \ {x}) \ {y}]
            BY <6>1, <6>2
          <6>5. (s \ {y}) \ {x} = (s \ {x}) \ {y}
            OBVIOUS
          <6> DEFINE r == h[(s \ {x}) \ {y}]
          <6>6. r \in Int
            <7>1. (s \ {x}) \ {y} \in SUBSET S /\ Cardinality((s \ {x}) \ {y}) <= n
              <8>1. IsFiniteSet(s \ {x}) /\ Cardinality(s \ {x}) = Cardinality(s) - 1
                <9>1. IsFiniteSet(s)
                  BY FS_Subset
                <9> QED
                  BY <9>1, FS_RemoveElement
              <8>2. Cardinality((s \ {x}) \ {y}) = Cardinality(s \ {x}) - 1
                BY <6>1, <8>1, FS_RemoveElement
              <8> QED
                BY <2>1, <4>1, <8>1, <8>2
            <7> QED
              BY <1>3, <7>1
          <6>7. h[s \ {y}] = f[x] + r /\ h[s \ {x}] = f[y] + r
            BY <6>3, <6>4, <6>5
          <6> HIDE DEF r
          <6> QED
            BY <4>1, <4>4, <6>1, <6>6, <6>7
        <5> QED
          BY <5>1, <5>2
      <4> QED
        BY <4>4, <4>5
    <3> QED
      BY <3>1, <3>2
  <2> HIDE DEF N, Any
  <2> QED
    BY <2>1 DEF N
<1> HIDE DEF N, Any
<1>4. Nat \subseteq N
  BY <1>2, <1>3, SetInduction
<1>5. Cardinality(S) \in N
  BY <1>4, FS_CardinalityType
<1>6. Any(S)
  BY <1>5, FS_CardinalityType DEF N
<1>7. ASSUME NEW x \in S
      PROVE  SumFunctionOnSet(f, S \ {x}) = h[S \ {x}]
  <2>1. IsFiniteSet(S \ {x})
    BY FS_RemoveElement
  <2>2. PICK i : IsSum(i, f, S \ {x}) /\ SumFunctionOnSet(f, S \ {x}) = i[S \ {x}]
    BY <2>1, SumIs
  <2>3. i[S \ {x}] = h[S \ {x}]
    BY <1>1, <2>1, <2>2, SumsAgree
  <2> QED
    BY <2>2, <2>3
<1> QED
  BY <1>1, <1>6, <1>7 DEF Any

\* A sum of naturals is one, no less than any of them, and zero with them.
LEMMA SumOfNats ==
  ASSUME NEW f, NEW S, IsFiniteSet(S), \A x \in S : f[x] \in Nat
  PROVE  /\ SumFunctionOnSet(f, S) \in Nat
         /\ \A x \in S : f[x] <= SumFunctionOnSet(f, S)
         /\ (\A x \in S : f[x] = 0) => SumFunctionOnSet(f, S) = 0
<1> DEFINE Right(s) == /\ SumFunctionOnSet(f, s) \in Nat
                       /\ (\A x \in s : f[x] = 0) => SumFunctionOnSet(f, s) = 0
           N == {n \in Nat : \A s \in SUBSET S : Cardinality(s) <= n => Right(s)}
<1>1. 0 \in N
  <2>1. ASSUME NEW s \in SUBSET S, Cardinality(s) <= 0
        PROVE  Right(s)
    <3>1. s = {}
      BY <2>1, FS_Subset, FS_CardinalityType, FS_EmptySet
    <3> QED
      BY <3>1, SumEmpty
  <2> QED
    BY <2>1
<1>2. ASSUME NEW n \in Nat, n \in N
      PROVE  n + 1 \in N
  <2>1. ASSUME NEW s \in SUBSET S, Cardinality(s) <= n + 1
        PROVE  Right(s)
    <3>1. IsFiniteSet(s) /\ Cardinality(s) \in Nat
      BY FS_Subset, FS_CardinalityType
    <3>2. CASE s = {}
      BY <3>2, SumEmpty
    <3>3. CASE s # {}
      <4>1. PICK x \in s : TRUE
        BY <3>3
      <4>2. Cardinality(s \ {x}) = Cardinality(s) - 1
        BY <3>1, FS_RemoveElement
      <4>3. Right(s \ {x})
        BY <1>2, <2>1, <3>1, <4>2
      <4>4. SumFunctionOnSet(f, s) = f[x] + SumFunctionOnSet(f, s \ {x}) /\ f[x] \in Nat
        BY <3>1, SumTake
      <4> QED
        BY <4>3, <4>4
    <3> QED
      BY <3>2, <3>3
  <2> HIDE DEF N, Right
  <2> QED
    BY <2>1 DEF N
<1> HIDE DEF N, Right
<1>3. Nat \subseteq N
  BY <1>1, <1>2, SetInduction
<1>4. \A s \in SUBSET S : Right(s)
  BY <1>3, FS_Subset, FS_CardinalityType DEF N
<1>5. ASSUME NEW x \in S
      PROVE  f[x] <= SumFunctionOnSet(f, S)
  <2>1. SumFunctionOnSet(f, S) = f[x] + SumFunctionOnSet(f, S \ {x})
    BY SumTake
  <2> QED
    BY <1>4, <2>1 DEF Right
<1> QED
  BY <1>4, <1>5 DEF Right

\* g is f of the n members of T, which s lists each once: its sum is that of f.
Relists(g, n, s, f, T) ==
    /\ \A j, m \in 1..n : s[j] = s[m] => j = m
    /\ \A x : x \in T <=> \E j \in 1..n : s[j] = x
    /\ \A j \in 1..n : g[j] = f[s[j]] /\ f[s[j]] \in Int

\* Induction over how many are listed.
LEMMA SumOfListed ==
  ASSUME NEW f, NEW T, NEW g, NEW n \in Nat, NEW s, Relists(g, n, s, f, T)
  PROVE  SumFunctionOnSet(g, 1..n) = SumFunctionOnSet(f, T)
<1> DEFINE Listed(m) == {s[j] : j \in 1..m}
           N == {m \in Nat : m <= n => /\ IsFiniteSet(Listed(m))
                                       /\ SumFunctionOnSet(g, 1..m) = SumFunctionOnSet(f, Listed(m))}
<1>1. 0 \in N
  <2>1. 1..0 = {} /\ Listed(0) = {}
    OBVIOUS
  <2> HIDE DEF Listed
  <2> QED
    BY <2>1, SumEmpty, FS_EmptySet
<1>2. ASSUME NEW m \in Nat, m \in N
      PROVE  m + 1 \in N
  <2>1. CASE ~(m + 1 <= n)
    BY <2>1
  <2>2. CASE m + 1 <= n
    <3>1. IsFiniteSet(Listed(m)) /\ SumFunctionOnSet(g, 1..m) = SumFunctionOnSet(f, Listed(m))
      BY <1>2, <2>2
    <3> DEFINE k == m + 1
    <3>2. /\ k \in 1..n /\ 1..k = (1..m) \cup {k} /\ (1..k) \ {k} = 1..m /\ k \in 1..k
          /\ \A j \in 1..k : j \in 1..n
      BY <2>2
    <3>3. Listed(k) = Listed(m) \cup {s[k]} /\ s[k] \notin Listed(m) /\ Listed(k) \ {s[k]} = Listed(m)
      BY <2>2, <3>2 DEF Relists
    <3>4. IsFiniteSet(Listed(k)) /\ IsFiniteSet(1..k)
      <4>1. 1 \in Int /\ k \in Int
        OBVIOUS
      <4> HIDE DEF k, Listed
      <4>2. IsFiniteSet(Listed(k))
        BY <3>1, <3>3, FS_AddElement
      <4> QED
        BY <4>1, <4>2, FS_Interval
    <3>5. \A j \in 1..k : g[j] \in Int /\ g[j] = f[s[j]]
      BY <3>2 DEF Relists
    <3>6. \A x \in Listed(k) : f[x] \in Int
      BY <3>2 DEF Relists
    <3>7. s[k] \in Listed(k)
      BY <3>3
    <3> HIDE DEF k, Listed, N
    <3>8. SumFunctionOnSet(g, 1..k) = g[k] + SumFunctionOnSet(g, 1..m)
      <4>1. SumFunctionOnSet(g, 1..k) = g[k] + SumFunctionOnSet(g, (1..k) \ {k})
        BY <3>2, <3>4, <3>5, SumTake
      <4> QED
        BY <3>2, <4>1
    <3>9. SumFunctionOnSet(f, Listed(k)) = f[s[k]] + SumFunctionOnSet(f, Listed(m))
      BY <3>3, <3>4, <3>6, <3>7, SumTake
    <3>10. SumFunctionOnSet(g, 1..k) = SumFunctionOnSet(f, Listed(k))
      BY <3>1, <3>2, <3>5, <3>8, <3>9
    <3> QED
      BY <3>4, <3>10 DEF N, k
  <2> QED
    BY <2>1, <2>2
<1> HIDE DEF N
<1>3. Nat \subseteq N
  BY <1>1, <1>2, SetInduction
<1>4. T = Listed(n)
  BY DEF Relists
<1> HIDE DEF Listed
<1>5. SumFunctionOnSet(g, 1..n) = SumFunctionOnSet(f, Listed(n))
  BY <1>3 DEF N
<1> QED
  BY <1>4, <1>5
-------------------------------------------------------------------------------
(***************************************************************************)
(* LRUCache implements RecencyOrder for callers that hold one pair at a    *)
(* time: lemmas about the two of them (Fit, the keys in order, what get,   *)
(* evict and insert make of those), then one lemma for each action.        *)
(***************************************************************************)
\* The maximum of RecencyOrder.
LEMMA GreatestIs ==
  ASSUME NEW T \in SUBSET Int, NEW m \in T, \A n \in T : n <= m
  PROVE  Shown!Max(T) = m
<1>1. \E x \in T : \A y \in T : x >= y
  OBVIOUS
<1>2. Shown!Max(T) \in T /\ \A y \in T : Shown!Max(T) >= y
  BY <1>1 DEF Shown!Max
<1>3. m \in Int /\ Shown!Max(T) \in Int /\ Shown!Max(T) >= m /\ Shown!Max(T) <= m
  BY <1>2
<1> QED
  BY <1>3

\* Prefixes of a sequence, and prefixes of those.
LEMMA PrefixIs ==
  ASSUME NEW S, NEW s \in Seq(S), NEW n \in 0..Len(s)
  PROVE  /\ SubSeq(s, 1, n) \in Seq(S)
         /\ Len(SubSeq(s, 1, n)) = n
         /\ \A j \in 1..n : SubSeq(s, 1, n)[j] = s[j]
         /\ n = Len(s) => SubSeq(s, 1, n) = s
         /\ \A m \in 0..n : SubSeq(SubSeq(s, 1, n), 1, m) = SubSeq(s, 1, m)
<1>1. \A r : r \in Seq(S) => \A m \in 0..Len(r) :
        /\ SubSeq(r, 1, m) \in Seq(S)
        /\ Len(SubSeq(r, 1, m)) = m
        /\ \A j \in 1..m : SubSeq(r, 1, m)[j] = r[j]
  <2> SUFFICES ASSUME NEW r \in Seq(S), NEW m \in 0..Len(r)
               PROVE  /\ SubSeq(r, 1, m) \in Seq(S)
                      /\ Len(SubSeq(r, 1, m)) = m
                      /\ \A j \in 1..m : SubSeq(r, 1, m)[j] = r[j]
    OBVIOUS
  <2> DEFINE c == Len(r)
             q == SubSeq(r, 1, m)
  <2>1. c \in Nat /\ r \in [1..c -> S] /\ 1 \in 1..(c + 1) /\ m \in (1 - 1)..c
        /\ m - 1 + 1 = m /\ \A j \in 1..m : 1 + j - 1 = j
    OBVIOUS
  <2> HIDE DEF c
  <2>2. /\ q \in Seq(S) /\ Len(q) = m - 1 + 1
        /\ \A j \in 1..(m - 1 + 1) : q[j] = r[1 + j - 1]
    BY <2>1, SliceIs
  <2> HIDE DEF q
  <2>3. \A j \in 1..m : q[j] = r[j]
    BY <2>1, <2>2
  <2> QED
    BY <2>1, <2>2, <2>3 DEF q
<1> DEFINE p == SubSeq(s, 1, n)
<1>2. p \in Seq(S) /\ Len(p) = n /\ \A j \in 1..n : p[j] = s[j]
  BY <1>1
<1> HIDE DEF p
<1>3. n = Len(s) => p = s
  BY <1>2, SeqEqual
<1>4. ASSUME NEW m \in 0..n
      PROVE  SubSeq(p, 1, m) = SubSeq(s, 1, m)
  <2>1. m \in 0..Len(p) /\ m \in 0..Len(s)
    BY <1>2
  <2> DEFINE a == SubSeq(p, 1, m)
             b == SubSeq(s, 1, m)
  <2>2. /\ a \in Seq(S) /\ Len(a) = m /\ \A j \in 1..m : a[j] = p[j]
        /\ b \in Seq(S) /\ Len(b) = m /\ \A j \in 1..m : b[j] = s[j]
    BY <1>1, <1>2, <2>1
  <2> HIDE DEF a, b
  <2>3. \A j \in 1..m : a[j] = b[j]
    BY <1>2, <2>2
  <2>4. a = b
    BY <2>2, <2>3, SeqEqual
  <2> QED
    BY <2>4 DEF a, b
<1> QED
  BY <1>2, <1>3, <1>4 DEF p

\* When a list of keys fits, or is no longer than what is kept at any rate, all of it stays.
LEMMA FitWhole ==
  ASSUME NEW S, NEW s \in Seq(S), NEW least \in 0..Len(s), NEW size, NEW count,
         Shown!Fits(s, size, count) \/ Len(s) = least
  PROVE  Shown!Fit(s, size, count, least) = s
<1> DEFINE fitting == {n \in 0..Len(s) : Shown!Fits(SubSeq(s, 1, n), size, count)}
<1>1. Len(s) \in fitting \cup {least}
  <2>1. SubSeq(s, 1, Len(s)) = s /\ Len(s) \in 0..Len(s)
    BY PrefixIs
  <2> QED
    BY <2>1
<1>2. fitting \cup {least} \in SUBSET Int /\ \A n \in fitting \cup {least} : n <= Len(s)
  OBVIOUS
<1>3. Shown!Fit(s, size, count, least) = SubSeq(s, 1, Shown!Max(fitting \cup {least}))
  BY Zenon DEF Shown!Fit
<1> HIDE DEF fitting
<1>4. Shown!Max(fitting \cup {least}) = Len(s)
  BY <1>1, <1>2, GreatestIs
<1> QED
  BY <1>3, <1>4, PrefixIs

\* When it does not, the last key is one of those that go.
LEMMA FitFewer ==
  ASSUME NEW S, NEW s \in Seq(S), NEW least \in 0..(Len(s) - 1), NEW size, NEW count,
         ~Shown!Fits(s, size, count)
  PROVE  Shown!Fit(s, size, count, least)
           = Shown!Fit(SubSeq(s, 1, Len(s) - 1), size, count, least)
<1> DEFINE fitting(r) == {n \in 0..Len(r) : Shown!Fits(SubSeq(r, 1, n), size, count)}
           p == SubSeq(s, 1, Len(s) - 1)
<1>1. /\ Len(s) \in Nat /\ Len(s) - 1 \in 0..Len(s)
      /\ Len(p) = Len(s) - 1
      /\ \A m \in 0..(Len(s) - 1) : SubSeq(p, 1, m) = SubSeq(s, 1, m)
      /\ SubSeq(s, 1, Len(s)) = s
  <2>1. Len(s) \in Nat /\ Len(s) - 1 \in 0..Len(s) /\ Len(s) \in 0..Len(s)
    OBVIOUS
  <2> QED
    BY <2>1, PrefixIs
<1> HIDE DEF p
<1>2. fitting(p) = fitting(s)
  <2>1. ASSUME NEW n \in fitting(s)
        PROVE  n \in fitting(p)
    <3>1. n # Len(s)
      BY <1>1, <2>1
    <3>2. n \in 0..Len(p) /\ SubSeq(p, 1, n) = SubSeq(s, 1, n)
      BY <1>1, <2>1, <3>1
    <3> QED
      BY <3>2
  <2>2. ASSUME NEW n \in fitting(p)
        PROVE  n \in fitting(s)
    <3>1. n \in 0..Len(s) /\ SubSeq(p, 1, n) = SubSeq(s, 1, n)
      BY <1>1
    <3> QED
      BY <3>1
  <2> QED
    BY <2>1, <2>2, Zenon
<1> DEFINE m == Shown!Max(fitting(s) \cup {least})
<1>3. m \in 0..(Len(s) - 1)
  <2>1. fitting(s) \cup {least} \in SUBSET (0..(Len(s) - 1))
    <3>1. Len(s) \notin fitting(s)
      BY <1>1
    <3> QED
      BY <1>1, <3>1
  <2> DEFINE T == fitting(s) \cup {least}
  <2>2. T \in SUBSET (0..(Len(s) - 1)) /\ T # {} /\ Len(s) - 1 \in Nat
    BY <1>1, <2>1
  <2> HIDE DEF T
  <2>3. \E x \in T : \A y \in T : x >= y
    <3> DEFINE U == {(Len(s) - 1) - x : x \in T}
    <3>1. U \in SUBSET Nat /\ U # {}
      <4>1. \A x \in T : (Len(s) - 1) - x \in Nat
        BY <2>2
      <4> QED
        BY <2>2, <4>1
    <3> HIDE DEF U
    <3>2. PICK u \in U : \A w \in U : u <= w
      BY <3>1, LeastNumber
    <3>3. PICK x \in T : u = (Len(s) - 1) - x
      BY <3>2 DEF U
    <3>4. ASSUME NEW y \in T
          PROVE  x >= y
      <4>1. (Len(s) - 1) - y \in U
        BY DEF U
      <4>2. (Len(s) - 1) - x <= (Len(s) - 1) - y /\ x \in Int /\ y \in Int
        BY <2>2, <3>2, <3>3, <4>1
      <4> QED
        BY <1>1, <4>2
    <3> QED
      BY <3>4
  <2>4. Shown!Max(T) \in T
    BY <2>3 DEF Shown!Max
  <2> QED
    BY <2>1, <2>4 DEF T
<1>4. Shown!Fit(s, size, count, least) = SubSeq(s, 1, m)
  BY Zenon DEF Shown!Fit
<1>5. Shown!Fit(p, size, count, least) = SubSeq(p, 1, m)
  BY <1>2, Zenon DEF Shown!Fit
<1> HIDE DEF m
<1> QED
  BY <1>1, <1>3, <1>4, <1>5 DEF p

\* The two instances of RecencyOrder define the same Fit.
LEMMA FitIsFit ==
  ASSUME NEW s, NEW size, NEW count, NEW least
  PROVE  Recency!Fit(s, size, count, least) = Shown!Fit(s, size, count, least)
  BY Zenon DEF Recency!Fit, Shown!Fit, Recency!Fits, Shown!Fits, Recency!Max, Shown!Max,
     Recency!SizeOf, Shown!SizeOf, Recency!SumFunction, Shown!SumFunction,
     Recency!SumFunctionOnSet, Shown!SumFunctionOnSet, Recency!FoldFunctionOnSet,
     Shown!FoldFunctionOnSet, Recency!MapThenFoldSet, Shown!MapThenFoldSet

\* What is left of a sequence without its k-th member.
LEMMA RemovedAt ==
  ASSUME NEW S, NEW s \in Seq(S), NEW k \in 1..Len(s)
  PROVE  /\ Recency!RemoveAt(s, k) \in Seq(S)
         /\ Len(Recency!RemoveAt(s, k)) = Len(s) - 1
         /\ \A j \in 1..(Len(s) - 1) : Recency!RemoveAt(s, k)[j] = IF j < k THEN s[j] ELSE s[j + 1]
<1> DEFINE c == Len(s)
           head == SubSeq(s, 1, k - 1)
           tail == SubSeq(s, k + 1, c)
<1>1. /\ c \in Nat /\ k \in 1..c /\ s \in [1..c -> S]
      /\ k - 1 \in 0..c /\ k + 1 \in 1..(c + 1) /\ c \in (k + 1 - 1)..c
      /\ c - (k + 1) + 1 = c - k /\ \A j \in 1..(c - k) : k + 1 + j - 1 = k + j
  OBVIOUS
<1>2. Recency!RemoveAt(s, k) = head \o tail
  BY Zenon DEF Recency!RemoveAt
<1>3. head \in Seq(S) /\ Len(head) = k - 1 /\ \A j \in 1..(k - 1) : head[j] = s[j]
  BY <1>1, PrefixIs
<1> HIDE DEF c, head
<1>4. /\ tail \in Seq(S) /\ Len(tail) = c - (k + 1) + 1
      /\ \A j \in 1..(c - (k + 1) + 1) : tail[j] = s[k + 1 + j - 1]
  BY <1>1, SliceIs
<1> HIDE DEF tail
<1>5. Len(tail) = c - k /\ \A j \in 1..(c - k) : tail[j] = s[k + j]
  BY <1>1, <1>4
<1>6. /\ head \o tail \in Seq(S)
      /\ Len(head \o tail) = Len(head) + Len(tail)
      /\ \A j \in 1..(Len(head) + Len(tail)) :
            (head \o tail)[j] = IF j <= Len(head) THEN head[j] ELSE tail[j - Len(head)]
  BY ONLY <1>3, <1>4, ConcatProperties
<1>7. Len(head) + Len(tail) = c - 1
  BY <1>1, <1>3, <1>5
<1>8. ASSUME NEW j \in 1..(c - 1)
      PROVE  (head \o tail)[j] = IF j < k THEN s[j] ELSE s[j + 1]
  <2>1. (head \o tail)[j] = IF j <= k - 1 THEN head[j] ELSE tail[j - (k - 1)]
    BY <1>3, <1>6, <1>7
  <2>2. CASE j < k
    BY <1>1, <1>3, <2>1, <2>2
  <2>3. CASE ~(j < k)
    <3>1. ~(j <= k - 1) /\ j - (k - 1) \in 1..(c - k) /\ k + (j - (k - 1)) = j + 1
      BY <1>1, <2>3
    <3> QED
      BY <1>5, <2>1, <2>3, <3>1
  <2> QED
    BY <2>2, <2>3
<1> QED
  BY <1>2, <1>6, <1>7, <1>8 DEF c

\* A sequence with a member put in front.
LEMMA PutInFront ==
  ASSUME NEW S, NEW s \in Seq(S), NEW x \in S
  PROVE  /\ <<x>> \o s \in Seq(S)
         /\ Len(<<x>> \o s) = Len(s) + 1
         /\ (<<x>> \o s)[1] = x
         /\ \A j \in 2..(Len(s) + 1) : (<<x>> \o s)[j] = s[j - 1]
<1> DEFINE w == <<x>>
<1>1. w \in Seq(S) /\ Len(w) = 1 /\ w[1] = x
  OBVIOUS
<1> HIDE DEF w
<1>2. /\ w \o s \in Seq(S)
      /\ Len(w \o s) = Len(w) + Len(s)
      /\ \A j \in 1..(Len(w) + Len(s)) : (w \o s)[j] = IF j <= Len(w) THEN w[j] ELSE s[j - Len(w)]
  BY ONLY <1>1, s \in Seq(S), ConcatProperties
<1>3. Len(w) + Len(s) = Len(s) + 1 /\ Len(s) \in Nat
  BY <1>1
<1>4. (w \o s)[1] = x
  <2>1. 1 \in 1..(Len(w) + Len(s)) /\ 1 <= Len(w)
    BY <1>1, <1>3
  <2> QED
    BY <1>1, <1>2, <2>1
<1>5. ASSUME NEW j \in 2..(Len(s) + 1)
      PROVE  (w \o s)[j] = s[j - 1]
  <2>1. j \in 1..(Len(w) + Len(s)) /\ ~(j <= Len(w)) /\ j - Len(w) = j - 1
    BY <1>1, <1>3
  <2> QED
    BY <1>2, <2>1
<1> QED
  BY <1>2, <1>3, <1>4, <1>5 DEF w

\* The keys of a cache in the order of its list.
LEMMA KeysListed ==
  ASSUME NEW C, NEW K, Coherent(C, K), NEW s, ListedAs(C.pairs, s)
  PROVE  /\ C.count \in Nat /\ s \in [1..C.count -> C.indices]
         /\ KeysInOrder(C) \in Seq(K) /\ Len(KeysInOrder(C)) = C.count
         /\ \A j \in 1..C.count : KeysInOrder(C)[j] = C.item[s[j]].key
         /\ C.pairs.first = IF C.count = 0 THEN NoLink ELSE s[1]
         /\ C.pairs.last = IF C.count = 0 THEN NoLink ELSE s[C.count]
<1> DEFINE c == C.count
           o == KeysInOrder(C)
<1>1. /\ c \in Nat /\ c = C.pairs.count /\ s \in [1..c -> C.indices]
      /\ C.indices = Links(C.pairs) /\ ListInv(C.pairs)
      /\ C.pairs.first = IF c = 0 THEN NoLink ELSE s[1]
  BY DEF Coherent, ListInv, Typed, ListedAs, InOrder
<1>2. C.pairs.last = IF c = 0 THEN NoLink ELSE s[c]
  <2>1. /\ Typed(C.pairs) /\ Links(C.pairs) \in SUBSET Slots(C.pairs)
        /\ Chained(C.pairs, Links(C.pairs))
        /\ InOrder(C.pairs.next, C.pairs.first, s, c, Links(C.pairs))
    BY <1>1 DEF ListInv, ListedAs, Links
  <2> HIDE DEF c
  <2> QED
    BY <1>1, <2>1, ListedBothWays
<1>3. Forward(C.pairs) = s
  BY <1>1, ForwardIsListing DEF ListInv, ListedAs
<1>4. o = [j \in 1..c |-> C.item[s[j]].key]
  BY <1>1, <1>3, Zenon DEF KeysInOrder
<1>5. \A i \in C.indices : C.item[i].key \in K
  BY DEF Coherent
<1> HIDE DEF o, c
<1>6. o \in [1..c -> K] /\ \A j \in 1..c : o[j] = C.item[s[j]].key
  BY <1>1, <1>4, <1>5
<1>7. o \in Seq(K) /\ Len(o) = c
  BY <1>1, <1>6, SeqDef
<1> QED
  BY <1>1, <1>2, <1>6, <1>7 DEF o, c

\* They are the cached keys, each once.
LEMMA KeysOnce ==
  ASSUME NEW C, NEW K, Coherent(C, K), NEW s, ListedAs(C.pairs, s)
  PROVE  /\ \A j, m \in 1..C.count : KeysInOrder(C)[j] = KeysInOrder(C)[m] => j = m
         /\ \A k : k \in Cached(C) <=> \E j \in 1..C.count : KeysInOrder(C)[j] = k
<1> DEFINE c == C.count
           o == KeysInOrder(C)
<1>1. s \in [1..c -> C.indices] /\ \A j \in 1..c : o[j] = C.item[s[j]].key
  <2> HIDE DEF o
  <2>1. /\ C.count \in Nat /\ s \in [1..C.count -> C.indices]
        /\ o \in Seq(K) /\ Len(o) = C.count
        /\ \A j \in 1..C.count : o[j] = C.item[s[j]].key
    BY KeysListed DEF o
  <2> QED
    BY <2>1
<1>2. /\ \A i \in C.indices : \E j \in 1..c : s[j] = i
      /\ \A j, m \in 1..c : s[j] = s[m] => j = m
      /\ \A i, m \in C.indices : C.item[i].key = C.item[m].key => i = m
  BY DEF Coherent, ListedAs, InOrder
<1> HIDE DEF o, c
<1>3. \A j, m \in 1..c : o[j] = o[m] => j = m
  BY <1>1, <1>2
<1>4. \A k : k \in Cached(C) <=> \E j \in 1..c : o[j] = k
  BY <1>1, <1>2 DEF Cached
<1> QED
  BY <1>3, <1>4 DEF o, c

\* get(i) moves the key of i to the front.
LEMMA GetOrder ==
  ASSUME NEW C, NEW K, Coherent(C, K), NEW s, ListedAs(C.pairs, s), NEW k \in 1..C.count
  PROVE  /\ \E t : ListedAs(get(C, s[k]).pairs, t)
         /\ get(C, s[k]).pairs.first = s[k]
         /\ KeysInOrder(get(C, s[k])) = <<C.item[s[k]].key>> \o Recency!RemoveAt(KeysInOrder(C), k)
<1> DEFINE i == s[k]
           c == C.count
           o == KeysInOrder(C)
           D == get(C, i)
           q == KeysInOrder(D)
           r == Recency!RemoveAt(o, k)
           w == <<C.item[i].key>> \o r
<1>1. /\ c \in Nat /\ s \in [1..c -> C.indices] /\ i \in C.indices
      /\ o \in Seq(K) /\ Len(o) = c
      /\ \A j \in 1..c : o[j] = C.item[s[j]].key
      /\ C.pairs.first = s[1] /\ 1 \in 1..c
  <2> HIDE DEF i, o
  <2>1. /\ c \in Nat /\ s \in [1..c -> C.indices]
        /\ o \in Seq(K) /\ Len(o) = c
        /\ \A j \in 1..c : o[j] = C.item[s[j]].key
        /\ C.pairs.first = IF c = 0 THEN NoLink ELSE s[1]
    <3> HIDE DEF c
    <3>1. /\ C.count \in Nat /\ s \in [1..C.count -> C.indices]
          /\ o \in Seq(K) /\ Len(o) = C.count
          /\ \A j \in 1..C.count : o[j] = C.item[s[j]].key
      BY KeysListed DEF o
    <3>2. C.pairs.first = IF C.count = 0 THEN NoLink ELSE s[1]
      BY KeysListed
    <3> QED
      BY <3>1, <3>2 DEF c
  <2>2. c # 0 /\ 1 \in 1..c
    BY <2>1
  <2>3. i \in C.indices
    BY <2>1 DEF i
  <2> QED
    BY <2>1, <2>2, <2>3
<1>2. /\ Coherent(D, K) /\ D.item = [C.item EXCEPT ![i].refcount = @ + 1]
      /\ D.pairs = move_before(C.pairs, C.pairs.first, i) /\ D.count = c
  <2> HIDE DEF c, o, i
  <2>1. Coherent(D, K) /\ D.item = [C.item EXCEPT ![i].refcount = @ + 1]
    BY <1>1, GetCoherent
  <2>2. D.pairs = move_before(C.pairs, C.pairs.first, i) /\ D.count = C.count
    BY DEF get, Coherent
  <2> QED
    BY <2>1, <2>2 DEF c
<1>3. \A m \in C.indices : D.item[m].key = C.item[m].key
  BY <1>1, <1>2 DEF Coherent
<1>4. C.item[i].key \in K
  BY <1>1 DEF Coherent
<1> HIDE DEF D, c, o
<1>5. \E t : /\ ListedAs(D.pairs, t)
             /\ \A j \in 1..c : t[j] = IF j = 1 THEN i ELSE IF j <= k THEN s[j - 1] ELSE s[j]
  <2>1. CASE k = 1
    <3>1. D.pairs = C.pairs
      BY <1>1, <1>2, <2>1 DEF move_before
    <3>2. \A j \in 1..c : s[j] = IF j = 1 THEN i ELSE IF j <= k THEN s[j - 1] ELSE s[j]
      BY <2>1
    <3> QED
      BY <3>1, <3>2
  <2>2. CASE k # 1
    <3> DEFINE d == DropAt(s, c, k)
               t == AddAt(d, c - 1, 0, i)
    <3>1. /\ ListInv(C.pairs) /\ C.pairs.count = c /\ k \in 1..c /\ 1 \in 1..(c - 1)
          /\ d[1] = s[1] /\ 1 - 1 = 0
      BY <1>1, <2>2 DEF Coherent, DropAt, c
    <3>2. C.pairs.first = d[1]
      BY <1>1, <3>1
    <3> HIDE DEF d
    <3>3. ListedAs(D.pairs, AddAt(d, c - 1, 1 - 1, i))
      <4>1. D.pairs = move_before(C.pairs, d[1], s[k])
        BY <1>2, <3>2
      <4> QED
        BY <3>1, <4>1, MoveBeforeListing DEF d
    <3>4. ListedAs(D.pairs, t)
      BY <3>1, <3>3
    <3>5. ASSUME NEW j \in 1..c
          PROVE  t[j] = IF j = 1 THEN i ELSE IF j <= k THEN s[j - 1] ELSE s[j]
      <4>1. t[j] = IF j = 1 THEN i ELSE d[j - 1]
        BY <1>1 DEF AddAt
      <4>2. j # 1 => j - 1 \in 1..(c - 1) /\ (j - 1 < k <=> j <= k) /\ (j - 1) + 1 = j
        BY <1>1
      <4>3. j # 1 => d[j - 1] = IF j <= k THEN s[j - 1] ELSE s[j]
        BY <4>2 DEF d, DropAt
      <4> QED
        BY <4>1, <4>3
    <3> QED
      BY <3>4, <3>5
  <2> QED
    BY <2>1, <2>2
<1>6. PICK t : /\ ListedAs(D.pairs, t)
               /\ \A j \in 1..c : t[j] = IF j = 1 THEN i ELSE IF j <= k THEN s[j - 1] ELSE s[j]
  BY <1>5
<1>7. /\ D.pairs.first = t[1] /\ q \in Seq(K) /\ Len(q) = c
      /\ \A j \in 1..c : q[j] = D.item[t[j]].key
  <2> HIDE DEF i, q
  <2>1. /\ D.pairs.first = IF c = 0 THEN NoLink ELSE t[1]
        /\ q \in Seq(K) /\ Len(q) = c
        /\ \A j \in 1..c : q[j] = D.item[t[j]].key
    <3>1. D.count = c /\ Coherent(D, K) /\ ListedAs(D.pairs, t)
      BY <1>2, <1>6
    <3> QED
      BY <3>1, KeysListed DEF q
  <2>2. c # 0
    BY <1>1
  <2> QED
    BY <2>1, <2>2
<1>8. /\ r \in Seq(K) /\ Len(r) = c - 1
      /\ \A j \in 1..(c - 1) : r[j] = IF j < k THEN o[j] ELSE o[j + 1]
  <2>1. k \in 1..Len(o)
    BY <1>1 DEF c
  <2> QED
    BY <1>1, <2>1, RemovedAt
<1> HIDE DEF r, q
<1>9. /\ w \in Seq(K) /\ Len(w) = Len(r) + 1
      /\ w[1] = C.item[i].key
      /\ \A j \in 2..(Len(r) + 1) : w[j] = r[j - 1]
  BY <1>4, <1>8, PutInFront
<1> HIDE DEF w, i
<1>10. ASSUME NEW j \in 1..c
       PROVE  q[j] = w[j]
  <2>1. k \in 1..c
    BY DEF c
  <2>2. CASE j = 1
    <3>1. t[1] = i
      BY <1>1, <1>6
    <3>2. q[1] = D.item[i].key
      BY <1>1, <1>7, <3>1
    <3> QED
      BY <1>1, <1>3, <1>9, <2>2, <3>2
  <2>3. CASE j # 1
    <3>1. /\ j - 1 \in 1..(c - 1) /\ j - 1 \in 1..c /\ j \in 2..(Len(r) + 1)
          /\ (j - 1 < k <=> j <= k) /\ (j - 1) + 1 = j
      BY <1>1, <1>8, <2>1, <2>3
    <3>2. w[j] = IF j <= k THEN o[j - 1] ELSE o[j]
      BY <1>8, <1>9, <3>1
    <3>3. t[j] = IF j <= k THEN s[j - 1] ELSE s[j]
      BY <1>6, <2>3
    <3>4. q[j] = C.item[t[j]].key
      BY <1>1, <1>3, <1>7, <3>1, <3>3
    <3> QED
      BY <1>1, <3>1, <3>2, <3>3, <3>4
  <2> QED
    BY <2>2, <2>3
<1>11. q = w
  <2>1. Len(q) = Len(w)
    BY <1>1, <1>7, <1>8, <1>9
  <2> QED
    BY <1>7, <1>9, <1>10, <2>1, SeqEqual
<1>12. t[1] = i
  BY <1>1, <1>6
<1> QED
  BY <1>6, <1>7, <1>11, <1>12 DEF q, w, r, i, D, o

\* evict() drops the last key.
LEMMA EvictOrder ==
  ASSUME NEW C, NEW K, Coherent(C, K), MayEvict(C), NEW s, ListedAs(C.pairs, s)
  PROVE  /\ \E t : ListedAs(evict(C).pairs, t)
         /\ C.count > 0 /\ C.pairs.last = s[C.count]
         /\ C.count > 1 => evict(C).pairs.first = C.pairs.first
         /\ KeysInOrder(evict(C)) = SubSeq(KeysInOrder(C), 1, C.count - 1)
<1> DEFINE c == C.count
           o == KeysInOrder(C)
           D == evict(C)
           q == KeysInOrder(D)
           t == DropAt(s, c, c)
           w == SubSeq(o, 1, c - 1)
<1>1. /\ c \in Nat /\ c # 0 /\ C.pairs.last = s[c]
      /\ o \in Seq(K) /\ Len(o) = c
      /\ \A j \in 1..c : o[j] = C.item[s[j]].key
      /\ C.pairs.first = s[1]
  BY KeysListed DEF MayEvict
<1>2. /\ Coherent(D, K) /\ D.count = c - 1
      /\ D.indices = C.indices \ {s[c]}
      /\ \A j \in D.indices : D.item[j] = C.item[j]
      /\ D.pairs = remove(C.pairs, s[c])
  <2> HIDE DEF c, o, t, w, q
  <2>1. /\ Coherent(D, K) /\ D.indices = C.indices \ {C.pairs.last}
        /\ \A j \in D.indices : D.item[j] = C.item[j]
    BY EvictCoherent
  <2>2. D.pairs = remove(C.pairs, C.pairs.last) /\ D.count = C.count - 1
    BY DEF evict, Coherent
  <2> QED
    BY <1>1, <2>1, <2>2 DEF c
<1>3. ListInv(C.pairs) /\ C.pairs.count = c
  BY DEF Coherent
<1> HIDE DEF D, c, o, q
<1>4. ListedAs(D.pairs, t)
  <2>1. c \in 1..C.pairs.count
    BY <1>1, <1>3
  <2> QED
    BY <1>2, <1>3, <2>1, RemoveListing
<1>5. \A j \in 1..(c - 1) : t[j] = s[j]
  BY <1>1 DEF DropAt
<1> HIDE DEF t
<1>6. /\ t \in [1..(c - 1) -> D.indices] /\ q \in Seq(K) /\ Len(q) = c - 1
      /\ \A j \in 1..(c - 1) : q[j] = D.item[t[j]].key
      /\ D.pairs.first = IF c - 1 = 0 THEN NoLink ELSE t[1]
  <2> DEFINE m == c - 1
  <2>1. D.count = m /\ Coherent(D, K) /\ ListedAs(D.pairs, t)
    BY <1>2, <1>4
  <2> HIDE DEF m
  <2>2. /\ t \in [1..m -> D.indices] /\ q \in Seq(K) /\ Len(q) = m
        /\ \A j \in 1..m : q[j] = D.item[t[j]].key
        /\ D.pairs.first = IF m = 0 THEN NoLink ELSE t[1]
    BY <2>1, KeysListed DEF q
  <2> QED
    BY <2>2 DEF m
<1>7. w \in Seq(K) /\ Len(w) = c - 1 /\ \A j \in 1..(c - 1) : w[j] = o[j]
  <2>1. c - 1 \in 0..Len(o)
    BY <1>1
  <2> QED
    BY <1>1, <2>1, PrefixIs
<1> HIDE DEF w
<1>8. ASSUME NEW j \in 1..(c - 1)
      PROVE  q[j] = w[j]
  <2>1. q[j] = C.item[s[j]].key
    BY <1>2, <1>5, <1>6
  <2>2. j \in 1..c
    BY <1>1
  <2> QED
    BY <1>1, <1>7, <2>1, <2>2
<1>9. q = w
  BY <1>6, <1>7, <1>8, SeqEqual
<1>10. c > 1 => D.pairs.first = C.pairs.first
  BY <1>1, <1>5, <1>6
<1> QED
  BY <1>1, <1>4, <1>9, <1>10 DEF q, w, D, o, c

\* insert() puts the new key in front.
LEMMA InsertOrder ==
  ASSUME NEW C, NEW K, Coherent(C, K), NEW k \in K \ Cached(C), NEW b \in Nat,
         NEW s, ListedAs(C.pairs, s)
  PROVE  /\ \E t : ListedAs(insert(C, k, b).pairs, t)
         /\ insert(C, k, b).pairs.first = NewIndex(C.pairs)
         /\ KeysInOrder(insert(C, k, b)) = <<k>> \o KeysInOrder(C)
<1> DEFINE c == C.count
           o == KeysInOrder(C)
           i == NewIndex(C.pairs)
           D == insert(C, k, b)
           q == KeysInOrder(D)
           t == AddAt(s, c, 0, i)
           w == <<k>> \o o
<1>1. /\ c \in Nat /\ o \in Seq(K) /\ Len(o) = c /\ s \in [1..c -> C.indices]
      /\ \A j \in 1..c : o[j] = C.item[s[j]].key
      /\ C.pairs.first = IF c = 0 THEN NoLink ELSE s[1]
  BY KeysListed
<1>2. /\ Coherent(D, K) /\ D.count = c + 1
      /\ D.item[i].key = k
      /\ \A j \in C.indices : D.item[j] = C.item[j]
      /\ D.pairs = insert_before(C.pairs, C.pairs.first)
  <2> HIDE DEF c, o, t, w, q
  <2>1. /\ Coherent(D, K) /\ D.item[i] = [key |-> k, refcount |-> 1, bytes |-> b]
        /\ \A j \in C.indices : D.item[j] = C.item[j]
    BY InsertCoherent
  <2>2. D.pairs = insert_before(C.pairs, C.pairs.first) /\ D.count = C.count + 1
    BY DEF insert, Coherent
  <2> QED
    BY <2>1, <2>2 DEF c
<1>3. ListInv(C.pairs) /\ C.pairs.count = c
  BY DEF Coherent
<1> HIDE DEF D, c, o, q
<1>4. ListedAs(D.pairs, t)
  <2>1. 0 \in 0..C.pairs.count /\ (0 = C.pairs.count => C.pairs.count = 0)
        /\ C.pairs.first = (IF 0 = C.pairs.count THEN NoLink ELSE s[0 + 1])
    BY <1>1, <1>3
  <2> QED
    BY <1>2, <1>3, <2>1, InsertBeforeListing
<1>5. \A j \in 1..(c + 1) : t[j] = IF j = 1 THEN i ELSE s[j - 1]
  BY <1>1 DEF AddAt
<1> HIDE DEF t
<1>6. /\ q \in Seq(K) /\ Len(q) = c + 1
      /\ \A j \in 1..(c + 1) : q[j] = D.item[t[j]].key
      /\ D.pairs.first = IF c + 1 = 0 THEN NoLink ELSE t[1]
  BY <1>2, <1>4, KeysListed DEF q
<1>7. /\ w \in Seq(K) /\ Len(w) = c + 1 /\ w[1] = k
      /\ \A j \in 2..(c + 1) : w[j] = o[j - 1]
  BY <1>1, PutInFront
<1> HIDE DEF w, i
<1>8. ASSUME NEW j \in 1..(c + 1)
      PROVE  q[j] = w[j]
  <2>1. CASE j = 1
    BY <1>2, <1>5, <1>6, <1>7, <2>1
  <2>2. CASE j # 1
    <3>1. j \in 2..(c + 1) /\ j - 1 \in 1..c
      BY <1>1, <2>2
    <3>2. q[j] = C.item[s[j - 1]].key
      <4>1. t[j] = s[j - 1] /\ s[j - 1] \in C.indices /\ q[j] = D.item[t[j]].key
        BY <1>1, <1>5, <1>6, <2>2, <3>1
      <4> QED
        BY <1>2, <4>1
    <3> QED
      BY <1>1, <1>7, <3>1, <3>2
  <2> QED
    BY <2>1, <2>2
<1>9. q = w
  BY <1>6, <1>7, <1>8, SeqEqual
<1>10. D.pairs.first = i
  <2>1. 1 \in 1..(c + 1) /\ c + 1 # 0
    BY <1>1
  <2> QED
    BY <1>5, <1>6, <2>1
<1> QED
  BY <1>4, <1>9, <1>10 DEF q, w, D, o, i

\* The limits of a call are numbers.
CallOK == \/ call = NoCall
          \/ call.op \in {"put", "shrink"} /\ call.size \in Int /\ call.count \in Int
\* What holds for as long as the callers hold one pair at a time and none grows:
\* the pair that is held is the first, size is what the keys take, and the list
\* can be gone through.
SingleOK ==
    /\ OneHeld
    /\ \A k \in Keys : held[k].n > 0 => held[k].at = cache.pairs.first
    /\ \A i \in cache.indices : cache.item[i].bytes = Bytes[cache.item[i].key]
    /\ cache.size = SumFunctionOnSet(Bytes, Cached(cache))
    /\ \E s : ListedAs(cache.pairs, s)
SingleInv == Inv /\ CallOK /\ (single => SingleOK)

\* What the total of the references says of each.
Counted ==
    /\ TotalHeld \in Nat
    /\ \A k \in Keys : held[k].n \in Nat /\ held[k].n <= TotalHeld
    /\ \A k, q \in Keys : k # q => held[k].n + held[q].n <= TotalHeld
    /\ \A k \in Keys : (\A q \in Keys \ {k} : held[q].n = 0) => TotalHeld = held[k].n
    /\ (\A k \in Keys : held[k].n = 0) => TotalHeld = 0

\* TotalHeld is a sum of naturals over the keys.
LEMMA HeldAreCounted == Inv => Counted
<1> SUFFICES ASSUME Inv PROVE Counted
  OBVIOUS
<1> DEFINE f == [k \in Keys |-> held[k].n]
<1>1. TotalHeld = SumFunctionOnSet(f, Keys)
  BY Zenon DEF TotalHeld, SumFunction
<1>2. \A k \in Keys : held[k].n \in Nat /\ f[k] = held[k].n
  BY DEF Inv, TypeOK
<1> HIDE DEF f
<1>3. /\ SumFunctionOnSet(f, Keys) \in Nat
      /\ \A k \in Keys : f[k] <= SumFunctionOnSet(f, Keys)
      /\ (\A k \in Keys : f[k] = 0) => SumFunctionOnSet(f, Keys) = 0
  BY <1>2, SumOfNats, KeysAssumption
<1>4. ASSUME NEW k \in Keys
      PROVE  /\ SumFunctionOnSet(f, Keys) = f[k] + SumFunctionOnSet(f, Keys \ {k})
             /\ SumFunctionOnSet(f, Keys \ {k}) \in Nat
             /\ \A q \in Keys \ {k} : f[q] <= SumFunctionOnSet(f, Keys \ {k})
             /\ (\A q \in Keys \ {k} : f[q] = 0) => SumFunctionOnSet(f, Keys \ {k}) = 0
  <2>1. IsFiniteSet(Keys \ {k}) /\ \A q \in Keys \ {k} : f[q] \in Nat
    BY <1>2, FS_RemoveElement, KeysAssumption
  <2>2. SumFunctionOnSet(f, Keys) = f[k] + SumFunctionOnSet(f, Keys \ {k})
    <3>1. \A q \in Keys : f[q] \in Int
      BY <1>2
    <3> QED
      BY <3>1, SumTake, KeysAssumption
  <2> QED
    BY <2>1, <2>2, SumOfNats
<1>5. \A k, q \in Keys : k # q => held[k].n + held[q].n <= TotalHeld
  <2> SUFFICES ASSUME NEW k \in Keys, NEW q \in Keys, k # q
               PROVE  held[k].n + held[q].n <= TotalHeld
    OBVIOUS
  <2>1. q \in Keys \ {k}
    OBVIOUS
  <2>2. f[q] <= SumFunctionOnSet(f, Keys \ {k}) /\ SumFunctionOnSet(f, Keys \ {k}) \in Nat
    BY <1>4, <2>1
  <2>3. TotalHeld = f[k] + SumFunctionOnSet(f, Keys \ {k})
    BY <1>1, <1>4
  <2> QED
    BY <1>2, <2>2, <2>3
<1>6. \A k \in Keys : (\A q \in Keys \ {k} : held[q].n = 0) => TotalHeld = held[k].n
  <2> SUFFICES ASSUME NEW k \in Keys, \A q \in Keys \ {k} : held[q].n = 0
               PROVE  TotalHeld = held[k].n
    OBVIOUS
  <2>1. SumFunctionOnSet(f, Keys \ {k}) = 0
    BY <1>2, <1>4
  <2>2. TotalHeld = f[k] + SumFunctionOnSet(f, Keys \ {k})
    BY <1>1, <1>4
  <2> QED
    BY <1>2, <2>1, <2>2
<1> QED
  BY <1>1, <1>2, <1>3, <1>5, <1>6 DEF Counted

\* The size of the keys in order is that of the set of them.
LEMMA SizeOfKeys ==
  ASSUME NEW C, Coherent(C, Keys), NEW s, ListedAs(C.pairs, s)
  PROVE  Shown!SizeOf(KeysInOrder(C)) = SumFunctionOnSet(Bytes, Cached(C))
<1> DEFINE o == KeysInOrder(C)
           c == C.count
           f == [j \in 1..c |-> Bytes[o[j]]]
<1>1. /\ c \in Nat /\ o \in Seq(Keys) /\ Len(o) = c
      /\ \A j, m \in 1..c : o[j] = o[m] => j = m
      /\ \A k : k \in Cached(C) <=> \E j \in 1..c : o[j] = k
  BY KeysListed, KeysOnce
<1> HIDE DEF o, c
<1>2. DOMAIN o = 1..c /\ \A j \in 1..c : Bytes[o[j]] \in Int
  BY <1>1, BytesAssumption
<1>3. Shown!SizeOf(o) = SumFunctionOnSet(f, 1..c)
  <2> DEFINE g == [j \in DOMAIN o |-> Bytes[o[j]]]
  <2>1. g = f /\ DOMAIN g = 1..c
    BY <1>2
  <2>2. Shown!SizeOf(o) = SumFunctionOnSet(g, DOMAIN g)
    BY Zenon DEF Shown!SizeOf, Shown!SumFunction, Shown!SumFunctionOnSet, Shown!FoldFunctionOnSet,
       Shown!MapThenFoldSet, SumFunctionOnSet, FoldFunctionOnSet, MapThenFoldSet
  <2> HIDE DEF f, g
  <2> QED
    BY <2>1, <2>2
<1>4. \A j \in 1..c : f[j] = Bytes[o[j]]
  OBVIOUS
<1> HIDE DEF f
<1>5. SumFunctionOnSet(f, 1..c) = SumFunctionOnSet(Bytes, Cached(C))
  <2>1. Relists(f, c, o, Bytes, Cached(C))
    BY <1>1, <1>2, <1>4 DEF Relists
  <2> QED
    BY <1>1, <2>1, SumOfListed
<1> QED
  BY <1>3, <1>5 DEF o

\* While callers hold one pair at a time, it is the only one referenced.
LEMMA RefsSeen ==
  ASSUME Inv, NEW i \in cache.indices
  PROVE  /\ cache.item[i].key \in Keys
         /\ Referenced(cache, i) <=> held[cache.item[i].key].n > 0
         /\ Referenced(cache, i) => held[cache.item[i].key].at = i
<1> DEFINE q == cache.item[i].key
<1>1. q \in Keys
  BY DEF Inv, TypeOK, Coherent
<1>2. CASE held[q].n > 0
  <2>1. held[q].at \in cache.indices /\ cache.item[held[q].at].key = q
        /\ cache.item[held[q].at].refcount = held[q].n
    BY <1>1, <1>2, HeldIsCached
  <2>2. held[q].at = i
    BY <2>1 DEF Inv, TypeOK, Coherent
  <2> QED
    BY <1>1, <1>2, <2>1, <2>2 DEF Referenced
<1>3. CASE ~(held[q].n > 0)
  BY <1>1, <1>3 DEF Inv, HandlesValid
<1> QED
  BY <1>1, <1>2, <1>3

\* A turn of shrink()'s loop is taken as long as the keys do not fit and not
\* only the one that is held is left.
RoomOK ==
    LET o == KeysInOrder(cache)
    IN  /\ o \in Seq(Keys) /\ Len(o) = cache.count
        /\ \A k : k \in Cached(cache) <=> \E j \in 1..cache.count : o[j] = k
        /\ TotalHeld \in 0..Len(o)
        /\ call # NoCall => (MustEvict <=> ~Shown!Fits(o, call.size, call.count) /\ Len(o) # TotalHeld)

\* Of the loop's two conditions one is the size and the count of the keys in
\* order, the other that the last pair is not the one that is held.
LEMMA RoomIsMade ==
  ASSUME Inv, CallOK, SingleOK
  PROVE  RoomOK
<1> DEFINE o == KeysInOrder(cache)
           c == cache.count
<1>1. PICK s : ListedAs(cache.pairs, s)
  BY DEF SingleOK
<1>2. Coherent(cache, Keys) /\ cache.size \in Int
  BY DEF Inv, TypeOK, Coherent
<1>3. /\ c \in Nat /\ s \in [1..c -> cache.indices]
      /\ o \in Seq(Keys) /\ Len(o) = c
      /\ \A k : k \in Cached(cache) <=> \E j \in 1..c : o[j] = k
      /\ cache.pairs.first = IF c = 0 THEN NoLink ELSE s[1]
      /\ cache.pairs.last = IF c = 0 THEN NoLink ELSE s[c]
  <2>1. \A k : k \in Cached(cache) <=> \E j \in 1..c : o[j] = k
    BY <1>1, <1>2, KeysOnce
  <2> QED
    BY <1>1, <1>2, <2>1, KeysListed
<1>4. Shown!SizeOf(o) = cache.size
  BY <1>1, <1>2, SizeOfKeys DEF SingleOK
<1> HIDE DEF o, c
<1>5. Counted /\ TotalHeld <= 1
  <2>1. Counted
    BY HeldAreCounted
  <2> QED
    BY <2>1 DEF SingleOK, OneHeld, Counted
<1>6. TotalHeld \in {0, 1} /\ \A k \in Keys : held[k].n \in {0, 1}
  BY <1>5 DEF Counted
<1>7. \A k \in Keys : held[k].n > 0 => held[k].at = cache.pairs.first /\ held[k].at \in cache.indices /\ cache.item[held[k].at].key = k
  BY HeldIsCached DEF SingleOK
<1>8. ASSUME TotalHeld = 1
      PROVE  \E k \in Keys : held[k].n > 0
  BY <1>5, <1>6, <1>8 DEF Counted
<1>9. NoLink \notin cache.indices
  BY <1>2 DEF Coherent, ListInv, Typed, Links, NoLink
<1>10. TotalHeld = 1 => c # 0
  BY <1>3, <1>7, <1>8, <1>9
<1>11. TotalHeld \in 0..Len(o)
  BY <1>3, <1>6, <1>10
<1>12. MayEvict(cache) <=> c # TotalHeld
  <2>1. CASE c = 0
    BY <1>3, <1>6, <1>10, <2>1 DEF MayEvict
  <2>2. CASE c # 0
    <3> DEFINE i == cache.pairs.last
               q == cache.item[i].key
    <3>1. i = s[c] /\ i \in cache.indices /\ i # NoLink /\ cache.pairs.first = s[1]
      BY <1>3, <1>9, <2>2
    <3>2. q \in Keys /\ (Referenced(cache, i) <=> held[q].n > 0)
      BY <3>1, RefsSeen
    <3> HIDE DEF i, q
    <3>3. ASSUME held[q].n > 0
          PROVE  c = TotalHeld
      <4>1. held[q].at = i
        BY <3>1, <3>2, <3>3, RefsSeen DEF q
      <4>2. s[1] = s[c]
        BY <1>7, <3>1, <3>2, <3>3, <4>1
      <4>3. c = 1
        BY <1>1, <1>2, <1>3, <2>2, <4>2 DEF ListedAs, InOrder, Coherent, c
      <4>4. TotalHeld = 1
        BY <1>5, <1>6, <3>2, <3>3 DEF Counted
      <4> QED
        BY <4>3, <4>4
    <3>4. ASSUME c = TotalHeld
          PROVE  held[q].n > 0
      <4>1. c = 1 /\ TotalHeld = 1
        BY <1>6, <2>2, <3>4
      <4>2. PICK k \in Keys : held[k].n > 0
        BY <1>8, <4>1
      <4>3. held[k].at = i /\ cache.item[i].key = k
        BY <1>7, <3>1, <4>1, <4>2
      <4> QED
        BY <4>2, <4>3 DEF q
    <3> QED
      BY <3>1, <3>2, <3>3, <3>4 DEF MayEvict, i
  <2> QED
    BY <2>1, <2>2
<1>13. call # NoCall => (MustEvict <=> ~Shown!Fits(o, call.size, call.count) /\ Len(o) # TotalHeld)
  <2> SUFFICES ASSUME call # NoCall
               PROVE  MustEvict <=> ~Shown!Fits(o, call.size, call.count) /\ Len(o) # TotalHeld
    OBVIOUS
  <2>1. call.size \in Int /\ call.count \in Int
    BY DEF CallOK
  <2>2. Overfull(cache, call.size, call.count) <=> ~Shown!Fits(o, call.size, call.count)
    <3>1. Shown!Fits(o, call.size, call.count) <=> Shown!SizeOf(o) <= call.size /\ Len(o) <= call.count
      BY Zenon DEF Shown!Fits
    <3> QED
      BY <1>2, <1>3, <1>4, <2>1, <3>1 DEF Overfull, c
  <2> QED
    BY <1>3, <1>12, <2>2 DEF MustEvict
<1> QED
  BY <1>3, <1>11, <1>13 DEF RoomOK, o, c

\* What callers are shown of the cache.
OrderIs ==
    /\ call = NoCall => Order = KeysInOrder(cache) /\ InUse = TotalHeld
    /\ call.op = "shrink" => Order = Kept /\ InUse = TotalHeld
    /\ call.op = "put" => Order = <<call.key>> \o Kept /\ InUse = 1

\* By the kind of the call, before a step and after it.
LEMMA OrderCases == OrderIs
  BY DEF OrderIs, Order, InUse, NoCall

LEMMA OrderPrimed == OrderIs'
  BY OrderCases, PTL

\* The references after a step.
LEMMA CountedPrimed == Inv' => Counted'
  BY HeldAreCounted, PTL

\* The total is of the references alone.
LEMMA SameTotal ==
  ASSUME held' = held
  PROVE  TotalHeld' = TotalHeld
  BY Zenon DEF TotalHeld

\* Steps that leave the cache and the references alone.
LEMMA SameCache ==
  ASSUME SingleOK, OneHeld', UNCHANGED <<cache, held>>
  PROVE  SingleOK'
<1>1. UNCHANGED Cached(cache)
  BY DEF Cached
<1> QED
  BY <1>1 DEF SingleOK

\* Every step keeps the limits of the call numbers.
LEMMA CallStep == SingleInv /\ [Next]_vars => CallOK'
<1> SUFFICES ASSUME SingleInv, [Next]_vars PROVE CallOK'
  OBVIOUS
<1>1. CallOK /\ max_size \in Int /\ max_count \in Int
  BY DEF SingleInv, Inv, TypeOK
<1>2. ASSUME NEW k \in Keys, BeginPut(k) PROVE CallOK'
  <2>1. Bytes[k] \in Int
    BY BytesAssumption
  <2> QED
    BY <1>1, <1>2, <2>1 DEF BeginPut, PutCall, CallOK
<1>3. ASSUME NEW s \in Limits, NEW n \in Counts, BeginShrink(s, n) PROVE CallOK'
  BY <1>3, LimitsAssumption DEF BeginShrink, ShrinkCall, CallOK
<1>4. ASSUME NEW v \in Limits, SetMaxSize(v) PROVE CallOK'
  BY <1>1, <1>4, LimitsAssumption DEF SetMaxSize, ShrinkCall, CallOK
<1>5. ASSUME NEW v \in Counts, SetMaxCount(v) PROVE CallOK'
  BY <1>1, <1>5, LimitsAssumption DEF SetMaxCount, ShrinkCall, CallOK
<1>6. CASE UNCHANGED call
  BY <1>1, <1>6 DEF CallOK
<1>7. CASE call' = NoCall
  BY <1>7 DEF CallOK
<1> QED
  BY <1>2, <1>3, <1>4, <1>5, <1>6, <1>7
     DEF Next, vars, Get, Forget, Grow, Evict, EndPut, EndShrink, Clear

\* get() uses a key: it is the only one held and the first.
LEMMA GetSingle ==
  ASSUME SingleInv, single, NEW k \in Keys, Get(k), Inv', OneHeld'
  PROVE  SingleOK' /\ Recency!Use(k)
<1> DEFINE i == IndexOf(cache, k)
           o == KeysInOrder(cache)
<1>1. /\ i \in cache.indices /\ cache.item[i].key = k
      /\ Coherent(cache, Keys) /\ held \in [Keys -> [n : Nat, at : Int]]
  BY DEF Get, IndexOf, SingleInv, Inv, TypeOK, Coherent
<1>2. /\ cache' = get(cache, i) /\ held' = [held EXCEPT ![k] = [n |-> @.n + 1, at |-> i]]
      /\ UNCHANGED <<max_size, max_count, call>> /\ call = NoCall
  BY DEF Get
<1> HIDE DEF i
<1>3. PICK s : ListedAs(cache.pairs, s)
  BY DEF SingleInv, SingleOK
<1>4. PICK j \in 1..cache.count : s[j] = i
  BY <1>1, <1>3 DEF ListedAs, InOrder, Coherent
<1>5. /\ \E t : ListedAs((cache').pairs, t)
      /\ (cache').pairs.first = i
      /\ KeysInOrder(cache') = <<k>> \o Recency!RemoveAt(o, j)
  BY <1>1, <1>2, <1>3, <1>4, GetOrder
<1>6. /\ (cache').indices = cache.indices /\ (cache').size = cache.size
      /\ \A m \in cache.indices : /\ (cache').item[m].key = cache.item[m].key
                                  /\ (cache').item[m].bytes = cache.item[m].bytes
  <2>1. /\ (cache').indices = cache.indices
        /\ (cache').item = [cache.item EXCEPT ![i].refcount = @ + 1]
    BY <1>1, <1>2, GetCoherent
  <2>2. (cache').size = cache.size
    BY <1>1, <1>2 DEF get, Coherent
  <2> QED
    BY <1>1, <2>1, <2>2 DEF Coherent
<1>7. Cached(cache') = Cached(cache)
  BY <1>6 DEF Cached
<1>8. Counted /\ Counted' /\ TotalHeld' <= 1 /\ call'.op # "put"
  BY <1>2, HeldAreCounted, CountedPrimed DEF SingleInv, OneHeld, NoCall, Counted
<1>9. /\ held'[k].n = held[k].n + 1 /\ held'[k].at = i
      /\ \A q \in Keys \ {k} : held'[q] = held[q]
  BY <1>1, <1>2
<1>10. TotalHeld' = 1 /\ \A q \in Keys : held[q].n = 0 /\ (q # k => held'[q].n = 0)
  <2>1. held'[k].n = 1 /\ held[k].n = 0 /\ TotalHeld' = 1
    BY <1>8, <1>9 DEF Counted
  <2>2. ASSUME NEW q \in Keys, q # k
        PROVE  held'[q].n = 0 /\ held[q].n = 0
    <3>1. held'[q].n + held'[k].n <= TotalHeld' /\ held'[q].n \in Nat
      BY <1>8, <2>2 DEF Counted
    <3> QED
      BY <1>9, <2>1, <2>2, <3>1
  <2> QED
    BY <2>1, <2>2
<1>11. TotalHeld = 0
  BY <1>8, <1>10 DEF Counted
<1>12. SingleOK'
  <2>1. \A q \in Keys : held'[q].n > 0 => held'[q].at = (cache').pairs.first
    <3>1. \A q \in Keys : held'[q].n > 0 => q = k
      BY <1>10
    <3> QED
      BY <1>5, <1>9, <3>1
  <2>2. \A m \in (cache').indices : (cache').item[m].bytes = Bytes[(cache').item[m].key]
    BY <1>6 DEF SingleInv, SingleOK
  <2>3. (cache').size = SumFunctionOnSet(Bytes, Cached(cache'))
    BY <1>6, <1>7 DEF SingleInv, SingleOK
  <2>4. \E t : ListedAs((cache').pairs, t)
    BY <1>5
  <2>5. Cached(cache)' = Cached(cache')
    BY Zenon DEF Cached
  <2> QED
    BY <2>1, <2>2, <2>3, <2>4, <2>5 DEF SingleOK
<1>13. /\ Order = o /\ InUse = 0
       /\ Order' = <<k>> \o Recency!RemoveAt(o, j) /\ InUse' = 1
  BY <1>2, <1>5, <1>10, <1>11, OrderCases, OrderPrimed, Zenon DEF OrderIs
<1>14. j \in DOMAIN o /\ o[j] = k
  BY <1>1, <1>3, <1>4, KeysListed
<1>15. Recency!Use(k)
  BY <1>2, <1>13, <1>14, Zenon DEF Recency!Use
<1> QED
  BY <1>12, <1>15

\* A put() is shown when it begins: the keys that will go are gone.
LEMMA BeginPutSingle ==
  ASSUME SingleInv, single, NEW k \in Keys, BeginPut(k), Inv', OneHeld'
  PROVE  SingleOK' /\ Recency!Put(k)
<1> DEFINE o == KeysInOrder(cache)
<1>1. /\ call = NoCall /\ IndexOf(cache, k) = NoLink
      /\ call' = PutCall(k) /\ UNCHANGED <<cache, max_size, max_count, held>>
  BY DEF BeginPut
<1>2. call'.op = "put" /\ call'.key = k /\ call'.size = max_size - Bytes[k] /\ call'.count = max_count - 1
  BY <1>1 DEF PutCall
<1>3. TotalHeld' = TotalHeld
  BY <1>1, SameTotal
<1>4. TotalHeld = 0
  <2>1. TotalHeld \in Nat /\ TotalHeld' + 1 <= 1
    BY <1>2, HeldAreCounted DEF SingleInv, OneHeld, Counted
  <2> QED
    BY <1>3, <2>1
<1>5. SingleOK'
  BY <1>1, SameCache DEF SingleInv
<1>6. RoomOK
  BY RoomIsMade DEF SingleInv
<1>7. k \notin Cached(cache)
  <2>1. NoLink \notin cache.indices
    BY DEF SingleInv, Inv, TypeOK, Coherent, ListInv, Typed, Links, NoLink
  <2> QED
    BY <1>1, <2>1 DEF IndexOf, Cached
<1>8. Order = o /\ InUse = 0
  BY <1>1, <1>4, OrderCases, Zenon DEF OrderIs
<1>9. k \notin Recency!Members
  <2>1. \A j \in DOMAIN o : o[j] # k
    BY <1>6, <1>7 DEF RoomOK
  <2> QED
    BY <1>8, <2>1, Zenon DEF Recency!Members
<1>10. Kept' = Recency!Fit(o, max_size - Bytes[k], max_count - 1, 0)
  <2>1. Kept' = Shown!Fit(KeysInOrder(cache)', call'.size, call'.count, TotalHeld')
    BY Zenon DEF Kept
  <2>2. KeysInOrder(cache)' = o
    BY <1>1, Zenon
  <2>3. Kept' = Shown!Fit(o, max_size - Bytes[k], max_count - 1, 0)
    BY <1>2, <1>3, <1>4, <2>1, <2>2, Zenon
  <2> QED
    BY <2>3, FitIsFit, Zenon
<1>11. Order' = <<k>> \o Kept' /\ InUse' = 1
  BY <1>2, OrderPrimed, Zenon DEF OrderIs
<1> HIDE DEF o
<1>12. Recency!Put(k)
  BY <1>1, <1>8, <1>9, <1>10, <1>11, Zenon DEF Recency!Put
<1> QED
  BY <1>5, <1>12

\* shrink() and the changes of the limits.
LEMMA BeginShrinkSingle ==
  ASSUME SingleInv, single, Inv', OneHeld', NEW s, NEW n, call = NoCall,
         call' = ShrinkCall(s, n), UNCHANGED <<cache, held>>
  PROVE  /\ SingleOK'
         /\ Order' = Recency!Fit(Order, s, n, InUse)
         /\ InUse' = InUse
<1>1. call'.op = "shrink" /\ call'.size = s /\ call'.count = n
  BY DEF ShrinkCall
<1>2. TotalHeld' = TotalHeld /\ KeysInOrder(cache)' = KeysInOrder(cache)
  BY SameTotal, Zenon
<1>3. SingleOK'
  BY SameCache DEF SingleInv
<1>4. Order = KeysInOrder(cache) /\ InUse = TotalHeld
  BY OrderCases, Zenon DEF OrderIs
<1>5. Kept' = Shown!Fit(KeysInOrder(cache)', call'.size, call'.count, TotalHeld')
  BY Zenon DEF Kept
<1>6. Kept' = Recency!Fit(Order, s, n, InUse)
  BY <1>1, <1>2, <1>4, <1>5, FitIsFit, Zenon
<1>7. Order' = Kept' /\ InUse' = TotalHeld'
  BY <1>1, OrderPrimed, Zenon DEF OrderIs
<1> QED
  BY <1>2, <1>3, <1>4, <1>6, <1>7, Zenon

\* A turn of the loop changes nothing that callers are shown: the pair that
\* goes did not fit.
LEMMA EvictSingle ==
  ASSUME SingleInv, single, Evict, Inv', OneHeld'
  PROVE  SingleOK' /\ Order' = Order /\ InUse' = InUse
<1> DEFINE o == KeysInOrder(cache)
           c == cache.count
           i == cache.pairs.last
<1>1. /\ call # NoCall /\ MustEvict /\ MayEvict(cache) /\ cache' = evict(cache)
      /\ UNCHANGED <<held, call>>
      /\ Coherent(cache, Keys) /\ CallOK /\ SingleOK
  BY DEF Evict, MustEvict, SingleInv, Inv, TypeOK
<1>2. PICK s : ListedAs(cache.pairs, s)
  BY <1>1 DEF SingleOK
<1>3. /\ \E t : ListedAs(evict(cache).pairs, t)
      /\ c > 0
      /\ c > 1 => evict(cache).pairs.first = cache.pairs.first
      /\ KeysInOrder(evict(cache)) = SubSeq(o, 1, c - 1)
  BY <1>1, <1>2, EvictOrder
<1>4. RoomOK
  BY <1>1, RoomIsMade DEF SingleInv
<1> HIDE DEF o
<1>5. /\ o \in Seq(Keys) /\ Len(o) = c /\ TotalHeld \in 0..(Len(o) - 1)
      /\ ~Shown!Fits(o, call.size, call.count)
  <2>1. /\ o \in Seq(Keys) /\ Len(o) = c /\ TotalHeld \in 0..Len(o) /\ Len(o) # TotalHeld
        /\ ~Shown!Fits(o, call.size, call.count)
    BY <1>1, <1>4 DEF RoomOK, o
  <2> QED
    BY <2>1
<1>6. TotalHeld' = TotalHeld
  BY <1>1, SameTotal
<1>7. Kept' = Kept
  <2>1. Kept' = Shown!Fit(KeysInOrder(cache)', call'.size, call'.count, TotalHeld')
    BY Zenon DEF Kept
  <2>2. KeysInOrder(cache)' = KeysInOrder(evict(cache))
    BY <1>1, Zenon DEF KeysInOrder
  <2>3. Kept' = Shown!Fit(SubSeq(o, 1, Len(o) - 1), call.size, call.count, TotalHeld)
    BY <1>1, <1>3, <1>5, <1>6, <2>1, <2>2, Zenon
  <2>4. Kept = Shown!Fit(o, call.size, call.count, TotalHeld)
    BY Zenon DEF Kept, o
  <2> QED
    BY <1>5, <2>3, <2>4, FitFewer
<1>8. Order' = Order /\ InUse' = InUse
  <2>1. call.op \in {"put", "shrink"} /\ call' = call
    BY <1>1 DEF CallOK
  <2> QED
    BY <1>6, <1>7, <2>1, OrderCases, OrderPrimed DEF OrderIs
<1>9. \A k \in Keys : held'[k].n > 0 => held'[k].at = (cache').pairs.first
  <2> SUFFICES ASSUME NEW k \in Keys, held'[k].n > 0
               PROVE  held'[k].at = (cache').pairs.first
    OBVIOUS
  <2>1. held[k].n > 0 /\ held'[k].at = held[k].at
    BY <1>1
  <2>2. held[k].n \in Nat /\ held[k].n <= TotalHeld
    BY HeldAreCounted DEF SingleInv, Counted
  <2>3. c > 1
    BY <1>5, <2>1, <2>2
  <2> QED
    BY <1>1, <1>3, <2>1, <2>3 DEF SingleOK
<1>10. /\ i \in cache.indices /\ (cache').indices = cache.indices \ {i}
       /\ \A j \in (cache').indices : (cache').item[j] = cache.item[j]
  BY <1>1, EvictCoherent
<1>11. \A j \in (cache').indices : (cache').item[j].bytes = Bytes[(cache').item[j].key]
  BY <1>1, <1>10 DEF SingleOK
<1>12. (cache').size = SumFunctionOnSet(Bytes, Cached(cache'))
  <2> DEFINE k == cache.item[i].key
  <2>1. (cache').size = cache.size - Bytes[k]
    <3>1. (cache').size = cache.size - cache.item[i].bytes
      BY <1>1 DEF evict, Coherent
    <3> QED
      BY <1>1, <1>10, <3>1 DEF SingleOK
  <2>2. Cached(cache') = Cached(cache) \ {k} /\ k \in Cached(cache) /\ Cached(cache) \subseteq Keys
    BY <1>1, <1>10 DEF Cached, Coherent
  <2> HIDE DEF k
  <2>3. IsFiniteSet(Cached(cache)) /\ \A x \in Cached(cache) : Bytes[x] \in Int
    BY <2>2, FS_Subset, KeysAssumption, BytesAssumption
  <2>4. SumFunctionOnSet(Bytes, Cached(cache)) = Bytes[k] + SumFunctionOnSet(Bytes, Cached(cache) \ {k})
    BY <2>2, <2>3, SumTake
  <2>5. SumFunctionOnSet(Bytes, Cached(cache) \ {k}) \in Int
    <3>1. IsFiniteSet(Cached(cache) \ {k})
      BY <2>3, FS_RemoveElement
    <3> QED
      BY <2>3, <3>1, SumTake
  <2> QED
    BY <1>1, <2>1, <2>2, <2>3, <2>4, <2>5 DEF SingleOK
<1>13. SingleOK'
  <2>1. Cached(cache)' = Cached(cache')
    BY Zenon DEF Cached
  <2> QED
    BY <1>1, <1>3, <1>9, <1>11, <1>12, <2>1 DEF SingleOK
<1> QED
  BY <1>8, <1>13

\* The return of shrink(): what it had to drop is gone.
LEMMA EndShrinkSingle ==
  ASSUME SingleInv, single, EndShrink, Inv', OneHeld'
  PROVE  SingleOK' /\ Order' = Order /\ InUse' = InUse
<1> DEFINE o == KeysInOrder(cache)
<1>1. call.op = "shrink" /\ call # NoCall /\ ~MustEvict /\ call' = NoCall /\ UNCHANGED <<cache, held>>
  BY DEF EndShrink, NoCall
<1>2. SingleOK'
  BY <1>1, SameCache DEF SingleInv
<1>3. RoomOK
  BY RoomIsMade DEF SingleInv
<1> HIDE DEF o
<1>4. /\ o \in Seq(Keys) /\ TotalHeld \in 0..Len(o)
      /\ Shown!Fits(o, call.size, call.count) \/ Len(o) = TotalHeld
  BY <1>1, <1>3 DEF RoomOK, o
<1>5. Kept = o
  <2>1. Kept = Shown!Fit(o, call.size, call.count, TotalHeld)
    BY Zenon DEF Kept, o
  <2> QED
    BY <1>4, <2>1, FitWhole
<1>6. TotalHeld' = TotalHeld /\ KeysInOrder(cache)' = o
  BY <1>1, SameTotal, Zenon DEF o
<1> QED
  BY <1>1, <1>2, <1>5, <1>6, OrderCases, OrderPrimed, Zenon DEF OrderIs

\* The return of put(): the new pair is the most recent.
LEMMA EndPutSingle ==
  ASSUME SingleInv, single, EndPut, Inv', OneHeld'
  PROVE  SingleOK' /\ Order' = Order /\ InUse' = InUse
<1> DEFINE o == KeysInOrder(cache)
           k == call.key
           i == NewIndex(cache.pairs)
<1>1. /\ call.op = "put" /\ call # NoCall /\ ~MustEvict
      /\ cache' = insert(cache, k, Bytes[k])
      /\ held' = [held EXCEPT ![k] = [n |-> 1, at |-> i]] /\ call' = NoCall
      /\ Coherent(cache, Keys) /\ held \in [Keys -> [n : Nat, at : Int]]
      /\ k \in Keys \ Cached(cache) /\ SingleOK
  BY DEF EndPut, NoCall, SingleInv, Inv, TypeOK
<1> HIDE DEF k, i
<1>2. PICK s : ListedAs(cache.pairs, s)
  BY <1>1 DEF SingleOK
<1>3. Bytes[k] \in Nat
  BY <1>1, BytesAssumption
<1>4. /\ \E t : ListedAs((cache').pairs, t)
      /\ (cache').pairs.first = i
      /\ KeysInOrder(cache') = <<k>> \o o
  BY <1>1, <1>2, <1>3, InsertOrder DEF i
<1>5. /\ i \notin cache.indices /\ (cache').indices = cache.indices \cup {i}
      /\ (cache').item[i] = [key |-> k, refcount |-> 1, bytes |-> Bytes[k]]
      /\ \A j \in cache.indices : (cache').item[j] = cache.item[j]
  BY <1>1, <1>3, InsertCoherent DEF i
<1>6. RoomOK
  BY RoomIsMade DEF SingleInv
<1>7. TotalHeld = 0 /\ \A q \in Keys : held[q].n = 0
  <2>1. Counted
    BY HeldAreCounted DEF SingleInv
  <2>2. TotalHeld = 0
    BY <1>1, <2>1 DEF SingleOK, OneHeld, Counted
  <2> QED
    BY <2>1, <2>2 DEF Counted
<1>8. TotalHeld' = 1 /\ held'[k].at = i /\ \A q \in Keys : held'[q].n > 0 => q = k
  <2>1. /\ held'[k].n = 1 /\ held'[k].at = i /\ \A q \in Keys \ {k} : held'[q].n = 0
    BY <1>1, <1>7
  <2>2. Counted'
    BY CountedPrimed
  <2>3. TotalHeld' = held'[k].n
    BY <1>1, <2>1, <2>2 DEF Counted
  <2> QED
    BY <2>1, <2>3
<1> HIDE DEF o
<1>9. /\ o \in Seq(Keys) /\ TotalHeld \in 0..Len(o)
      /\ Shown!Fits(o, call.size, call.count) \/ Len(o) = TotalHeld
  BY <1>1, <1>6 DEF RoomOK, o
<1>10. Kept = o
  <2>1. Kept = Shown!Fit(o, call.size, call.count, TotalHeld)
    BY Zenon DEF Kept, o
  <2> QED
    BY <1>9, <2>1, FitWhole
<1>11. Order = <<k>> \o o /\ InUse = 1
  BY <1>1, <1>10, OrderCases, Zenon DEF OrderIs, k
<1>12. Order' = <<k>> \o o /\ InUse' = 1
  <2>1. Order' = KeysInOrder(cache)' /\ InUse' = TotalHeld'
    BY <1>1, OrderPrimed, Zenon DEF OrderIs
  <2>2. KeysInOrder(cache)' = KeysInOrder(cache')
    BY Zenon DEF KeysInOrder
  <2> QED
    BY <1>4, <1>8, <2>1, <2>2, Zenon
<1>13. \A j \in (cache').indices : (cache').item[j].bytes = Bytes[(cache').item[j].key]
  BY <1>1, <1>5 DEF SingleOK
<1>14. (cache').size = SumFunctionOnSet(Bytes, Cached(cache'))
  <2> DEFINE T == Cached(cache) \cup {k}
  <2>1. (cache').size = cache.size + Bytes[k]
    BY <1>1 DEF insert, Coherent
  <2>2. Cached(cache') = T
    BY <1>5 DEF Cached
  <2>3. T \subseteq Keys /\ k \in T /\ T \ {k} = Cached(cache)
    BY <1>1 DEF Cached, Coherent
  <2> HIDE DEF T
  <2>4. IsFiniteSet(T) /\ \A x \in T : Bytes[x] \in Int
    BY <2>3, FS_Subset, KeysAssumption, BytesAssumption
  <2>5. SumFunctionOnSet(Bytes, T) = Bytes[k] + SumFunctionOnSet(Bytes, Cached(cache))
    <3>1. SumFunctionOnSet(Bytes, T) = Bytes[k] + SumFunctionOnSet(Bytes, T \ {k})
      BY <2>3, <2>4, SumTake
    <3> QED
      BY <2>3, <3>1
  <2>6. cache.size \in Int /\ cache.size = SumFunctionOnSet(Bytes, Cached(cache))
    BY <1>1 DEF SingleOK, Coherent
  <2> QED
    BY <1>3, <2>1, <2>2, <2>5, <2>6
<1>15. SingleOK'
  <2>1. Cached(cache)' = Cached(cache')
    BY Zenon DEF Cached
  <2>2. \A q \in Keys : held'[q].n > 0 => held'[q].at = (cache').pairs.first
    BY <1>4, <1>8
  <2> QED
    BY <1>4, <1>13, <1>14, <2>1, <2>2 DEF SingleOK
<1> QED
  BY <1>11, <1>12, <1>15

\* A cache whose list, size, indices and keys stay has the same keys in order.
LEMMA SameOrder ==
  ASSUME NEW C, NEW D, NEW K, Coherent(C, K), Coherent(D, K), NEW s, ListedAs(C.pairs, s),
         D.pairs = C.pairs, \A i \in C.indices : D.item[i].key = C.item[i].key
  PROVE  KeysInOrder(D) = KeysInOrder(C)
<1> DEFINE o == KeysInOrder(C)
           q == KeysInOrder(D)
           c == C.count
<1>1. D.count = c
  BY DEF Coherent
<1>2. /\ o \in Seq(K) /\ Len(o) = c /\ s \in [1..c -> C.indices]
      /\ \A j \in 1..c : o[j] = C.item[s[j]].key
  BY KeysListed
<1>3. /\ q \in Seq(K) /\ Len(q) = c /\ \A j \in 1..c : q[j] = D.item[s[j]].key
  <2> HIDE DEF q
  <2>1. ListedAs(D.pairs, s)
    OBVIOUS
  <2>2. /\ q \in Seq(K) /\ Len(q) = D.count /\ \A j \in 1..D.count : q[j] = D.item[s[j]].key
    BY <2>1, KeysListed DEF q
  <2> QED
    BY <1>1, <2>2
<1> HIDE DEF o, q, c
<1>4. \A j \in 1..c : q[j] = o[j]
  BY <1>2, <1>3
<1>5. q = o
  BY <1>2, <1>3, <1>4, SeqEqual
<1> QED
  BY <1>5 DEF o, q

\* forget() of the one pair held leaves the list as it is.
LEMMA ForgetSingle ==
  ASSUME SingleInv, single, NEW k \in Keys, Forget(k), Inv', OneHeld'
  PROVE  SingleOK' /\ Recency!Release
<1> DEFINE i == held[k].at
<1>1. /\ call = NoCall /\ held[k].n > 0 /\ cache' = forget(cache, i)
      /\ held' = [held EXCEPT ![k] = IF @.n = 1 THEN NotHeld ELSE [n |-> @.n - 1, at |-> @.at]]
      /\ UNCHANGED <<max_size, max_count, call>>
      /\ Coherent(cache, Keys) /\ held \in [Keys -> [n : Nat, at : Int]]
      /\ SingleOK /\ Inv
  BY DEF Forget, SingleInv, Inv, TypeOK
<1> HIDE DEF i
<1>2. PICK s : ListedAs(cache.pairs, s)
  BY <1>1 DEF SingleOK
<1>3. Counted /\ Counted'
  BY <1>1, HeldAreCounted, CountedPrimed
<1>4. TotalHeld = 1 /\ held[k].n = 1 /\ \A q \in Keys \ {k} : held[q].n = 0
  <2>1. TotalHeld <= 1
    <3>1. TotalHeld + 0 <= 1
      BY <1>1 DEF SingleOK, OneHeld, NoCall
    <3> QED
      BY <1>3, <3>1 DEF Counted
  <2>2. held[k].n = 1 /\ TotalHeld = 1
    BY <1>1, <1>3, <2>1 DEF Counted
  <2>3. ASSUME NEW q \in Keys \ {k}
        PROVE  held[q].n = 0
    <3>1. held[k].n + held[q].n <= TotalHeld /\ held[q].n \in Nat
      BY <1>3 DEF Counted
    <3> QED
      BY <2>2, <3>1
  <2> QED
    BY <2>2, <2>3
<1>5. TotalHeld' = 0 /\ \A q \in Keys : held'[q].n = 0
  <2>1. \A q \in Keys : held'[q].n = 0
    BY <1>1, <1>4 DEF NotHeld
  <2> QED
    BY <1>3, <2>1 DEF Counted
<1>6. i \in cache.indices /\ cache.item[i].refcount = 1
  BY <1>1, <1>4, HeldIsCached DEF i
<1>7. cache.first_active_index = NoLink \/ cache.first_active_index = i
  <2>1. cache.first_active_index # NoLink =>
           \E q \in Keys : held[q].n > 0 /\ held[q].at = cache.first_active_index
    BY <1>1 DEF Inv, ActiveIsHeld
  <2>2. \A q \in Keys : held[q].n > 0 => q = k
    BY <1>4
  <2> QED
    BY <2>1, <2>2 DEF i
<1>8. /\ (cache').indices = cache.indices
      /\ (cache').item = [cache.item EXCEPT ![i].refcount = @ - 1]
  <2>1. Referenced(cache, i) /\ cache.first_active_index \in cache.indices \cup {NoLink}
    BY <1>6, <1>7 DEF Referenced
  <2> QED
    BY <1>1, <1>6, <2>1, ForgetCoherent
<1>9. (cache').pairs = cache.pairs /\ (cache').size = cache.size
  BY <1>1, <1>6, <1>7 DEF forget, Referenced, Coherent
<1>10. \A m \in cache.indices : /\ (cache').item[m].key = cache.item[m].key
                                /\ (cache').item[m].bytes = cache.item[m].bytes
  BY <1>1, <1>6, <1>8 DEF Coherent
<1>11. KeysInOrder(cache)' = KeysInOrder(cache)
  <2>1. Coherent(cache', Keys)
    BY DEF Inv, TypeOK
  <2>2. KeysInOrder(cache') = KeysInOrder(cache)
    BY <1>1, <1>2, <1>9, <1>10, <2>1, SameOrder
  <2> QED
    BY <2>2, Zenon DEF KeysInOrder
<1>12. SingleOK'
  <2>1. Cached(cache') = Cached(cache) /\ Cached(cache)' = Cached(cache')
    BY <1>8, <1>10 DEF Cached
  <2>2. \A q \in Keys : held'[q].n > 0 => held'[q].at = (cache').pairs.first
    BY <1>5
  <2>3. \A m \in (cache').indices : (cache').item[m].bytes = Bytes[(cache').item[m].key]
    BY <1>1, <1>8, <1>10 DEF SingleOK
  <2> QED
    BY <1>1, <1>2, <1>9, <2>1, <2>2, <2>3 DEF SingleOK
<1>13. Order' = Order /\ InUse = 1 /\ InUse' = 0
  BY <1>1, <1>4, <1>5, <1>11, OrderCases, OrderPrimed, Zenon DEF OrderIs
<1>14. Recency!Release
  BY <1>1, <1>13, Zenon DEF Recency!Release
<1> QED
  BY <1>12, <1>14

\* The cache that init() makes.
LEMMA NothingCached ==
  /\ KeysInOrder(init) = << >>
  /\ \A i \in init.indices : init.item[i].bytes = Bytes[init.item[i].key]
  /\ init.size = SumFunctionOnSet(Bytes, Cached(init))
  /\ \E s : ListedAs(init.pairs, s)
<1> DEFINE s == [j \in 1..0 |-> 0]
<1>1. /\ ListInv(init.pairs) /\ Links(init.pairs) = {} /\ init.pairs.count = 0 /\ init.indices = {}
      /\ init.pairs.first = NoLink /\ init.pairs.last = NoLink /\ init.size = 0 /\ init.count = 0
  BY EmptyInv DEF Links, Slots, empty, init
<1>2. Coherent(init, Keys)
  BY <1>1 DEF Coherent, init
<1>3. ListedAs(init.pairs, s)
  BY <1>1 DEF ListedAs, InOrder
<1> HIDE DEF s
<1>4. KeysInOrder(init) = << >>
  <2>1. KeysInOrder(init) \in Seq(Keys) /\ Len(KeysInOrder(init)) = init.count
    BY <1>2, <1>3, KeysListed
  <2> QED
    BY <1>1, <2>1, EmptySeq
<1>5. Cached(init) = {}
  BY <1>1 DEF Cached
<1>6. init.size = SumFunctionOnSet(Bytes, Cached(init))
  BY <1>1, <1>5, SumEmpty
<1> QED
  BY <1>1, <1>3, <1>4, <1>6

\* The initial states are those of RecencyOrder.
LEMMA InitSingle == SingleInit => SingleInv /\ Recency!Init
<1> SUFFICES ASSUME SingleInit PROVE SingleInv /\ Recency!Init
  OBVIOUS
<1>1. /\ cache = init /\ max_size \in Limits /\ max_count \in Counts
      /\ held = [k \in Keys |-> NotHeld] /\ call = NoCall
  BY DEF SingleInit, Init
<1>2. Inv
  BY InitInv DEF SingleInit
<1>3. \A k \in Keys : held[k].n = 0
  BY <1>1 DEF NotHeld
<1>4. TotalHeld = 0
  BY <1>2, <1>3, HeldAreCounted DEF Counted
<1>5. OneHeld
  BY <1>1, <1>4 DEF OneHeld, NoCall
<1>6. SingleOK
  <2>1. \A k \in Keys : held[k].n > 0 => held[k].at = cache.pairs.first
    BY <1>3
  <2> QED
    BY <1>1, <1>5, <2>1, NothingCached DEF SingleOK
<1>7. Order = << >> /\ InUse = 0
  BY <1>1, <1>4, NothingCached, OrderCases, Zenon DEF OrderIs
<1>8. Recency!Init
  BY <1>1, <1>7, Zenon DEF Recency!Init
<1> QED
  BY <1>1, <1>2, <1>6, <1>8 DEF SingleInv, CallOK

\* clear() drops all the keys.
LEMMA ClearSingle ==
  ASSUME SingleInv, single, Clear, Inv', OneHeld'
  PROVE  SingleOK' /\ Recency!Clear
<1>1. /\ cache' = init /\ held' = [k \in Keys |-> NotHeld] /\ call' = NoCall
      /\ UNCHANGED <<max_size, max_count>>
  BY DEF Clear
<1>2. \A k \in Keys : held'[k].n = 0
  BY <1>1 DEF NotHeld
<1>3. TotalHeld' = 0
  BY <1>2, CountedPrimed DEF Counted
<1>4. SingleOK'
  <2>1. \A k \in Keys : held'[k].n > 0 => held'[k].at = (cache').pairs.first
    BY <1>2
  <2>2. Cached(cache)' = Cached(init)
    BY <1>1, Zenon DEF Cached
  <2> QED
    BY <1>1, <2>1, <2>2, NothingCached DEF SingleOK
<1>5. Order' = << >> /\ InUse' = 0
  <2>1. KeysInOrder(cache)' = KeysInOrder(init)
    BY <1>1, Zenon DEF KeysInOrder
  <2> QED
    BY <1>1, <1>3, <2>1, NothingCached, OrderPrimed, Zenon DEF OrderIs
<1>6. Recency!Clear
  BY <1>1, <1>5, Zenon DEF Recency!Clear
<1> QED
  BY <1>4, <1>6

\* Each step is one of RecencyOrder or leaves what callers are shown.
LEMMA NextSingle ==
  ASSUME SingleInv, single, StaysSingle, Next, Inv'
  PROVE  SingleOK' /\ [Recency!Next]_Recency!vars
<1>1. OneHeld' /\ \A k \in Keys : ~Grow(k)
  BY DEF StaysSingle
<1>2. ASSUME UNCHANGED <<max_size, max_count>>, Order' = Order, InUse' = InUse
      PROVE  [Recency!Next]_Recency!vars
  BY <1>2, Zenon DEF Recency!vars
<1>3. ASSUME NEW k \in Keys, Get(k) \/ BeginPut(k) \/ Forget(k)
      PROVE  SingleOK' /\ [Recency!Next]_Recency!vars
  <2>1. CASE Get(k)
    BY <1>1, <2>1, GetSingle, Zenon DEF Recency!Next
  <2>2. CASE BeginPut(k)
    BY <1>1, <2>2, BeginPutSingle, Zenon DEF Recency!Next
  <2>3. CASE Forget(k)
    BY <1>1, <2>3, ForgetSingle, Zenon DEF Recency!Next
  <2> QED
    BY <1>3, <2>1, <2>2, <2>3
<1>4. ASSUME NEW s \in Limits, NEW n \in Counts, BeginShrink(s, n)
      PROVE  SingleOK' /\ [Recency!Next]_Recency!vars
  <2>1. /\ call = NoCall /\ call' = ShrinkCall(s, n)
        /\ UNCHANGED <<cache, held>> /\ UNCHANGED <<max_size, max_count>>
    BY <1>4 DEF BeginShrink
  <2>2. SingleOK' /\ Order' = Recency!Fit(Order, s, n, InUse) /\ InUse' = InUse
    BY <1>1, <2>1, BeginShrinkSingle
  <2>3. Recency!Shrink(s, n)
    BY <2>1, <2>2, Zenon DEF Recency!Shrink
  <2> QED
    BY <2>2, <2>3, Zenon DEF Recency!Next
<1>5. ASSUME NEW v \in Limits, SetMaxSize(v)
      PROVE  SingleOK' /\ [Recency!Next]_Recency!vars
  <2>1. /\ call = NoCall /\ call' = ShrinkCall(v, max_count)
        /\ max_size' = v /\ max_count' = max_count /\ UNCHANGED <<cache, held>>
    BY <1>5 DEF SetMaxSize
  <2>2. SingleOK' /\ Order' = Recency!Fit(Order, v, max_count, InUse) /\ InUse' = InUse
    BY <1>1, <2>1, BeginShrinkSingle
  <2>3. Recency!Resize(v, max_count)
    BY <2>1, <2>2, Zenon DEF Recency!Resize
  <2> QED
    BY <2>2, <2>3, Zenon DEF Recency!Next
<1>6. ASSUME NEW v \in Counts, SetMaxCount(v)
      PROVE  SingleOK' /\ [Recency!Next]_Recency!vars
  <2>1. /\ call = NoCall /\ call' = ShrinkCall(max_size, v)
        /\ max_size' = max_size /\ max_count' = v /\ UNCHANGED <<cache, held>>
    BY <1>6 DEF SetMaxCount
  <2>2. SingleOK' /\ Order' = Recency!Fit(Order, max_size, v, InUse) /\ InUse' = InUse
    BY <1>1, <2>1, BeginShrinkSingle
  <2>3. Recency!Resize(max_size, v)
    BY <2>1, <2>2, Zenon DEF Recency!Resize
  <2> QED
    BY <2>2, <2>3, Zenon DEF Recency!Next
<1>7. CASE Evict
  BY <1>1, <1>2, <1>7, EvictSingle DEF Evict
<1>8. CASE EndPut
  BY <1>1, <1>2, <1>8, EndPutSingle DEF EndPut
<1>9. CASE EndShrink
  BY <1>1, <1>2, <1>9, EndShrinkSingle DEF EndShrink
<1>10. CASE Clear
  BY <1>1, <1>10, ClearSingle, Zenon DEF Recency!Next
<1> QED
  BY <1>1, <1>3, <1>4, <1>5, <1>6, <1>7, <1>8, <1>9, <1>10, Zenon DEF Next

\* So do steps of the history variable alone.
LEMMA StutterSingle ==
  ASSUME SingleInv, single, UNCHANGED vars
  PROVE  SingleOK' /\ UNCHANGED Recency!vars
<1>1. UNCHANGED <<cache, held, call, max_size, max_count>>
  BY DEF vars
<1>2. TotalHeld' = TotalHeld
  BY <1>1, SameTotal
<1>3. SingleOK'
  <2>1. OneHeld'
    BY <1>1, <1>2 DEF SingleInv, SingleOK, OneHeld
  <2> QED
    BY <1>1, <2>1, SameCache DEF SingleInv
<1>4. Order' = Order
  BY <1>1, Zenon DEF Order, Kept, KeysInOrder, TotalHeld
<1>5. InUse' = InUse
  BY <1>1, <1>2, Zenon DEF InUse
<1> QED
  BY <1>1, <1>3, <1>4, <1>5, Zenon DEF Recency!vars

\* The invariant is kept whether or not the callers go on holding one pair.
LEMMA SingleStep ==
  SingleInv /\ [SingleNext]_<<vars, single>> =>
     SingleInv' /\ (single' => [Recency!Next]_Recency!vars)
<1> SUFFICES ASSUME SingleInv, [SingleNext]_<<vars, single>>
             PROVE  SingleInv' /\ (single' => [Recency!Next]_Recency!vars)
  OBVIOUS
<1>1. [Next]_vars /\ Inv
  BY DEF SingleNext, SingleInv
<1>2. Inv' /\ CallOK'
  BY <1>1, StepKeepsInv, CallStep
<1>3. ASSUME single'
      PROVE  SingleOK' /\ [Recency!Next]_Recency!vars
  <2>1. CASE SingleNext
    <3>1. Next /\ single /\ StaysSingle
      BY <1>3, <2>1 DEF SingleNext
    <3> QED
      BY <1>2, <3>1, NextSingle
  <2>2. CASE UNCHANGED <<vars, single>>
    <3>1. single /\ UNCHANGED vars
      BY <1>3, <2>2
    <3> QED
      BY <3>1, StutterSingle
  <2> QED
    BY <2>1, <2>2
<1> QED
  BY <1>2, <1>3 DEF SingleInv

\* To callers that hold one pair at a time the cache is the abstract one, for any
\* keys, sizes, limits and counts: what goes is what was used longest ago, and
\* no more of it than has to (lrucache.t:160-225).
THEOREM SingleCallersSeeLRU == SingleSpec => SingleKeepsRecency
<1>1. SingleInit => SingleInv /\ Recency!Init
  BY InitSingle
<1>2. SingleInv /\ [SingleNext]_<<vars, single>> => SingleInv'
  BY SingleStep
<1>3. SingleInv /\ [SingleNext]_<<vars, single>> =>
         [single' => [Recency!Next]_Recency!vars]_<<vars, single>>
  BY SingleStep
<1> QED
  BY <1>1, <1>2, <1>3, PTL DEF SingleSpec, SingleKeepsRecency
-------------------------------------------------------------------------------
(***************************************************************************)
(* shrink() is a recursion over the number of pairs: what it makes of a    *)
(* cache is found by induction over the turns of its loop (SetInduction).  *)
(***************************************************************************)
\* One turn of the loop of shrink(), and runs of n turns.
Turn(C, size, count) == IF Overfull(C, size, count) /\ MayEvict(C) THEN evict(C) ELSE C
IsRun(f, n, C, size, count) ==
    /\ f[0] = C
    /\ \A m \in 1..n : f[m] = Turn(f[m - 1], size, count)

\* There is a run of each length, and runs agree as far as they go.
LEMMA RunsExist ==
  ASSUME NEW C, NEW size, NEW count, NEW n \in Nat
  PROVE  \E f : IsRun(f, n, C, size, count)
<1> DEFINE S == {m \in Nat : \E f : IsRun(f, m, C, size, count)}
<1>1. 0 \in S
  <2> DEFINE f == [j \in {0} |-> C]
  <2>1. IsRun(f, 0, C, size, count)
    BY DEF IsRun
  <2> QED
    BY <2>1
<1>2. ASSUME NEW m \in Nat, m \in S
      PROVE  m + 1 \in S
  <2>1. PICK f : IsRun(f, m, C, size, count)
    BY <1>2
  <2> DEFINE g == [j \in 0..(m + 1) |-> IF j = m + 1 THEN Turn(f[m], size, count) ELSE f[j]]
  <2>2. /\ \A j \in 0..m : g[j] = f[j]
        /\ g[m + 1] = Turn(f[m], size, count)
    OBVIOUS
  <2> HIDE DEF g
  <2>3. IsRun(g, m + 1, C, size, count)
    <3>1. g[0] = C
      BY <2>1, <2>2 DEF IsRun
    <3>2. ASSUME NEW j \in 1..(m + 1)
          PROVE  g[j] = Turn(g[j - 1], size, count)
      <4>1. CASE j = m + 1
        BY <2>2, <4>1
      <4>2. CASE j # m + 1
        <5>1. j \in 1..m /\ j \in 0..m /\ j - 1 \in 0..m
          BY <4>2
        <5> QED
          BY <2>1, <2>2, <5>1 DEF IsRun
      <4> QED
        BY <4>1, <4>2
    <3> QED
      BY <3>1, <3>2 DEF IsRun
  <2> QED
    BY <2>3
<1> HIDE DEF S
<1>3. Nat \subseteq S
  BY <1>1, <1>2, SetInduction
<1> QED
  BY <1>3 DEF S

LEMMA RunsAgree ==
  ASSUME NEW C, NEW size, NEW count, NEW n \in Nat, NEW k \in Nat,
         NEW f, IsRun(f, n, C, size, count), NEW g, IsRun(g, k, C, size, count),
         NEW m \in Nat, m <= n, m <= k
  PROVE  f[m] = g[m]
<1> DEFINE S == {j \in Nat : j <= n /\ j <= k => f[j] = g[j]}
<1>1. 0 \in S
  BY DEF IsRun
<1>2. ASSUME NEW j \in Nat, j \in S
      PROVE  j + 1 \in S
  <2>1. CASE j + 1 <= n /\ j + 1 <= k
    <3>1. j + 1 \in 1..n /\ j + 1 \in 1..k /\ (j + 1) - 1 = j /\ f[j] = g[j]
      BY <1>2, <2>1
    <3>2. f[j + 1] = Turn(f[j], size, count) /\ g[j + 1] = Turn(g[j], size, count)
      BY <3>1 DEF IsRun
    <3> QED
      BY <3>1, <3>2
  <2> QED
    BY <2>1
<1> HIDE DEF S
<1>3. m \in S
  BY <1>1, <1>2, SetInduction
<1> QED
  BY <1>3 DEF S

\* shrink() is a run of as many turns as there are pairs.
LEMMA ShrinkIsRun ==
  ASSUME NEW C, NEW size, NEW count, C.count \in Nat
  PROVE  \E f : IsRun(f, C.count, C, size, count) /\ shrink(C, size, count) = f[C.count]
<1> DEFINE Run(n) == CHOOSE f : IsRun(f, n, C, size, count)
           h == [n \in Nat |-> Run(n)[n]]
<1>1. \A n \in Nat : IsRun(Run(n), n, C, size, count)
  BY RunsExist
<1> HIDE DEF Run
<1>2. h = [n \in Nat |-> IF n = 0 THEN C
                         ELSE IF Overfull(h[n - 1], size, count) /\ MayEvict(h[n - 1])
                              THEN evict(h[n - 1])
                              ELSE h[n - 1]]
  <2>1. h[0] = C
    BY <1>1 DEF IsRun
  <2>2. ASSUME NEW n \in Nat, n # 0
        PROVE  h[n] = Turn(h[n - 1], size, count)
    <3>1. n \in 1..n /\ n - 1 \in Nat /\ n - 1 <= n
      BY <2>2
    <3>2. Run(n)[n] = Turn(Run(n)[n - 1], size, count)
      BY <1>1, <3>1 DEF IsRun
    <3>3. Run(n)[n - 1] = Run(n - 1)[n - 1]
      BY <1>1, <3>1, RunsAgree
    <3> QED
      BY <3>1, <3>2, <3>3
  <2> HIDE DEF h
  <2>3. \A n \in Nat \ {0} : h[n] = IF Overfull(h[n - 1], size, count) /\ MayEvict(h[n - 1])
                                    THEN evict(h[n - 1])
                                    ELSE h[n - 1]
    BY <2>2 DEF Turn
  <2>4. h = [n \in Nat |-> h[n]]
    BY DEF h
  <2> QED
    BY <2>1, <2>3, <2>4
<1> HIDE DEF h
<1>3. ASSUME NEW f,
             f = [n \in Nat |-> IF n = 0 THEN C
                         ELSE IF Overfull(f[n - 1], size, count) /\ MayEvict(f[n - 1])
                              THEN evict(f[n - 1])
                              ELSE f[n - 1]]
      PROVE  IsRun(f, C.count, C, size, count)
  <2>1. f[0] = C
    BY <1>3
  <2>2. ASSUME NEW n \in 1..C.count
        PROVE  f[n] = Turn(f[n - 1], size, count)
    BY <1>3 DEF Turn
  <2> QED
    BY <2>1, <2>2 DEF IsRun
<1> DEFINE after == CHOOSE f : f = [n \in Nat |-> IF n = 0 THEN C
                         ELSE IF Overfull(f[n - 1], size, count) /\ MayEvict(f[n - 1])
                              THEN evict(f[n - 1])
                              ELSE f[n - 1]]
<1>4. IsRun(after, C.count, C, size, count)
  BY <1>2, <1>3
<1>5. shrink(C, size, count) = after[C.count]
  BY DEF shrink
<1> QED
  BY <1>4, <1>5

-------------------------------------------------------------------------------
\* The first active pair is one that somebody holds, which forget() relies on.
ActiveOK(C) ==
    C.first_active_index # NoLink =>
        C.first_active_index \in C.indices /\ Referenced(C, C.first_active_index)

\* D is C without some of the pairs that nobody holds.
Shrunk(C, D) ==
    /\ Coherent(D, Ids) /\ ActiveOK(D)
    /\ D.indices \subseteq C.indices
    /\ \A i \in D.indices : D.item[i] = C.item[i]
    /\ \A i \in C.indices : Referenced(C, i) => i \in D.indices

LEMMA TurnShrinks ==
  ASSUME NEW C, NEW D, Shrunk(C, D), NEW size, NEW count
  PROVE  Shrunk(C, Turn(D, size, count))
<1>1. CASE MayEvict(D)
  <2> DEFINE i == D.pairs.last
             E == evict(D)
  <2>1. /\ i \in D.indices /\ D.item[i].refcount = 0
        /\ Coherent(E, Ids) /\ E.indices = D.indices \ {i}
        /\ \A j \in E.indices : E.item[j] = D.item[j]
        /\ E.first_active_index = D.first_active_index
    BY <1>1, EvictCoherent DEF Shrunk
  <2> HIDE DEF i, E
  <2>2. ActiveOK(E)
    BY <2>1 DEF Shrunk, ActiveOK, Referenced
  <2>3. Shrunk(C, E)
    BY <2>1, <2>2 DEF Shrunk, Referenced
  <2> QED
    BY <2>3 DEF Turn, E
<1>2. CASE ~MayEvict(D)
  BY <1>2 DEF Turn
<1> QED
  BY <1>1, <1>2

\* shrink() lets go of pairs that nobody holds, and of no others.
LEMMA ShrinkEffect ==
  ASSUME NEW C, Coherent(C, Ids), ActiveOK(C), NEW size, NEW count
  PROVE  Shrunk(C, shrink(C, size, count))
<1>1. C.count \in Nat
  BY DEF Coherent, ListInv, Typed
<1>2. PICK f : IsRun(f, C.count, C, size, count) /\ shrink(C, size, count) = f[C.count]
  BY <1>1, ShrinkIsRun
<1> DEFINE S == {n \in Nat : n <= C.count => Shrunk(C, f[n])}
<1>3. 0 \in S
  BY <1>2 DEF IsRun, Shrunk
<1>4. ASSUME NEW n \in Nat, n \in S
      PROVE  n + 1 \in S
  <2>1. CASE n + 1 <= C.count
    <3>1. n + 1 \in 1..C.count /\ (n + 1) - 1 = n /\ Shrunk(C, f[n])
      BY <1>1, <1>4, <2>1
    <3>2. f[n + 1] = Turn(f[n], size, count)
      BY <1>2, <3>1 DEF IsRun
    <3> QED
      BY <3>1, <3>2, TurnShrinks
  <2> QED
    BY <2>1
<1> HIDE DEF S
<1>5. C.count \in S
  BY <1>1, <1>3, <1>4, SetInduction
<1> QED
  BY <1>1, <1>2, <1>5 DEF S

\* Both caches are coherent, no font is in both, and every pair has a value.
FontsOK(F) ==
    /\ DOMAIN F = Caches
    /\ \A c \in Caches :
          /\ DOMAIN F[c] = {"cache", "val", "max_size", "max_count"}
          /\ Coherent(F[c].cache, Ids)
          /\ ActiveOK(F[c].cache)
          /\ F[c].cache.indices \subseteq DOMAIN F[c].val
    /\ Cached(F["mem"].cache) \cap Cached(F["mmapped"].cache) = {}

\* What the lookups find of the pair at i in the cache c,
LEMMA PairFound ==
  ASSUME NEW F, FontsOK(F), NEW c \in Caches, NEW i \in F[c].cache.indices,
         NEW id, id = F[c].cache.item[i].key
  PROVE  /\ Loaded(F, id) /\ CacheOf(F, id) = c /\ IndexOf(F[c].cache, id) = i
         /\ Refcount(F, id) = F[c].cache.item[i].refcount
         /\ FontOf(F, id) = F[c].val[i]
         /\ id \in Ids /\ Refcount(F, id) \in Nat
<1>1. /\ F[c].cache.item[i] \in [key : Ids, refcount : Nat, bytes : Nat]
      /\ \A j \in F[c].cache.indices : F[c].cache.item[j].key = id => j = i
  BY DEF FontsOK, Coherent
<1>2. i # NoLink
  <2>1. i \in Slots(F[c].cache.pairs) /\ Typed(F[c].cache.pairs)
    BY DEF FontsOK, Coherent, ListInv, Links
  <2> QED
    BY <2>1 DEF Typed, NoLink
<1>3. IndexOf(F[c].cache, id) = i
  BY <1>1 DEF IndexOf
<1>4. CacheOf(F, id) = c
  <2>1. CASE c = "mem"
    BY <1>2, <1>3, <2>1 DEF CacheOf, Has
  <2>2. CASE c = "mmapped"
    <3>1. id \notin Cached(F["mem"].cache)
      BY <2>2 DEF FontsOK, Cached
    <3>2. IndexOf(F["mem"].cache, id) = NoLink
      BY <3>1 DEF IndexOf, Cached
    <3> QED
      BY <2>2, <3>2 DEF CacheOf, Has
  <2> QED
    BY <2>1, <2>2 DEF Caches
<1>5. Loaded(F, id)
  BY <1>2, <1>3 DEF Loaded, Has, Caches
<1> QED
  BY <1>1, <1>3, <1>4, <1>5 DEF Refcount, FontOf

\* where a loaded font is, and that there is no pair of one that is not.
LEMMA LoadedAt ==
  ASSUME NEW F, FontsOK(F), NEW id, Loaded(F, id)
  PROVE  \E c \in Caches : \E i \in F[c].cache.indices :
            /\ F[c].cache.item[i].key = id
            /\ c = CacheOf(F, id) /\ i = IndexOf(F[c].cache, id)
<1>1. PICK c \in Caches : Has(F, c, id) /\ c = CacheOf(F, id)
  BY DEF Loaded, CacheOf, Caches
<1> QED
  BY <1>1 DEF Has, IndexOf

LEMMA NotLoaded ==
  ASSUME NEW F, FontsOK(F), NEW id, ~Loaded(F, id)
  PROVE  /\ \A c \in Caches : \A i \in F[c].cache.indices : F[c].cache.item[i].key # id
         /\ Refcount(F, id) = 0
  BY PairFound DEF Refcount

LEMMA RefcountIsNat ==
  ASSUME NEW F, FontsOK(F), NEW id
  PROVE  Refcount(F, id) \in Nat /\ (Refcount(F, id) > 0 => Loaded(F, id))
<1>1. CASE Loaded(F, id)
  BY <1>1, LoadedAt, PairFound
<1>2. CASE ~Loaded(F, id)
  BY <1>2, NotLoaded
<1> QED
  BY <1>1, <1>2

\* The font k stays where it is as long as somebody holds it.
Keeps(F, G, k) == Refcount(F, k) > 0 => Loaded(G, k) /\ FontOf(G, k) = FontOf(F, k)

LEMMA SamePairs ==
  ASSUME NEW F, FontsOK(F), NEW G, FontsOK(G), NEW k,
         \A c \in Caches : \A i \in G[c].cache.indices :
            G[c].cache.item[i].key = k =>
                /\ i \in F[c].cache.indices /\ F[c].cache.item[i].key = k
                /\ G[c].cache.item[i].refcount = F[c].cache.item[i].refcount
                /\ G[c].val[i] = F[c].val[i],
         \A c \in Caches : \A i \in F[c].cache.indices :
            F[c].cache.item[i].key = k /\ F[c].cache.item[i].refcount > 0 =>
                i \in G[c].cache.indices /\ G[c].cache.item[i].key = k
  PROVE  Refcount(G, k) = Refcount(F, k) /\ Keeps(F, G, k)
<1>1. CASE Loaded(G, k)
  <2>1. PICK c \in Caches : \E i \in G[c].cache.indices : G[c].cache.item[i].key = k
    BY <1>1, LoadedAt
  <2>2. PICK i \in G[c].cache.indices : G[c].cache.item[i].key = k
    BY <2>1
  <2>3. Refcount(G, k) = G[c].cache.item[i].refcount /\ FontOf(G, k) = G[c].val[i]
    BY <2>2, PairFound
  <2>4. Refcount(F, k) = F[c].cache.item[i].refcount /\ FontOf(F, k) = F[c].val[i]
    BY <2>2, PairFound
  <2> QED
    BY <1>1, <2>2, <2>3, <2>4 DEF Keeps
<1>2. CASE ~Loaded(G, k)
  <2>1. Refcount(G, k) = 0
    BY <1>2, NotLoaded
  <2>2. Refcount(F, k) = 0
    <3>1. CASE Loaded(F, k)
      <4>1. PICK c \in Caches : \E i \in F[c].cache.indices : F[c].cache.item[i].key = k
        BY <3>1, LoadedAt
      <4>2. PICK i \in F[c].cache.indices : F[c].cache.item[i].key = k
        BY <4>1
      <4>3. Refcount(F, k) = F[c].cache.item[i].refcount /\ Refcount(F, k) \in Nat
        BY <4>2, PairFound
      <4>4. ~(F[c].cache.item[i].refcount > 0)
        BY <1>2, <4>2, NotLoaded
      <4> QED
        BY <4>3, <4>4
    <3> QED
      BY <3>1, NotLoaded
  <2> QED
    BY <2>1, <2>2 DEF Keeps
<1> QED
  BY <1>1, <1>2

\* Counting references leaves the rest of the pairs as they are: D counts n for
\* the pair at i, and is C otherwise.
Recounted(C, D, i, n) ==
    /\ Coherent(D, Ids) /\ D.indices = C.indices
    /\ D.item[i].refcount = n
    /\ \A j \in C.indices : D.item[j].key = C.item[j].key /\ (j # i => D.item[j] = C.item[j])

LEMMA RecountPairs ==
  ASSUME NEW C, Coherent(C, Ids), NEW D, Coherent(D, Ids), D.indices = C.indices,
         NEW i \in C.indices, NEW n \in Nat, D.item = [C.item EXCEPT ![i].refcount = n]
  PROVE  Recounted(C, D, i, n)
<1>1. /\ D.item[i].refcount = n
      /\ \A j \in C.indices : D.item[j].key = C.item[j].key /\ (j # i => D.item[j] = C.item[j])
  BY DEF Coherent
<1> QED
  BY <1>1 DEF Recounted

LEMMA GetRecounts ==
  ASSUME NEW C, Coherent(C, Ids), NEW i \in C.indices
  PROVE  /\ Recounted(C, get(C, i), i, C.item[i].refcount + 1)
         /\ get(C, i).first_active_index = Activated(C, i)
<1>1. C.item[i].refcount \in Nat /\ C.item[i].refcount + 1 \in Nat
  BY DEF Coherent
<1> QED
  BY <1>1, GetCoherent, RecountPairs

LEMMA ForgetRecounts ==
  ASSUME NEW C, Coherent(C, Ids), NEW i \in C.indices, Referenced(C, i),
         C.first_active_index \in C.indices \cup {NoLink}
  PROVE  /\ Recounted(C, forget(C, i), i, C.item[i].refcount - 1)
         /\ \/ forget(C, i).first_active_index = NoLink
            \/ /\ forget(C, i).first_active_index = C.first_active_index
               /\ C.first_active_index = i => C.item[i].refcount - 1 > 0
<1>1. C.item[i].refcount - 1 \in Nat
  BY DEF Coherent, Referenced
<1> QED
  BY <1>1, ForgetCoherent, RecountPairs

\* A cache may be replaced by a coherent one that has no font of the other.
LEMMA CacheReplaced ==
  ASSUME NEW F, FontsOK(F), NEW c \in Caches, NEW G, DOMAIN G = Caches,
         DOMAIN G[c] = {"cache", "val", "max_size", "max_count"},
         \A d \in Caches \ {c} : G[d] = F[d],
         Coherent(G[c].cache, Ids), ActiveOK(G[c].cache),
         G[c].cache.indices \subseteq DOMAIN G[c].val,
         \A d \in Caches \ {c} : Cached(G[c].cache) \cap Cached(F[d].cache) = {}
  PROVE  FontsOK(G)
<1>1. ASSUME NEW d \in Caches
      PROVE  /\ DOMAIN G[d] = {"cache", "val", "max_size", "max_count"}
             /\ Coherent(G[d].cache, Ids)
             /\ ActiveOK(G[d].cache)
             /\ G[d].cache.indices \subseteq DOMAIN G[d].val
  <2>1. CASE d = c
    BY <2>1
  <2>2. CASE d # c
    BY <2>2 DEF FontsOK
  <2> QED
    BY <2>1, <2>2
<1>2. Cached(G["mem"].cache) \cap Cached(G["mmapped"].cache) = {}
  <2>1. CASE c = "mem"
    BY <2>1 DEF Caches
  <2>2. CASE c = "mmapped"
    BY <2>2 DEF Caches
  <2> QED
    BY <2>1, <2>2 DEF Caches
<1> QED
  BY <1>1, <1>2 DEF FontsOK

\* The other fonts have the references and the objects that they had.
Others(F, G, id) == \A k : k # id => Refcount(G, k) = Refcount(F, k) /\ Keeps(F, G, k)

\* G is F with X for the cache c.
CacheSet(F, c, X, G) ==
    /\ DOMAIN G = Caches /\ DOMAIN G[c] = {"cache", "val", "max_size", "max_count"}
    /\ G[c].cache = X /\ G[c].val = F[c].val
    /\ \A d \in Caches \ {c} : G[d] = F[d]

LEMMA SetCache ==
  ASSUME NEW F, FontsOK(F), NEW c \in Caches, NEW X, NEW G, G = [F EXCEPT ![c].cache = X]
  PROVE  CacheSet(F, c, X, G)
  BY DEF FontsOK, CacheSet

\* What taking and giving back references to a loaded font does.
LEMMA RecountEffect ==
  ASSUME NEW F, FontsOK(F), NEW c \in Caches, NEW i \in F[c].cache.indices,
         NEW id, id = F[c].cache.item[i].key,
         NEW X, Coherent(X, Ids), ActiveOK(X), X.indices = F[c].cache.indices,
         \A j \in X.indices : /\ X.item[j].key = F[c].cache.item[j].key
                              /\ j # i => X.item[j] = F[c].cache.item[j],
         NEW G, CacheSet(F, c, X, G)
  PROVE  /\ FontsOK(G) /\ Others(F, G, id)
         /\ Loaded(G, id) /\ FontOf(G, id) = FontOf(F, id)
         /\ Refcount(G, id) = X.item[i].refcount
<1>1. /\ DOMAIN G = Caches /\ DOMAIN G[c] = {"cache", "val", "max_size", "max_count"}
      /\ G[c].cache = X /\ G[c].val = F[c].val
      /\ \A d \in Caches \ {c} : G[d] = F[d]
  BY DEF CacheSet
<1>2. Cached(X) = Cached(F[c].cache)
  BY DEF Cached
<1>3. FontsOK(G)
  <2>1. \A d \in Caches \ {c} : Cached(F[c].cache) \cap Cached(F[d].cache) = {}
    BY DEF FontsOK, Caches
  <2>2. X.indices \subseteq DOMAIN G[c].val
    BY <1>1 DEF FontsOK
  <2> QED
    BY <1>1, <1>2, <2>1, <2>2, CacheReplaced
<1>4. ASSUME NEW k, k # id
      PROVE  Refcount(G, k) = Refcount(F, k) /\ Keeps(F, G, k)
  <2>1. ASSUME NEW d \in Caches, NEW j \in G[d].cache.indices, G[d].cache.item[j].key = k
        PROVE  /\ j \in F[d].cache.indices /\ F[d].cache.item[j].key = k
               /\ G[d].cache.item[j].refcount = F[d].cache.item[j].refcount
               /\ G[d].val[j] = F[d].val[j]
    <3>1. CASE d = c
      BY <1>1, <1>4, <2>1, <3>1
    <3>2. CASE d # c
      BY <1>1, <2>1, <3>2
    <3> QED
      BY <3>1, <3>2
  <2>2. ASSUME NEW d \in Caches, NEW j \in F[d].cache.indices, F[d].cache.item[j].key = k
        PROVE  j \in G[d].cache.indices /\ G[d].cache.item[j].key = k
    <3>1. CASE d = c
      BY <1>1, <2>2, <3>1
    <3>2. CASE d # c
      BY <1>1, <2>2, <3>2
    <3> QED
      BY <3>1, <3>2
  <2> QED
    BY <1>3, <2>1, <2>2, SamePairs
<1>5. /\ Loaded(G, id) /\ FontOf(G, id) = G[c].val[i]
      /\ Refcount(G, id) = X.item[i].refcount
  <2>1. i \in G[c].cache.indices /\ id = G[c].cache.item[i].key
    BY <1>1
  <2> QED
    BY <1>1, <1>3, <2>1, PairFound
<1>6. FontOf(F, id) = F[c].val[i]
  BY PairFound
<1> QED
  BY <1>1, <1>3, <1>4, <1>5, <1>6 DEF Others

\* get() of a loaded font counts one more reference,
LEMMA ReferEffect ==
  ASSUME NEW F, FontsOK(F), NEW id, Loaded(F, id), NEW G, G = refer(F, id)
  PROVE  /\ FontsOK(G) /\ Others(F, G, id)
         /\ Loaded(G, id) /\ FontOf(G, id) = FontOf(F, id)
         /\ Refcount(G, id) = Refcount(F, id) + 1
<1>1. PICK c \in Caches : \E i \in F[c].cache.indices :
            /\ F[c].cache.item[i].key = id
            /\ c = CacheOf(F, id) /\ i = IndexOf(F[c].cache, id)
  BY LoadedAt
<1>2. PICK i \in F[c].cache.indices :
            /\ F[c].cache.item[i].key = id
            /\ c = CacheOf(F, id) /\ i = IndexOf(F[c].cache, id)
  BY <1>1
<1> DEFINE C == F[c].cache
           X == get(C, i)
<1>3. Coherent(C, Ids) /\ ActiveOK(C)
  BY DEF FontsOK
<1>4. /\ Recounted(C, X, i, C.item[i].refcount + 1)
      /\ X.first_active_index = Activated(C, i)
  BY <1>3, GetRecounts
<1> HIDE DEF X
<1>5. /\ Coherent(X, Ids) /\ X.indices = C.indices
      /\ \A j \in X.indices : X.item[j].key = C.item[j].key /\ (j # i => X.item[j] = C.item[j])
      /\ X.item[i].refcount = C.item[i].refcount + 1
      /\ C.item[i].refcount \in Nat
  BY <1>3, <1>4 DEF Recounted, Coherent
<1>6. ActiveOK(X)
  <2>1. \A j \in C.indices : Referenced(C, j) => Referenced(X, j)
    BY <1>3, <1>4, <1>5 DEF Referenced
  <2> QED
    BY <1>3, <1>4, <1>5, <2>1 DEF ActiveOK, Activated, Referenced
<1>7. CacheSet(F, c, X, G)
  <2>1. G = [F EXCEPT ![c].cache = X]
    BY <1>2 DEF refer, X, FontsOK
  <2> QED
    BY <2>1, SetCache
<1>8. Refcount(F, id) = C.item[i].refcount
  BY <1>2, PairFound
<1>9. /\ FontsOK(G) /\ Others(F, G, id)
      /\ Loaded(G, id) /\ FontOf(G, id) = FontOf(F, id)
      /\ Refcount(G, id) = X.item[i].refcount
  BY <1>2, <1>5, <1>6, <1>7, RecountEffect
<1> QED
  BY <1>5, <1>8, <1>9

\* and forgetting it twice after that, one less.
LEMMA ForgetEffect ==
  ASSUME NEW F, FontsOK(F), NEW id \in Ids, Refcount(F, id) > 0,
         NEW G, G = forget_font(F, id)
  PROVE  /\ FontsOK(G) /\ Others(F, G, id)
         /\ Loaded(G, id) /\ FontOf(G, id) = FontOf(F, id)
         /\ Refcount(G, id) = Refcount(F, id) - 1
<1> Loaded(F, id)
  BY RefcountIsNat
<1>1. PICK c \in Caches : \E i \in F[c].cache.indices :
            /\ F[c].cache.item[i].key = id
            /\ c = CacheOf(F, id) /\ i = IndexOf(F[c].cache, id)
  BY LoadedAt
<1>2. PICK i \in F[c].cache.indices :
            /\ F[c].cache.item[i].key = id
            /\ c = CacheOf(F, id) /\ i = IndexOf(F[c].cache, id)
  BY <1>1
<1> DEFINE C == F[c].cache
           D == get(C, i)
           E == forget(D, i)
           X == forget(E, i)
<1>3. Coherent(C, Ids) /\ ActiveOK(C) /\ C.item[i].refcount \in Nat
  BY DEF FontsOK, Coherent
<1>4. Refcount(F, id) = C.item[i].refcount
  BY <1>2, PairFound
<1>5. /\ Recounted(C, D, i, C.item[i].refcount + 1)
      /\ D.first_active_index = Activated(C, i)
  BY <1>3, GetRecounts
<1>6. CacheSet(F, c, X, G)
  <2>1. id # Unset
    BY FontsAssumption
  <2>2. G = [F EXCEPT ![c].cache = forget(forget(get(F[c].cache, i), i), i)]
    BY <1>2, <2>1 DEF forget_font
  <2> QED
    BY <2>2, SetCache
<1> HIDE DEF C, D
<1>7. /\ Coherent(D, Ids) /\ D.indices = C.indices /\ i \in D.indices
      /\ \A j \in C.indices : D.item[j].key = C.item[j].key /\ (j # i => D.item[j] = C.item[j])
      /\ D.item[i].refcount = C.item[i].refcount + 1
  BY <1>5 DEF Recounted, C
<1>8. D.first_active_index \in D.indices \cup {NoLink} /\ Referenced(D, i)
  BY <1>3, <1>5, <1>7 DEF ActiveOK, Activated, Referenced
<1>9. /\ Recounted(D, E, i, D.item[i].refcount - 1)
      /\ \/ E.first_active_index = NoLink
         \/ /\ E.first_active_index = D.first_active_index
            /\ D.first_active_index = i => D.item[i].refcount - 1 > 0
  BY <1>7, <1>8, ForgetRecounts
<1> HIDE DEF E
<1>10. /\ Coherent(E, Ids) /\ E.indices = C.indices /\ i \in E.indices
       /\ \A j \in C.indices : E.item[j].key = C.item[j].key /\ (j # i => E.item[j] = C.item[j])
       /\ E.item[i].refcount = C.item[i].refcount
  BY <1>3, <1>7, <1>9 DEF Recounted
<1>11. E.first_active_index \in E.indices \cup {NoLink} /\ Referenced(E, i)
  BY <1>3, <1>4, <1>7, <1>8, <1>9, <1>10 DEF Referenced, C
<1>12. /\ Recounted(E, X, i, E.item[i].refcount - 1)
       /\ \/ X.first_active_index = NoLink
          \/ /\ X.first_active_index = E.first_active_index
             /\ E.first_active_index = i => E.item[i].refcount - 1 > 0
  BY <1>10, <1>11, ForgetRecounts
<1> HIDE DEF X
<1>13. /\ Coherent(X, Ids) /\ X.indices = C.indices
       /\ \A j \in X.indices : X.item[j].key = C.item[j].key /\ (j # i => X.item[j] = C.item[j])
       /\ X.item[i].refcount = C.item[i].refcount - 1
  BY <1>10, <1>12 DEF Recounted
<1>14. ActiveOK(X)
  <2> SUFFICES ASSUME X.first_active_index # NoLink
               PROVE  X.first_active_index \in X.indices /\ Referenced(X, X.first_active_index)
    BY DEF ActiveOK
  <2> DEFINE a == X.first_active_index
  <2>1. a = D.first_active_index /\ a \in C.indices /\ (a = i => X.item[i].refcount > 0)
    BY <1>7, <1>8, <1>9, <1>10, <1>12, <1>13
  <2>2. CASE a = i
    BY <1>13, <2>1, <2>2 DEF Referenced
  <2>3. CASE a # i
    <3>1. Referenced(C, a)
      BY <1>3, <1>5, <2>1, <2>3 DEF ActiveOK, Activated
    <3> QED
      BY <1>13, <2>1, <2>3, <3>1 DEF Referenced
  <2> QED
    BY <2>2, <2>3
<1>15. /\ FontsOK(G) /\ Others(F, G, id)
       /\ Loaded(G, id) /\ FontOf(G, id) = FontOf(F, id)
       /\ Refcount(G, id) = X.item[i].refcount
  BY <1>2, <1>6, <1>13, <1>14, RecountEffect DEF C
<1> QED
  BY <1>4, <1>13, <1>15

\* A cache that was shrunk has lost no font that somebody holds.
LEMMA ShrunkEffect ==
  ASSUME NEW F, FontsOK(F), NEW c \in Caches, NEW X, Shrunk(F[c].cache, X),
         NEW G, CacheSet(F, c, X, G)
  PROVE  FontsOK(G) /\ \A k : Refcount(G, k) = Refcount(F, k) /\ Keeps(F, G, k)
<1>1. /\ DOMAIN G = Caches /\ DOMAIN G[c] = {"cache", "val", "max_size", "max_count"}
      /\ G[c].cache = X /\ G[c].val = F[c].val
      /\ \A d \in Caches \ {c} : G[d] = F[d]
  BY DEF CacheSet
<1>2. /\ Coherent(X, Ids) /\ ActiveOK(X) /\ X.indices \subseteq F[c].cache.indices
      /\ \A i \in X.indices : X.item[i] = F[c].cache.item[i]
      /\ \A i \in F[c].cache.indices : F[c].cache.item[i].refcount > 0 => i \in X.indices
  BY DEF Shrunk, Referenced
<1>3. FontsOK(G)
  <2>1. Cached(X) \subseteq Cached(F[c].cache)
    BY <1>2 DEF Cached
  <2>2. \A d \in Caches \ {c} : Cached(F[c].cache) \cap Cached(F[d].cache) = {}
    BY DEF FontsOK, Caches
  <2>3. X.indices \subseteq DOMAIN G[c].val
    BY <1>1, <1>2 DEF FontsOK
  <2> QED
    BY <1>1, <1>2, <2>1, <2>2, <2>3, CacheReplaced
<1>4. ASSUME NEW k
      PROVE  Refcount(G, k) = Refcount(F, k) /\ Keeps(F, G, k)
  <2>1. ASSUME NEW d \in Caches, NEW j \in G[d].cache.indices, G[d].cache.item[j].key = k
        PROVE  /\ j \in F[d].cache.indices /\ F[d].cache.item[j].key = k
               /\ G[d].cache.item[j].refcount = F[d].cache.item[j].refcount
               /\ G[d].val[j] = F[d].val[j]
    BY <1>1, <1>2, <2>1
  <2>2. ASSUME NEW d \in Caches, NEW j \in F[d].cache.indices, F[d].cache.item[j].key = k,
               F[d].cache.item[j].refcount > 0
        PROVE  j \in G[d].cache.indices /\ G[d].cache.item[j].key = k
    BY <1>1, <1>2, <2>2
  <2> QED
    BY <1>3, <2>1, <2>2, SamePairs
<1> QED
  BY <1>3, <1>4

\* G is F with a new pair for id, with the object a, in the cache c.
Inserted(F, c, S, id, b, a, G) ==
    LET i == NewIndex(S.pairs)
    IN  /\ DOMAIN G = Caches /\ DOMAIN G[c] = {"cache", "val", "max_size", "max_count"}
        /\ G[c].cache = insert(S, id, b)
        /\ DOMAIN G[c].val = DOMAIN F[c].val \cup {i} /\ G[c].val[i] = a
        /\ \A j \in DOMAIN F[c].val : j # i => G[c].val[j] = F[c].val[j]
        /\ \A d \in Caches \ {c} : G[d] = F[d]

\* A font that is put in a cache has one reference and the object that was made
\* for it; of the others only those that nobody holds may go.
LEMMA InsertEffect ==
  ASSUME NEW F, FontsOK(F), NEW c \in Caches, NEW id \in Ids, ~Loaded(F, id), NEW a,
         NEW S, Shrunk(F[c].cache, S), NEW b \in Nat, NEW G, Inserted(F, c, S, id, b, a, G)
  PROVE  /\ FontsOK(G) /\ Others(F, G, id)
         /\ Loaded(G, id) /\ FontOf(G, id) = a
         /\ Refcount(F, id) = 0 /\ Refcount(G, id) = 1
<1> DEFINE C == F[c].cache
           i == NewIndex(S.pairs)
           X == insert(S, id, b)
           v == G[c].val
<1>2. C.indices \subseteq DOMAIN F[c].val
  BY DEF FontsOK
<1>3. /\ DOMAIN G = Caches /\ DOMAIN G[c] = {"cache", "val", "max_size", "max_count"}
      /\ G[c].cache = X /\ G[c].val = v
      /\ \A d \in Caches \ {c} : G[d] = F[d]
  BY DEF Inserted
<1>4. /\ DOMAIN v = DOMAIN F[c].val \cup {i} /\ v[i] = a
      /\ \A j \in DOMAIN F[c].val : j # i => v[j] = F[c].val[j]
  BY DEF Inserted
<1> HIDE DEF v
<1>6. /\ Coherent(S, Ids) /\ ActiveOK(S) /\ S.indices \subseteq C.indices
      /\ \A j \in S.indices : S.item[j] = C.item[j]
      /\ \A j \in C.indices : C.item[j].refcount > 0 => j \in S.indices
  BY DEF Shrunk, Referenced
<1>7. \A d \in Caches : \A j \in F[d].cache.indices : F[d].cache.item[j].key # id
  BY NotLoaded
<1>8. id \in Ids \ Cached(S)
  BY <1>6, <1>7 DEF Cached
<1>9. /\ Coherent(X, Ids) /\ i \notin S.indices /\ X.indices = S.indices \cup {i}
      /\ X.item[i] = [key |-> id, refcount |-> 1, bytes |-> b]
      /\ \A j \in S.indices : X.item[j] = S.item[j]
      /\ X.first_active_index = Activated(S, i)
  BY <1>6, <1>8, InsertCoherent
<1> HIDE DEF X, i, C
<1>10. ActiveOK(X)
  BY <1>6, <1>9 DEF ActiveOK, Activated, Referenced
<1>11. X.item[i].key = id /\ X.item[i].refcount = 1
  BY <1>9
<1>12. FontsOK(G)
  <2>1. \A d \in Caches \ {c} : Cached(G[c].cache) \cap Cached(F[d].cache) = {}
    <3>1. Cached(X) \subseteq Cached(F[c].cache) \cup {id}
      BY <1>6, <1>9, <1>11 DEF Cached, C
    <3>2. \A d \in Caches : id \notin Cached(F[d].cache)
      BY <1>7 DEF Cached
    <3>3. \A d \in Caches \ {c} : Cached(F[c].cache) \cap Cached(F[d].cache) = {}
      BY DEF FontsOK, Caches
    <3> QED
      BY <1>3, <3>1, <3>2, <3>3
  <2>2. X.indices \subseteq DOMAIN v
    BY <1>2, <1>4, <1>6, <1>9
  <2> QED
    BY <1>3, <1>9, <1>10, <2>1, <2>2, CacheReplaced
<1>13. ASSUME NEW k, k # id
       PROVE  Refcount(G, k) = Refcount(F, k) /\ Keeps(F, G, k)
  <2>1. ASSUME NEW d \in Caches, NEW j \in G[d].cache.indices, G[d].cache.item[j].key = k
        PROVE  /\ j \in F[d].cache.indices /\ F[d].cache.item[j].key = k
               /\ G[d].cache.item[j].refcount = F[d].cache.item[j].refcount
               /\ G[d].val[j] = F[d].val[j]
    <3>1. CASE d = c
      <4>1. j \in S.indices /\ j # i /\ j \in C.indices /\ X.item[j] = C.item[j]
        BY <1>3, <1>6, <1>9, <1>11, <1>13, <2>1, <3>1
      <4> QED
        BY <1>2, <1>3, <1>4, <2>1, <3>1, <4>1 DEF C
    <3>2. CASE d # c
      BY <1>3, <2>1, <3>2
    <3> QED
      BY <3>1, <3>2
  <2>2. ASSUME NEW d \in Caches, NEW j \in F[d].cache.indices, F[d].cache.item[j].key = k,
               F[d].cache.item[j].refcount > 0
        PROVE  j \in G[d].cache.indices /\ G[d].cache.item[j].key = k
    <3>1. CASE d = c
      BY <1>3, <1>6, <1>9, <2>2, <3>1 DEF C
    <3>2. CASE d # c
      BY <1>3, <2>2, <3>2
    <3> QED
      BY <3>1, <3>2
  <2> QED
    BY <1>12, <2>1, <2>2, SamePairs
<1>14. Loaded(G, id) /\ FontOf(G, id) = a /\ Refcount(G, id) = 1
  <2>1. i \in G[c].cache.indices /\ id = G[c].cache.item[i].key
    BY <1>3, <1>9, <1>11
  <2>2. /\ Loaded(G, id) /\ Refcount(G, id) = G[c].cache.item[i].refcount
        /\ FontOf(G, id) = G[c].val[i]
    BY <1>12, <2>1, PairFound
  <2> QED
    BY <1>3, <1>4, <1>11, <2>2
<1>15. Refcount(F, id) = 0
  BY NotLoaded
<1> QED
  BY <1>12, <1>13, <1>14, <1>15 DEF Others

\* Renderer:font() of a font that is not loaded puts it where it belongs.
LEMMA LoadEffect ==
  ASSUME NEW F, FontsOK(F), NEW id \in Ids, ~Loaded(F, id), NEW a, NEW G, G = load(F, id, a)
  PROVE  /\ FontsOK(G) /\ Others(F, G, id)
         /\ Loaded(G, id) /\ FontOf(G, id) = a
         /\ Refcount(F, id) = 0 /\ Refcount(G, id) = 1
<1> DEFINE c == IF id \in Mmapped THEN "mmapped" ELSE "mem"
           S == shrink(F[c].cache, F[c].max_size - FileSize[id], F[c].max_count - 1)
           i == NewIndex(S.pairs)
<1>1. c \in Caches
  BY DEF Caches
<1>2. Shrunk(F[c].cache, S)
  BY <1>1, ShrinkEffect DEF FontsOK
<1>3. G = [F EXCEPT ![c].cache = insert(S, id, FileSize[id]),
                    ![c].val = [j \in DOMAIN @ \cup {i} |-> IF j = i THEN a ELSE @[j]]]
  BY DEF load
<1>4. FileSize[id] \in Nat
  BY FileSizeAssumption
<1> HIDE DEF c, S
<1>5. Inserted(F, c, S, id, FileSize[id], a, G)
  <2>1. /\ DOMAIN G = Caches /\ DOMAIN G[c] = {"cache", "val", "max_size", "max_count"}
        /\ G[c].cache = insert(S, id, FileSize[id])
        /\ G[c].val = [j \in DOMAIN F[c].val \cup {i} |-> IF j = i THEN a ELSE F[c].val[j]]
        /\ \A d \in Caches \ {c} : G[d] = F[d]
    BY <1>1, <1>3 DEF FontsOK
  <2> HIDE DEF i
  <2> DEFINE v == [j \in DOMAIN F[c].val \cup {i} |-> IF j = i THEN a ELSE F[c].val[j]]
  <2>2. /\ DOMAIN v = DOMAIN F[c].val \cup {i} /\ v[i] = a
        /\ \A j \in DOMAIN F[c].val : j # i => v[j] = F[c].val[j]
    OBVIOUS
  <2> QED
    BY <2>1, <2>2 DEF Inserted, i
<1> QED
  BY <1>1, <1>2, <1>4, <1>5, InsertEffect

\* Either way, to take a reference is to have one more.
LEMMA TakesEffect ==
  ASSUME NEW F, FontsOK(F), NEW id \in Ids, NEW a, NEW G, Takes(F, id, G, a)
  PROVE  /\ FontsOK(G) /\ Others(F, G, id)
         /\ Loaded(G, id) /\ FontOf(G, id) = a
         /\ Refcount(G, id) = Refcount(F, id) + 1
         /\ Refcount(F, id) > 0 => FontOf(F, id) = a
<1>1. CASE Loaded(F, id) /\ G = refer(F, id) /\ a = FontOf(F, id)
  BY <1>1, ReferEffect
<1>2. CASE ~Loaded(F, id) /\ G = load(F, id, a)
  BY <1>2, LoadEffect
<1> QED
  BY <1>1, <1>2 DEF Takes

\* A span of T that has a font id points to the object that the font has in F,
\* and F counts the spans of T and what font_face_num() took.
UsersIn(sp, T, id) == {t \in T : sp[t].font_id = id}
Holding(F, sp, T) ==
    \A t \in T : sp[t].font_id # Unset =>
        Loaded(F, sp[t].font_id) /\ FontOf(F, sp[t].font_id) = sp[t].font
Accounted(F, sp, n, T) ==
    \A id \in Ids : Refcount(F, id) = Cardinality(UsersIn(sp, T, id)) + n[id]
Right(F, sp, n, T) == FontsOK(F) /\ Holding(F, sp, T) /\ Accounted(F, sp, n, T)

SpanTable == [Spans -> [font_id : Ids \cup {Unset}, font : Objects \cup {Nil}]]

LEMMA UsersFinite ==
  ASSUME NEW sp, NEW T \in SUBSET Spans, NEW id
  PROVE  /\ IsFiniteSet(UsersIn(sp, T, id)) /\ Cardinality(UsersIn(sp, T, id)) \in Nat
         /\ \A t \in T : sp[t].font_id = id => Cardinality(UsersIn(sp, T, id)) > 0
<1>1. IsFiniteSet(UsersIn(sp, T, id))
  <2>1. UsersIn(sp, T, id) \subseteq Spans
    BY DEF UsersIn
  <2> QED
    BY <2>1, SpansAssumption, FS_Subset
<1>2. Cardinality(UsersIn(sp, T, id)) \in Nat
  BY <1>1, FS_CardinalityType
<1>3. ASSUME NEW t \in T, sp[t].font_id = id
      PROVE  Cardinality(UsersIn(sp, T, id)) # 0
  <2>1. UsersIn(sp, T, id) # {}
    BY <1>3 DEF UsersIn
  <2> QED
    BY <1>1, <2>1, FS_EmptySet
<1> QED
  BY <1>1, <1>2, <1>3

\* One span more of a font is one user more.
LEMMA UserAdded ==
  ASSUME NEW sp, NEW sq, NEW T \in SUBSET Spans, NEW s \in Spans \ T,
         \A t \in T : sq[t] = sp[t], NEW id
  PROVE  Cardinality(UsersIn(sq, T \cup {s}, id)) =
            IF sq[s].font_id = id THEN Cardinality(UsersIn(sp, T, id)) + 1
            ELSE Cardinality(UsersIn(sp, T, id))
<1>1. IsFiniteSet(UsersIn(sp, T, id)) /\ s \notin UsersIn(sp, T, id)
  BY UsersFinite DEF UsersIn
<1>2. CASE sq[s].font_id = id
  <2>1. UsersIn(sq, T \cup {s}, id) = UsersIn(sp, T, id) \cup {s}
    BY <1>2 DEF UsersIn
  <2>2. Cardinality(UsersIn(sp, T, id) \cup {s}) = Cardinality(UsersIn(sp, T, id)) + 1
    BY <1>1, FS_AddElement
  <2> QED
    BY <1>2, <2>1, <2>2
<1>3. CASE sq[s].font_id # id
  <2>1. UsersIn(sq, T \cup {s}, id) = UsersIn(sp, T, id)
    BY <1>3 DEF UsersIn
  <2> QED
    BY <1>3, <2>1
<1> QED
  BY <1>2, <1>3

\* As long as nobody's reference is touched, all stays right.
LEMMA Steady ==
  ASSUME NEW F, NEW G, NEW sp \in SpanTable, NEW n \in [Ids -> Nat], NEW T \in SUBSET Spans,
         Right(F, sp, n, T), FontsOK(G),
         \A k \in Ids : Refcount(G, k) = Refcount(F, k) /\ Keeps(F, G, k)
  PROVE  Right(G, sp, n, T)
<1>1. Accounted(G, sp, n, T)
  BY DEF Right, Accounted
<1>2. Holding(G, sp, T)
  <2> SUFFICES ASSUME NEW t \in T, sp[t].font_id # Unset
               PROVE  Loaded(G, sp[t].font_id) /\ FontOf(G, sp[t].font_id) = sp[t].font
    BY DEF Holding
  <2> DEFINE k == sp[t].font_id
  <2>1. k \in Ids /\ n[k] \in Nat
    BY DEF SpanTable
  <2>2. Refcount(F, k) = Cardinality(UsersIn(sp, T, k)) + n[k]
    BY <2>1 DEF Right, Accounted
  <2>3. Cardinality(UsersIn(sp, T, k)) \in Nat /\ Cardinality(UsersIn(sp, T, k)) > 0
    BY UsersFinite
  <2>4. Refcount(F, k) > 0
    BY <2>1, <2>2, <2>3
  <2>5. FontOf(F, k) = sp[t].font
    BY DEF Right, Holding
  <2> QED
    BY <2>1, <2>4, <2>5 DEF Keeps
<1> QED
  BY <1>1, <1>2 DEF Right

\* forget_font() takes a span out of the account.
LEMMA Forgotten ==
  ASSUME NEW F, NEW sp \in SpanTable, NEW n \in [Ids -> Nat],
         Right(F, sp, n, Spans), NEW s \in Spans
  PROVE  Right(forget_font(F, sp[s].font_id), sp, n, Spans \ {s})
<1> DEFINE T == Spans \ {s}
           old == sp[s].font_id
           G == forget_font(F, old)
<1>1. T \in SUBSET Spans /\ s \in Spans \ T /\ T \cup {s} = Spans
  OBVIOUS
<1> HIDE DEF T
<1>2. \A k : Cardinality(UsersIn(sp, Spans, k)) =
                IF old = k THEN Cardinality(UsersIn(sp, T, k)) + 1
                ELSE Cardinality(UsersIn(sp, T, k))
  BY <1>1, UserAdded
<1>3. \A k : Cardinality(UsersIn(sp, T, k)) \in Nat
  BY <1>1, UsersFinite
<1>4. \A k \in Ids : n[k] \in Nat /\ Refcount(F, k) = Cardinality(UsersIn(sp, Spans, k)) + n[k]
  BY DEF Right, Accounted
<1>5. FontsOK(F) /\ Holding(F, sp, Spans)
  BY DEF Right
<1> HIDE DEF G
<1>6. CASE old = Unset
  <2>1. G = F
    BY <1>6 DEF G, forget_font
  <2>2. Accounted(F, sp, n, T)
    BY <1>2, <1>4, <1>6, FontsAssumption DEF Accounted
  <2>3. Holding(F, sp, T)
    BY <1>1, <1>5 DEF Holding
  <2> QED
    BY <1>5, <2>1, <2>2, <2>3 DEF Right, G, T
<1>7. CASE old # Unset
  <2>1. old \in Ids
    BY <1>7 DEF SpanTable
  <2>2. Refcount(F, old) > 0
    BY <1>2, <1>3, <1>4, <2>1
  <2>3. /\ FontsOK(G) /\ Others(F, G, old)
        /\ Loaded(G, old) /\ FontOf(G, old) = FontOf(F, old)
        /\ Refcount(G, old) = Refcount(F, old) - 1
    BY <1>5, <2>1, <2>2, ForgetEffect DEF G
  <2> HIDE DEF old
  <2>4. Accounted(G, sp, n, T)
    BY <1>2, <1>3, <1>4, <2>1, <2>3 DEF Accounted, Others
  <2>5. Holding(G, sp, T)
    <3> SUFFICES ASSUME NEW t \in T, sp[t].font_id # Unset
                 PROVE  Loaded(G, sp[t].font_id) /\ FontOf(G, sp[t].font_id) = sp[t].font
      BY DEF Holding
    <3> DEFINE k == sp[t].font_id
    <3>1. FontOf(F, k) = sp[t].font
      BY <1>1, <1>5 DEF Holding
    <3>2. CASE k = old
      BY <2>3, <3>1, <3>2
    <3>3. CASE k # old
      <4>1. k \in Ids
        BY <1>1 DEF SpanTable
      <4>2. Cardinality(UsersIn(sp, Spans, k)) > 0 /\ Cardinality(UsersIn(sp, Spans, k)) \in Nat
        BY <1>1, UsersFinite
      <4>3. Refcount(F, k) > 0
        BY <1>4, <4>1, <4>2
      <4> QED
        BY <2>3, <3>1, <3>3, <4>3 DEF Others, Keeps
    <3> QED
      BY <3>2, <3>3
  <2> QED
    BY <2>3, <2>4, <2>5 DEF Right, G, T, old
<1> QED
  BY <1>6, <1>7

\* A span without a font may be left out of the account or taken in.
LEMMA NoFontNoMatter ==
  ASSUME NEW F, NEW sp, NEW sq, NEW n, NEW s \in Spans, Right(F, sp, n, Spans \ {s}),
         \A t \in Spans \ {s} : sq[t] = sp[t], sq[s] = NoSpan
  PROVE  Right(F, sq, n, Spans)
<1>1. Holding(F, sq, Spans)
  BY DEF Right, Holding, NoSpan
<1>2. ASSUME NEW id \in Ids
      PROVE  UsersIn(sq, Spans, id) = UsersIn(sp, Spans \ {s}, id)
  BY FontsAssumption DEF UsersIn, NoSpan
<1> QED
  BY <1>1, <1>2 DEF Right, Accounted

\* Renderer:font() leaves right what was, counts one more for the font,
LEMMA Taken ==
  ASSUME NEW F, NEW sp \in SpanTable, NEW n \in [Ids -> Nat], NEW T \in SUBSET Spans,
         Right(F, sp, n, T), NEW id \in Ids, NEW a, NEW G, Takes(F, id, G, a)
  PROVE  /\ FontsOK(G) /\ Holding(G, sp, T)
         /\ Loaded(G, id) /\ FontOf(G, id) = a
         /\ \A k \in Ids : Refcount(G, k) =
                IF k = id THEN Cardinality(UsersIn(sp, T, k)) + n[k] + 1
                ELSE Cardinality(UsersIn(sp, T, k)) + n[k]
<1>1. FontsOK(F) /\ Holding(F, sp, T)
      /\ \A k \in Ids : Refcount(F, k) = Cardinality(UsersIn(sp, T, k)) + n[k]
  BY DEF Right, Accounted
<1>2. /\ FontsOK(G) /\ Others(F, G, id)
      /\ Loaded(G, id) /\ FontOf(G, id) = a
      /\ Refcount(G, id) = Refcount(F, id) + 1
      /\ Refcount(F, id) > 0 => FontOf(F, id) = a
  BY <1>1, TakesEffect
<1>3. Holding(G, sp, T)
  <2> SUFFICES ASSUME NEW t \in T, sp[t].font_id # Unset
               PROVE  Loaded(G, sp[t].font_id) /\ FontOf(G, sp[t].font_id) = sp[t].font
    BY DEF Holding
  <2> DEFINE k == sp[t].font_id
  <2>1. k \in Ids /\ n[k] \in Nat
    BY DEF SpanTable
  <2>2. Cardinality(UsersIn(sp, T, k)) \in Nat /\ Cardinality(UsersIn(sp, T, k)) > 0
    BY UsersFinite
  <2>3. Refcount(F, k) > 0
    BY <1>1, <2>1, <2>2
  <2>4. FontOf(F, k) = sp[t].font
    BY <1>1 DEF Holding
  <2> QED
    BY <1>2, <2>3, <2>4 DEF Others, Keeps
<1> QED
  BY <1>1, <1>2, <1>3 DEF Others

\* and the span that gets it is then in the account.
LEMMA GivenTo ==
  ASSUME NEW F, NEW sp \in SpanTable, NEW n \in [Ids -> Nat], NEW s \in Spans,
         Right(F, sp, n, Spans \ {s}), NEW id \in Ids, NEW a, NEW G, Takes(F, id, G, a),
         NEW sq, \A t \in Spans \ {s} : sq[t] = sp[t], sq[s] = [font_id |-> id, font |-> a]
  PROVE  Right(G, sq, n, Spans)
<1> DEFINE T == Spans \ {s}
<1>1. T \in SUBSET Spans /\ s \in Spans \ T /\ T \cup {s} = Spans
      /\ Right(F, sp, n, T) /\ \A t \in T : sq[t] = sp[t]
  OBVIOUS
<1> HIDE DEF T
<1>2. /\ FontsOK(G) /\ Holding(G, sp, T)
      /\ Loaded(G, id) /\ FontOf(G, id) = a
      /\ \A k \in Ids : Refcount(G, k) =
                IF k = id THEN Cardinality(UsersIn(sp, T, k)) + n[k] + 1
                ELSE Cardinality(UsersIn(sp, T, k)) + n[k]
  BY <1>1, Taken
<1>3. Holding(G, sq, Spans)
  BY <1>1, <1>2 DEF Holding
<1>4. \A k : Cardinality(UsersIn(sq, Spans, k)) =
                IF id = k THEN Cardinality(UsersIn(sp, T, k)) + 1
                ELSE Cardinality(UsersIn(sp, T, k))
  BY <1>1, UserAdded
<1>5. \A k : Cardinality(UsersIn(sp, T, k)) \in Nat
  BY <1>1, UsersFinite
<1>6. Accounted(G, sq, n, Spans)
  BY <1>2, <1>4, <1>5 DEF Accounted
<1> QED
  BY <1>2, <1>3, <1>6 DEF Right

\* The inductive invariant.  That the object of a held font stays is what the
\* counts are for: HeldFontAlive is kept because RefsAccounted says that a font
\* that a span points to has a reference, so that it is not evicted.
SpansOK ==
    /\ spans \in SpanTable
    /\ asked \in [Ids -> Nat]
    /\ \A s \in Spans : spans[s].font_id = Unset => spans[s].font = Nil
FontsInv == SpansOK /\ Right(fonts, spans, asked, Spans)

LEMMA EmptyCache == Coherent(init, Ids) /\ ActiveOK(init) /\ init.indices = {}
<1>1. Links(empty) = {} /\ ListInv(empty) /\ empty.count = 0
  BY EmptyInv DEF Links, Slots, empty
<1> QED
  BY <1>1 DEF Coherent, ActiveOK, init

\* Without pairs and without spans that have a font, nothing is to be accounted.
LEMMA NothingHeld ==
  ASSUME NEW F, NEW sp, NEW n,
         DOMAIN F = Caches,
         \A c \in Caches : DOMAIN F[c] = {"cache", "val", "max_size", "max_count"}
                           /\ F[c].cache = init,
         \A s \in Spans : sp[s] = NoSpan, \A id \in Ids : n[id] = 0
  PROVE  Right(F, sp, n, Spans)
<1>1. FontsOK(F)
  <2>1. Cached(init) = {}
    BY EmptyCache DEF Cached
  <2>2. \A c \in Caches : F[c].cache.indices \subseteq DOMAIN F[c].val
    BY EmptyCache
  <2> QED
    BY <2>1, <2>2, EmptyCache DEF FontsOK, Caches
<1>2. Holding(F, sp, Spans)
  BY DEF Holding, NoSpan
<1>3. ASSUME NEW id \in Ids
      PROVE  Refcount(F, id) = Cardinality(UsersIn(sp, Spans, id)) + n[id]
  <2>1. UsersIn(sp, Spans, id) = {}
    BY FontsAssumption DEF UsersIn, NoSpan
  <2>2. Cardinality(UsersIn(sp, Spans, id)) = 0
    BY <2>1, FS_EmptySet
  <2>3. ~Loaded(F, id)
    BY <1>1, LoadedAt, EmptyCache
  <2> QED
    BY <1>1, <2>2, <2>3, NotLoaded
<1> QED
  BY <1>1, <1>2, <1>3 DEF Right, Accounted

LEMMA FontsStart == FontsInit => FontsInv
<1> SUFFICES ASSUME FontsInit PROVE FontsInv
  OBVIOUS
<1>1. SpansOK
  BY DEF FontsInit, SpansOK, SpanTable, NoSpan
<1>2. /\ DOMAIN fonts = Caches
      /\ \A c \in Caches : DOMAIN fonts[c] = {"cache", "val", "max_size", "max_count"}
                           /\ fonts[c].cache = init
  BY DEF FontsInit, NewCache, Caches
<1>3. \A s \in Spans : spans[s] = NoSpan
  BY DEF FontsInit
<1>4. \A id \in Ids : asked[id] = 0
  BY DEF FontsInit
<1> QED
  BY <1>1, <1>2, <1>3, <1>4, NothingHeld DEF FontsInv

\* A span that is given another font, or none, has its old one forgotten first.
LEMMA LoadFontInv ==
  ASSUME FontsInv, NEW s \in Spans, NEW id \in Ids, LoadFont(s, id)
  PROVE  FontsInv'
<1> DEFINE F == forget_font(fonts, spans[s].font_id)
<1>1. PICK a \in Objects :
          /\ Takes(F, id, fonts', a)
          /\ spans' = [spans EXCEPT ![s] = [font_id |-> id, font |-> a]]
  BY DEF LoadFont
<1>2. asked' = asked
  BY DEF LoadFont
<1>3. spans \in SpanTable /\ asked \in [Ids -> Nat] /\ Right(fonts, spans, asked, Spans)
  BY DEF FontsInv, SpansOK
<1>4. Right(F, spans, asked, Spans \ {s})
  BY <1>3, Forgotten
<1> HIDE DEF F
<1>5. /\ spans'[s] = [font_id |-> id, font |-> a]
      /\ \A t \in Spans \ {s} : spans'[t] = spans[t]
      /\ spans' \in SpanTable
  BY <1>1, <1>3 DEF SpanTable
<1>6. Right(fonts', spans', asked, Spans)
  <2>1. ASSUME NEW G, NEW sq, Takes(F, id, G, a), \A t \in Spans \ {s} : sq[t] = spans[t],
               sq[s] = [font_id |-> id, font |-> a]
        PROVE  Right(G, sq, asked, Spans)
    BY <1>3, <1>4, <2>1, GivenTo
  <2> QED
    BY <1>1, <1>5, <2>1
<1>7. \A t \in Spans : spans'[t].font_id = Unset => spans'[t].font = Nil
  BY <1>5, FontsAssumption DEF FontsInv, SpansOK
<1> QED
  BY <1>2, <1>3, <1>5, <1>6, <1>7 DEF FontsInv, SpansOK

LEMMA NoFontInv ==
  ASSUME FontsInv, NEW s \in Spans, fonts' = forget_font(fonts, spans[s].font_id),
         spans' = [spans EXCEPT ![s] = NoSpan], asked' = asked
  PROVE  FontsInv'
<1>1. spans \in SpanTable /\ asked \in [Ids -> Nat] /\ Right(fonts, spans, asked, Spans)
  BY DEF FontsInv, SpansOK
<1>2. Right(fonts', spans, asked, Spans \ {s})
  BY <1>1, Forgotten
<1>3. /\ spans'[s] = NoSpan
      /\ \A t \in Spans \ {s} : spans'[t] = spans[t]
      /\ spans' \in SpanTable
  BY <1>1 DEF SpanTable, NoSpan
<1>4. Right(fonts', spans', asked, Spans)
  BY <1>2, <1>3, NoFontNoMatter
<1>5. \A t \in Spans : spans'[t].font_id = Unset => spans'[t].font = Nil
  BY <1>3 DEF FontsInv, SpansOK, NoSpan
<1> QED
  BY <1>1, <1>3, <1>4, <1>5 DEF FontsInv, SpansOK

LEMMA CopyInv ==
  ASSUME FontsInv, NEW s \in Spans, NEW t \in Spans, Copy(s, t)
  PROVE  FontsInv'
<1> DEFINE id == spans[s].font_id
<1>1. PICK a \in Objects :
          /\ Takes(fonts, id, fonts', a)
          /\ spans' = [spans EXCEPT ![t] = [font_id |-> id, font |-> a]]
  BY DEF Copy
<1>2. asked' = asked /\ spans[s] # NoSpan /\ spans[t] = NoSpan
  BY DEF Copy
<1>3. spans \in SpanTable /\ asked \in [Ids -> Nat] /\ Right(fonts, spans, asked, Spans)
  BY DEF FontsInv, SpansOK
<1>4. id \in Ids
  <2>1. id # Unset
    BY <1>2, <1>3 DEF SpanTable, NoSpan, FontsInv, SpansOK
  <2> QED
    BY <1>3, <2>1 DEF SpanTable
<1>5. Right(fonts, spans, asked, Spans \ {t})
  <2>1. forget_font(fonts, spans[t].font_id) = fonts
    BY <1>2 DEF forget_font, NoSpan
  <2> QED
    BY <1>3, <2>1, Forgotten
<1> HIDE DEF id
<1>6. /\ spans'[t] = [font_id |-> id, font |-> a]
      /\ \A u \in Spans \ {t} : spans'[u] = spans[u]
      /\ spans' \in SpanTable
  BY <1>1, <1>3, <1>4 DEF SpanTable
<1>7. Right(fonts', spans', asked, Spans)
  <2>1. ASSUME NEW G, NEW sq, Takes(fonts, id, G, a), \A u \in Spans \ {t} : sq[u] = spans[u],
               sq[t] = [font_id |-> id, font |-> a]
        PROVE  Right(G, sq, asked, Spans)
    BY <1>3, <1>4, <1>5, <2>1, GivenTo
  <2> QED
    BY <1>1, <1>6, <2>1
<1>8. \A u \in Spans : spans'[u].font_id = Unset => spans'[u].font = Nil
  BY <1>4, <1>6, FontsAssumption DEF FontsInv, SpansOK
<1> QED
  BY <1>2, <1>3, <1>6, <1>7, <1>8 DEF FontsInv, SpansOK

LEMMA FontFaceNumInv ==
  ASSUME FontsInv, NEW id \in Ids, FontFaceNum(id)
  PROVE  FontsInv'
<1>1. PICK a \in Objects : Takes(fonts, id, fonts', a)
  BY DEF FontFaceNum
<1>2. asked' = [asked EXCEPT ![id] = @ + 1] /\ spans' = spans
  BY DEF FontFaceNum
<1>3. spans \in SpanTable /\ asked \in [Ids -> Nat] /\ Right(fonts, spans, asked, Spans)
  BY DEF FontsInv, SpansOK
<1>4. /\ FontsOK(fonts') /\ Holding(fonts', spans, Spans)
      /\ \A k \in Ids : Refcount(fonts', k) =
                IF k = id THEN Cardinality(UsersIn(spans, Spans, k)) + asked[k] + 1
                ELSE Cardinality(UsersIn(spans, Spans, k)) + asked[k]
  <2>1. ASSUME NEW T \in SUBSET Spans, Right(fonts, spans, asked, T),
               NEW G, Takes(fonts, id, G, a)
        PROVE  /\ FontsOK(G) /\ Holding(G, spans, T)
               /\ \A k \in Ids : Refcount(G, k) =
                      IF k = id THEN Cardinality(UsersIn(spans, T, k)) + asked[k] + 1
                      ELSE Cardinality(UsersIn(spans, T, k)) + asked[k]
    BY <1>3, <2>1, Taken
  <2> QED
    BY <1>1, <1>3, <2>1
<1>5. /\ asked' \in [Ids -> Nat] /\ asked'[id] = asked[id] + 1
      /\ \A k \in Ids \ {id} : asked'[k] = asked[k]
  BY <1>2, <1>3
<1>6. \A k : Cardinality(UsersIn(spans, Spans, k)) \in Nat
  BY UsersFinite
<1>7. Accounted(fonts', spans, asked', Spans)
  <2> SUFFICES ASSUME NEW k \in Ids
               PROVE  Refcount(fonts', k) = Cardinality(UsersIn(spans, Spans, k)) + asked'[k]
    BY DEF Accounted
  <2>1. asked[k] \in Nat /\ Cardinality(UsersIn(spans, Spans, k)) \in Nat
    BY <1>3, <1>6
  <2> QED
    BY <1>4, <1>5, <2>1
<1> QED
  BY <1>2, <1>3, <1>4, <1>5, <1>7 DEF FontsInv, SpansOK, Right

\* A change of limits evicts what nobody holds.
LEMMA FontLimitsInv ==
  ASSUME FontsInv, NEW c \in Caches, NEW size, NEW count,
         CacheSet(fonts, c, shrink(fonts[c].cache, size, count), fonts'),
         UNCHANGED <<spans, asked>>
  PROVE  FontsInv'
<1>1. spans \in SpanTable /\ asked \in [Ids -> Nat] /\ Right(fonts, spans, asked, Spans)
  BY DEF FontsInv, SpansOK
<1>2. FontsOK(fonts)
  BY <1>1 DEF Right
<1>3. Shrunk(fonts[c].cache, shrink(fonts[c].cache, size, count))
  BY <1>2, ShrinkEffect DEF FontsOK
<1>4. FontsOK(fonts') /\ \A k : Refcount(fonts', k) = Refcount(fonts, k) /\ Keeps(fonts, fonts', k)
  BY <1>2, <1>3, ShrunkEffect
<1>5. Right(fonts', spans, asked, Spans)
  BY <1>1, <1>4, Steady
<1> QED
  BY <1>1, <1>5 DEF FontsInv, SpansOK

LEMMA FreeRendererInv ==
  ASSUME FontsInv, FreeRenderer
  PROVE  FontsInv'
<1>1. spans \in SpanTable /\ FontsOK(fonts)
  BY DEF FontsInv, SpansOK, Right
<1>2. spans' = spans /\ \A s \in Spans : spans[s] = NoSpan
  BY DEF FreeRenderer
<1>3. asked' = [id \in Ids |-> 0]
  BY DEF FreeRenderer
<1>4. /\ DOMAIN fonts' = Caches
      /\ \A c \in Caches : DOMAIN fonts'[c] = {"cache", "val", "max_size", "max_count"}
                           /\ fonts'[c].cache = init
  BY <1>1 DEF FreeRenderer, FontsOK, Caches
<1>5. Right(fonts', spans', asked', Spans)
  BY <1>2, <1>3, <1>4, NothingHeld
<1> QED
  BY <1>1, <1>2, <1>3, <1>5 DEF FontsInv, SpansOK, NoSpan

LEMMA FontsStep == FontsInv /\ [FontsNext]_fontVars => FontsInv'
<1> SUFFICES ASSUME FontsInv, [FontsNext]_fontVars
             PROVE  FontsInv'
  OBVIOUS
<1>1. ASSUME NEW s \in Spans, NEW id, LoadNoFont(s, id)
      PROVE  FontsInv'
  BY <1>1, NoFontInv DEF LoadNoFont
<1>2. ASSUME NEW s \in Spans, FreeSpan(s)
      PROVE  FontsInv'
  BY <1>2, NoFontInv DEF FreeSpan
<1>3. ASSUME NEW v, SetMemLimit(v)
      PROVE  FontsInv'
  <2>1. CacheSet(fonts, "mem", shrink(fonts["mem"].cache, v, fonts["mem"].max_count), fonts')
    BY <1>3 DEF SetMemLimit, CacheSet, FontsInv, Right, FontsOK, Caches
  <2> QED
    BY <1>3, <2>1, FontLimitsInv DEF SetMemLimit, Caches
<1>4. ASSUME NEW v, SetMmappedLimit(v)
      PROVE  FontsInv'
  <2>1. CacheSet(fonts, "mmapped", shrink(fonts["mmapped"].cache, fonts["mmapped"].max_size, v), fonts')
    BY <1>4 DEF SetMmappedLimit, CacheSet, FontsInv, Right, FontsOK, Caches
  <2> QED
    BY <1>4, <2>1, FontLimitsInv DEF SetMmappedLimit, Caches
<1>5. CASE UNCHANGED fontVars
  BY <1>5 DEF fontVars, FontsInv, SpansOK
<1> QED
  BY <1>1, <1>2, <1>3, <1>4, <1>5, LoadFontInv, CopyInv, FontFaceNumInv, FreeRendererInv
     DEF FontsNext

LEMMA FontsInvariance == FontsSpec => []FontsInv
  BY FontsStart, FontsStep, PTL DEF FontsSpec

\* A span that has a font points to an object that exists and that is the font
\* of its font_id, whatever is loaded, evicted or limited by whomever
\* (tr_font.t:131).
THEOREM HeldFontsStayAlive == FontsSpec => []HeldFontAlive
<1>1. FontsInv => HeldFontAlive
  BY DEF FontsInv, SpansOK, Right, Holding, HeldFontAlive
<1> QED
  BY <1>1, FontsInvariance, PTL

\* A font has the references of the spans that use it and those that
\* font_face_num() took, for any number of spans (tr_font.t:165-182).
THEOREM RefsStayAccounted == FontsSpec => []RefsAccounted
<1>1. FontsInv => RefsAccounted
  BY DEF FontsInv, Right, Accounted, RefsAccounted, Users, UsersIn
<1> QED
  BY <1>1, FontsInvariance, PTL
===============================================================================
