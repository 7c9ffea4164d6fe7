------------------------------- MODULE LRUCache --------------------------------
(***************************************************************************)
(* A cache object of terra/lrucache.t and its callers, who keep the index  *)
(* that get() and put() gave them until they forget it.  A call that       *)
(* shrinks the cache evicts pairs one at a time: nothing else runs         *)
(* meanwhile, and the pair that goes is freed before the loop looks again. *)
(* A caller may add to the memory of a pair it holds, as the renderer adds *)
(* images to the glyph runs it has in a cache (tr_rasterize.t:177).        *)
(* MaxHolds bounds the references held at once, and MaxGrow what is added. *)
(***************************************************************************)
EXTENDS CachePairs, Functions

CONSTANTS Keys, Bytes, Limits, Counts, MaxHolds, MaxGrow

ASSUME BytesAssumption == Bytes \in [Keys -> Nat \ {0}]
ASSUME LimitsAssumption == Limits \subseteq Nat /\ Counts \subseteq Nat
ASSUME KeysAssumption == IsFiniteSet(Keys)
ASSUME BoundsAssumption == MaxHolds \in Nat /\ MaxGrow \in Nat

VARIABLES
    cache,      \* the cache object
    max_size,
    max_count,
    held,       \* the references to each key and the index they were given
    call,       \* the shrinking call under way and the limits it shrinks to
    single      \* history: the callers held one pair at a time and none grew

vars == <<cache, max_size, max_count, held, call>>

NoCall == [op |-> "none"]
PutCall(k) == [op |-> "put", key |-> k, size |-> max_size - Bytes[k], count |-> max_count - 1]
ShrinkCall(s, n) == [op |-> "shrink", size |-> s, count |-> n]

NotHeld == [n |-> 0, at |-> NoLink]
TotalHeld == SumFunction([k \in Keys |-> held[k].n])
Memory == SumFunction([i \in cache.indices |-> cache.item[i].bytes])
-------------------------------------------------------------------------------
Init ==
    /\ cache = init
    /\ max_size \in Limits
    /\ max_count \in Counts
    /\ held = [k \in Keys |-> NotHeld]
    /\ call = NoCall

\* get() of a key that is not cached returns no index and changes nothing
Get(k) ==
    /\ call = NoCall
    /\ TotalHeld < MaxHolds
    /\ IndexOf(cache, k) # NoLink
    /\ cache' = get(cache, IndexOf(cache, k))
    /\ held' = [held EXCEPT ![k] = [n |-> @.n + 1, at |-> IndexOf(cache, k)]]
    /\ UNCHANGED <<max_size, max_count, call>>

\* putting a key that is there is wrong usage (lrucache.t:201)
BeginPut(k) ==
    /\ call = NoCall
    /\ TotalHeld < MaxHolds
    /\ IndexOf(cache, k) = NoLink
    /\ call' = PutCall(k)
    /\ UNCHANGED <<cache, max_size, max_count, held>>

\* shrink(), and the shrink() of max_size = v and max_count = v
BeginShrink(s, n) ==
    /\ call = NoCall
    /\ call' = ShrinkCall(s, n)
    /\ UNCHANGED <<cache, max_size, max_count, held>>

SetMaxSize(v) ==
    /\ call = NoCall
    /\ max_size' = v
    /\ call' = ShrinkCall(v, max_count)
    /\ UNCHANGED <<cache, max_count, held>>

SetMaxCount(v) ==
    /\ call = NoCall
    /\ max_count' = v
    /\ call' = ShrinkCall(max_size, v)
    /\ UNCHANGED <<cache, max_size, held>>

MustEvict == Overfull(cache, call.size, call.count) /\ MayEvict(cache)

Evict ==
    /\ call # NoCall
    /\ MustEvict
    /\ cache' = evict(cache)
    /\ UNCHANGED <<max_size, max_count, held, call>>

EndPut ==
    /\ call.op = "put"
    /\ ~MustEvict
    /\ cache' = insert(cache, call.key, Bytes[call.key])
    /\ held' = [held EXCEPT ![call.key] = [n |-> 1, at |-> NewIndex(cache.pairs)]]
    /\ call' = NoCall
    /\ UNCHANGED <<max_size, max_count>>

EndShrink ==
    /\ call.op = "shrink"
    /\ ~MustEvict
    /\ call' = NoCall
    /\ UNCHANGED <<cache, max_size, max_count, held>>

Forget(k) ==
    /\ call = NoCall
    /\ held[k].n > 0
    /\ cache' = forget(cache, held[k].at)
    /\ held' = [held EXCEPT ![k] = IF @.n = 1 THEN NotHeld ELSE [n |-> @.n - 1, at |-> @.at]]
    /\ UNCHANGED <<max_size, max_count, call>>

\* clear() drops the pairs whatever their references, so callers drop theirs
Clear ==
    /\ call = NoCall
    /\ cache' = init
    /\ held' = [k \in Keys |-> NotHeld]
    /\ UNCHANGED <<max_size, max_count, call>>

\* a caller makes a pair it holds take more memory
Grow(k) ==
    /\ call = NoCall
    /\ held[k].n > 0
    /\ Memory - cache.size < MaxGrow
    /\ cache' = [cache EXCEPT !.item[held[k].at].bytes = @ + 1]
    /\ UNCHANGED <<max_size, max_count, held, call>>

Next ==
    \/ \E k \in Keys : Get(k) \/ BeginPut(k) \/ Forget(k) \/ Grow(k)
    \/ \E s \in Limits, n \in Counts : BeginShrink(s, n)
    \/ \E v \in Limits : SetMaxSize(v)
    \/ \E v \in Counts : SetMaxCount(v)
    \/ Evict
    \/ EndPut
    \/ EndShrink
    \/ Clear

Spec == Init /\ [][Next]_vars
-------------------------------------------------------------------------------
\* The list, the set of indices, the items and count are of one cache: each
\* link is in the set once, under a key no other link has, and the key of a
\* put() under way is not there (lrucache.t:180-208).
TypeOK ==
    /\ Coherent(cache, Keys)
    /\ max_size \in Nat /\ max_count \in Nat
    /\ held \in [Keys -> [n : Nat, at : Int]]
    /\ call.op = "put" => call.key \in Keys \ Cached(cache)

\* An index that was given out stays good until it is forgotten: whatever is
\* put, evicted, moved or resized, it names the pair it was given for, which
\* has exactly the references its callers hold (lrucache.t:8-9).
HandlesValid ==
    \A k \in Keys :
        IF held[k].n > 0
        THEN /\ IsLink(cache.pairs, held[k].at)
             /\ cache.item[held[k].at].key = k
             /\ cache.item[held[k].at].refcount = held[k].n
        ELSE \A i \in cache.indices : cache.item[i].key = k => ~Referenced(cache, i)

\* first_active_index is a pair that somebody holds, so that forget() never
\* moves a pair behind one that was evicted (lrucache.t:217-221).
ActiveIsHeld ==
    cache.first_active_index # NoLink =>
        \E k \in Keys : held[k].n > 0 /\ held[k].at = cache.first_active_index

\* A cache in the middle of a call already counts as what it will be when the
\* call returns: the pairs that will be evicted are gone and the new one is in.
Shown == INSTANCE RecencyOrder WITH order <- KeysInOrder(cache), inUse <- TotalHeld
Kept == Shown!Fit(KeysInOrder(cache), call.size, call.count, TotalHeld)
Order == CASE call.op = "none"   -> KeysInOrder(cache)
           [] call.op = "shrink" -> Kept
           [] call.op = "put"    -> <<call.key>> \o Kept

InUse == IF call.op = "put" THEN 1 ELSE TotalHeld
Recency == INSTANCE RecencyOrder WITH order <- Order, inUse <- InUse

\* The calls that callers who hold one pair at a time make; single is FALSE for
\* good once others were made.
OneHeld == TotalHeld + (IF call.op = "put" THEN 1 ELSE 0) <= 1
StaysSingle == OneHeld' /\ \A k \in Keys : ~Grow(k)
SingleInit == Init /\ single = TRUE
SingleNext == Next /\ single' = (single /\ StaysSingle)
SingleSpec == SingleInit /\ [][SingleNext]_<<vars, single>>

\* To a caller who holds one pair at a time the cache is a least-recently-used
\* cache (lrucache.t:160-225): it drops the keys used longest ago, and as few as
\* will do.
SingleKeepsRecency ==
    /\ Recency!Init
    /\ [][single' => [Recency!Next]_Recency!vars]_<<vars, single>>
===============================================================================
