----------------------------- MODULE RecencyOrder ------------------------------
(***************************************************************************)
(* What an LRU cache promises a caller who holds one pair at a time: the   *)
(* keys in the order of their last use, and room made for a new one by     *)
(* dropping the least recently used keys, as few as will do.               *)
(***************************************************************************)
EXTENDS Integers, SequencesExt

CONSTANTS Keys, Bytes, Limits, Counts

VARIABLES
    order,      \* the cached keys, most recently used first
    inUse,      \* 1 while the caller holds the first of them, else 0
    max_size,
    max_count

vars == <<order, inUse, max_size, max_count>>

Members == {order[j] : j \in DOMAIN order}

\* the longest prefix of s within the limits, and its first least at any rate
SizeOf(s) == SumFunction([j \in DOMAIN s |-> Bytes[s[j]]])
Fits(s, size, count) == SizeOf(s) <= size /\ Len(s) <= count
Fit(s, size, count, least) ==
    LET fitting == {n \in 0..Len(s) : Fits(SubSeq(s, 1, n), size, count)}
    IN  SubSeq(s, 1, Max(fitting \cup {least}))

Init ==
    /\ order = << >>
    /\ inUse = 0
    /\ max_size \in Limits
    /\ max_count \in Counts

Use(k) ==
    /\ inUse = 0
    /\ \E j \in DOMAIN order : order[j] = k /\ order' = <<k>> \o RemoveAt(order, j)
    /\ inUse' = 1
    /\ UNCHANGED <<max_size, max_count>>

Release ==
    /\ inUse = 1
    /\ inUse' = 0
    /\ UNCHANGED <<order, max_size, max_count>>

Put(k) ==
    /\ inUse = 0
    /\ k \notin Members
    /\ order' = <<k>> \o Fit(order, max_size - Bytes[k], max_count - 1, 0)
    /\ inUse' = 1
    /\ UNCHANGED <<max_size, max_count>>

Shrink(s, n) ==
    /\ order' = Fit(order, s, n, inUse)
    /\ UNCHANGED <<inUse, max_size, max_count>>

Resize(s, n) ==
    /\ max_size' = s
    /\ max_count' = n
    /\ order' = Fit(order, s, n, inUse)
    /\ UNCHANGED inUse

Clear ==
    /\ order' = << >>
    /\ inUse' = 0
    /\ UNCHANGED <<max_size, max_count>>

Next ==
    \/ \E k \in Keys : Use(k) \/ Put(k)
    \/ Release
    \/ \E s \in Limits, n \in Counts : Shrink(s, n)
    \/ \E s \in Limits : Resize(s, max_count)
    \/ \E n \in Counts : Resize(max_size, n)
    \/ Clear

Spec == Init /\ [][Next]_vars
===============================================================================
