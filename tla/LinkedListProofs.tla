--------------------------- MODULE LinkedListProofs ----------------------------
(***************************************************************************)
(* What the operations of LinkedList preserve, for lists of any length.    *)
(***************************************************************************)
EXTENDS LinkedList, FiniteSets, FiniteSetTheorems, SequenceTheorems, WellFoundedInduction, TLAPS

LEMMA EmptyInv == ListInv(empty)
  BY DEF ListInv, Typed, FreeOnce, Chained, empty, Slots, Freed, Links, NoLink

\* The assert of link(i) is true of the links of the list and of no free slot.
LEMMA CheckExact ==
  ASSUME NEW L, ListInv(L), NEW i \in Slots(L)
  PROVE  IsLink(L, i) <=> i \in Links(L)
  BY DEF ListInv, Typed, FreeOnce, Chained, IsLink, Links, NoLink

\* An unlinked slot points nowhere and is pointed to by nothing; everything
\* else is as it was.
LEMMA UnlinkFields ==
  ASSUME NEW L, Typed(L), NEW i \in Slots(L)
  PROVE  /\ DOMAIN unlink(L, i) = DOMAIN L
         /\ unlink(L, i).count = L.count
         /\ unlink(L, i).free = L.free
         /\ unlink(L, i).next = [j \in Slots(L) |-> IF j = i THEN NoLink
                                           ELSE IF j = L.prev[i] THEN L.next[i] ELSE L.next[j]]
         /\ unlink(L, i).prev = [j \in Slots(L) |-> IF j = i THEN NoLink
                                           ELSE IF j = L.next[i] THEN L.prev[i] ELSE L.prev[j]]
         /\ unlink(L, i).first = IF L.prev[i] = NoLink THEN L.next[i] ELSE L.first
         /\ unlink(L, i).last = IF L.next[i] = NoLink THEN L.prev[i] ELSE L.last
  BY DEF unlink, Typed

\* Unlinking a slot of the chain closes the chain behind it.
LEMMA UnlinkChained ==
  ASSUME NEW L, Typed(L), NEW S \in SUBSET Slots(L), Chained(L, S), NEW i \in S
  PROVE  /\ Typed(unlink(L, i))
         /\ Slots(unlink(L, i)) = Slots(L)
         /\ unlink(L, i).free = L.free
         /\ unlink(L, i).count = L.count
         /\ Chained(unlink(L, i), S \ {i})
<1> DEFINE U == unlink(L, i)
<1>1. /\ DOMAIN U = DOMAIN L
      /\ U.count = L.count
      /\ U.free = L.free
      /\ U.next = [j \in Slots(L) |-> IF j = i THEN NoLink
                                      ELSE IF j = L.prev[i] THEN L.next[i] ELSE L.next[j]]
      /\ U.prev = [j \in Slots(L) |-> IF j = i THEN NoLink
                                      ELSE IF j = L.next[i] THEN L.prev[i] ELSE L.prev[j]]
      /\ U.first = IF L.prev[i] = NoLink THEN L.next[i] ELSE L.first
      /\ U.last = IF L.next[i] = NoLink THEN L.prev[i] ELSE L.last
  BY UnlinkFields
<1> HIDE DEF U
<1>2. Slots(U) = Slots(L)
  BY <1>1 DEF Slots
<1>3. Typed(U)
  BY <1>1, <1>2 DEF Typed, NoLink
<1>a. \A j \in Slots(L) : U.next[j] # NoLink => U.prev[U.next[j]] = j
  BY <1>1 DEF Chained, Typed, NoLink, Slots
<1>b. \A j \in Slots(L) : U.prev[j] # NoLink => U.next[U.prev[j]] = j
  BY <1>1 DEF Chained, Typed, NoLink, Slots
<1>c. \A j \in S \ {i} : U.next[j] = NoLink <=> j = U.last
  BY <1>1 DEF Chained, Typed, NoLink, Slots
<1>d. \A j \in S \ {i} : U.prev[j] = NoLink <=> j = U.first
  BY <1>1 DEF Chained, Typed, NoLink, Slots
<1>e. \A j \in Slots(L) \ (S \ {i}) : U.next[j] = NoLink /\ U.prev[j] = NoLink
  BY <1>1 DEF Chained, Typed, NoLink, Slots
<1>f. U.first # NoLink => U.first \in S \ {i}
  <2>1. CASE L.prev[i] = NoLink
    <3>1. U.first = L.next[i]
      BY <1>1, <2>1
    <3>2. L.next[i] # NoLink => L.next[i] \in Slots(L) /\ L.prev[L.next[i]] = i
      BY DEF Chained, Typed
    <3>3. i # NoLink
      BY DEF Typed, NoLink
    <3>4. L.next[i] # NoLink => L.next[i] \in S
      BY <3>2, <3>3 DEF Chained
    <3> QED
      BY <2>1, <3>1, <3>2, <3>3, <3>4
  <2>2. CASE L.prev[i] # NoLink
    <3>1. U.first = L.first /\ L.first # i
      BY <1>1, <2>2 DEF Chained
    <3> QED
      BY <3>1 DEF Chained
  <2> QED
    BY <2>1, <2>2
<1>g. U.last # NoLink => U.last \in S \ {i}
  <2>1. CASE L.next[i] = NoLink
    <3>1. U.last = L.prev[i]
      BY <1>1, <2>1
    <3>2. L.prev[i] # NoLink => L.prev[i] \in Slots(L) /\ L.next[L.prev[i]] = i
      BY DEF Chained, Typed
    <3>3. i # NoLink
      BY DEF Typed, NoLink
    <3>4. L.prev[i] # NoLink => L.prev[i] \in S
      BY <3>2, <3>3 DEF Chained
    <3> QED
      BY <2>1, <3>1, <3>2, <3>3, <3>4
  <2>2. CASE L.next[i] # NoLink
    <3>1. U.last = L.last /\ L.last # i
      BY <1>1, <2>2 DEF Chained
    <3> QED
      BY <3>1 DEF Chained
  <2> QED
    BY <2>1, <2>2
<1>h. U.first = NoLink <=> U.last = NoLink
  BY <1>1 DEF Chained, Typed, NoLink, Slots
<1>4. Chained(U, S \ {i})
  BY <1>2, <1>a, <1>b, <1>c, <1>d, <1>e, <1>f, <1>g, <1>h DEF Chained
<1> QED
  BY <1>1, <1>2, <1>3, <1>4 DEF U

LEMMA LinkFields ==
  ASSUME NEW L, Typed(L), NEW i \in Slots(L), NEW p, NEW n
  PROVE  /\ DOMAIN link_between(L, p, n, i) = DOMAIN L
         /\ link_between(L, p, n, i).count = L.count
         /\ link_between(L, p, n, i).free = L.free
         /\ link_between(L, p, n, i).next
              = [j \in Slots(L) |-> IF j = i THEN n ELSE IF j = p THEN i ELSE L.next[j]]
         /\ link_between(L, p, n, i).prev
              = [j \in Slots(L) |-> IF j = i THEN p ELSE IF j = n THEN i ELSE L.prev[j]]
         /\ link_between(L, p, n, i).first = IF p = NoLink THEN i ELSE L.first
         /\ link_between(L, p, n, i).last = IF n = NoLink THEN i ELSE L.last
  BY DEF link_between, Typed

\* p and n are next to each other in the chain, or at its ends.
Neighbours(L, p, n) ==
    /\ IF p = NoLink THEN n = L.first ELSE L.next[p] = n
    /\ IF n = NoLink THEN p = L.last ELSE L.prev[n] = p

\* Linking a loose slot between two neighbours makes it part of the chain.
LEMMA LinkChained ==
  ASSUME NEW L, Typed(L), NEW S \in SUBSET Slots(L), Chained(L, S),
         NEW i \in Slots(L) \ S, NEW p \in S \cup {NoLink}, NEW n \in S \cup {NoLink},
         Neighbours(L, p, n)
  PROVE  /\ Typed(link_between(L, p, n, i))
         /\ Slots(link_between(L, p, n, i)) = Slots(L)
         /\ link_between(L, p, n, i).free = L.free
         /\ link_between(L, p, n, i).count = L.count
         /\ Chained(link_between(L, p, n, i), S \cup {i})
<1> DEFINE U == link_between(L, p, n, i)
<1>1. /\ DOMAIN U = DOMAIN L
      /\ U.count = L.count
      /\ U.free = L.free
      /\ U.next = [j \in Slots(L) |-> IF j = i THEN n ELSE IF j = p THEN i ELSE L.next[j]]
      /\ U.prev = [j \in Slots(L) |-> IF j = i THEN p ELSE IF j = n THEN i ELSE L.prev[j]]
      /\ U.first = IF p = NoLink THEN i ELSE L.first
      /\ U.last = IF n = NoLink THEN i ELSE L.last
  BY LinkFields
<1> HIDE DEF U
<1>2. Slots(U) = Slots(L)
  BY <1>1 DEF Slots
<1>3. Typed(U)
  BY <1>1, <1>2 DEF Neighbours, Typed, NoLink
<1>a. \A j \in Slots(L) : U.next[j] # NoLink => U.prev[U.next[j]] = j
  BY <1>1 DEF Neighbours, Chained, Typed, NoLink, Slots
<1>b. \A j \in Slots(L) : U.prev[j] # NoLink => U.next[U.prev[j]] = j
  BY <1>1 DEF Neighbours, Chained, Typed, NoLink, Slots
<1>c. \A j \in S \cup {i} : U.next[j] = NoLink <=> j = U.last
  BY <1>1 DEF Neighbours, Chained, Typed, NoLink, Slots
<1>d. \A j \in S \cup {i} : U.prev[j] = NoLink <=> j = U.first
  BY <1>1 DEF Neighbours, Chained, Typed, NoLink, Slots
<1>e. \A j \in Slots(L) \ (S \cup {i}) : U.next[j] = NoLink /\ U.prev[j] = NoLink
  BY <1>1 DEF Neighbours, Chained, Typed, NoLink, Slots
<1>f. /\ U.first # NoLink => U.first \in S \cup {i}
      /\ U.last # NoLink => U.last \in S \cup {i}
      /\ U.first = NoLink <=> U.last = NoLink
  BY <1>1 DEF Neighbours, Chained, Typed, NoLink, Slots
<1>4. Chained(U, S \cup {i})
  BY <1>2, <1>a, <1>b, <1>c, <1>d, <1>e, <1>f DEF Chained
<1> QED
  BY <1>1, <1>2, <1>3, <1>4 DEF U

\* A new link takes a free index, or the index after the last slot, and is not
\* in the chain yet.
LEMMA NewlinkInv ==
  ASSUME NEW L, ListInv(L)
  PROVE  /\ NewIndex(L) \in Slots(newlink(L))
         /\ NewIndex(L) \notin Links(L)
         /\ Links(L) \subseteq Slots(L)
         /\ Links(newlink(L)) = Links(L) \cup {NewIndex(L)}
         /\ Slots(newlink(L)) = Slots(L) \cup {NewIndex(L)}
         /\ Typed(newlink(L)) /\ FreeOnce(newlink(L)) /\ Chained(newlink(L), Links(L))
         /\ newlink(L).first = L.first /\ newlink(L).last = L.last
         /\ newlink(L).count = L.count + 1
         /\ \A j \in Links(L) : newlink(L).next[j] = L.next[j] /\ newlink(L).prev[j] = L.prev[j]
<1> DEFINE N == newlink(L)
           i == NewIndex(L)
<1>1. /\ DOMAIN N = DOMAIN L
      /\ N.count = L.count + 1
      /\ N.free = SubSeq(L.free, 1, Len(L.free) - 1)
      /\ N.next = Grown(L.next, i)
      /\ N.prev = Grown(L.prev, i)
      /\ N.first = L.first
      /\ N.last = L.last
  BY DEF ListInv, Typed, newlink
<1> HIDE DEF N
<1>2. Links(L) \subseteq Slots(L)
  BY DEF Links
<1>0. /\ L.free \in Seq(Nat) /\ L.count \in Nat
      /\ Len(L.free) \in Nat /\ DOMAIN L.free = 1..Len(L.free)
      /\ Slots(L) = 0..(L.count + Len(L.free) - 1)
  BY LenProperties DEF ListInv, Typed
<1>3. CASE L.free # << >>
  <2>1. /\ i = L.free[Len(L.free)]
        /\ Len(L.free) \in DOMAIN L.free
        /\ Len(L.free) \in Nat \ {0}
    BY <1>0, <1>3, EmptySeq DEF NewIndex
  <2>2. i \in Slots(L) /\ i \in Freed(L)
    BY <2>1 DEF Freed, ListInv, FreeOnce
  <2>3. /\ Len(N.free) = Len(L.free) - 1
        /\ DOMAIN N.free = 1..(Len(L.free) - 1)
        /\ \A j \in DOMAIN N.free : N.free[j] = L.free[j]
        /\ N.free \in Seq(Nat)
    <3> DEFINE m == Len(L.free) - 1
    <3>1. m \in Nat /\ m - 1 + 1 = m /\ (IF 1 <= m THEN m - 1 + 1 ELSE 0) = m
      BY <2>1
    <3>2. \A j \in 1..m : L.free[j] \in Nat /\ 1 + j - 1 = j
      BY <1>0, <2>1, ElementOfSeq
    <3> HIDE DEF m
    <3>3. /\ SubSeq(L.free, 1, m) \in Seq(Nat)
          /\ Len(SubSeq(L.free, 1, m)) = m
          /\ \A j \in 1..m : SubSeq(L.free, 1, m)[j] = L.free[j]
      BY <3>1, <3>2, SubSeqProperties
    <3> QED
      BY <1>1, <3>3, LenProperties DEF m
  <2>4. /\ L.next \in [Slots(L) -> Slots(L) \cup {NoLink}] /\ L.next[i] = NoLink
        /\ L.prev \in [Slots(L) -> Slots(L) \cup {NoLink}] /\ L.prev[i] = NoLink
    BY <2>2 DEF ListInv, Typed, Chained, Links
  <2>5. N.next = L.next /\ N.prev = L.prev /\ Slots(N) = Slots(L)
    <3>1. Grown(L.next, i) = L.next /\ Grown(L.prev, i) = L.prev
      BY <2>2, <2>4 DEF Grown
    <3> QED
      BY <1>1, <3>1 DEF Slots
  <2>6. Freed(N) = Freed(L) \ {i}
    <3>1. ASSUME NEW j \in DOMAIN L.free, j # Len(L.free)
          PROVE  j \in DOMAIN N.free /\ L.free[j] # i
      <4>1. j \in DOMAIN N.free
        BY <1>0, <2>1, <2>3, <3>1
      <4> QED
        BY <2>1, <3>1, <4>1 DEF ListInv, FreeOnce
    <3>2. DOMAIN N.free \subseteq DOMAIN L.free /\ Len(L.free) \notin DOMAIN N.free
      BY <1>0, <2>1, <2>3
    <3> QED
      BY <2>1, <2>3, <3>1, <3>2 DEF Freed
  <2>7. Links(N) = Links(L) \cup {i} /\ i \notin Links(L)
    BY <2>2, <2>5, <2>6 DEF Links
  <2>8. Typed(N)
    <3>1. Slots(N) = 0..(N.count + Len(N.free) - 1) /\ N.count \in Nat
      <4>1. \A c \in Nat, m \in Nat : (c + 1) + (m - 1) - 1 = c + m - 1
        OBVIOUS
      <4>2. N.count = L.count + 1 /\ Len(N.free) = Len(L.free) - 1
        BY <1>1, <2>3
      <4>3. (L.count + 1) + (Len(L.free) - 1) - 1 = L.count + Len(L.free) - 1
        BY <1>0, <4>1
      <4>4. N.count + Len(N.free) - 1 = L.count + Len(L.free) - 1
        BY ONLY <4>2, <4>3
      <4>5. N.count \in Nat
        BY <1>0, <4>2
      <4> QED
        BY <1>0, <2>5, <4>4, <4>5
    <3> QED
      BY <1>1, <2>3, <2>5, <3>1 DEF ListInv, Typed
  <2>9. FreeOnce(N)
    <3>1. DOMAIN N.free \subseteq DOMAIN L.free
      BY <1>0, <2>3
    <3> QED
      BY <2>3, <2>5, <3>1 DEF ListInv, FreeOnce
  <2>10. Chained(N, Links(L))
    BY <1>1, <2>5 DEF ListInv, Chained
  <2> QED
    BY <1>1, <1>2, <2>2, <2>5, <2>7, <2>8, <2>9, <2>10 DEF N
<1>4. CASE L.free = << >>
  <2>1. i = L.count /\ Slots(L) = 0..(i - 1) /\ i \in Nat /\ Freed(L) = {}
    <3>1. Len(L.free) = 0 /\ DOMAIN L.free = {}
      BY <1>0, <1>4, EmptySeq
    <3> QED
      BY <1>0, <1>4, <3>1 DEF NewIndex, Freed
  <2>2. N.free = << >> /\ DOMAIN N.free = {} /\ Len(N.free) = 0 /\ N.free \in Seq(Nat)
    <3>1. Len(L.free) = 0
      BY <1>0, <1>4, EmptySeq
    <3>2. SubSeq(L.free, 1, -1) = << >>
      BY <1>4
    <3> QED
      BY <1>1, <3>1, <3>2, EmptySeq
  <2>3. Slots(N) = Slots(L) \cup {i} /\ Slots(N) = 0..i /\ i \notin Slots(L)
    BY <1>1, <2>1 DEF Slots, Grown
  <2>4. /\ N.next = [j \in Slots(N) |-> IF j = i THEN NoLink ELSE L.next[j]]
        /\ N.prev = [j \in Slots(N) |-> IF j = i THEN NoLink ELSE L.prev[j]]
    BY <1>1, <2>3 DEF Grown, Slots, ListInv, Typed
  <2>5. Freed(N) = {} /\ Links(N) = Links(L) \cup {i} /\ i \notin Links(L) /\ Links(L) = Slots(L)
    BY <2>1, <2>2, <2>3 DEF Freed, Links
  <2>6. Typed(N)
    <3>1. Slots(N) = 0..(N.count + Len(N.free) - 1) /\ N.count \in Nat
      BY <1>0, <1>1, <2>1, <2>2, <2>3
    <3>2. /\ N.next \in [Slots(N) -> Slots(N) \cup {NoLink}]
          /\ N.prev \in [Slots(N) -> Slots(N) \cup {NoLink}]
      BY <2>3, <2>4 DEF ListInv, Typed
    <3> QED
      BY <1>1, <2>2, <2>3, <3>1, <3>2 DEF ListInv, Typed
  <2>7. FreeOnce(N)
    BY <2>2 DEF FreeOnce
  <2>8. Chained(N, Links(L))
    <3>1. Chained(L, Slots(L)) /\ i # NoLink
      BY <2>1, <2>5 DEF ListInv, NoLink
    <3>2. \A j \in Slots(L) : /\ L.next[j] \in Slots(L) \cup {NoLink}
                              /\ L.prev[j] \in Slots(L) \cup {NoLink}
                              /\ N.next[j] = L.next[j] /\ N.prev[j] = L.prev[j]
      BY <2>3, <2>4 DEF ListInv, Typed
    <3>3. N.next[i] = NoLink /\ N.prev[i] = NoLink
      BY <2>3, <2>4
    <3> QED
      BY <1>1, <2>3, <2>5, <3>1, <3>2, <3>3 DEF Chained
  <2> QED
    BY <1>1, <1>2, <2>3, <2>4, <2>5, <2>6, <2>7, <2>8 DEF N
<1> QED
  BY <1>3, <1>4

\* A slot out of the chain may be freed.
LEMMA FreelinkInv ==
  ASSUME NEW L, Typed(L), FreeOnce(L), NEW i \in Links(L), Chained(L, Links(L) \ {i}),
         L.count # 0
  PROVE  /\ ListInv(freelink(L, i))
         /\ Slots(freelink(L, i)) = Slots(L)
         /\ Links(freelink(L, i)) = Links(L) \ {i}
         /\ freelink(L, i).count = L.count - 1
<1> DEFINE R == freelink(L, i)
<1>1. /\ DOMAIN R = DOMAIN L
      /\ R.count = L.count - 1
      /\ R.free = Append(L.free, i)
      /\ R.next = L.next /\ R.prev = L.prev
      /\ R.first = L.first /\ R.last = L.last
  BY DEF Typed, freelink
<1> HIDE DEF R
<1>2. Slots(R) = Slots(L) /\ i \in Slots(L) /\ i \notin Freed(L) /\ i \in Nat
  BY <1>1 DEF Slots, Links, Typed
<1>3. /\ R.free \in Seq(Nat)
      /\ Len(R.free) = Len(L.free) + 1
      /\ DOMAIN R.free = DOMAIN L.free \cup {Len(L.free) + 1}
      /\ \A j \in DOMAIN L.free : R.free[j] = L.free[j]
      /\ R.free[Len(L.free) + 1] = i
      /\ Len(L.free) + 1 \notin DOMAIN L.free
  BY <1>1, <1>2, AppendProperties, LenProperties DEF Typed
<1>4. Freed(R) = Freed(L) \cup {i}
  BY <1>3 DEF Freed
<1>5. Links(R) = Links(L) \ {i}
  BY <1>2, <1>4 DEF Links
<1>6. Typed(R)
  <2>1. R.count \in Nat /\ Slots(R) = 0..(R.count + Len(R.free) - 1)
    BY <1>1, <1>2, <1>3, LenProperties DEF Typed
  <2> QED
    BY <1>1, <1>2, <1>3, <2>1 DEF Typed
<1>7. FreeOnce(R)
  <2>1. \A j \in DOMAIN L.free : L.free[j] # i
    BY <1>2 DEF Freed
  <2> QED
    BY <1>2, <1>3, <2>1 DEF FreeOnce
<1>8. Chained(R, Links(R))
  BY <1>1, <1>2, <1>5 DEF Chained
<1> QED
  BY <1>1, <1>2, <1>5, <1>6, <1>7, <1>8 DEF ListInv, R

\* insert_after() adds the new link to a well-formed list.
LEMMA InsertAfterInv ==
  ASSUME NEW L, ListInv(L), NEW a \in Links(L) \cup {NoLink}, IsAnchor(L, a)
  PROVE  /\ ListInv(insert_after(L, a))
         /\ Links(insert_after(L, a)) = Links(L) \cup {NewIndex(L)}
         /\ NewIndex(L) \notin Links(L)
         /\ insert_after(L, a).count = L.count + 1
<1> DEFINE N == newlink(L)
           i == NewIndex(L)
           p == a
           n == IF a = NoLink THEN NoLink ELSE N.next[a]
           R == link_between(N, p, n, i)
<1>1. /\ i \in Slots(N) /\ i \notin Links(L) /\ Links(L) \subseteq Slots(L)
      /\ Slots(N) = Slots(L) \cup {i} /\ Links(N) = Links(L) \cup {i}
      /\ Typed(N) /\ FreeOnce(N) /\ Chained(N, Links(L))
      /\ N.first = L.first /\ N.last = L.last /\ N.count = L.count + 1
  BY NewlinkInv
<1>2. insert_after(L, a) = R
  BY DEF insert_after, link_after
<1> HIDE DEF N
<1>3. NoLink \notin Slots(N)
  BY <1>1 DEF Typed, NoLink
<1>4. \A j \in Links(L) : /\ N.next[j] \in Links(L) \cup {NoLink}
                         /\ N.prev[j] \in Links(L) \cup {NoLink}
  BY <1>1, <1>3 DEF Chained, Typed
<1>5. /\ p \in Links(L) \cup {NoLink} /\ n \in Links(L) \cup {NoLink}
      /\ Neighbours(N, p, n)
  <2>1. CASE a = NoLink
    <3>1. N.last = NoLink /\ N.first = NoLink
      BY <1>1, <2>1 DEF IsAnchor, Chained
    <3> QED
      BY <2>1, <3>1 DEF Neighbours
  <2>2. CASE a # NoLink
    <3>1. a \in Links(L) /\ a \in Slots(N) /\ p = a /\ n = N.next[a]
      BY <1>1, <2>2
    <3>2. n \in Links(L) \cup {NoLink}
      BY <1>4, <3>1
    <3> HIDE DEF n
    <3> QED
      BY <1>1, <2>2, <3>1, <3>2 DEF Chained, Neighbours
  <2> QED
    BY <2>1, <2>2
<1> HIDE DEF p, n
<1>6. /\ Typed(R) /\ Slots(R) = Slots(N) /\ R.free = N.free /\ R.count = N.count
      /\ Chained(R, Links(L) \cup {i})
  <2>1. Links(L) \in SUBSET Slots(N) /\ i \in Slots(N) \ Links(L)
    BY <1>1
  <2> HIDE DEF i
  <2> QED
    BY <1>1, <1>5, <2>1, LinkChained
<1>7. Links(R) = Links(N) /\ FreeOnce(R)
  BY <1>1, <1>6 DEF Links, Freed, FreeOnce
<1> QED
  BY <1>1, <1>2, <1>6, <1>7 DEF ListInv

\* insert_before() adds the new link to a well-formed list.
LEMMA InsertBeforeInv ==
  ASSUME NEW L, ListInv(L), NEW a \in Links(L) \cup {NoLink}, IsAnchor(L, a)
  PROVE  /\ ListInv(insert_before(L, a))
         /\ Links(insert_before(L, a)) = Links(L) \cup {NewIndex(L)}
         /\ NewIndex(L) \notin Links(L)
         /\ insert_before(L, a).count = L.count + 1
<1> DEFINE N == newlink(L)
           i == NewIndex(L)
           p == IF a = NoLink THEN NoLink ELSE N.prev[a]
           n == a
           R == link_between(N, p, n, i)
<1>1. /\ i \in Slots(N) /\ i \notin Links(L) /\ Links(L) \subseteq Slots(L)
      /\ Slots(N) = Slots(L) \cup {i} /\ Links(N) = Links(L) \cup {i}
      /\ Typed(N) /\ FreeOnce(N) /\ Chained(N, Links(L))
      /\ N.first = L.first /\ N.last = L.last /\ N.count = L.count + 1
  BY NewlinkInv
<1>2. insert_before(L, a) = R
  BY DEF insert_before, link_before
<1> HIDE DEF N
<1>3. NoLink \notin Slots(N)
  BY <1>1 DEF Typed, NoLink
<1>4. \A j \in Links(L) : /\ N.next[j] \in Links(L) \cup {NoLink}
                         /\ N.prev[j] \in Links(L) \cup {NoLink}
  BY <1>1, <1>3 DEF Chained, Typed
<1>5. /\ p \in Links(L) \cup {NoLink} /\ n \in Links(L) \cup {NoLink}
      /\ Neighbours(N, p, n)
  <2>1. CASE a = NoLink
    <3>1. N.last = NoLink /\ N.first = NoLink
      BY <1>1, <2>1 DEF IsAnchor, Chained
    <3> QED
      BY <2>1, <3>1 DEF Neighbours
  <2>2. CASE a # NoLink
    <3>1. a \in Links(L) /\ a \in Slots(N) /\ n = a /\ p = N.prev[a]
      BY <1>1, <2>2
    <3>2. p \in Links(L) \cup {NoLink}
      BY <1>4, <3>1
    <3> HIDE DEF p
    <3> QED
      BY <1>1, <2>2, <3>1, <3>2 DEF Chained, Neighbours
  <2> QED
    BY <2>1, <2>2
<1> HIDE DEF p, n
<1>6. /\ Typed(R) /\ Slots(R) = Slots(N) /\ R.free = N.free /\ R.count = N.count
      /\ Chained(R, Links(L) \cup {i})
  <2>1. Links(L) \in SUBSET Slots(N) /\ i \in Slots(N) \ Links(L)
    BY <1>1
  <2> HIDE DEF i
  <2> QED
    BY <1>1, <1>5, <2>1, LinkChained
<1>7. Links(R) = Links(N) /\ FreeOnce(R)
  BY <1>1, <1>6 DEF Links, Freed, FreeOnce
<1> QED
  BY <1>1, <1>2, <1>6, <1>7 DEF ListInv

\* count counts the links of a well-formed list.
LEMMA CountLinks ==
  ASSUME NEW L, Typed(L), FreeOnce(L)
  PROVE  IsFiniteSet(Links(L)) /\ Cardinality(Links(L)) = L.count
<1> DEFINE c == L.count
           m == Len(L.free)
<1>1. /\ c \in Nat /\ m \in Nat
      /\ DOMAIN L.free = 1..m
      /\ L.free \in [1..m -> Nat]
      /\ Slots(L) = 0..(c + m - 1)
  BY LenProperties DEF Typed
<1> HIDE DEF c, m
<1>2. IsFiniteSet(Slots(L)) /\ Cardinality(Slots(L)) = c + m
  <2> DEFINE b == c + m - 1
  <2>1. b \in Int /\ (IF 0 > b THEN 0 ELSE b - 0 + 1) = c + m
    BY <1>1
  <2>2. Slots(L) = 0..b
    BY <1>1
  <2> HIDE DEF b
  <2>3. IsFiniteSet(0..b) /\ Cardinality(0..b) = IF 0 > b THEN 0 ELSE b - 0 + 1
    BY <2>1, FS_Interval
  <2> QED
    BY <2>1, <2>2, <2>3
<1>3. Freed(L) \subseteq Slots(L)
  BY DEF FreeOnce, Freed
<1>4. L.free \in Bijection(1..m, Freed(L))
  BY <1>1 DEF Freed, FreeOnce, Bijection, Injection, Surjection, IsInjective
<1>5. IsFiniteSet(Freed(L)) /\ Cardinality(Freed(L)) = m
  <2>1. IsFiniteSet(1..m) /\ Cardinality(1..m) = IF 1 > m THEN 0 ELSE m - 1 + 1
    BY <1>1, FS_Interval
  <2>2. ExistsBijection(1..m, Freed(L))
    BY <1>4 DEF ExistsBijection
  <2>3. IsFiniteSet(Freed(L)) /\ Cardinality(Freed(L)) = Cardinality(1..m)
    BY <2>1, <2>2, FS_Bijection
  <2> QED
    BY <1>1, <2>1, <2>3
<1>6. Slots(L) \cap Freed(L) = Freed(L)
  BY <1>3
<1>7. /\ IsFiniteSet(Links(L))
      /\ Cardinality(Links(L)) = Cardinality(Slots(L)) - Cardinality(Slots(L) \cap Freed(L))
  BY <1>2, FS_Difference DEF Links
<1>8. Cardinality(Links(L)) = c
  <2>1. Cardinality(Links(L)) = (c + m) - m
    BY ONLY <1>2, <1>5, <1>6, <1>7, Zenon
  <2>2. (c + m) - m = c
    BY <1>1
  <2> QED
    BY <2>1, <2>2
<1> QED
  BY <1>7, <1>8 DEF c

\* remove() takes the link out of a well-formed list.
LEMMA RemoveInv ==
  ASSUME NEW L, ListInv(L), NEW i \in Links(L)
  PROVE  /\ ListInv(remove(L, i))
         /\ Links(remove(L, i)) = Links(L) \ {i}
         /\ Slots(remove(L, i)) = Slots(L)
         /\ remove(L, i).count = L.count - 1
<1> DEFINE U == unlink(L, i)
<1>1. Links(L) \in SUBSET Slots(L)
  BY DEF Links
<1>2. /\ Typed(U) /\ Slots(U) = Slots(L) /\ U.free = L.free /\ U.count = L.count
      /\ Chained(U, Links(L) \ {i})
  BY <1>1, UnlinkChained DEF ListInv
<1> HIDE DEF U
<1>3. FreeOnce(U) /\ Links(U) = Links(L)
  BY <1>2 DEF ListInv, FreeOnce, Links, Freed
<1>4. U.count # 0
  <2>1. IsFiniteSet(Links(L)) /\ Cardinality(Links(L)) = L.count
    BY CountLinks DEF ListInv
  <2> QED
    BY <1>2, <2>1, FS_EmptySet
<1> QED
  BY <1>2, <1>3, <1>4, FreelinkInv DEF remove, U

\* move_after() only moves a link of a well-formed list.
LEMMA MoveAfterInv ==
  ASSUME NEW L, ListInv(L), NEW a \in Links(L), NEW i \in Links(L)
  PROVE  /\ ListInv(move_after(L, a, i))
         /\ Links(move_after(L, a, i)) = Links(L)
         /\ move_after(L, a, i).count = L.count
<1>1. CASE i = a
  BY <1>1 DEF move_after
<1>2. CASE i # a
  <2> DEFINE U == unlink(L, i)
             S == Links(L) \ {i}
             p == a
             n == U.next[a]
             R == link_between(U, p, n, i)
  <2>1. Links(L) \in SUBSET Slots(L) /\ i \in Slots(L)
    BY DEF Links
  <2>2. /\ Typed(U) /\ Slots(U) = Slots(L) /\ U.free = L.free /\ U.count = L.count
        /\ Chained(U, S)
    BY <2>1, UnlinkChained DEF ListInv
  <2>3. NoLink \notin Slots(U) /\ a \in S /\ S \in SUBSET Slots(U) /\ i \in Slots(U) \ S
    BY <1>2, <2>1, <2>2 DEF Typed, NoLink
  <2>4. move_after(L, a, i) = R
    BY <1>2, <2>3 DEF move_after, link_after
  <2> HIDE DEF U, S
  <2>5. U.next[a] \in S \cup {NoLink}
    <3>1. a \in Slots(U) /\ a # NoLink
      BY <2>3
    <3>2. U.next[a] \in Slots(U) \cup {NoLink}
      BY <2>2, <3>1 DEF Typed
    <3>3. U.next[a] # NoLink => U.prev[U.next[a]] = a
      BY <2>2, <3>1 DEF Chained
    <3>4. \A j \in Slots(U) \ S : U.prev[j] = NoLink
      BY <2>2 DEF Chained
    <3> QED
      BY ONLY <3>1, <3>2, <3>3, <3>4
  <2>6. p \in S \cup {NoLink} /\ n \in S \cup {NoLink} /\ Neighbours(U, p, n)
    BY <2>2, <2>3, <2>5 DEF Chained, Neighbours
  <2> HIDE DEF p, n
  <2>7. /\ Typed(R) /\ Slots(R) = Slots(U) /\ R.free = U.free /\ R.count = U.count
        /\ Chained(R, S \cup {i})
    <3>1. Typed(U) /\ Chained(U, S)
      BY <2>2
    <3>2. S \in SUBSET Slots(U) /\ i \in Slots(U) \ S
      BY <2>3
    <3> HIDE DEF R
    <3>3. ASSUME NEW r, r = link_between(U, p, n, i)
          PROVE  /\ Typed(r) /\ Slots(r) = Slots(U) /\ r.free = U.free /\ r.count = U.count
                 /\ Chained(r, S \cup {i})
      BY <2>6, <3>1, <3>2, <3>3, LinkChained
    <3> QED
      BY <3>3 DEF R
  <2>8. S \cup {i} = Links(L)
    BY DEF S
  <2>9. Links(R) = Links(L) /\ FreeOnce(R)
    BY <2>2, <2>7 DEF ListInv, Links, Freed, FreeOnce
  <2> QED
    BY <2>2, <2>4, <2>7, <2>8, <2>9 DEF ListInv
<1> QED
  BY <1>1, <1>2

\* move_before() only moves a link of a well-formed list.
LEMMA MoveBeforeInv ==
  ASSUME NEW L, ListInv(L), NEW a \in Links(L), NEW i \in Links(L)
  PROVE  /\ ListInv(move_before(L, a, i))
         /\ Links(move_before(L, a, i)) = Links(L)
         /\ move_before(L, a, i).count = L.count
<1>1. CASE i = a
  BY <1>1 DEF move_before
<1>2. CASE i # a
  <2> DEFINE U == unlink(L, i)
             S == Links(L) \ {i}
             p == U.prev[a]
             n == a
             R == link_between(U, p, n, i)
  <2>1. Links(L) \in SUBSET Slots(L) /\ i \in Slots(L)
    BY DEF Links
  <2>2. /\ Typed(U) /\ Slots(U) = Slots(L) /\ U.free = L.free /\ U.count = L.count
        /\ Chained(U, S)
    BY <2>1, UnlinkChained DEF ListInv
  <2>3. NoLink \notin Slots(U) /\ a \in S /\ S \in SUBSET Slots(U) /\ i \in Slots(U) \ S
    BY <1>2, <2>1, <2>2 DEF Typed, NoLink
  <2>4. move_before(L, a, i) = R
    BY <1>2, <2>3 DEF move_before, link_before
  <2> HIDE DEF U, S
  <2>5. U.prev[a] \in S \cup {NoLink}
    <3>1. a \in Slots(U) /\ a # NoLink
      BY <2>3
    <3>2. U.prev[a] \in Slots(U) \cup {NoLink}
      BY <2>2, <3>1 DEF Typed
    <3>3. U.prev[a] # NoLink => U.next[U.prev[a]] = a
      BY <2>2, <3>1 DEF Chained
    <3>4. \A j \in Slots(U) \ S : U.next[j] = NoLink
      BY <2>2 DEF Chained
    <3> QED
      BY ONLY <3>1, <3>2, <3>3, <3>4
  <2>6. p \in S \cup {NoLink} /\ n \in S \cup {NoLink} /\ Neighbours(U, p, n)
    BY <2>2, <2>3, <2>5 DEF Chained, Neighbours
  <2> HIDE DEF p, n
  <2>7. /\ Typed(R) /\ Slots(R) = Slots(U) /\ R.free = U.free /\ R.count = U.count
        /\ Chained(R, S \cup {i})
    <3>1. Typed(U) /\ Chained(U, S)
      BY <2>2
    <3>2. S \in SUBSET Slots(U) /\ i \in Slots(U) \ S
      BY <2>3
    <3> HIDE DEF R
    <3>3. ASSUME NEW r, r = link_between(U, p, n, i)
          PROVE  /\ Typed(r) /\ Slots(r) = Slots(U) /\ r.free = U.free /\ r.count = U.count
                 /\ Chained(r, S \cup {i})
      BY <2>6, <3>1, <3>2, <3>3, LinkChained
    <3> QED
      BY <3>3 DEF R
  <2>8. S \cup {i} = Links(L)
    BY DEF S
  <2>9. Links(R) = Links(L) /\ FreeOnce(R)
    BY <2>2, <2>7 DEF ListInv, Links, Freed, FreeOnce
  <2> QED
    BY <2>2, <2>4, <2>7, <2>8, <2>9 DEF ListInv
<1> QED
  BY <1>1, <1>2
-------------------------------------------------------------------------------
(***************************************************************************)
(* The links in order.  A chain of links is followed one at a time, so     *)
(* what holds of all of it is shown by induction on the numbers.           *)
(***************************************************************************)
\* A set of numbers has a least one.
LEMMA LeastNumber ==
  ASSUME NEW T \in SUBSET Nat, T # {}
  PROVE  \E n \in T : \A m \in T : n <= m
<1> DEFINE R == OpToRel(<, Nat)
<1>1. \A m, n \in Nat : <<m, n>> \in R <=> m < n
  BY DEF OpToRel
<1>2. IsWellFoundedOn(R, Nat)
  BY NatLessThanWellFounded
<1> HIDE DEF R
<1>3. PICK n \in T : \A m \in T : ~(<<m, n>> \in R)
  BY <1>2, WFMin
<1>4. \A m \in T : ~(m < n)
  BY <1>1, <1>3
<1> QED
  BY <1>4

\* Induction, with the set of numbers that have the property.
LEMMA SetInduction ==
  ASSUME NEW S, 0 \in S, \A n \in Nat : n \in S => n + 1 \in S
  PROVE  Nat \subseteq S
<1> SUFFICES ASSUME ~(Nat \subseteq S) PROVE FALSE
  OBVIOUS
<1>1. PICK n \in Nat \ S : \A m \in Nat \ S : n <= m
  BY LeastNumber
<1>2. n - 1 \in Nat /\ n - 1 \in S
  BY <1>1
<1> QED
  BY <1>1, <1>2

\* What a slice of a sequence is.
LEMMA SliceIs ==
  ASSUME NEW S, NEW c \in Nat, NEW s \in [1..c -> S], NEW m \in 1..(c + 1), NEW n \in (m - 1)..c
  PROVE  /\ SubSeq(s, m, n) \in Seq(S)
         /\ Len(SubSeq(s, m, n)) = n - m + 1
         /\ \A j \in 1..(n - m + 1) : SubSeq(s, m, n)[j] = s[m + j - 1]
<1>1. \A j \in m..n : s[j] \in S
  OBVIOUS
<1>2. m \in Int /\ n \in Int /\ (IF m <= n THEN n - m + 1 ELSE 0) = n - m + 1
  OBVIOUS
<1> QED
  BY <1>1, <1>2, SubSeqProperties

\* s lists the c members of S, each once, as f leads from a.
InOrder(f, a, s, c, S) ==
    /\ s \in [1..c -> S]
    /\ \A i \in S : \E j \in 1..c : s[j] = i
    /\ \A j, k \in 1..c : s[j] = s[k] => j = k
    /\ a = IF c = 0 THEN NoLink ELSE s[1]
    /\ \A j \in 1..c : f[s[j]] = IF j = c THEN NoLink ELSE s[j + 1]

\* Following f from a gives that listing, and no other.
LEMMA FollowIsListing ==
  ASSUME NEW f, NEW a, NEW s, NEW c \in Nat, NEW S, NoLink \notin S,
         InOrder(f, a, s, c, S)
  PROVE  LET at[n \in Nat] == IF n = 0 THEN a ELSE Along(f, at[n - 1])
         IN  [n \in 1..c |-> at[n - 1]] = s
<1> DEFINE Follows(g) == g = [n \in Nat |-> IF n = 0 THEN a ELSE Along(f, g[n - 1])]
           w == [n \in Nat |-> IF n < c THEN s[n + 1] ELSE NoLink]
<1>1. Follows(w)
  <2>1. w[0] = a
    BY DEF InOrder
  <2>2. ASSUME NEW n \in Nat \ {0}
        PROVE  w[n] = Along(f, w[n - 1])
    <3>1. n - 1 \in Nat
      BY <2>2
    <3>2. CASE n - 1 < c
      <4>1. n \in 1..c /\ w[n - 1] = s[n] /\ s[n] # NoLink
        BY <3>1, <3>2 DEF InOrder
      <4>2. Along(f, w[n - 1]) = f[s[n]]
        BY <4>1 DEF Along
      <4>3. f[s[n]] = IF n = c THEN NoLink ELSE s[n + 1]
        BY <4>1 DEF InOrder
      <4>4. w[n] = IF n = c THEN NoLink ELSE s[n + 1]
        BY <4>1
      <4> QED
        BY <4>2, <4>3, <4>4
    <3>3. CASE ~(n - 1 < c)
      <4>1. w[n - 1] = NoLink /\ w[n] = NoLink
        BY <3>1, <3>3
      <4> QED
        BY <4>1 DEF Along
    <3> QED
      BY <3>2, <3>3
  <2>3. w = [n \in Nat |-> w[n]]
    OBVIOUS
  <2> HIDE DEF w
  <2> QED
    BY <2>1, <2>2, <2>3
<1>2. ASSUME NEW g, Follows(g)
      PROVE  [n \in 1..c |-> g[n - 1]] = s
  <2> DEFINE T == {n \in Nat : g[n] = w[n]}
  <2>1. g[0] = a /\ \A n \in Nat \ {0} : g[n] = Along(f, g[n - 1])
    BY <1>2
  <2>2. w[0] = a /\ \A n \in Nat \ {0} : w[n] = Along(f, w[n - 1])
    BY <1>1
  <2>3. \A n \in 1..c : w[n - 1] = s[n]
    OBVIOUS
  <2> HIDE DEF w
  <2>4. \A n \in Nat : n \in T => n + 1 \in T
    <3> SUFFICES ASSUME NEW n \in Nat, g[n] = w[n] PROVE g[n + 1] = w[n + 1]
      OBVIOUS
    <3>1. n + 1 \in Nat \ {0} /\ (n + 1) - 1 = n
      OBVIOUS
    <3> QED
      BY <2>1, <2>2, <3>1
  <2>5. Nat \subseteq T
    BY <2>1, <2>2, <2>4, SetInduction
  <2>6. \A n \in 1..c : n - 1 \in Nat /\ g[n - 1] = s[n]
    BY <2>3, <2>5
  <2> QED
    BY <2>6 DEF InOrder
<1> DEFINE at == CHOOSE g : Follows(g)
<1>3. Follows(at)
  <2> HIDE DEF w, Follows
  <2> QED
    BY <1>1
<1>4. [n \in 1..c |-> at[n - 1]] = s
  BY <1>2, <1>3
<1> QED
  BY <1>4

\* The links that are listed from first along next are listed from last along
\* prev in the opposite order.
Reversed(s, c) == [j \in 1..c |-> s[c + 1 - j]]

LEMMA ListedBothWays ==
  ASSUME NEW L, Typed(L), NEW S \in SUBSET Slots(L), Chained(L, S),
         NEW s, NEW c \in Nat, InOrder(L.next, L.first, s, c, S)
  PROVE  /\ L.last = IF c = 0 THEN NoLink ELSE s[c]
         /\ \A j \in 1..c : L.prev[s[j]] = IF j = 1 THEN NoLink ELSE s[j - 1]
         /\ InOrder(L.prev, L.last, Reversed(s, c), c, S)
<1> DEFINE r == Reversed(s, c)
<1>1. /\ s \in [1..c -> S]
      /\ \A i \in S : \E j \in 1..c : s[j] = i
      /\ \A j, k \in 1..c : s[j] = s[k] => j = k
      /\ L.first = IF c = 0 THEN NoLink ELSE s[1]
      /\ \A j \in 1..c : L.next[s[j]] = IF j = c THEN NoLink ELSE s[j + 1]
  BY DEF InOrder
<1>2. \A j \in 1..c : c + 1 - j \in 1..c /\ c + 1 - (c + 1 - j) = j
  OBVIOUS
<1>3. r \in [1..c -> S] /\ \A j \in 1..c : r[j] = s[c + 1 - j]
  BY <1>1, <1>2 DEF Reversed
<1> HIDE DEF r
<1>4. L.last = IF c = 0 THEN NoLink ELSE s[c]
  BY <1>1 DEF Chained
<1>5. \A j \in 1..c : L.prev[s[j]] = IF j = 1 THEN NoLink ELSE s[j - 1]
  <2> SUFFICES ASSUME NEW j \in 1..c
               PROVE  L.prev[s[j]] = IF j = 1 THEN NoLink ELSE s[j - 1]
    OBVIOUS
  <2>1. CASE j = 1
    BY <1>1, <2>1 DEF Chained
  <2>2. CASE j # 1
    <3>1. j - 1 \in 1..c /\ (j - 1) + 1 = j /\ j - 1 # c
      BY <2>2
    <3>2. L.next[s[j - 1]] = s[j] /\ s[j] \in Slots(L) /\ s[j - 1] \in Slots(L)
      BY <1>1, <3>1
    <3>3. s[j] # NoLink
      BY <3>2 DEF Typed, NoLink
    <3> QED
      BY <2>2, <3>2, <3>3 DEF Chained
  <2> QED
    BY <2>1, <2>2
<1>6. \A i \in S : \E j \in 1..c : r[j] = i
  <2> SUFFICES ASSUME NEW i \in S PROVE \E j \in 1..c : r[j] = i
    OBVIOUS
  <2>1. PICK k \in 1..c : s[k] = i
    BY <1>1
  <2> QED
    BY <1>2, <1>3, <2>1
<1>7. \A j, k \in 1..c : r[j] = r[k] => j = k
  BY <1>1, <1>2, <1>3
<1>8. L.last = IF c = 0 THEN NoLink ELSE r[1]
  BY <1>3, <1>4
<1>9. \A j \in 1..c : L.prev[r[j]] = IF j = c THEN NoLink ELSE r[j + 1]
  <2> SUFFICES ASSUME NEW j \in 1..c
               PROVE  L.prev[r[j]] = IF j = c THEN NoLink ELSE r[j + 1]
    OBVIOUS
  <2>1. c + 1 - j \in 1..c /\ (c + 1 - j = 1 <=> j = c) /\ (c + 1 - j) - 1 = c + 1 - (j + 1)
    OBVIOUS
  <2>2. L.prev[r[j]] = IF c + 1 - j = 1 THEN NoLink ELSE s[(c + 1 - j) - 1]
    BY <1>3, <1>5, <2>1
  <2>3. j # c => j + 1 \in 1..c
    OBVIOUS
  <2> QED
    BY <1>3, <2>1, <2>2, <2>3
<1>10. InOrder(L.prev, L.last, r, c, S)
  BY <1>3, <1>6, <1>7, <1>8, <1>9 DEF InOrder
<1> QED
  BY <1>4, <1>5, <1>10 DEF r

\* s without its member at k, and with i after the member at k.
DropAt(s, c, k)   == [j \in 1..(c - 1) |-> IF j < k THEN s[j] ELSE s[j + 1]]
AddAt(s, c, k, i) == [j \in 1..(c + 1) |-> IF j <= k THEN s[j]
                                          ELSE IF j = k + 1 THEN i ELSE s[j - 1]]

\* A listing stays one when f skips a member, and when it makes a detour by
\* another one.
LEMMA DropIsListing ==
  ASSUME NEW f, NEW a, NEW g, NEW b, NEW s, NEW c \in Nat, NEW S, InOrder(f, a, s, c, S),
         NEW k \in 1..c,
         b = IF k = 1 THEN f[s[k]] ELSE a,
         \A j \in S \ {s[k]} : g[j] = IF k > 1 /\ j = s[k - 1] THEN f[s[k]] ELSE f[j]
  PROVE  InOrder(g, b, DropAt(s, c, k), c - 1, S \ {s[k]})
<1> DEFINE d == DropAt(s, c, k)
<1>1. /\ s \in [1..c -> S]
      /\ \A i \in S : \E j \in 1..c : s[j] = i
      /\ \A j, m \in 1..c : s[j] = s[m] => j = m
      /\ a = IF c = 0 THEN NoLink ELSE s[1]
      /\ \A j \in 1..c : f[s[j]] = IF j = c THEN NoLink ELSE s[j + 1]
  BY DEF InOrder
<1>2. \A j \in 1..(c - 1) : /\ j \in 1..c /\ j + 1 \in 1..c
                            /\ j < k => j # k
                            /\ ~(j < k) => j + 1 # k
  OBVIOUS
<1>3. /\ d \in [1..(c - 1) -> S \ {s[k]}]
      /\ \A j \in 1..(c - 1) : d[j] = IF j < k THEN s[j] ELSE s[j + 1]
  BY <1>1, <1>2 DEF DropAt
<1> HIDE DEF d
<1>4. \A i \in S \ {s[k]} : \E j \in 1..(c - 1) : d[j] = i
  <2> SUFFICES ASSUME NEW i \in S \ {s[k]} PROVE \E j \in 1..(c - 1) : d[j] = i
    OBVIOUS
  <2>1. PICK m \in 1..c : s[m] = i
    BY <1>1
  <2>2. CASE m < k
    BY <1>3, <2>1, <2>2
  <2>3. CASE m > k
    <3>1. m - 1 \in 1..(c - 1) /\ ~(m - 1 < k) /\ (m - 1) + 1 = m
      BY <2>3
    <3> QED
      BY <1>3, <2>1, <3>1
  <2> QED
    BY <2>1, <2>2, <2>3
<1>5. \A j, m \in 1..(c - 1) : d[j] = d[m] => j = m
  <2> SUFFICES ASSUME NEW j \in 1..(c - 1), NEW m \in 1..(c - 1), d[j] = d[m] PROVE j = m
    OBVIOUS
  <2>1. /\ j \in 1..c /\ j + 1 \in 1..c /\ m \in 1..c /\ m + 1 \in 1..c
    OBVIOUS
  <2>2. (IF j < k THEN s[j] ELSE s[j + 1]) = (IF m < k THEN s[m] ELSE s[m + 1])
    BY <1>3, <2>1
  <2> QED
    BY <1>1, <2>1, <2>2
<1>6. b = IF c - 1 = 0 THEN NoLink ELSE d[1]
  BY <1>1, <1>3
<1>7. \A j \in 1..(c - 1) : g[d[j]] = IF j = c - 1 THEN NoLink ELSE d[j + 1]
  <2> SUFFICES ASSUME NEW j \in 1..(c - 1)
               PROVE  g[d[j]] = IF j = c - 1 THEN NoLink ELSE d[j + 1]
    OBVIOUS
  <2>1. d[j] \in S \ {s[k]}
    BY <1>3
  <2>2. CASE j = k - 1
    <3>1. k > 1 /\ d[j] = s[k - 1] /\ k - 1 \in 1..c
      BY <1>3, <2>2
    <3>2. g[d[j]] = f[s[k]]
      BY <2>1, <3>1
    <3>3. f[s[k]] = IF k = c THEN NoLink ELSE s[k + 1]
      BY <1>1
    <3>4. k # c => d[j + 1] = s[k + 1]
      BY <1>3, <2>2
    <3> QED
      BY <2>2, <3>2, <3>3, <3>4
  <2>3. CASE j < k - 1
    <3>1. j < k /\ j + 1 < k /\ j \in 1..c /\ j + 1 \in 1..(c - 1) /\ j # c /\ j # c - 1
      BY <2>3
    <3>2. d[j] = s[j] /\ d[j + 1] = s[j + 1]
      BY <1>3, <3>1
    <3>3. k > 1 => k - 1 \in 1..c /\ s[j] # s[k - 1]
      BY <1>1, <2>3, <3>1
    <3>4. g[s[j]] = f[s[j]]
      BY <2>1, <3>2, <3>3
    <3> QED
      BY <1>1, <3>1, <3>2, <3>4
  <2>4. CASE j > k - 1
    <3>1. ~(j < k) /\ j + 1 \in 1..c /\ ~(j + 1 < k) /\ (j + 1 = c <=> j = c - 1)
      BY <2>4
    <3>2. d[j] = s[j + 1] /\ (j # c - 1 => d[j + 1] = s[(j + 1) + 1])
      BY <1>3, <3>1
    <3>3. k > 1 => k - 1 \in 1..c /\ s[j + 1] # s[k - 1]
      BY <1>1, <2>4, <3>1
    <3>4. g[s[j + 1]] = f[s[j + 1]]
      BY <2>1, <3>2, <3>3
    <3> QED
      BY <1>1, <3>1, <3>2, <3>4
  <2> QED
    BY <2>2, <2>3, <2>4
<1>8. InOrder(g, b, d, c - 1, S \ {s[k]})
  BY <1>3, <1>4, <1>5, <1>6, <1>7 DEF InOrder
<1> QED
  BY <1>8 DEF d

LEMMA AddIsListing ==
  ASSUME NEW f, NEW a, NEW g, NEW b, NEW s, NEW c \in Nat, NEW S, InOrder(f, a, s, c, S),
         NEW i, i \notin S, NEW k \in 0..c,
         b = IF k = 0 THEN i ELSE a,
         g[i] = IF k = c THEN NoLink ELSE s[k + 1],
         \A j \in S : g[j] = IF k > 0 /\ j = s[k] THEN i ELSE f[j]
  PROVE  InOrder(g, b, AddAt(s, c, k, i), c + 1, S \cup {i})
<1> DEFINE d == AddAt(s, c, k, i)
<1>1. /\ s \in [1..c -> S]
      /\ \A m \in S : \E j \in 1..c : s[j] = m
      /\ \A j, m \in 1..c : s[j] = s[m] => j = m
      /\ a = IF c = 0 THEN NoLink ELSE s[1]
      /\ \A j \in 1..c : f[s[j]] = IF j = c THEN NoLink ELSE s[j + 1]
  BY DEF InOrder
<1>2. \A j \in 1..(c + 1) : /\ j <= k => j \in 1..c
                            /\ j > k + 1 => j - 1 \in 1..c
  OBVIOUS
<1>3. /\ d \in [1..(c + 1) -> S \cup {i}]
      /\ \A j \in 1..(c + 1) : d[j] = IF j <= k THEN s[j]
                                      ELSE IF j = k + 1 THEN i ELSE s[j - 1]
  BY <1>1, <1>2 DEF AddAt
<1> HIDE DEF d
<1>4. \A m \in S \cup {i} : \E j \in 1..(c + 1) : d[j] = m
  <2> SUFFICES ASSUME NEW m \in S \cup {i} PROVE \E j \in 1..(c + 1) : d[j] = m
    OBVIOUS
  <2>1. CASE m = i
    <3>1. k + 1 \in 1..(c + 1) /\ ~(k + 1 <= k)
      OBVIOUS
    <3> QED
      BY <1>3, <2>1, <3>1
  <2>2. CASE m \in S
    <3>1. PICK n \in 1..c : s[n] = m
      BY <1>1, <2>2
    <3>2. CASE n <= k
      BY <1>3, <3>1, <3>2
    <3>3. CASE n > k
      <4>1. n + 1 \in 1..(c + 1) /\ ~(n + 1 <= k) /\ n + 1 # k + 1 /\ (n + 1) - 1 = n
        BY <3>3
      <4> QED
        BY <1>3, <3>1, <4>1
    <3> QED
      BY <3>2, <3>3
  <2> QED
    BY <2>1, <2>2
<1>5. \A j, m \in 1..(c + 1) : d[j] = d[m] => j = m
  <2> SUFFICES ASSUME NEW j \in 1..(c + 1), NEW m \in 1..(c + 1), d[j] = d[m] PROVE j = m
    OBVIOUS
  <2>1. \A n \in 1..(c + 1) : n # k + 1 => d[n] \in S
    BY <1>1, <1>2, <1>3
  <2>2. \A n \in 1..(c + 1) : n = k + 1 => d[n] = i
    BY <1>3
  <2>3. CASE j = k + 1 \/ m = k + 1
    BY <2>1, <2>2, <2>3
  <2>4. CASE j # k + 1 /\ m # k + 1
    <3>1. (IF j <= k THEN s[j] ELSE s[j - 1]) = (IF m <= k THEN s[m] ELSE s[m - 1])
      BY <1>3, <2>4
    <3>2. /\ j <= k => j \in 1..c
          /\ ~(j <= k) => j - 1 \in 1..c /\ j - 1 > k
          /\ m <= k => m \in 1..c
          /\ ~(m <= k) => m - 1 \in 1..c /\ m - 1 > k
      BY <2>4
    <3> QED
      BY <1>1, <3>1, <3>2
  <2> QED
    BY <2>3, <2>4
<1>6. b = IF c + 1 = 0 THEN NoLink ELSE d[1]
  BY <1>1, <1>3
<1>7. \A j \in 1..(c + 1) : g[d[j]] = IF j = c + 1 THEN NoLink ELSE d[j + 1]
  <2> SUFFICES ASSUME NEW j \in 1..(c + 1)
               PROVE  g[d[j]] = IF j = c + 1 THEN NoLink ELSE d[j + 1]
    OBVIOUS
  <2>1. CASE j < k
    <3>1. j \in 1..c /\ j + 1 \in 1..c /\ j + 1 <= k /\ j <= k /\ j # c /\ j # c + 1 /\ j + 1 \in 1..(c + 1)
      BY <2>1
    <3>2. d[j] = s[j] /\ d[j + 1] = s[j + 1] /\ s[j] \in S
      BY <1>1, <1>3, <3>1
    <3>3. k > 0 => k \in 1..c /\ s[j] # s[k]
      BY <1>1, <2>1, <3>1
    <3>4. g[s[j]] = f[s[j]]
      BY <3>2, <3>3
    <3> QED
      BY <1>1, <3>1, <3>2, <3>4
  <2>2. CASE j = k
    <3>1. k > 0 /\ k \in 1..c /\ d[j] = s[k] /\ s[k] \in S /\ d[j + 1] = i /\ j # c + 1
      BY <1>1, <1>3, <2>2
    <3> QED
      BY <3>1
  <2>3. CASE j = k + 1
    <3>1. d[j] = i /\ (k # c => d[j + 1] = s[k + 1]) /\ (j = c + 1 <=> k = c)
      BY <1>3, <2>3
    <3> QED
      BY <3>1
  <2>4. CASE j > k + 1
    <3>1. /\ j - 1 \in 1..c /\ ~(j <= k) /\ j # k + 1
          /\ (j - 1) + 1 = j /\ (j - 1 = c <=> j = c + 1)
          /\ j # c + 1 => j + 1 \in 1..(c + 1) /\ ~(j + 1 <= k) /\ j + 1 # k + 1
          /\ (j + 1) - 1 = j
      BY <2>4
    <3>2. d[j] = s[j - 1] /\ (j # c + 1 => d[j + 1] = s[j]) /\ s[j - 1] \in S
      BY <1>1, <1>3, <3>1
    <3>3. k > 0 => k \in 1..c /\ s[j - 1] # s[k]
      BY <1>1, <2>4, <3>1
    <3>4. g[s[j - 1]] = f[s[j - 1]]
      BY <3>2, <3>3
    <3> QED
      BY <1>1, <3>1, <3>2, <3>4
  <2> QED
    BY <2>1, <2>2, <2>3, <2>4
<1>8. InOrder(g, b, d, c + 1, S \cup {i})
  BY <1>3, <1>4, <1>5, <1>6, <1>7 DEF InOrder
<1> QED
  BY <1>8 DEF d

\* A listing of the links is what an iteration visits.
LEMMA ForwardIsListing ==
  ASSUME NEW L, Typed(L), NEW s, InOrder(L.next, L.first, s, L.count, Links(L))
  PROVE  Forward(L) = s
<1> DEFINE f == L.next
           a == L.first
           c == L.count
           S == Links(L)
<1>1. c \in Nat /\ NoLink \notin S /\ InOrder(f, a, s, c, S)
  BY DEF Typed, Links, NoLink
<1>2. Forward(L) = LET at[n \in Nat] == IF n = 0 THEN a ELSE Along(f, at[n - 1])
                   IN  [n \in 1..c |-> at[n - 1]]
  BY DEF Forward
<1> HIDE DEF f, a, c, S
<1> QED
  BY <1>1, <1>2, FollowIsListing

LEMMA BackwardIsListing ==
  ASSUME NEW L, Typed(L), NEW s, InOrder(L.prev, L.last, s, L.count, Links(L))
  PROVE  Backward(L) = s
<1> DEFINE f == L.prev
           a == L.last
           c == L.count
           S == Links(L)
<1>1. c \in Nat /\ NoLink \notin S /\ InOrder(f, a, s, c, S)
  BY DEF Typed, Links, NoLink
<1>2. Backward(L) = LET at[n \in Nat] == IF n = 0 THEN a ELSE Along(f, at[n - 1])
                    IN  [n \in 1..c |-> at[n - 1]]
  BY DEF Backward
<1> HIDE DEF f, a, c, S
<1> QED
  BY <1>1, <1>2, FollowIsListing

\* Unlinking and linking a slot take it out of the listing and put it in.
LEMMA UnlinkListing ==
  ASSUME NEW L, Typed(L), NEW S \in SUBSET Slots(L), Chained(L, S),
         NEW s, NEW c \in Nat, InOrder(L.next, L.first, s, c, S), NEW k \in 1..c
  PROVE  InOrder(unlink(L, s[k]).next, unlink(L, s[k]).first,
                 DropAt(s, c, k), c - 1, S \ {s[k]})
<1> DEFINE i == s[k]
           f == L.next
           a == L.first
           g == unlink(L, i).next
           b == unlink(L, i).first
<1>1. i \in S /\ i \in Slots(L) /\ NoLink \notin Slots(L)
  BY DEF InOrder, Typed, NoLink
<1>2. /\ g = [j \in Slots(L) |-> IF j = i THEN NoLink
                                 ELSE IF j = L.prev[i] THEN f[i] ELSE f[j]]
      /\ b = IF L.prev[i] = NoLink THEN f[i] ELSE a
  BY <1>1, UnlinkFields
<1>3. L.prev[i] = IF k = 1 THEN NoLink ELSE s[k - 1]
  <2>1. \A j \in 1..c : L.prev[s[j]] = IF j = 1 THEN NoLink ELSE s[j - 1]
    BY ListedBothWays
  <2> QED
    BY <2>1
<1>4. k # 1 => k > 1 /\ s[k - 1] \in Slots(L)
  BY DEF InOrder
<1>5. InOrder(f, a, s, c, S)
  OBVIOUS
<1> HIDE DEF i, f, a, g, b
<1>6. b = IF k = 1 THEN f[i] ELSE a
  BY <1>1, <1>2, <1>3, <1>4
<1>7. \A j \in S \ {i} : g[j] = IF k > 1 /\ j = s[k - 1] THEN f[i] ELSE f[j]
  BY <1>1, <1>2, <1>3, <1>4
<1>8. InOrder(g, b, DropAt(s, c, k), c - 1, S \ {s[k]})
  BY <1>5, <1>6, <1>7, DropIsListing DEF i
<1> QED
  BY <1>8 DEF g, b, i

LEMMA LinkListing ==
  ASSUME NEW L, Typed(L), NEW S \in SUBSET Slots(L),
         NEW s, NEW c \in Nat, InOrder(L.next, L.first, s, c, S),
         NEW i \in Slots(L) \ S, NEW k \in 0..c, NEW p, NEW n,
         p = IF k = 0 THEN NoLink ELSE s[k],
         n = IF k = c THEN NoLink ELSE s[k + 1]
  PROVE  InOrder(link_between(L, p, n, i).next, link_between(L, p, n, i).first,
                 AddAt(s, c, k, i), c + 1, S \cup {i})
<1> DEFINE f == L.next
           a == L.first
           g == link_between(L, p, n, i).next
           b == link_between(L, p, n, i).first
<1>1. NoLink \notin Slots(L) /\ i \in Slots(L) /\ InOrder(f, a, s, c, S)
  BY DEF Typed, NoLink
<1>2. /\ g = [j \in Slots(L) |-> IF j = i THEN n ELSE IF j = p THEN i ELSE f[j]]
      /\ b = IF p = NoLink THEN i ELSE a
  BY DEF link_between, Typed
<1>3. k > 0 => k # 0 /\ s[k] \in S
  BY DEF InOrder
<1> HIDE DEF f, a, g, b
<1>4. b = IF k = 0 THEN i ELSE a
  BY <1>1, <1>2, <1>3
<1>5. g[i] = IF k = c THEN NoLink ELSE s[k + 1]
  BY <1>2
<1>6. \A j \in S : g[j] = IF k > 0 /\ j = s[k] THEN i ELSE f[j]
  BY <1>1, <1>2, <1>3
<1>7. InOrder(g, b, AddAt(s, c, k, i), c + 1, S \cup {i})
  BY <1>1, <1>4, <1>5, <1>6, AddIsListing
<1> QED
  BY <1>7 DEF g, b

\* Where each method puts its link, or takes it from.
ListedAs(L, s) == InOrder(L.next, L.first, s, L.count, Links(L))

LEMMA NewlinkListing ==
  ASSUME NEW L, ListInv(L), NEW s, ListedAs(L, s)
  PROVE  InOrder(newlink(L).next, newlink(L).first, s, L.count, Links(L))
<1>1. /\ newlink(L).first = L.first
      /\ \A j \in Links(L) : newlink(L).next[j] = L.next[j]
  BY NewlinkInv
<1> QED
  BY <1>1 DEF ListedAs, InOrder

LEMMA InsertAfterListing ==
  ASSUME NEW L, ListInv(L), NEW s, ListedAs(L, s), NEW k \in 0..L.count, k = 0 => L.count = 0,
         NEW a, a = IF k = 0 THEN NoLink ELSE s[k]
  PROVE  ListedAs(insert_after(L, a), AddAt(s, L.count, k, NewIndex(L)))
<1> DEFINE N == newlink(L)
           i == NewIndex(L)
           n == IF a = NoLink THEN NoLink ELSE N.next[a]
           R == link_between(N, a, n, i)
           c == L.count
           S == Links(L)
<1>1. /\ i \in Slots(N) \ S /\ S \in SUBSET Slots(N)
      /\ Typed(N) /\ Chained(N, S) /\ N.count = c + 1
      /\ NoLink \notin S /\ c \in Nat /\ k \in 0..c
  <2>1. NoLink \notin S /\ c \in Nat
    BY DEF ListInv, Typed, Links, NoLink
  <2> QED
    BY <2>1, NewlinkInv
<1>2. InOrder(N.next, N.first, s, c, S)
  BY NewlinkListing
<1>3. insert_after(L, a) = R
  BY DEF insert_after, link_after
<1>4. k > 0 => s[k] \in S /\ s[k] # NoLink
  BY <1>1, <1>2 DEF InOrder
<1> HIDE DEF N, S, c
<1>5. n = IF k = c THEN NoLink ELSE s[k + 1]
  <2>1. CASE k = 0
    BY <2>1 DEF c
  <2>2. CASE k # 0
    <3>1. a = s[k] /\ a # NoLink /\ k \in 1..c
      BY <1>1, <1>4, <2>2
    <3> QED
      BY <1>2, <3>1 DEF InOrder
  <2> QED
    BY <2>1, <2>2
<1> HIDE DEF n, i
<1>6. InOrder(R.next, R.first, AddAt(s, c, k, i), c + 1, S \cup {i})
  BY <1>1, <1>2, <1>5, LinkListing
<1> HIDE DEF R
<1>7. a \in S \cup {NoLink} /\ IsAnchor(L, a)
  <2>1. CASE k = 0
    <3>1. L.first = NoLink
      BY <2>1 DEF ListedAs, InOrder
    <3> QED
      BY <2>1, <3>1 DEF IsAnchor, ListInv, Chained
  <2>2. CASE k # 0
    <3>1. a \in S /\ a # NoLink /\ a \in Slots(L)
      BY <1>1, <1>4, <2>2 DEF S, Links
    <3> QED
      BY <3>1, CheckExact DEF S, IsAnchor
  <2> QED
    BY <2>1, <2>2
<1>8. Links(R) = S \cup {i} /\ R.count = c + 1
  BY <1>3, <1>7, InsertAfterInv DEF S, i, c
<1> QED
  BY <1>3, <1>6, <1>8 DEF ListedAs, c, i

LEMMA InsertBeforeListing ==
  ASSUME NEW L, ListInv(L), NEW s, ListedAs(L, s),
         NEW k \in 0..L.count, k = L.count => L.count = 0,
         NEW a, a = IF k = L.count THEN NoLink ELSE s[k + 1]
  PROVE  ListedAs(insert_before(L, a), AddAt(s, L.count, k, NewIndex(L)))
<1> DEFINE N == newlink(L)
           i == NewIndex(L)
           p == IF a = NoLink THEN NoLink ELSE N.prev[a]
           R == link_between(N, p, a, i)
           c == L.count
           S == Links(L)
<1>1. /\ i \in Slots(N) \ S /\ S \in SUBSET Slots(N)
      /\ Typed(N) /\ Chained(N, S) /\ N.count = c + 1
      /\ NoLink \notin S /\ c \in Nat /\ k \in 0..c
  <2>1. NoLink \notin S /\ c \in Nat
    BY DEF ListInv, Typed, Links, NoLink
  <2> QED
    BY <2>1, NewlinkInv
<1>2. InOrder(N.next, N.first, s, c, S)
  BY NewlinkListing
<1>3. insert_before(L, a) = R
  BY DEF insert_before, link_before
<1>4. k < c => k + 1 \in 1..c /\ s[k + 1] \in S /\ s[k + 1] # NoLink
  BY <1>1, <1>2 DEF InOrder
<1> HIDE DEF N, S, c
<1>5. p = IF k = 0 THEN NoLink ELSE s[k]
  <2>1. CASE k = c
    BY <2>1 DEF c
  <2>2. CASE k # c
    <3>1. a = s[k + 1] /\ a # NoLink /\ k + 1 \in 1..c /\ (k + 1 = 1 <=> k = 0) /\ (k + 1) - 1 = k
      BY <1>1, <1>4, <2>2 DEF c
    <3>2. \A j \in 1..c : N.prev[s[j]] = IF j = 1 THEN NoLink ELSE s[j - 1]
      BY <1>1, <1>2, ListedBothWays
    <3> QED
      BY <3>1, <3>2
  <2> QED
    BY <2>1, <2>2
<1>9. a = IF k = c THEN NoLink ELSE s[k + 1]
  BY DEF c
<1> HIDE DEF p, i
<1>6. InOrder(R.next, R.first, AddAt(s, c, k, i), c + 1, S \cup {i})
  BY <1>1, <1>2, <1>5, <1>9, LinkListing
<1> HIDE DEF R
<1>7. a \in S \cup {NoLink} /\ IsAnchor(L, a)
  <2>1. CASE k = c
    <3>1. L.first = NoLink
      BY <2>1 DEF ListedAs, InOrder, c
    <3> QED
      BY <1>9, <2>1, <3>1 DEF IsAnchor, ListInv, Chained
  <2>2. CASE k # c
    <3>1. a \in S /\ a # NoLink /\ a \in Slots(L)
      BY <1>1, <1>4, <1>9, <2>2 DEF S, Links
    <3> QED
      BY <3>1, CheckExact DEF S, IsAnchor
  <2> QED
    BY <2>1, <2>2
<1>8. Links(R) = S \cup {i} /\ R.count = c + 1
  BY <1>3, <1>7, InsertBeforeInv DEF S, i, c
<1> QED
  BY <1>3, <1>6, <1>8 DEF ListedAs, c, i

LEMMA RemoveListing ==
  ASSUME NEW L, ListInv(L), NEW s, ListedAs(L, s), NEW k \in 1..L.count
  PROVE  ListedAs(remove(L, s[k]), DropAt(s, L.count, k))
<1> DEFINE i == s[k]
           U == unlink(L, i)
           R == remove(L, i)
<1>1. i \in Links(L) /\ Links(L) \in SUBSET Slots(L) /\ L.count \in Nat
  BY DEF ListInv, Typed, ListedAs, InOrder, Links
<1>2. InOrder(U.next, U.first, DropAt(s, L.count, k), L.count - 1, Links(L) \ {i})
  BY <1>1, UnlinkListing DEF ListInv, ListedAs
<1>3. Links(R) = Links(L) \ {i} /\ R.count = L.count - 1
  BY <1>1, RemoveInv
<1>4. Typed(U)
  BY <1>1, UnlinkChained DEF ListInv
<1> HIDE DEF U, i
<1>5. R.next = U.next /\ R.first = U.first
  BY <1>4 DEF remove, freelink, U, Typed
<1> HIDE DEF R
<1>6. ListedAs(R, DropAt(s, L.count, k))
  BY <1>2, <1>3, <1>5 DEF ListedAs
<1> QED
  BY <1>6 DEF R, i

LEMMA MoveAfterListing ==
  ASSUME NEW L, ListInv(L), NEW s, ListedAs(L, s), NEW k \in 1..L.count,
         NEW m \in 1..(L.count - 1), NEW a, a = DropAt(s, L.count, k)[m]
  PROVE  ListedAs(move_after(L, a, s[k]), AddAt(DropAt(s, L.count, k), L.count - 1, m, s[k]))
<1> DEFINE i == s[k]
           U == unlink(L, i)
           S == Links(L)
           c == L.count - 1
           r == DropAt(s, L.count, k)
           n == U.next[a]
           R == link_between(U, a, n, i)
<1>1. i \in S /\ S \in SUBSET Slots(L) /\ c \in Nat /\ L.count \in Nat /\ m \in 1..c /\ L.count = c + 1
  <2>1. L.count \in Nat
    BY DEF ListInv, Typed
  <2>2. i \in S /\ S \in SUBSET Slots(L)
    BY DEF ListedAs, InOrder, Links
  <2> QED
    BY <2>1, <2>2
<1>2. InOrder(U.next, U.first, r, c, S \ {i})
  BY <1>1, UnlinkListing DEF ListInv, ListedAs
<1>3. Typed(U) /\ Slots(U) = Slots(L)
  BY <1>1, UnlinkChained DEF ListInv
<1> HIDE DEF U, i, S, c, r
<1>4. a = r[m] /\ a \in S \ {i}
  BY <1>1, <1>2 DEF InOrder, r
<1>5. a # NoLink
  BY <1>1, <1>4 DEF ListInv, Typed, NoLink
<1>6. n = IF m = c THEN NoLink ELSE r[m + 1]
  BY <1>1, <1>2, <1>4 DEF InOrder
<1>7. move_after(L, a, i) = R
  BY <1>4, <1>5 DEF move_after, link_after, U
<1> HIDE DEF n
<1>8. InOrder(R.next, R.first, AddAt(r, c, m, i), c + 1, (S \ {i}) \cup {i})
  <2>1. S \ {i} \in SUBSET Slots(U) /\ i \in Slots(U) \ (S \ {i}) /\ m \in 0..c
    BY <1>1, <1>3
  <2>2. a = IF m = 0 THEN NoLink ELSE r[m]
    BY <1>1, <1>4
  <2>3. ASSUME NEW u, Typed(u), S \ {i} \in SUBSET Slots(u), i \in Slots(u) \ (S \ {i}),
               InOrder(u.next, u.first, r, c, S \ {i})
        PROVE  InOrder(link_between(u, a, n, i).next, link_between(u, a, n, i).first,
                       AddAt(r, c, m, i), c + 1, (S \ {i}) \cup {i})
    BY <1>1, <1>6, <2>1, <2>2, <2>3, LinkListing
  <2> QED
    BY <1>2, <1>3, <2>1, <2>3
<1> HIDE DEF R
<1>9. (S \ {i}) \cup {i} = S /\ Links(R) = S /\ R.count = c + 1
  <2>1. Links(R) = S /\ R.count = L.count
    BY <1>1, <1>4, <1>7, MoveAfterInv DEF S
  <2> QED
    BY <1>1, <2>1
<1>10. ListedAs(R, AddAt(r, c, m, i))
  BY <1>8, <1>9 DEF ListedAs
<1> QED
  BY <1>7, <1>10 DEF r, c, i

LEMMA MoveBeforeListing ==
  ASSUME NEW L, ListInv(L), NEW s, ListedAs(L, s), NEW k \in 1..L.count,
         NEW m \in 1..(L.count - 1), NEW a, a = DropAt(s, L.count, k)[m]
  PROVE  ListedAs(move_before(L, a, s[k]),
                  AddAt(DropAt(s, L.count, k), L.count - 1, m - 1, s[k]))
<1> DEFINE i == s[k]
           U == unlink(L, i)
           S == Links(L)
           c == L.count - 1
           r == DropAt(s, L.count, k)
           p == U.prev[a]
           R == link_between(U, p, a, i)
<1>1. i \in S /\ S \in SUBSET Slots(L) /\ c \in Nat /\ L.count \in Nat /\ m \in 1..c /\ L.count = c + 1
  <2>1. L.count \in Nat
    BY DEF ListInv, Typed
  <2>2. i \in S /\ S \in SUBSET Slots(L)
    BY DEF ListedAs, InOrder, Links
  <2> QED
    BY <2>1, <2>2
<1>2. InOrder(U.next, U.first, r, c, S \ {i})
  BY <1>1, UnlinkListing DEF ListInv, ListedAs
<1>3. Typed(U) /\ Slots(U) = Slots(L) /\ Chained(U, S \ {i})
  BY <1>1, UnlinkChained DEF ListInv
<1> HIDE DEF U, i, S, c, r
<1>4. a = r[m] /\ a \in S \ {i}
  BY <1>1, <1>2 DEF InOrder, r
<1>5. a # NoLink
  BY <1>1, <1>4 DEF ListInv, Typed, NoLink
<1>6. p = IF m - 1 = 0 THEN NoLink ELSE r[m - 1]
  <2>1. S \ {i} \in SUBSET Slots(U)
    BY <1>1, <1>3
  <2>2. \A j \in 1..c : U.prev[r[j]] = IF j = 1 THEN NoLink ELSE r[j - 1]
    BY <1>1, <1>2, <1>3, <2>1, ListedBothWays
  <2>3. m = 1 <=> m - 1 = 0
    BY <1>1
  <2> QED
    BY <1>1, <1>4, <2>2, <2>3
<1>7. move_before(L, a, i) = R
  BY <1>4, <1>5 DEF move_before, link_before, U
<1> HIDE DEF p
<1>8. InOrder(R.next, R.first, AddAt(r, c, m - 1, i), c + 1, (S \ {i}) \cup {i})
  <2> DEFINE q == m - 1
  <2>1. /\ S \ {i} \in SUBSET Slots(U) /\ i \in Slots(U) \ (S \ {i})
        /\ q \in 0..c /\ q # c /\ q + 1 = m
    BY <1>1, <1>3
  <2>2. p = (IF q = 0 THEN NoLink ELSE r[q]) /\ a = (IF q = c THEN NoLink ELSE r[q + 1])
    BY <1>4, <1>6, <2>1
  <2> HIDE DEF q
  <2>3. ASSUME NEW u, Typed(u), S \ {i} \in SUBSET Slots(u), i \in Slots(u) \ (S \ {i}),
               InOrder(u.next, u.first, r, c, S \ {i})
        PROVE  InOrder(link_between(u, p, a, i).next, link_between(u, p, a, i).first,
                       AddAt(r, c, q, i), c + 1, (S \ {i}) \cup {i})
    BY <1>1, <2>1, <2>2, <2>3, LinkListing
  <2>4. InOrder(R.next, R.first, AddAt(r, c, q, i), c + 1, (S \ {i}) \cup {i})
    BY <1>2, <1>3, <2>1, <2>3
  <2> QED
    BY <2>4 DEF q
<1> HIDE DEF R
<1>9. (S \ {i}) \cup {i} = S /\ Links(R) = S /\ R.count = c + 1
  <2>1. Links(R) = S /\ R.count = L.count
    BY <1>1, <1>4, <1>7, MoveBeforeInv DEF S
  <2> QED
    BY <1>1, <2>1
<1>10. ListedAs(R, AddAt(r, c, m - 1, i))
  BY <1>8, <1>9 DEF ListedAs
<1> QED
  BY <1>7, <1>10 DEF r, c, i
===============================================================================
