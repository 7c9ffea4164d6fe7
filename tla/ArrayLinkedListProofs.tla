------------------------- MODULE ArrayLinkedListProofs -------------------------
(***************************************************************************)
(* Proofs about a list in the hands of its callers, for any number of      *)
(* links and any sequence of operations.                                   *)
(***************************************************************************)
EXTENDS ArrayLinkedList, LinkedListProofs

\* A caller may insert at a link of the list, or at no link.
LEMMA AnchorIsLink ==
  ASSUME NEW L, ListInv(L), NEW a \in Slots(L) \cup {NoLink}, IsAnchor(L, a)
  PROVE  a \in Links(L) \cup {NoLink}
  BY CheckExact DEF IsAnchor

LEMMA StepKeepsType == TypeOK /\ [Next]_vars => TypeOK'
<1> SUFFICES ASSUME TypeOK, [Next]_vars PROVE TypeOK'
  OBVIOUS
<1> USE DEF TypeOK
<1>1. ASSUME NEW p \in Slots(list) \cup {NoLink}, InsertAfter(p) PROVE TypeOK'
  BY <1>1, AnchorIsLink, InsertAfterInv DEF InsertAfter
<1>2. ASSUME NEW p \in Slots(list) \cup {NoLink}, InsertBefore(p) PROVE TypeOK'
  BY <1>2, AnchorIsLink, InsertBeforeInv DEF InsertBefore
<1>3. ASSUME NEW i, Remove(i) PROVE TypeOK'
  BY <1>3, CheckExact, RemoveInv DEF Remove, IsLink
<1>4. ASSUME NEW p \in Slots(list), NEW i \in Slots(list), MoveAfter(p, i) PROVE TypeOK'
  <2>1. CASE i = p
    BY <1>4, <2>1 DEF MoveAfter, move_after
  <2>2. CASE i # p
    BY <1>4, <2>2, CheckExact, MoveAfterInv DEF MoveAfter
  <2> QED
    BY <2>1, <2>2
<1>5. ASSUME NEW p \in Slots(list), NEW i \in Slots(list), MoveBefore(p, i) PROVE TypeOK'
  <2>1. CASE i = p
    BY <1>5, <2>1 DEF MoveBefore, move_before
  <2>2. CASE i # p
    BY <1>5, <2>2, CheckExact, MoveBeforeInv DEF MoveBefore
  <2> QED
    BY <2>1, <2>2
<1>6. CASE Clear
  BY <1>6, EmptyInv DEF Clear
<1>7. CASE UNCHANGED list
  BY <1>7
<1> QED
  BY <1>1, <1>2, <1>3, <1>4, <1>5, <1>6, <1>7
     DEF Next, Mutate, BeginIteration, ContinueIteration, BreakIteration, RemoveCurrent, vars

\* Every operation keeps the list well formed (linkedlist.t:197-298): the
\* chain closes behind a removed link, a moved or new link is chained both
\* ways, and the stack of free indices never holds an index twice.
THEOREM WellFormed == Spec => []TypeOK
<1>1. Init => TypeOK
  BY EmptyInv DEF Init, TypeOK
<1> QED
  BY <1>1, StepKeepsType, PTL DEF Spec

\* The assert of link(i) (linkedlist.t:117) is true of an index exactly when
\* it is the index of a link of the list.
THEOREM CheckIsExact == Spec => []LinkCheckExact
<1>1. TypeOK => LinkCheckExact
  BY CheckExact DEF TypeOK, LinkCheckExact
<1> QED
  BY <1>1, WellFormed, PTL

-------------------------------------------------------------------------------
(***************************************************************************)
(* The order of the links: each method changes the sequence of handles as  *)
(* OrderedList says.                                                       *)
(***************************************************************************)
\* s lists the c members of S, each once.
IsListing(s, c, S) ==
    /\ c \in Nat
    /\ s \in [1..c -> S]
    /\ \A i \in S : \E k \in 1..c : s[k] = i
    /\ \A j, k \in 1..c : s[j] = s[k] => j = k

\* What OrderedList writes with SubSeq and \o is what the listings say by index.
LEMMA WithoutIsDrop ==
  ASSUME NEW S, NEW c, NEW s, IsListing(s, c, S), NEW k \in 1..c, NEW i, i = s[k]
  PROVE  /\ Ordered!IndexIn(s, i) = k
         /\ Ordered!Without(s, i) = DropAt(s, c, k)
<1> DEFINE head == SubSeq(s, 1, k - 1)
           tail == SubSeq(s, k + 1, c)
           d == DropAt(s, c, k)
<1>0. c \in Nat /\ s \in [1..c -> S] /\ \A j, m \in 1..c : s[j] = s[m] => j = m
  BY DEF IsListing
<1>1. Ordered!IndexIn(s, i) = k
  BY <1>0 DEF Ordered!IndexIn
<1>2. s \in Seq(S) /\ Len(s) = c
  BY <1>0, SeqDef
<1>3. Ordered!Without(s, i) = head \o tail
  BY <1>1, <1>2 DEF Ordered!Without
<1>4. /\ head \in Seq(S) /\ Len(head) = k - 1
      /\ \A j \in 1..(k - 1) : head[j] = s[j]
  <2>1. 1 \in 1..(c + 1) /\ k - 1 \in (1 - 1)..c /\ k - 1 - 1 + 1 = k - 1
    BY <1>0
  <2>2. \A j \in 1..(k - 1) : 1 + j - 1 = j
    BY <1>0
  <2>3. /\ head \in Seq(S) /\ Len(head) = k - 1 - 1 + 1
        /\ \A j \in 1..(k - 1 - 1 + 1) : head[j] = s[1 + j - 1]
    BY <1>0, <2>1, SliceIs
  <2> HIDE DEF head
  <2> QED
    BY <2>1, <2>2, <2>3
<1>5. /\ tail \in Seq(S) /\ Len(tail) = c - k
      /\ \A j \in 1..(c - k) : tail[j] = s[k + j]
  <2>1. k + 1 \in 1..(c + 1) /\ c \in (k + 1 - 1)..c /\ c - (k + 1) + 1 = c - k
    BY <1>0
  <2>2. \A j \in 1..(c - k) : k + 1 + j - 1 = k + j
    BY <1>0
  <2>3. /\ tail \in Seq(S) /\ Len(tail) = c - (k + 1) + 1
        /\ \A j \in 1..(c - (k + 1) + 1) : tail[j] = s[k + 1 + j - 1]
    BY <1>0, <2>1, SliceIs
  <2> HIDE DEF tail
  <2> QED
    BY <2>1, <2>2, <2>3
<1> HIDE DEF head, tail
<1>6. (k - 1) + (c - k) = c - 1
  BY <1>0
<1>7. /\ head \o tail \in Seq(S)
      /\ Len(head \o tail) = c - 1
      /\ \A j \in 1..(c - 1) : (head \o tail)[j] = IF j <= k - 1 THEN head[j] ELSE tail[j - (k - 1)]
  <2>0. head \in Seq(S) /\ tail \in Seq(S)
    BY <1>4, <1>5
  <2>1. /\ head \o tail \in Seq(S)
        /\ Len(head \o tail) = Len(head) + Len(tail)
        /\ \A j \in 1..(Len(head) + Len(tail)) :
              (head \o tail)[j] = IF j <= Len(head) THEN head[j] ELSE tail[j - Len(head)]
    BY ONLY <2>0, ConcatProperties
  <2>2. Len(head) + Len(tail) = c - 1
    BY <1>4, <1>5, <1>6
  <2> QED
    BY <1>4, <2>1, <2>2
<1>8. d \in [1..(c - 1) -> S] /\ c - 1 \in Nat
  BY <1>0 DEF DropAt
<1>9. d \in Seq(S) /\ Len(d) = c - 1
  BY <1>8, SeqDef
<1>10. \A j \in 1..(c - 1) : (head \o tail)[j] = d[j]
  <2> SUFFICES ASSUME NEW j \in 1..(c - 1) PROVE (head \o tail)[j] = d[j]
    OBVIOUS
  <2>1. CASE j < k
    <3>1. j <= k - 1 /\ j \in 1..(k - 1)
      BY <1>0, <2>1
    <3>2. (head \o tail)[j] = s[j]
      BY <1>4, <1>7, <3>1
    <3> QED
      BY <2>1, <3>2 DEF DropAt
  <2>2. CASE ~(j < k)
    <3>1. ~(j <= k - 1) /\ j - (k - 1) \in 1..(c - k) /\ k + (j - (k - 1)) = j + 1
      BY <1>0, <2>2
    <3>2. (head \o tail)[j] = s[j + 1]
      BY <1>5, <1>7, <3>1
    <3> QED
      BY <2>2, <3>2 DEF DropAt
  <2> QED
    BY <2>1, <2>2
<1>11. head \o tail = d
  BY <1>7, <1>9, <1>10, SeqEqual
<1> QED
  BY <1>1, <1>3, <1>11

LEMMA PutAfterIsAdd ==
  ASSUME NEW T, NEW c, NEW s, IsListing(s, c, T), NEW k \in 0..c, NEW i
  PROVE  Ordered!PutAfter(s, k, i) = AddAt(s, c, k, i)
<1> DEFINE S == T \cup {i}
<1>0. c \in Nat /\ s \in [1..c -> S] /\ i \in S
  BY DEF IsListing
<1> HIDE DEF S
<1> DEFINE head == SubSeq(s, 1, k)
           tail == SubSeq(s, k + 1, c)
           d == AddAt(s, c, k, i)
           w == head \o <<i>>
<1>2. s \in Seq(S) /\ Len(s) = c
  BY <1>0, SeqDef
<1>3. Ordered!PutAfter(s, k, i) = w \o tail
  BY <1>2 DEF Ordered!PutAfter
<1>4. /\ head \in Seq(S) /\ Len(head) = k
      /\ \A j \in 1..k : head[j] = s[j]
  <2>1. 1 \in 1..(c + 1) /\ k \in (1 - 1)..c /\ k - 1 + 1 = k
    BY <1>0
  <2>2. \A j \in 1..k : 1 + j - 1 = j
    BY <1>0
  <2>3. /\ head \in Seq(S) /\ Len(head) = k - 1 + 1
        /\ \A j \in 1..(k - 1 + 1) : head[j] = s[1 + j - 1]
    BY <1>0, <2>1, SliceIs
  <2> HIDE DEF head
  <2> QED
    BY <2>1, <2>2, <2>3
<1>5. /\ tail \in Seq(S) /\ Len(tail) = c - k
      /\ \A j \in 1..(c - k) : tail[j] = s[k + j]
  <2>1. k + 1 \in 1..(c + 1) /\ c \in (k + 1 - 1)..c /\ c - (k + 1) + 1 = c - k
    BY <1>0
  <2>2. \A j \in 1..(c - k) : k + 1 + j - 1 = k + j
    BY <1>0
  <2>3. /\ tail \in Seq(S) /\ Len(tail) = c - (k + 1) + 1
        /\ \A j \in 1..(c - (k + 1) + 1) : tail[j] = s[k + 1 + j - 1]
    BY <1>0, <2>1, SliceIs
  <2> HIDE DEF tail
  <2> QED
    BY <2>1, <2>2, <2>3
<1> HIDE DEF head, tail
<1>6. <<i>> \in Seq(S) /\ Len(<<i>>) = 1 /\ <<i>>[1] = i
  BY <1>0
<1>7. /\ w \in Seq(S)
      /\ Len(w) = k + 1
      /\ \A j \in 1..(k + 1) : w[j] = IF j <= k THEN head[j] ELSE <<i>>[j - k]
  BY <1>4, <1>6, ConcatProperties
<1>8. /\ \A j \in 1..k : w[j] = s[j]
      /\ w[k + 1] = i
  <2>1. k + 1 \in 1..(k + 1) /\ ~(k + 1 <= k) /\ (k + 1) - k = 1
    BY <1>0
  <2>2. w[k + 1] = <<i>>[(k + 1) - k]
    BY <1>7, <2>1
  <2>3. \A j \in 1..k : j \in 1..(k + 1) /\ j <= k
    BY <1>0
  <2> HIDE DEF w
  <2> QED
    BY <1>4, <1>6, <1>7, <2>1, <2>2, <2>3
<1> HIDE DEF w
<1>9. (k + 1) + (c - k) = c + 1
  BY <1>0
<1>10. /\ w \o tail \in Seq(S)
       /\ Len(w \o tail) = c + 1
       /\ \A j \in 1..(c + 1) : (w \o tail)[j] = IF j <= k + 1 THEN w[j] ELSE tail[j - (k + 1)]
  <2>1. /\ w \o tail \in Seq(S)
        /\ Len(w \o tail) = Len(w) + Len(tail)
        /\ \A j \in 1..(Len(w) + Len(tail)) :
              (w \o tail)[j] = IF j <= Len(w) THEN w[j] ELSE tail[j - Len(w)]
    BY <1>5, <1>7, ConcatProperties
  <2>2. Len(w) + Len(tail) = c + 1
    BY <1>5, <1>7, <1>9
  <2> QED
    BY <1>7, <2>1, <2>2
<1>11. d \in [1..(c + 1) -> S] /\ c + 1 \in Nat
  BY <1>0 DEF AddAt
<1>12. d \in Seq(S) /\ Len(d) = c + 1
  BY <1>11, SeqDef
<1>13. \A j \in 1..(c + 1) : (w \o tail)[j] = d[j]
  <2> SUFFICES ASSUME NEW j \in 1..(c + 1) PROVE (w \o tail)[j] = d[j]
    OBVIOUS
  <2>1. CASE j <= k + 1
    BY <1>8, <1>10, <2>1 DEF AddAt
  <2>2. CASE ~(j <= k + 1)
    <3>1. ~(j <= k) /\ j # k + 1 /\ j - (k + 1) \in 1..(c - k) /\ k + (j - (k + 1)) = j - 1
      BY <1>0, <2>2
    <3>2. (w \o tail)[j] = s[j - 1]
      BY <1>5, <1>10, <2>2, <3>1
    <3> QED
      BY <3>1, <3>2 DEF AddAt
  <2> QED
    BY <2>1, <2>2
<1>14. w \o tail = d
  BY <1>10, <1>12, <1>13, SeqEqual
<1> QED
  BY <1>3, <1>14

\* A list is listed by its Forward, a sequence of its links.
LEMMA ForwardLists ==
  ASSUME NEW L, ListInv(L), NEW s, ListedAs(L, s)
  PROVE  Forward(L) = s /\ ListedAs(L, Forward(L))
<1>1. Forward(L) = s
  BY ForwardIsListing DEF ListInv, ListedAs
<1> QED
  BY <1>1

LEMMA ListedIsListing ==
  ASSUME NEW L, ListInv(L), NEW s, ListedAs(L, s)
  PROVE  IsListing(s, L.count, Links(L))
  BY DEF ListInv, Typed, ListedAs, InOrder, IsListing

LEMMA ListingIsSequence ==
  ASSUME NEW c, NEW S, NEW s, IsListing(s, c, S)
  PROVE  /\ s \in Seq(S) /\ Len(s) = c
         /\ s = << >> <=> c = 0
         /\ {s[j] : j \in DOMAIN s} = S
<1>1. /\ c \in Nat
      /\ s \in [1..c -> S]
      /\ \A i \in S : \E k \in 1..c : s[k] = i
  BY DEF IsListing
<1>2. s \in Seq(S) /\ Len(s) = c
  BY <1>1, SeqDef
<1>3. s = << >> <=> c = 0
  BY <1>1, <1>2, EmptySeq
<1>4. {s[j] : j \in DOMAIN s} = S
  BY <1>1
<1> QED
  BY <1>2, <1>3, <1>4

LEMMA EmptyListed == ListedAs(empty, Forward(empty)) /\ Forward(empty) = << >>
<1> DEFINE s == [j \in 1..0 |-> NoLink]
<1>1. Links(empty) = {} /\ empty.count = 0 /\ empty.first = NoLink
  BY DEF Links, Slots, empty
<1>2. ListedAs(empty, s)
  BY <1>1 DEF ListedAs, InOrder
<1> HIDE DEF s
<1>3. Forward(empty) = s /\ s = << >>
  BY <1>1, <1>2, EmptyInv, ForwardLists, ListedIsListing, ListingIsSequence
<1> QED
  BY <1>2, <1>3

\* A sequence of one.
LEMMA AddToNone ==
  ASSUME NEW s, NEW i
  PROVE  AddAt(s, 0, 0, i) = <<i>>
<1> DEFINE d == AddAt(s, 0, 0, i)
<1>1. d \in [1..1 -> {i}] /\ d[1] = i
  BY DEF AddAt
<1> HIDE DEF d
<1>2. d \in Seq({i}) /\ Len(d) = 1
  <2>1. IsListing(d, 1, {i})
    BY <1>1 DEF IsListing
  <2> QED
    BY <2>1, ListingIsSequence
<1>3. <<i>> \in Seq({i}) /\ Len(<<i>>) = 1 /\ <<i>>[1] = i
  OBVIOUS
<1>4. \A j \in 1..Len(d) : d[j] = <<i>>[j]
  BY <1>1, <1>2, <1>3
<1>5. d = <<i>>
  BY <1>2, <1>3, <1>4, SeqEqual
<1> QED
  BY <1>5 DEF d

\* An anchor is a link of the list, at some place, or no link of an empty list.
LEMMA AnchorPlace ==
  ASSUME NEW L, ListInv(L), NEW s, ListedAs(L, s), NEW a \in Slots(L) \cup {NoLink}, IsAnchor(L, a)
  PROVE  \/ a = NoLink /\ L.count = 0
         \/ a \in Links(L) /\ a # NoLink /\ L.count # 0 /\ \E k \in 1..L.count : s[k] = a
<1>1. CASE a = NoLink
  <2>1. L.first = NoLink
    BY <1>1 DEF IsAnchor, ListInv, Chained
  <2>2. L.count # 0 => s[1] \in Links(L) /\ s[1] # NoLink
    BY DEF ListInv, Typed, Links, NoLink, ListedAs, InOrder
  <2> QED
    BY <1>1, <2>1, <2>2 DEF ListedAs, InOrder
<1>2. CASE a # NoLink
  <2>1. a \in Links(L)
    BY <1>2, AnchorIsLink
  <2>2. \E k \in 1..L.count : s[k] = a
    BY <2>1 DEF ListedAs, InOrder
  <2> QED
    BY <1>2, <2>1, <2>2
<1> QED
  BY <1>1, <1>2

LEMMA InsertAfterPlaces ==
  ASSUME NEW L, ListInv(L), ListedAs(L, Forward(L)),
         NEW a \in Slots(L) \cup {NoLink}, IsAnchor(L, a)
  PROVE  /\ ListedAs(insert_after(L, a), Forward(insert_after(L, a)))
         /\ NewIndex(L) \notin Links(L)
         /\ a \in Links(L) \/ (a = NoLink /\ Forward(L) = << >>)
         /\ Forward(insert_after(L, a)) =
               IF Forward(L) = << >> THEN <<NewIndex(L)>>
               ELSE Ordered!PutAfter(Forward(L), Ordered!IndexIn(Forward(L), a), NewIndex(L))
<1> DEFINE s == Forward(L)
           i == NewIndex(L)
           R == insert_after(L, a)
<1>1. IsListing(s, L.count, Links(L)) /\ L.count \in Nat
  BY ListedIsListing DEF ListInv, Typed
<1>6. s = << >> <=> L.count = 0
  BY <1>1, ListingIsSequence
<1>2. ListInv(R) /\ i \notin Links(L)
  BY AnchorIsLink, InsertAfterInv
<1>3. CASE a = NoLink /\ L.count = 0
  <2>1. ListedAs(R, AddAt(s, 0, 0, i))
    BY <1>3, InsertAfterListing
  <2>2. Forward(R) = <<i>> /\ ListedAs(R, Forward(R))
    BY <1>2, <2>1, ForwardLists, AddToNone
  <2> QED
    BY <1>2, <1>3, <1>6, <2>2
<1>4. ASSUME a \in Links(L), a # NoLink, NEW k \in 1..L.count, s[k] = a
      PROVE  /\ ListedAs(R, Forward(R))
             /\ s # << >>
             /\ Forward(R) = Ordered!PutAfter(s, Ordered!IndexIn(s, a), i)
  <2>1. k \in 0..L.count /\ k # 0 /\ L.count # 0
    BY <1>1
  <2>2. ListedAs(R, AddAt(s, L.count, k, i))
    BY <1>4, <2>1, InsertAfterListing
  <2>3. Forward(R) = AddAt(s, L.count, k, i) /\ ListedAs(R, Forward(R))
    BY <1>2, <2>2, ForwardLists
  <2>4. Ordered!IndexIn(s, a) = k
    BY <1>1, <1>4, WithoutIsDrop
  <2>5. Ordered!PutAfter(s, k, i) = AddAt(s, L.count, k, i)
    BY <1>1, <2>1, PutAfterIsAdd
  <2> QED
    BY <1>6, <2>1, <2>3, <2>4, <2>5
<1>5. \/ a = NoLink /\ L.count = 0
      \/ a \in Links(L) /\ a # NoLink /\ \E k \in 1..L.count : s[k] = a
  BY AnchorPlace
<1> HIDE DEF s, i, R
<1> QED
  BY <1>2, <1>3, <1>4, <1>5 DEF s, i, R

LEMMA InsertBeforePlaces ==
  ASSUME NEW L, ListInv(L), ListedAs(L, Forward(L)),
         NEW a \in Slots(L) \cup {NoLink}, IsAnchor(L, a)
  PROVE  /\ ListedAs(insert_before(L, a), Forward(insert_before(L, a)))
         /\ NewIndex(L) \notin Links(L)
         /\ a \in Links(L) \/ (a = NoLink /\ Forward(L) = << >>)
         /\ Forward(insert_before(L, a)) =
               IF Forward(L) = << >> THEN <<NewIndex(L)>>
               ELSE Ordered!PutAfter(Forward(L), Ordered!IndexIn(Forward(L), a) - 1, NewIndex(L))
<1> DEFINE s == Forward(L)
           i == NewIndex(L)
           R == insert_before(L, a)
<1>1. IsListing(s, L.count, Links(L)) /\ L.count \in Nat
  BY ListedIsListing DEF ListInv, Typed
<1>6. s = << >> <=> L.count = 0
  BY <1>1, ListingIsSequence
<1>2. ListInv(R) /\ i \notin Links(L)
  BY AnchorIsLink, InsertBeforeInv
<1>3. CASE a = NoLink /\ L.count = 0
  <2>1. ListedAs(R, AddAt(s, 0, 0, i))
    BY <1>3, InsertBeforeListing
  <2>2. Forward(R) = <<i>> /\ ListedAs(R, Forward(R))
    BY <1>2, <2>1, ForwardLists, AddToNone
  <2> QED
    BY <1>2, <1>3, <1>6, <2>2
<1>4. ASSUME a \in Links(L), a # NoLink, NEW k \in 1..L.count, s[k] = a
      PROVE  /\ ListedAs(R, Forward(R))
             /\ s # << >>
             /\ Forward(R) = Ordered!PutAfter(s, Ordered!IndexIn(s, a) - 1, i)
  <2> DEFINE m == k - 1
  <2>1. m \in 0..L.count /\ m # L.count /\ m + 1 = k /\ L.count # 0
    BY <1>1
  <2> HIDE DEF m
  <2>2. ListedAs(R, AddAt(s, L.count, m, i))
    BY <1>4, <2>1, InsertBeforeListing
  <2>3. Forward(R) = AddAt(s, L.count, m, i) /\ ListedAs(R, Forward(R))
    BY <1>2, <2>2, ForwardLists
  <2>4. Ordered!IndexIn(s, a) = k
    BY <1>1, <1>4, WithoutIsDrop
  <2>5. Ordered!PutAfter(s, m, i) = AddAt(s, L.count, m, i)
    BY <1>1, <2>1, PutAfterIsAdd
  <2> QED
    BY <1>6, <2>1, <2>3, <2>4, <2>5 DEF m
<1>5. \/ a = NoLink /\ L.count = 0
      \/ a \in Links(L) /\ a # NoLink /\ \E k \in 1..L.count : s[k] = a
  BY AnchorPlace
<1> HIDE DEF s, i, R
<1> QED
  BY <1>2, <1>3, <1>4, <1>5 DEF s, i, R

LEMMA RemovePlaces ==
  ASSUME NEW L, ListInv(L), ListedAs(L, Forward(L)), NEW i \in Links(L)
  PROVE  /\ ListedAs(remove(L, i), Forward(remove(L, i)))
         /\ Forward(remove(L, i)) = Ordered!Without(Forward(L), i)
<1> DEFINE s == Forward(L)
           R == remove(L, i)
<1>1. IsListing(s, L.count, Links(L))
  BY ListedIsListing
<1>2. PICK k \in 1..L.count : s[k] = i
  BY <1>1 DEF IsListing
<1>3. ListInv(R)
  BY RemoveInv
<1>4. ListedAs(R, DropAt(s, L.count, k))
  BY <1>2, RemoveListing
<1>5. Forward(R) = DropAt(s, L.count, k) /\ ListedAs(R, Forward(R))
  BY <1>3, <1>4, ForwardLists
<1>6. Ordered!Without(s, i) = DropAt(s, L.count, k)
  BY <1>1, <1>2, WithoutIsDrop
<1> QED
  BY <1>5, <1>6

\* What is left when a link is taken out is a listing too.
LEMMA RestIsListing ==
  ASSUME NEW L, ListInv(L), NEW s, ListedAs(L, s), NEW k \in 1..L.count
  PROVE  IsListing(DropAt(s, L.count, k), L.count - 1, Links(L) \ {s[k]})
<1> DEFINE r == DropAt(s, L.count, k)
           c == L.count - 1
           U == unlink(L, s[k])
<1>1. Links(L) \in SUBSET Slots(L) /\ L.count \in Nat
  BY DEF ListInv, Typed, Links
<1>2. InOrder(U.next, U.first, r, c, Links(L) \ {s[k]})
  BY <1>1, UnlinkListing DEF ListInv, ListedAs
<1>3. c \in Nat
  BY <1>1
<1> HIDE DEF r, c, U
<1>4. IsListing(r, c, Links(L) \ {s[k]})
  BY <1>2, <1>3 DEF InOrder, IsListing
<1> QED
  BY <1>4 DEF r, c

LEMMA MoveAfterPlaces ==
  ASSUME NEW L, ListInv(L), ListedAs(L, Forward(L)), NEW i \in Links(L), NEW a \in Links(L), i # a
  PROVE  /\ ListedAs(move_after(L, a, i), Forward(move_after(L, a, i)))
         /\ Forward(move_after(L, a, i)) =
               LET rest == Ordered!Without(Forward(L), i)
               IN  Ordered!PutAfter(rest, Ordered!IndexIn(rest, a), i)
<1> DEFINE s == Forward(L)
           R == move_after(L, a, i)
           c == L.count - 1
<1>1. IsListing(s, L.count, Links(L))
  BY ListedIsListing
<1>2. PICK k \in 1..L.count : s[k] = i
  BY <1>1 DEF IsListing
<1> DEFINE r == DropAt(s, L.count, k)
<1>3. IsListing(r, c, Links(L) \ {i})
  BY <1>2, RestIsListing
<1>4. PICK m \in 1..c : r[m] = a
  BY <1>3 DEF IsListing
<1>5. ListInv(R)
  BY MoveAfterInv
<1>6. ListedAs(R, AddAt(r, c, m, i))
  BY <1>2, <1>4, MoveAfterListing
<1>7. Forward(R) = AddAt(r, c, m, i) /\ ListedAs(R, Forward(R))
  BY <1>5, <1>6, ForwardLists
<1>8. Ordered!Without(s, i) = r
  BY <1>1, <1>2, WithoutIsDrop
<1> HIDE DEF s, R, c, r
<1>9. Ordered!IndexIn(r, a) = m
  BY <1>3, <1>4, WithoutIsDrop
<1>10. Ordered!PutAfter(r, m, i) = AddAt(r, c, m, i)
  <2>1. m \in 0..c
    OBVIOUS
  <2> QED
    BY <1>3, <2>1, PutAfterIsAdd
<1>11. Forward(R) = Ordered!PutAfter(r, Ordered!IndexIn(r, a), i)
  BY <1>7, <1>9, <1>10
<1> QED
  BY <1>7, <1>8, <1>11 DEF s, R

LEMMA MoveBeforePlaces ==
  ASSUME NEW L, ListInv(L), ListedAs(L, Forward(L)), NEW i \in Links(L), NEW a \in Links(L), i # a
  PROVE  /\ ListedAs(move_before(L, a, i), Forward(move_before(L, a, i)))
         /\ Forward(move_before(L, a, i)) =
               LET rest == Ordered!Without(Forward(L), i)
               IN  Ordered!PutAfter(rest, Ordered!IndexIn(rest, a) - 1, i)
<1> DEFINE s == Forward(L)
           R == move_before(L, a, i)
           c == L.count - 1
<1>1. IsListing(s, L.count, Links(L))
  BY ListedIsListing
<1>2. PICK k \in 1..L.count : s[k] = i
  BY <1>1 DEF IsListing
<1> DEFINE r == DropAt(s, L.count, k)
<1>3. IsListing(r, c, Links(L) \ {i})
  BY <1>2, RestIsListing
<1>4. PICK m \in 1..c : r[m] = a
  BY <1>3 DEF IsListing
<1>5. ListInv(R)
  BY MoveBeforeInv
<1>6. ListedAs(R, AddAt(r, c, m - 1, i))
  BY <1>2, <1>4, MoveBeforeListing
<1>7. Forward(R) = AddAt(r, c, m - 1, i) /\ ListedAs(R, Forward(R))
  BY <1>5, <1>6, ForwardLists
<1>8. Ordered!Without(s, i) = r
  BY <1>1, <1>2, WithoutIsDrop
<1> HIDE DEF s, R, c, r
<1>9. Ordered!IndexIn(r, a) = m
  BY <1>3, <1>4, WithoutIsDrop
<1>10. Ordered!PutAfter(r, m - 1, i) = AddAt(r, c, m - 1, i)
  <2>1. m - 1 \in 0..c
    BY <1>3 DEF IsListing
  <2> QED
    BY <1>3, <2>1, PutAfterIsAdd
<1>11. Forward(R) = Ordered!PutAfter(r, Ordered!IndexIn(r, a) - 1, i)
  BY <1>7, <1>9, <1>10
<1> QED
  BY <1>7, <1>8, <1>11 DEF s, R

-------------------------------------------------------------------------------
(***************************************************************************)
(* The list and the iteration.                                             *)
(***************************************************************************)
\* The indices that were ever given out are as many as there were links at once.
IndicesBounded == Slots(list) \subseteq 0..(MaxLinks - 1)

Run(back) == IF back THEN Backward(list) ELSE Forward(list)

\* An iteration that passed k links has the others before it; the link it is
\* at is the last one it passed, unless the body removed it.
IsAt(k) ==
    LET run == Run(iter.back)
    IN  /\ iter.todo \in Seq(Links(list))
        /\ Len(iter.todo) = list.count - k
        /\ \A j \in 1..(list.count - k) : iter.todo[j] = run[k + j]
        /\ iter.saved = IF k = list.count THEN NoLink ELSE run[k + 1]
        /\ iter.at \in Links(list) => k > 0 /\ run[k] = iter.at

IterOK ==
    /\ DOMAIN iter = {"on", "back", "at", "saved", "todo"}
    /\ iter.on \in BOOLEAN /\ iter.back \in BOOLEAN
    /\ iter.on => \E k \in 0..list.count : IsAt(k)

IInv ==
    /\ TypeOK
    /\ ListedAs(list, Forward(list))
    /\ IndicesBounded
    /\ IterOK

\* Both directions list the links; removing one leaves the others in order.
LEMMA RunsList ==
  ASSUME NEW L, ListInv(L), ListedAs(L, Forward(L))
  PROVE  /\ InOrder(L.prev, L.last, Backward(L), L.count, Links(L))
         /\ Backward(L) = Reversed(Forward(L), L.count)
<1> DEFINE s == Forward(L)
           r == Reversed(s, L.count)
<1>1. /\ Typed(L) /\ Chained(L, Links(L)) /\ Links(L) \in SUBSET Slots(L) /\ L.count \in Nat
      /\ InOrder(L.next, L.first, s, L.count, Links(L))
  BY DEF ListInv, Typed, Links, ListedAs
<1> HIDE DEF s
<1>2. InOrder(L.prev, L.last, r, L.count, Links(L))
  BY <1>1, ListedBothWays
<1> HIDE DEF r
<1>3. Backward(L) = r
  BY <1>1, <1>2, BackwardIsListing
<1> QED
  BY <1>2, <1>3 DEF r, s

LEMMA RemoveFromRuns ==
  ASSUME NEW L, ListInv(L), ListedAs(L, Forward(L)), NEW k \in 1..L.count
  PROVE  /\ Forward(remove(L, Forward(L)[k])) = DropAt(Forward(L), L.count, k)
         /\ Backward(remove(L, Backward(L)[k])) = DropAt(Backward(L), L.count, k)
<1> DEFINE s == Forward(L)
           c == L.count
<1>1. L.count \in Nat
  BY DEF ListInv, Typed
<1>2. ASSUME NEW m \in 1..c
      PROVE  /\ Forward(remove(L, s[m])) = DropAt(s, c, m)
             /\ Backward(remove(L, s[m])) = Reversed(DropAt(s, c, m), c - 1)
  <2> DEFINE i == s[m]
             R == remove(L, i)
             d == DropAt(s, c, m)
  <2>1. i \in Links(L)
    BY <1>2 DEF ListedAs, InOrder
  <2>2. ListInv(R) /\ R.count = c - 1
    BY <2>1, RemoveInv
  <2>3. ListedAs(R, d)
    BY <1>2, RemoveListing
  <2> HIDE DEF R, d
  <2>4. Forward(R) = d /\ ListedAs(R, Forward(R))
    BY <2>2, <2>3, ForwardLists
  <2>5. Backward(R) = Reversed(d, c - 1)
    BY <2>2, <2>4, RunsList
  <2> QED
    BY <2>4, <2>5 DEF R, d
<1>3. Backward(L) = Reversed(s, c)
  BY RunsList
<1> HIDE DEF s, c
<1> DEFINE m == c + 1 - k
           r == Reversed(s, c)
<1>4. m \in 1..c /\ r[k] = s[m]
  BY <1>1 DEF Reversed, c
<1>5. Reversed(DropAt(s, c, m), c - 1) = DropAt(r, c, k)
  <2>1. ASSUME NEW j \in 1..(c - 1)
        PROVE  Reversed(DropAt(s, c, m), c - 1)[j] = DropAt(r, c, k)[j]
    <3>1. /\ c - j \in 1..(c - 1) /\ (c - 1) + 1 - j = c - j
          /\ c - j < m <=> ~(j < k)
          /\ j \in 1..c /\ j + 1 \in 1..c
          /\ c + 1 - (j + 1) = c - j /\ (c - j) + 1 = c + 1 - j
      BY <1>1 DEF c
    <3>2. Reversed(DropAt(s, c, m), c - 1)[j] = DropAt(s, c, m)[c - j]
      BY <3>1 DEF Reversed
    <3>3. DropAt(s, c, m)[c - j] = IF c - j < m THEN s[c - j] ELSE s[(c - j) + 1]
      BY <3>1 DEF DropAt
    <3>4. DropAt(r, c, k)[j] = IF j < k THEN r[j] ELSE r[j + 1]
      BY DEF DropAt
    <3>5. r[j] = s[c + 1 - j] /\ r[j + 1] = s[c + 1 - (j + 1)]
      BY <3>1 DEF Reversed
    <3> QED
      BY <3>1, <3>2, <3>3, <3>4, <3>5
  <2>2. /\ Reversed(DropAt(s, c, m), c - 1) = [j \in 1..(c - 1) |-> Reversed(DropAt(s, c, m), c - 1)[j]]
        /\ DropAt(r, c, k) = [j \in 1..(c - 1) |-> DropAt(r, c, k)[j]]
    BY DEF Reversed, DropAt
  <2> QED
    BY <2>1, <2>2
<1>6. Backward(remove(L, Backward(L)[k])) = DropAt(Backward(L), c, k)
  BY <1>2, <1>3, <1>4, <1>5
<1>7. Forward(remove(L, s[k])) = DropAt(s, c, k)
  BY <1>2 DEF c
<1> QED
  BY <1>6, <1>7 DEF s, c

\* Each method of the list does what OrderedList says, and leaves a list whose
\* links are one chain.
LEMMA Places == IInv => OperationsPlace
<1> SUFFICES ASSUME IInv PROVE OperationsPlace
  OBVIOUS
<1>0. ListInv(list) /\ ListedAs(list, Forward(list)) /\ NoLink \notin Slots(list)
  BY DEF IInv, TypeOK, ListInv, Typed, NoLink
<1>1. Ordered!Members = Links(list)
  <2>1. IsListing(Forward(list), list.count, Links(list))
    BY <1>0, ListedIsListing
  <2> QED
    BY <2>1, ListingIsSequence DEF Ordered!Members, Order
<1>2. ASSUME NEW p \in Slots(list) \cup {NoLink}, InsertAfter(p)
      PROVE  Ordered!InsertAfter(p, NewIndex(list))
  <2>1. /\ NewIndex(list) \notin Links(list)
        /\ p \in Links(list) \/ (p = NoLink /\ Forward(list) = << >>)
        /\ Forward(insert_after(list, p)) =
              IF Forward(list) = << >> THEN <<NewIndex(list)>>
              ELSE Ordered!PutAfter(Forward(list), Ordered!IndexIn(Forward(list), p), NewIndex(list))
    BY <1>0, <1>2, InsertAfterPlaces DEF InsertAfter
  <2> QED
    BY <1>1, <1>2, <2>1 DEF InsertAfter, Ordered!InsertAfter, Order
<1>3. ASSUME NEW p \in Slots(list) \cup {NoLink}, InsertBefore(p)
      PROVE  Ordered!InsertBefore(p, NewIndex(list))
  <2>1. /\ NewIndex(list) \notin Links(list)
        /\ p \in Links(list) \/ (p = NoLink /\ Forward(list) = << >>)
        /\ Forward(insert_before(list, p)) =
              IF Forward(list) = << >> THEN <<NewIndex(list)>>
              ELSE Ordered!PutAfter(Forward(list), Ordered!IndexIn(Forward(list), p) - 1, NewIndex(list))
    BY <1>0, <1>3, InsertBeforePlaces DEF InsertBefore
  <2> QED
    BY <1>1, <1>3, <2>1 DEF InsertBefore, Ordered!InsertBefore, Order
<1>4. ASSUME NEW i, Remove(i)
      PROVE  Ordered!Remove(i)
  <2>1. i \in Links(list)
    BY <1>0, <1>4, CheckExact DEF Remove, IsLink
  <2>2. Forward(remove(list, i)) = Ordered!Without(Forward(list), i)
    BY <1>0, <2>1, RemovePlaces
  <2> QED
    BY <1>1, <1>4, <2>1, <2>2 DEF Remove, Ordered!Remove, Order
<1>5. ASSUME NEW p \in Slots(list) \cup {NoLink}, NEW i \in Slots(list) \ {p}, MoveAfter(p, i)
      PROVE  Ordered!MoveAfter(p, i)
  <2>1. i \in Links(list) /\ p \in Links(list) /\ i # p
    BY <1>0, <1>5, CheckExact DEF MoveAfter, IsLink
  <2>2. Forward(move_after(list, p, i)) =
               LET rest == Ordered!Without(Forward(list), i)
               IN  Ordered!PutAfter(rest, Ordered!IndexIn(rest, p), i)
    BY <1>0, <2>1, MoveAfterPlaces
  <2> QED
    BY <1>1, <1>5, <2>1, <2>2 DEF MoveAfter, Ordered!MoveAfter, Order
<1>6. ASSUME NEW p \in Slots(list) \cup {NoLink}, NEW i \in Slots(list) \ {p}, MoveBefore(p, i)
      PROVE  Ordered!MoveBefore(p, i)
  <2>1. i \in Links(list) /\ p \in Links(list) /\ i # p
    BY <1>0, <1>6, CheckExact DEF MoveBefore, IsLink
  <2>2. Forward(move_before(list, p, i)) =
               LET rest == Ordered!Without(Forward(list), i)
               IN  Ordered!PutAfter(rest, Ordered!IndexIn(rest, p) - 1, i)
    BY <1>0, <2>1, MoveBeforePlaces
  <2> QED
    BY <1>1, <1>6, <2>1, <2>2 DEF MoveBefore, Ordered!MoveBefore, Order
<1> QED
  BY <1>2, <1>3, <1>4, <1>5, <1>6 DEF OperationsPlace

LEMMA LinkSlots ==
  ASSUME NEW L, Typed(L), NEW p, NEW n, NEW i
  PROVE  Slots(link_between(L, p, n, i)) = Slots(L)
  BY DEF link_between, Slots, Typed

\* An insertion takes a free index, or one more when none is free.
LEMMA NewIndexIs ==
  ASSUME NEW L, ListInv(L)
  PROVE  NewIndex(L) \in Slots(L) \cup {L.count}
<1>1. CASE L.free = << >>
  BY <1>1 DEF NewIndex
<1>2. CASE L.free # << >>
  <2>1. Len(L.free) \in DOMAIN L.free
    BY <1>2, LenProperties, EmptySeq DEF ListInv, Typed
  <2> QED
    BY <1>2, <2>1 DEF NewIndex, ListInv, FreeOnce
<1> QED
  BY <1>1, <1>2

LEMMA InsertSlots ==
  ASSUME NEW L, ListInv(L), NEW a
  PROVE  /\ Slots(insert_after(L, a)) = Slots(L) \cup {NewIndex(L)}
         /\ Slots(insert_before(L, a)) = Slots(L) \cup {NewIndex(L)}
<1>1. /\ Typed(newlink(L)) /\ Slots(newlink(L)) = Slots(L) \cup {NewIndex(L)}
  BY NewlinkInv
<1> QED
  BY <1>1, LinkSlots DEF insert_after, insert_before, link_after, link_before

LEMMA MoveSlots ==
  ASSUME NEW L, ListInv(L), NEW a, NEW i \in Links(L)
  PROVE  /\ Slots(move_after(L, a, i)) = Slots(L)
         /\ Slots(move_before(L, a, i)) = Slots(L)
<1>1. Links(L) \in SUBSET Slots(L)
  BY DEF Links
<1>2. Typed(unlink(L, i)) /\ Slots(unlink(L, i)) = Slots(L)
  BY <1>1, UnlinkChained DEF ListInv
<1> QED
  BY <1>2, LinkSlots DEF move_after, move_before, link_after, link_before

\* What the list is like after each method.
LEMMA MutateKeeps ==
  ASSUME IInv
  PROVE  /\ Mutate => ListedAs(list, Forward(list))' /\ IndicesBounded'
         /\ \A i : Remove(i) => ListedAs(list, Forward(list))' /\ IndicesBounded'
<1>0. ListInv(list) /\ ListedAs(list, Forward(list))
  BY DEF IInv, TypeOK
<1>1. /\ Slots(list) \subseteq 0..(MaxLinks - 1) /\ list.count \in Nat
      /\ list.count < MaxLinks => list.count \in 0..(MaxLinks - 1)
  BY MaxLinksAssumption DEF IInv, TypeOK, ListInv, Typed, IndicesBounded
<1> DEFINE Good(G) == ListedAs(G, Forward(G)) /\ Slots(G) \subseteq 0..(MaxLinks - 1)
<1>2. ASSUME NEW p \in Slots(list) \cup {NoLink}, InsertAfter(p) PROVE Good(list')
  <2>1. ListedAs(insert_after(list, p), Forward(insert_after(list, p)))
    BY <1>0, <1>2, InsertAfterPlaces DEF InsertAfter
  <2>2. Slots(insert_after(list, p)) \subseteq 0..(MaxLinks - 1)
    BY <1>0, <1>1, <1>2, InsertSlots, NewIndexIs DEF InsertAfter
  <2> QED
    BY <1>2, <2>1, <2>2 DEF InsertAfter
<1>3. ASSUME NEW p \in Slots(list) \cup {NoLink}, InsertBefore(p) PROVE Good(list')
  <2>1. ListedAs(insert_before(list, p), Forward(insert_before(list, p)))
    BY <1>0, <1>3, InsertBeforePlaces DEF InsertBefore
  <2>2. Slots(insert_before(list, p)) \subseteq 0..(MaxLinks - 1)
    BY <1>0, <1>1, <1>3, InsertSlots, NewIndexIs DEF InsertBefore
  <2> QED
    BY <1>3, <2>1, <2>2 DEF InsertBefore
<1>4. ASSUME NEW i, Remove(i) PROVE Good(list')
  <2>1. i \in Links(list)
    BY <1>0, <1>4, CheckExact DEF Remove, IsLink
  <2>2. ListedAs(remove(list, i), Forward(remove(list, i))) /\ Slots(remove(list, i)) = Slots(list)
    BY <1>0, <2>1, RemovePlaces, RemoveInv
  <2> QED
    BY <1>1, <1>4, <2>2 DEF Remove
<1>5. ASSUME NEW p \in Slots(list), NEW i \in Slots(list), MoveAfter(p, i) PROVE Good(list')
  <2>1. CASE i = p
    BY <1>0, <1>1, <1>5, <2>1 DEF MoveAfter, move_after
  <2>2. CASE i # p
    <3>1. i \in Links(list) /\ p \in Links(list)
      BY <1>0, <1>5, <2>2, CheckExact DEF MoveAfter
    <3>2. /\ ListedAs(move_after(list, p, i), Forward(move_after(list, p, i)))
          /\ Slots(move_after(list, p, i)) = Slots(list)
      BY <1>0, <2>2, <3>1, MoveAfterPlaces, MoveSlots
    <3> QED
      BY <1>1, <1>5, <3>2 DEF MoveAfter
  <2> QED
    BY <2>1, <2>2
<1>6. ASSUME NEW p \in Slots(list), NEW i \in Slots(list), MoveBefore(p, i) PROVE Good(list')
  <2>1. CASE i = p
    BY <1>0, <1>1, <1>6, <2>1 DEF MoveBefore, move_before
  <2>2. CASE i # p
    <3>1. i \in Links(list) /\ p \in Links(list)
      BY <1>0, <1>6, <2>2, CheckExact DEF MoveBefore
    <3>2. /\ ListedAs(move_before(list, p, i), Forward(move_before(list, p, i)))
          /\ Slots(move_before(list, p, i)) = Slots(list)
      BY <1>0, <2>2, <3>1, MoveBeforePlaces, MoveSlots
    <3> QED
      BY <1>1, <1>6, <3>2 DEF MoveBefore
  <2> QED
    BY <2>1, <2>2
<1>7. ASSUME Clear PROVE Good(list')
  <2>1. Slots(empty) = {}
    BY DEF Slots, empty
  <2> QED
    BY <1>7, <2>1, EmptyListed DEF Clear
<1>8. Mutate => Good(list')
  BY <1>2, <1>3, <1>4, <1>5, <1>6, <1>7 DEF Mutate
<1>9. Good(list') <=> ListedAs(list, Forward(list))' /\ IndicesBounded'
  BY DEF IndicesBounded
<1> QED
  BY <1>4, <1>8, <1>9

LEMMA RunFields ==
  ASSUME NEW L, ListInv(L), ListedAs(L, Forward(L)), NEW back \in BOOLEAN
  PROVE  LET run == IF back THEN Backward(L) ELSE Forward(L)
         IN  /\ L.count \in Nat
             /\ IsListing(run, L.count, Links(L))
             /\ (IF back THEN L.last ELSE L.first) = IF L.count = 0 THEN NoLink ELSE run[1]
             /\ \A j \in 1..L.count : (IF back THEN L.prev ELSE L.next)[run[j]]
                                        = IF j = L.count THEN NoLink ELSE run[j + 1]
<1>1. InOrder(L.prev, L.last, Backward(L), L.count, Links(L))
  BY RunsList
<1>2. InOrder(L.next, L.first, Forward(L), L.count, Links(L))
  BY DEF ListedAs
<1>3. L.count \in Nat
  BY DEF ListInv, Typed
<1>4. CASE back
  BY <1>1, <1>3, <1>4 DEF InOrder, IsListing
<1>5. CASE ~back
  BY <1>2, <1>3, <1>5 DEF InOrder, IsListing
<1> QED
  BY <1>4, <1>5

LEMMA BeginKeeps ==
  ASSUME IInv, NEW back \in BOOLEAN, BeginIteration(back)
  PROVE  IterOK'
<1> DEFINE run == IF back THEN Backward(list) ELSE Forward(list)
           c == list.count
           S == Links(list)
<1>1. /\ c \in Nat
      /\ IsListing(run, c, S)
      /\ (IF back THEN list.last ELSE list.first) = IF c = 0 THEN NoLink ELSE run[1]
      /\ \A j \in 1..c : (IF back THEN list.prev ELSE list.next)[run[j]]
                                        = IF j = c THEN NoLink ELSE run[j + 1]
  BY RunFields DEF IInv, TypeOK
<1>2. /\ list' = list
      /\ iter' = [on |-> TRUE, back |-> back, at |-> IF back THEN list.last ELSE list.first,
                  saved |-> Toward(back)[IF back THEN list.last ELSE list.first],
                  todo |-> Tail(run)]
      /\ (IF back THEN list.last ELSE list.first) # NoLink
  BY DEF BeginIteration, Order
<1>3. Run(iter.back)' = run
  BY <1>2 DEF Run
<1> HIDE DEF run, c, S
<1>4. c # 0 /\ 1 \in 1..c /\ (IF back THEN list.last ELSE list.first) = run[1]
  BY <1>1, <1>2
<1>5. iter'.saved = IF 1 = c THEN NoLink ELSE run[1 + 1]
  BY <1>1, <1>2, <1>4 DEF Toward
<1>6. /\ Tail(run) \in Seq(S) /\ Len(Tail(run)) = c - 1
      /\ \A j \in 1..(c - 1) : Tail(run)[j] = run[1 + j]
  <2>1. run \in Seq(S) /\ Len(run) = c /\ run # << >>
    BY <1>1, <1>4, ListingIsSequence
  <2>2. /\ Tail(run) \in Seq(S) /\ Len(Tail(run)) = Len(run) - 1
        /\ \A j \in 1..Len(Tail(run)) : Tail(run)[j] = run[j + 1]
    BY <2>1, HeadTailProperties
  <2>3. \A j \in 1..(c - 1) : j + 1 = 1 + j
    BY <1>1
  <2> QED
    BY <2>1, <2>2, <2>3
<1>7. /\ iter'.at = run[1] /\ iter'.todo = Tail(run) /\ iter'.on = TRUE /\ iter'.back = back
      /\ DOMAIN iter' = {"on", "back", "at", "saved", "todo"}
  BY <1>2, <1>4
<1>8. IsAt(1)'
  BY <1>2, <1>3, <1>4, <1>5, <1>6, <1>7 DEF IsAt, c, S
<1>9. 1 \in 0..list'.count
  BY <1>2, <1>4 DEF c
<1> QED
  BY <1>7, <1>8, <1>9 DEF IterOK

LEMMA ContinueKeeps ==
  ASSUME IInv, ContinueIteration
  PROVE  IterOK'
<1>1. CASE iter.saved = NoLink
  BY <1>1 DEF ContinueIteration, GoTo, IterOK, idle
<1>2. CASE iter.saved # NoLink
  <2> DEFINE back == iter.back
             run == IF back THEN Backward(list) ELSE Forward(list)
             c == list.count
             S == Links(list)
  <2>1. PICK k \in 0..list.count : IsAt(k)
    BY DEF IInv, IterOK, ContinueIteration
  <2>2. back \in BOOLEAN /\ DOMAIN iter = {"on", "back", "at", "saved", "todo"} /\ iter.on
    BY DEF IInv, IterOK, ContinueIteration
  <2>3. /\ c \in Nat
        /\ IsListing(run, c, S)
        /\ \A j \in 1..c : (IF back THEN list.prev ELSE list.next)[run[j]]
                             = IF j = c THEN NoLink ELSE run[j + 1]
    BY <2>2, RunFields DEF IInv, TypeOK
  <2>4. /\ list' = list
        /\ DOMAIN iter' = DOMAIN iter
        /\ iter'.on = iter.on /\ iter'.back = iter.back
        /\ iter'.at = iter.saved
        /\ iter'.saved = Toward(back)[iter.saved]
        /\ iter'.todo = Tail(iter.todo)
    BY <1>2, <2>2 DEF ContinueIteration, GoTo
  <2>5. /\ iter.todo \in Seq(S)
        /\ Len(iter.todo) = c - k
        /\ \A j \in 1..(c - k) : iter.todo[j] = run[k + j]
        /\ iter.saved = IF k = c THEN NoLink ELSE run[k + 1]
    BY <2>1 DEF IsAt, Run
  <2>6. Run(iter.back)' = run
    BY <2>4 DEF Run
  <2> HIDE DEF run, c, S, back
  <2>7. k # c /\ k + 1 \in 1..c /\ iter.saved = run[k + 1]
    BY <1>2, <2>3, <2>5 DEF c
  <2>8. iter'.saved = IF k + 1 = c THEN NoLink ELSE run[(k + 1) + 1]
    BY <2>3, <2>4, <2>7 DEF Toward
  <2>9. /\ Tail(iter.todo) \in Seq(S) /\ Len(Tail(iter.todo)) = c - (k + 1)
        /\ \A j \in 1..(c - (k + 1)) : Tail(iter.todo)[j] = run[(k + 1) + j]
    <3>1. iter.todo # << >>
      BY <2>3, <2>5, <2>7, EmptySeq DEF c
    <3>2. /\ Tail(iter.todo) \in Seq(S) /\ Len(Tail(iter.todo)) = Len(iter.todo) - 1
          /\ \A j \in 1..Len(Tail(iter.todo)) : Tail(iter.todo)[j] = iter.todo[j + 1]
      BY <2>5, <3>1, HeadTailProperties
    <3>3. /\ (c - k) - 1 = c - (k + 1)
          /\ \A j \in 1..(c - (k + 1)) : j + 1 \in 1..(c - k) /\ k + (j + 1) = (k + 1) + j
      BY <2>3 DEF c
    <3> QED
      BY <2>5, <3>2, <3>3
  <2>10. k + 1 > 0
    BY <2>7
  <2> DEFINE n == k + 1
  <2> HIDE DEF n
  <2>11. IsAt(n)'
    BY <2>4, <2>6, <2>7, <2>8, <2>9, <2>10 DEF IsAt, c, S, n
  <2>12. n \in 0..list'.count
    BY <2>4, <2>7 DEF c, n
  <2> QED
    BY <2>2, <2>4, <2>11, <2>12 DEF IterOK, back
<1> QED
  BY <1>1, <1>2

\* The body may remove the link it is at: what is left to visit stays the same.
LEMMA RemoveCurrentKeeps ==
  ASSUME IInv, RemoveCurrent
  PROVE  IterOK'
<1> DEFINE back == iter.back
           run == IF back THEN Backward(list) ELSE Forward(list)
           after == IF back THEN Backward(list') ELSE Forward(list')
           c == list.count
           S == Links(list)
           i == iter.at
<1>0. ListInv(list) /\ ListedAs(list, Forward(list))
  BY DEF IInv, TypeOK
<1>1. PICK k \in 0..list.count : IsAt(k)
  BY DEF IInv, IterOK, RemoveCurrent
<1>2. /\ back \in BOOLEAN /\ DOMAIN iter = {"on", "back", "at", "saved", "todo"} /\ iter.on
      /\ iter' = iter /\ list' = remove(list, i)
  BY DEF IInv, IterOK, RemoveCurrent, Remove
<1>3. i \in S
  BY <1>0, CheckExact DEF RemoveCurrent, Remove, IsLink
<1>4. c \in Nat /\ IsListing(run, c, S)
  BY <1>0, <1>2, RunFields
<1>5. /\ iter.todo \in Seq(S)
      /\ Len(iter.todo) = c - k
      /\ \A j \in 1..(c - k) : iter.todo[j] = run[k + j]
      /\ iter.saved = IF k = c THEN NoLink ELSE run[k + 1]
      /\ k > 0 /\ run[k] = i
  BY <1>1, <1>3 DEF IsAt, Run
<1>6. k \in 1..c
  BY <1>4, <1>5
<1>7. after = DropAt(run, c, k)
  <2>1. Forward(remove(list, Forward(list)[k])) = DropAt(Forward(list), c, k)
    BY <1>0, <1>6, RemoveFromRuns
  <2>2. Backward(remove(list, Backward(list)[k])) = DropAt(Backward(list), c, k)
    BY <1>0, <1>6, RemoveFromRuns
  <2> QED
    BY <1>2, <1>5, <2>1, <2>2
<1>8. list'.count = c - 1 /\ Links(list') = S \ {i}
  BY <1>0, <1>2, <1>3, RemoveInv
<1>9. Run(iter.back)' = after
  BY <1>2 DEF Run
<1> HIDE DEF run, c, S, after, i
<1> DEFINE m == k - 1
<1>10. m \in 0..(c - 1) /\ (m = c - 1 <=> k = c) /\ (c - 1) - m = c - k /\ m + 1 = k
  BY <1>4, <1>6
<1>11. \A j \in 1..((c - 1) - m) : after[m + j] = run[k + j]
  <2> SUFFICES ASSUME NEW j \in 1..((c - 1) - m) PROVE after[m + j] = run[k + j]
    OBVIOUS
  <2>1. m + j \in 1..(c - 1) /\ ~(m + j < k) /\ (m + j) + 1 = k + j
    BY <1>4, <1>6, <1>10
  <2> QED
    BY <1>7, <2>1 DEF DropAt
<1>12. iter.todo \in Seq(S \ {i})
  <2>1. \A j \in 1..Len(iter.todo) : iter.todo[j] \in S \ {i}
    <3> SUFFICES ASSUME NEW j \in 1..(c - k) PROVE run[k + j] \in S \ {i}
      BY <1>5
    <3>1. k + j \in 1..c /\ k + j # k
      BY <1>4, <1>6
    <3> QED
      BY <1>4, <1>5, <1>6, <3>1 DEF IsListing
  <2>2. Len(iter.todo) \in Nat /\ iter.todo \in [1..Len(iter.todo) -> S]
    BY <1>5, LenProperties
  <2>3. iter.todo \in [1..Len(iter.todo) -> S \ {i}]
    BY <2>1, <2>2
  <2> QED
    BY <2>2, <2>3, SeqDef
<1>13. iter.saved = IF m = c - 1 THEN NoLink ELSE after[m + 1]
  <2>1. CASE k = c
    BY <1>5, <1>10, <2>1
  <2>2. CASE k # c
    <3>1. k \in 1..(c - 1) /\ ~(k < k)
      BY <1>4, <1>6, <2>2
    <3>2. after[k] = run[k + 1]
      BY <1>7, <3>1 DEF DropAt
    <3> QED
      BY <1>5, <1>10, <2>2, <3>2
  <2> QED
    BY <2>1, <2>2
<1> HIDE DEF m
<1>14. IsAt(m)'
  <2>1. iter'.todo \in Seq(Links(list')) /\ Len(iter'.todo) = list'.count - m
    BY <1>2, <1>5, <1>8, <1>10, <1>12
  <2>2. \A j \in 1..(list'.count - m) : iter'.todo[j] = after[m + j]
    BY <1>2, <1>5, <1>8, <1>10, <1>11
  <2>3. iter'.saved = IF m = list'.count THEN NoLink ELSE after[m + 1]
    BY <1>2, <1>8, <1>13
  <2>4. iter'.at \notin Links(list')
    BY <1>2, <1>8 DEF i
  <2> QED
    BY <1>9, <2>1, <2>2, <2>3, <2>4 DEF IsAt
<1>15. m \in 0..list'.count
  BY <1>8, <1>10
<1> QED
  BY <1>2, <1>14, <1>15 DEF IterOK, back

LEMMA StepKeepsInv == IInv /\ [Next]_vars => IInv'
<1> SUFFICES ASSUME IInv, [Next]_vars PROVE IInv'
  OBVIOUS
<1>1. TypeOK'
  BY StepKeepsType DEF IInv
<1>2. ListedAs(list, Forward(list))' /\ IndicesBounded'
  <2>1. CASE list' = list
    BY <2>1 DEF IInv, IndicesBounded
  <2>2. CASE Mutate
    BY <2>2, MutateKeeps
  <2>3. CASE RemoveCurrent
    BY <2>3, MutateKeeps DEF RemoveCurrent
  <2> QED
    BY <2>1, <2>2, <2>3 DEF Next, BeginIteration, ContinueIteration, BreakIteration, vars
<1>3. IterOK'
  <2>1. CASE ~iter.on /\ Mutate
    <3>1. iter' = iter
      BY <2>1 DEF Mutate, InsertAfter, InsertBefore, Remove, MoveAfter, MoveBefore, Clear
    <3> QED
      BY <2>1, <3>1 DEF IInv, IterOK
  <2>2. ASSUME NEW back \in BOOLEAN, BeginIteration(back) PROVE IterOK'
    BY <2>2, BeginKeeps
  <2>3. CASE ContinueIteration
    BY <2>3, ContinueKeeps
  <2>4. CASE BreakIteration
    BY <2>4 DEF BreakIteration, IterOK, idle
  <2>5. CASE RemoveCurrent
    BY <2>5, RemoveCurrentKeeps
  <2>6. CASE UNCHANGED vars
    BY <2>6 DEF vars, IInv, IterOK, IsAt, Run
  <2> QED
    BY <2>1, <2>2, <2>3, <2>4, <2>5, <2>6 DEF Next
<1> QED
  BY <1>1, <1>2, <1>3 DEF IInv

LEMMA InitInv == Init => IInv
<1> SUFFICES ASSUME Init PROVE IInv
  OBVIOUS
<1>1. TypeOK /\ ListedAs(list, Forward(list))
  BY EmptyInv, EmptyListed DEF Init, TypeOK
<1>2. IndicesBounded
  BY DEF Init, IndicesBounded, Slots, empty
<1>3. IterOK
  BY DEF Init, IterOK, idle
<1> QED
  BY <1>1, <1>2, <1>3 DEF IInv

THEOREM LinksStayInOrder == Spec => []IInv
  BY InitInv, StepKeepsInv, PTL DEF Spec

\* An iteration, in either direction, visits every link that was in the list
\* when it began, in order, though the body removes links under it
\* (linkedlist.t:80-112).
THEOREM IterationsVisitAll == Spec => []IterationVisitsAll
<1>1. IInv => IterationVisitsAll
  <2> SUFFICES ASSUME IInv, iter.on
               PROVE  IF iter.todo = << >> THEN GoTo = NoLink ELSE GoTo = Head(iter.todo)
    BY DEF IterationVisitsAll
  <2>1. PICK k \in 0..list.count : IsAt(k)
    BY DEF IInv, IterOK
  <2>2. list.count \in Nat
    BY DEF IInv, TypeOK, ListInv, Typed
  <2>3. /\ iter.todo \in Seq(Links(list))
        /\ Len(iter.todo) = list.count - k
        /\ \A j \in 1..(list.count - k) : iter.todo[j] = Run(iter.back)[k + j]
        /\ iter.saved = IF k = list.count THEN NoLink ELSE Run(iter.back)[k + 1]
    BY <2>1 DEF IsAt
  <2>4. CASE k = list.count
    <3>1. iter.todo = << >>
      BY <2>2, <2>3, <2>4, EmptySeq
    <3> QED
      BY <2>3, <2>4, <3>1 DEF GoTo
  <2>5. CASE k # list.count
    <3>1. Len(iter.todo) # 0 /\ 1 \in 1..(list.count - k)
      BY <2>2, <2>3, <2>5
    <3>2. iter.todo # << >>
      BY <3>1
    <3>3. Head(iter.todo) = iter.todo[1]
      BY <2>3, <3>2
    <3> QED
      BY <2>3, <2>5, <3>1, <3>2, <3>3 DEF GoTo
  <2> QED
    BY <2>4, <2>5
<1> QED
  BY <1>1, LinksStayInOrder, PTL

LEMMA OrderStep == IInv /\ [Next]_vars => [Ordered!Next]_Order
<1> SUFFICES ASSUME IInv, [Next]_vars, Order' # Order PROVE Ordered!Next
  OBVIOUS
<1>0. OperationsPlace
  BY Places
<1>1. NewIndex(list) \in 0..(MaxLinks - 1) \/ ~(list.count < MaxLinks)
  <2>1. ListInv(list) /\ list.count \in Nat
    BY DEF IInv, TypeOK, ListInv, Typed
  <2> QED
    BY <2>1, MaxLinksAssumption, NewIndexIs DEF IInv, IndicesBounded
<1>2. Slots(list) \subseteq 0..(MaxLinks - 1) /\ list' # list
  BY DEF IInv, IndicesBounded, Order
<1>3. ASSUME NEW p \in Slots(list) \cup {NoLink}, InsertAfter(p) PROVE Ordered!Next
  BY <1>0, <1>1, <1>2, <1>3 DEF OperationsPlace, InsertAfter, Ordered!Next
<1>4. ASSUME NEW p \in Slots(list) \cup {NoLink}, InsertBefore(p) PROVE Ordered!Next
  BY <1>0, <1>1, <1>2, <1>4 DEF OperationsPlace, InsertBefore, Ordered!Next
<1>5. ASSUME NEW i, Remove(i) PROVE Ordered!Next
  <2>1. i \in Slots(list) /\ NoLink \notin Slots(list)
    BY <1>5 DEF Remove, IsLink, IInv, TypeOK, ListInv, Typed, NoLink
  <2>2. i \in Slots(list) \ {NoLink}
    BY <2>1
  <2>3. Ordered!Remove(i)
    BY <1>0, <1>5, <2>2 DEF OperationsPlace
  <2> QED
    BY <1>2, <2>1, <2>3 DEF Ordered!Next
<1>6. ASSUME NEW p \in Slots(list), NEW i \in Slots(list), MoveAfter(p, i) PROVE Ordered!Next
  <2>1. i # p
    BY <1>2, <1>6 DEF MoveAfter, move_after
  <2>2. Ordered!MoveAfter(p, i)
    BY <1>0, <1>6, <2>1 DEF OperationsPlace
  <2> QED
    BY <1>2, <2>2 DEF Ordered!Next
<1>7. ASSUME NEW p \in Slots(list), NEW i \in Slots(list), MoveBefore(p, i) PROVE Ordered!Next
  <2>1. i # p
    BY <1>2, <1>7 DEF MoveBefore, move_before
  <2>2. Ordered!MoveBefore(p, i)
    BY <1>0, <1>7, <2>1 DEF OperationsPlace
  <2> QED
    BY <1>2, <2>2 DEF Ordered!Next
<1>8. CASE Clear
  BY <1>8, EmptyListed DEF Clear, Order, Ordered!Clear, Ordered!Next
<1> QED
  BY <1>2, <1>3, <1>4, <1>5, <1>6, <1>7, <1>8
     DEF Next, Mutate, BeginIteration, ContinueIteration, BreakIteration, RemoveCurrent, vars

\* The list is a sequence of stable handles, and each method does to it what its
\* name says (linkedlist.t:213-310): the link lands on the asked side of the
\* asked link, and no other link moves.
THEOREM Refinement == Spec => ImplementsOrderedList
<1>1. Init => Ordered!Init
  BY EmptyListed DEF Init, Order, Ordered!Init
<1>2. IInv /\ [Next]_vars => [OperationsPlace]_vars
  BY Places
<1> QED
  BY <1>1, <1>2, OrderStep, LinksStayInOrder, PTL DEF Spec, ImplementsOrderedList, Ordered!Spec
===============================================================================
