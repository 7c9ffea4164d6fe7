------------------------------ MODULE QueueProofs ------------------------------
(***************************************************************************)
(* Proofs about the two queues: ThreadQueue, for any number of threads,    *)
(* any values and any maxlen, and below it FileQueue, for any number of    *)
(* messages, kills and failures.                                           *)
(***************************************************************************)
EXTENDS ThreadQueue, FileQueue, SequenceTheorems, TLAPS

USE DEF broadcast, unlocked

\* A thread is past mutex:lock() only as the owner of the mutex
\* (thread.lua:215, 233).
HolderOwns ==
    \A t \in Threads : pc[t] \in {"test", "done"} => owner = t

\* Only a push or a removal ever waits (thread.lua:217, 235).
InCall ==
    \A t \in Threads :
        /\ pc[t] # "idle" => call[t] \in Calls
        /\ pc[t] \in {"wait", "expired"} => call[t].op \in {"push", "pop", "shift"}
        /\ pc[t] = "expired" => call[t].timed

IInv == TypeOK /\ HolderOwns /\ InCall /\ LengthBound /\ NoLostWakeup

\* state:remove(k) leaves a stack of the same kind of values, one shorter
\* (luastate.lua:297 as queue_remove() uses it at thread.lua:242).
LEMMA RemoveType ==
    ASSUME NEW S, NEW s \in Seq(S), Len(s) > 0, NEW k \in 1..Len(s)
    PROVE  LET r == [j \in 1..(Len(s) - 1) |-> s[IF j < k THEN j ELSE j + 1]]
           IN  r \in Seq(S) /\ Len(r) = Len(s) - 1
<1> DEFINE r == [j \in 1..(Len(s) - 1) |-> s[IF j < k THEN j ELSE j + 1]]
<1>1. Len(s) - 1 \in Nat
  BY LenProperties
<1>2. ASSUME NEW j \in 1..(Len(s) - 1)
      PROVE  s[IF j < k THEN j ELSE j + 1] \in S
  BY <1>1, ElementOfSeq
<1>3. r \in Seq(S)
  BY <1>1, <1>2, IsASeq
<1>4. Len(r) = Len(s) - 1
  BY <1>1, <1>3, LenProperties
<1>5. QED
  BY <1>3, <1>4

\* What state:get(k) gives is the value at k, or for a function one that is on
\* the stack or the empty one; on the top it is the value there
\* (luastate.lua:203-221).
LEMMA GetGives ==
    ASSUME stack \in Seq(Values), NEW k \in 1..Len(stack)
    PROVE  /\ get(k) \in Values \cup {EmptyFunction}
           /\ get(k) \in Deque!Copies(k)
<1> DEFINE n == Len(stack)
<1>1. n \in Nat /\ n \in 1..n /\ stack[k] \in Values /\ stack[n] \in Values
  BY LenProperties, ElementOfSeq
<1>2. dump = IF stack[n] \in Functions THEN stack[n] ELSE EmptyFunction
  BY DEF dump, queue_length
<1>3. CASE stack[k] \notin Functions
  BY <1>1, <1>3 DEF get, Deque!Copies
<1>4. CASE stack[k] \in Functions
  <2>1. get(k) = dump
    BY <1>4 DEF get
  <2>2. CASE k = n
    BY <1>1, <1>2, <1>4, <2>1, <2>2 DEF Deque!Copies
  <2>3. CASE k < n
    BY <1>1, <1>2, <1>4, <2>1, <2>3 DEF Deque!Copies
  <2>4. QED
    BY <1>1, <2>2, <2>3
<1>5. QED
  BY <1>3, <1>4

\* Every step preserves the types.
LEMMA TypeStep == IInv /\ [Next]_vars => TypeOK'
<1> SUFFICES ASSUME IInv, [Next]_vars
             PROVE  TypeOK'
  OBVIOUS
<1> USE DEF IInv, TypeOK, Steps
<1>1. Len(stack) \in Nat
  BY LenProperties
<1>2. CASE UNCHANGED vars
  BY <1>2 DEF vars
<1>3. ASSUME NEW t \in Threads, Invoke(t)
      PROVE  TypeOK'
  BY <1>3, CallsAssumption DEF Invoke
<1>4. ASSUME NEW t \in Threads, Lock(t) \/ Wait(t) \/ SpuriousWakeup(t) \/ Expire(t)
      PROVE  TypeOK'
  BY <1>4 DEF Lock, Wait, SpuriousWakeup, Expire
<1>5. ASSUME NEW t \in Threads, GiveUp(t)
      PROVE  TypeOK'
  BY <1>5 DEF GiveUp, TimedOut, Results
<1>6. ASSUME NEW t \in Threads, Push(t)
      PROVE  TypeOK'
  <2>1. [kind |-> "pushed", len |-> Len(stack) + 1] \in Results
    BY <1>1 DEF Results
  <2>2. Append(stack, call[t].val) \in Seq(Values)
    BY <1>6, AppendProperties DEF Push
  <2>3. QED
    BY <1>6, <2>1, <2>2 DEF Push, Finish, queue_length
<1>7. ASSUME NEW t \in Threads, PushRaises(t)
      PROVE  TypeOK'
  BY <1>7 DEF PushRaises, NoCall
<1>8. ASSUME NEW t \in Threads, Remove(t)
      PROVE  TypeOK'
  <2> DEFINE k == IF call[t].op = "pop" THEN Len(stack) ELSE 1
  <2>1. Len(stack) > 0 /\ k \in 1..Len(stack)
    BY <1>1, <1>8 DEF Remove, queue_isempty, queue_length
  <2>2. stack' \in Seq(Values)
    BY <1>8, <2>1, RemoveType DEF Remove, RemoveFromStack, queue_length
  <2>3. [kind |-> "removed", val |-> get(k), len |-> Len(stack) - 1] \in Results
    <3>1. get(k) \in Values \cup {EmptyFunction}
      BY <2>1, GetGives
    <3>2. QED
      BY <1>1, <2>1, <3>1 DEF Results
  <2>4. QED
    BY <1>8, <2>2, <2>3 DEF Remove, Finish, queue_length
<1>9. ASSUME NEW t \in Threads, Peek(t)
      PROVE  TypeOK'
  <2> DEFINE i == IF call[t].i <= 0 THEN queue_length + call[t].i + 1 ELSE call[t].i
             r == IF i < 1 \/ i > queue_length THEN [kind |-> "nothing"]
                  ELSE [kind |-> "peeked", val |-> get(i)]
  <2>1. call[t] \in PeekCalls
    BY <1>9 DEF Peek, InCall, Calls, PushCalls, RemoveCalls, TestCalls
  <2>2a. call[t].i \in Int
    BY <2>1, QueueAssumption DEF PeekCalls
  <2>2. i \in Int
    BY <1>1, <2>2a DEF queue_length
  <2>3. r \in Results
    <3>1. i \in 1..Len(stack) => get(i) \in Values \cup {EmptyFunction}
      BY GetGives
    <3> HIDE DEF i
    <3>2. QED
      BY <1>1, <2>2, <3>1 DEF Results, queue_length
  <2>4. Finish(t, {}, r) /\ UNCHANGED stack
    BY <1>9 DEF Peek
  <2> HIDE DEF r
  <2>5. QED
    BY <2>3, <2>4 DEF Finish
<1>10. ASSUME NEW t \in Threads, Test(t)
       PROVE  TypeOK'
  <2>1. ASSUME NEW r \in Results, Finish(t, {}, r)
        PROVE  TypeOK'
    BY <1>10, <2>1 DEF Test, Finish
  <2>2. [kind |-> "length", len |-> queue_length] \in Results
    BY <1>1 DEF Results, queue_length
  <2>3. /\ [kind |-> "test", is |-> queue_isfull] \in Results
        /\ [kind |-> "test", is |-> queue_isempty] \in Results
    BY DEF Results, queue_isfull, queue_isempty
  <2>4. QED
    BY <1>10, <2>1, <2>2, <2>3 DEF Test
<1>11. ASSUME NEW t \in Threads, Unlock(t)
       PROVE  TypeOK'
  BY <1>11 DEF Unlock, NoCall, NoResult, Results
<1>12. QED
  BY <1>2, <1>3, <1>4, <1>5, <1>6, <1>7, <1>8, <1>9, <1>10, <1>11 DEF Next, Step

\* The mutex stays with the thread that is past mutex:lock().
LEMMA HolderStep == IInv /\ [Next]_vars => HolderOwns'
<1> SUFFICES ASSUME IInv, [Next]_vars, NEW u \in Threads, pc'[u] \in {"test", "done"}
             PROVE  owner' = u
  BY DEF HolderOwns
<1> USE QueueAssumption DEF IInv, TypeOK, HolderOwns
<1>1. CASE UNCHANGED vars
  BY <1>1 DEF vars
<1>2. ASSUME NEW t \in Threads, Invoke(t) \/ SpuriousWakeup(t) \/ Expire(t)
      PROVE  owner' = u
  BY <1>2 DEF Invoke, SpuriousWakeup, Expire
<1>3. ASSUME NEW t \in Threads, Lock(t) \/ GiveUp(t)
      PROVE  owner' = u
  BY <1>3 DEF Lock, GiveUp
<1>4. ASSUME NEW t \in Threads, Wait(t) \/ PushRaises(t) \/ Unlock(t)
      PROVE  owner' = u
  BY <1>4 DEF Wait, PushRaises, Unlock
<1>5. ASSUME NEW t \in Threads, NEW W, NEW r, pc[t] = "test", Finish(t, W, r)
      PROVE  owner' = u
  BY <1>5 DEF Finish
<1>6. ASSUME NEW t \in Threads, Push(t) \/ Remove(t) \/ Peek(t) \/ Test(t)
      PROVE  owner' = u
  BY <1>5, <1>6 DEF Push, Remove, Peek, Test
<1>7. QED
  BY <1>1, <1>2, <1>3, <1>4, <1>6 DEF Next, Step

\* Calls keep their operation until they return.
LEMMA InCallStep == IInv /\ [Next]_vars => InCall'
<1> SUFFICES ASSUME IInv, [Next]_vars, NEW u \in Threads
             PROVE  /\ pc'[u] # "idle" => call'[u] \in Calls
                    /\ pc'[u] \in {"wait", "expired"} =>
                          call'[u].op \in {"push", "pop", "shift"}
                    /\ pc'[u] = "expired" => call'[u].timed
  BY DEF InCall
<1> USE DEF IInv, TypeOK, InCall
<1>1. CASE UNCHANGED vars
  BY <1>1 DEF vars
<1>2. ASSUME NEW t \in Threads, Invoke(t)
      PROVE  InCall'
  BY <1>2, CallsAssumption DEF Invoke
<1>3. ASSUME NEW t \in Threads,
             Lock(t) \/ SpuriousWakeup(t) \/ Expire(t) \/ GiveUp(t)
      PROVE  InCall'
  BY <1>3 DEF Lock, SpuriousWakeup, Expire, GiveUp
<1>4. ASSUME NEW t \in Threads, Wait(t)
      PROVE  InCall'
  BY <1>4 DEF Wait, MustWait
<1>5. ASSUME NEW t \in Threads, PushRaises(t) \/ Unlock(t)
      PROVE  InCall'
  BY <1>5 DEF PushRaises, Unlock
<1>6. ASSUME NEW t \in Threads, NEW W \in SUBSET Threads, NEW r, pc[t] = "test",
             \A w \in W : pc[w] = "wait", Finish(t, W, r)
      PROVE  InCall'
  BY <1>6 DEF Finish
<1>7. ASSUME NEW t \in Threads, Push(t) \/ Remove(t)
      PROVE  InCall'
  <2>1. /\ NotFullWaiters \in SUBSET Threads /\ \A w \in NotFullWaiters : pc[w] = "wait"
        /\ NotEmptyWaiters \in SUBSET Threads /\ \A w \in NotEmptyWaiters : pc[w] = "wait"
    BY DEF NotFullWaiters, NotEmptyWaiters
  <2>2. CASE Push(t)
    BY <1>6, <2>1, <2>2 DEF Push
  <2>3. CASE Remove(t)
    BY <1>6, <2>1, <2>3 DEF Remove
  <2>4. QED
    BY <1>7, <2>2, <2>3
<1>8. ASSUME NEW t \in Threads, Peek(t) \/ Test(t)
      PROVE  InCall'
  BY <1>6, <1>8 DEF Peek, Test
<1>9. QED
  BY <1>1, <1>2, <1>3, <1>4, <1>5, <1>7, <1>8 DEF Next, Step

\* What a push and a removal do to the length of the stack.
LEMMA Lengths ==
    ASSUME IInv, NEW t \in Threads
    PROVE  /\ Len(stack) \in Nat
           /\ Push(t) => Len(stack') = Len(stack) + 1
           /\ Remove(t) => Len(stack') = Len(stack) - 1 /\ Len(stack) > 0
<1> USE DEF IInv, TypeOK
<1>1. Len(stack) \in Nat
  BY LenProperties
<1>2. ASSUME Push(t)
      PROVE  Len(stack') = Len(stack) + 1
  BY <1>2, AppendProperties DEF Push
<1>3. ASSUME Remove(t)
      PROVE  Len(stack') = Len(stack) - 1 /\ Len(stack) > 0
  <2> DEFINE k == IF call[t].op = "pop" THEN Len(stack) ELSE 1
  <2>1. Len(stack) > 0 /\ k \in 1..Len(stack)
    BY <1>1, <1>3 DEF Remove, queue_isempty, queue_length
  <2>2. stack' = [j \in 1..(Len(stack) - 1) |-> stack[IF j < k THEN j ELSE j + 1]]
    BY <1>3 DEF Remove, RemoveFromStack, queue_length
  <2>3. QED
    BY <2>1, <2>2, RemoveType
<1>4. QED
  BY <1>1, <1>2, <1>3

\* A push is only made on a queue that is not full.
LEMMA BoundStep == IInv /\ [Next]_vars => LengthBound'
<1> SUFFICES ASSUME IInv, [Next]_vars, MaxLen > 0
             PROVE  Len(stack') <= MaxLen
  BY DEF LengthBound
<1> USE QueueAssumption DEF IInv, LengthBound
<1>1. ASSUME UNCHANGED stack
      PROVE  Len(stack') <= MaxLen
  BY <1>1
<1>2. ASSUME NEW t \in Threads, Push(t)
      PROVE  Len(stack') <= MaxLen
  BY <1>2, Lengths DEF Push, queue_isfull, queue_length
<1>3. ASSUME NEW t \in Threads, Remove(t)
      PROVE  Len(stack') <= MaxLen
  BY <1>3, Lengths
<1>4. QED
  BY <1>1, <1>2, <1>3 DEF Next, Step, vars, Invoke, Lock, Wait, GiveUp, PushRaises,
                          Peek, Test, Unlock, SpuriousWakeup, Expire

\* A push on an empty queue wakes every thread that waits for it not to be
\* empty, and no thread waits for that on a queue that is not; the same for a
\* removal and a full queue.
LEMMA WakeupStep == IInv /\ [Next]_vars => NoLostWakeup'
<1> SUFFICES ASSUME IInv, [Next]_vars, NEW u \in Threads, pc'[u] = "wait"
             PROVE  MustWait(call[u])'
  BY DEF NoLostWakeup
<1> USE QueueAssumption DEF IInv, TypeOK, NoLostWakeup
<1>1. ASSUME NEW t \in Threads, Wait(t)
      PROVE  MustWait(call[u])'
  BY <1>1 DEF Wait, MustWait, queue_isfull, queue_isempty, queue_length
<1>2. ASSUME pc[u] = "wait", call'[u] = call[u], stack' = stack
      PROVE  MustWait(call[u])'
  BY <1>2 DEF MustWait, queue_isfull, queue_isempty, queue_length
<1>3. ASSUME UNCHANGED vars
      PROVE  MustWait(call[u])'
  BY <1>2, <1>3 DEF vars
<1>4. ASSUME NEW t \in Threads,
             Invoke(t) \/ Lock(t) \/ GiveUp(t) \/ PushRaises(t) \/ Unlock(t)
               \/ SpuriousWakeup(t) \/ Expire(t)
      PROVE  MustWait(call[u])'
  BY <1>2, <1>4 DEF Invoke, Lock, GiveUp, PushRaises, Unlock, SpuriousWakeup, Expire
<1>5. ASSUME NEW t \in Threads, Peek(t) \/ Test(t)
      PROVE  MustWait(call[u])'
  BY <1>2, <1>5 DEF Peek, Test, Finish
<1>6. ASSUME NEW t \in Threads, Push(t)
      PROVE  MustWait(call[u])'
  <2>1. /\ pc[u] = "wait"
        /\ call'[u] = call[u]
        /\ queue_isempty => u \notin NotEmptyWaiters
    BY <1>6 DEF Push, Finish
  <2>2. call[u].op \in {"pop", "shift"} /\ queue_isempty
    BY <1>6, <2>1 DEF Push, MustWait
  <2>3. QED
    BY <2>1, <2>2 DEF NotEmptyWaiters
<1>7. ASSUME NEW t \in Threads, Remove(t)
      PROVE  MustWait(call[u])'
  <2>1. /\ pc[u] = "wait"
        /\ call'[u] = call[u]
        /\ queue_isfull => u \notin NotFullWaiters
    BY <1>7 DEF Remove, Finish
  <2>2. call[u].op = "push" /\ queue_isfull
    BY <1>7, <2>1 DEF Remove, MustWait
  <2>3. QED
    BY <2>1, <2>2 DEF NotFullWaiters
<1>8. QED
  BY <1>1, <1>3, <1>4, <1>5, <1>6, <1>7 DEF Next, Step

\* The queue never exceeds maxlen, no wakeup is lost and the mutex excludes: the
\* invariant holds in every reachable state (thread.lua:193-274).
THEOREM Invariance == Spec => []IInv
<1>1. Init => IInv
  BY QueueAssumption, EmptySeq
     DEF Init, IInv, TypeOK, Steps, Results, NoResult, HolderOwns, InCall, LengthBound,
         NoLostWakeup
<1>2. IInv /\ [Next]_vars => IInv'
  BY TypeStep, HolderStep, InCallStep, BoundStep, WakeupStep DEF IInv
<1>3. QED
  BY <1>1, <1>2, PTL DEF Spec

\* The variables keep their types (thread.lua:157-168).
THEOREM TypeCorrect == Spec => []TypeOK
<1>1. IInv => TypeOK
  BY DEF IInv
<1>2. QED
  BY <1>1, Invariance, PTL

\* The queue never holds more than maxlen values (thread.lua:216).
THEOREM Bounded == Spec => []LengthBound
<1>1. IInv => LengthBound
  BY DEF IInv
<1>2. QED
  BY <1>1, Invariance, PTL

\* Two threads are never past mutex:lock() at once (thread.lua:215, 233).
THEOREM Exclusion == Spec => []MutualExclusion
<1>1. IInv => MutualExclusion
  BY DEF IInv, HolderOwns, MutualExclusion
<1>2. QED
  BY <1>1, Invariance, PTL

\* Broadcasting on the two transitions only loses no wakeup
\* (thread.lua:225, 244).
THEOREM WakeupsReach == Spec => []NoLostWakeup
<1>1. IInv => NoLostWakeup
  BY DEF IInv
<1>2. QED
  BY <1>1, Invariance, PTL

\* A queue with a maxlen of at least 1 is never full and empty, so producers and
\* consumers never block each other (thread.lua:158, 216, 234).
THEOREM NeverBothBlocked == Spec => []NoMutualBlocking
<1>1. IInv => NoMutualBlocking
  <2> SUFFICES ASSUME IInv, NEW t \in NotFullWaiters, NEW u \in NotEmptyWaiters
               PROVE  FALSE
    BY DEF NoMutualBlocking
  <2>1. queue_isfull /\ queue_isempty
    BY DEF IInv, NoLostWakeup, MustWait, NotFullWaiters, NotEmptyWaiters
  <2>2. QED
    BY <2>1, QueueAssumption DEF queue_isfull, queue_isempty
<1>2. QED
  BY <1>1, Invariance, PTL

\* After a push that raised, nobody gets the mutex or touches the values again
\* (thread.lua:223).
THEOREM RaisePoisons == Spec => RaiseIsForGood
<1> DEFINE Kept == \A t \in Threads : owner = t /\ pc[t] \in {"idle", "lock"} =>
                       owner' = owner /\ stack' = stack /\ pc'[t] \in {"idle", "lock"}
<1>1. IInv /\ [Next]_vars => [Kept]_vars
  <2> SUFFICES ASSUME IInv, Next, NEW t \in Threads, owner = t, pc[t] \in {"idle", "lock"}
               PROVE  owner' = owner /\ stack' = stack /\ pc'[t] \in {"idle", "lock"}
    OBVIOUS
  <2>1. \A u \in Threads : pc[u] \notin {"test", "done"}
    BY DEF IInv, HolderOwns
  <2>2. owner # NoThread
    BY QueueAssumption
  <2>3. \A u \in Threads : ~Push(u) /\ ~Remove(u) /\ ~Peek(u) /\ ~Test(u)
    BY <2>1 DEF Push, Remove, Peek, Test
  <2>4. QED
    BY <2>1, <2>2, <2>3 DEF IInv, TypeOK, Next, Step, Invoke, Lock, Wait, GiveUp,
                            PushRaises, Unlock, SpuriousWakeup, Expire
<1>2. QED
  BY <1>1, Invariance, PTL DEF Spec, RaiseIsForGood, Abandoned

\* Moving down the values above the removed one is cutting it out.
LEMMA RemoveIsWithout ==
    ASSUME NEW S, NEW s \in Seq(S), NEW k \in 1..Len(s)
    PROVE  [j \in 1..(Len(s) - 1) |-> s[IF j < k THEN j ELSE j + 1]]
             = SubSeq(s, 1, k - 1) \o SubSeq(s, k + 1, Len(s))
<1> DEFINE a == SubSeq(s, 1, k - 1)
           b == SubSeq(s, k + 1, Len(s))
           r == [j \in 1..(Len(s) - 1) |-> s[IF j < k THEN j ELSE j + 1]]
<1>1. Len(s) \in Nat /\ k \in Nat /\ 1 <= k /\ k <= Len(s)
  BY LenProperties
<1>2. /\ a \in Seq(S)
      /\ Len(a) = k - 1
      /\ \A j \in 1..(k - 1) : a[j] = s[j]
  BY <1>1, SubSeqProperties
<1>3. /\ b \in Seq(S)
      /\ Len(b) = Len(s) - k
      /\ \A j \in 1..(Len(s) - k) : b[j] = s[k + j]
  BY <1>1, SubSeqProperties
<1>4. /\ a \o b \in Seq(S)
      /\ Len(a \o b) = Len(a) + Len(b)
      /\ \A j \in 1..(Len(a) + Len(b)) :
           (a \o b)[j] = IF j <= Len(a) THEN a[j] ELSE b[j - Len(a)]
  <2> HIDE DEF a, b
  <2>1. QED
    BY <1>2, <1>3, ConcatProperties
<1>5. r \in Seq(S) /\ Len(r) = Len(s) - 1
  BY <1>1, RemoveType
<1>6. ASSUME NEW j \in 1..(Len(s) - 1)
      PROVE  r[j] = (a \o b)[j]
  <2>1. CASE j < k
    <3>1. r[j] = s[j]
      BY <2>1
    <3> HIDE DEF a, b, r
    <3>2. j \in 1..(k - 1) /\ j \in 1..(Len(a) + Len(b)) /\ j <= Len(a)
      BY <1>1, <1>2, <1>3, <2>1
    <3>3. (a \o b)[j] = a[j]
      BY <1>4, <3>2
    <3>4. QED
      BY <1>2, <3>1, <3>2, <3>3
  <2>2. CASE j >= k
    <3>1. r[j] = s[j + 1]
      BY <1>1, <2>2
    <3> HIDE DEF a, b, r
    <3>2. /\ j - Len(a) \in 1..(Len(s) - k)
          /\ k + (j - Len(a)) = j + 1
          /\ j \in 1..(Len(a) + Len(b))
          /\ ~(j <= Len(a))
      BY <1>1, <1>2, <1>3, <2>2
    <3>3. (a \o b)[j] = b[j - Len(a)]
      BY <1>4, <3>2
    <3>4. b[j - Len(a)] = s[k + (j - Len(a))]
      BY <1>3, <3>2
    <3>5. QED
      BY <3>1, <3>2, <3>3, <3>4
  <2>3. j < k \/ j >= k
    BY <1>1
  <2>4. QED
    BY ONLY <2>1, <2>2, <2>3
<1>7. r = a \o b
  <2> HIDE DEF a, b, r
  <2>1. Len(r) = Len(a \o b)
    BY <1>1, <1>2, <1>3, <1>4, <1>5
  <2>2. QED
    BY <1>4, <1>5, <1>6, <2>1, SeqEqual
<1>8. QED
  BY <1>7

\* Every step of the queue is a step of the deque, or none: a call takes effect
\* when its thread changes the stack or reads it under the mutex.
LEMMA DequeStep == IInv /\ [Next]_vars => [Deque!Next]_(Deque!vars)
<1> SUFFICES ASSUME IInv, [Next]_vars
             PROVE  Deque!Next \/ UNCHANGED Deque!vars
  OBVIOUS
<1> USE DEF IInv, TypeOK
<1>1. CASE UNCHANGED vars
  BY <1>1 DEF vars, Deque!vars, Phases
<1>2. ASSUME NEW t \in Threads, Invoke(t)
      PROVE  Deque!Invoke(t)
  <2>1. Phases' = [Phases EXCEPT ![t] = "called"] /\ Phases[t] = "idle"
    BY <1>2 DEF Invoke, Phases, Phase
  <2>2. PICK c \in Calls : call' = [call EXCEPT ![t] = c]
    BY <1>2, CallsAssumption DEF Invoke
  <2>3. c \in Deque!Calls
    BY <2>2 DEF Calls, PushCalls, RemoveCalls, PeekCalls, TestCalls, Deque!Calls,
                Deque!PushCalls, Deque!RemoveCalls, Deque!PeekCalls, Deque!TestCalls
  <2>4. QED
    BY <1>2, <2>1, <2>2, <2>3 DEF Invoke, Deque!Invoke
<1>3. ASSUME NEW t \in Threads, Lock(t) \/ Wait(t) \/ SpuriousWakeup(t) \/ Expire(t)
      PROVE  UNCHANGED Deque!vars
  <2>1. Phases' = Phases
    BY <1>3 DEF Lock, Wait, SpuriousWakeup, Expire, Phases, Phase
  <2>2. QED
    BY <1>3, <2>1 DEF Lock, Wait, SpuriousWakeup, Expire, Deque!vars
<1>4. ASSUME NEW t \in Threads, GiveUp(t)
      PROVE  Deque!Expire(t)
  <2>1. Phases' = [Phases EXCEPT ![t] = "done"] /\ Phases[t] = "called"
    BY <1>4 DEF GiveUp, Phases, Phase
  <2>2. Deque!Timed(call[t])
    BY <1>4 DEF GiveUp, InCall, Deque!Timed
  <2>3. QED
    BY <1>4, <2>1, <2>2 DEF GiveUp, TimedOut, Deque!TimedOut, Deque!Expire, Deque!Finish
<1>5. ASSUME NEW t \in Threads, PushRaises(t)
      PROVE  Deque!Raise(t)
  <2>1. Phases' = [Phases EXCEPT ![t] = "idle"] /\ Phases[t] = "called"
    BY <1>5 DEF PushRaises, Phases, Phase
  <2>2. QED
    BY <1>5, <2>1 DEF PushRaises, NoCall, Deque!NoCall, Deque!Raise
<1>6. ASSUME NEW t \in Threads, Unlock(t)
      PROVE  Deque!Return(t)
  <2>1. Phases' = [Phases EXCEPT ![t] = "idle"] /\ Phases[t] = "done"
    BY <1>6 DEF Unlock, Phases, Phase
  <2>2. QED
    BY <1>6, <2>1 DEF Unlock, NoCall, NoResult, Deque!NoCall, Deque!NoResult, Deque!Return
<1>7. ASSUME NEW t \in Threads, NEW W \in SUBSET Threads, NEW r, pc[t] = "test",
             \A w \in W : pc[w] = "wait", Finish(t, W, r)
      PROVE  Deque!Finish(t, r)
  <2>1. Phases' = [Phases EXCEPT ![t] = "done"] /\ Phases[t] = "called"
    BY <1>7 DEF Finish, Phases, Phase
  <2>2. QED
    BY <1>7, <2>1 DEF Finish, Deque!Finish
<1>8. /\ NotFullWaiters \in SUBSET Threads /\ \A w \in NotFullWaiters : pc[w] = "wait"
      /\ NotEmptyWaiters \in SUBSET Threads /\ \A w \in NotEmptyWaiters : pc[w] = "wait"
  BY DEF NotFullWaiters, NotEmptyWaiters
<1>9. Len(stack) \in Nat /\ (queue_isfull <=> Deque!IsFull) /\ (queue_isempty <=> Deque!IsEmpty)
  BY LenProperties, EmptySeq
     DEF queue_isfull, queue_isempty, queue_length, Deque!IsFull, Deque!IsEmpty
<1>10. ASSUME NEW t \in Threads, Push(t)
       PROVE  Deque!Push(t)
  <2> DEFINE r == [kind |-> "pushed", len |-> Len(stack) + 1]
             W == IF queue_isempty THEN NotEmptyWaiters ELSE {}
  <2>1. pc[t] = "test" /\ Finish(t, W, r)
    BY <1>10 DEF Push, queue_length
  <2>2. W \in SUBSET Threads /\ \A w \in W : pc[w] = "wait"
    BY <1>8
  <2>3. Deque!Finish(t, r)
    BY <1>7, <2>1, <2>2
  <2>4. QED
    BY <1>9, <1>10, <2>3, Lengths DEF Push, Deque!Push
<1>11. ASSUME NEW t \in Threads, Remove(t)
       PROVE  Deque!Remove(t)
  <2> DEFINE k == IF call[t].op = "pop" THEN Len(stack) ELSE 1
             r == [kind |-> "removed", val |-> get(k), len |-> Len(stack) - 1]
             W == IF queue_isfull THEN NotFullWaiters ELSE {}
  <2>1. k \in 1..Len(stack) /\ Len(stack') = Len(stack) - 1
    BY <1>11, Lengths DEF Remove
  <2>2. pc[t] = "test" /\ Finish(t, W, r)
    BY <1>11 DEF Remove, queue_length
  <2>3. W \in SUBSET Threads /\ \A w \in W : pc[w] = "wait"
    BY <1>8
  <2>4. Deque!Finish(t, r)
    BY <1>7, <2>2, <2>3
  <2>5. stack' = Deque!Without(k)
    BY <1>11, <2>1, RemoveIsWithout DEF Remove, RemoveFromStack, queue_length, Deque!Without
  <2>6. \/ call[t].op = "pop" /\ k = Len(stack)
        \/ call[t].op = "shift" /\ k = 1
    BY <1>11 DEF Remove
  <2>7. ~Deque!IsEmpty
    BY <1>9, <1>11 DEF Remove
  <2>8. get(k) \in Deque!Copies(k)
    BY <2>1, GetGives
  <2> HIDE DEF k
  <2>9. QED
    BY <2>1, <2>4, <2>5, <2>6, <2>7, <2>8 DEF Deque!Remove
<1>12. ASSUME NEW t \in Threads, Peek(t)
       PROVE  Deque!Peek(t)
  <2> DEFINE i == call[t].i
             n == Len(stack)
  <2>1. call[t] \in PeekCalls
    BY <1>12 DEF Peek, InCall, Calls, PushCalls, RemoveCalls, TestCalls
  <2>2. i \in Int
    BY <2>1, QueueAssumption DEF PeekCalls
  <2>3. ASSUME NEW r, Finish(t, {}, r)
        PROVE  Deque!Finish(t, r)
    BY <1>7, <1>12, <2>3 DEF Peek
  <2>4. CASE i \in 1..n
    <3>1. Finish(t, {}, [kind |-> "peeked", val |-> get(i)])
      BY <1>9, <1>12, <2>2, <2>4 DEF Peek, queue_length
    <3>2. get(i) \in Deque!Copies(i)
      BY <2>4, GetGives
    <3>3. QED
      BY <1>12, <2>3, <2>4, <3>1, <3>2 DEF Peek, Deque!Peek
  <2>5. CASE -i \in 1..n
    <3>1. Finish(t, {}, [kind |-> "peeked", val |-> get(n + i + 1)])
      BY <1>9, <1>12, <2>2, <2>5 DEF Peek, queue_length
    <3>2. n + i + 1 \in 1..n
      BY <1>9, <2>2, <2>5
    <3>3. get(n + i + 1) \in Deque!Copies(n + i + 1)
      BY <3>2, GetGives
    <3>4. QED
      BY <1>12, <2>3, <2>5, <3>1, <3>3 DEF Peek, Deque!Peek
  <2>6. CASE i \notin 1..n /\ -i \notin 1..n
    <3>1. Finish(t, {}, [kind |-> "nothing"])
      BY <1>9, <1>12, <2>2, <2>6 DEF Peek, queue_length
    <3>2. QED
      BY <1>12, <2>3, <2>6, <3>1 DEF Peek, Deque!Peek
  <2>7. QED
    BY <2>4, <2>5, <2>6
<1>13. ASSUME NEW t \in Threads, Test(t)
       PROVE  Deque!Test(t)
  <2>1. ASSUME NEW r, Finish(t, {}, r)
        PROVE  Deque!Finish(t, r)
    BY <1>7, <1>13, <2>1 DEF Test
  <2>2. queue_isfull \in BOOLEAN /\ Deque!IsFull \in BOOLEAN
    BY DEF queue_isfull, Deque!IsFull
  <2>3. queue_isempty \in BOOLEAN /\ Deque!IsEmpty \in BOOLEAN
    BY DEF queue_isempty, Deque!IsEmpty
  <2>4. CASE call[t].op = "length"
    BY <1>13, <2>1, <2>4 DEF Test, Deque!Test, queue_length
  <2>5. CASE call[t].op = "isfull"
    BY <1>9, <1>13, <2>1, <2>2, <2>5 DEF Test, Deque!Test
  <2>6. CASE call[t].op = "isempty"
    BY <1>9, <1>13, <2>1, <2>3, <2>6 DEF Test, Deque!Test
  <2>7. QED
    BY <1>13, <2>4, <2>5, <2>6 DEF Test
<1>14. QED
  BY <1>1, <1>2, <1>3, <1>4, <1>5, <1>6, <1>10, <1>11, <1>12, <1>13
     DEF Next, Step, Deque!Next

\* The queue implements the deque: every call takes effect at one instant, once,
\* or times out without any effect, and takes or reads the value at its end of the
\* queue, be it that a function comes out as another (thread.lua:193-274).
THEOREM Refinement == Spec => ImplementsDeque
<1>1. Init => Deque!Init
  BY DEF Init, Deque!Init, Phases, Phase, NoCall, NoResult, Deque!NoCall, Deque!NoResult
<1>2. QED
  BY <1>1, DequeStep, Invariance, PTL DEF Spec, ImplementsDeque, Deque!Spec
--------------------------------------------------------------------------------
(***************************************************************************)
(* The file queue.  Two invariants do it.  OrderInv holds whatever goes    *)
(* wrong: it places the counters in memory relative to those on disk, and  *)
(* the messages on disk after those that were handled.  SkipInv holds as   *)
(* long as only the polling process is killed: a message's number is then  *)
(* its file's, and what a puller has gone past was handled.                *)
(***************************************************************************)
USE DEF Nothing, NoFile

Counter == Nat \cup {Nothing}
Disk == [first : Counter, last : Counter, msg : [Number -> {NoFile} \cup Message]]
Process(steps) ==
    [at : steps, first : Counter, last : Counter, n : [first : Counter, last : Counter]]
Pusher == Process({"idle", "last", "lastOpen", "first", "firstOpen"})
Puller == Process({"idle", "holding", "firstOpen", "remove", "failed"})

FileTypeOK ==
    /\ disk \in Disk
    /\ pusher \in {Down} \cup Pusher
    /\ puller \in {Down} \cup Puller
    /\ pushed \in 0..MaxPushes
    /\ accepted \subseteq 1..pushed
    /\ handled \in Seq(Nat)
    /\ \A j \in 1..Len(handled) : handled[j] \in 1..pushed
    /\ trouble \in [{"pusher", "puller", "failure"} -> Nat]
    /\ \A i \in Number : disk.msg[i] <= pushed

PusherUp == pusher.at # "down"
PullerUp == puller.at # "down"

\* The counter last: the pusher has on disk what it has in memory, but while it
\* writes the file, which is then empty.
LastOK ==
    /\ PusherUp =>
        /\ pusher.at = "lastOpen" => disk.last = Nothing
        /\ pusher.at # "lastOpen" => disk.last = pusher.last
        /\ pusher.at # "idle" => pusher.last # Nothing /\ pushed > 0
        /\ pusher.last # Nothing =>
            /\ pusher.n.last \in Nat /\ pusher.last <= pusher.n.last /\ pusher.n.last <= pushed
            /\ pusher.at = "last" => pusher.n.last < pushed
            /\ pusher.at = "lastOpen" => pusher.last < pusher.n.last
            /\ \A i \in Number : disk.msg[i] # NoFile => i <= pusher.last + 1
    /\ disk.last # Nothing =>
        /\ disk.last <= pushed
        /\ \A i \in Number : disk.msg[i] # NoFile => i <= disk.last + 1

\* The counter first: the pusher writes it the first time only, before any
\* puller gets to a message.
Unset == PusherUp /\ pusher.first = 0
FirstOK ==
    /\ Unset =>
        /\ disk.first \in {0, Nothing} /\ handled = << >>
        /\ PullerUp => puller.first \in {0, Nothing}
        /\ pusher.n.first \in Nat
        /\ pusher.at = "firstOpen" => pusher.n.first > 0
    /\ PusherUp /\ pusher.at \in {"first", "firstOpen"} => pusher.first = 0
    /\ disk.first = 0 => handled = << >>
    /\ PullerUp =>
        /\ puller.first \in {0, Nothing} => puller.at = "idle"
        /\ puller.first \notin {0, Nothing} =>
            /\ puller.at = "firstOpen" => disk.first = Nothing
            /\ puller.at # "firstOpen" => disk.first = puller.first
            /\ puller.n.first \in Nat /\ puller.first <= puller.n.first
            /\ puller.at = "firstOpen" => puller.first < puller.n.first

\* Messages are in order on disk.
FilesInOrder ==
    \A i, j \in Number :
        i < j /\ disk.msg[i] # NoFile /\ disk.msg[j] # NoFile => disk.msg[i] < disk.msg[j]

\* no file from i on is of a message before the last handled
Ahead(i) ==
    handled # << >> =>
        \A j \in Number : j >= i /\ disk.msg[j] # NoFile => handled[Len(handled)] <= disk.msg[j]
AheadOK ==
    /\ disk.first \notin {0, Nothing} => Ahead(disk.first)
    /\ PullerUp /\ puller.first \notin {0, Nothing} => Ahead(puller.first)

OrderInv == FileTypeOK /\ LastOK /\ FirstOK /\ FilesInOrder /\ AheadOK /\ HandledInOrder

\* As long as the pusher goes well, the number of a message's file is its own.
NumbersOK ==
    /\ ~PusherUp => pushed = 0 /\ disk.first = 0 /\ disk.last = 0
    /\ PusherUp =>
        /\ pusher.last \in Nat
        /\ pusher.at \in {"last", "lastOpen"} => pushed = pusher.last + 1
        /\ pusher.at \notin {"last", "lastOpen"} => pushed = pusher.last
        /\ pusher.at = "lastOpen" => pusher.n.last = pusher.last + 1
        /\ pusher.at # "lastOpen" => pusher.n.last = pusher.last
        /\ pusher.first = 0 =>
            /\ pusher.at = "firstOpen" => pusher.n.first = 1
            /\ pusher.at # "firstOpen" => pusher.n.first = 0
    /\ \A i \in Number : disk.msg[i] \in {NoFile, i}

\* and what comes before a puller has been handled
Passed(i) == 1..(i - 1) \subseteq Handled
PassedOK ==
    /\ disk.first \notin {0, Nothing} => Passed(disk.first)
    /\ PullerUp /\ puller.first \notin {0, Nothing} =>
        /\ Passed(puller.first)
        /\ puller.at \in {"holding", "firstOpen"} => puller.first \in Handled
        /\ puller.at = "firstOpen" => puller.n.first = puller.first + 1
        /\ puller.at # "firstOpen" => puller.n.first = puller.first
UnhandledKept == \A m \in 1..pushed : m \in Handled \/ disk.msg[m] = m

SkipInv == PusherWentWell => NumbersOK /\ PassedOK /\ UnhandledKept

FileIInv == OrderInv /\ SkipInv

\* A process that is down is not up, whatever a record may be.
LEMMA DownIsDown == Down.at = "down"
  BY DEF Down

\* What the types say of the numbers, without the records around them.
LEMMA Fields ==
  ASSUME FileTypeOK
  PROVE  /\ pushed \in Nat /\ MaxPushes \in Nat /\ MaxFailures \in Nat
         /\ disk.first \in Int /\ disk.first >= -1 /\ disk.last \in Int /\ disk.last >= -1
         /\ \A i \in Number : i \in Int /\ i >= 1 /\ disk.msg[i] \in Int /\ disk.msg[i] >= 0
         /\ PusherUp =>
              /\ pusher.first \in Int /\ pusher.first >= -1
              /\ pusher.last \in Int /\ pusher.last >= -1
              /\ pusher.n.first \in Int /\ pusher.n.first >= -1
              /\ pusher.n.last \in Int /\ pusher.n.last >= -1
         /\ PullerUp =>
              /\ puller.first \in Int /\ puller.first >= -1
              /\ puller.n.first \in Int /\ puller.n.first >= -1
<1>1. pushed \in Nat /\ MaxPushes \in Nat /\ MaxFailures \in Nat
  BY FileQueueAssumption DEF FileTypeOK
<1>2. /\ disk.first \in Int /\ disk.first >= -1 /\ disk.last \in Int /\ disk.last >= -1
      /\ \A i \in Number : i \in Int /\ i >= 1 /\ disk.msg[i] \in Int /\ disk.msg[i] >= 0
  BY <1>1 DEF FileTypeOK, Disk, Counter, Nothing, NoFile, Message, Number
<1>3. ASSUME PusherUp
      PROVE  /\ pusher.first \in Int /\ pusher.first >= -1
             /\ pusher.last \in Int /\ pusher.last >= -1
             /\ pusher.n.first \in Int /\ pusher.n.first >= -1
             /\ pusher.n.last \in Int /\ pusher.n.last >= -1
  <2>1. pusher \in Pusher
    BY <1>3, DownIsDown DEF FileTypeOK, PusherUp
  <2>2. /\ {pusher.first, pusher.last} \subseteq Counter
        /\ pusher.n \in [first : Counter, last : Counter]
    BY <2>1 DEF Pusher, Process
  <2>3. {pusher.n.first, pusher.n.last} \subseteq Counter
    BY <2>2
  <2>4. QED
    BY <2>2, <2>3 DEF Counter, Nothing
<1>4. ASSUME PullerUp
      PROVE  /\ puller.first \in Int /\ puller.first >= -1
             /\ puller.n.first \in Int /\ puller.n.first >= -1
  <2>1. puller \in Puller
    BY <1>4, DownIsDown DEF FileTypeOK, PullerUp
  <2>2. puller.first \in Counter /\ puller.n \in [first : Counter, last : Counter]
    BY <2>1 DEF Puller, Process
  <2>3. puller.n.first \in Counter
    BY <2>2
  <2>4. QED
    BY <2>2, <2>3 DEF Counter, Nothing
<1>5. QED
  BY <1>1, <1>2, <1>3, <1>4

\* What writing a counter and counting do to the records.
LEMMA DiskUpdates ==
  ASSUME disk \in Disk, NEW p \in Pusher \cup Puller
  PROVE  /\ Truncated("first") = [first |-> Nothing, last |-> disk.last, msg |-> disk.msg]
         /\ Truncated("last") = [first |-> disk.first, last |-> Nothing, msg |-> disk.msg]
         /\ Written("first", p) = [first |-> p.n.first, last |-> disk.last, msg |-> disk.msg]
         /\ Written("last", p) = [first |-> disk.first, last |-> p.n.last, msg |-> disk.msg]
<1>1. disk = [first |-> disk.first, last |-> disk.last, msg |-> disk.msg]
  BY DEF Disk
<1>2. /\ Truncated("first") = [disk EXCEPT !.first = Nothing]
      /\ Truncated("last") = [disk EXCEPT !.last = Nothing]
      /\ Written("first", p) = [disk EXCEPT !.first = p.n.first]
      /\ Written("last", p) = [disk EXCEPT !.last = p.n.last]
  BY DEF Truncated, Written
<1>3. QED
  BY <1>1, <1>2

LEMMA ProcessUpdates ==
  ASSUME NEW p \in Pusher \cup Puller, NEW at
  PROVE  /\ Incremented(p, "first", at) =
              [at |-> at, first |-> p.first, last |-> p.last,
               n |-> [first |-> p.n.first + 1, last |-> p.n.last]]
         /\ Incremented(p, "last", at) =
              [at |-> at, first |-> p.first, last |-> p.last,
               n |-> [first |-> p.n.first, last |-> p.n.last + 1]]
         /\ Counted(p, "first", at) =
              [at |-> at, first |-> p.n.first, last |-> p.last, n |-> p.n]
         /\ Counted(p, "last", at) =
              [at |-> at, first |-> p.first, last |-> p.n.last, n |-> p.n]
<1>1. /\ p = [at |-> p.at, first |-> p.first, last |-> p.last, n |-> p.n]
      /\ p.n = [first |-> p.n.first, last |-> p.n.last]
  BY DEF Pusher, Puller, Process
<1>2. ASSUME NEW c \in {"first", "last"}, NEW m
      PROVE  [p EXCEPT !.n = m, !.at = at]
              = [at |-> at, first |-> p.first, last |-> p.last, n |-> m]
  <2> DEFINE q == [p EXCEPT !.n = m]
  <2>1. q = [at |-> p.at, first |-> p.first, last |-> p.last, n |-> m]
    BY <1>1
  <2> HIDE DEF q
  <2>2. [q EXCEPT !.at = at] = [at |-> at, first |-> p.first, last |-> p.last, n |-> m]
    BY <2>1
  <2>3. QED
    BY <2>2 DEF q
<1>3. /\ Incremented(p, "first", at) = [p EXCEPT !.n = [p.n EXCEPT !.first = @ + 1], !.at = at]
      /\ Incremented(p, "last", at) = [p EXCEPT !.n = [p.n EXCEPT !.last = @ + 1], !.at = at]
      /\ Counted(p, "first", at) = [p EXCEPT !.first = p.n.first, !.at = at]
      /\ Counted(p, "last", at) = [p EXCEPT !.last = p.n.last, !.at = at]
  BY DEF Incremented, Counted
<1>4. /\ [p.n EXCEPT !.first = @ + 1] = [first |-> p.n.first + 1, last |-> p.n.last]
      /\ [p.n EXCEPT !.last = @ + 1] = [first |-> p.n.first, last |-> p.n.last + 1]
  BY <1>1
<1>5. Counted(p, "first", at) = [at |-> at, first |-> p.n.first, last |-> p.last, n |-> p.n]
  <2> DEFINE q == [p EXCEPT !.first = p.n.first]
  <2>1. q = [at |-> p.at, first |-> p.n.first, last |-> p.last, n |-> p.n]
    BY <1>1
  <2> HIDE DEF q
  <2>2. [q EXCEPT !.at = at] = [at |-> at, first |-> p.n.first, last |-> p.last, n |-> p.n]
    BY <2>1
  <2>3. QED
    BY <1>3, <2>2 DEF q
<1>6. Counted(p, "last", at) = [at |-> at, first |-> p.first, last |-> p.n.last, n |-> p.n]
  <2> DEFINE q == [p EXCEPT !.last = p.n.last]
  <2>1. q = [at |-> p.at, first |-> p.first, last |-> p.n.last, n |-> p.n]
    BY <1>1
  <2> HIDE DEF q
  <2>2. [q EXCEPT !.at = at] = [at |-> at, first |-> p.first, last |-> p.n.last, n |-> p.n]
    BY <2>1
  <2>3. QED
    BY <1>3, <2>2 DEF q
<1>7. QED
  BY <1>3, <1>4, <1>5, <1>6

\* Opening the queue reads both counters (filequeue.lua:17-18).
LEMMA OpenPusherInv ==
  ASSUME FileIInv, OpenPusher
  PROVE  FileIInv'
<1>1. FileTypeOK /\ LastOK /\ FirstOK /\ FilesInOrder /\ AheadOK /\ HandledInOrder /\ SkipInv
  BY DEF FileIInv, OrderInv
<1>2. pusher.at = "down" /\ ~PusherUp
  BY DownIsDown DEF OpenPusher, PusherUp
<1>3. /\ pusher' = [at |-> "idle", first |-> disk.first, last |-> disk.last,
                  n |-> [first |-> disk.first, last |-> disk.last]]
      /\ UNCHANGED <<disk, puller, pushed, accepted, handled, trouble>>
  BY <1>2 DEF Opened, OpenPusher
<1>4. /\ pusher'.at = "idle" /\ pusher'.first = disk.first /\ pusher'.last = disk.last
      /\ pusher'.n.first = disk.first /\ pusher'.n.last = disk.last
      /\ UNCHANGED <<disk, puller, pushed, accepted, handled, trouble>>
  BY <1>3
<1>5. FileTypeOK'
  <2>1. pusher' \in Pusher
    BY <1>1, <1>3 DEF FileTypeOK, Disk, Pusher, Process
  <2>2. QED
    BY <1>1, <1>4, <2>1 DEF FileTypeOK
<1>6. LastOK'
  BY <1>1, <1>2, <1>4, Fields DEF LastOK, PusherUp
<1>7. FirstOK'
  BY <1>1, <1>2, <1>4, Fields DEF FirstOK, Unset, PusherUp, PullerUp
<1>8. FilesInOrder'
  BY <1>1, <1>2, <1>4, Fields DEF FilesInOrder
<1>9. AheadOK'
  BY <1>1, <1>2, <1>4, Fields DEF AheadOK, Ahead, FirstOK, Unset, PusherUp, PullerUp
<1>10. HandledInOrder'
  BY <1>1, <1>2, <1>4, Fields DEF HandledInOrder
<1>11. SkipInv'
  <2> SUFFICES ASSUME PusherWentWell'
               PROVE  NumbersOK' /\ PassedOK' /\ UnhandledKept'
    BY DEF SkipInv
  <2>1. NumbersOK /\ PassedOK /\ UnhandledKept
    BY <1>1, <1>4, Fields DEF SkipInv, PusherWentWell
  <2>2. NumbersOK'
    BY <1>2, <1>4, <2>1, Fields DEF NumbersOK, PusherUp
  <2>3. PassedOK'
    BY <1>2, <1>4, <2>1, Fields DEF PassedOK, Passed, Handled, PullerUp
  <2>4. UnhandledKept'
    BY <1>2, <1>4, <2>1, Fields DEF UnhandledKept, Handled
  <2>5. QED
    BY <2>2, <2>3, <2>4
<1>12. QED
  BY <1>5, <1>6, <1>7, <1>8, <1>9, <1>10, <1>11 DEF FileIInv, OrderInv

\* A new message is after all on disk, in the file after the last.
LEMMA PushMessageInv ==
  ASSUME FileIInv, PushMessage
  PROVE  FileIInv'
<1>1. FileTypeOK /\ LastOK /\ FirstOK /\ FilesInOrder /\ AheadOK /\ HandledInOrder /\ SkipInv
  BY DEF FileIInv, OrderInv
<1>2. /\ pusher \in Pusher /\ PusherUp /\ pusher.at = "idle" /\ pusher.last # Nothing
      /\ pushed' = pushed + 1 /\ pushed < MaxPushes
      /\ disk' = [disk EXCEPT !.msg = [disk.msg EXCEPT ![pusher.last + 1] = pushed + 1]]
      /\ pusher' = [pusher EXCEPT !.at = "last"]
      /\ UNCHANGED <<puller, accepted, handled, trouble>>
  BY <1>1, DownIsDown DEF FileTypeOK, PushMessage, PusherUp
<1>3. /\ pusher.last \in Nat /\ pusher.n.last \in Nat /\ pushed \in Nat
      /\ pusher.last <= pusher.n.last /\ pusher.n.last <= pushed
      /\ disk.last = pusher.last
  BY <1>1, <1>2, Fields DEF LastOK
<1>4. pusher.last + 1 \in Number /\ pushed + 1 \in Message
  BY <1>1, <1>2, <1>3, Fields DEF Number, Message
<1>5. disk' \in Disk /\ disk'.first = disk.first /\ disk'.last = disk.last
  BY <1>1, <1>2, <1>4 DEF FileTypeOK, Disk
<1>6. /\ disk'.msg[pusher.last + 1] = pushed + 1
      /\ \A i \in Number : i # pusher.last + 1 => disk'.msg[i] = disk.msg[i]
  BY <1>1, <1>2, <1>4 DEF FileTypeOK, Disk
<1>7. /\ pusher'.at = "last" /\ pusher'.first = pusher.first /\ pusher'.last = pusher.last
      /\ pusher'.n = pusher.n /\ pusher' \in Pusher
  BY <1>2 DEF Pusher, Process
<1>8. FileTypeOK'
  <2>1. pushed' \in 0..MaxPushes /\ 1..pushed \subseteq 1..pushed'
    BY <1>1, <1>2, Fields
  <2>2. accepted' \subseteq 1..pushed' /\ \A j \in 1..Len(handled) : handled[j] \in 1..pushed'
    BY <1>1, <1>2, <2>1 DEF FileTypeOK
  <2>3. \A i \in Number : disk.msg[i] \in Int /\ disk.msg[i] <= pushed
    BY <1>1, Fields DEF FileTypeOK
  <2>4. \A i \in Number : disk'.msg[i] <= pushed'
    BY <1>2, <1>3, <1>6, <2>3
  <2>5. QED
    BY <1>1, <1>2, <1>5, <1>7, <2>1, <2>2, <2>4 DEF FileTypeOK
<1>9. \A i \in Number : disk.msg[i] # NoFile => i <= pusher.last + 1
  BY <1>1, <1>2 DEF LastOK
<1>10. \A i \in Number : disk'.msg[i] # NoFile => i <= pusher.last + 1
  BY <1>3, <1>6, <1>9
<1>11. LastOK'
  <2>1. pusher.n.last < pushed' /\ pusher.last <= pushed' /\ pushed' > 0
    BY <1>2, <1>3
  <2>2. QED
    BY <1>2, <1>3, <1>5, <1>7, <1>10, <2>1 DEF LastOK, PusherUp
<1>12. FirstOK'
  BY <1>1, <1>2, <1>5, <1>7 DEF FirstOK, Unset, PusherUp, PullerUp
<1>13. FilesInOrder'
  <2> SUFFICES ASSUME NEW i \in Number, NEW j \in Number,
                      i < j, disk'.msg[i] # NoFile, disk'.msg[j] # NoFile
               PROVE  disk'.msg[i] < disk'.msg[j]
    BY DEF FilesInOrder
  <2>1. i \in Int /\ j \in Int /\ disk.msg[i] \in Int /\ disk.msg[i] <= pushed
    BY <1>1, Fields DEF FileTypeOK
  <2>2. j <= pusher.last + 1
    BY <1>10
  <2>3. i # pusher.last + 1 /\ disk'.msg[i] = disk.msg[i]
    BY <1>6, <2>1, <2>2
  <2>4. CASE j = pusher.last + 1
    BY <1>3, <1>6, <2>1, <2>3, <2>4
  <2>5. CASE j # pusher.last + 1
    BY <1>1, <1>6, <2>3, <2>5 DEF FilesInOrder
  <2>6. QED
    BY <2>4, <2>5
<1>14. ASSUME NEW i \in Int, Ahead(i)
       PROVE  Ahead(i)'
  <2> SUFFICES ASSUME handled # << >>, NEW j \in Number, j >= i, disk'.msg[j] # NoFile
               PROVE  handled[Len(handled)] <= disk'.msg[j]
    BY <1>2 DEF Ahead
  <2>1. handled[Len(handled)] \in 1..pushed
    BY <1>1 DEF FileTypeOK
  <2>2. CASE j = pusher.last + 1
    BY <1>3, <1>6, <2>1, <2>2
  <2>3. CASE j # pusher.last + 1
    BY <1>6, <1>14, <2>3 DEF Ahead
  <2>4. QED
    BY <2>2, <2>3
<1>15. AheadOK'
  <2>1. disk.first \in Int /\ (PullerUp => puller.first \in Int)
    BY <1>1, Fields
  <2>2. disk.first \notin {0, Nothing} => Ahead(disk.first)'
    BY <1>1, <1>5, <1>14, <2>1 DEF AheadOK, Ahead
  <2>3. PullerUp /\ puller.first \notin {0, Nothing} => Ahead(puller.first)'
    BY <1>1, <1>2, <1>14, <2>1 DEF AheadOK, Ahead
  <2>4. QED
    BY <1>2, <1>5, <2>2, <2>3 DEF AheadOK, PullerUp
<1>16. HandledInOrder'
  BY <1>1, <1>2 DEF HandledInOrder
<1>17. SkipInv'
  <2> SUFFICES ASSUME PusherWentWell'
               PROVE  NumbersOK' /\ PassedOK' /\ UnhandledKept'
    BY DEF SkipInv
  <2>1. NumbersOK /\ PassedOK /\ UnhandledKept
    BY <1>1, <1>2 DEF SkipInv, PusherWentWell
  <2>2. pusher.last = pushed
    BY <1>2, <2>1 DEF NumbersOK
  <2>3. \A i \in Number : disk'.msg[i] \in {NoFile, i}
    BY <1>6, <2>1, <2>2 DEF NumbersOK
  <2>4. NumbersOK'
    BY <1>2, <1>5, <1>7, <2>1, <2>2, <2>3 DEF NumbersOK, PusherUp
  <2>5. PassedOK'
    BY <1>2, <1>5, <2>1 DEF PassedOK, Passed, Handled, PullerUp
  <2>6. UnhandledKept'
    <3> SUFFICES ASSUME NEW i \in 1..(pushed + 1), i \notin Handled
                 PROVE  disk'.msg[i] = i
      BY <1>2 DEF UnhandledKept, Handled
    <3>1. CASE i = pushed + 1
      BY <1>6, <2>2, <3>1
    <3>2. CASE i # pushed + 1
      <4>1. i \in 1..pushed /\ i \in Number
        BY <1>1, <1>2, <1>3, <3>2, Fields DEF Number
      <4>2. QED
        BY <1>6, <2>1, <2>2, <3>2, <4>1 DEF UnhandledKept
    <3>3. QED
      BY <3>1, <3>2
  <2>7. QED
    BY <2>4, <2>5, <2>6
<1>18. QED
  BY <1>8, <1>11, <1>12, <1>13, <1>15, <1>16, <1>17 DEF FileIInv, OrderInv

\* A push with a counter that was left empty raises (filequeue.lua:23).
LEMMA PushMessageRaisesInv ==
  ASSUME FileIInv, PushMessageRaises
  PROVE  FileIInv'
<1>1. FileTypeOK /\ LastOK /\ FirstOK /\ FilesInOrder /\ AheadOK /\ HandledInOrder /\ SkipInv
  BY DEF FileIInv, OrderInv
<1>2. pusher \in Pusher /\ pusher.at = "idle" /\ pusher.last = Nothing /\ PusherUp
  BY <1>1, DownIsDown DEF FileTypeOK, PushMessageRaises, PusherUp
<1>3. /\ pusher' = Down
      /\ pushed' = pushed + 1 /\ pushed < MaxPushes
      /\ UNCHANGED <<disk, puller, accepted, handled, trouble>>
  BY <1>2 DEF PushMessageRaises
<1>4. /\ pusher' = Down /\ pusher'.at = "down"
      /\ pushed' = pushed + 1 /\ pushed < MaxPushes
      /\ UNCHANGED <<disk, puller, accepted, handled, trouble>>
  BY <1>3, DownIsDown
<1>5. FileTypeOK'
  <2>1. pushed' \in 0..MaxPushes /\ 1..pushed \subseteq 1..pushed'
    BY <1>1, <1>4, Fields
  <2>2. accepted' \subseteq 1..pushed' /\ \A j \in 1..Len(handled) : handled[j] \in 1..pushed'
    BY <1>1, <1>4, <2>1 DEF FileTypeOK
  <2>3. \A i \in Number : disk.msg[i] <= pushed'
    <3>1. \A i \in Number : disk.msg[i] \in Int /\ disk.msg[i] <= pushed
      BY <1>1, Fields DEF FileTypeOK
    <3>2. pushed \in Nat /\ pushed' = pushed + 1
      BY <1>1, <1>4, Fields
    <3>3. QED
      BY <3>1, <3>2
  <2>4. QED
    BY <1>1, <1>4, <2>1, <2>2, <2>3 DEF FileTypeOK
<1>6. LastOK'
  BY <1>1, <1>2, <1>4, Fields DEF LastOK, PusherUp
<1>7. FirstOK'
  BY <1>1, <1>2, <1>4, Fields DEF FirstOK, Unset, PusherUp, PullerUp
<1>8. FilesInOrder'
  BY <1>1, <1>2, <1>4, Fields DEF FilesInOrder
<1>9. AheadOK'
  BY <1>1, <1>2, <1>4, Fields DEF AheadOK, Ahead, FirstOK, Unset, PusherUp, PullerUp
<1>10. HandledInOrder'
  BY <1>1, <1>2, <1>4, Fields DEF HandledInOrder
<1>11. SkipInv'
  BY <1>1, <1>2, <1>4, Fields DEF SkipInv, NumbersOK, PusherWentWell
<1>12. QED
  BY <1>5, <1>6, <1>7, <1>8, <1>9, <1>10, <1>11 DEF FileIInv, OrderInv

\* A push that cannot write its message changes nothing (filequeue.lua:23-30).
LEMMA PushFailsInv ==
  ASSUME FileIInv, PushFails
  PROVE  FileIInv'
<1>1. FileTypeOK /\ LastOK /\ FirstOK /\ FilesInOrder /\ AheadOK /\ HandledInOrder /\ SkipInv
  BY DEF FileIInv, OrderInv
<1>2. pusher \in Pusher /\ pusher.at = "idle" /\ pusher.last # Nothing /\ PusherUp
  BY <1>1, DownIsDown DEF FileTypeOK, PushFails, PusherUp
<1>3. /\ pushed' = pushed + 1 /\ pushed < MaxPushes
      /\ trouble' = [trouble EXCEPT !["failure"] = @ + 1]
      /\ UNCHANGED <<disk, pusher, puller, accepted, handled>>
  BY <1>2 DEF PushFails, Went
<1>4. /\ pushed' = pushed + 1 /\ pushed < MaxPushes
      /\ trouble' \in [{"pusher", "puller", "failure"} -> Nat]
      /\ trouble'.failure > 0
      /\ UNCHANGED <<disk, pusher, puller, accepted, handled>>
  BY <1>3, <1>1 DEF FileTypeOK
<1>5. FileTypeOK'
  <2>1. pushed' \in 0..MaxPushes /\ 1..pushed \subseteq 1..pushed'
    BY <1>1, <1>4, Fields
  <2>2. accepted' \subseteq 1..pushed' /\ \A j \in 1..Len(handled) : handled[j] \in 1..pushed'
    BY <1>1, <1>4, <2>1 DEF FileTypeOK
  <2>3. \A i \in Number : disk.msg[i] <= pushed'
    <3>1. \A i \in Number : disk.msg[i] \in Int /\ disk.msg[i] <= pushed
      BY <1>1, Fields DEF FileTypeOK
    <3>2. pushed \in Nat /\ pushed' = pushed + 1
      BY <1>1, <1>4, Fields
    <3>3. QED
      BY <3>1, <3>2
  <2>4. QED
    BY <1>1, <1>4, <2>1, <2>2, <2>3 DEF FileTypeOK
<1>6. LastOK'
  BY <1>1, <1>2, <1>4, Fields DEF LastOK, PusherUp
<1>7. FirstOK'
  BY <1>1, <1>2, <1>4, Fields DEF FirstOK, Unset, PusherUp, PullerUp
<1>8. FilesInOrder'
  BY <1>1, <1>2, <1>4, Fields DEF FilesInOrder
<1>9. AheadOK'
  BY <1>1, <1>2, <1>4, Fields DEF AheadOK, Ahead, FirstOK, Unset, PusherUp, PullerUp
<1>10. HandledInOrder'
  BY <1>1, <1>2, <1>4, Fields DEF HandledInOrder
<1>11. SkipInv'
  BY <1>4 DEF SkipInv, PusherWentWell
<1>12. QED
  BY <1>5, <1>6, <1>7, <1>8, <1>9, <1>10, <1>11 DEF FileIInv, OrderInv

\* The counter last is opened for writing, and is empty on disk.
LEMMA TruncateLastInv ==
  ASSUME FileIInv, TruncateLast
  PROVE  FileIInv'
<1>1. FileTypeOK /\ LastOK /\ FirstOK /\ FilesInOrder /\ AheadOK /\ HandledInOrder /\ SkipInv
  BY DEF FileIInv, OrderInv
<1>2. pusher \in Pusher /\ pusher.at = "last" /\ PusherUp
  BY <1>1, DownIsDown DEF FileTypeOK, TruncateLast, PusherUp
<1>3. /\ disk' = [first |-> disk.first, last |-> Nothing, msg |-> disk.msg]
      /\ pusher' = [at |-> "lastOpen", first |-> pusher.first, last |-> pusher.last,
                  n |-> [first |-> pusher.n.first, last |-> pusher.n.last + 1]]
      /\ UNCHANGED <<puller, pushed, accepted, handled, trouble>>
  BY <1>1, <1>2, DiskUpdates, ProcessUpdates DEF FileTypeOK, TruncateLast
<1>4. /\ disk'.first = disk.first /\ disk'.last = Nothing /\ disk'.msg = disk.msg
      /\ pusher'.at = "lastOpen" /\ pusher'.first = pusher.first /\ pusher'.last = pusher.last
      /\ pusher'.n.first = pusher.n.first /\ pusher'.n.last = pusher.n.last + 1
      /\ UNCHANGED <<puller, pushed, accepted, handled, trouble>>
  BY <1>3
<1>5. FileTypeOK'
  <2>1. {pusher.n.last + 1} \subseteq Counter
    BY <1>1, <1>2, Fields DEF Counter
  <2>2. disk' \in Disk
    BY <1>1, <1>2, <1>3, <2>1, Fields DEF FileTypeOK, Disk, Counter
  <2>3. pusher' \in Pusher
    BY <1>2, <1>3, <2>1 DEF Pusher, Process
  <2>4. QED
    BY <1>1, <1>2, <1>4, <2>2, <2>3 DEF FileTypeOK
<1>6. LastOK'
  BY <1>1, <1>2, <1>4, Fields DEF LastOK, PusherUp
<1>7. FirstOK'
  BY <1>1, <1>2, <1>4, Fields DEF FirstOK, Unset, PusherUp, PullerUp
<1>8. FilesInOrder'
  BY <1>1, <1>2, <1>4, Fields DEF FilesInOrder
<1>9. AheadOK'
  BY <1>1, <1>2, <1>4, Fields DEF AheadOK, Ahead, FirstOK, Unset, PusherUp, PullerUp
<1>10. HandledInOrder'
  BY <1>1, <1>2, <1>4, Fields DEF HandledInOrder
<1>11. SkipInv'
  <2> SUFFICES ASSUME PusherWentWell'
               PROVE  NumbersOK' /\ PassedOK' /\ UnhandledKept'
    BY DEF SkipInv
  <2>1. NumbersOK /\ PassedOK /\ UnhandledKept
    BY <1>1, <1>4, Fields DEF SkipInv, PusherWentWell
  <2>2. NumbersOK'
    BY <1>2, <1>4, <2>1, Fields DEF NumbersOK, PusherUp
  <2>3. PassedOK'
    BY <1>2, <1>4, <2>1, Fields DEF PassedOK, Passed, Handled, PullerUp
  <2>4. UnhandledKept'
    BY <1>2, <1>4, <2>1, Fields DEF UnhandledKept, Handled
  <2>5. QED
    BY <2>2, <2>3, <2>4
<1>12. QED
  BY <1>5, <1>6, <1>7, <1>8, <1>9, <1>10, <1>11 DEF FileIInv, OrderInv

\* The counter last gets its content.
LEMMA WriteLastInv ==
  ASSUME FileIInv, WriteLast
  PROVE  FileIInv'
<1>1. FileTypeOK /\ LastOK /\ FirstOK /\ FilesInOrder /\ AheadOK /\ HandledInOrder /\ SkipInv
  BY DEF FileIInv, OrderInv
<1>2. pusher \in Pusher /\ pusher.at = "lastOpen" /\ PusherUp
  BY <1>1, DownIsDown DEF FileTypeOK, WriteLast, PusherUp
<1>3. /\ disk' = [first |-> disk.first, last |-> pusher.n.last, msg |-> disk.msg]
      /\ pusher' = [at |-> IF pusher.first = 0 THEN "first" ELSE "idle",
                  first |-> pusher.first, last |-> pusher.n.last, n |-> pusher.n]
      /\ accepted' \subseteq accepted \cup {pushed}
      /\ UNCHANGED <<puller, pushed, handled, trouble>>
  BY <1>1, <1>2, DiskUpdates, ProcessUpdates DEF FileTypeOK, WriteLast
<1>4. /\ disk'.first = disk.first /\ disk'.last = pusher.n.last /\ disk'.msg = disk.msg
      /\ pusher'.at = (IF pusher.first = 0 THEN "first" ELSE "idle")
      /\ pusher'.first = pusher.first /\ pusher'.last = pusher.n.last
      /\ pusher'.n.first = pusher.n.first /\ pusher'.n.last = pusher.n.last
      /\ accepted' \subseteq accepted \cup {pushed}
      /\ UNCHANGED <<puller, pushed, handled, trouble>>
  BY <1>3
<1>5. FileTypeOK'
  <2>1. {pusher.n.last} \subseteq Counter
    BY <1>1, <1>2, Fields DEF Counter
  <2>2. disk' \in Disk
    BY <1>1, <1>2, <1>3, <2>1, Fields DEF FileTypeOK, Disk, Counter
  <2>3. pusher' \in Pusher
    BY <1>2, <1>3, <2>1 DEF Pusher, Process
  <2>4. accepted' \subseteq 1..pushed
    <3>1. pushed \in 1..pushed
      BY <1>1, <1>2, Fields DEF LastOK
    <3>2. accepted \subseteq 1..pushed
      BY <1>1 DEF FileTypeOK
    <3>3. QED
      BY <1>4, <3>1, <3>2
  <2>5. QED
    BY <1>1, <1>2, <1>4, <2>2, <2>3, <2>4 DEF FileTypeOK
<1>6. LastOK'
  BY <1>1, <1>2, <1>4, Fields DEF LastOK, PusherUp
<1>7. FirstOK'
  BY <1>1, <1>2, <1>4, Fields DEF FirstOK, Unset, PusherUp, PullerUp
<1>8. FilesInOrder'
  BY <1>1, <1>2, <1>4, Fields DEF FilesInOrder
<1>9. AheadOK'
  BY <1>1, <1>2, <1>4, Fields DEF AheadOK, Ahead, FirstOK, Unset, PusherUp, PullerUp
<1>10. HandledInOrder'
  BY <1>1, <1>2, <1>4, Fields DEF HandledInOrder
<1>11. SkipInv'
  <2> SUFFICES ASSUME PusherWentWell'
               PROVE  NumbersOK' /\ PassedOK' /\ UnhandledKept'
    BY DEF SkipInv
  <2>1. NumbersOK /\ PassedOK /\ UnhandledKept
    BY <1>1, <1>4, Fields DEF SkipInv, PusherWentWell
  <2>2. NumbersOK'
    BY <1>2, <1>4, <2>1, Fields DEF NumbersOK, PusherUp
  <2>3. PassedOK'
    BY <1>2, <1>4, <2>1, Fields DEF PassedOK, Passed, Handled, PullerUp
  <2>4. UnhandledKept'
    BY <1>2, <1>4, <2>1, Fields DEF UnhandledKept, Handled
  <2>5. QED
    BY <2>2, <2>3, <2>4
<1>12. QED
  BY <1>5, <1>6, <1>7, <1>8, <1>9, <1>10, <1>11 DEF FileIInv, OrderInv

\* The first push opens the counter first for writing,
LEMMA TruncateFirstInv ==
  ASSUME FileIInv, TruncateFirst
  PROVE  FileIInv'
<1>1. FileTypeOK /\ LastOK /\ FirstOK /\ FilesInOrder /\ AheadOK /\ HandledInOrder /\ SkipInv
  BY DEF FileIInv, OrderInv
<1>2. pusher \in Pusher /\ pusher.at = "first" /\ PusherUp
  BY <1>1, DownIsDown DEF FileTypeOK, TruncateFirst, PusherUp
<1>3. /\ disk' = [first |-> Nothing, last |-> disk.last, msg |-> disk.msg]
      /\ pusher' = [at |-> "firstOpen", first |-> pusher.first, last |-> pusher.last,
                  n |-> [first |-> pusher.n.first + 1, last |-> pusher.n.last]]
      /\ UNCHANGED <<puller, pushed, accepted, handled, trouble>>
  BY <1>1, <1>2, DiskUpdates, ProcessUpdates DEF FileTypeOK, TruncateFirst
<1>4. /\ disk'.first = Nothing /\ disk'.last = disk.last /\ disk'.msg = disk.msg
      /\ pusher'.at = "firstOpen" /\ pusher'.first = pusher.first /\ pusher'.last = pusher.last
      /\ pusher'.n.first = pusher.n.first + 1 /\ pusher'.n.last = pusher.n.last
      /\ UNCHANGED <<puller, pushed, accepted, handled, trouble>>
  BY <1>3
<1>5. FileTypeOK'
  <2>1. {pusher.n.first + 1} \subseteq Counter
    BY <1>1, <1>2, Fields DEF Counter
  <2>2. disk' \in Disk
    BY <1>1, <1>2, <1>3, <2>1, Fields DEF FileTypeOK, Disk, Counter
  <2>3. pusher' \in Pusher
    BY <1>2, <1>3, <2>1 DEF Pusher, Process
  <2>4. QED
    BY <1>1, <1>2, <1>4, <2>2, <2>3 DEF FileTypeOK
<1>6. LastOK'
  BY <1>1, <1>2, <1>4, Fields DEF LastOK, PusherUp
<1>7. FirstOK'
  BY <1>1, <1>2, <1>4, Fields DEF FirstOK, Unset, PusherUp, PullerUp
<1>8. FilesInOrder'
  BY <1>1, <1>2, <1>4, Fields DEF FilesInOrder
<1>9. AheadOK'
  BY <1>1, <1>2, <1>4, Fields DEF AheadOK, Ahead, FirstOK, Unset, PusherUp, PullerUp
<1>10. HandledInOrder'
  BY <1>1, <1>2, <1>4, Fields DEF HandledInOrder
<1>11. SkipInv'
  <2> SUFFICES ASSUME PusherWentWell'
               PROVE  NumbersOK' /\ PassedOK' /\ UnhandledKept'
    BY DEF SkipInv
  <2>1. NumbersOK /\ PassedOK /\ UnhandledKept
    BY <1>1, <1>4, Fields DEF SkipInv, PusherWentWell
  <2>2. NumbersOK'
    BY <1>2, <1>4, <2>1, Fields DEF NumbersOK, PusherUp
  <2>3. PassedOK'
    BY <1>2, <1>4, <2>1, Fields DEF PassedOK, Passed, Handled, PullerUp
  <2>4. UnhandledKept'
    BY <1>2, <1>4, <2>1, Fields DEF UnhandledKept, Handled
  <2>5. QED
    BY <2>2, <2>3, <2>4
<1>12. QED
  BY <1>5, <1>6, <1>7, <1>8, <1>9, <1>10, <1>11 DEF FileIInv, OrderInv

\* and writes it.
LEMMA WriteFirstInv ==
  ASSUME FileIInv, WriteFirst
  PROVE  FileIInv'
<1>1. FileTypeOK /\ LastOK /\ FirstOK /\ FilesInOrder /\ AheadOK /\ HandledInOrder /\ SkipInv
  BY DEF FileIInv, OrderInv
<1>2. pusher \in Pusher /\ pusher.at = "firstOpen" /\ PusherUp
  BY <1>1, DownIsDown DEF FileTypeOK, WriteFirst, PusherUp
<1>3. /\ disk' = [first |-> pusher.n.first, last |-> disk.last, msg |-> disk.msg]
      /\ pusher' = [at |-> "idle", first |-> pusher.n.first, last |-> pusher.last, n |-> pusher.n]
      /\ accepted' = accepted \cup {pushed}
      /\ UNCHANGED <<puller, pushed, handled, trouble>>
  BY <1>1, <1>2, DiskUpdates, ProcessUpdates DEF FileTypeOK, WriteFirst
<1>4. /\ disk'.first = pusher.n.first /\ disk'.last = disk.last /\ disk'.msg = disk.msg
      /\ pusher'.at = "idle" /\ pusher'.first = pusher.n.first /\ pusher'.last = pusher.last
      /\ pusher'.n.first = pusher.n.first /\ pusher'.n.last = pusher.n.last
      /\ accepted' = accepted \cup {pushed}
      /\ UNCHANGED <<puller, pushed, handled, trouble>>
  BY <1>3
<1>5. FileTypeOK'
  <2>1. {pusher.n.first} \subseteq Counter
    BY <1>1, <1>2, Fields DEF Counter
  <2>2. disk' \in Disk
    BY <1>1, <1>2, <1>3, <2>1, Fields DEF FileTypeOK, Disk, Counter
  <2>3. pusher' \in Pusher
    BY <1>2, <1>3, <2>1 DEF Pusher, Process
  <2>4. accepted' \subseteq 1..pushed
    <3>1. pushed \in 1..pushed
      BY <1>1, <1>2, Fields DEF LastOK
    <3>2. accepted \subseteq 1..pushed
      BY <1>1 DEF FileTypeOK
    <3>3. QED
      BY <1>4, <3>1, <3>2
  <2>5. QED
    BY <1>1, <1>2, <1>4, <2>2, <2>3, <2>4 DEF FileTypeOK
<1>6. LastOK'
  BY <1>1, <1>2, <1>4, Fields DEF LastOK, PusherUp
<1>7. FirstOK'
  BY <1>1, <1>2, <1>4, Fields DEF FirstOK, Unset, PusherUp, PullerUp
<1>8. FilesInOrder'
  BY <1>1, <1>2, <1>4, Fields DEF FilesInOrder
<1>9. AheadOK'
  BY <1>1, <1>2, <1>4, Fields DEF AheadOK, Ahead, FirstOK, Unset, PusherUp, PullerUp
<1>10. HandledInOrder'
  BY <1>1, <1>2, <1>4, Fields DEF HandledInOrder
<1>11. SkipInv'
  <2> SUFFICES ASSUME PusherWentWell'
               PROVE  NumbersOK' /\ PassedOK' /\ UnhandledKept'
    BY DEF SkipInv
  <2>1. NumbersOK /\ PassedOK /\ UnhandledKept
    BY <1>1, <1>4, Fields DEF SkipInv, PusherWentWell
  <2>2. NumbersOK'
    BY <1>2, <1>4, <2>1, Fields DEF NumbersOK, PusherUp
  <2>3. PassedOK'
    <3>1. pusher.n.first = 1 /\ (PullerUp => puller.first \in {0, Nothing})
      BY <1>1, <1>2, <2>1, Fields DEF FirstOK, Unset, NumbersOK
    <3>2. 1..(1 - 1) = {}
      OBVIOUS
    <3>3. QED
      BY <1>4, <3>1, <3>2 DEF PassedOK, Passed, PullerUp
  <2>4. UnhandledKept'
    BY <1>2, <1>4, <2>1, Fields DEF UnhandledKept, Handled
  <2>5. QED
    BY <2>2, <2>3, <2>4
<1>12. QED
  BY <1>5, <1>6, <1>7, <1>8, <1>9, <1>10, <1>11 DEF FileIInv, OrderInv

\* A counter that cannot be opened stays ahead in its closure.
LEMMA PushCounterFailsInv ==
  ASSUME FileIInv, PushCounterFails
  PROVE  FileIInv'
<1>1. FileTypeOK /\ LastOK /\ FirstOK /\ FilesInOrder /\ AheadOK /\ HandledInOrder /\ SkipInv
  BY DEF FileIInv, OrderInv
<1>2. pusher \in Pusher /\ pusher.at \in {"last", "first"} /\ PusherUp
  BY <1>1, DownIsDown DEF FileTypeOK, PushCounterFails, PusherUp
<1>3. /\ pusher.at = "last" => pusher' =
            [at |-> "idle", first |-> pusher.first, last |-> pusher.last,
             n |-> [first |-> pusher.n.first, last |-> pusher.n.last + 1]]
      /\ pusher.at = "first" => pusher' =
            [at |-> "idle", first |-> pusher.first, last |-> pusher.last,
             n |-> [first |-> pusher.n.first + 1, last |-> pusher.n.last]]
      /\ trouble' = [trouble EXCEPT !["failure"] = @ + 1]
      /\ UNCHANGED <<disk, puller, pushed, accepted, handled>>
  BY <1>2, DiskUpdates, ProcessUpdates DEF PushCounterFails, Went
<1>4. /\ pusher'.at = "idle" /\ pusher'.first = pusher.first /\ pusher'.last = pusher.last
      /\ pusher.at = "last" =>
            pusher'.n.first = pusher.n.first /\ pusher'.n.last = pusher.n.last + 1
      /\ pusher.at = "first" =>
            pusher'.n.first = pusher.n.first + 1 /\ pusher'.n.last = pusher.n.last
      /\ trouble' \in [{"pusher", "puller", "failure"} -> Nat]
      /\ trouble'.failure > 0
      /\ UNCHANGED <<disk, puller, pushed, accepted, handled>>
  BY <1>2, <1>3, <1>1 DEF FileTypeOK
<1>5. FileTypeOK'
  <2>1. {pusher.n.first, pusher.n.last, pusher.n.first + 1, pusher.n.last + 1} \subseteq Counter
    BY <1>1, <1>2, Fields DEF Counter
  <2>2. pusher' \in Pusher
    <3>1. pusher \in [at : {"idle", "last", "lastOpen", "first", "firstOpen"}, first : Counter,
                      last : Counter, n : [first : Counter, last : Counter]]
      BY <1>2 DEF Pusher, Process
    <3>2. CASE pusher.at = "last"
      BY <1>3, <2>1, <3>1, <3>2 DEF Pusher, Process
    <3>3. CASE pusher.at = "first"
      BY <1>3, <2>1, <3>1, <3>3 DEF Pusher, Process
    <3>4. QED
      BY <1>2, <3>2, <3>3
  <2>3. QED
    BY <1>1, <1>4, <2>2 DEF FileTypeOK
<1>6. LastOK'
  BY <1>1, <1>2, <1>4, Fields DEF LastOK, PusherUp
<1>7. FirstOK'
  <2>1. Unset => pusher.n.first \in Nat /\ pusher'.n.first \in Nat
    BY <1>1, <1>2, <1>4, Fields DEF FirstOK, Unset
  <2>2. pusher'.at \notin {"first", "firstOpen"}
    BY <1>4
  <2>3. Unset' => Unset
    BY <1>2, <1>4 DEF Unset, PusherUp
  <2>4. QED
    BY <1>1, <1>2, <1>4, <2>1, <2>2, <2>3 DEF FirstOK, PusherUp, PullerUp
<1>8. FilesInOrder'
  BY <1>1, <1>2, <1>4, Fields DEF FilesInOrder
<1>9. AheadOK'
  BY <1>1, <1>2, <1>4, Fields DEF AheadOK, Ahead, FirstOK, Unset, PusherUp, PullerUp
<1>10. HandledInOrder'
  BY <1>1, <1>2, <1>4, Fields DEF HandledInOrder
<1>11. SkipInv'
  BY <1>4 DEF SkipInv, PusherWentWell
<1>12. QED
  BY <1>5, <1>6, <1>7, <1>8, <1>9, <1>10, <1>11 DEF FileIInv, OrderInv

\* The pusher may be killed anywhere,
LEMMA CrashPusherInv ==
  ASSUME FileIInv, CrashPusher
  PROVE  FileIInv'
<1>1. FileTypeOK /\ LastOK /\ FirstOK /\ FilesInOrder /\ AheadOK /\ HandledInOrder /\ SkipInv
  BY DEF FileIInv, OrderInv
<1>2. pusher \in Pusher /\ TRUE /\ PusherUp
  BY <1>1, DownIsDown DEF FileTypeOK, CrashPusher, PusherUp
<1>3. /\ pusher' = Down
      /\ trouble' = [trouble EXCEPT !["pusher"] = @ + 1]
      /\ UNCHANGED <<disk, puller, pushed, accepted, handled>>
  BY <1>2 DEF CrashPusher, Went
<1>4. /\ pusher' = Down /\ pusher'.at = "down"
      /\ trouble' \in [{"pusher", "puller", "failure"} -> Nat]
      /\ trouble'.pusher > 0
      /\ UNCHANGED <<disk, puller, pushed, accepted, handled>>
  BY <1>3, DownIsDown, <1>1 DEF FileTypeOK
<1>5. FileTypeOK'
  BY <1>1, <1>2, <1>4, Fields DEF FileTypeOK
<1>6. LastOK'
  BY <1>1, <1>2, <1>4, Fields DEF LastOK, PusherUp
<1>7. FirstOK'
  BY <1>1, <1>2, <1>4, Fields DEF FirstOK, Unset, PusherUp, PullerUp
<1>8. FilesInOrder'
  BY <1>1, <1>2, <1>4, Fields DEF FilesInOrder
<1>9. AheadOK'
  BY <1>1, <1>2, <1>4, Fields DEF AheadOK, Ahead, FirstOK, Unset, PusherUp, PullerUp
<1>10. HandledInOrder'
  BY <1>1, <1>2, <1>4, Fields DEF HandledInOrder
<1>11. SkipInv'
  BY <1>4 DEF SkipInv, PusherWentWell
<1>12. QED
  BY <1>5, <1>6, <1>7, <1>8, <1>9, <1>10, <1>11 DEF FileIInv, OrderInv

\* The polling process opens the queue.
LEMMA OpenPullerInv ==
  ASSUME FileIInv, OpenPuller
  PROVE  FileIInv'
<1>1. FileTypeOK /\ LastOK /\ FirstOK /\ FilesInOrder /\ AheadOK /\ HandledInOrder /\ SkipInv
  BY DEF FileIInv, OrderInv
<1>2. puller.at = "down" /\ ~PullerUp
  BY DownIsDown DEF OpenPuller, PullerUp
<1>3. /\ puller' = [at |-> "idle", first |-> disk.first, last |-> disk.last,
                  n |-> [first |-> disk.first, last |-> disk.last]]
      /\ UNCHANGED <<disk, pusher, pushed, accepted, handled, trouble>>
  BY <1>2 DEF Opened, OpenPuller
<1>4. /\ puller'.at = "idle" /\ puller'.first = disk.first /\ puller'.last = disk.last
      /\ puller'.n.first = disk.first /\ puller'.n.last = disk.last
      /\ UNCHANGED <<disk, pusher, pushed, accepted, handled, trouble>>
  BY <1>3
<1>5. FileTypeOK'
  <2>1. puller' \in Puller
    BY <1>1, <1>3 DEF FileTypeOK, Disk, Puller, Process
  <2>2. QED
    BY <1>1, <1>4, <2>1 DEF FileTypeOK
<1>6. LastOK'
  BY <1>1, <1>2, <1>4, Fields DEF LastOK, PusherUp
<1>7. FirstOK'
  BY <1>1, <1>2, <1>4, Fields DEF FirstOK, Unset, PusherUp, PullerUp
<1>8. FilesInOrder'
  BY <1>1, <1>2, <1>4, Fields DEF FilesInOrder
<1>9. AheadOK'
  BY <1>1, <1>2, <1>4, Fields DEF AheadOK, Ahead, FirstOK, Unset, PusherUp, PullerUp
<1>10. HandledInOrder'
  BY <1>1, <1>2, <1>4, Fields DEF HandledInOrder
<1>11. SkipInv'
  <2> SUFFICES ASSUME PusherWentWell'
               PROVE  NumbersOK' /\ PassedOK' /\ UnhandledKept'
    BY DEF SkipInv
  <2>1. NumbersOK /\ PassedOK /\ UnhandledKept
    BY <1>1, <1>4, Fields DEF SkipInv, PusherWentWell
  <2>2. NumbersOK'
    BY <1>2, <1>4, <2>1, Fields DEF NumbersOK, PusherUp
  <2>3. PassedOK'
    BY <1>2, <1>4, <2>1, Fields DEF PassedOK, Passed, Handled, PullerUp
  <2>4. UnhandledKept'
    BY <1>2, <1>4, <2>1, Fields DEF UnhandledKept, Handled
  <2>5. QED
    BY <2>2, <2>3, <2>4
<1>12. QED
  BY <1>5, <1>6, <1>7, <1>8, <1>9, <1>10, <1>11 DEF FileIInv, OrderInv

\* peek() with a counter that was left empty raises.
LEMMA PeekRaisesInv ==
  ASSUME FileIInv, PeekRaises
  PROVE  FileIInv'
<1>1. FileTypeOK /\ LastOK /\ FirstOK /\ FilesInOrder /\ AheadOK /\ HandledInOrder /\ SkipInv
  BY DEF FileIInv, OrderInv
<1>2. puller \in Puller /\ puller.at = "idle" /\ puller.first = Nothing /\ PullerUp
  BY <1>1, DownIsDown DEF FileTypeOK, PeekRaises, PullerUp
<1>3. /\ puller' = Down
      /\ UNCHANGED <<disk, pusher, pushed, accepted, handled, trouble>>
  BY <1>2 DEF PeekRaises
<1>4. /\ puller' = Down /\ puller'.at = "down"
      /\ UNCHANGED <<disk, pusher, pushed, accepted, handled, trouble>>
  BY <1>3, DownIsDown
<1>5. FileTypeOK'
  BY <1>1, <1>2, <1>4, Fields DEF FileTypeOK
<1>6. LastOK'
  BY <1>1, <1>2, <1>4, Fields DEF LastOK, PusherUp
<1>7. FirstOK'
  BY <1>1, <1>2, <1>4, Fields DEF FirstOK, Unset, PusherUp, PullerUp
<1>8. FilesInOrder'
  BY <1>1, <1>2, <1>4, Fields DEF FilesInOrder
<1>9. AheadOK'
  BY <1>1, <1>2, <1>4, Fields DEF AheadOK, Ahead, FirstOK, Unset, PusherUp, PullerUp
<1>10. HandledInOrder'
  BY <1>1, <1>2, <1>4, Fields DEF HandledInOrder
<1>11. SkipInv'
  <2> SUFFICES ASSUME PusherWentWell'
               PROVE  NumbersOK' /\ PassedOK' /\ UnhandledKept'
    BY DEF SkipInv
  <2>1. NumbersOK /\ PassedOK /\ UnhandledKept
    BY <1>1, <1>4, Fields DEF SkipInv, PusherWentWell
  <2>2. NumbersOK'
    BY <1>2, <1>4, <2>1, Fields DEF NumbersOK, PusherUp
  <2>3. PassedOK'
    BY <1>2, <1>4, <2>1, Fields DEF PassedOK, Passed, Handled, PullerUp
  <2>4. UnhandledKept'
    BY <1>2, <1>4, <2>1, Fields DEF UnhandledKept, Handled
  <2>5. QED
    BY <2>2, <2>3, <2>4
<1>12. QED
  BY <1>5, <1>6, <1>7, <1>8, <1>9, <1>10, <1>11 DEF FileIInv, OrderInv

\* The message that peek() finds is the next in order.
LEMMA PeekMessageInv ==
  ASSUME FileIInv, PeekMessage
  PROVE  FileIInv'
<1> DEFINE m == disk.msg[puller.first]
<1>1. FileTypeOK /\ LastOK /\ FirstOK /\ FilesInOrder /\ AheadOK /\ HandledInOrder /\ SkipInv
  BY DEF FileIInv, OrderInv
<1>2. /\ puller \in Puller /\ PullerUp /\ puller.at = "idle"
      /\ puller.first \in Number /\ m # NoFile
      /\ handled' = Append(handled, m)
      /\ puller' = [puller EXCEPT !.at = "holding"]
      /\ UNCHANGED <<disk, pusher, pushed, accepted, trouble>>
  BY <1>1, DownIsDown DEF FileTypeOK, PeekMessage, Exists, PullerUp
<1>3. puller.first \in Int /\ puller.first >= 1 /\ m \in Nat /\ m \in 1..pushed
  <2>1. \A i \in Number : /\ i \in Int /\ i >= 1
                         /\ disk.msg[i] \in Int /\ disk.msg[i] >= 0 /\ disk.msg[i] <= pushed
    BY <1>1, Fields DEF FileTypeOK
  <2>2. pushed \in Nat
    BY <1>1, Fields
  <2>3. QED
    BY <1>2, <2>1, <2>2
<1> HIDE DEF m
<1>4. /\ handled' \in Seq(Nat) /\ Len(handled') = Len(handled) + 1 /\ Len(handled) \in Nat
      /\ \A j \in 1..Len(handled) : handled'[j] = handled[j]
      /\ handled'[Len(handled) + 1] = m
  <2>1. handled \in Seq(Nat)
    BY <1>1 DEF FileTypeOK
  <2>2. QED
    BY <1>2, <1>3, <2>1
<1>5. puller'.at = "holding" /\ puller'.first = puller.first /\ puller'.n = puller.n
  BY <1>2 DEF Process
<1>6. handled' # << >> /\ (handled # << >> <=> Len(handled) > 0)
  BY <1>1, <1>4
<1>7. FileTypeOK'
  <2>1. puller' \in Puller
    BY <1>2 DEF Puller, Process
  <2>2. \A j \in 1..Len(handled') : handled'[j] \in 1..pushed
    <3>1. \A j \in 1..Len(handled) : handled[j] \in 1..pushed
      BY <1>1 DEF FileTypeOK
    <3>2. \A j \in 1..Len(handled') : j \in 1..Len(handled) \/ j = Len(handled) + 1
      BY <1>4
    <3>3. QED
      BY <1>3, <1>4, <3>1, <3>2
  <2>3. QED
    BY <1>1, <1>2, <1>4, <2>1, <2>2 DEF FileTypeOK
<1>8. LastOK'
  BY <1>1, <1>2 DEF LastOK, PusherUp
<1>9. FirstOK'
  BY <1>1, <1>2, <1>3, <1>5, Fields DEF FirstOK, Unset, PusherUp, PullerUp
<1>10. FilesInOrder'
  BY <1>1, <1>2 DEF FilesInOrder
<1>11. AheadOK'
  <2>1. disk.first \in {Nothing, puller.first}
    BY <1>1, <1>2, <1>3 DEF FirstOK
  <2>2. \A j \in Number : j >= puller.first /\ disk.msg[j] # NoFile => m <= disk.msg[j]
    <3>1. \A j \in Number : j > puller.first /\ disk.msg[j] # NoFile => m < disk.msg[j]
      BY <1>1, <1>2 DEF FilesInOrder, m
    <3>2. \A j \in Number : j \in Int /\ disk.msg[j] \in Int
      BY <1>1, Fields
    <3>3. QED
      BY <1>3, <3>1, <3>2 DEF m
  <2>3. Ahead(puller.first)'
    BY <1>2, <1>4, <1>5, <2>2 DEF Ahead
  <2>4. QED
    BY <1>2, <1>5, <2>1, <2>3 DEF AheadOK, PullerUp, Ahead
<1>12. HandledInOrder'
  <2>1. handled # << >> => handled[Len(handled)] <= m
    BY <1>1, <1>2, <1>3, Fields DEF AheadOK, Ahead, m
  <2>2. ASSUME NEW j \in 1..(Len(handled') - 1)
        PROVE  handled'[j] <= handled'[j + 1]
    <3>1. j \in 1..Len(handled) /\ handled'[j] = handled[j]
      BY <1>4
    <3>2. CASE j = Len(handled)
      BY <1>4, <1>6, <2>1, <3>1, <3>2
    <3>3. CASE j # Len(handled)
      <4>1. j \in 1..(Len(handled) - 1) /\ j + 1 \in 1..Len(handled)
        BY <3>1, <3>3
      <4>2. QED
        BY <1>1, <1>4, <3>1, <4>1 DEF HandledInOrder
    <3>4. QED
      BY <3>2, <3>3
  <2>3. QED
    BY <2>2 DEF HandledInOrder
<1>13. SkipInv'
  <2> SUFFICES ASSUME PusherWentWell'
               PROVE  NumbersOK' /\ PassedOK' /\ UnhandledKept'
    BY DEF SkipInv
  <2>1. NumbersOK /\ PassedOK /\ UnhandledKept
    BY <1>1, <1>2 DEF SkipInv, PusherWentWell
  <2>2. NumbersOK'
    BY <1>2, <2>1 DEF NumbersOK, PusherUp
  <2>3. DOMAIN handled = 1..Len(handled) /\ DOMAIN handled' = 1..Len(handled')
    BY <1>1, <1>4
  <2>4. Handled \subseteq Handled'
    BY <1>4, <2>3 DEF Handled
  <2>5. puller.first \in Handled'
    <3>1. m = puller.first
      BY <1>2, <2>1 DEF NumbersOK, m
    <3>2. Len(handled) + 1 \in DOMAIN handled'
      BY <1>4, <2>3
    <3>3. QED
      BY <1>4, <3>1, <3>2 DEF Handled
  <2>6. PassedOK'
    BY <1>2, <1>3, <1>5, <2>1, <2>4, <2>5, Fields DEF PassedOK, Passed, PullerUp
  <2>7. UnhandledKept'
    BY <1>2, <2>1, <2>4 DEF UnhandledKept
  <2>8. QED
    BY <2>2, <2>6, <2>7
<1>14. QED
  BY <1>7, <1>8, <1>9, <1>10, <1>11, <1>12, <1>13 DEF FileIInv, OrderInv

\* pull() opens the counter first for writing,
LEMMA TruncatePulledInv ==
  ASSUME FileIInv, TruncatePulled
  PROVE  FileIInv'
<1>1. FileTypeOK /\ LastOK /\ FirstOK /\ FilesInOrder /\ AheadOK /\ HandledInOrder /\ SkipInv
  BY DEF FileIInv, OrderInv
<1>2. puller \in Puller /\ puller.at = "holding" /\ PullerUp
  BY <1>1, DownIsDown DEF FileTypeOK, TruncatePulled, PullerUp
<1>3. /\ disk' = [first |-> Nothing, last |-> disk.last, msg |-> disk.msg]
      /\ puller' = [at |-> "firstOpen", first |-> puller.first, last |-> puller.last,
                  n |-> [first |-> puller.n.first + 1, last |-> puller.n.last]]
      /\ UNCHANGED <<pusher, pushed, accepted, handled, trouble>>
  BY <1>1, <1>2, DiskUpdates, ProcessUpdates DEF FileTypeOK, TruncatePulled
<1>4. /\ disk'.first = Nothing /\ disk'.last = disk.last /\ disk'.msg = disk.msg
      /\ puller'.at = "firstOpen" /\ puller'.first = puller.first /\ puller'.last = puller.last
      /\ puller'.n.first = puller.n.first + 1 /\ puller'.n.last = puller.n.last
      /\ UNCHANGED <<pusher, pushed, accepted, handled, trouble>>
  BY <1>3
<1>5. FileTypeOK'
  <2>1. {puller.n.first + 1} \subseteq Counter
    BY <1>1, <1>2, Fields DEF Counter
  <2>2. disk' \in Disk
    BY <1>1, <1>2, <1>3, <2>1, Fields DEF FileTypeOK, Disk, Counter
  <2>3. puller' \in Puller
    BY <1>2, <1>3, <2>1 DEF Puller, Process
  <2>4. QED
    BY <1>1, <1>2, <1>4, <2>2, <2>3 DEF FileTypeOK
<1>6. LastOK'
  BY <1>1, <1>2, <1>4, Fields DEF LastOK, PusherUp
<1>7. FirstOK'
  BY <1>1, <1>2, <1>4, Fields DEF FirstOK, Unset, PusherUp, PullerUp
<1>8. FilesInOrder'
  BY <1>1, <1>2, <1>4, Fields DEF FilesInOrder
<1>9. AheadOK'
  BY <1>1, <1>2, <1>4, Fields DEF AheadOK, Ahead, FirstOK, Unset, PusherUp, PullerUp
<1>10. HandledInOrder'
  BY <1>1, <1>2, <1>4, Fields DEF HandledInOrder
<1>11. SkipInv'
  <2> SUFFICES ASSUME PusherWentWell'
               PROVE  NumbersOK' /\ PassedOK' /\ UnhandledKept'
    BY DEF SkipInv
  <2>1. NumbersOK /\ PassedOK /\ UnhandledKept
    BY <1>1, <1>4, Fields DEF SkipInv, PusherWentWell
  <2>2. NumbersOK'
    BY <1>1, <1>2, <1>4, <2>1, Fields DEF NumbersOK, PusherUp, FirstOK, PullerUp
  <2>3. PassedOK'
    BY <1>2, <1>4, <2>1, Fields DEF PassedOK, Passed, Handled, PullerUp
  <2>4. UnhandledKept'
    BY <1>2, <1>4, <2>1, Fields DEF UnhandledKept, Handled
  <2>5. QED
    BY <2>2, <2>3, <2>4
<1>12. QED
  BY <1>5, <1>6, <1>7, <1>8, <1>9, <1>10, <1>11 DEF FileIInv, OrderInv

\* and writes it,
LEMMA WritePulledInv ==
  ASSUME FileIInv, WritePulled
  PROVE  FileIInv'
<1>1. FileTypeOK /\ LastOK /\ FirstOK /\ FilesInOrder /\ AheadOK /\ HandledInOrder /\ SkipInv
  BY DEF FileIInv, OrderInv
<1>2. puller \in Puller /\ puller.at = "firstOpen" /\ PullerUp
  BY <1>1, DownIsDown DEF FileTypeOK, WritePulled, PullerUp
<1>3. /\ disk' = [first |-> puller.n.first, last |-> disk.last, msg |-> disk.msg]
      /\ puller' = [at |-> "remove", first |-> puller.n.first, last |-> puller.last, n |-> puller.n]
      /\ UNCHANGED <<pusher, pushed, accepted, handled, trouble>>
  BY <1>1, <1>2, DiskUpdates, ProcessUpdates DEF FileTypeOK, WritePulled
<1>4. /\ disk'.first = puller.n.first /\ disk'.last = disk.last /\ disk'.msg = disk.msg
      /\ puller'.at = "remove" /\ puller'.first = puller.n.first /\ puller'.last = puller.last
      /\ puller'.n.first = puller.n.first /\ puller'.n.last = puller.n.last
      /\ UNCHANGED <<pusher, pushed, accepted, handled, trouble>>
  BY <1>3
<1>5. FileTypeOK'
  <2>1. {puller.n.first} \subseteq Counter
    BY <1>1, <1>2, Fields DEF Counter
  <2>2. disk' \in Disk
    BY <1>1, <1>2, <1>3, <2>1, Fields DEF FileTypeOK, Disk, Counter
  <2>3. puller' \in Puller
    BY <1>2, <1>3, <2>1 DEF Puller, Process
  <2>4. QED
    BY <1>1, <1>2, <1>4, <2>2, <2>3 DEF FileTypeOK
<1>6. LastOK'
  BY <1>1, <1>2, <1>4, Fields DEF LastOK, PusherUp
<1>7. FirstOK'
  BY <1>1, <1>2, <1>4, Fields DEF FirstOK, Unset, PusherUp, PullerUp
<1>8. FilesInOrder'
  BY <1>1, <1>2, <1>4, Fields DEF FilesInOrder
<1>9. AheadOK'
  BY <1>1, <1>2, <1>4, Fields DEF AheadOK, Ahead, FirstOK, Unset, PusherUp, PullerUp
<1>10. HandledInOrder'
  BY <1>1, <1>2, <1>4, Fields DEF HandledInOrder
<1>11. SkipInv'
  <2> SUFFICES ASSUME PusherWentWell'
               PROVE  NumbersOK' /\ PassedOK' /\ UnhandledKept'
    BY DEF SkipInv
  <2>1. NumbersOK /\ PassedOK /\ UnhandledKept
    BY <1>1, <1>4, Fields DEF SkipInv, PusherWentWell
  <2>2. NumbersOK'
    BY <1>1, <1>2, <1>4, <2>1, Fields DEF NumbersOK, PusherUp, FirstOK, PullerUp
  <2>3. PassedOK'
    <3>1. /\ puller.n.first = puller.first + 1
          /\ 1..(puller.first - 1) \subseteq Handled /\ puller.first \in Handled
      BY <1>1, <1>2, <2>1, Fields DEF FirstOK, PassedOK, Passed
    <3>2. 1..(puller.n.first - 1) \subseteq Handled
      BY <1>1, <1>2, <3>1, Fields
    <3>3. QED
      BY <1>4, <3>1, <3>2 DEF PassedOK, Passed, Handled, PullerUp
  <2>4. UnhandledKept'
    BY <1>2, <1>4, <2>1, Fields DEF UnhandledKept, Handled
  <2>5. QED
    BY <2>2, <2>3, <2>4
<1>12. QED
  BY <1>5, <1>6, <1>7, <1>8, <1>9, <1>10, <1>11 DEF FileIInv, OrderInv

\* or fails to open it.
LEMMA PullCounterFailsInv ==
  ASSUME FileIInv, PullCounterFails
  PROVE  FileIInv'
<1>1. FileTypeOK /\ LastOK /\ FirstOK /\ FilesInOrder /\ AheadOK /\ HandledInOrder /\ SkipInv
  BY DEF FileIInv, OrderInv
<1>2. puller \in Puller /\ puller.at = "holding" /\ PullerUp
  BY <1>1, DownIsDown DEF FileTypeOK, PullCounterFails, PullerUp
<1>3. /\ puller' = [at |-> "idle", first |-> puller.first, last |-> puller.last,
                  n |-> [first |-> puller.n.first + 1, last |-> puller.n.last]]
      /\ trouble' = [trouble EXCEPT !["failure"] = @ + 1]
      /\ UNCHANGED <<disk, pusher, pushed, accepted, handled>>
  BY <1>2, DiskUpdates, ProcessUpdates DEF PullCounterFails, Went
<1>4. /\ puller'.at = "idle" /\ puller'.first = puller.first /\ puller'.last = puller.last
      /\ puller'.n.first = puller.n.first + 1 /\ puller'.n.last = puller.n.last
      /\ trouble' \in [{"pusher", "puller", "failure"} -> Nat]
      /\ trouble'.failure > 0
      /\ UNCHANGED <<disk, pusher, pushed, accepted, handled>>
  BY <1>3, <1>1 DEF FileTypeOK
<1>5. FileTypeOK'
  <2>1. {puller.n.first + 1} \subseteq Counter
    BY <1>1, <1>2, Fields DEF Counter
  <2>2. disk' \in Disk
    BY <1>1, <1>2, <1>3, <2>1, Fields DEF FileTypeOK, Disk, Counter
  <2>3. puller' \in Puller
    BY <1>2, <1>3, <2>1 DEF Puller, Process
  <2>4. QED
    BY <1>1, <1>2, <1>4, <2>2, <2>3 DEF FileTypeOK
<1>6. LastOK'
  BY <1>1, <1>2, <1>4, Fields DEF LastOK, PusherUp
<1>7. FirstOK'
  BY <1>1, <1>2, <1>4, Fields DEF FirstOK, Unset, PusherUp, PullerUp
<1>8. FilesInOrder'
  BY <1>1, <1>2, <1>4, Fields DEF FilesInOrder
<1>9. AheadOK'
  BY <1>1, <1>2, <1>4, Fields DEF AheadOK, Ahead, FirstOK, Unset, PusherUp, PullerUp
<1>10. HandledInOrder'
  BY <1>1, <1>2, <1>4, Fields DEF HandledInOrder
<1>11. SkipInv'
  BY <1>4 DEF SkipInv, PusherWentWell
<1>12. QED
  BY <1>5, <1>6, <1>7, <1>8, <1>9, <1>10, <1>11 DEF FileIInv, OrderInv

\* pull() removes a file that the puller has gone past.
LEMMA RemovePulledInv ==
  ASSUME FileIInv, RemovePulled
  PROVE  FileIInv'
<1>1. FileTypeOK /\ LastOK /\ FirstOK /\ FilesInOrder /\ AheadOK /\ HandledInOrder /\ SkipInv
  BY DEF FileIInv, OrderInv
<1>2. /\ puller \in Puller /\ PullerUp /\ puller.at = "remove"
      /\ UNCHANGED <<pusher, pushed, accepted, handled, trouble>>
  BY <1>1, DownIsDown DEF FileTypeOK, RemovePulled, PullerUp
<1>3. puller.first \notin {0, Nothing} /\ puller.first \in Int
  BY <1>1, <1>2, Fields DEF FirstOK
<1>4. /\ \/ disk' = disk
         \/ disk' = [disk EXCEPT !.msg = [disk.msg EXCEPT ![puller.first - 1] = NoFile]]
      /\ \/ puller' = [puller EXCEPT !.at = "idle"]
         \/ puller' = [puller EXCEPT !.at = "failed"]
  BY DEF RemovePulled
<1>5. disk' \in Disk /\ disk'.first = disk.first /\ disk'.last = disk.last
  BY <1>1, <1>4 DEF FileTypeOK, Disk
<1>6. /\ \A i \in Number : disk'.msg[i] \in {disk.msg[i], NoFile}
      /\ \A i \in Number : i # puller.first - 1 => disk'.msg[i] = disk.msg[i]
  BY <1>1, <1>4 DEF FileTypeOK, Disk
<1>7. /\ puller'.at \in {"idle", "failed"} /\ puller'.first = puller.first /\ puller'.n = puller.n
      /\ puller' \in Puller
  BY <1>2, <1>4 DEF Puller, Process
<1>8. FileTypeOK'
  <2>1. \A i \in Number : disk'.msg[i] <= pushed
    <3>1. \A i \in Number : disk.msg[i] <= pushed
      BY <1>1 DEF FileTypeOK
    <3>2. pushed \in Nat
      BY <1>1, Fields
    <3>3. QED
      BY <1>6, <3>1, <3>2
  <2>2. QED
    BY <1>1, <1>2, <1>5, <1>7, <2>1 DEF FileTypeOK
<1>9. LastOK'
  BY <1>1, <1>2, <1>5, <1>6 DEF LastOK, PusherUp
<1>10. FirstOK'
  BY <1>1, <1>2, <1>3, <1>5, <1>7 DEF FirstOK, Unset, PusherUp, PullerUp
<1>11. FilesInOrder'
  BY <1>1, <1>6 DEF FilesInOrder
<1>12. AheadOK'
  BY <1>1, <1>2, <1>5, <1>6, <1>7 DEF AheadOK, Ahead, PullerUp
<1>13. HandledInOrder'
  BY <1>1, <1>2 DEF HandledInOrder
<1>14. SkipInv'
  <2> SUFFICES ASSUME PusherWentWell'
               PROVE  NumbersOK' /\ PassedOK' /\ UnhandledKept'
    BY DEF SkipInv
  <2>1. NumbersOK /\ PassedOK /\ UnhandledKept
    BY <1>1, <1>2 DEF SkipInv, PusherWentWell
  <2>2. NumbersOK'
    BY <1>2, <1>5, <1>6, <2>1 DEF NumbersOK, PusherUp
  <2>3. PassedOK'
    BY <1>2, <1>5, <1>7, <2>1 DEF PassedOK, Passed, Handled, PullerUp
  <2>4. UnhandledKept'
    <3> SUFFICES ASSUME NEW i \in 1..pushed, i \notin Handled
                 PROVE  disk'.msg[i] = i
      BY <1>2 DEF UnhandledKept, Handled
    <3>1. i # puller.first - 1
      <4>1. 1..(puller.first - 1) \subseteq Handled
        BY <1>2, <1>3, <2>1 DEF PassedOK, Passed
      <4>2. i \in Int /\ i >= 1
        BY Fields
      <4>3. QED
        BY <4>1, <4>2
    <3>2. i \in Number
      BY <1>1, Fields DEF Number, FileTypeOK
    <3>3. QED
      BY <1>6, <2>1, <3>1, <3>2 DEF UnhandledKept
  <2>5. QED
    BY <2>2, <2>3, <2>4
<1>15. QED
  BY <1>8, <1>9, <1>10, <1>11, <1>12, <1>13, <1>14 DEF FileIInv, OrderInv

\* and so may the polling process.
LEMMA CrashPullerInv ==
  ASSUME FileIInv, CrashPuller
  PROVE  FileIInv'
<1>1. FileTypeOK /\ LastOK /\ FirstOK /\ FilesInOrder /\ AheadOK /\ HandledInOrder /\ SkipInv
  BY DEF FileIInv, OrderInv
<1>2. puller \in Puller /\ TRUE /\ PullerUp
  BY <1>1, DownIsDown DEF FileTypeOK, CrashPuller, PullerUp
<1>3. /\ puller' = Down
      /\ trouble' = [trouble EXCEPT !["puller"] = @ + 1]
      /\ UNCHANGED <<disk, pusher, pushed, accepted, handled>>
  BY <1>2 DEF CrashPuller, Went
<1>4. /\ puller' = Down /\ puller'.at = "down"
      /\ trouble' \in [{"pusher", "puller", "failure"} -> Nat]
      /\ trouble'.pusher = trouble.pusher /\ trouble'.failure = trouble.failure
      /\ trouble'.puller > 0
      /\ UNCHANGED <<disk, pusher, pushed, accepted, handled>>
  BY <1>3, DownIsDown, <1>1 DEF FileTypeOK
<1>5. FileTypeOK'
  BY <1>1, <1>2, <1>4, Fields DEF FileTypeOK
<1>6. LastOK'
  BY <1>1, <1>2, <1>4, Fields DEF LastOK, PusherUp
<1>7. FirstOK'
  BY <1>1, <1>2, <1>4, Fields DEF FirstOK, Unset, PusherUp, PullerUp
<1>8. FilesInOrder'
  BY <1>1, <1>2, <1>4, Fields DEF FilesInOrder
<1>9. AheadOK'
  BY <1>1, <1>2, <1>4, Fields DEF AheadOK, Ahead, FirstOK, Unset, PusherUp, PullerUp
<1>10. HandledInOrder'
  BY <1>1, <1>2, <1>4, Fields DEF HandledInOrder
<1>11. SkipInv'
  <2> SUFFICES ASSUME PusherWentWell'
               PROVE  NumbersOK' /\ PassedOK' /\ UnhandledKept'
    BY DEF SkipInv
  <2>1. NumbersOK /\ PassedOK /\ UnhandledKept
    BY <1>1, <1>4, Fields DEF SkipInv, PusherWentWell
  <2>2. NumbersOK'
    BY <1>2, <1>4, <2>1, Fields DEF NumbersOK, PusherUp
  <2>3. PassedOK'
    BY <1>2, <1>4, <2>1, Fields DEF PassedOK, Passed, Handled, PullerUp
  <2>4. UnhandledKept'
    BY <1>2, <1>4, <2>1, Fields DEF UnhandledKept, Handled
  <2>5. QED
    BY <2>2, <2>3, <2>4
<1>12. QED
  BY <1>5, <1>6, <1>7, <1>8, <1>9, <1>10, <1>11 DEF FileIInv, OrderInv

\* The invariant holds at first,
LEMMA FileQueueInit == FileInit => FileIInv
<1> SUFFICES ASSUME FileInit
             PROVE  FileIInv
  OBVIOUS
<1>1. /\ disk.first = 0 /\ disk.last = 0 /\ \A i \in Number : disk.msg[i] = NoFile
      /\ disk \in Disk
  BY DEF FileInit, Disk, Counter
<1>2. /\ pusher = Down /\ puller = Down /\ ~PusherUp /\ ~PullerUp
      /\ pushed = 0 /\ accepted = {} /\ handled = << >>
  BY DownIsDown DEF FileInit, PusherUp, PullerUp
<1>3. FileTypeOK
  <2>1. trouble \in [{"pusher", "puller", "failure"} -> Nat]
    BY DEF FileInit
  <2>2. pushed \in 0..MaxPushes /\ accepted \subseteq 1..pushed
    BY <1>2, FileQueueAssumption
  <2>3. handled \in Seq(Nat) /\ Len(handled) = 0
    BY <1>2
  <2>4. QED
    BY <1>1, <1>2, <2>1, <2>2, <2>3 DEF FileTypeOK
<1>4. LastOK /\ FirstOK
  BY <1>1, <1>2 DEF LastOK, FirstOK, Unset
<1>5. FilesInOrder /\ AheadOK /\ HandledInOrder
  BY <1>1, <1>2 DEF FilesInOrder, AheadOK, HandledInOrder
<1>6. SkipInv
  BY <1>1, <1>2 DEF SkipInv, NumbersOK, PassedOK, UnhandledKept
<1>7. QED
  BY <1>3, <1>4, <1>5, <1>6 DEF FileIInv, OrderInv

\* and every step preserves it.
LEMMA FileQueueStep == FileIInv /\ [FileNext]_fileVars => FileIInv'
<1> SUFFICES ASSUME FileIInv, [FileNext]_fileVars
             PROVE  FileIInv'
  OBVIOUS
<1>1. CASE OpenPusher
  BY <1>1, OpenPusherInv
<1>2. CASE PushMessage \/ PushMessageRaises \/ PushFails
  BY <1>2, PushMessageInv, PushMessageRaisesInv, PushFailsInv
<1>3. CASE PushSteps \/ PushCounterFails
  BY <1>3, TruncateLastInv, WriteLastInv, TruncateFirstInv, WriteFirstInv,
     PushCounterFailsInv DEF PushSteps
<1>4. CASE OpenPuller
  BY <1>4, OpenPullerInv
<1>5. CASE PullSteps \/ PullCounterFails
  BY <1>5, PeekRaisesInv, PeekMessageInv, TruncatePulledInv, WritePulledInv, RemovePulledInv,
     PullCounterFailsInv DEF PullSteps
<1>6. CASE CrashPusher \/ CrashPuller
  BY <1>6, CrashPusherInv, CrashPullerInv
<1>7. CASE UNCHANGED fileVars
  BY <1>7
     DEF fileVars, FileIInv, OrderInv, FileTypeOK, LastOK, FirstOK, FilesInOrder, AheadOK, Ahead,
         HandledInOrder, SkipInv, NumbersOK, PassedOK, Passed, UnhandledKept, Handled,
         PusherWentWell, PusherUp, PullerUp, Unset
<1>8. QED
  BY <1>1, <1>2, <1>3, <1>4, <1>5, <1>6, <1>7 DEF FileNext

\* The inductive invariant holds in every reachable state.
LEMMA FileQueueInv == FileSpec => []FileIInv
  BY FileQueueInit, FileQueueStep, PTL DEF FileSpec

\* Whatever fails and whoever is killed, and however often, messages are handled
\* in the order in which they were pushed (filequeue.lua:22-40).
THEOREM MessagesStayInOrder == FileSpec => []HandledInOrder
<1>1. FileIInv => HandledInOrder
  BY DEF FileIInv, OrderInv
<1>2. QED
  BY <1>1, FileQueueInv, PTL

\* However often the polling process is killed, no message that push() accepted
\* is skipped, unless the pusher was killed or a counter could not be written
\* (filequeue.lua:22-40).
THEOREM AcceptedAreKept == FileSpec => []NothingSkipped
<1>1. FileIInv => NothingSkipped
  <2> SUFFICES ASSUME FileIInv, PusherWentWell, NEW m \in accepted \ Handled
               PROVE  \E n \in Number : n >= Position /\ disk.msg[n] = m
    BY DEF NothingSkipped
  <2>1. FileTypeOK /\ PassedOK /\ UnhandledKept
    BY DEF FileIInv, OrderInv, SkipInv
  <2>2. m \in 1..pushed /\ m \in Number /\ m \in Int /\ m >= 1
    BY <2>1, Fields DEF FileTypeOK, Number
  <2>3. disk.msg[m] = m
    BY <2>1, <2>2 DEF UnhandledKept
  <2>4. ASSUME NEW i \in Int, i \in {0, Nothing} \/ Passed(i)
        PROVE  m >= i
    BY <2>2, <2>4 DEF Passed, Nothing
  <2>5. m >= Position
    <3>1. PullerUp => puller.first \in Int /\ m >= puller.first
      BY <2>1, <2>4, Fields DEF PassedOK
    <3>2. m >= disk.first
      BY <2>1, <2>4, Fields DEF PassedOK
    <3>3. QED
      BY <2>2, <3>1, <3>2 DEF Position, PullerUp
  <2>6. QED
    BY <2>2, <2>3, <2>5
<1>2. QED
  BY <1>1, FileQueueInv, PTL
================================================================================
