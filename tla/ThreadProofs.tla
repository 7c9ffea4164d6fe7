------------------------------ MODULE ThreadProofs ------------------------------
(***************************************************************************)
(* Proofs about ThreadPool, for any number of workers and any tasks, about *)
(* ThreadSharing, for any threads and any objects of any kinds, and about  *)
(* ThreadEvent, for any number of threads.                                 *)
(***************************************************************************)
EXTENDS ThreadPool, ThreadSharing, ThreadEvent, FiniteSetTheorems, TLAPS

Callers == Workers \cup {Client}
Ended == [at |-> "ended", task |-> NoTask]
Given(k) == [at |-> "running", task |-> k]
push_task(k) == [op |-> "push", val |-> k, timed |-> TRUE]
Pushed == [kind |-> "pushed", len |-> 1]
Removed(k) == [kind |-> "removed", val |-> k, len |-> 0]

\* The queue holds one task at most, and its calls are those that a pool makes.
QueueOK ==
    /\ items \in {<< >>} \cup {<<k>> : k \in Tasks}
    /\ phase \in [Callers -> {"idle", "called", "done"}]
    /\ DOMAIN call = Callers /\ DOMAIN result = Callers
    /\ \A t \in Callers :
        /\ phase[t] = "idle" => call[t] = Queue!NoCall
        /\ phase[t] # "done" => result[t] = Queue!NoResult
    /\ \A w \in Workers :
        /\ phase[w] # "idle" => call[w] = take_task
        /\ phase[w] = "done" => \E k \in Tasks : result[w] = Removed(k)
    /\ phase[Client] # "idle" => \E k \in tried \ accepted : call[Client] = push_task(k)
    /\ phase[Client] = "done" => result[Client] \in {Pushed, Queue!TimedOut}

PoolOK ==
    /\ DOMAIN worker = Workers
    /\ \A w \in Workers :
        /\ worker[w] \in {Waiting, Ended} \cup {Given(k) : k \in Tasks}
        /\ worker[w] # Waiting => phase[w] = "idle"
    /\ accepted \subseteq tried /\ tried \subseteq Tasks
    /\ runs \in [Tasks -> Nat]

\* the push of k has taken effect
TookEffect(k) ==
    \/ k \in accepted
    \/ phase[Client] = "done" /\ call[Client].val = k /\ result[Client] = Pushed

\* A task is in one place once its push took effect, and in none before.
PlacesExact == \A k \in Tasks : Places(k) = IF TookEffect(k) THEN 1 ELSE 0

IInv == QueueOK /\ PoolOK /\ PlacesExact

\* the workers that run k, and those that the queue has given k to
Runners(k) == {w \in Workers : worker[w] = Given(k)}
Takers(k) == {w \in Workers : result[w] = Removed(k)}

\* Any set of workers is finite.
LEMMA WorkersFinite ==
  ASSUME NEW S \in SUBSET Workers
  PROVE  IsFiniteSet(S) /\ Cardinality(S) \in Nat
<1>1. IsFiniteSet(Workers)
  BY PoolAssumption, FS_Interval DEF Workers
<1>2. IsFiniteSet(S)
  BY <1>1, FS_Subset
<1>3. QED
  BY <1>2, FS_CardinalityType

\* A worker that enters a set of workers, or leaves it, is one worker.
LEMMA OneWorker ==
  ASSUME NEW S \in SUBSET Workers, NEW w \in Workers, w \notin S
  PROVE  Cardinality(S \cup {w}) = Cardinality(S) + 1
  BY WorkersFinite, FS_AddElement

\* Where a task is, in terms of what each worker and the queue have.
PlacesCounted ==
    \A k \in Tasks :
        Places(k) = Cardinality(Runners(k)) + Cardinality(Takers(k))
                        + (IF items = <<k>> THEN 1 ELSE 0) + runs[k]

\* Counting the workers by what they have gives the places of a task.
LEMMA PlacesAreCounted == QueueOK /\ PoolOK => PlacesCounted
<1> SUFFICES ASSUME QueueOK, PoolOK, NEW k \in Tasks
             PROVE  Places(k) = Cardinality(Runners(k)) + Cardinality(Takers(k))
                                    + (IF items = <<k>> THEN 1 ELSE 0) + runs[k]
  BY DEF PlacesCounted
<1>1. {w \in Workers : k \in Held(w)} = {w \in Workers : worker[w] = Given(k)}
  BY DEF PoolOK, Held, Given, Waiting, Ended
<1>2. {w \in Workers : k \in InHand(w)} = {w \in Workers : result[w] = Removed(k)}
  <2>1. ASSUME NEW w \in Workers
        PROVE  k \in InHand(w) <=> result[w] = Removed(k)
    <3>1. CASE phase[w] = "done"
      <4>1. PICK m \in Tasks : result[w] = Removed(m)
        BY <3>1 DEF QueueOK
      <4>2. InHand(w) = {m}
        BY <4>1 DEF InHand, Removed
      <4>3. Removed(m) = Removed(k) <=> m = k
        BY DEF Removed
      <4>4. QED
        BY <4>1, <4>2, <4>3
    <3>2. CASE phase[w] # "done"
      BY <3>2 DEF QueueOK, InHand, Removed, Queue!NoResult, Callers
    <3>3. QED
      BY <3>1, <3>2
  <2>2. QED
    BY <2>1
<1>3. Cardinality({j \in DOMAIN items : items[j] = k}) = IF items = <<k>> THEN 1 ELSE 0
  <2>1. CASE items = <<k>>
    <3>1. {j \in DOMAIN items : items[j] = k} = {1}
      BY <2>1
    <3>2. QED
      BY <2>1, <3>1, FS_Singleton
  <2>2. CASE items # <<k>>
    <3>1. \A j \in DOMAIN items : items[j] # k
      <4>1. CASE items = << >>
        BY <4>1
      <4>2. ASSUME NEW m \in Tasks, items = <<m>>
            PROVE  \A j \in DOMAIN items : items[j] # k
        <5>1. DOMAIN items = {1} /\ items[1] = m /\ m # k
          BY <2>2, <4>2
        <5>2. QED
          BY <5>1
      <4>3. QED
        BY <4>1, <4>2 DEF QueueOK
    <3>2. {j \in DOMAIN items : items[j] = k} = {}
      BY <3>1
    <3>3. QED
      BY <2>2, <3>2, FS_EmptySet
  <2>3. QED
    BY <2>1, <2>2
<1>4. QED
  BY <1>1, <1>2, <1>3 DEF Places, Runners, Takers

\* The same of the next state.
LEMMA PlacesPrimed == (QueueOK /\ PoolOK)' => PlacesCounted'
  BY PlacesAreCounted, PTL

\* The queue of a pool takes the client's task when it is empty, gives the task
\* it has to a worker, or lets the client's push expire; nothing else happens in it.
QueuePush(k) ==
    /\ phase[Client] = "called" /\ call[Client] = push_task(k)
    /\ items = << >> /\ items' = <<k>>
    /\ phase' = [phase EXCEPT ![Client] = "done"]
    /\ result' = [result EXCEPT ![Client] = Pushed]
QueueShift(w, k) ==
    /\ phase[w] = "called"
    /\ items = <<k>> /\ items' = << >>
    /\ phase' = [phase EXCEPT ![w] = "done"]
    /\ result' = [result EXCEPT ![w] = Removed(k)]
QueueExpire ==
    /\ phase[Client] = "called"
    /\ phase' = [phase EXCEPT ![Client] = "done"]
    /\ result' = [result EXCEPT ![Client] = Queue!TimedOut]
    /\ items' = items

\* A step of the queue is one of these three (thread.lua:214-251).
LEMMA QueueSteps ==
  ASSUME QueueOK, PoolOK, QueueStep
  PROVE  /\ \/ \E k \in tried \ accepted : QueuePush(k)
            \/ \E w \in Workers, k \in Tasks : QueueShift(w, k)
            \/ QueueExpire
         /\ UNCHANGED <<call, worker, client, tried, accepted, runs>>
<1>1. PICK t \in Callers : Queue!Push(t) \/ Queue!Remove(t) \/ Queue!Expire(t)
  BY DEF QueueStep, Callers
<1>2. phase[t] = "called" /\ call' = call
  BY <1>1 DEF Queue!Push, Queue!Remove, Queue!Expire, Queue!Finish
<1>3. t # Client => t \in Workers /\ call[t] = take_task
  BY <1>2 DEF QueueOK, Callers
<1>4. t = Client => \E k \in tried \ accepted : call[Client] = push_task(k)
  BY <1>2 DEF QueueOK
<1>5. CASE Queue!Push(t)
  <2>1. t = Client
    BY <1>3, <1>5 DEF Queue!Push, take_task
  <2>2. PICK k \in tried \ accepted : call[Client] = push_task(k)
    BY <1>4, <2>1
  <2>3. items = << >>
    BY <1>5 DEF Queue!Push, Queue!IsFull, QueueOK
  <2>4. items' = <<k>>
    BY <1>5, <2>1, <2>2, <2>3 DEF Queue!Push, push_task
  <2>5. QueuePush(k)
    BY <1>2, <1>5, <2>1, <2>2, <2>3, <2>4 DEF QueuePush, Queue!Push, Queue!Finish, Pushed
  <2>6. QED
    BY <1>2, <2>5 DEF QueueStep
<1>6. CASE Queue!Remove(t)
  <2>1. t # Client
    <3>1. \A k : push_task(k).op = "push"
      BY DEF push_task
    <3>2. call[t].op \in {"pop", "shift"}
      BY <1>6 DEF Queue!Remove
    <3>3. QED
      BY <1>4, <3>1, <3>2
  <2>2. PICK k \in Tasks : items = <<k>>
    BY <1>6 DEF Queue!Remove, Queue!IsEmpty, QueueOK
  <2>3. items' = << >> /\ result' = [result EXCEPT ![t] = Removed(k)]
    <3>1. Len(items) = 1 /\ items[1] = k
      BY <2>2
    <3>2. PICK i \in 1..Len(items) :
             /\ items' = Queue!Without(i)
             /\ \E v \in Queue!Copies(i) :
                  Queue!Finish(t, [kind |-> "removed", val |-> v, len |-> Len(items')])
      BY <1>6 DEF Queue!Remove
    <3>3. i = 1 /\ Queue!Copies(i) = {items[i]}
      BY <3>1 DEF Queue!Copies
    <3>4. SubSeq(items, 1, 0) = << >> /\ SubSeq(items, 2, 1) = << >>
      BY <2>2
    <3>5. items' = << >>
      BY <3>1, <3>2, <3>3, <3>4 DEF Queue!Without
    <3>6. QED
      BY <3>1, <3>2, <3>3, <3>5 DEF Queue!Finish, Removed
  <2>4. QueueShift(t, k)
    BY <1>2, <1>6, <2>2, <2>3 DEF QueueShift, Queue!Remove, Queue!Finish
  <2>5. QED
    BY <1>2, <1>3, <2>1, <2>4 DEF QueueStep
<1>7. CASE Queue!Expire(t)
  <2>1. t = Client
    BY <1>3, <1>7 DEF Queue!Expire, Queue!Timed, take_task
  <2>2. QED
    BY <1>2, <1>7, <2>1 DEF QueueExpire, Queue!Expire, Queue!Finish, QueueStep
<1>8. QED
  BY <1>1, <1>5, <1>6, <1>7

\* The steps of the queue preserve the states that the calls, the queue and the
\* workers can be in;
LEMMA QueueStepOK ==
  ASSUME QueueOK, PoolOK, QueueStep
  PROVE  (QueueOK /\ PoolOK)'
<1>1. UNCHANGED <<call, worker, client, tried, accepted, runs>>
  BY QueueSteps
<1>2. ASSUME NEW k \in tried \ accepted, QueuePush(k)
      PROVE  (QueueOK /\ PoolOK)'
  <2>1. QueueOK'
    BY <1>1, <1>2, PoolAssumption DEF QueuePush, QueueOK, PoolOK, Callers
  <2>2. PoolOK'
    BY <1>1, <1>2, PoolAssumption DEF QueuePush, QueueOK, PoolOK, Callers
  <2>3. QED
    BY <2>1, <2>2
<1>3. ASSUME NEW w \in Workers, NEW k \in Tasks, QueueShift(w, k)
      PROVE  (QueueOK /\ PoolOK)'
  <2>1. QueueOK'
    BY <1>1, <1>3, PoolAssumption DEF QueueShift, QueueOK, PoolOK, Callers
  <2>2. PoolOK'
    BY <1>1, <1>3, PoolAssumption DEF QueueShift, QueueOK, PoolOK, Callers
  <2>3. QED
    BY <2>1, <2>2
<1>4. ASSUME QueueExpire
      PROVE  (QueueOK /\ PoolOK)'
  <2>1. QueueOK'
    BY <1>1, <1>4, PoolAssumption DEF QueueExpire, QueueOK, PoolOK, Callers
  <2>2. PoolOK'
    BY <1>1, <1>4, PoolAssumption DEF QueueExpire, QueueOK, PoolOK, Callers
  <2>3. QED
    BY <2>1, <2>2
<1>5. QED
  BY QueueSteps, <1>2, <1>3, <1>4

\* What a worker's and the client's steps do to the calls and the tasks.
LEMMA ShiftEffect ==
  ASSUME QueueOK, PoolOK, NEW w \in Workers, Shift(w)
  PROVE  /\ phase[w] = "idle" /\ phase' = [phase EXCEPT ![w] = "called"]
         /\ call' = [call EXCEPT ![w] = take_task]
         /\ worker[w] = Waiting
         /\ UNCHANGED <<items, result, worker, client, tried, accepted, runs>>
<1>1. PICK c : call' = [call EXCEPT ![w] = c]
  BY DEF Shift, Queue!Invoke
<1>2. c = take_task
  BY <1>1 DEF Shift, QueueOK, Callers
<1>3. worker[w] = Waiting
  BY DEF Shift, PoolOK, Waiting, Ended, Given
<1>4. QED
  BY <1>1, <1>2, <1>3 DEF Shift, Queue!Invoke

\* a worker gets a task out of the queue
LEMMA TakeEffect ==
  ASSUME QueueOK, PoolOK, NEW w \in Workers, TakeTask(w)
  PROVE  \E k \in Tasks :
            /\ result[w] = Removed(k) /\ worker[w] = Waiting
            /\ phase[w] = "done" /\ phase' = [phase EXCEPT ![w] = "idle"]
            /\ call' = [call EXCEPT ![w] = Queue!NoCall]
            /\ result' = [result EXCEPT ![w] = Queue!NoResult]
            /\ worker' = [worker EXCEPT ![w] = Given(k)]
            /\ UNCHANGED <<items, client, tried, accepted, runs>>
<1>1. PICK k \in Tasks : result[w] = Removed(k)
  BY DEF TakeTask, Queue!Return, QueueOK
<1>2. worker[w] = Waiting
  BY DEF TakeTask, PoolOK, Waiting, Ended, Given
<1>3. /\ phase[w] = "done" /\ phase' = [phase EXCEPT ![w] = "idle"]
      /\ call' = [call EXCEPT ![w] = Queue!NoCall]
      /\ result' = [result EXCEPT ![w] = Queue!NoResult]
      /\ worker' = [worker EXCEPT ![w] = Given(k)]
      /\ UNCHANGED <<items, client, tried, accepted, runs>>
  BY <1>1 DEF TakeTask, Queue!Return, Removed, Given
<1>4. QED
  BY <1>1, <1>2, <1>3

\* a worker runs its task, and ends if the task raises an error
LEMMA RunEffect ==
  ASSUME QueueOK, PoolOK, NEW w \in Workers, RunTask(w)
  PROVE  \E k \in Tasks :
            /\ worker[w] = Given(k) /\ phase[w] = "idle"
            /\ runs' = [runs EXCEPT ![k] = @ + 1]
            /\ worker' = [worker EXCEPT ![w] = IF k \in Failing THEN Ended ELSE Waiting]
            /\ UNCHANGED <<items, phase, call, result, client, tried, accepted>>
<1>1. PICK k \in Tasks : worker[w] = Given(k)
  BY DEF RunTask, PoolOK, Waiting, Ended, Given
<1>2. phase[w] = "idle"
  BY <1>1 DEF PoolOK, Given, Waiting
<1>3. /\ runs' = [runs EXCEPT ![k] = @ + 1]
      /\ worker' = [worker EXCEPT ![w] = IF k \in Failing THEN Ended ELSE Waiting]
      /\ UNCHANGED <<items, phase, call, result, client, tried, accepted>>
  BY <1>1 DEF RunTask, Given, Ended
<1>4. QED
  BY <1>1, <1>2, <1>3

\* the client begins to push a task
LEMMA PushEffect ==
  ASSUME QueueOK, PoolOK, NEW k \in Tasks, PushTask(k)
  PROVE  /\ phase[Client] = "idle" /\ phase' = [phase EXCEPT ![Client] = "called"]
         /\ call' = [call EXCEPT ![Client] = push_task(k)]
         /\ tried' = tried \cup {k} /\ k \notin tried
         /\ UNCHANGED <<items, result, worker, client, accepted, runs>>
<1>1. PICK c : call' = [call EXCEPT ![Client] = c]
  BY DEF PushTask, Queue!Invoke
<1>2. c = push_task(k)
  BY <1>1 DEF PushTask, QueueOK, push_task, Callers
<1>3. QED
  BY <1>1, <1>2 DEF PushTask, Queue!Invoke

\* the push returns, with the task in the queue or timed out
LEMMA ReturnEffect ==
  ASSUME QueueOK, PoolOK, PushReturns
  PROVE  \E k \in tried \ accepted :
            /\ call[Client] = push_task(k)
            /\ phase[Client] = "done" /\ phase' = [phase EXCEPT ![Client] = "idle"]
            /\ call' = [call EXCEPT ![Client] = Queue!NoCall]
            /\ result' = [result EXCEPT ![Client] = Queue!NoResult]
            /\ accepted' = IF result[Client] = Pushed THEN accepted \cup {k} ELSE accepted
            /\ UNCHANGED <<items, worker, client, tried, runs>>
<1>1. /\ phase[Client] = "done" /\ phase' = [phase EXCEPT ![Client] = "idle"]
      /\ call' = [call EXCEPT ![Client] = Queue!NoCall]
      /\ result' = [result EXCEPT ![Client] = Queue!NoResult]
      /\ UNCHANGED <<items, worker, client, tried, runs>>
  BY DEF PushReturns, Queue!Return
<1>2. PICK k \in tried \ accepted : call[Client] = push_task(k)
  BY <1>1 DEF QueueOK
<1>3. result[Client].kind = "pushed" <=> result[Client] = Pushed
  BY <1>1 DEF QueueOK, Pushed, Queue!TimedOut
<1>4. accepted' = IF result[Client] = Pushed THEN accepted \cup {k} ELSE accepted
  BY <1>2, <1>3 DEF PushReturns, push_task
<1>5. QED
  BY <1>1, <1>2, <1>4

\* so do those of a worker
LEMMA WorkerStepOK ==
  ASSUME QueueOK, PoolOK, NEW w \in Workers, Shift(w) \/ TakeTask(w) \/ RunTask(w)
  PROVE  (QueueOK /\ PoolOK)'
<1> USE PoolAssumption DEF Callers, QueueOK, PoolOK
<1>1. CASE Shift(w)
  <2>1. QueueOK'
    BY <1>1, ShiftEffect
  <2>2. PoolOK'
    BY <1>1, ShiftEffect
  <2>3. QED
    BY <2>1, <2>2
<1>2. CASE TakeTask(w)
  <2>1. QueueOK'
    BY <1>2, TakeEffect
  <2>2. PoolOK'
    BY <1>2, TakeEffect
  <2>3. QED
    BY <2>1, <2>2
<1>3. CASE RunTask(w)
  <2>1. QueueOK'
    BY <1>3, RunEffect
  <2>2. PoolOK'
    BY <1>3, RunEffect
  <2>3. QED
    BY <2>1, <2>2
<1>4. QED
  BY <1>1, <1>2, <1>3

\* and those of the client.
LEMMA ClientStepOK ==
  ASSUME QueueOK, PoolOK,
         (\E k \in Tasks : PushTask(k)) \/ PushReturns \/ BeginJoin \/ JoinRaises
  PROVE  (QueueOK /\ PoolOK)'
<1> USE PoolAssumption DEF Callers, QueueOK, PoolOK
<1>1. ASSUME NEW k \in Tasks, PushTask(k)
      PROVE  (QueueOK /\ PoolOK)'
  <2>1. QueueOK'
    BY <1>1, PushEffect
  <2>2. PoolOK'
    BY <1>1, PushEffect
  <2>3. QED
    BY <2>1, <2>2
<1>2. CASE PushReturns
  <2>1. QueueOK'
    BY <1>2, ReturnEffect
  <2>2. PoolOK'
    BY <1>2, ReturnEffect
  <2>3. QED
    BY <2>1, <2>2
<1>3. CASE BeginJoin \/ JoinRaises
  BY <1>3 DEF BeginJoin, JoinRaises, queueVars
<1>4. QED
  BY <1>1, <1>2, <1>3

\* Every step preserves what the queue, its calls and the workers can be.
LEMMA TypeStep == QueueOK /\ PoolOK /\ [Next]_vars => (QueueOK /\ PoolOK)'
<1> SUFFICES ASSUME QueueOK, PoolOK, [Next]_vars
             PROVE  (QueueOK /\ PoolOK)'
  OBVIOUS
<1>1. CASE UNCHANGED vars
  BY <1>1 DEF vars, QueueOK, PoolOK
<1>2. QED
  BY <1>1, QueueStepOK, WorkerStepOK, ClientStepOK DEF Next

\* Every step takes a task from one place to the next, and only the queue's
\* taking it brings it to its first place.
LEMMA PlacesStep == IInv /\ [Next]_vars => PlacesExact'
<1> SUFFICES ASSUME IInv, [Next]_vars, NEW k \in Tasks
             PROVE  Places(k)' = IF TookEffect(k)' THEN 1 ELSE 0
  BY DEF PlacesExact
<1> DEFINE At(q) == IF q = <<k>> THEN 1 ELSE 0
           Placed == Places(k)' = IF TookEffect(k)' THEN 1 ELSE 0
<1>1. QueueOK /\ PoolOK /\ (QueueOK /\ PoolOK)'
  BY TypeStep DEF IInv
<1>2. Places(k) = Cardinality(Runners(k)) + Cardinality(Takers(k)) + At(items) + runs[k]
  BY <1>1, PlacesAreCounted DEF PlacesCounted
<1>3. Places(k)' = Cardinality(Runners(k)') + Cardinality(Takers(k)') + At(items') + runs'[k]
  BY <1>1, PlacesPrimed DEF PlacesCounted
<1>4. Places(k) = IF TookEffect(k) THEN 1 ELSE 0
  BY DEF IInv, PlacesExact
<1>5. /\ Runners(k) \in SUBSET Workers /\ Runners(k)' \in SUBSET Workers
      /\ Takers(k) \in SUBSET Workers /\ Takers(k)' \in SUBSET Workers
  BY DEF Runners, Takers
<1>6. /\ Cardinality(Runners(k)) \in Nat /\ Cardinality(Runners(k)') \in Nat
      /\ Cardinality(Takers(k)) \in Nat /\ Cardinality(Takers(k)') \in Nat
      /\ runs[k] \in Nat
  BY <1>1, <1>5, WorkersFinite DEF PoolOK
<1>7. Client \notin Workers /\ \A m : push_task(m).val = m
  BY PoolAssumption DEF push_task
<1>8. /\ \A m : Given(m) = Given(k) <=> m = k
      /\ \A m : Removed(m) = Removed(k) <=> m = k
      /\ Waiting # Given(k) /\ Ended # Given(k) /\ Queue!NoResult # Removed(k)
      /\ Queue!TimedOut # Pushed
  BY DEF Given, Removed, Waiting, Ended, Queue!NoResult, Queue!TimedOut, Pushed
<1>9. CASE QueueStep
  <2>1. UNCHANGED <<call, worker, client, tried, accepted, runs>> /\ Runners(k)' = Runners(k)
    BY <1>1, <1>9, QueueSteps DEF Runners
  <2>2. ASSUME NEW m \in tried \ accepted, QueuePush(m)
        PROVE  Placed
    <3>1. TookEffect(k) <=> k \in accepted
      BY <2>2 DEF TookEffect, QueuePush
    <3>2. TookEffect(k)' <=> k \in accepted \/ k = m
      BY <1>1, <1>7, <2>1, <2>2 DEF TookEffect, QueuePush, QueueOK, Callers
    <3>3. Takers(k)' = Takers(k)
      BY <1>7, <2>2 DEF QueuePush, Takers
    <3>4. At(items) = 0 /\ At(items') = IF k = m THEN 1 ELSE 0
      BY <2>2 DEF QueuePush
    <3>5. QED
      BY <1>2, <1>3, <1>4, <1>6, <2>1, <3>1, <3>2, <3>3, <3>4
  <2>3. ASSUME NEW w \in Workers, NEW m \in Tasks, QueueShift(w, m)
        PROVE  Placed
    <3>1. TookEffect(k)' <=> TookEffect(k)
      BY <1>1, <1>7, <2>1, <2>3 DEF TookEffect, QueueShift, QueueOK, Callers
    <3>2. /\ w \notin Takers(k)
          /\ Takers(k)' = IF k = m THEN Takers(k) \cup {w} ELSE Takers(k)
      BY <1>1, <1>8, <2>3 DEF QueueShift, QueueOK, Callers, Takers
    <3>3. Cardinality(Takers(k)') = Cardinality(Takers(k)) + (IF k = m THEN 1 ELSE 0)
      BY <1>5, <1>6, <3>2, OneWorker
    <3>4. At(items') = 0 /\ At(items) = IF k = m THEN 1 ELSE 0
      BY <2>3 DEF QueueShift
    <3>5. QED
      BY <1>2, <1>3, <1>4, <1>6, <2>1, <3>1, <3>3, <3>4
  <2>4. CASE QueueExpire
    <3>1. TookEffect(k)' <=> TookEffect(k)
      BY <1>1, <1>8, <2>1, <2>4 DEF TookEffect, QueueExpire, QueueOK, Callers
    <3>2. Takers(k)' = Takers(k) /\ items' = items
      BY <1>7, <2>4 DEF QueueExpire, Takers
    <3>3. QED
      BY <1>2, <1>3, <1>4, <2>1, <3>1, <3>2
  <2>5. QED
    BY <1>1, <1>9, <2>2, <2>3, <2>4, QueueSteps
<1>10. ASSUME NEW w \in Workers, Shift(w)
       PROVE  Placed
  <2>1. TookEffect(k)' <=> TookEffect(k)
    BY <1>1, <1>7, <1>10, ShiftEffect DEF TookEffect, QueueOK, Callers
  <2>2. UNCHANGED <<items, result, worker, runs>>
    BY <1>1, <1>10, ShiftEffect
  <2>3. QED
    BY <1>2, <1>3, <1>4, <2>1, <2>2 DEF Runners, Takers
<1>11. ASSUME NEW w \in Workers, TakeTask(w)
       PROVE  Placed
  <2>1. PICK m \in Tasks :
            /\ result[w] = Removed(m) /\ worker[w] = Waiting
            /\ phase' = [phase EXCEPT ![w] = "idle"]
            /\ call' = [call EXCEPT ![w] = Queue!NoCall]
            /\ result' = [result EXCEPT ![w] = Queue!NoResult]
            /\ worker' = [worker EXCEPT ![w] = Given(m)]
            /\ UNCHANGED <<items, client, tried, accepted, runs>>
    BY <1>1, <1>11, TakeEffect
  <2>2. TookEffect(k)' <=> TookEffect(k)
    BY <1>1, <1>7, <2>1 DEF TookEffect, QueueOK, Callers
  <2>3. /\ w \notin Runners(k)
        /\ Runners(k)' = IF k = m THEN Runners(k) \cup {w} ELSE Runners(k)
    BY <1>1, <1>8, <2>1 DEF PoolOK, Runners
  <2>4. /\ w \notin Takers(k)'
        /\ Takers(k) = IF k = m THEN Takers(k)' \cup {w} ELSE Takers(k)'
    BY <1>1, <1>8, <2>1 DEF QueueOK, Callers, Takers
  <2>5. Cardinality(Runners(k)') = Cardinality(Runners(k)) + (IF k = m THEN 1 ELSE 0)
    BY <1>5, <1>6, <2>3, OneWorker
  <2>6. Cardinality(Takers(k)) = Cardinality(Takers(k)') + (IF k = m THEN 1 ELSE 0)
    BY <1>5, <1>6, <2>4, OneWorker
  <2>7. At(items') = At(items) /\ runs'[k] = runs[k]
    BY <2>1
  <2>8. Places(k)' = Places(k)
    BY <1>2, <1>3, <1>6, <2>5, <2>6, <2>7
  <2>9. QED
    BY <1>4, <2>2, <2>8
<1>12. ASSUME NEW w \in Workers, RunTask(w)
       PROVE  Placed
  <2>1. PICK m \in Tasks :
            /\ worker[w] = Given(m)
            /\ runs' = [runs EXCEPT ![m] = @ + 1]
            /\ worker' = [worker EXCEPT ![w] = IF m \in Failing THEN Ended ELSE Waiting]
            /\ UNCHANGED <<items, phase, call, result, client, tried, accepted>>
    BY <1>1, <1>12, RunEffect
  <2>2. TookEffect(k)' <=> TookEffect(k)
    BY <2>1 DEF TookEffect
  <2>3. /\ w \notin Runners(k)'
        /\ Runners(k) = IF k = m THEN Runners(k)' \cup {w} ELSE Runners(k)'
    BY <1>1, <1>8, <2>1 DEF PoolOK, Runners
  <2>4. Cardinality(Runners(k)) = Cardinality(Runners(k)') + (IF k = m THEN 1 ELSE 0)
    BY <1>5, <1>6, <2>3, OneWorker
  <2>5. runs'[k] = runs[k] + (IF k = m THEN 1 ELSE 0)
    BY <1>1, <2>1 DEF PoolOK
  <2>6. Takers(k)' = Takers(k) /\ At(items') = At(items)
    BY <2>1 DEF Takers
  <2>7. Places(k)' = Places(k)
    BY <1>2, <1>3, <1>6, <2>4, <2>5, <2>6
  <2>8. QED
    BY <1>4, <2>2, <2>7
<1>13. ASSUME NEW m \in Tasks, PushTask(m)
       PROVE  Placed
  <2>1. TookEffect(k)' <=> TookEffect(k)
    BY <1>1, <1>13, PushEffect DEF TookEffect, QueueOK, Callers
  <2>2. UNCHANGED <<items, result, worker, runs>>
    BY <1>1, <1>13, PushEffect
  <2>3. QED
    BY <1>2, <1>3, <1>4, <2>1, <2>2 DEF Runners, Takers
<1>14. CASE PushReturns
  <2>1. PICK m \in tried \ accepted :
            /\ call[Client] = push_task(m)
            /\ phase[Client] = "done" /\ phase' = [phase EXCEPT ![Client] = "idle"]
            /\ result' = [result EXCEPT ![Client] = Queue!NoResult]
            /\ accepted' = IF result[Client] = Pushed THEN accepted \cup {m} ELSE accepted
            /\ UNCHANGED <<items, worker, client, tried, runs>>
    BY <1>1, <1>14, ReturnEffect
  <2>2. TookEffect(k)' <=> k \in accepted'
    BY <1>1, <2>1 DEF TookEffect, QueueOK, Callers
  <2>3. TookEffect(k) <=> k \in accepted'
    BY <1>7, <2>1 DEF TookEffect
  <2>4. Takers(k)' = Takers(k) /\ Runners(k)' = Runners(k)
    BY <1>7, <2>1 DEF Takers, Runners
  <2>5. QED
    BY <1>2, <1>3, <1>4, <2>1, <2>2, <2>3, <2>4
<1>15. CASE BeginJoin \/ JoinRaises \/ UNCHANGED vars
  <2>1. UNCHANGED <<items, phase, call, result, worker, tried, accepted, runs>>
    BY <1>15 DEF BeginJoin, JoinRaises, queueVars, vars
  <2>2. TookEffect(k)' <=> TookEffect(k)
    BY <2>1 DEF TookEffect
  <2>3. QED
    BY <1>2, <1>3, <1>4, <2>1, <2>2 DEF Runners, Takers
<1>16. QED
  BY <1>9, <1>10, <1>11, <1>12, <1>13, <1>14, <1>15 DEF Next

\* At first no task is anywhere.
LEMMA PoolInit == Init => IInv
<1> SUFFICES ASSUME Init
             PROVE  IInv
  OBVIOUS
<1>1. QueueOK
  BY PoolAssumption DEF Init, Queue!Init, QueueOK, Callers
<1>2. PoolOK
  BY DEF Init, PoolOK
<1>3. PlacesExact
  <2> SUFFICES ASSUME NEW k \in Tasks
               PROVE  Places(k) = 0 /\ ~TookEffect(k)
    BY DEF PlacesExact
  <2>1. ~TookEffect(k)
    BY DEF Init, Queue!Init, TookEffect
  <2>2. Runners(k) = {} /\ Takers(k) = {}
    BY DEF Runners, Takers, Init, Queue!Init, Given, Removed, Waiting, Queue!NoResult
  <2>3. Cardinality(Runners(k)) = 0 /\ Cardinality(Takers(k)) = 0
    BY <2>2, FS_EmptySet
  <2>4. items # <<k>> /\ runs[k] = 0
    BY DEF Init, Queue!Init
  <2>5. Places(k) = 0
    BY <1>1, <1>2, <2>3, <2>4, PlacesAreCounted DEF PlacesCounted
  <2>6. QED
    BY <2>1, <2>5
<1>4. QED
  BY <1>1, <1>2, <1>3 DEF IInv

\* In every reachable state a task whose push took effect is in one place: in the
\* queue, on its way to a worker, with a worker, or run once; any other is nowhere
\* (thread.lua:214-251, 397-426).
THEOREM TasksStayInOnePlace == Spec => []IInv
<1>1. IInv /\ [Next]_vars => IInv'
  BY TypeStep, PlacesStep DEF IInv
<1>2. QED
  BY PoolInit, <1>1, PTL DEF Spec

\* However many workers there are, whichever tasks raise and whatever expires, a
\* task that pool:push() accepted is in one place and none is run twice
\* (thread.lua:397-426).
THEOREM NoTaskIsLost == Spec => []NoTaskLost
<1>1. IInv => NoTaskLost
  BY DEF IInv, PoolOK, PlacesExact, TookEffect, NoTaskLost
<1>2. QED
  BY TasksStayInOnePlace, <1>1, PTL

\* A task whose push timed out is nowhere: it never runs (thread.lua:216-221, 424-426).
THEOREM TimedOutTasksNeverRun == Spec => []TimedOutNeverRuns
<1>1. Queue!TimedOut # Pushed
  BY DEF Queue!TimedOut, Pushed
<1>2. IInv => TimedOutNeverRuns
  BY <1>1 DEF IInv, PoolOK, PlacesExact, TookEffect, TimedOutNeverRuns
<1>3. QED
  BY TasksStayInOnePlace, <1>2, PTL
-------------------------------------------------------------------------------
\* A value with a finalizer is one that a state made, of an object that is not
\* destroyed,
CellsOK ==
    \A c \in cells : \E o \in Objects :
        /\ c = <<maker[o], o, "made">>
        /\ maker[o] # Nobody
        /\ destroyed[o] = 0

\* and what a state refers to of what it made has its finalizer still.
MadeOK == \A r \in refs : r.by = "made" => <<r.in, r.to, "made">> \in cells

SharingInv ==
    /\ DOMAIN maker = Objects
    /\ destroyed \in [Objects -> Nat]
    /\ \A o \in Objects : maker[o] = Nobody => destroyed[o] = 0
    /\ CellsOK
    /\ MadeOK
    /\ DestroyedOnce

\* The objects are nowhere, and no thread runs.
LEMMA SharingStart == SharingInit => SharingInv
BY DEF SharingInit, SharingInv, CellsOK, MadeOK, DestroyedOnce

\* What is decoded is not what was made, and has no finalizer (thread.lua:32-34).
LEMMA DecodedOwnNothing ==
    ASSUME NEW s, NEW rs
    PROVE  /\ \A r \in decoded(s, rs) : r.by = "decoded"
           /\ DecodedCells(decoded(s, rs)) = {}
BY DEF decoded, DecodedCells

\* Every step leaves the destruction of an object to the state that made it.
LEMMA SharingStep == SharingInv /\ [SharingNext]_sharingVars => SharingInv'
<1> SUFFICES ASSUME SharingInv, [SharingNext]_sharingVars
             PROVE  SharingInv'
  OBVIOUS
<1> USE DEF SharingInv
<1>1. CASE UNCHANGED sharingVars
  BY <1>1 DEF sharingVars, CellsOK, MadeOK, DestroyedOnce
<1>2. ASSUME NEW s \in States, NEW o \in Objects, Make(s, o)
      PROVE  SharingInv'
  <2>1. s # Nobody
    BY SharingAssumption
  <2>2. \A p \in Objects : maker[p] # Nobody => maker'[p] = maker[p]
    BY <1>2 DEF Make
  <2>3. CellsOK'
    BY <1>2, <2>1, <2>2 DEF Make, CellsOK
  <2>4. MadeOK'
    BY <1>2 DEF Make, MadeOK, made
  <2>5. QED
    BY <1>2, <2>1, <2>3, <2>4 DEF Make, DestroyedOnce
<1>3. ASSUME NEW r \in refs, Forget(r)
      PROVE  SharingInv'
  BY <1>3 DEF Forget, CellsOK, MadeOK, DestroyedOnce
<1>4. ASSUME NEW s \in States, NEW o \in Objects, NEW by \in {"made", "decoded"},
             Collect(s, o, by)
      PROVE  SharingInv'
  <2>1. by = "made" /\ s = maker[o] /\ maker[o] # Nobody /\ destroyed[o] = 0
    BY <1>4 DEF Collect, CellsOK
  <2>2. destroyed' = [destroyed EXCEPT ![o] = 1]
    BY <1>4, <2>1 DEF Collect
  <2>3. CellsOK'
    BY <1>4, <2>1, <2>2 DEF Collect, CellsOK
  <2>4. MadeOK'
    BY <1>4, <2>1 DEF Collect, MadeOK, Reachable
  <2>5. QED
    BY <1>4, <2>1, <2>2, <2>3, <2>4 DEF Collect, DestroyedOnce
<1>5. ASSUME NEW s \in States, NEW t \in Threads, NEW rs \in SUBSET In(s), Start(s, t, rs)
      PROVE  SharingInv'
  BY <1>5, DecodedOwnNothing DEF Start, CellsOK, MadeOK, DestroyedOnce
<1>6. ASSUME NEW t \in Threads, NEW rs \in SUBSET In(t), End(t, rs)
      PROVE  SharingInv'
  BY <1>6 DEF End, CellsOK, MadeOK, DestroyedOnce
<1>7. ASSUME NEW s \in States, NEW t \in Threads, Join(s, t)
      PROVE  SharingInv'
  <2> DEFINE closed == {c \in cells : c[1] = t}
             got == decoded(s, thread[t].ret)
  <2>1. /\ cells' = cells \ closed
        /\ refs' = (refs \ In(t)) \cup got
        /\ maker' = maker
        /\ destroyed' = [o \in Objects |-> destroyed[o] + Cardinality({c \in closed : c[2] = o})]
    BY <1>7, DecodedOwnNothing DEF Join
  <2>2. ASSUME NEW o \in Objects
        PROVE  \/ destroyed'[o] = destroyed[o]
               \/ destroyed'[o] = 1 /\ maker[o] = t
    <3>1. CASE {c \in closed : c[2] = o} = {}
      BY <2>1, <3>1, FS_EmptySet
    <3>2. CASE {c \in closed : c[2] = o} # {}
      <4>1. {c \in closed : c[2] = o} = {<<t, o, "made">>} /\ maker[o] = t /\ destroyed[o] = 0
        BY <3>2 DEF CellsOK
      <4>2. Cardinality({<<t, o, "made">>}) = 1
        BY FS_Singleton
      <4>3. QED
        BY <2>1, <4>1, <4>2
    <3>3. QED
      BY <3>1, <3>2
  <2>3. destroyed' \in [Objects -> Nat] /\ DestroyedOnce'
    BY <2>1, <2>2 DEF DestroyedOnce
  <2>4. \A o \in Objects : maker'[o] = Nobody => destroyed'[o] = 0
    BY <2>1, <2>2, SharingAssumption DEF States
  <2>5. CellsOK'
    BY <2>1, <2>2 DEF CellsOK
  <2>6. MadeOK'
    BY <2>1, DecodedOwnNothing DEF MadeOK, In
  <2>7. QED
    BY <2>1, <2>3, <2>4, <2>5, <2>6
<1>8. QED
  BY <1>1, <1>2, <1>3, <1>4, <1>5, <1>6, <1>7 DEF SharingNext

\* However many states and threads there are and however objects get from one
\* to the other, each is destroyed once at most, as decode() leaves the finalizer
\* to the state that made it (thread.lua:24-36, 282-300, 362).
THEOREM DestroyedOnceAlways == SharingSpec => []DestroyedOnce
<1>1. SharingInv => DestroyedOnce
  BY DEF SharingInv
<1>2. QED
  BY SharingStart, SharingStep, <1>1, PTL DEF SharingSpec

\* However many states and threads there are, an object that the open state which
\* made it refers to is not destroyed, whatever happens to its copies in that state
\* and in others (thread.lua:24-36, 282-300, 356-368).
THEOREM MakersKeepTheirs == SharingSpec => []KeptByMaker
<1>1. SharingInv => KeptByMaker
  BY DEF SharingInv, CellsOK, MadeOK, KeptByMaker
<1>2. QED
  BY SharingStart, SharingStep, <1>1, PTL DEF SharingSpec
-------------------------------------------------------------------------------
(***************************************************************************)
(* The event: its types, that no thread sleeps while it is set, and that   *)
(* it implements the atomic flag.                                          *)
(***************************************************************************)
USE DEF broadcast

\* What a thread is waiting for follows from its step: only wait() blocks, and
\* the thread that expired had a timeout and found the event clear.
InCall ==
    \A t \in Users :
        /\ pc[t] # "idle" => asked[t] \in Calls
        /\ pc[t] \in {"wait", "expired"} => asked[t].op = "wait"

EventInv == TypeOK /\ InCall /\ NoSleepWhileSet

\* Every step preserves the types.
LEMMA EventTypeStep == EventInv /\ [EventNext]_eventVars => TypeOK'
<1> SUFFICES ASSUME EventInv, [EventNext]_eventVars
             PROVE  TypeOK'
  OBVIOUS
<1> USE DEF EventInv, TypeOK, Steps, NoResult
<1>1. CASE UNCHANGED eventVars
  BY <1>1 DEF eventVars
<1>2. ASSUME NEW t \in Users, Invoke(t)
      PROVE  TypeOK'
  BY <1>2 DEF Invoke
<1>3. ASSUME NEW t \in Users,
             Lock(t) \/ Wait(t) \/ SpuriousWakeup(t) \/ Expire(t) \/ GiveUp(t)
      PROVE  TypeOK'
  BY <1>3 DEF Lock, Wait, SpuriousWakeup, Expire, GiveUp
<1>4. ASSUME NEW t \in Users, Set(t) \/ Clear(t)
      PROVE  TypeOK'
  BY <1>4 DEF Set, Clear, set, Finish
<1>5. ASSUME NEW t \in Users, IsSet(t) \/ See(t)
      PROVE  TypeOK'
  BY <1>5 DEF IsSet, See, Finish
<1>6. ASSUME NEW t \in Users, Unlock(t)
      PROVE  TypeOK'
  BY <1>6 DEF Unlock, NoCall
<1>7. QED
  BY <1>1, <1>2, <1>3, <1>4, <1>5, <1>6 DEF EventNext

\* Every step leaves the threads in the calls that their steps are steps of.
LEMMA InCallStep == EventInv /\ [EventNext]_eventVars => InCall'
<1> SUFFICES ASSUME EventInv, [EventNext]_eventVars
             PROVE  InCall'
  OBVIOUS
<1> USE DEF EventInv, TypeOK, InCall
<1>1. CASE UNCHANGED eventVars
  BY <1>1 DEF eventVars
<1>2. ASSUME NEW t \in Users, Invoke(t)
      PROVE  InCall'
  BY <1>2 DEF Invoke
<1>3. ASSUME NEW t \in Users,
             Lock(t) \/ Wait(t) \/ SpuriousWakeup(t) \/ Expire(t) \/ GiveUp(t)
      PROVE  InCall'
  BY <1>3 DEF Lock, Wait, SpuriousWakeup, Expire, GiveUp
<1>4. ASSUME NEW t \in Users, Set(t) \/ Clear(t) \/ IsSet(t) \/ See(t)
      PROVE  InCall'
  BY <1>4 DEF Set, Clear, set, IsSet, See, Finish, Waiters
<1>5. ASSUME NEW t \in Users, Unlock(t)
      PROVE  InCall'
  BY <1>5 DEF Unlock
<1>6. QED
  BY <1>1, <1>2, <1>3, <1>4, <1>5 DEF EventNext

\* A thread goes to sleep only when the flag is clear, and whoever changes the
\* flag wakes them all.
LEMMA SleepStep == EventInv /\ [EventNext]_eventVars => NoSleepWhileSet'
<1> SUFFICES ASSUME EventInv, [EventNext]_eventVars, NEW u \in Users, pc'[u] = "wait"
             PROVE  flag' = 0
  BY DEF NoSleepWhileSet
<1> USE DEF EventInv, TypeOK, NoSleepWhileSet
<1>1. CASE UNCHANGED eventVars
  BY <1>1 DEF eventVars
<1>2. ASSUME NEW t \in Users, Invoke(t) \/ Lock(t) \/ SpuriousWakeup(t) \/ Expire(t)
                                \/ GiveUp(t) \/ Unlock(t)
      PROVE  flag' = 0
  BY <1>2 DEF Invoke, Lock, SpuriousWakeup, Expire, GiveUp, Unlock
<1>3. ASSUME NEW t \in Users, Wait(t)
      PROVE  flag' = 0
  BY <1>3 DEF Wait
<1>4. ASSUME NEW t \in Users, Set(t) \/ Clear(t)
      PROVE  flag' = 0
  BY <1>4 DEF Set, Clear, set, Finish, Waiters
<1>5. ASSUME NEW t \in Users, IsSet(t) \/ See(t)
      PROVE  flag' = 0
  BY <1>5 DEF IsSet, See, Finish
<1>6. QED
  BY <1>1, <1>2, <1>3, <1>4, <1>5 DEF EventNext

\* The inductive invariant: types, calls and who may sleep.
THEOREM EventInvariance == EventSpec => []EventInv
<1>1. EventInit => EventInv
  BY DEF EventInit, EventInv, TypeOK, InCall, NoSleepWhileSet, Steps
<1>2. EventInv /\ [EventNext]_eventVars => EventInv'
  BY EventTypeStep, InCallStep, SleepStep DEF EventInv
<1>3. QED
  BY <1>1, <1>2, PTL DEF EventSpec

\* The variables keep their types.
THEOREM EventTypeCorrect == EventSpec => []TypeOK
<1>1. EventInv => TypeOK
  BY DEF EventInv
<1>2. QED
  BY <1>1, EventInvariance, PTL

\* No thread is blocked in wait() while the event is set (thread.lua:112-146).
THEOREM NobodySleeps == EventSpec => []NoSleepWhileSet
<1>1. EventInv => NoSleepWhileSet
  BY DEF EventInv
<1>2. QED
  BY <1>1, EventInvariance, PTL

\* Every step of the event is a step of the flag, or none: a wait that expires
\* gives up there and then, and only sleepers expire, who saw the flag clear.
LEMMA FlagStep == EventInv /\ [EventNext]_eventVars => [Flag!Next]_(Flag!vars)
<1> SUFFICES ASSUME EventInv, [EventNext]_eventVars
             PROVE  [Flag!Next]_(Flag!vars)
  OBVIOUS
<1> USE DEF EventInv, TypeOK, Phases, Phase, NoCall, NoResult, Calls, Flag!NoCall, Flag!NoResult, Flag!Calls,
            Flag!vars
<1>1. CASE UNCHANGED eventVars
  BY <1>1 DEF eventVars
<1>2. ASSUME NEW t \in Users, Invoke(t)
      PROVE  Flag!Invoke(t)
  BY <1>2 DEF Invoke, Flag!Invoke
<1>3. ASSUME NEW t \in Users, Lock(t) \/ Wait(t) \/ SpuriousWakeup(t) \/ GiveUp(t)
      PROVE  UNCHANGED Flag!vars
  BY <1>3 DEF Lock, Wait, SpuriousWakeup, GiveUp
<1>4. ASSUME NEW t \in Users, NEW W \in SUBSET Waiters, NEW r, pc[t] = "test", Finish(t, W, r)
      PROVE  Flag!Finish(t, r)
  BY <1>4 DEF Finish, Flag!Finish, Waiters
<1>5. ASSUME NEW t \in Users, Set(t) \/ Clear(t)
      PROVE  Flag!Assign(t)
  BY <1>4, <1>5 DEF Set, Clear, set, Flag!Assign
<1>6. ASSUME NEW t \in Users, IsSet(t)
      PROVE  Flag!IsSet(t)
  <2>1. CASE flag = 1
    <3>1. Flag!Finish(t, "true")
      BY <1>4, <1>6, <2>1 DEF IsSet
    <3>2. QED
      BY <1>6, <2>1, <3>1 DEF IsSet, Flag!IsSet, Flag!Finish
  <2>2. CASE flag = 0
    <3>1. Flag!Finish(t, "false")
      BY <1>4, <1>6, <2>2 DEF IsSet
    <3>2. QED
      BY <1>6, <2>2, <3>1 DEF IsSet, Flag!IsSet, Flag!Finish
  <2>3. QED
    BY <2>1, <2>2
<1>7. ASSUME NEW t \in Users, See(t)
      PROVE  Flag!See(t)
  BY <1>4, <1>7 DEF See, Flag!See
<1>8. ASSUME NEW t \in Users, Expire(t)
      PROVE  Flag!GiveUp(t)
  BY <1>8 DEF Expire, Flag!GiveUp, Flag!Finish, InCall, NoSleepWhileSet
<1>9. ASSUME NEW t \in Users, Unlock(t)
      PROVE  Flag!Return(t)
  BY <1>9 DEF Unlock, Flag!Return
<1>10. QED
  BY <1>1, <1>2, <1>3, <1>5, <1>6, <1>7, <1>8, <1>9 DEF EventNext, Flag!Next

\* The event implements the atomic flag.
THEOREM EventIsFlag == EventSpec => ImplementsFlag
<1>1. EventInit => Flag!Init
  BY DEF EventInit, Flag!Init, Phases, Phase, NoCall, NoResult, Flag!NoCall, Flag!NoResult
<1>2. QED
  BY <1>1, FlagStep, EventInvariance, PTL DEF EventSpec, ImplementsFlag, Flag!Spec
===============================================================================
