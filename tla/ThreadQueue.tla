------------------------------ MODULE ThreadQueue ------------------------------
(***************************************************************************)
(* thread.lua's queue: the values are kept on the stack of a Lua state     *)
(* that all the threads share, under one mutex and two condition           *)
(* variables.  Everything a call does between mutex:lock() and             *)
(* mutex:unlock() is invisible to the other threads, so the steps of a     *)
(* call are: take the mutex, test the loop condition and either block in   *)
(* cond:wait() or do the operation and broadcast, release the mutex.       *)
(* Definitions marked "variant" are mistakes the code could have made; no  *)
(* definition uses them.                                                   *)
(***************************************************************************)
EXTENDS Integers, Sequences

CONSTANTS Threads,      \* the threads that share the queue
          NoThread,     \* nobody: the owner of a free mutex
          Values,       \* the values luastate.push can copy
          Functions,    \* those of them that are functions
          EmptyFunction,    \* what loadstring("") returns
          Unpushable,   \* the values luastate.push raises not_implemented() on
          MaxLen,       \* maxlen; 0 stands for nil: no limit
          PeekIndices,  \* the indices given to peek()
          CallsOf       \* the calls each thread makes

ASSUME QueueAssumption ==
    /\ NoThread \notin Threads
    /\ MaxLen \in Nat
    /\ PeekIndices \subseteq Int
    /\ Functions \subseteq Values
    /\ Values \cap Unpushable = {}

VARIABLES stack,    \* the stack of the queue's Lua state
          owner,    \* the thread that holds the mutex, or NoThread
          pc,       \* the step of its call each thread is at
          call,     \* the call each thread is in
          result    \* the result of a call that is about to return

vars == <<stack, owner, pc, call, result>>

(***************************************************************************)
(* The steps of a call: "lock" waits in mutex:lock() (or, woken, in        *)
(* cond:wait() for the mutex), "test" holds the mutex and is about to test *)
(* the loop condition, "wait" is blocked in cond:wait(), "expired" is      *)
(* still in there, past its deadline and waiting for the mutex, "done"     *)
(* holds the mutex and is about to release it and return.                  *)
(***************************************************************************)
Steps == {"idle", "lock", "test", "wait", "expired", "done"}

PushCalls   == [op : {"push"}, val : Values \cup Unpushable, timed : BOOLEAN]
RemoveCalls == [op : {"pop", "shift"}, timed : BOOLEAN]
PeekCalls   == [op : {"peek"}, i : PeekIndices]
TestCalls   == [op : {"length", "isfull", "isempty"}]
Calls       == PushCalls \cup RemoveCalls \cup PeekCalls \cup TestCalls

ASSUME CallsAssumption == \A t \in Threads : CallsOf[t] \subseteq Calls

NoCall   == [op |-> "none"]
NoResult == [kind |-> "none"]
TimedOut == [kind |-> "timeout"]

queue_length  == Len(stack)
queue_isfull_late == MaxLen > 0 /\ queue_length = MaxLen + 1   \* variant
queue_isfull  == MaxLen > 0 /\ queue_length = MaxLen
queue_isempty == queue_length = 0

\* the threads blocked in cond_not_full:wait() and in cond_not_empty:wait()
NotFullWaiters  == {t \in Threads : pc[t] = "wait" /\ call[t].op = "push"}
NotEmptyWaiters == {t \in Threads : pc[t] = "wait" /\ call[t].op \in {"pop", "shift"}}

\* the threads a broadcast wakes, of those that wait
signal(waiters) ==                                             \* variant
    IF waiters = {} THEN {} ELSE {CHOOSE t \in waiters : TRUE}
broadcast(waiters) == waiters

\* whether t can lock the (not recursive) mutex
reentrant(t) == owner \in {NoThread, t}        \* variant
unlocked(t) == owner = NoThread

\* the loop condition of a call
MustWait(c) ==
    \/ c.op = "push" /\ queue_isfull
    \/ c.op \in {"pop", "shift"} /\ queue_isempty

\* t finishes its operation and holds the mutex; the threads in woken leave
\* their wait and compete for it
Finish(t, woken, r) ==
    /\ pc' = [u \in Threads |-> IF u = t THEN "done"
                                ELSE IF u \in woken THEN "lock" ELSE pc[u]]
    /\ result' = [result EXCEPT ![t] = r]
    /\ UNCHANGED <<owner, call>>

Init ==
    /\ stack = << >>
    /\ owner = NoThread
    /\ pc = [t \in Threads |-> "idle"]
    /\ call = [t \in Threads |-> NoCall]
    /\ result = [t \in Threads |-> NoResult]

\* a thread calls one of the queue's methods
Invoke(t) ==
    /\ pc[t] = "idle"
    /\ \E c \in CallsOf[t] : call' = [call EXCEPT ![t] = c]
    /\ pc' = [pc EXCEPT ![t] = "lock"]
    /\ UNCHANGED <<stack, owner, result>>

\* mutex:lock() returns; or a woken cond:wait() gets its mutex back
Lock(t) ==
    /\ pc[t] = "lock"
    /\ unlocked(t)
    /\ owner' = t
    /\ pc' = [pc EXCEPT ![t] = "test"]
    /\ UNCHANGED <<stack, call, result>>

\* cond:wait() releases the mutex and blocks, in one step
Wait(t) ==
    /\ pc[t] = "test"
    /\ MustWait(call[t])
    /\ owner' = NoThread
    /\ pc' = [pc EXCEPT ![t] = "wait"]
    /\ UNCHANGED <<stack, call, result>>

\* cond:wait() may return with no broadcast at all
SpuriousWakeup(t) ==
    /\ pc[t] = "wait"
    /\ pc' = [pc EXCEPT ![t] = "lock"]
    /\ UNCHANGED <<stack, owner, call, result>>

NeverExpire(t) == FALSE                        \* variant
\* the deadline of a timed wait passes before anybody wakes it
Expire(t) ==
    /\ pc[t] = "wait"
    /\ call[t].timed
    /\ pc' = [pc EXCEPT ![t] = "expired"]
    /\ UNCHANGED <<stack, owner, call, result>>

\* the expired wait gets the mutex back and the call gives up, without
\* another look at the queue
GiveUp(t) ==
    /\ pc[t] = "expired"
    /\ unlocked(t)
    /\ owner' = t
    /\ pc' = [pc EXCEPT ![t] = "done"]
    /\ result' = [result EXCEPT ![t] = TimedOut]
    /\ UNCHANGED <<stack, call>>

Push(t) ==
    /\ pc[t] = "test"
    /\ call[t].op = "push"
    /\ call[t].val \in Values
    /\ ~queue_isfull
    /\ stack' = Append(stack, call[t].val)
    /\ Finish(t, IF queue_isempty THEN broadcast(NotEmptyWaiters) ELSE {},
              [kind |-> "pushed", len |-> queue_length + 1])

\* state:push() raises: the error leaves the call with the mutex locked (what
\* it had already copied of a table stays on a stack nobody can lock again,
\* and is left out)
PushRaises(t) ==
    /\ pc[t] = "test"
    /\ call[t].op = "push"
    /\ call[t].val \in Unpushable
    /\ ~queue_isfull
    /\ pc' = [pc EXCEPT ![t] = "idle"]
    /\ call' = [call EXCEPT ![t] = NoCall]
    /\ UNCHANGED <<stack, owner, result>>

\* luastate's dump() and loadstring(): lua_dump() knows no index and writes the
\* function on the top of the stack, or nothing if what is there is none
dump ==
    LET top == stack[queue_length]
    IN  IF top \in Functions THEN top ELSE EmptyFunction

get_top(k) == stack[queue_length]                              \* variant
\* state:get(k): data is copied from k, and a function by dump()
get(k) == IF stack[k] \in Functions THEN dump ELSE stack[k]

\* state:remove(k): the values above k move down
RemoveFromStack(k) ==
    stack' = [j \in 1..(queue_length - 1) |-> stack[IF j < k THEN j ELSE j + 1]]

\* queue_remove(): pop() removes at index -1, the top, and shift() at 1
Remove(t) ==
    /\ pc[t] = "test"
    /\ call[t].op \in {"pop", "shift"}
    /\ ~queue_isempty
    /\ LET k == IF call[t].op = "pop" THEN queue_length ELSE 1
       IN /\ RemoveFromStack(k)
          /\ Finish(t, IF queue_isfull THEN broadcast(NotFullWaiters) ELSE {},
                    [kind |-> "removed", val |-> get(k), len |-> queue_length - 1])

Peek(t) ==
    /\ pc[t] = "test"
    /\ call[t].op = "peek"
    /\ LET i == IF call[t].i <= 0 THEN queue_length + call[t].i + 1 ELSE call[t].i
       IN Finish(t, {}, IF i < 1 \/ i > queue_length
                        THEN [kind |-> "nothing"]
                        ELSE [kind |-> "peeked", val |-> get(i)])
    /\ UNCHANGED stack

\* length(), isfull() and isempty()
Test(t) ==
    /\ pc[t] = "test"
    /\ \/ /\ call[t].op = "length"
          /\ Finish(t, {}, [kind |-> "length", len |-> queue_length])
       \/ /\ call[t].op = "isfull"
          /\ Finish(t, {}, [kind |-> "test", is |-> queue_isfull])
       \/ /\ call[t].op = "isempty"
          /\ Finish(t, {}, [kind |-> "test", is |-> queue_isempty])
    /\ UNCHANGED stack

\* mutex:unlock() and return
Unlock(t) ==
    /\ pc[t] = "done"
    /\ owner' = NoThread
    /\ pc' = [pc EXCEPT ![t] = "idle"]
    /\ call' = [call EXCEPT ![t] = NoCall]
    /\ result' = [result EXCEPT ![t] = NoResult]
    /\ UNCHANGED stack

\* what t does inside a call it has made
Step(t) == \/ Lock(t) \/ Wait(t) \/ GiveUp(t) \/ Push(t) \/ PushRaises(t)
           \/ Remove(t) \/ Peek(t) \/ Test(t) \/ Unlock(t)

Next == \E t \in Threads : Invoke(t) \/ Step(t) \/ SpuriousWakeup(t) \/ Expire(t)

Spec == Init /\ [][Next]_vars
--------------------------------------------------------------------------------
(***************************************************************************)
(* Fairness: a thread that holds the mutex goes on; a thread in            *)
(* mutex:lock() is not passed over for ever; the deadline of a timed wait  *)
(* is absolute, so a call that waits again and again in the end waits past *)
(* it.  Nobody has to make a call, and no wakeup is ever spurious by       *)
(* right.                                                                  *)
(***************************************************************************)
Fairness == \A t \in Threads :
    /\ WF_vars(Wait(t) \/ Push(t) \/ PushRaises(t) \/ Remove(t)
               \/ Peek(t) \/ Test(t) \/ Unlock(t))
    /\ SF_vars(Lock(t) \/ GiveUp(t))
    /\ SF_vars(Expire(t))

FairSpec == Spec /\ Fairness
--------------------------------------------------------------------------------
Results ==
    [kind : {"none", "timeout", "nothing"}]
      \cup [kind : {"pushed", "length"}, len : Nat]
      \cup [kind : {"removed"}, val : Values \cup {EmptyFunction}, len : Nat]
      \cup [kind : {"peeked"}, val : Values \cup {EmptyFunction}]
      \cup [kind : {"test"}, is : BOOLEAN]

\* The type of every variable (thread.lua:157-168 and the locals of the methods).
TypeOK ==
    /\ stack \in Seq(Values)
    /\ owner \in Threads \cup {NoThread}
    /\ pc \in [Threads -> Steps]
    /\ call \in [Threads -> Calls \cup {NoCall}]
    /\ result \in [Threads -> Results]

\* The queue never holds more than maxlen values, whoever pushes after whatever
\* wait: the loop in push() (thread.lua:216) tests the length under the mutex.
LengthBound == MaxLen > 0 => Len(stack) <= MaxLen

\* Two threads are never both between mutex:lock() and mutex:unlock(), although
\* cond:wait() gives the mutex away in the middle (thread.lua:215-228, 233-247).
MutualExclusion ==
    \A t, u \in Threads :
        pc[t] \in {"test", "done"} /\ pc[u] \in {"test", "done"} => t = u

\* No wakeup is lost: a thread blocked in cond_not_full:wait() sees a full
\* queue and one blocked in cond_not_empty:wait() an empty one, although the
\* broadcasts are only made on the transitions full -> not full and empty ->
\* not empty (thread.lua:225, 244).
NoLostWakeup ==
    \A t \in Threads : pc[t] = "wait" => MustWait(call[t])

\* Producers and consumers are never blocked at the same time, each waiting
\* for the others (thread.lua:216, 234).
NoMutualBlocking == NotFullWaiters = {} \/ NotEmptyWaiters = {}

\* A mutex left locked by a push that raised (thread.lua:223) stays locked, and
\* the values in the queue are out of every thread's reach for good.
Abandoned(t) == owner = t /\ pc[t] \in {"idle", "lock"}

RaiseIsForGood ==
    [][\A t \in Threads : Abandoned(t) =>
            owner' = owner /\ stack' = stack /\ pc'[t] \in {"idle", "lock"}]_vars

\* The deque the queue implements: a call is over, for the deque, when its
\* thread is about to release the mutex.
Phase(step) == IF step \in {"idle", "done"} THEN step ELSE "called"

Phases == [t \in Threads |-> Phase(pc[t])]

Deque == INSTANCE BoundedDeque WITH items <- stack, phase <- Phases

\* Every call takes effect at one instant, or times out without any effect: values
\* leave at the end that pop() and shift() name, in the order in which they were
\* pushed, although a function may come out as another (thread.lua:193-274).
ImplementsDeque == Deque!Spec

\* A removal or a peek gives the value at the index it names (thread.lua:241,
\* 265-271): what the comments of peek() say, and false of the code when a function
\* is asked for that is not on the top.
ValueAtIndex ==
    [][\A t \in Threads :
         /\ Remove(t) => result'[t].val = stack[IF call[t].op = "pop" THEN Len(stack) ELSE 1]
         /\ Peek(t) /\ result'[t].kind = "peeked" =>
               result'[t].val = stack[IF call[t].i <= 0 THEN Len(stack) + call[t].i + 1
                                      ELSE call[t].i]]_vars

\* Unless a push raises, a call returns, or has no timeout and is blocked by a
\* full or an empty queue (thread.lua:214-249): wakeups that find the queue full
\* or empty again do not restart a deadline, no call sleeps through the chance it
\* waits for, and none hangs on the mutex.
Returns(t) ==
    (pc[t] # "idle")
        ~> \/ pc[t] = "idle"
           \/ MustWait(call[t]) /\ ~call[t].timed
           \/ \E u \in Threads : Abandoned(u)
CallsReturn == \A t \in Threads : Returns(t)
================================================================================
