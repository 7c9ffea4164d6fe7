----------------------------- MODULE BoundedDeque -----------------------------
(***************************************************************************)
(* What a thread.queue promises its callers: a deque of values shared by   *)
(* threads, every operation of which takes effect in one atomic step       *)
(* between its call and its return.  A push waits while the deque is full, *)
(* a removal while it is empty; a call that was given a timeout may return *)
(* "timeout" instead and then has had no effect.  What comes out is the    *)
(* value that is at the place the call names, with one exception: the code *)
(* of a function is promised for the newest value only, and from any other *)
(* place some function comes out.                                          *)
(***************************************************************************)
EXTENDS Integers, Sequences

CONSTANTS Threads,      \* the threads that share the queue
          Values,       \* the values that can be copied between Lua states
          Functions,    \* those of them that are functions
          EmptyFunction,    \* a function that does nothing
          Unpushable,   \* the values luastate.push refuses
          MaxLen,       \* the queue's maxlen; 0 stands for nil: no limit
          PeekIndices   \* the indices given to peek()

VARIABLES items,    \* the values in the deque, the oldest first
          phase,    \* where each thread is in its call
          call,     \* the call each thread is in
          result    \* the result a finished call is about to return

vars == <<items, phase, call, result>>

PushCalls   == [op : {"push"}, val : Values \cup Unpushable, timed : BOOLEAN]
RemoveCalls == [op : {"pop", "shift"}, timed : BOOLEAN]
PeekCalls   == [op : {"peek"}, i : PeekIndices]
TestCalls   == [op : {"length", "isfull", "isempty"}]
Calls       == PushCalls \cup RemoveCalls \cup PeekCalls \cup TestCalls

IsFull  == MaxLen > 0 /\ Len(items) = MaxLen
IsEmpty == items = << >>

Timed(c) == c.op \in {"push", "pop", "shift"} /\ c.timed

\* a thread that is in no call, and the results a call can have
NoCall   == [op |-> "none"]
NoResult == [kind |-> "none"]
TimedOut == [kind |-> "timeout"]

\* the values but the one at k
Without(k) == SubSeq(items, 1, k - 1) \o SubSeq(items, k + 1, Len(items))

\* what can come out when the value at k is copied
Copies(k) ==
    IF items[k] \in Functions /\ k < Len(items)
    THEN Functions \cup {EmptyFunction}
    ELSE {items[k]}

\* the call of t takes effect, with result r
Finish(t, r) ==
    /\ phase[t] = "called"
    /\ phase' = [phase EXCEPT ![t] = "done"]
    /\ result' = [result EXCEPT ![t] = r]
    /\ UNCHANGED call

Init ==
    /\ items = << >>
    /\ phase = [t \in Threads |-> "idle"]
    /\ call = [t \in Threads |-> NoCall]
    /\ result = [t \in Threads |-> NoResult]

Invoke(t) ==
    /\ phase[t] = "idle"
    /\ \E c \in Calls : call' = [call EXCEPT ![t] = c]
    /\ phase' = [phase EXCEPT ![t] = "called"]
    /\ UNCHANGED <<items, result>>

Push(t) ==
    /\ call[t].op = "push"
    /\ call[t].val \in Values
    /\ ~IsFull
    /\ items' = Append(items, call[t].val)
    /\ Finish(t, [kind |-> "pushed", len |-> Len(items')])

\* pop takes the newest value, shift the oldest
Remove(t) ==
    /\ ~IsEmpty
    /\ \E k \in 1..Len(items) :
         /\ \/ call[t].op = "pop" /\ k = Len(items)
            \/ call[t].op = "shift" /\ k = 1
         /\ items' = Without(k)
         /\ \E v \in Copies(k) :
              Finish(t, [kind |-> "removed", val |-> v, len |-> Len(items')])

\* indices count from the oldest value up from 1, or from the newest down from -1
Peek(t) ==
    /\ call[t].op = "peek"
    /\ \/ /\ call[t].i \in 1..Len(items)
          /\ \E v \in Copies(call[t].i) : Finish(t, [kind |-> "peeked", val |-> v])
       \/ /\ -call[t].i \in 1..Len(items)
          /\ \E v \in Copies(Len(items) + call[t].i + 1) :
               Finish(t, [kind |-> "peeked", val |-> v])
       \/ /\ call[t].i \notin 1..Len(items)
          /\ -call[t].i \notin 1..Len(items)
          /\ Finish(t, [kind |-> "nothing"])
    /\ UNCHANGED items

Test(t) ==
    /\ \/ /\ call[t].op = "length"
          /\ Finish(t, [kind |-> "length", len |-> Len(items)])
       \/ /\ call[t].op = "isfull"
          /\ Finish(t, [kind |-> "test", is |-> IsFull])
       \/ /\ call[t].op = "isempty"
          /\ Finish(t, [kind |-> "test", is |-> IsEmpty])
    /\ UNCHANGED items

Expire(t) ==
    /\ Timed(call[t])
    /\ Finish(t, TimedOut)
    /\ UNCHANGED items

\* the call raises: the value cannot be copied to another Lua state
Raise(t) ==
    /\ phase[t] = "called"
    /\ call[t].op = "push"
    /\ call[t].val \in Unpushable
    /\ phase' = [phase EXCEPT ![t] = "idle"]
    /\ call' = [call EXCEPT ![t] = NoCall]
    /\ UNCHANGED <<items, result>>

Return(t) ==
    /\ phase[t] = "done"
    /\ phase' = [phase EXCEPT ![t] = "idle"]
    /\ call' = [call EXCEPT ![t] = NoCall]
    /\ result' = [result EXCEPT ![t] = NoResult]
    /\ UNCHANGED items

Next == \E t \in Threads :
    \/ Invoke(t) \/ Return(t) \/ Raise(t) \/ Expire(t)
    \/ Push(t) \/ Remove(t) \/ Peek(t) \/ Test(t)

Spec == Init /\ [][Next]_vars
===============================================================================
