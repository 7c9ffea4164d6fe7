------------------------------ MODULE ThreadEvent ------------------------------
(***************************************************************************)
(* thread.lua's event: a flag under a mutex, and a condition variable that *)
(* set() and clear() broadcast.  What a call does with the mutex held is   *)
(* one step.  A wait is given its deadline when it is called, may wake up  *)
(* for no reason, and looks at the flag each time it does.                 *)
(* Definitions marked "variant" are mistakes the code could have made; no  *)
(* definition uses them.                                                   *)
(***************************************************************************)
EXTENDS Integers

CONSTANTS
    Users,          \* the threads that share the event
    NoUser          \* nobody: the owner of a free mutex

ASSUME EventAssumption == NoUser \notin Users

VARIABLES
    flag,
    owner,          \* the thread that holds the mutex
    pc,             \* the step of its call each thread is at
    asked,          \* the call each thread is in
    answer          \* what a call is about to return

eventVars == <<flag, owner, pc, asked, answer>>

(***************************************************************************)
(* The steps: "lock" waits for the mutex, be it the first time or woken,   *)
(* "test" holds it and is about to look at the flag or to change it,       *)
(* "wait" is blocked in cond:wait(), "expired" is past the deadline in     *)
(* there and waits for the mutex, "done" is about to release it.           *)
(***************************************************************************)
Steps == {"idle", "lock", "test", "wait", "expired", "done"}

Calls == [op : {"set", "clear", "isset"}] \cup [op : {"wait"}, timed : BOOLEAN]
NoCall == [op |-> "none"]
NoResult == "none"

Waiters == {t \in Users : pc[t] = "wait"}

\* the threads that cond:broadcast() wakes, of those that wait
signal(waiters) ==                                              \* variant
    IF waiters = {} THEN {} ELSE {CHOOSE t \in waiters : TRUE}
broadcast(waiters) == waiters

Finish(t, woken, r) ==
    /\ pc' = [u \in Users |-> IF u = t THEN "done"
                                ELSE IF u \in woken THEN "lock" ELSE pc[u]]
    /\ answer' = [answer EXCEPT ![t] = r]
    /\ UNCHANGED <<owner, asked>>
-------------------------------------------------------------------------------
EventInit ==
    /\ flag \in {0, 1}
    /\ owner = NoUser
    /\ pc = [t \in Users |-> "idle"]
    /\ asked = [t \in Users |-> NoCall]
    /\ answer = [t \in Users |-> NoResult]

Invoke(t) ==
    /\ pc[t] = "idle"
    /\ \E c \in Calls : asked' = [asked EXCEPT ![t] = c]
    /\ pc' = [pc EXCEPT ![t] = "lock"]
    /\ UNCHANGED <<flag, owner, answer>>

\* mutex:lock() returns, or a woken cond:wait() has the mutex back
Lock(t) ==
    /\ pc[t] = "lock"
    /\ owner = NoUser
    /\ owner' = t
    /\ pc' = [pc EXCEPT ![t] = "test"]
    /\ UNCHANGED <<flag, asked, answer>>

\* set(val)
set(t, val) == flag' = val /\ Finish(t, broadcast(Waiters), NoResult)
Set(t)   == pc[t] = "test" /\ asked[t].op = "set" /\ set(t, 1)
Clear(t) == pc[t] = "test" /\ asked[t].op = "clear" /\ set(t, 0)

IsSet(t) ==
    /\ pc[t] = "test" /\ asked[t].op = "isset"
    /\ Finish(t, {}, IF flag = 1 THEN "true" ELSE "false")
    /\ UNCHANGED flag

\* wait(): what it does each time it has the mutex
See(t) ==
    /\ pc[t] = "test" /\ asked[t].op = "wait"
    /\ flag = 1
    /\ Finish(t, {}, "true")
    /\ UNCHANGED flag

Wait(t) ==
    /\ pc[t] = "test" /\ asked[t].op = "wait"
    /\ flag # 1
    /\ owner' = NoUser
    /\ pc' = [pc EXCEPT ![t] = "wait"]
    /\ UNCHANGED <<flag, asked, answer>>

TrueWakeup(t) ==                                                \* variant
    /\ pc[t] = "wait"
    /\ pc' = [pc EXCEPT ![t] = "done"]
    /\ answer' = [answer EXCEPT ![t] = "true"]
    /\ UNCHANGED <<flag, owner, asked>>
SpuriousWakeup(t) ==
    /\ pc[t] = "wait"
    /\ pc' = [pc EXCEPT ![t] = "lock"]
    /\ UNCHANGED <<flag, owner, asked, answer>>

\* the deadline passes before anybody wakes the thread, which gives up when it
\* has the mutex back, without another look at the flag
Expire(t) ==
    /\ pc[t] = "wait"
    /\ asked[t].timed
    /\ pc' = [pc EXCEPT ![t] = "expired"]
    /\ answer' = [answer EXCEPT ![t] = "false"]
    /\ UNCHANGED <<flag, owner, asked>>

GiveUp(t) ==
    /\ pc[t] = "expired"
    /\ owner = NoUser
    /\ owner' = t
    /\ pc' = [pc EXCEPT ![t] = "done"]
    /\ UNCHANGED <<flag, asked, answer>>

Unlock(t) ==
    /\ pc[t] = "done"
    /\ owner' = NoUser
    /\ pc' = [pc EXCEPT ![t] = "idle"]
    /\ asked' = [asked EXCEPT ![t] = NoCall]
    /\ answer' = [answer EXCEPT ![t] = NoResult]
    /\ UNCHANGED flag

Hold(t) == Set(t) \/ Clear(t) \/ IsSet(t) \/ See(t) \/ Wait(t) \/ Unlock(t)

EventNext == \E t \in Users :
    \/ Invoke(t) \/ Lock(t) \/ Set(t) \/ Clear(t) \/ IsSet(t) \/ See(t) \/ Wait(t)
    \/ SpuriousWakeup(t) \/ Expire(t) \/ GiveUp(t) \/ Unlock(t)

EventSpec == EventInit /\ [][EventNext]_eventVars

\* A thread that holds the mutex goes on, one that waits for it is not passed
\* over for ever, and the deadline of a wait is absolute.
EventFairSpec == EventSpec /\ \A t \in Users :
    /\ WF_eventVars(Hold(t))
    /\ SF_eventVars(Lock(t) \/ GiveUp(t))
    /\ SF_eventVars(Expire(t))
-------------------------------------------------------------------------------
TypeOK ==
    /\ flag \in {0, 1}
    /\ owner \in Users \cup {NoUser}
    /\ pc \in [Users -> Steps]
    /\ asked \in [Users -> Calls \cup {NoCall}]
    /\ answer \in [Users -> {NoResult, "true", "false"}]

\* No thread is blocked in wait() while the event is set, however the calls
\* interleave with set() and clear() (thread.lua:112-117, 134-146): it would
\* sleep until the next set() or clear().
NoSleepWhileSet == \A t \in Users : pc[t] = "wait" => flag = 0

\* The flag the event implements: a wait is over, for its caller, when it sees
\* the flag or when its deadline passes.
Phase(step) == IF step = "idle" THEN "idle"
               ELSE IF step \in {"expired", "done"} THEN "done" ELSE "called"

Phases == [t \in Users |-> Phase(pc[t])]

Flag == INSTANCE EventFlag WITH Threads <- Users, phase <- Phases, call <- asked, result <- answer

\* Each call takes effect at one moment: a wait that returns true saw the event
\* set during the call, whatever woke it, and one that returns false saw it
\* clear when its deadline passed, though it does not look again
\* (thread.lua:137-145).
ImplementsFlag == Flag!Spec

\* No thread stays in wait() for ever with the event set for ever, and none
\* with a deadline stays whatever happens (thread.lua:134-146).
SetWakesAll ==
    \A t \in Users : []<>~(pc[t] # "idle" /\ asked[t].op = "wait" /\ (flag = 1 \/ asked[t].timed))
===============================================================================
