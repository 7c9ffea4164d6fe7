----------------------------- MODULE ThreadSharing -----------------------------
(***************************************************************************)
(* Shareable objects of thread.lua between the Lua states of threads.  An  *)
(* object belongs to the state that made it, whose garbage collector       *)
(* destroys it when that state has no more references to what it made, or  *)
(* which destroys it when it is closed.  It is passed to a new thread and  *)
(* back encoded as addresses, and is decoded to a value of its own, which  *)
(* keeps nothing alive, not even in the state that made the object.  What  *)
(* a thread returns is read by join(), which then closes its state.        *)
(* Definitions marked "variant" are mistakes the code could have made; no  *)
(* definition uses them.                                                   *)
(***************************************************************************)
EXTENDS Integers, FiniteSets

CONSTANTS Main, Threads, Objects, KindOf, Nobody

States == Threads \cup {Main}

ASSUME SharingAssumption ==
    /\ Main \notin Threads
    /\ Nobody \notin States \cup Objects
    /\ KindOf \in [Objects -> {"pointer", "queue", "thread"}]

VARIABLES
    maker,      \* the state that made each object
    refs,       \* the references: in which state, to what, and which parts of it
    cells,      \* the values with a finalizer, that destroy their object
    destroyed,  \* how many times each object was destroyed
    thread      \* where each thread is, who started it, its arguments and results

sharingVars == <<maker, refs, cells, destroyed, thread>>
-------------------------------------------------------------------------------
\* encode(): which part of the object each field is made from
pointer_encode == [addr |-> "address"]
queue_encode ==
    [state_addr |-> "state", mutex_addr |-> "mutex", cond_not_full_addr |-> "cond_not_full",
     cond_not_empty_addr |-> "cond_not_empty", maxlen |-> "maxlen"]
thread_encode == [pthread_addr |-> "pthread", state_addr |-> "state"]

\* decode(): which field each part is made from
pointer_decode == [address |-> "addr"]
queue_decode ==
    [state |-> "state_addr", mutex |-> "mutex_addr", cond_not_full |-> "cond_not_full_addr",
     cond_not_empty |-> "cond_not_empty_addr", maxlen |-> "maxlen"]
thread_decode == [pthread |-> "thread_addr", state |-> "state_addr"]

encode == [pointer |-> pointer_encode, queue |-> queue_encode, thread |-> thread_encode]
decode == [pointer |-> pointer_decode, queue |-> queue_decode, thread |-> thread_decode]

\* the parts of an object that was made, each itself
Parts(o) == [p \in DOMAIN decode[KindOf[o]] |-> p]

\* the parts that a reference has after it was encoded and decoded; ptr() of a
\* field that is not there points to no part of anything
Arriving(r) ==
    LET written == encode[KindOf[r.to]]
        read == decode[KindOf[r.to]]
    IN  [p \in DOMAIN read |->
            IF read[p] \in DOMAIN written THEN r.parts[written[read[p]]] ELSE "garbage"]

made(s, o) == [in |-> s, to |-> o, by |-> "made", parts |-> Parts(o)]
decoded(s, rs) ==
    {[in |-> s, to |-> r.to, by |-> "decoded", parts |-> Arriving(r)] : r \in rs}

\* the values with a finalizer that decoding makes: ptr() gives plain pointers
OwningCells(rs) == {<<r.in, r.to, r.by>> : r \in rs}            \* variant
DecodedCells(rs) == {}

In(s) == {r \in refs : r.in = s}
Reachable == {<<r.in, r.to, r.by>> : r \in refs}

\* what a thread object keeps of its arguments: they have been replaced by what
\* they were encoded to, in the very table that it keeps
KeptArgs(t) == {}

Running(s) == s \in {Main} \cup {t \in Threads : thread[t].at = "running"}

NoThread == [at |-> "none", by |-> Nobody, args |-> {}, ret |-> {}]

SharingInit ==
    /\ maker = [o \in Objects |-> Nobody]
    /\ refs = {}
    /\ cells = {}
    /\ destroyed = [o \in Objects |-> 0]
    /\ thread = [t \in Threads |-> NoThread]

Make(s, o) ==
    /\ Running(s) /\ maker[o] = Nobody
    /\ maker' = [maker EXCEPT ![o] = s]
    /\ refs' = refs \cup {made(s, o)}
    /\ cells' = cells \cup {<<s, o, "made">>}
    /\ UNCHANGED <<destroyed, thread>>

\* thread.new(func, ...)
Start(s, t, rs) ==
    /\ Running(s) /\ thread[t] = NoThread
    /\ thread' = [thread EXCEPT ![t] =
                    [at |-> "running", by |-> s, args |-> {r.to : r \in rs}, ret |-> {}]]
    /\ refs' = refs \cup decoded(t, rs)
    /\ cells' = cells \cup DecodedCells(decoded(t, rs))
    /\ UNCHANGED <<maker, destroyed>>

\* a state lets go of a reference
Forget(r) ==
    /\ Running(r.in)
    /\ refs' = refs \ {r}
    /\ UNCHANGED <<maker, cells, destroyed, thread>>

\* the garbage collector of s finds a value with a finalizer unreachable
Collect(s, o, by) ==
    /\ Running(s) /\ <<s, o, by>> \in cells
    /\ <<s, o, by>> \notin Reachable
    /\ \A t \in Threads : thread[t].by = s => o \notin KeptArgs(t)
    /\ cells' = cells \ {<<s, o, by>>}
    /\ destroyed' = [destroyed EXCEPT ![o] = @ + 1]
    /\ UNCHANGED <<maker, refs, thread>>

\* the thread's function returns objects, or raises an error and returns none
End(t, rs) ==
    /\ Running(t)
    /\ thread' = [thread EXCEPT ![t].at = "ended", ![t].ret = rs]
    /\ UNCHANGED <<maker, refs, cells, destroyed>>

\* thread:join(): read the results, close the state, and decode the results
Join(s, t) ==
    LET closed == {c \in cells : c[1] = t}
        got == decoded(s, thread[t].ret)
    IN  /\ Running(s) /\ thread[t].at = "ended" /\ thread[t].by = s
        /\ thread' = [thread EXCEPT ![t].at = "joined", ![t].args = {}, ![t].ret = {}]
        /\ destroyed' = [o \in Objects |->
                            destroyed[o] + Cardinality({c \in closed : c[2] = o})]
        /\ cells' = (cells \ closed) \cup DecodedCells(got)
        /\ refs' = (refs \ In(t)) \cup got
        /\ UNCHANGED maker

SharingNext ==
    \/ \E s \in States, o \in Objects : Make(s, o)
    \/ \E r \in refs : Forget(r)
    \/ \E s \in States, o \in Objects, by \in {"made", "decoded"} : Collect(s, o, by)
    \/ \E s \in States, t \in Threads : \E rs \in SUBSET In(s) : Start(s, t, rs)
    \/ \E t \in Threads : \E rs \in SUBSET In(t) : End(t, rs)
    \/ \E s \in States, t \in Threads : Join(s, t)

SharingSpec == SharingInit /\ [][SharingNext]_sharingVars
-------------------------------------------------------------------------------
\* An object is destroyed once at most, however many states got it and whether
\* it is collected or its state is closed (thread.lua:24-36, 282-300, 362).
DestroyedOnce == \A o \in Objects : destroyed[o] <= 1

\* Nothing that becomes of its copies destroys an object under the state that made
\* it: as long as that state is open and refers to it, it is there, whether its
\* copies are collected, their states are closed, or a copy comes back to it and is
\* dropped there (thread.lua:24-36, 282-300, 356-368).
KeptByMaker == \A r \in refs : r.by = "made" => destroyed[r.to] = 0

\* The arguments of a thread are kept from being collected by the state that made
\* them and started it, until it is joined (thread.lua:347-351).
ArgsAreKept ==
    \A t \in Threads :
        thread[t].at = "running" /\ Running(thread[t].by) =>
            \A o \in thread[t].args : maker[o] = thread[t].by => destroyed[o] = 0

\* A shareable object arrives with all its parts in each state it is passed to
\* (thread.lua:17-18, 282-300, 376-388).
ArrivesWhole == \A r \in refs : r.parts = Parts(r.to)
===============================================================================
