------------------------------- MODULE ThreadPool ------------------------------
(***************************************************************************)
(* thread.lua's pool: worker threads that take tasks from a queue of       *)
(* maxlen 1 for ever, and the thread that pushes tasks and at last joins   *)
(* the workers one by one, the last first.  The queue is BoundedDeque,     *)
(* which ThreadQueue implements: with one place in it, the function that   *)
(* comes out is the one that went in.  A task that raises an error ends    *)
(* its worker, and join() of a worker that ended that way raises the       *)
(* error.  Definitions marked "variant" are mistakes the code could have   *)
(* made; no definition uses them.                                          *)
(***************************************************************************)
EXTENDS Integers, Sequences, FiniteSets

CONSTANTS
    N,          \* the number of workers
    Tasks,      \* each pushed once at most
    Failing,    \* those that raise an error
    Client,
    NoTask

Workers == 1..N

ASSUME PoolAssumption ==
    /\ N \in Nat \ {0}
    /\ Failing \subseteq Tasks
    /\ NoTask \notin Tasks
    /\ Client \notin Workers

VARIABLES
    items, phase, call, result,     \* the queue and its calls
    worker,     \* where each worker is, and its task
    client,     \* where the client is: pushing, or joining the workers
    tried, accepted,    \* the tasks that were pushed, and whose push returned true
    runs        \* how many times each task was run

queueVars == <<items, phase, call, result>>
vars == <<items, phase, call, result, worker, client, tried, accepted, runs>>

Queue == INSTANCE BoundedDeque
    WITH Threads <- Workers \cup {Client}, Values <- Tasks, Unpushable <- {},
         Functions <- Tasks, EmptyFunction <- NoTask, MaxLen <- 1, PeekIndices <- {1}

take_task == [op |-> "shift", timed |-> FALSE]

Waiting == [at |-> "waiting", task |-> NoTask]
-------------------------------------------------------------------------------
Init ==
    /\ Queue!Init
    /\ worker = [w \in Workers |-> Waiting]
    /\ client = "pushing"
    /\ tried = {}
    /\ accepted = {}
    /\ runs = [k \in Tasks |-> 0]

\* the steps of the queue in the calls that were made
QueueStep ==
    /\ \E t \in Workers \cup {Client} :
          Queue!Push(t) \/ Queue!Remove(t) \/ Queue!Expire(t)
    /\ UNCHANGED <<worker, client, tried, accepted, runs>>

\* pool_worker(): q:shift(), then the task
Shift(w) ==
    /\ worker[w].at = "waiting"
    /\ Queue!Invoke(w)
    /\ call'[w] = take_task
    /\ UNCHANGED <<worker, client, tried, accepted, runs>>

DropTask(w) ==                                                  \* variant
    /\ worker[w].at = "waiting"
    /\ Queue!Return(w)
    /\ worker' = [worker EXCEPT ![w] = Waiting]
    /\ UNCHANGED <<client, tried, accepted, runs>>
TakeTask(w) ==
    /\ worker[w].at = "waiting"
    /\ Queue!Return(w)
    /\ worker' = [worker EXCEPT ![w] =
                    IF "val" \in DOMAIN result[w]
                    THEN [at |-> "running", task |-> result[w].val]
                    ELSE Waiting]
    /\ UNCHANGED <<client, tried, accepted, runs>>

RunTask(w) ==
    LET k == worker[w].task
    IN  /\ worker[w].at = "running"
        /\ runs' = [runs EXCEPT ![k] = @ + 1]
        /\ worker' = [worker EXCEPT ![w] = IF k \in Failing THEN [at |-> "ended", task |-> NoTask] ELSE Waiting]
        /\ UNCHANGED <<items, phase, call, result, client, tried, accepted>>

\* pool:push(task, timeout)
PushTask(k) ==
    /\ client = "pushing" /\ k \notin tried
    /\ Queue!Invoke(Client)
    /\ call'[Client] = [op |-> "push", val |-> k, timed |-> TRUE]
    /\ tried' = tried \cup {k}
    /\ UNCHANGED <<worker, client, accepted, runs>>

PushTellsNothing ==                                             \* variant
    /\ Queue!Return(Client)
    /\ UNCHANGED <<worker, client, tried, accepted, runs>>
PushReturns ==
    /\ Queue!Return(Client)
    /\ accepted' = IF result[Client].kind = "pushed" THEN accepted \cup {call[Client].val} ELSE accepted
    /\ UNCHANGED <<worker, client, tried, runs>>

\* pool:join(): the workers one by one from the last, and then queue:free()
BeginJoin ==
    /\ client = "pushing" /\ phase[Client] = "idle"
    /\ client' = "joining"
    /\ UNCHANGED <<queueVars, worker, tried, accepted, runs>>

\* A worker ends only by an error, which its join() raises, so that pool:join()
\* never gets past the worker it begins with.
JoinRaises ==
    /\ client = "joining"
    /\ worker[N].at = "ended"
    /\ client' = "raised"
    /\ UNCHANGED <<queueVars, worker, tried, accepted, runs>>

Next ==
    \/ QueueStep
    \/ \E w \in Workers : Shift(w) \/ TakeTask(w) \/ RunTask(w)
    \/ \E k \in Tasks : PushTask(k)
    \/ PushReturns
    \/ BeginJoin
    \/ JoinRaises

Spec == Init /\ [][Next]_vars

\* The threads run on, and some call that can take effect does; nobody has to
\* push or join.
FairSpec ==
    /\ Spec
    /\ WF_vars(QueueStep)
    /\ \A w \in Workers : WF_vars(Shift(w)) /\ WF_vars(TakeTask(w)) /\ WF_vars(RunTask(w))
    /\ WF_vars(PushReturns)
    /\ WF_vars(JoinRaises)
-------------------------------------------------------------------------------
Held(w) == IF worker[w].at = "running" THEN {worker[w].task} ELSE {}
InHand(w) == IF result[w].kind = "removed" THEN {result[w].val} ELSE {}

\* A task whose push returned true is in one place until it has run: in the
\* queue, on its way to a worker, or in a worker (thread.lua:397-404, 424-426).
Places(k) ==
    Cardinality({w \in Workers : k \in Held(w)}) + Cardinality({w \in Workers : k \in InHand(w)})
        + Cardinality({j \in DOMAIN items : items[j] = k}) + runs[k]
NoTaskLost == \A k \in accepted : Places(k) = 1

\* A task whose push timed out is never run, so that it can be pushed again
\* (thread.lua:424-426).
TimedOutNeverRuns ==
    \A k \in tried \ accepted :
        (phase[Client] = "idle" \/ call[Client].val # k \/ result[Client] = Queue!TimedOut)
            => Places(k) = 0

\* A task that was accepted is run, as long as there is a worker that no task
\* has ended (thread.lua:397-404, 424-426).
AcceptedRuns ==
    \A k \in Tasks : (k \in accepted) ~> (runs[k] = 1 \/ \A w \in Workers : worker[w].at = "ended")
===============================================================================
