--------------------------------- MODULE HidOsx ---------------------------------
(***************************************************************************)
(* A HID device on macOS (hid_osx.c).  Each open device has a read thread   *)
(* with a run loop, where the system calls back with each input report and  *)
(* when the device is unplugged.  Reports are put on a list that the        *)
(* threads that call hid_read() take from under a mutex, sleeping on a      *)
(* condition variable when there is none.  Two barriers order the start     *)
(* and the end of the read thread.  The flags disconnected and              *)
(* shutdown_thread are written and read without the mutex.                  *)
(* hid_close() frees the device, so the caller may close it only when no    *)
(* thread is reading from it.                                               *)
(* Definitions marked "variant" are mistakes the code could have made; no   *)
(* definition uses them.                                                    *)
(***************************************************************************)
EXTENDS Integers, Sequences, FiniteSets

CONSTANTS
    Readers,     \* the threads that read
    NoThread,    \* nobody: the owner of a free mutex
    ReadThread,  \* the read thread, when it owns the mutex
    Closer,      \* the thread that opens and closes, when it owns the mutex
    MaxReports,  \* bound: reports that the device sends
    Limit        \* 30 in the code: the links of a list that is full

ASSUME HidAssumption ==
    /\ IsFiniteSet(Readers) /\ NoThread \notin Readers
    /\ Closer # ReadThread /\ "nobody" \notin {Closer, ReadThread}
    /\ MaxReports \in Nat /\ Limit \in Nat

VARIABLES
    plugged,         \* the device is there
    registered,      \* the callbacks are
    source_signaled, \* hid_close() signaled the run loop's source
    disconnected,
    shutdown_thread,
    input_reports,   \* the list, oldest first
    reported,        \* the report a callback brings, the last one so far
    attached,        \* how many of them were put on the list or dropped
    owner,           \* the thread that holds the mutex
    barrier,         \* who waits at each of the two barriers
    main,            \* the step of hid_open_path() or hid_close()
    thread,          \* the step of read_thread()
    pc,              \* the step of hid_read_timeout(), of each reader
    ask,             \* its milliseconds: -1 is "wait", 0 is "poll", else "timed"
    answer           \* what it is about to return

device  == <<plugged, registered, reported>>
flags   == <<source_signaled, disconnected, shutdown_thread>>
list    == <<input_reports, attached>>
readers == <<pc, ask, answer>>
vars == <<device, flags, list, owner, barrier, main, thread, readers>>

Nothing  == 0
Error    == -1
NoAnswer == -2
Asks     == {"wait", "timed", "poll"}
Nobody   == "nobody"

MainSteps   == {"start", "barrier", "open", "shutdown", "wake", "last", "join", "release",
                "closed", "failed"}
ThreadSteps == {"none", "start", "barrier", "check", "run", "attach", "stopped", "wake",
                "last", "ended"}
ReaderSteps == {"idle", "lock", "look", "sleepy", "sleep", "woken", "recheck", "expired", "done"}

AfterLock   == [lock |-> "look", woken |-> "recheck", expired |-> "done"]

Inside   == {r \in Readers : pc[r] # "idle"}
Sleepers == {r \in Readers : pc[r] = "sleep"}
Wake(woken) == pc' = [r \in Readers |-> IF r \in woken THEN "woken" ELSE pc[r]]
-------------------------------------------------------------------------------
\* new_hid_device(), and a device that may be there
Init ==
    /\ plugged \in BOOLEAN /\ registered = FALSE /\ reported = 0
    /\ source_signaled = FALSE /\ disconnected = FALSE /\ shutdown_thread = FALSE
    /\ input_reports = << >> /\ attached = 0
    /\ owner = NoThread
    /\ barrier = [start |-> Nobody, end |-> Nobody]
    /\ main = "start" /\ thread = "none"
    /\ pc = [r \in Readers |-> "idle"]
    /\ ask = [r \in Readers |-> "wait"]
    /\ answer = [r \in Readers |-> NoAnswer]

Unplug ==
    /\ plugged
    /\ plugged' = FALSE
    /\ UNCHANGED <<registered, reported, flags, list, owner, barrier, main, thread, readers>>

(***************************************************************************)
(* pthread_barrier_wait() of two: the first sleeps, the second wakes it up. *)
(* The first does not look again when it wakes up, so the model takes it    *)
(* that it is never woken for no reason.                                    *)
(***************************************************************************)
Meet(b, who) ==
    IF barrier[b] = Nobody THEN barrier' = [barrier EXCEPT ![b] = who]
    ELSE barrier' = [barrier EXCEPT ![b] = Nobody]
Met(b, who) == barrier[b] \notin {Nobody, who}
-------------------------------------------------------------------------------
\* hid_open_path(): no entry for the path, no device for it, or it cannot be had
OpenFails ==
    /\ main = "start"
    /\ main' = "failed"
    /\ UNCHANGED <<device, flags, list, owner, barrier, thread, readers>>

OpenPath ==
    /\ main = "start" /\ plugged
    /\ registered' = TRUE
    /\ thread' = "start"
    /\ main' = "barrier"
    /\ UNCHANGED <<plugged, reported, flags, list, owner, barrier, readers>>

MainMeets ==
    /\ main = "barrier" /\ barrier.start # Closer
    /\ Meet("start", Closer)
    /\ IF Met("start", Closer) THEN main' = "open" /\ thread' = "check" ELSE UNCHANGED <<main, thread>>
    /\ UNCHANGED <<device, flags, list, owner, readers>>

\* hid_close(): an unplugged device is not touched any more
Unregister ==
    /\ main = "open" /\ Inside = {}
    /\ main' = "shutdown"
    /\ registered' = (registered /\ disconnected)
    /\ UNCHANGED <<plugged, reported, flags, list, owner, barrier, thread, readers>>

Shutdown ==
    /\ main = "shutdown"
    /\ main' = "wake"
    /\ shutdown_thread' = TRUE
    /\ UNCHANGED <<device, source_signaled, disconnected, list, owner, barrier, thread, readers>>

WakeOnly ==                                                     \* variant
    /\ main = "wake"
    /\ main' = "last"
    /\ UNCHANGED <<device, flags, list, owner, barrier, thread, readers>>
SignalSource ==
    /\ main = "wake"
    /\ main' = "last"
    /\ source_signaled' = TRUE
    /\ UNCHANGED <<device, disconnected, shutdown_thread, list, owner, barrier, thread, readers>>

MainMeetsLast ==
    /\ main = "last" /\ barrier.end # Closer
    /\ Meet("end", Closer)
    /\ IF Met("end", Closer) THEN main' = "join" /\ thread' = "ended" ELSE UNCHANGED <<main, thread>>
    /\ UNCHANGED <<device, flags, list, owner, readers>>

Join ==
    /\ main = "join" /\ thread = "ended"
    /\ main' = "release"
    /\ UNCHANGED <<device, flags, list, owner, barrier, thread, readers>>

\* the list is emptied under the mutex and the device freed
Release ==
    /\ main = "release" /\ owner = NoThread
    /\ main' = "closed"
    /\ input_reports' = << >>
    /\ UNCHANGED <<device, flags, attached, owner, barrier, thread, readers>>

Main == MainMeets \/ Shutdown \/ SignalSource \/ MainMeetsLast \/ Join \/ Release
-------------------------------------------------------------------------------
\* read_thread(): it schedules the device with its run loop and adds the source
StartThread ==
    /\ thread = "start"
    /\ thread' = "barrier"
    /\ UNCHANGED <<device, flags, list, owner, barrier, main, readers>>

ThreadMeets ==
    /\ thread = "barrier" /\ barrier.start # ReadThread
    /\ Meet("start", ReadThread)
    /\ IF Met("start", ReadThread) THEN main' = "open" /\ thread' = "check" ELSE UNCHANGED <<main, thread>>
    /\ UNCHANGED <<device, flags, list, owner, readers>>

Check ==
    /\ thread = "check"
    /\ thread' = IF shutdown_thread \/ disconnected THEN "wake" ELSE "run"
    /\ UNCHANGED <<device, flags, list, owner, barrier, main, readers>>

\* the run loop has run for 1000 seconds, or handled a source
TimedOut ==
    /\ thread = "run"
    /\ thread' = "check"
    /\ UNCHANGED <<device, flags, list, owner, barrier, main, readers>>

\* hid_report_callback(), up to the mutex
Report ==
    /\ thread = "run" /\ registered /\ plugged
    /\ reported < MaxReports
    /\ reported' = reported + 1
    /\ thread' = "attach"
    /\ UNCHANGED <<plugged, registered, flags, list, owner, barrier, main, readers>>

\* The new report goes to the end, and the oldest is dropped when the list was
\* full: a list of n reports has n - 1 links.
attach(reports, n) ==
    IF reports # << >> /\ Len(reports) - 1 > Limit THEN Tail(Append(reports, n))
    ELSE Append(reports, n)

\* those that pthread_cond_signal() may wake, of those that sleep
signal_if_first(reports, sleepers) == IF reports = << >> THEN sleepers ELSE {} \* variant
signal(reports, sleepers) == sleepers

Attach ==
    /\ thread = "attach" /\ owner = NoThread
    /\ input_reports' = attach(input_reports, reported)
    /\ attached' = reported
    /\ LET woken == signal(input_reports, Sleepers) IN
       IF woken = {} THEN UNCHANGED pc ELSE \E r \in woken : Wake({r})
    /\ thread' = "run"
    /\ UNCHANGED <<device, flags, owner, barrier, main, ask, answer>>

\* hid_device_removal_callback(), which stops the run loop
Removal ==
    /\ thread = "run" /\ registered /\ ~plugged
    /\ disconnected' = TRUE
    /\ thread' = "stopped"
    /\ UNCHANGED <<device, source_signaled, shutdown_thread, list, owner, barrier, main, readers>>

\* perform_signal_callback(), which does too
Perform ==
    /\ thread = "run" /\ source_signaled
    /\ source_signaled' = FALSE
    /\ thread' = "stopped"
    /\ UNCHANGED <<device, disconnected, shutdown_thread, list, owner, barrier, main, readers>>

\* the run loop was stopped
Stopped ==
    /\ thread = "stopped"
    /\ shutdown_thread' = TRUE
    /\ thread' = "wake"
    /\ UNCHANGED <<device, source_signaled, disconnected, list, owner, barrier, main, readers>>

\* nothing is left to wait for in the run loop
Finished ==
    /\ thread = "run" /\ ~plugged
    /\ disconnected' = TRUE
    /\ thread' = "wake"
    /\ UNCHANGED <<device, source_signaled, shutdown_thread, list, owner, barrier, main, readers>>

\* every reader that sleeps is woken up, under the mutex
free_wake == TRUE                                               \* variant
may_wake == owner = NoThread
wake_one(sleepers) == IF sleepers = {} THEN {} ELSE {CHOOSE r \in sleepers : TRUE} \* variant
broadcast(sleepers) == sleepers
WakeReaders ==
    /\ thread = "wake" /\ may_wake
    /\ Wake(broadcast(Sleepers))
    /\ thread' = "last"
    /\ UNCHANGED <<device, flags, list, owner, barrier, main, ask, answer>>

ThreadEndsAtOnce ==                                             \* variant
    /\ thread = "last"
    /\ thread' = "ended"
    /\ UNCHANGED <<device, flags, list, owner, barrier, main, readers>>
ThreadMeetsLast ==
    /\ thread = "last" /\ barrier.end # ReadThread
    /\ Meet("end", ReadThread)
    /\ IF Met("end", ReadThread) THEN main' = "join" /\ thread' = "ended" ELSE UNCHANGED <<main, thread>>
    /\ UNCHANGED <<device, flags, list, owner, readers>>

Loop == StartThread \/ ThreadMeets \/ Check \/ Stopped \/ ThreadMeetsLast
-------------------------------------------------------------------------------
\* hid_read() and hid_read_timeout()
Call(r) ==
    /\ main = "open" /\ pc[r] = "idle"
    /\ pc' = [pc EXCEPT ![r] = "lock"]
    /\ \E a \in Asks : ask' = [ask EXCEPT ![r] = a]
    /\ UNCHANGED <<device, flags, list, owner, barrier, main, thread, answer>>

\* the mutex is had, be it the first time or after the condition variable
Lock(r) ==
    /\ pc[r] \in DOMAIN AfterLock
    /\ owner = NoThread
    /\ owner' = r
    /\ pc' = [pc EXCEPT ![r] = AfterLock[@]]
    /\ UNCHANGED <<device, flags, list, barrier, main, thread, ask, answer>>

Answer(r, a) ==
    /\ pc' = [pc EXCEPT ![r] = "done"]
    /\ answer' = [answer EXCEPT ![r] = a]
    /\ UNCHANGED <<device, flags, attached, owner, barrier, main, thread, ask>>

\* return_data()
Get(r) == Answer(r, Head(input_reports)) /\ input_reports' = Tail(input_reports)
Quit(r, a) == Answer(r, a) /\ UNCHANGED input_reports

Gone == disconnected \/ shutdown_thread
GoToSleep(r) ==
    /\ pc' = [pc EXCEPT ![r] = "sleepy"]
    /\ UNCHANGED <<device, flags, list, owner, barrier, main, thread, ask, answer>>

Look(r) ==
    /\ pc[r] = "look"
    /\ \/ input_reports # << >> /\ Get(r)
       \/ input_reports = << >> /\ Gone /\ Quit(r, Error)
       \/ input_reports = << >> /\ ~Gone /\ ask[r] = "poll" /\ Quit(r, Nothing)
       \/ input_reports = << >> /\ ~Gone /\ ask[r] # "poll" /\ GoToSleep(r)

\* pthread_cond_wait() or pthread_cond_timedwait(), which gives up the mutex
Sleep(r) ==
    /\ pc[r] = "sleepy"
    /\ pc' = [pc EXCEPT ![r] = "sleep"]
    /\ owner' = NoThread
    /\ UNCHANGED <<device, flags, list, barrier, main, thread, ask, answer>>

\* woken up for no reason
SpuriousWakeup(r) ==
    /\ pc[r] = "sleep"
    /\ Wake({r})
    /\ UNCHANGED <<device, flags, list, owner, barrier, main, thread, ask, answer>>

\* past the deadline, before anybody woke it
Expire(r) ==
    /\ pc[r] = "sleep" /\ ask[r] = "timed"
    /\ pc' = [pc EXCEPT ![r] = "expired"]
    /\ answer' = [answer EXCEPT ![r] = Nothing]
    /\ UNCHANGED <<device, flags, list, owner, barrier, main, thread, ask>>

\* woken up: the flags first, and then the list
RecheckTrustingSignal(r) ==                                     \* variant
    /\ pc[r] = "recheck"
    /\ \/ Gone /\ Quit(r, Error)
       \/ ~Gone /\ input_reports # << >> /\ Get(r)
       \/ ~Gone /\ input_reports = << >> /\ Quit(r, Nothing)
Recheck(r) ==
    /\ pc[r] = "recheck"
    /\ \/ Gone /\ Quit(r, Error)
       \/ ~Gone /\ input_reports # << >> /\ Get(r)
       \/ ~Gone /\ input_reports = << >> /\ GoToSleep(r)

Unlock(r) ==
    /\ pc[r] = "done"
    /\ pc' = [pc EXCEPT ![r] = "idle"]
    /\ owner' = NoThread
    /\ answer' = [answer EXCEPT ![r] = NoAnswer]
    /\ UNCHANGED <<device, flags, list, barrier, main, thread, ask>>

Hold(r) == Look(r) \/ Sleep(r) \/ Recheck(r) \/ Unlock(r)
-------------------------------------------------------------------------------
Next ==
    \/ Unplug \/ OpenFails \/ OpenPath \/ MainMeets \/ Unregister \/ Shutdown \/ SignalSource
    \/ MainMeetsLast \/ Join \/ Release
    \/ StartThread \/ ThreadMeets \/ Check \/ TimedOut \/ Report \/ Attach \/ Removal \/ Perform
    \/ Stopped \/ Finished \/ WakeReaders \/ ThreadMeetsLast
    \/ \E r \in Readers : Call(r) \/ Lock(r) \/ Look(r) \/ Sleep(r) \/ SpuriousWakeup(r)
                          \/ Expire(r) \/ Recheck(r) \/ Unlock(r)

Spec == Init /\ [][Next]_vars

\* Threads that are not waiting go on; a mutex is not withheld for ever; the
\* run loop serves what would end it; a deadline is absolute.
FairSpec == Spec
    /\ WF_vars(Main) /\ WF_vars(Loop)
    /\ SF_vars(Attach \/ WakeReaders) /\ SF_vars(Removal \/ Perform)
    /\ \A r \in Readers : WF_vars(Hold(r)) /\ SF_vars(Lock(r)) /\ SF_vars(Expire(r))
-------------------------------------------------------------------------------
\* The variables keep to their types, and one thread at most holds the mutex.
TypeOK ==
    /\ plugged \in BOOLEAN /\ registered \in BOOLEAN /\ reported \in 0..MaxReports
    /\ source_signaled \in BOOLEAN /\ disconnected \in BOOLEAN /\ shutdown_thread \in BOOLEAN
    /\ input_reports \in Seq(1..MaxReports) /\ attached \in 0..MaxReports
    /\ owner \in Readers \cup {NoThread}
    /\ barrier \in [{"start", "end"} -> {Nobody, Closer, ReadThread}]
    /\ main \in MainSteps /\ thread \in ThreadSteps
    /\ pc \in [Readers -> ReaderSteps]
    /\ ask \in [Readers -> Asks]
    /\ answer \in [Readers -> {Nothing, Error, NoAnswer} \cup 1..MaxReports]

\* hid_close() signals a run loop that is there: from the moment the caller has
\* the device until the source is signaled, read_thread() has made its run loop
\* and has not returned, whatever ended its loop.
RunLoopAlive == main \in {"open", "shutdown", "wake"} => thread \notin {"none", "start", "ended"}

\* No reader is left asleep by a read thread that has ended its loop, although
\* it sets its flags without the mutex: one that looked before the flags were
\* set is asleep when all are woken, one that looks later does not go to sleep.
NobodyLeftAsleep == thread \in {"last", "ended"} => \A r \in Readers : pc[r] \notin {"sleepy", "sleep"}

\* A report does not lie in the list while a reader sleeps that could have it:
\* for each report there is a reader awake that will take one or leave it to
\* another, be it that one signal is given for each and others come in between.
OnTheWay == {r \in Readers : pc[r] \in {"lock", "look", "woken", "recheck"}}
WaitingIsServed ==
    (Sleepers # {} /\ ~Gone) => Len(input_reports) <= Cardinality(OnTheWay)

\* A read returns when it need not wait for ever, and when the device is gone,
\* however many others read and however often it is woken up for nothing.
ReadsReturn == \A r \in Readers :
    (pc[r] # "idle" /\ (ask[r] # "wait" \/ Gone)) ~> pc[r] = "idle"

\* hid_open_path() and hid_close() return, whatever the read thread is doing:
\* neither barrier keeps one of the two threads for ever.
CloseReturns == main \in {"barrier", "shutdown"} ~> main \in {"open", "closed"}

\* To those who read the device is the stream of reports that hidapi promises.
Stream == INSTANCE HidStream WITH
    Capacity <- Limit + 2,
    Room <- Limit + 2,
    arrived <- attached,
    pending <- input_reports,
    live <- thread # "none" /\ main # "closed" /\ ~Gone,
    phase <- [r \in Readers |-> IF pc[r] \in {"expired", "done"} THEN "done"
                               ELSE IF pc[r] = "idle" THEN "idle" ELSE "called"]
ImplementsStream == Stream!Spec
===============================================================================
