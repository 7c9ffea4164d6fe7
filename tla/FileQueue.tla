------------------------------- MODULE FileQueue -------------------------------
(***************************************************************************)
(* The file queue of filequeue.lua: a directory with a file per message,   *)
(* numbered from 1, and the counter files first and last; a process that   *)
(* pushes and one that polls.  Each keeps the counters in memory, once in  *)
(* the queue and once in the counter's closure (n).  A message file comes  *)
(* into being at once, being renamed; a counter file is truncated when it  *)
(* is opened and gets its content when it is closed, and a process may be  *)
(* killed or look at the file in between.  Opening a counter for writing   *)
(* may fail, and the call then raises, but the queue can be used on.       *)
(* PusherCrashes, PullerCrashes and MaxFailures bound what goes wrong, and *)
(* MaxPushes the messages, which are numbered in the order of the calls.   *)
(* Definitions marked "variant" are mistakes the code could have made; no  *)
(* definition uses them.                                                   *)
(***************************************************************************)
EXTENDS Integers, Sequences, FiniteSets

CONSTANTS MaxPushes, PusherCrashes, PullerCrashes, MaxFailures

ASSUME FileQueueAssumption ==
    {MaxPushes, PusherCrashes, PullerCrashes, MaxFailures} \subseteq Nat

VARIABLES
    disk,       \* the counters first and last, and the message files
    pusher,
    puller,
    pushed,     \* the number of calls of push()
    accepted,   \* the messages whose push() returned true
    handled,    \* the messages that peek() returned, in order
    trouble     \* how often what went wrong

fileVars == <<disk, pusher, puller, pushed, accepted, handled, trouble>>

NoFile == 0
Nothing == -1       \* what tonumber() makes of an empty file: nil
Message == 1..MaxPushes
Number == 1..MaxPushes + MaxFailures + 1

Exists(n) == n \in Number /\ disk.msg[n] # NoFile
Went(what) == trouble' = [trouble EXCEPT ![what] = @ + 1]
-------------------------------------------------------------------------------
Down == [at |-> "down"]

\* counter(): a file that is missing counts as 0
OpenedSwapped(f, l) ==                                          \* variant
    [at |-> "idle", first |-> l, last |-> f, n |-> [first |-> l, last |-> f]]
Opened(f, l) == [at |-> "idle", first |-> f, last |-> l, n |-> [first |-> f, last |-> l]]

FileInit ==
    /\ disk = [first |-> 0, last |-> 0, msg |-> [n \in Number |-> NoFile]]
    /\ pusher = Down
    /\ puller = Down
    /\ pushed = 0
    /\ accepted = {}
    /\ handled = << >>
    /\ trouble = [pusher |-> 0, puller |-> 0, failure |-> 0]

\* inc_first() and inc_last() by process p, which increments n first of all
Truncated(c) == [disk EXCEPT ![c] = Nothing]
Written(c, p) == [disk EXCEPT ![c] = p.n[c]]
Incremented(p, c, at) == [p EXCEPT !.n[c] = @ + 1, !.at = at]
Counted(p, c, at) == [p EXCEPT ![c] = p.n[c], !.at = at]

OpenPusher ==
    /\ pusher.at = "down"
    /\ pusher' = Opened(disk.first, disk.last)
    /\ UNCHANGED <<disk, puller, pushed, accepted, handled, trouble>>

\* push(): the message file, last, and the first time first
PushMessage ==
    /\ pusher.at = "idle" /\ pushed < MaxPushes
    /\ pusher.last # Nothing
    /\ pushed' = pushed + 1
    /\ disk' = [disk EXCEPT !.msg[pusher.last + 1] = pushed + 1]
    /\ pusher' = [pusher EXCEPT !.at = "last"]
    /\ UNCHANGED <<puller, accepted, handled, trouble>>

\* push() with a counter that could not be read raises an error
PushMessageRaises ==
    /\ pusher.at = "idle" /\ pushed < MaxPushes
    /\ pusher.last = Nothing
    /\ pushed' = pushed + 1
    /\ pusher' = Down
    /\ UNCHANGED <<disk, puller, accepted, handled, trouble>>

\* push() that cannot write the message returns an error
PushFails ==
    /\ pusher.at = "idle" /\ pushed < MaxPushes
    /\ pusher.last # Nothing
    /\ trouble.failure < MaxFailures
    /\ pushed' = pushed + 1
    /\ Went("failure")
    /\ UNCHANGED <<disk, pusher, puller, accepted, handled>>

TruncateLast ==
    /\ pusher.at = "last"
    /\ disk' = Truncated("last")
    /\ pusher' = Incremented(pusher, "last", "lastOpen")
    /\ UNCHANGED <<puller, pushed, accepted, handled, trouble>>

WriteLast ==
    /\ pusher.at = "lastOpen"
    /\ disk' = Written("last", pusher)
    /\ pusher' = Counted(pusher, "last", IF pusher.first = 0 THEN "first" ELSE "idle")
    /\ accepted' = IF pusher.first = 0 THEN accepted ELSE accepted \cup {pushed}
    /\ UNCHANGED <<puller, pushed, handled, trouble>>

TruncateFirst ==
    /\ pusher.at = "first"
    /\ disk' = Truncated("first")
    /\ pusher' = Incremented(pusher, "first", "firstOpen")
    /\ UNCHANGED <<puller, pushed, accepted, handled, trouble>>

WriteFirst ==
    /\ pusher.at = "firstOpen"
    /\ disk' = Written("first", pusher)
    /\ pusher' = Counted(pusher, "first", "idle")
    /\ accepted' = accepted \cup {pushed}
    /\ UNCHANGED <<puller, pushed, handled, trouble>>

PushCounterFails ==
    /\ pusher.at \in {"last", "first"}
    /\ trouble.failure < MaxFailures
    /\ pusher' = Incremented(pusher, pusher.at, "idle")
    /\ Went("failure")
    /\ UNCHANGED <<disk, puller, pushed, accepted, handled>>

CrashPusher ==
    /\ pusher.at # "down"
    /\ trouble.pusher < PusherCrashes
    /\ pusher' = Down
    /\ Went("pusher")
    /\ UNCHANGED <<disk, puller, pushed, accepted, handled>>
-------------------------------------------------------------------------------
OpenPuller ==
    /\ puller.at = "down"
    /\ puller' = Opened(disk.first, disk.last)
    /\ UNCHANGED <<disk, pusher, pushed, accepted, handled, trouble>>

PeekRaises ==
    /\ puller.at = "idle"
    /\ puller.first = Nothing
    /\ puller' = Down
    /\ UNCHANGED <<disk, pusher, pushed, accepted, handled, trouble>>

\* peek() that finds a message; otherwise the process tries again
PeekMessage ==
    /\ puller.at = "idle"
    /\ Exists(puller.first)
    /\ handled' = Append(handled, disk.msg[puller.first])
    /\ puller' = [puller EXCEPT !.at = "holding"]
    /\ UNCHANGED <<disk, pusher, pushed, accepted, trouble>>

\* pull()
TruncatePulled ==
    /\ puller.at = "holding"
    /\ disk' = Truncated("first")
    /\ puller' = Incremented(puller, "first", "firstOpen")
    /\ UNCHANGED <<pusher, pushed, accepted, handled, trouble>>

WritePulled ==
    /\ puller.at = "firstOpen"
    /\ disk' = Written("first", puller)
    /\ puller' = Counted(puller, "first", "remove")
    /\ UNCHANGED <<pusher, pushed, accepted, handled, trouble>>

PullCounterFails ==
    /\ puller.at = "holding"
    /\ trouble.failure < MaxFailures
    /\ puller' = Incremented(puller, "first", "idle")
    /\ Went("failure")
    /\ UNCHANGED <<disk, pusher, pushed, accepted, handled>>

RemoveNext ==                                                   \* variant
    /\ puller.at = "remove"
    /\ disk' = [disk EXCEPT !.msg[puller.first] = NoFile]
    /\ puller' = [puller EXCEPT !.at = "idle"]
    /\ UNCHANGED <<pusher, pushed, accepted, handled, trouble>>
RemovePulled ==
    /\ puller.at = "remove"
    /\ IF Exists(puller.first - 1)
       THEN /\ disk' = [disk EXCEPT !.msg[puller.first - 1] = NoFile]
            /\ puller' = [puller EXCEPT !.at = "idle"]
       ELSE /\ puller' = [puller EXCEPT !.at = "failed"]
            /\ UNCHANGED disk
    /\ UNCHANGED <<pusher, pushed, accepted, handled, trouble>>

CrashPuller ==
    /\ puller.at # "down"
    /\ trouble.puller < PullerCrashes
    /\ puller' = Down
    /\ Went("puller")
    /\ UNCHANGED <<disk, pusher, pushed, accepted, handled>>

PushSteps == TruncateLast \/ WriteLast \/ TruncateFirst \/ WriteFirst
PullSteps == PeekRaises \/ PeekMessage \/ TruncatePulled \/ WritePulled \/ RemovePulled

FileNext ==
    \/ OpenPusher
    \/ PushMessage \/ PushMessageRaises \/ PushFails
    \/ PushSteps \/ PushCounterFails
    \/ CrashPusher
    \/ OpenPuller
    \/ PullSteps \/ PullCounterFails
    \/ CrashPuller

FileSpec == FileInit /\ [][FileNext]_fileVars

\* A process that runs goes on with the call it is in, and the one that polls
\* calls peek() and pull() over and over (filequeue.lua:83-88).
FileFairSpec == FileSpec /\ WF_fileVars(PushSteps) /\ WF_fileVars(PullSteps)
-------------------------------------------------------------------------------

Handled == {handled[j] : j \in DOMAIN handled}

\* the number that a puller, the one that runs or the next, looks at; none of
\* them gets past a counter that was left empty
Position ==
    IF puller.at \notin {"down", "failed"} /\ puller.first # Nothing THEN puller.first
    ELSE IF disk.first # Nothing THEN disk.first
    ELSE 1

\* As long as at most the polling process was killed, no message that push()
\* accepted is skipped: it was handled or its file is where a puller has yet to
\* look (filequeue.lua:22-40).
PusherWentWell == trouble.pusher = 0 /\ trouble.failure = 0
NothingSkipped == PusherWentWell =>
    \A m \in accepted \ Handled : \E n \in Number : n >= Position /\ disk.msg[n] = m

\* Whatever fails and whoever is killed, messages are handled in the order in
\* which they were pushed.
HandledInOrder == \A j \in 1..(Len(handled) - 1) : handled[j] <= handled[j + 1]

\* The polling process gets every accepted message if the queue had one when
\* it was opened, unless something goes wrong (filequeue.lua:83-88).
WentWrong == \E what \in DOMAIN trouble : trouble[what] > 0
FoundIsHandled ==
    \A m \in Message :
        (m \in accepted /\ puller.at # "down" /\ puller.first > 0) ~> (m \in Handled \/ WentWrong)
===============================================================================
