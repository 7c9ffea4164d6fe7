------------------------------- MODULE HidStream -------------------------------
(***************************************************************************)
(* What an open HID device promises to the threads that read from it, on    *)
(* every platform (hidapi.h: hid_read, hid_read_timeout).  The host keeps   *)
(* the input reports that arrived, in order, and may drop one when it has   *)
(* no room.  A read takes effect in one step between its call and its       *)
(* return: it gets the oldest report; or nothing, when it does not have to  *)
(* wait and each report there is has another read to go to; or an error,    *)
(* when the device is gone or the handle is being closed.                   *)
(***************************************************************************)
EXTENDS Integers, Sequences, SequencesExt, FiniteSets

CONSTANTS Readers,     \* the threads that read
          MaxReports,  \* bound: reports that arrive
          Capacity,    \* reports the host keeps before it drops any
          Room         \* the most it ever keeps

VARIABLES arrived,  \* how many reports have arrived; report n is the n-th
          pending,  \* the reports that no read got yet
          live,     \* the handle is open and its device is there
          phase,    \* where each reader is: "idle", "called" or "done"
          ask,      \* the way it reads: "wait", "timed" or "poll"
          answer    \* what its read will return

vars == <<arrived, pending, live, phase, ask, answer>>

Nothing  == 0
Error    == -1
NoAnswer == -2

Asks == {"wait", "timed", "poll"}

Init ==
    /\ arrived = 0
    /\ pending = << >>
    /\ live = FALSE
    /\ phase = [r \in Readers |-> "idle"]
    /\ ask = [r \in Readers |-> "wait"]
    /\ answer = [r \in Readers |-> NoAnswer]

Open ==
    /\ ~live /\ pending = << >>
    /\ live' = TRUE
    /\ UNCHANGED <<arrived, pending, phase, ask, answer>>

\* the device is unplugged or its handle is closed, which throws away what was
\* not read, at once or later
Lose ==
    /\ live
    /\ live' = FALSE
    /\ pending' \in {pending, << >>}
    /\ UNCHANGED <<arrived, phase, ask, answer>>

Discard ==
    /\ ~live
    /\ pending' = << >>
    /\ UNCHANGED <<arrived, live, phase, ask, answer>>

Arrive ==
    /\ arrived < MaxReports
    /\ arrived' = arrived + 1
    /\ \/ Len(pending) < Room /\ pending' = Append(pending, arrived')
       \/ /\ Len(pending) >= Capacity
          /\ \E i \in 1..Len(pending) + 1 : pending' = RemoveAt(Append(pending, arrived'), i)
    /\ UNCHANGED <<live, phase, ask, answer>>

Call(r) ==
    /\ phase[r] = "idle"
    /\ \E a \in Asks : ask' = [ask EXCEPT ![r] = a]
    /\ phase' = [phase EXCEPT ![r] = "called"]
    /\ UNCHANGED <<arrived, pending, live, answer>>

Finish(r, a) ==
    /\ phase[r] = "called"
    /\ phase' = [phase EXCEPT ![r] = "done"]
    /\ answer' = [answer EXCEPT ![r] = a]
    /\ UNCHANGED <<arrived, live, ask>>

Get(r) ==
    /\ pending # << >>
    /\ Finish(r, Head(pending))
    /\ pending' = Tail(pending)

OthersCalling(r) == {q \in Readers \ {r} : phase[q] = "called"}

GetNothing(r) ==
    /\ ask[r] # "wait"
    /\ ~live \/ Len(pending) <= Cardinality(OthersCalling(r))
    /\ Finish(r, Nothing)
    /\ UNCHANGED pending

Fail(r) ==
    /\ ~live
    /\ Finish(r, Error)
    /\ UNCHANGED pending

Return(r) ==
    /\ phase[r] = "done"
    /\ phase' = [phase EXCEPT ![r] = "idle"]
    /\ answer' = [answer EXCEPT ![r] = NoAnswer]
    /\ UNCHANGED <<arrived, pending, live, ask>>

Next ==
    \/ Open \/ Lose \/ Discard \/ Arrive
    \/ \E r \in Readers : Call(r) \/ Get(r) \/ GetNothing(r) \/ Fail(r) \/ Return(r)

Spec == Init /\ [][Next]_vars
================================================================================
