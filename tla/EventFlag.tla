------------------------------- MODULE EventFlag -------------------------------
(***************************************************************************)
(* What a thread.event promises the threads that share it: a flag that is  *)
(* set, cleared and tested in one step of a call, and a wait that returns  *)
(* true at a moment when the flag is set, or gives up, if it was given a   *)
(* timeout, at a moment when it is not.                                    *)
(***************************************************************************)
EXTENDS Integers

CONSTANT Threads

VARIABLES
    flag,       \* 1 when the event is set
    phase,      \* where each thread is in its call
    call,       \* the call each thread is in
    result      \* what a finished call is about to return

vars == <<flag, phase, call, result>>

Calls == [op : {"set", "clear", "isset"}] \cup [op : {"wait"}, timed : BOOLEAN]
NoCall == [op |-> "none"]
NoResult == "none"

Finish(t, r) ==
    /\ phase[t] = "called"
    /\ phase' = [phase EXCEPT ![t] = "done"]
    /\ result' = [result EXCEPT ![t] = r]
    /\ UNCHANGED call

Init ==
    /\ flag \in {0, 1}
    /\ phase = [t \in Threads |-> "idle"]
    /\ call = [t \in Threads |-> NoCall]
    /\ result = [t \in Threads |-> NoResult]

Invoke(t) ==
    /\ phase[t] = "idle"
    /\ \E c \in Calls : call' = [call EXCEPT ![t] = c]
    /\ phase' = [phase EXCEPT ![t] = "called"]
    /\ UNCHANGED <<flag, result>>

Assign(t) ==
    /\ \/ call[t].op = "set" /\ flag' = 1
       \/ call[t].op = "clear" /\ flag' = 0
    /\ Finish(t, NoResult)

IsSet(t) ==
    /\ call[t].op = "isset"
    /\ Finish(t, IF flag = 1 THEN "true" ELSE "false")
    /\ UNCHANGED flag

See(t) ==
    /\ call[t].op = "wait"
    /\ flag = 1
    /\ Finish(t, "true")
    /\ UNCHANGED flag

GiveUp(t) ==
    /\ call[t].op = "wait" /\ call[t].timed
    /\ flag = 0
    /\ Finish(t, "false")
    /\ UNCHANGED flag

Return(t) ==
    /\ phase[t] = "done"
    /\ phase' = [phase EXCEPT ![t] = "idle"]
    /\ call' = [call EXCEPT ![t] = NoCall]
    /\ result' = [result EXCEPT ![t] = NoResult]
    /\ UNCHANGED flag

Next == \E t \in Threads :
    Invoke(t) \/ Assign(t) \/ IsSet(t) \/ See(t) \/ GiveUp(t) \/ Return(t)

Spec == Init /\ [][Next]_vars
===============================================================================
