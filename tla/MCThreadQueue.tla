----------------------------- MODULE MCThreadQueue -----------------------------
(***************************************************************************)
(* TLC instance of ThreadQueue.  One thread makes every call there is, with*)
(* peek() asked for the oldest value and for the top; another pushes and   *)
(* removes what can be pushed, at both ends; the third pushes one value    *)
(* and shifts.  So three threads wait and are woken in every combination,  *)
(* and two kinds of values pass each other.                                *)
(***************************************************************************)
EXTENDS ThreadQueue

CONSTANTS t1, t2, v1

Ends == {1, -1}

MCCalls == [t \in Threads |->
    CASE t = t1 -> Calls
      [] t = t2 -> {c \in PushCalls : c.val \in Values} \cup RemoveCalls
      [] OTHER -> {c \in PushCalls : c.val = v1} \cup {c \in RemoveCalls : c.op = "shift"}]

\* CallsReturn of the thread that makes every call (thread.lua:214-249): its calls
\* return, or have no timeout and stay blocked.
CallsReturnToOne == Returns(t1)
================================================================================
