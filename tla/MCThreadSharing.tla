---------------------------- MODULE MCThreadSharing ----------------------------
(***************************************************************************)
(* TLC instances of ThreadSharing: two threads, a queue and a thread       *)
(* object to pass around.                                                  *)
(***************************************************************************)
EXTENDS ThreadSharing

CONSTANTS q, w

Kinds == [o \in {q, w} |-> IF o = q THEN "queue" ELSE "thread"]
===============================================================================
