----------------------------- MODULE MCThreadEvent -----------------------------
(***************************************************************************)
(* TLC instances of ThreadEvent.                                            *)
(***************************************************************************)
EXTENDS ThreadEvent
===============================================================================
