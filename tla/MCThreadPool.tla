------------------------------ MODULE MCThreadPool -----------------------------
(***************************************************************************)
(* TLC instances of ThreadPool.                                             *)
(***************************************************************************)
EXTENDS ThreadPool
===============================================================================
