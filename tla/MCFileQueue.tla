------------------------------ MODULE MCFileQueue ------------------------------
(***************************************************************************)
(* TLC instances of FileQueue, which differ in what may go wrong.           *)
(***************************************************************************)
EXTENDS FileQueue
===============================================================================
