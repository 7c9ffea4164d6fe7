--------------------------- MODULE MCArrayLinkedList ---------------------------
(***************************************************************************)
(* TLC instance of ArrayLinkedList.  Four links are enough for a link      *)
(* between two others to move past a third, and for three freed indices to *)
(* be reused in any order.                                                 *)
(***************************************************************************)
EXTENDS ArrayLinkedList
===============================================================================
