-------------------------------- MODULE MCHidOsx --------------------------------
(* Two threads read from a device that sends up to three reports. *)
EXTENDS HidOsx
================================================================================
