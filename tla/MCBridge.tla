------------------------------- MODULE MCBridge -------------------------------
(* A small instance of the way from the secondary MCU to the broker. *)
EXTENDS Bridge
=================================================================================
