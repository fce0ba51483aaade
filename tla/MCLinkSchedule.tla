----------------------------- MODULE MCLinkSchedule -----------------------------
(* A small instance of the link's schedule. *)
EXTENDS LinkSchedule
=================================================================================
