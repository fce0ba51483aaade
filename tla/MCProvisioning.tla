--------------------------- MODULE MCProvisioning ---------------------------
(* Small instances of the provisioning state machine. *)
EXTENDS Provisioning
=============================================================================
