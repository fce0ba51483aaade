------------------------ MODULE MCProvisioningStore -------------------------
(* Small instance of the store, called in any order by any caller. *)
EXTENDS ProvisioningStore
=============================================================================
