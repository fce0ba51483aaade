-------------------------- MODULE MCFirmwareUpdate --------------------------
(* Small instances of the firmware update. *)
EXTENDS FirmwareUpdate, TLC
=============================================================================
