-------------------------- MODULE ProvisioningData --------------------------
(***************************************************************************)
(* The values the provisioning code moves around, reduced to what its      *)
(* decisions compare: the Wi-Fi network, the identity (device id, MQTT     *)
(* password and private key, which are only ever copied together) and the  *)
(* SHA-256 receipt of the claim code.                                      *)
(***************************************************************************)
CONSTANTS
  Wifi,    \* networks: SSID and password together
  Codes,   \* one-use claim codes
  Keys,    \* key material of claim attempts; a claimed identity is its key
  CliIds,  \* identities supplied over nivalo.cli.provision.v1
  None     \* an empty string, an absent or unparsable record

Ids == Keys \cup CliIds

\* NivaloRuntimeCredentials that valid() accepts.
Cred == [wifi : Wifi, id : Ids, receipt : Codes \cup {None}]

\* NivaloPendingClaimAttempt that valid() accepts: one key per attempt.
Attempt == [wifi : Wifi, code : Codes, key : Keys]

\* A provisioned identity never equals a claimed one: it has no private key.
ASSUME DataAssumption ==
  /\ None \notin Cred \cup Attempt \cup Wifi \cup Codes \cup Ids
  /\ Keys \cap CliIds = {}

\* pendingIdentityWasCommitted: the attempt's key and MQTT credential are the
\* ones of the given credentials.
PendingIdentityWasCommitted(c, a) ==
  /\ c # None
  /\ a # None
  /\ c.id = a.key
=============================================================================
