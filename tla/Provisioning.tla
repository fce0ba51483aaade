---------------------------- MODULE Provisioning ----------------------------
(***************************************************************************)
(* NivaloProvisioning: the setup portal, the serial interface and the      *)
(* connection state machine, over the durable ProvisioningStore.           *)
(*                                                                         *)
(* The program is single-threaded, so a handler that writes flash is a     *)
(* Begin action, the store's steps, and a continuation; only power loss    *)
(* comes between.  Timers are nondeterministic: a step guarded by an       *)
(* elapsed interval may be taken at any time in its state.  The network,   *)
(* the clock and the MQTT broker answer either way.  The claim server      *)
(* binds a code to the first key it accepts and then accepts only that key.*)
(***************************************************************************)
EXTENDS ProvisioningStore, Naturals

CONSTANT MaxClaimFailures  \* 5 in the code

ASSUME MaxClaimFailuresAssumption == MaxClaimFailures \in Nat \ {0}

VARIABLES
  state,             \* _state
  credentials,       \* _credentials
  pendingWifi,       \* _pending.wifiSsid and wifiPassword; the identity in
                     \* _pending is always rewritten just before it is used
  claimAttempt,      \* _claimAttempt
  pendingClaimCode,  \* _pendingClaimCode
  changingWifiOnly,  \* _changingWifiOnly
  claimFailures,     \* _claimFailures
  cliRequest,        \* _cliClaimRequestId is not empty
  restartDue,        \* _cliRestartAt is not 0
  server,            \* the key each code is bound to at the claim server
  usedKeys,          \* key material generated so far
  joined,            \* the network WiFi.begin was last called with
  acked              \* the credentials last reported to the serial host as
                     \* active, until the user asks for something else

ram == <<credentials, pendingWifi, claimAttempt, pendingClaimCode,
         changingWifiOnly, claimFailures>>
serial == <<cliRequest, restartDue, acked>>
world == <<server, usedKeys>>

vars == <<storeVars, state, joined, ram, serial, world>>

States == {"STARTING", "CONNECTING_WIFI", "SYNCING_TIME", "CLAIMING", "READY",
           "SETUP_PORTAL", "ERROR"}

\* loop() runs: begin() has returned and no handler is in progress.
Running ==
  /\ state # "STARTING"
  /\ job = NoJob

Init ==
  /\ StoreInit
  /\ state = "STARTING"
  /\ credentials = None
  /\ pendingWifi = None
  /\ claimAttempt = None
  /\ pendingClaimCode = None
  /\ changingWifiOnly = FALSE
  /\ claimFailures = 0
  /\ cliRequest = FALSE
  /\ restartDue = FALSE
  /\ joined = None
  /\ acked = None
  /\ server = [c \in Codes |-> None]
  /\ usedKeys = {}

-----------------------------------------------------------------------------
(* Helpers shared by the handlers *)

StartWifi(w) ==
  /\ state' = "CONNECTING_WIFI"
  /\ joined' = w

\* failCliClaim answers a claim in flight with ok = false.
FailCliClaim == cliRequest' = FALSE

StartPortal ==
  /\ FailCliClaim
  /\ state' = "SETUP_PORTAL"
  /\ UNCHANGED joined

\* The continuation of the job that has just ended.
Ended(kind, pc) ==
  /\ job.kind = kind
  /\ job.pc = pc
  /\ Return

-----------------------------------------------------------------------------
(* begin(): recovery before anything else runs *)

\* A durable CLI stage is finished before a pending claim is considered.
BootResumesStage ==
  /\ state = "STARTING"
  /\ BeginCliResume
  /\ UNCHANGED <<state, joined, ram, serial, world>>

BootStageDone ==
  /\ Ended("cliResume", "done")
  /\ credentials' = job.cred
  /\ StartWifi(job.cred.wifi)
  /\ UNCHANGED <<pendingWifi, claimAttempt, pendingClaimCode,
                 changingWifiOnly, claimFailures, serial, world>>

\* setError: credentials stay empty although flash may hold some.
BootStageFailed ==
  /\ Ended("cliResume", "failed")
  /\ state' = "ERROR"
  /\ UNCHANGED <<joined, ram, serial, world>>

BootLoads ==
  /\ state = "STARTING"
  /\ job = NoJob
  /\ nvs.stage = None
  /\ credentials' = Loaded(nvs)
  /\ claimAttempt' = nvs.pending
  /\ UNCHANGED <<changingWifiOnly, claimFailures, restartDue, acked, world>>

\* The claim was committed before the reset: only its cleanup is missing.
BootCleansCommitted ==
  /\ BootLoads
  /\ PendingIdentityWasCommitted(Loaded(nvs), nvs.pending)
  /\ BeginClearPending("bootCleanup")
  /\ UNCHANGED <<state, joined, pendingWifi, pendingClaimCode, cliRequest>>

BootCleanupDone ==
  /\ Ended("bootCleanup", "done")
  /\ claimAttempt' = None
  /\ StartWifi(credentials.wifi)
  /\ UNCHANGED <<credentials, pendingWifi, pendingClaimCode,
                 changingWifiOnly, claimFailures, serial, world>>

BootCleanupFailed ==
  /\ Ended("bootCleanup", "failed")
  /\ state' = "ERROR"
  /\ UNCHANGED <<joined, ram, serial, world>>

\* Defect: the attempt is retried although its identity is the active one.
BootRetriesCommitted ==
  /\ BootLoads
  /\ nvs.pending # None
  /\ pendingClaimCode' = nvs.pending.code
  /\ pendingWifi' = nvs.pending.wifi
  /\ StartWifi(nvs.pending.wifi)
  /\ UNCHANGED <<storeVars, cliRequest>>

BootRetriesPending ==
  /\ BootLoads
  /\ nvs.pending # None
  /\ ~PendingIdentityWasCommitted(Loaded(nvs), nvs.pending)
  /\ pendingClaimCode' = nvs.pending.code
  /\ pendingWifi' = nvs.pending.wifi
  /\ StartWifi(nvs.pending.wifi)
  /\ UNCHANGED <<storeVars, cliRequest>>

BootConnects ==
  /\ BootLoads
  /\ nvs.pending = None
  /\ Loaded(nvs) # None
  /\ StartWifi(Loaded(nvs).wifi)
  /\ UNCHANGED <<storeVars, pendingWifi, pendingClaimCode, cliRequest>>

BootOpensPortal ==
  /\ BootLoads
  /\ nvs.pending = None
  /\ Loaded(nvs) = None
  /\ StartPortal
  /\ UNCHANGED <<storeVars, pendingWifi, pendingClaimCode>>

Boot ==
  \/ BootResumesStage \/ BootStageDone \/ BootStageFailed
  \/ BootCleansCommitted \/ BootCleanupDone \/ BootCleanupFailed
  \/ BootRetriesPending \/ BootConnects \/ BootOpensPortal

-----------------------------------------------------------------------------
(* loop(): connecting, waiting for the clock, losing the network *)

WifiConnected ==
  /\ Running
  /\ state = "CONNECTING_WIFI"
  /\ state' = "SYNCING_TIME"
  /\ UNCHANGED <<storeVars, joined, ram, serial, world>>

\* The connect timeout; in SYNCING_TIME, the network lost for as long or the
\* last bounded attempt at the clock timed out.
GivesUpConnecting ==
  /\ Running
  /\ state \in {"CONNECTING_WIFI", "SYNCING_TIME"}
  /\ StartPortal
  /\ UNCHANGED <<storeVars, ram, restartDue, acked, world>>

ReadyLosesWifi ==
  /\ Running
  /\ state = "READY"
  /\ changingWifiOnly' = TRUE
  /\ StartPortal
  /\ UNCHANGED <<storeVars, credentials, pendingWifi, claimAttempt,
                 pendingClaimCode, claimFailures, restartDue, acked, world>>

\* Defect: the old network is committed again.
MovedCredentialsStay == [credentials EXCEPT !.receipt = None]

\* continueAfterTimeSync: the current identity over the new network; the
\* receipt of the claim is dropped.
MovedCredentials ==
  [wifi |-> pendingWifi, id |-> credentials.id, receipt |-> None]

TimeSyncedChangesWifi ==
  /\ Running
  /\ state = "SYNCING_TIME"
  /\ changingWifiOnly
  /\ \/ /\ credentials # None
        /\ pendingWifi # None
        /\ BeginWifiChange(MovedCredentials)
        /\ UNCHANGED <<state, joined, cliRequest>>
     \/ /\ StartPortal
        /\ UNCHANGED storeVars
  /\ UNCHANGED <<ram, restartDue, acked, world>>

\* Defect: RAM keeps the previous credentials.
WifiChangeForgotten ==
  /\ Ended("wifiChange", "done")
  /\ state' = "READY"
  /\ UNCHANGED <<joined, ram, serial, world>>

WifiChangeDone ==
  /\ Ended("wifiChange", "done")
  /\ credentials' = job.cred
  /\ state' = "READY"
  /\ UNCHANGED <<joined, pendingWifi, claimAttempt, pendingClaimCode,
                 changingWifiOnly, claimFailures, serial, world>>

WifiChangeFailed ==
  /\ Ended("wifiChange", "failed")
  /\ StartPortal
  /\ UNCHANGED <<ram, restartDue, acked, world>>

TimeSynced ==
  /\ Running
  /\ state = "SYNCING_TIME"
  /\ ~changingWifiOnly
  /\ state' = IF pendingClaimCode # None THEN "CLAIMING" ELSE "READY"
  /\ UNCHANGED <<storeVars, joined, ram, serial, world>>

Connecting ==
  \/ WifiConnected \/ GivesUpConnecting \/ ReadyLosesWifi
  \/ TimeSyncedChangesWifi \/ WifiChangeDone \/ WifiChangeFailed
  \/ TimeSynced

-----------------------------------------------------------------------------
(* loop() in CLAIMING: exchangeClaim && verifyExistingIdentity && commit *)

\* The one-use code accepts the first key and then exact retries of it.
ServerAccepts(a) == server[a.code] \in {None, a.key}

ServerBinds(a) == [server EXCEPT ![a.code] = a.key]

ClaimedCredentials ==
  [wifi |-> pendingWifi, id |-> claimAttempt.key, receipt |-> claimAttempt.code]

\* Defects: one failure too many before the portal; failures not counted.
CountClaimFailureLate ==
  /\ claimFailures' = claimFailures + 1
  /\ IF claimFailures >= MaxClaimFailures
     THEN StartPortal
     ELSE UNCHANGED <<state, joined, cliRequest>>
  /\ UNCHANGED <<credentials, pendingWifi, claimAttempt, pendingClaimCode,
                 changingWifiOnly, restartDue, acked, usedKeys>>

CountClaimFailureForgotten ==
  UNCHANGED <<state, joined, ram, serial, usedKeys>>

\* The fifth failure ends the claim; before that it is retried after a backoff.
\* The counter is capped at the bound it is compared with.
CountClaimFailure ==
  /\ IF claimFailures + 1 >= MaxClaimFailures
     THEN claimFailures' = MaxClaimFailures /\ StartPortal
     ELSE /\ claimFailures' = claimFailures + 1
          /\ UNCHANGED <<state, joined, cliRequest>>
  /\ UNCHANGED <<credentials, pendingWifi, claimAttempt, pendingClaimCode,
                 changingWifiOnly, restartDue, acked, usedKeys>>

ClaimExchanged ==
  /\ Running
  /\ state = "CLAIMING"
  /\ claimAttempt # None
  /\ pendingWifi # None
  /\ ServerAccepts(claimAttempt)
  /\ server' = ServerBinds(claimAttempt)
  /\ BeginClaim(ClaimedCredentials)
  /\ UNCHANGED <<state, joined, ram, serial, usedKeys>>

\* No connection, a rejection, a lost or invalid response, or credentials
\* the broker refuses: the server may have bound the code all the same.
ClaimNotExchanged ==
  /\ Running
  /\ state = "CLAIMING"
  /\ \/ UNCHANGED server
     \/ /\ claimAttempt # None
        /\ ServerAccepts(claimAttempt)
        /\ server' = ServerBinds(claimAttempt)
  /\ CountClaimFailure
  /\ UNCHANGED storeVars

ClaimCommitFailed ==
  /\ Ended("claim", "failed")
  /\ job.at # "supersede"
  /\ CountClaimFailure
  /\ UNCHANGED server

ClaimDone ==
  /\ Ended("claim", "done")
  /\ credentials' = job.cred
  /\ pendingClaimCode' = None
  /\ claimAttempt' = None
  /\ state' = "READY"
  /\ cliRequest' = FALSE
  /\ acked' = IF cliRequest THEN job.cred ELSE acked
  /\ UNCHANGED <<joined, pendingWifi, changingWifiOnly, claimFailures,
                 restartDue, world>>

\* Defect: the host is told ok although the pending secret may remain.
ClaimCleanupIgnored ==
  /\ Ended("claim", "failed")
  /\ job.at = "supersede"
  /\ credentials' = job.cred
  /\ acked' = IF cliRequest THEN job.cred ELSE acked
  /\ cliRequest' = FALSE
  /\ state' = "READY"
  /\ UNCHANGED <<joined, pendingWifi, claimAttempt, pendingClaimCode,
                 changingWifiOnly, claimFailures, restartDue, world>>

ClaimCleanupFailed ==
  /\ Ended("claim", "failed")
  /\ job.at = "supersede"
  /\ credentials' = job.cred
  /\ FailCliClaim
  /\ state' = "ERROR"
  /\ UNCHANGED <<joined, pendingWifi, claimAttempt, pendingClaimCode,
                 changingWifiOnly, claimFailures, restartDue, acked, world>>

Claiming ==
  \/ ClaimExchanged \/ ClaimNotExchanged \/ ClaimCommitFailed
  \/ ClaimDone \/ ClaimCleanupFailed

-----------------------------------------------------------------------------
(* Setup button, factory reset and the portal's form *)

EnterSetupMode ==
  /\ Running
  /\ changingWifiOnly' = (credentials # None)
  /\ StartPortal
  /\ UNCHANGED <<storeVars, credentials, pendingWifi, claimAttempt,
                 pendingClaimCode, claimFailures, restartDue, acked, world>>

\* The RAM copy of a pending attempt survives a factory reset.
FactoryReset ==
  /\ Running
  /\ Clear \/ (Faults /\ UNCHANGED storeVars)
  /\ credentials' = None
  /\ changingWifiOnly' = FALSE
  /\ StartPortal
  /\ acked' = None
  /\ UNCHANGED <<pendingWifi, claimAttempt, pendingClaimCode, claimFailures,
                 restartDue, world>>

\* The same code again reuses the attempt's key with the new network.
ReuseAttempt(w, c) ==
  /\ claimAttempt # None
  /\ claimAttempt.code = c
  /\ claimAttempt' = [claimAttempt EXCEPT !.wifi = w]
  /\ UNCHANGED usedKeys

\* Defect: the same code gets fresh key material.
CreateAttemptAlways(w, c) ==
  \E k \in Keys \ usedKeys :
    /\ claimAttempt' = [wifi |-> w, code |-> c, key |-> k]
    /\ usedKeys' = usedKeys \cup {k}

\* createPendingAttempt draws fresh key material.
CreateAttempt(w, c) ==
  /\ claimAttempt # None => claimAttempt.code # c
  /\ \E k \in Keys \ usedKeys :
       /\ claimAttempt' = [wifi |-> w, code |-> c, key |-> k]
       /\ usedKeys' = usedKeys \cup {k}

\* The random generator or the key generation fails.
CreateFails(c) ==
  /\ Faults
  /\ claimAttempt # None => claimAttempt.code # c
  /\ UNCHANGED <<storeVars, claimAttempt, usedKeys>>

\* Shared by the portal and the serial claim: the submitted values are in RAM
\* before the attempt is known to be durable.
StageClaim(kind, w, c) ==
  /\ pendingWifi' = w
  /\ pendingClaimCode' = c
  /\ \/ /\ ReuseAttempt(w, c) \/ CreateAttempt(w, c)
        /\ BeginSavePending(kind, claimAttempt')
     \/ CreateFails(c)
  /\ UNCHANGED <<state, joined, credentials, changingWifiOnly, claimFailures,
                 cliRequest, restartDue, server>>

PortalClaims(w, c) ==
  /\ Running
  /\ state = "SETUP_PORTAL"
  /\ ~changingWifiOnly
  /\ StageClaim("portalSave", w, c)
  /\ acked' = None

PortalSaveDone ==
  /\ Ended("portalSave", "done")
  /\ claimFailures' = 0
  /\ StartWifi(claimAttempt.wifi)
  /\ UNCHANGED <<credentials, pendingWifi, claimAttempt, pendingClaimCode,
                 changingWifiOnly, serial, world>>

PortalSaveFailed ==
  /\ Ended("portalSave", "failed")
  /\ UNCHANGED <<state, joined, ram, serial, world>>

PortalChangesWifi(w) ==
  /\ Running
  /\ state = "SETUP_PORTAL"
  /\ changingWifiOnly
  /\ pendingWifi' = w
  /\ pendingClaimCode' = None
  /\ StartWifi(w)
  /\ acked' = None
  /\ UNCHANGED <<storeVars, credentials, claimAttempt, changingWifiOnly,
                 claimFailures, cliRequest, restartDue, world>>

Setup ==
  \/ EnterSetupMode \/ FactoryReset \/ PortalSaveDone \/ PortalSaveFailed
  \/ \E w \in Wifi : PortalChangesWifi(w)
  \/ \E w \in Wifi, c \in Codes : PortalClaims(w, c)

-----------------------------------------------------------------------------
(* Serial requests.  A request the guards reject is answered ok = false and *)
(* changes nothing, so it is not a step.                                    *)

CliClaims(w, c) ==
  /\ Running
  /\ ~cliRequest
  /\ credentials = None
  /\ StageClaim("cliSave", w, c)
  /\ acked' = None

CliSaveDone ==
  /\ Ended("cliSave", "done")
  /\ changingWifiOnly' = FALSE
  /\ claimFailures' = 0
  /\ cliRequest' = TRUE
  /\ StartWifi(claimAttempt.wifi)
  /\ UNCHANGED <<credentials, pendingWifi, claimAttempt, pendingClaimCode,
                 restartDue, acked, world>>

CliSaveFailed ==
  /\ Ended("cliSave", "failed")
  /\ UNCHANGED <<state, joined, ram, serial, world>>

\* The committed receipt answers a repeated request without an exchange.
ReplayMatches(w, c) ==
  /\ credentials # None
  /\ credentials.receipt = c
  /\ credentials.wifi = w

OrdinaryStartup ==
  /\ state \in {"CONNECTING_WIFI", "SYNCING_TIME"}
  /\ claimAttempt = None
  /\ ~changingWifiOnly

RecoveryRequired == state \in {"STARTING", "SETUP_PORTAL", "ERROR"}

ForgetClaim ==
  /\ claimAttempt' = None
  /\ pendingClaimCode' = None
  /\ changingWifiOnly' = FALSE
  /\ acked' = credentials
  /\ UNCHANGED <<credentials, pendingWifi, claimFailures, cliRequest,
                 restartDue, world>>

CliReplayPreserves ==
  /\ Running
  /\ ~cliRequest
  /\ \E w \in Wifi, c \in Codes : ReplayMatches(w, c)
  /\ state = "READY" \/ OrdinaryStartup
  /\ ForgetClaim
  /\ UNCHANGED <<storeVars, state, joined>>

CliReplayRecovers ==
  /\ Running
  /\ ~cliRequest
  /\ \E w \in Wifi, c \in Codes : ReplayMatches(w, c)
  /\ RecoveryRequired
  /\ BeginClearPending("replay")
  /\ UNCHANGED <<state, joined, ram, serial, world>>

\* resumeAction: reconnect, or go on where the network or the clock is.  In
\* the portal the radio is an access point and cannot be connected.
CliReplayDone ==
  /\ Ended("replay", "done")
  /\ ForgetClaim
  /\ \/ StartWifi(credentials.wifi)
     \/ /\ state # "SETUP_PORTAL"
        /\ state' \in {"SYNCING_TIME", "READY"}
        /\ UNCHANGED joined

CliReplayFailed ==
  /\ Ended("replay", "failed")
  /\ UNCHANGED <<state, joined, ram, serial, world>>

CliProvisions(w, i) ==
  /\ Running
  /\ ~cliRequest
  /\ BeginCliStart([wifi |-> w, id |-> i, receipt |-> None])
  /\ acked' = None
  /\ UNCHANGED <<state, joined, ram, cliRequest, restartDue, world>>

\* Defect: the superseded attempt stays in RAM.
CliProvisionKeepsAttempt ==
  /\ Ended("cliStart", "done")
  /\ credentials' = job.cred
  /\ restartDue' = TRUE
  /\ acked' = job.cred
  /\ UNCHANGED <<state, joined, pendingWifi, claimAttempt, pendingClaimCode,
                 changingWifiOnly, claimFailures, cliRequest, world>>

\* The state machine keeps its state; a restart follows in 500 ms.
CliProvisionDone ==
  /\ Ended("cliStart", "done")
  /\ credentials' = job.cred
  /\ pendingWifi' = None
  /\ claimAttempt' = None
  /\ pendingClaimCode' = None
  /\ restartDue' = TRUE
  /\ acked' = job.cred
  /\ UNCHANGED <<state, joined, changingWifiOnly, claimFailures, cliRequest,
                 world>>

CliProvisionFailed ==
  /\ Ended("cliStart", "failed")
  /\ UNCHANGED <<state, joined, ram, serial, world>>

Serial ==
  \/ \E w \in Wifi, c \in Codes : CliClaims(w, c)
  \/ CliSaveDone \/ CliSaveFailed
  \/ CliReplayPreserves \/ CliReplayRecovers
  \/ CliReplayDone \/ CliReplayFailed
  \/ \E w \in Wifi, i \in CliIds : CliProvisions(w, i)
  \/ CliProvisionDone \/ CliProvisionFailed

-----------------------------------------------------------------------------

FlashStep ==
  /\ StepOk \/ StepFails
  /\ UNCHANGED <<state, joined, ram, serial, world>>

\* A reset at any moment, even inside a handler; RAM starts over.
LosePower ==
  /\ PowerLoss
  /\ state' = "STARTING"
  /\ credentials' = None
  /\ pendingWifi' = None
  /\ claimAttempt' = None
  /\ pendingClaimCode' = None
  /\ changingWifiOnly' = FALSE
  /\ claimFailures' = 0
  /\ cliRequest' = FALSE
  /\ restartDue' = FALSE
  /\ joined' = None
  /\ UNCHANGED <<acked, world>>

Restart ==
  /\ restartDue
  /\ Running
  /\ LosePower

Next ==
  Boot \/ Connecting \/ Claiming \/ Setup \/ Serial \/ FlashStep
  \/ LosePower \/ Restart

\* What the device does by itself: its main loop keeps running, every timer it
\* waits on elapses, and every call it makes returns.
DeviceStep ==
  \/ Boot \/ Connecting \/ Claiming \/ FlashStep
  \/ PortalSaveDone \/ PortalSaveFailed
  \/ CliSaveDone \/ CliSaveFailed
  \/ CliReplayDone \/ CliReplayFailed
  \/ CliProvisionDone \/ CliProvisionFailed

Spec == Init /\ [][Next]_vars

FairSpec == Spec /\ WF_vars(DeviceStep)

-----------------------------------------------------------------------------
(* Properties *)

TypeOK ==
  /\ StoreTypeOK
  /\ state \in States
  /\ credentials \in Cred \cup {None}
  /\ pendingWifi \in Wifi \cup {None}
  /\ claimAttempt \in Attempt \cup {None}
  /\ pendingClaimCode \in Codes \cup {None}
  /\ changingWifiOnly \in BOOLEAN
  /\ claimFailures \in 0..MaxClaimFailures
  /\ cliRequest \in BOOLEAN
  /\ restartDue \in BOOLEAN
  /\ server \in [Codes -> Keys \cup {None}]
  /\ usedKeys \subseteq Keys
  /\ joined \in Wifi \cup {None}
  /\ acked \in Cred \cup {None}

\* Even with failing writes, the two transactions that install an identity
\* report success only once it is in flash and no older claim can retry.
InstalledBeforeAck ==
  [][/\ job.kind \in {"claim", "cliStart"}
     /\ acked' # acked
     => Loaded(nvs) = acked' /\ nvs.pending = None]_vars

\* An acknowledged identity, the user asking for nothing else, can only be
\* displaced by boot recovery of a stage an earlier failed request left.
AckedDisplacedOnlyByStage ==
  [][/\ acked # None
     /\ Loaded(nvs) = acked
     /\ Loaded(nvs') # acked
     => job.kind = "cliResume" \/ acked' = None]_vars

\* README, "CLI serial provisioning": a failed write "leaves a retryable stage
\* and cannot acknowledge an identity that the next boot would silently
\* replace".
AckedSurvives ==
  acked # None /\ job = NoJob => Loaded(nvs) = acked

\* README: "Before its first HTTPS request, the device ... persists the entire
\* pending attempt": the server never binds a code to a key that a reset would
\* lose.
ExchangeIsDurable ==
  [][server' # server =>
       nvs.pending # None /\ nvs.pending.key = claimAttempt.key]_vars

\* A resubmitted code keeps its key: the durable attempt never changes key
\* under the same code, so a lost response can be retried exactly.
SameCodeSameKey ==
  [][nvs.pending # None /\ nvs'.pending # None
     /\ nvs.pending.code = nvs'.pending.code
     => nvs'.pending.key = nvs.pending.key]_vars

\* A committed claim is never exchanged again, even when the reset fell
\* between the selector write and the pending cleanup.
NoExchangeAfterCommit ==
  state = "CLAIMING" /\ job = NoJob =>
    ~PendingIdentityWasCommitted(Loaded(nvs), claimAttempt)

\* Credentials are committed with the network the device has just joined,
\* never with one that was only typed in.
CommittedWifiWasJoined ==
  job.kind \in {"claim", "wifiChange"} => job.cred.wifi = joined

\* Between handlers, RAM and flash agree on who the device is.
RamMatchesFlash ==
  state # "STARTING" /\ job = NoJob => credentials = Loaded(nvs)

\* Whatever fails, a device that runs with an identity still has one in flash,
\* and a device that is READY has one to run with.
IdentityNeverLost ==
  /\ credentials # None => Loaded(nvs) # None
  /\ state = "READY" => credentials # None

\* Every accepted serial claim is answered, or lost with the power.
CliClaimAnswered == cliRequest ~> ~cliRequest
=============================================================================
