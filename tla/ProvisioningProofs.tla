------------------------- MODULE ProvisioningProofs -------------------------
(***************************************************************************)
(* Proofs about the whole provisioning state machine: its types; that      *)
(* whatever it does with the store is what ProvisioningStore allows, so    *)
(* that the theorems of ProvisioningStoreProofs hold in the device; and    *)
(* its safety properties, from three inductive invariants that build on    *)
(* each other: IdentityInv, whatever writes fail, then FlashInv and        *)
(* ClaimInv, for writes that work.                                         *)
(***************************************************************************)
EXTENDS Provisioning, ProvisioningStoreProofs

\* The networks, codes and keys the state machine keeps in RAM.
RamTypeOK ==
  /\ state \in States
  /\ credentials \in Cred \cup {None}
  /\ pendingWifi \in Wifi \cup {None}
  /\ claimAttempt \in Attempt \cup {None}
  /\ pendingClaimCode \in Codes \cup {None}
  /\ changingWifiOnly \in BOOLEAN
  /\ claimFailures \in 0..MaxClaimFailures

\* What the serial host and the claim server know.
OutsideTypeOK ==
  /\ cliRequest \in BOOLEAN
  /\ restartDue \in BOOLEAN
  /\ server \in [Codes -> Keys \cup {None}]
  /\ usedKeys \subseteq Keys
  /\ joined \in Wifi \cup {None}
  /\ acked \in Cred \cup {None}

\* The type invariant splits into store, RAM and everything else.
LEMMA TypeParts == TypeOK <=> StoreTypeOK /\ RamTypeOK /\ OutsideTypeOK
BY DEF TypeOK, RamTypeOK, OutsideTypeOK

-----------------------------------------------------------------------------
(* Values the handlers build *)

\* The network of credentials is one, and so are the parts of an attempt.
LEMMA FieldTypes ==
  /\ \A c \in Cred : c.wifi \in Wifi /\ c.id \in Ids
  /\ \A a \in Attempt : a.wifi \in Wifi /\ a.code \in Codes /\ a.key \in Keys
BY DEF Cred, Attempt

\* The claimed credentials are complete once a network and an attempt are.
LEMMA ClaimedIsCred ==
  ASSUME RamTypeOK, claimAttempt # None, pendingWifi # None
  PROVE  ClaimedCredentials \in Cred
<1>1. claimAttempt \in Attempt /\ pendingWifi \in Wifi
  BY DEF RamTypeOK
<1> QED
  BY <1>1, FieldTypes DEF ClaimedCredentials, Cred, Ids

\* So are the credentials of a Wi-Fi change.
LEMMA MovedIsCred ==
  ASSUME RamTypeOK, credentials # None, pendingWifi # None
  PROVE  MovedCredentials \in Cred
<1>1. credentials \in Cred /\ pendingWifi \in Wifi
  BY DEF RamTypeOK
<1> QED
  BY <1>1, FieldTypes DEF MovedCredentials, Cred

\* Staging a claim leaves a whole attempt in RAM and begins saving just that.
LEMMA StageClaimSaves ==
  ASSUME TypeOK, NEW kind \in SaveKinds, NEW w \in Wifi, NEW c \in Codes,
         StageClaim(kind, w, c)
  PROVE  /\ claimAttempt' \in Attempt \cup {None}
         /\ usedKeys' \subseteq Keys
         /\ \/ \E a \in Attempt : BeginSavePending(kind, a)
            \/ UNCHANGED storeVars
<1> USE DEF TypeOK
<1>1. CASE ReuseAttempt(w, c) /\ BeginSavePending(kind, claimAttempt')
  <2>1. claimAttempt \in Attempt
    BY <1>1 DEF ReuseAttempt
  <2>2. claimAttempt' \in Attempt
    BY <1>1, <2>1 DEF ReuseAttempt, Attempt
  <2> QED
    BY <1>1, <2>2 DEF ReuseAttempt
<1>2. CASE CreateAttempt(w, c) /\ BeginSavePending(kind, claimAttempt')
  <2>1. claimAttempt' \in Attempt /\ usedKeys' \subseteq Keys
    BY <1>2 DEF CreateAttempt, Attempt
  <2> QED
    BY <1>2, <2>1
<1>3. CASE CreateFails(c)
  BY <1>3 DEF CreateFails
<1> QED
  BY <1>1, <1>2, <1>3 DEF StageClaim

-----------------------------------------------------------------------------
(* Every step of the device is a step of the store, or leaves it alone *)

\* begin() touches flash only by resuming a stage or clearing a committed claim.
LEMMA BootStoreStep ==
  ASSUME Boot
  PROVE  StoreNext \/ UNCHANGED storeVars
<1>1. BootResumesStage => BeginCliResume
  BY DEF BootResumesStage
<1>2. BootStageDone \/ BootStageFailed \/ BootCleanupDone \/ BootCleanupFailed
        => Return
  BY DEF BootStageDone, BootStageFailed, BootCleanupDone, BootCleanupFailed, Ended
<1>3. BootCleansCommitted => \E k \in CleanupKinds : BeginClearPending(k)
  BY DEF BootCleansCommitted, CleanupKinds
<1>4. BootRetriesPending \/ BootConnects \/ BootOpensPortal => UNCHANGED storeVars
  BY DEF BootRetriesPending, BootConnects, BootOpensPortal
<1> QED
  BY <1>1, <1>2, <1>3, <1>4 DEF Boot, StoreNext, Calls

\* The connection states touch flash only to commit a Wi-Fi change.
LEMMA ConnectingStoreStep ==
  ASSUME TypeOK, Connecting
  PROVE  StoreNext \/ UNCHANGED storeVars
<1>1. WifiConnected \/ GivesUpConnecting \/ ReadyLosesWifi \/ TimeSynced
        => UNCHANGED storeVars
  BY DEF WifiConnected, GivesUpConnecting, ReadyLosesWifi, TimeSynced
<1>2. WifiChangeDone \/ WifiChangeFailed => Return
  BY DEF WifiChangeDone, WifiChangeFailed, Ended
<1>3. TimeSyncedChangesWifi =>
        (\E c \in Cred : BeginWifiChange(c)) \/ UNCHANGED storeVars
  BY TypeParts, MovedIsCred DEF TimeSyncedChangesWifi
<1> QED
  BY <1>1, <1>2, <1>3 DEF Connecting, StoreNext, Calls

\* CLAIMING touches flash only to commit the claimed credentials.
LEMMA ClaimingStoreStep ==
  ASSUME TypeOK, Claiming
  PROVE  StoreNext \/ UNCHANGED storeVars
<1>1. ClaimExchanged => \E c \in Cred : BeginClaim(c)
  BY TypeParts, ClaimedIsCred DEF ClaimExchanged
<1>2. ClaimNotExchanged => UNCHANGED storeVars
  BY DEF ClaimNotExchanged
<1>3. ClaimCommitFailed \/ ClaimDone \/ ClaimCleanupFailed => Return
  BY DEF ClaimCommitFailed, ClaimDone, ClaimCleanupFailed, Ended
<1> QED
  BY <1>1, <1>2, <1>3 DEF Claiming, StoreNext, Calls

\* Button, reset and form touch flash only to clear it or to save an attempt.
LEMMA SetupStoreStep ==
  ASSUME TypeOK, Setup
  PROVE  StoreNext \/ UNCHANGED storeVars
<1>1. EnterSetupMode => UNCHANGED storeVars
  BY DEF EnterSetupMode
<1>2. FactoryReset => Clear \/ UNCHANGED storeVars
  BY DEF FactoryReset
<1>3. PortalSaveDone \/ PortalSaveFailed => Return
  BY DEF PortalSaveDone, PortalSaveFailed, Ended
<1>4. ASSUME NEW w \in Wifi, PortalChangesWifi(w)
      PROVE  UNCHANGED storeVars
  BY <1>4 DEF PortalChangesWifi
<1>5. ASSUME NEW w \in Wifi, NEW c \in Codes, PortalClaims(w, c)
      PROVE  \/ \E a \in Attempt : BeginSavePending("portalSave", a)
             \/ UNCHANGED storeVars
  <2>1. StageClaim("portalSave", w, c) /\ "portalSave" \in SaveKinds
    BY <1>5 DEF PortalClaims, SaveKinds
  <2> QED
    BY <2>1, StageClaimSaves
<1> QED
  BY <1>1, <1>2, <1>3, <1>4, <1>5 DEF Setup, StoreNext, Calls, SaveKinds

\* Serial requests touch flash only by saving an attempt, clearing the
\* pending claim or starting the provisioning transaction.
LEMMA SerialStoreStep ==
  ASSUME TypeOK, Serial
  PROVE  StoreNext \/ UNCHANGED storeVars
<1>1. ASSUME NEW w \in Wifi, NEW c \in Codes, CliClaims(w, c)
      PROVE  \/ \E a \in Attempt : BeginSavePending("cliSave", a)
             \/ UNCHANGED storeVars
  <2>1. StageClaim("cliSave", w, c) /\ "cliSave" \in SaveKinds
    BY <1>1 DEF CliClaims, SaveKinds
  <2> QED
    BY <2>1, StageClaimSaves
<1>2. CliSaveDone \/ CliSaveFailed \/ CliReplayDone \/ CliReplayFailed
        \/ CliProvisionDone \/ CliProvisionFailed => Return
  BY DEF CliSaveDone, CliSaveFailed, CliReplayDone, CliReplayFailed,
         CliProvisionDone, CliProvisionFailed, Ended
<1>3. CliReplayPreserves => UNCHANGED storeVars
  BY DEF CliReplayPreserves
<1>4. CliReplayRecovers => \E k \in CleanupKinds : BeginClearPending(k)
  BY DEF CliReplayRecovers, CleanupKinds
<1>5. ASSUME NEW w \in Wifi, NEW i \in CliIds, CliProvisions(w, i)
      PROVE  \E c \in Cred : BeginCliStart(c)
  BY <1>5 DEF CliProvisions, Cred, Ids
<1> QED
  BY <1>1, <1>2, <1>3, <1>4, <1>5 DEF Serial, StoreNext, Calls, SaveKinds

\* So every step of the device is a step of the store or leaves flash alone.
LEMMA NextStoreStep ==
  ASSUME TypeOK, [Next]_vars
  PROVE  [StoreNext]_storeVars
<1>1. FlashStep \/ LosePower \/ Restart => StoreNext
  BY DEF FlashStep, LosePower, Restart, StoreNext
<1>2. UNCHANGED vars => UNCHANGED storeVars
  BY DEF vars
<1> QED
  BY <1>1, <1>2, BootStoreStep, ConnectingStoreStep, ClaimingStoreStep,
     SetupStoreStep, SerialStoreStep DEF Next

-----------------------------------------------------------------------------
(* The inductive invariant of the device *)

\* The continuation of a save reads the attempt, that of a cleanup the
\* credentials: both stay in RAM while the store works.
RamHoldsJob ==
  /\ job.kind \in SaveKinds => claimAttempt # None
  /\ job.kind \in CleanupKinds => credentials # None

DeviceInv ==
  /\ IInv
  /\ RamTypeOK
  /\ OutsideTypeOK
  /\ RamHoldsJob

\* The device's invariant contains its type invariant.
LEMMA DeviceInvType == DeviceInv => TypeOK
BY TypeParts DEF DeviceInv, IInv

\* The counter starts at 0 and is capped where it is compared.
LEMMA FailureBounds ==
  /\ 0 \in 0..MaxClaimFailures
  /\ MaxClaimFailures \in 0..MaxClaimFailures
  /\ \A n \in 0..MaxClaimFailures :
       n + 1 >= MaxClaimFailures \/ n + 1 \in 0..MaxClaimFailures
BY MaxClaimFailuresAssumption

\* A blank device that has not booted satisfies the invariant.
LEMMA InitDevice == Init => DeviceInv
<1>1. Init => IInv
  BY InitType, RestInv DEF Init, StoreInit
<1>2. Init => RamTypeOK /\ OutsideTypeOK
  BY FailureBounds DEF Init, RamTypeOK, OutsideTypeOK, States
<1>3. Init => RamHoldsJob
  BY DEF Init, StoreInit, NoJob, RamHoldsJob, SaveKinds, CleanupKinds
<1> QED
  BY <1>1, <1>2, <1>3 DEF DeviceInv

\* A finished commit hands credentials to its continuation.
LEMMA CommitHasCred ==
  ASSUME IInv, job.kind \in CommitKinds
  PROVE  job.cred \in Cred /\ job.cred # None
BY NoneIsNoRecord DEF IInv, JobOnPath

\* begin() keeps RAM and the history variables well typed.
LEMMA BootType ==
  ASSUME DeviceInv, Boot
  PROVE  RamTypeOK' /\ OutsideTypeOK'
<1> USE DEF RamTypeOK, OutsideTypeOK, States, ram, serial, world
<1>d. RamTypeOK /\ OutsideTypeOK /\ IInv /\ RamHoldsJob
  BY DEF DeviceInv
<1>l. Loaded(nvs) \in Cred \cup {None} /\ nvs.pending \in Attempt \cup {None}
  BY <1>d, LoadedType DEF IInv, StoreTypeOK, NvsType
<1>1. CASE BootResumesStage \/ BootStageFailed \/ BootCleanupFailed
  BY <1>1, <1>d DEF BootResumesStage, BootStageFailed, BootCleanupFailed
<1>2. CASE BootStageDone
  <2>1. job.cred \in Cred
    BY <1>2, <1>d, CommitHasCred DEF BootStageDone, Ended, CommitKinds, CliKinds
  <2> QED
    BY <1>2, <1>d, <2>1, FieldTypes DEF BootStageDone, StartWifi
<1>3. CASE BootCleansCommitted
  BY <1>3, <1>d, <1>l DEF BootCleansCommitted, BootLoads
<1>4. CASE BootCleanupDone
  <2>1. credentials \in Cred
    BY <1>4, <1>d DEF BootCleanupDone, Ended, RamHoldsJob, CleanupKinds
  <2> QED
    BY <1>4, <1>d, <2>1, FieldTypes DEF BootCleanupDone, StartWifi
<1>5. CASE BootRetriesPending
  BY <1>5, <1>d, <1>l, FieldTypes DEF BootRetriesPending, BootLoads, StartWifi
<1>6. CASE BootConnects
  BY <1>6, <1>d, <1>l, FieldTypes DEF BootConnects, BootLoads, StartWifi
<1>7. CASE BootOpensPortal
  BY <1>7, <1>d, <1>l DEF BootOpensPortal, BootLoads, StartPortal, FailCliClaim
<1> QED
  BY <1>1, <1>2, <1>3, <1>4, <1>5, <1>6, <1>7 DEF Boot

\* So do the connection states.
LEMMA ConnectingType ==
  ASSUME DeviceInv, Connecting
  PROVE  RamTypeOK' /\ OutsideTypeOK'
<1> USE DEF RamTypeOK, OutsideTypeOK, States, ram, serial, world, StartPortal,
            FailCliClaim
<1>d. RamTypeOK /\ OutsideTypeOK /\ IInv
  BY DEF DeviceInv
<1>1. CASE WifiConnected \/ GivesUpConnecting \/ ReadyLosesWifi \/ TimeSynced
  BY <1>1, <1>d DEF WifiConnected, GivesUpConnecting, ReadyLosesWifi, TimeSynced
<1>2. CASE TimeSyncedChangesWifi \/ WifiChangeFailed
  BY <1>2, <1>d DEF TimeSyncedChangesWifi, WifiChangeFailed
<1>3. CASE WifiChangeDone
  <2>1. job.cred \in Cred
    BY <1>3, <1>d, CommitHasCred DEF WifiChangeDone, Ended, CommitKinds
  <2> QED
    BY <1>3, <1>d, <2>1 DEF WifiChangeDone
<1> QED
  BY <1>1, <1>2, <1>3 DEF Connecting

\* So does a claim, with the failure counter capped at its bound.
LEMMA ClaimingType ==
  ASSUME DeviceInv, Claiming
  PROVE  RamTypeOK' /\ OutsideTypeOK'
<1> USE FailureBounds
    DEF RamTypeOK, OutsideTypeOK, States, ram, serial, world, StartPortal,
        FailCliClaim
<1>d. RamTypeOK /\ OutsideTypeOK /\ IInv
  BY DEF DeviceInv
<1>b. claimAttempt # None => ServerBinds(claimAttempt) \in [Codes -> Keys \cup {None}]
  BY <1>d, FieldTypes DEF ServerBinds
<1>c. CountClaimFailure /\ server' \in [Codes -> Keys \cup {None}]
        => RamTypeOK' /\ OutsideTypeOK'
  <2> SUFFICES ASSUME CountClaimFailure, server' \in [Codes -> Keys \cup {None}]
               PROVE  RamTypeOK' /\ OutsideTypeOK'
    OBVIOUS
  <2>1. claimFailures' \in 0..MaxClaimFailures
    BY <1>d DEF CountClaimFailure
  <2> QED
    BY <1>d, <2>1 DEF CountClaimFailure
<1>1. CASE ClaimExchanged
  BY <1>1, <1>b, <1>d DEF ClaimExchanged
<1>2. CASE ClaimNotExchanged
  BY <1>2, <1>b, <1>c, <1>d DEF ClaimNotExchanged
<1>3. CASE ClaimCommitFailed
  BY <1>3, <1>c, <1>d DEF ClaimCommitFailed
<1>4. CASE ClaimDone \/ ClaimCleanupFailed
  <2>1. job.cred \in Cred
    BY <1>4, <1>d, CommitHasCred DEF ClaimDone, ClaimCleanupFailed, Ended, CommitKinds
  <2> QED
    BY <1>4, <1>d, <2>1 DEF ClaimDone, ClaimCleanupFailed
<1> QED
  BY <1>1, <1>2, <1>3, <1>4 DEF Claiming

\* So do button, factory reset and form.
LEMMA SetupType ==
  ASSUME DeviceInv, Setup
  PROVE  RamTypeOK' /\ OutsideTypeOK'
<1> USE FailureBounds
    DEF RamTypeOK, OutsideTypeOK, States, ram, serial, world, StartPortal,
        FailCliClaim
<1>d. RamTypeOK /\ OutsideTypeOK /\ IInv /\ RamHoldsJob /\ TypeOK
  BY DeviceInvType DEF DeviceInv
<1>1. CASE EnterSetupMode \/ FactoryReset \/ PortalSaveFailed
  BY <1>1, <1>d DEF EnterSetupMode, FactoryReset, PortalSaveFailed
<1>2. CASE PortalSaveDone
  <2>1. claimAttempt \in Attempt
    BY <1>2, <1>d DEF PortalSaveDone, Ended, RamHoldsJob, SaveKinds
  <2> QED
    BY <1>2, <1>d, <2>1, FieldTypes DEF PortalSaveDone, StartWifi
<1>3. ASSUME NEW w \in Wifi, PortalChangesWifi(w)
      PROVE  RamTypeOK' /\ OutsideTypeOK'
  BY <1>3, <1>d DEF PortalChangesWifi, StartWifi
<1>4. ASSUME NEW w \in Wifi, NEW c \in Codes, PortalClaims(w, c)
      PROVE  RamTypeOK' /\ OutsideTypeOK'
  <2>1. StageClaim("portalSave", w, c) /\ "portalSave" \in SaveKinds
    BY <1>4 DEF PortalClaims, SaveKinds
  <2>2. claimAttempt' \in Attempt \cup {None} /\ usedKeys' \subseteq Keys
    BY <1>d, <2>1, StageClaimSaves
  <2> QED
    BY <1>4, <1>d, <2>1, <2>2 DEF PortalClaims, StageClaim
<1> QED
  BY <1>1, <1>2, <1>3, <1>4 DEF Setup

\* So do the serial requests.
LEMMA SerialType ==
  ASSUME DeviceInv, Serial
  PROVE  RamTypeOK' /\ OutsideTypeOK'
<1> USE FailureBounds
    DEF RamTypeOK, OutsideTypeOK, States, ram, serial, world
<1>d. RamTypeOK /\ OutsideTypeOK /\ IInv /\ RamHoldsJob /\ TypeOK
  BY DeviceInvType DEF DeviceInv
<1>1. ASSUME NEW w \in Wifi, NEW c \in Codes, CliClaims(w, c)
      PROVE  RamTypeOK' /\ OutsideTypeOK'
  <2>1. StageClaim("cliSave", w, c) /\ "cliSave" \in SaveKinds
    BY <1>1 DEF CliClaims, SaveKinds
  <2>2. claimAttempt' \in Attempt \cup {None} /\ usedKeys' \subseteq Keys
    BY <1>d, <2>1, StageClaimSaves
  <2> QED
    BY <1>1, <1>d, <2>1, <2>2 DEF CliClaims, StageClaim
<1>2. CASE CliSaveDone
  <2>1. claimAttempt \in Attempt
    BY <1>2, <1>d DEF CliSaveDone, Ended, RamHoldsJob, SaveKinds
  <2> QED
    BY <1>2, <1>d, <2>1, FieldTypes, Zenon DEF CliSaveDone, StartWifi
<1>3. CASE CliSaveFailed \/ CliReplayFailed \/ CliProvisionFailed \/ CliReplayRecovers
  BY <1>3, <1>d DEF CliSaveFailed, CliReplayFailed, CliProvisionFailed, CliReplayRecovers
<1>4. CASE CliReplayPreserves
  BY <1>4, <1>d DEF CliReplayPreserves, ForgetClaim
<1>5. CASE CliReplayDone
  <2>1. credentials \in Cred
    BY <1>5, <1>d DEF CliReplayDone, Ended, RamHoldsJob, CleanupKinds
  <2> QED
    BY <1>5, <1>d, <2>1, FieldTypes DEF CliReplayDone, ForgetClaim, StartWifi
<1>6. ASSUME NEW w \in Wifi, NEW i \in CliIds, CliProvisions(w, i)
      PROVE  RamTypeOK' /\ OutsideTypeOK'
  BY <1>6, <1>d DEF CliProvisions
<1>7. CASE CliProvisionDone
  <2>1. job.cred \in Cred
    BY <1>7, <1>d, CommitHasCred DEF CliProvisionDone, Ended, CommitKinds, CliKinds
  <2> QED
    BY <1>7, <1>d, <2>1 DEF CliProvisionDone
<1> QED
  BY <1>1, <1>2, <1>3, <1>4, <1>5, <1>6, <1>7 DEF Serial

\* A save begins only with an attempt in RAM, a cleanup only with credentials,
\* and nothing touches them before the job returns.
LEMMA RamHoldsJobStep ==
  ASSUME DeviceInv, [Next]_vars
  PROVE  RamHoldsJob'
<1> USE NoneIsNoRecord DEF RamHoldsJob, SaveKinds, CleanupKinds
<1>r. job' = NoJob => RamHoldsJob'
  BY DEF NoJob
<1>1. CASE Boot
  <2>1. CASE BootResumesStage
    BY <2>1 DEF BootResumesStage, BeginCliResume, Begin, Job
  <2>2. CASE BootCleansCommitted
    BY <2>2 DEF BootCleansCommitted, BootLoads, PendingIdentityWasCommitted
  <2>3. CASE BootRetriesPending \/ BootConnects \/ BootOpensPortal
    BY <2>3, <1>r DEF BootRetriesPending, BootConnects, BootOpensPortal, BootLoads,
       storeVars
  <2> QED
    BY <1>1, <1>r, <2>1, <2>2, <2>3 DEF Boot, BootStageDone, BootStageFailed,
       BootCleanupDone, BootCleanupFailed, Ended, Return
<1>2. CASE Connecting
  BY <1>2, <1>r DEF Connecting, WifiConnected, GivesUpConnecting, ReadyLosesWifi,
     TimeSyncedChangesWifi, WifiChangeDone, WifiChangeFailed, TimeSynced, Ended,
     Return, Running, storeVars, BeginWifiChange, Begin, Job
<1>3. CASE Claiming
  BY <1>3, <1>r DEF Claiming, ClaimExchanged, ClaimNotExchanged,
     ClaimCommitFailed, ClaimDone, ClaimCleanupFailed, Ended, Return, Running,
     storeVars, BeginClaim, Begin, Job
<1>4. ASSUME NEW kind \in SaveKinds, NEW w \in Wifi, NEW c \in Codes,
             StageClaim(kind, w, c), Running
      PROVE  RamHoldsJob'
  <2>1. CASE ReuseAttempt(w, c) /\ BeginSavePending(kind, claimAttempt')
    <3>1. claimAttempt \in Attempt
      BY <2>1 DEF ReuseAttempt, DeviceInv, RamTypeOK
    <3>2. claimAttempt' \in Attempt
      BY <2>1, <3>1 DEF ReuseAttempt, Attempt
    <3> QED
      BY <2>1, <3>2 DEF BeginSavePending, Begin, Job
  <2>2. CASE CreateAttempt(w, c) /\ BeginSavePending(kind, claimAttempt')
    <3>1. claimAttempt' \in Attempt
      BY <2>2 DEF CreateAttempt, Attempt
    <3> QED
      BY <2>2, <3>1 DEF BeginSavePending, Begin, Job
  <2>3. CASE CreateFails(c)
    BY <1>4, <2>3, <1>r DEF CreateFails, storeVars, Running
  <2> QED
    BY <1>4, <2>1, <2>2, <2>3 DEF StageClaim
<1>5. CASE Setup
  <2>1. CASE EnterSetupMode \/ FactoryReset \/ PortalSaveDone \/ PortalSaveFailed
    BY <2>1, <1>r DEF EnterSetupMode, FactoryReset, PortalSaveDone,
       PortalSaveFailed, Ended, Return, Running, storeVars, Clear
  <2>2. ASSUME NEW w \in Wifi, PortalChangesWifi(w)
        PROVE  RamHoldsJob'
    BY <2>2, <1>r DEF PortalChangesWifi, Running, storeVars
  <2>3. ASSUME NEW w \in Wifi, NEW c \in Codes, PortalClaims(w, c)
        PROVE  RamHoldsJob'
    BY <2>3, <1>4 DEF PortalClaims
  <2> QED
    BY <1>5, <2>1, <2>2, <2>3 DEF Setup
<1>6. CASE Serial
  <2>1. ASSUME NEW w \in Wifi, NEW c \in Codes, CliClaims(w, c)
        PROVE  RamHoldsJob'
    BY <2>1, <1>4 DEF CliClaims
  <2>2. CASE CliReplayPreserves
    BY <2>2, <1>r DEF CliReplayPreserves, Running, storeVars
  <2>3. CASE CliReplayRecovers
    BY <2>3 DEF CliReplayRecovers, ReplayMatches, BeginClearPending, Begin, Job,
       ram
  <2>4. ASSUME NEW w \in Wifi, NEW i \in CliIds, CliProvisions(w, i)
        PROVE  RamHoldsJob'
    BY <2>4 DEF CliProvisions, BeginCliStart, Begin, Job
  <2>5. CASE CliSaveDone \/ CliSaveFailed \/ CliReplayDone \/ CliReplayFailed
               \/ CliProvisionDone \/ CliProvisionFailed
    BY <2>5, <1>r DEF CliSaveDone, CliSaveFailed, CliReplayDone, CliReplayFailed,
       CliProvisionDone, CliProvisionFailed, Ended, Return
  <2> QED
    BY <1>6, <2>1, <2>2, <2>3, <2>4, <2>5 DEF Serial
<1>7. CASE FlashStep
  <2>1. job \in JobType
    BY DEF DeviceInv, IInv, StoreTypeOK
  <2>2. job'.kind = job.kind
    BY <1>7, <2>1 DEF FlashStep, StepOk, StepFails, JobType
  <2> QED
    BY <1>7, <2>2 DEF FlashStep, ram, DeviceInv
<1>8. CASE LosePower \/ Restart
  BY <1>8, <1>r DEF LosePower, Restart, PowerLoss
<1>9. CASE UNCHANGED vars
  BY <1>9 DEF vars, storeVars, ram, DeviceInv
<1> QED
  BY <1>1, <1>2, <1>3, <1>5, <1>6, <1>7, <1>8, <1>9 DEF Next

\* Every step preserves the device's invariant.
LEMMA NextDevice ==
  ASSUME DeviceInv, [Next]_vars
  PROVE  DeviceInv'
<1>1. IInv'
  BY DeviceInvType, NextStoreStep, NextInv DEF DeviceInv
<1>2. RamTypeOK' /\ OutsideTypeOK'
  <2>1. CASE FlashStep
    BY <2>1 DEF FlashStep, DeviceInv, RamTypeOK, OutsideTypeOK, ram, serial, world
  <2>2. CASE LosePower \/ Restart
    BY <2>2, FailureBounds DEF LosePower, Restart, DeviceInv, RamTypeOK,
       OutsideTypeOK, States, world
  <2>3. CASE UNCHANGED vars
    BY <2>3 DEF vars, DeviceInv, RamTypeOK, OutsideTypeOK, ram, serial, world
  <2> QED
    BY <2>1, <2>2, <2>3, BootType, ConnectingType, ClaimingType, SetupType,
       SerialType DEF Next
<1> QED
  BY <1>1, <1>2, RamHoldsJobStep DEF DeviceInv

\* The device's invariant holds in every reachable state.
LEMMA DeviceInvariant == Spec => []DeviceInv
<1>1. DeviceInv /\ [Next]_vars => DeviceInv'
  BY NextDevice
<1> QED
  BY <1>1, InitDevice, PTL DEF Spec

-----------------------------------------------------------------------------
(* What holds of the device *)

\* The types of the whole provisioning state machine.
THEOREM TypeCorrect == Spec => []TypeOK
BY DeviceInvariant, DeviceInvType, PTL

\* Portal, serial interface, claim and boot recovery use the store only as
\* ProvisioningStore allows: one operation at a time, each on its own path.
THEOREM DeviceRunsStore == Spec => StoreSpec
<1>1. Init => StoreInit
  BY DEF Init
<1>2. DeviceInv /\ [Next]_vars => [StoreNext]_storeVars
  BY DeviceInvType, NextStoreStep
<1> QED
  BY <1>1, <1>2, DeviceInvariant, PTL DEF Spec, StoreSpec

\* In the device as a whole the identity changes atomically.
THEOREM DeviceImplementsAtomicIdentity == Spec => ImplementsAtomicIdentity
BY DeviceRunsStore, StoreImplementsAtomicIdentity, PTL

\* A transaction that lets the device report success has settled in flash.
THEOREM DeviceSettledWhenDone ==
  Spec => [](SettledWhenDone /\ StageOutlivesFailure /\ ClaimDoneWhenSettled)
BY DeviceRunsStore, StoreSettledWhenDone, StoreStageOutlivesFailure,
   StoreClaimDoneWhenSettled, PTL

\* The body of InstalledBeforeAck.
InstalledAck ==
  /\ job.kind \in {"claim", "cliStart"}
  /\ acked' # acked
  => Loaded(nvs) = acked' /\ nvs.pending = None

\* No step that ends a claim or a provisioning acknowledges credentials that
\* are not in flash.
LEMMA AckIsInstalled ==
  ASSUME DeviceInv, Next
  PROVE  InstalledAck
<1> SUFFICES ASSUME job.kind \in {"claim", "cliStart"}, acked' # acked
             PROVE  Loaded(nvs) = acked' /\ nvs.pending = None
  BY DEF InstalledAck
<1>1. job # NoJob
  BY DEF NoJob
<1>2. CASE ClaimDone \/ CliProvisionDone
  <2>1. job.pc = "done" /\ job.kind \in CommitKinds
    BY <1>2 DEF ClaimDone, CliProvisionDone, Ended, CommitKinds, CliKinds
  <2>2. acked' = job.cred
    BY <1>2 DEF ClaimDone, CliProvisionDone
  <2> QED
    BY <2>1, <2>2 DEF DeviceInv, IInv, SelectedIsLoaded, Superseded, Selected,
       CommitKinds, CliKinds
<1>3. ~Boot /\ ~Connecting /\ ~Setup
  BY <1>1 DEF Boot, BootResumesStage, BeginCliResume, Begin, BootStageDone,
     BootStageFailed, BootCleansCommitted, BootLoads, BootCleanupDone,
     BootCleanupFailed, BootRetriesPending, BootConnects, BootOpensPortal,
     Connecting, WifiConnected, GivesUpConnecting, ReadyLosesWifi,
     TimeSyncedChangesWifi, WifiChangeDone, WifiChangeFailed, TimeSynced,
     Setup, EnterSetupMode, FactoryReset, PortalSaveDone, PortalSaveFailed,
     PortalClaims, PortalChangesWifi, Ended, Running
<1>4. CASE Claiming
  BY <1>1, <1>2, <1>4 DEF Claiming, ClaimExchanged, ClaimNotExchanged,
     ClaimCommitFailed, CountClaimFailure, ClaimCleanupFailed, Running
<1>5. CASE Serial
  BY <1>1, <1>2, <1>5 DEF Serial, CliClaims, CliSaveDone, CliSaveFailed,
     CliReplayPreserves, CliReplayRecovers, CliReplayDone, CliReplayFailed,
     CliProvisions, CliProvisionFailed, Ended, Running, serial
<1>6. CASE FlashStep \/ LosePower \/ Restart
  BY <1>6 DEF FlashStep, LosePower, Restart, serial
<1> QED
  BY <1>3, <1>4, <1>5, <1>6 DEF Next

\* The serial host is told ok for a claim or a provisioning only when its
\* identity is in flash and no older claim can replace it, whatever writes fail.
THEOREM DeviceInstalledBeforeAck == Spec => InstalledBeforeAck
<1>1. DeviceInv /\ [Next]_vars => [InstalledAck]_vars
  BY AckIsInstalled
<1> QED
  BY <1>1, DeviceInvariant, PTL DEF Spec, InstalledBeforeAck, InstalledAck

-----------------------------------------------------------------------------
(* Who the device is: what holds whatever writes fail *)

\* The states that end in a commit or in READY.
OnTheWay == {"CONNECTING_WIFI", "SYNCING_TIME"}

\* A commit that fails past the selector has its credentials in flash, and a
\* cleanup that is done left no claim.
SettledJobs ==
  /\ /\ job.kind \in CommitKinds /\ job.pc = "failed"
     /\ job.at \in {"supersede", "verify", "unstage"}
     => Loaded(nvs) = job.cred
  /\ job.kind \in CleanupKinds /\ job.pc = "done" => nvs.pending = None

\* What a job relies on in RAM while it runs, and that begin() starts from
\* empty RAM.
JobsInRam ==
  /\ job.kind \in SaveKinds => pendingClaimCode # None
  /\ job.kind = "wifiChange" => credentials # None /\ job.cred.receipt = None
  /\ job.kind = "claim" => claimAttempt # None
  /\ job.kind \in {"cliResume", "bootCleanup"} => state = "STARTING"
  /\ state = "STARTING" =>
       /\ pendingWifi = None /\ pendingClaimCode = None /\ ~changingWifiOnly
       /\ job.kind \in {"idle", "cliResume", "bootCleanup"}
       /\ job.kind # "bootCleanup" => claimAttempt = None

\* A device that is to become READY without a commit has its credentials.
IdentityKept ==
  /\ credentials # None => Loaded(nvs) # None
  /\ state = "READY" => credentials # None
  /\ state \in OnTheWay /\ ~changingWifiOnly /\ pendingClaimCode = None
       => credentials # None /\ claimAttempt = None

\* Once an identity is acknowledged nothing is left that could replace it: no
\* claim in flash or in RAM, and no commit under way.
NoRival ==
  /\ credentials # None /\ claimAttempt = None => nvs.pending = None
  /\ state = "READY" /\ credentials.receipt # None => claimAttempt = None
  /\ job.kind \in SaveKinds \cup {"cliStart", "claim", "wifiChange", "bootCleanup"}
       => acked = None
  /\ acked # None =>
       /\ nvs.pending = None
       /\ claimAttempt = None
       /\ changingWifiOnly /\ state \in OnTheWay => pendingWifi = None

IdentityInv == SettledJobs /\ JobsInRam /\ IdentityKept /\ NoRival

\* The fields of the jobs that the handlers begin and end.
LEMMA JobFields ==
  /\ NoJob.kind = "idle" /\ NoJob.pc = "done" /\ NoJob.at = "done"
  /\ NoJob.cred = None /\ NoJob.attempt = None
  /\ \A kind, pc, c, a :
       /\ Job(kind, pc, c, a).kind = kind /\ Job(kind, pc, c, a).pc = pc
       /\ Job(kind, pc, c, a).at = pc /\ Job(kind, pc, c, a).cred = c
       /\ Job(kind, pc, c, a).attempt = a
BY DEF NoJob, Job

\* What a write does, whether or not it is reported to have worked: it moves the
\* selector onto the job's credentials, clears or saves the pending claim, or
\* writes or clears the stage, each only in a job of that purpose.
LEMMA FlashEffect ==
  ASSUME IInv, FlashStep
  PROVE  /\ job'.kind = job.kind /\ job'.cred = job.cred
         /\ job'.attempt = job.attempt /\ job'.at = job.pc
         /\ job.pc \in Steps
         /\ \/ Loaded(nvs') = Loaded(nvs)
            \/ /\ job.pc = "select" /\ job.kind \in CommitKinds
               /\ Loaded(nvs') = job.cred
         /\ \/ nvs'.pending = nvs.pending
            \/ job.pc = "supersede" /\ nvs'.pending = None
            \/ /\ job.pc = "save" /\ job.kind \in SaveKinds
               /\ nvs'.pending = job.attempt
         /\ \/ nvs'.stage = nvs.stage
            \/ job.pc = "stage" /\ job.kind \in CliKinds /\ nvs'.stage = job.cred
            \/ job.pc = "unstage" /\ job.kind \in CliKinds /\ nvs'.stage = None
<1>1. nvs \in NvsType /\ job \in JobType
  BY DEF IInv, StoreTypeOK
<1>2. job.pc \in Steps /\ nvs' \in {nvs, Effect(nvs, job)}
  BY DEF FlashStep, StepOk, StepFails
<1>3. /\ job'.kind = job.kind /\ job'.cred = job.cred
      /\ job'.attempt = job.attempt /\ job'.at = job.pc
  BY <1>1 DEF FlashStep, StepOk, StepFails, JobType
<1>4. Other(nvs.active) \in Slots /\ Other(nvs.active) # nvs.active
  BY <1>1, OtherSlot DEF NvsType
<1>5. JobOnPath /\ SlotWritten
  BY DEF IInv
<1>6. \/ Loaded(nvs') = Loaded(nvs)
      \/ /\ job.pc = "select" /\ job.kind \in CommitKinds
         /\ Loaded(nvs') = job.cred
  BY <1>1, <1>2, <1>4, <1>5 DEF Effect, Loaded, NvsType, JobOnPath, SlotWritten,
     CommitKinds, CliKinds, SaveKinds, CleanupKinds, JobType, Kinds, NoJob, Steps
<1>7. \/ nvs'.pending = nvs.pending
      \/ job.pc = "supersede" /\ nvs'.pending = None
      \/ /\ job.pc = "save" /\ job.kind \in SaveKinds
         /\ nvs'.pending = job.attempt
  BY <1>1, <1>2, <1>5 DEF Effect, NvsType, JobOnPath,
     CommitKinds, CliKinds, SaveKinds, CleanupKinds, JobType, Kinds, NoJob, Steps
<1>8. \/ nvs'.stage = nvs.stage
      \/ job.pc = "stage" /\ job.kind \in CliKinds /\ nvs'.stage = job.cred
      \/ job.pc = "unstage" /\ job.kind \in CliKinds /\ nvs'.stage = None
  BY <1>1, <1>2, <1>5 DEF Effect, NvsType, JobOnPath,
     CommitKinds, CliKinds, SaveKinds, CleanupKinds, JobType, Kinds, NoJob, Steps
<1> QED
  BY <1>2, <1>3, <1>6, <1>7, <1>8

\* Only a flash step and a factory reset touch flash.
LEMMA WhoWritesFlash ==
  ASSUME Next
  PROVE  nvs' = nvs \/ FlashStep \/ (FactoryReset /\ Clear)
BY DEF Next, Boot, Connecting, Claiming, Setup, Serial, LosePower, Restart, PowerLoss,
     BootResumesStage, BeginCliResume, Begin, BootStageDone,
     BootStageFailed, BootCleansCommitted, BootLoads, BootCleanupDone,
     BootCleanupFailed, BootRetriesPending, BootConnects, BootOpensPortal,
     WifiConnected, GivesUpConnecting, ReadyLosesWifi, BeginWifiChange, BeginClearPending,
     TimeSyncedChangesWifi, WifiChangeDone, WifiChangeFailed, TimeSynced, BeginClaim,
     ClaimExchanged, ClaimNotExchanged, ClaimCommitFailed, ClaimDone, ClaimCleanupFailed,
     EnterSetupMode, PortalSaveDone, PortalSaveFailed, StageClaim, CreateFails, BeginSavePending,
     PortalClaims, PortalChangesWifi, CliClaims, CliSaveDone, CliSaveFailed,
     CliReplayPreserves, CliReplayRecovers, CliReplayDone, CliReplayFailed,
     CliProvisions, CliProvisionDone, BeginCliStart, CliProvisionFailed, Ended, Return, storeVars,
     FactoryReset

\* What the end of a job tells the handler that continues after it.
LEMMA EndedFacts ==
  ASSUME DeviceInv, NEW kind, NEW pc, Ended(kind, pc)
  PROVE  /\ job.kind = kind /\ job.pc = pc /\ job' = NoJob /\ nvs' = nvs
         /\ kind \in CommitKinds => job.cred \in Cred
         /\ kind \in CommitKinds /\ pc = "done" => Loaded(nvs) = job.cred
         /\ kind \in CliKinds \cup {"claim"} /\ pc = "done" => nvs.pending = None
         /\ kind \in CliKinds /\ pc = "done" => nvs.stage = None
         /\ kind \in SaveKinds => claimAttempt # None
         /\ kind \in CleanupKinds => credentials # None
BY DEF Ended, Return, DeviceInv, IInv, JobOnPath, SelectedIsLoaded, Superseded,
   StageHeld, Selected, CommitKinds, RamHoldsJob

\* A network of None, of credentials or of a pending claim is told apart.
LEMMA NoneIsNothing ==
  /\ None \notin Cred /\ None \notin Attempt /\ None \notin Wifi /\ None \notin Codes
  /\ \A c \in Cred : c.wifi \in Wifi /\ c.id \in Ids /\ c.receipt \in Codes \cup {None}
  /\ \A a \in Attempt : a.wifi \in Wifi /\ a.code \in Codes /\ a.key \in Keys
BY DataAssumption DEF Cred, Attempt

\* begin() preserves IdentityInv.
LEMMA BootKeepsIdentity ==
  ASSUME DeviceInv, IdentityInv, Boot
  PROVE  IdentityInv'
<1> USE JobFields, NoneIsNothing DEF SettledJobs, JobsInRam, IdentityKept, NoRival,
        OnTheWay, CommitKinds, CliKinds, SaveKinds, CleanupKinds, ram, serial,
        storeVars, StartWifi, StartPortal, FailCliClaim
<1>d. SettledJobs /\ JobsInRam /\ IdentityKept /\ NoRival
  BY DEF IdentityInv
<1>l. /\ Loaded(nvs) \in Cred \cup {None} /\ nvs.pending \in Attempt \cup {None}
      /\ nvs.stage \in Cred \cup {None}
      /\ job.kind = "idle" <=> job = NoJob
  BY LoadedType DEF DeviceInv, IInv, StoreTypeOK, NvsType, JobOnPath
<1>1. CASE BootResumesStage
  BY <1>1, <1>d, <1>l DEF BootResumesStage, BeginCliResume, Begin, IdentityInv
<1>2. CASE BootStageDone
  <2>1. /\ job.kind = "cliResume" /\ job' = NoJob /\ nvs' = nvs /\ job.cred \in Cred
        /\ Loaded(nvs) = job.cred /\ nvs.pending = None
    BY <1>2, EndedFacts DEF BootStageDone
  <2> QED
    BY <1>2, <1>d, <1>l, <2>1 DEF BootStageDone, IdentityInv
<1>3. CASE BootStageFailed
  BY <1>3, <1>d, EndedFacts DEF BootStageFailed, IdentityInv
<1>4. CASE BootCleansCommitted
  BY <1>4, <1>d, <1>l DEF BootCleansCommitted, BootLoads, IdentityInv,
     PendingIdentityWasCommitted, BeginClearPending, Begin
<1>5. CASE BootCleanupDone
  BY <1>5, <1>d, <1>l, EndedFacts DEF BootCleanupDone, IdentityInv
<1>6. CASE BootCleanupFailed
  BY <1>6, <1>d, <1>l, EndedFacts DEF BootCleanupFailed, IdentityInv
<1>7. CASE BootRetriesPending
  BY <1>7, <1>d, <1>l DEF BootRetriesPending, BootLoads, IdentityInv
<1>8. CASE BootConnects
  BY <1>8, <1>d, <1>l DEF BootConnects, BootLoads, IdentityInv
<1>9. CASE BootOpensPortal
  BY <1>9, <1>d, <1>l DEF BootOpensPortal, BootLoads, IdentityInv
<1> QED
  BY <1>1, <1>2, <1>3, <1>4, <1>5, <1>6, <1>7, <1>8, <1>9 DEF Boot

\* The connection states preserve it.
LEMMA ConnectingKeepsIdentity ==
  ASSUME DeviceInv, IdentityInv, Connecting
  PROVE  IdentityInv'
<1> USE JobFields, NoneIsNothing DEF SettledJobs, JobsInRam, IdentityKept, NoRival,
        OnTheWay, CommitKinds, CliKinds, SaveKinds, CleanupKinds, ram, serial,
        storeVars, StartWifi, StartPortal, FailCliClaim, Running
<1>d. SettledJobs /\ JobsInRam /\ IdentityKept /\ NoRival
  BY DEF IdentityInv
<1>l. job.kind = "idle" <=> job = NoJob
  BY DEF DeviceInv, IInv, JobOnPath
<1>1. CASE WifiConnected
  BY <1>1, <1>d, <1>l DEF WifiConnected, IdentityInv
<1>2. CASE GivesUpConnecting
  BY <1>2, <1>d, <1>l DEF GivesUpConnecting, IdentityInv
<1>3. CASE ReadyLosesWifi
  BY <1>3, <1>d, <1>l DEF ReadyLosesWifi, IdentityInv
<1>4. CASE TimeSyncedChangesWifi
  <2>1. MovedCredentials.receipt = None
    BY DEF MovedCredentials
  <2> QED
    BY <1>4, <1>d, <1>l, <2>1 DEF TimeSyncedChangesWifi, IdentityInv, BeginWifiChange, Begin
<1>5. CASE WifiChangeDone
  BY <1>5, <1>d, <1>l, EndedFacts DEF WifiChangeDone, IdentityInv
<1>6. CASE WifiChangeFailed
  BY <1>6, <1>d, <1>l, EndedFacts DEF WifiChangeFailed, IdentityInv
<1>7. CASE TimeSynced
  BY <1>7, <1>d, <1>l DEF TimeSynced, IdentityInv
<1> QED
  BY <1>1, <1>2, <1>3, <1>4, <1>5, <1>6, <1>7 DEF Connecting

\* So does a claim.
LEMMA ClaimingKeepsIdentity ==
  ASSUME DeviceInv, IdentityInv, Claiming
  PROVE  IdentityInv'
<1> USE JobFields, NoneIsNothing DEF SettledJobs, JobsInRam, IdentityKept, NoRival,
        OnTheWay, CommitKinds, CliKinds, SaveKinds, CleanupKinds, ram, serial,
        storeVars, StartWifi, StartPortal, FailCliClaim, Running
<1>d. SettledJobs /\ JobsInRam /\ IdentityKept /\ NoRival
  BY DEF IdentityInv
<1>l. job.kind = "idle" <=> job = NoJob
  BY DEF DeviceInv, IInv, JobOnPath
<1>1. CASE ClaimExchanged
  BY <1>1, <1>d, <1>l DEF ClaimExchanged, IdentityInv, BeginClaim, Begin
<1>2. CASE ClaimNotExchanged
  BY <1>2, <1>d, <1>l DEF ClaimNotExchanged, CountClaimFailure, IdentityInv
<1>3. CASE ClaimCommitFailed
  BY <1>3, <1>d, <1>l, EndedFacts DEF ClaimCommitFailed, CountClaimFailure, IdentityInv
<1>4. CASE ClaimDone
  <2>1. /\ job.kind = "claim" /\ job' = NoJob /\ nvs' = nvs /\ job.cred \in Cred
        /\ Loaded(nvs) = job.cred /\ nvs.pending = None
    BY <1>4, EndedFacts DEF ClaimDone
  <2> QED
    BY <1>4, <1>d, <1>l, <2>1 DEF ClaimDone, IdentityInv
<1>5. CASE ClaimCleanupFailed
  <2>1. /\ job.kind = "claim" /\ job.pc = "failed" /\ job' = NoJob /\ nvs' = nvs /\ job.cred \in Cred
    BY <1>5, EndedFacts DEF ClaimCleanupFailed
  <2> QED
    BY <1>5, <1>d, <1>l, <2>1 DEF ClaimCleanupFailed, IdentityInv
<1> QED
  BY <1>1, <1>2, <1>3, <1>4, <1>5 DEF Claiming

\* So does staging a claim.
LEMMA StagingKeepsIdentity ==
  ASSUME DeviceInv, IdentityInv, NEW kind \in SaveKinds, NEW w \in Wifi, NEW c \in Codes,
         StageClaim(kind, w, c), Running, acked' = None,
         (state = "SETUP_PORTAL" /\ ~changingWifiOnly) \/ credentials = None
  PROVE  IdentityInv'
<1> USE JobFields, NoneIsNothing DEF SettledJobs, JobsInRam, IdentityKept, NoRival,
        OnTheWay, CommitKinds, CliKinds, SaveKinds, CleanupKinds, ram, serial,
        storeVars, StartWifi, StartPortal, FailCliClaim, Running
<1>d. SettledJobs /\ JobsInRam /\ IdentityKept /\ NoRival /\ claimAttempt \in Attempt \cup {None}
  BY DEF IdentityInv, DeviceInv, RamTypeOK
<1>l. job.kind = "idle" <=> job = NoJob
  BY DEF DeviceInv, IInv, JobOnPath
<1>1. CASE CreateFails(c)
  BY <1>1, <1>d, <1>l DEF CreateFails, StageClaim, IdentityInv
<1>2. CASE (ReuseAttempt(w, c) \/ CreateAttempt(w, c)) /\ BeginSavePending(kind, claimAttempt')
  <2>1. claimAttempt' # None
    <3>1. CASE ReuseAttempt(w, c)
      <4>1. claimAttempt' \in Attempt
        BY <3>1, <1>d DEF ReuseAttempt, Attempt
      <4> QED BY <4>1
    <3>2. CASE CreateAttempt(w, c)
      <4>1. claimAttempt' \in Attempt
        BY <3>2, <1>d DEF CreateAttempt, Attempt
      <4> QED BY <4>1
    <3> QED BY <1>2, <3>1, <3>2
  <2> QED
    BY <1>2, <1>d, <1>l, <2>1 DEF BeginSavePending, Begin, StageClaim, IdentityInv
<1> QED
  BY <1>1, <1>2 DEF StageClaim

\* So do button, reset and form.
LEMMA SetupKeepsIdentity ==
  ASSUME DeviceInv, IdentityInv, Setup
  PROVE  IdentityInv'
<1> USE JobFields, NoneIsNothing DEF SettledJobs, JobsInRam, IdentityKept, NoRival,
        OnTheWay, CommitKinds, CliKinds, SaveKinds, CleanupKinds, ram, serial,
        storeVars, StartWifi, StartPortal, FailCliClaim, Running
<1>d. SettledJobs /\ JobsInRam /\ IdentityKept /\ NoRival
  BY DEF IdentityInv
<1>l. job.kind = "idle" <=> job = NoJob
  BY DEF DeviceInv, IInv, JobOnPath
<1>1. CASE EnterSetupMode
  BY <1>1, <1>d, <1>l DEF EnterSetupMode, IdentityInv
<1>2. CASE FactoryReset
  BY <1>2, <1>d, <1>l DEF FactoryReset, Clear, Erased, IdentityInv
<1>3. CASE PortalSaveDone
  BY <1>3, <1>d, <1>l, EndedFacts DEF PortalSaveDone, IdentityInv
<1>4. CASE PortalSaveFailed
  BY <1>4, <1>d, <1>l, EndedFacts DEF PortalSaveFailed, IdentityInv
<1>5. ASSUME NEW w \in Wifi, PortalChangesWifi(w)
      PROVE  IdentityInv'
  BY <1>5, <1>d, <1>l DEF PortalChangesWifi, IdentityInv
<1>6. ASSUME NEW w \in Wifi, NEW c \in Codes, PortalClaims(w, c)
      PROVE  IdentityInv'
  BY <1>6, StagingKeepsIdentity DEF PortalClaims
<1> QED
  BY <1>1, <1>2, <1>3, <1>4, <1>5, <1>6 DEF Setup

\* So do the serial requests.
LEMMA SerialKeepsIdentity ==
  ASSUME DeviceInv, IdentityInv, Serial
  PROVE  IdentityInv'
<1> USE JobFields, NoneIsNothing DEF SettledJobs, JobsInRam, IdentityKept, NoRival,
        OnTheWay, CommitKinds, CliKinds, SaveKinds, CleanupKinds, ram, serial,
        storeVars, StartWifi, StartPortal, FailCliClaim, Running
<1>d. SettledJobs /\ JobsInRam /\ IdentityKept /\ NoRival
  BY DEF IdentityInv
<1>l. job.kind = "idle" <=> job = NoJob
  BY DEF DeviceInv, IInv, JobOnPath
<1>1. ASSUME NEW w \in Wifi, NEW c \in Codes, CliClaims(w, c)
      PROVE  IdentityInv'
  BY <1>1, StagingKeepsIdentity DEF CliClaims
<1>2. CASE CliSaveDone
  BY <1>2, <1>d, <1>l, EndedFacts DEF CliSaveDone, IdentityInv
<1>3. CASE CliSaveFailed \/ CliReplayFailed \/ CliProvisionFailed
  BY <1>3, <1>d, <1>l, EndedFacts DEF CliSaveFailed, CliReplayFailed,
     CliProvisionFailed, IdentityInv
<1>4. CASE CliReplayPreserves
  <2>1. credentials # None /\ credentials.receipt # None
    BY <1>4 DEF CliReplayPreserves, ReplayMatches
  <2> QED
    BY <1>4, <1>d, <1>l, <2>1 DEF CliReplayPreserves, OrdinaryStartup, ForgetClaim, IdentityInv
<1>5. CASE CliReplayRecovers
  BY <1>5, <1>d, <1>l DEF CliReplayRecovers, BeginClearPending, Begin, IdentityInv
<1>6. CASE CliReplayDone
  BY <1>6, <1>d, <1>l, EndedFacts DEF CliReplayDone, ForgetClaim, IdentityInv
<1>7. ASSUME NEW w \in Wifi, NEW i \in CliIds, CliProvisions(w, i)
      PROVE  IdentityInv'
  BY <1>7, <1>d, <1>l DEF CliProvisions, BeginCliStart, Begin, IdentityInv
<1>8. CASE CliProvisionDone
  <2>1. /\ job.kind = "cliStart" /\ job' = NoJob /\ nvs' = nvs /\ job.cred \in Cred
        /\ Loaded(nvs) = job.cred /\ nvs.pending = None
    BY <1>8, EndedFacts DEF CliProvisionDone
  <2> QED
  BY <1>8, <1>d, <1>l, <2>1 DEF CliProvisionDone, IdentityInv
<1> QED
  BY <1>1, <1>2, <1>3, <1>4, <1>5, <1>6, <1>7, <1>8 DEF Serial

\* So does a write, whatever becomes of it.
LEMMA FlashKeepsIdentity ==
  ASSUME DeviceInv, IdentityInv, FlashStep
  PROVE  IdentityInv'
<1> USE NoneIsNothing DEF OnTheWay, ram, serial
<1>d. SettledJobs /\ JobsInRam /\ IdentityKept /\ NoRival /\ IInv
  BY DEF IdentityInv, DeviceInv
<1>e. /\ job'.kind = job.kind /\ job'.cred = job.cred /\ job'.at = job.pc
      /\ job.pc \in Steps
      /\ Loaded(nvs') = Loaded(nvs) \/ (job.kind \in CommitKinds /\ Loaded(nvs') = job.cred)
      /\ \/ nvs'.pending = nvs.pending
         \/ nvs'.pending = None
         \/ job.kind \in SaveKinds
  BY <1>d, FlashEffect
<1>u. UNCHANGED <<state, joined, ram, serial, world>>
  BY DEF FlashStep
<1>p. job' = [job EXCEPT !.pc = After(job), !.at = job.pc]
      \/ job'.pc = "failed"
  BY DEF FlashStep, StepOk, StepFails, DeviceInv, IInv, StoreTypeOK, JobType
<1>o. JobOnPath /\ SelectedIsLoaded
  BY <1>d DEF IInv
<1>1. SettledJobs'
  <2>1. job.kind \in CommitKinds /\ job'.pc = "failed"
          /\ job.pc \in {"supersede", "verify", "unstage"} => Loaded(nvs') = job.cred
    BY <1>e, <1>o DEF SelectedIsLoaded, Selected
  <2>2. ASSUME job.kind \in CleanupKinds, job'.pc = "done"
        PROVE  nvs'.pending = None
    <3>1. job.pc = "supersede"
      BY <2>2, <1>e, <1>o DEF JobOnPath, Steps
    <3>2. nvs' = Effect(nvs, job)
      BY <2>2, <1>p DEF FlashStep, StepOk, StepFails, DeviceInv, IInv, StoreTypeOK, JobType
    <3> QED
      BY <3>1, <3>2, <1>d DEF Effect, IInv, StoreTypeOK, NvsType
  <2> QED
    BY <1>e, <2>1, <2>2 DEF SettledJobs
<1>2. JobsInRam'
  BY <1>d, <1>e, <1>u DEF JobsInRam
<1>3. IdentityKept'
  BY <1>d, <1>e, <1>u, <1>o DEF IdentityKept, JobOnPath
<1>4. NoRival'
  <2>1. job.kind \in SaveKinds => claimAttempt # None
    BY DEF DeviceInv, RamHoldsJob
  <2> QED
    BY <1>d, <1>e, <1>u, <2>1 DEF NoRival
<1> QED
  BY <1>1, <1>2, <1>3, <1>4 DEF IdentityInv

\* And so does the device as a whole.
LEMMA NextKeepsIdentity ==
  ASSUME DeviceInv, IdentityInv, [Next]_vars
  PROVE  IdentityInv'
<1>1. CASE LosePower \/ Restart
  BY <1>1, JobFields DEF LosePower, Restart, PowerLoss, IdentityInv, SettledJobs, JobsInRam,
     IdentityKept, NoRival, OnTheWay, CommitKinds, CliKinds, SaveKinds, CleanupKinds
<1>2. CASE UNCHANGED vars
  BY <1>2 DEF vars, storeVars, ram, serial, IdentityInv, SettledJobs, JobsInRam,
     IdentityKept, NoRival
<1> QED
  BY <1>1, <1>2, BootKeepsIdentity, ConnectingKeepsIdentity, ClaimingKeepsIdentity,
     SetupKeepsIdentity, SerialKeepsIdentity, FlashKeepsIdentity DEF Next

\* A device that starts for the first time knows nothing and has told nothing.
LEMMA InitIdentity == Init => IdentityInv
BY JobFields DEF Init, StoreInit, Erased, IdentityInv, SettledJobs, JobsInRam,
   IdentityKept, NoRival, OnTheWay, CommitKinds, CliKinds, SaveKinds, CleanupKinds

\* So it holds in every reachable state, whatever writes fail.
LEMMA IdentityInvariant == Spec => [](DeviceInv /\ IdentityInv)
<1>1. DeviceInv /\ IdentityInv /\ [Next]_vars => IdentityInv'
  BY NextKeepsIdentity
<1>2. DeviceInv /\ [Next]_vars => DeviceInv'
  BY NextDevice
<1> QED
  BY <1>1, <1>2, InitIdentity, InitDevice, PTL DEF Spec

\* Whatever fails, a device that runs with an identity has one in flash, and a
\* device that is READY has one to run with.
THEOREM DeviceIdentityNeverLost == Spec => []IdentityNeverLost
<1>1. IdentityInv => IdentityNeverLost
  BY DEF IdentityInv, IdentityKept, IdentityNeverLost
<1> QED
  BY <1>1, IdentityInvariant, PTL

\* The body of AckedDisplacedOnlyByStage.
DisplacedByStage ==
  /\ acked # None
  /\ Loaded(nvs) = acked
  /\ Loaded(nvs') # acked
  => job.kind = "cliResume" \/ acked' = None

\* Only a commit and a reset change what a boot loads: the commits of a claim,
\* a Wi-Fi change and a new provisioning run with nothing acknowledged.
LEMMA OnlyStageDisplaces ==
  ASSUME DeviceInv, IdentityInv, Next
  PROVE  DisplacedByStage
<1> SUFFICES ASSUME acked # None, Loaded(nvs) = acked, Loaded(nvs') # acked
             PROVE  job.kind = "cliResume" \/ acked' = None
  BY DEF DisplacedByStage
<1>1. CASE FlashStep
  <2>1. job.kind \in CommitKinds
    BY <1>1, FlashEffect DEF DeviceInv
  <2> QED
    BY <2>1 DEF IdentityInv, NoRival, CommitKinds, CliKinds
<1> QED
  BY <1>1, WhoWritesFlash DEF FactoryReset

\* An acknowledged identity is displaced only at the user's request, or by the
\* stage that an earlier failed request left, whatever writes fail.
THEOREM DeviceAckedDisplacedOnlyByStage == Spec => AckedDisplacedOnlyByStage
<1>1. DeviceInv /\ IdentityInv /\ [Next]_vars => [DisplacedByStage]_vars
  BY OnlyStageDisplaces
<1> QED
  BY <1>1, IdentityInvariant, PTL DEF Spec, AckedDisplacedOnlyByStage, DisplacedByStage

-----------------------------------------------------------------------------
(* RAM and flash, when the writes that are reported work *)

\* No job ends in a failure.
NothingFails == job.pc # "failed"

\* A stage belongs to the provisioning in progress or to the next boot.
StageResumed ==
  nvs.stage # None => job.kind \in CliKinds \/ (state = "STARTING" /\ job = NoJob)

\* What was acknowledged is what a boot loads, and nothing is staged over it.
AckedInFlash ==
  acked # None =>
    /\ Loaded(nvs) = acked
    /\ nvs.stage = None
    /\ job.kind \notin CommitKinds

\* The credentials in RAM are the ones in flash, but for a commit in progress
\* and before begin() has loaded them.
RamIsFlash ==
  /\ job.kind \notin CommitKinds
  /\ state # "STARTING" \/ job.kind = "bootCleanup"
  => credentials = Loaded(nvs)

FlashInv == NothingFails /\ StageResumed /\ AckedInFlash /\ RamIsFlash

\* begin() preserves FlashInv.
LEMMA BootKeepsFlash ==
  ASSUME DeviceInv, IdentityInv, FlashInv, Boot
  PROVE  FlashInv'
<1> USE JobFields, NoneIsNothing DEF FlashInv, NothingFails, StageResumed, AckedInFlash,
        RamIsFlash, CommitKinds, CliKinds, SaveKinds, CleanupKinds, ram, serial,
        storeVars, StartWifi, StartPortal, FailCliClaim
<1>d. SettledJobs /\ JobsInRam /\ IdentityKept /\ NoRival
  BY DEF IdentityInv
<1>l. job.kind = "idle" <=> job = NoJob
  BY LoadedType DEF DeviceInv, IInv, StoreTypeOK, NvsType, JobOnPath
<1>1. CASE BootResumesStage
  BY <1>1, <1>l DEF BootResumesStage, BeginCliResume, Begin
<1>2. CASE BootStageDone
  BY <1>2, <1>l, EndedFacts DEF BootStageDone
<1>3. CASE BootCleansCommitted
  BY <1>3, <1>l DEF BootCleansCommitted, BootLoads, BeginClearPending, Begin
<1>4. CASE BootCleanupDone
  BY <1>4, <1>l, EndedFacts DEF BootCleanupDone
<1>5. CASE BootRetriesPending \/ BootConnects \/ BootOpensPortal
  BY <1>5, <1>l DEF BootRetriesPending, BootConnects, BootOpensPortal, BootLoads
<1>6. ~BootStageFailed /\ ~BootCleanupFailed
  BY DEF BootStageFailed, BootCleanupFailed, Ended
<1> QED
  BY <1>1, <1>2, <1>3, <1>4, <1>5, <1>6 DEF Boot

\* The connection states preserve it.
LEMMA ConnectingKeepsFlash ==
  ASSUME DeviceInv, IdentityInv, FlashInv, Connecting
  PROVE  FlashInv'
<1> USE JobFields, NoneIsNothing DEF FlashInv, NothingFails, StageResumed, AckedInFlash,
        RamIsFlash, CommitKinds, CliKinds, SaveKinds, CleanupKinds, ram, serial,
        storeVars, StartWifi, StartPortal, FailCliClaim, Running
<1>l. job.kind = "idle" <=> job = NoJob
  BY DEF DeviceInv, IInv, JobOnPath
<1>1. CASE WifiConnected \/ GivesUpConnecting \/ ReadyLosesWifi \/ TimeSynced
  BY <1>1, <1>l DEF WifiConnected, GivesUpConnecting, ReadyLosesWifi, TimeSynced
<1>2. CASE TimeSyncedChangesWifi
  BY <1>2, <1>l DEF TimeSyncedChangesWifi, BeginWifiChange, Begin, IdentityInv, NoRival, OnTheWay
<1>3. CASE WifiChangeDone
  BY <1>3, <1>l, EndedFacts DEF WifiChangeDone
<1>4. ~WifiChangeFailed
  BY DEF WifiChangeFailed, Ended
<1> QED
  BY <1>1, <1>2, <1>3, <1>4 DEF Connecting

\* So does a claim.
LEMMA ClaimingKeepsFlash ==
  ASSUME DeviceInv, IdentityInv, FlashInv, Claiming
  PROVE  FlashInv'
<1> USE JobFields, NoneIsNothing DEF FlashInv, NothingFails, StageResumed, AckedInFlash,
        RamIsFlash, CommitKinds, CliKinds, SaveKinds, CleanupKinds, ram, serial,
        storeVars, StartWifi, StartPortal, FailCliClaim, Running
<1>l. job.kind = "idle" <=> job = NoJob
  BY DEF DeviceInv, IInv, JobOnPath
<1>1. CASE ClaimExchanged
  BY <1>1, <1>l DEF ClaimExchanged, BeginClaim, Begin, IdentityInv, NoRival
<1>2. CASE ClaimNotExchanged
  BY <1>2, <1>l DEF ClaimNotExchanged, CountClaimFailure
<1>3. CASE ClaimDone
  BY <1>3, <1>l, EndedFacts DEF ClaimDone
<1>4. ~ClaimCommitFailed /\ ~ClaimCleanupFailed
  BY DEF ClaimCommitFailed, ClaimCleanupFailed, Ended
<1> QED
  BY <1>1, <1>2, <1>3, <1>4 DEF Claiming

\* So do button, reset and form.
LEMMA SetupKeepsFlash ==
  ASSUME ~Faults, DeviceInv, IdentityInv, FlashInv, Setup
  PROVE  FlashInv'
<1> USE JobFields, NoneIsNothing DEF FlashInv, NothingFails, StageResumed, AckedInFlash,
        RamIsFlash, CommitKinds, CliKinds, SaveKinds, CleanupKinds, ram, serial,
        storeVars, StartWifi, StartPortal, FailCliClaim, Running
<1>l. job.kind = "idle" <=> job = NoJob
  BY DEF DeviceInv, IInv, JobOnPath
<1>1. CASE EnterSetupMode \/ \E w \in Wifi : PortalChangesWifi(w)
  BY <1>1, <1>l DEF EnterSetupMode, PortalChangesWifi
<1>2. CASE FactoryReset
  BY <1>2, <1>l DEF FactoryReset, Clear, Erased, Slots, Loaded
<1>3. CASE PortalSaveDone
  BY <1>3, <1>l, EndedFacts DEF PortalSaveDone, IdentityInv, JobsInRam
<1>4. ~PortalSaveFailed
  BY DEF PortalSaveFailed, Ended
<1>5. ASSUME NEW w \in Wifi, NEW c \in Codes, PortalClaims(w, c)
      PROVE  FlashInv'
  BY <1>5, <1>l DEF PortalClaims, StageClaim, CreateFails, BeginSavePending, Begin
<1> QED
  BY <1>1, <1>2, <1>3, <1>4, <1>5 DEF Setup

\* So do the serial requests.
LEMMA SerialKeepsFlash ==
  ASSUME ~Faults, DeviceInv, IdentityInv, FlashInv, Serial
  PROVE  FlashInv'
<1> USE JobFields, NoneIsNothing DEF FlashInv, NothingFails, StageResumed, AckedInFlash,
        RamIsFlash, CommitKinds, CliKinds, SaveKinds, CleanupKinds, ram, serial,
        storeVars, StartWifi, StartPortal, FailCliClaim, Running
<1>l. job.kind = "idle" <=> job = NoJob
  BY DEF DeviceInv, IInv, JobOnPath
<1>1. ASSUME NEW w \in Wifi, NEW c \in Codes, CliClaims(w, c)
      PROVE  FlashInv'
  BY <1>1, <1>l DEF CliClaims, StageClaim, CreateFails, BeginSavePending, Begin
<1>2. CASE CliSaveDone
  BY <1>2, <1>l, EndedFacts DEF CliSaveDone, IdentityInv, JobsInRam
<1>3. ~CliSaveFailed /\ ~CliReplayFailed /\ ~CliProvisionFailed
  BY DEF CliSaveFailed, CliReplayFailed, CliProvisionFailed, Ended
<1>4. CASE CliReplayPreserves
  BY <1>4, <1>l DEF CliReplayPreserves, ForgetClaim
<1>5. CASE CliReplayRecovers
  BY <1>5, <1>l DEF CliReplayRecovers, BeginClearPending, Begin
<1>6. CASE CliReplayDone
  BY <1>6, <1>l, EndedFacts DEF CliReplayDone, ForgetClaim, IdentityInv, JobsInRam
<1>7. ASSUME NEW w \in Wifi, NEW i \in CliIds, CliProvisions(w, i)
      PROVE  FlashInv'
  BY <1>7, <1>l DEF CliProvisions, BeginCliStart, Begin
<1>8. CASE CliProvisionDone
  BY <1>8, <1>l, EndedFacts DEF CliProvisionDone
<1> QED
  BY <1>1, <1>2, <1>3, <1>4, <1>5, <1>6, <1>7, <1>8 DEF Serial

\* So does a write.
LEMMA FlashKeepsFlash ==
  ASSUME ~Faults, DeviceInv, IdentityInv, FlashInv, FlashStep
  PROVE  FlashInv'
<1>d. JobsInRam /\ NoRival /\ IInv /\ NothingFails /\ StageResumed /\ AckedInFlash /\ RamIsFlash
  BY DEF IdentityInv, DeviceInv, FlashInv
<1>e. /\ job'.kind = job.kind /\ job'.cred = job.cred
      /\ Loaded(nvs') = Loaded(nvs) \/ job.kind \in CommitKinds
      /\ nvs'.stage = nvs.stage \/ job.kind \in CliKinds
  BY <1>d, FlashEffect
<1>s. StepOk /\ UNCHANGED <<state, joined, ram, serial, world>>
  BY DEF FlashStep, StepFails
<1>u. UNCHANGED <<state, credentials, acked>>
  BY <1>s DEF ram, serial
<1>1. NothingFails'
  BY <1>s DEF NothingFails, StepOk, DeviceInv, IInv, StoreTypeOK, JobType, After
<1>2. StageResumed'
  BY <1>d, <1>e, <1>u, <1>s, JobFields DEF StageResumed, StepOk, Steps
<1>3. AckedInFlash'
  BY <1>d, <1>e, <1>u DEF AckedInFlash, CommitKinds
<1>4. RamIsFlash'
  BY <1>d, <1>e, <1>u DEF RamIsFlash
<1> QED
  BY <1>1, <1>2, <1>3, <1>4 DEF FlashInv

\* And so does the device as a whole.
LEMMA NextKeepsFlash ==
  ASSUME ~Faults, DeviceInv, IdentityInv, FlashInv, [Next]_vars
  PROVE  FlashInv'
<1>1. CASE LosePower \/ Restart
  BY <1>1, JobFields DEF LosePower, Restart, PowerLoss, FlashInv, NothingFails, StageResumed,
     AckedInFlash, RamIsFlash, CommitKinds, CliKinds
<1>2. CASE UNCHANGED vars
  BY <1>2 DEF vars, storeVars, ram, serial, FlashInv, NothingFails, StageResumed, AckedInFlash, RamIsFlash
<1> QED
  BY <1>1, <1>2, BootKeepsFlash, ConnectingKeepsFlash, ClaimingKeepsFlash,
     SetupKeepsFlash, SerialKeepsFlash, FlashKeepsFlash DEF Next

\* It holds when the device starts for the first time.
LEMMA InitFlash == Init => FlashInv
BY JobFields DEF Init, StoreInit, Erased, FlashInv, NothingFails, StageResumed,
     AckedInFlash, RamIsFlash, CommitKinds, CliKinds

\* So it holds in every reachable state, when the writes work.
LEMMA FlashInvariant ==
  ASSUME ~Faults
  PROVE  Spec => [](DeviceInv /\ IdentityInv /\ FlashInv)
<1>1. DeviceInv /\ IdentityInv /\ FlashInv /\ [Next]_vars => FlashInv'
  BY NextKeepsFlash
<1> QED
  BY <1>1, IdentityInvariant, InitFlash, PTL DEF Spec

\* Between handlers RAM and flash agree on who the device is, when the writes work.
THEOREM DeviceRamMatchesFlash == ~Faults => (Spec => []RamMatchesFlash)
<1> SUFFICES ASSUME ~Faults PROVE Spec => []RamMatchesFlash
  OBVIOUS
<1>1. FlashInv => RamMatchesFlash
  BY JobFields DEF FlashInv, RamIsFlash, RamMatchesFlash, CommitKinds, CliKinds
<1> QED
  BY <1>1, FlashInvariant, PTL

\* An identity that the serial host was told is active is the one the next boot
\* loads, after any power loss, until the user asks for another, when the writes work.
THEOREM DeviceAckedSurvives == ~Faults => (Spec => []AckedSurvives)
<1> SUFFICES ASSUME ~Faults PROVE Spec => []AckedSurvives
  OBVIOUS
<1>1. FlashInv => AckedSurvives
  BY DEF FlashInv, AckedInFlash, AckedSurvives
<1> QED
  BY <1>1, FlashInvariant, PTL

-----------------------------------------------------------------------------
(* The claim in RAM, in flash and at the server, when the writes work *)

\* Key material in use was drawn, or came with a provisioning request.
KeysDrawn ==
  /\ Loaded(nvs) # None => Loaded(nvs).id \in usedKeys \cup CliIds
  /\ nvs.pending # None => nvs.pending.key \in usedKeys
  /\ nvs.stage # None => nvs.stage.id \in CliIds
  /\ claimAttempt # None => claimAttempt.key \in usedKeys
  /\ job.kind \in CommitKinds => job.cred.id \in usedKeys \cup CliIds
  /\ job.kind \in CliKinds => job.cred.id \in CliIds

\* The attempt in RAM is not the identity in flash, nor about to become it but
\* by its own claim.
NotCommitted ==
  claimAttempt # None /\ job.kind \notin {"claim", "bootCleanup"} =>
    /\ ~PendingIdentityWasCommitted(Loaded(nvs), claimAttempt)
    /\ job.kind = "wifiChange" => job.cred.id # claimAttempt.key

\* The pending claim in flash is the attempt in RAM, and a device that is on its
\* way to claim has one.
AttemptSaved ==
  /\ job.kind \in SaveKinds =>
       /\ job.attempt = claimAttempt
       /\ nvs.pending # None /\ nvs.pending.code = claimAttempt.code
            => nvs.pending.key = claimAttempt.key
       /\ job.pc = "done" => nvs.pending = claimAttempt
  /\ state # "STARTING" /\ job.kind \in {"idle", "wifiChange"} /\ nvs.pending # None =>
       /\ claimAttempt # None
       /\ nvs.pending.code = claimAttempt.code
       /\ nvs.pending.key = claimAttempt.key
  /\ state = "CLAIMING" => ~changingWifiOnly
  /\ /\ state \in OnTheWay \cup {"CLAIMING"} /\ ~changingWifiOnly
     /\ job = NoJob /\ claimAttempt # None
     => nvs.pending # None

\* A network that is going to be committed is the one that was joined.
WifiJoined ==
  /\ job.kind \in {"claim", "wifiChange"} => job.cred.wifi = joined
  /\ job.kind \in SaveKinds => pendingWifi = claimAttempt.wifi
  /\ /\ state \in OnTheWay \cup {"CLAIMING"} /\ job.kind \notin SaveKinds
     /\ pendingWifi # None
     /\ changingWifiOnly \/ claimAttempt # None
     => pendingWifi = joined

ClaimInv == KeysDrawn /\ NotCommitted /\ AttemptSaved /\ WifiJoined

\* A provisioned identity is none of the drawn keys.
LEMMA DrawnIsNotProvided == \A k \in Keys : k \notin CliIds
BY DataAssumption

\* begin() preserves ClaimInv.
LEMMA BootKeepsClaim ==
  ASSUME DeviceInv, IdentityInv, FlashInv, ClaimInv, Boot
  PROVE  ClaimInv'
<1> USE JobFields, NoneIsNothing DEF KeysDrawn, NotCommitted, AttemptSaved, WifiJoined,
        OnTheWay, CommitKinds, CliKinds, SaveKinds, CleanupKinds, ram, serial, world,
        storeVars, StartWifi, StartPortal, FailCliClaim
<1>c. KeysDrawn /\ NotCommitted /\ AttemptSaved /\ WifiJoined
  BY DEF ClaimInv
<1>d. JobsInRam
  BY DEF IdentityInv
<1>l. job.kind = "idle" <=> job = NoJob
  BY DEF DeviceInv, IInv, JobOnPath
<1>1. CASE BootResumesStage
  BY <1>1, <1>c, <1>d, <1>l DEF BootResumesStage, BeginCliResume, Begin, ClaimInv, JobsInRam
<1>2. CASE BootStageDone
  BY <1>2, <1>c, <1>d, <1>l, EndedFacts DEF BootStageDone, ClaimInv, JobsInRam
<1>3. CASE BootCleansCommitted
  BY <1>3, <1>c, <1>d, <1>l DEF BootCleansCommitted, BootLoads, BeginClearPending, Begin,
     ClaimInv, JobsInRam
<1>4. CASE BootCleanupDone
  <2>1. job.kind = "bootCleanup" /\ job' = NoJob /\ nvs' = nvs /\ nvs.pending = None
    BY <1>4, EndedFacts DEF BootCleanupDone, IdentityInv, SettledJobs
  <2> QED
    BY <1>4, <2>1, <1>c, <1>d, <1>l DEF BootCleanupDone, ClaimInv, JobsInRam
<1>5. CASE BootRetriesPending
  BY <1>5, <1>c, <1>d, <1>l DEF BootRetriesPending, BootLoads, ClaimInv, JobsInRam
<1>6. CASE BootConnects \/ BootOpensPortal
  BY <1>6, <1>c, <1>d, <1>l DEF BootConnects, BootOpensPortal, BootLoads, ClaimInv, JobsInRam
<1>7. ~BootStageFailed /\ ~BootCleanupFailed
  BY DEF BootStageFailed, BootCleanupFailed, Ended, FlashInv, NothingFails
<1> QED
  BY <1>1, <1>2, <1>3, <1>4, <1>5, <1>6, <1>7 DEF Boot

\* The connection states preserve it.
LEMMA ConnectingKeepsClaim ==
  ASSUME DeviceInv, IdentityInv, FlashInv, ClaimInv, Connecting
  PROVE  ClaimInv'
<1> USE JobFields, NoneIsNothing DEF KeysDrawn, NotCommitted, AttemptSaved, WifiJoined,
        OnTheWay, CommitKinds, CliKinds, SaveKinds, CleanupKinds, ram, serial, world,
        storeVars, StartWifi, StartPortal, FailCliClaim, Running
<1>c. KeysDrawn /\ NotCommitted /\ AttemptSaved /\ WifiJoined
  BY DEF ClaimInv
<1>l. job.kind = "idle" <=> job = NoJob
  BY DEF DeviceInv, IInv, JobOnPath
<1>1. CASE WifiConnected
  BY <1>1, <1>c, <1>l DEF WifiConnected, ClaimInv
<1>2. CASE GivesUpConnecting \/ ReadyLosesWifi
  BY <1>2, <1>c, <1>l DEF GivesUpConnecting, ReadyLosesWifi, ClaimInv
<1>3. CASE TimeSynced
  BY <1>3, <1>c, <1>l DEF TimeSynced, ClaimInv
<1>4. CASE TimeSyncedChangesWifi /\ BeginWifiChange(MovedCredentials)
  <2>1. credentials = Loaded(nvs) /\ credentials # None
    BY <1>4, <1>l DEF TimeSyncedChangesWifi, FlashInv, RamIsFlash, BeginWifiChange, Begin
  <2>2. MovedCredentials.wifi = pendingWifi /\ MovedCredentials.id = Loaded(nvs).id
    BY <2>1 DEF MovedCredentials
  <2> QED
    BY <1>4, <1>c, <1>l, <2>1, <2>2 DEF TimeSyncedChangesWifi, BeginWifiChange, Begin, ClaimInv,
       PendingIdentityWasCommitted
<1>5. CASE TimeSyncedChangesWifi /\ UNCHANGED storeVars
  BY <1>5, <1>c, <1>l DEF TimeSyncedChangesWifi, ClaimInv
<1>6. CASE WifiChangeDone
  <2>1. job.kind = "wifiChange" /\ job' = NoJob /\ nvs' = nvs
    BY <1>6, EndedFacts DEF WifiChangeDone
  <2> QED
    BY <1>6, <2>1, <1>c, <1>l DEF WifiChangeDone, IdentityInv, JobsInRam, ClaimInv
<1>7. ~WifiChangeFailed
  BY DEF WifiChangeFailed, Ended, FlashInv, NothingFails
<1> QED
  BY <1>1, <1>2, <1>3, <1>4, <1>5, <1>6, <1>7 DEF Connecting, TimeSyncedChangesWifi

\* So does a claim.
LEMMA ClaimingKeepsClaim ==
  ASSUME DeviceInv, IdentityInv, FlashInv, ClaimInv, Claiming
  PROVE  ClaimInv'
<1> USE JobFields, NoneIsNothing DEF KeysDrawn, NotCommitted, AttemptSaved, WifiJoined,
        OnTheWay, CommitKinds, CliKinds, SaveKinds, CleanupKinds, ram, serial, world,
        storeVars, StartWifi, StartPortal, FailCliClaim, Running
<1>c. KeysDrawn /\ NotCommitted /\ AttemptSaved /\ WifiJoined
  BY DEF ClaimInv
<1>l. job.kind = "idle" <=> job = NoJob
  BY DEF DeviceInv, IInv, JobOnPath
<1>1. CASE ClaimExchanged
  <2>1. ClaimedCredentials.wifi = pendingWifi /\ ClaimedCredentials.id = claimAttempt.key
    BY DEF ClaimedCredentials
  <2> QED
    BY <1>1, <2>1, <1>c, <1>l DEF ClaimExchanged, BeginClaim, Begin, ClaimInv
<1>2. CASE ClaimNotExchanged
  BY <1>2, <1>c, <1>l DEF ClaimNotExchanged, CountClaimFailure, ClaimInv
<1>3. CASE ClaimDone
  <2>1. job.kind = "claim" /\ job' = NoJob /\ nvs' = nvs /\ nvs.pending = None
    BY <1>3, EndedFacts DEF ClaimDone
  <2> QED
    BY <1>3, <2>1, <1>c, <1>l DEF ClaimDone, ClaimInv
<1>4. ~ClaimCommitFailed /\ ~ClaimCleanupFailed
  BY DEF ClaimCommitFailed, ClaimCleanupFailed, Ended, FlashInv, NothingFails
<1> QED
  BY <1>1, <1>2, <1>3, <1>4 DEF Claiming

\* So does staging a claim: a new attempt has a new key, and the key of a code
\* submitted again is the one of the pending claim.
LEMMA StagingKeepsClaim ==
  ASSUME ~Faults, DeviceInv, IdentityInv, FlashInv, ClaimInv, Running,
         NEW kind \in SaveKinds, NEW w \in Wifi, NEW c \in Codes,
         StageClaim(kind, w, c)
  PROVE  ClaimInv'
<1> USE JobFields, NoneIsNothing DEF KeysDrawn, NotCommitted, AttemptSaved, WifiJoined,
        OnTheWay, CommitKinds, CliKinds, SaveKinds, CleanupKinds
<1>c. KeysDrawn /\ NotCommitted /\ AttemptSaved /\ WifiJoined
  BY DEF ClaimInv
<1>l. /\ job.kind = "idle" <=> job = NoJob
      /\ claimAttempt \in Attempt \cup {None}
      /\ Loaded(nvs) \in Cred \cup {None}
      /\ usedKeys \subseteq Keys
  BY LoadedType DEF DeviceInv, IInv, StoreTypeOK, NvsType, JobOnPath, RamTypeOK, OutsideTypeOK
<1>u. /\ job = NoJob /\ state # "STARTING"
      /\ pendingWifi' = w /\ BeginSavePending(kind, claimAttempt')
      /\ UNCHANGED <<state, joined, changingWifiOnly>>
      /\ ReuseAttempt(w, c) \/ CreateAttempt(w, c)
  BY DEF StageClaim, Running, CreateFails
<1>j. /\ job'.kind = kind /\ job'.pc = "save" /\ job'.attempt = claimAttempt' /\ nvs' = nvs
  BY <1>u DEF BeginSavePending, Begin
<1>1. CASE ReuseAttempt(w, c)
  <2>1. /\ claimAttempt \in Attempt /\ claimAttempt' \in Attempt
        /\ claimAttempt'.wifi = w /\ claimAttempt'.code = claimAttempt.code
        /\ claimAttempt'.key = claimAttempt.key /\ usedKeys' = usedKeys
    BY <1>1, <1>l DEF ReuseAttempt, Attempt
  <2> QED
    BY <1>c, <1>l, <1>u, <1>j, <2>1 DEF ClaimInv, PendingIdentityWasCommitted
<1>2. CASE CreateAttempt(w, c)
  <2>1. PICK k \in Keys \ usedKeys :
          /\ claimAttempt' = [wifi |-> w, code |-> c, key |-> k]
          /\ usedKeys' = usedKeys \cup {k}
    BY <1>2 DEF CreateAttempt
  <2>2. /\ claimAttempt' \in Attempt
        /\ claimAttempt'.wifi = w /\ claimAttempt'.code = c
        /\ claimAttempt'.key = k
    BY <2>1 DEF Attempt
  <2>3. claimAttempt # None => claimAttempt.code # c
    BY <1>2 DEF CreateAttempt
  <2> QED
    BY <1>c, <1>l, <1>u, <1>j, <2>1, <2>2, <2>3, DrawnIsNotProvided DEF ClaimInv,
       PendingIdentityWasCommitted
<1> QED
  BY <1>u, <1>1, <1>2

\* So do button, reset and form.
LEMMA SetupKeepsClaim ==
  ASSUME ~Faults, DeviceInv, IdentityInv, FlashInv, ClaimInv, Setup
  PROVE  ClaimInv'
<1> USE JobFields, NoneIsNothing DEF KeysDrawn, NotCommitted, AttemptSaved, WifiJoined,
        OnTheWay, CommitKinds, CliKinds, SaveKinds, CleanupKinds, ram, serial, world,
        storeVars, StartWifi, StartPortal, FailCliClaim, Running
<1>c. KeysDrawn /\ NotCommitted /\ AttemptSaved /\ WifiJoined
  BY DEF ClaimInv
<1>l. job.kind = "idle" <=> job = NoJob
  BY DEF DeviceInv, IInv, JobOnPath
<1>1. CASE EnterSetupMode
  BY <1>1, <1>c, <1>l DEF EnterSetupMode, ClaimInv
<1>2. CASE FactoryReset
  <2>1. Loaded(nvs') = None /\ nvs'.pending = None /\ nvs'.stage = None /\ job' = job
    BY <1>2 DEF FactoryReset, Clear, Erased, Slots, Loaded
  <2> QED
    BY <1>2, <2>1, <1>c, <1>l DEF FactoryReset, ClaimInv, PendingIdentityWasCommitted
<1>3. CASE PortalSaveDone
  BY <1>3, <1>c, <1>l, EndedFacts DEF PortalSaveDone, ClaimInv, IdentityInv, JobsInRam
<1>4. ~PortalSaveFailed
  BY DEF PortalSaveFailed, Ended, FlashInv, NothingFails
<1>5. ASSUME NEW w \in Wifi, PortalChangesWifi(w)
      PROVE  ClaimInv'
  BY <1>5, <1>c, <1>l DEF PortalChangesWifi, ClaimInv
<1>6. ASSUME NEW w \in Wifi, NEW c \in Codes, PortalClaims(w, c)
      PROVE  ClaimInv'
  BY <1>6, StagingKeepsClaim DEF PortalClaims
<1> QED
  BY <1>1, <1>2, <1>3, <1>4, <1>5, <1>6 DEF Setup

\* So do the serial requests.
LEMMA SerialKeepsClaim ==
  ASSUME ~Faults, DeviceInv, IdentityInv, FlashInv, ClaimInv, Serial
  PROVE  ClaimInv'
<1> USE JobFields, NoneIsNothing DEF KeysDrawn, NotCommitted, AttemptSaved, WifiJoined,
        OnTheWay, CommitKinds, CliKinds, SaveKinds, CleanupKinds, ram, serial, world,
        storeVars, StartWifi, StartPortal, FailCliClaim, Running
<1>c. KeysDrawn /\ NotCommitted /\ AttemptSaved /\ WifiJoined
  BY DEF ClaimInv
<1>l. job.kind = "idle" <=> job = NoJob
  BY DEF DeviceInv, IInv, JobOnPath
<1>1. ASSUME NEW w \in Wifi, NEW c \in Codes, CliClaims(w, c)
      PROVE  ClaimInv'
  BY <1>1, StagingKeepsClaim DEF CliClaims
<1>2. CASE CliSaveDone
  BY <1>2, <1>c, <1>l, EndedFacts DEF CliSaveDone, ClaimInv, IdentityInv, JobsInRam
<1>3. ~CliSaveFailed /\ ~CliReplayFailed /\ ~CliProvisionFailed
  BY DEF CliSaveFailed, CliReplayFailed, CliProvisionFailed, Ended, FlashInv, NothingFails
<1>4. CASE CliReplayPreserves
  <2>1. credentials # None /\ credentials.receipt # None
    BY <1>4 DEF CliReplayPreserves, ReplayMatches
  <2>2. claimAttempt = None /\ nvs.pending = None
    BY <1>4, <2>1 DEF CliReplayPreserves, OrdinaryStartup, IdentityInv, NoRival
  <2> QED
    BY <1>4, <2>2, <1>c, <1>l DEF CliReplayPreserves, ForgetClaim, ClaimInv
<1>5. CASE CliReplayRecovers
  BY <1>5, <1>c, <1>l DEF CliReplayRecovers, BeginClearPending, Begin, ClaimInv
<1>6. CASE CliReplayDone
  <2>1. job.kind = "replay" /\ job' = NoJob /\ nvs' = nvs /\ nvs.pending = None
    BY <1>6, EndedFacts DEF CliReplayDone, IdentityInv, SettledJobs
  <2> QED
    BY <1>6, <2>1, <1>c, <1>l DEF CliReplayDone, ForgetClaim, ClaimInv
<1>7. ASSUME NEW w \in Wifi, NEW i \in CliIds, CliProvisions(w, i)
      PROVE  ClaimInv'
  <2>1. [wifi |-> w, id |-> i, receipt |-> None].id = i
    OBVIOUS
  <2> QED
    BY <1>7, <2>1, <1>c, <1>l DEF CliProvisions, BeginCliStart, Begin, ClaimInv
<1>8. CASE CliProvisionDone
  <2>1. job.kind = "cliStart" /\ job' = NoJob /\ nvs' = nvs /\ nvs.pending = None
    BY <1>8, EndedFacts DEF CliProvisionDone
  <2> QED
    BY <1>8, <2>1, <1>c, <1>l DEF CliProvisionDone, ClaimInv
<1> QED
  BY <1>1, <1>2, <1>3, <1>4, <1>5, <1>6, <1>7, <1>8 DEF Serial

\* So does a write.
LEMMA FlashKeepsClaim ==
  ASSUME ~Faults, DeviceInv, IdentityInv, FlashInv, ClaimInv, FlashStep
  PROVE  ClaimInv'
<1> USE DrawnIsNotProvided, NoneIsNothing
<1>c. KeysDrawn /\ NotCommitted /\ AttemptSaved /\ WifiJoined
  BY DEF ClaimInv
<1>d. IInv /\ JobOnPath /\ claimAttempt \in Attempt \cup {None}
  BY DEF DeviceInv, IInv, RamTypeOK
<1>e. /\ job'.kind = job.kind /\ job'.cred = job.cred
      /\ job'.attempt = job.attempt /\ job'.at = job.pc
      /\ job.pc \in Steps
      /\ Loaded(nvs') = Loaded(nvs) \/ (job.kind \in CommitKinds /\ Loaded(nvs') = job.cred)
      /\ \/ nvs'.pending = nvs.pending
         \/ job.pc = "supersede" /\ nvs'.pending = None
         \/ job.pc = "save" /\ job.kind \in SaveKinds /\ nvs'.pending = job.attempt
      /\ \/ nvs'.stage = nvs.stage
         \/ job.kind \in CliKinds /\ nvs'.stage = job.cred
         \/ nvs'.stage = None
  BY <1>d, FlashEffect
<1>s. StepOk /\ UNCHANGED <<state, joined, ram, serial, world>>
  BY DEF FlashStep, StepFails
<1>u. UNCHANGED <<state, joined, pendingWifi, claimAttempt, changingWifiOnly, usedKeys>>
  BY <1>s DEF ram, world
<1>n. job # NoJob /\ (job' = NoJob => job.kind = "idle") /\ job.kind # "idle"
  BY <1>d, <1>e, JobFields DEF Steps, JobOnPath
<1>k. job.kind \in SaveKinds => job.pc = "save" /\ nvs'.pending = job.attempt
  <2>1. SUFFICES ASSUME job.kind \in SaveKinds
                 PROVE  job.pc = "save" /\ nvs'.pending = job.attempt
    OBVIOUS
  <2>2. job.pc = "save"
    BY <2>1, <1>d, <1>e DEF JobOnPath, Steps
  <2> QED
    BY <1>d, <1>s, <2>2 DEF StepOk, Effect, IInv, StoreTypeOK, NvsType
<1>1. KeysDrawn'
  BY <1>c, <1>e, <1>u DEF KeysDrawn, AttemptSaved, CommitKinds
<1>2. NotCommitted'
  <2>1. ASSUME claimAttempt # None, job.kind \notin {"claim", "bootCleanup"},
               Loaded(nvs') = job.cred, job.kind \in CommitKinds
        PROVE  job.cred.id # claimAttempt.key
    BY <2>1, <1>c, <1>d DEF KeysDrawn, NotCommitted, CommitKinds, CliKinds
  <2> QED
    BY <1>c, <1>e, <1>u, <2>1 DEF NotCommitted, PendingIdentityWasCommitted
<1>3. AttemptSaved'
  BY <1>c, <1>e, <1>u, <1>n, <1>k DEF AttemptSaved, JobOnPath
<1>4. WifiJoined'
  BY <1>c, <1>e, <1>u DEF WifiJoined
<1> QED
  BY <1>1, <1>2, <1>3, <1>4 DEF ClaimInv

\* And so does the device as a whole.
LEMMA NextKeepsClaim ==
  ASSUME ~Faults, DeviceInv, IdentityInv, FlashInv, ClaimInv, [Next]_vars
  PROVE  ClaimInv'
<1>1. CASE LosePower \/ Restart
  <2>1. /\ job' = NoJob /\ nvs' = nvs /\ usedKeys' = usedKeys
        /\ state' = "STARTING" /\ claimAttempt' = None
    BY <1>1 DEF LosePower, Restart, PowerLoss, world
  <2> QED
    BY <2>1, JobFields DEF ClaimInv, KeysDrawn, NotCommitted, AttemptSaved, WifiJoined,
       OnTheWay, CommitKinds, CliKinds, SaveKinds
<1>2. CASE UNCHANGED vars
  BY <1>2 DEF vars, storeVars, ram, serial, world, ClaimInv, KeysDrawn, NotCommitted,
     AttemptSaved, WifiJoined
<1> QED
  BY <1>1, <1>2, BootKeepsClaim, ConnectingKeepsClaim, ClaimingKeepsClaim,
     SetupKeepsClaim, SerialKeepsClaim, FlashKeepsClaim DEF Next

\* It holds when the device starts for the first time.
LEMMA InitClaim == Init => ClaimInv
BY JobFields DEF Init, StoreInit, Erased, Slots, Loaded, ClaimInv, KeysDrawn, NotCommitted,
   AttemptSaved, WifiJoined, OnTheWay, CommitKinds, CliKinds, SaveKinds

\* So it holds in every reachable state, when the writes work.
LEMMA ClaimInvariant ==
  ASSUME ~Faults
  PROVE  Spec => [](DeviceInv /\ IdentityInv /\ FlashInv /\ ClaimInv)
<1>1. DeviceInv /\ IdentityInv /\ FlashInv /\ ClaimInv /\ [Next]_vars => ClaimInv'
  BY NextKeepsClaim
<1> QED
  BY <1>1, FlashInvariant, InitClaim, PTL DEF Spec

\* A claim that was committed is not exchanged again, wherever the power was lost
\* and whatever was submitted meanwhile, when the writes work.
THEOREM DeviceNoExchangeAfterCommit == ~Faults => (Spec => []NoExchangeAfterCommit)
<1> SUFFICES ASSUME ~Faults PROVE Spec => []NoExchangeAfterCommit
  OBVIOUS
<1>1. ClaimInv => NoExchangeAfterCommit
  BY JobFields DEF ClaimInv, NotCommitted, NoExchangeAfterCommit, PendingIdentityWasCommitted
<1> QED
  BY <1>1, ClaimInvariant, PTL

\* The network that a claim or a Wi-Fi change commits is the one the device has
\* joined, however form, button and serial requests interleave, when the writes work.
THEOREM DeviceCommittedWifiWasJoined == ~Faults => (Spec => []CommittedWifiWasJoined)
<1> SUFFICES ASSUME ~Faults PROVE Spec => []CommittedWifiWasJoined
  OBVIOUS
<1>1. ClaimInv => CommittedWifiWasJoined
  BY DEF ClaimInv, WifiJoined, CommittedWifiWasJoined
<1> QED
  BY <1>1, ClaimInvariant, PTL

\* The body of ExchangeIsDurable.
BoundIsPending ==
  server' # server => nvs.pending # None /\ nvs.pending.key = claimAttempt.key

\* Only CLAIMING talks to the server, about the attempt that is pending.
LEMMA ExchangeHasPending ==
  ASSUME DeviceInv, ClaimInv, Next
  PROVE  BoundIsPending
<1> SUFFICES ASSUME server' # server
             PROVE  nvs.pending # None /\ nvs.pending.key = claimAttempt.key
  BY DEF BoundIsPending
<1>1. ClaimExchanged \/ ClaimNotExchanged
  BY DEF Next, Boot, Connecting, Claiming, Setup, Serial, FlashStep, LosePower, Restart, world,
     BootResumesStage, BootStageDone, BootStageFailed, BootCleansCommitted, BootLoads,
     BootCleanupDone, BootCleanupFailed, BootRetriesPending, BootConnects, BootOpensPortal,
     WifiConnected, GivesUpConnecting, ReadyLosesWifi, TimeSyncedChangesWifi,
     WifiChangeDone, WifiChangeFailed, TimeSynced, ClaimCommitFailed, ClaimDone,
     ClaimCleanupFailed, EnterSetupMode, FactoryReset, PortalSaveDone, PortalSaveFailed,
     StageClaim, PortalClaims, PortalChangesWifi, CliClaims, CliSaveDone, CliSaveFailed,
     CliReplayPreserves, CliReplayRecovers, CliReplayDone, CliReplayFailed, ForgetClaim,
     CliProvisions, CliProvisionDone, CliProvisionFailed
<1>2. state = "CLAIMING" /\ job = NoJob /\ claimAttempt # None
  BY <1>1 DEF ClaimExchanged, ClaimNotExchanged, Running
<1> QED
  BY <1>2, JobFields DEF ClaimInv, AttemptSaved

\* The server binds a code only to the key of the pending claim in flash, which a
\* reset does not lose, when the writes work.
THEOREM DeviceExchangeIsDurable == ~Faults => (Spec => ExchangeIsDurable)
<1> SUFFICES ASSUME ~Faults PROVE Spec => ExchangeIsDurable
  OBVIOUS
<1>1. DeviceInv /\ ClaimInv /\ [Next]_vars => [BoundIsPending]_vars
  BY ExchangeHasPending
<1> QED
  BY <1>1, ClaimInvariant, PTL DEF Spec, ExchangeIsDurable, BoundIsPending

\* The body of SameCodeSameKey.
PendingKeepsKey ==
  nvs.pending # None /\ nvs'.pending # None /\ nvs.pending.code = nvs'.pending.code
  => nvs'.pending.key = nvs.pending.key

\* The pending claim is written only by a save, and that saves the key it had.
LEMMA SaveKeepsKey ==
  ASSUME DeviceInv, ClaimInv, Next
  PROVE  PendingKeepsKey
<1>1. CASE nvs' = nvs
  BY <1>1 DEF PendingKeepsKey
<1>2. CASE FlashStep
  <2>1. \/ nvs'.pending = nvs.pending
        \/ nvs'.pending = None
        \/ job.kind \in SaveKinds /\ nvs'.pending = job.attempt
    BY <1>2, FlashEffect DEF DeviceInv
  <2> QED
    BY <2>1 DEF PendingKeepsKey, ClaimInv, AttemptSaved
<1>3. CASE Clear
  BY <1>3 DEF Clear, Erased, PendingKeepsKey
<1> QED
  BY <1>1, <1>2, <1>3, WhoWritesFlash

\* A code that is submitted again, before or after a reset, keeps its key in flash,
\* when the writes work.
THEOREM DeviceSameCodeSameKey == ~Faults => (Spec => SameCodeSameKey)
<1> SUFFICES ASSUME ~Faults PROVE Spec => SameCodeSameKey
  OBVIOUS
<1>1. DeviceInv /\ ClaimInv /\ [Next]_vars => [PendingKeepsKey]_vars
  BY SaveKeepsKey
<1> QED
  BY <1>1, ClaimInvariant, PTL DEF Spec, SameCodeSameKey, PendingKeepsKey
=============================================================================
