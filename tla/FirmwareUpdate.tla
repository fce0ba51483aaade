---------------------------- MODULE FirmwareUpdate ----------------------------
(***************************************************************************)
(* handleFirmwareCommand: a signed image is downloaded to /firmware.bin,   *)
(* verified, and installed in the ESP32 itself or, by the SWD programmer,  *)
(* in the STM32, for which a recovery image is prepared first.             *)
(*                                                                         *)
(* Every ack the handler publishes calls PubSubClient::loop(), where the   *)
(* next firmware command can be delivered and handled to its end, over the *)
(* same files, target and link.  So activations nest: the head of stack is *)
(* the running one, and each place it can be at is such an ack, or the     *)
(* reconnect before the last one.  Between them power can go.  The SWD     *)
(* driver's error handler never returns and leaves the device to its       *)
(* watchdog, which is PowerLoss too.                                       *)
(***************************************************************************)
EXTENDS Naturals, Sequences

CONSTANTS
  EspImages,    \* signed images for the ESP32
  McuImages,    \* signed images for the STM32
  OriginalApp,  \* what the ESP32 runs at first
  Original,     \* what the STM32 runs at first, known to be good
  Golden,       \* the pre-provisioned golden image
  Broken,       \* content that is no whole image
  None,         \* no such file
  MaxCommands,  \* bound: firmware commands delivered
  MaxDepth      \* bound: handlers that run inside each other

Images == EspImages \cup McuImages

ASSUME UpdateAssumption ==
  /\ EspImages \cap McuImages = {}
  /\ {OriginalApp, Original, Golden, Broken, None} \cap Images = {}
  /\ OriginalApp # Broken
  /\ None \notin {Original, Golden, Broken} \cup [image : Images, whole : BOOLEAN]
  /\ Broken \notin {Original, Golden}
  /\ MaxCommands \in Nat
  /\ MaxDepth \in Nat

VARIABLES
  stack,      \* activations: [pc, image, disturbed]
  staged,     \* /firmware.bin: None or [image, whole]
  recovery,   \* the file at recoveryPath: the golden image, or a snapshot
  mounted,    \* the file system is mounted, in this run of the ESP32
  hasGolden,  \* a golden image is configured, not a snapshot
  target,     \* the flash of the STM32
  app,        \* the image the ESP32 boots
  paused,     \* NivaloLinkSpiTransport::_paused
  commands,   \* firmware commands delivered
  good,       \* the image of the STM32 last verified to be installed
  exposed     \* a snapshot was made of a target that is not good, or the
              \* file system formatted beside one, or a handler ran while
              \* another was programming the target

files == <<staged, recovery, mounted>>
vars == <<stack, files, hasGolden, target, app, paused, commands, good, exposed>>

Init ==
  /\ stack = <<>>
  /\ staged = None
  /\ mounted = FALSE
  /\ hasGolden \in BOOLEAN
  /\ recovery = IF hasGolden THEN Golden ELSE None
  /\ target = Original
  /\ app = OriginalApp
  /\ paused = FALSE
  /\ commands = 0
  /\ good = Original
  /\ exposed = FALSE

-----------------------------------------------------------------------------
(* Helpers *)

At(pc) == stack # <<>> /\ Head(stack).pc = pc
AtMcu(pc) == At(pc) /\ Head(stack).image \in McuImages
Goto(pc) == stack' = <<[Head(stack) EXCEPT !.pc = pc]>> \o Tail(stack)

\* What is read from a staged file.
Content(f) == IF f.whole THEN f.image ELSE Broken

\* What programming the content c can leave in the target: flash that did
\* not take every bit, or the bit that the acceptance drill clears, shows in
\* the read-back only.
Programmed(c) == {c, Broken}

\* The snapshot has served and is removed; the golden image stays.
DropSnapshot == recovery' = IF hasGolden THEN recovery ELSE None

\* Preparing the snapshot stops somewhere: before the old one is removed,
\* after that, or with a new one, whole or not, that is not read back.
SpoilSnapshot ==
  \E s \in {recovery} \cup (IF hasGolden THEN {} ELSE {None, Broken, target}) :
    /\ recovery' = s
    /\ exposed' = (exposed \/ (s # recovery /\ target # good))

\* SPIFFS.begin(true), where the file system is not mounted yet and cannot be:
\* it is formatted, and the recovery image goes with the rest.
Format ==
  /\ ~mounted
  /\ recovery' = None
  /\ exposed' = (exposed \/ target # good)

-----------------------------------------------------------------------------
(* Download *)

\* A correctly signed command arrives.  A refused one changes nothing.
Deliver(image) ==
  /\ commands < MaxCommands
  /\ Len(stack) < MaxDepth
  /\ commands' = commands + 1
  /\ LET interrupted ==
           [i \in 1..Len(stack) |->
              [stack[i] EXCEPT !.disturbed = @ \/ stack[i].pc # "started"]]
     IN stack' = <<[pc |-> "started", image |-> image, disturbed |-> FALSE]>>
                 \o interrupted
  /\ exposed' = (exposed \/ \E i \in 1..Len(stack) :
                   stack[i].pc \in {"programming", "programmed", "recovering"})
  /\ UNCHANGED <<files, hasGolden, target, app, paused, good>>

\* No download: the server, the length, the file system or its space.
FetchFails ==
  /\ At("started")
  /\ paused' = TRUE
  /\ mounted' \in {mounted, TRUE}
  /\ \/ staged' \in {staged, None} /\ UNCHANGED <<recovery, exposed>>
     \/ staged' = None /\ Format
  /\ Goto("failed")
  /\ UNCHANGED <<hasGolden, target, app, commands, good>>

Fetch ==
  /\ At("started")
  /\ paused' = TRUE
  /\ mounted' = TRUE
  /\ staged' = [image |-> Head(stack).image, whole |-> FALSE]
  /\ UNCHANGED <<recovery, exposed>> \/ Format
  /\ Goto("downloading")
  /\ UNCHANGED <<hasGolden, target, app, commands, good>>

DownloadFails ==
  /\ At("downloading")
  /\ staged' = None
  /\ Goto("failed")
  /\ UNCHANGED <<recovery, mounted, hasGolden, target, app, paused, commands,
                 good, exposed>>

\* Defect: the digest of the downloaded bytes is trusted, the file not re-read.
VerifyUnread ==
  /\ At("downloading")
  /\ staged # None
  /\ Goto("verified")
  /\ UNCHANGED <<files, hasGolden, target, app, paused, commands, good,
                 exposed>>

\* The download is complete and the file has the signed digest.  If another
\* handler has replaced the file, that is so for the same image only.
Verify ==
  /\ At("downloading")
  /\ staged # None
  /\ staged.image = Head(stack).image
  /\ staged' = [staged EXCEPT !.whole = TRUE]
  /\ Goto("verified")
  /\ UNCHANGED <<recovery, mounted, hasGolden, target, app, paused, commands,
                 good, exposed>>

-----------------------------------------------------------------------------
(* The ESP32 itself *)

UpdateFails ==
  /\ At("verified")
  /\ Head(stack).image \in EspImages
  /\ staged' \in {staged, None}
  /\ Goto("failed")
  /\ UNCHANGED <<recovery, mounted, hasGolden, target, app, paused, commands,
                 good, exposed>>

\* Update accepts an image for this chip only.
UpdateEsp32 ==
  /\ At("verified")
  /\ Head(stack).image \in EspImages
  /\ staged # None
  /\ staged.image \in EspImages
  /\ app' = Content(staged)
  /\ staged' = None
  /\ Goto("reported")
  /\ UNCHANGED <<recovery, mounted, hasGolden, target, paused, commands, good,
                 exposed>>

-----------------------------------------------------------------------------
(* The STM32 *)

\* The target cannot be reached, is unknown or too small, or there is no
\* recovery image.
RefuseStm32 ==
  /\ AtMcu("verified")
  /\ SpoilSnapshot
  /\ staged' = None
  /\ Goto("failed")
  /\ UNCHANGED <<mounted, hasGolden, target, app, paused, commands, good>>

\* Defect: the snapshot is taken although a golden image is configured.
PrepareBoth ==
  /\ AtMcu("verified")
  /\ recovery' = target
  /\ exposed' = (exposed \/ (~hasGolden /\ target # good))
  /\ Goto("programming")
  /\ UNCHANGED <<staged, mounted, hasGolden, target, app, paused, commands,
                 good>>

\* Defect: the snapshot is not read back.
PrepareUnread ==
  /\ AtMcu("verified")
  /\ recovery' \in IF hasGolden THEN {recovery} ELSE {target, Broken}
  /\ exposed' = (exposed \/ (~hasGolden /\ target # good))
  /\ Goto("programming")
  /\ UNCHANGED <<staged, mounted, hasGolden, target, app, paused, commands,
                 good>>

\* The golden image has its digest, or a snapshot is taken and read back.
PrepareRecovery ==
  /\ AtMcu("verified")
  /\ hasGolden => recovery = Golden
  /\ recovery' = IF hasGolden THEN recovery ELSE target
  /\ exposed' = (exposed \/ (~hasGolden /\ target # good))
  /\ Goto("programming")
  /\ UNCHANGED <<staged, mounted, hasGolden, target, app, paused, commands,
                 good>>

ProgramFails ==
  /\ At("programming")
  /\ target' \in {target, Broken}
  /\ Goto("recovering")
  /\ UNCHANGED <<files, hasGolden, app, paused, commands, good, exposed>>

\* Any file of the expected size is programmed; sizes are left out.
Program ==
  /\ At("programming")
  /\ staged # None
  /\ target' \in Programmed(Content(staged))
  /\ Goto("programmed")
  /\ UNCHANGED <<files, hasGolden, app, paused, commands, good, exposed>>

\* A read-back can also fail by itself.
CheckFails ==
  /\ At("programmed")
  /\ Goto("recovering")
  /\ UNCHANGED <<files, hasGolden, target, app, paused, commands, good,
                 exposed>>

\* Defect: what was programmed is not read back.
CheckUnread ==
  /\ At("programmed")
  /\ staged # None
  /\ good' = Content(staged)
  /\ exposed' = FALSE
  /\ DropSnapshot
  /\ staged' = None
  /\ Goto("installed")
  /\ UNCHANGED <<mounted, hasGolden, target, app, paused, commands>>

\* The read-back equals the staged file.
Check ==
  /\ At("programmed")
  /\ staged # None
  /\ target = Content(staged)
  /\ good' = target
  /\ exposed' = FALSE
  /\ DropSnapshot
  /\ staged' = None
  /\ Goto("installed")
  /\ UNCHANGED <<mounted, hasGolden, target, app, paused, commands>>

Finish ==
  /\ At("installed")
  /\ Goto("reported")
  /\ UNCHANGED <<files, hasGolden, target, app, paused, commands, good,
                 exposed>>

\* The recovery image is programmed and read back; the staged file stays.
Restore ==
  /\ At("recovering")
  /\ recovery # None
  /\ target' = recovery
  /\ good' = IF hasGolden THEN recovery ELSE good
  /\ DropSnapshot
  /\ Goto("restored")
  /\ UNCHANGED <<staged, mounted, hasGolden, app, paused, commands, exposed>>

\* Defect: the snapshot is removed whatever the recovery did.
RestoreFailsDrops ==
  /\ At("recovering")
  /\ target' \in {target, Broken} \cup ({recovery} \ {None})
  /\ DropSnapshot
  /\ Goto("failed")
  /\ UNCHANGED <<staged, mounted, hasGolden, app, paused, commands, good,
                 exposed>>

RestoreFails ==
  /\ At("recovering")
  /\ target' \in {target, Broken} \cup ({recovery} \ {None})
  /\ Goto("failed")
  /\ UNCHANGED <<files, hasGolden, app, paused, commands, good, exposed>>

-----------------------------------------------------------------------------
(* The end of a handler *)

\* The ESP32 boots, and the link starts resumed.
Restart ==
  /\ At("reported")
  /\ stack' = <<>>
  /\ paused' = FALSE
  /\ mounted' = FALSE
  /\ UNCHANGED <<staged, recovery, hasGolden, target, app, commands, good,
                 exposed>>

\* Defect: the destructor does not resume the link.
ReturnStaysPaused ==
  /\ At("failed") \/ At("restored")
  /\ stack' = Tail(stack)
  /\ UNCHANGED <<files, hasGolden, target, app, paused, commands, good,
                 exposed>>

\* The destructor of NivaloOtaSession resumes the link.
Return ==
  /\ At("failed") \/ At("restored")
  /\ stack' = Tail(stack)
  /\ paused' = FALSE
  /\ UNCHANGED <<files, hasGolden, target, app, commands, good, exposed>>

\* Power goes in the middle of what the running handler does next.
PowerLoss ==
  /\ stack # <<>>
  /\ stack' = <<>>
  /\ paused' = FALSE
  /\ mounted' = FALSE
  /\ target' \in {target} \cup
       (IF At("programming") THEN {Broken} ELSE {}) \cup
       (IF At("recovering") THEN {Broken, recovery} \ {None} ELSE {})
  /\ LET torn == [image |-> Head(stack).image, whole |-> FALSE]
     IN \/ staged' \in {staged, None} /\ UNCHANGED <<recovery, exposed>>
        \/ At("started") /\ staged' = torn /\ UNCHANGED <<recovery, exposed>>
        \/ At("started") /\ staged' \in {None, torn} /\ Format
        \/ AtMcu("verified") /\ staged' \in {staged, None} /\ SpoilSnapshot
  /\ UNCHANGED <<hasGolden, app, commands, good>>

\* No command arrives.
Idle == stack = <<>> /\ UNCHANGED vars

-----------------------------------------------------------------------------

\* What the device does by itself.
Step ==
  \/ FetchFails \/ Fetch \/ DownloadFails \/ Verify
  \/ UpdateFails \/ UpdateEsp32
  \/ RefuseStm32 \/ PrepareRecovery
  \/ ProgramFails \/ Program
  \/ CheckFails \/ Check \/ Finish
  \/ Restore \/ RestoreFails
  \/ Restart \/ Return

Next == Step \/ Idle \/ PowerLoss \/ \E image \in Images : Deliver(image)

Spec == Init /\ [][Next]_vars

FairSpec == Spec /\ WF_vars(Step)

-----------------------------------------------------------------------------
(* Properties *)

Places == {"started", "downloading", "verified", "programming", "programmed",
           "recovering", "installed", "reported", "failed", "restored"}
Activations == [pc : Places, image : Images, disturbed : BOOLEAN]
Flash == Images \cup {Original, Golden, Broken}

\* The files, flashes and activations have their types; the ESP32 boots no image
\* for the STM32, and nothing takes the place of a golden image.
TypeOK ==
  /\ stack \in Seq(Activations)
  /\ Len(stack) <= MaxDepth
  /\ staged \in [image : Images, whole : BOOLEAN] \cup {None}
  /\ recovery \in Flash \cup {None}
  /\ mounted \in BOOLEAN
  /\ hasGolden \in BOOLEAN
  /\ hasGolden => recovery \in {Golden, None}
  /\ target \in Flash
  /\ app \in EspImages \cup {OriginalApp, Broken}
  /\ paused \in BOOLEAN
  /\ commands \in 0..MaxCommands
  /\ good \in Flash \ {Broken}
  /\ exposed \in BOOLEAN

\* The ESP32 boots whole, verified images only, whoever has written or removed
\* /firmware.bin in the ack between its verification and its use.
AppIsVerified == app # Broken

\* The update that reports success has installed its own image, unless another
\* handler ran inside it.
SuccessMeansInstalled ==
  \A i \in 1..Len(stack) :
    stack[i].pc = "reported" /\ ~stack[i].disturbed =>
      IF stack[i].image \in McuImages THEN target = stack[i].image
                                      ELSE app = stack[i].image

\* The STM32 runs the image last verified, or the device keeps an image that
\* recovers it, through failures, failed recoveries and power losses.
TargetRecoverable == exposed \/ target = good \/ recovery \in {good, Golden}

\* A recovery reported as "known-good image restored and verified" has restored
\* the image last verified.
RestoredIsGood ==
  \A i \in 1..Len(stack) :
    stack[i].pc = "restored" /\ ~stack[i].disturbed /\ ~exposed => target = good

\* The link to the STM32 is paused from the start of a session to its end, unless
\* another handler ran inside it.
LinkPausedInSession ==
  \A i \in 1..Len(stack) :
    stack[i].pc # "started" /\ ~stack[i].disturbed => paused

\* Every pause of the link ends, whichever way out of handleFirmwareCommand is
\* taken and however handlers nest.
LinkResumes == paused ~> ~paused

\* NivaloDeviceOta.cpp 819 reports "known-good image restored and verified", and
\* README.md 282-284 promises that restore and a true report of it after a failure.
\* Said of every recovery, also in an update that follows an unfinished one.
KnownGoodRestored == At("restored") => target = good
===============================================================================
