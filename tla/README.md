# A TLA+ verification of nivalo-esp32

nivalo-esp32 is an Arduino library for ESP32 devices that talk to the Nivalo
cloud: they are provisioned over a captive portal or a serial line, keep an
MQTT session over TLS, execute commands, forward some of them to an STM32 over
SPI ("NivaloLink"), buffer telemetry, and update their own firmware and that of
the STM32. This directory models the library in TLA+, checks the models with
TLC on small instances and proves the most important results with TLAPS for
every instance.

Line numbers refer to `src/NivaloProvisioning.cpp` unless another file is named.

## 1. Inventory

Everything runs on one Arduino task: `loop()` of the sketch calls
`NivaloProvisioning::loop()` until the device is READY and `NivaloDevice::loop()`
from then on. There are no threads. What makes the code hard is that power can
go at any instruction, that flash writes can fail or land although they were
reported failed, that the network answers late, twice or never, and that
`PubSubClient::loop()` is called from inside its own callback.

| component | state it keeps | operations | talks to | hard because |
|---|---|---|---|---|
| Provisioning store (`NivaloProvisioningStore`, `NivaloCliTransaction`) | Preferences namespace: selector, slots A and B, pending claim, CLI stage | load, commit, stageCli, clearCliStaged, savePending, clearPending, clear; transactions start and resume | the state machine | power loss and failing writes between any two writes |
| Provisioning state machine (`NivaloProvisioning`) | state, credentials, pending network, claim attempt, code, failure count, request in flight | begin, loop, portal form, button, factory reset, serial identify/claim/provision | store, Wi-Fi, NTP, claim server, MQTT broker, serial host | three interfaces over the same RAM and flash; retries; replays; timeouts |
| Serial framing and validation (`NivaloCliFrame`, `NivaloCliProvisioningPolicy`) | line buffer, length, last byte time | push, expire, reset; validators | state machine | boundaries, timeouts inside a line |
| Time policy (`NivaloProvisioningTimePolicy`) | none | permitsTls, elapsed, retryDue, retryDelay | state machine | wrap of millis() |
| Connection (`NivaloConnection`, `NivaloReconnectPolicy`) | next attempt, delay, just-connected flag | service, publish, takeJustConnected | broker | backoff, wrap, missed notification |
| Command dispatch and reports (`NivaloDeviceCommand`, `NivaloDeviceReports`, `NivaloDeviceSdk`, `NivaloCommandResultCache`) | eight ack slots, eight event slots, eight cached results | mqttCallback, queue and drain, dispatchSdkCommand | connection, link, update | re-entrant callback, redelivery, bounded queues, order of acknowledgements |
| SDK registry (`NivaloSdkRegistry`) | bounded tables | add/find variable, function, handler | dispatch | limits, duplicates |
| NivaloLink (`NivaloDeviceLink`, `NivaloLinkSpiTransport`, manager, sequence, poll policy) | sequence numbers, backoff, deferred drain, poll deadline | exchange, drain, handle frame | STM32 over SPI | lost and repeated frames, nesting, wrap |
| Messaging (`NivaloDeviceMessaging`, `NivaloDevice`) | ring of eight telemetry messages | publish, flush, serviceConnection | connection | bound, order, reconnects |
| Firmware update (`NivaloDeviceOta`, `NivaloOta`) | firmware and recovery images in SPIFFS, target flash | handleFirmwareCommand | HTTP, programmer, security | partial failure, recovery of a recovery, re-entrancy |
| Firmware security (`NivaloFirmwareSecurity`) | none | digest and signature checks | update | cryptography, no state |
| UART bridge (`NivaloDevice`) | none | readBridgeLine | messaging | a line that brings a value becomes telemetry |
| Lifecycle, protocol names, status pixel | wiring | begin, formatting | all | no decision that outlives a call |
| CMSIS-DAP programmer (`third_party`) | vendored | | update | external |

What makes each correct, in a sentence:

- Store: the identity a boot loads is always a whole old one or a whole new
  one, and a started transaction is finished, never half forgotten.
- State machine: what the host or the claim server was told is true after the
  next reset; a one-use code is used with one key; every accepted request is
  answered.
- Dispatch: a command is executed at most once while its result is cached, is
  answered, and its acknowledgements arrive in order.
- Link: a frame is handled once and in order; waiting frames are fetched.
- Messaging: the newest samples survive an outage, in order; a new connection is
  announced and the buffer flushed, whoever made it.
- Timers: every wait, pause and lifetime has its length wherever the clock wraps.
- Update: a target that cannot be programmed is restored or its last good
  image is kept.

The hazards behind these are listed with their lines in `PROJECT.json`.

## 2. Plan

| # | module | composes | abstract specification | status |
|---|---|---|---|---|
| 1 | `ProvisioningStore` | | `AtomicIdentity` | checked and proved |
| 2 | `Provisioning` | `ProvisioningStore` | `AtomicIdentity`, through the store | checked, safety proved |
| 3 | `CommandDispatch` | queues, cache, nested callback | at-most-once execution, ordered acknowledgements | checked, safety proved |
| 4 | `NivaloLink` | | a stream handled once, in order | checked, safety proved |
| 5 | `FirmwareUpdate` | the nested command | a target that is good, or an image that can make it so | checked, safety proved |
| 6 | `Messaging` | | `TelemetryQueue`, a bounded drop-oldest queue | checked, safety proved |
| 7 | `Bridge` | `NivaloLink`, `Messaging` | `TelemetryQueue`, for samples of either origin | checked, safety proved |
| 8 | `Clock`, `CliFrame`, `Reconnect`, `SetupTimers`, `LinkSchedule` | the four over one clock, in `MCTimers` | histories that do not wrap | checked, safety proved |

Every safety property of a passing run is a theorem now. Worth proving next: that
`Provisioning` without failing writes implements `AtomicIdentity` with its RAM as the
identity between handlers; that a forwarded command the secondary MCU has ended is told, still
to be fetched, or lost to an outage or a restart; and, of the link and the ring together, that a sample that is
neither published nor kept was given up for one of the reasons the README of the
library names, stated per reason.

## 3. Modules

**`ProvisioningData`** holds the values: networks, codes, keys, provisioned
identities. Device id, MQTT password and private key are copied together
everywhere in the code, so an identity is one value; a claimed identity is the
key of its attempt, which is how `pendingIdentityWasCommitted` (130-136)
recognises it. The claim receipt (SHA-256 of the code) is the code. `None` is an
empty string or a record that `valid()` or the parser rejects; the tombstone
`superseded` is such a record.

**`ProvisioningStore`** models flash (`nvs`) and the one store operation in
progress (`job`). A job's `pc` is the next Preferences write with its read-back,
or the next verifying load; `Effect` says what it writes and `After` which step
`&&` goes on to. `StepOk` is a step that returns true. `StepFails` is one that
returns false, whether or not the write landed, and ends the job, because `&&`
skips the rest. `PowerLoss` drops the job and keeps flash. `commit` is
`writeSlot`, `select`, `reload`; the transaction of `NivaloCliTransaction.h` is
`stage`, commit, `supersede`, `verify`, `unstage`; a claim is commit and
`supersede`.

**`AtomicIdentity`** is what the store promises: one identity that changes in one
step. `ProvisioningStore` implements it with `identity <- Loaded(nvs)`.

**`Provisioning`** adds RAM and the handlers. A handler that writes flash is a
`Begin` action that holds its guards and the assignments before the write, the
store's steps, and one continuation for success and one for failure; while a job
is open no other handler runs (`Running`), only power may go. The correspondence:

| code | actions |
|---|---|
| `begin` 203-261 | `BootResumesStage` ... `BootOpensPortal` |
| `loop`, CONNECTING and SYNCING 326-378, `continueAfterTimeSync` | `WifiConnected`, `GivesUpConnecting`, `TimeSynced`, `TimeSyncedChangesWifi`, `WifiChangeDone`, `WifiChangeFailed` |
| `loop`, CLAIMING 379-409 | `ClaimExchanged`, `ClaimNotExchanged`, `ClaimCommitFailed`, `ClaimDone`, `ClaimCleanupFailed` |
| `loop`, READY 410-419 | `ReadyLosesWifi` |
| button, `factoryReset` | `EnterSetupMode`, `FactoryReset` |
| `handlePortalSubmit` 754-784 | `PortalClaims`, `PortalSaveDone`, `PortalSaveFailed`, `PortalChangesWifi` |
| `handleCliClaim` 488-586 | `CliClaims`, `CliSaveDone`, `CliSaveFailed`; replay: `CliReplayPreserves`, `CliReplayRecovers`, `CliReplayDone`, `CliReplayFailed` |
| `handleCliProvision` 588-635 | `CliProvisions`, `CliProvisionDone`, `CliProvisionFailed` |
| `handleCliSerial` 429-434 | `Restart` |

`server` is the claim server, external: it binds a code to the first key it
accepts and afterwards accepts exactly that key, which is what "allowing the
server to return the same identity idempotently" needs. `acked`, `usedKeys` and
`joined` only observe: the credentials the host was last told are active (reset
when the user asks for something else), the keys generated, the network last
joined. Requests the guards refuse change nothing and are not steps.

Abstractions: the clock and its bounded retries (`_timeSyncFailures`), the
backoff deadlines and the connect timeouts are nondeterministic, so every
timing is covered; `SetupTimers` models them. Only `claimFailures` is kept, since it decides. Its bound is
the constant `MaxClaimFailures`, 5 in the code and 2 in the runs; the counter is
capped there because the code only compares it with the bound.

**`CommandDispatch`** models a bridge build once it is READY. `PubSubClient::loop()`
delivers at most one message, by calling `mqttCallback`, and is called by the main
loop, twice inside the callback and after every published ack, so callbacks nest.
`stack` is that call stack: each activation has the delivery it handles, the place
it has reached and whether it is inside `loop()` (`pump`). Only there can `Deliver`
push another callback; `NoMessage` is a `loop()` that returns without one.

| code | actions |
|---|---|
| `NivaloDevice::loop`, `serviceConnection` | `Service`, then `DrainAck`/`DrainDone`, then `PollStatus`/`PollAgain`/`LinkDone` |
| `mqttCallback` up to its own `loop()` (`NivaloDeviceCommand.cpp` 5-89) | `Deliver`, `DrainAck`, `DrainDone`, `NoMessage` |
| `dispatchSdkCommand` (`NivaloDeviceSdk.cpp` 177-263) | `AnswerFromCache`, `RunFunction` |
| forwarding (`NivaloDeviceCommand.cpp` 99-171) | `Forward`, `ForwardFails` |
| `handleFirmwareCommand` as far as acks, `loop()` and restart go | `RejectFlash`, `StartFlash`, `Download`, `Progress`, `EndFlash`, `Restart` |
| `queueCommandAckReport`, `publishCommandAck` | `QueueAck`, `PublishAck`, part of the actions above |

`acks` and `cache` are the device's tables; `mcuBusy` and `mcuOut` are the secondary
MCU, external: it ends a command in its own time and has one final status for it,
which it sends in every exchange until one acknowledges it. The bridge publishes a
status the first time it hears it (`ExchangeStatus` sets `heard`), takes it for a
duplicate the second (`PollAgain`), and acknowledges it with its next frame
(`Acknowledge`), as `NivaloLink` has it in detail. A restart forgets what was heard. As
publishing the status calls `loop()`, an update can restart the device right there; the
status then comes and is published again. `req`, `amid`, `told`, `before`, `ran`, `lost`,
`failed` and `dropped` only observe: what the broker delivered, which commands to
forward came in the middle of other work, what the host heard in this run of the bridge
and in earlier ones, which functions ran in this one, which acks an outage or a
restart swallowed, how many publishes failed, and which acks a full queue lost.
`requestDefinitions` is a name that is forwarded in a bridge build and a function in
a standalone one, where the rest of the forwarding always fails. Events are left
out, because publishing one does not call `loop()`. Of the acks that report a
download's progress one is modelled. A function that needs no name of its own, the
generic command handler, is the functions it handles; a command it leaves
unhandled is one of `Unregistered`.

**`FirmwareUpdate`** models `handleFirmwareCommand` (`NivaloDeviceOta.cpp` 304-900)
from the moment a signed command is accepted. Each ack it publishes calls `loop()`,
and so does the reconnect before the last one, so another firmware command can be
delivered and handled to its end there, over the same files, flash and link. `stack`
holds the handlers that are open, the running one first; a place (`pc`) is such a
point, and an action is what the handler does between two of them. `disturbed` marks
the handlers that another ran inside after their session had begun.

| code | actions |
|---|---|
| 304-396, signature accepted, running | `Deliver` |
| 397-494, session, request, staging file | `Fetch`, `FetchFails` |
| 495-605, download, size and digest | `Verify`, `DownloadFails` |
| 607-650, `Update` and restart | `UpdateEsp32`, `UpdateFails` |
| 653-773, target and recovery image | `PrepareRecovery`, `RefuseStm32` |
| 775-799, programming and read-back | `Program`, `ProgramFails`, `Check`, `CheckFails` |
| 801-839, recovery | `Restore`, `RestoreFails` |
| 841-899, success and restart | `Check`, `Finish`, `Restart` |
| `~NivaloOtaSession` | `Return` |

`staged` is `/firmware.bin`, `recovery` the file at `recoveryPath` (the golden image or
the snapshot of the known-good one), `target` the flash of the STM32, `app` what the
ESP32 boots. `SPIFFS.begin(true)` (466) mounts the file system in the first download
after a boot (`mounted`); one that cannot be mounted is formatted, and the recovery
image is gone with the rest (`Format`). Contents are values: an
image, or `Broken` for anything torn or half programmed. The acceptance drill is a
`Program` that leaves `Broken`. `good` observes the image last verified in the STM32,
and `exposed` whether the code has given the recovery up: it replaced the snapshot or
formatted the file system while the target was not good, or handled a command inside
the programming of another.
`PowerLoss` can also strike between the instructions of an action, where that leaves
something else than either end: a torn download, snapshot or flash. It also stands for the SWD
driver's error handler, which never returns (298-303) and leaves the device to its
watchdog.

**`NivaloLink`** models the frames between the bridge and the secondary MCU. An
exchange clocks a frame out and one in at the same time; the MCU learns from the
acknowledgment in the next one that its frame arrived, and sends it again until then.
The program of the MCU is not in the repository: `queue`, `number` and `fresh` are the
partner that the sequence numbers and acknowledgments of the bridge are made for, and
external. An exchange and the handling of its frame are one step, because a callback
that exchanges frames itself can run only inside the last thing `handleNivaloLinkFrame`
does, the publication of a status.

| code | actions |
|---|---|
| `NivaloLinkReceiveSequence` | `Duplicate`, `Observe`, `Acknowledgment` |
| `NivaloLinkSpiTransport::exchange` and the handling that follows | `ReceiveFrame`, `ReceiveIdle`, `ReceiveDamaged` |
| `begin` | `LinkRestarts` |
| external | `McuMakes`, `McuResets`, `McuHears` |

`handled` observes the frames handled, with the run of the bridge (`boot`) that did so.

**`Messaging`** models the connection to the broker and the ring of telemetry
samples. Two places connect: `serviceConnection`, and `publishCommandAck` through
`mqttReconnect`, which leaves the announcement and the flush to the next
`serviceConnection` by way of `_justConnected`. `stage` is where `serviceConnection` is.

| code | actions |
|---|---|
| `serviceConnection`, `NivaloConnection::service` | `Service`, then `Announce`, `VariableSample` (in `Bridge`), `StartFlush` |
| `flushTelemetryBuffer` | `FlushOne`, `FlushDone` |
| `publishTelemetry` and its buffer | `PublishTelemetry`, `Push` |
| `mqttReconnect` | `Reconnect` |
| the minute's availability in `loop` | `Heartbeat` |
| around the device | `LoseConnection`, `ClockSet`, `MessagingRestarts` |

A publish fails while the connection is down, or for itself while it is up (a fault).
`published`, `lost` and `failed` observe what the broker received, which samples were
given up, and whether a publish has failed since the connection was made.

**`TelemetryQueue`** is what the README of the library promises of the ring.
`Bridge` implements it with `queue <- Kept`, the samples from the head on.

**`Bridge`** composes the two: `Exchange` is an exchange of `NivaloLink` whose frame is
given to `Handle`, which publishes telemetry, reconnects for a status, and does
nothing that lasts for an event. The bridge makes samples too (`RuntimeSample`,
`UartLine`, `VariableSample`) and acks of its own (`OwnAck`). A restart strikes both parts.

**`Clock`** is `millis()`: it counts to `Period` and wraps. `Elapsed` and `Reached` are the
two ways in which the code compares times. `gap` is the time since the loop last came
round, at most `LoopMs`. The four modules over it have histories that count exactly
and do not wrap, which the properties compare with what the code concludes.

**`CliFrame`** is the collector of serial lines with its caller: `Push` and `Expire` are the
functions, `CliStarts`, `CliTakes` and `CliReturns` a call of `handleCliSerial`. A byte is one
of the four classes `push` distinguishes. **`Reconnect`** is the policy (`OnFailure`,
`OnSuccess`, `AttemptDue`) with `NivaloConnection::service` in each pass (`ServiceNothing`,
`AttemptFails`, `AttemptSucceeds`). **`SetupTimers`** has the waits of
`NivaloProvisioning::loop` in the states that `Provisioning` has too, here without the
identity. **`LinkSchedule`** is `drainNivaloLink` (`DrainNothing`, `DrainStart`,
`ExchangeValid`, `ExchangeInvalid`, `Handled`) with commands forwarded between drains
and inside one (`CommandExchange`), and the deferral of polls that follows them.

**`MCTimers`** puts these four in one run. They share only the clock; `focus` is the one
that moves, so the states of the run are the sum of theirs and not the product.

`StackLemmas` holds the two facts about call stacks that the proofs of the dispatcher and
the update share. `MCProvisioningStore`, `MCProvisioning`, `MCCommandDispatch`,
`MCFirmwareUpdate`, `MCBridge`, `MCTimers` and `MCLinkSchedule` are the modules TLC instantiates.
Operators commented "Defect" next to a definition are deliberately wrong variants
of it, used to confirm that a property notices.

## 4. Runs

| run | question | instance | result |
|---|---|---|---|
| `store` | is the identity atomic, whoever calls the store in whatever order? | 1 network, 1 code, 1 key, 1 provisioned identity, failing writes | 21,520 states, all hold |
| `crash` | with writes that work, does everything survive power loss? | 2 networks, 2 codes, 2 keys, 1 identity | 1,339,406 states, all hold |
| `faults` | what survives failing writes as well, and is every claim answered? | 1 network, 1 code, 2 keys, 1 identity, weak fairness | 438,691 states, all hold |
| `dispatch` | with commands arriving inside one another and publishes that may fail, are acks ordered, kept, and given? | 3 deliveries of 1 id, 1 function, 1 forwarded name, updates; 3 ack slots, cache of 1, at most 2 callbacks on the stack, 2 failing publishes | 3,845,111 states, all hold |
| `dispatch_cache` | is a redelivered command run again, or answered for another? | 4 deliveries of 3 ids (symmetric), 2 functions, cache of 2 | 4,768,761 states, all hold |
| `update` | do updates of both chips stay safe through failures, power loss and nesting? | 4 commands, at most 3 handlers open, 1 ESP32 and 2 STM32 images, both recovery modes, formatting | 1,061,252 states, all hold |
| `bridge` | does what the MCU and the bridge have to say reach the broker once, in order, and in the end? | 3 frames or samples, 2 sequence numbers, 3 slots for 2 samples, 1 restart, reset, outage or failed publish, damaged frames at will, fairness | 297,908 states, all hold |
| `timers` | does every wait, pause and lifetime have its length across the wrap? | a clock of 14 ms, passes 1 ms apart, timeouts of 1 to 4 ms | 4,119,398 states, all hold |
| `stale_ack` | does an acknowledgement survive failing writes (README 151-154)? | as `faults` | violated |
| `id_reuse` | does an id used for another command fail closed (README 420)? | 2 deliveries of 1 id | violated |
| `known_good` | is what is reported as the known-good image that image (README 282-284)? | 2 commands, no nesting | violated |
| `poll_gap` | does the one-second poll remain the fallback (README 221-223)? | a clock of 9 ms | violated |

Why these instances are enough: two credentials that differ (claimed and
provisioned) are what a half-done commit could mix up, and with a second network
there are eight. A second network is needed for a Wi-Fi change that commits the
wrong one, a second code and key for a claim that overtakes another. No handler
reads more than the two slots, one stage, one pending claim and one attempt.
Failing writes multiply the states, so the `faults` run has one network and code
and leaves the properties about several of them to `crash`.

For the dispatcher, three deliveries are one that is interrupted, the one that
interrupts it and one that arrives between them or after both; a fourth is needed
to bring back an id the cache of two has forgotten. Three slots for at most two
nested callbacks are the tightest that satisfy `MaxDepth < AckSlots`; with as many
callbacks as slots an ack can be lost, because a status in the exchange that
forwards a command is published while running is queued. The code has eight slots.
Two failing publishes (`Outages`) can take both acks of one command, or one of each of
two that nest; the theorems hold for any number.

For the update, one image per chip cannot be mistaken for another, so there are two
for the STM32; a third handler inside two shows what the one in the middle leaves to
the one outside; a fourth command allows an update after a nested failure.

For the bridge, two sequence numbers are the fewest that differ, so that a wrap and an
equal number after a reset are never far. Three slots for two samples let the ring
wrap and tell the number of slots from the configured capacity. Three samples fill
it and push one out. Damage of frames is unbounded; of the other troubles the run has
one of any kind. With two of them (`MaxTroubles = 2`, an outage and a failed publish,
say) everything holds as well, over 1,154,618 states, too many for a run with a
liveness property; the theorems hold for any number.

For the timers, what matters is how the timeouts lie to one another, to the time
between two passes and to half the range of the clock, and where in the range a wait
begins. All are scaled down, and the range of 14 keeps every timeout, with the three
passes by which it may be late, below half of it as the ones of the code are. The clock
starts anywhere where a deadline of 0 makes a difference, and the wrap comes in the
middle of every wait. The bound of `SetupBounded` is a sum of upper bounds; a run that
stays below it may not come close to it. The theorems of `TimerProofs` cover the values
in the code, which no run could.

What the properties say, beyond types:

- `SettledWhenDone`, `StageOutlivesFailure`: success is reported only when
  everything is in flash, and until then a boot can finish.
- `ImplementsAtomicIdentity`: the identity is old or new, never a mixture.
- `AckedSurvives`, `RamMatchesFlash`: what the host was told is
  what the next boot loads. They need writes that work. With failing writes the
  weaker `InstalledBeforeAck` (at the moment of the acknowledgement) and
  `AckedDisplacedOnlyByStage` hold: only a stage left by an earlier failed request
  can replace an acknowledged identity.
- `NoExchangeAfterCommit`, `ExchangeIsDurable`, `SameCodeSameKey`: the one-use code
  is exchanged with one key, which is in flash first, and never again afterwards.
- `CommittedWifiWasJoined`: a network is committed only after it was joined.
- `IdentityNeverLost`: no failure leaves a running device without an identity.
- `CliClaimAnswered`: a claim that blocks the serial port is answered.
- `RunsOnce`: between two executions under one id lie as many others as the cache
  holds, however deliveries nest. `ToldWhatRan`: success is heard only for the
  command that ran.
- `AcksInOrder`: in one run of the bridge accepted comes first and there is one final
  ack; running follows it only for a forwarded command that arrived in the middle of
  other work. A later run repeats at most the status of a forwarded command, with the
  same outcome. `QueueNeverFull`: the callback drains before it adds.
- `EveryCommandAnswered`: every named command gets an answer beyond accepted, or lost
  it to an outage or a restart.
- `AppIsVerified`: no torn image is booted, whoever changed `/firmware.bin` in the ack
  between its verification and its use. `SuccessMeansInstalled`: success is true for a
  handler that no other ran inside. Otherwise it may not be: an inner update of the STM32
  whose recovery fails leaves the file it staged, and the outer one programs that, finds
  it equal and reports success for its own image.
- `TargetRecoverable`, `RestoredIsGood`: the STM32 runs the image last verified, or the
  device keeps what recovers it, and what it reports as restored is that image; both
  until `exposed`, which `known_good` shows to be needed. With a golden image what is at
  stake is that the file is there: formatting beside a good target does no harm.
- `LinkResumes`: no way out of the handler leaves the link resting. That the destructor
  of a nested session resumes it early, while the outer one still programs, does happen.
- `FramesInOrder`: frames are handled in the order in which the MCU made them, once in
  each run of the bridge, although each is sent more than once. `RetiredIsHandled`: a
  frame the MCU drops as delivered was handled, with two exceptions that lie in the
  protocol: the first frame of an MCU that was reset may carry the number observed
  last, and a bridge that has observed none acknowledges 0.
- `SamplesAccounted`: no sample is published twice in a run of the bridge, and
  telemetry that was handled is published, in the ring, or given up (no time, no buffer,
  the oldest of a full one, a restart), and only one of these.
- `ImplementsTelemetryQueue`: head, count and slots are a queue that drops its oldest.
- `OvertakesUnflushedOnly`: a live sample goes before buffered ones only until the new
  connection's flush, or after a publish over it failed.
- `OnlineAnnounced`: no connection is made without a time and a will, and each is
  announced as online or about to be, or an announcement over it failed.
- `AllGetsThrough`: what the MCU has to say is handled in the end, and the ring is
  flushed, unless a publish failed over the connection.
- `LineIsWhole`, `LineForgotten`: a serial line is handed on exactly if it is whole, and
  younger than a line may be; the buffer holds nothing of earlier ones.
- `BackoffKept`, `WaitsKept`: an attempt is due when its pause is over, not before and
  not later; the same of the waits of provisioning. `SetupBounded`: however the network
  comes and goes, an attempt to connect and claim ends within the sum of its timeouts.
- `PollGapBounded`, `WaitsForDataReady`: the link is polled every second but for the case
  `poll_gap` shows, in which the heartbeat remains; after a forwarded command
  it is polled only when the MCU signals or the second is over, also when a drain was
  under way.

Fairness: `FairSpec` has weak fairness of `DeviceStep`, the steps the device takes
by itself: its main loop keeps being called, a timer that is awaited elapses, an
HTTP, MQTT or flash call returns (all have timeouts). Nothing is assumed of the
user, of power, of the network's answers or of which outcome a call has; success
is never guaranteed. A claim is therefore answered through the bounded failure
count and the connect timeouts, not because the network is good. `FairSpec` of
`CommandDispatch` likewise has weak fairness of the device's own steps only: handlers,
downloads and publishes return, and the main loop runs. The broker and the secondary
MCU owe nothing, so a forwarded command counts as answered by running. `FairSpec` of
`FirmwareUpdate` has weak fairness of the handlers' steps: the download times out when
idle and is bounded by its size, and calls of the programmer and the file system
return. A nested command delays the outer one, but the bound on commands ends that.
`BridgeFairSpec` has weak fairness of `ServiceStep`, which runs to its end, and strong
fairness of an exchange that is not damaged and of an attempt to connect that
succeeds: both are tried again and again, and the world is assumed to let one through
from time to time. The MCU, publishes, restarts and outages owe nothing. The runs about
the clock need no fairness: passes at most `LoopMs` apart are part of the model.

### What the violated runs show

- `stale_ack`: a claim is acknowledged, then a provisioning request fails after
  its selector write (or after staging). The host hears `ok = false`, RAM keeps the old
  identity, and a repeated claim request is answered `ok = true` for it although
  flash, or the stage the next boot will install, holds the other one.
This one needs a failing flash write. The others do not:

- `id_reuse`: a function runs and its result is cached; `firmware.flash` arrives under
  the same id and starts, since firmware commands are recognised before the cache
  is looked at.
- `known_good`: power goes while the STM32 is being programmed, so the target is broken
  and the good image is in the snapshot. Nothing uses it at boot. The next update
  removes it, snapshots the broken flash, fails, programs the broken content back,
  finds it equal, and reports that the known-good image was restored. A failed
  recovery, whose report says "recovery image retained", leads to the same.
- `poll_gap`: a frame is invalid; its backoff is long over when `millis()` wraps, but after
  the wrap `backoffUntil` is larger than the time again, and `now < backoffUntil`
  (`NivaloDeviceLink.cpp` 314) holds until the clock comes there once more, up to 49 days: no
  poll, even when DATA_READY is high, only the heartbeat every 30 seconds.

Divergences that came up in the modelling and that no run shows:

- A portal claim is connecting; a serial claim with another code arrives, its
  `savePending` fails and the host hears `ok = false`; but its code and attempt are
  already in RAM (578), and the state machine exchanges the attempt that is not in flash,
  against the library's README 80-82. `ExchangeIsDurable` is therefore checked without
  failing writes. Where already the key generation fails, only code and network are
  overwritten, and the claim under way commits the network of the refused one, which the
  device has not joined; `CommittedWifiWasJoined` likewise.
- A portal claim is saved, a provisioning is staged and cut off; at the next boot the
  recovery fails, `begin` returns before loading the pending claim (230), and the code
  resubmitted over serial gets fresh key material that overwrites the attempt the
  server may already know, against README 88-90. `SameCodeSameKey` likewise.
- While a first command is being handled a second one is delivered and forwarded, and
  its running is queued; back in the first callback, the exchange that forwards the
  first returns the final status of the second, which is published at once. The host
  hears accepted, succeeded, running. No document promises an order here: the cases of
  `tests/sdk_dispatch_cases.json` are single commands. `AcksInOrder` permits it for
  commands that arrive in the middle of other work (`amid`) and rules it out for all
  others, whose running the next drain publishes before any exchange.
- The publication of a final status delivers a firmware command, whose update restarts
  the device before the next frame has acknowledged the status. The secondary MCU sends
  it again, the bridge has forgotten its number, and the host hears the outcome twice.
  `AcksInOrder` says of the repetition that it is the same outcome.
- The retained recovery image and the golden one are in the file system that
  `SPIFFS.begin(true)` formats when it cannot be mounted (466). After a failed recovery
  that leaves the STM32 with a broken image and nothing to recover it; `exposed` names it.
- The first claim of a request has the deadline 0, which stands for at once (381, 582,
  782). At an uptime of 24.8 to 49.7 days that is a time in the future by the signed comparison,
  and the claim waits for the wrap. `FirstClaimStalls` names the case; `WaitsKept` and
  `SetupBounded` leave it out.

## 5. Proofs

`ProvisioningStoreProofs` proves, for every set of values and with or without
failing writes, the three properties of the `store` run and two it rests on
(`ClaimDoneWhenSettled`, a claim that is done left no claim behind, and
`LoadedMovesBySelector`, the slot in use is never written). None of them is inductive:
that `commit` ends with its credentials loaded depends on the slot having been
written before the selector moved, and that depends on the job being on its own
path. `IInv` collects what each step has established for the next: `JobOnPath`
(which steps a kind of job can be at, and what it carries), `SlotWritten` (at
`select` the other slot holds the credentials), `SelectedIsLoaded` (past `select` a
boot loads them), `Superseded` (past `clearPending` no claim is left), `StageHeld`
(the stage is there until `unstage`). One lemma per kind of step shows that `IInv`
is preserved; the safety properties follow from it and `LoadedMovesBySelector` and
`ImplementsAtomicIdentity` from it together with the effect of a step.

`ProvisioningProofs` proves `TypeCorrect` and `DeviceRunsStore`: every handler of the
device uses the store as `ProvisioningStore` allows, so the store's theorems hold of
the device as a whole (`DeviceImplementsAtomicIdentity`, `DeviceSettledWhenDone`).
`DeviceInv` adds to `IInv` the types of RAM and that a save or a cleanup is open only
while its attempt or its credentials are in RAM. On top of that
`DeviceInstalledBeforeAck` shows that a claim or a provisioning is acknowledged only
when it is in flash, whatever writes fail.

The other properties of the `crash` and `faults` runs speak of RAM, flash, the host and the
server together, and rest on three invariants on top of `DeviceInv`:

- `IdentityInv` holds whatever writes fail. An identity in RAM has one in flash, and a
  device that connects without a claim or a change of network to make has its
  credentials (`IdentityKept`); that survives a failed commit because one that fails past
  the selector has its credentials in flash (`SettledJobs`), and a job finds in RAM what
  it was begun with (`JobsInRam`). `NoRival`: once an identity is acknowledged no claim in flash
  or RAM and no commit under way can replace it. `DeviceIdentityNeverLost` and
  `DeviceAckedDisplacedOnlyByStage` follow.
- `FlashInv` says that the handlers know what is in flash: no job has failed
  (`NothingFails`), a stage is being worked on or is taken up by the next boot
  (`StageResumed`), RAM is what a boot loads unless a job is about to make it so
  (`RamIsFlash`), and so is what the host was told (`AckedInFlash`). It yields
  `DeviceRamMatchesFlash` and `DeviceAckedSurvives`.
- `ClaimInv` follows one code from the form to the cleanup: keys in use were drawn
  (`KeysDrawn`), so a new attempt has none that flash knows; the attempt in RAM is the one
  in flash (`AttemptSaved`), was not committed before it is exchanged (`NotCommitted`), and is for the
  network that was joined (`WifiJoined`). It yields the other four.

The last two hold for writes that work, so their six theorems read
`~Faults => (Spec => ...)`. The hypothesis is needed: with failing writes and two
networks TLC violates `RamMatchesFlash`, `NoExchangeAfterCommit` and
`CommittedWifiWasJoined`, and `stale_ack` shows it of the acknowledgement.

`CommandDispatchProofs` proves `DispatchTypeCorrect` and `DispatchRunsOnce` for any
number of ids, deliveries and nested callbacks and any size of queue and cache.
`RunsOnce` is not inductive: it says nothing of the cache, which is what keeps a
function from running. `CacheIsRecent` connects the two: the cache is exactly the last
executions, as many as fit, so an id that is not cached last ran longer ago than the
cache is deep. `PcMatches` says that the main loop never is where a callback can be and
conversely, so that every callback has a delivery and `Return` never empties the
stack. The result rests on `remember` coming before the ack whose `loop()` can deliver
the command again (`RunFunction` is one step up to there).

`DispatchQueueNeverFull` counts the slots in use (`Busy`). `BusyBound` says that the
callback at level k of the stack (`Depth`) adds to at most `MaxDepth - k` acks and leaves at most one
more than it found, and that the drain it interrupted has no more than that in
the slots it has already passed. So whoever adds finds a slot as long as
`MaxDepth < AckSlots`; with equality one can be missing. `AcksInv` follows every
delivery through the places where its acks can be: queued (`QueuedOnce`, `QueuedOpen`), in
a handler that has not answered (`Handling`), at the secondary MCU (`AtMcu`,
`McuDistinct`), told in this run (`Heard`, `IsFinal`) or in an earlier one (`Earlier`).
While a final ack can still come from one of the others none was told, with one
exception: the status that was heard and is not acknowledged yet, and after a restart
the ones told before it, which can only repeat the outcome (`McuOpen`). `QueuedOpen`
says besides that accepted waits only for a callback that is still draining.
Running is different, since it is queued after the command has gone out. A
callback for a command that did not arrive amid other work interrupts only the main
loop, which has not begun to drain (`Direct`, which needs that later deliveries lie
higher on the stack, `StackOrdered`); so every activation drains the slot of its running
before it reaches an exchange (`RunningFirst`). From these follows
`DispatchAcksInOrder`. `ToldRan` adds that a success the host has heard of a function
stands for an execution under the same id and name, which the cache repeats for no
other (`DispatchToldWhatRan`); it speaks of functions, not of forwarded commands.

`FirmwareUpdateProofs` proves the five safety properties of the `update` run, for any
images, commands and depth, and `LinkPausedInSession`: the link rests during a session,
unless that was interrupted and the destructor of the inner one resumed it. `IInv` says
of every handler on the stack what it relies on: an interrupted one is marked
(`InterruptedMarked`), so an unmarked one in its session is the running one and
`RunningAlone` need speak of that only; the file is whole or gone for every handler that
has verified one, unless one inside it is downloading (`VerifiedIsWhole`); a handler
that programs has a good recovery image, or the target is exposed, or it lies under a
handler that can only restart and so never runs again (`BusyKeepsGood`). That last case
is what makes the invariant inductive: the success of an inner handler removes the
snapshot the outer one prepared. Formatting cannot take the image from under a handler
that programs, because its own download has mounted the file system (`Fetch`). `GotoInv`
shows once for all what a step of the running handler has to establish; a lemma per
action does so.

`BridgeProofs` proves `FramesInOrder` and `RetiredIsHandled` for any number of frames, of
sequence numbers, of restarts and of resets. `FramesInOrder` speaks of what was handled
only; what keeps it is the relation of that to what waits: the queue is in order
(`QueueInOrder`), what was handled was made before what waits, but for the first of the
queue (`HandledFirst`), and if that was handled in this run its number is the one
remembered (`HandledIsDuplicate`). A number is compared with the last one only, so it must
also be shown that a new frame has another: `IdleNumberRemembered`, since the number of
an idle frame is the one before. `DuplicateIsHandled` is the converse and yields
`RetiredIsHandled`: what is acknowledged is what was observed, and that was handled.

`TelemetryProofs` proves the other safety properties of the `bridge` run, for any number
of slots and any capacity up to it. `SlotIs` and `SlotsInARow` do the arithmetic modulo the number
of slots once; `ContentsPush`, `ContentsPop` and `ContentsReplace` say what the three changes
of the ring do to the samples it holds, so that the rest is about sequences; the
refinement `RingIsQueue` has one case per action. `SamplesAccounted` needs what the link
guarantees: a frame that is repeated is not handled again. `AccountInv` therefore
adds to disjoint places that every sample seen was made and, if its frame still waits,
was handled in this run (`SeenWasMade`), so that the next one handled is new.
`OnlineAnnounced` and `OvertakesUnflushedOnly` rest on `ConnectionInv`: a will is configured only
with a time, and samples that stay in the ring while connected wait for the service of
a new connection or saw a publish fail (`KeptUntilNextConnection`).

`TimerProofs` proves every property of the `timers` run, for any length of the clock
that is large enough for the timeouts. `ElapsedIs`, `LaterIs` and `TickKeeps` are the arithmetic
of a difference that wraps: a millisecond later it is a millisecond more, until it comes
round. Each invariant then says up to where a difference tells the exact age.

- `CliInv`: the frame's timer tells the age of its line (`CliTimer`); the frame holds the
  line so far, or the line is malformed whatever follows (`CliContent`), which is
  what makes discarding it right; between lines nothing is left (`CliIdle`).
- `ReconnectInv`: the deadline lies one pause behind the last failure (`PauseRuns`) and the
  pauses double up to their maximum (`BackoffGrows`). The code doubles by comparison
  with half of the maximum, the README counts in powers of two: `BackoffIs` shows that
  they agree, on the ground of `PowersDouble`, 2^(k+1) = 2 * 2^k, which the provers do not know and
  which is derived by counting subsets.
- `ScheduleInv`: `lastPoll` and the command's time tell the age of the last exchange and of the
  command (`PollTimed`, `CommandTimed`), also inside a drain, whose time is older than
  the clock by what has passed since (`DrainTimed`).
- `SetupInv`: each wait is told by its timer, or by the deadline set for it (`DeadlineIn`), and
  `busy`, what the attempt has taken so far, fits the budget of the waits that its counters
  say are over (`ConnectBudget`, `ClaimBudget`). A wait for the clock in which the network
  is down ends a connect timeout later (`WaitsWithWifi`).

Three things in the models did not survive these proofs. `SetupTimers` allowed for one late
pass in a wait, but three can add up (the loss of the network is seen late, given up
late, and a loss at time 0 is noted a pass later), so that `SetupAssumption` and
`SetupBound` were too small; TLC confirmed it with a clock of 11 ms and passes 4 ms apart.
`LinkSchedule` asked that two HELLO intervals fit the clock, which leaves no room for a late pass
(TLC: a clock of 21 ms, HELLO after 10, passes 4 ms apart), and that a pass and
the fallback take less than a HELLO interval, which a pass as long as the watchdog allows
does not. The proof needs neither: `PollGap` bounds the pause for passes of any
length that fit the clock. The values in the code satisfy the new assumptions with ease (32
bits of milliseconds, timeouts of a minute at most).

Assumptions: the ones of `ProvisioningData` (`None` is not a value, claimed and
provisioned identities differ), `Faults` is a Boolean, `MaxClaimFailures` a positive
number; in `CommandDispatch` the three kinds of name and `None` are distinct and the
sizes are positive; in `FirmwareUpdate` images, `Broken` and `None` are distinct and no
file is `None`; in `NivaloLink` there are at least two sequence numbers, in `Messaging`
at least one slot and no larger capacity than slots, and `Empty` is no sample; for the
timers, the timeouts are positive, each of those of provisioning is less than half the
range of the clock with three passes to spare, the HELLO interval, the fallback and two
passes are less than the range, the backoff's maximum is even and with jitter and a
pass less than half the range, and the lifetime of a line and a pass are less than the
range.

Only model-checked: the liveness properties `CliClaimAnswered`,
`EveryCommandAnswered`, `LinkResumes` and `AllGetsThrough` (liveness and ENABLED are out of
the prover's reach), and what the
four violated runs show. That `Provisioning` and `SetupTimers` are about the same loop is
not proved either: the two modules are not composed.

## 6. Not modelled

- The components `PROJECT.json` lists as not modelled: the validators of serial requests and
  the SDK registry, which no step of another actor changes; the cryptography of firmware
  security; configuration and wiring; the vendored programmer, examples and scripts.
- The namespace erase inside `clear()` as several flash operations.
- The local developer fixture and the refused unencrypted store (206-226): both
  end `begin` before the store is used.
- JSON text and its capacity, cryptography, HTTP and HTML: reduced to their
  outcomes. NVS is taken to replace
  one value atomically, so a write has landed or has not.
- `nivalo.cli.identify.v1`, which changes no state.
- Of the dispatcher: the queue of events, ids of 40 characters or more (which the
  cache refuses to hold) and commands without an id, progress statuses of the
  secondary MCU.
- Of the link: the bytes of a frame and its checksum, reduced to whole or damaged; the
  report of invalid frames, at most one a minute. What
  the bridge sends, beyond its acknowledgments, is the forwarding of `CommandDispatch`.
- Of messaging: events, which are not buffered, so that one is gone when the broker
  is away although the MCU was told that its frame arrived; topics and envelopes.
  The times at which `serviceConnection` may try are in `Reconnect`, which is not
  composed with `Messaging`: there an attempt is possible at any time.
- Of serial lines: what of an expired line arrives later is taken for a new one, and
  refused or not by its contents.
- Of the timers: a claim replayed over serial from ERROR, which starts a time sync (553); the waits
  it begins are those of any request, and `Provisioning` has the replay.
- Of the update: refused commands, which change nothing; the sizes of images, so that
  a staged or recovery image always has the expected size and a configured
  known-good size always fits; the amount of free storage, reduced to there being
  enough or not.
