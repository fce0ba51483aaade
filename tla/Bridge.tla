--------------------------------- MODULE Bridge ---------------------------------
(***************************************************************************)
(* A sample on its way from the secondary MCU to the broker: NivaloLink    *)
(* and Messaging together, in a bridge build.  The frame handed over by an *)
(* exchange is handled by handleNivaloLinkFrame, which publishes it:       *)
(* telemetry by publishTelemetry, the status of a command by               *)
(* publishCommandAck, which may reconnect, anything else as an event, with *)
(* no buffer and no consequence.  The device makes samples too.            *)
(***************************************************************************)
EXTENDS NivaloLink, Messaging

CONSTANT
  MaxTroubles  \* bound: restarts, resets, outages and faults together

bridgeVars == <<linkVars, messagingVars>>

Sample(id) == [id |-> id, boot |-> boot]
Samples == [id : 1..MaxMade, boot : 0..MaxResets]

ASSUME BridgeAssumption == Empty \notin Samples

BridgeInit == LinkInit /\ MessagingInit

\* Defect: telemetry is published like any other event.
HandleUnbuffered(frame) ==
  \/ frame.kind = "status" /\ Reconnect
  \/ UNCHANGED messagingVars

\* handleNivaloLinkFrame
Handle(frame) ==
  \/ frame.kind = "telemetry" /\ PublishTelemetry(Sample(frame.id))
  \/ frame.kind = "status" /\ Reconnect
  \/ frame.kind # "telemetry" /\ UNCHANGED messagingVars

\* An exchange by drainNivaloLink or by a command that is forwarded.
Exchange ==
  /\ stage = "loop"
  /\ \/ ReceiveFrame /\ Handle(Head(queue))
     \/ (ReceiveIdle \/ ReceiveDamaged) /\ UNCHANGED messagingVars

\* publishTelemetry for a sample that the bridge makes itself, at this stage.
OwnSample(at) ==
  /\ stage = at
  /\ made < MaxMade
  /\ made' = made + 1
  /\ PublishTelemetry(Sample(made + 1))
  /\ UNCHANGED <<rx, mcuVars, boot, handled>>

\* publishRuntimeTelemetry, or the sketch
RuntimeSample == OwnSample("loop")

\* A line of the UART that brings a value; other lines are published as events.
UartLine == OwnSample("loop")

\* publishVariables
VariableSample == OwnSample("variables")

\* publishCommandAck for what the device answers itself.
OwnAck == stage = "loop" /\ Reconnect /\ UNCHANGED linkVars

ServiceStep ==
  /\ Announce \/ StartFlush \/ FlushOne \/ FlushDone
  /\ UNCHANGED linkVars

DeviceStep ==
  \/ Exchange \/ RuntimeSample \/ UartLine \/ VariableSample
  \/ OwnAck \/ ServiceStep
  \/ /\ Heartbeat \/ \E isUp \in BOOLEAN : Service(isUp)
     /\ UNCHANGED linkVars

Restart == boot + resets < MaxResets /\ LinkRestarts /\ MessagingRestarts

Environment ==
  \/ /\ McuResets \/ \E kind \in Kinds : McuMakes(kind)
     /\ UNCHANGED messagingVars
  \/ (LoseConnection \/ ClockSet) /\ UNCHANGED linkVars

Troubles == boot + resets + outages + faults

BridgeNext ==
  /\ DeviceStep \/ Restart \/ Environment
  /\ Troubles' <= MaxTroubles

BridgeSpec == BridgeInit /\ [][BridgeNext]_bridgeVars

\* loop() keeps running; not every exchange is damaged, and not every attempt
\* to connect fails.
HealthyExchange == Exchange /\ rx'.has /\ (Acknowledgment = number => queue' # queue)

BridgeFairSpec ==
  /\ BridgeSpec
  /\ WF_bridgeVars(ServiceStep)
  /\ SF_bridgeVars(HealthyExchange)
  /\ SF_bridgeVars(Service(TRUE) /\ UNCHANGED linkVars)

-----------------------------------------------------------------------------
(* Properties *)

KeptSamples == {Kept[k] : k \in 1..count}
PublishedSamples == {published[k] : k \in 1..Len(published)}

\* A sample is published at most once in a run of the bridge, whichever of the
\* repetitions of its frame arrive; and a telemetry frame the bridge has handled
\* is published, or in the ring, or was given up for one of the three reasons,
\* and only one of these.
SamplesAccounted ==
  /\ \A j, k \in 1..Len(published) : j # k => published[j] # published[k]
  /\ \A j, k \in 1..count : j # k => Kept[j] # Kept[k]
  /\ KeptSamples \cap PublishedSamples = {}
  /\ lost \cap (KeptSamples \cup PublishedSamples) = {}
  /\ \A k \in 1..Len(handled) :
       handled[k].kind = "telemetry" =>
         [id |-> handled[k].id, boot |-> handled[k].boot]
           \in PublishedSamples \cup KeptSamples \cup lost

\* The ring, with its head, count and slots, is a queue that drops its oldest.
TelemetryQueued ==
  INSTANCE TelemetryQueue WITH queue <- Kept

ImplementsTelemetryQueue == TelemetryQueued!Spec

\* What the MCU has to say gets through in the end, and so do the samples in the
\* ring once the connection can be made, unless a publish failed over it.
AllGetsThrough ==
  /\ queue # <<>> ~> queue = <<>>
  /\ count > 0 ~> (count = 0 \/ failed)
=================================================================================
