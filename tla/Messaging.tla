-------------------------------- MODULE Messaging --------------------------------
(***************************************************************************)
(* The connection to the broker and what is published over it: the last    *)
(* will and the availability, and telemetry with its ring of samples that  *)
(* could not be published.                                                 *)
(*                                                                         *)
(* Two places connect: serviceConnection, in the main loop, which also     *)
(* announces the device and flushes the ring, and mqttReconnect, before an *)
(* ack is published, which leaves that to the next serviceConnection by    *)
(* way of _justConnected.  Whether an attempt is due is the reconnect      *)
(* policy's business; here an attempt may always be made or not.           *)
(*                                                                         *)
(* A publish fails while the connection is down, or for itself (a fault)   *)
(* while it is up.                                                         *)
(***************************************************************************)
EXTENDS Naturals, Sequences

CONSTANTS
  Slots,      \* entries of _telemetryBuffer, 8 in the code
  Capacity,   \* mqtt.telemetryBufferCapacity, at most Slots
  Empty,      \* a slot without a sample
  MaxOutages, \* bound: connections lost
  MaxFaults   \* bound: publishes that fail over a connection that is up

ASSUME MessagingAssumption ==
  /\ Slots \in Nat \ {0}
  /\ Capacity \in 0..Slots
  /\ MaxOutages \in Nat
  /\ MaxFaults \in Nat

VARIABLES
  timeValid,     \* _protocol.timeValid()
  will,          \* _lastWillConfigured, and a last will in the connection
  connected,     \* the MQTT connection is up
  justConnected, \* NivaloConnection::_justConnected
  stage,         \* where serviceConnection is, or loop when it is not running
  ring,          \* _telemetryBuffer
  head,          \* _telemetryBufferHead
  count,         \* _telemetryBufferCount
  availability,  \* what the broker retains for the availability topic
  published,     \* telemetry the broker has received, in order
  lost,          \* samples given up: no time, no buffer, or the oldest of a
                 \* full one
  outages,       \* connections lost so far
  faults,        \* publishes that failed for themselves so far
  failed         \* one of them since the connection was made

connVars == <<timeValid, will, connected, justConnected, stage, availability>>
ringVars == <<ring, head, count>>
faultVars == <<outages, faults, failed>>
messagingVars == <<connVars, ringVars, published, lost, faultVars>>

Indices == 0..(Slots - 1)

MessagingInit ==
  /\ timeValid \in BOOLEAN
  /\ will = FALSE
  /\ connected = FALSE
  /\ justConnected = FALSE
  /\ stage = "loop"
  /\ ring = [i \in Indices |-> Empty]
  /\ head = 0
  /\ count = 0
  /\ availability = "none"
  /\ published = <<>>
  /\ lost = {}
  /\ outages = 0
  /\ faults = 0
  /\ failed = FALSE

-----------------------------------------------------------------------------
(* Publishing *)

\* _connection.publish returns false.
PublishFails ==
  \/ ~connected /\ UNCHANGED <<faults, failed>>
  \/ /\ connected
     /\ faults < MaxFaults
     /\ faults' = faults + 1
     /\ failed' = TRUE

PublishWorks == connected /\ UNCHANGED <<faults, failed>>

\* publishAvailability("online", ...)
PublishOnline ==
  \/ PublishWorks /\ availability' = "online"
  \/ PublishFails /\ UNCHANGED availability

Full == count = Capacity

\* The samples in the ring, oldest first.
Kept == [k \in 1..count |-> ring[(head + k - 1) % Slots]]

\* Defect: the ring is taken to be as large as configured.
TailSlotOfCapacity == (head + count) % Capacity

\* Where the next sample is put.
TailSlot == (head + count) % Slots

\* A sample that was not published is put in the ring, in the place of the
\* oldest when as many are kept as configured.
Push(s) ==
  /\ IF Full
     THEN /\ head' = (head + 1) % Slots
          /\ ring' = [ring EXCEPT ![head] = Empty, ![TailSlot] = s]
          /\ count' = count
          /\ lost' = lost \cup {ring[head]}
     ELSE /\ ring' = [ring EXCEPT ![TailSlot] = s]
          /\ count' = count + 1
          /\ UNCHANGED <<head, lost>>
  /\ UNCHANGED published

\* publishTelemetry
PublishTelemetry(s) ==
  /\ \/ /\ ~timeValid
        /\ lost' = lost \cup {s}
        /\ UNCHANGED <<ringVars, published, faults, failed>>
     \/ /\ timeValid
        /\ PublishWorks
        /\ published' = Append(published, s)
        /\ UNCHANGED <<ringVars, lost>>
     \/ /\ timeValid
        /\ PublishFails
        /\ IF Capacity > 0
           THEN Push(s)
           ELSE /\ lost' = lost \cup {s}
                /\ UNCHANGED <<ringVars, published>>
  /\ UNCHANGED <<connVars, outages>>

-----------------------------------------------------------------------------
(* Connecting *)

\* Defect: the connection does not tell serviceConnection that it is new.
ReconnectQuietly ==
  /\ will
  /\ ~connected
  /\ connected' = TRUE
  /\ failed' = FALSE
  /\ UNCHANGED <<timeValid, will, justConnected, stage, availability, ringVars,
                 published, lost, outages, faults>>

\* mqttReconnect, when its attempt succeeds.
Reconnect ==
  /\ will
  /\ ~connected
  /\ connected' = TRUE
  /\ justConnected' = TRUE
  /\ failed' = FALSE
  /\ UNCHANGED <<timeValid, will, stage, availability, ringVars, published,
                 lost, outages, faults>>

\* serviceConnection up to takeJustConnected: the will is configured, and a
\* connection attempt fails or is not due, or ends with isUp.
Service(isUp) ==
  /\ stage = "loop"
  /\ timeValid
  /\ connected => isUp
  /\ will' = TRUE
  /\ connected' = isUp
  /\ failed' = (failed /\ connected = isUp)
  /\ justConnected' = FALSE
  /\ stage' = IF justConnected \/ connected # isUp THEN "announce" ELSE "loop"
  /\ UNCHANGED <<timeValid, availability, ringVars, published, lost, outages,
                 faults>>

\* What follows a new connection: the availability, ...
Announce ==
  /\ stage = "announce"
  /\ PublishOnline
  /\ stage' = "variables"
  /\ UNCHANGED <<timeValid, will, connected, justConnected, ringVars, published,
                 lost, outages>>

\* Defect: the ring is not flushed.
StartFlushForgotten ==
  /\ stage = "variables"
  /\ stage' = "loop"
  /\ UNCHANGED <<timeValid, will, connected, justConnected, availability,
                 ringVars, published, lost, faultVars>>

\* ... a sample of each variable (PublishTelemetry), and the flush.
StartFlush ==
  /\ stage = "variables"
  /\ stage' = "flush"
  /\ UNCHANGED <<timeValid, will, connected, justConnected, availability,
                 ringVars, published, lost, faultVars>>

\* Defect: a failure does not end the flush, and the sample leaves the ring.
FlushOneForgets ==
  /\ stage = "flush"
  /\ connected
  /\ count > 0
  /\ \/ PublishWorks /\ published' = Append(published, ring[head])
     \/ PublishFails /\ UNCHANGED published
  /\ ring' = [ring EXCEPT ![head] = Empty]
  /\ head' = (head + 1) % Slots
  /\ count' = count - 1
  /\ UNCHANGED <<connVars, lost, outages>>

\* One round of flushTelemetryBuffer, which the first failure ends.
FlushOne ==
  /\ stage = "flush"
  /\ connected
  /\ count > 0
  /\ \/ /\ PublishWorks
        /\ published' = Append(published, ring[head])
        /\ ring' = [ring EXCEPT ![head] = Empty]
        /\ head' = (head + 1) % Slots
        /\ count' = count - 1
        /\ UNCHANGED stage
     \/ /\ PublishFails
        /\ stage' = "loop"
        /\ UNCHANGED <<ringVars, published>>
  /\ UNCHANGED <<timeValid, will, connected, justConnected, availability, lost,
                 outages>>

FlushDone ==
  /\ stage = "flush"
  /\ ~connected \/ count = 0
  /\ stage' = "loop"
  /\ UNCHANGED <<timeValid, will, connected, justConnected, availability,
                 ringVars, published, lost, faultVars>>

\* The availability in loop(), once a minute.
Heartbeat ==
  /\ stage = "loop"
  /\ timeValid
  /\ PublishOnline
  /\ UNCHANGED <<timeValid, will, connected, justConnected, stage, ringVars,
                 published, lost, outages>>

-----------------------------------------------------------------------------
(* Around the device *)

\* The broker publishes the last will.
LoseConnection ==
  /\ connected
  /\ outages < MaxOutages
  /\ outages' = outages + 1
  /\ connected' = FALSE
  /\ availability' = "offline"
  /\ UNCHANGED <<timeValid, will, justConnected, stage, ringVars, published,
                 lost, faults, failed>>

\* SNTP has set the clock.
ClockSet ==
  /\ ~timeValid
  /\ timeValid' = TRUE
  /\ UNCHANGED <<will, connected, justConnected, stage, availability, ringVars,
                 published, lost, faultVars>>

\* RAM is lost, and the connection with it.
MessagingRestarts ==
  /\ timeValid' \in BOOLEAN
  /\ will' = FALSE
  /\ connected' = FALSE
  /\ justConnected' = FALSE
  /\ stage' = "loop"
  /\ availability' = IF connected THEN "offline" ELSE availability
  /\ ring' = [i \in Indices |-> Empty]
  /\ head' = 0
  /\ count' = 0
  /\ lost' = lost \cup {Kept[k] : k \in 1..count}
  /\ failed' = FALSE
  /\ UNCHANGED <<published, outages, faults>>

-----------------------------------------------------------------------------
(* Properties *)

\* README: "the client does not connect or publish envelopes until it can
\* produce a real UTC sentAt", and "connects with a retained QoS 1 offline Last
\* Will".  And whoever made the connection: the broker retains online while it
\* is up, but for the moment until serviceConnection has announced it, unless
\* a publish failed over it.
OnlineAnnounced ==
  connected =>
    /\ timeValid /\ will
    /\ \/ availability = "online"
       \/ justConnected \/ stage = "announce" \/ failed

\* A live sample overtakes buffered ones only over a new connection they have
\* not been flushed to yet, or after a publish over this connection failed,
\* which ends a flush and keeps samples until the next connection.
OvertakesUnflushedOnly ==
  [][\A k \in 1..Len(published') :
       k > Len(published) /\ count > 0 /\ published'[k] # ring[head] =>
         justConnected \/ stage # "loop" \/ failed]_messagingVars
=================================================================================
