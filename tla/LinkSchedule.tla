------------------------------ MODULE LinkSchedule ------------------------------
(***************************************************************************)
(* When the bridge exchanges frames with the secondary MCU: drainNivaloLink*)
(* with its HELLO, heartbeat, poll and backoff intervals over a clock that *)
(* wraps, the deferral of polls after a forwarded command                  *)
(* (NivaloLinkCommandPollPolicy), and commands forwarded between drains    *)
(* and from inside one, by the callback that the status of an earlier      *)
(* command may run.  What the frames carry is the subject of NivaloLink;   *)
(* that an invalid frame is reported once a minute is left out.            *)
(*                                                                         *)
(* drainNivaloLink reads millis() once, at its start, and uses that value  *)
(* for all its rounds, while the clock goes on as frames are handled; it   *)
(* reads the clock anew only when a frame is invalid.                      *)
(*                                                                         *)
(* An exchange fails only while the link is paused.  A paused drain returns*)
(* before it has done anything, as if it had not been called, so a pause is*)
(* part of LoopMs here.                                                    *)
(***************************************************************************)
EXTENDS Clock

CONSTANTS
  HelloMs,                 \* also HeartbeatMs: 30000 both in the code
  FallbackPollMs,          \* 1000
  InvalidFrameBackoffMs,   \* 250
  DrainLimit               \* rounds of one drain, 8

ASSUME ScheduleAssumption ==
  /\ {HelloMs, FallbackPollMs, InvalidFrameBackoffMs, DrainLimit} \subseteq Nat \ {0}
  /\ InvalidFrameBackoffMs <= FallbackPollMs
  /\ HelloMs + FallbackPollMs + 2 * LoopMs < Period

VARIABLES
  helloPending,            \* the members of NivaloLinkManager
  lastHello,
  lastPoll,
  lastHeartbeat,
  backoffUntil,
  commandExchangeAt,       \* the members of NivaloLinkCommandPollPolicy
  awaitingDataReady,
  dataReady,               \* the DATA_READY pin
  stage,                   \* loop, or where in drainNivaloLink: exchange, handle
  drain,                   \* its locals: now, helloDue, heartbeatDue, drained
  since                    \* history: how long ago, exactly, see Events

linkTimes == <<helloPending, lastHello, lastPoll, lastHeartbeat, backoffUntil,
               commandExchangeAt, awaitingDataReady>>
scheduleState == <<linkTimes, dataReady, stage, drain, since>>
scheduleVars == <<now, gap, scheduleState>>

\* The longest time without an exchange: a heartbeat's interval in which the polls
\* back off, after a poll that was as late as it may be.
PollGap == HelloMs + FallbackPollMs + LoopMs

\* What the history times, and how far it counts: the last exchange, and the last
\* command that no exchange of drainNivaloLink has followed.
Events == [exchange |-> PollGap, command |-> FallbackPollMs]

NotDraining ==
  [now |-> 0, helloDue |-> FALSE, heartbeatDue |-> FALSE, drained |-> 0]

\* begin(), at any time
ScheduleInit ==
  /\ ClockInit
  /\ helloPending = TRUE
  /\ lastHello = 0
  /\ lastPoll = 0
  /\ lastHeartbeat = 0
  /\ backoffUntil = 0
  /\ commandExchangeAt = 0
  /\ awaitingDataReady = FALSE
  /\ dataReady = FALSE
  /\ stage = "loop"
  /\ drain = NotDraining
  /\ since = [Events EXCEPT !.exchange = 0]

\* Time passes in the main loop and while a frame is handled; an exchange is
\* over within the millisecond.
TimePasses ==
  /\ stage # "exchange"
  /\ Tick
  /\ since' = [e \in DOMAIN Events |-> Upto(since[e], Events[e])]
  /\ UNCHANGED <<linkTimes, dataReady, stage, drain>>

\* The MCU has something to say, or no longer has.
McuSignals ==
  /\ dataReady' = ~dataReady
  /\ UNCHANGED <<now, gap, linkTimes, stage, drain, since>>

-----------------------------------------------------------------------------
(* Commands: mqttCallback forwards one *)

\* Its exchange, with noteCommandExchange.  A callback runs in the main loop,
\* or in a drain when handling a frame services the connection.
CommandExchange ==
  /\ stage \in {"loop", "handle"}
  /\ lastPoll' = now
  /\ commandExchangeAt' = now
  /\ awaitingDataReady' = TRUE
  /\ since' = [since EXCEPT !.exchange = 0, !.command = 0]
  /\ UNCHANGED <<now, gap, helloPending, lastHello, lastHeartbeat,
                 backoffUntil, dataReady, stage, drain>>

-----------------------------------------------------------------------------
(* drainNivaloLink *)

HelloDue == helloPending \/ Elapsed(lastHello) >= HelloMs
HeartbeatDue == Elapsed(lastHeartbeat) >= HelloMs
PollDue == Elapsed(lastPoll) >= FallbackPollMs

\* shouldDeferCommandPoll
Defers ==
  /\ awaitingDataReady
  /\ ~dataReady
  /\ Elapsed(commandExchangeAt) < FallbackPollMs

\* Defect: the backoff holds the heartbeat too.
BacksOffAlways == now < backoffUntil

BacksOff == ~HeartbeatDue /\ now < backoffUntil

Due == dataReady \/ HelloDue \/ HeartbeatDue \/ PollDue

\* The early returns.
ReturnsAtOnce == Defers \/ BacksOff \/ ~Due

DrainNothing ==
  /\ stage = "loop"
  /\ ReturnsAtOnce
  /\ Pass
  /\ UNCHANGED <<linkTimes, dataReady, stage, drain, since>>

DrainStart ==
  /\ stage = "loop"
  /\ ~ReturnsAtOnce
  /\ stage' = "exchange"
  /\ drain' = [now |-> now, helloDue |-> HelloDue,
               heartbeatDue |-> HeartbeatDue, drained |-> 0]
  /\ Pass
  /\ UNCHANGED <<linkTimes, dataReady, since>>

\* What a round does up to the frame that comes back: a HELLO if that is due,
\* or a heartbeat, or a poll.
Exchanges ==
  /\ stage = "exchange"
  /\ awaitingDataReady' = FALSE
  /\ helloPending' = (helloPending /\ ~drain.helloDue)
  /\ lastHello' = IF drain.helloDue THEN drain.now ELSE lastHello
  /\ lastHeartbeat' =
       IF ~drain.helloDue /\ drain.heartbeatDue THEN drain.now ELSE lastHeartbeat
  /\ lastPoll' = drain.now
  /\ UNCHANGED <<now, gap, commandExchangeAt, dataReady>>

\* The history of an exchange.
Exchanged == [since EXCEPT !.exchange = 0, !.command = FallbackPollMs]

ExchangeValid ==
  /\ Exchanges
  /\ stage' = "handle"
  /\ drain' = [drain EXCEPT
       !.helloDue = FALSE, !.heartbeatDue = drain.helloDue /\ drain.heartbeatDue]
  /\ since' = Exchanged
  /\ UNCHANGED backoffUntil

\* A frame that was idle needs DATA_READY to go on, and every round does.
HandledStep ==
  /\ stage = "handle"
  /\ IF dataReady /\ drain.drained + 1 < DrainLimit
     THEN /\ stage' = "exchange"
          /\ drain' = [drain EXCEPT !.drained = @ + 1]
     ELSE stage' = "loop" /\ drain' = NotDraining
  /\ UNCHANGED <<now, gap, dataReady, since>>

\* Defect: the wait for DATA_READY ends when the frame is handled.
HandledEndsWait ==
  /\ HandledStep
  /\ awaitingDataReady' = FALSE
  /\ UNCHANGED <<helloPending, lastHello, lastPoll, lastHeartbeat,
                 backoffUntil, commandExchangeAt>>

\* The next round, or the end.
Handled == HandledStep /\ UNCHANGED linkTimes

\* An invalid frame ends the drain.
ExchangeInvalid ==
  /\ Exchanges
  /\ stage' = "loop"
  /\ drain' = NotDraining
  /\ backoffUntil' = Later(now, InvalidFrameBackoffMs)
  /\ since' = Exchanged

ScheduleNext ==
  \/ TimePasses \/ McuSignals \/ CommandExchange
  \/ DrainNothing \/ DrainStart \/ ExchangeValid \/ ExchangeInvalid \/ Handled

ScheduleSpec == ScheduleInit /\ [][ScheduleNext]_scheduleVars

-----------------------------------------------------------------------------
(* Properties *)

\* README: "The existing one-second periodic poll remains the bounded fallback".
\* drainNivaloLink does not leave the MCU alone once nothing has been exchanged
\* for a second, ...
PollIsBoundedFallback ==
  stage = "loop" /\ ReturnsAtOnce => since.exchange < FallbackPollMs

\* ... but when the clock is before backoffUntil, as it also is for an invalid
\* frame of the time before the clock last wrapped; and even then a heartbeat is
\* exchanged.  (The gap is longer than the heartbeat's interval, because the
\* lastHeartbeat of 0 of a device that begins shortly before a wrap is due then
\* and no longer after the wrap.)
PollGapBounded ==
  stage = "loop" /\ ReturnsAtOnce =>
    \/ since.exchange < FallbackPollMs
    \/ since.exchange < PollGap /\ now < backoffUntil

\* README: "After forwarding a command, the bridge waits for the secondary MCU's
\* DATA_READY signal before polling for response frames", until the fallback,
\* also for a command forwarded inside a drain.
WaitsForDataReady ==
  stage = "loop" /\ ~ReturnsAtOnce /\ ~dataReady =>
    since.command = FallbackPollMs
=================================================================================
