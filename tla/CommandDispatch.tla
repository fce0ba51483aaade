--------------------------- MODULE CommandDispatch ---------------------------
(***************************************************************************)
(* Commands in a bridge build: the MQTT callback, the queue of acks, the   *)
(* cache of results, the link to the secondary MCU as a source of statuses *)
(* and the device's main loop.                                             *)
(*                                                                         *)
(* One task runs everything, but PubSubClient::loop() delivers at most one *)
(* message by calling mqttCallback, and is itself called in the middle of  *)
(* mqttCallback and after every published ack.  So the callback nests, and *)
(* the model keeps the call stack: its head is the running activation, its *)
(* last element the main loop.  An activation with pump = TRUE is inside   *)
(* loop().                                                                 *)
(*                                                                         *)
(* Events are left out: they are published without calling loop().  A      *)
(* standalone build is the case that every forwarding fails.               *)
(***************************************************************************)
EXTENDS Naturals, Sequences, FiniteSets

CONSTANTS
  Ids,            \* command ids, the last level of the topic
  Functions,      \* names a function or the generic handler handles
  Unregistered,   \* names forwarded to the secondary MCU
  Flash,          \* firmware.flash
  None,           \* an empty ack slot, a missing command name
  AckSlots,       \* PendingReportCount, 8 in the code
  CacheSize,      \* NIVALO_COMPLETED_COMMAND_CACHE_CAPACITY, 8 in the code
  DrainLimit,     \* DrainLimit of drainNivaloLink, 8 in the code
  MaxDeliveries,  \* bound: messages the broker delivers
  MaxDepth,       \* bound: callbacks that run inside each other
  Outages         \* bound: publishes that fail

Names == Functions \cup Unregistered \cup {Flash, None}

ASSUME DispatchAssumption ==
  /\ None \notin Ids \cup Functions \cup Unregistered
  /\ Flash \notin Functions \cup Unregistered \cup {None}
  /\ Functions \cap Unregistered = {}
  /\ AckSlots \in Nat \ {0}
  /\ CacheSize \in Nat \ {0}
  /\ DrainLimit \in Nat \ {0}
  /\ MaxDeliveries \in Nat
  /\ MaxDepth \in Nat
  /\ Outages \in Nat

VARIABLES
  stack,    \* activations: [pc, d: its delivery, i: loop counter, pump]
  acks,     \* _pendingCommandAcks: the delivery and status in each slot
  cache,    \* _sdkCommandResults, oldest first
  mcuBusy,  \* deliveries the secondary MCU works on
  mcuOut,   \* final statuses it sends, [d, status], until acknowledged
  heard,    \* whether this run of the bridge has handled the first of them
  req,      \* the messages delivered so far: [id, name]
  amid,     \* deliveries to forward that arrived in the middle of other work
  told,     \* per delivery, the acks of this run of the bridge, in order
  before,   \* per delivery, the statuses that earlier runs told the host
  ran,      \* the executions of functions in this run
  lost,     \* deliveries that lost an ack to a failed publish or a restart
  failed,   \* publishes that failed
  dropped   \* deliveries that lost an ack to a full queue

history == <<req, amid, told, before, ran, lost, failed, dropped>>
vars == <<stack, acks, cache, mcuBusy, mcuOut, heard, history>>

Deliveries == 1..MaxDeliveries
Slots == 1..AckSlots
Outcomes == {"succeeded", "failed"}
Statuses == {"accepted", "running"} \cup Outcomes

Activation(pc, d) == [pc |-> pc, d |-> d, i |-> 1, pump |-> FALSE]

Init ==
  /\ stack = <<Activation("service", 0)>>
  /\ acks = [s \in Slots |-> None]
  /\ cache = <<>>
  /\ mcuBusy = {}
  /\ mcuOut = <<>>
  /\ heard = FALSE
  /\ req = <<>>
  /\ amid = {}
  /\ told = [d \in Deliveries |-> <<>>]
  /\ before = [d \in Deliveries |-> {}]
  /\ ran = <<>>
  /\ lost = {}
  /\ failed = 0
  /\ dropped = {}

-----------------------------------------------------------------------------
(* Helpers *)

top == Head(stack)

\* The running activation is at pc and not inside loop().
At(pc) == top.pc = pc /\ ~top.pump

\* The running activation goes on as a.
Becomes(a) == stack' = <<a>> \o Tail(stack)

Goto(pc, pump) == [top EXCEPT !.pc = pc, !.i = 1, !.pump = pump]

FreeSlots == {s \in Slots : acks[s] = None}

\* queueCommandAckReport: the first free slot; none left, the ack is dropped.
QueueAck(d, status) ==
  IF FreeSlots = {}
  THEN /\ dropped' = dropped \cup {d}
       /\ UNCHANGED acks
  ELSE /\ \E s \in FreeSlots :
            /\ \A r \in FreeSlots : s <= r
            /\ acks' = [acks EXCEPT ![s] = [d |-> d, status |-> status]]
       /\ UNCHANGED dropped

\* publishCommandAck, then the running activation is a; once published, it is
\* inside client().loop() first.
PublishAck(d, status, a) ==
  \/ /\ told' = [told EXCEPT ![d] = Append(@, status)]
     /\ Becomes([a EXCEPT !.pump = TRUE])
     /\ UNCHANGED <<lost, failed>>
  \/ /\ failed < Outages
     /\ failed' = failed + 1
     /\ lost' = lost \cup {d}
     /\ Becomes(a)
     /\ UNCHANGED told

-----------------------------------------------------------------------------
(* PubSubClient::loop() *)

\* The loop() of serviceConnection, which the main loop calls before it has
\* begun to drain; every other one is called in the middle of something.
InServiceConnection == top.d = 0 /\ top.pc = "drain" /\ top.i = 1

\* The command that arrives is forwarded in the middle of other work.
Arrives(name) ==
  amid' = IF name \in Unregistered /\ ~InServiceConnection
          THEN amid \cup {Len(req) + 1} ELSE amid

\* Defect: the callback goes on without publishing what is queued.
DeliverUndrained(id, name) ==
  /\ top.pump
  /\ Len(req) < MaxDeliveries
  /\ Len(stack) <= MaxDepth
  /\ req' = Append(req, [id |-> id, name |-> name])
  /\ stack' = <<[Activation("dispatch", Len(req) + 1) EXCEPT !.pump = TRUE],
                [top EXCEPT !.pump = FALSE]>> \o Tail(stack)
  /\ Arrives(name)
  /\ QueueAck(Len(req) + 1, "accepted")
  /\ UNCHANGED <<cache, mcuBusy, mcuOut, heard, told, before, ran, lost,
                 failed>>

\* mqttCallback up to its drainQueuedReports(): the ack is queued, to be
\* published before anything else is done about the command.
Deliver(id, name) ==
  /\ top.pump
  /\ Len(req) < MaxDeliveries
  /\ Len(stack) <= MaxDepth
  /\ req' = Append(req, [id |-> id, name |-> name])
  /\ stack' = <<Activation("drain", Len(req) + 1),
                [top EXCEPT !.pump = FALSE]>> \o Tail(stack)
  /\ Arrives(name)
  /\ QueueAck(Len(req) + 1, "accepted")
  /\ UNCHANGED <<cache, mcuBusy, mcuOut, heard, told, before, ran, lost,
                 failed>>

NoMessage ==
  /\ top.pump
  /\ Becomes([top EXCEPT !.pump = FALSE])
  /\ UNCHANGED <<acks, cache, mcuBusy, mcuOut, heard, history>>

-----------------------------------------------------------------------------
(* drainQueuedReports, from the main loop and from every callback *)

DrainAck ==
  /\ At("drain")
  /\ \E s \in top.i..AckSlots :
       /\ acks[s] # None
       /\ \A r \in top.i..(s - 1) : acks[r] = None
       /\ acks' = [acks EXCEPT ![s] = None]
       /\ PublishAck(acks[s].d, acks[s].status, [top EXCEPT !.i = s + 1])
  /\ UNCHANGED <<cache, mcuBusy, mcuOut, heard, req, amid, before, ran,
                 dropped>>

\* The main loop goes on to the link, a callback to its own client().loop().
DrainDone ==
  /\ At("drain")
  /\ \A s \in top.i..AckSlots : acks[s] = None
  /\ Becomes(IF top.d = 0 THEN Goto("link", FALSE) ELSE Goto("dispatch", TRUE))
  /\ UNCHANGED <<acks, cache, mcuBusy, mcuOut, heard, history>>

-----------------------------------------------------------------------------
(* mqttCallback: dispatchSdkCommand *)

Id == req[top.d].id
Name == req[top.d].name

\* find
CachedIds == {cache[k].id : k \in 1..Len(cache)}

Entry(id, name, status) == [id |-> id, name |-> name, status |-> status]

\* Defect: the cache holds one result too few.
RememberTooFew(e) ==
  IF Len(cache) + 1 < CacheSize THEN Append(cache, e)
  ELSE Append(IF cache = <<>> THEN <<>> ELSE Tail(cache), e)

\* Defect: nothing is overwritten.
RememberAll(e) == Append(cache, e)

\* remember, for an id that is not cached: a ring that overwrites the oldest.
Remember(e) ==
  Append(IF Len(cache) < CacheSize THEN cache ELSE Tail(cache), e)

\* Defect: the result is answered whatever command it was the result of.
CachedStatusOfAny(e) == e.status

CachedStatus(e) == IF Name = e.name THEN e.status ELSE "failed"

\* A command without a name has been accepted and nothing else happens to it.
IgnoreNameless ==
  /\ At("dispatch")
  /\ Name = None
  /\ Becomes(Goto("return", FALSE))
  /\ UNCHANGED <<acks, cache, mcuBusy, mcuOut, heard, history>>

AnswerFromCache ==
  /\ At("dispatch")
  /\ Name \notin {None, Flash}
  /\ \E k \in 1..Len(cache) :
       /\ cache[k].id = Id
       /\ PublishAck(top.d, CachedStatus(cache[k]), Goto("return", FALSE))
  /\ UNCHANGED <<acks, cache, mcuBusy, mcuOut, heard, req, amid, before, ran,
                 dropped>>

\* The handler runs and its result is remembered before the ack, and with it
\* another callback, can intervene.
RunFunction(status) ==
  /\ At("dispatch")
  /\ Name \in Functions
  /\ Id \notin CachedIds
  /\ ran' = Append(ran, Entry(Id, Name, status))
  /\ cache' = Remember(Entry(Id, Name, status))
  /\ PublishAck(top.d, status, Goto("return", FALSE))
  /\ UNCHANGED <<acks, mcuBusy, mcuOut, heard, req, amid, before, dropped>>

-----------------------------------------------------------------------------
(* mqttCallback: forwarding to the secondary MCU *)

\* Defect: a command that cannot be forwarded is given up without an answer.
ForwardFailsSilently ==
  /\ At("dispatch")
  /\ Name \in Unregistered
  /\ Id \notin CachedIds
  /\ Becomes(Goto("return", FALSE))
  /\ UNCHANGED <<acks, cache, mcuBusy, mcuOut, heard, history>>

\* Too long for a frame, or the transport refuses: a final answer is queued.
ForwardFails ==
  /\ At("dispatch")
  /\ Name \in Unregistered
  /\ Id \notin CachedIds
  /\ QueueAck(top.d, "failed")
  /\ Becomes(Goto("return", FALSE))
  /\ UNCHANGED <<cache, mcuBusy, mcuOut, heard, req, amid, told, before, ran,
                 lost, failed>>

\* The secondary MCU hears the bridge's frame, which acknowledges the last
\* status the bridge has handled.
Acknowledge ==
  IF heard THEN mcuOut' = Tail(mcuOut) /\ heard' = FALSE
  ELSE UNCHANGED <<mcuOut, heard>>

\* Defect: the number of the frame is not remembered.
ExchangeStatusUnobserved(a) ==
  /\ mcuOut # <<>>
  /\ ~heard
  /\ PublishAck(Head(mcuOut).d, Head(mcuOut).status, a)
  /\ UNCHANGED <<mcuOut, heard>>

\* An exchange that brings a status, which goes to the host directly.  The MCU
\* repeats it until a later exchange has acknowledged it (see NivaloLink).
ExchangeStatus(a) ==
  /\ mcuOut # <<>>
  /\ ~heard
  /\ heard' = TRUE
  /\ PublishAck(Head(mcuOut).d, Head(mcuOut).status, a)
  /\ UNCHANGED mcuOut

\* The frame that comes back in the same exchange was ready before it.  The
\* MCU has the command, and the acknowledgment, unless the frame was damaged.
Forward ==
  /\ At("dispatch")
  /\ Name \in Unregistered
  /\ Id \notin CachedIds
  /\ QueueAck(top.d, "running")
  /\ \/ /\ \/ Acknowledge /\ mcuBusy' = mcuBusy \cup {top.d}
           \/ UNCHANGED <<mcuBusy, mcuOut, heard>>
        /\ Becomes(Goto("return", FALSE))
        /\ UNCHANGED <<told, lost, failed>>
     \/ /\ mcuBusy' = mcuBusy \cup {top.d}
        /\ ExchangeStatus(Goto("return", FALSE))
  /\ UNCHANGED <<cache, req, amid, before, ran>>

\* The secondary MCU has finished a command.
McuFinishes(d, status) ==
  /\ d \in mcuBusy
  /\ mcuBusy' = mcuBusy \ {d}
  /\ mcuOut' = Append(mcuOut, [d |-> d, status |-> status])
  /\ UNCHANGED <<stack, acks, cache, heard, history>>

-----------------------------------------------------------------------------
(* mqttCallback: handleFirmwareCommand, as far as commands see it *)

RejectFlash ==
  /\ At("dispatch")
  /\ Name = Flash
  /\ PublishAck(top.d, "failed", Goto("return", FALSE))
  /\ UNCHANGED <<acks, cache, mcuBusy, mcuOut, heard, req, amid, before, ran,
                 dropped>>

StartFlash ==
  /\ At("dispatch")
  /\ Name = Flash
  /\ PublishAck(top.d, "running", Goto("flash", FALSE))
  /\ UNCHANGED <<acks, cache, mcuBusy, mcuOut, heard, req, amid, before, ran,
                 dropped>>

\* client().loop() before the download.
Download ==
  /\ At("flash")
  /\ Becomes(Goto("flashing", TRUE))
  /\ UNCHANGED <<acks, cache, mcuBusy, mcuOut, heard, history>>

\* Bound: one of the acks that report a download's progress.
Progress ==
  /\ At("flashing")
  /\ top.i = 1
  /\ PublishAck(top.d, "running", [top EXCEPT !.i = 2])
  /\ UNCHANGED <<acks, cache, mcuBusy, mcuOut, heard, req, amid, before, ran,
                 dropped>>

EndFlash(status) ==
  /\ At("flashing")
  /\ PublishAck(top.d, status,
                Goto(IF status = "failed" THEN "return" ELSE "restart", FALSE))
  /\ UNCHANGED <<acks, cache, mcuBusy, mcuOut, heard, req, amid, before, ran,
                 dropped>>

\* ESP.restart() in the middle of whatever the callback interrupted.  The
\* bridge has observed no frame then, and the status it had not acknowledged
\* comes again.
Restart ==
  /\ At("restart")
  /\ stack' = <<Activation("service", 0)>>
  /\ acks' = [s \in Slots |-> None]
  /\ cache' = <<>>
  /\ heard' = FALSE
  /\ told' = [d \in Deliveries |-> <<>>]
  /\ before' = [d \in Deliveries |->
                  before[d] \cup {told[d][n] : n \in 1..Len(told[d])}]
  /\ ran' = <<>>
  /\ lost' = lost \cup {stack[k].d : k \in 1..(Len(stack) - 1)}
                  \cup {acks[s].d : s \in Slots \ FreeSlots}
  /\ UNCHANGED <<mcuBusy, mcuOut, req, amid, failed, dropped>>

Return ==
  /\ At("return")
  /\ stack' = Tail(stack)
  /\ UNCHANGED <<acks, cache, mcuBusy, mcuOut, heard, history>>

-----------------------------------------------------------------------------
(* loop(): serviceConnection, drainQueuedReports, drainNivaloLink *)

\* Connected: client().loop(); otherwise a connection attempt, due or not.
Service ==
  /\ At("service")
  /\ \E connected \in {TRUE} \cup (IF Outages > 0 THEN {FALSE} ELSE {}) :
       Becomes(Goto("drain", connected))
  /\ UNCHANGED <<acks, cache, mcuBusy, mcuOut, heard, history>>

\* One exchange of the do-while that brings a final status.
PollStatus ==
  /\ At("link")
  /\ top.i <= DrainLimit
  /\ ExchangeStatus([top EXCEPT !.i = top.i + 1])
  /\ UNCHANGED <<acks, cache, mcuBusy, req, amid, before, ran, dropped>>

\* One that brings the last status again.
PollAgain ==
  /\ At("link")
  /\ top.i <= DrainLimit
  /\ heard
  /\ Acknowledge
  /\ Becomes([top EXCEPT !.i = top.i + 1])
  /\ UNCHANGED <<acks, cache, mcuBusy, history>>

\* Nothing ready, the limit reached, or the link paused, deferred or backing
\* off.
LinkDone ==
  /\ At("link")
  /\ Becomes(Goto("service", FALSE))
  /\ UNCHANGED <<acks, cache, mcuBusy, mcuOut, heard, history>>

-----------------------------------------------------------------------------

\* What the device does by itself.
DeviceStep ==
  \/ NoMessage \/ DrainAck \/ DrainDone
  \/ IgnoreNameless \/ AnswerFromCache
  \/ \E status \in Outcomes : RunFunction(status) \/ EndFlash(status)
  \/ ForwardFails \/ Forward
  \/ RejectFlash \/ StartFlash \/ Download \/ Progress \/ Restart
  \/ Return \/ Service \/ PollStatus \/ PollAgain \/ LinkDone

Next ==
  \/ DeviceStep
  \/ \E id \in Ids, name \in Names : Deliver(id, name)
  \/ \E d \in mcuBusy, status \in Outcomes : McuFinishes(d, status)

Spec == Init /\ [][Next]_vars

\* The main loop keeps running and every call returns.
FairSpec == Spec /\ WF_vars(DeviceStep)

-----------------------------------------------------------------------------
(* Properties *)

Ack == [d : Deliveries, status : Statuses]

Final == [d : Deliveries, status : Outcomes]

Result == [id : Ids, name : Functions, status : Outcomes]

Pcs == {"service", "drain", "link", "dispatch", "flash", "flashing",
        "restart", "return"}

ActivationType == [pc : Pcs, d : 0..Len(req),
                   i : 1..(AckSlots + DrainLimit + 1), pump : BOOLEAN]

\* The type invariant; the main loop is always at the bottom of the stack, and
\* only callbacks run above it.
TypeOK ==
  /\ stack \in Seq(ActivationType)
  /\ Len(stack) \in 1..(MaxDepth + 1)
  /\ \A k \in 1..Len(stack) :
       stack[k].d = 0 <=> k = Len(stack)
  /\ acks \in [Slots -> Ack \cup {None}]
  /\ cache \in Seq(Result)
  /\ Len(cache) <= CacheSize
  /\ mcuBusy \subseteq Deliveries
  /\ mcuOut \in Seq(Final)
  /\ heard \in BOOLEAN
  /\ req \in Seq([id : Ids, name : Names])
  /\ Len(req) <= MaxDeliveries
  /\ amid \subseteq Deliveries
  /\ told \in [Deliveries -> Seq(Statuses)]
  /\ before \in [Deliveries -> SUBSET Statuses]
  /\ ran \in Seq(Result)
  /\ lost \subseteq Deliveries
  /\ failed \in 0..Outages
  /\ dropped \subseteq Deliveries

\* README, "command functions": a redelivered id is answered "without executing
\* the application handler again", within the bound of the cache, although a
\* redelivery may arrive while the first one is being handled.
RunsOnce ==
  \A j, k \in 1..Len(ran) :
    j < k /\ ran[j].id = ran[k].id => k - j > CacheSize

\* The host hears the outcome of a function only from an execution of it under
\* the same id: never that of another command that used the id, and never
\* success for an execution that failed.  (A restart forgets the executions.)
ToldWhatRan ==
  \A k \in 1..(Len(stack) - 1) :
    LET d == stack[k].d IN
    /\ req[d].name \in Functions
    /\ \E n \in 1..Len(told[d]) : told[d][n] = "succeeded"
    => Entry(req[d].id, req[d].name, "succeeded") \in {ran[j] : j \in 1..Len(ran)}

\* Every delivery is acknowledged in order, whichever activation publishes what
\* is queued.  In one run of the bridge accepted is the first ack and there is
\* one final ack; running can follow it only for a forwarded command that
\* arrived in the middle of other work, where an exchange can come before the
\* next drain.  A later run says nothing more of a delivery than a forwarded
\* command's status that was not acknowledged, and the same outcome again.
AcksInOrder ==
  \A d \in Deliveries :
    /\ \A m, n \in 1..Len(told[d]) :
         m < n =>
           /\ told[d][n] # "accepted"
           /\ told[d][m] \in Outcomes => told[d][n] = "running" /\ d \in amid
    /\ \A n \in 1..Len(told[d]) :
         before[d] # {} =>
           /\ told[d][n] \in Outcomes
           /\ req[d].name \in Unregistered
           /\ before[d] \cap Outcomes \subseteq {told[d][n]}

\* No ack is lost to a full queue while fewer callbacks nest than there are
\* slots, however many commands arrive: each callback publishes what is queued
\* before it adds to it.  (With as many callbacks as slots one can be lost: a
\* status in the exchange that forwards a command is published, and delivers
\* another one, while running is still queued.)
QueueNeverFull == MaxDepth < AckSlots => dropped = {}

\* A named command is answered, by a final ack or by running when the secondary
\* MCU has it, unless a publish failed or a firmware update restarted the
\* device meanwhile.  As the deliveries are bounded, that all are answered at
\* some time after any moment says it of each.
Answered(d) ==
  \/ req[d].name = None
  \/ d \in lost
  \/ \E n \in 1..Len(told[d]) : told[d][n] # "accepted"
  \/ before[d] \ {"accepted"} # {}

EveryCommandAnswered == []<>(\A d \in 1..Len(req) : Answered(d))

\* README: "Reusing an ID for a different command fails closed."
IdReuseFailsClosed ==
  [][\A d \in Deliveries :
       /\ told'[d] # told[d]
       /\ told'[d][Len(told'[d])] \in {"running", "succeeded"}
       => \A k \in 1..Len(cache) :
            cache[k].id = req[d].id => cache[k].name = req[d].name]_vars

=============================================================================
