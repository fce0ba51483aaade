------------------------------ MODULE BridgeProofs ------------------------------
(***************************************************************************)
(* Theorems about Bridge, for any number of frames, samples, outages and   *)
(* restarts, any range of sequence numbers and any size of the ring: what  *)
(* the bridge handles and in which order, and what it has told the broker. *)
(***************************************************************************)
EXTENDS Bridge, SequenceTheorems, TLAPS

-----------------------------------------------------------------------------
(* The link's part of a step *)

LinkNext ==
  \/ \E kind \in Kinds : McuMakes(kind)
  \/ McuResets
  \/ ReceiveFrame
  \/ ReceiveIdle
  \/ ReceiveDamaged
  \/ boot + resets < MaxResets /\ LinkRestarts
  \/ /\ made < MaxMade
     /\ made' = made + 1
     /\ UNCHANGED <<rx, mcuVars, boot, handled>>
  \/ UNCHANGED linkVars

LEMMA LinkSteps == [BridgeNext]_bridgeVars => LinkNext
<1>1. CASE UNCHANGED bridgeVars
  BY <1>1 DEF bridgeVars, LinkNext
<1>2. CASE Exchange
  BY <1>2 DEF Exchange, LinkNext
<1>3. CASE RuntimeSample \/ UartLine \/ VariableSample
  BY <1>3 DEF RuntimeSample, UartLine, VariableSample, OwnSample, LinkNext
<1>4. CASE OwnAck \/ ServiceStep
  BY <1>4 DEF OwnAck, ServiceStep, LinkNext
<1>5. CASE UNCHANGED linkVars
  BY <1>5 DEF LinkNext
<1>6. CASE Restart
  BY <1>6 DEF Restart, LinkNext
<1>7. CASE Environment
  BY <1>7 DEF Environment, LinkNext
<1> QED
  BY <1>1, <1>2, <1>3, <1>4, <1>5, <1>6, <1>7 DEF BridgeNext, DeviceStep

-----------------------------------------------------------------------------
(* The link: its inductive invariant *)

\* The frames the MCU waits to see acknowledged are in the order of their
\* making, and only the first frame of a run of the MCU is marked as such.
QueueInOrder ==
  /\ \A j, k \in 1..Len(queue) : j < k => queue[j].id < queue[k].id
  /\ \A k \in 2..Len(queue) : ~queue[k].first
  /\ queue # <<>> => ~fresh

\* What has been handled was made before what waits; only the frame that is
\* being sent may have been handled already, ...
HandledFirst ==
  \A h \in 1..Len(handled), k \in 1..Len(queue) :
    IF k = 1 THEN handled[h].id <= queue[k].id ELSE handled[h].id < queue[k].id

\* ... and if that was in this run of the bridge, its number is remembered.
HandledIsDuplicate ==
  queue # <<>> =>
    \A h \in 1..Len(handled) :
      handled[h].id = queue[1].id /\ handled[h].boot = boot => Duplicate(number)

\* While the MCU has nothing to send, the number remembered is the one in its
\* idle frames, but after a reset of the MCU.
IdleNumberRemembered ==
  queue = <<>> /\ rx.has /\ (~fresh \/ resets = 0) => rx.last = number

\* A frame whose number is remembered has been handled.
DuplicateIsHandled ==
  queue # <<>> /\ Duplicate(number) =>
    \/ \E h \in 1..Len(handled) : handled[h].id = queue[1].id
    \/ queue[1].first /\ resets > 0

LinkInv ==
  /\ LinkTypeOK
  /\ QueueInOrder
  /\ HandledFirst
  /\ HandledIsDuplicate
  /\ IdleNumberRemembered
  /\ DuplicateIsHandled
  /\ FramesInOrder

LEMMA LinkInvInit == BridgeInit => LinkInv
<1> SUFFICES ASSUME BridgeInit PROVE LinkInv
  OBVIOUS
<1>1. queue = <<>> /\ Len(queue) = 0 /\ handled = <<>> /\ Len(handled) = 0
  BY DEF BridgeInit, LinkInit
<1>2. LinkTypeOK
  BY LinkAssumption, <1>1 DEF BridgeInit, LinkInit, LinkTypeOK, Numbers
<1>3. ~rx.has
  BY DEF BridgeInit, LinkInit
<1> QED
  BY <1>1, <1>2, <1>3 DEF LinkInv, QueueInOrder, HandledFirst,
    HandledIsDuplicate, IdleNumberRemembered, DuplicateIsHandled, FramesInOrder

-----------------------------------------------------------------------------
(* The link: its steps *)

\* The histories only grow, so what had its type keeps it.
LEMMA TypesGrow ==
  ASSUME NEW m \in Nat, NEW n \in Nat, m <= n, NEW b \in Nat, NEW c \in Nat, b <= c,
         NEW q \in Seq([id : 1..m, kind : Kinds, first : BOOLEAN]),
         NEW h \in Seq([id : 1..m, kind : Kinds, boot : 0..b])
  PROVE  /\ q \in Seq([id : 1..n, kind : Kinds, first : BOOLEAN])
         /\ h \in Seq([id : 1..n, kind : Kinds, boot : 0..c])
<1>1. /\ 1..m \subseteq 1..n
      /\ 0..b \subseteq 0..c
  OBVIOUS
<1>2. /\ [id : 1..m, kind : Kinds, first : BOOLEAN]
           \subseteq [id : 1..n, kind : Kinds, first : BOOLEAN]
      /\ [id : 1..m, kind : Kinds, boot : 0..b]
           \subseteq [id : 1..n, kind : Kinds, boot : 0..c]
  BY <1>1
<1> QED
  BY <1>2, SeqMonotonic

\* The next number is another one.
LEMMA AfterIsAnother ==
  ASSUME NEW n \in Numbers
  PROVE  After(n) \in Numbers /\ After(n) # n
<1>1. SeqMod \in Nat /\ SeqMod >= 2 /\ n \in Nat /\ n < SeqMod
  BY LinkAssumption DEF Numbers
<1>2. CASE n + 1 < SeqMod
  <2>1. (n + 1) % SeqMod = n + 1
    BY <1>1, <1>2
  <2> QED
    BY <1>1, <1>2, <2>1 DEF After, Numbers
<1>3. CASE n + 1 = SeqMod
  <2>1. (n + 1) % SeqMod = 0
    BY <1>1, <1>3
  <2> QED
    BY <1>1, <1>3, <2>1 DEF After, Numbers
<1> QED
  BY <1>1, <1>2, <1>3

\* The frames waiting, one by one.
LEMMA QueueElements ==
  ASSUME LinkTypeOK
  PROVE  /\ made \in Nat /\ boot \in Nat /\ Len(queue) \in Nat /\ Len(handled) \in Nat
         /\ \A k \in 1..Len(queue) : queue[k] \in Frames /\ queue[k].id \in 1..made
         /\ \A h \in 1..Len(handled) : /\ handled[h].id \in 1..made
                                       /\ handled[h].boot \in 0..boot
         /\ queue # <<>> => Len(queue) >= 1 /\ Head(queue) = queue[1]
<1>1. made \in Nat /\ boot \in Nat
  BY LinkAssumption DEF LinkTypeOK
<1>2. \A k \in 1..Len(queue) : queue[k] \in Frames
  BY ElementOfSeq DEF LinkTypeOK
<1>3. \A h \in 1..Len(handled) :
        handled[h] \in [id : 1..made, kind : Kinds, boot : 0..boot]
  BY ElementOfSeq DEF LinkTypeOK
<1>4. queue # <<>> => Len(queue) >= 1 /\ Head(queue) = queue[1]
  BY HeadTailProperties, EmptySeq DEF LinkTypeOK
<1> QED
  BY <1>1, <1>2, <1>3, <1>4, LenProperties DEF LinkTypeOK, Frames

\* What the MCU's side of an exchange does to its queue: nothing, or the frame
\* that the bridge acknowledges is dropped and the next one gets the next number.
LEMMA McuSideEffect ==
  ASSUME LinkTypeOK, McuSide
  PROVE  /\ fresh' = fresh /\ resets' = resets
         /\ \/ queue' = queue /\ number' = number
            \/ /\ queue # <<>> /\ Acknowledgment = number
               /\ queue' \in Seq(Frames)
               /\ Len(queue') = Len(queue) - 1
               /\ \A k \in 1..Len(queue') : queue'[k] = queue[k + 1]
               /\ number' = IF queue' = <<>> THEN number ELSE After(number)
<1>1. CASE queue # <<>> /\ queue' = Tail(queue)
  <2>1. /\ queue' \in Seq(Frames)
        /\ Len(queue') = Len(queue) - 1
        /\ \A k \in 1..Len(queue') : queue'[k] = queue[k + 1]
    BY <1>1, HeadTailProperties DEF LinkTypeOK
  <2> QED
    BY <1>1, <2>1 DEF McuSide, McuHears
<1>2. CASE UNCHANGED <<queue, number>>
  BY <1>2 DEF McuSide
<1> QED
  BY <1>1, <1>2 DEF McuSide, McuHears

\* What that means for the order of the frames.
LEMMA McuSideKeepsOrder ==
  ASSUME LinkInv, McuSide
  PROVE  /\ queue' \in Seq(Frames) /\ number' \in Numbers
         /\ QueueInOrder'
         /\ \A h \in 1..Len(handled), k \in 1..Len(queue') :
              IF k = 1 /\ queue' = queue THEN handled[h].id <= queue'[k].id
              ELSE handled[h].id < queue'[k].id
<1>1. LinkTypeOK /\ QueueInOrder /\ HandledFirst
  BY DEF LinkInv
<1>2. /\ made \in Nat /\ Len(queue) \in Nat /\ Len(handled) \in Nat
      /\ \A k \in 1..Len(queue) : queue[k].id \in Nat
      /\ \A h \in 1..Len(handled) : handled[h].id \in Nat
  BY <1>1, QueueElements
<1>3. CASE queue' = queue /\ number' = number
  BY <1>1, <1>2, <1>3, McuSideEffect
     DEF LinkTypeOK, QueueInOrder, HandledFirst
<1>4. CASE /\ queue # <<>> /\ queue' \in Seq(Frames)
           /\ Len(queue') = Len(queue) - 1
           /\ \A k \in 1..Len(queue') : queue'[k] = queue[k + 1]
           /\ number' = IF queue' = <<>> THEN number ELSE After(number)
  <2>1. number' \in Numbers
    BY <1>1, <1>4, AfterIsAnother DEF LinkTypeOK
  <2>2. Len(queue) >= 1 /\ fresh' = fresh /\ queue' # queue
    BY <1>1, <1>4, QueueElements, McuSideEffect
  <2>3. \A k \in 1..Len(queue') : k + 1 \in 2..Len(queue) /\ k + 1 > 1
    BY <1>2, <1>4, <2>2
  <2>4. QueueInOrder'
    <3>1. \A j, k \in 1..Len(queue') : j < k => queue'[j].id < queue'[k].id
      BY <1>1, <1>2, <1>4, <2>3, SMTT(30) DEF QueueInOrder
    <3>2. \A k \in 2..Len(queue') : k \in 1..Len(queue') /\ k + 1 \in 2..Len(queue)
      BY <1>2, <1>4
    <3>3. \A k \in 2..Len(queue') : ~queue'[k].first
      BY <1>1, <1>4, <3>2, Zenon DEF QueueInOrder
    <3> QED
      BY <1>1, <1>4, <2>2, <3>1, <3>3 DEF QueueInOrder
  <2>5. \A h \in 1..Len(handled), k \in 1..Len(queue') : handled[h].id < queue'[k].id
    BY <1>1, <1>2, <1>4, <2>2, <2>3, SMTT(30) DEF HandledFirst
  <2> QED
    BY <1>2, <1>4, <2>1, <2>2, <2>4, <2>5
<1> QED
  BY <1>1, <1>3, <1>4, McuSideEffect

\* And for the number the bridge remembers: if the next frame is another one, its
\* number is another one too.
LEMMA McuSideKeepsNumbers ==
  ASSUME LinkInv, McuSide, queue' # queue, NEW r, r \in {rx, [has |-> TRUE, last |-> number]}
  PROVE  /\ r.has => r.last = number
         /\ queue' # <<>> /\ r.has => r.last # number'
         /\ queue' = <<>> => number' = number
<1>1. LinkTypeOK
  BY DEF LinkInv
<1>2. /\ Acknowledgment = number
      /\ number' = IF queue' = <<>> THEN number ELSE After(number)
  BY <1>1, McuSideEffect
<1>3. r.has => r.last = number
  BY <1>2 DEF Acknowledgment
<1>4. After(number) # number
  BY <1>1, AfterIsAnother DEF LinkTypeOK
<1> QED
  BY <1>2, <1>3, <1>4

-----------------------------------------------------------------------------
(* The link: every step preserves the invariant *)

LEMMA MakesKeepsLinkInv ==
  ASSUME LinkInv, NEW kind \in Kinds, McuMakes(kind)
  PROVE  LinkInv'
<1> DEFINE frame == [id |-> made + 1, kind |-> kind, first |-> fresh]
<1>1. LinkTypeOK
  BY DEF LinkInv
<1>2. /\ made \in Nat /\ boot \in Nat /\ Len(queue) \in Nat /\ Len(handled) \in Nat
      /\ \A k \in 1..Len(queue) : queue[k].id \in 1..made
      /\ \A h \in 1..Len(handled) : handled[h].id \in 1..made
      /\ queue # <<>> => Len(queue) >= 1
  BY <1>1, QueueElements DEF Frames
<1>3. /\ made < MaxMade /\ made' = made + 1 /\ fresh' = FALSE
      /\ queue' = Append(queue, frame)
      /\ number' = IF queue = <<>> THEN After(number) ELSE number
      /\ UNCHANGED <<rx, resets, boot, handled>>
  BY DEF McuMakes
<1>4. /\ queue \in Seq(Frames') /\ frame \in Frames'
      /\ handled' \in Seq([id : 1..made', kind : Kinds, boot : 0..boot'])
  <2>1. made + 1 \in Nat /\ made <= made + 1 /\ boot <= boot /\ made + 1 \in 1..(made + 1)
    BY <1>2
  <2>2. /\ queue \in Seq([id : 1..made, kind : Kinds, first : BOOLEAN])
        /\ handled \in Seq([id : 1..made, kind : Kinds, boot : 0..boot])
        /\ fresh \in BOOLEAN
    BY <1>1 DEF LinkTypeOK, Frames
  <2>3. /\ queue \in Seq([id : 1..(made + 1), kind : Kinds, first : BOOLEAN])
        /\ handled \in Seq([id : 1..(made + 1), kind : Kinds, boot : 0..boot])
    BY <1>2, <2>1, <2>2, TypesGrow
  <2>4. frame \in [id : 1..(made + 1), kind : Kinds, first : BOOLEAN]
    BY <2>1, <2>2
  <2> QED
    BY <1>3, <2>3, <2>4 DEF Frames
<1>5. /\ queue' \in Seq(Frames')
      /\ Len(queue') = Len(queue) + 1
      /\ \A k \in 1..Len(queue) : queue'[k] = queue[k]
      /\ queue'[Len(queue) + 1] = frame
  BY <1>3, <1>4, AppendProperties
<1>6. LinkTypeOK'
  <2>1. number' \in Numbers
    BY <1>1, <1>3, AfterIsAnother DEF LinkTypeOK
  <2>2. made' \in 0..MaxMade
    BY <1>2, <1>3, LinkAssumption
  <2> QED
    BY <1>1, <1>3, <1>4, <1>5, <2>1, <2>2 DEF LinkTypeOK, Numbers
<1>7. QueueInOrder'
  <2>1. \A k \in 1..Len(queue') :
          IF k = Len(queue) + 1 THEN queue'[k] = frame
          ELSE k \in 1..Len(queue) /\ queue'[k] = queue[k]
    BY <1>2, <1>5
  <2>2. Len(queue) # 0 => ~fresh
    BY <1>1, <1>2, EmptySeq DEF LinkInv, QueueInOrder
  <2>3. \A k \in 2..Len(queue') : ~queue'[k].first
    BY <1>2, <1>5, <2>1, <2>2 DEF LinkInv, QueueInOrder
  <2>4. \A j, k \in 1..Len(queue') : j < k => queue'[j].id < queue'[k].id
    BY <1>2, <1>5, <2>1 DEF LinkInv, QueueInOrder
  <2> QED
    BY <1>3, <2>3, <2>4 DEF QueueInOrder
<1>8. HandledFirst'
  <2>1. \A k \in 1..Len(queue') :
          IF k = Len(queue) + 1 THEN queue'[k] = frame
          ELSE k \in 1..Len(queue) /\ queue'[k] = queue[k]
    BY <1>2, <1>5
  <2> QED
    BY <1>2, <1>3, <1>5, <2>1 DEF LinkInv, HandledFirst
<1>9. CASE queue = <<>>
  <2>1. Len(queue) = 0 /\ queue'[1] = frame
    BY <1>5, <1>9
  <2>2. \A h \in 1..Len(handled) : handled[h].id # queue'[1].id
    BY <1>2, <2>1
  <2>3. Duplicate(number)' => fresh /\ resets > 0
    <3>1. After(number) # number /\ resets \in Nat
      BY <1>1, AfterIsAnother, LinkAssumption DEF LinkTypeOK
    <3>2. ~(rx.has /\ rx.last = After(number)) \/ (fresh /\ resets # 0)
      BY <1>1, <1>9, <3>1 DEF LinkInv, IdleNumberRemembered, LinkTypeOK
    <3> QED
      BY <1>3, <1>9, <3>1, <3>2 DEF Duplicate
  <2>4. HandledIsDuplicate' /\ DuplicateIsHandled' /\ IdleNumberRemembered'
    BY <1>3, <1>5, <2>1, <2>2, <2>3
       DEF HandledIsDuplicate, DuplicateIsHandled, IdleNumberRemembered
  <2> QED
    BY <1>3, <1>6, <1>7, <1>8, <2>4 DEF LinkInv, FramesInOrder
<1>10. CASE queue # <<>>
  <2>1. queue'[1] = queue[1] /\ number' = number /\ queue' # <<>>
    BY <1>2, <1>3, <1>5, <1>10, SMTT(30)
  <2>2. HandledIsDuplicate' /\ DuplicateIsHandled' /\ IdleNumberRemembered'
    BY <1>3, <1>10, <2>1
       DEF LinkInv, HandledIsDuplicate, DuplicateIsHandled, IdleNumberRemembered, Duplicate
  <2> QED
    BY <1>3, <1>6, <1>7, <1>8, <2>2 DEF LinkInv, FramesInOrder
<1> QED
  BY <1>9, <1>10

\* An exchange that hands no frame over: it is damaged, idle or a duplicate.
LEMMA QuietExchangeKeepsLinkInv ==
  ASSUME LinkInv, ReceiveIdle \/ ReceiveDamaged
  PROVE  LinkInv'
<1>1. LinkTypeOK
  BY DEF LinkInv
<1>2. /\ McuSide /\ UNCHANGED <<made, boot, handled>>
      /\ \/ rx' = rx
         \/ rx' = [has |-> TRUE, last |-> number] /\ (queue = <<>> \/ Duplicate(number))
  BY DEF ReceiveIdle, ReceiveDamaged, Observe
<1>3. fresh' = fresh /\ resets' = resets /\ (queue' = queue => number' = number)
  <2>1. Len(queue) \in Nat
    BY <1>1, QueueElements
  <2> QED
    BY <1>1, <1>2, <2>1, McuSideEffect
<1>4. /\ queue' \in Seq(Frames) /\ number' \in Numbers /\ QueueInOrder'
      /\ \A h \in 1..Len(handled), k \in 1..Len(queue') :
           IF k = 1 /\ queue' = queue THEN handled[h].id <= queue'[k].id
           ELSE handled[h].id < queue'[k].id
  BY <1>2, McuSideKeepsOrder
<1>5. LinkTypeOK'
  <2>1. rx' \in [has : BOOLEAN, last : Numbers]
    <3>1. rx \in [has : BOOLEAN, last : Numbers] /\ number \in Numbers
      BY <1>1 DEF LinkTypeOK
    <3>2. [has |-> TRUE, last |-> number] \in [has : BOOLEAN, last : Numbers]
      BY <3>1
    <3>3. rx' = rx \/ rx' = [has |-> TRUE, last |-> number]
      BY <1>2
    <3> QED
      BY <3>1, <3>2, <3>3
  <2>2. Frames' = Frames
    BY <1>2 DEF Frames
  <2> QED
    BY <1>1, <1>2, <1>3, <1>4, <2>1, <2>2 DEF LinkTypeOK, Numbers
<1>6. /\ Len(queue) \in Nat /\ Len(queue') \in Nat /\ Len(handled) \in Nat
      /\ \A k \in 1..Len(queue') : queue'[k].id \in Nat
      /\ \A h \in 1..Len(handled) : handled[h].id \in Nat
      /\ queue' # <<>> => 1 \in 1..Len(queue')
  <2>1. Len(queue) \in Nat
    BY <1>1, QueueElements
  <2>2. Len(handled) \in Nat /\ \A h \in 1..Len(handled) : handled[h].id \in Nat
    BY <1>1, QueueElements
  <2>3. \A k \in 1..Len(queue') : queue'[k] \in Frames
    BY <1>4, ElementOfSeq
  <2>4. Len(queue') \in Nat /\ (queue' # <<>> => 1 \in 1..Len(queue'))
    BY <1>4, EmptySeq, LenProperties
  <2> QED
    BY <1>1, <2>1, <2>2, <2>3, <2>4 DEF Frames
<1>7. HandledFirst'
  BY <1>2, <1>4, <1>6, SMTT(30) DEF HandledFirst
<1>8. CASE queue' = queue
  <2>1. HandledIsDuplicate'
    BY <1>2, <1>3, <1>8 DEF LinkInv, HandledIsDuplicate, Duplicate
  <2>2. IdleNumberRemembered'
    BY <1>2, <1>3, <1>8 DEF LinkInv, IdleNumberRemembered
  <2>3. DuplicateIsHandled'
    BY <1>2, <1>3, <1>8 DEF LinkInv, DuplicateIsHandled, Duplicate
  <2> QED
    BY <1>2, <1>4, <1>5, <1>7, <2>1, <2>2, <2>3 DEF LinkInv, FramesInOrder
<1>9. CASE queue' # queue
  <2>1. rx' \in {rx, [has |-> TRUE, last |-> number]}
    BY <1>2
  <2>2. /\ rx'.has => rx'.last = number
        /\ queue' # <<>> /\ rx'.has => rx'.last # number'
        /\ queue' = <<>> => number' = number
    BY <1>2, <1>9, <2>1, McuSideKeepsNumbers
  <2>3. HandledIsDuplicate'
    BY <1>2, <1>4, <1>6, <1>9 DEF HandledIsDuplicate
  <2>4. IdleNumberRemembered' /\ DuplicateIsHandled'
    BY <2>2 DEF IdleNumberRemembered, DuplicateIsHandled, Duplicate
  <2> QED
    BY <1>2, <1>4, <1>5, <1>7, <2>3, <2>4 DEF LinkInv, FramesInOrder
<1> QED
  BY <1>8, <1>9

\* A frame with a new number: all that was handled before was made earlier, or is
\* the same frame, handled in an earlier run of the bridge.
LEMMA FrameKeepsLinkInv ==
  ASSUME LinkInv, ReceiveFrame
  PROVE  LinkInv'
<1> DEFINE new == [id |-> Head(queue).id, kind |-> Head(queue).kind, boot |-> boot]
<1>1. LinkTypeOK
  BY DEF LinkInv
<1>2. /\ queue # <<>> /\ ~Duplicate(number)
      /\ rx' = [has |-> TRUE, last |-> number]
      /\ McuSide /\ UNCHANGED <<made, boot>>
      /\ handled' = Append(handled, new)
  BY DEF ReceiveFrame, Observe
<1>3. fresh' = fresh /\ resets' = resets /\ (queue' = queue => number' = number)
  <2>1. Len(queue) \in Nat
    BY <1>1, QueueElements
  <2> QED
    BY <1>1, <1>2, <2>1, McuSideEffect
<1>4. /\ queue' \in Seq(Frames) /\ number' \in Numbers /\ QueueInOrder'
      /\ \A h \in 1..Len(handled), k \in 1..Len(queue') :
           IF k = 1 /\ queue' = queue THEN handled[h].id <= queue'[k].id
           ELSE handled[h].id < queue'[k].id
  BY <1>2, McuSideKeepsOrder
<1>5. /\ made \in Nat /\ boot \in Nat /\ Len(queue) \in Nat /\ Len(handled) \in Nat
      /\ 1 \in 1..Len(queue) /\ Head(queue) = queue[1]
      /\ \A k \in 1..Len(queue) : queue[k] \in Frames /\ queue[k].id \in 1..made
      /\ \A h \in 1..Len(handled) : /\ handled[h].id \in 1..made
                                    /\ handled[h].boot \in 0..boot
  BY <1>1, <1>2, QueueElements
<1>6. /\ new \in [id : 1..made, kind : Kinds, boot : 0..boot]
      /\ new.id = queue[1].id /\ new.boot = boot
  BY <1>5 DEF Frames
<1>7. /\ handled' \in Seq([id : 1..made, kind : Kinds, boot : 0..boot])
      /\ Len(handled') = Len(handled) + 1
      /\ \A h \in 1..Len(handled) : handled'[h] = handled[h]
      /\ handled'[Len(handled) + 1] = new
  BY <1>1, <1>2, <1>6, AppendProperties DEF LinkTypeOK
<1>8. LinkTypeOK'
  BY <1>1, <1>2, <1>3, <1>4, <1>7 DEF LinkTypeOK, Frames
<1>9. \A h \in 1..Len(handled') :
        IF h = Len(handled) + 1 THEN handled'[h] = new
        ELSE h \in 1..Len(handled) /\ handled'[h] = handled[h]
  BY <1>5, <1>7, SMTT(30)
<1>10. FramesInOrder'
  <2>1. \A h \in 1..Len(handled) : handled[h].id <= queue[1].id
    BY <1>5 DEF LinkInv, HandledFirst
  <2>2. \A h \in 1..Len(handled) : handled[h].id = queue[1].id => handled[h].boot # boot
    BY <1>2 DEF LinkInv, HandledIsDuplicate
  <2>3. \A h \in 1..Len(handled) :
          handled[h].id < new.id \/ (handled[h].id = new.id /\ handled[h].boot < new.boot)
    BY <1>5, <1>6, <2>1, <2>2
  <2>4. ASSUME NEW j \in 1..Len(handled'), NEW k \in 1..Len(handled'), j < k
        PROVE  \/ handled'[j].id < handled'[k].id
               \/ handled'[j].id = handled'[k].id /\ handled'[j].boot < handled'[k].boot
    <3>1. j \in 1..Len(handled) /\ handled'[j] = handled[j]
      <4>1. Len(handled) \in Nat /\ Len(handled') = Len(handled) + 1
        BY <1>5, <1>7
      <4>2. j # Len(handled) + 1
        BY <2>4, <4>1
      <4> QED
        BY <1>9, <4>2
    <3>2. CASE k = Len(handled) + 1
      <4>1. handled'[k].id = new.id /\ handled'[k].boot = new.boot
        BY <1>7, <3>2
      <4>2. \/ handled[j].id < new.id
            \/ handled[j].id = new.id /\ handled[j].boot < new.boot
        BY <2>3, <3>1
      <4> QED
        BY <3>1, <4>1, <4>2
    <3>3. CASE k # Len(handled) + 1
      <4>1. k \in 1..Len(handled) /\ handled'[k] = handled[k]
        BY <1>9, <3>3
      <4> QED
        BY <2>4, <3>1, <4>1 DEF LinkInv, FramesInOrder
    <3> QED
      BY <3>2, <3>3
  <2> QED
    BY <2>4 DEF FramesInOrder
<1>11. \A k \in 1..Len(queue') :
         IF k = 1 /\ queue' = queue THEN new.id = queue'[k].id ELSE new.id < queue'[k].id
  <2>1. CASE queue' = queue
    BY <1>5, <1>6, <2>1 DEF LinkInv, QueueInOrder
  <2>2. CASE queue' # queue
    <3>1. /\ Len(queue') = Len(queue) - 1
          /\ \A k \in 1..Len(queue') : queue'[k] = queue[k + 1]
      BY <1>1, <1>2, <2>2, McuSideEffect
    <3>2. \A k \in 1..Len(queue') : k + 1 \in 1..Len(queue) /\ 1 < k + 1
      BY <1>5, <3>1
    <3> QED
      BY <1>5, <1>6, <2>2, <3>1, <3>2 DEF LinkInv, QueueInOrder
  <2> QED
    BY <2>1, <2>2
<1>12. Len(queue') \in Nat /\ (queue' # <<>> => 1 \in 1..Len(queue'))
       /\ \A k \in 1..Len(queue') : queue'[k].id \in Nat
  <2>1. \A k \in 1..Len(queue') : queue'[k] \in Frames
    BY <1>4, ElementOfSeq
  <2>2. Len(queue') \in Nat /\ (queue' # <<>> => 1 \in 1..Len(queue'))
    BY <1>4, EmptySeq, LenProperties
  <2> QED
    BY <1>5, <2>1, <2>2 DEF Frames
<1>13. HandledFirst'
  <2>1. ASSUME NEW h \in 1..Len(handled'), NEW k \in 1..Len(queue')
        PROVE  IF k = 1 THEN handled'[h].id <= queue'[k].id
               ELSE handled'[h].id < queue'[k].id
    <3>1. CASE h = Len(handled) + 1
      BY <1>5, <1>6, <1>7, <1>11, <1>12, <3>1
    <3>2. CASE h # Len(handled) + 1
      <4>1. h \in 1..Len(handled) /\ handled'[h] = handled[h] /\ handled[h].id \in Nat
        BY <1>5, <1>9, <3>2
      <4> QED
        BY <1>4, <1>12, <4>1
    <3> QED
      BY <3>1, <3>2
  <2> QED
    BY <2>1 DEF HandledFirst
<1>14. CASE queue' = queue
  <2>1. Duplicate(number)'
    BY <1>2, <1>3, <1>14 DEF Duplicate
  <2>2. Len(handled) + 1 \in 1..Len(handled') /\ handled'[Len(handled) + 1].id = queue'[1].id
    BY <1>5, <1>6, <1>7, <1>14
  <2>3. HandledIsDuplicate' /\ DuplicateIsHandled' /\ IdleNumberRemembered'
    BY <1>2, <1>14, <2>1, <2>2
       DEF HandledIsDuplicate, DuplicateIsHandled, IdleNumberRemembered
  <2> QED
    BY <1>4, <1>8, <1>10, <1>13, <2>3 DEF LinkInv
<1>15. CASE queue' # queue
  <2>1. /\ queue' # <<>> /\ rx'.has => rx'.last # number'
        /\ queue' = <<>> => number' = number
    BY <1>2, <1>15, McuSideKeepsNumbers
  <2>2. queue' # <<>> => \A h \in 1..Len(handled') : handled'[h].id # queue'[1].id
    BY <1>4, <1>5, <1>6, <1>9, <1>11, <1>12, <1>15
  <2>3. HandledIsDuplicate' /\ DuplicateIsHandled' /\ IdleNumberRemembered'
    BY <1>2, <2>1, <2>2
       DEF HandledIsDuplicate, DuplicateIsHandled, IdleNumberRemembered, Duplicate
  <2> QED
    BY <1>4, <1>8, <1>10, <1>13, <2>3 DEF LinkInv
<1> QED
  BY <1>14, <1>15

\* A reset of the MCU, a restart of the bridge, and a sample that the bridge makes.
LEMMA OthersKeepLinkInv ==
  ASSUME LinkInv,
         \/ McuResets
         \/ boot + resets < MaxResets /\ LinkRestarts
         \/ /\ made < MaxMade
            /\ made' = made + 1
            /\ UNCHANGED <<rx, mcuVars, boot, handled>>
         \/ UNCHANGED linkVars
  PROVE  LinkInv'
<1>1. LinkTypeOK
  BY DEF LinkInv
<1>2. /\ made \in Nat /\ boot \in Nat /\ resets \in Nat /\ Len(handled) \in Nat
      /\ boot <= MaxResets /\ resets <= MaxResets
      /\ \A h \in 1..Len(handled) : handled[h].boot \in 0..boot
  BY <1>1, QueueElements, LinkAssumption, SMTT(30) DEF LinkTypeOK
<1>3. /\ queue \in Seq([id : 1..made, kind : Kinds, first : BOOLEAN])
      /\ handled \in Seq([id : 1..made, kind : Kinds, boot : 0..boot])
  BY <1>1 DEF LinkTypeOK, Frames
<1>4. CASE McuResets
  <2>1. /\ resets' = resets + 1 /\ resets + boot < MaxResets
        /\ queue' = <<>> /\ number' \in Numbers /\ fresh' = TRUE
        /\ UNCHANGED <<rx, made, boot, handled>>
    BY <1>4 DEF McuResets
  <2>2. queue' \in Seq(Frames') /\ Len(queue') = 0
    BY <2>1, EmptySeq
  <2>3. resets' \in 0..MaxResets /\ resets' # 0
    BY <1>2, <2>1, LinkAssumption
  <2>4. LinkTypeOK'
    BY <1>1, <2>1, <2>2, <2>3 DEF LinkTypeOK, Numbers
  <2>5. QueueInOrder' /\ HandledFirst'
    BY <2>1, <2>2 DEF QueueInOrder, HandledFirst
  <2>6. HandledIsDuplicate' /\ DuplicateIsHandled' /\ IdleNumberRemembered'
    BY <2>1, <2>3 DEF HandledIsDuplicate, DuplicateIsHandled, IdleNumberRemembered
  <2> QED
    BY <2>1, <2>4, <2>5, <2>6 DEF LinkInv, FramesInOrder
<1>5. CASE boot + resets < MaxResets /\ LinkRestarts
  <2>1. /\ boot' = boot + 1 /\ rx' = [has |-> FALSE, last |-> 0]
        /\ UNCHANGED <<queue, number, fresh, resets, made, handled>>
    BY <1>5 DEF LinkRestarts, mcuVars
  <2>2. boot' \in 0..MaxResets /\ boot <= boot' /\ boot' \in Nat /\ made <= made
    BY <1>2, <1>5, <2>1, LinkAssumption
  <2>3. handled \in Seq([id : 1..made, kind : Kinds, boot : 0..boot'])
    BY <1>2, <1>3, <2>2, TypesGrow
  <2>4. 0 \in Numbers
    BY LinkAssumption DEF Numbers
  <2>5. LinkTypeOK'
    BY <1>1, <2>1, <2>2, <2>3, <2>4 DEF LinkTypeOK, Frames, Numbers
  <2>6. QueueInOrder' /\ HandledFirst' /\ FramesInOrder'
    BY <2>1 DEF LinkInv, QueueInOrder, HandledFirst, FramesInOrder
  <2>7. HandledIsDuplicate'
    BY <1>2, <2>1 DEF HandledIsDuplicate
  <2>8. DuplicateIsHandled' /\ IdleNumberRemembered'
    BY <2>1 DEF DuplicateIsHandled, IdleNumberRemembered, Duplicate
  <2> QED
    BY <2>5, <2>6, <2>7, <2>8 DEF LinkInv
<1>6. CASE /\ made < MaxMade
           /\ made' = made + 1
           /\ UNCHANGED <<rx, mcuVars, boot, handled>>
  <2>1. UNCHANGED <<rx, queue, number, fresh, resets, boot, handled>>
    BY <1>6 DEF mcuVars
  <2>2. made' \in 0..MaxMade /\ made <= made' /\ made' \in Nat /\ boot <= boot
    BY <1>2, <1>6, LinkAssumption
  <2>3. /\ queue \in Seq([id : 1..made', kind : Kinds, first : BOOLEAN])
        /\ handled \in Seq([id : 1..made', kind : Kinds, boot : 0..boot])
    BY <1>2, <1>3, <2>2, TypesGrow
  <2>4. LinkTypeOK'
    BY <1>1, <2>1, <2>2, <2>3 DEF LinkTypeOK, Frames, Numbers
  <2> QED
    BY <2>1, <2>4
       DEF LinkInv, QueueInOrder, HandledFirst, FramesInOrder, HandledIsDuplicate,
           DuplicateIsHandled, IdleNumberRemembered, Duplicate
<1>7. CASE UNCHANGED linkVars
  BY <1>7
     DEF linkVars, mcuVars, LinkInv, LinkTypeOK, Frames, Numbers, QueueInOrder, HandledFirst,
         FramesInOrder, HandledIsDuplicate, DuplicateIsHandled, IdleNumberRemembered,
         Duplicate
<1> QED
  BY <1>4, <1>5, <1>6, <1>7

LEMMA LinkNextKeepsLinkInv == LinkInv /\ LinkNext => LinkInv'
  BY MakesKeepsLinkInv, QuietExchangeKeepsLinkInv, FrameKeepsLinkInv, OthersKeepLinkInv
     DEF LinkNext

LEMMA BridgeKeepsLinkInv == BridgeSpec => []LinkInv
<1>1. BridgeInit => LinkInv
  BY LinkInvInit
<1>2. LinkInv /\ [BridgeNext]_bridgeVars => LinkInv'
  BY LinkSteps, LinkNextKeepsLinkInv
<1> QED
  BY <1>1, <1>2, PTL DEF BridgeSpec

\* Both ends of the link keep to their types, for any number of frames and restarts.
THEOREM LinkTypeCorrect == BridgeSpec => []LinkTypeOK
<1>1. LinkInv => LinkTypeOK
  BY DEF LinkInv
<1> QED
  BY <1>1, BridgeKeepsLinkInv, PTL

\* The bridge handles the frames of the MCU in order, and none twice in one of its
\* runs, whatever is damaged, repeated, reset or restarted.
THEOREM LinkFramesInOrder == BridgeSpec => []FramesInOrder
<1>1. LinkInv => FramesInOrder
  BY DEF LinkInv
<1> QED
  BY <1>1, BridgeKeepsLinkInv, PTL

\* What the MCU drops as delivered has been handled, but for the two exceptions
\* that come from the numbers.
THEOREM LinkRetiredIsHandled == BridgeSpec => RetiredIsHandled
<1> DEFINE Retires == queue # <<>> /\ queue' = Tail(queue) /\ resets' = resets
           Covered == \/ \E k \in 1..Len(handled') : handled'[k].id = Head(queue).id
                      \/ Head(queue).first /\ resets > 0
                      \/ number = 0 /\ ~rx.has
<1>1. LinkInv /\ [BridgeNext]_bridgeVars => [Retires => Covered]_linkVars
  <2> SUFFICES ASSUME LinkInv, LinkNext, Retires PROVE Covered
    BY LinkSteps
  <2>1. LinkTypeOK /\ DuplicateIsHandled
    BY DEF LinkInv
  <2>2. /\ Len(queue) \in Nat /\ Len(queue) >= 1 /\ Head(queue) = queue[1]
        /\ Len(Tail(queue)) = Len(queue) - 1
    BY <2>1, QueueElements, HeadTailProperties DEF LinkTypeOK
  <2>3. Len(queue') # Len(queue) /\ queue' # queue
    <3>1. \A n \in Nat : n - 1 # n
      OBVIOUS
    <3>2. Len(Tail(queue)) # Len(queue)
      BY <2>2, <3>1, Zenon
    <3>3. queue' = Tail(queue)
      OBVIOUS
    <3> QED
      BY <3>2, <3>3, Zenon
  <2>4. CASE ReceiveFrame \/ ReceiveIdle \/ ReceiveDamaged
    <3>1. McuSide
      BY <2>4 DEF ReceiveFrame, ReceiveIdle, ReceiveDamaged
    <3>2. Acknowledgment = number
      BY <2>1, <2>3, <3>1, McuSideEffect
    <3>3. CASE ~rx.has
      BY <3>2, <3>3 DEF Acknowledgment
    <3>4. CASE rx.has
      <4>1. Duplicate(number)
        BY <3>2, <3>4 DEF Acknowledgment, Duplicate
      <4>2. handled' = handled
        BY <2>4, <4>1 DEF ReceiveFrame, ReceiveIdle, ReceiveDamaged
      <4> QED
        BY <2>1, <2>2, <4>1, <4>2 DEF DuplicateIsHandled
    <3> QED
      BY <3>3, <3>4
  <2>5. CASE \E kind \in Kinds : McuMakes(kind)
    <3>1. PICK kind \in Kinds : McuMakes(kind)
      BY <2>5
    <3>2. /\ queue' = Append(queue, [id |-> made + 1, kind |-> kind, first |-> fresh])
          /\ queue \in Seq(Frames)
      BY <2>1, <3>1 DEF McuMakes, LinkTypeOK
    <3>3. Len(queue') = Len(queue) + 1
      BY <3>2
    <3> QED
      BY <2>2, <3>3
  <2>6. CASE McuResets
    <3>1. resets' = resets + 1 /\ resets \in Nat
      BY <2>1, <2>6, LinkAssumption DEF McuResets, LinkTypeOK
    <3> QED
      BY <3>1
  <2>7. CASE UNCHANGED queue
    BY <2>3, <2>7
  <2> QED
    BY <2>4, <2>5, <2>6, <2>7 DEF LinkNext, LinkRestarts, mcuVars, linkVars
<1> QED
  BY <1>1, BridgeKeepsLinkInv, PTL DEF BridgeSpec, RetiredIsHandled
=================================================================================
