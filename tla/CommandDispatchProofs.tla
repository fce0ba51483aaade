----------------------- MODULE CommandDispatchProofs -----------------------
(***************************************************************************)
(* Theorems about CommandDispatch, for any number of commands, slots,      *)
(* remembered results and nested callbacks: the call stack and the cache   *)
(* (IInv), how many acks can be queued (NoneDropped), and what is queued,  *)
(* told to the host, being handled or with the secondary MCU (AcksInv).    *)
(***************************************************************************)
EXTENDS CommandDispatch, StackLemmas, FiniteSetTheorems

-----------------------------------------------------------------------------
(* The inductive invariant *)

\* The main loop never dispatches, and a callback is never anywhere else.
PcsOf(d) == IF d = 0 THEN {"service", "drain", "link"}
            ELSE Pcs \ {"service", "link"}

PcMatches == \A k \in 1..Len(stack) : stack[k].pc \in PcsOf(stack[k].d)

\* The cache holds the most recent executions, as many as fit.
CacheIsRecent ==
  /\ Len(cache) = IF Len(ran) < CacheSize THEN Len(ran) ELSE CacheSize
  /\ \A k \in 1..Len(cache) : cache[k] = ran[Len(ran) - Len(cache) + k]

\* A handled status is still with the secondary MCU until it is acknowledged.
HeardIsSent == heard => mcuOut # <<>>

IInv == TypeOK /\ PcMatches /\ HeardIsSent /\ CacheIsRecent /\ RunsOnce

-----------------------------------------------------------------------------
(* Lemmas *)

\* The part of the invariant about the call stack.
StackOK ==
  /\ stack \in Seq(ActivationType)
  /\ Len(stack) \in 1..(MaxDepth + 1)
  /\ \A k \in 1..Len(stack) :
       /\ stack[k].d = 0 <=> k = Len(stack)
       /\ stack[k].pc \in PcsOf(stack[k].d)

\* The running activation is the first element of the stack, and in a callback
\* it belongs to a delivery.
LEMMA TopType ==
  ASSUME StackOK, DispatchAssumption
  PROVE  /\ top = stack[1]
         /\ top \in ActivationType
         /\ top.pc \in PcsOf(top.d)
<1>1. stack # <<>> /\ 1 \in 1..Len(stack)
  BY DEF StackOK, DispatchAssumption
<1>2. top = stack[1]
  BY <1>1, HeadTailProperties DEF StackOK, top
<1> QED
  BY <1>1, <1>2, ElementOfSeq DEF StackOK

\* An activation that goes on for the same delivery, at a place that fits it,
\* keeps the stack well formed.
LEMMA BecomesType ==
  ASSUME StackOK, DispatchAssumption, NEW a \in ActivationType,
         a.d = top.d, a.pc \in PcsOf(a.d), Becomes(a), req' = req
  PROVE  StackOK'
<1>1. Len(stack) \in Nat /\ Len(stack) >= 1
  BY DEF StackOK, DispatchAssumption
<1>2. /\ stack' \in Seq(ActivationType)
      /\ Len(stack') = Len(stack)
      /\ stack'[1] = a
      /\ \A k \in 2..Len(stack) : stack'[k] = stack[k]
  <2>1. stack \in Seq(ActivationType) /\ stack' = <<a>> \o Tail(stack)
    BY DEF StackOK, Becomes
  <2>2. ASSUME NEW r, r = <<a>> \o Tail(stack)
        PROVE  /\ r \in Seq(ActivationType)
               /\ Len(r) = Len(stack)
               /\ r[1] = a
               /\ \A k \in 2..Len(stack) : r[k] = stack[k]
    BY <1>1, <2>1, <2>2, ReplaceHead
  <2> QED
    BY <2>1, <2>2
<1>3. ActivationType' = ActivationType
  BY DEF ActivationType
<1>4. top = stack[1]
  BY TopType
<1>5. ASSUME NEW k \in 1..Len(stack)
      PROVE  /\ stack'[k].d = 0 <=> k = Len(stack)
             /\ stack'[k].pc \in PcsOf(stack'[k].d)
  <2>1. CASE k = 1
    BY <2>1, <1>1, <1>2, <1>4 DEF StackOK
  <2>2. CASE k # 1
    <3>1. k \in 2..Len(stack)
      BY <2>2, <1>1
    <3> QED
      BY <3>1, <1>2 DEF StackOK
  <2> QED
    BY <2>1, <2>2
<1> QED
  BY <1>2, <1>3, <1>5 DEF StackOK

\* Where the running activation goes next is an activation for the same
\* delivery.
LEMMA GotoType ==
  ASSUME StackOK, DispatchAssumption, NEW pc \in Pcs, NEW pump \in BOOLEAN
  PROVE  /\ Goto(pc, pump) \in ActivationType
         /\ Goto(pc, pump).d = top.d
         /\ Goto(pc, pump).pc = pc
<1>1. top \in ActivationType
  BY TopType
<1>2. 1 \in 1..(AckSlots + DrainLimit + 1)
  BY DEF DispatchAssumption
<1> QED
  BY <1>1, <1>2 DEF Goto, ActivationType

\* So is the running activation with the next value of its loop counter.
LEMMA SecondType ==
  ASSUME top \in ActivationType, DispatchAssumption
  PROVE  /\ [top EXCEPT !.i = 2] \in ActivationType
         /\ [top EXCEPT !.i = 2].d = top.d
         /\ [top EXCEPT !.i = 2].pc = top.pc
<1>1. 2 \in 1..(AckSlots + DrainLimit + 1)
  BY DEF DispatchAssumption
<1> QED
  BY <1>1 DEF ActivationType

\* Outside the main loop's places the running activation is a callback, for a
\* message that was delivered.
LEMMA CallbackDelivery ==
  ASSUME TypeOK, PcMatches, DispatchAssumption,
         top.d # 0 \/ top.pc \notin {"service", "drain", "link"}
  PROVE  /\ top.d \in 1..Len(req)
         /\ top.d \in Deliveries
         /\ Id \in Ids
         /\ Name \in Names
<1>1. StackOK
  BY DEF TypeOK, PcMatches, StackOK
<1>2. top.d # 0 /\ top.d \in 0..Len(req)
  BY <1>1, TopType DEF PcsOf, ActivationType
<1>3. Len(req) \in Nat /\ Len(req) <= MaxDeliveries /\ MaxDeliveries \in Nat
  BY DEF TypeOK, DispatchAssumption
<1>4. top.d \in 1..Len(req) /\ top.d \in Deliveries
  BY <1>2, <1>3 DEF Deliveries
<1>5. req[top.d] \in [id : Ids, name : Names]
  BY <1>4, ElementOfSeq DEF TypeOK
<1> QED
  BY <1>4, <1>5 DEF Id, Name

\* An ack that is published keeps the types, whether or not it gets through.
LEMMA PublishType ==
  ASSUME TypeOK, StackOK, DispatchAssumption, req' = req,
         NEW d \in Deliveries, NEW status \in Statuses,
         NEW a \in ActivationType, a.d = top.d, a.pc \in PcsOf(a.d),
         PublishAck(d, status, a)
  PROVE  /\ StackOK'
         /\ told' \in [Deliveries -> Seq(Statuses)]
         /\ lost' \subseteq Deliveries
         /\ failed' \in 0..Outages
<1>1. CASE /\ told' = [told EXCEPT ![d] = Append(@, status)]
           /\ Becomes([a EXCEPT !.pump = TRUE])
           /\ UNCHANGED <<lost, failed>>
  <2>1. /\ [a EXCEPT !.pump = TRUE] \in ActivationType
        /\ [a EXCEPT !.pump = TRUE].d = a.d
        /\ [a EXCEPT !.pump = TRUE].pc = a.pc
    BY DEF ActivationType
  <2>2. StackOK'
    BY <1>1, <2>1, BecomesType
  <2>3. told[d] \in Seq(Statuses)
    BY DEF TypeOK
  <2>4. Append(told[d], status) \in Seq(Statuses)
    BY <2>3, AppendProperties
  <2> QED
    BY <1>1, <2>2, <2>4 DEF TypeOK
<1>2. CASE /\ failed < Outages
           /\ failed' = failed + 1
           /\ lost' = lost \cup {d}
           /\ Becomes(a)
           /\ UNCHANGED told
  BY <1>2, BecomesType DEF TypeOK, DispatchAssumption
<1> QED
  BY <1>1, <1>2 DEF PublishAck

\* An ack that is queued, or dropped, keeps the types.
LEMMA QueueType ==
  ASSUME TypeOK, NEW d \in Deliveries, NEW status \in Statuses,
         QueueAck(d, status)
  PROVE  /\ acks' \in [Slots -> Ack \cup {None}]
         /\ dropped' \subseteq Deliveries
<1>1. CASE FreeSlots = {}
  BY <1>1 DEF QueueAck, TypeOK
<1>2. CASE FreeSlots # {}
  <2>1. [d |-> d, status |-> status] \in Ack
    BY DEF Ack
  <2> QED
    BY <1>2, <2>1 DEF QueueAck, TypeOK
<1> QED
  BY <1>1, <1>2

-----------------------------------------------------------------------------
(* The type invariant *)

\* Everything of the type invariant but the stack.
DataOK ==
  /\ acks \in [Slots -> Ack \cup {None}]
  /\ cache \in Seq(Result)
  /\ Len(cache) <= CacheSize
  /\ mcuBusy \subseteq Deliveries
  /\ mcuOut \in Seq(Final)
  /\ heard \in BOOLEAN
  /\ req \in Seq([id : Ids, name : Names])
  /\ Len(req) <= MaxDeliveries
  /\ amid \subseteq Deliveries
  /\ told \in [Deliveries -> Seq(Statuses)]
  /\ before \in [Deliveries -> SUBSET Statuses]
  /\ ran \in Seq(Result)
  /\ lost \subseteq Deliveries
  /\ failed \in 0..Outages
  /\ dropped \subseteq Deliveries

\* The invariant's part that types the state is these two.
LEMMA TypeParts == TypeOK /\ PcMatches <=> StackOK /\ DataOK
BY DEF TypeOK, PcMatches, StackOK, DataOK

\* What the cache is after a result is remembered: one longer until it is
\* full, then shifted by one.
LEMMA RememberProperties ==
  ASSUME DispatchAssumption, cache \in Seq(Result), Len(cache) <= CacheSize,
         NEW e \in Result
  PROVE  /\ Remember(e) \in Seq(Result)
         /\ Len(Remember(e)) =
              IF Len(cache) < CacheSize THEN Len(cache) + 1 ELSE CacheSize
         /\ Remember(e)[Len(Remember(e))] = e
         /\ \A k \in 1..(Len(Remember(e)) - 1) :
              Remember(e)[k] =
                IF Len(cache) < CacheSize THEN cache[k] ELSE cache[k + 1]
<1>0. CacheSize \in Nat \ {0} /\ Len(cache) \in Nat
  BY DEF DispatchAssumption
<1>1. CASE Len(cache) < CacheSize
  <2>1. Remember(e) = Append(cache, e)
    BY <1>1 DEF Remember
  <2> QED
    BY <1>0, <1>1, <2>1, AppendProperties
<1>2. CASE ~(Len(cache) < CacheSize)
  <2>1. Remember(e) = Append(Tail(cache), e) /\ Len(cache) = CacheSize
    BY <1>0, <1>2 DEF Remember
  <2>2. cache # <<>>
    BY <1>0, <2>1
  <2>3. /\ Tail(cache) \in Seq(Result)
        /\ Len(Tail(cache)) = CacheSize - 1
        /\ \A k \in 1..(CacheSize - 1) : Tail(cache)[k] = cache[k + 1]
    BY <2>1, <2>2, HeadTailProperties
  <2> QED
    BY <1>0, <1>2, <2>1, <2>3, AppendProperties
<1> QED
  BY <1>1, <1>2

\* Running a function that is not cached keeps the cache the most recent
\* executions, and is far enough from the last execution of the same id.
LEMMA RunKeepsCache ==
  ASSUME DispatchAssumption, cache \in Seq(Result), Len(cache) <= CacheSize,
         ran \in Seq(Result), CacheIsRecent, RunsOnce,
         NEW e \in Result, e.id \notin CachedIds,
         ran' = Append(ran, e), cache' = Remember(e)
  PROVE  CacheIsRecent' /\ RunsOnce'
<1> DEFINE n == Len(ran)
           c == Len(cache)
<1>0. /\ CacheSize \in Nat \ {0} /\ n \in Nat /\ c \in Nat
      /\ c = IF n < CacheSize THEN n ELSE CacheSize
  BY DEF DispatchAssumption, CacheIsRecent
<1>1. /\ Len(ran') = n + 1
      /\ ran'[n + 1] = e
      /\ \A k \in 1..n : ran'[k] = ran[k]
  BY AppendProperties
<1>2. /\ Len(cache') = IF c < CacheSize THEN c + 1 ELSE CacheSize
      /\ cache'[Len(cache')] = e
      /\ \A k \in 1..(Len(cache') - 1) :
           cache'[k] = IF c < CacheSize THEN cache[k] ELSE cache[k + 1]
  BY RememberProperties
<1>3. Len(cache') = IF Len(ran') < CacheSize THEN Len(ran') ELSE CacheSize
  BY <1>0, <1>1, <1>2
<1>4. ASSUME NEW k \in 1..Len(cache')
      PROVE  cache'[k] = ran'[Len(ran') - Len(cache') + k]
  <2>1. CASE k = Len(cache')
    BY <2>1, <1>0, <1>1, <1>2
  <2>2. CASE k # Len(cache') /\ c < CacheSize
    <3>1. /\ k \in 1..c
          /\ cache'[k] = cache[k]
          /\ Len(ran') - Len(cache') + k = k /\ n - c + k = k
      BY <2>2, <1>0, <1>1, <1>2
    <3>2. cache[k] = ran[n - c + k]
      BY <3>1 DEF CacheIsRecent
    <3>3. k \in 1..n
      BY <3>1, <1>0
    <3> QED
      BY <3>1, <3>2, <3>3, <1>1
  <2>3. CASE k # Len(cache') /\ ~(c < CacheSize)
    <3>0. c = CacheSize /\ c <= n /\ Len(cache') = c /\ Len(ran') = n + 1
      BY <2>3, <1>0, <1>1, <1>2
    <3>1. /\ k + 1 \in 1..c
          /\ Len(ran') - Len(cache') + k = n - c + (k + 1)
          /\ n - c + (k + 1) \in 1..n
      <4> HIDE DEF n, c
      <4>1. k \in 1..c /\ k # c
        BY <3>0, <2>3
      <4> QED
        BY <4>1, <3>0, <1>0
    <3>4. cache'[k] = cache[k + 1]
      <4>1. k \in 1..(Len(cache') - 1)
        BY <3>0, <2>3, <1>0
      <4> QED
        BY <4>1, <2>3, <1>2
    <3>2. cache[k + 1] = ran[n - c + (k + 1)]
      BY <3>1 DEF CacheIsRecent
    <3> QED
      BY <3>1, <3>2, <3>4, <1>1
  <2> QED
    BY <2>1, <2>2, <2>3
<1>5. ASSUME NEW j \in 1..Len(ran'), NEW k \in 1..Len(ran'),
             j < k, ran'[j].id = ran'[k].id
      PROVE  k - j > CacheSize
  <2>1. j \in 1..n /\ ran'[j] = ran[j]
    BY <1>0, <1>1, <1>5
  <2>2. CASE k \in 1..n
    <3>1. ran'[k] = ran[k]
      BY <2>2, <1>1
    <3> QED
      BY <1>5, <2>1, <2>2, <3>1 DEF RunsOnce
  <2>3. CASE k = n + 1
    <3>1. ran[j].id = e.id
      BY <1>1, <1>5, <2>1, <2>3
    <3>2. SUFFICES ASSUME ~(k - j > CacheSize)
                   PROVE  FALSE
      BY <1>0, <2>1, <2>3
    <3>3. j - (n - c) \in 1..c /\ n - c + (j - (n - c)) = j
      <4> HIDE DEF n, c
      <4>1. n + 1 - j <= CacheSize
        BY <1>0, <2>1, <2>3, <3>2
      <4>2. CASE n < CacheSize
        BY <4>2, <1>0, <2>1
      <4>3. CASE ~(n < CacheSize)
        BY <4>1, <4>3, <1>0, <2>1
      <4> QED
        BY <4>2, <4>3
    <3>4. cache[j - (n - c)] = ran[j]
      BY <3>3 DEF CacheIsRecent
    <3>5. e.id \in CachedIds
      BY <3>1, <3>3, <3>4 DEF CachedIds
    <3> QED
      BY <3>5
  <2> QED
    BY <1>0, <1>1, <2>2, <2>3
<1> QED
  BY <1>3, <1>4, <1>5 DEF CacheIsRecent, RunsOnce

\* The same facts as the invariant, in the form the steps use.
LEMMA InvariantParts ==
  ASSUME IInv, DispatchAssumption
  PROVE  /\ StackOK
         /\ DataOK
         /\ top \in ActivationType
         /\ top.pc \in PcsOf(top.d)
<1>1. StackOK /\ DataOK
  BY TypeParts DEF IInv
<1> QED
  BY <1>1, TopType

\* A step that runs no function leaves what was remembered alone.
LEMMA CacheStays ==
  ASSUME IInv, UNCHANGED <<cache, ran>>
  PROVE  CacheIsRecent' /\ RunsOnce'
BY DEF IInv, CacheIsRecent, RunsOnce

\* What is still to be acknowledged stays queued at the secondary MCU, and each
\* kind of exchange keeps it so.
LEMMA HeardKept ==
  ASSUME HeardIsSent,
         \/ Acknowledge
         \/ UNCHANGED <<mcuOut, heard>>
         \/ \E a : ExchangeStatus(a)
  PROVE  HeardIsSent'
BY DEF HeardIsSent, Acknowledge, ExchangeStatus

\* A delivered message puts its callback on top of the one inside loop().
LEMMA DeliverStep ==
  ASSUME IInv, DispatchAssumption, NEW id \in Ids, NEW name \in Names,
         Deliver(id, name)
  PROVE  IInv'
<1> DEFINE a == Activation("drain", Len(req) + 1)
           b == [top EXCEPT !.pump = FALSE]
           n == Len(stack)
<1>1. StackOK /\ DataOK /\ top \in ActivationType
  BY InvariantParts
<1>2. /\ n \in 1..MaxDepth /\ n \in Nat
      /\ Len(req) \in Nat /\ Len(req) < MaxDeliveries
      /\ MaxDepth \in Nat /\ MaxDeliveries \in Nat
  BY <1>1 DEF Deliver, StackOK, DataOK, DispatchAssumption
<1>3. /\ req' \in Seq([id : Ids, name : Names])
      /\ Len(req') = Len(req) + 1
      /\ Len(req) + 1 \in Deliveries
  BY <1>1, <1>2, AppendProperties DEF Deliver, DataOK, Deliveries
<1>4. ActivationType \subseteq ActivationType'
  BY <1>2, <1>3 DEF ActivationType
<1>5. /\ a \in ActivationType'
      /\ a.d = Len(req) + 1
      /\ a.pc = "drain"
  BY <1>2, <1>3 DEF Activation, ActivationType, Pcs, DispatchAssumption
<1>6. /\ b \in ActivationType'
      /\ b.d = top.d
      /\ b.pc = top.pc
  BY <1>1, <1>4 DEF ActivationType
<1>7. /\ stack # <<>>
      /\ top = stack[1]
      /\ Tail(stack) \in Seq(ActivationType)
      /\ Len(Tail(stack)) = n - 1
      /\ \A k \in 1..(n - 1) : Tail(stack)[k] = stack[k + 1]
  BY <1>1, <1>2, TopType, HeadTailProperties DEF StackOK
<1>8. /\ Tail(stack) \in Seq(ActivationType')
      /\ <<a, b>> \in Seq(ActivationType')
      /\ Len(<<a, b>>) = 2
      /\ <<a, b>>[1] = a
      /\ <<a, b>>[2] = b
  BY <1>4, <1>5, <1>6, <1>7
<1>9. stack' = <<a, b>> \o Tail(stack)
  BY DEF Deliver
<1>10. /\ stack' \in Seq(ActivationType')
       /\ Len(stack') = n + 1
       /\ stack'[1] = a
       /\ stack'[2] = b
       /\ \A k \in 3..(n + 1) : stack'[k] = stack[k - 1]
  <2>1. /\ stack' \in Seq(ActivationType')
        /\ Len(stack') = 2 + (n - 1)
        /\ \A k \in 1..(2 + (n - 1)) :
             stack'[k] = IF k <= 2 THEN <<a, b>>[k] ELSE Tail(stack)[k - 2]
    BY <1>7, <1>8, <1>9, ConcatProperties
  <2>2. ASSUME NEW k \in 3..(n + 1)
        PROVE  stack'[k] = stack[k - 1]
    <3>1. k - 2 \in 1..(n - 1) /\ ~(k <= 2) /\ k \in 1..(2 + (n - 1))
      BY <1>2
    <3>2. stack'[k] = Tail(stack)[k - 2]
      BY <2>1, <3>1
    <3>3. Tail(stack)[k - 2] = stack[(k - 2) + 1]
      BY <1>7, <3>1
    <3> QED
      BY <3>2, <3>3
  <2>3. Len(stack') = n + 1
    BY <1>2, <2>1
  <2>4. stack'[1] = <<a, b>>[1] /\ stack'[2] = <<a, b>>[2]
    <3> HIDE DEF a, b, n
    <3>1. 1 \in 1..(2 + (n - 1)) /\ 2 \in 1..(2 + (n - 1))
      BY <1>2
    <3> QED
      BY <2>1, <3>1
  <2> QED
    BY <1>8, <2>1, <2>2, <2>3, <2>4
<1>11. ASSUME NEW k \in 1..Len(stack')
       PROVE  /\ stack'[k].d = 0 <=> k = Len(stack')
              /\ stack'[k].pc \in PcsOf(stack'[k].d)
  <2>1. CASE k = 1
    BY <2>1, <1>2, <1>5, <1>10 DEF PcsOf, Pcs
  <2>2. CASE k = 2
    <3>1. /\ stack[1].d = 0 <=> 1 = n
          /\ stack[1].pc \in PcsOf(stack[1].d)
      <4>1. 1 \in 1..Len(stack)
        BY <1>2
      <4> QED
        BY <4>1, <1>1 DEF StackOK
    <3>2. stack'[k].d = stack[1].d /\ stack'[k].pc = stack[1].pc
      BY <2>2, <1>6, <1>7, <1>10
    <3>3. k = Len(stack') <=> 1 = n
      <4> HIDE DEF n
      <4> QED
        BY <2>2, <1>2, <1>10
    <3> QED
      BY <3>1, <3>2, <3>3, Zenon
  <2>3. CASE k \in 3..(n + 1)
    <3>1. k - 1 \in 1..n /\ (k = Len(stack') <=> k - 1 = n)
      <4> HIDE DEF n
      <4> QED
        BY <2>3, <1>2, <1>10, SMTT(30)
    <3>2. /\ stack[k - 1].d = 0 <=> k - 1 = n
          /\ stack[k - 1].pc \in PcsOf(stack[k - 1].d)
      BY <3>1, <1>1 DEF StackOK
    <3>3. stack'[k] = stack[k - 1]
      BY <2>3, <1>10
    <3> QED
      BY <3>1, <3>2, <3>3, Zenon
  <2> QED
    BY <1>2, <1>10, <2>1, <2>2, <2>3
<1>12. StackOK'
  BY <1>2, <1>10, <1>11 DEF StackOK
<1>13. acks' \in [Slots -> Ack \cup {None}] /\ dropped' \subseteq Deliveries
  BY <1>3, QueueType DEF IInv, Deliver, Statuses
<1>14. DataOK'
  <2>1. amid' \subseteq Deliveries
    BY <1>1, <1>3 DEF DataOK, Deliver, Arrives
  <2> QED
    BY <1>1, <1>2, <1>3, <1>13, <2>1 DEF DataOK, Deliver
<1>15. HeardIsSent' /\ CacheIsRecent' /\ RunsOnce'
  BY CacheStays DEF Deliver, IInv, HeardIsSent
<1>16. (TypeOK /\ PcMatches)'
  BY <1>12, <1>14 DEF TypeOK, PcMatches, StackOK, DataOK
<1> QED
  BY <1>15, <1>16 DEF IInv

\* The parts put together again after a step.
LEMMA InvariantAgain ==
  ASSUME IInv, DispatchAssumption, StackOK', DataOK', HeardIsSent',
         UNCHANGED <<cache, ran>>
  PROVE  IInv'
<1>1. CacheIsRecent' /\ RunsOnce'
  BY CacheStays
<1>2. (TypeOK /\ PcMatches)'
  BY DEF TypeOK, PcMatches, StackOK, DataOK
<1> QED
  BY <1>1, <1>2 DEF IInv

\* A step that only moves the running activation on.
LEMMA MoveStep ==
  ASSUME IInv, DispatchAssumption, NEW a \in ActivationType, a.d = top.d,
         a.pc \in PcsOf(a.d), Becomes(a),
         UNCHANGED <<acks, cache, mcuBusy, mcuOut, heard, history>>
  PROVE  IInv'
<1>1. StackOK /\ DataOK
  BY InvariantParts
<1>2. StackOK'
  BY <1>1, BecomesType DEF history
<1>3. DataOK' /\ HeardIsSent'
  BY <1>1 DEF DataOK, history, IInv, HeardIsSent
<1> QED
  BY <1>2, <1>3, InvariantAgain DEF history

\* A callback that publishes an ack about its own delivery and moves on.
LEMMA AnswerStep ==
  ASSUME IInv, DispatchAssumption, NEW status \in Statuses, NEW pc \in Pcs,
         top.d # 0, pc \notin {"service", "link"},
         PublishAck(top.d, status, Goto(pc, FALSE)),
         UNCHANGED <<acks, cache, mcuBusy, mcuOut, heard, req, amid, before, ran,
                     dropped>>
  PROVE  IInv'
<1>1. StackOK /\ DataOK /\ TypeOK /\ PcMatches
  BY InvariantParts DEF IInv
<1>2. top.d \in Deliveries
  BY <1>1, CallbackDelivery
<1>3. /\ Goto(pc, FALSE) \in ActivationType
      /\ Goto(pc, FALSE).d = top.d
      /\ Goto(pc, FALSE).pc \in PcsOf(top.d)
  BY <1>1, GotoType DEF PcsOf
<1>4. /\ StackOK'
      /\ told' \in [Deliveries -> Seq(Statuses)]
      /\ lost' \subseteq Deliveries
      /\ failed' \in 0..Outages
  BY <1>1, <1>2, <1>3, PublishType
<1>5. DataOK' /\ HeardIsSent'
  BY <1>1, <1>4 DEF DataOK, IInv, HeardIsSent
<1> QED
  BY <1>4, <1>5, InvariantAgain

\* drainQueuedReports publishes one ack.
LEMMA DrainAckStep ==
  ASSUME IInv, DispatchAssumption, DrainAck
  PROVE  IInv'
<1>1. StackOK /\ DataOK /\ TypeOK /\ top \in ActivationType /\ top.pc \in PcsOf(top.d)
  BY InvariantParts DEF IInv
<1>2. PICK s \in top.i..AckSlots :
        /\ acks[s] # None
        /\ acks' = [acks EXCEPT ![s] = None]
        /\ PublishAck(acks[s].d, acks[s].status, [top EXCEPT !.i = s + 1])
  BY DEF DrainAck
<1>3. s \in Slots /\ s + 1 \in 1..(AckSlots + DrainLimit + 1)
  BY <1>1, <1>2 DEF ActivationType, Slots, DispatchAssumption
<1>4. acks[s].d \in Deliveries /\ acks[s].status \in Statuses
  BY <1>1, <1>2, <1>3 DEF DataOK, Ack
<1>5. /\ [top EXCEPT !.i = s + 1] \in ActivationType
      /\ [top EXCEPT !.i = s + 1].d = top.d
      /\ [top EXCEPT !.i = s + 1].pc = top.pc
  BY <1>1, <1>3 DEF ActivationType
<1>6. /\ StackOK'
      /\ told' \in [Deliveries -> Seq(Statuses)]
      /\ lost' \subseteq Deliveries
      /\ failed' \in 0..Outages
  BY <1>1, <1>2, <1>4, <1>5, PublishType DEF DrainAck
<1>7. DataOK' /\ HeardIsSent'
  BY <1>1, <1>2, <1>3, <1>6 DEF DataOK, DrainAck, IInv, HeardIsSent
<1> QED
  BY <1>6, <1>7, InvariantAgain DEF DrainAck

\* A function runs, and is remembered before its outcome is published.
LEMMA RunFunctionStep ==
  ASSUME IInv, DispatchAssumption, NEW status \in Outcomes, RunFunction(status)
  PROVE  IInv'
<1> DEFINE e == Entry(Id, Name, status)
<1>1. StackOK /\ DataOK /\ TypeOK /\ PcMatches /\ CacheIsRecent /\ RunsOnce
  BY InvariantParts DEF IInv
<1>2. top.d # 0 /\ top.d \in Deliveries /\ Id \in Ids
  <2>1. top.pc = "dispatch"
    BY DEF RunFunction, At
  <2>2. top.pc \notin {"service", "drain", "link"}
    BY <2>1
  <2> QED
    BY <1>1, <2>2, CallbackDelivery
<1>3. e \in Result /\ e.id = Id
  BY <1>2 DEF RunFunction, Entry, Result
<1>4. ran' = Append(ran, e) /\ cache' = Remember(e) /\ e.id \notin CachedIds
  BY <1>3 DEF RunFunction
<1>5. ran' \in Seq(Result)
  BY <1>1, <1>3, <1>4, AppendProperties DEF DataOK
<1>6. cache' \in Seq(Result) /\ Len(cache') <= CacheSize
  <2>1. /\ Remember(e) \in Seq(Result)
        /\ Len(Remember(e)) =
              IF Len(cache) < CacheSize THEN Len(cache) + 1 ELSE CacheSize
    BY <1>1, <1>3, RememberProperties DEF DataOK
  <2>2. Len(cache) \in Nat /\ CacheSize \in Nat
    BY <1>1 DEF DataOK, DispatchAssumption
  <2> QED
    BY <1>4, <2>1, <2>2
<1>7. CacheIsRecent' /\ RunsOnce'
  BY <1>1, <1>3, <1>4, RunKeepsCache DEF DataOK
<1>8. /\ Goto("return", FALSE) \in ActivationType
      /\ Goto("return", FALSE).d = top.d
      /\ Goto("return", FALSE).pc \in PcsOf(top.d)
  BY <1>1, <1>2, GotoType DEF PcsOf, Pcs
<1>9. /\ StackOK'
      /\ told' \in [Deliveries -> Seq(Statuses)]
      /\ lost' \subseteq Deliveries
      /\ failed' \in 0..Outages
  BY <1>1, <1>2, <1>8, PublishType DEF RunFunction, Statuses
<1>10. DataOK'
  BY <1>1, <1>5, <1>6, <1>9 DEF DataOK, RunFunction
<1>11. (TypeOK /\ PcMatches /\ HeardIsSent)'
  BY <1>9, <1>10 DEF TypeOK, PcMatches, StackOK, DataOK, RunFunction, IInv,
                     HeardIsSent
<1> QED
  BY <1>7, <1>11 DEF IInv

\* The command could not be forwarded.
LEMMA ForwardFailsStep ==
  ASSUME IInv, DispatchAssumption, ForwardFails
  PROVE  IInv'
<1>1. StackOK /\ DataOK /\ TypeOK /\ PcMatches
  BY InvariantParts DEF IInv
<1>2. top.d # 0 /\ top.d \in Deliveries
  <2>1. top.pc \notin {"service", "drain", "link"}
    BY DEF ForwardFails, At
  <2> QED
    BY <1>1, <2>1, CallbackDelivery
<1>3. /\ Goto("return", FALSE) \in ActivationType
      /\ Goto("return", FALSE).d = top.d
      /\ Goto("return", FALSE).pc \in PcsOf(top.d)
  BY <1>1, <1>2, GotoType DEF PcsOf, Pcs
<1>4. StackOK'
  BY <1>1, <1>3, BecomesType DEF ForwardFails
<1>5. acks' \in [Slots -> Ack \cup {None}] /\ dropped' \subseteq Deliveries
  BY <1>1, <1>2, QueueType DEF ForwardFails, Statuses, Outcomes
<1>6. DataOK' /\ HeardIsSent'
  BY <1>1, <1>5 DEF DataOK, ForwardFails, IInv, HeardIsSent
<1> QED
  BY <1>4, <1>6, InvariantAgain DEF ForwardFails

\* An exchange that brings a status publishes it, and keeps it until it is
\* acknowledged.
LEMMA ExchangeType ==
  ASSUME TypeOK, StackOK, DispatchAssumption, req' = req,
         NEW a \in ActivationType, a.d = top.d, a.pc \in PcsOf(a.d),
         ExchangeStatus(a)
  PROVE  /\ StackOK'
         /\ mcuOut' \in Seq(Final)
         /\ heard' \in BOOLEAN
         /\ told' \in [Deliveries -> Seq(Statuses)]
         /\ lost' \subseteq Deliveries
         /\ failed' \in 0..Outages
<1>1. Head(mcuOut) \in Final /\ UNCHANGED mcuOut /\ heard' = TRUE
  BY HeadTailProperties DEF ExchangeStatus, TypeOK
<1>2. Head(mcuOut).d \in Deliveries /\ Head(mcuOut).status \in Statuses
  BY <1>1 DEF Final, Statuses
<1>3. PublishAck(Head(mcuOut).d, Head(mcuOut).status, a)
  BY DEF ExchangeStatus
<1> QED
  BY <1>1, <1>2, <1>3, PublishType DEF TypeOK

\* An acknowledged status is no longer sent.
LEMMA AcknowledgeType ==
  ASSUME TypeOK, Acknowledge, heard => mcuOut # <<>>
  PROVE  mcuOut' \in Seq(Final) /\ heard' \in BOOLEAN
<1>1. CASE heard
  BY <1>1, HeadTailProperties DEF Acknowledge, TypeOK
<1>2. CASE ~heard
  BY <1>2 DEF Acknowledge, TypeOK
<1> QED
  BY <1>1, <1>2

\* The command went to the secondary MCU, which may have sent another one's
\* final status.
LEMMA ForwardStep ==
  ASSUME IInv, DispatchAssumption, Forward
  PROVE  IInv'
<1>1. StackOK /\ DataOK /\ TypeOK /\ PcMatches /\ HeardIsSent
  BY InvariantParts DEF IInv
<1>2. top.d # 0 /\ top.d \in Deliveries
  <2>1. top.pc \notin {"service", "drain", "link"}
    BY DEF Forward, At
  <2> QED
    BY <1>1, <2>1, CallbackDelivery
<1>3. /\ Goto("return", FALSE) \in ActivationType
      /\ Goto("return", FALSE).d = top.d
      /\ Goto("return", FALSE).pc \in PcsOf(top.d)
  BY <1>1, <1>2, GotoType DEF PcsOf, Pcs
<1>4. acks' \in [Slots -> Ack \cup {None}] /\ dropped' \subseteq Deliveries
  BY <1>1, <1>2, QueueType DEF Forward, Statuses
<1>5. /\ StackOK'
      /\ mcuBusy' \subseteq Deliveries
      /\ mcuOut' \in Seq(Final)
      /\ heard' \in BOOLEAN
      /\ told' \in [Deliveries -> Seq(Statuses)]
      /\ lost' \subseteq Deliveries
      /\ failed' \in 0..Outages
  <2>1. CASE /\ \/ Acknowledge /\ mcuBusy' = mcuBusy \cup {top.d}
                \/ UNCHANGED <<mcuBusy, mcuOut, heard>>
             /\ Becomes(Goto("return", FALSE))
             /\ UNCHANGED <<told, lost, failed>>
    <3>1. StackOK'
      BY <2>1, <1>1, <1>3, BecomesType DEF Forward
    <3>2. /\ mcuBusy' \subseteq Deliveries
          /\ mcuOut' \in Seq(Final)
          /\ heard' \in BOOLEAN
      BY <2>1, <1>1, <1>2, AcknowledgeType DEF DataOK, HeardIsSent
    <3> QED
      BY <2>1, <3>1, <3>2, <1>1 DEF DataOK
  <2>2. CASE /\ mcuBusy' = mcuBusy \cup {top.d}
             /\ ExchangeStatus(Goto("return", FALSE))
    BY <2>2, <1>1, <1>2, <1>3, ExchangeType DEF Forward, DataOK
  <2> QED
    BY <2>1, <2>2 DEF Forward
<1>6. DataOK'
  BY <1>1, <1>4, <1>5 DEF DataOK, Forward
<1>7. HeardIsSent'
  BY <1>1, HeardKept DEF Forward
<1> QED
  BY <1>5, <1>6, <1>7, InvariantAgain DEF Forward

\* The main loop publishes a final status of the secondary MCU.
LEMMA PollStatusStep ==
  ASSUME IInv, DispatchAssumption, PollStatus
  PROVE  IInv'
<1>1. StackOK /\ DataOK /\ TypeOK /\ top \in ActivationType /\ top.pc \in PcsOf(top.d)
  BY InvariantParts DEF IInv
<1> DEFINE a == [top EXCEPT !.i = top.i + 1]
<1>2. top.i + 1 \in 1..(AckSlots + DrainLimit + 1)
  BY <1>1 DEF ActivationType, PollStatus, DispatchAssumption
<1>3. /\ a \in ActivationType
      /\ a.d = top.d
      /\ a.pc = top.pc
      /\ ExchangeStatus(a)
  BY <1>1, <1>2 DEF ActivationType, PollStatus
<1> HIDE DEF a
<1>4. /\ StackOK'
      /\ mcuOut' \in Seq(Final)
      /\ heard' \in BOOLEAN
      /\ told' \in [Deliveries -> Seq(Statuses)]
      /\ lost' \subseteq Deliveries
      /\ failed' \in 0..Outages
  BY <1>1, <1>3, ExchangeType DEF PollStatus
<1>5. DataOK'
  BY <1>1, <1>4 DEF DataOK, PollStatus
<1>6. HeardIsSent'
  BY <1>3, HeardKept DEF IInv
<1> QED
  BY <1>4, <1>5, <1>6, InvariantAgain DEF PollStatus

\* The main loop's exchange brings the last status again.
LEMMA PollAgainStep ==
  ASSUME IInv, DispatchAssumption, PollAgain
  PROVE  IInv'
<1>1. StackOK /\ DataOK /\ TypeOK /\ top \in ActivationType /\ top.pc \in PcsOf(top.d)
  BY InvariantParts DEF IInv
<1> DEFINE a == [top EXCEPT !.i = top.i + 1]
<1>2. top.i + 1 \in 1..(AckSlots + DrainLimit + 1)
  BY <1>1 DEF ActivationType, PollAgain, DispatchAssumption
<1>3. a \in ActivationType /\ a.d = top.d /\ a.pc = top.pc /\ Becomes(a)
  BY <1>1, <1>2 DEF ActivationType, PollAgain
<1> HIDE DEF a
<1>4. StackOK'
  BY <1>1, <1>3, BecomesType DEF PollAgain, history
<1>5. DataOK'
  BY <1>1, AcknowledgeType DEF DataOK, PollAgain, history, IInv, HeardIsSent
<1>6. HeardIsSent'
  BY HeardKept DEF PollAgain, IInv
<1> QED
  BY <1>4, <1>5, <1>6, InvariantAgain DEF PollAgain, history

\* ESP.restart(): everything in RAM is gone.
LEMMA RestartStep ==
  ASSUME IInv, DispatchAssumption, Restart
  PROVE  IInv'
<1>1. StackOK /\ DataOK
  BY InvariantParts
<1> DEFINE a == Activation("service", 0)
<1>2. a \in ActivationType /\ a.d = 0 /\ a.pc = "service"
  <2>1. Len(req) \in Nat /\ 0 \in 0..Len(req) /\ 1 \in 1..(AckSlots + DrainLimit + 1)
    BY <1>1 DEF DataOK, DispatchAssumption
  <2> QED
    BY <2>1 DEF Activation, ActivationType, Pcs
<1>3. ActivationType' = ActivationType
  BY DEF ActivationType, Restart
<1>4. /\ stack' \in Seq(ActivationType)
      /\ Len(stack') = 1
      /\ stack'[1] = a
  <2>1. stack' = <<a>>
    BY DEF Restart
  <2> QED
    BY <1>2, <2>1
<1>5. StackOK'
  BY <1>2, <1>3, <1>4 DEF StackOK, PcsOf, DispatchAssumption
<1>6. lost' \subseteq Deliveries
  <2>1. ASSUME NEW k \in 1..(Len(stack) - 1)
        PROVE  stack[k].d \in Deliveries
    <3>1. k \in 1..Len(stack) /\ k # Len(stack)
      BY <1>1 DEF StackOK, DispatchAssumption
    <3>2. stack[k].d # 0 /\ stack[k] \in ActivationType
      BY <1>1, <3>1, ElementOfSeq DEF StackOK
    <3> QED
      BY <1>1, <3>2 DEF ActivationType, Deliveries, DataOK, DispatchAssumption
  <2>2. ASSUME NEW s \in Slots \ FreeSlots
        PROVE  acks[s].d \in Deliveries
    BY <1>1 DEF DataOK, FreeSlots, Ack
  <2> QED
    BY <1>1, <2>1, <2>2 DEF DataOK, Restart
<1>7. DataOK' /\ HeardIsSent'
  <2>1. ASSUME NEW d \in Deliveries
        PROVE  before[d] \cup {told[d][n] : n \in 1..Len(told[d])} \in SUBSET Statuses
    <3>1. told[d] \in Seq(Statuses) /\ before[d] \in SUBSET Statuses
      BY <1>1 DEF DataOK
    <3> QED
      BY <3>1, ElementOfSeq
  <2>2. before' \in [Deliveries -> SUBSET Statuses]
    BY <2>1 DEF Restart
  <2>3. told' \in [Deliveries -> Seq(Statuses)]
    BY DEF Restart
  <2>4. /\ cache' \in Seq(Result) /\ Len(cache') <= CacheSize
        /\ ran' \in Seq(Result)
        /\ acks' \in [Slots -> Ack \cup {None}]
        /\ heard' = FALSE
    BY DEF Restart, DispatchAssumption
  <2>5. UNCHANGED <<mcuBusy, mcuOut, req, amid, failed, dropped>>
    BY DEF Restart
  <2> QED
    BY <1>1, <1>6, <2>2, <2>3, <2>4, <2>5 DEF DataOK, HeardIsSent
<1>8. CacheIsRecent' /\ RunsOnce'
  <2>1. Len(cache') = 0 /\ Len(ran') = 0
    BY DEF Restart
  <2> QED
    BY <2>1 DEF CacheIsRecent, RunsOnce, DispatchAssumption
<1>9. (TypeOK /\ PcMatches)'
  BY <1>5, <1>7 DEF TypeOK, PcMatches, StackOK, DataOK
<1> QED
  BY <1>7, <1>8, <1>9 DEF IInv

\* The callback returns to what it interrupted.
LEMMA ReturnStep ==
  ASSUME IInv, DispatchAssumption, Return
  PROVE  IInv'
<1> DEFINE n == Len(stack)
<1>1. StackOK /\ DataOK /\ top.pc \in PcsOf(top.d)
  BY InvariantParts
<1>2. top.d # 0
  BY <1>1 DEF Return, At, PcsOf
<1>3. top = stack[1] /\ n \in Nat /\ n >= 1 /\ n <= MaxDepth + 1
  BY <1>1, TopType DEF StackOK, DispatchAssumption
<1>4. n >= 2
  <2>1. 1 \in 1..n
    BY <1>3
  <2>2. stack[1].d = 0 <=> 1 = n
    BY <1>1, <2>1 DEF StackOK
  <2>3. 1 # n
    BY <1>2, <1>3, <2>2, Zenon
  <2> HIDE DEF n
  <2> QED
    BY <1>3, <2>3
<1>5. /\ stack' \in Seq(ActivationType)
      /\ Len(stack') = n - 1
      /\ \A k \in 1..(n - 1) : stack'[k] = stack[k + 1]
  <2>1. stack # <<>> /\ stack' = Tail(stack)
    BY <1>3 DEF Return
  <2> QED
    BY <1>1, <2>1, HeadTailProperties DEF StackOK
<1>6. ActivationType' = ActivationType
  BY DEF ActivationType, Return, history
<1>7. ASSUME NEW k \in 1..Len(stack')
      PROVE  /\ stack'[k].d = 0 <=> k = Len(stack')
             /\ stack'[k].pc \in PcsOf(stack'[k].d)
  <2>1. k + 1 \in 1..n /\ k \in 1..(n - 1) /\ (k = Len(stack') <=> k + 1 = n)
    <3> HIDE DEF n
    <3> QED
      BY <1>3, <1>5
  <2>2. /\ stack[k + 1].d = 0 <=> k + 1 = n
        /\ stack[k + 1].pc \in PcsOf(stack[k + 1].d)
    BY <1>1, <2>1 DEF StackOK
  <2>3. stack'[k] = stack[k + 1]
    BY <1>5, <2>1
  <2> QED
    BY <2>1, <2>2, <2>3, Zenon
<1>8. Len(stack') \in 1..(MaxDepth + 1)
  <2> HIDE DEF n
  <2> QED
    BY <1>3, <1>4, <1>5 DEF DispatchAssumption
<1>9. StackOK'
  BY <1>5, <1>6, <1>7, <1>8 DEF StackOK
<1>10. DataOK' /\ HeardIsSent'
  BY <1>1 DEF DataOK, Return, history, IInv, HeardIsSent
<1> QED
  BY <1>9, <1>10, InvariantAgain DEF Return, history

-----------------------------------------------------------------------------
(* The invariant and the theorems *)

\* The invariant holds initially: the main loop alone, nothing queued, nothing
\* remembered.
LEMMA InitInvariant ==
  ASSUME DispatchAssumption, Init
  PROVE  IInv
<1>1. Activation("service", 0) \in [pc : Pcs, d : 0..0,
                                     i : 1..(AckSlots + DrainLimit + 1),
                                     pump : BOOLEAN]
  BY DEF Activation, Pcs, DispatchAssumption
<1>2. Len(req) = 0 /\ Len(stack) = 1 /\ stack[1] = Activation("service", 0)
  BY DEF Init
<1>3. stack \in Seq(ActivationType)
  BY <1>1, <1>2 DEF Init, ActivationType
<1>4. StackOK
  BY <1>2, <1>3 DEF StackOK, Activation, PcsOf, DispatchAssumption
<1>5. DataOK
  <2>1. /\ cache = <<>> /\ mcuOut = <<>> /\ req = <<>> /\ ran = <<>>
        /\ Len(cache) <= CacheSize /\ Len(req) <= MaxDeliveries
        /\ failed \in 0..Outages
    BY DEF Init, DispatchAssumption
  <2>2. /\ acks \in [Slots -> Ack \cup {None}]
        /\ told \in [Deliveries -> Seq(Statuses)]
        /\ before \in [Deliveries -> SUBSET Statuses]
    BY DEF Init
  <2>3. /\ mcuBusy = {} /\ amid = {} /\ lost = {} /\ dropped = {}
        /\ heard \in BOOLEAN
    BY DEF Init
  <2> QED
    BY <2>1, <2>2, <2>3 DEF DataOK
<1>6. HeardIsSent /\ CacheIsRecent /\ RunsOnce
  BY DEF Init, HeardIsSent, CacheIsRecent, RunsOnce, DispatchAssumption
<1> QED
  BY <1>4, <1>5, <1>6, TypeParts DEF IInv

\* Every step of the device, the broker and the secondary MCU keeps it.
LEMMA StepInvariant ==
  ASSUME DispatchAssumption, IInv, [Next]_vars
  PROVE  IInv'
<1> DEFINE Moves(a) == /\ a \in ActivationType /\ a.d = top.d
                       /\ a.pc \in PcsOf(a.d) /\ Becomes(a)
<1>1. StackOK /\ DataOK /\ TypeOK /\ PcMatches /\ top \in ActivationType
      /\ top.pc \in PcsOf(top.d)
  BY InvariantParts DEF IInv
<1>2. ASSUME NEW pc \in Pcs, NEW pump \in BOOLEAN, pc \in PcsOf(top.d),
             Becomes(Goto(pc, pump)),
             UNCHANGED <<acks, cache, mcuBusy, mcuOut, heard, history>>
      PROVE  IInv'
  BY <1>1, <1>2, GotoType, MoveStep
<1>3. ASSUME NEW status \in Statuses, NEW pc \in Pcs, top.d # 0,
             pc \notin {"service", "link"},
             PublishAck(top.d, status, Goto(pc, FALSE)),
             UNCHANGED <<acks, cache, mcuBusy, mcuOut, heard, req, amid, before, ran,
                     dropped>>
      PROVE  IInv'
  BY <1>3, AnswerStep
<1>4. ASSUME NEW pc \in {"dispatch", "flash", "flashing", "restart", "return"},
             At(pc)
      PROVE  top.d # 0
  BY <1>1, <1>4 DEF At, PcsOf
<1>5. ASSUME NEW pc \in {"service", "link"}, At(pc)
      PROVE  top.d = 0
  BY <1>1, <1>5 DEF At, PcsOf, Pcs
<1>6. CASE NoMessage
  <2>1. /\ [top EXCEPT !.pump = FALSE] \in ActivationType
        /\ [top EXCEPT !.pump = FALSE].d = top.d
        /\ [top EXCEPT !.pump = FALSE].pc = top.pc
    BY <1>1 DEF ActivationType
  <2> QED
    BY <1>1, <1>6, <2>1, MoveStep DEF NoMessage
<1>7. CASE DrainAck
  BY <1>7, DrainAckStep
<1>8. CASE DrainDone
  <2>1. CASE top.d = 0
    BY <1>2, <1>8, <2>1 DEF DrainDone, Pcs, PcsOf
  <2>2. CASE top.d # 0
    BY <1>2, <1>8, <2>2 DEF DrainDone, Pcs, PcsOf
  <2> QED
    BY <2>1, <2>2
<1>9. CASE IgnoreNameless
  BY <1>2, <1>4, <1>9 DEF IgnoreNameless, Pcs, PcsOf
<1>10. CASE AnswerFromCache
  <2>1. PICK k \in 1..Len(cache) :
          PublishAck(top.d, CachedStatus(cache[k]), Goto("return", FALSE))
    BY <1>10 DEF AnswerFromCache
  <2>2. cache[k] \in Result
    BY <1>1, <2>1, ElementOfSeq DEF DataOK
  <2>3. CachedStatus(cache[k]) \in Statuses
    BY <2>2 DEF CachedStatus, Result, Statuses, Outcomes
  <2> QED
    BY <1>3, <1>4, <1>10, <2>1, <2>3 DEF AnswerFromCache, Pcs
<1>11. ASSUME NEW status \in Outcomes, RunFunction(status)
       PROVE  IInv'
  BY <1>11, RunFunctionStep
<1>12. ASSUME NEW status \in Outcomes, EndFlash(status)
       PROVE  IInv'
  <2>1. top.d # 0
    BY <1>4, <1>12 DEF EndFlash
  <2>2. CASE status = "failed"
    BY <1>3, <1>12, <2>1, <2>2 DEF EndFlash, Pcs, Statuses
  <2>3. CASE status # "failed"
    BY <1>3, <1>12, <2>1, <2>3 DEF EndFlash, Pcs, Statuses
  <2> QED
    BY <2>2, <2>3
<1>13. CASE ForwardFails
  BY <1>13, ForwardFailsStep
<1>14. CASE Forward
  BY <1>14, ForwardStep
<1>15. CASE RejectFlash
  BY <1>3, <1>4, <1>15 DEF RejectFlash, Pcs, Statuses, Outcomes
<1>16. CASE StartFlash
  BY <1>3, <1>4, <1>16 DEF StartFlash, Pcs, Statuses
<1>17. CASE Download
  BY <1>2, <1>4, <1>17 DEF Download, Pcs, PcsOf
<1>18. CASE Progress
  <2>1. top.d # 0 /\ top.d \in Deliveries
    BY <1>1, <1>4, <1>18, CallbackDelivery DEF Progress
  <2>2. /\ [top EXCEPT !.i = 2] \in ActivationType
        /\ [top EXCEPT !.i = 2].d = top.d
        /\ [top EXCEPT !.i = 2].pc = top.pc
    BY <1>1, SecondType
  <2>3. /\ StackOK'
        /\ told' \in [Deliveries -> Seq(Statuses)]
        /\ lost' \subseteq Deliveries
        /\ failed' \in 0..Outages
    BY <1>1, <1>18, <2>1, <2>2, PublishType DEF Progress, Statuses
  <2>4. DataOK' /\ HeardIsSent'
    BY <1>1, <1>18, <2>3 DEF DataOK, Progress, IInv, HeardIsSent
  <2> QED
    BY <1>18, <2>3, <2>4, InvariantAgain DEF Progress
<1>19. CASE Restart
  BY <1>19, RestartStep
<1>20. CASE Return
  BY <1>20, ReturnStep
<1>21. CASE Service
  BY <1>2, <1>5, <1>21 DEF Service, Pcs, PcsOf
<1>22. CASE PollStatus
  BY <1>22, PollStatusStep
<1>23. CASE LinkDone
  BY <1>2, <1>5, <1>23 DEF LinkDone, Pcs, PcsOf
<1>27. CASE PollAgain
  BY <1>27, PollAgainStep
<1>24. ASSUME NEW id \in Ids, NEW name \in Names, Deliver(id, name)
       PROVE  IInv'
  BY <1>24, DeliverStep
<1>25. ASSUME NEW d \in mcuBusy, NEW status \in Outcomes, McuFinishes(d, status)
       PROVE  IInv'
  <2>1. StackOK'
    BY <1>1, <1>25 DEF McuFinishes, history, StackOK, ActivationType
  <2>2. mcuOut' \in Seq(Final) /\ mcuOut' # <<>> /\ mcuBusy' \subseteq Deliveries
    <3>1. [d |-> d, status |-> status] \in Final
      BY <1>1 DEF DataOK, Final
    <3> QED
      BY <1>1, <1>25, <3>1, AppendProperties DEF McuFinishes, DataOK
  <2>3. DataOK' /\ HeardIsSent'
    BY <1>1, <1>25, <2>2 DEF McuFinishes, history, DataOK, HeardIsSent
  <2> QED
    BY <1>25, <2>1, <2>3, InvariantAgain DEF McuFinishes, history
<1>26. CASE UNCHANGED vars
  <2>1. StackOK'
    BY <1>1, <1>26 DEF vars, history, StackOK, ActivationType
  <2>2. DataOK' /\ HeardIsSent'
    BY <1>1, <1>26 DEF vars, history, DataOK, IInv, HeardIsSent
  <2> QED
    BY <1>26, <2>1, <2>2, InvariantAgain DEF vars, history
<1> QED
  BY <1>6, <1>7, <1>8, <1>9, <1>10, <1>11, <1>12, <1>13, <1>14, <1>15,
     <1>16, <1>17, <1>18, <1>19, <1>20, <1>21, <1>22, <1>23, <1>24, <1>25, <1>26,
     <1>27
  DEF Next, DeviceStep

\* The inductive invariant holds in every behaviour.
THEOREM DispatchInvariant == Spec => []IInv
<1>1. Init => IInv
  BY InitInvariant, DispatchAssumption
<1>2. IInv /\ [Next]_vars => IInv'
  BY StepInvariant, DispatchAssumption
<1> QED
  BY <1>1, <1>2, PTL DEF Spec

\* The stack of callbacks is well formed, queue, cache and histories keep their
\* types, and the cache never outgrows its capacity.
THEOREM DispatchTypeCorrect == Spec => []TypeOK
<1>1. IInv => TypeOK
  BY DEF IInv
<1> QED
  BY <1>1, DispatchInvariant, PTL

\* README, "command functions": for any capacity of the cache and any nesting
\* of callbacks, a command id runs again only after at least CacheSize other
\* executions, however often the broker redelivers it.
THEOREM DispatchRunsOnce == Spec => []RunsOnce
<1>1. IInv => RunsOnce
  BY DEF IInv
<1> QED
  BY <1>1, DispatchInvariant, PTL

-----------------------------------------------------------------------------
(* The call stack as a set of activations *)

\* The interrupted activations, and all of them.
Below == {stack[k] : k \in 2..Len(stack)}
Acts == {stack[k] : k \in 1..Len(stack)}

\* A callback handles a later delivery than those it interrupted.
StackOrdered ==
  \A j, k \in 1..Len(stack) : j < k => stack[j].d > stack[k].d

\* The stack as the running activation and the set of those it interrupted.
LEMMA StackNow ==
  ASSUME StackOK, StackOrdered, DispatchAssumption
  PROVE  /\ Acts = {top} \cup Below
         /\ \A x \in Below :
              x \in ActivationType /\ x.d # top.d /\ x.d < top.d
         /\ top \in ActivationType
<1>1. Len(stack) \in Nat /\ Len(stack) >= 1 /\ stack \in Seq(ActivationType)
  BY DEF StackOK, DispatchAssumption
<1>2. top = stack[1] /\ top \in ActivationType
  BY TopType
<1>3. 1..Len(stack) = {1} \cup (2..Len(stack))
  BY <1>1
<1>4. Acts = {top} \cup Below
  BY <1>2, <1>3 DEF Acts, Below
<1>5. ASSUME NEW k \in 2..Len(stack)
      PROVE  /\ stack[k] \in ActivationType
             /\ stack[k].d # top.d /\ stack[k].d < top.d
  <2>1. k \in 1..Len(stack) /\ 1 \in 1..Len(stack) /\ 1 < k
    BY <1>1
  <2>2. stack[k] \in ActivationType /\ stack[1].d > stack[k].d
    BY <1>1, <2>1, ElementOfSeq DEF StackOrdered
  <2>3. stack[k].d \in Nat /\ top.d \in Nat
    BY <1>2, <2>2 DEF ActivationType
  <2> QED
    BY <1>2, <2>2, <2>3
<1> QED
  BY <1>2, <1>4, <1>5 DEF Below

\* The running activation goes on as a, and those it interrupted stay.
LEMMA StackMoves ==
  ASSUME StackOK, StackOrdered, DispatchAssumption, NEW a \in ActivationType,
         a.d = top.d, Becomes(a)
  PROVE  /\ top' = a
         /\ Len(stack') = Len(stack)
         /\ Below' = Below
         /\ Acts' = {a} \cup Below
         /\ StackOrdered'
<1>1. Len(stack) \in Nat /\ Len(stack) >= 1 /\ stack \in Seq(ActivationType)
  BY DEF StackOK, DispatchAssumption
<1>2. /\ stack' \in Seq(ActivationType)
      /\ Len(stack') = Len(stack)
      /\ stack'[1] = a
      /\ \A k \in 2..Len(stack) : stack'[k] = stack[k]
  <2>1. stack' = <<a>> \o Tail(stack)
    BY DEF Becomes
  <2>2. ASSUME NEW r, r = <<a>> \o Tail(stack)
        PROVE  /\ r \in Seq(ActivationType)
               /\ Len(r) = Len(stack)
               /\ r[1] = a
               /\ \A k \in 2..Len(stack) : r[k] = stack[k]
    BY <1>1, <2>2, ReplaceHead
  <2> QED
    BY <2>1, <2>2
<1>3. top' = a
  <2>1. stack' # <<>>
    BY <1>1, <1>2
  <2> QED
    BY <1>2, <2>1, HeadTailProperties DEF top
<1>4. Below' = Below
  BY <1>2 DEF Below
<1>5. 1..Len(stack) = {1} \cup (2..Len(stack))
  BY <1>1
<1>6. Acts' = {a} \cup Below
  BY <1>2, <1>4, <1>5 DEF Acts, Below
<1>7. \A k \in 1..Len(stack) : stack'[k].d = stack[k].d
  BY <1>2, <1>5, TopType
<1>8. StackOrdered'
  BY <1>2, <1>7 DEF StackOrdered
<1> QED
  BY <1>2, <1>3, <1>4, <1>6, <1>8

\* A delivered message puts its callback on top of the one inside loop().
LEMMA StackPushes ==
  ASSUME IInv, StackOrdered, DispatchAssumption, NEW id \in Ids,
         NEW name \in Names, Deliver(id, name)
  PROVE  /\ top' = Activation("drain", Len(req) + 1)
         /\ Len(stack') = Len(stack) + 1
         /\ Acts' = {top'} \cup {[top EXCEPT !.pump = FALSE]} \cup Below
         /\ StackOrdered'
<1> DEFINE a == Activation("drain", Len(req) + 1)
           b == [top EXCEPT !.pump = FALSE]
           n == Len(stack)
           T == ActivationType \cup {a, b}
<1>1. /\ n \in Nat /\ n >= 1 /\ stack \in Seq(ActivationType)
      /\ Len(req) \in Nat
      /\ StackOK
  BY InvariantParts DEF StackOK, DataOK, DispatchAssumption
<1>2. /\ stack # <<>>
      /\ Tail(stack) \in Seq(ActivationType)
      /\ Len(Tail(stack)) = n - 1
      /\ \A k \in 1..(n - 1) : Tail(stack)[k] = stack[k + 1]
  BY <1>1, HeadTailProperties
<1>3. /\ Tail(stack) \in Seq(T)
      /\ <<a, b>> \in Seq(T)
      /\ Len(<<a, b>>) = 2
      /\ <<a, b>>[1] = a
      /\ <<a, b>>[2] = b
  BY <1>2
<1>4. stack' = <<a, b>> \o Tail(stack)
  BY DEF Deliver
<1>5. /\ stack' \in Seq(T)
      /\ Len(stack') = n + 1
      /\ stack'[1] = a
      /\ stack'[2] = b
      /\ \A k \in 3..(n + 1) : stack'[k] = stack[k - 1]
  <2> HIDE DEF a, b, n, T
  <2>1. /\ stack' \in Seq(T)
        /\ Len(stack') = 2 + (n - 1)
        /\ \A k \in 1..(2 + (n - 1)) :
             stack'[k] = IF k <= 2 THEN <<a, b>>[k] ELSE Tail(stack)[k - 2]
    BY <1>2, <1>3, <1>4, ConcatProperties
  <2>2. ASSUME NEW k \in 3..(n + 1)
        PROVE  stack'[k] = stack[k - 1]
    <3>1. k - 2 \in 1..(n - 1) /\ ~(k <= 2) /\ k \in 1..(2 + (n - 1))
      BY <1>1
    <3>2. stack'[k] = Tail(stack)[k - 2]
      BY <2>1, <3>1
    <3>3. Tail(stack)[k - 2] = stack[(k - 2) + 1]
      BY <1>2, <3>1
    <3>4. (k - 2) + 1 = k - 1
      BY <1>1
    <3> QED
      BY <3>2, <3>3, <3>4
  <2>3. 1 \in 1..(2 + (n - 1)) /\ 2 \in 1..(2 + (n - 1)) /\ 2 + (n - 1) = n + 1
    BY <1>1
  <2>4. stack'[1] = <<a, b>>[1] /\ stack'[2] = <<a, b>>[2]
    BY <2>1, <2>3
  <2>5. stack'[1] = a /\ stack'[2] = b
    BY <2>4
  <2> QED
    BY <2>1, <2>2, <2>3, <2>5
<1>6. top' = a
  <2>1. stack' # <<>>
    BY <1>1, <1>5
  <2> QED
    BY <1>5, <2>1, HeadTailProperties DEF top
<1>7. Acts' = {a} \cup {b} \cup Below
  <2> HIDE DEF a, b, n, T
  <2>1. Acts' = {stack'[k] : k \in 1..(n + 1)}
    BY <1>5 DEF Acts
  <2>2. ASSUME NEW x \in Acts'
        PROVE  x \in {a} \cup {b} \cup Below
    <3>1. PICK k \in 1..(n + 1) : x = stack'[k]
      BY <2>1, <2>2
    <3>2. CASE k \in 3..(n + 1)
      <4>1. k - 1 \in 2..Len(stack)
        BY <3>2, <1>1 DEF n
      <4> QED
        BY <1>5, <3>1, <3>2, <4>1 DEF Below
    <3> QED
      BY <1>1, <1>5, <3>1, <3>2
  <2>3. ASSUME NEW x \in Below
        PROVE  x \in Acts'
    <3>1. PICK k \in 2..n : x = stack[k]
      BY <2>3 DEF Below, n
    <3>2. k + 1 \in 3..(n + 1) /\ (k + 1) - 1 = k /\ k + 1 \in 1..(n + 1)
      BY <1>1, <3>1
    <3>3. stack'[k + 1] = x
      BY <1>5, <3>1, <3>2
    <3> QED
      BY <2>1, <3>2, <3>3
  <2>4. 1 \in 1..(n + 1) /\ 2 \in 1..(n + 1)
    BY <1>1
  <2> QED
    BY <1>5, <2>1, <2>2, <2>3, <2>4
<1>8. StackOrdered'
  <2>1. b.d = top.d /\ top = stack[1] /\ a.d = Len(req) + 1
    BY <1>1, TopType DEF ActivationType, Activation
  <2>2. ASSUME NEW k \in 1..n
        PROVE  stack[k].d \in Nat /\ stack[k].d <= Len(req)
    <3>1. stack[k] \in ActivationType
      BY <1>1, ElementOfSeq
    <3>2. stack[k].d \in 0..Len(req)
      BY <3>1 DEF ActivationType
    <3> QED
      BY <1>1, <3>2
  <2> HIDE DEF a, b, n, T
  <2>3. ASSUME NEW k \in 2..(n + 1)
        PROVE  stack'[k].d = stack[k - 1].d /\ k - 1 \in 1..n
    <3>1. k - 1 \in 1..n /\ (k = 2 \/ k \in 3..(n + 1))
      BY <1>1
    <3>2. CASE k = 2
      <4>1. k - 1 = 1
        BY <3>2
      <4> QED
        BY <1>5, <2>1, <3>1, <3>2, <4>1, Zenon
    <3>3. CASE k \in 3..(n + 1)
      BY <1>5, <3>1, <3>3
    <3> QED
      BY <3>1, <3>2, <3>3
  <2>4. \A j, k \in 1..n : j < k => stack[j].d > stack[k].d
    BY DEF StackOrdered, n
  <2>5. ASSUME NEW j \in 1..(n + 1), NEW k \in 1..(n + 1), j < k
        PROVE  stack'[j].d > stack'[k].d
    <3>1. k \in 2..(n + 1) /\ (j = 1 \/ j \in 2..(n + 1))
      BY <1>1, <2>5
    <3>2. CASE j = 1
      <4>1. stack'[j].d = Len(req) + 1
        BY <1>5, <2>1, <3>2
      <4>2. stack'[k].d \in Nat /\ stack'[k].d <= Len(req)
        BY <2>2, <2>3, <3>1
      <4> QED
        BY <1>1, <4>1, <4>2
    <3>3. CASE j \in 2..(n + 1)
      <4>1. /\ j - 1 \in 1..n /\ k - 1 \in 1..n /\ j - 1 < k - 1
            /\ stack'[j].d = stack[j - 1].d /\ stack'[k].d = stack[k - 1].d
        BY <1>1, <2>3, <2>5, <3>1, <3>3
      <4> QED
        BY <2>4, <4>1
    <3> QED
      BY <3>1, <3>2, <3>3
  <2> QED
    BY <1>5, <2>5 DEF StackOrdered
<1> QED
  BY <1>5, <1>6, <1>7, <1>8

\* The callback returns to the one it interrupted.
LEMMA StackPops ==
  ASSUME IInv, StackOrdered, DispatchAssumption, Return
  PROVE  /\ Len(stack) >= 2
         /\ Len(stack') = Len(stack) - 1
         /\ top' \in Below
         /\ Acts' = Below
         /\ StackOrdered'
<1> DEFINE n == Len(stack)
<1>1. /\ n \in Nat /\ n >= 1 /\ stack \in Seq(ActivationType)
      /\ StackOK /\ top = stack[1] /\ top.pc \in PcsOf(top.d)
  BY InvariantParts, TopType DEF StackOK, DispatchAssumption
<1>2. n >= 2
  <2>1. top.d # 0
    BY <1>1 DEF Return, At, PcsOf
  <2>2. 1 \in 1..n
    BY <1>1
  <2>3. 1 # n
    BY <1>1, <2>1, <2>2, Zenon DEF StackOK
  <2> HIDE DEF n
  <2> QED
    BY <1>1, <2>3
<1>3. /\ Len(stack') = n - 1
      /\ stack' # <<>>
      /\ stack' \in Seq(ActivationType)
      /\ \A k \in 1..(n - 1) : stack'[k] = stack[k + 1]
  <2>1. stack # <<>> /\ stack' = Tail(stack)
    BY <1>1 DEF Return
  <2>2. /\ Len(stack') = n - 1
        /\ stack' \in Seq(ActivationType)
        /\ \A k \in 1..(n - 1) : stack'[k] = stack[k + 1]
    BY <1>1, <2>1, HeadTailProperties
  <2> HIDE DEF n
  <2> QED
    BY <1>1, <1>2, <2>2
<1>4. Acts' = Below
  <2> HIDE DEF n
  <2>1. Acts' = {stack'[k] : k \in 1..(n - 1)} /\ Below = {stack[k] : k \in 2..n}
    BY <1>3 DEF Acts, Below, n
  <2>2. ASSUME NEW k \in 1..(n - 1)
        PROVE  stack'[k] \in Below
    BY <1>1, <1>3, <2>1, SMTT(30)
  <2>3. ASSUME NEW k \in 2..n
        PROVE  stack[k] \in Acts'
    <3>1. k - 1 \in 1..(n - 1) /\ (k - 1) + 1 = k
      BY <1>1
    <3> QED
      BY <1>3, <2>1, <3>1
  <2> QED
    BY <2>1, <2>2, <2>3
<1>5. top' \in Below
  <2>1. top' = stack'[1]
    BY <1>3, HeadTailProperties DEF top
  <2>2. stack'[1] = stack[2] /\ 2 \in 2..n
    <3> HIDE DEF n
    <3>1. 1 \in 1..(n - 1) /\ 1 + 1 = 2
      BY <1>1, <1>2
    <3> QED
      BY <1>1, <1>2, <1>3, <3>1
  <2> QED
    BY <2>1, <2>2 DEF Below
<1>6. StackOrdered'
  <2> HIDE DEF n
  <2>1. \A j, k \in 1..n : j < k => stack[j].d > stack[k].d
    BY DEF StackOrdered, n
  <2>2. ASSUME NEW j \in 1..(n - 1), NEW k \in 1..(n - 1), j < k
        PROVE  stack'[j].d > stack'[k].d
    <3>1. j + 1 \in 1..n /\ k + 1 \in 1..n /\ j + 1 < k + 1
      BY <1>1, <2>2
    <3> QED
      BY <1>3, <2>1, <3>1
  <2> QED
    BY <1>3, <2>2 DEF StackOrdered
<1> QED
  BY <1>2, <1>3, <1>4, <1>5, <1>6

-----------------------------------------------------------------------------
(* The queue of acks never fills up *)

\* The slots in use.
Busy == Slots \ FreeSlots

\* The callbacks that run.
Depth == Len(stack) - 1

\* Each callback leaves at most one more ack in the queue than it found room
\* for: at the k-th level it adds to at most MaxDepth - k that are there, so
\* that the loop of a drain it interrupted, which has looked at the slots below
\* its counter, finds no more than that in them.
BusyBound ==
  /\ top.pc \in {"service", "link"} => Cardinality(Busy) <= MaxDepth
  /\ top.pc = "drain" =>
       /\ Cardinality(Busy) <= MaxDepth + 1
       /\ top.i > 1 \/ top.pump \/ top.d = 0 => Cardinality(Busy) <= MaxDepth
       /\ Cardinality({s \in Busy : s < top.i}) <= MaxDepth - Depth
  /\ top.pc \in {"dispatch", "flash", "flashing", "restart"} =>
       Cardinality(Busy) <= MaxDepth - Depth
  /\ top.pc = "return" => Cardinality(Busy) <= MaxDepth - Depth + 1

\* The second inductive invariant, about the queue's length.
NoneDropped == MaxDepth < AckSlots => dropped = {} /\ BusyBound

\* The slots in use are finitely many, as many at most as there are slots.
LEMMA BusyFinite ==
  ASSUME DispatchAssumption
  PROVE  /\ IsFiniteSet(Slots)
         /\ Cardinality(Slots) = AckSlots
         /\ IsFiniteSet(Busy)
         /\ Cardinality(Busy) \in Nat
         /\ \A T \in SUBSET Busy :
              /\ IsFiniteSet(T)
              /\ Cardinality(T) \in Nat
              /\ Cardinality(T) <= Cardinality(Busy)
<1>1. AckSlots \in Int /\ 1 \in Int /\ AckSlots >= 1
  BY DEF DispatchAssumption
<1>2. IsFiniteSet(Slots) /\ Cardinality(Slots) = AckSlots
  BY <1>1, FS_Interval DEF Slots
<1>3. Busy \in SUBSET Slots
  BY DEF Busy
<1>4. IsFiniteSet(Busy)
  BY <1>2, <1>3, FS_Subset
<1>5. ASSUME NEW T \in SUBSET Busy
      PROVE  IsFiniteSet(T) /\ Cardinality(T) <= Cardinality(Busy)
  BY <1>4, FS_Subset
<1> QED
  BY <1>2, <1>4, <1>5, FS_CardinalityType

\* A slot is free while fewer are in use than there are.
LEMMA RoomLeft ==
  ASSUME DispatchAssumption, Cardinality(Busy) < AckSlots
  PROVE  FreeSlots # {}
<1>1. FreeSlots = {} => Busy = Slots
  BY DEF Busy
<1> QED
  BY <1>1, BusyFinite DEF DispatchAssumption

\* Queueing an ack uses at most one more slot, and drops it only when all are
\* in use.
LEMMA QueueUsesOne ==
  ASSUME DispatchAssumption, TypeOK, NEW d, NEW status, QueueAck(d, status),
         Cardinality(Busy) < AckSlots
  PROVE  /\ UNCHANGED dropped
         /\ Cardinality(Busy') <= Cardinality(Busy) + 1
         /\ Cardinality(Busy') \in Nat
<1>1. FreeSlots # {}
  BY RoomLeft
<1>2. PICK s \in FreeSlots :
        acks' = [acks EXCEPT ![s] = [d |-> d, status |-> status]]
  BY <1>1 DEF QueueAck
<1>3. Busy' \in SUBSET (Busy \cup {s})
  BY <1>2 DEF Busy, FreeSlots, TypeOK
<1>4. IsFiniteSet(Busy \cup {s}) /\ Cardinality(Busy \cup {s}) <= Cardinality(Busy) + 1
  BY BusyFinite, FS_AddElement
<1>5. /\ IsFiniteSet(Busy')
      /\ Cardinality(Busy') <= Cardinality(Busy \cup {s})
  BY <1>3, <1>4, FS_Subset
<1>6. Cardinality(Busy') \in Nat /\ Cardinality(Busy \cup {s}) \in Nat
  BY <1>4, <1>5, FS_CardinalityType
<1> QED
  BY <1>1, <1>4, <1>5, <1>6, BusyFinite DEF QueueAck

\* Publishing an ack, whether or not it gets through, moves the running
\* activation on and leaves the ones it interrupted.
LEMMA PublishMoves ==
  ASSUME StackOK, StackOrdered, DispatchAssumption, NEW d, NEW status,
         NEW a \in ActivationType, a.d = top.d, PublishAck(d, status, a)
  PROVE  /\ top' \in ActivationType
         /\ top'.pc = a.pc
         /\ top'.d = a.d
         /\ top'.i = a.i
         /\ Len(stack') = Len(stack)
         /\ Acts' = {top'} \cup Below
         /\ StackOrdered'
<1>1. /\ [a EXCEPT !.pump = TRUE] \in ActivationType
      /\ [a EXCEPT !.pump = TRUE].d = a.d
      /\ [a EXCEPT !.pump = TRUE].pc = a.pc
      /\ [a EXCEPT !.pump = TRUE].i = a.i
  BY DEF ActivationType
<1>2. CASE Becomes([a EXCEPT !.pump = TRUE])
  BY <1>1, <1>2, StackMoves
<1>3. CASE Becomes(a)
  BY <1>3, StackMoves
<1> QED
  BY <1>2, <1>3 DEF PublishAck

\* Everything the bound is about, in numbers.
LEMMA BoundNumbers ==
  ASSUME DispatchAssumption, IInv
  PROVE  /\ MaxDepth \in Nat /\ AckSlots \in Nat
         /\ Len(stack) \in Nat /\ Depth \in 0..MaxDepth
         /\ Depth = Len(stack) - 1
         /\ Cardinality(Busy) \in Nat
         /\ Cardinality({s \in Busy : s < top.i}) \in Nat
         /\ Cardinality({s \in Busy : s < top.i}) <= Cardinality(Busy)
         /\ top \in ActivationType
         /\ top.i \in Nat /\ top.i >= 1
         /\ top.d = 0 <=> Depth = 0
         /\ top.pc \in PcsOf(top.d)
<1>1. StackOK /\ top = stack[1] /\ top \in ActivationType /\ top.pc \in PcsOf(top.d)
  BY InvariantParts, TopType
<1>2. Len(stack) \in Nat /\ Len(stack) >= 1 /\ Len(stack) <= MaxDepth + 1
  BY <1>1 DEF StackOK, DispatchAssumption
<1>3. 1 \in 1..Len(stack)
  BY <1>2
<1>4. top.d = 0 <=> 1 = Len(stack)
  BY <1>1, <1>3, Zenon DEF StackOK
<1>5. top.i \in Nat /\ top.i >= 1
  BY <1>1 DEF ActivationType, DispatchAssumption
<1>6. {s \in Busy : s < top.i} \in SUBSET Busy
  OBVIOUS
<1>7. /\ Cardinality({s \in Busy : s < top.i}) \in Nat
      /\ Cardinality({s \in Busy : s < top.i}) <= Cardinality(Busy)
      /\ Cardinality(Busy) \in Nat
  BY <1>6, BusyFinite
<1> QED
  BY <1>1, <1>2, <1>4, <1>5, <1>7 DEF Depth, DispatchAssumption

\* A step that moves the running activation and leaves the queue alone.
LEMMA QueueStays ==
  ASSUME DispatchAssumption, IInv, StackOrdered, BusyBound,
         UNCHANGED acks, Len(stack') = Len(stack),
         top'.d = top.d, top'.pc = top.pc, top'.i >= top.i, top'.i \in Nat,
         top.pc = "drain" => top'.i = top.i /\ (top'.pump => top.pump)
  PROVE  BusyBound'
<1>1. Busy' = Busy
  BY DEF Busy, FreeSlots
<1>2. Depth' = Depth
  BY DEF Depth
<1>3. CASE top.pc = "drain"
  BY <1>1, <1>2, <1>3 DEF BusyBound
<1>4. CASE top.pc # "drain"
  BY <1>1, <1>2, <1>4 DEF BusyBound
<1> QED
  BY <1>3, <1>4

\* The drain publishes what the next slot holds, whether or not it gets
\* through.
LEMMA DrainAckBounded ==
  ASSUME DispatchAssumption, IInv, StackOrdered, BusyBound, DrainAck
  PROVE  BusyBound'
<1>1. StackOK /\ TypeOK /\ top \in ActivationType
  BY InvariantParts DEF IInv
<1>2. PICK s \in top.i..AckSlots :
        /\ acks[s] # None
        /\ \A r \in top.i..(s - 1) : acks[r] = None
        /\ acks' = [acks EXCEPT ![s] = None]
        /\ PublishAck(acks[s].d, acks[s].status, [top EXCEPT !.i = s + 1])
  BY DEF DrainAck
<1>3. s \in Slots /\ s + 1 \in 1..(AckSlots + DrainLimit + 1) /\ s \in Nat
  BY <1>1, <1>2 DEF ActivationType, Slots, DispatchAssumption
<1>4. /\ [top EXCEPT !.i = s + 1] \in ActivationType
      /\ [top EXCEPT !.i = s + 1].d = top.d
      /\ [top EXCEPT !.i = s + 1].pc = top.pc
      /\ [top EXCEPT !.i = s + 1].i = s + 1
  BY <1>1, <1>3 DEF ActivationType
<1>5. /\ top'.pc = "drain" /\ top'.d = top.d /\ top'.i = s + 1
      /\ Len(stack') = Len(stack)
  <2> DEFINE a == [top EXCEPT !.i = s + 1]
  <2>1. /\ a \in ActivationType /\ a.d = top.d /\ a.i = s + 1 /\ a.pc = "drain"
        /\ PublishAck(acks[s].d, acks[s].status, a)
    BY <1>2, <1>4 DEF DrainAck, At
  <2> HIDE DEF a
  <2> QED
    BY <1>1, <2>1, PublishMoves
<1>6. Busy' = Busy \ {s} /\ s \in Busy
  BY <1>1, <1>2, <1>3 DEF Busy, FreeSlots, TypeOK
<1>7. Cardinality(Busy') = Cardinality(Busy) - 1
  BY <1>6, BusyFinite, FS_RemoveElement
<1>8. {r \in Busy' : r < top'.i} = {r \in Busy : r < top.i}
  <2>1. ASSUME NEW r \in Busy
        PROVE  r # s /\ r < top'.i <=> r < top.i
    <3>1. r \in Nat /\ top.i \in Nat /\ top.i <= s
      BY <1>1, <1>2 DEF Busy, Slots, ActivationType, DispatchAssumption
    <3>2. r \notin top.i..(s - 1)
      BY <1>2, <2>1 DEF Busy, FreeSlots
    <3> QED
      BY <1>3, <1>5, <3>1, <3>2
  <2> QED
    BY <1>6, <2>1
<1>9. Cardinality({r \in Busy : r < top.i}) <= MaxDepth - Depth
  BY DEF BusyBound, DrainAck, At
<1>10. Cardinality(Busy) <= MaxDepth + 1
  BY DEF BusyBound, DrainAck, At
<1>11. Depth' = Depth
  BY <1>5 DEF Depth
<1>12. Cardinality({r \in Busy' : r < top'.i}) <= MaxDepth - Depth'
  BY <1>8, <1>9, <1>11
<1>13. Cardinality(Busy') <= MaxDepth
  BY <1>7, <1>10, BoundNumbers
<1>14. MaxDepth + 1 >= MaxDepth /\ Cardinality(Busy') \in Int
  BY <1>7, BoundNumbers
<1> QED
  BY <1>5, <1>12, <1>13, <1>14, BoundNumbers DEF BusyBound

\* The drain is done: what is left in the queue is below its counter.
LEMMA DrainDoneBounded ==
  ASSUME DispatchAssumption, IInv, StackOrdered, BusyBound, DrainDone
  PROVE  BusyBound'
<1>1. StackOK /\ TypeOK /\ top \in ActivationType
  BY InvariantParts DEF IInv
<1>2. /\ Len(stack') = Len(stack)
      /\ top'.pc = IF top.d = 0 THEN "link" ELSE "dispatch"
  <2>1. ASSUME NEW pc \in Pcs, NEW pump \in BOOLEAN, Becomes(Goto(pc, pump))
        PROVE  Len(stack') = Len(stack) /\ top'.pc = pc
    <3> DEFINE a == Goto(pc, pump)
    <3>1. a \in ActivationType /\ a.d = top.d /\ a.pc = pc /\ Becomes(a)
      BY <1>1, <2>1, GotoType
    <3> HIDE DEF a
    <3> QED
      BY <1>1, <3>1, StackMoves
  <2>2. "link" \in Pcs /\ "dispatch" \in Pcs
    BY DEF Pcs
  <2>3. CASE top.d = 0
    <3>1. Becomes(Goto("link", FALSE))
      BY <2>3 DEF DrainDone
    <3> QED
      BY <2>1, <2>2, <2>3, <3>1
  <2>4. CASE top.d # 0
    <3>1. Becomes(Goto("dispatch", TRUE))
      BY <2>4 DEF DrainDone
    <3> QED
      BY <2>1, <2>2, <2>4, <3>1
  <2> QED
    BY <2>3, <2>4
<1>3. Busy' = Busy /\ Depth' = Depth
  BY <1>2 DEF Busy, FreeSlots, Depth, DrainDone
<1>4. Busy = {s \in Busy : s < top.i}
  <2>1. ASSUME NEW s \in Busy
        PROVE  s < top.i
    <3>1. s \in 1..AckSlots /\ s \notin top.i..AckSlots /\ top.i \in Nat
      BY <1>1 DEF Busy, FreeSlots, Slots, DrainDone, ActivationType, DispatchAssumption
    <3> QED
      BY <3>1 DEF DispatchAssumption
  <2> QED
    BY <2>1
<1>5. Cardinality(Busy) <= MaxDepth - Depth
  BY <1>4 DEF BusyBound, DrainDone, At
<1> QED
  BY <1>2, <1>3, <1>5, BoundNumbers DEF BusyBound

\* A message arrives: its callback starts with what its own ack adds, and
\* has looked at no slot yet.
LEMMA DeliverBounded ==
  ASSUME DispatchAssumption, IInv, StackOrdered, BusyBound,
         MaxDepth < AckSlots,
         NEW id \in Ids, NEW name \in Names, Deliver(id, name)
  PROVE  UNCHANGED dropped /\ BusyBound'
<1>1. /\ top' = Activation("drain", Len(req) + 1)
      /\ Len(stack') = Len(stack) + 1
  BY StackPushes
<1>2. Len(req) \in Nat
  BY InvariantParts DEF DataOK
<1>3. top'.pc = "drain" /\ top'.i = 1 /\ ~top'.pump /\ top'.d # 0
  BY <1>1, <1>2 DEF Activation
<1>4. Cardinality(Busy) <= MaxDepth
  <2>1. top.pump
    BY DEF Deliver
  <2>2. top.pc \in Pcs
    BY BoundNumbers DEF ActivationType
  <2>3. top.pc = "return" => Depth >= 1
    BY BoundNumbers DEF PcsOf
  <2> QED
    BY <2>1, <2>2, <2>3, BoundNumbers DEF BusyBound, Pcs
<1>5. /\ UNCHANGED dropped
      /\ Cardinality(Busy') <= Cardinality(Busy) + 1
      /\ Cardinality(Busy') \in Nat
  BY <1>4, QueueUsesOne, BoundNumbers DEF Deliver, IInv
<1>6. Cardinality({s \in Busy' : s < top'.i}) = 0
  <2>1. {s \in Busy' : s < top'.i} = {}
    BY <1>3 DEF Busy, Slots, DispatchAssumption
  <2> QED
    BY <2>1, FS_EmptySet
<1>7. Depth' = Depth + 1 /\ Depth' <= MaxDepth
  BY <1>1, BoundNumbers DEF Depth, Deliver
<1>8. Cardinality(Busy') <= MaxDepth + 1 /\ 0 <= MaxDepth - Depth'
  BY <1>4, <1>5, <1>7, BoundNumbers
<1> QED
  BY <1>3, <1>5, <1>6, <1>8, BoundNumbers DEF BusyBound

\* A callback goes on, or is about to return, without touching the queue, and
\* the main loop goes on.
LEMMA GoesOnBounded ==
  ASSUME DispatchAssumption, IInv, BusyBound, UNCHANGED acks,
         Len(stack') = Len(stack),
         \/ /\ top.pc \in {"dispatch", "flash", "flashing"}
            /\ top'.pc \in {"flash", "flashing", "restart", "return"}
         \/ top.pc \in {"service", "link"} /\ top'.pc = "service"
         \/ top.pc = "service" /\ top'.pc = "drain" /\ top'.i = 1
  PROVE  BusyBound'
<1>1. Busy' = Busy /\ Depth' = Depth
  BY DEF Busy, FreeSlots, Depth
<1>2. CASE /\ top.pc \in {"dispatch", "flash", "flashing"}
           /\ top'.pc \in {"flash", "flashing", "restart", "return"}
  <2>1. /\ Cardinality(Busy) <= MaxDepth - Depth
        /\ Cardinality(Busy) <= MaxDepth - Depth + 1
    BY <1>2, BoundNumbers DEF BusyBound
  <2> QED
    BY <1>1, <1>2, <2>1 DEF BusyBound
<1>3. CASE top.pc \in {"service", "link"} /\ top'.pc = "service"
  BY <1>1, <1>3 DEF BusyBound
<1>4. CASE top.pc = "service" /\ top'.pc = "drain" /\ top'.i = 1
  <2>1. {s \in Busy' : s < top'.i} = {}
    BY <1>4 DEF Busy, Slots, DispatchAssumption
  <2>2. Cardinality({s \in Busy' : s < top'.i}) = 0
    BY <2>1, FS_EmptySet
  <2>3. Cardinality(Busy) <= MaxDepth /\ Cardinality(Busy) <= MaxDepth + 1
    BY <1>4, BoundNumbers DEF BusyBound
  <2>4. 0 <= MaxDepth - Depth
    BY BoundNumbers
  <2> QED
    BY <1>1, <1>4, <2>2, <2>3, <2>4 DEF BusyBound
<1> QED
  BY <1>2, <1>3, <1>4

\* A callback queues an ack of its own before it returns.
LEMMA QueuesBounded ==
  ASSUME DispatchAssumption, IInv, BusyBound, MaxDepth < AckSlots,
         top.pc = "dispatch", NEW d, NEW status, QueueAck(d, status),
         Len(stack') = Len(stack), top'.pc = "return"
  PROVE  UNCHANGED dropped /\ BusyBound'
<1>1. Cardinality(Busy) <= MaxDepth - Depth
  BY DEF BusyBound
<1>2. Cardinality(Busy) < AckSlots
  BY <1>1, BoundNumbers
<1>3. /\ UNCHANGED dropped
      /\ Cardinality(Busy') <= Cardinality(Busy) + 1
      /\ Cardinality(Busy') \in Nat
  BY <1>2, QueueUsesOne DEF IInv
<1>4. Cardinality(Busy') <= MaxDepth - Depth + 1
  BY <1>1, <1>3, BoundNumbers
<1>5. Depth' = Depth
  BY DEF Depth
<1> QED
  BY <1>3, <1>4, <1>5 DEF BusyBound

\* The callback that returns leaves what the one it interrupted can stand,
\* wherever that one was.
LEMMA ReturnBounded ==
  ASSUME DispatchAssumption, IInv, IInv', StackOrdered, BusyBound, Return
  PROVE  BusyBound'
<1>1. Len(stack') = Len(stack) - 1
  BY StackPops
<1>2. Busy' = Busy
  BY DEF Busy, FreeSlots, Return
<1>3. Depth' = Depth - 1
  BY <1>1, BoundNumbers DEF Depth
<1>4. Cardinality(Busy) <= MaxDepth - Depth'
  <2>1. Cardinality(Busy) <= MaxDepth - Depth + 1
    BY DEF BusyBound, Return, At
  <2> QED
    BY <1>3, <2>1, BoundNumbers
<1>5. Depth' \in Nat /\ Depth' <= MaxDepth
  <2>1. Len(stack) >= 2
    BY StackPops
  <2> QED
    BY <1>3, <2>1, BoundNumbers
<1>6. /\ Cardinality({s \in Busy : s < top'.i}) \in Nat
      /\ Cardinality({s \in Busy : s < top'.i}) <= Cardinality(Busy)
  <2>1. {s \in Busy : s < top'.i} \in SUBSET Busy
    OBVIOUS
  <2> QED
    BY <2>1, BusyFinite
<1>7. Cardinality({s \in Busy' : s < top'.i}) <= MaxDepth - Depth'
  BY <1>2, <1>4, <1>5, <1>6, BoundNumbers
<1>8. /\ Cardinality(Busy') <= MaxDepth
      /\ Cardinality(Busy') <= MaxDepth + 1
      /\ Cardinality(Busy') <= MaxDepth - Depth'
      /\ Cardinality(Busy') <= MaxDepth - Depth' + 1
  BY <1>2, <1>4, <1>5, BoundNumbers
<1> QED
  BY <1>7, <1>8 DEF BusyBound

\* A restart empties the queue.
LEMMA RestartBounded ==
  ASSUME DispatchAssumption, Restart
  PROVE  BusyBound'
<1> DEFINE a == Activation("service", 0)
<1>1. stack' = <<a>>
  BY DEF Restart
<1>2. top' = a
  <2> HIDE DEF a
  <2> QED
    BY <1>1 DEF top
<1>3. Busy' = {}
  BY DEF Busy, FreeSlots, Restart
<1>4. Cardinality(Busy') <= MaxDepth
  BY <1>3, FS_EmptySet DEF DispatchAssumption
<1> QED
  BY <1>2, <1>4 DEF BusyBound, Activation

\* No step loses an ack to a full queue.
LEMMA StepBounded ==
  ASSUME DispatchAssumption, IInv, IInv', StackOrdered, MaxDepth < AckSlots,
         dropped = {}, BusyBound, [Next]_vars
  PROVE  dropped' = {} /\ BusyBound'
<1>1. StackOK /\ TypeOK /\ top \in ActivationType
  BY InvariantParts DEF IInv
<1>2. ASSUME NEW pc \in Pcs, NEW pump \in BOOLEAN, Becomes(Goto(pc, pump))
      PROVE  top'.pc = pc /\ top'.i = 1 /\ Len(stack') = Len(stack)
  <2>1. /\ Goto(pc, pump) \in ActivationType /\ Goto(pc, pump).d = top.d
        /\ Goto(pc, pump).pc = pc /\ Goto(pc, pump).i = 1
    BY <1>1, GotoType DEF Goto, ActivationType
  <2> QED
    BY <1>1, <1>2, <2>1, StackMoves
<1>3. ASSUME NEW d, NEW status, NEW pc \in Pcs,
             PublishAck(d, status, Goto(pc, FALSE))
      PROVE  top'.pc = pc /\ top'.i = 1 /\ Len(stack') = Len(stack)
  <2>1. /\ Goto(pc, FALSE) \in ActivationType /\ Goto(pc, FALSE).d = top.d
        /\ Goto(pc, FALSE).pc = pc /\ Goto(pc, FALSE).i = 1
    BY <1>1, GotoType DEF Goto, ActivationType
  <2> QED
    BY <1>1, <1>3, <2>1, PublishMoves
<1>4. CASE NoMessage
  <2>1. /\ [top EXCEPT !.pump = FALSE] \in ActivationType
        /\ [top EXCEPT !.pump = FALSE].d = top.d
        /\ [top EXCEPT !.pump = FALSE].pc = top.pc
        /\ [top EXCEPT !.pump = FALSE].i = top.i
        /\ ~[top EXCEPT !.pump = FALSE].pump
    BY <1>1 DEF ActivationType
  <2>2. top' = [top EXCEPT !.pump = FALSE] /\ Len(stack') = Len(stack)
    BY <1>1, <1>4, <2>1, StackMoves DEF NoMessage
  <2>3. top.i \in Nat /\ top.i >= top.i
    BY BoundNumbers
  <2> QED
    BY <1>4, <2>1, <2>2, <2>3, QueueStays DEF NoMessage, history
<1>5. CASE DrainAck
  BY <1>5, DrainAckBounded DEF DrainAck
<1>6. CASE DrainDone
  BY <1>6, DrainDoneBounded DEF DrainDone, history
<1>7. CASE IgnoreNameless
  BY <1>2, <1>7, GoesOnBounded DEF IgnoreNameless, history, At, Pcs
<1>8. CASE AnswerFromCache
  BY <1>3, <1>8, GoesOnBounded DEF AnswerFromCache, At, Pcs
<1>9. ASSUME NEW status \in Outcomes, RunFunction(status)
      PROVE  dropped' = {} /\ BusyBound'
  BY <1>3, <1>9, GoesOnBounded DEF RunFunction, At, Pcs
<1>10. ASSUME NEW status \in Outcomes, EndFlash(status)
       PROVE  dropped' = {} /\ BusyBound'
  BY <1>3, <1>10, GoesOnBounded DEF EndFlash, At, Pcs
<1>11. CASE ForwardFails
  BY <1>2, <1>11, QueuesBounded DEF ForwardFails, At, Pcs
<1>12. CASE Forward
  <2>1. top'.pc = "return" /\ Len(stack') = Len(stack)
    BY <1>2, <1>3, <1>12 DEF Forward, ExchangeStatus, Pcs
  <2> QED
    BY <1>12, <2>1, QueuesBounded DEF Forward, At
<1>13. CASE RejectFlash
  BY <1>3, <1>13, GoesOnBounded DEF RejectFlash, At, Pcs
<1>14. CASE StartFlash
  BY <1>3, <1>14, GoesOnBounded DEF StartFlash, At, Pcs
<1>15. CASE Download
  BY <1>2, <1>15, GoesOnBounded DEF Download, history, At, Pcs
<1>16. CASE Progress
  <2>1. /\ [top EXCEPT !.i = 2] \in ActivationType
        /\ [top EXCEPT !.i = 2].d = top.d
        /\ [top EXCEPT !.i = 2].pc = top.pc
    BY <1>1, SecondType
  <2>2. top'.pc = top.pc /\ Len(stack') = Len(stack)
    BY <1>1, <1>16, <2>1, PublishMoves DEF Progress
  <2> QED
    BY <1>16, <2>2, GoesOnBounded DEF Progress, At
<1>17. CASE Restart
  BY <1>17, RestartBounded DEF Restart
<1>18. CASE Return
  BY <1>18, ReturnBounded DEF Return, history
<1>19. CASE Service
  BY <1>2, <1>19, GoesOnBounded DEF Service, history, At, Pcs
<1>20. CASE PollStatus \/ PollAgain
  <2> DEFINE a == [top EXCEPT !.i = top.i + 1]
  <2>1. top.i + 1 \in 1..(AckSlots + DrainLimit + 1)
    BY <1>1, <1>20
    DEF ActivationType, PollStatus, PollAgain, DispatchAssumption
  <2>2. /\ a \in ActivationType
        /\ a.d = top.d /\ a.pc = top.pc /\ a.i = top.i + 1
    BY <1>1, <2>1 DEF ActivationType
  <2>3. Becomes(a) \/ \E d, status : PublishAck(d, status, a)
    BY <1>20 DEF PollStatus, PollAgain, ExchangeStatus
  <2> HIDE DEF a
  <2>4. /\ top'.pc = top.pc /\ top'.d = top.d /\ top'.i = top.i + 1
        /\ Len(stack') = Len(stack)
    BY <1>1, <2>2, <2>3, PublishMoves, StackMoves
  <2>5. top'.i \in Nat /\ top'.i >= top.i
    BY <2>4, BoundNumbers
  <2>6. top.pc = "link" /\ UNCHANGED <<acks, dropped>>
    BY <1>20 DEF PollStatus, PollAgain, At, history
  <2> QED
    BY <2>4, <2>5, <2>6, QueueStays
<1>21. CASE LinkDone
  BY <1>2, <1>21, GoesOnBounded DEF LinkDone, history, At, Pcs
<1>22. ASSUME NEW id \in Ids, NEW name \in Names, Deliver(id, name)
       PROVE  dropped' = {} /\ BusyBound'
  BY <1>22, DeliverBounded
<1>23. CASE \/ \E d \in mcuBusy, status \in Outcomes : McuFinishes(d, status)
            \/ UNCHANGED vars
  <2>1. UNCHANGED <<stack, acks, dropped>>
    BY <1>23 DEF McuFinishes, vars, history
  <2>2. top' = top
    BY <2>1 DEF top
  <2>3. top.i \in Nat /\ top.i >= top.i
    BY BoundNumbers
  <2> QED
    BY <2>1, <2>2, <2>3, QueueStays
<1> QED
  BY <1>4, <1>5, <1>6, <1>7, <1>8, <1>9, <1>10, <1>11, <1>12, <1>13, <1>14,
     <1>15, <1>16, <1>17, <1>18, <1>19, <1>20, <1>21, <1>22, <1>23
  DEF Next, DeviceStep

-----------------------------------------------------------------------------
(* What is queued, being handled, or with the secondary MCU *)

\* Among the acks t is the status s, or a final one.
Heard(t, s) == \E n \in 1..Len(t) : t[n] = s

IsFinal(t) == Heard(t, "succeeded") \/ Heard(t, "failed")

AtMcu == mcuBusy \cup {mcuOut[j].d : j \in 1..Len(mcuOut)}

\* Acks are queued and sent only for deliveries that were made.
Known ==
  /\ \A s \in Slots : acks[s] # None => acks[s].d \in 1..Len(req)
  /\ AtMcu \subseteq 1..Len(req)
  /\ \A d \in Deliveries : told[d] # <<>> \/ before[d] # {} => d \in 1..Len(req)

\* The secondary MCU has a command once.
McuDistinct ==
  /\ \A j, k \in 1..Len(mcuOut) : mcuOut[j].d = mcuOut[k].d => j = k
  /\ \A j \in 1..Len(mcuOut) : mcuOut[j].d \notin mcuBusy

\* This run of the bridge has told no outcome of a command that the secondary
\* MCU has, but of one whose status it has handled and not acknowledged yet;
\* an earlier run can have told it only what the MCU still sends.
McuOpen ==
  /\ \A d \in AtMcu : req[d].name \in Unregistered
  /\ \A d \in mcuBusy, o \in Outcomes : ~Heard(told[d], o) /\ o \notin before[d]
  /\ \A k \in 1..Len(mcuOut), o \in Outcomes :
       /\ Heard(told[mcuOut[k].d], o) => k = 1 /\ heard /\ o = mcuOut[k].status
       /\ o \in before[mcuOut[k].d] => o = mcuOut[k].status

\* What an earlier run of the bridge has told something of is in no callback
\* and not in the queue: only the secondary MCU can still have it.
Earlier ==
  \A d \in Deliveries : before[d] # {} =>
    /\ \A x \in Acts : x.d # d
    /\ \A s \in Slots : acks[s] # None => acks[s].d # d

\* One ack per delivery is queued: accepted while nothing has been sent and the
\* callback has still to drain the slot, running for a forwarded command,
\* failed while there is no outcome and none will come.
QueuedOnce ==
  \A r, s \in Slots :
    acks[r] # None /\ acks[s] # None /\ acks[r].d = acks[s].d => r = s

QueuedOpen ==
  \A s \in Slots : acks[s] # None =>
    /\ acks[s].status = "accepted" =>
         /\ told[acks[s].d] = <<>>
         /\ \E x \in Acts : x.d = acks[s].d /\ x.pc = "drain" /\ x.i <= s
    /\ acks[s].status = "running" =>
         /\ req[acks[s].d].name \in Unregistered
         /\ IsFinal(told[acks[s].d]) => acks[s].d \in amid
    /\ acks[s].status # "succeeded"
    /\ acks[s].status = "failed" =>
         ~IsFinal(told[acks[s].d]) /\ acks[s].d \notin AtMcu

\* A callback that has not answered has its command to itself.
Handling ==
  \A x \in Acts :
    x.d # 0 /\ x.pc \in {"drain", "dispatch", "flash", "flashing"} =>
      /\ ~IsFinal(told[x.d])
      /\ x.d \notin AtMcu
      /\ \A s \in Slots :
           acks[s] # None /\ acks[s].d = x.d => acks[s].status = "accepted"
      /\ x.pc \in {"flash", "flashing"} => req[x.d].name = Flash

\* A command to forward that did not arrive in the middle of other work
\* interrupts nothing but the main loop before it drains.
Direct ==
  \A x, y \in Acts :
    /\ x.d # 0 /\ x.d \notin amid /\ req[x.d].name \in Unregistered
    /\ y.d < x.d
    => y.d = 0 /\ y.pc = "drain" /\ y.i = 1

\* Its running is queued only while every activation has still to drain the
\* slot, or is the callback that queued it: no exchange comes before.
RunningFirst ==
  \A s \in Slots :
    acks[s] # None /\ acks[s].status = "running" /\ acks[s].d \notin amid
    => \A x \in Acts : \/ x.pc = "drain" /\ x.i <= s
                       \/ x.pc = "return" /\ x.d = acks[s].d

\* ToldWhatRan, of the activations as a set.
ToldRan ==
  \A x \in Acts :
    /\ x.d # 0
    /\ req[x.d].name \in Functions
    /\ Heard(told[x.d], "succeeded")
    => Entry(req[x.d].id, req[x.d].name, "succeeded") \in {ran[j] : j \in 1..Len(ran)}

\* The third inductive invariant, about what the acks say.
AcksInv ==
  /\ StackOrdered /\ Known /\ McuDistinct /\ McuOpen /\ Earlier
  /\ QueuedOnce /\ QueuedOpen /\ Handling /\ Direct /\ RunningFirst
  /\ ToldRan /\ AcksInOrder

\* One more ack is one more status heard.
LEMMA AppendHeard ==
  ASSUME NEW t \in Seq(Statuses), NEW status \in Statuses
  PROVE  /\ Append(t, status) # <<>>
         /\ \A s : Heard(Append(t, status), s) <=> Heard(t, s) \/ s = status
<1>1. /\ Append(t, status) \in Seq(Statuses)
      /\ Len(Append(t, status)) = Len(t) + 1
      /\ Append(t, status)[Len(t) + 1] = status
      /\ \A k \in 1..Len(t) : Append(t, status)[k] = t[k]
  BY AppendProperties
<1>2. Len(t) \in Nat
  OBVIOUS
<1>3. 1..(Len(t) + 1) = (1..Len(t)) \cup {Len(t) + 1}
  BY <1>2
<1>4. Append(t, status) # <<>>
  BY <1>1, <1>2
<1> QED
  BY <1>1, <1>3, <1>4 DEF Heard

\* The acks t about delivery d are in order, given A as those that arrived in
\* the middle of other work.
InOrder(t, d, A) ==
  \A m, n \in 1..Len(t) :
    m < n => /\ t[n] # "accepted"
             /\ t[m] \in Outcomes => t[n] = "running" /\ d \in A

\* The acks t about command name say nothing new to who was told earlier.
Repeats(t, earlier, name) ==
  \A n \in 1..Len(t) :
    earlier # {} => /\ t[n] \in Outcomes
                    /\ name \in Unregistered
                    /\ earlier \cap Outcomes \subseteq {t[n]}

\* One more ack is in order when it is the first one, or not accepted and after
\* no outcome but for a forwarding's running.
LEMMA AppendInOrder ==
  ASSUME NEW t \in Seq(Statuses), NEW status \in Statuses, NEW d, NEW A,
         InOrder(t, d, A),
         t = <<>> \/ status # "accepted",
         IsFinal(t) => status = "running" /\ d \in A
  PROVE  InOrder(Append(t, status), d, A)
<1> DEFINE u == Append(t, status)
<1>1. /\ Len(u) = Len(t) + 1
      /\ u[Len(t) + 1] = status
      /\ \A k \in 1..Len(t) : u[k] = t[k]
  BY AppendProperties
<1>2. Len(t) \in Nat
  OBVIOUS
<1> HIDE DEF u
<1>3. ASSUME NEW m \in 1..Len(u), NEW n \in 1..Len(u), m < n
      PROVE  /\ u[n] # "accepted"
             /\ u[m] \in Outcomes => u[n] = "running" /\ d \in A
  <2>1. m \in 1..Len(t) /\ u[m] = t[m]
    BY <1>1, <1>2, <1>3
  <2>2. CASE n \in 1..Len(t)
    BY <1>1, <1>3, <2>1, <2>2 DEF InOrder
  <2>3. CASE n = Len(t) + 1
    <3>1. t # <<>>
      BY <2>1
    <3>2. t[m] \in Outcomes => IsFinal(t)
      BY <2>1 DEF IsFinal, Heard, Outcomes
    <3> QED
      BY <1>1, <2>1, <2>3, <3>1, <3>2
  <2> QED
    BY <1>1, <1>2, <2>2, <2>3
<1> QED
  BY <1>3 DEF InOrder, u

\* One more ack says nothing new when it is the outcome told earlier.
LEMMA AppendRepeats ==
  ASSUME NEW t \in Seq(Statuses), NEW status \in Statuses, NEW earlier,
         NEW name, Repeats(t, earlier, name),
         earlier # {} => /\ status \in Outcomes
                         /\ name \in Unregistered
                         /\ earlier \cap Outcomes \subseteq {status}
  PROVE  Repeats(Append(t, status), earlier, name)
<1> DEFINE u == Append(t, status)
<1>1. /\ Len(u) = Len(t) + 1
      /\ u[Len(t) + 1] = status
      /\ \A k \in 1..Len(t) : u[k] = t[k]
  BY AppendProperties
<1>2. Len(t) \in Nat
  OBVIOUS
<1> HIDE DEF u
<1>3. ASSUME NEW n \in 1..Len(u)
      PROVE  (n \in 1..Len(t) /\ u[n] = t[n]) \/ u[n] = status
  BY <1>1, <1>2, <1>3
<1> QED
  BY <1>3 DEF Repeats, u

\* The types the steps below need, one by one.
LEMMA Typed ==
  ASSUME IInv, AcksInv, DispatchAssumption
  PROVE  /\ StackOK /\ TypeOK
         /\ Len(req) \in Nat /\ 1..Len(req) \subseteq Deliveries
         /\ \A s \in Slots : acks[s] # None =>
              /\ acks[s].d \in Deliveries /\ acks[s].d # 0
              /\ acks[s].status \in Statuses
         /\ \A d \in Deliveries : told[d] \in Seq(Statuses)
         /\ \A x \in Acts : x.d \in 0..Len(req) /\ x.pc \in Pcs
         /\ Acts = {top} \cup Below
         /\ \A x \in Below : x.d # top.d /\ x.d < top.d
         /\ top \in ActivationType /\ top.pc \in PcsOf(top.d)
<1>1. StackOK /\ DataOK /\ TypeOK /\ top \in ActivationType /\ top.pc \in PcsOf(top.d)
  BY InvariantParts DEF IInv
<1>2. Len(req) \in Nat /\ Len(req) <= MaxDeliveries /\ MaxDeliveries \in Nat
  BY <1>1 DEF DataOK, DispatchAssumption
<1>3. 1..Len(req) \subseteq Deliveries
  BY <1>2 DEF Deliveries
<1>4. ASSUME NEW s \in Slots, acks[s] # None
      PROVE  /\ acks[s].d \in Deliveries /\ acks[s].d # 0
             /\ acks[s].status \in Statuses
  BY <1>1, <1>4 DEF DataOK, Ack, Deliveries
<1>5. \A d \in Deliveries : told[d] \in Seq(Statuses)
  BY <1>1 DEF DataOK
<1>6. /\ Acts = {top} \cup Below
      /\ \A x \in Below : x \in ActivationType /\ x.d # top.d /\ x.d < top.d
  BY <1>1, StackNow DEF AcksInv
<1>7. ASSUME NEW x \in Acts
      PROVE  x.d \in 0..Len(req) /\ x.pc \in Pcs
  BY <1>1, <1>6 DEF ActivationType
<1> QED
  BY <1>1, <1>2, <1>3, <1>4, <1>5, <1>6, <1>7

\* What a published ack does to what the host has heard.
LEMMA PublishHeard ==
  ASSUME IInv, AcksInv, DispatchAssumption, NEW d \in Deliveries,
         NEW status \in Statuses, NEW a, PublishAck(d, status, a)
  PROVE  /\ \A e \in Deliveries : e # d => told'[e] = told[e]
         /\ told'[d] \in {told[d], Append(told[d], status)}
         /\ \A e \in Deliveries : \A s :
              Heard(told'[e], s) => Heard(told[e], s) \/ (e = d /\ s = status)
<1>1. told \in [Deliveries -> Seq(Statuses)]
  BY InvariantParts DEF DataOK
<1>2. /\ \A e \in Deliveries : e # d => told'[e] = told[e]
      /\ told'[d] \in {told[d], Append(told[d], status)}
  BY <1>1 DEF PublishAck
<1>3. \A s : Heard(Append(told[d], status), s) => Heard(told[d], s) \/ s = status
  BY <1>1, AppendHeard
<1> QED
  BY <1>2, <1>3

\* AcksInOrder speaks of each delivery by itself.
LEMMA OrderOfEach ==
  AcksInOrder <=>
    \A d \in Deliveries : /\ InOrder(told[d], d, amid)
                          /\ Repeats(told[d], before[d], req[d].name)
BY DEF AcksInOrder, InOrder, Repeats

\* An ack published when its turn has come keeps the order.
LEMMA PublishInOrder ==
  ASSUME IInv, AcksInv, DispatchAssumption, NEW d \in Deliveries,
         NEW status \in Statuses, NEW a, PublishAck(d, status, a),
         UNCHANGED <<req, amid, before>>,
         told[d] = <<>> \/ status # "accepted",
         IsFinal(told[d]) => status = "running" /\ d \in amid,
         before[d] # {} => /\ status \in Outcomes
                           /\ req[d].name \in Unregistered
                           /\ before[d] \cap Outcomes \subseteq {status}
  PROVE  AcksInOrder'
<1>1. \A e \in Deliveries : /\ told[e] \in Seq(Statuses)
                            /\ InOrder(told[e], e, amid)
                            /\ Repeats(told[e], before[e], req[e].name)
  BY Typed, OrderOfEach DEF AcksInv
<1>2. InOrder(Append(told[d], status), d, amid)
  BY <1>1, AppendInOrder
<1>3. Repeats(Append(told[d], status), before[d], req[d].name)
  BY <1>1, AppendRepeats
<1>4. ASSUME NEW e \in Deliveries
      PROVE  /\ InOrder(told'[e], e, amid)
             /\ Repeats(told'[e], before[e], req[e].name)
  BY <1>1, <1>2, <1>3, PublishHeard
<1> QED
  BY <1>4 DEF AcksInOrder, InOrder, Repeats

\* A step that tells and forgets nothing keeps the order.
LEMMA OrderStays ==
  ASSUME AcksInv, UNCHANGED <<told, before, amid, req>>
  PROVE  AcksInOrder'
BY DEF AcksInv, AcksInOrder

\* A step that moves the running activation keeps the others as it found them.
LEMMA DirectKept ==
  ASSUME IInv, AcksInv, DispatchAssumption, UNCHANGED <<req, amid>>,
         top'.d = top.d, Acts' = {top'} \cup Below
  PROVE  Direct'
<1>1. SUFFICES ASSUME NEW x \in Acts', NEW y \in Acts',
                      x.d # 0, x.d \notin amid, req[x.d].name \in Unregistered,
                      y.d < x.d
               PROVE  y.d = 0 /\ y.pc = "drain" /\ y.i = 1
  BY DEF Direct
<1>2. PICK z \in Acts : z.d = x.d
  BY <1>1, Typed
<1>3. y \in Below
  <2>1. CASE y = top'
    <3>1. ~(top.d < z.d)
      BY <1>1, <1>2, Typed
    <3> QED
      BY <1>1, <1>2, <2>1, <3>1
  <2> QED
    BY <1>1, <2>1
<1> QED
  BY <1>1, <1>2, <1>3, Typed DEF AcksInv, Direct

\* The queue and the activations are about no other deliveries than before.
LEMMA EarlierKept ==
  ASSUME IInv, AcksInv, UNCHANGED before,
         \A x \in Acts' : \E y \in Acts : y.d = x.d,
         \A s \in Slots : acks'[s] # None =>
           \/ acks[s] # None /\ acks'[s].d = acks[s].d
           \/ \E y \in Acts : y.d = acks'[s].d
  PROVE  Earlier'
BY DEF AcksInv, Earlier

\* What the secondary MCU has stays so when nothing more is told of it.
LEMMA McuStays ==
  ASSUME AcksInv, UNCHANGED <<mcuBusy, mcuOut, heard, before>>,
         \A d \in AtMcu : req'[d] = req[d],
         \A d \in AtMcu, o \in Outcomes : Heard(told'[d], o) => Heard(told[d], o)
  PROVE  AtMcu' = AtMcu /\ McuDistinct' /\ McuOpen'
<1>1. AtMcu' = AtMcu
  BY DEF AtMcu
<1>2. McuDistinct'
  BY DEF AcksInv, McuDistinct
<1>3. /\ \A d \in mcuBusy : d \in AtMcu
      /\ \A k \in 1..Len(mcuOut) : mcuOut[k].d \in AtMcu
  BY DEF AtMcu
<1> QED
  BY <1>1, <1>2, <1>3 DEF AcksInv, McuOpen

\* Where an exchange can come, no running of a command that arrived by itself
\* is queued.
LEMMA RunningDrained ==
  ASSUME IInv, AcksInv, DispatchAssumption, top.pc \notin {"drain", "return"}
  PROVE  \A s \in Slots :
           acks[s] # None /\ acks[s].status = "running" => acks[s].d \in amid
<1>1. top \in Acts
  BY Typed
<1> QED
  BY <1>1 DEF AcksInv, RunningFirst

\* A callback that dispatches its command has nothing queued.
LEMMA NothingQueued ==
  ASSUME IInv, AcksInv, DispatchAssumption, top.d # 0,
         top.pc \in {"dispatch", "flash", "flashing"}
  PROVE  \A s \in Slots : acks[s] # None => acks[s].d # top.d
<1>1. SUFFICES ASSUME NEW s \in Slots, acks[s] # None, acks[s].d = top.d
               PROVE  FALSE
  OBVIOUS
<1>2. top \in Acts
  BY Typed
<1>3. acks[s].status = "accepted"
  BY <1>1, <1>2 DEF AcksInv, Handling
<1>4. PICK x \in Acts : x.d = top.d /\ x.pc = "drain"
  BY <1>1, <1>3 DEF AcksInv, QueuedOpen
<1>5. x = top
  BY <1>4, Typed
<1> QED
  BY <1>4, <1>5

\* A callback answers its own command and goes on, or returns.
LEMMA AnswersKept ==
  ASSUME IInv, IInv', AcksInv, DispatchAssumption,
         top.d # 0, top.pc \in {"dispatch", "flash", "flashing"},
         NEW status \in Statuses \ {"accepted"}, NEW a \in ActivationType,
         a.d = top.d, PublishAck(top.d, status, a),
         UNCHANGED <<acks, mcuBusy, mcuOut, heard, req, amid, before>>,
         \/ a.pc \in {"restart", "return"}
         \/ /\ a.pc \in {"flash", "flashing"}
            /\ status = "running"
            /\ req[top.d].name = Flash,
         {ran[j] : j \in 1..Len(ran)} \subseteq {ran'[j] : j \in 1..Len(ran')},
         status = "succeeded" /\ req[top.d].name \in Functions =>
           Entry(req[top.d].id, req[top.d].name, "succeeded")
             \in {ran'[j] : j \in 1..Len(ran')}
  PROVE  AcksInv'
<1> DEFINE d == top.d
<1>1. d \in 1..Len(req) /\ d \in Deliveries /\ top \in Acts
  BY Typed, CallbackDelivery DEF IInv
<1>2. /\ top'.pc = a.pc /\ top'.d = d
      /\ Acts' = {top'} \cup Below
      /\ StackOrdered'
  BY Typed, PublishMoves DEF AcksInv
<1>3. /\ \A e \in Deliveries : e # d => told'[e] = told[e]
      /\ \A e \in Deliveries : \A s :
           Heard(told'[e], s) => Heard(told[e], s) \/ (e = d /\ s = status)
  BY <1>1, PublishHeard
<1>4. /\ ~IsFinal(told[d])
      /\ d \notin AtMcu
      /\ \A s \in Slots : acks[s] # None => acks[s].d # d
  BY <1>1, NothingQueued DEF AcksInv, Handling
<1>5. AtMcu' = AtMcu /\ McuDistinct' /\ McuOpen'
  <2>1. AtMcu \subseteq Deliveries
    BY Typed DEF AcksInv, Known
  <2> QED
    BY <1>3, <1>4, <2>1, McuStays
<1>6. Known'
  BY <1>1, <1>3, <1>5 DEF AcksInv, Known
<1>7. before[d] = {} /\ Earlier'
  <2>1. before[d] = {}
    BY <1>1 DEF AcksInv, Earlier
  <2>2. \A x \in Acts' : \E y \in Acts : y.d = x.d
    BY <1>1, <1>2, Typed
  <2> QED
    BY <2>1, <2>2, EarlierKept
<1>8. Direct' /\ RunningFirst'
  <2>1. Direct'
    BY <1>2, DirectKept
  <2>2. RunningFirst'
    BY RunningDrained DEF RunningFirst
  <2> QED
    BY <2>1, <2>2
<1>9. QueuedOnce'
  BY DEF AcksInv, QueuedOnce
<1>10. QueuedOpen'
  <2>1. ASSUME NEW s \in Slots, acks[s] # None
        PROVE  /\ acks[s].d # d /\ acks[s].d \in Deliveries
               /\ told'[acks[s].d] = told[acks[s].d]
    BY <1>3, <1>4, <2>1, Typed
  <2>2. ASSUME NEW s \in Slots, acks[s] # None,
               NEW x \in Acts, x.d = acks[s].d
        PROVE  x \in Acts'
    BY <1>2, <1>4, <2>2, Typed
  <2> QED
    BY <1>5, <2>1, <2>2 DEF AcksInv, QueuedOpen
<1>11. Handling'
  <2>1. ASSUME NEW x \in Acts', x.d # 0,
               x.pc \in {"drain", "dispatch", "flash", "flashing"}
        PROVE  /\ ~IsFinal(told'[x.d])
               /\ x.d \notin AtMcu
               /\ \A s \in Slots :
                    acks[s] # None /\ acks[s].d = x.d => acks[s].status = "accepted"
               /\ x.pc \in {"flash", "flashing"} => req[x.d].name = Flash
    <3>1. CASE x = top'
      BY <1>1, <1>2, <1>3, <1>4, <2>1, <3>1 DEF IsFinal
    <3>2. CASE x \in Below
      <4>1. x \in Acts /\ x.d # d /\ x.d \in Deliveries
        BY <2>1, <3>2, Typed
      <4> QED
        BY <1>3, <2>1, <4>1 DEF AcksInv, Handling, IsFinal
    <3> QED
      BY <1>2, <2>1, <3>1, <3>2
  <2> QED
    BY <1>5, <2>1 DEF Handling
<1>12. ToldRan'
  <2>1. ASSUME NEW x \in Acts', x.d # 0, req[x.d].name \in Functions,
               Heard(told'[x.d], "succeeded")
        PROVE  Entry(req[x.d].id, req[x.d].name, "succeeded")
                 \in {ran'[j] : j \in 1..Len(ran')}
    <3>1. CASE x = top'
      BY <1>1, <1>2, <1>3, <1>4, <2>1, <3>1 DEF IsFinal
    <3>2. CASE x \in Below
      <4>1. x \in Acts /\ x.d # d /\ x.d \in Deliveries
        BY <2>1, <3>2, Typed
      <4> QED
        BY <1>3, <2>1, <4>1 DEF AcksInv, ToldRan
    <3> QED
      BY <1>2, <2>1, <3>1, <3>2
  <2> QED
    BY <2>1 DEF ToldRan
<1>13. AcksInOrder'
  BY <1>1, <1>4, <1>7, PublishInOrder
<1> QED
  BY <1>2, <1>5, <1>6, <1>7, <1>8, <1>9, <1>10, <1>11, <1>12, <1>13 DEF AcksInv

\* The running activation goes on, and nothing is queued, sent or run.
LEMMA GoesOnKept ==
  ASSUME IInv, IInv', AcksInv, DispatchAssumption, NEW a \in ActivationType,
         a.d = top.d, Becomes(a),
         UNCHANGED <<acks, mcuBusy, mcuOut, heard, req, amid, told, before>>,
         UNCHANGED ran,
         \/ a.pc \in {"service", "link", "restart", "return"}
            /\ top.pc \notin {"drain", "return"}
         \/ a.pc = top.pc /\ a.i = top.i
         \/ top.pc = "service"
         \/ top.pc = "drain" /\ a.pc \in {"dispatch", "link"}
            /\ \A s \in top.i..AckSlots : acks[s] = None
         \/ top.pc = "flash" /\ a.pc = "flashing"
  PROVE  AcksInv'
<1>1. top' = a /\ Acts' = {a} \cup Below /\ StackOrdered'
  BY Typed, StackMoves DEF AcksInv
<1>2. AtMcu' = AtMcu /\ McuDistinct' /\ McuOpen' /\ top \in Acts
  BY McuStays, Typed
<1>3. Known' /\ QueuedOnce' /\ AcksInOrder'
  BY <1>2, OrderStays DEF AcksInv, Known, QueuedOnce
<1>4. QueuedOpen'
  <2>1. ASSUME NEW s \in Slots, acks[s] # None, acks[s].status = "accepted"
        PROVE  \E x \in Acts' : x.d = acks[s].d /\ x.pc = "drain" /\ x.i <= s
    <3>1. PICK x \in Acts : x.d = acks[s].d /\ x.pc = "drain" /\ x.i <= s
      BY <2>1 DEF AcksInv, QueuedOpen
    <3>2. CASE x = top
      <4>1. s \notin top.i..AckSlots => FALSE
        BY <3>1, <3>2, Typed DEF Slots, ActivationType, DispatchAssumption
      <4>2. a.pc = top.pc /\ a.i = top.i
        BY <2>1, <3>1, <3>2, <4>1, Typed
      <4> QED
        BY <1>1, <3>1, <3>2, <4>2
    <3>3. CASE x \in Below
      BY <1>1, <3>1, <3>3
    <3> QED
      BY <3>2, <3>3, Typed
  <2> QED
    BY <1>2, <2>1 DEF AcksInv, QueuedOpen
<1>5. Handling'
  <2>1. a.d # 0 /\ a.pc \in {"drain", "dispatch", "flash", "flashing"} =>
          /\ top.pc \in {"drain", "dispatch", "flash", "flashing"}
          /\ a.pc \in {"flash", "flashing"} => top.pc \in {"flash", "flashing"}
    BY Typed DEF PcsOf
  <2> QED
    BY <1>1, <1>2, <2>1, Typed DEF AcksInv, Handling
<1>6. ToldRan'
  BY <1>1, <1>2, Typed DEF AcksInv, ToldRan
<1>7. Earlier' /\ Direct'
  <2>1. \A x \in Acts' : \E y \in Acts : y.d = x.d
    BY <1>1, Typed
  <2> QED
    BY <1>1, <2>1, EarlierKept, DirectKept
<1>8. RunningFirst'
  <2>1. ASSUME NEW s \in Slots, acks[s] # None, acks[s].status = "running",
               acks[s].d \notin amid, NEW x \in Acts'
        PROVE  \/ x.pc = "drain" /\ x.i <= s
               \/ x.pc = "return" /\ x.d = acks[s].d
    <3>1. \A y \in Acts : \/ y.pc = "drain" /\ y.i <= s
                          \/ y.pc = "return" /\ y.d = acks[s].d
      BY <2>1 DEF AcksInv, RunningFirst
    <3>2. top.pc \in {"drain", "return"}
      BY <1>2, <3>1
    <3>3. s \notin top.i..AckSlots => ~(top.i <= s)
      BY Typed DEF Slots, ActivationType, DispatchAssumption
    <3>4. a.pc = top.pc /\ a.i = top.i
      BY <1>2, <2>1, <3>1, <3>2, <3>3
    <3>5. CASE x = a
      BY <1>2, <3>1, <3>4, <3>5
    <3>6. CASE x \in Below
      BY <3>1, <3>6, Typed
    <3> QED
      BY <1>1, <2>1, <3>5, <3>6
  <2> QED
    BY <2>1 DEF RunningFirst
<1> QED
  BY <1>1, <1>2, <1>3, <1>4, <1>5, <1>6, <1>7, <1>8 DEF AcksInv

\* The drain publishes the ack in the next slot that holds one, whichever
\* command it is about.
LEMMA DrainAckKept ==
  ASSUME IInv, IInv', AcksInv, DispatchAssumption, DrainAck
  PROVE  AcksInv'
<1>1. PICK s \in top.i..AckSlots :
        /\ acks[s] # None
        /\ \A r \in top.i..(s - 1) : acks[r] = None
        /\ acks' = [acks EXCEPT ![s] = None]
        /\ PublishAck(acks[s].d, acks[s].status, [top EXCEPT !.i = s + 1])
  BY DEF DrainAck
<1> DEFINE d == acks[s].d
           status == acks[s].status
           a == [top EXCEPT !.i = s + 1]
<1>2. s \in Slots /\ s + 1 \in 1..(AckSlots + DrainLimit + 1) /\ s \in Nat
  BY <1>1, Typed, SMTT(30) DEF ActivationType, Slots, DispatchAssumption
<1>3. d \in Deliveries /\ d # 0 /\ status \in Statuses /\ d \in 1..Len(req)
  BY <1>1, <1>2, Typed DEF AcksInv, Known
<1>4. /\ a \in ActivationType /\ a.d = top.d /\ a.pc = "drain" /\ a.i = s + 1
      /\ top.pc = "drain" /\ top \in Acts
  BY <1>2, Typed DEF ActivationType, DrainAck, At
<1>5. /\ PublishAck(d, status, a) /\ UNCHANGED <<mcuBusy, mcuOut, heard>>
      /\ UNCHANGED <<req, amid, before, ran>>
  BY <1>1 DEF DrainAck
<1>6. /\ \A r \in Slots : acks'[r] = IF r = s THEN None ELSE acks[r]
      /\ acks'[s] = None
  BY <1>1, <1>2, Typed DEF TypeOK
<1>7. \A r \in Slots : r # s /\ acks[r] # None => acks[r].d # d
  BY <1>1, <1>2 DEF AcksInv, QueuedOnce
<1>8. /\ status = "accepted" => told[d] = <<>>
      /\ status = "running" =>
           /\ req[d].name \in Unregistered
           /\ IsFinal(told[d]) => d \in amid
      /\ status # "succeeded"
      /\ status = "failed" => ~IsFinal(told[d]) /\ d \notin AtMcu
  BY <1>1, <1>2 DEF AcksInv, QueuedOpen
<1>9. /\ IsFinal(told[d]) => status = "running" /\ d \in amid
      /\ before[d] = {}
  <2>1. ~IsFinal(<<>>)
    BY DEF IsFinal, Heard
  <2>2. before[d] = {}
    BY <1>1, <1>2, <1>3 DEF AcksInv, Earlier
  <2> QED
    BY <1>3, <1>8, <2>1, <2>2 DEF Statuses, Outcomes
<1> HIDE DEF d, status, a
<1>10. AcksInOrder'
  BY <1>3, <1>5, <1>8, <1>9, PublishInOrder
<1>11. /\ \A e \in Deliveries : e # d => told'[e] = told[e]
       /\ \A e \in Deliveries : \A h :
            Heard(told'[e], h) => Heard(told[e], h) \/ (e = d /\ h = status)
  BY <1>3, <1>5, PublishHeard
<1>12. /\ top'.pc = "drain" /\ top'.d = top.d /\ top'.i = s + 1
       /\ Acts' = {top'} \cup Below
       /\ StackOrdered'
  BY <1>4, <1>5, Typed, PublishMoves DEF AcksInv
<1>13. AtMcu' = AtMcu /\ McuDistinct' /\ McuOpen'
  <2>1. AtMcu \subseteq Deliveries
    BY Typed DEF AcksInv, Known
  <2>2. \A e \in AtMcu, o \in Outcomes : Heard(told'[e], o) => Heard(told[e], o)
    BY <1>3, <1>8, <1>11, <2>1 DEF Outcomes
  <2> QED
    BY <1>5, <2>2, McuStays
<1>14. Known'
  BY <1>3, <1>5, <1>6, <1>11, <1>13 DEF AcksInv, Known
<1>15. QueuedOnce'
  BY <1>6 DEF AcksInv, QueuedOnce
<1>16. Direct'
  BY <1>5, <1>12, DirectKept
<1>17. QueuedOpen'
  <2>1. ASSUME NEW r \in Slots, acks'[r] # None
        PROVE  /\ r # s /\ acks'[r] = acks[r] /\ acks[r] # None
               /\ told'[acks[r].d] = told[acks[r].d]
    BY <1>6, <1>7, <1>11, <2>1, Typed
  <2>2. ASSUME NEW r \in Slots, acks'[r] # None,
               \E x \in Acts : x.d = acks[r].d /\ x.pc = "drain" /\ x.i <= r
        PROVE  \E x \in Acts' : x.d = acks[r].d /\ x.pc = "drain" /\ x.i <= r
    <3>1. PICK x \in Acts : x.d = acks[r].d /\ x.pc = "drain" /\ x.i <= r
      BY <2>2
    <3>2. CASE x = top
      <4>1. r \notin top.i..(s - 1) /\ r # s
        BY <1>1, <2>1, <2>2
      <4>2. r \in Nat /\ top.i \in Nat /\ top.i <= r
        BY <3>1, <3>2, Typed DEF Slots, ActivationType, DispatchAssumption
      <4>3. s + 1 <= r
        BY <1>2, <4>1, <4>2
      <4> QED
        BY <1>4, <1>12, <3>1, <3>2, <4>3
    <3>3. CASE x \in Below
      BY <1>12, <3>1, <3>3
    <3> QED
      BY <3>2, <3>3, Typed
  <2> QED
    BY <1>5, <1>13, <2>1, <2>2 DEF AcksInv, QueuedOpen
<1>18. ASSUME NEW x \in Acts'
       PROVE  \E y \in Acts : y.d = x.d /\ y.pc = x.pc
  BY <1>4, <1>12, <1>18, Typed
<1>19. Handling'
  <2>1. ASSUME NEW x \in Acts', x.d # 0,
               x.pc \in {"drain", "dispatch", "flash", "flashing"}
        PROVE  /\ ~IsFinal(told'[x.d])
               /\ x.d \notin AtMcu
               /\ \A r \in Slots :
                    acks'[r] # None /\ acks'[r].d = x.d => acks'[r].status = "accepted"
               /\ x.pc \in {"flash", "flashing"} => req[x.d].name = Flash
    <3>1. PICK y \in Acts : y.d = x.d /\ y.pc = x.pc
      BY <1>18
    <3>2. /\ ~IsFinal(told[x.d])
          /\ x.d \notin AtMcu
          /\ \A r \in Slots :
               acks[r] # None /\ acks[r].d = x.d => acks[r].status = "accepted"
          /\ x.pc \in {"flash", "flashing"} => req[x.d].name = Flash
      BY <2>1, <3>1 DEF AcksInv, Handling
    <3>3. x.d = d => status = "accepted"
      BY <1>1, <1>2, <3>2 DEF d, status
    <3>4. x.d \in Deliveries
      BY <2>1, <3>1, Typed
    <3>5. ~IsFinal(told'[x.d])
      BY <1>11, <3>2, <3>3, <3>4 DEF IsFinal
    <3> QED
      BY <1>6, <3>2, <3>5
  <2> QED
    BY <1>5, <1>13, <2>1 DEF Handling
<1>20. ToldRan'
  <2>1. ASSUME NEW x \in Acts', x.d # 0, Heard(told'[x.d], "succeeded")
        PROVE  \E y \in Acts : y.d = x.d /\ Heard(told[x.d], "succeeded")
    BY <1>8, <1>11, <1>18, <2>1, Typed, SMTT(30)
  <2> QED
    BY <1>5, <2>1 DEF AcksInv, ToldRan
<1>21. Earlier'
  <2>1. \A x \in Acts' : \E y \in Acts : y.d = x.d
    BY <1>18
  <2> QED
    BY <1>5, <1>6, <2>1, EarlierKept
<1>22. RunningFirst'
  <2>1. ASSUME NEW r \in Slots, acks'[r] # None, acks'[r].status = "running",
               acks'[r].d \notin amid, NEW x \in Acts'
        PROVE  \/ x.pc = "drain" /\ x.i <= r
               \/ x.pc = "return" /\ x.d = acks'[r].d
    <3>1. r # s /\ acks'[r] = acks[r]
      BY <1>6, <2>1
    <3>2. \A y \in Acts : \/ y.pc = "drain" /\ y.i <= r
                          \/ y.pc = "return" /\ y.d = acks[r].d
      BY <2>1, <3>1 DEF AcksInv, RunningFirst
    <3>3. CASE x = top'
      <4>1. top.i <= r /\ r \notin top.i..(s - 1)
        BY <1>1, <1>4, <2>1, <3>1, <3>2
      <4>2. r \in Nat /\ top.i \in Nat
        BY Typed DEF Slots, ActivationType, DispatchAssumption
      <4>3. s + 1 <= r
        BY <1>2, <3>1, <4>1, <4>2
      <4> QED
        BY <1>12, <3>3, <4>3
    <3>4. CASE x \in Below
      BY <3>1, <3>2, <3>4, Typed
    <3> QED
      BY <1>12, <2>1, <3>3, <3>4
  <2> QED
    BY <1>5, <2>1 DEF RunningFirst
<1> QED
  BY <1>10, <1>12, <1>13, <1>14, <1>15, <1>16, <1>17, <1>19, <1>20, <1>21,
     <1>22
  DEF AcksInv

\* Queueing an ack changes one free slot, or none.
LEMMA QueueEffect ==
  ASSUME TypeOK, NEW d, NEW status, QueueAck(d, status)
  PROVE  \/ UNCHANGED acks
         \/ \E s \in Slots :
              /\ acks[s] = None
              /\ acks'[s] = [d |-> d, status |-> status]
              /\ \A r \in Slots : r # s => acks'[r] = acks[r]
<1>1. CASE FreeSlots = {}
  BY <1>1 DEF QueueAck
<1>2. CASE FreeSlots # {}
  BY <1>2 DEF QueueAck, FreeSlots, TypeOK
<1> QED
  BY <1>1, <1>2

\* A queued ack is one of the queue, or the new one.
LEMMA QueueMembers ==
  ASSUME IInv, AcksInv, DispatchAssumption, NEW d, NEW status,
         QueueAck(d, status),
         \A s \in Slots : acks[s] # None => acks[s].d # d
  PROVE  /\ \A r \in Slots : acks'[r] # None =>
              \/ acks'[r] = acks[r] /\ acks[r] # None
              \/ acks'[r].d = d /\ acks'[r].status = status
         /\ QueuedOnce'
<1>1. CASE UNCHANGED acks
  BY <1>1 DEF AcksInv, QueuedOnce
<1>2. ASSUME NEW s \in Slots, acks[s] = None,
             acks'[s] = [d |-> d, status |-> status],
             \A r \in Slots : r # s => acks'[r] = acks[r]
      PROVE  /\ \A r \in Slots : acks'[r] # None =>
                  \/ acks'[r] = acks[r] /\ acks[r] # None
                  \/ acks'[r].d = d /\ acks'[r].status = status
             /\ QueuedOnce'
  <2>1. acks'[s].d = d /\ acks'[s].status = status
    BY <1>2
  <2>2. \A r \in Slots : r # s => acks'[r] = acks[r] /\ (acks[r] # None => acks[r].d # d)
    BY <1>2
  <2> QED
    BY <2>1, <2>2 DEF AcksInv, QueuedOnce
<1> QED
  BY <1>1, <1>2, QueueEffect DEF IInv

\* A command the secondary MCU gets in an exchange is new to it and to the host.
NewToMcu(d) ==
  /\ d \in Deliveries /\ d \notin AtMcu
  /\ req[d].name \in Unregistered
  /\ ~IsFinal(told[d]) /\ before[d] = {}

\* A final status of a command it has is published, a first one, or the one
\* that an earlier run of the bridge told.
TellsOutcome(a) ==
  \E h \in AtMcu \cap Deliveries, status \in Outcomes :
    /\ PublishAck(h, status, a)
    /\ ~IsFinal(told[h])
    /\ req[h].name \in Unregistered
    /\ before[h] \cap Outcomes \subseteq {status}

\* An exchange that brings a status: the outcome is of a command the MCU has,
\* the host has not heard it from this run of the bridge, and from an earlier
\* one no other.
LEMMA ExchangeTells ==
  ASSUME IInv, AcksInv, DispatchAssumption, NEW a, ExchangeStatus(a),
         UNCHANGED <<req, before>>,
         NEW new, \A d \in new : NewToMcu(d), mcuBusy' = mcuBusy \cup new
  PROVE  /\ \A e \in Deliveries : e \notin AtMcu => told'[e] = told[e]
         /\ AtMcu' \subseteq AtMcu \cup new
         /\ McuDistinct' /\ McuOpen'
         /\ TellsOutcome(a)
<1> DEFINE h == mcuOut[1].d
           status == mcuOut[1].status
<1>1. /\ mcuOut \in Seq(Final) /\ mcuOut # <<>>
      /\ UNCHANGED mcuOut /\ ~heard /\ heard'
  BY DEF IInv, TypeOK, ExchangeStatus
<1>2. Head(mcuOut) = mcuOut[1] /\ 1 \in 1..Len(mcuOut)
  BY <1>1, HeadTailProperties
<1>3. h \in AtMcu \cap Deliveries /\ status \in Outcomes
  <2>1. mcuOut[1] \in Final
    BY <1>1, <1>2, ElementOfSeq
  <2> QED
    BY <1>2, <2>1 DEF AtMcu, Final
<1>4. PublishAck(h, status, a)
  BY <1>2 DEF ExchangeStatus
<1>5. /\ ~Heard(told[h], "succeeded") /\ ~Heard(told[h], "failed")
      /\ req[h].name \in Unregistered
      /\ before[h] \cap Outcomes \subseteq {status}
  BY <1>1, <1>2, <1>3 DEF AcksInv, McuOpen, Outcomes
<1>6. /\ \A j, k \in 1..Len(mcuOut) : mcuOut[j].d = mcuOut[k].d => j = k
      /\ \A k \in 1..Len(mcuOut) : mcuOut[k].d \notin mcuBusy
  BY DEF AcksInv, McuDistinct
<1>7. /\ \A k \in 1..Len(mcuOut) : mcuOut[k].d \in AtMcu
      /\ \A d \in mcuBusy : d \in AtMcu
      /\ AtMcu \subseteq Deliveries
  BY Typed DEF AcksInv, AtMcu, Known
<1> HIDE DEF h, status
<1>8. /\ \A e \in Deliveries : e # h => told'[e] = told[e]
      /\ \A s : Heard(told'[h], s) => Heard(told[h], s) \/ s = status
  <2>1. status \in Statuses
    BY <1>3 DEF Statuses
  <2> QED
    BY <1>3, <1>4, <2>1, PublishHeard
<1>9. AtMcu' \subseteq AtMcu \cup new
  BY <1>1 DEF AtMcu
<1>10. McuDistinct'
  BY <1>1, <1>6, <1>7 DEF McuDistinct, NewToMcu
<1>11. McuOpen'
  <2>1. \A d \in AtMcu' : req[d].name \in Unregistered
    BY <1>9 DEF AcksInv, McuOpen, NewToMcu
  <2>2. ASSUME NEW d \in mcuBusy', NEW o \in Outcomes
        PROVE  ~Heard(told'[d], o) /\ o \notin before[d]
    <3>1. CASE d \in mcuBusy
      <4>1. d # h /\ d \in Deliveries
        BY <1>2, <1>6, <1>7, <3>1 DEF h
      <4> QED
        BY <1>8, <3>1, <4>1 DEF AcksInv, McuOpen
    <3>2. CASE d \in new
      <4>1. NewToMcu(d)
        BY <3>2
      <4>2. d # h /\ ~Heard(told[d], o) /\ d \in Deliveries
        BY <1>3, <4>1 DEF NewToMcu, IsFinal, Outcomes
      <4> QED
        BY <1>8, <4>1, <4>2 DEF NewToMcu
    <3> QED
      BY <2>2, <3>1, <3>2
  <2>3. ASSUME NEW k \in 1..Len(mcuOut), NEW o \in Outcomes
        PROVE  /\ Heard(told'[mcuOut[k].d], o) => k = 1 /\ o = mcuOut[k].status
               /\ o \in before[mcuOut[k].d] => o = mcuOut[k].status
    <3>1. ~Heard(told[mcuOut[k].d], o)
      BY <1>1 DEF AcksInv, McuOpen
    <3>2. CASE k = 1
      BY <1>8, <3>1, <3>2 DEF h, status, AcksInv, McuOpen
    <3>3. CASE k # 1
      <4>1. mcuOut[k].d # h /\ mcuOut[k].d \in Deliveries
        BY <1>2, <1>6, <1>7, <3>3 DEF h
      <4> QED
        BY <1>8, <3>1, <4>1 DEF AcksInv, McuOpen
    <3> QED
      BY <3>2, <3>3
  <2> QED
    BY <1>1, <2>1, <2>2, <2>3 DEF McuOpen
<1>12. \A e \in Deliveries : e \notin AtMcu => told'[e] = told[e]
  BY <1>3, <1>8
<1>13. TellsOutcome(a)
  BY <1>3, <1>4, <1>5 DEF TellsOutcome, IsFinal
<1> QED
  BY <1>9, <1>10, <1>11, <1>12, <1>13

\* An exchange that brings nothing new: the secondary MCU hears that its status
\* was handled, if it hears anything, and sends the next one from then on.
LEMMA AcknowledgeTakes ==
  ASSUME IInv, AcksInv, DispatchAssumption,
         Acknowledge \/ UNCHANGED <<mcuOut, heard>>,
         UNCHANGED <<req, told, before>>,
         NEW new, \A d \in new : NewToMcu(d), mcuBusy' = mcuBusy \cup new
  PROVE  /\ AtMcu' \subseteq AtMcu \cup new
         /\ McuDistinct' /\ McuOpen'
<1> DEFINE n == Len(mcuOut)
<1>1. mcuOut \in Seq(Final) /\ n \in Nat /\ (heard => mcuOut # <<>>)
  BY DEF IInv, TypeOK, HeardIsSent
<1>2. PICK by \in {0, 1} :
        /\ Len(mcuOut') = n - by /\ by <= n
        /\ \A k \in 1..(n - by) : mcuOut'[k] = mcuOut[k + by]
        /\ by = 0 => heard' = heard
        /\ by = 1 => heard
  <2>1. CASE UNCHANGED <<mcuOut, heard>>
    <3>1. /\ Len(mcuOut') = n - 0 /\ 0 <= n
          /\ \A k \in 1..(n - 0) : mcuOut'[k] = mcuOut[k + 0]
      BY <1>1, <2>1
    <3>2. 0 \in {0, 1} /\ 0 # 1 /\ heard' = heard
      BY <2>1
    <3> QED
      BY <3>1, <3>2, Zenon
  <2>2. CASE heard /\ mcuOut' = Tail(mcuOut)
    <3>1. mcuOut # <<>> /\ n >= 1
      BY <1>1, <2>2
    <3>2. /\ Len(mcuOut') = n - 1
          /\ \A k \in 1..(n - 1) : mcuOut'[k] = mcuOut[k + 1]
      BY <1>1, <2>2, <3>1, HeadTailProperties
    <3>3. 1 \in {0, 1} /\ 1 # 0 /\ 1 <= n
      BY <1>1, <3>1
    <3> QED
      BY <2>2, <3>2, <3>3, Zenon
  <2> QED
    BY <2>1, <2>2 DEF Acknowledge
<1>3. /\ \A j, k \in 1..n : mcuOut[j].d = mcuOut[k].d => j = k
      /\ \A k \in 1..n : mcuOut[k].d \notin mcuBusy
  BY DEF AcksInv, McuDistinct
<1>4. /\ \A k \in 1..n : mcuOut[k].d \in AtMcu
      /\ \A d \in mcuBusy : d \in AtMcu
  BY DEF AtMcu
<1> HIDE DEF n
<1>5. ASSUME NEW k \in 1..Len(mcuOut')
      PROVE  /\ k + by \in 1..n
             /\ mcuOut'[k] = mcuOut[k + by]
             /\ mcuOut'[k].d \in AtMcu
  <2>1. k + by \in 1..n /\ k \in 1..(n - by)
    BY <1>1, <1>2
  <2> QED
    BY <1>2, <1>4, <2>1
<1>6. AtMcu' \subseteq AtMcu \cup new
  BY <1>4, <1>5 DEF AtMcu
<1>7. McuDistinct'
  <2>1. ASSUME NEW j \in 1..Len(mcuOut'), NEW k \in 1..Len(mcuOut'),
               mcuOut'[j].d = mcuOut'[k].d
        PROVE  j = k
    <3>1. j + by = k + by
      BY <1>3, <1>5, <2>1
    <3> QED
      BY <1>1, <1>2, <2>1, <3>1
  <2>2. ASSUME NEW k \in 1..Len(mcuOut')
        PROVE  mcuOut'[k].d \notin mcuBusy'
    BY <1>3, <1>5 DEF NewToMcu
  <2> QED
    BY <2>1, <2>2 DEF McuDistinct
<1>8. McuOpen'
  <2>1. \A d \in AtMcu' : req[d].name \in Unregistered
    BY <1>6 DEF AcksInv, McuOpen, NewToMcu
  <2>2. ASSUME NEW d \in mcuBusy', NEW o \in Outcomes
        PROVE  ~Heard(told[d], o) /\ o \notin before[d]
    <3>1. CASE d \in mcuBusy
      BY <3>1 DEF AcksInv, McuOpen
    <3>2. CASE d \in new
      BY <3>2 DEF NewToMcu, IsFinal, Outcomes
    <3> QED
      BY <2>2, <3>1, <3>2
  <2>3. ASSUME NEW k \in 1..Len(mcuOut'), NEW o \in Outcomes
        PROVE  /\ Heard(told[mcuOut'[k].d], o) =>
                    k = 1 /\ heard' /\ o = mcuOut'[k].status
               /\ o \in before[mcuOut'[k].d] => o = mcuOut'[k].status
    <3>1. /\ Heard(told[mcuOut[k + by].d], o) =>
               k + by = 1 /\ heard /\ o = mcuOut[k + by].status
          /\ o \in before[mcuOut[k + by].d] => o = mcuOut[k + by].status
      BY <1>5 DEF AcksInv, McuOpen, n
    <3>2. k + by = 1 => by = 0 /\ k = 1
      BY <1>2
    <3> QED
      BY <1>2, <1>5, <3>1, <3>2
  <2> QED
    BY <2>1, <2>2, <2>3 DEF McuOpen
<1> QED
  BY <1>6, <1>7, <1>8

\* A step in which statuses of the secondary MCU are published, a command is
\* forwarded to it, or an ack of the dispatching callback is queued.
LEMMA McuKept ==
  ASSUME IInv, IInv', AcksInv, DispatchAssumption,
         UNCHANGED <<req, amid, before, ran>>,
         McuDistinct', McuOpen', AcksInOrder', StackOrdered', QueuedOnce',
         Acts' = {top'} \cup Below, top'.d = top.d,
         \/ top.pc = "dispatch" /\ top'.pc = "return" /\ top.d # 0
         \/ top.d = 0 /\ top.pc = "link",
         NEW new \in SUBSET {top.d},
         new # {} => top.pc = "dispatch",
         AtMcu' \subseteq AtMcu \cup new,
         \A e \in Deliveries : e \notin AtMcu => told'[e] = told[e],
         \A r \in Slots : acks'[r] # None =>
           \/ acks'[r] = acks[r] /\ acks[r] # None
           \/ /\ top.pc = "dispatch" /\ top.d # 0
              /\ acks'[r].d = top.d
              /\ \/ /\ acks'[r].status = "running"
                    /\ req[top.d].name \in Unregistered
                 \/ /\ acks'[r].status = "failed"
                    /\ top.d \notin AtMcu'
  PROVE  AcksInv'
<1>1. /\ top \in Acts /\ top.d \in 0..Len(req)
      /\ top.d # 0 => top.d \in 1..Len(req) /\ top.d \in Deliveries
      /\ AtMcu \subseteq 1..Len(req) /\ AtMcu \subseteq Deliveries
  BY Typed DEF AcksInv, Known
<1>2. top.pc = "dispatch" =>
        /\ ~IsFinal(told[top.d])
        /\ top.d \notin AtMcu
        /\ told'[top.d] = told[top.d]
        /\ \A s \in Slots : acks[s] # None => acks[s].d # top.d
  BY <1>1, NothingQueued DEF AcksInv, Handling
<1>3. Known'
  <2>1. ASSUME NEW r \in Slots, acks'[r] # None
        PROVE  acks'[r].d \in 1..Len(req)
    BY <1>1, <2>1 DEF AcksInv, Known
  <2>2. AtMcu' \subseteq 1..Len(req)
    BY <1>1
  <2>3. ASSUME NEW e \in Deliveries, told'[e] # <<>> \/ before[e] # {}
        PROVE  e \in 1..Len(req)
    BY <1>1, <2>3 DEF AcksInv, Known
  <2> QED
    BY <2>1, <2>2, <2>3 DEF Known
<1>4. Earlier' /\ Direct'
  <2>1. \A x \in Acts' : \E y \in Acts : y.d = x.d
    BY <1>1, Typed
  <2> QED
    BY <1>1, <2>1, EarlierKept, DirectKept
<1>5. ASSUME NEW x \in Acts, x.d # 0,
             x.pc \in {"drain", "dispatch", "flash", "flashing"}, x # top
      PROVE  /\ x \in Acts' /\ x.d # top.d
             /\ ~IsFinal(told'[x.d])
             /\ x.d \notin AtMcu /\ x.d \notin AtMcu'
             /\ told'[x.d] = told[x.d]
  <2>1. x \in Below /\ x.d # top.d /\ x.d \in Deliveries
    BY <1>5, Typed
  <2>2. ~IsFinal(told[x.d]) /\ x.d \notin AtMcu
    BY <1>5 DEF AcksInv, Handling
  <2> QED
    BY <2>1, <2>2
<1>6. QueuedOpen'
  <2>1. ASSUME NEW r \in Slots, acks'[r] = acks[r], acks[r] # None
        PROVE  /\ acks[r].status = "accepted" =>
                    /\ told'[acks[r].d] = <<>>
                    /\ \E x \in Acts' : x.d = acks[r].d /\ x.pc = "drain" /\ x.i <= r
               /\ acks[r].status = "running" =>
                    /\ req[acks[r].d].name \in Unregistered
                    /\ acks[r].d \in amid
               /\ acks[r].status # "succeeded"
               /\ acks[r].status = "failed" =>
                    ~IsFinal(told'[acks[r].d]) /\ acks[r].d \notin AtMcu'
    <3>1. acks[r].d \in Deliveries /\ acks[r].d # 0
      BY <2>1, Typed
    <3>2. ASSUME acks[r].status = "accepted"
          PROVE  /\ told'[acks[r].d] = <<>>
                 /\ \E x \in Acts' : x.d = acks[r].d /\ x.pc = "drain" /\ x.i <= r
      <4>1. PICK x \in Acts : x.d = acks[r].d /\ x.pc = "drain" /\ x.i <= r
        BY <2>1, <3>2 DEF AcksInv, QueuedOpen
      <4>2. x # top
        BY <4>1
      <4>3. told[acks[r].d] = <<>>
        BY <2>1, <3>2 DEF AcksInv, QueuedOpen
      <4> QED
        BY <1>5, <3>1, <4>1, <4>2, <4>3
    <3>3. ASSUME acks[r].status = "failed"
          PROVE  ~IsFinal(told'[acks[r].d]) /\ acks[r].d \notin AtMcu'
      <4>1. ~IsFinal(told[acks[r].d]) /\ acks[r].d \notin AtMcu
        BY <2>1, <3>3 DEF AcksInv, QueuedOpen
      <4>2. acks[r].d \notin new
        BY <1>2, <2>1
      <4> QED
        BY <3>1, <4>1, <4>2
    <3>4. acks[r].status = "running" => acks[r].d \in amid
      BY <2>1, RunningDrained
    <3> QED
      BY <2>1, <3>2, <3>3, <3>4 DEF AcksInv, QueuedOpen
  <2>2. ASSUME NEW r \in Slots, acks'[r] # None
        PROVE  /\ acks'[r].status = "accepted" =>
                    /\ told'[acks'[r].d] = <<>>
                    /\ \E x \in Acts' : x.d = acks'[r].d /\ x.pc = "drain" /\ x.i <= r
               /\ acks'[r].status = "running" =>
                    /\ req[acks'[r].d].name \in Unregistered
                    /\ IsFinal(told'[acks'[r].d]) => acks'[r].d \in amid
               /\ acks'[r].status # "succeeded"
               /\ acks'[r].status = "failed" =>
                    ~IsFinal(told'[acks'[r].d]) /\ acks'[r].d \notin AtMcu'
    <3>1. CASE acks'[r] = acks[r] /\ acks[r] # None
      BY <2>1, <3>1
    <3>2. CASE ~(acks'[r] = acks[r] /\ acks[r] # None)
      BY <1>2, <2>2, <3>2 DEF IsFinal
    <3> QED
      BY <3>1, <3>2
  <2> QED
    BY <2>2 DEF QueuedOpen
<1>7. Handling'
  <2>1. ASSUME NEW x \in Acts', x.d # 0,
               x.pc \in {"drain", "dispatch", "flash", "flashing"}
        PROVE  /\ ~IsFinal(told'[x.d])
               /\ x.d \notin AtMcu'
               /\ \A r \in Slots :
                    acks'[r] # None /\ acks'[r].d = x.d => acks'[r].status = "accepted"
               /\ x.pc \in {"flash", "flashing"} => req[x.d].name = Flash
    <3>1. x \in Below /\ x \in Acts /\ x # top
      BY <2>1, Typed
    <3>2. /\ \A s \in Slots :
               acks[s] # None /\ acks[s].d = x.d => acks[s].status = "accepted"
          /\ x.pc \in {"flash", "flashing"} => req[x.d].name = Flash
      BY <2>1, <3>1 DEF AcksInv, Handling
    <3>3. ~IsFinal(told'[x.d]) /\ x.d \notin AtMcu' /\ x.d # top.d
      BY <1>5, <2>1, <3>1
    <3> QED
      BY <3>2, <3>3
  <2> QED
    BY <2>1 DEF Handling
<1>8. ToldRan'
  <2>1. ASSUME NEW x \in Acts', x.d # 0, req[x.d].name \in Functions,
               Heard(told'[x.d], "succeeded")
        PROVE  \E y \in Acts : y.d = x.d /\ Heard(told[x.d], "succeeded")
    <3>1. PICK y \in Acts : y.d = x.d
      BY <1>1, <2>1, Typed
    <3>2. x.d \in Deliveries
      BY <2>1, <3>1, Typed
    <3>3. x.d \notin AtMcu
      BY <2>1 DEF AcksInv, McuOpen, DispatchAssumption
    <3> QED
      BY <2>1, <3>1, <3>2, <3>3
  <2> QED
    BY <2>1 DEF AcksInv, ToldRan
<1>9. RunningFirst'
  <2>1. ASSUME NEW r \in Slots, acks'[r] # None, acks'[r].status = "running",
               acks'[r].d \notin amid, NEW x \in Acts'
        PROVE  \/ x.pc = "drain" /\ x.i <= r
               \/ x.pc = "return" /\ x.d = acks'[r].d
    <3>1. /\ top.pc = "dispatch" /\ top.d # 0 /\ acks'[r].d = top.d
          /\ req[top.d].name \in Unregistered
      BY <2>1, RunningDrained
    <3>2. CASE x = top'
      BY <3>1, <3>2
    <3>3. CASE x \in Below
      <4>1. x \in Acts /\ x.d < top.d
        BY <3>3, Typed
      <4>2. x.pc = "drain" /\ x.i = 1
        BY <1>1, <2>1, <3>1, <4>1 DEF AcksInv, Direct
      <4> QED
        BY <4>2 DEF Slots, DispatchAssumption
    <3> QED
      BY <2>1, <3>2, <3>3
  <2> QED
    BY <2>1 DEF RunningFirst
<1> QED
  BY <1>3, <1>4, <1>6, <1>7, <1>8, <1>9 DEF AcksInv

\* The command could not be forwarded: its failure is queued.
LEMMA ForwardFailsKept ==
  ASSUME IInv, IInv', AcksInv, DispatchAssumption, ForwardFails
  PROVE  AcksInv'
<1> DEFINE a == Goto("return", FALSE)
<1>1. top.pc = "dispatch" /\ top.d # 0
  BY Typed DEF ForwardFails, At, PcsOf
<1>2. a \in ActivationType /\ a.d = top.d /\ a.pc = "return" /\ Becomes(a)
  BY Typed, GotoType DEF ForwardFails, Pcs
<1> HIDE DEF a
<1>3. top' = a /\ Acts' = {top'} \cup Below /\ StackOrdered'
  BY <1>2, Typed, StackMoves DEF AcksInv
<1>4. UNCHANGED <<mcuBusy, mcuOut, heard, req, amid, before, ran, told>>
  BY DEF ForwardFails
<1>5. AtMcu' = AtMcu /\ McuDistinct' /\ McuOpen' /\ AcksInOrder'
  BY <1>4, McuStays, OrderStays
<1>6. top.d \notin AtMcu
  BY <1>1, Typed DEF AcksInv, Handling
<1>7. /\ \A r \in Slots : acks'[r] # None =>
           \/ acks'[r] = acks[r] /\ acks[r] # None
           \/ acks'[r].d = top.d /\ acks'[r].status = "failed"
      /\ QueuedOnce'
  BY <1>1, NothingQueued, QueueMembers DEF ForwardFails
<1>8. {} \in SUBSET {top.d}
  OBVIOUS
<1> QED
  BY <1>1, <1>2, <1>3, <1>4, <1>5, <1>6, <1>7, <1>8, McuKept

\* The command is forwarded, and what came back in the exchange is published.
LEMMA ForwardKept ==
  ASSUME IInv, IInv', AcksInv, DispatchAssumption, Forward
  PROVE  AcksInv'
<1> DEFINE a == Goto("return", FALSE)
<1>1. top.pc = "dispatch" /\ top.d # 0 /\ req[top.d].name \in Unregistered
  BY Typed DEF Forward, At, PcsOf, Name
<1>2. a \in ActivationType /\ a.d = top.d /\ a.pc = "return"
  BY Typed, GotoType DEF Pcs
<1>3. \/ /\ Becomes(a) /\ UNCHANGED told
         /\ Acknowledge \/ UNCHANGED <<mcuOut, heard>>
         /\ mcuBusy' = mcuBusy \cup {top.d} \/ mcuBusy' = mcuBusy \cup {}
      \/ ExchangeStatus(a) /\ mcuBusy' = mcuBusy \cup {top.d}
  BY DEF Forward
<1> HIDE DEF a
<1>4. NewToMcu(top.d) /\ UNCHANGED <<req, amid, before, ran>>
  <2>1. top.d \in Deliveries /\ top \in Acts
    BY <1>1, Typed
  <2> QED
    BY <1>1, <2>1 DEF AcksInv, Handling, Earlier, NewToMcu, Forward
<1>5. /\ \A r \in Slots : acks'[r] # None =>
           \/ acks'[r] = acks[r] /\ acks[r] # None
           \/ acks'[r].d = top.d /\ acks'[r].status = "running"
      /\ QueuedOnce'
  BY <1>1, NothingQueued, QueueMembers DEF Forward
<1>6. ASSUME Becomes(a), UNCHANGED told,
             Acknowledge \/ UNCHANGED <<mcuOut, heard>>,
             NEW new \in SUBSET {top.d}, mcuBusy' = mcuBusy \cup new
      PROVE  AcksInv'
  <2>1. top' = a /\ Acts' = {top'} \cup Below /\ StackOrdered'
    BY <1>2, <1>6, Typed, StackMoves DEF AcksInv
  <2>2. \A d \in new : NewToMcu(d)
    BY <1>4
  <2>3. AtMcu' \subseteq AtMcu \cup new /\ McuDistinct' /\ McuOpen'
    BY <1>4, <1>6, <2>2, AcknowledgeTakes
  <2>4. AcksInOrder'
    BY <1>4, <1>6, OrderStays
  <2> QED
    BY <1>1, <1>2, <1>4, <1>5, <1>6, <2>1, <2>3, <2>4, McuKept
<1>7. ASSUME ExchangeStatus(a),
             NEW new \in SUBSET {top.d}, mcuBusy' = mcuBusy \cup new
      PROVE  AcksInv'
  <2>1. \A d \in new : NewToMcu(d)
    BY <1>4
  <2>2. /\ \A e \in Deliveries : e \notin AtMcu => told'[e] = told[e]
        /\ AtMcu' \subseteq AtMcu \cup new
        /\ McuDistinct' /\ McuOpen' /\ TellsOutcome(a)
    BY <1>4, <1>7, <2>1, ExchangeTells
  <2>3. PICK h \in AtMcu \cap Deliveries, status \in Outcomes :
          /\ PublishAck(h, status, a)
          /\ ~IsFinal(told[h])
          /\ req[h].name \in Unregistered
          /\ before[h] \cap Outcomes \subseteq {status}
    BY <2>2 DEF TellsOutcome
  <2>4. status \in Statuses /\ status # "accepted"
    BY DEF Statuses, Outcomes
  <2>5. /\ Acts' = {top'} \cup Below /\ StackOrdered'
        /\ top'.pc = "return" /\ top'.d = top.d
    BY <1>2, <2>3, Typed, PublishMoves DEF AcksInv
  <2>6. AcksInOrder'
    BY <1>4, <2>3, <2>4, PublishInOrder
  <2> QED
    BY <1>1, <1>4, <1>5, <2>2, <2>5, <2>6, McuKept
<1>8. {} \in SUBSET {top.d} /\ {top.d} \in SUBSET {top.d}
  OBVIOUS
<1> QED
  BY <1>3, <1>6, <1>7, <1>8

\* The main loop exchanges frames: a final status of the secondary MCU comes
\* and is published, or the last one comes again.
LEMMA PollKept ==
  ASSUME IInv, IInv', AcksInv, DispatchAssumption, PollStatus \/ PollAgain
  PROVE  AcksInv'
<1> DEFINE a == [top EXCEPT !.i = top.i + 1]
<1>1. top.i + 1 \in 1..(AckSlots + DrainLimit + 1)
  BY Typed DEF ActivationType, PollStatus, PollAgain, DispatchAssumption
<1>2. /\ a \in ActivationType /\ a.d = top.d /\ a.pc = "link"
      /\ top.pc = "link" /\ top.d = 0
  BY <1>1, Typed DEF ActivationType, PollStatus, PollAgain, At, PcsOf
<1>3. /\ UNCHANGED <<acks, req, amid, before, ran>>
      /\ mcuBusy' = mcuBusy \cup {}
  BY DEF PollStatus, PollAgain, history
<1>4. QueuedOnce' /\ {} \in SUBSET {top.d} /\ \A d \in {} : NewToMcu(d)
  BY <1>3 DEF AcksInv, QueuedOnce
<1>5. \/ ExchangeStatus(a)
      \/ Becomes(a) /\ Acknowledge /\ UNCHANGED told
  BY DEF PollStatus, PollAgain, history
<1> HIDE DEF a
<1>6. CASE ExchangeStatus(a)
  <2>1. /\ \A e \in Deliveries : e \notin AtMcu => told'[e] = told[e]
        /\ AtMcu' \subseteq AtMcu \cup {}
        /\ McuDistinct' /\ McuOpen' /\ TellsOutcome(a)
    BY <1>3, <1>4, <1>6, ExchangeTells
  <2>2. PICK h \in AtMcu \cap Deliveries, status \in Outcomes :
          /\ PublishAck(h, status, a)
          /\ ~IsFinal(told[h])
          /\ req[h].name \in Unregistered
          /\ before[h] \cap Outcomes \subseteq {status}
    BY <2>1 DEF TellsOutcome
  <2>3. status \in Statuses /\ status # "accepted"
    BY DEF Statuses, Outcomes
  <2>4. /\ Acts' = {top'} \cup Below /\ StackOrdered'
        /\ top'.pc = "link" /\ top'.d = top.d
    BY <1>2, <2>2, Typed, PublishMoves DEF AcksInv
  <2>5. AcksInOrder'
    BY <1>3, <2>2, <2>3, PublishInOrder
  <2> QED
    BY <1>2, <1>3, <1>4, <2>1, <2>4, <2>5, McuKept
<1>7. CASE Becomes(a) /\ Acknowledge /\ UNCHANGED told
  <2>1. top' = a /\ Acts' = {top'} \cup Below /\ StackOrdered'
    BY <1>2, <1>7, Typed, StackMoves DEF AcksInv
  <2>2. AtMcu' \subseteq AtMcu \cup {} /\ McuDistinct' /\ McuOpen'
    BY <1>3, <1>4, <1>7, AcknowledgeTakes
  <2>3. AcksInOrder'
    BY <1>3, <1>7, OrderStays
  <2> QED
    BY <1>2, <1>3, <1>4, <1>7, <2>1, <2>2, <2>3, McuKept
<1> QED
  BY <1>5, <1>6, <1>7

\* A message arrives: nothing has been said about it.
LEMMA DeliverKept ==
  ASSUME IInv, IInv', AcksInv, DispatchAssumption, NEW id \in Ids,
         NEW name \in Names, Deliver(id, name)
  PROVE  AcksInv'
<1> DEFINE d == Len(req) + 1
           b == [top EXCEPT !.pump = FALSE]
<1>1. /\ top' = Activation("drain", d)
      /\ Acts' = {top'} \cup {b} \cup Below
      /\ StackOrdered'
  BY StackPushes DEF AcksInv
<1>2. b.d = top.d /\ b.pc = top.pc /\ b.i = top.i
  BY Typed DEF ActivationType
<1>3. d \in Nat /\ d # 0 /\ d \notin 1..Len(req) /\ d \in Deliveries
      /\ Len(req) \in Nat
  BY Typed DEF Deliver, Deliveries, DispatchAssumption
<1>4. /\ Len(req') = d
      /\ \A e \in 1..Len(req) : req'[e] = req[e] /\ e \in 1..Len(req')
      /\ d \in 1..Len(req') /\ req'[d].name = name
  BY <1>3, AppendProperties DEF Deliver, IInv, TypeOK
<1>5. told[d] = <<>> /\ before[d] = {} /\ d \notin AtMcu
  BY <1>3 DEF AcksInv, Known
<1>6. \A s \in Slots : acks[s] # None => acks[s].d # d /\ acks[s].d \in 1..Len(req)
  BY <1>3 DEF AcksInv, Known
<1>7. /\ QueueAck(d, "accepted")
      /\ UNCHANGED <<mcuBusy, mcuOut, heard, told, before, ran>>
      /\ amid' = IF name \in Unregistered /\ ~InServiceConnection
                 THEN amid \cup {d} ELSE amid
  BY DEF Deliver, Arrives
<1>8. top'.d = d /\ top'.pc = "drain" /\ top'.i = 1
  BY <1>1 DEF Activation
<1> HIDE DEF d, b
<1>9. /\ \A r \in Slots : acks'[r] # None =>
           \/ acks'[r] = acks[r] /\ acks[r] # None
           \/ acks'[r].d = d /\ acks'[r].status = "accepted"
      /\ QueuedOnce'
  BY <1>6, <1>7, QueueMembers
<1>10. /\ AtMcu' = AtMcu /\ AtMcu \subseteq 1..Len(req)
       /\ McuDistinct' /\ McuOpen'
  <2>1. AtMcu \subseteq 1..Len(req)
    BY DEF AcksInv, Known
  <2> QED
    BY <1>4, <1>7, <2>1, McuStays
<1>11. Known'
  BY <1>4, <1>6, <1>7, <1>9, <1>10 DEF AcksInv, Known
<1>12. amid \subseteq amid'
  BY <1>7
<1>13. ASSUME NEW x \in Acts'
       PROVE  x = top' \/ \E y \in Acts : y.d = x.d /\ y.pc = x.pc /\ y.i = x.i
  BY <1>1, <1>2, <1>13, Typed
<1>14. ASSUME NEW y \in Acts
       PROVE  \E x \in Acts' : y.d = x.d /\ y.pc = x.pc /\ y.i = x.i
  BY <1>1, <1>2, <1>14, Typed
<1>15. QueuedOpen'
  <2>1. ASSUME NEW r \in Slots, acks'[r] = acks[r], acks[r] # None,
               acks[r].status = "accepted"
        PROVE  \E x \in Acts' : x.d = acks[r].d /\ x.pc = "drain" /\ x.i <= r
    <3>1. PICK y \in Acts : y.d = acks[r].d /\ y.pc = "drain" /\ y.i <= r
      BY <2>1 DEF AcksInv, QueuedOpen
    <3> QED
      BY <1>14, <3>1
  <2>2. ASSUME NEW r \in Slots, acks'[r].d = d
        PROVE  \E x \in Acts' : x.d = acks'[r].d /\ x.pc = "drain" /\ x.i <= r
    <3>1. 1 <= r
      BY DEF Slots, DispatchAssumption
    <3> QED
      BY <1>1, <1>8, <2>2, <3>1
  <2>3. ASSUME NEW r \in Slots, acks'[r] # None
        PROVE  /\ acks'[r].status = "accepted" =>
                    /\ told'[acks'[r].d] = <<>>
                    /\ \E x \in Acts' : x.d = acks'[r].d /\ x.pc = "drain" /\ x.i <= r
               /\ acks'[r].status = "running" =>
                    /\ req'[acks'[r].d].name \in Unregistered
                    /\ IsFinal(told'[acks'[r].d]) => acks'[r].d \in amid'
               /\ acks'[r].status # "succeeded"
               /\ acks'[r].status = "failed" =>
                    ~IsFinal(told'[acks'[r].d]) /\ acks'[r].d \notin AtMcu'
    <3>1. CASE acks'[r] = acks[r] /\ acks[r] # None
      <4>1. req'[acks[r].d] = req[acks[r].d]
        BY <1>4, <1>6, <3>1
      <4> QED
        BY <1>7, <1>10, <1>12, <2>1, <3>1, <4>1 DEF AcksInv, QueuedOpen
    <3>2. CASE acks'[r].d = d /\ acks'[r].status = "accepted"
      BY <1>5, <1>7, <2>2, <3>2
    <3> QED
      BY <1>9, <2>3, <3>1, <3>2
  <2> QED
    BY <2>3 DEF QueuedOpen
<1>16. Handling'
  <2>1. ASSUME NEW x \in Acts', x.d # 0,
               x.pc \in {"drain", "dispatch", "flash", "flashing"}
        PROVE  /\ ~IsFinal(told'[x.d])
               /\ x.d \notin AtMcu'
               /\ \A r \in Slots :
                    acks'[r] # None /\ acks'[r].d = x.d => acks'[r].status = "accepted"
               /\ x.pc \in {"flash", "flashing"} => req'[x.d].name = Flash
    <3>1. CASE x = top'
      <4>1. ~IsFinal(<<>>)
        BY DEF IsFinal, Heard
      <4> QED
        BY <1>5, <1>6, <1>7, <1>8, <1>9, <1>10, <3>1, <4>1
    <3>2. ASSUME NEW y \in Acts, y.d = x.d, y.pc = x.pc
          PROVE  /\ ~IsFinal(told'[x.d])
                 /\ x.d \notin AtMcu'
                 /\ \A r \in Slots :
                      acks'[r] # None /\ acks'[r].d = x.d => acks'[r].status = "accepted"
                 /\ x.pc \in {"flash", "flashing"} => req'[x.d].name = Flash
      <4>1. x.d \in 1..Len(req) /\ x.d # d
        BY <1>3, <2>1, <3>2, Typed
      <4>2. /\ ~IsFinal(told[x.d])
            /\ x.d \notin AtMcu
            /\ \A r \in Slots :
                 acks[r] # None /\ acks[r].d = x.d => acks[r].status = "accepted"
            /\ x.pc \in {"flash", "flashing"} => req[x.d].name = Flash
        BY <2>1, <3>2 DEF AcksInv, Handling
      <4> QED
        BY <1>4, <1>7, <1>9, <1>10, <4>1, <4>2
    <3> QED
      BY <1>13, <3>1, <3>2
  <2> QED
    BY <2>1 DEF Handling
<1>17. ToldRan'
  <2>1. ASSUME NEW x \in Acts', x.d # 0, req'[x.d].name \in Functions,
               Heard(told'[x.d], "succeeded")
        PROVE  Entry(req'[x.d].id, req'[x.d].name, "succeeded")
                 \in {ran'[j] : j \in 1..Len(ran')}
    <3>1. x # top'
      BY <1>5, <1>7, <1>8, <2>1 DEF Heard
    <3>2. PICK y \in Acts : y.d = x.d
      BY <1>13, <3>1
    <3>3. req'[x.d] = req[x.d]
      BY <1>3, <1>4, <2>1, <3>2, Typed
    <3> QED
      BY <1>7, <2>1, <3>2, <3>3 DEF AcksInv, ToldRan
  <2> QED
    BY <2>1 DEF ToldRan
<1>18. AcksInOrder'
  <2>1. ASSUME NEW e \in Deliveries
        PROVE  /\ InOrder(told'[e], e, amid')
               /\ Repeats(told'[e], before'[e], req'[e].name)
    <3>1. CASE e \in 1..Len(req)
      <4>1. InOrder(told[e], e, amid) /\ Repeats(told[e], before[e], req[e].name)
        BY OrderOfEach DEF AcksInv
      <4>2. InOrder(told[e], e, amid')
        BY <1>12, <4>1 DEF InOrder
      <4> QED
        BY <1>4, <1>7, <3>1, <4>1, <4>2
    <3>2. CASE e \notin 1..Len(req)
      <4>1. told'[e] = <<>>
        BY <1>7, <3>2 DEF AcksInv, Known
      <4> QED
        BY <4>1 DEF InOrder, Repeats
    <3> QED
      BY <3>1, <3>2
  <2> QED
    BY <2>1 DEF AcksInOrder, InOrder, Repeats
<1>19. Earlier'
  <2>1. ASSUME NEW e \in Deliveries, before[e] # {}, NEW x \in Acts'
        PROVE  x.d # e
    BY <1>5, <1>8, <1>13, <2>1 DEF AcksInv, Earlier
  <2>2. ASSUME NEW e \in Deliveries, before[e] # {}, NEW r \in Slots,
               acks'[r] # None
        PROVE  acks'[r].d # e
    BY <1>5, <1>9, <2>2 DEF AcksInv, Earlier
  <2> QED
    BY <1>7, <2>1, <2>2 DEF Earlier
<1>20. Direct'
  <2>1. SUFFICES ASSUME NEW x \in Acts', NEW y \in Acts',
                        x.d # 0, x.d \notin amid',
                        req'[x.d].name \in Unregistered, y.d < x.d
                 PROVE  y.d = 0 /\ y.pc = "drain" /\ y.i = 1
    BY DEF Direct
  <2>2. CASE x = top'
    <3>1. InServiceConnection
      BY <1>4, <1>7, <1>8, <2>1, <2>2
    <3>2. top.d = 0 /\ top.pc = "drain" /\ top.i = 1
      BY <3>1 DEF InServiceConnection
    <3>3. ASSUME NEW z \in Below
          PROVE  FALSE
      BY <3>2, <3>3, Typed
    <3>4. y # top'
      BY <1>3, <1>8, <2>1, <2>2
    <3>5. PICK z \in Acts : z.d = y.d /\ z.pc = y.pc /\ z.i = y.i
      BY <1>13, <3>4
    <3>6. z = top
      BY <3>3, <3>5, Typed
    <3> QED
      BY <3>2, <3>5, <3>6
  <2>3. ASSUME NEW z \in Acts, z.d = x.d
        PROVE  y.d = 0 /\ y.pc = "drain" /\ y.i = 1
    <3>1. x.d \in 1..Len(req)
      BY <1>3, <2>1, <2>3, Typed
    <3>2. y # top'
      BY <1>3, <1>8, <2>1, <3>1
    <3>3. PICK w \in Acts : w.d = y.d /\ w.pc = y.pc /\ w.i = y.i
      BY <1>13, <3>2
    <3>4. z.d # 0 /\ z.d \notin amid /\ req[z.d].name \in Unregistered
      BY <1>4, <1>12, <2>1, <2>3, <3>1
    <3> QED
      BY <2>1, <2>3, <3>3, <3>4 DEF AcksInv, Direct
  <2> QED
    BY <1>13, <2>2, <2>3
<1>21. RunningFirst'
  <2>1. ASSUME NEW r \in Slots, acks'[r] # None, acks'[r].status = "running",
               acks'[r].d \notin amid', NEW x \in Acts'
        PROVE  \/ x.pc = "drain" /\ x.i <= r
               \/ x.pc = "return" /\ x.d = acks'[r].d
    <3>1. acks'[r] = acks[r] /\ acks[r] # None
      BY <1>9, <2>1
    <3>2. \A y \in Acts : \/ y.pc = "drain" /\ y.i <= r
                          \/ y.pc = "return" /\ y.d = acks[r].d
      BY <1>12, <2>1, <3>1 DEF AcksInv, RunningFirst
    <3>3. CASE x = top'
      BY <1>8, <3>3 DEF Slots, DispatchAssumption
    <3>4. ASSUME NEW y \in Acts, y.d = x.d, y.pc = x.pc, y.i = x.i
          PROVE  \/ x.pc = "drain" /\ x.i <= r
                 \/ x.pc = "return" /\ x.d = acks'[r].d
      BY <3>1, <3>2, <3>4
    <3> QED
      BY <1>13, <3>3, <3>4
  <2> QED
    BY <2>1 DEF RunningFirst
<1> QED
  BY <1>1, <1>9, <1>10, <1>11, <1>15, <1>16, <1>17, <1>18, <1>19, <1>20, <1>21
  DEF AcksInv

\* The secondary MCU has the command's final status ready.
LEMMA McuFinishesKept ==
  ASSUME IInv, IInv', AcksInv, DispatchAssumption, NEW d \in mcuBusy,
         NEW status \in Outcomes, McuFinishes(d, status)
  PROVE  AcksInv'
<1> DEFINE n == Len(mcuOut)
           e == [d |-> d, status |-> status]
<1>1. /\ UNCHANGED <<stack, acks, cache, heard, req, amid, told, before, ran>>
      /\ mcuBusy' = mcuBusy \ {d}
      /\ mcuOut' = Append(mcuOut, e)
  BY DEF McuFinishes, history
<1>2. mcuOut \in Seq(Final) /\ d \in Deliveries /\ n \in Nat /\ e \in Final
  BY DEF IInv, TypeOK, Final
<1>3. /\ Len(mcuOut') = n + 1
      /\ mcuOut'[n + 1] = e
      /\ \A k \in 1..n : mcuOut'[k] = mcuOut[k]
  BY <1>1, <1>2, AppendProperties
<1>4. e.d = d /\ e.status = status
  OBVIOUS
<1> HIDE DEF n, e
<1>5. 1..(n + 1) = (1..n) \cup {n + 1}
  BY <1>2
<1>6. AtMcu' = AtMcu
  <2>1. /\ AtMcu = mcuBusy \cup {mcuOut[j].d : j \in 1..n}
        /\ AtMcu' = (mcuBusy \ {d}) \cup {mcuOut'[j].d : j \in 1..(n + 1)}
    BY <1>1, <1>3 DEF AtMcu, n
  <2>2. {mcuOut'[j].d : j \in 1..(n + 1)} = {mcuOut[j].d : j \in 1..n} \cup {d}
    BY <1>3, <1>4, <1>5
  <2> QED
    BY <2>1, <2>2
<1>7. McuDistinct'
  <2>1. /\ \A j, k \in 1..n : mcuOut[j].d = mcuOut[k].d => j = k
        /\ \A j \in 1..n : mcuOut[j].d \notin mcuBusy /\ mcuOut[j].d # d
    BY DEF AcksInv, McuDistinct, n
  <2>2. ASSUME NEW j \in 1..(n + 1), NEW k \in 1..(n + 1),
               mcuOut'[j].d = mcuOut'[k].d
        PROVE  j = k
    BY <1>3, <1>4, <1>5, <2>1, <2>2
  <2>3. ASSUME NEW j \in 1..(n + 1)
        PROVE  mcuOut'[j].d \notin mcuBusy'
    BY <1>1, <1>3, <1>4, <1>5, <2>1
  <2> QED
    BY <1>3, <2>2, <2>3 DEF McuDistinct
<1>8. McuOpen'
  <2>1. \A c \in AtMcu' : req'[c].name \in Unregistered
    BY <1>1, <1>6 DEF AcksInv, McuOpen
  <2>2. \A c \in mcuBusy', o \in Outcomes :
          ~Heard(told'[c], o) /\ o \notin before'[c]
    BY <1>1 DEF AcksInv, McuOpen
  <2>3. ASSUME NEW k \in 1..(n + 1), NEW o \in Outcomes
        PROVE  /\ Heard(told[mcuOut'[k].d], o) =>
                    k = 1 /\ heard /\ o = mcuOut'[k].status
               /\ o \in before[mcuOut'[k].d] => o = mcuOut'[k].status
    <3>1. CASE k \in 1..n
      BY <1>3, <3>1 DEF AcksInv, McuOpen, n
    <3>2. CASE k = n + 1
      BY <1>3, <1>4, <3>2 DEF AcksInv, McuOpen
    <3> QED
      BY <1>5, <3>1, <3>2
  <2> QED
    BY <1>1, <1>3, <2>1, <2>2, <2>3 DEF McuOpen
<1>9. Acts' = Acts /\ StackOrdered'
  BY <1>1 DEF Acts, StackOrdered, AcksInv
<1>10. Known' /\ QueuedOnce' /\ AcksInOrder'
  BY <1>1, <1>6, OrderStays DEF AcksInv, Known, QueuedOnce
<1>11. QueuedOpen' /\ Handling' /\ ToldRan'
  BY <1>1, <1>6, <1>9 DEF AcksInv, QueuedOpen, Handling, ToldRan
<1>12. Earlier' /\ Direct' /\ RunningFirst'
  BY <1>1, <1>9 DEF AcksInv, Earlier, Direct, RunningFirst
<1> QED
  BY <1>7, <1>8, <1>9, <1>10, <1>11, <1>12 DEF AcksInv

\* ESP.restart(): nobody handles anything, nothing is queued, and what the host
\* has heard was told by an earlier run from then on.
LEMMA RestartKept ==
  ASSUME IInv, IInv', AcksInv, DispatchAssumption, Restart
  PROVE  AcksInv'
<1> DEFINE a == Activation("service", 0)
<1>1. stack' = <<a>>
  BY DEF Restart
<1>2. Len(stack') = 1 /\ stack'[1] = a /\ a.d = 0 /\ a.pc = "service"
  BY <1>1 DEF Activation
<1>3. Acts' = {a} /\ StackOrdered'
  <2> HIDE DEF a
  <2>1. 1..1 = {1}
    OBVIOUS
  <2> QED
    BY <1>2, <2>1 DEF Acts, StackOrdered
<1>4. /\ \A s \in Slots : acks'[s] = None
      /\ \A d \in Deliveries : told'[d] = <<>>
      /\ UNCHANGED <<mcuBusy, mcuOut, req, amid>>
      /\ ~heard'
  BY DEF Restart
<1>5. \A d \in Deliveries : \A o :
        o \in before'[d] <=> o \in before[d] \/ Heard(told[d], o)
  BY DEF Restart, Heard
<1> HIDE DEF a
<1>6. AtMcu' = AtMcu /\ AtMcu \subseteq Deliveries
  BY <1>4, Typed DEF AtMcu, AcksInv, Known
<1>7. Known'
  <2>1. ASSUME NEW d \in Deliveries, before'[d] # {}
        PROVE  d \in 1..Len(req)
    <3>1. PICK o \in before'[d] : TRUE
      BY <2>1
    <3>2. CASE o \in before[d]
      BY <3>2 DEF AcksInv, Known
    <3>3. CASE Heard(told[d], o)
      <4>1. told[d] # <<>>
        BY <3>3 DEF Heard
      <4> QED
        BY <4>1 DEF AcksInv, Known
    <3> QED
      BY <1>5, <3>1, <3>2, <3>3
  <2> QED
    BY <1>4, <1>6, <2>1 DEF AcksInv, Known
<1>8. McuDistinct' /\ QueuedOnce' /\ AcksInOrder'
  BY <1>4 DEF AcksInv, McuDistinct, QueuedOnce, AcksInOrder
<1>9. McuOpen'
  <2>1. \A t, o : t = <<>> => ~Heard(t, o)
    BY DEF Heard
  <2>2. /\ \A d \in mcuBusy : d \in Deliveries
        /\ \A k \in 1..Len(mcuOut) : mcuOut[k].d \in Deliveries
    BY <1>6 DEF AtMcu
  <2>3. \A d \in AtMcu : req[d].name \in Unregistered
    BY DEF AcksInv, McuOpen
  <2>4. \A d \in mcuBusy, o \in Outcomes : ~Heard(told'[d], o) /\ o \notin before'[d]
    BY <1>4, <1>5, <2>1, <2>2 DEF AcksInv, McuOpen
  <2>5. ASSUME NEW k \in 1..Len(mcuOut), NEW o \in Outcomes
        PROVE  /\ ~Heard(told'[mcuOut[k].d], o)
               /\ o \in before'[mcuOut[k].d] => o = mcuOut[k].status
    BY <1>4, <1>5, <2>1, <2>2 DEF AcksInv, McuOpen
  <2> QED
    BY <1>4, <1>6, <2>3, <2>4, <2>5 DEF McuOpen
<1>10. QueuedOpen' /\ Handling' /\ ToldRan'
  BY <1>2, <1>3, <1>4 DEF QueuedOpen, Handling, ToldRan
<1>11. Earlier' /\ Direct' /\ RunningFirst'
  <2>1. 0 \notin Deliveries
    BY DEF Deliveries, DispatchAssumption
  <2> QED
    BY <1>2, <1>3, <1>4, <2>1 DEF Earlier, Direct, RunningFirst
<1> QED
  BY <1>3, <1>7, <1>8, <1>9, <1>10, <1>11 DEF AcksInv

\* The callback returns: the activations are those it interrupted.
LEMMA ReturnKept ==
  ASSUME IInv, IInv', AcksInv, DispatchAssumption, Return
  PROVE  AcksInv'
<1>1. Acts' = Below /\ StackOrdered' /\ top.pc = "return"
  BY StackPops DEF AcksInv, Return, At
<1>2. /\ UNCHANGED <<acks, cache, mcuBusy, mcuOut, heard>>
      /\ UNCHANGED <<req, amid, told, before, ran>>
  BY DEF Return, history
<1>3. AtMcu' = AtMcu /\ McuDistinct' /\ McuOpen'
  BY <1>2, McuStays
<1>4. Known' /\ QueuedOnce' /\ AcksInOrder'
  BY <1>2, <1>3, OrderStays DEF AcksInv, Known, QueuedOnce
<1>5. /\ \A x \in Acts' : x \in Acts
      /\ \A x \in Acts : x.pc = "drain" => x \in Acts'
  BY <1>1, Typed
<1>6. QueuedOpen'
  BY <1>2, <1>3, <1>5 DEF AcksInv, QueuedOpen
<1>7. Handling' /\ ToldRan'
  BY <1>2, <1>3, <1>5 DEF AcksInv, Handling, ToldRan
<1>8. Earlier' /\ Direct' /\ RunningFirst'
  BY <1>2, <1>5 DEF AcksInv, Earlier, Direct, RunningFirst
<1> QED
  BY <1>1, <1>3, <1>4, <1>6, <1>7, <1>8 DEF AcksInv

\* Nothing is queued, sent or being handled at first.
LEMMA InitKept ==
  ASSUME DispatchAssumption, Init
  PROVE  AcksInv /\ NoneDropped
<1> DEFINE a == Activation("service", 0)
<1>1. stack = <<a>> /\ Len(stack) = 1 /\ stack[1] = a /\ a.d = 0 /\ a.pc = "service"
  BY DEF Init, Activation
<1>2. Acts = {a} /\ StackOrdered /\ top = a
  <2> HIDE DEF a
  <2>1. 1..1 = {1}
    OBVIOUS
  <2> QED
    BY <1>1, <2>1 DEF Acts, StackOrdered, top
<1>3. /\ \A s \in Slots : acks[s] = None
      /\ \A d \in Deliveries : told[d] = <<>> /\ before[d] = {}
      /\ AtMcu = {} /\ mcuBusy = {} /\ mcuOut = <<>> /\ dropped = {}
  BY DEF Init, AtMcu
<1>4. Known /\ McuDistinct /\ McuOpen /\ QueuedOnce /\ AcksInOrder
  BY <1>3 DEF Known, McuDistinct, McuOpen, QueuedOnce, AcksInOrder
<1>5. QueuedOpen /\ Handling /\ ToldRan /\ Earlier /\ Direct /\ RunningFirst
  BY <1>1, <1>2, <1>3
  DEF QueuedOpen, Handling, ToldRan, Earlier, Direct, RunningFirst
<1>6. Busy = {}
  BY <1>3 DEF Busy, FreeSlots
<1>7. Cardinality(Busy) <= MaxDepth
  BY <1>6, FS_EmptySet DEF DispatchAssumption
<1>8. BusyBound
  BY <1>1, <1>2, <1>7 DEF BusyBound
<1> QED
  BY <1>2, <1>3, <1>4, <1>5, <1>8 DEF AcksInv, NoneDropped

\* Every step keeps what is queued, told and being handled consistent.
LEMMA StepKept ==
  ASSUME DispatchAssumption, IInv, IInv', AcksInv, [Next]_vars
  PROVE  AcksInv'
<1> DEFINE Ran == {ran[j] : j \in 1..Len(ran)}
<1>1. /\ TypeOK /\ StackOK /\ DataOK /\ top \in ActivationType
      /\ top.pc \in PcsOf(top.d)
  BY InvariantParts DEF IInv
<1>2. ASSUME NEW pc \in Pcs, NEW pump \in BOOLEAN
      PROVE  /\ Goto(pc, pump) \in ActivationType
             /\ Goto(pc, pump).d = top.d
             /\ Goto(pc, pump).pc = pc
  BY <1>1, GotoType
<1>3. ASSUME NEW status \in Statuses \ {"accepted"},
             NEW pc \in {"flash", "flashing", "restart", "return"},
             top.pc \in {"dispatch", "flash", "flashing"},
             PublishAck(top.d, status, Goto(pc, FALSE)),
             \/ pc \in {"restart", "return"}
             \/ status = "running" /\ req[top.d].name = Flash,
             req[top.d].name \notin Functions \/ status # "succeeded",
             UNCHANGED <<acks, mcuBusy, mcuOut, heard>>,
             UNCHANGED <<req, amid, before, ran>>
      PROVE  AcksInv'
  <2>1. top.d # 0
    BY <1>1, <1>3 DEF PcsOf
  <2> DEFINE a == Goto(pc, FALSE)
  <2>2. pc \in Pcs
    BY <1>3 DEF Pcs
  <2>3. a \in ActivationType /\ a.d = top.d /\ a.pc = pc
    BY <1>2, <2>2
  <2>4. /\ Ran \subseteq {ran'[j] : j \in 1..Len(ran')}
        /\ PublishAck(top.d, status, a)
    BY <1>3
  <2> HIDE DEF a
  <2>5. \/ a.pc \in {"restart", "return"}
        \/ /\ a.pc \in {"flash", "flashing"}
           /\ status = "running"
           /\ req[top.d].name = Flash
    BY <1>3, <2>3
  <2> QED
    BY <1>3, <2>1, <2>3, <2>4, <2>5, AnswersKept
<1>4. CASE NoMessage
  <2>1. /\ [top EXCEPT !.pump = FALSE] \in ActivationType
        /\ [top EXCEPT !.pump = FALSE].d = top.d
        /\ [top EXCEPT !.pump = FALSE].pc = top.pc
        /\ [top EXCEPT !.pump = FALSE].i = top.i
    BY <1>1 DEF ActivationType
  <2> QED
    BY <1>4, <2>1, GoesOnKept DEF NoMessage, history
<1>5. CASE DrainAck
  BY <1>5, DrainAckKept
<1>6. CASE DrainDone
  <2>1. CASE top.d = 0
    <3>1. Becomes(Goto("link", FALSE)) /\ top.pc = "drain"
      BY <1>6, <2>1 DEF DrainDone, At
    <3> QED
      BY <1>2, <1>6, <3>1, GoesOnKept DEF DrainDone, history, Pcs
  <2>2. CASE top.d # 0
    <3>1. Becomes(Goto("dispatch", TRUE)) /\ top.pc = "drain"
      BY <1>6, <2>2 DEF DrainDone, At
    <3> QED
      BY <1>2, <1>6, <3>1, GoesOnKept DEF DrainDone, history, Pcs
  <2> QED
    BY <2>1, <2>2
<1>7. CASE IgnoreNameless
  BY <1>2, <1>7, GoesOnKept DEF IgnoreNameless, history, At, Pcs
<1>8. CASE AnswerFromCache
  <2>1. PICK k \in 1..Len(cache) :
          /\ cache[k].id = Id
          /\ PublishAck(top.d, CachedStatus(cache[k]), Goto("return", FALSE))
    BY <1>8 DEF AnswerFromCache
  <2>2. cache[k] \in Result
    BY <1>1, <2>1, ElementOfSeq DEF DataOK
  <2>3. /\ CachedStatus(cache[k]) \in Statuses \ {"accepted"}
        /\ CachedStatus(cache[k]) = "succeeded" =>
             cache[k] = Entry(Id, Name, "succeeded")
    <3>1. cache[k] = [id |-> cache[k].id, name |-> cache[k].name,
                      status |-> cache[k].status]
      BY <2>2 DEF Result
    <3> QED
      BY <2>1, <2>2, <3>1 DEF CachedStatus, Entry, Result, Statuses, Outcomes
  <2>4. cache[k] \in Ran
    <3>1. cache[k] = ran[Len(ran) - Len(cache) + k]
      BY <2>1 DEF IInv, CacheIsRecent
    <3>2. Len(ran) - Len(cache) + k \in 1..Len(ran)
      <4>1. Len(cache) <= Len(ran) /\ Len(cache) \in Nat /\ Len(ran) \in Nat
        BY <1>1 DEF IInv, CacheIsRecent, DataOK, DispatchAssumption
      <4> QED
        BY <2>1, <4>1
    <3> QED
      BY <3>1, <3>2
  <2>5. /\ top.pc = "dispatch" /\ top.d # 0
        /\ UNCHANGED <<acks, mcuBusy, mcuOut, heard>>
        /\ UNCHANGED <<req, amid, before, ran>>
    BY <1>1, <1>8 DEF AnswerFromCache, At, PcsOf
  <2>6. CachedStatus(cache[k]) = "succeeded" =>
          Entry(req[top.d].id, req[top.d].name, "succeeded") \in Ran
    BY <2>3, <2>4 DEF Id, Name
  <2> DEFINE a == Goto("return", FALSE)
             status == CachedStatus(cache[k])
  <2>7. /\ a \in ActivationType /\ a.d = top.d /\ a.pc = "return"
        /\ PublishAck(top.d, status, a)
        /\ status \in Statuses \ {"accepted"}
    BY <1>2, <2>1, <2>3 DEF Pcs
  <2>8. /\ Ran \subseteq {ran'[j] : j \in 1..Len(ran')}
        /\ status = "succeeded" =>
             Entry(req[top.d].id, req[top.d].name, "succeeded")
               \in {ran'[j] : j \in 1..Len(ran')}
    BY <2>5, <2>6
  <2> HIDE DEF a, status
  <2> QED
    BY <2>5, <2>7, <2>8, AnswersKept
<1>9. ASSUME NEW status \in Outcomes, RunFunction(status)
      PROVE  AcksInv'
  <2> DEFINE e == Entry(Id, Name, status)
  <2>1. top.pc = "dispatch" /\ top.d # 0
    BY <1>1, <1>9 DEF RunFunction, At, PcsOf
  <2>2. Id \in Ids /\ Name \in Functions
    BY <1>1, <1>9, <2>1, CallbackDelivery DEF RunFunction, IInv
  <2>3. ran \in Seq(Result) /\ e \in Result /\ ran' = Append(ran, e)
    BY <1>1, <1>9, <2>2 DEF RunFunction, DataOK, Entry, Result
  <2>4. /\ Len(ran') = Len(ran) + 1 /\ Len(ran) \in Nat
        /\ ran'[Len(ran) + 1] = e
        /\ \A k \in 1..Len(ran) : ran'[k] = ran[k]
    BY <2>3, AppendProperties
  <2>5. Ran \subseteq {ran'[j] : j \in 1..Len(ran')} /\ e \in {ran'[j] : j \in 1..Len(ran')}
    BY <2>4
  <2>6. status = "succeeded" => e = Entry(req[top.d].id, req[top.d].name, "succeeded")
    BY DEF Id, Name
  <2>7. /\ status \in Statuses \ {"accepted"}
        /\ PublishAck(top.d, status, Goto("return", FALSE))
        /\ UNCHANGED <<acks, mcuBusy, mcuOut, heard, req, amid, before>>
    BY <1>9 DEF RunFunction, Statuses, Outcomes
  <2> HIDE DEF e
  <2> QED
    BY <1>2, <2>1, <2>5, <2>6, <2>7, AnswersKept DEF Pcs
<1>10. ASSUME NEW status \in Outcomes, EndFlash(status)
       PROVE  AcksInv'
  <2>1. top.pc = "flashing" /\ top.d # 0 /\ top \in Acts
    BY <1>1, <1>10, Typed DEF EndFlash, At, PcsOf
  <2>2. req[top.d].name \notin Functions
    BY <2>1 DEF AcksInv, Handling, DispatchAssumption
  <2>3. status \in Statuses \ {"accepted"}
    BY DEF Statuses, Outcomes
  <2>4. PICK pc \in {"restart", "return"} : PublishAck(top.d, status, Goto(pc, FALSE))
    <3>1. CASE status = "failed"
      BY <1>10, <3>1 DEF EndFlash
    <3>2. CASE status # "failed"
      BY <1>10, <3>2 DEF EndFlash
    <3> QED
      BY <3>1, <3>2
  <2> QED
    BY <1>3, <1>10, <2>1, <2>2, <2>3, <2>4 DEF EndFlash
<1>11. CASE ForwardFails
  BY <1>11, ForwardFailsKept
<1>12. CASE Forward
  BY <1>12, ForwardKept
<1>13. CASE RejectFlash
  <2>1. "failed" \in Statuses \ {"accepted"}
    BY DEF Statuses, Outcomes
  <2> QED
    BY <1>3, <1>13, <2>1 DEF RejectFlash, At
<1>14. CASE StartFlash
  <2>1. "running" \in Statuses \ {"accepted"}
    BY DEF Statuses
  <2> QED
    BY <1>3, <1>14, <2>1 DEF StartFlash, At, Name
<1>15. CASE Download
  BY <1>2, <1>15, GoesOnKept DEF Download, history, At, Pcs
<1>16. CASE Progress
  <2>1. /\ [top EXCEPT !.i = 2] \in ActivationType
        /\ [top EXCEPT !.i = 2].d = top.d
        /\ [top EXCEPT !.i = 2].pc = top.pc
    BY <1>1, SecondType
  <2>2. top.pc = "flashing" /\ top.d # 0 /\ top \in Acts
    BY <1>1, <1>16, Typed DEF Progress, At, PcsOf
  <2>3. req[top.d].name = Flash /\ "running" \in Statuses \ {"accepted"}
    BY <2>2 DEF AcksInv, Handling, Statuses
  <2> QED
    BY <1>16, <2>1, <2>2, <2>3, AnswersKept DEF Progress
<1>17. CASE Restart
  BY <1>17, RestartKept
<1>18. CASE Return
  BY <1>18, ReturnKept
<1>19. CASE Service
  <2>1. PICK connected \in BOOLEAN : Becomes(Goto("drain", connected))
    BY <1>19 DEF Service
  <2>2. top.pc = "service"
    BY <1>19 DEF Service, At
  <2> QED
    BY <1>2, <1>19, <2>1, <2>2, GoesOnKept DEF Service, history, Pcs
<1>20. CASE PollStatus \/ PollAgain
  BY <1>20, PollKept
<1>21. CASE LinkDone
  BY <1>2, <1>21, GoesOnKept DEF LinkDone, history, At, Pcs
<1>22. ASSUME NEW id \in Ids, NEW name \in Names, Deliver(id, name)
       PROVE  AcksInv'
  BY <1>22, DeliverKept
<1>23. ASSUME NEW d \in mcuBusy, NEW status \in Outcomes,
              McuFinishes(d, status)
       PROVE  AcksInv'
  BY <1>23, McuFinishesKept
<1>24. CASE UNCHANGED vars
  <2>1. /\ UNCHANGED <<stack, acks, cache, mcuBusy, mcuOut, heard>>
        /\ UNCHANGED <<req, amid, told, before, ran>>
    BY <1>24 DEF vars, history
  <2>2. AtMcu' = AtMcu /\ Acts' = Acts /\ StackOrdered'
    BY <2>1 DEF AtMcu, Acts, AcksInv, StackOrdered
  <2>3. McuDistinct' /\ McuOpen' /\ AcksInOrder'
    BY <2>1, McuStays, OrderStays
  <2>4. Known' /\ QueuedOnce' /\ QueuedOpen' /\ Handling' /\ ToldRan'
    BY <2>1, <2>2
    DEF AcksInv, Known, QueuedOnce, QueuedOpen, Handling, ToldRan
  <2>5. Earlier' /\ Direct' /\ RunningFirst'
    BY <2>1, <2>2 DEF AcksInv, Earlier, Direct, RunningFirst
  <2> QED
    BY <2>2, <2>3, <2>4, <2>5 DEF AcksInv
<1> QED
  BY <1>4, <1>5, <1>6, <1>7, <1>8, <1>9, <1>10, <1>11, <1>12, <1>13, <1>14,
     <1>15, <1>16, <1>17, <1>18, <1>19, <1>20, <1>21, <1>22, <1>23, <1>24
  DEF Next, DeviceStep

\* The invariants about the queue and the acks hold in every behaviour.
THEOREM DispatchAcksInvariant == Spec => [](AcksInv /\ NoneDropped)
<1>1. Init => AcksInv /\ NoneDropped
  BY InitKept, DispatchAssumption
<1>2. IInv /\ IInv' /\ AcksInv /\ NoneDropped /\ [Next]_vars => (AcksInv /\ NoneDropped)'
  <2> SUFFICES ASSUME IInv, IInv', AcksInv, NoneDropped, [Next]_vars
               PROVE  (AcksInv /\ NoneDropped)'
    OBVIOUS
  <2>1. AcksInv'
    BY StepKept, DispatchAssumption
  <2>2. NoneDropped'
    BY StepBounded, DispatchAssumption DEF NoneDropped, AcksInv
  <2> QED
    BY <2>1, <2>2
<1> QED
  BY <1>1, <1>2, DispatchInvariant, PTL DEF Spec

\* No ack is lost to a full queue while fewer callbacks nest than there are
\* slots, for any number of slots, levels and commands: each callback publishes
\* what is queued before it adds to it.
THEOREM DispatchQueueNeverFull == Spec => []QueueNeverFull
<1>1. NoneDropped => QueueNeverFull
  BY DEF NoneDropped, QueueNeverFull
<1> QED
  BY <1>1, DispatchAcksInvariant, PTL

\* Whichever activation publishes what is queued and however often the bridge
\* restarts, each run tells of a delivery accepted first and one outcome, which
\* only the running of a command that arrived in the middle of other work can
\* follow; and what it tells again is the outcome that an earlier run told.
THEOREM DispatchAcksInOrder == Spec => []AcksInOrder
<1>1. AcksInv => AcksInOrder
  BY DEF AcksInv
<1> QED
  BY <1>1, DispatchAcksInvariant, PTL

\* The host hears success of a function only when that function ran under that
\* id and succeeded, however the callbacks nest and the cache is reused.
THEOREM DispatchToldWhatRan == Spec => []ToldWhatRan
<1>1. IInv /\ AcksInv => ToldWhatRan
  <2> SUFFICES ASSUME IInv, AcksInv, NEW k \in 1..(Len(stack) - 1),
                      req[stack[k].d].name \in Functions,
                      Heard(told[stack[k].d], "succeeded")
               PROVE  Entry(req[stack[k].d].id, req[stack[k].d].name, "succeeded")
                        \in {ran[j] : j \in 1..Len(ran)}
    BY DEF ToldWhatRan, Heard
  <2>1. Len(stack) \in Nat
    BY DEF IInv, TypeOK
  <2>2. k \in 1..Len(stack) /\ k # Len(stack)
    BY <2>1
  <2>3. stack[k] \in Acts /\ stack[k].d # 0
    BY <2>2 DEF Acts, IInv, TypeOK
  <2> QED
    BY <2>3 DEF AcksInv, ToldRan
<1> QED
  BY <1>1, DispatchInvariant, DispatchAcksInvariant, PTL
=============================================================================
