------------------------------ MODULE TimerProofs ------------------------------
(***************************************************************************)
(* Theorems about the components that only a clock drives: CliFrame,       *)
(* Reconnect, LinkSchedule and SetupTimers.  Their clock wraps, so that    *)
(* what the code compares is a difference of two times modulo the period;  *)
(* each invariant ties such a difference to the exact age that the history *)
(* counts, up to the point where the difference would no longer tell it,   *)
(* and the constants are such that the code has acted before.              *)
(***************************************************************************)
EXTENDS CliFrame, Reconnect, SetupTimers, LinkSchedule, FiniteSetTheorems,
        FunctionTheorems, SequenceTheorems, TLAPS

-----------------------------------------------------------------------------
(* The clock *)

\* How long ago t was at time n: the difference, and once the clock has wrapped
\* since, a period more.
LEMMA ElapsedIs ==
  ASSUME ClockAssumption, NEW n \in Times, NEW t \in Times
  PROVE  /\ (n - t) % Period = IF t <= n THEN n - t ELSE n - t + Period
         /\ (n - t) % Period \in Times
<1>1. Period \in Nat /\ n \in Int /\ t \in Int /\ 0 <= n /\ n < Period /\ 0 <= t /\ t < Period
  BY DEF ClockAssumption, Times
<1>2. CASE t <= n
  <2>1. n - t \in Int /\ 0 <= n - t /\ n - t < Period
    BY <1>1, <1>2
  <2>2. (n - t) % Period = n - t
    BY <1>1, <2>1
  <2> QED
    BY <1>1, <1>2, <2>1, <2>2 DEF Times
<1>3. CASE ~(t <= n)
  <2>1. n - t \in Int /\ 0 > n - t /\ n - t >= -Period /\ n - t + Period < Period
    BY <1>1, <1>3
  <2>2. (n - t) % Period = n - t + Period
    BY <1>1, <2>1
  <2> QED
    BY <1>1, <1>3, <2>1, <2>2 DEF Times
<1> QED
  BY <1>2, <1>3

\* The time a while after t.
LEMMA LaterIs ==
  ASSUME ClockAssumption, NEW t \in Times, NEW d \in 0..Period
  PROVE  /\ Later(t, d) = IF t + d < Period THEN t + d ELSE t + d - Period
         /\ Later(t, d) \in Times
<1>1. Period \in Nat /\ t \in Int /\ d \in Int /\ 0 <= t /\ t < Period /\ 0 <= d /\ d <= Period
  BY DEF ClockAssumption, Times
<1>2. CASE t + d < Period
  <2>1. (t + d) % Period = t + d
    BY <1>1, <1>2
  <2> QED
    BY <1>1, <1>2, <2>1 DEF Later, Times
<1>3. CASE ~(t + d < Period)
  <2>1. t + d \in Int /\ Period <= t + d /\ t + d < 2 * Period
    BY <1>1, <1>3
  <2>2. (t + d) % Period = t + d - Period
    BY <1>1, <2>1
  <2> QED
    BY <1>1, <1>3, <2>1, <2>2 DEF Later, Times
<1> QED
  BY <1>2, <1>3

\* The clock's own part of every invariant.
ClockOK == now \in Times /\ gap \in 0..LoopMs

\* A millisecond on, everything is a millisecond longer ago, until that wraps.
LEMMA TickKeeps ==
  ASSUME ClockAssumption, ClockOK, Tick
  PROVE  /\ ClockOK'
         /\ gap' = gap + 1
         /\ \A t \in Times : (now' - t) % Period =
              IF ((now - t) % Period) + 1 < Period
                THEN ((now - t) % Period) + 1 ELSE 0
<1>1. /\ Period \in Nat /\ LoopMs \in Nat /\ 1 \in 0..Period
      /\ now \in Times
  BY DEF ClockAssumption, ClockOK
<1>2. /\ now' = IF now + 1 < Period THEN now + 1 ELSE now + 1 - Period
      /\ now' \in Times
  BY <1>1, LaterIs DEF Tick
<1>3. ClockOK' /\ gap' = gap + 1
  BY <1>1, <1>2 DEF Tick, ClockOK
<1>4. ASSUME NEW t \in Times
      PROVE  (now' - t) % Period =
               IF ((now - t) % Period) + 1 < Period
                THEN ((now - t) % Period) + 1 ELSE 0
  <2>1. /\ (now - t) % Period = IF t <= now THEN now - t ELSE now - t + Period
        /\ (now' - t) % Period = IF t <= now' THEN now' - t ELSE now' - t + Period
    BY <1>1, <1>2, ElapsedIs
  <2>2. now \in Int /\ t \in Int /\ 0 <= now /\ now < Period /\ 0 <= t /\ t < Period
    BY <1>1 DEF Times
  <2> QED
    BY <1>1, <1>2, <2>1, <2>2
<1> QED
  BY <1>3, <1>4

\* The loop comes round: no time passes.
LEMMA PassKeeps ==
  ASSUME ClockAssumption, ClockOK, Pass
  PROVE  ClockOK' /\ gap' = 0 /\ now' = now
BY DEF ClockAssumption, ClockOK, Pass

-----------------------------------------------------------------------------
(* CliFrame: the inductive invariant *)

CliType ==
  /\ ClockOK
  /\ buffer \in [0..MaximumLineLength -> Bytes]
  /\ length \in 0..MaximumLineLength
  /\ startedAt \in Times
  /\ active \in BOOLEAN
  /\ discarding \in BOOLEAN
  /\ sawCarriageReturn \in BOOLEAN
  /\ reading \in {None} \cup (0..WorkLimit)
  /\ line \in Seq(Bytes)
  /\ age \in 0..FrameTimeoutMs

\* Between lines nothing is left of the last one.
CliIdle ==
  /\ active <=> line # <<>>
  /\ ~active => length = 0 /\ ~discarding /\ ~sawCarriageReturn /\ age = 0
  /\ length <= Len(line)
  /\ \A i \in length..MaximumLineLength : buffer[i] = Wiped

\* The timer of the frame counts its exact age, until it expires at most one
\* pass of the loop late, before the clock could come round.
CliTimer ==
  /\ active => /\ age < FrameTimeoutMs => Elapsed(startedAt) = age
               /\ age = FrameTimeoutMs => Elapsed(startedAt) >= FrameTimeoutMs
               /\ Elapsed(startedAt) < FrameTimeoutMs + gap
  /\ reading # None => age < FrameTimeoutMs

\* What makes a line malformed, whatever follows.
Malformed(l) ==
  \/ \E k \in 1..Len(l) : l[k] = "NUL" \/ (l[k] = "CR" /\ k < Len(l))
  \/ Len(l) > MaximumLineLength /\ l[MaximumLineLength + 1] # "CR"

\* The frame is the line so far, or is discarded because the line cannot be
\* whole.
CliContent ==
  /\ ~discarding =>
       /\ \A k \in 1..length : line[k] = "x"
       /\ Len(line) = IF sawCarriageReturn THEN length + 1 ELSE length
       /\ sawCarriageReturn => line[Len(line)] = "CR"
  /\ discarding => Malformed(line)

CliInv == CliType /\ CliIdle /\ CliTimer /\ CliContent

\* A malformed line is not whole, and one more byte does not mend it.
LEMMA MalformedStays ==
  ASSUME FrameAssumption, NEW l \in Seq(Bytes), Malformed(l)
  PROVE  /\ ~Whole(l)
         /\ \A byte \in Bytes : Malformed(Append(l, byte))
<1>1. Len(l) \in Nat /\ MaximumLineLength \in Nat /\ MaximumLineLength > 0
  BY DEF FrameAssumption
<1>2. l # <<>>
  BY <1>1 DEF Malformed
<1>3. ~Whole(l)
  <2>1. CASE l[Len(l)] = "CR"
    BY <1>1, <1>2, <2>1 DEF Whole, Malformed
  <2>2. CASE l[Len(l)] # "CR"
    BY <1>1, <1>2, <2>2 DEF Whole, Malformed
  <2> QED
    BY <2>1, <2>2
<1>4. ASSUME NEW byte \in Bytes
      PROVE  Malformed(Append(l, byte))
  <2>1. /\ Len(Append(l, byte)) = Len(l) + 1
        /\ \A k \in 1..Len(l) : Append(l, byte)[k] = l[k]
    BY AppendProperties
  <2> QED
    BY <1>1, <2>1 DEF Malformed
<1> QED
  BY <1>3, <1>4

\* reset leaves nothing behind.
LEMMA ResetWipes ==
  ASSUME FrameAssumption, CliInv, Reset
  PROVE  /\ buffer' \in [0..MaximumLineLength -> Bytes]
         /\ \A i \in 0..MaximumLineLength : buffer'[i] = Wiped
         /\ length' = 0 /\ startedAt' = 0
         /\ active' = FALSE /\ discarding' = FALSE /\ sawCarriageReturn' = FALSE
<1>1. buffer \in [0..MaximumLineLength -> Bytes] /\ length \in Nat
  BY DEF CliInv, CliType
<1>2. Wiped \in Bytes
  BY DEF Wiped, Bytes
<1>3. DOMAIN buffer = 0..MaximumLineLength
  BY <1>1
<1>4. ASSUME NEW i \in 0..MaximumLineLength
      PROVE  buffer'[i] = Wiped
  <2>1. buffer'[i] = IF i < length THEN Wiped ELSE buffer[i]
    BY <1>3 DEF Reset
  <2>2. ~(i < length) => i \in length..MaximumLineLength
    BY <1>1 DEF FrameAssumption
  <2> QED
    BY <2>1, <2>2 DEF CliInv, CliIdle
<1>5. buffer' \in [0..MaximumLineLength -> Bytes]
  BY <1>1, <1>2, <1>3 DEF Reset
<1> QED
  BY <1>4, <1>5 DEF Reset

\* The state after a reset satisfies the invariant.
LEMMA ResetKeeps ==
  ASSUME ClockAssumption, FrameAssumption, CliInv, Reset, ClockOK',
         line' = <<>>, age' = 0, reading' \in {None} \cup (0..WorkLimit)
  PROVE  CliInv'
<1>1. /\ buffer' \in [0..MaximumLineLength -> Bytes]
      /\ \A i \in 0..MaximumLineLength : buffer'[i] = Wiped
      /\ length' = 0 /\ startedAt' = 0
      /\ active' = FALSE /\ discarding' = FALSE /\ sawCarriageReturn' = FALSE
  BY ResetWipes
<1>2. 0 \in 0..FrameTimeoutMs /\ 0 \in 0..MaximumLineLength /\ 0 \in Times
      /\ 0 < FrameTimeoutMs
  BY DEF ClockAssumption, FrameAssumption, Times
<1>3. CliType'
  BY <1>1, <1>2 DEF CliType
<1>4. CliIdle'
  BY <1>1 DEF CliIdle
<1>5. CliTimer'
  BY <1>1, <1>2 DEF CliTimer
<1>6. CliContent'
  BY <1>1 DEF CliContent
<1> QED
  BY <1>3, <1>4, <1>5, <1>6 DEF CliInv

\* A byte that does not end the line.
LEMMA CollectKeeps ==
  ASSUME ClockAssumption, FrameAssumption, CliInv, reading # None,
         NEW byte \in Bytes \ {"LF"}, Push(byte), UNCHANGED <<now, gap>>,
         reading' \in 0..WorkLimit
  PROVE  CliInv' /\ line' # <<>> /\ result' = "NONE"
<1> DEFINE n == Len(line)
           M == MaximumLineLength
<1>1. /\ M \in Nat /\ M > 0 /\ n \in Nat /\ line \in Seq(Bytes) /\ length \in 0..M
      /\ FrameTimeoutMs \in Nat /\ FrameTimeoutMs > 0
  BY DEF CliInv, CliType, FrameAssumption
<1>2. /\ Collect(byte) /\ result' = "NONE" /\ age' = age
      /\ line' = IF n < M + 2 THEN Append(line, byte) ELSE line
  BY DEF Push
<1>3. /\ Len(Append(line, byte)) = n + 1
      /\ Append(line, byte) \in Seq(Bytes)
      /\ Append(line, byte)[n + 1] = byte
      /\ \A k \in 1..n : Append(line, byte)[k] = line[k]
  BY <1>1, AppendProperties
<1>4. /\ line' \in Seq(Bytes)
      /\ Len(line') = IF n < M + 2 THEN n + 1 ELSE n
      /\ line' # <<>>
      /\ \A k \in 1..n : line'[k] = line[k]
  <2> HIDE DEF M, n
  <2>1. CASE n < M + 2
    BY <1>1, <1>2, <1>3, <2>1
  <2>2. CASE ~(n < M + 2)
    <3>1. n > 0 /\ line' = line
      BY <1>1, <1>2, <2>2
    <3> QED
      BY <1>1, <2>2, <3>1 DEF n
  <2> QED
    BY <2>1, <2>2
<1>5. ClockOK' /\ now \in Times
  BY DEF CliInv, CliType, ClockOK
<1>6. /\ startedAt' \in Times
      /\ active' = TRUE
      /\ discarding' = (discarding \/ Discards(byte))
      /\ discarding' \in BOOLEAN
      /\ sawCarriageReturn' = (sawCarriageReturn \/ byte = "CR")
      /\ sawCarriageReturn' \in BOOLEAN
  BY <1>2, <1>5 DEF Collect, CliInv, CliType, Discards
<1>7. CliTimer'
  <2>1. (now - now) % Period = 0
    BY <1>5, ElapsedIs DEF Times, ClockAssumption
  <2>2. ~active => startedAt' = now /\ age = 0
    BY <1>2 DEF Collect, CliInv, CliIdle
  <2>3. active => startedAt' = startedAt
    BY <1>2 DEF Collect
  <2>4. gap \in Nat
    BY DEF CliInv, CliType, ClockOK, ClockAssumption
  <2>5. CASE active
    BY <1>2, <2>3, <2>5 DEF CliInv, CliTimer, Elapsed
  <2>6. CASE ~active
    BY <1>1, <1>2, <2>1, <2>2, <2>4, <2>6 DEF CliInv, CliTimer, Elapsed
  <2> QED
    BY <2>5, <2>6 DEF CliInv, CliType
<1>8. CASE byte = "CR" \/ Discards(byte)
  <2>1. buffer' = buffer /\ length' = length
    BY <1>2, <1>8 DEF Collect
  <2>2. CliType'
    BY <1>2, <1>4, <1>5, <1>6, <2>1 DEF CliInv, CliType
  <2>3. CliIdle'
    BY <1>1, <1>4, <1>6, <2>1 DEF CliInv, CliIdle
  <2>4. CliContent'
    <3>1. CASE discarding
      <4>1. Malformed(line')
        BY <1>2, <1>1, <3>1, MalformedStays DEF CliInv, CliContent
      <4> QED
        BY <1>6, <3>1, <4>1 DEF CliContent
    <3>2. CASE ~discarding /\ Discards(byte)
      <4>1. /\ \A k \in 1..length : line[k] = "x"
            /\ n = IF sawCarriageReturn THEN length + 1 ELSE length
            /\ sawCarriageReturn => line[n] = "CR"
        BY <3>2 DEF CliInv, CliContent
      <4>2. n < M + 2 /\ line' = Append(line, byte)
        BY <1>1, <1>2, <4>1 DEF CliInv, CliType
      <4>3. CASE sawCarriageReturn
        <5>1. n \in 1..Len(line') /\ n < Len(line') /\ line'[n] = "CR"
          BY <1>1, <1>4, <4>1, <4>2, <4>3
        <5> QED
          BY <1>6, <3>2, <5>1 DEF CliContent, Malformed
      <4>4. CASE ~sawCarriageReturn /\ byte = "NUL"
        <5>1. n + 1 \in 1..Len(line') /\ line'[n + 1] = "NUL"
          BY <1>1, <1>3, <1>4, <4>2, <4>4
        <5> QED
          BY <1>6, <3>2, <5>1 DEF CliContent, Malformed
      <4>5. CASE ~sawCarriageReturn /\ byte # "NUL"
        <5>1. length >= M /\ byte # "CR"
          BY <3>2, <4>5 DEF Discards
        <5>2. n = M /\ Len(line') = M + 1
          BY <1>1, <1>4, <4>1, <4>2, <4>5, <5>1
        <5>3. line'[M + 1] # "CR"
          BY <1>3, <4>2, <5>1, <5>2
        <5>4. Len(line') > MaximumLineLength /\ line'[MaximumLineLength + 1] # "CR"
          BY <1>1, <5>2, <5>3
        <5>5. Malformed(line')
          BY <5>4 DEF Malformed
        <5> QED
          BY <1>6, <3>2, <5>5 DEF CliContent
      <4> QED
        BY <4>3, <4>4, <4>5
    <3>3. CASE ~discarding /\ ~Discards(byte)
      <4>1. byte = "CR" /\ ~sawCarriageReturn
        BY <1>8, <3>3 DEF Discards
      <4>2. /\ \A k \in 1..length : line[k] = "x"
            /\ n = length
        BY <3>3, <4>1 DEF CliInv, CliContent
      <4>3. line' = Append(line, byte) /\ Len(line') = length + 1
        BY <1>1, <1>2, <1>3, <4>2
      <4>4. line'[length + 1] = "CR" /\ \A k \in 1..length : line'[k] = "x"
        BY <1>3, <1>4, <4>1, <4>2, <4>3
      <4> QED
        BY <1>6, <2>1, <3>3, <4>1, <4>3, <4>4 DEF CliContent
    <3> QED
      BY <3>1, <3>2, <3>3
  <2> QED
    BY <1>2, <1>4, <1>7, <2>2, <2>3, <2>4 DEF CliInv
<1>9. CASE ~(byte = "CR" \/ Discards(byte))
  <2>1. /\ ~discarding /\ ~sawCarriageReturn /\ byte = "x" /\ length < M
        /\ discarding' = FALSE /\ sawCarriageReturn' = FALSE
    <3>1. ~Discards(byte) /\ byte \in {"NUL", "x"}
      BY <1>9 DEF Bytes
    <3>2. ~(sawCarriageReturn \/ byte = "NUL" \/ discarding \/ length >= M)
      BY <3>1 DEF Discards
    <3>3. discarding \in BOOLEAN /\ sawCarriageReturn \in BOOLEAN
      BY DEF CliInv, CliType
    <3>4. length < M
      BY <1>1, <3>2
    <3> QED
      BY <1>6, <3>1, <3>2, <3>3, <3>4
  <2>2. /\ buffer' = [buffer EXCEPT ![length] = byte]
        /\ length' = length + 1
    BY <1>2, <1>9 DEF Collect
  <2>3. /\ n = length
        /\ \A k \in 1..length : line[k] = "x"
    BY <2>1 DEF CliInv, CliContent
  <2>4. line' = Append(line, byte) /\ Len(line') = length + 1
    <3> HIDE DEF M, n
    <3> QED
      BY <1>1, <1>2, <1>4, <2>1, <2>3
  <2>5. /\ buffer' \in [0..M -> Bytes]
        /\ \A i \in 0..M : i # length => buffer'[i] = buffer[i]
        /\ length' \in 0..M
    BY <1>1, <2>1, <2>2 DEF CliInv, CliType
  <2>6. CliType'
    BY <1>2, <1>4, <1>5, <1>6, <2>5 DEF CliInv, CliType
  <2>7. \A i \in length'..M : buffer'[i] = Wiped
    <3>1. \A i \in length..M : buffer[i] = Wiped
      BY DEF CliInv, CliIdle
    <3> QED
      BY <1>1, <2>2, <2>5, <3>1
  <2>8. CliIdle'
    BY <1>1, <1>4, <1>6, <2>2, <2>4, <2>7 DEF CliIdle
  <2>9. \A k \in 1..length' : line'[k] = "x"
    <3>1. line'[n + 1] = "x"
      BY <1>3, <2>1, <2>4
    <3> QED
      BY <1>1, <1>4, <2>2, <2>3, <3>1
  <2>10. CliContent'
    BY <2>1, <2>2, <2>4, <2>9 DEF CliContent
  <2> QED
    BY <1>2, <1>4, <1>7, <2>6, <2>8, <2>10 DEF CliInv
<1> QED
  BY <1>8, <1>9


\* The invariant holds at boot.
LEMMA CliStartsRight ==
  ASSUME ClockAssumption, FrameAssumption, CliInit
  PROVE  CliInv
<1>1. /\ 0 \in 0..FrameTimeoutMs /\ 0 \in 0..MaximumLineLength /\ 0 \in 0..LoopMs
      /\ 0 \in Times /\ Wiped \in Bytes /\ FrameTimeoutMs \in Nat /\ 0 < FrameTimeoutMs
  BY DEF ClockAssumption, FrameAssumption, Times, Wiped, Bytes
<1>2. /\ ClockOK /\ buffer \in [0..MaximumLineLength -> Bytes]
      /\ \A i \in 0..MaximumLineLength : buffer[i] = Wiped
      /\ length = 0 /\ startedAt \in Times /\ active = FALSE /\ discarding = FALSE
      /\ sawCarriageReturn = FALSE /\ reading = None /\ line = <<>> /\ age = 0
  BY <1>1 DEF CliInit, ClockInit, ClockOK, Times
<1>3. CliType
  <2>1. line \in Seq(Bytes)
    BY <1>2
  <2> QED
    BY <1>1, <1>2, <2>1 DEF CliType
<1>4. CliIdle /\ CliTimer /\ CliContent
  BY <1>1, <1>2 DEF CliIdle, CliTimer, CliContent
<1> QED
  BY <1>3, <1>4 DEF CliInv

\* A step of the collector keeps the invariant.
LEMMA CliStepKeeps ==
  ASSUME ClockAssumption, FrameAssumption, CliInv, [CliNext]_cliVars
  PROVE  CliInv'
<1>1. /\ WorkLimit \in Nat /\ WorkLimit > 0 /\ FrameTimeoutMs \in Nat /\ FrameTimeoutMs > 0
      /\ LoopMs \in Nat /\ gap \in 0..LoopMs /\ Period \in Nat
      /\ FrameTimeoutMs + LoopMs < Period
      /\ ClockOK
  BY DEF ClockAssumption, FrameAssumption, CliInv, CliType, ClockOK
<1>2. CASE CliStarts
  <2>1. ClockOK' /\ gap' = 0 /\ now' = now /\ reading' = 0 /\ Expire
    BY <1>1, <1>2, PassKeeps DEF CliStarts
  <2>2. CASE Expired
    <3>1. Reset /\ line' = <<>> /\ age' = 0
      BY <2>1, <2>2 DEF Expire
    <3> QED
      BY <1>1, <2>1, <3>1, ResetKeeps
  <2>3. CASE ~Expired
    <3>1. UNCHANGED <<buffer, length, startedAt, active, discarding, sawCarriageReturn,
                      line, age>>
      BY <2>1, <2>3 DEF Expire, frameVars
    <3>2. active => Elapsed(startedAt) < FrameTimeoutMs
      <4>1. active => Elapsed(startedAt) \in Times
        BY <1>1, ElapsedIs DEF CliInv, CliType, ClockOK, Elapsed
      <4> QED
        BY <1>1, <2>3, <4>1 DEF Expired, Times
    <3>3. age < FrameTimeoutMs
      <4>1. age \in 0..FrameTimeoutMs
        BY DEF CliInv, CliType
      <4>2. CASE active
        <5>1. (now - startedAt) % Period \in Times
          BY <1>1, ElapsedIs DEF CliInv, CliType, ClockOK
        <5>2. Elapsed(startedAt) \in Nat
          BY <1>1, <5>1 DEF Elapsed, Times
        <5> QED
          BY <1>1, <3>2, <4>1, <4>2, <5>2 DEF CliInv, CliTimer
      <4>3. CASE ~active
        BY <1>1, <4>3 DEF CliInv, CliIdle
      <4> QED
        BY <4>2, <4>3 DEF CliInv, CliType
    <3>4. CliType'
      BY <1>1, <2>1, <3>1 DEF CliInv, CliType
    <3>5. CliIdle' /\ CliContent'
      BY <3>1 DEF CliInv, CliIdle, CliContent
    <3>6. CliTimer'
      <4>1. Elapsed(startedAt)' = Elapsed(startedAt)
        BY <2>1, <3>1 DEF Elapsed
      <4> QED
        BY <1>1, <2>1, <3>1, <3>2, <3>3, <4>1 DEF CliInv, CliTimer
    <3> QED
      BY <3>4, <3>5, <3>6 DEF CliInv
  <2> QED
    BY <2>2, <2>3
<1>3. CASE CliTakes
  <2>1. /\ reading # None /\ UNCHANGED <<now, gap>> /\ ClockOK'
        /\ reading' \in 0..WorkLimit
    BY <1>1, <1>3 DEF CliTakes, CliInv, CliType, None, ClockOK
  <2>2. PICK byte \in Bytes : Push(byte)
    BY <1>3 DEF CliTakes
  <2>3. CASE byte = "LF"
    BY <2>1, <2>2, <2>3, ResetKeeps DEF Push
  <2>4. CASE byte # "LF"
    BY <2>1, <2>2, <2>4, CollectKeeps
  <2> QED
    BY <2>3, <2>4
<1>4. CASE CliReturns
  <2>1. UNCHANGED <<now, gap, buffer, length, startedAt, active, discarding,
                    sawCarriageReturn, line, age>> /\ reading' = None
    BY <1>4 DEF CliReturns, frameVars
  <2>2. Elapsed(startedAt)' = Elapsed(startedAt)
    BY <2>1 DEF Elapsed
  <2> QED
    BY <2>1, <2>2 DEF CliInv, CliType, CliIdle, CliTimer, CliContent, ClockOK
<1>5. CASE CliTime
  <2>1. /\ Tick /\ (reading = None \/ line = <<>>)
        /\ age' = IF line = <<>> THEN age ELSE Upto(age, FrameTimeoutMs)
        /\ UNCHANGED <<buffer, length, startedAt, active, discarding,
                       sawCarriageReturn, reading, line>>
    BY <1>5 DEF CliTime, frameVars
  <2>2. age \in 0..FrameTimeoutMs
    BY DEF CliInv, CliType
  <2>3. age' \in 0..FrameTimeoutMs
        /\ (line # <<>> => age' = IF age < FrameTimeoutMs THEN age + 1 ELSE FrameTimeoutMs)
    BY <1>1, <2>1, <2>2 DEF Upto
  <2>4. /\ ClockOK' /\ gap' = gap + 1
        /\ Elapsed(startedAt)' = IF Elapsed(startedAt) + 1 < Period
                                 THEN Elapsed(startedAt) + 1 ELSE 0
        /\ Elapsed(startedAt) \in Nat
    <3>1. startedAt \in Times /\ now \in Times
      BY DEF CliInv, CliType, ClockOK
    <3>2. (now - startedAt) % Period \in Times
      BY <3>1, ElapsedIs
    <3> QED
      BY <1>1, <2>1, <3>1, <3>2, TickKeeps DEF Elapsed, Times
  <2>5. CliType'
    BY <2>1, <2>3, <2>4 DEF CliInv, CliType
  <2>6. CliIdle'
    BY <2>1 DEF CliInv, CliIdle
  <2>7. CliContent'
    BY <2>1 DEF CliInv, CliContent
  <2>8. CliTimer'
    <3>1. active <=> line # <<>>
      BY DEF CliInv, CliIdle
    <3>2. CASE active
      <4>1. reading' = None /\ gap' \in 0..LoopMs
        BY <2>1, <2>4, <3>1, <3>2 DEF ClockOK
      <4>2. /\ age < FrameTimeoutMs => Elapsed(startedAt) = age
            /\ age = FrameTimeoutMs => Elapsed(startedAt) >= FrameTimeoutMs
            /\ Elapsed(startedAt) < FrameTimeoutMs + gap
        BY <3>2 DEF CliInv, CliTimer
      <4> QED
        BY <1>1, <2>1, <2>2, <2>3, <2>4, <3>1, <3>2, <4>1, <4>2 DEF CliTimer
    <3>3. CASE ~active
      BY <1>1, <2>1, <3>1, <3>3 DEF CliInv, CliTimer
    <3> QED
      BY <3>2, <3>3 DEF CliInv, CliType
  <2> QED
    BY <2>5, <2>6, <2>7, <2>8 DEF CliInv
<1>6. CASE UNCHANGED cliVars
  <2>1. UNCHANGED <<now, gap, buffer, length, startedAt, active, discarding,
                    sawCarriageReturn, reading, line, age>>
    BY <1>6 DEF cliVars, cliState, frameVars
  <2>2. Elapsed(startedAt)' = Elapsed(startedAt)
    BY <2>1 DEF Elapsed
  <2> QED
    BY <2>1, <2>2 DEF CliInv, CliType, CliIdle, CliTimer, CliContent, ClockOK
<1> QED
  BY <1>2, <1>3, <1>4, <1>5, <1>6 DEF CliNext

\* Between two lines nothing is left of the first, the timer shows the age of the
\* present one, and what was collected is the line so far or the line is malformed:
\* CliInv.
THEOREM CliInvariant == CliSpec => []CliInv
<1>1. CliInit => CliInv
  BY ClockAssumption, FrameAssumption, CliStartsRight
<1>2. CliInv /\ [CliNext]_cliVars => CliInv'
  BY ClockAssumption, FrameAssumption, CliStepKeeps
<1> QED
  BY <1>1, <1>2, PTL DEF CliSpec

\* The frame's buffer holds nothing but the line being collected: what belonged to a
\* line that was handed on, expired or was discarded has been wiped, and no call of
\* handleCliSerial goes on with a line that has outlived its frame.
THEOREM CliLineForgotten == CliSpec => []LineForgotten
<1>1. CliInv => LineForgotten
  BY DEF CliInv, CliIdle, CliTimer, LineForgotten
<1> QED
  BY <1>1, CliInvariant, PTL

\* A line is handed on exactly when it is whole.
LEMMA WholeIsReady ==
  ASSUME FrameAssumption, CliInv
  PROVE  ~discarding /\ length > 0 <=> Whole(line)
<1>1. /\ MaximumLineLength \in Nat /\ Len(line) \in Nat /\ line \in Seq(Bytes)
      /\ length \in 0..MaximumLineLength
  BY DEF FrameAssumption, CliInv, CliType
<1>2. CASE discarding
  BY <1>2, MalformedStays DEF CliInv, CliType, CliContent
<1>3. CASE ~discarding
  <2>1. /\ \A k \in 1..length : line[k] = "x"
        /\ Len(line) = IF sawCarriageReturn THEN length + 1 ELSE length
        /\ sawCarriageReturn => line[Len(line)] = "CR"
    BY <1>3 DEF CliInv, CliContent
  <2>2. CASE sawCarriageReturn
    <3>1. line # <<>> /\ line[Len(line)] = "CR" /\ Len(line) - 1 = length
      BY <1>1, <2>1, <2>2
    <3> QED
      BY <1>1, <1>3, <2>1, <3>1 DEF Whole
  <2>3. CASE ~sawCarriageReturn
    <3>1. Len(line) = length
      BY <2>1, <2>3
    <3>2. ~(line # <<>> /\ line[Len(line)] = "CR")
      <4>1. ASSUME line # <<>> PROVE line[Len(line)] = "x"
        BY <1>1, <2>1, <3>1, <4>1
      <4> QED
        BY <4>1
    <3> QED
      BY <1>1, <1>3, <2>1, <3>1, <3>2 DEF Whole
  <2> QED
    BY <2>2, <2>3
<1> QED
  BY <1>2, <1>3

\* The collector hands a line on exactly when all of it arrived well formed, that
\* is not too long, without a NUL and with at most one CR, its last byte, before the
\* timer of the frame expired: nothing of a discarded line reaches the commands.
THEOREM CliLineIsWhole == CliSpec => LineIsWhole
<1>1. ASSUME CliInv, [CliNext]_cliVars, reading # None, reading' = reading + 1
      PROVE  /\ result' = "READY" <=> line' = <<>> /\ Whole(line)
             /\ result' = "READY" => age < FrameTimeoutMs
  <2>1. reading \in Nat
    BY <1>1 DEF CliInv, CliType
  <2>2. CliTakes
    BY <1>1, <2>1 DEF CliNext, CliStarts, CliReturns, CliTime, cliVars, cliState, None
  <2>3. PICK byte \in Bytes : Push(byte)
    BY <2>2 DEF CliTakes
  <2>4. ~discarding /\ length > 0 <=> Whole(line)
    BY <1>1, FrameAssumption, WholeIsReady
  <2>5. age < FrameTimeoutMs
    BY <1>1 DEF CliInv, CliTimer
  <2>6. CASE byte = "LF"
    BY <2>3, <2>4, <2>5, <2>6 DEF Push
  <2>7. CASE byte # "LF"
    <3>1. reading' \in 0..WorkLimit /\ UNCHANGED <<now, gap>>
      BY <1>1, <2>1, <2>2, FrameAssumption DEF CliTakes, FrameAssumption
    <3>2. line' # <<>> /\ result' = "NONE"
      BY <1>1, <2>3, <2>7, <3>1, ClockAssumption, FrameAssumption, CollectKeeps
    <3> QED
      BY <3>2
  <2> QED
    BY <2>6, <2>7
<1>2. CliInv /\ [CliNext]_cliVars =>
        [reading # None /\ reading' = reading + 1 =>
           /\ result' = "READY" <=> line' = <<>> /\ Whole(line)
           /\ result' = "READY" => age < FrameTimeoutMs]_cliVars
  BY <1>1
<1> QED
  BY <1>2, CliInvariant, PTL DEF CliSpec, LineIsWhole

-----------------------------------------------------------------------------
(* Powers of two *)

\* 2^k counts the subsets of a set of k elements, so it is a positive number, and
\* one element more doubles it.
LEMMA PowersDouble ==
  ASSUME NEW k \in Nat
  PROVE  2^k \in Nat /\ 2^k > 0 /\ 2^(k + 1) = 2 * 2^k
<1> DEFINE S == 1..k
           e == k + 1
           T == 1..(k + 1)
           Old == SUBSET S
           New == {Y \cup {e} : Y \in SUBSET S}
<1>1. IsFiniteSet(S) /\ Cardinality(S) = k
  BY FS_Interval
<1>2. /\ IsFiniteSet(Old)
      /\ Cardinality(Old) = 2^k
      /\ Cardinality(Old) \in Nat
  BY <1>1, FS_SUBSET, FS_CardinalityType
<1>3. IsFiniteSet(T) /\ Cardinality(T) = k + 1
  BY FS_Interval
<1>4. IsFiniteSet(SUBSET T) /\ Cardinality(SUBSET T) = 2^(k + 1)
  BY <1>3, FS_SUBSET
<1>5. e \notin S /\ T = S \cup {e}
  OBVIOUS
<1> HIDE DEF e, S, T
<1>6. SUBSET T = Old \cup New
  <2>1. ASSUME NEW X \in SUBSET T
        PROVE  X \in Old \cup New
    <3>1. CASE e \in X
      <4>1. X \ {e} \in SUBSET S /\ X = (X \ {e}) \cup {e}
        BY <1>5, <3>1
      <4> QED
        BY <4>1
    <3>2. CASE e \notin X
      BY <1>5, <3>2
    <3> QED
      BY <3>1, <3>2
  <2>2. ASSUME NEW X \in Old \cup New
        PROVE  X \in SUBSET T
    BY <1>5
  <2> QED
    BY <2>1, <2>2
<1>7. Old \cap New = {}
  BY <1>5
<1>8. IsFiniteSet(New) /\ Cardinality(New) = Cardinality(Old)
  <2> DEFINE f == [Y \in Old |-> Y \cup {e}]
  <2>1. f \in Bijection(Old, New)
    <3>1. f \in [Old -> New]
      OBVIOUS
    <3>2. \A Y, Z \in Old : f[Y] = f[Z] => Y = Z
      BY <1>5
    <3>3. \A X \in New : \E Y \in Old : f[Y] = X
      OBVIOUS
    <3> QED
      BY <3>1, <3>2, <3>3, Fun_IsBij
  <2> HIDE DEF f
  <2>2. ExistsBijection(Old, New)
    BY <2>1 DEF ExistsBijection
  <2> QED
    BY <1>2, <2>2, FS_Bijection
<1>9. Cardinality(SUBSET T) = Cardinality(Old) + Cardinality(New) - Cardinality(Old \cap New)
  BY <1>2, <1>6, <1>8, FS_Union
<1>10. Cardinality(Old \cap New) = 0
  BY <1>7, FS_EmptySet
<1>11. Cardinality(Old) > 0
  <2>1. {} \in Old
    OBVIOUS
  <2> HIDE DEF Old
  <2>2. Cardinality(Old) # 0
    BY <1>2, <2>1, FS_EmptySet
  <2> QED
    BY <1>2, <2>2
<1> HIDE DEF Old, New
<1> QED
  BY <1>2, <1>4, <1>8, <1>9, <1>10, <1>11

-----------------------------------------------------------------------------
(* Reconnect *)

\* The pauses: from the first to the longest, each twice the one before while it
\* is no longer than that.
LEMMA BackoffIs ==
  ASSUME BackoffAssumption, NEW k \in Nat \ {0}
  PROVE  /\ Backoff(k) \in InitialBackoffMs..MaximumBackoffMs
         /\ Backoff(1) = InitialBackoffMs
         /\ Backoff(k + 1) = IF Backoff(k) >= MaximumBackoffMs \div 2
                             THEN MaximumBackoffMs ELSE 2 * Backoff(k)
<1> DEFINE p == 2^(k - 1)
           q == 2^k
           ms == InitialBackoffMs * p
           half == MaximumBackoffMs \div 2
<1>1. p \in Nat /\ p > 0 /\ q = 2 * p
  <2>1. k - 1 \in Nat /\ (k - 1) + 1 = k
    OBVIOUS
  <2> QED
    BY <2>1, PowersDouble
<1>2. /\ InitialBackoffMs \in Nat /\ InitialBackoffMs > 0 /\ MaximumBackoffMs \in Nat
      /\ InitialBackoffMs <= MaximumBackoffMs
      /\ half \in Nat /\ MaximumBackoffMs = 2 * half
  BY DEF BackoffAssumption
<1>3. 2^(1 - 1) = 1
  <2>1. 1 - 1 = 0 /\ 2^0 = 1
    OBVIOUS
  <2> QED
    BY <2>1
<1>4. Backoff(1) = InitialBackoffMs
  BY <1>2, <1>3 DEF Backoff
<1>5. Backoff(k) = IF ms < MaximumBackoffMs THEN ms ELSE MaximumBackoffMs
  BY DEF Backoff
<1>6. Backoff(k + 1) = IF InitialBackoffMs * q < MaximumBackoffMs
                       THEN InitialBackoffMs * q ELSE MaximumBackoffMs
  <2>1. (k + 1) - 1 = k
    OBVIOUS
  <2> QED
    BY <2>1 DEF Backoff
<1> HIDE DEF p, q, half
<1>7. ms \in Nat /\ ms >= InitialBackoffMs /\ InitialBackoffMs * q = 2 * ms
  BY <1>1, <1>2
<1> HIDE DEF ms
<1>8. Backoff(k) \in InitialBackoffMs..MaximumBackoffMs
  BY <1>2, <1>5, <1>7
<1>9. Backoff(k + 1) = IF Backoff(k) >= half THEN MaximumBackoffMs ELSE 2 * Backoff(k)
  BY <1>2, <1>5, <1>6, <1>7
<1> QED
  BY <1>4, <1>8, <1>9 DEF half

ReconnectType ==
  /\ ClockOK
  /\ nextAttemptAt \in Times
  /\ attemptImmediately \in BOOLEAN
  /\ connected \in BOOLEAN
  /\ failures \in Nat
  /\ sinceFailure \in Nat

\* The backoff is the one for the failures in a row, and there is none after a
\* success.
BackoffGrows ==
  /\ backoffMs = Backoff(failures + 1)
  /\ (attemptImmediately <=> failures = 0)
  /\ failures > 0 => ~connected

\* How long ago the deadline was: less than a pass of the loop, or it is still to
\* come, which the wrapped difference shows as a number near the period.
Deadline(pause) ==
  /\ sinceFailure <= pause + gap
  /\ Elapsed(nextAttemptAt) = IF sinceFailure < pause
                              THEN Period + sinceFailure - pause
                              ELSE sinceFailure - pause

Pauses(k) == Backoff(k)..(Backoff(k) + Backoff(k) \div 4)

PauseRuns == failures > 0 => \E pause \in Pauses(failures) : Deadline(pause)

ReconnectInv == ReconnectType /\ BackoffGrows /\ PauseRuns

\* The numbers the pauses are compared with.
LEMMA PauseBounds ==
  ASSUME ClockAssumption, BackoffAssumption, NEW k \in Nat \ {0}, NEW pause \in Pauses(k)
  PROVE  /\ Period \in Nat /\ Period \div 2 \in Nat /\ LoopMs \in Nat
         /\ 2 * (Period \div 2) <= Period
         /\ pause \in Nat /\ pause > 0 /\ pause + LoopMs < Period \div 2
         /\ Backoff(k) \in Nat /\ Backoff(k) <= pause
         /\ 4 * pause <= 5 * Backoff(k)
<1>1. /\ Period \in Nat /\ LoopMs \in Nat
      /\ InitialBackoffMs \in Nat /\ InitialBackoffMs > 0 /\ MaximumBackoffMs \in Nat
      /\ MaximumBackoffMs + MaximumBackoffMs \div 4 + LoopMs < Period \div 2
  BY DEF ClockAssumption, BackoffAssumption
<1>2. /\ Backoff(k) \in Nat /\ Backoff(k) > 0 /\ Backoff(k) <= MaximumBackoffMs
  BY <1>1, BackoffIs
<1> DEFINE B == Backoff(k)
           quarter == B \div 4
           most == MaximumBackoffMs \div 4
           half == Period \div 2
<1>3. pause \in B..(B + quarter)
  BY DEF Pauses
<1> HIDE DEF B
<1>4. quarter \in Nat /\ 4 * quarter <= B /\ quarter <= most /\ most \in Nat
  BY <1>1, <1>2 DEF B
<1>5. half \in Nat /\ 2 * half <= Period
  BY <1>1
<1>6. MaximumBackoffMs + most + LoopMs < half
  BY <1>1
<1> HIDE DEF quarter, most, half
<1>7. /\ pause \in Nat /\ pause > 0 /\ pause + LoopMs < half /\ B <= pause
      /\ 4 * pause <= 5 * B
  BY <1>1, <1>2, <1>3, <1>4, <1>5, <1>6 DEF B
<1> QED
  BY <1>1, <1>2, <1>5, <1>7 DEF B, half

\* What the deadline says of an attempt: it is due once the pause is over.
LEMMA DueAfterPause ==
  ASSUME ClockAssumption, BackoffAssumption, ReconnectType, failures > 0,
         NEW pause \in Pauses(failures), Deadline(pause)
  PROVE  Reached(nextAttemptAt) <=> sinceFailure >= pause
<1>1. failures \in Nat \ {0} /\ sinceFailure \in Nat /\ gap \in Nat /\ gap <= LoopMs
  BY DEF ReconnectType, ClockOK, ClockAssumption
<1>2. /\ Period \in Nat /\ Period \div 2 \in Nat /\ LoopMs \in Nat
      /\ 2 * (Period \div 2) <= Period
      /\ pause \in Nat /\ pause > 0 /\ pause + LoopMs < Period \div 2
  BY <1>1, PauseBounds
<1> DEFINE half == Period \div 2
<1>3. /\ half \in Nat /\ 2 * half <= Period /\ pause + LoopMs < half
  BY <1>2
<1>4. Reached(nextAttemptAt) <=> Elapsed(nextAttemptAt) < half
  BY DEF Reached
<1> HIDE DEF half
<1> QED
  BY <1>1, <1>2, <1>3, <1>4 DEF Deadline

\* A failure starts a pause.
LEMMA FailureKeeps ==
  ASSUME ClockAssumption, BackoffAssumption, ReconnectInv, AttemptFails
  PROVE  ReconnectInv'
<1>1. failures \in Nat /\ failures + 1 \in Nat \ {0} /\ now \in Times /\ ClockOK
      /\ backoffMs = Backoff(failures + 1)
  BY DEF ReconnectInv, ReconnectType, BackoffGrows, ClockOK
<1>2. /\ ClockOK' /\ gap' = 0 /\ now' = now /\ sinceFailure' = 0
      /\ connected' = FALSE /\ attemptImmediately' = FALSE
      /\ backoffMs' = Doubled
      /\ failures' = IF failures > 0 /\ Backoff(failures) = MaximumBackoffMs
                     THEN failures ELSE failures + 1
  BY <1>1, PassKeeps DEF AttemptFails, OnFailure, ReconnectInv, ReconnectType
<1>3. PICK jitter \in 0..(backoffMs \div 4) : nextAttemptAt' = Later(now, backoffMs + jitter)
  BY DEF AttemptFails, OnFailure
<1>4. /\ Backoff(failures') = Backoff(failures + 1)
      /\ Backoff(failures' + 1) = Doubled
      /\ failures' \in Nat /\ failures' > 0
  <2>1. Backoff((failures + 1) + 1) = Doubled
    BY <1>1, BackoffIs DEF Doubled
  <2>2. CASE failures > 0 /\ Backoff(failures) = MaximumBackoffMs
    <3>1. MaximumBackoffMs \in Nat /\ MaximumBackoffMs >= MaximumBackoffMs \div 2
      BY DEF BackoffAssumption
    <3>2. failures \in Nat \ {0}
      BY <1>1, <2>2
    <3>3. Backoff(failures + 1) = MaximumBackoffMs
      BY <2>2, <3>1, <3>2, BackoffIs
    <3> QED
      BY <1>1, <1>2, <2>2, <3>1, <3>3 DEF Doubled
  <2>3. CASE ~(failures > 0 /\ Backoff(failures) = MaximumBackoffMs)
    BY <1>1, <1>2, <2>1, <2>3
  <2> QED
    BY <2>2, <2>3
<1>5. backoffMs + jitter \in Pauses(failures + 1)
  <2>1. backoffMs \in Nat
    BY <1>1, BackoffIs DEF BackoffAssumption
  <2>2. backoffMs \div 4 \in Nat
    BY <2>1
  <2> DEFINE quarter == backoffMs \div 4
  <2>3. quarter \in Nat /\ jitter \in 0..quarter
    BY <2>2
  <2>4. Pauses(failures + 1) = backoffMs..(backoffMs + quarter)
    BY <1>1 DEF Pauses
  <2> HIDE DEF quarter
  <2> QED
    BY <2>1, <2>3, <2>4
<1> PICK pause \in Pauses(failures + 1) : pause = backoffMs + jitter
  BY <1>5
<1>6. /\ Period \in Nat /\ LoopMs \in Nat /\ Period \div 2 \in Nat
      /\ 2 * (Period \div 2) <= Period
      /\ pause \in Nat /\ pause > 0 /\ pause + LoopMs < Period \div 2
  BY <1>1, PauseBounds
<1>7. pause < Period /\ pause \in 0..Period
  <2> DEFINE half == Period \div 2
  <2>1. half \in Nat /\ 2 * half <= Period /\ pause + LoopMs < half
    BY <1>6
  <2> HIDE DEF half
  <2> QED
    BY <1>6, <2>1
<1>8. /\ nextAttemptAt' = IF now + pause < Period THEN now + pause ELSE now + pause - Period
      /\ nextAttemptAt' \in Times
  BY <1>1, <1>3, <1>7, LaterIs
<1>9. Elapsed(nextAttemptAt)' = Period - pause
  <2>1. Elapsed(nextAttemptAt)' = (now - nextAttemptAt') % Period
    BY <1>2 DEF Elapsed
  <2>2. (now - nextAttemptAt') % Period =
          IF nextAttemptAt' <= now THEN now - nextAttemptAt' ELSE now - nextAttemptAt' + Period
    BY <1>1, <1>8, ElapsedIs
  <2>3. now \in Nat /\ now < Period
    BY <1>1, <1>6 DEF Times
  <2> QED
    BY <1>6, <1>7, <1>8, <2>1, <2>2, <2>3
<1>10. Deadline(pause)'
  BY <1>2, <1>6, <1>9 DEF Deadline
<1>11. PauseRuns'
  <2>1. Pauses(failures') = Pauses(failures + 1)
    BY <1>4 DEF Pauses
  <2>2. pause \in Pauses(failures')
    BY <2>1
  <2>3. Pauses(failures)' = Pauses(failures')
    BY DEF Pauses, Backoff
  <2> QED
    BY <1>10, <2>2, <2>3 DEF PauseRuns
<1>12. ReconnectType'
  BY <1>2, <1>4, <1>8 DEF ReconnectType
<1>13. BackoffGrows'
  <2>1. Backoff(failures + 1)' = Backoff(failures' + 1)
    BY DEF Backoff
  <2> QED
    BY <1>2, <1>4, <2>1 DEF BackoffGrows
<1> QED
  BY <1>11, <1>12, <1>13 DEF ReconnectInv

\* A step of the reconnect policy keeps the invariant.
LEMMA ReconnectStepKeeps ==
  ASSUME ClockAssumption, BackoffAssumption, ReconnectInv, [ReconnectNext]_reconnectVars
  PROVE  ReconnectInv'
<1>1. /\ ClockOK /\ failures \in Nat /\ sinceFailure \in Nat /\ nextAttemptAt \in Times
      /\ gap \in Nat /\ gap <= LoopMs /\ now \in Times
  BY DEF ReconnectInv, ReconnectType, ClockOK, ClockAssumption
<1>2. CASE ServiceNothing
  <2>1. /\ ClockOK' /\ gap' = 0 /\ now' = now
        /\ UNCHANGED <<nextAttemptAt, backoffMs, attemptImmediately, connected,
                       failures, sinceFailure>>
    BY <1>1, <1>2, PassKeeps DEF ServiceNothing, policyVars
  <2>2. PauseRuns'
    <3>1. SUFFICES ASSUME failures > 0
                   PROVE  \E pause \in Pauses(failures) : Deadline(pause)'
      BY <2>1 DEF PauseRuns, Deadline, Pauses, Backoff
    <3>2. PICK pause \in Pauses(failures) : Deadline(pause)
      BY <3>1 DEF ReconnectInv, PauseRuns
    <3>3. ~Reached(nextAttemptAt)
      BY <1>2, <3>1 DEF ServiceNothing, AttemptDue, ReconnectInv, BackoffGrows
    <3>4. ~(sinceFailure >= pause) /\ pause \in Nat
      <4>1. failures \in Nat \ {0}
        BY <1>1, <3>1
      <4> QED
        BY <3>1, <3>2, <3>3, <4>1, DueAfterPause, PauseBounds DEF ReconnectInv
    <3>5. Elapsed(nextAttemptAt)' = Elapsed(nextAttemptAt)
      BY <2>1 DEF Elapsed
    <3>6. Deadline(pause)'
      BY <1>1, <2>1, <3>2, <3>4, <3>5 DEF Deadline
    <3> QED
      BY <3>6
  <2> QED
    BY <2>1, <2>2 DEF ReconnectInv, ReconnectType, BackoffGrows, Backoff
<1>3. CASE AttemptFails
  BY <1>3, FailureKeeps
<1>4. CASE AttemptSucceeds
  <2>1. /\ ClockOK' /\ now' = now /\ nextAttemptAt' = now
        /\ backoffMs' = InitialBackoffMs /\ attemptImmediately' = TRUE
        /\ connected' = TRUE /\ failures' = 0 /\ sinceFailure' = sinceFailure
    BY <1>1, <1>4, PassKeeps DEF AttemptSucceeds, OnSuccess
  <2>2. Backoff(0 + 1) = InitialBackoffMs
    BY BackoffIs
  <2>3. ReconnectType'
    BY <1>1, <2>1 DEF ReconnectType
  <2>4. BackoffGrows'
    <3>1. Backoff(failures + 1)' = Backoff(0 + 1)
      BY <2>1 DEF Backoff
    <3> QED
      BY <2>1, <2>2, <3>1 DEF BackoffGrows
  <2>5. PauseRuns'
    BY <2>1 DEF PauseRuns
  <2> QED
    BY <2>3, <2>4, <2>5 DEF ReconnectInv
<1>5. CASE Disconnect
  <2>1. connected /\ connected' = FALSE /\ UNCHANGED <<now, gap, nextAttemptAt,
          backoffMs, attemptImmediately, failures, sinceFailure>>
    BY <1>5 DEF Disconnect, policyVars
  <2>2. ~(failures > 0)
    BY <2>1 DEF ReconnectInv, BackoffGrows
  <2> QED
    BY <2>1, <2>2 DEF ReconnectInv, ReconnectType, BackoffGrows, PauseRuns, ClockOK, Backoff
<1>6. CASE ReconnectTime
  <2>1. /\ Tick
        /\ sinceFailure' = IF failures = 0 THEN 0 ELSE Upto(sinceFailure, Period \div 2)
        /\ UNCHANGED <<nextAttemptAt, backoffMs, attemptImmediately, connected, failures>>
    BY <1>6 DEF ReconnectTime, policyVars
  <2>2. /\ ClockOK' /\ gap' = gap + 1 /\ gap' <= LoopMs
        /\ Elapsed(nextAttemptAt)' = IF Elapsed(nextAttemptAt) + 1 < Period
                                     THEN Elapsed(nextAttemptAt) + 1 ELSE 0
    BY <1>1, <2>1, TickKeeps DEF Elapsed, Tick, ClockOK, ClockAssumption
  <2>3. sinceFailure' \in Nat
    BY <1>1, <2>1 DEF Upto
  <2>4. PauseRuns'
    <3>1. SUFFICES ASSUME failures > 0
                   PROVE  \E pause \in Pauses(failures) : Deadline(pause)'
      BY <2>1 DEF PauseRuns, Deadline, Pauses, Backoff
    <3>2. PICK pause \in Pauses(failures) : Deadline(pause)
      BY <3>1 DEF ReconnectInv, PauseRuns
    <3> DEFINE half == Period \div 2
    <3>3. /\ Period \in Nat /\ LoopMs \in Nat /\ half \in Nat /\ 2 * half <= Period
          /\ pause \in Nat /\ pause > 0 /\ pause + LoopMs < half
      <4>1. failures \in Nat \ {0}
        BY <1>1, <3>1
      <4> QED
        BY <3>2, <4>1, PauseBounds
    <3>4. sinceFailure' = IF sinceFailure < half THEN sinceFailure + 1 ELSE sinceFailure
      BY <1>1, <2>1, <3>1 DEF Upto
    <3> HIDE DEF half
    <3>5. sinceFailure <= pause + gap /\ gap < LoopMs
      BY <2>1, <3>2 DEF Deadline, Tick
    <3>6. sinceFailure' = sinceFailure + 1
      BY <1>1, <3>3, <3>4, <3>5
    <3>7. Deadline(pause)'
      BY <1>1, <2>2, <3>2, <3>3, <3>5, <3>6 DEF Deadline
    <3> QED
      BY <3>7
  <2> QED
    BY <2>1, <2>2, <2>3, <2>4 DEF ReconnectInv, ReconnectType, BackoffGrows, Backoff
<1>7. CASE UNCHANGED reconnectVars
  <2>1. UNCHANGED <<now, gap, nextAttemptAt, backoffMs, attemptImmediately, connected,
                    failures, sinceFailure>>
    BY <1>7 DEF reconnectVars, reconnectState, policyVars
  <2> QED
    BY <2>1 DEF ReconnectInv, ReconnectType, BackoffGrows, PauseRuns, ClockOK, Backoff,
                Pauses, Deadline, Elapsed
<1> QED
  BY <1>2, <1>3, <1>4, <1>5, <1>6, <1>7 DEF ReconnectNext

\* The deadline of the next attempt lies a pause after the last failure, and the
\* pause to come has doubled with each failure: ReconnectInv.
THEOREM ReconnectInvariant == ReconnectSpec => []ReconnectInv
<1>1. ReconnectInit => ReconnectInv
  <2>1. SUFFICES ASSUME ReconnectInit
                 PROVE  ReconnectInv
    OBVIOUS
  <2>2. Backoff(0 + 1) = InitialBackoffMs
    BY BackoffAssumption, BackoffIs
  <2>3. ReconnectType
    <3>1. 0 \in 0..LoopMs /\ 0 \in Times
      BY ClockAssumption DEF ClockAssumption, Times
    <3> QED
      BY <2>1, <3>1 DEF ReconnectInit, ClockInit, ReconnectType, ClockOK
  <2>4. BackoffGrows /\ PauseRuns
    <3>1. /\ failures = 0 /\ backoffMs = InitialBackoffMs /\ attemptImmediately = TRUE
          /\ connected = FALSE
      BY <2>1 DEF ReconnectInit
    <3> QED
      BY <2>2, <3>1 DEF BackoffGrows, PauseRuns
  <2> QED
    BY <2>3, <2>4 DEF ReconnectInv
<1>2. ReconnectInv /\ [ReconnectNext]_reconnectVars => ReconnectInv'
  BY ClockAssumption, BackoffAssumption, ReconnectStepKeeps
<1> QED
  BY <1>1, <1>2, PTL DEF ReconnectSpec

\* After the n-th failure in a row no attempt is made before the n-th step of the
\* exponential backoff has passed, and one is due no later than a quarter more, the
\* jitter, wherever the clock wraps; the policy's own words.
THEOREM ReconnectBackoffKept == ReconnectSpec => []BackoffKept
<1>1. ASSUME ReconnectInv
      PROVE  BackoffKept
  <2>1. CASE failures = 0
    BY <1>1, <2>1 DEF ReconnectInv, BackoffGrows, BackoffKept, AttemptDue
  <2>2. CASE failures # 0
    <3>1. failures \in Nat \ {0} /\ failures > 0 /\ sinceFailure \in Nat
      BY <1>1, <2>2 DEF ReconnectInv, ReconnectType
    <3>2. PICK pause \in Pauses(failures) : Deadline(pause)
      BY <1>1, <3>1 DEF ReconnectInv, PauseRuns
    <3>3. AttemptDue <=> sinceFailure >= pause
      BY <1>1, <3>1, <3>2, DueAfterPause, ClockAssumption, BackoffAssumption
      DEF AttemptDue, ReconnectInv, BackoffGrows
    <3>4. /\ pause \in Nat /\ Backoff(failures) \in Nat /\ Backoff(failures) <= pause
          /\ 4 * pause <= 5 * Backoff(failures)
      BY <3>1, <3>2, PauseBounds, ClockAssumption, BackoffAssumption
    <3> QED
      BY <2>2, <3>1, <3>3, <3>4 DEF BackoffKept
  <2> QED
    BY <2>1, <2>2
<1>2. ReconnectInv => BackoffKept
  BY <1>1
<1> QED
  BY <1>2, ReconnectInvariant, PTL

-----------------------------------------------------------------------------
(* LinkSchedule *)

ScheduleType ==
  /\ ClockOK
  /\ helloPending \in BOOLEAN
  /\ lastHello \in Times
  /\ lastPoll \in Times
  /\ lastHeartbeat \in Times
  /\ backoffUntil \in Times
  /\ commandExchangeAt \in Times
  /\ awaitingDataReady \in BOOLEAN
  /\ dataReady \in BOOLEAN
  /\ stage \in {"loop", "exchange", "handle"}
  /\ drain \in [now : Times, helloDue : BOOLEAN, heartbeatDue : BOOLEAN, drained : Nat]
  /\ since \in [exchange : Nat, command : Nat]

\* A command that no drain has followed: the policy waits for its answer, and
\* knows when it was.
CommandTimed ==
  /\ since.command <= FallbackPollMs
  /\ since.command < FallbackPollMs =>
       awaitingDataReady /\ Elapsed(commandExchangeAt) = since.command

\* The time a drain has read is as old as the loop's last pass.
DrainTimed == stage # "loop" => Elapsed(drain.now) = gap

\* Until the first exchange a HELLO is pending, and nothing backs off; a command
\* that waits is the last exchange.
HelloFirst ==
  /\ helloPending => backoffUntil = 0 /\ stage # "handle"
  /\ helloPending /\ stage = "exchange" => drain.helloDue
  /\ awaitingDataReady => lastPoll = commandExchangeAt

\* Once there was an exchange, lastPoll is no later than the last one, so a poll
\* that is not due was preceded by one within the fallback; and where the drains
\* have backed off instead, a heartbeat was not due when they last did.
PollTimed ==
  (~helloPending \/ awaitingDataReady) /\ stage # "exchange" =>
    /\ since.exchange <= Elapsed(lastPoll)
    /\ \/ Elapsed(lastPoll) <= FallbackPollMs + gap
       \/ /\ Elapsed(lastPoll) <= Elapsed(lastHeartbeat) + FallbackPollMs + LoopMs
          /\ Elapsed(lastHeartbeat) <= HelloMs + gap

ScheduleInv == ScheduleType /\ CommandTimed /\ DrainTimed /\ HelloFirst /\ PollTimed

\* The numbers and the differences of times are all numbers below the period.
LEMMA ScheduleNumbers ==
  ASSUME ClockAssumption, ScheduleAssumption, ScheduleType
  PROVE  /\ HelloMs \in Nat /\ FallbackPollMs \in Nat /\ LoopMs \in Nat /\ Period \in Nat
         /\ HelloMs > 0 /\ FallbackPollMs > 0 /\ InvalidFrameBackoffMs \in 0..Period
         /\ HelloMs + FallbackPollMs + 2 * LoopMs < Period
         /\ gap \in Nat /\ gap <= LoopMs
         /\ since.exchange \in Nat /\ since.command \in Nat
         /\ \A t \in Times : Elapsed(t) \in Nat /\ Elapsed(t) < Period
<1>1. /\ HelloMs \in Nat /\ FallbackPollMs \in Nat /\ LoopMs \in Nat /\ Period \in Nat
      /\ HelloMs > 0 /\ FallbackPollMs > 0 /\ InvalidFrameBackoffMs \in Nat
      /\ InvalidFrameBackoffMs <= FallbackPollMs
      /\ HelloMs + FallbackPollMs + 2 * LoopMs < Period
      /\ gap \in Nat /\ gap <= LoopMs
      /\ now \in Times
  BY DEF ClockAssumption, ScheduleAssumption, ScheduleType, ClockOK
<1>2. since.exchange \in Nat /\ since.command \in Nat
  BY DEF ScheduleType
<1>3. ASSUME NEW t \in Times
      PROVE  Elapsed(t) \in Nat /\ Elapsed(t) < Period
  <2>1. (now - t) % Period \in Times
    BY <1>1, ElapsedIs
  <2> QED
    BY <1>1, <2>1 DEF Elapsed, Times
<1>4. InvalidFrameBackoffMs \in 0..Period
  BY <1>1
<1> QED
  BY <1>1, <1>2, <1>3, <1>4

\* No time has passed since now.
LEMMA ElapsedNow ==
  ASSUME ClockAssumption, now \in Times
  PROVE  Elapsed(now) = 0
<1>1. (now - now) % Period = now - now
  BY ElapsedIs DEF Times
<1> QED
  BY <1>1 DEF Elapsed, Times, ClockAssumption

\* The invariant, from what the drain and the loop leave of it.
LEMMA LoopPassKeeps ==
  ASSUME ClockAssumption, ScheduleAssumption, ScheduleInv, stage = "loop",
         Pass, UNCHANGED <<linkTimes, dataReady, since>>
  PROVE  /\ ClockOK' /\ gap' = 0 /\ now' = now
         /\ UNCHANGED <<helloPending, lastHello, lastPoll, lastHeartbeat, backoffUntil,
                        commandExchangeAt, awaitingDataReady, dataReady, since>>
         /\ \A t : Elapsed(t)' = (now - t') % Period
         /\ CommandTimed'
<1>1. ClockOK
  BY DEF ScheduleInv, ScheduleType
<1>2. ClockOK' /\ gap' = 0 /\ now' = now
  BY <1>1, PassKeeps
<1>3. UNCHANGED <<helloPending, lastHello, lastPoll, lastHeartbeat, backoffUntil,
                  commandExchangeAt, awaitingDataReady, dataReady, since>>
  BY DEF linkTimes
<1> QED
  BY <1>2, <1>3 DEF ScheduleInv, CommandTimed, Elapsed

\* A pass that exchanges nothing: nothing was due, or the policy defers, or the
\* heartbeat is not due.
LEMMA NothingKeeps ==
  ASSUME ClockAssumption, ScheduleAssumption, ScheduleInv, DrainNothing
  PROVE  ScheduleInv'
<1>1. stage = "loop" /\ ReturnsAtOnce /\ stage' = "loop" /\ drain' = drain
  BY DEF DrainNothing
<1>2. /\ ClockOK' /\ gap' = 0 /\ now' = now /\ CommandTimed'
      /\ UNCHANGED <<helloPending, lastHello, lastPoll, lastHeartbeat, backoffUntil,
                     commandExchangeAt, awaitingDataReady, dataReady, since>>
  BY LoopPassKeeps DEF DrainNothing
<1>3. ScheduleType'
  BY <1>1, <1>2 DEF ScheduleInv, ScheduleType
<1>4. DrainTimed' /\ HelloFirst'
  BY <1>1, <1>2 DEF ScheduleInv, DrainTimed, HelloFirst
<1>5. PollTimed'
  <2>1. /\ Elapsed(lastPoll)' = Elapsed(lastPoll)
        /\ Elapsed(lastHeartbeat)' = Elapsed(lastHeartbeat)
    BY <1>2 DEF Elapsed
  <2>2. SUFFICES ASSUME ~helloPending \/ awaitingDataReady
                 PROVE  \/ Elapsed(lastPoll) <= FallbackPollMs
                        \/ /\ Elapsed(lastPoll) <=
                                Elapsed(lastHeartbeat) + FallbackPollMs + LoopMs
                           /\ Elapsed(lastHeartbeat) <= HelloMs
    <3>1. (~helloPending \/ awaitingDataReady) => since.exchange <= Elapsed(lastPoll)
      BY <1>1 DEF ScheduleInv, PollTimed
    <3>2. FallbackPollMs + 0 = FallbackPollMs /\ HelloMs + 0 = HelloMs
      BY ScheduleNumbers DEF ScheduleInv
    <3> QED
      BY <1>1, <1>2, <2>1, <3>1, <3>2 DEF PollTimed
  <2>3. /\ lastPoll \in Times /\ lastHeartbeat \in Times
        /\ HelloMs \in Nat /\ FallbackPollMs \in Nat /\ LoopMs \in Nat /\ gap \in Nat
        /\ gap <= LoopMs
        /\ Elapsed(lastPoll) \in Nat /\ Elapsed(lastHeartbeat) \in Nat
    BY ScheduleNumbers DEF ScheduleInv, ScheduleType
  <2>4. CASE Defers
    <3>1. lastPoll = commandExchangeAt /\ Elapsed(commandExchangeAt) < FallbackPollMs
      BY <2>4 DEF Defers, ScheduleInv, HelloFirst
    <3> QED
      BY <2>3, <3>1
  <2>5. CASE BacksOff
    <3>1. Elapsed(lastHeartbeat) < HelloMs
      BY <2>3, <2>5 DEF BacksOff, HeartbeatDue
    <3>2. \/ Elapsed(lastPoll) <= FallbackPollMs + gap
          \/ Elapsed(lastPoll) <= Elapsed(lastHeartbeat) + FallbackPollMs + LoopMs
      BY <1>1, <2>2 DEF ScheduleInv, PollTimed
    <3> QED
      BY <2>3, <3>1, <3>2
  <2>6. CASE ~Due
    BY <2>3, <2>6 DEF Due, PollDue
  <2> QED
    BY <1>1, <2>4, <2>5, <2>6 DEF ReturnsAtOnce
<1> QED
  BY <1>2, <1>3, <1>4, <1>5 DEF ScheduleInv

\* A drain begins.
LEMMA DrainKeeps ==
  ASSUME ClockAssumption, ScheduleAssumption, ScheduleInv, DrainStart
  PROVE  ScheduleInv'
<1>1. /\ stage = "loop" /\ stage' = "exchange"
      /\ drain' = [now |-> now, helloDue |-> HelloDue,
                   heartbeatDue |-> HeartbeatDue, drained |-> 0]
  BY DEF DrainStart
<1>2. /\ ClockOK' /\ gap' = 0 /\ now' = now /\ CommandTimed'
      /\ UNCHANGED <<helloPending, lastHello, lastPoll, lastHeartbeat, backoffUntil,
                     commandExchangeAt, awaitingDataReady, dataReady, since>>
  BY LoopPassKeeps DEF DrainStart
<1>3. now \in Times
  BY DEF ScheduleInv, ScheduleType, ClockOK
<1>4. /\ drain'.now = now /\ drain'.helloDue = HelloDue
      /\ drain' \in [now : Times, helloDue : BOOLEAN, heartbeatDue : BOOLEAN, drained : Nat]
  <2>1. HelloDue \in BOOLEAN /\ HeartbeatDue \in BOOLEAN
    BY DEF HelloDue, HeartbeatDue
  <2> QED
    BY <1>1, <1>3, <2>1
<1>5. ScheduleType'
  BY <1>1, <1>2, <1>4 DEF ScheduleInv, ScheduleType
<1>6. DrainTimed'
  <2>1. Elapsed(drain.now)' = Elapsed(now)
    BY <1>2, <1>4 DEF Elapsed
  <2> QED
    BY <1>2, <1>3, <2>1, ElapsedNow DEF DrainTimed
<1>7. HelloFirst'
  <2>1. helloPending => drain'.helloDue
    BY <1>4 DEF HelloDue
  <2> QED
    BY <1>1, <1>2, <2>1 DEF ScheduleInv, HelloFirst
<1>8. PollTimed'
  BY <1>1 DEF PollTimed
<1> QED
  BY <1>2, <1>5, <1>6, <1>7, <1>8 DEF ScheduleInv

\* An exchange of a drain, whatever comes back.
LEMMA ExchangesKeep ==
  ASSUME ClockAssumption, ScheduleAssumption, ScheduleInv, Exchanges,
         since' = Exchanged, stage' \in {"loop", "handle"},
         drain' \in [now : Times, helloDue : BOOLEAN, heartbeatDue : BOOLEAN, drained : Nat],
         drain'.now = drain.now \/ stage' = "loop",
         backoffUntil' \in Times
  PROVE  ScheduleInv'
<1>1. /\ stage = "exchange" /\ awaitingDataReady' = FALSE /\ lastPoll' = drain.now
      /\ lastHello' \in Times /\ lastHeartbeat' \in Times /\ helloPending' = FALSE
      /\ UNCHANGED <<now, gap, commandExchangeAt, dataReady>>
  BY DEF Exchanges, ScheduleInv, ScheduleType, HelloFirst
<1>2. /\ since'.exchange = 0 /\ since'.command = FallbackPollMs
      /\ since' \in [exchange : Nat, command : Nat]
  BY ScheduleNumbers DEF Exchanged, ScheduleInv, ScheduleType
<1>3. /\ Elapsed(drain.now) = gap /\ gap \in Nat /\ gap <= LoopMs /\ FallbackPollMs \in Nat
      /\ drain.now \in Times
  BY <1>1, ScheduleNumbers DEF ScheduleInv, DrainTimed, ScheduleType
<1>4. ScheduleType'
  BY <1>1, <1>2, <1>3 DEF ScheduleInv, ScheduleType, ClockOK
<1>5. CommandTimed'
  BY <1>2, <1>3 DEF CommandTimed
<1>6. DrainTimed'
  <2>1. stage' # "loop" => Elapsed(drain.now)' = Elapsed(drain.now)
    BY <1>1 DEF Elapsed
  <2> QED
    BY <1>1, <1>3, <2>1 DEF DrainTimed
<1>7. HelloFirst'
  BY <1>1 DEF HelloFirst
<1>8. PollTimed'
  <2>1. Elapsed(lastPoll)' = gap
    BY <1>1, <1>3 DEF Elapsed
  <2> QED
    BY <1>1, <1>2, <1>3, <2>1 DEF PollTimed
<1> QED
  BY <1>4, <1>5, <1>6, <1>7, <1>8 DEF ScheduleInv

\* A millisecond passes.
LEMMA ScheduleTimeKeeps ==
  ASSUME ClockAssumption, ScheduleAssumption, ScheduleInv, TimePasses
  PROVE  ScheduleInv'
<1>1. /\ stage # "exchange" /\ Tick
      /\ UNCHANGED <<helloPending, lastHello, lastPoll, lastHeartbeat, backoffUntil,
                     commandExchangeAt, awaitingDataReady, dataReady, stage, drain>>
  BY DEF TimePasses, linkTimes
<1>2. /\ HelloMs \in Nat /\ FallbackPollMs \in Nat /\ LoopMs \in Nat /\ Period \in Nat
      /\ HelloMs > 0 /\ FallbackPollMs > 0
      /\ HelloMs + FallbackPollMs + 2 * LoopMs < Period
      /\ gap \in Nat
      /\ since.exchange \in Nat /\ since.command \in Nat
      /\ \A t \in Times : Elapsed(t) \in Nat /\ Elapsed(t) < Period
  BY ScheduleNumbers DEF ScheduleInv
<1>3. /\ since' \in [exchange : Nat, command : Nat]
      /\ since'.exchange <= since.exchange + 1
      /\ since'.command = IF since.command < FallbackPollMs
                          THEN since.command + 1 ELSE since.command
  <2>1. DOMAIN Events = {"exchange", "command"}
        /\ Events["exchange"] = PollGap /\ Events["command"] = FallbackPollMs
    BY DEF Events
  <2>2. since' = [exchange |-> Upto(since["exchange"], PollGap),
                  command |-> Upto(since["command"], FallbackPollMs)]
    BY <2>1 DEF TimePasses
  <2>3. /\ since'.exchange = Upto(since.exchange, PollGap)
        /\ since'.command = Upto(since.command, FallbackPollMs)
    BY <2>2
  <2>4. Upto(since.exchange, PollGap) \in Nat /\ Upto(since.command, FallbackPollMs) \in Nat
    BY <1>2 DEF Upto, PollGap
  <2>5. since' \in [exchange : Nat, command : Nat]
    BY <2>2, <2>4
  <2> QED
    BY <1>2, <2>3, <2>5 DEF Upto
<1>4. /\ ClockOK' /\ gap' = gap + 1 /\ gap < LoopMs
      /\ \A t \in Times : (now' - t) % Period = IF Elapsed(t) + 1 < Period
                                                THEN Elapsed(t) + 1 ELSE 0
  BY <1>1, TickKeeps DEF Elapsed, Tick, ScheduleInv, ScheduleType
<1>5. /\ lastPoll \in Times /\ lastHeartbeat \in Times /\ commandExchangeAt \in Times
      /\ drain.now \in Times
  BY DEF ScheduleInv, ScheduleType
<1>6. /\ Elapsed(lastPoll)' = (now' - lastPoll) % Period
      /\ Elapsed(lastHeartbeat)' = (now' - lastHeartbeat) % Period
      /\ Elapsed(commandExchangeAt)' = (now' - commandExchangeAt) % Period
      /\ Elapsed(drain.now)' = (now' - drain.now) % Period
  BY <1>1 DEF Elapsed
<1>7. ScheduleType'
  BY <1>1, <1>3, <1>4 DEF ScheduleInv, ScheduleType
<1>8. CommandTimed'
  <2>1. SUFFICES ASSUME since'.command < FallbackPollMs
                 PROVE  awaitingDataReady /\ Elapsed(commandExchangeAt)' = since'.command
    <3>1. since.command <= FallbackPollMs
      BY DEF ScheduleInv, CommandTimed
    <3> QED
      BY <1>1, <1>2, <1>3, <3>1 DEF CommandTimed
  <2>2. since.command < FallbackPollMs /\ since'.command = since.command + 1
    BY <1>2, <1>3, <2>1
  <2>3. awaitingDataReady /\ Elapsed(commandExchangeAt) = since.command
    BY <2>2 DEF ScheduleInv, CommandTimed
  <2> QED
    BY <1>2, <1>4, <1>5, <1>6, <2>2, <2>3
<1>9. DrainTimed'
  <2>1. CASE stage # "loop"
    <3>1. Elapsed(drain.now) = gap
      BY <2>1 DEF ScheduleInv, DrainTimed
    <3> QED
      BY <1>2, <1>4, <1>5, <1>6, <3>1 DEF DrainTimed
  <2>2. CASE stage = "loop"
    BY <1>1, <2>2 DEF DrainTimed
  <2> QED
    BY <2>1, <2>2
<1>10. HelloFirst'
  BY <1>1 DEF ScheduleInv, HelloFirst
<1>11. PollTimed'
  <2>1. CASE ~helloPending \/ awaitingDataReady
    <3> DEFINE P == Elapsed(lastPoll)
               H == Elapsed(lastHeartbeat)
    <3>1. /\ since.exchange <= P
          /\ \/ P <= FallbackPollMs + gap
             \/ P <= H + FallbackPollMs + LoopMs /\ H <= HelloMs + gap
      BY <1>1, <2>1 DEF ScheduleInv, PollTimed
    <3>2. P \in Nat /\ H \in Nat
      BY <1>2, <1>5
    <3>3. /\ Elapsed(lastPoll)' = IF P + 1 < Period THEN P + 1 ELSE 0
          /\ Elapsed(lastHeartbeat)' = IF H + 1 < Period THEN H + 1 ELSE 0
      BY <1>4, <1>5, <1>6
    <3> HIDE DEF P, H
    <3>4. Elapsed(lastPoll)' = P + 1
      BY <1>2, <1>4, <3>1, <3>2, <3>3
    <3>5. since'.exchange \in Nat
      BY <1>3
    <3>6. since'.exchange <= P + 1
      BY <1>2, <1>3, <3>1, <3>2, <3>5
    <3>7. \/ P + 1 <= FallbackPollMs + (gap + 1)
          \/ /\ P + 1 <= Elapsed(lastHeartbeat)' + FallbackPollMs + LoopMs
             /\ Elapsed(lastHeartbeat)' <= HelloMs + (gap + 1)
      BY <1>2, <1>4, <3>1, <3>2, <3>3
    <3> QED
      BY <1>4, <3>4, <3>6, <3>7 DEF PollTimed
  <2>2. CASE ~(~helloPending \/ awaitingDataReady)
    BY <1>1, <2>2 DEF PollTimed
  <2> QED
    BY <2>1, <2>2
<1> QED
  BY <1>7, <1>8, <1>9, <1>10, <1>11 DEF ScheduleInv

\* A command is forwarded.
LEMMA CommandKeeps ==
  ASSUME ClockAssumption, ScheduleAssumption, ScheduleInv, CommandExchange
  PROVE  ScheduleInv'
<1>1. /\ stage \in {"loop", "handle"} /\ lastPoll' = now /\ commandExchangeAt' = now
      /\ awaitingDataReady' = TRUE
      /\ UNCHANGED <<now, gap, helloPending, lastHello, lastHeartbeat, backoffUntil,
                     dataReady, stage, drain>>
  BY DEF CommandExchange
<1>2. /\ since'.exchange = 0 /\ since'.command = 0
      /\ since' \in [exchange : Nat, command : Nat]
  BY DEF CommandExchange, ScheduleInv, ScheduleType
<1>3. now \in Times /\ gap \in Nat /\ FallbackPollMs \in Nat
  BY ScheduleNumbers DEF ScheduleInv, ScheduleType, ClockOK
<1>4. Elapsed(lastPoll)' = 0 /\ Elapsed(commandExchangeAt)' = 0
  <2>1. Elapsed(now) = 0
    BY <1>3, ElapsedNow
  <2> QED
    BY <1>1, <2>1 DEF Elapsed
<1>5. ScheduleType'
  BY <1>1, <1>2, <1>3 DEF ScheduleInv, ScheduleType, ClockOK
<1>6. CommandTimed'
  BY <1>1, <1>2, <1>3, <1>4 DEF CommandTimed
<1>7. DrainTimed' /\ HelloFirst'
  BY <1>1 DEF ScheduleInv, DrainTimed, HelloFirst, Elapsed
<1>8. PollTimed'
  BY <1>1, <1>2, <1>3, <1>4 DEF PollTimed
<1> QED
  BY <1>5, <1>6, <1>7, <1>8 DEF ScheduleInv

\* A step of the schedule keeps the invariant.
LEMMA ScheduleStepKeeps ==
  ASSUME ClockAssumption, ScheduleAssumption, ScheduleInv, [ScheduleNext]_scheduleVars
  PROVE  ScheduleInv'
<1>1. CASE TimePasses
  BY <1>1, ScheduleTimeKeeps
<1>2. CASE McuSignals
  <2>1. UNCHANGED <<now, gap, helloPending, lastHello, lastPoll, lastHeartbeat, backoffUntil,
                    commandExchangeAt, awaitingDataReady, stage, drain, since>>
        /\ dataReady' \in BOOLEAN
    BY <1>2 DEF McuSignals, linkTimes
  <2> QED
    BY <2>1 DEF ScheduleInv, ScheduleType, ClockOK, CommandTimed, DrainTimed, HelloFirst,
                PollTimed, Elapsed
<1>3. CASE CommandExchange
  BY <1>3, CommandKeeps
<1>4. CASE DrainNothing
  BY <1>4, NothingKeeps
<1>5. CASE DrainStart
  BY <1>5, DrainKeeps
<1>6. CASE ExchangeValid
  <2>1. drain \in [now : Times, helloDue : BOOLEAN, heartbeatDue : BOOLEAN, drained : Nat]
        /\ backoffUntil \in Times
    BY DEF ScheduleInv, ScheduleType
  <2>2. drain' = [drain EXCEPT !.helloDue = FALSE,
                               !.heartbeatDue = drain.helloDue /\ drain.heartbeatDue]
    BY <1>6 DEF ExchangeValid
  <2>3. /\ drain' \in [now : Times, helloDue : BOOLEAN, heartbeatDue : BOOLEAN, drained : Nat]
        /\ drain'.now = drain.now
    BY <2>1, <2>2
  <2> QED
    BY <1>6, <2>1, <2>3, ExchangesKeep DEF ExchangeValid
<1>7. CASE ExchangeInvalid
  <2>1. 0 \in Times /\ now \in Times
    BY DEF ScheduleInv, ScheduleType, ClockOK, Times
  <2>2. drain' \in [now : Times, helloDue : BOOLEAN, heartbeatDue : BOOLEAN, drained : Nat]
    BY <1>7, <2>1 DEF ExchangeInvalid, NotDraining
  <2>3. backoffUntil' \in Times
    <3>1. InvalidFrameBackoffMs \in 0..Period
      BY ScheduleNumbers DEF ScheduleInv
    <3> QED
      BY <1>7, <2>1, <3>1, LaterIs DEF ExchangeInvalid
  <2> QED
    BY <1>7, <2>2, <2>3, ExchangesKeep DEF ExchangeInvalid
<1>8. CASE Handled
  <2>1. /\ stage = "handle" /\ stage' \in {"loop", "exchange"}
        /\ UNCHANGED <<now, gap, helloPending, lastHello, lastPoll, lastHeartbeat,
                       backoffUntil, commandExchangeAt, awaitingDataReady, dataReady, since>>
    BY <1>8 DEF Handled, HandledStep, linkTimes
  <2>2. ~helloPending
    BY <2>1 DEF ScheduleInv, HelloFirst, ScheduleType
  <2>3. /\ drain' \in [now : Times, helloDue : BOOLEAN, heartbeatDue : BOOLEAN, drained : Nat]
        /\ stage' # "loop" => drain'.now = drain.now
    <3>1. 0 \in Times
      BY DEF ScheduleInv, ScheduleType, ClockOK, Times
    <3>2. drain \in [now : Times, helloDue : BOOLEAN, heartbeatDue : BOOLEAN, drained : Nat]
      BY DEF ScheduleInv, ScheduleType
    <3>3. \/ drain' = [drain EXCEPT !.drained = @ + 1]
          \/ stage' = "loop" /\ drain' = NotDraining
      BY <1>8 DEF Handled, HandledStep
    <3>4. CASE drain' = [drain EXCEPT !.drained = @ + 1]
      BY <3>2, <3>4
    <3>5. CASE stage' = "loop" /\ drain' = NotDraining
      BY <3>1, <3>5 DEF NotDraining
    <3> QED
      BY <3>3, <3>4, <3>5
  <2>4. ScheduleType'
    BY <2>1, <2>3 DEF ScheduleInv, ScheduleType, ClockOK
  <2>5. CommandTimed' /\ HelloFirst' /\ PollTimed'
    BY <2>1, <2>2 DEF ScheduleInv, CommandTimed, HelloFirst, PollTimed, Elapsed
  <2>6. DrainTimed'
    BY <2>1, <2>3 DEF ScheduleInv, DrainTimed, Elapsed
  <2> QED
    BY <2>4, <2>5, <2>6 DEF ScheduleInv
<1>9. CASE UNCHANGED scheduleVars
  <2>1. UNCHANGED <<now, gap, helloPending, lastHello, lastPoll, lastHeartbeat, backoffUntil,
                    commandExchangeAt, awaitingDataReady, dataReady, stage, drain, since>>
    BY <1>9 DEF scheduleVars, scheduleState, linkTimes
  <2> QED
    BY <2>1 DEF ScheduleInv, ScheduleType, ClockOK, CommandTimed, DrainTimed, HelloFirst,
                PollTimed, Elapsed
<1> QED
  BY <1>1, <1>2, <1>3, <1>4, <1>5, <1>6, <1>7, <1>8, <1>9 DEF ScheduleNext

\* What lastPoll, lastHeartbeat and the deferral's time say of how long ago the last
\* exchange was: ScheduleInv.
THEOREM ScheduleInvariant == ScheduleSpec => []ScheduleInv
<1>1. ScheduleInit => ScheduleInv
  <2>1. SUFFICES ASSUME ScheduleInit
                 PROVE  ScheduleInv
    OBVIOUS
  <2>2. /\ now \in Times /\ gap = 0 /\ helloPending = TRUE /\ lastHello = 0 /\ lastPoll = 0
        /\ lastHeartbeat = 0 /\ backoffUntil = 0 /\ commandExchangeAt = 0
        /\ awaitingDataReady = FALSE /\ dataReady = FALSE /\ stage = "loop"
        /\ drain = NotDraining /\ since = [exchange |-> 0, command |-> FallbackPollMs]
    BY <2>1 DEF ScheduleInit, ClockInit, Events
  <2>3. 0 \in Times /\ 0 \in 0..LoopMs /\ FallbackPollMs \in Nat
    BY <2>2, ClockAssumption, ScheduleAssumption DEF ClockAssumption, ScheduleAssumption, Times
  <2>4. /\ drain \in [now : Times, helloDue : BOOLEAN, heartbeatDue : BOOLEAN, drained : Nat]
        /\ since \in [exchange : Nat, command : Nat]
    BY <2>2, <2>3 DEF NotDraining
  <2>5. ScheduleType
    BY <2>2, <2>3, <2>4 DEF ScheduleType, ClockOK
  <2>6. CommandTimed
    BY <2>2, <2>3 DEF CommandTimed
  <2>7. DrainTimed /\ HelloFirst /\ PollTimed
    BY <2>2 DEF DrainTimed, HelloFirst, PollTimed
  <2> QED
    BY <2>5, <2>6, <2>7 DEF ScheduleInv
<1>2. ScheduleInv /\ [ScheduleNext]_scheduleVars => ScheduleInv'
  BY ClockAssumption, ScheduleAssumption, ScheduleStepKeeps
<1> QED
  BY <1>1, <1>2, PTL DEF ScheduleSpec

\* A drain that has something to do is not begun while a command's answer is
\* awaited, within the fallback and without DATA_READY: shouldDeferCommandPoll.
THEOREM ScheduleWaitsForDataReady == ScheduleSpec => []WaitsForDataReady
<1>1. ASSUME ScheduleInv
      PROVE  WaitsForDataReady
  <2>1. SUFFICES ASSUME stage = "loop", ~ReturnsAtOnce, ~dataReady
                 PROVE  since.command = FallbackPollMs
    BY DEF WaitsForDataReady
  <2>2. ~Defers
    BY <2>1 DEF ReturnsAtOnce
  <2>3. ~(since.command < FallbackPollMs)
    BY <1>1, <2>1, <2>2 DEF Defers, ScheduleInv, CommandTimed
  <2>4. /\ since.command \in Nat /\ FallbackPollMs \in Nat
        /\ since.command <= FallbackPollMs
    BY <1>1, ScheduleNumbers, ClockAssumption, ScheduleAssumption DEF ScheduleInv, CommandTimed
  <2> QED
    BY <2>3, <2>4
<1> QED
  BY <1>1, ScheduleInvariant, PTL

\* A pass of the loop does without an exchange only if there was one within the
\* fallback interval or, while the drains back off, within a heartbeat's interval
\* after a poll as late as it may be: the MCU is never left unpolled for longer,
\* wherever the clock wraps and however far apart the passes are.
THEOREM SchedulePollGapBounded == ScheduleSpec => []PollGapBounded
<1>1. ASSUME ScheduleInv
      PROVE  PollGapBounded
  <2>1. SUFFICES ASSUME stage = "loop", ReturnsAtOnce
                 PROVE  \/ since.exchange < FallbackPollMs
                        \/ since.exchange < PollGap /\ now < backoffUntil
    BY DEF PollGapBounded
  <2>2. /\ lastPoll \in Times /\ lastHeartbeat \in Times
        /\ HelloMs \in Nat /\ FallbackPollMs \in Nat /\ LoopMs \in Nat /\ gap \in Nat
        /\ gap <= LoopMs /\ HelloMs > 0
        /\ Elapsed(lastPoll) \in Nat /\ Elapsed(lastHeartbeat) \in Nat
        /\ since.exchange \in Nat
    BY <1>1, ScheduleNumbers, ClockAssumption, ScheduleAssumption DEF ScheduleInv, ScheduleType
  <2>3. now \in Nat
    BY <1>1 DEF ScheduleInv, ScheduleType, ClockOK, Times
  <2>4. ~helloPending \/ awaitingDataReady
    BY <1>1, <2>1, <2>3 DEF ReturnsAtOnce, Defers, BacksOff, Due, HelloDue,
                            ScheduleInv, HelloFirst
  <2>5. /\ since.exchange <= Elapsed(lastPoll)
        /\ \/ Elapsed(lastPoll) <= FallbackPollMs + gap
           \/ Elapsed(lastPoll) <= Elapsed(lastHeartbeat) + FallbackPollMs + LoopMs
    BY <1>1, <2>1, <2>4 DEF ScheduleInv, PollTimed
  <2>6. CASE Defers
    <3>1. lastPoll = commandExchangeAt /\ Elapsed(commandExchangeAt) < FallbackPollMs
      BY <1>1, <2>6 DEF Defers, ScheduleInv, HelloFirst
    <3> QED
      BY <2>2, <2>5, <3>1
  <2>7. CASE BacksOff
    <3>1. Elapsed(lastHeartbeat) < HelloMs /\ now < backoffUntil
      BY <2>2, <2>7 DEF BacksOff, HeartbeatDue
    <3> QED
      BY <2>2, <2>5, <3>1 DEF PollGap
  <2>8. CASE ~Due
    <3>1. Elapsed(lastPoll) < FallbackPollMs
      BY <2>2, <2>8 DEF Due, PollDue
    <3> QED
      BY <2>2, <2>5, <3>1
  <2> QED
    BY <2>1, <2>6, <2>7, <2>8 DEF ReturnsAtOnce
<1> QED
  BY <1>1, ScheduleInvariant, PTL

-----------------------------------------------------------------------------
(* SetupTimers *)

SetupType ==
  /\ ClockOK
  /\ state \in States
  /\ claiming \in BOOLEAN
  /\ stateStartedAt \in Times
  /\ wifiLostAt \in Times
  /\ timeSyncFailures \in Nat
  /\ timeSyncRetryAt \in Times
  /\ timeSyncWaitingToRetry \in BOOLEAN
  /\ claimFailures \in Nat
  /\ claimRetryAt \in Times
  /\ waited \in Nat
  /\ busy \in Nat

\* The sums of the timeouts that SetupBound is made of: the network down in a wait,
\* a connection with s waits for the clock and r pauses between them, and the
\* claims that failed k times.
DownMs == WifiConnectTimeoutMs + 3 * LoopMs
ConnectBudget(s, r) ==
  WifiConnectTimeoutMs + LoopMs + s * (TimeSyncTimeoutMs + DownMs)
    + r * (TimeSyncRetryMaximumMs + DownMs)
Connects == ConnectBudget(TimeSyncMaximumAttempts, TimeSyncMaximumAttempts - 1)
ClaimBudget(k) == Connects + 2 * LoopMs + k * (ClaimRetryMaximumMs + LoopMs)

\* A deadline that lies d after the start of the wait, as the wrapped difference
\* shows it: near the period while it is still to come.
DeadlineIn(t, d) ==
  Elapsed(t) = IF waited < d THEN Period + waited - d ELSE waited - d

\* A wait of d in which the network may go down: the clock is looked at in every
\* pass that finds it up.  The loss is noted in the pass that finds it down, or,
\* when that is at time 0, in the next; and the wait is given up once it has lasted.
WaitsWithWifi(d) ==
  \/ wifiLostAt = 0 /\ waited <= d + gap
  \/ wifiLostAt = 0 /\ waited <= d + LoopMs + gap /\ now = gap
  \/ /\ wifiLostAt # 0
     /\ waited <= d + 2 * LoopMs + Elapsed(wifiLostAt)
     /\ Elapsed(wifiLostAt) < WifiConnectTimeoutMs + gap

ConnectTimer ==
  state = "CONNECTING_WIFI" =>
    /\ wifiLostAt = 0
    /\ Elapsed(stateStartedAt) = waited
    /\ waited <= WifiConnectTimeoutMs + gap
    /\ busy <= waited

\* The present wait of SYNCING_TIME, and the pauses before it.
SyncWait == IF timeSyncWaitingToRetry THEN SyncDelay ELSE TimeSyncTimeoutMs
SyncPauses == IF timeSyncWaitingToRetry THEN timeSyncFailures - 1 ELSE timeSyncFailures

SyncTimer ==
  state = "SYNCING_TIME" =>
    /\ timeSyncFailures < TimeSyncMaximumAttempts
    /\ timeSyncWaitingToRetry => timeSyncFailures > 0
    /\ IF timeSyncWaitingToRetry
       THEN DeadlineIn(timeSyncRetryAt, SyncWait)
       ELSE Elapsed(stateStartedAt) = waited
    /\ WaitsWithWifi(SyncWait)
    /\ busy <= ConnectBudget(timeSyncFailures, SyncPauses) + waited

\* The first claim has no deadline but 0, which is reached in one half of the
\* clock's range.
FirstClaim ==
  /\ claimRetryAt = 0
  /\ \/ busy <= Connects + gap
     \/ busy <= Connects + LoopMs /\ ~Reached(0)
     \/ busy <= Connects + LoopMs + gap /\ now <= gap

ClaimTimer ==
  state = "CLAIMING" =>
    /\ claiming
    /\ claimFailures < MaxClaimFailures
    /\ claimFailures = 0 => FirstClaim
    /\ claimFailures > 0 =>
         /\ DeadlineIn(claimRetryAt, ClaimDelay)
         /\ waited <= ClaimDelay + gap
         /\ busy <= ClaimBudget(claimFailures - 1) + waited

\* Before it is sent, a request has not failed.
ClaimUnsent ==
  state \in {"CONNECTING_WIFI", "SYNCING_TIME"} /\ claiming =>
    claimFailures = 0 /\ claimRetryAt = 0

SetupInv ==
  /\ SetupType
  /\ ConnectTimer
  /\ SyncTimer
  /\ ClaimTimer
  /\ ClaimUnsent
  /\ state \notin Trying => busy = 0

\* The numbers the waits are compared with.
LEMMA SetupNumbers ==
  ASSUME ClockAssumption, SetupAssumption, SetupType
  PROVE  /\ Period \in Nat /\ LoopMs \in Nat /\ LoopMs > 0
         /\ WifiConnectTimeoutMs \in Nat /\ WifiConnectTimeoutMs > 0
         /\ TimeSyncTimeoutMs \in Nat /\ TimeSyncTimeoutMs > 0
         /\ TimeSyncRetryMaximumMs \in Nat /\ ClaimRetryMaximumMs \in Nat
         /\ TimeSyncMaximumAttempts \in Nat /\ TimeSyncMaximumAttempts > 0
         /\ MaxClaimFailures \in Nat /\ MaxClaimFailures > 0
         /\ 2 * (WifiConnectTimeoutMs + 3 * LoopMs) < Period
         /\ 2 * (TimeSyncTimeoutMs + 3 * LoopMs) < Period
         /\ 2 * (TimeSyncRetryMaximumMs + 3 * LoopMs) < Period
         /\ 2 * (ClaimRetryMaximumMs + 3 * LoopMs) < Period
         /\ now \in Times /\ now \in Nat /\ now < Period
         /\ gap \in Nat /\ gap <= LoopMs
         /\ waited \in Nat /\ busy \in Nat
         /\ timeSyncFailures \in Nat /\ claimFailures \in Nat
         /\ \A t \in Times : Elapsed(t) \in Nat /\ Elapsed(t) < Period
<1>1. /\ Period \in Nat /\ LoopMs \in Nat /\ LoopMs > 0
      /\ now \in Times /\ gap \in Nat /\ gap <= LoopMs
      /\ waited \in Nat /\ busy \in Nat
      /\ timeSyncFailures \in Nat /\ claimFailures \in Nat
  BY DEF ClockAssumption, SetupType, ClockOK
<1>2. now \in Nat /\ now < Period
  BY <1>1 DEF Times
<1>3. /\ WifiConnectTimeoutMs \in Nat /\ WifiConnectTimeoutMs > 0
      /\ TimeSyncTimeoutMs \in Nat /\ TimeSyncTimeoutMs > 0
      /\ TimeSyncRetryMaximumMs \in Nat /\ ClaimRetryMaximumMs \in Nat
      /\ TimeSyncMaximumAttempts \in Nat /\ TimeSyncMaximumAttempts > 0
      /\ MaxClaimFailures \in Nat /\ MaxClaimFailures > 0
      /\ 2 * (WifiConnectTimeoutMs + 3 * LoopMs) < Period
      /\ 2 * (TimeSyncTimeoutMs + 3 * LoopMs) < Period
      /\ 2 * (TimeSyncRetryMaximumMs + 3 * LoopMs) < Period
      /\ 2 * (ClaimRetryMaximumMs + 3 * LoopMs) < Period
  BY DEF SetupAssumption
<1>4. ASSUME NEW t \in Times
      PROVE  Elapsed(t) \in Nat /\ Elapsed(t) < Period
  <2>1. (now - t) % Period \in Times
    BY <1>1, ElapsedIs
  <2> QED
    BY <1>1, <2>1 DEF Elapsed, Times
<1> QED
  BY <1>1, <1>2, <1>3, <1>4

\* The pauses between attempts are never longer than their maximum.
LEMMA DelayBounded ==
  ASSUME NEW base \in Nat, NEW maximum \in Nat, NEW k \in Nat \ {0}
  PROVE  Delay(base, maximum, k) \in Nat /\ Delay(base, maximum, k) <= maximum
<1> DEFINE p == 2^(k - 1)
           ms == base * p
<1>1. p \in Nat
  <2>1. k - 1 \in Nat
    OBVIOUS
  <2> QED
    BY <2>1, PowersDouble
<1>2. Delay(base, maximum, k) = IF ms < maximum THEN ms ELSE maximum
  BY DEF Delay
<1> HIDE DEF p
<1>3. ms \in Nat
  BY <1>1
<1> HIDE DEF ms
<1> QED
  BY <1>2, <1>3

\* The two delays of SetupTimers, then.
LEMMA DelaysBounded ==
  ASSUME SetupAssumption
  PROVE  \A k \in Nat \ {0} :
           /\ Delay(TimeSyncRetryBaseMs, TimeSyncRetryMaximumMs, k) \in Nat
           /\ Delay(TimeSyncRetryBaseMs, TimeSyncRetryMaximumMs, k) <= TimeSyncRetryMaximumMs
           /\ Delay(ClaimRetryBaseMs, ClaimRetryMaximumMs, k) \in Nat
           /\ Delay(ClaimRetryBaseMs, ClaimRetryMaximumMs, k) <= ClaimRetryMaximumMs
<1>1. /\ TimeSyncRetryBaseMs \in Nat /\ TimeSyncRetryMaximumMs \in Nat
      /\ ClaimRetryBaseMs \in Nat /\ ClaimRetryMaximumMs \in Nat
  BY DEF SetupAssumption
<1> QED
  BY <1>1, DelayBounded

\* The deadline is reached when the wait has lasted, if the wait is not so long
\* that the clock has gone half its range beyond.
LEMMA DeadlineReached ==
  ASSUME ClockAssumption, Period \in Nat, NEW t, NEW d \in Nat, waited \in Nat,
         DeadlineIn(t, d), 2 * d < Period, 2 * (waited - d) < Period - 1
  PROVE  Reached(t) <=> waited >= d
<1> DEFINE half == Period \div 2
<1>1. half \in Nat /\ 2 * half <= Period /\ Period <= 2 * half + 1
  OBVIOUS
<1>2. Reached(t) <=> Elapsed(t) < half
  BY DEF Reached
<1> HIDE DEF half
<1> QED
  BY <1>1, <1>2 DEF DeadlineIn

\* A deadline is set.
LEMMA DeadlineStarts ==
  ASSUME ClockAssumption, now \in Times, NEW d \in Nat, 2 * d < Period
  PROVE  /\ Later(now, d) \in Times
         /\ (now - Later(now, d)) % Period = IF 0 < d THEN Period - d ELSE 0
<1>1. Period \in Nat /\ d \in 0..Period /\ now \in Nat /\ now < Period
  BY DEF ClockAssumption, Times
<1>2. /\ Later(now, d) = IF now + d < Period THEN now + d ELSE now + d - Period
      /\ Later(now, d) \in Times
  BY <1>1, LaterIs
<1>3. (now - Later(now, d)) % Period =
        IF Later(now, d) <= now THEN now - Later(now, d) ELSE now - Later(now, d) + Period
  BY <1>2, ElapsedIs
<1> QED
  BY <1>1, <1>2, <1>3

\* One wait or pause more, and all of them.
LEMMA BudgetsAdd ==
  ASSUME ClockAssumption, SetupAssumption
  PROVE  /\ DownMs \in Nat /\ Connects \in Nat
         /\ \A s, r \in Nat :
              /\ ConnectBudget(s, r) \in Nat
              /\ ConnectBudget(s + 1, r) = ConnectBudget(s, r) + (TimeSyncTimeoutMs + DownMs)
              /\ ConnectBudget(s, r + 1) = ConnectBudget(s, r) + (TimeSyncRetryMaximumMs + DownMs)
              /\ s <= TimeSyncMaximumAttempts /\ r <= TimeSyncMaximumAttempts - 1
                   => ConnectBudget(s, r) <= Connects
         /\ \A k \in Nat :
              /\ ClaimBudget(k) \in Nat
              /\ ClaimBudget(k + 1) = ClaimBudget(k) + (ClaimRetryMaximumMs + LoopMs)
              /\ k <= MaxClaimFailures - 1 => ClaimBudget(k) <= SetupBound
         /\ ClaimBudget(0) = Connects + 2 * LoopMs
<1>1. /\ LoopMs \in Nat /\ WifiConnectTimeoutMs \in Nat /\ TimeSyncTimeoutMs \in Nat
      /\ TimeSyncRetryMaximumMs \in Nat /\ ClaimRetryMaximumMs \in Nat
      /\ TimeSyncMaximumAttempts \in Nat /\ TimeSyncMaximumAttempts > 0
      /\ MaxClaimFailures \in Nat /\ MaxClaimFailures > 0
  BY DEF ClockAssumption, SetupAssumption
<1>2. DownMs \in Nat
  BY <1>1 DEF DownMs
<1> DEFINE connect == WifiConnectTimeoutMs + LoopMs
           sync == TimeSyncTimeoutMs + DownMs
           retry == TimeSyncRetryMaximumMs + DownMs
           claim == ClaimRetryMaximumMs + LoopMs
           n == TimeSyncMaximumAttempts
           m == MaxClaimFailures
<1>3. /\ connect \in Nat /\ sync \in Nat /\ retry \in Nat /\ claim \in Nat
      /\ n \in Nat /\ n - 1 \in Nat /\ m \in Nat /\ m - 1 \in Nat
  BY <1>1, <1>2
<1>4. \A s, r : ConnectBudget(s, r) = connect + s * sync + r * retry
  BY DEF ConnectBudget
<1>5. SetupBound = connect + n * sync + (n - 1) * retry + 2 * LoopMs + (m - 1) * claim
  BY DEF SetupBound, DownMs
<1>6. Connects = connect + n * sync + (n - 1) * retry
  BY <1>4 DEF Connects
<1>7. \A k : ClaimBudget(k) = Connects + 2 * LoopMs + k * claim
  BY DEF ClaimBudget
<1>8. /\ sync = TimeSyncTimeoutMs + DownMs
      /\ retry = TimeSyncRetryMaximumMs + DownMs
      /\ claim = ClaimRetryMaximumMs + LoopMs
      /\ n = TimeSyncMaximumAttempts /\ m = MaxClaimFailures
  OBVIOUS
<1> HIDE DEF connect, sync, retry, claim, n, m
<1>9. ASSUME NEW a \in Nat, NEW b \in Nat, NEW c \in Nat
      PROVE  /\ a * c \in Nat /\ (a + 1) * c = a * c + c
             /\ a <= b => a * c <= b * c
  <2>1. a * c \in Nat /\ (a + 1) * c = a * c + c
    OBVIOUS
  <2>2. ASSUME a <= b PROVE a * c <= b * c
    <3>1. b - a \in Nat /\ (b - a) * c \in Nat
      BY <2>2
    <3>2. b * c = a * c + (b - a) * c
      OBVIOUS
    <3>3. a * c \in Nat
      OBVIOUS
    <3> DEFINE x == a * c
               y == (b - a) * c
    <3> HIDE DEF x, y
    <3>4. x \in Nat /\ y \in Nat /\ b * c = x + y
      BY <3>1, <3>2, <3>3 DEF x, y
    <3> QED
      BY <3>4 DEF x
  <2> QED
    BY <2>1, <2>2
<1>10. ASSUME NEW s \in Nat, NEW r \in Nat
       PROVE  /\ ConnectBudget(s, r) \in Nat
              /\ ConnectBudget(s + 1, r) = ConnectBudget(s, r) + sync
              /\ ConnectBudget(s, r + 1) = ConnectBudget(s, r) + retry
              /\ s <= n /\ r <= n - 1 => ConnectBudget(s, r) <= Connects
  <2>1. /\ s * sync \in Nat /\ (s + 1) * sync = s * sync + sync
        /\ s <= n => s * sync <= n * sync
        /\ n * sync \in Nat
    BY <1>3, <1>9
  <2>2. /\ r * retry \in Nat /\ (r + 1) * retry = r * retry + retry
        /\ r <= n - 1 => r * retry <= (n - 1) * retry
        /\ (n - 1) * retry \in Nat
    BY <1>3, <1>9
  <2> DEFINE a == s * sync
             b == r * retry
             c == n * sync
             d == (n - 1) * retry
  <2>3. /\ a \in Nat /\ (s + 1) * sync = a + sync /\ (s <= n => a <= c) /\ c \in Nat
        /\ b \in Nat /\ (r + 1) * retry = b + retry /\ (r <= n - 1 => b <= d) /\ d \in Nat
    BY <2>1, <2>2
  <2>4. /\ ConnectBudget(s, r) = connect + a + b
        /\ ConnectBudget(s + 1, r) = connect + (s + 1) * sync + b
        /\ ConnectBudget(s, r + 1) = connect + a + (r + 1) * retry
        /\ Connects = connect + c + d
    BY <1>4, <1>6
  <2> HIDE DEF a, b, c, d
  <2> QED
    BY <1>3, <2>3, <2>4
<1>11. Connects \in Nat
  <2>1. n \in Nat /\ n - 1 \in Nat /\ ConnectBudget(n, n - 1) \in Nat
    BY <1>3, <1>10
  <2> QED
    BY <1>8, <2>1 DEF Connects
<1>12. ASSUME NEW k \in Nat
       PROVE  /\ ClaimBudget(k) \in Nat
              /\ ClaimBudget(k + 1) = ClaimBudget(k) + claim
              /\ k <= m - 1 => ClaimBudget(k) <= SetupBound
  <2>1. /\ k * claim \in Nat /\ (k + 1) * claim = k * claim + claim
        /\ k <= m - 1 => k * claim <= (m - 1) * claim
        /\ (m - 1) * claim \in Nat
    BY <1>3, <1>9
  <2> DEFINE a == k * claim
             b == (m - 1) * claim
  <2>2. /\ a \in Nat /\ (k + 1) * claim = a + claim /\ (k <= m - 1 => a <= b) /\ b \in Nat
    BY <2>1
  <2>3. /\ ClaimBudget(k) = Connects + 2 * LoopMs + a
        /\ ClaimBudget(k + 1) = Connects + 2 * LoopMs + (k + 1) * claim
        /\ SetupBound = Connects + 2 * LoopMs + b
    BY <1>5, <1>6, <1>7
  <2> HIDE DEF a, b
  <2> QED
    BY <1>1, <1>3, <1>11, <2>2, <2>3
<1>13. ClaimBudget(0) = Connects + 2 * LoopMs
  <2>1. 0 * claim = 0
    BY <1>3
  <2> QED
    BY <1>1, <1>7, <1>11, <2>1
<1>14. \A s, r \in Nat :
         /\ ConnectBudget(s, r) \in Nat
         /\ ConnectBudget(s + 1, r) = ConnectBudget(s, r) + (TimeSyncTimeoutMs + DownMs)
         /\ ConnectBudget(s, r + 1) = ConnectBudget(s, r) + (TimeSyncRetryMaximumMs + DownMs)
         /\ s <= n /\ r <= n - 1 => ConnectBudget(s, r) <= Connects
  BY <1>8, <1>10
<1>15. \A k \in Nat :
         /\ ClaimBudget(k) \in Nat
         /\ ClaimBudget(k + 1) = ClaimBudget(k) + (ClaimRetryMaximumMs + LoopMs)
         /\ k <= m - 1 => ClaimBudget(k) <= SetupBound
  BY <1>8, <1>12
<1> QED
  BY <1>2, <1>8, <1>11, <1>13, <1>14, <1>15

\* The wait of SYNCING_TIME is a time, shorter than half the period by all that it
\* may be exceeded by.
LEMMA SyncWaitBounds ==
  ASSUME ClockAssumption, SetupAssumption, SetupInv, state = "SYNCING_TIME"
  PROVE  /\ SyncWait \in Nat
         /\ 2 * (SyncWait + 3 * LoopMs) < Period
         /\ SyncPauses \in Nat
         /\ waited < SyncWait + DownMs
         /\ timeSyncWaitingToRetry => SyncWait <= TimeSyncRetryMaximumMs
<1>1. SetupType
  BY DEF SetupInv
<1>2. SyncWait \in Nat /\ 2 * (SyncWait + 3 * LoopMs) < Period /\ SyncPauses \in Nat
      /\ (timeSyncWaitingToRetry => SyncWait <= TimeSyncRetryMaximumMs)
  <2>1. CASE timeSyncWaitingToRetry
    <3>1. timeSyncFailures \in Nat \ {0}
      BY <1>1, <2>1, SetupNumbers DEF SetupInv, SyncTimer
    <3>2. SyncDelay \in Nat /\ SyncDelay <= TimeSyncRetryMaximumMs
      BY <3>1, DelaysBounded DEF SyncDelay
    <3>3. SyncWait = SyncDelay /\ SyncPauses \in Nat
      BY <2>1, <3>1 DEF SyncWait, SyncPauses
    <3> QED
      BY <1>1, <3>2, <3>3, SetupNumbers
  <2>2. CASE ~timeSyncWaitingToRetry
    BY <1>1, <2>2, SetupNumbers DEF SyncWait, SyncPauses
  <2> QED
    BY <2>1, <2>2
<1>3. waited < SyncWait + DownMs
  <2>1. WaitsWithWifi(SyncWait)
    BY DEF SetupInv, SyncTimer
  <2>2. Elapsed(wifiLostAt) \in Nat
    BY <1>1, SetupNumbers DEF SetupType
  <2>3. /\ LoopMs \in Nat /\ gap \in Nat /\ gap <= LoopMs /\ waited \in Nat
        /\ WifiConnectTimeoutMs \in Nat /\ WifiConnectTimeoutMs > 0
    BY <1>1, SetupNumbers
  <2> QED
    BY <1>2, <2>1, <2>2, <2>3 DEF WaitsWithWifi, DownMs
<1> QED
  BY <1>2, <1>3

\* Where no attempt is under way, the invariant asks for nothing.
LEMMA IdleKeeps ==
  ASSUME SetupType', state' \in {"SETUP_PORTAL", "READY"}, busy' = 0
  PROVE  SetupInv'
BY DEF SetupInv, ConnectTimer, SyncTimer, ClaimTimer, ClaimUnsent, Trying

\* A pass of the loop leaves the clock, and the times that it measures.
LEMMA SetupPass ==
  ASSUME ClockAssumption, SetupType, Pass
  PROVE  ClockOK' /\ gap' = 0 /\ now' = now
BY PassKeeps DEF SetupType

\* A wait for the clock goes on in a pass.
LEMMA SyncStays ==
  ASSUME ClockAssumption, SetupAssumption, SetupInv, state = "SYNCING_TIME",
         Pass, Stay, wifiLostAt' \in Times, WaitsWithWifi(SyncWait)'
  PROVE  SetupInv'
<1>1. /\ UNCHANGED <<state, stateStartedAt, timeSyncFailures, timeSyncRetryAt,
                     timeSyncWaitingToRetry, claiming, claimFailures, claimRetryAt,
                     waited, busy>>
      /\ SetupType
  BY DEF Stay, syncVars, claimVars, SetupInv
<1>2. ClockOK' /\ gap' = 0 /\ now' = now
  BY <1>1, SetupPass
<1>3. SetupType'
  BY <1>1, <1>2 DEF SetupType
<1>4. SyncTimer'
  <2>1. SyncWait' = SyncWait /\ SyncPauses' = SyncPauses
    BY <1>1 DEF SyncWait, SyncPauses, SyncDelay
  <2>2. DeadlineIn(timeSyncRetryAt, SyncWait)' <=> DeadlineIn(timeSyncRetryAt, SyncWait)
    BY <1>1, <1>2, <2>1 DEF DeadlineIn, Elapsed
  <2>3. Elapsed(stateStartedAt)' = Elapsed(stateStartedAt)
    BY <1>1, <1>2 DEF Elapsed
  <2>4. ConnectBudget(timeSyncFailures, SyncPauses)' = ConnectBudget(timeSyncFailures, SyncPauses)
    BY <1>1, <2>1 DEF ConnectBudget, DownMs
  <2> QED
    BY <1>1, <2>2, <2>3, <2>4 DEF SetupInv, SyncTimer
<1>5. ConnectTimer' /\ ClaimTimer' /\ (state' \notin Trying => busy' = 0)
  BY <1>1 DEF ConnectTimer, ClaimTimer, Trying
<1>6. ClaimUnsent'
  BY <1>1 DEF SetupInv, ClaimUnsent
<1> QED
  BY <1>3, <1>4, <1>5, <1>6 DEF SetupInv

\* The network is down in SYNCING_TIME or READY.
LEMMA DownKeeps ==
  ASSUME ClockAssumption, SetupAssumption, SetupInv, WifiDown
  PROVE  SetupInv'
<1>1. SetupType /\ Pass /\ state \in {"SYNCING_TIME", "READY"}
  BY DEF WifiDown, SetupInv
<1>2. ClockOK' /\ gap' = 0 /\ now' = now /\ now \in Times
  BY <1>1, SetupPass DEF SetupType, ClockOK
<1>3. CASE wifiLostAt # 0 /\ Elapsed(wifiLostAt) >= WifiConnectTimeoutMs
  <2>1. StartPortal
    BY <1>3 DEF WifiDown
  <2>2. SetupType'
    BY <1>1, <1>2, <2>1 DEF StartPortal, SetupType, States, syncVars, claimVars
  <2> QED
    BY <2>1, <2>2, IdleKeeps DEF StartPortal
<1>4. CASE ~(wifiLostAt # 0 /\ Elapsed(wifiLostAt) >= WifiConnectTimeoutMs)
  <2>1. /\ Stay
        /\ wifiLostAt' = IF wifiLostAt = 0 THEN now ELSE wifiLostAt
        /\ wifiLostAt' \in Times
    BY <1>1, <1>2, <1>4 DEF WifiDown, SetupType
  <2>2. CASE state = "READY"
    <3>1. /\ UNCHANGED <<state, stateStartedAt, timeSyncFailures, timeSyncRetryAt,
                         timeSyncWaitingToRetry, claiming, claimFailures, claimRetryAt,
                         waited, busy>>
      BY <2>1 DEF Stay, syncVars, claimVars
    <3>2. SetupType'
      BY <1>1, <1>2, <2>1, <3>1 DEF SetupType
    <3>3. busy = 0
      BY <2>2 DEF SetupInv, Trying
    <3> QED
      BY <2>2, <3>1, <3>2, <3>3, IdleKeeps
  <2>3. CASE state = "SYNCING_TIME"
    <3> PICK d : d = SyncWait
      OBVIOUS
    <3>1. /\ LoopMs \in Nat /\ gap \in Nat /\ gap <= LoopMs /\ waited \in Nat
          /\ WifiConnectTimeoutMs \in Nat /\ WifiConnectTimeoutMs > 0
          /\ now \in Nat /\ d \in Nat
      BY <1>1, <2>3, SetupNumbers, SyncWaitBounds
    <3>2. WaitsWithWifi(d)
      BY <2>3 DEF SetupInv, SyncTimer
    <3>3. waited' = waited /\ SyncWait' = d
      BY <2>1 DEF Stay, SyncWait, SyncDelay, syncVars
    <3>4. WaitsWithWifi(d)'
      <4>1. CASE wifiLostAt = 0
        <5>1. waited <= d + 2 * LoopMs /\ (now = 0 => waited <= d + LoopMs)
          BY <3>1, <3>2, <4>1 DEF WaitsWithWifi
        <5>2. Elapsed(wifiLostAt)' = 0
          <6>1. Elapsed(now) = 0
            BY <1>2, ElapsedNow
          <6> QED
            BY <1>2, <2>1, <4>1, <6>1 DEF Elapsed
        <5>3. CASE now = 0
          BY <1>2, <2>1, <3>1, <3>3, <4>1, <5>1, <5>3 DEF WaitsWithWifi
        <5>4. CASE now # 0
          BY <1>2, <2>1, <3>1, <3>3, <4>1, <5>1, <5>2, <5>4 DEF WaitsWithWifi
        <5> QED
          BY <5>3, <5>4
      <4>2. CASE wifiLostAt # 0
        <5>1. Elapsed(wifiLostAt)' = Elapsed(wifiLostAt)
          BY <1>2, <2>1, <4>2 DEF Elapsed
        <5>2. Elapsed(wifiLostAt) \in Nat
          BY <1>1, SetupNumbers DEF SetupType
        <5>3. Elapsed(wifiLostAt) < WifiConnectTimeoutMs
          BY <1>4, <3>1, <4>2, <5>2
        <5> QED
          BY <1>2, <2>1, <3>1, <3>2, <3>3, <4>2, <5>1, <5>2, <5>3 DEF WaitsWithWifi
      <4> QED
        BY <4>1, <4>2
    <3>5. WaitsWithWifi(SyncWait)'
      BY <3>3, <3>4 DEF WaitsWithWifi
    <3> QED
      BY <1>1, <2>1, <2>3, <3>5, SyncStays
  <2> QED
    BY <1>1, <2>2, <2>3
<1> QED
  BY <1>3, <1>4

\* What the timer of the wait for the clock says to a pass.
LEMMA SyncTimerSays ==
  ASSUME ClockAssumption, SetupAssumption, SetupInv, state = "SYNCING_TIME"
  PROVE  /\ timeSyncWaitingToRetry => (Reached(timeSyncRetryAt) <=> waited >= SyncWait)
         /\ ~timeSyncWaitingToRetry =>
              (Elapsed(stateStartedAt) >= TimeSyncTimeoutMs <=> waited >= SyncWait)
<1>1. SetupType
  BY DEF SetupInv
<1>2. CASE timeSyncWaitingToRetry
  <2> PICK d : d = SyncWait
    OBVIOUS
  <2>1. /\ d \in Nat /\ 2 * (d + 3 * LoopMs) < Period /\ waited < d + DownMs
        /\ DeadlineIn(timeSyncRetryAt, d)
    BY <1>2, SyncWaitBounds DEF SetupInv, SyncTimer
  <2>2. /\ Period \in Nat /\ LoopMs \in Nat /\ LoopMs > 0 /\ waited \in Nat
        /\ WifiConnectTimeoutMs \in Nat
        /\ 2 * (WifiConnectTimeoutMs + 3 * LoopMs) < Period
    BY <1>1, SetupNumbers
  <2>3. 2 * d < Period /\ 2 * (waited - d) < Period - 1
    BY <2>1, <2>2 DEF DownMs
  <2> QED
    BY <1>2, <2>1, <2>2, <2>3, DeadlineReached
<1>3. CASE ~timeSyncWaitingToRetry
  BY <1>3 DEF SetupInv, SyncTimer, SyncWait
<1> QED
  BY <1>2, <1>3

\* The network is up in SYNCING_TIME, and the clock is not set.
LEMMA UnsetKeeps ==
  ASSUME ClockAssumption, SetupAssumption, SetupInv, SyncUnset
  PROVE  SetupInv'
<1>1. /\ SetupType /\ Pass /\ Stay /\ state = "SYNCING_TIME" /\ wifiLostAt' = 0
  BY DEF SyncUnset, Syncing, SetupInv
<1>2. ClockOK' /\ gap' = 0 /\ now' = now /\ now \in Times /\ 0 \in Times
  BY <1>1, SetupPass DEF SetupType, ClockOK, Times
<1> PICK d : d = SyncWait
  OBVIOUS
<1>3. d \in Nat /\ waited \in Nat /\ gap \in Nat
  BY <1>1, SyncWaitBounds, SetupNumbers
<1>4. waited < d
  <2>1. ~(waited >= d)
    <3>1. Elapsed(stateStartedAt) \in Nat /\ TimeSyncTimeoutMs \in Nat
      BY <1>1, SetupNumbers DEF SetupType
    <3>2. CASE timeSyncWaitingToRetry
      BY <1>1, <3>2, SyncTimerSays DEF SyncUnset
    <3>3. CASE ~timeSyncWaitingToRetry
      <4>1. Elapsed(stateStartedAt) < TimeSyncTimeoutMs
        BY <3>3 DEF SyncUnset
      <4>2. ~(Elapsed(stateStartedAt) >= TimeSyncTimeoutMs)
        BY <3>1, <4>1
      <4> QED
        BY <1>1, <3>3, <4>2, SyncTimerSays
    <3> QED
      BY <3>2, <3>3
  <2> QED
    BY <1>3, <2>1
<1>5. waited' = waited /\ SyncWait' = d
  BY <1>1 DEF Stay, SyncWait, SyncDelay, syncVars
<1>6. WaitsWithWifi(d)'
  BY <1>1, <1>2, <1>3, <1>4, <1>5 DEF WaitsWithWifi
<1>7. WaitsWithWifi(SyncWait)'
  BY <1>5, <1>6 DEF WaitsWithWifi
<1> QED
  BY <1>1, <1>2, <1>7, SyncStays

\* A wait for the clock begins, in an attempt whose budget has room for it.
LEMMA SyncStarts ==
  ASSUME ClockAssumption, SetupAssumption, SetupType, SetupType', ClockOK',
         gap' = 0, now' = now, now \in Times,
         state' = "SYNCING_TIME", stateStartedAt' = now, waited' = 0, wifiLostAt' = 0,
         timeSyncWaitingToRetry' = FALSE, timeSyncFailures' < TimeSyncMaximumAttempts,
         busy' <= ConnectBudget(timeSyncFailures', timeSyncFailures'),
         ClaimUnsent'
  PROVE  SetupInv'
<1>1. /\ SyncWait' = TimeSyncTimeoutMs /\ SyncPauses' = timeSyncFailures'
      /\ TimeSyncTimeoutMs \in Nat
  BY SetupNumbers DEF SyncWait, SyncPauses
<1>2. Elapsed(stateStartedAt)' = 0
  <2>1. Elapsed(now) = 0
    BY ElapsedNow
  <2> QED
    BY <2>1 DEF Elapsed
<1>3. WaitsWithWifi(SyncWait)'
  BY <1>1 DEF WaitsWithWifi
<1>4. busy' <= ConnectBudget(timeSyncFailures, SyncPauses)' + waited'
  <2>1. ConnectBudget(timeSyncFailures, SyncPauses)' =
          ConnectBudget(timeSyncFailures', timeSyncFailures')
    BY <1>1 DEF ConnectBudget, DownMs
  <2>2. timeSyncFailures' \in Nat
    BY DEF SetupType
  <2>3. ConnectBudget(timeSyncFailures', timeSyncFailures') \in Nat
    BY <2>2, BudgetsAdd
  <2> QED
    BY <2>1, <2>3
<1>5. SyncTimer'
  BY <1>1, <1>2, <1>3, <1>4 DEF SyncTimer
<1>6. ConnectTimer' /\ ClaimTimer' /\ (state' \notin Trying => busy' = 0)
  BY DEF ConnectTimer, ClaimTimer, Trying
<1> QED
  BY <1>5, <1>6 DEF SetupInv

\* What a wait for the clock may have cost the attempt when it ends.
LEMMA SyncSpent ==
  ASSUME ClockAssumption, SetupAssumption, SetupInv, state = "SYNCING_TIME"
  PROVE  /\ busy <= Connects
         /\ ~timeSyncWaitingToRetry =>
              busy <= ConnectBudget(timeSyncFailures + 1, timeSyncFailures)
         /\ timeSyncWaitingToRetry =>
              busy <= ConnectBudget(timeSyncFailures, timeSyncFailures)
<1>1. SetupType
  BY DEF SetupInv
<1> DEFINE f == timeSyncFailures
           n == TimeSyncMaximumAttempts
<1>2. /\ f \in Nat /\ n \in Nat /\ busy \in Nat /\ waited \in Nat
      /\ TimeSyncTimeoutMs \in Nat /\ TimeSyncRetryMaximumMs \in Nat /\ f < n
      /\ f + 1 \in Nat /\ f + 1 <= n
  BY <1>1, SetupNumbers DEF SetupInv, SyncTimer
<1>3. DownMs \in Nat /\ Connects \in Nat
  BY BudgetsAdd
<1>4. /\ SyncWait \in Nat /\ waited < SyncWait + DownMs
      /\ busy <= ConnectBudget(f, SyncPauses) + waited
  BY SyncWaitBounds DEF SetupInv, SyncTimer
<1>5. ConnectBudget(f + 1, f) <= Connects
  <2>1. f <= n - 1
    BY <1>2
  <2> QED
    BY <1>2, <2>1, BudgetsAdd
<1>6. ConnectBudget(f, f) \in Nat /\ ConnectBudget(f + 1, f) \in Nat
  BY <1>2, BudgetsAdd
<1>7. ConnectBudget(f + 1, f) = ConnectBudget(f, f) + (TimeSyncTimeoutMs + DownMs)
  BY <1>2, BudgetsAdd
<1>8. CASE timeSyncWaitingToRetry
  <2>1. SyncPauses = f - 1 /\ f - 1 \in Nat /\ (f - 1) + 1 = f
    BY <1>2, <1>8 DEF SyncPauses, SetupInv, SyncTimer
  <2>2. /\ ConnectBudget(f, f) = ConnectBudget(f, f - 1) + (TimeSyncRetryMaximumMs + DownMs)
        /\ ConnectBudget(f, f - 1) \in Nat
    <3> DEFINE g == f - 1
    <3>1. g \in Nat /\ g + 1 = f
      BY <2>1
    <3> HIDE DEF g
    <3>2. ConnectBudget(f, g + 1) = ConnectBudget(f, g) + (TimeSyncRetryMaximumMs + DownMs)
          /\ ConnectBudget(f, g) \in Nat
      BY <1>2, <3>1, BudgetsAdd
    <3>3. ConnectBudget(f, f) = ConnectBudget(f, g) + (TimeSyncRetryMaximumMs + DownMs)
      BY <3>1, <3>2
    <3> QED
      BY <3>2, <3>3 DEF g
  <2>3. SyncWait <= TimeSyncRetryMaximumMs
    BY <1>8, SyncWaitBounds
  <2> DEFINE b == ConnectBudget(f, f - 1)
             c == ConnectBudget(f, f)
             e == ConnectBudget(f + 1, f)
             w == SyncWait
  <2>4. /\ b \in Nat /\ c \in Nat /\ e \in Nat /\ w \in Nat
        /\ c = b + (TimeSyncRetryMaximumMs + DownMs)
        /\ e = c + (TimeSyncTimeoutMs + DownMs)
        /\ busy <= b + waited /\ waited < w + DownMs /\ w <= TimeSyncRetryMaximumMs
        /\ e <= Connects
    BY <1>4, <1>5, <1>6, <1>7, <2>1, <2>2, <2>3
  <2> HIDE DEF b, c, e, w
  <2>5. busy <= c /\ busy <= Connects
    BY <1>2, <1>3, <2>4
  <2> QED
    BY <1>8, <2>5 DEF c
<1>9. CASE ~timeSyncWaitingToRetry
  <2>1. SyncPauses = f /\ SyncWait = TimeSyncTimeoutMs
    BY <1>9 DEF SyncPauses, SyncWait
  <2> DEFINE c == ConnectBudget(f, f)
             e == ConnectBudget(f + 1, f)
  <2>2. /\ c \in Nat /\ e \in Nat /\ e = c + (TimeSyncTimeoutMs + DownMs)
        /\ busy <= c + waited /\ waited < TimeSyncTimeoutMs + DownMs /\ e <= Connects
    BY <1>4, <1>5, <1>6, <1>7, <2>1
  <2> HIDE DEF c, e
  <2>3. busy <= e /\ busy <= Connects
    BY <1>2, <1>3, <2>2
  <2> QED
    BY <1>9, <2>3 DEF e
<1> QED
  BY <1>8, <1>9

\* An attempt to set the clock timed out.
LEMMA TimesOutKeeps ==
  ASSUME ClockAssumption, SetupAssumption, SetupInv, SyncTimesOut
  PROVE  SetupInv'
<1>1. /\ SetupType /\ Pass /\ state = "SYNCING_TIME" /\ ~timeSyncWaitingToRetry
      /\ timeSyncFailures' = timeSyncFailures + 1 /\ wifiLostAt' = 0 /\ waited' = 0
      /\ UNCHANGED <<claiming, claimFailures, claimRetryAt>>
  BY DEF SyncTimesOut, SetupInv, claimVars
<1>2. ClockOK' /\ gap' = 0 /\ now' = now /\ now \in Times /\ 0 \in Times
  BY <1>1, SetupPass DEF SetupType, ClockOK, Times
<1>3. timeSyncFailures \in Nat /\ timeSyncFailures' \in Nat \ {0}
  BY <1>1 DEF SetupType
<1>4. CASE timeSyncFailures' < TimeSyncMaximumAttempts
  <2>1. /\ timeSyncRetryAt' = Later(now, SyncDelay') /\ timeSyncWaitingToRetry' = TRUE
        /\ UNCHANGED <<state, stateStartedAt, busy>>
    BY <1>4 DEF SyncTimesOut
  <2> PICK d : d = Delay(TimeSyncRetryBaseMs, TimeSyncRetryMaximumMs, timeSyncFailures + 1)
    OBVIOUS
  <2>0. SyncDelay' = d
    BY <1>1 DEF SyncDelay, Delay
  <2>2. /\ d \in Nat /\ 2 * d < Period
    <3>1. d \in Nat /\ d <= TimeSyncRetryMaximumMs
      BY <1>1, <1>3, DelaysBounded
    <3>2. /\ TimeSyncRetryMaximumMs \in Nat /\ LoopMs \in Nat /\ Period \in Nat
          /\ 2 * (TimeSyncRetryMaximumMs + 3 * LoopMs) < Period
      BY <1>1, SetupNumbers
    <3> QED
      BY <3>1, <3>2
  <2>3. /\ timeSyncRetryAt' \in Times
        /\ (now - timeSyncRetryAt') % Period = IF 0 < d THEN Period - d ELSE 0
    BY <1>2, <2>0, <2>1, <2>2, DeadlineStarts
  <2>4. SyncWait' = d /\ SyncPauses' = timeSyncFailures
    BY <1>1, <1>3, <2>0, <2>1 DEF SyncWait, SyncPauses
  <2>5. SetupType'
    BY <1>1, <1>2, <1>3, <2>1, <2>3 DEF SetupType
  <2>6. DeadlineIn(timeSyncRetryAt, SyncWait)'
    <3>1. Elapsed(timeSyncRetryAt)' = IF 0 < d THEN Period - d ELSE 0
      BY <1>2, <2>3 DEF Elapsed
    <3>2. Period \in Nat
      BY DEF ClockAssumption
    <3> QED
      <4>1. DeadlineIn(timeSyncRetryAt, d)'
        BY <1>1, <2>2, <3>1, <3>2 DEF DeadlineIn
      <4> QED
        BY <2>4, <4>1 DEF DeadlineIn
  <2>7. WaitsWithWifi(SyncWait)'
    <3>1. WaitsWithWifi(d)'
      BY <1>1, <1>2, <2>2 DEF WaitsWithWifi
    <3> QED
      BY <2>4, <3>1 DEF WaitsWithWifi
  <2>8. busy' <= ConnectBudget(timeSyncFailures, SyncPauses)' + waited'
    <3>1. busy <= ConnectBudget(timeSyncFailures + 1, timeSyncFailures)
      BY <1>1, SyncSpent
    <3>2. ConnectBudget(timeSyncFailures, SyncPauses)' =
            ConnectBudget(timeSyncFailures + 1, timeSyncFailures)
      BY <1>1, <2>4 DEF ConnectBudget, DownMs
    <3>3. ConnectBudget(timeSyncFailures + 1, timeSyncFailures) \in Nat
      <4>1. timeSyncFailures + 1 \in Nat
        BY <1>3
      <4> QED
        BY <1>3, <4>1, BudgetsAdd
    <3> QED
      BY <1>1, <2>1, <3>1, <3>2, <3>3
  <2>9. SyncTimer'
    BY <1>3, <1>4, <2>1, <2>6, <2>7, <2>8 DEF SyncTimer
  <2>10. ConnectTimer' /\ ClaimTimer' /\ ClaimUnsent' /\ (state' \notin Trying => busy' = 0)
    BY <1>1, <2>1 DEF ConnectTimer, ClaimTimer, ClaimUnsent, Trying, SetupInv
  <2> QED
    BY <2>5, <2>9, <2>10 DEF SetupInv
<1>5. CASE ~(timeSyncFailures' < TimeSyncMaximumAttempts)
  <2>1. /\ state' = "SETUP_PORTAL" /\ stateStartedAt' = now /\ busy' = 0
        /\ UNCHANGED <<timeSyncRetryAt, timeSyncWaitingToRetry>>
    BY <1>5 DEF SyncTimesOut
  <2>2. SetupType'
    BY <1>1, <1>2, <1>3, <2>1 DEF SetupType, States
  <2> QED
    BY <2>1, <2>2, IdleKeeps
<1> QED
  BY <1>4, <1>5

\* The next attempt to set the clock.
LEMMA RetriesKeep ==
  ASSUME ClockAssumption, SetupAssumption, SetupInv, SyncRetries
  PROVE  SetupInv'
<1>1. /\ SetupType /\ Pass /\ state = "SYNCING_TIME" /\ timeSyncWaitingToRetry
      /\ wifiLostAt' = 0 /\ state' = "SYNCING_TIME" /\ stateStartedAt' = now
      /\ timeSyncFailures' = timeSyncFailures /\ timeSyncRetryAt' = 0
      /\ timeSyncWaitingToRetry' = FALSE /\ waited' = 0
      /\ UNCHANGED <<claiming, claimFailures, claimRetryAt, busy>>
  BY DEF SyncRetries, Syncing, StartTimeSync, SetupInv, claimVars
<1>2. ClockOK' /\ gap' = 0 /\ now' = now /\ now \in Times /\ 0 \in Times
  BY <1>1, SetupPass DEF SetupType, ClockOK, Times
<1>3. SetupType'
  BY <1>1, <1>2 DEF SetupType
<1>4. timeSyncFailures' < TimeSyncMaximumAttempts /\ ClaimUnsent'
  BY <1>1 DEF SetupInv, SyncTimer, ClaimUnsent
<1>5. busy' <= ConnectBudget(timeSyncFailures', timeSyncFailures')
  BY <1>1, SyncSpent
<1> QED
  BY <1>1, <1>2, <1>3, <1>4, <1>5, SyncStarts

\* The clock is set.
LEMMA SyncedKeeps ==
  ASSUME ClockAssumption, SetupAssumption, SetupInv, TimeSynced
  PROVE  SetupInv'
<1>1. /\ SetupType /\ Pass /\ state = "SYNCING_TIME"
      /\ state' \in (IF claiming THEN {"CLAIMING"} ELSE {"READY", "SETUP_PORTAL"})
      /\ wifiLostAt' = 0 /\ stateStartedAt' = now /\ waited' = 0
      /\ busy' = IF claiming THEN busy ELSE 0
      /\ UNCHANGED <<timeSyncFailures, timeSyncRetryAt, timeSyncWaitingToRetry,
                     claiming, claimFailures, claimRetryAt>>
  BY DEF TimeSynced, Syncing, SetupInv, syncVars, claimVars
<1>2. ClockOK' /\ gap' = 0 /\ now' = now /\ now \in Times /\ 0 \in Times
  BY <1>1, SetupPass DEF SetupType, ClockOK, Times
<1>3. SetupType'
  <2>1. state' \in States
    BY <1>1 DEF States
  <2>2. busy' \in Nat
    BY <1>1 DEF SetupType
  <2> QED
    BY <1>1, <1>2, <2>1, <2>2 DEF SetupType
<1>4. CASE claiming
  <2>1. state' = "CLAIMING" /\ claimFailures' = 0 /\ claimRetryAt' = 0 /\ busy' = busy
    BY <1>1, <1>4 DEF SetupInv, ClaimUnsent
  <2>2. busy <= Connects /\ Connects \in Nat
    BY <1>1, SyncSpent, BudgetsAdd
  <2>3. Connects' = Connects
    BY DEF Connects, ConnectBudget, DownMs
  <2>4. FirstClaim'
    BY <1>2, <2>1, <2>2, <2>3 DEF FirstClaim
  <2>5. ClaimTimer'
    BY <1>1, <1>4, <2>1, <2>4, SetupNumbers DEF ClaimTimer
  <2>6. ConnectTimer' /\ SyncTimer' /\ ClaimUnsent' /\ (state' \notin Trying => busy' = 0)
    BY <2>1 DEF ConnectTimer, SyncTimer, ClaimUnsent, Trying
  <2> QED
    BY <1>3, <2>5, <2>6 DEF SetupInv
<1>5. CASE ~claiming
  BY <1>1, <1>3, <1>5, IdleKeeps
<1> QED
  BY <1>4, <1>5

\* A pass that waits for the network.
LEMMA ConnectingKeeps ==
  ASSUME ClockAssumption, SetupAssumption, SetupInv, Connecting
  PROVE  SetupInv'
<1>1. SetupType /\ Pass /\ state = "CONNECTING_WIFI"
  BY DEF Connecting, SetupInv
<1>2. ClockOK' /\ gap' = 0 /\ now' = now /\ now \in Times /\ 0 \in Times
  BY <1>1, SetupPass DEF SetupType, ClockOK, Times
<1>3. /\ wifiLostAt = 0 /\ Elapsed(stateStartedAt) = waited
      /\ waited <= WifiConnectTimeoutMs + gap /\ busy <= waited
  BY <1>1 DEF SetupInv, ConnectTimer
<1>4. /\ LoopMs \in Nat /\ gap \in Nat /\ gap <= LoopMs /\ waited \in Nat /\ busy \in Nat
      /\ WifiConnectTimeoutMs \in Nat
      /\ TimeSyncMaximumAttempts \in Nat /\ TimeSyncMaximumAttempts > 0
  BY <1>1, SetupNumbers
<1>5. CASE StartTimeSync(TRUE) /\ UNCHANGED wifiLostAt
  <2>1. /\ state' = "SYNCING_TIME" /\ stateStartedAt' = now /\ timeSyncFailures' = 0
        /\ timeSyncRetryAt' = 0 /\ timeSyncWaitingToRetry' = FALSE /\ waited' = 0
        /\ wifiLostAt' = 0
        /\ UNCHANGED <<claiming, claimFailures, claimRetryAt, busy>>
    BY <1>3, <1>5 DEF StartTimeSync, claimVars
  <2>2. SetupType'
    BY <1>1, <1>2, <2>1 DEF SetupType, States
  <2>3. ConnectBudget(0, 0) = WifiConnectTimeoutMs + LoopMs
    <3>1. TimeSyncTimeoutMs + DownMs \in Nat /\ TimeSyncRetryMaximumMs + DownMs \in Nat
      <4>1. TimeSyncTimeoutMs \in Nat /\ TimeSyncRetryMaximumMs \in Nat
        BY <1>1, SetupNumbers
      <4>2. DownMs \in Nat
        BY BudgetsAdd
      <4> QED
        BY <4>1, <4>2
    <3> DEFINE x == TimeSyncTimeoutMs + DownMs
               y == TimeSyncRetryMaximumMs + DownMs
    <3>2. x \in Nat /\ y \in Nat
          /\ ConnectBudget(0, 0) = WifiConnectTimeoutMs + LoopMs + 0 * x + 0 * y
      BY <3>1 DEF ConnectBudget
    <3> HIDE DEF x, y
    <3> QED
      BY <1>4, <3>2
  <2>4. busy' <= ConnectBudget(timeSyncFailures', timeSyncFailures')
    BY <1>3, <1>4, <2>1, <2>3
  <2>5. ClaimUnsent'
    BY <1>1, <2>1 DEF SetupInv, ClaimUnsent
  <2> QED
    BY <1>1, <1>2, <1>4, <2>1, <2>2, <2>4, <2>5, SyncStarts
<1>6. CASE ConnectTimedOut /\ StartPortal
  <2>1. SetupType'
    BY <1>1, <1>2, <1>6 DEF StartPortal, SetupType, States, syncVars, claimVars
  <2> QED
    BY <1>6, <2>1, IdleKeeps DEF StartPortal
<1>7. CASE ~ConnectTimedOut /\ Stay /\ UNCHANGED wifiLostAt
  <2>1. /\ UNCHANGED <<state, stateStartedAt, timeSyncFailures, timeSyncRetryAt,
                       timeSyncWaitingToRetry, claiming, claimFailures, claimRetryAt,
                       waited, busy, wifiLostAt>>
    BY <1>7 DEF Stay, syncVars, claimVars
  <2>2. SetupType'
    BY <1>1, <1>2, <2>1 DEF SetupType
  <2>3. waited <= WifiConnectTimeoutMs
    BY <1>3, <1>4, <1>7 DEF ConnectTimedOut
  <2>4. Elapsed(stateStartedAt)' = waited
    BY <1>2, <1>3, <2>1 DEF Elapsed
  <2>5. ConnectTimer'
    BY <1>2, <1>3, <1>4, <2>1, <2>3, <2>4 DEF ConnectTimer
  <2>6. SyncTimer' /\ ClaimTimer' /\ ClaimUnsent' /\ (state' \notin Trying => busy' = 0)
    BY <1>1, <2>1 DEF SyncTimer, ClaimTimer, ClaimUnsent, Trying, SetupInv
  <2> QED
    BY <2>2, <2>5, <2>6 DEF SetupInv
<1> QED
  BY <1>5, <1>6, <1>7 DEF Connecting

\* A request starts an attempt.
LEMMA RequestKeeps ==
  ASSUME ClockAssumption, SetupAssumption, SetupInv, Request
  PROVE  SetupInv'
<1>1. SetupType /\ now \in Times /\ 0 \in Times /\ gap \in Nat /\ WifiConnectTimeoutMs \in Nat
  BY SetupNumbers DEF SetupInv, SetupType, ClockOK, Times
<1>2. /\ state' = "CONNECTING_WIFI" /\ stateStartedAt' = now /\ wifiLostAt' = 0
      /\ timeSyncFailures' = 0 /\ timeSyncRetryAt' = 0 /\ timeSyncWaitingToRetry' = FALSE
      /\ waited' = 0 /\ busy' = 0 /\ UNCHANGED <<now, gap>>
  BY DEF Request, StartWifi
<1>3. \/ claiming' = TRUE /\ claimFailures' = 0 /\ claimRetryAt' = 0
      \/ claiming' = FALSE /\ UNCHANGED <<claimFailures, claimRetryAt>>
  BY DEF Request
<1>4. SetupType'
  <2>1. claiming' \in BOOLEAN /\ claimFailures' \in Nat /\ claimRetryAt' \in Times
    <3>1. claimFailures \in Nat /\ claimRetryAt \in Times
      BY <1>1 DEF SetupType
    <3>2. claiming' \in BOOLEAN
      BY <1>3
    <3>3. claimFailures' \in Nat /\ claimRetryAt' \in Times
      BY <1>1, <1>3, <3>1
    <3> QED
      BY <3>2, <3>3
  <2>2. ClockOK' /\ state' \in States
    BY <1>1, <1>2 DEF SetupType, ClockOK, States
  <2> QED
    BY <1>1, <1>2, <2>1, <2>2 DEF SetupType
<1>5. ConnectTimer'
  <2>1. Elapsed(now) = 0
    BY <1>1, ElapsedNow
  <2>2. Elapsed(stateStartedAt)' = 0
    BY <1>2, <2>1 DEF Elapsed
  <2> QED
    BY <1>1, <1>2, <2>2 DEF ConnectTimer
<1>6. SyncTimer' /\ ClaimTimer' /\ ClaimUnsent' /\ (state' \notin Trying => busy' = 0)
  BY <1>2, <1>3 DEF SyncTimer, ClaimTimer, ClaimUnsent, Trying
<1> QED
  BY <1>4, <1>5, <1>6 DEF SetupInv

\* A time is its own remainder.
LEMMA BelowPeriod ==
  ASSUME Period \in Nat, NEW n \in Nat, n < Period
  PROVE  n % Period = n /\ n - 0 = n
OBVIOUS

\* The deadline of a claim after a failed one.
LEMMA ClaimTimerSays ==
  ASSUME ClockAssumption, SetupAssumption, SetupInv, state = "CLAIMING"
  PROVE  /\ claimFailures > 0 =>
              /\ ClaimDelay \in Nat /\ ClaimDelay <= ClaimRetryMaximumMs
              /\ Reached(claimRetryAt) <=> waited >= ClaimDelay
         /\ Reached(0) <=> now < Period \div 2
<1>1. SetupType
  BY DEF SetupInv
<1>2. /\ Period \in Nat /\ LoopMs \in Nat /\ LoopMs > 0 /\ waited \in Nat
      /\ gap \in Nat /\ gap <= LoopMs /\ now \in Times /\ now \in Nat /\ now < Period
      /\ ClaimRetryMaximumMs \in Nat /\ claimFailures \in Nat
      /\ 2 * (ClaimRetryMaximumMs + 3 * LoopMs) < Period
  BY <1>1, SetupNumbers
<1>3. ASSUME claimFailures > 0
      PROVE  /\ ClaimDelay \in Nat /\ ClaimDelay <= ClaimRetryMaximumMs
             /\ Reached(claimRetryAt) <=> waited >= ClaimDelay
  <2> PICK d : d = ClaimDelay
    OBVIOUS
  <2>1. claimFailures \in Nat \ {0}
    BY <1>2, <1>3
  <2>2. d \in Nat /\ d <= ClaimRetryMaximumMs
    BY <2>1, DelaysBounded DEF ClaimDelay
  <2>3. DeadlineIn(claimRetryAt, d) /\ waited <= d + gap
    BY <1>3 DEF SetupInv, ClaimTimer
  <2>4. 2 * d < Period /\ 2 * (waited - d) < Period - 1
    BY <1>2, <2>2, <2>3
  <2>5. Reached(claimRetryAt) <=> waited >= d
    BY <1>2, <2>2, <2>3, <2>4, DeadlineReached
  <2> QED
    BY <2>2, <2>5
<1>4. Reached(0) <=> now < Period \div 2
  <2>1. now % Period = now /\ now - 0 = now
    BY <1>2, BelowPeriod
  <2>2. Elapsed(0) = now
    BY <2>1 DEF Elapsed
  <2> QED
    BY <2>2 DEF Reached
<1> QED
  BY <1>3, <1>4

\* What the claims so far may have cost the attempt when one is made.
LEMMA ClaimSpent ==
  ASSUME ClockAssumption, SetupAssumption, SetupInv, state = "CLAIMING"
  PROVE  /\ busy <= ClaimBudget(claimFailures)
         /\ busy <= SetupBound
<1>1. SetupType
  BY DEF SetupInv
<1>2. /\ LoopMs \in Nat /\ gap \in Nat /\ gap <= LoopMs /\ waited \in Nat /\ busy \in Nat
      /\ ClaimRetryMaximumMs \in Nat /\ claimFailures \in Nat /\ MaxClaimFailures \in Nat
      /\ claimFailures < MaxClaimFailures
  BY <1>1, SetupNumbers DEF SetupInv, ClaimTimer
<1>3. /\ ClaimBudget(claimFailures) <= SetupBound
      /\ ClaimBudget(claimFailures) \in Nat
      /\ Connects \in Nat /\ ClaimBudget(0) = Connects + 2 * LoopMs
  <2>1. claimFailures <= MaxClaimFailures - 1
    BY <1>2
  <2> QED
    BY <1>2, <2>1, BudgetsAdd
<1>4. SetupBound \in Int
  BY <1>2, SetupNumbers, <1>1 DEF SetupBound
<1>5. busy <= ClaimBudget(claimFailures)
  <2>1. CASE claimFailures = 0
    <3>1. \/ busy <= Connects + gap
          \/ busy <= Connects + LoopMs
          \/ busy <= Connects + LoopMs + gap
      BY <2>1 DEF SetupInv, ClaimTimer, FirstClaim
    <3>2. busy <= Connects + 2 * LoopMs
      BY <1>2, <1>3, <3>1
    <3> QED
      BY <1>3, <2>1, <3>2
  <2>2. CASE claimFailures # 0
    <3> DEFINE k == claimFailures - 1
    <3>1. k \in Nat /\ k + 1 = claimFailures /\ claimFailures > 0
      BY <1>2, <2>2
    <3>2. /\ busy <= ClaimBudget(k) + waited /\ waited <= ClaimDelay + gap
          /\ ClaimDelay \in Nat /\ ClaimDelay <= ClaimRetryMaximumMs
      BY <3>1, ClaimTimerSays DEF SetupInv, ClaimTimer
    <3> HIDE DEF k
    <3>3. /\ ClaimBudget(k) \in Nat
          /\ ClaimBudget(k + 1) = ClaimBudget(k) + (ClaimRetryMaximumMs + LoopMs)
      BY <3>1, BudgetsAdd
    <3> DEFINE b == ClaimBudget(k)
               c == ClaimBudget(k + 1)
               w == ClaimDelay
    <3>4. /\ b \in Nat /\ c = b + (ClaimRetryMaximumMs + LoopMs)
          /\ busy <= b + waited /\ waited <= w + gap /\ w \in Nat /\ w <= ClaimRetryMaximumMs
      BY <3>2, <3>3
    <3> HIDE DEF b, c, w
    <3>5. busy <= c
      BY <1>2, <3>4
    <3> QED
      BY <3>1, <3>5 DEF c
  <2> QED
    BY <2>1, <2>2
<1> QED
  BY <1>2, <1>3, <1>4, <1>5

\* A claim failed.
LEMMA ClaimFailsKeeps ==
  ASSUME ClockAssumption, SetupAssumption, SetupInv, ClaimFails
  PROVE  SetupInv'
<1>1. /\ SetupType /\ Pass /\ state = "CLAIMING"
      /\ claimFailures' = claimFailures + 1 /\ waited' = 0
      /\ UNCHANGED <<wifiLostAt, claiming, timeSyncFailures, timeSyncRetryAt,
                     timeSyncWaitingToRetry>>
  BY DEF ClaimFails, SetupInv, syncVars
<1>2. ClockOK' /\ gap' = 0 /\ now' = now /\ now \in Times
  BY <1>1, SetupPass DEF SetupType, ClockOK
<1>3. claimFailures \in Nat /\ claimFailures + 1 \in Nat \ {0} /\ MaxClaimFailures \in Nat
  BY <1>1, SetupNumbers
<1>4. CASE claimFailures' >= MaxClaimFailures
  <2>1. /\ state' = "SETUP_PORTAL" /\ stateStartedAt' = now /\ busy' = 0
        /\ UNCHANGED claimRetryAt
    BY <1>4 DEF ClaimFails
  <2>2. SetupType'
    BY <1>1, <1>2, <1>3, <2>1 DEF SetupType, States
  <2> QED
    BY <2>1, <2>2, IdleKeeps
<1>5. CASE ~(claimFailures' >= MaxClaimFailures)
  <2>1. claimRetryAt' = Later(now, ClaimDelay') /\ UNCHANGED <<state, stateStartedAt, busy>>
    BY <1>5 DEF ClaimFails
  <2> PICK d : d = Delay(ClaimRetryBaseMs, ClaimRetryMaximumMs, claimFailures + 1)
    OBVIOUS
  <2>2. ClaimDelay' = d
    BY <1>1 DEF ClaimDelay, Delay
  <2>3. /\ d \in Nat /\ 2 * d < Period
    <3>1. d \in Nat /\ d <= ClaimRetryMaximumMs
      BY <1>3, DelaysBounded
    <3>2. /\ ClaimRetryMaximumMs \in Nat /\ LoopMs \in Nat /\ Period \in Nat
          /\ 2 * (ClaimRetryMaximumMs + 3 * LoopMs) < Period
      BY <1>1, SetupNumbers
    <3> QED
      BY <3>1, <3>2
  <2>4. /\ claimRetryAt' \in Times
        /\ (now - claimRetryAt') % Period = IF 0 < d THEN Period - d ELSE 0
    BY <1>2, <2>1, <2>2, <2>3, DeadlineStarts
  <2>5. SetupType'
    BY <1>1, <1>2, <1>3, <2>1, <2>4 DEF SetupType
  <2>6. DeadlineIn(claimRetryAt, ClaimDelay)'
    <3>1. Elapsed(claimRetryAt)' = IF 0 < d THEN Period - d ELSE 0
      BY <1>2, <2>4 DEF Elapsed
    <3>2. Period \in Nat
      BY DEF ClockAssumption
    <3>3. DeadlineIn(claimRetryAt, d)'
      BY <1>1, <2>3, <3>1, <3>2 DEF DeadlineIn
    <3> QED
      BY <2>2, <3>3 DEF DeadlineIn
  <2>7. busy' <= ClaimBudget(claimFailures - 1)' + waited'
    <3>1. busy <= ClaimBudget(claimFailures) /\ ClaimBudget(claimFailures) \in Nat
      BY <1>1, <1>3, ClaimSpent, BudgetsAdd
    <3>2. ClaimBudget(claimFailures - 1)' = ClaimBudget(claimFailures)
      <4>1. claimFailures' - 1 = claimFailures
        BY <1>1, <1>3
      <4> QED
        BY <4>1 DEF ClaimBudget, Connects, ConnectBudget, DownMs
    <3> QED
      BY <1>1, <2>1, <3>1, <3>2
  <2>8. waited' <= ClaimDelay' + gap'
    BY <1>1, <1>2, <2>2, <2>3
  <2>9. claiming' /\ claimFailures' < MaxClaimFailures /\ claimFailures' # 0
    BY <1>1, <1>3, <1>5 DEF SetupInv, ClaimTimer
  <2>10. ClaimTimer'
    BY <2>6, <2>7, <2>8, <2>9 DEF ClaimTimer
  <2>11. ConnectTimer' /\ SyncTimer' /\ ClaimUnsent' /\ (state' \notin Trying => busy' = 0)
    BY <1>1, <2>1 DEF ConnectTimer, SyncTimer, ClaimUnsent, Trying
  <2> QED
    BY <2>5, <2>10, <2>11 DEF SetupInv
<1> QED
  BY <1>4, <1>5

\* A claim waits for its deadline.
LEMMA ClaimWaitsKeeps ==
  ASSUME ClockAssumption, SetupAssumption, SetupInv, ClaimWaits
  PROVE  SetupInv'
<1>1. /\ SetupType /\ Pass /\ state = "CLAIMING" /\ ~Reached(claimRetryAt)
      /\ UNCHANGED <<state, stateStartedAt, timeSyncFailures, timeSyncRetryAt,
                     timeSyncWaitingToRetry, claiming, claimFailures, claimRetryAt,
                     waited, busy, wifiLostAt>>
  BY DEF ClaimWaits, Claiming, Stay, SetupInv, syncVars, claimVars
<1>2. ClockOK' /\ gap' = 0 /\ now' = now
  BY <1>1, SetupPass
<1>3. SetupType'
  BY <1>1, <1>2 DEF SetupType
<1>4. ClaimTimer'
  <2>1. claiming /\ claimFailures < MaxClaimFailures /\ claimFailures \in Nat
    BY <1>1 DEF SetupInv, ClaimTimer, SetupType
  <2>2. CASE claimFailures = 0
    <3>1. claimRetryAt = 0 /\ ~Reached(0)
      BY <1>1, <2>2 DEF SetupInv, ClaimTimer, FirstClaim
    <3>2. busy <= Connects + LoopMs
      <4> DEFINE half == Period \div 2
      <4>1. /\ Period \in Nat /\ LoopMs \in Nat /\ gap \in Nat /\ gap <= LoopMs
            /\ now \in Nat /\ WifiConnectTimeoutMs \in Nat
            /\ 2 * (WifiConnectTimeoutMs + 3 * LoopMs) < Period
            /\ busy \in Nat /\ Connects \in Nat
        <5>1. Connects \in Nat
          BY BudgetsAdd
        <5> QED
          BY <1>1, <5>1, SetupNumbers
      <4>2. half \in Nat /\ Period <= 2 * half + 1
        BY <4>1
      <4>3. ~(now < half)
        BY <1>1, <3>1, ClaimTimerSays
      <4>4. \/ busy <= Connects + gap
            \/ busy <= Connects + LoopMs
            \/ now <= gap
        BY <1>1, <2>2 DEF SetupInv, ClaimTimer, FirstClaim
      <4> HIDE DEF half
      <4>5. ~(now <= gap)
        <5>1. now >= half
          BY <4>1, <4>2, <4>3
        <5>2. half > LoopMs
          <6>1. 2 * LoopMs + 1 < Period
            BY DEF ClockAssumption, SetupAssumption
          <6> QED
            BY <4>1, <4>2, <6>1
        <5> QED
          BY <4>1, <4>2, <5>1, <5>2
      <4> QED
        BY <4>1, <4>4, <4>5
    <3>3. ~Reached(0)'
      BY <1>2, <3>1 DEF Reached, Elapsed
    <3>4. FirstClaim'
      <4>1. Connects' = Connects
        BY DEF Connects, ConnectBudget, DownMs
      <4> QED
        BY <1>1, <3>1, <3>2, <3>3, <4>1 DEF FirstClaim
    <3> QED
      BY <1>1, <2>1, <2>2, <3>4 DEF ClaimTimer
  <2>3. CASE claimFailures # 0
    <3> PICK d : d = ClaimDelay
      OBVIOUS
    <3>1. /\ claimFailures > 0
          /\ DeadlineIn(claimRetryAt, d)
          /\ busy <= ClaimBudget(claimFailures - 1) + waited
      BY <1>1, <2>1, <2>3 DEF SetupInv, ClaimTimer
    <3>2. d \in Nat /\ waited \in Nat
      BY <1>1, <3>1, ClaimTimerSays, SetupNumbers
    <3>3. ~(waited >= d)
      BY <1>1, <3>1, ClaimTimerSays
    <3>4. ClaimDelay' = d
      BY <1>1 DEF ClaimDelay, Delay
    <3>5. DeadlineIn(claimRetryAt, d)'
      BY <1>1, <1>2, <3>1 DEF DeadlineIn, Elapsed
    <3>6. DeadlineIn(claimRetryAt, ClaimDelay)'
      BY <3>4, <3>5 DEF DeadlineIn
    <3>7. waited' <= ClaimDelay' + gap'
      BY <1>1, <1>2, <3>2, <3>3, <3>4
    <3>8. ClaimBudget(claimFailures - 1)' = ClaimBudget(claimFailures - 1)
      BY <1>1 DEF ClaimBudget, Connects, ConnectBudget, DownMs
    <3>9. busy' <= ClaimBudget(claimFailures - 1)' + waited'
      BY <1>1, <3>1, <3>8
    <3> QED
      BY <1>1, <2>1, <2>3, <3>6, <3>7, <3>9 DEF ClaimTimer
  <2> QED
    BY <2>2, <2>3
<1>5. ConnectTimer' /\ SyncTimer' /\ ClaimUnsent' /\ (state' \notin Trying => busy' = 0)
  BY <1>1 DEF ConnectTimer, SyncTimer, ClaimUnsent, Trying
<1> QED
  BY <1>3, <1>4, <1>5 DEF SetupInv

\* A millisecond later every timer shows a millisecond more: the waits are over
\* long before a difference wraps.
LEMMA ElapsedTicks ==
  ASSUME ClockAssumption, SetupAssumption, SetupType, Tick
  PROVE  /\ ClockOK' /\ gap' = gap + 1 /\ gap' <= LoopMs
         /\ \A t \in Times : (now' - t) % Period =
              IF Elapsed(t) + 1 < Period THEN Elapsed(t) + 1 ELSE 0
<1>1. ClockOK
  BY DEF SetupType
<1>2. LoopMs \in Nat /\ gap \in Nat /\ gap < LoopMs
  BY <1>1 DEF Tick, ClockOK, ClockAssumption
<1> QED
  BY <1>1, <1>2, TickKeeps DEF Elapsed

\* A deadline comes a millisecond nearer, or lies a millisecond further back.
LEMMA DeadlineTicks ==
  ASSUME ClockAssumption, SetupAssumption, SetupType, Tick,
         NEW t \in Times, NEW d \in Nat, 2 * d < Period,
         2 * (waited - d) < Period - 1, DeadlineIn(t, d)
  PROVE  (now' - t) % Period =
           IF waited + 1 < d THEN Period + (waited + 1) - d ELSE (waited + 1) - d
<1>1. Period \in Nat /\ waited \in Nat /\ Elapsed(t) \in Nat
  BY SetupNumbers
<1>2. (now' - t) % Period = IF Elapsed(t) + 1 < Period THEN Elapsed(t) + 1 ELSE 0
  BY ElapsedTicks
<1>3. Elapsed(t) = IF waited < d THEN Period + waited - d ELSE waited - d
  BY DEF DeadlineIn
<1>4. CASE waited < d
  BY <1>1, <1>2, <1>3, <1>4
<1>5. CASE ~(waited < d)
  <2>1. waited - d >= 0 /\ waited - d + 1 < Period
    BY <1>1, <1>5
  <2> QED
    BY <1>1, <1>2, <1>3, <1>5, <2>1
<1> QED
  BY <1>4, <1>5

\* So does the loss of the network, while a wait goes on.
LEMMA WifiTicks ==
  ASSUME ClockAssumption, SetupAssumption, SetupType, Tick,
         UNCHANGED wifiLostAt, waited' = waited + 1, NEW d \in Nat, WaitsWithWifi(d)
  PROVE  WaitsWithWifi(d)'
<1>1. /\ Period \in Nat /\ LoopMs \in Nat /\ gap \in Nat /\ waited \in Nat
      /\ WifiConnectTimeoutMs \in Nat /\ now \in Nat
      /\ 2 * (WifiConnectTimeoutMs + 3 * LoopMs) < Period
      /\ 2 * LoopMs < Period
      /\ Elapsed(wifiLostAt) \in Nat
      /\ wifiLostAt \in Times
  BY SetupNumbers DEF SetupType, ClockAssumption
<1>2. gap' = gap + 1 /\ gap' <= LoopMs
      /\ (now' - wifiLostAt) % Period = IF Elapsed(wifiLostAt) + 1 < Period
                                        THEN Elapsed(wifiLostAt) + 1 ELSE 0
  BY <1>1, ElapsedTicks
<1>3. CASE wifiLostAt = 0 /\ waited <= d + gap
  BY <1>1, <1>2, <1>3 DEF WaitsWithWifi
<1>4. CASE wifiLostAt = 0 /\ waited <= d + LoopMs + gap /\ now = gap
  <2>1. now' = now + 1
    <3>1. now' = (now + 1) % Period /\ now + 1 < Period
      BY <1>1, <1>2, <1>4 DEF Tick, Later
    <3>2. (now + 1) % Period = now + 1
      BY <1>1, <3>1
    <3> QED
      BY <3>1, <3>2
  <2> QED
    BY <1>1, <1>2, <1>4, <2>1 DEF WaitsWithWifi
<1>5. CASE /\ wifiLostAt # 0
           /\ waited <= d + 2 * LoopMs + Elapsed(wifiLostAt)
           /\ Elapsed(wifiLostAt) < WifiConnectTimeoutMs + gap
  <2>1. Elapsed(wifiLostAt) + 1 < Period
    BY <1>1, <1>2, <1>5
  <2>2. Elapsed(wifiLostAt)' = Elapsed(wifiLostAt) + 1
    BY <1>2, <2>1 DEF Elapsed
  <2> QED
    BY <1>1, <1>2, <1>5, <2>2 DEF WaitsWithWifi
<1> QED
  BY <1>3, <1>4, <1>5 DEF WaitsWithWifi

\* The first claim, as time passes: the half of the range in which it stalls ends
\* where the clock wraps.
LEMMA FirstClaimTicks ==
  ASSUME ClockAssumption, SetupAssumption, SetupInv, state = "CLAIMING", FirstClaim,
         Tick, UNCHANGED <<state, claimRetryAt>>,
         busy' \in Nat, busy' <= busy + 1, FirstClaimStalls => busy' = busy
  PROVE  FirstClaim'
<1> DEFINE half == Period \div 2
<1>1. /\ Period \in Nat /\ LoopMs \in Nat /\ gap \in Nat /\ busy \in Nat
      /\ now \in Nat /\ now < Period /\ WifiConnectTimeoutMs \in Nat
      /\ 2 * (WifiConnectTimeoutMs + 3 * LoopMs) < Period
      /\ LoopMs > 0
  BY SetupNumbers DEF SetupInv
<1>2. Connects \in Nat /\ Connects' = Connects
  BY BudgetsAdd DEF Connects, ConnectBudget, DownMs
<1>3. /\ ClockOK' /\ gap' = gap + 1 /\ gap' <= LoopMs
  BY ElapsedTicks DEF SetupInv
<1>4. now' = IF now + 1 < Period THEN now + 1 ELSE 0
  <2>1. 1 \in 0..Period /\ now \in Times
    BY <1>1 DEF Times
  <2>2. now' = IF now + 1 < Period THEN now + 1 ELSE now + 1 - Period
    BY <2>1, LaterIs DEF Tick
  <2> QED
    BY <1>1, <2>2
<1>5. claimRetryAt = 0 /\ claimRetryAt' = 0
  BY DEF FirstClaim
<1>6. (Reached(0) <=> now < half) /\ (Reached(0)' <=> now' < half)
  <2>1. Reached(0) <=> now < half
    BY ClaimTimerSays
  <2>2. now' \in Nat /\ now' < Period
    BY <1>1, <1>4
  <2>3. now' % Period = now' /\ now' - 0 = now'
    BY <1>1, <2>2, BelowPeriod
  <2>4. Elapsed(0)' = now'
    BY <2>3 DEF Elapsed
  <2> QED
    BY <2>1, <2>4 DEF Reached
<1>7. half \in Nat /\ 2 * half <= Period
  BY <1>1
<1> HIDE DEF half
<1>8. CASE busy <= Connects + gap
  <2>1. busy' <= Connects + gap'
    BY <1>1, <1>2, <1>3, <1>8
  <2> QED
    BY <1>2, <1>5, <2>1 DEF FirstClaim
<1>9. CASE busy <= Connects + LoopMs /\ ~Reached(0)
  <2>1. busy' = busy
    BY <1>5, <1>9 DEF FirstClaimStalls
  <2>2. CASE now + 1 < Period
    <3>1. ~Reached(0)'
      BY <1>1, <1>4, <1>6, <1>7, <1>9, <2>2
    <3> QED
      BY <1>2, <1>5, <1>9, <2>1, <3>1 DEF FirstClaim
  <2>3. CASE ~(now + 1 < Period)
    <3>1. busy' <= Connects + LoopMs + gap' /\ now' <= gap'
      BY <1>1, <1>2, <1>3, <1>4, <1>9, <2>1, <2>3
    <3> QED
      BY <1>2, <1>5, <3>1 DEF FirstClaim
  <2> QED
    BY <2>2, <2>3
<1>10. CASE busy <= Connects + LoopMs + gap /\ now <= gap
  <2>1. busy' <= Connects + LoopMs + gap' /\ now' <= gap'
    BY <1>1, <1>2, <1>3, <1>4, <1>10
  <2> QED
    BY <1>2, <1>5, <2>1 DEF FirstClaim
<1> QED
  BY <1>8, <1>9, <1>10 DEF FirstClaim

\* Time passes.
LEMMA SetupTimeKeeps ==
  ASSUME ClockAssumption, SetupAssumption, SetupInv, SetupTime
  PROVE  SetupInv'
<1>1. /\ SetupType /\ Tick
      /\ UNCHANGED <<state, stateStartedAt, wifiLostAt, timeSyncFailures, timeSyncRetryAt,
                     timeSyncWaitingToRetry, claiming, claimFailures, claimRetryAt>>
  BY DEF SetupTime, SetupInv, startVars, syncVars, claimVars
<1>2. /\ Period \in Nat /\ LoopMs \in Nat /\ gap \in Nat /\ waited \in Nat /\ busy \in Nat
      /\ gap <= LoopMs /\ WifiConnectTimeoutMs \in Nat /\ ClaimRetryMaximumMs \in Nat
      /\ 2 * (WifiConnectTimeoutMs + 3 * LoopMs) < Period
      /\ 2 * (ClaimRetryMaximumMs + 3 * LoopMs) < Period
  BY <1>1, SetupNumbers
<1>3. ClockOK' /\ gap' = gap + 1 /\ gap' <= LoopMs
  BY <1>1, ElapsedTicks
<1>4. /\ waited' \in Nat /\ busy' \in Nat /\ busy' <= busy + 1
      /\ state \notin Trying => busy' = busy
      /\ state \in Trying => waited' = IF waited < Period THEN waited + 1 ELSE waited
      /\ state \in Trying /\ FirstClaimStalls => busy' = busy
  BY <1>2 DEF SetupTime, Upto
<1>5. SetupType'
  BY <1>1, <1>3, <1>4 DEF SetupType
<1>6. ConnectTimer'
  <2>1. SUFFICES ASSUME state = "CONNECTING_WIFI"
                 PROVE  ConnectTimer'
    BY <1>1 DEF ConnectTimer
  <2>2. /\ wifiLostAt = 0 /\ Elapsed(stateStartedAt) = waited
        /\ waited <= WifiConnectTimeoutMs + gap /\ busy <= waited
    BY <2>1 DEF SetupInv, ConnectTimer
  <2>3. waited + 1 < Period /\ waited' = waited + 1
    BY <1>2, <1>4, <2>1, <2>2 DEF Trying
  <2>4. Elapsed(stateStartedAt)' = waited + 1
    <3>1. stateStartedAt \in Times
      BY <1>1 DEF SetupType
    <3>2. (now' - stateStartedAt) % Period = waited + 1
      BY <1>1, <2>2, <2>3, <3>1, ElapsedTicks
    <3> QED
      BY <1>1, <3>2 DEF Elapsed
  <2>5. busy' <= waited' /\ waited' <= WifiConnectTimeoutMs + gap'
    BY <1>2, <1>3, <1>4, <2>2, <2>3
  <2> QED
    BY <1>1, <2>2, <2>3, <2>4, <2>5 DEF ConnectTimer
<1>7. SyncTimer'
  <2>1. SUFFICES ASSUME state = "SYNCING_TIME"
                 PROVE  SyncTimer'
    BY <1>1 DEF SyncTimer
  <2> PICK d : d = SyncWait
    OBVIOUS
  <2>2. /\ timeSyncFailures < TimeSyncMaximumAttempts
        /\ timeSyncWaitingToRetry => timeSyncFailures > 0
        /\ timeSyncWaitingToRetry => DeadlineIn(timeSyncRetryAt, d)
        /\ ~timeSyncWaitingToRetry => Elapsed(stateStartedAt) = waited
        /\ WaitsWithWifi(d)
        /\ busy <= ConnectBudget(timeSyncFailures, SyncPauses) + waited
    BY <2>1 DEF SetupInv, SyncTimer
  <2>3. /\ d \in Nat /\ 2 * (d + 3 * LoopMs) < Period /\ waited < d + DownMs
        /\ SyncPauses \in Nat /\ timeSyncFailures \in Nat
    BY <1>1, <2>1, SyncWaitBounds DEF SetupType
  <2>4. /\ waited + 1 < Period /\ waited' = waited + 1
        /\ 2 * d < Period /\ 2 * (waited - d) < Period - 1
    BY <1>2, <1>3, <1>4, <2>1, <2>3 DEF Trying, DownMs
  <2>5. SyncWait' = d /\ SyncPauses' = SyncPauses
    BY <1>1 DEF SyncWait, SyncPauses, SyncDelay
  <2>6. WaitsWithWifi(SyncWait)'
    <3>1. WaitsWithWifi(d)'
      BY <1>1, <2>2, <2>3, <2>4, WifiTicks
    <3> QED
      BY <2>5, <3>1 DEF WaitsWithWifi
  <2>7. timeSyncWaitingToRetry => DeadlineIn(timeSyncRetryAt, SyncWait)'
    <3>1. SUFFICES ASSUME timeSyncWaitingToRetry
                   PROVE  DeadlineIn(timeSyncRetryAt, SyncWait)'
      OBVIOUS
    <3>2. timeSyncRetryAt \in Times
      BY <1>1 DEF SetupType
    <3>3. (now' - timeSyncRetryAt) % Period =
            IF waited + 1 < d THEN Period + (waited + 1) - d ELSE (waited + 1) - d
      BY <1>1, <2>2, <2>3, <2>4, <3>1, <3>2, DeadlineTicks
    <3>4. Elapsed(timeSyncRetryAt)' = (now' - timeSyncRetryAt) % Period
      BY <1>1 DEF Elapsed
    <3>5. DeadlineIn(timeSyncRetryAt, d)'
      BY <2>4, <3>3, <3>4 DEF DeadlineIn
    <3> QED
      BY <2>5, <3>5 DEF DeadlineIn
  <2>8. ~timeSyncWaitingToRetry => Elapsed(stateStartedAt)' = waited'
    <3>1. stateStartedAt \in Times
      BY <1>1 DEF SetupType
    <3>2. (now' - stateStartedAt) % Period =
            IF Elapsed(stateStartedAt) + 1 < Period THEN Elapsed(stateStartedAt) + 1 ELSE 0
      BY <1>1, <3>1, ElapsedTicks
    <3>3. Elapsed(stateStartedAt)' = (now' - stateStartedAt) % Period
      BY <1>1 DEF Elapsed
    <3> QED
      BY <2>2, <2>4, <3>2, <3>3
  <2>9. busy' <= ConnectBudget(timeSyncFailures, SyncPauses)' + waited'
    <3>1. ConnectBudget(timeSyncFailures, SyncPauses)' = ConnectBudget(timeSyncFailures, SyncPauses)
      BY <1>1, <2>5 DEF ConnectBudget, DownMs
    <3>2. ConnectBudget(timeSyncFailures, SyncPauses) \in Nat
      BY <2>3, BudgetsAdd
    <3> QED
      BY <1>2, <1>4, <2>2, <2>4, <3>1, <3>2
  <2> QED
    BY <1>1, <2>2, <2>6, <2>7, <2>8, <2>9 DEF SyncTimer
<1>8. ClaimTimer'
  <2>1. SUFFICES ASSUME state = "CLAIMING"
                 PROVE  ClaimTimer'
    BY <1>1 DEF ClaimTimer
  <2>2. claiming /\ claimFailures < MaxClaimFailures /\ claimFailures \in Nat
    BY <1>1, <2>1 DEF SetupInv, ClaimTimer, SetupType
  <2>3. CASE claimFailures = 0
    <3>1. FirstClaim
      BY <2>1, <2>3 DEF SetupInv, ClaimTimer
    <3>2. FirstClaimStalls => busy' = busy
      BY <1>4, <2>1 DEF Trying
    <3>3. FirstClaim'
      BY <1>1, <1>4, <2>1, <3>1, <3>2, FirstClaimTicks
    <3> QED
      BY <1>1, <2>2, <2>3, <3>3 DEF ClaimTimer
  <2>4. CASE claimFailures # 0
    <3> PICK d : d = ClaimDelay
      OBVIOUS
    <3>1. /\ claimFailures > 0
          /\ DeadlineIn(claimRetryAt, d)
          /\ waited <= d + gap
          /\ busy <= ClaimBudget(claimFailures - 1) + waited
      BY <2>1, <2>2, <2>4 DEF SetupInv, ClaimTimer
    <3>2. d \in Nat /\ d <= ClaimRetryMaximumMs
      BY <2>1, <3>1, ClaimTimerSays
    <3>3. /\ waited + 1 < Period /\ waited' = waited + 1
          /\ 2 * d < Period /\ 2 * (waited - d) < Period - 1
          /\ waited' <= d + gap'
      BY <1>2, <1>3, <1>4, <2>1, <3>1, <3>2 DEF Trying
    <3>4. ClaimDelay' = d
      BY <1>1 DEF ClaimDelay, Delay
    <3>5. DeadlineIn(claimRetryAt, ClaimDelay)'
      <4>1. claimRetryAt \in Times
        BY <1>1 DEF SetupType
      <4>2. (now' - claimRetryAt) % Period =
              IF waited + 1 < d THEN Period + (waited + 1) - d ELSE (waited + 1) - d
        BY <1>1, <3>1, <3>2, <3>3, <4>1, DeadlineTicks
      <4>3. Elapsed(claimRetryAt)' = (now' - claimRetryAt) % Period
        BY <1>1 DEF Elapsed
      <4>4. DeadlineIn(claimRetryAt, d)'
        BY <3>3, <4>2, <4>3 DEF DeadlineIn
      <4> QED
        BY <3>4, <4>4 DEF DeadlineIn
    <3>6. busy' <= ClaimBudget(claimFailures - 1)' + waited'
      <4>1. ClaimBudget(claimFailures - 1)' = ClaimBudget(claimFailures - 1)
        BY <1>1 DEF ClaimBudget, Connects, ConnectBudget, DownMs
      <4>2. ClaimBudget(claimFailures - 1) \in Nat
        <5>1. claimFailures - 1 \in Nat
          BY <2>2, <2>4
        <5> QED
          BY <5>1, BudgetsAdd
      <4> QED
        BY <1>2, <1>4, <3>1, <3>3, <4>1, <4>2
    <3>7. waited' <= ClaimDelay' + gap'
      BY <3>3, <3>4
    <3> QED
      BY <1>1, <2>2, <2>4, <3>5, <3>6, <3>7 DEF ClaimTimer
  <2> QED
    BY <2>3, <2>4
<1>9. ClaimUnsent' /\ (state' \notin Trying => busy' = 0)
  BY <1>1, <1>4 DEF SetupInv, ClaimUnsent
<1> QED
  BY <1>5, <1>6, <1>7, <1>8, <1>9 DEF SetupInv

\* A step of the waits keeps the invariant.
LEMMA SetupStepKeeps ==
  ASSUME ClockAssumption, SetupAssumption, SetupInv, [SetupNext]_setupVars
  PROVE  SetupInv'
<1>1. SetupType
  BY DEF SetupInv
<1>2. now \in Times /\ 0 \in Times
  BY <1>1 DEF SetupType, ClockOK, Times
<1>3. CASE Request
  BY <1>3, RequestKeeps
<1>4. CASE EnterSetupMode
  <2>1. SetupType'
    BY <1>1, <1>2, <1>4 DEF EnterSetupMode, StartPortal, SetupType, ClockOK, States,
                            syncVars, claimVars
  <2> QED
    BY <1>4, <2>1, IdleKeeps DEF EnterSetupMode, StartPortal
<1>5. CASE PortalIdles \/ ReadyWifiUp
  <2>1. /\ Pass /\ state \in {"SETUP_PORTAL", "READY"} /\ wifiLostAt' \in {0, wifiLostAt}
        /\ UNCHANGED <<state, stateStartedAt, timeSyncFailures, timeSyncRetryAt,
                       timeSyncWaitingToRetry, claiming, claimFailures, claimRetryAt,
                       waited, busy>>
    BY <1>5 DEF PortalIdles, ReadyWifiUp, Stay, syncVars, claimVars
  <2>2. ClockOK' /\ busy = 0
    BY <1>1, <2>1, SetupPass DEF SetupInv, Trying
  <2>3. SetupType'
    BY <1>1, <1>2, <2>1, <2>2 DEF SetupType
  <2> QED
    BY <2>1, <2>2, <2>3, IdleKeeps
<1>6. CASE SetupTime
  BY <1>6, SetupTimeKeeps
<1>7. CASE Connecting
  BY <1>7, ConnectingKeeps
<1>8. CASE WifiDown
  BY <1>8, DownKeeps
<1>9. CASE TimeSynced
  BY <1>9, SyncedKeeps
<1>10. CASE SyncUnset
  BY <1>10, UnsetKeeps
<1>11. CASE SyncRetries
  BY <1>11, RetriesKeep
<1>12. CASE SyncTimesOut
  BY <1>12, TimesOutKeeps
<1>13. CASE ClaimWaits
  BY <1>13, ClaimWaitsKeeps
<1>14. CASE ClaimSucceeds
  <2>1. /\ Pass /\ state' = "READY" /\ claiming' = FALSE /\ waited' = 0 /\ busy' = 0
        /\ UNCHANGED <<wifiLostAt, stateStartedAt, timeSyncFailures, timeSyncRetryAt,
                       timeSyncWaitingToRetry, claimFailures, claimRetryAt>>
    BY <1>14 DEF ClaimSucceeds, Claiming, syncVars
  <2>2. ClockOK'
    BY <1>1, <2>1, SetupPass
  <2>3. SetupType'
    BY <1>1, <2>1, <2>2 DEF SetupType, States
  <2> QED
    BY <2>1, <2>3, IdleKeeps
<1>15. CASE ClaimFails
  BY <1>15, ClaimFailsKeeps
<1>16. CASE UNCHANGED setupVars
  <2>1. UNCHANGED <<now, gap, state, stateStartedAt, wifiLostAt, timeSyncFailures,
                    timeSyncRetryAt, timeSyncWaitingToRetry, claiming, claimFailures,
                    claimRetryAt, waited, busy>>
    BY <1>16 DEF setupVars, setupState, startVars, syncVars, claimVars
  <2>2. SetupType' /\ ClaimUnsent' /\ (state' \notin Trying => busy' = 0)
    BY <2>1 DEF SetupInv, SetupType, ClockOK, ClaimUnsent
  <2>3. ConnectTimer'
    BY <2>1 DEF SetupInv, ConnectTimer, Elapsed
  <2>4. SyncTimer'
    BY <2>1 DEF SetupInv, SyncTimer, SyncWait, SyncPauses, SyncDelay, DeadlineIn,
                WaitsWithWifi, Elapsed, ConnectBudget, DownMs
  <2>5. ClaimTimer'
    BY <2>1 DEF SetupInv, ClaimTimer, FirstClaim, ClaimDelay, DeadlineIn, Elapsed, Reached,
                ClaimBudget, Connects, ConnectBudget, DownMs
  <2> QED
    BY <2>2, <2>3, <2>4, <2>5 DEF SetupInv
<1> QED
  BY <1>3, <1>4, <1>5, <1>6, <1>7, <1>8, <1>9, <1>10, <1>11, <1>12, <1>13, <1>14, <1>15,
     <1>16 DEF SetupNext

\* Every timer of the provisioning loop shows the exact length of the present wait,
\* and the waits so far fit the budget of those that the counters tell: SetupInv.
THEOREM SetupInvariant == SetupSpec => []SetupInv
<1>1. SetupInit => SetupInv
  <2>1. SUFFICES ASSUME SetupInit
                 PROVE  SetupInv
    OBVIOUS
  <2>2. 0 \in Times /\ 0 \in 0..LoopMs
    BY <2>1, ClockAssumption DEF SetupInit, ClockInit, ClockAssumption, Times
  <2>3. SetupType
    BY <2>1, <2>2 DEF SetupInit, ClockInit, SetupType, ClockOK, States
  <2> QED
    BY <2>1, <2>3 DEF SetupInit, SetupInv, ConnectTimer, SyncTimer, ClaimTimer, ClaimUnsent,
                      Trying
<1>2. SetupInv /\ [SetupNext]_setupVars => SetupInv'
  BY ClockAssumption, SetupAssumption, SetupStepKeeps
<1> QED
  BY <1>1, <1>2, PTL DEF SetupSpec

\* Each timeout and retry deadline of NivaloProvisioning::loop expires when the wait
\* has lasted as long as it should, not sooner and not later, wherever the clock
\* wraps; but for the first claim, whose deadline is 0.
THEOREM SetupWaitsKept == SetupSpec => []WaitsKept
<1>1. ASSUME SetupInv
      PROVE  WaitsKept
  <2>1. SetupType /\ ClockAssumption /\ SetupAssumption
    BY <1>1, ClockAssumption, SetupAssumption DEF SetupInv
  <2>2. ASSUME state = "CONNECTING_WIFI"
        PROVE  ConnectTimedOut <=> waited >= WifiConnectTimeoutMs
    BY <1>1, <2>2 DEF SetupInv, ConnectTimer, ConnectTimedOut
  <2>3. ASSUME state = "SYNCING_TIME", ~timeSyncWaitingToRetry
        PROVE  Elapsed(stateStartedAt) >= TimeSyncTimeoutMs <=> waited >= TimeSyncTimeoutMs
    BY <1>1, <2>3 DEF SetupInv, SyncTimer
  <2>4. ASSUME state = "SYNCING_TIME", timeSyncWaitingToRetry
        PROVE  Reached(timeSyncRetryAt) <=> waited >= SyncDelay
    <3>1. SyncWait = SyncDelay
      BY <2>4 DEF SyncWait
    <3> QED
      BY <1>1, <2>1, <2>4, <3>1, SyncTimerSays
  <2>5. ASSUME state = "CLAIMING"
        PROVE  \/ Reached(claimRetryAt) <=> (claimFailures > 0 => waited >= ClaimDelay)
               \/ FirstClaimStalls
    <3>1. CASE claimFailures > 0
      BY <1>1, <2>1, <2>5, <3>1, ClaimTimerSays
    <3>2. CASE ~(claimFailures > 0)
      <4>1. claimFailures = 0
        BY <2>1, <3>2 DEF SetupType
      <4>2. claimRetryAt = 0
        BY <1>1, <2>5, <4>1 DEF SetupInv, ClaimTimer, FirstClaim
      <4> QED
        BY <2>5, <3>2, <4>2 DEF FirstClaimStalls
    <3> QED
      BY <3>1, <3>2
  <2> QED
    BY <2>2, <2>3, <2>4, <2>5 DEF WaitsKept
<1> QED
  BY <1>1, SetupInvariant, PTL

\* An attempt to connect, to set the clock and to claim is over within the sum of its
\* timeouts, however the network comes and goes: no sequence of losses, retries
\* and wraps of the clock keeps NivaloProvisioning::loop trying for longer.
THEOREM SetupIsBounded == SetupSpec => []SetupBounded
<1>1. ASSUME SetupInv
      PROVE  SetupBounded
  <2>1. SetupType /\ ClockAssumption /\ SetupAssumption
    BY <1>1, ClockAssumption, SetupAssumption DEF SetupInv
  <2>2. Connects \in Nat /\ Connects <= SetupBound /\ SetupBound \in Int
    <3>1. /\ Connects \in Nat /\ ClaimBudget(0) = Connects + 2 * LoopMs
          /\ LoopMs \in Nat /\ MaxClaimFailures \in Nat /\ MaxClaimFailures > 0
      BY <2>1, SetupNumbers, BudgetsAdd
    <3>2. ClaimBudget(0) <= SetupBound
      <4>1. 0 <= MaxClaimFailures - 1
        BY <3>1
      <4> QED
        BY <2>1, <4>1, BudgetsAdd
    <3>3. SetupBound \in Int
      BY <2>1, SetupNumbers DEF SetupBound
    <3> QED
      BY <3>1, <3>2, <3>3
  <2>3. CASE state \notin Trying
    BY <1>1, <2>2, <2>3 DEF SetupInv, SetupBounded
  <2>4. CASE state = "CONNECTING_WIFI"
    <3>1. busy <= waited /\ waited <= WifiConnectTimeoutMs + gap
      BY <1>1, <2>4 DEF SetupInv, ConnectTimer
    <3>2. /\ waited \in Nat /\ busy \in Nat /\ gap \in Nat /\ gap <= LoopMs /\ LoopMs \in Nat
          /\ WifiConnectTimeoutMs \in Nat
          /\ TimeSyncMaximumAttempts \in Nat /\ TimeSyncMaximumAttempts > 0
      BY <2>1, SetupNumbers
    <3>3. WifiConnectTimeoutMs + LoopMs <= Connects
      <4> DEFINE n == TimeSyncMaximumAttempts
                 x == TimeSyncTimeoutMs + DownMs
                 y == TimeSyncRetryMaximumMs + DownMs
      <4>1. DownMs \in Nat
        BY <2>1, BudgetsAdd
      <4>2. x \in Nat /\ y \in Nat /\ n \in Nat /\ n - 1 \in Nat
        BY <2>1, <3>2, <4>1, SetupNumbers
      <4>3. Connects = WifiConnectTimeoutMs + LoopMs + n * x + (n - 1) * y
        BY DEF Connects, ConnectBudget
      <4> HIDE DEF n, x, y
      <4>4. n * x \in Nat /\ (n - 1) * y \in Nat
        BY <4>2
      <4> DEFINE a == n * x
                 b == (n - 1) * y
      <4>5. a \in Nat /\ b \in Nat /\ Connects = WifiConnectTimeoutMs + LoopMs + a + b
        BY <4>3, <4>4
      <4> HIDE DEF a, b
      <4> QED
        BY <3>2, <4>5
    <3> QED
      BY <2>2, <3>1, <3>2, <3>3 DEF SetupBounded
  <2>5. CASE state = "SYNCING_TIME"
    <3>1. busy <= Connects /\ busy \in Nat
      BY <1>1, <2>1, <2>5, SyncSpent DEF SetupType
    <3> QED
      BY <2>2, <3>1 DEF SetupBounded
  <2>6. CASE state = "CLAIMING"
    BY <1>1, <2>1, <2>6, ClaimSpent DEF SetupBounded
  <2> QED
    BY <2>3, <2>4, <2>5, <2>6 DEF Trying
<1> QED
  BY <1>1, SetupInvariant, PTL
================================================================================
