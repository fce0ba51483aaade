--------------------------------- MODULE Clock ---------------------------------
(***************************************************************************)
(* millis(): a count of milliseconds, unsigned, that wraps.  Times are     *)
(* compared by their difference, which wraps with it.  The loop that looks *)
(* at the clock comes round within a bounded time.                         *)
(***************************************************************************)
EXTENDS Integers

CONSTANTS
  Period,  \* millis() wraps to 0 here, 2^32 in the code
  LoopMs   \* bound: from one pass of the loop to the next; what a pass calls
           \* has a timeout, and the watchdog of NivaloDevice::loop is 30 s

ASSUME ClockAssumption ==
  /\ Period \in Nat
  /\ LoopMs \in Nat \ {0}
  /\ 2 * LoopMs < Period

VARIABLES
  now,     \* millis()
  gap      \* history: how long ago the loop last came round

Times == 0..(Period - 1)

\* now - t, as elapsed() of NivaloProvisioningTimePolicy compares it
Elapsed(t) == (now - t) % Period

Later(t, interval) == (t + interval) % Period

\* Defect: the times themselves are compared.
ReachedPlainly(t) == now >= t

\* (int32_t)(now - t) >= 0, as retryDue() and isAttemptDue() compare it
Reached(t) == Elapsed(t) < Period \div 2

ClockInit == now \in Times /\ gap = 0

\* A millisecond passes.
Tick ==
  /\ gap < LoopMs
  /\ gap' = gap + 1
  /\ now' = Later(now, 1)

\* The loop comes round.
Pass == gap' = 0 /\ UNCHANGED now

\* A history that counts milliseconds up to a bound.
Upto(t, bound) == IF t < bound THEN t + 1 ELSE t
================================================================================
