------------------------------- MODULE Reconnect -------------------------------
(***************************************************************************)
(* When an attempt to connect to the broker is due: NivaloReconnectPolicy, *)
(* and NivaloConnection::service, which asks it.  What follows a connection*)
(* is the subject of Messaging.                                            *)
(***************************************************************************)
EXTENDS Clock

CONSTANTS
  InitialBackoffMs,  \* 1000 in the code
  MaximumBackoffMs   \* 60000

ASSUME BackoffAssumption ==
  /\ InitialBackoffMs \in Nat \ {0}
  /\ MaximumBackoffMs \in Nat
  /\ InitialBackoffMs <= MaximumBackoffMs
  /\ MaximumBackoffMs % 2 = 0
  /\ MaximumBackoffMs + MaximumBackoffMs \div 4 + LoopMs < Period \div 2

VARIABLES
  nextAttemptAt,       \* the members of NivaloReconnectPolicy
  backoffMs,
  attemptImmediately,
  connected,           \* the client is connected
  failures,            \* history: attempts failed since one succeeded
  sinceFailure         \* history: how long ago, exactly, the last of them began

policyVars == <<nextAttemptAt, backoffMs, attemptImmediately>>
reconnectState == <<policyVars, connected, failures, sinceFailure>>
reconnectVars == <<now, gap, reconnectState>>

\* reset(), by configure()
ReconnectInit ==
  /\ ClockInit
  /\ nextAttemptAt = 0
  /\ backoffMs = InitialBackoffMs
  /\ attemptImmediately = TRUE
  /\ connected = FALSE
  /\ failures = 0
  /\ sinceFailure = 0

AttemptDue == attemptImmediately \/ Reached(nextAttemptAt)

\* The next backoff: twice this one, without overflow, up to the maximum.
Doubled ==
  IF backoffMs >= MaximumBackoffMs \div 2 THEN MaximumBackoffMs ELSE 2 * backoffMs

OnFailure ==
  /\ \E jitter \in 0..(backoffMs \div 4) :
       nextAttemptAt' = Later(now, backoffMs + jitter)
  /\ attemptImmediately' = FALSE
  /\ backoffMs' = Doubled

\* Defect: the deadline of the last failure stays.
OnSuccessNotAtOnce ==
  /\ backoffMs' = InitialBackoffMs
  /\ UNCHANGED <<nextAttemptAt, attemptImmediately>>

OnSuccess ==
  /\ nextAttemptAt' = now
  /\ backoffMs' = InitialBackoffMs
  /\ attemptImmediately' = TRUE

\* The k-th failure in a row is followed by a pause of this and up to a quarter
\* more.
Backoff(k) ==
  LET ms == InitialBackoffMs * 2^(k - 1) IN
  IF ms < MaximumBackoffMs THEN ms ELSE MaximumBackoffMs

\* NivaloConnection::service, in every pass: an attempt is made when it is due.
ServiceNothing ==
  /\ connected \/ ~AttemptDue
  /\ Pass
  /\ UNCHANGED <<policyVars, connected, failures, sinceFailure>>

\* The pause is reckoned from the time at which service was called: what the
\* attempt itself takes is part of it.  Failures are counted until the pause grows
\* no longer.
AttemptFails ==
  /\ ~connected /\ AttemptDue
  /\ Pass
  /\ OnFailure
  /\ failures' = IF failures > 0 /\ Backoff(failures) = MaximumBackoffMs
                 THEN failures ELSE failures + 1
  /\ sinceFailure' = 0
  /\ UNCHANGED connected

AttemptSucceeds ==
  /\ ~connected /\ AttemptDue
  /\ Pass
  /\ OnSuccess
  /\ connected' = TRUE
  /\ failures' = 0
  /\ UNCHANGED sinceFailure

Disconnect ==
  /\ connected
  /\ connected' = FALSE
  /\ UNCHANGED <<now, gap, policyVars, failures, sinceFailure>>

ReconnectTime ==
  /\ Tick
  /\ sinceFailure' = IF failures = 0 THEN 0 ELSE Upto(sinceFailure, Period \div 2)
  /\ UNCHANGED <<policyVars, connected, failures>>

ReconnectNext ==
  ServiceNothing \/ AttemptFails \/ AttemptSucceeds \/ Disconnect \/ ReconnectTime

ReconnectSpec == ReconnectInit /\ [][ReconnectNext]_reconnectVars

-----------------------------------------------------------------------------
(* Properties *)

\* README: "failed attempts use exponential backoff from 1 to 60 seconds plus up
\* to 25% random jitter", at any uptime and across the wrap of millis().  An
\* attempt is due when the pause of the failures in a row is over, not before,
\* and at once after a success.
BackoffKept ==
  ~connected =>
    IF failures = 0 THEN AttemptDue
    ELSE /\ AttemptDue => sinceFailure >= Backoff(failures)
         /\ ~AttemptDue => 4 * sinceFailure < 5 * Backoff(failures)
=================================================================================
