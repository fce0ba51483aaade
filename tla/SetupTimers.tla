------------------------------- MODULE SetupTimers -------------------------------
(***************************************************************************)
(* The waits of NivaloProvisioning::loop: for the network, for the clock   *)
(* and between attempts to set it, between attempts to claim, and for a    *)
(* network that was lost.  Provisioning has the same states, with the      *)
(* identity they are about, and lets each wait end at any time; here it is *)
(* the waits that are modelled, and what ends them is left open.           *)
(***************************************************************************)
EXTENDS Clock

CONSTANTS
  WifiConnectTimeoutMs,     \* 20000 in the code
  TimeSyncTimeoutMs,        \* 15000
  TimeSyncRetryBaseMs,      \* 2000
  TimeSyncRetryMaximumMs,   \* 30000
  TimeSyncMaximumAttempts,  \* 3
  ClaimRetryBaseMs,         \* 5000
  ClaimRetryMaximumMs,      \* 60000
  MaxClaimFailures          \* 5

ASSUME SetupAssumption ==
  /\ {WifiConnectTimeoutMs, TimeSyncTimeoutMs, TimeSyncRetryBaseMs,
      TimeSyncRetryMaximumMs, TimeSyncMaximumAttempts, ClaimRetryBaseMs,
      ClaimRetryMaximumMs, MaxClaimFailures} \subseteq Nat \ {0}
  /\ \A ms \in {WifiConnectTimeoutMs, TimeSyncTimeoutMs,
                TimeSyncRetryMaximumMs, ClaimRetryMaximumMs} :
       2 * (ms + 3 * LoopMs) < Period

VARIABLES
  state,                   \* _state
  claiming,                \* a claim is pending and no change of network
  stateStartedAt,
  wifiLostAt,
  timeSyncFailures,
  timeSyncRetryAt,
  timeSyncWaitingToRetry,
  claimFailures,
  claimRetryAt,
  waited,                  \* history: how long the present wait has lasted,
                           \* exactly
  busy                     \* history: the same of the whole attempt but for
                           \* FirstClaimStalls, 0 outside

startVars == <<stateStartedAt, wifiLostAt>>
syncVars == <<timeSyncFailures, timeSyncRetryAt, timeSyncWaitingToRetry>>
claimVars == <<claiming, claimFailures, claimRetryAt>>
setupState == <<state, startVars, syncVars, claimVars, waited, busy>>
setupVars == <<now, gap, setupState>>

States == {"SETUP_PORTAL", "CONNECTING_WIFI", "SYNCING_TIME", "CLAIMING", "READY"}

SetupInit ==
  /\ ClockInit
  /\ state = "SETUP_PORTAL"
  /\ claiming = FALSE
  /\ stateStartedAt = 0
  /\ wifiLostAt = 0
  /\ timeSyncFailures = 0
  /\ timeSyncRetryAt = 0
  /\ timeSyncWaitingToRetry = FALSE
  /\ claimFailures = 0
  /\ claimRetryAt = 0
  /\ waited = 0
  /\ busy = 0

-----------------------------------------------------------------------------
(* Helpers that several states use *)

\* startPortal
StartPortal ==
  /\ state' = "SETUP_PORTAL"
  /\ stateStartedAt' = now
  /\ waited' = 0
  /\ busy' = 0
  /\ UNCHANGED <<wifiLostAt, syncVars, claimVars>>

\* startWifi
StartWifi ==
  /\ state' = "CONNECTING_WIFI"
  /\ stateStartedAt' = now
  /\ wifiLostAt' = 0
  /\ timeSyncFailures' = 0
  /\ timeSyncRetryAt' = 0
  /\ timeSyncWaitingToRetry' = FALSE
  /\ waited' = 0
  /\ busy' = 0

\* startTimeSync
StartTimeSync(resetAttempts) ==
  /\ state' = "SYNCING_TIME"
  /\ stateStartedAt' = now
  /\ timeSyncFailures' = IF resetAttempts THEN 0 ELSE timeSyncFailures
  /\ timeSyncRetryAt' = 0
  /\ timeSyncWaitingToRetry' = FALSE
  /\ waited' = 0
  /\ UNCHANGED <<claimVars, busy>>

\* retryDelay, and the claim's own
Delay(base, maximum, failures) ==
  LET ms == base * 2^(failures - 1) IN IF ms < maximum THEN ms ELSE maximum

SyncDelay == Delay(TimeSyncRetryBaseMs, TimeSyncRetryMaximumMs, timeSyncFailures)
ClaimDelay == Delay(ClaimRetryBaseMs, ClaimRetryMaximumMs, claimFailures)

\* The states in which an attempt is under way.
Trying == {"CONNECTING_WIFI", "SYNCING_TIME", "CLAIMING"}

\* How long an attempt may take: each wait may end one pass late, and in
\* SYNCING_TIME only when the network is up, which it is again, or lost for good,
\* within the connect timeout: a pass later that the loss is seen, a pass later
\* that it is over, and one more when it is seen at time 0, which is no time.  The
\* first claim is made in the next pass, or stalls before it and is made in the one
\* after the clock wraps.
SetupBound ==
  LET connect == WifiConnectTimeoutMs + LoopMs
      down == WifiConnectTimeoutMs + 3 * LoopMs
      n == TimeSyncMaximumAttempts
      sync == TimeSyncTimeoutMs + down
      retry == TimeSyncRetryMaximumMs + down
      claim == ClaimRetryMaximumMs + LoopMs IN
  connect + n * sync + (n - 1) * retry + 2 * LoopMs + (MaxClaimFailures - 1) * claim

-----------------------------------------------------------------------------
(* Requests, outside the state machine *)

\* A claim by the portal or the serial port, in CLAIMING too, or a change of
\* network or a replayed claim.  The portal has left the network, so that a replay
\* begins with it; the replays that go on from ERROR, with the network and the clock
\* as they were, are in Provisioning.
Request ==
  /\ \/ claiming' = TRUE /\ claimFailures' = 0 /\ claimRetryAt' = 0
     \/ /\ state # "CLAIMING"
        /\ claiming' = FALSE
        /\ UNCHANGED <<claimFailures, claimRetryAt>>
  /\ StartWifi
  /\ UNCHANGED <<now, gap>>

\* The setup button, or a factory reset.
EnterSetupMode == StartPortal /\ UNCHANGED <<now, gap>>
-----------------------------------------------------------------------------
(* loop(): one pass, by state; the network is up or down when it looks *)

Stay == UNCHANGED <<state, stateStartedAt, syncVars, claimVars, waited, busy>>

ConnectTimedOut == Elapsed(stateStartedAt) >= WifiConnectTimeoutMs

Connecting ==
  /\ state = "CONNECTING_WIFI"
  /\ Pass
  /\ \/ StartTimeSync(TRUE) /\ UNCHANGED wifiLostAt
     \/ ConnectTimedOut /\ StartPortal
     \/ ~ConnectTimedOut /\ Stay /\ UNCHANGED wifiLostAt

\* The network is down, in SYNCING_TIME or READY: 0 is no time.
WifiDown ==
  /\ state \in {"SYNCING_TIME", "READY"}
  /\ Pass
  /\ IF wifiLostAt = 0
     THEN wifiLostAt' = now /\ Stay
     ELSE IF Elapsed(wifiLostAt) >= WifiConnectTimeoutMs
          THEN StartPortal
          ELSE UNCHANGED wifiLostAt /\ Stay

ReadyWifiUp ==
  /\ state = "READY"
  /\ Pass
  /\ wifiLostAt' = 0
  /\ Stay

\* SYNCING_TIME with the network up.
Syncing == state = "SYNCING_TIME" /\ Pass /\ wifiLostAt' = 0

\* continueAfterTimeSync; a change of network that cannot be verified or
\* committed goes back to the portal.
TimeSynced ==
  /\ Syncing
  /\ state' \in IF claiming THEN {"CLAIMING"} ELSE {"READY", "SETUP_PORTAL"}
  /\ stateStartedAt' = now
  /\ waited' = 0
  /\ busy' = IF claiming THEN busy ELSE 0
  /\ UNCHANGED <<syncVars, claimVars>>

\* Defect: the wait for the clock begins anew.
SyncUnsetAgain ==
  /\ Syncing
  /\ ~timeSyncWaitingToRetry
  /\ Elapsed(stateStartedAt) < TimeSyncTimeoutMs
  /\ stateStartedAt' = now
  /\ waited' = 0
  /\ UNCHANGED <<state, syncVars, claimVars, busy>>

\* The clock is not set yet.
SyncUnset ==
  /\ Syncing
  /\ IF timeSyncWaitingToRetry THEN ~Reached(timeSyncRetryAt)
     ELSE Elapsed(stateStartedAt) < TimeSyncTimeoutMs
  /\ Stay

SyncRetries ==
  /\ Syncing
  /\ timeSyncWaitingToRetry /\ Reached(timeSyncRetryAt)
  /\ StartTimeSync(FALSE)

\* An attempt timed out: another one after a delay, or the portal.
SyncTimesOut ==
  /\ state = "SYNCING_TIME"
  /\ Pass
  /\ ~timeSyncWaitingToRetry
  /\ Elapsed(stateStartedAt) >= TimeSyncTimeoutMs
  /\ timeSyncFailures' = timeSyncFailures + 1
  /\ wifiLostAt' = 0
  /\ waited' = 0
  /\ UNCHANGED claimVars
  /\ IF timeSyncFailures' < TimeSyncMaximumAttempts
     THEN /\ timeSyncRetryAt' = Later(now, SyncDelay')
          /\ timeSyncWaitingToRetry' = TRUE
          /\ UNCHANGED <<state, stateStartedAt, busy>>
     ELSE /\ state' = "SETUP_PORTAL"
          /\ stateStartedAt' = now
          /\ busy' = 0
          /\ UNCHANGED <<timeSyncRetryAt, timeSyncWaitingToRetry>>

Claiming == state = "CLAIMING" /\ Pass /\ UNCHANGED wifiLostAt

ClaimWaits == Claiming /\ ~Reached(claimRetryAt) /\ Stay

ClaimSucceeds ==
  /\ Claiming
  /\ Reached(claimRetryAt)
  /\ state' = "READY"
  /\ claiming' = FALSE
  /\ waited' = 0
  /\ busy' = 0
  /\ UNCHANGED <<stateStartedAt, syncVars, claimFailures, claimRetryAt>>

ClaimFails ==
  /\ state = "CLAIMING"
  /\ Pass
  /\ Reached(claimRetryAt)
  /\ claimFailures' = claimFailures + 1
  /\ IF claimFailures' >= MaxClaimFailures
     THEN /\ state' = "SETUP_PORTAL"
          /\ stateStartedAt' = now
          /\ busy' = 0
          /\ UNCHANGED claimRetryAt
     ELSE /\ claimRetryAt' = Later(now, ClaimDelay')
          /\ UNCHANGED <<state, stateStartedAt, busy>>
  /\ waited' = 0
  /\ UNCHANGED <<wifiLostAt, claiming, syncVars>>

\* The portal waits for its user.
PortalIdles == state = "SETUP_PORTAL" /\ Pass /\ UNCHANGED wifiLostAt /\ Stay

\* The first claim of a request is made when it is sent: its deadline is 0, which
\* a clock in the second half of its range has not reached.
FirstClaimStalls == state = "CLAIMING" /\ claimRetryAt = 0 /\ ~Reached(0)

SetupTime ==
  /\ Tick
  /\ IF state \in Trying
     THEN /\ waited' = Upto(waited, Period)
          /\ busy' = IF FirstClaimStalls THEN busy ELSE Upto(busy, SetupBound + 1)
     ELSE UNCHANGED <<waited, busy>>
  /\ UNCHANGED <<state, startVars, syncVars, claimVars>>

SetupNext ==
  \/ Request \/ EnterSetupMode \/ PortalIdles \/ SetupTime
  \/ Connecting \/ WifiDown \/ ReadyWifiUp
  \/ TimeSynced \/ SyncUnset \/ SyncRetries \/ SyncTimesOut
  \/ ClaimWaits \/ ClaimSucceeds \/ ClaimFails

SetupSpec == SetupInit /\ [][SetupNext]_setupVars

-----------------------------------------------------------------------------
(* Properties *)

\* However often the network comes and goes, and wherever the clock wraps, an
\* attempt to connect and claim is over within the sum of its timeouts, and its
\* host is answered; a first claim that stalls is not counted.
SetupBounded == busy <= SetupBound

\* Every wait lasts as long as it should, not shorter and not longer, wherever
\* the clock wraps; but for the first claim.
WaitsKept ==
  /\ state = "CONNECTING_WIFI" =>
       (ConnectTimedOut <=> waited >= WifiConnectTimeoutMs)
  /\ state = "SYNCING_TIME" /\ ~timeSyncWaitingToRetry =>
       (Elapsed(stateStartedAt) >= TimeSyncTimeoutMs <=> waited >= TimeSyncTimeoutMs)
  /\ state = "SYNCING_TIME" /\ timeSyncWaitingToRetry =>
       (Reached(timeSyncRetryAt) <=> waited >= SyncDelay)
  /\ state = "CLAIMING" =>
       \/ Reached(claimRetryAt) <=> (claimFailures > 0 => waited >= ClaimDelay)
       \/ FirstClaimStalls
=================================================================================
