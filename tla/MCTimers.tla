-------------------------------- MODULE MCTimers --------------------------------
(***************************************************************************)
(* The components that share nothing but the clock, in one run: one of     *)
(* them moves, the others are left as they were.                           *)
(***************************************************************************)
EXTENDS CliFrame, Reconnect, SetupTimers, LinkSchedule

VARIABLE focus  \* the component that moves

Components == {"CliFrame", "Reconnect", "SetupTimers", "LinkSchedule"}

\* Where no timer starts with it, the clock starts at 0.
Init ==
  /\ focus \in Components
  /\ CliInit /\ ReconnectInit /\ SetupInit /\ ScheduleInit
  /\ focus \in {"SetupTimers", "LinkSchedule"} \/ now = 0

Next ==
  /\ UNCHANGED focus
  /\ \/ /\ focus = "CliFrame" /\ CliNext
        /\ UNCHANGED <<reconnectState, setupState, scheduleState>>
     \/ /\ focus = "Reconnect" /\ ReconnectNext
        /\ UNCHANGED <<cliState, setupState, scheduleState>>
     \/ /\ focus = "SetupTimers" /\ SetupNext
        /\ UNCHANGED <<cliState, reconnectState, scheduleState>>
     \/ /\ focus = "LinkSchedule" /\ ScheduleNext
        /\ UNCHANGED <<cliState, reconnectState, setupState>>

Spec ==
  Init /\ [][Next]_<<focus, now, gap, cliState, reconnectState, setupState,
                   scheduleState>>
=================================================================================
