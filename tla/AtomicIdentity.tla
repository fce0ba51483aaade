--------------------------- MODULE AtomicIdentity ---------------------------
(***************************************************************************)
(* What the provisioning store promises, without slots or selectors: one   *)
(* identity that changes in a single step to the one the running operation *)
(* wants, a stage that goes away only once it is the identity and the old  *)
(* claim is superseded, and a pending claim that is dropped only when an   *)
(* identity is there to take over.                                         *)
(***************************************************************************)
EXTENDS ProvisioningData

VARIABLES
  identity,  \* what a boot would load
  staged,    \* the credentials a boot would finish provisioning
  pending,   \* the claim attempt a boot would retry
  wanted     \* the credentials the running operation commits

vars == <<identity, staged, pending, wanted>>

Init ==
  /\ identity = None
  /\ staged = None
  /\ pending = None
  /\ wanted = None

Ask(c) ==
  /\ wanted = None
  /\ wanted' = c
  /\ UNCHANGED <<identity, staged, pending>>

\* Finished, failed or cut off by a power loss: nothing durable moves.
Settle ==
  /\ wanted' = None
  /\ UNCHANGED <<identity, staged, pending>>

Replace ==
  /\ wanted # None
  /\ identity' = wanted
  /\ UNCHANGED <<staged, pending, wanted>>

Stage ==
  /\ wanted # None
  /\ staged' = wanted
  /\ UNCHANGED <<identity, pending, wanted>>

Unstage ==
  /\ staged # None
  /\ identity = staged
  /\ pending = None
  /\ staged' = None
  /\ UNCHANGED <<identity, pending, wanted>>

Remember(a) ==
  /\ pending' = a
  /\ UNCHANGED <<identity, staged, wanted>>

Supersede ==
  /\ identity # None
  /\ pending' = None
  /\ UNCHANGED <<identity, staged, wanted>>

Erase ==
  /\ wanted = None
  /\ identity' = None
  /\ staged' = None
  /\ pending' = None
  /\ UNCHANGED wanted

Next ==
  \/ \E c \in Cred : Ask(c)
  \/ Settle \/ Replace \/ Stage \/ Unstage \/ Supersede \/ Erase
  \/ \E a \in Attempt : Remember(a)

Spec == Init /\ [][Next]_vars
=============================================================================
