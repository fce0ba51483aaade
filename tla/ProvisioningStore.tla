-------------------------- MODULE ProvisioningStore -------------------------
(***************************************************************************)
(* NivaloProvisioningStore and the NivaloCliTransaction that runs over it. *)
(*                                                                         *)
(* nvs is the durable Preferences namespace: the A/B selector, the two     *)
(* credential slots, the pending claim and the CLI stage.  job is the      *)
(* store operation the (single-threaded) caller is in the middle of.  Each *)
(* step of a job is one Preferences write with its read-back, or one       *)
(* verifying load, so that a power loss can fall between any two of them.  *)
(* A write that reports failure may or may not have reached the flash.     *)
(* The credentials' JSON text is abstracted to the record it encodes; a    *)
(* tombstone is None, because a load rejects it.                           *)
(***************************************************************************)
EXTENDS ProvisioningData

CONSTANT Faults  \* whether writes and read-backs may fail, beside power loss

ASSUME FaultsAssumption == Faults \in BOOLEAN

VARIABLES nvs, job

storeVars == <<nvs, job>>

Slots == {"A", "B"}

\* cliStart and cliResume are NivaloCliTransaction::start and ::resume, claim
\* is commit then clearPending; the others are one store call each, named for
\* the caller that continues after it.
CliKinds == {"cliStart", "cliResume"}
SaveKinds == {"portalSave", "cliSave"}
CleanupKinds == {"bootCleanup", "replay"}
Kinds == CliKinds \cup SaveKinds \cup CleanupKinds
           \cup {"claim", "wifiChange", "idle"}

Steps == {"stage", "writeSlot", "select", "reload", "supersede", "verify",
          "unstage", "save"}
Pcs == Steps \cup {"done", "failed"}

NoJob == [kind |-> "idle", pc |-> "done", at |-> "done",
          cred |-> None, attempt |-> None]

Job(kind, pc, c, a) ==
  [kind |-> kind, pc |-> pc, at |-> pc, cred |-> c, attempt |-> a]

-----------------------------------------------------------------------------
(* Reads *)

Other(s) == IF s = "A" THEN "B" ELSE "A"

\* load: the record in the selected slot, None when it does not parse.
Loaded(n) == n.slot[n.active]

\* A blank namespace: getString("active", "A") makes A the selected slot.
Erased == [active |-> "A", slot |-> [s \in Slots |-> None],
           pending |-> None, stage |-> None]

-----------------------------------------------------------------------------
(* What one step of a job writes, and which step follows it *)

\* Defect: the selector is moved before the slot is written.
EffectSelectsFirst(n, j) ==
  CASE j.pc = "stage"     -> [n EXCEPT !.stage = j.cred]
    [] j.pc = "writeSlot" -> [n EXCEPT !.active = Other(n.active)]
    [] j.pc = "select"    -> [n EXCEPT !.slot[n.active] = j.cred]
    [] j.pc = "supersede" -> [n EXCEPT !.pending = None]
    [] j.pc = "unstage"   -> [n EXCEPT !.stage = None]
    [] j.pc = "save"      -> [n EXCEPT !.pending = j.attempt]
    [] OTHER              -> n

Effect(n, j) ==
  CASE j.pc = "stage"     -> [n EXCEPT !.stage = j.cred]
    [] j.pc = "writeSlot" -> [n EXCEPT !.slot[Other(n.active)] = j.cred]
    [] j.pc = "select"    -> [n EXCEPT !.active = Other(n.active)]
    [] j.pc = "supersede" -> [n EXCEPT !.pending = None]
    [] j.pc = "unstage"   -> [n EXCEPT !.stage = None]
    [] j.pc = "save"      -> [n EXCEPT !.pending = j.attempt]
    [] OTHER              -> n

\* commit and verifyActive load the identity back and compare it.
Confirmed(n, j) == j.pc \in {"reload", "verify"} => Loaded(n) = j.cred

\* Defects: the transaction leaves an older claim; it drops its stage before
\* it is verified.
AfterSkipsSupersede(j) ==
  CASE j.pc = "stage"     -> "writeSlot"
    [] j.pc = "writeSlot" -> "select"
    [] j.pc = "select"    -> "reload"
    [] j.pc = "reload"    -> IF j.kind = "claim" THEN "supersede"
                             ELSE IF j.kind = "wifiChange" THEN "done" ELSE "verify"
    [] j.pc = "verify"    -> "unstage"
    [] OTHER              -> "done"

AfterUnstagesEarly(j) ==
  CASE j.pc = "stage"     -> "writeSlot"
    [] j.pc = "writeSlot" -> "select"
    [] j.pc = "select"    -> "reload"
    [] j.pc = "reload"    -> IF j.kind = "wifiChange" THEN "done"
                             ELSE IF j.kind = "claim" THEN "supersede" ELSE "unstage"
    [] j.pc = "unstage"   -> "supersede"
    [] j.pc = "supersede" -> IF j.kind \in CliKinds THEN "verify" ELSE "done"
    [] OTHER              -> "done"

After(j) ==
  CASE j.pc = "stage"     -> "writeSlot"
    [] j.pc = "writeSlot" -> "select"
    [] j.pc = "select"    -> "reload"
    [] j.pc = "reload"    -> IF j.kind = "wifiChange" THEN "done" ELSE "supersede"
    [] j.pc = "supersede" -> IF j.kind \in CliKinds THEN "verify" ELSE "done"
    [] j.pc = "verify"    -> "unstage"
    [] OTHER              -> "done"

-----------------------------------------------------------------------------
(* Actions *)

Begin(j) ==
  /\ job = NoJob
  /\ job' = j
  /\ UNCHANGED nvs

StepOk ==
  /\ job.pc \in Steps
  /\ Confirmed(nvs, job)
  /\ nvs' = Effect(nvs, job)
  /\ job' = [job EXCEPT !.pc = After(job), !.at = job.pc]

\* A short write, a failed commit or a read-back that differs: the step
\* returns false and && skips the rest.
StepFails ==
  /\ Faults
  /\ job.pc \in Steps
  /\ nvs' \in {nvs, Effect(nvs, job)}
  /\ job' = [job EXCEPT !.pc = "failed", !.at = job.pc]

Return ==
  /\ job # NoJob
  /\ job.pc \in {"done", "failed"}
  /\ job' = NoJob
  /\ UNCHANGED nvs

\* RAM, and with it the running operation, is gone; flash stays.
PowerLoss ==
  /\ job' = NoJob
  /\ UNCHANGED nvs

\* clear() for factoryReset.
Clear ==
  /\ job = NoJob
  /\ nvs' = Erased
  /\ UNCHANGED job

-----------------------------------------------------------------------------
(* The calls the rest of the program makes *)

BeginCliStart(c) == Begin(Job("cliStart", "stage", c, None))

BeginCliResume ==
  /\ nvs.stage # None
  /\ Begin(Job("cliResume", "writeSlot", nvs.stage, None))

BeginClaim(c) == Begin(Job("claim", "writeSlot", c, None))

BeginWifiChange(c) == Begin(Job("wifiChange", "writeSlot", c, None))

BeginSavePending(kind, a) == Begin(Job(kind, "save", None, a))

\* Boot cleanup and claim replay, both reached only with an active identity.
BeginClearPending(kind) ==
  /\ Loaded(nvs) # None
  /\ Begin(Job(kind, "supersede", None, None))

-----------------------------------------------------------------------------

StoreInit ==
  /\ nvs = Erased
  /\ job = NoJob

Calls ==
  \/ \E c \in Cred : BeginCliStart(c) \/ BeginClaim(c) \/ BeginWifiChange(c)
  \/ BeginCliResume
  \/ \E k \in SaveKinds, a \in Attempt : BeginSavePending(k, a)
  \/ \E k \in CleanupKinds : BeginClearPending(k)

StoreNext == Calls \/ StepOk \/ StepFails \/ Return \/ PowerLoss \/ Clear

StoreSpec == StoreInit /\ [][StoreNext]_storeVars

-----------------------------------------------------------------------------
(* Properties *)

NvsType == [active : Slots, slot : [Slots -> Cred \cup {None}],
            pending : Attempt \cup {None}, stage : Cred \cup {None}]

JobType == [kind : Kinds, pc : Pcs, at : Pcs, cred : Cred \cup {None},
            attempt : Attempt \cup {None}]

\* The type invariant: the selector is A or B, every slot holds whole
\* credentials or nothing, and a job is at one of its steps.
StoreTypeOK ==
  /\ nvs \in NvsType
  /\ job \in JobType

\* A finished transaction of the serial interface (the point at which
\* handleCliProvision reports success, or boot recovery carries on) is fully
\* settled: its identity is what the next boot loads, no older claim is left
\* to be retried over it, and no stage is left to be replayed.
SettledWhenDone ==
  job.kind \in CliKinds /\ job.pc = "done" =>
    /\ Loaded(nvs) = job.cred
    /\ nvs.pending = None
    /\ nvs.stage = None

\* Until its stage is cleared, a failed or interrupted transaction can be
\* finished by a later boot: a job past staging never loses the stage.
StageOutlivesFailure ==
  /\ job.kind \in CliKinds
  /\ job.pc \in Steps \ {"stage"} \/ job.at \in Steps \ {"stage", "unstage"}
  => nvs.stage = job.cred

\* A claim reports success only when the claimed identity is active and the
\* pending secret is gone.
ClaimDoneWhenSettled ==
  job.kind = "claim" /\ job.pc = "done" =>
    /\ Loaded(nvs) = job.cred
    /\ nvs.pending = None

\* The slot a boot would read is never written while it is selected: a step
\* changes the loaded identity only by moving the selector onto a slot that
\* already holds the new credentials, or by erasing the namespace.
LoadedMovesBySelector ==
  [][Loaded(nvs') # Loaded(nvs) =>
       \/ nvs' = Erased
       \/ /\ nvs'.active # nvs.active
          /\ nvs'.slot = nvs.slot
          /\ Loaded(nvs') = job.cred]_storeVars

\* The store implements the atomic identity: slots, selector and job steps are
\* invisible, across failed writes and power loss.
Abstract == INSTANCE AtomicIdentity WITH
  identity <- Loaded(nvs),
  staged <- nvs.stage,
  pending <- nvs.pending,
  wanted <- job.cred

ImplementsAtomicIdentity == Abstract!Spec
=============================================================================
