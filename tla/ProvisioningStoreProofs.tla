---------------------- MODULE ProvisioningStoreProofs ----------------------
(***************************************************************************)
(* Proofs about ProvisioningStore, for every set of networks, codes, keys  *)
(* and identities, and with or without write failures.                     *)
(***************************************************************************)
EXTENDS ProvisioningStore, TLAPS

-----------------------------------------------------------------------------
(* The inductive invariant *)

\* Operations that install credentials.
CommitKinds == CliKinds \cup {"claim", "wifiChange"}

\* Steps at which a commit has moved the selector.
Selected == {"reload", "supersede", "verify", "unstage", "done"}

\* Every kind of job stays on its own path and carries what it writes.
JobOnPath ==
  /\ job.kind = "idle" => job = NoJob
  /\ job.kind \in CliKinds => job.pc # "save"
  /\ job.kind \in {"claim", "wifiChange"} =>
       job.pc \notin {"stage", "verify", "unstage", "save"}
  /\ job.kind = "wifiChange" => job.pc # "supersede"
  /\ job.kind \in CommitKinds => job.cred \in Cred
  /\ job.kind \in SaveKinds =>
       job.pc \in {"save", "done", "failed"} /\ job.attempt \in Attempt
  /\ job.kind \in CleanupKinds => job.pc \in {"supersede", "done", "failed"}
  /\ job.kind \notin CommitKinds => job.cred = None

\* The slot the selector is about to move to holds the credentials.
SlotWritten ==
  job.pc = "select" => nvs.slot[Other(nvs.active)] = job.cred

\* Past the selector the credentials are the ones a boot would load.
SelectedIsLoaded ==
  /\ job.kind \in CommitKinds /\ job.pc \in Selected => Loaded(nvs) = job.cred
  /\ job.kind \in CleanupKinds => Loaded(nvs) # None

\* Past clearPending no claim is left.
Superseded ==
  /\ job.kind \in CliKinds /\ job.pc \in {"verify", "unstage", "done"}
       => nvs.pending = None
  /\ job.kind = "claim" /\ job.pc = "done" => nvs.pending = None

\* Between stageCli and clearCliStaged the stage holds the credentials; when
\* the job is done it is gone.
StageHeld ==
  job.kind \in CliKinds =>
    /\ job.pc \in Steps \ {"stage"} => nvs.stage = job.cred
    /\ job.pc = "failed" /\ job.at \notin {"stage", "unstage"}
         => nvs.stage = job.cred
    /\ job.pc = "done" => nvs.stage = None /\ job.at = "unstage"
    /\ job.at = "unstage" => job.pc \in {"done", "failed"}
    /\ job.pc = "stage" => job.at = "stage"

IInv ==
  /\ StoreTypeOK
  /\ JobOnPath
  /\ SlotWritten
  /\ SelectedIsLoaded
  /\ Superseded
  /\ StageHeld
-----------------------------------------------------------------------------
(* Lemmas about the operators *)

\* None stands for no record, so it is never one.
LEMMA NoneIsNoRecord == None \notin Cred /\ None \notin Attempt
BY DataAssumption

\* There are two slots: the other one is different, and its other is the first.
LEMMA OtherSlot ==
  ASSUME NEW s \in Slots
  PROVE  Other(s) \in Slots /\ Other(s) # s /\ Other(Other(s)) = s
BY DEF Other, Slots

\* What is loaded is credentials or nothing.
LEMMA LoadedType ==
  ASSUME NEW n \in NvsType
  PROVE  Loaded(n) \in Cred \cup {None}
BY DEF Loaded, NvsType

\* A step writes whole records, if the job carries the record it writes.
LEMMA EffectType ==
  ASSUME NEW n \in NvsType, NEW j \in JobType
  PROVE  Effect(n, j) \in NvsType
<1>1. Other(n.active) \in Slots
  BY OtherSlot DEF NvsType
<1> QED
  BY <1>1 DEF Effect, NvsType, JobType

\* A step leads to a step or to the end.
LEMMA AfterType ==
  ASSUME NEW j \in JobType
  PROVE  After(j) \in Pcs
BY DEF After, Pcs, Steps

-----------------------------------------------------------------------------
(* The type invariant *)

\* A blank namespace and a device at rest are well typed.
LEMMA InitType == StoreInit => StoreTypeOK
BY DEF StoreInit, StoreTypeOK, Erased, NoJob, NvsType, JobType, Slots, Kinds,
       Pcs, Steps

\* Every call begins a well-typed job.
LEMMA CallsType ==
  ASSUME StoreTypeOK, Calls
  PROVE  StoreTypeOK'
<1>1. CASE \E c \in Cred : BeginCliStart(c) \/ BeginClaim(c) \/ BeginWifiChange(c)
  BY <1>1 DEF StoreTypeOK, BeginCliStart, BeginClaim, BeginWifiChange, Begin,
              Job, JobType, Kinds, CliKinds, Pcs, Steps
<1>2. CASE BeginCliResume
  BY <1>2 DEF StoreTypeOK, BeginCliResume, Begin, Job, JobType, NvsType, Kinds,
              CliKinds, Pcs, Steps
<1>3. CASE \E k \in SaveKinds, a \in Attempt : BeginSavePending(k, a)
  BY <1>3 DEF StoreTypeOK, BeginSavePending, Begin, Job, JobType, Kinds, Pcs,
              Steps
<1>4. CASE \E k \in CleanupKinds : BeginClearPending(k)
  BY <1>4 DEF StoreTypeOK, BeginClearPending, Begin, Job, JobType, Kinds, Pcs,
              Steps
<1> QED
  BY <1>1, <1>2, <1>3, <1>4 DEF Calls

\* The store's variables keep their types.
LEMMA NextType ==
  ASSUME StoreTypeOK, [StoreNext]_storeVars
  PROVE  StoreTypeOK'
<1> USE DEF StoreTypeOK
<1>1. CASE Calls
  BY <1>1, CallsType
<1>2. CASE StepOk
  <2>1. job' \in JobType
    BY <1>2, AfterType DEF StepOk, JobType, Pcs
  <2> QED
    BY <1>2, <2>1, EffectType DEF StepOk
<1>3. CASE StepFails
  <2>1. job' \in JobType
    BY <1>3 DEF StepFails, JobType, Pcs
  <2> QED
    BY <1>3, <2>1, EffectType DEF StepFails
<1>4. CASE Return \/ PowerLoss
  BY <1>4 DEF Return, PowerLoss, NoJob, JobType, Kinds, Pcs
<1>5. CASE Clear
  BY <1>5 DEF Clear, Erased, NvsType, Slots
<1>6. CASE UNCHANGED storeVars
  BY <1>6 DEF storeVars
<1> QED
  BY <1>1, <1>2, <1>3, <1>4, <1>5, <1>6 DEF StoreNext

\* The type invariant of the store: a boot always finds a selector, slots, a
\* stage and a pending claim that are whole records or nothing.
THEOREM StoreTypeCorrect == StoreSpec => []StoreTypeOK
<1>1. StoreInit => StoreTypeOK
  BY InitType
<1>2. StoreTypeOK /\ [StoreNext]_storeVars => StoreTypeOK'
  BY NextType
<1> QED
  BY <1>1, <1>2, PTL DEF StoreSpec

-----------------------------------------------------------------------------
(* The inductive invariant is one *)

\* At rest every conjunct but the types holds: there is no job to speak of.
LEMMA RestInv ==
  ASSUME StoreTypeOK, job = NoJob
  PROVE  IInv
BY DEF IInv, NoJob, JobOnPath, SlotWritten, SelectedIsLoaded, Superseded,
       StageHeld, CommitKinds, CliKinds, SaveKinds, CleanupKinds

\* A call starts its job at the first step of its path.
LEMMA CallsInv ==
  ASSUME IInv, Calls
  PROVE  IInv'
<1> USE NoneIsNoRecord
<1>t. StoreTypeOK'
  BY CallsType DEF IInv
<1>c. ASSUME NEW c \in Cred, BeginCliStart(c) \/ BeginClaim(c) \/ BeginWifiChange(c)
      PROVE  IInv'
  BY <1>c, <1>t DEF IInv, BeginCliStart, BeginClaim, BeginWifiChange, Begin, Job,
       JobOnPath, SlotWritten, SelectedIsLoaded, Superseded, StageHeld, Steps,
       CommitKinds, CliKinds, SaveKinds, CleanupKinds, Selected
<1>r. CASE BeginCliResume
  <2>1. nvs.stage \in Cred
    BY <1>r DEF IInv, StoreTypeOK, NvsType, BeginCliResume
  <2> QED
    BY <1>r, <1>t, <2>1 DEF IInv, BeginCliResume, Begin, Job, JobOnPath,
       SlotWritten, SelectedIsLoaded, Superseded, StageHeld, Steps,
       CommitKinds, CliKinds, SaveKinds, CleanupKinds, Selected
<1>s. ASSUME NEW k \in SaveKinds, NEW a \in Attempt, BeginSavePending(k, a)
      PROVE  IInv'
  BY <1>s, <1>t DEF IInv, BeginSavePending, Begin, Job, JobOnPath, SlotWritten,
       SelectedIsLoaded, Superseded, StageHeld, CommitKinds, CliKinds,
       SaveKinds, CleanupKinds
<1>p. ASSUME NEW k \in CleanupKinds, BeginClearPending(k)
      PROVE  IInv'
  BY <1>p, <1>t DEF IInv, BeginClearPending, Begin, Job, JobOnPath, SlotWritten,
       SelectedIsLoaded, Superseded, StageHeld, CommitKinds, CliKinds,
       SaveKinds, CleanupKinds, Loaded
<1> QED
  BY <1>c, <1>r, <1>s, <1>p DEF Calls

\* A step that succeeds establishes what the next step relies on.
LEMMA StepOkInv ==
  ASSUME IInv, StepOk
  PROVE  IInv'
<1> USE NoneIsNoRecord
<1>t. StoreTypeOK'
  BY NextType DEF IInv, StoreNext
<1>f. /\ nvs' = Effect(nvs, job)
      /\ job' = [job EXCEPT !.pc = After(job), !.at = job.pc]
      /\ nvs \in NvsType /\ job \in JobType
      /\ job'.kind = job.kind /\ job'.cred = job.cred
      /\ job'.attempt = job.attempt
      /\ job'.pc = After(job) /\ job'.at = job.pc
  BY DEF StepOk, IInv, StoreTypeOK, JobType
<1>o. Other(nvs.active) \in Slots /\ Other(nvs.active) # nvs.active
  BY <1>f, OtherSlot DEF NvsType
<1>1. JobOnPath'
  BY <1>f DEF StepOk, IInv, JobOnPath, After, Steps, CommitKinds, CliKinds,
              SaveKinds, CleanupKinds, NoJob, JobType
<1>2. SlotWritten'
  BY <1>f, <1>o DEF SlotWritten, After, Effect, NvsType, StepOk, Steps
<1>3. SelectedIsLoaded'
  BY <1>f, <1>o DEF StepOk, IInv, JobOnPath, SlotWritten, SelectedIsLoaded,
              After, Effect, Confirmed, Loaded, NvsType, Steps, CommitKinds,
              CliKinds, SaveKinds, CleanupKinds, Selected
<1>4. Superseded'
  BY <1>f DEF StepOk, IInv, JobOnPath, Superseded, After, Effect, NvsType,
              Steps, CliKinds
<1>5. StageHeld'
  BY <1>f DEF StepOk, IInv, JobOnPath, StageHeld, After, Effect, NvsType,
              Steps, CliKinds
<1> QED
  BY <1>t, <1>1, <1>2, <1>3, <1>4, <1>5 DEF IInv

\* A step that fails, whether or not its write landed, ends the job: the
\* stage it can be resumed from is still there.
LEMMA StepFailsInv ==
  ASSUME IInv, StepFails
  PROVE  IInv'
<1> USE NoneIsNoRecord
<1>t. StoreTypeOK'
  BY NextType DEF IInv, StoreNext
<1>f. /\ nvs' \in {nvs, Effect(nvs, job)}
      /\ nvs \in NvsType /\ job \in JobType
      /\ job'.kind = job.kind /\ job'.cred = job.cred
      /\ job'.attempt = job.attempt
      /\ job'.pc = "failed" /\ job'.at = job.pc
  BY DEF StepFails, IInv, StoreTypeOK, JobType
<1>1. JobOnPath'
  BY <1>f DEF StepFails, IInv, JobOnPath, Steps, CommitKinds, CliKinds,
              SaveKinds, CleanupKinds, NoJob, JobType
<1>2. SlotWritten' /\ Superseded'
  BY <1>f DEF SlotWritten, Superseded
<1>3. SelectedIsLoaded'
  BY <1>f DEF StepFails, IInv, JobOnPath, SelectedIsLoaded, Effect, Loaded,
              NvsType, Steps, CommitKinds, CliKinds, SaveKinds, CleanupKinds,
              Selected
<1>4. StageHeld'
  BY <1>f DEF StepFails, IInv, JobOnPath, StageHeld, Effect, NvsType, Steps,
              CliKinds
<1> QED
  BY <1>t, <1>1, <1>2, <1>3, <1>4 DEF IInv

\* IInv holds in every state of the store.
LEMMA NextInv ==
  ASSUME IInv, [StoreNext]_storeVars
  PROVE  IInv'
<1>t. StoreTypeOK'
  BY NextType DEF IInv
<1>1. CASE Calls
  BY <1>1, CallsInv
<1>2. CASE StepOk
  BY <1>2, StepOkInv
<1>3. CASE StepFails
  BY <1>3, StepFailsInv
<1>4. CASE Return \/ PowerLoss \/ Clear
  <2>1. job' = NoJob
    BY <1>4 DEF Return, PowerLoss, Clear
  <2> QED
    BY <1>t, <2>1 DEF IInv, NoJob, JobOnPath, SlotWritten, SelectedIsLoaded,
       Superseded, StageHeld, CommitKinds, CliKinds, SaveKinds, CleanupKinds
<1>5. CASE UNCHANGED storeVars
  BY <1>5 DEF storeVars, IInv, StoreTypeOK, JobOnPath, SlotWritten,
     SelectedIsLoaded, Superseded, StageHeld, Loaded
<1> QED
  BY <1>1, <1>2, <1>3, <1>4, <1>5 DEF StoreNext

\* The inductive invariant holds in every behaviour of the store, whatever is
\* called in whatever order, with failing writes and power loss.
THEOREM StoreInvariant == StoreSpec => []IInv
<1>1. StoreInit => IInv
  BY InitType, RestInv DEF StoreInit
<1>2. IInv /\ [StoreNext]_storeVars => IInv'
  BY NextInv
<1> QED
  BY <1>1, <1>2, PTL DEF StoreSpec

-----------------------------------------------------------------------------
(* The safety properties *)

\* A serial transaction that reports success has settled: its identity is the
\* one a boot loads, no older claim is pending and no stage is left.
THEOREM StoreSettledWhenDone == StoreSpec => []SettledWhenDone
<1>1. IInv => SettledWhenDone
  BY DEF IInv, SettledWhenDone, SelectedIsLoaded, Superseded, StageHeld,
         CommitKinds, Selected
<1> QED
  BY <1>1, StoreInvariant, PTL

\* Wherever a transaction failed between staging and unstaging, its stage is
\* in flash for the next boot to resume.
THEOREM StoreStageOutlivesFailure == StoreSpec => []StageOutlivesFailure
<1>1. IInv => StageOutlivesFailure
  BY DEF IInv, StoreTypeOK, JobType, Pcs, StageOutlivesFailure, StageHeld,
         Steps
<1> QED
  BY <1>1, StoreInvariant, PTL

\* A claim that reports success has its identity in flash and its pending
\* secret gone.
THEOREM StoreClaimDoneWhenSettled == StoreSpec => []ClaimDoneWhenSettled
<1>1. IInv => ClaimDoneWhenSettled
  BY DEF IInv, ClaimDoneWhenSettled, SelectedIsLoaded, Superseded,
         CommitKinds, Selected
<1> QED
  BY <1>1, StoreInvariant, PTL

\* The body of LoadedMovesBySelector.
SelectorMoves ==
  Loaded(nvs') # Loaded(nvs) =>
    \/ nvs' = Erased
    \/ /\ nvs'.active # nvs.active
       /\ nvs'.slot = nvs.slot
       /\ Loaded(nvs') = job.cred

\* Only the select step changes what is loaded, and it changes it to the
\* credentials that were written and read back before.
LEMMA WriteMovesSelector ==
  ASSUME IInv, nvs' = Effect(nvs, job), job.pc \in Steps
  PROVE  SelectorMoves
<1>1. nvs \in NvsType
  BY DEF IInv, StoreTypeOK
<1>2. Other(nvs.active) \in Slots /\ Other(nvs.active) # nvs.active
  BY <1>1, OtherSlot DEF NvsType
<1>3. CASE job.pc = "select"
  BY <1>1, <1>2, <1>3 DEF IInv, SlotWritten, SelectorMoves, Effect, Loaded, NvsType
<1>4. CASE job.pc # "select"
  BY <1>1, <1>2, <1>4 DEF SelectorMoves, Effect, Loaded, NvsType, Steps
<1> QED
  BY <1>3, <1>4

\* A reset at any moment finds the old identity whole or the new one whole:
\* the slot in use is never written.
THEOREM StoreLoadedMovesBySelector == StoreSpec => LoadedMovesBySelector
<1>1. IInv /\ [StoreNext]_storeVars => [SelectorMoves]_storeVars
  <2> SUFFICES ASSUME IInv, StoreNext
               PROVE  SelectorMoves
    BY DEF storeVars
  <2>1. CASE nvs' = nvs
    BY <2>1 DEF SelectorMoves
  <2>2. CASE nvs' = Effect(nvs, job) /\ job.pc \in Steps
    BY <2>2, WriteMovesSelector
  <2>3. CASE Clear
    BY <2>3 DEF Clear, SelectorMoves
  <2> QED
    BY <2>1, <2>2, <2>3 DEF StoreNext, Calls, BeginCliStart, BeginClaim,
       BeginWifiChange, BeginCliResume, BeginSavePending, BeginClearPending,
       Begin, StepOk, StepFails, Return, PowerLoss
<1> QED
  BY <1>1, StoreInvariant, PTL DEF StoreSpec, LoadedMovesBySelector, SelectorMoves

-----------------------------------------------------------------------------
(* The store implements the atomic identity *)

\* Both modules take their records from the same constants.
LEMMA SameRecords == Abstract!Cred = Cred /\ Abstract!Attempt = Attempt
BY DEF Abstract!Cred, Abstract!Attempt, Abstract!Ids, Cred, Attempt, Ids

\* A write is one step of the atomic identity, or invisible to it.
LEMMA WriteRefines ==
  ASSUME IInv, nvs' = Effect(nvs, job), job'.cred = job.cred,
         job.pc \in Steps
  PROVE  [Abstract!Next]_(Abstract!vars)
<1> USE NoneIsNoRecord DEF Abstract!Next, Abstract!vars
<1>1. nvs \in NvsType /\ job \in JobType
  BY DEF IInv, StoreTypeOK
<1>2. Other(nvs.active) \in Slots /\ Other(nvs.active) # nvs.active
  BY <1>1, OtherSlot DEF NvsType
<1>3. job.kind \in Kinds
  BY <1>1 DEF JobType
<1>4. CASE job.pc = "stage"
  <2>1. job.cred # None
    BY <1>3, <1>4 DEF IInv, JobOnPath, Kinds, CommitKinds, CliKinds, SaveKinds,
       CleanupKinds, NoJob
  <2> QED
    BY <1>1, <1>4, <2>1 DEF Abstract!Stage, Effect, Loaded, NvsType
<1>5. CASE job.pc = "writeSlot"
  BY <1>1, <1>2, <1>5 DEF Effect, Loaded, NvsType
<1>6. CASE job.pc = "select"
  <2>1. job.cred # None
    BY <1>3, <1>6 DEF IInv, JobOnPath, Kinds, CommitKinds, CliKinds, SaveKinds,
       CleanupKinds, NoJob
  <2>2. Loaded(nvs') = job.cred
    BY <1>1, <1>6 DEF IInv, SlotWritten, Effect, Loaded, NvsType
  <2> QED
    BY <1>1, <1>6, <2>1, <2>2 DEF Abstract!Replace, Effect, NvsType
<1>7. CASE job.pc = "supersede"
  <2>1. Loaded(nvs) # None
    BY <1>3, <1>7 DEF IInv, JobOnPath, SelectedIsLoaded, Kinds, CommitKinds,
       CliKinds, SaveKinds, CleanupKinds, NoJob, Selected
  <2> QED
    BY <1>1, <1>7, <2>1 DEF Abstract!Supersede, Effect, Loaded, NvsType
<1>8. CASE job.pc = "unstage"
  <2>1. job.kind \in CliKinds
    BY <1>3, <1>8 DEF IInv, JobOnPath, Kinds, SaveKinds, CleanupKinds, NoJob
  <2>2. /\ job.cred # None
        /\ nvs.stage = job.cred
        /\ Loaded(nvs) = job.cred
        /\ nvs.pending = None
    BY <1>8, <2>1 DEF IInv, JobOnPath, SelectedIsLoaded, Superseded, StageHeld,
       CommitKinds, Selected, Steps
  <2> QED
    BY <1>1, <1>8, <2>2 DEF Abstract!Unstage, Effect, Loaded, NvsType
<1>9. CASE job.pc = "save"
  <2>1. job.attempt \in Attempt
    BY <1>3, <1>9 DEF IInv, JobOnPath, Kinds, CliKinds, SaveKinds, CleanupKinds,
       NoJob
  <2>2. Abstract!Remember(job.attempt)
    BY <1>1, <1>9 DEF Abstract!Remember, Effect, Loaded, NvsType
  <2> QED
    BY <2>1, <2>2, SameRecords
<1>10. CASE job.pc \in {"reload", "verify"}
  BY <1>1, <1>10 DEF Effect
<1> QED
  BY <1>4, <1>5, <1>6, <1>7, <1>8, <1>9, <1>10 DEF Steps

\* A call asks for credentials, or asks for nothing the abstraction sees.
LEMMA CallsRefine ==
  ASSUME IInv, Calls
  PROVE  [Abstract!Next]_(Abstract!vars)
<1> USE SameRecords DEF Abstract!Next, Abstract!vars, Abstract!Ask, Begin, Job, NoJob
<1>1. CASE \E c \in Cred : BeginCliStart(c) \/ BeginClaim(c) \/ BeginWifiChange(c)
  BY <1>1 DEF BeginCliStart, BeginClaim, BeginWifiChange
<1>2. CASE BeginCliResume
  <2>1. nvs.stage \in Cred
    BY <1>2 DEF IInv, StoreTypeOK, NvsType, BeginCliResume
  <2> QED
    BY <1>2, <2>1 DEF BeginCliResume
<1>3. CASE \E k \in SaveKinds, a \in Attempt : BeginSavePending(k, a)
  BY <1>3 DEF BeginSavePending
<1>4. CASE \E k \in CleanupKinds : BeginClearPending(k)
  BY <1>4 DEF BeginClearPending
<1> QED
  BY <1>1, <1>2, <1>3, <1>4 DEF Calls

\* Slots, selector and steps are invisible: every behaviour of the store,
\* across failed writes and power loss, is one of the atomic identity.
THEOREM StoreImplementsAtomicIdentity == StoreSpec => ImplementsAtomicIdentity
<1>1. StoreInit => Abstract!Init
  BY DEF StoreInit, Abstract!Init, Erased, NoJob, Loaded, Slots
<1>2. IInv /\ [StoreNext]_storeVars => [Abstract!Next]_(Abstract!vars)
  <2> SUFFICES ASSUME IInv, [StoreNext]_storeVars
               PROVE  [Abstract!Next]_(Abstract!vars)
    OBVIOUS
  <2>1. CASE Calls
    BY <2>1, CallsRefine
  <2>2. CASE StepOk \/ StepFails
    <3>1. job \in JobType
      BY DEF IInv, StoreTypeOK
    <3>2. job'.cred = job.cred /\ job.pc \in Steps
      BY <2>2, <3>1 DEF StepOk, StepFails, JobType
    <3>3. CASE nvs' = nvs
      BY <3>2, <3>3 DEF Abstract!vars
    <3>4. CASE nvs' = Effect(nvs, job)
      BY <3>2, <3>4, WriteRefines
    <3> QED
      BY <2>2, <3>3, <3>4 DEF StepOk, StepFails
  <2>3. CASE Return \/ PowerLoss
    BY <2>3 DEF Return, PowerLoss, NoJob, Abstract!Next, Abstract!Settle
  <2>4. CASE Clear
    BY <2>4 DEF Clear, NoJob, Erased, Loaded, Slots, Abstract!Next, Abstract!Erase
  <2>5. CASE UNCHANGED storeVars
    BY <2>5 DEF storeVars, Loaded, Abstract!vars
  <2> QED
    BY <2>1, <2>2, <2>3, <2>4, <2>5 DEF StoreNext
<1> QED
  BY <1>1, <1>2, StoreInvariant, PTL DEF StoreSpec, ImplementsAtomicIdentity, Abstract!Spec
=============================================================================
