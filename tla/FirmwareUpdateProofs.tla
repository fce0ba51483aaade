------------------------ MODULE FirmwareUpdateProofs ------------------------
(***************************************************************************)
(* Theorems about FirmwareUpdate, for any set of images, number of         *)
(* commands and depth of nesting.                                          *)
(***************************************************************************)
EXTENDS FirmwareUpdate, StackLemmas

-----------------------------------------------------------------------------
(* The inductive invariant *)

\* Handlers that still depend on the recovery image.
Busy == {"programming", "programmed", "recovering"}
\* Handlers from which only a restart follows.
Over == {"installed", "reported"}

\* A handler that has been interrupted in its session is marked.
InterruptedMarked ==
  \A i \in 2..Len(stack) : stack[i].pc # "started" => stack[i].disturbed

\* Only an STM32 image is programmed.
BusyIsMcu ==
  \A i \in 1..Len(stack) :
    stack[i].pc \in Busy \cup {"installed", "restored"} => stack[i].image \in McuImages

\* Handlers that use the file they have verified.
Verified == {"verified", "programming", "programmed"}

\* Between a verification and the last use of the file no torn file is in its
\* place, except while a handler that runs inside is downloading.
VerifiedIsWhole ==
  \A i \in 1..Len(stack) :
    /\ stack[i].pc \in Verified
    /\ \A j \in 1..(i - 1) : stack[j].pc # "downloading"
    => staged = None \/ staged.whole

\* What an undisturbed running handler relies on or has achieved.
RunningAlone ==
  stack # <<>> /\ ~stack[1].disturbed =>
    /\ stack[1].pc \in Verified =>
         /\ staged # None
         /\ staged.image = stack[1].image
         /\ staged.whole
    /\ stack[1].pc = "installed" => target = stack[1].image
    /\ stack[1].pc = "reported" =>
         IF stack[1].image \in McuImages THEN target = stack[1].image
                                         ELSE app = stack[1].image
    /\ stack[1].pc = "restored" /\ ~exposed => target = good
    /\ stack[1].pc # "started" => paused

\* The recovery image is one that makes the target good.
KeepsGood == recovery = good \/ (hasGolden /\ recovery = Golden)

\* While a handler programs the target the recovery image is good; handlers that
\* cannot rely on that will not run again.
BusyKeepsGood ==
  \A i \in 1..Len(stack) :
    stack[i].pc \in Busy =>
      \/ exposed
      \/ i = 1 /\ KeepsGood
      \/ \E j \in 1..(i - 1) : stack[j].pc \in Over

\* The types of everything but the stack.
DataTypes ==
  /\ staged \in [image : Images, whole : BOOLEAN] \cup {None}
  /\ recovery \in Flash \cup {None}
  /\ mounted \in BOOLEAN
  /\ hasGolden \in BOOLEAN
  /\ hasGolden => recovery \in {Golden, None}
  /\ target \in Flash
  /\ app \in EspImages \cup {OriginalApp, Broken}
  /\ paused \in BOOLEAN
  /\ commands \in 0..MaxCommands
  /\ good \in Flash \ {Broken}
  /\ exposed \in BOOLEAN

Recoverable == exposed \/ target = good \/ KeepsGood

IInv ==
  /\ TypeOK /\ InterruptedMarked /\ BusyIsMcu
  /\ VerifiedIsWhole /\ AppIsVerified
  /\ RunningAlone
  /\ BusyKeepsGood /\ Recoverable

-----------------------------------------------------------------------------
(* Lemmas *)

\* A handler that goes on to another place leaves the others where they are.
LEMMA GotoStack ==
  ASSUME TypeOK, stack # <<>>, NEW pc \in Places, Goto(pc)
  PROVE  /\ Head(stack) = stack[1]
         /\ stack[1] \in Activations
         /\ Len(stack) \in Nat /\ Len(stack) >= 1
         /\ stack' \in Seq(Activations)
         /\ Len(stack') = Len(stack)
         /\ stack' # <<>>
         /\ stack'[1] = [stack[1] EXCEPT !.pc = pc]
         /\ \A k \in 2..Len(stack) : stack'[k] = stack[k]
<1>1. stack \in Seq(Activations)
  BY DEF TypeOK
<1>2. Head(stack) = stack[1] /\ stack[1] \in Activations /\ Len(stack) \in Nat /\ Len(stack) >= 1
  BY <1>1
<1>3. [stack[1] EXCEPT !.pc = pc] \in Activations
  BY <1>2 DEF Activations
<1>4. stack' = <<[stack[1] EXCEPT !.pc = pc]>> \o Tail(stack)
  BY <1>2 DEF Goto
<1>5. /\ stack' \in Seq(Activations)
      /\ Len(stack') = Len(stack)
      /\ stack'[1] = [stack[1] EXCEPT !.pc = pc]
      /\ \A k \in 2..Len(stack) : stack'[k] = stack[k]
  <2>1. ASSUME NEW r, r = <<[stack[1] EXCEPT !.pc = pc]>> \o Tail(stack)
        PROVE  /\ r \in Seq(Activations)
               /\ Len(r) = Len(stack)
               /\ r[1] = [stack[1] EXCEPT !.pc = pc]
               /\ \A k \in 2..Len(stack) : r[k] = stack[k]
    BY <1>1, <1>2, <1>3, <2>1, ReplaceHead
  <2> QED
    BY <1>4, <2>1
<1>6. stack' # <<>>
  BY <1>2, <1>5
<1> QED
  BY <1>2, <1>5, <1>6

\* What holds of the interrupted handlers holds after such a step.
LEMMA GotoMarks ==
  ASSUME TypeOK, InterruptedMarked, BusyIsMcu,
         stack # <<>>, NEW pc \in Places, Goto(pc),
         pc \in Busy \cup {"installed", "restored"} => Head(stack).image \in McuImages
  PROVE  InterruptedMarked' /\ BusyIsMcu'
<1>0. /\ Head(stack) = stack[1]
      /\ stack[1] \in Activations
      /\ Len(stack) \in Nat /\ Len(stack) >= 1
      /\ Len(stack') = Len(stack)
      /\ stack'[1] = [stack[1] EXCEPT !.pc = pc]
      /\ \A k \in 2..Len(stack) : stack'[k] = stack[k]
  BY GotoStack
<1>1. InterruptedMarked'
  BY <1>0 DEF InterruptedMarked
<1>2. BusyIsMcu'
  <2> SUFFICES ASSUME NEW i \in 1..Len(stack'),
                      stack'[i].pc \in Busy \cup {"installed", "restored"}
               PROVE  stack'[i].image \in McuImages
    BY DEF BusyIsMcu
  <2>1. CASE i = 1
    BY <2>1, <1>0 DEF Activations
  <2>2. CASE i # 1
    <3>1. i \in 2..Len(stack) /\ i \in 1..Len(stack) /\ stack'[i] = stack[i]
      BY <2>2, <1>0
    <3> QED
      BY <3>1 DEF BusyIsMcu
  <2> QED
    BY <2>1, <2>2
<1> QED
  BY <1>1, <1>2

\* The file stays whole for those that have verified it when the step leaves it
\* whole or none, when it begins a download, and when it does not touch it.
LEMMA GotoWhole ==
  ASSUME TypeOK, VerifiedIsWhole, stack # <<>>, NEW pc \in Places, Goto(pc),
         \/ staged' = None \/ staged'.whole
         \/ pc = "downloading"
         \/ /\ staged' = staged
            /\ Head(stack).pc # "downloading"
            /\ pc \in Verified => Head(stack).pc \in Verified
  PROVE  VerifiedIsWhole'
<1>0. /\ Head(stack) = stack[1]
      /\ stack[1] \in Activations
      /\ Len(stack) \in Nat /\ Len(stack) >= 1
      /\ Len(stack') = Len(stack)
      /\ stack'[1] = [stack[1] EXCEPT !.pc = pc]
      /\ \A k \in 2..Len(stack) : stack'[k] = stack[k]
  BY GotoStack
<1> SUFFICES ASSUME NEW i \in 1..Len(stack'), stack'[i].pc \in Verified,
                    \A j \in 1..(i - 1) : stack'[j].pc # "downloading",
                    ~(staged' = None \/ staged'.whole)
             PROVE  FALSE
  BY DEF VerifiedIsWhole
<1>1. stack'[1].pc = pc
  BY <1>0 DEF Activations
<1>2. pc # "downloading"
  <2>1. CASE i = 1
    BY <2>1, <1>1 DEF Verified
  <2>2. CASE i # 1
    <3>1. 1 \in 1..(i - 1)
      BY <2>2, <1>0
    <3> QED
      BY <3>1, <1>1
  <2> QED
    BY <2>1, <2>2
<1>3. /\ staged' = staged
      /\ Head(stack).pc # "downloading"
      /\ pc \in Verified => Head(stack).pc \in Verified
  BY <1>2
<1>4. i \in 1..Len(stack) /\ stack[i].pc \in Verified
  <2>1. CASE i = 1
    BY <2>1, <1>0, <1>1, <1>3
  <2>2. CASE i # 1
    BY <2>2, <1>0
  <2> QED
    BY <2>1, <2>2
<1>5. ASSUME NEW j \in 1..(i - 1)
      PROVE  stack[j].pc # "downloading"
  <2>1. CASE j = 1
    BY <2>1, <1>0, <1>3
  <2>2. CASE j # 1
    BY <2>2, <1>0
  <2> QED
    BY <2>1, <2>2
<1> QED
  BY <1>3, <1>4, <1>5 DEF VerifiedIsWhole

\* Interrupted handlers that rely on the recovery image keep doing so.
LEMMA GotoKeeps ==
  ASSUME TypeOK, BusyKeepsGood, stack # <<>>, NEW pc \in Places, Goto(pc),
         \/ pc \in Over
         \/ /\ exposed => exposed'
            /\ Head(stack).pc \notin Over
            /\ pc \in Busy => exposed' \/ KeepsGood'
  PROVE  BusyKeepsGood'
<1>0. /\ Head(stack) = stack[1]
      /\ stack[1] \in Activations
      /\ Len(stack) \in Nat /\ Len(stack) >= 1
      /\ Len(stack') = Len(stack)
      /\ stack'[1] = [stack[1] EXCEPT !.pc = pc]
      /\ \A k \in 2..Len(stack) : stack'[k] = stack[k]
  BY GotoStack
<1> SUFFICES ASSUME NEW i \in 1..Len(stack'), stack'[i].pc \in Busy
             PROVE  \/ exposed'
                    \/ i = 1 /\ KeepsGood'
                    \/ \E j \in 1..(i - 1) : stack'[j].pc \in Over
  BY DEF BusyKeepsGood
<1>1. stack'[1].pc = pc /\ Len(stack') = Len(stack) /\ Len(stack) \in Nat
  BY <1>0 DEF Activations
<1>2. CASE i = 1
  BY <1>1, <1>2 DEF Busy, Over
<1>3. CASE i # 1 /\ pc \in Over
  BY <1>1, <1>3
<1>4. CASE i # 1 /\ pc \notin Over
  <2>1. i \in 1..Len(stack) /\ stack'[i] = stack[i]
    BY <1>1, <1>4, <1>0
  <2>2. exposed \/ \E j \in 1..(i - 1) : stack[j].pc \in Over
    BY <2>1, <1>4 DEF BusyKeepsGood
  <2>3. CASE exposed
    BY <2>3, <1>4
  <2>4. ASSUME NEW j \in 1..(i - 1), stack[j].pc \in Over
        PROVE  stack'[j].pc \in Over
    <3>1. j # 1
      BY <2>4, <1>4, <1>0
    <3> QED
      BY <2>4, <3>1, <1>1, <1>0
  <2> QED
    BY <2>2, <2>3, <2>4
<1> QED
  BY <1>2, <1>3, <1>4

\* What the running handler relies on or achieves with a step to the place pc.
Achieves(pc, image) ==
  /\ pc \in Verified =>
       staged' # None /\ staged'.image = image /\ staged'.whole
  /\ pc = "installed" => target' = image
  /\ pc = "reported" => IF image \in McuImages THEN target' = image ELSE app' = image
  /\ pc = "restored" /\ ~exposed' => target' = good'
  /\ pc # "started" => paused'

\* The running handler keeps to what it relies on if its step does.
LEMMA GotoAlone ==
  ASSUME TypeOK, stack # <<>>, NEW pc \in Places, Goto(pc),
         ~Head(stack).disturbed => Achieves(pc, Head(stack).image)
  PROVE  RunningAlone'
<1>1. /\ Head(stack) = stack[1]
      /\ stack[1] \in Activations
      /\ stack'[1] = [stack[1] EXCEPT !.pc = pc]
  BY GotoStack
<1>2. /\ stack'[1].pc = pc
      /\ stack'[1].image = stack[1].image
      /\ stack'[1].disturbed = stack[1].disturbed
  BY <1>1 DEF Activations
<1> QED
  BY <1>1, <1>2 DEF RunningAlone, Achieves

\* A step of the running handler preserves the invariant when it does so for that
\* handler.
LEMMA GotoInv ==
  ASSUME IInv, stack # <<>>, NEW pc \in Places, Goto(pc),
         DataTypes', app' # Broken, Recoverable',
         pc \in Busy \cup {"installed", "restored"} => Head(stack).image \in McuImages,
         \/ staged' = None \/ staged'.whole
         \/ pc = "downloading"
         \/ /\ staged' = staged
            /\ Head(stack).pc # "downloading"
            /\ pc \in Verified => Head(stack).pc \in Verified,
         ~Head(stack).disturbed => Achieves(pc, Head(stack).image),
         \/ pc \in Over
         \/ /\ exposed => exposed'
            /\ Head(stack).pc \notin Over
            /\ pc \in Busy => exposed' \/ KeepsGood'
  PROVE  IInv'
<1>1. TypeOK /\ InterruptedMarked /\ BusyIsMcu /\ VerifiedIsWhole /\ BusyKeepsGood
  BY DEF IInv
<1>2. TypeOK'
  <2>1. stack' \in Seq(Activations) /\ Len(stack') = Len(stack)
    BY <1>1, GotoStack
  <2> QED
    BY <1>1, <2>1 DEF TypeOK, DataTypes, Activations
<1>3. InterruptedMarked' /\ BusyIsMcu'
  BY <1>1, GotoMarks
<1>4. VerifiedIsWhole'
  BY <1>1, GotoWhole
<1>5. RunningAlone'
  BY <1>1, GotoAlone
<1>6. BusyKeepsGood'
  BY <1>1, GotoKeeps
<1> QED
  BY <1>2, <1>3, <1>4, <1>5, <1>6 DEF IInv, AppIsVerified

\* What the invariant says of the running handler.
LEMMA HeadFacts ==
  ASSUME IInv, stack # <<>>
  PROVE  /\ Head(stack) \in Activations
         /\ Head(stack).pc \in Verified => staged = None \/ staged.whole
         /\ Head(stack).pc \in Busy \cup {"installed", "restored"}
              => Head(stack).image \in McuImages
         /\ Head(stack).pc \in Busy => exposed \/ KeepsGood
         /\ ~Head(stack).disturbed =>
              /\ Head(stack).pc \in Verified =>
                   staged # None /\ staged.image = Head(stack).image /\ staged.whole
              /\ Head(stack).pc = "installed" => target = Head(stack).image
              /\ Head(stack).pc # "started" => paused
<1>1. stack \in Seq(Activations)
  BY DEF IInv, TypeOK
<1>2. Head(stack) = stack[1] /\ stack[1] \in Activations /\ 1 \in 1..Len(stack)
  BY <1>1
<1>3. ~ \E j \in 1..(1 - 1) : TRUE
  OBVIOUS
<1>4. Head(stack).pc \in Verified => staged = None \/ staged.whole
  BY <1>2, <1>3 DEF IInv, VerifiedIsWhole
<1>5. Head(stack).pc \in Busy \cup {"installed", "restored"}
        => Head(stack).image \in McuImages
  BY <1>2 DEF IInv, BusyIsMcu
<1>6. Head(stack).pc \in Busy => exposed \/ KeepsGood
  BY <1>2, <1>3 DEF IInv, BusyKeepsGood
<1> QED
  BY <1>2, <1>4, <1>5, <1>6 DEF IInv, RunningAlone

-----------------------------------------------------------------------------
(* One lemma for each step of a handler *)

\* Nothing is relied on yet.
LEMMA FetchFailsStep == ASSUME IInv, FetchFails PROVE IInv'
<1>1. /\ stack # <<>> /\ Head(stack).pc = "started"
      /\ Goto("failed") /\ "failed" \in Places
  BY DEF FetchFails, At, Places
<1>2. DataTypes'
  <2>1. /\ recovery' \in Flash \cup {None}
        /\ hasGolden => recovery' \in {Golden, None}
        /\ exposed' \in BOOLEAN
    BY DEF IInv, TypeOK, FetchFails, Format
  <2>2. mounted' \in BOOLEAN /\ paused' \in BOOLEAN
    BY DEF IInv, TypeOK, FetchFails
  <2>3. staged' \in [image : Images, whole : BOOLEAN] \cup {None}
    BY DEF IInv, TypeOK, FetchFails
  <2> QED
    BY <2>1, <2>2, <2>3 DEF IInv, TypeOK, FetchFails, DataTypes
<1>3. app' # Broken /\ Recoverable'
  <2>1. app' # Broken /\ UNCHANGED <<hasGolden, target, good>>
    BY DEF IInv, AppIsVerified, FetchFails
  <2>2. CASE UNCHANGED <<recovery, exposed>>
    BY <2>1, <2>2 DEF IInv, Recoverable, KeepsGood
  <2>3. CASE Format
    BY <2>1, <2>3 DEF IInv, Recoverable, Format
  <2> QED
    BY <2>1, <2>2, <2>3 DEF FetchFails
<1>4. ~Head(stack).disturbed => Achieves("failed", Head(stack).image)
  BY <1>1 DEF FetchFails, Achieves, Verified
<1>5. /\ exposed => exposed'
      /\ "failed" \in Busy => exposed' \/ KeepsGood'
  BY <1>1 DEF IInv, TypeOK, FetchFails, Format, Busy
<1>6. \/ staged' = None \/ staged'.whole
      \/ "failed" = "downloading"
      \/ staged' = staged /\ Head(stack).pc # "downloading"
           /\ ("failed" \in Verified => Head(stack).pc \in Verified)
  BY <1>1 DEF FetchFails, Verified
<1> QED
  BY <1>1, <1>2, <1>3, <1>4, <1>5, <1>6, GotoInv DEF Busy, Over

\* A torn file appears, and those that have verified theirs lie under a download.
LEMMA FetchStep == ASSUME IInv, Fetch PROVE IInv'
<1>1. /\ stack # <<>> /\ Head(stack).pc = "started"
      /\ Goto("downloading") /\ "downloading" \in Places
  BY DEF Fetch, At, Places
<1>2. DataTypes'
  <2>1. /\ recovery' \in Flash \cup {None}
        /\ hasGolden => recovery' \in {Golden, None}
        /\ exposed' \in BOOLEAN
    BY DEF IInv, TypeOK, Fetch, Format
  <2>2. mounted' \in BOOLEAN /\ paused' \in BOOLEAN
    BY DEF IInv, TypeOK, Fetch
  <2>3. staged' \in [image : Images, whole : BOOLEAN] \cup {None}
    BY <1>1, HeadFacts DEF IInv, TypeOK, Fetch, Activations
  <2> QED
    BY <2>1, <2>2, <2>3 DEF IInv, TypeOK, Fetch, DataTypes
<1>3. app' # Broken /\ Recoverable'
  <2>1. app' # Broken /\ UNCHANGED <<hasGolden, target, good>>
    BY DEF IInv, AppIsVerified, Fetch
  <2>2. CASE UNCHANGED <<recovery, exposed>>
    BY <2>1, <2>2 DEF IInv, Recoverable, KeepsGood
  <2>3. CASE Format
    BY <2>1, <2>3 DEF IInv, Recoverable, Format
  <2> QED
    BY <2>1, <2>2, <2>3 DEF Fetch
<1>4. ~Head(stack).disturbed => Achieves("downloading", Head(stack).image)
  BY <1>1 DEF Fetch, Achieves, Verified
<1>5. /\ exposed => exposed'
      /\ "downloading" \in Busy => exposed' \/ KeepsGood'
  BY <1>1 DEF IInv, TypeOK, Fetch, Format, Busy
<1>6. \/ staged' = None \/ staged'.whole
      \/ "downloading" = "downloading"
      \/ staged' = staged /\ Head(stack).pc # "downloading"
           /\ ("downloading" \in Verified => Head(stack).pc \in Verified)
  BY <1>1
<1> QED
  BY <1>1, <1>2, <1>3, <1>4, <1>5, <1>6, GotoInv DEF Busy, Over

\* No torn file is left.
LEMMA DownloadFailsStep == ASSUME IInv, DownloadFails PROVE IInv'
<1>1. /\ stack # <<>> /\ Head(stack).pc = "downloading"
      /\ Goto("failed") /\ "failed" \in Places
  BY DEF DownloadFails, At, Places
<1>2. DataTypes'
  BY <1>1 DEF IInv, TypeOK, DownloadFails, DataTypes
<1>3. app' # Broken /\ Recoverable'
  BY <1>1 DEF IInv, AppIsVerified, DownloadFails, Recoverable, KeepsGood
<1>4. ~Head(stack).disturbed => Achieves("failed", Head(stack).image)
  BY <1>1, HeadFacts DEF DownloadFails, Achieves, Verified
<1>5. /\ exposed => exposed'
      /\ "failed" \in Busy => exposed' \/ KeepsGood'
  BY <1>1 DEF DownloadFails, Busy
<1>6. \/ staged' = None \/ staged'.whole
      \/ "failed" = "downloading"
      \/ staged' = staged /\ Head(stack).pc # "downloading"
           /\ ("failed" \in Verified => Head(stack).pc \in Verified)
  BY <1>1 DEF DownloadFails
<1> QED
  BY <1>1, <1>2, <1>3, <1>4, <1>5, <1>6, GotoInv DEF Busy, Over

\* The file becomes whole, and is the handler's own unless it was disturbed.
LEMMA VerifyStep == ASSUME IInv, Verify PROVE IInv'
<1>1. /\ stack # <<>> /\ Head(stack).pc = "downloading"
      /\ Goto("verified") /\ "verified" \in Places
  BY DEF Verify, At, Places
<1>2. DataTypes'
  BY <1>1 DEF IInv, TypeOK, Verify, DataTypes
<1>3. app' # Broken /\ Recoverable'
  BY <1>1 DEF IInv, AppIsVerified, Verify, Recoverable, KeepsGood
<1>4. ~Head(stack).disturbed => Achieves("verified", Head(stack).image)
  <2>1. staged \in [image : Images, whole : BOOLEAN]
    BY DEF IInv, TypeOK, Verify
  <2>2. staged' = [image |-> Head(stack).image, whole |-> TRUE]
    BY <2>1 DEF Verify
  <2>3. staged' # None /\ staged'.image = Head(stack).image /\ staged'.whole
    <3>1. Head(stack).image \in Images
      BY <1>1, HeadFacts DEF Activations
    <3>2. staged' \in [image : Images, whole : BOOLEAN]
      BY <3>1, <2>2
    <3>3. staged' # None
      BY <3>2, UpdateAssumption
    <3> QED
      BY <3>3, <2>2
  <2>4. ~Head(stack).disturbed => paused'
    BY <1>1, HeadFacts DEF Verify
  <2> QED
    BY <2>3, <2>4 DEF Achieves
<1>5. /\ exposed => exposed'
      /\ "verified" \in Busy => exposed' \/ KeepsGood'
  BY <1>1 DEF Verify, Busy
<1>6. \/ staged' = None \/ staged'.whole
      \/ "verified" = "downloading"
      \/ staged' = staged /\ Head(stack).pc # "downloading"
           /\ ("verified" \in Verified => Head(stack).pc \in Verified)
  BY <1>1 DEF Verify
<1> QED
  BY <1>1, <1>2, <1>3, <1>4, <1>5, <1>6, GotoInv DEF Busy, Over

\* The file is whole or gone.
LEMMA UpdateFailsStep == ASSUME IInv, UpdateFails PROVE IInv'
<1>1. /\ stack # <<>> /\ Head(stack).pc = "verified"
      /\ Goto("failed") /\ "failed" \in Places
  BY DEF UpdateFails, At, Places
<1>2. DataTypes'
  BY <1>1 DEF IInv, TypeOK, UpdateFails, DataTypes
<1>3. app' # Broken /\ Recoverable'
  BY <1>1 DEF IInv, AppIsVerified, UpdateFails, Recoverable, KeepsGood
<1>4. ~Head(stack).disturbed => Achieves("failed", Head(stack).image)
  BY <1>1, HeadFacts DEF UpdateFails, Achieves, Verified
<1>5. /\ exposed => exposed'
      /\ "failed" \in Busy => exposed' \/ KeepsGood'
  BY <1>1 DEF UpdateFails, Busy
<1>6. \/ staged' = None \/ staged'.whole
      \/ "failed" = "downloading"
      \/ staged' = staged /\ Head(stack).pc # "downloading"
           /\ ("failed" \in Verified => Head(stack).pc \in Verified)
  BY <1>1 DEF UpdateFails, Verified
<1> QED
  BY <1>1, <1>2, <1>3, <1>4, <1>5, <1>6, GotoInv DEF Busy, Over

\* The file that is booted is whole, since this handler has verified one.
LEMMA UpdateEsp32Step == ASSUME IInv, UpdateEsp32 PROVE IInv'
<1>1. /\ stack # <<>> /\ Head(stack).pc = "verified"
      /\ Goto("reported") /\ "reported" \in Places
  BY DEF UpdateEsp32, At, Places
<1>2. DataTypes'
  BY <1>1 DEF IInv, TypeOK, UpdateEsp32, DataTypes, Content
<1>3. app' # Broken /\ Recoverable'
  BY <1>1, HeadFacts, UpdateAssumption
     DEF IInv, UpdateEsp32, Recoverable, KeepsGood, Images, Verified, Content
<1>4. ~Head(stack).disturbed => Achieves("reported", Head(stack).image)
  BY <1>1, HeadFacts, UpdateAssumption DEF UpdateEsp32, Achieves, Verified, Content
<1>5. /\ exposed => exposed'
      /\ "reported" \in Busy => exposed' \/ KeepsGood'
  BY <1>1 DEF UpdateEsp32, Busy
<1>6. \/ staged' = None \/ staged'.whole
      \/ "reported" = "downloading"
      \/ staged' = staged /\ Head(stack).pc # "downloading"
           /\ ("reported" \in Verified => Head(stack).pc \in Verified)
  BY <1>1 DEF UpdateEsp32
<1> QED
  BY <1>1, <1>2, <1>3, <1>4, <1>5, <1>6, GotoInv DEF Busy, Over

\* A spoilt snapshot beside a bad target exposes it.
LEMMA RefuseStm32Step == ASSUME IInv, RefuseStm32 PROVE IInv'
<1>1. /\ stack # <<>> /\ Head(stack).pc = "verified"
      /\ Goto("failed") /\ "failed" \in Places
  BY DEF RefuseStm32, At, AtMcu, Places
<1>2. DataTypes'
  BY <1>1 DEF IInv, TypeOK, RefuseStm32, DataTypes, Flash, SpoilSnapshot
<1>3. app' # Broken /\ Recoverable'
  BY <1>1
     DEF IInv, AppIsVerified, RefuseStm32, Recoverable, KeepsGood, SpoilSnapshot
<1>4. ~Head(stack).disturbed => Achieves("failed", Head(stack).image)
  BY <1>1, HeadFacts DEF RefuseStm32, Achieves, Verified
<1>5. /\ exposed => exposed'
      /\ "failed" \in Busy => exposed' \/ KeepsGood'
  BY <1>1 DEF RefuseStm32, Busy, SpoilSnapshot
<1>6. \/ staged' = None \/ staged'.whole
      \/ "failed" = "downloading"
      \/ staged' = staged /\ Head(stack).pc # "downloading"
           /\ ("failed" \in Verified => Head(stack).pc \in Verified)
  BY <1>1 DEF RefuseStm32
<1> QED
  BY <1>1, <1>2, <1>3, <1>4, <1>5, <1>6, GotoInv DEF Busy, Over

\* The snapshot of a good target is good; of a bad one it exposes it.
LEMMA PrepareRecoveryStep == ASSUME IInv, PrepareRecovery PROVE IInv'
<1>1. /\ stack # <<>> /\ Head(stack).pc = "verified"
      /\ Goto("programming") /\ "programming" \in Places
  BY DEF PrepareRecovery, At, AtMcu, Places
<1>2. DataTypes'
  BY <1>1 DEF IInv, TypeOK, PrepareRecovery, DataTypes
<1>3. app' # Broken /\ Recoverable'
  BY <1>1 DEF IInv, AppIsVerified, PrepareRecovery, Recoverable, KeepsGood
<1>4. ~Head(stack).disturbed => Achieves("programming", Head(stack).image)
  BY <1>1, HeadFacts DEF PrepareRecovery, Achieves, Verified
<1>5. /\ exposed => exposed'
      /\ "programming" \in Busy => exposed' \/ KeepsGood'
  BY <1>1 DEF PrepareRecovery, KeepsGood
<1>6. \/ staged' = None \/ staged'.whole
      \/ "programming" = "downloading"
      \/ staged' = staged /\ Head(stack).pc # "downloading"
           /\ ("programming" \in Verified => Head(stack).pc \in Verified)
  BY <1>1 DEF PrepareRecovery, Verified
<1> QED
  BY <1>1, <1>2, <1>3, <1>4, <1>5, <1>6, GotoInv DEF Over, PrepareRecovery, AtMcu

\* The recovery image is good, or the target is exposed.
LEMMA ProgramFailsStep == ASSUME IInv, ProgramFails PROVE IInv'
<1>1. /\ stack # <<>> /\ Head(stack).pc = "programming"
      /\ Goto("recovering") /\ "recovering" \in Places
  BY DEF ProgramFails, At, Places
<1>2. DataTypes'
  BY <1>1 DEF IInv, TypeOK, ProgramFails, files, DataTypes, Flash
<1>3. app' # Broken /\ Recoverable'
  BY <1>1, HeadFacts
     DEF IInv, AppIsVerified, ProgramFails, files, Recoverable, KeepsGood, Busy
<1>4. ~Head(stack).disturbed => Achieves("recovering", Head(stack).image)
  BY <1>1, HeadFacts DEF ProgramFails, Achieves, Verified
<1>5. /\ exposed => exposed'
      /\ "recovering" \in Busy => exposed' \/ KeepsGood'
  BY <1>1, HeadFacts DEF ProgramFails, files, KeepsGood, Busy
<1>6. \/ staged' = None \/ staged'.whole
      \/ "recovering" = "downloading"
      \/ staged' = staged /\ Head(stack).pc # "downloading"
           /\ ("recovering" \in Verified => Head(stack).pc \in Verified)
  BY <1>1 DEF ProgramFails, files, Verified
<1> QED
  BY <1>1, <1>2, <1>3, <1>4, <1>5, <1>6, HeadFacts, GotoInv DEF Busy, Over

\* The recovery image is good, or the target is exposed.
LEMMA ProgramStep == ASSUME IInv, Program PROVE IInv'
<1>1. /\ stack # <<>> /\ Head(stack).pc = "programming"
      /\ Goto("programmed") /\ "programmed" \in Places
  BY DEF Program, At, Places
<1>2. DataTypes'
  BY <1>1 DEF IInv, TypeOK, Program, files, DataTypes, Flash, Programmed, Content
<1>3. app' # Broken /\ Recoverable'
  BY <1>1, HeadFacts
     DEF IInv, AppIsVerified, Program, files, Recoverable, KeepsGood, Busy
<1>4. ~Head(stack).disturbed => Achieves("programmed", Head(stack).image)
  BY <1>1, HeadFacts DEF Program, files, Achieves, Verified
<1>5. /\ exposed => exposed'
      /\ "programmed" \in Busy => exposed' \/ KeepsGood'
  BY <1>1, HeadFacts DEF Program, files, KeepsGood, Busy
<1>6. \/ staged' = None \/ staged'.whole
      \/ "programmed" = "downloading"
      \/ staged' = staged /\ Head(stack).pc # "downloading"
           /\ ("programmed" \in Verified => Head(stack).pc \in Verified)
  BY <1>1 DEF Program, files, Verified
<1> QED
  BY <1>1, <1>2, <1>3, <1>4, <1>5, <1>6, HeadFacts, GotoInv DEF Busy, Over

\* Only the place changes.
LEMMA CheckFailsStep == ASSUME IInv, CheckFails PROVE IInv'
<1>1. /\ stack # <<>> /\ Head(stack).pc = "programmed"
      /\ Goto("recovering") /\ "recovering" \in Places
  BY DEF CheckFails, At, Places
<1>2. DataTypes'
  BY <1>1 DEF IInv, TypeOK, CheckFails, files, DataTypes
<1>3. app' # Broken /\ Recoverable'
  BY <1>1 DEF IInv, AppIsVerified, CheckFails, files, Recoverable, KeepsGood
<1>4. ~Head(stack).disturbed => Achieves("recovering", Head(stack).image)
  BY <1>1, HeadFacts DEF CheckFails, Achieves, Verified
<1>5. /\ exposed => exposed'
      /\ "recovering" \in Busy => exposed' \/ KeepsGood'
  BY <1>1, HeadFacts DEF CheckFails, files, KeepsGood, Busy
<1>6. \/ staged' = None \/ staged'.whole
      \/ "recovering" = "downloading"
      \/ staged' = staged /\ Head(stack).pc # "downloading"
           /\ ("recovering" \in Verified => Head(stack).pc \in Verified)
  BY <1>1 DEF CheckFails, files, Verified
<1> QED
  BY <1>1, <1>2, <1>3, <1>4, <1>5, <1>6, HeadFacts, GotoInv DEF Busy, Over

\* The target is good from now on, and the handlers below never run again.
LEMMA CheckStep == ASSUME IInv, Check PROVE IInv'
<1>1. /\ stack # <<>> /\ Head(stack).pc = "programmed"
      /\ Goto("installed") /\ "installed" \in Places
  BY DEF Check, At, Places
<1>2. DataTypes'
  BY <1>1, HeadFacts, UpdateAssumption
     DEF IInv, TypeOK, Check, DataTypes, Verified, DropSnapshot, Content
<1>3. app' # Broken /\ Recoverable'
  BY <1>1 DEF IInv, AppIsVerified, Check, Recoverable
<1>4. ~Head(stack).disturbed => Achieves("installed", Head(stack).image)
  BY <1>1, HeadFacts DEF Check, Achieves, Verified, Content
<1>5. "installed" \in Over
  BY DEF Over
<1>6. \/ staged' = None \/ staged'.whole
      \/ "installed" = "downloading"
      \/ staged' = staged /\ Head(stack).pc # "downloading"
           /\ ("installed" \in Verified => Head(stack).pc \in Verified)
  BY <1>1 DEF Check
<1> QED
  BY <1>1, <1>2, <1>3, <1>4, <1>5, <1>6, HeadFacts, GotoInv DEF Busy

\* What was installed is still there if no other handler ran.
LEMMA FinishStep == ASSUME IInv, Finish PROVE IInv'
<1>1. /\ stack # <<>> /\ Head(stack).pc = "installed"
      /\ Goto("reported") /\ "reported" \in Places
  BY DEF Finish, At, Places
<1>2. DataTypes'
  BY <1>1 DEF IInv, TypeOK, Finish, files, DataTypes
<1>3. app' # Broken /\ Recoverable'
  BY <1>1 DEF IInv, AppIsVerified, Finish, files, Recoverable, KeepsGood
<1>4. ~Head(stack).disturbed => Achieves("reported", Head(stack).image)
  BY <1>1, HeadFacts DEF Finish, Achieves, Verified
<1>5. /\ exposed => exposed'
      /\ "reported" \in Busy => exposed' \/ KeepsGood'
  BY <1>1 DEF Finish, Busy
<1>6. \/ staged' = None \/ staged'.whole
      \/ "reported" = "downloading"
      \/ staged' = staged /\ Head(stack).pc # "downloading"
           /\ ("reported" \in Verified => Head(stack).pc \in Verified)
  BY <1>1 DEF Finish, files, Verified
<1> QED
  BY <1>1, <1>2, <1>3, <1>4, <1>5, <1>6, HeadFacts, GotoInv DEF Over

\* The target is good again, so the snapshot may go.
LEMMA RestoreStep == ASSUME IInv, Restore PROVE IInv'
<1>1. /\ stack # <<>> /\ Head(stack).pc = "recovering"
      /\ Goto("restored") /\ "restored" \in Places
  BY DEF Restore, At, Places
<1>2. DataTypes'
  BY <1>1, UpdateAssumption
     DEF IInv, TypeOK, Restore, DataTypes, Flash, DropSnapshot
<1>3. app' # Broken /\ Recoverable'
  BY <1>1, HeadFacts
     DEF IInv, AppIsVerified, Restore, Recoverable, KeepsGood, Busy
<1>4. ~Head(stack).disturbed => Achieves("restored", Head(stack).image)
  BY <1>1, HeadFacts DEF Restore, Achieves, KeepsGood, Busy, Verified
<1>5. /\ exposed => exposed'
      /\ "restored" \in Busy => exposed' \/ KeepsGood'
  BY <1>1 DEF Restore, Busy
<1>6. \/ staged' = None \/ staged'.whole
      \/ "restored" = "downloading"
      \/ staged' = staged /\ Head(stack).pc # "downloading"
           /\ ("restored" \in Verified => Head(stack).pc \in Verified)
  BY <1>1 DEF Restore, Verified
<1> QED
  BY <1>1, <1>2, <1>3, <1>4, <1>5, <1>6, HeadFacts, GotoInv DEF Busy, Over

\* The recovery image stays.
LEMMA RestoreFailsStep == ASSUME IInv, RestoreFails PROVE IInv'
<1>1. /\ stack # <<>> /\ Head(stack).pc = "recovering"
      /\ Goto("failed") /\ "failed" \in Places
  BY DEF RestoreFails, At, Places
<1>2. DataTypes'
  BY <1>1 DEF IInv, TypeOK, RestoreFails, files, DataTypes, Flash
<1>3. app' # Broken /\ Recoverable'
  BY <1>1, HeadFacts
     DEF IInv, AppIsVerified, RestoreFails, files, Recoverable, KeepsGood, Busy
<1>4. ~Head(stack).disturbed => Achieves("failed", Head(stack).image)
  BY <1>1, HeadFacts DEF RestoreFails, Achieves, Verified
<1>5. /\ exposed => exposed'
      /\ "failed" \in Busy => exposed' \/ KeepsGood'
  BY <1>1 DEF RestoreFails, Busy
<1>6. \/ staged' = None \/ staged'.whole
      \/ "failed" = "downloading"
      \/ staged' = staged /\ Head(stack).pc # "downloading"
           /\ ("failed" \in Verified => Head(stack).pc \in Verified)
  BY <1>1 DEF RestoreFails, files, Verified
<1> QED
  BY <1>1, <1>2, <1>3, <1>4, <1>5, <1>6, GotoInv DEF Busy, Over

-----------------------------------------------------------------------------
(* The other steps *)

\* Without a handler the invariant speaks of the data only.
LEMMA EmptyInv ==
  ASSUME stack' = <<>>, MaxDepth \in Nat, DataTypes', app' # Broken, Recoverable'
  PROVE  IInv'
<1>1. Len(stack') = 0 /\ stack' \in Seq(Activations)
  OBVIOUS
<1>2. TypeOK'
  BY <1>1 DEF TypeOK, DataTypes, Activations
<1>3. InterruptedMarked' /\ BusyIsMcu' /\ VerifiedIsWhole' /\ BusyKeepsGood'
  BY <1>1 DEF InterruptedMarked, BusyIsMcu, VerifiedIsWhole, BusyKeepsGood
<1>4. RunningAlone'
  BY DEF RunningAlone
<1> QED
  BY <1>2, <1>3, <1>4 DEF IInv, AppIsVerified

\* All handlers are gone and the data stays.
LEMMA RestartStep == ASSUME IInv, Restart PROVE IInv'
<1>1. stack' = <<>>
  BY DEF Restart
<1>2. DataTypes'
  BY DEF IInv, TypeOK, DataTypes, Restart, files
<1>3. app' # Broken /\ Recoverable'
  BY DEF IInv, AppIsVerified, Recoverable, KeepsGood, Restart, files
<1> QED
  BY <1>1, <1>2, <1>3, EmptyInv, UpdateAssumption

\* In the middle of programming the recovery image is good, and a snapshot is
\* spoilt only before programming starts.
LEMMA PowerLossStep == ASSUME IInv, PowerLoss PROVE IInv'
<1>1. stack # <<>> /\ stack' = <<>> /\ Head(stack) \in Activations
  BY HeadFacts DEF PowerLoss
<1>2. staged' \in [image : Images, whole : BOOLEAN] \cup {None}
  <2>1. Head(stack).image \in Images
    BY <1>1 DEF Activations
  <2>2. [image |-> Head(stack).image, whole |-> FALSE] \in [image : Images, whole : BOOLEAN]
    BY <2>1
  <2>3. \/ staged' \in {staged, None}
        \/ staged' = [image |-> Head(stack).image, whole |-> FALSE]
    BY DEF PowerLoss
  <2> QED
    BY <2>2, <2>3 DEF IInv, TypeOK
<1>3. \/ UNCHANGED <<recovery, exposed>>
      \/ Format
      \/ AtMcu("verified") /\ SpoilSnapshot
  BY DEF PowerLoss
<1>4. target' \in Flash
  BY DEF IInv, TypeOK, PowerLoss, Flash
<1>5. /\ recovery' \in Flash \cup {None}
      /\ hasGolden => recovery' \in {Golden, None}
      /\ exposed' \in BOOLEAN
  BY <1>3 DEF IInv, TypeOK, Format, SpoilSnapshot, Flash
<1>6. DataTypes'
  BY <1>2, <1>4, <1>5 DEF IInv, TypeOK, DataTypes, PowerLoss
<1>7. app' # Broken
  BY DEF IInv, AppIsVerified, PowerLoss
<1>8. Recoverable'
  <2>1. CASE At("programming") \/ At("recovering")
    <3>1. exposed \/ KeepsGood
      BY <2>1, HeadFacts DEF At, Busy
    <3>2. UNCHANGED <<recovery, exposed, good, hasGolden>>
      BY <2>1 DEF PowerLoss, AtMcu, At
    <3> QED
      BY <3>1, <3>2 DEF Recoverable, KeepsGood
  <2>2. CASE ~At("programming") /\ ~At("recovering")
    <3>1. UNCHANGED <<target, good, hasGolden>>
      BY <2>2 DEF PowerLoss
    <3> QED
      BY <1>3, <3>1
         DEF IInv, TypeOK, Recoverable, KeepsGood, SpoilSnapshot, Format
  <2> QED
    BY <2>1, <2>2
<1> QED
  BY <1>1, <1>6, <1>7, <1>8, EmptyInv, UpdateAssumption

\* The handler that goes on after a return has been marked, or has not started.
LEMMA ReturnStep == ASSUME IInv, Return PROVE IInv'
<1>1. /\ stack # <<>> /\ stack \in Seq(Activations)
      /\ Head(stack).pc \in {"failed", "restored"}
      /\ stack' = Tail(stack)
  BY DEF Return, At, IInv, TypeOK
<1>2. /\ stack' \in Seq(Activations)
      /\ Len(stack) \in Nat /\ Len(stack) >= 1
      /\ Len(stack') = Len(stack) - 1
      /\ \A k \in 1..(Len(stack) - 1) : stack'[k] = stack[k + 1]
      /\ Head(stack) = stack[1]
  BY <1>1, HeadTailProperties
<1>3. UNCHANGED <<staged, recovery, mounted, hasGolden, target, app, commands, good, exposed>>
  BY DEF Return, files
<1>4. TypeOK'
  <2>1. Len(stack') <= MaxDepth
    BY <1>2, UpdateAssumption DEF IInv, TypeOK
  <2>2. paused' \in BOOLEAN
    BY DEF Return
  <2> QED
    BY <1>2, <1>3, <2>1, <2>2 DEF IInv, TypeOK, Activations
<1>5. ASSUME NEW i \in 1..Len(stack')
      PROVE  i + 1 \in 2..Len(stack) /\ i + 1 \in 1..Len(stack) /\ stack'[i] = stack[i + 1]
  BY <1>2
<1>6. InterruptedMarked'
  BY <1>2, <1>5 DEF IInv, InterruptedMarked
<1>7. BusyIsMcu'
  BY <1>5 DEF IInv, BusyIsMcu
<1>8. VerifiedIsWhole'
  <2> SUFFICES ASSUME NEW i \in 1..Len(stack'), stack'[i].pc \in Verified,
                      \A j \in 1..(i - 1) : stack'[j].pc # "downloading"
               PROVE  staged = None \/ staged.whole
    BY <1>3 DEF VerifiedIsWhole
  <2>1. ASSUME NEW j \in 1..((i + 1) - 1)
        PROVE  stack[j].pc # "downloading"
    <3>1. CASE j = 1
      BY <3>1, <1>1, <1>2
    <3>2. CASE j # 1
      <4>1. j - 1 \in 1..(i - 1) /\ j - 1 \in 1..(Len(stack) - 1) /\ (j - 1) + 1 = j
        BY <3>2, <1>2
      <4> QED
        BY <4>1, <1>2
    <3> QED
      BY <3>1, <3>2
  <2> QED
    BY <2>1, <1>5 DEF IInv, VerifiedIsWhole
<1>9. RunningAlone'
  <2> SUFFICES ASSUME stack' # <<>>, ~stack'[1].disturbed
               PROVE  stack'[1].pc = "started"
    BY DEF RunningAlone, Verified
  <2>1. 1 \in 1..Len(stack')
    BY <1>2
  <2> QED
    BY <2>1, <1>5 DEF IInv, InterruptedMarked
<1>10. BusyKeepsGood'
  <2> SUFFICES ASSUME NEW i \in 1..Len(stack'), stack'[i].pc \in Busy, ~exposed
               PROVE  \E j \in 1..(i - 1) : stack'[j].pc \in Over
    BY <1>3 DEF BusyKeepsGood
  <2>1. PICK j \in 1..((i + 1) - 1) : stack[j].pc \in Over
    BY <1>2, <1>5 DEF IInv, BusyKeepsGood
  <2>2. j # 1
    BY <2>1, <1>1, <1>2 DEF Over
  <2>3. j - 1 \in 1..(i - 1) /\ j - 1 \in 1..(Len(stack) - 1) /\ (j - 1) + 1 = j
    BY <2>2, <1>2
  <2> QED
    BY <2>1, <2>3, <1>2
<1>11. AppIsVerified' /\ Recoverable'
  BY <1>3 DEF IInv, AppIsVerified, Recoverable, KeepsGood
<1> QED
  BY <1>4, <1>6, <1>7, <1>8, <1>9, <1>10, <1>11 DEF IInv

\* A command that arrives marks the handlers in session, and exposes the target
\* when one of them programs it.
LEMMA DeliverStep == ASSUME IInv, NEW image \in Images, Deliver(image) PROVE IInv'
<1> DEFINE a == [pc |-> "started", image |-> image, disturbed |-> FALSE]
           interrupted == [i \in 1..Len(stack) |->
              [stack[i] EXCEPT !.disturbed = @ \/ stack[i].pc # "started"]]
<1>1. stack \in Seq(Activations) /\ Len(stack) \in Nat
  BY DEF IInv, TypeOK
<1>2. ASSUME NEW i \in 1..Len(stack)
      PROVE  /\ stack[i] \in Activations
             /\ interrupted[i] \in Activations
             /\ interrupted[i].pc = stack[i].pc
             /\ interrupted[i].image = stack[i].image
             /\ stack[i].pc # "started" => interrupted[i].disturbed
  <2>1. stack[i] \in Activations
    BY <1>1
  <2> QED
    BY <2>1 DEF Activations
<1>3. interrupted \in Seq(Activations) /\ Len(interrupted) = Len(stack)
  BY <1>1, <1>2
<1>4. a \in Activations
  BY DEF Activations, Places
<1> HIDE DEF interrupted
<1>5. stack' = <<a>> \o interrupted
  BY DEF Deliver, interrupted
<1>6. /\ stack' \in Seq(Activations)
      /\ Len(stack') = Len(stack) + 1
      /\ stack'[1] = a
      /\ \A k \in 1..Len(stack) : stack'[k + 1] = interrupted[k]
  <2>1. ASSUME NEW r, r = <<a>> \o interrupted
        PROVE  /\ r \in Seq(Activations)
               /\ Len(r) = Len(stack) + 1
               /\ r[1] = a
               /\ \A k \in 1..Len(stack) : r[k + 1] = interrupted[k]
    BY <1>3, <1>4, <2>1, PushHead
  <2> QED
    BY <1>5, <2>1
<1> HIDE DEF a
<1>7. ASSUME NEW i \in 2..Len(stack')
      PROVE  /\ i - 1 \in 1..Len(stack)
             /\ stack'[i].pc = stack[i - 1].pc
             /\ stack'[i].image = stack[i - 1].image
             /\ stack'[i].pc # "started" => stack'[i].disturbed
  <2>1. i - 1 \in 1..Len(stack) /\ (i - 1) + 1 = i
    BY <1>1, <1>6
  <2>2. stack'[i] = interrupted[i - 1]
    BY <2>1, <1>6
  <2> QED
    BY <2>1, <2>2, <1>2
<1>8. stack'[1].pc = "started"
  BY <1>6 DEF a
<1>9. /\ UNCHANGED <<staged, recovery, mounted, hasGolden, target, app, paused, good>>
      /\ commands' = commands + 1 /\ commands < MaxCommands
      /\ Len(stack) < MaxDepth
      /\ exposed' = (exposed \/ \E i \in 1..Len(stack) : stack[i].pc \in Busy)
  BY DEF Deliver, files, Busy
<1>10. TypeOK'
  <2>1. Len(stack') <= MaxDepth
    BY <1>1, <1>6, <1>9, UpdateAssumption
  <2>2. commands' \in 0..MaxCommands
    BY <1>9, UpdateAssumption DEF IInv, TypeOK
  <2>3. exposed' \in BOOLEAN
    BY <1>9 DEF IInv, TypeOK
  <2> QED
    BY <1>6, <1>9, <2>1, <2>2, <2>3 DEF IInv, TypeOK, Activations
<1>11. InterruptedMarked'
  BY <1>7 DEF InterruptedMarked
<1>12. ASSUME NEW i \in 1..Len(stack'), stack'[i].pc # "started"
       PROVE  i \in 2..Len(stack')
  BY <1>6, <1>8, <1>12
<1>13. BusyIsMcu'
  <2> SUFFICES ASSUME NEW i \in 1..Len(stack'),
                      stack'[i].pc \in Busy \cup {"installed", "restored"}
               PROVE  stack'[i].image \in McuImages
    BY DEF BusyIsMcu
  <2>1. i \in 2..Len(stack')
    BY <1>12 DEF Busy
  <2> QED
    BY <2>1, <1>7 DEF IInv, BusyIsMcu
<1>14. VerifiedIsWhole'
  <2> SUFFICES ASSUME NEW i \in 1..Len(stack'), stack'[i].pc \in Verified,
                      \A j \in 1..(i - 1) : stack'[j].pc # "downloading"
               PROVE  staged = None \/ staged.whole
    BY <1>9 DEF VerifiedIsWhole
  <2>1. i \in 2..Len(stack')
    BY <1>12 DEF Verified
  <2>2. ASSUME NEW j \in 1..((i - 1) - 1)
        PROVE  stack[j].pc # "downloading"
    <3>1. j + 1 \in 1..(i - 1) /\ j + 1 \in 2..Len(stack') /\ (j + 1) - 1 = j
      BY <2>1, <1>1, <1>6
    <3> QED
      BY <3>1, <1>7
  <2> QED
    BY <2>1, <2>2, <1>7 DEF IInv, VerifiedIsWhole
<1>15. RunningAlone'
  BY <1>8 DEF RunningAlone, Verified
<1>16. BusyKeepsGood'
  <2> SUFFICES ASSUME NEW i \in 1..Len(stack'), stack'[i].pc \in Busy
               PROVE  exposed'
    BY DEF BusyKeepsGood
  <2>1. i \in 2..Len(stack')
    BY <1>12 DEF Busy
  <2> QED
    BY <2>1, <1>7, <1>9
<1>17. AppIsVerified' /\ Recoverable'
  BY <1>9 DEF IInv, AppIsVerified, Recoverable, KeepsGood
<1> QED
  BY <1>10, <1>11, <1>13, <1>14, <1>15, <1>16, <1>17 DEF IInv

-----------------------------------------------------------------------------
(* Theorems *)

\* At first there is no handler.
LEMMA InitInv == Init => IInv
<1> SUFFICES ASSUME Init PROVE IInv
  OBVIOUS
<1>1. stack = <<>> /\ Len(stack) = 0 /\ stack \in Seq(Activations)
  BY DEF Init
<1>2. TypeOK
  <2>1. Len(stack) <= MaxDepth /\ commands \in 0..MaxCommands
    BY <1>1, UpdateAssumption DEF Init
  <2>2. target \in Flash /\ good \in Flash \ {Broken}
    BY UpdateAssumption DEF Init, Flash
  <2>3. recovery \in Flash \cup {None} /\ (hasGolden => recovery \in {Golden, None})
    BY DEF Init, Flash
  <2> QED
    BY <1>1, <2>1, <2>2, <2>3 DEF Init, TypeOK
<1>3. InterruptedMarked /\ BusyIsMcu /\ VerifiedIsWhole /\ BusyKeepsGood /\ RunningAlone
  BY <1>1 DEF InterruptedMarked, BusyIsMcu, VerifiedIsWhole, BusyKeepsGood, RunningAlone
<1>4. AppIsVerified /\ Recoverable
  BY UpdateAssumption DEF Init, AppIsVerified, Recoverable
<1> QED
  BY <1>2, <1>3, <1>4 DEF IInv

\* Every step preserves the invariant.
LEMMA NextInv == IInv /\ [Next]_vars => IInv'
<1> SUFFICES ASSUME IInv, [Next]_vars PROVE IInv'
  OBVIOUS
<1>1. CASE Step
  BY <1>1, FetchFailsStep, FetchStep, DownloadFailsStep, VerifyStep, UpdateFailsStep,
     UpdateEsp32Step, RefuseStm32Step, PrepareRecoveryStep, ProgramFailsStep,
     ProgramStep, CheckFailsStep, CheckStep, FinishStep, RestoreStep,
     RestoreFailsStep, RestartStep, ReturnStep DEF Step
<1>2. CASE PowerLoss
  BY <1>2, PowerLossStep
<1>3. CASE \E image \in Images : Deliver(image)
  BY <1>3, DeliverStep
<1>4. CASE UNCHANGED vars
  BY <1>4 DEF vars, files, IInv, TypeOK, InterruptedMarked, BusyIsMcu, VerifiedIsWhole,
     AppIsVerified, RunningAlone, BusyKeepsGood, Recoverable, KeepsGood, Activations
<1> QED
  BY <1>1, <1>2, <1>3, <1>4 DEF Next, Idle

\* The invariant of the update holds in every reachable state: what each handler
\* relies on while it may be interrupted by others and by a loss of power.
THEOREM UpdateInvariant == Spec => []IInv
<1> QED
  BY InitInv, NextInv, PTL DEF Spec

\* Files, flashes and activations have their types.
THEOREM UpdateTypeCorrect == Spec => []TypeOK
<1>1. IInv => TypeOK
  BY DEF IInv
<1> QED
  BY <1>1, UpdateInvariant, PTL

\* The ESP32 boots verified images only, however handlers nest.
THEOREM UpdateAppIsVerified == Spec => []AppIsVerified
<1>1. IInv => AppIsVerified
  BY DEF IInv
<1> QED
  BY <1>1, UpdateInvariant, PTL

\* As long as the target is not exposed it runs the last verified image or the
\* device has an image that recovers it.
THEOREM UpdateTargetRecoverable == Spec => []TargetRecoverable
<1>1. IInv => TargetRecoverable
  BY DEF IInv, Recoverable, KeepsGood, TargetRecoverable
<1> QED
  BY <1>1, UpdateInvariant, PTL

\* A handler in its session that has not been interrupted is the running one.
LEMMA UndisturbedRuns ==
  ASSUME IInv, NEW i \in 1..Len(stack), stack[i].pc # "started", ~stack[i].disturbed
  PROVE  i = 1 /\ stack # <<>>
<1>1. Len(stack) \in Nat
  BY DEF IInv, TypeOK
<1>2. i \notin 2..Len(stack)
  BY DEF IInv, InterruptedMarked
<1> QED
  BY <1>1, <1>2

\* Success is reported only for the image that is installed.
THEOREM UpdateSuccessMeansInstalled == Spec => []SuccessMeansInstalled
<1>1. IInv => SuccessMeansInstalled
  BY UndisturbedRuns DEF IInv, SuccessMeansInstalled, RunningAlone
<1> QED
  BY <1>1, UpdateInvariant, PTL

\* A restored image is the good one.
THEOREM UpdateRestoredIsGood == Spec => []RestoredIsGood
<1>1. IInv => RestoredIsGood
  BY UndisturbedRuns DEF IInv, RestoredIsGood, RunningAlone
<1> QED
  BY <1>1, UpdateInvariant, PTL

\* The link is paused throughout a session that is not interrupted.
THEOREM UpdateLinkPausedInSession == Spec => []LinkPausedInSession
<1>1. IInv => LinkPausedInSession
  BY UndisturbedRuns DEF IInv, LinkPausedInSession, RunningAlone
<1> QED
  BY <1>1, UpdateInvariant, PTL
=============================================================================
