------------------------------- MODULE NivaloLink -------------------------------
(***************************************************************************)
(* Frames between the bridge and the secondary MCU.  An exchange clocks a  *)
(* frame out and one in at the same time, so the MCU learns that a frame   *)
(* arrived only from the acknowledgment in the next exchange and sends the *)
(* frame again in between; NivaloLinkReceiveSequence is what keeps the     *)
(* repetition from being handled twice.                                    *)
(*                                                                         *)
(* An exchange and the handling of its frame are one step: a callback can  *)
(* exchange frames inside the handling only after the status of a command  *)
(* has been published, the last thing handleNivaloLinkFrame does.  When    *)
(* the bridge exchanges is the subject of LinkSchedule.                    *)
(*                                                                         *)
(* The program of the MCU is not in the repository.  It is the partner the *)
(* sequence numbers and acknowledgments are made for: it repeats a frame   *)
(* until it sees the frame's number acknowledged, and repeats the number   *)
(* of the last frame in its idle ones.  After a reset it may start at any  *)
(* number.                                                                 *)
(***************************************************************************)
EXTENDS Naturals, Sequences

CONSTANTS
  SeqMod,     \* sequence numbers there are, 2^16 in the code
  Kinds,      \* of frames that are handled: telemetry, status, event
  MaxMade,    \* bound: frames and samples made
  MaxResets   \* bound: restarts of the bridge and resets of the MCU together

ASSUME LinkAssumption ==
  /\ SeqMod \in Nat
  /\ SeqMod >= 2
  /\ MaxMade \in Nat
  /\ MaxResets \in Nat

VARIABLES
  rx,       \* _receiveSequence: [has, last]
  queue,    \* frames of the MCU not yet acknowledged; it sends the first
  number,   \* the number in the frame it sends
  fresh,    \* whether the MCU has made no frame since it started
  resets,   \* resets of the MCU so far
  made,     \* frames and samples made so far
  boot,     \* restarts of the bridge so far
  handled   \* the frames the bridge has handled: [id, kind, boot]

mcuVars == <<queue, number, fresh, resets>>
linkVars == <<rx, mcuVars, made, boot, handled>>

Numbers == 0..(SeqMod - 1)
After(n) == (n + 1) % SeqMod

LinkInit ==
  /\ rx = [has |-> FALSE, last |-> 0]
  /\ queue = <<>>
  /\ number \in Numbers
  /\ fresh = TRUE
  /\ resets = 0
  /\ made = 0
  /\ boot = 0
  /\ handled = <<>>

-----------------------------------------------------------------------------
(* The secondary MCU *)

\* It makes a frame, which gets a number when it is the first of the queue.
McuMakes(kind) ==
  /\ made < MaxMade
  /\ made' = made + 1
  /\ queue' = Append(queue, [id |-> made + 1, kind |-> kind, first |-> fresh])
  /\ number' = IF queue = <<>> THEN After(number) ELSE number
  /\ fresh' = FALSE
  /\ UNCHANGED <<rx, resets, boot, handled>>

\* It loses what it has not delivered, and starts at any number.
McuResets ==
  /\ resets + boot < MaxResets
  /\ resets' = resets + 1
  /\ queue' = <<>>
  /\ number' \in Numbers
  /\ fresh' = TRUE
  /\ UNCHANGED <<rx, made, boot, handled>>

-----------------------------------------------------------------------------
(* NivaloLinkReceiveSequence *)

\* Defect: 0 is taken for no number.
DuplicateUnlessZero(n) == n # 0 /\ n = rx.last

\* observe() returns false
Duplicate(n) == rx.has /\ n = rx.last

\* observe(): what it remembers, also of an idle frame
Observe(n) == rx' = [has |-> TRUE, last |-> n]

\* acknowledgment()
Acknowledgment == IF rx.has THEN rx.last ELSE 0

-----------------------------------------------------------------------------
(* exchange: buildFrame with the acknowledgment, the transfer, parseFrame *)

\* The MCU's side: it goes on to its next frame if the frame it hears
\* acknowledges the one it sent in this same exchange.
McuHears ==
  IF queue # <<>> /\ Acknowledgment = number
  THEN /\ queue' = Tail(queue)
       /\ number' = IF Tail(queue) = <<>> THEN number ELSE After(number)
  ELSE UNCHANGED <<queue, number>>

\* The frame the bridge clocks out is heard or damaged.
McuSide ==
  /\ McuHears \/ UNCHANGED <<queue, number>>
  /\ UNCHANGED <<fresh, resets>>

\* A whole frame with a new number: handleNivaloLinkFrame(Head(queue)).
ReceiveFrame ==
  /\ queue # <<>>
  /\ ~Duplicate(number)
  /\ Observe(number)
  /\ handled' = Append(handled, [id |-> Head(queue).id,
                                 kind |-> Head(queue).kind, boot |-> boot])
  /\ McuSide
  /\ UNCHANGED <<made, boot>>

\* A whole frame that is idle or a duplicate: nothing is handled.
ReceiveIdle ==
  /\ queue = <<>> \/ Duplicate(number)
  /\ Observe(number)
  /\ McuSide
  /\ UNCHANGED <<made, boot, handled>>

\* Defect: the number of a damaged frame is observed.
ReceiveDamagedObserved ==
  /\ Observe(number)
  /\ McuSide
  /\ UNCHANGED <<made, boot, handled>>

\* A frame that parseFrame refuses at either offset.
ReceiveDamaged ==
  /\ McuSide
  /\ UNCHANGED <<rx, made, boot, handled>>

\* A restart of the bridge: begin() resets the receive sequence.
LinkRestarts ==
  /\ boot' = boot + 1
  /\ rx' = [has |-> FALSE, last |-> 0]
  /\ UNCHANGED <<mcuVars, made, handled>>

-----------------------------------------------------------------------------
(* Properties *)

Frames == [id : 1..made, kind : Kinds, first : BOOLEAN]

\* The two ends, and the histories, have their types.
LinkTypeOK ==
  /\ rx \in [has : BOOLEAN, last : Numbers]
  /\ queue \in Seq(Frames)
  /\ number \in Numbers
  /\ fresh \in BOOLEAN
  /\ resets \in 0..MaxResets
  /\ made \in 0..MaxMade
  /\ boot \in 0..MaxResets
  /\ handled \in Seq([id : 1..made, kind : Kinds, boot : 0..boot])

\* Frames are handled in the order in which the MCU made them and once in each
\* run of the bridge, although each is sent more than once, and any frame of
\* either side may be damaged; only the frame whose acknowledgment a restart of
\* the bridge cut off is handled again by the next run.
FramesInOrder ==
  \A j, k \in 1..Len(handled) :
    j < k =>
      \/ handled[j].id < handled[k].id
      \/ handled[j].id = handled[k].id /\ handled[j].boot < handled[k].boot

\* A frame that the MCU drops as delivered has been handled.  There are two
\* exceptions, both of the numbers: the first frame of an MCU that was reset may
\* carry the number observed last, and from a bridge that has observed none the
\* acknowledgment is 0, that of a frame numbered 0.
RetiredIsHandled ==
  [][queue # <<>> /\ queue' = Tail(queue) /\ resets' = resets =>
       \/ \E k \in 1..Len(handled') : handled'[k].id = Head(queue).id
       \/ Head(queue).first /\ resets > 0
       \/ number = 0 /\ ~rx.has]_linkVars
=================================================================================
