----------------------------- MODULE TelemetryQueue -----------------------------
(***************************************************************************)
(* What README.md promises of telemetry: "bounded telemetry queue ... When *)
(* full, the oldest buffered sample is discarded.  The queue is            *)
(* intentionally volatile."  A sample is published at once, or kept, or    *)
(* lost; those kept leave in the order in which they came, by being        *)
(* published or discarded.                                                 *)
(***************************************************************************)
EXTENDS Naturals, Sequences

CONSTANTS
  Capacity,  \* samples kept at most
  Samples    \* what is published

VARIABLES
  queue,     \* the samples kept, oldest first
  published  \* the samples published, in order

Init == queue = <<>> /\ published = <<>>

PublishNow(s) == published' = Append(published, s) /\ UNCHANGED queue

Keep(s) ==
  /\ Capacity > 0
  /\ queue' = Append(IF Len(queue) = Capacity THEN Tail(queue) ELSE queue, s)
  /\ UNCHANGED published

PublishOldest ==
  /\ queue # <<>>
  /\ published' = Append(published, Head(queue))
  /\ queue' = Tail(queue)

\* A restart.
Forget == queue' = <<>> /\ UNCHANGED published

Next ==
  \/ \E s \in Samples : PublishNow(s) \/ Keep(s)
  \/ PublishOldest
  \/ Forget

Spec == Init /\ [][Next]_<<queue, published>>
=================================================================================
