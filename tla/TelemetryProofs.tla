----------------------------- MODULE TelemetryProofs -----------------------------
(***************************************************************************)
(* Theorems about the telemetry of Bridge: the ring of Messaging is the    *)
(* bounded queue it is meant to be, no sample is published twice, none     *)
(* that was handled disappears, and a new connection is announced and      *)
(* flushed.                                                                *)
(***************************************************************************)
EXTENDS BridgeProofs

-----------------------------------------------------------------------------
(* The ring, for any number of slots *)

Slot(h, k) == (h + k - 1) % Slots

\* The samples of a ring with this head and count, oldest first.
Contents(r, h, c) == [k \in 1..c |-> r[Slot(h, k)]]

\* The k-th slot after the head, without the remainder.
LEMMA SlotIs ==
  ASSUME NEW h \in Indices, NEW k \in 1..(Slots + 1)
  PROVE  /\ Slot(h, k) \in Indices
         /\ Slot(h, k) = IF h + k - 1 < Slots THEN h + k - 1 ELSE h + k - 1 - Slots
<1>1. Slots \in Nat /\ Slots >= 1 /\ h \in Nat /\ h < Slots /\ k \in Nat /\ k >= 1
  BY MessagingAssumption DEF Indices
<1> DEFINE n == h + k - 1
<1>2. n \in Nat /\ n < 2 * Slots
  BY <1>1
<1>3. CASE n < Slots
  <2>1. n % Slots = n
    BY <1>1, <1>2, <1>3
  <2> QED
    BY <1>1, <1>2, <1>3, <2>1 DEF Slot, Indices
<1>4. CASE n >= Slots
  <2>1. n % Slots = n - Slots
    <3> HIDE DEF n
    <3>1. n = Slots * 1 + (n - Slots) /\ n - Slots \in 0..(Slots - 1)
      BY <1>1, <1>2, <1>4
    <3> QED
      BY <1>1, <1>2, <1>4, <3>1
  <2> QED
    BY <1>1, <1>2, <1>4, <2>1 DEF Slot, Indices
<1> QED
  BY <1>1, <1>2, <1>3, <1>4

\* The slots from the head on are different ones, the head is the first of them,
\* and from the next head on they are those from the second.
LEMMA SlotsInARow ==
  ASSUME NEW h \in Indices
  PROVE  /\ Slot(h, 1) = h
         /\ \A j, k \in 1..Slots : j # k => Slot(h, j) # Slot(h, k)
         /\ \A k \in 2..Slots : Slot(h, k) # h
         /\ Slot(h, Slots + 1) = h
         /\ (h + 1) % Slots = Slot(h, 2) /\ Slot(h, 2) \in Indices
         /\ \A k \in 1..Slots : Slot(Slot(h, 2), k) = Slot(h, k + 1)
<1>1. Slots \in Nat /\ Slots >= 1 /\ h \in Nat /\ h < Slots
  BY MessagingAssumption DEF Indices
<1>2. \A k \in 1..(Slots + 1) :
        Slot(h, k) = IF h + k - 1 < Slots THEN h + k - 1 ELSE h + k - 1 - Slots
  BY SlotIs
<1>3. 2 \in 1..(Slots + 1) /\ Slot(h, 2) \in Indices
  BY <1>1, SlotIs
<1>4. \A k \in 1..Slots :
        Slot(Slot(h, 2), k) = IF Slot(h, 2) + k - 1 < Slots THEN Slot(h, 2) + k - 1
                              ELSE Slot(h, 2) + k - 1 - Slots
  BY <1>1, <1>3, SlotIs
<1>5. (h + 1) % Slots = Slot(h, 2)
  <2>1. h + 2 - 1 = h + 1
    BY <1>1
  <2> QED
    BY <2>1 DEF Slot
<1>6. Slot(h, 2) = IF h + 1 < Slots THEN h + 1 ELSE 0
  BY <1>1, <1>2, <1>3
<1>7. ASSUME NEW k \in 1..Slots
      PROVE  Slot(Slot(h, 2), k) = Slot(h, k + 1)
  <2>1. Slot(h, k + 1) = IF h + k < Slots THEN h + k ELSE h + k - Slots
    <3>1. k + 1 \in 1..(Slots + 1) /\ h + (k + 1) - 1 = h + k
      BY <1>1
    <3> QED
      BY <1>2, <3>1
  <2> HIDE DEF Slot
  <2> QED
    BY <1>1, <1>4, <1>6, <2>1
<1> QED
  BY <1>1, <1>2, <1>3, <1>5, <1>7

LEMMA ContentsElements ==
  ASSUME NEW V, NEW r \in [Indices -> V], NEW h \in Indices, NEW c \in 0..Slots
  PROVE  /\ Contents(r, h, c) \in Seq(V)
         /\ Len(Contents(r, h, c)) = c
         /\ \A k \in 1..c : Contents(r, h, c)[k] = r[Slot(h, k)]
<1>1. c \in Nat /\ \A k \in 1..c : k \in 1..(Slots + 1)
  BY MessagingAssumption
<1>2. \A k \in 1..c : r[Slot(h, k)] \in V
  BY <1>1, SlotIs
<1>3. Contents(r, h, c) \in [1..c -> V]
  BY <1>2 DEF Contents
<1>4. Contents(r, h, c) \in Seq(V)
  BY <1>1, <1>3, SeqDef
<1> QED
  BY <1>1, <1>3, <1>4, LenProperties DEF Contents

\* q with s behind, under a name that keeps the provers from unfolding it.
Behind(q, s) == Append(q, s)

\* t is r with s in slot n.
Put(t, r, n, s) == t[n] = s /\ \A i \in Indices : i # n => t[i] = r[i]

\* A sample put behind the others, when not all slots are taken.
LEMMA ContentsPush ==
  ASSUME NEW V, NEW r \in [Indices -> V], NEW h \in Indices, NEW c \in Nat, c < Slots,
         NEW s \in V, NEW t \in [Indices -> V], Put(t, r, Slot(h, c + 1), s)
  PROVE  Contents(t, h, c + 1) = Behind(Contents(r, h, c), s)
<1> DEFINE old == Contents(r, h, c)
           new == Contents(t, h, c + 1)
<1>1. Slots \in Nat /\ c \in 0..Slots /\ c + 1 \in 0..Slots /\ c + 1 \in 1..(Slots + 1)
  BY MessagingAssumption
<1>2. Slot(h, c + 1) \in Indices
  BY <1>1, SlotIs
<1>3. /\ t[Slot(h, c + 1)] = s
      /\ \A i \in Indices : i # Slot(h, c + 1) => t[i] = r[i]
  BY DEF Put
<1>4. \A k \in 1..c : t[Slot(h, k)] = r[Slot(h, k)]
  <2>1. \A k \in 1..c : /\ k \in 1..Slots /\ c + 1 \in 1..Slots /\ k # c + 1
                        /\ k \in 1..(Slots + 1)
    BY <1>1
  <2>2. \A k \in 1..c : Slot(h, k) # Slot(h, c + 1) /\ Slot(h, k) \in Indices
    BY <2>1, SlotsInARow, SlotIs
  <2> QED
    BY <1>2, <1>3, <2>2
<1>5. /\ new \in Seq(V) /\ Len(new) = c + 1
      /\ \A k \in 1..(c + 1) : new[k] = t[Slot(h, k)]
  BY <1>1, ContentsElements, ZenonT(80)
<1>6. /\ old \in Seq(V) /\ Len(old) = c
      /\ \A k \in 1..c : old[k] = r[Slot(h, k)]
  BY <1>1, ContentsElements, ZenonT(80)
<1> HIDE DEF old, new
<1>7. /\ Append(old, s) \in Seq(V) /\ Len(Append(old, s)) = c + 1
      /\ \A k \in 1..c : Append(old, s)[k] = old[k]
      /\ Append(old, s)[c + 1] = s
  BY <1>6
<1>8. \A k \in 1..(c + 1) : new[k] = Append(old, s)[k]
  BY <1>3, <1>4, <1>5, <1>6, <1>7
<1>9. new = Append(old, s)
  BY <1>5, <1>7, <1>8, SeqEqual
<1> QED
  BY <1>9 DEF old, new, Behind

\* The oldest sample taken out.
LEMMA ContentsPop ==
  ASSUME NEW V, NEW r \in [Indices -> V], NEW h \in Indices, NEW c \in 1..Slots,
         NEW t \in [Indices -> V], \A i \in Indices : i # h => t[i] = r[i]
  PROVE  /\ Contents(r, h, c) # <<>> /\ Head(Contents(r, h, c)) = r[h]
         /\ Contents(t, Slot(h, 2), c - 1) = Tail(Contents(r, h, c))
<1> DEFINE old == Contents(r, h, c)
           new == Contents(t, Slot(h, 2), c - 1)
<1>1. /\ Slots \in Nat /\ c \in Nat /\ c >= 1 /\ c \in 0..Slots /\ c - 1 \in 0..Slots
      /\ Slot(h, 2) \in Indices
  BY MessagingAssumption, SlotsInARow
<1>3. \A k \in 1..(c - 1) : t[Slot(Slot(h, 2), k)] = r[Slot(h, k + 1)]
  <2>1. \A k \in 1..(c - 1) : k \in 1..Slots /\ k + 1 \in 2..Slots /\ k + 1 \in 1..(Slots + 1)
    BY <1>1
  <2>2. \A k \in 1..(c - 1) : /\ Slot(Slot(h, 2), k) = Slot(h, k + 1)
                              /\ Slot(h, k + 1) # h /\ Slot(h, k + 1) \in Indices
    BY <2>1, SlotsInARow, SlotIs
  <2> QED
    BY <2>2
<1>4. /\ new \in Seq(V) /\ Len(new) = c - 1
      /\ \A k \in 1..(c - 1) : new[k] = t[Slot(Slot(h, 2), k)]
  BY <1>1, ContentsElements, ZenonT(80)
<1>5. /\ old \in Seq(V) /\ Len(old) = c
      /\ \A k \in 1..c : old[k] = r[Slot(h, k)]
  BY <1>1, ContentsElements, ZenonT(80)
<1>6. old[1] = r[h]
  BY <1>1, <1>5, SlotsInARow
<1> HIDE DEF old, new
<1>7. old # <<>> /\ Head(old) = old[1]
  BY <1>1, <1>5, EmptySeq
<1>8. /\ Tail(old) \in Seq(V) /\ Len(Tail(old)) = c - 1
      /\ \A k \in 1..(c - 1) : Tail(old)[k] = old[k + 1]
  BY <1>5, <1>7, HeadTailProperties
<1>9. \A k \in 1..(c - 1) : k + 1 \in 1..c
  BY <1>1
<1>10. \A k \in 1..(c - 1) : new[k] = Tail(old)[k]
  BY <1>3, <1>4, <1>5, <1>8, <1>9
<1>11. new = Tail(old)
  BY <1>4, <1>8, <1>10, SeqEqual
<1> QED
  BY <1>6, <1>7, <1>11 DEF old, new

\* The oldest sample taken out and one put behind the others, which may be in the
\* same slot.
LEMMA ContentsReplace ==
  ASSUME NEW V, NEW r \in [Indices -> V], NEW h \in Indices, NEW c \in 1..Slots,
         NEW s \in V, NEW t \in [Indices -> V], t[Slot(h, c + 1)] = s,
         \A i \in Indices : i \notin {h, Slot(h, c + 1)} => t[i] = r[i]
  PROVE  Contents(t, Slot(h, 2), c) = Behind(Tail(Contents(r, h, c)), s)
<1>1. PICK d \in Nat : d = c - 1
  BY MessagingAssumption
<1>2. PICK g \in Indices : g = Slot(h, 2)
  BY SlotsInARow
<1>3. PICK u \in [Indices -> V] : \A i \in Indices : u[i] = IF i = h THEN t[h] ELSE r[i]
  <2>1. [i \in Indices |-> IF i = h THEN t[h] ELSE r[i]] \in [Indices -> V]
    OBVIOUS
  <2> QED
    BY <2>1
<1>4. d < Slots /\ d + 1 = c
  BY <1>1, MessagingAssumption
<1>5. Contents(u, g, d) = Tail(Contents(r, h, c))
  <2>1. Contents(u, Slot(h, 2), c - 1) = Tail(Contents(r, h, c))
    BY <1>3, ContentsPop, ZenonT(80)
  <2> QED
    BY <1>1, <1>2, <2>1, Zenon
<1>6. Slot(g, d + 1) = Slot(h, c + 1)
  BY <1>2, <1>4, SlotsInARow
<1>7. Contents(t, g, d + 1) = Behind(Contents(u, g, d), s)
  <2>1. Put(t, u, Slot(g, d + 1), s)
    BY <1>3, <1>6 DEF Put
  <2> QED
    BY <1>4, <2>1, ContentsPush
<1> QED
  BY <1>2, <1>4, <1>5, <1>7, Zenon

-----------------------------------------------------------------------------
(* The ring and what is published: their types, and what each step does *)

RingTypeOK ==
  /\ ring \in [Indices -> Samples \cup {Empty}]
  /\ head \in Indices
  /\ count \in 0..Capacity
  /\ Kept \in Seq(Samples)
  /\ published \in Seq(Samples)

LEMMA KeptIsContents ==
  /\ Kept = Contents(ring, head, count)
  /\ Kept' = Contents(ring', head', count')
BY DEF Kept, Contents, Slot

LEMMA KeptElements ==
  ASSUME RingTypeOK
  PROVE  /\ Len(Kept) = count /\ count \in Nat /\ count <= Slots
         /\ count > 0 => Kept # <<>> /\ Head(Kept) = ring[head] /\ ring[head] \in Samples
<1> DEFINE V == Samples \cup {Empty}
<1>1. /\ ring \in [Indices -> V] /\ head \in Indices /\ count \in 0..Slots
      /\ count \in Nat
  BY MessagingAssumption DEF RingTypeOK
<1>2. Len(Kept) = count
  <2> HIDE DEF V
  <2> QED
    BY <1>1, KeptIsContents, ContentsElements
<1>3. ASSUME count > 0
      PROVE  Kept # <<>> /\ Head(Kept) = ring[head] /\ ring[head] \in Samples
  <2>1. count \in 1..Slots
    BY <1>1, <1>3
  <2>2. \A i \in Indices : i # head => ring[i] = ring[i]
    OBVIOUS
  <2>3. Kept # <<>> /\ Head(Kept) = ring[head]
    <3> HIDE DEF V
    <3> QED
      BY <1>1, <2>1, <2>2, KeptIsContents, ContentsPop
  <2>4. Head(Kept) \in Samples
    BY <2>3, HeadTailProperties DEF RingTypeOK
  <2> QED
    BY <2>3, <2>4
<1> QED
  BY <1>1, <1>2, <1>3, MessagingAssumption

\* A sample is kept behind the others, in the place of the oldest if as many are
\* kept as configured.
LEMMA PushEffect ==
  ASSUME RingTypeOK, NEW s \in Samples, Capacity > 0, Push(s)
  PROVE  /\ RingTypeOK' /\ published' = published
         /\ \/ Len(Kept) # Capacity /\ Kept' = Behind(Kept, s) /\ lost' = lost
            \/ /\ Len(Kept) = Capacity /\ Kept # <<>>
               /\ Kept' = Behind(Tail(Kept), s)
               /\ lost' = lost \cup {Head(Kept)}
<1> DEFINE V == Samples \cup {Empty}
<1>1. /\ ring \in [Indices -> V] /\ head \in Indices /\ count \in Nat /\ count <= Capacity
      /\ Kept \in Seq(Samples) /\ published \in Seq(Samples)
      /\ Slots \in Nat /\ Capacity \in Nat /\ Capacity <= Slots /\ s \in V /\ Empty \in V
      /\ Len(Kept) = count
  BY KeptElements, MessagingAssumption DEF RingTypeOK
<1>2. /\ TailSlot = Slot(head, count + 1) /\ TailSlot \in Indices
      /\ (head + 1) % Slots = Slot(head, 2) /\ Slot(head, 2) \in Indices
  <2>1. count + 1 \in 1..(Slots + 1) /\ head + (count + 1) - 1 = head + count
    BY <1>1 DEF Indices
  <2>2. TailSlot = Slot(head, count + 1)
    BY <2>1 DEF TailSlot, Slot
  <2> QED
    BY <1>1, <2>1, <2>2, SlotIs, SlotsInARow
<1>3. published' = published
  BY DEF Push
<1>4. CASE Full
  <2>1. /\ head' = Slot(head, 2) /\ count' = count /\ count = Capacity
        /\ ring' = [ring EXCEPT ![head] = Empty, ![TailSlot] = s]
        /\ lost' = lost \cup {ring[head]}
    BY <1>2, <1>4 DEF Push, Full
  <2>2. ring' \in [Indices -> V]
    BY <1>1, <1>2, <2>1
  <2>3. /\ ring'[Slot(head, count + 1)] = s
        /\ \A i \in Indices : i \notin {head, Slot(head, count + 1)} => ring'[i] = ring[i]
    BY <1>1, <1>2, <2>1
  <2>4. Kept # <<>> /\ Head(Kept) = ring[head] /\ count \in 1..Slots
    BY <1>1, <2>1, KeptElements
  <2>5. Contents(ring', Slot(head, 2), count)
          = Behind(Tail(Contents(ring, head, count)), s)
    <3> HIDE DEF V
    <3> QED
      BY <1>1, <2>2, <2>3, <2>4, ContentsReplace
  <2>6. Kept' = Behind(Tail(Kept), s)
    BY <2>1, <2>5, KeptIsContents, Zenon
  <2>7. Kept' \in Seq(Samples)
    <3>1. Tail(Kept) \in Seq(Samples)
      BY <1>1, <2>4, HeadTailProperties
    <3>2. Behind(Tail(Kept), s) \in Seq(Samples)
      BY <3>1 DEF Behind
    <3> QED
      BY <2>6, <3>2, Zenon
  <2>8. head' \in Indices /\ count' \in 0..Capacity
    BY <1>1, <1>2, <2>1
  <2>9. RingTypeOK'
    BY <1>1, <1>3, <2>2, <2>7, <2>8 DEF RingTypeOK, Samples
  <2> QED
    BY <1>1, <1>3, <2>1, <2>4, <2>6, <2>9
<1>5. CASE ~Full
  <2>1. /\ head' = head /\ count' = count + 1 /\ count # Capacity
        /\ ring' = [ring EXCEPT ![TailSlot] = s]
        /\ lost' = lost
    BY <1>5 DEF Push, Full
  <2>2. ring' \in [Indices -> V] /\ Put(ring', ring, Slot(head, count + 1), s)
    BY <1>1, <1>2, <2>1 DEF Put
  <2>3. count < Slots
    BY <1>1, <2>1
  <2>4. Contents(ring', head, count + 1) = Behind(Contents(ring, head, count), s)
    <3> HIDE DEF V
    <3> QED
      BY <1>1, <2>2, <2>3, ContentsPush
  <2>5. Kept' = Behind(Kept, s)
    BY <2>1, <2>4, KeptIsContents, Zenon
  <2>6. Kept' \in Seq(Samples)
    <3>1. Behind(Kept, s) \in Seq(Samples)
      BY <1>1 DEF Behind
    <3> QED
      BY <2>5, <3>1, Zenon
  <2>7. head' \in Indices /\ count' \in 0..Capacity
    BY <1>1, <2>1
  <2>8. RingTypeOK'
    BY <1>1, <1>3, <2>2, <2>6, <2>7 DEF RingTypeOK, Samples
  <2> QED
    BY <1>1, <1>3, <2>1, <2>5, <2>8
<1> QED
  BY <1>4, <1>5

\* A sample that is not published at once is kept or given up.
LEMMA PublishEffect ==
  ASSUME RingTypeOK, NEW s \in Samples, PublishTelemetry(s)
  PROVE  /\ RingTypeOK'
         /\ \/ published' = Behind(published, s) /\ Kept' = Kept /\ lost' = lost
            \/ published' = published /\ Kept' = Kept /\ lost' = lost \cup {s}
            \/ /\ published' = published /\ Capacity > 0 /\ Len(Kept) # Capacity
               /\ Kept' = Behind(Kept, s) /\ lost' = lost
            \/ /\ published' = published /\ Capacity > 0 /\ Len(Kept) = Capacity
               /\ Kept # <<>> /\ Kept' = Behind(Tail(Kept), s)
               /\ lost' = lost \cup {Head(Kept)}
<1>1. CASE Capacity > 0 /\ Push(s)
  BY <1>1, PushEffect
<1>2. CASE UNCHANGED ringVars
  <2>1. Kept' = Kept /\ UNCHANGED <<ring, head, count>>
    BY <1>2 DEF ringVars, Kept
  <2>2. \/ published' = Behind(published, s) /\ lost' = lost
        \/ published' = published /\ lost' = lost \cup {s}
        \/ Capacity > 0 /\ Push(s)
    BY <1>2 DEF PublishTelemetry, Behind
  <2>3. Behind(published, s) \in Seq(Samples)
    BY DEF RingTypeOK, Behind
  <2>4. CASE published' = Behind(published, s) /\ lost' = lost
    <3>1. published' \in Seq(Samples)
      BY <2>3, <2>4, Zenon
    <3>2. RingTypeOK'
      BY <2>1, <3>1 DEF RingTypeOK, Samples
    <3> QED
      BY <2>1, <2>4, <3>2
  <2>5. CASE published' = published /\ lost' = lost \cup {s}
    BY <2>1, <2>5 DEF RingTypeOK, Samples
  <2> QED
    BY <1>1, <2>2, <2>4, <2>5
<1> QED
  BY <1>1, <1>2 DEF PublishTelemetry

\* The flush publishes the oldest sample, which leaves the ring.
LEMMA FlushEffect ==
  ASSUME RingTypeOK, FlushOne
  PROVE  /\ RingTypeOK' /\ lost' = lost
         /\ \/ /\ Kept # <<>>
               /\ published' = Behind(published, Head(Kept)) /\ Kept' = Tail(Kept)
            \/ published' = published /\ Kept' = Kept
<1> DEFINE V == Samples \cup {Empty}
<1>1. /\ ring \in [Indices -> V] /\ head \in Indices /\ count \in Nat /\ count <= Capacity
      /\ Kept \in Seq(Samples) /\ published \in Seq(Samples)
      /\ Slots \in Nat /\ Capacity \in Nat /\ Capacity <= Slots /\ Empty \in V
      /\ count > 0 /\ lost' = lost
  BY KeptElements, MessagingAssumption DEF RingTypeOK, FlushOne
<1>2. Kept # <<>> /\ Head(Kept) = ring[head] /\ ring[head] \in Samples
  BY <1>1, KeptElements
<1>3. CASE UNCHANGED <<ringVars, published>>
  <2>1. Kept' = Kept /\ UNCHANGED <<ring, head, count, published>>
    BY <1>3 DEF ringVars, Kept
  <2> QED
    BY <1>1, <2>1 DEF RingTypeOK, Samples
<1>4. CASE /\ published' = Append(published, ring[head])
           /\ ring' = [ring EXCEPT ![head] = Empty]
           /\ head' = (head + 1) % Slots
           /\ count' = count - 1
  <2>1. /\ head' = Slot(head, 2) /\ head' \in Indices /\ count \in 1..Slots
        /\ count' \in 0..Capacity
    BY <1>1, <1>4, SlotsInARow
  <2>2. ring' \in [Indices -> V] /\ \A i \in Indices : i # head => ring'[i] = ring[i]
    BY <1>1, <1>4
  <2>3. Contents(ring', Slot(head, 2), count - 1) = Tail(Contents(ring, head, count))
    <3> HIDE DEF V
    <3> QED
      BY <1>1, <2>1, <2>2, ContentsPop, ZenonT(80)
  <2>4. Kept' = Tail(Kept)
    BY <1>4, <2>1, <2>3, KeptIsContents, Zenon
  <2>5. Tail(Kept) \in Seq(Samples)
    BY <1>1, <1>2, HeadTailProperties
  <2>6. Kept' \in Seq(Samples)
    BY <2>4, <2>5, Zenon
  <2>7. published' = Behind(published, Head(Kept))
    BY <1>2, <1>4, Zenon DEF Behind
  <2>8. Behind(published, Head(Kept)) \in Seq(Samples)
    BY <1>1, <1>2 DEF Behind
  <2>9. published' \in Seq(Samples)
    BY <2>7, <2>8, Zenon
  <2>10. RingTypeOK'
    BY <2>1, <2>2, <2>6, <2>9 DEF RingTypeOK, Samples
  <2> QED
    BY <1>1, <1>2, <2>4, <2>7, <2>10
<1> QED
  BY <1>3, <1>4 DEF FlushOne

\* A restart forgets the ring.
LEMMA RestartEffect ==
  ASSUME RingTypeOK, MessagingRestarts
  PROVE  /\ RingTypeOK' /\ published' = published /\ Kept' = <<>>
         /\ lost' = lost \cup KeptSamples
<1>1. /\ ring' = [i \in Indices |-> Empty] /\ head' = 0 /\ count' = 0
      /\ published' = published /\ lost' = lost \cup {Kept[k] : k \in 1..count}
  BY DEF MessagingRestarts
<1>2. ring' \in [Indices -> Samples \cup {Empty}]
  BY <1>1
<1>3. 0 \in Indices /\ 0 \in 0..Capacity /\ 0 \in 0..Slots
  BY MessagingAssumption DEF Indices
<1>4. /\ Contents(ring', 0, 0) \in Seq(Samples \cup {Empty})
      /\ Len(Contents(ring', 0, 0)) = 0
  BY <1>2, <1>3, ContentsElements
<1>5. Kept' = <<>>
  <2>1. Kept' = Contents(ring', 0, 0)
    BY <1>1, KeptIsContents, Zenon
  <2>2. Contents(ring', 0, 0) = <<>>
    BY <1>4, EmptySeq
  <2> QED
    BY <2>1, <2>2
<1>6. RingTypeOK'
  <2>1. <<>> \in Seq(Samples)
    BY EmptySeq
  <2>2. Kept' \in Seq(Samples)
    BY <1>5, <2>1, Zenon
  <2> QED
    BY <1>1, <1>2, <1>3, <2>2 DEF RingTypeOK, Samples
<1> QED
  BY <1>1, <1>5, <1>6 DEF KeptSamples

-----------------------------------------------------------------------------
(* The telemetry's part of a step *)

\* A frame of the secondary MCU brings the sample s.
FrameSample(s) ==
  /\ ReceiveFrame
  /\ s = Sample(Head(queue).id)
  /\ PublishTelemetry(s)

\* The bridge makes the sample s.
OwnMade(s) ==
  /\ made < MaxMade
  /\ made' = made + 1
  /\ UNCHANGED <<rx, mcuVars, boot, handled>>
  /\ s = Sample(made + 1)
  /\ PublishTelemetry(s)

NoSample ==
  /\ LinkNext
  /\ handled' = handled \/ (ReceiveFrame /\ Head(queue).kind # "telemetry")
  /\ UNCHANGED <<ringVars, published, lost>>

TelemetryNext ==
  \/ \E s \in Samples : FrameSample(s) \/ OwnMade(s)
  \/ FlushOne /\ UNCHANGED linkVars
  \/ LinkRestarts /\ MessagingRestarts
  \/ NoSample

LEMMA OwnMadeSteps ==
  ASSUME LinkInv, RuntimeSample \/ UartLine \/ VariableSample
  PROVE  \E s \in Samples : OwnMade(s)
<1>1. /\ made < MaxMade /\ made' = made + 1
      /\ UNCHANGED <<rx, mcuVars, boot, handled>>
      /\ PublishTelemetry(Sample(made + 1))
  BY DEF RuntimeSample, UartLine, VariableSample, OwnSample
<1>2. made + 1 \in 1..MaxMade /\ boot \in 0..MaxResets
  BY <1>1, LinkAssumption DEF LinkInv, LinkTypeOK
<1>3. Sample(made + 1) \in Samples
  BY <1>2 DEF Sample, Samples
<1> QED
  BY <1>1, <1>3 DEF OwnMade

LEMMA ExchangeSteps ==
  ASSUME LinkInv, Exchange
  PROVE  TelemetryNext
<1>1. CASE ReceiveFrame /\ Handle(Head(queue))
  <2>1. CASE Head(queue).kind = "telemetry" /\ PublishTelemetry(Sample(Head(queue).id))
    <3>1. LinkTypeOK /\ queue # <<>>
      BY <1>1 DEF LinkInv, ReceiveFrame
    <3>2. Head(queue).id \in 1..made /\ made \in 0..MaxMade /\ boot \in 0..MaxResets
      <4>1. Len(queue) \in Nat /\ Len(queue) >= 1 /\ Head(queue) = queue[1]
        BY <3>1, QueueElements
      <4>2. 1 \in 1..Len(queue)
        BY <4>1
      <4>3. queue[1].id \in 1..made
        BY <3>1, <4>2, QueueElements
      <4> QED
        BY <3>1, <4>1, <4>3 DEF LinkTypeOK
    <3>3. Head(queue).id \in 1..MaxMade
      BY <3>2, LinkAssumption
    <3>4. Sample(Head(queue).id) \in Samples
      BY <3>2, <3>3 DEF Sample, Samples
    <3> QED
      BY <1>1, <2>1, <3>4 DEF FrameSample, TelemetryNext
  <2>2. CASE Head(queue).kind # "telemetry" /\ UNCHANGED messagingVars
    BY <1>1, <2>2 DEF TelemetryNext, NoSample, LinkNext, messagingVars, ringVars
  <2>3. CASE Head(queue).kind = "status" /\ Reconnect
    BY <1>1, <2>3 DEF TelemetryNext, NoSample, LinkNext, Reconnect, ringVars
  <2> QED
    BY <1>1, <2>1, <2>2, <2>3 DEF Handle
<1>2. CASE (ReceiveIdle \/ ReceiveDamaged) /\ UNCHANGED messagingVars
  BY <1>2 DEF TelemetryNext, NoSample, LinkNext, messagingVars, ringVars, ReceiveIdle,
     ReceiveDamaged
<1> QED
  BY <1>1, <1>2 DEF Exchange

LEMMA TelemetrySteps ==
  ASSUME LinkInv, [BridgeNext]_bridgeVars
  PROVE  TelemetryNext
<1>1. CASE Exchange
  BY <1>1, ExchangeSteps
<1>2. CASE RuntimeSample \/ UartLine \/ VariableSample
  BY <1>2, OwnMadeSteps DEF TelemetryNext
<1>3. CASE ServiceStep
  BY <1>3
     DEF ServiceStep, Announce, StartFlush, FlushDone, TelemetryNext, NoSample, LinkNext,
         linkVars, ringVars
<1>4. CASE OwnAck
  BY <1>4 DEF OwnAck, Reconnect, TelemetryNext, NoSample, LinkNext, linkVars, ringVars
<1>5. CASE /\ Heartbeat \/ \E isUp \in BOOLEAN : Service(isUp)
           /\ UNCHANGED linkVars
  BY <1>5 DEF Heartbeat, Service, TelemetryNext, NoSample, LinkNext, linkVars, ringVars
<1>6. CASE Restart
  BY <1>6 DEF Restart, TelemetryNext
<1>7. CASE Environment
  BY <1>7
     DEF Environment, McuResets, McuMakes, LoseConnection, ClockSet, TelemetryNext,
         NoSample, LinkNext, linkVars, messagingVars, ringVars
<1>8. CASE UNCHANGED bridgeVars
  BY <1>8
     DEF bridgeVars, messagingVars, TelemetryNext, NoSample, LinkNext, linkVars, ringVars
<1> QED
  BY <1>1, <1>2, <1>3, <1>4, <1>5, <1>6, <1>7, <1>8 DEF BridgeNext, DeviceStep

LEMMA NoSampleEffect ==
  ASSUME RingTypeOK, NoSample
  PROVE  /\ RingTypeOK' /\ Kept' = Kept
         /\ UNCHANGED <<ring, head, count, published, lost>>
<1>1. Kept' = Kept /\ UNCHANGED <<ring, head, count, published, lost>>
  BY DEF NoSample, ringVars, Kept
<1> QED
  BY <1>1 DEF RingTypeOK, Samples

LEMMA RingTypeInit == BridgeInit => RingTypeOK
<1> SUFFICES ASSUME BridgeInit PROVE RingTypeOK
  OBVIOUS
<1>1. ring = [i \in Indices |-> Empty] /\ head = 0 /\ count = 0 /\ published = <<>>
  BY DEF BridgeInit, MessagingInit
<1>2. ring \in [Indices -> Samples \cup {Empty}] /\ head \in Indices /\ count \in 0..Capacity
  BY <1>1, MessagingAssumption DEF Indices
<1>3. <<>> \in Seq(Samples)
  BY EmptySeq
<1>4. Kept = <<>>
  <2>1. 0 \in 0..Slots /\ 0 \in Indices
    BY MessagingAssumption DEF Indices
  <2>2. /\ Contents(ring, 0, 0) \in Seq(Samples \cup {Empty})
        /\ Len(Contents(ring, 0, 0)) = 0
    BY <1>2, <2>1, ContentsElements
  <2>3. Contents(ring, 0, 0) = <<>>
    BY <2>2, EmptySeq
  <2> QED
    BY <1>1, <2>3, KeptIsContents, Zenon
<1> QED
  BY <1>1, <1>2, <1>3, <1>4 DEF RingTypeOK

LEMMA TelemetryKeepsRingType ==
  ASSUME RingTypeOK, TelemetryNext
  PROVE  RingTypeOK'
<1>1. CASE \E s \in Samples : FrameSample(s) \/ OwnMade(s)
  BY <1>1, PublishEffect DEF FrameSample, OwnMade
<1>2. CASE FlushOne
  BY <1>2, FlushEffect
<1>3. CASE MessagingRestarts
  BY <1>3, RestartEffect
<1>4. CASE NoSample
  BY <1>4, NoSampleEffect
<1> QED
  BY <1>1, <1>2, <1>3, <1>4 DEF TelemetryNext

\* The ring keeps its shape: no more samples than configured, each of them one that
\* was made, from the head on.
THEOREM RingTypeCorrect == BridgeSpec => []RingTypeOK
<1>1. BridgeInit => RingTypeOK
  BY RingTypeInit
<1>2. LinkInv /\ RingTypeOK /\ [BridgeNext]_bridgeVars => RingTypeOK'
  BY TelemetrySteps, TelemetryKeepsRingType
<1> QED
  BY <1>1, <1>2, BridgeKeepsLinkInv, PTL DEF BridgeSpec

-----------------------------------------------------------------------------
(* The ring implements the queue *)

\* Whatever the bridge does, its ring publishes, keeps and drops as a queue of
\* Capacity samples would, or does nothing to it.
THEOREM RingIsQueue == BridgeSpec => ImplementsTelemetryQueue
<1>1. BridgeInit => TelemetryQueued!Init
  <2> SUFFICES ASSUME BridgeInit PROVE Kept = <<>> /\ published = <<>>
    BY DEF TelemetryQueued!Init
  <2>1. RingTypeOK /\ count = 0 /\ published = <<>>
    BY RingTypeInit DEF BridgeInit, MessagingInit
  <2>2. Len(Kept) = 0 /\ Kept \in Seq(Samples)
    BY <2>1, KeptElements DEF RingTypeOK
  <2> QED
    BY <2>1, <2>2, EmptySeq
<1>2. LinkInv /\ RingTypeOK /\ [BridgeNext]_bridgeVars
        => [TelemetryQueued!Next]_<<Kept, published>>
  <2> SUFFICES ASSUME RingTypeOK, TelemetryNext
               PROVE  [TelemetryQueued!Next]_<<Kept, published>>
    BY TelemetrySteps
  <2>1. ASSUME NEW s \in Samples, PublishTelemetry(s)
        PROVE  [TelemetryQueued!Next]_<<Kept, published>>
    <3>1. CASE published' = Behind(published, s) /\ Kept' = Kept
      BY <3>1, Zenon DEF TelemetryQueued!Next, TelemetryQueued!PublishNow, Behind
    <3>2. CASE published' = published /\ Kept' = Kept
      BY <3>2
    <3>3. CASE /\ published' = published /\ Capacity > 0 /\ Len(Kept) # Capacity
               /\ Kept' = Behind(Kept, s)
      BY <3>3, Zenon DEF TelemetryQueued!Next, TelemetryQueued!Keep, Behind
    <3>4. CASE /\ published' = published /\ Capacity > 0 /\ Len(Kept) = Capacity
               /\ Kept' = Behind(Tail(Kept), s)
      BY <3>4, Zenon DEF TelemetryQueued!Next, TelemetryQueued!Keep, Behind
    <3> QED
      BY <2>1, <3>1, <3>2, <3>3, <3>4, PublishEffect
  <2>2. CASE FlushOne
    <3>1. CASE /\ Kept # <<>>
               /\ published' = Behind(published, Head(Kept)) /\ Kept' = Tail(Kept)
      BY <3>1, Zenon DEF TelemetryQueued!Next, TelemetryQueued!PublishOldest, Behind
    <3>2. CASE published' = published /\ Kept' = Kept
      BY <3>2
    <3> QED
      BY <2>2, <3>1, <3>2, FlushEffect
  <2>3. CASE MessagingRestarts
    BY <2>3, RestartEffect, Zenon DEF TelemetryQueued!Next, TelemetryQueued!Forget
  <2>4. CASE NoSample
    BY <2>4, NoSampleEffect
  <2> QED
    BY <2>1, <2>2, <2>3, <2>4 DEF TelemetryNext, FrameSample, OwnMade
<1> QED
  BY <1>1, <1>2, BridgeKeepsLinkInv, RingTypeCorrect, PTL
     DEF BridgeSpec, ImplementsTelemetryQueue, TelemetryQueued!Spec

-----------------------------------------------------------------------------
(* Where a sample can be: three places, and never two of them *)

Elements(q) == {q[k] : k \in 1..Len(q)}
Distinct(q) == \A j, k \in 1..Len(q) : j # k => q[j] # q[k]

Disjoint(p, q, l) ==
  /\ Distinct(p) /\ Distinct(q)
  /\ Elements(q) \cap Elements(p) = {}
  /\ l \cap (Elements(q) \cup Elements(p)) = {}

LEMMA BehindElements ==
  ASSUME NEW S, NEW q \in Seq(S), NEW s \in S
  PROVE  /\ Behind(q, s) \in Seq(S)
         /\ Elements(Behind(q, s)) = Elements(q) \cup {s}
         /\ Distinct(q) /\ s \notin Elements(q) => Distinct(Behind(q, s))
<1> DEFINE r == Append(q, s)
           n == Len(q)
<1>1. /\ r \in Seq(S) /\ n \in Nat /\ Len(r) = n + 1 /\ r[n + 1] = s
      /\ \A k \in 1..n : r[k] = q[k]
  OBVIOUS
<1> HIDE DEF r, n
<1>2. 1..(n + 1) = 1..n \cup {n + 1} /\ n + 1 \notin 1..n
  BY <1>1
<1>3. {r[k] : k \in 1..(n + 1)} = {q[k] : k \in 1..n} \cup {s}
  BY <1>1, <1>2
<1>4. Elements(r) = Elements(q) \cup {s}
  BY <1>1, <1>3 DEF Elements, n
<1>5. ASSUME Distinct(q), s \notin Elements(q)
      PROVE  Distinct(r)
  <2>1. /\ \A k \in 1..n : q[k] # s
        /\ \A j, k \in 1..n : j # k => q[j] # q[k]
    BY <1>5 DEF Elements, Distinct, n
  <2>2. \A j, k \in 1..(n + 1) : j # k => r[j] # r[k]
    BY <1>1, <1>2, <2>1
  <2> QED
    BY <1>1, <2>2 DEF Distinct
<1> QED
  BY <1>1, <1>4, <1>5 DEF Behind, r

LEMMA TailElements ==
  ASSUME NEW S, NEW q \in Seq(S), q # <<>>
  PROVE  /\ Head(q) \in S /\ Tail(q) \in Seq(S)
         /\ Elements(q) = Elements(Tail(q)) \cup {Head(q)}
         /\ Distinct(q) => Distinct(Tail(q)) /\ Head(q) \notin Elements(Tail(q))
<1> DEFINE r == Tail(q)
           n == Len(Tail(q))
<1>1. /\ Head(q) \in S /\ r \in Seq(S) /\ n \in Nat /\ Len(q) = n + 1 /\ Head(q) = q[1]
      /\ \A k \in 1..n : r[k] = q[k + 1]
  BY HeadTailProperties, EmptySeq
<1> HIDE DEF r, n
<1>2. /\ \A k \in 1..n : k + 1 \in 1..(n + 1) /\ k + 1 # 1
      /\ \A k \in 1..(n + 1) : k = 1 \/ (k - 1 \in 1..n /\ (k - 1) + 1 = k)
      /\ 1 \in 1..(n + 1)
  BY <1>1
<1>3. {q[k] : k \in 1..(n + 1)} = {r[k] : k \in 1..n} \cup {q[1]}
  <2>1. ASSUME NEW k \in 1..(n + 1)
        PROVE  q[k] \in {r[j] : j \in 1..n} \cup {q[1]}
    <3>1. CASE k = 1
      BY <3>1
    <3>2. CASE k - 1 \in 1..n /\ (k - 1) + 1 = k
      <4>1. r[k - 1] = q[k]
        BY <1>1, <3>2
      <4> QED
        BY <3>2, <4>1
    <3> QED
      BY <1>2, <3>1, <3>2
  <2>2. \A k \in 1..n : r[k] \in {q[j] : j \in 1..(n + 1)}
    BY <1>1, <1>2
  <2> QED
    BY <1>2, <2>1, <2>2, SMTT(30)
<1>4. Elements(q) = Elements(r) \cup {Head(q)}
  BY <1>1, <1>3 DEF Elements, n, r
<1>5. ASSUME Distinct(q)
      PROVE  Distinct(r) /\ Head(q) \notin Elements(r)
  <2>1. \A j, k \in 1..(n + 1) : j # k => q[j] # q[k]
    BY <1>1, <1>5 DEF Distinct
  <2>2. \A j, k \in 1..n : j # k => r[j] # r[k]
    <3>1. \A j, k \in 1..n : j # k => j + 1 # k + 1
      BY <1>1
    <3> QED
      BY <1>1, <1>2, <2>1, <3>1
  <2>3. \A k \in 1..n : r[k] # q[1]
    BY <1>1, <1>2, <2>1
  <2> QED
    BY <1>1, <2>2, <2>3 DEF Distinct, Elements, n, r
<1> QED
  BY <1>1, <1>4, <1>5 DEF r

LEMMA EmptyElements == Elements(<<>>) = {} /\ Distinct(<<>>)
  BY EmptySeq DEF Elements, Distinct

\* The ways the publishing of s can go, ...
Placed(p, q, l, s, pp, qq, ll) ==
  \/ pp = Behind(p, s) /\ qq = q /\ ll = l
  \/ pp = p /\ qq = q /\ ll = l \cup {s}
  \/ pp = p /\ qq = Behind(q, s) /\ ll = l
  \/ /\ q # <<>>
     /\ pp = p /\ qq = Behind(Tail(q), s) /\ ll = l \cup {Head(q)}

\* ... and those in which samples leave the ring.
Moved(p, q, l, pp, qq, ll) ==
  \/ q # <<>> /\ pp = Behind(p, Head(q)) /\ qq = Tail(q) /\ ll = l
  \/ pp = p /\ qq = <<>> /\ ll = l \cup Elements(q)

\* A sample that was nowhere is put in one of the places; ...
LEMMA NewSampleDisjoint ==
  ASSUME NEW S, NEW p \in Seq(S), NEW q \in Seq(S), NEW l, Disjoint(p, q, l),
         NEW s \in S, s \notin Elements(p) \cup Elements(q) \cup l,
         NEW pp, NEW qq, NEW ll, Placed(p, q, l, s, pp, qq, ll)
  PROVE  /\ Disjoint(pp, qq, ll)
         /\ Elements(pp) \cup Elements(qq) \cup ll
              = Elements(p) \cup Elements(q) \cup l \cup {s}
<1>1. /\ Distinct(p) /\ Distinct(q)
      /\ Elements(q) \cap Elements(p) = {}
      /\ l \cap (Elements(q) \cup Elements(p)) = {}
  BY DEF Disjoint
<1>2. CASE pp = Behind(p, s) /\ qq = q /\ ll = l
  <2>1. Distinct(pp) /\ Elements(pp) = Elements(p) \cup {s}
    BY <1>1, <1>2, BehindElements
  <2> QED
    BY <1>1, <1>2, <2>1 DEF Disjoint
<1>3. CASE pp = p /\ qq = q /\ ll = l \cup {s}
  BY <1>1, <1>3 DEF Disjoint
<1>4. CASE pp = p /\ qq = Behind(q, s) /\ ll = l
  <2>1. Distinct(qq) /\ Elements(qq) = Elements(q) \cup {s}
    BY <1>1, <1>4, BehindElements
  <2> QED
    BY <1>1, <1>4, <2>1 DEF Disjoint
<1>5. CASE /\ q # <<>>
           /\ pp = p /\ qq = Behind(Tail(q), s) /\ ll = l \cup {Head(q)}
  <2>1. /\ Tail(q) \in Seq(S) /\ Elements(q) = Elements(Tail(q)) \cup {Head(q)}
        /\ Distinct(Tail(q)) /\ Head(q) \notin Elements(Tail(q))
    BY <1>1, <1>5, TailElements
  <2>2. s \notin Elements(Tail(q))
    BY <2>1
  <2>3. Distinct(qq) /\ Elements(qq) = Elements(Tail(q)) \cup {s}
    <3>1. \A r \in Seq(S) : Distinct(r) /\ s \notin Elements(r) =>
            Distinct(Behind(r, s)) /\ Elements(Behind(r, s)) = Elements(r) \cup {s}
      BY BehindElements
    <3> QED
      BY <1>5, <2>1, <2>2, <3>1, Zenon
  <2> QED
    BY <1>1, <1>5, <2>1, <2>3 DEF Disjoint
<1> QED
  BY <1>2, <1>3, <1>4, <1>5 DEF Placed

\* ... and the samples in the ring move to another place.
LEMMA MovedDisjoint ==
  ASSUME NEW S, NEW p \in Seq(S), NEW q \in Seq(S), NEW l, Disjoint(p, q, l),
         NEW pp, NEW qq, NEW ll, Moved(p, q, l, pp, qq, ll)
  PROVE  /\ Disjoint(pp, qq, ll)
         /\ Elements(pp) \cup Elements(qq) \cup ll = Elements(p) \cup Elements(q) \cup l
<1>1. /\ Distinct(p) /\ Distinct(q)
      /\ Elements(q) \cap Elements(p) = {}
      /\ l \cap (Elements(q) \cup Elements(p)) = {}
  BY DEF Disjoint
<1>2. CASE q # <<>> /\ pp = Behind(p, Head(q)) /\ qq = Tail(q) /\ ll = l
  <2>1. /\ Head(q) \in S /\ Elements(q) = Elements(Tail(q)) \cup {Head(q)}
        /\ Distinct(Tail(q)) /\ Head(q) \notin Elements(Tail(q))
    BY <1>1, <1>2, TailElements
  <2>2. Head(q) \notin Elements(p)
    BY <1>1, <2>1
  <2>3. Distinct(pp) /\ Elements(pp) = Elements(p) \cup {Head(q)}
    <3>1. \A h \in S : h \notin Elements(p) =>
            Distinct(Behind(p, h)) /\ Elements(Behind(p, h)) = Elements(p) \cup {h}
      BY <1>1, BehindElements
    <3> QED
      BY <1>2, <2>1, <2>2, <3>1, Zenon
  <2> QED
    BY <1>1, <1>2, <2>1, <2>3 DEF Disjoint
<1>3. CASE pp = p /\ qq = <<>> /\ ll = l \cup Elements(q)
  BY <1>1, <1>3, EmptyElements DEF Disjoint
<1> QED
  BY <1>2, <1>3 DEF Moved

-----------------------------------------------------------------------------
(* Every sample has its place *)

Seen == Elements(published) \cup Elements(Kept) \cup lost

\* A sample that is somewhere was made; and if it is one of this run, and in a
\* frame that still waits to be acknowledged, this run has handled the frame.
SeenWasMade ==
  \A s \in Seen :
    /\ s.id \in 1..made /\ s.boot \in 0..boot
    /\ s.boot = boot =>
         \A f \in 1..Len(queue) :
           queue[f].id = s.id =>
             \E h \in 1..Len(handled) : handled[h].id = s.id /\ handled[h].boot = boot

HandledIsSeen ==
  \A h \in 1..Len(handled) :
    handled[h].kind = "telemetry" =>
      [id |-> handled[h].id, boot |-> handled[h].boot] \in Seen

AccountInv ==
  /\ Disjoint(published, Kept, lost)
  /\ SeenWasMade
  /\ HandledIsSeen

LEMMA AccountInit == BridgeInit => AccountInv
<1> SUFFICES ASSUME BridgeInit PROVE AccountInv
  OBVIOUS
<1>1. RingTypeOK /\ published = <<>> /\ lost = {} /\ handled = <<>> /\ Len(handled) = 0
  BY RingTypeInit DEF BridgeInit, LinkInit, MessagingInit
<1>2. Kept = <<>>
  <2>1. Len(Kept) = 0 /\ Kept \in Seq(Samples)
    BY <1>1, KeptElements DEF RingTypeOK, BridgeInit, MessagingInit
  <2> QED
    BY <2>1, EmptySeq
<1>3. Seen = {} /\ Disjoint(published, Kept, lost)
  BY <1>1, <1>2, EmptyElements DEF Seen, Disjoint
<1> QED
  BY <1>1, <1>3 DEF AccountInv, SeenWasMade, HandledIsSeen

\* What the link's part of a step does to the histories: they grow, and only
\* frames of that moment are new in the queue.
LEMMA LinkGrows ==
  ASSUME LinkInv, LinkNext
  PROVE  /\ made \in Nat /\ boot \in Nat /\ Len(handled) \in Nat /\ Len(handled') \in Nat
         /\ made' \in Nat /\ made <= made'
         /\ boot' = boot \/ boot' = boot + 1
         /\ Len(handled) <= Len(handled')
         /\ \A h \in 1..Len(handled) : handled'[h] = handled[h]
         /\ \A f \in 1..Len(queue') :
              \/ queue'[f].id = made + 1
              \/ \E g \in 1..Len(queue) : queue'[f].id = queue[g].id
<1>1. /\ LinkTypeOK /\ made \in Nat /\ boot \in Nat /\ Len(handled) \in Nat
      /\ Len(queue) \in Nat
      /\ queue \in Seq(Frames)
      /\ handled \in Seq([id : 1..made, kind : Kinds, boot : 0..boot])
  BY QueueElements DEF LinkInv, LinkTypeOK
<1>2. ASSUME McuSide
      PROVE  \A f \in 1..Len(queue') :
               \E g \in 1..Len(queue) : queue'[f].id = queue[g].id
  <2>1. CASE queue' = queue
    BY <2>1
  <2>2. CASE Len(queue') = Len(queue) - 1 /\ \A k \in 1..Len(queue') : queue'[k] = queue[k + 1]
    <3>1. \A f \in 1..Len(queue') : f + 1 \in 1..Len(queue)
      BY <1>1, <2>2
    <3> QED
      BY <2>2, <3>1
  <2> QED
    BY <1>1, <1>2, <2>1, <2>2, McuSideEffect
<1>3. CASE ReceiveFrame
  <2>1. /\ McuSide /\ UNCHANGED <<made, boot>>
        /\ handled' = Append(handled, [id |-> Head(queue).id,
                                       kind |-> Head(queue).kind, boot |-> boot])
    BY <1>3 DEF ReceiveFrame
  <2>2. /\ Len(handled') = Len(handled) + 1
        /\ \A h \in 1..Len(handled) : handled'[h] = handled[h]
    BY <1>1, <2>1
  <2> QED
    BY <1>1, <1>2, <2>1, <2>2
<1>4. CASE ReceiveIdle \/ ReceiveDamaged
  BY <1>1, <1>2, <1>4, SMTT(30) DEF ReceiveIdle, ReceiveDamaged
<1>5. CASE \E kind \in Kinds : McuMakes(kind)
  <2>1. PICK kind \in Kinds : McuMakes(kind)
    BY <1>5
  <2>2. /\ made' = made + 1 /\ UNCHANGED <<boot, handled>>
        /\ queue' = Append(queue, [id |-> made + 1, kind |-> kind, first |-> fresh])
    BY <2>1 DEF McuMakes
  <2>3. /\ Len(queue') = Len(queue) + 1
        /\ \A f \in 1..Len(queue) : queue'[f] = queue[f]
        /\ queue'[Len(queue) + 1].id = made + 1
    BY <1>1, <2>2
  <2>4. \A f \in 1..Len(queue') :
          \/ queue'[f].id = made + 1
          \/ \E g \in 1..Len(queue) : queue'[f].id = queue[g].id
    <3>1. \A f \in 1..Len(queue') : f \in 1..Len(queue) \/ f = Len(queue) + 1
      BY <1>1, <2>3
    <3> QED
      BY <2>3, <3>1
  <2>5. made' = made + 1 /\ boot' = boot /\ handled' = handled
    BY <2>2
  <2> QED
    BY <1>1, <2>4, <2>5
<1>6. CASE McuResets
  <2>1. Len(queue') = 0 /\ UNCHANGED <<made, boot, handled>>
    BY <1>6 DEF McuResets
  <2> QED
    BY <1>1, <2>1
<1>7. CASE LinkRestarts
  BY <1>1, <1>7 DEF LinkRestarts, mcuVars
<1>8. CASE made' = made + 1 /\ UNCHANGED <<rx, mcuVars, boot, handled>>
  BY <1>1, <1>8 DEF mcuVars
<1>9. CASE UNCHANGED linkVars
  BY <1>1, <1>9 DEF linkVars, mcuVars
<1> QED
  BY <1>3, <1>4, <1>5, <1>6, <1>7, <1>8, <1>9 DEF LinkNext

\* What was seen stays as it should be.
LEMMA SeenStaysMade ==
  ASSUME LinkInv, LinkNext, SeenWasMade, NEW s \in Seen
  PROVE  /\ s.id \in 1..made' /\ s.boot \in 0..boot'
         /\ s.boot = boot' =>
              \A f \in 1..Len(queue') :
                queue'[f].id = s.id =>
                  \E h \in 1..Len(handled') :
                    handled'[h].id = s.id /\ handled'[h].boot = boot'
<1>1. /\ s.id \in 1..made /\ s.boot \in 0..boot
      /\ s.boot = boot =>
           \A f \in 1..Len(queue) :
             queue[f].id = s.id =>
               \E h \in 1..Len(handled) : handled[h].id = s.id /\ handled[h].boot = boot
  BY DEF SeenWasMade
<1>2. /\ made \in Nat /\ made' \in Nat /\ boot \in Nat /\ made <= made'
      /\ boot' = boot \/ boot' = boot + 1
  BY LinkGrows
<1>3. s.id \in 1..made' /\ s.boot \in 0..boot' /\ s.id # made + 1
      /\ (s.boot = boot' => boot' = boot)
  BY <1>1, <1>2
<1>4. ASSUME s.boot = boot', NEW f \in 1..Len(queue'), queue'[f].id = s.id
      PROVE  \E h \in 1..Len(handled') :
               handled'[h].id = s.id /\ handled'[h].boot = boot'
  <2>1. PICK g \in 1..Len(queue) : queue'[f].id = queue[g].id
    BY <1>3, <1>4, LinkGrows
  <2>2. PICK h \in 1..Len(handled) : handled[h].id = s.id /\ handled[h].boot = boot
    BY <1>1, <1>3, <1>4, <2>1
  <2>3. h \in 1..Len(handled') /\ handled'[h] = handled[h]
    BY LinkGrows
  <2> QED
    BY <1>3, <1>4, <2>2, <2>3
<1> QED
  BY <1>3, <1>4

\* A sample that is made, or that a frame brings for the first time in this run,
\* is not yet anywhere.
LEMMA NewSampleIsUnseen ==
  ASSUME LinkInv, SeenWasMade, NEW s \in Samples, FrameSample(s) \/ OwnMade(s)
  PROVE  s \notin Seen
<1>1. LinkTypeOK /\ made \in Nat /\ Len(queue) \in Nat
  BY QueueElements DEF LinkInv
<1>2. CASE OwnMade(s)
  <2>1. s.id = made + 1
    BY <1>2 DEF OwnMade, Sample
  <2> QED
    BY <1>1, <2>1 DEF SeenWasMade
<1>3. CASE FrameSample(s)
  <2>1. queue # <<>> /\ ~Duplicate(number) /\ s = Sample(Head(queue).id)
    BY <1>3 DEF FrameSample, ReceiveFrame
  <2>2. 1 \in 1..Len(queue) /\ Head(queue) = queue[1]
    BY <1>1, <2>1, QueueElements
  <2>3. s.id = queue[1].id /\ s.boot = boot
    BY <2>1, <2>2 DEF Sample
  <2>4. \A h \in 1..Len(handled) : ~(handled[h].id = queue[1].id /\ handled[h].boot = boot)
    BY <2>1 DEF LinkInv, HandledIsDuplicate
  <2> QED
    BY <2>2, <2>3, <2>4 DEF SeenWasMade
<1> QED
  BY <1>2, <1>3

\* A new sample gets one place, the others keep or change theirs.
LEMMA SeenStep ==
  ASSUME LinkInv, RingTypeOK, AccountInv, TelemetryNext
  PROVE  /\ Disjoint(published, Kept, lost)'
         /\ \/ \E s \in Samples : (FrameSample(s) \/ OwnMade(s)) /\ Seen' = Seen \cup {s}
            \/ (UNCHANGED linkVars \/ LinkRestarts \/ NoSample) /\ Seen' = Seen
<1>1. /\ published \in Seq(Samples) /\ Kept \in Seq(Samples)
      /\ Disjoint(published, Kept, lost) /\ SeenWasMade
  BY DEF RingTypeOK, AccountInv
<1>2. ASSUME NEW s \in Samples, FrameSample(s) \/ OwnMade(s)
      PROVE  Disjoint(published', Kept', lost') /\ Seen' = Seen \cup {s}
  <2>1. s \notin Elements(published) \cup Elements(Kept) \cup lost
    BY <1>1, <1>2, NewSampleIsUnseen DEF Seen
  <2>2. PublishTelemetry(s)
    BY <1>2 DEF FrameSample, OwnMade
  <2>3. Placed(published, Kept, lost, s, published', Kept', lost')
    BY <2>2, PublishEffect DEF Placed
  <2>4. /\ Disjoint(published', Kept', lost')
        /\ Elements(published') \cup Elements(Kept') \cup lost'
             = Elements(published) \cup Elements(Kept) \cup lost \cup {s}
    BY <1>1, <2>1, <2>3, NewSampleDisjoint
  <2> QED
    BY <2>4 DEF Seen, Elements
<1>3. ASSUME Moved(published, Kept, lost, published', Kept', lost')
      PROVE  Disjoint(published', Kept', lost') /\ Seen' = Seen
  <2>1. /\ Disjoint(published', Kept', lost')
        /\ Elements(published') \cup Elements(Kept') \cup lost'
             = Elements(published) \cup Elements(Kept) \cup lost
    BY <1>1, <1>3, MovedDisjoint
  <2> QED
    BY <2>1 DEF Seen, Elements
<1>4. ASSUME published' = published, Kept' = Kept, lost' = lost
      PROVE  Disjoint(published', Kept', lost') /\ Seen' = Seen
  BY <1>1, <1>4 DEF Seen, Elements, Disjoint, Distinct
<1>5. CASE FlushOne /\ UNCHANGED linkVars
  <2>1. \/ Moved(published, Kept, lost, published', Kept', lost')
        \/ published' = published /\ Kept' = Kept /\ lost' = lost
    BY <1>5, FlushEffect DEF Moved
  <2> QED
    BY <1>3, <1>4, <1>5, <2>1 DEF Disjoint, Distinct, Elements
<1>6. CASE LinkRestarts /\ MessagingRestarts
  <2>1. KeptSamples = Elements(Kept)
    BY KeptElements DEF KeptSamples, Elements
  <2>2. Moved(published, Kept, lost, published', Kept', lost')
    BY <1>6, <2>1, RestartEffect DEF Moved
  <2> QED
    BY <1>3, <1>6, <2>2 DEF Disjoint, Distinct, Elements
<1>7. CASE NoSample
  <2>1. published' = published /\ Kept' = Kept /\ lost' = lost
    BY <1>7, NoSampleEffect
  <2> QED
    BY <1>4, <1>7, <2>1 DEF Disjoint, Distinct, Elements
<1> QED
  BY <1>2, <1>5, <1>6, <1>7 DEF TelemetryNext, Disjoint, Distinct, Elements

\* The frames handled are seen, also the one of this step.
LEMMA HandledStaysSeen ==
  ASSUME LinkInv, HandledIsSeen, Seen \subseteq Seen',
         \/ handled' = handled
         \/ ReceiveFrame /\ Head(queue).kind # "telemetry"
         \/ ReceiveFrame /\ Sample(Head(queue).id) \in Seen'
  PROVE  HandledIsSeen'
<1>1. Len(handled) \in Nat /\ handled \in Seq([id : 1..made, kind : Kinds, boot : 0..boot])
  BY QueueElements DEF LinkInv, LinkTypeOK
<1>2. CASE handled' = handled
  BY <1>2 DEF HandledIsSeen
<1>3. CASE /\ ReceiveFrame
           /\ Head(queue).kind # "telemetry" \/ Sample(Head(queue).id) \in Seen'
  <2> DEFINE frame == [id |-> Head(queue).id, kind |-> Head(queue).kind, boot |-> boot]
  <2>1. handled' = Append(handled, frame)
    BY <1>3 DEF ReceiveFrame
  <2>2. /\ Len(handled') = Len(handled) + 1
        /\ \A h \in 1..Len(handled) : handled'[h] = handled[h]
        /\ handled'[Len(handled) + 1] = frame
    BY <1>1, <2>1
  <2>3. frame.kind = "telemetry" => [id |-> frame.id, boot |-> frame.boot] \in Seen'
    BY <1>3 DEF Sample
  <2>4. \A h \in 1..Len(handled') : h \in 1..Len(handled) \/ h = Len(handled) + 1
    BY <1>1, <2>2
  <2> HIDE DEF frame
  <2> QED
    BY <2>2, <2>3, <2>4 DEF HandledIsSeen
<1> QED
  BY <1>2, <1>3

LEMMA TelemetryKeepsAccount ==
  ASSUME LinkInv, RingTypeOK, AccountInv, LinkNext, TelemetryNext
  PROVE  AccountInv'
<1>1. SeenWasMade /\ HandledIsSeen
  BY DEF AccountInv
<1>2. Disjoint(published, Kept, lost)'
  BY SeenStep
<1>3. CASE \E s \in Samples : (FrameSample(s) \/ OwnMade(s)) /\ Seen' = Seen \cup {s}
  <2>1. PICK s \in Samples : (FrameSample(s) \/ OwnMade(s)) /\ Seen' = Seen \cup {s}
    BY <1>3
  <2>2. CASE OwnMade(s)
    <3>1. /\ made' = made + 1 /\ boot' = boot /\ queue' = queue /\ handled' = handled
          /\ s = [id |-> made + 1, boot |-> boot]
      BY <2>2 DEF OwnMade, Sample, mcuVars
    <3>2. LinkTypeOK /\ made \in Nat /\ boot \in Nat
          /\ \A f \in 1..Len(queue) : queue[f].id \in 1..made
      BY QueueElements DEF LinkInv
    <3>3. /\ s.id \in 1..made' /\ s.boot \in 0..boot'
          /\ \A f \in 1..Len(queue') : queue'[f].id # s.id
      BY <3>1, <3>2
    <3>4. SeenWasMade'
      BY <1>1, <2>1, <3>3, SeenStaysMade DEF SeenWasMade
    <3>5. HandledIsSeen'
      BY <1>1, <2>1, <3>1, HandledStaysSeen
    <3> QED
      BY <1>2, <3>4, <3>5 DEF AccountInv
  <2>3. CASE FrameSample(s)
    <3>1. /\ queue # <<>> /\ ReceiveFrame /\ boot' = boot /\ made' = made
          /\ handled' = Append(handled, [id |-> Head(queue).id,
                                         kind |-> Head(queue).kind, boot |-> boot])
          /\ s = Sample(Head(queue).id)
      BY <2>3 DEF FrameSample, ReceiveFrame
    <3>2. /\ LinkTypeOK /\ made \in Nat /\ boot \in Nat /\ Len(handled) \in Nat
          /\ Len(queue) \in Nat
      BY QueueElements DEF LinkInv
    <3>3. Head(queue).id \in 1..made
      <4>1. 1 \in 1..Len(queue) /\ Head(queue) = queue[1]
        BY <3>1, <3>2, QueueElements
      <4>2. queue[1].id \in 1..made
        BY <3>2, <4>1, QueueElements
      <4> QED
        BY <4>1, <4>2
    <3>4. s.id = Head(queue).id /\ s.boot = boot
      BY <3>1 DEF Sample
    <3>5. /\ Len(handled) + 1 \in 1..Len(handled')
          /\ handled'[Len(handled) + 1].id = s.id
          /\ handled'[Len(handled) + 1].boot = boot'
      <4>1. handled \in Seq([id : 1..made, kind : Kinds, boot : 0..boot])
        BY <3>2 DEF LinkTypeOK
      <4> QED
        BY <3>1, <3>2, <3>4, <4>1
    <3>6. s.id \in 1..made' /\ s.boot \in 0..boot'
      <4>1. boot \in 0..boot
        BY <3>2
      <4> QED
        BY <3>1, <3>3, <3>4, <4>1, Zenon
    <3>7. SeenWasMade'
      <4> SUFFICES ASSUME NEW x \in Seen'
                   PROVE  /\ x.id \in 1..made' /\ x.boot \in 0..boot'
                          /\ x.boot = boot' =>
                               \A f \in 1..Len(queue') :
                                 queue'[f].id = x.id =>
                                   \E h \in 1..Len(handled') :
                                     handled'[h].id = x.id /\ handled'[h].boot = boot'
        BY DEF SeenWasMade
      <4>1. CASE x \in Seen
        BY <1>1, <4>1, SeenStaysMade
      <4>2. CASE x = s
        BY <3>5, <3>6, <4>2, Zenon
      <4> QED
        BY <2>1, <4>1, <4>2
    <3>8. HandledIsSeen'
      BY <1>1, <2>1, <3>1, HandledStaysSeen
    <3> QED
      BY <1>2, <3>7, <3>8 DEF AccountInv
  <2> QED
    BY <2>1, <2>2, <2>3
<1>4. CASE (UNCHANGED linkVars \/ LinkRestarts \/ NoSample) /\ Seen' = Seen
  <2>1. SeenWasMade'
    BY <1>1, <1>4, SeenStaysMade DEF SeenWasMade
  <2>2. handled' = handled \/ (ReceiveFrame /\ Head(queue).kind # "telemetry")
    BY <1>4 DEF linkVars, LinkRestarts, NoSample
  <2>3. HandledIsSeen'
    BY <1>1, <1>4, <2>2, HandledStaysSeen
  <2> QED
    BY <1>2, <2>1, <2>3 DEF AccountInv
<1> QED
  BY <1>3, <1>4, SeenStep

LEMMA BridgeKeepsAccount == BridgeSpec => []AccountInv
<1>1. BridgeInit => AccountInv
  BY AccountInit
<1>2. LinkInv /\ RingTypeOK /\ AccountInv /\ [BridgeNext]_bridgeVars => AccountInv'
  BY LinkSteps, TelemetrySteps, TelemetryKeepsAccount
<1> QED
  BY <1>1, <1>2, BridgeKeepsLinkInv, RingTypeCorrect, PTL DEF BridgeSpec

\* No sample is published twice in a run of the bridge, and telemetry that was
\* handled is published, kept or given up, whatever happens on either side.
THEOREM SamplesAreAccounted == BridgeSpec => []SamplesAccounted
<1>1. RingTypeOK /\ AccountInv => SamplesAccounted
  <2> SUFFICES ASSUME RingTypeOK, AccountInv PROVE SamplesAccounted
    OBVIOUS
  <2>1. KeptSamples = Elements(Kept) /\ PublishedSamples = Elements(published)
        /\ Len(Kept) = count
    BY KeptElements DEF KeptSamples, PublishedSamples, Elements
  <2>2. /\ \A j, k \in 1..Len(published) : j # k => published[j] # published[k]
        /\ \A j, k \in 1..count : j # k => Kept[j] # Kept[k]
    BY <2>1 DEF AccountInv, Disjoint, Distinct
  <2>3. /\ KeptSamples \cap PublishedSamples = {}
        /\ lost \cap (KeptSamples \cup PublishedSamples) = {}
    BY <2>1 DEF AccountInv, Disjoint
  <2>4. \A k \in 1..Len(handled) :
          handled[k].kind = "telemetry" =>
            [id |-> handled[k].id, boot |-> handled[k].boot]
              \in PublishedSamples \cup KeptSamples \cup lost
    BY <2>1 DEF AccountInv, HandledIsSeen, Seen
  <2> QED
    BY <2>2, <2>3, <2>4 DEF SamplesAccounted
<1> QED
  BY <1>1, BridgeKeepsAccount, RingTypeCorrect, PTL

-----------------------------------------------------------------------------
(* What the broker has been told, and what is flushed *)

\* In the main loop samples are left in the ring only while the connection is new
\* to serviceConnection, or after a publish over it failed.
KeptUntilNextConnection ==
  stage = "loop" /\ connected /\ count > 0 => justConnected \/ failed

ConnectionInv ==
  /\ connected \in BOOLEAN /\ failed \in BOOLEAN /\ justConnected \in BOOLEAN
  /\ will => timeValid
  /\ OnlineAnnounced
  /\ KeptUntilNextConnection

LEMMA ConnectionInvInit == BridgeInit => ConnectionInv
  BY DEF BridgeInit, MessagingInit, ConnectionInv, OnlineAnnounced, KeptUntilNextConnection

\* publishTelemetry, the vehicle of most failures.
LEMMA PublishKeepsConnection ==
  ASSUME ConnectionInv, NEW s, PublishTelemetry(s)
  PROVE  ConnectionInv'
<1>1. UNCHANGED <<timeValid, will, connected, justConnected, stage, availability>>
  BY DEF PublishTelemetry, connVars
<1>2. /\ failed' = failed \/ (connected /\ failed' = TRUE)
      /\ connected => failed' = TRUE \/ count' = count
  BY DEF PublishTelemetry, PublishFails, PublishWorks, ringVars
<1>3. CASE failed' = TRUE
  BY <1>1, <1>3 DEF ConnectionInv, OnlineAnnounced, KeptUntilNextConnection
<1>4. CASE failed' = failed /\ ~connected
  BY <1>1, <1>4 DEF ConnectionInv, OnlineAnnounced, KeptUntilNextConnection
<1>5. CASE failed' = failed /\ count' = count
  BY <1>1, <1>5 DEF ConnectionInv, OnlineAnnounced, KeptUntilNextConnection
<1> QED
  BY <1>2, <1>3, <1>4, <1>5 DEF ConnectionInv

LEMMA ReconnectKeepsConnection ==
  ASSUME ConnectionInv, Reconnect
  PROVE  ConnectionInv'
  BY DEF Reconnect, ConnectionInv, OnlineAnnounced, KeptUntilNextConnection

LEMMA ServiceKeepsConnection ==
  ASSUME ConnectionInv, NEW isUp \in BOOLEAN, Service(isUp)
  PROVE  ConnectionInv'
<1>1. /\ timeValid /\ timeValid' = timeValid /\ will' = TRUE /\ connected' = isUp
      /\ justConnected' = FALSE /\ availability' = availability /\ count' = count
      /\ failed' = (failed /\ connected = isUp)
      /\ stage' = IF justConnected \/ connected # isUp THEN "announce" ELSE "loop"
      /\ stage = "loop"
  BY DEF Service, ringVars
<1>2. CASE justConnected \/ connected # isUp
  <2>1. stage' = "announce" /\ failed' \in BOOLEAN
    BY <1>1, <1>2
  <2> QED
    BY <1>1, <2>1 DEF ConnectionInv, OnlineAnnounced, KeptUntilNextConnection
<1>3. CASE ~justConnected /\ connected = isUp
  <2>1. stage' = stage /\ failed' = failed
    BY <1>1, <1>3 DEF ConnectionInv
  <2> QED
    BY <1>1, <1>3, <2>1 DEF ConnectionInv, OnlineAnnounced, KeptUntilNextConnection
<1> QED
  BY <1>2, <1>3

LEMMA ServiceStepKeepsConnection ==
  ASSUME ConnectionInv, RingTypeOK, ServiceStep \/ Heartbeat
  PROVE  ConnectionInv'
<1>1. CASE Announce
  BY <1>1 DEF Announce, PublishOnline, PublishWorks, PublishFails, ringVars,
     ConnectionInv, OnlineAnnounced, KeptUntilNextConnection
<1>2. CASE StartFlush
  BY <1>2 DEF StartFlush, ringVars, faultVars, ConnectionInv, OnlineAnnounced,
     KeptUntilNextConnection
<1>3. CASE FlushOne
  <2>1. /\ UNCHANGED <<timeValid, will, connected, justConnected, availability>>
        /\ \/ stage' = "flush" /\ failed' = failed
           \/ failed' = TRUE
        /\ stage = "flush"
    BY <1>3 DEF FlushOne, PublishWorks, PublishFails
  <2> QED
    BY <2>1 DEF ConnectionInv, OnlineAnnounced, KeptUntilNextConnection
<1>4. CASE FlushDone
  <2>1. /\ timeValid' = timeValid /\ will' = will /\ connected' = connected
        /\ justConnected' = justConnected /\ availability' = availability
        /\ failed' = failed /\ count' = count
        /\ ~connected \/ count = 0
        /\ stage = "flush"
    BY <1>4 DEF FlushDone, ringVars, faultVars
  <2>2. ~connected' \/ ~(count' > 0)
    BY <2>1
  <2>3. KeptUntilNextConnection'
    BY <2>2 DEF KeptUntilNextConnection
  <2>4. OnlineAnnounced'
    BY <2>1, Zenon DEF ConnectionInv, OnlineAnnounced
  <2>5. /\ connected' \in BOOLEAN /\ failed' \in BOOLEAN /\ justConnected' \in BOOLEAN
        /\ will' => timeValid'
    <3>1. /\ connected \in BOOLEAN /\ failed \in BOOLEAN /\ justConnected \in BOOLEAN
          /\ will => timeValid
      BY DEF ConnectionInv
    <3> QED
      BY <2>1, <3>1, Zenon
  <2> QED
    BY <2>3, <2>4, <2>5 DEF ConnectionInv
<1>5. CASE Heartbeat
  <2>1. /\ timeValid' = timeValid /\ will' = will /\ connected' = connected
        /\ justConnected' = justConnected /\ stage' = stage /\ count' = count
        /\ \/ availability' = "online" /\ failed' = failed
           \/ availability' = availability /\ failed' = failed
           \/ failed' = TRUE
    BY <1>5 DEF Heartbeat, PublishOnline, PublishWorks, PublishFails, ringVars
  <2> QED
    BY <2>1 DEF ConnectionInv, OnlineAnnounced, KeptUntilNextConnection
<1> QED
  BY <1>1, <1>2, <1>3, <1>4, <1>5 DEF ServiceStep

LEMMA OutsideKeepsConnection ==
  ASSUME ConnectionInv, LoseConnection \/ ClockSet \/ MessagingRestarts
  PROVE  ConnectionInv'
<1>1. CASE LoseConnection
  BY <1>1 DEF LoseConnection, ConnectionInv, OnlineAnnounced, KeptUntilNextConnection
<1>2. CASE ClockSet
  BY <1>2 DEF ClockSet, ringVars, faultVars, ConnectionInv, OnlineAnnounced,
     KeptUntilNextConnection
<1>3. CASE MessagingRestarts
  BY <1>3 DEF MessagingRestarts, ConnectionInv, OnlineAnnounced, KeptUntilNextConnection
<1> QED
  BY <1>1, <1>2, <1>3

LEMMA BridgeKeepsConnection ==
  ASSUME ConnectionInv, RingTypeOK, [BridgeNext]_bridgeVars
  PROVE  ConnectionInv'
<1>1. CASE UNCHANGED messagingVars
  BY <1>1 DEF messagingVars, connVars, ringVars, faultVars, ConnectionInv,
     OnlineAnnounced, KeptUntilNextConnection
<1>2. CASE Exchange
  BY <1>1, <1>2, PublishKeepsConnection, ReconnectKeepsConnection DEF Exchange, Handle
<1>3. CASE RuntimeSample \/ UartLine \/ VariableSample
  BY <1>3, PublishKeepsConnection DEF RuntimeSample, UartLine, VariableSample, OwnSample
<1>4. CASE OwnAck
  BY <1>4, ReconnectKeepsConnection DEF OwnAck
<1>5. CASE ServiceStep \/ Heartbeat
  BY <1>5, ServiceStepKeepsConnection
<1>6. CASE \E isUp \in BOOLEAN : Service(isUp)
  BY <1>6, ServiceKeepsConnection
<1>7. CASE Restart
  BY <1>7, OutsideKeepsConnection DEF Restart
<1>8. CASE Environment
  BY <1>1, <1>8, OutsideKeepsConnection DEF Environment
<1>9. CASE UNCHANGED bridgeVars
  BY <1>1, <1>9 DEF bridgeVars
<1> QED
  BY <1>2, <1>3, <1>4, <1>5, <1>6, <1>7, <1>8, <1>9 DEF BridgeNext, DeviceStep

LEMMA ConnectionAlways == BridgeSpec => []ConnectionInv
<1>1. BridgeInit => ConnectionInv
  BY ConnectionInvInit
<1>2. ConnectionInv /\ RingTypeOK /\ [BridgeNext]_bridgeVars => ConnectionInv'
  BY BridgeKeepsConnection
<1> QED
  BY <1>1, <1>2, RingTypeCorrect, PTL DEF BridgeSpec

\* No connection without a time and a will, and none that stays unannounced,
\* whichever of the two places made it.
THEOREM ConnectionsAnnounced == BridgeSpec => []OnlineAnnounced
<1>1. ConnectionInv => OnlineAnnounced
  BY DEF ConnectionInv
<1> QED
  BY <1>1, ConnectionAlways, PTL

\* Live samples overtake buffered ones only where the flush has not been, or where
\* a publish failed over the connection.
THEOREM OvertakingBounded == BridgeSpec => OvertakesUnflushedOnly
<1> DEFINE Allowed == justConnected \/ stage # "loop" \/ failed
           Step == \A k \in 1..Len(published') :
                     k > Len(published) /\ count > 0 /\ published'[k] # ring[head] => Allowed
<1>1. ConnectionInv /\ RingTypeOK /\ LinkInv /\ [BridgeNext]_bridgeVars => [Step]_messagingVars
  <2> SUFFICES ASSUME ConnectionInv, RingTypeOK, TelemetryNext, NEW k \in 1..Len(published'),
                      k > Len(published), count > 0, ~Allowed
               PROVE  FALSE
    BY TelemetrySteps
  <2>1. stage = "loop" /\ ~connected
    BY DEF ConnectionInv, KeptUntilNextConnection
  <2>2. Len(published) \in Nat
    BY DEF RingTypeOK
  <2>3. published' # published
    BY <2>2
  <2>4. CASE \E s \in Samples : PublishTelemetry(s)
    BY <2>1, <2>3, <2>4 DEF PublishTelemetry, PublishWorks, Push
  <2>5. CASE FlushOne \/ MessagingRestarts \/ NoSample
    BY <2>1, <2>3, <2>5 DEF FlushOne, MessagingRestarts, NoSample
  <2> QED
    BY <2>4, <2>5 DEF TelemetryNext, FrameSample, OwnMade
<1> QED
  BY <1>1, BridgeKeepsLinkInv, RingTypeCorrect, ConnectionAlways, PTL
     DEF BridgeSpec, OvertakesUnflushedOnly
=================================================================================
