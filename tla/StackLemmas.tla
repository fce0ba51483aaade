----------------------------- MODULE StackLemmas -----------------------------
(***************************************************************************)
(* Lemmas about sequences used as call stacks: the first element is the    *)
(* running activation, the rest are those it interrupted.                  *)
(***************************************************************************)
EXTENDS Naturals, Sequences, SequenceTheorems, TLAPS

\* What replacing the first element of a sequence does: the running activation
\* moves on and those it interrupted stay.
LEMMA ReplaceHead ==
  ASSUME NEW S, NEW s \in Seq(S), Len(s) >= 1, NEW a \in S,
         NEW r, r = <<a>> \o Tail(s)
  PROVE  /\ r \in Seq(S)
         /\ Len(r) = Len(s)
         /\ r[1] = a
         /\ \A k \in 2..Len(s) : r[k] = s[k]
<1>1. s # <<>>
  OBVIOUS
<1>2. /\ Tail(s) \in Seq(S)
      /\ Len(Tail(s)) = Len(s) - 1
      /\ \A k \in 1..(Len(s) - 1) : Tail(s)[k] = s[k + 1]
  BY <1>1, HeadTailProperties
<1>3. /\ <<a>> \in Seq(S)
      /\ Len(<<a>>) = 1
      /\ <<a>>[1] = a
  OBVIOUS
<1>4. /\ r \in Seq(S)
      /\ Len(r) = Len(s)
      /\ r[1] = a
  BY <1>2, <1>3, ConcatProperties
<1>5. ASSUME NEW k \in 2..Len(s)
      PROVE  r[k] = s[k]
  <2>1. r[k] = Tail(s)[k - 1]
    BY <1>2, <1>3, ConcatProperties
  <2>2. Tail(s)[k - 1] = s[(k - 1) + 1]
    BY <1>2
  <2> QED
    BY <2>1, <2>2
<1> QED
  BY <1>4, <1>5

\* What pushing an activation does: the running one becomes the second.
LEMMA PushHead ==
  ASSUME NEW S, NEW s \in Seq(S), NEW a \in S, NEW r, r = <<a>> \o s
  PROVE  /\ r \in Seq(S)
         /\ Len(r) = Len(s) + 1
         /\ r[1] = a
         /\ \A k \in 1..Len(s) : r[k + 1] = s[k]
<1>1. /\ <<a>> \in Seq(S)
      /\ Len(<<a>>) = 1
      /\ <<a>>[1] = a
  OBVIOUS
<1>2. /\ r \in Seq(S)
      /\ Len(r) = Len(s) + 1
      /\ r[1] = a
  BY <1>1, ConcatProperties
<1>3. ASSUME NEW k \in 1..Len(s)
      PROVE  r[k + 1] = s[k]
  <2>1. k + 1 \in 1..(1 + Len(s)) /\ k + 1 > 1 /\ (k + 1) - 1 = k
    OBVIOUS
  <2> QED
    BY <1>1, <2>1, ConcatProperties
<1> QED
  BY <1>2, <1>3
===============================================================================
