--------------------------- MODULE SequenceLemmas ---------------------------
(***************************************************************************)
(* Facts about FIFO queues used by the proofs: a queue q whose elements    *)
(* move, oldest first, to the end of a history s leaves s \o q unchanged.  *)
(* And the elements of short sequences, of a queue after a Post and after  *)
(* a step of its consumer, and of a concatenation of three parts.          *)
(***************************************************************************)
EXTENDS Integers, Sequences, SequenceTheorems, TLAPS

\* Appending to the queue appends to history-then-queue: CWorkQueue::Post and
\* the push_back of a session's Send.
LEMMA AppendConcat ==
  ASSUME NEW S, NEW s \in Seq(S), NEW q \in Seq(S), NEW e \in S
  PROVE  s \o Append(q, e) = Append(s \o q, e)
  <1>1. /\ s \o Append(q, e) \in Seq(S)
        /\ Append(s \o q, e) \in Seq(S)
    OBVIOUS
  <1>2. Len(s \o Append(q, e)) = Len(Append(s \o q, e))
    OBVIOUS
  <1>3. ASSUME NEW i \in 1..Len(s \o Append(q, e))
        PROVE  (s \o Append(q, e))[i] = Append(s \o q, e)[i]
    OBVIOUS
  <1> QED
    BY <1>1, <1>2, <1>3, SeqEqual

\* Moving the head of the queue to the end of the history keeps
\* history-then-queue: Run() taking a function, OnWrite popping a payload.
LEMMA MoveHead ==
  ASSUME NEW S, NEW s \in Seq(S), NEW q \in Seq(S), q # <<>>
  PROVE  /\ Head(q) \in S
         /\ Tail(q) \in Seq(S)
         /\ Len(Tail(q)) = Len(q) - 1
         /\ Append(s, Head(q)) \in Seq(S)
         /\ Append(s, Head(q)) \o Tail(q) = s \o q
  <1>1. Head(q) \in S /\ Tail(q) \in Seq(S) /\ Len(q) > 0 /\ Len(Tail(q)) = Len(q) - 1
    OBVIOUS
  <1>2. /\ Append(s, Head(q)) \in Seq(S)
        /\ Append(s, Head(q)) \o Tail(q) \in Seq(S)
        /\ s \o q \in Seq(S)
    BY <1>1
  <1>3. Len(Append(s, Head(q)) \o Tail(q)) = Len(s \o q)
    BY <1>1
  <1>4. ASSUME NEW i \in 1..Len(s \o q)
        PROVE  (Append(s, Head(q)) \o Tail(q))[i] = (s \o q)[i]
    BY <1>1
  <1> QED
    BY <1>1, <1>2, <1>3, <1>4, SeqEqual

\* The element after the history is the head of the queue: the payload OnWrite
\* has written is the next one the peer is owed.
LEMMA NextOfConcat ==
  ASSUME NEW S, NEW s \in Seq(S), NEW q \in Seq(S), q # <<>>
  PROVE  /\ Len(s) < Len(s \o q)
         /\ (s \o q)[Len(s) + 1] = Head(q)
  <1>1. Len(q) > 0 /\ Head(q) = q[1] /\ Len(s) \in Nat /\ Len(q) \in Nat
    OBVIOUS
  <1> QED
    BY <1>1

\* A sequence of at most one element.
LEMMA ShortSeq ==
  ASSUME NEW S, NEW s \in Seq(S), Len(s) <= 1
  PROVE  s = <<>> \/ \E x \in S : s = <<x>>
  <1>1. Len(s) \in Nat
    BY LenProperties
  <1>2. CASE Len(s) = 0
    BY <1>2, EmptySeq
  <1>3. CASE Len(s) = 1
    <2>1. s[1] \in S /\ <<s[1]>> \in Seq(S) /\ Len(<<s[1]>>) = 1
      BY <1>3, ElementOfSeq
    <2>2. s = <<s[1]>>
      BY <1>3, <2>1, SeqEqual
    <2> QED
      BY <2>1, <2>2
  <1> QED
    <2>1. \A n \in Nat : n <= 1 => n = 0 \/ n = 1
      OBVIOUS
    <2> QED
      BY <2>1, <1>1, <1>2, <1>3

\* The head and the rest of what a handler with one or two things to do has to do.
LEMMA HeadTailOne ==
  ASSUME NEW x
  PROVE  Head(<<x>>) = x /\ Tail(<<x>>) = <<>>
  <1>1. <<x>> \in Seq({x}) /\ <<x>> # <<>> /\ Len(<<x>>) = 1
    OBVIOUS
  <1>2. Tail(<<x>>) \in Seq({x}) /\ Len(Tail(<<x>>)) = 0
    BY <1>1, HeadTailProperties
  <1> QED
    BY <1>2, EmptySeq

LEMMA HeadTailTwo ==
  ASSUME NEW x, NEW y
  PROVE  Head(<<x, y>>) = x /\ Tail(<<x, y>>) = <<y>>
  <1>1. <<x, y>> \in Seq({x, y}) /\ <<x, y>> # <<>> /\ Len(<<x, y>>) = 2
    OBVIOUS
  <1>2. /\ Tail(<<x, y>>) \in Seq({x, y}) /\ Len(Tail(<<x, y>>)) = 1
        /\ Tail(<<x, y>>)[1] = y
    BY <1>1, HeadTailProperties
  <1>3. <<y>> \in Seq({x, y}) /\ Len(<<y>>) = 1 /\ <<y>>[1] = y
    OBVIOUS
  <1>4. Tail(<<x, y>>) = <<y>>
    BY <1>2, <1>3, SeqEqual
  <1> QED
    BY <1>4

\* An element of a queue something was appended to, or whose head was taken.
LEMMA AppendedElements ==
  ASSUME NEW S, NEW q \in Seq(S), NEW e \in S
  PROVE  /\ Append(q, e) \in Seq(S) /\ Len(Append(q, e)) = Len(q) + 1 /\ Len(q) \in Nat
         /\ \A k \in 1 .. Len(Append(q, e)) :
              \/ k \in 1 .. Len(q) /\ Append(q, e)[k] = q[k]
              \/ k = Len(q) + 1 /\ Append(q, e)[k] = e
  BY AppendProperties, LenProperties

LEMMA TailElements ==
  ASSUME NEW S, NEW q \in Seq(S), q # <<>>
  PROVE  /\ Head(q) = q[1] /\ q[1] \in S /\ 1 \in 1 .. Len(q)
         /\ Tail(q) \in Seq(S) /\ Len(Tail(q)) \in Nat /\ Len(q) = Len(Tail(q)) + 1
         /\ \A k \in 1 .. Len(Tail(q)) : k + 1 \in 1 .. Len(q) /\ Tail(q)[k] = q[k + 1]
  BY HeadTailProperties, LenProperties, EmptySeq

\* Sequences of different lengths are different.
LEMMA ShortSeqsDiffer ==
  /\ \A x : <<x>> # <<>>
  /\ \A x, y : <<x, y>> # <<>>
  /\ \A x, y, z : <<x, y>> # <<z>>
  <1>1. ASSUME NEW x PROVE <<x>> # <<>>
    OBVIOUS
  <1>2. ASSUME NEW x, NEW y PROVE <<x, y>> # <<>>
    OBVIOUS
  <1>3. ASSUME NEW x, NEW y, NEW z PROVE <<x, y>> # <<z>>
    <2>1. Len(<<x, y>>) = 2 /\ Len(<<z>>) = 1
      OBVIOUS
    <2> QED
      BY <2>1
  <1> QED
    BY <1>1, <1>2, <1>3

\* Where an element of three sequences put one after the other comes from.
LEMMA ThreeParts ==
  ASSUME NEW S, NEW a \in Seq(S), NEW b \in Seq(S), NEW c \in Seq(S),
         NEW i \in 1 .. Len(a \o b \o c)
  PROVE  \/ i \in 1 .. Len(a) /\ (a \o b \o c)[i] = a[i]
         \/ /\ i - Len(a) \in 1 .. Len(b)
            /\ (a \o b \o c)[i] = b[i - Len(a)]
         \/ /\ i - Len(a) - Len(b) \in 1 .. Len(c)
            /\ (a \o b \o c)[i] = c[i - Len(a) - Len(b)]
  <1>1. Len(a) \in Nat /\ Len(b) \in Nat /\ Len(c) \in Nat
    BY LenProperties
  <1>2. /\ a \o b \in Seq(S) /\ Len(a \o b) = Len(a) + Len(b)
        /\ \A k \in 1 .. Len(a) + Len(b) :
             (a \o b)[k] = IF k <= Len(a) THEN a[k] ELSE b[k - Len(a)]
    BY ConcatProperties
  <1>3. /\ Len(a \o b \o c) = Len(a) + Len(b) + Len(c)
        /\ (a \o b \o c)[i] = IF i <= Len(a) + Len(b) THEN (a \o b)[i]
                                                      ELSE c[i - (Len(a) + Len(b))]
    BY <1>2, ConcatProperties
  <1>4. i \in Nat /\ 1 <= i /\ i <= Len(a) + Len(b) + Len(c)
    BY <1>1, <1>3
  <1>5. CASE i <= Len(a)
    BY <1>1, <1>2, <1>3, <1>4, <1>5
  <1>6. CASE Len(a) < i /\ i <= Len(a) + Len(b)
    BY <1>1, <1>2, <1>3, <1>4, <1>6
  <1>7. CASE Len(a) + Len(b) < i
    BY <1>1, <1>3, <1>4, <1>7
  <1> QED
    BY <1>1, <1>4, <1>5, <1>6, <1>7
=============================================================================
