--------------------------- MODULE ChannelLemmas ---------------------------
(***************************************************************************)
(* What appending to a channel and taking its head do to the messages on   *)
(* it.  The channels of the controller are unbounded and in order: a       *)
(* message is sent with Append and received with Head and Tail.            *)
(***************************************************************************)
EXTENDS Integers, SequencesExt, SequenceTheorems, TLAPS

(* The message e is on the channel s not more than once.                   *)
Once(s, e) == \A i, j \in DOMAIN s : s[i] = e /\ s[j] = e => i = j

(* Wherever a and b are on the channel, a comes first.                     *)
Precedes(s, a, b) == \A i, j \in DOMAIN s : s[i] = a /\ s[j] = b => i < j

-----------------------------------------------------------------------------
(* Nothing is on an empty channel.                                         *)
LEMMA EmptyChannel ==
  ASSUME NEW e
  PROVE  /\ ~Contains(<<>>, e)
         /\ Once(<<>>, e)
BY DEF Contains, Once

(* A message that is sent comes last.                                      *)
LEMMA AppendElements ==
  ASSUME NEW S, NEW s \in Seq(S), NEW m \in S
  PROVE  /\ DOMAIN s = 1 .. Len(s) /\ Len(s) \in Nat
         /\ DOMAIN Append(s, m) = 1 .. Len(s) + 1
         /\ \A i \in 1 .. Len(s) : Append(s, m)[i] = s[i]
         /\ Append(s, m)[Len(s) + 1] = m
<1>1. Append(s, m) \in Seq(S) /\ Len(Append(s, m)) = Len(s) + 1
  BY AppendProperties
<1> QED  BY <1>1, AppendProperties, LenProperties

(* What is on a channel after a message was sent.                          *)
LEMMA AppendContains ==
  ASSUME NEW S, NEW s \in Seq(S), NEW m \in S, NEW e
  PROVE  Contains(Append(s, m), e) <=> Contains(s, e) \/ e = m
BY AppendProperties DEF Contains

(* A message that was not on the channel is on it once after it was sent.  *)
LEMMA AppendOnce ==
  ASSUME NEW S, NEW s \in Seq(S), NEW m \in S, NEW e,
         Once(s, e), e # m \/ ~Contains(s, e)
  PROVE  Once(Append(s, m), e)
BY AppendProperties DEF Once, Contains

(* The order of two messages is disturbed only by sending the first again. *)
LEMMA AppendPrecedes ==
  ASSUME NEW S, NEW s \in Seq(S), NEW m \in S, NEW a, NEW b, a # b,
         Precedes(s, a, b), a # m \/ ~Contains(s, b)
  PROVE  Precedes(Append(s, m), a, b)
BY AppendProperties DEF Precedes, Contains

(* What is left on a channel after its head was taken.                     *)
LEMMA TailContains ==
  ASSUME NEW S, NEW s \in Seq(S), s # <<>>, NEW e
  PROVE  /\ Contains(s, Head(s))
         /\ Contains(s, e) <=> Contains(Tail(s), e) \/ e = Head(s)
         /\ Once(s, e) => Once(Tail(s), e)
         /\ Once(s, e) /\ e = Head(s) => ~Contains(Tail(s), e)
<1>1. /\ Len(s) \in Nat /\ Len(s) >= 1 /\ Head(s) = s[1]
      /\ DOMAIN s = 1 .. Len(s)
  BY EmptySeq, LenProperties
<1>2. /\ Tail(s) \in Seq(S) /\ Len(Tail(s)) = Len(s) - 1
      /\ DOMAIN Tail(s) = 1 .. Len(s) - 1
      /\ \A i \in 1 .. Len(s) - 1 : Tail(s)[i] = s[i + 1]
  BY HeadTailProperties
<1>3. \A i \in 2 .. Len(s) : i - 1 \in 1 .. Len(s) - 1 /\ Tail(s)[i - 1] = s[i]
  BY <1>1, <1>2
<1>4. Contains(s, Head(s))
  BY <1>1 DEF Contains
<1>5. Contains(s, e) <=> Contains(Tail(s), e) \/ e = Head(s)
  BY <1>1, <1>2, <1>3 DEF Contains
<1>6. Once(s, e) => Once(Tail(s), e)
  BY <1>1, <1>2 DEF Once
<1>7. Once(s, e) /\ e = Head(s) => ~Contains(Tail(s), e)
  BY <1>1, <1>2 DEF Once, Contains
<1> QED  BY <1>4, <1>5, <1>6, <1>7

(* Taking the head keeps the order, and a message that must come behind    *)
(* another one is not the head while that one is on the channel.           *)
LEMMA TailPrecedes ==
  ASSUME NEW S, NEW s \in Seq(S), s # <<>>, NEW a, NEW b, Precedes(s, a, b)
  PROVE  /\ Precedes(Tail(s), a, b)
         /\ b = Head(s) => ~Contains(s, a)
<1>1. /\ Len(s) \in Nat /\ Len(s) >= 1 /\ Head(s) = s[1]
      /\ DOMAIN s = 1 .. Len(s)
  BY EmptySeq, LenProperties
<1>2. /\ Len(Tail(s)) = Len(s) - 1 /\ DOMAIN Tail(s) = 1 .. Len(s) - 1
      /\ \A i \in 1 .. Len(s) - 1 : Tail(s)[i] = s[i + 1]
  BY HeadTailProperties
<1>3. Precedes(Tail(s), a, b)
  BY <1>1, <1>2 DEF Precedes
<1>4. b = Head(s) => ~Contains(s, a)
  BY <1>1 DEF Precedes, Contains
<1> QED  BY <1>3, <1>4

(* The message e is on the channel s behind position i.                    *)
Behind(s, i, e) == \E j \in DOMAIN s : j > i /\ s[j] = e

(* What was sent comes behind all that was there before.                   *)
LEMMA AppendBehind ==
  ASSUME NEW S, NEW s \in Seq(S), NEW m \in S, NEW i \in 0 .. Len(s), NEW e
  PROVE  /\ Behind(s, i, e) => Behind(Append(s, m), i, e)
         /\ Behind(Append(s, m), i, m)
<1>1. /\ Len(s) \in Nat /\ DOMAIN s = 1 .. Len(s)
      /\ DOMAIN Append(s, m) = 1 .. Len(s) + 1
      /\ \A j \in 1 .. Len(s) : Append(s, m)[j] = s[j]
      /\ Append(s, m)[Len(s) + 1] = m
  BY AppendElements
<1> QED  BY <1>1 DEF Behind

(* Taking the head moves all that is left up by one.                       *)
LEMMA TailBehind ==
  ASSUME NEW S, NEW s \in Seq(S), s # <<>>, NEW i \in Nat, NEW e
  PROVE  /\ Behind(Tail(s), i, e) <=> Behind(s, i + 1, e)
         /\ Behind(s, 0, e) => e = Head(s) \/ Behind(s, 1, e)
<1>1. /\ Len(s) \in Nat /\ Head(s) = s[1] /\ DOMAIN s = 1 .. Len(s)
      /\ DOMAIN Tail(s) = 1 .. Len(s) - 1
      /\ \A j \in 1 .. Len(s) - 1 : Tail(s)[j] = s[j + 1]
  BY HeadTailProperties, EmptySeq, LenProperties
<1>2. \A j \in 2 .. Len(s) : j - 1 \in 1 .. Len(s) - 1 /\ Tail(s)[j - 1] = s[j]
  BY <1>1
<1>3. Behind(Tail(s), i, e) => Behind(s, i + 1, e)
  <2> SUFFICES ASSUME NEW j \in 1 .. Len(s) - 1, j > i, Tail(s)[j] = e
               PROVE  Behind(s, i + 1, e)
    BY <1>1 DEF Behind
  <2>1. j + 1 \in 1 .. Len(s) /\ j + 1 > i + 1 /\ s[j + 1] = e
    BY <1>1
  <2> QED  BY <1>1, <2>1 DEF Behind
<1>4. Behind(s, i + 1, e) => Behind(Tail(s), i, e)
  <2> SUFFICES ASSUME NEW j \in 1 .. Len(s), j > i + 1, s[j] = e
               PROVE  Behind(Tail(s), i, e)
    BY <1>1 DEF Behind
  <2>1. j - 1 \in 1 .. Len(s) - 1 /\ j - 1 > i /\ Tail(s)[j - 1] = e
    BY <1>1, <1>2
  <2> QED  BY <1>1, <2>1 DEF Behind
<1>5. Behind(s, 0, e) => e = Head(s) \/ Behind(s, 1, e)
  BY <1>1 DEF Behind
<1> QED  BY <1>3, <1>4, <1>5

(* Removing an element moves those behind it up by one.                    *)
LEMMA RemoveAtElements ==
  ASSUME NEW S, NEW s \in Seq(S), NEW i \in DOMAIN s
  PROVE  /\ DOMAIN RemoveAt(s, i) = 1 .. Len(s) - 1
         /\ \A j \in 1 .. i - 1 : RemoveAt(s, i)[j] = s[j]
         /\ \A j \in i .. Len(s) - 1 : RemoveAt(s, i)[j] = s[j + 1]
<1> DEFINE a == SubSeq(s, 1, i - 1)
           b == SubSeq(s, i + 1, Len(s))
<1>1. i \in Nat /\ Len(s) \in Nat /\ 1 <= i /\ i <= Len(s)
  BY LenProperties
<1>2. a \in Seq(S) /\ Len(a) = i - 1 /\ \A j \in 1 .. i - 1 : a[j] = s[j]
  BY <1>1, SubSeqProperties
<1>3. b \in Seq(S) /\ Len(b) = Len(s) - i /\ \A j \in 1 .. Len(s) - i : b[j] = s[i + j]
  BY <1>1, SubSeqProperties
<1> HIDE DEF a, b
<1>4. /\ a \o b \in Seq(S) /\ Len(a \o b) = Len(a) + Len(b)
      /\ \A j \in 1 .. Len(a) + Len(b) :
           (a \o b)[j] = IF j <= Len(a) THEN a[j] ELSE b[j - Len(a)]
  BY <1>2, <1>3, ConcatProperties
<1>5. Len(a) + Len(b) = Len(s) - 1 /\ Len(a) = i - 1
  BY <1>1, <1>2, <1>3
<1>6. DOMAIN (a \o b) = 1 .. Len(s) - 1
  BY <1>4, <1>5, LenProperties
<1>7. ASSUME NEW j \in 1 .. i - 1  PROVE (a \o b)[j] = s[j]
  <2>1. j \in 1 .. Len(a) + Len(b) /\ j <= Len(a)
    BY <1>1, <1>5
  <2> QED  BY <1>2, <1>4, <2>1
<1>8. ASSUME NEW j \in i .. Len(s) - 1  PROVE (a \o b)[j] = s[j + 1]
  <2>1. j \in Int /\ j - Len(a) = j - (i - 1) /\ i + (j - (i - 1)) = j + 1
    BY <1>1, <1>5
  <2>2. j \in 1 .. Len(a) + Len(b) /\ ~(j <= Len(a))
    BY <1>1, <1>5
  <2>3. j - Len(a) \in 1 .. Len(s) - i
    <3>1. j - (i - 1) \in 1 .. Len(s) - i
      BY <1>1
    <3> QED  BY <2>1, <3>1
  <2>4. (a \o b)[j] = b[j - Len(a)]
    BY <1>4, <2>2
  <2>5. b[j - Len(a)] = s[i + (j - Len(a))]
    BY <1>3, <2>3
  <2> QED  BY <2>1, <2>4, <2>5
<1> QED  BY <1>6, <1>7, <1>8 DEF RemoveAt, a, b
=============================================================================
