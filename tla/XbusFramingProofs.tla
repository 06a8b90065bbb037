-------------------------- MODULE XbusFramingProofs --------------------------
(***************************************************************************)
(* Proofs about XbusFraming, for every size of a byte, payload, noise and  *)
(* chunking.  The decoders are recursive functions on the place in the     *)
(* buffer; what they compute is shown by induction from the end of the     *)
(* buffer, over the set of places where the claim holds.                   *)
(***************************************************************************)
EXTENDS XbusFraming, SequenceTheorems, WellFoundedInduction, TLAPS

----------------------------------------------------------------------------
\* Induction.

\* A set of places that contains each place behind which it contains all
\* contains them all.
LEMMA Downward ==
  ASSUME NEW lo \in Int, NEW hi \in Int, NEW P \in SUBSET (lo .. hi),
         \A o \in lo .. hi : (\A q \in o + 1 .. hi : q \in P) => o \in P
  PROVE  P = lo .. hi
<1> SUFFICES ASSUME P # lo .. hi PROVE FALSE
  OBVIOUS
<1> DEFINE Bad == {n \in Nat : hi - n \in (lo .. hi) \ P}
<1>1. PICK o \in lo .. hi : o \notin P
  OBVIOUS
<1>2. hi - (hi - o) = o /\ hi - o \in Nat
  OBVIOUS
<1>3. Bad # {} /\ Bad \in SUBSET Nat
  BY <1>1, <1>2
<1>4. PICK n \in Bad : \A m \in Bad : ~(<<m, n>> \in OpToRel(<, Nat))
  BY <1>3, NatLessThanWellFounded, WFMin, Zenon
<1>5. \A m \in Bad : ~(m < n)
  BY <1>3, <1>4 DEF OpToRel
<1>6. ASSUME NEW q \in hi - n + 1 .. hi PROVE q \in P
  <2>1. hi - q \in Nat /\ hi - q < n /\ hi - (hi - q) = q /\ q \in lo .. hi
    BY <1>6
  <2>2. hi - q \notin Bad
    BY <2>1, <1>5
  <2> QED BY <2>1, <2>2
<1> QED BY <1>4, <1>6

\* A set of natural numbers up to some bound that contains zero, and the
\* successor of each, contains them all.
LEMMA Upward ==
  ASSUME NEW n \in Nat, NEW P \in SUBSET (0 .. n), 0 \in P,
         \A i \in 0 .. n - 1 : i \in P => i + 1 \in P
  PROVE  P = 0 .. n
<1> DEFINE Q == {o \in 0 .. n : n - o \in P}
<1>1. \A o \in 0 .. n : (\A q \in o + 1 .. n : q \in Q) => o \in Q
  <2> SUFFICES ASSUME NEW o \in 0 .. n, \A q \in o + 1 .. n : q \in Q PROVE n - o \in P
    OBVIOUS
  <2>1. CASE o = n
    BY <2>1
  <2>2. CASE o < n
    <3>1. o + 1 \in o + 1 .. n
      BY <2>2
    <3>2. n - (o + 1) \in P
      BY <3>1
    <3> QED BY <3>2, <2>2
  <2> QED BY <2>1, <2>2
<1>2. Q = 0 .. n
  <2> HIDE DEF Q
  <2>1. Q \in SUBSET (0 .. n)
    BY DEF Q
  <2>2. 0 \in Int /\ n \in Int
    OBVIOUS
  <2> QED BY <1>1, <2>1, <2>2, Downward, Zenon
<1>3. ASSUME NEW i \in 0 .. n PROVE i \in P
  <2>1. n - i \in Q /\ n - (n - i) = i
    BY <1>2
  <2> QED BY <2>1
<1> QED BY <1>3

----------------------------------------------------------------------------
\* What a place of a buffer says.

\* Four bytes that begin a frame with a known message ID.
Headed(b, o) == b[o] = PREAMBLE /\ o + 3 <= Len(b) /\ b[o + 2] \in MIDs

\* The buffer holds the header, and all that it announces.
Complete(b, o) == /\ Len(b) - o + 1 >= HeaderLength(b, o)
                  /\ Len(b) - o + 1 >= FrameLength(b, o)

LEMMA VerdictFacts ==
  ASSUME NEW b \in Seq(Bytes), NEW o \in 1 .. Len(b)
  PROVE  /\ Verdict(b, o) = "noise"      <=> b[o] # PREAMBLE
         /\ Verdict(b, o) = "short"      <=> b[o] = PREAMBLE /\ o + 3 > Len(b)
         /\ Verdict(b, o) = "unknown"    <=> /\ b[o] = PREAMBLE /\ o + 3 <= Len(b)
                                             /\ b[o + 2] \notin MIDs
         /\ Verdict(b, o) = "incomplete" <=> Headed(b, o) /\ ~Complete(b, o)
         /\ Verdict(b, o) = "valid" <=> /\ Headed(b, o) /\ Complete(b, o)
                                        /\ ChecksumValid(b, o)
         /\ Verdict(b, o) = "corrupt" <=> /\ Headed(b, o) /\ Complete(b, o)
                                          /\ ~ChecksumValid(b, o)
<1> DEFINE available == Len(b) - o + 1
<1>1. available \in Int /\ (available < 4 <=> o + 3 > Len(b)) /\ (~(available < 4) <=> o + 3 <= Len(b))
  OBVIOUS
<1>2. CASE b[o] # PREAMBLE
  BY <1>2 DEF Verdict, Headed
<1>3. CASE b[o] = PREAMBLE /\ available < 4
  BY <1>1, <1>3 DEF Verdict, Headed
<1>4. CASE b[o] = PREAMBLE /\ ~(available < 4)
  <2>1. Verdict(b, o) =
             (IF b[o + 2] \notin MIDs              THEN "unknown"
             ELSE IF available < HeaderLength(b, o) THEN "incomplete"
             ELSE IF available < FrameLength(b, o)  THEN "incomplete"
             ELSE IF ChecksumValid(b, o)            THEN "valid"
             ELSE "corrupt")
    BY <1>4 DEF Verdict
  <2>2. HeaderLength(b, o) \in {4, 6}
    BY DEF HeaderLength
  <2>3. b[o + 3] \in Nat /\ o + 3 \in 1 .. Len(b)
    BY <1>1, <1>4, FramingAssumption DEF Bytes
  <2>4. (available < HeaderLength(b, o) \/ available < FrameLength(b, o)) <=> ~Complete(b, o)
    <3>1. ~(available < HeaderLength(b, o)) => FrameLength(b, o) \in Int
      <4>1. CASE IsExtended(b, o)
        <5>1. HeaderLength(b, o) = 6
          BY <4>1 DEF HeaderLength
        <5>2. ~(available < 6) => b[o + 4] \in Int /\ b[o + 5] \in Int
          BY FramingAssumption DEF Bytes
        <5> QED BY <5>1, <5>2, <4>1, FramingAssumption DEF FrameLength, PayloadLength
      <4>2. CASE ~IsExtended(b, o)
        BY <4>2, <2>2, <2>3 DEF FrameLength, PayloadLength
      <4> QED BY <4>1, <4>2
    <3> QED BY <3>1, <2>2 DEF Complete
  <2>5. Headed(b, o) <=> b[o + 2] \in MIDs
    BY <1>1, <1>4 DEF Headed
  <2> HIDE DEF available
  <2> QED BY <2>1, <2>4, <2>5, <1>1, <1>4
<1> QED BY <1>2, <1>3, <1>4

\* A complete frame lies in the buffer, and has a message in it.
LEMMA FrameFits ==
  ASSUME NEW b \in Seq(Bytes), NEW o \in 1 .. Len(b), Headed(b, o), Complete(b, o)
  PROVE  /\ HeaderLength(b, o) \in {4, 6}
         /\ PayloadLength(b, o) \in Nat
         /\ FrameLength(b, o) = HeaderLength(b, o) + PayloadLength(b, o) + 1
         /\ FrameLength(b, o) \in Nat /\ FrameLength(b, o) >= 5
         /\ o + FrameLength(b, o) <= Len(b) + 1
         /\ MessageAt(b, o) \in Messages
<1>1. HeaderLength(b, o) \in {4, 6} /\ b[o + 3] \in Nat
  BY FramingAssumption DEF HeaderLength, Headed, Bytes
<1>2. PayloadLength(b, o) \in Nat
  <2>1. CASE IsExtended(b, o)
    <3>1. o + 5 <= Len(b)
      BY <2>1 DEF Complete, HeaderLength
    <3>2. b[o + 4] \in Nat /\ b[o + 5] \in Nat /\ Base \in Nat
      BY <3>1, FramingAssumption DEF Bytes
    <3>3. b[o + 4] * Base \in Nat
      BY <3>2
    <3> QED BY <3>2, <3>3, <2>1 DEF PayloadLength
  <2>2. CASE ~IsExtended(b, o)
    BY <2>2, <1>1 DEF PayloadLength
  <2> QED BY <2>1, <2>2
<1>3. /\ FrameLength(b, o) = HeaderLength(b, o) + PayloadLength(b, o) + 1
      /\ FrameLength(b, o) \in Nat /\ FrameLength(b, o) >= 5
      /\ o + FrameLength(b, o) <= Len(b) + 1
  BY <1>1, <1>2 DEF FrameLength, Complete
<1>4. MessageAt(b, o) \in Messages
  <2> DEFINE first == o + HeaderLength(b, o)
             last  == o + FrameLength(b, o) - 2
  <2>1. first \in 1 .. Len(b) + 1 /\ last \in Int /\ last <= Len(b) /\ last >= first - 1
    <3>1. PICK h \in {4, 6}, p \in Nat : h = HeaderLength(b, o) /\ p = PayloadLength(b, o)
      BY <1>1, <1>2
    <3>2. first = o + h /\ last = o + (h + p + 1) - 2
      BY <3>1, <1>3
    <3>3. o + (h + p + 1) <= Len(b) + 1
      BY <3>1, <1>3
    <3> HIDE DEF first, last
    <3> QED BY <3>2, <3>3
  <2>2. SubSeq(b, first, last) \in Seq(Bytes)
    <3> HIDE DEF first, last
    <3> QED BY <2>1, SubSeqProperties
  <2> QED BY <2>2 DEF MessageAt, Messages, Headed
<1> QED BY <1>1, <1>2, <1>3, <1>4

----------------------------------------------------------------------------
\* A buffer inside another: what is found in the one is found in the other.
Within(b, d, off) == /\ Len(b) + off <= Len(d)
                     /\ \A i \in 1 .. Len(b) : d[i + off] = b[i]

LEMMA PartOf ==
  ASSUME NEW T, NEW s \in Seq(T), NEW m \in 1 .. Len(s) + 1, NEW n \in m - 1 .. Len(s)
  PROVE  /\ SubSeq(s, m, n) \in Seq(T)
         /\ Len(SubSeq(s, m, n)) = n - m + 1
         /\ \A i \in 1 .. n - m + 1 : SubSeq(s, m, n)[i] = s[m + i - 1]
<1>1. m \in Int /\ n \in Int /\ \A i \in m .. n : s[i] \in T
  BY ElementOfSeq
<1> QED BY <1>1, SubSeqProperties

LEMMA SamePart ==
  ASSUME NEW T, NEW b \in Seq(T), NEW d \in Seq(T), NEW off \in Nat, Within(b, d, off),
         NEW m \in 1 .. Len(b) + 1, NEW n \in m - 1 .. Len(b)
  PROVE  SubSeq(d, m + off, n + off) = SubSeq(b, m, n)
<1> DEFINE x == SubSeq(b, m, n)
           y == SubSeq(d, m + off, n + off)
<1>1. x \in Seq(T) /\ Len(x) = n - m + 1 /\ \A i \in 1 .. n - m + 1 : x[i] = b[m + i - 1]
  BY PartOf
<1>2. /\ y \in Seq(T) /\ Len(y) = n - m + 1
      /\ \A i \in 1 .. n - m + 1 : y[i] = d[m + off + i - 1]
  <2>1. /\ m + off \in 1 .. Len(d) + 1 /\ n + off \in (m + off) - 1 .. Len(d)
        /\ n + off - (m + off) + 1 = n - m + 1
    BY DEF Within
  <2>2. /\ y \in Seq(T) /\ Len(y) = (n + off) - (m + off) + 1
        /\ \A i \in 1 .. (n + off) - (m + off) + 1 : y[i] = d[(m + off) + i - 1]
    BY <2>1, PartOf, Zenon
  <2> HIDE DEF y
  <2> QED BY <2>1, <2>2
<1>3. ASSUME NEW i \in 1 .. n - m + 1 PROVE x[i] = y[i]
  <2>1. m + i - 1 \in 1 .. Len(b) /\ m + off + i - 1 = (m + i - 1) + off
    OBVIOUS
  <2>2. d[(m + i - 1) + off] = b[m + i - 1]
    BY <2>1 DEF Within
  <2> HIDE DEF x, y
  <2> QED BY <1>1, <1>2, <2>1, <2>2
<1> HIDE DEF x, y
<1>4. x = y
  BY <1>1, <1>2, <1>3, SeqEqual
<1> QED BY <1>4 DEF x, y

LEMMA SameHeader ==
  ASSUME NEW b \in Seq(Bytes), NEW d \in Seq(Bytes), NEW off \in Nat, Within(b, d, off),
         NEW o \in 1 .. Len(b), o + 3 <= Len(b)
  PROVE  /\ Headed(b, o) <=> Headed(d, o + off)
         /\ HeaderLength(d, o + off) = HeaderLength(b, o)
         /\ Len(b) - o + 1 >= HeaderLength(b, o) =>
              /\ PayloadLength(d, o + off) = PayloadLength(b, o)
              /\ FrameLength(d, o + off) = FrameLength(b, o)
<1>1. /\ (o + off) + 2 = (o + 2) + off /\ (o + off) + 3 = (o + 3) + off
      /\ (o + off) + 4 = (o + 4) + off /\ (o + off) + 5 = (o + 5) + off
      /\ o + 2 \in 1 .. Len(b) /\ o + 3 \in 1 .. Len(b) /\ (o + off) + 3 <= Len(d)
  BY DEF Within
<1>2. d[o + off] = b[o] /\ d[(o + off) + 2] = b[o + 2] /\ d[(o + off) + 3] = b[o + 3]
  <2>1. d[o + off] = b[o] /\ d[(o + 2) + off] = b[o + 2] /\ d[(o + 3) + off] = b[o + 3]
    BY <1>1 DEF Within
  <2> QED BY <1>1, <2>1
<1>3. HeaderLength(d, o + off) = HeaderLength(b, o) /\ (IsExtended(b, o) <=> IsExtended(d, o + off))
  BY <1>2 DEF HeaderLength, IsExtended
<1>4. ASSUME Len(b) - o + 1 >= HeaderLength(b, o)
      PROVE  PayloadLength(d, o + off) = PayloadLength(b, o)
  <2>1. CASE IsExtended(b, o)
    <3>1. o + 4 \in 1 .. Len(b) /\ o + 5 \in 1 .. Len(b)
      BY <1>4, <2>1 DEF HeaderLength
    <3>2. d[(o + off) + 4] = b[o + 4] /\ d[(o + off) + 5] = b[o + 5]
      <4>1. d[(o + 4) + off] = b[o + 4] /\ d[(o + 5) + off] = b[o + 5]
        BY <3>1 DEF Within
      <4> QED BY <1>1, <4>1
    <3> QED BY <2>1, <3>2, <1>3 DEF PayloadLength
  <2>2. CASE ~IsExtended(b, o)
    BY <2>2, <1>2, <1>3 DEF PayloadLength
  <2> QED BY <2>1, <2>2
<1> QED BY <1>1, <1>2, <1>3, <1>4 DEF Headed, FrameLength

LEMMA SameFrame ==
  ASSUME NEW b \in Seq(Bytes), NEW d \in Seq(Bytes), NEW off \in Nat, Within(b, d, off),
         NEW o \in 1 .. Len(b), Headed(b, o), Complete(b, o)
  PROVE  /\ Headed(d, o + off) /\ Complete(d, o + off)
         /\ FrameLength(d, o + off) = FrameLength(b, o)
         /\ ChecksumValid(d, o + off) <=> ChecksumValid(b, o)
         /\ MessageAt(d, o + off) = MessageAt(b, o)
<1> DEFINE h == HeaderLength(b, o)
           l == FrameLength(b, o)
<1>1. h \in {4, 6} /\ l \in Nat /\ l >= h + 1 /\ o + l <= Len(b) + 1
  BY FrameFits
<1>2. /\ Headed(d, o + off) /\ HeaderLength(d, o + off) = h
      /\ FrameLength(d, o + off) = l
  BY SameHeader DEF Headed, Complete
<1> HIDE DEF h, l
<1>3. Complete(d, o + off)
  BY <1>1, <1>2 DEF Within, Complete
<1>4. ChecksumValid(d, o + off) <=> ChecksumValid(b, o)
  <2>1. /\ o + 1 \in 1 .. Len(b) + 1 /\ o + l - 1 \in (o + 1) - 1 .. Len(b)
        /\ (o + 1) + off = (o + off) + 1 /\ (o + l - 1) + off = (o + off) + l - 1
    BY <1>1
  <2>2. SubSeq(d, (o + 1) + off, (o + l - 1) + off) = SubSeq(b, o + 1, o + l - 1)
    BY <2>1, SamePart
  <2> QED BY <2>1, <2>2, <1>2 DEF ChecksumValid, l
<1>5. MessageAt(d, o + off) = MessageAt(b, o)
  <2>1. /\ o + h \in 1 .. Len(b) + 1 /\ o + l - 2 \in (o + h) - 1 .. Len(b)
        /\ (o + h) + off = (o + off) + h /\ (o + l - 2) + off = (o + off) + l - 2
        /\ o + 2 \in 1 .. Len(b) /\ (o + off) + 2 = (o + 2) + off
    BY <1>1
  <2>2. SubSeq(d, (o + h) + off, (o + l - 2) + off) = SubSeq(b, o + h, o + l - 2)
    BY <2>1, SamePart
  <2>3. d[(o + off) + 2] = b[o + 2]
    BY <2>1 DEF Within
  <2> QED BY <2>1, <2>2, <2>3, <1>2 DEF MessageAt, h, l
<1> QED BY <1>2, <1>3, <1>4, <1>5 DEF l

\* A verdict that does not wait for more bytes stays when more come; and the
\* place of the buffer in the stream does not matter to it.
LEMMA SameVerdict ==
  ASSUME NEW b \in Seq(Bytes), NEW d \in Seq(Bytes), NEW off \in Nat, Within(b, d, off),
         NEW o \in 1 .. Len(b),
         \/ Verdict(b, o) \notin {"short", "incomplete"}
         \/ Len(d) = Len(b) + off
  PROVE  Verdict(d, o + off) = Verdict(b, o)
<1>1. o + off \in 1 .. Len(d) /\ d[o + off] = b[o]
  BY DEF Within
<1>2. CASE b[o] # PREAMBLE
  BY <1>1, <1>2, VerdictFacts
<1>3. CASE b[o] = PREAMBLE /\ o + 3 > Len(b)
  <2>1. Verdict(b, o) = "short" /\ Len(d) = Len(b) + off
    BY <1>3, VerdictFacts
  <2>2. (o + off) + 3 > Len(d)
    BY <2>1, <1>3
  <2> QED BY <1>1, <1>3, <2>1, <2>2, VerdictFacts
<1>4. CASE b[o] = PREAMBLE /\ o + 3 <= Len(b)
  <2>1. (o + off) + 3 <= Len(d) /\ d[(o + off) + 2] = b[o + 2] /\ d[o + off] = PREAMBLE
    <3>1. o + 2 \in 1 .. Len(b) /\ (o + off) + 2 = (o + 2) + off
      BY <1>4
    <3> QED BY <1>1, <1>4, <3>1 DEF Within
  <2>2. CASE b[o + 2] \notin MIDs
    BY <1>1, <1>4, <2>1, <2>2, VerdictFacts
  <2>3. CASE Headed(b, o) /\ Complete(b, o)
    <3>1. /\ Headed(d, o + off) /\ Complete(d, o + off)
          /\ ChecksumValid(d, o + off) <=> ChecksumValid(b, o)
      BY <2>3, SameFrame
    <3> QED BY <1>1, <2>3, <3>1, VerdictFacts
  <2>4. CASE Headed(b, o) /\ ~Complete(b, o)
    <3>1. Verdict(b, o) = "incomplete" /\ Len(d) = Len(b) + off
      BY <2>4, VerdictFacts
    <3>2. /\ Headed(d, o + off) /\ HeaderLength(d, o + off) = HeaderLength(b, o)
          /\ Len(b) - o + 1 >= HeaderLength(b, o) =>
               FrameLength(d, o + off) = FrameLength(b, o)
      BY <1>4, <2>4, SameHeader
    <3>3. Len(d) - (o + off) + 1 = Len(b) - o + 1
      BY <3>1
    <3>4. ~Complete(d, o + off)
      BY <2>4, <3>2, <3>3 DEF Complete
    <3> QED BY <1>1, <3>1, <3>2, <3>4, VerdictFacts
  <2> QED BY <1>4, <2>2, <2>3, <2>4 DEF Headed
<1> QED BY <1>2, <1>3, <1>4

----------------------------------------------------------------------------
\* What drain_xbus_messages computes.

\* One place of the recursive function in Drain, and the function.
DrainStep(b, F, o) ==
  IF o > Len(b) THEN [messages |-> <<>>, kept |-> o]
  ELSE LET verdict == Verdict(b, o)
       IN  IF verdict \in {"short", "incomplete"}
           THEN [messages |-> <<>>, kept |-> o]
           ELSE IF verdict = "valid"
           THEN LET rest == F[o + FrameLength(b, o)]
                IN  [rest EXCEPT !.messages =
                       <<[at |-> o, msg |-> MessageAt(b, o)]>> \o @]
           ELSE F[o + 1]

From(b) == CHOOSE F : F = [o \in 1 .. Len(b) + 1 |-> DrainStep(b, F, o)]

LEMMA DrainIsFrom == ASSUME NEW b PROVE Drain(b) = From(b)[1]
BY DEF Drain, From, DrainStep

\* Where the next place is.
LEMMA ValidFits ==
  ASSUME NEW b \in Seq(Bytes), NEW o \in 1 .. Len(b), Verdict(b, o) = "valid"
  PROVE  /\ Headed(b, o) /\ Complete(b, o)
         /\ FrameLength(b, o) \in Nat /\ FrameLength(b, o) >= 5
         /\ o + FrameLength(b, o) \in o + 1 .. Len(b) + 1
         /\ MessageAt(b, o) \in Messages
<1>1. Headed(b, o) /\ Complete(b, o)
  BY VerdictFacts
<1> QED BY <1>1, FrameFits

\* A step looks only at places behind its own.
LEMMA StepLooksAhead ==
  ASSUME NEW b \in Seq(Bytes), NEW o \in 1 .. Len(b) + 1, NEW F, NEW G,
         \A q \in o + 1 .. Len(b) + 1 : F[q] = G[q]
  PROVE  DrainStep(b, F, o) = DrainStep(b, G, o)
<1>1. CASE o > Len(b)
  BY <1>1 DEF DrainStep
<1>2. CASE o \in 1 .. Len(b) /\ Verdict(b, o) = "valid"
  BY <1>2, ValidFits DEF DrainStep
<1>3. CASE o \in 1 .. Len(b) /\ Verdict(b, o) # "valid"
  <2>1. o + 1 \in o + 1 .. Len(b) + 1
    BY <1>3
  <2> QED BY <1>3, <2>1 DEF DrainStep
<1> QED BY <1>1, <1>2, <1>3

LEMMA FromExists ==
  ASSUME NEW b \in Seq(Bytes)
  PROVE  \E F : F = [o \in 1 .. Len(b) + 1 |-> DrainStep(b, F, o)]
<1> DEFINE n == Len(b) + 1
           Partial(k, F) == F = [o \in k .. n |-> DrainStep(b, F, o)]
           P == {k \in 1 .. n : \E F : Partial(k, F)}
<1>1. ASSUME NEW k \in 1 .. n, \A q \in k + 1 .. n : q \in P PROVE k \in P
  <2>1. PICK G : \A o \in k + 1 .. n : G[o] = DrainStep(b, G, o)
    <3>1. CASE k < n
      <4>1. k + 1 \in k + 1 .. n
        BY <3>1
      <4>2. PICK G : Partial(k + 1, G)
        BY <4>1, <1>1
      <4> QED BY <4>2
    <3>2. CASE k = n
      BY <3>2
    <3> QED BY <3>1, <3>2
  <2> DEFINE F == [o \in k .. n |-> IF o = k THEN DrainStep(b, G, k) ELSE G[o]]
  <2>2. ASSUME NEW o \in k .. n PROVE F[o] = DrainStep(b, F, o)
    <3>1. \A q \in o + 1 .. n : F[q] = G[q]
      OBVIOUS
    <3>2. o \in 1 .. Len(b) + 1
      OBVIOUS
    <3>3. DrainStep(b, F, o) = DrainStep(b, G, o)
      <4> HIDE DEF F
      <4> QED BY <3>1, <3>2, StepLooksAhead
    <3>4. F[o] = DrainStep(b, G, o)
      <4>1. CASE o = k
        BY <4>1
      <4>2. CASE o # k
        BY <4>2, <2>1
      <4> QED BY <4>1, <4>2
    <3> QED BY <3>3, <3>4
  <2>3. F = [o \in k .. n |-> F[o]]
    OBVIOUS
  <2>4. Partial(k, F)
    <3> HIDE DEF F
    <3> QED BY <2>2, <2>3, Zenon
  <2> QED BY <2>4
<1>2. P = 1 .. n
  <2>1. n \in Int /\ 1 \in Int /\ P \in SUBSET (1 .. n)
    OBVIOUS
  <2>2. \A o \in 1 .. n : (\A q \in o + 1 .. n : q \in P) => o \in P
    BY <1>1
  <2> HIDE DEF P
  <2> QED BY <2>1, <2>2, Downward, Zenon
<1>3. 1 \in P
  BY <1>2
<1> QED BY <1>3

LEMMA FromUnfolds ==
  ASSUME NEW b \in Seq(Bytes), NEW o \in 1 .. Len(b) + 1
  PROVE  From(b)[o] = DrainStep(b, From(b), o)
<1>1. From(b) = [q \in 1 .. Len(b) + 1 |-> DrainStep(b, From(b), q)]
  BY FromExists, Zenon DEF From
<1> DEFINE F == From(b)
<1> HIDE DEF F
<1>2. F = [q \in 1 .. Len(b) + 1 |-> DrainStep(b, F, q)]
  BY <1>1 DEF F
<1>3. F[o] = DrainStep(b, F, o)
  BY <1>2, Zenon
<1> QED BY <1>3 DEF F

\* The end of the buffer, or a place that waits for more bytes.
Stops(b, o) == o = Len(b) + 1 \/ Verdict(b, o) \in {"short", "incomplete"}

LEMMA FromType ==
  ASSUME NEW b \in Seq(Bytes), NEW o \in 1 .. Len(b) + 1
  PROVE  /\ From(b)[o] = [messages |-> From(b)[o].messages, kept |-> From(b)[o].kept]
         /\ From(b)[o].messages \in Seq(Entries)
         /\ From(b)[o].kept \in o .. Len(b) + 1
         /\ Stops(b, From(b)[o].kept)
<1> DEFINE F == From(b)
           n == Len(b) + 1
           Typed(q) == /\ F[q] = [messages |-> F[q].messages, kept |-> F[q].kept]
                       /\ F[q].messages \in Seq(Entries)
                       /\ F[q].kept \in q .. n
                       /\ Stops(b, F[q].kept)
           P == {q \in 1 .. n : Typed(q)}
<1>1. ASSUME NEW k \in 1 .. n, \A q \in k + 1 .. n : q \in P PROVE k \in P
  <2> HIDE DEF F
  <2>1. F[k] = DrainStep(b, F, k)
    BY FromUnfolds DEF F
  <2>2. CASE Stops(b, k)
    <3>1. F[k] = [messages |-> <<>>, kept |-> k]
      BY <2>1, <2>2 DEF DrainStep, Stops
    <3>2. F[k].messages = <<>> /\ F[k].kept = k
      BY <3>1
    <3>3. Typed(k)
      BY <3>1, <3>2, <2>2
    <3> QED BY <3>3
  <2>3. CASE k \in 1 .. Len(b) /\ Verdict(b, k) = "valid"
    <3> DEFINE next == k + FrameLength(b, k)
               entry == [at |-> k, msg |-> MessageAt(b, k)]
    <3>1. next \in k + 1 .. n /\ entry \in Entries
      BY <2>3, ValidFits DEF Entries
    <3>2. Typed(next)
      BY <3>1, <1>1
    <3>3. F[k] = [F[next] EXCEPT !.messages = <<entry>> \o @]
      BY <2>1, <2>3 DEF DrainStep
    <3> HIDE DEF next, entry
    <3>4. F[k] = [messages |-> <<entry>> \o F[next].messages, kept |-> F[next].kept]
      BY <3>2, <3>3
    <3>5. <<entry>> \o F[next].messages \in Seq(Entries)
      BY <3>1, <3>2, ConcatProperties
    <3>6. F[next].kept \in k .. n /\ Stops(b, F[next].kept)
      BY <3>1, <3>2
    <3>7. /\ F[k].messages = <<entry>> \o F[next].messages
          /\ F[k].kept = F[next].kept
      BY <3>4
    <3>8. Typed(k)
      BY <3>4, <3>5, <3>6, <3>7
    <3> QED BY <3>8
  <2>4. CASE k \in 1 .. Len(b) /\ Verdict(b, k) \notin {"valid", "short", "incomplete"}
    <3>1. k + 1 \in k + 1 .. n
      BY <2>4
    <3>2. F[k] = F[k + 1]
      BY <2>1, <2>4 DEF DrainStep
    <3>3. Typed(k + 1)
      BY <3>1, <1>1
    <3>4. F[k + 1].kept \in k .. n
      BY <3>1, <3>3
    <3> QED BY <3>2, <3>3, <3>4
  <2> QED BY <2>2, <2>3, <2>4 DEF Stops
<1>2. P = 1 .. n
  <2>1. n \in Int /\ 1 \in Int /\ P \in SUBSET (1 .. n)
    OBVIOUS
  <2>2. \A q \in 1 .. n : (\A r \in q + 1 .. n : r \in P) => q \in P
    BY <1>1
  <2> HIDE DEF P
  <2> QED BY <2>1, <2>2, Downward, Zenon
<1>3. o \in P
  BY <1>2
<1> QED BY <1>3

\* The three ways in which the drain goes on.
LEMMA FromStops ==
  ASSUME NEW b \in Seq(Bytes), NEW o \in 1 .. Len(b) + 1, Stops(b, o)
  PROVE  From(b)[o].messages = <<>> /\ From(b)[o].kept = o
<1>1. From(b)[o] = [messages |-> <<>>, kept |-> o]
  <2>1. From(b)[o] = DrainStep(b, From(b), o)
    BY FromUnfolds
  <2> QED BY <2>1 DEF DrainStep, Stops
<1> QED BY <1>1

LEMMA FromTakes ==
  ASSUME NEW b \in Seq(Bytes), NEW o \in 1 .. Len(b), Verdict(b, o) = "valid"
  PROVE  LET next == o + FrameLength(b, o)
         IN  /\ From(b)[o].messages = <<[at |-> o, msg |-> MessageAt(b, o)]>>
                                         \o From(b)[next].messages
             /\ From(b)[o].kept = From(b)[next].kept
<1> DEFINE next == o + FrameLength(b, o)
           entry == [at |-> o, msg |-> MessageAt(b, o)]
<1>1. next \in 1 .. Len(b) + 1
  BY ValidFits
<1>2. From(b)[o] = [From(b)[next] EXCEPT !.messages = <<entry>> \o @]
  <2>1. From(b)[o] = DrainStep(b, From(b), o)
    BY FromUnfolds
  <2> QED BY <2>1 DEF DrainStep
<1>3. From(b)[next] = [messages |-> From(b)[next].messages, kept |-> From(b)[next].kept]
  BY <1>1, FromType, Zenon
<1> HIDE DEF next, entry
<1>4. From(b)[o] = [messages |-> <<entry>> \o From(b)[next].messages, kept |-> From(b)[next].kept]
  BY <1>2, <1>3
<1> QED BY <1>4 DEF next, entry

LEMMA FromSkips ==
  ASSUME NEW b \in Seq(Bytes), NEW o \in 1 .. Len(b),
         Verdict(b, o) \notin {"valid", "short", "incomplete"}
  PROVE  From(b)[o] = From(b)[o + 1]
<1>1. From(b)[o] = DrainStep(b, From(b), o)
  BY FromUnfolds
<1> QED BY <1>1 DEF DrainStep

----------------------------------------------------------------------------
\* More bytes, and another place in the stream.

\* The same messages, further back on the line.
Shifted(ms, off) == [i \in DOMAIN ms |-> [ms[i] EXCEPT !.at = @ + off]]

LEMMA ShiftedFacts ==
  ASSUME NEW ms \in Seq(Entries), NEW off \in Nat
  PROVE  /\ Shifted(ms, off) \in Seq(Entries)
         /\ Len(Shifted(ms, off)) = Len(ms)
         /\ \A i \in 1 .. Len(ms) :
              Shifted(ms, off)[i] = [at |-> ms[i].at + off, msg |-> ms[i].msg]
<1>1. DOMAIN ms = 1 .. Len(ms) /\ Len(ms) \in Nat
  BY LenProperties
<1>2. \A i \in 1 .. Len(ms) : ms[i] \in Entries
  BY ElementOfSeq
<1>3. ASSUME NEW i \in 1 .. Len(ms)
      PROVE  /\ [ms[i] EXCEPT !.at = @ + off] = [at |-> ms[i].at + off, msg |-> ms[i].msg]
             /\ [at |-> ms[i].at + off, msg |-> ms[i].msg] \in Entries
  BY <1>2 DEF Entries
<1>4. Shifted(ms, off) = [i \in 1 .. Len(ms) |-> [at |-> ms[i].at + off, msg |-> ms[i].msg]]
  BY <1>1, <1>3 DEF Shifted
<1>5. Shifted(ms, off) \in [1 .. Len(ms) -> Entries]
  BY <1>3, <1>4
<1>6. Shifted(ms, off) \in Seq(Entries)
  BY <1>1, <1>5, SeqDef
<1>7. DOMAIN Shifted(ms, off) = 1 .. Len(ms)
  BY <1>4
<1>8. Len(Shifted(ms, off)) = Len(ms)
  BY <1>1, <1>6, <1>7, LenProperties
<1> QED BY <1>4, <1>6, <1>8

LEMMA ShiftedZero ==
  ASSUME NEW ms \in Seq(Entries) PROVE Shifted(ms, 0) = ms
<1>1. \A i \in 1 .. Len(ms) : ms[i] \in Entries
  BY ElementOfSeq
<1>2. \A i \in 1 .. Len(ms) : [at |-> ms[i].at + 0, msg |-> ms[i].msg] = ms[i]
  BY <1>1 DEF Entries
<1>3. /\ Shifted(ms, 0) \in Seq(Entries) /\ Len(Shifted(ms, 0)) = Len(ms)
      /\ \A i \in 1 .. Len(ms) : Shifted(ms, 0)[i] = ms[i]
  BY <1>2, ShiftedFacts
<1> QED BY <1>3, SeqEqual, Zenon

LEMMA ShiftedEmpty == ASSUME NEW off \in Nat PROVE Shifted(<<>>, off) = <<>>
<1>1. <<>> \in Seq(Entries)
  BY EmptySeq
<1>2. Shifted(<<>>, off) \in Seq(Entries) /\ Len(Shifted(<<>>, off)) = 0
  BY <1>1, ShiftedFacts
<1> QED BY <1>2, EmptySeq

LEMMA ShiftedCons ==
  ASSUME NEW e \in Entries, NEW ms \in Seq(Entries), NEW off \in Nat
  PROVE  Shifted(<<e>> \o ms, off)
           = <<[at |-> e.at + off, msg |-> e.msg]>> \o Shifted(ms, off)
<1> DEFINE x == <<e>> \o ms
           f == [at |-> e.at + off, msg |-> e.msg]
           y == <<f>> \o Shifted(ms, off)
<1>1. <<e>> \in Seq(Entries) /\ Len(<<e>>) = 1 /\ <<e>>[1] = e
  OBVIOUS
<1>2. f \in Entries
  BY DEF Entries
<1>3. <<f>> \in Seq(Entries) /\ Len(<<f>>) = 1 /\ <<f>>[1] = f
  BY <1>2
<1>4. /\ x \in Seq(Entries) /\ Len(x) = 1 + Len(ms) /\ x[1] = e
      /\ \A i \in 2 .. 1 + Len(ms) : x[i] = ms[i - 1]
  <2>1. \A i \in 1 .. Len(<<e>>) + Len(ms) : x[i] = IF i <= Len(<<e>>) THEN <<e>>[i] ELSE ms[i - Len(<<e>>)]
    BY <1>1, ConcatProperties
  <2>2. x \in Seq(Entries) /\ Len(x) = Len(<<e>>) + Len(ms)
    BY <1>1, ConcatProperties
  <2> HIDE DEF x
  <2> QED BY <1>1, <2>1, <2>2
<1>5. Shifted(ms, off) \in Seq(Entries) /\ Len(Shifted(ms, off)) = Len(ms)
  BY ShiftedFacts
<1>6. /\ y \in Seq(Entries) /\ Len(y) = 1 + Len(ms) /\ y[1] = f
      /\ \A i \in 2 .. 1 + Len(ms) : y[i] = Shifted(ms, off)[i - 1]
  <2>1. \A i \in 1 .. Len(<<f>>) + Len(Shifted(ms, off)) :
           y[i] = IF i <= Len(<<f>>) THEN <<f>>[i] ELSE Shifted(ms, off)[i - Len(<<f>>)]
    BY <1>3, <1>5, ConcatProperties
  <2>2. y \in Seq(Entries) /\ Len(y) = Len(<<f>>) + Len(Shifted(ms, off))
    BY <1>3, <1>5, ConcatProperties
  <2> HIDE DEF y, f
  <2> QED BY <1>3, <1>5, <2>1, <2>2
<1> HIDE DEF x, y
<1>7. /\ Shifted(x, off) \in Seq(Entries) /\ Len(Shifted(x, off)) = 1 + Len(ms)
      /\ \A i \in 1 .. 1 + Len(ms) : Shifted(x, off)[i] = [at |-> x[i].at + off, msg |-> x[i].msg]
  BY <1>4, ShiftedFacts
<1>8. ASSUME NEW i \in 1 .. 1 + Len(ms) PROVE Shifted(x, off)[i] = y[i]
  <2>1. CASE i = 1
    BY <2>1, <1>4, <1>6, <1>7
  <2>2. CASE i # 1
    <3>1. i \in 2 .. 1 + Len(ms) /\ i - 1 \in 1 .. Len(ms)
      BY <2>2
    <3>2. Shifted(ms, off)[i - 1] = [at |-> ms[i - 1].at + off, msg |-> ms[i - 1].msg]
      BY <3>1, ShiftedFacts
    <3>3. x[i] = ms[i - 1] /\ y[i] = Shifted(ms, off)[i - 1]
      BY <3>1, <1>4, <1>6
    <3> QED BY <3>2, <3>3, <1>7
  <2> QED BY <2>1, <2>2
<1>9. Shifted(x, off) = y
  BY <1>6, <1>7, <1>8, SeqEqual
<1> QED BY <1>9 DEF x, y, f

\* The drain of a longer buffer first takes the messages that a shorter one
\* within it holds, and goes on where the bytes begin that stay of it.
LEMMA DrainGoesOn ==
  ASSUME NEW b \in Seq(Bytes), NEW d \in Seq(Bytes), NEW off \in Nat, Within(b, d, off),
         NEW o \in 1 .. Len(b) + 1
  PROVE  LET on == From(b)[o].kept + off
         IN  /\ From(d)[o + off].messages = Shifted(From(b)[o].messages, off)
                                              \o From(d)[on].messages
             /\ From(d)[o + off].kept = From(d)[on].kept
<1> DEFINE n == Len(b) + 1
           Claim(q) == /\ From(d)[q + off].messages =
                            Shifted(From(b)[q].messages, off)
                              \o From(d)[From(b)[q].kept + off].messages
                       /\ From(d)[q + off].kept = From(d)[From(b)[q].kept + off].kept
           P == {q \in 1 .. n : Claim(q)}
<1>1. ASSUME NEW q \in 1 .. n PROVE q + off \in 1 .. Len(d) + 1
  BY DEF Within
<1>2. ASSUME NEW k \in 1 .. n, \A q \in k + 1 .. n : q \in P PROVE Claim(k)
  <2>1. CASE Stops(b, k)
    <3>1. From(b)[k].messages = <<>> /\ From(b)[k].kept = k
      BY <2>1, FromStops
    <3>2. From(d)[k + off].messages \in Seq(Entries)
      BY <1>1, FromType
    <3>3. <<>> \o From(d)[k + off].messages = From(d)[k + off].messages
      BY <3>2, ConcatEmptySeq
    <3> QED BY <3>1, <3>3, ShiftedEmpty
  <2>2. CASE k \in 1 .. Len(b) /\ Verdict(b, k) = "valid"
    <3> DEFINE next == k + FrameLength(b, k)
               entry == [at |-> k, msg |-> MessageAt(b, k)]
               moved == [at |-> k + off, msg |-> MessageAt(b, k)]
               on == From(b)[next].kept + off
    <3>1. /\ next \in k + 1 .. n /\ entry \in Entries /\ moved \in Entries
          /\ Headed(b, k) /\ Complete(b, k) /\ FrameLength(b, k) \in Nat
      BY <2>2, ValidFits DEF Entries
    <3>2. /\ From(b)[k].messages = <<entry>> \o From(b)[next].messages
          /\ From(b)[k].kept = From(b)[next].kept
      BY <2>2, FromTakes
    <3>3. /\ Verdict(d, k + off) = "valid" /\ MessageAt(d, k + off) = MessageAt(b, k)
          /\ FrameLength(d, k + off) = FrameLength(b, k) /\ k + off \in 1 .. Len(d)
      <4>1. Verdict(d, k + off) = "valid"
        BY <2>2, SameVerdict
      <4>2. /\ FrameLength(d, k + off) = FrameLength(b, k)
            /\ MessageAt(d, k + off) = MessageAt(b, k)
        BY <2>2, <3>1, SameFrame
      <4> QED BY <4>1, <4>2, <2>2 DEF Within
    <3>4. /\ From(d)[k + off].messages = <<moved>> \o From(d)[next + off].messages
          /\ From(d)[k + off].kept = From(d)[next + off].kept
      <4>1. (k + off) + FrameLength(d, k + off) = next + off
        BY <3>1, <3>3
      <4> HIDE DEF next
      <4> QED BY <3>3, <4>1, FromTakes
    <3>5. Claim(next)
      BY <3>1, <1>2
    <3>6. /\ From(b)[next].messages \in Seq(Entries)
          /\ From(b)[next].kept \in 1 .. n
      <4>1. next \in 1 .. n
        BY <3>1
      <4>2. From(b)[next].kept \in next .. n /\ From(b)[next].messages \in Seq(Entries)
        BY <4>1, FromType, Zenon
      <4> HIDE DEF next
      <4> QED BY <4>1, <4>2
    <3>7. From(d)[on].messages \in Seq(Entries)
      BY <3>6, <1>1, FromType
    <3> HIDE DEF next, entry, moved, on
    <3>8. /\ From(d)[next + off].messages =
               Shifted(From(b)[next].messages, off) \o From(d)[on].messages
          /\ From(d)[next + off].kept = From(d)[on].kept
      BY <3>5 DEF on
    <3>9. Shifted(<<entry>> \o From(b)[next].messages, off)
            = <<moved>> \o Shifted(From(b)[next].messages, off)
      <4>1. [at |-> entry.at + off, msg |-> entry.msg] = moved
        BY DEF entry, moved
      <4> QED BY <3>1, <3>6, <4>1, ShiftedCons
    <3>10. <<moved>> \o (Shifted(From(b)[next].messages, off) \o From(d)[on].messages)
             = (<<moved>> \o Shifted(From(b)[next].messages, off)) \o From(d)[on].messages
      <4>1. <<moved>> \in Seq(Entries)
        BY <3>1
      <4>2. Shifted(From(b)[next].messages, off) \in Seq(Entries)
        BY <3>6, ShiftedFacts
      <4>3. \A x, y, z \in Seq(Entries) : x \o (y \o z) = (x \o y) \o z
        BY ConcatAssociative
      <4> QED BY <4>1, <4>2, <4>3, <3>7
    <3> QED BY <3>2, <3>4, <3>8, <3>9, <3>10 DEF on
  <2>3. CASE k \in 1 .. Len(b) /\ Verdict(b, k) \notin {"valid", "short", "incomplete"}
    <3>1. k + 1 \in k + 1 .. n /\ k + off \in 1 .. Len(d) /\ (k + off) + 1 = (k + 1) + off
      BY <2>3 DEF Within
    <3>2. From(b)[k] = From(b)[k + 1]
      BY <2>3, FromSkips
    <3>3. Verdict(d, k + off) = Verdict(b, k)
      BY <2>3, SameVerdict
    <3>4. From(d)[k + off] = From(d)[(k + 1) + off]
      BY <2>3, <3>1, <3>3, FromSkips
    <3>5. Claim(k + 1)
      BY <3>1, <1>2
    <3> QED BY <3>2, <3>4, <3>5
  <2>4. k = Len(b) + 1 \/ k \in 1 .. Len(b)
    OBVIOUS
  <2> HIDE DEF Claim
  <2> QED BY <2>1, <2>2, <2>3, <2>4 DEF Stops
<1> HIDE DEF Claim
<1>3. P = 1 .. n
  <2>1. n \in Int /\ 1 \in Int /\ P \in SUBSET (1 .. n)
    OBVIOUS
  <2>2. \A q \in 1 .. n : (\A r \in q + 1 .. n : r \in P) => q \in P
    BY <1>2
  <2> HIDE DEF P
  <2> QED BY <2>1, <2>2, Downward, Zenon
<1>4. o \in P
  BY <1>3
<1> QED BY <1>4 DEF Claim

\* A buffer that is the end of another stops where the other does.
LEMMA SameEnd ==
  ASSUME NEW b \in Seq(Bytes), NEW d \in Seq(Bytes), NEW off \in Nat, Within(b, d, off),
         Len(d) = Len(b) + off, NEW o \in 1 .. Len(b) + 1
  PROVE  /\ From(d)[o + off].messages = Shifted(From(b)[o].messages, off)
         /\ From(d)[o + off].kept = From(b)[o].kept + off
<1> DEFINE k == From(b)[o].kept
<1>1. k \in 1 .. Len(b) + 1 /\ Stops(b, k) /\ From(b)[o].messages \in Seq(Entries)
  <2>1. k \in o .. Len(b) + 1 /\ Stops(b, k) /\ From(b)[o].messages \in Seq(Entries)
    BY FromType, Zenon
  <2> HIDE DEF k
  <2> QED BY <2>1
<1> HIDE DEF k
<1>2. k + off \in 1 .. Len(d) + 1
  BY <1>1
<1>3. Stops(d, k + off)
  <2>1. CASE k = Len(b) + 1
    BY <2>1, <1>1 DEF Stops
  <2>2. CASE k \in 1 .. Len(b)
    BY <2>2, <1>1, SameVerdict DEF Stops
  <2> QED BY <2>1, <2>2, <1>1
<1>4. From(d)[k + off].messages = <<>> /\ From(d)[k + off].kept = k + off
  BY <1>2, <1>3, FromStops
<1>5. /\ From(d)[o + off].messages = Shifted(From(b)[o].messages, off)
                                       \o From(d)[k + off].messages
      /\ From(d)[o + off].kept = From(d)[k + off].kept
  BY DrainGoesOn DEF k
<1>6. Shifted(From(b)[o].messages, off) \o <<>> = Shifted(From(b)[o].messages, off)
  BY <1>1, ShiftedFacts, ConcatEmptySeq
<1> QED BY <1>4, <1>5, <1>6 DEF k

----------------------------------------------------------------------------
\* Sums and division.

UpTo(seq) == CHOOSE upTo : upTo = [i \in 0 .. Len(seq) |->
                                     IF i = 0 THEN 0 ELSE upTo[i - 1] + seq[i]]

LEMMA SumIsUpTo == ASSUME NEW seq PROVE Sum(seq) = UpTo(seq)[Len(seq)]
BY DEF Sum, UpTo

LEMMA UpToUnfolds ==
  ASSUME NEW s \in Seq(Bytes)
  PROVE  \A i \in 0 .. Len(s) : UpTo(s)[i] = IF i = 0 THEN 0 ELSE UpTo(s)[i - 1] + s[i]
<1> DEFINE n == Len(s)
           Partial(k, F) == F = [i \in 0 .. k |-> IF i = 0 THEN 0 ELSE F[i - 1] + s[i]]
           P == {k \in 0 .. n : \E F : Partial(k, F)}
<1>1. 0 \in P
  <2> DEFINE Z == [i \in 0 .. 0 |-> 0]
  <2>1. Z = [i \in 0 .. 0 |-> IF i = 0 THEN 0 ELSE Z[i - 1] + s[i]]
    OBVIOUS
  <2> HIDE DEF Z
  <2>2. \E F : Partial(0, F)
    BY <2>1
  <2> QED BY <2>2
<1>2. ASSUME NEW k \in 0 .. n - 1, k \in P PROVE k + 1 \in P
  <2>1. PICK G : Partial(k, G)
    BY <1>2
  <2> DEFINE F == [i \in 0 .. k + 1 |-> IF i = k + 1 THEN G[k] + s[k + 1] ELSE G[i]]
  <2>2. ASSUME NEW i \in 0 .. k + 1
        PROVE  F[i] = IF i = 0 THEN 0 ELSE F[i - 1] + s[i]
    <3>1. CASE i = k + 1
      BY <3>1
    <3>2. CASE i \in 0 .. k
      <4>1. G[i] = IF i = 0 THEN 0 ELSE G[i - 1] + s[i]
        BY <2>1, <3>2
      <4>2. F[i] = G[i] /\ (i # 0 => F[i - 1] = G[i - 1])
        BY <3>2
      <4> HIDE DEF F
      <4> QED BY <4>1, <4>2
    <3> QED BY <3>1, <3>2
  <2>3. F = [i \in 0 .. k + 1 |-> F[i]]
    OBVIOUS
  <2>4. Partial(k + 1, F)
    <3> HIDE DEF F
    <3> QED BY <2>2, <2>3, Zenon
  <2> HIDE DEF F
  <2>5. \E H : Partial(k + 1, H)
    BY <2>4
  <2> QED BY <2>5
<1>3. P = 0 .. n
  <2>1. n \in Nat /\ P \in SUBSET (0 .. n)
    OBVIOUS
  <2> HIDE DEF P
  <2> QED BY <1>1, <1>2, <2>1, Upward, Zenon
<1>4. \E F : Partial(n, F)
  BY <1>3
<1>5. UpTo(s) = [i \in 0 .. n |-> IF i = 0 THEN 0 ELSE UpTo(s)[i - 1] + s[i]]
  BY <1>4, Zenon DEF UpTo
<1> DEFINE F == UpTo(s)
<1>6. F = [i \in 0 .. n |-> IF i = 0 THEN 0 ELSE F[i - 1] + s[i]]
  BY <1>5
<1> HIDE DEF F
<1>7. \A i \in 0 .. n : F[i] = IF i = 0 THEN 0 ELSE F[i - 1] + s[i]
  BY <1>6, Zenon
<1> QED BY <1>7 DEF F

LEMMA UpToType ==
  ASSUME NEW s \in Seq(Bytes) PROVE \A i \in 0 .. Len(s) : UpTo(s)[i] \in Int
<1> DEFINE n == Len(s)
           P == {i \in 0 .. n : UpTo(s)[i] \in Int}
<1>1. 0 \in P
  BY UpToUnfolds
<1>2. ASSUME NEW i \in 0 .. n - 1, i \in P PROVE i + 1 \in P
  <2>1. UpTo(s)[i + 1] = UpTo(s)[(i + 1) - 1] + s[i + 1] /\ (i + 1) - 1 = i
    BY UpToUnfolds
  <2>2. s[i + 1] \in Int
    BY FramingAssumption DEF Bytes
  <2> QED BY <1>2, <2>1, <2>2
<1>3. P = 0 .. n
  <2>1. n \in Nat /\ P \in SUBSET (0 .. n)
    OBVIOUS
  <2> HIDE DEF P
  <2> QED BY <1>1, <1>2, <2>1, Upward, Zenon
<1> QED BY <1>3

LEMMA SumType == ASSUME NEW s \in Seq(Bytes) PROVE Sum(s) \in Int
BY SumIsUpTo, UpToType

LEMMA SumAppend ==
  ASSUME NEW s \in Seq(Bytes), NEW x \in Bytes PROVE Sum(Append(s, x)) = Sum(s) + x
<1> DEFINE t == Append(s, x)
           n == Len(s)
           P == {i \in 0 .. n : UpTo(t)[i] = UpTo(s)[i]}
<1>1. t \in Seq(Bytes) /\ Len(t) = n + 1 /\ t[n + 1] = x /\ \A i \in 1 .. n : t[i] = s[i]
  BY AppendProperties
<1> HIDE DEF t
<1>2. 0 \in P
  BY <1>1, UpToUnfolds
<1>3. ASSUME NEW i \in 0 .. n - 1, i \in P PROVE i + 1 \in P
  <2>1. (i + 1) - 1 = i /\ i + 1 \in 0 .. Len(s) /\ i + 1 \in 0 .. Len(t) /\ i + 1 # 0
    BY <1>1
  <2>2. UpTo(s)[i + 1] = UpTo(s)[i] + s[i + 1] /\ UpTo(t)[i + 1] = UpTo(t)[i] + t[i + 1]
    BY <1>1, <2>1, UpToUnfolds
  <2> QED BY <1>1, <1>3, <2>2
<1>4. P = 0 .. n
  <2>1. n \in Nat /\ P \in SUBSET (0 .. n)
    OBVIOUS
  <2> HIDE DEF P
  <2> QED BY <1>2, <1>3, <2>1, Upward, Zenon
<1>5. UpTo(t)[n] = UpTo(s)[n]
  BY <1>4
<1>6. UpTo(t)[n + 1] = UpTo(t)[n] + x
  <2>1. n + 1 \in 0 .. Len(t) /\ n + 1 # 0 /\ (n + 1) - 1 = n
    BY <1>1
  <2> QED BY <1>1, <2>1, UpToUnfolds
<1> QED BY <1>1, <1>5, <1>6, SumIsUpTo DEF t

LEMMA Division ==
  ASSUME NEW x \in Int
  PROVE  /\ x = Base * (x \div Base) + (x % Base)
         /\ x \div Base \in Int /\ x % Base \in Bytes
<1>1. Base \in Nat /\ Base > 0
  BY FramingAssumption
<1>2. x \div Base \in Int
  BY <1>1
<1>3. x % Base \in 0 .. Base - 1
  BY <1>1
<1>4. x = Base * (x \div Base) + (x % Base)
  BY <1>1
<1> QED BY <1>2, <1>3, <1>4 DEF Bytes

\* The checksum makes the sum of a frame a multiple of Base.
LEMMA ChecksumFits ==
  ASSUME NEW x \in Int PROVE (x + ((-x) % Base)) % Base = 0
<1> DEFINE c == (-x) % Base
           q == (-x) \div Base
           y == x + c
           r == y % Base
           p == y \div Base
<1>1. -x \in Int /\ Base \in Nat /\ Base > 1
  BY FramingAssumption
<1>2. -x = Base * q + c /\ q \in Int /\ c \in Bytes
  BY <1>1, Division
<1>3. y \in Int
  BY <1>2 DEF Bytes
<1>4. y = Base * p + r /\ p \in Int /\ r \in Bytes
  BY <1>3, Division
<1> HIDE DEF c, q, p, r
<1>5. Base * q \in Int /\ Base * p \in Int
  BY <1>1, <1>2, <1>4
<1>6. y = -(Base * q)
  BY <1>2, <1>5 DEF Bytes
<1>7. r = -(Base * q) - Base * p /\ 0 <= r /\ r < Base
  BY <1>4, <1>5, <1>6, <1>1 DEF Bytes
<1>8. PICK k \in Int : k = 0 - (q + p)
  BY <1>2, <1>4
<1>9. r = Base * k
  BY <1>7, <1>8, <1>1, <1>2, <1>4
<1>10. k = 0
  <2>1. k >= 1 => Base * k >= Base
    BY <1>1, <1>8
  <2>2. k <= -1 => Base * k <= -Base
    BY <1>1, <1>8
  <2> QED BY <2>1, <2>2, <1>7, <1>9, <1>1, <1>8
<1>11. r = 0
  BY <1>9, <1>10, <1>1
<1> QED BY <1>11 DEF r, y, c

----------------------------------------------------------------------------
\* What the encoder makes, and that the decoders find it.

LEMMA HeaderFacts ==
  ASSUME NEW payload \in Payloads
  PROVE  /\ payload \in Seq(Bytes)
         /\ Header(payload) \in Seq(Bytes)
         /\ \/ /\ Len(Header(payload)) = 1
               /\ Header(payload)[1] = Len(payload)
               /\ Len(payload) # EXTLEN
            \/ /\ Len(Header(payload)) = 3
               /\ Header(payload)[1] = EXTLEN
               /\ Header(payload)[2] * Base + Header(payload)[3] = Len(payload)
<1> DEFINE l == Len(payload)
<1>1. payload \in Seq(Bytes) /\ l \in Nat /\ l <= MAX_EXT
  BY FramingAssumption
<1>2. /\ Base \in Nat /\ Base > 1 /\ EXTLEN \in Bytes
      /\ MAX_STD \in Nat /\ MAX_STD < EXTLEN /\ MAX_EXT \in Nat /\ MAX_EXT < Base * Base
  BY FramingAssumption
<1> HIDE DEF l
<1>3. CASE l > MAX_STD
  <2> DEFINE hi == l \div Base
             lo == l % Base
  <2>1. l = Base * hi + lo /\ hi \in Int /\ lo \in Bytes
    BY <1>1, Division
  <2> HIDE DEF hi, lo
  <2>2. hi * Base = Base * hi /\ Base * hi \in Int
    BY <2>1, <1>2
  <2>3. hi >= 0
    <3> SUFFICES ASSUME hi <= -1 PROVE FALSE
      BY <2>1
    <3>1. Base * hi <= -Base
      BY <1>2, <2>1
    <3> QED BY <1>1, <1>2, <2>1, <3>1 DEF Bytes
  <2>4. hi < Base
    <3> SUFFICES ASSUME hi >= Base PROVE FALSE
      BY <1>2, <2>1
    <3>1. Base * hi >= Base * Base
      BY <1>2, <2>1
    <3>2. Base * Base \in Int
      BY <1>2
    <3> QED BY <1>1, <1>2, <2>1, <2>2, <3>1, <3>2 DEF Bytes
  <2>5. Header(payload) = <<EXTLEN, hi, lo>>
    BY <1>3 DEF Header, l, hi, lo
  <2>6. hi \in Bytes
    BY <2>1, <2>3, <2>4, <1>2 DEF Bytes
  <2>7. /\ <<EXTLEN, hi, lo>> \in Seq(Bytes) /\ Len(<<EXTLEN, hi, lo>>) = 3
        /\ <<EXTLEN, hi, lo>>[1] = EXTLEN /\ <<EXTLEN, hi, lo>>[2] = hi
        /\ <<EXTLEN, hi, lo>>[3] = lo
    BY <1>2, <2>1, <2>6
  <2>8. hi * Base + lo = l
    BY <2>1, <2>2
  <2> QED BY <1>1, <2>5, <2>7, <2>8 DEF l
<1>4. CASE ~(l > MAX_STD)
  <2>1. Header(payload) = <<l>>
    BY <1>4 DEF Header, l
  <2>2. l \in Bytes /\ l # EXTLEN
    BY <1>1, <1>2, <1>4 DEF Bytes
  <2>3. <<l>> \in Seq(Bytes) /\ Len(<<l>>) = 1 /\ <<l>>[1] = l
    BY <2>2
  <2> QED BY <1>1, <2>1, <2>2, <2>3 DEF l
<1> QED BY <1>3, <1>4

BodyOf(mid, payload) == <<BID, mid>> \o Header(payload) \o payload

CheckOf(mid, payload) == (-Sum(BodyOf(mid, payload))) % Base

LEMMA FrameLayout ==
  ASSUME NEW mid \in MIDs, NEW payload \in Payloads
  PROVE  LET f == Frame(mid, payload)
             b == BodyOf(mid, payload)
             c == CheckOf(mid, payload)
             h == Len(Header(payload))
         IN  /\ f \in Seq(Bytes) /\ b \in Seq(Bytes) /\ c \in Bytes
             /\ Len(b) = 2 + h + Len(payload) /\ Len(f) = Len(b) + 2
             /\ f[1] = PREAMBLE /\ f[Len(f)] = c
             /\ \A i \in 1 .. Len(b) : f[i + 1] = b[i]
             /\ f[3] = mid
             /\ \A i \in 1 .. h : f[3 + i] = Header(payload)[i]
             /\ \A i \in 1 .. Len(payload) : f[3 + h + i] = payload[i]
<1> DEFINE x == <<BID, mid>>
           y == Header(payload)
           z == payload
           xy == x \o y
           b == xy \o z
           c == CheckOf(mid, payload)
           p == <<PREAMBLE>>
           pb == p \o b
           e == <<c>>
           f == pb \o e
<1>1. x \in Seq(Bytes) /\ Len(x) = 2 /\ x[1] = BID /\ x[2] = mid
  BY FramingAssumption
<1>2. y \in Seq(Bytes) /\ z \in Seq(Bytes) /\ Len(y) \in Nat /\ Len(z) \in Nat
  BY HeaderFacts
<1>3. p \in Seq(Bytes) /\ Len(p) = 1 /\ p[1] = PREAMBLE
  BY FramingAssumption
<1>4. b = BodyOf(mid, payload)
  BY DEF BodyOf
<1>5. f = Frame(mid, payload)
  BY DEF Frame, BodyOf, CheckOf
<1> HIDE DEF x, y, z, p
<1>6. /\ xy \in Seq(Bytes) /\ Len(xy) = 2 + Len(y)
      /\ \A i \in 1 .. 2 + Len(y) : xy[i] = IF i <= 2 THEN x[i] ELSE y[i - 2]
  <2>1. /\ xy \in Seq(Bytes) /\ Len(xy) = Len(x) + Len(y)
        /\ \A i \in 1 .. Len(x) + Len(y) : xy[i] = IF i <= Len(x) THEN x[i] ELSE y[i - Len(x)]
    BY <1>1, <1>2, ConcatProperties, Zenon
  <2> HIDE DEF xy
  <2> QED BY <2>1, <1>1
<1> HIDE DEF xy
<1>7. /\ b \in Seq(Bytes) /\ Len(b) = 2 + Len(y) + Len(z)
      /\ \A i \in 1 .. 2 + Len(y) + Len(z) :
           b[i] = IF i <= 2 + Len(y) THEN xy[i] ELSE z[i - (2 + Len(y))]
  <2>1. /\ b \in Seq(Bytes) /\ Len(b) = Len(xy) + Len(z)
        /\ \A i \in 1 .. Len(xy) + Len(z) : b[i] = IF i <= Len(xy) THEN xy[i] ELSE z[i - Len(xy)]
    BY <1>2, <1>6, ConcatProperties, Zenon
  <2> HIDE DEF b
  <2> QED BY <2>1, <1>6
<1> HIDE DEF b
<1>8. /\ pb \in Seq(Bytes) /\ Len(pb) = 1 + Len(b)
      /\ \A i \in 1 .. 1 + Len(b) : pb[i] = IF i <= 1 THEN p[i] ELSE b[i - 1]
  <2>1. /\ pb \in Seq(Bytes) /\ Len(pb) = Len(p) + Len(b)
        /\ \A i \in 1 .. Len(p) + Len(b) : pb[i] = IF i <= Len(p) THEN p[i] ELSE b[i - Len(p)]
    <3>1. p \in Seq(Bytes) /\ b \in Seq(Bytes)
      BY <1>3, <1>7
    <3> QED BY <3>1, ConcatProperties, Zenon
  <2> HIDE DEF pb
  <2> QED BY <2>1, <1>3
<1> HIDE DEF pb
<1>9. c \in Bytes
  <2>1. -Sum(b) \in Int
    BY <1>7, SumType
  <2> QED BY <2>1, <1>4, Division DEF CheckOf
<1> HIDE DEF c
<1>10. e \in Seq(Bytes) /\ Len(e) = 1 /\ e[1] = c
  BY <1>9
<1> HIDE DEF e
<1>11. /\ f \in Seq(Bytes) /\ Len(f) = Len(b) + 2
       /\ \A i \in 1 .. Len(b) + 2 : f[i] = IF i <= 1 + Len(b) THEN pb[i] ELSE e[i - (1 + Len(b))]
  <2>1. /\ f \in Seq(Bytes) /\ Len(f) = Len(pb) + Len(e)
        /\ \A i \in 1 .. Len(pb) + Len(e) : f[i] = IF i <= Len(pb) THEN pb[i] ELSE e[i - Len(pb)]
    BY <1>8, <1>10, ConcatProperties
  <2> HIDE DEF f
  <2> QED BY <2>1, <1>7, <1>8, <1>10
<1> HIDE DEF f
<1>12. f[1] = PREAMBLE /\ f[Len(f)] = c
  <2>1. Len(b) \in Nat /\ (Len(b) + 2) - (1 + Len(b)) = 1
    BY <1>7
  <2>2. f[1] = pb[1] /\ pb[1] = p[1]
    BY <1>8, <1>11, <2>1
  <2>3. f[Len(b) + 2] = e[(Len(b) + 2) - (1 + Len(b))]
    BY <1>11, <2>1
  <2> QED BY <2>1, <2>2, <2>3, <1>3, <1>10, <1>11
<1>13. ASSUME NEW i \in 1 .. Len(b) PROVE f[i + 1] = b[i]
  <2>1. i + 1 \in 1 .. 1 + Len(b) /\ i + 1 \in 1 .. Len(b) + 2 /\ ~(i + 1 <= 1) /\ (i + 1) - 1 = i
    BY <1>7
  <2> QED BY <2>1, <1>8, <1>11
<1>14. f[3] = mid
  <2>1. f[2 + 1] = b[2]
    BY <1>2, <1>7, <1>13
  <2>2. b[2] = xy[2] /\ xy[2] = x[2]
    BY <1>2, <1>6, <1>7
  <2> QED BY <2>1, <2>2, <1>1
<1>15. ASSUME NEW i \in 1 .. Len(y) PROVE f[3 + i] = y[i]
  <2>1. /\ 2 + i \in 1 .. Len(b) /\ 2 + i \in 1 .. 2 + Len(y) /\ ~(2 + i <= 2)
        /\ (2 + i) - 2 = i /\ 3 + i = (2 + i) + 1
    BY <1>2, <1>7
  <2>2. f[(2 + i) + 1] = b[2 + i]
    BY <2>1, <1>13
  <2>3. b[2 + i] = xy[2 + i] /\ xy[2 + i] = y[(2 + i) - 2]
    BY <2>1, <1>2, <1>6, <1>7
  <2> QED BY <2>1, <2>2, <2>3
<1>16. ASSUME NEW i \in 1 .. Len(z) PROVE f[3 + Len(y) + i] = z[i]
  <2>1. /\ 2 + Len(y) + i \in 1 .. Len(b) /\ ~(2 + Len(y) + i <= 2 + Len(y))
        /\ (2 + Len(y) + i) - (2 + Len(y)) = i /\ 3 + Len(y) + i = (2 + Len(y) + i) + 1
    BY <1>2, <1>7
  <2>2. f[(2 + Len(y) + i) + 1] = b[2 + Len(y) + i]
    BY <2>1, <1>13
  <2>3. b[2 + Len(y) + i] = z[(2 + Len(y) + i) - (2 + Len(y))]
    BY <2>1, <1>7
  <2> QED BY <2>1, <2>2, <2>3
<1>17. /\ f \in Seq(Bytes) /\ b \in Seq(Bytes) /\ c \in Bytes
       /\ Len(b) = 2 + Len(y) + Len(z) /\ Len(f) = Len(b) + 2
  BY <1>7, <1>9, <1>11
<1> QED BY <1>4, <1>5, <1>12, <1>13, <1>14, <1>15, <1>16, <1>17 DEF c, y, z

LEMMA FrameIsFound ==
  ASSUME NEW mid \in MIDs, NEW payload \in Payloads
  PROVE  LET f == Frame(mid, payload)
         IN  /\ f \in Seq(Bytes) /\ Len(f) >= 5
             /\ Headed(f, 1) /\ Complete(f, 1) /\ FrameLength(f, 1) = Len(f)
             /\ Verdict(f, 1) = "valid"
             /\ MessageAt(f, 1) = [mid |-> mid, payload |-> payload]
<1> DEFINE f == Frame(mid, payload)
           y == Header(payload)
           b == BodyOf(mid, payload)
           c == CheckOf(mid, payload)
           z == payload
<1>1. /\ f \in Seq(Bytes) /\ b \in Seq(Bytes) /\ c \in Bytes
      /\ Len(b) = 2 + Len(y) + Len(z) /\ Len(f) = Len(b) + 2
      /\ f[1] = PREAMBLE /\ f[Len(f)] = c
      /\ \A i \in 1 .. Len(b) : f[i + 1] = b[i]
      /\ f[3] = mid
      /\ \A i \in 1 .. Len(y) : f[3 + i] = y[i]
      /\ \A i \in 1 .. Len(z) : f[3 + Len(y) + i] = z[i]
  BY FrameLayout
<1>2. z \in Seq(Bytes) /\ y \in Seq(Bytes) /\ Len(z) \in Nat
  BY HeaderFacts
<1>3. \/ Len(y) = 1 /\ y[1] = Len(z) /\ Len(z) # EXTLEN
      \/ Len(y) = 3 /\ y[1] = EXTLEN /\ y[2] * Base + y[3] = Len(z)
  BY HeaderFacts
<1>4. c = (-Sum(b)) % Base
  BY DEF CheckOf
<1> HIDE DEF f, y, b, c, z
<1>5. Len(f) >= 5 /\ 1 \in 1 .. Len(f) /\ Headed(f, 1)
  BY <1>1, <1>2, <1>3 DEF Headed
<1>6. HeaderLength(f, 1) = 3 + Len(y) /\ PayloadLength(f, 1) = Len(z)
  <2>1. f[1 + 3] = y[1]
    BY <1>1, <1>3
  <2>2. CASE Len(y) = 1 /\ y[1] = Len(z) /\ Len(z) # EXTLEN
    BY <2>1, <2>2 DEF HeaderLength, PayloadLength, IsExtended
  <2>3. CASE Len(y) = 3 /\ y[1] = EXTLEN /\ y[2] * Base + y[3] = Len(z)
    <3>1. f[1 + 4] = y[2] /\ f[1 + 5] = y[3]
      <4>1. f[3 + 2] = y[2] /\ f[3 + 3] = y[3]
        BY <1>1, <2>3
      <4> QED BY <4>1
    <3> QED BY <2>1, <2>3, <3>1 DEF HeaderLength, PayloadLength, IsExtended
  <2> QED BY <1>3, <2>2, <2>3
<1>7. FrameLength(f, 1) = Len(f)
  <2>1. Len(y) \in Nat
    BY <1>3
  <2>2. FrameLength(f, 1) = (3 + Len(y)) + Len(z) + 1
    BY <1>6 DEF FrameLength
  <2> QED BY <1>1, <1>2, <2>1, <2>2
<1>8. Complete(f, 1)
  BY <1>1, <1>2, <1>3, <1>5, <1>6, <1>7 DEF Complete
<1>9. ChecksumValid(f, 1)
  <2> DEFINE s == SubSeq(f, 2, Len(f))
             t == Append(b, c)
  <2>1. s \in Seq(Bytes) /\ Len(s) = Len(f) - 1 /\ \A i \in 1 .. Len(f) - 1 : s[i] = f[i + 1]
    <3>1. 2 \in 1 .. Len(f) + 1 /\ Len(f) \in 2 - 1 .. Len(f)
      BY <1>5
    <3>2. /\ s \in Seq(Bytes) /\ Len(s) = Len(f) - 2 + 1
          /\ \A i \in 1 .. Len(f) - 2 + 1 : s[i] = f[2 + i - 1]
      <4>1. f \in Seq(Bytes)
        BY <1>1
      <4> QED BY <4>1, <3>1, PartOf, Zenon
    <3>3. ASSUME NEW i \in 1 .. Len(f) - 1 PROVE s[i] = f[i + 1]
      <4>1. i \in 1 .. Len(f) - 2 + 1 /\ 2 + i - 1 = i + 1
        BY <1>5
      <4> HIDE DEF s
      <4> QED BY <3>2, <4>1
    <3> HIDE DEF s
    <3> QED BY <3>2, <3>3, <1>5
  <2>2. t \in Seq(Bytes) /\ Len(t) = Len(b) + 1 /\ t[Len(b) + 1] = c /\ \A i \in 1 .. Len(b) : t[i] = b[i]
    BY <1>1, AppendProperties
  <2> HIDE DEF s, t
  <2>3. ASSUME NEW i \in 1 .. Len(f) - 1 PROVE s[i] = t[i]
    <3>1. CASE i \in 1 .. Len(b)
      BY <3>1, <1>1, <2>1, <2>2
    <3>2. CASE i = Len(b) + 1
      <4>1. i + 1 = Len(f)
        BY <3>2, <1>1
      <4> QED BY <4>1, <3>2, <1>1, <2>1, <2>2
    <3> QED BY <3>1, <3>2, <1>1
  <2>4. s = t
    <3>1. Len(s) = Len(t)
      BY <1>1, <2>1, <2>2
    <3> QED BY <2>1, <2>2, <2>3, <3>1, SeqEqual, Zenon
  <2>5. Sum(s) = Sum(b) + c /\ Sum(b) \in Int
    BY <2>4, <1>1, SumAppend, SumType DEF t
  <2>6. Sum(s) % Base = 0
    BY <2>5, <1>4, ChecksumFits
  <2>7. 1 + FrameLength(f, 1) - 1 = Len(f) /\ 1 + 1 = 2
    BY <1>7, <1>5
  <2> QED BY <2>6, <2>7 DEF ChecksumValid, s
<1>10. MessageAt(f, 1) = [mid |-> mid, payload |-> z]
  <2> DEFINE m == 1 + HeaderLength(f, 1)
             n == 1 + FrameLength(f, 1) - 2
             s == SubSeq(f, m, n)
  <2>1. m = 4 + Len(y) /\ n = Len(f) - 1 /\ n - m + 1 = Len(z) /\ m \in Int /\ n \in Int /\ m >= 1 /\ n <= Len(f)
    BY <1>1, <1>2, <1>3, <1>6, <1>7
  <2> HIDE DEF m, n
  <2>2. s \in Seq(Bytes) /\ Len(s) = Len(z) /\ \A i \in 1 .. Len(z) : s[i] = f[m + i - 1]
    <3>1. m \in 1 .. Len(f) + 1 /\ n \in m - 1 .. Len(f)
      BY <2>1, <1>1, <1>2
    <3>2. /\ s \in Seq(Bytes) /\ Len(s) = n - m + 1
          /\ \A i \in 1 .. n - m + 1 : s[i] = f[m + i - 1]
      <4>1. f \in Seq(Bytes)
        BY <1>1
      <4> QED BY <4>1, <3>1, PartOf, Zenon
    <3> HIDE DEF s
    <3> QED BY <2>1, <3>2, <1>2
  <2> HIDE DEF s
  <2>3. ASSUME NEW i \in 1 .. Len(z) PROVE s[i] = z[i]
    <3>1. m + i - 1 = 3 + Len(y) + i
      BY <2>1, <1>3
    <3> QED BY <3>1, <2>2, <1>1
  <2>4. s = z
    BY <1>2, <2>2, <2>3, SeqEqual, Zenon
  <2>5. f[1 + 2] = mid
    BY <1>1
  <2> QED BY <2>4, <2>5 DEF MessageAt, s, m, n
<1>11. Verdict(f, 1) = "valid"
  BY <1>1, <1>5, <1>8, <1>9, VerdictFacts
<1> QED BY <1>1, <1>5, <1>7, <1>8, <1>10, <1>11 DEF f, z

----------------------------------------------------------------------------
\* Types, and that chunks do not matter.

LEMMA BufferFacts ==
  ASSUME NEW s \in Seq(Bytes), NEW r \in 0 .. Len(s)
  PROVE  LET seen == SubSeq(s, 1, r)
             k    == From(seen)[1].kept
             buf  == SubSeq(seen, k, r)
         IN  /\ seen \in Seq(Bytes) /\ Len(seen) = r /\ \A i \in 1 .. r : seen[i] = s[i]
             /\ k \in 1 .. r + 1 /\ Stops(seen, k)
             /\ From(seen)[1].messages \in Seq(Entries)
             /\ buf \in Seq(Bytes) /\ Len(buf) = r + 1 - k
             /\ \A i \in 1 .. Len(buf) : buf[i] = s[i + (k - 1)]
<1> DEFINE seen == SubSeq(s, 1, r)
           k    == From(seen)[1].kept
           buf  == SubSeq(seen, k, r)
<1>1. seen \in Seq(Bytes) /\ Len(seen) = r /\ \A i \in 1 .. r : seen[i] = s[i]
  <2>1. 1 \in 1 .. Len(s) + 1 /\ r \in 1 - 1 .. Len(s) /\ r - 1 + 1 = r
    OBVIOUS
  <2>2. /\ seen \in Seq(Bytes) /\ Len(seen) = r - 1 + 1
        /\ \A i \in 1 .. r - 1 + 1 : seen[i] = s[1 + i - 1]
    BY <2>1, PartOf, Zenon
  <2> HIDE DEF seen
  <2> QED BY <2>1, <2>2
<1> HIDE DEF seen
<1>2. k \in 1 .. r + 1 /\ Stops(seen, k) /\ From(seen)[1].messages \in Seq(Entries)
  <2>1. 1 \in 1 .. Len(seen) + 1
    BY <1>1
  <2>2. k \in 1 .. Len(seen) + 1 /\ Stops(seen, k) /\ From(seen)[1].messages \in Seq(Entries)
    BY <1>1, <2>1, FromType, Zenon
  <2> HIDE DEF k
  <2> QED BY <2>2, <1>1
<1> HIDE DEF k
<1>3. /\ buf \in Seq(Bytes) /\ Len(buf) = r - k + 1
      /\ \A i \in 1 .. r - k + 1 : buf[i] = seen[k + i - 1]
  <2>1. k \in 1 .. Len(seen) + 1 /\ r \in k - 1 .. Len(seen)
    BY <1>1, <1>2
  <2> QED BY <1>1, <2>1, PartOf, Zenon
<1> HIDE DEF buf
<1>4. Len(buf) = r + 1 - k
  BY <1>2, <1>3
<1>5. ASSUME NEW i \in 1 .. Len(buf) PROVE buf[i] = s[i + (k - 1)]
  <2>1. i \in 1 .. r - k + 1 /\ k + i - 1 = i + (k - 1) /\ k + i - 1 \in 1 .. r
    BY <1>2, <1>4
  <2> QED BY <1>1, <1>3, <2>1
<1> QED BY <1>1, <1>2, <1>3, <1>4, <1>5 DEF seen, k, buf

\* What stays is less than the longest frame that a header can announce.
LEMMA WaitsForLess ==
  ASSUME NEW b \in Seq(Bytes), NEW k \in 1 .. Len(b) + 1, Stops(b, k)
  PROVE  Len(b) + 1 - k < 7 + Base * Base
<1>1. Base \in Nat /\ Base > 1 /\ Base * Base \in Nat
  BY FramingAssumption
<1>2. CASE k = Len(b) + 1
  BY <1>1, <1>2
<1>3. CASE k \in 1 .. Len(b) /\ Verdict(b, k) = "short"
  BY <1>1, <1>3, VerdictFacts
<1>4. CASE k \in 1 .. Len(b) /\ Verdict(b, k) = "incomplete"
  <2>1. Headed(b, k) /\ ~Complete(b, k)
    BY <1>4, VerdictFacts
  <2>2. HeaderLength(b, k) \in {4, 6}
    BY DEF HeaderLength
  <2>3. CASE Len(b) - k + 1 < HeaderLength(b, k)
    BY <1>1, <2>2, <2>3
  <2>4. CASE ~(Len(b) - k + 1 < HeaderLength(b, k))
    <3>1. b[k + 3] \in Bytes
      BY <2>1 DEF Headed
    <3>2. PayloadLength(b, k) \in Nat /\ PayloadLength(b, k) < Base * Base
      <4>1. CASE IsExtended(b, k)
        <5>1. b[k + 4] \in Bytes /\ b[k + 5] \in Bytes
          BY <2>4, <4>1, <1>4 DEF HeaderLength
        <5> DEFINE hi == b[k + 4]
                   lo == b[k + 5]
        <5> HIDE DEF hi, lo
        <5>2. hi \in Nat /\ lo \in Nat /\ hi <= Base - 1 /\ lo <= Base - 1
          BY <5>1, <1>1 DEF Bytes, hi, lo
        <5>3. hi * Base \in Nat /\ (Base - 1) * Base \in Nat /\ hi * Base <= (Base - 1) * Base
          BY <5>2, <1>1
        <5>4. (Base - 1) * Base = Base * Base - Base
          BY <1>1
        <5>5. PayloadLength(b, k) = hi * Base + lo
          BY <4>1 DEF PayloadLength, hi, lo
        <5> QED BY <5>2, <5>3, <5>4, <5>5, <1>1
      <4>2. CASE ~IsExtended(b, k)
        <5>1. PayloadLength(b, k) \in Nat /\ PayloadLength(b, k) < Base
          BY <3>1, <4>2, <1>1 DEF PayloadLength, Bytes
        <5>2. Base <= Base * Base
          BY <1>1
        <5> QED BY <5>1, <5>2, <1>1
      <4> QED BY <4>1, <4>2
    <3>3. Len(b) - k + 1 < FrameLength(b, k)
      <4>1. FrameLength(b, k) \in Nat
        BY <2>2, <3>2 DEF FrameLength
      <4> QED BY <4>1, <2>1, <2>2, <2>4 DEF Complete
    <3> QED BY <1>1, <2>2, <3>2, <3>3 DEF FrameLength
  <2> QED BY <2>2, <2>3, <2>4
<1> QED BY <1>2, <1>3, <1>4 DEF Stops

\* To drain what was left and what came is to drain everything again.
LEMMA ReadsOn ==
  ASSUME NEW s \in Seq(Bytes), NEW r \in 0 .. Len(s), NEW n \in Nat, r + n <= Len(s)
  PROVE  LET seen == SubSeq(s, 1, r)
             buf  == SubSeq(seen, From(seen)[1].kept, r)
             had  == buf \o SubSeq(s, r + 1, r + n)
             now  == SubSeq(s, 1, r + n)
         IN  /\ From(now)[1].messages = From(seen)[1].messages
                                          \o Shifted(From(had)[1].messages, r - Len(buf))
             /\ SubSeq(had, From(had)[1].kept, Len(had))
                  = SubSeq(now, From(now)[1].kept, r + n)
<1> DEFINE seen  == SubSeq(s, 1, r)
           k     == From(seen)[1].kept
           buf   == SubSeq(seen, k, r)
           chunk == SubSeq(s, r + 1, r + n)
           had   == buf \o chunk
           now   == SubSeq(s, 1, r + n)
           off   == k - 1
<1>1. /\ seen \in Seq(Bytes) /\ Len(seen) = r /\ \A i \in 1 .. r : seen[i] = s[i]
      /\ k \in 1 .. r + 1 /\ From(seen)[1].messages \in Seq(Entries)
      /\ buf \in Seq(Bytes) /\ Len(buf) = r + 1 - k
      /\ \A i \in 1 .. Len(buf) : buf[i] = s[i + (k - 1)]
  BY BufferFacts, Zenon
<1>2. now \in Seq(Bytes) /\ Len(now) = r + n /\ \A i \in 1 .. r + n : now[i] = s[i]
  <2>1. r + n \in 0 .. Len(s)
    OBVIOUS
  <2> QED BY <2>1, BufferFacts, Zenon
<1>3. /\ chunk \in Seq(Bytes) /\ Len(chunk) = n
      /\ \A i \in 1 .. n : chunk[i] = s[r + i]
  <2>1. /\ r + 1 \in 1 .. Len(s) + 1 /\ r + n \in (r + 1) - 1 .. Len(s)
        /\ (r + n) - (r + 1) + 1 = n
    OBVIOUS
  <2>2. /\ chunk \in Seq(Bytes) /\ Len(chunk) = (r + n) - (r + 1) + 1
        /\ \A i \in 1 .. (r + n) - (r + 1) + 1 : chunk[i] = s[(r + 1) + i - 1]
    BY <2>1, PartOf, Zenon
  <2>3. ASSUME NEW i \in 1 .. n PROVE (r + 1) + i - 1 = r + i
    OBVIOUS
  <2> HIDE DEF chunk
  <2> QED BY <2>1, <2>2, <2>3
<1> HIDE DEF seen, k, buf, chunk, now
<1>4. /\ had \in Seq(Bytes) /\ Len(had) = r + 1 - k + n
      /\ \A i \in 1 .. Len(had) : had[i] = s[i + off]
  <2>1. /\ had \in Seq(Bytes) /\ Len(had) = Len(buf) + Len(chunk)
        /\ \A i \in 1 .. Len(buf) + Len(chunk) :
             had[i] = IF i <= Len(buf) THEN buf[i] ELSE chunk[i - Len(buf)]
    <3>1. buf \in Seq(Bytes) /\ chunk \in Seq(Bytes)
      BY <1>1, <1>3
    <3> QED BY <3>1, ConcatProperties, Zenon
  <2> HIDE DEF had
  <2>2. ASSUME NEW i \in 1 .. Len(had) PROVE had[i] = s[i + off]
    <3>1. CASE i <= Len(buf)
      BY <3>1, <2>1, <1>1, <1>3
    <3>2. CASE ~(i <= Len(buf))
      <4>1. i - Len(buf) \in 1 .. n /\ r + (i - Len(buf)) = i + off
        BY <3>2, <2>1, <1>1, <1>3
      <4>2. had[i] = chunk[i - Len(buf)]
        BY <3>2, <2>1
      <4> QED BY <4>1, <4>2, <1>3
    <3> QED BY <3>1, <3>2
  <2>3. Len(had) = r + 1 - k + n
    BY <2>1, <1>1, <1>3
  <2> QED BY <2>1, <2>2, <2>3
<1> HIDE DEF had
<1>5. off \in Nat /\ off = r - Len(buf)
  BY <1>1
<1>6. Within(seen, now, 0)
  <2>1. \A i \in 1 .. r : i + 0 = i /\ i \in 1 .. r + n
    OBVIOUS
  <2>2. r + 0 <= r + n
    OBVIOUS
  <2> QED BY <2>1, <2>2, <1>1, <1>2 DEF Within
<1>7. Within(had, now, off) /\ Len(now) = Len(had) + off
  <2>1. Len(now) = Len(had) + off
    BY <1>1, <1>2, <1>4
  <2>2. ASSUME NEW i \in 1 .. Len(had) PROVE now[i + off] = had[i]
    <3>1. i + off \in 1 .. r + n
      BY <1>1, <1>4
    <3> QED BY <3>1, <1>2, <1>4
  <2> HIDE DEF off
  <2>3. Len(had) + off <= Len(now)
    BY <2>1, <1>2, <1>5
  <2> QED BY <2>1, <2>2, <2>3 DEF Within
<1> HIDE DEF off
<1>8. 1 \in 1 .. Len(seen) + 1 /\ 1 \in 1 .. Len(had) + 1 /\ 1 + 0 = 1 /\ k + 0 = k /\ 1 + off = k /\ 0 \in Nat
  <2>1. k \in Int /\ Len(had) \in Nat /\ Len(seen) \in Nat
    BY <1>1, <1>4
  <2> QED BY <2>1 DEF off
<1>9. /\ From(now)[1].messages = Shifted(From(seen)[1].messages, 0) \o From(now)[k].messages
      /\ From(now)[1].kept = From(now)[k].kept
  <2>1. /\ From(now)[1 + 0].messages = Shifted(From(seen)[1].messages, 0)
                                         \o From(now)[From(seen)[1].kept + 0].messages
        /\ From(now)[1 + 0].kept = From(now)[From(seen)[1].kept + 0].kept
    BY <1>1, <1>2, <1>6, <1>8, DrainGoesOn, Zenon
  <2> QED BY <2>1, <1>8 DEF k
<1>10. /\ From(now)[k].messages = Shifted(From(had)[1].messages, off)
       /\ From(now)[k].kept = From(had)[1].kept + off
  <2>1. /\ From(now)[1 + off].messages = Shifted(From(had)[1].messages, off)
        /\ From(now)[1 + off].kept = From(had)[1].kept + off
    BY <1>2, <1>4, <1>5, <1>7, <1>8, SameEnd, Zenon
  <2> QED BY <2>1, <1>8
<1>11. Shifted(From(seen)[1].messages, 0) = From(seen)[1].messages
  BY <1>1, ShiftedZero
<1>12. SubSeq(had, From(had)[1].kept, Len(had)) = SubSeq(now, From(now)[1].kept, r + n)
  <2> DEFINE h == From(had)[1].kept
  <2>1. h \in 1 .. Len(had) + 1
    BY <1>4, <1>8, FromType, Zenon
  <2> HIDE DEF h
  <2>2. Len(had) \in h - 1 .. Len(had) /\ Len(had) + off = r + n
    BY <2>1, <1>2, <1>4, <1>7
  <2>3. SubSeq(now, h + off, Len(had) + off) = SubSeq(had, h, Len(had))
    BY <1>2, <1>4, <1>5, <1>7, <2>1, <2>2, SamePart, Zenon
  <2>4. From(now)[1].kept = h + off
    BY <1>9, <1>10 DEF h
  <2> QED BY <2>2, <2>3, <2>4 DEF h
<1> QED BY <1>5, <1>9, <1>10, <1>11, <1>12 DEF seen, k, buf, chunk, had, now

----------------------------------------------------------------------------
\* What iter_xbus_messages_from_buffer computes.

IterStep(b, F, o) ==
  IF o > Len(b) THEN [messages |-> <<>>, raised |-> FALSE]
  ELSE LET verdict == Verdict(b, o)
       IN  IF verdict \in {"short", "incomplete", "unknown"}
           THEN [messages |-> <<>>, raised |-> verdict # "short"]
           ELSE IF verdict = "valid"
           THEN LET rest == F[o + FrameLength(b, o)]
                IN  [rest EXCEPT !.messages = <<MessageAt(b, o)>> \o @]
           ELSE F[o + 1]

IterFrom(b) == CHOOSE F : F = [o \in 1 .. Len(b) + 1 |-> IterStep(b, F, o)]

LEMMA IterIsIterFrom == ASSUME NEW b PROVE Iter(b) = IterFrom(b)[1]
BY DEF Iter, IterFrom, IterStep

LEMMA IterLooksAhead ==
  ASSUME NEW b \in Seq(Bytes), NEW o \in 1 .. Len(b) + 1, NEW F, NEW G,
         \A q \in o + 1 .. Len(b) + 1 : F[q] = G[q]
  PROVE  IterStep(b, F, o) = IterStep(b, G, o)
<1>1. CASE o > Len(b)
  BY <1>1 DEF IterStep
<1>2. CASE o \in 1 .. Len(b) /\ Verdict(b, o) = "valid"
  BY <1>2, ValidFits DEF IterStep
<1>3. CASE o \in 1 .. Len(b) /\ Verdict(b, o) # "valid"
  <2>1. o + 1 \in o + 1 .. Len(b) + 1
    BY <1>3
  <2> QED BY <1>3, <2>1 DEF IterStep
<1> QED BY <1>1, <1>2, <1>3

LEMMA IterUnfolds ==
  ASSUME NEW b \in Seq(Bytes)
  PROVE  \A o \in 1 .. Len(b) + 1 : IterFrom(b)[o] = IterStep(b, IterFrom(b), o)
<1> DEFINE n == Len(b) + 1
           Partial(k, F) == F = [o \in k .. n |-> IterStep(b, F, o)]
           P == {k \in 1 .. n : \E F : Partial(k, F)}
<1>1. ASSUME NEW k \in 1 .. n, \A q \in k + 1 .. n : q \in P PROVE k \in P
  <2>1. PICK G : \A o \in k + 1 .. n : G[o] = IterStep(b, G, o)
    <3>1. CASE k < n
      <4>1. k + 1 \in k + 1 .. n
        BY <3>1
      <4>2. PICK G : Partial(k + 1, G)
        BY <4>1, <1>1
      <4> QED BY <4>2
    <3>2. CASE k = n
      BY <3>2
    <3> QED BY <3>1, <3>2
  <2> DEFINE F == [o \in k .. n |-> IF o = k THEN IterStep(b, G, k) ELSE G[o]]
  <2>2. ASSUME NEW o \in k .. n PROVE F[o] = IterStep(b, F, o)
    <3>1. \A q \in o + 1 .. n : F[q] = G[q]
      OBVIOUS
    <3>2. o \in 1 .. Len(b) + 1
      OBVIOUS
    <3>3. IterStep(b, F, o) = IterStep(b, G, o)
      <4> HIDE DEF F
      <4> QED BY <3>1, <3>2, IterLooksAhead
    <3>4. F[o] = IterStep(b, G, o)
      <4>1. CASE o = k
        BY <4>1
      <4>2. CASE o # k
        BY <4>2, <2>1
      <4> QED BY <4>1, <4>2
    <3> QED BY <3>3, <3>4
  <2>3. F = [o \in k .. n |-> F[o]]
    OBVIOUS
  <2>4. Partial(k, F)
    <3> HIDE DEF F
    <3> QED BY <2>2, <2>3, Zenon
  <2> QED BY <2>4
<1>2. P = 1 .. n
  <2>1. n \in Int /\ 1 \in Int /\ P \in SUBSET (1 .. n)
    OBVIOUS
  <2>2. \A o \in 1 .. n : (\A q \in o + 1 .. n : q \in P) => o \in P
    BY <1>1
  <2> HIDE DEF P
  <2> QED BY <2>1, <2>2, Downward, Zenon
<1>3. 1 \in P
  BY <1>2
<1>4. IterFrom(b) = [o \in 1 .. n |-> IterStep(b, IterFrom(b), o)]
  BY <1>3, Zenon DEF IterFrom
<1> DEFINE F == IterFrom(b)
<1>5. F = [o \in 1 .. n |-> IterStep(b, F, o)]
  BY <1>4
<1> HIDE DEF F
<1>6. \A o \in 1 .. n : F[o] = IterStep(b, F, o)
  BY <1>5, Zenon
<1> QED BY <1>6 DEF F

\* One decoder yields the first of the messages that the other takes.
LEMMA IterAgrees ==
  ASSUME NEW b \in Seq(Bytes), NEW o \in 1 .. Len(b) + 1
  PROVE  LET yielded == IterFrom(b)[o]
             taken   == From(b)[o].messages
         IN  /\ yielded.messages \in Seq(Messages)
             /\ Len(yielded.messages) <= Len(taken)
             /\ \A i \in 1 .. Len(yielded.messages) : yielded.messages[i] = taken[i].msg
             /\ ~yielded.raised => Len(yielded.messages) = Len(taken)
<1> DEFINE n == Len(b) + 1
           J(q) == IterFrom(b)[q]
           T(q) == From(b)[q].messages
           Claim(q) == /\ J(q) = [messages |-> J(q).messages, raised |-> J(q).raised]
                       /\ J(q).messages \in Seq(Messages)
                       /\ Len(J(q).messages) <= Len(T(q))
                       /\ \A i \in 1 .. Len(J(q).messages) :
                            J(q).messages[i] = T(q)[i].msg
                       /\ ~J(q).raised => Len(J(q).messages) = Len(T(q))
           P == {q \in 1 .. n : Claim(q)}
<1>1. ASSUME NEW k \in 1 .. n, \A q \in k + 1 .. n : q \in P PROVE Claim(k)
  <2>0. J(k) = IterStep(b, IterFrom(b), k) /\ T(k) \in Seq(Entries) /\ Len(T(k)) \in Nat
    <3>1. J(k) = IterStep(b, IterFrom(b), k)
      BY IterUnfolds
    <3>2. T(k) \in Seq(Entries)
      BY FromType, Zenon
    <3> HIDE DEF T, J
    <3> QED BY <3>1, <3>2, LenProperties
  <2>1. CASE k = n \/ Verdict(b, k) \in {"short", "incomplete", "unknown"}
    <3>1. /\ J(k).messages = <<>>
          /\ J(k) = [messages |-> J(k).messages, raised |-> J(k).raised]
          /\ ~J(k).raised => Stops(b, k)
      <4>1. CASE k = n
        <5>1. J(k) = [messages |-> <<>>, raised |-> FALSE]
          BY <2>0, <4>1 DEF IterStep
        <5> HIDE DEF J
        <5> QED BY <4>1, <5>1 DEF Stops
      <4>2. CASE k # n /\ Verdict(b, k) = "short"
        <5>1. J(k) = [messages |-> <<>>, raised |-> Verdict(b, k) # "short"]
          BY <2>0, <4>2 DEF IterStep
        <5> HIDE DEF J
        <5> QED BY <4>2, <5>1 DEF Stops
      <4>3. CASE k # n /\ Verdict(b, k) \in {"incomplete", "unknown"}
        <5>1. J(k) = [messages |-> <<>>, raised |-> Verdict(b, k) # "short"]
          BY <2>0, <4>3 DEF IterStep
        <5>2. J(k) = [messages |-> <<>>, raised |-> TRUE]
          BY <5>1, <4>3
        <5> HIDE DEF J
        <5> QED BY <5>2
      <4> QED BY <2>1, <4>1, <4>2, <4>3
    <3>2. ~J(k).raised => T(k) = <<>>
      BY <3>1, FromStops
    <3> HIDE DEF J, T
    <3> QED BY <2>0, <3>1, <3>2
  <2>2. CASE k \in 1 .. Len(b) /\ Verdict(b, k) = "valid"
    <3> DEFINE next == k + FrameLength(b, k)
               entry == [at |-> k, msg |-> MessageAt(b, k)]
    <3>1. next \in k + 1 .. n /\ next \in 1 .. n /\ entry \in Entries /\ MessageAt(b, k) \in Messages
      BY <2>2, ValidFits DEF Entries
    <3>2. T(k) = <<entry>> \o T(next)
      BY <2>2, FromTakes
    <3>3. J(k) = [J(next) EXCEPT !.messages = <<MessageAt(b, k)>> \o @]
      BY <2>0, <2>2 DEF IterStep
    <3>4. Claim(next)
      BY <3>1, <1>1
    <3>5. T(next) \in Seq(Entries)
      BY <3>1, FromType
    <3>6. entry.msg = MessageAt(b, k)
      OBVIOUS
    <3> DEFINE m == MessageAt(b, k)
    <3> HIDE DEF next, entry, J, T, m
    <3>7. J(k) = [messages |-> <<m>> \o J(next).messages, raised |-> J(next).raised]
      BY <3>3, <3>4 DEF m
    <3>8. J(k).messages = <<m>> \o J(next).messages /\ J(k).raised = J(next).raised
      BY <3>7
    <3>9. /\ J(k).messages \in Seq(Messages) /\ Len(J(k).messages) = 1 + Len(J(next).messages)
          /\ \A i \in 1 .. 1 + Len(J(next).messages) :
               J(k).messages[i] = IF i <= 1 THEN m ELSE J(next).messages[i - 1]
      <4>1. <<m>> \in Seq(Messages) /\ Len(<<m>>) = 1 /\ <<m>>[1] = m
        BY <3>1 DEF m
      <4> DEFINE x == <<m>>
                 y == J(next).messages
                 z == x \o y
      <4>2. x \in Seq(Messages) /\ y \in Seq(Messages)
        BY <4>1, <3>4
      <4> HIDE DEF x, y
      <4>3. /\ z \in Seq(Messages) /\ Len(z) = Len(x) + Len(y)
            /\ \A i \in 1 .. Len(x) + Len(y) : z[i] = IF i <= Len(x) THEN x[i] ELSE y[i - Len(x)]
        BY <4>2, ConcatProperties, Zenon
      <4>4. Len(x) = 1 /\ x[1] = m
        BY <4>1 DEF x
      <4>5. z = J(k).messages
        BY <3>8 DEF x, y
      <4> HIDE DEF z
      <4>6. /\ z \in Seq(Messages) /\ Len(z) = 1 + Len(y)
            /\ \A i \in 1 .. 1 + Len(y) : z[i] = IF i <= 1 THEN m ELSE y[i - 1]
        BY <4>3, <4>4
      <4> QED BY <4>5, <4>6 DEF y
    <3>10. /\ Len(T(k)) = 1 + Len(T(next))
           /\ \A i \in 1 .. 1 + Len(T(next)) :
                T(k)[i] = IF i <= 1 THEN entry ELSE T(next)[i - 1]
      <4>1. <<entry>> \in Seq(Entries) /\ Len(<<entry>>) = 1 /\ <<entry>>[1] = entry
        BY <3>1
      <4> DEFINE x == <<entry>>
                 y == T(next)
                 z == x \o y
      <4>2. x \in Seq(Entries) /\ y \in Seq(Entries)
        BY <4>1, <3>5
      <4> HIDE DEF x, y
      <4>3. /\ z \in Seq(Entries) /\ Len(z) = Len(x) + Len(y)
            /\ \A i \in 1 .. Len(x) + Len(y) : z[i] = IF i <= Len(x) THEN x[i] ELSE y[i - Len(x)]
        BY <4>2, ConcatProperties, Zenon
      <4>4. Len(x) = 1 /\ x[1] = entry
        BY <4>1 DEF x
      <4>5. z = T(k)
        BY <3>2 DEF x, y
      <4> HIDE DEF z
      <4>6. /\ Len(z) = 1 + Len(y)
            /\ \A i \in 1 .. 1 + Len(y) : z[i] = IF i <= 1 THEN entry ELSE y[i - 1]
        BY <4>3, <4>4
      <4> QED BY <4>5, <4>6 DEF y
    <3>11. Len(J(next).messages) \in Nat /\ Len(T(next)) \in Nat
      BY <3>4, <3>5
    <3>12. ASSUME NEW i \in 1 .. Len(J(k).messages) PROVE J(k).messages[i] = T(k)[i].msg
      <4>1. CASE i = 1
        <5>1. 1 \in 1 .. 1 + Len(J(next).messages) /\ 1 \in 1 .. 1 + Len(T(next))
          BY <3>11
        <5>2. J(k).messages[1] = m /\ T(k)[1] = entry
          BY <5>1, <3>9, <3>10
        <5> QED BY <4>1, <5>2, <3>6 DEF m
      <4>2. CASE i # 1
        <5>1. i - 1 \in 1 .. Len(J(next).messages) /\ i \in 1 .. 1 + Len(T(next)) /\ ~(i <= 1)
          BY <4>2, <3>4, <3>9, <3>11
        <5>2. J(next).messages[i - 1] = T(next)[i - 1].msg
          BY <5>1, <3>4
        <5> QED BY <5>1, <5>2, <3>9, <3>10
      <4> QED BY <4>1, <4>2
    <3>13. /\ Len(J(k).messages) <= Len(T(k))
           /\ ~J(k).raised => Len(J(k).messages) = Len(T(k))
      BY <3>4, <3>8, <3>9, <3>10, <3>11
    <3>14. J(k) = [messages |-> J(k).messages, raised |-> J(k).raised]
      BY <3>7, <3>8
    <3> QED BY <3>9, <3>12, <3>13, <3>14
  <2>3. CASE k \in 1 .. Len(b) /\ Verdict(b, k) \notin {"valid", "short", "incomplete", "unknown"}
    <3>1. k + 1 \in k + 1 .. n
      BY <2>3
    <3>2. J(k) = J(k + 1)
      BY <2>0, <2>3 DEF IterStep
    <3>3. T(k) = T(k + 1)
      BY <2>3, FromSkips
    <3>4. Claim(k + 1)
      BY <3>1, <1>1
    <3> HIDE DEF J, T
    <3> QED BY <3>2, <3>3, <3>4
  <2>4. k = n \/ k \in 1 .. Len(b)
    OBVIOUS
  <2> HIDE DEF Claim
  <2> QED BY <2>1, <2>2, <2>3, <2>4
<1> HIDE DEF Claim
<1>2. P = 1 .. n
  <2>1. n \in Int /\ 1 \in Int /\ P \in SUBSET (1 .. n)
    OBVIOUS
  <2>2. \A q \in 1 .. n : (\A r \in q + 1 .. n : r \in P) => q \in P
    BY <1>1
  <2> HIDE DEF P
  <2> QED BY <2>1, <2>2, Downward, Zenon
<1>3. Claim(o)
  BY <1>2
<1> QED BY <1>3 DEF Claim

----------------------------------------------------------------------------
\* A valid frame that the drain has passed was met by a message.

LEMMA ConsFacts ==
  ASSUME NEW e \in Entries, NEW ms \in Seq(Entries)
  PROVE  /\ <<e>> \o ms \in Seq(Entries)
         /\ Len(<<e>> \o ms) = 1 + Len(ms)
         /\ (<<e>> \o ms)[1] = e
         /\ \A i \in 1 .. Len(ms) : (<<e>> \o ms)[i + 1] = ms[i]
<1> DEFINE x == <<e>>
           z == x \o ms
<1>1. x \in Seq(Entries) /\ Len(x) = 1 /\ x[1] = e
  OBVIOUS
<1> HIDE DEF x
<1>2. /\ z \in Seq(Entries) /\ Len(z) = Len(x) + Len(ms)
      /\ \A i \in 1 .. Len(x) + Len(ms) : z[i] = IF i <= Len(x) THEN x[i] ELSE ms[i - Len(x)]
  BY <1>1, ConcatProperties, Zenon
<1> HIDE DEF z
<1>3. Len(ms) \in Nat
  OBVIOUS
<1>4. z \in Seq(Entries) /\ Len(z) = 1 + Len(ms) /\ z[1] = e
  BY <1>1, <1>2, <1>3
<1>5. ASSUME NEW i \in 1 .. Len(ms) PROVE z[i + 1] = ms[i]
  <2>1. i + 1 \in 1 .. Len(x) + Len(ms) /\ ~(i + 1 <= Len(x)) /\ (i + 1) - Len(x) = i
    BY <1>1
  <2> QED BY <1>2, <2>1
<1> QED BY <1>4, <1>5 DEF x, z

LEMMA FrameIsMet ==
  ASSUME NEW b \in Seq(Bytes), NEW a \in 1 .. Len(b), Verdict(b, a) = "valid",
         NEW o \in 1 .. a, a + FrameLength(b, a) <= From(b)[o].kept
  PROVE  \E j \in 1 .. Len(From(b)[o].messages) :
            LET at == From(b)[o].messages[j].at
            IN  /\ at \in 1 .. Len(b) /\ Verdict(b, at) = "valid"
                /\ at < a + FrameLength(b, a)
                /\ a < at + FrameLength(b, at)
<1> DEFINE T(q) == From(b)[q].messages
           Met(at) == /\ at \in 1 .. Len(b) /\ Verdict(b, at) = "valid"
                      /\ at < a + FrameLength(b, a)
                      /\ a < at + FrameLength(b, at)
           Claim(q) == a + FrameLength(b, a) <= From(b)[q].kept
                         => \E j \in 1 .. Len(T(q)) : Met(T(q)[j].at)
           P == {q \in 1 .. a : Claim(q)}
<1>0. FrameLength(b, a) \in Nat /\ FrameLength(b, a) >= 5
  BY ValidFits
<1>1. ASSUME NEW k \in 1 .. a, \A q \in k + 1 .. a : q \in P,
             a + FrameLength(b, a) <= From(b)[k].kept
      PROVE  \E j \in 1 .. Len(T(k)) : Met(T(k)[j].at)
  <2>0. k \in 1 .. Len(b) /\ k \in 1 .. Len(b) + 1
    OBVIOUS
  <2>1. ~Stops(b, k)
    <3> SUFFICES ASSUME Stops(b, k) PROVE FALSE
      OBVIOUS
    <3>1. From(b)[k].kept = k
      BY <2>0, FromStops
    <3> QED BY <1>0, <1>1, <3>1
  <2>2. CASE Verdict(b, k) = "valid"
    <3> DEFINE next == k + FrameLength(b, k)
               entry == [at |-> k, msg |-> MessageAt(b, k)]
    <3>1. next \in k + 1 .. Len(b) + 1 /\ entry \in Entries /\ FrameLength(b, k) \in Nat
      BY <2>0, <2>2, ValidFits DEF Entries
    <3>2. T(k) = <<entry>> \o T(next) /\ From(b)[k].kept = From(b)[next].kept
      BY <2>0, <2>2, FromTakes
    <3>3. T(next) \in Seq(Entries)
      <4>1. next \in 1 .. Len(b) + 1
        BY <3>1
      <4> QED BY <4>1, FromType, Zenon
    <3>4. /\ Len(T(k)) = 1 + Len(T(next)) /\ T(k)[1] = entry
          /\ \A i \in 1 .. Len(T(next)) : T(k)[i + 1] = T(next)[i]
      <4> HIDE DEF T, entry, next
      <4> QED BY <3>1, <3>2, <3>3, ConsFacts
    <3>5. Len(T(next)) \in Nat /\ entry.at = k
      <4>1. Len(T(next)) \in Nat
        <5> HIDE DEF T
        <5> QED BY <3>3, LenProperties
      <4> QED BY <4>1
    <3>6. CASE a < next
      <4>1. Met(k)
        BY <3>6, <1>0, <2>0, <2>2
      <4>2. 1 \in 1 .. Len(T(k)) /\ T(k)[1].at = k
        <5> HIDE DEF T, entry
        <5> QED BY <3>4, <3>5
      <4> HIDE DEF T, Met
      <4> QED BY <4>1, <4>2
    <3>7. CASE next <= a
      <4>1. next \in k + 1 .. a
        BY <3>1, <3>7
      <4>2. Claim(next)
        BY <4>1, <1>1
      <4>3. a + FrameLength(b, a) <= From(b)[next].kept
        BY <3>2, <1>1
      <4> HIDE DEF next, T, Met, entry
      <4>4. PICK j \in 1 .. Len(T(next)) : Met(T(next)[j].at)
        BY <4>2, <4>3
      <4>5. j + 1 \in 1 .. Len(T(k)) /\ T(k)[j + 1] = T(next)[j]
        BY <3>4, <3>5
      <4> QED BY <4>4, <4>5
    <3> HIDE DEF next
    <3>8. next \in Int
      BY <3>1
    <3> QED BY <3>6, <3>7, <3>8
  <2>3. CASE Verdict(b, k) \notin {"valid", "short", "incomplete"}
    <3>1. From(b)[k] = From(b)[k + 1]
      BY <2>0, <2>3, FromSkips
    <3>2. k + 1 \in k + 1 .. a
      BY <2>3
    <3>3. Claim(k + 1)
      BY <3>2, <1>1
    <3> HIDE DEF Met
    <3> QED BY <1>1, <3>1, <3>3
  <2> QED BY <2>1, <2>2, <2>3 DEF Stops
<1>2. P = 1 .. a
  <2>1. a \in Int /\ 1 \in Int /\ P \in SUBSET (1 .. a)
    OBVIOUS
  <2>2. \A q \in 1 .. a : (\A r \in q + 1 .. a : r \in P) => q \in P
    <3> HIDE DEF Met, T
    <3> QED BY <1>1
  <2> HIDE DEF P
  <2> QED BY <2>1, <2>2, Downward, Zenon
<1>3. Claim(o)
  BY <1>2
<1>4. \E j \in 1 .. Len(T(o)) : Met(T(o)[j].at)
  <2> HIDE DEF Met, T
  <2> QED BY <1>3
<1> QED BY <1>4

\* The beginning of a frame waits for the rest.
LEMMA BeginningWaits ==
  ASSUME NEW f \in Seq(Bytes), Headed(f, 1), FrameLength(f, 1) = Len(f),
         NEW b \in Seq(Bytes), NEW a \in 1 .. Len(b),
         Len(b) + 1 < a + Len(f),
         \A i \in 1 .. Len(f) : a + i - 1 <= Len(b) => b[a + i - 1] = f[i]
  PROVE  Stops(b, a)
<1> DEFINE p == SubSeq(b, a, Len(b))
<1>1. /\ p \in Seq(Bytes) /\ Len(p) = Len(b) - a + 1
      /\ \A i \in 1 .. Len(b) - a + 1 : p[i] = b[a + i - 1]
  <2>1. a \in 1 .. Len(b) + 1 /\ Len(b) \in a - 1 .. Len(b)
    OBVIOUS
  <2> QED BY <2>1, PartOf, Zenon
<1> HIDE DEF p
<1>2. Len(p) >= 1 /\ Len(p) < Len(f) /\ 1 \in 1 .. Len(p)
  BY <1>1
<1>3. Within(p, f, 0)
  <2>1. ASSUME NEW i \in 1 .. Len(p) PROVE f[i + 0] = p[i]
    <3>1. i + 0 = i /\ i \in 1 .. Len(f) /\ a + i - 1 <= Len(b) /\ i \in 1 .. Len(b) - a + 1
      BY <1>1, <1>2
    <3> QED BY <3>1, <1>1
  <2> QED BY <2>1, <1>2 DEF Within
<1>4. Within(p, b, a - 1)
  <2>1. ASSUME NEW i \in 1 .. Len(p) PROVE b[i + (a - 1)] = p[i]
    <3>1. i + (a - 1) = a + i - 1 /\ i \in 1 .. Len(b) - a + 1
      BY <1>1
    <3> QED BY <3>1, <1>1
  <2>2. Len(p) + (a - 1) <= Len(b)
    BY <1>1
  <2> QED BY <2>1, <2>2 DEF Within
<1>5. Verdict(p, 1) \in {"short", "incomplete"}
  <2>1. p[1] = PREAMBLE
    <3>1. f[1 + 0] = p[1] /\ 1 + 0 = 1
      BY <1>2, <1>3 DEF Within
    <3> QED BY <3>1 DEF Headed
  <2>2. CASE 1 + 3 > Len(p)
    BY <1>1, <1>2, <2>1, <2>2, VerdictFacts
  <2>3. CASE 1 + 3 <= Len(p)
    <3>1. 1 + 0 = 1 /\ 0 \in Nat
      OBVIOUS
    <3>2. /\ Headed(p, 1) <=> Headed(f, 1)
          /\ HeaderLength(f, 1) = HeaderLength(p, 1)
          /\ Len(p) - 1 + 1 >= HeaderLength(p, 1) => FrameLength(f, 1) = FrameLength(p, 1)
      <4>1. /\ Headed(p, 1) <=> Headed(f, 1 + 0)
            /\ HeaderLength(f, 1 + 0) = HeaderLength(p, 1)
            /\ Len(p) - 1 + 1 >= HeaderLength(p, 1) => FrameLength(f, 1 + 0) = FrameLength(p, 1)
        BY <1>1, <1>2, <1>3, <2>3, <3>1, SameHeader, Zenon
      <4> QED BY <4>1, <3>1
    <3>3. ~Complete(p, 1)
      BY <1>2, <3>2 DEF Complete
    <3> QED BY <1>1, <1>2, <3>2, <3>3, VerdictFacts
  <2> QED BY <1>2, <2>2, <2>3
<1>6. Verdict(b, 1 + (a - 1)) = Verdict(p, 1)
  <2>1. Len(b) = Len(p) + (a - 1) /\ a - 1 \in Nat
    BY <1>1
  <2> QED BY <1>1, <1>2, <1>4, <2>1, SameVerdict, Zenon
<1>7. 1 + (a - 1) = a
  OBVIOUS
<1> QED BY <1>5, <1>6, <1>7 DEF Stops

----------------------------------------------------------------------------
\* The state.

FrameOf(entry) == Frame(entry.msg.mid, entry.msg.payload)

\* What was sent is on the line where it was put.
FramesOnLine ==
  \A i \in 1 .. Len(frames) :
     /\ frames[i].msg.mid \in MIDs
     /\ frames[i].msg.payload \in Payloads
     /\ frames[i].at >= 1
     /\ Within(FrameOf(frames[i]), stream, frames[i].at - 1)

\* Where the i-th frame ends, and the next begins.
EndOf(fs, i) == IF i = 0 THEN 1 ELSE fs[i].at + Len(FrameOf(fs[i]))

\* Without noise one frame follows another.
InARow ==
  noise = 0 => /\ \A i \in 1 .. Len(frames) : frames[i].at = EndOf(frames, i - 1)
               /\ Len(stream) + 1 = EndOf(frames, Len(frames))

Typed == /\ stream \in Seq(Bytes)
         /\ frames \in Seq(Entries)
         /\ noise \in 0 .. MaxNoise
         /\ read \in 0 .. Len(stream)

Inv == Typed /\ ChunkingIsInvisible /\ FramesOnLine /\ InARow

\* What the reader has, in terms of the function that Drain computes.
LEMMA Reading ==
  ASSUME Typed, ChunkingIsInvisible
  PROVE  LET seen == SubSeq(stream, 1, read)
             k    == From(seen)[1].kept
         IN  /\ seen \in Seq(Bytes) /\ Len(seen) = read
             /\ \A i \in 1 .. read : seen[i] = stream[i]
             /\ k \in 1 .. read + 1 /\ Stops(seen, k)
             /\ out = From(seen)[1].messages /\ out \in Seq(Entries)
             /\ buffer = SubSeq(seen, k, read) /\ buffer \in Seq(Bytes)
             /\ Len(buffer) = read + 1 - k
<1> DEFINE seen == SubSeq(stream, 1, read)
<1>1. out = From(seen)[1].messages /\ buffer = SubSeq(seen, From(seen)[1].kept, read)
  BY DrainIsFrom DEF ChunkingIsInvisible
<1>2. stream \in Seq(Bytes) /\ read \in 0 .. Len(stream)
  BY DEF Typed
<1> QED BY <1>1, <1>2, BufferFacts, Zenon

LEMMA InitInv == Init => Inv
<1> SUFFICES ASSUME Init PROVE Inv
  OBVIOUS
<1>1. stream = <<>> /\ frames = <<>> /\ noise = 0 /\ read = 0 /\ buffer = <<>> /\ out = <<>>
  BY DEF Init
<1>2. <<>> \in Seq(Bytes) /\ <<>> \in Seq(Entries) /\ Len(<<>>) = 0
  OBVIOUS
<1>3. Typed
  BY <1>1, <1>2, FramingAssumption DEF Typed
<1>4. ChunkingIsInvisible
  <2>1. SubSeq(<<>>, 1, 0) = <<>>
    BY SubSeqEmpty
  <2>2. 1 \in 1 .. Len(<<>>) + 1 /\ Stops(<<>>, 1)
    BY <1>2 DEF Stops
  <2>3. From(<<>>)[1].messages = <<>> /\ From(<<>>)[1].kept = 1
    BY <1>2, <2>2, FromStops
  <2>4. SubSeq(SubSeq(stream, 1, read), 1, read) = <<>>
    BY <1>1, <2>1
  <2> QED BY <1>1, <2>1, <2>3, <2>4, DrainIsFrom DEF ChunkingIsInvisible
<1>5. FramesOnLine /\ InARow
  BY <1>1, <1>2 DEF FramesOnLine, InARow, EndOf
<1> QED BY <1>3, <1>4, <1>5 DEF Inv

\* Bytes that are put on the line change nothing for the reader.
LEMMA LineGrows ==
  ASSUME Inv, NEW t \in Seq(Bytes), stream' = stream \o t,
         UNCHANGED <<read, buffer, out>>
  PROVE  /\ stream' \in Seq(Bytes) /\ Len(stream') = Len(stream) + Len(t)
         /\ Within(stream, stream', 0) /\ Within(t, stream', Len(stream))
         /\ read' \in 0 .. Len(stream') /\ ChunkingIsInvisible'
<1> DEFINE s == stream
           u == s \o t
<1>1. s \in Seq(Bytes) /\ read \in 0 .. Len(s) /\ Len(s) \in Nat /\ Len(t) \in Nat
  BY DEF Inv, Typed
<1>2. /\ u \in Seq(Bytes) /\ Len(u) = Len(s) + Len(t)
      /\ \A i \in 1 .. Len(s) + Len(t) : u[i] = IF i <= Len(s) THEN s[i] ELSE t[i - Len(s)]
  BY <1>1, ConcatProperties, Zenon
<1> HIDE DEF u
<1>3. Within(s, u, 0)
  <2>1. ASSUME NEW i \in 1 .. Len(s) PROVE u[i + 0] = s[i]
    <3>1. i + 0 = i /\ i \in 1 .. Len(s) + Len(t) /\ i <= Len(s)
      BY <1>1
    <3> QED BY <3>1, <1>2
  <2> QED BY <2>1, <1>1, <1>2 DEF Within
<1>4. Within(t, u, Len(s))
  <2>1. ASSUME NEW i \in 1 .. Len(t) PROVE u[i + Len(s)] = t[i]
    <3>1. /\ i + Len(s) \in 1 .. Len(s) + Len(t) /\ ~(i + Len(s) <= Len(s))
          /\ (i + Len(s)) - Len(s) = i
      BY <1>1
    <3> QED BY <3>1, <1>2
  <2> QED BY <2>1, <1>1, <1>2 DEF Within
<1>5. SubSeq(u, 1, read) = SubSeq(s, 1, read)
  <2>1. 1 \in 1 .. Len(s) + 1 /\ read \in 1 - 1 .. Len(s) /\ 0 \in Nat /\ 1 + 0 = 1 /\ read + 0 = read
    BY <1>1
  <2>2. SubSeq(u, 1 + 0, read + 0) = SubSeq(s, 1, read)
    BY <1>1, <1>2, <1>3, <2>1, SamePart, Zenon
  <2> QED BY <2>1, <2>2
<1>6. stream' = u /\ read' = read /\ buffer' = buffer /\ out' = out
  BY DEF u
<1>7. ChunkingIsInvisible'
  <2>1. ChunkingIsInvisible
    BY DEF Inv
  <2> QED BY <1>5, <1>6, <2>1 DEF ChunkingIsInvisible
<1>8. read' \in 0 .. Len(stream')
  BY <1>1, <1>2, <1>6
<1> QED BY <1>2, <1>3, <1>4, <1>6, <1>7, <1>8

LEMMA WithinGrows ==
  ASSUME NEW f \in Seq(Bytes), NEW s \in Seq(Bytes), NEW u \in Seq(Bytes), NEW off \in Nat,
         Within(f, s, off), Within(s, u, 0)
  PROVE  Within(f, u, off)
<1>1. Len(f) + off <= Len(s) /\ Len(s) + 0 <= Len(u)
  BY DEF Within
<1>2. ASSUME NEW i \in 1 .. Len(f) PROVE u[i + off] = f[i]
  <2>1. i + off \in 1 .. Len(s) /\ (i + off) + 0 = i + off
    BY <1>1
  <2>2. u[(i + off) + 0] = s[i + off] /\ s[i + off] = f[i]
    BY <2>1 DEF Within
  <2> QED BY <2>1, <2>2
<1> QED BY <1>1, <1>2 DEF Within

LEMMA SendFrameInv ==
  ASSUME Inv, NEW mid \in MIDs, NEW payload \in Payloads, SendFrame(mid, payload)
  PROVE  Inv'
<1> DEFINE f == Frame(mid, payload)
           e == [at |-> Len(stream) + 1, msg |-> [mid |-> mid, payload |-> payload]]
           n == Len(frames)
<1>1. /\ stream' = stream \o f /\ frames' = Append(frames, e)
      /\ noise' = noise /\ read' = read /\ buffer' = buffer /\ out' = out
  BY DEF SendFrame
<1>2. f \in Seq(Bytes) /\ payload \in Seq(Bytes)
  BY FrameIsFound, HeaderFacts
<1>3. /\ stream \in Seq(Bytes) /\ frames \in Seq(Entries) /\ noise \in 0 .. MaxNoise
      /\ Len(stream) \in Nat /\ n \in Nat
  BY DEF Inv, Typed
<1>4. /\ stream' \in Seq(Bytes) /\ Len(stream') = Len(stream) + Len(f)
      /\ Within(stream, stream', 0) /\ Within(f, stream', Len(stream))
      /\ read' \in 0 .. Len(stream') /\ ChunkingIsInvisible'
  BY <1>1, <1>2, LineGrows
<1>5. e \in Entries
  BY <1>2, <1>3 DEF Entries, Messages
<1>6. e.at = Len(stream) + 1 /\ e.msg.mid = mid /\ e.msg.payload = payload /\ FrameOf(e) = f
  BY DEF FrameOf
<1> HIDE DEF e, f
<1>7. /\ frames' \in Seq(Entries) /\ Len(frames') = n + 1 /\ frames'[n + 1] = e
      /\ \A i \in 1 .. n : frames'[i] = frames[i]
  BY <1>1, <1>3, <1>5, AppendProperties
<1>8. Typed'
  BY <1>1, <1>3, <1>4, <1>7 DEF Typed
<1>9. FramesOnLine'
  <2> SUFFICES ASSUME NEW i \in 1 .. n + 1
               PROVE  /\ frames'[i].msg.mid \in MIDs
                      /\ frames'[i].msg.payload \in Payloads
                      /\ frames'[i].at >= 1
                      /\ Within(FrameOf(frames'[i]), stream', frames'[i].at - 1)
    BY <1>7 DEF FramesOnLine, FrameOf
  <2>1. CASE i \in 1 .. n
    <3>1. /\ frames[i].msg.mid \in MIDs /\ frames[i].msg.payload \in Payloads
          /\ frames[i].at >= 1 /\ Within(FrameOf(frames[i]), stream, frames[i].at - 1)
      BY <2>1 DEF Inv, FramesOnLine
    <3>2. FrameOf(frames[i]) \in Seq(Bytes)
      BY <3>1, FrameIsFound DEF FrameOf
    <3>3. frames[i].at - 1 \in Nat
      <4>1. frames[i] \in Entries
        BY <1>3, <2>1, ElementOfSeq
      <4> QED BY <4>1, <3>1 DEF Entries
    <3>4. Within(FrameOf(frames[i]), stream', frames[i].at - 1)
      BY <1>3, <1>4, <3>1, <3>2, <3>3, WithinGrows
    <3> QED BY <2>1, <1>7, <3>1, <3>4
  <2>2. CASE i = n + 1
    <3>1. e.at - 1 = Len(stream) /\ e.at >= 1
      BY <1>3, <1>6
    <3> QED BY <2>2, <1>4, <1>6, <1>7, <3>1
  <2> QED BY <2>1, <2>2
<1>10. InARow'
  <2> SUFFICES ASSUME noise = 0
               PROVE  /\ \A i \in 1 .. n + 1 : frames'[i].at = EndOf(frames', i - 1)
                      /\ Len(stream') + 1 = EndOf(frames', n + 1)
    BY <1>1, <1>7 DEF InARow
  <2>1. \A i \in 0 .. n : EndOf(frames', i) = EndOf(frames, i)
    BY <1>3, <1>7 DEF EndOf
  <2>2. /\ \A i \in 1 .. n : frames[i].at = EndOf(frames, i - 1)
        /\ Len(stream) + 1 = EndOf(frames, n)
    BY DEF Inv, InARow
  <2>3. EndOf(frames', n + 1) = e.at + Len(f)
    <3>1. n + 1 # 0
      BY <1>3
    <3> QED BY <3>1, <1>6, <1>7 DEF EndOf
  <2>4. Len(stream') + 1 = EndOf(frames', n + 1)
    <3>1. Len(f) \in Nat
      BY <1>2 DEF f
    <3> QED BY <2>3, <3>1, <1>3, <1>4, <1>6
  <2>5. ASSUME NEW i \in 1 .. n + 1 PROVE frames'[i].at = EndOf(frames', i - 1)
    <3>1. i - 1 \in 0 .. n
      BY <1>3
    <3>2. CASE i \in 1 .. n
      BY <3>1, <3>2, <1>7, <2>1, <2>2
    <3>3. CASE i = n + 1
      <4>1. i - 1 = n
        BY <3>3, <1>3
      <4> QED BY <3>1, <3>3, <4>1, <1>6, <1>7, <2>1, <2>2
    <3> QED BY <3>2, <3>3, <1>3
  <2> QED BY <2>4, <2>5
<1> QED BY <1>4, <1>8, <1>9, <1>10 DEF Inv

LEMMA SendNoiseInv ==
  ASSUME Inv, NEW byte \in Bytes, SendNoise(byte)
  PROVE  Inv'
<1> DEFINE t == <<byte>>
<1>1. /\ stream' = Append(stream, byte) /\ frames' = frames
      /\ noise < MaxNoise /\ noise' = noise + 1
      /\ read' = read /\ buffer' = buffer /\ out' = out
  BY DEF SendNoise
<1>2. stream \in Seq(Bytes) /\ frames \in Seq(Entries) /\ noise \in 0 .. MaxNoise
  BY DEF Inv, Typed
<1>3. t \in Seq(Bytes) /\ stream' = stream \o t
  BY <1>1, <1>2, AppendIsConcat
<1> HIDE DEF t
<1>4. /\ stream' \in Seq(Bytes) /\ Within(stream, stream', 0)
      /\ read' \in 0 .. Len(stream') /\ ChunkingIsInvisible'
  BY <1>1, <1>3, LineGrows
<1>5. Typed'
  BY <1>1, <1>2, <1>4, FramingAssumption DEF Typed
<1>6. FramesOnLine'
  <2> SUFFICES ASSUME NEW i \in 1 .. Len(frames)
               PROVE  /\ frames[i].msg.mid \in MIDs
                      /\ frames[i].msg.payload \in Payloads
                      /\ frames[i].at >= 1
                      /\ Within(FrameOf(frames[i]), stream', frames[i].at - 1)
    BY <1>1 DEF FramesOnLine, FrameOf
  <2>1. /\ frames[i].msg.mid \in MIDs /\ frames[i].msg.payload \in Payloads
        /\ frames[i].at >= 1 /\ Within(FrameOf(frames[i]), stream, frames[i].at - 1)
    BY DEF Inv, FramesOnLine
  <2>2. FrameOf(frames[i]) \in Seq(Bytes)
    BY <2>1, FrameIsFound DEF FrameOf
  <2>3. frames[i].at - 1 \in Nat
    <3>1. frames[i] \in Entries
      BY <1>2, ElementOfSeq
    <3> QED BY <3>1, <2>1 DEF Entries
  <2> QED BY <1>2, <1>4, <2>1, <2>2, <2>3, WithinGrows
<1>7. InARow'
  BY <1>1, <1>2 DEF InARow
<1> QED BY <1>4, <1>5, <1>6, <1>7 DEF Inv

LEMMA ReadInv ==
  ASSUME Inv, NEW n \in 1 .. Len(stream), Read(n)
  PROVE  Inv'
<1> DEFINE s     == stream
           r     == read
           seen  == SubSeq(s, 1, r)
           had   == buffer \o SubSeq(s, r + 1, r + n)
           now   == SubSeq(s, 1, r + n)
           begin == r - Len(buffer)
<1>1. /\ r + n <= Len(s) /\ read' = r + n
      /\ stream' = s /\ frames' = frames /\ noise' = noise
      /\ buffer' = SubSeq(had, From(had)[1].kept, Len(had))
      /\ out' = out \o Shifted(From(had)[1].messages, begin)
  BY DrainIsFrom DEF Read, Shifted
<1>2. Typed /\ s \in Seq(Bytes) /\ r \in 0 .. Len(s) /\ n \in Nat
  BY DEF Inv, Typed
<1>3. out = From(seen)[1].messages /\ buffer = SubSeq(seen, From(seen)[1].kept, r)
  BY <1>2, Reading DEF Inv
<1>4. Typed'
  BY <1>1, <1>2 DEF Typed
<1>5. /\ From(now)[1].messages = out \o Shifted(From(had)[1].messages, begin)
      /\ SubSeq(had, From(had)[1].kept, Len(had)) = SubSeq(now, From(now)[1].kept, r + n)
  BY <1>1, <1>2, <1>3, ReadsOn, Zenon
<1> HIDE DEF had, begin
<1>6. out' = Drain(now).messages /\ buffer' = SubSeq(now, Drain(now).kept, r + n)
  BY <1>1, <1>5, DrainIsFrom
<1>7. ChunkingIsInvisible'
  BY <1>1, <1>6 DEF ChunkingIsInvisible
<1>8. FramesOnLine' /\ InARow'
  BY <1>1 DEF Inv, FramesOnLine, FrameOf, InARow, EndOf
<1> QED BY <1>4, <1>7, <1>8 DEF Inv

LEMMA NextInv == Inv /\ [Next]_vars => Inv'
<1> SUFFICES ASSUME Inv, [Next]_vars PROVE Inv'
  OBVIOUS
<1>1. ASSUME NEW mid \in MIDs, NEW payload \in Payloads, SendFrame(mid, payload)
      PROVE  Inv'
  BY <1>1, SendFrameInv
<1>2. ASSUME NEW byte \in Bytes, SendNoise(byte) PROVE Inv'
  BY <1>2, SendNoiseInv
<1>3. ASSUME NEW n \in 1 .. Len(stream), Read(n) PROVE Inv'
  BY <1>3, ReadInv
<1>4. CASE UNCHANGED vars
  BY <1>4 DEF vars, Inv, Typed, ChunkingIsInvisible, FramesOnLine, FrameOf, InARow, EndOf
<1> QED BY <1>1, <1>2, <1>3, <1>4 DEF Next

\* The invariant of the line and the reader: what is read is drained as if it
\* had come at once, and the frames are where they were sent.
THEOREM InvAlways == Spec => []Inv
<1>1. Init => Inv
  BY InitInv
<1>2. Inv /\ [Next]_vars => Inv'
  BY NextInv
<1> QED BY <1>1, <1>2, PTL DEF Spec

----------------------------------------------------------------------------
\* Types, and the two decoders.

LEMMA InvTypes == Inv => TypeOK
<1> SUFFICES ASSUME Inv PROVE TypeOK
  OBVIOUS
<1> DEFINE seen == SubSeq(stream, 1, read)
           k    == From(seen)[1].kept
<1>1. Typed /\ ChunkingIsInvisible
  BY DEF Inv
<1>2. /\ seen \in Seq(Bytes) /\ Len(seen) = read /\ k \in 1 .. read + 1 /\ Stops(seen, k)
      /\ out \in Seq(Entries) /\ buffer \in Seq(Bytes) /\ Len(buffer) = read + 1 - k
  BY <1>1, Reading
<1> HIDE DEF seen, k
<1>3. Len(buffer) < 7 + Base * Base
  BY <1>2, WaitsForLess
<1> QED BY <1>1, <1>2, <1>3 DEF Typed, TypeOK

\* What is on the line, in the accumulator and decoded has its type, and the
\* accumulator never holds more than one frame of the greatest length that a
\* header can announce.
THEOREM TypeCorrect == Spec => []TypeOK
<1>1. Inv => TypeOK
  BY InvTypes
<1> QED BY <1>1, InvAlways, PTL

\* What is decoded, and what is kept, does not depend on the chunks in which
\* the bytes came.
THEOREM ChunkingIsInvisibleAlways == Spec => []ChunkingIsInvisible
<1>1. Inv => ChunkingIsInvisible
  BY DEF Inv
<1> QED BY <1>1, InvAlways, PTL

LEMMA InvDecoders == Inv => DecodersAgree
<1> SUFFICES ASSUME Inv PROVE DecodersAgree
  OBVIOUS
<1> DEFINE seen    == SubSeq(stream, 1, read)
           yielded == IterFrom(seen)[1]
           taken   == From(seen)[1].messages
<1>1. seen \in Seq(Bytes)
  BY Reading DEF Inv
<1> HIDE DEF seen
<1>2. 1 \in 1 .. Len(seen) + 1
  BY <1>1
<1>3. /\ yielded.messages \in Seq(Messages)
      /\ Len(yielded.messages) <= Len(taken)
      /\ \A i \in 1 .. Len(yielded.messages) : yielded.messages[i] = taken[i].msg
      /\ ~yielded.raised => Len(yielded.messages) = Len(taken)
  BY <1>1, <1>2, IterAgrees
<1>4. Iter(seen) = yielded /\ Drain(seen).messages = taken
  BY IterIsIterFrom, DrainIsFrom
<1> HIDE DEF yielded, taken
<1>5. DOMAIN yielded.messages = 1 .. Len(yielded.messages)
  BY <1>3
<1> QED BY <1>3, <1>4, <1>5 DEF DecodersAgree, seen

\* The decoder of the serial exchange yields the first of the messages that
\* the decoder of the reader takes from the same bytes, all of them unless it
\* raises.
THEOREM DecodersAgreeAlways == Spec => []DecodersAgree
<1>1. Inv => DecodersAgree
  BY InvDecoders
<1> QED BY <1>1, InvAlways, PTL

----------------------------------------------------------------------------
\* Frames that were sent, in what the reader has read.

LEMMA FrameSent ==
  ASSUME Inv, NEW i \in 1 .. Len(frames)
  PROVE  LET a == frames[i].at
             f == FrameOf(frames[i])
         IN  /\ a \in Nat /\ a >= 1 /\ f \in Seq(Bytes) /\ Len(f) >= 5
             /\ Headed(f, 1) /\ Complete(f, 1) /\ FrameLength(f, 1) = Len(f)
             /\ Verdict(f, 1) = "valid" /\ MessageAt(f, 1) = frames[i].msg
             /\ frames[i] = [at |-> a, msg |-> frames[i].msg]
             /\ Len(f) + (a - 1) <= Len(stream)
             /\ \A j \in 1 .. Len(f) : stream[j + (a - 1)] = f[j]
<1> DEFINE e == frames[i]
<1>1. /\ e.msg.mid \in MIDs /\ e.msg.payload \in Payloads /\ e.at >= 1
      /\ Within(FrameOf(e), stream, e.at - 1)
  BY DEF Inv, FramesOnLine
<1>2. e \in Entries
  <2>1. frames \in Seq(Entries)
    BY DEF Inv, Typed
  <2> QED BY <2>1, ElementOfSeq
<1>3. e.at \in Nat /\ e = [at |-> e.at, msg |-> e.msg]
      /\ e.msg = [mid |-> e.msg.mid, payload |-> e.msg.payload]
  BY <1>2 DEF Entries, Messages
<1>4. LET f == Frame(e.msg.mid, e.msg.payload)
      IN  /\ f \in Seq(Bytes) /\ Len(f) >= 5
          /\ Headed(f, 1) /\ Complete(f, 1) /\ FrameLength(f, 1) = Len(f)
          /\ Verdict(f, 1) = "valid"
          /\ MessageAt(f, 1) = [mid |-> e.msg.mid, payload |-> e.msg.payload]
  BY <1>1, FrameIsFound, Zenon
<1> QED BY <1>1, <1>3, <1>4 DEF FrameOf, Within

\* A frame whose last byte was read is valid there, and one whose last byte
\* was not makes the decoder wait.
LEMMA FrameRead ==
  ASSUME Inv, NEW i \in 1 .. Len(frames)
  PROVE  LET a == frames[i].at
             f == FrameOf(frames[i])
             seen == SubSeq(stream, 1, read)
         IN  /\ a + Len(f) <= read + 1 => /\ a \in 1 .. read
                                          /\ Verdict(seen, a) = "valid"
                                          /\ FrameLength(seen, a) = Len(f)
                                          /\ MessageAt(seen, a) = frames[i].msg
             /\ a <= read /\ read + 1 < a + Len(f) => Stops(seen, a)
<1> DEFINE a == frames[i].at
           f == FrameOf(frames[i])
           seen == SubSeq(stream, 1, read)
           msg == frames[i].msg
<1>1. /\ a \in Nat /\ a >= 1 /\ f \in Seq(Bytes) /\ Len(f) >= 5
      /\ Headed(f, 1) /\ Complete(f, 1) /\ FrameLength(f, 1) = Len(f)
      /\ Verdict(f, 1) = "valid" /\ MessageAt(f, 1) = msg
      /\ Len(f) + (a - 1) <= Len(stream)
      /\ \A j \in 1 .. Len(f) : stream[j + (a - 1)] = f[j]
  BY FrameSent
<1>2. seen \in Seq(Bytes) /\ Len(seen) = read /\ \A j \in 1 .. read : seen[j] = stream[j]
  BY Reading DEF Inv
<1>3. read \in Nat
  BY DEF Inv, Typed
<1> HIDE DEF a, f, seen, msg
<1>4. a - 1 \in Nat /\ 1 + (a - 1) = a /\ 1 \in 1 .. Len(f) /\ Len(f) \in Nat
  BY <1>1
<1>5. ASSUME a + Len(f) <= read + 1
      PROVE  /\ a \in 1 .. read /\ Verdict(seen, a) = "valid"
             /\ FrameLength(seen, a) = Len(f) /\ MessageAt(seen, a) = msg
  <2>1. Within(f, seen, a - 1)
    <3>1. ASSUME NEW j \in 1 .. Len(f) PROVE seen[j + (a - 1)] = f[j]
      <4>1. j + (a - 1) \in 1 .. read
        BY <1>1, <1>3, <1>4, <1>5
      <4> QED BY <4>1, <1>1, <1>2
    <3>2. Len(f) + (a - 1) <= Len(seen)
      BY <1>1, <1>2, <1>3, <1>4, <1>5
    <3> QED BY <3>1, <3>2 DEF Within
  <2>2. Verdict(seen, 1 + (a - 1)) = Verdict(f, 1)
    BY <1>1, <1>2, <1>4, <2>1, SameVerdict
  <2>3. /\ FrameLength(seen, 1 + (a - 1)) = FrameLength(f, 1)
        /\ MessageAt(seen, 1 + (a - 1)) = MessageAt(f, 1)
    BY <1>1, <1>2, <1>4, <2>1, SameFrame
  <2>4. a \in 1 .. read
    BY <1>1, <1>3, <1>4, <1>5
  <2> QED BY <1>1, <1>4, <2>2, <2>3, <2>4
<1>6. ASSUME a <= read, read + 1 < a + Len(f) PROVE Stops(seen, a)
  <2>1. \A j \in 1 .. Len(f) : a + j - 1 <= Len(seen) => seen[a + j - 1] = f[j]
    <3> SUFFICES ASSUME NEW j \in 1 .. Len(f), a + j - 1 <= Len(seen)
                 PROVE  seen[a + j - 1] = f[j]
      OBVIOUS
    <3>1. a + j - 1 \in 1 .. read /\ a + j - 1 = j + (a - 1)
      BY <1>1, <1>2, <1>3, <1>4
    <3>2. seen[a + j - 1] = stream[a + j - 1] /\ stream[j + (a - 1)] = f[j]
      BY <3>1, <1>1, <1>2
    <3> QED BY <3>1, <3>2
  <2>2. a \in 1 .. Len(seen) /\ Len(seen) + 1 < a + Len(f)
    BY <1>1, <1>2, <1>3, <1>6
  <2> QED BY <1>1, <1>2, <2>1, <2>2, BeginningWaits
<1> QED BY <1>5, <1>6 DEF a, f, seen, msg

\* The length of a frame that was decoded is on the line what it was in what
\* the reader had.
LEMMA LengthStays ==
  ASSUME Inv, NEW at \in 1 .. read, Verdict(SubSeq(stream, 1, read), at) = "valid"
  PROVE  /\ FrameLength(stream, at) = FrameLength(SubSeq(stream, 1, read), at)
         /\ FrameLength(stream, at) \in Nat /\ FrameLength(stream, at) >= 5
<1> DEFINE seen == SubSeq(stream, 1, read)
<1>1. seen \in Seq(Bytes) /\ Len(seen) = read /\ \A j \in 1 .. read : seen[j] = stream[j]
  BY Reading DEF Inv
<1>2. stream \in Seq(Bytes) /\ read \in 0 .. Len(stream)
  BY DEF Inv, Typed
<1>3. Verdict(seen, at) = "valid"
  OBVIOUS
<1> HIDE DEF seen
<1>4. Within(seen, stream, 0)
  <2>1. ASSUME NEW j \in 1 .. Len(seen) PROVE stream[j + 0] = seen[j]
    <3>1. j + 0 = j /\ j \in 1 .. read
      BY <1>1
    <3> QED BY <3>1, <1>1
  <2> QED BY <2>1, <1>1, <1>2 DEF Within
<1>5. at \in 1 .. Len(seen) /\ at + 0 = at /\ 0 \in Nat
  BY <1>1
<1>6. /\ Headed(seen, at) /\ Complete(seen, at)
      /\ FrameLength(seen, at) \in Nat /\ FrameLength(seen, at) >= 5
  BY <1>1, <1>3, <1>5, ValidFits
<1>7. FrameLength(stream, at + 0) = FrameLength(seen, at)
  BY <1>1, <1>2, <1>4, <1>5, <1>6, SameFrame
<1> QED BY <1>5, <1>6, <1>7 DEF seen

LEMMA InvSkipped == Inv => NoFrameIsSkipped
<1> SUFFICES ASSUME Inv, NEW i \in DOMAIN frames,
                    Places(frames[i]) \subseteq 1 .. read - Len(buffer)
             PROVE  \E j \in DOMAIN out : Taken(out[j]) \cap Places(frames[i]) # {}
  BY DEF NoFrameIsSkipped
<1> DEFINE a == frames[i].at
           f == FrameOf(frames[i])
           n == Len(f)
           seen == SubSeq(stream, 1, read)
           k == From(seen)[1].kept
<1>1. i \in 1 .. Len(frames)
  BY DEF Inv, Typed
<1>2. Places(frames[i]) = a .. a + n - 1
  BY DEF Places, FrameOf
<1>3. a \in Nat /\ a >= 1 /\ n \in Nat /\ n >= 5
  <2>1. a \in Nat /\ a >= 1 /\ f \in Seq(Bytes) /\ Len(f) >= 5
    BY <1>1, FrameSent
  <2> HIDE DEF a, f
  <2> QED BY <2>1
<1>4. a + n <= read + 1 => /\ a \in 1 .. read /\ Verdict(seen, a) = "valid"
                           /\ FrameLength(seen, a) = n
  BY <1>1, FrameRead
<1>5. /\ seen \in Seq(Bytes) /\ Len(seen) = read /\ k \in 1 .. read + 1
      /\ out = From(seen)[1].messages /\ out \in Seq(Entries)
      /\ Len(buffer) = read + 1 - k
  BY Reading DEF Inv
<1>6. read \in Nat
  BY DEF Inv, Typed
<1> HIDE DEF a, n, seen, k
<1>7. a + n <= k /\ a + n <= read + 1
  <2>1. a + n - 1 \in Places(frames[i])
    BY <1>2, <1>3
  <2>2. a + n - 1 \in 1 .. read - Len(buffer)
    BY <2>1
  <2> QED BY <2>2, <1>3, <1>5, <1>6
<1>8. a \in 1 .. Len(seen) /\ 1 \in 1 .. a /\ a + FrameLength(seen, a) <= From(seen)[1].kept
  BY <1>3, <1>4, <1>5, <1>7 DEF k
<1>9. PICK j \in 1 .. Len(From(seen)[1].messages) :
             LET at == From(seen)[1].messages[j].at
             IN  /\ at \in 1 .. Len(seen) /\ Verdict(seen, at) = "valid"
                 /\ at < a + FrameLength(seen, a)
                 /\ a < at + FrameLength(seen, at)
  BY <1>4, <1>5, <1>7, <1>8, FrameIsMet
<1> DEFINE at == out[j].at
<1>10. /\ j \in DOMAIN out /\ at \in 1 .. read /\ Verdict(seen, at) = "valid"
       /\ at < a + n /\ a < at + FrameLength(seen, at)
  BY <1>4, <1>5, <1>7, <1>9
<1>11. /\ FrameLength(stream, at) = FrameLength(seen, at)
       /\ FrameLength(stream, at) \in Nat /\ FrameLength(stream, at) >= 5
  BY <1>10, LengthStays DEF seen
<1>12. Taken(out[j]) = at .. at + FrameLength(stream, at) - 1
  BY DEF Taken
<1> DEFINE l == FrameLength(stream, at)
           c == IF a <= at THEN at ELSE a
<1>13. at \in Int /\ l \in Nat /\ l >= 5 /\ at < a + n /\ a < at + l
  BY <1>10, <1>11
<1> HIDE DEF at, l
<1>14. c \in at .. at + l - 1 /\ c \in a .. a + n - 1
  BY <1>3, <1>13
<1> HIDE DEF c
<1>15. c \in Taken(out[j]) \cap Places(frames[i])
  BY <1>2, <1>12, <1>14 DEF at, l
<1> QED BY <1>10, <1>15

\* A frame that was sent and has left the accumulator was decoded, or a
\* message was found at bytes of it: noise takes no frame behind it along.
THEOREM NoFrameIsSkippedAlways == Spec => []NoFrameIsSkipped
<1>1. Inv => NoFrameIsSkipped
  BY InvSkipped
<1> QED BY <1>1, InvAlways, PTL

----------------------------------------------------------------------------
\* A line without noise.

LEMMA EndFacts ==
  ASSUME Inv, noise = 0
  PROVE  /\ EndOf(frames, 0) = 1
         /\ \A i \in 0 .. Len(frames) : EndOf(frames, i) \in Nat
         /\ \A i \in 1 .. Len(frames) :
              /\ frames[i].at = EndOf(frames, i - 1)
              /\ EndOf(frames, i) = frames[i].at + Len(FrameOf(frames[i]))
              /\ EndOf(frames, i) >= EndOf(frames, i - 1) + 5
         /\ Len(stream) + 1 = EndOf(frames, Len(frames))
<1> DEFINE N == Len(frames)
<1>1. N \in Nat
  BY DEF Inv, Typed
<1>2. /\ \A i \in 1 .. N : frames[i].at = EndOf(frames, i - 1)
      /\ Len(stream) + 1 = EndOf(frames, N)
  BY DEF Inv, InARow
<1>3. EndOf(frames, 0) = 1
  BY DEF EndOf
<1>4. ASSUME NEW i \in 1 .. N
      PROVE  /\ EndOf(frames, i) = frames[i].at + Len(FrameOf(frames[i]))
             /\ EndOf(frames, i) \in Nat
             /\ EndOf(frames, i) >= EndOf(frames, i - 1) + 5
  <2> DEFINE a == frames[i].at
             l == Len(FrameOf(frames[i]))
  <2>1. a \in Nat /\ l \in Nat /\ l >= 5
    <3>1. a \in Nat /\ FrameOf(frames[i]) \in Seq(Bytes) /\ l >= 5
      BY FrameSent
    <3> HIDE DEF a
    <3> QED BY <3>1
  <2>2. i # 0
    BY <1>1
  <2>3. EndOf(frames, i) = a + l
    BY <2>2 DEF EndOf
  <2>4. a = EndOf(frames, i - 1)
    BY <1>2
  <2> HIDE DEF a, l
  <2>5. a + l \in Nat /\ a + l >= a + 5
    BY <2>1
  <2> QED BY <2>3, <2>4, <2>5 DEF a, l
<1>5. ASSUME NEW i \in 0 .. N PROVE EndOf(frames, i) \in Nat
  <2>1. CASE i = 0
    BY <2>1, <1>3
  <2>2. CASE i # 0
    <3>1. i \in 1 .. N
      BY <1>1, <2>2
    <3> QED BY <3>1, <1>4
  <2> QED BY <2>1, <2>2
<1> QED BY <1>2, <1>3, <1>4, <1>5

LEMMA EndGrows ==
  ASSUME Inv, noise = 0, NEW j \in 0 .. Len(frames), NEW i \in 0 .. j
  PROVE  EndOf(frames, i) <= EndOf(frames, j)
<1> DEFINE N == Len(frames)
           E(x) == EndOf(frames, x)
           P == {y \in 0 .. N : \A x \in 0 .. y : E(x) <= E(y)}
<1>1. N \in Nat
  BY DEF Inv, Typed
<1>2. (\A x \in 0 .. N : E(x) \in Nat) /\ \A x \in 1 .. N : E(x) >= E(x - 1) + 5
  BY EndFacts
<1> HIDE DEF E
<1>3. 0 \in P
  BY <1>1, <1>2
<1>4. ASSUME NEW y \in 0 .. N - 1, y \in P PROVE y + 1 \in P
  <2>1. y + 1 \in 0 .. N /\ y + 1 \in 1 .. N /\ (y + 1) - 1 = y
    BY <1>1
  <2>2. E(y + 1) >= E(y) + 5 /\ E(y) \in Nat /\ E(y + 1) \in Nat
    BY <1>1, <1>2, <2>1
  <2>3. ASSUME NEW x \in 0 .. y + 1 PROVE E(x) <= E(y + 1)
    <3>1. CASE x = y + 1
      BY <3>1, <2>2
    <3>2. CASE x \in 0 .. y
      <4>1. E(x) <= E(y) /\ x \in 0 .. N
        BY <1>1, <1>4, <3>2
      <4>2. E(x) \in Nat
        BY <4>1, <1>2
      <4> QED BY <4>1, <4>2, <2>2
    <3> QED BY <3>1, <3>2
  <2> QED BY <2>1, <2>3
<1>5. P = 0 .. N
  <2>1. P \in SUBSET (0 .. N)
    OBVIOUS
  <2> HIDE DEF P
  <2> QED BY <1>1, <1>3, <1>4, <2>1, Upward
<1>6. E(i) <= E(j)
  <2>1. j \in P
    BY <1>5
  <2> QED BY <2>1
<1> QED BY <1>6 DEF E

\* The last frame whose last byte was read.
LEMMA LastRead ==
  ASSUME Inv, noise = 0
  PROVE  \E m \in 0 .. Len(frames) :
            /\ EndOf(frames, m) <= read + 1
            /\ m = Len(frames) \/ read + 1 < EndOf(frames, m + 1)
<1> DEFINE N == Len(frames)
           E(x) == EndOf(frames, x)
           P == {y \in 0 .. N : E(y) <= read + 1}
<1>1. N \in Nat /\ read \in Nat
  BY DEF Inv, Typed
<1>2. E(0) = 1 /\ \A x \in 0 .. N : E(x) \in Nat
  BY EndFacts
<1> HIDE DEF E
<1>3. 0 \in P
  BY <1>1, <1>2
<1>4. SUFFICES ASSUME \A m \in 0 .. N : E(m) <= read + 1 =>
                         m # N /\ ~(read + 1 < E(m + 1))
               PROVE  FALSE
  BY DEF E
<1>5. ASSUME NEW y \in 0 .. N - 1, y \in P PROVE y + 1 \in P
  <2>1. y \in 0 .. N /\ y + 1 \in 0 .. N
    BY <1>1
  <2>2. E(y + 1) \in Nat /\ ~(read + 1 < E(y + 1))
    BY <1>2, <1>4, <1>5, <2>1
  <2> QED BY <1>1, <2>1, <2>2
<1>6. P = 0 .. N
  <2>1. P \in SUBSET (0 .. N)
    OBVIOUS
  <2> HIDE DEF P
  <2> QED BY <1>1, <1>3, <1>5, <2>1, Upward
<1>7. N \in P
  BY <1>1, <1>6
<1> QED BY <1>1, <1>4, <1>7

\* From the end of one frame on, the frames behind it are decoded that were
\* read to their end.
LEMMA CleanFrom ==
  ASSUME Inv, noise = 0, NEW m \in 0 .. Len(frames),
         EndOf(frames, m) <= read + 1,
         m = Len(frames) \/ read + 1 < EndOf(frames, m + 1),
         NEW i \in 0 .. m
  PROVE  LET ms == From(SubSeq(stream, 1, read))[EndOf(frames, i)].messages
         IN  /\ ms \in Seq(Entries) /\ Len(ms) = m - i
             /\ \A j \in 1 .. m - i : ms[j] = frames[j + i]
<1> DEFINE N == Len(frames)
           seen == SubSeq(stream, 1, read)
           E(x) == EndOf(frames, x)
           T(x) == From(seen)[E(x)].messages
           Good(x) == /\ T(x) \in Seq(Entries) /\ Len(T(x)) = m - x
                      /\ \A j \in 1 .. m - x : T(x)[j] = frames[j + x]
           P == {x \in 0 .. m : Good(x)}
<1>1. N \in Nat /\ read \in 0 .. Len(stream) /\ Len(stream) \in Nat /\ frames \in Seq(Entries)
  BY DEF Inv, Typed
<1>2. seen \in Seq(Bytes) /\ Len(seen) = read
  BY Reading DEF Inv
<1>3. /\ E(0) = 1 /\ \A x \in 0 .. N : E(x) \in Nat
      /\ \A x \in 1 .. N : /\ frames[x].at = E(x - 1) /\ E(x) >= E(x - 1) + 5
                           /\ E(x) = frames[x].at + Len(FrameOf(frames[x]))
      /\ Len(stream) + 1 = E(N)
  BY EndFacts
<1>4. E(m) <= read + 1 /\ (m = N \/ read + 1 < E(m + 1))
  OBVIOUS
<1>5. \A x \in 0 .. m : E(x) <= E(m) /\ 1 <= E(x)
  <2> SUFFICES ASSUME NEW x \in 0 .. m PROVE E(x) <= E(m) /\ E(0) <= E(x)
    BY <1>3
  <2>1. x \in 0 .. N /\ 0 \in 0 .. x
    BY <1>1
  <2> QED BY <2>1, EndGrows
<1>6. \A x \in 1 .. N :
        /\ E(x) <= read + 1 => /\ E(x - 1) \in 1 .. read
                               /\ Verdict(seen, E(x - 1)) = "valid"
                               /\ E(x - 1) + FrameLength(seen, E(x - 1)) = E(x)
                               /\ MessageAt(seen, E(x - 1)) = frames[x].msg
        /\ E(x - 1) <= read /\ read + 1 < E(x) => Stops(seen, E(x - 1))
  <2> SUFFICES ASSUME NEW x \in 1 .. N
               PROVE  /\ E(x) <= read + 1 =>
                           /\ E(x - 1) \in 1 .. read
                           /\ Verdict(seen, E(x - 1)) = "valid"
                           /\ E(x - 1) + FrameLength(seen, E(x - 1)) = E(x)
                           /\ MessageAt(seen, E(x - 1)) = frames[x].msg
                      /\ E(x - 1) <= read /\ read + 1 < E(x) => Stops(seen, E(x - 1))
    OBVIOUS
  <2>1. frames[x].at = E(x - 1) /\ E(x) = E(x - 1) + Len(FrameOf(frames[x]))
    BY <1>3
  <2>2. /\ frames[x].at + Len(FrameOf(frames[x])) <= read + 1
             => /\ frames[x].at \in 1 .. read
                /\ Verdict(seen, frames[x].at) = "valid"
                /\ FrameLength(seen, frames[x].at) = Len(FrameOf(frames[x]))
                /\ MessageAt(seen, frames[x].at) = frames[x].msg
        /\ frames[x].at <= read /\ read + 1 < frames[x].at + Len(FrameOf(frames[x]))
             => Stops(seen, frames[x].at)
    BY FrameRead
  <2> HIDE DEF E, seen
  <2> QED BY <2>1, <2>2
<1> HIDE DEF seen, E
<1>7. Good(m)
  <2>1. m \in 0 .. N /\ m \in Nat
    BY <1>1
  <2>2. E(m) \in 1 .. Len(seen) + 1
    BY <1>1, <1>2, <1>3, <1>4, <1>5, <2>1
  <2>3. Stops(seen, E(m))
    <3>1. CASE E(m) = read + 1
      BY <3>1, <1>2 DEF Stops
    <3>2. CASE E(m) # read + 1
      <4>1. E(m) <= read /\ m # N
        BY <1>1, <1>3, <1>4, <2>1, <3>2
      <4>2. m + 1 \in 1 .. N /\ (m + 1) - 1 = m /\ read + 1 < E(m + 1)
        BY <1>1, <1>4, <2>1, <4>1
      <4> QED BY <4>1, <4>2, <1>6
    <3> QED BY <3>1, <3>2
  <2>4. T(m) = <<>>
    BY <1>2, <2>2, <2>3, FromStops
  <2>5. m - m = 0 /\ Len(<<>>) = 0 /\ <<>> \in Seq(Entries) /\ 1 .. 0 = {}
    BY <2>1
  <2> QED BY <2>4, <2>5
<1>8. ASSUME NEW x \in 0 .. m - 1, x + 1 \in P PROVE Good(x)
  <2> DEFINE e == [at |-> E(x), msg |-> MessageAt(seen, E(x))]
  <2>1. /\ x + 1 \in 0 .. m /\ x + 1 \in 1 .. N /\ (x + 1) - 1 = x
        /\ m - x = 1 + (m - (x + 1)) /\ m - (x + 1) \in Nat
    BY <1>1
  <2>2. E(x + 1) <= read + 1
    <3>1. E(x + 1) \in Nat /\ E(m) \in Nat /\ E(x + 1) <= E(m)
      BY <1>1, <1>3, <1>5, <2>1
    <3> QED BY <3>1, <1>1, <1>4
  <2>3. /\ E(x) \in 1 .. read /\ Verdict(seen, E(x)) = "valid"
        /\ E(x) + FrameLength(seen, E(x)) = E(x + 1)
        /\ MessageAt(seen, E(x)) = frames[x + 1].msg
    <3>1. E((x + 1) - 1) = E(x)
      BY <2>1
    <3> QED BY <3>1, <1>6, <2>1, <2>2
  <2>4. T(x) = <<e>> \o T(x + 1)
    BY <1>2, <2>3, FromTakes
  <2>5. e = frames[x + 1] /\ e \in Entries
    <3>1. frames[x + 1] \in Entries
      BY <1>1, <2>1, ElementOfSeq
    <3>2. frames[x + 1] = [at |-> frames[x + 1].at, msg |-> frames[x + 1].msg]
      BY <3>1 DEF Entries
    <3>3. frames[x + 1].at = E(x)
      <4>1. frames[x + 1].at = E((x + 1) - 1)
        BY <1>3, <2>1
      <4> QED BY <4>1, <2>1
    <3> QED BY <3>1, <3>2, <3>3, <2>3
  <2>6. /\ T(x + 1) \in Seq(Entries) /\ Len(T(x + 1)) = m - (x + 1)
        /\ \A j \in 1 .. m - (x + 1) : T(x + 1)[j] = frames[j + (x + 1)]
    BY <1>8
  <2> HIDE DEF T, e
  <2>7. /\ T(x) \in Seq(Entries) /\ Len(T(x)) = 1 + Len(T(x + 1)) /\ T(x)[1] = e
        /\ \A j \in 1 .. Len(T(x + 1)) : T(x)[j + 1] = T(x + 1)[j]
    BY <2>4, <2>5, <2>6, ConsFacts
  <2>8. ASSUME NEW j \in 1 .. m - x PROVE T(x)[j] = frames[j + x]
    <3>1. CASE j = 1
      <4>1. j + x = x + 1
        BY <3>1
      <4> QED BY <3>1, <4>1, <2>5, <2>7
    <3>2. CASE j # 1
      <4>1. /\ j - 1 \in 1 .. m - (x + 1) /\ (j - 1) + 1 = j
            /\ (j - 1) + (x + 1) = j + x
        BY <2>1, <3>2
      <4>2. T(x)[(j - 1) + 1] = T(x + 1)[j - 1] /\ T(x + 1)[j - 1] = frames[(j - 1) + (x + 1)]
        BY <4>1, <2>6, <2>7
      <4> QED BY <4>1, <4>2
    <3> QED BY <3>1, <3>2
  <2>9. Len(T(x)) = m - x
    BY <2>1, <2>6, <2>7
  <2> QED BY <2>7, <2>8, <2>9
<1>9. P = 0 .. m
  <2>1. P \in SUBSET (0 .. m) /\ m \in Int /\ 0 \in Int
    BY <1>1
  <2>2. \A x \in 0 .. m : (\A q \in x + 1 .. m : q \in P) => x \in P
    <3> SUFFICES ASSUME NEW x \in 0 .. m, \A q \in x + 1 .. m : q \in P PROVE Good(x)
      OBVIOUS
    <3>1. CASE x = m
      BY <3>1, <1>7
    <3>2. CASE x # m
      <4>1. x \in 0 .. m - 1 /\ x + 1 \in x + 1 .. m
        BY <1>1, <3>2
      <4>2. x + 1 \in P
        BY <4>1
      <4> HIDE DEF Good, P
      <4> QED BY <4>1, <4>2, <1>8
    <3> QED BY <3>1, <3>2
  <2> HIDE DEF P
  <2> QED BY <2>1, <2>2, Downward
<1>10. Good(i)
  <2> HIDE DEF Good
  <2> QED BY <1>9
<1> QED BY <1>10 DEF seen, E

LEMMA InvClean == Inv => CleanStreamIsExact
<1> SUFFICES ASSUME Inv, noise = 0, NEW i \in 1 .. Len(frames) + Len(out)
             PROVE  /\ i <= Len(out) <=> /\ i <= Len(frames)
                                         /\ Places(frames[i]) \subseteq 1 .. read
                    /\ i <= Len(out) => out[i] = frames[i]
  BY DEF CleanStreamIsExact
<1> DEFINE N == Len(frames)
           E(x) == EndOf(frames, x)
<1>1. N \in Nat /\ read \in Nat
  BY DEF Inv, Typed
<1>2. PICK m \in 0 .. N : E(m) <= read + 1 /\ (m = N \/ read + 1 < E(m + 1))
  BY LastRead
<1>3. Len(out) = m /\ \A j \in 1 .. m : out[j] = frames[j]
  <2>1. 0 \in 0 .. m /\ m - 0 = m /\ \A j \in 1 .. m : j + 0 = j
    BY <1>1
  <2> DEFINE ms == From(SubSeq(stream, 1, read))[E(0)].messages
  <2>2. Len(ms) = m - 0 /\ \A j \in 1 .. m - 0 : ms[j] = frames[j + 0]
    BY <1>2, <2>1, CleanFrom
  <2>3. E(0) = 1
    BY EndFacts
  <2>4. out = From(SubSeq(stream, 1, read))[1].messages
    BY Reading DEF Inv
  <2>5. out = ms
    BY <2>3, <2>4
  <2> HIDE DEF ms
  <2> QED BY <2>1, <2>2, <2>5
<1>4. /\ \A x \in 0 .. N : E(x) \in Nat
      /\ \A x \in 1 .. N : /\ frames[x].at = E(x - 1) /\ E(x) >= E(x - 1) + 5
                           /\ E(x) = frames[x].at + Len(FrameOf(frames[x]))
                           /\ 1 <= E(x - 1)
  <2>1. /\ E(0) = 1 /\ \A x \in 0 .. N : E(x) \in Nat
        /\ \A x \in 1 .. N : /\ frames[x].at = E(x - 1) /\ E(x) >= E(x - 1) + 5
                             /\ E(x) = frames[x].at + Len(FrameOf(frames[x]))
    BY EndFacts
  <2>2. ASSUME NEW x \in 1 .. N PROVE 1 <= E(x - 1)
    <3>1. x - 1 \in 0 .. N /\ 0 \in 0 .. x - 1
      BY <1>1
    <3>2. E(0) <= E(x - 1)
      BY <3>1, EndGrows
    <3> QED BY <2>1, <3>2
  <2> QED BY <2>1, <2>2
<1>5. i <= N => (Places(frames[i]) \subseteq 1 .. read <=> E(i) <= read + 1)
  <2> SUFFICES ASSUME i <= N
               PROVE  Places(frames[i]) \subseteq 1 .. read <=> E(i) <= read + 1
    OBVIOUS
  <2>1. i \in 1 .. N /\ i - 1 \in 0 .. N /\ i \in 0 .. N
    BY <1>1, <1>3
  <2>2. Places(frames[i]) = frames[i].at .. frames[i].at + Len(FrameOf(frames[i])) - 1
    BY DEF Places, FrameOf
  <2>3. Places(frames[i]) = E(i - 1) .. E(i) - 1
    <3>1. frames[i].at = E(i - 1) /\ frames[i].at + Len(FrameOf(frames[i])) = E(i)
      BY <1>4, <2>1
    <3>2. \A x \in Nat, l \in Nat : x + l - 1 = (x + l) - 1
      OBVIOUS
    <3>3. frames[i].at \in Nat /\ Len(FrameOf(frames[i])) \in Nat
      <4>1. frames[i].at \in Nat /\ FrameOf(frames[i]) \in Seq(Bytes)
        BY <2>1, FrameSent
      <4> QED BY <4>1
    <3>4. frames[i].at + Len(FrameOf(frames[i])) - 1 = E(i) - 1
      <4>1. frames[i].at + Len(FrameOf(frames[i])) - 1
              = (frames[i].at + Len(FrameOf(frames[i]))) - 1
        BY <3>2, <3>3
      <4> QED BY <4>1, <3>1, Zenon
    <3> QED BY <3>1, <3>4, <2>2, Zenon
  <2>4. E(i - 1) \in Nat /\ E(i) \in Nat /\ 1 <= E(i - 1) /\ E(i) >= E(i - 1) + 5
    BY <1>4, <2>1
  <2> HIDE DEF E
  <2>5. E(i) - 1 \in Places(frames[i])
    BY <2>3, <2>4
  <2>6. ASSUME Places(frames[i]) \subseteq 1 .. read PROVE E(i) <= read + 1
    <3>1. E(i) - 1 \in 1 .. read
      BY <2>5, <2>6
    <3> QED BY <3>1, <2>4, <1>1
  <2>7. ASSUME E(i) <= read + 1 PROVE Places(frames[i]) \subseteq 1 .. read
    BY <2>3, <2>4, <2>7, <1>1
  <2> QED BY <2>6, <2>7
<1>6. i <= m => i <= N /\ E(i) <= read + 1
  <2> SUFFICES ASSUME i <= m PROVE i <= N /\ E(i) <= read + 1
    OBVIOUS
  <2>1. i \in 0 .. m /\ i \in 0 .. N
    BY <1>1, <1>3
  <2>2. E(i) <= E(m)
    BY <2>1, EndGrows
  <2>3. E(i) \in Nat /\ E(m) \in Nat
    BY <1>4, <2>1
  <2> HIDE DEF E
  <2> QED BY <1>1, <1>2, <2>1, <2>2, <2>3
<1>7. i <= N /\ E(i) <= read + 1 => i <= m
  <2> SUFFICES ASSUME i <= N, E(i) <= read + 1, ~(i <= m) PROVE FALSE
    OBVIOUS
  <2>1. m + 1 \in 0 .. i /\ i \in 0 .. N /\ m # N /\ m + 1 \in 0 .. N
    BY <1>1, <1>3
  <2>2. E(m + 1) <= E(i)
    BY <2>1, EndGrows
  <2>3. E(i) \in Nat /\ E(m + 1) \in Nat
    BY <1>4, <2>1
  <2> HIDE DEF E
  <2> QED BY <1>1, <1>2, <2>1, <2>2, <2>3
<1>8. i <= m => out[i] = frames[i]
  BY <1>1, <1>3
<1> HIDE DEF E
<1> QED BY <1>3, <1>5, <1>6, <1>7, <1>8

\* Without noise the messages that were sent are decoded, one by one, each as
\* soon as its last byte is read, with preambles in the payload or not.
THEOREM CleanStreamIsExactAlways == Spec => []CleanStreamIsExact
<1>1. Inv => CleanStreamIsExact
  BY InvClean
<1> QED BY <1>1, InvAlways, PTL
=============================================================================
