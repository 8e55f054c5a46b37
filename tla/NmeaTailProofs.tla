--------------------------- MODULE NmeaTailProofs ---------------------------
(***************************************************************************)
(* Facts about nmea_find_tail for buffers of every length, every alphabet  *)
(* and every XOR.  All of them rest on one observation: the decision is a  *)
(* function of the bytes up to the tail of the first stop, so two buffers  *)
(* that agree that far get the same answer.                                *)
(***************************************************************************)
EXTENDS NmeaTail, SequenceTheorems, WellFoundedInduction, TLAPS

\* Two buffers with the same first n bytes.
Agree(s, t, n) ==
  /\ n <= Len(s)
  /\ n <= Len(t)
  /\ \A i \in 1..n : s[i] = t[i]

\* The delimiters are four different bytes.
LEMMA Delimiters ==
  /\ Dollar \in Byte /\ Star \in Byte /\ CR \in Byte /\ LF \in Byte
  /\ Dollar # Star /\ Dollar # CR /\ Dollar # LF
  /\ Star # CR /\ Star # LF /\ CR # LF
BY FramingAssumption

\* Every non-empty set of positions has a least element.
LEMMA LeastPosition ==
  ASSUME NEW T \in SUBSET Nat, T # {}
  PROVE  \E x \in T : \A y \in T : x <= y
<1>1. PICK x \in T : \A y \in T : ~(<<y, x>> \in OpToRel(<, Nat))
  BY NatLessThanWellFounded, WFMin, Zenon
<1>2. ASSUME NEW y \in T PROVE x <= y
  <2>1. ~(<<y, x>> \in OpToRel(<, Nat))
    BY <1>1
  <2>2. ~(y < x)
    BY <2>1 DEF OpToRel
  <2>3. QED BY <2>2
<1>3. QED BY <1>2

\* The stop the loop of nmea_find_tail breaks at is a stop, and the first.
LEMMA FirstStopIsFirst ==
  ASSUME NEW s \in Seq(Byte), Stops(s) # {}
  PROVE  /\ FirstStop(s) \in Stops(s)
         /\ FirstStop(s) \in 1..Len(s)
         /\ \A j \in Stops(s) : FirstStop(s) <= j
<1>1. Stops(s) \in SUBSET Nat
  BY DEF Stops
<1>2. \E x \in Stops(s) : \A y \in Stops(s) : x <= y
  BY <1>1, LeastPosition
<1>3. /\ FirstStop(s) \in Stops(s)
      /\ \A j \in Stops(s) : FirstStop(s) <= j
  BY <1>2 DEF FirstStop, Min
<1>4. QED BY <1>3 DEF Stops

\* A stop with none before it is the one the loop breaks at.
LEMMA FirstStopUnique ==
  ASSUME NEW s \in Seq(Byte), NEW k \in Stops(s),
         \A j \in 1..(k - 1) : j \notin Stops(s)
  PROVE  FirstStop(s) = k
<1>1. Stops(s) # {} /\ k \in 1..Len(s)
  BY DEF Stops
<1>2. /\ FirstStop(s) \in Stops(s)
      /\ FirstStop(s) \in 1..Len(s)
      /\ FirstStop(s) <= k
  BY <1>1, FirstStopIsFirst
<1>3. FirstStop(s) \notin 1..(k - 1)
  BY <1>2
<1>4. QED BY <1>1, <1>2, <1>3

\* Stops are found by looking at one byte.
LEMMA StopsAgree ==
  ASSUME NEW s \in Seq(Byte), NEW t \in Seq(Byte),
         NEW n \in Nat, Agree(s, t, n), NEW k \in 1..n
  PROVE  k \in Stops(s) <=> k \in Stops(t)
BY DEF Agree, Stops

\* The XOR is a function of the bytes it covers.
LEMMA CrcAgree ==
  ASSUME NEW s \in Seq(Byte), NEW t \in Seq(Byte),
         NEW k \in Nat, k >= 1, Agree(s, t, k - 1)
  PROVE  CrcUpTo(s, k) = CrcUpTo(t, k)
<1>1. /\ \A i \in 2..(k - 1) : s[i] \in Byte /\ t[i] \in Byte
      /\ \A i \in 2..(k - 1) : s[i] = t[i]
  BY DEF Agree
<1>2. /\ SubSeq(s, 2, k - 1) \in Seq(Byte)
      /\ Len(SubSeq(s, 2, k - 1)) = IF 2 <= k - 1 THEN k - 1 - 2 + 1 ELSE 0
      /\ \A i \in 1..(k - 1 - 2 + 1) : SubSeq(s, 2, k - 1)[i] = s[2 + i - 1]
  BY <1>1, SubSeqProperties
<1>3. /\ SubSeq(t, 2, k - 1) \in Seq(Byte)
      /\ Len(SubSeq(t, 2, k - 1)) = IF 2 <= k - 1 THEN k - 1 - 2 + 1 ELSE 0
      /\ \A i \in 1..(k - 1 - 2 + 1) : SubSeq(t, 2, k - 1)[i] = t[2 + i - 1]
  BY <1>1, SubSeqProperties
<1>4. SubSeq(s, 2, k - 1) = SubSeq(t, 2, k - 1)
  <2>1. \A i \in 1..Len(SubSeq(s, 2, k - 1)) :
           SubSeq(s, 2, k - 1)[i] = SubSeq(t, 2, k - 1)[i]
    BY <1>1, <1>2, <1>3
  <2>2. QED BY <1>2, <1>3, <2>1, SeqEqual
<1>5. QED BY <1>4 DEF CrcUpTo

\* Buffers that agree up to the first stop of one have the same first stop,
\* reached with the same XOR.
LEMMA FirstStopAgree ==
  ASSUME NEW s \in Seq(Byte), NEW t \in Seq(Byte), NEW n \in Nat,
         Agree(s, t, n), Stops(s) # {}, FirstStop(s) <= n
  PROVE  /\ Stops(t) # {}
         /\ FirstStop(t) = FirstStop(s)
         /\ t[FirstStop(s)] = s[FirstStop(s)]
         /\ CrcUpTo(t, FirstStop(s)) = CrcUpTo(s, FirstStop(s))
<1> DEFINE k == FirstStop(s)
<1>1. k \in Stops(s) /\ k \in 1..Len(s) /\ k \in 1..n
  BY FirstStopIsFirst
<1>2. k \in Stops(t)
  BY <1>1, StopsAgree
<1>3. \A j \in 1..(k - 1) : j \notin Stops(t)
  <2>1. SUFFICES ASSUME NEW j \in 1..(k - 1), j \in Stops(t) PROVE FALSE
    OBVIOUS
  <2>2. j \in 1..n
    BY <1>1
  <2>3. j \in Stops(s)
    BY <2>1, <2>2, StopsAgree
  <2>4. k <= j
    BY <2>3, FirstStopIsFirst
  <2>5. QED BY <2>4, <1>1
<1>4. FirstStop(t) = k
  BY <1>2, <1>3, FirstStopUnique
<1>5. t[k] = s[k]
  BY <1>1 DEF Agree
<1>6. Agree(s, t, k - 1)
  BY <1>1 DEF Agree
<1>7. CrcUpTo(t, k) = CrcUpTo(s, k)
  BY <1>1, <1>6, CrcAgree
<1>8. QED BY <1>2, <1>4, <1>5, <1>7

\* The '*' case looks at the four bytes behind the '*' and at the XOR.
LEMMA AtStarAgree ==
  ASSUME NEW s \in Seq(Byte), NEW t \in Seq(Byte), NEW n \in Nat,
         Agree(s, t, n), NEW k \in 1..n, k + 4 <= n,
         CrcUpTo(t, k) = CrcUpTo(s, k)
  PROVE  AtStar(s, k) = AtStar(t, k)
<1>1. /\ s[k + 1] = t[k + 1] /\ s[k + 2] = t[k + 2]
      /\ s[k + 3] = t[k + 3] /\ s[k + 4] = t[k + 4]
  BY DEF Agree
<1>2. Closed(s, k) <=> Closed(t, k)
  BY <1>1 DEF Agree, Closed, TailSize
<1>3. QED BY <1>1, <1>2 DEF AtStar

\* The four outcomes at a '*'.
LEMMA AtStarCases ==
  ASSUME NEW s \in Seq(Byte), NEW k \in 1..Len(s)
  PROVE  \/ ~Closed(s, k) /\ AtStar(s, k) = NoTail
         \/ /\ Closed(s, k) /\ k + 4 <= Len(s)
            /\ HexVal(s[k + 1], s[k + 2]) \in Int
            /\ \/ /\ HexVal(s[k + 1], s[k + 2]) # CrcUpTo(s, k)
                  /\ AtStar(s, k) = [nread |-> k + 4, crc |-> -1]
               \/ /\ HexVal(s[k + 1], s[k + 2]) = CrcUpTo(s, k)
                  /\ CrcUpTo(s, k) < 0
                  /\ AtStar(s, k) = [nread |-> 0, crc |-> CrcUpTo(s, k)]
               \/ /\ HexVal(s[k + 1], s[k + 2]) = CrcUpTo(s, k)
                  /\ CrcUpTo(s, k) >= 0
                  /\ AtStar(s, k) = [nread |-> k + 4, crc |-> CrcUpTo(s, k)]
<1>1. CASE ~Closed(s, k)
  BY <1>1 DEF AtStar
<1>2. CASE Closed(s, k)
  <2> DEFINE res == HexVal(s[k + 1], s[k + 2])
  <2>1. k + 4 <= Len(s)
    BY <1>2 DEF Closed, TailSize
  <2>2. s[k + 1] \in Byte /\ s[k + 2] \in Byte
    BY <2>1
  <2>3. res \in Int
    BY <2>2, FramingAssumption
  <2>4. CASE res # CrcUpTo(s, k)
    BY <1>2, <2>1, <2>3, <2>4 DEF AtStar, TailSize
  <2>5. CASE res = CrcUpTo(s, k)
    <3>1. AtStar(s, k) = [nread |-> IF res < 0 THEN 0 ELSE k + TailSize - 1, crc |-> res]
      BY <1>2, <2>5 DEF AtStar
    <3>2. QED BY <1>2, <2>1, <2>3, <2>5, <3>1 DEF TailSize
  <2>6. QED BY <2>4, <2>5
<1>3. QED BY <1>1, <1>2

\* nmea_find_tail returns 0 or a position of the buffer.
LEMMA FindTailType ==
  ASSUME NEW s \in Seq(Byte)
  PROVE  nmea_find_tail(s).nread \in 0..Len(s)
<1>1. CASE Stops(s) = {}
  BY <1>1 DEF nmea_find_tail, NoTail
<1>2. CASE Stops(s) # {} /\ s[FirstStop(s)] = Dollar
  BY <1>2, FirstStopIsFirst DEF nmea_find_tail
<1>3. CASE Stops(s) # {} /\ s[FirstStop(s)] # Dollar
  <2> DEFINE k == FirstStop(s)
  <2>1. k \in 1..Len(s)
    BY <1>3, FirstStopIsFirst
  <2>2. nmea_find_tail(s) = AtStar(s, k)
    BY <1>3 DEF nmea_find_tail
  <2>3. QED BY <2>1, <2>2, AtStarCases DEF NoTail
<1>4. QED BY <1>1, <1>2, <1>3

\* The check sum returned is an integer.
LEMMA CrcIsInt ==
  ASSUME NEW s \in Seq(Byte)
  PROVE  nmea_find_tail(s).crc \in Int
<1>1. CASE Stops(s) = {} \/ s[FirstStop(s)] = Dollar
  BY <1>1 DEF nmea_find_tail, NoTail
<1>2. CASE Stops(s) # {} /\ s[FirstStop(s)] # Dollar
  <2> DEFINE k == FirstStop(s)
  <2>1. k \in 1..Len(s)
    BY <1>2, FirstStopIsFirst
  <2>2. nmea_find_tail(s) = AtStar(s, k)
    BY <1>2 DEF nmea_find_tail
  <2>3. QED BY <2>1, <2>2, AtStarCases DEF NoTail
<1>3. QED BY <1>1, <1>2

\* More bytes behind a decided front change nothing.
LEMMA DecisionExtends ==
  ASSUME NEW s \in Seq(Byte), NEW t \in Seq(Byte), Agree(s, t, Len(s)),
         nmea_find_tail(s).nread # 0
  PROVE  nmea_find_tail(t) = nmea_find_tail(s)
<1> DEFINE k == FirstStop(s)
<1>1. Stops(s) # {}
  BY DEF nmea_find_tail, NoTail
<1>2. k \in 1..Len(s) /\ Len(s) \in Nat
  BY <1>1, FirstStopIsFirst
<1>3. /\ Stops(t) # {} /\ FirstStop(t) = k /\ t[k] = s[k]
      /\ CrcUpTo(t, k) = CrcUpTo(s, k)
  BY <1>1, <1>2, FirstStopAgree
<1>4. CASE s[k] = Dollar
  BY <1>1, <1>3, <1>4 DEF nmea_find_tail
<1>5. CASE s[k] # Dollar
  <2>1. nmea_find_tail(s) = AtStar(s, k) /\ nmea_find_tail(t) = AtStar(t, k)
    BY <1>1, <1>3, <1>5 DEF nmea_find_tail
  <2>2. Closed(s, k)
    BY <1>2, <2>1, AtStarCases DEF NoTail
  <2>3. k + 4 <= Len(s)
    BY <2>2 DEF Closed, TailSize
  <2>4. AtStar(s, k) = AtStar(t, k)
    BY <1>2, <1>3, <2>3, AtStarAgree
  <2>5. QED BY <2>1, <2>4
<1>6. QED BY <1>4, <1>5

\* More bytes behind a blocked front leave it blocked.
LEMMA BlockedExtends ==
  ASSUME NEW s \in Seq(Byte), NEW t \in Seq(Byte), Agree(s, t, Len(s)), Blocked(s)
  PROVE  Blocked(t)
<1> DEFINE k == FirstStop(s)
<1>1. /\ Stops(s) # {} /\ s[k] = Star
      /\ Len(s) >= k + 4
      /\ \/ s[k + 3] # CR \/ s[k + 4] # LF
         \/ HexVal(s[k + 1], s[k + 2]) = CrcUpTo(s, k) /\ CrcUpTo(s, k) < 0
  BY DEF Blocked, TailSize
<1>2. k \in 1..Len(s) /\ Len(s) \in Nat /\ Len(s) <= Len(t)
  BY <1>1, FirstStopIsFirst DEF Agree
<1>3. /\ Stops(t) # {} /\ FirstStop(t) = k /\ t[k] = s[k]
      /\ CrcUpTo(t, k) = CrcUpTo(s, k)
  BY <1>1, <1>2, FirstStopAgree
<1> HIDE DEF k
<1>4. /\ t[k + 1] = s[k + 1] /\ t[k + 2] = s[k + 2]
      /\ t[k + 3] = s[k + 3] /\ t[k + 4] = s[k + 4]
  BY <1>1, <1>2 DEF Agree
<1>5. Len(t) >= k + TailSize - 1
  BY <1>1, <1>2 DEF TailSize
<1>6. \/ t[k + 3] # CR \/ t[k + 4] # LF
      \/ HexVal(t[k + 1], t[k + 2]) = CrcUpTo(t, k) /\ CrcUpTo(t, k) < 0
  BY <1>1, <1>3, <1>4
<1>7. QED BY <1>1, <1>3, <1>5, <1>6 DEF Blocked

\* A cut of a buffer agrees with it.
LEMMA CutAgrees ==
  ASSUME NEW s \in Seq(Byte), NEW n \in 0..Len(s)
  PROVE  /\ SubSeq(s, 1, n) \in Seq(Byte)
         /\ Len(SubSeq(s, 1, n)) = n
         /\ Agree(s, SubSeq(s, 1, n), n)
         /\ Agree(SubSeq(s, 1, n), s, n)
<1>1. \A i \in 1..n : s[i] \in Byte
  OBVIOUS
<1>2. /\ SubSeq(s, 1, n) \in Seq(Byte)
      /\ Len(SubSeq(s, 1, n)) = IF 1 <= n THEN n - 1 + 1 ELSE 0
      /\ \A i \in 1..(n - 1 + 1) : SubSeq(s, 1, n)[i] = s[1 + i - 1]
  BY <1>1, SubSeqProperties
<1>3. QED BY <1>2 DEF Agree

\* So does a longer buffer.
LEMMA ConcatAgrees ==
  ASSUME NEW s \in Seq(Byte), NEW c \in Seq(Byte)
  PROVE  s \o c \in Seq(Byte) /\ Agree(s, s \o c, Len(s))
BY ConcatProperties DEF Agree

\* What IsFrame says about the bytes of a buffer the frame is a prefix of.
LEMMA FrameInPlace ==
  ASSUME NEW s \in Seq(Byte), NEW n \in 1..Len(s), NEW k \in Int, k = n - 4
  PROVE  IsFrame(SubSeq(s, 1, n)) <=>
           /\ k >= 1
           /\ Stops(s) # {} /\ FirstStop(s) = k
           /\ s[k] = Star /\ s[k + 3] = CR /\ s[k + 4] = LF
           /\ HexVal(s[k + 1], s[k + 2]) = CrcUpTo(s, k)
           /\ CrcUpTo(s, k) >= 0
<1> DEFINE p == SubSeq(s, 1, n)
           q == SubSeq(p, 1, k)
<1>1. p \in Seq(Byte) /\ Len(p) = n /\ Agree(s, p, n)
  BY CutAgrees
<1>0. p = SubSeq(s, 1, n)
  OBVIOUS
<1> HIDE DEF p
<1>2. CASE k < 1
  <2>1. ~IsFrame(p)
    BY <1>1, <1>2 DEF IsFrame, TailSize
  <2>2. QED BY <1>2, <1>0, <2>1
<1>3. CASE k >= 1
  <2>1. k \in 1..n /\ k \in 0..Len(p)
    BY <1>1, <1>3
  <2>2. q \in Seq(Byte) /\ Len(q) = k /\ Agree(p, q, k) /\ Agree(q, p, k)
    BY <1>1, <2>1, CutAgrees
  <2>0. q = SubSeq(p, 1, k)
    OBVIOUS
  <2> HIDE DEF q
  <2>3. Agree(s, q, k)
    BY <1>1, <2>1, <2>2 DEF Agree
  <2>4. \A j \in 1..k : j \in Stops(q) <=> j \in Stops(s)
    BY <2>1, <2>2, <2>3, StopsAgree
  <2>5. Stops(q) \subseteq 1..k
    BY <2>2 DEF Stops
  <2>6. Stops(q) = {k} <=> (Stops(s) # {} /\ FirstStop(s) = k)
    <3>1. ASSUME Stops(q) = {k} PROVE Stops(s) # {} /\ FirstStop(s) = k
      <4>1. k \in Stops(s)
        BY <3>1, <2>1, <2>4
      <4>2. \A j \in 1..(k - 1) : j \notin Stops(s)
        BY <3>1, <2>1, <2>4
      <4>3. QED BY <4>1, <4>2, FirstStopUnique
    <3>2. ASSUME Stops(s) # {}, FirstStop(s) = k PROVE Stops(q) = {k}
      <4>1. k \in Stops(s) /\ \A j \in Stops(s) : k <= j
        BY <3>2, FirstStopIsFirst
      <4>2. \A j \in 1..k : j \in Stops(s) => j = k
        BY <4>1, <2>1
      <4>3. QED BY <4>1, <4>2, <2>1, <2>4, <2>5
    <3>3. QED BY <3>1, <3>2
  <2>7. /\ p[k] = s[k] /\ p[k + 1] = s[k + 1] /\ p[k + 2] = s[k + 2]
        /\ p[k + 3] = s[k + 3] /\ p[k + 4] = s[k + 4]
    BY <1>1, <2>1, SMTT(30) DEF Agree
  <2>8. CrcUpTo(p, k) = CrcUpTo(s, k)
    <3>1. Agree(s, p, k - 1)
      BY <1>1, <2>1 DEF Agree
    <3>2. QED BY <1>1, <2>1, <3>1, CrcAgree
  <2>9. Len(p) - TailSize + 1 = k
    BY <1>1 DEF TailSize
  <2>10. IsFrame(p) <=>
           /\ k >= 1 /\ Stops(q) = {k}
           /\ p[k] = Star /\ p[k + 3] = CR /\ p[k + 4] = LF
           /\ HexVal(p[k + 1], p[k + 2]) = CrcUpTo(p, k)
           /\ CrcUpTo(p, k) >= 0
    BY <2>9, <2>0 DEF IsFrame
  <2>11. QED BY <1>0, <1>3, <2>6, <2>7, <2>8, <2>10
<1>4. QED BY <1>2, <1>3

\* nmea_find_tail accepts exactly the frames: FindTailExact as a fact about
\* one buffer.
LEMMA FindTailAccepts ==
  ASSUME NEW s \in Seq(Byte), NEW n \in 1..Len(s)
  PROVE  IsFrame(SubSeq(s, 1, n)) <=>
           (nmea_find_tail(s).nread = n /\ nmea_find_tail(s).crc >= 0)
<1> DEFINE k == n - 4
           t == nmea_find_tail(s)
           f == FirstStop(s)
<1>1. k \in Int
  OBVIOUS
<1>2. IsFrame(SubSeq(s, 1, n)) <=>
           /\ k >= 1
           /\ Stops(s) # {} /\ f = k
           /\ s[k] = Star /\ s[k + 3] = CR /\ s[k + 4] = LF
           /\ HexVal(s[k + 1], s[k + 2]) = CrcUpTo(s, k)
           /\ CrcUpTo(s, k) >= 0
  BY <1>1, FrameInPlace
<1>3. ASSUME IsFrame(SubSeq(s, 1, n)) PROVE t.nread = n /\ t.crc >= 0
  <2>1. k \in 1..Len(s) /\ Stops(s) # {} /\ f = k /\ s[k] # Dollar
    BY <1>2, <1>3, Delimiters
  <2>2. t = AtStar(s, k)
    BY <2>1 DEF nmea_find_tail
  <2>3. Closed(s, k)
    BY <1>2, <1>3 DEF Closed, TailSize
  <2>4. AtStar(s, k) = [nread |-> k + 4, crc |-> CrcUpTo(s, k)]
    BY <1>2, <1>3, <2>1, <2>3, AtStarCases
  <2>5. QED BY <1>2, <1>3, <2>2, <2>4
<1>4. ASSUME t.nread = n, t.crc >= 0 PROVE IsFrame(SubSeq(s, 1, n))
  <2>1. Stops(s) # {}
    BY <1>4 DEF nmea_find_tail, NoTail
  <2>2. f \in 1..Len(s) /\ f \in Stops(s)
    BY <2>1, FirstStopIsFirst
  <2>3. s[f] # Dollar
    BY <1>4, <2>1 DEF nmea_find_tail
  <2>4. s[f] = Star
    BY <2>2, <2>3 DEF Stops
  <2>5. t = AtStar(s, f)
    BY <2>1, <2>3 DEF nmea_find_tail
  <2>6. /\ Closed(s, f) /\ HexVal(s[f + 1], s[f + 2]) = CrcUpTo(s, f)
        /\ CrcUpTo(s, f) >= 0
        /\ n = f + 4
    BY <1>4, <2>2, <2>5, AtStarCases DEF NoTail
  <2>7. f = k
    BY <2>2, <2>6
  <2>8. QED BY <1>2, <2>1, <2>2, <2>4, <2>6, <2>7 DEF Closed
<1>5. QED BY <1>3, <1>4

\* A wait is for an open front or a blocked one, both said of the bytes.
LEMMA WaitCases ==
  ASSUME NEW s \in Seq(Byte)
  PROVE  (nmea_find_tail(s).nread = 0) <=> (Open(s) \/ Blocked(s))
<1> DEFINE k == FirstStop(s)
<1>1. CASE Stops(s) = {}
  BY <1>1 DEF nmea_find_tail, NoTail, Open
<1>2. CASE Stops(s) # {} /\ s[k] = Dollar
  <2>1. k > 1 /\ k \in Nat
    <3>1. k \in Stops(s) /\ k \in 1..Len(s) /\ s[k] # Star
      BY <1>2, FirstStopIsFirst, Delimiters
    <3>2. QED BY <3>1 DEF Stops
  <2>2. nmea_find_tail(s).nread = k - 1
    BY <1>2 DEF nmea_find_tail
  <2>3. s[k] # Star
    BY <1>2, Delimiters
  <2>4. ~Open(s) /\ ~Blocked(s)
    BY <1>2, <2>3 DEF Open, Blocked
  <2>5. QED BY <2>1, <2>2, <2>4
<1>3. CASE Stops(s) # {} /\ s[k] # Dollar
  <2>1. k \in 1..Len(s) /\ s[k] = Star
    BY <1>3, FirstStopIsFirst DEF Stops
  <2>2. nmea_find_tail(s) = AtStar(s, k)
    BY <1>3 DEF nmea_find_tail
  <2>3. CASE Len(s) < k + 4
    <3>1. ~Closed(s, k)
      BY <2>1, <2>3 DEF Closed, TailSize
    <3>2. nmea_find_tail(s).nread = 0
      BY <2>2, <3>1 DEF AtStar, NoTail
    <3>3. QED BY <1>3, <2>1, <2>3, <3>2 DEF Open, TailSize
  <2>4. CASE Len(s) >= k + 4
    <3>1. ~Open(s)
      BY <1>3, <2>1, <2>4 DEF Open, TailSize
    <3>2. Closed(s, k) <=> (s[k + 3] = CR /\ s[k + 4] = LF)
      BY <2>4 DEF Closed, TailSize
    <3>3. Blocked(s) <=> \/ ~Closed(s, k)
                         \/ HexVal(s[k + 1], s[k + 2]) = CrcUpTo(s, k) /\ CrcUpTo(s, k) < 0
      BY <1>3, <2>1, <2>4, <3>2 DEF Blocked, TailSize
    <3>4. (nmea_find_tail(s).nread = 0) <=>
             \/ ~Closed(s, k)
             \/ HexVal(s[k + 1], s[k + 2]) = CrcUpTo(s, k) /\ CrcUpTo(s, k) < 0
      BY <2>1, <2>2, AtStarCases DEF NoTail
    <3>5. QED BY <3>1, <3>3, <3>4
  <2>5. QED BY <2>1, <2>3, <2>4
<1>4. QED BY <1>1, <1>2, <1>3

\* Bytes that are thrown away hold no first byte of a sentence.
LEMMA SkipHoldsNoSentence ==
  ASSUME NEW s \in Seq(Byte),
         nmea_find_tail(s).nread > 0, nmea_find_tail(s).crc < 0,
         NEW i \in 1..nmea_find_tail(s).nread, NEW m \in 1..Len(s), i <= m,
         IsSentence(SubSeq(s, i, m))
  PROVE  FALSE
<1> DEFINE p == SubSeq(s, i, m)
           t == nmea_find_tail(s)
           f == FirstStop(s)
<1>1. t.nread \in 0..Len(s)
  BY FindTailType
<1>2. i \in 1..Len(s)
  BY <1>1
<1>3. /\ Len(p) = m - i + 1
      /\ \A j \in 1..(m - i + 1) : p[j] = s[i + j - 1]
  BY <1>2, SubSeqProperties
<1>4. /\ IsFrame(p) /\ p[1] = Dollar
      /\ \A j \in 1..(Len(p) - 2) : p[j] # CR /\ p[j] # LF
  BY DEF IsSentence
<1> HIDE DEF p
<1>5. Len(p) >= 5
  BY <1>3, <1>4 DEF IsFrame, TailSize
<1>6. CASE i = 1
  <2>1. IsFrame(SubSeq(s, 1, m))
    BY <1>4, <1>6 DEF p
  <2>2. t.crc >= 0
    BY <2>1, FindTailAccepts
  <2>3. t.crc \in Int
    BY CrcIsInt
  <2>4. QED BY <2>2, <2>3
<1>7. CASE i # 1
  <2>1. s[i] = Dollar
    BY <1>2, <1>3, <1>4, <1>5
  <2>2. i \in Stops(s)
    BY <1>2, <1>7, <2>1 DEF Stops
  <2>3. f \in Stops(s) /\ f \in 1..Len(s) /\ f <= i
    BY <2>2, FirstStopIsFirst
  <2>4. CASE s[f] = Dollar
    <3>1. t.nread = f - 1
      BY <2>2, <2>4 DEF nmea_find_tail
    <3>2. QED BY <2>3, <3>1
  <2>5. CASE s[f] # Dollar
    <3>1. t = AtStar(s, f)
      BY <2>2, <2>5 DEF nmea_find_tail
    <3>2. t.nread = f + 4 /\ Closed(s, f)
      BY <2>3, <3>1, AtStarCases DEF NoTail
    <3>3. s[f + 3] = CR /\ s[f + 4] = LF
      BY <3>2 DEF Closed
    <3>4. i # f /\ i # f + 3 /\ i # f + 4
      BY <2>1, <2>5, <3>3, Delimiters
    <3>5. i = f + 1 \/ i = f + 2
      BY <1>2, <2>3, <3>2, <3>4
    <3>6. f + 4 - i \in 1..(Len(p) - 2) /\ f + 4 - i \in 1..(m - i + 1)
      BY <1>2, <1>3, <1>5, <2>3, <3>5
    <3>7. p[f + 4 - i] = s[f + 3]
      <4>1. p[f + 4 - i] = s[i + (f + 4 - i) - 1]
        BY <1>3, <3>6
      <4>2. i + (f + 4 - i) - 1 = f + 3
        BY <1>2, <2>3
      <4>3. QED BY <4>1, <4>2
    <3>8. QED BY <1>4, <3>3, <3>6, <3>7
  <2>6. QED BY <2>4, <2>5
<1>8. QED BY <1>6, <1>7
=============================================================================
