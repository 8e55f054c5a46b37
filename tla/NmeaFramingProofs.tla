------------------------- MODULE NmeaFramingProofs --------------------------
(***************************************************************************)
(* The properties of NmeaFraming as theorems, from the facts about         *)
(* nmea_find_tail in NmeaTailProofs.  The type invariant is inductive as   *)
(* it stands; the state properties follow from it because they hold of     *)
(* every byte string, the action properties because a step extends b.      *)
(***************************************************************************)
EXTENDS NmeaFraming, NmeaTailProofs

\* The buffer stays a byte string and decisions stay inside it, for every
\* buffer length: nmea_find_tail never reports bytes nmea_parser_real_push
\* does not have.
THEOREM TypeCorrect == Spec => []TypeOK
<1>1. Init => TypeOK
  BY EmptySeq, FindTailType DEF Init, TypeOK
<1>2. TypeOK /\ [Next]_b => TypeOK'
  <2>1. SUFFICES ASSUME b \in Seq(Byte), [Next]_b PROVE TypeOK'
    BY DEF TypeOK
  <2>2. b' \in Seq(Byte)
    <3>1. CASE b' = b
      BY <2>1, <3>1
    <3>2. CASE Next
      <4>1. PICK p \in Piece : b' = b \o p
        BY <3>2 DEF Next, Arrive
      <4>2. p \in Seq(Byte)
        BY <4>1, PieceAssumption
      <4>3. QED BY <2>1, <4>1, <4>2, ConcatProperties
    <3>3. QED BY <2>1, <3>1, <3>2
  <2>3. QED BY <2>2, FindTailType DEF TypeOK
<1>3. QED BY <1>1, <1>2, PTL DEF Spec

\* nmea_find_tail accepts the frames and nothing else, whatever the buffer.
THEOREM FramingExact == Spec => []FindTailExact
<1>1. TypeOK => FindTailExact
  BY FindTailAccepts DEF TypeOK, FindTailExact
<1>2. QED BY <1>1, TypeCorrect, PTL

\* No skip of nmea_find_tail loses a sentence, whatever the buffer.
THEOREM SkipSafe == Spec => []SkipsNoSentence
<1>1. TypeOK => SkipsNoSentence
  BY SkipHoldsNoSentence DEF TypeOK, SkipsNoSentence
<1>2. QED BY <1>1, TypeCorrect, PTL

\* nmea_find_tail waits for exactly the fronts that are open or blocked by their
\* bytes, whatever the buffer: nothing it should skip or accept is waited for.
THEOREM WaitExact == Spec => []WaitsOnlyIfOpenOrBlocked
<1>1. TypeOK => WaitsOnlyIfOpenOrBlocked
  BY WaitCases DEF TypeOK, WaitsOnlyIfOpenOrBlocked
<1>2. QED BY <1>1, TypeCorrect, PTL

\* A step leaves the old buffer as a prefix of the new one.
LEMMA StepExtends ==
  ASSUME b \in Seq(Byte), Next
  PROVE  b' \in Seq(Byte) /\ Agree(b, b', Len(b))
<1>1. PICK p \in Piece : b' = b \o p
  BY DEF Next, Arrive
<1>2. p \in Seq(Byte)
  BY <1>1, PieceAssumption
<1>3. QED BY <1>1, <1>2, ConcatAgrees

\* Where the stream is cut into calls does not change any framing decision.
THEOREM CutIndependent == Spec => DecisionsAreFinal
<1>1. TypeOK /\ [Next]_b =>
        [nmea_find_tail(b).nread # 0 => nmea_find_tail(b') = nmea_find_tail(b)]_b
  <2>1. SUFFICES ASSUME b \in Seq(Byte), Next, nmea_find_tail(b).nread # 0
                 PROVE  nmea_find_tail(b') = nmea_find_tail(b)
    BY DEF TypeOK
  <2>2. QED BY <2>1, StepExtends, DecisionExtends
<1>2. QED BY <1>1, TypeCorrect, PTL DEF Spec, DecisionsAreFinal
=============================================================================
