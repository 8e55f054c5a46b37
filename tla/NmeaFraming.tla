---------------------------- MODULE NmeaFraming -----------------------------
(***************************************************************************)
(* nmea_find_tail against a buffer that grows: b is what has arrived, a    *)
(* step is the arrival of one more piece (the memcpy at the head of        *)
(* nmea_parser_real_push), and the properties say what the function may    *)
(* decide about b and how those decisions fare when more bytes arrive.     *)
(***************************************************************************)
EXTENDS NmeaTail

CONSTANTS
  Piece,          \* the byte strings that may arrive in one step
  MaxLen          \* bound: the longest buffer considered

ASSUME PieceAssumption ==
  /\ Piece \subseteq Seq(Byte)
  /\ MaxLen \in Nat

VARIABLE b

Init == b = <<>>

Arrive(p) ==
  /\ Len(b) + Len(p) <= MaxLen
  /\ b' = b \o p

Next == \E p \in Piece : Arrive(p)

Spec == Init /\ [][Next]_b
-----------------------------------------------------------------------------
\* The buffer holds bytes, and a decision never reaches past its end.
TypeOK ==
  /\ b \in Seq(Byte)
  /\ nmea_find_tail(b).nread \in 0..Len(b)

\* A unit is accepted exactly when a prefix of the buffer is a frame, and its
\* length is then that prefix's (the crc >= 0 branch of
\* nmea_parser_real_push relies on both directions).
FindTailExact ==
  LET t == nmea_find_tail(b)
  IN  \A n \in 1..Len(b) :
        IsFrame(SubSeq(b, 1, n)) <=> (t.nread = n /\ t.crc >= 0)

\* Bytes that are thrown away (nread > 0 with crc < 0: a second '$', or a
\* check sum that does not match) never hold the first byte of a sentence
\* that is in the buffer.
SkipsNoSentence ==
  LET t == nmea_find_tail(b)
  IN  (t.nread > 0 /\ t.crc < 0) =>
        \A i \in 1..t.nread, m \in 1..Len(b) :
           i <= m => ~IsSentence(SubSeq(b, i, m))

\* The function returns 0 exactly when the front is open or blocked, which is said
\* of the bytes alone: a mismatching check sum and a second '$' are skipped, a frame
\* is accepted, and a negative check sum that agrees is neither.
WaitsOnlyIfOpenOrBlocked ==
  (nmea_find_tail(b).nread = 0) <=> (Open(b) \/ Blocked(b))

\* A decision, once made, does not depend on the bytes behind it: where the
\* caller of nmea_parse cuts the stream cannot change what is framed.
DecisionsAreFinal ==
  [][nmea_find_tail(b).nread # 0 => nmea_find_tail(b') = nmea_find_tail(b)]_b
=============================================================================
