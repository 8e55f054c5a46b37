------------------------------ MODULE NmeaTail ------------------------------
(***************************************************************************)
(* Framing of the NMEA byte stream: nmea_find_tail of                      *)
(* bsp/simulator_nmea/applications/nmea/nmea_parse.c, the function that    *)
(* decides how many bytes at the front of the parser's buffer form one     *)
(* unit and whether that unit carries a valid check sum.                   *)
(*                                                                         *)
(* The loop of the C function reads bytes until it meets the first one at  *)
(* which it stops; the position of that byte is FirstStop below, so the    *)
(* loop needs no state of its own here.  Positions are 1-based: the C      *)
(* variable nread is k - 1 when the loop looks at b[k].                    *)
(***************************************************************************)
EXTENDS Integers, Sequences, FiniteSetsExt, SequencesExt

CONSTANTS
  Byte,           \* the values a received char may have
  Dollar, Star, CR, LF,
  Xor(_, _),      \* C's ^ on int, the right operand promoted from char
  HexVal(_, _)    \* nmea_atoi(str, 2, 16): what strtol makes of two chars

ASSUME FramingAssumption ==
  /\ {Dollar, Star, CR, LF} \subseteq Byte
  /\ Dollar # Star /\ Dollar # CR /\ Dollar # LF
  /\ Star # CR /\ Star # LF /\ CR # LF
  /\ \A h, l \in Byte : HexVal(h, l) \in Int
-----------------------------------------------------------------------------
TailSize == 5     \* tail_sz: *[CRC] and \r\n

\* Fault: a second '$' does not end the unit.
StopsAtStarOnly(b) == {k \in 1..Len(b) : b[k] = Star}

\* The positions at which the loop breaks: a '$' that is not the first byte,
\* or a '*' anywhere.
Stops(b) ==
  {k \in 1..Len(b) : b[k] = Star \/ (b[k] = Dollar /\ k > 1)}

FirstStop(b) == Min(Stops(b))

\* crc ^= (int)*buff over a string of bytes, from crc = 0.
XorOf(s) ==
  LET crc[i \in 0..Len(s)] == IF i = 0 THEN 0 ELSE Xor(crc[i - 1], s[i])
  IN  crc[Len(s)]

\* The running XOR when the loop stands at position k: every byte but the
\* first, which is never looked at.
CrcUpTo(b, k) == XorOf(SubSeq(b, 2, k - 1))

\* buff + tail_sz <= end_buff && '\r' == buff[3] && '\n' == buff[4]
Closed(b, k) ==
  /\ k + TailSize - 1 <= Len(b)
  /\ b[k + 3] = CR
  /\ b[k + 4] = LF

NoTail == [nread |-> 0, crc |-> -1]

\* Fault: one byte too many is counted to the tail.
AtStarTooLong(b, k) ==
  IF ~Closed(b, k) THEN NoTail
  ELSE [nread |-> k + TailSize,
        crc |-> IF HexVal(b[k + 1], b[k + 2]) = CrcUpTo(b, k) THEN CrcUpTo(b, k) ELSE -1]

\* Fault: the number in the tail is taken for the check sum.
AtStarUnchecked(b, k) ==
  IF ~Closed(b, k) THEN NoTail
  ELSE [nread |-> k + TailSize - 1, crc |-> HexVal(b[k + 1], b[k + 2])]

\* Fault: a check sum that differs forgets "buff = 0" and returns 0.
AtStarMismatchWaits(b, k) ==
  LET res == HexVal(b[k + 1], b[k + 2])
  IN  IF ~Closed(b, k) \/ res # CrcUpTo(b, k) THEN NoTail
      ELSE [nread |-> IF res < 0 THEN 0 ELSE k + TailSize - 1, crc |-> res]

\* The '*' case.  A check sum that differs is reported with crc = -1 but with
\* the length of the whole frame; one that agrees and is negative (a char
\* above 127 on a machine with signed chars, "-5" in the text) falls into the
\* "if (*res_crc < 0 && buff) nread = 0" that is meant for an open frame.
AtStar(b, k) ==
  LET res == HexVal(b[k + 1], b[k + 2])
      end == k + TailSize - 1
  IN  IF ~Closed(b, k) THEN NoTail
      ELSE IF res # CrcUpTo(b, k)
           THEN [nread |-> end, crc |-> -1]
           ELSE [nread |-> IF res < 0 THEN 0 ELSE end, crc |-> res]

\* Fault: the '$' case gives up all of the buffer.
FindTailDropsAll(b) ==
  IF Stops(b) = {} THEN NoTail
  ELSE IF b[FirstStop(b)] = Dollar
       THEN [nread |-> Len(b), crc |-> -1]
       ELSE AtStar(b, FirstStop(b))

nmea_find_tail(b) ==
  IF Stops(b) = {} THEN NoTail
  ELSE IF b[FirstStop(b)] = Dollar
       THEN [nread |-> FirstStop(b) - 1, crc |-> -1]
       ELSE AtStar(b, FirstStop(b))
-----------------------------------------------------------------------------
(* What the framing is about, without reference to the loop.               *)

\* s is a frame: its only stop is the '*' of its five-byte tail, and the
\* number in the tail is the XOR of the bytes in between.
IsFrame(s) ==
  LET k == Len(s) - TailSize + 1
  IN  /\ k >= 1
      /\ Stops(SubSeq(s, 1, k)) = {k}
      /\ s[k] = Star /\ s[k + 3] = CR /\ s[k + 4] = LF
      /\ HexVal(s[k + 1], s[k + 2]) = CrcUpTo(s, k)
      /\ CrcUpTo(s, k) >= 0

\* s is a sentence as a receiver sends it: a frame that starts with '$' and
\* has no line end before its own.
IsSentence(s) ==
  /\ IsFrame(s)
  /\ s[1] = Dollar
  /\ \A i \in 1..(Len(s) - 2) : s[i] # CR /\ s[i] # LF

\* The front of b is an open frame: no stop yet, or a '*' whose tail has not
\* arrived in full.  More bytes may close it.
Open(b) ==
  \/ Stops(b) = {}
  \/ /\ b[FirstStop(b)] = Star
     /\ Len(b) < FirstStop(b) + TailSize - 1

\* The front of b has a '*' with four bytes behind it that close no frame and
\* never will: the line end is not there, or the number agrees with the XOR and
\* is negative.  (A number that differs does not block: it is skipped.)
Blocked(b) ==
  LET k == FirstStop(b)
  IN  /\ Stops(b) # {} /\ b[k] = Star
      /\ Len(b) >= k + TailSize - 1
      /\ \/ b[k + 3] # CR \/ b[k + 4] # LF
         \/ HexVal(b[k + 1], b[k + 2]) = CrcUpTo(b, k) /\ CrcUpTo(b, k) < 0
=============================================================================
