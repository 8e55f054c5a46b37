--------------------------- MODULE NmeaLinkProofs ---------------------------
(***************************************************************************)
(* The parser: the safety properties of NmeaParser for every buffer size,  *)
(* heap size, set of chunks and behaviour of malloc.                       *)
(*                                                                         *)
(* None of them is inductive alone.  IInv adds what the program counter    *)
(* says about the locals of the running call (CallShape): where nparsed is *)
(* still 0, that nothing is left to push once the queue is being drained,  *)
(* that a node is only held for a frame of a known type, and that a unit   *)
(* has been consumed only if the front of the buffer was decided.          *)
(*                                                                         *)
(* The link: whatever the stream and wherever it is cut into calls of      *)
(* nmea_parse, the parser delivers what one scan over the whole stream     *)
(* finds.                                                                  *)
(***************************************************************************)
EXTENDS NmeaLink, NmeaTailProofs

CallShape ==
  /\ pc \notin {"scan", "pack", "fill"} => nparsed = 0
  /\ pc \in {"closed", "idle", "halted", "drain"} => left = 0
  /\ pc \in {"pack", "fill"} =>
       Found.nread > 0 /\ Found.crc >= 0 /\ FoundType \in KnownType
  /\ nparsed # 0 => nmea_find_tail(buffer).nread # 0

\* ResidueScanned, from the moment nmea_parser_push is done.
ResidueKnown ==
  (pc \in {"drain", "idle"} /\ rv # -1) => nmea_find_tail(buffer).nread = 0

IInv ==
  /\ StateOK
  /\ BufferFits
  /\ NodesAccounted
  /\ CallShape
  /\ QueuedAreFrames
  /\ ResidueKnown

\* What one nmea_parser_real_push takes lies inside the caller's bytes and
\* is no longer than the buffer.
LEMMA PieceType ==
  ASSUME StateOK
  PROVE  /\ Take \in 0..left /\ Take <= BuffSize /\ left - Take \in 0..Len(arg)
         /\ Piece \in Seq(Byte) /\ Len(Piece) = Take
<1>1. /\ arg \in Seq(Byte) /\ left \in 0..Len(arg) /\ Len(arg) \in Nat
      /\ BuffSize \in Nat
  BY ParserAssumption DEF StateOK
<1>2. Take \in 0..left /\ Take <= BuffSize /\ Take \in 0..Len(arg)
  BY <1>1 DEF Take
<1>3. Piece \in Seq(Byte) /\ Len(Piece) = Take
  BY <1>1, <1>2, CutAgrees DEF Piece
<1>4. QED BY <1>1, <1>2, <1>3

\* What is left to scan, and what nmea_find_tail can make of it.
LEMMA RestType ==
  ASSUME StateOK, BufferFits
  PROVE  /\ Rest \in Seq(Byte) /\ Len(Rest) = Len(buffer) - nparsed
         /\ Found.nread \in 0..(Len(buffer) - nparsed)
         /\ Found.nread \in Nat
         /\ nparsed = 0 => Rest = buffer
         /\ Sentence \in Seq(Byte)
         /\ (Found.nread > 0 /\ Found.crc >= 0) => IsFrame(Sentence)
<1>1. buffer \in Seq(Byte) /\ nparsed \in 0..Len(buffer) /\ Len(buffer) \in Nat
  BY DEF StateOK, BufferFits
<1>2. \A i \in (nparsed + 1)..Len(buffer) : buffer[i] \in Byte
  BY <1>1
<1>3. Rest \in Seq(Byte) /\ Len(Rest) = Len(buffer) - nparsed
  BY <1>1, <1>2, SubSeqProperties DEF Rest
<1>4. Found.nread \in 0..Len(Rest)
  BY <1>3, FindTailType DEF Found
<1>5. nparsed = 0 => Rest = buffer
  <2>1. SUFFICES ASSUME nparsed = 0 PROVE SubSeq(buffer, 1, Len(buffer)) = buffer
    BY DEF Rest
  <2>2. QED BY <1>1, SubSeqFull
<1>6. Sentence \in Seq(Byte)
  BY <1>3, <1>4, CutAgrees DEF Sentence
<1>7. ASSUME Found.nread > 0, Found.crc >= 0 PROVE IsFrame(Sentence)
  <2>1. Found.nread \in 1..Len(Rest)
    BY <1>4, <1>7
  <2>2. QED BY <1>3, <1>7, <2>1, FindTailAccepts DEF Found, Sentence
<1>8. QED BY <1>1, <1>3, <1>4, <1>5, <1>6, <1>7

\* nmea_find_tail waits on an empty buffer.
LEMMA EmptyWaits == nmea_find_tail(<<>>).nread = 0
<1>1. <<>> \in Seq(Byte) /\ Len(<<>>) = 0
  BY EmptySeq
<1>2. nmea_find_tail(<<>>).nread \in 0..0
  BY <1>1, FindTailType
<1>3. QED BY <1>2

\* The parser before nmea_parser_init satisfies the invariant.
LEMMA InitIInv == Init => IInv
<1>1. SUFFICES ASSUME Init PROVE IInv
  OBVIOUS
<1>2. <<>> \in Seq(Byte) /\ <<>> \in Seq(Entry) /\ Len(<<>>) = 0
  BY EmptySeq
<1>3. StateOK
  BY <1>1, <1>2 DEF Init, StateOK
<1>4. BufferFits /\ NodesAccounted /\ CallShape /\ ResidueKnown
  BY <1>1, <1>2, ParserAssumption
     DEF Init, BufferFits, NodesAccounted, CallShape, ResidueKnown
<1>5. QueuedAreFrames
  BY <1>1, <1>2 DEF Init, QueuedAreFrames
<1>6. QED BY <1>3, <1>4, <1>5 DEF IInv

\* A step that touches neither the buffer nor nparsed leaves the scan where
\* it was.
LEMMA ScanUnchanged ==
  ASSUME buffer' = buffer, nparsed' = nparsed
  PROVE  Rest' = Rest /\ Found' = Found /\ FoundType' = FoundType
BY DEF Rest, Found, FoundType

\* A call preserves the invariant whatever bytes it is given.
LEMMA CallIInv ==
  ASSUME IInv, NEW c \in Seq(Byte), nmea_parse(c)
  PROVE  IInv'
<1>1. /\ StateOK /\ BufferFits /\ NodesAccounted /\ CallShape
      /\ QueuedAreFrames /\ ResidueKnown
  BY DEF IInv
<1>2. Rest' = Rest /\ Found' = Found /\ FoundType' = FoundType
  BY ScanUnchanged DEF nmea_parse, parserVars
<1>3. StateOK'
  BY <1>1 DEF nmea_parse, parserVars, heapVars, StateOK
<1>4. BufferFits'
  BY <1>1 DEF nmea_parse, parserVars, heapVars, BufferFits, CallShape, StateOK
<1>5. NodesAccounted'
  BY <1>1 DEF nmea_parse, parserVars, heapVars, NodesAccounted, StateOK
<1>6. CallShape'
  BY <1>1, <1>2 DEF nmea_parse, parserVars, heapVars, CallShape
<1>7. QueuedAreFrames'
  BY <1>1 DEF nmea_parse, parserVars, QueuedAreFrames
<1>8. ResidueKnown'
  BY <1>1 DEF nmea_parse, ResidueKnown
<1>9. QED BY <1>3, <1>4, <1>5, <1>6, <1>7, <1>8 DEF IInv

\* Every step of the parser preserves the invariant.
LEMMA StepIInv == IInv /\ [Next]_vars => IInv'
<1> SUFFICES ASSUME IInv, [Next]_vars PROVE IInv'
  OBVIOUS
<1> USE ParserAssumption
<1>1. /\ StateOK /\ BufferFits /\ NodesAccounted /\ CallShape
      /\ QueuedAreFrames /\ ResidueKnown
  BY DEF IInv
<1>2. /\ Take \in 0..left /\ Take <= BuffSize /\ left - Take \in 0..Len(arg)
      /\ Piece \in Seq(Byte) /\ Len(Piece) = Take
  BY <1>1, PieceType
<1>3. /\ Rest \in Seq(Byte) /\ Len(Rest) = Len(buffer) - nparsed
      /\ Found.nread \in 0..(Len(buffer) - nparsed)
      /\ Found.nread \in Nat
      /\ nparsed = 0 => Rest = buffer
      /\ Sentence \in Seq(Byte)
      /\ (Found.nread > 0 /\ Found.crc >= 0) => IsFrame(Sentence)
  BY <1>1, RestType
<1>4. <<>> \in Seq(Byte) /\ <<>> \in Seq(Entry) /\ Len(<<>>) = 0
  BY EmptySeq
<1>5. CASE nmea_parser_init
  <2>1. StateOK'
    BY <1>5, <1>1, <1>2, <1>3, <1>4
       DEF nmea_parser_init, parserVars, callVars, heapVars, StateOK, NodesAccounted
  <2>2. BufferFits'
    BY <1>5, <1>1, <1>2, <1>3, <1>4
       DEF nmea_parser_init, parserVars, callVars, heapVars, BufferFits, CallShape, StateOK
  <2>3. NodesAccounted'
    BY <1>5, <1>1, <1>4
       DEF nmea_parser_init, parserVars, callVars, heapVars, NodesAccounted, StateOK
  <2>4. CallShape'
    BY <1>5, <1>1, <1>2, <1>3, <1>4, ScanUnchanged
       DEF nmea_parser_init, parserVars, callVars, heapVars, CallShape, StateOK, Found
  <2>5. QueuedAreFrames'
    BY <1>5, <1>1, <1>3, <1>4
       DEF nmea_parser_init, parserVars, callVars, heapVars, QueuedAreFrames, CallShape, StateOK
  <2>6. ResidueKnown'
    BY <1>5, <1>1, <1>3, <1>4, EmptyWaits
       DEF nmea_parser_init, parserVars, callVars, heapVars, ResidueKnown, Found, StateOK
  <2>7. QED BY <2>1, <2>2, <2>3, <2>4, <2>5, <2>6 DEF IInv
<1>6. CASE Receive
  BY <1>6, CallIInv DEF Receive
<1>7. CASE AssertFails
  <2>1. StateOK'
    BY <1>7, <1>1, <1>2, <1>3, <1>4
       DEF AssertFails, parserVars, callVars, heapVars, StateOK, NodesAccounted
  <2>2. BufferFits'
    BY <1>7, <1>1, <1>2, <1>3, <1>4
       DEF AssertFails, parserVars, callVars, heapVars, BufferFits, CallShape, StateOK
  <2>3. NodesAccounted'
    BY <1>7, <1>1, <1>4
       DEF AssertFails, parserVars, callVars, heapVars, NodesAccounted, StateOK
  <2>4. CallShape'
    BY <1>7, <1>1, <1>2, <1>3, <1>4, ScanUnchanged
       DEF AssertFails, parserVars, callVars, heapVars, CallShape, StateOK, Found
  <2>5. QueuedAreFrames'
    BY <1>7, <1>1, <1>3, <1>4
       DEF AssertFails, parserVars, callVars, heapVars, QueuedAreFrames, CallShape, StateOK
  <2>6. ResidueKnown'
    BY <1>7, <1>1, <1>3, <1>4, EmptyWaits
       DEF AssertFails, parserVars, callVars, heapVars, ResidueKnown, Found, StateOK
  <2>7. QED BY <2>1, <2>2, <2>3, <2>4, <2>5, <2>6 DEF IInv
<1>8. CASE nmea_parser_destroy
  <2>1. StateOK'
    BY <1>8, <1>1, <1>2, <1>3, <1>4
       DEF nmea_parser_destroy, nmea_parser_queue_clear, parserVars, callVars, heapVars, StateOK, NodesAccounted
  <2>2. BufferFits'
    BY <1>8, <1>1, <1>2, <1>3, <1>4
       DEF nmea_parser_destroy, nmea_parser_queue_clear, parserVars, callVars, heapVars, BufferFits, CallShape, StateOK
  <2>3. NodesAccounted'
    BY <1>8, <1>1, <1>4
       DEF nmea_parser_destroy, nmea_parser_queue_clear, parserVars, callVars, heapVars, NodesAccounted, StateOK
  <2>4. CallShape'
    BY <1>8, <1>1, <1>2, <1>3, <1>4, ScanUnchanged
       DEF nmea_parser_destroy, nmea_parser_queue_clear, parserVars, callVars, heapVars, CallShape, StateOK, Found
  <2>5. QueuedAreFrames'
    BY <1>8, <1>1, <1>3, <1>4
       DEF nmea_parser_destroy, nmea_parser_queue_clear, parserVars, callVars, heapVars, QueuedAreFrames, CallShape, StateOK
  <2>6. ResidueKnown'
    BY <1>8, <1>1, <1>3, <1>4, EmptyWaits
       DEF nmea_parser_destroy, nmea_parser_queue_clear, parserVars, callVars, heapVars, ResidueKnown, Found, StateOK
  <2>7. QED BY <2>1, <2>2, <2>3, <2>4, <2>5, <2>6 DEF IInv
<1>9. CASE RealPushEnter
  <2>0. Take' = Take
    BY <1>9 DEF RealPushEnter, Overflows, parserVars, callVars, heapVars, Take
  <2>1. StateOK'
    BY <1>9, <1>1, <1>4
       DEF RealPushEnter, Overflows, parserVars, callVars, heapVars, StateOK
  <2>2. BufferFits'
    BY <1>9, <2>0, <1>1, <1>2, <1>3, <1>4
       DEF RealPushEnter, Overflows, parserVars, callVars, heapVars, BufferFits, CallShape, StateOK
  <2>3. NodesAccounted'
    BY <1>9, <1>1, <1>4
       DEF RealPushEnter, Overflows, parserVars, callVars, heapVars, NodesAccounted, StateOK
  <2>4. CallShape'
    BY <1>9, <1>1, <1>2, <1>3, <1>4, ScanUnchanged
       DEF RealPushEnter, Overflows, parserVars, callVars, heapVars, CallShape, StateOK, Found
  <2>5. QueuedAreFrames'
    BY <1>9, <1>1, <1>3, <1>4
       DEF RealPushEnter, Overflows, parserVars, callVars, heapVars, QueuedAreFrames, CallShape, StateOK
  <2>6. ResidueKnown'
    BY <1>9, <1>1, <1>3, <1>4, EmptyWaits
       DEF RealPushEnter, Overflows, parserVars, callVars, heapVars, ResidueKnown, Found, StateOK
  <2>7. QED BY <2>1, <2>2, <2>3, <2>4, <2>5, <2>6 DEF IInv
<1>10. CASE RealPushCopy
  <2>1. StateOK'
    BY <1>10, <1>1, <1>2, <1>3, <1>4
       DEF RealPushCopy, parserVars, callVars, heapVars, StateOK, NodesAccounted
  <2>2. BufferFits'
    BY <1>10, <1>1, <1>2, <1>3, <1>4, SMTT(30)
       DEF RealPushCopy, parserVars, callVars, heapVars, BufferFits, CallShape, StateOK
  <2>3. NodesAccounted'
    BY <1>10, <1>1, <1>4
       DEF RealPushCopy, parserVars, callVars, heapVars, NodesAccounted, StateOK
  <2>4. CallShape'
    BY <1>10, <1>1, <1>2, <1>3, <1>4, ScanUnchanged
       DEF RealPushCopy, parserVars, callVars, heapVars, CallShape, StateOK, Found
  <2>5. QueuedAreFrames'
    BY <1>10, <1>1, <1>3, <1>4
       DEF RealPushCopy, parserVars, callVars, heapVars, QueuedAreFrames, CallShape, StateOK
  <2>6. ResidueKnown'
    BY <1>10, <1>1, <1>3, <1>4, EmptyWaits
       DEF RealPushCopy, parserVars, callVars, heapVars, ResidueKnown, Found, StateOK
  <2>7. QED BY <2>1, <2>2, <2>3, <2>4, <2>5, <2>6 DEF IInv
<1>11. CASE ScanWait
  <2>1. StateOK'
    BY <1>11, <1>1, <1>2, <1>3, <1>4
       DEF ScanWait, Remains, PushReturns, LeftAfter, parserVars, callVars, heapVars, StateOK, NodesAccounted
  <2>2. BufferFits'
    BY <1>11, <1>1, <1>2, <1>3, <1>4
       DEF ScanWait, Remains, PushReturns, LeftAfter, parserVars, callVars, heapVars, BufferFits, CallShape, StateOK
  <2>3. NodesAccounted'
    BY <1>11, <1>1, <1>4
       DEF ScanWait, Remains, PushReturns, LeftAfter, parserVars, callVars, heapVars, NodesAccounted, StateOK
  <2>4. CallShape'
    BY <1>11, <1>1, <1>2, <1>3, <1>4, ScanUnchanged
       DEF ScanWait, Remains, PushReturns, LeftAfter, parserVars, callVars, heapVars, CallShape, StateOK, Found
  <2>5. QueuedAreFrames'
    BY <1>11, <1>1, <1>3, <1>4
       DEF ScanWait, Remains, PushReturns, LeftAfter, parserVars, callVars, heapVars, QueuedAreFrames, CallShape, StateOK
  <2>6. ResidueKnown'
    BY <1>11, <1>1, <1>3, <1>4, EmptyWaits
       DEF ScanWait, Remains, PushReturns, LeftAfter, parserVars, callVars, heapVars, ResidueKnown, Found, StateOK
  <2>7. QED BY <2>1, <2>2, <2>3, <2>4, <2>5, <2>6 DEF IInv
<1>12. CASE ScanSkip
  <2>1. StateOK'
    BY <1>12, <1>1, <1>2, <1>3, <1>4, SMTT(30)
       DEF ScanSkip, NextUnit, Advanced, parserVars, callVars, heapVars, StateOK, NodesAccounted
  <2>2. BufferFits'
    BY <1>12, <1>1, <1>2, <1>3, <1>4, SMTT(30)
       DEF ScanSkip, NextUnit, Advanced, parserVars, callVars, heapVars, BufferFits, CallShape, StateOK
  <2>3. NodesAccounted'
    BY <1>12, <1>1, <1>4
       DEF ScanSkip, NextUnit, Advanced, parserVars, callVars, heapVars, NodesAccounted, StateOK
  <2>4. CallShape'
    BY <1>12, <1>1, <1>2, <1>3, <1>4, ScanUnchanged
       DEF ScanSkip, NextUnit, Advanced, parserVars, callVars, heapVars, CallShape, StateOK, Found
  <2>5. QueuedAreFrames'
    BY <1>12, <1>1, <1>3, <1>4
       DEF ScanSkip, NextUnit, Advanced, parserVars, callVars, heapVars, QueuedAreFrames, CallShape, StateOK
  <2>6. ResidueKnown'
    BY <1>12, <1>1, <1>3, <1>4, EmptyWaits
       DEF ScanSkip, NextUnit, Advanced, parserVars, callVars, heapVars, ResidueKnown, Found, StateOK
  <2>7. QED BY <2>1, <2>2, <2>3, <2>4, <2>5, <2>6 DEF IInv
<1>13. CASE ScanUnknown
  <2>1. StateOK'
    BY <1>13, <1>1, <1>2, <1>3, <1>4, SMTT(30)
       DEF ScanUnknown, FrameFound, NextUnit, Advanced, parserVars, callVars, heapVars, StateOK, NodesAccounted
  <2>2. BufferFits'
    BY <1>13, <1>1, <1>2, <1>3, <1>4, SMTT(30)
       DEF ScanUnknown, FrameFound, NextUnit, Advanced, parserVars, callVars, heapVars, BufferFits, CallShape, StateOK
  <2>3. NodesAccounted'
    BY <1>13, <1>1, <1>4
       DEF ScanUnknown, FrameFound, NextUnit, Advanced, parserVars, callVars, heapVars, NodesAccounted, StateOK
  <2>4. CallShape'
    BY <1>13, <1>1, <1>2, <1>3, <1>4, ScanUnchanged
       DEF ScanUnknown, FrameFound, NextUnit, Advanced, parserVars, callVars, heapVars, CallShape, StateOK, Found
  <2>5. QueuedAreFrames'
    BY <1>13, <1>1, <1>3, <1>4
       DEF ScanUnknown, FrameFound, NextUnit, Advanced, parserVars, callVars, heapVars, QueuedAreFrames, CallShape, StateOK
  <2>6. ResidueKnown'
    BY <1>13, <1>1, <1>3, <1>4, EmptyWaits
       DEF ScanUnknown, FrameFound, NextUnit, Advanced, parserVars, callVars, heapVars, ResidueKnown, Found, StateOK
  <2>7. QED BY <2>1, <2>2, <2>3, <2>4, <2>5, <2>6 DEF IInv
<1>14. CASE ScanFrame
  <2>1. StateOK'
    BY <1>14, <1>1, <1>2, <1>3, <1>4
       DEF ScanFrame, FrameFound, parserVars, callVars, heapVars, StateOK, NodesAccounted
  <2>2. BufferFits'
    BY <1>14, <1>1, <1>2, <1>3, <1>4
       DEF ScanFrame, FrameFound, parserVars, callVars, heapVars, BufferFits, CallShape, StateOK
  <2>3. NodesAccounted'
    BY <1>14, <1>1, <1>4
       DEF ScanFrame, FrameFound, parserVars, callVars, heapVars, NodesAccounted, StateOK
  <2>4. CallShape'
    BY <1>14, <1>1, <1>2, <1>3, <1>4, ScanUnchanged
       DEF ScanFrame, FrameFound, parserVars, callVars, heapVars, CallShape, StateOK, Found
  <2>5. QueuedAreFrames'
    BY <1>14, <1>1, <1>3, <1>4
       DEF ScanFrame, FrameFound, parserVars, callVars, heapVars, QueuedAreFrames, CallShape, StateOK
  <2>6. ResidueKnown'
    BY <1>14, <1>1, <1>3, <1>4, EmptyWaits
       DEF ScanFrame, FrameFound, parserVars, callVars, heapVars, ResidueKnown, Found, StateOK
  <2>7. QED BY <2>1, <2>2, <2>3, <2>4, <2>5, <2>6 DEF IInv
<1>15. CASE NodeMallocFails
  <2>1. StateOK'
    BY <1>15, <1>1, <1>2, <1>3, <1>4
       DEF NodeMallocFails, FrameFound, MemFail, PushReturns, LeftAfter, parserVars, callVars, heapVars, StateOK, NodesAccounted
  <2>2. BufferFits'
    BY <1>15, <1>1, <1>2, <1>3, <1>4
       DEF NodeMallocFails, FrameFound, MemFail, PushReturns, LeftAfter, parserVars, callVars, heapVars, BufferFits, CallShape, StateOK
  <2>3. NodesAccounted'
    BY <1>15, <1>1, <1>4
       DEF NodeMallocFails, FrameFound, MemFail, PushReturns, LeftAfter, parserVars, callVars, heapVars, NodesAccounted, StateOK
  <2>4. CallShape'
    BY <1>15, <1>1, <1>2, <1>3, <1>4, ScanUnchanged
       DEF NodeMallocFails, FrameFound, MemFail, PushReturns, LeftAfter, parserVars, callVars, heapVars, CallShape, StateOK, Found
  <2>5. QueuedAreFrames'
    BY <1>15, <1>1, <1>3, <1>4
       DEF NodeMallocFails, FrameFound, MemFail, PushReturns, LeftAfter, parserVars, callVars, heapVars, QueuedAreFrames, CallShape, StateOK
  <2>6. ResidueKnown'
    BY <1>15, <1>1, <1>3, <1>4, EmptyWaits
       DEF NodeMallocFails, FrameFound, MemFail, PushReturns, LeftAfter, parserVars, callVars, heapVars, ResidueKnown, Found, StateOK
  <2>7. QED BY <2>1, <2>2, <2>3, <2>4, <2>5, <2>6 DEF IInv
<1>16. CASE PackMalloc
  <2>1. StateOK'
    BY <1>16, <1>1, <1>2, <1>3, <1>4
       DEF PackMalloc, parserVars, callVars, heapVars, StateOK, NodesAccounted
  <2>2. BufferFits'
    BY <1>16, <1>1, <1>2, <1>3, <1>4
       DEF PackMalloc, parserVars, callVars, heapVars, BufferFits, CallShape, StateOK
  <2>3. NodesAccounted'
    BY <1>16, <1>1, <1>4
       DEF PackMalloc, parserVars, callVars, heapVars, NodesAccounted, StateOK
  <2>4. CallShape'
    BY <1>16, <1>1, <1>2, <1>3, <1>4, ScanUnchanged
       DEF PackMalloc, parserVars, callVars, heapVars, CallShape, StateOK, Found
  <2>5. QueuedAreFrames'
    BY <1>16, <1>1, <1>3, <1>4
       DEF PackMalloc, parserVars, callVars, heapVars, QueuedAreFrames, CallShape, StateOK
  <2>6. ResidueKnown'
    BY <1>16, <1>1, <1>3, <1>4, EmptyWaits
       DEF PackMalloc, parserVars, callVars, heapVars, ResidueKnown, Found, StateOK
  <2>7. QED BY <2>1, <2>2, <2>3, <2>4, <2>5, <2>6 DEF IInv
<1>17. CASE PackMallocFails
  <2>1. StateOK'
    BY <1>17, <1>1, <1>2, <1>3, <1>4
       DEF PackMallocFails, MemFail, PushReturns, LeftAfter, parserVars, callVars, heapVars, StateOK, NodesAccounted
  <2>2. BufferFits'
    BY <1>17, <1>1, <1>2, <1>3, <1>4
       DEF PackMallocFails, MemFail, PushReturns, LeftAfter, parserVars, callVars, heapVars, BufferFits, CallShape, StateOK
  <2>3. NodesAccounted'
    BY <1>17, <1>1, <1>4
       DEF PackMallocFails, MemFail, PushReturns, LeftAfter, parserVars, callVars, heapVars, NodesAccounted, StateOK
  <2>4. CallShape'
    BY <1>17, <1>1, <1>2, <1>3, <1>4, ScanUnchanged
       DEF PackMallocFails, MemFail, PushReturns, LeftAfter, parserVars, callVars, heapVars, CallShape, StateOK, Found
  <2>5. QueuedAreFrames'
    BY <1>17, <1>1, <1>3, <1>4
       DEF PackMallocFails, MemFail, PushReturns, LeftAfter, parserVars, callVars, heapVars, QueuedAreFrames, CallShape, StateOK
  <2>6. ResidueKnown'
    BY <1>17, <1>1, <1>3, <1>4, EmptyWaits
       DEF PackMallocFails, MemFail, PushReturns, LeftAfter, parserVars, callVars, heapVars, ResidueKnown, Found, StateOK
  <2>7. QED BY <2>1, <2>2, <2>3, <2>4, <2>5, <2>6 DEF IInv
<1>18. CASE FillPack
  <2>1. StateOK'
    BY <1>18, <1>1, <1>2, <1>3, <1>4, SMTT(30)
       DEF FillPack, LinkedAtEnd, NextUnit, Advanced, parserVars, callVars, heapVars, StateOK, Entry, CallShape
  <2>2. BufferFits'
    BY <1>18, <1>1, <1>2, <1>3, <1>4, SMTT(30)
       DEF FillPack, LinkedAtEnd, NextUnit, Advanced, parserVars, callVars, heapVars, BufferFits, CallShape, StateOK
  <2>3. NodesAccounted'
    BY <1>18, <1>1, <1>4
       DEF FillPack, LinkedAtEnd, NextUnit, Advanced, parserVars, callVars, heapVars, NodesAccounted, StateOK
  <2>4. CallShape'
    BY <1>18, <1>1, <1>2, <1>3, <1>4, ScanUnchanged
       DEF FillPack, LinkedAtEnd, NextUnit, Advanced, parserVars, callVars, heapVars, CallShape, StateOK, Found
  <2>5. QueuedAreFrames'
    BY <1>18, <1>1, <1>3, <1>4, SMTT(30)
       DEF FillPack, LinkedAtEnd, NextUnit, Advanced, parserVars, callVars, heapVars, QueuedAreFrames, CallShape, StateOK
  <2>6. ResidueKnown'
    BY <1>18, <1>1, <1>3, <1>4, EmptyWaits
       DEF FillPack, LinkedAtEnd, NextUnit, Advanced, parserVars, callVars, heapVars, ResidueKnown, Found, StateOK
  <2>7. QED BY <2>1, <2>2, <2>3, <2>4, <2>5, <2>6 DEF IInv
<1>19. CASE FillPackFails
  <2>0. nodes - 1 \in Nat
    BY <1>19, <1>1 DEF FillPackFails, NextUnit, Advanced, parserVars, callVars, heapVars, StateOK, NodesAccounted
  <2>1. StateOK'
    BY <1>19, <1>1, <1>2, <1>3, <1>4, <2>0, SMTT(30)
       DEF FillPackFails, NextUnit, Advanced, parserVars, callVars, heapVars, StateOK
  <2>2. BufferFits'
    BY <1>19, <1>1, <1>2, <1>3, <1>4, SMTT(30)
       DEF FillPackFails, NextUnit, Advanced, parserVars, callVars, heapVars, BufferFits, CallShape, StateOK
  <2>3. NodesAccounted'
    BY <1>19, <1>1, <1>4
       DEF FillPackFails, NextUnit, Advanced, parserVars, callVars, heapVars, NodesAccounted, StateOK
  <2>4. CallShape'
    BY <1>19, <1>1, <1>2, <1>3, <1>4, ScanUnchanged
       DEF FillPackFails, NextUnit, Advanced, parserVars, callVars, heapVars, CallShape, StateOK, Found
  <2>5. QueuedAreFrames'
    BY <1>19, <1>1, <1>3, <1>4
       DEF FillPackFails, NextUnit, Advanced, parserVars, callVars, heapVars, QueuedAreFrames, CallShape, StateOK
  <2>6. ResidueKnown'
    BY <1>19, <1>1, <1>3, <1>4, EmptyWaits
       DEF FillPackFails, NextUnit, Advanced, parserVars, callVars, heapVars, ResidueKnown, Found, StateOK
  <2>7. QED BY <2>1, <2>2, <2>3, <2>4, <2>5, <2>6 DEF IInv
<1>20. CASE PopPack
  <2>1. StateOK'
    BY <1>20, <1>1, <1>2, <1>3, <1>4
       DEF PopPack, PackFreed, parserVars, callVars, heapVars, StateOK, NodesAccounted
  <2>2. BufferFits'
    BY <1>20, <1>1, <1>2, <1>3, <1>4
       DEF PopPack, PackFreed, parserVars, callVars, heapVars, BufferFits, CallShape, StateOK
  <2>3. NodesAccounted'
    BY <1>20, <1>1, <1>4
       DEF PopPack, PackFreed, parserVars, callVars, heapVars, NodesAccounted, StateOK
  <2>4. CallShape'
    BY <1>20, <1>1, <1>2, <1>3, <1>4, ScanUnchanged
       DEF PopPack, PackFreed, parserVars, callVars, heapVars, CallShape, StateOK, Found
  <2>5. QueuedAreFrames'
    BY <1>20, <1>1, <1>3, <1>4
       DEF PopPack, PackFreed, parserVars, callVars, heapVars, QueuedAreFrames, CallShape, StateOK
  <2>6. ResidueKnown'
    BY <1>20, <1>1, <1>3, <1>4, EmptyWaits
       DEF PopPack, PackFreed, parserVars, callVars, heapVars, ResidueKnown, Found, StateOK
  <2>7. QED BY <2>1, <2>2, <2>3, <2>4, <2>5, <2>6 DEF IInv
<1>21. CASE ParseReturns
  <2>1. StateOK'
    BY <1>21, <1>1, <1>2, <1>3, <1>4
       DEF ParseReturns, parserVars, callVars, heapVars, StateOK, Entry, CallShape
  <2>2. BufferFits'
    BY <1>21, <1>1, <1>2, <1>3, <1>4
       DEF ParseReturns, parserVars, callVars, heapVars, BufferFits, CallShape, StateOK
  <2>3. NodesAccounted'
    BY <1>21, <1>1, <1>4
       DEF ParseReturns, parserVars, callVars, heapVars, NodesAccounted, StateOK
  <2>4. CallShape'
    BY <1>21, <1>1, <1>2, <1>3, <1>4, ScanUnchanged
       DEF ParseReturns, parserVars, callVars, heapVars, CallShape, StateOK, Found
  <2>5. QueuedAreFrames'
    BY <1>21, <1>1, <1>3, <1>4
       DEF ParseReturns, parserVars, callVars, heapVars, QueuedAreFrames, CallShape, StateOK
  <2>6. ResidueKnown'
    BY <1>21, <1>1, <1>3, <1>4, EmptyWaits
       DEF ParseReturns, parserVars, callVars, heapVars, ResidueKnown, Found, StateOK
  <2>7. QED BY <2>1, <2>2, <2>3, <2>4, <2>5, <2>6 DEF IInv
<1>22. CASE UNCHANGED vars
  BY <1>1, <1>22 DEF vars, parserVars, callVars, heapVars, IInv, StateOK, BufferFits, Take,
     NodesAccounted, CallShape, QueuedAreFrames, ResidueKnown, Found, FoundType, Rest
<1>23. QED
  BY <1>5, <1>6, <1>7, <1>8, <1>9, <1>10, <1>11, <1>12, <1>13, <1>14, <1>15, <1>16, <1>17, <1>18, <1>19, <1>20, <1>21, <1>22 DEF Next, ParserStep

\* The strengthened invariant holds of every behaviour of the parser.
LEMMA InvariantHolds == Spec => []IInv
<1>1. QED BY InitIInv, StepIInv, PTL DEF Spec

\* parser->buffer is a pointer or NULL throughout.
LEMMA BufferPointer == Spec => [](hasBuffer \in BOOLEAN)
<1>1. Init => hasBuffer \in BOOLEAN
  BY Zenon DEF Init
<1>2. hasBuffer \in BOOLEAN /\ [Next]_vars => (hasBuffer \in BOOLEAN)'
  <2> SUFFICES ASSUME hasBuffer \in BOOLEAN, [Next]_vars
               PROVE  hasBuffer' = hasBuffer \/ hasBuffer' = TRUE \/ hasBuffer' = FALSE
    BY Zenon
  <2>1. CASE ParserStep
    BY <2>1, Zenon
       DEF ParserStep, RealPushEnter, RealPushCopy, ScanWait, ScanSkip, ScanUnknown,
           ScanFrame, NodeMallocFails, PackMalloc, PackMallocFails, FillPack,
           FillPackFails, PopPack, ParseReturns, MemFail, parserVars
  <2>2. CASE UNCHANGED vars
    BY <2>2 DEF vars, parserVars
  <2>3. CASE nmea_parser_init \/ Receive \/ nmea_parser_destroy \/ AssertFails
    BY <2>3, Zenon DEF nmea_parser_init, Receive, nmea_parse, nmea_parser_destroy, nmea_parser_queue_clear,
                       AssertFails, parserVars
  <2>4. QED BY <2>1, <2>2, <2>3 DEF Next
<1>3. QED BY <1>1, <1>2, PTL DEF Spec
-----------------------------------------------------------------------------
\* The parser's state keeps its types in every call, error paths included.
THEOREM TypeCorrect == Spec => []TypeOK
<1>1. IInv => StateOK
  BY DEF IInv
<1>2. QED BY <1>1, InvariantHolds, BufferPointer, PTL DEF TypeOK

\* nmea_parser_real_push never writes past the buffer nor reads behind
\* buff_use, for every buffer size and every length of the caller's data.
THEOREM BufferNeverOverruns == Spec => []BufferFits
<1>1. IInv => BufferFits
  BY DEF IInv
<1>2. QED BY <1>1, InvariantHolds, PTL

\* No path of nmea_parse loses or frees twice a queue node.
THEOREM NodesNeverLost == Spec => []NodesAccounted
<1>1. IInv => NodesAccounted
  BY DEF IInv
<1>2. QED BY <1>1, InvariantHolds, PTL

\* Only frames with a valid check sum and known header reach info.
THEOREM OnlyFramesQueued == Spec => []QueuedAreFrames
<1>1. IInv => QueuedAreFrames
  BY DEF IInv
<1>2. QED BY <1>1, InvariantHolds, PTL

\* nmea_parse returns with a fully scanned buffer unless memory ran out.
THEOREM ReturnsScanned == Spec => []ResidueScanned
<1>1. IInv => ResidueScanned
  <2>1. SUFFICES ASSUME IInv, pc = "idle", rv # -1
                 PROVE  Open(buffer) \/ Blocked(buffer)
    BY DEF ResidueScanned
  <2>2. buffer \in Seq(Byte) /\ nmea_find_tail(buffer).nread = 0
    BY <2>1 DEF IInv, StateOK, ResidueKnown
  <2>3. QED BY <2>2, WaitCases
<1>2. QED BY <1>1, InvariantHolds, PTL

\* A blocked buffer stays blocked until all of it is thrown away.
THEOREM BlockedLasts == Spec => BlockedUntilCleared
<1>1. IInv /\ [Next]_vars =>
        [Blocked(buffer) => (Blocked(buffer') \/ buffer' = <<>>)]_vars
  <2>1. SUFFICES ASSUME IInv, Next, Blocked(buffer)
                 PROVE  Blocked(buffer') \/ buffer' = <<>>
    OBVIOUS
  <2>2. StateOK /\ BufferFits /\ CallShape /\ buffer \in Seq(Byte)
    BY <2>1 DEF IInv, StateOK
  <2>3. nmea_find_tail(buffer).nread = 0
    BY <2>1, <2>2, WaitCases
  <2>4. CASE buffer' = buffer
    BY <2>1, <2>4
  <2>5. CASE buffer' = <<>>
    BY <2>5
  <2>6. CASE RealPushCopy
    <3>1. buffer' = buffer \o Piece /\ Piece \in Seq(Byte)
      BY <2>2, <2>6, PieceType DEF RealPushCopy
    <3>2. buffer' \in Seq(Byte) /\ Agree(buffer, buffer', Len(buffer))
      BY <2>2, <3>1, ConcatAgrees
    <3>3. QED BY <2>1, <2>2, <3>2, BlockedExtends
  <2>7. CASE ScanWait
    <3>1. nparsed = 0
      BY <2>2, <2>3 DEF CallShape
    <3>2. buffer' = buffer
      BY <2>2, <2>7, <3>1, RestType DEF ScanWait, Remains
    <3>3. QED BY <2>1, <3>2
  <2>8. Next => \/ buffer' = buffer \/ buffer' = <<>>
                \/ RealPushCopy \/ ScanWait
    BY DEF Next, ParserStep, nmea_parser_init, Receive, nmea_parse, nmea_parser_destroy, nmea_parser_queue_clear,
           AssertFails, RealPushEnter, ScanSkip, ScanUnknown, ScanFrame, NodeMallocFails,
           PackMalloc, PackMallocFails, FillPack, FillPackFails, PopPack, ParseReturns,
           MemFail, parserVars
  <2>9. QED BY <2>1, <2>4, <2>5, <2>6, <2>7, <2>8
<1>2. QED BY <1>1, InvariantHolds, PTL DEF Spec, BlockedUntilCleared

\* No path but that of unparsable fields loses a pack.
THEOREM PacksLostOnlyOnBadFields == Spec => LeakOnlyOnBadFields
<1>1. IInv /\ [Next]_vars =>
        [Unowned' # Unowned =>
           Unowned' = Unowned + 1 /\ pc = "fill" /\ ~ParseOk(FoundType, Sentence)]_vars
  <2>1. SUFFICES ASSUME IInv, Next
                 PROVE  \/ Unowned' = Unowned
                        \/ Unowned' = Unowned + 1 /\ pc = "fill" /\ ~ParseOk(FoundType, Sentence)
    OBVIOUS
  <2>2. packs \in Nat /\ nodes \in Nat /\ Len(queue) \in Nat /\ queue \in Seq(Entry)
    BY <2>1 DEF IInv, StateOK
  <2>3. pc = "closed" => queue = <<>>
    BY <2>1 DEF IInv, NodesAccounted
  <2>4. CASE nmea_parser_init \/ Receive \/ AssertFails \/ RealPushEnter \/ RealPushCopy
    BY <2>2, <2>3, <2>4 DEF nmea_parser_init, Receive, nmea_parse, AssertFails, RealPushEnter, RealPushCopy,
                            parserVars, callVars, heapVars, Unowned
  <2>5. CASE ScanWait \/ ScanSkip \/ ScanUnknown \/ ScanFrame \/ NodeMallocFails
    BY <2>2, <2>5 DEF ScanWait, ScanSkip, ScanUnknown, ScanFrame, NodeMallocFails, MemFail, PushReturns,
                      NextUnit, parserVars, callVars, heapVars, Unowned
  <2>6. CASE PackMalloc \/ PackMallocFails
    BY <2>2, <2>6 DEF PackMalloc, PackMallocFails, MemFail, PushReturns, parserVars, callVars, heapVars, Unowned
  <2>7. CASE FillPack
    BY <2>2, <2>7 DEF FillPack, LinkedAtEnd, NextUnit, heapVars, Unowned
  <2>8. CASE FillPackFails
    BY <2>2, <2>8 DEF FillPackFails, NextUnit, parserVars, Unowned
  <2>9. CASE PopPack
    BY <2>2, <2>9 DEF PopPack, PackFreed, Unowned
  <2>10. CASE ParseReturns
    BY <2>2, <2>10 DEF ParseReturns, parserVars, heapVars, Unowned
  <2>11. CASE nmea_parser_destroy
    BY <2>2, <2>11 DEF nmea_parser_destroy, nmea_parser_queue_clear, Unowned
  <2>12. QED BY <2>1, <2>4, <2>5, <2>6, <2>7, <2>8, <2>9, <2>10, <2>11 DEF Next, ParserStep
<1>2. QED BY <1>1, InvariantHolds, PTL DEF Spec, LeakOnlyOnBadFields

-----------------------------------------------------------------------------
(* Scan is well defined: a unit is never empty, so what is behind it is    *)
(* shorter.  Induction is by least counterexample (LeastPosition).         *)

\* One step of the scan, with f for the rest.
Stepped(f, r) ==
  IF UnitOf(r).nread = 0 THEN <<>> ELSE UnitOf(r).packs \o f[Behind(r, UnitOf(r).nread)]

\* f is the scan of every stream of at most n bytes.
ScansUpTo(f, n) ==
  f = [r \in Seq(Byte) |-> f[r]] /\ \A r \in Seq(Byte) : Len(r) <= n => f[r] = Stepped(f, r)

LEMMA BehindType ==
  ASSUME NEW r \in Seq(Byte), NEW n \in 0..Len(r)
  PROVE  /\ Behind(r, n) \in Seq(Byte) /\ Len(Behind(r, n)) = Len(r) - n
         /\ \A i \in 1..(Len(r) - n) : Behind(r, n)[i] = r[n + i]
<1>1. Len(r) \in Nat /\ \A i \in (n + 1)..Len(r) : r[i] \in Byte
  OBVIOUS
<1>2. Behind(r, n) \in Seq(Byte) /\ Len(Behind(r, n)) = Len(r) - n
  BY <1>1, SubSeqProperties DEF Behind
<1>3. \A i \in 1..(Len(r) - n) : Behind(r, n)[i] = r[n + i]
  BY <1>1 DEF Behind
<1>4. QED BY <1>2, <1>3

LEMMA UnitSize ==
  ASSUME NEW r \in Seq(Byte)
  PROVE  /\ UnitOf(r).nread = nmea_find_tail(r).nread
         /\ UnitOf(r).nread \in 0..Len(r) /\ Len(r) \in Nat
         /\ UnitOf(r).nread # 0 => /\ Behind(r, UnitOf(r).nread) \in Seq(Byte)
                                   /\ Len(Behind(r, UnitOf(r).nread)) < Len(r)
<1>1. UnitOf(r).nread = nmea_find_tail(r).nread
  BY DEF UnitOf
<1> DEFINE n == UnitOf(r).nread
<1>2. n \in 0..Len(r) /\ Len(r) \in Nat
  BY <1>1, FindTailType
<1> HIDE DEF n
<1>3. Behind(r, n) \in Seq(Byte) /\ Len(Behind(r, n)) = Len(r) - n
  BY <1>2, BehindType
<1>4. n # 0 => Len(Behind(r, n)) < Len(r)
  BY <1>2, <1>3
<1>5. QED BY <1>1, <1>2, <1>3, <1>4 DEF n

\* Two functions that agree on shorter streams step alike.
LEMMA SteppedAgrees ==
  ASSUME NEW f, NEW g, NEW r \in Seq(Byte),
         \A s \in Seq(Byte) : Len(s) < Len(r) => f[s] = g[s]
  PROVE  Stepped(f, r) = Stepped(g, r)
  BY UnitSize DEF Stepped

LEMMA PartialScan == \A n \in Nat : \E f : ScansUpTo(f, n)
<1> DEFINE T == {n \in Nat : ~\E f : ScansUpTo(f, n)}
<1>1. SUFFICES ASSUME T # {} PROVE FALSE
  OBVIOUS
<1>2. PICK x \in T : \A y \in T : x <= y
  BY <1>1, LeastPosition
<1>3. CASE x = 0
  <2> DEFINE f == [r \in Seq(Byte) |-> <<>>]
  <2>1. ASSUME NEW r \in Seq(Byte), Len(r) <= 0 PROVE f[r] = Stepped(f, r)
    <3>1. UnitOf(r).nread = 0
      BY <2>1, UnitSize
    <3>2. QED BY <3>1 DEF Stepped
  <2>2. ScansUpTo(f, x)
    BY <1>3, <2>1 DEF ScansUpTo
  <2>3. QED BY <2>2
<1>4. CASE x # 0
  <2>1. x - 1 \in Nat /\ x - 1 \notin T
    BY <1>2, <1>4
  <2>2. PICK f : ScansUpTo(f, x - 1)
    BY <2>1
  <2> DEFINE g == [r \in Seq(Byte) |-> Stepped(f, r)]
  <2>3. ASSUME NEW r \in Seq(Byte), Len(r) <= x PROVE g[r] = Stepped(g, r)
    <3>1. ASSUME NEW s \in Seq(Byte), Len(s) < Len(r) PROVE f[s] = g[s]
      <4>1. Len(s) <= x - 1
        BY <2>3, <3>1, <1>2
      <4>2. QED BY <2>2, <4>1 DEF ScansUpTo
    <3>2. Stepped(f, r) = Stepped(g, r)
      <4> HIDE DEF g
      <4> QED BY <3>1, SteppedAgrees
    <3>3. QED BY <3>2
  <2>4. ScansUpTo(g, x)
    BY <2>3 DEF ScansUpTo
  <2>5. QED BY <2>4
<1>5. QED BY <1>3, <1>4

LEMMA PartialUnique ==
  ASSUME NEW f, NEW g, NEW m \in Nat, NEW n \in Nat, ScansUpTo(f, m), ScansUpTo(g, n),
         NEW r \in Seq(Byte), Len(r) <= m, Len(r) <= n
  PROVE  f[r] = g[r]
<1> DEFINE T == {k \in Nat : \E s \in Seq(Byte) : Len(s) = k /\ k <= m /\ k <= n /\ f[s] # g[s]}
<1>1. SUFFICES ASSUME T # {} PROVE FALSE
  OBVIOUS
<1>2. PICK x \in T : \A y \in T : x <= y
  BY <1>1, LeastPosition
<1>3. PICK s \in Seq(Byte) : Len(s) = x /\ x <= m /\ x <= n /\ f[s] # g[s]
  BY <1>2
<1>4. ASSUME NEW t \in Seq(Byte), Len(t) < Len(s) PROVE f[t] = g[t]
  <2>1. Len(t) \in Nat /\ Len(t) \notin T /\ Len(t) <= m /\ Len(t) <= n
    BY <1>2, <1>3, <1>4
  <2>2. QED BY <2>1
<1>5. Stepped(f, s) = Stepped(g, s)
  BY <1>4, SteppedAgrees
<1>6. f[s] = Stepped(f, s) /\ g[s] = Stepped(g, s)
  BY <1>3 DEF ScansUpTo
<1>7. QED BY <1>3, <1>5, <1>6

LEMMA ScanExists == \E h : h = [r \in Seq(Byte) |-> Stepped(h, r)]
<1> DEFINE F(n) == CHOOSE f : ScansUpTo(f, n)
           h == [r \in Seq(Byte) |-> F(Len(r))[r]]
<1>1. ASSUME NEW n \in Nat PROVE ScansUpTo(F(n), n)
  BY PartialScan, Zenon
<1>2. ASSUME NEW r \in Seq(Byte) PROVE h[r] = Stepped(h, r)
  <2> DEFINE f == F(Len(r))
  <2>1. Len(r) \in Nat /\ ScansUpTo(f, Len(r))
    BY <1>1
  <2>2. h[r] = f[r]
    OBVIOUS
  <2>3. ASSUME NEW s \in Seq(Byte), Len(s) < Len(r) PROVE f[s] = h[s]
    <3>1. Len(s) \in Nat /\ ScansUpTo(F(Len(s)), Len(s)) /\ Len(s) <= Len(r) /\ Len(s) <= Len(s)
      BY <1>1, <2>1, <2>3
    <3>2. h[s] = F(Len(s))[s]
      OBVIOUS
    <3> HIDE DEF F
    <3>3. f[s] = F(Len(s))[s]
      BY <2>1, <3>1, PartialUnique
    <3>4. QED BY <3>2, <3>3
  <2> HIDE DEF f, h
  <2>4. Stepped(f, r) = Stepped(h, r)
    BY <2>3, SteppedAgrees
  <2>5. f[r] = Stepped(f, r)
    BY <2>1 DEF ScansUpTo
  <2>6. QED BY <2>2, <2>4, <2>5
<1>3. h = [r \in Seq(Byte) |-> h[r]]
  OBVIOUS
<1> HIDE DEF h
<1>4. h = [r \in Seq(Byte) |-> Stepped(h, r)]
  BY <1>2, <1>3, Zenon
<1>5. QED BY <1>4

LEMMA PacksUnfold ==
  ASSUME NEW r \in Seq(Byte)
  PROVE  PacksOf(r) = IF UnitOf(r).nread = 0 THEN <<>>
                      ELSE UnitOf(r).packs \o PacksOf(Behind(r, UnitOf(r).nread))
<1> DEFINE C == CHOOSE h : h = [s \in Seq(Byte) |-> Stepped(h, s)]
<1>1. Scan = C
  BY Zenon DEF Scan, Stepped
<1>2. C = [s \in Seq(Byte) |-> Stepped(C, s)]
  BY ScanExists, Zenon
<1> HIDE DEF C
<1>3. C[r] = Stepped(C, r)
  BY <1>2
<1>4. Scan[r] = Stepped(Scan, r)
  BY <1>1, <1>3
<1>5. QED BY <1>4 DEF PacksOf, Stepped
-----------------------------------------------------------------------------
(* Bytes that arrive later do not change a unit that has been decided.     *)

LEMMA PrefixMeans ==
  ASSUME NEW s \in Seq(Byte), NEW t \in Seq(Byte)
  PROVE  IsPrefix(s, t) <=> Len(s) <= Len(t) /\ \A i \in 1..Len(s) : s[i] = t[i]
<1> DEFINE n == Len(s)
<1>1. n \in Nat /\ Len(t) \in Nat /\ SubSeq(s, 1, n) = s
  BY SubSeqFull
<1>2. SUFFICES ASSUME n <= Len(t) PROVE s = SubSeq(t, 1, n) <=> \A i \in 1..n : s[i] = t[i]
  BY <1>1 DEF IsPrefix
<1>3. n \in 0..Len(t)
  BY <1>1, <1>2
<1>4. /\ SubSeq(t, 1, n) \in Seq(Byte) /\ Len(SubSeq(t, 1, n)) = n
      /\ \A i \in 1..n : SubSeq(t, 1, n)[i] = t[i]
  <2> HIDE DEF n
  <2> QED BY <1>3, CutAgrees DEF Agree
<1>5. (\A i \in 1..n : s[i] = t[i]) => s = SubSeq(t, 1, n)
  BY <1>4, SeqEqual
<1>6. QED BY <1>4, <1>5

\* A header that matches ends before the line end of the frame: nmea_pack_type
\* does not look behind the frame.
LEMMA HeaderInFrame ==
  ASSUME NEW q \in Seq(Byte), NEW n \in 5..Len(q), q[n - 1] = CR, NEW u \in KnownType
  PROVE  IsPrefix(pheads[u], Tail(q)) <=>
           Len(pheads[u]) <= n - 3 /\ \A i \in 1..Len(pheads[u]) : pheads[u][i] = q[i + 1]
<1> DEFINE h == pheads[u]
<1>1. h \in Seq(Byte) /\ Len(h) \in Nat /\ \A i \in 1..Len(h) : h[i] # CR
  BY HeaderAssumption DEF KnownType, Contains
<1>2. Len(q) \in Nat /\ q # <<>> /\ n - 2 \in Nat /\ n - 2 >= 1 /\ n <= Len(q)
  OBVIOUS
<1>3. /\ Tail(q) \in Seq(Byte) /\ Len(Tail(q)) = Len(q) - 1
      /\ \A i \in 1..(Len(q) - 1) : Tail(q)[i] = q[i + 1]
  BY <1>2, HeadTailProperties
<1> HIDE DEF h
<1>4. IsPrefix(h, Tail(q)) <=> Len(h) <= Len(q) - 1 /\ \A i \in 1..Len(h) : h[i] = Tail(q)[i]
  BY <1>1, <1>3, PrefixMeans
<1>5. ASSUME Len(h) <= Len(q) - 1 PROVE \A i \in 1..Len(h) : Tail(q)[i] = q[i + 1]
  BY <1>1, <1>2, <1>3, <1>5
<1>6. ASSUME \A i \in 1..Len(h) : h[i] = q[i + 1] PROVE Len(h) <= n - 3
  <2> SUFFICES ASSUME ~(Len(h) <= n - 3) PROVE FALSE
    OBVIOUS
  <2>1. n - 2 \in 1..Len(h) /\ (n - 2) + 1 = n - 1
    BY <1>1, <1>2
  <2>2. h[n - 2] = q[(n - 2) + 1]
    BY <1>6, <2>1
  <2>3. h[n - 2] = CR
    BY <2>1, <2>2
  <2>4. QED BY <1>1, <2>1, <2>3
<1>7. n - 3 <= Len(q) - 1
  BY <1>2
<1> DEFINE H == \A i \in 1..Len(h) : h[i] = q[i + 1]
<1>8. IsPrefix(h, Tail(q)) <=> Len(h) <= Len(q) - 1 /\ H
  BY <1>4, <1>5
<1>9. H => Len(h) <= n - 3
  BY <1>6
<1> HIDE DEF H
<1>10. Len(h) <= n - 3 => Len(h) <= Len(q) - 1
  BY <1>1, <1>2, <1>7
<1>11. IsPrefix(h, Tail(q)) <=> Len(h) <= n - 3 /\ H
  BY <1>8, <1>9, <1>10, Zenon
<1>12. QED BY <1>11 DEF h, H

LEMMA PackTypeLocal ==
  ASSUME NEW r \in Seq(Byte), NEW t \in Seq(Byte), NEW n \in 1..Len(r), IsFrame(SubSeq(r, 1, n))
  PROVE  nmea_pack_type(Tail(r \o t)) = nmea_pack_type(Tail(r))
<1> DEFINE k == n - 4
<1>1. k \in Int /\ n \in Nat /\ Len(r) \in Nat
  OBVIOUS
<1>2. k >= 1 /\ r[k + 3] = CR
  BY <1>1, FrameInPlace
<1>3. n \in 5..Len(r) /\ k + 3 = n - 1
  BY <1>1, <1>2
<1> DEFINE q == r \o t
<1>4. q \in Seq(Byte) /\ Len(q) \in Nat /\ Len(r) <= Len(q) /\ \A i \in 1..Len(r) : q[i] = r[i]
  BY ConcatProperties
<1>5. n \in 5..Len(q) /\ q[n - 1] = CR /\ r[n - 1] = CR
  BY <1>2, <1>3, <1>4
<1> HIDE DEF q
<1>6. ASSUME NEW u \in KnownType PROVE IsPrefix(pheads[u], Tail(q)) <=> IsPrefix(pheads[u], Tail(r))
  <2> DEFINE h == pheads[u]
  <2>1. h \in Seq(Byte) /\ Len(h) \in Nat
    BY HeaderAssumption DEF KnownType
  <2>2. ASSUME Len(h) <= n - 3 PROVE \A i \in 1..Len(h) : q[i + 1] = r[i + 1]
    BY <1>3, <1>4, <2>1, <2>2
  <2>3. IsPrefix(h, Tail(q)) <=> Len(h) <= n - 3 /\ \A i \in 1..Len(h) : h[i] = q[i + 1]
    BY <1>4, <1>5, HeaderInFrame
  <2>4. IsPrefix(h, Tail(r)) <=> Len(h) <= n - 3 /\ \A i \in 1..Len(h) : h[i] = r[i + 1]
    BY <1>3, <1>5, HeaderInFrame
  <2> HIDE DEF h
  <2>5. IsPrefix(h, Tail(q)) <=> IsPrefix(h, Tail(r))
    BY <2>2, <2>3, <2>4
  <2>6. QED BY <2>5 DEF h
<1>7. {u \in KnownType : IsPrefix(pheads[u], Tail(q))} = {u \in KnownType : IsPrefix(pheads[u], Tail(r))}
  BY <1>6
<1> DEFINE H(s) == {u \in KnownType : IsPrefix(pheads[u], s)}
           D(hits) == IF hits = {} THEN "GPNON" ELSE CHOOSE u \in hits : TRUE
<1>8. nmea_pack_type(Tail(q)) = D(H(Tail(q))) /\ nmea_pack_type(Tail(r)) = D(H(Tail(r)))
  BY Zenon DEF nmea_pack_type
<1>9. H(Tail(q)) = H(Tail(r))
  BY <1>7
<1> HIDE DEF H, D
<1>10. nmea_pack_type(Tail(q)) = nmea_pack_type(Tail(r))
  BY <1>8, <1>9
<1>11. QED BY <1>10 DEF q

\* The unit, from what nmea_find_tail (t) and nmea_pack_type (ty) say of it.
UnitFrom(t, ty, s) ==
  [nread |-> t.nread,
   packs |-> IF t.nread > 0 /\ t.crc >= 0 /\ ty \in KnownType /\ ParseOk(ty, s)
             THEN <<[packType |-> ty, pack |-> s]>> ELSE <<>>]

LEMMA UnitIs ==
  ASSUME NEW r
  PROVE  UnitOf(r) = UnitFrom(nmea_find_tail(r), nmea_pack_type(Tail(r)),
                              SubSeq(r, 1, nmea_find_tail(r).nread))
BY Zenon DEF UnitOf, UnitFrom

LEMMA UnitExtends ==
  ASSUME NEW r \in Seq(Byte), NEW t \in Seq(Byte), UnitOf(r).nread # 0
  PROVE  UnitOf(r \o t) = UnitOf(r)
<1> DEFINE q == r \o t
           n == nmea_find_tail(r).nread
<1>1. q \in Seq(Byte) /\ Agree(r, q, Len(r))
  BY ConcatAgrees
<1>2. n # 0 /\ n \in 0..Len(r)
  BY UnitSize
<1>3. nmea_find_tail(q) = nmea_find_tail(r)
  BY <1>1, <1>2, DecisionExtends
<1>4. SubSeq(q, 1, n) = SubSeq(r, 1, n)
  <2> HIDE DEF n, q
  <2>1. Len(r) \in Nat /\ n \in 0..Len(q) /\ \A i \in 1..n : q[i] = r[i]
    BY <1>1, <1>2 DEF Agree
  <2>2. /\ SubSeq(r, 1, n) \in Seq(Byte) /\ Len(SubSeq(r, 1, n)) = n
        /\ \A i \in 1..n : SubSeq(r, 1, n)[i] = r[i]
    BY <1>2, CutAgrees DEF Agree
  <2>3. /\ SubSeq(q, 1, n) \in Seq(Byte) /\ Len(SubSeq(q, 1, n)) = n
        /\ \A i \in 1..n : SubSeq(q, 1, n)[i] = q[i]
    BY <1>1, <2>1, CutAgrees DEF Agree
  <2>4. QED BY <2>1, <2>2, <2>3, SeqEqual
<1>5. ASSUME nmea_find_tail(r).crc >= 0
      PROVE  nmea_pack_type(Tail(q)) = nmea_pack_type(Tail(r))
  <2>1. n \in 1..Len(r)
    BY <1>2
  <2>2. IsFrame(SubSeq(r, 1, n))
    BY <1>5, <2>1, FindTailAccepts
  <2>3. QED BY <2>1, <2>2, PackTypeLocal
<1> HIDE DEF q
<1> DEFINE f == nmea_find_tail(r)
<1>6. UnitOf(q) = UnitFrom(f, nmea_pack_type(Tail(q)), SubSeq(q, 1, f.nread))
  BY <1>3, UnitIs
<1>7. UnitOf(r) = UnitFrom(f, nmea_pack_type(Tail(r)), SubSeq(r, 1, f.nread))
  BY UnitIs
<1>8. SubSeq(q, 1, f.nread) = SubSeq(r, 1, f.nread)
  BY <1>4
<1>9. f.crc >= 0 => nmea_pack_type(Tail(q)) = nmea_pack_type(Tail(r))
  BY <1>5
<1> HIDE DEF f, n
<1>10. ASSUME NEW s, NEW u, NEW v, f.crc >= 0 => u = v PROVE UnitFrom(f, u, s) = UnitFrom(f, v, s)
  <2>1. CASE f.crc >= 0
    BY <1>10, <2>1
  <2>2. CASE ~(f.crc >= 0)
    BY <2>2 DEF UnitFrom
  <2>3. QED BY <2>1, <2>2
<1>11. UnitOf(q) = UnitOf(r)
  BY <1>6, <1>7, <1>8, <1>9, <1>10
<1>12. QED BY <1>11 DEF q

LEMMA BehindConcat ==
  ASSUME NEW r \in Seq(Byte), NEW t \in Seq(Byte), NEW n \in 0..Len(r)
  PROVE  Behind(r \o t, n) = Behind(r, n) \o t
<1> DEFINE q == r \o t
<1>1. /\ q \in Seq(Byte) /\ Len(q) = Len(r) + Len(t) /\ Len(r) \in Nat /\ Len(t) \in Nat
      /\ \A i \in 1..(Len(r) + Len(t)) : q[i] = IF i <= Len(r) THEN r[i] ELSE t[i - Len(r)]
  BY ConcatProperties
<1> HIDE DEF q
<1>2. n \in 0..Len(q)
  BY <1>1
<1> DEFINE a == Behind(q, n)  b == Behind(r, n)  c == b \o t
<1>3. /\ a \in Seq(Byte) /\ Len(a) = Len(q) - n /\ \A i \in 1..(Len(q) - n) : a[i] = q[n + i]
      /\ b \in Seq(Byte) /\ Len(b) = Len(r) - n /\ \A i \in 1..(Len(r) - n) : b[i] = r[n + i]
  BY <1>1, <1>2, BehindType
<1> HIDE DEF a, b
<1>4. /\ c \in Seq(Byte) /\ Len(c) = Len(b) + Len(t)
      /\ \A i \in 1..(Len(b) + Len(t)) : c[i] = IF i <= Len(b) THEN b[i] ELSE t[i - Len(b)]
  BY <1>3, ConcatProperties
<1> HIDE DEF c
<1>5. Len(a) = Len(c)
  BY <1>1, <1>3, <1>4
<1>6. ASSUME NEW i \in 1..Len(a) PROVE a[i] = c[i]
  <2>1. i \in 1..(Len(q) - n) /\ n + i \in 1..(Len(r) + Len(t)) /\ i \in 1..(Len(b) + Len(t))
    BY <1>1, <1>3
  <2>2. CASE n + i <= Len(r)
    BY <1>1, <1>3, <1>4, <2>1, <2>2
  <2>3. CASE ~(n + i <= Len(r))
    <3>1. ~(i <= Len(b)) /\ (n + i) - Len(r) = i - Len(b)
      BY <1>1, <1>3, <2>3
    <3>2. QED BY <1>1, <1>3, <1>4, <2>1, <2>3, <3>1
  <2>4. QED BY <2>2, <2>3
<1>7. a = c
  BY <1>3, <1>4, <1>5, <1>6, SeqEqual
<1>8. QED BY <1>7 DEF a, b, c, q

LEMMA UnitType ==
  ASSUME NEW r \in Seq(Byte)
  PROVE  UnitOf(r).packs \in Seq(Entry)
<1> DEFINE n == nmea_find_tail(r).nread
           e == [packType |-> nmea_pack_type(Tail(r)), pack |-> SubSeq(r, 1, n)]
<1>1. UnitOf(r).packs = <<>> \/ (nmea_pack_type(Tail(r)) \in KnownType /\ UnitOf(r).packs = <<e>>)
  BY DEF UnitOf
<1>2. SubSeq(r, 1, n) \in Seq(Byte)
  BY FindTailType, CutAgrees
<1>3. nmea_pack_type(Tail(r)) \in KnownType => e \in Entry
  BY <1>2 DEF Entry
<1> HIDE DEF e
<1>4. <<>> \in Seq(Entry) /\ (e \in Entry => <<e>> \in Seq(Entry))
  OBVIOUS
<1>5. QED BY <1>1, <1>3, <1>4, Zenon

LEMMA PacksType == \A r \in Seq(Byte) : PacksOf(r) \in Seq(Entry)
<1> DEFINE T == {k \in Nat : \E r \in Seq(Byte) : Len(r) = k /\ PacksOf(r) \notin Seq(Entry)}
<1>1. SUFFICES ASSUME T # {} PROVE FALSE
  OBVIOUS
<1>2. PICK x \in T : \A y \in T : x <= y
  BY <1>1, LeastPosition
<1>3. PICK r \in Seq(Byte) : Len(r) = x /\ PacksOf(r) \notin Seq(Entry)
  BY <1>2
<1>4. CASE UnitOf(r).nread = 0
  <2>1. PacksOf(r) = <<>>
    BY <1>4, PacksUnfold
  <2>2. <<>> \in Seq(Entry)
    BY EmptySeq
  <2>3. QED BY <1>3, <2>1, <2>2
<1>5. CASE UnitOf(r).nread # 0
  <2> DEFINE b == Behind(r, UnitOf(r).nread)
  <2>1. b \in Seq(Byte) /\ Len(b) < Len(r) /\ Len(b) \in Nat
    BY <1>5, UnitSize
  <2>2. Len(b) \notin T
    BY <1>2, <1>3, <2>1
  <2>3. PacksOf(b) \in Seq(Entry)
    BY <2>1, <2>2
  <2>4. PacksOf(r) = UnitOf(r).packs \o PacksOf(b)
    BY <1>5, PacksUnfold
  <2> HIDE DEF b
  <2>5. QED BY <1>3, <2>3, <2>4, UnitType
<1>6. QED BY <1>4, <1>5

\* A decided unit can be taken off the stream, whatever follows.
LEMMA TakeUnit ==
  ASSUME NEW r \in Seq(Byte), NEW t \in Seq(Byte), UnitOf(r).nread # 0
  PROVE  PacksOf(r \o t) = UnitOf(r).packs \o PacksOf(Behind(r, UnitOf(r).nread) \o t)
<1> DEFINE q == r \o t
<1>1. q \in Seq(Byte) /\ UnitOf(q) = UnitOf(r)
  BY ConcatProperties, UnitExtends
<1>2. Behind(q, UnitOf(r).nread) = Behind(r, UnitOf(r).nread) \o t
  BY UnitSize, BehindConcat
<1> HIDE DEF q
<1>3. PacksOf(q) = UnitOf(r).packs \o PacksOf(Behind(q, UnitOf(r).nread))
  BY <1>1, PacksUnfold
<1>4. QED BY <1>2, <1>3 DEF q

\* Grouping of \o, with a name, so that the provers do not search for it.
Joins(a, b, c) == (a \o b) \o c = a \o (b \o c)

LEMMA JoinBytes == \A a, b, c \in Seq(Byte) : Joins(a, b, c)
BY SMTT(30) DEF Joins

LEMMA JoinPacks == \A a, b, c \in Seq(Entry) : Joins(a, b, c)
BY SMTT(30) DEF Joins

\* More bytes add packs and take none back.
LEMMA PacksGrow ==
  \A r \in Seq(Byte), t \in Seq(Byte) : \E B \in Seq(Entry) : PacksOf(r \o t) = PacksOf(r) \o B
<1> SUFFICES ASSUME NEW t \in Seq(Byte)
             PROVE  \A r \in Seq(Byte) : \E B \in Seq(Entry) : PacksOf(r \o t) = PacksOf(r) \o B
  OBVIOUS
<1> DEFINE Grows(r) == \E B \in Seq(Entry) : PacksOf(r \o t) = PacksOf(r) \o B
           T == {k \in Nat : \E r \in Seq(Byte) : Len(r) = k /\ ~Grows(r)}
<1> HIDE DEF Grows
<1>1. SUFFICES ASSUME T # {} PROVE FALSE
  <2>1. \A r \in Seq(Byte) : Grows(r)
    BY <1>1
  <2>2. QED BY <2>1, Zenon DEF Grows
<1>2. PICK x \in T : \A y \in T : x <= y
  BY <1>1, LeastPosition
<1>3. PICK r \in Seq(Byte) : Len(r) = x /\ ~Grows(r)
  BY <1>2
<1>4. CASE UnitOf(r).nread = 0
  <2>1. PacksOf(r) = <<>>
    BY <1>4, PacksUnfold
  <2>2. r \o t \in Seq(Byte) /\ PacksOf(r \o t) \in Seq(Entry)
    BY ConcatProperties, PacksType
  <2>3. PacksOf(r \o t) = PacksOf(r) \o PacksOf(r \o t)
    BY <2>1, <2>2, ConcatEmptySeq
  <2>4. QED BY <1>3, <2>2, <2>3 DEF Grows
<1>5. CASE UnitOf(r).nread # 0
  <2> DEFINE b == Behind(r, UnitOf(r).nread)  p == UnitOf(r).packs
  <2>1. b \in Seq(Byte) /\ Len(b) < Len(r) /\ Len(b) \in Nat
    BY <1>5, UnitSize
  <2>2. Grows(b)
    <3>1. Len(b) \notin T
      BY <1>2, <1>3, <2>1
    <3>2. QED BY <2>1, <3>1
  <2>3. PICK B \in Seq(Entry) : PacksOf(b \o t) = PacksOf(b) \o B
    BY <2>2 DEF Grows
  <2>4. PacksOf(r \o t) = p \o PacksOf(b \o t)
    BY <1>5, TakeUnit
  <2>5. PacksOf(r) = p \o PacksOf(b)
    BY <1>5, PacksUnfold
  <2>6. p \in Seq(Entry) /\ PacksOf(b) \in Seq(Entry)
    BY <2>1, UnitType, PacksType
  <2> HIDE DEF b, p
  <2>7. Joins(p, PacksOf(b), B)
    BY <2>3, <2>6, JoinPacks
  <2>8. PacksOf(r \o t) = PacksOf(r) \o B
    BY <2>3, <2>4, <2>5, <2>7 DEF Joins
  <2>9. QED BY <1>3, <2>8 DEF Grows
<1>6. QED BY <1>4, <1>5
-----------------------------------------------------------------------------
(* Bytes that have been scanned can be forgotten.                          *)

\* Ahead of s the scan finds the packs P in X, whatever follows s.
Consumed(X, s, P) ==
  \A t \in Seq(Byte) : PacksOf(X \o (s \o t)) = P \o PacksOf(s \o t)

LEMMA ConsumedNone ==
  ASSUME NEW s \in Seq(Byte)
  PROVE  Consumed(<<>>, s, <<>>)
<1> SUFFICES ASSUME NEW t \in Seq(Byte)
             PROVE  PacksOf(<<>> \o (s \o t)) = <<>> \o PacksOf(s \o t)
  BY DEF Consumed
<1> DEFINE q == s \o t
<1>1. q \in Seq(Byte)
  BY ConcatProperties
<1> HIDE DEF q
<1>2. PacksOf(q) \in Seq(Entry) /\ <<>> \o q = q
  BY <1>1, PacksType, ConcatEmptySeq
<1>3. <<>> \o PacksOf(q) = PacksOf(q)
  BY <1>2, ConcatEmptySeq
<1>4. QED BY <1>2, <1>3 DEF q

LEMMA ConsumedMore ==
  ASSUME NEW X, NEW s \in Seq(Byte), NEW u \in Seq(Byte), NEW P, Consumed(X, s, P)
  PROVE  Consumed(X, s \o u, P)
<1> SUFFICES ASSUME NEW t \in Seq(Byte)
             PROVE  PacksOf(X \o ((s \o u) \o t)) = P \o PacksOf((s \o u) \o t)
  BY DEF Consumed
<1>1. u \o t \in Seq(Byte) /\ Joins(s, u, t)
  BY ConcatProperties, JoinBytes
<1>2. QED BY <1>1 DEF Consumed, Joins

LEMMA ConsumedTrans ==
  ASSUME NEW X \in Seq(Byte), NEW Y \in Seq(Byte), NEW R \in Seq(Byte),
         NEW P \in Seq(Entry), NEW Q \in Seq(Entry),
         Consumed(X, Y \o R, P), Consumed(Y, R, Q)
  PROVE  Consumed(X \o Y, R, P \o Q)
<1> SUFFICES ASSUME NEW t \in Seq(Byte)
             PROVE  PacksOf((X \o Y) \o (R \o t)) = (P \o Q) \o PacksOf(R \o t)
  BY DEF Consumed
<1> DEFINE q == R \o t  b == PacksOf(q)
<1>1. q \in Seq(Byte) /\ (Y \o R) \o t = Y \o q
  <2>1. q \in Seq(Byte) /\ Joins(Y, R, t)
    BY ConcatProperties, JoinBytes
  <2>2. QED BY <2>1 DEF Joins
<1> HIDE DEF q
<1>2. (X \o Y) \o q = X \o (Y \o q)
  <2>1. Joins(X, Y, q)
    BY <1>1, JoinBytes
  <2>2. QED BY <2>1 DEF Joins
<1>3. PacksOf(X \o (Y \o q)) = P \o PacksOf(Y \o q)
  BY <1>1 DEF Consumed
<1>4. PacksOf(Y \o q) = Q \o b
  BY DEF Consumed, q
<1>5. b \in Seq(Entry)
  BY <1>1, PacksType
<1> HIDE DEF b
<1>6. Joins(P, Q, b)
  BY <1>5, JoinPacks
<1>7. PacksOf((X \o Y) \o q) = (P \o Q) \o b
  BY <1>2, <1>3, <1>4, <1>6, Zenon DEF Joins
<1>8. QED BY <1>7 DEF q, b

LEMMA SplitAt ==
  ASSUME NEW r \in Seq(Byte), NEW n \in 0..Len(r)
  PROVE  /\ SubSeq(r, 1, n) \in Seq(Byte) /\ Behind(r, n) \in Seq(Byte)
         /\ SubSeq(r, 1, n) \o Behind(r, n) = r
<1>1. SubSeq(r, 1, n) \in Seq(Byte) /\ Behind(r, n) \in Seq(Byte) /\ Len(r) \in Nat
  BY CutAgrees, BehindType
<1>2. 1 \in 1..(Len(r) + 1) /\ n \in (1 - 1)..Len(r) /\ Len(r) \in n..Len(r)
  BY <1>1
<1>3. SubSeq(r, 1, n) \o SubSeq(r, n + 1, Len(r)) = SubSeq(r, 1, Len(r))
  BY <1>2, ConcatAdjacentSubSeq
<1>4. SubSeq(r, 1, Len(r)) = r
  BY SubSeqFull
<1>5. QED BY <1>1, <1>3, <1>4 DEF Behind

LEMMA ConsumedUnit ==
  ASSUME NEW r \in Seq(Byte), UnitOf(r).nread # 0
  PROVE  Consumed(SubSeq(r, 1, UnitOf(r).nread), Behind(r, UnitOf(r).nread), UnitOf(r).packs)
<1> DEFINE n == UnitOf(r).nread  a == SubSeq(r, 1, n)  b == Behind(r, n)
<1>1. n \in 0..Len(r)
  BY UnitSize
<1>2. a \in Seq(Byte) /\ b \in Seq(Byte) /\ a \o b = r
  <2> HIDE DEF n
  <2> QED BY <1>1, SplitAt
<1> SUFFICES ASSUME NEW t \in Seq(Byte)
             PROVE  PacksOf(a \o (b \o t)) = UnitOf(r).packs \o PacksOf(b \o t)
  BY DEF Consumed
<1>3. PacksOf(r \o t) = UnitOf(r).packs \o PacksOf(b \o t)
  BY TakeUnit
<1> HIDE DEF a, b
<1>4. Joins(a, b, t)
  BY <1>2, JoinBytes
<1>5. QED BY <1>2, <1>3, <1>4 DEF Joins
-----------------------------------------------------------------------------
(* The invariant of the link.                                              *)

\* Bytes that have been received and are not in the buffer yet.
Pending == IF pc \in {"push", "copy"} THEN arg ELSE <<>>

\* nmea_parser_real_push is in its loop.
Scanning == pc \in {"scan", "pack", "fill"}

\* A call fits into the buffer, so it is one nmea_parser_real_push.
LinkTyped ==
  /\ wire \in Seq(Byte) /\ received \in Seq(Byte) /\ delivered \in Seq(Entry)
  /\ pc \in {"push", "copy", "scan", "pack", "fill"} => left = Len(arg) /\ left <= BuffSize
  /\ pc \in {"closed", "push", "copy"} => queue = <<>>
  /\ pc = "closed" => buffer = <<>>

\* What was received is X, scanned and out of the buffer, then the buffer,
\* then what waits to be copied.  X held the packs P, and the bytes of the
\* buffer before nparsed hold the packs Q.
Scanned(X, P, Q) ==
  /\ received = X \o (buffer \o Pending)
  /\ Consumed(X, buffer, P)
  /\ Consumed(SubSeq(buffer, 1, nparsed), Rest, Q)
  /\ ~Scanning => Q = <<>>

\* The queue is the piece behind A of the packs received, and what has been
\* delivered are the first m packs, at least those of A.
Told(A, B, m) ==
  /\ PacksOf(received) = A \o (queue \o B)
  /\ Len(A) <= m /\ m <= Len(PacksOf(received))
  /\ ToSet(delivered) = {PacksOf(received)[j] : j \in 1..m}

\* What has left the buffer is delivered or queued; during the scan the queue
\* ends where the scan stands, and without a failed allocation delivered and
\* queue are all that has been scanned, each pack once.
Matched(P, Q, A) ==
  /\ Len(P) <= Len(A) + Len(queue)
  /\ Scanning => A \o queue = P \o Q
  /\ ~failed => delivered \o queue = P \o Q

Accounted(X, P, Q, A, B, m) == Scanned(X, P, Q) /\ Told(A, B, m) /\ Matched(P, Q, A)

IsAccounted ==
  \E X \in Seq(Byte), P, Q, A, B \in Seq(Entry), m \in Nat : Accounted(X, P, Q, A, B, m)

LinkIInv == IInv /\ LinkTyped /\ (overflowed \/ IsAccounted)

\* One nmea_parser_real_push takes all of the call's bytes.
LEMMA WholeCall ==
  ASSUME IInv, LinkTyped, pc \in {"push", "copy", "scan", "pack", "fill"}
  PROVE  Take = left /\ left - Take = 0 /\ Piece = arg
<1>1. left = Len(arg) /\ left <= BuffSize /\ BuffSize \in Nat /\ arg \in Seq(Byte) /\ Len(arg) \in Nat
  BY ParserAssumption DEF LinkTyped, IInv, StateOK
<1>2. Take = left /\ left - Take = 0
  BY <1>1 DEF Take
<1>3. Piece = arg
  BY <1>1, <1>2, SubSeqFull DEF Piece
<1>4. QED BY <1>2, <1>3

\* The steps of the link are steps of the parser.
LEMMA LinkIsParser ==
  ASSUME IInv, LinkTyped, [LinkNext]_allVars
  PROVE  IInv'
<1>1. CASE Start
  BY <1>1, StepIInv DEF Start, Next
<1>2. CASE \E n \in 1..MaxCut : Feed(n)
  <2>1. PICK n \in 1..MaxCut : Feed(n)
    BY <1>2
  <2>2. n \in 0..Len(wire) /\ wire \in Seq(Byte)
    BY <2>1, LinkAssumption DEF Feed, LinkTyped
  <2>3. SubSeq(wire, 1, n) \in Seq(Byte)
    BY <2>2, CutAgrees
  <2>4. QED BY <2>1, <2>3, CallIInv DEF Feed
<1>3. CASE LoseByte
  BY <1>3, StepIInv DEF LoseByte
<1>4. CASE Working
  BY <1>4, StepIInv DEF Working, PopToInfo, OtherStep, Return, Next, ParserStep
<1>5. CASE UNCHANGED allVars
  BY <1>5, StepIInv DEF allVars
<1>6. QED BY <1>1, <1>2, <1>3, <1>4, <1>5 DEF LinkNext

LEMMA LinkTypes ==
  ASSUME IInv, LinkTyped, [LinkNext]_allVars
  PROVE  LinkTyped'
<1>1. /\ wire \in Seq(Byte) /\ received \in Seq(Byte) /\ delivered \in Seq(Entry)
      /\ queue \in Seq(Entry) /\ MaxCut \in Nat /\ MaxCut <= BuffSize /\ BuffSize \in Nat
      /\ Len(wire) \in Nat
  BY ParserAssumption, LinkAssumption DEF LinkTyped, IInv, StateOK
<1>2. CASE Start
  BY <1>1, <1>2 DEF Start, nmea_parser_init, linkVars, LinkTyped
<1>3. CASE \E n \in 1..MaxCut : Feed(n)
  <2>1. PICK n \in 1..MaxCut : Feed(n)
    BY <1>3
  <2>2. n \in 0..Len(wire) /\ n <= BuffSize /\ pc = "idle" /\ queue = <<>>
    BY <1>1, <2>1 DEF Feed, nmea_parse, IInv, NodesAccounted
  <2> DEFINE c == SubSeq(wire, 1, n)
  <2>3. c \in Seq(Byte) /\ Len(c) = n
    BY <1>1, <2>2, CutAgrees
  <2>4. SubSeq(wire, n + 1, Len(wire)) \in Seq(Byte)
    BY <1>1, <2>2, BehindType DEF Behind
  <2>5. /\ pc' = "push" /\ arg' = c /\ left' = Len(c) /\ queue' = queue
        /\ received' = received \o c /\ delivered' = delivered
        /\ wire' = SubSeq(wire, n + 1, Len(wire))
    BY <2>1 DEF Feed, nmea_parse, parserVars
  <2> HIDE DEF c
  <2>6. received' \in Seq(Byte)
    BY <1>1, <2>3, <2>5
  <2>7. QED BY <1>1, <2>2, <2>3, <2>4, <2>5, <2>6 DEF LinkTyped
<1>4. CASE LoseByte
  <2>1. Tail(wire) \in Seq(Byte)
    BY <1>1, <1>4, HeadTailProperties DEF LoseByte
  <2>2. QED BY <1>1, <1>4, <2>1 DEF LoseByte, vars, parserVars, callVars, LinkTyped
<1>5. CASE PopToInfo
  <2>1. Head(queue) \in Entry
    BY <1>1, <1>5, HeadTailProperties DEF PopToInfo, PopPack
  <2>2. delivered' \in Seq(Entry)
    BY <1>1, <1>5, <2>1, AppendProperties DEF PopToInfo
  <2>3. QED BY <1>1, <1>5, <2>2 DEF PopToInfo, PopPack, callVars, LinkTyped
<1>6. CASE OtherStep
  <2>1. /\ wire' = wire /\ received' = received /\ delivered' = delivered
        /\ pc # "drain" /\ ParserStep
    BY <1>6 DEF OtherStep
  <2>2. CASE RealPushEnter \/ RealPushCopy
    BY <1>1, <2>1, <2>2 DEF RealPushEnter, RealPushCopy, callVars, LinkTyped
  <2>3. CASE ScanSkip \/ ScanUnknown \/ FillPack \/ FillPackFails
    BY <1>1, <2>1, <2>3 DEF ScanSkip, ScanUnknown, FillPack, FillPackFails, NextUnit, LinkTyped
  <2>4. CASE ScanFrame \/ PackMalloc
    BY <1>1, <2>1, <2>4 DEF ScanFrame, PackMalloc, callVars, LinkTyped
  <2>5. CASE ScanWait \/ NodeMallocFails \/ PackMallocFails
    <3>1. pc \in {"scan", "pack"}
      BY <2>5 DEF ScanWait, NodeMallocFails, PackMallocFails
    <3>2. left - Take = 0
      BY <3>1, WholeCall
    <3>3. pc' = "drain"
      BY <2>5, <3>2 DEF ScanWait, NodeMallocFails, PackMallocFails, MemFail, PushReturns
    <3>4. QED BY <1>1, <2>1, <3>3 DEF LinkTyped
  <2>6. QED BY <2>1, <2>2, <2>3, <2>4, <2>5 DEF ParserStep, PopPack, ParseReturns
<1>7. CASE Return
  BY <1>1, <1>7 DEF Return, ParseReturns, linkVars, LinkTyped
<1>8. CASE UNCHANGED allVars
  BY <1>1, <1>8 DEF allVars, vars, parserVars, callVars, linkVars, LinkTyped
<1>9. QED BY <1>2, <1>3, <1>4, <1>5, <1>6, <1>7, <1>8 DEF LinkNext, Working

\* Steps that leave scan, queue and packs alone.
LEMMA AccountKept ==
  ASSUME NEW X, NEW P, NEW Q, NEW A, NEW B, NEW m, Accounted(X, P, Q, A, B, m),
         buffer' = buffer, nparsed' = nparsed, queue' = queue, received' = received,
         delivered' = delivered, Pending' = Pending, Scanning' <=> Scanning, failed => failed'
  PROVE  Accounted(X, P, Q, A, B, m)'
<1>1. Rest' = Rest
  BY DEF Rest
<1>2. Scanned(X, P, Q)'
  BY <1>1 DEF Accounted, Scanned
<1>3. Told(A, B, m)'
  BY DEF Accounted, Told
<1>4. Matched(P, Q, A)'
  BY DEF Accounted, Matched
<1>5. QED BY <1>2, <1>3, <1>4 DEF Accounted

\* A call adds bytes behind the buffer.
LEMMA AccountFeed ==
  ASSUME NEW X \in Seq(Byte), NEW P \in Seq(Entry), NEW Q \in Seq(Entry), NEW A \in Seq(Entry),
         NEW B \in Seq(Entry), NEW m \in Nat, Accounted(X, P, Q, A, B, m),
         IInv, LinkTyped, NEW c \in Seq(Byte), nmea_parse(c),
         received' = received \o c, delivered' = delivered, failed' = failed
  PROVE  IsAccounted'
<1> DEFINE p == PacksOf(received)  r == received \o c
<1>1. /\ buffer \in Seq(Byte) /\ queue \in Seq(Entry) /\ received \in Seq(Byte)
      /\ pc = "idle" /\ pc' = "push" /\ arg' = c /\ buffer' = buffer /\ queue' = queue
      /\ nparsed' = nparsed
  BY DEF IInv, StateOK, LinkTyped, nmea_parse, parserVars
<1>2. Pending = <<>> /\ Pending' = c /\ ~Scanning /\ ~Scanning' /\ Rest' = Rest
  BY <1>1 DEF Pending, Scanning, Rest
<1>3. PICK C \in Seq(Entry) : PacksOf(r) = p \o C
  BY <1>1, PacksGrow
<1>4. p \in Seq(Entry) /\ p = A \o (queue \o B)
  BY <1>1, PacksType DEF Accounted, Told
<1>5. received' = X \o (buffer' \o Pending')
  <2>1. received = X \o buffer
    BY <1>1, <1>2, ConcatEmptySeq DEF Accounted, Scanned
  <2>2. Joins(X, buffer, c)
    BY <1>1, JoinBytes
  <2>3. QED BY <1>1, <1>2, <2>1, <2>2 DEF Joins
<1>6. Scanned(X, P, Q)'
  BY <1>1, <1>2, <1>5 DEF Accounted, Scanned
<1> DEFINE E == B \o C
<1>7. E \in Seq(Entry)
  BY <1>3
<1>8. PacksOf(r) = A \o (queue \o E)
  <2> HIDE DEF p, r
  <2>1. queue \o B \in Seq(Entry)
    BY <1>1, ConcatProperties
  <2>2. Joins(A, queue \o B, C) /\ Joins(queue, B, C)
    BY <1>1, <2>1, JoinPacks
  <2>3. QED BY <1>3, <1>4, <2>2, Zenon DEF Joins
<1>9. Told(A, E, m)'
  <2> DEFINE q == PacksOf(r)
  <2>1. /\ Len(q) = Len(p) + Len(C) /\ Len(p) \in Nat /\ Len(C) \in Nat
        /\ \A j \in 1..Len(p) : q[j] = p[j]
    <3> HIDE DEF p, q, r
    <3> QED BY <1>3, <1>4, ConcatProperties, SMTT(30) DEF q
  <2>2. /\ Len(A) <= m /\ m <= Len(p) /\ ToSet(delivered) = {p[j] : j \in 1..m}
    BY DEF Accounted, Told
  <2> HIDE DEF p, q
  <2>3. m <= Len(q)
    BY <2>1, <2>2
  <2>4. {q[j] : j \in 1..m} = {p[j] : j \in 1..m}
    <3>1. \A j \in 1..m : q[j] = p[j]
      BY <2>1, <2>2
    <3>2. QED BY <3>1
  <2>5. ToSet(delivered') = {q[j] : j \in 1..m}
    BY <2>2, <2>4
  <2> HIDE DEF E
  <2>6. QED BY <1>1, <1>8, <2>2, <2>3, <2>5 DEF Told, q
<1>10. Matched(P, Q, A)'
  BY <1>1, <1>2 DEF Accounted, Matched
<1> HIDE DEF E
<1>11. QED BY <1>6, <1>7, <1>9, <1>10 DEF IsAccounted, Accounted

\* rt_memcpy: the scan starts at the front of the buffer, and the queue is
\* empty.
LEMMA AccountCopy ==
  ASSUME NEW X \in Seq(Byte), NEW P \in Seq(Entry), NEW Q \in Seq(Entry), NEW A \in Seq(Entry),
         NEW B \in Seq(Entry), NEW m \in Nat, Accounted(X, P, Q, A, B, m),
         IInv, LinkTyped, RealPushCopy,
         received' = received, delivered' = delivered, failed => failed'
  PROVE  IsAccounted'
<1> DEFINE b == buffer \o arg
<1>1. /\ pc = "copy" /\ pc' = "scan" /\ queue = <<>> /\ queue' = queue /\ nparsed' = 0
      /\ buffer \in Seq(Byte) /\ arg \in Seq(Byte) /\ received \in Seq(Byte) /\ delivered \in Seq(Entry)
  BY DEF RealPushCopy, IInv, StateOK, LinkTyped
<1>2. Pending = arg /\ Pending' = <<>> /\ ~Scanning /\ Scanning' /\ Q = <<>>
  BY <1>1 DEF Pending, Scanning, Accounted, Scanned
<1>3. buffer' = b /\ b \in Seq(Byte) /\ Len(b) \in Nat
  BY <1>1, WholeCall DEF RealPushCopy
<1>4. received = X \o b /\ Consumed(X, buffer, P)
  BY <1>1, <1>2 DEF Accounted, Scanned
<1>5. Consumed(X, b, P)
  BY <1>1, <1>4, ConsumedMore
<1>6. PacksOf(received) = P \o PacksOf(b)
  BY <1>1, <1>4 DEF Consumed
<1> HIDE DEF b
<1>7. b \o <<>> = b /\ SubSeq(b, 1, 0) = <<>> /\ SubSeq(b, 1, Len(b)) = b
  BY <1>3, ConcatEmptySeq, SubSeqEmpty, SubSeqFull
<1>8. Rest' = b
  BY <1>1, <1>3, <1>7 DEF Rest
<1>9. Consumed(<<>>, b, <<>>)
  BY <1>3, ConsumedNone
<1>10. Scanned(X, P, <<>>)'
  BY <1>1, <1>2, <1>3, <1>4, <1>5, <1>7, <1>8, <1>9 DEF Scanned
<1>10a. PICK E \in Seq(Entry) : E = PacksOf(b)
  BY <1>3, PacksType
<1>11. <<>> \o E = E /\ P \o <<>> = P /\ <<>> \in Seq(Entry)
  BY ConcatEmptySeq, EmptySeq
<1>12. Len(P) <= Len(A) /\ Len(P) \in Nat /\ Len(A) \in Nat
  BY <1>1 DEF Accounted, Matched
<1>13. Told(P, E, m)'
  <2>1. PacksOf(received) = P \o (<<>> \o E)
    BY <1>6, <1>11, <1>10a
  <2>2. /\ Len(A) <= m /\ m <= Len(PacksOf(received))
        /\ ToSet(delivered) = {PacksOf(received)[j] : j \in 1..m}
    BY DEF Accounted, Told
  <2>3. Len(P) <= m
    BY <1>12, <2>2
  <2>4. queue' = <<>> /\ PacksOf(received') = P \o (queue' \o E)
    BY <1>1, <2>1
  <2>5. QED BY <2>2, <2>3, <2>4 DEF Told
<1>14. Matched(P, <<>>, P)'
  <2>1. Len(P) <= Len(P) + Len(<<>>)
    BY <1>12
  <2>2. ~failed => delivered \o <<>> = P \o <<>>
    BY <1>1, <1>2 DEF Accounted, Matched
  <2>3. QED BY <1>1, <2>1, <2>2 DEF Matched
<1>15. Accounted(X, P, <<>>, P, E, m)'
  BY <1>10, <1>13, <1>14 DEF Accounted
<1> USE <1>11
<1>16. \E Y \in Seq(Byte), K, L, M, N \in Seq(Entry), n \in Nat : Accounted(Y, K, L, M, N, n)'
  <2> WITNESS X \in Seq(Byte), P \in Seq(Entry), <<>> \in Seq(Entry), P \in Seq(Entry), E \in Seq(Entry), m \in Nat
  <2> QED BY <1>15
<1>17. QED BY <1>16 DEF IsAccounted

LEMMA BehindBehind ==
  ASSUME NEW r \in Seq(Byte), NEW k \in 0..Len(r), NEW n \in 0..(Len(r) - k)
  PROVE  /\ Behind(Behind(r, k), n) = Behind(r, k + n)
         /\ SubSeq(r, 1, k + n) = SubSeq(r, 1, k) \o SubSeq(Behind(r, k), 1, n)
<1> DEFINE b == Behind(r, k)
<1>1. /\ b \in Seq(Byte) /\ Len(b) = Len(r) - k /\ Len(r) \in Nat
      /\ \A i \in 1..(Len(r) - k) : b[i] = r[k + i]
  BY BehindType
<1> HIDE DEF b
<1>2. n \in 0..Len(b) /\ k + n \in 0..Len(r) /\ Len(b) - n = Len(r) - (k + n)
  BY <1>1
<1>3. Behind(b, n) = Behind(r, k + n)
  <2> DEFINE c == Behind(b, n)  d == Behind(r, k + n)
  <2>1. /\ c \in Seq(Byte) /\ Len(c) = Len(b) - n /\ \A i \in 1..(Len(b) - n) : c[i] = b[n + i]
    BY <1>1, <1>2, BehindType
  <2>2. /\ d \in Seq(Byte) /\ Len(d) = Len(r) - (k + n)
        /\ \A i \in 1..(Len(r) - (k + n)) : d[i] = r[(k + n) + i]
    BY <1>1, <1>2, BehindType
  <2> HIDE DEF c, d
  <2>3. ASSUME NEW i \in 1..Len(c) PROVE c[i] = d[i]
    <3>1. i \in 1..(Len(b) - n) /\ i \in 1..(Len(r) - (k + n)) /\ n + i \in 1..(Len(r) - k)
          /\ k + (n + i) = (k + n) + i
      BY <1>1, <1>2, <2>1, SMTT(30)
    <3>2. QED BY <1>1, <2>1, <2>2, <3>1
  <2>4. c = d
    BY <1>2, <2>1, <2>2, <2>3, SeqEqual
  <2>5. QED BY <2>4 DEF c, d
<1>4. SubSeq(r, 1, k + n) = SubSeq(r, 1, k) \o SubSeq(b, 1, n)
  <2> DEFINE c == SubSeq(r, 1, k + n)  d == SubSeq(r, 1, k)  e == SubSeq(b, 1, n)  f == d \o e
  <2>1. c \in Seq(Byte) /\ Len(c) = k + n /\ \A i \in 1..(k + n) : c[i] = r[i]
    BY <1>2, CutAgrees DEF Agree
  <2>2. d \in Seq(Byte) /\ Len(d) = k /\ \A i \in 1..k : d[i] = r[i]
    BY CutAgrees DEF Agree
  <2>3. e \in Seq(Byte) /\ Len(e) = n /\ \A i \in 1..n : e[i] = b[i]
    BY <1>1, <1>2, CutAgrees DEF Agree
  <2> HIDE DEF c, d, e
  <2>4. /\ f \in Seq(Byte) /\ Len(f) = k + n
        /\ \A i \in 1..(k + n) : f[i] = IF i <= k THEN d[i] ELSE e[i - k]
    BY <2>2, <2>3, ConcatProperties
  <2> HIDE DEF f
  <2>5. ASSUME NEW i \in 1..Len(c) PROVE c[i] = f[i]
    <3>1. i \in 1..(k + n)
      BY <2>1
    <3>2. CASE i <= k
      BY <2>1, <2>2, <2>4, <3>1, <3>2
    <3>3. CASE ~(i <= k)
      <4>1. i - k \in 1..n /\ i - k \in 1..(Len(r) - k) /\ k + (i - k) = i
        BY <1>2, <3>1, <3>3
      <4>2. QED BY <1>1, <2>1, <2>3, <2>4, <3>1, <3>3, <4>1, SMTT(30)
    <3>4. QED BY <3>2, <3>3
  <2>6. c = f
    BY <2>1, <2>4, <2>5, SeqEqual
  <2>7. QED BY <2>6 DEF c, d, e, f
<1>5. QED BY <1>3, <1>4 DEF b

\* If A \o q and P \o Q are the same, they are the same with u behind both.
Regroups(A, q, P, Q, u, E) ==
  A \o q = P \o Q => /\ A \o (q \o u) = P \o (Q \o u)
                     /\ P \o ((Q \o u) \o E) = A \o ((q \o u) \o E)

LEMMA Regroup ==
  ASSUME NEW A \in Seq(Entry), NEW q \in Seq(Entry), NEW P \in Seq(Entry), NEW Q \in Seq(Entry),
         NEW u \in Seq(Entry), NEW E \in Seq(Entry)
  PROVE  Regroups(A, q, P, Q, u, E)
<1>1. Joins(A, q, u) /\ Joins(P, Q, u)
  BY JoinPacks
<1> DEFINE v == Q \o u  w == q \o u
<1>2. v \in Seq(Entry) /\ w \in Seq(Entry)
  BY ConcatProperties
<1> HIDE DEF v, w
<1>3. Joins(P, v, E) /\ Joins(A, w, E)
  BY <1>2, JoinPacks
<1>4. ASSUME A \o q = P \o Q PROVE P \o v = A \o w
  BY <1>1, <1>4, Zenon DEF Joins, v, w
<1>5. ASSUME A \o q = P \o Q PROVE P \o (v \o E) = A \o (w \o E)
  <2>1. P \o v = A \o w
    BY <1>4, <1>5
  <2>2. QED BY <1>3, <2>1, Zenon DEF Joins
<1>6. QED BY <1>4, <1>5, Zenon DEF Regroups, v, w

\* nparsed moves over one unit, whose packs go to the end of the queue.
LEMMA AccountUnit ==
  ASSUME NEW X \in Seq(Byte), NEW P \in Seq(Entry), NEW Q \in Seq(Entry), NEW A \in Seq(Entry),
         NEW B \in Seq(Entry), NEW m \in Nat, Accounted(X, P, Q, A, B, m),
         IInv, LinkTyped, Scanning, Found.nread # 0, pc' = "scan", buffer' = buffer,
         nparsed' = nparsed + Found.nread, queue' = queue \o UnitOf(Rest).packs,
         received' = received, delivered' = delivered, failed => failed'
  PROVE  IsAccounted'
<1>1. /\ buffer \in Seq(Byte) /\ queue \in Seq(Entry) /\ delivered \in Seq(Entry)
      /\ nparsed \in 0..Len(buffer) /\ Rest = Behind(buffer, nparsed) /\ Rest \in Seq(Byte)
      /\ Len(Rest) = Len(buffer) - nparsed
  BY RestType DEF IInv, StateOK, BufferFits, LinkTyped, Rest, Behind
<1>2. PICK n \in 0..Len(Rest) : n = UnitOf(Rest).nread /\ n = Found.nread /\ n # 0
  BY <1>1, UnitSize DEF Found
<1>3. PICK u \in Seq(Entry) : u = UnitOf(Rest).packs
  BY <1>1, UnitType
<1>4. PICK Y \in Seq(Byte) : Y = SubSeq(buffer, 1, nparsed) /\ Y \o Rest = buffer
  BY <1>1, SplitAt
<1>5. PICK a \in Seq(Byte), b \in Seq(Byte) :
        a = SubSeq(Rest, 1, n) /\ b = Behind(Rest, n) /\ a \o b = Rest
  <2>1. /\ SubSeq(Rest, 1, n) \in Seq(Byte) /\ Behind(Rest, n) \in Seq(Byte)
        /\ SubSeq(Rest, 1, n) \o Behind(Rest, n) = Rest
    BY <1>1, <1>2, SplitAt
  <2>2. QED BY <2>1, Zenon
<1>6. Consumed(a, b, u) /\ Consumed(Y, Rest, Q) /\ Consumed(X, buffer, P)
  BY <1>1, <1>2, <1>3, <1>4, <1>5, ConsumedUnit DEF Accounted, Scanned
<1>7. Consumed(Y \o a, b, Q \o u)
  BY <1>5, <1>6, ConsumedTrans
<1>8. Rest' = b /\ SubSeq(buffer', 1, nparsed') = Y \o a
  <2>1. n \in 0..(Len(buffer) - nparsed)
    BY <1>1, <1>2
  <2>2. Behind(buffer, nparsed + n) = b /\ SubSeq(buffer, 1, nparsed + n) = Y \o a
    BY <1>1, <1>4, <1>5, <2>1, BehindBehind
  <2>3. QED BY <1>2, <2>2 DEF Rest, Behind
<1>9. Pending = <<>> /\ Pending' = <<>> /\ Scanning'
  BY DEF Pending, Scanning
<1>10. Scanned(X, P, Q \o u)'
  BY <1>6, <1>7, <1>8, <1>9 DEF Accounted, Scanned
<1>11. PICK E \in Seq(Entry) : E = PacksOf(b)
  BY PacksType
<1>12. PacksOf(received) = P \o ((Q \o u) \o E)
  <2>1. (Y \o a) \o b = buffer
    <3>1. Joins(Y, a, b)
      BY JoinBytes
    <3>2. QED BY <1>4, <1>5, <3>1 DEF Joins
  <2>2. b \o <<>> = b /\ buffer \o <<>> = buffer /\ <<>> \in Seq(Byte)
    BY <1>1, ConcatEmptySeq, EmptySeq
  <2>3. PacksOf(buffer) = (Q \o u) \o E
    BY <1>7, <1>11, <2>1, <2>2 DEF Consumed
  <2>4. received = X \o (buffer \o <<>>)
    BY <1>9 DEF Accounted, Scanned
  <2>5. PacksOf(received) = P \o PacksOf(buffer \o <<>>)
    BY <1>6, <2>2, <2>4 DEF Consumed
  <2>6. QED BY <2>2, <2>3, <2>5
<1>13. A \o queue = P \o Q
  BY DEF Accounted, Matched
<1>14. /\ PacksOf(received) = A \o ((queue \o u) \o E)
       /\ A \o (queue \o u) = P \o (Q \o u)
  <2>1. Regroups(A, queue, P, Q, u, E)
    BY <1>1, Regroup
  <2>2. QED BY <1>12, <1>13, <2>1, Zenon DEF Regroups
<1>15. queue' = queue \o u
  BY <1>3
<1>16. Told(A, E, m)'
  BY <1>14, <1>15 DEF Accounted, Told
<1>17. Matched(P, Q \o u, A)'
  <2>1. Len(P) <= Len(A) + Len(queue \o u)
    BY <1>1 DEF Accounted, Matched
  <2>2. ASSUME ~failed PROVE delivered \o (queue \o u) = P \o (Q \o u)
    <3>1. delivered \o queue = P \o Q
      BY <2>2 DEF Accounted, Matched
    <3>2. Regroups(delivered, queue, P, Q, u, E)
      BY <1>1, Regroup
    <3>3. QED BY <3>1, <3>2, Zenon DEF Regroups
  <2>3. QED BY <1>14, <1>15, <2>1, <2>2 DEF Matched
<1>18. Accounted(X, P, Q \o u, A, E, m)'
  BY <1>10, <1>16, <1>17 DEF Accounted
<1>19. PICK R \in Seq(Entry) : R = Q \o u
  BY ConcatProperties
<1>20. Accounted(X, P, R, A, E, m)'
  BY <1>18, <1>19
<1>21. \E Z \in Seq(Byte), K, L, M, N \in Seq(Entry), k \in Nat : Accounted(Z, K, L, M, N, k)'
  <2> WITNESS X \in Seq(Byte), P \in Seq(Entry), R \in Seq(Entry), A \in Seq(Entry), E \in Seq(Entry), m \in Nat
  <2> QED BY <1>20
<1>22. QED BY <1>21 DEF IsAccounted

\* The loop ends: what has been scanned leaves the buffer.
LEMMA AccountWait ==
  ASSUME NEW X \in Seq(Byte), NEW P \in Seq(Entry), NEW Q \in Seq(Entry), NEW A \in Seq(Entry),
         NEW B \in Seq(Entry), NEW m \in Nat, Accounted(X, P, Q, A, B, m),
         IInv, LinkTyped, Scanning, pc' = "drain", buffer' = Rest, nparsed' = 0,
         queue' = queue, received' = received, delivered' = delivered, failed => failed'
  PROVE  IsAccounted'
<1>1. /\ buffer \in Seq(Byte) /\ queue \in Seq(Entry) /\ delivered \in Seq(Entry)
      /\ nparsed \in 0..Len(buffer) /\ Rest = Behind(buffer, nparsed) /\ Rest \in Seq(Byte)
      /\ Len(Rest) \in Nat
  BY RestType DEF IInv, StateOK, BufferFits, LinkTyped, Rest, Behind
<1>2. PICK Y \in Seq(Byte) : Y = SubSeq(buffer, 1, nparsed) /\ Y \o Rest = buffer
  BY <1>1, SplitAt
<1>3. PICK Z \in Seq(Byte) : Z = X \o Y
  BY ConcatProperties
<1>4. PICK R \in Seq(Entry) : R = P \o Q
  BY ConcatProperties
<1>5. Pending = <<>> /\ Pending' = <<>> /\ ~Scanning'
  BY DEF Pending, Scanning
<1>6. Consumed(Z, Rest, R)
  <2>1. Consumed(X, Y \o Rest, P) /\ Consumed(Y, Rest, Q)
    BY <1>2 DEF Accounted, Scanned
  <2>2. QED BY <1>1, <1>3, <1>4, <2>1, ConsumedTrans
<1>7. Consumed(<<>>, Rest, <<>>)
  BY <1>1, ConsumedNone
<1>8. SubSeq(Rest, 1, 0) = <<>> /\ SubSeq(Rest, 1, Len(Rest)) = Rest
  BY <1>1, SubSeqEmpty, SubSeqFull
<1>9. Rest' = Rest
  <2>1. Rest' = SubSeq(buffer', nparsed' + 1, Len(buffer'))
    BY DEF Rest
  <2>2. QED BY <1>8, <2>1
<1>10. received = Z \o (Rest \o <<>>)
  <2>1. received = X \o (buffer \o <<>>)
    BY <1>5 DEF Accounted, Scanned
  <2>2. buffer \o <<>> = buffer /\ Rest \o <<>> = Rest
    BY <1>1, ConcatEmptySeq
  <2>3. Joins(X, Y, Rest)
    BY <1>1, JoinBytes
  <2>4. QED BY <1>2, <1>3, <2>1, <2>2, <2>3 DEF Joins
<1>11. Scanned(Z, R, <<>>)'
  <2>1. received' = Z \o (buffer' \o Pending')
    BY <1>5, <1>10
  <2>2. Consumed(Z, buffer', R)
    BY <1>6
  <2>3. Consumed(SubSeq(buffer', 1, nparsed'), Rest', <<>>)
    BY <1>7, <1>8, <1>9
  <2>4. QED BY <1>5, <2>1, <2>2, <2>3 DEF Scanned
<1>12. Told(A, B, m)'
  BY DEF Accounted, Told
<1>13. Matched(R, <<>>, A)'
  <2>1. A \o queue = R /\ (~failed => delivered \o queue = R)
    BY <1>4 DEF Accounted, Matched
  <2>2. R \o <<>> = R
    BY ConcatEmptySeq
  <2>3. Len(R) = Len(A) + Len(queue) /\ Len(R) \in Nat
    BY <1>1, <2>1, ConcatProperties, SMTT(30)
  <2>4. Len(R) <= Len(A) + Len(queue)
    BY <2>3
  <2>5. QED BY <1>5, <2>1, <2>2, <2>4 DEF Matched
<1>14. Accounted(Z, R, <<>>, A, B, m)'
  BY <1>11, <1>12, <1>13 DEF Accounted
<1>15. <<>> \in Seq(Entry)
  BY EmptySeq
<1> USE <1>15
<1>16. \E V \in Seq(Byte), K, L, M, N \in Seq(Entry), k \in Nat : Accounted(V, K, L, M, N, k)'
  <2> WITNESS Z \in Seq(Byte), R \in Seq(Entry), <<>> \in Seq(Entry), A \in Seq(Entry), B \in Seq(Entry), m \in Nat
  <2> QED BY <1>14
<1>17. QED BY <1>16 DEF IsAccounted

\* mem_fail: the scan is forgotten, what it put on the queue is not.
LEMMA AccountFail ==
  ASSUME NEW X \in Seq(Byte), NEW P \in Seq(Entry), NEW Q \in Seq(Entry), NEW A \in Seq(Entry),
         NEW B \in Seq(Entry), NEW m \in Nat, Accounted(X, P, Q, A, B, m),
         IInv, LinkTyped, Scanning, pc' = "drain", buffer' = buffer, nparsed' = 0,
         queue' = queue, received' = received, delivered' = delivered, failed'
  PROVE  IsAccounted'
<1>1. buffer \in Seq(Byte) /\ queue \in Seq(Entry) /\ Len(buffer) \in Nat
  BY DEF IInv, StateOK
<1>2. Pending = <<>> /\ Pending' = <<>> /\ ~Scanning'
  BY DEF Pending, Scanning
<1>3. Consumed(<<>>, buffer, <<>>)
  BY <1>1, ConsumedNone
<1>4. SubSeq(buffer, 1, 0) = <<>> /\ SubSeq(buffer, 1, Len(buffer)) = buffer
  BY <1>1, SubSeqEmpty, SubSeqFull
<1>5. Rest' = buffer
  <2>1. Rest' = SubSeq(buffer', nparsed' + 1, Len(buffer'))
    BY DEF Rest
  <2>2. QED BY <1>4, <2>1
<1>6. Scanned(X, P, <<>>)'
  <2>1. received' = X \o (buffer' \o Pending') /\ Consumed(X, buffer', P)
    BY <1>2 DEF Accounted, Scanned
  <2>2. Consumed(SubSeq(buffer', 1, nparsed'), Rest', <<>>)
    BY <1>3, <1>4, <1>5
  <2>3. QED BY <1>2, <2>1, <2>2 DEF Scanned
<1>7. Told(A, B, m)'
  BY DEF Accounted, Told
<1>8. Matched(P, <<>>, A)'
  BY <1>2 DEF Accounted, Matched
<1>9. Accounted(X, P, <<>>, A, B, m)'
  BY <1>6, <1>7, <1>8 DEF Accounted
<1>10. <<>> \in Seq(Entry)
  BY EmptySeq
<1> USE <1>10
<1>11. \E V \in Seq(Byte), K, L, M, N \in Seq(Entry), k \in Nat : Accounted(V, K, L, M, N, k)'
  <2> WITNESS X \in Seq(Byte), P \in Seq(Entry), <<>> \in Seq(Entry), A \in Seq(Entry), B \in Seq(Entry), m \in Nat
  <2> QED BY <1>9
<1>12. QED BY <1>11 DEF IsAccounted

\* The first m packs of p have been delivered, and q is the piece of p behind
\* A; Accounted says so of the queue.
Tells(p, A, q, B, d, m) ==
  /\ p = A \o (q \o B) /\ Len(A) <= m /\ m <= Len(p)
  /\ ToSet(d) = {p[j] : j \in 1..m}

\* The pack popped is the next one of the stream, or one delivered before.
LEMMA PopExtends ==
  ASSUME NEW p \in Seq(Entry), NEW A \in Seq(Entry), NEW q \in Seq(Entry), NEW B \in Seq(Entry),
         NEW d \in Seq(Entry), NEW m \in Nat, q # <<>>, Tells(p, A, q, B, d, m)
  PROVE  \E C \in Seq(Entry), k \in Nat :
            /\ Len(C) = Len(A) + 1
            /\ Tells(p, C, Tail(q), B, Append(d, Head(q)), k)
<1> DEFINE e == Head(q)  t == Tail(q)  s == <<e>>
<1>0. /\ p = A \o (q \o B) /\ Len(A) <= m /\ m <= Len(p)
      /\ ToSet(d) = {p[j] : j \in 1..m}
  BY DEF Tells
<1>1. e \in Entry /\ t \in Seq(Entry) /\ q = <<e>> \o t /\ s \in Seq(Entry)
  OBVIOUS
<1> HIDE DEF e, s, t
<1>2. PICK C \in Seq(Entry) : C = A \o s /\ Len(C) = Len(A) + 1
  <2>1. Len(s) = 1
    BY DEF s
  <2>2. A \o s \in Seq(Entry) /\ Len(A \o s) = Len(A) + Len(s)
    BY <1>1, ConcatProperties
  <2>3. QED BY <2>1, <2>2
<1>3. p = C \o (t \o B)
  <2>1. t \o B \in Seq(Entry)
    BY <1>1, ConcatProperties
  <2>2. Joins(s, t, B) /\ Joins(A, s, t \o B)
    BY <1>1, <2>1, JoinPacks
  <2>3. q = s \o t
    BY <1>1 DEF s
  <2>4. QED BY <1>0, <1>2, <2>2, <2>3, Zenon DEF Joins
<1>5. p[Len(A) + 1] = e /\ Len(A) + 1 <= Len(p) /\ Len(A) \in Nat /\ Len(p) \in Nat
  <2> DEFINE v == q \o B
  <2>1. v \in Seq(Entry) /\ Len(v) >= 1 /\ v[1] = e
    BY <1>1
  <2> HIDE DEF v
  <2>2. p = A \o v
    BY <1>0 DEF v
  <2>3. QED BY <2>1, <2>2, ConcatProperties
<1>6. ToSet(Append(d, e)) = ToSet(d) \cup {e}
  <2> DEFINE f == Append(d, e)
  <2>1. /\ f \in Seq(Entry) /\ Len(f) = Len(d) + 1 /\ f[Len(d) + 1] = e /\ Len(d) \in Nat
        /\ \A i \in 1..Len(d) : f[i] = d[i]
        /\ DOMAIN f = 1..(Len(d) + 1) /\ DOMAIN d = 1..Len(d)
    BY <1>1, AppendProperties
  <2> HIDE DEF f
  <2>2. ASSUME NEW y PROVE y \in ToSet(f) <=> y \in ToSet(d) \/ y = e
    <3>1. y \in ToSet(f) <=> \E i \in 1..(Len(d) + 1) : y = f[i]
      BY <2>1 DEF ToSet
    <3>2. y \in ToSet(d) <=> \E i \in 1..Len(d) : y = d[i]
      BY <2>1 DEF ToSet
    <3>3. ASSUME NEW i \in 1..(Len(d) + 1) PROVE i \in 1..Len(d) \/ i = Len(d) + 1
      BY <2>1
    <3>4. Len(d) + 1 \in 1..(Len(d) + 1) /\ \A i \in 1..Len(d) : i \in 1..(Len(d) + 1)
      BY <2>1
    <3>5. QED BY <2>1, <3>1, <3>2, <3>3, <3>4
  <2>3. QED BY <2>2 DEF f
<1>7. \E k \in Nat : /\ Len(A) + 1 <= k /\ k <= Len(p)
                     /\ ToSet(Append(d, e)) = {p[j] : j \in 1..k}
  <2> DEFINE F(k) == {p[j] : j \in 1..k}
  <2>1. CASE m <= Len(A)
    <3>1. m + 1 = Len(A) + 1 /\ m + 1 \in Nat
      BY <1>0, <1>5, <2>1
    <3>2. ASSUME NEW y PROVE y \in F(m + 1) <=> y \in F(m) \/ y = e
      <4>1. \A j \in 1..(m + 1) : j \in 1..m \/ j = m + 1
        OBVIOUS
      <4>2. m + 1 \in 1..(m + 1) /\ \A j \in 1..m : j \in 1..(m + 1)
        OBVIOUS
      <4>3. p[m + 1] = e
        BY <1>5, <3>1
      <4>4. QED BY <4>1, <4>2, <4>3
    <3>3. ToSet(d) = F(m)
      BY <1>0
    <3> HIDE DEF F
    <3>4. ToSet(Append(d, e)) = F(m + 1)
      BY <1>6, <3>2, <3>3
    <3>5. QED BY <1>5, <3>1, <3>4 DEF F
  <2>2. CASE ~(m <= Len(A))
    <3>1. Len(A) + 1 \in 1..m
      BY <1>5, <2>2
    <3>2. e \in F(m)
      BY <1>5, <3>1
    <3>3. ToSet(d) = F(m)
      BY <1>0
    <3> HIDE DEF F
    <3>4. ToSet(Append(d, e)) = F(m)
      BY <1>6, <3>2, <3>3
    <3>5. Len(A) + 1 <= m /\ m <= Len(p)
      BY <1>0, <3>1
    <3>6. QED BY <3>4, <3>5 DEF F
  <2>3. QED BY <2>1, <2>2
<1>8. PICK k \in Nat : /\ Len(A) + 1 <= k /\ k <= Len(p)
                       /\ ToSet(Append(d, e)) = {p[j] : j \in 1..k}
  BY <1>7
<1>9. Tells(p, C, t, B, Append(d, e), k)
  BY <1>2, <1>3, <1>8 DEF Tells
<1>10. QED BY <1>2, <1>9 DEF e, t

\* Popping keeps delivered and queue one sequence.
LEMMA PopMoves ==
  ASSUME NEW d \in Seq(Entry), NEW q \in Seq(Entry), q # <<>>
  PROVE  Append(d, Head(q)) \o Tail(q) = d \o q
<1> DEFINE e == Head(q)  t == Tail(q)  s == <<e>>
<1>1. e \in Entry /\ t \in Seq(Entry) /\ q = s \o t /\ s \in Seq(Entry) /\ Append(d, e) = d \o s
  BY AppendIsConcat
<1> HIDE DEF e, t, s
<1>2. Joins(d, s, t)
  BY <1>1, JoinPacks
<1>3. Append(d, e) \o t = d \o q
  BY <1>1, <1>2, Zenon DEF Joins
<1>4. QED BY <1>3 DEF e, t

LEMMA AccountPop ==
  ASSUME NEW X \in Seq(Byte), NEW P \in Seq(Entry), NEW Q \in Seq(Entry), NEW A \in Seq(Entry),
         NEW B \in Seq(Entry), NEW m \in Nat, Accounted(X, P, Q, A, B, m),
         IInv, LinkTyped, PopToInfo
  PROVE  IsAccounted'
<1>1. /\ queue \in Seq(Entry) /\ received \in Seq(Byte) /\ delivered \in Seq(Entry)
      /\ pc = "drain" /\ pc' = pc /\ queue # <<>> /\ queue' = Tail(queue)
      /\ buffer' = buffer /\ nparsed' = nparsed /\ arg' = arg /\ received' = received
      /\ delivered' = Append(delivered, Head(queue)) /\ failed' = failed
  BY DEF IInv, StateOK, LinkTyped, PopToInfo, PopPack, callVars, faultVars
<1>2. Pending' = Pending /\ ~Scanning /\ ~Scanning' /\ Rest' = Rest
  BY <1>1 DEF Pending, Scanning, Rest
<1>3. PICK p \in Seq(Entry) : p = PacksOf(received)
  BY <1>1, PacksType
<1>4. Tells(p, A, queue, B, delivered, m)
  BY <1>3 DEF Accounted, Told, Tells
<1>5. PICK C \in Seq(Entry), k \in Nat :
        Len(C) = Len(A) + 1 /\ Tells(p, C, queue', B, delivered', k)
  BY <1>1, <1>4, PopExtends
<1>6. delivered' \o queue' = delivered \o queue
  BY <1>1, PopMoves
<1>8. Scanned(X, P, Q)'
  BY <1>1, <1>2 DEF Accounted, Scanned
<1>9. Told(C, B, k)'
  BY <1>1, <1>3, <1>5 DEF Told, Tells
<1>10. Matched(P, Q, C)'
  <2>1. Len(P) <= Len(C) + Len(queue')
    <3>1. Len(queue') = Len(queue) - 1 /\ Len(queue) \in Nat /\ Len(A) \in Nat /\ Len(P) \in Nat
      BY <1>1, HeadTailProperties
    <3>2. Len(P) <= Len(A) + Len(queue)
      BY DEF Accounted, Matched
    <3>3. QED BY <1>5, <3>1, <3>2
  <2>2. ~failed => delivered' \o queue' = P \o Q
    BY <1>6 DEF Accounted, Matched
  <2>3. QED BY <1>1, <1>2, <2>1, <2>2 DEF Matched
<1>11. Accounted(X, P, Q, C, B, k)'
  BY <1>8, <1>9, <1>10 DEF Accounted
<1>12. \E V \in Seq(Byte), K, L, M, N \in Seq(Entry), n \in Nat : Accounted(V, K, L, M, N, n)'
  <2> WITNESS X \in Seq(Byte), P \in Seq(Entry), Q \in Seq(Entry), C \in Seq(Entry), B \in Seq(Entry), k \in Nat
  <2> QED BY <1>11
<1>13. QED BY <1>12 DEF IsAccounted

LEMMA InitAccounted == LinkInit => LinkIInv
<1> SUFFICES ASSUME LinkInit PROVE LinkIInv
  OBVIOUS
<1>1. IInv
  BY InitIInv DEF LinkInit
<1>2. <<>> \in Seq(Byte) /\ <<>> \in Seq(Entry) /\ Len(<<>>) = 0 /\ <<>> \o <<>> = <<>>
  BY EmptySeq
<1>3. LinkTyped
  BY <1>2, LinkAssumption DEF LinkInit, Init, LinkTyped
<1>4. /\ pc = "closed" /\ buffer = <<>> /\ queue = <<>> /\ nparsed = 0
      /\ received = <<>> /\ delivered = <<>>
  BY DEF LinkInit, Init
<1>5. Pending = <<>> /\ ~Scanning
  BY <1>4 DEF Pending, Scanning
<1>6. SubSeq(<<>>, 1, 0) = <<>> /\ Rest = <<>>
  BY <1>4, <1>2, SubSeqEmpty DEF Rest
<1>7. Consumed(<<>>, <<>>, <<>>)
  BY <1>2, ConsumedNone
<1>8. Scanned(<<>>, <<>>, <<>>)
  BY <1>2, <1>4, <1>5, <1>6, <1>7 DEF Scanned
<1>9. PacksOf(<<>>) = <<>>
  <2>1. UnitOf(<<>>).nread = 0
    BY <1>2, EmptyWaits, UnitSize
  <2>2. QED BY <1>2, <2>1, PacksUnfold
<1>10. Told(<<>>, <<>>, 0)
  <2>1. ToSet(delivered) = {} /\ {PacksOf(received)[j] : j \in 1..0} = {}
    BY <1>4 DEF ToSet
  <2>2. QED BY <1>2, <1>4, <1>9, <2>1 DEF Told
<1>11. Matched(<<>>, <<>>, <<>>)
  BY <1>2, <1>4, <1>5 DEF Matched
<1>12. Accounted(<<>>, <<>>, <<>>, <<>>, <<>>, 0)
  BY <1>8, <1>10, <1>11 DEF Accounted
<1>13. IsAccounted
  <2> USE <1>2
  <2>1. \E V \in Seq(Byte), K, L, M, N \in Seq(Entry), n \in Nat : Accounted(V, K, L, M, N, n)
    <3> WITNESS <<>> \in Seq(Byte), <<>> \in Seq(Entry), <<>> \in Seq(Entry), <<>> \in Seq(Entry), <<>> \in Seq(Entry), 0 \in Nat
    <3> QED BY <1>12
  <2>2. QED BY <2>1 DEF IsAccounted
<1>14. QED BY <1>1, <1>3, <1>13 DEF LinkIInv

\* The packs of the unit at nparsed, in the terms of the parser.
LEMMA UnitOfRest ==
  ASSUME IInv
  PROVE  /\ UnitOf(Rest).nread = Found.nread
         /\ (Found.nread > 0 /\ Found.crc >= 0 /\ FoundType \in KnownType /\ ParseOk(FoundType, Sentence))
              => UnitOf(Rest).packs = <<[packType |-> FoundType, pack |-> Sentence]>>
         /\ ~(Found.nread > 0 /\ Found.crc >= 0 /\ FoundType \in KnownType /\ ParseOk(FoundType, Sentence))
              => UnitOf(Rest).packs = <<>>
<1>1. UnitOf(Rest) = UnitFrom(Found, FoundType, Sentence)
  BY UnitIs DEF Found, FoundType, Sentence
<1>2. QED BY <1>1 DEF UnitFrom

LEMMA OtherAccounted ==
  ASSUME IInv, LinkTyped, IsAccounted, OtherStep, ~overflowed'
  PROVE  IsAccounted'
<1>1. /\ received' = received /\ delivered' = delivered /\ ParserStep /\ pc # "drain"
      /\ (failed => failed') /\ (pc = "push" => buffer' = buffer)
  BY Zenon DEF OtherStep
<1>2. PICK X \in Seq(Byte), P, Q, A, B \in Seq(Entry), m \in Nat : Accounted(X, P, Q, A, B, m)
  BY DEF IsAccounted
<1>3. queue \in Seq(Entry) /\ queue \o <<>> = queue
  BY ConcatEmptySeq DEF IInv, StateOK
<1> DEFINE Kept == Accounted(X, P, Q, A, B, m)'
<1>4. ASSUME Kept PROVE IsAccounted'
  <2>1. \E V \in Seq(Byte), K, L, M, N \in Seq(Entry), n \in Nat : Accounted(V, K, L, M, N, n)'
    <3> WITNESS X \in Seq(Byte), P \in Seq(Entry), Q \in Seq(Entry), A \in Seq(Entry), B \in Seq(Entry), m \in Nat
    <3> QED BY <1>4
  <2>2. QED BY <2>1 DEF IsAccounted
<1>5. CASE RealPushEnter
  <2>1. /\ pc = "push" /\ pc' = "copy" /\ buffer' = buffer /\ nparsed' = nparsed /\ queue' = queue
        /\ arg' = arg
    BY <1>1, <1>5 DEF RealPushEnter, callVars
  <2>2. Pending' = Pending /\ (Scanning' <=> Scanning)
    BY <2>1 DEF Pending, Scanning
  <2>3. Kept
    BY <1>1, <1>2, <2>1, <2>2, AccountKept
  <2>4. QED BY <1>4, <2>3
<1>6. CASE RealPushCopy
  BY <1>1, <1>2, <1>6, AccountCopy
<1>7. CASE ScanWait
  <2>1. pc \in {"scan", "pack"} /\ Scanning /\ buffer' = Rest /\ nparsed' = 0 /\ queue' = queue
    BY <1>7 DEF ScanWait, Remains, PushReturns, Scanning
  <2>2. pc' = "drain"
    <3>1. left - Take = 0
      BY <2>1, WholeCall
    <3>2. QED BY <1>7, <3>1 DEF ScanWait, PushReturns
  <2>3. QED BY <1>1, <1>2, <2>1, <2>2, AccountWait
<1>8. CASE NodeMallocFails \/ PackMallocFails
  <2>1. /\ pc \in {"scan", "pack"} /\ Scanning /\ buffer' = buffer /\ nparsed' = 0 /\ queue' = queue
        /\ rv' = -1
    BY <1>8 DEF NodeMallocFails, PackMallocFails, MemFail, PushReturns, Scanning, parserVars
  <2>2. pc' = "drain"
    <3>1. left - Take = 0
      BY <2>1, WholeCall
    <3>2. QED BY <1>8, <3>1 DEF NodeMallocFails, PackMallocFails, MemFail, PushReturns
  <2>3. failed'
    <3>1. pc # "push"
      BY <2>1
    <3>2. QED BY <2>1, <3>1, Zenon DEF OtherStep
  <2>4. QED BY <1>1, <1>2, <2>1, <2>2, <2>3, AccountFail
<1>9. CASE ScanFrame \/ PackMalloc
  <2>1. /\ pc \in {"scan", "pack"} /\ pc' \in {"pack", "fill"} /\ buffer' = buffer
        /\ nparsed' = nparsed /\ queue' = queue /\ arg' = arg
    BY <1>9 DEF ScanFrame, PackMalloc, parserVars, callVars
  <2>2. Pending' = Pending /\ (Scanning' <=> Scanning)
    BY <2>1 DEF Pending, Scanning
  <2>3. Kept
    BY <1>1, <1>2, <2>1, <2>2, AccountKept
  <2>4. QED BY <1>4, <2>3
<1>10. CASE ScanSkip \/ ScanUnknown \/ FillPackFails
  <2>1. /\ Scanning /\ pc' = "scan" /\ buffer' = buffer /\ queue' = queue
        /\ nparsed' = nparsed + Found.nread
    BY <1>10 DEF ScanSkip, ScanUnknown, FillPackFails, NextUnit, Advanced, Scanning, parserVars
  <2>2. Found.nread > 0 /\ Found.nread \in Nat
    BY <1>10, RestType DEF ScanSkip, ScanUnknown, FillPackFails, FrameFound, IInv, CallShape
  <2>3. ~(Found.nread > 0 /\ Found.crc >= 0 /\ FoundType \in KnownType /\ ParseOk(FoundType, Sentence))
    <3>1. Found.crc \in Int
      BY RestType, CrcIsInt DEF IInv, Found
    <3>2. QED BY <1>10, <3>1 DEF ScanSkip, ScanUnknown, FillPackFails
  <2>4. queue' = queue \o UnitOf(Rest).packs /\ Found.nread # 0
    BY <1>3, <2>1, <2>2, <2>3, UnitOfRest, SMTT(30)
  <2>5. QED BY <1>1, <1>2, <2>1, <2>4, AccountUnit
<1>11. CASE FillPack
  <2> DEFINE e == [packType |-> FoundType, pack |-> Sentence]
  <2>1. /\ Scanning /\ pc' = "scan" /\ buffer' = buffer /\ queue' = Append(queue, e)
        /\ nparsed' = nparsed + Found.nread
    BY <1>11 DEF FillPack, LinkedAtEnd, NextUnit, Advanced, Scanning
  <2>2. Found.nread > 0 /\ Found.crc >= 0 /\ FoundType \in KnownType /\ ParseOk(FoundType, Sentence)
    BY <1>11 DEF FillPack, IInv, CallShape
  <2>3. Found.nread # 0 /\ UnitOf(Rest).packs = <<e>>
    BY <2>2, RestType, UnitOfRest DEF IInv
  <2>4. e \in Entry
    BY <2>2, RestType DEF IInv, Entry
  <2> HIDE DEF e
  <2>5. Append(queue, e) = queue \o <<e>>
    BY <1>3, <2>4, AppendIsConcat
  <2>6. queue' = queue \o UnitOf(Rest).packs
    BY <2>1, <2>3, <2>5
  <2>7. QED BY <1>1, <1>2, <2>1, <2>3, <2>6, AccountUnit
<1>12. QED
  BY <1>1, <1>5, <1>6, <1>7, <1>8, <1>9, <1>10, <1>11 DEF ParserStep, PopPack, ParseReturns

\* Every step of the link preserves the invariant.
LEMMA StepAccounted == LinkIInv /\ [LinkNext]_allVars => LinkIInv'
<1> SUFFICES ASSUME LinkIInv, [LinkNext]_allVars PROVE LinkIInv'
  OBVIOUS
<1>1. IInv /\ LinkTyped /\ (overflowed \/ IsAccounted)
  BY DEF LinkIInv
<1>2. IInv' /\ LinkTyped'
  BY <1>1, LinkIsParser, LinkTypes
<1>3. SUFFICES ASSUME ~overflowed' PROVE IsAccounted'
  BY <1>2, Zenon DEF LinkIInv
<1>4. overflowed => overflowed'
  BY Zenon DEF LinkNext, Working, Start, Feed, LoseByte, PopToInfo, OtherStep, Return,
               linkVars, faultVars, allVars
<1>5. IsAccounted
  BY <1>1, <1>3, <1>4, Zenon
<1>6. PICK X \in Seq(Byte), P, Q, A, B \in Seq(Entry), m \in Nat : Accounted(X, P, Q, A, B, m)
  BY <1>5 DEF IsAccounted
<1> DEFINE Kept == Accounted(X, P, Q, A, B, m)'
<1>7. ASSUME Kept PROVE IsAccounted'
  <2>1. \E V \in Seq(Byte), K, L, M, N \in Seq(Entry), n \in Nat : Accounted(V, K, L, M, N, n)'
    <3> WITNESS X \in Seq(Byte), P \in Seq(Entry), Q \in Seq(Entry), A \in Seq(Entry), B \in Seq(Entry), m \in Nat
    <3> QED BY <1>7
  <2>2. QED BY <2>1 DEF IsAccounted
<1>8. CASE Start
  <2>1. /\ pc = "closed" /\ pc' = "idle" /\ buffer = <<>> /\ queue = <<>> /\ buffer' = <<>> /\ queue' = <<>>
        /\ nparsed' = nparsed /\ received' = received /\ delivered' = delivered /\ failed' = failed
    BY <1>1, <1>8 DEF Start, nmea_parser_init, linkVars, faultVars, LinkTyped
  <2>2. Pending' = Pending /\ (Scanning' <=> Scanning)
    BY <2>1 DEF Pending, Scanning
  <2>3. Kept
    BY <1>6, <2>1, <2>2, AccountKept
  <2>4. QED BY <1>7, <2>3
<1>9. CASE \E n \in 1..MaxCut : Feed(n)
  <2>1. PICK n \in 1..MaxCut : Feed(n)
    BY <1>9
  <2>2. n \in 0..Len(wire) /\ wire \in Seq(Byte)
    BY <1>1, <2>1, LinkAssumption DEF Feed, LinkTyped
  <2>3. PICK c \in Seq(Byte) : c = SubSeq(wire, 1, n)
    BY <2>2, CutAgrees
  <2>4. nmea_parse(c) /\ received' = received \o c /\ delivered' = delivered /\ failed' = failed
    BY <2>1, <2>3 DEF Feed, faultVars
  <2>5. QED BY <1>1, <1>6, <2>4, AccountFeed
<1>10. CASE LoseByte \/ UNCHANGED allVars
  <2>1. /\ pc' = pc /\ arg' = arg /\ buffer' = buffer /\ queue' = queue /\ nparsed' = nparsed
        /\ received' = received /\ delivered' = delivered /\ failed' = failed
    BY <1>10 DEF LoseByte, allVars, vars, parserVars, callVars, linkVars, faultVars
  <2>2. Pending' = Pending /\ (Scanning' <=> Scanning)
    BY <2>1 DEF Pending, Scanning
  <2>3. Kept
    BY <1>6, <2>1, <2>2, AccountKept
  <2>4. QED BY <1>7, <2>3
<1>11. CASE PopToInfo
  BY <1>1, <1>6, <1>11, AccountPop
<1>12. CASE OtherStep
  BY <1>1, <1>3, <1>5, <1>12, OtherAccounted
<1>13. CASE Return
  <2>1. /\ pc = "drain" /\ pc' = "idle" /\ buffer' = buffer /\ queue' = queue /\ nparsed' = nparsed
        /\ received' = received /\ delivered' = delivered /\ failed' = failed
    BY <1>13 DEF Return, ParseReturns, parserVars, linkVars, faultVars
  <2>2. Pending' = Pending /\ (Scanning' <=> Scanning)
    BY <2>1 DEF Pending, Scanning
  <2>3. Kept
    BY <1>6, <2>1, <2>2, AccountKept
  <2>4. QED BY <1>7, <2>3
<1>14. QED BY <1>8, <1>9, <1>10, <1>11, <1>12, <1>13 DEF LinkNext, Working

LEMMA LinkAccounted == LinkSpec => []LinkIInv
BY InitAccounted, StepAccounted, PTL DEF LinkSpec
-----------------------------------------------------------------------------
\* Once a call of nmea_parse went through, every sentence among all the bytes
\* received has been delivered, whatever allocations failed before.
THEOREM NothingLost == LinkSpec => []AtLeastOnce
<1>1. LinkIInv => AtLeastOnce
  <2> SUFFICES ASSUME LinkIInv, pc = "idle", rv # -1, ~overflowed,
                      NEW i \in 1..Len(PacksOf(received))
               PROVE  Contains(delivered, PacksOf(received)[i])
    BY DEF AtLeastOnce
  <2>1. IInv /\ LinkTyped /\ IsAccounted
    BY DEF LinkIInv
  <2>2. PICK X \in Seq(Byte), P, Q, A, B \in Seq(Entry), m \in Nat : Accounted(X, P, Q, A, B, m)
    BY <2>1 DEF IsAccounted
  <2>3. /\ buffer \in Seq(Byte) /\ nmea_find_tail(buffer).nread = 0 /\ queue = <<>>
        /\ received \in Seq(Byte) /\ delivered \in Seq(Entry)
    BY <2>1 DEF IInv, StateOK, ResidueKnown, NodesAccounted, LinkTyped
  <2>4. PacksOf(buffer) = <<>>
    BY <2>3, UnitSize, PacksUnfold
  <2>5. buffer \o <<>> = buffer /\ <<>> \in Seq(Byte) /\ P \o <<>> = P
    BY <2>3, EmptySeq, ConcatEmptySeq
  <2>6. received = X \o (buffer \o <<>>) /\ Consumed(X, buffer, P)
    BY <2>2 DEF Accounted, Scanned, Pending
  <2>7. PacksOf(received) = P
    BY <2>4, <2>5, <2>6 DEF Consumed
  <2>8. Len(P) <= Len(A) /\ Len(A) <= m /\ m <= Len(P) /\ Len(P) \in Nat /\ Len(A) \in Nat
    <3>1. Len(P) <= Len(A) + Len(<<>>)
      BY <2>2, <2>3 DEF Accounted, Matched
    <3>2. Len(A) <= m /\ m <= Len(P)
      BY <2>2, <2>7 DEF Accounted, Told
    <3>3. QED BY <3>1, <3>2
  <2>9. i \in 1..m
    BY <2>7, <2>8
  <2>10. PacksOf(received)[i] \in ToSet(delivered)
    BY <2>2, <2>9 DEF Accounted, Told
  <2>11. DOMAIN delivered = 1..Len(delivered)
    BY <2>3, LenProperties
  <2>12. PICK j \in 1..Len(delivered) : PacksOf(received)[i] = delivered[j]
    BY <2>10, <2>11 DEF ToSet
  <2>13. QED BY <2>12 DEF Contains
<1>2. QED BY <1>1, LinkAccounted, PTL

\* What has been delivered are the first sentences of what was received, none
\* left out, failed allocations or not.
THEOREM NothingOvertaken == LinkSpec => []NoOvertaking
<1>1. LinkIInv => NoOvertaking
  <2> SUFFICES ASSUME LinkIInv, ~overflowed
               PROVE  \E m \in 0..Len(PacksOf(received)) :
                        ToSet(delivered) = {PacksOf(received)[j] : j \in 1..m}
    BY DEF NoOvertaking
  <2>1. LinkTyped /\ IsAccounted
    BY DEF LinkIInv
  <2>2. PICK X \in Seq(Byte), P, Q, A, B \in Seq(Entry), m \in Nat : Accounted(X, P, Q, A, B, m)
    BY <2>1 DEF IsAccounted
  <2>3. /\ Len(A) <= m /\ m <= Len(PacksOf(received))
        /\ ToSet(delivered) = {PacksOf(received)[j] : j \in 1..m}
    BY <2>2 DEF Accounted, Told
  <2>4. Len(PacksOf(received)) \in Nat
    BY <2>1, PacksType DEF LinkTyped
  <2>5. m \in 0..Len(PacksOf(received))
    BY <2>3, <2>4
  <2>6. QED BY <2>3, <2>5
<1>2. QED BY <1>1, LinkAccounted, PTL

\* The parser implements the stream parser step by step: however the stream is
\* cut into calls, each pack delivered is the next one of a single scan.
THEOREM RefinesStream == LinkSpec => StepsOfStream
<1>1. LinkInit => Whole!Init
  BY DEF LinkInit, Whole!Init
<1>2. LinkIInv /\ [LinkNext]_allVars =>
        [failed \/ overflowed \/ Whole!Next]_<<received, delivered>>
  <2> SUFFICES ASSUME LinkIInv, [LinkNext]_allVars, ~failed, ~overflowed,
                      ~(received' = received /\ delivered' = delivered)
               PROVE  Whole!Next
    BY Zenon
  <2>1. IInv /\ LinkTyped /\ IsAccounted
    BY DEF LinkIInv
  <2>2. CASE \E n \in 1..MaxCut : Feed(n)
    <3>1. PICK n \in 1..MaxCut : Feed(n)
      BY <2>2
    <3>2. n \in 1..Len(wire) /\ wire \in Seq(Byte) /\ received \in Seq(Byte)
      BY <2>1, <3>1, LinkAssumption, ParserAssumption DEF Feed, LinkTyped
    <3>3. PICK c \in Seq(Byte) : c = SubSeq(wire, 1, n) /\ Len(c) = n
      <4>1. n \in 0..Len(wire) /\ wire \in Seq(Byte)
        BY <3>2
      <4>2. QED BY <4>1, CutAgrees
    <3>4. received' = received \o c /\ delivered' = delivered
      BY <3>1, <3>3 DEF Feed
    <3>5. PICK r \in Seq(Byte) : /\ r = received' /\ Len(r) = Len(received) + Len(c)
                                 /\ \A i \in 1..Len(received) : r[i] = received[i]
      <4> DEFINE q == received \o c
      <4>1. /\ q \in Seq(Byte) /\ Len(q) = Len(received) + Len(c)
            /\ \A i \in 1..Len(received) : q[i] = received[i]
        BY <3>2, ConcatProperties
      <4> HIDE DEF q
      <4>2. received' = q
        BY <3>4 DEF q
      <4>3. QED BY <4>1, <4>2
    <3>6. Len(received) <= Len(r) /\ received # r
      BY <3>2, <3>3, <3>5
    <3>7. IsPrefix(received, r)
      BY <3>2, <3>5, <3>6, PrefixMeans
    <3>8. QED BY <3>4, <3>5, <3>6, <3>7
              DEF Whole!Next, Whole!Receive, Whole!IsStrictPrefix, Whole!IsPrefix, IsPrefix
  <2>3. CASE PopToInfo
    <3>1. PICK X \in Seq(Byte), P, Q, A, B \in Seq(Entry), m \in Nat : Accounted(X, P, Q, A, B, m)
      BY <2>1 DEF IsAccounted
    <3>2. /\ pc = "drain" /\ queue # <<>> /\ queue \in Seq(Entry) /\ delivered \in Seq(Entry)
          /\ buffer \in Seq(Byte) /\ delivered' = Append(delivered, Head(queue)) /\ received' = received
      BY <2>1, <2>3 DEF PopToInfo, PopPack, IInv, StateOK, LinkTyped
    <3>3. Q = <<>> /\ received = X \o (buffer \o <<>>) /\ Consumed(X, buffer, P)
      BY <3>1, <3>2 DEF Accounted, Scanned, Scanning, Pending
    <3>4. delivered \o queue = P
      <4>1. P \o <<>> = P
        BY ConcatEmptySeq
      <4>2. QED BY <3>1, <3>3, <4>1 DEF Accounted, Matched
    <3>5. PICK E \in Seq(Entry) : PacksOf(received) = P \o E
      <4>1. <<>> \in Seq(Byte) /\ buffer \o <<>> \in Seq(Byte)
        BY <3>2, EmptySeq, ConcatProperties
      <4>2. QED BY <3>3, <4>1, PacksType DEF Consumed
    <3>6. /\ Len(delivered) < Len(P) /\ P[Len(delivered) + 1] = Head(queue) /\ Len(P) \in Nat
          /\ Len(delivered) \in Nat
      BY <3>2, <3>4
    <3>7. /\ Len(delivered) < Len(PacksOf(received))
          /\ PacksOf(received)[Len(delivered) + 1] = Head(queue)
      <4>1. /\ Len(P \o E) = Len(P) + Len(E) /\ Len(E) \in Nat
            /\ \A j \in 1..Len(P) : (P \o E)[j] = P[j]
        BY <3>6, ConcatProperties
      <4>2. QED BY <3>5, <3>6, <4>1
    <3>8. QED BY <3>2, <3>7 DEF Whole!Next, Whole!Deliver
  <2>4. CASE Start \/ LoseByte \/ OtherStep \/ Return \/ UNCHANGED allVars
    BY <2>4 DEF Start, LoseByte, OtherStep, Return, linkVars, allVars
  <2>5. QED BY <2>2, <2>3, <2>4 DEF LinkNext, Working
<1>3. QED BY <1>1, <1>2, LinkAccounted, PTL DEF LinkSpec, StepsOfStream
=============================================================================
