----------------------------- MODULE NmeaParser -----------------------------
(***************************************************************************)
(* The NMEA parser object of                                               *)
(* bsp/simulator_nmea/applications/nmea/nmea_parse.c: nmea_parser_init,    *)
(* nmea_parse (nmea_parser_push, nmea_parser_real_push, the loop that pops *)
(* the queue) and nmea_parser_destroy.                                     *)
(*                                                                         *)
(* One call of nmea_parse is a sequence of steps: pc says where in the     *)
(* call the thread stands.  Every rt_malloc is a step of its own, because  *)
(* each of them can fail and the error paths differ.                       *)
(***************************************************************************)
EXTENDS NmeaUnit

CONSTANTS
  Chunk,          \* the byte strings a caller may hand to nmea_parse
  BuffSize,       \* parser->buff_size (NMEA_DEF_PARSEBUFF in the code)
  HeapSize,       \* bound: blocks the heap can hold for this parser
  MallocMayFail   \* TRUE: other threads may take the memory at any time

ASSUME ParserAssumption ==
  /\ Chunk \subseteq Seq(Byte)
  /\ BuffSize \in Nat \ {0}
  /\ HeapSize \in Nat
  /\ MallocMayFail \in BOOLEAN

VARIABLES
  pc,         \* where the thread stands in the call
  hasBuffer,  \* parser->buffer # NULL
  buffer,     \* parser->buffer[0 .. buff_use - 1]
  queue,      \* top_node .. end_node
  resv,       \* the value nmea_parser_init returned, 0 before its call
  arg, left,  \* nmea_parse's buff, and nmea_parser_push's buff_sz
  nparsed,    \* nmea_parser_real_push's local of that name
  rv,         \* the last value nmea_parser_real_push returned
  nodes,      \* queue nodes allocated and not freed
  packs       \* packs allocated and not freed

parserVars == <<hasBuffer, buffer, queue>>
callVars   == <<arg, left, nparsed, rv>>
heapVars   == <<nodes, packs>>
vars       == <<pc, parserVars, resv, callVars, heapVars>>
-----------------------------------------------------------------------------
(* The heap: rt_malloc and rt_free as the parser sees them.                *)

HeapUsed == nodes + packs + (IF hasBuffer THEN 1 ELSE 0)
MallocSucceeds == HeapUsed < HeapSize
MallocFails == HeapUsed >= HeapSize \/ MallocMayFail
-----------------------------------------------------------------------------
(* What the steps compute.                                                 *)

\* nparse: how much of what is left one nmea_parser_real_push takes.
Take == IF left > BuffSize THEN BuffSize ELSE left

\* The bytes it takes: nmea_parser_push never advances buff.
Piece == SubSeq(arg, 1, Take)

\* Fault: the buffer is not cleared on overflow.
OverflowsNever == FALSE

\* if (buff_use + buff_sz >= buff_size)
Overflows == Len(buffer) + Take >= BuffSize

\* buffer + nparsed .. buffer + buff_use, and what nmea_find_tail says of it
Rest == SubSeq(buffer, nparsed + 1, Len(buffer))
Found == nmea_find_tail(Rest)
Sentence == SubSeq(Rest, 1, Found.nread)
FoundType == nmea_pack_type(Tail(Rest))

\* Fault: a unit is parsed whatever its check sum.
FrameFoundUnchecked == Found.nread > 0

FrameFound == Found.nread > 0 /\ Found.crc >= 0

\* Faults: what has been parsed stays in the buffer; the first byte of a unit
\* that does not close is dropped.
RemainsAll == buffer
RemainsLessFirst == IF Blocked(Rest) THEN Tail(Rest) ELSE Rest

\* What is moved to the front when nmea_find_tail finds nothing more.
Remains == Rest

\* Fault: the node is linked before top_node.
LinkedAtTop(e) == <<e>> \o queue

LinkedAtEnd(e) == Append(queue, e)

\* Fault: nmea_parser_push counts a whole buffer for every piece.
LeftAfterFullSize == left - BuffSize

LeftAfter == left - Take

\* The return of nmea_parser_real_push into nmea_parser_push's loop.
PushReturns(ret) ==
  /\ rv' = ret
  /\ left' = LeftAfter
  /\ nparsed' = 0
  /\ pc' = IF left - Take = 0 THEN "drain" ELSE "push"
  /\ UNCHANGED arg

\* Fault: nparsed is not advanced.
Stays == nparsed

Advanced == nparsed + Found.nread

\* nparsed += sen_sz, and back to the head of the for loop.
NextUnit ==
  /\ nparsed' = Advanced
  /\ pc' = "scan"
  /\ UNCHANGED <<arg, left, rv>>

\* Fault: the error is not reported.
MemFailSilent == PushReturns(0) /\ UNCHANGED parserVars

\* Fault: the buffer is given up together with the sentence.
MemFailClears == PushReturns(-1) /\ buffer' = <<>> /\ UNCHANGED <<hasBuffer, queue>>

\* mem_fail: return -1.  The buffer keeps everything, the units this call
\* has already put on the queue included.
MemFail == PushReturns(-1) /\ UNCHANGED parserVars
-----------------------------------------------------------------------------
Init ==
  /\ pc = "closed"
  /\ hasBuffer = FALSE /\ buffer = <<>> /\ queue = <<>>
  /\ resv = 0
  /\ arg = <<>> /\ left = 0 /\ nparsed = 0 /\ rv = 0
  /\ nodes = 0 /\ packs = 0

nmea_parser_init ==
  /\ pc = "closed"
  /\ pc' = "idle"
  /\ buffer' = <<>> /\ queue' = <<>>
  /\ \/ MallocSucceeds /\ hasBuffer' = TRUE /\ resv' = 1
     \/ MallocFails /\ hasBuffer' = FALSE /\ resv' = -1
  /\ rv' = 0
  /\ UNCHANGED <<arg, left, nparsed, heapVars>>

\* The entry of nmea_parse.  A caller goes on when nmea_parser_init returned
\* true, which in C is any value but 0.
nmea_parse(c) ==
  /\ pc = "idle" /\ resv # 0
  /\ hasBuffer
  /\ pc' = "push"
  /\ arg' = c /\ left' = Len(c)
  /\ UNCHANGED <<parserVars, resv, nparsed, rv, heapVars>>

\* NMEA_ASSERT(parser && parser->buffer) in nmea_parse and in
\* nmea_parser_destroy: RT_ASSERT stops the thread.
AssertFails ==
  /\ pc = "idle" /\ resv # 0
  /\ ~hasBuffer
  /\ pc' = "halted"
  /\ UNCHANGED <<parserVars, resv, callVars, heapVars>>

\* Fault: on overflow the new bytes are refused and the old ones kept.
RealPushEnterRefuses ==
  /\ pc = "push"
  /\ pc' = IF Overflows THEN "drain" ELSE "copy"
  /\ left' = IF Overflows THEN 0 ELSE left
  /\ UNCHANGED <<parserVars, resv, arg, nparsed, rv, heapVars>>

\* The head of nmea_parser_real_push: nmea_parser_buff_clear on overflow.
RealPushEnter ==
  /\ pc = "push"
  /\ pc' = "copy"
  /\ buffer' = IF Overflows THEN <<>> ELSE buffer
  /\ UNCHANGED <<hasBuffer, queue, resv, callVars, heapVars>>

\* rt_memcpy to the end of the buffer.
RealPushCopy ==
  /\ pc = "copy"
  /\ pc' = "scan"
  /\ buffer' = buffer \o Piece
  /\ nparsed' = 0
  /\ UNCHANGED <<hasBuffer, queue, resv, arg, left, rv, heapVars>>

\* sen_sz = 0: move the rest to the front and return.
ScanWait ==
  /\ pc = "scan"
  /\ Found.nread = 0
  /\ buffer' = Remains
  /\ PushReturns(nparsed)
  /\ UNCHANGED <<hasBuffer, queue, resv, heapVars>>

\* sen_sz > 0 and crc < 0: skip the unit.
ScanSkip ==
  /\ pc = "scan"
  /\ Found.nread > 0 /\ Found.crc < 0
  /\ NextUnit
  /\ UNCHANGED <<parserVars, resv, heapVars>>

\* A frame: the node is allocated before the type is looked at, and freed
\* again when the type is unknown.
ScanUnknown ==
  /\ pc = "scan"
  /\ FrameFound
  /\ MallocSucceeds
  /\ FoundType \notin KnownType
  /\ NextUnit
  /\ UNCHANGED <<parserVars, resv, heapVars>>

ScanFrame ==
  /\ pc = "scan"
  /\ FrameFound
  /\ MallocSucceeds
  /\ FoundType \in KnownType
  /\ pc' = "pack"
  /\ nodes' = nodes + 1
  /\ UNCHANGED <<parserVars, resv, callVars, packs>>

NodeMallocFails ==
  /\ pc = "scan"
  /\ FrameFound
  /\ MallocFails
  /\ MemFail
  /\ UNCHANGED <<resv, heapVars>>

PackMalloc ==
  /\ pc = "pack"
  /\ MallocSucceeds
  /\ pc' = "fill"
  /\ packs' = packs + 1
  /\ UNCHANGED <<parserVars, resv, callVars, nodes>>

\* Fault: mem_fail does not free the node.
PackMallocFailsLeaks ==
  /\ pc = "pack"
  /\ MallocFails
  /\ MemFail
  /\ UNCHANGED <<resv, heapVars>>

PackMallocFails ==
  /\ pc = "pack"
  /\ MallocFails
  /\ MemFail
  /\ nodes' = nodes - 1
  /\ UNCHANGED <<resv, packs>>

\* nmea_parse_gga ... fill the pack, and the node is linked at the end.
FillPack ==
  /\ pc = "fill"
  /\ ParseOk(FoundType, Sentence)
  /\ queue' = LinkedAtEnd([packType |-> FoundType, pack |-> Sentence])
  /\ NextUnit
  /\ UNCHANGED <<hasBuffer, buffer, resv, heapVars>>

\* They fail: the node is freed, the pack it points to is not.
FillPackFails ==
  /\ pc = "fill"
  /\ ~ParseOk(FoundType, Sentence)
  /\ nodes' = nodes - 1
  /\ NextUnit
  /\ UNCHANGED <<parserVars, resv, packs>>

\* Fault: nmea_parse does not free the pack.
PackKept == packs

PackFreed == packs - 1

\* nmea_parse's loop: nmea_parser_pop frees the node, the pack goes into
\* info (module NmeaInfo) and is freed.
PopPack ==
  /\ pc = "drain"
  /\ queue # <<>>
  /\ queue' = Tail(queue)
  /\ nodes' = nodes - 1
  /\ packs' = PackFreed
  /\ UNCHANGED <<pc, hasBuffer, buffer, resv, callVars>>

ParseReturns ==
  /\ pc = "drain"
  /\ queue = <<>>
  /\ pc' = "idle"
  /\ arg' = <<>>
  /\ UNCHANGED <<parserVars, resv, left, nparsed, rv, heapVars>>

\* nmea_parser_drop for every node: the node and its pack are freed.
nmea_parser_queue_clear ==
  /\ queue' = <<>>
  /\ nodes' = nodes - Len(queue)
  /\ packs' = packs - Len(queue)

\* rt_free(buffer), nmea_parser_queue_clear and memset.
nmea_parser_destroy ==
  /\ pc = "idle" /\ resv # 0
  /\ hasBuffer
  /\ pc' = "closed"
  /\ hasBuffer' = FALSE /\ buffer' = <<>>
  /\ nmea_parser_queue_clear
  /\ resv' = 0
  /\ UNCHANGED callVars
-----------------------------------------------------------------------------
\* The steps inside a call: once nmea_parse is entered they run by
\* themselves.
ParserStep ==
  \/ RealPushEnter \/ RealPushCopy
  \/ ScanWait \/ ScanSkip \/ ScanUnknown \/ ScanFrame \/ NodeMallocFails
  \/ PackMalloc \/ PackMallocFails \/ FillPack \/ FillPackFails
  \/ PopPack \/ ParseReturns

Receive == \E c \in Chunk : nmea_parse(c)

Next ==
  \/ nmea_parser_init
  \/ Receive
  \/ ParserStep
  \/ nmea_parser_destroy
  \/ AssertFails

Spec == Init /\ [][Next]_vars

\* The thread that called nmea_parse keeps running, and bytes keep coming:
\* calls without a byte do not go on for ever.
FairSpec ==
  /\ Spec
  /\ WF_vars(ParserStep)
  /\ SF_vars(\E c \in Chunk \ {<<>>} : nmea_parse(c))
-----------------------------------------------------------------------------
Entry == [packType : KnownType, pack : Seq(Byte)]

StateOK ==
  /\ pc \in {"closed", "idle", "push", "copy", "scan", "pack", "fill", "drain", "halted"}
  /\ buffer \in Seq(Byte)
  /\ queue \in Seq(Entry)
  /\ resv \in {-1, 0, 1}
  /\ arg \in Seq(Byte) /\ left \in 0..Len(arg)
  /\ nparsed \in Nat /\ rv \in Nat \cup {-1}
  /\ nodes \in Nat /\ packs \in Nat

\* The types of the parser's state.
TypeOK == StateOK /\ hasBuffer \in BOOLEAN

\* No memcpy of nmea_parser_real_push leaves the buffer: neither the copy of
\* the caller's bytes nor the move of the rest, whatever was skipped, queued
\* or left behind by a failed call before.
BufferFits ==
  /\ Len(buffer) <= BuffSize
  /\ pc = "copy" => Len(buffer) + Take <= BuffSize
  /\ nparsed <= Len(buffer)

\* Every node is on the queue or in the hands of the running call, every
\* queued node has its pack, and between calls no node is left: the error
\* paths and the pop loop free each node once.
NodesAccounted ==
  /\ nodes = Len(queue) + (IF pc \in {"pack", "fill"} THEN 1 ELSE 0)
  /\ packs >= Len(queue) + (IF pc = "fill" THEN 1 ELSE 0)
  /\ pc \in {"closed", "idle", "halted"} => queue = <<>>

\* Whatever the stream held, only frames with a valid check sum, a known
\* header and fields that parse reach nmea_parse's info.
QueuedAreFrames ==
  \A i \in 1..Len(queue) :
    /\ IsFrame(queue[i].pack)
    /\ queue[i].packType \in KnownType
    /\ ParseOk(queue[i].packType, queue[i].pack)

\* When nmea_parse returns and no allocation failed, the buffer starts with
\* an open or a blocked unit: nothing that can be framed now waits for the
\* next call.
ResidueScanned ==
  (pc = "idle" /\ rv # -1) => (Open(buffer) \/ Blocked(buffer))

\* A buffer whose front is blocked is never repaired: the only way out is
\* that all of it is thrown away, by the overflow in nmea_parser_real_push
\* or by nmea_parser_destroy.
BlockedUntilCleared ==
  [][Blocked(buffer) => (Blocked(buffer') \/ buffer' = <<>>)]_vars

\* Packs that neither the queue nor the running call holds are lost.  A pack
\* is lost only when its fields do not parse, and then one; on every other
\* path, failed allocations and nmea_parser_destroy included, it is freed once.
Unowned == packs - Len(queue) - (IF pc = "fill" THEN 1 ELSE 0)
LeakOnlyOnBadFields ==
  [][Unowned' # Unowned =>
       Unowned' = Unowned + 1 /\ pc = "fill" /\ ~ParseOk(FoundType, Sentence)]_vars

\* Every call of nmea_parse returns.
CallReturns == (pc \in {"push", "copy", "scan", "pack", "fill", "drain"}) ~> (pc = "idle")

\* As long as bytes keep coming, a blocked buffer is cleared at last.
BlockedEventuallyCleared == Blocked(buffer) ~> (buffer = <<>>)
-----------------------------------------------------------------------------
(* What the comments and the README say, and the code does not do.         *)

\* nmealib's README, on nmea_parse: once a complete NMEA string has been
\* received its content is stored in info.  So no complete sentence is in
\* the buffer when nmea_parse returns.
NoSentenceStuck ==
  (pc = "idle" /\ rv # -1) =>
    \A i, j \in 1..Len(buffer) : i <= j => ~IsSentence(SubSeq(buffer, i, j))

\* "Analysis of buffer": nmea_parser_push hands every byte of the caller's
\* buffer on, each piece starting where the one before it ended.
PushReadsOn ==
  pc = "copy" =>
    Piece = SubSeq(arg, Len(arg) - left + 1, Len(arg) - left + Take)
=============================================================================
