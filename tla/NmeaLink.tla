------------------------------ MODULE NmeaLink ------------------------------
(***************************************************************************)
(* A receiver, a serial line that may lose bytes, and the parser of        *)
(* NmeaParser: the line's bytes reach nmea_parse in calls of any length,   *)
(* and delivered records the packs that nmea_parse takes off the queue, in *)
(* that order.  This is how the samples use the parser: read what the      *)
(* device has, hand it to nmea_parse.                                      *)
(***************************************************************************)
EXTENDS NmeaParser

CONSTANTS
  Stream,        \* the byte strings the receiver may send
  MaxCut,        \* bound: the longest piece handed over in one call
  MaxLost        \* bound: how many bytes the line loses

ASSUME LinkAssumption ==
  /\ Stream \subseteq Seq(Byte)
  \* A round hands over at most the sample's read buffer, RT_SERIAL_RB_BUFSZ (64);
  \* the parser's buffer has NMEA_DEF_PARSEBUFF bytes (1024) and never under 256.
  /\ MaxCut \in 1..BuffSize /\ MaxLost \in Nat

VARIABLES
  sent,          \* everything the receiver sends
  wire,          \* what has not been handed to nmea_parse yet
  received,      \* what has
  delivered,     \* the packs nmea_parse has put into info
  lost,          \* bytes lost so far
  failed,        \* history: an rt_malloc of a call has failed
  overflowed     \* history: the buffer was cleared with bytes in it

faultVars == <<failed, overflowed>>
linkVars == <<sent, wire, received, delivered, lost, faultVars>>
allVars == <<vars, linkVars>>

LinkInit ==
  /\ Init
  /\ sent \in Stream
  /\ wire = sent
  /\ received = <<>> /\ delivered = <<>> /\ lost = 0
  /\ failed = FALSE /\ overflowed = FALSE

Start == nmea_parser_init /\ UNCHANGED linkVars

\* nmea_parse on the next n bytes.
Feed(n) ==
  /\ n <= Len(wire)
  /\ nmea_parse(SubSeq(wire, 1, n))
  /\ received' = received \o SubSeq(wire, 1, n)
  /\ wire' = SubSeq(wire, n + 1, Len(wire))
  /\ UNCHANGED <<sent, delivered, lost, faultVars>>

LoseByte ==
  /\ lost < MaxLost
  /\ wire # <<>>
  /\ wire' = Tail(wire)
  /\ lost' = lost + 1
  /\ UNCHANGED <<vars, sent, received, delivered, faultVars>>

\* nmea_parse's loop puts the pack it pops into info.
PopToInfo ==
  /\ PopPack
  /\ delivered' = Append(delivered, Head(queue))
  /\ UNCHANGED <<sent, wire, received, lost, faultVars>>

OtherStep ==
  /\ ParserStep /\ pc # "drain"
  /\ failed' = (failed \/ (pc # "push" /\ rv' = -1))
  /\ overflowed' = (overflowed \/ (pc = "push" /\ buffer' # buffer))
  /\ UNCHANGED <<sent, wire, received, delivered, lost>>

Return == ParseReturns /\ UNCHANGED linkVars

Working == PopToInfo \/ OtherStep \/ Return

LinkNext ==
  \/ Start
  \/ \E n \in 1..MaxCut : Feed(n)
  \/ LoseByte
  \/ Working

LinkSpec == LinkInit /\ [][LinkNext]_allVars /\ WF_allVars(Working)
-----------------------------------------------------------------------------
\* The history of a link is a state of the abstract parser; buffer, queue and
\* calls have no counterpart there.
Whole == INSTANCE NmeaStream WITH PacksOf <- PacksOf, received <- received, delivered <- delivered

\* The parser implements the stream parser of NmeaStream: whatever the cuts
\* and whatever bytes are lost, delivered is what one scan over all the bytes
\* received would deliver, in order, each pack once, and none is left out for
\* ever.  (Without overflow of the buffer and with enough memory.)
ImplementsStream == Whole!Spec

\* The same step by step, for every parser: as long as no allocation failed
\* and the buffer did not overflow, a step of the link receives bytes, delivers
\* the next pack of the stream, or is not visible.
StepsOfStream ==
  Whole!Init /\ [][failed \/ overflowed \/ Whole!Next]_<<received, delivered>>

\* s can be obtained from t by leaving elements out.
IsSubsequence(s, t) ==
  \E f \in [1..Len(s) -> 1..Len(t)] :
     /\ \A i, j \in 1..Len(s) : i < j => f[i] < f[j]
     /\ \A i \in 1..Len(s) : s[i] = t[f[i]]

\* The sentences the receiver sent, each with its type.
SentPacks == PacksOf(sent)

\* Overflow loses sentences, and that is all it does: what is delivered was
\* sent, in the order it was sent and once, although the bytes thrown away may
\* end in the middle of a sentence.  (A failed allocation leaves the sentences
\* queued before it in the buffer, which delivers them again.)
OverflowOnlyLoses == failed \/ IsSubsequence(delivered, SentPacks)

\* No failed allocation loses a sentence: once a call went through, all that
\* was received has been delivered, unless the buffer overflowed.
AtLeastOnce ==
  (pc = "idle" /\ hasBuffer /\ rv # -1 /\ ~overflowed) =>
     \A i \in 1..Len(PacksOf(received)) : Contains(delivered, PacksOf(received)[i])

\* A sentence is not overtaken: failed allocations or not, what has been
\* delivered are the sentences up to some point of the stream, none before it
\* left out and nothing that the stream does not hold.
NoOvertaking ==
  LET p == PacksOf(received)
  IN  overflowed \/ \E m \in 0..Len(p) : ToSet(delivered) = {p[j] : j \in 1..m}
=============================================================================
