----------------------------- MODULE NmeaStream -----------------------------
(***************************************************************************)
(* What a parser of an NMEA stream promises, without buffers or calls:     *)
(* bytes are received, and the packs of the frames in them are delivered,  *)
(* in the order of the stream and each one once.  Where the stream is cut  *)
(* into calls is not visible here.                                         *)
(***************************************************************************)
EXTENDS Naturals, Sequences, SequencesExt

CONSTANT PacksOf(_)    \* the packs a stream holds

VARIABLES received, delivered

Init == received = <<>> /\ delivered = <<>>

Receive ==
  /\ IsStrictPrefix(received, received')
  /\ UNCHANGED delivered

Deliver ==
  /\ \E packs \in {PacksOf(received)} :
       /\ Len(delivered) < Len(packs)
       /\ delivered' = Append(delivered, packs[Len(delivered) + 1])
  /\ UNCHANGED received

Next == Receive \/ Deliver

vars == <<received, delivered>>

\* Nothing that has been received waits to be delivered.
CaughtUp == delivered = PacksOf(received)

Spec == Init /\ [][Next]_vars /\ []<>CaughtUp
=============================================================================
