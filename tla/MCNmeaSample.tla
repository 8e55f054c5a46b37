---------------------------- MODULE MCNmeaSample ----------------------------
(* A ring of four bytes and a queue of two messages.                       *)
EXTENDS NmeaSample
=============================================================================
