--------------------------- MODULE MCNmeaFraming ----------------------------
(* The alphabet for TLC's run of NmeaFraming.                              *)
EXTENDS NmeaFraming, NmeaAscii

Bytes == 0..255

\* '$' '*' '\r' '\n' ENQ 0xFB and the texts "05" and "-5": a small alphabet
\* in which valid, mismatching, open, blocked and negative check sums occur.
Pieces == {<<36>>, <<42>>, <<13>>, <<10>>, <<5>>, <<251>>, <<48, 53>>, <<45, 53>>}
=============================================================================
