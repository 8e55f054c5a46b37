----------------------------- MODULE MCGpsParse -----------------------------
(* Lines just long enough, one section too short, with empty fields, and   *)
(* too long.                                                               *)
EXTENDS GpsParse

MCGgaFields ==
  LET whole == <<101, 3112, Letter.N, 12135, Letter.W, 1, 300, 3, 30>>
  IN  {whole, SubSeq(whole, 1, 8),
       <<102, Empty, Empty, Empty, Empty, 0, Empty, Empty, Empty, Empty>>}

MCRmcFields ==
  LET whole == <<201, Letter.A, 3112, Letter.S, 12135, Letter.E, 5, 176, 120521, Empty>>
  IN  {whole, SubSeq(whole, 1, 9), SubSeq(whole, 1, 9) \o [k \in 1..12 |-> k],
       <<202, Letter.V, Empty, Empty, Empty, Empty, Empty, Empty, 120521, Empty, Empty, Letter.X, Letter.V>>}
=============================================================================
