---------------------------- MODULE MCNmeaScanf ----------------------------
(* A sentence of every kind, with the fields that later versions of the    *)
(* protocol add, and what may stand in a field instead.                    *)
EXTENDS NmeaScanf

Digits(n) == [k \in 1..n |-> "9"]
Real == <<"9", ".", "9">>
Time == Digits(6) \o <<".">> \o Digits(2)

MCBase == [
  GGA |-> <<Time, Real, <<"N">>, Real, <<"E">>, Digits(1), Digits(2), Real, Real, <<"M">>, Real, <<"M">>, Real, Digits(4)>>,
  GSA |-> <<<<"A">>>> \o [k \in 1..13 |-> Digits(2)] \o [k \in 1..3 |-> Real] \o <<Digits(1)>>,
  GSV |-> [k \in 1..20 |-> Digits(2)],
  RMC |-> <<Time, <<"A">>, Real, <<"N">>, Real, <<"E">>, Real, Real, Digits(6), Real, <<"W">>, <<"A">>, <<"V">>>>,
  VTG |-> <<Real, <<"T">>, Real, <<"M">>, Real, <<"N">>, Real, <<"K">>, <<"A">>>>]

MCChar == {"9", ".", "A", "E", "K", "M", "N", "T", "V", "W"}
MCContents == {<<>>, <<"A">>, Digits(6), <<"9", "A">>}
=============================================================================
