----------------------------- MODULE MCNmeaInfo -----------------------------
(* Satellites, sentences and malformed packs for the runs of NmeaInfo.     *)
EXTENDS NmeaInfo

None == {}

\* A half-filled last message, and a shorter cycle in which the satellites
\* have moved.
Views3 == {<<1, 2, 3>>, <<2, 3>>}

\* One satellite more than the table holds.
LargeViews == {<<1, 2, 3, 4, 5>>, <<1, 2>>}

\* A GSA for a fix with these satellites.
Fix(type, prns) ==
  [fix_type |-> type, PDOP |-> 1, HDOP |-> 1, VDOP |-> 1,
   sat_prn |-> [i \in Slots |-> IF i < Len(prns) THEN prns[i + 1] ELSE 0]]

SomeGSA == {Fix(1, <<>>), Fix(3, <<1, 3>>)}

\* <<index, count, satellites, satellites in the text>>: index 0, an index
\* beyond the table and one beyond the count, numbers below 0 and beyond the
\* table, fewer satellites in the text than announced, and numbers whose
\* products and differences leave the range of an int of six bits.
Numbers == {<<16, 16, 5, 2>>, <<17, 20, 5, 2>>, <<2, 3, -32, 0>>,
            <<0, 3, 5, 2>>, <<3, 3, 5, 1>>, <<3, 2, 5, 2>>, <<2, 3, -1, 0>>, <<2, 3, 5, 1>>}

Odd == {[pack_index |-> m[1], pack_count |-> m[2], sat_count |-> m[3], quads |-> m[4],
         sat_data |-> [k \in 0..(SatInPack - 1) |-> IF k < m[4] THEN 2 ELSE 0]] :
           m \in Numbers}

SomeGGA == {[time |-> 1, sig |-> 1, HDOP |-> 1, elv |-> 1,
             lat |-> 1, ns |-> "N", lon |-> 1, ew |-> "E"]}
SomeRMC == {[date |-> 1, time |-> 1, status |-> a, lat |-> 1, ns |-> "N",
             lon |-> 1, ew |-> "E", speed |-> 0, direction |-> 1] : a \in {"A", "V", ""}}
SomeVTG == {[dir |-> 1, dec |-> 1, spk |-> 0]}
=============================================================================
