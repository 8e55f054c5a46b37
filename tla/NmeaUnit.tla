------------------------------ MODULE NmeaUnit ------------------------------
(***************************************************************************)
(* What one unit of the stream carries: nmea_pack_type of nmea_parse.c,    *)
(* and the packs of a whole stream by one scan from its first byte, which  *)
(* is what buffer, queue and calls of NmeaParser come to.                  *)
(***************************************************************************)
EXTENDS NmeaTail

CONSTANTS
  pheads,        \* the header of each packet type, GPGGA .. GPVTG
  ParseOk(_, _)  \* nmea_parse_gga ... nmea_parse_vtg return 1

ASSUME HeaderAssumption ==
  /\ "GPNON" \notin DOMAIN pheads
  /\ \A t \in DOMAIN pheads : pheads[t] \in Seq(Byte) /\ ~Contains(pheads[t], CR)
  /\ \A t, u \in DOMAIN pheads : IsPrefix(pheads[t], pheads[u]) => t = u
-----------------------------------------------------------------------------
\* The cases of real_push's switch.
KnownType == DOMAIN pheads

\* The headers are compared one by one; no two can match.
nmea_pack_type(buff) ==
  LET hits == {t \in KnownType : IsPrefix(pheads[t], buff)}
  IN  IF hits = {} THEN "GPNON" ELSE CHOOSE t \in hits : TRUE

\* The unit at the front of r: its length and the pack it carries, if any.
UnitOf(r) ==
  LET t == nmea_find_tail(r)
      e == [packType |-> nmea_pack_type(Tail(r)), pack |-> SubSeq(r, 1, t.nread)]
  IN  [nread |-> t.nread,
       packs |-> IF /\ t.nread > 0 /\ t.crc >= 0
                    /\ e.packType \in KnownType
                    /\ ParseOk(e.packType, e.pack)
                 THEN <<e>> ELSE <<>>]

Behind(r, n) == SubSeq(r, n + 1, Len(r))

\* The packs of a stream: those of its first unit, and those behind it.
Scan[r \in Seq(Byte)] ==
  LET u == UnitOf(r)
  IN  IF u.nread = 0 THEN <<>> ELSE u.packs \o Scan[Behind(r, u.nread)]

PacksOf(r) == Scan[r]
=============================================================================
