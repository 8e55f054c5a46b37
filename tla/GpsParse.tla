------------------------------ MODULE GpsParse ------------------------------
(***************************************************************************)
(* gps_parse.c of the stm32l475 application: the second parser.  It cuts a *)
(* line at its commas (data_conversion) and fills NMEA_PARSE from the      *)
(* sections, without looking at the check sum.  The counters are uint8_t.  *)
(*                                                                         *)
(* A line is a sequence of cells: a comma, the star, a letter or a number; *)
(* an empty field is no cell.  Positions are 1..Len(line), 0 is NULL.      *)
(***************************************************************************)
EXTENDS Integers, FiniteSets, Sequences, SequencesExt

CONSTANTS
  ByteRange,     \* 2^8: count, total_no, cur_no and cur_index are uint8_t
  MaxView,       \* GPS_NMEA_MAX_SVVIEW
  MaxPack,       \* MAX_NMEA_PACK_LEN
  GgaFields,     \* the field lists of the GGA, RMC lines that may come
  RmcFields,
  SatCounts,     \* bound: satellites in view of a GSV cycle
  OddNumbers,    \* bound: message numbers that noise may put in a GSV
  MaxCycles      \* bound: GSV cycles

GGA_SECTION_MAX == 14
RMC_SECTION_MAX == 12
GSV_SECTION_MAX == 19
PARSE_GGA_MESSAGE_MAX_LEN == 8
PARSE_RMC_MESSAGE_MAX_LEN == 9
PARSE_GSV_MESSAGE_MAX_LEN == 7

\* Cells that are not numbers, and the mark of an empty field in a field list.
Comma == -1
Star == -2
Letter == [N |-> -3, S |-> -4, E |-> -5, W |-> -6, A |-> -7, V |-> -8, X |-> -9]
Empty == -10

ASSUME GpsAssumption ==
  /\ ByteRange \in Nat \ {0} /\ MaxView \in 1..ByteRange /\ MaxPack \in Nat
  /\ GgaFields \subseteq Seq(Int \ {Comma, Star}) /\ RmcFields \subseteq Seq(Int \ {Comma, Star})
  /\ SatCounts \subseteq 0..ByteRange \* more would wrap cur_index inside one cycle
  /\ MaxView + 40 <= ByteRange         \* the satellites' numbers fit a uint8_t
  /\ OddNumbers \subseteq Nat /\ MaxCycles \in Nat

VARIABLES
  gga, rmc, gsv, epe,   \* g_nmea_parse
  sentRmc, sentGga,     \* history: the fields of the last RMC, of the last GGA
                        \* that was not refused
  cycle,                \* the receiver: satellites in view, parity of the cycle,
                        \* next message, with or without a signal id
  got,                  \* history: the messages that followed a message 1 that
                        \* was taken; {} before it, {0} after noise
  cycles,               \* bound: cycles begun
  outside               \* history: a section that was not found has been read;
                        \* what follows is undefined and not described

records == <<gga, rmc, gsv, epe>>
sentVars == <<sentRmc, sentGga>>
receiver == <<cycle, cycles, got>>
vars == <<records, sentVars, receiver, outside>>
-----------------------------------------------------------------------------
(* Lines.                                                                  *)

CellsOf(f) == IF f = Empty THEN <<Comma>> ELSE <<Comma, f>>
Cells(fields) == FlattenSeq([k \in 1..Len(fields) |-> CellsOf(fields[k])])

\* As sent; with the star lost; with a star before the first comma.
Line(fields) == Append(Cells(fields), Star)
Lines(fields) == {Line(fields), Cells(fields), <<Star>> \o Line(fields)}

Positions(line, c) == {p \in 1..Len(line) : line[p] = c}
Min2(a, b) == IF a < b THEN a ELSE b
First(S) == CHOOSE p \in S : \A q \in S : p <= q
StarFirst(line) ==
  /\ Positions(line, Star) # {} /\ Positions(line, Comma) # {}
  /\ First(Positions(line, Star)) < First(Positions(line, Comma))

atoi(c) == IF c >= 0 THEN c ELSE 0
-----------------------------------------------------------------------------
(* data_conversion                                                         *)

\* Fault: the number of sections itself.
LastSectionCount(n) == n % ByteRange

\* (count - 1) as uint8_t
LastSection(n) == (n - 1) % ByteRange

\* Fault: a section always starts behind its comma, also when it is empty and
\* the next one's comma is skipped.
SectionSkips(line, p) == IF line[p + 1] = Comma THEN p + 2 ELSE p + 1

SectionAt(line, p) == IF line[p + 1] = Comma THEN p ELSE p + 1

\* The member of S with k others below it.
Nth(S, k) == CHOOSE p \in S : Cardinality({q \in S : q < p}) = k

\* The count it returns and the sections it stores, NULL where it stores none:
\* strchr goes from comma to comma while they are in front of the star.
data_conversion(line, max) ==
  LET commas == Positions(line, Comma)
      stars  == Positions(line, Star)
      cuts   == {p \in commas : p < First(stars)}
      found  == Min2(Cardinality(cuts), max)
  IN  IF commas = {} \/ stars = {} \/ First(stars) - First(commas) > MaxPack
      THEN [count |-> 0, section |-> [k \in 0..(max - 1) |-> 0]]
      ELSE [count |-> LastSection(found),
            section |-> [k \in 0..(max - 1) |-> IF k < found THEN SectionAt(line, Nth(cuts, k)) ELSE 0]]
-----------------------------------------------------------------------------
(* The records.                                                            *)

\* [degree][minute] to degrees, counted in minutes
latitude_longitude_conversion(v) == (60 * (v \div 100)) + (v % 100)

Sign(c, plus, minus) == CASE c = plus -> 0 [] c = minus -> 1 [] OTHER -> -1

GgaRecord(f) ==
  [utc_time |-> atoi(f[0]),
   Latitude |-> latitude_longitude_conversion(atoi(f[1])), north_south |-> Sign(f[2], Letter.N, Letter.S),
   Longitude |-> latitude_longitude_conversion(atoi(f[3])), east_west |-> Sign(f[4], Letter.E, Letter.W),
   sat_in_view |-> atoi(f[6]) % ByteRange, hdop |-> atoi(f[7]), altitude |-> atoi(f[8])]

RmcRecord(f) ==
  [utc_time |-> atoi(f[0]), position_status |-> Sign(f[1], Letter.V, Letter.A),
   Latitude |-> latitude_longitude_conversion(atoi(f[2])), north_south |-> Sign(f[3], Letter.N, Letter.S),
   Longitude |-> latitude_longitude_conversion(atoi(f[4])), east_west |-> Sign(f[5], Letter.E, Letter.W),
   speed |-> atoi(f[6]), azimuth |-> atoi(f[7]), utc_date |-> atoi(f[8])]

Missing(conv, read) == \E k \in read : conv.section[k] = 0
Undefined(line) == IF StarFirst(line) THEN "star first" ELSE "too short"

parse_gga(fields) == \E line \in Lines(fields) :
  LET conv == data_conversion(line, GGA_SECTION_MAX)
      F == [k \in 0..8 |-> line[conv.section[k]]]
  IN  /\ \/ /\ PARSE_GGA_MESSAGE_MAX_LEN > conv.count
            /\ UNCHANGED <<gga, sentGga, outside>>
         \/ /\ PARSE_GGA_MESSAGE_MAX_LEN <= conv.count
            /\ IF Missing(conv, 0..8)
               THEN outside' = Undefined(line) /\ UNCHANGED <<gga, sentGga>>
               ELSE gga' = GgaRecord(F) /\ sentGga' = fields /\ UNCHANGED outside
      /\ UNCHANGED <<rmc, gsv, epe, sentRmc, receiver>>

\* Fault: the record is left as it was.
RmcRefusedKeeps == rmc

\* rmc count invalid
RmcRefused == [rmc EXCEPT !.position_status = -1]

parse_rmc(fields) == \E line \in Lines(fields) :
  LET conv == data_conversion(line, RMC_SECTION_MAX)
      F == [k \in 0..8 |-> line[conv.section[k]]]
  IN  /\ \/ /\ conv.count < PARSE_RMC_MESSAGE_MAX_LEN
            /\ rmc' = RmcRefused /\ sentRmc' = fields
            /\ UNCHANGED outside
         \/ /\ conv.count >= PARSE_RMC_MESSAGE_MAX_LEN
            /\ IF Missing(conv, 0..8)
               THEN outside' = Undefined(line) /\ UNCHANGED <<rmc, sentRmc>>
               ELSE rmc' = RmcRecord(F) /\ sentRmc' = fields /\ UNCHANGED outside
      /\ UNCHANGED <<gga, gsv, epe, sentGga, receiver>>

\* sscanf assigns what it has converted when the line stops to match.
parse_epe == \E n \in 0..3 :
  /\ epe' = [k \in 1..3 |-> IF k <= n THEN 1 ELSE epe[k]]
  /\ UNCHANGED <<gga, rmc, gsv, sentVars, receiver, outside>>
-----------------------------------------------------------------------------
(* parse_gsv                                                               *)

NoSat == <<0, 0, 0, 0>>
ZeroGsv == [sates_in_view |-> 0, rsv |-> [k \in 0..(MaxView - 1) |-> NoSat]]

\* Fault: the satellite behind the last comma is read too.
SatellitesToo(count) == {j \in 0..4 : 3 + 4 * j <= count}

\* for (i = 3; i < count ...; i += 4)
Satellites(count) == {j \in 0..4 : 3 + 4 * j < count}

\* Fault: the index is not compared with the table.
FitsAlways(index) == TRUE

Fits(index) == index < MaxView

\* Fault: the table is kept.
ClearedNever(cur_no) == gsv

Cleared(cur_no) == IF cur_no = 1 THEN ZeroGsv ELSE gsv

cur_index(cur_no) == (4 * (cur_no - 1)) % ByteRange

\* What a line that is long enough and has a valid number leaves in gsv.  The result
\* of parse_gsv, false when total_no < cur_no although the record has been filled, is
\* left out: its caller does not look at it.
Filled(line, conv, cur_no) ==
  LET Value(k) == IF conv.section[k] = 0 THEN 0 ELSE atoi(line[conv.section[k]])
      first == cur_index(cur_no)
      sat(j) == LET i == 3 + 4 * j
                IN  <<Value(i) % ByteRange, Value(i + 1) % ByteRange, Value(i + 2), Value(i + 3) % ByteRange>>
      written == {j \in Satellites(conv.count) : Fits(first + j)}
      old == Cleared(cur_no).rsv
      slots == DOMAIN old \cup {first + j : j \in written}
  IN  [sates_in_view |-> Value(2),
       rsv |-> [s \in slots |-> IF s - first \in written THEN sat(s - first) ELSE old[s]]]

\* The number of the message parse_gsv takes, 0 when it refuses the line.
TakenAs(line, conv) ==
  IF conv.count < PARSE_GSV_MESSAGE_MAX_LEN \/ conv.section[0] = 0 \/ conv.section[1] = 0
  THEN 0 ELSE atoi(line[conv.section[1]]) % ByteRange

parse_gsv(line) ==
  LET conv == data_conversion(line, GSV_SECTION_MAX)
  IN  gsv' = IF TakenAs(line, conv) < 1 THEN gsv ELSE Filled(line, conv, TakenAs(line, conv))

Taken(line) == TakenAs(line, data_conversion(line, GSV_SECTION_MAX))
-----------------------------------------------------------------------------
(* The receiver sends GSV cycles of up to four satellites a message; the   *)
(* NMEA version decides whether a signal id ends them.  The line may lose  *)
(* a message or change it: the caller checks no check sum.                 *)

Total(n) == IF n = 0 THEN 1 ELSE (n + 3) \div 4

\* Satellite k of a cycle: prn, elevation, azimuth and, for every other, cnr.
Sat(parity, k) == <<32 * parity + k + 1, 40 + k, 300 + k, IF k % 2 = 0 THEN Empty ELSE 30>>
InMessage(c, no) == (4 * (no - 1))..(Min2(c.n, 4 * no) - 1)

GsvFields(c, no, printed) ==
  <<Total(c.n), printed, c.n>>
    \o FlattenSeq([j \in 1..Cardinality(InMessage(c, no)) |-> Sat(c.parity, 4 * (no - 1) + j - 1)])
    \o (IF c.id THEN <<1>> ELSE <<>>)

ReceiveGsv == \E line \in Lines(GsvFields(cycle, cycle.next, cycle.next)) :
  /\ cycle.next <= Total(cycle.n)
  /\ parse_gsv(line)
  /\ cycle' = [cycle EXCEPT !.next = cycle.next + 1]
  /\ got' = CASE Taken(line) = 0 -> IF cycle.next = 1 THEN {} ELSE got
              [] Taken(line) = 1 -> {1}
              [] OTHER -> IF got = {} THEN {} ELSE got \cup {cycle.next}
  /\ UNCHANGED <<gga, rmc, epe, sentVars, cycles, outside>>

\* A GSV whose number was changed on the line.
ReceiveOddGsv == \E no \in OddNumbers :
  /\ cycle.next <= Total(cycle.n)
  /\ parse_gsv(Line(GsvFields(cycle, cycle.next, no)))
  /\ cycle' = [cycle EXCEPT !.next = cycle.next + 1]
  /\ got' = {0}
  /\ UNCHANGED <<gga, rmc, epe, sentVars, cycles, outside>>

LoseGsv ==
  /\ cycle.next <= Total(cycle.n)
  /\ cycle' = [cycle EXCEPT !.next = cycle.next + 1]
  /\ got' = IF cycle.next = 1 THEN {} ELSE got
  /\ UNCHANGED <<records, sentVars, cycles, outside>>

NewCycle ==
  /\ cycle.next > Total(cycle.n) /\ cycles < MaxCycles
  /\ \E n \in SatCounts : cycle' = [cycle EXCEPT !.n = n, !.parity = 1 - cycle.parity, !.next = 1]
  /\ cycles' = cycles + 1
  /\ got' = {}
  /\ UNCHANGED <<records, sentVars, outside>>

\* static struct NMEA_PARSE g_nmea_parse = { 0 }
Init ==
  /\ gga = [f \in DOMAIN GgaRecord([k \in 0..8 |-> 0]) |-> 0]
  /\ rmc = [f \in DOMAIN RmcRecord([k \in 0..8 |-> 0]) |-> 0]
  /\ gsv = ZeroGsv /\ epe = <<0, 0, 0>>
  /\ sentRmc = <<>> /\ sentGga = <<>>
  /\ \E n \in SatCounts, id \in BOOLEAN : cycle = [n |-> n, parity |-> 0, next |-> 1, id |-> id]
  /\ cycles = 1 /\ got = {} /\ outside = "no"

Next ==
  /\ outside = "no"
  /\ \/ \E fields \in GgaFields : parse_gga(fields)
     \/ \E fields \in RmcFields : parse_rmc(fields)
     \/ parse_epe
     \/ ReceiveGsv \/ ReceiveOddGsv \/ LoseGsv \/ NewCycle

Spec == Init /\ [][Next]_vars
-----------------------------------------------------------------------------
\* The counters and the satellites keep their widths and the table its size,
\* for every message number a GSV may carry.
TypeOK ==
  /\ rmc.position_status \in {-1, 0, 1} /\ gga.sat_in_view \in 0..(ByteRange - 1)
  /\ DOMAIN gsv.rsv = 0..(MaxView - 1)
  /\ \A s \in DOMAIN gsv.rsv : \A k \in {1, 2, 4} : gsv.rsv[s][k] \in 0..(ByteRange - 1)

\* The tests of the number of sections make sure that every section parse_gga
\* and parse_rmc read was found.  The one exception is a star before the first
\* comma: data_conversion returns 255 then.
SectionsFound == outside # "too short"

\* A record holds the fields of one line, cut correctly whatever fields are
\* empty: rmc those of the last RMC unless position_status says invalid (a line
\* that is too short invalidates it), gga those of the last GGA not refused.
Field(fields, k) == IF fields[k + 1] = Empty THEN Comma ELSE fields[k + 1]
RecordsDecode ==
  /\ (sentRmc # <<>> /\ rmc.position_status >= 0) =>
        rmc = RmcRecord([k \in 0..8 |-> Field(sentRmc, k)])
  /\ sentGga # <<>> => gga = GgaRecord([k \in 0..8 |-> Field(sentGga, k)])

\* After a message 1 the table holds the satellites of the messages taken since
\* then, each in its slot, and nothing of an earlier cycle; a signal id is never
\* taken for a satellite.
TableIsCycle ==
  (got # {} /\ 0 \notin got) =>
     /\ gsv.sates_in_view = cycle.n
     /\ \A s \in 0..(MaxView - 1) :
           gsv.rsv[s] = IF s < cycle.n /\ (s \div 4) + 1 \in got
                        THEN [k \in 1..4 |-> atoi(Sat(cycle.parity, s)[k])] ELSE NoSat
=============================================================================
