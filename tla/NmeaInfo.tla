------------------------------ MODULE NmeaInfo ------------------------------
(***************************************************************************)
(* The summary nmea_info_t and the five functions that fold a pack into it *)
(* (nmea_gga_info ... nmea_vtg_info of simulator_nmea's nmea_parse.c), fed *)
(* by a receiver: a list of satellites in view that it reports in a cycle  *)
(* of GSV messages, and GGA, GSA, RMC and VTG sentences in any order.  GSV *)
(* messages may get lost on the way, as frames with a bad check sum do in  *)
(* NmeaParser.                                                             *)
(*                                                                         *)
(* Numbers that are only copied (utc, latitude, DOPs) stay the small       *)
(* values the packs carry; speeds become metres per hour, so that the      *)
(* factor 1.852 of the code is a whole number.  A satellite's elevation,   *)
(* azimuth and signal travel with its id and are left out.                 *)
(*                                                                         *)
(* The products and differences of the GSV arithmetic wrap at the width of *)
(* an int, the other numbers are small.                                    *)
(***************************************************************************)
EXTENDS Integers, Sequences, FiniteSets

CONSTANTS
  MaxSat,        \* NMEA_MAXSAT
  SatInPack,     \* NMEA_SATINPACK
  IntMax,        \* INT_MAX
  Sat,           \* satellite ids (PRNs), not 0
  Views,         \* the sequences of satellites that may be in view
  GGA, GSA, RMC, VTG, \* the other packs the receiver may send
  OddGSV,        \* GSV packs no receiver should send, but that parse
  MaxLost        \* bound: GSV messages that get lost

CInt == -(IntMax + 1)..IntMax   \* the values of an int

ASSUME InfoAssumption ==
  /\ SatInPack \in Nat \ {0} /\ MaxSat \in Nat /\ SatInPack <= MaxSat
  /\ MaxSat % SatInPack = 0
  /\ IntMax \in Nat /\ 4 * MaxSat + 3 <= IntMax
  /\ Sat \subseteq Nat \ {0}
  /\ Views \subseteq Seq(Sat)
  /\ MaxLost \in Nat
  /\ \A p \in OddGSV : /\ p.pack_count \in CInt /\ p.pack_index \in CInt
                       /\ p.sat_count \in CInt /\ p.quads \in 0..SatInPack
                       /\ p.sat_data \in [0..(SatInPack - 1) -> Sat \cup {0}]
  /\ \A p \in GSA : p.sat_prn \in [0..(MaxSat - 1) -> Sat \cup {0}]

VARIABLES
  info,          \* nmea_info_t
  outside,       \* the functions that left sat[NMEA_MAXSAT]
  view, nextMsg, \* the satellites of the current cycle, its next message
  got,           \* the messages of this cycle that arrived
  verdict,       \* the last word on the fix: an RMC's status, or a GSA's type
  lost           \* GSV messages lost so far

vars == <<info, outside, view, nextMsg, got, verdict, lost>>
receiver == <<view, nextMsg, got, lost>>
-----------------------------------------------------------------------------
Slots == 0..(MaxSat - 1)
NoSat == [id |-> 0, in_use |-> 0]

\* nmea_info_t info = { 0 }: the tests' initialisation
ZeroInfo ==
  [smask |-> {}, date |-> 0, time |-> 0, sig |-> 0, fix |-> 0,
   PDOP |-> 0, HDOP |-> 0, VDOP |-> 0, lat |-> 0, lon |-> 0, elv |-> 0,
   speed |-> 0, direction |-> 0, declination |-> 0,
   inuse |-> 0, inview |-> 0, sat |-> [j \in Slots |-> NoSat]]

NMEA_SIG_BAD == 0
NMEA_SIG_MID == 2
NMEA_FIX_BAD == 1
NMEA_FIX_2D  == 2
NMEA_TUD_KNOTS == 1852   \* metres per hour, for 1.852 km/h

Signed(v, positive) == IF positive THEN v ELSE -v

\* What an int holds of n.
Fits(n) == -(IntMax + 1) <= n /\ n <= IntMax
Wrap(n) == IF Fits(n) THEN n ELSE ((n + IntMax + 1) % (2 * IntMax + 2)) - (IntMax + 1)

\* The satellites of the messages before message index, and how many message
\* index of sat_count satellites holds: nmea_parse_gsv and nmea_gsv_info both
\* compute this.
Before(index) == Wrap((index - 1) * SatInPack)
SatsInMessage(index, sat_count) ==
  IF Wrap(Before(index) + SatInPack) > sat_count
  THEN Wrap(sat_count - Before(index)) ELSE SatInPack
-----------------------------------------------------------------------------
(* The folds: what each function makes of info.                            *)

\* Only the time of day is taken from a GGA, the date stays.
gga_info(p) ==
  [info EXCEPT !.time = p.time, !.sig = p.sig, !.HDOP = p.HDOP, !.elv = p.elv,
               !.lat = Signed(p.lat, p.ns = "N"), !.lon = Signed(p.lon, p.ew = "E"),
               !.smask = @ \cup {"GPGGA"}]

\* Fault: a void RMC resets the signal only.
rmc_info_keeps_fix(p) ==
  [info EXCEPT !.sig = CASE p.status = "A" /\ @ = NMEA_SIG_BAD -> NMEA_SIG_MID
                         [] p.status = "V" -> NMEA_SIG_BAD
                         [] OTHER -> @,
               !.fix = IF p.status = "A" /\ @ = NMEA_FIX_BAD THEN NMEA_FIX_2D ELSE @,
               !.date = p.date, !.time = p.time,
               !.smask = @ \cup {"GPRMC"}]

rmc_info(p) ==
  [info EXCEPT !.sig = CASE p.status = "A" /\ @ = NMEA_SIG_BAD -> NMEA_SIG_MID
                         [] p.status = "V" -> NMEA_SIG_BAD
                         [] OTHER -> @,
               !.fix = CASE p.status = "A" /\ @ = NMEA_FIX_BAD -> NMEA_FIX_2D
                         [] p.status = "V" -> NMEA_FIX_BAD
                         [] OTHER -> @,
               !.date = p.date, !.time = p.time,
               !.lat = Signed(p.lat, p.ns = "N"), !.lon = Signed(p.lon, p.ew = "E"),
               !.speed = p.speed * NMEA_TUD_KNOTS, !.direction = p.direction,
               !.smask = @ \cup {"GPRMC"}]

vtg_info(p) ==
  [info EXCEPT !.direction = p.dir, !.declination = p.dec, !.speed = p.spk * 1000,
               !.smask = @ \cup {"GPVTG"}]

\* The pairs (i, j) at which nmea_gsa_info's loops find the i-th PRN of the
\* pack in slot j of the table.
Matches(p) ==
  {m \in Slots \X Slots :
     /\ m[2] < info.inview
     /\ p.sat_prn[m[1]] # 0
     /\ p.sat_prn[m[1]] = info.sat[m[2]].id}

\* Fault: in_use counts how often a satellite was used.
gsa_info_counts(p, beyond) ==
  [info EXCEPT !.fix = p.fix_type,
               !.sat = [j \in Slots |-> IF \E m \in Matches(p) : m[2] = j
                                        THEN [@[j] EXCEPT !.in_use = @ + 1] ELSE @[j]],
               !.inuse = Cardinality(Matches(p)) + beyond,
               !.smask = @ \cup {"GPGSA"}]

\* beyond counts what the inner loop takes for matches in the memory behind
\* the table: its bound is inview, which nothing limits to NMEA_MAXSAT.
gsa_info(p, beyond) ==
  [info EXCEPT !.fix = p.fix_type,
               !.PDOP = p.PDOP, !.HDOP = p.HDOP, !.VDOP = p.VDOP,
               !.sat = [j \in Slots |-> IF \E m \in Matches(p) : m[2] = j
                                        THEN [@[j] EXCEPT !.in_use = 1] ELSE @[j]],
               !.inuse = Cardinality(Matches(p)) + beyond,
               !.smask = @ \cup {"GPGSA"}]

\* Fault: the message number is not held against the table.
GsvIgnoredByCount(p) == p.pack_index > p.pack_count

\* The early return of nmea_gsv_info.
GsvIgnored(p) ==
  \/ p.pack_index > p.pack_count
  \/ Wrap(p.pack_index * SatInPack) > MaxSat

GsvIndex(p) == IF p.pack_index < 1 THEN 1 ELSE p.pack_index

\* The slots the loop writes: (pack_index - 1) * NMEA_SATINPACK + isat.
GsvSlots(p) ==
  {Before(GsvIndex(p)) + isat : isat \in 0..(SatsInMessage(GsvIndex(p), p.sat_count) - 1)}

\* The numbers of p make none of these computations leave the range of int.
InRange(p) ==
  /\ Fits(p.pack_index * SatInPack) /\ Fits((p.pack_index - 1) * SatInPack)
  /\ Fits(p.sat_count - (p.pack_index - 1) * SatInPack) /\ Fits(p.sat_count)

\* Fault: every message is stored at the head of the table.
gsv_info_at_head(p) ==
  [info EXCEPT !.inview = p.sat_count,
               !.sat = [j \in Slots |->
                          IF j < SatInPack /\ j < SatsInMessage(GsvIndex(p), p.sat_count)
                          THEN [@[j] EXCEPT !.id = p.sat_data[j]] ELSE @[j]],
               !.smask = @ \cup {"GPGSV"}]

gsv_info(p) ==
  [info EXCEPT !.inview = p.sat_count,
               !.sat = [j \in Slots |->
                          IF j \in GsvSlots(p)
                          THEN [@[j] EXCEPT !.id = p.sat_data[j - Before(GsvIndex(p))]]
                          ELSE @[j]],
               !.smask = @ \cup {"GPGSV"}]
-----------------------------------------------------------------------------
Init ==
  /\ info = ZeroInfo /\ outside = {}
  /\ view = <<>> /\ nextMsg = 1 /\ got = {} /\ lost = 0
  /\ verdict = "none"

nmea_gga_info ==
  /\ \E p \in GGA : info' = gga_info(p)
  /\ UNCHANGED <<outside, verdict, receiver>>

nmea_rmc_info ==
  /\ \E p \in RMC :
       /\ info' = rmc_info(p)
       /\ verdict' = IF p.status \in {"A", "V"} THEN p.status ELSE verdict
  /\ UNCHANGED <<outside, receiver>>

nmea_vtg_info ==
  /\ \E p \in VTG : info' = vtg_info(p)
  /\ UNCHANGED <<outside, verdict, receiver>>

\* The slots behind the table are read, and written on a match, when some PRN
\* is not 0.
nmea_gsa_info ==
  \E p \in GSA :
    LET prns == {p.sat_prn[i] : i \in Slots} \ {0}
        past == IF info.inview > MaxSat /\ prns # {} THEN info.inview - MaxSat ELSE 0
    IN  /\ \E beyond \in 0..past : info' = gsa_info(p, beyond)
        /\ outside' = outside \cup (IF past > 0 THEN {"gsa"} ELSE {})
        /\ verdict' = "GSA"
        /\ UNCHANGED <<receiver>>

\* nmea_parse_gsv accepts a sentence with three numbers and the four fields of
\* at least as many satellites as SatsInMessage asks for.
nmea_parse_gsv(p) ==
  4 * p.quads + 3 >= Wrap(SatsInMessage(p.pack_index, p.sat_count) * 4 + 3)

\* Signed overflow is undefined: the comparison with NMEA_MAXSAT may also have
\* been compiled to one of pack_index, which ignores the pack.
nmea_gsv_info(p) ==
  \/ /\ ~nmea_parse_gsv(p) \/ GsvIgnored(p) \/ ~Fits(p.pack_index * SatInPack)
     /\ UNCHANGED <<info, outside>>
  \/ /\ nmea_parse_gsv(p) /\ ~GsvIgnored(p)
     /\ info' = gsv_info(p)
     /\ outside' = outside \cup (IF GsvSlots(p) \subseteq Slots THEN {}
                                ELSE IF InRange(p) THEN {"gsv"} ELSE {"overflow"})

\* The receiver's own messages.
Messages == (Len(view) + SatInPack - 1) \div SatInPack

MessageOf(i) ==
  [pack_count |-> Messages, pack_index |-> i, sat_count |-> Len(view),
   quads |-> IF i * SatInPack <= Len(view) THEN SatInPack
             ELSE Len(view) - (i - 1) * SatInPack,
   sat_data |-> [k \in 0..(SatInPack - 1) |->
                   IF (i - 1) * SatInPack + k + 1 <= Len(view)
                   THEN view[(i - 1) * SatInPack + k + 1] ELSE 0]]

NewCycle ==
  /\ nextMsg > Messages
  /\ view' \in Views
  /\ nextMsg' = 1 /\ got' = {}
  /\ UNCHANGED <<info, outside, verdict, lost>>

SendGsv ==
  /\ nextMsg <= Messages
  /\ nmea_gsv_info(MessageOf(nextMsg))
  /\ got' = got \cup {nextMsg}
  /\ nextMsg' = nextMsg + 1
  /\ UNCHANGED <<view, verdict, lost>>

LoseGsv ==
  /\ nextMsg <= Messages
  /\ lost < MaxLost
  /\ lost' = lost + 1
  /\ nextMsg' = nextMsg + 1
  /\ UNCHANGED <<info, outside, view, got, verdict>>

SendOddGsv ==
  /\ \E p \in OddGSV : nmea_gsv_info(p)
  /\ got' = {}
  /\ UNCHANGED <<view, nextMsg, verdict, lost>>

\* A write that far behind the table faults; nothing is said of what follows.
Running == "overflow" \notin outside

Step ==
  \/ nmea_gga_info \/ nmea_rmc_info \/ nmea_vtg_info \/ nmea_gsa_info
  \/ NewCycle \/ SendGsv \/ LoseGsv \/ SendOddGsv

Next == Running /\ Step

Spec == Init /\ [][Next]_vars
-----------------------------------------------------------------------------
\* The types of the summary, while the program runs, and of the receiver's
\* state.
TypeOK ==
  /\ Running => /\ info.sat \in [Slots -> [id : Sat \cup {0}, in_use : {0, 1}]]
                /\ info.inview \in Int /\ info.inuse \in Nat
  /\ outside \subseteq {"gsa", "gsv", "overflow"}
  /\ view \in Seq(Sat)
  /\ nextMsg \in Nat \ {0} /\ got \subseteq 1..(nextMsg - 1)
  /\ lost \in 0..MaxLost

\* Whatever numbers a GSV sentence carries, nmea_gsv_info writes inside the
\* satellite table: its early return and the clamp of pack_index suffice, as
\* long as the numbers are small enough for the arithmetic of an int.
GsvStaysInTable == "gsv" \notin outside

\* Once all messages of a cycle have arrived, with whatever other sentences
\* and lost cycles in between, the table holds the satellites of that cycle
\* and inview counts them.
CycleInstalled ==
  (got = 1..Messages /\ view # <<>> /\ Len(view) <= MaxSat) =>
     /\ info.inview = Len(view)
     /\ \A j \in 1..Len(view) : info.sat[j - 1].id = view[j]

\* An RMC's word on the fix lasts until the next RMC or GSA: no GGA, GSV or VTG
\* in between makes info report a fix it was told not to trust, or the reverse.
VerdictKept ==
  /\ verdict = "V" => info.fix = NMEA_FIX_BAD
  /\ verdict = "A" => info.fix # NMEA_FIX_BAD
-----------------------------------------------------------------------------
(* What a comment of nmea_info_t says, and the code does not keep up.      *)

\* "Information about all satellites in view": nmea_gsa_info finds every
\* satellite in view in the table.
GsaStaysInTable == "gsa" \notin outside
=============================================================================
