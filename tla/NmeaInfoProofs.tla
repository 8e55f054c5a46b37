--------------------------- MODULE NmeaInfoProofs ---------------------------
(***************************************************************************)
(* nmea_gsv_info stays inside the satellite table for every table size,    *)
(* message size and every value of the numbers in a GSV sentence, a        *)
(* complete cycle of messages ends up in the table, and an RMC's word on   *)
(* the fix lasts.                                                          *)
(***************************************************************************)
EXTENDS NmeaInfo, SequenceTheorems, FiniteSetTheorems, TLAPS

\* A GSV pack as far as the arithmetic of nmea_gsv_info goes.
IsGsv(p) ==
  p.pack_count \in Int /\ p.pack_index \in Int /\ p.sat_count \in Int

\* What an int holds of a number that fits is that number.
LEMMA WrapFits ==
  ASSUME NEW n \in Int, Fits(n)
  PROVE  Wrap(n) = n
  BY DEF Wrap

\* For numbers in range the slots start behind those of the messages before,
\* and there are at most NMEA_SATINPACK of them.
LEMMA SlotsOfMessage ==
  ASSUME NEW p, IsGsv(p), ~GsvIgnored(p), InRange(p)
  PROVE  LET i == GsvIndex(p) IN
         /\ i \in Int /\ i >= 1 /\ i * SatInPack <= MaxSat
         /\ Before(i) = (i - 1) * SatInPack
         /\ SatsInMessage(i, p.sat_count) \in Int
         /\ SatsInMessage(i, p.sat_count) <= SatInPack
<1> DEFINE i == GsvIndex(p)
<1>1. SatInPack \in Nat /\ SatInPack >= 1 /\ MaxSat \in Nat /\ SatInPack <= MaxSat
      /\ IntMax \in Nat /\ MaxSat <= IntMax
  BY InfoAssumption
<1>2. p.sat_count \in Int /\ p.pack_index \in Int
  BY DEF IsGsv
<1>3. /\ i \in Int /\ i >= 1 /\ i * SatInPack <= MaxSat
      /\ Fits((i - 1) * SatInPack) /\ Fits(i * SatInPack) /\ Fits(p.sat_count - (i - 1) * SatInPack)
  <2>1. CASE p.pack_index < 1
    <3>1. i = 1 /\ (i - 1) * SatInPack = 0 /\ i * SatInPack = SatInPack
      BY <1>1, <2>1 DEF GsvIndex
    <3>2. p.sat_count - 0 = p.sat_count
      BY <1>2
    <3> HIDE DEF i
    <3>3. QED BY <1>1, <1>2, <3>1, <3>2 DEF InRange, Fits
  <2>2. CASE ~(p.pack_index < 1)
    <3>1. i = p.pack_index
      BY <2>2 DEF GsvIndex
    <3> HIDE DEF i
    <3>2. i * SatInPack \in Int /\ Fits(i * SatInPack)
      BY <1>1, <1>2, <3>1 DEF InRange
    <3>3. ~(i * SatInPack > MaxSat)
      BY <3>1, <3>2, WrapFits DEF GsvIgnored
    <3>4. i \in Int /\ i >= 1
      BY <1>2, <2>2, <3>1
    <3>5. QED BY <1>1, <3>1, <3>2, <3>3, <3>4 DEF InRange
  <2>3. QED BY <2>1, <2>2
<1> HIDE DEF i
<1> DEFINE base == (i - 1) * SatInPack
<1>4. base \in Int /\ base + SatInPack = i * SatInPack /\ i * SatInPack \in Int
  BY <1>1, <1>3
<1>5. Before(i) = base
  BY <1>3, <1>4, WrapFits DEF Before
<1> HIDE DEF base
<1>6. Wrap(Before(i) + SatInPack) = base + SatInPack
  BY <1>3, <1>4, <1>5, WrapFits
<1>7. p.sat_count - base \in Int /\ Fits(p.sat_count - base)
  BY <1>2, <1>3, <1>4 DEF base
<1>8. Wrap(p.sat_count - Before(i)) = p.sat_count - base
  BY <1>5, <1>7, WrapFits
<1>9. SatsInMessage(i, p.sat_count) \in Int /\ SatsInMessage(i, p.sat_count) <= SatInPack
  BY <1>1, <1>2, <1>4, <1>6, <1>7, <1>8 DEF SatsInMessage
<1>10. QED BY <1>3, <1>5, <1>9 DEF i, base

\* The slots written by a pack that is not ignored are slots of the table.
LEMMA GsvSlotsInTable ==
  ASSUME NEW p, IsGsv(p), ~GsvIgnored(p), InRange(p)
  PROVE  GsvSlots(p) \subseteq Slots
<1> DEFINE i == GsvIndex(p)
           n == SatsInMessage(i, p.sat_count)
<1>1. SatInPack \in Nat /\ SatInPack >= 1 /\ MaxSat \in Nat
  BY InfoAssumption
<1>2. /\ i \in Int /\ i >= 1 /\ i * SatInPack <= MaxSat
      /\ Before(i) = (i - 1) * SatInPack /\ n \in Int /\ n <= SatInPack
  BY SlotsOfMessage
<1>3. GsvSlots(p) = {Before(i) + isat : isat \in 0..(n - 1)}
  BY DEF GsvSlots
<1> HIDE DEF i, n
<1>4. (i - 1) * SatInPack \in Nat /\ (i - 1) * SatInPack = i * SatInPack - SatInPack
  <2>1. i - 1 \in Nat
    BY <1>2
  <2>2. (i - 1) * SatInPack \in Nat
    BY <1>1, <2>1
  <2>3. (i - 1) * SatInPack = i * SatInPack - SatInPack
    BY <1>1, <1>2
  <2>4. QED BY <2>2, <2>3
<1>5. ASSUME NEW isat \in 0..(n - 1)
      PROVE  (i - 1) * SatInPack + isat \in Slots
  <2> DEFINE base == (i - 1) * SatInPack
             top  == i * SatInPack
  <2>1. base \in Nat /\ top \in Int /\ top <= MaxSat /\ base = top - SatInPack
    BY <1>1, <1>2, <1>4
  <2> HIDE DEF base, top
  <2>2. base + isat \in 0..(MaxSat - 1)
    BY <1>1, <1>2, <2>1
  <2>3. QED BY <2>2 DEF base, Slots
<1>7. QED BY <1>2, <1>3, <1>5

\* The receiver's own messages are GSV packs.
LEMMA MessageIsGsv ==
  ASSUME view \in Seq(Sat), NEW m \in Nat
  PROVE  IsGsv(MessageOf(m))
<1>1. Len(view) \in Nat /\ SatInPack \in Nat \ {0}
  BY InfoAssumption
<1>2. Messages \in Int
  BY <1>1 DEF Messages
<1>3. QED BY <1>1, <1>2 DEF IsGsv, MessageOf

\* What the argument needs of the receiver's state.
IInv ==
  /\ GsvStaysInTable
  /\ view \in Seq(Sat)
  /\ nextMsg \in Nat

\* A pack of well-typed numbers leaves "gsv" out of outside.
LEMMA GsvStep ==
  ASSUME GsvStaysInTable, NEW p, IsGsv(p), nmea_gsv_info(p)
  PROVE  GsvStaysInTable'
<1>1. CASE UNCHANGED <<info, outside>>
  BY <1>1 DEF GsvStaysInTable
<1>2. CASE /\ ~GsvIgnored(p)
           /\ outside' = outside \cup (IF GsvSlots(p) \subseteq Slots THEN {}
                                      ELSE IF InRange(p) THEN {"gsv"} ELSE {"overflow"})
  <2>1. outside' \subseteq outside \cup {"overflow"}
    BY <1>2, GsvSlotsInTable
  <2>2. QED BY <2>1 DEF GsvStaysInTable
<1>3. QED BY <1>1, <1>2 DEF nmea_gsv_info

\* Whatever a GSV sentence announces, nmea_gsv_info writes inside sat[].
THEOREM TableWritesSafe == Spec => []GsvStaysInTable
<1>1. Init => IInv
  BY EmptySeq DEF Init, IInv, GsvStaysInTable
<1>2. IInv /\ [Next]_vars => IInv'
  <2> SUFFICES ASSUME IInv, [Next]_vars PROVE IInv'
    OBVIOUS
  <2>1. GsvStaysInTable /\ view \in Seq(Sat) /\ nextMsg \in Nat
    BY DEF IInv
  <2>2. CASE nmea_gga_info
    BY <2>1, <2>2 DEF nmea_gga_info, receiver, IInv, GsvStaysInTable
  <2>3. CASE nmea_rmc_info
    BY <2>1, <2>3 DEF nmea_rmc_info, receiver, IInv, GsvStaysInTable
  <2>4. CASE nmea_vtg_info
    BY <2>1, <2>4 DEF nmea_vtg_info, receiver, IInv, GsvStaysInTable
  <2>5. CASE nmea_gsa_info
    <3>1. /\ view' = view /\ nextMsg' = nextMsg
          /\ outside' = outside \/ outside' = outside \cup {"gsa"}
      BY <2>5 DEF nmea_gsa_info, receiver
    <3>2. QED BY <2>1, <3>1 DEF IInv, GsvStaysInTable
  <2>6. CASE NewCycle
    <3>1. view' \in Seq(Sat) /\ nextMsg' = 1 /\ outside' = outside
      BY <2>6, InfoAssumption DEF NewCycle
    <3>2. QED BY <2>1, <3>1 DEF IInv, GsvStaysInTable
  <2>7. CASE SendGsv
    <3>1. IsGsv(MessageOf(nextMsg)) /\ nmea_gsv_info(MessageOf(nextMsg))
      BY <2>1, <2>7, MessageIsGsv DEF SendGsv
    <3>2. GsvStaysInTable'
      BY <2>1, <3>1, GsvStep
    <3>3. view' = view /\ nextMsg' \in Nat
      BY <2>1, <2>7 DEF SendGsv
    <3>4. QED BY <2>1, <3>2, <3>3 DEF IInv
  <2>8. CASE LoseGsv
    BY <2>1, <2>8 DEF LoseGsv, IInv, GsvStaysInTable
  <2>9. CASE SendOddGsv
    <3>1. PICK p \in OddGSV : nmea_gsv_info(p)
      BY <2>9 DEF SendOddGsv
    <3>2. IsGsv(p)
      BY <3>1, InfoAssumption DEF IsGsv, CInt
    <3>3. GsvStaysInTable'
      BY <2>1, <3>1, <3>2, GsvStep
    <3>4. view' = view /\ nextMsg' = nextMsg
      BY <2>9 DEF SendOddGsv
    <3>5. QED BY <2>1, <3>3, <3>4 DEF IInv
  <2>10. CASE UNCHANGED vars
    BY <2>1, <2>10 DEF vars, IInv, GsvStaysInTable
  <2>11. QED
    BY <2>2, <2>3, <2>4, <2>5, <2>6, <2>7, <2>8, <2>9, <2>10 DEF Next, Step
<1>3. IInv => GsvStaysInTable
  BY DEF IInv
<1>4. QED BY <1>1, <1>2, <1>3, PTL DEF Spec
-----------------------------------------------------------------------------
\* info has a fix: what an EXCEPT needs to know of the record.
HasFix(r) == "fix" \in DOMAIN r

\* Only RMC and GSA change the fix, and an RMC as its status says.
LEMMA FoldsAndFix ==
  ASSUME HasFix(info), NEW p, NEW b
  PROVE  /\ gga_info(p).fix = info.fix /\ HasFix(gga_info(p))
         /\ vtg_info(p).fix = info.fix /\ HasFix(vtg_info(p))
         /\ gsv_info(p).fix = info.fix /\ HasFix(gsv_info(p))
         /\ HasFix(gsa_info(p, b))
         /\ HasFix(rmc_info(p))
         /\ p.status = "V" => rmc_info(p).fix = NMEA_FIX_BAD
         /\ p.status = "A" => rmc_info(p).fix # NMEA_FIX_BAD
         /\ p.status \notin {"A", "V"} => rmc_info(p).fix = info.fix
<1>1. gga_info(p).fix = info.fix /\ HasFix(gga_info(p))
  BY DEF HasFix, gga_info
<1>2. vtg_info(p).fix = info.fix /\ HasFix(vtg_info(p))
  BY DEF HasFix, vtg_info
<1>3. gsv_info(p).fix = info.fix /\ HasFix(gsv_info(p))
  BY DEF HasFix, gsv_info
<1>4. HasFix(gsa_info(p, b))
  BY DEF HasFix, gsa_info
<1>5. HasFix(rmc_info(p))
  BY DEF HasFix, rmc_info
<1>6. p.status = "V" => rmc_info(p).fix = NMEA_FIX_BAD
  BY DEF HasFix, rmc_info
<1>7. p.status = "A" => rmc_info(p).fix # NMEA_FIX_BAD
  BY DEF HasFix, rmc_info, NMEA_FIX_BAD, NMEA_FIX_2D
<1>8. p.status \notin {"A", "V"} => rmc_info(p).fix = info.fix
  BY DEF HasFix, rmc_info
<1>9. QED BY <1>1, <1>2, <1>3, <1>4, <1>5, <1>6, <1>7, <1>8

\* An RMC's word on the fix lasts until the next RMC or GSA, whatever other
\* sentences come in between and whatever they carry.
THEOREM VerdictHolds == Spec => []VerdictKept
<1> DEFINE V == VerdictKept /\ HasFix(info)
<1>1. Init => V
  BY DEF Init, VerdictKept, HasFix, ZeroInfo
<1>2. V /\ [Next]_vars => V'
  <2> SUFFICES ASSUME VerdictKept, HasFix(info), [Next]_vars PROVE VerdictKept' /\ HasFix(info')
    BY DEF HasFix
  <2>1. ASSUME HasFix(info'), info'.fix = info.fix, verdict' = verdict
        PROVE  VerdictKept' /\ HasFix(info')
    BY <2>1 DEF VerdictKept
  <2>2. ASSUME NEW p, nmea_gsv_info(p) PROVE HasFix(info') /\ info'.fix = info.fix
    BY <2>2, FoldsAndFix DEF nmea_gsv_info
  <2>3. CASE nmea_gga_info
    BY <2>1, <2>3, FoldsAndFix DEF nmea_gga_info
  <2>4. CASE nmea_vtg_info
    BY <2>1, <2>4, FoldsAndFix DEF nmea_vtg_info
  <2>5. CASE nmea_rmc_info
    <3>1. PICK p \in RMC : info' = rmc_info(p)
                           /\ verdict' = IF p.status \in {"A", "V"} THEN p.status ELSE verdict
      BY <2>5 DEF nmea_rmc_info
    <3>2. QED BY <3>1, FoldsAndFix DEF VerdictKept
  <2>6. CASE nmea_gsa_info
    <3>1. PICK p \in GSA, b \in Int : info' = gsa_info(p, b) /\ verdict' = "GSA"
      <4>1. PICK p \in GSA : /\ verdict' = "GSA"
                             /\ \E b \in Int : info' = gsa_info(p, b)
        BY <2>6 DEF nmea_gsa_info
      <4>2. QED BY <4>1
    <3>2. QED BY <3>1, FoldsAndFix DEF VerdictKept
  <2>7. CASE NewCycle
    BY <2>1, <2>7 DEF NewCycle
  <2>8. CASE SendGsv
    BY <2>1, <2>2, <2>8 DEF SendGsv
  <2>9. CASE LoseGsv
    BY <2>1, <2>9 DEF LoseGsv
  <2>10. CASE SendOddGsv
    BY <2>1, <2>2, <2>10 DEF SendOddGsv
  <2>11. CASE UNCHANGED vars
    BY <2>1, <2>11 DEF vars
  <2>12. QED
    BY <2>3, <2>4, <2>5, <2>6, <2>7, <2>8, <2>9, <2>10, <2>11 DEF Next, Step
<1>3. V => VerdictKept
  OBVIOUS
<1>4. QED BY <1>1, <1>2, <1>3, PTL DEF Spec
-----------------------------------------------------------------------------
(* Arithmetic of the messages of a cycle.                                  *)

LEMMA Sizes ==
  /\ SatInPack \in Nat /\ SatInPack >= 1 /\ MaxSat \in Nat /\ SatInPack <= MaxSat
  /\ MaxSat % SatInPack = 0
  /\ IntMax \in Nat /\ 4 * MaxSat + 3 <= IntMax
  BY InfoAssumption

LEMMA Division ==
  ASSUME NEW n \in Nat
  PROVE  /\ n \div SatInPack \in Nat /\ n % SatInPack \in 0..(SatInPack - 1)
         /\ n = SatInPack * (n \div SatInPack) + (n % SatInPack)
  BY Sizes

\* Quotient and remainder are unique.
LEMMA Unique ==
  ASSUME NEW b \in Nat, b > 0, NEW q \in Int, NEW r \in 0..(b - 1), NEW p \in Int, NEW s \in 0..(b - 1),
         b * q + r = b * p + s
  PROVE  q = p /\ r = s
<1>1. b * (q - p) = s - r
  OBVIOUS
<1>2. ~(q - p >= 1)
  BY <1>1
<1>3. ~(q - p <= -1)
  BY <1>1
<1>4. QED BY <1>1, <1>2, <1>3

\* Multiples of the message size lie at least that far apart.
LEMMA Apart ==
  ASSUME NEW a \in Int, NEW b \in Int, a < b
  PROVE  /\ a * SatInPack \in Int /\ b * SatInPack \in Int
         /\ a * SatInPack + SatInPack <= b * SatInPack
<1>1. SatInPack \in Nat
  BY Sizes
<1>2. b - a - 1 \in Nat
  OBVIOUS
<1>3. (b - a - 1) * SatInPack \in Nat
  BY <1>1, <1>2
<1>4. (b - a - 1) * SatInPack = b * SatInPack - a * SatInPack - SatInPack
  BY <1>1
<1>5. a * SatInPack \in Int /\ b * SatInPack \in Int
  BY <1>1
<1> DEFINE x == a * SatInPack  y == b * SatInPack  z == (b - a - 1) * SatInPack
<1>6. x \in Int /\ y \in Int /\ z \in Nat /\ z = y - x - SatInPack
  BY <1>3, <1>4, <1>5
<1> HIDE DEF x, y, z
<1>7. x + SatInPack <= y
  BY <1>1, <1>6
<1>8. QED BY <1>5, <1>7 DEF x, y

\* Every message of a cycle holds a satellite, and every satellite is in one.
LEMMA MessagesCover ==
  ASSUME view \in Seq(Sat)
  PROVE  /\ Messages \in Nat
         /\ \A i \in 1..Messages : (i - 1) * SatInPack < Len(view)
         /\ \A j \in 0..(Len(view) - 1) : (j \div SatInPack) + 1 \in 1..Messages
<1> DEFINE L == Len(view)
           r == (L + SatInPack - 1) % SatInPack
<1>1. L \in Nat /\ SatInPack \in Nat /\ SatInPack >= 1 /\ L + SatInPack - 1 \in Nat
  BY Sizes
<1>2. /\ Messages \in Nat /\ r \in 0..(SatInPack - 1)
      /\ L + SatInPack - 1 = SatInPack * Messages + r
  BY <1>1, Division DEF Messages
<1> HIDE DEF L, r
<1>3. SatInPack * Messages = Messages * SatInPack /\ Messages * SatInPack \in Int
  BY <1>1, <1>2
<1>4. ASSUME NEW i \in 1..Messages PROVE (i - 1) * SatInPack < L
  <2>1. i - 1 \in Int /\ Messages \in Int /\ i - 1 < Messages
    BY <1>2
  <2>2. /\ (i - 1) * SatInPack \in Int
        /\ (i - 1) * SatInPack + SatInPack <= Messages * SatInPack
    BY <2>1, Apart
  <2> DEFINE x == (i - 1) * SatInPack  y == Messages * SatInPack
  <2>3. x \in Int /\ y \in Int /\ x + SatInPack <= y /\ L + SatInPack - 1 = y + r
    BY <1>2, <1>3, <2>2
  <2> HIDE DEF x, y
  <2>4. x < L
    BY <1>1, <1>2, <2>3
  <2>5. QED BY <2>4 DEF x
<1>5. ASSUME NEW j \in 0..(L - 1) PROVE (j \div SatInPack) + 1 \in 1..Messages
  <2> DEFINE q == j \div SatInPack  t == j % SatInPack
  <2>0. j \in Nat
    BY <1>1
  <2>1. j \in Nat /\ q \in Nat /\ t \in 0..(SatInPack - 1) /\ j = SatInPack * q + t
    BY <2>0, Division
  <2> HIDE DEF q, t
  <2>2. CASE q < Messages
    BY <1>2, <2>1, <2>2 DEF q
  <2>3. CASE ~(q < Messages)
    <3>1. q * SatInPack \in Int /\ q * SatInPack = SatInPack * q /\ q * SatInPack >= Messages * SatInPack
      <4>1. CASE q = Messages
        BY <1>1, <2>1, <4>1
      <4>2. CASE Messages < q
        BY <1>1, <1>2, <2>1, <4>2, Apart
      <4>3. QED BY <1>2, <2>1, <2>3, <4>1, <4>2
    <3> DEFINE x == q * SatInPack  y == Messages * SatInPack
    <3>2. x \in Int /\ y \in Int /\ x >= y /\ L + SatInPack - 1 = y + r /\ j = x + t
      BY <1>2, <1>3, <2>1, <3>1
    <3> HIDE DEF x, y
    <3>3. FALSE
      BY <1>1, <1>2, <2>1, <3>2
    <3>4. QED BY <3>3
  <2>4. QED BY <2>2, <2>3
<1>6. QED BY <1>2, <1>4, <1>5 DEF L

\* A message of a cycle that fits the table is neither refused nor ignored, and
\* fills the slots of its own satellites.
LEMMA OwnMessage ==
  ASSUME view \in Seq(Sat), Len(view) <= MaxSat, NEW i \in 1..Messages
  PROVE  LET base == (i - 1) * SatInPack
             n == IF base + SatInPack > Len(view) THEN Len(view) - base ELSE SatInPack
         IN  /\ base \in Nat /\ n \in 1..SatInPack /\ base + n <= MaxSat
             /\ GsvIndex(MessageOf(i)) = i /\ Before(i) = base
             /\ SatsInMessage(i, Len(view)) = n
             /\ nmea_parse_gsv(MessageOf(i)) /\ ~GsvIgnored(MessageOf(i)) /\ Fits(i * SatInPack)
<1> DEFINE L == Len(view)
           base == (i - 1) * SatInPack
           n == IF base + SatInPack > L THEN L - base ELSE SatInPack
           q == MaxSat \div SatInPack
<1>1. L \in Nat /\ L <= MaxSat /\ Messages \in Nat /\ i \in Nat /\ i >= 1 /\ i <= Messages
  BY MessagesCover
<1>2. base < L
  BY MessagesCover
<1>3. base \in Nat /\ i * SatInPack = base + SatInPack
  <2>1. i - 1 \in Nat /\ SatInPack \in Nat
    BY <1>1, Sizes
  <2>2. QED BY <1>1, <2>1
<1>4. q \in Nat /\ MaxSat = q * SatInPack
  BY Sizes, Division
<1>5. base + SatInPack <= MaxSat
  <2>1. CASE i - 1 < q
    BY <1>1, <1>4, <2>1, Apart
  <2>2. CASE q = i - 1
    BY <1>1, <1>2, <1>3, <1>4, <2>2
  <2>3. CASE q < i - 1
    <3>1. i - 1 \in Int /\ q \in Int
      BY <1>1, <1>4
    <3>2. q * SatInPack + SatInPack <= base
      BY <2>3, <3>1, Apart
    <3>3. MaxSat + SatInPack <= base
      BY <1>4, <3>2
    <3> HIDE DEF base, L
    <3>4. QED BY <1>1, <1>2, <1>3, <3>3, Sizes
  <2>4. QED BY <1>1, <1>4, <2>1, <2>2, <2>3
<1>6. Before(i) = Wrap(base)
  BY DEF Before
<1>7. /\ MessageOf(i).pack_count = Messages /\ MessageOf(i).pack_index = i
      /\ MessageOf(i).sat_count = L
      /\ MessageOf(i).quads = IF i * SatInPack <= L THEN SatInPack ELSE L - base
  BY DEF MessageOf
<1>8. GsvIndex(MessageOf(i)) = i
  BY <1>1, <1>7 DEF GsvIndex
<1> HIDE DEF base, L, q
<1>9. n \in 1..SatInPack /\ base + n <= MaxSat
  BY <1>1, <1>2, <1>3, <1>5, Sizes
<1>10. Fits(base) /\ Fits(base + SatInPack) /\ Fits(L - base) /\ Fits(i * SatInPack)
  BY <1>1, <1>2, <1>3, <1>5, Sizes DEF Fits
<1>11. /\ Wrap(base) = base /\ Wrap(base + SatInPack) = base + SatInPack
       /\ Wrap(L - base) = L - base /\ Wrap(i * SatInPack) = base + SatInPack
  BY <1>1, <1>3, <1>10, Sizes, WrapFits
<1>12. SatsInMessage(i, L) = n
  BY <1>6, <1>11 DEF SatsInMessage
<1>13. ~GsvIgnored(MessageOf(i))
  BY <1>1, <1>3, <1>5, <1>7, <1>11, Sizes DEF GsvIgnored
<1>14. MessageOf(i).quads = n
  BY <1>1, <1>3, <1>7, Sizes
<1> HIDE DEF n
<1>15. Wrap(n * 4 + 3) = n * 4 + 3
  BY <1>9, Sizes, WrapFits DEF Fits
<1>16. nmea_parse_gsv(MessageOf(i))
  BY <1>7, <1>9, <1>12, <1>14, <1>15 DEF nmea_parse_gsv
<1>17. QED
  BY <1>3, <1>6, <1>8, <1>9, <1>10, <1>11, <1>12, <1>13, <1>16 DEF n, base, L

\* A pack whose slots lie in the table has no more of them than it carries
\* satellites, wrapped numbers or not.
LEMMA SlotsNarrow ==
  ASSUME NEW p, IsGsv(p), p.sat_count >= -(IntMax + 1), GsvSlots(p) \subseteq Slots
  PROVE  /\ Before(GsvIndex(p)) \in Int
         /\ SatsInMessage(GsvIndex(p), p.sat_count) \in Int
         /\ SatsInMessage(GsvIndex(p), p.sat_count) <= SatInPack
<1> DEFINE i == GsvIndex(p)  b == Before(i)  s == p.sat_count
           n == SatsInMessage(i, s)
           m == 2 * IntMax + 2
<1>1. s \in Int /\ i \in Int /\ (i - 1) * SatInPack \in Int
  BY Sizes DEF IsGsv, GsvIndex
<1>2. ASSUME NEW x \in Int PROVE Wrap(x) \in Int
  BY Sizes DEF Wrap
<1>3. b \in Int
  BY <1>1, <1>2 DEF Before
<1>4. GsvSlots(p) = {b + isat : isat \in 0..(n - 1)}
  BY DEF GsvSlots
<1>5. n = IF Wrap(b + SatInPack) > s THEN Wrap(s - b) ELSE SatInPack
  BY DEF SatsInMessage
<1> HIDE DEF i, b, s, n
<1>6. s - b \in Int /\ b + SatInPack \in Int
  BY <1>1, <1>3, Sizes
<1>7. n \in Int
  BY <1>2, <1>5, <1>6, Sizes
<1>8. n <= SatInPack
  <2> SUFFICES ASSUME n > SatInPack PROVE FALSE
    BY <1>7, Sizes
  <2>1. 0 \in 0..(n - 1) /\ n - 1 \in 0..(n - 1)
    BY <1>7, Sizes
  <2>2. b + 0 \in 0..(MaxSat - 1) /\ b + (n - 1) \in 0..(MaxSat - 1)
    BY <1>4, <2>1 DEF Slots
  <2>3. b >= 0 /\ b < MaxSat /\ n <= MaxSat
    BY <1>3, <1>7, <2>2, Sizes
  <2>4. Wrap(b + SatInPack) = b + SatInPack
    <3>1. Fits(b + SatInPack)
      BY <1>3, <2>3, Sizes DEF Fits
    <3>2. QED BY <1>6, <3>1, WrapFits
  <2>5. b + SatInPack > s /\ n = Wrap(s - b)
    BY <1>5, <1>7, <2>4, Sizes
  <2>6. CASE Fits(s - b)
    <3>1. n = s - b
      BY <1>6, <2>5, <2>6, WrapFits
    <3>2. QED BY <1>1, <1>3, <2>5, <3>1, Sizes
  <2>7. CASE ~Fits(s - b)
    <3> DEFINE x == s - b + IntMax + 1
    <3>1. x \in Int /\ x < 0 /\ x >= -MaxSat
      <4>1. s >= -(IntMax + 1)
        BY DEF s
      <4>2. s - b < SatInPack
        BY <1>1, <1>3, <2>5, Sizes
      <4>3. s - b < -(IntMax + 1)
        BY <1>6, <2>7, <4>2, Sizes DEF Fits
      <4>4. QED BY <1>1, <1>3, <2>3, <4>1, <4>3, Sizes
    <3>2. m \in Nat /\ m > 0 /\ x + m \in 0..(m - 1)
      BY <3>1, Sizes
    <3>3. n = (x % m) - (IntMax + 1)
      BY <2>5, <2>7 DEF Wrap
    <3> HIDE DEF x
    <3>4. x % m \in 0..(m - 1) /\ x \div m \in Int /\ x = m * (x \div m) + (x % m)
      BY <3>1, <3>2
    <3>5. x % m = x + m
      <4>1. x = m * (-1) + (x + m)
        BY <3>1, <3>2
      <4> DEFINE w == x % m  d == x \div m
      <4>2. w \in 0..(m - 1) /\ d \in Int /\ -1 \in Int /\ m * (-1) + (x + m) = m * d + w
        BY <3>4, <4>1
      <4> HIDE DEF m, w, d
      <4>3. x + m = w
        BY <3>2, <4>2, Unique
      <4>4. QED BY <4>3 DEF w
    <3>6. QED BY <2>3, <3>1, <3>3, <3>5, Sizes
  <2>8. QED BY <2>6, <2>7
<1>9. QED BY <1>3, <1>7, <1>8 DEF i, b, n, s
-----------------------------------------------------------------------------
(* The summary's types, and the table of a cycle.                          *)

Table == [Slots -> [id : Sat \cup {0}, in_use : {0, 1}]]

Shape(r) ==
  /\ "sat" \in DOMAIN r /\ "inview" \in DOMAIN r /\ "inuse" \in DOMAIN r
  /\ r.sat \in Table /\ r.inview \in Int /\ r.inuse \in Nat

\* The satellites of message i of the current cycle are in their slots.
Installed(i) ==
  \A k \in 0..(SatInPack - 1) :
     (i - 1) * SatInPack + k < Len(view) =>
        info.sat[(i - 1) * SatInPack + k].id = view[(i - 1) * SatInPack + k + 1]

Cycle ==
  /\ view \in Seq(Sat) /\ nextMsg \in Nat \ {0} /\ got \subseteq 1..(nextMsg - 1)
  /\ outside \subseteq {"gsa", "gsv", "overflow"} /\ lost \in 0..MaxLost

CInv ==
  /\ Cycle
  /\ Running => Shape(info)
  /\ Len(view) <= MaxSat => \A i \in got : info.inview = Len(view) /\ Installed(i)

\* GGA, RMC and VTG leave the table alone, a GSA its ids.
LEMMA FoldsAndTable ==
  ASSUME Shape(info), NEW p
  PROVE  /\ Shape(gga_info(p)) /\ gga_info(p).sat = info.sat /\ gga_info(p).inview = info.inview
         /\ Shape(rmc_info(p)) /\ rmc_info(p).sat = info.sat /\ rmc_info(p).inview = info.inview
         /\ Shape(vtg_info(p)) /\ vtg_info(p).sat = info.sat /\ vtg_info(p).inview = info.inview
<1>1. Shape(gga_info(p)) /\ gga_info(p).sat = info.sat /\ gga_info(p).inview = info.inview
  BY DEF Shape, gga_info
<1>2. Shape(rmc_info(p)) /\ rmc_info(p).sat = info.sat /\ rmc_info(p).inview = info.inview
  BY DEF Shape, rmc_info
<1>3. Shape(vtg_info(p)) /\ vtg_info(p).sat = info.sat /\ vtg_info(p).inview = info.inview
  BY DEF Shape, vtg_info
<1>4. QED BY <1>1, <1>2, <1>3

LEMMA GsaAndTable ==
  ASSUME Shape(info), NEW p, NEW beyond \in Nat
  PROVE  /\ Shape(gsa_info(p, beyond)) /\ gsa_info(p, beyond).inview = info.inview
         /\ \A j \in Slots : gsa_info(p, beyond).sat[j].id = info.sat[j].id
<1> DEFINE r == gsa_info(p, beyond)
           Hit(j) == \E m \in Matches(p) : m[2] = j
<1>1. IsFiniteSet(Matches(p)) /\ Cardinality(Matches(p)) \in Nat
  <2>1. IsFiniteSet(Slots)
    BY Sizes, FS_Interval DEF Slots
  <2>2. IsFiniteSet(Slots \X Slots)
    BY <2>1, FS_Product
  <2>3. Matches(p) \subseteq Slots \X Slots
    BY DEF Matches
  <2>4. QED BY <2>2, <2>3, FS_Subset, FS_CardinalityType
<1>2. /\ "sat" \in DOMAIN r /\ "inview" \in DOMAIN r /\ "inuse" \in DOMAIN r
      /\ r.inview = info.inview /\ r.inuse = Cardinality(Matches(p)) + beyond
      /\ r.sat = [j \in Slots |-> IF Hit(j) THEN [info.sat[j] EXCEPT !.in_use = 1] ELSE info.sat[j]]
  BY DEF Shape, gsa_info
<1> HIDE DEF r, Hit
<1>3. ASSUME NEW j \in Slots
      PROVE  r.sat[j] \in [id : Sat \cup {0}, in_use : {0, 1}] /\ r.sat[j].id = info.sat[j].id
  <2>1. info.sat[j] \in [id : Sat \cup {0}, in_use : {0, 1}]
    BY DEF Shape, Table
  <2>2. QED BY <1>2, <2>1
<1>4. r.sat \in Table
  BY <1>2, <1>3 DEF Table
<1>5. QED BY <1>1, <1>2, <1>3, <1>4 DEF Shape, r

LEMMA GsvAndTable ==
  ASSUME Shape(info), NEW p, IsGsv(p), p.sat_count >= -(IntMax + 1),
         p.sat_data \in [0..(SatInPack - 1) -> Sat \cup {0}], GsvSlots(p) \subseteq Slots
  PROVE  /\ Shape(gsv_info(p)) /\ gsv_info(p).inview = p.sat_count
         /\ \A j \in Slots : gsv_info(p).sat[j].id =
               IF j \in GsvSlots(p) THEN p.sat_data[j - Before(GsvIndex(p))] ELSE info.sat[j].id
<1> DEFINE r == gsv_info(p)
           b == Before(GsvIndex(p))
           n == SatsInMessage(GsvIndex(p), p.sat_count)
<1>1. b \in Int /\ n \in Int /\ n <= SatInPack
  BY SlotsNarrow
<1>2. GsvSlots(p) = {b + isat : isat \in 0..(n - 1)}
  BY DEF GsvSlots
<1>3. /\ "sat" \in DOMAIN r /\ "inview" \in DOMAIN r /\ "inuse" \in DOMAIN r
      /\ r.inview = p.sat_count /\ r.inuse = info.inuse
      /\ r.sat = [j \in Slots |-> IF j \in GsvSlots(p)
                                  THEN [info.sat[j] EXCEPT !.id = p.sat_data[j - b]] ELSE info.sat[j]]
  BY DEF Shape, gsv_info
<1> HIDE DEF r, b, n
<1>4. ASSUME NEW j \in Slots
      PROVE  /\ r.sat[j] \in [id : Sat \cup {0}, in_use : {0, 1}]
             /\ r.sat[j].id = IF j \in GsvSlots(p) THEN p.sat_data[j - b] ELSE info.sat[j].id
  <2>1. info.sat[j] \in [id : Sat \cup {0}, in_use : {0, 1}]
    BY DEF Shape, Table
  <2>2. CASE j \in GsvSlots(p)
    <3>1. PICK isat \in 0..(n - 1) : j = b + isat
      BY <1>2, <2>2
    <3>2. j - b \in 0..(SatInPack - 1)
      BY <1>1, <3>1, Sizes
    <3>3. p.sat_data[j - b] \in Sat \cup {0}
      BY <3>2
    <3>4. QED BY <1>3, <2>1, <2>2, <3>3
  <2>3. CASE j \notin GsvSlots(p)
    BY <1>3, <2>1, <2>3
  <2>4. QED BY <2>2, <2>3
<1>5. r.sat \in Table
  BY <1>3, <1>4 DEF Table
<1>6. QED BY <1>3, <1>4, <1>5 DEF Shape, IsGsv, r, b

\* The receiver's messages carry the satellites of the view, and then zeros.
LEMMA OwnData ==
  ASSUME view \in Seq(Sat), NEW i \in Nat \ {0}
  PROVE  /\ MessageOf(i).sat_data \in [0..(SatInPack - 1) -> Sat \cup {0}]
         /\ \A k \in 0..(SatInPack - 1) :
              (i - 1) * SatInPack + k < Len(view) =>
                 MessageOf(i).sat_data[k] = view[(i - 1) * SatInPack + k + 1]
<1> DEFINE base == (i - 1) * SatInPack
           At(k) == IF base + k + 1 <= Len(view) THEN view[base + k + 1] ELSE 0
<1>1. base \in Nat /\ Len(view) \in Nat
  <2>1. i - 1 \in Nat /\ SatInPack \in Nat
    BY Sizes
  <2>2. QED BY <2>1
<1>2. MessageOf(i).sat_data = [k \in 0..(SatInPack - 1) |-> At(k)]
  BY DEF MessageOf
<1> HIDE DEF base
<1>3. ASSUME NEW k \in 0..(SatInPack - 1)
      PROVE  At(k) \in Sat \cup {0} /\ (base + k < Len(view) => At(k) = view[base + k + 1])
  <2>1. CASE base + k + 1 <= Len(view)
    <3>1. base + k + 1 \in 1..Len(view)
      BY <1>1, <2>1, Sizes
    <3>2. view[base + k + 1] \in Sat
      BY <3>1
    <3>3. QED BY <2>1, <3>2
  <2>2. CASE ~(base + k + 1 <= Len(view))
    BY <1>1, <2>2, Sizes
  <2>3. QED BY <2>1, <2>2
<1> HIDE DEF At
<1>4. QED BY <1>2, <1>3 DEF base

\* A step that leaves ids, inview and the cycle alone keeps what was installed.
LEMMA SameTable ==
  ASSUME CInv, Running, Shape(info'), info'.inview = info.inview,
         \A j \in Slots : info'.sat[j].id = info.sat[j].id,
         UNCHANGED <<view, nextMsg, got, lost>>, outside' \subseteq outside \cup {"gsa"}
  PROVE  CInv'
<1>1. Cycle'
  BY DEF CInv, Cycle
<1>2. ASSUME Len(view) <= MaxSat, NEW i \in got
      PROVE  info'.inview = Len(view) /\ Installed(i)'
  <2>1. info.inview = Len(view) /\ Installed(i) /\ i \in Nat /\ i >= 1 /\ Len(view) \in Nat
    BY <1>2 DEF CInv, Cycle
  <2>2. ASSUME NEW k \in 0..(SatInPack - 1), (i - 1) * SatInPack + k < Len(view)
        PROVE  info'.sat[(i - 1) * SatInPack + k].id = view[(i - 1) * SatInPack + k + 1]
    <3>1. (i - 1) * SatInPack \in Nat
      <4>1. i - 1 \in Nat /\ SatInPack \in Nat
        BY <2>1, Sizes
      <4>2. QED BY <4>1
    <3>2. (i - 1) * SatInPack + k \in Slots
      <4> DEFINE x == (i - 1) * SatInPack
      <4>1. x \in Nat /\ x + k < Len(view)
        BY <2>2, <3>1
      <4> HIDE DEF x
      <4>2. x + k \in Slots
        BY <1>2, <2>1, <4>1, Sizes DEF Slots
      <4>3. QED BY <4>2 DEF x
    <3>3. QED BY <2>1, <2>2, <3>2 DEF Installed
  <2>3. QED BY <2>1, <2>2 DEF Installed
<1>3. QED BY <1>1, <1>2 DEF CInv

\* A GSV pack keeps the types, unless its numbers overflow.
LEMMA GsvShape ==
  ASSUME Shape(info), NEW p, IsGsv(p), p.sat_count >= -(IntMax + 1),
         p.sat_data \in [0..(SatInPack - 1) -> Sat \cup {0}], nmea_gsv_info(p), Running'
  PROVE  Shape(info')
<1>1. CASE UNCHANGED <<info, outside>>
  BY <1>1 DEF Shape
<1>2. CASE /\ ~GsvIgnored(p) /\ info' = gsv_info(p)
           /\ outside' = outside \cup (IF GsvSlots(p) \subseteq Slots THEN {}
                                      ELSE IF InRange(p) THEN {"gsv"} ELSE {"overflow"})
  <2>1. GsvSlots(p) \subseteq Slots
    BY <1>2, GsvSlotsInTable DEF Running
  <2>2. QED BY <1>2, <2>1, GsvAndTable
<1>3. QED BY <1>1, <1>2 DEF nmea_gsv_info

LEMMA GsvOutside ==
  ASSUME NEW p, nmea_gsv_info(p), outside \subseteq {"gsa", "gsv", "overflow"}
  PROVE  outside' \subseteq {"gsa", "gsv", "overflow"}
  BY DEF nmea_gsv_info

\* A message of a cycle that fits the table is installed, and the messages
\* before it stay.
LEMMA SendInstalls ==
  ASSUME CInv, Running, SendGsv, Len(view) <= MaxSat
  PROVE  \A i \in got' : info'.inview = Len(view) /\ Installed(i)'
<1> DEFINE m == nextMsg
           p == MessageOf(m)
           base == (m - 1) * SatInPack
           n == IF base + SatInPack > Len(view) THEN Len(view) - base ELSE SatInPack
<1>1. /\ view \in Seq(Sat) /\ m \in 1..Messages /\ m \in Nat \ {0} /\ Len(view) \in Nat
      /\ got \subseteq 1..(m - 1) /\ Shape(info)
      /\ view' = view /\ got' = got \cup {m} /\ nmea_gsv_info(p)
  <2>1. view \in Seq(Sat)
    BY DEF CInv, Cycle
  <2>2. Messages \in Nat
    BY <2>1, MessagesCover
  <2>3. QED BY <2>1, <2>2 DEF CInv, Cycle, SendGsv
<1>2. /\ base \in Nat /\ n \in 1..SatInPack /\ base + n <= MaxSat
      /\ GsvIndex(p) = m /\ Before(m) = base /\ SatsInMessage(m, Len(view)) = n
      /\ nmea_parse_gsv(p) /\ ~GsvIgnored(p) /\ Fits(m * SatInPack)
  BY <1>1, OwnMessage
<1>3. p.sat_count = Len(view) /\ p.pack_index = m
  BY DEF MessageOf
<1>4. IsGsv(p) /\ p.sat_data \in [0..(SatInPack - 1) -> Sat \cup {0}]
      /\ \A k \in 0..(SatInPack - 1) : base + k < Len(view) => p.sat_data[k] = view[base + k + 1]
  BY <1>1, MessageIsGsv, OwnData
<1>5. info' = gsv_info(p)
  BY <1>1, <1>2, <1>3 DEF nmea_gsv_info
<1>6. GsvSlots(p) = {base + isat : isat \in 0..(n - 1)}
  BY <1>2, <1>3 DEF GsvSlots
<1> HIDE DEF m, p, n, base
<1>7. GsvSlots(p) \subseteq Slots
  BY <1>2, <1>6, Sizes DEF Slots
<1>8. p.sat_count >= -(IntMax + 1)
  BY <1>1, <1>3, Sizes
<1>9. /\ info'.inview = Len(view)
      /\ \A j \in Slots : info'.sat[j].id =
            IF j \in GsvSlots(p) THEN p.sat_data[j - base] ELSE info.sat[j].id
  BY <1>1, <1>2, <1>3, <1>4, <1>5, <1>7, <1>8, GsvAndTable
<1>10. ASSUME NEW i, i = m PROVE Installed(i)'
  <2>1. ASSUME NEW k \in 0..(SatInPack - 1), base + k < Len(view)
        PROVE  info'.sat[base + k].id = view[base + k + 1]
    <3>1. k \in 0..(n - 1)
      BY <1>1, <1>2, <2>1, Sizes DEF n
    <3>2. base + k \in GsvSlots(p) /\ base + k \in Slots /\ (base + k) - base = k
      BY <1>2, <1>6, <1>7, <3>1
    <3>3. info'.sat[base + k].id = p.sat_data[k]
      <4> DEFINE j == base + k
      <4>1. j \in Slots /\ j \in GsvSlots(p) /\ j - base = k
        BY <3>2
      <4> HIDE DEF j
      <4>2. info'.sat[j].id = p.sat_data[j - base]
        BY <1>9, <4>1
      <4>3. QED BY <4>1, <4>2 DEF j
    <3>4. QED BY <1>4, <2>1, <3>3
  <2>2. QED BY <1>1, <1>10, <2>1 DEF Installed, base
<1>11. ASSUME NEW i \in got PROVE Installed(i)'
  <2>1. i \in Nat /\ i >= 1 /\ i < m /\ m \in Int /\ Installed(i)
    BY <1>1 DEF CInv
  <2> DEFINE x == (i - 1) * SatInPack
  <2>2. x \in Nat
    <3>1. i - 1 \in Nat /\ SatInPack \in Nat
      BY <2>1, Sizes
    <3>2. QED BY <3>1
  <2>3. x + SatInPack <= base
    <3>1. i - 1 \in Int /\ m - 1 \in Int /\ i - 1 < m - 1
      BY <2>1
    <3>2. QED BY <3>1, Apart DEF base
  <2>4. ASSUME NEW k \in 0..(SatInPack - 1), x + k < Len(view)
        PROVE  info'.sat[x + k].id = view[x + k + 1]
    <3>1. info.sat[x + k].id = view[x + k + 1]
      BY <2>1, <2>4 DEF Installed
    <3> HIDE DEF x
    <3>2. x + k \in Slots
      BY <1>1, <2>2, <2>4, Sizes DEF Slots
    <3>3. x + k \notin GsvSlots(p)
      BY <1>2, <1>6, <2>2, <2>3, Sizes
    <3>4. QED BY <1>9, <3>1, <3>2, <3>3
  <2>5. QED BY <1>1, <2>4 DEF Installed
<1>12. QED BY <1>1, <1>9, <1>10, <1>11

LEMMA CycleInvariant == Spec => []CInv
<1>1. Init => CInv
  <2> SUFFICES ASSUME Init PROVE CInv
    OBVIOUS
  <2>1. Cycle
    BY InfoAssumption, EmptySeq DEF Init, Cycle
  <2>2. Shape(info)
    BY DEF Init, Shape, ZeroInfo, Table, NoSat
  <2>3. QED BY <2>1, <2>2 DEF Init, CInv
<1>2. CInv /\ [Next]_vars => CInv'
  <2> SUFFICES ASSUME CInv, [Next]_vars PROVE CInv'
    OBVIOUS
  <2>1. CASE UNCHANGED vars
    BY <2>1 DEF vars, CInv, Cycle, Shape, Installed, Running
  <2> SUFFICES ASSUME Running, Step PROVE CInv'
    BY <2>1 DEF Next
  <2>2. Shape(info) /\ Cycle
    BY DEF CInv
  <2>3. CASE nmea_gga_info
    BY <2>2, <2>3, FoldsAndTable, SameTable DEF nmea_gga_info, receiver
  <2>4. CASE nmea_rmc_info
    BY <2>2, <2>4, FoldsAndTable, SameTable DEF nmea_rmc_info, receiver
  <2>5. CASE nmea_vtg_info
    BY <2>2, <2>5, FoldsAndTable, SameTable DEF nmea_vtg_info, receiver
  <2>6. CASE nmea_gsa_info
    <3>1. PICK p \in GSA, beyond \in Nat : info' = gsa_info(p, beyond)
      BY <2>6 DEF nmea_gsa_info
    <3>2. UNCHANGED <<view, nextMsg, got, lost>> /\ outside' \subseteq outside \cup {"gsa"}
      BY <2>6 DEF nmea_gsa_info, receiver
    <3>3. QED BY <2>2, <3>1, <3>2, GsaAndTable, SameTable
  <2>7. CASE NewCycle
    <3>1. Cycle' /\ got' = {} /\ info' = info
      BY <2>2, <2>7, InfoAssumption DEF NewCycle, Cycle
    <3>2. QED BY <2>2, <3>1 DEF CInv, Shape
  <2>8. CASE SendGsv
    <3>1. Cycle'
      BY <2>2, <2>8, GsvOutside DEF SendGsv, Cycle
    <3>2. Running' => Shape(info')
      <4>1. IsGsv(MessageOf(nextMsg)) /\ MessageOf(nextMsg).sat_data \in [0..(SatInPack - 1) -> Sat \cup {0}]
        BY <2>2, MessageIsGsv, OwnData DEF Cycle
      <4>2. MessageOf(nextMsg).sat_count >= -(IntMax + 1)
        BY <2>2, Sizes DEF MessageOf, Cycle
      <4>3. QED BY <2>2, <2>8, <4>1, <4>2, GsvShape DEF SendGsv
    <3>3. QED BY <2>8, <3>1, <3>2, SendInstalls DEF CInv, SendGsv
  <2>9. CASE LoseGsv
    <3>1. Cycle'
      BY <2>2, <2>9, InfoAssumption DEF LoseGsv, Cycle
    <3>2. QED BY <2>2, <2>9, <3>1 DEF LoseGsv, CInv, Shape, Installed
  <2>10. CASE SendOddGsv
    <3>1. PICK p \in OddGSV : nmea_gsv_info(p)
      BY <2>10 DEF SendOddGsv
    <3>2. /\ IsGsv(p) /\ p.sat_count >= -(IntMax + 1)
          /\ p.sat_data \in [0..(SatInPack - 1) -> Sat \cup {0}]
      BY <3>1, InfoAssumption DEF IsGsv, CInt
    <3>3. Cycle' /\ got' = {}
      BY <2>2, <2>10, <3>1, GsvOutside DEF SendOddGsv, Cycle
    <3>4. Running' => Shape(info')
      BY <2>2, <3>1, <3>2, GsvShape
    <3>5. QED BY <3>3, <3>4 DEF CInv
  <2>11. QED
    BY <2>3, <2>4, <2>5, <2>6, <2>7, <2>8, <2>9, <2>10 DEF Step
<1>3. QED BY <1>1, <1>2, PTL DEF Spec

\* The summary and the receiver's state keep their types, whatever a sentence
\* carries, as long as no number overflows.
THEOREM TypeCorrect == Spec => []TypeOK
<1>1. CInv => TypeOK
  BY DEF CInv, Cycle, Shape, Table, Running, TypeOK
<1>2. QED BY <1>1, CycleInvariant, PTL

\* Once all messages of a cycle have arrived the table holds its satellites, for
\* every table, message size and number of satellites that fit.
THEOREM CyclesInstalled == Spec => []CycleInstalled
<1>1. CInv => CycleInstalled
  <2> SUFFICES ASSUME CInv, got = 1..Messages, view # <<>>, Len(view) <= MaxSat
               PROVE  /\ info.inview = Len(view)
                      /\ \A j \in 1..Len(view) : info.sat[j - 1].id = view[j]
    BY DEF CycleInstalled
  <2>1. view \in Seq(Sat) /\ Len(view) \in Nat /\ Len(view) >= 1
    BY EmptySeq DEF CInv, Cycle
  <2>2. ASSUME NEW j \in 1..Len(view)
        PROVE  info.inview = Len(view) /\ info.sat[j - 1].id = view[j]
    <3> DEFINE q == (j - 1) \div SatInPack  k == (j - 1) % SatInPack
    <3>1. j - 1 \in 0..(Len(view) - 1) /\ j - 1 \in Nat
      BY <2>1
    <3>2. q \in Nat /\ k \in 0..(SatInPack - 1) /\ j - 1 = SatInPack * q + k
      BY <3>1, Division
    <3>3. q + 1 \in got
      BY <2>1, <3>1, MessagesCover
    <3> HIDE DEF q, k
    <3>4. info.inview = Len(view) /\ Installed(q + 1)
      BY <3>3 DEF CInv
    <3>5. (q + 1 - 1) * SatInPack + k = j - 1
      BY <3>2, Sizes
    <3>6. (q + 1 - 1) * SatInPack + k < Len(view) /\ (q + 1 - 1) * SatInPack + k + 1 = j
      BY <2>1, <3>5
    <3>7. info.sat[(q + 1 - 1) * SatInPack + k].id = view[(q + 1 - 1) * SatInPack + k + 1]
      BY <3>2, <3>4, <3>6 DEF Installed
    <3>8. QED BY <3>4, <3>5, <3>6, <3>7
  <2>3. QED BY <2>1, <2>2
<1>2. QED BY <1>1, CycleInvariant, PTL
=============================================================================
