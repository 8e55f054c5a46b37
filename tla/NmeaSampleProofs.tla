-------------------------- MODULE NmeaSampleProofs --------------------------
(***************************************************************************)
(* The serial receive path loses, repeats and reorders no byte as long as  *)
(* the DMA overwrites nothing unread and its counter is read in time.      *)
(***************************************************************************)
EXTENDS NmeaSample, SequenceTheorems, TLAPS

-----------------------------------------------------------------------------
(* The inductive invariant.                                                *)

Lap(n) == n \div BufSz
Handlers == {"dma", "uart"}
Fifos == [put : 0..(BufSz - 1), get : 0..(BufSz - 1), full : BOOLEAN]
Places == {"off", "masked", "counted", "entered", "alloc", "done"}

Held(x, y) == IF x = y THEN 1 ELSE 0

Typed ==
  /\ wrote \in Nat /\ irq \subseteq {"HT", "TC", "IDLE"} /\ last_index \in 0..(BufSz - 1)
  /\ fifo \in Fifos
  /\ isr \in [Handlers -> [pc : Places, length : Int, upto : Int]]
  /\ \A i \in Handlers : isr[i].pc \in {"entered", "alloc"} => isr[i].length \in 0..BufSz
  /\ mq \in Seq(0..BufSz) /\ free \in Nat /\ msg \in 0..BufSz /\ consumed \in Seq(Int)
  /\ counted \in Int

\* Every message of the pool is somewhere.
Conserved ==
  MaxMsgs = free + Len(mq) + Held(thread, "free")
            + Held(isr["dma"].pc, "alloc") + Held(isr["uart"].pc, "alloc")

\* A fifo with d bytes in it.
Holds(f, d) ==
  /\ f \in Fifos /\ d \in 0..BufSz
  /\ f.put = f.get + d \/ f.put = f.get + d - BufSz
  /\ f.full <=> d = BufSz

\* The counts are in order, the transfers not yet entered are there, and the
\* full transfer is pending just when the DMA is a lap ahead of the count.
Exact ==
  /\ Len(consumed) <= counted /\ Taken <= wrote /\ wrote - Len(consumed) <= BufSz
  /\ \A i \in Handlers : isr[i].pc = "counted" => isr[i].length >= 1
  /\ last_index = Taken % BufSz
  /\ "TC" \in irq <=> Lap(wrote) # Lap(Taken)
  /\ ("HT" \in irq /\ "TC" \notin irq) => TotalIndex # 0
  /\ fifo.get = Len(consumed) % BufSz
  /\ Holds(fifo, counted - Len(consumed))
  /\ \A k \in 1..Len(consumed) : consumed[k] = k

Inv == Typed /\ Conserved /\ (Clean => Exact)
-----------------------------------------------------------------------------
(* Quotient and remainder by the size of the ring.                         *)

LEMMA Sizes ==
  /\ BufSz \in Nat /\ BufSz >= 2 /\ BufSz \div 2 \in 1..(BufSz - 1)
  /\ IndexRange \in Nat /\ 2 * BufSz <= IndexRange /\ MaxMsgs \in Nat
  BY SampleAssumption

LEMMA ModRange ==
  ASSUME NEW n \in Int
  PROVE  n % BufSz \in 0..(BufSz - 1) /\ n % IndexRange \in Nat
  BY Sizes

LEMMA DivMod ==
  ASSUME NEW n \in Nat
  PROVE  Lap(n) \in Nat /\ n = BufSz * Lap(n) + (n % BufSz)
  BY Sizes DEF Lap

LEMMA Unique ==
  ASSUME NEW b \in Nat, b > 0, NEW q \in Int, NEW r \in 0..(b - 1), NEW p \in Int, NEW s \in 0..(b - 1),
         b * q + r = b * p + s
  PROVE  q = p /\ r = s
<1>1. b * (q - p) = s - r
  OBVIOUS
<1>2. ~(q - p >= 1)
  BY <1>1
<1>3. ~(q - p <= -1)
  BY <1>1
<1>4. QED BY <1>1, <1>2, <1>3

LEMMA ModOf ==
  ASSUME NEW q \in Nat, NEW r \in 0..(BufSz - 1)
  PROVE  Lap(BufSz * q + r) = q /\ (BufSz * q + r) % BufSz = r
<1>1. BufSz * q + r \in Nat
  BY Sizes
<1>2. BufSz * q + r = BufSz * Lap(BufSz * q + r) + ((BufSz * q + r) % BufSz)
  BY <1>1, DivMod
<1>3. Lap(BufSz * q + r) \in Nat /\ (BufSz * q + r) % BufSz \in 0..(BufSz - 1)
  BY <1>1, DivMod, ModRange
<1> DEFINE p == Lap(BufSz * q + r)  s == (BufSz * q + r) % BufSz
<1>4. p \in Int /\ s \in 0..(BufSz - 1) /\ q \in Int /\ BufSz * q + r = BufSz * p + s
  BY <1>2, <1>3
<1> HIDE DEF p, s
<1>5. BufSz \in Nat /\ BufSz > 0
  BY Sizes
<1>6. q = p /\ r = s
  BY <1>4, <1>5, Unique
<1>7. QED BY <1>6 DEF p, s

LEMMA SmallMod ==
  ASSUME NEW n \in Nat, n < IndexRange
  PROVE  n % IndexRange = n
  BY Sizes

\* A count that stays in its lap, and one that ends exactly one lap on.
LEMMA SameLap ==
  ASSUME NEW m \in Nat, NEW n \in Nat, Lap(m) = Lap(n)
  PROVE  (n % BufSz) - (m % BufSz) = n - m
<1> DEFINE z == BufSz * Lap(m)  r == m % BufSz  t == n % BufSz
<1>1. n = z + t /\ m = z + r
  BY DivMod
<1>2. z \in Int
  BY DivMod, Sizes
<1>3. t \in Int /\ r \in Int
  BY ModRange
<1>4. t - r = n - m
  <2> HIDE DEF z, r, t
  <2> QED BY <1>1, <1>2, <1>3
<1>5. QED BY <1>4

LEMMA NextLap ==
  ASSUME NEW m \in Nat, NEW n \in Nat, m <= n, n - m <= BufSz, Lap(m) # Lap(n), n % BufSz = 0
  PROVE  BufSz - (m % BufSz) = n - m
<1> DEFINE q == Lap(m)  p == Lap(n)  r == m % BufSz
<1>1. /\ q \in Nat /\ p \in Nat /\ r \in 0..(BufSz - 1)
      /\ m = BufSz * q + r /\ n = BufSz * p
  <2>1. n = BufSz * p + 0 /\ p \in Nat
    BY DivMod, Sizes
  <2>2. QED BY <2>1, DivMod, ModRange, Sizes
<1>2. q # p
  OBVIOUS
<1> HIDE DEF q, p, r
<1>3. BufSz * (p - q) = n - m + r
  BY <1>1, Sizes
<1>4. ~(p - q <= -1)
  BY <1>1, <1>3, Sizes
<1>5. ~(p - q >= 2)
  BY <1>1, <1>3, Sizes
<1>6. p - q = 1
  BY <1>1, <1>2, <1>4, <1>5
<1>7. BufSz = n - m + r
  BY <1>3, <1>6, Sizes
<1>8. BufSz - r = n - m
  BY <1>1, <1>7, Sizes
<1>9. QED BY <1>8 DEF r

LEMMA LapGrows ==
  ASSUME NEW m \in Nat, NEW n \in Nat, m <= n
  PROVE  Lap(m) <= Lap(n)
<1> DEFINE q == Lap(m)  p == Lap(n)  r == m % BufSz  t == n % BufSz
<1>1. /\ q \in Nat /\ p \in Nat /\ r \in 0..(BufSz - 1) /\ t \in 0..(BufSz - 1)
      /\ m = BufSz * q + r /\ n = BufSz * p + t
  BY DivMod, ModRange
<1> HIDE DEF q, p, r, t
<1>2. BufSz * (p - q) = (n - m) + (r - t)
  BY <1>1, Sizes
<1>3. ~(p - q <= -1)
  BY <1>1, <1>2, Sizes
<1>4. q <= p
  BY <1>1, <1>3
<1>5. QED BY <1>4 DEF q, p

\* Adding to an index and taking it back into the ring.
LEMMA RingOf ==
  ASSUME NEW n \in Nat, n < 2 * BufSz
  PROVE  /\ InRing(n) = IF n >= BufSz THEN n - BufSz ELSE n
         /\ InRing(n) \in 0..(BufSz - 1)
<1>1. CASE n >= BufSz
  <2>1. n - BufSz \in 0..(BufSz - 1)
    BY <1>1, Sizes
  <2>2. n = BufSz * 1 + (n - BufSz)
    BY Sizes
  <2>3. n % BufSz = n - BufSz
    BY <2>1, <2>2, ModOf
  <2>4. QED BY <1>1, <2>1, <2>3 DEF InRing
<1>2. CASE n < BufSz
  BY <1>2, Sizes DEF InRing
<1>3. QED BY <1>1, <1>2, Sizes

LEMMA RingType ==
  ASSUME NEW n \in Nat
  PROVE  InRing(n) \in 0..(BufSz - 1)
  BY ModRange, Sizes, SMTT(30) DEF InRing

LEMMA ModStep ==
  ASSUME NEW n \in Nat, NEW l \in 0..BufSz
  PROVE  /\ (n + l) % BufSz = InRing((n % BufSz) + l)
         /\ Lap(n + l) = IF (n % BufSz) + l >= BufSz THEN Lap(n) + 1 ELSE Lap(n)
<1> DEFINE q == Lap(n)  r == n % BufSz  m == r + l
<1>1. q \in Nat /\ r \in 0..(BufSz - 1) /\ n = BufSz * q + r
  BY DivMod, ModRange
<1> HIDE DEF q, r
<1>2. m \in Nat /\ m < 2 * BufSz /\ n + l = BufSz * q + m
  BY <1>1, Sizes
<1> HIDE DEF m
<1>3. InRing(m) = IF m >= BufSz THEN m - BufSz ELSE m
  BY <1>2, RingOf
<1>4. (n + l) % BufSz = InRing(m) /\ Lap(n + l) = IF m >= BufSz THEN q + 1 ELSE q
  <2>1. CASE m >= BufSz
    <3>1. n + l = BufSz * (q + 1) + (m - BufSz)
      BY <1>1, <1>2, Sizes
    <3>2. m - BufSz \in 0..(BufSz - 1) /\ q + 1 \in Nat
      BY <1>1, <1>2, <2>1, Sizes
    <3>3. Lap(n + l) = q + 1 /\ (n + l) % BufSz = m - BufSz
      BY <3>1, <3>2, ModOf
    <3>4. QED BY <1>3, <2>1, <3>3
  <2>2. CASE ~(m >= BufSz)
    <3>1. m \in 0..(BufSz - 1)
      BY <1>2, <2>2, Sizes
    <3>2. Lap(n + l) = q /\ (n + l) % BufSz = m
      BY <1>1, <1>2, <3>1, ModOf
    <3>3. QED BY <1>3, <2>2, <3>2
  <2>3. QED BY <2>1, <2>2
<1>5. QED BY <1>4 DEF q, r, m

\* A byte not overwritten yet is where its number says.
LEMMA ByteInRing ==
  ASSUME wrote \in Nat, NEW x \in 1..wrote, wrote - x < BufSz
  PROVE  RingAt((x - 1) % BufSz) = x
<1> DEFINE q == Lap(x - 1)  r == (x - 1) % BufSz
<1>1. x - 1 \in Nat
  OBVIOUS
<1>2. q \in Nat /\ r \in 0..(BufSz - 1) /\ x - 1 = BufSz * q + r
  BY <1>1, DivMod, ModRange
<1> HIDE DEF q, r
<1>3. wrote - r - 1 = BufSz * q + (wrote - x) /\ wrote - x \in 0..(BufSz - 1)
  BY <1>2, Sizes
<1>4. Lap(wrote - r - 1) = q
  BY <1>2, <1>3, ModOf
<1>5. BufSz * q >= 0 /\ BufSz * q = q * BufSz
  BY <1>2, Sizes
<1>6. r < wrote
  BY <1>2, <1>5, Sizes
<1>7. RingAt(r) = q * BufSz + r + 1
  BY <1>4, <1>6 DEF RingAt, Lap
<1>8. RingAt(r) = x
  BY <1>2, <1>5, <1>7, Sizes
<1>9. QED BY <1>8 DEF r
-----------------------------------------------------------------------------
(* The fifo.                                                               *)

LEMMA CalcRange ==
  ASSUME NEW f \in Fifos
  PROVE  _serial_fifo_calc_recved_len(f) \in 0..BufSz
  BY Sizes DEF Fifos, _serial_fifo_calc_recved_len

LEMMA CalcHolds ==
  ASSUME NEW f, NEW d, Holds(f, d)
  PROVE  _serial_fifo_calc_recved_len(f) = d
<1>1. /\ f.put \in 0..(BufSz - 1) /\ f.get \in 0..(BufSz - 1) /\ d \in 0..BufSz
      /\ f.put = f.get + d \/ f.put = f.get + d - BufSz
  BY DEF Holds, Fifos
<1>2. CASE f.put = f.get
  <2>1. CASE d = BufSz
    BY <1>2, <2>1 DEF Holds, _serial_fifo_calc_recved_len
  <2>2. CASE d # BufSz
    <3>1. d = 0 /\ ~f.full
      BY <1>1, <1>2, <2>2, Sizes DEF Holds
    <3>2. QED BY <1>2, <3>1 DEF _serial_fifo_calc_recved_len
  <2>3. QED BY <2>1, <2>2
<1>3. CASE f.put # f.get
  BY <1>1, <1>3, Sizes DEF _serial_fifo_calc_recved_len
<1>4. QED BY <1>2, <1>3

\* put_index and get_index stay in the ring whatever length is reported.
LEMMA PutType ==
  ASSUME NEW f \in Fifos, NEW length \in Int
  PROVE  rt_dma_recv_update_put_index(f, length) \in Fifos
<1> DEFINE sum == (f.put + length) % IndexRange
<1>1. f.put + length \in Int
  BY Sizes DEF Fifos
<1>2. sum \in Nat
  BY <1>1, ModRange
<1>3. InRing(sum) \in 0..(BufSz - 1)
  BY <1>2, RingType
<1> HIDE DEF sum
<1>4. QED
  BY <1>3 DEF Fifos, rt_dma_recv_update_put_index, sum

\* A transfer that fits is added, and get_index does not move.
LEMMA PutHolds ==
  ASSUME NEW f, NEW d, Holds(f, d), NEW length \in Nat, length >= 1, d + length <= BufSz
  PROVE  /\ Holds(rt_dma_recv_update_put_index(f, length), d + length)
         /\ rt_dma_recv_update_put_index(f, length).get = f.get
<1> DEFINE g == rt_dma_recv_update_put_index(f, length)
           sum == f.put + length
<1>1. /\ f.put \in 0..(BufSz - 1) /\ f.get \in 0..(BufSz - 1) /\ d \in 0..BufSz /\ ~f.full
      /\ f.put = f.get + d \/ f.put = f.get + d - BufSz
  BY Sizes DEF Holds, Fifos
<1>2. sum \in Nat /\ sum < 2 * BufSz /\ sum < IndexRange
  BY <1>1, Sizes
<1>3. sum % IndexRange = sum
  BY <1>2, SmallMod
<1> DEFINE put == InRing(sum)
           full == (f.get <= f.put /\ sum >= BufSz /\ put >= f.get) \/ (f.get > f.put /\ sum >= f.get)
<1>4. g = [put |-> put, get |-> IF full THEN put ELSE f.get, full |-> full]
  BY <1>1, <1>3 DEF rt_dma_recv_update_put_index
<1>5. put = (IF sum >= BufSz THEN sum - BufSz ELSE sum) /\ put \in 0..(BufSz - 1)
  <2> HIDE DEF sum
  <2> QED BY <1>2, RingOf
<1> HIDE DEF put
<1>6. full <=> d + length = BufSz
  BY <1>1, <1>5, Sizes
<1>7. full => put = f.get
  BY <1>1, <1>5, <1>6, Sizes
<1>8. put = f.get + (d + length) \/ put = f.get + (d + length) - BufSz
  BY <1>1, <1>5, Sizes
<1>9. g.put = put /\ g.get = f.get /\ (g.full <=> full) /\ g \in Fifos
  <2> HIDE DEF full
  <2>1. g.put = put /\ g.get = f.get /\ g.full = full
    BY <1>4, <1>7
  <2>2. full \in BOOLEAN
    BY DEF full
  <2>3. QED BY <1>1, <1>4, <1>5, <1>7, <2>1, <2>2 DEF Fifos
<1>10. QED
  <2> HIDE DEF full, g
  <2> QED BY <1>1, <1>6, <1>8, <1>9, Sizes DEF Holds, g

LEMMA GetHolds ==
  ASSUME NEW f, NEW d, Holds(f, d), NEW len \in 0..d
  PROVE  /\ Holds(rt_dma_recv_update_get_index(f, len), d - len)
         /\ rt_dma_recv_update_get_index(f, len).get = InRing(f.get + len)
<1> DEFINE g == rt_dma_recv_update_get_index(f, len)
           sum == f.get + len
<1>1. /\ f.put \in 0..(BufSz - 1) /\ f.get \in 0..(BufSz - 1) /\ d \in 0..BufSz
      /\ f.full \in BOOLEAN /\ (f.full <=> d = BufSz)
      /\ f.put = f.get + d \/ f.put = f.get + d - BufSz
  BY Sizes DEF Holds, Fifos
<1>2. sum \in Nat /\ sum < 2 * BufSz
  BY <1>1, Sizes
<1>3. InRing(sum) = (IF sum >= BufSz THEN sum - BufSz ELSE sum) /\ InRing(sum) \in 0..(BufSz - 1)
  <2> HIDE DEF sum
  <2> QED BY <1>2, RingOf
<1>4. g = [put |-> f.put, get |-> InRing(sum), full |-> (f.full /\ len = 0)]
  BY DEF rt_dma_recv_update_get_index
<1>5. g.put = f.put /\ g.get = InRing(sum) /\ (g.full <=> (f.full /\ len = 0)) /\ g \in Fifos
  <2> DEFINE b == f.full /\ len = 0
  <2>1. b \in BOOLEAN
    OBVIOUS
  <2> HIDE DEF b
  <2>2. g = [put |-> f.put, get |-> InRing(sum), full |-> b]
    BY <1>4 DEF b
  <2>3. g.put = f.put /\ g.get = InRing(sum) /\ g.full = b
    BY <2>2
  <2>4. g \in Fifos
    <3> HIDE DEF g, sum
    <3> QED BY <1>1, <1>3, <2>1, <2>2 DEF Fifos
  <2>5. QED BY <2>3, <2>4 DEF b
<1>6. f.put = InRing(sum) + (d - len) \/ f.put = InRing(sum) + (d - len) - BufSz
  BY <1>1, <1>3, Sizes
<1>7. (f.full /\ len = 0) <=> d - len = BufSz
  BY <1>1, Sizes
<1>8. QED
  <2> HIDE DEF g, sum
  <2>1. g.get = InRing(sum)
    BY <1>5
  <2>2. Holds(g, d - len)
    BY <1>1, <1>5, <1>6, <1>7, Sizes DEF Holds
  <2>3. QED BY <2>1, <2>2 DEF g, sum
-----------------------------------------------------------------------------
(* The steps.                                                              *)

LEMMA InitInv == Init => Inv
<1> SUFFICES ASSUME Init PROVE Inv
  OBVIOUS
<1>1. Typed
  BY Sizes, EmptySeq DEF Init, Typed, Idle, Handlers, Fifos, Places
<1>2. Conserved
  BY Sizes, EmptySeq DEF Init, Conserved, Held, Idle
<1>3. Taken = 0 /\ Len(consumed) = 0 /\ 0 % BufSz = 0 /\ TotalIndex = 0
  <2>1. 0 = BufSz * 0 + 0
    BY Sizes
  <2>2. 0 % BufSz = 0
    BY <2>1, ModOf, Sizes
  <2>3. QED BY <2>2, EmptySeq DEF Init, Taken, Pending, Idle, TotalIndex
<1>4. Exact
  BY <1>3, Sizes DEF Init, Exact, Idle, Handlers, Holds, Fifos
<1>5. QED BY <1>1, <1>2, <1>4 DEF Inv

\* A step that leaves the bytes and the counts alone.
LEMMA ExactFrame ==
  ASSUME Inv, UNCHANGED <<wrote, last_index, fifo, consumed, counted, overrun, late>>,
         irq' \cap {"HT", "TC"} = irq \cap {"HT", "TC"},
         \A i \in Handlers : /\ Pending(i)' = Pending(i)
                             /\ isr'[i].pc = "counted" => isr'[i].length = isr[i].length /\ isr[i].pc = "counted"
  PROVE  Clean' => Exact'
<1>1. Clean' => Clean
  BY DEF Clean
<1>2. Taken' = Taken
  BY DEF Taken, Handlers
<1>3. ("TC" \in irq' <=> "TC" \in irq) /\ ("HT" \in irq' <=> "HT" \in irq)
  OBVIOUS
<1>4. TotalIndex' = TotalIndex
  BY DEF TotalIndex
<1> SUFFICES ASSUME Exact PROVE Exact'
  BY <1>1 DEF Inv
<1>5. QED BY <1>2, <1>3, <1>4 DEF Exact, Handlers, Holds, Fifos

LEMMA LineIdleInv == Inv /\ LineIdle => Inv'
<1> SUFFICES ASSUME Inv, LineIdle PROVE Inv'
  OBVIOUS
<1>0. UNCHANGED <<wrote, last_index, fifo, isr, mq, free, thread, msg, consumed, counted, overrun, late>>
      /\ irq' = irq \cup {"IDLE"}
  BY DEF LineIdle, queueVars, threadVars, history
<1>1. Typed'
  BY <1>0 DEF Inv, Typed
<1>2. Conserved'
  BY <1>0 DEF Inv, Conserved
<1>3. Clean' => Exact'
  BY <1>0, ExactFrame DEF Pending
<1>4. QED BY <1>1, <1>2, <1>3 DEF Inv

LEMMA StartInv == Inv /\ (Attach \/ StartThread) => Inv'
<1> SUFFICES ASSUME Inv, Attach \/ StartThread PROVE Inv'
  OBVIOUS
<1>0. UNCHANGED <<wrote, irq, last_index, fifo, isr, mq, free, thread, msg, consumed, counted, overrun, late>>
  BY DEF Attach, StartThread, hardware, queueVars, threadVars, history
<1>1. Typed'
  BY <1>0 DEF Inv, Typed
<1>2. Conserved'
  BY <1>0 DEF Inv, Conserved
<1>3. Clean' => Exact'
  BY <1>0, ExactFrame DEF Pending
<1>4. QED BY <1>1, <1>2, <1>3 DEF Inv

LEMMA UartEnterInv == Inv /\ UartEnter => Inv'
<1> SUFFICES ASSUME Inv, UartEnter PROVE Inv'
  OBVIOUS
<1>0. UNCHANGED <<wrote, irq, last_index, fifo, mq, free, thread, msg, consumed, counted, overrun, late>>
  BY DEF UartEnter, hardware, queueVars, threadVars, history
<1>1. isr \in [Handlers -> [pc : Places, length : Int, upto : Int]]
  BY DEF Inv, Typed
<1>2. /\ isr' \in [Handlers -> [pc : Places, length : Int, upto : Int]]
      /\ isr'["dma"] = isr["dma"] /\ isr'["uart"].pc = "masked" /\ isr["uart"].pc = "off"
  BY <1>1 DEF UartEnter, Moved, Handlers, Places
<1>3. Typed'
  BY <1>0, <1>2 DEF Inv, Typed, Handlers
<1>4. Conserved'
  BY <1>0, <1>2 DEF Inv, Conserved, Held
<1>5. Clean' => Exact'
  BY <1>0, <1>2, ExactFrame DEF Pending, Handlers
<1>6. QED BY <1>3, <1>4, <1>5 DEF Inv

LEMMA SendAllocInv == \A i \in Handlers : Inv /\ SendAlloc(i) => Inv'
<1> SUFFICES ASSUME NEW i \in Handlers, Inv, SendAlloc(i) PROVE Inv'
  OBVIOUS
<1>0. UNCHANGED <<wrote, irq, last_index, fifo, mq, thread, msg, consumed, counted, overrun, late>>
  BY DEF SendAlloc, hardware, threadVars
<1>1. isr \in [Handlers -> [pc : Places, length : Int, upto : Int]] /\ isr[i].pc = "entered"
      /\ isr[i].length \in 0..BufSz
  BY DEF Inv, Typed, SendAlloc
<1>2. /\ isr' \in [Handlers -> [pc : Places, length : Int, upto : Int]]
      /\ isr'[i].pc \in {"alloc", "done"} /\ isr'[i].length = isr[i].length
      /\ \A j \in Handlers : j # i => isr'[j] = isr[j]
  BY <1>1 DEF SendAlloc, Moved, Places
<1>3. \/ free > 0 /\ free' = free - 1 /\ isr'[i].pc = "alloc"
      \/ free' = free /\ isr'[i].pc = "done"
  BY <1>1 DEF SendAlloc, Moved
<1>4. /\ free \in Nat /\ free' \in Nat /\ Held(isr'[i].pc, "alloc") \in Nat
      /\ free = free' + Held(isr'[i].pc, "alloc")
  <2>1. free \in Nat
    BY DEF Inv, Typed
  <2>2. QED BY <1>3, <2>1 DEF Held
<1>5. Typed'
  <2>1. \A j \in Handlers : isr'[j].pc \in {"entered", "alloc"} => isr'[j].length \in 0..BufSz
    <3> TAKE j \in Handlers
    <3>1. CASE j = i
      BY <1>1, <1>2, <3>1
    <3>2. CASE j # i
      BY <1>2, <3>2 DEF Inv, Typed
    <3>3. QED BY <3>1, <3>2
  <2>2. QED BY <1>0, <1>2, <1>4, <2>1 DEF Inv, Typed
<1>6. Conserved'
  <2>1. /\ MaxMsgs = free + Len(mq) + Held(thread, "free")
                    + Held(isr["dma"].pc, "alloc") + Held(isr["uart"].pc, "alloc")
        /\ Len(mq) \in Nat
    BY DEF Inv, Typed, Conserved
  <2>2. ASSUME NEW j \in Handlers, NEW k \in Handlers, j = i, k # i
        PROVE  /\ free + Held(isr[j].pc, "alloc") = free' + Held(isr'[j].pc, "alloc")
               /\ Held(isr[k].pc, "alloc") = Held(isr'[k].pc, "alloc")
    BY <1>1, <1>2, <1>3, <1>4, <2>2 DEF Held
  <2>3. /\ free + Held(isr["dma"].pc, "alloc") + Held(isr["uart"].pc, "alloc")
             = free' + Held(isr'["dma"].pc, "alloc") + Held(isr'["uart"].pc, "alloc")
        /\ \A x, y : Held(x, y) \in Nat
    <3>1. \A x, y : Held(x, y) \in Nat
      BY DEF Held
    <3>2. CASE i = "dma"
      BY <1>4, <2>2, <3>1, <3>2 DEF Handlers
    <3>3. CASE i = "uart"
      BY <1>4, <2>2, <3>1, <3>3 DEF Handlers
    <3>4. QED BY <3>1, <3>2, <3>3 DEF Handlers
  <2>4. MaxMsgs = free' + Len(mq) + Held(thread, "free")
                  + Held(isr'["dma"].pc, "alloc") + Held(isr'["uart"].pc, "alloc")
    <3> DEFINE t == Held(thread, "free")  n == Len(mq)
               d == Held(isr["dma"].pc, "alloc")  u == Held(isr["uart"].pc, "alloc")
               dn == Held(isr'["dma"].pc, "alloc")  un == Held(isr'["uart"].pc, "alloc")
    <3>1. t \in Nat /\ n \in Nat /\ d \in Nat /\ u \in Nat /\ dn \in Nat /\ un \in Nat
      BY <2>1, <2>3
    <3>2. MaxMsgs = free + n + t + d + u /\ free + d + u = free' + dn + un
      BY <2>1, <2>3
    <3> HIDE DEF t, n, d, u, dn, un
    <3>3. MaxMsgs = free' + n + t + dn + un
      BY <1>4, <3>1, <3>2
    <3>4. QED BY <3>3 DEF t, n, d, u, dn, un
  <2>5. QED BY <1>0, <2>4 DEF Conserved, Held
<1>7. Clean' => Exact'
  BY <1>0, <1>1, <1>2, ExactFrame DEF Pending
<1>8. QED BY <1>5, <1>6, <1>7 DEF Inv

LEMMA SendLinkInv == \A i \in Handlers : Inv /\ SendLink(i) => Inv'
<1> SUFFICES ASSUME NEW i \in Handlers, Inv, SendLink(i) PROVE Inv'
  OBVIOUS
<1>0. UNCHANGED <<wrote, irq, last_index, fifo, free, thread, msg, consumed, counted, overrun, late>>
  BY DEF SendLink, hardware, threadVars, history
<1>1. isr \in [Handlers -> [pc : Places, length : Int, upto : Int]] /\ isr[i].pc = "alloc"
      /\ isr[i].length \in 0..BufSz
  BY DEF Inv, Typed, SendLink
<1>2. /\ isr' \in [Handlers -> [pc : Places, length : Int, upto : Int]]
      /\ isr'[i].pc = "done"
      /\ \A j \in Handlers : j # i => isr'[j] = isr[j]
  BY <1>1 DEF SendLink, Moved, Places
<1>3. mq' \in Seq(0..BufSz) /\ Len(mq') = Len(mq) + 1 /\ Len(mq) \in Nat /\ free \in Nat
  BY <1>1 DEF Inv, Typed, SendLink
<1>5. Typed'
  BY <1>0, <1>1, <1>2, <1>3 DEF Inv, Typed
<1>6. Conserved'
  <2>1. Conserved
    BY DEF Inv
  <2>2. CASE i = "dma"
    BY <1>0, <1>1, <1>2, <1>3, <2>1, <2>2, SMTT(30) DEF Conserved, Held, Handlers
  <2>3. CASE i = "uart"
    BY <1>0, <1>1, <1>2, <1>3, <2>1, <2>3, SMTT(30) DEF Conserved, Held, Handlers
  <2>4. QED BY <2>2, <2>3 DEF Handlers
<1>7. Clean' => Exact'
  BY <1>0, <1>1, <1>2, ExactFrame DEF Pending
<1>8. QED BY <1>5, <1>6, <1>7 DEF Inv

LEMMA DoneInv == \A i \in Handlers : Inv /\ Done(i) => Inv'
<1> SUFFICES ASSUME NEW i \in Handlers, Inv, Done(i) PROVE Inv'
  OBVIOUS
<1>0. UNCHANGED <<wrote, last_index, fifo, mq, free, thread, msg, consumed, counted, overrun, late>>
      /\ (irq' = irq \/ irq' = irq \ {"IDLE"})
  BY DEF Done, FlagsAfter, queueVars, threadVars
<1>1. isr \in [Handlers -> [pc : Places, length : Int, upto : Int]] /\ isr[i].pc = "done"
  BY DEF Inv, Typed, Done
<1>2. /\ isr' \in [Handlers -> [pc : Places, length : Int, upto : Int]]
      /\ isr'[i].pc = "off"
      /\ \A j \in Handlers : j # i => isr'[j] = isr[j]
  BY <1>1 DEF Done, Idle, Places
<1>3. irq' \cap {"HT", "TC"} = irq \cap {"HT", "TC"}
  BY <1>0
<1>5. Typed'
  BY <1>0, <1>1, <1>2 DEF Inv, Typed
<1>6. Conserved'
  <2>1. Conserved
    BY DEF Inv
  <2>2. CASE i = "dma"
    BY <1>0, <1>1, <1>2, <2>1, <2>2 DEF Conserved, Held, Handlers
  <2>3. CASE i = "uart"
    BY <1>0, <1>1, <1>2, <2>1, <2>3 DEF Conserved, Held, Handlers
  <2>4. QED BY <2>2, <2>3 DEF Handlers
<1>7. Clean' => Exact'
  BY <1>0, <1>1, <1>2, <1>3, ExactFrame DEF Pending
<1>8. QED BY <1>5, <1>6, <1>7 DEF Inv

LEMMA MqInv == Inv /\ (MqRecv \/ MqFree) => Inv'
<1> SUFFICES ASSUME Inv, MqRecv \/ MqFree PROVE Inv'
  OBVIOUS
<1>0. UNCHANGED <<wrote, irq, last_index, fifo, isr, consumed, counted, overrun, late>>
  BY DEF MqRecv, MqFree, hardware, history
<1>1. mq \in Seq(0..BufSz) /\ free \in Nat /\ msg \in 0..BufSz /\ Len(mq) \in Nat
  BY DEF Inv, Typed
<1>2. CASE MqRecv
  <2>1. /\ mq' \in Seq(0..BufSz) /\ Len(mq') = Len(mq) - 1 /\ msg' \in 0..BufSz
        /\ free' = free /\ thread = "recv" /\ thread' = "free"
    <3>1. mq # <<>> /\ mq' = Tail(mq) /\ msg' = Head(mq)
      BY <1>2 DEF MqRecv
    <3>2. Head(mq) \in 0..BufSz /\ Tail(mq) \in Seq(0..BufSz) /\ Len(Tail(mq)) = Len(mq) - 1
      BY <1>1, <3>1, HeadTailProperties
    <3>3. QED BY <1>2, <3>1, <3>2 DEF MqRecv
  <2>2. Typed'
    BY <1>0, <1>1, <2>1 DEF Inv, Typed
  <2>3. Conserved'
    BY <1>0, <1>1, <2>1 DEF Inv, Conserved, Held
  <2>4. QED BY <1>0, <2>2, <2>3, ExactFrame DEF Inv, Pending
<1>3. CASE MqFree
  <2>1. free' = free + 1 /\ mq' = mq /\ msg' = msg /\ thread = "free" /\ thread' = "read"
    BY <1>3 DEF MqFree
  <2>2. Typed'
    BY <1>0, <1>1, <2>1 DEF Inv, Typed
  <2>3. Conserved'
    BY <1>0, <1>1, <2>1 DEF Inv, Conserved, Held
  <2>4. QED BY <1>0, <2>2, <2>3, ExactFrame DEF Inv, Pending
<1>4. QED BY <1>2, <1>3

\* The numbers of an exact state.
LEMMA Numbers ==
  ASSUME Typed, Exact
  PROVE  /\ \A i \in Handlers : Pending(i) \in Nat
         /\ counted \in Nat /\ Taken \in Nat /\ counted <= Taken /\ Len(consumed) \in Nat
         /\ Taken = counted + Pending("dma") + Pending("uart")
<1>1. \A i \in Handlers : Pending(i) \in Nat
  BY DEF Typed, Exact, Pending, Handlers
<1>2. Len(consumed) \in Nat /\ counted \in Nat
  BY DEF Typed, Exact
<1>3. Taken = counted + Pending("dma") + Pending("uart")
  BY DEF Taken
<1>4. Pending("dma") \in Nat /\ Pending("uart") \in Nat
  BY <1>1 DEF Handlers
<1> HIDE DEF Pending
<1>5. QED BY <1>1, <1>2, <1>3, <1>4

LEMMA Tick ==
  ASSUME NEW n \in Nat
  PROVE  \/ (n + 1) % BufSz = 0 /\ Lap(n + 1) = Lap(n) + 1
         \/ (n + 1) % BufSz # 0 /\ Lap(n + 1) = Lap(n)
<1> DEFINE q == Lap(n)  r == n % BufSz
<1>1. q \in Nat /\ r \in 0..(BufSz - 1) /\ n = BufSz * q + r
  BY DivMod, ModRange
<1> HIDE DEF q, r
<1>2. CASE r + 1 = BufSz
  <2>1. n + 1 = BufSz * (q + 1) + 0 /\ q + 1 \in Nat /\ 0 \in 0..(BufSz - 1)
    BY <1>1, <1>2, Sizes
  <2>2. Lap(n + 1) = q + 1 /\ (n + 1) % BufSz = 0
    BY <2>1, ModOf
  <2>3. QED BY <2>2 DEF q
<1>3. CASE r + 1 # BufSz
  <2>1. n + 1 = BufSz * q + (r + 1) /\ r + 1 \in 0..(BufSz - 1) /\ r + 1 # 0
    BY <1>1, <1>3, Sizes
  <2>2. Lap(n + 1) = q /\ (n + 1) % BufSz = r + 1
    BY <1>1, <2>1, ModOf
  <2>3. QED BY <2>1, <2>2 DEF q
<1>4. QED BY <1>2, <1>3

LEMMA ByteArrivesInv == Inv /\ ByteArrives => Inv'
<1> SUFFICES ASSUME Inv, ByteArrives PROVE Inv'
  OBVIOUS
<1>0. /\ UNCHANGED <<last_index, fifo, isr, mq, free, thread, msg, consumed, counted, late>>
      /\ wrote \in Nat /\ wrote' = wrote + 1 /\ irq' = irq \cup Raised(wrote + 1)
  BY DEF ByteArrives, queueVars, threadVars, Inv, Typed
<1>1. /\ Raised(wrote + 1) \subseteq {"HT", "TC"}
      /\ "TC" \in Raised(wrote + 1) <=> (wrote + 1) % BufSz = 0
  BY DEF Raised
<1>2. Typed'
  <2>1. irq' \subseteq {"HT", "TC", "IDLE"}
    BY <1>0, <1>1 DEF Inv, Typed
  <2>2. QED BY <1>0, <2>1 DEF Inv, Typed
<1>3. Conserved'
  BY <1>0 DEF Inv, Conserved, Held
<1>4. Clean' => Clean /\ ~(wrote - Len(consumed) >= BufSz)
  <2>1. overrun' = (overrun \/ wrote - Len(consumed) >= BufSz) /\ late' = late
    BY DEF ByteArrives
  <2>2. QED BY <2>1, Zenon DEF Clean
<1>5. ASSUME Clean' PROVE Exact'
  <2>1. Exact /\ Typed /\ ~(wrote - Len(consumed) >= BufSz)
    BY <1>4, <1>5 DEF Inv
  <2>2. Taken \in Nat /\ Taken <= wrote /\ Len(consumed) \in Nat
    BY <2>1, Numbers DEF Exact
  <2>3. Taken' = Taken /\ TotalIndex' = (wrote + 1) % BufSz
    BY <1>0 DEF Taken, Pending, TotalIndex
  <2>4. wrote' - Len(consumed) <= BufSz /\ Taken <= wrote'
    BY <1>0, <2>1, <2>2, Sizes
  <2>5. "TC" \in irq' <=> Lap(wrote') # Lap(Taken)
    <3>1. "TC" \in irq <=> Lap(wrote) # Lap(Taken)
      BY <2>1 DEF Exact
    <3>2. Lap(Taken) \in Nat /\ Lap(wrote) \in Nat /\ Lap(Taken) <= Lap(wrote)
      BY <1>0, <2>2, DivMod, LapGrows
    <3>3. CASE (wrote + 1) % BufSz = 0 /\ Lap(wrote + 1) = Lap(wrote) + 1
      BY <1>0, <1>1, <3>2, <3>3
    <3>4. CASE (wrote + 1) % BufSz # 0 /\ Lap(wrote + 1) = Lap(wrote)
      BY <1>0, <1>1, <3>1, <3>4
    <3>5. QED BY <1>0, <3>3, <3>4, Tick
  <2>6. ("HT" \in irq' /\ "TC" \notin irq') => TotalIndex' # 0
    BY <1>0, <1>1, <2>3
  <2>7. QED BY <1>0, <2>1, <2>3, <2>4, <2>5, <2>6 DEF Exact, Holds, Fifos
<1>6. QED BY <1>2, <1>3, <1>5 DEF Inv

\* A handler that counts: the messages are not its business, and when it counts
\* what the DMA has written since the last count, everything is counted.
LEMMA CountTyped ==
  ASSUME Inv, NEW i \in Handlers, isr[i].pc \in {"off", "masked"}, NEW length \in Int,
         Count(i, length), irq' \subseteq irq,
         UNCHANGED <<wrote, fifo, mq, free, thread, msg, consumed, counted>>
  PROVE  /\ Typed' /\ Conserved' /\ last_index' = TotalIndex
         /\ \A j \in Handlers : j # i => isr'[j] = isr[j]
         /\ isr'[i].length = length /\ isr'[i].pc = IF length # 0 THEN "counted" ELSE "done"
<1>1. isr \in [Handlers -> [pc : Places, length : Int, upto : Int]]
      /\ wrote \in Nat
  BY DEF Inv, Typed
<1>2. /\ isr' \in [Handlers -> [pc : Places, length : Int, upto : Int]]
      /\ \A j \in Handlers : j # i => isr'[j] = isr[j]
      /\ isr'[i].length = length /\ isr'[i].pc = IF length # 0 THEN "counted" ELSE "done"
  BY <1>1 DEF Count, AfterCount, Places
<1>3. last_index' = TotalIndex /\ last_index' \in 0..(BufSz - 1)
  BY <1>1, ModRange DEF Count, TotalIndex
<1>4. Typed'
  BY <1>2, <1>3 DEF Inv, Typed
<1>5. Conserved'
  <2>1. \A j \in Handlers : (isr'[j].pc = "alloc") <=> (isr[j].pc = "alloc")
    BY <1>2
  <2>2. QED BY <2>1 DEF Inv, Conserved, Held, Handlers
<1>6. QED BY <1>2, <1>3, <1>4, <1>5

LEMMA CountExact ==
  ASSUME Inv, Exact, NEW i \in Handlers, isr[i].pc \in {"off", "masked"},
         Count(i, wrote - Taken), irq' \subseteq irq, "TC" \notin irq', "HT" \in irq' => TotalIndex # 0,
         UNCHANGED <<wrote, fifo, mq, free, thread, msg, consumed, counted>>
  PROVE  Exact'
<1>1. /\ Taken \in Nat /\ wrote \in Nat /\ Taken <= wrote /\ counted \in Nat
      /\ Pending("dma") \in Nat /\ Pending("uart") \in Nat
      /\ Taken = counted + Pending("dma") + Pending("uart")
  BY Numbers DEF Exact, Inv, Typed, Handlers
<1>2. /\ last_index' = TotalIndex
      /\ \A j \in Handlers : j # i => isr'[j] = isr[j]
      /\ isr'[i].length = wrote - Taken /\ isr'[i].pc = IF wrote - Taken # 0 THEN "counted" ELSE "done"
  BY <1>1, CountTyped
<1>3. Pending(i) = 0 /\ Pending(i)' = wrote - Taken
  BY <1>1, <1>2 DEF Pending
<1>4. \A j \in Handlers : j # i => Pending(j)' = Pending(j)
  BY <1>2 DEF Pending
<1>5. Taken' = counted + Pending("dma")' + Pending("uart")'
  BY DEF Taken
<1>6. Taken' = wrote
  <2>1. CASE i = "dma"
    BY <1>1, <1>3, <1>4, <1>5, <2>1 DEF Handlers
  <2>2. CASE i = "uart"
    BY <1>1, <1>3, <1>4, <1>5, <2>2 DEF Handlers
  <2>3. QED BY <2>1, <2>2 DEF Handlers
<1>7. last_index' = Taken' % BufSz /\ Lap(wrote') = Lap(Taken') /\ TotalIndex' = TotalIndex
      /\ Taken' <= wrote'
  BY <1>1, <1>2, <1>6 DEF TotalIndex
<1>8. \A j \in Handlers : isr'[j].pc = "counted" => isr'[j].length >= 1
  <2> TAKE j \in Handlers
  <2>1. CASE j = i
    BY <1>1, <1>2, <2>1
  <2>2. CASE j # i
    BY <1>2, <2>2 DEF Exact
  <2>3. QED BY <2>1, <2>2
<1>9. QED BY <1>7, <1>8 DEF Exact, Holds, Fifos

LEMMA UartCountInv == Inv /\ UartCount => Inv'
<1> SUFFICES ASSUME Inv, UartCount PROVE Inv'
  OBVIOUS
<1>0. UNCHANGED <<wrote, irq, fifo, mq, free, thread, msg, consumed, counted>>
      /\ isr["uart"].pc = "masked" /\ Count("uart", TotalIndex - last_index) /\ "uart" \in Handlers
  BY DEF UartCount, hardware, queueVars, threadVars, Handlers
<1>1. wrote \in Nat /\ TotalIndex - last_index \in Int
  BY ModRange, SMTT(30) DEF Inv, Typed, TotalIndex
<1>2. Typed' /\ Conserved'
  BY <1>0, <1>1, CountTyped
<1>3. Clean' => Clean /\ ~ReadLate(irq)
  <2>1. late' = (late \/ ReadLate(irq)) /\ overrun' = overrun
    BY DEF UartCount
  <2>2. QED BY <2>1, Zenon DEF Clean
<1>4. ASSUME Clean' PROVE Exact'
  <2>1. Exact /\ Typed /\ ~ReadLate(irq)
    BY <1>3, <1>4 DEF Inv
  <2>2. Taken \in Nat
    BY <2>1, Numbers
  <2>3. "TC" \notin irq /\ Lap(wrote) = Lap(Taken)
    BY <2>1 DEF Exact, ReadLate, Lap
  <2>4. TotalIndex - last_index = wrote - Taken
    BY <1>1, <2>1, <2>2, <2>3, SameLap DEF Exact, TotalIndex
  <2>5. "HT" \in irq => TotalIndex # 0
    BY <2>1, <2>3 DEF Exact
  <2>6. QED BY <1>0, <2>1, <2>3, <2>4, <2>5, CountExact
<1>5. QED BY <1>2, <1>4 DEF Inv

LEMMA DmaCountInv == Inv /\ DmaCount => Inv'
<1> SUFFICES ASSUME Inv, DmaCount PROVE Inv'
  OBVIOUS
<1>0. /\ UNCHANGED <<wrote, fifo, mq, free, thread, msg, consumed, counted>>
      /\ isr["dma"].pc = "off" /\ Count("dma", DmaLength) /\ "dma" \in Handlers
      /\ \/ "HT" \in irq /\ irq' = irq \ {"HT"}
         \/ "HT" \notin irq /\ "TC" \in irq /\ irq' = irq \ {"TC"}
  BY DEF DmaCount, queueVars, threadVars, Handlers
<1>1. wrote \in Nat /\ DmaLength \in Int
  BY ModRange, Sizes DEF Inv, Typed, TotalIndex, DmaLength
<1>2. Typed' /\ Conserved'
  BY <1>0, <1>1, CountTyped
<1>3. Clean' => Clean /\ ~ReadLate(irq')
  <2>1. late' = (late \/ ReadLate(irq')) /\ overrun' = overrun
    BY DEF DmaCount
  <2>2. QED BY <2>1, Zenon DEF Clean
<1>4. ASSUME Clean' PROVE Exact'
  <2>1. Exact /\ Typed /\ ~ReadLate(irq')
    BY <1>3, <1>4 DEF Inv
  <2>2. /\ Taken \in Nat /\ counted \in Nat /\ Len(consumed) \in Nat
        /\ counted <= Taken /\ Taken <= wrote /\ Len(consumed) <= counted /\ wrote - Len(consumed) <= BufSz
    BY <2>1, Numbers DEF Exact
  <2>3. CASE "HT" \in irq /\ irq' = irq \ {"HT"}
    <3>1. "TC" \notin irq /\ Lap(wrote) = Lap(Taken)
      BY <2>1, <2>3 DEF Exact, ReadLate, Lap
    <3>2. TotalIndex # 0
      BY <2>1, <2>3, <3>1 DEF Exact
    <3>3. DmaLength = wrote - Taken
      BY <1>1, <2>1, <2>2, <3>1, <3>2, SameLap DEF Exact, TotalIndex, DmaLength
    <3>4. "TC" \notin irq' /\ "HT" \notin irq' /\ irq' \subseteq irq
      BY <2>3, <3>1
    <3>5. QED BY <1>0, <2>1, <3>3, <3>4, CountExact
  <2>4. CASE "HT" \notin irq /\ "TC" \in irq /\ irq' = irq \ {"TC"}
    <3>1. Lap(wrote) # Lap(Taken) /\ TotalIndex = 0
      BY <2>1, <2>4 DEF Exact, ReadLate, Lap
    <3>2. wrote - Taken <= BufSz
      BY <1>1, <2>2, Sizes
    <3>3. DmaLength = wrote - Taken
      BY <1>1, <2>1, <2>2, <3>1, <3>2, NextLap DEF Exact, TotalIndex, DmaLength
    <3>4. "TC" \notin irq' /\ "HT" \notin irq' /\ irq' \subseteq irq
      BY <2>4
    <3>5. QED BY <1>0, <2>1, <3>3, <3>4, CountExact
  <2>5. QED BY <1>0, <2>3, <2>4
<1>5. QED BY <1>2, <1>4 DEF Inv

LEMMA EnterInv == \A i \in Handlers : Inv /\ Enter(i) => Inv'
<1> SUFFICES ASSUME NEW i \in Handlers, Inv, Enter(i) PROVE Inv'
  OBVIOUS
<1>0. /\ UNCHANGED <<wrote, irq, last_index, mq, free, thread, msg, consumed, overrun, late>>
      /\ isr[i].pc = "counted"
      /\ fifo' = rt_dma_recv_update_put_index(fifo, isr[i].length)
      /\ counted' = counted + isr[i].length
  BY DEF Enter, hardware, queueVars, threadVars
<1>1. isr \in [Handlers -> [pc : Places, length : Int, upto : Int]] /\ fifo \in Fifos /\ counted \in Int
      /\ isr[i].length \in Int
  BY DEF Inv, Typed
<1>2. fifo' \in Fifos /\ counted' \in Int
  BY <1>0, <1>1, PutType
<1>3. Indicated(fifo, fifo') \in 0..BufSz
  BY <1>2, CalcRange DEF Indicated
<1>4. /\ isr' \in [Handlers -> [pc : Places, length : Int, upto : Int]]
      /\ \A j \in Handlers : j # i => isr'[j] = isr[j]
      /\ isr'[i].length \in 0..BufSz /\ isr'[i].pc \in {"done", "entered"}
  BY <1>1, <1>2, <1>3 DEF Enter, Places
<1>5. Typed'
  <2>1. \A j \in Handlers : isr'[j].pc \in {"entered", "alloc"} => isr'[j].length \in 0..BufSz
    <3> TAKE j \in Handlers
    <3>1. CASE j = i
      BY <1>4, <3>1
    <3>2. CASE j # i
      BY <1>4, <3>2 DEF Inv, Typed
    <3>3. QED BY <3>1, <3>2
  <2>2. QED BY <1>0, <1>2, <1>4, <2>1 DEF Inv, Typed
<1>6. Conserved'
  <2>1. \A j \in Handlers : (isr'[j].pc = "alloc") <=> (isr[j].pc = "alloc")
    BY <1>0, <1>4
  <2>2. QED BY <1>0, <2>1 DEF Inv, Conserved, Held, Handlers
<1>7. ASSUME Clean' PROVE Exact'
  <2>1. Exact /\ Typed
    BY <1>0, <1>7 DEF Inv, Clean
  <2>2. /\ Taken \in Nat /\ counted \in Nat /\ Len(consumed) \in Nat
        /\ Pending("dma") \in Nat /\ Pending("uart") \in Nat /\ wrote \in Nat
        /\ Taken = counted + Pending("dma") + Pending("uart")
        /\ Taken <= wrote /\ Len(consumed) <= counted /\ wrote - Len(consumed) <= BufSz
    BY <2>1, Numbers DEF Exact, Handlers, Typed
  <2> DEFINE l == isr[i].length  d == counted - Len(consumed)
  <2>3. l \in Nat /\ l >= 1 /\ Pending(i) = l /\ Pending(i)' = 0
    <3>1. l \in Nat /\ l >= 1
      BY <1>0, <1>1, <2>1 DEF Exact
    <3>2. Pending(i)' = 0
      BY <1>4 DEF Pending
    <3>3. QED BY <1>0, <3>1, <3>2 DEF Pending
  <2>4. \A j \in Handlers : j # i => Pending(j)' = Pending(j)
    BY <1>4 DEF Pending
  <2>5. Taken' = counted' + Pending("dma")' + Pending("uart")'
    BY DEF Taken
  <2>6. counted' = counted + l
    BY <1>0
  <2> HIDE DEF l
  <2>7. Taken' = Taken /\ d + l <= BufSz /\ d + l = counted' - Len(consumed) /\ Len(consumed) <= counted'
    <3>1. CASE i = "dma"
      BY <2>2, <2>3, <2>4, <2>5, <2>6, <3>1, Sizes DEF Handlers
    <3>2. CASE i = "uart"
      BY <2>2, <2>3, <2>4, <2>5, <2>6, <3>2, Sizes DEF Handlers
    <3>3. QED BY <3>1, <3>2 DEF Handlers
  <2>8. Holds(fifo, d)
    BY <2>1 DEF Exact
  <2> HIDE DEF d
  <2>9. Holds(fifo', d + l) /\ fifo'.get = fifo.get
    BY <1>0, <2>3, <2>7, <2>8, PutHolds DEF l
  <2>10. Holds(fifo, counted - Len(consumed))'
    BY <1>0, <2>7, <2>9 DEF Holds, Fifos
  <2>11. \A j \in Handlers : isr'[j].pc = "counted" => isr'[j].length >= 1
    BY <1>4, <2>1 DEF Exact
  <2>12. TotalIndex' = TotalIndex
    BY <1>0 DEF TotalIndex
  <2>13. QED BY <1>0, <2>1, <2>7, <2>9, <2>10, <2>11, <2>12 DEF Exact
<1>8. QED BY <1>5, <1>6, <1>7 DEF Inv

LEMMA CopiedType ==
  ASSUME wrote \in Nat, NEW get \in 0..(BufSz - 1), NEW len \in 0..BufSz
  PROVE  /\ Copied(get, len) \in Seq(Int) /\ Len(Copied(get, len)) = len
         /\ \A k \in 1..len : Copied(get, len)[k] = RingAt(InRing(get + k - 1))
<1>1. \A k \in 1..len : RingAt(InRing(get + k - 1)) \in Int
  <2> TAKE k \in 1..len
  <2>1. get + k - 1 \in Nat
    BY Sizes
  <2> DEFINE pos == InRing(get + k - 1)
  <2>2. pos \in 0..(BufSz - 1)
    BY <2>1, RingType
  <2> HIDE DEF pos
  <2>3. (wrote - pos - 1) \div BufSz \in Int
    BY <2>2, Sizes
  <2>4. RingAt(pos) \in Int
    BY <2>2, <2>3, Sizes DEF RingAt
  <2>5. QED BY <2>4 DEF pos
<1>2. len \in Nat
  BY Sizes
<1> DEFINE c == [k \in 1..len |-> RingAt(InRing(get + k - 1))]
<1>3. c \in [1..len -> Int]
  BY <1>1
<1>4. c \in Seq(Int) /\ Len(c) = len
  <2> HIDE DEF c
  <2> QED BY <1>2, <1>3
<1>5. QED BY <1>4 DEF Copied

LEMMA DeviceReadInv == Inv /\ DeviceRead => Inv'
<1> SUFFICES ASSUME Inv, DeviceRead PROVE Inv'
  OBVIOUS
<1> DEFINE all == _serial_fifo_calc_recved_len(fifo)
           len == IF msg < all THEN msg ELSE all
           c == Copied(fifo.get, len)
           n == Len(consumed)
<1>0. /\ UNCHANGED <<wrote, irq, last_index, isr, mq, free, counted, overrun, late>>
      /\ consumed' = consumed \o c
      /\ fifo' = rt_dma_recv_update_get_index(fifo, len)
      /\ msg' = 0 /\ thread = "read" /\ thread' = "recv"
  BY DEF DeviceRead, hardware, queueVars, history
<1>1. /\ fifo \in Fifos /\ fifo.get \in 0..(BufSz - 1) /\ wrote \in Nat /\ msg \in 0..BufSz
      /\ consumed \in Seq(Int) /\ n \in Nat
  BY DEF Inv, Typed, Fifos
<1>2. all \in 0..BufSz
  BY <1>1, CalcRange
<1>3. len \in 0..BufSz /\ len <= all
  <2> HIDE DEF all
  <2> QED BY <1>1, <1>2, Sizes
<1> HIDE DEF all, len
<1>4. c \in Seq(Int) /\ Len(c) = len /\ \A k \in 1..len : c[k] = RingAt(InRing(fifo.get + k - 1))
  BY <1>1, <1>3, CopiedType
<1> HIDE DEF c
<1>5. /\ consumed' \in Seq(Int) /\ Len(consumed') = n + len
      /\ \A k \in 1..(n + len) : consumed'[k] = IF k <= n THEN consumed[k] ELSE c[k - n]
  BY <1>0, <1>1, <1>4, ConcatProperties
<1>6. fifo' \in Fifos
  <2>1. InRing(fifo.get + len) \in 0..(BufSz - 1)
    <3>1. fifo.get + len \in Nat
      BY <1>1, <1>3, Sizes
    <3>2. QED BY <3>1, RingType
  <2>2. fifo.full \in BOOLEAN /\ fifo.put \in 0..(BufSz - 1)
    BY <1>1 DEF Fifos
  <2> DEFINE b == fifo.full /\ len = 0
  <2>3. b \in BOOLEAN
    OBVIOUS
  <2>4. fifo' = [put |-> fifo.put, get |-> InRing(fifo.get + len), full |-> b]
    BY <1>0 DEF rt_dma_recv_update_get_index
  <2> HIDE DEF b
  <2>5. QED BY <2>1, <2>2, <2>3, <2>4 DEF Fifos
<1>7. Typed'
  BY <1>0, <1>5, <1>6, Sizes DEF Inv, Typed
<1>8. Conserved'
  BY <1>0 DEF Inv, Conserved, Held
<1>9. ASSUME Clean' PROVE Exact'
  <2>1. Exact /\ Typed
    BY <1>0, <1>9 DEF Inv, Clean
  <2>2. /\ Taken \in Nat /\ counted \in Nat /\ counted <= Taken
        /\ Taken <= wrote /\ n <= counted /\ wrote - n <= BufSz /\ fifo.get = n % BufSz
        /\ Holds(fifo, counted - n) /\ \A k \in 1..n : consumed[k] = k
    BY <2>1, Numbers DEF Exact
  <2>3. all = counted - n
    BY <2>2, CalcHolds DEF all
  <2>4. len \in 0..(counted - n)
    BY <1>1, <1>3, <2>2, <2>3, Sizes
  <2>5. Holds(fifo', (counted - n) - len) /\ fifo'.get = InRing(fifo.get + len)
    BY <1>0, <2>2, <2>4, GetHolds
  <2>6. fifo'.get = (n + len) % BufSz
    BY <1>1, <1>3, <2>2, <2>5, ModStep
  <2>7. ASSUME NEW k \in 1..len PROVE c[k] = n + k
    <3>1. k - 1 \in 0..BufSz /\ n + (k - 1) \in Nat
      BY <1>1, <1>3, Sizes
    <3>2. (n + (k - 1)) % BufSz = InRing((n % BufSz) + (k - 1))
      BY <1>1, <3>1, ModStep
    <3>3. fifo.get + k - 1 = (n % BufSz) + (k - 1)
      BY <1>1, <2>2
    <3>4. c[k] = RingAt((n + (k - 1)) % BufSz)
      BY <1>4, <3>2, <3>3
    <3> DEFINE x == n + k
    <3>5. x \in 1..wrote /\ wrote - x < BufSz /\ n + (k - 1) = x - 1
      BY <1>1, <1>3, <2>2, <2>4, Sizes
    <3> HIDE DEF x
    <3>6. RingAt((x - 1) % BufSz) = x
      BY <1>1, <3>5, ByteInRing
    <3>7. c[k] = x
      BY <3>4, <3>5, <3>6
    <3>8. QED BY <3>7 DEF x
  <2>8. \A k \in 1..Len(consumed') : consumed'[k] = k
    <3> SUFFICES ASSUME NEW k \in 1..(n + len) PROVE consumed'[k] = k
      BY <1>5
    <3>1. CASE k <= n
      BY <1>1, <1>5, <2>2, <3>1, SMTT(30)
    <3>2. CASE ~(k <= n)
      <4>1. k - n \in 1..len
        BY <1>1, <1>3, <3>2, Sizes
      <4>2. c[k - n] = n + (k - n)
        BY <2>7, <4>1
      <4>3. QED BY <1>1, <1>5, <3>2, <4>2
    <3>3. QED BY <3>1, <3>2
  <2>9. Taken' = Taken /\ TotalIndex' = TotalIndex
    BY <1>0 DEF Taken, Pending, TotalIndex
  <2>10. /\ Len(consumed') <= counted' /\ wrote' - Len(consumed') <= BufSz
         /\ (counted - n) - len = counted' - Len(consumed')
    BY <1>0, <1>1, <1>3, <1>5, <2>2, <2>4, Sizes
  <2>11. fifo'.get = Len(consumed') % BufSz /\ Holds(fifo', counted' - Len(consumed'))
    BY <1>5, <2>5, <2>6, <2>10
  <2>12. QED BY <1>0, <2>1, <2>8, <2>9, <2>10, <2>11 DEF Exact, Holds, Fifos
<1>10. QED BY <1>7, <1>8, <1>9 DEF Inv
-----------------------------------------------------------------------------
(* The theorems.                                                           *)

LEMMA NextInv == Inv /\ [Next]_vars => Inv'
<1> SUFFICES ASSUME Inv, [Next]_vars PROVE Inv'
  OBVIOUS
<1>1. CASE ByteArrives \/ LineIdle
  BY <1>1, ByteArrivesInv, LineIdleInv
<1>2. CASE Handler
  <2>1. CASE \E i \in Handlers : Enter(i) \/ SendAlloc(i) \/ SendLink(i) \/ Done(i)
    BY <2>1, EnterInv, SendAllocInv, SendLinkInv, DoneInv
  <2>2. QED BY <1>2, <2>1, UartEnterInv, UartCountInv, DmaCountInv DEF Handler, Handlers
<1>3. CASE Thread
  BY <1>3, StartInv, MqInv, DeviceReadInv DEF Thread
<1>4. CASE UNCHANGED vars
  <2>1. UNCHANGED <<wrote, irq, last_index, fifo, isr, mq, free, thread, msg, consumed, counted, overrun, late>>
    BY <1>4 DEF vars, hardware, queueVars, threadVars, history
  <2>2. Typed' /\ Conserved'
    BY <2>1 DEF Inv, Typed, Conserved
  <2>3. Clean' => Exact'
    BY <2>1, ExactFrame DEF Pending
  <2>4. QED BY <2>2, <2>3 DEF Inv
<1>5. QED BY <1>1, <1>2, <1>3, <1>4 DEF Next

LEMMA AlwaysInv == Spec => []Inv
<1>1. QED BY InitInv, NextInv, PTL DEF Spec

\* Whatever length is reported (the driver's subtraction may even be negative),
\* put_index and get_index stay in the ring, and no message of the queue is lost
\* or doubled by handlers that nest in rt_mq_send and interrupt rt_mq_recv.
THEOREM TypeCorrect == Spec => []TypeOK
<1>1. Inv => TypeOK
  <2> SUFFICES ASSUME Inv PROVE TypeOK
    OBVIOUS
  <2>1. MaxMsgs = free + Len(mq) + (IF thread = "free" THEN 1 ELSE 0)
                  + (IF isr.dma.pc = "alloc" THEN 1 ELSE 0) + (IF isr.uart.pc = "alloc" THEN 1 ELSE 0)
    BY DEF Inv, Conserved, Held
  <2>2. QED BY <2>1 DEF Inv, Typed, TypeOK, Fifos
<1>2. QED BY <1>1, AlwaysInv, PTL

\* What _serial_fifo_calc_recved_len finds in the indices is what was counted
\* and not read, a full ring and counts of several laps included, until the DMA
\* overwrites an unread byte or its counter is read too late.
THEOREM FifoHoldsUnread == Spec => []FifoExact
<1>1. Inv => FifoExact
  BY CalcHolds DEF Inv, Exact, FifoExact
<1>2. QED BY <1>1, AlwaysInv, PTL

\* Up to then nmea_parse is given the bytes of the line in order, none twice and
\* none left out.
THEOREM BytesInOrder == Spec => []InOrder
<1>1. Inv => InOrder
  BY DEF Inv, Exact, InOrder
<1>2. QED BY <1>1, AlwaysInv, PTL
-----------------------------------------------------------------------------
(* Nothing is forgotten: at rest everything is counted, and what is counted *)
(* has been announced to the thread.                                       *)

\* A line that has gone quiet has been counted, or its idle flag was cleared by
\* a handler that had not seen it.
IdleSeen == (quiet /\ "IDLE" \notin irq) => (last_index = TotalIndex \/ idleLost = wrote)

LEMMA NextIdleSeen == Inv /\ IdleSeen /\ [Next]_vars => IdleSeen'
<1> SUFFICES ASSUME Inv, IdleSeen, [Next]_vars, quiet', "IDLE" \notin irq'
             PROVE  last_index' = TotalIndex' \/ idleLost' = wrote'
  BY DEF IdleSeen
<1>1. CASE ByteArrives
  BY <1>1 DEF ByteArrives
<1>2. CASE LineIdle
  BY <1>2 DEF LineIdle
<1>3. ASSUME UNCHANGED <<wrote, quiet, irq, last_index, idleLost>>
      PROVE  last_index' = TotalIndex' \/ idleLost' = wrote'
  BY <1>3 DEF IdleSeen, TotalIndex
<1>4. CASE UartCount \/ DmaCount
  <2>1. wrote' = wrote /\ last_index' = TotalIndex
    BY <1>4 DEF UartCount, DmaCount, Count, hardware
  <2>2. QED BY <2>1 DEF TotalIndex
<1>5. CASE UartEnter
  BY <1>3, <1>5 DEF UartEnter, hardware, history
<1>6. ASSUME NEW i \in Handlers, Enter(i) \/ SendAlloc(i) \/ SendLink(i)
      PROVE  last_index' = TotalIndex' \/ idleLost' = wrote'
  BY <1>3, <1>6 DEF Enter, SendAlloc, SendLink, hardware, history
<1>7. ASSUME NEW i \in Handlers, Done(i)
      PROVE  last_index' = TotalIndex' \/ idleLost' = wrote'
  <2>1. UNCHANGED <<wrote, quiet, last_index>>
    BY <1>7 DEF Done
  <2>2. CASE i = "uart"
    <3>1. idleLost' = IF quiet /\ last_index # TotalIndex THEN wrote ELSE idleLost
      BY <1>7, <2>2 DEF Done
    <3>2. QED BY <2>1, <3>1 DEF TotalIndex
  <2>3. CASE i # "uart"
    <3>1. irq' = irq /\ idleLost' = idleLost
      BY <1>7, <2>3 DEF Done, FlagsAfter
    <3>2. QED BY <1>3, <2>1, <3>1
  <2>4. QED BY <2>2, <2>3
<1>8. CASE Thread
  BY <1>3, <1>8 DEF Thread, Attach, StartThread, MqRecv, MqFree, DeviceRead, hardware, history
<1>9. CASE UNCHANGED vars
  BY <1>3, <1>9 DEF vars, hardware, history
<1>10. QED
  BY <1>1, <1>2, <1>4, <1>5, <1>6, <1>7, <1>8, <1>9 DEF Next, Handler, Handlers

\* Once the line and the handlers are at rest every byte the DMA wrote has been
\* counted, however the half, full and idle interrupts nested, unless the line
\* went idle again inside the handler for its last idle period.
THEOREM AllBytesCounted == Spec => []BytesCounted
<1>1. Init => IdleSeen
  <2>1. 0 = BufSz * 0 + 0
    BY Sizes
  <2>2. 0 % BufSz = 0
    BY <2>1, ModOf, Sizes
  <2>3. QED BY <2>2 DEF Init, IdleSeen, TotalIndex
<1>2. Inv /\ IdleSeen => BytesCounted
  <2> SUFFICES ASSUME Inv, IdleSeen, Clean, Rest, idleLost # wrote PROVE counted = wrote
    BY DEF BytesCounted
  <2>1. Exact /\ Typed /\ isr["dma"].pc = "off" /\ isr["uart"].pc = "off"
        /\ "TC" \notin irq /\ "IDLE" \notin irq /\ quiet
    BY DEF Inv, Rest, Quiet, DmaQuiet
  <2>2. counted \in Nat /\ Taken = counted /\ wrote \in Nat
    <3>1. Pending("dma") = 0 /\ Pending("uart") = 0
      BY <2>1 DEF Pending
    <3>2. QED BY <2>1, <3>1, Numbers DEF Typed
  <2>3. Lap(counted) = Lap(wrote) /\ counted % BufSz = wrote % BufSz
    BY <2>1, <2>2 DEF Exact, IdleSeen, TotalIndex
  <2>4. (wrote % BufSz) - (counted % BufSz) = wrote - counted
    BY <2>2, <2>3, SameLap
  <2>5. wrote % BufSz \in Int
    BY <2>2, ModRange
  <2>6. QED
    <3> DEFINE r == wrote % BufSz
    <3>1. r - r = wrote - counted /\ r \in Int
      BY <2>3, <2>4, <2>5
    <3> HIDE DEF r
    <3>2. QED BY <2>2, <3>1
<1>3. QED BY <1>1, <1>2, AlwaysInv, NextIdleSeen, PTL DEF Spec

\* What the thread has yet to read is covered by a message on its way to it, or
\* the message of the very last count was dropped.
Unread == counted - Len(consumed)
Carries(i) == isr[i].pc \in {"entered", "alloc"} /\ isr[i].upto = counted /\ isr[i].length >= Unread
Covered ==
  \/ Unread = 0
  \/ dropped = counted
  \/ \E i \in Handlers : Carries(i)
  \/ \E k \in 1..Len(mq) : mq[k] >= Unread
  \/ thread \in {"free", "read"} /\ msg >= Unread

Announced ==
  /\ thread \in {"recv", "free", "read"}
  /\ Clean => /\ dropped \in Int /\ dropped <= counted
              /\ \A i \in Handlers : isr[i].pc \in {"entered", "alloc"} => isr[i].upto <= counted
              /\ Covered

\* A step that leaves the counts, the queue and the carriers alone.
LEMMA AnnouncedFrame ==
  ASSUME Announced, UNCHANGED <<consumed, counted, dropped, mq, thread, msg>>, Clean' => Clean,
         \A i \in Handlers : \/ isr'[i].pc \notin {"entered", "alloc"} /\ isr[i].pc \notin {"entered", "alloc"}
                             \/ isr'[i] = isr[i]
  PROVE  Announced'
<1>1. thread' \in {"recv", "free", "read"}
  BY DEF Announced
<1>2. ASSUME Clean' PROVE /\ dropped' \in Int /\ dropped' <= counted' /\ Covered'
                          /\ \A i \in Handlers : isr'[i].pc \in {"entered", "alloc"} => isr'[i].upto <= counted'
  <2>1. Covered
    BY <1>2 DEF Announced
  <2>2. Unread' = Unread
    BY DEF Unread
  <2>3. \A i \in Handlers : Carries(i) => Carries(i)'
    BY <2>2 DEF Carries
  <2>4. Covered'
    BY <2>1, <2>2, <2>3 DEF Covered
  <2>5. QED BY <1>2, <2>4 DEF Announced
<1>3. QED BY <1>1, <1>2 DEF Announced

LEMMA EnterAnnounced == \A i \in Handlers : Inv /\ Inv' /\ Announced /\ Enter(i) => Announced'
<1> SUFFICES ASSUME NEW i \in Handlers, Inv, Inv', Announced, Enter(i) PROVE Announced'
  OBVIOUS
<1>0. /\ UNCHANGED <<mq, thread, msg, consumed, overrun, late>>
      /\ isr[i].pc = "counted" /\ counted' = counted + isr[i].length
      /\ \A j \in Handlers : j # i => isr'[j] = isr[j]
      /\ isr'[i].pc = (IF boot = "opened" THEN "done" ELSE "entered")
      /\ isr'[i].length = _serial_fifo_calc_recved_len(fifo') /\ isr'[i].upto = counted'
      /\ dropped' = IF boot = "opened" THEN Later(dropped, counted') ELSE dropped
  BY DEF Enter, Inv, Typed, queueVars, threadVars, Indicated
<1>1. thread' \in {"recv", "free", "read"}
  BY <1>0 DEF Announced
<1>2. ASSUME Clean' PROVE /\ dropped' \in Int /\ dropped' <= counted' /\ Covered'
                          /\ \A j \in Handlers : isr'[j].pc \in {"entered", "alloc"} => isr'[j].upto <= counted'
  <2>1. Clean /\ Exact /\ Exact' /\ Typed
    BY <1>0, <1>2 DEF Clean, Inv
  <2>2. /\ counted \in Int /\ counted' \in Int /\ counted < counted' /\ dropped \in Int /\ dropped <= counted
        /\ \A j \in Handlers : isr[j].upto \in Int
    BY <1>0, <2>1 DEF Exact, Typed, Announced
  <2>3. dropped' \in Int /\ dropped' <= counted' /\ (boot = "opened" => dropped' = counted')
    BY <1>0, <2>2 DEF Later
  <2>4. \A j \in Handlers : isr'[j].pc \in {"entered", "alloc"} => isr'[j].upto <= counted'
    <3> TAKE j \in Handlers
    <3>1. CASE j = i
      BY <1>0, <2>2, <3>1
    <3>2. CASE j # i
      BY <1>0, <2>1, <2>2, <3>2 DEF Announced
    <3>3. QED BY <3>1, <3>2
  <2>5. isr'[i].length = Unread'
    BY <1>0, <2>1, CalcHolds DEF Exact, Unread
  <2>6. Unread' \in Int
    BY <2>1, <2>2, <1>0 DEF Unread, Typed
  <2>7. boot # "opened" => Carries(i)'
    BY <1>0, <2>5, <2>6 DEF Carries
  <2>8. Covered'
    BY <2>3, <2>7 DEF Covered
  <2>9. QED BY <2>3, <2>4, <2>8
<1>3. QED BY <1>1, <1>2 DEF Announced

LEMMA SendAllocAnnounced == \A i \in Handlers : Inv /\ Announced /\ SendAlloc(i) => Announced'
<1> SUFFICES ASSUME NEW i \in Handlers, Inv, Announced, SendAlloc(i) PROVE Announced'
  OBVIOUS
<1>0. /\ UNCHANGED <<mq, thread, msg, consumed, counted, overrun, late>>
      /\ isr[i].pc = "entered" /\ \A j \in Handlers : j # i => isr'[j] = isr[j]
      /\ isr'[i].length = isr[i].length /\ isr'[i].upto = isr[i].upto
      /\ \/ isr'[i].pc = "alloc" /\ dropped' = dropped
         \/ isr'[i].pc = "done" /\ dropped' = Later(dropped, isr[i].upto)
  <2>1. isr \in [Handlers -> [pc : Places, length : Int, upto : Int]]
    BY DEF Inv, Typed
  <2>2. QED BY <2>1 DEF SendAlloc, Moved, threadVars
<1>1. thread' \in {"recv", "free", "read"}
  BY <1>0 DEF Announced
<1>2. ASSUME Clean' PROVE /\ dropped' \in Int /\ dropped' <= counted' /\ Covered'
                          /\ \A j \in Handlers : isr'[j].pc \in {"entered", "alloc"} => isr'[j].upto <= counted'
  <2>1. Clean /\ Covered
    BY <1>0, <1>2 DEF Clean, Announced
  <2>2. counted \in Int /\ dropped \in Int /\ dropped <= counted /\ isr[i].upto \in Int /\ isr[i].upto <= counted
    BY <1>0, <2>1 DEF Inv, Typed, Announced
  <2>3. dropped' \in Int /\ dropped' <= counted' /\ dropped' >= dropped
        /\ (isr'[i].pc = "done" => dropped' >= isr[i].upto)
    BY <1>0, <2>2 DEF Later
  <2>4. \A j \in Handlers : isr'[j].pc \in {"entered", "alloc"} => isr'[j].upto <= counted'
    <3> TAKE j \in Handlers
    <3>1. CASE j = i
      BY <1>0, <2>2, <3>1
    <3>2. CASE j # i
      BY <1>0, <2>1, <3>2 DEF Announced
    <3>3. QED BY <3>1, <3>2
  <2>5. Unread' = Unread
    BY <1>0 DEF Unread
  <2>6. ASSUME NEW j \in Handlers, Carries(j) PROVE Carries(j)' \/ dropped' = counted'
    <3>1. CASE j = i
      <4>1. CASE isr'[i].pc = "alloc"
        BY <1>0, <2>5, <2>6, <3>1, <4>1 DEF Carries
      <4>2. CASE isr'[i].pc = "done"
        BY <1>0, <2>2, <2>3, <2>6, <3>1, <4>2 DEF Carries
      <4>3. QED BY <1>0, <4>1, <4>2
    <3>2. CASE j # i
      BY <1>0, <2>5, <2>6, <3>2 DEF Carries
    <3>3. QED BY <3>1, <3>2
  <2>7. dropped = counted => dropped' = counted'
    BY <1>0, <2>2, <2>3
  <2>8. Covered'
    BY <1>0, <2>1, <2>5, <2>6, <2>7 DEF Covered
  <2>9. QED BY <2>3, <2>4, <2>8
<1>3. QED BY <1>1, <1>2 DEF Announced

LEMMA SendLinkAnnounced == \A i \in Handlers : Inv /\ Announced /\ SendLink(i) => Announced'
<1> SUFFICES ASSUME NEW i \in Handlers, Inv, Announced, SendLink(i) PROVE Announced'
  OBVIOUS
<1>0. /\ UNCHANGED <<thread, msg, consumed, counted, overrun, late, dropped>>
      /\ isr[i].pc = "alloc" /\ \A j \in Handlers : j # i => isr'[j] = isr[j]
      /\ isr'[i].pc = "done" /\ isr[i].length \in 0..BufSz /\ mq \in Seq(0..BufSz)
      /\ mq' = Append(mq, isr[i].length)
  <2>1. isr \in [Handlers -> [pc : Places, length : Int, upto : Int]]
    BY DEF Inv, Typed
  <2>2. QED BY <2>1 DEF SendLink, Moved, threadVars, history, Inv, Typed
<1>1. thread' \in {"recv", "free", "read"}
  BY <1>0 DEF Announced
<1>2. /\ Len(mq') = Len(mq) + 1 /\ Len(mq) \in Nat /\ mq'[Len(mq) + 1] = isr[i].length
      /\ \A k \in 1..Len(mq) : mq'[k] = mq[k]
  BY <1>0, AppendProperties
<1>3. ASSUME Clean' PROVE /\ dropped' \in Int /\ dropped' <= counted' /\ Covered'
                          /\ \A j \in Handlers : isr'[j].pc \in {"entered", "alloc"} => isr'[j].upto <= counted'
  <2>1. Clean /\ Covered
    BY <1>0, <1>3 DEF Clean, Announced
  <2>2. \A j \in Handlers : isr'[j].pc \in {"entered", "alloc"} => isr'[j].upto <= counted'
    BY <1>0, <2>1 DEF Announced
  <2>3. Unread' = Unread
    BY <1>0 DEF Unread
  <2>4. ASSUME NEW j \in Handlers, Carries(j) PROVE Covered'
    <3>1. CASE j = i
      <4>1. Len(mq) + 1 \in 1..Len(mq') /\ mq'[Len(mq) + 1] >= Unread'
        BY <1>2, <2>3, <2>4, <3>1 DEF Carries
      <4>2. QED BY <4>1 DEF Covered
    <3>2. CASE j # i
      <4>1. Carries(j)'
        BY <1>0, <2>3, <2>4, <3>2 DEF Carries
      <4>2. QED BY <4>1 DEF Covered
    <3>3. QED BY <3>1, <3>2
  <2>5. ASSUME NEW k \in 1..Len(mq), mq[k] >= Unread PROVE Covered'
    <3>1. k \in 1..Len(mq') /\ mq'[k] >= Unread'
      BY <1>2, <2>3, <2>5
    <3>2. QED BY <3>1 DEF Covered
  <2>6. Covered'
    BY <1>0, <2>1, <2>3, <2>4, <2>5 DEF Covered
  <2>7. QED BY <1>0, <2>1, <2>2, <2>6 DEF Announced
<1>4. QED BY <1>1, <1>3 DEF Announced

LEMMA MqRecvAnnounced == Inv /\ Announced /\ MqRecv => Announced'
<1> SUFFICES ASSUME Inv, Announced, MqRecv PROVE Announced'
  OBVIOUS
<1>0. /\ UNCHANGED <<isr, consumed, counted, overrun, late, dropped>>
      /\ mq \in Seq(0..BufSz) /\ mq # <<>> /\ mq' = Tail(mq) /\ msg' = Head(mq)
      /\ thread = "recv" /\ thread' = "free"
  BY DEF MqRecv, history, Inv, Typed
<1>1. /\ Len(mq) \in Nat /\ Len(mq) > 0 /\ Len(mq') = Len(mq) - 1 /\ msg' = mq[1]
      /\ \A k \in 1..Len(mq') : mq'[k] = mq[k + 1]
  BY <1>0
<1>2. ASSUME Clean' PROVE Covered'
  <2>1. Covered
    BY <1>0, <1>2 DEF Clean, Announced
  <2>2. Unread' = Unread
    BY <1>0 DEF Unread
  <2>3. \A j \in Handlers : Carries(j) => Carries(j)'
    BY <1>0, <2>2 DEF Carries
  <2>4. ASSUME NEW k \in 1..Len(mq), mq[k] >= Unread PROVE Covered'
    <3>1. CASE k = 1
      BY <1>0, <1>1, <2>2, <2>4, <3>1 DEF Covered
    <3>2. CASE k # 1
      <4>1. k - 1 \in 1..Len(mq') /\ mq'[k - 1] >= Unread'
        <5>1. k - 1 \in 1..Len(mq') /\ (k - 1) + 1 = k
          BY <1>1, <3>2
        <5>2. mq'[k - 1] = mq[k]
          BY <1>1, <5>1
        <5>3. QED BY <2>2, <2>4, <5>1, <5>2
      <4>2. QED BY <4>1 DEF Covered
    <3>3. QED BY <3>1, <3>2
  <2>5. QED BY <1>0, <2>1, <2>2, <2>3, <2>4 DEF Covered
<1>3. Clean' => Clean
  BY <1>0 DEF Clean
<1>4. QED BY <1>0, <1>2, <1>3 DEF Announced

LEMMA DeviceReadAnnounced == Inv /\ Inv' /\ Announced /\ DeviceRead => Announced'
<1> SUFFICES ASSUME Inv, Inv', Announced, DeviceRead PROVE Announced'
  OBVIOUS
<1> DEFINE all == _serial_fifo_calc_recved_len(fifo)
           len == IF msg < all THEN msg ELSE all
<1>0. /\ UNCHANGED <<isr, mq, counted, overrun, late, dropped>>
      /\ consumed' = consumed \o Copied(fifo.get, len)
      /\ thread = "read" /\ thread' = "recv"
  BY DEF DeviceRead, queueVars, history
<1>1. /\ fifo \in Fifos /\ fifo.get \in 0..(BufSz - 1) /\ wrote \in Nat /\ msg \in 0..BufSz
      /\ consumed \in Seq(Int) /\ Len(consumed) \in Nat
      /\ counted \in Int
  BY DEF Inv, Typed, Fifos
<1>2. all \in 0..BufSz
  BY <1>1, CalcRange
<1>3. len \in 0..BufSz
  <2> HIDE DEF all
  <2> QED BY <1>1, <1>2, Sizes
<1>4. Len(consumed') = Len(consumed) + len
  <2> HIDE DEF len
  <2>1. Copied(fifo.get, len) \in Seq(Int) /\ Len(Copied(fifo.get, len)) = len
    BY <1>1, <1>3, CopiedType
  <2>2. QED BY <1>0, <1>1, <2>1, ConcatProperties
<1>5. ASSUME Clean' PROVE Covered'
  <2>1. Clean /\ Covered /\ Exact
    BY <1>0, <1>5 DEF Clean, Announced, Inv
  <2>2. all = Unread
    BY <2>1, CalcHolds DEF Exact, Unread
  <2>3. Unread \in Int /\ Unread' = Unread - len
    <3> HIDE DEF len
    <3> QED BY <1>0, <1>1, <1>3, <1>4, Sizes DEF Unread
  <2>4. Unread' \in Int /\ Unread' <= Unread
    <3> HIDE DEF len
    <3> QED BY <1>3, <2>3, Sizes
  <2>5. msg >= Unread => Unread' = 0
    <3> HIDE DEF all
    <3> QED BY <1>1, <1>2, <2>2, <2>3, Sizes
  <2>6. \A j \in Handlers : Carries(j) => Carries(j)'
    BY <1>0, <2>3, <2>4 DEF Carries, Inv, Typed
  <2>7. \A k \in 1..Len(mq) : mq[k] >= Unread => mq'[k] >= Unread'
    <3> TAKE k \in 1..Len(mq)
    <3>1. mq[k] \in Int
      BY Sizes, ElementOfSeq DEF Inv, Typed
    <3>2. QED BY <1>0, <2>3, <2>4, <3>1
  <2>8. CASE Unread = 0
    <3>1. all = 0
      BY <2>2, <2>8
    <3>2. msg >= Unread
      BY <1>1, <2>8
    <3>3. QED BY <2>5, <3>2 DEF Covered
  <2>9. QED
    <3> HIDE DEF all, len
    <3> QED BY <1>0, <2>1, <2>5, <2>6, <2>7, <2>8 DEF Covered
<1>6. Clean' => Clean
  BY <1>0 DEF Clean
<1>7. QED BY <1>0, <1>5, <1>6 DEF Announced

LEMMA NextAnnounced == Inv /\ Inv' /\ Announced /\ [Next]_vars => Announced'
<1> SUFFICES ASSUME Inv, Inv', Announced, [Next]_vars PROVE Announced'
  OBVIOUS
<1>1. isr \in [Handlers -> [pc : Places, length : Int, upto : Int]]
  BY DEF Inv, Typed
<1>2. CASE ByteArrives
  <2>1. UNCHANGED <<consumed, counted, dropped, mq, thread, msg, isr>> /\ late' = late
        /\ overrun' = (overrun \/ wrote - Len(consumed) >= BufSz)
    BY <1>2 DEF ByteArrives, queueVars, threadVars
  <2>2. Clean' => Clean
    BY <2>1, Zenon DEF Clean
  <2>3. QED BY <2>1, <2>2, AnnouncedFrame
<1>3. CASE LineIdle \/ Attach \/ StartThread \/ UNCHANGED vars
  <2>1. UNCHANGED <<consumed, counted, dropped, mq, thread, msg, isr, overrun, late>>
    BY <1>3 DEF LineIdle, Attach, StartThread, vars, queueVars, threadVars, history
  <2>2. QED BY <2>1, AnnouncedFrame DEF Clean
<1>4. CASE UartEnter
  <2>1. UNCHANGED <<consumed, counted, dropped, mq, thread, msg, overrun, late>>
        /\ isr["uart"].pc = "off" /\ isr' = [isr EXCEPT !["uart"] = [isr["uart"] EXCEPT !.pc = "masked"]]
    BY <1>4 DEF UartEnter, Moved, queueVars, threadVars, history
  <2>2. isr'["dma"] = isr["dma"] /\ isr'["uart"].pc = "masked"
    BY <1>1, <2>1 DEF Handlers
  <2>3. QED BY <2>1, <2>2, AnnouncedFrame DEF Clean, Handlers
<1>5. ASSUME NEW i \in Handlers, isr[i].pc \in {"off", "masked"}, NEW length, Count(i, length),
             UNCHANGED <<consumed, counted, dropped, mq, thread, msg, overrun>>,
             NEW f, late' = (late \/ ReadLate(f))
      PROVE  Announced'
  <2>1. /\ \A j \in Handlers : j # i => isr'[j] = isr[j]
        /\ isr'[i].pc = IF length # 0 THEN "counted" ELSE "done"
    BY <1>1, <1>5 DEF Count, AfterCount
  <2>2. Clean' => Clean
    BY <1>5, Zenon DEF Clean
  <2>3. QED BY <1>5, <2>1, <2>2, AnnouncedFrame
<1>6. CASE UartCount
  <2>1. /\ isr["uart"].pc = "masked" /\ Count("uart", TotalIndex - last_index)
        /\ late' = (late \/ ReadLate(irq))
        /\ UNCHANGED <<consumed, counted, dropped, mq, thread, msg, overrun>>
    BY <1>6 DEF UartCount, queueVars, threadVars
  <2>2. QED BY <1>5, <2>1 DEF Handlers
<1>7. CASE DmaCount
  <2>1. /\ isr["dma"].pc = "off" /\ Count("dma", DmaLength)
        /\ late' = (late \/ ReadLate(irq'))
        /\ UNCHANGED <<consumed, counted, dropped, mq, thread, msg, overrun>>
    BY <1>7 DEF DmaCount, queueVars, threadVars
  <2>2. QED BY <1>5, <2>1 DEF Handlers
<1>8. ASSUME NEW i \in Handlers, Done(i) PROVE Announced'
  <2>1. UNCHANGED <<consumed, counted, dropped, mq, thread, msg, overrun, late>>
        /\ isr[i].pc = "done" /\ isr' = [isr EXCEPT ![i] = Idle]
    BY <1>8 DEF Done, queueVars, threadVars
  <2>2. isr'[i].pc = "off" /\ \A j \in Handlers : j # i => isr'[j] = isr[j]
    BY <1>1, <2>1 DEF Idle
  <2>3. QED BY <2>1, <2>2, AnnouncedFrame DEF Clean
<1>9. CASE MqFree
  <2>1. UNCHANGED <<consumed, counted, dropped, mq, msg, isr, overrun, late>>
        /\ thread = "free" /\ thread' = "read"
    BY <1>9 DEF MqFree, history
  <2>2. Unread' = Unread /\ \A j \in Handlers : Carries(j)' <=> Carries(j)
    BY <2>1 DEF Unread, Carries
  <2>3. Covered' <=> Covered
    BY <2>1, <2>2 DEF Covered
  <2>4. Clean' <=> Clean
    BY <2>1 DEF Clean
  <2>5. QED BY <2>1, <2>3, <2>4 DEF Announced
<1>10. CASE \E i \in Handlers : Enter(i) \/ SendAlloc(i) \/ SendLink(i)
  BY <1>10, EnterAnnounced, SendAllocAnnounced, SendLinkAnnounced
<1>11. QED
  BY <1>2, <1>3, <1>4, <1>6, <1>7, <1>8, <1>9, <1>10, MqRecvAnnounced, DeviceReadAnnounced
  DEF Next, Handler, Thread, Handlers

\* When everything is at rest and the queue is empty the thread has read all that
\* was counted, however messages were merged, delayed or dropped on a full queue,
\* unless the message of the very last count is the one that was dropped.
THEOREM AllBytesAnnounced == Spec => []BytesAnnounced
<1>1. Init => Announced
  <2> SUFFICES ASSUME Init PROVE Announced
    OBVIOUS
  <2>1. counted = 0 /\ dropped = -1 /\ consumed = <<>> /\ thread = "recv"
        /\ \A i \in Handlers : isr[i].pc = "off"
    BY DEF Init, Idle, Handlers
  <2>2. Unread = 0
    <3>1. Len(consumed) = 0
      BY EmptySeq DEF Init
    <3>2. counted = 0
      BY <2>1
    <3>3. QED BY <3>1, <3>2 DEF Unread
  <2>3. QED BY <2>1, <2>2 DEF Announced, Covered
<1>2. Inv /\ Announced => BytesAnnounced
  <2> SUFFICES ASSUME Inv, Announced, Clean, Rest, thread = "recv", mq = <<>>
               PROVE  Len(consumed) = counted \/ dropped = counted
    BY DEF BytesAnnounced
  <2>1. isr["dma"].pc = "off" /\ isr["uart"].pc = "off"
    BY DEF Rest, Quiet, DmaQuiet
  <2>2. ~\E i \in Handlers : Carries(i)
    BY <2>1 DEF Carries, Handlers
  <2>3. Covered /\ Len(mq) = 0
    BY DEF Announced
  <2>4. Unread = 0 \/ dropped = counted
    BY <2>2, <2>3 DEF Covered
  <2>5. counted \in Int /\ Len(consumed) \in Nat
    BY DEF Inv, Typed
  <2>6. QED BY <2>4, <2>5 DEF Unread
<1>3. QED BY <1>1, <1>2, AlwaysInv, NextAnnounced, PTL DEF Spec
=============================================================================
