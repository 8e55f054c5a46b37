----------------------------- MODULE NmeaSample -----------------------------
(***************************************************************************)
(* nmea_sample.c over RT-Thread's serial device in DMA mode: the DMA fills *)
(* a ring, its half and full transfer interrupts and the UART's idle       *)
(* interrupt (stm32 drv_usart.c) move put_index and post the number of     *)
(* unread bytes to a message queue (ipc.c), and the nmea thread takes a    *)
(* message, reads that many bytes (serial.c) and hands them to nmea_parse  *)
(* (NmeaLink's Feed).                                                      *)
(*                                                                         *)
(* A body between rt_hw_interrupt_disable and enable is one step.  The DMA *)
(* interrupt (priority 0) preempts the UART's (1), both preempt threads.   *)
(* Bytes are numbered in the order of their arrival.                       *)
(***************************************************************************)
EXTENDS Integers, Sequences

CONSTANTS
  BufSz,         \* serial->config.bufsz, even
  IndexRange,    \* 2^16: put_index is an rt_uint16_t
  MaxMsgs,       \* rx_mq.max_msgs
  MaxBytes       \* bound: bytes that arrive

ASSUME SampleAssumption ==
  /\ BufSz \in Nat \ {0} /\ BufSz % 2 = 0
  /\ IndexRange \in Nat /\ 2 * BufSz <= IndexRange /\ IndexRange % BufSz = 0
  /\ MaxMsgs \in Nat \ {0} /\ MaxBytes \in Nat

VARIABLES
  wrote, quiet,  \* bytes the DMA has written; the line is idle since the last
  irq,           \* flags raised: half and full transfer, idle line
  last_index,    \* uart->dma_rx.last_index
  fifo,          \* rx_fifo: put_index, get_index, is_full
  isr,           \* per interrupt handler: where it stands, its locals
  mq, free,      \* sizes in rx_mq, length of its free list
  thread, msg,   \* where the nmea thread stands, msg.size
  consumed,      \* the bytes handed to nmea_parse
  boot           \* how far nmea_thread_init has come

VARIABLES
  counted,       \* history: the sum of the lengths reported to the fifo
  overrun,       \* history: the DMA has overwritten a byte not yet read
  late,          \* history: the DMA's counter was read after it wrapped and
                 \* before the full transfer was served
  dropped,       \* history: the largest count whose message was dropped
  idleLost       \* history: wrote when an idle line was last missed

hardware == <<wrote, quiet, irq>>
queueVars == <<mq, free>>
threadVars == <<thread, msg, consumed>>
history == <<counted, overrun, late, dropped, idleLost>>
vars == <<hardware, last_index, fifo, isr, queueVars, threadVars, boot, history>>
-----------------------------------------------------------------------------
(* The DMA and the line.                                                   *)

\* bufsz - __HAL_DMA_GET_COUNTER
TotalIndex == wrote % BufSz

\* The byte at position pos of the ring, 0 when none was written there.
RingAt(pos) ==
  LET lap == (wrote - pos - 1) \div BufSz
  IN  IF pos < wrote THEN lap * BufSz + pos + 1 ELSE 0

\* The flags the n-th byte raises.
Raised(n) ==
  IF n % BufSz = 0 THEN {"TC"} ELSE IF n % BufSz = BufSz \div 2 THEN {"HT"} ELSE {}

ByteArrives ==
  /\ wrote < MaxBytes
  /\ wrote' = wrote + 1
  /\ irq' = irq \cup Raised(wrote + 1)
  /\ quiet' = FALSE
  /\ overrun' = (overrun \/ wrote - Len(consumed) >= BufSz)
  /\ UNCHANGED <<last_index, fifo, isr, queueVars, threadVars, boot, counted, late, dropped, idleLost>>

LineIdle ==
  /\ ~quiet
  /\ quiet' = TRUE
  /\ irq' = irq \cup {"IDLE"}
  /\ UNCHANGED <<wrote, last_index, fifo, isr, queueVars, threadVars, boot, history>>
-----------------------------------------------------------------------------
(* serial.c: the receive fifo.                                             *)

\* Fault: a full ring counts as an empty one.
calc_recved_len_no_full(f) == (f.put - f.get) % BufSz

_serial_fifo_calc_recved_len(f) ==
  IF f.put = f.get THEN (IF f.full THEN BufSz ELSE 0)
  ELSE IF f.put > f.get THEN f.put - f.get
  ELSE BufSz - (f.get - f.put)

\* Fault: put_index is not taken back to the start of the ring.
InRingNever(n) == n

InRing(n) == IF n >= BufSz THEN n % BufSz ELSE n

\* The two branches on get_index <= put_index differ in when the fifo is full:
\* past the end of the ring and at get_index again, or at get_index.  (An index
\* the second branch leaves as it is lies below get_index, hence in the ring.)
rt_dma_recv_update_put_index(f, length) ==
  LET sum  == (f.put + length) % IndexRange
      put  == InRing(sum)
      full == \/ f.full
              \/ f.get <= f.put /\ sum >= BufSz /\ put >= f.get
              \/ f.get > f.put /\ sum >= f.get
  IN  [put |-> put, get |-> IF full THEN put ELSE f.get, full |-> full]

rt_dma_recv_update_get_index(f, length) ==
  [put |-> f.put, get |-> InRing(f.get + length), full |-> f.full /\ length = 0]
-----------------------------------------------------------------------------
(* drv_usart.c: the handlers.  A handler counts what the DMA has written,  *)
(* enters it in the fifo, and calls uart_input.                            *)

DmaQuiet == isr.dma.pc = "off" /\ irq \cap {"HT", "TC"} = {}
Runs(i) == i = "dma" \/ DmaQuiet
Quiet == DmaQuiet /\ isr.uart.pc = "off" /\ "IDLE" \notin irq

Idle == [pc |-> "off", length |-> 0, upto |-> 0]
Moved(i, where) == [isr[i] EXCEPT !.pc = where]

\* Fault: a transfer of one byte is taken for none.
AfterCountSkipsOne(i, length) == IF length > 1 THEN "counted" ELSE "done"

\* if (recv_len)
AfterCount(i, length) == IF length # 0 THEN "counted" ELSE "done"

Count(i, length) ==
  /\ isr' = [isr EXCEPT ![i] = [pc |-> AfterCount(i, length), length |-> length, upto |-> 0]]
  /\ last_index' = TotalIndex

\* interrupts are off, and the DMA goes on
UartEnter ==
  /\ isr.uart.pc = "off" /\ "IDLE" \in irq /\ DmaQuiet
  /\ isr' = [isr EXCEPT !.uart = Moved("uart", "masked")]
  /\ UNCHANGED <<hardware, last_index, fifo, queueVars, threadVars, boot, history>>

\* What the handlers have counted, entered in the fifo or not.
Pending(i) == IF isr[i].pc = "counted" THEN isr[i].length ELSE 0
Taken == counted + Pending("dma") + Pending("uart")

\* The ring has wrapped since the last count, and this is not the service of
\* the full transfer at its very end; pending are the flags left.
ReadLate(pending) ==
  wrote \div BufSz # Taken \div BufSz /\ ("TC" \in pending \/ TotalIndex # 0)

\* The idle branch of uart_isr.
UartCount ==
  /\ isr.uart.pc = "masked"
  /\ Count("uart", TotalIndex - last_index)
  /\ late' = (late \/ ReadLate(irq))
  /\ UNCHANGED <<hardware, fifo, queueVars, threadVars, boot, counted, overrun, dropped, idleLost>>

DmaLength == IF TotalIndex = 0 THEN BufSz - last_index ELSE TotalIndex - last_index

\* dma_isr, called by the HAL for the half transfer or else the full one.
DmaCount ==
  /\ isr.dma.pc = "off" /\ isr.uart.pc # "masked"
  /\ \E f \in {IF "HT" \in irq THEN "HT" ELSE "TC"} : f \in irq /\ irq' = irq \ {f}
  /\ Count("dma", DmaLength)
  /\ late' = (late \/ ReadLate(irq'))
  /\ UNCHANGED <<wrote, quiet, fifo, queueVars, threadVars, boot, counted, overrun, dropped, idleLost>>

Later(m, n) == IF m < n THEN n ELSE m

\* Fault: the total is taken before put_index is updated.
IndicatedBefore(old, new) == _serial_fifo_calc_recved_len(old)

\* calculate received total length
Indicated(old, new) == _serial_fifo_calc_recved_len(new)

\* rt_hw_serial_isr, RT_SERIAL_EVENT_RX_DMADONE: without a callback that is all.
Enter(i) ==
  /\ isr[i].pc = "counted" /\ Runs(i)
  /\ fifo' = rt_dma_recv_update_put_index(fifo, isr[i].length)
  /\ counted' = counted + isr[i].length
  /\ isr' = [isr EXCEPT ![i] = [pc |-> IF boot = "opened" THEN "done" ELSE "entered",
                                length |-> Indicated(fifo, fifo'), upto |-> counted']]
  /\ dropped' = IF boot = "opened" THEN Later(dropped, counted') ELSE dropped
  /\ UNCHANGED <<hardware, last_index, queueVars, threadVars, boot, overrun, late, idleLost>>

\* uart_input: rt_mq_send takes a message off the free list or gives up.
SendAlloc(i) ==
  /\ isr[i].pc = "entered" /\ Runs(i)
  /\ \/ /\ free > 0
        /\ free' = free - 1
        /\ isr' = [isr EXCEPT ![i] = Moved(i, "alloc")]
        /\ UNCHANGED dropped
     \/ /\ free = 0
        /\ isr' = [isr EXCEPT ![i] = Moved(i, "done")]
        /\ dropped' = Later(dropped, isr[i].upto)
        /\ UNCHANGED free
  /\ UNCHANGED <<hardware, last_index, fifo, mq, threadVars, boot, counted, overrun, late, idleLost>>

\* ... fills it with interrupts enabled, and links it.
SendLink(i) ==
  /\ isr[i].pc = "alloc" /\ Runs(i)
  /\ mq' = Append(mq, isr[i].length)
  /\ isr' = [isr EXCEPT ![i] = Moved(i, "done")]
  /\ UNCHANGED <<hardware, last_index, fifo, free, threadVars, boot, history>>

\* Fault: the idle flag is not cleared.
FlagsKept(i) == irq

\* __HAL_UART_CLEAR_IDLEFLAG, whether or not the line has gone idle again.
FlagsAfter(i) == IF i = "uart" THEN irq \ {"IDLE"} ELSE irq

Done(i) ==
  /\ isr[i].pc = "done" /\ Runs(i)
  /\ isr' = [isr EXCEPT ![i] = Idle]
  /\ irq' = FlagsAfter(i)
  /\ idleLost' = IF i = "uart" /\ quiet /\ last_index # TotalIndex THEN wrote ELSE idleLost
  /\ UNCHANGED <<wrote, quiet, last_index, fifo, queueVars, threadVars, boot, counted, overrun, late, dropped>>

Handler == UartEnter \/ UartCount \/ DmaCount
           \/ \E i \in {"dma", "uart"} : Enter(i) \/ SendAlloc(i) \/ SendLink(i) \/ Done(i)
-----------------------------------------------------------------------------
(* nmea_thread_init after rt_device_open, and nmea_thread_entry.           *)

Attach ==
  /\ boot = "opened" /\ Quiet
  /\ boot' = "attached"
  /\ UNCHANGED <<hardware, last_index, fifo, isr, queueVars, threadVars, history>>

\* rt_thread_create may fail; the device is left open then.
StartThread ==
  /\ boot = "attached" /\ Quiet
  /\ boot' \in {"started", "failed"}
  /\ UNCHANGED <<hardware, last_index, fifo, isr, queueVars, threadVars, history>>

\* rt_mq_recv in its two steps: a message is taken, and put on the free list.
MqRecv ==
  /\ boot = "started" /\ thread = "recv" /\ Quiet
  /\ mq # <<>>
  /\ msg' = Head(mq) /\ mq' = Tail(mq)
  /\ thread' = "free"
  /\ UNCHANGED <<hardware, last_index, fifo, isr, free, consumed, boot, history>>

MqFree ==
  /\ thread = "free" /\ Quiet
  /\ free' = free + 1
  /\ thread' = "read"
  /\ UNCHANGED <<hardware, last_index, fifo, isr, mq, msg, consumed, boot, history>>

\* Fault: the second part of the copy starts one byte too far.
CopiedTwiceOff(get, len) ==
  [k \in 1..len |-> RingAt(InRing(get + k - 1) + (IF get + k - 1 < BufSz THEN 0 ELSE 1))]

\* In one part, or in two around the end of the ring.
Copied(get, len) == [k \in 1..len |-> RingAt(InRing(get + k - 1))]

\* _serial_dma_rx, and nmea_parse on what it returns.
DeviceRead ==
  LET all == _serial_fifo_calc_recved_len(fifo)
      len == IF msg < all THEN msg ELSE all
  IN  /\ thread = "read" /\ Quiet
      /\ consumed' = consumed \o Copied(fifo.get, len)
      /\ fifo' = rt_dma_recv_update_get_index(fifo, len)
      /\ msg' = 0
      /\ thread' = "recv"
      /\ UNCHANGED <<hardware, last_index, isr, queueVars, boot, history>>

Thread == Attach \/ StartThread \/ MqRecv \/ MqFree \/ DeviceRead

Init ==
  /\ wrote = 0 /\ quiet = TRUE /\ irq = {} /\ last_index = 0
  /\ fifo = [put |-> 0, get |-> 0, full |-> FALSE]
  /\ isr = [i \in {"dma", "uart"} |-> Idle]
  /\ mq = <<>> /\ free = MaxMsgs
  /\ thread = "recv" /\ msg = 0 /\ consumed = <<>> /\ boot = "opened"
  /\ counted = 0 /\ overrun = FALSE /\ late = FALSE /\ dropped = -1 /\ idleLost = -1

Next == ByteArrives \/ LineIdle \/ Handler \/ Thread

\* The line goes idle between bursts, handlers end, and the thread gets the
\* processor.
Spec == Init /\ [][Next]_vars /\ WF_vars(LineIdle) /\ WF_vars(Handler) /\ WF_vars(Thread)
-----------------------------------------------------------------------------
\* The indices stay in the ring and the messages are all in the queue, on the
\* free list or in the hands of a handler or the thread.
TypeOK ==
  /\ irq \subseteq {"HT", "TC", "IDLE"} /\ last_index \in 0..(BufSz - 1)
  /\ fifo \in [put : 0..(BufSz - 1), get : 0..(BufSz - 1), full : BOOLEAN]
  /\ msg \in 0..BufSz /\ mq \in Seq(0..BufSz)
  /\ MaxMsgs = free + Len(mq) + (IF thread = "free" THEN 1 ELSE 0)
               + (IF isr.dma.pc = "alloc" THEN 1 ELSE 0) + (IF isr.uart.pc = "alloc" THEN 1 ELSE 0)

\* Up to the first overrun or late count the fifo holds exactly the bytes that
\* were counted and not read, a full ring included.
Clean == ~overrun /\ ~late
FifoExact == Clean => _serial_fifo_calc_recved_len(fifo) = counted - Len(consumed)

\* ... and nmea_parse is given every byte once and in order, however the
\* handlers nest and however messages are delayed, merged or dropped.
InOrder == Clean => \A k \in 1..Len(consumed) : consumed[k] = k

\* When everything has come to rest, all bytes have been counted, unless the
\* line went idle again inside the handler for its last idle period.
Rest == Quiet /\ quiet
BytesCounted == (Clean /\ Rest) => (counted = wrote \/ idleLost = wrote)

\* ... and the thread has read all that was counted, unless the very last
\* message was dropped: a message covers those dropped before it.
BytesAnnounced ==
  (Clean /\ Rest /\ boot = "started" /\ thread = "recv" /\ mq = <<>>) =>
     (Len(consumed) = counted \/ dropped = counted)

\* Every byte gets to nmea_parse, with the same exceptions.
EventuallyRead ==
  (wrote > Len(consumed)) ~>
     \/ Len(consumed) = wrote
     \/ ~Clean \/ dropped = counted \/ idleLost = wrote \/ boot = "failed"
=============================================================================
