# A TLA+ verification of the NMEA parsers of rtt_nmea

rtt_nmea is a collection of RT-Thread projects around NMEA 0183, the text
protocol of GPS receivers. Most of the repository is RT-Thread, vendor HAL and
SDL; the program's own logic is the NMEA code of the four board projects under
`src/bsp`. This directory models that code in TLA+, checks it with TLC and
proves its central invariants with TLAPS.

The reference is `src/bsp/simulator_nmea/applications/nmea/nmea_parse.c`
("nmea_parse.c" below), the complete rearranged library: framing, parser
object, field parsing and summary. Around it stand the sample thread with the
RT-Thread serial device that feeds it, and, on the stm32l475 board, a second
parser (`gps_parse`) and a work-queue test.

## Inventory

| part | state | operations | hard about it |
|---|---|---|---|
| framing (`nmea_find_tail`) | none; decides over the front of the buffer | accept, skip, wait | partial input, check sums, signed chars |
| parser object (`nmea_parser_t`) | buffer, queue of packs | init, `nmea_parse` (push, real_push, pop loop), destroy | cuts anywhere in the stream, overflow, three kinds of failing allocation, leaks |
| field parsing (`nmea_scanf`, `nmea_parse_gga` ... `vtg`) | none | text to pack | widths, empty fields, uninitialised time buffer |
| summary (`nmea_info_t`) | position, fix, signal, satellite table | `nmea_gga_info`, `gsa`, `gsv`, `rmc`, `vtg` | several sentences write the same fields, tables indexed by received numbers, int overflow, lost messages |
| sample thread (`nmea_sample.c`) | message queue, receive buffer | interrupt callback, read and parse loop | queue full, interrupt against thread, callback set after the device is open |
| serial device in DMA mode (`serial.c`, `drv_usart.c`) and message queue (`ipc.c`), as the sample uses them | ring, fifo indices, `last_index`; message list and free list | DMA half, full and idle interrupt, read; send, receive | nested handlers, DMA that never stops, full against empty ring |
| stm32 `gps_parse` | last RMC, GGA, GSV, EPE | a second parser, without check sum | `uint8_t` arithmetic, partial updates |
| stm32 `workqueue_test` and RT-Thread's work queue (`workqueue.c`) | work list, current item, worker thread; timer and two flags | start, stop, time-out; submit, cancel, execute | tick interrupt against shell and worker, an item re-initialised while queued |
| `nmea_parse_lib`, stm32 `nmea/` | none | field parsing only, `time_buff` zeroed | as field parsing |
| nmealib package (`bsp/simulator/packages/nmealib-latest`) | as above, and generators | the third-party original of nmea_parse.c, sentence generation, geometry | floating point |

How they meet: the DMA writes the serial ring; its interrupts count the bytes
and post their number to the message queue; the sample thread takes a message,
reads that many bytes and calls `nmea_parse` with them; framing cuts them into
sentences, field parsing makes packs of these, the queue hands the packs to the
folds, and the folds keep `info`. The parser itself is called by one thread.
What makes it hard is not concurrency but the order of events: where the serial
driver cuts the stream, which allocation fails, which message of a cycle is
lost. Below it, and in the work-queue test, the hard part is interleaving.

What should hold: every byte reaches the parser once and in order, or the loss
has a cause that is known; a decision over a partial buffer is the one the whole
stream gives; nothing but valid frames reaches the summary, in order; no copy
leaves the buffer and no write leaves a satellite table; every node is freed
once; every call returns; what an accepted sentence says is what its fields say;
a complete satellite cycle replaces what was in the table; no wake-up of the
worker is lost. The hazards are listed, each at its line, in `PROJECT.json`.

## Modules

| module | models |
|---|---|
| `NmeaTail` | `nmea_find_tail` as an operator, and what a frame and a sentence are, defined without the loop |
| `NmeaAscii` | bytes as the C code computes with them: XOR on signed chars, `strtol` on two characters (used by the MC modules only) |
| `NmeaUnit` | `nmea_pack_type`, and the packs of a whole stream found by one scan of it |
| `NmeaFraming` | a buffer that grows, and what `nmea_find_tail` may say of it |
| `NmeaParser` | the parser object: one action per step of `nmea_parse` between two allocations |
| `NmeaStream` | abstract specification: received bytes, delivered packs |
| `NmeaLink` | receiver, lossy line and parser together; implements `NmeaStream` |
| `NmeaScanf` | `nmea_scanf` with the five real formats, the five field parsers, and a splitter at the commas as their reference |
| `NmeaInfo` | the summary, the five folds, and a receiver that sends GSV cycles and other sentences in any order |
| `NmeaSample` | DMA, serial device, message queue and sample thread |
| `GpsParse` | `gps_parse.c` and a receiver for it |
| `RtWorkQueue`, `WorkTest` | the work queue with its linked list; the test with its timer, the shell and other threads |
| `NmeaTailProofs`, `NmeaFramingProofs`, `NmeaLinkProofs` (parser and link), `NmeaScanfProofs`, `NmeaInfoProofs`, `NmeaSampleProofs`, `GpsParseProofs`, `WorkTestProofs` | the theorems |
| `MC...` | small instances for TLC |

Operators commented "Fault:" are plausible mistakes in the code. `PROJECT.json`
pairs each checked property with one of them: put in the place of the original
definition, it makes TLC find that property violated.

### How state and actions correspond to the code

`NmeaTail`. The `for` loop of `nmea_find_tail` stops at the first `$` that is
not the first byte, or at the first `*`; `FirstStop` is that position and the
loop has no state of its own. `AtStar` is the `*` branch with its
outcomes. Bytes and the check-sum function are constants. What the function is
compared with is said of the bytes alone: `IsFrame` and `IsSentence`, `Open` (no
stop yet, or fewer than four bytes behind the `*`) and `Blocked` (four bytes behind
the `*`, and either no line end among them or a number that agrees with the XOR and
is negative).

`NmeaParser`. `pc` says where in the call the thread stands: `push` (loop of
`nmea_parser_push`), `copy` (before `rt_memcpy`), `scan` (head of the `for`
loop), `pack` (node allocated), `fill` (pack allocated), `drain` (loop of
`nmea_parse`). `buffer` is `buffer[0 .. buff_use-1]`, `queue` the list from
`top_node` to `end_node`; `nodes` and `packs` count allocated blocks. The five
cases of the type switch differ in the pack's type only and are one action.
The headers that `nmea_pack_type` compares with (`pheads`) and the answers of the
field parsers (`ParseOk`) are constants; as in the code, no header is the
beginning of another or contains a CR. `rt_malloc` is external: it succeeds while `HeapSize` allows it and
may fail at any time when `MallocMayFail`. A failed `NMEA_ASSERT` halts.

`NmeaLink`. `Feed` is one round of the sample's loop: read what has arrived,
call `nmea_parse`. `delivered` records the packs in the order in which they go
into `info`. `LoseByte` is the line. `failed` and `overflowed` remember which
fault a run has met, so that each property can say what it promises under it.
A call has at most `MaxCut` bytes, which the buffer holds: the sample reads into
64 bytes, and the parser's buffer has at least 256. What a longer call does is
the run `oversize_call`.

`NmeaScanf`. Text and formats start behind the header, whose letters
`nmea_pack_type` has compared. The `$` before them it has not: a frame may start
with any byte, and the first literal of `nmea_scanf` refuses it (`first`,
`DollarFound`). A sentence is a list of fields, a field a list of characters; all
digits are the character `9`, since `nmea_scanf` decides on widths and on the
next character of the format, never on a digit's value. `Turn` is one turn of
the `for` loop, `TokenEnd` its three ways to find the end of a token. Tokens are
kept as positions in the text, so that a token behind the buffer is visible.
`time_buff` is uninitialised when the time field is empty: whether it then passes
for a time is open (`_nmea_parse_time` returns both answers). The copies of
`nmea_parse_lib` and of the stm32 project zero that buffer and always refuse an
empty time, which is one of the two; they also have no `nmea_pack_type` in front,
so that a wrong header is refused by `nmea_scanf` as a wrong `$` is. Fields are strings
over `Char`, which has neither comma nor star: by the time the fields are parsed,
framing has cut the sentence at its star. A sentence is shorter than the 256
characters of the conversion buffers (`Fits`; the protocol allows 82), so the
size tests of `nmea_atoi` and `nmea_atof` never matter. It may end after any
field, or have fields behind those of the format, as later versions of the
protocol send them. `Reference` splits at the commas; `LastChar` corrects it where
the code differs: a character field that is empty and ends otherwise than the
format says stores the separator itself (the star of an RMC of eleven fields, the
comma of an RMC with a field more).

`NmeaInfo`. `gga_info` ... `gsv_info` give the new value of `info`; the actions
of the code's names apply them to packs. `outside` records which function left
`sat[NMEA_MAXSAT]`. `view`, `nextMsg`, `got` are the receiver's satellite cycle;
`verdict` remembers the last word on the fix. Copied numbers are small values;
speeds are in metres per hour, so that the conversion from knots is exact. The
products and differences of the GSV numbers wrap at `IntMax`; since overflow of
an int is undefined, the comparison that overflows may also come out as if it
had not. A write that only such an overflow makes possible is marked `overflow`
and ends the behaviour.

`NmeaSample`. A body between `rt_hw_interrupt_disable` and `enable` is one step;
between two steps the DMA writes and handlers run. The DMA handler (priority 0)
preempts the UART's (1), both preempt threads; `isr` has the position and the
locals of each. Bytes are numbered as they arrive, `RingAt` says which of them a
position of the ring holds now. `fifo` has `put_index`, `get_index` and
`is_full`; `put_index` is computed modulo `IndexRange` first, as an
`rt_uint16_t`. `rt_mq_send` takes a message off the free list and links it in two
steps, `rt_mq_recv` takes and frees it in two. `boot` follows `nmea_thread_init`:
the device is open before the callback is set. The variables called history
record why bytes may be missing: the ring was overrun, the counter was read late
(after a wrap and before the full transfer was served), a message was dropped,
an idle flag was cleared together with the one being served.

`GpsParse`. A line is a sequence of cells (comma, star, letter, number), so that
an empty field is two commas in a row as in the text; the sections of
`data_conversion` are positions in it, 0 is `NULL`. `count`, `cur_no` and
`cur_index` are computed modulo `ByteRange`. The results of the parsers are not
modelled, since their caller ignores them; `parse_gsv` returns false for
`total_no < cur_no` after it has filled the record. The line may lose its star, get one
in front of the first comma, or carry a changed message number: the code checks
no check sum.

`RtWorkQueue`, `WorkTest`. `list` has both pointers of every node, and
`rt_list_remove` and `rt_list_insert_after` do the assignments of `rtservice.h`
on whatever the pointers are. The board has no soft timer thread, so
`test_timer_timeout` runs in the tick interrupt: one step, between any two of the
shell and the worker. `queued` and `before` record which items were accepted and
in which order; `clobbered` records that `test_timer_init` initialised
`test_work` while it was queued.

## Runs that pass

| run | checks | instance |
|---|---|---|
| `framing` | what is accepted, skipped and waited for; later bytes change no decision | all strings of up to 7 bytes over 8 pieces; shortest frame 5 bytes, so frames with bytes before and behind them, open, blocked and negative check sums occur |
| `parser` | buffer bounds, node and pack accounting, what is queued, what remains, blocked buffers, return of every call | eight kinds of call, buffer of 19 bytes (two sentences and a half), heap of five blocks, every allocation may fail |
| `link_refines_stream` | `NmeaLink` implements `NmeaStream`, liveness included | four streams of two or three sentences with noise, any cut up to 17 bytes, one lost byte, no overflow, enough memory |
| `link_faults` | failing allocations lose nothing and reorder nothing; overflow only loses | any cut, any failure, buffer of 26 bytes (three sentences of 8 fill it), streams of 23 to 31 |
| `scanf` | what is accepted, and that what is accepted was read field by field | a sentence of each kind with one field more than the format (GGA: none more), cut after any field, up to two edits: a field empty, one letter, six digits or a digit and a letter, or another first byte |
| `info` | table bounds, complete cycles, an RMC's word on the fix | table of 4, messages of 2, views of 2 and 3 satellites, a lost message, eight malformed packs, ints of 6 bits |
| `sample` | ring, fifo and queue; bytes in order; when bytes are left behind; that they are read at last | ring of 4, queue of 2 messages, 6 bytes: the ring wraps once, is full and is overrun; a message is dropped, sent before the callback is set, or overtaken |
| `gps` | widths, sections found, records, satellite table | table of 6 with cycles of 0, 1 and 7 satellites, two cycles, message numbers 3, 65 and 256 by noise, GGA and RMC too short, just long enough, with empty fields and too long |
| `workqueue` | list, wake-ups, order, progress | the test's item and two of other threads, all orders |

The bounds are enough for what the properties distinguish: two sentences in the
buffer with a third begun, a chunk that just fits and one that does not, an
allocation that fails first, in the middle and last; a table with a half-filled
last message and a cycle that shrinks; a ring that is full, wrapped and overrun,
half and full transfer in each other's handler; 65 and 256 as the message
numbers at which 8 bits wrap. The proofs cover every other value.

What the properties of `sample` except is what the code really loses: after an
overrun, after a late read of the counter, when the last message was dropped and
when the line went idle again inside the handler. `scanf` excepts an RMC whose
date field has not six characters, and says nothing of whether a sentence with an
empty time is accepted; `info` writes that an int overflow makes possible; `gps` a star before the first comma;
`workqueue` a list that the test itself damaged.

Fairness. `FairSpec` of `NmeaParser` has weak fairness of the steps inside a
call (the thread that called `nmea_parse` keeps running; RT-Thread schedules it
and no step waits for another thread) and strong fairness of a call with at
least one byte, needed only by `BlockedEventuallyCleared`, whose claim is "as
long as bytes keep coming". `LinkSpec` has only the former; that bytes arrive is
not assumed. `NmeaSample` has weak fairness of the line going idle (a receiver
sends bursts), of the handlers (nothing masks them for ever) and of the thread
(it is the only one of its priority that is modelled, and interrupts end);
`ByteArrives` has none. `WorkTest` has weak fairness of a command once it is
entered and strong fairness of the worker, which the shell keeps from running
while a command is executed, and which is ready again and again.
`CHECK_DEADLOCK FALSE` stands where the system may really stop: a bounded
buffer, stream or line that is used up, or a failed assertion.

## Runs that show a disagreement

Each states what a comment or the README says; TLC's trace shows the code doing
otherwise.

* `stuck_sentence`: a `*` followed by four bytes that close no frame stops the
  scan. Complete sentences behind it wait until an overflow throws all away.
* `oversize_call`: `nmea_parser_push` never advances `buff`; a call longer than
  the buffer parses its head again and never its rest.
* `gsa_behind_table`: `inview` is what the GSV announces, and `nmea_gsa_info`
  walks that far.

Seen while modelling, and stated as hazards or as the exceptions of properties:
a pack is lost whenever the fields of a sentence do not parse
(`LeakOnlyOnBadFields` says that this is the only way to lose one); after a
failed allocation the sentences queued before it in the same call are delivered
again (hence "at least once"); `in_use` is set and never cleared;
`nmea_parser_init` returns -1, a true value, on failure; a zeroed `info` keeps
`fix = 0` after an active RMC; a GGA after midnight leaves the date of the day
before; a short date of an RMC shifts the fields behind it; in `gps_parse`, a
star before the first comma makes the section count 255, and a GSV cycle with
fewer than two satellites has too few sections, so that the old table stays;
`test_timer_init` re-initialises a work item that may be queued.

## Proofs

TLAPS checks every leaf. Assumptions are the named `ASSUME`s of the modules: the
four framing characters differ, `HexVal` is an integer, calls hand over byte
strings, sizes are naturals and not 0, GSV numbers are values of an int, a GSV
message's size divides the table's and four numbers per slot fit an int; the
ring's size is even, divides the range of `put_index` and fits in it twice; the
headers are as described above and a call fits the buffer; for `gps_parse`, a
field holds neither a comma nor a star, a cycle has at most 256 satellites (more
would wrap `cur_index` inside one cycle) and the numbers of the satellites that
fit the table are 8-bit values; the list head is no work item; a field that
`nmea_scanf` reads has neither a comma nor a star in it.

* `NmeaTailProofs`: lemmas on `nmea_find_tail`. The key one says that the first
  stop of a buffer is the first stop of every extension of it, from which final
  decisions, exactness of acceptance and safety of skips follow. `WaitCases` goes
  through the outcomes at the first stop and compares a wait with `Open` and
  `Blocked`, neither of which mentions the function.
* `NmeaFramingProofs`: all five properties of the framing run, for every
  alphabet, every check-sum function and every buffer length.
* `NmeaLinkProofs`, on `NmeaParser`: `IInv` strengthens the types with `BufferFits`,
  `NodesAccounted`, `QueuedAreFrames`, `CallShape` (what each `pc` knows about
  `left`, `nparsed` and the unit found) and `ResidueKnown` (what a return leaves
  behind). `BufferFits` alone is not inductive: that a copy fits needs `Take <=
  BuffSize` after a clear, and that a scan stays inside the buffer needs the
  framing lemma on `nread`; that a queued pack is a frame needs `CallShape` to
  carry the accepted check sum across the two allocations. From `IInv` follow
  type correctness, `BufferFits`, `NodesAccounted`, `QueuedAreFrames`,
  `ResidueScanned` and the action properties `BlockedUntilCleared` and
  `LeakOnlyOnBadFields`, for every buffer size, heap and call length and with
  allocations that fail at will.
* `NmeaLinkProofs`, on `NmeaLink`: `AtLeastOnce` and `NoOvertaking` for every stream, cut, loss
  and failing allocation, and the refinement of `NmeaStream`. `PacksOf` is a
  recursive function on the stream; what is needed of it (the packs of a stream
  cut behind a decision are those before the cut followed by those behind it, and
  later bytes only add packs) is proved from a least counterexample, since Nat is
  well-founded. The invariant adds to `IInv` that, unless the buffer overflowed,
  the packs delivered and queued are those of the bytes already consumed and the
  buffer is the rest of the stream (`IsAccounted`); a failed allocation keeps the
  buffer, hence the second delivery. `StepsOfStream` is the refinement step by
  step: a step of parser and line is a `Receive`, a `Deliver` or a stutter of the
  abstract specification as long as nothing failed and nothing overflowed.
* `NmeaScanfProofs`: all three properties of the `scanf` run, for every alphabet,
  every text of the fields and every number of them. The state invariant
  (`ScanfInv`) only says that a handler leaves the tokens of its sentence and an
  answer they allow; the work is in what `nmea_scanf` computes. `ScanfUnfold` turns
  its recursive function into a list of states, one per turn; `InFormat` and
  `InSentence` say where each field stands in format and text. By induction over
  the fields (over a set of field numbers, from the well-foundedness of Nat, since
  the library's induction rule takes an operator), the loop is in step with the
  sentence (`InStep`): it stands behind the comma of field k in both, with the
  values of the fields before k stored, or it has failed behind an overlong
  character field. `FieldTurns` is the step: one conversion ends at the separator
  (or inside an overlong `%C`), three `%2d` end there when the date has six
  characters. `Outcome` is what holds when format or text ends, and `Decoded` the
  same of the values stored, compared with the reference. From it follows, format
  by format, what an accepted sentence holds, and that in a sentence of the right
  shape (with a `$`, a time and a date of the right length, single characters and
  the units of a VTG; other fields may be empty) nothing is overlong, so that all conversions take their token, the time
  scans (`TimeRead`) and the units of a VTG are the right ones.
* `NmeaInfoProofs`: `nmea_gsv_info` writes inside the table, for every table and
  message size and every width of an int; and `VerdictKept`. The invariant adds
  that the receiver's own messages are made of integers; the arithmetic is in
  `GsvSlotsInTable`. `CInv` carries the types and `CycleInstalled`: that the table
  holds a complete cycle is not inductive, that every message which arrived so far
  is `Installed` in its own slots is, because the slots of two messages do not
  overlap, other sentences leave the ids alone, and a message of a cycle that
  fits is never refused or ignored (`OwnMessage`). `SlotsNarrow` keeps the types
  for packs whose numbers wrap: slots inside the table are never more than the
  satellites a pack carries.
* `NmeaSampleProofs`: the invariant is `Typed` (indices in the ring whatever
  length is counted, also a negative one), `Conserved` (every message of the
  queue is on one list or in one hand) and, as long as nothing was overrun or
  read late, `Exact`: `last_index` and `get_index` are the numbers of bytes taken
  by the handlers and by the thread, modulo the ring; the fifo holds the bytes
  entered and not read; the full transfer is pending just when the DMA is a lap
  ahead of what the handlers have taken. `FifoExact` alone is not inductive: a
  length in a handler's hand is entered later, and that a difference of two
  counter readings is the number of bytes in between needs to know which lap each
  belongs to. From `Exact` follow `FifoExact` and `InOrder`, for every ring size,
  queue length and interleaving. `BytesCounted` adds `IdleSeen`: an idle line
  whose bytes are not all counted still has its interrupt or its handler to come.
  `BytesAnnounced` adds `Announced`: what was counted and is not read is covered by
  a message in the queue, in a handler's hand or in the thread's, a later message
  covering those dropped before it.
* `GpsParseProofs`: all four properties of the `gps` run, for all lists of fields
  and every table size. `FlattenSeq` is unfolded once (`FlattenUnfold`), which
  gives where each field of a line lies (`Laid`); `Ranks` says that the k-th comma
  before the star is the one in front of field k. From these, `Converts`: in
  every line that may come for a list of fields, `data_conversion` finds nothing
  or all of them, as far as there is room, an empty field showing the comma or
  star behind it, of which a record keeps the same. The test of the number of
  sections therefore covers the sections read, the records decode, and a message
  of the receiver's own fills exactly the slots of its satellites (`OwnMessage`),
  a signal id behind them never being taken for one. With the receiver's type the
  four properties are inductive together (`GpsIInv`).
* `WorkTestProofs`: type correctness even for a damaged list; as long as no
  queued item was re-initialised, that the pointers are inverse to each other and
  agree with the flags, that a suspended worker has nothing to do, and that items
  run in the order of their acceptance, for any number of items. The invariant
  adds that the order of acceptance is strict and agrees with the pointers (each
  item precedes its successor, and what precedes an item precedes or is its
  predecessor in the list), which replaces an induction along the list.

Only model-checked: liveness (`CallReturns`, `BlockedEventuallyCleared`,
`EventuallyRead`, `WorkIsDone`, and that `NmeaLink` catches up with its stream,
the fairness half of `ImplementsStream`), which is out of the prover's reach;
and `OverflowOnlyLoses`, which is no theorem of every stream (clearing a blocked
buffer brings back sentences that one scan of the whole stream never reaches, and
lost bytes may leave a frame that was not sent) but a fact about streams of
sentences and noise as a receiver sends them.

## Not modelled, and the plan

* The nmealib package is the third-party original of nmea_parse.c; its parser,
  `parse.c` and `tok.c` are the code modelled here before it was rearranged. Its
  generators and `gmath.c` are floating-point formulas and text formatting.
* `convert_time.c` is one call of `mktime` that nothing in the repository calls.
* The tests and shell commands drive the modelled functions with literal
  sentences; the board's display and input glue is hardware access.
* RT-Thread is modelled where the program's own correctness rests on it (serial
  device in DMA mode, message queue, work queue without delayed submission); the
  scheduler, heap, timers, HAL and SDL are not.
* `nmea_parser_top` and `nmea_parser_peek` only read and have no caller;
  `nmea_parser_drop` is part of `nmea_parser_queue_clear`. The linked list behind
  the queue is a sequence.

Left: what a receiver's stream must look like for `OverflowOnlyLoses` to be a
theorem; larger views for `info`.
