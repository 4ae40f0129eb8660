# A TLA+ model of rewind

`rewind` records what bare-metal firmware reads from its peripherals and when
its interrupts land, and replays the recording on a host, forwards and
backwards. This directory holds a TLA+ model of it: modules translated from the
sources, TLC configurations that check them on small instances, and TLAPS
proofs of the results that matter most, for every firmware and every device.

All paths below are relative to `src/`.

## 1. The system

| Component | State it keeps | Operations | What makes it correct |
|---|---|---|---|
| HAL shim (`target/src/hal.cpp`) | backend, mode, writer, handler table, mask depth, "in a handler", first divergence | `mmio_read32`, `mmio_write32`, `hal_irq_disable/enable`, `pump_irqs`, `hal_record_irq_entry(_at)`, mode switches | an interrupt lands only behind an access, never in a critical section or a handler, and is recorded exactly there |
| Replay backend (`host/src/replay.cpp`) | events, cursor, clock, first divergence, capture point | `read32`, `write32`, `poll_irq`, `set_cursor`, `maybe_capture` | serves the recording at the same points; reports the first thing that is not in it |
| Sessions (`host/src/session.cpp`) | none of their own | `record_run`, `replay_run(_as)`, `record_buffered` | a replay ends in the state that was recorded, or says so |
| Example firmware (`firmware/src/rx_pump.cpp`) | ring, head, tail, `pending`, counters | UART handler, drain loop in two variants | no byte is lost unseen; the fixed variant's `pending` counts the ring |
| Simulated part (`sim/src/mcu.cpp`) | cycle counter, arrival schedule, data register, latched interrupt | `read32`, `write32`, `poll_irq` | a byte, once delivered, waits until it is read |
| Timeline (`host/src/timeline.cpp`) | checkpoints, position | `open`, `seek`, `step_back/forward`, `find_first` | every answer is a state of the recorded run, and the right one |
| Trace writer (`core/src/trace_writer.cpp`) | block being staged, running time and address, sequence number, losses, latched error | `begin`, `mmio_read/write`, `irq_enter(_at)`, `finish` | what reaches the sink decodes to what was recorded, and the writer counts what is lost |
| Trace reader (`core/src/trace_reader.cpp`) | position, running time and address, expected sequence number, error | `open`, `next` | hands out a prefix of the recording and never anything else |
| Ring buffer (`core/src/ring_buffer.cpp`) | bytes, two free-running counters, drop counters | `push`, `peek`, `consume`, `reset` | a bounded FIFO between two unsynchronised sides |
| Recorder (`target/src/recorder.cpp`) | a writer, a ring buffer | `begin`, `start`, `stop`, `drain`, the sink | whole blocks or none reach the link; health is reported |
| Clock extender (`target/src/clock.cpp`) | last sample, wraps, suspicious gaps | `extend`, `reset` | exact as long as no wrap is missed; doubt is counted |
| Cortex-M backend (`target/src/cortex_m.cpp`) | the clock extender | register access, time, handler entry | a handler that lands anywhere is recorded, and its replay is exact or reported |
| Codec (`core/src/varint.cpp`, `varint.h`, `crc32.cpp`) | none | encode, decode, checksum | round trip; nothing out of range is accepted; the CRC is the standard's |
| Command line (`host/src/main.cpp`) | none | file I/O and printing | |

How they meet: the firmware calls only the shim; the shim calls a backend (the
simulated part, the silicon, or the replay backend) and, while recording, the
writer; the writer calls its sink with whole pieces (the header, a block, the
terminator); on a device the sink pushes them into the ring buffer, which the
main loop drains into a link. On the host the reader decodes the stream, the
replay backend serves its events to the same firmware, and the timeline drives
that replay from checkpoints, one main-loop iteration at a time.

The hard parts are the interleaving of handlers and main loop, on the part at any
instruction; the *order* in which the replay serves interrupts relative to
accesses; pieces that are refused, cut, damaged or repeated one at a time while
deltas run across all of them; a writer, a clock and a buffer that a handler may
enter while the main loop is in them; two sides of a buffer that share memory without locks; and the many
pieces of state a timeline replaces under a running replay. `PROJECT.json` lists
them, each at its line, with the properties that watch it.

## 2. The modules

```
 Hal ──┐
       ├─ RecordReplay ─┬─ RxPumpSystem ── MCRxPump
 RxPump ┤               ├─ Hardware ────── MCScript
 Mcu ───┘               └─ Timeline ────── MCTimeline

 TraceWriter ┬─ TraceStream (implements EventStream) ── MCTraceStream
 TraceReader ┤
 Clock ──────┴─ Recorder ────────────────────────────── MCRecorder

 RingBuffer (implements ByteQueue) ── MCRingBuffer
 Varint, Crc32 ── BlockCodec ── MCBlockCodec
```

The theorems are in modules of their own that extend these (section 4):
`RecordReplayProofs` for RecordReplay and Hardware, `RxPumpProofs` for RxPumpSystem,
`TimelineProofs`, `TraceStreamProofs`, `RingBufferProofs`, `RecorderProofs`, and
`BlockCodecProofs` for Varint, Crc32 and BlockCodec. What TraceStream and Recorder have
in common, the laws of TraceWriter's encodings and of TraceReader, is in `TraceProofs`.

**Hal** is the shim as functions on a *machine*: the firmware's state, the mask
depth, the in-handler flag, and whether the firmware runs or `pump_irqs` is
about to poll. The firmware is a parameter: a deterministic program seen as the
calls it makes (`Request`, `Resume`, `EnterIsr`). `Pump` is the test at the head
of `pump_irqs`, `Dispatch`, `HandlerReturn` and `PumpDone` are its loop; the
value an access read is held in `ret` until its pump loop is over, as the C++
local is.

**RxPump** is the example firmware as such a program, one state between any two
of its accesses to what it shares or to the shim. **Mcu** is the simulated part:
its operators return the *set* of outcomes, because the pseudo-random bytes and
jitters are choices. Time is counted in accesses, each of which costs the same
`kMmioCost` cycles.

**RecordReplay** is the state machine: a recording (`record_run`: one action per
shim operation in `MODE_RECORD`), `StopAndReplay`, and a replay
(`replay_run_as`: one action per operation of `ReplayHal`). Its variables are
`hal` (the machine), `dev`, `trace`, `cursor`, `now` and `divergence`, as in the
code, and three history variables: `path` keeps the machines the recording went
through, `step` counts the replay's steps, `from` is the firmware the recording,
later the replay, started in: `ReplayedAs` says which may replay which.  `Recorded`
is the one that was recorded. A trace is a list of events here; what its bytes keep of it is
the subject of TraceStream.

**RxPumpSystem** puts the firmware on the part and states the properties that
speak of both.

**Hardware** adds a second backend to record on: the part itself. There
`poll_irq` has nothing to say; the NVIC enters `rwd_cortex_m_isr_entry` in front
of any instruction, the shim's critical sections included. A main-loop access is
three steps (`PartAccess`: the register, `PartRecord`: the event, `PartReturn`),
and `NvicEnters` may come before, between or behind them. The replay is
RecordReplay's. The history variable `landed` says where the first interrupt
landed that did not land directly behind an unmasked access: "hidden" (the main loop's
last access was a masked one, or there was none yet), "masked" (inside a critical
section that has recorded no access yet) or "between" (after other code that ran
since). The last two a replay enters behind the access before them. Handlers share
one priority, so none preempts another. **MCScript** drives both backends
with scripted firmware of the kind `tests/test_hal.cpp` uses: critical sections,
a handler with a critical section of its own, vectors without a handler.

**Timeline** extends the recording with `open`, `seek`, `step_back`,
`step_forward` and `find_first`, a call at a time, each executed step by step
through `RecordReplay`'s replay actions. Its `job` is the call in progress (its
target, the iteration, whether the capture point has fired, the bounds of a
bisection); `path` is what its answers are compared with.

**TraceWriter** and **TraceReader** are operators on a writer and a reader
record, one per method; methods that call the sink return a set of outcomes. An
event is staged with the *deltas* of the format, against the writer's running
time and address, and decoded against the reader's: the round trip is modelled,
not assumed. Its encoded length, which decides when a block is flushed, is any
of `EventSizes`. **TraceStream** joins them with a sink that may refuse any
piece and a link (`Carry...`) that may cut the stream, damage one block or
deliver one twice. **EventStream** is what a trace promises: the events, in
order, from the first, until the reader stops.

**Recorder** composes clock, writer, ring, drain and reader on such a part. The
main loop's call of the writer is split wherever it reads what a handler may
write: the counter (`Sample`), the clock (`Stamp`), the guards and deltas
(`Encode`), the room (`Room`), the frame (`Frame`), the push (`PushBlock`,
`PublishPiece`), the spent block (`Spend`), the staged event (`AppendEvent`) and
the running state (`Commit`). A handler (`Handler`: an interrupt entry and one
read) comes between any two of them, or between two units of a copy, and runs
whole. The ring holds units here, one for a piece's framing and one for each
event; `Reassembled` is what the host makes of the units the link carried, and
`Reading` what `TraceReader` then hands out. `torn` records that a handler came
inside a call. **Clock** is `ClockExtender::extend`; `Recorder`'s history
variable `samples` keeps what a true clock would have said.

**Varint** and **Crc32** are the codecs: varints on words of any width, the CRC
on all of its 32 bits with the table of the code (a word is the set of its bits).
**BlockCodec** stages events in bytes as `write_mmio` and `write_plain` do,
frames them as `flush_block` does, has a link damage or forge the block, and
parses it as `load_next_block` and `next` do, range checks included.

**RingBuffer** is the buffer with each side stopped between any two accesses of
shared memory: the push tests for room, copies byte by byte, publishes, and
updates its mark; the drain peeks, hands bytes to the link and consumes.
Counters are `Wrap` wide (2^32 in the code). **ByteQueue** is the bounded FIFO
it implements.

Definitions whose comment begins with "A slip" are wrong on purpose: each is a
plausible error in the definition that follows it, and one of the properties
below fails when it takes that definition's place. No specification uses them.

## 3. What is checked

Runs that must pass:

| Run | Instance | What it shows |
|---|---|---|
| `rx` | both variants, 3-cell ring, 4 bytes, 8 iterations; each recording replayed by either variant, for one iteration less to one more | `PendingCountsTheRing` of the fixed variant; `EveryByteAccountedFor` of both: a ring that did not overflow has lost nothing. `Lockstep`: the right firmware's replay is, machine by machine, the recording; `SameWorkOrDivergence`, `OverrunDiverges`: any other is found out; `ReplayEventuallyEnds` for all of them |
| `script` | scripted firmware, 2 interrupts anywhere, recorded behind the polling shim or on the part | `ShimLockstep`, `NoMaskedIrq`, `PumpDrains` of the shim; `BehindAnAccessIsExact`, `HiddenIsReported` of the part: an interrupt that landed behind an access is replayed exactly, one that landed behind an access inside a critical section, or before the first access, never passes unnoticed; of one inside a critical section that has made no access yet nothing is promised (`hw_mid`) |
| `trace_stream` | 3 events of 4 kinds, 1 or 2 long, blocks of 3 | `GotIsPrefix`, `GapIsExact`, `LossIsKnown`, `ErrorSilencesTheWriter`, `ImplementsEventStream`, `ReaderStops` |
| `ring_buffer` | 4 bytes, counters modulo 8, blocks of 1, 2, 3 and 5 | `ImplementsByteQueue`, `SidesKeepApart`, `OfferStands` |
| `timeline` | 5 iterations, 3 bytes, a checkpoint every 2, 2 calls | `CheckpointsAreComplete`, `SeekIsExact`, `FindsTheFirst`, `BackwardsUndoesWork`, `CallsReturn` |
| `recorder` | 3 accesses, 1 handler anywhere, a ring of 4 units, blocks of 2 events, a counter that wraps at 4 | `ClockIsExact` however samples interleave, if they come in order and close enough; `SuspicionIsFounded`, `LatchedOnlyIfTorn`, `AloneIsPrefix`, `HealthyAloneIsWhole`: without a handler inside a call, what the host reads is a prefix, and all of it when the recorder is healthy; `DrainEnds` |
| `codec` | 5-bit words in 2-bit digits, 3-bit addresses, 2 events, 32-bit CRC; every change of a byte under the checksum but the last one, with the byte behind it inverted or not, the last one inverted, or one bit of the checksum; 2338 forged payloads | `ReadsWhatWasSent`: the round trip; `AcceptedIsIntact`: damage is caught and the CRC is the bitwise standard's; `ParsesExactly`: of any bytes the reader accepts exactly what spells an event that fits |

Runs in which TLC finds a statement of a comment or a document violated. Each
checks one property, and `PROJECT.json` ("findings") quotes the statement:

| Run | Statement | What the code does |
|---|---|---|
| `script_nowrites` | a replay without recorded writes "is still correct" | an interrupt recorded after a write is served before it |
| `hw_mid` | an interrupt that landed mid-computation "will be reported as a divergence rather than replayed wrongly" | it is replayed in front of the computation; when the handler's own accesses fit, nothing diverges. A critical section without an access, as those of `rx_pump`, is such a computation |
| `trace_hole` | sequence numbers show a hole "exactly where and how big" | not when the last block is refused and the terminator taken |
| `recorder_healthy` | "the sink masks interrupts around the push itself"; healthy means everything "reached the ring" | the mask only counts on the Cortex-M backend: a recording handler inside a call of the writer spoils blocks of a recorder that stays healthy |
| `clock_gaps` | gaps beyond half a period are counted "so the doubt is reported" | a gap across a wrap is never counted |

More of the kind were met on the way and have no run of their own; the models
have each of them:

- `pump_irqs` tests the mask before its loop and not again (`target/src/hal.cpp:38`):
  a handler that returns with interrupts masked is followed by the next one, although
  `hal.h:115-117` says that while masked no interrupt is dispatched.
- On the part an interrupt inside a critical section that makes no access is replayed
  in front of the section, at times to a clean end in another state, although
  `hal.h:115-117` says that none is recorded there and the section looks the same in
  a trace as it did on the wire.
- A trace cut inside a block is an error of the reader (`core/src/trace_reader.cpp:104`)
  and `ReplayHal::load` then refuses all of it, although `trace.h:23-26` says that the
  reader "stops cleanly at the tail".
- The length word is outside the CRC, and zero in it is the terminator
  (`core/src/trace_reader.cpp:89`): damage there may end a trace as if it were
  complete, although `trace_reader.h:8-10` says that it is reported at the block.
- `high_water_` is taken from a second reading of the occupancy
  (`core/src/ring_buffer.cpp:99`) and may miss the peak that `ring_buffer.h:96` names.
- A seek to the event a checkpoint was taken at answers with the first access of the
  next iteration (`host/src/timeline.cpp:91`). From an earlier checkpoint it stops at the
  poll in front of the code that ends the iteration, `pending = 0` for example, although
  `docs/design/reverse-execution.md:110-113` says the two are indistinguishable; the
  forty points `tests/test_timeline.cpp:55` compares at need not meet such an event.
  `SeekIsExact` is relative to the checkpoint for that reason.
- `begin()` sets `ok_` but keeps the `err_` of an earlier refused `begin()`, although
  `core/include/rewind/trace_writer.h:89` says `error()` is "" while healthy.
- A seek to `event_count()` is captured at the interrupt poll behind the last access,
  before the code that ends the run, although `host/include/rewind/timeline.h:87`
  calls it "the state at the end".

### Bounds

- *Recordings.* `TxTotal` bytes in frames of `FrameLen`, gaps from `ByteGaps`
  and `FrameGaps`, `Iters` iterations. The gaps straddle the drain loop (a pass
  over one byte makes two accesses, the handler two), so that a byte lands before,
  inside and after it, as the comment on the arrival schedule in
  `sim/include/sim/mcu.h` requires. Four bytes make more than one frame. The
  real first gap of some 200 accesses is shortened: idle iterations in between
  repeat one state.
- *Ring of the firmware.* 3 cells, two of them usable: four bytes overflow it in
  some schedules, and in others the buggy variant loses one without an overflow.
  16 in the code: the indices' arithmetic is the same.
- *Scripts.* Two interrupts from three vectors, at any of up to nine accesses:
  two suffice to be pending together, to arrive during a handler, and to
  straddle a critical section; on the part, one may land in the right place and
  the other not. All handlers of the scripts unmask.
- *Timeline.* 5 iterations with a checkpoint every 2 give three checkpoints,
  the last inside the run; `ByteGaps = {3, 5}` makes the handler run during the
  drain and in an idle iteration between two checkpoints. Two calls exercise
  every pair of a call and what the last one left over; a bisection is one call.
- *Stream.* `MaxEvents = 3` and the stop event, in blocks that hold one to three
  events, give up to four blocks: enough for a hole at the start, in the middle
  and at the end, with a block behind it.
- *Ring buffer.* `Cap = 4`, `Wrap = 8`: a block can wrap around the store, the
  counters wrap around twice as often, and one block never fits. `MaxDrops`
  bounds only the counter of refusals.
- *Recorder.* Three accesses with blocks of two events and a stop event make two
  blocks and a terminator for a ring that holds a block and a half: blocks are
  taken and refused, and a piece wraps around. One handler writes two events, enough
  to fill a block inside a call. `Wrap = 4` with gaps of 1 and 3 cycles puts samples
  less and more than half a wrap apart, in order and, through the handler, out of
  it. The two violations need two accesses only.
- *Codec.* `MaxBytes = 3` digits with one useful bit in the last, as 64 = 9 * 7 + 1;
  `Space32 = 8` leaves room for deltas beyond the address space in both directions.
  Two events and one block at a time: the next block's deltas run on from the last.

### Fairness

`FairSpec` of RecordReplay is `WF_vars(Next)`: the recording and the replay are
single-threaded loops that nothing suspends. TraceStream assumes it of the link
and the host only (`Carry`, `CallOpen`, `CallNext`): what was sent arrives in some
form, and `load` calls `next()` until the reader stops; nobody makes the device
record or finish. The timeline assumes it of a call in progress,
not of making calls. The recorder assumes it of the loop behind `stop()`
(`record_buffered`), which nothing suspends and whose transport always returns;
not of the firmware, and not of the link: a drain may move nothing, and that ends
the loop. RingBuffer, Hardware and BlockCodec need none: their properties are safety.

Deadlock is not checked where the run is meant to end (a finished replay, a
stopped reader, a timeline that has made its calls); it is checked for the ring
buffer.

## 4. What is proved

TLAPS proves the following for every value of the constants: the sizes, widths,
schedules and bounds a `.cfg` makes small are arbitrary here, and so are the
firmware and the device where a theorem does not name them.

| Module | Theorem | States |
|---|---|---|
| `RecordReplayProofs` | `TypeCorrect`, `GoldenProperty`, `SameEndCorrect` | `[]TypeOK`; with writes recorded, `[]Lockstep` and `[]SameEnd` |
| `RecordReplayProofs`, of Hardware | `ShimLockstepCorrect`, `BehindAnAccessIsExactCorrect`, `HiddenIsReportedCorrect`, `PumpDrainsCorrect`, `HardwareTypeCorrect`, `NoMaskedIrqCorrect` | with writes recorded, `[]ShimLockstep`, `[]BehindAnAccessIsExact` and `[]HiddenIsReported`; of a device with `EmptyStaysEmpty`, `PumpDrains`; of firmware whose handlers come back, `[]HardwareTypeOK`, and whose handlers unmask, `NoMaskedIrq` |
| `RxPumpProofs` | `PendingCorrect`, `EveryByteCorrect`, `OverrunDivergesCorrect`, `SameWorkOrDivergenceCorrect` | `[]PendingCountsTheRing`, `[]EveryByteAccountedFor`; with writes recorded, `[]OverrunDiverges` and `[]SameWorkOrDivergence` |
| `TimelineProofs` | `TimelineTypeCorrect`, `CheckpointsAreCompleteCorrect`, `SeekIsExactCorrect`, `FindsTheFirstCorrect`, `BackwardsUndoesWorkCorrect` | of the example with writes recorded, `[]TimelineTypeOK`, `[]CheckpointsAreComplete`, `[]SeekIsExact`, `[]FindsTheFirst`; if the clock of the device runs forward, `BackwardsUndoesWork` |
| `TraceStreamProofs` | `StreamTypeCorrect`, `PrefixCorrect`, `SilenceCorrect`, `StreamIsImplemented`, `GapIsExactCorrect`, `LossIsKnownCorrect` | `[]TypeOK`, `[]GotIsPrefix`, `ErrorSilencesTheWriter`, `ImplementsEventStream`, `[]GapIsExact`, `[]LossIsKnown` |
| `RingBufferProofs` | `RingTypeCorrect`, `SidesKeepApartCorrect`, `OfferStandsCorrect`, `RingIsAByteQueue` | `[]TypeOK`, `[]SidesKeepApart`, `[]OfferStands`, `ImplementsByteQueue` |
| `RecorderProofs` | `ClockCorrect`, `SuspicionCorrect`, `RecTypeCorrect`, `LatchedCorrect`, `AlonePrefixCorrect`, `HealthyAloneCorrect` | `[]ClockIsExact`, `[]SuspicionIsFounded`; into the ring, `[]RecTypeOK`, `[]LatchedOnlyIfTorn`, `[]AloneIsPrefix` and `[]HealthyAloneIsWhole` |
| `BlockCodecProofs` | `BlockTypeCorrect`, `ReadsCorrect`, `AcceptedCorrect`, `ParsesCorrect`, `RoundTrip`, `ZigZagRoundTrip`, `BurstIsSeen`, `EveryRegisterIsStandard` | types and checksums (`BlockInv`), `[]ReadsWhatWasSent`, `AcceptedIsIntact`, `ParsesExactly`; of the functions, what their names say |

### Record and replay

`GoldenProperty`: a replay of the firmware that was recorded goes through exactly
the machines of the recording, and never diverges. It and `SameEndCorrect` speak of
the replays that start in the recorded firmware, out of all those `ReplayedAs`
allows, and assume that writes are recorded. The only other assumption is the
module's own, that `RecordWrites` is a Boolean. That the firmware is deterministic
is not an assumption but the shape of the model: `Resume` and `EnterIsr` are
operators. It stands for what `docs/design/execution-model.md` asks of firmware,
that all of its inputs come through the shim. `SameEnd` is an invariant of the run
`script_nowrites`, which refutes it without that assumption.

`Lockstep` is not inductive: nothing in it says that the event at the cursor is
the one the next step needs. `IInv` adds three parts. `PathInv` says that the
recording explains itself: each machine of `path` is followed by the machine
that the operation it stands at makes of it, with the event that operation
recorded (or none) at its place in the trace. `RecordInv` ties the current
machine and the trace to the end of `path`. `ReplayInv` says that the replay
of the recorded firmware stands at `path[step]` with as many events consumed as were recorded there, and
that from the end of `path` the only event left is the stop event. A step of the
replay then looks up what the recording did at the same place: the event is at
the cursor because `PathInv` put it there (`EventRecorded`), and a poll that
recorded nothing finds none, because what comes next in the trace is then an
access or the stop event (`NothingRecorded`). That last fact is where recorded
writes are needed, and where `script_nowrites` finds the proof's missing
hypothesis to be a real one.

### The example firmware

The hypotheses say what the substitutions of `MCRxPump.cfg` say: `RunsTheExample`
(the firmware behind the shim is RxPump's, and starts after `rx_pump_reset`) and,
for `EveryByteCorrect`, `OnTheSimulatedPart` (the device is Mcu's). `PendingCorrect`
needs no device at all.

Both rest on where the handler can be. `pump_irqs` polls behind an access of the
main loop that runs unmasked, so under a handler the main loop stands at one of
three accesses (`Placed`), and never inside its critical sections or between the
two indices. `Balanced` is then the strengthening of `PendingCountsTheRing`: at
each position of the drain loop it says what `n`, `i` and `pending` are to each
other, in both variants as an inequality, in the fixed one as an equality. For the
bytes, `FlowInv` says that without an overflow what the device delivered is, in
order, what was consumed, the ring from `tail` to `head`, and the byte the device
still holds; and that the handler is at the data register only while it holds one.

The two theorems about replays of something else than was recorded assume recorded
writes and, again, nothing of the device. `OverrunDivergesCorrect` needs in addition
that the counts of iterations are natural numbers (`CountsIterations`): they are
`unsigned`. Such a replay is the recording with more to go (`Along`) until the
recording's last look at its count; from there it goes on where the recording
halted (`Beyond`), and its next access meets the stop event. The critical sections of
another iteration are no event, so it gets there in silence.

`SameWorkOrDivergenceCorrect` relates the replay of one variant to the recording of the other,
step by step. Between two bytes the variants go different ways: they mask or not,
and keep different books of `pending`, so the work done is compared (`SameWork`), and
the positions only inside an access, where an interrupt can come: there both are at
the same place (`Alike`). What makes this hard is that both main loops read the
counter, to pass the time when they see nothing pending and to stamp a byte when
they do, and the event is the same. A replay can therefore be at one of these while
the recording was at the other (`Crossed`), go through the same interrupts there, and
be found out only afterwards, when one of them shows a byte and the other does not:
by a mismatch of the replay's write (`ShowFails`), or of its next access when the
write was the recording's (`NoAnswer`). Since a step of the replay in a gap cannot
know what the recording did next, `Orderly` keeps it as history: from every machine
between two bytes the recording went on to a read of the counter, by a main loop that
did the same work on the way, or stayed in the gap to its end (`Bridged`). `MaskInv` says which
positions are inside critical sections, so that every access of the main loop polls.
A run's end is such a gap without another event, which is why a finished replay that
has used up the trace did the same work, and why `pending` is left out: nothing in
the trace depends on its last value.

### Recordings on the part

`ShimLockstep` is the golden property once more, of the recordings Hardware makes
behind the shim: their steps are RecordReplay's, so `IInv` holds of them.

A recording made on the part goes through machines that no replay goes through:
the shim does not poll there. As long as every interrupt landed directly behind
an unmasked access, the trace can be *read* as one the shim made, whose main loop
is in `pump_irqs` wherever the hardware had it waiting behind its access. This
shadow recording is kept nowhere in the model; the invariant says that one exists
which the trace explains (`Told`) and which ends where the recording stands
(`AsReplayed`). A replay takes the shadow's steps, so it ends in the recorded
state with every event consumed (`BehindAnAccessIsExact`). The first interrupt
that lands elsewhere ends the shadow. When the main loop's last access was a masked
one, or there was none ("hidden"), the replay gets to its place in the trace,
finds no poll there, and the event stays at its cursor until an access diverges
over it or the firmware stops in front of it (`HiddenIsReported`). Nothing of the
kind holds of "masked" and "between": the replay polls behind the access in front of
them, finds the event, and `hw_mid` shows what that leads to.

`PumpDrains` needs neither recorded writes nor anything of the firmware, but
something of the device: `EmptyStaysEmpty`, one that has no interrupt to deliver
does not raise one by being polled for it. The simulated part's `poll_irq` only
hands over what was latched.

`HardwareTypeCorrect` and `NoMaskedIrqCorrect` are about firmware whose handlers are
functions in C. `HandlersComeBack(F, H, V)` says so of a set `F` of states of the main
loop and a set `H` of states of handlers, each with the main loop's state it runs
over and the depth of its own critical sections: a handler ends in the call the main loop was at. `HandlersUnmask(H)`
says that it ends with the mask it found. Both are evaluated on every run of the
scripts (`ScriptsAreC`), with the sets given there; `Answers(D, V)` adds that the
devices of `D` answer with the values `F` and `H` were made for, which the scripts'
do for all devices. On the part a handler may run between the access, its event and its
return, and `Suspended` carries the main loop's access across it. Behind the shim,
`Nested` carries the mask depth zero, at which `pump_irqs` was entered, through every
handler and back into the loop. That is what the loop's missing second look at the
mask needs, and what a handler that returns masked would break (section 3).

### The timeline

`RunsTheExample` and `RecordWrites` are the hypotheses; the device, the number of
iterations, the variant, the distance of the checkpoints and the calls are arbitrary.
`BackwardsUndoesWork` also speaks of time, and assumes a set `D` of devices that
the firmware's accesses do not leave and none of which sets its clock back
(`ClockRuns`); that the simulated part is one is the lemma `PartClockRuns`.

*The recording.* Facts about places of it that lie apart are induction along
`path`. The library's induction theorems cannot be instantiated here, but that a
set of natural numbers has a least element can be proved (`Least`), and carries
it (`Climbs`): iterations only go down, events and consumed bytes only go up
(`PathOrder`), the head of an iteration lies at one place (`HeadIs`), and every
event served has an access of its own (`EventHasAccess`).

*The run behind it.* `seek` restores a checkpoint and runs the firmware for one
iteration, then for the next one. This firmware has fewer iterations to go than the
recorded one had there, and is otherwise the same: `Ahead(path[p].m, Lag)`. `Sooner`
commutes with every step of the example except the last of an iteration, where the
recorded firmware goes to the head of the next one and the re-executed one ends
(`MainShifts`, `NoneLeft`). So `Behind(p)` holds of some place `p` all along, no
replay diverges, and what is captured at the end of an iteration is what the next
one needs (`RestoreIs`) and what a checkpoint has to be (`Describes`).

*The calls.* `SeekInv`: from the head where the seek started to where it is, no
machine served the event, or the snapshot is that of the first one which did.
`FindInv`: at `hi` the work has been done, and in front of `lo` it has not, which
`find_first` reports when they meet. That its answer is the *first* event needs that
the work done grows with the event (`WorthGrows`), wherever the seeks for the two
events started. `AnswerInv` says that of the last answer while nothing is under way;
no call touches the recording or the checkpoints again (`AnsweredKeeps`).

### The stream

All but `SilenceCorrect`, which holds of any sink, assume `TakesOrRefuses`: the sink
takes a piece whole or leaves everything as it was, as `trace_writer.h:41-44` has it. The module's assumption on `Calls` says what an event is.

`GotIsPrefix` says nothing of what is on its way. Every event has one encoding,
given by its place in the recording (`EncodedAt`), because the writer's running
time and address behind `n` events depend only on them. After how many events each
block number starts is kept nowhere in the program: the invariant says that there
is a function `cuts` that tells (`Inv`). `Kept` is the writer's part: the block in
the buffer and every block the sink took hold the encodings of their share. It
survives a refusal because the number of a refused block is spent with it.
`Arrives` says of whatever the link makes of the stream that every undamaged block
in it is one of these, wherever it stands and however often. `Reads` is the
reader's: it accepts block numbers only in a row, so it stands at the encodings
that follow what it handed out, with the running state they were made against.

What is missing is known by the numbers of the blocks. `Ordered`: the sink holds
blocks with growing numbers, and the block at a place has the number it would have
without a loss plus at most as many as were lost by then. The link may repeat, cut
and damage, but what it delivers intact the sink took. So the reader, which expects
the number behind the last block it read, counts exactly the numbers in between,
none of which the sink holds (`GapIsExact`); and one that came to the terminator of
an undamaged trace, of a writer that counted no loss and latched no error, has gone
through all the blocks there are (`LossIsKnown`: of a loss the host cannot see, as in
`trace_hole`, the writer knows).

### The ring buffer

The assumptions are the module's: the width of the counters is a multiple of the
capacity, at least twice it, and blocks are not empty. Cells are numbered from the
tail: `Cell(k)` for `k < Cap`, all different although both counters wrap around
(`WithinATurn`). The invariant is `CountersInv` (the occupancy is within the
capacity), `PushInv` (the block fits the room there is, and what has been copied
lies behind the held bytes) and `DrainInv` (the chunk is made of the first cells
held, and what has been read of it is what they hold). The other side only ever
makes room or bytes: `PushInv` survives a `Consume`, and `DrainInv` a `Publish`. The
refinement maps the queue to the bytes between the counters; only the publication of
the head and of the tail change it, each by whole sequences.

### The recorder and its clock

No assumptions but the modules' own on the constants. The firmware, the handler, the
writer and the link do whatever Recorder lets them, at any point. `InStep`: what the
clock last saw is the remainder of the last sample, late or not, so a true step of
less than a wrap is told from the two remainders alone (`StepIs`). `Fresh`: a sample
lies behind the last one only when a handler came between the main loop's reading
of the counter and its use, so without one (`~torn`) the gaps `extend` sees are the
true ones, and it counts only the long ones.

The other four take one hypothesis more, what `MCRecorder.cfg`
says by its substitution: the writer's sink is the ring (`PushesToTheRing`). `RecInv`
counts what writer, ring and link hold, and follows the main loop's call with what it
has found out: as long as no handler comes, the piece being pushed still fits the ring,
the event to be staged still fits the block (`Fitting`), and the time the call carries
lies between the last one in the trace and the clock (`Timely`). The clock may be fed
late samples and even then only moves forward (`ExtendGrows`); that is why a handler
between two calls of the main loop cannot make the writer latch an error, and one
inside a call can: it moves the trace past the time the call has in its hands.

`AloneIsPrefix` and `HealthyAloneIsWhole` compare what was recorded with what the
host reads of the link at the very end, through a ring, a drain and two recursive
functions. Three steps lead from one to the other.

*The trace as one stream.* What the link has carried and what the ring still holds
are one sequence of units (`Stream`), which a drain does not change: it only moves the
border. A push puts the units of one piece behind it (`StreamGrows`), or nothing.
`TraceInv` says of it, for as long as no handler has recorded inside a call, what
`Inv` of TraceStreamProofs says of the pieces the sink took: there are cuts of the
recording, after how many events each block number starts, such that every piece in
the stream is the header, the terminator or a block with the encodings of its share,
its units in a row, and the writer's buffer and running state are those of the share
that is left (`Told`). If the ring has refused nothing, moreover, the header, every
block and the terminator lie one behind the other, from the first unit to the last
(`Whole`). In the middle of a call the main loop's position says how much of its
change has been made: whether the staged block already counts as sent (`Blocks`) and
whether the stop event is behind it (`Ends`).

*What the host makes of the units.* `Reassembled` and `Reading` are defined by
recursion. That these functions exist, and what they return, is shown by induction on
the *set* of the numbers for which it holds: `SetInduction` is the principle of
induction of a set of natural numbers, from the library's theorem that a well-founded
relation has minimal elements. Whatever the carried units are, what is reassembled of
them are pieces of the stream (`Arrives`), a torn one at the end perhaps; of a whole
stream it is exactly the pieces in their order (`WholeParsed`).

*What the reader hands out.* `Reads` is the relation between the reader, what it has
handed out and the recording that TraceStreamProofs uses too. `next()` keeps it
(`TraceProofs`), so every number of calls does: a prefix. Over a whole stream the
reader's every step succeeds, and it stops without an error behind the last event.

### The bytes

Three assumptions, each of which the run's instance satisfies and so does the code:
`VarintAssumption` (a word has as many values as some, but not all, of `MaxBytes` digits
can spell, a multiple of what the last digit weighs: 2^64 is twice 2^63),
`BlockCodecAssumption` (an address, doubled by ZigZag, fits in a word; a byte has eight bits at
most, and room for the event types) and `EventsAssumption` (an event's fields are
`u64` and `u32`, and those its type lacks are zero).

*Varints.* A number's digits, weighed by `Scale`, add up to it: `Sums` names the
partial sums along a row of bytes, and `CodeIsWorth` says that over the bytes
`varint_encode` wrote they grow by the number, wherever these lie. `varint_decode` is
the sum up to the first byte without the flag, if there is one among the first
`MaxBytes` and the sum is a word, and 0 otherwise (`DecodeIs`). Its overflow test looks only at
the last digit; that this is enough is the divisibility assumed of the word
(`RoomForLess`). `RoundTrip` puts the two together.

*The CRC.* A step by the table shifts four bits out and adds a word. The table's words
differ in their highest four bits, into which nothing is shifted (`TopsDiffer`), so what
the lost nibbles told apart can still be told apart: registers that differ before a
step differ behind it (`NibbleStepKeeps`), and go on differing over equal bytes. A byte
enters at the low eight bits; behind its two steps the difference it makes shows above
them (`BytesDiffer`), where the next byte cannot undo it (`StillDiffer`): `BurstIsSeen`.
`TableIsFourBits` compares the table's words with four steps of the division; the
division treats the nibble it shifts out and the rest of the register separately, so
that settles it for every register (`EveryRegisterIsStandard`).

*Recursive functions.* `VarintEncode`, `VarintDecode`, `Register`, `Parsed`, `EndOf` and
`Number` are recursive functions on an interval. That they exist is `IterationExists` (and
for `VarintEncode`, whose argument is divided and not counted down, an argument of the
same kind), by induction on the *set* of the numbers up to which they do (`SetInduction`).

*Blocks.* `BlockInv` adds to the types that a block's checksum is right exactly until
the link has damaged it; with `EveryRegisterIsStandard` this is `AcceptedIsIntact`.
`ReadsWhatWasSent` is not inductive, because it says nothing of the bytes on their way.
`StreamInv` does: until something is forged, they are, across the payload being read, the
block on its way and the one being staged, the encodings of the events the host has not
read yet, the first of them made against the time and address the host remembers and the
last one leaving what the device remembers (`InStep`, `Pending`). An event that is staged
goes to the back of this row (`PendingStaged`), and `next()` takes the first one off its
front, whole (`PendingNext`, `EventParses`).

`ParsesExactly` needs no history, but the two ways of saying what bytes spell: the
decoder's, a field after the other from what the last one left, and the definition's, by
the places of the bytes without the flag in all of them. `DecodesField` joins them for one
field, `ParsedWords` for as many as an event has, `SpellsIs` for the range checks.

### Only model-checked

Liveness (`ReplayEventuallyEnds`, `ReaderStops`, `CallsReturn`, `DrainEnds`) is out
of the prover's reach. Every other property of the passing runs is proved.

## 5. What is not modelled

- The command line (`host/src/main.cpp`): argument parsing, file I/O and printing
  around the sessions and the timeline; it keeps no state of its own.
- The build, the tests, the emulated target and the vendored test framework.
- The text of errors, the result structs of the sessions, and the counters of work
  done (`events_served`, `last_search_seeks`, `bytes_written`), which nothing acts on.
- Of the Cortex-M backend: enabling the cycle counter, the register addresses and
  the assembly of the trampoline.
- The bytes of the header, whose fields are compared with constants.

What the models abstract:

- Handlers share one priority, so none preempts another, and an update of one
  variable is one step.
- Recorder's ring holds units (a piece's framing, an event) where the code's holds
  bytes; the byte-wise copy is RingBuffer's subject. A unit of a torn piece is taken not
  to read as a terminator.
- TraceStream takes it that the CRC finds the damage it covers; `BurstIsSeen` proves
  it of damage to two neighbouring bytes, on the real polynomial. No 32-bit checksum
  finds all damage.
- The pseudo-random bytes and jitters of the simulated part are choices, and
  checksums are the sequences of what they fold, so that two different runs never
  agree by chance.
- Integers that cannot reach their width in a recording (event counts, sequence
  numbers, 64-bit times) are unbounded; those that do (the ring's counters, the
  cycle counter, the words of the codec) wrap.
