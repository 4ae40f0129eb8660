------------------------------ MODULE RecordReplay -----------------------------
(****************************************************************************)
(* A recorded run and its replay: host/src/session.cpp (record_run,         *)
(* replay_run_as) over the HAL shim in MODE_RECORD, and host/src/replay.cpp *)
(* behind the shim in MODE_REPLAY.  The firmware and the device are         *)
(* parameters; the trace is the list of events the writer was given (what   *)
(* the bytes of the trace preserve of it is TraceStream's subject).         *)
(*                                                                          *)
(* The recording also keeps path, the machine it went through with the      *)
(* number of events recorded so far; no code keeps it, and no step but its  *)
(* own update reads it.  step counts the replay's steps from 1, and from is *)
(* the firmware the recording, later its replay, started in.                *)
(****************************************************************************)
EXTENDS Hal, Sequences

CONSTANTS
    DevInit,             \* the devices a run may start with
    DevRead(_, _),       \* outcomes of a read: records [dev, value]
    DevWrite(_, _, _),   \* outcomes of a write: devices
    DevPoll(_),          \* outcomes of poll_irq: records [dev, vector]
    DevNow(_),           \* the device's clock
    Firmware,            \* the firmware states a recording may start in
    ReplayedAs(_),       \* the firmware states its replay may start in
    RecordWrites         \* kFlagRecordWrites in the trace header

ASSUME RecordWritesAssumption == RecordWrites \in BOOLEAN

VARIABLES
    phase,       \* "record", then "replay", then "done"
    hal,         \* the machine, see Hal
    dev,         \* the device behind the shim while recording
    trace,       \* the events recorded
    cursor,      \* ReplayHal: events consumed
    now,         \* ReplayHal: timestamp of the last event consumed
    divergence,  \* the first divergence, or "none"
    path,        \* history: the machines of the recording
    step,        \* history: how far along path the replay is
    from         \* history: the firmware the current run started in

vars == <<phase, hal, dev, trace, cursor, now, divergence, path, step, from>>

Event(type, d, addr, value) ==
    [type |-> type, ts |-> DevNow(d), addr |-> addr, value |-> value]

Init ==
    /\ phase = "record"
    /\ from \in Firmware
    /\ hal = Start(from)
    /\ dev \in DevInit
    /\ trace = <<>>
    /\ cursor = 0 /\ now = 0 /\ divergence = "none"
    /\ path = <<[m |-> hal, events |-> 0]>>
    /\ step = 1

--------------------------------------------------------------------------------
(* Recording: mmio_read32, mmio_write32 and pump_irqs in MODE_RECORD.        *)

UNCHANGED_replay == UNCHANGED <<phase, cursor, now, divergence, step, from>>

\* The recording's machine becomes m.
GoTo(m) ==
    /\ hal' = m
    /\ path' = Append(path, [m |-> m, events |-> Len(trace')])

RecordRead ==
    /\ phase = "record" /\ Reading(hal)
    /\ LET addr == Request(hal.fw).addr IN
       \E r \in DevRead(dev, addr) :
          /\ dev' = r.dev
          /\ trace' = Append(trace, Event("read", r.dev, addr, r.value))
          /\ GoTo(Pump(hal, r.value))
    /\ UNCHANGED_replay

RecordWrite ==
    /\ phase = "record" /\ Writing(hal)
    /\ LET req == Request(hal.fw) IN
       \E d \in DevWrite(dev, req.addr, req.value) :
          /\ dev' = d
          /\ trace' = IF RecordWrites
                      THEN Append(trace, Event("write", d, req.addr, req.value))
                      ELSE trace
          /\ GoTo(Pump(hal, 0))
    /\ UNCHANGED_replay

\* A slip: the interrupt is taken and not recorded.
RecordIrqUnrecorded ==
    /\ phase = "record" /\ Polling(hal)
    /\ \E p \in DevPoll(dev) :
          /\ p.vector # NoIrq
          /\ dev' = p.dev
          /\ trace' = trace
          /\ GoTo(Dispatch(hal, p.vector))
    /\ UNCHANGED_replay

RecordIrq ==
    /\ phase = "record" /\ Polling(hal)
    /\ \E p \in DevPoll(dev) :
          /\ p.vector # NoIrq
          /\ dev' = p.dev
          /\ trace' = Append(trace, Event("irq", p.dev, p.vector, 0))
          /\ GoTo(Dispatch(hal, p.vector))
    /\ UNCHANGED_replay

RecordNoIrq ==
    /\ phase = "record" /\ Polling(hal)
    /\ \E p \in DevPoll(dev) : p.vector = NoIrq /\ dev' = p.dev
    /\ trace' = trace
    /\ GoTo(PumpDone(hal))
    /\ UNCHANGED_replay

RecordQuiet ==
    /\ phase = "record" /\ Quiet(hal)
    /\ trace' = trace
    /\ GoTo(AfterQuiet(hal))
    /\ UNCHANGED dev
    /\ UNCHANGED_replay

\* The main loop has returned: finish() adds EV_STOP, and the trace is loaded
\* into a ReplayHal behind a reset shim and a reset firmware.
StopAndReplay ==
    /\ phase = "record" /\ Halted(hal)
    /\ phase' = "replay"
    /\ trace' = Append(trace, Event("stop", dev, 0, 0))
    /\ \E f \in ReplayedAs(from) : hal' = Start(f) /\ from' = f
    /\ cursor' = 0 /\ now' = 0 /\ divergence' = "none" /\ step' = 1
    /\ UNCHANGED <<dev, path>>

--------------------------------------------------------------------------------
(* Replaying: the shim over ReplayHal's read32, write32 and poll_irq.        *)

UNCHANGED_record == UNCHANGED <<phase, dev, trace, path, from>>

\* A slip: an event that does not answer is skipped, and nothing is reported.
DivergeBySkipping(why) ==
    /\ cursor' = IF cursor < Len(trace) THEN cursor + 1 ELSE cursor
    /\ UNCHANGED <<now, divergence>>

Diverge(why) ==
    /\ divergence' = IF divergence = "none" THEN why ELSE divergence
    /\ UNCHANGED <<cursor, now>>

Consume ==
    /\ cursor' = cursor + 1
    /\ now' = trace[cursor + 1].ts
    /\ UNCHANGED divergence

\* A slip: EV_STOP is an event like the others.
MismatchAtStop(type, addr, value) ==
    IF cursor >= Len(trace) THEN "past the end"
    ELSE LET ev == trace[cursor + 1] IN
         IF ev.type # type THEN "other event"
         ELSE IF ev.addr # addr THEN "other address"
         ELSE IF type = "write" /\ ev.value # value THEN "other value"
         ELSE "none"

\* Why the event at the cursor cannot answer a request of the given type
\* ("none": it can).
Mismatch(type, addr, value) ==
    IF cursor >= Len(trace) THEN "past the end"
    ELSE LET ev == trace[cursor + 1] IN
         IF ev.type = "stop" THEN "past the end"
         ELSE IF ev.type # type THEN "other event"
         ELSE IF ev.addr # addr THEN "other address"
         ELSE IF type = "write" /\ ev.value # value THEN "other value"
         ELSE "none"

ReplayRead ==
    /\ phase = "replay" /\ Reading(hal)
    /\ LET why == Mismatch("read", Request(hal.fw).addr, 0) IN
       IF why = "none"
       THEN Consume /\ hal' = Pump(hal, trace[cursor + 1].value)
       ELSE Diverge(why) /\ hal' = Pump(hal, 0)
    /\ step' = step + 1
    /\ UNCHANGED_record

ReplayWrite ==
    /\ phase = "replay" /\ Writing(hal)
    /\ LET req == Request(hal.fw)
           why == Mismatch("write", req.addr, req.value)
       IN IF ~RecordWrites THEN UNCHANGED <<cursor, now, divergence>>
          ELSE IF why = "none" THEN Consume
          ELSE Diverge(why)
    /\ hal' = Pump(hal, 0)
    /\ step' = step + 1
    /\ UNCHANGED_record

\* A slip: poll_irq looks one event too far.
IrqPastCursor == cursor + 1 < Len(trace) /\ trace[cursor + 2].type = "irq"

IrqAtCursor == cursor < Len(trace) /\ trace[cursor + 1].type = "irq"

ReplayIrq ==
    /\ phase = "replay" /\ Polling(hal) /\ IrqAtCursor
    /\ Consume
    /\ hal' = Dispatch(hal, trace[cursor + 1].addr)
    /\ step' = step + 1
    /\ UNCHANGED_record

\* A slip: only an access at the cursor answers kNoIrq.
ReplayNoIrqBeforeAccess ==
    /\ phase = "replay" /\ Polling(hal)
    /\ cursor < Len(trace) /\ trace[cursor + 1].type \in {"read", "write"}
    /\ hal' = PumpDone(hal)
    /\ step' = step + 1
    /\ UNCHANGED <<cursor, now, divergence>>
    /\ UNCHANGED_record

ReplayNoIrq ==
    /\ phase = "replay" /\ Polling(hal) /\ ~IrqAtCursor
    /\ hal' = PumpDone(hal)
    /\ step' = step + 1
    /\ UNCHANGED <<cursor, now, divergence>>
    /\ UNCHANGED_record

ReplayQuiet ==
    /\ phase = "replay" /\ Quiet(hal)
    /\ hal' = AfterQuiet(hal)
    /\ step' = step + 1
    /\ UNCHANGED <<cursor, now, divergence>>
    /\ UNCHANGED_record

ReplayEnds ==
    /\ phase = "replay" /\ Halted(hal)
    /\ phase' = "done"
    /\ UNCHANGED <<hal, dev, trace, cursor, now, divergence, path, step, from>>

--------------------------------------------------------------------------------
RecordStep ==
    \/ RecordRead \/ RecordWrite \/ RecordIrq \/ RecordNoIrq \/ RecordQuiet
    \/ StopAndReplay

ReplayStep ==
    \/ ReplayRead \/ ReplayWrite \/ ReplayIrq \/ ReplayNoIrq \/ ReplayQuiet
    \/ ReplayEnds

Next == RecordStep \/ ReplayStep

Spec == Init /\ [][Next]_vars

\* Both runs are single-threaded loops that nothing stops: a step that can be
\* taken is taken.
FairSpec == Spec /\ WF_vars(Next)
--------------------------------------------------------------------------------
(* What a replay promises.                                                   *)

EventTypes == {"read", "write", "irq", "stop"}

\* The shape of the state: the trace ends with its only stop event once the
\* recording is over, the cursor stays inside the trace, and the shim polls only
\* as the outermost access of no handler.
TypeOK ==
    /\ phase \in {"record", "replay", "done"}
    /\ hal.mask \in Nat /\ hal.inIsr \in BOOLEAN /\ hal.ctrl \in {"run", "pump"}
    /\ hal.ctrl = "pump" => hal.inIsr
    /\ cursor \in 0 .. Len(trace)
    /\ \A k \in 1 .. Len(trace) :
          /\ trace[k].type \in EventTypes
          /\ trace[k].type = "stop" <=> phase # "record" /\ k = Len(trace)

\* The firmware that was recorded.
Recorded == path[1].m.fw

\* The golden property of docs/design/execution-model.md, step by step: the
\* replay of the firmware that was recorded goes through the machines of the
\* recording, in order, with as many events behind it, and never diverges.
Lockstep ==
    phase # "record" /\ from = Recorded =>
        /\ divergence = "none"
        /\ step <= Len(path)
        /\ hal = path[step].m
        /\ cursor = path[step].events

\* What test_determinism.cpp asserts of whole runs: a finished replay of the
\* firmware that was recorded has consumed every event but the stop, has not
\* diverged and leaves the firmware in the state the recording left it in.
SameEnd ==
    phase = "done" /\ from = Recorded =>
        /\ divergence = "none"
        /\ cursor = Len(trace) - 1
        /\ hal.fw = path[Len(path)].m.fw

\* hal.h: "While masked, no interrupt is dispatched -- and none is recorded."
\* An interrupt is recorded only while the mask depth is zero.
NoMaskedIrq == [][RecordIrq => hal.mask = 0]_vars

\* "Drains pending interrupts": when the pump loop gives control back to the
\* main loop, the backend has no interrupt left to deliver, and in a replay the
\* event at the cursor is not one.
PumpDrains ==
    [][/\ phase = "record" /\ hal.inIsr /\ ~hal'.inIsr =>
            \A p \in DevPoll(dev') : p.vector = NoIrq
       /\ phase = "replay" /\ hal.inIsr /\ ~hal'.inIsr => ~IrqAtCursor']_vars

\* Neither run gets stuck in the shim: the recording stops, the replay of its
\* trace ends, whatever the replayed firmware finds in it.
ReplayEventuallyEnds == <>(phase = "done")
================================================================================
