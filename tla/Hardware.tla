-------------------------------- MODULE Hardware -------------------------------
(****************************************************************************)
(* RecordReplay with a second backend to record on: the part itself,        *)
(* target/src/cortex_m.cpp.  There poll_irq has nothing to say and the NVIC *)
(* enters a handler in front of any instruction, the critical sections of   *)
(* the shim included (hal_irq_disable only counts); the vector table entry  *)
(* records the interrupt and runs the handler.  The replay is the one of    *)
(* RecordReplay, which can enter a handler only behind an access.           *)
(*                                                                          *)
(* An access of the main loop takes three steps here: the register, the     *)
(* event, the return; a handler runs before, between or behind them.        *)
(* Handlers share one priority: none preempts another, and what one does in *)
(* an access is one step.  How an interrupt inside the writer or the clock  *)
(* spoils the trace itself is the subject of Recorder.                      *)
(****************************************************************************)
EXTENDS RecordReplay

CONSTANT Backends     \* the backends recorded on: a subset of {"sim", "part"}

ASSUME BackendsAssumption == Backends \subseteq {"sim", "part"}

VARIABLES
    backend,     \* what hal_attach attached for the recording
    flight,      \* the main loop's access: [at, value], at "none" outside one
    active,      \* a handler the NVIC entered is running
    open,        \* history: the main loop's last event was recorded unmasked
    landed       \* history: where the first interrupt landed that did not land
                 \* "behind" such an access: "hidden", "masked" or "between"

hwvars == <<backend, flight, active, open, landed>>

NoFlight == [at |-> "none", value |-> 0]

HardwareInit ==
    /\ Init
    /\ backend \in Backends
    /\ flight = NoFlight /\ active = FALSE
    /\ open = FALSE /\ landed = "behind"

OnThePart == backend = "part" /\ phase = "record"
MainRuns == OnThePart /\ ~active /\ flight = NoFlight

--------------------------------------------------------------------------------
(* The main loop.                                                            *)

\* ops->read32 or ops->write32: the register has been accessed.
PartAccess ==
    /\ MainRuns
    /\ \/ /\ Reading(hal)
          /\ \E r \in DevRead(dev, Request(hal.fw).addr) :
                dev' = r.dev /\ flight' = [at |-> "made", value |-> r.value]
       \/ /\ Writing(hal)
          /\ LET req == Request(hal.fw) IN
             \E d \in DevWrite(dev, req.addr, req.value) :
                dev' = d /\ flight' = [at |-> "made", value |-> 0]
    /\ UNCHANGED <<hal, trace, path, backend, active, open, landed>>
    /\ UNCHANGED_replay

\* The event an access of machine m that read value leaves in the trace.
TraceOfAccess(m, value) ==
    LET req == Request(m.fw) IN
    IF req.op = "read" THEN Append(trace, Event("read", dev, req.addr, value))
    ELSE IF RecordWrites THEN Append(trace, Event("write", dev, req.addr, req.value))
    ELSE trace

\* The writer is given it, the main loop's access being the one in flight.
PartRecord ==
    /\ OnThePart /\ ~active /\ flight.at = "made"
    /\ trace' = TraceOfAccess(hal, flight.value)
    /\ flight' = [flight EXCEPT !.at = "recorded"]
    /\ open' = (hal.mask = 0)
    /\ UNCHANGED <<hal, dev, path, backend, active, landed>>
    /\ UNCHANGED_replay

\* pump_irqs polls kNoIrq, or does not poll, and the access returns.
PartReturn ==
    /\ OnThePart /\ ~active /\ flight.at = "recorded"
    /\ flight' = NoFlight
    /\ trace' = trace
    /\ GoTo(Return(hal, flight.value))
    /\ UNCHANGED <<dev, backend, active, open, landed>>
    /\ UNCHANGED_replay

\* Code without an access, of the main loop or of a handler.
PartQuiet ==
    /\ OnThePart /\ (active \/ flight = NoFlight)
    /\ Quiet(hal)
    /\ trace' = trace
    /\ GoTo(AfterQuiet(hal))
    /\ UNCHANGED <<dev, hwvars>>
    /\ UNCHANGED_replay

--------------------------------------------------------------------------------
(* Interrupts.                                                               *)

\* Where an interrupt that is entered now lands, for a replay that enters it
\* behind the event before it in the trace: where pump_irqs does not look, because
\* the main loop's last access was a masked one or there was none yet; behind the
\* access of that event, in the very place; in a critical section that has recorded
\* no access yet, so that the access is the one in front of the section; or after
\* other code that ran since that event.
Landing ==
    CASE ~open                                            -> "hidden"
      [] open /\ flight.at = "recorded"                   -> "behind"
      [] open /\ flight.at # "recorded" /\ hal.mask > 0   -> "masked"
      [] OTHER                                            -> "between"

\* A slip: the handler itself is in the vector table, without the trampoline.
NvicEntersUnrecorded ==
    /\ OnThePart /\ ~active
    /\ \E p \in DevPoll(dev) :
          /\ p.vector # NoIrq
          /\ dev' = p.dev
          /\ trace' = trace
          /\ GoTo(Dispatch(hal, p.vector))
          /\ active' = (p.vector \in Handled)
    /\ landed' = IF landed = "behind" THEN Landing ELSE landed
    /\ UNCHANGED <<backend, flight, open>>
    /\ UNCHANGED_replay

\* rwd_cortex_m_isr_entry: the interrupt is recorded, its handler, if there is
\* one, starts.  The mask depth of the shim is not the NVIC's.
NvicEnters ==
    /\ OnThePart /\ ~active
    /\ \E p \in DevPoll(dev) :
          /\ p.vector # NoIrq
          /\ dev' = p.dev
          /\ trace' = Append(trace, Event("irq", p.dev, p.vector, 0))
          /\ GoTo(Dispatch(hal, p.vector))
          /\ active' = (p.vector \in Handled)
    /\ landed' = IF landed = "behind" THEN Landing ELSE landed
    /\ UNCHANGED <<backend, flight, open>>
    /\ UNCHANGED_replay

HandlerAccess ==
    /\ OnThePart /\ active
    /\ \/ /\ Reading(hal)
          /\ \E r \in DevRead(dev, Request(hal.fw).addr) :
                /\ dev' = r.dev
                /\ trace' = TraceOfAccess(hal, r.value)
                /\ GoTo(Return(hal, r.value))
       \/ /\ Writing(hal)
          /\ LET req == Request(hal.fw) IN
             \E d \in DevWrite(dev, req.addr, req.value) :
                /\ dev' = d
                /\ trace' = TraceOfAccess(hal, 0)
                /\ GoTo(Return(hal, 0))
    /\ UNCHANGED hwvars
    /\ UNCHANGED_replay

\* The exception return.
HandlerLeaves ==
    /\ OnThePart /\ active
    /\ hal.ctrl = "run" /\ Op(hal) = "iret"
    /\ active' = FALSE
    /\ trace' = trace
    /\ GoTo(Return(hal, 0))
    /\ UNCHANGED <<dev, backend, flight, open, landed>>
    /\ UNCHANGED_replay

--------------------------------------------------------------------------------
PartStep ==
    \/ PartAccess \/ PartRecord \/ PartReturn \/ PartQuiet
    \/ NvicEnters \/ HandlerAccess \/ HandlerLeaves

\* The steps of RecordReplay that do not depend on the backend, and those of a
\* recording on the simulated part, which polls.
ShimStep ==
    /\ \/ backend = "sim" /\ RecordStep
       \/ MainRuns /\ StopAndReplay
       \/ ReplayStep
    /\ UNCHANGED hwvars

HardwareNext == PartStep \/ ShimStep

HardwareSpec == HardwareInit /\ [][HardwareNext]_<<vars, hwvars>>
--------------------------------------------------------------------------------
(* What a C handler is: a function the main loop does not notice.            *)

\* F holds the states of the main loop, and H, for each that a handler runs under,
\* that state, the handler's own, and the depth of the handler's critical sections.
\* Whatever of V the registers answer, the handler comes back to the call the main
\* loop was at.
HandlersComeBack(F, H, V) ==
    /\ Firmware \subseteq F /\ 0 \in V
    /\ \A f \in F : \A i \in Handled : <<f, EnterIsr(f, i), 0>> \in H
    /\ \A f \in F : \A v \in V : Request(f).op # "halt" => Resume(f, v) \in F
    /\ \A h \in H : \A v \in V :
          LET f == h[1]
              d == h[3]
              r == Resume(h[2], v)
          IN CASE Request(h[2]).op = "iret" ->
                      f \in F /\ r \in F /\ Request(r).op = Request(f).op
               [] Request(h[2]).op = "disable" -> <<f, r, d + 1>> \in H
               [] Request(h[2]).op = "enable" ->
                      <<f, r, IF d > 0 THEN d - 1 ELSE 0>> \in H
               [] OTHER -> <<f, r, d>> \in H

\* And it has called irq_enable for every irq_disable.
HandlersUnmask(H) == \A h \in H : Request(h[2]).op = "iret" => h[3] = 0

--------------------------------------------------------------------------------
(* What a recording made on the part is worth.                               *)

\* On the part the shim never polls while it records, a handler is entered only
\* out of a trace that shows it, and an access keeps its value until it returns.
HardwareTypeOK ==
    /\ TypeOK
    /\ flight.at \in {"none", "made", "recorded"}
    /\ landed \in {"behind", "hidden", "masked", "between"}
    /\ OnThePart => ~hal.inIsr
    /\ active => OnThePart /\ (\E k \in 1 .. Len(trace) : trace[k].type = "irq")
    /\ flight # NoFlight => OnThePart /\ (active \/ Reading(hal) \/ Writing(hal))

\* The golden property, of the recordings it is about.
ShimLockstep == backend = "sim" => Lockstep

\* "replay can only re-enter a handler after an MMIO access" (hal.h:87), and
\* where that is where the hardware entered it, the replay is exact: a recording
\* all of whose interrupts landed directly behind an unmasked access ends, when
\* replayed, as it ended on the part.
BehindAnAccessIsExact == backend = "part" /\ landed = "behind" => SameEnd

\* An interrupt taken where pump_irqs would not have looked, after an access of
\* the main loop inside a critical section that hal_irq_disable could not keep
\* closed, or before the first access of all, never goes unnoticed: the replay
\* diverges, or ends with events left.  The first interrupt that did not land
\* behind an unmasked access has to be such a one.  Of "masked" and "between" this
\* says nothing: the replay serves them behind the access before them, and may end
\* clean in another state (MidComputationIsReported).
HiddenIsReported ==
    phase = "done" /\ backend = "part" /\ landed = "hidden" /\ from = Recorded =>
        divergence # "none" \/ cursor < Len(trace) - 1

--------------------------------------------------------------------------------
(* What comments say and the code does not do.                               *)

\* hal.h:88: a trace "recorded on silicon whose interrupt landed mid-computation
\* has no replayable point to land on, and will be reported as a divergence
\* rather than replayed wrongly".  A critical section without an access, as those of
\* rx_pump, is such a computation.
MidComputationIsReported ==
    phase = "done" /\ backend = "part" /\ from = Recorded
        /\ divergence = "none" /\ cursor = Len(trace) - 1 =>
            hal.fw = path[Len(path)].m.fw
================================================================================
