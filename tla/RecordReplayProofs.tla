--------------------------- MODULE RecordReplayProofs --------------------------
(****************************************************************************)
(* TypeOK for every firmware and device, and the golden property for every  *)
(* firmware and device when writes are recorded: a replay of the firmware   *)
(* that was recorded goes through the machines of the recording.            *)
(*                                                                          *)
(* The argument.  Each step of the recording is Explained by the trace: the *)
(* event at the position it had reached is the one the step appended, and   *)
(* where pump_irqs found nothing to deliver, the event recorded next is not *)
(* an interrupt.  The last needs what RecordInv adds: an interrupt is       *)
(* only ever recorded by a pump loop that an access has started, and that   *)
(* access recorded an event after every earlier loop had ended.  A replay   *)
(* reads the same events at the same positions, so it takes the same steps. *)
(*                                                                          *)
(* Then, for recordings made behind the shim and on the part itself with    *)
(* writes recorded: which of them a replay repeats, and which it cannot     *)
(* repeat without showing it.                                               *)
(*                                                                          *)
(* The argument.  A recording made on the part goes through machines a      *)
(* replay never goes through, since the shim there polls for nothing.  As   *)
(* long as interrupts land directly behind unmasked accesses there is a     *)
(* shadow of the recording that a replay does go through: the main loop in  *)
(* pump_irqs wherever the hardware had it waiting behind its access         *)
(* (AsReplayed).  The shadow is kept nowhere; the invariant says that the   *)
(* trace tells of one (Told), in the sense of ExplainedAt.  The first       *)
(* interrupt that lands where the shim would not have polled ends it: there *)
(* a replay runs on without a poll, and the interrupt stays at its cursor.  *)
(*                                                                          *)
(* Of firmware in C more is true: a handler returns to the call the main    *)
(* loop was at (Suspended), and behind the shim with the mask it was        *)
(* entered with, so that pump_irqs may go on polling (Nested).              *)
(****************************************************************************)
EXTENDS Hardware, TLAPS

IsSeq(s) == s \in Seq({s[i] : i \in 1 .. Len(s)})

IsMachine(m) ==
    /\ m \in [fw : {m.fw}, mask : Nat, inIsr : BOOLEAN, ctrl : {"run", "pump"},
             ret : {m.ret}]
    /\ m.ctrl = "pump" => m.inIsr

\* The step from a to b is the one the event ev determines, if there is one.
Explains(some, ev, a, b) ==
    \/ /\ Reading(a.m) /\ some /\ ev.type = "read"
       /\ ev.addr = Request(a.m.fw).addr
       /\ b.m = Pump(a.m, ev.value) /\ b.events = a.events + 1
    \/ /\ Writing(a.m) /\ some /\ ev.type = "write"
       /\ ev.addr = Request(a.m.fw).addr /\ ev.value = Request(a.m.fw).value
       /\ b.m = Pump(a.m, 0) /\ b.events = a.events + 1
    \/ /\ Polling(a.m) /\ some /\ ev.type = "irq"
       /\ b.m = Dispatch(a.m, ev.addr) /\ b.events = a.events + 1
    \/ /\ Polling(a.m) /\ ~(some /\ ev.type = "irq")
       /\ b.m = PumpDone(a.m) /\ b.events = a.events
    \/ /\ Quiet(a.m)
       /\ b.m = AfterQuiet(a.m) /\ b.events = a.events

\* The step of the recording from path[k] is the one the trace determines.
ExplainedAt(k) ==
    Explains(path[k].events < Len(trace), trace[path[k].events + 1],
             path[k], path[k + 1])

FoundNothing(k) == Polling(path[k].m) /\ path[k + 1].events = path[k].events

PathInv ==
    /\ IsSeq(path) /\ Len(path) >= 1
    /\ IsSeq(trace)
    /\ path[1] = [m |-> Start(Recorded), events |-> 0]
    /\ \A k \in 1 .. Len(path) :
          path[k].events \in Nat /\ path[k].events <= Len(trace)
    /\ \A k \in 1 .. Len(path) - 1 : ExplainedAt(k)

RecordInv ==
    phase = "record" =>
        /\ path[Len(path)] = [m |-> hal, events |-> Len(trace)]
        /\ hal.inIsr =>
              \A k \in 1 .. Len(path) - 1 :
                  FoundNothing(k) => path[k].events < Len(trace)

\* Only a replay of the firmware that was recorded follows the recording.
ReplayInv ==
    phase # "record" /\ from = Recorded =>
        /\ divergence = "none"
        /\ step \in 1 .. Len(path)
        /\ hal = path[step].m
        /\ cursor = path[step].events
        /\ Halted(path[Len(path)].m)
        /\ path[Len(path)].events = Len(trace) - 1
        /\ phase = "done" => Halted(hal)

IInv ==
    /\ phase \in {"record", "replay", "done"}
    /\ IsMachine(hal)
    /\ PathInv
    /\ RecordInv
    /\ ReplayInv

--------------------------------------------------------------------------------

\* Append, for sequences of anything.
LEMMA AppendFacts ==
    ASSUME NEW s, NEW e, IsSeq(s)
    PROVE  /\ IsSeq(Append(s, e))
           /\ Len(s) \in Nat
           /\ Len(Append(s, e)) = Len(s) + 1
           /\ \A i \in 1 .. Len(s) : Append(s, e)[i] = s[i]
           /\ Append(s, e)[Len(s) + 1] = e
<1> DEFINE S == {s[i] : i \in 1 .. Len(s)} \cup {e}
           t == Append(s, e)
<1>1. s \in Seq(S)
  BY DEF IsSeq
<1>2. /\ t \in Seq(S)
      /\ Len(s) \in Nat
      /\ Len(t) = Len(s) + 1
      /\ \A i \in 1 .. Len(s) : t[i] = s[i]
      /\ t[Len(s) + 1] = e
  BY <1>1
<1>3. t \in Seq({t[i] : i \in 1 .. Len(t)})
  BY <1>2
<1> QED
  BY <1>2, <1>3 DEF IsSeq

\* The shim's steps keep the shape of the machine.
LEMMA MachineSteps ==
    ASSUME NEW m, IsMachine(m)
    PROVE  /\ \A v : m.ctrl = "run" => IsMachine(Pump(m, v))
           /\ \A i : Polling(m) => IsMachine(Dispatch(m, i))
           /\ Polling(m) => IsMachine(PumpDone(m)) /\ ~PumpDone(m).inIsr
           /\ \A i : Polling(m) => Dispatch(m, i).inIsr
           /\ Quiet(m) => /\ IsMachine(AfterQuiet(m))
                          /\ AfterQuiet(m).inIsr = m.inIsr
<1>1. ASSUME NEW v, m.ctrl = "run" PROVE IsMachine(Pump(m, v))
  BY <1>1 DEF IsMachine, Pump, Return
<1>2. ASSUME NEW i, Polling(m)
      PROVE  IsMachine(Dispatch(m, i)) /\ Dispatch(m, i).inIsr
  BY <1>2 DEF IsMachine, Dispatch, Polling
<1>3. ASSUME Polling(m) PROVE IsMachine(PumpDone(m)) /\ ~PumpDone(m).inIsr
  BY <1>3 DEF IsMachine, PumpDone, Polling
<1>4. ASSUME Quiet(m)
      PROVE  IsMachine(AfterQuiet(m)) /\ AfterQuiet(m).inIsr = m.inIsr
  <2>1. CASE Op(m) = "step"
    BY <1>4, <2>1 DEF IsMachine, Quiet, AfterQuiet, Return
  <2>2. CASE Op(m) = "disable"
    <3> DEFINE d == m.mask + 1
    <3>1. AfterQuiet(m) = [m EXCEPT !.fw = Resume(m.fw, 0), !.mask = d]
      BY <2>2 DEF AfterQuiet, IrqDisable
    <3>2. m.ctrl = "run"
      BY <1>4 DEF Quiet
    <3>3. d \in Nat
      BY DEF IsMachine
    <3> HIDE DEF d
    <3> QED
      BY <3>1, <3>2, <3>3 DEF IsMachine
  <2>3. CASE Op(m) = "enable"
    <3> DEFINE d == IF m.mask > 0 THEN m.mask - 1 ELSE 0
    <3>1. AfterQuiet(m) = [m EXCEPT !.fw = Resume(m.fw, 0), !.mask = d]
      BY <2>3 DEF AfterQuiet, IrqEnable
    <3>2. m.ctrl = "run"
      BY <1>4 DEF Quiet
    <3>3. d \in Nat
      BY DEF IsMachine
    <3> HIDE DEF d
    <3> QED
      BY <3>1, <3>2, <3>3 DEF IsMachine
  <2>4. CASE Op(m) = "iret" /\ m.inIsr
    BY <1>4, <2>4 DEF IsMachine, Quiet, AfterQuiet, HandlerReturn
  <2> QED
    BY <1>4, <2>1, <2>2, <2>3, <2>4 DEF Quiet
<1> QED
  BY <1>1, <1>2, <1>3, <1>4

--------------------------------------------------------------------------------

TypeInv == TypeOK /\ IsMachine(hal) /\ IsSeq(trace)

\* A machine that starts is a machine.
LEMMA StartIsMachine == \A f : IsMachine(Start(f))
BY DEF IsMachine, Start

\* A machine has the fields TypeOK speaks of.
LEMMA MachineFields ==
    ASSUME NEW m, IsMachine(m)
    PROVE  /\ m.mask \in Nat /\ m.inIsr \in BOOLEAN /\ m.ctrl \in {"run", "pump"}
           /\ m.ctrl = "pump" => m.inIsr
BY DEF IsMachine

\* An event appended while recording keeps the trace's part of TypeOK.
LEMMA TraceGrows ==
    ASSUME TypeInv, phase = "record", NEW e, trace' = Append(trace, e),
           e.type \in EventTypes, phase' \in {"record", "replay"},
           e.type = "stop" <=> phase' = "replay"
    PROVE  /\ IsSeq(trace')
           /\ Len(trace') = Len(trace) + 1 /\ Len(trace) \in Nat
           /\ \A k \in 1 .. Len(trace') :
                 /\ trace'[k].type \in EventTypes
                 /\ trace'[k].type = "stop" <=>
                        phase' # "record" /\ k = Len(trace')
<1>1. /\ IsSeq(trace') /\ Len(trace) \in Nat
      /\ Len(trace') = Len(trace) + 1
      /\ \A i \in 1 .. Len(trace) : trace'[i] = trace[i]
      /\ trace'[Len(trace) + 1] = e
  BY AppendFacts DEF TypeInv
<1>2. ASSUME NEW k \in 1 .. Len(trace')
      PROVE  /\ trace'[k].type \in EventTypes
             /\ trace'[k].type = "stop" <=> phase' # "record" /\ k = Len(trace')
  <2>1. CASE k = Len(trace) + 1
    BY <1>1, <2>1
  <2>2. CASE k \in 1 .. Len(trace)
    BY <1>1, <2>2 DEF TypeInv, TypeOK
  <2> QED
    BY <1>1, <1>2, <2>1, <2>2
<1> QED
  BY <1>1, <1>2

\* The strengthening of TypeOK holds at first,
LEMMA TypeInvInit ==
    ASSUME Init
    PROVE  TypeInv
<1>1. IsMachine(hal)
  BY StartIsMachine DEF Init
<1>2. IsSeq(trace)
  BY DEF Init, IsSeq
<1> QED
  BY <1>1, <1>2, MachineFields DEF Init, TypeInv, TypeOK

\* and every step keeps it.
LEMMA TypeInvStep ==
    ASSUME TypeInv, [Next]_vars
    PROVE  TypeInv'
<1> USE DEF EventTypes
<1>0. Len(trace) \in Nat /\ IsMachine(hal) /\ IsSeq(trace) /\ cursor \in 0 .. Len(trace)
  BY AppendFacts DEF TypeInv, TypeOK
<1>1. ASSUME RecordRead PROVE TypeInv'
  <2>1. PICK r \in DevRead(dev, Request(hal.fw).addr) :
           /\ trace' = Append(trace, Event("read", r.dev, Request(hal.fw).addr, r.value))
           /\ hal' = Pump(hal, r.value)
    BY <1>1 DEF RecordRead, GoTo
  <2>2. IsMachine(hal')
    BY <1>0, <1>1, <2>1, MachineSteps DEF RecordRead, Reading
  <2>3. phase' = phase /\ phase = "record" /\ cursor' = cursor
    BY <1>1 DEF RecordRead, UNCHANGED_replay
  <2> QED
    BY <1>0, <2>1, <2>2, <2>3, TraceGrows, MachineFields
    DEF TypeInv, TypeOK, Event
<1>2. ASSUME RecordWrite PROVE TypeInv'
  <2>1. PICK d \in DevWrite(dev, Request(hal.fw).addr, Request(hal.fw).value) :
           /\ trace' = IF RecordWrites
                       THEN Append(trace, Event("write", d, Request(hal.fw).addr,
                                                Request(hal.fw).value))
                       ELSE trace
           /\ hal' = Pump(hal, 0)
    BY <1>2 DEF RecordWrite, GoTo
  <2>2. IsMachine(hal')
    BY <1>0, <1>2, <2>1, MachineSteps DEF RecordWrite, Writing
  <2>3. phase' = phase /\ phase = "record" /\ cursor' = cursor
    BY <1>2 DEF RecordWrite, UNCHANGED_replay
  <2>4. CASE RecordWrites
    BY <1>0, <2>1, <2>2, <2>3, <2>4, TraceGrows, MachineFields, SMTT(60)
    DEF TypeInv, TypeOK, Event
  <2>5. CASE ~RecordWrites
    BY <1>0, <2>1, <2>2, <2>3, <2>5, MachineFields DEF TypeInv, TypeOK
  <2> QED
    BY <2>4, <2>5
<1>3. ASSUME RecordIrq PROVE TypeInv'
  <2>1. PICK p \in DevPoll(dev) :
           /\ trace' = Append(trace, Event("irq", p.dev, p.vector, 0))
           /\ hal' = Dispatch(hal, p.vector)
    BY <1>3 DEF RecordIrq, GoTo
  <2>2. IsMachine(hal')
    BY <1>0, <1>3, <2>1, MachineSteps DEF RecordIrq
  <2>3. phase' = phase /\ phase = "record" /\ cursor' = cursor
    BY <1>3 DEF RecordIrq, UNCHANGED_replay
  <2> QED
    BY <1>0, <2>1, <2>2, <2>3, TraceGrows, MachineFields
    DEF TypeInv, TypeOK, Event
<1>4. ASSUME RecordNoIrq \/ RecordQuiet PROVE TypeInv'
  <2>1. IsMachine(hal')
    BY <1>0, <1>4, MachineSteps DEF RecordNoIrq, RecordQuiet, GoTo
  <2>2. UNCHANGED <<phase, cursor, trace>>
    BY <1>4 DEF RecordNoIrq, RecordQuiet, UNCHANGED_replay
  <2> QED
    BY <1>0, <2>1, <2>2, MachineFields DEF TypeInv, TypeOK
<1>5. ASSUME StopAndReplay PROVE TypeInv'
  <2>1. IsMachine(hal')
    BY <1>5, StartIsMachine DEF StopAndReplay
  <2>2. /\ phase = "record" /\ phase' = "replay" /\ cursor' = 0
        /\ trace' = Append(trace, Event("stop", dev, 0, 0))
    BY <1>5 DEF StopAndReplay
  <2> QED
    BY <1>0, <2>1, <2>2, TraceGrows, MachineFields DEF TypeInv, TypeOK, Event
<1>6. ASSUME ReplayRead \/ ReplayWrite PROVE TypeInv'
  <2>1. IsMachine(hal')
    BY <1>0, <1>6, MachineSteps DEF ReplayRead, ReplayWrite, Reading, Writing
  <2>2. UNCHANGED <<phase, trace>>
    BY <1>6 DEF ReplayRead, ReplayWrite, UNCHANGED_record
  <2>3. cursor' \in 0 .. Len(trace)
    <3>1. \A type, addr, value :
             Mismatch(type, addr, value) = "none" => cursor < Len(trace)
      BY <1>0 DEF Mismatch
    <3>2. \/ cursor' = cursor
          \/ cursor < Len(trace) /\ cursor' = cursor + 1
      BY <1>6, <3>1 DEF ReplayRead, ReplayWrite, Consume, Diverge
    <3> QED
      BY <1>0, <3>2
  <2> QED
    BY <1>0, <2>1, <2>2, <2>3, MachineFields DEF TypeInv, TypeOK
<1>7. ASSUME ReplayIrq PROVE TypeInv'
  <2>1. IsMachine(hal')
    BY <1>0, <1>7, MachineSteps DEF ReplayIrq
  <2>2. UNCHANGED <<phase, trace>> /\ cursor < Len(trace) /\ cursor' = cursor + 1
    BY <1>7 DEF ReplayIrq, UNCHANGED_record, IrqAtCursor, Consume
  <2> QED
    BY <1>0, <2>1, <2>2, MachineFields DEF TypeInv, TypeOK
<1>8. ASSUME ReplayNoIrq \/ ReplayQuiet PROVE TypeInv'
  <2>1. IsMachine(hal')
    BY <1>0, <1>8, MachineSteps DEF ReplayNoIrq, ReplayQuiet
  <2>2. UNCHANGED <<phase, cursor, trace>>
    BY <1>8 DEF ReplayNoIrq, ReplayQuiet, UNCHANGED_record
  <2> QED
    BY <1>0, <2>1, <2>2, MachineFields DEF TypeInv, TypeOK
<1>9. ASSUME ReplayEnds PROVE TypeInv'
  BY <1>9 DEF ReplayEnds, TypeInv, TypeOK, IsMachine, IsSeq
<1>10. ASSUME UNCHANGED vars PROVE TypeInv'
  BY <1>10 DEF vars, TypeInv, TypeOK, IsMachine, IsSeq
<1> QED
  BY <1>1, <1>2, <1>3, <1>4, <1>5, <1>6, <1>7, <1>8, <1>9, <1>10
  DEF Next, RecordStep, ReplayStep

\* TypeOK for every firmware, every device and both settings of the flag.
THEOREM TypeCorrect == Spec => []TypeOK
<1>1. Init => TypeInv
  BY TypeInvInit
<1>2. TypeInv /\ [Next]_vars => TypeInv'
  BY TypeInvStep
<1>3. TypeInv => TypeOK
  BY DEF TypeInv
<1> QED
  BY <1>1, <1>2, <1>3, PTL DEF Spec

--------------------------------------------------------------------------------

\* The recording's history grows by one explained step.  old says that the
\* event the step appended, if any, leaves the earlier steps explained.
LEMMA PathGrows ==
    ASSUME PathInv, NEW m, NEW n, n = Len(path),
           path' = Append(path, [m |-> m, events |-> Len(trace')]),
           \/ trace' = trace
           \/ \E e : trace' = Append(trace, e),
           \A k \in 1 .. Len(path) - 1 : ExplainedAt(k)',
           ExplainedAt(n)'
    PROVE  /\ PathInv'
           /\ Len(path) \in Nat \ {0} /\ Len(path') = Len(path) + 1
           /\ \A k \in 1 .. Len(path) : path'[k] = path[k]
           /\ path'[Len(path')] = [m |-> m, events |-> Len(trace')]
           /\ Len(trace) \in Nat /\ Len(trace) <= Len(trace')
<1>1. /\ IsSeq(path') /\ Len(path) \in Nat
      /\ Len(path') = Len(path) + 1
      /\ \A i \in 1 .. Len(path) : path'[i] = path[i]
      /\ path'[Len(path) + 1] = [m |-> m, events |-> Len(trace')]
  BY AppendFacts DEF PathInv
<1>2. /\ IsSeq(trace') /\ Len(trace) \in Nat /\ Len(trace') \in Nat
      /\ Len(trace) <= Len(trace')
  <2>1. IsSeq(trace) /\ Len(trace) \in Nat
    BY AppendFacts DEF PathInv
  <2>2. CASE trace' = trace
    BY <2>1, <2>2 DEF IsSeq
  <2>3. ASSUME NEW e, trace' = Append(trace, e)
        PROVE  IsSeq(trace') /\ Len(trace') = Len(trace) + 1
    BY <2>1, <2>3, AppendFacts
  <2> QED
    BY <2>1, <2>2, <2>3
<1>3. \A k \in 1 .. Len(path') :
          path'[k].events \in Nat /\ path'[k].events <= Len(trace')
  <2> SUFFICES ASSUME NEW k \in 1 .. Len(path')
               PROVE  path'[k].events \in Nat /\ path'[k].events <= Len(trace')
    OBVIOUS
  <2>1. CASE k \in 1 .. Len(path)
    <3>1. /\ path'[k].events = path[k].events
          /\ path[k].events \in Nat /\ path[k].events <= Len(trace)
      BY <1>1, <2>1 DEF PathInv
    <3> QED
      BY <1>2, <3>1
  <2>2. CASE k = Len(path) + 1
    BY <1>1, <1>2, <2>2
  <2> QED
    BY <1>1, <2>1, <2>2
<1>4. \A k \in 1 .. Len(path') - 1 : ExplainedAt(k)'
  <2>1. \A k \in 1 .. Len(path') - 1 : k \in 1 .. Len(path) - 1 \/ k = n
    BY <1>1
  <2> QED
    BY <2>1
<1>5. Len(path) \in Nat \ {0} /\ Len(path') >= 1
  BY <1>1 DEF PathInv
<1>6. path'[1] = [m |-> Start(Recorded'), events |-> 0]
  <2>1. path'[1] = path[1] /\ Recorded' = Recorded
    BY <1>1, <1>5 DEF Recorded
  <2> QED
    BY <2>1 DEF PathInv
<1>7. PathInv'
  BY <1>1, <1>2, <1>3, <1>4, <1>5, <1>6 DEF PathInv
<1> QED
  BY <1>1, <1>2, <1>5, <1>7

\* A step explained by the trace stays explained as the trace grows: an event
\* that was appended does not change it, unless it is an interrupt where the
\* step had found none.
LEMMA StaysExplained ==
    ASSUME PathInv, NEW k \in 1 .. Len(path) - 1,
           NEW e, trace' = Append(trace, e),
           path'[k] = path[k], path'[k + 1] = path[k + 1],
           \/ e.type # "irq"
           \/ FoundNothing(k) => path[k].events < Len(trace)
    PROVE  ExplainedAt(k)'
<1>1. /\ Len(path) \in Nat /\ Len(trace) \in Nat
      /\ Len(trace') = Len(trace) + 1
      /\ \A i \in 1 .. Len(trace) : trace'[i] = trace[i]
      /\ trace'[Len(trace) + 1] = e
  BY AppendFacts DEF PathInv
<1>2. /\ path[k].events \in Nat /\ path[k].events <= Len(trace)
      /\ ExplainedAt(k)
  BY <1>1 DEF PathInv
<1>3. CASE path[k].events < Len(trace)
  <2>1. trace'[path[k].events + 1] = trace[path[k].events + 1]
    BY <1>1, <1>2, <1>3
  <2>2. path[k].events < Len(trace')
    BY <1>1, <1>2, <1>3
  <2>3. Explains(TRUE, trace[path[k].events + 1], path[k], path[k + 1])
    BY <1>2, <1>3 DEF ExplainedAt
  <2>4. Explains(path[k].events < Len(trace'), trace'[path[k].events + 1],
                 path[k], path[k + 1])
    BY <2>1, <2>2, <2>3
  <2> QED
    BY <2>4 DEF ExplainedAt
<1>4. CASE path[k].events = Len(trace)
  <2>1. trace'[path[k].events + 1] = e /\ path[k].events < Len(trace')
    BY <1>1, <1>4
  <2>2. Explains(FALSE, trace[path[k].events + 1], path[k], path[k + 1])
    <3>1. (path[k].events < Len(trace)) = FALSE
      BY <1>1, <1>4
    <3> QED
      BY <1>2, <3>1 DEF ExplainedAt
  <2>3. \/ Quiet(path[k].m)
        \/ Polling(path[k].m) /\ e.type # "irq"
    <3>1. \/ Quiet(path[k].m)
          \/ Polling(path[k].m) /\ path[k + 1].events = path[k].events
      BY <2>2 DEF Explains
    <3>2. ~(path[k].events < Len(trace))
      BY <1>1, <1>4
    <3> QED
      BY <3>1, <3>2 DEF FoundNothing
  <2>4. Explains(TRUE, e, path[k], path[k + 1])
    BY <2>2, <2>3 DEF Explains, Polling, Quiet
  <2>5. Explains(path[k].events < Len(trace'), trace'[path[k].events + 1],
                 path[k], path[k + 1])
    BY <2>1, <2>4
  <2> QED
    BY <2>5 DEF ExplainedAt
<1> QED
  BY <1>1, <1>2, <1>3, <1>4

\* The fields of an entry of the path.
LEMMA EntryEvents ==
    \A a, x, y : a = [m |-> x, events |-> y] => a.events = y
OBVIOUS

\* Both of them.
LEMMA EntryFields ==
    \A a, x, y : a = [m |-> x, events |-> y] => a.m = x /\ a.events = y
OBVIOUS

\* A step of the recording that appends an event keeps the invariant.
LEMMA EventRecorded ==
    ASSUME IInv, phase = "record", phase' = "record", IsMachine(hal'),
           NEW e, trace' = Append(trace, e),
           path' = Append(path, [m |-> hal', events |-> Len(trace')]),
           Explains(TRUE, e, [m |-> hal, events |-> Len(trace)],
                             [m |-> hal', events |-> Len(trace) + 1]),
           e.type = "irq" => hal.inIsr
    PROVE  IInv'
<1>1. /\ Len(trace) \in Nat /\ Len(trace') = Len(trace) + 1
      /\ trace'[Len(trace) + 1] = e
      /\ Len(path) \in Nat \ {0} /\ Len(path') = Len(path) + 1
      /\ \A k \in 1 .. Len(path) : path'[k] = path[k]
      /\ path'[Len(path) + 1] = [m |-> hal', events |-> Len(trace')]
  BY AppendFacts DEF IInv, PathInv
<1>2. path[Len(path)] = [m |-> hal, events |-> Len(trace)]
  BY DEF IInv, RecordInv
<1>3. ASSUME NEW k \in 1 .. Len(path) - 1
      PROVE  ExplainedAt(k)'
  <2>1. path'[k] = path[k] /\ path'[k + 1] = path[k + 1]
    BY <1>1
  <2>2. \/ e.type # "irq"
        \/ FoundNothing(k) => path[k].events < Len(trace)
    BY DEF IInv, RecordInv
  <2> QED
    BY <2>1, <2>2, StaysExplained DEF IInv
<1>4. PICK n : n = Len(path)
  OBVIOUS
<1>5. ExplainedAt(n)'
  <2>1. path'[n] = [m |-> hal, events |-> Len(trace)]
    BY <1>1, <1>2, <1>4
  <2>2. path'[n + 1] = [m |-> hal', events |-> Len(trace) + 1]
    BY <1>1, <1>4
  <2> DEFINE c == path'[n].events
  <2>3. c = Len(trace)
    <3>1. PICK q, x, y : q = path'[n] /\ x = hal /\ y = Len(trace) /\ q = [m |-> x, events |-> y]
      BY <2>1
    <3>2. q.events = y
      BY ONLY <3>1
    <3> QED
      BY <3>1, <3>2
  <2>4. /\ Len(trace) \in Nat /\ Len(trace') = Len(trace) + 1
        /\ trace'[Len(trace) + 1] = e
    BY <1>1
  <2> HIDE DEF c
  <2>5. c < Len(trace') /\ trace'[c + 1] = e
    BY <2>3, <2>4
  <2>6. Explains(c < Len(trace'), trace'[c + 1], path'[n], path'[n + 1])
    BY <2>1, <2>2, <2>5
  <2> QED
    BY <2>6 DEF ExplainedAt, c
<1>6. PathInv'
  BY <1>3, <1>4, <1>5, PathGrows DEF IInv
<1>7. ASSUME NEW k \in 1 .. Len(path') - 1
      PROVE  path'[k].events < Len(trace')
  <2>1. path'[k] = path[k] /\ path[k].events <= Len(trace) /\ path[k].events \in Nat
    BY <1>1 DEF IInv, PathInv
  <2> QED
    BY <1>1, <2>1
<1>8. RecordInv'
  BY <1>1, <1>7 DEF RecordInv
<1> QED
  BY <1>6, <1>8 DEF IInv, ReplayInv

\* So does a step that appends none.
LEMMA NothingRecorded ==
    ASSUME IInv, phase = "record", phase' = "record", IsMachine(hal'),
           trace' = trace,
           path' = Append(path, [m |-> hal', events |-> Len(trace')]),
           \A ev : Explains(FALSE, ev, [m |-> hal, events |-> Len(trace)],
                                       [m |-> hal', events |-> Len(trace)]),
           hal'.inIsr => hal.inIsr /\ ~Polling(hal)
    PROVE  IInv'
<1>1. /\ Len(trace) \in Nat
      /\ Len(path) \in Nat \ {0} /\ Len(path') = Len(path) + 1
      /\ \A k \in 1 .. Len(path) : path'[k] = path[k]
      /\ path'[Len(path) + 1] = [m |-> hal', events |-> Len(trace')]
  BY AppendFacts DEF IInv, PathInv
<1>2. path[Len(path)] = [m |-> hal, events |-> Len(trace)]
  BY DEF IInv, RecordInv
<1>3. ASSUME NEW k \in 1 .. Len(path) - 1
      PROVE  ExplainedAt(k)'
  <2>1. path'[k] = path[k] /\ path'[k + 1] = path[k + 1] /\ ExplainedAt(k)
    BY <1>1 DEF IInv, PathInv
  <2> QED
    BY <2>1 DEF ExplainedAt
<1>4. PICK n : n = Len(path)
  OBVIOUS
<1>5. ExplainedAt(n)'
  <2>1. /\ path'[n] = [m |-> hal, events |-> Len(trace)]
        /\ path'[n + 1] = [m |-> hal', events |-> Len(trace)]
    BY <1>1, <1>2, <1>4
  <2> DEFINE c == path'[n].events
  <2>5. c = Len(trace)
    <3>1. PICK q, x, y : q = path'[n] /\ x = hal /\ y = Len(trace) /\ q = [m |-> x, events |-> y]
      BY <2>1
    <3>2. q.events = y
      BY ONLY <3>1
    <3> QED
      BY <3>1, <3>2
  <2> HIDE DEF c
  <2>2. ~(c < Len(trace'))
    BY <1>1, <2>5
  <2>3. Explains(FALSE, trace'[c + 1], path'[n], path'[n + 1])
    <3>1. Explains(FALSE, trace'[c + 1], [m |-> hal, events |-> Len(trace)],
                   [m |-> hal', events |-> Len(trace)])
      OBVIOUS
    <3> QED
      BY <2>1, <3>1, Zenon
  <2>4. Explains(c < Len(trace'), trace'[c + 1], path'[n], path'[n + 1])
    BY <2>2, <2>3, Zenon DEF Explains
  <2> QED
    BY <2>4 DEF ExplainedAt, c
<1>6. PathInv'
  BY <1>3, <1>4, <1>5, PathGrows DEF IInv
<1>7. ASSUME hal'.inIsr, NEW k \in 1 .. Len(path') - 1, FoundNothing(k)'
      PROVE  path'[k].events < Len(trace')
  <2>1. CASE k = Len(path)
    BY <1>1, <1>2, <1>7, <2>1 DEF FoundNothing
  <2>2. CASE k \in 1 .. Len(path) - 1
    <3>1. path'[k] = path[k] /\ path'[k + 1] = path[k + 1]
      BY <1>1, <2>2
    <3>2. FoundNothing(k)
      BY <1>7, <3>1 DEF FoundNothing
    <3> QED
      BY <1>7, <2>2, <3>1, <3>2 DEF IInv, RecordInv
  <2> QED
    BY <1>1, <2>1, <2>2
<1>8. RecordInv'
  BY <1>1, <1>7 DEF RecordInv
<1> QED
  BY <1>6, <1>8 DEF IInv, ReplayInv

\* Every step of the recording itself keeps the invariant.
LEMMA RecordingKeeps ==
    ASSUME RecordWrites, IInv,
           RecordRead \/ RecordWrite \/ RecordIrq \/ RecordNoIrq \/ RecordQuiet
    PROVE  IInv'
<1>1. IsMachine(hal)
  BY DEF IInv
<1>2. phase = "record" /\ phase' = "record"
  BY DEF RecordRead, RecordWrite, RecordIrq, RecordNoIrq, RecordQuiet,
         UNCHANGED_replay
<1>3. ASSUME RecordRead PROVE IInv'
  <2>1. PICK r \in DevRead(dev, Request(hal.fw).addr) :
           /\ trace' = Append(trace, Event("read", r.dev, Request(hal.fw).addr, r.value))
           /\ GoTo(Pump(hal, r.value))
    BY <1>3 DEF RecordRead
  <2> DEFINE e == Event("read", r.dev, Request(hal.fw).addr, r.value)
  <2>2. Reading(hal) /\ IsMachine(hal')
    BY <1>1, <1>3, <2>1, MachineSteps DEF RecordRead, Reading, GoTo
  <2>3. e.type = "read" /\ e.addr = Request(hal.fw).addr /\ e.value = r.value
    BY DEF Event
  <2> HIDE DEF e
  <2>4. Explains(TRUE, e, [m |-> hal, events |-> Len(trace)],
                          [m |-> hal', events |-> Len(trace) + 1])
    BY <2>1, <2>2, <2>3 DEF Explains, GoTo
  <2>5. /\ trace' = Append(trace, e)
        /\ path' = Append(path, [m |-> hal', events |-> Len(trace')])
    BY <2>1 DEF GoTo, e
  <2>6. e.type # "irq"
    BY <2>3
  <2> QED
    BY <1>2, <2>2, <2>4, <2>5, <2>6, EventRecorded
<1>4. ASSUME RecordWrite PROVE IInv'
  <2>1. PICK d \in DevWrite(dev, Request(hal.fw).addr, Request(hal.fw).value) :
           /\ trace' = Append(trace, Event("write", d, Request(hal.fw).addr,
                                           Request(hal.fw).value))
           /\ GoTo(Pump(hal, 0))
    BY <1>4 DEF RecordWrite
  <2> DEFINE e == Event("write", d, Request(hal.fw).addr, Request(hal.fw).value)
  <2>2. Writing(hal) /\ IsMachine(hal')
    BY <1>1, <1>4, <2>1, MachineSteps DEF RecordWrite, Writing, GoTo
  <2>3. /\ e.type = "write" /\ e.addr = Request(hal.fw).addr
        /\ e.value = Request(hal.fw).value
    BY DEF Event
  <2> HIDE DEF e
  <2>4. Explains(TRUE, e, [m |-> hal, events |-> Len(trace)],
                          [m |-> hal', events |-> Len(trace) + 1])
    BY <2>1, <2>2, <2>3 DEF Explains, GoTo
  <2>5. /\ trace' = Append(trace, e)
        /\ path' = Append(path, [m |-> hal', events |-> Len(trace')])
    BY <2>1 DEF GoTo, e
  <2>6. e.type # "irq"
    BY <2>3
  <2> QED
    BY <1>2, <2>2, <2>4, <2>5, <2>6, EventRecorded
<1>5. ASSUME RecordIrq PROVE IInv'
  <2>1. PICK p \in DevPoll(dev) :
           /\ trace' = Append(trace, Event("irq", p.dev, p.vector, 0))
           /\ GoTo(Dispatch(hal, p.vector))
    BY <1>5 DEF RecordIrq
  <2> DEFINE e == Event("irq", p.dev, p.vector, 0)
  <2>2. Polling(hal) /\ IsMachine(hal')
    BY <1>1, <1>5, <2>1, MachineSteps DEF RecordIrq, GoTo
  <2>3. e.type = "irq" /\ e.addr = p.vector
    BY DEF Event
  <2> HIDE DEF e
  <2>4. Explains(TRUE, e, [m |-> hal, events |-> Len(trace)],
                          [m |-> hal', events |-> Len(trace) + 1])
    BY <2>1, <2>2, <2>3 DEF Explains, GoTo
  <2>5. /\ trace' = Append(trace, e)
        /\ path' = Append(path, [m |-> hal', events |-> Len(trace')])
    BY <2>1 DEF GoTo, e
  <2>6. hal.inIsr
    BY <1>1, <2>2 DEF IsMachine, Polling
  <2> QED
    BY <1>2, <2>2, <2>4, <2>5, <2>6, EventRecorded
<1>6. ASSUME RecordNoIrq PROVE IInv'
  <2>1. Polling(hal) /\ trace' = trace /\ GoTo(PumpDone(hal))
    BY <1>6 DEF RecordNoIrq
  <2>2. IsMachine(hal') /\ ~hal'.inIsr
    BY <1>1, <2>1, MachineSteps DEF GoTo
  <2>3. \A ev : Explains(FALSE, ev, [m |-> hal, events |-> Len(trace)],
                                    [m |-> hal', events |-> Len(trace)])
    BY <2>1 DEF Explains, GoTo
  <2> QED
    BY <1>2, <2>1, <2>2, <2>3, NothingRecorded DEF GoTo
<1>7. ASSUME RecordQuiet PROVE IInv'
  <2>1. Quiet(hal) /\ trace' = trace /\ GoTo(AfterQuiet(hal))
    BY <1>7 DEF RecordQuiet
  <2>2. IsMachine(hal') /\ hal'.inIsr = hal.inIsr
    BY <1>1, <2>1, MachineSteps DEF GoTo
  <2>3. \A ev : Explains(FALSE, ev, [m |-> hal, events |-> Len(trace)],
                                    [m |-> hal', events |-> Len(trace)])
    BY <2>1 DEF Explains, GoTo
  <2>4. ~Polling(hal)
    BY <2>1 DEF Quiet, Polling
  <2> QED
    BY <1>2, <2>1, <2>2, <2>3, <2>4, NothingRecorded DEF GoTo
<1> QED
  BY <1>3, <1>4, <1>5, <1>6, <1>7

\* The stop event ends the recording without unexplaining any of its steps.
LEMMA StopKeepsPath ==
    ASSUME PathInv, path' = path, NEW e, trace' = Append(trace, e), e.type # "irq"
    PROVE  /\ PathInv'
           /\ Len(trace) \in Nat /\ Len(trace') = Len(trace) + 1
           /\ Len(path) \in Nat /\ Len(path) >= 1
<1>1. /\ IsSeq(trace') /\ Len(trace) \in Nat /\ Len(trace') = Len(trace) + 1
      /\ IsSeq(path) /\ Len(path) \in Nat /\ Len(path) >= 1
  BY AppendFacts DEF PathInv
<1>2. ASSUME NEW k \in 1 .. Len(path) - 1 PROVE ExplainedAt(k)'
  <2>1. path'[k] = path[k] /\ path'[k + 1] = path[k + 1]
    OBVIOUS
  <2> QED
    BY <2>1, StaysExplained
<1>3. ASSUME NEW k \in 1 .. Len(path)
      PROVE  path'[k].events \in Nat /\ path'[k].events <= Len(trace')
  <2>1. path[k].events \in Nat /\ path[k].events <= Len(trace)
    BY DEF PathInv
  <2>2. path'[k].events = path[k].events
    OBVIOUS
  <2> QED
    BY <1>1, <2>1, <2>2
<1>4. /\ path' = path /\ Recorded' = Recorded
      /\ path[1] = [m |-> Start(Recorded), events |-> 0]
  BY DEF PathInv, Recorded
<1> QED
  BY <1>1, <1>2, <1>3, <1>4 DEF PathInv, IsSeq

\* So the replay starts where the recording started.
LEMMA StopKeeps ==
    ASSUME IInv, StopAndReplay
    PROVE  IInv'
<1> DEFINE e == Event("stop", dev, 0, 0)
<1>1. /\ phase = "record" /\ phase' = "replay" /\ Halted(hal)
      /\ hal' = Start(from')
      /\ cursor' = 0 /\ divergence' = "none" /\ step' = 1 /\ path' = path
      /\ trace' = Append(trace, e)
  BY DEF StopAndReplay
<1>2. e.type # "irq"
  BY DEF Event
<1> HIDE DEF e
<1>3. /\ PathInv' /\ Len(trace) \in Nat /\ Len(trace') = Len(trace) + 1
      /\ Len(path) \in Nat /\ Len(path) >= 1
  BY <1>1, <1>2, StopKeepsPath DEF IInv
<1>7. path[1].m = Start(Recorded) /\ path[1].events = 0
  <2>1. path[1] = [m |-> Start(Recorded), events |-> 0]
    BY DEF IInv, PathInv
  <2> QED
    BY <2>1, EntryFields
<1>8. path[Len(path)].m = hal /\ path[Len(path)].events = Len(trace)
  BY <1>1 DEF IInv, RecordInv
<1>9. ReplayInv'
  <2> SUFFICES ASSUME from' = Recorded' PROVE ReplayInv'
    BY DEF ReplayInv
  <2>1. step' \in 1 .. Len(path')
    BY <1>1, <1>3
  <2>5. from' = Recorded
    BY <1>1 DEF Recorded
  <2>2. path'[Len(path')].events = Len(trace') - 1
    BY <1>1, <1>3, <1>8
  <2>3. hal' = path'[step'].m /\ cursor' = path'[step'].events
    BY <1>1, <1>7, <2>5
  <2>4. Halted(path'[Len(path')].m)
    BY <1>1, <1>8
  <2> QED
    BY <1>1, <2>1, <2>2, <2>3, <2>4 DEF ReplayInv
<1> QED
  BY <1>1, <1>3, <1>9, StartIsMachine DEF IInv, RecordInv

--------------------------------------------------------------------------------

\* The five things a machine can be about to do exclude each other.
LEMMA Exclusive ==
    ASSUME NEW m
    PROVE  /\ Reading(m) => ~Writing(m) /\ ~Polling(m) /\ ~Quiet(m)
           /\ Writing(m) => ~Polling(m) /\ ~Quiet(m)
           /\ Polling(m) => ~Quiet(m)
           /\ Halted(m) => /\ ~Reading(m) /\ ~Writing(m)
                           /\ ~Polling(m) /\ ~Quiet(m)
BY DEF Reading, Writing, Polling, Quiet, Halted

\* A replay that has not reached the end of the recording is where the trace
\* explains the next step.
LEMMA OnThePath ==
    ASSUME IInv, phase # "record", from = Recorded, ~Halted(hal)
    PROVE  /\ step \in 1 .. Len(path) - 1 /\ Len(path) \in Nat
           /\ Len(trace) \in Nat /\ cursor \in Nat
           /\ Explains(cursor < Len(trace), trace[cursor + 1],
                       path[step], path[step + 1])
           /\ path[step].m = hal /\ path[step].events = cursor
<1>1. Len(path) \in Nat /\ Len(trace) \in Nat
  BY AppendFacts DEF IInv, PathInv
<1>2. /\ step \in 1 .. Len(path) /\ hal = path[step].m
      /\ cursor = path[step].events /\ Halted(path[Len(path)].m)
  BY DEF IInv, ReplayInv
<1>3. step # Len(path)
  BY <1>2
<1>4. step \in 1 .. Len(path) - 1
  BY <1>1, <1>2, <1>3
<1>5. ExplainedAt(step)
  BY <1>4 DEF IInv, PathInv
<1>6. cursor \in Nat
  BY <1>2 DEF IInv, PathInv
<1> QED
  BY <1>1, <1>2, <1>4, <1>5, <1>6 DEF ExplainedAt

\* A replay step that goes where the recording went keeps the invariant.
LEMMA FollowsPath ==
    ASSUME IInv, phase = "replay", from = Recorded, step \in 1 .. Len(path) - 1,
           UNCHANGED <<phase, trace, path, divergence>>, step' = step + 1,
           hal' = path[step + 1].m, cursor' = path[step + 1].events,
           IsMachine(hal')
    PROVE  IInv'
<1>1. Len(path) \in Nat
  BY AppendFacts DEF IInv, PathInv
<1>2. PathInv'
  BY DEF IInv, PathInv, ExplainedAt, IsSeq, Recorded
<1>3. ReplayInv'
  <2>1. step' \in 1 .. Len(path')
    BY <1>1
  <2>2. hal' = path'[step'].m /\ cursor' = path'[step'].events
    OBVIOUS
  <2> QED
    BY <2>1, <2>2 DEF IInv, ReplayInv
<1> QED
  BY <1>2, <1>3 DEF IInv, RecordInv

\* A replay that stands where the trace explains the next step takes that step.
LEMMA TakesTheStep ==
    ASSUME RecordWrites, IsMachine(hal), cursor \in Nat, Len(trace) \in Nat,
           NEW here, here.m = hal, here.events = cursor, NEW there,
           Explains(cursor < Len(trace), trace[cursor + 1], here, there),
           ReplayRead \/ ReplayWrite \/ ReplayIrq \/ ReplayNoIrq \/ ReplayQuiet
    PROVE  /\ hal' = there.m /\ cursor' = there.events
           /\ divergence' = divergence /\ IsMachine(hal')
<1> DEFINE ev == trace[cursor + 1]
<1>1. Explains(cursor < Len(trace), ev, here, there)
  OBVIOUS
<1> HIDE DEF ev
<1>2. CASE ReplayRead
  <2>1. Reading(hal)
    BY <1>2 DEF ReplayRead
  <2>2. /\ cursor < Len(trace) /\ ev.type = "read"
        /\ ev.addr = Request(hal.fw).addr
        /\ there.m = Pump(hal, ev.value) /\ there.events = cursor + 1
    BY <1>1, <2>1, Exclusive DEF Explains
  <2>3. Mismatch("read", Request(hal.fw).addr, 0) = "none"
    BY <2>2 DEF Mismatch, ev
  <2>4. hal' = Pump(hal, ev.value) /\ Consume
    BY <1>2, <2>3 DEF ReplayRead, ev
  <2> QED
    BY <2>1, <2>2, <2>4, MachineSteps DEF Consume, Reading
<1>3. CASE ReplayWrite
  <2>1. Writing(hal) /\ hal' = Pump(hal, 0)
    BY <1>3 DEF ReplayWrite
  <2>2. /\ cursor < Len(trace) /\ ev.type = "write"
        /\ ev.addr = Request(hal.fw).addr /\ ev.value = Request(hal.fw).value
        /\ there.m = Pump(hal, 0) /\ there.events = cursor + 1
    BY <1>1, <2>1, Exclusive DEF Explains
  <2>3. Mismatch("write", Request(hal.fw).addr, Request(hal.fw).value) = "none"
    BY <2>2 DEF Mismatch, ev
  <2>4. Consume
    BY <1>3, <2>3 DEF ReplayWrite
  <2> QED
    BY <2>1, <2>2, <2>4, MachineSteps DEF Consume, Writing
<1>4. CASE ReplayIrq
  <2>1. /\ Polling(hal) /\ cursor < Len(trace) /\ ev.type = "irq"
        /\ Consume /\ hal' = Dispatch(hal, ev.addr)
    BY <1>4 DEF ReplayIrq, IrqAtCursor, ev
  <2>2. there.m = Dispatch(hal, ev.addr) /\ there.events = cursor + 1
    BY <1>1, <2>1, Exclusive DEF Explains
  <2> QED
    BY <2>1, <2>2, MachineSteps DEF Consume
<1>5. CASE ReplayNoIrq
  <2>1. /\ Polling(hal) /\ ~(cursor < Len(trace) /\ ev.type = "irq")
        /\ hal' = PumpDone(hal) /\ UNCHANGED <<cursor, divergence>>
    BY <1>5 DEF ReplayNoIrq, IrqAtCursor, ev
  <2>2. there.m = PumpDone(hal) /\ there.events = cursor
    BY <1>1, <2>1, Exclusive DEF Explains
  <2> QED
    BY <2>1, <2>2, MachineSteps
<1>6. CASE ReplayQuiet
  <2>1. /\ Quiet(hal) /\ hal' = AfterQuiet(hal)
        /\ UNCHANGED <<cursor, divergence>>
    BY <1>6 DEF ReplayQuiet
  <2>2. there.m = AfterQuiet(hal) /\ there.events = cursor
    BY <1>1, <2>1, Exclusive DEF Explains
  <2> QED
    BY <2>1, <2>2, MachineSteps
<1> QED
  BY <1>2, <1>3, <1>4, <1>5, <1>6

\* With every write in the trace and the firmware that was recorded, each step
\* of the replay goes where the recording went.
LEMMA ReplayFollows ==
    ASSUME RecordWrites, IInv, from = Recorded,
           ReplayRead \/ ReplayWrite \/ ReplayIrq \/ ReplayNoIrq \/ ReplayQuiet
    PROVE  IInv'
<1>1. /\ phase = "replay" /\ step' = step + 1
      /\ UNCHANGED <<phase, trace, path>>
  BY DEF ReplayRead, ReplayWrite, ReplayIrq, ReplayNoIrq, ReplayQuiet,
         UNCHANGED_record
<1>2. /\ Reading(hal) \/ Writing(hal) \/ Polling(hal) \/ Quiet(hal)
      /\ IsMachine(hal)
  BY DEF ReplayRead, ReplayWrite, ReplayIrq, ReplayNoIrq, ReplayQuiet, IInv
<1>3. /\ step \in 1 .. Len(path) - 1 /\ Len(trace) \in Nat /\ cursor \in Nat
      /\ Explains(cursor < Len(trace), trace[cursor + 1], path[step], path[step + 1])
      /\ path[step].m = hal /\ path[step].events = cursor
  <2>1. ~Halted(hal)
    BY <1>2, Exclusive
  <2> QED
    BY <1>1, <2>1, OnThePath
<1>4. /\ hal' = path[step + 1].m /\ cursor' = path[step + 1].events
      /\ divergence' = divergence /\ IsMachine(hal')
  BY <1>2, <1>3, TakesTheStep
<1> QED
  BY <1>1, <1>3, <1>4, FollowsPath

\* Wherever the replay goes, the shim's machine keeps its shape.
LEMMA ReplayKeepsMachine ==
    ASSUME IsMachine(hal),
           ReplayRead \/ ReplayWrite \/ ReplayIrq \/ ReplayNoIrq \/ ReplayQuiet
    PROVE  IsMachine(hal')
<1>1. CASE ReplayRead
  BY <1>1, MachineSteps DEF ReplayRead, Reading
<1>2. CASE ReplayWrite
  BY <1>2, MachineSteps DEF ReplayWrite, Writing
<1>3. CASE ReplayIrq
  BY <1>3, MachineSteps DEF ReplayIrq
<1>4. CASE ReplayNoIrq
  BY <1>4, MachineSteps DEF ReplayNoIrq
<1>5. CASE ReplayQuiet
  BY <1>5, MachineSteps DEF ReplayQuiet
<1> QED
  BY <1>1, <1>2, <1>3, <1>4, <1>5

\* Another firmware goes elsewhere; the recording is none the worse for it.
LEMMA ReplayStrays ==
    ASSUME IInv, from # Recorded,
           ReplayRead \/ ReplayWrite \/ ReplayIrq \/ ReplayNoIrq \/ ReplayQuiet
    PROVE  IInv'
<1>1. phase = "replay" /\ UNCHANGED <<phase, dev, trace, path, from>>
  BY DEF ReplayRead, ReplayWrite, ReplayIrq, ReplayNoIrq, ReplayQuiet,
         UNCHANGED_record
<1>2. IsMachine(hal')
  BY ReplayKeepsMachine DEF IInv
<1>3. PathInv' /\ from' # Recorded'
  BY <1>1 DEF IInv, PathInv, ExplainedAt, IsSeq, Recorded
<1> QED
  BY <1>1, <1>2, <1>3 DEF IInv, RecordInv, ReplayInv

\* The invariant holds at the start,
LEMMA IInvInit ==
    ASSUME Init
    PROVE  IInv
<1>1. IsMachine(hal) /\ phase = "record"
  BY StartIsMachine DEF Init
<1>2. /\ path = <<[m |-> hal, events |-> 0]>> /\ trace = <<>>
      /\ hal = Start(from)
  BY DEF Init
<1>3. Len(path) = 1 /\ path[1] = [m |-> hal, events |-> 0] /\ Len(trace) = 0
  BY <1>2
<1>4. path[1].events = 0 /\ path[1].m = hal
  BY <1>3, EntryFields
<1>8. path[1] = [m |-> Start(Recorded), events |-> 0]
  <2>1. Recorded = from
    BY <1>2, <1>4 DEF Recorded, Start
  <2> QED
    BY <1>2, <1>3, <2>1
<1>5. IsSeq(path) /\ IsSeq(trace)
  BY <1>2 DEF IsSeq
<1>6. PathInv
  BY <1>2, <1>3, <1>4, <1>5, <1>8 DEF PathInv
<1>7. RecordInv
  BY <1>3 DEF RecordInv
<1> QED
  BY <1>1, <1>6, <1>7 DEF IInv, ReplayInv

\* and every step of a recording that holds the writes, or of a replay, keeps it.
LEMMA IInvStep ==
    ASSUME RecordWrites, IInv, [Next]_vars
    PROVE  IInv'
<1>1. CASE RecordRead \/ RecordWrite \/ RecordIrq \/ RecordNoIrq \/ RecordQuiet
  BY <1>1, RecordingKeeps
<1>2. CASE StopAndReplay
  BY <1>2, StopKeeps
<1>3. CASE ReplayRead \/ ReplayWrite \/ ReplayIrq \/ ReplayNoIrq \/ ReplayQuiet
  BY <1>3, ReplayFollows, ReplayStrays
<1>4. CASE ReplayEnds
  <2>1. /\ phase = "replay" /\ phase' = "done" /\ Halted(hal)
        /\ UNCHANGED <<hal, trace, cursor, divergence, path, step, from>>
    BY <1>4 DEF ReplayEnds
  <2> QED
    BY <2>1 DEF IInv, PathInv, ExplainedAt, IsSeq, RecordInv, ReplayInv, Recorded
<1>5. CASE UNCHANGED vars
  BY <1>5 DEF vars, IInv, PathInv, ExplainedAt, IsSeq, IsMachine, RecordInv,
              ReplayInv, FoundNothing, Recorded
<1> QED
  BY <1>1, <1>2, <1>3, <1>4, <1>5 DEF Next, RecordStep, ReplayStep

\* The invariant holds of every recording that holds the writes, and of every
\* replay of it.
LEMMA IInvCorrect ==
    ASSUME RecordWrites
    PROVE  Spec => []IInv
<1>1. Init => IInv
  BY IInvInit
<1>2. IInv /\ [Next]_vars => IInv'
  BY IInvStep
<1> QED
  BY <1>1, <1>2, PTL DEF Spec

\* A replay in that invariant is in lockstep with the recording.
LEMMA InLockstep == IInv => Lockstep
<1> SUFFICES ASSUME IInv, phase # "record", from = Recorded PROVE
        /\ divergence = "none" /\ step <= Len(path)
        /\ hal = path[step].m /\ cursor = path[step].events
  BY DEF Lockstep
<1>1. Len(path) \in Nat
  BY AppendFacts DEF IInv, PathInv
<1> QED
  BY <1>1 DEF IInv, ReplayInv

\* The golden property of docs/design/execution-model.md, for every firmware,
\* every device and every placement of the interrupts: the replay of the
\* recorded firmware goes through the machines of the recording, one by one.
THEOREM GoldenProperty ==
    ASSUME RecordWrites
    PROVE  Spec => []Lockstep
BY InLockstep, IInvCorrect, PTL

\* What test_determinism.cpp asserts of the two runs' ends, under the same
\* assumption: no divergence, the whole trace consumed, the same state.
THEOREM SameEndCorrect ==
    ASSUME RecordWrites
    PROVE  Spec => []SameEnd
<1>1. IInv => SameEnd
  <2> SUFFICES ASSUME IInv, phase = "done", from = Recorded PROVE
          /\ divergence = "none" /\ cursor = Len(trace) - 1
          /\ hal.fw = path[Len(path)].m.fw
    BY DEF SameEnd
  <2>1. /\ divergence = "none" /\ step \in 1 .. Len(path) /\ hal = path[step].m
        /\ cursor = path[step].events /\ path[Len(path)].events = Len(trace) - 1
        /\ Halted(hal)
    BY DEF IInv, ReplayInv
  <2>2. step = Len(path)
    <3>1. SUFFICES ASSUME step # Len(path) PROVE FALSE
      OBVIOUS
    <3>2. Len(path) \in Nat
      BY AppendFacts DEF IInv, PathInv
    <3>3. step \in 1 .. Len(path) - 1
      BY <2>1, <3>1, <3>2
    <3>4. ExplainedAt(step)
      BY <3>3 DEF IInv, PathInv
    <3> QED
      BY <2>1, <3>4, Exclusive DEF ExplainedAt, Explains
  <2> QED
    BY <2>1, <2>2
<1> QED
  BY <1>1, IInvCorrect, PTL

--------------------------------------------------------------------------------
(* Recordings behind the shim and on the part (Hardware).                    *)

\* The trace tr tells of a run of f through the entries of p.
Told(f, p, tr) ==
    /\ IsSeq(p) /\ Len(p) >= 1 /\ IsSeq(tr)
    /\ p[1] = [m |-> Start(f), events |-> 0]
    /\ \A k \in 1 .. Len(p) : p[k].events \in Nat /\ p[k].events <= Len(tr)
    /\ \A k \in 1 .. Len(p) - 1 :
          Explains(p[k].events < Len(tr), tr[p[k].events + 1], p[k], p[k + 1])

\* No poll of p that found nothing looked at the end of tr.
Settled(p, tr) ==
    \A k \in 1 .. Len(p) - 1 :
        Polling(p[k].m) /\ p[k + 1].events = p[k].events => p[k].events < Len(tr)

\* The trace tr explains the step from a to b behind n events, which leaves c.
Tells(tr, n, a, b, c) ==
    Explains(n < Len(tr), tr[n + 1], [m |-> a, events |-> n], [m |-> b, events |-> c])

\* The run p has come to machine a with n events behind it.
ComesTo(p, a, n) == p[Len(p)] = [m |-> a, events |-> n]

\* The run q goes a step further than p.
Further(q, p, b, c) == q = Append(p, [m |-> b, events |-> c])

\* A step explained at the end of the trace is one that recorded nothing.
LEMMA ExplainedAtTheEnd ==
    ASSUME NEW ev, NEW e, NEW a, NEW b, Explains(FALSE, ev, a, b),
           e.type # "irq" \/ ~(Polling(a.m) /\ b.events = a.events)
    PROVE  Explains(TRUE, e, a, b)
BY DEF Explains

\* A trace that grows still tells what it told.
LEMMA StillTold ==
    ASSUME NEW f, NEW p, NEW tr, Told(f, p, tr), NEW e,
           e.type # "irq" \/ Settled(p, tr)
    PROVE  Told(f, p, Append(tr, e)) /\ Settled(p, Append(tr, e))
<1> DEFINE t == Append(tr, e)
<1>1. /\ IsSeq(t) /\ Len(tr) \in Nat /\ Len(t) = Len(tr) + 1
      /\ \A i \in 1 .. Len(tr) : t[i] = tr[i]
      /\ t[Len(tr) + 1] = e
  BY AppendFacts DEF Told
<1>2. Len(p) \in Nat
  BY AppendFacts DEF Told
<1> HIDE DEF t
<1>3. ASSUME NEW k \in 1 .. Len(p)
      PROVE  p[k].events \in Nat /\ p[k].events <= Len(t) /\ p[k].events < Len(t)
  <2>1. p[k].events \in Nat /\ p[k].events <= Len(tr)
    BY DEF Told
  <2> QED
    BY <1>1, <2>1
<1>4. ASSUME NEW k \in 1 .. Len(p) - 1
      PROVE  Explains(p[k].events < Len(t), t[p[k].events + 1], p[k], p[k + 1])
  <2> DEFINE n == p[k].events
  <2>1. n \in Nat /\ n <= Len(tr) /\ n < Len(t)
    BY <1>2, <1>3 DEF Told
  <2>2. Explains(n < Len(tr), tr[n + 1], p[k], p[k + 1])
    BY DEF Told
  <2>3. n < Len(tr) \/ e.type # "irq"
           \/ ~(Polling(p[k].m) /\ p[k + 1].events = p[k].events)
    BY DEF Settled
  <2> HIDE DEF n
  <2>4. CASE n < Len(tr)
    <3>1. t[n + 1] = tr[n + 1] /\ (n < Len(t)) = TRUE /\ (n < Len(tr)) = TRUE
      BY <1>1, <2>1, <2>4
    <3> QED
      BY <2>2, <3>1 DEF n
  <2>5. CASE n = Len(tr)
    <3>1. t[n + 1] = e /\ (n < Len(t)) = TRUE /\ (n < Len(tr)) = FALSE
      BY <1>1, <2>1, <2>5
    <3>2. Explains(FALSE, tr[n + 1], p[k], p[k + 1])
      BY <2>2, <3>1
    <3>3. Explains(TRUE, e, p[k], p[k + 1])
      BY <2>3, <2>5, <3>1, <3>2, ExplainedAtTheEnd
    <3> QED
      BY <3>1, <3>3 DEF n
  <2> QED
    BY <1>1, <2>1, <2>4, <2>5
<1>5. Told(f, p, t)
  BY <1>1, <1>3, <1>4 DEF Told
<1>6. Settled(p, t)
  BY <1>2, <1>3 DEF Settled
<1> QED
  BY <1>5, <1>6 DEF t

\* The run told of goes a step further, with n events behind it.
LEMMA ToldFurther ==
    ASSUME NEW f, NEW p, NEW tr, Told(f, p, tr), NEW a, NEW b, NEW n, NEW c,
           ComesTo(p, a, n), c \in Nat, c <= Len(tr), Tells(tr, n, a, b, c),
           NEW q, Further(q, p, b, c)
    PROVE  /\ Told(f, q, tr) /\ ComesTo(q, b, c)
           /\ Settled(p, tr) /\ (Polling(a) /\ c = n => n < Len(tr))
                 => Settled(q, tr)
<1> DEFINE y == [m |-> b, events |-> c]
<1>1. y.m = b /\ y.events = c /\ q = Append(p, y)
  BY DEF Further
<1> HIDE DEF y
<1>2. /\ IsSeq(q) /\ Len(p) \in Nat \ {0} /\ Len(q) = Len(p) + 1
      /\ \A i \in 1 .. Len(p) : q[i] = p[i]
      /\ q[Len(p) + 1] = y
  <2>1. Len(p) \in Nat
    BY AppendFacts DEF Told
  <2>2. Len(p) # 0
    BY <2>1 DEF Told
  <2> QED
    BY <1>1, <2>1, <2>2, AppendFacts DEF Told
<1>3. ASSUME NEW k \in 1 .. Len(q) - 1, k # Len(p)
      PROVE  k \in 1 .. Len(p) - 1 /\ q[k] = p[k] /\ q[k + 1] = p[k + 1]
  BY <1>2, <1>3
<1>4. q[Len(p)] = [m |-> a, events |-> n] /\ q[Len(p) + 1] = y
  BY <1>2 DEF ComesTo
<1>5. q[Len(p)].m = a /\ q[Len(p)].events = n
  BY <1>4, EntryFields
<1>6. ASSUME NEW k \in 1 .. Len(q) - 1
      PROVE  Explains(q[k].events < Len(tr), tr[q[k].events + 1], q[k], q[k + 1])
  <2>1. CASE k = Len(p)
    BY <1>4, <1>5, <2>1 DEF y, Tells
  <2>2. CASE k # Len(p)
    BY <1>3, <2>2 DEF Told
  <2> QED
    BY <2>1, <2>2
<1>7. ASSUME NEW k \in 1 .. Len(q)
      PROVE  q[k].events \in Nat /\ q[k].events <= Len(tr)
  <2>1. CASE k = Len(p) + 1
    BY <1>1, <1>2, <2>1
  <2>2. CASE k \in 1 .. Len(p)
    BY <1>2, <2>2 DEF Told
  <2> QED
    BY <1>2, <2>1, <2>2
<1>8. Told(f, q, tr)
  <2>1. q[1] = [m |-> Start(f), events |-> 0] /\ IsSeq(tr) /\ Len(q) >= 1
    BY <1>2 DEF Told
  <2> QED
    BY <1>2, <1>6, <1>7, <2>1 DEF Told
<1>9. ASSUME Settled(p, tr), Polling(a) /\ c = n => n < Len(tr)
      PROVE  Settled(q, tr)
  <2> SUFFICES ASSUME NEW k \in 1 .. Len(q) - 1, Polling(q[k].m),
                      q[k + 1].events = q[k].events
               PROVE  q[k].events < Len(tr)
    BY DEF Settled
  <2>1. CASE k = Len(p)
    BY <1>1, <1>4, <1>5, <1>9, <2>1
  <2>2. CASE k # Len(p)
    BY <1>3, <1>9, <2>2 DEF Settled
  <2> QED
    BY <2>1, <2>2
<1> QED
  BY <1>2, <1>8, <1>9 DEF y, ComesTo

\* An event is recorded, and the run told of goes a step further by it.
LEMMA ToldByAnEvent ==
    ASSUME NEW f, NEW p, NEW tr, Told(f, p, tr), NEW a, NEW b, NEW e,
           ComesTo(p, a, Len(tr)),
           e.type # "irq" \/ Settled(p, tr),
           Explains(TRUE, e, [m |-> a, events |-> Len(tr)],
                             [m |-> b, events |-> Len(tr) + 1]),
           NEW t, t = Append(tr, e)
    PROVE  \E q : Told(f, q, t) /\ Settled(q, t) /\ ComesTo(q, b, Len(t))
<1> DEFINE n == Len(tr)
<1>1. n \in Nat /\ Len(t) = n + 1 /\ t[n + 1] = e
  BY AppendFacts DEF Told
<1>2. Told(f, p, t) /\ Settled(p, t)
  BY StillTold
<1> HIDE DEF n
<1>3. Explains(TRUE, e, [m |-> a, events |-> n], [m |-> b, events |-> n + 1])
  BY DEF n
<1>4. Tells(t, n, a, b, n + 1)
  <2>1. (n < Len(t)) = TRUE
    BY <1>1
  <2> QED
    BY <1>1, <1>3, <2>1 DEF Tells
<1>5. n + 1 \in Nat /\ n + 1 <= Len(t) /\ n + 1 # n /\ n + 1 = Len(t)
  BY <1>1
<1> DEFINE c == n + 1
<1>9. Tells(t, n, a, b, c) /\ c \in Nat /\ c <= Len(t) /\ c # n /\ c = Len(t)
  BY <1>4, <1>5
<1> HIDE DEF c
<1>6. PICK q : Further(q, p, b, c)
  BY DEF Further
<1>8. ComesTo(p, a, n)
  BY DEF n
<1>7. /\ Told(f, q, t) /\ ComesTo(q, b, c)
      /\ Settled(p, t) /\ (Polling(a) /\ c = n => n < Len(t)) => Settled(q, t)
  BY <1>2, <1>6, <1>8, <1>9, ToldFurther, ZenonT(60)
<1> QED
  BY <1>2, <1>7, <1>9

\* The run told of goes a step further that records nothing.
LEMMA ToldByNothing ==
    ASSUME NEW f, NEW p, NEW tr, Told(f, p, tr), NEW a, NEW b,
           ComesTo(p, a, Len(tr)),
           \A ev : Explains(FALSE, ev, [m |-> a, events |-> Len(tr)],
                                       [m |-> b, events |-> Len(tr)]),
           NEW c, c = Len(tr)
    PROVE  \E q : /\ Told(f, q, tr) /\ ComesTo(q, b, c)
                  /\ Settled(p, tr) /\ ~Polling(a) => Settled(q, tr)
<1> DEFINE n == Len(tr)
<1>1. n \in Nat
  BY AppendFacts DEF Told
<1>2. Explains(FALSE, tr[n + 1], [m |-> a, events |-> n], [m |-> b, events |-> n])
  OBVIOUS
<1> HIDE DEF n
<1>3. Tells(tr, n, a, b, n)
  <2>1. (n < Len(tr)) = FALSE
    BY <1>1 DEF n
  <2> QED
    BY <1>2, <2>1 DEF Tells
<1>4. n <= Len(tr) /\ ComesTo(p, a, n) /\ n = c
  BY <1>1 DEF n
<1>6. PICK q : Further(q, p, b, n)
  BY DEF Further
<1>5. /\ Told(f, q, tr) /\ ComesTo(q, b, n)
      /\ Settled(p, tr) /\ (Polling(a) /\ n = n => n < Len(tr)) => Settled(q, tr)
  BY <1>1, <1>3, <1>4, <1>6, ToldFurther
<1> QED
  BY <1>4, <1>5

--------------------------------------------------------------------------------
(* The recording on the part.                                                *)

\* The machine of a recording on the part: its shim never polls.
NeverPolls(m) ==
    IsMachine(m) /\ ~m.inIsr /\ m.ctrl = "run" /\ m.ret = 0

\* Such a machine, in pump_irqs behind an access that read v, or in a handler.
Waits(m, handling, v) ==
    [fw |-> m.fw, mask |-> m.mask, inIsr |-> TRUE,
     ctrl |-> IF handling THEN "run" ELSE "pump", ret |-> v]

\* The machine a replay is in where the recording is: it polls, or runs a handler,
\* behind the unmasked access the hardware has recorded and not returned from.
AsReplayed ==
    IF flight.at # "recorded" THEN hal
    ELSE IF open
    THEN Waits(hal, active, flight.value)
    ELSE Return(hal, flight.value)

\* What holds of every recording on the part.
OnTheBench ==
    /\ NeverPolls(hal)
    /\ path[Len(path)].m = hal /\ from = Recorded
    /\ flight \in [at : {"none", "made", "recorded"}, value : {flight.value}]
    /\ flight.at = "none" => flight = NoFlight

\* p is the shadow of a recording whose interrupts landed behind accesses.
Shadows(p) ==
    /\ Told(Recorded, p, trace)
    /\ ComesTo(p, AsReplayed, Len(trace))
    /\ active => flight.at = "recorded" /\ open
    /\ flight.at = "made" => Reading(hal) \/ (Writing(hal) /\ flight.value = 0)
    /\ ~open \/ flight.at = "recorded" => Settled(p, trace)

\* p ends where an interrupt was recorded that a replay does not poll for.
Blocked(p) ==
    /\ Told(Recorded, p, trace) /\ Settled(p, trace)
    /\ p[Len(p)].events < Len(trace) /\ trace[p[Len(p)].events + 1].type = "irq"
    /\ ~p[Len(p)].m.inIsr

\* The replay is somewhere on p.
On(p) ==
    /\ step \in 1 .. Len(p)
    /\ hal = p[step].m /\ cursor = p[step].events

\* p is what a replay of the firmware that was recorded repeats.
Repeats(p) ==
    /\ Told(Recorded, p, trace)
    /\ Halted(p[Len(p)].m) /\ p[Len(p)].events = Len(trace) - 1
    /\ p[Len(p)].m.fw = path[Len(path)].m.fw
    /\ from = Recorded =>
          divergence = "none" /\ On(p) /\ (phase = "done" => Halted(hal))

\* The replay of the firmware that was recorded does not get past p's end.
StopsAt(p) ==
    /\ Blocked(p) /\ p[Len(p)].events < Len(trace) - 1
    /\ from = Recorded =>
          \/ divergence # "none"
          \/ On(p) /\ (phase = "done" => Halted(hal))
          \/ cursor = p[Len(p)].events /\ ~hal.inIsr

\* Nothing is said of a recording whose first stray interrupt landed between, or
\* masked in front of the critical section's first access.
PartInv ==
    backend = "part" =>
        /\ phase \in {"record", "replay", "done"}
        /\ IsMachine(hal) /\ IsSeq(path) /\ Len(path) >= 1 /\ IsSeq(trace)
        /\ landed \in {"behind", "hidden", "masked", "between"}
        /\ phase = "record" => OnTheBench
        /\ landed = "behind" =>
              \E p : IF phase = "record" THEN Shadows(p) ELSE Repeats(p)
        /\ landed = "hidden" =>
              \E p : IF phase = "record" THEN Blocked(p) ELSE StopsAt(p)

\* What the shim's steps make of such a machine.
LEMMA BenchSteps ==
    ASSUME NEW m, NeverPolls(m)
    PROVE  /\ \A v : NeverPolls(Return(m, v)) /\ Return(m, v).mask = m.mask
           /\ \A i : NeverPolls(Dispatch(m, i)) /\ Dispatch(m, i).mask = m.mask
           /\ Quiet(m) => NeverPolls(AfterQuiet(m))
<1>1. ASSUME NEW v PROVE NeverPolls(Return(m, v)) /\ Return(m, v).mask = m.mask
  BY DEF NeverPolls, Return, IsMachine
<1>2. ASSUME NEW i PROVE NeverPolls(Dispatch(m, i)) /\ Dispatch(m, i).mask = m.mask
  BY DEF NeverPolls, Dispatch, IsMachine
<1>3. ASSUME Quiet(m) PROVE NeverPolls(AfterQuiet(m))
  <2>1. ~m.inIsr /\ m.mask \in Nat
    BY DEF NeverPolls, IsMachine
  <2>2. CASE Op(m) = "step"
    BY <1>1, <2>2 DEF AfterQuiet
  <2>3. CASE Op(m) = "disable"
    <3> DEFINE d == m.mask + 1
    <3>1. AfterQuiet(m) = [m EXCEPT !.fw = Resume(m.fw, 0), !.mask = d]
      BY <2>3 DEF AfterQuiet, IrqDisable
    <3>2. d \in Nat
      BY <2>1
    <3> HIDE DEF d
    <3> QED
      BY <3>1, <3>2 DEF NeverPolls, IsMachine
  <2>4. CASE Op(m) = "enable"
    <3> DEFINE d == IF m.mask > 0 THEN m.mask - 1 ELSE 0
    <3>1. AfterQuiet(m) = [m EXCEPT !.fw = Resume(m.fw, 0), !.mask = d]
      BY <2>4 DEF AfterQuiet, IrqEnable
    <3>2. d \in Nat
      BY <2>1
    <3> HIDE DEF d
    <3> QED
      BY <3>1, <3>2 DEF NeverPolls, IsMachine
  <2> QED
    BY <1>3, <2>1, <2>2, <2>3, <2>4 DEF Quiet
<1> QED
  BY <1>1, <1>2, <1>3

\* A record of singletons is the one machine in it.
LEMMA OneMachine ==
    ASSUME NEW f, NEW k, NEW y, NEW c, NEW x,
           NEW w \in [fw : {f}, mask : {k}, inIsr : {y}, ctrl : {c}, ret : {x}]
    PROVE  w = [fw |-> f, mask |-> k, inIsr |-> y, ctrl |-> c, ret |-> x]
OBVIOUS

\* What they make of it in pump_irqs, and in a handler below it.
LEMMA WaitingSteps ==
    ASSUME NEW m, NeverPolls(m), NEW v
    PROVE  /\ \A x : Pump(m, x) = IF m.mask = 0 THEN Waits(m, FALSE, x) ELSE Return(m, x)
           /\ Polling(Waits(m, FALSE, v)) /\ PumpDone(Waits(m, FALSE, v)) = Return(m, v)
           /\ Waits(m, TRUE, v).fw = m.fw
           /\ Reading(m) => Reading(Waits(m, TRUE, v))
           /\ Writing(m) => Writing(Waits(m, TRUE, v))
           /\ ~Polling(Waits(m, TRUE, v))
<1> DEFINE f == m.fw
           k == m.mask
<1>6. /\ m \in [fw : {f}, mask : {k}, inIsr : {FALSE}, ctrl : {"run"}, ret : {0}]
      /\ m.fw = f /\ m.mask = k /\ k \in Nat /\ ~m.inIsr /\ m.ret = 0
  BY DEF NeverPolls, IsMachine
<1> HIDE DEF f, k
<1>1. ASSUME NEW x
      PROVE  Pump(m, x) = IF m.mask = 0 THEN Waits(m, FALSE, x) ELSE Return(m, x)
  <2>1. CASE k = 0
    <3>1. ~(m.mask > 0 \/ m.inIsr)
      BY <1>6, <2>1
    <3>2. Pump(m, x) = [m EXCEPT !.inIsr = TRUE, !.ctrl = "pump", !.ret = x]
      BY <3>1 DEF Pump
    <3>3. Pump(m, x) \in [fw : {f}, mask : {k}, inIsr : {TRUE}, ctrl : {"pump"},
                          ret : {x}]
      BY <1>6, <3>2
    <3>4. Pump(m, x) = [fw |-> f, mask |-> k, inIsr |-> TRUE, ctrl |-> "pump",
                        ret |-> x]
      BY <3>3, OneMachine
    <3> QED
      BY <1>6, <2>1, <3>4 DEF Waits
  <2>2. CASE k # 0
    <3>1. m.mask > 0 /\ m.mask # 0
      BY <1>6, <2>2
    <3> QED
      BY <3>1 DEF Pump
  <2> QED
    BY <2>1, <2>2
<1>2. Polling(Waits(m, FALSE, v)) /\ PumpDone(Waits(m, FALSE, v)) = Return(m, v)
  <2> DEFINE w == Waits(m, FALSE, v)
             g == Resume(f, v)
  <2>1. /\ w \in [fw : {f}, mask : {k}, inIsr : {TRUE}, ctrl : {"pump"}, ret : {v}]
        /\ w.fw = f /\ w.ret = v /\ w.ctrl = "pump"
    BY <1>6 DEF Waits
  <2> HIDE DEF w
  <2>2. /\ PumpDone(w) = [w EXCEPT !.fw = g, !.inIsr = FALSE, !.ctrl = "run", !.ret = 0]
        /\ Return(m, v) = [m EXCEPT !.fw = g]
    BY <1>6, <2>1 DEF PumpDone, Return
  <2> HIDE DEF g
  <2>3. PumpDone(w) \in [fw : {g}, mask : {k}, inIsr : {FALSE}, ctrl : {"run"},
                         ret : {0}]
    BY <2>1, <2>2
  <2>4. Return(m, v) \in [fw : {g}, mask : {k}, inIsr : {FALSE}, ctrl : {"run"},
                          ret : {0}]
    BY <1>6, <2>2
  <2> DEFINE r == [fw |-> g, mask |-> k, inIsr |-> FALSE, ctrl |-> "run", ret |-> 0]
  <2>5. PumpDone(w) = r
    BY <2>3, OneMachine
  <2>6. Return(m, v) = r
    BY <2>4, OneMachine
  <2> QED
    BY <2>1, <2>5, <2>6 DEF w, Polling
<1>4. /\ Waits(m, TRUE, v).fw = m.fw
      /\ Reading(m) => Reading(Waits(m, TRUE, v))
      /\ Writing(m) => Writing(Waits(m, TRUE, v))
      /\ ~Polling(Waits(m, TRUE, v))
  BY DEF Waits, Reading, Writing, Op, Polling
<1> QED
  BY <1>1, <1>2, <1>4

\* A handler entered from there,
LEMMA WaitingEntry ==
    ASSUME NEW m, NeverPolls(m), NEW v, NEW i
    PROVE  /\ Polling(Waits(m, FALSE, v))
           /\ Dispatch(Waits(m, FALSE, v), i) = Waits(Dispatch(m, i), i \in Handled, v)
BY DEF Dispatch, Polling, Waits, NeverPolls, IsMachine

\* and an access it makes.
LEMMA WaitingAccess ==
    ASSUME NEW m, NeverPolls(m), NEW v, NEW x
    PROVE  Pump(Waits(m, TRUE, v), x) = Waits(Return(m, x), TRUE, v)
BY DEF Pump, Return, Waits, NeverPolls, IsMachine

\* The same of the steps that reach no backend.
LEMMA WaitingQuiet ==
    ASSUME NEW m, NeverPolls(m), NEW v
    PROVE  /\ Quiet(m) => /\ Quiet(Waits(m, TRUE, v))
                          /\ AfterQuiet(Waits(m, TRUE, v)) = Waits(AfterQuiet(m), TRUE, v)
           /\ Op(m) = "iret" =>
                 /\ Quiet(Waits(m, TRUE, v))
                 /\ AfterQuiet(Waits(m, TRUE, v)) = Waits(Return(m, 0), FALSE, v)
<1> DEFINE w == Waits(m, TRUE, v)
<1>1. /\ w.fw = m.fw /\ w.ctrl = "run" /\ w.inIsr /\ w.mask = m.mask
      /\ ~m.inIsr /\ m.mask \in Nat
  BY DEF Waits, NeverPolls, IsMachine
<1>2. Op(w) = Op(m)
  BY <1>1 DEF Op
<1>3. ASSUME Op(m) = "step" PROVE AfterQuiet(w) = Waits(AfterQuiet(m), TRUE, v)
  BY <1>2, <1>3 DEF AfterQuiet, Return, Waits, NeverPolls, IsMachine
<1>4. ASSUME Op(m) = "disable" PROVE AfterQuiet(w) = Waits(AfterQuiet(m), TRUE, v)
  <2> DEFINE d == m.mask + 1
  <2>1. /\ AfterQuiet(w) = [w EXCEPT !.fw = Resume(m.fw, 0), !.mask = d]
        /\ AfterQuiet(m) = [m EXCEPT !.fw = Resume(m.fw, 0), !.mask = d]
    BY <1>1, <1>2, <1>4 DEF AfterQuiet, IrqDisable
  <2> HIDE DEF d
  <2> QED
    BY <2>1, ZenonT(60) DEF Waits, NeverPolls, IsMachine
<1>5. ASSUME Op(m) = "enable" PROVE AfterQuiet(w) = Waits(AfterQuiet(m), TRUE, v)
  <2> DEFINE d == IF m.mask > 0 THEN m.mask - 1 ELSE 0
  <2>1. /\ AfterQuiet(w) = [w EXCEPT !.fw = Resume(m.fw, 0), !.mask = d]
        /\ AfterQuiet(m) = [m EXCEPT !.fw = Resume(m.fw, 0), !.mask = d]
    BY <1>1, <1>2, <1>5 DEF AfterQuiet, IrqEnable
  <2> HIDE DEF d
  <2> QED
    BY <2>1, ZenonT(60) DEF Waits, NeverPolls, IsMachine
<1>6. ASSUME Op(m) = "iret"
      PROVE  Quiet(w) /\ AfterQuiet(w) = Waits(Return(m, 0), FALSE, v)
  BY <1>1, <1>2, <1>6
     DEF Quiet, AfterQuiet, HandlerReturn, Return, Waits, NeverPolls, IsMachine
<1> HIDE DEF w
<1>7. ASSUME Quiet(m) PROVE Quiet(w) /\ AfterQuiet(w) = Waits(AfterQuiet(m), TRUE, v)
  BY <1>1, <1>2, <1>3, <1>4, <1>5, <1>7 DEF Quiet
<1> QED
  BY <1>6, <1>7 DEF w

\* A recording goes on from its last machine.
LEMMA GoesTo ==
    ASSUME IsSeq(path), Len(path) >= 1, NEW m, GoTo(m)
    PROVE  /\ hal' = m /\ IsSeq(path') /\ Len(path') >= 1
           /\ path'[Len(path')].m = hal' /\ Recorded' = Recorded
<1> DEFINE y == [m |-> m, events |-> Len(trace')]
<1>1. hal' = m /\ path' = Append(path, y) /\ y.m = m
  BY DEF GoTo
<1> HIDE DEF y
<1>2. /\ IsSeq(path') /\ Len(path) \in Nat /\ Len(path') = Len(path) + 1
      /\ \A i \in 1 .. Len(path) : path'[i] = path[i]
      /\ path'[Len(path) + 1] = y
  BY <1>1, AppendFacts
<1>3. 1 \in 1 .. Len(path)
  BY <1>2
<1>4. path'[1] = path[1]
  BY <1>2, <1>3
<1> QED
  BY <1>1, <1>2, <1>4 DEF Recorded

\* What every step of a recording on the part does, whatever else it does.
LEMMA BenchKeeps ==
    ASSUME PartInv, PartStep
    PROVE  /\ backend = "part" /\ backend' = "part"
           /\ phase = "record" /\ phase' = "record" /\ OnTheBench /\ OnTheBench'
           /\ IsSeq(path') /\ Len(path') >= 1 /\ Recorded' = Recorded
           /\ \/ trace' = trace
              \/ \E e : trace' = Append(trace, e)
<1>1. OnThePart /\ backend = "part" /\ phase = "record" /\ OnTheBench
  BY DEF PartInv, OnThePart, PartStep, PartAccess, PartRecord, PartReturn, PartQuiet,
         NvicEnters, HandlerAccess, HandlerLeaves, MainRuns
<1>2. backend' = "part" /\ phase' = "record" /\ from' = from
  BY <1>1 DEF PartStep, PartAccess, PartRecord, PartReturn, PartQuiet,
         NvicEnters, HandlerAccess, HandlerLeaves, UNCHANGED_replay, hwvars
<1>3. IsSeq(path) /\ Len(path) >= 1 /\ NeverPolls(hal)
  BY <1>1 DEF PartInv, OnTheBench
<1>4. ASSUME NEW m, GoTo(m), NeverPolls(m), UNCHANGED flight \/ flight' = NoFlight
      PROVE  /\ OnTheBench' /\ IsSeq(path') /\ Len(path') >= 1
             /\ Recorded' = Recorded
  <2>1. /\ hal' = m /\ IsSeq(path') /\ Len(path') >= 1
        /\ path'[Len(path')].m = hal' /\ Recorded' = Recorded
    BY <1>3, <1>4, GoesTo
  <2>2. /\ flight' \in [at : {"none", "made", "recorded"}, value : {flight'.value}]
        /\ flight'.at = "none" => flight' = NoFlight
    BY <1>1, <1>4 DEF OnTheBench, NoFlight
  <2> QED
    BY <1>1, <1>2, <1>4, <2>1, <2>2 DEF OnTheBench
<1>5. ASSUME UNCHANGED <<hal, path>>, NEW a \in {"made", "recorded"}, NEW v,
             flight' = [at |-> a, value |-> v]
      PROVE  /\ OnTheBench' /\ IsSeq(path') /\ Len(path') >= 1
             /\ Recorded' = Recorded
  <2>1. Recorded' = Recorded /\ IsSeq(path') /\ Len(path') >= 1
    BY <1>3, <1>5 DEF Recorded, IsSeq
  <2>2. /\ flight' \in [at : {"none", "made", "recorded"}, value : {flight'.value}]
        /\ flight'.at # "none"
    BY <1>5
  <2> QED
    BY <1>1, <1>2, <1>5, <2>1, <2>2 DEF OnTheBench
<1>6. CASE PartAccess
  <2>1. PICK v : flight' = [at |-> "made", value |-> v]
    BY <1>6 DEF PartAccess
  <2>2. UNCHANGED <<hal, path, trace>>
    BY <1>6 DEF PartAccess
  <2> QED
    BY <1>1, <1>2, <1>5, <2>1, <2>2
<1>7. CASE PartRecord
  <2>1. flight' = [at |-> "recorded", value |-> flight.value]
    BY <1>1, <1>7 DEF PartRecord, OnTheBench
  <2>2. UNCHANGED <<hal, path>> /\ (trace' = trace \/ \E e : trace' = Append(trace, e))
    BY <1>7 DEF PartRecord, TraceOfAccess
  <2> QED
    BY <1>1, <1>2, <1>5, <2>1, <2>2
<1>8. CASE PartReturn
  <2>1. flight' = NoFlight /\ trace' = trace /\ GoTo(Return(hal, flight.value))
    BY <1>8 DEF PartReturn
  <2> QED
    BY <1>1, <1>2, <1>3, <1>4, <2>1, BenchSteps
<1>9. CASE PartQuiet
  <2>1. UNCHANGED flight /\ trace' = trace /\ GoTo(AfterQuiet(hal)) /\ Quiet(hal)
    BY <1>9 DEF PartQuiet, hwvars
  <2> QED
    BY <1>1, <1>2, <1>3, <1>4, <2>1, BenchSteps
<1>10. CASE NvicEnters
  <2>1. PICK p : /\ trace' = Append(trace, Event("irq", p.dev, p.vector, 0))
                 /\ GoTo(Dispatch(hal, p.vector))
    BY <1>10 DEF NvicEnters
  <2>2. UNCHANGED flight
    BY <1>10 DEF NvicEnters
  <2> QED
    BY <1>1, <1>2, <1>3, <1>4, <2>1, <2>2, BenchSteps
<1>11. CASE HandlerAccess
  <2>1. UNCHANGED flight
    BY <1>11 DEF HandlerAccess, hwvars
  <2>2. PICK x : trace' = TraceOfAccess(hal, x) /\ GoTo(Return(hal, x))
    BY <1>11 DEF HandlerAccess
  <2>3. trace' = trace \/ \E e : trace' = Append(trace, e)
    BY <2>2 DEF TraceOfAccess
  <2> QED
    BY <1>1, <1>2, <1>3, <1>4, <2>1, <2>2, <2>3, BenchSteps
<1>12. CASE HandlerLeaves
  <2>1. UNCHANGED flight /\ trace' = trace /\ GoTo(Return(hal, 0))
    BY <1>12 DEF HandlerLeaves
  <2> QED
    BY <1>1, <1>2, <1>3, <1>4, <2>1, BenchSteps
<1> QED
  BY <1>6, <1>7, <1>8, <1>9, <1>10, <1>11, <1>12 DEF PartStep

--------------------------------------------------------------------------------
(* The shadow of a recording on the part, one step at a time.                *)

\* The register is accessed: a replay does so as it reads the event.
LEMMA AccessShadowed ==
    ASSUME PartInv, PartAccess, NEW p, Shadows(p)
    PROVE  Shadows(p)'
<1>1. /\ UNCHANGED <<hal, trace, path, active, open>>
      /\ ~active /\ flight = NoFlight
  BY DEF PartAccess, MainRuns
<1>5. flight'.at = "made" /\ (Reading(hal) \/ (Writing(hal) /\ flight'.value = 0))
  BY DEF PartAccess
<1>2. AsReplayed = hal /\ AsReplayed' = hal'
  BY <1>1, <1>5 DEF AsReplayed, NoFlight
<1>3. Told(Recorded, p, trace)' /\ ComesTo(p, AsReplayed', Len(trace'))
  BY <1>1, <1>2 DEF Shadows, Told, IsSeq, Recorded
<1>4. ~open' => Settled(p, trace')
  BY <1>1 DEF Shadows
<1> QED
  BY <1>1, <1>3, <1>4, <1>5 DEF Shadows, Reading, Writing

\* The event of the access is written: the replay reads it, and polls behind it.
LEMMA RecordShadowed ==
    ASSUME RecordWrites, PartInv, PartRecord, landed = "behind",
           NEW p, Shadows(p)
    PROVE  \E q : Shadows(q)'
<1> DEFINE req == Request(hal.fw)
           v == flight.value
           e == Event(req.op, dev, req.addr, IF req.op = "read" THEN v ELSE req.value)
<1>1. /\ phase = "record" /\ OnTheBench /\ OnTheBench' /\ Recorded' = Recorded
      /\ ~active /\ flight.at = "made" /\ open' = (hal.mask = 0)
      /\ UNCHANGED <<hal, active>>
      /\ trace' = TraceOfAccess(hal, v)
  BY BenchKeeps DEF PartRecord, PartStep
<1>2. Reading(hal) \/ (Writing(hal) /\ v = 0)
  BY <1>1 DEF Shadows
<1>3. flight'.at = "recorded" /\ flight'.value = v
  <2>1. flight' = [flight EXCEPT !.at = "recorded"]
    BY DEF PartRecord
  <2> QED
    BY <1>1, <2>1 DEF OnTheBench
<1>4. trace' = Append(trace, e)
  BY <1>1, <1>2 DEF TraceOfAccess, Reading, Writing, Op
<1>5. AsReplayed = hal
  BY <1>1 DEF AsReplayed
<1>6. AsReplayed' = Pump(hal, v)
  <2>1. Pump(hal, v) = IF hal.mask = 0 THEN Waits(hal, FALSE, v) ELSE Return(hal, v)
    BY <1>1, WaitingSteps DEF OnTheBench
  <2>2. AsReplayed' = IF open' THEN Waits(hal, FALSE, v) ELSE Return(hal, v)
    BY <1>1, <1>3 DEF AsReplayed, Waits
  <2> QED
    BY <1>1, <2>1, <2>2
<1>7. /\ e.type = req.op /\ e.addr = req.addr
      /\ e.value = IF req.op = "read" THEN v ELSE req.value
  BY DEF Event
<1> DEFINE b == AsReplayed'
<1> HIDE DEF e, b, v, req
<1>8. Explains(TRUE, e, [m |-> hal, events |-> Len(trace)],
                        [m |-> b, events |-> Len(trace) + 1])
  <2>1. CASE Reading(hal)
    <3>1. req.op = "read"
      BY <2>1 DEF Reading, Op, req
    <3>2. e.type = "read" /\ e.addr = Request(hal.fw).addr /\ e.value = v
      BY <1>7, <3>1 DEF req
    <3> QED
      BY <1>6, <2>1, <3>2 DEF Explains, b
  <2>2. CASE Writing(hal) /\ v = 0
    <3>1. req.op = "write"
      BY <2>2 DEF Writing, Op, req
    <3>2. /\ e.type = "write" /\ e.addr = Request(hal.fw).addr
          /\ e.value = Request(hal.fw).value
      BY <1>7, <3>1 DEF req
    <3> QED
      BY <1>6, <2>2, <3>2 DEF Explains, b
  <2> QED
    BY <1>2, <2>1, <2>2
<1>9. e.type # "irq"
  BY <1>2, <1>7 DEF Reading, Writing, Op, req
<1>10. Told(Recorded, p, trace) /\ ComesTo(p, hal, Len(trace))
  BY <1>5 DEF Shadows
<1>11. PICK q : Told(Recorded, q, trace') /\ Settled(q, trace')
                /\ ComesTo(q, b, Len(trace'))
  BY <1>4, <1>8, <1>9, <1>10, ToldByAnEvent
<1>12. Shadows(q)'
  BY <1>1, <1>3, <1>11 DEF Shadows, b
<1> QED
  BY <1>12

\* The access returns: where the replay polls, it finds nothing to deliver.
LEMMA ReturnShadowed ==
    ASSUME PartInv, PartReturn, landed = "behind", NEW p, Shadows(p)
    PROVE  \E q : Shadows(q)'
<1> DEFINE v == flight.value
<1>1. /\ phase = "record" /\ OnTheBench /\ Recorded' = Recorded
      /\ ~active /\ ~active' /\ flight.at = "recorded" /\ flight'.at = "none"
      /\ trace' = trace /\ open' = open /\ hal' = Return(hal, v)
  BY BenchKeeps DEF PartReturn, PartStep, NoFlight, GoTo
<1>2. AsReplayed' = Return(hal, v)
  BY <1>1 DEF AsReplayed
<1>3. Told(Recorded, p, trace) /\ ComesTo(p, AsReplayed, Len(trace)) /\ Settled(p, trace)
  BY <1>1 DEF Shadows
<1>4. CASE open
  <2> DEFINE a == Waits(hal, FALSE, v)
             b == Return(hal, v)
  <2>1. AsReplayed = a
    BY <1>1, <1>4 DEF AsReplayed, Waits
  <2>2. Polling(a) /\ PumpDone(a) = b
    BY <1>1, WaitingSteps DEF OnTheBench
  <2> HIDE DEF a, b
  <2>3. \A ev : Explains(FALSE, ev, [m |-> a, events |-> Len(trace)],
                                    [m |-> b, events |-> Len(trace)])
    BY <2>2 DEF Explains
  <2>4. PICK q : Told(Recorded, q, trace) /\ ComesTo(q, b, Len(trace))
    BY <1>3, <2>1, <2>3, ToldByNothing
  <2>5. Shadows(q)'
    BY <1>1, <1>2, <1>4, <2>4 DEF Shadows, b
  <2> QED
    BY <2>5
<1>5. CASE ~open
  <2>1. AsReplayed = AsReplayed'
    BY <1>1, <1>2, <1>5 DEF AsReplayed
  <2>2. Shadows(p)'
    BY <1>1, <1>3, <2>1 DEF Shadows
  <2> QED
    BY <2>2
<1> QED
  BY <1>4, <1>5

\* Code without an access runs, of the main loop or of a handler.
LEMMA QuietShadowed ==
    ASSUME PartInv, PartQuiet, landed = "behind", NEW p, Shadows(p)
    PROVE  \E q : Shadows(q)'
<1> DEFINE b == AsReplayed'
<1>1. /\ phase = "record" /\ OnTheBench /\ Recorded' = Recorded
      /\ active \/ flight = NoFlight
      /\ Quiet(hal) /\ hal' = AfterQuiet(hal)
      /\ UNCHANGED <<trace, flight, active, open>>
  BY BenchKeeps DEF PartQuiet, PartStep, hwvars, GoTo
<1>2. Told(Recorded, p, trace) /\ ComesTo(p, AsReplayed, Len(trace))
  BY DEF Shadows
<1>3. Quiet(AsReplayed) /\ b = AfterQuiet(AsReplayed)
  <2>1. CASE active
    <3>1. /\ AsReplayed = Waits(hal, TRUE, flight.value)
          /\ b = Waits(AfterQuiet(hal), TRUE, flight.value)
      BY <1>1, <2>1 DEF Shadows, AsReplayed
    <3> QED
      BY <1>1, <3>1, WaitingQuiet DEF OnTheBench
  <2>2. CASE ~active
    <3>1. AsReplayed = hal /\ b = hal'
      BY <1>1, <2>2 DEF AsReplayed, NoFlight
    <3> QED
      BY <1>1, <3>1
  <2> QED
    BY <2>1, <2>2
<1> DEFINE a == AsReplayed
<1> HIDE DEF b, a
<1>4. \A ev : Explains(FALSE, ev, [m |-> a, events |-> Len(trace)],
                                  [m |-> b, events |-> Len(trace)])
  BY <1>3 DEF Explains, a
<1>5. ~Polling(a)
  BY <1>3, Exclusive DEF a
<1>6. PICK q : /\ Told(Recorded, q, trace) /\ ComesTo(q, b, Len(trace))
               /\ Settled(p, trace) => Settled(q, trace)
  BY <1>2, <1>4, <1>5, ToldByNothing DEF a
<1>7. flight.at # "made"
  BY <1>1 DEF NoFlight, Shadows
<1>8. Shadows(q)'
  BY <1>1, <1>6, <1>7 DEF Shadows, b
<1> QED
  BY <1>8

\* An interrupt lands directly behind an unmasked access: the replay, which polls
\* there, finds its event.
LEMMA EntryShadowed ==
    ASSUME PartInv, NvicEnters, landed = "behind", landed' = "behind",
           NEW p, Shadows(p)
    PROVE  \E q : Shadows(q)'
<1> DEFINE v == flight.value
<1>1. /\ phase = "record" /\ OnTheBench /\ Recorded' = Recorded
      /\ ~active /\ UNCHANGED <<flight, open>>
  BY BenchKeeps DEF NvicEnters, PartStep
<1>2. open /\ flight.at = "recorded"
  BY DEF NvicEnters, Landing
<1>3. PICK poll : /\ trace' = Append(trace, Event("irq", poll.dev, poll.vector, 0))
                  /\ hal' = Dispatch(hal, poll.vector)
                  /\ active' = (poll.vector \in Handled)
  BY DEF NvicEnters, GoTo
<1> DEFINE e == Event("irq", poll.dev, poll.vector, 0)
           a == Waits(hal, FALSE, v)
           b == AsReplayed'
           i == poll.vector
<1>4. e.type = "irq" /\ e.addr = i
  BY DEF Event
<1>5. AsReplayed = a
  BY <1>1, <1>2 DEF AsReplayed, Waits
<1>6. b = Waits(Dispatch(hal, i), i \in Handled, v)
  BY <1>1, <1>2, <1>3 DEF AsReplayed
<1>7. Polling(a) /\ b = Dispatch(a, i)
  <2>1. NeverPolls(hal)
    BY <1>1 DEF OnTheBench
  <2>2. Polling(a) /\ Dispatch(a, i) = Waits(Dispatch(hal, i), i \in Handled, v)
    BY <2>1, WaitingEntry
  <2> QED
    BY <1>6, <2>2
<1>8. Told(Recorded, p, trace) /\ ComesTo(p, a, Len(trace)) /\ Settled(p, trace)
  BY <1>2, <1>5 DEF Shadows
<1>9. trace' = Append(trace, e)
  BY <1>3
<1> HIDE DEF e, a, b, i
<1>10. Explains(TRUE, e, [m |-> a, events |-> Len(trace)],
                         [m |-> b, events |-> Len(trace) + 1])
  BY <1>4, <1>7 DEF Explains
<1>11. PICK q : Told(Recorded, q, trace') /\ Settled(q, trace')
                /\ ComesTo(q, b, Len(trace'))
  BY <1>8, <1>9, <1>10, ToldByAnEvent
<1>12. Shadows(q)'
  BY <1>1, <1>2, <1>11 DEF Shadows, b
<1> QED
  BY <1>12

\* The handler accesses a register: in the replay, below pump_irqs.
LEMMA HandlerShadowed ==
    ASSUME RecordWrites, PartInv, HandlerAccess, landed = "behind",
           NEW p, Shadows(p)
    PROVE  \E q : Shadows(q)'
<1> DEFINE req == Request(hal.fw)
           v == flight.value
<1>1. /\ phase = "record" /\ OnTheBench /\ Recorded' = Recorded
      /\ active /\ UNCHANGED <<flight, active, open>>
  BY BenchKeeps DEF HandlerAccess, PartStep, hwvars
<1>2. open /\ flight.at = "recorded"
  BY <1>1 DEF Shadows
<1>3. PICK x : /\ trace' = TraceOfAccess(hal, x) /\ hal' = Return(hal, x)
               /\ Reading(hal) \/ (Writing(hal) /\ x = 0)
  BY DEF HandlerAccess, GoTo
<1> DEFINE e == Event(req.op, dev, req.addr, IF req.op = "read" THEN x ELSE req.value)
           a == Waits(hal, TRUE, v)
           b == AsReplayed'
<1>4. /\ trace' = Append(trace, e)
      /\ e.type = req.op /\ e.addr = req.addr
      /\ e.value = IF req.op = "read" THEN x ELSE req.value
  BY <1>3 DEF TraceOfAccess, Reading, Writing, Op, Event
<1>5. AsReplayed = a
  BY <1>1, <1>2 DEF AsReplayed, Waits
<1>6. b = Waits(Return(hal, x), TRUE, v)
  BY <1>1, <1>2, <1>3 DEF AsReplayed, Waits
<1>7. /\ a.fw = hal.fw /\ b = Pump(a, x)
      /\ Reading(hal) => Reading(a)
      /\ Writing(hal) => Writing(a)
  <2>1. NeverPolls(hal)
    BY <1>1 DEF OnTheBench
  <2>2. Pump(a, x) = Waits(Return(hal, x), TRUE, v)
    BY <2>1, WaitingAccess
  <2>3. /\ a.fw = hal.fw
        /\ Reading(hal) => Reading(a)
        /\ Writing(hal) => Writing(a)
    BY <2>1, WaitingSteps
  <2> QED
    BY <1>6, <2>2, <2>3
<1>8. Told(Recorded, p, trace) /\ ComesTo(p, a, Len(trace))
  BY <1>5 DEF Shadows
<1> HIDE DEF e, a, b, req
<1>9. Explains(TRUE, e, [m |-> a, events |-> Len(trace)],
                        [m |-> b, events |-> Len(trace) + 1])
  <2>1. CASE Reading(hal)
    <3>1. req.op = "read"
      BY <2>1 DEF Reading, Op, req
    <3>2. e.type = "read" /\ e.addr = Request(a.fw).addr /\ e.value = x
      BY <1>4, <1>7, <3>1 DEF req
    <3> QED
      BY <1>7, <2>1, <3>2 DEF Explains
  <2>2. CASE Writing(hal) /\ x = 0
    <3>1. req.op = "write"
      BY <2>2 DEF Writing, Op, req
    <3>2. /\ e.type = "write" /\ e.addr = Request(a.fw).addr
          /\ e.value = Request(a.fw).value
      BY <1>4, <1>7, <3>1 DEF req
    <3> QED
      BY <1>7, <2>2, <3>2 DEF Explains
  <2> QED
    BY <1>3, <2>1, <2>2
<1>10. e.type # "irq"
  BY <1>3, <1>4 DEF Reading, Writing, Op, req
<1>11. PICK q : Told(Recorded, q, trace') /\ Settled(q, trace')
                /\ ComesTo(q, b, Len(trace'))
  BY <1>4, <1>8, <1>9, <1>10, ToldByAnEvent
<1>12. Shadows(q)'
  BY <1>1, <1>2, <1>11 DEF Shadows, b
<1> QED
  BY <1>12

\* The handler returns: in the replay, into pump_irqs, which polls again.
LEMMA LeavingShadowed ==
    ASSUME PartInv, HandlerLeaves, landed = "behind", NEW p, Shadows(p)
    PROVE  \E q : Shadows(q)'
<1> DEFINE v == flight.value
           a == Waits(hal, TRUE, v)
           b == AsReplayed'
<1>1. /\ phase = "record" /\ OnTheBench /\ Recorded' = Recorded
      /\ active /\ ~active' /\ UNCHANGED <<trace, flight, open>>
      /\ Op(hal) = "iret" /\ hal' = Return(hal, 0)
  BY BenchKeeps DEF HandlerLeaves, PartStep, GoTo
<1>2. open /\ flight.at = "recorded"
  BY <1>1 DEF Shadows
<1>3. AsReplayed = a
  BY <1>1, <1>2 DEF AsReplayed, Waits
<1>4. b = Waits(Return(hal, 0), FALSE, v)
  BY <1>1, <1>2 DEF AsReplayed, Waits
<1>5. Quiet(a) /\ AfterQuiet(a) = b
  BY <1>1, <1>4, WaitingQuiet DEF OnTheBench
<1>6. Told(Recorded, p, trace) /\ ComesTo(p, a, Len(trace)) /\ Settled(p, trace)
  BY <1>2, <1>3 DEF Shadows
<1> HIDE DEF a, b
<1>7. ~Polling(a)
  BY <1>5, Exclusive
<1>8. \A ev : Explains(FALSE, ev, [m |-> a, events |-> Len(trace)],
                                  [m |-> b, events |-> Len(trace)])
  BY <1>5 DEF Explains
<1>9. PICK q : Told(Recorded, q, trace) /\ ComesTo(q, b, Len(trace)) /\ Settled(q, trace)
  BY <1>6, <1>7, <1>8, ToldByNothing
<1>10. Shadows(q)'
  BY <1>1, <1>2, <1>9 DEF Shadows, b
<1> QED
  BY <1>10

\* An interrupt lands where pump_irqs does not look: the shadow ends in front of
\* its event.
LEMMA EntryBlocks ==
    ASSUME PartInv, NvicEnters, landed = "behind", landed' = "hidden",
           NEW p, Shadows(p)
    PROVE  Blocked(p)'
<1>1. phase = "record" /\ OnTheBench /\ Recorded' = Recorded /\ ~active
  BY BenchKeeps DEF NvicEnters, PartStep
<1>2. ~open
  BY DEF NvicEnters, Landing
<1>3. PICK e : trace' = Append(trace, e) /\ e.type = "irq"
  BY DEF NvicEnters, Event
<1>4. /\ Told(Recorded, p, trace) /\ Settled(p, trace)
      /\ ComesTo(p, AsReplayed, Len(trace))
  BY <1>2 DEF Shadows
<1>5. ~AsReplayed.inIsr
  BY <1>1, <1>2, BenchSteps DEF OnTheBench, AsReplayed, NeverPolls
<1>6. p[Len(p)].m = AsReplayed /\ p[Len(p)].events = Len(trace)
  BY <1>4, EntryFields DEF ComesTo
<1>7. Told(Recorded, p, trace') /\ Settled(p, trace')
  BY <1>3, <1>4, StillTold
<1>8. Len(trace) \in Nat /\ Len(trace') = Len(trace) + 1 /\ trace'[Len(trace) + 1] = e
  BY <1>3, <1>4, AppendFacts DEF Told
<1> QED
  BY <1>1, <1>3, <1>5, <1>6, <1>7, <1>8 DEF Blocked

\* Whatever is recorded behind that event, it stays there.
LEMMA StaysBlocked ==
    ASSUME NEW p, Blocked(p), Recorded' = Recorded,
           trace' = trace \/ \E e : trace' = Append(trace, e)
    PROVE  Blocked(p)' /\ Len(trace) \in Nat /\ Len(trace') \in Nat
<1>1. CASE trace' = trace
  BY <1>1, AppendFacts DEF Blocked, Told, Settled, IsSeq
<1>2. ASSUME NEW e, trace' = Append(trace, e)
      PROVE  Blocked(p)' /\ Len(trace) \in Nat /\ Len(trace') \in Nat
  <2>1. Told(Recorded, p, trace') /\ Settled(p, trace')
    BY <1>2, StillTold DEF Blocked
  <2>2. /\ Len(trace) \in Nat /\ Len(trace') = Len(trace) + 1
        /\ \A k \in 1 .. Len(trace) : trace'[k] = trace[k]
    BY <1>2, AppendFacts DEF Blocked, Told
  <2>3. Len(p) \in Nat /\ Len(p) >= 1
    BY AppendFacts DEF Blocked, Told
  <2> DEFINE n == p[Len(p)].events
  <2>4. n \in Nat /\ n < Len(trace) /\ trace[n + 1].type = "irq"
    BY <2>3 DEF Blocked, Told
  <2> HIDE DEF n
  <2>5. n < Len(trace') /\ trace'[n + 1].type = "irq"
    BY <2>2, <2>4
  <2> QED
    BY <2>1, <2>2, <2>5 DEF Blocked, n
<1> QED
  BY <1>1, <1>2

\* A step of the recording on the part keeps what is known of it.
LEMMA PartKeeps ==
    ASSUME RecordWrites, PartInv, PartStep
    PROVE  PartInv'
<1>1. /\ backend = "part" /\ backend' = "part"
      /\ phase = "record" /\ phase' = "record" /\ OnTheBench /\ OnTheBench'
      /\ IsSeq(path') /\ Len(path') >= 1 /\ Recorded' = Recorded
      /\ trace' = trace \/ \E e : trace' = Append(trace, e)
  BY BenchKeeps
<1>2. IsMachine(hal') /\ IsSeq(trace')
  <2>1. IsSeq(trace)
    BY <1>1 DEF PartInv
  <2>2. ASSUME trace' = trace PROVE IsSeq(trace')
    BY <2>1, <2>2
  <2>3. ASSUME NEW e, trace' = Append(trace, e) PROVE IsSeq(trace')
    <3> DEFINE t == Append(trace, e)
    <3>1. IsSeq(t)
      BY <2>1, AppendFacts
    <3> HIDE DEF t
    <3> QED
      BY <2>3, <3>1 DEF t
  <2>4. IsMachine(hal')
    BY <1>1 DEF OnTheBench, NeverPolls
  <2> QED
    BY <1>1, <2>2, <2>3, <2>4
<1>3. landed' \in {"behind", "hidden", "masked", "between"}
  <2>1. landed \in {"behind", "hidden", "masked", "between"}
    BY <1>1 DEF PartInv
  <2>2. CASE NvicEnters
    BY <2>1, <2>2 DEF NvicEnters, Landing
  <2>3. CASE ~NvicEnters
    BY <2>1, <2>3 DEF PartStep, PartAccess, PartRecord, PartReturn, PartQuiet,
                      HandlerAccess, HandlerLeaves, hwvars
  <2> QED
    BY <2>2, <2>3
<1>4. ASSUME ~NvicEnters PROVE landed' = landed
  BY <1>4 DEF PartStep, PartAccess, PartRecord, PartReturn, PartQuiet,
              HandlerAccess, HandlerLeaves, hwvars
<1>5. ASSUME NvicEnters, landed # "behind" PROVE landed' = landed
  BY <1>5 DEF NvicEnters
<1>6. ASSUME landed' = "behind" PROVE \E q : Shadows(q)'
  <2>1. landed = "behind"
    BY <1>4, <1>5, <1>6
  <2>2. PICK p : Shadows(p)
    BY <1>1, <2>1 DEF PartInv
  <2> QED
    BY <1>6, <2>1, <2>2, AccessShadowed, RecordShadowed, ReturnShadowed,
       QuietShadowed, EntryShadowed, HandlerShadowed, LeavingShadowed DEF PartStep
<1>7. ASSUME landed' = "hidden" PROVE \E q : Blocked(q)'
  <2>1. CASE landed = "hidden"
    <3>1. PICK p : Blocked(p)
      BY <1>1, <2>1 DEF PartInv
    <3>2. Blocked(p)'
      BY <1>1, <3>1, StaysBlocked
    <3> QED
      BY <3>2
  <2>2. CASE landed # "hidden"
    <3>1. NvicEnters /\ landed = "behind"
      BY <1>4, <1>5, <1>7, <2>2
    <3>2. PICK p : Shadows(p)
      BY <1>1, <3>1 DEF PartInv
    <3>3. Blocked(p)'
      BY <1>7, <3>1, <3>2, EntryBlocks
    <3> QED
      BY <3>3
  <2> QED
    BY <2>1, <2>2
<1> QED
  BY <1>1, <1>2, <1>3, <1>6, <1>7 DEF PartInv

--------------------------------------------------------------------------------
(* The replay of a recording on the part.                                    *)

\* The recording ends: a replay of its firmware starts out on the shadow.
LEMMA PartStops ==
    ASSUME PartInv, backend = "part", MainRuns, StopAndReplay,
           UNCHANGED hwvars
    PROVE  PartInv'
<1> DEFINE e == Event("stop", dev, 0, 0)
<1>1. /\ phase = "record" /\ phase' = "replay" /\ Halted(hal)
      /\ hal' = Start(from') /\ trace' = Append(trace, e)
      /\ cursor' = 0 /\ divergence' = "none" /\ step' = 1 /\ path' = path
      /\ Recorded' = Recorded
      /\ backend' = backend /\ landed' = landed
      /\ ~active /\ flight.at = "none"
  BY DEF StopAndReplay, Recorded, hwvars, MainRuns, NoFlight
<1>2. OnTheBench /\ IsSeq(path) /\ Len(path) >= 1 /\ IsSeq(trace)
      /\ landed \in {"behind", "hidden", "masked", "between"}
  BY <1>1 DEF PartInv
<1>3. e.type # "irq"
  BY DEF Event
<1> HIDE DEF e
<1>4. IsSeq(trace') /\ Len(trace) \in Nat /\ Len(trace') = Len(trace) + 1
      /\ IsSeq(path') /\ Len(path') >= 1
  BY <1>1, <1>2, AppendFacts, SMTT(60) DEF IsSeq
<1>5. ASSUME NEW p, Told(Recorded, p, trace), from' = Recorded'
      PROVE  On(p)'
  <2>1. p[1] = [m |-> Start(Recorded), events |-> 0] /\ Len(p) \in Nat /\ Len(p) >= 1
    BY <1>5, AppendFacts DEF Told
  <2>2. p[1].m = Start(Recorded) /\ p[1].events = 0
    BY <2>1, EntryFields
  <2> QED
    BY <1>1, <1>5, <2>1, <2>2 DEF On
<1>6. ASSUME NEW p, Shadows(p) PROVE Repeats(p)'
  <2>1. AsReplayed = hal
    BY <1>1 DEF AsReplayed
  <2>2. Told(Recorded, p, trace) /\ ComesTo(p, hal, Len(trace))
    BY <1>6, <2>1 DEF Shadows
  <2>3. p[Len(p)].m = hal /\ p[Len(p)].events = Len(trace)
    BY <2>2, EntryFields DEF ComesTo
  <2>4. Told(Recorded, p, trace)'
    BY <1>1, <1>3, <2>2, StillTold
  <2>5. hal.fw = path[Len(path)].m.fw
    BY <1>2 DEF OnTheBench
  <2>6. p[Len(p)].events = Len(trace') - 1
    BY <1>4, <2>3
  <2> QED
    BY <1>1, <1>5, <2>2, <2>3, <2>4, <2>5, <2>6 DEF Repeats
<1>7. ASSUME NEW p, Blocked(p) PROVE StopsAt(p)'
  <2>1. Blocked(p)'
    BY <1>1, <1>7, StaysBlocked
  <2>2. p[Len(p)].events \in Nat /\ p[Len(p)].events < Len(trace)
    <3>1. Len(p) \in Nat /\ Len(p) >= 1
      BY <1>7, AppendFacts DEF Blocked, Told
    <3> QED
      BY <1>7, <3>1 DEF Blocked, Told
  <2>3. p[Len(p)].events < Len(trace') - 1
    BY <1>4, <2>2
  <2>4. Told(Recorded, p, trace)
    BY <1>7 DEF Blocked
  <2> QED
    BY <1>1, <1>5, <2>1, <2>3, <2>4 DEF StopsAt
<1>8. landed' = "behind" => \E p : Repeats(p)'
  BY <1>1, <1>6 DEF PartInv
<1>9. landed' = "hidden" => \E p : StopsAt(p)'
  BY <1>1, <1>7 DEF PartInv
<1>10. IsMachine(hal')
  BY <1>1, StartIsMachine
<1> QED
  BY <1>1, <1>2, <1>4, <1>8, <1>9, <1>10 DEF PartInv

\* A replay on p that has not come to its end goes a step further on it.
LEMMA StaysOn ==
    ASSUME RecordWrites, IsMachine(hal), NEW p, Told(Recorded, p, trace), On(p),
           step # Len(p),
           ReplayRead \/ ReplayWrite \/ ReplayIrq \/ ReplayNoIrq \/ ReplayQuiet
    PROVE  On(p)' /\ divergence' = divergence
<1>1. Len(p) \in Nat /\ Len(trace) \in Nat /\ step \in 1 .. Len(p) - 1
      /\ step' = step + 1
  <2>1. Len(p) \in Nat /\ Len(trace) \in Nat /\ step \in 1 .. Len(p)
    BY AppendFacts DEF Told, On
  <2>2. step' = step + 1
    BY DEF ReplayRead, ReplayWrite, ReplayIrq, ReplayNoIrq, ReplayQuiet
  <2> QED
    BY <2>1, <2>2
<1>2. p[step].m = hal /\ p[step].events = cursor
  BY DEF On
<1>3. cursor \in Nat
      /\ Explains(cursor < Len(trace), trace[cursor + 1], p[step], p[step + 1])
  BY <1>1, <1>2, SMTT(60) DEF Told
<1>4. /\ hal' = p[step + 1].m /\ cursor' = p[step + 1].events
      /\ divergence' = divergence
  BY <1>1, <1>2, <1>3, TakesTheStep
<1>5. step' \in 1 .. Len(p)
  BY <1>1
<1> QED
  BY <1>1, <1>4, <1>5 DEF On

\* A replay that is about to take a step of the shim has not halted, and one that
\* has halted on p is at the end of p.
LEMMA HaltsAtTheEnd ==
    ASSUME NEW p, Told(Recorded, p, trace), On(p), Halted(hal)
    PROVE  step = Len(p)
<1> SUFFICES ASSUME step # Len(p) PROVE FALSE
  OBVIOUS
<1>1. step \in 1 .. Len(p) - 1
  BY AppendFacts DEF On, Told
<1>2. Explains(cursor < Len(trace), trace[cursor + 1], p[step], p[step + 1])
  BY <1>1 DEF Told, On
<1>3. Halted(p[step].m)
  BY DEF On
<1> QED
  BY <1>2, <1>3, Exclusive DEF Explains

\* In front of an interrupt that the main loop does not poll for, an access is
\* reported; code without one changes nothing.
LEMMA Stuck ==
    ASSUME RecordWrites, IsMachine(hal), ~hal.inIsr,
           cursor < Len(trace), trace[cursor + 1].type = "irq",
           ReplayRead \/ ReplayWrite \/ ReplayIrq \/ ReplayNoIrq \/ ReplayQuiet
    PROVE  divergence' # "none" \/ (cursor' = cursor /\ ~hal'.inIsr)
<1>1. CASE ReplayRead
  <2>1. Mismatch("read", Request(hal.fw).addr, 0) \notin {"none"}
    BY DEF Mismatch
  <2>2. Diverge(Mismatch("read", Request(hal.fw).addr, 0))
    BY <1>1, <2>1 DEF ReplayRead
  <2> QED
    BY <2>1, <2>2 DEF Diverge
<1>2. CASE ReplayWrite
  <2>1. Mismatch("write", Request(hal.fw).addr, Request(hal.fw).value) \notin {"none"}
    BY DEF Mismatch
  <2>2. Diverge(Mismatch("write", Request(hal.fw).addr, Request(hal.fw).value))
    BY <1>2, <2>1 DEF ReplayWrite
  <2> QED
    BY <2>1, <2>2 DEF Diverge
<1>3. CASE ReplayIrq \/ ReplayNoIrq
  <2>1. Polling(hal)
    BY <1>3 DEF ReplayIrq, ReplayNoIrq
  <2> QED
    BY <2>1 DEF Polling, IsMachine
<1>4. CASE ReplayQuiet
  BY <1>4, MachineSteps DEF ReplayQuiet
<1> QED
  BY <1>1, <1>2, <1>3, <1>4

\* A step of the replay keeps what is known of the recording and of the replay.
LEMMA ReplayKeeps ==
    ASSUME RecordWrites, PartInv, ReplayStep, UNCHANGED hwvars
    PROVE  PartInv'
<1> SUFFICES ASSUME backend = "part" PROVE PartInv'
  BY DEF PartInv, hwvars
<1>1. /\ phase = "replay" /\ UNCHANGED <<trace, path, from, backend, landed>>
      /\ phase' \in {"replay", "done"} /\ Recorded' = Recorded
  BY DEF ReplayStep, ReplayRead, ReplayWrite, ReplayIrq, ReplayNoIrq, ReplayQuiet,
         ReplayEnds, UNCHANGED_record, hwvars, Recorded
<1>2. /\ IsMachine(hal) /\ IsSeq(path) /\ Len(path) >= 1 /\ IsSeq(trace)
      /\ landed \in {"behind", "hidden", "masked", "between"}
      /\ landed = "behind" => \E p : Repeats(p)
      /\ landed = "hidden" => \E p : StopsAt(p)
  BY <1>1 DEF PartInv
<1>3. ASSUME NEW p, Told(Recorded, p, trace) PROVE Told(Recorded, p, trace)'
  BY <1>1, <1>3
<1>4. ASSUME NEW p, Blocked(p) PROVE Blocked(p)'
  BY <1>1, <1>4 DEF Blocked
<1>5. CASE ReplayEnds
  <2>1. /\ Halted(hal) /\ UNCHANGED <<hal, cursor, divergence, step>>
    BY <1>5 DEF ReplayEnds
  <2>2. ASSUME NEW p, Repeats(p) PROVE Repeats(p)'
    BY <1>1, <1>3, <2>1, <2>2 DEF Repeats, On
  <2>3. ASSUME NEW p, StopsAt(p) PROVE StopsAt(p)'
    BY <1>1, <1>4, <2>1, <2>3 DEF StopsAt, On
  <2>4. IsMachine(hal')
    BY <1>2, <2>1
  <2> QED
    BY <1>1, <1>2, <2>2, <2>3, <2>4 DEF PartInv
<1>6. CASE ReplayRead \/ ReplayWrite \/ ReplayIrq \/ ReplayNoIrq \/ ReplayQuiet
  <2>1. phase' = "replay"
    BY <1>1, <1>6 DEF ReplayRead, ReplayWrite, ReplayIrq, ReplayNoIrq, ReplayQuiet,
                      UNCHANGED_record
  <2>2. ~Halted(hal)
    BY <1>6, Exclusive DEF ReplayRead, ReplayWrite, ReplayIrq, ReplayNoIrq, ReplayQuiet
  <2>3. IsMachine(hal')
    BY <1>2, <1>6, ReplayKeepsMachine
  <2>4. ASSUME NEW p, Repeats(p) PROVE Repeats(p)'
    <3>1. Told(Recorded, p, trace)
      BY <2>4 DEF Repeats
    <3>2. ASSUME from = Recorded PROVE divergence' = "none" /\ On(p)'
      <4>1. divergence = "none" /\ On(p)
        BY <2>4, <3>2 DEF Repeats
      <4>2. step # Len(p)
        BY <2>2, <2>4, <4>1 DEF Repeats, On
      <4> QED
        BY <1>2, <1>6, <3>1, <4>1, <4>2, StaysOn
    <3> QED
      BY <1>1, <1>3, <2>1, <2>4, <3>1, <3>2 DEF Repeats
  <2>5. ASSUME NEW p, StopsAt(p) PROVE StopsAt(p)'
    <3>1. Told(Recorded, p, trace) /\ Blocked(p)
      BY <2>5 DEF StopsAt, Blocked
    <3>2. CASE divergence # "none"
      <4>1. divergence' = divergence \/ divergence' # "none"
        BY <1>6, <3>2 DEF ReplayRead, ReplayWrite, ReplayIrq, ReplayNoIrq,
                          ReplayQuiet, Diverge, Consume
      <4> QED
        BY <1>1, <1>4, <2>5, <3>1, <3>2, <4>1 DEF StopsAt
    <3>3. CASE On(p) /\ step # Len(p)
      <4>1. On(p)'
        BY <1>2, <1>6, <3>1, <3>3, StaysOn
      <4> QED
        BY <1>1, <1>4, <2>1, <2>5, <3>1, <4>1 DEF StopsAt
    <3>4. CASE cursor = p[Len(p)].events /\ ~hal.inIsr
      <4>1. cursor < Len(trace) /\ trace[cursor + 1].type = "irq"
        BY <3>1, <3>4 DEF Blocked
      <4>2. divergence' # "none" \/ (cursor' = cursor /\ ~hal'.inIsr)
        BY <1>2, <1>6, <3>4, <4>1, Stuck
      <4> QED
        BY <1>1, <1>4, <2>5, <3>1, <3>4, <4>2 DEF StopsAt
    <3>5. CASE from # Recorded
      BY <1>1, <1>4, <2>5, <3>1, <3>5 DEF StopsAt
    <3>6. On(p) /\ step = Len(p) => cursor = p[Len(p)].events /\ ~hal.inIsr
      BY <3>1 DEF On, Blocked
    <3> QED
      BY <2>5, <3>2, <3>3, <3>4, <3>5, <3>6 DEF StopsAt
  <2> QED
    BY <1>1, <1>2, <2>1, <2>3, <2>4, <2>5 DEF PartInv
<1> QED
  BY <1>5, <1>6 DEF ReplayStep

--------------------------------------------------------------------------------

\* What is known of the recordings on the part holds at the start.
LEMMA PartInvInit ==
    ASSUME HardwareInit
    PROVE  PartInv
<1> DEFINE p == path
<1>1. IInv /\ phase = "record" /\ hal = Start(from) /\ trace = <<>>
  BY IInvInit DEF HardwareInit, Init
<1>2. flight = NoFlight /\ ~active /\ ~open /\ landed = "behind"
  BY DEF HardwareInit
<1>3. path = <<[m |-> hal, events |-> 0]>> /\ Len(path) = 1 /\ Len(trace) = 0
  BY <1>1 DEF HardwareInit, Init
<1>4. path[1] = [m |-> hal, events |-> 0]
  BY <1>3
<1>5. path[1].m = hal
  BY <1>4, EntryFields
<1>6. NeverPolls(hal)
  BY <1>1, StartIsMachine DEF NeverPolls, Start
<1>7. Recorded = from
  BY <1>1, <1>5 DEF Recorded, Start
<1>8. OnTheBench
  BY <1>2, <1>3, <1>5, <1>6, <1>7 DEF OnTheBench, NoFlight
<1>9. AsReplayed = hal /\ flight.at = "none"
  BY <1>2 DEF AsReplayed, NoFlight
<1>10. Told(Recorded, p, trace) /\ Settled(p, trace)
  BY <1>1, <1>3 DEF Told, Settled, IInv, PathInv
<1>11. ComesTo(p, AsReplayed, Len(trace))
  BY <1>3, <1>4, <1>9 DEF ComesTo
<1>12. Shadows(p)
  BY <1>2, <1>9, <1>10, <1>11 DEF Shadows
<1> QED
  BY <1>1, <1>2, <1>8, <1>12 DEF PartInv, IInv, PathInv

\* Every step of the whole keeps it.
LEMMA PartInvStep ==
    ASSUME RecordWrites, PartInv, [HardwareNext]_<<vars, hwvars>>
    PROVE  PartInv'
<1>1. CASE PartStep
  BY <1>1, PartKeeps
<1>2. CASE ShimStep
  <2>1. CASE backend = "part"
    <3>1. CASE MainRuns /\ StopAndReplay
      BY <1>2, <2>1, <3>1, PartStops DEF ShimStep
    <3>2. CASE ReplayStep
      BY <1>2, <3>2, ReplayKeeps DEF ShimStep
    <3> QED
      BY <1>2, <2>1, <3>1, <3>2 DEF ShimStep
  <2>2. CASE backend # "part"
    BY <1>2, <2>2 DEF ShimStep, hwvars, PartInv
  <2> QED
    BY <2>1, <2>2
<1>3. CASE UNCHANGED <<vars, hwvars>>
  <2>1. PartInv' <=> PartInv
    BY <1>3 DEF vars, hwvars, PartInv, OnTheBench, Shadows, AsReplayed, Repeats,
                StopsAt, Blocked, On, Recorded
  <2> QED
    BY <2>1
<1> QED
  BY <1>1, <1>2, <1>3 DEF HardwareNext

\* A recording behind the shim is one of RecordReplay, whose invariant it keeps.
LEMMA ShimKeeps ==
    ASSUME RecordWrites, backend = "sim" => IInv, [HardwareNext]_<<vars, hwvars>>
    PROVE  (backend = "sim" => IInv)'
<1> SUFFICES ASSUME backend' = "sim" PROVE IInv'
  OBVIOUS
<1>1. backend' = backend
  BY DEF HardwareNext, PartStep, PartAccess, PartRecord, PartReturn, PartQuiet,
         NvicEnters, HandlerAccess, HandlerLeaves, ShimStep, hwvars
<1>2. ~PartStep /\ ~MainRuns
  BY <1>1 DEF PartStep, PartAccess, PartRecord, PartReturn, PartQuiet, NvicEnters,
              HandlerAccess, HandlerLeaves, OnThePart, MainRuns
<1>3. [Next]_vars
  BY <1>2 DEF HardwareNext, ShimStep, Next
<1> QED
  BY <1>1, <1>3, IInvStep

\* The golden property of execution-model.md, of the recordings it is about, in a
\* system that also records on the part: for every firmware and device, a replay
\* of a recording made behind the shim goes through its machines one by one.
THEOREM ShimLockstepCorrect ==
    ASSUME RecordWrites
    PROVE  HardwareSpec => []ShimLockstep
<1> DEFINE SimInv == backend = "sim" => IInv
<1>1. HardwareInit => SimInv
  BY IInvInit DEF HardwareInit
<1>2. SimInv /\ [HardwareNext]_<<vars, hwvars>> => SimInv'
  BY ShimKeeps
<1>3. SimInv => ShimLockstep
  BY InLockstep DEF ShimLockstep
<1> QED
  BY <1>1, <1>2, <1>3, PTL DEF HardwareSpec

\* What is known of the recordings on the part is known of each of them.
LEMMA PartInvCorrect ==
    ASSUME RecordWrites
    PROVE  HardwareSpec => []PartInv
<1>1. HardwareInit => PartInv
  BY PartInvInit
<1>2. PartInv /\ [HardwareNext]_<<vars, hwvars>> => PartInv'
  BY PartInvStep
<1> QED
  BY <1>1, <1>2, PTL DEF HardwareSpec

\* hal.h:87: replay can only re-enter a handler after a memory access.  Where the
\* hardware entered each handler there, for every firmware and device, the replay
\* ends as the recording on the part ended, with every event consumed.
THEOREM BehindAnAccessIsExactCorrect ==
    ASSUME RecordWrites
    PROVE  HardwareSpec => []BehindAnAccessIsExact
<1>1. PartInv => BehindAnAccessIsExact
  <2> SUFFICES ASSUME PartInv, backend = "part", landed = "behind", phase = "done",
                      from = Recorded
               PROVE  /\ divergence = "none" /\ cursor = Len(trace) - 1
                      /\ hal.fw = path[Len(path)].m.fw
    BY DEF BehindAnAccessIsExact, SameEnd
  <2>1. PICK p : Repeats(p)
    BY DEF PartInv
  <2>2. divergence = "none" /\ On(p) /\ Halted(hal) /\ Told(Recorded, p, trace)
    BY <2>1 DEF Repeats
  <2>3. step = Len(p)
    BY <2>2, HaltsAtTheEnd
  <2> QED
    BY <2>1, <2>2, <2>3 DEF Repeats, On
<1> QED
  BY <1>1, PartInvCorrect, PTL

\* pump_irqs of the replay cannot enter a handler that the NVIC entered when the
\* main loop's last access was one inside a critical section, or when it had made
\* none: for every firmware and device the replay of a recording whose first stray
\* interrupt is such a one diverges or ends with events left over.  One that comes
\* inside a critical section before the section's first access is not such a one.
THEOREM HiddenIsReportedCorrect ==
    ASSUME RecordWrites
    PROVE  HardwareSpec => []HiddenIsReported
<1>1. PartInv => HiddenIsReported
  <2> SUFFICES ASSUME PartInv, phase = "done", backend = "part", landed = "hidden",
                      from = Recorded
               PROVE  divergence # "none" \/ cursor < Len(trace) - 1
    BY DEF HiddenIsReported
  <2>1. PICK p : StopsAt(p)
    BY DEF PartInv
  <2>2. Told(Recorded, p, trace) /\ p[Len(p)].events < Len(trace) - 1
    BY <2>1 DEF StopsAt, Blocked
  <2>3. CASE On(p) /\ Halted(hal)
    <3>1. step = Len(p)
      BY <2>2, <2>3, HaltsAtTheEnd
    <3> QED
      BY <2>2, <2>3, <3>1 DEF On
  <2> QED
    BY <2>1, <2>2, <2>3 DEF StopsAt
<1> QED
  BY <1>1, PartInvCorrect, PTL

--------------------------------------------------------------------------------
(* What pump_irqs leaves behind, writes recorded or not.                     *)

\* A device that had no interrupt to deliver has none until it is touched again.
EmptyStaysEmpty ==
    \A d : \A p \in DevPoll(d) :
        p.vector = NoIrq => \A q \in DevPoll(p.dev) : q.vector = NoIrq

OnlyShimPolls == IsMachine(hal) /\ (OnThePart => NeverPolls(hal))

LEMMA OnlyShimPollsStep ==
    ASSUME OnlyShimPolls, [HardwareNext]_<<vars, hwvars>>
    PROVE  OnlyShimPolls'
<1>1. CASE PartStep
  <2>1. OnThePart /\ NeverPolls(hal)
    BY <1>1 DEF OnlyShimPolls, PartStep, PartAccess, PartRecord, PartReturn, PartQuiet,
                NvicEnters, HandlerAccess, HandlerLeaves, MainRuns
  <2>2. NeverPolls(hal')
    <3>1. CASE PartAccess \/ PartRecord
      BY <2>1, <3>1 DEF PartAccess, PartRecord
    <3>2. CASE PartReturn \/ HandlerAccess \/ HandlerLeaves
      <4>1. \E v : hal' = Return(hal, v)
        BY <3>2 DEF PartReturn, HandlerAccess, HandlerLeaves, GoTo
      <4> QED
        BY <2>1, <4>1, BenchSteps
    <3>3. CASE PartQuiet
      BY <2>1, <3>3, BenchSteps DEF PartQuiet, GoTo
    <3>4. CASE NvicEnters
      <4>1. \E i : hal' = Dispatch(hal, i)
        BY <3>4 DEF NvicEnters, GoTo
      <4> QED
        BY <2>1, <4>1, BenchSteps
    <3> QED
      BY <1>1, <3>1, <3>2, <3>3, <3>4 DEF PartStep
  <2> QED
    BY <2>2 DEF OnlyShimPolls, NeverPolls
<1>2. CASE ShimStep
  <2>1. CASE backend = "sim" /\ RecordStep /\ ~StopAndReplay
    <3>1. IsMachine(hal) /\ backend' # "part"
      BY <1>2, <2>1 DEF OnlyShimPolls, ShimStep, hwvars
    <3>2. CASE RecordRead \/ RecordWrite
      <4>1. hal.ctrl = "run" /\ \E v : hal' = Pump(hal, v)
        BY <3>2 DEF RecordRead, RecordWrite, Reading, Writing, GoTo
      <4> QED
        BY <3>1, <4>1, MachineSteps DEF OnlyShimPolls, OnThePart
    <3>3. CASE RecordIrq
      <4>1. Polling(hal) /\ \E i : hal' = Dispatch(hal, i)
        BY <3>3 DEF RecordIrq, GoTo
      <4> QED
        BY <3>1, <4>1, MachineSteps DEF OnlyShimPolls, OnThePart
    <3>4. CASE RecordNoIrq
      BY <3>1, <3>4, MachineSteps DEF RecordNoIrq, GoTo, OnlyShimPolls, OnThePart
    <3>5. CASE RecordQuiet
      BY <3>1, <3>5, MachineSteps DEF RecordQuiet, GoTo, OnlyShimPolls, OnThePart
    <3> QED
      BY <2>1, <3>2, <3>3, <3>4, <3>5 DEF RecordStep
  <2>2. CASE StopAndReplay
    BY <2>2, StartIsMachine DEF StopAndReplay, OnlyShimPolls, OnThePart
  <2>3. CASE ReplayStep
    <3>1. phase' # "record"
      BY <2>3 DEF ReplayStep, ReplayRead, ReplayWrite, ReplayIrq, ReplayNoIrq,
                  ReplayQuiet, ReplayEnds, UNCHANGED_record
    <3>2. IsMachine(hal')
      BY <2>3, ReplayKeepsMachine DEF OnlyShimPolls, ReplayStep, ReplayEnds
    <3> QED
      BY <3>1, <3>2 DEF OnlyShimPolls, OnThePart
  <2> QED
    BY <1>2, <2>1, <2>2, <2>3 DEF ShimStep
<1>3. CASE UNCHANGED <<vars, hwvars>>
  BY <1>3 DEF vars, hwvars, OnlyShimPolls, OnThePart
<1> QED
  BY <1>1, <1>2, <1>3 DEF HardwareNext

\* An access returns to the main loop only out of a poll that found nothing.
LEMMA DrainedStep ==
    ASSUME EmptyStaysEmpty, OnlyShimPolls, [HardwareNext]_<<vars, hwvars>>
    PROVE  /\ phase = "record" /\ hal.inIsr /\ ~hal'.inIsr =>
                 \A p \in DevPoll(dev') : p.vector = NoIrq
           /\ phase = "replay" /\ hal.inIsr /\ ~hal'.inIsr => ~IrqAtCursor'
<1> SUFFICES ASSUME hal.inIsr, ~hal'.inIsr
             PROVE  /\ phase = "record" => \A p \in DevPoll(dev') : p.vector = NoIrq
                    /\ phase = "replay" => ~IrqAtCursor'
  OBVIOUS
<1>1. IsMachine(hal) /\ ~Halted(hal) /\ ~OnThePart
  BY DEF OnlyShimPolls, NeverPolls, Halted
<1>2. ~PartStep /\ ~StopAndReplay /\ ~ReplayEnds
  BY <1>1 DEF PartStep, PartAccess, PartRecord, PartReturn, PartQuiet, NvicEnters,
              HandlerAccess, HandlerLeaves, MainRuns, StopAndReplay, ReplayEnds
<1>3. \A v : Pump(hal, v).inIsr
  BY <1>1 DEF Pump, Return, IsMachine
<1>4. ~RecordRead /\ ~RecordWrite /\ ~ReplayRead /\ ~ReplayWrite
  BY <1>3 DEF RecordRead, RecordWrite, ReplayRead, ReplayWrite, GoTo
<1>5. \A i : Dispatch(hal, i).inIsr
  BY <1>1 DEF Dispatch, IsMachine
<1>6. ~RecordIrq /\ ~ReplayIrq
  BY <1>5 DEF RecordIrq, ReplayIrq, GoTo
<1>7. Quiet(hal) => AfterQuiet(hal).inIsr
  BY <1>1, MachineSteps
<1>8. ~RecordIrq /\ ~ReplayIrq /\ ~RecordQuiet /\ ~ReplayQuiet
  BY <1>6, <1>7 DEF RecordQuiet, ReplayQuiet, GoTo
<1>9. hal' # hal
  OBVIOUS
<1>10. RecordNoIrq \/ ReplayNoIrq
  BY <1>2, <1>4, <1>8, <1>9
     DEF HardwareNext, ShimStep, RecordStep, ReplayStep, vars
<1>11. CASE RecordNoIrq
  BY <1>11 DEF RecordNoIrq, EmptyStaysEmpty
<1>12. CASE ReplayNoIrq
  BY <1>12 DEF ReplayNoIrq, IrqAtCursor, UNCHANGED_record
<1> QED
  BY <1>10, <1>11, <1>12

\* "Drains pending interrupts": for every firmware, with its writes recorded or
\* not, and every device that does not raise an interrupt by being polled, no
\* interrupt is left over, by the device or at the cursor of the trace, when
\* pump_irqs gives control back to the main loop.
THEOREM PumpDrainsCorrect ==
    ASSUME EmptyStaysEmpty
    PROVE  HardwareSpec => PumpDrains
<1>1. HardwareInit => OnlyShimPolls
  <2> SUFFICES ASSUME HardwareInit PROVE OnlyShimPolls
    OBVIOUS
  <2>1. \E f : hal = Start(f)
    BY DEF HardwareInit, Init
  <2> QED
    BY <2>1, StartIsMachine DEF OnlyShimPolls, NeverPolls, Start
<1>2. OnlyShimPolls /\ [HardwareNext]_<<vars, hwvars>> => OnlyShimPolls'
  BY OnlyShimPollsStep
<1>3. OnlyShimPolls /\ [HardwareNext]_<<vars, hwvars>> =>
         [/\ phase = "record" /\ hal.inIsr /\ ~hal'.inIsr =>
                \A p \in DevPoll(dev') : p.vector = NoIrq
          /\ phase = "replay" /\ hal.inIsr /\ ~hal'.inIsr => ~IrqAtCursor']_vars
  BY DrainedStep
<1> QED
  BY <1>1, <1>2, <1>3, PTL DEF HardwareSpec, PumpDrains

--------------------------------------------------------------------------------
(* Firmware whose handlers come back.                                        *)

\* From the first devices on, those of D answer reads with members of V.
AnswersWith(D, V) ==
    /\ DevInit \subseteq D
    /\ \A d \in D : \A a : \A r \in DevRead(d, a) : r.dev \in D /\ r.value \in V
    /\ \A d \in D : \A a, v : DevWrite(d, a, v) \subseteq D
    /\ \A d \in D : \A p \in DevPoll(d) : p.dev \in D

\* A recording of such firmware on the part,
Suspended(F, H, V, D) ==
    /\ flight.at \in {"none", "made", "recorded"} /\ flight.value \in V
    /\ landed \in {"behind", "hidden", "masked", "between"}
    /\ active => \E k \in 1 .. Len(trace) : trace[k].type = "irq"
    /\ IF OnThePart
       THEN /\ dev \in D
            /\ ~active => hal.fw \in F /\ (flight # NoFlight => Reading(hal) \/ Writing(hal))
            /\ active => \E f, d : /\ <<f, hal.fw, d>> \in H
                                   /\ flight # NoFlight =>
                                         Request(f).op \in {"read", "write"}
       ELSE active = FALSE /\ flight = NoFlight

\* and one behind the shim.
Nested(F, H, V, D) ==
    backend = "sim" /\ phase = "record" =>
        /\ dev \in D
        /\ ~hal.inIsr => hal.fw \in F
        /\ hal.inIsr => hal.ret \in V
        /\ hal.ctrl = "pump" => hal.fw \in F /\ hal.mask = 0
                                /\ Request(hal.fw).op \in {"read", "write"}
        /\ hal.inIsr /\ hal.ctrl = "run" =>
              \E f : /\ <<f, hal.fw, hal.mask>> \in H
                     /\ Request(f).op \in {"read", "write"}

\* A step of the part keeps TypeOK.
LEMMA PartTypeStep ==
    ASSUME TypeInv, OnlyShimPolls, OnlyShimPolls', PartStep
    PROVE  TypeInv'
<1>1. OnThePart /\ phase' = phase /\ cursor' = cursor
  BY DEF PartStep, PartAccess, PartRecord, PartReturn, PartQuiet, NvicEnters,
         HandlerAccess, HandlerLeaves, MainRuns, UNCHANGED_replay
<1>2. IsMachine(hal') /\ phase = "record" /\ IsSeq(trace) /\ Len(trace) \in Nat
      /\ cursor \in 0 .. Len(trace)
  BY <1>1, AppendFacts DEF OnlyShimPolls, TypeInv, TypeOK, OnThePart
<1>3. \/ trace' = trace
      \/ \E e : trace' = Append(trace, e) /\ e.type \in {"read", "write", "irq"}
  <2>1. ASSUME NEW v, trace' = TraceOfAccess(hal, v)
        PROVE  \/ trace' = trace
               \/ \E e : trace' = Append(trace, e) /\ e.type \in {"read", "write", "irq"}
    BY <2>1 DEF TraceOfAccess, Event
  <2>2. CASE PartAccess \/ PartReturn \/ PartQuiet \/ HandlerLeaves
    BY <2>2 DEF PartAccess, PartReturn, PartQuiet, HandlerLeaves
  <2>3. CASE PartRecord
    BY <2>1, <2>3 DEF PartRecord
  <2>4. CASE HandlerAccess
    BY <2>1, <2>4 DEF HandlerAccess
  <2>5. CASE NvicEnters
    BY <2>5 DEF NvicEnters, Event
  <2> QED
    BY <2>2, <2>3, <2>4, <2>5 DEF PartStep
<1>4. CASE trace' = trace
  BY <1>1, <1>2, <1>4, MachineFields DEF TypeInv, TypeOK
<1>5. ASSUME NEW e, trace' = Append(trace, e), e.type \in {"read", "write", "irq"}
      PROVE  TypeInv'
  BY <1>1, <1>2, <1>5, TraceGrows, MachineFields DEF TypeInv, TypeOK, EventTypes
<1> QED
  BY <1>3, <1>4, <1>5

\* The main loop goes on,
LEMMA MainGoesOn ==
    ASSUME NEW F, NEW H, NEW V, HandlersComeBack(F, H, V), NEW v \in V, NEW f \in F
    PROVE  /\ Request(f).op # "halt" => Resume(f, v) \in F
           /\ \A i \in Handled : <<f, EnterIsr(f, i), 0>> \in H
BY DEF HandlersComeBack

\* and so does a handler.
LEMMA HandlerGoesOn ==
    ASSUME NEW F, NEW H, NEW V, HandlersComeBack(F, H, V), NEW v \in V,
           NEW f, NEW g, NEW d, <<f, g, d>> \in H, NEW r, r = Resume(g, v)
    PROVE  /\ Request(g).op = "disable" => <<f, r, d + 1>> \in H
           /\ Request(g).op = "enable" => <<f, r, IF d > 0 THEN d - 1 ELSE 0>> \in H
           /\ Request(g).op \notin {"iret", "disable", "enable"} => <<f, r, d>> \in H
<1> DEFINE Q(e, h, c, w) ==
             LET s == Resume(h, w) IN
             CASE Request(h).op = "iret" ->
                      e \in F /\ s \in F /\ Request(s).op = Request(e).op
               [] Request(h).op = "disable" -> <<e, s, c + 1>> \in H
               [] Request(h).op = "enable" ->
                      <<e, s, IF c > 0 THEN c - 1 ELSE 0>> \in H
               [] OTHER -> <<e, s, c>> \in H
<1>1. \A e, h, c : <<e, h, c>> \in H => \A w \in V : Q(e, h, c, w)
  BY DEF HandlersComeBack
<1> HIDE DEF Q
<1>2. Q(f, g, d, v)
  BY <1>1
<1> QED
  BY <1>2 DEF Q

\* which ends in the call of the main loop.
LEMMA HandlerLeft ==
    ASSUME NEW F, NEW H, NEW V, HandlersComeBack(F, H, V), NEW v \in V,
           NEW f, NEW g, NEW d, <<f, g, d>> \in H, NEW r, r = Resume(g, v),
           Request(g).op = "iret"
    PROVE  f \in F /\ r \in F /\ Request(r).op = Request(f).op
<1> DEFINE Q(e, h, w) ==
             LET s == Resume(h, w) IN
             Request(h).op = "iret" =>
                 e \in F /\ s \in F /\ Request(s).op = Request(e).op
<1>1. \A e, h, c : <<e, h, c>> \in H => \A w \in V : Q(e, h, w)
  BY DEF HandlersComeBack
<1> HIDE DEF Q
<1>2. Q(f, g, v)
  BY <1>1
<1> QED
  BY <1>2 DEF Q

\* A step of the part, while the handler holds the main loop's call.
LEMMA SuspendedStep ==
    ASSUME NEW F, NEW H, NEW V, NEW D, HandlersComeBack(F, H, V), AnswersWith(D, V),
           IsSeq(trace), OnlyShimPolls, Suspended(F, H, V, D), PartStep
    PROVE  Suspended(F, H, V, D)'
<1>1. OnThePart /\ OnThePart' /\ NeverPolls(hal) /\ 0 \in V /\ dev \in D
      /\ flight.value \in V
  <2>1. OnThePart /\ phase' = phase /\ backend' = backend
    BY DEF PartStep, PartAccess, PartRecord, PartReturn, PartQuiet, NvicEnters,
           HandlerAccess, HandlerLeaves, MainRuns, UNCHANGED_replay, hwvars
  <2> QED
    BY <2>1 DEF OnThePart, OnlyShimPolls, Suspended, HandlersComeBack
<1>2. ASSUME NEW e, trace' = Append(trace, e)
      PROVE  /\ (\E k \in 1 .. Len(trace) : trace[k].type = "irq") =>
                   \E k \in 1 .. Len(trace') : trace'[k].type = "irq"
             /\ e.type = "irq" => \E k \in 1 .. Len(trace') : trace'[k].type = "irq"
  <2>1. /\ Len(trace) \in Nat /\ Len(trace') = Len(trace) + 1
        /\ \A k \in 1 .. Len(trace) : trace'[k] = trace[k]
        /\ trace'[Len(trace) + 1] = e
    BY <1>2, AppendFacts
  <2>2. Len(trace) + 1 \in 1 .. Len(trace')
    BY <2>1
  <2>3. ASSUME NEW k \in 1 .. Len(trace)
        PROVE  k \in 1 .. Len(trace') /\ trace'[k] = trace[k]
    BY <2>1
  <2> QED
    BY <2>1, <2>2, <2>3
<1>3. ASSUME NEW v, trace' = TraceOfAccess(hal, v),
             \E k \in 1 .. Len(trace) : trace[k].type = "irq"
      PROVE  \E k \in 1 .. Len(trace') : trace'[k].type = "irq"
  BY <1>2, <1>3 DEF TraceOfAccess
<1>4. /\ \A v : Return(hal, v).fw = Resume(hal.fw, v) /\ Return(hal, v).ctrl = "run"
      /\ \A i : /\ i \in Handled => Dispatch(hal, i).fw = EnterIsr(hal.fw, i)
                /\ i \notin Handled => Dispatch(hal, i) = hal
  BY <1>1 DEF NeverPolls, IsMachine, Return, Dispatch
<1>5. CASE PartAccess
  <2>1. /\ ~active /\ UNCHANGED <<hal, trace, active, landed>>
        /\ (Reading(hal) \/ Writing(hal)) /\ hal.fw \in F
    BY <1>1, <1>5 DEF PartAccess, MainRuns, Suspended
  <2>2. \E v \in V : dev' \in D /\ flight' = [at |-> "made", value |-> v]
    BY <1>1, <1>5 DEF PartAccess, AnswersWith
  <2>3. flight'.at = "made" /\ flight'.value \in V /\ dev' \in D
    BY <2>2
  <2> QED
    BY <1>1, <2>1, <2>3 DEF Suspended, Reading, Writing, Op
<1>6. CASE PartRecord
  <2>1. /\ ~active /\ UNCHANGED <<hal, dev, active, landed>> /\ flight # NoFlight
        /\ flight' = [flight EXCEPT !.at = "recorded"]
    BY <1>6 DEF PartRecord, NoFlight
  <2> QED
    BY <1>1, <2>1 DEF Suspended, Reading, Writing, Op
<1>7. CASE PartReturn
  <2>1. /\ ~active /\ UNCHANGED <<dev, active, landed, trace>> /\ flight # NoFlight
        /\ flight' = NoFlight /\ hal' = Return(hal, flight.value)
    BY <1>7 DEF PartReturn, NoFlight, GoTo
  <2>2. hal.fw \in F /\ Request(hal.fw).op # "halt"
    BY <1>1, <2>1 DEF Suspended, Reading, Writing, Op
  <2>3. hal'.fw \in F
    BY <1>1, <1>4, <2>1, <2>2, MainGoesOn
  <2>4. flight'.at = "none" /\ flight'.value \in V
    BY <1>1, <2>1 DEF NoFlight
  <2> QED
    BY <1>1, <2>1, <2>3, <2>4 DEF Suspended
<1>8. CASE PartQuiet
  <2>1. /\ UNCHANGED <<dev, active, landed, trace, flight>> /\ Quiet(hal)
        /\ hal' = AfterQuiet(hal) /\ (active \/ flight = NoFlight)
    BY <1>8 DEF PartQuiet, GoTo, hwvars
  <2>2. Request(hal.fw).op \in {"step", "disable", "enable"}
    BY <1>1, <2>1 DEF Quiet, NeverPolls, Op
  <2>3. hal'.fw = Resume(hal.fw, 0)
    BY <1>1, <2>1, <2>2 DEF NeverPolls, IsMachine, AfterQuiet, Op, Return, IrqDisable, IrqEnable
  <2>4. CASE active
    <3>1. PICK f, d : /\ <<f, hal.fw, d>> \in H
                      /\ flight # NoFlight => Request(f).op \in {"read", "write"}
      BY <1>1, <2>4 DEF Suspended
    <3>2. PICK g, r, v : g = hal.fw /\ r = hal'.fw /\ v = 0
      OBVIOUS
    <3>3. <<f, g, d>> \in H /\ r = Resume(g, v) /\ v \in V
      BY <1>1, <2>3, <3>1, <3>2
    <3>4. \E c : <<f, r, c>> \in H
      <4>1. /\ Request(g).op = "disable" => <<f, r, d + 1>> \in H
            /\ Request(g).op = "enable" => <<f, r, IF d > 0 THEN d - 1 ELSE 0>> \in H
            /\ Request(g).op \notin {"iret", "disable", "enable"} => <<f, r, d>> \in H
        BY <3>3, HandlerGoesOn
      <4> QED
        BY <2>2, <3>2, <4>1
    <3> QED
      BY <1>1, <2>1, <2>4, <3>1, <3>2, <3>4 DEF Suspended
  <2>5. CASE ~active
    <3>1. hal'.fw \in F
      BY <1>1, <2>2, <2>3, <2>5, MainGoesOn DEF Suspended
    <3> QED
      BY <1>1, <2>1, <2>5, <3>1 DEF Suspended
  <2> QED
    BY <2>4, <2>5
<1>9. CASE NvicEnters
  <2>1. PICK p \in DevPoll(dev) :
           /\ dev' = p.dev /\ trace' = Append(trace, Event("irq", p.dev, p.vector, 0))
           /\ hal' = Dispatch(hal, p.vector) /\ active' = (p.vector \in Handled)
    BY <1>9 DEF NvicEnters, GoTo
  <2>2. /\ ~active /\ flight' = flight /\ landed' \in {"behind", "hidden", "masked", "between"}
        /\ dev' \in D /\ hal.fw \in F /\ flight.at \in {"none", "made", "recorded"}
        /\ flight # NoFlight => Reading(hal) \/ Writing(hal)
    BY <1>1, <1>9, <2>1 DEF NvicEnters, Landing, Suspended, AnswersWith
  <2>3. \E k \in 1 .. Len(trace') : trace'[k].type = "irq"
    BY <1>2, <2>1 DEF Event
  <2>4. CASE p.vector \in Handled
    <3>1. <<hal.fw, hal'.fw, 0>> \in H
      <4>1. hal'.fw = EnterIsr(hal.fw, p.vector)
        BY <1>4, <2>1, <2>4
      <4>2. <<hal.fw, EnterIsr(hal.fw, p.vector), 0>> \in H
        BY <1>1, <2>2, <2>4, MainGoesOn
      <4> QED
        BY <4>1, <4>2
    <3>2. flight # NoFlight => Request(hal.fw).op \in {"read", "write"}
      BY <2>2 DEF Reading, Writing, Op
    <3> QED
      BY <1>1, <2>1, <2>2, <2>3, <2>4, <3>1, <3>2 DEF Suspended
  <2>5. CASE p.vector \notin Handled
    <3>1. hal' = hal
      BY <1>4, <2>1, <2>5
    <3> QED
      BY <1>1, <2>1, <2>2, <2>3, <2>5, <3>1 DEF Suspended, Reading, Writing, Op
  <2> QED
    BY <2>4, <2>5
<1>10. CASE HandlerAccess
  <2>1. /\ active /\ UNCHANGED <<active, landed, flight>> /\ (Reading(hal) \/ Writing(hal))
        /\ \E v \in V : /\ hal' = Return(hal, v) /\ trace' = TraceOfAccess(hal, v)
                        /\ dev' \in D
    BY <1>1, <1>10 DEF HandlerAccess, GoTo, AnswersWith, hwvars
  <2>2. PICK v \in V : /\ hal' = Return(hal, v) /\ trace' = TraceOfAccess(hal, v)
                       /\ dev' \in D
    BY <2>1
  <2>3. PICK f, d : /\ <<f, hal.fw, d>> \in H
                    /\ flight # NoFlight => Request(f).op \in {"read", "write"}
    BY <1>1, <2>1 DEF Suspended
  <2>4. <<f, hal'.fw, d>> \in H
    <3>1. PICK g, r : g = hal.fw /\ r = hal'.fw
      OBVIOUS
    <3>2. /\ <<f, g, d>> \in H /\ r = Resume(g, v)
          /\ Request(g).op \notin {"iret", "disable", "enable"}
      BY <1>4, <2>1, <2>2, <2>3, <3>1 DEF Reading, Writing, Op
    <3>3. <<f, r, d>> \in H
      BY <3>2, HandlerGoesOn
    <3> QED
      BY <3>1, <3>3
  <2>5. \E k \in 1 .. Len(trace') : trace'[k].type = "irq"
    BY <1>3, <2>1, <2>2 DEF Suspended
  <2> QED
    BY <1>1, <2>1, <2>2, <2>3, <2>4, <2>5 DEF Suspended
<1>11. CASE HandlerLeaves
  <2>1. /\ active /\ ~active' /\ UNCHANGED <<trace, dev, landed, flight>>
        /\ Request(hal.fw).op = "iret" /\ hal' = Return(hal, 0)
    BY <1>11 DEF HandlerLeaves, GoTo, Op
  <2>2. PICK f, d : /\ <<f, hal.fw, d>> \in H
                    /\ flight # NoFlight => Request(f).op \in {"read", "write"}
    BY <1>1, <2>1 DEF Suspended
  <2>3. hal'.fw \in F /\ Request(hal'.fw).op = Request(f).op /\ hal'.ctrl = "run"
    <3>1. PICK g, r, v : g = hal.fw /\ r = hal'.fw /\ v = 0
      OBVIOUS
    <3>2. <<f, g, d>> \in H /\ r = Resume(g, v) /\ Request(g).op = "iret" /\ v \in V
      BY <1>1, <1>4, <2>1, <2>2, <3>1
    <3>3. r \in F /\ Request(r).op = Request(f).op
      BY <3>2, HandlerLeft
    <3> QED
      BY <1>4, <2>1, <3>1, <3>3
  <2> QED
    BY <1>1, <2>1, <2>2, <2>3 DEF Suspended, Reading, Writing, Op
<1> QED
  BY <1>5, <1>6, <1>7, <1>8, <1>9, <1>10, <1>11 DEF PartStep

\* The shim's steps leave that alone.
LEMMA SuspendedKept ==
    ASSUME NEW F, NEW H, NEW V, NEW D, IsSeq(trace), OnlyShimPolls, Suspended(F, H, V, D),
           ShimStep \/ UNCHANGED <<vars, hwvars>>
    PROVE  Suspended(F, H, V, D)'
<1>1. CASE UNCHANGED <<vars, hwvars>>
  BY <1>1 DEF vars, hwvars, Suspended, OnThePart, Reading, Writing, Op
<1>2. CASE ShimStep
  <2>1. UNCHANGED hwvars
    BY <1>2 DEF ShimStep
  <2>2. ~OnThePart' /\ active = FALSE /\ flight = NoFlight
    <3>1. CASE backend = "sim" /\ RecordStep
      BY <2>1, <3>1 DEF OnThePart, Suspended, hwvars
    <3>2. CASE MainRuns /\ StopAndReplay
      BY <3>2 DEF MainRuns, StopAndReplay, OnThePart, Suspended
    <3>3. CASE ReplayStep
      <4>1. phase = "replay" /\ phase' # "record"
        BY <3>3 DEF ReplayStep, ReplayRead, ReplayWrite, ReplayIrq, ReplayNoIrq,
                    ReplayQuiet, ReplayEnds, UNCHANGED_record
      <4> QED
        BY <4>1 DEF OnThePart, Suspended
    <3> QED
      BY <1>2, <3>1, <3>2, <3>3 DEF ShimStep
  <2> QED
    BY <2>1, <2>2 DEF Suspended, hwvars
<1> QED
  BY <1>1, <1>2

\* For every firmware whose handlers come back, and every device: on the part the
\* shim never polls while it records, a handler the NVIC entered shows in the trace,
\* and the main loop is still at its access when the access is recorded and returns.
THEOREM HardwareTypeCorrect ==
    ASSUME NEW F, NEW H, NEW V, NEW D, HandlersComeBack(F, H, V), AnswersWith(D, V)
    PROVE  HardwareSpec => []HardwareTypeOK
<1> DEFINE HwInv == TypeInv /\ OnlyShimPolls /\ Suspended(F, H, V, D)
<1>1. HardwareInit => HwInv
  <2> SUFFICES ASSUME HardwareInit PROVE HwInv
    OBVIOUS
  <2>1. hal = Start(from) /\ from \in F /\ dev \in D /\ 0 \in V
    BY DEF HardwareInit, Init, HandlersComeBack, AnswersWith
  <2>2. OnlyShimPolls /\ hal.fw \in F
    BY <2>1, StartIsMachine DEF OnlyShimPolls, NeverPolls, Start
  <2>3. Suspended(F, H, V, D)
    BY <2>1, <2>2 DEF HardwareInit, Suspended, NoFlight
  <2> QED
    BY <2>2, <2>3, TypeInvInit DEF HardwareInit
<1>2. HwInv /\ [HardwareNext]_<<vars, hwvars>> => HwInv'
  <2> SUFFICES ASSUME HwInv, [HardwareNext]_<<vars, hwvars>> PROVE HwInv'
    OBVIOUS
  <2>1. OnlyShimPolls' /\ IsSeq(trace)
    BY OnlyShimPollsStep DEF TypeInv
  <2>2. CASE PartStep
    BY <2>1, <2>2, PartTypeStep, SuspendedStep
  <2>3. CASE ShimStep \/ UNCHANGED <<vars, hwvars>>
    <3>1. [Next]_vars
      BY <2>3 DEF ShimStep, RecordStep, Next, vars
    <3>2. TypeInv'
      BY <3>1, TypeInvStep
    <3> QED
      BY <2>1, <2>3, <3>2, SuspendedKept
  <2> QED
    BY <2>2, <2>3 DEF HardwareNext
<1>3. HwInv => HardwareTypeOK
  <2> SUFFICES ASSUME HwInv PROVE HardwareTypeOK
    OBVIOUS
  <2>1. OnThePart => ~hal.inIsr
    BY DEF OnlyShimPolls, NeverPolls
  <2> QED
    BY <2>1 DEF HardwareTypeOK, TypeInv, Suspended
<1> QED
  BY <1>1, <1>2, <1>3, PTL DEF HardwareSpec

\* A step of the shim while it records.
LEMMA NestedStep ==
    ASSUME NEW F, NEW H, NEW V, NEW D, HandlersComeBack(F, H, V), HandlersUnmask(H),
           AnswersWith(D, V), IsMachine(hal), Nested(F, H, V, D), backend = "sim",
           backend' = backend, RecordStep
    PROVE  Nested(F, H, V, D)'
<1>1. /\ hal = [fw |-> hal.fw, mask |-> hal.mask, inIsr |-> hal.inIsr, ctrl |-> hal.ctrl,
                ret |-> hal.ret]
      /\ hal.mask \in Nat /\ hal.inIsr \in BOOLEAN /\ hal.ctrl \in {"run", "pump"}
      /\ hal.ctrl = "pump" => hal.inIsr
  BY DEF IsMachine
<1>2. phase = "record" /\ 0 \in V /\ dev \in D
  <2>1. phase = "record"
    BY DEF RecordStep, RecordRead, RecordWrite, RecordIrq, RecordNoIrq, RecordQuiet,
           StopAndReplay
  <2> QED
    BY <2>1 DEF HandlersComeBack, Nested
<1>3. CASE RecordRead \/ RecordWrite
  <2>1. (Reading(hal) \/ Writing(hal)) /\ \E v \in V : hal' = Pump(hal, v) /\ dev' \in D
    BY <1>2, <1>3 DEF RecordRead, RecordWrite, GoTo, AnswersWith
  <2>2. PICK v \in V : hal' = Pump(hal, v) /\ dev' \in D
    BY <2>1
  <2>3. Request(hal.fw).op \in {"read", "write"} /\ hal.ctrl = "run"
    BY <2>1 DEF Reading, Writing, Op
  <2>4. CASE ~hal.inIsr /\ hal.mask > 0
    <3>1. hal'.fw = Resume(hal.fw, v) /\ hal'.inIsr = hal.inIsr /\ hal'.ctrl = "run"
      BY <1>1, <2>2, <2>3, <2>4 DEF Pump, Return
    <3>2. hal'.fw \in F
      BY <1>2, <2>3, <2>4, <3>1, MainGoesOn DEF Nested
    <3> QED
      BY <2>2, <2>4, <3>1, <3>2 DEF Nested
  <2>5. CASE ~hal.inIsr /\ ~(hal.mask > 0)
    <3>1. /\ hal'.fw = hal.fw /\ hal'.inIsr = TRUE /\ hal'.ctrl = "pump" /\ hal'.ret = v
          /\ hal'.mask = 0
      BY <1>1, <2>2, <2>5 DEF Pump
    <3>2. hal'.fw \in F
      BY <1>2, <2>5, <3>1 DEF Nested
    <3> QED
      BY <2>2, <2>3, <3>1, <3>2 DEF Nested
  <2>6. CASE hal.inIsr
    <3>1. /\ hal'.fw = Resume(hal.fw, v) /\ hal'.inIsr = TRUE /\ hal'.ctrl = "run"
          /\ hal'.mask = hal.mask /\ hal'.ret = hal.ret
      BY <1>1, <2>2, <2>3, <2>6 DEF Pump, Return
    <3>2. PICK f : <<f, hal.fw, hal.mask>> \in H /\ Request(f).op \in {"read", "write"}
      BY <1>2, <2>3, <2>6 DEF Nested
    <3>3. <<f, hal'.fw, hal'.mask>> \in H
      <4>1. PICK g, r, d : g = hal.fw /\ r = hal'.fw /\ d = hal.mask
        OBVIOUS
      <4>2. /\ <<f, g, d>> \in H /\ r = Resume(g, v)
            /\ Request(g).op \notin {"iret", "disable", "enable"}
        BY <2>3, <3>1, <3>2, <4>1
      <4>3. <<f, r, d>> \in H
        BY <4>2, HandlerGoesOn
      <4> QED
        BY <3>1, <4>1, <4>3
    <3> QED
      BY <1>2, <2>2, <2>6, <3>1, <3>2, <3>3 DEF Nested
  <2> QED
    BY <2>4, <2>5, <2>6
<1>4. CASE RecordIrq
  <2>1. PICK p \in DevPoll(dev) : hal' = Dispatch(hal, p.vector) /\ dev' \in D
    BY <1>2, <1>4 DEF RecordIrq, GoTo, AnswersWith
  <2>2. /\ hal.ctrl = "pump" /\ hal.inIsr /\ hal.fw \in F /\ hal.mask = 0
        /\ hal.ret \in V /\ Request(hal.fw).op \in {"read", "write"}
    BY <1>1, <1>2, <1>4 DEF RecordIrq, Polling, Nested
  <2>3. CASE p.vector \in Handled
    <3>1. /\ hal'.fw = EnterIsr(hal.fw, p.vector) /\ hal'.mask = 0 /\ hal'.inIsr = TRUE
          /\ hal'.ctrl = "run" /\ hal'.ret = hal.ret
      BY <1>1, <2>1, <2>2, <2>3 DEF Dispatch
    <3>2. <<hal.fw, EnterIsr(hal.fw, p.vector), 0>> \in H
      BY <1>2, <2>2, <2>3, MainGoesOn
    <3> QED
      BY <2>1, <2>2, <3>1, <3>2 DEF Nested
  <2>4. CASE p.vector \notin Handled
    <3>1. hal' = hal
      BY <2>1, <2>4 DEF Dispatch
    <3> QED
      BY <2>1, <2>2, <3>1 DEF Nested
  <2> QED
    BY <2>3, <2>4
<1>5. CASE RecordNoIrq
  <2>1. hal' = PumpDone(hal) /\ dev' \in D
    BY <1>2, <1>5 DEF RecordNoIrq, GoTo, AnswersWith
  <2>2. /\ hal.ctrl = "pump" /\ hal.fw \in F /\ hal.ret \in V
        /\ Request(hal.fw).op \in {"read", "write"}
    BY <1>1, <1>2, <1>5 DEF RecordNoIrq, Polling, Nested
  <2>3. hal'.fw = Resume(hal.fw, hal.ret) /\ ~hal'.inIsr /\ hal'.ctrl = "run"
    BY <1>1, <2>1 DEF PumpDone
  <2>4. hal'.fw \in F
    BY <2>2, <2>3, MainGoesOn
  <2> QED
    BY <2>1, <2>3, <2>4 DEF Nested
<1>6. CASE RecordQuiet
  <2>1. Quiet(hal) /\ hal' = AfterQuiet(hal) /\ dev' \in D /\ hal.ctrl = "run"
    BY <1>2, <1>6 DEF RecordQuiet, GoTo, Quiet
  <2>2. PICK g, r, v : g = hal.fw /\ r = Resume(g, v) /\ v = 0
    OBVIOUS
  <2>3. v \in V
    BY <1>2, <2>2
  <2>4. CASE Op(hal) \in {"step", "disable", "enable"}
    <3>1. PICK d, e : /\ d = hal.mask
                      /\ e = CASE Op(hal) = "step" -> d
                               [] Op(hal) = "disable" -> d + 1
                               [] Op(hal) = "enable" -> IF d > 0 THEN d - 1 ELSE 0
      OBVIOUS
    <3>2. AfterQuiet(hal) = [hal EXCEPT !.fw = r, !.mask = e]
      <4>1. CASE Op(hal) = "step"
        <5>1. AfterQuiet(hal) = [hal EXCEPT !.fw = r] /\ e = hal.mask
          BY <2>2, <3>1, <4>1 DEF AfterQuiet, Return
        <5> QED
          BY <1>1, <5>1
      <4>2. CASE Op(hal) = "disable"
        BY <2>2, <3>1, <4>2 DEF AfterQuiet, IrqDisable
      <4>3. CASE Op(hal) = "enable"
        BY <2>2, <3>1, <4>3 DEF AfterQuiet, IrqEnable
      <4> QED
        BY <2>4, <4>1, <4>2, <4>3
    <3>3. /\ hal'.fw = r /\ hal'.mask = e /\ hal'.inIsr = hal.inIsr
          /\ hal'.ctrl = "run" /\ hal'.ret = hal.ret
      BY <1>1, <2>1, <3>2
    <3>4. CASE ~hal.inIsr
      <4>1. g \in F /\ Request(g).op # "halt"
        BY <1>2, <2>2, <2>4, <3>4 DEF Nested, Op
      <4>2. r \in F
        BY <2>2, <2>3, <4>1, MainGoesOn
      <4> QED
        BY <2>1, <3>3, <3>4, <4>2 DEF Nested
    <3>5. CASE hal.inIsr
      <4>1. PICK f : <<f, g, d>> \in H /\ Request(f).op \in {"read", "write"}
        BY <1>2, <2>1, <2>2, <3>1, <3>5 DEF Nested
      <4>2. /\ Request(g).op = "disable" => <<f, r, d + 1>> \in H
            /\ Request(g).op = "enable" => <<f, r, IF d > 0 THEN d - 1 ELSE 0>> \in H
            /\ Request(g).op \notin {"iret", "disable", "enable"} => <<f, r, d>> \in H
        BY <2>2, <2>3, <4>1, HandlerGoesOn
      <4>3. <<f, r, e>> \in H
        BY <2>2, <2>4, <3>1, <4>2 DEF Op
      <4> QED
        BY <1>2, <2>1, <3>3, <3>5, <4>1, <4>3 DEF Nested
    <3> QED
      BY <3>4, <3>5
  <2>5. CASE Op(hal) = "iret" /\ hal.inIsr
    <3>1. PICK d : d = hal.mask
      OBVIOUS
    <3>2. PICK f : <<f, g, d>> \in H /\ Request(f).op \in {"read", "write"}
      BY <1>2, <2>1, <2>2, <2>5, <3>1 DEF Nested
    <3>3. Request(g).op = "iret"
      BY <2>2, <2>5 DEF Op
    <3>4. r \in F /\ Request(r).op = Request(f).op
      BY <2>2, <2>3, <3>2, <3>3, HandlerLeft
    <3>5. d = 0
      BY <3>2, <3>3 DEF HandlersUnmask
    <3>6. /\ hal'.fw = r /\ hal'.ctrl = "pump" /\ hal'.inIsr = TRUE
          /\ hal'.mask = d /\ hal'.ret = hal.ret
      <4>1. AfterQuiet(hal) = [hal EXCEPT !.fw = r, !.ctrl = "pump"]
        BY <2>2, <2>5 DEF AfterQuiet, HandlerReturn
      <4> QED
        BY <1>1, <2>1, <2>5, <3>1, <4>1
    <3> QED
      BY <1>2, <2>1, <2>5, <3>2, <3>4, <3>5, <3>6 DEF Nested
  <2> QED
    BY <2>1, <2>4, <2>5 DEF Quiet
<1>7. CASE StopAndReplay
  BY <1>7 DEF StopAndReplay, Nested
<1> QED
  BY <1>3, <1>4, <1>5, <1>6, <1>7 DEF RecordStep

\* "While masked, no interrupt is dispatched -- and none is recorded" (hal.h): of
\* every firmware whose handlers come back with the mask as they found it, and every
\* device, the shim records an interrupt only while the mask depth is zero; the loop
\* of pump_irqs, which looks at it only once, goes on polling behind such handlers.
THEOREM NoMaskedIrqCorrect ==
    ASSUME NEW F, NEW H, NEW V, NEW D, HandlersComeBack(F, H, V), HandlersUnmask(H),
           AnswersWith(D, V)
    PROVE  HardwareSpec => NoMaskedIrq
<1> DEFINE MaskInv == OnlyShimPolls /\ backend \in {"sim", "part"} /\ Nested(F, H, V, D)
<1>1. HardwareInit => MaskInv
  <2> SUFFICES ASSUME HardwareInit PROVE MaskInv
    OBVIOUS
  <2>1. hal = Start(from) /\ from \in F /\ dev \in D
    BY DEF HardwareInit, Init, HandlersComeBack, AnswersWith
  <2>2. OnlyShimPolls /\ hal.fw \in F /\ ~hal.inIsr /\ hal.ctrl = "run"
    BY <2>1, StartIsMachine DEF OnlyShimPolls, NeverPolls, Start
  <2> QED
    BY <2>1, <2>2, BackendsAssumption DEF HardwareInit, Nested
<1>2. MaskInv /\ [HardwareNext]_<<vars, hwvars>> => MaskInv'
  <2> SUFFICES ASSUME MaskInv, [HardwareNext]_<<vars, hwvars>> PROVE MaskInv'
    OBVIOUS
  <2>1. OnlyShimPolls'
    BY OnlyShimPollsStep
  <2>2. backend' = backend
    BY DEF HardwareNext, PartStep, PartAccess, PartRecord, PartReturn, PartQuiet, NvicEnters,
           HandlerAccess, HandlerLeaves, ShimStep, hwvars
  <2>3. Nested(F, H, V, D)'
    <3>1. CASE backend = "sim" /\ RecordStep
      BY <2>2, <3>1, NestedStep DEF OnlyShimPolls
    <3>2. CASE PartStep
      <4>1. backend = "part"
        BY <3>2 DEF PartStep, PartAccess, PartRecord, PartReturn, PartQuiet, NvicEnters,
                    HandlerAccess, HandlerLeaves, MainRuns, OnThePart
      <4> QED
        BY <2>2, <4>1 DEF Nested
    <3>3. CASE StopAndReplay \/ ReplayStep
      <4>1. phase' # "record"
        BY <3>3 DEF StopAndReplay, ReplayStep, ReplayRead, ReplayWrite, ReplayIrq,
                    ReplayNoIrq, ReplayQuiet, ReplayEnds, UNCHANGED_record
      <4> QED
        BY <4>1 DEF Nested
    <3>4. CASE UNCHANGED <<vars, hwvars>>
      BY <3>4 DEF vars, hwvars, Nested
    <3> QED
      BY <3>1, <3>2, <3>3, <3>4 DEF HardwareNext, ShimStep
  <2> QED
    BY <2>1, <2>2, <2>3
<1>3. MaskInv => [RecordIrq => hal.mask = 0]_vars
  <2> SUFFICES ASSUME MaskInv, RecordIrq PROVE hal.mask = 0
    OBVIOUS
  <2>1. phase = "record" /\ hal.ctrl = "pump"
    BY DEF RecordIrq, Polling
  <2>2. backend = "sim"
    BY <2>1 DEF OnlyShimPolls, OnThePart, NeverPolls
  <2> QED
    BY <2>1, <2>2 DEF Nested
<1> QED
  BY <1>1, <1>2, <1>3, PTL DEF HardwareSpec, NoMaskedIrq
================================================================================
