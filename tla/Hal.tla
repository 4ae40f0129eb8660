---------------------------------- MODULE Hal ----------------------------------
(****************************************************************************)
(* The HAL shim of target/src/hal.cpp: every peripheral access of the       *)
(* firmware goes through it, and it is where an interrupt may land.         *)
(*                                                                          *)
(* The firmware is a parameter: a deterministic program seen as the calls   *)
(* it makes.  Request(f) is the call the firmware state f makes next,       *)
(* Resume(f, v) the state once that call has returned v, and EnterIsr(f, i) *)
(* the state as the handler of vector i starts.  A request is a record      *)
(* [op, addr, value] whose op is one of                                     *)
(*   "read", "write"       mmio_read32, mmio_write32                        *)
(*   "disable", "enable"   hal_irq_disable, hal_irq_enable                  *)
(*   "step"                code that makes no HAL call                      *)
(*   "iret"                the running handler returns to the shim          *)
(*   "halt"                the main loop returns                            *)
(*                                                                          *)
(* A machine is the firmware with the shim's scalars: mask is g_mask_depth, *)
(* inIsr is g_in_isr, ctrl says whether the firmware runs or pump_irqs is   *)
(* about to poll, and ret is the value an access holds while it pumps: the  *)
(* firmware sees it only once pump_irqs has returned.                       *)
(****************************************************************************)
EXTENDS Integers

CONSTANTS
    Request(_),
    Resume(_, _),
    EnterIsr(_, _),
    Handled           \* the vectors hal_set_isr installed a handler for

NoIrq == -1           \* kNoIrq

\* hal_reset, and a firmware state to run from.
Start(f) ==
    [fw |-> f, mask |-> 0, inIsr |-> FALSE, ctrl |-> "run", ret |-> 0]

Op(m) == Request(m.fw).op

\* The call the firmware is in returns v to it.
Return(m, v) == [m EXCEPT !.fw = Resume(m.fw, v)]

\* Slips the properties must catch: pump_irqs without its test of the mask, and
\* without setting g_in_isr.
PumpThroughMask(m, v) ==
    IF m.inIsr THEN Return(m, v)
    ELSE [m EXCEPT !.inIsr = TRUE, !.ctrl = "pump", !.ret = v]

PumpUnmarked(m, v) ==
    IF m.mask > 0 \/ m.inIsr THEN Return(m, v)
    ELSE [m EXCEPT !.ctrl = "pump", !.ret = v]

\* The end of an access that read v: pump_irqs is entered unless interrupts
\* are masked or a handler is running.  The two are tested here and not again
\* while the loop polls.
Pump(m, v) ==
    IF m.mask > 0 \/ m.inIsr
    THEN Return(m, v)
    ELSE [m EXCEPT !.inIsr = TRUE, !.ctrl = "pump", !.ret = v]

\* poll_irq answered vector i: its handler starts, if one is installed.
Dispatch(m, i) ==
    IF i \in Handled
    THEN [m EXCEPT !.fw = EnterIsr(m.fw, i), !.ctrl = "run"]
    ELSE m

\* poll_irq answered kNoIrq: the loop ends and the access returns.
PumpDone(m) ==
    [m EXCEPT !.fw = Resume(m.fw, m.ret), !.inIsr = FALSE, !.ctrl = "run",
              !.ret = 0]

IrqDisable(m) ==
    [m EXCEPT !.fw = Resume(m.fw, 0), !.mask = m.mask + 1]

IrqEnable(m) ==
    [m EXCEPT !.fw = Resume(m.fw, 0),
              !.mask = IF m.mask > 0 THEN m.mask - 1 ELSE 0]

\* A slip: one interrupt per access, an "if" for pump_irqs' loop.
HandlerReturnsToMain(m) ==
    [m EXCEPT !.fw = Resume(Resume(m.fw, 0), m.ret), !.ctrl = "run",
              !.inIsr = FALSE, !.ret = 0]

\* The handler returns into the pump loop, which polls again.
HandlerReturn(m) == [m EXCEPT !.fw = Resume(m.fw, 0), !.ctrl = "pump"]

\* The steps that reach no backend.
Quiet(m) ==
    /\ m.ctrl = "run"
    /\ \/ Op(m) \in {"step", "disable", "enable"}
       \/ Op(m) = "iret" /\ m.inIsr

AfterQuiet(m) ==
    CASE Op(m) = "step"    -> Return(m, 0)
      [] Op(m) = "disable" -> IrqDisable(m)
      [] Op(m) = "enable"  -> IrqEnable(m)
      [] Op(m) = "iret"    -> HandlerReturn(m)

Reading(m) == m.ctrl = "run" /\ Op(m) = "read"
Writing(m) == m.ctrl = "run" /\ Op(m) = "write"
Polling(m) == m.ctrl = "pump"
Halted(m)  == m.ctrl = "run" /\ ~m.inIsr /\ Op(m) = "halt"
================================================================================
