--------------------------------- MODULE RxPump --------------------------------
(****************************************************************************)
(* The example firmware, firmware/src/rx_pump.cpp, as the sequence of HAL   *)
(* calls it makes (see Hal): a UART handler puts bytes into a ring and      *)
(* counts them in pending, and the main loop drains the ring.  The variants *)
(* differ in what the main loop does to pending when it is done.            *)
(*                                                                          *)
(* A firmware state is fw::State (ring .. overflows) with the variant, the  *)
(* main loop's position and locals (pc, iters, n, i) and the handler's      *)
(* position (isr).  The checksum, an order-sensitive fold of the consumed   *)
(* bytes, is kept as the sequence it folds.                                 *)
(****************************************************************************)
EXTENDS Integers, Sequences

CONSTANT RingSize     \* kRingSize

ASSUME RingSizeAssumption == RingSize \in Nat \ {0, 1}

UartVector == 1       \* kIrqUartRx

\* rx_pump_reset, before a run of iters iterations.
FwReset(variant, iters) ==
    [ring |-> [k \in 0 .. RingSize - 1 |-> 0], head |-> 0, tail |-> 0,
     pending |-> 0, consumed |-> 0, checksum |-> <<>>, last_stamp |-> 0,
     overflows |-> 0,
     variant |-> variant, pc |-> "top", iters |-> iters, n |-> 0, i |-> 0,
     isr |-> "none"]

Fixed(f) == f.variant = "fixed"

Call(op, addr, value) == [op |-> op, addr |-> addr, value |-> value]

IsrRequest(f) ==
    CASE f.isr = "status" -> Call("read", "SR", 0)
      [] f.isr = "data"   -> Call("read", "DR", 0)
      [] f.isr = "leave"  -> Call("iret", "none", 0)

MainRequest(f) ==
    CASE f.pc \in {"mask_load", "mask_settle"}     -> Call("disable", "none", 0)
      [] f.pc \in {"unmask_load", "unmask_settle"} -> Call("enable", "none", 0)
      [] f.pc \in {"idle", "stamp"}                -> Call("read", "CNT", 0)
      [] f.pc = "show"                             -> Call("write", "ODR", f.consumed)
      [] f.pc \in {"top", "load", "take", "settle"} -> Call("step", "none", 0)
      [] f.pc = "end"                              -> Call("halt", "none", 0)

RxRequest(f) == IF f.isr = "none" THEN MainRequest(f) ELSE IsrRequest(f)

RxEnterIsr(f, vector) == [f EXCEPT !.isr = "status"]

\* A slip: the byte is stored one place on.
StoreByteAhead(f, byte) ==
    LET next == (f.head + 1) % RingSize IN
    IF next = f.tail THEN [f EXCEPT !.overflows = @ + 1, !.isr = "leave"]
    ELSE [f EXCEPT !.ring[next] = byte, !.head = next, !.pending = @ + 1,
                   !.isr = "leave"]

\* isr_uart_rx, from the end of each of its reads to the next.
StoreByte(f, byte) ==
    LET next == (f.head + 1) % RingSize IN
    IF next = f.tail
    THEN [f EXCEPT !.overflows = @ + 1, !.isr = "leave"]
    ELSE [f EXCEPT !.ring[f.head] = byte, !.head = next, !.pending = @ + 1,
                   !.isr = "leave"]

IsrResume(f, v) ==
    CASE f.isr = "status" -> [f EXCEPT !.isr = IF v = 1 THEN "data" ELSE "leave"]
      [] f.isr = "data"   -> StoreByte(f, v)
      [] f.isr = "leave"  -> [f EXCEPT !.isr = "none"]

\* The head of the main loop, and the read of pending it starts with.
Top(f) ==
    [f EXCEPT !.pc = IF f.iters = 0 THEN "end"
                     ELSE IF Fixed(f) THEN "mask_load" ELSE "load"]

Load(f) ==
    [f EXCEPT !.n = f.pending, !.i = 0,
              !.pc = IF Fixed(f) THEN "unmask_load"
                     ELSE IF f.pending = 0 THEN "idle" ELSE "take"]

Branch(f) == [f EXCEPT !.pc = IF f.n = 0 THEN "idle" ELSE "take"]

NextIteration(f) == [f EXCEPT !.iters = @ - 1, !.pc = "top", !.n = 0, !.i = 0]

\* consume_one, up to its first access; the stamp; and the loop around it.
Take(f) ==
    [f EXCEPT !.tail = (f.tail + 1) % RingSize,
              !.checksum = Append(@, f.ring[f.tail]),
              !.consumed = @ + 1, !.pc = "stamp"]

StampTaken(f, v) == [f EXCEPT !.last_stamp = v, !.pc = "show"]

Shown(f) ==
    [f EXCEPT !.i = @ + 1,
              !.pc = IF f.i + 1 < f.n THEN "take"
                     ELSE IF Fixed(f) THEN "mask_settle" ELSE "settle"]

\* A slip: the fixed variant clears pending as the buggy one does.
SettleByClearing(f) ==
    IF Fixed(f) THEN [f EXCEPT !.pending = 0, !.pc = "unmask_settle"]
    ELSE NextIteration([f EXCEPT !.pending = 0])

\* The two variants' last word on pending.
Settle(f) ==
    IF Fixed(f)
    THEN [f EXCEPT !.pending = @ - f.n, !.pc = "unmask_settle"]
    ELSE NextIteration([f EXCEPT !.pending = 0])

MainResume(f, v) ==
    CASE f.pc = "top"           -> Top(f)
      [] f.pc = "mask_load"     -> [f EXCEPT !.pc = "load"]
      [] f.pc = "load"          -> Load(f)
      [] f.pc = "unmask_load"   -> Branch(f)
      [] f.pc = "idle"          -> NextIteration(f)
      [] f.pc = "take"          -> Take(f)
      [] f.pc = "stamp"         -> StampTaken(f, v)
      [] f.pc = "show"          -> Shown(f)
      [] f.pc = "mask_settle"   -> [f EXCEPT !.pc = "settle"]
      [] f.pc = "settle"        -> Settle(f)
      [] f.pc = "unmask_settle" -> NextIteration(f)

RxResume(f, v) == IF f.isr = "none" THEN MainResume(f, v) ELSE IsrResume(f, v)

\* fw::State: what rx_pump_state() exposes and rx_pump_state_hash() folds.
FwState(f) ==
    [ring |-> f.ring, head |-> f.head, tail |-> f.tail, pending |-> f.pending,
     consumed |-> f.consumed, checksum |-> f.checksum,
     last_stamp |-> f.last_stamp, overflows |-> f.overflows]

\* rx_pump_restore, at the head of an iteration: the locals are dead there.
FwRestore(state, variant, iters) ==
    [ring |-> state.ring, head |-> state.head, tail |-> state.tail,
     pending |-> state.pending, consumed |-> state.consumed,
     checksum |-> state.checksum, last_stamp |-> state.last_stamp,
     overflows |-> state.overflows,
     variant |-> variant, pc |-> "top", iters |-> iters, n |-> 0, i |-> 0,
     isr |-> "none"]

\* The bytes waiting in the ring, oldest first.
RingBytes(f) ==
    [k \in 1 .. (f.head - f.tail) % RingSize |-> f.ring[(f.tail + k - 1) % RingSize]]
================================================================================
