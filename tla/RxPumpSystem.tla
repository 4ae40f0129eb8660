----------------------------- MODULE RxPumpSystem ------------------------------
(****************************************************************************)
(* The example firmware on the simulated microcontroller, recorded and      *)
(* replayed.  The cfg of a run gives RecordReplay's parameters the          *)
(* operators of RxPump and Mcu; here are the properties that speak of the   *)
(* firmware's variables and the device's together.                          *)
(****************************************************************************)
EXTENDS RecordReplay, RxPump, Mcu

Recording == phase = "record"

\* Bytes this pass of the drain loop has taken from the ring and pending still
\* counts.
Taken(f) ==
    CASE f.pc = "take"                     -> f.i
      [] f.pc \in {"stamp", "show"}        -> f.i + 1
      [] f.pc \in {"mask_settle", "settle"} -> f.n
      [] OTHER                             -> 0

\* rx_pump.h, the fixed variant: wherever interrupts land, pending is the number
\* of bytes in the ring plus those the drain loop has taken and not yet settled.
PendingCountsTheRing ==
    Fixed(hal.fw) =>
        hal.fw.pending = Len(RingBytes(hal.fw)) + Taken(hal.fw)

\* Unless the ring overflowed, every byte the UART delivered is, in order,
\* consumed, in the ring, or still in the data register: equal checksums mean
\* the firmware saw all of the data (mcu.h).
EveryByteAccountedFor ==
    Recording /\ hal.fw.overflows = 0 =>
        dev.tx_checksum = hal.fw.checksum \o RingBytes(hal.fw)
                          \o (IF dev.rx_pending THEN <<dev.rx_byte>> ELSE <<>>)

\* "The first report latches" and "the mismatch is reported rather than quietly
\* producing a plausible wrong answer" (test_determinism.cpp), whichever variant
\* is replayed and for however many iterations: a replay that used up the
\* recording without a divergence handled the same bytes at the same times.
\* (pending may differ: a byte the buggy variant loses in its last pass leaves
\* no access in the trace by which the fixed variant could be told apart.)
SameWorkOrDivergence ==
    phase = "done" /\ divergence = "none" /\ cursor = Len(trace) - 1 =>
        LET recorded == path[Len(path)].m.fw IN
        FwState(hal.fw) = [FwState(recorded) EXCEPT !.pending = hal.fw.pending]

\* "running past the end of a trace is a divergence, not a guess": replaying
\* more iterations of the firmware than were recorded is always reported, and
\* the report is the first one made.
OverrunDiverges ==
    phase = "done" /\ from.iters > Recorded.iters
        /\ from.variant = Recorded.variant =>
            divergence = "past the end"
================================================================================
