---------------------------------- MODULE Mcu ----------------------------------
(****************************************************************************)
(* The simulated microcontroller of sim/src/mcu.cpp: a UART that delivers   *)
(* bytes in frames on its own schedule, a free-running cycle counter and an *)
(* output port.  Every access costs the same kMmioCost cycles, so time is   *)
(* counted in accesses; the pseudo-random byte values and jitters are       *)
(* nondeterministic choices from Bytes, ByteGaps and FrameGaps, and         *)
(* next_rx_cycle_ is kept as the accesses left until it.                    *)
(****************************************************************************)
EXTENDS Integers, Sequences

CONSTANTS
    Bytes,            \* the byte values the wire carries
    TxTotal,          \* bytes delivered over the run
    FrameLen,         \* kFrameLen, bytes per frame
    ByteGaps,         \* accesses between two bytes of a frame
    FrameGaps         \* accesses before the first byte of a frame

ASSUME McuAssumption ==
    /\ TxTotal \in Nat
    /\ FrameLen \in Nat \ {0}
    /\ ByteGaps \subseteq Nat \ {0} /\ FrameGaps \subseteq Nat \ {0}

McuInit ==
    {[cycles |-> 0, wait |-> w, frame_pos |-> 0, tx_sent |-> 0,
      tx_checksum |-> <<>>, odr |-> 0, rx_byte |-> 0, rx_pending |-> FALSE,
      irq_latched |-> FALSE] : w \in FrameGaps}

Elapse(d) ==
    [d EXCEPT !.cycles = @ + 1, !.wait = IF @ > 0 THEN @ - 1 ELSE 0]

\* A byte arrives only once the previous one has been read.
Due(d) == ~d.rx_pending /\ d.tx_sent < TxTotal /\ d.wait = 0

Arrivals(d) ==
    LET endsFrame == d.frame_pos + 1 >= FrameLen IN
    {[d EXCEPT !.rx_byte = byte, !.rx_pending = TRUE, !.irq_latched = TRUE,
               !.tx_checksum = Append(@, byte), !.tx_sent = @ + 1,
               !.frame_pos = IF endsFrame THEN 0 ELSE @ + 1,
               !.wait = gap] :
        byte \in Bytes, gap \in IF endsFrame THEN FrameGaps ELSE ByteGaps}

\* What advance(kMmioCost) may lead to.
Advance(d) ==
    LET e == Elapse(d) IN IF Due(e) THEN Arrivals(e) ELSE {e}

\* The outcomes of a read: the device after it, and the value read.
McuRead(d, addr) ==
    {[dev   |-> IF addr = "DR" THEN [e EXCEPT !.rx_pending = FALSE] ELSE e,
      value |-> CASE addr = "CNT" -> e.cycles
                  [] addr = "SR"  -> IF e.rx_pending THEN 1 ELSE 0
                  [] addr = "DR"  -> e.rx_byte
                  [] addr = "ODR" -> e.odr
                  [] OTHER        -> 0] : e \in Advance(d)}

McuWrite(d, addr, value) ==
    {IF addr = "ODR" THEN [e EXCEPT !.odr = value] ELSE e : e \in Advance(d)}

\* The outcomes of poll_irq: the latched edge is handed over once.
McuPoll(d) ==
    {IF d.irq_latched
     THEN [dev |-> [d EXCEPT !.irq_latched = FALSE], vector |-> 1]
     ELSE [dev |-> d, vector |-> -1]}

McuNow(d) == d.cycles
================================================================================
