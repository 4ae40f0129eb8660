------------------------------ MODULE RxPumpProofs -----------------------------
(****************************************************************************)
(* The example firmware behind the shim, for every ring, schedule, vector   *)
(* table and device: wherever interrupts land, the fixed variant's pending  *)
(* counts the ring and what the drain loop has taken from it; and, on the   *)
(* simulated part, no byte of a ring that did not overflow is lost.         *)
(*                                                                          *)
(* Both rest on where the handler can be: it starts only when pump_irqs     *)
(* polls behind an access of the main loop, so that under it the main loop  *)
(* stands at a read or a write (Placed), and the handler's accesses return  *)
(* to it at once, since pump_irqs does not nest.                            *)
(*                                                                          *)
(* And a replay of more iterations than were recorded is found out: up to   *)
(* the last look at the count it is the recording with more to go (Along),  *)
(* then it goes on where the recording ended (Beyond), and its next access  *)
(* meets the stop.                                                          *)
(*                                                                          *)
(* A replay of the other variant makes the same accesses as long as the     *)
(* same bytes are there at the same time.  Between two bytes the variants   *)
(* take different ways (InGap) and keep different books of pending; inside  *)
(* an access they stand at the same place with the same work done (Alike).  *)
(* Both read the counter, to pass the time or to stamp a byte, and the      *)
(* trace cannot tell which (Crossed): then the one that has a byte shows    *)
(* it, and the other does not.                                              *)
(****************************************************************************)
EXTENDS RxPumpSystem, RecordReplayProofs, SequenceTheorems, TLAPS

\* What a cfg says by its substitutions: the firmware behind the shim is the
\* example, and recordings and replays start it after rx_pump_reset.
RunsTheExample ==
    /\ \A f : Request(f) = RxRequest(f)
    /\ \A f, v : Resume(f, v) = RxResume(f, v)
    /\ \A f, i : EnterIsr(f, i) = RxEnterIsr(f, i)
    /\ \A f \in Firmware : \E v, k : f = FwReset(v, k)
    /\ \A f : \A g \in ReplayedAs(f) : \E v, k : g = FwReset(v, k)

\* The main loop's positions at an access of a register.
Accesses == {"idle", "stamp", "show"}

Positions == Accesses \cup
    {"top", "mask_load", "load", "unmask_load", "take", "mask_settle", "settle",
     "unmask_settle", "end"}

\* The ring's indices: the next one, and how many cells lie between two.
After(k) == (k + 1) % RingSize
Between(t, h) == (h - t) % RingSize

Waiting(f) == Between(f.tail, f.head)

\* The state of the example between two of its steps.
Shaped(f) ==
    /\ f = [ring |-> f.ring, head |-> f.head, tail |-> f.tail,
            pending |-> f.pending, consumed |-> f.consumed,
            checksum |-> f.checksum, last_stamp |-> f.last_stamp,
            overflows |-> f.overflows, variant |-> f.variant, pc |-> f.pc,
            iters |-> f.iters, n |-> f.n, i |-> f.i, isr |-> f.isr]
    /\ f.head \in 0 .. RingSize - 1 /\ f.tail \in 0 .. RingSize - 1
    /\ f.pc \in Positions /\ f.isr \in {"none", "status", "data", "leave"}

\* The handler runs under an access.
Placed(f) == f.isr # "none" => f.pc \in Accesses

\* The books of both variants: what the drain loop set out to take is pending, and
\* what is pending is in the ring or taken; the fixed variant forgets none of that.
Balanced(f) ==
    /\ f.pending \in Nat /\ f.n \in Nat /\ f.i \in Nat
    /\ f.pending <= Waiting(f) + Taken(f)
    /\ Fixed(f) => f.pending = Waiting(f) + Taken(f)
    /\ f.pc \in {"unmask_load", "take", "stamp", "show", "mask_settle", "settle"}
          => f.n <= f.pending
    /\ f.pc = "unmask_load" => f.i = 0
    /\ f.pc \in {"take", "stamp", "show"} => f.i < f.n

FwInv(f) == Shaped(f) /\ Placed(f) /\ Balanced(f)

\* The shim around it.
HalInv(m) ==
    /\ m = [fw |-> m.fw, mask |-> m.mask, inIsr |-> m.inIsr, ctrl |-> m.ctrl,
            ret |-> m.ret]
    /\ m.inIsr \in BOOLEAN /\ m.ctrl \in {"run", "pump"}
    /\ FwInv(m.fw)
    /\ m.ctrl = "pump" => m.inIsr /\ m.fw.isr = "none" /\ m.fw.pc \in Accesses
    /\ m.ctrl = "run" => (m.inIsr <=> m.fw.isr # "none")

--------------------------------------------------------------------------------

\* The indices go around.
LEMMA RingIndex ==
    ASSUME NEW h \in 0 .. RingSize - 1, NEW t \in 0 .. RingSize - 1
    PROVE  /\ After(h) = IF h + 1 = RingSize THEN 0 ELSE h + 1
           /\ After(h) \in 0 .. RingSize - 1
           /\ Between(t, h) = IF h >= t THEN h - t ELSE h - t + RingSize
           /\ Between(t, h) \in 0 .. RingSize - 1
<1>1. RingSize \in Nat /\ RingSize > 1
  BY RingSizeAssumption
<1>2. ASSUME NEW x \in Int, x \in 0 .. RingSize - 1 PROVE x % RingSize = x
  BY <1>1, <1>2
<1>3. ASSUME NEW x \in Int, x \in -RingSize .. -1 PROVE x % RingSize = x + RingSize
  BY <1>1, <1>3
<1>4. RingSize % RingSize = 0
  BY <1>1
<1>5. After(h) = IF h + 1 = RingSize THEN 0 ELSE h + 1
  BY <1>1, <1>2, <1>4 DEF After
<1>6. Between(t, h) = IF h >= t THEN h - t ELSE h - t + RingSize
  BY <1>1, <1>2, <1>3 DEF Between
<1> QED
  BY <1>1, <1>5, <1>6

\* One byte more, if there is a free cell.
LEMMA OneStored ==
    ASSUME NEW h \in 0 .. RingSize - 1, NEW t \in 0 .. RingSize - 1, After(h) # t
    PROVE  Between(t, After(h)) = Between(t, h) + 1
<1>1. RingSize \in Nat /\ RingSize > 1
  BY RingSizeAssumption
<1>2. After(h) = IF h + 1 = RingSize THEN 0 ELSE h + 1
  BY RingIndex
<1>3. Between(t, h) = IF h >= t THEN h - t ELSE h - t + RingSize
  BY RingIndex
<1>4. Between(t, After(h)) = IF After(h) >= t THEN After(h) - t
                             ELSE After(h) - t + RingSize
  BY RingIndex
<1> QED
  BY <1>1, <1>2, <1>3, <1>4

\* One byte fewer, if there is one.
LEMMA OneTaken ==
    ASSUME NEW h \in 0 .. RingSize - 1, NEW t \in 0 .. RingSize - 1,
           Between(t, h) > 0
    PROVE  Between(After(t), h) = Between(t, h) - 1
<1>1. RingSize \in Nat /\ RingSize > 1
  BY RingSizeAssumption
<1>2. After(t) = IF t + 1 = RingSize THEN 0 ELSE t + 1
  BY RingIndex
<1>3. Between(t, h) = IF h >= t THEN h - t ELSE h - t + RingSize
  BY RingIndex
<1>4. Between(After(t), h) = IF h >= After(t) THEN h - After(t)
                             ELSE h - After(t) + RingSize
  BY RingIndex
<1> QED
  BY <1>1, <1>2, <1>3, <1>4

--------------------------------------------------------------------------------

\* rx_pump_reset leaves the books balanced, on nothing.
LEMMA ResetInv ==
    ASSUME NEW v, NEW k
    PROVE  FwInv(FwReset(v, k)) /\ FwReset(v, k).isr = "none"
<1> DEFINE f == FwReset(v, k)
<1>1. RingSize \in Nat /\ RingSize > 1 /\ 0 \in 0 .. RingSize - 1
  BY RingSizeAssumption
<1>2. Between(0, 0) = 0
  BY <1>1, RingIndex
<1>3. Shaped(f) /\ Placed(f)
  BY <1>1 DEF FwReset, Shaped, Placed, Positions, Accesses
<1>4. f.pending = 0 /\ f.n = 0 /\ f.i = 0 /\ f.pc = "top" /\ f.head = 0 /\ f.tail = 0
  BY DEF FwReset
<1>5. Balanced(f)
  BY <1>2, <1>4 DEF Balanced, Waiting, Taken
<1> QED
  BY <1>3, <1>5 DEF FwInv, FwReset

\* The handler: a byte that is stored is pending and in the ring.
LEMMA IsrStep ==
    ASSUME NEW f, FwInv(f), f.isr # "none", NEW v
    PROVE  /\ FwInv(IsrResume(f, v))
           /\ IsrResume(f, v).pc = f.pc
           /\ IsrResume(f, v).isr # "none" <=> f.isr # "leave"
<1> USE DEF FwInv, Shaped, Placed
<1>1. CASE f.isr \in {"status", "leave"}
  <2> DEFINE g == IsrResume(f, v)
  <2>1. \E isr \in {"data", "leave", "none"} :
            /\ g = [f EXCEPT !.isr = isr]
            /\ isr = "none" <=> f.isr = "leave"
    BY <1>1 DEF IsrResume
  <2>2. PICK isr \in {"data", "leave", "none"} :
            /\ g = [f EXCEPT !.isr = isr]
            /\ isr = "none" <=> f.isr = "leave"
    BY <2>1
  <2> HIDE DEF g
  <2>3. Shaped(g) /\ Placed(g) /\ g.pc = f.pc /\ g.isr = isr
    BY <2>2
  <2>4. /\ g.pending = f.pending /\ g.n = f.n /\ g.i = f.i /\ g.head = f.head
        /\ g.tail = f.tail /\ g.variant = f.variant
    BY <2>2
  <2>5. Balanced(g)
    BY <2>3, <2>4 DEF Fixed, Balanced, Waiting, Taken
  <2> QED
    BY <1>1, <2>2, <2>3, <2>5 DEF g
<1>2. CASE f.isr = "data"
  <2> DEFINE next == After(f.head)
             g == StoreByte(f, v)
  <2>1. IsrResume(f, v) = g
    BY <1>2 DEF IsrResume
  <2>2. CASE next = f.tail
    <3>1. g = [f EXCEPT !.overflows = @ + 1, !.isr = "leave"]
      BY <2>2 DEF StoreByte, After
    <3> HIDE DEF g
    <3>2. Shaped(g) /\ Placed(g) /\ g.pc = f.pc /\ g.isr = "leave"
      BY <1>2, <3>1
    <3>3. /\ g.pending = f.pending /\ g.n = f.n /\ g.i = f.i /\ g.head = f.head
          /\ g.tail = f.tail /\ g.variant = f.variant
      BY <3>1
    <3>4. Balanced(g)
      BY <3>2, <3>3 DEF Fixed, Balanced, Waiting, Taken
    <3> QED
      BY <1>2, <2>1, <3>2, <3>4
  <2>3. CASE next # f.tail
    <3>1. /\ g = [f EXCEPT !.ring[f.head] = v, !.head = next, !.pending = @ + 1,
                           !.isr = "leave"]
      BY <2>3 DEF StoreByte, After
    <3>2. /\ next \in 0 .. RingSize - 1
          /\ Between(f.tail, next) = Waiting(f) + 1
          /\ Waiting(f) \in Nat
      BY <2>3, OneStored, RingIndex DEF Waiting
    <3> HIDE DEF g, next
    <3>3. Shaped(g) /\ Placed(g) /\ g.pc = f.pc /\ g.isr = "leave"
      BY <1>2, <3>1, <3>2
    <3>4. /\ g.pending = f.pending + 1 /\ g.n = f.n /\ g.i = f.i /\ g.head = next
          /\ g.tail = f.tail /\ g.variant = f.variant
      BY <3>1
    <3>5. Balanced(g)
      <4>1. Taken(g) = Taken(f) /\ Waiting(g) = Waiting(f) + 1
        BY <3>2, <3>3, <3>4 DEF Taken, Waiting
      <4>2. Taken(f) \in Nat
        BY DEF Balanced, Taken
      <4>3. /\ g.pending <= Waiting(g) + Taken(g)
            /\ Fixed(g) => g.pending = Waiting(g) + Taken(g)
        BY <3>2, <3>4, <4>1, <4>2 DEF Balanced, Fixed
      <4> QED
        BY <3>3, <3>4, <4>3 DEF Balanced
    <3> QED
      BY <1>2, <2>1, <3>3, <3>5
  <2> QED
    BY <2>2, <2>3
<1> QED
  BY <1>1, <1>2

\* A pass of the main loop: bytes that are taken stay pending until it settles.
LEMMA MainStep ==
    ASSUME NEW f, FwInv(f), f.isr = "none", f.pc # "end", NEW v
    PROVE  FwInv(MainResume(f, v)) /\ MainResume(f, v).isr = "none"
<1> DEFINE g == MainResume(f, v)
<1>0. Shaped(f) /\ Placed(f) /\ Balanced(f) /\ Waiting(f) \in Nat
  BY RingIndex DEF FwInv, Shaped, Waiting
<1>1. CASE f.pc \in {"top", "mask_load", "load", "unmask_load", "mask_settle"}
  <2>1. /\ Shaped(g) /\ g.isr = "none"
        /\ g.pending = f.pending /\ g.head = f.head /\ g.tail = f.tail
        /\ g.variant = f.variant
        /\ f.pc = "top" =>
              g.pc \in {"end", "mask_load", "load"} /\ g.n = f.n /\ g.i = f.i
        /\ f.pc = "mask_load" => g.pc = "load" /\ g.n = f.n /\ g.i = f.i
        /\ f.pc = "load" =>
              /\ g.pc \in {"unmask_load", "idle", "take"}
              /\ g.n = f.pending /\ g.i = 0
              /\ g.pc = "take" => f.pending # 0
        /\ f.pc = "unmask_load" =>
              /\ g.pc = IF f.n = 0 THEN "idle" ELSE "take"
              /\ g.n = f.n /\ g.i = f.i
        /\ f.pc = "mask_settle" => g.pc = "settle" /\ g.n = f.n /\ g.i = f.i
    <3>1. CASE f.pc = "top"
      BY <1>0, <3>1 DEF MainResume, Top, Shaped, Positions
    <3>2. CASE f.pc = "mask_load"
      BY <1>0, <3>2 DEF MainResume, Shaped, Positions
    <3>3. CASE f.pc = "load"
      BY <1>0, <3>3 DEF MainResume, Load, Shaped, Positions, Accesses
    <3>4. CASE f.pc = "unmask_load"
      BY <1>0, <3>4 DEF MainResume, Branch, Shaped, Positions, Accesses
    <3>5. CASE f.pc = "mask_settle"
      BY <1>0, <3>5 DEF MainResume, Shaped, Positions
    <3> QED
      BY <1>1, <3>1, <3>2, <3>3, <3>4, <3>5
  <2> HIDE DEF g
  <2>2. Waiting(g) = Waiting(f)
    BY <1>0, <2>1 DEF Waiting
  <2>3. Taken(g) = Taken(f)
    BY <1>0, <1>1, <2>1 DEF Taken, Balanced
  <2>4. Balanced(g)
    BY <1>0, <1>1, <2>1, <2>2, <2>3 DEF Balanced, Fixed
  <2> QED
    BY <2>1, <2>4 DEF FwInv, Placed, g
<1>2. CASE f.pc \in {"idle", "unmask_settle"}
  <2>1. g = [f EXCEPT !.iters = @ - 1, !.pc = "top", !.n = 0, !.i = 0]
    BY <1>2 DEF MainResume, NextIteration
  <2> HIDE DEF g
  <2>2. /\ Shaped(g) /\ g.isr = "none"
        /\ g.pending = f.pending /\ g.head = f.head /\ g.tail = f.tail
        /\ g.variant = f.variant /\ g.n = 0 /\ g.i = 0 /\ g.pc = "top"
    BY <1>0, <2>1 DEF Shaped, Positions
  <2>3. Balanced(g)
    BY <1>0, <1>2, <2>2 DEF Balanced, Waiting, Taken, Fixed
  <2> QED
    BY <2>2, <2>3 DEF FwInv, Placed, g
<1>3. CASE f.pc = "take"
  <2> DEFINE next == After(f.tail)
  <2>1. g = [f EXCEPT !.tail = next, !.checksum = Append(@, f.ring[f.tail]),
                      !.consumed = @ + 1, !.pc = "stamp"]
    BY <1>3 DEF MainResume, Take, After
  <2>2. next \in 0 .. RingSize - 1
    BY <1>0, RingIndex DEF Shaped
  <2> HIDE DEF g
  <2>3. /\ Shaped(g) /\ g.isr = "none"
        /\ g.pending = f.pending /\ g.head = f.head /\ g.tail = next
        /\ g.variant = f.variant /\ g.n = f.n /\ g.i = f.i /\ g.pc = "stamp"
    BY <1>0, <2>1, <2>2 DEF Shaped, Positions, Accesses
  <2>4. Taken(f) = f.i /\ f.i < f.n /\ f.n <= f.pending
    BY <1>0, <1>3 DEF Balanced, Taken
  <2>5. Between(f.tail, f.head) > 0
    BY <1>0, <2>4 DEF Balanced, Waiting
  <2>6. Between(next, f.head) = Between(f.tail, f.head) - 1
    BY <1>0, <2>5, OneTaken DEF Shaped
  <2>7. Waiting(g) = Waiting(f) - 1 /\ Taken(g) = f.i + 1
    BY <2>3, <2>6 DEF Waiting, Taken
  <2>8. Balanced(g)
    BY <1>0, <2>3, <2>4, <2>7 DEF Balanced, Fixed
  <2> QED
    BY <2>3, <2>8 DEF FwInv, Placed, g
<1>4. CASE f.pc \in {"stamp", "show"}
  <2>1. /\ Shaped(g) /\ g.isr = "none"
        /\ g.pending = f.pending /\ g.head = f.head /\ g.tail = f.tail
        /\ g.variant = f.variant /\ g.n = f.n
        /\ f.pc = "stamp" => g.pc = "show" /\ g.i = f.i
        /\ f.pc = "show" =>
              /\ g.i = f.i + 1
              /\ g.pc = "take" <=> f.i + 1 < f.n
              /\ g.pc \in {"take", "mask_settle", "settle"}
    <3>1. CASE f.pc = "stamp"
      BY <1>0, <3>1 DEF MainResume, StampTaken, Shaped, Positions, Accesses
    <3>2. CASE f.pc = "show"
      BY <1>0, <3>2 DEF MainResume, Shown, Shaped, Positions, Accesses
    <3> QED
      BY <1>4, <3>1, <3>2
  <2> HIDE DEF g
  <2>2. Waiting(g) = Waiting(f)
    BY <1>0, <2>1 DEF Waiting
  <2>3. Taken(g) = Taken(f)
    BY <1>0, <1>4, <2>1 DEF Taken, Balanced
  <2>4. Balanced(g)
    BY <1>0, <1>4, <2>1, <2>2, <2>3 DEF Balanced, Fixed
  <2> QED
    BY <2>1, <2>4 DEF FwInv, Placed, g
<1>5. CASE f.pc = "settle"
  <2>1. Taken(f) = f.n /\ f.n <= f.pending
    BY <1>0, <1>5 DEF Balanced, Taken
  <2>2. CASE Fixed(f)
    <3>1. g = [f EXCEPT !.pending = @ - f.n, !.pc = "unmask_settle"]
      BY <1>5, <2>2 DEF MainResume, Settle
    <3> HIDE DEF g
    <3>2. /\ Shaped(g) /\ g.isr = "none"
          /\ g.pending = f.pending - f.n /\ g.head = f.head /\ g.tail = f.tail
          /\ g.variant = f.variant /\ g.n = f.n /\ g.i = f.i
          /\ g.pc = "unmask_settle"
      BY <1>0, <3>1 DEF Shaped, Positions
    <3>3. Waiting(g) = Waiting(f) /\ Taken(g) = 0
      BY <3>2 DEF Waiting, Taken
    <3>4. Balanced(g)
      BY <1>0, <2>1, <2>2, <3>2, <3>3 DEF Balanced
    <3> QED
      BY <3>2, <3>4 DEF FwInv, Placed, g
  <2>3. CASE ~Fixed(f)
    <3>1. g = NextIteration([f EXCEPT !.pending = 0])
      BY <1>5, <2>3 DEF MainResume, Settle
    <3> HIDE DEF g
    <3>2. /\ Shaped(g) /\ g.isr = "none" /\ g.variant = f.variant
          /\ g.pending = 0 /\ g.head = f.head /\ g.tail = f.tail
          /\ g.n = 0 /\ g.i = 0 /\ g.pc = "top"
      BY <1>0, <3>1 DEF NextIteration, Shaped, Positions
    <3>3. Balanced(g)
      BY <1>0, <2>3, <3>2 DEF Balanced, Waiting, Taken, Fixed
    <3> QED
      BY <3>2, <3>3 DEF FwInv, Placed, g
  <2> QED
    BY <2>2, <2>3
<1> QED
  BY <1>0, <1>1, <1>2, <1>3, <1>4, <1>5 DEF Shaped, Positions, Accesses

--------------------------------------------------------------------------------

\* The calls the example makes.
LEMMA RequestIs ==
    ASSUME NEW f, Shaped(f)
    PROVE  /\ RxRequest(f).op \in {"read", "write"} =>
                \/ f.isr \in {"status", "data"}
                \/ f.isr = "none" /\ f.pc \in Accesses
           /\ RxRequest(f).op \in {"step", "disable", "enable"} =>
                f.isr = "none" /\ f.pc \notin Accesses \cup {"end"}
           /\ RxRequest(f).op = "iret" => f.isr = "leave"
           /\ RxRequest(f).op = "write" => f.isr = "none"
           /\ RxRequest(f).op = "read" /\ RxRequest(f).addr = "DR" => f.isr = "data"
           /\ f.isr = "data" => RxRequest(f).op = "read" /\ RxRequest(f).addr = "DR"
           /\ f.isr = "status" => RxRequest(f).op = "read" /\ RxRequest(f).addr = "SR"
<1>1. CASE f.isr = "none"
  <2>1. CASE f.pc \in {"mask_load", "mask_settle"}
    BY <1>1, <2>1 DEF RxRequest, MainRequest, Call, Accesses
  <2>2. CASE f.pc \in {"unmask_load", "unmask_settle"}
    BY <1>1, <2>2 DEF RxRequest, MainRequest, Call, Accesses
  <2>3. CASE f.pc \in {"idle", "stamp"}
    BY <1>1, <2>3 DEF RxRequest, MainRequest, Call, Accesses
  <2>4. CASE f.pc = "show"
    BY <1>1, <2>4 DEF RxRequest, MainRequest, Call, Accesses
  <2>5. CASE f.pc \in {"top", "load", "take", "settle"}
    BY <1>1, <2>5 DEF RxRequest, MainRequest, Call, Accesses
  <2>6. CASE f.pc = "end"
    BY <1>1, <2>6 DEF RxRequest, MainRequest, Call, Accesses
  <2> QED
    BY <2>1, <2>2, <2>3, <2>4, <2>5, <2>6 DEF Shaped, Positions, Accesses
<1>2. CASE f.isr = "status"
  BY <1>2 DEF RxRequest, IsrRequest, Call
<1>3. CASE f.isr = "data"
  BY <1>3 DEF RxRequest, IsrRequest, Call
<1>4. CASE f.isr = "leave"
  BY <1>4 DEF RxRequest, IsrRequest, Call
<1> QED
  BY <1>1, <1>2, <1>3, <1>4 DEF Shaped

\* A machine that starts the example is in order.
LEMMA StartInv ==
    ASSUME NEW v, NEW k
    PROVE  HalInv(Start(FwReset(v, k)))
BY ResetInv DEF Start, HalInv

\* What the shim makes of an access.
LEMMA PumpInv ==
    ASSUME RunsTheExample, NEW m, HalInv(m), Reading(m) \/ Writing(m), NEW v
    PROVE  HalInv(Pump(m, v))
<1>0. m.ctrl = "run" /\ FwInv(m.fw) /\ Shaped(m.fw)
  BY DEF HalInv, FwInv, Reading, Writing
<1>1. \/ m.fw.isr \in {"status", "data"}
      \/ m.fw.isr = "none" /\ m.fw.pc \in Accesses
  BY <1>0, RequestIs DEF RunsTheExample, Reading, Writing, Op
<1>2. CASE m.mask > 0 \/ m.inIsr
  <2> DEFINE g == RxResume(m.fw, v)
  <2>1. Pump(m, v) = [m EXCEPT !.fw = g]
    BY <1>2 DEF Pump, Return, RunsTheExample
  <2>2. CASE m.fw.isr = "none"
    <3>1. m.fw.pc # "end"
      BY <1>1, <2>2 DEF Accesses
    <3>2. FwInv(g) /\ g.isr = "none"
      BY <1>0, <2>2, <3>1, MainStep DEF RxResume
    <3> HIDE DEF g
    <3> QED
      BY <1>0, <2>1, <2>2, <3>2 DEF HalInv
  <2>3. CASE m.fw.isr \in {"status", "data"}
    <3>1. FwInv(g) /\ g.isr # "none"
      BY <1>0, <2>3, IsrStep DEF RxResume
    <3> HIDE DEF g
    <3> QED
      BY <1>0, <2>1, <2>3, <3>1 DEF HalInv
  <2> QED
    BY <1>1, <2>2, <2>3
<1>3. CASE ~(m.mask > 0 \/ m.inIsr)
  <2>1. Pump(m, v) = [m EXCEPT !.inIsr = TRUE, !.ctrl = "pump", !.ret = v]
    BY <1>3 DEF Pump
  <2>2. m.fw.isr = "none" /\ m.fw.pc \in Accesses
    BY <1>0, <1>1, <1>3 DEF HalInv
  <2> QED
    BY <2>1, <2>2 DEF HalInv
<1> QED
  BY <1>2, <1>3

\* What it makes of a poll.
LEMMA PollInv ==
    ASSUME RunsTheExample, NEW m, HalInv(m), Polling(m)
    PROVE  HalInv(PumpDone(m)) /\ \A i : HalInv(Dispatch(m, i))
<1>0. /\ m.ctrl = "pump" /\ FwInv(m.fw) /\ m.inIsr
      /\ m.fw.isr = "none" /\ m.fw.pc \in Accesses
  BY DEF HalInv, Polling
<1>1. HalInv(PumpDone(m))
  <2> DEFINE g == RxResume(m.fw, m.ret)
  <2>1. PumpDone(m) = [m EXCEPT !.fw = g, !.inIsr = FALSE, !.ctrl = "run", !.ret = 0]
    BY DEF PumpDone, RunsTheExample
  <2>2. FwInv(g) /\ g.isr = "none"
    BY <1>0, MainStep DEF RxResume, Accesses
  <2> HIDE DEF g
  <2> QED
    BY <2>1, <2>2 DEF HalInv
<1>2. ASSUME NEW i PROVE HalInv(Dispatch(m, i))
  <2>1. CASE i \in Handled
    <3> DEFINE f == m.fw
               g == [f EXCEPT !.isr = "status"]
    <3>1. Dispatch(m, i) = [m EXCEPT !.fw = g, !.ctrl = "run"]
      BY <2>1 DEF Dispatch, RunsTheExample, RxEnterIsr
    <3>2. Shaped(g) /\ Placed(g) /\ g.isr = "status"
      BY <1>0 DEF FwInv, Shaped, Placed
    <3>3. /\ g.pending = f.pending /\ g.n = f.n /\ g.i = f.i /\ g.head = f.head
          /\ g.tail = f.tail /\ g.variant = f.variant /\ g.pc = f.pc
      BY <1>0 DEF FwInv, Shaped
    <3>4. FwInv(f)
      BY <1>0
    <3> HIDE DEF g, f
    <3>5. FwInv(g)
      BY <3>2, <3>3, <3>4 DEF FwInv, Fixed, Balanced, Waiting, Taken
    <3> QED
      BY <1>0, <3>1, <3>2, <3>5 DEF HalInv
  <2>2. CASE i \notin Handled
    BY <2>2 DEF Dispatch
  <2> QED
    BY <2>1, <2>2
<1> QED
  BY <1>1, <1>2

\* What it makes of the calls that reach no backend.
LEMMA QuietInv ==
    ASSUME RunsTheExample, NEW m, HalInv(m), Quiet(m)
    PROVE  HalInv(AfterQuiet(m))
<1> DEFINE g == RxResume(m.fw, 0)
<1>0. m.ctrl = "run" /\ FwInv(m.fw) /\ Shaped(m.fw)
  BY DEF HalInv, FwInv, Quiet
<1>1. CASE Op(m) \in {"step", "disable", "enable"}
  <2>1. m.fw.isr = "none" /\ m.fw.pc # "end"
    BY <1>0, <1>1, RequestIs DEF RunsTheExample, Op
  <2>2. FwInv(g) /\ g.isr = "none"
    BY <1>0, <2>1, MainStep DEF RxResume
  <2>3. \E mask : AfterQuiet(m) = [m EXCEPT !.fw = g, !.mask = mask]
    <3>1. CASE Op(m) = "step"
      <4>1. AfterQuiet(m) = [m EXCEPT !.fw = g, !.mask = m.mask]
        <5>1. AfterQuiet(m) = [m EXCEPT !.fw = g]
          BY <3>1 DEF AfterQuiet, Return, RunsTheExample
        <5> HIDE DEF g
        <5> QED
          BY <5>1 DEF HalInv
      <4> QED
        BY <4>1
    <3>2. CASE Op(m) = "disable"
      BY <3>2 DEF AfterQuiet, IrqDisable, RunsTheExample
    <3>3. CASE Op(m) = "enable"
      BY <3>3 DEF AfterQuiet, IrqEnable, RunsTheExample
    <3> QED
      BY <1>1, <3>1, <3>2, <3>3
  <2> HIDE DEF g
  <2> QED
    BY <1>0, <2>1, <2>2, <2>3 DEF HalInv
<1>2. CASE Op(m) = "iret" /\ m.inIsr
  <2>1. m.fw.isr = "leave"
    BY <1>0, <1>2, RequestIs DEF RunsTheExample, Op
  <2>2. FwInv(g) /\ g.isr = "none" /\ g.pc \in Accesses
    BY <1>0, <2>1, IsrStep DEF RxResume, FwInv, Placed
  <2>3. AfterQuiet(m) = [m EXCEPT !.fw = g, !.ctrl = "pump"]
    BY <1>2 DEF AfterQuiet, HandlerReturn, RunsTheExample
  <2> HIDE DEF g
  <2> QED
    BY <1>2, <2>2, <2>3 DEF HalInv
<1> QED
  BY <1>1, <1>2 DEF Quiet

\* However the firmware is recorded and replayed, its machine stays in order.
LEMMA HalInvCorrect ==
    ASSUME RunsTheExample
    PROVE  Spec => []HalInv(hal)
<1>1. Init => HalInv(hal)
  BY StartInv DEF Init, RunsTheExample
<1>2. HalInv(hal) /\ [Next]_vars => HalInv(hal)'
  <2> SUFFICES ASSUME HalInv(hal), [Next]_vars PROVE HalInv(hal')
    OBVIOUS
  <2>1. CASE RecordRead
    BY <2>1, PumpInv DEF RecordRead, GoTo
  <2>2. CASE RecordWrite
    BY <2>2, PumpInv DEF RecordWrite, GoTo
  <2>3. CASE RecordIrq
    BY <2>3, PollInv DEF RecordIrq, GoTo
  <2>4. CASE RecordNoIrq
    BY <2>4, PollInv DEF RecordNoIrq, GoTo
  <2>5. CASE RecordQuiet
    BY <2>5, QuietInv DEF RecordQuiet, GoTo
  <2>6. CASE StopAndReplay
    BY <2>6, StartInv DEF StopAndReplay, RunsTheExample
  <2>7. CASE ReplayRead
    BY <2>7, PumpInv DEF ReplayRead
  <2>8. CASE ReplayWrite
    BY <2>8, PumpInv DEF ReplayWrite
  <2>9. CASE ReplayIrq
    BY <2>9, PollInv DEF ReplayIrq
  <2>10. CASE ReplayNoIrq
    BY <2>10, PollInv DEF ReplayNoIrq
  <2>11. CASE ReplayQuiet
    BY <2>11, QuietInv DEF ReplayQuiet
  <2>12. CASE ReplayEnds \/ UNCHANGED vars
    BY <2>12 DEF ReplayEnds, vars
  <2> QED
    BY <2>1, <2>2, <2>3, <2>4, <2>5, <2>6, <2>7, <2>8, <2>9, <2>10, <2>11, <2>12
       DEF Next, RecordStep, ReplayStep
<1> QED
  BY <1>1, <1>2, PTL DEF Spec

\* Wherever interrupts land, in a recording or in a replay of either variant, the
\* fixed variant's pending is the number of bytes in the ring plus those the drain
\* loop has taken and not yet settled (firmware/src/rx_pump.cpp).
THEOREM PendingCorrect ==
    ASSUME RunsTheExample
    PROVE  Spec => []PendingCountsTheRing
<1>1. HalInv(hal) => PendingCountsTheRing
  <2> SUFFICES ASSUME HalInv(hal), Fixed(hal.fw)
               PROVE  hal.fw.pending = Len(RingBytes(hal.fw)) + Taken(hal.fw)
    BY DEF PendingCountsTheRing
  <2>1. Shaped(hal.fw) /\ Balanced(hal.fw)
    BY DEF HalInv, FwInv
  <2>2. Waiting(hal.fw) \in Nat
    BY <2>1, RingIndex DEF Shaped, Waiting
  <2>3. Len(RingBytes(hal.fw)) = Waiting(hal.fw)
    BY <2>2 DEF RingBytes, Waiting, Between
  <2> QED
    BY <2>1, <2>3 DEF Balanced
<1> QED
  BY <1>1, HalInvCorrect, PTL

--------------------------------------------------------------------------------
(* The bytes.                                                                *)

\* A byte stored, or not yet anything.
Values == Bytes \cup {0}

\* The cell of the ring that holds the k-th byte waiting.
CellOf(t, k) == (t + k - 1) % RingSize

\* What the firmware has been given, in order, and what the device holds for it.
Seen(f) == f.checksum \o RingBytes(f)
Held(d) == IF d.rx_pending THEN <<d.rx_byte>> ELSE <<>>

FwData(f) ==
    /\ f.ring \in [0 .. RingSize - 1 -> Values]
    /\ f.checksum \in Seq(Values) /\ f.overflows \in Nat

DevData(d) ==
    /\ d = [cycles |-> d.cycles, wait |-> d.wait, frame_pos |-> d.frame_pos,
            tx_sent |-> d.tx_sent, tx_checksum |-> d.tx_checksum, odr |-> d.odr,
            rx_byte |-> d.rx_byte, rx_pending |-> d.rx_pending,
            irq_latched |-> d.irq_latched]
    /\ d.tx_checksum \in Seq(Values) /\ d.rx_byte \in Values
    /\ d.rx_pending \in BOOLEAN

\* The handler reads the data register only if the status said that a byte is there,
\* and what it makes of that is all the difference there is.
FlowInv(f, d) ==
    /\ FwData(f) /\ DevData(d)
    /\ f.isr = "data" => d.rx_pending
    /\ f.overflows = 0 => d.tx_checksum = Seen(f) \o Held(d)

\* The first of a sequence may as well be the last of the one before it.
LEMMA FirstIsLast ==
    ASSUME NEW S, NEW c \in Seq(S), NEW b \in Seq(S), NEW r \in Seq(S),
           Len(b) = Len(r) + 1, \A k \in 1 .. Len(r) : r[k] = b[k + 1]
    PROVE  Append(c, b[1]) \o r = c \o b
<1> DEFINE x == Append(c, b[1]) \o r
           y == c \o b
<1>1. b[1] \in S /\ Append(c, b[1]) \in Seq(S) /\ Len(b) \in Nat /\ Len(r) \in Nat
  OBVIOUS
<1>2. x \in Seq(S) /\ y \in Seq(S) /\ Len(x) = Len(c) + Len(b) /\ Len(y) = Len(x)
  BY <1>1
<1>3. ASSUME NEW k \in 1 .. Len(x) PROVE x[k] = y[k]
  <2>1. CASE k <= Len(c)
    BY <1>1, <1>2, <2>1
  <2>2. CASE k = Len(c) + 1
    BY <1>1, <1>2, <2>2
  <2>3. CASE k > Len(c) + 1
    <3>1. x[k] = r[k - Len(c) - 1]
      BY <1>1, <1>2, <2>3
    <3>2. k - Len(c) - 1 \in 1 .. Len(r) /\ y[k] = b[k - Len(c)]
      BY <1>1, <1>2, <2>3
    <3> QED
      BY <3>1, <3>2, SMTT(60)
  <2> QED
    BY <1>2, <2>1, <2>2, <2>3, SMTT(60)
<1> QED
  BY <1>2, <1>3, SeqEqual

\* What comes last comes last of all.
LEMMA LastIsLast ==
    ASSUME NEW S, NEW c \in Seq(S), NEW b \in Seq(S), NEW e \in S
    PROVE  c \o Append(b, e) = Append(c \o b, e)
<1> DEFINE x == c \o Append(b, e)
           y == Append(c \o b, e)
<1>1. /\ x \in Seq(S) /\ y \in Seq(S)
      /\ Len(x) = Len(c) + Len(b) + 1 /\ Len(y) = Len(x)
  OBVIOUS
<1>2. ASSUME NEW k \in 1 .. Len(x) PROVE x[k] = y[k]
  <2>1. CASE k <= Len(c)
    BY <1>1, <2>1
  <2>2. CASE k > Len(c) /\ k <= Len(c) + Len(b)
    BY <1>1, <2>2
  <2>3. CASE k = Len(c) + Len(b) + 1
    BY <1>1, <2>3
  <2> QED
    BY <1>1, <2>1, <2>2, <2>3
<1> QED
  BY <1>1, <1>2, SeqEqual

\* Where the bytes waiting are.
LEMMA CellIs ==
    ASSUME NEW t \in 0 .. RingSize - 1, NEW k \in 1 .. RingSize
    PROVE  /\ CellOf(t, k) = IF t + k - 1 < RingSize THEN t + k - 1
                             ELSE t + k - 1 - RingSize
           /\ CellOf(t, k) \in 0 .. RingSize - 1
<1>1. RingSize \in Nat /\ RingSize > 1
  BY RingSizeAssumption
<1>2. ASSUME NEW x \in Int, x \in 0 .. RingSize - 1 PROVE x % RingSize = x
  BY <1>1, <1>2
<1>3. ASSUME NEW x \in Int, x \in RingSize .. 2 * RingSize - 1
      PROVE  x % RingSize = x - RingSize
  BY <1>1, <1>3
<1>4. CellOf(t, k) = IF t + k - 1 < RingSize THEN t + k - 1
                     ELSE t + k - 1 - RingSize
  BY <1>1, <1>2, <1>3 DEF CellOf
<1> QED
  BY <1>1, <1>4

\* They are a sequence.
LEMMA RingBytesIs ==
    ASSUME NEW f, Shaped(f), FwData(f)
    PROVE  /\ RingBytes(f) \in Seq(Values) /\ Len(RingBytes(f)) = Waiting(f)
           /\ Waiting(f) \in 0 .. RingSize - 1
           /\ \A k \in 1 .. Waiting(f) :
                 RingBytes(f)[k] = f.ring[CellOf(f.tail, k)]
           /\ Seen(f) \in Seq(Values)
<1>1. /\ RingSize \in Nat /\ f.head \in 0 .. RingSize - 1
      /\ f.tail \in 0 .. RingSize - 1
  BY RingSizeAssumption DEF Shaped
<1>2. Waiting(f) \in 0 .. RingSize - 1
  BY <1>1, RingIndex DEF Waiting
<1>3. RingBytes(f) = [k \in 1 .. Waiting(f) |-> f.ring[CellOf(f.tail, k)]]
  BY DEF RingBytes, Waiting, Between, CellOf
<1>4. ASSUME NEW k \in 1 .. Waiting(f) PROVE f.ring[CellOf(f.tail, k)] \in Values
  <2>1. k \in 1 .. RingSize
    BY <1>1, <1>2
  <2>2. CellOf(f.tail, k) \in 0 .. RingSize - 1
    BY <1>1, <2>1, CellIs
  <2> QED
    BY <2>2 DEF FwData
<1>5. RingBytes(f) \in Seq(Values) /\ Len(RingBytes(f)) = Waiting(f)
  BY <1>2, <1>3, <1>4
<1> QED
  BY <1>2, <1>3, <1>5 DEF Seen, FwData

\* A byte stored is the last the firmware has seen.
LEMMA StoreSeen ==
    ASSUME NEW f, Shaped(f), FwData(f), NEW v \in Values,
           NEW g, Shaped(g), g.ring = [f.ring EXCEPT ![f.head] = v],
           g.head = After(f.head), g.tail = f.tail, After(f.head) # f.tail,
           g.checksum = f.checksum, g.overflows = f.overflows
    PROVE  FwData(g) /\ Seen(g) = Append(Seen(f), v)
<1> DEFINE h == f.head
           t == f.tail
           W == Waiting(f)
<1>0. /\ RingSize \in Nat /\ RingSize > 1
      /\ h \in 0 .. RingSize - 1 /\ t \in 0 .. RingSize - 1
      /\ f.ring \in [0 .. RingSize - 1 -> Values]
  BY RingSizeAssumption DEF Shaped, FwData
<1>1. FwData(g)
  BY <1>0 DEF FwData
<1>2. Waiting(g) = W + 1 /\ W \in 0 .. RingSize - 1
  BY <1>0, OneStored, RingBytesIs DEF Waiting
<1>3. W = IF h >= t THEN h - t ELSE h - t + RingSize
  BY <1>0, RingIndex DEF Waiting
<1>4. ASSUME NEW k \in 1 .. W PROVE RingBytes(g)[k] = RingBytes(f)[k]
  <2>1. k \in 1 .. RingSize /\ k \in 1 .. Waiting(g)
    BY <1>0, <1>2
  <2>2. /\ CellOf(t, k) = IF t + k - 1 < RingSize THEN t + k - 1
                          ELSE t + k - 1 - RingSize
        /\ CellOf(t, k) \in 0 .. RingSize - 1
    BY <1>0, <2>1, CellIs
  <2> HIDE DEF W, h, t
  <2>3. CellOf(t, k) # h
    BY <1>0, <1>2, <1>3, <1>4, <2>2
  <2> USE DEF W, h, t
  <2>4. RingBytes(g)[k] = g.ring[CellOf(t, k)]
    <3>1. \A j \in 1 .. Waiting(g) : RingBytes(g)[j] = g.ring[CellOf(g.tail, j)]
      BY <1>1, RingBytesIs
    <3> QED
      BY <2>1, <3>1
  <2>5. RingBytes(f)[k] = f.ring[CellOf(t, k)]
    BY RingBytesIs
  <2> QED
    BY <1>0, <2>2, <2>3, <2>4, <2>5
<1>5. RingBytes(g)[W + 1] = v
  <2>1. W + 1 \in 1 .. RingSize /\ W + 1 \in 1 .. Waiting(g)
    BY <1>0, <1>2
  <2>2. CellOf(t, W + 1) = IF t + (W + 1) - 1 < RingSize THEN t + (W + 1) - 1
                           ELSE t + (W + 1) - 1 - RingSize
    BY <1>0, <2>1, CellIs
  <2> HIDE DEF W, h, t
  <2>3. CellOf(t, W + 1) = h
    BY <1>0, <1>2, <1>3, <2>2
  <2> USE DEF W, h, t
  <2>4. RingBytes(g)[W + 1] = g.ring[CellOf(t, W + 1)]
    <3>1. \A j \in 1 .. Waiting(g) : RingBytes(g)[j] = g.ring[CellOf(g.tail, j)]
      BY <1>1, RingBytesIs
    <3> QED
      BY <2>1, <3>1
  <2> QED
    BY <1>0, <2>3, <2>4
<1>6. RingBytes(g) = Append(RingBytes(f), v)
  <2>1. /\ RingBytes(f) \in Seq(Values) /\ Len(RingBytes(f)) = W
        /\ RingBytes(g) \in Seq(Values) /\ Len(RingBytes(g)) = W + 1
    BY <1>1, <1>2, RingBytesIs
  <2> HIDE DEF W
  <2>2. /\ Append(RingBytes(f), v) \in Seq(Values)
        /\ Len(Append(RingBytes(f), v)) = W + 1
        /\ \A k \in 1 .. W : Append(RingBytes(f), v)[k] = RingBytes(f)[k]
        /\ Append(RingBytes(f), v)[W + 1] = v
    BY <1>2, <2>1
  <2>3. ASSUME NEW k \in 1 .. W + 1
        PROVE  RingBytes(g)[k] = Append(RingBytes(f), v)[k]
    <3>1. CASE k = W + 1
      BY <1>5, <2>2, <3>1
    <3>2. CASE k \in 1 .. W
      BY <1>4, <2>2, <3>2
    <3>3. k = W + 1 \/ k \in 1 .. W
      BY <1>0, <1>2, <2>3
    <3> QED
      BY <3>1, <3>2, <3>3
  <2> QED
    BY <2>1, <2>2, <2>3, SeqEqual
<1>7. f.checksum \in Seq(Values) /\ RingBytes(f) \in Seq(Values)
  BY RingBytesIs DEF FwData
<1>8. f.checksum \o Append(RingBytes(f), v) = Append(f.checksum \o RingBytes(f), v)
  <2> DEFINE c == f.checksum
             b == RingBytes(f)
  <2>1. c \in Seq(Values) /\ b \in Seq(Values)
    BY <1>7
  <2> HIDE DEF b, c
  <2>2. c \o Append(b, v) = Append(c \o b, v)
    BY <2>1, LastIsLast
  <2> QED
    BY <2>2 DEF b, c
<1> QED
  BY <1>1, <1>6, <1>8 DEF Seen

\* A byte taken moves from the ring to what was consumed.
LEMMA TakeSeen ==
    ASSUME NEW f, Shaped(f), FwData(f), Waiting(f) > 0,
           NEW g, Shaped(g), g.ring = f.ring, g.head = f.head,
           g.tail = After(f.tail), g.checksum = Append(f.checksum, f.ring[f.tail]),
           g.overflows = f.overflows
    PROVE  FwData(g) /\ Seen(g) = Seen(f)
<1> DEFINE h == f.head
           t == f.tail
           W == Waiting(f)
<1>0. /\ RingSize \in Nat /\ RingSize > 1
      /\ h \in 0 .. RingSize - 1 /\ t \in 0 .. RingSize - 1
      /\ f.ring \in [0 .. RingSize - 1 -> Values]
      /\ f.checksum \in Seq(Values)
  BY RingSizeAssumption DEF Shaped, FwData
<1>1. FwData(g)
  BY <1>0 DEF FwData
<1>2. Waiting(g) = W - 1 /\ W \in 1 .. RingSize - 1
  <2>1. W \in 1 .. RingSize - 1
    <3>1. W \in 0 .. RingSize - 1 /\ W > 0
      BY RingBytesIs
    <3> QED
      BY <1>0, <3>1
  <2>2. Waiting(g) = W - 1
    BY <1>0, OneTaken DEF Waiting
  <2> QED
    BY <2>1, <2>2
<1>3. After(t) = (IF t + 1 = RingSize THEN 0 ELSE t + 1) /\ After(t) \in 0 .. RingSize - 1
  BY <1>0, RingIndex
<1>4. ASSUME NEW k \in 1 .. W - 1 PROVE RingBytes(g)[k] = RingBytes(f)[k + 1]
  <2>1. k \in 1 .. RingSize /\ k + 1 \in 1 .. RingSize /\ k + 1 \in 1 .. W
    BY <1>0, <1>2
  <2>2. CellOf(After(t), k) = IF After(t) + k - 1 < RingSize THEN After(t) + k - 1
                              ELSE After(t) + k - 1 - RingSize
    BY <1>3, <2>1, CellIs
  <2>3. CellOf(t, k + 1) = IF t + (k + 1) - 1 < RingSize THEN t + (k + 1) - 1
                           ELSE t + (k + 1) - 1 - RingSize
    BY <1>0, <2>1, CellIs
  <2> HIDE DEF W, h, t
  <2>4. CellOf(After(t), k) = CellOf(t, k + 1)
    BY <1>0, <1>2, <1>3, <1>4, <2>2, <2>3, SMTT(60)
  <2> USE DEF W, h, t
  <2>5. RingBytes(g)[k] = f.ring[CellOf(After(t), k)]
    BY <1>1, <1>2, RingBytesIs
  <2>6. RingBytes(f)[k + 1] = f.ring[CellOf(t, k + 1)]
    BY <2>1, RingBytesIs
  <2> QED
    BY <2>4, <2>5, <2>6
<1>5. RingBytes(f)[1] = f.ring[t]
  <2>1. 1 \in 1 .. RingSize /\ 1 \in 1 .. W
    BY <1>0, <1>2
  <2>2. CellOf(t, 1) = t
    <3>1. CellOf(t, 1) = IF t + 1 - 1 < RingSize THEN t + 1 - 1
                         ELSE t + 1 - 1 - RingSize
      BY <1>0, <2>1, CellIs
    <3> QED
      BY <1>0, <3>1
  <2> QED
    BY <2>1, <2>2, RingBytesIs
<1>6. /\ RingBytes(f) \in Seq(Values) /\ Len(RingBytes(f)) = W
      /\ RingBytes(g) \in Seq(Values) /\ Len(RingBytes(g)) = W - 1
  BY <1>1, <1>2, RingBytesIs
<1> HIDE DEF W
<1>7. Append(f.checksum, RingBytes(f)[1]) \o RingBytes(g) = f.checksum \o RingBytes(f)
  <2> DEFINE b == RingBytes(f)
             r == RingBytes(g)
  <2>1. /\ b \in Seq(Values) /\ r \in Seq(Values) /\ Len(b) = Len(r) + 1
        /\ \A k \in 1 .. Len(r) : r[k] = b[k + 1]
    BY <1>2, <1>4, <1>6
  <2> HIDE DEF b, r
  <2>2. Append(f.checksum, b[1]) \o r = f.checksum \o b
    BY <1>0, <2>1, FirstIsLast, ZenonT(60)
  <2> QED
    BY <2>2 DEF b, r
<1> QED
  BY <1>1, <1>5, <1>7 DEF Seen

\* Seen and its type depend on four variables only.
LEMMA SameSeen ==
    ASSUME NEW f, NEW g, FwData(f), g.ring = f.ring, g.head = f.head,
           g.tail = f.tail, g.checksum = f.checksum, g.overflows = f.overflows
    PROVE  FwData(g) /\ Seen(g) = Seen(f) /\ g.overflows = f.overflows
<1>1. FwData(g)
  BY DEF FwData
<1>2. RingBytes(g) = RingBytes(f)
  BY DEF RingBytes
<1> QED
  BY <1>1, <1>2 DEF Seen

\* The main loop moves bytes and changes none.
LEMMA MainSeen ==
    ASSUME NEW f, FwInv(f), FwData(f), f.isr = "none", f.pc # "end", NEW v
    PROVE  LET g == MainResume(f, v) IN
           FwData(g) /\ Seen(g) = Seen(f) /\ g.overflows = f.overflows
<1> DEFINE g == MainResume(f, v)
<1>0. Shaped(f) /\ Balanced(f) /\ Shaped(g)
  BY MainStep DEF FwInv
<1>1. CASE f.pc = "take"
  <2>1. /\ g.ring = f.ring /\ g.head = f.head /\ g.tail = After(f.tail)
        /\ g.checksum = Append(f.checksum, f.ring[f.tail])
        /\ g.overflows = f.overflows
    BY <1>0, <1>1 DEF MainResume, Take, After, Shaped
  <2>2. Waiting(f) > 0
    <3>1. f.pending <= Waiting(f) + f.i /\ f.i < f.n /\ f.n <= f.pending
      BY <1>0, <1>1 DEF Balanced, Taken
    <3>2. Waiting(f) \in Int /\ f.pending \in Nat /\ f.i \in Nat /\ f.n \in Nat
      BY <1>0, RingBytesIs DEF Balanced
    <3> QED
      BY <3>1, <3>2
  <2> HIDE DEF g
  <2>3. FwData(g) /\ Seen(g) = Seen(f)
    BY <1>0, <2>1, <2>2, TakeSeen
  <2> QED
    BY <2>1, <2>3, SMTT(60) DEF g
<1>2. CASE f.pc # "take"
  <2>1. /\ g.ring = f.ring /\ g.head = f.head /\ g.tail = f.tail
        /\ g.checksum = f.checksum /\ g.overflows = f.overflows
    <3>1. CASE f.pc \in {"top", "mask_load", "load", "unmask_load"}
      BY <1>0, <3>1, ZenonT(60) DEF MainResume, Top, Load, Branch, Shaped
    <3>2. CASE f.pc \in {"idle", "unmask_settle"}
      BY <1>0, <3>2, ZenonT(60) DEF MainResume, NextIteration, Shaped
    <3>3. CASE f.pc \in {"stamp", "show", "mask_settle"}
      BY <1>0, <3>3 DEF MainResume, StampTaken, Shown, Shaped
    <3>4. CASE f.pc = "settle" /\ Fixed(f)
      BY <1>0, <3>4 DEF MainResume, Settle, Shaped
    <3>5. CASE f.pc = "settle" /\ ~Fixed(f)
      BY <1>0, <3>5 DEF MainResume, Settle, NextIteration, Shaped
    <3> QED
      BY <1>0, <1>2, <3>1, <3>2, <3>3, <3>4, <3>5 DEF Shaped, Positions, Accesses
  <2> HIDE DEF g
  <2> QED
    BY <2>1, SameSeen DEF g
<1> QED
  BY <1>1, <1>2

\* The handler stores the byte behind all others, or counts an overflow.
LEMMA IsrSeen ==
    ASSUME NEW f, FwInv(f), FwData(f), f.isr # "none", NEW v,
           f.isr = "data" => v \in Values
    PROVE  LET g == IsrResume(f, v) IN
           /\ FwData(g)
           /\ f.isr = "data" =>
                 /\ g.isr = "leave"
                 /\ \/ g.overflows = f.overflows + 1
                    \/ g.overflows = f.overflows /\ Seen(g) = Append(Seen(f), v)
           /\ f.isr # "data" => Seen(g) = Seen(f) /\ g.overflows = f.overflows
           /\ f.isr = "status" => (g.isr = "data" <=> v = 1)
           /\ f.isr = "leave" => g.isr = "none"
<1> DEFINE g == IsrResume(f, v)
<1>0. Shaped(f) /\ Shaped(g)
  BY IsrStep DEF FwInv
<1>1. CASE f.isr \in {"status", "leave"}
  <2>1. /\ g.ring = f.ring /\ g.head = f.head /\ g.tail = f.tail
        /\ g.checksum = f.checksum /\ g.overflows = f.overflows
        /\ f.isr = "status" => (g.isr = "data" <=> v = 1)
        /\ f.isr = "leave" => g.isr = "none"
    BY <1>0, <1>1 DEF IsrResume, Shaped
  <2> HIDE DEF g
  <2>2. FwData(g) /\ Seen(g) = Seen(f)
    BY <2>1, SameSeen
  <2> QED
    BY <1>1, <2>1, <2>2 DEF g
<1>2. CASE f.isr = "data" /\ After(f.head) = f.tail
  <2>1. /\ g.ring = f.ring /\ g.checksum = f.checksum
        /\ g.overflows = f.overflows + 1 /\ g.isr = "leave"
    BY <1>0, <1>2 DEF IsrResume, StoreByte, After, Shaped
  <2>2. FwData(g)
    BY <2>1 DEF FwData
  <2> QED
    BY <1>2, <2>1, <2>2
<1>3. CASE f.isr = "data" /\ After(f.head) # f.tail
  <2>1. /\ g.ring = [f.ring EXCEPT ![f.head] = v] /\ g.head = After(f.head)
        /\ g.tail = f.tail /\ g.checksum = f.checksum
        /\ g.overflows = f.overflows /\ g.isr = "leave"
    BY <1>0, <1>3 DEF IsrResume, StoreByte, After, Shaped
  <2> HIDE DEF g
  <2>2. FwData(g) /\ Seen(g) = Append(Seen(f), v)
    BY <1>0, <1>3, <2>1, StoreSeen
  <2> QED
    BY <1>3, <2>1, <2>2 DEF g
<1> QED
  BY <1>0, <1>1, <1>2, <1>3 DEF Shaped

\* While time passes the device holds what it held, and a byte that arrives is the
\* last it has sent.
LEMMA ElapseFlow ==
    ASSUME NEW d, DevData(d), NEW e \in Advance(d)
    PROVE  /\ DevData(e)
           /\ d.rx_pending =>
                 e.rx_pending /\ e.rx_byte = d.rx_byte
           /\ \A s \in Seq(Values) :
                 d.tx_checksum = s \o Held(d) => e.tx_checksum = s \o Held(e)
<1> DEFINE p == Elapse(d)
<1>1. /\ DevData(p) /\ p.rx_pending = d.rx_pending /\ p.rx_byte = d.rx_byte
      /\ p.tx_checksum = d.tx_checksum
  <2>1. PICK c, w : p = [d EXCEPT !.cycles = c, !.wait = w]
    BY DEF Elapse
  <2> HIDE DEF p
  <2> QED
    BY <2>1 DEF DevData
<1> HIDE DEF p
<1>2. CASE e = p
  BY <1>1, <1>2 DEF Held
<1>3. CASE Due(p) /\ e \in Arrivals(p)
  <2>1. PICK byte, pos, gap, sent :
            /\ byte \in Bytes
            /\ e = [p EXCEPT !.rx_byte = byte, !.rx_pending = TRUE, !.irq_latched = TRUE,
                             !.tx_checksum = Append(p.tx_checksum, byte),
                             !.tx_sent = sent, !.frame_pos = pos, !.wait = gap]
    <3> DEFINE ends == p.frame_pos + 1 >= FrameLen
               arrived(byte, gap) ==
                   [p EXCEPT !.rx_byte = byte, !.rx_pending = TRUE, !.irq_latched = TRUE,
                             !.tx_checksum = Append(@, byte), !.tx_sent = @ + 1,
                             !.frame_pos = IF ends THEN 0 ELSE @ + 1, !.wait = gap]
    <3>1. Arrivals(p) = {arrived(byte, gap) :
                            byte \in Bytes, gap \in IF ends THEN FrameGaps ELSE ByteGaps}
      BY DEF Arrivals
    <3> HIDE DEF arrived
    <3>2. PICK byte, gap : byte \in Bytes /\ e = arrived(byte, gap)
      BY <1>3, <3>1
    <3> QED
      BY <3>2 DEF arrived
  <2>2. /\ e.rx_byte = byte /\ e.rx_pending = TRUE
        /\ e.tx_checksum = Append(p.tx_checksum, byte)
        /\ DevData(e)
    <3>1. e = [cycles |-> p.cycles, wait |-> gap, frame_pos |-> pos, tx_sent |-> sent,
               tx_checksum |-> Append(p.tx_checksum, byte), odr |-> p.odr,
               rx_byte |-> byte, rx_pending |-> TRUE, irq_latched |-> TRUE]
      BY <1>1, <2>1 DEF DevData
    <3>2. Append(p.tx_checksum, byte) \in Seq(Values) /\ byte \in Values
      BY <1>1, <2>1 DEF DevData, Values
    <3> QED
      BY <3>1, <3>2 DEF DevData
  <2>3. ~d.rx_pending
    BY <1>1, <1>3 DEF Due
  <2>4. ASSUME NEW s \in Seq(Values), d.tx_checksum = s \o Held(d)
        PROVE  e.tx_checksum = s \o Held(e)
    <3>1. Held(d) = <<>> /\ Held(e) = <<byte>> /\ byte \in Values
      BY <2>1, <2>2, <2>3 DEF Held, Values
    <3>2. s \o <<>> = s /\ s \o <<byte>> = Append(s, byte)
      BY <2>4, <3>1
    <3> QED
      BY <1>1, <2>2, <2>4, <3>1, <3>2
  <2> QED
    BY <2>2, <2>3, <2>4
<1> QED
  BY <1>2, <1>3 DEF Advance, p

--------------------------------------------------------------------------------

\* What a cfg says by its substitutions: the example runs on the simulated part.
OnTheSimulatedPart ==
    /\ DevInit = McuInit
    /\ \A d, addr : DevRead(d, addr) = McuRead(d, addr)
    /\ \A d, addr, value : DevWrite(d, addr, value) = McuWrite(d, addr, value)
    /\ \A d : DevPoll(d) = McuPoll(d)

DataInv == phase = "record" => FlowInv(hal.fw, dev)

\* Nothing is lost on the wire while time passes.
LEMMA WireKeepsFlow ==
    ASSUME NEW f, NEW d, Shaped(f), FlowInv(f, d), NEW e \in Advance(d)
    PROVE  FlowInv(f, e)
<1>1. Seen(f) \in Seq(Values) /\ DevData(d) /\ FwData(f)
  BY RingBytesIs DEF FlowInv
<1> QED
  BY <1>1, ElapseFlow DEF FlowInv

\* Nor while the firmware does what is not about the byte the device holds.
LEMMA FirmwareKeepsFlow ==
    ASSUME NEW f, NEW d, FlowInv(f, d), NEW g, FwData(g), Seen(g) = Seen(f),
           g.overflows = f.overflows, g.isr = "data" => d.rx_pending
    PROVE  FlowInv(g, d)
BY DEF FlowInv

\* A register other than the data register is read, or one is written.
LEMMA AccessKeepsFlow ==
    ASSUME RunsTheExample, NEW m, HalInv(m), Reading(m) \/ Writing(m),
           m.fw.isr # "data", NEW v, NEW d, FlowInv(m.fw, d),
           m.fw.isr = "status" /\ v = 1 => d.rx_pending
    PROVE  FlowInv(Pump(m, v).fw, d)
<1> DEFINE f == m.fw
<1>0. m.ctrl = "run" /\ FwInv(f) /\ Shaped(f) /\ FwData(f)
  BY DEF HalInv, FwInv, Reading, Writing, FlowInv
<1>1. \/ f.isr = "status"
      \/ f.isr = "none" /\ f.pc \in Accesses
  <2>1. RxRequest(f).op \in {"read", "write"}
    BY DEF RunsTheExample, Reading, Writing, Op
  <2> QED
    BY <1>0, <2>1, RequestIs
<1>2. Pump(m, v).fw \in {f, RxResume(f, v)}
  BY DEF Pump, Return, RunsTheExample, HalInv
<1>3. f.isr = "status" => Pump(m, v).fw = RxResume(f, v)
  BY <1>0 DEF Pump, Return, RunsTheExample, HalInv
<1>4. CASE f.isr = "status"
  <2>1. LET g == RxResume(f, v) IN
        /\ FwData(g) /\ Seen(g) = Seen(f) /\ g.overflows = f.overflows
        /\ g.isr = "data" <=> v = 1
    BY <1>0, <1>4, IsrSeen DEF RxResume
  <2> QED
    BY <1>3, <1>4, <2>1, FirmwareKeepsFlow
<1>5. CASE f.isr = "none" /\ f.pc \in Accesses
  <2>1. LET g == RxResume(f, v) IN
        /\ FwData(g) /\ Seen(g) = Seen(f) /\ g.overflows = f.overflows
        /\ g.isr = "none"
    BY <1>0, <1>5, MainSeen, MainStep DEF RxResume, Accesses
  <2> QED
    BY <1>2, <2>1, FirmwareKeepsFlow
<1> QED
  BY <1>1, <1>4, <1>5

\* The byte the device held becomes the last the firmware has seen.
LEMMA ByteChangesHands ==
    ASSUME RunsTheExample, NEW m, HalInv(m), Reading(m), m.fw.isr = "data",
           NEW e, FlowInv(m.fw, e)
    PROVE  FlowInv(Pump(m, e.rx_byte).fw, [e EXCEPT !.rx_pending = FALSE])
<1> DEFINE f == m.fw
           v == e.rx_byte
           g == IsrResume(f, v)
           d == [e EXCEPT !.rx_pending = FALSE]
<1>0. /\ m.ctrl = "run" /\ m.inIsr /\ FwInv(f) /\ Shaped(f) /\ FwData(f)
      /\ DevData(e) /\ v \in Values /\ e.rx_pending /\ f.overflows \in Nat
  BY DEF HalInv, FwInv, Reading, FlowInv, FwData, DevData
<1>1. Pump(m, v).fw = g
  BY <1>0 DEF Pump, Return, RunsTheExample, HalInv, RxResume
<1>2. /\ FwData(g) /\ g.isr = "leave"
      /\ \/ g.overflows = f.overflows + 1
         \/ g.overflows = f.overflows /\ Seen(g) = Append(Seen(f), v)
  BY <1>0, IsrSeen
<1>3. DevData(d) /\ d.tx_checksum = e.tx_checksum /\ ~d.rx_pending
  <2>1. ASSUME NEW z \in BOOLEAN
        PROVE  LET r == [e EXCEPT !.rx_pending = z] IN
               DevData(r) /\ r.tx_checksum = e.tx_checksum /\ r.rx_pending = z
    <3> DEFINE r == [e EXCEPT !.rx_pending = z]
    <3>1. r = [cycles |-> e.cycles, wait |-> e.wait, frame_pos |-> e.frame_pos,
               tx_sent |-> e.tx_sent, tx_checksum |-> e.tx_checksum, odr |-> e.odr,
               rx_byte |-> e.rx_byte, rx_pending |-> z,
               irq_latched |-> e.irq_latched]
      BY <1>0 DEF DevData
    <3> HIDE DEF r
    <3>2. DevData(r) /\ r.tx_checksum = e.tx_checksum /\ r.rx_pending = z
      BY <1>0, <3>1 DEF DevData
    <3> QED
      BY <3>2 DEF r
  <2> QED
    BY <2>1, FALSE \in BOOLEAN
<1> HIDE DEF g, d
<1>4. ASSUME g.overflows = 0 PROVE d.tx_checksum = Seen(g) \o Held(d)
  <2>1. f.overflows = 0 /\ Seen(g) = Append(Seen(f), v)
    BY <1>0, <1>2, <1>4
  <2>2. e.tx_checksum = Seen(f) \o <<v>>
    BY <1>0, <2>1 DEF FlowInv, Held
  <2>3. Seen(f) \in Seq(Values) /\ Seen(f) \o <<v>> = Append(Seen(f), v)
    BY <1>0, RingBytesIs
  <2>4. Held(d) = <<>> /\ Seen(g) \o <<>> = Seen(g)
    BY <1>0, <1>3, <2>1, <2>3 DEF Held
  <2> QED
    BY <1>3, <2>1, <2>2, <2>3, <2>4
<1> QED
  BY <1>1, <1>2, <1>3, <1>4 DEF FlowInv, d

\* A recorded read, of whichever register.
LEMMA RecordReadFlow ==
    ASSUME RunsTheExample, OnTheSimulatedPart, HalInv(hal), FlowInv(hal.fw, dev),
           RecordRead
    PROVE  FlowInv(hal'.fw, dev')
<1> DEFINE f == hal.fw
           addr == Request(f).addr
<1>1. PICK r \in McuRead(dev, addr) : dev' = r.dev /\ hal' = Pump(hal, r.value)
  BY DEF RecordRead, OnTheSimulatedPart, GoTo
<1>2. PICK e \in Advance(dev) :
          /\ r.dev = IF addr = "DR" THEN [e EXCEPT !.rx_pending = FALSE] ELSE e
          /\ addr = "SR" => r.value = IF e.rx_pending THEN 1 ELSE 0
          /\ addr = "DR" => r.value = e.rx_byte
  <2>1. PICK e \in Advance(dev) :
            r = [dev   |-> IF addr = "DR" THEN [e EXCEPT !.rx_pending = FALSE] ELSE e,
                 value |-> CASE addr = "CNT" -> e.cycles
                             [] addr = "SR"  -> IF e.rx_pending THEN 1 ELSE 0
                             [] addr = "DR"  -> e.rx_byte
                             [] addr = "ODR" -> e.odr
                             [] OTHER        -> 0]
    BY <1>1 DEF McuRead
  <2> HIDE DEF addr
  <2> QED
    BY <2>1
<1>3. Shaped(f) /\ FlowInv(f, e) /\ Reading(hal)
  BY <1>2, WireKeepsFlow DEF HalInv, FwInv, RecordRead
<1>4. CASE f.isr = "data"
  <2>1. addr = "DR"
    BY <1>3, <1>4, RequestIs DEF RunsTheExample
  <2> QED
    BY <1>1, <1>2, <1>3, <1>4, <2>1, ByteChangesHands
<1>5. CASE f.isr # "data"
  <2>1. addr # "DR" /\ (f.isr = "status" => addr = "SR")
    BY <1>3, <1>5, RequestIs DEF RunsTheExample, Reading, Op
  <2>2. f.isr = "status" /\ r.value = 1 => e.rx_pending
    BY <1>2, <2>1
  <2>3. FlowInv(Pump(hal, r.value).fw, e)
    BY <1>3, <1>5, <2>2, AccessKeepsFlow
  <2> QED
    BY <1>1, <1>2, <2>1, <2>3
<1> QED
  BY <1>4, <1>5

\* A recorded write.
LEMMA RecordWriteFlow ==
    ASSUME RunsTheExample, OnTheSimulatedPart, HalInv(hal), FlowInv(hal.fw, dev),
           RecordWrite
    PROVE  FlowInv(hal'.fw, dev')
<1> DEFINE f == hal.fw
           req == Request(f)
<1>1. dev' \in McuWrite(dev, req.addr, req.value) /\ hal' = Pump(hal, 0)
  BY DEF RecordWrite, OnTheSimulatedPart, GoTo
<1>2. PICK e \in Advance(dev) :
          dev' = IF req.addr = "ODR" THEN [e EXCEPT !.odr = req.value] ELSE e
  BY <1>1 DEF McuWrite
<1>3. Shaped(f) /\ FlowInv(f, e) /\ Writing(hal) /\ f.isr = "none"
  BY <1>2, WireKeepsFlow, RequestIs
     DEF HalInv, FwInv, RecordWrite, RunsTheExample, Writing, Op
<1>4. FlowInv(f, dev')
  <2>1. /\ DevData(dev') /\ dev'.tx_checksum = e.tx_checksum
        /\ dev'.rx_pending = e.rx_pending /\ dev'.rx_byte = e.rx_byte
    BY <1>2, <1>3 DEF FlowInv, DevData
  <2> QED
    BY <1>3, <2>1 DEF FlowInv, Held
<1> QED
  BY <1>1, <1>3, <1>4, AccessKeepsFlow

\* A recorded poll: the device hands its interrupt over, or the access returns.
LEMMA RecordPollFlow ==
    ASSUME RunsTheExample, OnTheSimulatedPart, HalInv(hal), FlowInv(hal.fw, dev),
           RecordIrq \/ RecordNoIrq
    PROVE  FlowInv(hal'.fw, dev')
<1> DEFINE f == hal.fw
<1>1. /\ Polling(hal) /\ hal.ctrl = "pump" /\ FwInv(f) /\ Shaped(f) /\ FwData(f)
      /\ f.isr = "none" /\ f.pc \in Accesses
  BY DEF RecordIrq, RecordNoIrq, HalInv, FwInv, FlowInv, Polling
<1>2. /\ DevData(dev') /\ dev'.tx_checksum = dev.tx_checksum
      /\ dev'.rx_pending = dev.rx_pending /\ dev'.rx_byte = dev.rx_byte
  <2>1. dev' \in {dev, [dev EXCEPT !.irq_latched = FALSE]}
    BY DEF RecordIrq, RecordNoIrq, OnTheSimulatedPart, McuPoll
  <2> QED
    BY <2>1 DEF FlowInv, DevData
<1>3. FlowInv(f, dev')
  BY <1>2 DEF FlowInv, Held
<1>4. hal'.fw \in {f, RxEnterIsr(f, UartVector), RxResume(f, hal.ret)}
  BY DEF RecordIrq, RecordNoIrq, GoTo, Dispatch, PumpDone, RunsTheExample, RxEnterIsr,
         HalInv
<1>5. CASE hal'.fw = f
  BY <1>3, <1>5
<1>6. CASE hal'.fw = RxEnterIsr(f, UartVector)
  <2> DEFINE g == [f EXCEPT !.isr = "status"]
  <2>1. /\ g.ring = f.ring /\ g.head = f.head /\ g.tail = f.tail
        /\ g.checksum = f.checksum /\ g.overflows = f.overflows /\ g.isr = "status"
    BY <1>1 DEF Shaped
  <2>2. hal'.fw = g
    BY <1>6 DEF RxEnterIsr
  <2> HIDE DEF g
  <2>3. FwData(g) /\ Seen(g) = Seen(f)
    BY <1>1, <2>1, SameSeen
  <2> QED
    BY <1>3, <2>1, <2>2, <2>3, FirmwareKeepsFlow
<1>7. CASE hal'.fw = RxResume(f, hal.ret)
  <2>1. LET g == RxResume(f, hal.ret) IN
        /\ FwData(g) /\ Seen(g) = Seen(f) /\ g.overflows = f.overflows
        /\ g.isr = "none"
    BY <1>1, MainSeen, MainStep DEF RxResume, Accesses
  <2> QED
    BY <1>3, <1>7, <2>1, FirmwareKeepsFlow
<1> QED
  BY <1>4, <1>5, <1>6, <1>7

\* A recorded step that reaches no backend.
LEMMA RecordQuietFlow ==
    ASSUME RunsTheExample, HalInv(hal), FlowInv(hal.fw, dev), RecordQuiet
    PROVE  FlowInv(hal'.fw, dev')
<1> DEFINE f == hal.fw
           g == RxResume(f, 0)
<1>1. /\ Quiet(hal) /\ hal' = AfterQuiet(hal) /\ dev' = dev
      /\ FwInv(f) /\ Shaped(f) /\ FwData(f)
  BY DEF RecordQuiet, GoTo, HalInv, FwInv, FlowInv
<1>2. hal'.fw = g
  <2>1. hal = [fw |-> hal.fw, mask |-> hal.mask, inIsr |-> hal.inIsr,
               ctrl |-> hal.ctrl, ret |-> hal.ret]
    BY DEF HalInv
  <2> QED
    BY <1>1, <2>1 DEF Quiet, AfterQuiet, Return, IrqDisable, IrqEnable, HandlerReturn,
                      RunsTheExample
<1>3. \/ f.isr = "none" /\ f.pc # "end"
      \/ f.isr = "leave"
  BY <1>1, RequestIs DEF Quiet, Op, RunsTheExample
<1>4. /\ FwData(g) /\ Seen(g) = Seen(f) /\ g.overflows = f.overflows
      /\ g.isr = "none"
  <2>1. CASE f.isr = "none" /\ f.pc # "end"
    BY <1>1, <2>1, MainSeen, MainStep DEF RxResume
  <2>2. CASE f.isr = "leave"
    BY <1>1, <2>2, IsrSeen DEF RxResume
  <2> QED
    BY <1>3, <2>1, <2>2
<1> QED
  BY <1>1, <1>2, <1>4, FirmwareKeepsFlow

\* mcu.h: the device's checksum of what it delivered and the firmware's of what it
\* consumed account for each other, whatever the schedule, in both variants: unless
\* the ring overflowed, a byte delivered is consumed, in the ring, or in the register.
THEOREM EveryByteCorrect ==
    ASSUME RunsTheExample, OnTheSimulatedPart
    PROVE  Spec => []EveryByteAccountedFor
<1> DEFINE Inv == HalInv(hal) /\ DataInv
<1>1. Init => Inv
  <2> SUFFICES ASSUME Init PROVE Inv
    OBVIOUS
  <2>1. HalInv(hal)
    BY StartInv DEF Init, RunsTheExample
  <2>2. PICK v, k : hal.fw = FwReset(v, k)
    BY DEF Init, Start, RunsTheExample
  <2>3. Shaped(hal.fw) /\ FwData(hal.fw) /\ hal.fw.overflows = 0 /\ hal.fw.isr = "none"
    <3>1. /\ hal.fw.ring = [cell \in 0 .. RingSize - 1 |-> 0]
          /\ hal.fw.checksum = <<>> /\ hal.fw.overflows = 0 /\ hal.fw.isr = "none"
      BY <2>2 DEF FwReset
    <3>2. 0 \in Values /\ <<>> \in Seq(Values)
      BY DEF Values
    <3> QED
      BY <2>1, <3>1, <3>2 DEF HalInv, FwInv, FwData
  <2>4. /\ DevData(dev) /\ dev.tx_checksum = <<>> /\ dev.rx_pending = FALSE
    <3>1. PICK w \in FrameGaps :
              dev = [cycles |-> 0, wait |-> w, frame_pos |-> 0, tx_sent |-> 0,
                     tx_checksum |-> <<>>, odr |-> 0, rx_byte |-> 0,
                     rx_pending |-> FALSE, irq_latched |-> FALSE]
      BY DEF Init, OnTheSimulatedPart, McuInit
    <3>2. 0 \in Values /\ <<>> \in Seq(Values)
      BY DEF Values
    <3> QED
      BY <3>1, <3>2 DEF DevData
  <2>5. hal.fw.checksum = <<>> /\ RingBytes(hal.fw) = <<>>
    <3>1. Waiting(hal.fw) = 0
      <4>1. 0 \in 0 .. RingSize - 1
        BY RingSizeAssumption
      <4> QED
        BY <2>2, <4>1, RingIndex DEF FwReset, Waiting
    <3>2. RingBytes(hal.fw) \in Seq(Values) /\ Len(RingBytes(hal.fw)) = 0
      BY <2>3, <3>1, RingBytesIs
    <3> QED
      BY <2>2, <3>2 DEF FwReset
  <2>6. Seen(hal.fw) \o Held(dev) = <<>>
    BY <2>4, <2>5 DEF Seen, Held
  <2> QED
    BY <2>1, <2>3, <2>4, <2>6 DEF DataInv, FlowInv
<1>2. Inv /\ HalInv(hal)' /\ [Next]_vars => Inv'
  <2> SUFFICES ASSUME Inv, HalInv(hal)', [Next]_vars, phase' = "record"
               PROVE  FlowInv(hal'.fw, dev')
    BY DEF DataInv
  <2>1. CASE RecordRead
    BY <2>1, RecordReadFlow DEF DataInv, RecordRead
  <2>2. CASE RecordWrite
    BY <2>2, RecordWriteFlow DEF DataInv, RecordWrite
  <2>3. CASE RecordIrq \/ RecordNoIrq
    BY <2>3, RecordPollFlow DEF DataInv, RecordIrq, RecordNoIrq
  <2>4. CASE RecordQuiet
    BY <2>4, RecordQuietFlow DEF DataInv, RecordQuiet
  <2>5. CASE StopAndReplay
    BY <2>5 DEF StopAndReplay
  <2>6. CASE ReplayStep
    BY <2>6 DEF ReplayStep, ReplayRead, ReplayWrite, ReplayIrq, ReplayNoIrq, ReplayQuiet,
                ReplayEnds, UNCHANGED_record
  <2>7. CASE UNCHANGED vars
    BY <2>7 DEF vars, DataInv
  <2> QED
    BY <2>1, <2>2, <2>3, <2>4, <2>5, <2>6, <2>7 DEF Next, RecordStep
<1>3. Inv => EveryByteAccountedFor
  <2> SUFFICES ASSUME Inv, phase = "record", hal.fw.overflows = 0
               PROVE  dev.tx_checksum = hal.fw.checksum \o RingBytes(hal.fw)
                          \o (IF dev.rx_pending THEN <<dev.rx_byte>> ELSE <<>>)
    BY DEF EveryByteAccountedFor, Recording
  <2> QED
    BY DEF DataInv, FlowInv, Seen, Held
<1> QED
  BY <1>1, <1>2, <1>3, HalInvCorrect, PTL DEF Spec

--------------------------------------------------------------------------------
(* More iterations than were recorded.                                       *)

\* rx_pump_run's count of iterations is unsigned.
CountsIterations ==
    /\ \A f \in Firmware : f.iters \in Nat
    /\ \A f : \A g \in ReplayedAs(f) : g.iters \in Nat

\* The firmware, and the machine, with d iterations more to go.
More(f, d) == [f EXCEPT !.iters = f.iters + d]
Ahead(m, d) == [m EXCEPT !.fw = More(m.fw, d)]

\* At the head of the main loop with none to go, where d more make a difference.
AtLast(f) == f.isr = "none" /\ f.pc = "top" /\ f.iters = 0

\* Inside an iteration there is one to go.
Going(f) == f.iters \in Nat /\ (f.pc \notin {"top", "end"} => f.iters > 0)

\* Two firmwares that differ in nothing but how many are to go.
Twins(f, g, d) ==
    /\ g.ring = f.ring /\ g.head = f.head /\ g.tail = f.tail
    /\ g.pending = f.pending /\ g.consumed = f.consumed /\ g.checksum = f.checksum
    /\ g.last_stamp = f.last_stamp /\ g.overflows = f.overflows
    /\ g.variant = f.variant /\ g.pc = f.pc /\ g.n = f.n /\ g.i = f.i /\ g.isr = f.isr
    /\ g.iters = f.iters + d

\* There is only one of those.
LEMMA TwinsAre ==
    ASSUME NEW f, Shaped(f), NEW g, Shaped(g), NEW d, Twins(f, g, d)
    PROVE  g = More(f, d)
<1>1. PICK k : k = f.iters + d
  OBVIOUS
<1>2. PICK h : h = [f EXCEPT !.iters = k]
  OBVIOUS
<1>3. h = [ring |-> f.ring, head |-> f.head, tail |-> f.tail,
           pending |-> f.pending, consumed |-> f.consumed,
           checksum |-> f.checksum, last_stamp |-> f.last_stamp,
           overflows |-> f.overflows, variant |-> f.variant, pc |-> f.pc,
           iters |-> k, n |-> f.n, i |-> f.i, isr |-> f.isr]
  BY <1>2 DEF Shaped
<1>4. g = [ring |-> f.ring, head |-> f.head, tail |-> f.tail,
           pending |-> f.pending, consumed |-> f.consumed,
           checksum |-> f.checksum, last_stamp |-> f.last_stamp,
           overflows |-> f.overflows, variant |-> f.variant, pc |-> f.pc,
           iters |-> k, n |-> f.n, i |-> f.i, isr |-> f.isr]
  BY <1>1 DEF Shaped, Twins
<1> QED
  BY <1>1, <1>2, <1>3, <1>4 DEF More

\* They make the same calls.
LEMMA MoreIs ==
    ASSUME NEW f, FwInv(f), NEW d
    PROVE  /\ FwInv(More(f, d)) /\ Twins(f, More(f, d), d)
           /\ RxRequest(More(f, d)) = RxRequest(f)
<1>1. PICK k : k = f.iters + d
  OBVIOUS
<1>2. PICK g : g = [f EXCEPT !.iters = k]
  OBVIOUS
<1>3. Shaped(g) /\ Twins(f, g, d)
  BY <1>1, <1>2 DEF FwInv, Shaped, Twins
<1>4. Placed(g) /\ Balanced(g)
  BY <1>3 DEF FwInv, Placed, Balanced, Twins, Waiting, Taken, Fixed
<1>5. RxRequest(g) = RxRequest(f)
  BY <1>3 DEF RxRequest, MainRequest, IsrRequest, Twins
<1> QED
  BY <1>1, <1>2, <1>3, <1>4, <1>5 DEF More, FwInv

\* A step of the firmware takes no notice of how many are to go, but at the last.
LEMMA MoreResumes ==
    ASSUME NEW f, FwInv(f), Going(f), NEW d \in Nat \ {0}, NEW v, f.pc # "end", ~AtLast(f)
    PROVE  LET g == RxResume(f, v)
           IN RxResume(More(f, d), v) = More(g, d) /\ Going(g) /\ g.pc # "end"
<1> DEFINE h == More(f, d)
           g == RxResume(f, v)
           k == RxResume(h, v)
<1>1. FwInv(h) /\ Twins(f, h, d) /\ Shaped(f)
  BY MoreIs DEF FwInv
<1>2. Shaped(g) /\ Shaped(k)
  <2>1. h.pc # "end" /\ h.isr = f.isr
    BY <1>1 DEF Twins
  <2> HIDE DEF h
  <2>2. CASE f.isr = "none"
    BY <1>1, <2>1, <2>2, MainStep DEF RxResume, FwInv
  <2>3. CASE f.isr # "none"
    BY <1>1, <2>1, <2>3, IsrStep DEF RxResume, FwInv
  <2> QED
    BY <2>2, <2>3
<1> HIDE DEF h
<1>3. f.iters \in Nat /\ f.iters + d # 0 /\ h.iters = f.iters + d
  BY <1>1 DEF Going, Twins
<1> DEFINE Onwards == Twins(g, k, d) /\ Going(g) /\ g.pc # "end"
<1>4. ASSUME f.isr # "none" PROVE Onwards
  <2>1. f.pc \in Accesses /\ f.iters > 0
    BY <1>4 DEF FwInv, Placed, Going, Accesses
  <2>2. CASE f.isr = "status"
    <3>1. /\ g = [f EXCEPT !.isr = IF v = 1 THEN "data" ELSE "leave"]
          /\ k = [h EXCEPT !.isr = IF v = 1 THEN "data" ELSE "leave"]
      BY <1>1, <2>2 DEF RxResume, IsrResume, Twins
    <3> HIDE DEF g, k
    <3> QED
      BY <1>1, <1>2, <1>3, <2>1, <3>1 DEF Twins, Shaped, Going, Accesses
  <2>3. CASE f.isr = "leave"
    <3>1. /\ g = [f EXCEPT !.isr = "none"]
          /\ k = [h EXCEPT !.isr = "none"]
      BY <1>1, <2>3 DEF RxResume, IsrResume, Twins
    <3> HIDE DEF g, k
    <3> QED
      BY <1>1, <1>2, <1>3, <2>1, <3>1 DEF Twins, Shaped, Going, Accesses
  <2>4. CASE f.isr = "data"
    <3>1. g = StoreByte(f, v) /\ k = StoreByte(h, v)
      BY <1>1, <2>4 DEF RxResume, IsrResume, Twins
    <3> HIDE DEF g, k
    <3>2. Twins(g, k, d) /\ g.pc = f.pc /\ g.iters = f.iters
      BY <1>1, <1>2, <1>3, <3>1 DEF StoreByte, Twins, Shaped
    <3> QED
      BY <1>3, <2>1, <3>2 DEF Going, Accesses
  <2> QED
    BY <1>1, <1>4, <2>2, <2>3, <2>4 DEF Shaped
<1>5. ASSUME f.isr = "none" PROVE Onwards
  <2>1. g = MainResume(f, v) /\ k = MainResume(h, v) /\ h.pc = f.pc
    BY <1>1, <1>5 DEF RxResume, Twins
  <2> HIDE DEF g, k
  <2> USE DEF Twins, Shaped, Going, Fixed
  <2>2. CASE f.pc = "top"
    <3>1. g = Top(f) /\ k = Top(h) /\ f.iters # 0
      BY <1>5, <2>1, <2>2 DEF MainResume, AtLast
    <3> QED
      BY <1>1, <1>3, <2>2, <3>1 DEF Top
  <2>3. CASE f.pc = "mask_load"
    <3>1. g = [f EXCEPT !.pc = "load"] /\ k = [h EXCEPT !.pc = "load"]
      BY <2>1, <2>3 DEF MainResume
    <3> QED
      BY <1>1, <1>3, <2>3, <3>1
  <2>4. CASE f.pc = "load"
    <3>1. g = Load(f) /\ k = Load(h)
      BY <2>1, <2>4 DEF MainResume
    <3> QED
      BY <1>1, <1>3, <2>4, <3>1 DEF Load
  <2>5. CASE f.pc = "unmask_load"
    <3>1. g = Branch(f) /\ k = Branch(h)
      BY <2>1, <2>5 DEF MainResume
    <3> QED
      BY <1>1, <1>3, <2>5, <3>1 DEF Branch
  <2>6. CASE f.pc \in {"idle", "unmask_settle"}
    <3>1. g = NextIteration(f) /\ k = NextIteration(h)
      BY <2>1, <2>6 DEF MainResume
    <3> QED
      BY <1>1, <1>3, <2>6, <3>1 DEF NextIteration
  <2>7. CASE f.pc = "take"
    <3>1. g = Take(f) /\ k = Take(h)
      BY <2>1, <2>7 DEF MainResume
    <3> QED
      BY <1>1, <1>3, <2>7, <3>1 DEF Take
  <2>8. CASE f.pc = "stamp"
    <3>1. g = StampTaken(f, v) /\ k = StampTaken(h, v)
      BY <2>1, <2>8 DEF MainResume
    <3> QED
      BY <1>1, <1>3, <2>8, <3>1 DEF StampTaken
  <2>9. CASE f.pc = "show"
    <3>1. g = Shown(f) /\ k = Shown(h)
      BY <2>1, <2>9 DEF MainResume
    <3> QED
      BY <1>1, <1>3, <2>9, <3>1 DEF Shown
  <2>10. CASE f.pc = "mask_settle"
    <3>1. g = [f EXCEPT !.pc = "settle"] /\ k = [h EXCEPT !.pc = "settle"]
      BY <2>1, <2>10 DEF MainResume
    <3> QED
      BY <1>1, <1>3, <2>10, <3>1
  <2>11. CASE f.pc = "settle"
    <3>1. g = Settle(f) /\ k = Settle(h)
      BY <2>1, <2>11 DEF MainResume
    <3> QED
      BY <1>1, <1>3, <2>11, <3>1 DEF Settle, NextIteration
  <2> QED
    BY <1>1, <2>2, <2>3, <2>4, <2>5, <2>6, <2>7, <2>8, <2>9, <2>10, <2>11
       DEF Positions, Accesses
<1>6. Onwards
  BY <1>4, <1>5
<1>7. k = More(g, d)
  BY ONLY <1>2, <1>6, TwinsAre
<1> QED
  BY <1>6, <1>7 DEF h

\* The machine of one that has more to go is about to do the same.
LEMMA AheadIs ==
    ASSUME RunsTheExample, NEW m, HalInv(m), NEW d
    PROVE  LET a == Ahead(m, d)
           IN /\ a = [fw |-> More(m.fw, d), mask |-> m.mask, inIsr |-> m.inIsr,
                      ctrl |-> m.ctrl, ret |-> m.ret]
              /\ Request(a.fw) = Request(m.fw)
              /\ Reading(a) <=> Reading(m)
              /\ Writing(a) <=> Writing(m)
              /\ Polling(a) <=> Polling(m)
              /\ Quiet(a) <=> Quiet(m)
<1>1. PICK f, a : f = More(m.fw, d) /\ a = [m EXCEPT !.fw = f]
  OBVIOUS
<1>2. RxRequest(f) = RxRequest(m.fw)
  BY <1>1, MoreIs DEF HalInv
<1>3. a = [fw |-> f, mask |-> m.mask, inIsr |-> m.inIsr, ctrl |-> m.ctrl, ret |-> m.ret]
  BY <1>1 DEF HalInv
<1>4. a.fw = f /\ a.inIsr = m.inIsr /\ a.ctrl = m.ctrl
  BY <1>3
<1>5. Request(a.fw) = Request(m.fw)
  BY <1>2, <1>4 DEF RunsTheExample
<1>6. /\ Reading(a) <=> Reading(m)
      /\ Writing(a) <=> Writing(m)
      /\ Polling(a) <=> Polling(m)
      /\ Quiet(a) <=> Quiet(m)
  BY <1>4, <1>5 DEF Reading, Writing, Polling, Quiet, Op
<1> QED
  BY <1>1, <1>3, <1>5, <1>6 DEF Ahead

\* The main loop has not ended.
Onward(m) == Going(m.fw) /\ m.fw.pc # "end"

\* And the shim takes it the same way.
LEMMA AheadSteps ==
    ASSUME RunsTheExample, NEW m, HalInv(m), Onward(m), NEW d \in Nat \ {0}
    PROVE  /\ \A v : Reading(m) \/ Writing(m) =>
                 Pump(Ahead(m, d), v) = Ahead(Pump(m, v), d) /\ Onward(Pump(m, v))
           /\ \A i : Polling(m) =>
                 /\ Dispatch(Ahead(m, d), i) = Ahead(Dispatch(m, i), d)
                 /\ Onward(Dispatch(m, i))
           /\ Polling(m) =>
                 PumpDone(Ahead(m, d)) = Ahead(PumpDone(m), d) /\ Onward(PumpDone(m))
           /\ Quiet(m) /\ ~AtLast(m.fw) =>
                 /\ AfterQuiet(Ahead(m, d)) = Ahead(AfterQuiet(m), d)
                 /\ Onward(AfterQuiet(m))
<1>1. PICK f, h, a : f = m.fw /\ h = More(f, d) /\ a = Ahead(m, d)
  OBVIOUS
<1>2. /\ FwInv(f) /\ Shaped(f) /\ Going(f) /\ f.pc # "end" /\ f = m.fw
      /\ m = [fw |-> f, mask |-> m.mask, inIsr |-> m.inIsr, ctrl |-> m.ctrl,
              ret |-> m.ret]
  BY <1>1 DEF HalInv, Onward, FwInv
<1>3. /\ a = [fw |-> h, mask |-> m.mask, inIsr |-> m.inIsr, ctrl |-> m.ctrl,
              ret |-> m.ret]
      /\ Request(a.fw) = Request(m.fw)
      /\ Quiet(a) <=> Quiet(m)
  BY <1>1, AheadIs
<1>4. ASSUME NEW mask, NEW inIsr, NEW ctrl, NEW ret, NEW g, NEW k
      PROVE  LET p == [fw |-> g, mask |-> mask, inIsr |-> inIsr, ctrl |-> ctrl, ret |-> ret]
                 q == [fw |-> k, mask |-> mask, inIsr |-> inIsr, ctrl |-> ctrl, ret |-> ret]
             IN p.fw = g /\ q = [p EXCEPT !.fw = k]
  OBVIOUS
<1>5. PICK mask0, inIsr0, ctrl0, ret0 :
          /\ m = [fw |-> f, mask |-> mask0, inIsr |-> inIsr0, ctrl |-> ctrl0, ret |-> ret0]
          /\ a = [fw |-> h, mask |-> mask0, inIsr |-> inIsr0, ctrl |-> ctrl0, ret |-> ret0]
  BY <1>2, <1>3
<1>6. ASSUME NEW v, ~AtLast(f)
      PROVE  LET g == RxResume(f, v)
             IN /\ Resume(m.fw, v) = g /\ Resume(a.fw, v) = More(g, d)
                /\ Going(g) /\ g.pc # "end"
  <2>1. a.fw = h
    BY <1>3
  <2> QED
    BY <1>1, <1>2, <1>6, <2>1, MoreResumes DEF RunsTheExample
<1>7. \A g : More(g, d) = [g EXCEPT !.iters = g.iters + d]
  BY DEF More
<1>8. ASSUME NEW v, Reading(m) \/ Writing(m)
      PROVE  Pump(a, v) = Ahead(Pump(m, v), d) /\ Onward(Pump(m, v))
  <2>1. ~AtLast(f)
    BY <1>2, <1>8, RequestIs DEF AtLast, Reading, Writing, Op, RunsTheExample, Accesses
  <2>2. PICK g, k : /\ g = RxResume(f, v) /\ k = More(g, d)
                    /\ Resume(m.fw, v) = g /\ Resume(a.fw, v) = k
                    /\ Going(g) /\ g.pc # "end"
    BY <1>6, <2>1
  <2>3. CASE m.mask > 0 \/ m.inIsr
    <3>1. Pump(m, v) = [m EXCEPT !.fw = g] /\ Pump(a, v) = [a EXCEPT !.fw = k]
      BY <1>3, <2>2, <2>3 DEF Pump, Return
    <3>2. PICK p : p = Pump(m, v)
      OBVIOUS
    <3>3. p.fw = g /\ Pump(a, v) = [p EXCEPT !.fw = k]
      <4>1. p = [fw |-> g, mask |-> mask0, inIsr |-> inIsr0, ctrl |-> ctrl0, ret |-> ret0]
        BY ONLY <1>5, <3>1, <3>2
      <4>2. Pump(a, v) = [fw |-> k, mask |-> mask0, inIsr |-> inIsr0, ctrl |-> ctrl0, ret |-> ret0]
        BY ONLY <1>5, <3>1, <3>2
      <4> QED
        BY <1>4, <4>1, <4>2
    <3> QED
      BY <2>2, <3>2, <3>3 DEF Ahead, Onward
  <2>4. CASE ~(m.mask > 0 \/ m.inIsr)
    <3>1. PICK yes : yes = TRUE
      OBVIOUS
    <3>2. /\ Pump(m, v) = [m EXCEPT !.inIsr = yes, !.ctrl = "pump", !.ret = v]
          /\ Pump(a, v) = [a EXCEPT !.inIsr = yes, !.ctrl = "pump", !.ret = v]
      BY <1>3, <2>4, <3>1 DEF Pump
    <3>3. PICK p : p = Pump(m, v)
      OBVIOUS
    <3>4. p.fw = f /\ Pump(a, v) = [p EXCEPT !.fw = h]
      <4>1. p = [fw |-> f, mask |-> mask0, inIsr |-> yes, ctrl |-> "pump", ret |-> v]
        BY ONLY <1>5, <3>2, <3>3
      <4>2. Pump(a, v) = [fw |-> h, mask |-> mask0, inIsr |-> yes, ctrl |-> "pump", ret |-> v]
        BY ONLY <1>5, <3>2, <3>3
      <4> QED
        BY <1>4, <4>1, <4>2
    <3> QED
      BY <1>1, <1>2, <3>3, <3>4 DEF Ahead, Onward
  <2> QED
    BY <2>3, <2>4
<1>9. ASSUME NEW i, Polling(m)
      PROVE  Dispatch(a, i) = Ahead(Dispatch(m, i), d) /\ Onward(Dispatch(m, i))
  <2>1. CASE i \in Handled
    <3>1. PICK g, k : g = RxEnterIsr(f, i) /\ k = RxEnterIsr(h, i)
      OBVIOUS
    <3>2. k = More(g, d) /\ Going(g) /\ g.pc # "end"
      <4>1. FwInv(h) /\ Twins(f, h, d)
        BY <1>1, <1>2, MoreIs
      <4>2. g = [f EXCEPT !.isr = "status"] /\ k = [h EXCEPT !.isr = "status"]
        BY <3>1 DEF RxEnterIsr
      <4>3. Shaped(g) /\ Shaped(k) /\ Twins(g, k, d) /\ g.pc = f.pc /\ g.iters = f.iters
        BY <1>2, <4>1, <4>2 DEF FwInv, Shaped, Twins
      <4> QED
        BY <1>2, <4>3, TwinsAre DEF Going
    <3>3. /\ Dispatch(m, i) = [m EXCEPT !.fw = g, !.ctrl = "run"]
          /\ Dispatch(a, i) = [a EXCEPT !.fw = k, !.ctrl = "run"]
      BY <1>2, <1>3, <2>1, <3>1 DEF Dispatch, RunsTheExample
    <3>4. PICK p : p = Dispatch(m, i)
      OBVIOUS
    <3>5. p.fw = g /\ Dispatch(a, i) = [p EXCEPT !.fw = k]
      <4>1. p = [fw |-> g, mask |-> mask0, inIsr |-> inIsr0, ctrl |-> "run", ret |-> ret0]
        BY ONLY <1>5, <3>3, <3>4
      <4>2. Dispatch(a, i) = [fw |-> k, mask |-> mask0, inIsr |-> inIsr0, ctrl |-> "run", ret |-> ret0]
        BY ONLY <1>5, <3>3, <3>4
      <4> QED
        BY <1>4, <4>1, <4>2
    <3> QED
      BY <3>2, <3>4, <3>5 DEF Ahead, Onward
  <2>2. CASE i \notin Handled
    BY <1>1, <2>2 DEF Dispatch
  <2> QED
    BY <2>1, <2>2
<1>10. ASSUME Polling(m)
       PROVE  PumpDone(a) = Ahead(PumpDone(m), d) /\ Onward(PumpDone(m))
  <2>1. ~AtLast(f)
    BY <1>2, <1>10 DEF HalInv, AtLast, Polling, Accesses
  <2>2. PICK g, k : /\ g = RxResume(f, m.ret) /\ k = More(g, d)
                    /\ Resume(m.fw, m.ret) = g /\ Resume(a.fw, m.ret) = k
                    /\ Going(g) /\ g.pc # "end"
    BY <1>6, <2>1
  <2>3. PICK no : no = FALSE
    OBVIOUS
  <2>4. /\ PumpDone(m) = [m EXCEPT !.fw = g, !.inIsr = no, !.ctrl = "run", !.ret = 0]
        /\ PumpDone(a) = [a EXCEPT !.fw = k, !.inIsr = no, !.ctrl = "run", !.ret = 0]
    BY <1>3, <2>2, <2>3 DEF PumpDone
  <2>5. PICK p : p = PumpDone(m)
    OBVIOUS
  <2>6. p.fw = g /\ PumpDone(a) = [p EXCEPT !.fw = k]
    <3>1. p = [fw |-> g, mask |-> mask0, inIsr |-> no, ctrl |-> "run", ret |-> 0]
      BY ONLY <1>5, <2>4, <2>5, ZenonT(60)
    <3>2. PumpDone(a) = [fw |-> k, mask |-> mask0, inIsr |-> no, ctrl |-> "run", ret |-> 0]
      BY ONLY <1>5, <2>4, <2>5
    <3> QED
      BY <1>4, <3>1, <3>2
  <2> QED
    BY <2>2, <2>5, <2>6 DEF Ahead, Onward
<1>11. ASSUME Quiet(m), ~AtLast(f)
       PROVE  AfterQuiet(a) = Ahead(AfterQuiet(m), d) /\ Onward(AfterQuiet(m))
  <2>1. PICK g, k : /\ g = RxResume(f, 0) /\ k = More(g, d)
                    /\ Resume(m.fw, 0) = g /\ Resume(a.fw, 0) = k
                    /\ Going(g) /\ g.pc # "end"
    BY <1>6, <1>11
  <2>2. Op(a) = Op(m) /\ a.mask = m.mask
    <3>1. a.mask = m.mask
      BY ONLY <1>5, Zenon
    <3>2. Request(a.fw) = Request(m.fw)
      BY <1>3, Zenon
    <3> QED
      BY <3>1, <3>2 DEF Op
  <2>3. \E mask, ctrl : /\ AfterQuiet(m) = [m EXCEPT !.fw = g, !.mask = mask, !.ctrl = ctrl]
                        /\ AfterQuiet(a) = [a EXCEPT !.fw = k, !.mask = mask, !.ctrl = ctrl]
    <3>1. CASE Op(m) = "step"
      <4>1. /\ AfterQuiet(m) = [m EXCEPT !.fw = g]
            /\ AfterQuiet(a) = [a EXCEPT !.fw = k]
        BY <2>1, <2>2, <3>1 DEF AfterQuiet, Return
      <4>2. /\ AfterQuiet(m) = [m EXCEPT !.fw = g, !.mask = mask0, !.ctrl = ctrl0]
            /\ AfterQuiet(a) = [a EXCEPT !.fw = k, !.mask = mask0, !.ctrl = ctrl0]
        BY ONLY <1>5, <4>1, ZenonT(60)
      <4> QED
        BY <4>2
    <3>2. CASE Op(m) = "disable"
      <4>1. PICK mask : mask = m.mask + 1
        OBVIOUS
      <4>2. /\ AfterQuiet(m) = [m EXCEPT !.fw = g, !.mask = mask]
            /\ AfterQuiet(a) = [a EXCEPT !.fw = k, !.mask = mask]
        BY <2>1, <2>2, <3>2, <4>1 DEF AfterQuiet, IrqDisable
      <4>3. /\ AfterQuiet(m) = [m EXCEPT !.fw = g, !.mask = mask, !.ctrl = ctrl0]
            /\ AfterQuiet(a) = [a EXCEPT !.fw = k, !.mask = mask, !.ctrl = ctrl0]
        BY ONLY <1>5, <4>2
      <4> QED
        BY <4>3
    <3>3. CASE Op(m) = "enable"
      <4>1. PICK mask : mask = IF m.mask > 0 THEN m.mask - 1 ELSE 0
        OBVIOUS
      <4>2. /\ AfterQuiet(m) = [m EXCEPT !.fw = g, !.mask = mask]
            /\ AfterQuiet(a) = [a EXCEPT !.fw = k, !.mask = mask]
        BY <2>1, <2>2, <3>3, <4>1 DEF AfterQuiet, IrqEnable
      <4>3. /\ AfterQuiet(m) = [m EXCEPT !.fw = g, !.mask = mask, !.ctrl = ctrl0]
            /\ AfterQuiet(a) = [a EXCEPT !.fw = k, !.mask = mask, !.ctrl = ctrl0]
        BY ONLY <1>5, <4>2
      <4> QED
        BY <4>3
    <3>4. CASE Op(m) = "iret"
      <4>1. /\ AfterQuiet(m) = [m EXCEPT !.fw = g, !.ctrl = "pump"]
            /\ AfterQuiet(a) = [a EXCEPT !.fw = k, !.ctrl = "pump"]
        BY <2>1, <2>2, <3>4 DEF AfterQuiet, HandlerReturn
      <4>2. /\ AfterQuiet(m) = [m EXCEPT !.fw = g, !.mask = mask0, !.ctrl = "pump"]
            /\ AfterQuiet(a) = [a EXCEPT !.fw = k, !.mask = mask0, !.ctrl = "pump"]
        BY ONLY <1>5, <4>1, ZenonT(60)
      <4> QED
        BY <4>2
    <3> QED
      BY <1>11, <3>1, <3>2, <3>3, <3>4, ZenonT(60) DEF Quiet
  <2>4. PICK mask, ctrl, p :
           /\ p = AfterQuiet(m) /\ p = [m EXCEPT !.fw = g, !.mask = mask, !.ctrl = ctrl]
           /\ AfterQuiet(a) = [a EXCEPT !.fw = k, !.mask = mask, !.ctrl = ctrl]
    BY <2>3
  <2>5. p.fw = g /\ AfterQuiet(a) = [p EXCEPT !.fw = k]
    <3>1. p = [fw |-> g, mask |-> mask, inIsr |-> inIsr0, ctrl |-> ctrl, ret |-> ret0]
      BY ONLY <1>5, <2>4
    <3>2. AfterQuiet(a) = [fw |-> k, mask |-> mask, inIsr |-> inIsr0, ctrl |-> ctrl, ret |-> ret0]
      BY ONLY <1>5, <2>4
    <3> QED
      BY <1>4, <3>1, <3>2
  <2> QED
    BY <2>1, <2>4, <2>5 DEF Ahead, Onward
<1> QED
  BY <1>1, <1>8, <1>9, <1>10, <1>11

\* The example halts at its end, which it reaches from its last look at the count.
LEMMA HaltIs ==
    ASSUME NEW f, Shaped(f)
    PROVE  /\ RxRequest(f).op = "halt" => f.isr = "none" /\ f.pc = "end"
           /\ AtLast(f) => /\ RxRequest(f).op = "step"
                           /\ \A v : LET g == RxResume(f, v)
                                     IN /\ g.isr = "none" /\ g.pc = "end"
                                        /\ RxRequest(g).op = "halt"
<1>1. ASSUME RxRequest(f).op = "halt" PROVE f.isr = "none" /\ f.pc = "end"
  <2>1. CASE f.isr = "none"
    <3>1. CASE f.pc \in {"mask_load", "mask_settle"}
      BY <1>1, <2>1, <3>1 DEF RxRequest, MainRequest, Call
    <3>2. CASE f.pc \in {"unmask_load", "unmask_settle"}
      BY <1>1, <2>1, <3>2 DEF RxRequest, MainRequest, Call
    <3>3. CASE f.pc \in {"idle", "stamp"}
      BY <1>1, <2>1, <3>3 DEF RxRequest, MainRequest, Call
    <3>4. CASE f.pc = "show"
      BY <1>1, <2>1, <3>4 DEF RxRequest, MainRequest, Call
    <3>5. CASE f.pc \in {"top", "load", "take", "settle"}
      BY <1>1, <2>1, <3>5 DEF RxRequest, MainRequest, Call
    <3> QED
      BY <2>1, <3>1, <3>2, <3>3, <3>4, <3>5 DEF Shaped, Positions, Accesses
  <2>2. CASE f.isr = "status"
    BY <1>1, <2>2 DEF RxRequest, IsrRequest, Call
  <2>3. CASE f.isr = "data"
    BY <1>1, <2>3 DEF RxRequest, IsrRequest, Call
  <2>4. CASE f.isr = "leave"
    BY <1>1, <2>4 DEF RxRequest, IsrRequest, Call
  <2> QED
    BY <2>1, <2>2, <2>3, <2>4 DEF Shaped
<1>2. ASSUME AtLast(f)
      PROVE  /\ RxRequest(f).op = "step"
             /\ \A v : LET g == RxResume(f, v)
                       IN g.isr = "none" /\ g.pc = "end" /\ RxRequest(g).op = "halt"
  <2>1. RxRequest(f).op = "step"
    BY <1>2 DEF AtLast, RxRequest, MainRequest, Call
  <2>2. PICK g : g = [f EXCEPT !.pc = "end"]
    OBVIOUS
  <2>3. \A v : RxResume(f, v) = g
    BY <1>2, <2>2 DEF AtLast, RxResume, MainResume, Top
  <2>4. g.isr = "none" /\ g.pc = "end"
    BY <1>2, <2>2 DEF AtLast, Shaped
  <2>5. RxRequest(g).op = "halt"
    BY <2>4 DEF RxRequest, MainRequest, Call
  <2> QED
    BY <2>1, <2>3, <2>4, <2>5
<1> QED
  BY <1>1, <1>2

--------------------------------------------------------------------------------

\* Where the firmware that is replayed has come from.
Origin ==
    /\ Recorded \in Firmware
    /\ IF phase = "record" THEN from = Recorded ELSE from \in ReplayedAs(Recorded)

\* How the recording has ended.
Ended ==
    phase # "record" =>
        /\ Halted(path[Len(path)].m) /\ HalInv(path[Len(path)].m)
        /\ path[Len(path)].events = Len(trace) - 1

\* A replay of more iterations than were recorded is one step with the recording,
Along ==
    /\ step \in 1 .. Len(path) - 1
    /\ HalInv(path[step].m) /\ Onward(path[step].m)
    /\ hal = Ahead(path[step].m, from.iters - Recorded.iters)
    /\ cursor = path[step].events

\* or has gone on where it ended, and not made an access yet,
Before == {"mask_load", "load", "unmask_load", "idle", "take", "stamp"}
Beyond ==
    /\ cursor = Len(trace) - 1
    /\ hal.ctrl = "run" /\ hal.fw.isr = "none" /\ hal.fw.pc \in Before

\* or has made an access, and been found out.
Overrun ==
    phase # "record" /\ from.iters > Recorded.iters /\ from.variant = Recorded.variant =>
        \/ divergence = "past the end"
        \/ phase = "replay" /\ divergence = "none" /\ (Along \/ Beyond)

\* What OverrunDiverges rests on.
OverInv == Origin /\ Ended /\ Overrun

\* The replay starts with the recording.
LEMMA OverStart ==
    ASSUME RunsTheExample, CountsIterations, IInv, HalInv(hal), OverInv, StopAndReplay,
           PathInv'
    PROVE  OverInv'
<1>1. /\ phase = "record" /\ phase' = "replay" /\ Halted(hal) /\ path' = path
      /\ from' \in ReplayedAs(from) /\ hal' = Start(from')
      /\ cursor' = 0 /\ divergence' = "none" /\ step' = 1
      /\ trace' = Append(trace, Event("stop", dev, 0, 0))
  BY DEF StopAndReplay
<1>2. /\ path[1] = [m |-> Start(Recorded), events |-> 0]
      /\ Len(path) \in Nat \ {0} /\ Len(trace) \in Nat /\ Len(trace') = Len(trace) + 1
  BY <1>1, AppendFacts DEF IInv, PathInv
<1>3. path[Len(path)].m = hal /\ path[Len(path)].events = Len(trace)
  BY <1>1, EntryFields DEF IInv, RecordInv
<1>4. Origin'
  BY <1>1 DEF OverInv, Origin, Recorded
<1>5. Ended'
  BY <1>1, <1>2, <1>3 DEF Ended
<1>6. ASSUME from'.iters > Recorded.iters, from'.variant = Recorded.variant
      PROVE  Along'
  <2>1. PICK v, k, u, l : Recorded = FwReset(v, k) /\ from' = FwReset(u, l)
    BY <1>1, <1>4 DEF RunsTheExample, OverInv, Origin
  <2>2. /\ Recorded.iters = k /\ Recorded.variant = v
        /\ from'.iters = l /\ from'.variant = u
    BY <2>1 DEF FwReset
  <2>3. k \in Nat /\ l \in Nat /\ l > k /\ u = v
    BY <1>1, <1>6, <2>2 DEF CountsIterations, OverInv, Origin
  <2>4. path[1].m = Start(Recorded) /\ path[1].events = 0
    BY <1>2, EntryFields
  <2>5. /\ HalInv(path[1].m) /\ Onward(path[1].m)
    <3>1. Start(Recorded).fw = FwReset(v, k)
      BY <2>1 DEF Start
    <3>2. Going(FwReset(v, k)) /\ FwReset(v, k).pc # "end"
      BY <2>3 DEF FwReset, Going
    <3> QED
      BY <2>1, <2>4, <3>1, <3>2, StartInv DEF Onward
  <2>6. hal' = Ahead(path[1].m, l - k)
    <3>1. FwReset(u, l) = More(FwReset(v, k), l - k)
      <4>1. PICK d : d = l - k
        OBVIOUS
      <4>2. k + d = l
        BY <2>3, <4>1
      <4>3. Twins(FwReset(v, k), FwReset(u, l), d)
        BY <2>3, <4>2 DEF Twins, FwReset
      <4>4. Shaped(FwReset(v, k)) /\ Shaped(FwReset(u, l))
        BY ResetInv DEF FwInv
      <4> QED
        BY <4>1, <4>3, <4>4, TwinsAre
    <3>2. PICK f, g : f = FwReset(v, k) /\ g = FwReset(u, l) /\ g = More(f, l - k)
      BY <3>1
    <3>3. PICK no : no = FALSE
      OBVIOUS
    <3>4. PICK a, b : a = Start(f) /\ b = Start(g)
      OBVIOUS
    <3>5. /\ a = [fw |-> f, mask |-> 0, inIsr |-> no, ctrl |-> "run", ret |-> 0]
          /\ b = [fw |-> g, mask |-> 0, inIsr |-> no, ctrl |-> "run", ret |-> 0]
      BY <3>3, <3>4 DEF Start
    <3>6. b = [a EXCEPT !.fw = g] /\ a.fw = f
      BY ONLY <3>5
    <3> QED
      BY <1>1, <2>1, <2>4, <3>2, <3>4, <3>6 DEF Ahead
  <2>7. Len(path) # 1
    <3>1. RxRequest(hal.fw).op = "halt" /\ Shaped(hal.fw)
      BY <1>1 DEF Halted, Op, RunsTheExample, HalInv, FwInv
    <3> QED
      BY <1>3, <2>5, <3>1, HaltIs DEF Onward
  <2>8. step' \in 1 .. Len(path') - 1
    <3>1. PICK n : n = Len(path)
      OBVIOUS
    <3>2. n \in Nat \ {0} /\ n # 1
      BY <1>2, <2>7, <3>1
    <3>3. 1 \in 1 .. n - 1
      BY <3>2
    <3> QED
      BY <1>1, <3>1, <3>3
  <2>9. Recorded' = Recorded
    BY <1>1 DEF Recorded
  <2> QED
    BY <1>1, <2>2, <2>4, <2>5, <2>6, <2>8, <2>9 DEF Along, HalInv, Onward
<1>7. Recorded' = Recorded
  BY <1>1 DEF Recorded
<1> QED
  BY <1>1, <1>4, <1>5, <1>6, <1>7 DEF OverInv, Overrun

\* What explains a step of the recording explains the same step with more to go.
LEMMA AheadExplained ==
    ASSUME RunsTheExample, NEW some, NEW ev, NEW here, NEW there,
           Explains(some, ev, here, there),
           HalInv(here.m), Onward(here.m), NEW d \in Nat \ {0},
           ~(Quiet(here.m) /\ AtLast(here.m.fw))
    PROVE  /\ HalInv(there.m) /\ Onward(there.m)
           /\ Explains(some, ev, [m |-> Ahead(here.m, d), events |-> here.events],
                                 [m |-> Ahead(there.m, d), events |-> there.events])
<1> DEFINE x == Ahead(here.m, d)
           y == Ahead(there.m, d)
           a == [m |-> x, events |-> here.events]
           b == [m |-> y, events |-> there.events]
<1>1. /\ Request(x.fw) = Request(here.m.fw)
      /\ Reading(x) <=> Reading(here.m)
      /\ Writing(x) <=> Writing(here.m)
      /\ Polling(x) <=> Polling(here.m)
      /\ Quiet(x) <=> Quiet(here.m)
  BY AheadIs
<1> HIDE DEF x, y
<1>2. /\ a.m = x /\ a.events = here.events
      /\ b.m = y /\ b.events = there.events
  OBVIOUS
<1> HIDE DEF a, b
<1>3. CASE /\ Reading(here.m) /\ some /\ ev.type = "read"
           /\ ev.addr = Request(here.m.fw).addr
           /\ there.m = Pump(here.m, ev.value) /\ there.events = here.events + 1
  <2>1. HalInv(there.m) /\ Onward(there.m) /\ y = Pump(x, ev.value)
    BY <1>3, PumpInv, AheadSteps DEF x, y
  <2>2. Explains(some, ev, a, b)
    BY <1>1, <1>2, <1>3, <2>1 DEF Explains
  <2> QED
    BY <2>1, <2>2 DEF a, b, x, y
<1>4. CASE /\ Writing(here.m) /\ some /\ ev.type = "write"
           /\ ev.addr = Request(here.m.fw).addr
           /\ ev.value = Request(here.m.fw).value
           /\ there.m = Pump(here.m, 0) /\ there.events = here.events + 1
  <2>1. HalInv(there.m) /\ Onward(there.m) /\ y = Pump(x, 0)
    BY <1>4, PumpInv, AheadSteps DEF x, y
  <2>2. Explains(some, ev, a, b)
    BY <1>1, <1>2, <1>4, <2>1 DEF Explains
  <2> QED
    BY <2>1, <2>2 DEF a, b, x, y
<1>5. CASE /\ Polling(here.m) /\ some /\ ev.type = "irq"
           /\ there.m = Dispatch(here.m, ev.addr) /\ there.events = here.events + 1
  <2>1. HalInv(there.m) /\ Onward(there.m) /\ y = Dispatch(x, ev.addr)
    BY <1>5, PollInv, AheadSteps DEF x, y
  <2>2. Explains(some, ev, a, b)
    BY <1>1, <1>2, <1>5, <2>1 DEF Explains
  <2> QED
    BY <2>1, <2>2 DEF a, b, x, y
<1>6. CASE /\ Polling(here.m) /\ ~(some /\ ev.type = "irq")
           /\ there.m = PumpDone(here.m) /\ there.events = here.events
  <2>1. HalInv(there.m) /\ Onward(there.m) /\ y = PumpDone(x)
    BY <1>6, PollInv, AheadSteps DEF x, y
  <2>2. Explains(some, ev, a, b)
    BY <1>1, <1>2, <1>6, <2>1 DEF Explains
  <2> QED
    BY <2>1, <2>2 DEF a, b, x, y
<1>7. CASE /\ Quiet(here.m)
           /\ there.m = AfterQuiet(here.m) /\ there.events = here.events
  <2>1. HalInv(there.m) /\ Onward(there.m) /\ y = AfterQuiet(x)
    BY <1>7, QuietInv, AheadSteps DEF x, y
  <2>2. Explains(some, ev, a, b)
    BY <1>1, <1>2, <1>7, <2>1 DEF Explains
  <2> QED
    BY <2>1, <2>2 DEF a, b, x, y
<1> QED
  BY <1>3, <1>4, <1>5, <1>6, <1>7 DEF Explains

\* The steps of a replay.
Replays == ReplayRead \/ ReplayWrite \/ ReplayIrq \/ ReplayNoIrq \/ ReplayQuiet

\* Short of the recording's last look at the count the replay stays with it,
LEMMA AlongGoesOn ==
    ASSUME RunsTheExample, RecordWrites, IInv, Ended, Along, Replays,
           NEW d \in Nat \ {0}, d = from.iters - Recorded.iters,
           ~(Quiet(path[step].m) /\ AtLast(path[step].m.fw))
    PROVE  Along' /\ divergence' = divergence
<1>1. /\ phase = "replay" /\ step' = step + 1
      /\ UNCHANGED <<phase, trace, path, from>>
  BY DEF Replays, ReplayRead, ReplayWrite, ReplayIrq, ReplayNoIrq, ReplayQuiet,
         UNCHANGED_record
<1>2. PICK here, there : here = path[step] /\ there = path[step + 1]
  OBVIOUS
<1>3. /\ step \in 1 .. Len(path) - 1 /\ HalInv(here.m) /\ Onward(here.m)
      /\ hal = Ahead(here.m, d) /\ cursor = here.events
  BY <1>2 DEF Along
<1>4. /\ Len(path) \in Nat /\ Len(trace) \in Nat /\ cursor \in Nat /\ IsMachine(hal)
  <2>1. Len(path) \in Nat /\ Len(trace) \in Nat
    BY AppendFacts DEF IInv, PathInv
  <2>2. here.events \in Nat
    BY <1>2, <1>3, <2>1 DEF IInv, PathInv
  <2> QED
    BY <1>3, <2>1, <2>2 DEF IInv
<1>5. Explains(cursor < Len(trace), trace[cursor + 1], here, there)
  BY <1>2, <1>3 DEF IInv, PathInv, ExplainedAt
<1>6. /\ HalInv(there.m) /\ Onward(there.m)
      /\ Explains(cursor < Len(trace), trace[cursor + 1],
                  [m |-> Ahead(here.m, d), events |-> here.events],
                  [m |-> Ahead(there.m, d), events |-> there.events])
  BY <1>2, <1>3, <1>5, AheadExplained
<1>7. hal' = Ahead(there.m, d) /\ cursor' = there.events /\ divergence' = divergence
  <2>1. PICK a, b : /\ a = [m |-> Ahead(here.m, d), events |-> here.events]
                    /\ b = [m |-> Ahead(there.m, d), events |-> there.events]
    OBVIOUS
  <2>2. /\ a.m = hal /\ a.events = cursor
        /\ b.m = Ahead(there.m, d) /\ b.events = there.events
    BY <1>3, <2>1
  <2>3. Explains(cursor < Len(trace), trace[cursor + 1], a, b)
    BY <1>6, <2>1
  <2> QED
    BY <1>4, <2>2, <2>3, TakesTheStep DEF Replays
<1>8. step + 1 # Len(path)
  <2>1. SUFFICES ASSUME step + 1 = Len(path) PROVE FALSE
    OBVIOUS
  <2>2. Halted(there.m)
    BY <1>1, <1>2, <2>1 DEF Ended
  <2>3. RxRequest(there.m.fw).op = "halt" /\ Shaped(there.m.fw)
    BY <1>6, <2>2 DEF Halted, Op, RunsTheExample, HalInv, FwInv
  <2> QED
    BY <1>6, <2>3, HaltIs DEF Onward
<1>9. step' \in 1 .. Len(path') - 1
  BY <1>1, <1>3, <1>4, <1>8
<1>10. Recorded' = Recorded
  BY <1>1 DEF Recorded
<1>11. path'[step'] = there
  BY <1>1, <1>2
<1> QED
  BY <1>1, <1>6, <1>7, <1>9, <1>10, <1>11 DEF Along, HalInv, Onward

\* and there the recording ends, and the replay goes on.
LEMMA AlongPasses ==
    ASSUME RunsTheExample, IInv, Ended, Along, Replays,
           NEW d \in Nat \ {0}, d = from.iters - Recorded.iters,
           Quiet(path[step].m), AtLast(path[step].m.fw)
    PROVE  Beyond' /\ divergence' = divergence
<1>1. /\ phase = "replay" /\ UNCHANGED <<phase, trace, path, from>>
  BY DEF Replays, ReplayRead, ReplayWrite, ReplayIrq, ReplayNoIrq, ReplayQuiet,
         UNCHANGED_record
<1>2. PICK here, there : here = path[step] /\ there = path[step + 1]
  OBVIOUS
<1>3. /\ step \in 1 .. Len(path) - 1 /\ HalInv(here.m)
      /\ hal = Ahead(here.m, d) /\ cursor = here.events
      /\ Quiet(here.m) /\ AtLast(here.m.fw)
  BY <1>2 DEF Along
<1>4. Len(path) \in Nat
  BY AppendFacts DEF IInv, PathInv
<1>5. Shaped(here.m.fw) /\ FwInv(here.m.fw) /\ here.m.ctrl = "run"
  BY <1>3 DEF HalInv, FwInv, Quiet
<1>6. Op(here.m) = "step" /\ Request(hal.fw) = Request(here.m.fw) /\ Quiet(hal)
  BY <1>3, <1>5, HaltIs, AheadIs DEF Op, RunsTheExample
<1>7. there.m = AfterQuiet(here.m) /\ there.events = here.events
  <2>1. Explains(cursor < Len(trace), trace[cursor + 1], here, there)
    BY <1>2, <1>3 DEF IInv, PathInv, ExplainedAt
  <2> QED
    BY <1>3, <2>1, Exclusive DEF Explains
<1>8. Halted(there.m)
  <2>1. PICK g : g = RxResume(here.m.fw, 0) /\ g.pc = "end" /\ RxRequest(g).op = "halt"
    BY <1>3, <1>5, HaltIs
  <2>2. there.m = [here.m EXCEPT !.fw = g]
    BY <1>6, <1>7, <2>1 DEF AfterQuiet, Return, RunsTheExample
  <2>3. there.m.fw = g /\ there.m.ctrl = "run" /\ there.m.inIsr = here.m.inIsr
    BY <1>3, <1>5, <2>2 DEF HalInv
  <2>4. ~here.m.inIsr
    BY <1>3, <1>5 DEF HalInv, AtLast
  <2> QED
    BY <2>1, <2>3, <2>4 DEF Halted, Op, RunsTheExample
<1>9. step + 1 = Len(path)
  <2>1. SUFFICES ASSUME step + 1 # Len(path) PROVE FALSE
    OBVIOUS
  <2>2. step + 1 \in 1 .. Len(path) - 1
    BY <1>3, <1>4, <2>1
  <2>3. ExplainedAt(step + 1)
    BY <2>2 DEF IInv, PathInv
  <2> QED
    BY <1>2, <1>8, <2>3, Exclusive DEF ExplainedAt, Explains
<1>10. cursor = Len(trace) - 1
  BY <1>1, <1>2, <1>3, <1>7, <1>9 DEF Ended
<1>11. hal' = AfterQuiet(hal) /\ UNCHANGED <<cursor, divergence>>
  BY <1>6, Exclusive DEF Replays, ReplayRead, ReplayWrite, ReplayIrq, ReplayNoIrq,
                         ReplayQuiet
<1>12. PICK f, h : f = here.m.fw /\ h = More(f, d)
  OBVIOUS
<1>13. /\ hal = [fw |-> h, mask |-> here.m.mask, inIsr |-> here.m.inIsr,
                 ctrl |-> "run", ret |-> here.m.ret]
  BY <1>3, <1>5, <1>12, AheadIs
<1>14. FwInv(h) /\ Twins(f, h, d)
  BY <1>5, <1>12, MoreIs
<1>15. h.isr = "none" /\ h.pc = "top" /\ h.iters # 0
  <2>1. f.isr = "none" /\ f.pc = "top" /\ f.iters = 0
    BY <1>3, <1>12 DEF AtLast
  <2> QED
    BY <1>14, <2>1 DEF Twins
<1>16. PICK g : g = Top(h) /\ g.isr = "none" /\ g.pc \in Before
  <2>1. /\ Top(h).isr = "none" /\ Top(h).pc \in Before
    BY <1>14, <1>15 DEF Top, FwInv, Shaped, Before
  <2> QED
    BY <2>1
<1>17. hal' = [hal EXCEPT !.fw = g]
  <2>1. Op(hal) = "step" /\ hal.fw = h
    BY <1>6, <1>13 DEF Op
  <2>2. RxResume(hal.fw, 0) = g
    BY <1>15, <1>16, <2>1 DEF RxResume, MainResume
  <2> QED
    BY <1>11, <2>1, <2>2 DEF AfterQuiet, Return, RunsTheExample
<1>18. hal'.fw = g /\ hal'.ctrl = "run"
  BY <1>13, <1>17
<1> QED
  BY <1>1, <1>10, <1>11, <1>16, <1>18 DEF Beyond

\* Beyond the end, the first access finds the stop.
LEMMA BeyondStops ==
    ASSUME RunsTheExample, TypeOK, HalInv(hal), Beyond, Replays, divergence = "none"
    PROVE  \/ divergence' = "past the end"
           \/ divergence' = "none" /\ Beyond'
<1>1. /\ phase = "replay" /\ UNCHANGED <<phase, trace, path, from>>
  BY DEF Replays, ReplayRead, ReplayWrite, ReplayIrq, ReplayNoIrq, ReplayQuiet,
         UNCHANGED_record
<1>2. /\ cursor = Len(trace) - 1 /\ hal.ctrl = "run" /\ hal.fw.isr = "none"
      /\ hal.fw.pc \in Before
  BY DEF Beyond
<1>3. PICK f : f = hal.fw /\ FwInv(f) /\ Shaped(f)
  BY DEF HalInv, FwInv
<1>4. CASE f.pc \in Accesses
  <2>1. Op(hal) = "read"
    BY <1>2, <1>3, <1>4 DEF Op, RunsTheExample, RxRequest, MainRequest, Call,
                            Accesses, Before
  <2>2. Reading(hal)
    BY <1>2, <2>1 DEF Reading
  <2>3. Mismatch("read", Request(hal.fw).addr, 0) = "past the end"
    <3>1. cursor < Len(trace) => trace[cursor + 1].type = "stop"
      <4>1. cursor \in 0 .. Len(trace)
        BY DEF TypeOK
      <4>2. cursor < Len(trace) => cursor + 1 = Len(trace) /\ Len(trace) \in 1 .. Len(trace)
        BY <1>2, <4>1
      <4> QED
        BY <1>1, <4>2 DEF TypeOK
    <3> QED
      BY <1>2, <3>1 DEF Mismatch, TypeOK
  <2>4. ReplayRead
    BY <2>2, Exclusive DEF Replays, ReplayRead, ReplayWrite, ReplayIrq, ReplayNoIrq,
                           ReplayQuiet
  <2> QED
    BY <2>3, <2>4 DEF ReplayRead, Diverge
<1>5. CASE f.pc \notin Accesses
  <2>1. f.pc \in {"mask_load", "load", "unmask_load", "take"}
    BY <1>2, <1>3, <1>5 DEF Before, Accesses
  <2>2. Op(hal) \in {"step", "disable", "enable"}
    BY <1>2, <1>3, <2>1 DEF Op, RunsTheExample, RxRequest, MainRequest, Call
  <2>3. Quiet(hal)
    BY <1>2, <2>2 DEF Quiet
  <2>4. hal' = AfterQuiet(hal) /\ UNCHANGED <<cursor, divergence>>
    BY <2>3, Exclusive DEF Replays, ReplayRead, ReplayWrite, ReplayIrq, ReplayNoIrq,
                           ReplayQuiet
  <2>5. PICK g : g = RxResume(f, 0)
    OBVIOUS
  <2>6. g.isr = "none" /\ g.pc \in Before
    <3>1. f.isr = "none"
      BY <1>2, <1>3
    <3>2. CASE f.pc = "mask_load"
      BY <1>3, <2>5, <3>1, <3>2 DEF RxResume, MainResume, Shaped, Before
    <3>3. CASE f.pc = "load"
      <4>1. g = Load(f)
        BY <2>5, <3>1, <3>3 DEF RxResume, MainResume
      <4> QED
        BY <1>3, <3>1, <4>1 DEF Load, Shaped, Before
    <3>4. CASE f.pc = "unmask_load"
      <4>1. g = Branch(f)
        BY <2>5, <3>1, <3>4 DEF RxResume, MainResume
      <4> QED
        BY <1>3, <3>1, <4>1 DEF Branch, Shaped, Before
    <3>5. CASE f.pc = "take"
      <4>1. g = Take(f)
        BY <2>5, <3>1, <3>5, SMTT(60) DEF RxResume, MainResume
      <4> QED
        BY <1>3, <3>1, <4>1 DEF Take, Shaped, Before
    <3> QED
      BY <2>1, <3>2, <3>3, <3>4, <3>5
  <2>7. \E mask : AfterQuiet(hal) = [hal EXCEPT !.fw = g, !.mask = mask]
    <3>1. CASE Op(hal) = "step"
      <4>1. AfterQuiet(hal) = [hal EXCEPT !.fw = g]
        BY <1>3, <2>5, <3>1 DEF AfterQuiet, Return, RunsTheExample
      <4>2. AfterQuiet(hal) = [hal EXCEPT !.fw = g, !.mask = hal.mask]
        BY <4>1 DEF HalInv
      <4> QED
        BY <4>2
    <3>2. CASE Op(hal) = "disable"
      BY <1>3, <2>5, <3>2 DEF AfterQuiet, IrqDisable, RunsTheExample
    <3>3. CASE Op(hal) = "enable"
      BY <1>3, <2>5, <3>3 DEF AfterQuiet, IrqEnable, RunsTheExample
    <3> QED
      BY <2>2, <3>1, <3>2, <3>3
  <2>8. hal'.fw = g /\ hal'.ctrl = "run"
    BY <1>2, <2>4, <2>7 DEF HalInv
  <2> QED
    BY <1>1, <1>2, <2>4, <2>6, <2>8 DEF Beyond
<1> QED
  BY <1>4, <1>5

\* The first report latches.
LEMMA ReportLatches ==
    ASSUME Replays, divergence # "none"
    PROVE  divergence' = divergence
BY DEF Replays, ReplayRead, ReplayWrite, ReplayIrq, ReplayNoIrq, ReplayQuiet,
       Diverge, Consume

\* While recording, path keeps its first entry.
LEMMA OverRecords ==
    ASSUME IInv, OverInv,
           RecordRead \/ RecordWrite \/ RecordIrq \/ RecordNoIrq \/ RecordQuiet
    PROVE  OverInv'
<1>1. /\ phase = "record" /\ UNCHANGED <<phase, from>>
      /\ path' = Append(path, [m |-> hal', events |-> Len(trace')])
  BY DEF RecordRead, RecordWrite, RecordIrq, RecordNoIrq, RecordQuiet,
         UNCHANGED_replay, GoTo
<1>2. path'[1] = path[1]
  <2>1. Len(path) \in Nat /\ \A i \in 1 .. Len(path) : path'[i] = path[i]
    BY <1>1, AppendFacts DEF IInv, PathInv
  <2>2. 1 \in 1 .. Len(path)
    BY <2>1 DEF IInv, PathInv
  <2> QED
    BY <2>1, <2>2
<1>3. Recorded' = Recorded
  BY <1>2 DEF Recorded
<1> QED
  BY <1>1, <1>3 DEF OverInv, Origin, Ended, Overrun

\* Every step keeps all of this.
LEMMA OverStep ==
    ASSUME RunsTheExample, CountsIterations, RecordWrites, TypeOK, IInv, PathInv',
           HalInv(hal), OverInv, [Next]_vars
    PROVE  OverInv'
<1>1. CASE RecordRead \/ RecordWrite \/ RecordIrq \/ RecordNoIrq \/ RecordQuiet
  BY <1>1, OverRecords
<1>2. CASE StopAndReplay
  BY <1>2, OverStart
<1>3. CASE Replays
  <2>1. /\ phase = "replay" /\ UNCHANGED <<phase, trace, path, from>>
    BY <1>3 DEF Replays, ReplayRead, ReplayWrite, ReplayIrq, ReplayNoIrq, ReplayQuiet,
           UNCHANGED_record
  <2>2. Recorded' = Recorded
    BY <2>1 DEF Recorded
  <2>3. Origin' /\ Ended'
    BY <2>1, <2>2 DEF OverInv, Origin, Ended, HalInv
  <2>4. ASSUME from.iters > Recorded.iters, from.variant = Recorded.variant
        PROVE  \/ divergence' = "past the end"
               \/ divergence' = "none" /\ (Along' \/ Beyond')
    <3>1. CASE divergence = "past the end"
      BY <1>3, <3>1, ReportLatches
    <3>2. CASE divergence = "none" /\ Along
      <4>1. PICK d : d = from.iters - Recorded.iters
        OBVIOUS
      <4>2. d \in Nat \ {0}
        <5>1. Recorded.iters \in Nat /\ from.iters \in Nat
          BY <2>1 DEF OverInv, Origin, CountsIterations
        <5> QED
          BY <2>4, <4>1, <5>1
      <4> QED
        BY <1>3, <3>2, <4>1, <4>2, AlongGoesOn, AlongPasses DEF OverInv
    <3>3. CASE divergence = "none" /\ Beyond
      BY <1>3, <3>3, BeyondStops
    <3> QED
      BY <2>1, <2>4, <3>1, <3>2, <3>3 DEF OverInv, Overrun
  <2> QED
    BY <2>1, <2>2, <2>3, <2>4 DEF OverInv, Overrun
<1>4. CASE ReplayEnds
  <2>1. /\ phase = "replay" /\ phase' = "done" /\ Halted(hal)
        /\ UNCHANGED <<hal, trace, cursor, divergence, path, step, from>>
    BY <1>4 DEF ReplayEnds
  <2>2. hal.fw.isr = "none" /\ hal.fw.pc = "end"
    BY <2>1, HaltIs DEF Halted, Op, RunsTheExample, HalInv, FwInv
  <2>3. ~Along
    <3>1. SUFFICES ASSUME Along PROVE FALSE
      OBVIOUS
    <3>2. PICK p, d : HalInv(p) /\ Onward(p) /\ hal = Ahead(p, d)
      BY <3>1 DEF Along
    <3>3. hal.fw = More(p.fw, d)
      BY <3>2, AheadIs
    <3> QED
      BY <2>2, <3>2, <3>3, MoreIs DEF HalInv, Twins, Onward
  <2>4. ~Beyond
    BY <2>2, SMTT(60) DEF Beyond, Before
  <2> QED
    BY <2>1, <2>3, <2>4 DEF OverInv, Origin, Ended, Overrun, Recorded, HalInv
<1>5. CASE UNCHANGED vars
  BY <1>5 DEF vars, OverInv, Origin, Ended, Overrun, Recorded, HalInv, Along, Beyond,
              Onward
<1> QED
  BY <1>1, <1>2, <1>3, <1>4, <1>5 DEF Next, RecordStep, ReplayStep, Replays

\* A replay of more iterations than were recorded is reported, and the report is
\* the first that replay makes ("running past the end of a trace is a divergence,
\* not a guess", test_determinism.cpp).
THEOREM OverrunDivergesCorrect ==
    ASSUME RunsTheExample, CountsIterations, RecordWrites
    PROVE  Spec => []OverrunDiverges
<1>1. Init => OverInv
  <2> SUFFICES ASSUME Init PROVE OverInv
    OBVIOUS
  <2>1. path[1] = [m |-> hal, events |-> 0] /\ phase = "record" /\ hal = Start(from)
        /\ from \in Firmware
    BY DEF Init
  <2>2. Recorded = from
    BY <2>1, EntryFields DEF Recorded, Start
  <2> QED
    BY <2>1, <2>2 DEF OverInv, Origin, Ended, Overrun
<1>2. TypeOK /\ IInv /\ IInv' /\ HalInv(hal) /\ OverInv /\ [Next]_vars => OverInv'
  BY OverStep DEF IInv
<1>3. OverInv => OverrunDiverges
  BY DEF OverInv, Overrun, OverrunDiverges
<1> QED
  BY <1>1, <1>2, <1>3, IInvCorrect, HalInvCorrect, TypeCorrect, PTL DEF Spec

--------------------------------------------------------------------------------
(* A replay of either variant.                                               *)

\* Two firmwares that have done the same: fw::State but for pending.
SameWork(f, g) ==
    /\ g.ring = f.ring /\ g.head = f.head /\ g.tail = f.tail
    /\ g.consumed = f.consumed /\ g.checksum = f.checksum
    /\ g.last_stamp = f.last_stamp /\ g.overflows = f.overflows

\* The second has consumed one byte more, and not stamped it yet.
TookOne(f, g) ==
    /\ g.ring = f.ring /\ g.head = f.head /\ g.overflows = f.overflows
    /\ g.last_stamp = f.last_stamp
    /\ g.tail = After(f.tail) /\ g.consumed = f.consumed + 1
    /\ g.checksum = Append(f.checksum, f.ring[f.tail])

\* The positions where the main loop is between two bytes.
Apart == Positions \ {"stamp", "show"}

\* From f, between two bytes, the main loop has come to g without an access.
InGap(f, g) ==
    /\ g.isr = "none"
    /\ \/ g.pc \in Apart /\ SameWork(f, g)
       \/ g.pc = "stamp" /\ TookOne(f, g)

\* Only the fixed variant masks, around its uses of pending.
Critical == {"load", "unmask_load", "settle", "unmask_settle"}
MaskInv(m) ==
    /\ m.mask = IF Fixed(m.fw) /\ m.fw.pc \in Critical THEN 1 ELSE 0
    /\ ~Fixed(m.fw) =>
          m.fw.pc \notin {"mask_load", "unmask_load", "mask_settle", "unmask_settle"}

\* What a step of the main loop is to its position and its work.
LEMMA MainMoves ==
    ASSUME NEW f, FwInv(f), f.isr = "none", f.pc # "end", NEW v
    PROVE  LET g == MainResume(f, v)
           IN /\ g.isr = "none" /\ g.variant = f.variant
              /\ CASE f.pc = "take"  -> g.pc = "stamp" /\ TookOne(f, g)
                   [] f.pc = "stamp" -> /\ g.pc = "show"
                                        /\ SameWork([f EXCEPT !.last_stamp = v], g)
                   [] OTHER          -> g.pc \in Apart /\ SameWork(f, g)
              /\ f.pc \in {"idle", "stamp", "show", "take", "unmask_load",
                           "unmask_settle"} =>
                    g.pc \notin Critical \/ ~Fixed(f)
              /\ f.pc \in {"mask_load", "load", "mask_settle", "settle"} /\ Fixed(f) =>
                    g.pc \in Critical
              /\ f.pc = "top" => g.pc \notin Critical \/ ~Fixed(f)
              /\ f.pc \in {"mask_load", "mask_settle"} \/ Fixed(f)
                 \/ g.pc \notin {"mask_load", "unmask_load", "mask_settle", "unmask_settle"}
<1> DEFINE g == MainResume(f, v)
<1>1. Shaped(f)
  BY DEF FwInv
<1> USE DEF SameWork, TookOne, Apart, Critical, Positions, Accesses
<1>2. CASE f.pc = "top"
  <2>1. g = Top(f)
    BY <1>2 DEF MainResume
  <2> HIDE DEF g
  <2> QED
    BY <1>1, <1>2, <2>1 DEF Top, Shaped, Fixed, g
<1>3. CASE f.pc \in {"mask_load", "mask_settle"}
  <2>1. \E pc \in {"load", "settle"} : g = [f EXCEPT !.pc = pc]
    BY <1>3 DEF MainResume
  <2> HIDE DEF g
  <2> QED
    BY <1>1, <1>3, <2>1 DEF Shaped, Fixed, g
<1>4. CASE f.pc = "load"
  <2>1. g = Load(f)
    BY <1>4 DEF MainResume
  <2> HIDE DEF g
  <2> QED
    BY <1>1, <1>4, <2>1 DEF Load, Shaped, Fixed, g
<1>5. CASE f.pc = "unmask_load"
  <2>1. g = Branch(f)
    BY <1>5 DEF MainResume
  <2> HIDE DEF g
  <2> QED
    BY <1>1, <1>5, <2>1 DEF Branch, Shaped, Fixed, g
<1>6. CASE f.pc \in {"idle", "unmask_settle"}
  <2>1. g = NextIteration(f)
    BY <1>6 DEF MainResume
  <2> HIDE DEF g
  <2> QED
    BY <1>1, <1>6, <2>1 DEF NextIteration, Shaped, Fixed, g
<1>7. CASE f.pc = "take"
  <2>1. g = Take(f)
    BY <1>7 DEF MainResume
  <2> HIDE DEF g
  <2> QED
    BY <1>1, <1>7, <2>1 DEF Take, Shaped, Fixed, After, g
<1>8. CASE f.pc = "stamp"
  <2>1. g = StampTaken(f, v)
    BY <1>8 DEF MainResume
  <2>2. PICK h : h = [f EXCEPT !.last_stamp = v]
    OBVIOUS
  <2> HIDE DEF g
  <2>3. g.pc = "show" /\ g.isr = "none" /\ g.variant = f.variant /\ SameWork(h, g)
    BY <1>1, <1>8, <2>1, <2>2 DEF StampTaken, Shaped
  <2> QED
    BY <1>8, <2>2, <2>3 DEF g
<1>9. CASE f.pc = "show"
  <2>1. g = Shown(f)
    BY <1>9 DEF MainResume
  <2> HIDE DEF g
  <2> QED
    BY <1>1, <1>9, <2>1 DEF Shown, Shaped, Fixed, g
<1>10. CASE f.pc = "settle"
  <2>1. g = Settle(f)
    BY <1>10 DEF MainResume
  <2> HIDE DEF g
  <2> QED
    BY <1>1, <1>10, <2>1 DEF Settle, NextIteration, Shaped, Fixed, g
<1> QED
  BY <1>1, <1>2, <1>3, <1>4, <1>5, <1>6, <1>7, <1>8, <1>9, <1>10 DEF Shaped

\* And a step of the handler.
LEMMA HandlerMoves ==
    ASSUME NEW f, FwInv(f), f.isr # "none", NEW v
    PROVE  LET g == IsrResume(f, v)
           IN /\ g.pc = f.pc /\ g.variant = f.variant
              /\ g.isr = CASE f.isr = "status" -> (IF v = 1 THEN "data" ELSE "leave")
                           [] f.isr = "data"   -> "leave"
                           [] f.isr = "leave"  -> "none"
              /\ \A h : Shaped(h) /\ h.isr = f.isr /\ SameWork(h, f) =>
                            SameWork(IsrResume(h, v), g)
<1> DEFINE g == IsrResume(f, v)
<1>1. Shaped(f)
  BY DEF FwInv
<1> USE DEF SameWork
<1>2. CASE f.isr \in {"status", "leave"}
  <2>1. PICK isr : \A h : h.isr = f.isr => IsrResume(h, v) = [h EXCEPT !.isr = isr]
    BY <1>2 DEF IsrResume
  <2>2. g = [f EXCEPT !.isr = isr]
    BY <2>1
  <2>3. isr = IF f.isr = "leave" THEN "none" ELSE IF v = 1 THEN "data" ELSE "leave"
    <3>1. g.isr = IF f.isr = "leave" THEN "none" ELSE IF v = 1 THEN "data" ELSE "leave"
      BY <1>1, <1>2 DEF IsrResume, Shaped
    <3> HIDE DEF g
    <3> QED
      BY <1>1, <2>2, <3>1 DEF Shaped
  <2> HIDE DEF g
  <2>4. g.pc = f.pc /\ g.variant = f.variant /\ g.isr = isr /\ SameWork(f, g)
    BY <1>1, <2>2 DEF Shaped
  <2>5. ASSUME NEW h, Shaped(h), h.isr = f.isr, SameWork(h, f)
        PROVE  SameWork(IsrResume(h, v), g)
    <3>1. PICK k : k = IsrResume(h, v) /\ k = [h EXCEPT !.isr = isr]
      BY <2>1, <2>5
    <3>2. SameWork(h, k)
      BY <2>5, <3>1 DEF Shaped
    <3> QED
      BY <2>4, <2>5, <3>1, <3>2
  <2> QED
    BY <1>2, <2>3, <2>4, <2>5 DEF g
<1>3. CASE f.isr = "data"
  <2>1. g = StoreByte(f, v)
    BY <1>3 DEF IsrResume
  <2> HIDE DEF g
  <2>2. g.pc = f.pc /\ g.variant = f.variant /\ g.isr = "leave"
    BY <1>1, <2>1 DEF StoreByte, Shaped
  <2>3. ASSUME NEW h, Shaped(h), h.isr = f.isr, SameWork(h, f)
        PROVE  SameWork(IsrResume(h, v), g)
    <3>1. PICK k : k = IsrResume(h, v) /\ k = StoreByte(h, v)
      BY <1>3, <2>3 DEF IsrResume
    <3>2. SameWork(k, g)
      BY <1>1, <2>1, <2>3, <3>1 DEF StoreByte, Shaped
    <3> QED
      BY <3>1, <3>2
  <2> QED
    BY <1>3, <2>2, <2>3 DEF g
<1> QED
  BY <1>1, <1>2, <1>3 DEF Shaped

\* What the shim makes of an access: in the main loop interrupts are unmasked and it
\* polls, in the handler it returns.
LEMMA PumpIs ==
    ASSUME RunsTheExample, NEW m, HalInv(m), MaskInv(m), Reading(m) \/ Writing(m), NEW v
    PROVE  /\ MaskInv(Pump(m, v))
           /\ m.fw.isr = "none" =>
                 /\ m.fw.pc \in Accesses
                 /\ Pump(m, v).fw = m.fw /\ Pump(m, v).ctrl = "pump"
                 /\ Pump(m, v).ret = v
           /\ m.fw.isr # "none" =>
                 /\ m.fw.isr \in {"status", "data"}
                 /\ Pump(m, v).fw = IsrResume(m.fw, v) /\ Pump(m, v).ctrl = "run"
                 /\ Pump(m, v).ret = m.ret
<1>1. /\ m.ctrl = "run" /\ FwInv(m.fw) /\ Shaped(m.fw)
      /\ m.inIsr <=> m.fw.isr # "none"
      /\ \/ m.fw.isr \in {"status", "data"}
         \/ m.fw.isr = "none" /\ m.fw.pc \in Accesses
  <2>1. m.ctrl = "run" /\ FwInv(m.fw) /\ Shaped(m.fw) /\ (m.inIsr <=> m.fw.isr # "none")
    BY DEF HalInv, FwInv, Reading, Writing
  <2> QED
    BY <2>1, RequestIs DEF RunsTheExample, Reading, Writing, Op
<1>2. CASE m.fw.isr = "none"
  <2>1. m.mask = 0 /\ ~m.inIsr
    BY <1>1, <1>2 DEF MaskInv, Accesses, Critical
  <2>2. Pump(m, v) = [m EXCEPT !.inIsr = TRUE, !.ctrl = "pump", !.ret = v]
    BY <2>1 DEF Pump
  <2>3. /\ Pump(m, v).fw = m.fw /\ Pump(m, v).ctrl = "pump"
        /\ Pump(m, v).ret = v /\ Pump(m, v).mask = m.mask
    BY <2>2 DEF HalInv
  <2> QED
    BY <1>1, <1>2, <2>3 DEF MaskInv
<1>3. CASE m.fw.isr # "none"
  <2>1. PICK g : g = IsrResume(m.fw, v) /\ g.pc = m.fw.pc /\ g.variant = m.fw.variant
    BY <1>1, <1>3, HandlerMoves
  <2>2. Pump(m, v) = [m EXCEPT !.fw = g]
    BY <1>1, <1>3, <2>1 DEF Pump, Return, RunsTheExample, RxResume
  <2>3. /\ Pump(m, v).fw = g /\ Pump(m, v).ctrl = "run"
        /\ Pump(m, v).ret = m.ret /\ Pump(m, v).mask = m.mask
    BY <1>1, <2>2 DEF HalInv
  <2> QED
    BY <1>1, <1>3, <2>1, <2>3 DEF MaskInv, Fixed
<1> QED
  BY <1>2, <1>3

\* Of a poll.
LEMMA PollIs ==
    ASSUME RunsTheExample, NEW m, HalInv(m), MaskInv(m), Polling(m)
    PROVE  /\ m.fw.isr = "none" /\ m.fw.pc \in Accesses
           /\ MaskInv(PumpDone(m)) /\ PumpDone(m).fw = MainResume(m.fw, m.ret)
           /\ PumpDone(m).ctrl = "run" /\ PumpDone(m).ret = 0
           /\ \A i : /\ MaskInv(Dispatch(m, i)) /\ Dispatch(m, i).ret = m.ret
                     /\ IF i \in Handled
                        THEN /\ Dispatch(m, i).fw = [m.fw EXCEPT !.isr = "status"]
                             /\ Dispatch(m, i).ctrl = "run"
                        ELSE Dispatch(m, i) = m
<1>1. /\ FwInv(m.fw) /\ Shaped(m.fw) /\ m.fw.isr = "none" /\ m.fw.pc \in Accesses
  BY DEF HalInv, FwInv, Polling
<1>2. /\ MaskInv(PumpDone(m)) /\ PumpDone(m).fw = MainResume(m.fw, m.ret)
      /\ PumpDone(m).ctrl = "run" /\ PumpDone(m).ret = 0
  <2>1. PICK g : g = MainResume(m.fw, m.ret)
    OBVIOUS
  <2>2. PumpDone(m) = [m EXCEPT !.fw = g, !.inIsr = FALSE, !.ctrl = "run", !.ret = 0]
    BY <1>1, <2>1 DEF PumpDone, RunsTheExample, RxResume
  <2>3. /\ PumpDone(m).fw = g /\ PumpDone(m).ctrl = "run"
        /\ PumpDone(m).ret = 0 /\ PumpDone(m).mask = m.mask
    BY <2>2 DEF HalInv
  <2>4. /\ g.variant = m.fw.variant
        /\ g.pc \notin Critical \/ ~Fixed(m.fw)
        /\ Fixed(m.fw) \/ g.pc \notin {"mask_load", "unmask_load", "mask_settle",
                                       "unmask_settle"}
    BY <1>1, <2>1, MainMoves DEF Accesses
  <2> QED
    BY <1>1, <2>1, <2>3, <2>4 DEF MaskInv, Fixed, Accesses, Critical
<1>3. ASSUME NEW i
      PROVE  /\ MaskInv(Dispatch(m, i)) /\ Dispatch(m, i).ret = m.ret
             /\ IF i \in Handled
                THEN /\ Dispatch(m, i).fw = [m.fw EXCEPT !.isr = "status"]
                     /\ Dispatch(m, i).ctrl = "run"
                ELSE Dispatch(m, i) = m
  <2>1. CASE i \in Handled
    <3>1. PICK g : g = [m.fw EXCEPT !.isr = "status"]
      OBVIOUS
    <3>2. g.pc = m.fw.pc /\ g.variant = m.fw.variant
      BY <1>1, <3>1 DEF Shaped
    <3>3. Dispatch(m, i) = [m EXCEPT !.fw = g, !.ctrl = "run"]
      BY <2>1, <3>1 DEF Dispatch, RunsTheExample, RxEnterIsr
    <3>4. /\ Dispatch(m, i).fw = g /\ Dispatch(m, i).ctrl = "run"
          /\ Dispatch(m, i).ret = m.ret /\ Dispatch(m, i).mask = m.mask
      BY <3>3 DEF HalInv
    <3> QED
      BY <2>1, <3>1, <3>2, <3>4 DEF MaskInv, Fixed
  <2>2. CASE i \notin Handled
    BY <2>2 DEF Dispatch
  <2> QED
    BY <2>1, <2>2
<1> QED
  BY <1>1, <1>2, <1>3

\* Of the calls that reach no backend.
LEMMA QuietIs ==
    ASSUME RunsTheExample, NEW m, HalInv(m), MaskInv(m), Quiet(m)
    PROVE  /\ MaskInv(AfterQuiet(m))
           /\ m.fw.isr = "none" =>
                 /\ m.fw.pc \notin Accesses \cup {"end"}
                 /\ AfterQuiet(m).fw = MainResume(m.fw, 0)
                 /\ AfterQuiet(m).ctrl = "run"
           /\ m.fw.isr # "none" =>
                 /\ m.fw.isr = "leave" /\ AfterQuiet(m).fw = IsrResume(m.fw, 0)
                 /\ AfterQuiet(m).ctrl = "pump" /\ AfterQuiet(m).ret = m.ret
<1>1. /\ m.ctrl = "run" /\ FwInv(m.fw) /\ Shaped(m.fw)
      /\ m.inIsr <=> m.fw.isr # "none"
  BY DEF HalInv, FwInv, Quiet
<1>2. PICK f : f = m.fw
  OBVIOUS
<1>3. CASE Op(m) \in {"step", "disable", "enable"}
  <2>1. f.isr = "none" /\ f.pc \notin Accesses \cup {"end"}
    BY <1>1, <1>2, <1>3, RequestIs DEF RunsTheExample, Op
  <2>2. PICK g : g = MainResume(f, 0) /\ g = Resume(m.fw, 0)
    BY <1>2, <2>1 DEF RunsTheExample, RxResume
  <2>3. PICK mask :
           mask = CASE Op(m) = "step"    -> m.mask
                    [] Op(m) = "disable" -> m.mask + 1
                    [] Op(m) = "enable"  -> IF m.mask > 0 THEN m.mask - 1 ELSE 0
    OBVIOUS
  <2>4. AfterQuiet(m) = [m EXCEPT !.fw = g, !.mask = mask]
    <3>1. CASE Op(m) = "step"
      <4>1. AfterQuiet(m) = [m EXCEPT !.fw = g] /\ mask = m.mask
        BY <2>2, <2>3, <3>1 DEF AfterQuiet, Return
      <4> QED
        BY <4>1 DEF HalInv
    <3>2. CASE Op(m) = "disable"
      BY <2>2, <2>3, <3>2 DEF AfterQuiet, IrqDisable
    <3>3. CASE Op(m) = "enable"
      BY <2>2, <2>3, <3>3 DEF AfterQuiet, IrqEnable
    <3> QED
      BY <1>3, <3>1, <3>2, <3>3
  <2>5. /\ AfterQuiet(m).fw = g /\ AfterQuiet(m).ctrl = "run" /\ AfterQuiet(m).mask = mask
    BY <1>1, <2>4 DEF HalInv
  <2>6. MaskInv(AfterQuiet(m))
    <3>1. /\ Op(m) = "disable" <=> f.pc \in {"mask_load", "mask_settle"}
          /\ Op(m) = "enable" <=> f.pc \in {"unmask_load", "unmask_settle"}
          /\ Op(m) = "step" <=> f.pc \in {"top", "load", "take", "settle"}
      <4>1. Op(m) = MainRequest(f).op
        BY <1>2, <2>1 DEF Op, RunsTheExample, RxRequest
      <4>2. CASE f.pc \in {"mask_load", "mask_settle"}
        BY <4>1, <4>2 DEF MainRequest, Call
      <4>3. CASE f.pc \in {"unmask_load", "unmask_settle"}
        BY <4>1, <4>3 DEF MainRequest, Call
      <4>4. CASE f.pc \in {"top", "load", "take", "settle"}
        BY <4>1, <4>4 DEF MainRequest, Call
      <4> QED
        BY <1>1, <1>2, <2>1, <4>2, <4>3, <4>4 DEF Shaped, Positions
    <3>2. /\ g.variant = f.variant
          /\ f.pc \in {"take", "unmask_load", "unmask_settle", "top"} =>
                g.pc \notin Critical \/ ~Fixed(f)
          /\ f.pc \in {"mask_load", "load", "mask_settle", "settle"} /\ Fixed(f) =>
                g.pc \in Critical
          /\ \/ f.pc \in {"mask_load", "mask_settle"} \/ Fixed(f)
             \/ g.pc \notin {"mask_load", "unmask_load", "mask_settle", "unmask_settle"}
      <4>1. FwInv(f) /\ f.isr = "none" /\ f.pc # "end" /\ g = MainResume(f, 0)
        BY <1>1, <1>2, <2>1, <2>2
      <4> QED
        BY <4>1, MainMoves
    <3>3. m.mask = IF Fixed(f) /\ f.pc \in Critical THEN 1 ELSE 0
      BY <1>2 DEF MaskInv
    <3>4. mask = IF Fixed(g) /\ g.pc \in Critical THEN 1 ELSE 0
      <4>1. CASE Fixed(f)
        BY <1>1, <1>2, <1>3, <2>1, <2>3, <3>1, <3>2, <3>3, <4>1
           DEF Fixed, Critical
      <4>2. CASE ~Fixed(f)
        <5>1. Op(m) = "step" /\ mask = m.mask
          BY <1>2, <1>3, <2>3, <3>1, <4>2 DEF MaskInv
        <5> QED
          BY <3>2, <3>3, <4>2, <5>1 DEF Fixed
      <4> QED
        BY <4>1, <4>2
    <3>5. ~Fixed(g) =>
            g.pc \notin {"mask_load", "unmask_load", "mask_settle", "unmask_settle"}
      BY <1>2, <3>2 DEF MaskInv, Fixed
    <3> QED
      BY <2>5, <3>4, <3>5 DEF MaskInv
  <2> QED
    BY <1>2, <2>1, <2>2, <2>5, <2>6
<1>4. CASE Op(m) = "iret" /\ m.inIsr
  <2>1. f.isr = "leave"
    BY <1>1, <1>2, <1>4, RequestIs DEF RunsTheExample, Op
  <2>2. PICK g : g = IsrResume(f, 0) /\ g.pc = f.pc /\ g.variant = f.variant
    BY <1>1, <1>2, <2>1, HandlerMoves
  <2>3. AfterQuiet(m) = [m EXCEPT !.fw = g, !.ctrl = "pump"]
    BY <1>2, <1>4, <2>1, <2>2 DEF AfterQuiet, HandlerReturn, RunsTheExample, RxResume
  <2>4. /\ AfterQuiet(m).fw = g /\ AfterQuiet(m).ctrl = "pump"
        /\ AfterQuiet(m).ret = m.ret /\ AfterQuiet(m).mask = m.mask
    BY <2>3 DEF HalInv
  <2> QED
    BY <1>2, <2>1, <2>2, <2>4 DEF MaskInv, Fixed
<1> QED
  BY <1>3, <1>4 DEF Quiet

\* The machine runs the main loop between two bytes.
Free(m) == m.ctrl = "run" /\ m.fw.isr = "none" /\ m.fw.pc \in Apart

\* On the way to the next access the work stays what it is.
LEMMA GapStep ==
    ASSUME NEW f, NEW g, FwInv(g), InGap(f, g), g.pc \notin Accesses \cup {"end"}
    PROVE  InGap(f, MainResume(g, 0))
<1>1. PICK h : /\ h = MainResume(g, 0) /\ h.isr = "none"
               /\ CASE g.pc = "take"  -> h.pc = "stamp" /\ TookOne(g, h)
                    [] g.pc = "stamp" -> /\ h.pc = "show"
                                         /\ SameWork([g EXCEPT !.last_stamp = 0], h)
                    [] OTHER          -> h.pc \in Apart /\ SameWork(g, h)
  BY MainMoves DEF InGap
<1>2. g.pc \in Apart /\ SameWork(f, g)
  BY DEF InGap, Accesses
<1>3. CASE g.pc = "take"
  BY <1>1, <1>2, <1>3 DEF InGap, SameWork, TookOne
<1>4. CASE g.pc # "take"
  <2>1. h.pc \in Apart /\ SameWork(g, h)
    BY <1>1, <1>4 DEF Accesses
  <2> QED
    BY <1>1, <1>2, <2>1 DEF InGap, SameWork
<1> QED
  BY <1>3, <1>4

\* From the gap the main loop goes on in it, reads the counter, or ends.
LEMMA GapCalls ==
    ASSUME RunsTheExample, NEW m, HalInv(m), m.ctrl = "run", m.fw.isr = "none",
           m.fw.pc \in Apart \cup {"stamp"}
    PROVE  /\ m.fw.pc \in {"idle", "stamp"} =>
                 Reading(m) /\ Request(m.fw).addr = "CNT"
           /\ m.fw.pc = "end" => Halted(m)
           /\ m.fw.pc \notin {"idle", "stamp", "end"} =>
                 Quiet(m) /\ m.fw.pc \notin Accesses \cup {"end"}
<1>1. Request(m.fw) = MainRequest(m.fw) /\ ~m.inIsr
  BY DEF RunsTheExample, RxRequest, HalInv
<1>2. CASE m.fw.pc \in {"idle", "stamp"}
  BY <1>1, <1>2 DEF MainRequest, Call, Reading, Op
<1>3. CASE m.fw.pc = "end"
  BY <1>1, <1>3 DEF MainRequest, Call, Halted, Op
<1>4. CASE m.fw.pc \in {"mask_load", "mask_settle"}
  BY <1>1, <1>4 DEF MainRequest, Call, Quiet, Op, Accesses
<1>5. CASE m.fw.pc \in {"unmask_load", "unmask_settle"}
  BY <1>1, <1>5 DEF MainRequest, Call, Quiet, Op, Accesses
<1>6. CASE m.fw.pc \in {"top", "load", "take", "settle"}
  BY <1>1, <1>6 DEF MainRequest, Call, Quiet, Op, Accesses
<1> QED
  BY <1>2, <1>3, <1>4, <1>5, <1>6 DEF Apart, Positions, Accesses

\* The last machine of the recording.
Last == path[Len(path)]

\* The event the recording made next after path[k], between two bytes, is a read of
\* the counter by a main loop that has come from there.
Met(k) ==
    LET e == path[k].events IN
    /\ trace[e + 1].type = "read" /\ trace[e + 1].addr = "CNT"
    /\ \E j \in 1 .. Len(path) :
          /\ path[j].events = e + 1
          /\ path[j].m.ctrl = "pump" /\ path[j].m.ret = trace[e + 1].value
          /\ path[j].m.fw.pc \in {"idle", "stamp"}
          /\ InGap(path[k].m.fw, path[j].m.fw)

\* If it made one: otherwise it is still in the gap.
Bridged(k) ==
    IF path[k].events < Last.events THEN Met(k)
    ELSE Last.m.ctrl = "run" /\ InGap(path[k].m.fw, Last.m.fw)

\* The machines of the recording are in order, and its gaps bridged.
Orderly ==
    \A k \in 1 .. Len(path) :
        /\ HalInv(path[k].m) /\ MaskInv(path[k].m)
        /\ Free(path[k].m) => Bridged(k)

\* What the recording's next step does to a gap it is in.
LEMMA GapRecords ==
    ASSUME RunsTheExample, HalInv(hal), MaskInv(hal), hal.ctrl = "run",
           NEW f, InGap(f, hal.fw),
           RecordRead \/ RecordWrite \/ RecordIrq \/ RecordNoIrq \/ RecordQuiet
    PROVE  \/ trace' = trace /\ hal'.ctrl = "run" /\ InGap(f, hal'.fw)
           \/ \E ev : /\ trace' = Append(trace, ev)
                      /\ ev.type = "read" /\ ev.addr = "CNT"
                      /\ hal'.ctrl = "pump" /\ hal'.ret = ev.value
                      /\ hal'.fw.pc \in {"idle", "stamp"} /\ InGap(f, hal'.fw)
<1>1. hal.fw.isr = "none" /\ hal.fw.pc \in Apart \cup {"stamp"} /\ FwInv(hal.fw)
  BY DEF InGap, HalInv
<1>2. CASE hal.fw.pc \in {"idle", "stamp"}
  <2>1. Reading(hal) /\ Request(hal.fw).addr = "CNT"
    BY <1>1, <1>2, GapCalls
  <2>2. RecordRead
    BY <2>1, Exclusive DEF RecordRead, RecordWrite, RecordIrq, RecordNoIrq, RecordQuiet
  <2>3. PICK r : /\ trace' = Append(trace, Event("read", r.dev, "CNT", r.value))
                 /\ hal' = Pump(hal, r.value)
    BY <2>1, <2>2 DEF RecordRead, GoTo
  <2>4. PICK ev : ev = Event("read", r.dev, "CNT", r.value)
    OBVIOUS
  <2>5. ev.type = "read" /\ ev.addr = "CNT" /\ ev.value = r.value
    BY <2>4 DEF Event
  <2>6. hal'.fw = hal.fw /\ hal'.ctrl = "pump" /\ hal'.ret = r.value
    BY <1>1, <2>1, <2>3, PumpIs
  <2> QED
    BY <1>2, <2>3, <2>4, <2>5, <2>6
<1>3. CASE hal.fw.pc = "end"
  BY <1>1, <1>3, GapCalls, Exclusive
     DEF RecordRead, RecordWrite, RecordIrq, RecordNoIrq, RecordQuiet
<1>4. CASE hal.fw.pc \notin {"idle", "stamp", "end"}
  <2>1. Quiet(hal) /\ hal.fw.pc \notin Accesses \cup {"end"}
    BY <1>1, <1>4, GapCalls
  <2>2. RecordQuiet
    BY <2>1, Exclusive DEF RecordRead, RecordWrite, RecordIrq, RecordNoIrq, RecordQuiet
  <2>3. trace' = trace /\ hal' = AfterQuiet(hal)
    BY <2>2 DEF RecordQuiet, GoTo
  <2>4. hal'.ctrl = "run" /\ hal'.fw = MainResume(hal.fw, 0)
    BY <1>1, <2>1, <2>3, QuietIs
  <2> QED
    BY <1>1, <2>1, <2>3, <2>4, GapStep
<1> QED
  BY <1>2, <1>3, <1>4

\* Every step keeps the mask the main loop's position asks for.
LEMMA MaskStep ==
    ASSUME RunsTheExample, HalInv(hal), MaskInv(hal), [Next]_vars
    PROVE  MaskInv(hal')
<1>1. ASSUME NEW v, NEW k PROVE MaskInv(Start(FwReset(v, k)))
  <2>1. Start(FwReset(v, k)).mask = 0 /\ Start(FwReset(v, k)).fw.pc = "top"
    BY DEF Start, FwReset
  <2> QED
    BY <2>1 DEF MaskInv, Critical
<1>2. CASE RecordRead \/ RecordWrite
  <2>1. (Reading(hal) \/ Writing(hal)) /\ \E v : hal' = Pump(hal, v)
    <3>1. CASE RecordRead
      <4>1. PICK r \in DevRead(dev, Request(hal.fw).addr) : GoTo(Pump(hal, r.value))
        BY <3>1 DEF RecordRead
      <4> QED
        BY <3>1, <4>1 DEF RecordRead, GoTo
    <3>2. CASE RecordWrite
      BY <3>2 DEF RecordWrite, GoTo
    <3> QED
      BY <1>2, <3>1, <3>2
  <2> QED
    BY <2>1, PumpIs
<1>3. CASE RecordIrq \/ RecordNoIrq
  <2>1. Polling(hal) /\ (hal' = PumpDone(hal) \/ \E i : hal' = Dispatch(hal, i))
    <3>1. CASE RecordNoIrq
      BY <3>1 DEF RecordNoIrq, GoTo
    <3>2. CASE RecordIrq
      <4>1. PICK p \in DevPoll(dev) : GoTo(Dispatch(hal, p.vector))
        BY <3>2 DEF RecordIrq
      <4> QED
        BY <3>2, <4>1 DEF RecordIrq, GoTo
    <3> QED
      BY <1>3, <3>1, <3>2
  <2>2. MaskInv(PumpDone(hal)) /\ \A i : MaskInv(Dispatch(hal, i))
    BY <2>1, PollIs
  <2> QED
    BY <2>1, <2>2
<1>4. CASE RecordQuiet
  BY <1>4, QuietIs DEF RecordQuiet, GoTo
<1>5. CASE StopAndReplay
  <2>1. PICK g \in ReplayedAs(from) : hal' = Start(g)
    BY <1>5 DEF StopAndReplay
  <2>2. PICK v, k : g = FwReset(v, k)
    BY DEF RunsTheExample
  <2> QED
    BY <1>1, <2>1, <2>2
<1>6. CASE ReplayRead \/ ReplayWrite
  BY <1>6, PumpIs DEF ReplayRead, ReplayWrite
<1>7. CASE ReplayIrq \/ ReplayNoIrq
  <2>1. Polling(hal) /\ (hal' = PumpDone(hal) \/ \E i : hal' = Dispatch(hal, i))
    BY <1>7 DEF ReplayIrq, ReplayNoIrq
  <2>2. MaskInv(PumpDone(hal)) /\ \A i : MaskInv(Dispatch(hal, i))
    BY <2>1, PollIs
  <2> QED
    BY <2>1, <2>2
<1>8. CASE ReplayQuiet
  BY <1>8, QuietIs DEF ReplayQuiet
<1>9. CASE ReplayEnds \/ UNCHANGED vars
  <2>1. hal' = hal
    BY <1>9, SMTT(60) DEF ReplayEnds, vars
  <2> QED
    BY <2>1
<1> QED
  BY <1>2, <1>3, <1>4, <1>5, <1>6, <1>7, <1>8, <1>9 DEF Next, RecordStep, ReplayStep

\* The recording stays orderly while it grows,
LEMMA OrderlyGrows ==
    ASSUME RunsTheExample, IInv, IInv', HalInv(hal), MaskInv(hal), HalInv(hal'), MaskInv(hal'),
           Orderly,
           RecordRead \/ RecordWrite \/ RecordIrq \/ RecordNoIrq \/ RecordQuiet
    PROVE  Orderly'
<1>1. /\ phase = "record" /\ phase' = "record"
      /\ path' = Append(path, [m |-> hal', events |-> Len(trace')])
      /\ trace' = trace \/ \E e : trace' = Append(trace, e)
  BY DEF RecordRead, RecordWrite, RecordIrq, RecordNoIrq, RecordQuiet,
         UNCHANGED_replay, GoTo
<1>2. PICK n : n = Len(path)
  OBVIOUS
<1>3. /\ n \in Nat /\ n >= 1 /\ Len(path') = n + 1
      /\ \A k \in 1 .. n : path'[k] = path[k]
      /\ path'[n + 1].m = hal' /\ path'[n + 1].events = Len(trace')
      /\ path[n].m = hal /\ path[n].events = Len(trace)
  BY <1>1, <1>2, AppendFacts, EntryFields DEF IInv, PathInv, RecordInv
<1>4. /\ Len(trace) \in Nat
      /\ \/ trace' = trace
         \/ Len(trace') = Len(trace) + 1
      /\ \A i \in 1 .. Len(trace) : trace'[i] = trace[i]
  BY <1>1, AppendFacts DEF IInv, PathInv
<1>5. \A k \in 1 .. n : path[k].events \in Nat /\ path[k].events <= Len(trace)
  BY <1>2 DEF IInv, PathInv
<1>6. ASSUME NEW k \in 1 .. n, Free(path[k].m) PROVE Bridged(k)'
  <2>1. PICK e, f : e = path[k].events /\ f = path[k].m.fw
    OBVIOUS
  <2>2. e \in Nat /\ e <= Len(trace) /\ Bridged(k)
    BY <1>2, <1>5, <1>6, <2>1 DEF Orderly
  <2>3. Last'.events = Len(trace') /\ Last'.m = hal' /\ path'[k] = path[k]
    BY <1>3 DEF Last
  <2>4. CASE e < Len(trace)
    <3>1. Met(k)
      BY <1>2, <1>3, <2>1, <2>2, <2>4 DEF Bridged, Last
    <3>2. trace'[e + 1] = trace[e + 1]
      BY <1>4, <2>2, <2>4
    <3>3. PICK j \in 1 .. n :
             /\ path[j].events = e + 1
             /\ path[j].m.ctrl = "pump" /\ path[j].m.ret = trace[e + 1].value
             /\ path[j].m.fw.pc \in {"idle", "stamp"}
             /\ InGap(f, path[j].m.fw)
      BY <1>2, <2>1, <3>1 DEF Met
    <3>4. j \in 1 .. Len(path') /\ path'[j] = path[j]
      BY <1>3
    <3>5. trace[e + 1].type = "read" /\ trace[e + 1].addr = "CNT"
      BY <2>1, <3>1 DEF Met
    <3>6. Met(k)'
      BY <2>1, <2>3, <3>2, <3>3, <3>4, <3>5 DEF Met
    <3>7. e < Len(trace')
      BY <1>4, <2>2, <2>4
    <3> QED
      BY <2>1, <2>3, <3>6, <3>7 DEF Bridged
  <2>5. CASE e = Len(trace)
    <3>1. hal.ctrl = "run" /\ InGap(f, hal.fw)
      BY <1>2, <1>3, <1>4, <2>1, <2>2, <2>5 DEF Bridged, Last
    <3>2. CASE trace' = trace /\ hal'.ctrl = "run" /\ InGap(f, hal'.fw)
      BY <1>4, <2>1, <2>2, <2>3, <2>5, <3>2 DEF Bridged
    <3>3. ASSUME NEW ev, trace' = Append(trace, ev), ev.type = "read", ev.addr = "CNT",
                 hal'.ctrl = "pump", hal'.ret = ev.value,
                 hal'.fw.pc \in {"idle", "stamp"}, InGap(f, hal'.fw)
          PROVE  Bridged(k)'
      <4>1. trace'[e + 1] = ev /\ Len(trace') = e + 1
        BY <2>5, <3>3, AppendFacts DEF IInv, PathInv
      <4>2. n + 1 \in 1 .. Len(path')
        BY <1>3
      <4>3. Met(k)'
        BY <1>3, <2>1, <2>3, <3>3, <4>1, <4>2 DEF Met
      <4> QED
        BY <2>1, <2>2, <2>3, <4>1, <4>3 DEF Bridged
    <3> QED
      BY <3>1, <3>2, <3>3, GapRecords
  <2> QED
    BY <1>4, <2>2, <2>4, <2>5
<1>7. ASSUME Free(hal') PROVE Bridged(n + 1)'
  <2>1. Last'.m = hal' /\ Last' = path'[n + 1] /\ path'[n + 1].events = Len(trace')
    BY <1>3 DEF Last
  <2>2. InGap(hal'.fw, hal'.fw) /\ hal'.ctrl = "run"
    BY <1>7 DEF Free, InGap, SameWork
  <2>3. Len(trace') \in Nat
    BY <1>4
  <2> QED
    BY <1>3, <2>1, <2>2, <2>3 DEF Bridged
<1>8. ASSUME NEW k \in 1 .. Len(path')
      PROVE  /\ HalInv(path'[k].m) /\ MaskInv(path'[k].m)
             /\ Free(path'[k].m) => Bridged(k)'
  <2>1. CASE k \in 1 .. n
    BY <1>2, <1>3, <1>6, <2>1 DEF Orderly
  <2>2. CASE k = n + 1
    BY <1>3, <1>7, <2>2
  <2> QED
    BY <1>3, <2>1, <2>2
<1> QED
  BY <1>8 DEF Orderly, HalInv, MaskInv, Free

\* What the return of an access is to the main loop.
LEMMA AccessReturns ==
    ASSUME NEW f, FwInv(f), f.isr = "none", f.pc \in Accesses, NEW v,
           NEW g, g = MainResume(f, v)
    PROVE  /\ g.isr = "none"
           /\ f.pc = "stamp" => /\ g.pc = "show"
                                /\ SameWork([f EXCEPT !.last_stamp = v], g)
           /\ f.pc # "stamp" => g.pc \in Apart /\ SameWork(f, g)
<1>1. f.pc # "end" /\ f.pc # "take"
  BY DEF Accesses
<1>2. /\ g.isr = "none"
      /\ CASE f.pc = "take"  -> g.pc = "stamp" /\ TookOne(f, g)
           [] f.pc = "stamp" -> /\ g.pc = "show"
                                /\ SameWork([f EXCEPT !.last_stamp = v], g)
           [] OTHER          -> g.pc \in Apart /\ SameWork(f, g)
  BY <1>1, MainMoves
<1> QED
  BY <1>1, <1>2

\* What the return of one of its own is to two handlers that stand at the same.
LEMMA HandlersReturn ==
    ASSUME NEW f, FwInv(f), NEW g, FwInv(g), f.isr = g.isr, g.isr # "none", NEW v,
           NEW a, a = IsrResume(f, v), NEW b, b = IsrResume(g, v)
    PROVE  /\ a.pc = f.pc /\ b.pc = g.pc /\ a.isr = b.isr
           /\ g.isr \in {"status", "data"} => b.isr # "none"
           /\ SameWork(f, g) => SameWork(a, b)
<1>1. /\ b.pc = g.pc
      /\ b.isr = CASE g.isr = "status" -> (IF v = 1 THEN "data" ELSE "leave")
                   [] g.isr = "data"   -> "leave"
                   [] g.isr = "leave"  -> "none"
      /\ \A h : Shaped(h) /\ h.isr = g.isr /\ SameWork(h, g) =>
                    SameWork(IsrResume(h, v), b)
  BY HandlerMoves
<1>2. /\ a.pc = f.pc
      /\ a.isr = CASE f.isr = "status" -> (IF v = 1 THEN "data" ELSE "leave")
                   [] f.isr = "data"   -> "leave"
                   [] f.isr = "leave"  -> "none"
  BY HandlerMoves, ZenonT(60)
<1>3. g.isr \in {"status", "data"} => b.isr # "none"
  BY <1>1
<1>4. a.isr = b.isr
  BY <1>1, <1>2
<1> QED
  BY <1>1, <1>2, <1>3, <1>4 DEF FwInv

\* The main loop is about to show what it has consumed,
AtShow(m) == m.ctrl = "run" /\ m.fw.isr = "none" /\ m.fw.pc = "show"

\* or one of its accesses has not returned.
Inside(m) == m.ctrl = "pump" \/ m.fw.isr # "none"

\* The machine that replays is where the recording was, with the same work done;
Alike(p, m) ==
    /\ Inside(m) \/ AtShow(m)
    /\ m.ctrl = p.ctrl /\ m.ret = p.ret /\ m.fw.isr = p.fw.isr /\ m.fw.pc = p.fw.pc
    /\ SameWork(p.fw, m.fw)

\* or one of the two reads the counter to pass the time, the other to stamp a byte;
Crossed(p, m) ==
    /\ Inside(m) /\ m.ctrl = p.ctrl /\ m.fw.isr = p.fw.isr
    /\ \/ p.fw.pc = "idle" /\ m.fw.pc = "stamp"
       \/ p.fw.pc = "stamp" /\ m.fw.pc = "idle"

\* or they are in the same gap; or only the replay has a byte to show.
Related(p, m) ==
    \/ Alike(p, m)
    \/ Crossed(p, m)
    \/ Free(p) /\ m.ctrl = "run" /\ InGap(p.fw, m.fw)
    \/ Free(p) /\ AtShow(m)

\* Only the recording had a byte to show.
NoAnswer ==
    /\ hal.ctrl = "run" /\ hal.fw.isr = "none" /\ hal.fw.pc \in Apart \cup {"stamp"}
    /\ cursor < Len(trace) /\ trace[cursor + 1].type = "write"

\* Where a replay that has not diverged can be.
SoFar ==
    \/ \E k \in 1 .. Len(path) : path[k].events = cursor /\ Related(path[k].m, hal)
    \/ NoAnswer

\* At the same place the two make the same call.
LEMMA SameCall ==
    ASSUME RunsTheExample, NEW p, HalInv(p), NEW m, HalInv(m),
           Alike(p, m) \/ Crossed(p, m)
    PROVE  /\ ~Halted(p)
           /\ Reading(p) <=> Reading(m)
           /\ Writing(p) <=> Writing(m)
           /\ Polling(p) <=> Polling(m)
           /\ Quiet(p) <=> Quiet(m)
           /\ m.ctrl = "run" => Request(p.fw) = Request(m.fw)
           /\ Quiet(m) => m.fw.isr # "none"
<1>1. /\ p.ctrl = m.ctrl /\ p.fw.isr = m.fw.isr
      /\ m.ctrl = "run" => (p.inIsr <=> m.inIsr)
  BY DEF Alike, Crossed, HalInv
<1>2. m.ctrl = "run" => Request(p.fw) = Request(m.fw)
  <2>1. CASE m.fw.isr # "none"
    BY <1>1, <2>1 DEF RunsTheExample, RxRequest, IsrRequest
  <2>2. CASE m.ctrl = "run" /\ m.fw.isr = "none"
    <3>1. p.fw.pc = "show" /\ m.fw.pc = "show" /\ m.fw.consumed = p.fw.consumed
      BY <2>2 DEF Alike, Crossed, Inside, AtShow, SameWork
    <3> QED
      BY <1>1, <2>2, <3>1 DEF RunsTheExample, RxRequest, MainRequest
  <2> QED
    BY <2>1, <2>2
<1>3. ~Halted(p)
  <2>1. Halted(p) => p.fw.isr = "none" /\ p.fw.pc = "end" /\ p.ctrl = "run"
    BY HaltIs DEF Halted, Op, RunsTheExample, HalInv, FwInv
  <2> QED
    BY <1>1, <2>1 DEF Alike, Crossed, Inside, AtShow
<1>4. Quiet(m) => m.fw.isr # "none"
  <2>1. Quiet(m) /\ m.fw.isr = "none" => AtShow(m)
    BY DEF Quiet, Alike, Crossed, Inside
  <2>2. AtShow(m) => Op(m) = "write"
    BY DEF AtShow, Op, RunsTheExample, RxRequest, MainRequest, Call
  <2> QED
    BY <2>1, <2>2 DEF Quiet
<1> QED
  BY <1>1, <1>2, <1>3, <1>4 DEF Reading, Writing, Polling, Quiet, Op

\* They poll alike,
LEMMA AlikePolls ==
    ASSUME RunsTheExample, NEW p, HalInv(p), MaskInv(p), NEW m, HalInv(m), MaskInv(m),
           Polling(m), Alike(p, m)
    PROVE  /\ \A i : Alike(Dispatch(p, i), Dispatch(m, i))
           /\ Related(PumpDone(p), PumpDone(m))
<1>1. /\ Polling(p) /\ p.ret = m.ret /\ p.fw.pc = m.fw.pc /\ SameWork(p.fw, m.fw)
      /\ FwInv(p.fw) /\ FwInv(m.fw)
  BY DEF Alike, Polling, HalInv
<1>2. /\ p.fw.isr = "none" /\ m.fw.isr = "none" /\ m.fw.pc \in Accesses
  BY <1>1, PollIs
<1>3. ASSUME NEW i PROVE Alike(Dispatch(p, i), Dispatch(m, i))
  <2>1. CASE i \in Handled
    <3>1. PICK f, g : /\ f = [p.fw EXCEPT !.isr = "status"] /\ f = Dispatch(p, i).fw
                      /\ g = [m.fw EXCEPT !.isr = "status"] /\ g = Dispatch(m, i).fw
      BY <1>1, <2>1, PollIs
    <3>2. /\ Dispatch(p, i).ctrl = "run" /\ Dispatch(p, i).ret = p.ret
          /\ Dispatch(m, i).ctrl = "run" /\ Dispatch(m, i).ret = m.ret
      BY <1>1, <2>1, PollIs
    <3>3. /\ f.isr = "status" /\ f.pc = p.fw.pc /\ SameWork(p.fw, f)
          /\ g.isr = "status" /\ g.pc = m.fw.pc /\ SameWork(m.fw, g)
      BY <1>1, <3>1 DEF FwInv, Shaped, SameWork
    <3>4. SameWork(f, g)
      BY <1>1, <3>3 DEF SameWork
    <3> QED
      BY <1>1, <3>1, <3>2, <3>3, <3>4 DEF Alike, Inside
  <2>2. CASE i \notin Handled
    BY <2>2 DEF Dispatch
  <2> QED
    BY <2>1, <2>2
<1>4. PICK f, g : /\ f = MainResume(p.fw, p.ret) /\ f = PumpDone(p).fw
                  /\ g = MainResume(m.fw, m.ret) /\ g = PumpDone(m).fw
  BY <1>1, PollIs
<1>5. /\ PumpDone(p).ctrl = "run" /\ PumpDone(p).ret = 0
      /\ PumpDone(m).ctrl = "run" /\ PumpDone(m).ret = 0
  BY <1>1, PollIs
<1>6. /\ f.isr = "none"
      /\ p.fw.pc = "stamp" => /\ f.pc = "show"
                              /\ SameWork([p.fw EXCEPT !.last_stamp = p.ret], f)
      /\ p.fw.pc # "stamp" => f.pc \in Apart /\ SameWork(p.fw, f)
  <2>1. /\ FwInv(p.fw) /\ p.fw.isr = "none" /\ p.fw.pc \in Accesses
        /\ f = MainResume(p.fw, p.ret)
    BY <1>1, <1>2, <1>4
  <2> QED
    BY <2>1, AccessReturns
<1>7. /\ g.isr = "none"
      /\ m.fw.pc = "stamp" => /\ g.pc = "show"
                              /\ SameWork([m.fw EXCEPT !.last_stamp = m.ret], g)
      /\ m.fw.pc # "stamp" => g.pc \in Apart /\ SameWork(m.fw, g)
  <2>1. /\ FwInv(m.fw) /\ m.fw.isr = "none" /\ m.fw.pc \in Accesses
        /\ g = MainResume(m.fw, m.ret)
    BY <1>1, <1>2, <1>4
  <2> QED
    BY <2>1, AccessReturns
<1>8. CASE m.fw.pc = "stamp"
  <2>1. PICK v : v = m.ret
    OBVIOUS
  <2>2. PICK a, b : a = [p.fw EXCEPT !.last_stamp = v] /\ b = [m.fw EXCEPT !.last_stamp = v]
    OBVIOUS
  <2>3. /\ f.pc = "show" /\ SameWork(a, f)
        /\ g.pc = "show" /\ SameWork(b, g)
    BY <1>1, <1>6, <1>8, <1>7, <2>1, <2>2
  <2>4. SameWork(a, b)
    BY <1>1, <2>2 DEF SameWork, FwInv, Shaped
  <2>5. SameWork(f, g)
    BY <2>3, <2>4 DEF SameWork
  <2> QED
    BY <1>3, <1>4, <1>5, <1>6, <1>7, <2>3, <2>5 DEF Related, Alike, AtShow
<1>9. CASE m.fw.pc \in {"idle", "show"}
  <2>1. /\ f.pc \in Apart /\ SameWork(p.fw, f)
        /\ g.pc \in Apart /\ SameWork(m.fw, g)
    BY <1>1, <1>6, <1>9, <1>7
  <2>2. SameWork(f, g)
    BY <1>1, <2>1 DEF SameWork
  <2> QED
    BY <1>3, <1>4, <1>5, <1>6, <1>7, <2>1, <2>2 DEF Related, Free, InGap
<1> QED
  BY <1>2, <1>8, <1>9 DEF Accesses

\* and, reading for another reason, stay apart.
LEMMA CrossedPolls ==
    ASSUME RunsTheExample, NEW p, HalInv(p), MaskInv(p), NEW m, HalInv(m), MaskInv(m),
           Polling(m), Crossed(p, m)
    PROVE  /\ \A i : Crossed(Dispatch(p, i), Dispatch(m, i))
           /\ \/ Free(PumpDone(p)) /\ AtShow(PumpDone(m))
              \/ AtShow(PumpDone(p)) /\ Free(PumpDone(m))
<1>1. Polling(p) /\ FwInv(p.fw) /\ FwInv(m.fw)
  BY DEF Crossed, Polling, HalInv
<1>2. /\ p.fw.isr = "none" /\ m.fw.isr = "none"
  BY <1>1, PollIs
<1>3. ASSUME NEW i PROVE Crossed(Dispatch(p, i), Dispatch(m, i))
  <2>1. CASE i \in Handled
    <3>1. PICK f, g : /\ f = [p.fw EXCEPT !.isr = "status"] /\ f = Dispatch(p, i).fw
                      /\ g = [m.fw EXCEPT !.isr = "status"] /\ g = Dispatch(m, i).fw
      BY <1>1, <2>1, PollIs
    <3>2. Dispatch(p, i).ctrl = "run" /\ Dispatch(m, i).ctrl = "run"
      BY <1>1, <2>1, PollIs
    <3>3. /\ f.isr = "status" /\ f.pc = p.fw.pc
          /\ g.isr = "status" /\ g.pc = m.fw.pc
      BY <1>1, <3>1 DEF FwInv, Shaped
    <3> QED
      BY <3>1, <3>2, <3>3 DEF Crossed, Inside
  <2>2. CASE i \notin Handled
    BY <2>2 DEF Dispatch
  <2> QED
    BY <2>1, <2>2
<1>4. PICK f, g : /\ f = MainResume(p.fw, p.ret) /\ f = PumpDone(p).fw
                  /\ g = MainResume(m.fw, m.ret) /\ g = PumpDone(m).fw
  BY <1>1, PollIs
<1>5. PumpDone(p).ctrl = "run" /\ PumpDone(m).ctrl = "run"
  BY <1>1, PollIs
<1>6. /\ p.fw.pc \in {"idle", "stamp"} /\ m.fw.pc \in {"idle", "stamp"}
      /\ p.fw.pc # m.fw.pc
  BY DEF Crossed
<1>7. /\ f.isr = "none"
      /\ p.fw.pc = "stamp" => /\ f.pc = "show"
                              /\ SameWork([p.fw EXCEPT !.last_stamp = p.ret], f)
      /\ p.fw.pc # "stamp" => f.pc \in Apart /\ SameWork(p.fw, f)
  <2>1. /\ FwInv(p.fw) /\ p.fw.isr = "none" /\ p.fw.pc \in Accesses
        /\ f = MainResume(p.fw, p.ret)
    BY <1>1, <1>2, <1>4, <1>6 DEF Accesses
  <2> QED
    BY <2>1, AccessReturns
<1>8. /\ g.isr = "none"
      /\ m.fw.pc = "stamp" => /\ g.pc = "show"
                              /\ SameWork([m.fw EXCEPT !.last_stamp = m.ret], g)
      /\ m.fw.pc # "stamp" => g.pc \in Apart /\ SameWork(m.fw, g)
  <2>1. /\ FwInv(m.fw) /\ m.fw.isr = "none" /\ m.fw.pc \in Accesses
        /\ g = MainResume(m.fw, m.ret)
    BY <1>1, <1>2, <1>4, <1>6 DEF Accesses
  <2> QED
    BY <2>1, AccessReturns
<1> QED
  BY <1>3, <1>4, <1>5, <1>6, <1>7, <1>8 DEF Free, AtShow

\* The answer of an access leaves them as they were to each other,
LEMMA AccessKeeps ==
    ASSUME RunsTheExample, NEW p, HalInv(p), MaskInv(p), NEW m, HalInv(m), MaskInv(m),
           Reading(m) \/ Writing(m), NEW v
    PROVE  /\ Alike(p, m) => Alike(Pump(p, v), Pump(m, v))
           /\ Crossed(p, m) => Crossed(Pump(p, v), Pump(m, v))
<1> SUFFICES ASSUME Alike(p, m) \/ Crossed(p, m)
             PROVE  /\ Alike(p, m) => Alike(Pump(p, v), Pump(m, v))
                    /\ Crossed(p, m) => Crossed(Pump(p, v), Pump(m, v))
  OBVIOUS
<1>1. /\ Reading(p) \/ Writing(p)
      /\ p.fw.isr = m.fw.isr /\ FwInv(p.fw) /\ FwInv(m.fw)
      /\ m.ctrl = "run" /\ p.ctrl = "run"
  BY SameCall DEF Alike, Crossed, HalInv, Reading, Writing
<1>2. CASE m.fw.isr = "none"
  <2>1. /\ Pump(p, v).fw = p.fw /\ Pump(p, v).ctrl = "pump" /\ Pump(p, v).ret = v
        /\ Pump(m, v).fw = m.fw /\ Pump(m, v).ctrl = "pump" /\ Pump(m, v).ret = v
    BY <1>1, <1>2, PumpIs
  <2> QED
    BY <2>1 DEF Alike, Crossed, Inside
<1>3. CASE m.fw.isr # "none"
  <2>1. PICK f, g : /\ f = IsrResume(p.fw, v) /\ f = Pump(p, v).fw
                    /\ g = IsrResume(m.fw, v) /\ g = Pump(m, v).fw
    BY <1>1, <1>3, PumpIs
  <2>2. /\ Pump(p, v).ctrl = "run" /\ Pump(p, v).ret = p.ret
        /\ Pump(m, v).ctrl = "run" /\ Pump(m, v).ret = m.ret
        /\ m.fw.isr \in {"status", "data"}
    BY <1>1, <1>3, PumpIs
  <2>3. /\ f.pc = p.fw.pc /\ g.pc = m.fw.pc /\ f.isr = g.isr /\ g.isr # "none"
        /\ SameWork(p.fw, m.fw) => SameWork(f, g)
    <3>1. PICK k, l : k = p.fw /\ l = m.fw
      OBVIOUS
    <3>2. /\ FwInv(k) /\ FwInv(l) /\ k.isr = l.isr /\ l.isr # "none"
          /\ f = IsrResume(k, v) /\ g = IsrResume(l, v) /\ l.isr \in {"status", "data"}
      BY <1>1, <1>3, <2>1, <2>2, <3>1
    <3>3. /\ f.pc = k.pc /\ g.pc = l.pc /\ f.isr = g.isr /\ g.isr # "none"
          /\ SameWork(k, l) => SameWork(f, g)
      BY <3>2, HandlersReturn
    <3> QED
      BY <3>1, <3>3
  <2> QED
    BY <2>1, <2>2, <2>3 DEF Alike, Crossed, Inside
<1> QED
  BY <1>2, <1>3

\* and so does the handler's return.
LEMMA ReturnKeeps ==
    ASSUME RunsTheExample, NEW p, HalInv(p), MaskInv(p), NEW m, HalInv(m), MaskInv(m),
           Quiet(m)
    PROVE  /\ Alike(p, m) => Alike(AfterQuiet(p), AfterQuiet(m))
           /\ Crossed(p, m) => Crossed(AfterQuiet(p), AfterQuiet(m))
<1> SUFFICES ASSUME Alike(p, m) \/ Crossed(p, m)
             PROVE  /\ Alike(p, m) => Alike(AfterQuiet(p), AfterQuiet(m))
                    /\ Crossed(p, m) => Crossed(AfterQuiet(p), AfterQuiet(m))
  OBVIOUS
<1>1. /\ Quiet(p) /\ m.fw.isr # "none"
      /\ p.fw.isr = m.fw.isr /\ FwInv(p.fw) /\ FwInv(m.fw)
  BY SameCall DEF Alike, Crossed, HalInv
<1>2. PICK f, g : /\ f = IsrResume(p.fw, 0) /\ f = AfterQuiet(p).fw
                  /\ g = IsrResume(m.fw, 0) /\ g = AfterQuiet(m).fw
  BY <1>1, QuietIs
<1>3. /\ AfterQuiet(p).ctrl = "pump" /\ AfterQuiet(p).ret = p.ret
      /\ AfterQuiet(m).ctrl = "pump" /\ AfterQuiet(m).ret = m.ret
      /\ m.fw.isr = "leave"
  BY <1>1, QuietIs
<1>4. /\ f.pc = p.fw.pc /\ g.pc = m.fw.pc /\ f.isr = g.isr
      /\ SameWork(p.fw, m.fw) => SameWork(f, g)
  BY <1>1, <1>2, HandlersReturn
<1> QED
  BY <1>2, <1>3, <1>4 DEF Alike, Crossed, Inside

\* A replay that stands with the recording goes where it went, or from an access of
\* two reasons to the two sides of it.
LEMMA InsideStep ==
    ASSUME RunsTheExample, RecordWrites, IInv, Orderly, Ended, HalInv(hal), MaskInv(hal),
           Replays, divergence = "none", divergence' = "none",
           NEW k \in 1 .. Len(path), path[k].events = cursor,
           Alike(path[k].m, hal) \/ Crossed(path[k].m, hal)
    PROVE  SoFar'
<1>1. /\ phase = "replay" /\ UNCHANGED <<phase, trace, path>>
  BY DEF Replays, ReplayRead, ReplayWrite, ReplayIrq, ReplayNoIrq, ReplayQuiet,
         UNCHANGED_record
<1>2. PICK p : p = path[k].m
  OBVIOUS
<1>3. HalInv(p) /\ MaskInv(p) /\ (Alike(p, hal) \/ Crossed(p, hal))
  BY <1>2 DEF Orderly
<1>4. /\ ~Halted(p)
      /\ Reading(p) <=> Reading(hal)
      /\ Writing(p) <=> Writing(hal)
      /\ Polling(p) <=> Polling(hal)
      /\ Quiet(p) <=> Quiet(hal)
  BY <1>3, SameCall
<1>5. Len(path) \in Nat /\ k + 1 \in 1 .. Len(path)
  <2>1. Len(path) \in Nat
    BY AppendFacts DEF IInv, PathInv
  <2>2. k # Len(path)
    BY <1>1, <1>2, <1>4 DEF Ended
  <2> QED
    BY <2>1, <2>2
<1>6. PICK q, ev, n : /\ q = path[k + 1].m /\ n = path[k + 1].events
                      /\ ev = trace[cursor + 1]
  OBVIOUS
<1>7. /\ Reading(p) => /\ ev.type = "read" /\ q = Pump(p, ev.value) /\ n = cursor + 1
      /\ Writing(p) => /\ ev.type = "write" /\ q = Pump(p, 0) /\ n = cursor + 1
      /\ Polling(p) =>
            IF cursor < Len(trace) /\ ev.type = "irq"
            THEN q = Dispatch(p, ev.addr) /\ n = cursor + 1
            ELSE q = PumpDone(p) /\ n = cursor
      /\ Quiet(p) => q = AfterQuiet(p) /\ n = cursor
  <2>1. Explains(cursor < Len(trace), ev, path[k], path[k + 1])
    BY <1>5, <1>6, SMTT(60) DEF IInv, PathInv, ExplainedAt
  <2> QED
    BY <1>2, <1>6, <2>1, Exclusive DEF Explains
<1>8. HalInv(q) /\ MaskInv(q)
  BY <1>5, <1>6 DEF Orderly
<1>9. ASSUME n = cursor', Related(q, hal') PROVE SoFar'
  <2>1. path'[k + 1].events = cursor' /\ path'[k + 1].m = q /\ k + 1 \in 1 .. Len(path')
    BY <1>1, <1>5, <1>6, <1>9
  <2>2. \E j \in 1 .. Len(path') : path'[j].events = cursor' /\ Related(path'[j].m, hal')
    BY <1>9, <2>1
  <2> QED
    BY <2>2 DEF SoFar
<1>10. CASE ReplayRead
  <2>1. Reading(hal) /\ hal' = Pump(hal, ev.value) /\ cursor' = cursor + 1
    BY <1>6, <1>10 DEF ReplayRead, Consume, Diverge
  <2>2. n = cursor' /\ (Alike(q, hal') \/ Crossed(q, hal'))
    BY <1>3, <1>4, <1>7, <2>1, AccessKeeps
  <2> QED
    BY <1>9, <2>2 DEF Related
<1>11. CASE ReplayWrite
  <2>1. Writing(hal) /\ hal' = Pump(hal, 0) /\ cursor' = cursor + 1
    BY <1>11 DEF ReplayWrite, Consume, Diverge
  <2>2. n = cursor' /\ (Alike(q, hal') \/ Crossed(q, hal'))
    BY <1>3, <1>4, <1>7, <2>1, AccessKeeps
  <2> QED
    BY <1>9, <2>2 DEF Related
<1>12. CASE ReplayIrq
  <2>1. /\ Polling(hal) /\ hal' = Dispatch(hal, ev.addr) /\ cursor' = cursor + 1
        /\ cursor < Len(trace) /\ ev.type = "irq"
    BY <1>6, <1>12 DEF ReplayIrq, Consume, IrqAtCursor
  <2>2. n = cursor' /\ q = Dispatch(p, ev.addr)
    BY <1>4, <1>7, <2>1
  <2>3. Alike(q, hal') \/ Crossed(q, hal')
    BY <1>3, <2>1, <2>2, AlikePolls, CrossedPolls
  <2> QED
    BY <1>9, <2>2, <2>3 DEF Related
<1>13. CASE ReplayNoIrq
  <2>1. /\ Polling(hal) /\ hal' = PumpDone(hal) /\ cursor' = cursor
        /\ ~(cursor < Len(trace) /\ ev.type = "irq")
    BY <1>6, <1>13 DEF ReplayNoIrq, IrqAtCursor
  <2>2. n = cursor' /\ q = PumpDone(p)
    BY <1>4, <1>7, <2>1
  <2>3. CASE Alike(p, hal)
    BY <1>3, <1>9, <2>1, <2>2, <2>3, AlikePolls
  <2>4. CASE Crossed(p, hal)
    <3>1. \/ Free(q) /\ AtShow(hal')
          \/ AtShow(q) /\ Free(hal')
      BY <1>3, <2>1, <2>2, <2>4, CrossedPolls
    <3>2. CASE AtShow(q) /\ Free(hal')
      <4>1. Writing(q)
        BY <3>2 DEF AtShow, Writing, Op, RunsTheExample, RxRequest, MainRequest, Call
      <4>2. k + 1 # Len(path)
        BY <1>1, <1>6, <4>1, Exclusive DEF Ended
      <4>3. k + 1 \in 1 .. Len(path) - 1
        BY <1>5, <4>2
      <4>4. Explains(path[k + 1].events < Len(trace), trace[path[k + 1].events + 1],
                     path[k + 1], path[k + 1 + 1])
        BY <4>3 DEF IInv, PathInv, ExplainedAt
      <4>5. cursor' < Len(trace) /\ trace[cursor' + 1].type = "write"
        BY <1>6, <2>2, <4>1, <4>4, Exclusive DEF Explains
      <4> QED
        BY <1>1, <3>2, <4>5 DEF SoFar, NoAnswer, Free
    <3> QED
      BY <1>9, <2>2, <3>1, <3>2 DEF Related
  <2> QED
    BY <1>3, <2>3, <2>4
<1>14. CASE ReplayQuiet
  <2>1. Quiet(hal) /\ hal' = AfterQuiet(hal) /\ cursor' = cursor
    BY <1>14 DEF ReplayQuiet
  <2>2. n = cursor' /\ (Alike(q, hal') \/ Crossed(q, hal'))
    BY <1>3, <1>4, <1>7, <2>1, ReturnKeeps
  <2> QED
    BY <1>9, <2>2 DEF Related
<1> QED
  BY <1>10, <1>11, <1>12, <1>13, <1>14 DEF Replays

\* The recording behind a gap reads the counter next, or has stopped.
LEMMA GapEvent ==
    ASSUME IInv, TypeOK, Orderly, Ended, phase = "replay", NEW k \in 1 .. Len(path),
           path[k].events = cursor, Free(path[k].m)
    PROVE  /\ cursor < Len(trace) => trace[cursor + 1].type \in {"read", "stop"}
           /\ cursor < Len(trace) /\ trace[cursor + 1].type # "stop" => Met(k)
<1>1. Bridged(k) /\ Last.events = Len(trace) - 1 /\ cursor \in Nat /\ Len(trace) \in Nat
  BY AppendFacts DEF Orderly, Ended, Last, IInv, PathInv
<1>2. CASE cursor < Len(trace) - 1
  BY <1>1, <1>2 DEF Bridged, Met
<1>3. CASE cursor = Len(trace) - 1
  <2>1. cursor + 1 = Len(trace) /\ Len(trace) \in 1 .. Len(trace)
    BY <1>1, <1>3
  <2>2. trace[cursor + 1].type = "stop"
    BY <2>1 DEF TypeOK
  <2> QED
    BY <2>2
<1> QED
  BY <1>1, <1>2, <1>3

\* A replay in the gap goes on in it, or reads the counter as the recording did.
LEMMA GapReplays ==
    ASSUME RunsTheExample, IInv, TypeOK, Orderly, Ended, HalInv(hal), MaskInv(hal),
           Replays, divergence = "none", divergence' = "none",
           NEW k \in 1 .. Len(path), path[k].events = cursor, Free(path[k].m),
           hal.ctrl = "run", InGap(path[k].m.fw, hal.fw)
    PROVE  SoFar'
<1>1. /\ phase = "replay" /\ UNCHANGED <<phase, trace, path>>
  BY DEF Replays, ReplayRead, ReplayWrite, ReplayIrq, ReplayNoIrq, ReplayQuiet,
         UNCHANGED_record
<1>2. hal.fw.isr = "none" /\ hal.fw.pc \in Apart \cup {"stamp"} /\ FwInv(hal.fw)
  BY DEF InGap, HalInv
<1>3. CASE hal.fw.pc \in {"idle", "stamp"}
  <2>1. Reading(hal) /\ Request(hal.fw).addr = "CNT"
    BY <1>2, <1>3, GapCalls
  <2>2. ReplayRead
    BY <2>1, Exclusive DEF Replays, ReplayRead, ReplayWrite, ReplayIrq, ReplayNoIrq,
                           ReplayQuiet
  <2>3. Mismatch("read", "CNT", 0) = "none"
    BY <2>1, <2>2 DEF ReplayRead, Diverge
  <2>4. /\ cursor < Len(trace) /\ trace[cursor + 1].type = "read"
        /\ cursor' = cursor + 1 /\ hal' = Pump(hal, trace[cursor + 1].value)
    <3>1. cursor < Len(trace) /\ trace[cursor + 1].type = "read"
      <4>1. cursor \in Int /\ Len(trace) \in Int
        BY AppendFacts DEF TypeOK, IInv, PathInv
      <4> QED
        BY <2>3, <4>1 DEF Mismatch
    <3>2. Consume /\ hal' = Pump(hal, trace[cursor + 1].value)
      BY <2>1, <2>2, <2>3 DEF ReplayRead
    <3> QED
      BY <3>1, <3>2 DEF Consume
  <2>5. Met(k)
    BY <1>1, <2>4, GapEvent
  <2>6. PICK j \in 1 .. Len(path) :
           /\ path[j].events = cursor + 1
           /\ path[j].m.ctrl = "pump" /\ path[j].m.ret = trace[cursor + 1].value
           /\ path[j].m.fw.pc \in {"idle", "stamp"}
           /\ InGap(path[k].m.fw, path[j].m.fw)
    BY <2>5 DEF Met
  <2>7. PICK p, f : p = path[j].m /\ f = path[k].m.fw
    OBVIOUS
  <2>8. hal'.fw = hal.fw /\ hal'.ctrl = "pump" /\ hal'.ret = trace[cursor + 1].value
    BY <1>2, <2>1, <2>4, PumpIs
  <2>9. p.ctrl = "pump" /\ p.ret = hal'.ret /\ p.fw.isr = "none" /\ hal'.fw.isr = "none"
    BY <1>2, <2>6, <2>7, <2>8 DEF InGap
  <2>10. Alike(p, hal') \/ Crossed(p, hal')
    <3>1. CASE p.fw.pc = hal.fw.pc
      <4>1. SameWork(p.fw, hal.fw)
        <5>1. InGap(f, p.fw) /\ InGap(f, hal.fw)
          BY <2>6, <2>7
        <5>2. CASE hal.fw.pc = "idle"
          BY <3>1, <5>1, <5>2, SMTT(60) DEF InGap, SameWork
        <5>3. CASE hal.fw.pc = "stamp"
          BY <3>1, <5>1, <5>3 DEF InGap, SameWork, TookOne, Apart
        <5> QED
          BY <1>3, <5>2, <5>3
      <4> QED
        BY <2>8, <2>9, <3>1, <4>1 DEF Alike, Inside
    <3>2. CASE p.fw.pc # hal.fw.pc
      BY <1>3, <2>6, <2>7, <2>8, <2>9, <3>2 DEF Crossed, Inside
    <3> QED
      BY <3>1, <3>2
  <2>11. \E i \in 1 .. Len(path') : path'[i].events = cursor' /\ Related(path'[i].m, hal')
    BY <1>1, <2>4, <2>6, <2>7, <2>10 DEF Related
  <2> QED
    BY <2>11 DEF SoFar
<1>4. CASE hal.fw.pc = "end"
  BY <1>2, <1>4, GapCalls, Exclusive
     DEF Replays, ReplayRead, ReplayWrite, ReplayIrq, ReplayNoIrq, ReplayQuiet
<1>5. CASE hal.fw.pc \notin {"idle", "stamp", "end"}
  <2>1. Quiet(hal) /\ hal.fw.pc \notin Accesses \cup {"end"}
    BY <1>2, <1>5, GapCalls
  <2>2. hal' = AfterQuiet(hal) /\ cursor' = cursor
    BY <2>1, Exclusive DEF Replays, ReplayRead, ReplayWrite, ReplayIrq, ReplayNoIrq,
                           ReplayQuiet
  <2>3. hal'.ctrl = "run" /\ hal'.fw = MainResume(hal.fw, 0)
    BY <1>2, <2>1, <2>2, QuietIs
  <2>4. InGap(path[k].m.fw, hal'.fw)
    BY <1>2, <2>1, <2>3, GapStep
  <2>5. \E i \in 1 .. Len(path') : path'[i].events = cursor' /\ Related(path'[i].m, hal')
    BY <1>1, <2>2, <2>3, <2>4 DEF Related
  <2> QED
    BY <2>5 DEF SoFar
<1> QED
  BY <1>3, <1>4, <1>5

\* A byte shown that the recording did not show is a divergence,
LEMMA ShowFails ==
    ASSUME RunsTheExample, RecordWrites, IInv, TypeOK, Orderly, Ended, HalInv(hal),
           Replays, divergence = "none",
           NEW k \in 1 .. Len(path), path[k].events = cursor, Free(path[k].m),
           AtShow(hal)
    PROVE  divergence' # "none"
<1>1. phase = "replay"
  BY DEF Replays, ReplayRead, ReplayWrite, ReplayIrq, ReplayNoIrq, ReplayQuiet
<1>2. Writing(hal)
  BY DEF AtShow, Writing, Op, RunsTheExample, RxRequest, MainRequest, Call
<1>3. ReplayWrite
  BY <1>2, Exclusive DEF Replays, ReplayRead, ReplayWrite, ReplayIrq, ReplayNoIrq,
                         ReplayQuiet
<1>4. cursor < Len(trace) => trace[cursor + 1].type \in {"read", "stop"}
  BY <1>1, GapEvent
<1>5. \A a, v : Mismatch("write", a, v) # "none"
  BY <1>4 DEF Mismatch, TypeOK
<1> QED
  BY <1>3, <1>5 DEF ReplayWrite, Diverge

\* and a byte not shown that the recording did is one at the next access.
LEMMA NoAnswerStep ==
    ASSUME RunsTheExample, HalInv(hal), MaskInv(hal), Replays,
           divergence = "none", divergence' = "none", NoAnswer
    PROVE  NoAnswer'
<1>1. phase = "replay" /\ UNCHANGED <<phase, trace, path>>
  BY DEF Replays, ReplayRead, ReplayWrite, ReplayIrq, ReplayNoIrq, ReplayQuiet,
         UNCHANGED_record
<1>2. /\ hal.ctrl = "run" /\ hal.fw.isr = "none" /\ hal.fw.pc \in Apart \cup {"stamp"}
      /\ cursor < Len(trace) /\ trace[cursor + 1].type = "write" /\ FwInv(hal.fw)
  BY DEF NoAnswer, HalInv
<1>3. CASE hal.fw.pc \in {"idle", "stamp"}
  <2>1. Reading(hal)
    BY <1>2, <1>3, GapCalls
  <2>2. ReplayRead
    BY <2>1, Exclusive DEF Replays, ReplayRead, ReplayWrite, ReplayIrq, ReplayNoIrq,
                           ReplayQuiet
  <2>3. \A a : Mismatch("read", a, 0) # "none"
    BY <1>2 DEF Mismatch
  <2> QED
    BY <2>2, <2>3 DEF ReplayRead, Diverge
<1>4. CASE hal.fw.pc = "end"
  BY <1>2, <1>4, GapCalls, Exclusive
     DEF Replays, ReplayRead, ReplayWrite, ReplayIrq, ReplayNoIrq, ReplayQuiet
<1>5. CASE hal.fw.pc \notin {"idle", "stamp", "end"}
  <2>1. Quiet(hal) /\ hal.fw.pc \notin Accesses \cup {"end"}
    BY <1>2, <1>5, GapCalls
  <2>2. hal' = AfterQuiet(hal) /\ cursor' = cursor
    BY <2>1, Exclusive DEF Replays, ReplayRead, ReplayWrite, ReplayIrq, ReplayNoIrq,
                           ReplayQuiet
  <2>3. hal'.ctrl = "run" /\ hal'.fw = MainResume(hal.fw, 0)
    BY <1>2, <2>1, <2>2, QuietIs
  <2>4. InGap(hal.fw, hal.fw)
    BY <1>2, <2>1 DEF InGap, SameWork, Accesses
  <2>5. InGap(hal.fw, hal'.fw)
    BY <1>2, <2>1, <2>3, <2>4, GapStep
  <2> QED
    BY <1>1, <1>2, <2>2, <2>3, <2>5 DEF NoAnswer, InGap
<1> QED
  BY <1>3, <1>4, <1>5

\* A step of the replay of either firmware.
LEMMA SoFarStep ==
    ASSUME RunsTheExample, RecordWrites, IInv, TypeOK, Orderly, Ended, HalInv(hal),
           MaskInv(hal), Replays, divergence = "none", divergence' = "none", SoFar
    PROVE  SoFar'
<1>1. ASSUME NEW k \in 1 .. Len(path), path[k].events = cursor, Related(path[k].m, hal)
      PROVE  SoFar'
  <2>1. CASE Alike(path[k].m, hal) \/ Crossed(path[k].m, hal)
    BY <1>1, <2>1, InsideStep
  <2>2. CASE Free(path[k].m) /\ hal.ctrl = "run" /\ InGap(path[k].m.fw, hal.fw)
    BY <1>1, <2>2, GapReplays
  <2>3. CASE Free(path[k].m) /\ AtShow(hal)
    BY <1>1, <2>3, ShowFails
  <2> QED
    BY <1>1, <2>1, <2>2, <2>3 DEF Related
<1>2. CASE NoAnswer
  BY <1>2, NoAnswerStep DEF SoFar
<1> QED
  BY <1>1, <1>2 DEF SoFar

\* What SameWorkOrDivergence rests on.
Replayed ==
    phase # "record" /\ divergence = "none" =>
        SoFar /\ (phase = "done" => Halted(hal))

WorkInv == MaskInv(hal) /\ Recorded \in Firmware /\ Orderly /\ Ended /\ Replayed

\* The firmware that was recorded stays what it is.
LEMMA RecordedStays ==
    ASSUME IInv, [Next]_vars
    PROVE  Recorded' = Recorded
<1>1. \/ path' = path
      \/ \E e : path' = Append(path, e)
  BY DEF Next, RecordStep, ReplayStep, RecordRead, RecordWrite, RecordIrq, RecordNoIrq,
         RecordQuiet, StopAndReplay, GoTo, ReplayRead, ReplayWrite, ReplayIrq,
         ReplayNoIrq, ReplayQuiet, ReplayEnds, UNCHANGED_record, vars
<1>2. path'[1] = path[1]
  <2>1. ASSUME NEW e, path' = Append(path, e) PROVE path'[1] = path[1]
    <3>1. Len(path) \in Nat /\ \A i \in 1 .. Len(path) : path'[i] = path[i]
      BY <2>1, AppendFacts DEF IInv, PathInv
    <3>2. 1 \in 1 .. Len(path)
      BY <3>1 DEF IInv, PathInv
    <3> QED
      BY <3>1, <3>2
  <2> QED
    BY <1>1, <2>1
<1> QED
  BY <1>2 DEF Recorded

\* The replay, of whatever firmware, starts where the recording did.
LEMMA WorkStart ==
    ASSUME RunsTheExample, IInv, HalInv(hal), WorkInv, StopAndReplay
    PROVE  Orderly' /\ Ended' /\ Replayed'
<1>1. /\ phase = "record" /\ phase' = "replay" /\ Halted(hal) /\ path' = path
      /\ from' \in ReplayedAs(from) /\ hal' = Start(from') /\ cursor' = 0
      /\ trace' = Append(trace, Event("stop", dev, 0, 0))
  BY DEF StopAndReplay
<1>2. /\ Len(path) \in Nat \ {0} /\ Len(trace) \in Nat /\ Len(trace') = Len(trace) + 1
      /\ \A i \in 1 .. Len(trace) : trace'[i] = trace[i]
      /\ path[1] = [m |-> Start(Recorded), events |-> 0]
      /\ \A k \in 1 .. Len(path) : path[k].events \in Nat /\ path[k].events <= Len(trace)
  BY <1>1, AppendFacts DEF IInv, PathInv
<1>3. path[Len(path)].m = hal /\ path[Len(path)].events = Len(trace)
  BY <1>1, EntryFields DEF IInv, RecordInv
<1>4. Ended'
  BY <1>1, <1>2, <1>3 DEF Ended
<1>5. ASSUME NEW k \in 1 .. Len(path), Free(path[k].m) PROVE Bridged(k)'
  <2>1. Bridged(k)
    BY <1>5 DEF WorkInv, Orderly
  <2>2. CASE path[k].events < Last.events
    <3>1. Met(k) /\ path[k].events + 1 \in 1 .. Len(trace)
      BY <1>2, <1>3, <2>1, <2>2 DEF Bridged, Last
    <3>2. trace'[path[k].events + 1] = trace[path[k].events + 1]
      BY <1>2, <3>1, SMTT(60)
    <3>3. Met(k)'
      BY <1>1, <3>1, <3>2 DEF Met
    <3> QED
      BY <1>1, <2>2, <3>3 DEF Bridged, Last
  <2>3. CASE ~(path[k].events < Last.events)
    BY <1>1, <2>1, <2>3 DEF Bridged, Last
  <2> QED
    BY <2>2, <2>3
<1>6. Orderly'
  BY <1>1, <1>5, ZenonT(60) DEF WorkInv, Orderly, HalInv, MaskInv, Free
<1>7. SoFar'
  <2>1. path[1].m = Start(Recorded) /\ path[1].events = 0
    BY <1>2, EntryFields
  <2>2. PICK u, l : from' = FwReset(u, l)
    BY <1>1 DEF RunsTheExample
  <2>3. PICK v, k : Recorded = FwReset(v, k)
    BY DEF WorkInv, RunsTheExample
  <2>4. /\ path[1].m.ctrl = "run" /\ path[1].m.fw = FwReset(v, k)
        /\ hal'.ctrl = "run" /\ hal'.fw = FwReset(u, l)
    BY <1>1, <2>1, <2>2, <2>3 DEF Start
  <2>5. /\ FwReset(v, k).isr = "none" /\ FwReset(v, k).pc \in Apart
        /\ InGap(FwReset(v, k), FwReset(u, l))
    BY DEF FwReset, InGap, SameWork, Apart, Positions
  <2>6. Related(path[1].m, hal')
    BY <2>4, <2>5 DEF Related, Free
  <2>7. 1 \in 1 .. Len(path') /\ path'[1].events = cursor' /\ path'[1].m = path[1].m
    BY <1>1, <1>2, <2>1
  <2>8. \E i \in 1 .. Len(path') : path'[i].events = cursor' /\ Related(path'[i].m, hal')
    BY <2>6, <2>7
  <2> QED
    BY <2>8 DEF SoFar
<1> QED
  BY <1>1, <1>4, <1>6, <1>7 DEF Replayed

\* A report stays the one that was made first.
LEMMA FirstReport ==
    ASSUME Replays, divergence' = "none"
    PROVE  divergence = "none"
BY ReportLatches

\* Every step keeps all of this.
LEMMA WorkStep ==
    ASSUME RunsTheExample, RecordWrites, TypeOK, IInv, IInv', HalInv(hal), HalInv(hal'),
           WorkInv, [Next]_vars
    PROVE  WorkInv'
<1>1. MaskInv(hal')
  BY MaskStep DEF WorkInv
<1>2. Recorded' \in Firmware
  BY RecordedStays DEF WorkInv
<1>3. ASSUME RecordRead \/ RecordWrite \/ RecordIrq \/ RecordNoIrq \/ RecordQuiet
      PROVE  Orderly' /\ Ended' /\ Replayed'
  <2>1. phase' = "record"
    BY <1>3 DEF RecordRead, RecordWrite, RecordIrq, RecordNoIrq, RecordQuiet,
                UNCHANGED_replay
  <2>2. Orderly'
    BY <1>1, <1>3, OrderlyGrows DEF WorkInv
  <2> QED
    BY <2>1, <2>2 DEF Ended, Replayed
<1>4. ASSUME Replays PROVE Orderly' /\ Ended' /\ Replayed'
  <2>1. phase = "replay" /\ UNCHANGED <<phase, trace, path>>
    BY <1>4, SMTT(60) DEF Replays, ReplayRead, ReplayWrite, ReplayIrq, ReplayNoIrq, ReplayQuiet,
                UNCHANGED_record
  <2>2. Orderly' /\ Ended'
    BY <2>1, SMTT(60) DEF WorkInv, Orderly, Ended, HalInv, MaskInv, Free, Bridged, Met, Last
  <2>3. Replayed'
    BY <1>4, <2>1, FirstReport, SoFarStep, SMTT(60) DEF WorkInv, Replayed
  <2> QED
    BY <2>2, <2>3
<1>5. ASSUME ReplayEnds PROVE Orderly' /\ Ended' /\ Replayed'
  <2>1. phase = "replay" /\ phase' = "done" /\ Halted(hal)
        /\ UNCHANGED <<hal, trace, cursor, divergence, path>>
    BY <1>5 DEF ReplayEnds
  <2> QED
    BY <2>1, SMTT(60) DEF WorkInv, Orderly, Ended, Replayed, HalInv, MaskInv, Free, Bridged, Met, Last,
                SoFar, NoAnswer, Related, Alike, Crossed, AtShow, Inside
<1>6. ASSUME UNCHANGED vars PROVE Orderly' /\ Ended' /\ Replayed'
  BY <1>6 DEF vars, WorkInv, Orderly, Ended, Replayed, HalInv, MaskInv, Free, Bridged, Met,
              Last, SoFar, NoAnswer, Related, Alike, Crossed, AtShow, Inside
<1> QED
  BY <1>1, <1>2, <1>3, <1>4, <1>5, <1>6, WorkStart
     DEF WorkInv, Next, RecordStep, ReplayStep, Replays

\* A replay of either variant, for any number of iterations, that has used up the
\* recording without a divergence has done the same work as the recording: "the first
\* report latches", and a replay of other code is "reported rather than quietly
\* producing a plausible wrong answer" (test_determinism.cpp).
THEOREM SameWorkOrDivergenceCorrect ==
    ASSUME RunsTheExample, RecordWrites
    PROVE  Spec => []SameWorkOrDivergence
<1>1. Init => WorkInv
  <2> SUFFICES ASSUME Init PROVE WorkInv
    OBVIOUS
  <2>1. /\ path = <<[m |-> hal, events |-> 0]>> /\ phase = "record"
        /\ hal = Start(from) /\ from \in Firmware
    BY DEF Init
  <2>2. Len(path) = 1 /\ path[1].m = hal /\ path[1].events = 0
    BY <2>1, EntryFields
  <2>3. PICK v, k : from = FwReset(v, k)
    BY <2>1 DEF RunsTheExample
  <2>4. /\ hal.mask = 0 /\ hal.ctrl = "run" /\ hal.fw = from
        /\ from.pc = "top" /\ from.isr = "none"
    BY <2>1, <2>3 DEF Start, FwReset
  <2>5. MaskInv(hal) /\ HalInv(hal)
    BY <2>1, <2>3, <2>4, StartInv DEF MaskInv, Critical
  <2>6. InGap(hal.fw, hal.fw)
    BY <2>4 DEF InGap, SameWork, Apart, Positions
  <2>7. Orderly
    BY <2>2, <2>4, <2>5, <2>6 DEF Orderly, Bridged, Last
  <2>8. Recorded = from
    BY <2>2, <2>4 DEF Recorded
  <2> QED
    BY <2>1, <2>5, <2>7, <2>8 DEF WorkInv, Ended, Replayed
<1>2. (TypeOK /\ IInv /\ IInv' /\ HalInv(hal) /\ HalInv(hal)' /\ WorkInv /\ [Next]_vars)
          => WorkInv'
  <2> SUFFICES ASSUME TypeOK, IInv, IInv', HalInv(hal), HalInv(hal)', WorkInv, [Next]_vars
               PROVE  WorkInv'
    OBVIOUS
  <2>1. HalInv(hal')
    BY DEF HalInv
  <2> QED
    BY <2>1, WorkStep
<1>3. TypeOK /\ IInv /\ HalInv(hal) /\ WorkInv => SameWorkOrDivergence
  <2> SUFFICES ASSUME TypeOK, IInv, HalInv(hal), WorkInv, phase = "done",
                      divergence = "none", cursor = Len(trace) - 1
               PROVE  FwState(hal.fw) = [FwState(path[Len(path)].m.fw)
                                            EXCEPT !.pending = hal.fw.pending]
    BY DEF SameWorkOrDivergence
  <2>1. PICK f, g : f = Last.m.fw /\ g = hal.fw
    OBVIOUS
  <2>2. SoFar /\ Halted(hal) /\ Ended /\ Orderly
    BY DEF WorkInv, Replayed
  <2>3. Len(trace) \in Nat \ {0} /\ cursor + 1 = Len(trace)
    BY DEF TypeOK, IInv, PathInv, IsSeq
  <2>4. g.isr = "none" /\ g.pc = "end" /\ hal.ctrl = "run" /\ ~hal.inIsr
    BY <2>1, <2>2, HaltIs DEF Halted, Op, RunsTheExample, HalInv, FwInv
  <2>5. Len(path) \in 1 .. Len(path)
    BY DEF IInv, PathInv, IsSeq
  <2>6. HalInv(Last.m) /\ Shaped(f)
    BY <2>1, <2>2, <2>5 DEF Orderly, Last, HalInv, FwInv
  <2>7. f.isr = "none" /\ f.pc = "end" /\ Last.events = cursor
    BY <2>1, <2>2, <2>6, HaltIs DEF Halted, Op, RunsTheExample, Ended, Last
  <2>8. ~NoAnswer
    BY <2>3 DEF NoAnswer, TypeOK
  <2>9. PICK k \in 1 .. Len(path) : path[k].events = cursor /\ Related(path[k].m, hal)
    BY <2>2, <2>8 DEF SoFar
  <2>10. Free(path[k].m) /\ InGap(path[k].m.fw, g)
    BY <2>1, <2>4, <2>9 DEF Related, Alike, Crossed, AtShow, Inside
  <2>11. cursor \in Nat
    <3>1. cursor \in 0 .. Len(trace)
      BY DEF TypeOK
    <3> QED
      BY ONLY <3>1
  <2>12. InGap(path[k].m.fw, f)
    BY <2>1, <2>2, <2>7, <2>9, <2>10, <2>11 DEF Orderly, Bridged
  <2>13. SameWork(f, g)
    BY <2>4, <2>7, <2>10, <2>12 DEF InGap, SameWork
  <2>14. FwState(g) = [FwState(f) EXCEPT !.pending = g.pending]
    BY <2>13 DEF FwState, SameWork
  <2> QED
    BY <2>1, <2>14 DEF Last
<1> QED
  BY <1>1, <1>2, <1>3, IInvCorrect, HalInvCorrect, TypeCorrect, PTL DEF Spec
================================================================================
