----------------------------- MODULE TimelineProofs ----------------------------
(****************************************************************************)
(* What a Timeline promises of a recording of the example firmware, proved  *)
(* for every such firmware, device, distance of checkpoints and sequence of *)
(* calls, with writes recorded.                                             *)
(*                                                                          *)
(* The argument.  The timeline looks at the recording one iteration of the  *)
(* main loop at a time: it restores the state the iteration began with, sets*)
(* the trace to the event it had reached, and runs a firmware that has one  *)
(* iteration to go.  That firmware is the recorded one, Ahead by the number *)
(* of iterations that follow; it takes the steps the recording took         *)
(* (MainShifts, IsrShifts, BehindStep), so that there is always a place p   *)
(* in the recording which the run is Behind.  At the end of the iteration   *)
(* it stands at the head of the next one, of which there is only one in the *)
(* recording (HeadIs): a state captured there is what RestoreIs needs to    *)
(* start again, and what the checkpoints Describe.  A seek starts from the  *)
(* last checkpoint that is not past its event and goes forward, so that the *)
(* first state it finds serving the event is the first one of the recording *)
(* from there on (SeekInv); the work done in these states only grows with   *)
(* the event (WorthGrows), and a bisection over it is exact (FindInv).      *)
(****************************************************************************)
EXTENDS Timeline, Mcu, RecordReplayProofs, WellFoundedInduction

\* What a cfg says by its substitutions: the firmware behind the shim is the
\* example, started after rx_pump_reset.
RunsTheExample ==
    /\ \A f : Request(f) = RxRequest(f)
    /\ \A f, v : Resume(f, v) = RxResume(f, v)
    /\ \A f, i : EnterIsr(f, i) = RxEnterIsr(f, i)
    /\ \A f \in Firmware : \E v, k : f = FwReset(v, k)

--------------------------------------------------------------------------------
(* Two forms of induction over the natural numbers.                          *)

\* A set of natural numbers has a least element.
LEMMA Least ==
    ASSUME NEW S, S \subseteq Nat, S # {}
    PROVE  \E n \in S : \A m \in S : n <= m
<1> DEFINE R == OpToRel(<, Nat)
<1>1. IsWellFoundedOn(R, Nat)
  BY NatLessThanWellFounded
<1>2. \A x, y \in Nat : <<x, y>> \in R <=> x < y
  BY DEF OpToRel
<1> HIDE DEF R
<1>3. PICK n \in S : \A m \in S : ~(<<m, n>> \in R)
  BY <1>1, WFMin
<1>4. ASSUME NEW m \in S PROVE n <= m
  <2>1. n \in Nat /\ m \in Nat /\ ~(m < n)
    BY <1>2, <1>3
  <2> QED
    BY <2>1
<1> QED
  BY <1>4

\* What holds at j, and at k + 1 if at k, holds from j on.
LEMMA Climbs ==
    ASSUME NEW n \in Nat, NEW j \in Nat, NEW S, j \in S,
           \A k \in j .. n - 1 : k \in S => k + 1 \in S
    PROVE  \A k \in j .. n : k \in S
<1> DEFINE Out == {k \in j .. n : k \notin S}
<1> SUFFICES ASSUME Out # {} PROVE FALSE
  OBVIOUS
<1>1. PICK k \in Out : \A m \in Out : k <= m
  <2>1. Out \subseteq Nat
    OBVIOUS
  <2> HIDE DEF Out
  <2> QED
    BY <2>1, Least
<1>2. k \in j .. n /\ k \notin S /\ k # j
  BY <1>1
<1>3. k - 1 \in j .. n - 1 /\ k - 1 \in j .. n /\ ~(k <= k - 1) /\ (k - 1) + 1 = k
  BY <1>2
<1>4. k - 1 \in S
  BY <1>1, <1>3
<1> QED
  BY <1>2, <1>3, <1>4

--------------------------------------------------------------------------------
(* The firmware between two of its steps, and the shim around it.            *)

\* Where the main loop accesses the hardware.
AtAccess == {"idle", "stamp", "show"}

\* Where the main loop may be.
Positions == AtAccess \cup
    {"top", "mask_load", "load", "unmask_load", "take", "mask_settle", "settle",
     "unmask_settle", "end"}

\* The firmware's variables, with the counts that the timeline speaks of.
Shaped(f) ==
    /\ f = [ring |-> f.ring, head |-> f.head, tail |-> f.tail,
            pending |-> f.pending, consumed |-> f.consumed,
            checksum |-> f.checksum, last_stamp |-> f.last_stamp,
            overflows |-> f.overflows, variant |-> f.variant, pc |-> f.pc,
            iters |-> f.iters, n |-> f.n, i |-> f.i, isr |-> f.isr]
    /\ f.pc \in Positions /\ f.isr \in {"none", "status", "data", "leave"}
    /\ f.iters \in Nat /\ f.consumed \in Nat

\* Where the locals are dead, which variant masks, and where the handler may run.
Placed(f) ==
    /\ f.pc = "top" => f.n = 0 /\ f.i = 0
    /\ f.pc = "end" => f.iters = 0
    /\ f.pc \notin {"top", "end"} => f.iters > 0
    /\ f.pc \in {"mask_load", "unmask_load", "mask_settle", "unmask_settle"} =>
          Fixed(f)
    /\ f.isr # "none" => f.pc \in AtAccess

\* Where the main loop holds interrupts masked.
Masks(f) ==
    f.pc \in {"unmask_load", "unmask_settle"} \/ (Fixed(f) /\ f.pc \in {"load", "settle"})

\* The firmware is in order.
FwInv(f) == Shaped(f) /\ Placed(f)

\* A machine of the shim that runs the example.
HalInv(m) ==
    /\ m = [fw |-> m.fw, mask |-> m.mask, inIsr |-> m.inIsr, ctrl |-> m.ctrl,
            ret |-> m.ret]
    /\ m.inIsr \in BOOLEAN /\ m.ctrl \in {"run", "pump"}
    /\ FwInv(m.fw)
    /\ m.mask = IF Masks(m.fw) THEN 1 ELSE 0
    /\ m.ctrl = "pump" => m.inIsr /\ m.fw.isr = "none" /\ m.fw.pc \in AtAccess
    /\ m.ctrl = "run" => (m.inIsr <=> m.fw.isr # "none")
    /\ ~m.inIsr => m.ret = 0

\* The firmware as it would be with d iterations fewer to go.
Sooner(f, d) == [f EXCEPT !.iters = @ - d]

\* What the firmware makes of an answer keeps its shape; it counts iterations
\* down one at a time, to the head of the next one, and every byte once.
Onward(f, g) ==
    /\ g.variant = f.variant
    /\ g.iters <= f.iters
    /\ f.pc = "top" => g.pc \in {"mask_load", "load", "end"} /\ g.iters = f.iters
    /\ g.iters # f.iters => g.iters = f.iters - 1
    /\ g.pc = "top" <=> g.iters # f.iters
    /\ g.consumed >= f.consumed
    /\ g.consumed # f.consumed => f.pc = "take" /\ g.pc = "stamp" /\ g.isr = "none"

\* The main loop: what it makes of the answer to its call keeps the firmware in
\* order, goes onward, and masks where the fixed variant does.
LEMMA MainStep ==
    ASSUME NEW f, FwInv(f), f.isr = "none", f.pc # "end", NEW v
    PROVE  /\ FwInv(MainResume(f, v)) /\ MainResume(f, v).isr = "none"
           /\ Onward(f, MainResume(f, v))
           /\ f.pc \in {"mask_load", "mask_settle"} => Masks(MainResume(f, v))
           /\ f.pc \in AtAccess \cup {"unmask_load", "unmask_settle"} =>
                 ~Masks(MainResume(f, v))
           /\ f.pc \in {"top", "load", "take", "settle"} =>
                 (Masks(MainResume(f, v)) <=> Masks(f))
<1> DEFINE g == MainResume(f, v)
<1>1. Shaped(f) /\ Placed(f) /\ f.iters \in Nat /\ f.consumed \in Nat /\ f.pc \in Positions
  BY DEF FwInv, Shaped
<1> USE DEF Positions, AtAccess
<1>2. CASE f.pc = "top"
  <2>1. /\ Shaped(g) /\ g.isr = "none" /\ g.variant = f.variant
        /\ g.iters = f.iters /\ g.consumed = f.consumed
        /\ g.pc = IF f.iters = 0 THEN "end"
                  ELSE IF Fixed(f) THEN "mask_load" ELSE "load"
    BY <1>1, <1>2 DEF MainResume, Top, Shaped
  <2> HIDE DEF g
  <2> QED
    BY <1>1, <1>2, <2>1 DEF FwInv, Placed, Onward, Fixed, Masks, g
<1>3. CASE f.pc \in {"mask_load", "load", "unmask_load", "mask_settle"}
  <2>1. /\ Shaped(g) /\ g.isr = "none" /\ g.variant = f.variant
        /\ g.iters = f.iters /\ g.consumed = f.consumed
        /\ f.pc = "mask_load" => g.pc = "load"
        /\ f.pc = "mask_settle" => g.pc = "settle"
        /\ f.pc = "load" => g.pc = IF Fixed(f) THEN "unmask_load"
                                  ELSE IF f.pending = 0 THEN "idle" ELSE "take"
        /\ f.pc = "unmask_load" => g.pc = IF f.n = 0 THEN "idle" ELSE "take"
    <3>1. CASE f.pc = "mask_load"
      BY <1>1, <3>1 DEF MainResume, Shaped
    <3>2. CASE f.pc = "load"
      BY <1>1, <3>2 DEF MainResume, Load, Shaped
    <3>3. CASE f.pc = "unmask_load"
      BY <1>1, <3>3 DEF MainResume, Branch, Shaped
    <3>4. CASE f.pc = "mask_settle"
      BY <1>1, <3>4 DEF MainResume, Shaped
    <3> QED
      BY <1>3, <3>1, <3>2, <3>3, <3>4
  <2> HIDE DEF g
  <2> QED
    BY <1>1, <1>3, <2>1 DEF FwInv, Placed, Onward, Fixed, Masks, g
<1>4. CASE f.pc \in {"idle", "unmask_settle"}
  <2>1. g = [f EXCEPT !.iters = @ - 1, !.pc = "top", !.n = 0, !.i = 0]
    BY <1>4 DEF MainResume, NextIteration
  <2> DEFINE k == f.iters - 1
  <2>2. k \in Nat /\ g = [f EXCEPT !.iters = k, !.pc = "top", !.n = 0, !.i = 0]
    BY <1>1, <1>4, <2>1 DEF Placed
  <2> HIDE DEF g, k
  <2>3. /\ Shaped(g) /\ g.isr = "none" /\ g.variant = f.variant
        /\ g.iters = k /\ g.consumed = f.consumed
        /\ g.pc = "top" /\ g.n = 0 /\ g.i = 0
    BY <1>1, <2>2 DEF Shaped
  <2> QED
    BY <1>1, <1>4, <2>3 DEF FwInv, Placed, Onward, Fixed, Masks, g, k
<1>5. CASE f.pc = "settle"
  <2>1. f.iters > 0
    BY <1>1, <1>5 DEF Placed
  <2>2. CASE Fixed(f)
    <3>1. g = [f EXCEPT !.pending = @ - f.n, !.pc = "unmask_settle"]
      BY <1>5, <2>2 DEF MainResume, Settle
    <3> HIDE DEF g
    <3>2. /\ Shaped(g) /\ g.isr = "none" /\ g.variant = f.variant
          /\ g.iters = f.iters /\ g.consumed = f.consumed /\ g.pc = "unmask_settle"
      BY <1>1, <3>1 DEF Shaped
    <3> QED
      BY <1>1, <1>5, <2>2, <3>2 DEF FwInv, Placed, Onward, Fixed, Masks, g
  <2>3. CASE ~Fixed(f)
    <3>1. g = NextIteration([f EXCEPT !.pending = 0])
      BY <1>5, <2>3 DEF MainResume, Settle
    <3> DEFINE k == f.iters - 1
    <3>2. /\ k \in Nat
          /\ g = [f EXCEPT !.pending = 0, !.iters = k, !.pc = "top", !.n = 0, !.i = 0]
      BY <1>1, <2>1, <3>1 DEF NextIteration, Shaped
    <3> HIDE DEF g, k
    <3>3. /\ Shaped(g) /\ g.isr = "none" /\ g.variant = f.variant
          /\ g.iters = k /\ g.consumed = f.consumed
          /\ g.pc = "top" /\ g.n = 0 /\ g.i = 0
      BY <1>1, <3>2 DEF Shaped
    <3> QED
      BY <1>1, <1>5, <2>3, <3>3 DEF FwInv, Placed, Onward, Fixed, Masks, g, k
  <2> QED
    BY <2>2, <2>3
<1>6. CASE f.pc \in {"take", "stamp", "show"}
  <2>1. /\ Shaped(g) /\ g.isr = "none" /\ g.variant = f.variant
        /\ g.iters = f.iters
        /\ f.pc = "take" => g.pc = "stamp" /\ g.consumed = f.consumed + 1
        /\ f.pc # "take" => g.consumed = f.consumed
        /\ f.pc = "stamp" => g.pc = "show"
        /\ f.pc = "show" => \/ g.pc = "take"
                            \/ g.pc = "mask_settle" /\ Fixed(f)
                            \/ g.pc = "settle" /\ ~Fixed(f)
    <3>1. CASE f.pc = "take"
      <4> DEFINE k == f.consumed + 1
      <4>1. /\ k \in Nat
            /\ g = [f EXCEPT !.tail = (f.tail + 1) % RingSize,
                             !.checksum = Append(@, f.ring[f.tail]),
                             !.consumed = k, !.pc = "stamp"]
        BY <1>1, <3>1 DEF MainResume, Take
      <4>2. PICK t, c : g = [f EXCEPT !.tail = t, !.checksum = c, !.consumed = k,
                                      !.pc = "stamp"]
        BY <4>1
      <4> HIDE DEF g, k
      <4>3. /\ Shaped(g) /\ g.isr = "none" /\ g.variant = f.variant
            /\ g.iters = f.iters /\ g.pc = "stamp" /\ g.consumed = k
        BY <1>1, <4>1, <4>2, ZenonT(60) DEF Shaped
      <4> QED
        BY <3>1, <4>3 DEF k
    <3>2. CASE f.pc = "stamp"
      BY <1>1, <3>2 DEF MainResume, StampTaken, Shaped
    <3>3. CASE f.pc = "show"
      <4>1. \E pc \in {"take", "mask_settle", "settle"} :
               /\ g = [f EXCEPT !.i = @ + 1, !.pc = pc]
               /\ pc = "mask_settle" => Fixed(f)
               /\ pc = "settle" => ~Fixed(f)
        BY <3>3 DEF MainResume, Shown
      <4> HIDE DEF g
      <4> QED
        BY <1>1, <3>3, <4>1 DEF Shaped
    <3> QED
      BY <1>6, <3>1, <3>2, <3>3
  <2> HIDE DEF g
  <2> QED
    BY <1>1, <1>6, <2>1 DEF FwInv, Placed, Onward, Fixed, Masks, g
<1> QED
  BY <1>1, <1>2, <1>3, <1>4, <1>5, <1>6 DEF Masks, Fixed

\* The end of an iteration does not depend on how many are left.
LEMMA CountsShift ==
    ASSUME NEW f, Shaped(f), NEW d \in Nat
    PROVE  NextIteration(Sooner(f, d)) = Sooner(NextIteration(f), d)
<1> DEFINE j == f.iters - d
           k == f.iters - 1
           c == f.iters - d - 1
<1>1. Sooner(f, d) = [f EXCEPT !.iters = j] /\ k - d = c /\ j - 1 = c
  BY DEF Sooner, Shaped
<1>2. NextIteration(f) = [f EXCEPT !.iters = k, !.pc = "top", !.n = 0, !.i = 0]
  BY DEF NextIteration
<1> HIDE DEF j, k, c
<1>3. NextIteration([f EXCEPT !.iters = j])
        = [f EXCEPT !.iters = c, !.pc = "top", !.n = 0, !.i = 0]
  BY <1>1 DEF NextIteration, Shaped
<1>4. Sooner(NextIteration(f), d)
        = [f EXCEPT !.iters = c, !.pc = "top", !.n = 0, !.i = 0]
  BY <1>1, <1>2 DEF Sooner, Shaped
<1> QED
  BY <1>1, <1>3, <1>4

\* Until its last iteration the main loop does the same whether d more are to
\* follow or not.
LEMMA MainShifts ==
    ASSUME NEW f, FwInv(f), f.isr = "none", f.pc # "end", NEW v,
           NEW d \in Nat, d < f.iters
    PROVE  MainResume(Sooner(f, d), v) = Sooner(MainResume(f, v), d)
<1> USE DEF FwInv, Shaped, Placed, Positions, AtAccess, Fixed, Sooner
<1>0. Shaped(f)
  OBVIOUS
<1>1. CASE f.pc = "top"
  <2> DEFINE k == f.iters - d
  <2>1. k # 0 /\ f.iters # 0 /\ Sooner(f, d) = [f EXCEPT !.iters = k]
    OBVIOUS
  <2> HIDE DEF k
  <2>2. Top([f EXCEPT !.iters = k]) = [Top(f) EXCEPT !.iters = k]
    BY <2>1 DEF Top
  <2>3. Sooner(Top(f), d) = [Top(f) EXCEPT !.iters = k]
    BY DEF Top, k
  <2> QED
    BY <1>1, <2>1, <2>2, <2>3 DEF MainResume
<1>2. CASE f.pc = "mask_load"
  BY <1>2, ZenonT(60) DEF MainResume
<1>3. CASE f.pc = "load"
  BY <1>3, ZenonT(60) DEF MainResume, Load
<1>4. CASE f.pc = "unmask_load"
  BY <1>4, ZenonT(60) DEF MainResume, Branch
<1>5. CASE f.pc = "idle"
  BY <1>0, <1>5, CountsShift DEF MainResume
<1>6. CASE f.pc = "take"
  BY <1>6, ZenonT(60) DEF MainResume, Take
<1>7. CASE f.pc = "stamp"
  BY <1>7, ZenonT(60) DEF MainResume, StampTaken
<1>8. CASE f.pc = "show"
  BY <1>8, ZenonT(60) DEF MainResume, Shown
<1>9. CASE f.pc = "mask_settle"
  BY <1>9, ZenonT(60) DEF MainResume
<1>10. CASE f.pc = "settle"
  <2>1. CASE Fixed(f)
    BY <1>10, <2>1, ZenonT(60) DEF MainResume, Settle
  <2>2. CASE ~Fixed(f)
    <3> DEFINE e == [f EXCEPT !.pending = 0]
    <3>1. Shaped(e)
      OBVIOUS
    <3>3. Sooner(e, d) = [Sooner(f, d) EXCEPT !.pending = 0]
      OBVIOUS
    <3>2. /\ MainResume(f, v) = NextIteration(e)
          /\ MainResume(Sooner(f, d), v) = NextIteration([Sooner(f, d) EXCEPT !.pending = 0])
      BY <1>10, <2>2 DEF MainResume, Settle
    <3> HIDE DEF e
    <3> QED
      BY <3>1, <3>2, <3>3, CountsShift
  <2> QED
    BY <2>1, <2>2
<1>11. CASE f.pc = "unmask_settle"
  BY <1>0, <1>11, CountsShift DEF MainResume
<1> QED
  BY <1>1, <1>2, <1>3, <1>4, <1>5, <1>6, <1>7, <1>8, <1>9, <1>10, <1>11

\* The handler: it keeps the firmware in order and the main loop where it is, and
\* ends with its return.
LEMMA IsrStep ==
    ASSUME NEW f, FwInv(f), f.isr # "none", NEW v
    PROVE  /\ FwInv(IsrResume(f, v)) /\ Onward(f, IsrResume(f, v))
           /\ IsrResume(f, v).pc = f.pc
           /\ IsrResume(f, v).isr = "none" <=> f.isr = "leave"
<1> DEFINE g == IsrResume(f, v)
<1>1. /\ Shaped(f) /\ Placed(f) /\ f.iters \in Nat /\ f.consumed \in Nat
      /\ f.pc \in AtAccess
  BY DEF FwInv, Shaped, Placed
<1>2. /\ Shaped(g) /\ g.variant = f.variant /\ g.iters = f.iters
      /\ g.consumed = f.consumed /\ g.pc = f.pc
      /\ g.isr = "none" <=> f.isr = "leave"
  <2>1. CASE f.isr = "status"
    BY <1>1, <2>1 DEF IsrResume, Shaped
  <2>2. CASE f.isr = "data"
    BY <1>1, <2>2 DEF IsrResume, StoreByte, Shaped
  <2>3. CASE f.isr = "leave"
    BY <1>1, <2>3 DEF IsrResume, Shaped
  <2> QED
    BY <1>1, <2>1, <2>2, <2>3 DEF Shaped
<1> HIDE DEF g
<1> QED
  BY <1>1, <1>2 DEF FwInv, Placed, Onward, Fixed, AtAccess, g

\* The handler does the same however many iterations are to follow.
LEMMA IsrShifts ==
    ASSUME NEW f, FwInv(f), f.isr # "none", NEW v, NEW d \in Nat
    PROVE  IsrResume(Sooner(f, d), v) = Sooner(IsrResume(f, v), d)
<1> USE DEF FwInv, Shaped, Placed, Positions, AtAccess, Fixed, Sooner
<1>1. CASE f.isr = "status"
  BY <1>1, ZenonT(60) DEF IsrResume
<1>2. CASE f.isr = "data"
  BY <1>2, ZenonT(60) DEF IsrResume, StoreByte
<1>3. CASE f.isr = "leave"
  BY <1>3, ZenonT(60) DEF IsrResume
<1> QED
  BY <1>1, <1>2, <1>3

--------------------------------------------------------------------------------
(* The shim around the firmware.                                             *)

\* The machine as it would be with d iterations fewer to go.
Ahead(m, d) == [m EXCEPT !.fw = Sooner(m.fw, d)]

\* A step of the shim, whatever the backend answers.
Moves(a, b) ==
    \/ (Reading(a) \/ Writing(a)) /\ \E v : b = Pump(a, v)
    \/ Polling(a) /\ \E i : b = Dispatch(a, i)
    \/ Polling(a) /\ b = PumpDone(a)
    \/ Quiet(a) /\ b = AfterQuiet(a)

\* The calls the example makes.
LEMMA OpIs ==
    ASSUME RunsTheExample, NEW m, FwInv(m.fw)
    PROVE  /\ m.fw.isr \in {"status", "data"} => Op(m) = "read"
           /\ m.fw.isr = "leave" => Op(m) = "iret"
           /\ m.fw.isr = "none" =>
                 /\ m.fw.pc \in {"idle", "stamp"} => Op(m) = "read"
                 /\ m.fw.pc = "show" => Op(m) = "write"
                 /\ m.fw.pc \in {"mask_load", "mask_settle"} => Op(m) = "disable"
                 /\ m.fw.pc \in {"unmask_load", "unmask_settle"} => Op(m) = "enable"
                 /\ m.fw.pc \in {"top", "load", "take", "settle"} => Op(m) = "step"
                 /\ m.fw.pc = "end" => Op(m) = "halt"
           /\ m.fw.isr \in {"none", "status", "data", "leave"} /\ m.fw.pc \in Positions
<1>1. Op(m) = RxRequest(m.fw).op
  BY DEF RunsTheExample, Op
<1>2. m.fw.isr \in {"none", "status", "data", "leave"} /\ m.fw.pc \in Positions
  BY DEF FwInv, Shaped
<1>3. m.fw.isr # "none" => RxRequest(m.fw) = IsrRequest(m.fw)
  BY DEF RxRequest
<1>4. m.fw.isr = "none" => RxRequest(m.fw) = MainRequest(m.fw)
  BY DEF RxRequest
<1>5. m.fw.isr \in {"status", "data"} => IsrRequest(m.fw).op = "read"
  BY DEF IsrRequest, Call
<1>6. m.fw.isr = "leave" => IsrRequest(m.fw).op = "iret"
  BY DEF IsrRequest, Call
<1>7. /\ m.fw.pc \in {"idle", "stamp"} => MainRequest(m.fw).op = "read"
      /\ m.fw.pc = "show" => MainRequest(m.fw).op = "write"
      /\ m.fw.pc \in {"mask_load", "mask_settle"} => MainRequest(m.fw).op = "disable"
      /\ m.fw.pc \in {"unmask_load", "unmask_settle"} => MainRequest(m.fw).op = "enable"
      /\ m.fw.pc \in {"top", "load", "take", "settle"} => MainRequest(m.fw).op = "step"
      /\ m.fw.pc = "end" => MainRequest(m.fw).op = "halt"
  BY DEF MainRequest, Call
<1> QED
  BY <1>1, <1>2, <1>3, <1>4, <1>5, <1>6, <1>7

\* A call returns to the handler or to the main loop.
LEMMA ResumeStep ==
    ASSUME RunsTheExample, NEW f, FwInv(f), f.isr = "none" => f.pc # "end", NEW v
    PROVE  /\ FwInv(Resume(f, v)) /\ Onward(f, Resume(f, v))
           /\ f.isr = "none" =>
                 /\ Resume(f, v).isr = "none"
                 /\ f.pc \in {"mask_load", "mask_settle"} => Masks(Resume(f, v))
                 /\ f.pc \in AtAccess \cup {"unmask_load", "unmask_settle"} =>
                       ~Masks(Resume(f, v))
                 /\ f.pc \in {"top", "load", "take", "settle"} =>
                       (Masks(Resume(f, v)) <=> Masks(f))
           /\ f.isr # "none" =>
                 /\ Resume(f, v).pc = f.pc
                 /\ Resume(f, v).isr = "none" <=> f.isr = "leave"
           /\ \A d \in Nat : d < f.iters => Resume(Sooner(f, d), v) = Sooner(Resume(f, v), d)
<1>1. Resume(f, v) = RxResume(f, v)
  BY DEF RunsTheExample
<1>2. \A d : Resume(Sooner(f, d), v) = RxResume(Sooner(f, d), v) /\ Sooner(f, d).isr = f.isr
  BY DEF RunsTheExample, Sooner, FwInv, Shaped
<1>3. CASE f.isr = "none"
  BY <1>1, <1>2, <1>3, MainStep, MainShifts DEF RxResume
<1>4. CASE f.isr # "none"
  BY <1>1, <1>2, <1>4, IsrStep, IsrShifts DEF RxResume
<1> QED
  BY <1>3, <1>4

\* Whatever the backend answers.
LEMMA MoveKeeps ==
    ASSUME RunsTheExample, NEW a, HalInv(a), NEW b, Moves(a, b)
    PROVE  /\ HalInv(b) /\ Onward(a.fw, b.fw)
           /\ b.fw.consumed # a.fw.consumed => Reading(b)
<1> DEFINE f == a.fw
<1>0. /\ a = [fw |-> f, mask |-> a.mask, inIsr |-> a.inIsr, ctrl |-> a.ctrl, ret |-> a.ret]
      /\ a.inIsr \in BOOLEAN /\ a.ctrl \in {"run", "pump"} /\ FwInv(f)
      /\ a.mask = IF Masks(f) THEN 1 ELSE 0
      /\ a.ctrl = "pump" => a.inIsr /\ f.isr = "none" /\ f.pc \in AtAccess
      /\ a.ctrl = "run" => (a.inIsr <=> f.isr # "none")
      /\ ~a.inIsr => a.ret = 0
      /\ f.isr # "none" => f.pc \in AtAccess
      /\ f.pc \in AtAccess => ~Masks(f)
  BY DEF HalInv, FwInv, Placed, AtAccess, Masks
<1>1. f.pc \in AtAccess => Onward(f, f)
  BY <1>0 DEF Onward, FwInv, Shaped, AtAccess
<1> HIDE DEF f
<1>2. ASSUME Reading(a) \/ Writing(a), NEW v, b = Pump(a, v)
      PROVE  HalInv(b) /\ Onward(f, b.fw) /\ b.fw.consumed = f.consumed
  <2>1. f.pc \in AtAccess /\ f.isr # "leave" /\ a.ctrl = "run" /\ a.mask = 0
    BY <1>0, <1>2, OpIs DEF Reading, Writing, Op, Positions, AtAccess, f
  <2>2. CASE a.inIsr
    <3> DEFINE g == Resume(f, v)
    <3>1. b = [a EXCEPT !.fw = g]
      BY <1>2, <2>2 DEF Pump, Return, f
    <3>2. f.isr # "none"
      BY <1>0, <2>1, <2>2
    <3>3. FwInv(g) /\ Onward(f, g) /\ g.pc = f.pc /\ g.isr # "none"
      BY <1>0, <2>1, <3>2, ResumeStep
    <3> HIDE DEF g
    <3>4. ~Masks(g)
      BY <2>1, <3>3 DEF Masks, AtAccess
    <3>5. HalInv(b) /\ b.fw = g
      BY <1>0, <2>1, <2>2, <3>1, <3>3, <3>4 DEF HalInv
    <3>6. g.consumed = f.consumed
      BY <2>1, <3>3 DEF Onward, AtAccess
    <3> QED
      BY <3>3, <3>5, <3>6
  <2>3. CASE ~a.inIsr
    <3>1. b = [a EXCEPT !.inIsr = TRUE, !.ctrl = "pump", !.ret = v]
      BY <1>2, <2>1, <2>3 DEF Pump
    <3>2. f.isr = "none" /\ ~Masks(f)
      BY <1>0, <2>1, <2>3
    <3>3. HalInv(b) /\ b.fw = f
      BY <1>0, <2>1, <3>1, <3>2 DEF HalInv, f
    <3> QED
      BY <1>1, <2>1, <3>3
  <2> QED
    BY <1>0, <2>2, <2>3
<1>3. ASSUME Polling(a), NEW i, b = Dispatch(a, i)
      PROVE  HalInv(b) /\ Onward(f, b.fw) /\ b.fw.consumed = f.consumed
  <2>1. a.ctrl = "pump" /\ f.isr = "none" /\ f.pc \in AtAccess /\ a.inIsr /\ ~Masks(f)
    BY <1>0, <1>3 DEF Polling
  <2>2. CASE i \in Handled
    <3> DEFINE g == [f EXCEPT !.isr = "status"]
    <3>1. b = [a EXCEPT !.fw = g, !.ctrl = "run"]
      BY <1>3, <2>2 DEF Dispatch, RunsTheExample, RxEnterIsr, f
    <3>2. /\ Shaped(g) /\ g.isr = "status" /\ g.pc = f.pc /\ g.n = f.n /\ g.i = f.i
          /\ g.iters = f.iters /\ g.variant = f.variant /\ g.consumed = f.consumed
      BY <1>0 DEF FwInv, Shaped
    <3>3. FwInv(g) /\ Onward(f, g) /\ ~Masks(g)
      <4> HIDE DEF g
      <4> QED
        BY <1>0, <1>1, <2>1, <3>2 DEF FwInv, Placed, Onward, Masks, AtAccess, Fixed
    <3> HIDE DEF g
    <3> QED
      BY <1>0, <2>1, <3>1, <3>2, <3>3 DEF HalInv
  <2>3. CASE i \notin Handled
    BY <1>1, <1>3, <2>1, <2>3 DEF Dispatch, f
  <2> QED
    BY <2>2, <2>3
<1>4. ASSUME Polling(a), b = PumpDone(a)
      PROVE  HalInv(b) /\ Onward(f, b.fw) /\ b.fw.consumed = f.consumed
  <2>1. a.ctrl = "pump" /\ f.isr = "none" /\ f.pc \in AtAccess /\ a.inIsr /\ ~Masks(f)
    BY <1>0, <1>4 DEF Polling
  <2> DEFINE g == Resume(f, a.ret)
  <2>2. b = [a EXCEPT !.fw = g, !.inIsr = FALSE, !.ctrl = "run", !.ret = 0]
    BY <1>4 DEF PumpDone, f
  <2>3. FwInv(g) /\ Onward(f, g) /\ g.isr = "none" /\ ~Masks(g)
    BY <1>0, <2>1, ResumeStep DEF AtAccess
  <2> HIDE DEF g
  <2>4. HalInv(b) /\ b.fw = g
    BY <1>0, <2>1, <2>2, <2>3 DEF HalInv
  <2> QED
    BY <2>1, <2>3, <2>4 DEF Onward, AtAccess
<1>5. ASSUME Quiet(a), b = AfterQuiet(a)
      PROVE  HalInv(b) /\ Onward(f, b.fw) /\ (b.fw.consumed # f.consumed => Reading(b))
  <2> DEFINE g == Resume(f, 0)
  <2>1. a.ctrl = "run" /\ f.pc \in Positions /\ f.isr \in {"none", "status", "data", "leave"}
    BY <1>0, <1>5 DEF Quiet, FwInv, Shaped
  <2>2. CASE Op(a) \in {"step", "disable", "enable"}
    <3>1. /\ f.isr = "none" /\ f.pc # "end" /\ ~a.inIsr
          /\ Op(a) = "step" => f.pc \in {"top", "load", "take", "settle"}
          /\ Op(a) = "disable" => f.pc \in {"mask_load", "mask_settle"}
          /\ Op(a) = "enable" => f.pc \in {"unmask_load", "unmask_settle"}
      BY <1>0, <2>1, <2>2, OpIs DEF Positions, AtAccess, f
    <3>2. /\ FwInv(g) /\ Onward(f, g) /\ g.isr = "none"
          /\ f.pc \in {"mask_load", "mask_settle"} => Masks(g)
          /\ f.pc \in AtAccess \cup {"unmask_load", "unmask_settle"} => ~Masks(g)
          /\ f.pc \in {"top", "load", "take", "settle"} => (Masks(g) <=> Masks(f))
      BY <1>0, <3>1, ResumeStep
    <3> HIDE DEF g
    <3>3. /\ b = [a EXCEPT !.fw = g, !.mask = IF Masks(g) THEN 1 ELSE 0]
      <4>1. CASE Op(a) = "step"
        <5>1. b = [a EXCEPT !.fw = g]
          BY <1>5, <4>1 DEF AfterQuiet, Return, f, g
        <5>2. a.mask = IF Masks(g) THEN 1 ELSE 0
          BY <1>0, <3>1, <3>2, <4>1
        <5> QED
          BY <1>0, <5>1, <5>2
      <4>2. CASE Op(a) = "disable"
        <5>1. b = [a EXCEPT !.fw = g, !.mask = a.mask + 1]
          BY <1>5, <4>2 DEF AfterQuiet, IrqDisable, f, g
        <5>2. Masks(g) /\ ~Masks(f)
          BY <3>1, <3>2, <4>2 DEF Masks
        <5> QED
          BY <1>0, <5>1, <5>2
      <4>3. CASE Op(a) = "enable"
        <5>1. b = [a EXCEPT !.fw = g, !.mask = IF a.mask > 0 THEN a.mask - 1 ELSE 0]
          BY <1>5, <4>3 DEF AfterQuiet, IrqEnable, f, g
        <5>2. ~Masks(g) /\ Masks(f)
          BY <3>1, <3>2, <4>3 DEF Masks
        <5> QED
          BY <1>0, <5>1, <5>2
      <4> QED
        BY <2>2, <4>1, <4>2, <4>3
    <3>4. HalInv(b) /\ b.fw = g /\ b.ctrl = "run"
      BY <1>0, <2>1, <3>1, <3>2, <3>3 DEF HalInv
    <3>5. b.fw.consumed # f.consumed => Reading(b)
      BY <3>2, <3>4, OpIs DEF Onward, Reading
    <3> QED
      BY <3>2, <3>4, <3>5
  <2>3. CASE Op(a) = "iret" /\ a.inIsr
    <3>1. f.isr = "leave" /\ f.pc \in AtAccess /\ ~Masks(f)
      BY <1>0, <2>1, <2>3, OpIs DEF Positions, AtAccess, f
    <3>2. b = [a EXCEPT !.fw = g, !.ctrl = "pump"]
      BY <1>5, <2>3 DEF AfterQuiet, HandlerReturn, f
    <3>3. FwInv(g) /\ Onward(f, g) /\ g.isr = "none" /\ g.pc = f.pc
      BY <1>0, <3>1, ResumeStep
    <3> HIDE DEF g
    <3>4. ~Masks(g)
      BY <3>1, <3>3 DEF Masks, AtAccess
    <3>5. HalInv(b) /\ b.fw = g
      BY <1>0, <2>3, <3>1, <3>2, <3>3, <3>4 DEF HalInv
    <3> QED
      BY <3>1, <3>3, <3>5 DEF Onward, AtAccess
  <2> QED
    BY <1>5, <2>2, <2>3 DEF Quiet
<1> QED
  BY <1>2, <1>3, <1>4, <1>5 DEF Moves, f

\* With fewer iterations to go the firmware makes the same calls.
LEMMA SameCalls ==
    ASSUME RunsTheExample, NEW m, HalInv(m), NEW d \in Nat
    PROVE  LET n == Ahead(m, d) IN
           /\ n.fw = Sooner(m.fw, d) /\ n.mask = m.mask /\ n.inIsr = m.inIsr
           /\ n.ctrl = m.ctrl /\ n.ret = m.ret
           /\ Request(n.fw) = Request(m.fw)
           /\ IsMachine(n) /\ IsMachine(m)
<1> DEFINE n == Ahead(m, d)
<1>1. /\ n.fw = Sooner(m.fw, d) /\ n.mask = m.mask /\ n.inIsr = m.inIsr
      /\ n.ctrl = m.ctrl /\ n.ret = m.ret
  BY DEF Ahead, HalInv
<1>2. /\ n.fw.isr = m.fw.isr /\ n.fw.pc = m.fw.pc /\ n.fw.consumed = m.fw.consumed
  BY <1>1 DEF HalInv, FwInv, Shaped, Sooner
<1>3. IsMachine(m)
  BY DEF IsMachine, HalInv
<1>4. IsMachine(n)
  <2>1. n = [m EXCEPT !.fw = n.fw]
    BY <1>1 DEF Ahead
  <2> HIDE DEF n
  <2> QED
    BY <1>3, <2>1 DEF IsMachine
<1>5. Request(n.fw) = Request(m.fw)
  BY <1>2 DEF RunsTheExample, RxRequest, MainRequest, IsrRequest
<1> QED
  BY <1>1, <1>3, <1>4, <1>5

\* So the shim makes the same of an answer.
LEMMA SameAnswers ==
    ASSUME RunsTheExample, NEW m, HalInv(m), NEW d \in Nat, d < m.fw.iters
    PROVE  /\ \A v : Reading(m) \/ Writing(m) => Pump(Ahead(m, d), v) = Ahead(Pump(m, v), d)
           /\ \A i : Polling(m) => Dispatch(Ahead(m, d), i) = Ahead(Dispatch(m, i), d)
           /\ Polling(m) => PumpDone(Ahead(m, d)) = Ahead(PumpDone(m), d)
           /\ Quiet(m) => AfterQuiet(Ahead(m, d)) = Ahead(AfterQuiet(m), d)
<1> DEFINE n == Ahead(m, d)
           f == m.fw
<1>1. /\ n = [m EXCEPT !.fw = Sooner(f, d)]
      /\ n.fw = Sooner(f, d) /\ n.mask = m.mask /\ n.inIsr = m.inIsr
      /\ n.ctrl = m.ctrl /\ n.ret = m.ret /\ Op(n) = Op(m)
  BY SameCalls DEF Op, Ahead
<1>2. FwInv(f) /\ m.fw = f
  BY DEF HalInv
<1>3. m = [fw |-> f, mask |-> m.mask, inIsr |-> m.inIsr, ctrl |-> m.ctrl, ret |-> m.ret]
  BY DEF HalInv
<1>4. /\ f.isr \in {"status", "data"} => Op(m) = "read"
      /\ f.isr = "leave" => Op(m) = "iret"
      /\ f.isr = "none" /\ f.pc = "end" => Op(m) = "halt"
  BY <1>2, OpIs DEF Positions, AtAccess
<1>5. ASSUME f.isr = "none" => f.pc # "end", NEW v
      PROVE  Resume(Sooner(f, d), v) = Sooner(Resume(f, v), d)
  BY <1>2, <1>5, ResumeStep
<1>6. ASSUME NEW v, Reading(m) \/ Writing(m) PROVE Pump(n, v) = Ahead(Pump(m, v), d)
  <2>1. f.isr = "none" => f.pc # "end"
    BY <1>4, <1>6 DEF Reading, Writing
  <2>2. Resume(Sooner(f, d), v) = Sooner(Resume(f, v), d)
    BY <1>5, <2>1
  <2> HIDE DEF n, f
  <2>3. CASE m.mask > 0 \/ m.inIsr
    BY <1>1, <1>2, <1>3, <2>2, <2>3 DEF Pump, Return, Ahead
  <2>4. CASE ~(m.mask > 0 \/ m.inIsr)
    BY <1>1, <1>2, <1>3, <2>4 DEF Pump, Ahead
  <2> QED
    BY <2>3, <2>4
<1>7. ASSUME NEW i, Polling(m) PROVE Dispatch(n, i) = Ahead(Dispatch(m, i), d)
  <2>1. EnterIsr(Sooner(f, d), i) = Sooner(EnterIsr(f, i), d)
    BY <1>2 DEF RunsTheExample, RxEnterIsr, Sooner, FwInv, Shaped
  <2> HIDE DEF n, f
  <2>2. CASE i \in Handled
    BY <1>1, <1>2, <1>3, <2>1, <2>2 DEF Dispatch, Ahead
  <2>3. CASE i \notin Handled
    BY <1>1, <2>3 DEF Dispatch, n
  <2> QED
    BY <2>2, <2>3
<1>8. ASSUME Polling(m) PROVE PumpDone(n) = Ahead(PumpDone(m), d)
  <2>1. f.isr = "none" => f.pc # "end"
    BY <1>8 DEF HalInv, Polling, AtAccess
  <2>2. Resume(Sooner(f, d), m.ret) = Sooner(Resume(f, m.ret), d)
    BY <1>5, <2>1
  <2> HIDE DEF n, f
  <2> QED
    BY <1>1, <1>2, <1>3, <2>2 DEF PumpDone, Ahead
<1>9. ASSUME Quiet(m) PROVE AfterQuiet(n) = Ahead(AfterQuiet(m), d)
  <2>1. f.isr = "none" => f.pc # "end"
    BY <1>4, <1>9 DEF Quiet
  <2>2. Resume(Sooner(f, d), 0) = Sooner(Resume(f, 0), d)
    BY <1>5, <2>1
  <2> HIDE DEF n, f
  <2>3. CASE Op(m) = "step"
    BY <1>1, <1>2, <1>3, <2>2, <2>3 DEF AfterQuiet, Return, Ahead
  <2>4. CASE Op(m) = "disable"
    BY <1>1, <1>2, <1>3, <2>2, <2>4 DEF AfterQuiet, IrqDisable, Ahead
  <2>5. CASE Op(m) = "enable"
    BY <1>1, <1>2, <1>3, <2>2, <2>5 DEF AfterQuiet, IrqEnable, Ahead
  <2>6. CASE Op(m) = "iret"
    BY <1>1, <1>2, <1>3, <2>2, <2>6 DEF AfterQuiet, HandlerReturn, Ahead
  <2> QED
    BY <1>9, <2>3, <2>4, <2>5, <2>6 DEF Quiet
<1> QED
  BY <1>6, <1>7, <1>8, <1>9

\* What explains a step of the recording explains the same step of a machine with
\* fewer iterations to go.
LEMMA SameExplained ==
    ASSUME RunsTheExample, NEW a, HalInv(a.m), NEW d \in Nat, d < a.m.fw.iters,
           NEW b, NEW some, NEW ev, Explains(some, ev, a, b),
           NEW x, x.m = Ahead(a.m, d), x.events = a.events,
           NEW y, y.m = Ahead(b.m, d), y.events = b.events
    PROVE  Explains(some, ev, x, y)
<1>1. /\ Reading(x.m) <=> Reading(a.m)
      /\ Writing(x.m) <=> Writing(a.m)
      /\ Polling(x.m) <=> Polling(a.m)
      /\ Quiet(x.m) <=> Quiet(a.m)
      /\ Request(x.m.fw) = Request(a.m.fw)
  BY SameCalls DEF Reading, Writing, Polling, Quiet, Op
<1>2. /\ \A v : Reading(a.m) \/ Writing(a.m) => Pump(x.m, v) = Ahead(Pump(a.m, v), d)
      /\ \A i : Polling(a.m) => Dispatch(x.m, i) = Ahead(Dispatch(a.m, i), d)
      /\ Polling(a.m) => PumpDone(x.m) = Ahead(PumpDone(a.m), d)
      /\ Quiet(a.m) => AfterQuiet(x.m) = Ahead(AfterQuiet(a.m), d)
  BY SameAnswers
<1> QED
  BY <1>1, <1>2, Zenon DEF Explains

\* A step that is explained is one of the shim's.
LEMMA ExplainedMoves ==
    ASSUME NEW a, NEW b, NEW some, NEW ev, Explains(some, ev, a, b)
    PROVE  /\ Moves(a.m, b.m) /\ ~Halted(a.m)
           /\ b.events \in {a.events, a.events + 1}
           /\ b.events # a.events => Accesses(a.m)
           /\ Reading(a.m) => b.events = a.events + 1
<1>1. /\ Halted(a.m) => ~Reading(a.m) /\ ~Writing(a.m) /\ ~Polling(a.m) /\ ~Quiet(a.m)
      /\ Reading(a.m) => ~Writing(a.m) /\ ~Polling(a.m) /\ ~Quiet(a.m)
  BY Exclusive
<1> QED
  BY <1>1 DEF Explains, Moves, Accesses

--------------------------------------------------------------------------------
(* The recording as a whole.                                                 *)

\* rx_pump_reset starts in order.
LEMMA ResetIsSound ==
    ASSUME NEW v, NEW n \in Nat \ {0}
    PROVE  HalInv(Start(FwReset(v, n)))
<1> DEFINE f == FwReset(v, n)
<1>1. /\ Shaped(f) /\ f.pc = "top" /\ f.n = 0 /\ f.i = 0 /\ f.isr = "none"
  BY DEF FwReset, Shaped, Positions
<1> HIDE DEF f
<1>2. FwInv(f) /\ ~Masks(f)
  BY <1>1 DEF FwInv, Placed, Masks
<1>3. HalInv(Start(f))
  BY <1>1, <1>2 DEF HalInv, Start
<1> QED
  BY <1>3 DEF f

\* Every machine of a recording is in order, and every step one of the shim's.
LEMMA PathSound ==
    ASSUME RunsTheExample, PathInv, Recorded \in Firmware
    PROVE  /\ Len(path) \in Nat \ {0} /\ Len(trace) \in Nat
           /\ \A k \in 1 .. Len(path) :
                 HalInv(path[k].m) /\ path[k].events \in Nat
                 /\ path[k].events <= Len(trace)
           /\ \A k \in 1 .. Len(path) - 1 :
                 /\ Moves(path[k].m, path[k + 1].m) /\ ~Halted(path[k].m)
                 /\ path[k + 1].events \in {path[k].events, path[k].events + 1}
                 /\ path[k + 1].events # path[k].events => Accesses(path[k].m)
                 /\ Reading(path[k].m) => path[k + 1].events = path[k].events + 1
                 /\ Onward(path[k].m.fw, path[k + 1].m.fw)
                 /\ path[k + 1].m.fw.consumed # path[k].m.fw.consumed =>
                       Reading(path[k + 1].m)
<1>1. Len(path) \in Nat \ {0} /\ Len(trace) \in Nat
  BY AppendFacts DEF PathInv
<1>2. ASSUME NEW k \in 1 .. Len(path) - 1
      PROVE  /\ Moves(path[k].m, path[k + 1].m) /\ ~Halted(path[k].m)
             /\ path[k + 1].events \in {path[k].events, path[k].events + 1}
             /\ path[k + 1].events # path[k].events => Accesses(path[k].m)
             /\ Reading(path[k].m) => path[k + 1].events = path[k].events + 1
  <2>1. ExplainedAt(k)
    BY DEF PathInv
  <2> QED
    BY <2>1, ExplainedMoves DEF ExplainedAt
<1> DEFINE S == {k \in 1 .. Len(path) : HalInv(path[k].m)}
<1>3. 1 \in S
  <2>1. path[1].m = Start(Recorded)
    BY EntryFields DEF PathInv
  <2>2. PICK v, n : Recorded = FwReset(v, n)
    BY DEF RunsTheExample
  <2>3. n \in Nat \ {0}
    <3>1. Recorded.iters = n
      BY <2>2 DEF FwReset
    <3> QED
      BY <3>1, TimelineAssumption
  <2>4. HalInv(Start(Recorded))
    BY <2>2, <2>3, ResetIsSound
  <2> QED
    BY <1>1, <2>1, <2>4
<1>4. ASSUME NEW k \in 1 .. Len(path) - 1, k \in S
      PROVE  k + 1 \in S
  <2>1. HalInv(path[k].m) /\ k + 1 \in 1 .. Len(path)
    BY <1>1, <1>4
  <2> QED
    BY <1>2, <2>1, MoveKeeps
<1>5. \A k \in 1 .. Len(path) : k \in S
  <2> HIDE DEF S
  <2> QED
    BY <1>1, <1>3, <1>4, Climbs
<1>6. ASSUME NEW k \in 1 .. Len(path) - 1
      PROVE  /\ Onward(path[k].m.fw, path[k + 1].m.fw)
             /\ path[k + 1].m.fw.consumed # path[k].m.fw.consumed =>
                       Reading(path[k + 1].m)
  <2>1. HalInv(path[k].m)
    BY <1>1, <1>5
  <2> QED
    BY <1>2, <2>1, MoveKeeps
<1> QED
  BY <1>1, <1>2, <1>5, <1>6 DEF PathInv

\* What counts at a place of the recording.
Iters(k) == path[k].m.fw.iters
Pc(k) == path[k].m.fw.pc
Consumed(k) == path[k].m.fw.consumed

\* What is counted along it is counted up, and the iterations that are left, down.
LEMMA PathOrder ==
    ASSUME RunsTheExample, PathInv, Recorded \in Firmware,
           NEW j \in 1 .. Len(path), NEW k \in j .. Len(path)
    PROVE  /\ Iters(k) <= Iters(j) /\ Iters(j) \in Nat /\ Iters(k) \in Nat
           /\ path[j].events <= path[k].events
           /\ Consumed(j) <= Consumed(k) /\ Consumed(j) \in Nat /\ Consumed(k) \in Nat
           /\ path[k].m.fw.variant = path[j].m.fw.variant
           /\ Pc(j) = "top" /\ k # j =>
                 Iters(k) < Iters(j) \/ (Iters(k) = Iters(j) /\ Pc(k) # "top")
<1>1. /\ Len(path) \in Nat \ {0}
      /\ \A i \in 1 .. Len(path) :
            Iters(i) \in Nat /\ Consumed(i) \in Nat /\ path[i].events \in Nat
      /\ \A i \in 1 .. Len(path) - 1 :
            /\ Onward(path[i].m.fw, path[i + 1].m.fw)
            /\ path[i + 1].events \in {path[i].events, path[i].events + 1}
  BY PathSound DEF HalInv, FwInv, Shaped, Iters, Consumed
<1> DEFINE Up == {i \in j .. Len(path) :
                    /\ Iters(i) <= Iters(j) /\ path[j].events <= path[i].events
                    /\ Consumed(j) <= Consumed(i)
                    /\ path[i].m.fw.variant = path[j].m.fw.variant}
<1>2. j \in Up
  BY <1>1
<1>3. ASSUME NEW i \in j .. Len(path) - 1, i \in Up PROVE i + 1 \in Up
  <2>1. /\ i \in 1 .. Len(path) - 1 /\ i \in 1 .. Len(path)
        /\ i + 1 \in 1 .. Len(path) /\ i + 1 \in j .. Len(path)
    BY <1>1, SMTT(60)
  <2>2. /\ Iters(i + 1) <= Iters(i) /\ Consumed(i + 1) >= Consumed(i)
        /\ path[i + 1].m.fw.variant = path[i].m.fw.variant
    <3>1. Onward(path[i].m.fw, path[i + 1].m.fw)
      BY <1>1, <2>1
    <3> QED
      BY <3>1 DEF Onward, Iters, Consumed
  <2>4. path[i + 1].events \in {path[i].events, path[i].events + 1}
    BY <1>1, <2>1
  <2>3. /\ Iters(i + 1) \in Nat /\ Consumed(i + 1) \in Nat /\ path[i + 1].events \in Nat
        /\ Iters(i) \in Nat /\ Consumed(i) \in Nat /\ path[i].events \in Nat
        /\ Iters(j) \in Nat /\ Consumed(j) \in Nat /\ path[j].events \in Nat
    BY <1>1, <2>1
  <2> QED
    <3>1. /\ Iters(i) <= Iters(j) /\ path[j].events <= path[i].events
          /\ Consumed(j) <= Consumed(i)
          /\ path[i].m.fw.variant = path[j].m.fw.variant
      BY <1>3
    <3>2. Iters(i + 1) <= Iters(j) /\ Consumed(j) <= Consumed(i + 1)
      BY <2>2, <2>3, <3>1, SMTT(60)
    <3>3. path[j].events <= path[i + 1].events
      <4> DEFINE e == path[j].events
                 x == path[i].events
                 y == path[i + 1].events
      <4>1. e \in Nat /\ x \in Nat /\ y \in {x, x + 1} /\ e <= x
        BY <2>3, <2>4, <3>1
      <4> HIDE DEF e, x, y
      <4>2. e <= y
        BY <4>1
      <4> QED
        BY <4>2 DEF e, y
    <3> QED
      BY <2>1, <2>2, <3>1, <3>2, <3>3
<1>4. k \in Up
  <2>1. j \in Nat /\ Len(path) \in Nat
    BY <1>1
  <2> HIDE DEF Up
  <2>2. \A i \in j .. Len(path) : i \in Up
    BY <1>2, <1>3, <2>1, Climbs
  <2> QED
    BY <2>2
<1> DEFINE Past == {i \in j .. Len(path) :
                      Iters(i) < Iters(j) \/ (Iters(i) = Iters(j) /\ Pc(i) # "top")}
<1>5. ASSUME Pc(j) = "top", k # j PROVE k \in Past
  <2>1. j + 1 \in 1 .. Len(path) /\ j \in 1 .. Len(path) - 1 /\ j + 1 \in j .. Len(path)
    BY <1>1, <1>5
  <2>2. j + 1 \in Past
    BY <1>1, <1>5, <2>1 DEF Onward, Iters, Pc
  <2>3. ASSUME NEW i \in j + 1 .. Len(path) - 1, i \in Past PROVE i + 1 \in Past
    <3>1. /\ i \in 1 .. Len(path) - 1 /\ i \in 1 .. Len(path)
          /\ i + 1 \in 1 .. Len(path) /\ i + 1 \in j .. Len(path)
      BY <1>1
    <3>2. /\ Iters(i + 1) <= Iters(i)
          /\ Pc(i + 1) = "top" => Iters(i + 1) # Iters(i)
      BY <1>1, <3>1 DEF Onward, Iters, Pc
    <3>3. Iters(i + 1) \in Nat /\ Iters(i) \in Nat /\ Iters(j) \in Nat
      BY <1>1, <3>1
    <3> QED
      BY <2>3, <3>1, <3>2, <3>3
  <2>4. j + 1 \in Nat /\ Len(path) \in Nat /\ k \in j + 1 .. Len(path)
    BY <1>1, <1>5
  <2> DEFINE J == j + 1
  <2> HIDE DEF Past, J
  <2>5. \A i \in J .. Len(path) : i \in Past
    BY <2>2, <2>3, <2>4, Climbs DEF J
  <2> QED
    BY <2>4, <2>5 DEF J
<1> QED
  BY <1>1, <1>4, <1>5

\* The recording at the head of main-loop iteration iter.
IsHead(j, iter) ==
    /\ j \in 1 .. Len(path)
    /\ Pc(j) = "top" /\ Iters(j) = MainIters - iter

\* There is one such place, and there nothing of a call is left.
LEMMA HeadIs ==
    ASSUME RunsTheExample, PathInv, Recorded \in Firmware,
           NEW j, NEW iter, IsHead(j, iter)
    PROVE  /\ HeadOf(iter) = j
           /\ LET m == path[j].m IN
              /\ m.mask = 0 /\ ~m.inIsr /\ m.ctrl = "run" /\ m.ret = 0
              /\ m.fw.n = 0 /\ m.fw.i = 0 /\ m.fw.isr = "none"
              /\ FwInv(m.fw) /\ HalInv(m)
<1>1. \A k \in 1 .. Len(path) : HalInv(path[k].m)
  BY PathSound
<1>2. ASSUME NEW k, IsHead(k, iter)
      PROVE  LET m == path[k].m IN
              /\ m.mask = 0 /\ ~m.inIsr /\ m.ctrl = "run" /\ m.ret = 0
              /\ m.fw.n = 0 /\ m.fw.i = 0 /\ m.fw.isr = "none"
              /\ FwInv(m.fw) /\ HalInv(m)
  <2> DEFINE m == path[k].m
  <2>1. HalInv(m) /\ m.fw.pc = "top"
    BY <1>1, <1>2 DEF IsHead, Pc
  <2> HIDE DEF m
  <2>2. FwInv(m.fw) /\ m.fw.isr = "none" /\ m.fw.n = 0 /\ m.fw.i = 0 /\ ~Masks(m.fw)
    BY <2>1 DEF HalInv, FwInv, Shaped, Placed, Masks, AtAccess
  <2>3. m.mask = 0 /\ ~m.inIsr /\ m.ctrl = "run" /\ m.ret = 0
    BY <2>1, <2>2 DEF HalInv, AtAccess
  <2> QED
    BY <2>1, <2>2, <2>3 DEF m
<1> DEFINE There(k) ==
      /\ path[k].m.fw.pc = "top" /\ path[k].m.fw.iters = MainIters - iter
      /\ path[k].m.fw.isr = "none"
<1>3. j \in 1 .. Len(path) /\ There(j)
  BY <1>2 DEF IsHead, Pc, Iters
<1>4. ASSUME NEW k \in 1 .. Len(path), There(k) PROVE k = j
  <2>1. IsHead(k, iter) /\ Iters(k) = Iters(j) /\ Pc(k) = "top" /\ Pc(j) = "top"
    BY <1>4 DEF IsHead, Pc, Iters
  <2>2. Len(path) \in Nat /\ j \in 1 .. Len(path)
    BY PathSound DEF IsHead
  <2>3. CASE k > j
    <3>1. k \in j .. Len(path) /\ k # j
      BY <2>2, <2>3
    <3>2. Iters(k) < Iters(j) /\ Iters(j) \in Nat /\ Iters(k) \in Nat
      BY <2>1, <2>2, <3>1, PathOrder
    <3> QED
      BY <2>1, <3>2
  <2>4. CASE j > k
    <3>1. j \in k .. Len(path) /\ k # j
      BY <2>2, <2>4
    <3>2. Iters(j) < Iters(k) /\ Iters(j) \in Nat /\ Iters(k) \in Nat
      BY <2>1, <2>2, <3>1, PathOrder
    <3> QED
      BY <2>1, <3>2
  <2> QED
    BY <2>2, <2>3, <2>4
<1>5. HeadOf(iter) = CHOOSE k \in 1 .. Len(path) : There(k)
  BY DEF HeadOf
<1>6. HeadOf(iter) = j
  <2> HIDE DEF There
  <2> QED
    BY <1>3, <1>4, <1>5
<1> QED
  BY <1>2, <1>6

\* Every event is recorded by an access, or by a poll.
LEMMA EventHasAccess ==
    ASSUME RunsTheExample, PathInv, Recorded \in Firmware,
           NEW j \in 1 .. Len(path), NEW k \in Nat,
           path[j].events <= k, k < path[Len(path)].events
    PROVE  \E i \in j .. Len(path) - 1 : path[i].events = k /\ Accesses(path[i].m)
<1>1. /\ Len(path) \in Nat \ {0}
      /\ \A i \in 1 .. Len(path) : path[i].events \in Nat
      /\ \A i \in 1 .. Len(path) - 1 :
            /\ path[i + 1].events = path[i].events \/ path[i + 1].events = path[i].events + 1
            /\ path[i + 1].events # path[i].events => Accesses(path[i].m)
  BY PathSound, SMTT(60)
<1> DEFINE S == {i \in j .. Len(path) : path[i].events > k}
<1>2. PICK i \in S : \A h \in S : i <= h
  <2>1. S \subseteq Nat /\ Len(path) \in S
    BY <1>1
  <2> HIDE DEF S
  <2> QED
    BY <2>1, Least
<1>3. i # j /\ i \in j .. Len(path)
  BY <1>1, <1>2
<1>4. i - 1 \in j .. Len(path) - 1 /\ i - 1 \in 1 .. Len(path) /\ i \in 1 .. Len(path)
      /\ i - 1 \in 1 .. Len(path) - 1 /\ (i - 1) + 1 = i /\ ~(i <= i - 1)
      /\ i - 1 \in j .. Len(path)
  BY <1>1, <1>3
<1>5. ~(path[i - 1].events > k) /\ path[i].events > k
  BY <1>2, <1>4
<1> DEFINE x == path[i - 1].events
           y == path[i].events
<1>6. x \in Nat /\ y \in Nat /\ (y = x \/ y = x + 1) /\ (y # x => Accesses(path[i - 1].m))
  <2>1. path[(i - 1) + 1].events = x \/ path[(i - 1) + 1].events = x + 1
    BY <1>1, <1>4
  <2>2. path[(i - 1) + 1].events # x => Accesses(path[i - 1].m)
    BY <1>1, <1>4
  <2> QED
    BY <1>1, <1>4, <2>1, <2>2
<1>7. ~(x > k) /\ y > k
  BY <1>5
<1> HIDE DEF x, y
<1>8. x = k /\ y # x
  BY <1>6, <1>7
<1> QED
  BY <1>4, <1>6, <1>8 DEF x

\* After the last event the main loop takes no byte: it would read a stamp next.
LEMMA LastWork ==
    ASSUME RunsTheExample, PathInv, Recorded \in Firmware,
           Halted(path[Len(path)].m),
           NEW i \in 1 .. Len(path), path[i].events = path[Len(path)].events
    PROVE  Consumed(i) = Consumed(Len(path))
<1> DEFINE S == {k \in i .. Len(path) : Consumed(k) = Consumed(i)}
           N == Len(path)
<1>1. N \in Nat \ {0} /\ \A k \in 1 .. N : path[k].events \in Nat
  BY PathSound
<1>2. ASSUME NEW k \in i .. N - 1, k \in S PROVE k + 1 \in S
  <2>1. k \in 1 .. N - 1 /\ k + 1 \in 1 .. N /\ k + 1 \in i .. N /\ N \in k + 1 .. N
    BY <1>1
  <2>2. CASE Reading(path[k + 1].m)
    <3>1. k + 1 # N
      BY <2>2, Exclusive
    <3>2. k + 1 \in 1 .. N - 1 /\ (k + 1) + 1 \in 1 .. N /\ N \in (k + 1) + 1 .. N
      BY <1>1, <2>1, <3>1
    <3>3. path[(k + 1) + 1].events = path[k + 1].events + 1
      BY <2>2, <3>2, PathSound
    <3>4. path[i].events <= path[k + 1].events /\ path[(k + 1) + 1].events <= path[N].events
      BY <2>1, <3>2, PathOrder
    <3>5. path[k + 1].events \in Nat /\ path[i].events \in Nat
      BY <1>1, <2>1
    <3> QED
      BY <3>3, <3>4, <3>5, SMTT(60)
  <2>3. CASE ~Reading(path[k + 1].m)
    <3>1. Consumed(k + 1) = Consumed(k)
      BY <2>1, <2>3, PathSound DEF Consumed
    <3> QED
      BY <1>2, <2>1, <3>1
  <2> QED
    BY <2>2, <2>3
<1>3. i \in S /\ i \in Nat /\ N \in i .. N
  BY <1>1
<1> HIDE DEF S, N
<1>4. \A k \in i .. N : k \in S
  BY <1>1, <1>2, <1>3, Climbs
<1> QED
  BY <1>3, <1>4 DEF S, N

--------------------------------------------------------------------------------
(* What a seek looks for.                                                    *)

\* The recording at i is about to be served the event k.
Serves(i, k) == path[i].events = k /\ Accesses(path[i].m)

\* The state a seek answers with is that of the first machine, from the head it
\* starts at, that serves the event.
LEMMA FirstIs ==
    ASSUME PathInv, NEW j \in 1 .. Len(path), NEW k, NEW i \in j .. Len(path), Serves(i, k),
           \A h \in j .. i - 1 : ~Serves(h, k)
    PROVE  FirstWith(k, j) = FwState(path[i].m.fw)
<1> DEFINE there == {h \in j .. Len(path) : path[h].events = k /\ Accesses(path[h].m)}
<1>0. Len(path) \in Nat
  BY AppendFacts DEF PathInv
<1>1. i \in there
  BY DEF Serves
<1>2. ASSUME NEW h \in there PROVE i <= h
  <2>1. h \notin j .. i - 1
    BY DEF Serves
  <2> QED
    BY <1>0, <2>1
<1>3. there # {} /\ \A x \in there : (\A h \in there : x <= h) => x = i
  <2>1. \A x \in there : x \in Int
    BY <1>0
  <2> HIDE DEF there
  <2> QED
    BY <1>1, <1>2, <2>1
<1>4. FirstWith(k, j) = IF there = {} THEN FwState(path[Len(path)].m.fw)
          ELSE FwState(path[CHOOSE x \in there : \A h \in there : x <= h].m.fw)
  BY DEF FirstWith
<1> HIDE DEF there
<1>5. (CHOOSE x \in there : \A h \in there : x <= h) = i
  BY <1>1, <1>2, <1>3
<1> QED
  BY <1>3, <1>4, <1>5

\* When no machine serves it any more, it is the state at the end.
LEMMA FirstIsEnd ==
    ASSUME NEW j, NEW k, \A h \in j .. Len(path) : ~Serves(h, k)
    PROVE  FirstWith(k, j) = FwState(path[Len(path)].m.fw)
BY DEF FirstWith, Serves

\* It is one or the other.
LEMMA FirstOrEnd ==
    ASSUME PathInv, NEW j \in 1 .. Len(path), NEW k
    PROVE  \/ /\ \A h \in j .. Len(path) : ~Serves(h, k)
              /\ FirstWith(k, j) = FwState(path[Len(path)].m.fw)
           \/ \E i \in j .. Len(path) :
                /\ Serves(i, k) /\ FirstWith(k, j) = FwState(path[i].m.fw)
<1>0. Len(path) \in Nat
  BY AppendFacts DEF PathInv
<1>1. CASE \A h \in j .. Len(path) : ~Serves(h, k)
  BY <1>1, FirstIsEnd
<1>2. CASE \E h \in j .. Len(path) : Serves(h, k)
  <2> DEFINE S == {h \in j .. Len(path) : Serves(h, k)}
  <2>1. PICK i \in S : \A h \in S : i <= h
    <3>1. S \subseteq Nat /\ S # {}
      BY <1>0, <1>2
    <3> HIDE DEF S
    <3> QED
      BY <3>1, Least
  <2>2. \A h \in j .. i - 1 : ~Serves(h, k)
    BY <1>0, <2>1
  <2> QED
    BY <2>1, <2>2, FirstIs
<1> QED
  BY <1>1, <1>2

\* rx_pump_state shows what has been consumed.
LEMMA StateConsumed == \A f : FwState(f).consumed = f.consumed
BY DEF FwState

--------------------------------------------------------------------------------
(* Checkpoints.                                                              *)

\* The clock after k events.
TimeAt(k) == IF k = 0 THEN 0 ELSE trace[k].ts

\* cp describes the recording at j, the head of its iteration.
Describes(cp, j) ==
    /\ IsHead(j, cp.main_iter)
    /\ cp.fw = FwState(path[j].m.fw)
    /\ cp.cursor = path[j].events /\ cp.ts = TimeAt(cp.cursor)

\* The checkpoints describe heads of the recording, in order, the first one the
\* first.
CheckpointsInv ==
    /\ IsSeq(checkpoints) /\ Len(checkpoints) >= 1
    /\ checkpoints[1].cursor = 0
    /\ \A i \in 1 .. Len(checkpoints) :
          /\ checkpoints[i].main_iter \in 0 .. MainIters - 1
          /\ \E j : Describes(checkpoints[i], j)

\* The checkpoint a seek starts from lies at the event, or before it.
LEMMA NearestIs ==
    ASSUME CheckpointsInv, PathInv, NEW k \in Nat
    PROVE  /\ \E i \in 1 .. Len(checkpoints) : Nearest(k) = checkpoints[i]
           /\ Nearest(k).cursor <= k
<1> DEFINE before == {i \in 1 .. Len(checkpoints) : checkpoints[i].cursor <= k}
           After == {Len(checkpoints) - i : i \in before}
<1>1. Len(checkpoints) \in Nat /\ Len(checkpoints) >= 1
  BY AppendFacts DEF CheckpointsInv
<1>2. 1 \in before
  BY <1>1 DEF CheckpointsInv
<1>3. PICK n \in After : \A m \in After : n <= m
  <2>1. After \subseteq Nat /\ After # {}
    BY <1>1, <1>2
  <2> HIDE DEF After
  <2> QED
    BY <2>1, Least
<1>4. PICK i \in before : n = Len(checkpoints) - i
  BY <1>3
<1>5. \A j \in before : j <= i
  <2> SUFFICES ASSUME NEW j \in before PROVE j <= i
    OBVIOUS
  <2>1. n <= Len(checkpoints) - j
    BY <1>3
  <2> QED
    BY <1>1, <1>4, <2>1
<1>6. PICK x : x \in before /\ (\A j \in before : j <= x) /\ Nearest(k) = checkpoints[x]
  <2>1. Nearest(k) = checkpoints[CHOOSE x \in before : \A j \in before : j <= x]
    BY DEF Nearest
  <2> HIDE DEF before
  <2> QED
    BY <1>4, <1>5, <2>1
<1> QED
  BY <1>6

\* CheckpointsAreComplete, of checkpoints that describe the recording.
LEMMA Complete ==
    ASSUME RunsTheExample, PathInv, Recorded \in Firmware, CheckpointsInv
    PROVE  CheckpointsAreComplete
<1> SUFFICES ASSUME NEW i \in 1 .. Len(checkpoints)
             PROVE  LET cp == checkpoints[i]
                        head == path[HeadOf(cp.main_iter)]
                    IN /\ cp.fw = FwState(head.m.fw) /\ cp.cursor = head.events
                       /\ cp.ts = IF cp.cursor = 0 THEN 0 ELSE trace[cp.cursor].ts
                       /\ head.m.mask = 0 /\ ~head.m.inIsr
  BY DEF CheckpointsAreComplete
<1>1. PICK j : Describes(checkpoints[i], j)
  BY DEF CheckpointsInv
<1>2. HeadOf(checkpoints[i].main_iter) = j /\ path[j].m.mask = 0 /\ ~path[j].m.inIsr
  BY <1>1, HeadIs DEF Describes
<1> QED
  BY <1>1, <1>2 DEF Describes, TimeAt

--------------------------------------------------------------------------------
(* The firmware re-executed, one iteration at a time.                        *)

\* Iterations that follow the one under way.
Lag == MainIters - job.iter - 1

\* The replay is where the recording was at p; its firmware has one iteration to
\* go, has come to its end, or has found that there is none left.
Behind(p) ==
    /\ p \in 1 .. Len(path)
    /\ cursor = path[p].events /\ now = TimeAt(cursor)
    /\ \/ Iters(p) = Lag + 1 /\ hal = Ahead(path[p].m, Lag)
       \/ /\ Iters(p) = Lag /\ Pc(p) = "top"
          /\ \/ hal = Ahead(path[p].m, Lag)
             \/ hal = [Ahead(path[p].m, Lag) EXCEPT !.fw.pc = "end"]

\* The steps of a replay.
Replays == ReplayRead \/ ReplayWrite \/ ReplayIrq \/ ReplayNoIrq \/ ReplayQuiet

\* The clock of the replay is that of the last event consumed.
LEMMA ClockFollows ==
    ASSUME Replays, cursor \in Nat, now = TimeAt(cursor)
    PROVE  now' = TimeAt(cursor')
<1>1. \/ cursor' = cursor /\ now' = now
      \/ cursor' = cursor + 1 /\ now' = trace[cursor + 1].ts
  BY DEF Replays, ReplayRead, ReplayWrite, ReplayIrq, ReplayNoIrq, ReplayQuiet,
         Consume, Diverge
<1> QED
  BY <1>1 DEF TimeAt

\* The head of the main loop with no iteration to go: the firmware ends.
LEMMA NoneLeft ==
    ASSUME RunsTheExample, NEW m, HalInv(m), m.fw.pc = "top"
    PROVE  LET n == Ahead(m, m.fw.iters)
               e == [n EXCEPT !.fw.pc = "end"]
           IN /\ Quiet(n) /\ AfterQuiet(n) = e
              /\ e.ctrl = "run" /\ ~e.inIsr /\ Op(e) = "halt" /\ IsMachine(e)
              /\ e.fw.variant = m.fw.variant /\ FwState(e.fw) = FwState(m.fw)
<1> DEFINE f == m.fw
           d == f.iters
           n == Ahead(m, d)
           e == [n EXCEPT !.fw.pc = "end"]
<1>1. /\ FwInv(f) /\ Shaped(f) /\ f.pc = "top" /\ f.isr = "none" /\ d \in Nat
      /\ f.n = 0 /\ f.i = 0
  BY DEF HalInv, FwInv, Shaped, Placed, AtAccess
<1>2. /\ m = [fw |-> f, mask |-> m.mask, inIsr |-> m.inIsr, ctrl |-> m.ctrl, ret |-> m.ret]
      /\ m.ctrl = "run" /\ ~m.inIsr
  BY <1>1 DEF HalInv, AtAccess
<1>3. /\ n = [m EXCEPT !.fw = Sooner(f, d)] /\ IsMachine(n) /\ n.ctrl = "run" /\ ~n.inIsr
      /\ n.fw = Sooner(f, d) /\ Request(n.fw) = Request(f)
  BY <1>1, <1>2, SameCalls DEF Ahead
<1>4. Op(n) = "step"
  BY <1>1, <1>3, OpIs DEF Op
<1> DEFINE g == [f EXCEPT !.iters = 0, !.pc = "end"]
<1>5. Sooner(f, d) = [f EXCEPT !.iters = 0]
  BY <1>1 DEF Sooner
<1>6. Resume(Sooner(f, d), 0) = g
  <2> DEFINE h == [f EXCEPT !.iters = 0]
  <2>1. h.pc = "top" /\ h.isr = "none" /\ h.iters = 0
    BY <1>1 DEF Shaped
  <2>2. Resume(h, 0) = [h EXCEPT !.pc = "end"]
    <3> HIDE DEF h
    <3> QED
      BY <2>1 DEF RunsTheExample, RxResume, MainResume, Top
  <2>3. [h EXCEPT !.pc = "end"] = g
    BY <1>1 DEF Shaped
  <2> QED
    BY <1>5, <2>2, <2>3
<1>7. Quiet(n) /\ AfterQuiet(n) = [n EXCEPT !.fw = Resume(n.fw, 0)]
  BY <1>3, <1>4 DEF Quiet, AfterQuiet, Return
<1>8. e = [n EXCEPT !.fw = g]
  <2>1. [n.fw EXCEPT !.pc = "end"] = g
    BY <1>1, <1>3, <1>5 DEF Shaped
  <2> HIDE DEF n, g
  <2> QED
    BY <1>2, <1>3, <2>1
<1>9. /\ FwInv(g) /\ g.isr = "none" /\ g.pc = "end" /\ g.variant = f.variant
      /\ FwState(g) = FwState(f)
  <2>1. /\ g.isr = "none" /\ g.pc = "end" /\ g.iters = 0 /\ g.variant = f.variant
        /\ g.consumed = f.consumed /\ g.consumed \in Nat
    BY <1>1 DEF Shaped
  <2>3. Shaped(g)
    <3> DEFINE z == 0
               l == "end"
    <3>1. g = [f EXCEPT !.iters = z, !.pc = l] /\ z \in Nat /\ l \in Positions
      BY DEF Positions
    <3> HIDE DEF g, z, l
    <3> QED
      BY <1>1, <3>1 DEF Shaped
  <2>2. FwState(g) = FwState(f)
    BY <1>1 DEF Shaped, FwState
  <2> HIDE DEF g
  <2> QED
    BY <2>1, <2>2, <2>3 DEF FwInv, Placed, AtAccess
<1>10. /\ e.ctrl = "run" /\ ~e.inIsr /\ e.fw = g /\ IsMachine(e)
  <2> HIDE DEF g, e, n
  <2> QED
    BY <1>3, <1>8 DEF IsMachine
<1>11. Op(e) = "halt"
  <2> HIDE DEF g, e
  <2> QED
    BY <1>9, <1>10, OpIs
<1> HIDE DEF g
<1>12. AfterQuiet(n) = e
  BY <1>3, <1>6, <1>7, <1>8
<1> QED
  BY <1>7, <1>9, <1>10, <1>11, <1>12

\* How many iterations are to follow does not show in rx_pump_state.
LEMMA SameState ==
    ASSUME NEW f, FwInv(f), NEW d
    PROVE  FwState(Sooner(f, d)) = FwState(f) /\ Sooner(f, d).variant = f.variant
BY DEF FwState, Sooner, FwInv, Shaped

\* The machine of the replay makes accesses where the recording's does.
LEMMA BehindAccesses ==
    ASSUME RunsTheExample, PathInv, Recorded \in Firmware, NEW p, Behind(p), Lag \in Nat
    PROVE  /\ IsMachine(hal)
           /\ Accesses(hal) <=> Accesses(path[p].m)
           /\ Accesses(hal) => FwState(hal.fw) = FwState(path[p].m.fw)
           /\ Halted(hal) => /\ Iters(p) = Lag /\ Pc(p) = "top"
                             /\ hal.fw.variant = path[p].m.fw.variant
                             /\ FwState(hal.fw) = FwState(path[p].m.fw)
<1> DEFINE m == path[p].m
           n == Ahead(m, Lag)
<1>1. HalInv(m) /\ Lag \in Nat
  BY PathSound DEF Behind
<1>2. /\ n.ctrl = m.ctrl /\ n.inIsr = m.inIsr /\ Request(n.fw) = Request(m.fw)
      /\ n.fw = Sooner(m.fw, Lag) /\ IsMachine(n) /\ FwInv(m.fw)
  BY <1>1, SameCalls DEF HalInv
<1>3. FwState(n.fw) = FwState(m.fw) /\ n.fw.variant = m.fw.variant
  BY <1>2, SameState
<1>4. Accesses(n) <=> Accesses(m)
  BY <1>2 DEF Accesses, Reading, Writing, Polling, Op
<1>5. m.fw.pc = "top" => ~Accesses(m) /\ ~Halted(n)
  <2> SUFFICES ASSUME m.fw.pc = "top" PROVE ~Accesses(m) /\ ~Halted(n)
    OBVIOUS
  <2>1. m.fw.isr = "none" /\ m.ctrl = "run"
    BY <1>1 DEF HalInv, FwInv, Placed, AtAccess
  <2>2. Op(m) = "step"
    BY <1>2, <2>1, OpIs
  <2> QED
    BY <1>2, <2>1, <2>2 DEF Accesses, Reading, Writing, Polling, Halted, Op
<1>6. CASE Iters(p) = Lag + 1 /\ hal = n
  <2>1. m.fw.pc # "end"
    BY <1>1, <1>2, <1>6 DEF FwInv, Placed, Iters
  <2>2. ~Halted(m)
    BY <1>2, <2>1, OpIs DEF Halted, Positions, AtAccess
  <2>3. ~Halted(n)
    BY <1>2, <2>2 DEF Halted, Op
  <2> QED
    BY <1>2, <1>3, <1>4, <1>6, <2>3
<1>7. CASE Iters(p) = Lag /\ Pc(p) = "top" /\ hal = n
  BY <1>2, <1>3, <1>4, <1>5, <1>7, SMTT(60) DEF Pc
<1>8. CASE Iters(p) = Lag /\ Pc(p) = "top" /\ hal = [n EXCEPT !.fw.pc = "end"]
  <2>1. /\ hal.ctrl = "run" /\ ~hal.inIsr /\ Op(hal) = "halt" /\ IsMachine(hal)
        /\ hal.fw.variant = m.fw.variant /\ FwState(hal.fw) = FwState(m.fw)
    BY <1>1, <1>8, NoneLeft, SMTT(60) DEF Iters, Pc
  <2> QED
    BY <1>5, <1>8, <2>1 DEF Pc, Accesses, Reading, Writing, Polling
<1> QED
  BY <1>6, <1>7, <1>8 DEF Behind

\* A step of the re-execution is the recording's, or ends the iteration.
LEMMA BehindStep ==
    ASSUME RunsTheExample, RecordWrites, PathInv, Recorded \in Firmware,
           Halted(path[Len(path)].m),
           NEW p, Behind(p), Lag \in Nat, Replays, Lag' = Lag
    PROVE  /\ UNCHANGED <<phase, dev, trace, path, from>>
           /\ \/ Behind(p)' /\ ~Accesses(path[p].m)
              \/ Behind(p + 1)' /\ p + 1 \in 1 .. Len(path)
<1>1. UNCHANGED <<phase, dev, trace, path, from>>
  BY DEF Replays, ReplayRead, ReplayWrite, ReplayIrq, ReplayNoIrq, ReplayQuiet,
         UNCHANGED_record
<1>2. /\ Len(path) \in Nat \ {0} /\ Len(trace) \in Nat
      /\ \A k \in 1 .. Len(path) : HalInv(path[k].m) /\ path[k].events \in Nat
  BY PathSound
<1> DEFINE m == path[p].m
           n == Ahead(m, Lag)
<1>3. /\ p \in 1 .. Len(path) /\ cursor = path[p].events /\ cursor \in Nat
      /\ HalInv(m) /\ now = TimeAt(cursor)
  BY <1>2 DEF Behind
<1>4. /\ n.ctrl = m.ctrl /\ n.inIsr = m.inIsr /\ Request(n.fw) = Request(m.fw)
      /\ IsMachine(n)
  BY <1>3, SameCalls
<1>5. now' = TimeAt(cursor')
  BY <1>3, ClockFollows
<1>6. /\ Reading(hal) \/ Writing(hal) \/ Polling(hal) \/ Quiet(hal)
      /\ ~Halted(hal)
  BY Exclusive DEF Replays, ReplayRead, ReplayWrite, ReplayIrq, ReplayNoIrq, ReplayQuiet
<1>7. CASE Iters(p) = Lag + 1 /\ hal = n
  <2>1. ~Halted(m)
    BY <1>4, <1>6, <1>7 DEF Halted, Op
  <2>2. p \in 1 .. Len(path) - 1 /\ p + 1 \in 1 .. Len(path)
    BY <1>2, <1>3, <2>1
  <2>3. ExplainedAt(p)
    BY <2>2 DEF PathInv
  <2> DEFINE here == [m |-> hal, events |-> cursor]
             there == [m |-> Ahead(path[p + 1].m, Lag), events |-> path[p + 1].events]
  <2>4. Lag < path[p].m.fw.iters
    BY <1>7 DEF Iters
  <2>5. Explains(path[p].events < Len(trace), trace[path[p].events + 1], path[p], path[p + 1])
    BY <2>3 DEF ExplainedAt
  <2>6. /\ here.m = Ahead(path[p].m, Lag) /\ here.events = path[p].events
        /\ there.m = Ahead(path[p + 1].m, Lag) /\ there.events = path[p + 1].events
        /\ here.m = hal /\ here.events = cursor
    BY <1>3, <1>7
  <2> HIDE DEF here, there
  <2>7. Explains(path[p].events < Len(trace), trace[path[p].events + 1], here, there)
    BY <1>3, <2>4, <2>5, <2>6, SameExplained
  <2>8. IsMachine(hal)
    BY <1>4, <1>7
  <2>9. hal' = there.m /\ cursor' = there.events
    BY <1>2, <1>3, <2>6, <2>7, <2>8, TakesTheStep DEF Replays
  <2>10. Onward(path[p].m.fw, path[p + 1].m.fw)
    BY <2>2, PathSound
  <2>11. Iters(p + 1) = Lag + 1 \/ (Iters(p + 1) = Lag /\ Pc(p + 1) = "top")
    <3>1. Iters(p + 1) = Iters(p) \/ (Iters(p + 1) = Iters(p) - 1 /\ Pc(p + 1) = "top")
      BY <2>10 DEF Onward, Iters, Pc
    <3> QED
      BY <1>7, <3>1
  <2>12. Behind(p + 1)'
    <3>1. (p + 1 \in 1 .. Len(path))' /\ (path[p + 1] = path'[p + 1])
      BY <1>1, <2>2
    <3>2. (Iters(p + 1))' = Iters(p + 1) /\ (Pc(p + 1))' = Pc(p + 1)
      BY <1>1 DEF Iters, Pc
    <3>3. hal' = (Ahead(path[p + 1].m, Lag))' /\ cursor' = path'[p + 1].events
      BY <1>1, <2>6, <2>9 DEF Ahead, Sooner
    <3>4. now' = (TimeAt(cursor))'
      BY <1>1, <1>5 DEF TimeAt
    <3> QED
      BY <2>11, <3>1, <3>2, <3>3, <3>4 DEF Behind
  <2> QED
    BY <1>1, <2>2, <2>12
<1>8. CASE Iters(p) = Lag /\ Pc(p) = "top"
  <2> DEFINE e == [n EXCEPT !.fw.pc = "end"]
  <2>1. /\ Quiet(n) /\ AfterQuiet(n) = e
        /\ e.ctrl = "run" /\ ~e.inIsr /\ Op(e) = "halt"
    BY <1>3, <1>8, NoneLeft DEF Iters, Pc
  <2> HIDE DEF e
  <2>2. hal # e
    BY <1>6, <2>1 DEF Halted
  <2>3. hal = n
    BY <1>3, <1>8, <2>2 DEF Behind, e
  <2>4. ReplayQuiet
    BY <2>1, <2>3, Exclusive
    DEF Replays, ReplayRead, ReplayWrite, ReplayIrq, ReplayNoIrq
  <2>5. hal' = e /\ cursor' = cursor
    BY <2>1, <2>3, <2>4 DEF ReplayQuiet
  <2>6. ~Accesses(path[p].m)
    BY <1>4, <2>1, Exclusive DEF Accesses, Reading, Writing, Polling, Quiet, Op
  <2>7. Behind(p)'
    <3>1. (p \in 1 .. Len(path))' /\ cursor' = path'[p].events
      BY <1>1, <1>3, <2>5
    <3>2. (Iters(p))' = Iters(p) /\ (Pc(p))' = Pc(p)
      BY <1>1 DEF Iters, Pc
    <3>3. hal' = ([Ahead(path[p].m, Lag) EXCEPT !.fw.pc = "end"])'
      BY <1>1, <2>5 DEF Ahead, Sooner, e
    <3>4. now' = (TimeAt(cursor))'
      BY <1>1, <1>5 DEF TimeAt
    <3> QED
      BY <1>8, <3>1, <3>2, <3>3, <3>4 DEF Behind
  <2> QED
    BY <1>1, <2>6, <2>7
<1> QED
  BY <1>3, <1>7, <1>8 DEF Behind

\* Statics restored at the head of an iteration, with one iteration to go.
LEMMA RestoreIs ==
    ASSUME NEW f, FwInv(f), f.pc = "top", f.n = 0, f.i = 0, f.isr = "none"
    PROVE  FwRestore(FwState(f), f.variant, 1) = Sooner(f, f.iters - 1)
<1> DEFINE one == 1
           zero == 0
           top == "top"
           none == "none"
<1>1. Sooner(f, f.iters - 1) = [f EXCEPT !.iters = one]
  BY DEF Sooner, FwInv, Shaped
<1>2. f.pc = top /\ f.n = zero /\ f.i = zero /\ f.isr = none
  OBVIOUS
<1>3. FwRestore(FwState(f), f.variant, 1)
        = [ring |-> f.ring, head |-> f.head, tail |-> f.tail,
           pending |-> f.pending, consumed |-> f.consumed,
           checksum |-> f.checksum, last_stamp |-> f.last_stamp,
           overflows |-> f.overflows, variant |-> f.variant, pc |-> top,
           iters |-> one, n |-> zero, i |-> zero, isr |-> none]
  BY DEF FwRestore, FwState
<1> HIDE DEF one, zero, top, none
<1> QED
  BY <1>1, <1>2, <1>3 DEF FwInv, Shaped

\* The variant of the recording is that of the firmware it started with.
LEMMA SameVariant ==
    ASSUME RunsTheExample, PathInv, Recorded \in Firmware, NEW j \in 1 .. Len(path)
    PROVE  path[j].m.fw.variant = Recorded.variant
<1>1. Len(path) \in Nat \ {0}
  BY PathSound
<1>2. 1 \in 1 .. Len(path) /\ j \in 1 .. Len(path)
  BY <1>1
<1>3. path[j].m.fw.variant = path[1].m.fw.variant
  BY <1>2, PathOrder
<1> QED
  BY <1>3 DEF Recorded

\* What install makes of a checkpoint is the recording there, with one iteration
\* to go.
LEMMA Installed ==
    ASSUME RunsTheExample, PathInv, Recorded \in Firmware, from = Recorded,
           NEW it \in 0 .. MainIters - 1, NEW j, IsHead(j, it)
    PROVE  Start(FwRestore(FwState(path[j].m.fw), from.variant, 1))
             = Ahead(path[j].m, MainIters - it - 1)
<1> DEFINE m == path[j].m
           f == m.fw
           d == MainIters - it - 1
<1>1. /\ m.mask = 0 /\ ~m.inIsr /\ m.ctrl = "run" /\ m.ret = 0
      /\ f.n = 0 /\ f.i = 0 /\ f.isr = "none" /\ FwInv(f) /\ HalInv(m)
  BY HeadIs
<1>2. f.pc = "top" /\ f.iters = MainIters - it /\ j \in 1 .. Len(path)
  BY DEF IsHead, Pc, Iters
<1>3. f.variant = from.variant
  BY <1>2, SameVariant
<1>4. f.iters - 1 = d
  BY <1>2
<1>5. FwRestore(FwState(f), from.variant, 1) = Sooner(f, d)
  BY <1>1, <1>2, <1>3, <1>4, RestoreIs
<1>6. /\ m = [fw |-> m.fw, mask |-> m.mask, inIsr |-> m.inIsr, ctrl |-> m.ctrl,
              ret |-> m.ret]
      /\ m.inIsr \in BOOLEAN
  BY <1>1 DEF HalInv
<1> DEFINE g == Sooner(f, d)
<1>7. Ahead(m, d) = [m EXCEPT !.fw = g]
  BY DEF Ahead
<1> HIDE DEF m, g
<1> DEFINE no == FALSE
           zero == 0
           run == "run"
<1>8. Start(g) = [fw |-> g, mask |-> zero, inIsr |-> no, ctrl |-> run, ret |-> zero]
  BY DEF Start
<1>10. m.inIsr = no /\ m.mask = zero /\ m.ctrl = run /\ m.ret = zero
  BY <1>1, <1>6
<1> HIDE DEF no, zero, run
<1>9. Start(g) = [m EXCEPT !.fw = g]
  BY <1>6, <1>8, <1>10
<1> QED
  BY <1>5, <1>7, <1>9 DEF g, m

\* An iteration that has run leaves the recording's statics at the head of the next.
LEMMA NextIs ==
    ASSUME RunsTheExample, PathInv, Recorded \in Firmware, Lag \in Nat \ {0},
           NEW p, Behind(p), Halted(hal), job.iter \in Nat, MainIters \in Nat
    PROVE  /\ IsHead(p, job.iter + 1)
           /\ [hal EXCEPT !.fw = RunIteration(hal.fw)] = Ahead(path[p].m, Lag - 1)
           /\ Iters(p) = Lag
<1> DEFINE m == path[p].m
           f == m.fw
<1>1. /\ Iters(p) = Lag /\ Pc(p) = "top" /\ p \in 1 .. Len(path)
      /\ hal.fw.variant = f.variant /\ FwState(hal.fw) = FwState(f)
  BY BehindAccesses DEF Behind
<1>2. IsHead(p, job.iter + 1)
  BY <1>1 DEF IsHead, Lag
<1>3. f.n = 0 /\ f.i = 0 /\ f.isr = "none" /\ FwInv(f) /\ HalInv(m) /\ f.pc = "top"
  BY <1>1, <1>2, HeadIs DEF Pc
<1>4. RunIteration(hal.fw) = Sooner(f, Lag - 1)
  BY <1>1, <1>3, RestoreIs DEF RunIteration, Iters
<1> DEFINE g == Sooner(f, Lag - 1)
           n == Ahead(m, Lag)
<1>5. hal = n \/ hal = [n EXCEPT !.fw.pc = "end"]
  BY DEF Behind
<1>6. n = [m EXCEPT !.fw = Sooner(f, Lag)] /\ Ahead(m, Lag - 1) = [m EXCEPT !.fw = g]
  BY DEF Ahead
<1>7. m = [fw |-> m.fw, mask |-> m.mask, inIsr |-> m.inIsr, ctrl |-> m.ctrl, ret |-> m.ret]
  BY <1>3 DEF HalInv
<1> HIDE DEF m, g
<1>8. [hal EXCEPT !.fw = g] = [m EXCEPT !.fw = g]
  BY <1>5, <1>6, <1>7, ZenonT(60)
<1> QED
  BY <1>1, <1>2, <1>4, <1>6, <1>8 DEF g, m

--------------------------------------------------------------------------------
(* The invariant of the timeline.                                            *)

\* Where a seek for the event k starts, in the recording.
StartOf(k) == HeadOf(Nearest(k).main_iter)

\* The work done in the state a seek for k answers with.
Worth(k) == FirstWith(k, StartOf(k)).consumed

\* The events the recording consumed.
LastEvents == path[Len(path)].events

\* snap is the answer to a seek for the event k.
Answers(snap, k) ==
    /\ snap.event_index = k
    /\ snap.fw = FirstWith(k, StartOf(k)) /\ snap.ts = TimeAt(k)

\* A job has the fields of one.
IsJob(j) ==
    /\ j = [call |-> j.call, target |-> j.target, iter |-> j.iter,
            captured |-> j.captured, snap |-> j.snap, query |-> j.query,
            lo |-> j.lo, hi |-> j.hi]
    /\ j.captured \in BOOLEAN

\* The run has not gone past the state looked for, or has captured it.
SeekInv(p) ==
    /\ job.target \in 0 .. event_count
    /\ StartOf(job.target) \in 1 .. p
    /\ job.captured => Answers(job.snap, job.target)
    /\ ~job.captured => \A i \in StartOf(job.target) .. p - 1 : ~Serves(i, job.target)

\* What the bisection knows: the work is done at hi, and not yet before lo.
FindInv ==
    /\ job.query \in Nat \ {0}
    /\ IF job.lo = -1 THEN job.hi = event_count /\ job.target = event_count
       ELSE /\ job.lo \in Nat /\ job.hi \in Nat
            /\ job.lo <= job.hi /\ job.hi <= event_count
            /\ job.target = job.lo + (job.hi - job.lo) \div 2
            /\ Worth(job.hi) >= job.query
            /\ job.lo > 0 => Worth(job.lo - 1) < job.query

\* The call under way: an open, a seek, or a find by seeks.
JobInv(p) ==
    /\ IsJob(job) /\ job.iter \in 0 .. MainIters - 1
    /\ \/ /\ job.call = "open" /\ job.target = 0
          /\ event_count = 0 /\ position = 0 /\ answer = NoAnswer
       \/ /\ job.call \in {"seek", "find"}
          /\ event_count = LastEvents /\ position \in 0 .. event_count
          /\ SeekInv(p) /\ (job.call = "find" => FindInv)

\* The last answer given, and that of the last find.
AnswerInv ==
    /\ answer.snap.event_index \in Int
    /\ Answered => /\ Answers(answer.snap, answer.snap.event_index)
                   /\ answer.snap.event_index <= LastEvents
    /\ answer.query > 0 =>
          IF Answered
          THEN /\ Worth(answer.snap.event_index) >= answer.query
               /\ answer.snap.event_index > 0 =>
                     Worth(answer.snap.event_index - 1) < answer.query
          ELSE Consumed(Len(path)) < answer.query

\* The inductive invariant.
TInv ==
    /\ phase \in {"record", "replay", "idle"}
    /\ PathInv /\ from = Recorded /\ from \in Firmware
    /\ calls \in 0 .. MaxCalls
    /\ phase = "record" =>
          /\ IInv /\ checkpoints = <<>> /\ event_count = 0 /\ position = 0
          /\ job = NoJob /\ answer = NoAnswer
    /\ phase # "record" => Halted(path[Len(path)].m) /\ CheckpointsInv /\ AnswerInv
    /\ phase = "replay" => \E p : Behind(p) /\ JobInv(p)
    /\ phase = "idle" =>
          job = NoJob /\ event_count = LastEvents /\ position \in 0 .. event_count

\* What a seek for an event starts from describes the recording there, at the event
\* or before it.
LEMMA StartIs ==
    ASSUME RunsTheExample, PathInv, Recorded \in Firmware, CheckpointsInv, NEW k \in Nat
    PROVE  /\ Describes(Nearest(k), StartOf(k)) /\ StartOf(k) \in 1 .. Len(path)
           /\ path[StartOf(k)].events <= k /\ path[StartOf(k)].events \in Nat
           /\ Nearest(k).main_iter \in 0 .. MainIters - 1
<1>1. PICK i \in 1 .. Len(checkpoints) : Nearest(k) = checkpoints[i]
  BY NearestIs
<1>2. PICK j : Describes(Nearest(k), j)
  BY <1>1 DEF CheckpointsInv
<1>3. StartOf(k) = j
  BY <1>2, HeadIs DEF StartOf, Describes
<1>4. j \in 1 .. Len(path) /\ path[j].events = Nearest(k).cursor
  BY <1>2 DEF Describes, IsHead
<1>5. path[j].events <= k /\ path[j].events \in Nat
  BY <1>4, NearestIs, PathSound
<1>6. Nearest(k).main_iter \in 0 .. MainIters - 1
  BY <1>1 DEF CheckpointsInv
<1> QED
  BY <1>2, <1>3, <1>4, <1>5, <1>6

\* What is said of the recording and its checkpoints stays said while neither
\* changes.
LEMMA SameView ==
    ASSUME UNCHANGED <<path, trace, checkpoints, from>>
    PROVE  /\ \A k : StartOf(k)' = StartOf(k) /\ Worth(k)' = Worth(k)
           /\ \A k : TimeAt(k)' = TimeAt(k)
           /\ \A k, i : FirstWith(k, i)' = FirstWith(k, i)
           /\ \A i, k : Serves(i, k)' <=> Serves(i, k)
           /\ LastEvents' = LastEvents /\ MainIters' = MainIters
           /\ \A s, k : Answers(s, k)' <=> Answers(s, k)
           /\ Consumed(Len(path))' = Consumed(Len(path))
<1>1. \A k : Nearest(k)' = Nearest(k)
  BY DEF Nearest
<1>2. \A i : HeadOf(i)' = HeadOf(i)
  BY DEF HeadOf, MainIters
<1>3. \A k : TimeAt(k)' = TimeAt(k)
  BY DEF TimeAt
<1>4. \A k, i : FirstWith(k, i)' = FirstWith(k, i)
  BY DEF FirstWith
<1>5. \A k : StartOf(k)' = StartOf(k)
  BY <1>1, <1>2 DEF StartOf
<1>6. \A i, k : Serves(i, k)' <=> Serves(i, k)
  BY DEF Serves
<1>7. \A k : Worth(k)' = Worth(k)
  BY <1>4, <1>5 DEF Worth
<1>8. /\ LastEvents' = LastEvents /\ MainIters' = MainIters
      /\ Consumed(Len(path))' = Consumed(Len(path))
  BY DEF LastEvents, MainIters, Consumed
<1>9. \A s, k : Answers(s, k)' <=> Answers(s, k)
  BY <1>3, <1>4, <1>5 DEF Answers
<1> QED
  BY <1>3, <1>4, <1>5, <1>6, <1>7, <1>8, <1>9

\* What is said of the recording alone stays true while it is not touched,
LEMMA SameRecording ==
    ASSUME UNCHANGED <<path, trace>>
    PROVE  /\ PathInv <=> PathInv'
           /\ Recorded' = Recorded
           /\ Halted(path[Len(path)].m)' <=> Halted(path[Len(path)].m)
BY DEF PathInv, ExplainedAt, IsSeq, Recorded

\* and so does what is said of the checkpoints,
LEMMA SameCheckpoints ==
    ASSUME UNCHANGED <<path, trace, checkpoints, from>>, CheckpointsInv
    PROVE  CheckpointsInv'
<1>1. \A cp, j : Describes(cp, j)' <=> Describes(cp, j)
  BY DEF Describes, IsHead, Pc, Iters, TimeAt, MainIters
<1>2. MainIters' = MainIters /\ (IsSeq(checkpoints) <=> IsSeq(checkpoints)')
  BY DEF MainIters, IsSeq
<1> QED
  BY <1>1, <1>2 DEF CheckpointsInv

\* and of the answer.
LEMMA SameAnswer ==
    ASSUME UNCHANGED <<path, trace, checkpoints, from, answer>>, AnswerInv
    PROVE  AnswerInv'
BY SameView DEF AnswerInv, Answered

\* The call a seek is made for, as install leaves it.
LEMMA SeekStarts ==
    ASSUME RunsTheExample, PathInv, Recorded \in Firmware, from = Recorded, CheckpointsInv,
           event_count = LastEvents, event_count' = event_count,
           checkpoints' = checkpoints,
           NEW j, IsJob(j), NEW k \in Nat, StartSeek(j, k)
    PROVE  /\ UNCHANGED <<path, trace, checkpoints, from>> /\ phase' = "replay"
           /\ IsJob(job)' /\ job'.call = j.call /\ job'.query = j.query
           /\ job'.lo = j.lo /\ job'.hi = j.hi
           /\ job'.target = AtMost(k, event_count)
           /\ (job.iter \in 0 .. MainIters - 1)'
           /\ \E p : Behind(p)' /\ SeekInv(p)'
<1>12. PICK target : target = AtMost(k, event_count)
  OBVIOUS
<1>13. PICK cp : cp = Nearest(target)
  OBVIOUS
<1>14. PICK p : p = StartOf(target)
  OBVIOUS
<1>1. Len(path) \in Nat \ {0} /\ LastEvents \in Nat /\ MainIters \in Nat \ {0}
  BY PathSound, TimelineAssumption DEF LastEvents, MainIters
<1>2. target \in 0 .. event_count /\ target \in Nat
  BY <1>1, <1>12 DEF AtMost
<1>3. /\ Install(cp.fw, cp.cursor, cp.ts)
      /\ job' = [j EXCEPT !.target = target, !.iter = cp.main_iter,
                          !.captured = FALSE, !.snap = NoSnapshot]
      /\ phase' = "replay" /\ UNCHANGED <<path, trace, from, checkpoints>>
  BY <1>12, <1>13 DEF StartSeek
<1>4. /\ IsJob(job') /\ job'.call = j.call /\ job'.query = j.query
      /\ job'.lo = j.lo /\ job'.hi = j.hi /\ job'.target = target
      /\ job'.iter = cp.main_iter /\ ~job'.captured
  <2> DEFINE no == FALSE
  <2>1. job' = [j EXCEPT !.target = target, !.iter = cp.main_iter,
                         !.captured = no, !.snap = NoSnapshot]
    BY <1>3
  <2>2. no \in BOOLEAN /\ ~no
    OBVIOUS
  <2> HIDE DEF no
  <2> QED
    BY <2>1, <2>2 DEF IsJob
<1>5. /\ Describes(cp, p) /\ p \in 1 .. Len(path)
      /\ cp.main_iter \in 0 .. MainIters - 1 /\ path[p].events \in Nat
  BY <1>2, <1>13, <1>14, StartIs
<1>6. /\ hal' = Start(FwRestore(cp.fw, from.variant, 1)) /\ cursor' = cp.cursor
      /\ now' = cp.ts
  BY <1>3 DEF Install
<1>7. MainIters' = MainIters /\ Lag' = MainIters - cp.main_iter - 1
  BY <1>3, <1>4 DEF MainIters, Lag
<1>8. IsHead(p, cp.main_iter) /\ cp.fw = FwState(path[p].m.fw) /\ cp.cursor = path[p].events
      /\ cp.ts = TimeAt(cp.cursor)
  BY <1>5 DEF Describes
<1>9. hal' = Ahead(path[p].m, Lag')
  BY <1>5, <1>6, <1>7, <1>8, Installed
<1>10. Behind(p)'
  <2>1. Iters(p)' = Lag' + 1
    <3>1. Iters(p)' = Iters(p) /\ Iters(p) = MainIters - cp.main_iter
      BY <1>3, <1>8 DEF IsHead, Iters
    <3> QED
      BY <1>1, <1>5, <1>7, <3>1
  <2>2. hal' = Ahead(path[p].m, Lag)'
    BY <1>3, <1>9 DEF Ahead, Sooner
  <2>3. now' = TimeAt(cursor)'
    BY <1>3, <1>6, <1>8 DEF TimeAt
  <2> QED
    BY <1>3, <1>5, <1>6, <1>8, <2>1, <2>2, <2>3 DEF Behind
<1>11. SeekInv(p)'
  <2>1. StartOf(job.target)' = p
    <3>1. StartOf(target)' = StartOf(target)
      BY <1>3, SameView
    <3>2. StartOf(job.target)' = StartOf(target)'
      BY <1>4
    <3> QED
      BY <1>14, <3>1, <3>2
  <2>2. p \in 1 .. p /\ p \in Nat /\ \A i : i \notin p .. p - 1
    BY <1>1, <1>5
  <2> QED
    BY <1>2, <1>4, <2>1, <2>2 DEF SeekInv
<1> QED
  BY <1>1, <1>3, <1>4, <1>5, <1>7, <1>10, <1>11, <1>12

\* The bisection keeps its bounds while a probe runs.
LEMMA SameFind ==
    ASSUME UNCHANGED <<path, trace, checkpoints, from, event_count>>, FindInv,
           job'.target = job.target, job'.query = job.query, job'.lo = job.lo,
           job'.hi = job.hi
    PROVE  FindInv'
<1>1. PICK t, q, lo, hi : t = job.target /\ q = job.query /\ lo = job.lo /\ hi = job.hi
  OBVIOUS
<1>2. /\ \A k : Worth(k)' = Worth(k)
      /\ t = job'.target /\ q = job'.query /\ lo = job'.lo /\ hi = job'.hi
  BY <1>1, SameView
<1>3. Worth(hi)' = Worth(hi) /\ Worth(lo - 1)' = Worth(lo - 1)
  BY <1>2
<1>4. Worth(job.hi)' = Worth(hi) /\ Worth(job.lo - 1)' = Worth(lo - 1)
  <2>1. Worth(job.hi)' = Worth(hi)' /\ Worth(job.lo - 1)' = Worth(lo - 1)'
    BY <1>2
  <2> QED
    BY <1>3, <2>1
<1> QED
  BY <1>1, <1>2, <1>4 DEF FindInv

\* Every access and poll of the re-execution is looked at where the cursor is right.
LEMMA CaptureKeeps ==
    ASSUME RunsTheExample, RecordWrites, PathInv, Recorded \in Firmware, from = Recorded,
           Halted(path[Len(path)].m), CheckpointsInv,
           NEW p, Behind(p), JobInv(p), Replays, MaybeCapture, UNCHANGED timeline
    PROVE  /\ UNCHANGED <<phase, dev, trace, path, from>>
           /\ \E q : Behind(q)' /\ JobInv(q)'
<1>1. Len(path) \in Nat \ {0} /\ p \in 1 .. Len(path) /\ MainIters \in Nat \ {0}
  BY PathSound, TimelineAssumption DEF Behind, MainIters
<1>2. UNCHANGED <<phase, dev, trace, path, from>>
  BY DEF Replays, ReplayRead, ReplayWrite, ReplayIrq, ReplayNoIrq, ReplayQuiet,
         UNCHANGED_record
<1>3. UNCHANGED <<checkpoints, event_count, position, answer, calls>>
  BY DEF timeline
<1> DEFINE Now == /\ job.call \in {"seek", "find"} /\ ~job.captured
                  /\ cursor = job.target /\ Accesses(hal)
<1>4. job' = IF Now THEN [job EXCEPT !.captured = TRUE, !.snap = TakeSnapshot(job.iter)]
             ELSE job
  BY DEF MaybeCapture, Accesses
<1>5. IsJob(job) /\ job.iter \in 0 .. MainIters - 1
  BY DEF JobInv
<1>6. /\ IsJob(job') /\ job'.call = job.call /\ job'.target = job.target
      /\ job'.iter = job.iter /\ job'.query = job.query
      /\ job'.lo = job.lo /\ job'.hi = job.hi
      /\ Now => job'.captured /\ job'.snap = TakeSnapshot(job.iter)
      /\ ~Now => job' = job
  <2>1. CASE Now
    <3> DEFINE yes == TRUE
               snap == TakeSnapshot(job.iter)
    <3>1. job' = [job EXCEPT !.captured = yes, !.snap = snap] /\ yes \in BOOLEAN /\ yes
      BY <1>4, <2>1
    <3> HIDE DEF yes, snap, Now
    <3>2. /\ IsJob(job') /\ job'.call = job.call /\ job'.target = job.target
          /\ job'.iter = job.iter /\ job'.query = job.query
          /\ job'.lo = job.lo /\ job'.hi = job.hi
          /\ job'.captured /\ job'.snap = snap
      BY <1>5, <3>1 DEF IsJob
    <3> QED
      BY <2>1, <3>2 DEF snap
  <2>2. CASE ~Now
    BY <1>4, <1>5, <2>2
  <2> QED
    BY <2>1, <2>2
<1>7. Lag' = Lag /\ Lag \in Nat
  BY <1>1, <1>2, <1>5, <1>6 DEF Lag, MainIters
<1>8. \/ Behind(p)' /\ ~Accesses(path[p].m)
      \/ Behind(p + 1)' /\ p + 1 \in 1 .. Len(path)
  BY <1>7, BehindStep
<1>9. Accesses(hal) <=> Accesses(path[p].m)
  BY <1>7, BehindAccesses
<1>10. cursor = path[p].events /\ now = TimeAt(cursor)
  BY DEF Behind
<1>11. (job.iter \in 0 .. MainIters - 1)'
  BY <1>2, <1>5, <1>6 DEF MainIters
<1>12. CASE job.call = "open"
  <2>1. \A q : JobInv(q)'
    BY <1>3, <1>6, <1>11, <1>12 DEF JobInv
  <2> QED
    BY <1>2, <1>8, <2>1
<1>13. CASE job.call \in {"seek", "find"}
  <2>1. /\ event_count = LastEvents /\ position \in 0 .. event_count
        /\ SeekInv(p) /\ (job.call = "find" => FindInv)
    BY <1>13 DEF JobInv
  <2>2. PICK t : t = job.target
    OBVIOUS
  <2>3. PICK s : s = StartOf(t)
    OBVIOUS
  <2>4. /\ t \in 0 .. event_count /\ s \in 1 .. p
        /\ job.captured => Answers(job.snap, t)
        /\ ~job.captured => \A i \in s .. p - 1 : ~Serves(i, t)
    BY <2>1, <2>2, <2>3 DEF SeekInv
  <2>5. ASSUME Now PROVE Answers(TakeSnapshot(job.iter), t)
    <3>1. Serves(p, t) /\ ~job.captured /\ cursor = t
      BY <1>9, <1>10, <2>2, <2>5 DEF Serves
    <3>2. s \in 1 .. Len(path) /\ p \in s .. Len(path)
      BY <1>1, <2>4
    <3>3. FirstWith(t, s) = FwState(path[p].m.fw)
      BY <2>4, <3>1, <3>2, FirstIs
    <3>4. FwState(hal.fw) = FwState(path[p].m.fw)
      BY <1>7, <2>5, BehindAccesses
    <3> QED
      BY <1>10, <2>2, <2>3, <3>1, <3>3, <3>4 DEF Answers, TakeSnapshot
  <2>6. job'.captured => Answers(job'.snap, t)
    BY <1>6, <2>4, <2>5
  <2>7. ASSUME ~job'.captured
        PROVE  /\ \A i \in s .. p - 1 : ~Serves(i, t)
               /\ ~Serves(p, t)
    BY <1>6, <1>9, <1>10, <1>13, <2>2, <2>4, <2>7 DEF Serves
  <2>8. ASSUME NEW q, q = p \/ (q = p + 1), q = p => ~Accesses(path[p].m)
        PROVE  SeekInv(q)'
    <3>1. t \in (0 .. event_count)' /\ s \in 1 .. q
      BY <1>1, <1>3, <2>4, <2>8
    <3>2. StartOf(t)' = s /\ \A x : Answers(x, t)' <=> Answers(x, t)
      BY <1>2, <1>3, <2>3, SameView
    <3>3. PICK x : x = job'.snap
      OBVIOUS
    <3>4. ASSUME job'.captured PROVE Answers(job.snap, job.target)'
      <4>1. Answers(x, t)
        BY <2>6, <3>3, <3>4
      <4>2. Answers(x, t)'
        BY <3>2, <4>1
      <4>3. x = job'.snap /\ t = job'.target
        BY <1>6, <2>2, <3>3
      <4> QED
        BY <4>2, <4>3
    <3>5. ASSUME ~job'.captured, NEW i \in s .. q - 1 PROVE ~Serves(i, t)'
      <4>1. i \in s .. p - 1 \/ i = p
        BY <1>1, <2>4, <2>8
      <4> QED
        BY <1>2, <1>3, <2>7, <3>5, <4>1, SameView
    <3>6. t = job'.target /\ StartOf(job.target)' = s
      <4>1. t = job'.target
        BY <1>6, <2>2
      <4> QED
        BY <3>2, <4>1
    <3>7. \A i : Serves(i, job.target)' <=> Serves(i, t)'
      BY <3>6
    <3> QED
      BY <3>1, <3>4, <3>5, <3>6, <3>7 DEF SeekInv
  <2>9. job.call = "find" => FindInv'
    BY <1>2, <1>3, <1>6, <2>1, SameFind
  <2>10. (event_count = LastEvents)' /\ (position \in 0 .. event_count)'
    BY <1>2, <1>3, <2>1, SameView
  <2>11. ASSUME NEW q, SeekInv(q)' PROVE JobInv(q)'
    BY <1>6, <1>11, <1>13, <2>9, <2>10, <2>11 DEF JobInv
  <2> QED
    BY <1>2, <1>8, <2>8, <2>11
<1> QED
  BY <1>12, <1>13 DEF JobInv

\* The last iteration leaves the re-execution where the recording ended.
LEMMA Ends ==
    ASSUME RunsTheExample, PathInv, Recorded \in Firmware, Halted(path[Len(path)].m),
           NEW p, Behind(p), Lag = 0, Halted(hal)
    PROVE  /\ p + 1 = Len(path) /\ ~Accesses(path[p].m) /\ ~Accesses(path[p + 1].m)
           /\ cursor = LastEvents /\ FwState(hal.fw) = FwState(path[Len(path)].m.fw)
<1> DEFINE m == path[p].m
           f == m.fw
<1>1. /\ Iters(p) = 0 /\ Pc(p) = "top" /\ FwState(hal.fw) = FwState(f)
      /\ p \in 1 .. Len(path) /\ cursor = path[p].events /\ Lag \in Nat
  BY BehindAccesses DEF Behind
<1>2. HalInv(m) /\ f.pc = "top" /\ f.iters = 0 /\ Len(path) \in Nat \ {0}
  BY <1>1, PathSound DEF Pc, Iters
<1> DEFINE n == Ahead(m, f.iters)
           e == [n EXCEPT !.fw.pc = "end"]
<1>3. /\ Quiet(n) /\ AfterQuiet(n) = e
      /\ e.ctrl = "run" /\ ~e.inIsr /\ Op(e) = "halt" /\ FwState(e.fw) = FwState(f)
  BY <1>2, NoneLeft
<1>4. n = m
  <2> DEFINE d == f.iters
  <2>1. f = [ring |-> f.ring, head |-> f.head, tail |-> f.tail,
             pending |-> f.pending, consumed |-> f.consumed,
             checksum |-> f.checksum, last_stamp |-> f.last_stamp,
             overflows |-> f.overflows, variant |-> f.variant, pc |-> f.pc,
             iters |-> d, n |-> f.n, i |-> f.i, isr |-> f.isr]
    BY <1>2 DEF HalInv, FwInv, Shaped
  <2>2. d - d = d /\ d = 0
    BY <1>2
  <2>3. Sooner(f, d) = [f EXCEPT !.iters = d]
    BY <2>2 DEF Sooner
  <2>4. Sooner(f, d) = f
    <3> HIDE DEF d, f
    <3> QED
      BY <2>1, <2>3
  <2>5. m = [fw |-> m.fw, mask |-> m.mask, inIsr |-> m.inIsr, ctrl |-> m.ctrl, ret |-> m.ret]
    BY <1>2 DEF HalInv
  <2>6. n = [m EXCEPT !.fw = f]
    BY <2>4 DEF Ahead
  <2> HIDE DEF m, n
  <2> QED
    BY <2>5, <2>6
<1> HIDE DEF e, n
<1>5. Quiet(m) /\ AfterQuiet(m) = e
  BY <1>3, <1>4
<1>6. Halted(e)
  BY <1>3 DEF Halted
<1>7. p # Len(path)
  BY <1>5, Exclusive
<1>8. p \in 1 .. Len(path) - 1 /\ p + 1 \in 1 .. Len(path)
  BY <1>1, <1>2, <1>7
<1>9. ExplainedAt(p)
  BY <1>8 DEF PathInv
<1>10. path[p + 1].m = e /\ path[p + 1].events = path[p].events
  <2>1. ~Reading(m) /\ ~Writing(m) /\ ~Polling(m)
    BY <1>5, Exclusive
  <2> QED
    BY <1>5, <1>9, <2>1 DEF ExplainedAt, Explains
<1>11. p + 1 = Len(path)
  <2> SUFFICES ASSUME p + 1 # Len(path) PROVE FALSE
    OBVIOUS
  <2>1. p + 1 \in 1 .. Len(path) - 1
    BY <1>2, <1>8
  <2>2. ~Halted(path[p + 1].m)
    BY <2>1, PathSound
  <2> QED
    BY <1>6, <1>10, <2>2
<1>12. ~Accesses(path[p].m) /\ ~Accesses(path[p + 1].m)
  BY <1>5, <1>6, <1>10, Exclusive DEF Accesses
<1>13. path[p + 1].events = LastEvents /\ path[p + 1].m = path[Len(path)].m
  BY <1>11 DEF LastEvents
<1> QED
  BY <1>1, <1>3, <1>10, <1>11, <1>12, <1>13

\* What a seek answers with is what it promises.
LEMMA SoughtIs ==
    ASSUME RunsTheExample, PathInv, Recorded \in Firmware, Halted(path[Len(path)].m),
           CheckpointsInv, from = Recorded, event_count = LastEvents, NEW p, Behind(p),
           IsJob(job), job.iter \in 0 .. MainIters - 1, SeekInv(p), SeekEnds
    PROVE  Answers(SoughtSnapshot, job.target)
<1>0. MainIters \in Nat
  BY TimelineAssumption DEF MainIters
<1>1. CASE job.captured
  BY <1>1 DEF SeekInv, SoughtSnapshot
<1>2. CASE ~job.captured
  <2>1. Halted(hal) /\ job.iter + 1 >= MainIters
    BY <1>2 DEF SeekEnds, IterationEnds
  <2>2. Lag = 0
    BY <1>0, <2>1 DEF Lag
  <2>3. /\ p + 1 = Len(path) /\ ~Accesses(path[p].m) /\ ~Accesses(path[p + 1].m)
        /\ cursor = LastEvents /\ FwState(hal.fw) = FwState(path[Len(path)].m.fw)
        /\ now = TimeAt(cursor) /\ p \in 1 .. Len(path) /\ Len(path) \in Nat
    BY <2>1, <2>2, Ends, PathSound DEF Behind
  <2> DEFINE t == job.target
             s == StartOf(t)
  <2>4. /\ t \in 0 .. event_count /\ s \in 1 .. p
        /\ \A i \in s .. p - 1 : ~Serves(i, t)
    BY <1>2 DEF SeekInv
  <2>5. LastEvents \in Nat
    BY <2>3, PathSound DEF LastEvents
  <2>6. t \in Nat /\ s \in 1 .. Len(path) /\ path[s].events <= t
    <3>1. t \in Nat
      BY <2>4, <2>5
    <3> QED
      BY <3>1, StartIs
  <2> HIDE DEF t, s
  <2>7. \A i \in s .. Len(path) : ~Serves(i, t)
    <3> SUFFICES ASSUME NEW i \in s .. Len(path) PROVE ~Serves(i, t)
      OBVIOUS
    <3>1. i \in s .. p - 1 \/ i = p \/ i = p + 1
      BY <2>3, <2>4
    <3> QED
      BY <2>3, <2>4, <3>1 DEF Serves
  <2>8. FirstWith(t, s) = FwState(path[Len(path)].m.fw)
    BY <2>7, FirstIsEnd
  <2>9. t = LastEvents
    <3> SUFFICES ASSUME t # LastEvents PROVE FALSE
      OBVIOUS
    <3>1. t < path[Len(path)].events
      BY <2>4, <2>5 DEF LastEvents
    <3>2. PICK i \in s .. Len(path) - 1 : path[i].events = t /\ Accesses(path[i].m)
      BY <2>6, <3>1, EventHasAccess
    <3>3. i \in s .. Len(path)
      BY <2>3, <2>6
    <3> QED
      BY <2>7, <3>2, <3>3 DEF Serves
  <2>10. SoughtSnapshot = TakeSnapshot(MainIters)
    BY <1>2 DEF SoughtSnapshot
  <2> QED
    BY <2>3, <2>8, <2>9, <2>10 DEF Answers, TakeSnapshot, t, s
<1> QED
  BY <1>1, <1>2

\* The invariant at the start,
LEMMA TInvInit ==
    ASSUME TimelineInit
    PROVE  TInv
<1>1. IInv /\ phase = "record"
  BY IInvInit DEF TimelineInit, Init
<1>2. from = Recorded /\ from \in Firmware
  <2>1. path[1].m = hal
    BY EntryFields DEF TimelineInit, Init
  <2> QED
    BY <2>1 DEF TimelineInit, Init, Recorded, Start
<1>3. calls \in 0 .. MaxCalls
  BY TimelineAssumption DEF TimelineInit
<1> QED
  BY <1>1, <1>2, <1>3 DEF TInv, TimelineInit, IInv

\* while the run is recorded,
LEMMA RecordingKeepsT ==
    ASSUME RunsTheExample, RecordWrites, TInv, TimelineRecords
    PROVE  TInv'
<1>1. /\ RecordRead \/ RecordWrite \/ RecordIrq \/ RecordNoIrq \/ RecordQuiet
      /\ UNCHANGED <<checkpoints, event_count, position, answer, calls, job>>
  BY DEF TimelineRecords, timeline
<1>2. /\ phase = "record" /\ phase' = "record" /\ from' = from
      /\ path' = Append(path, [m |-> hal', events |-> Len(trace')])
  BY <1>1 DEF RecordRead, RecordWrite, RecordIrq, RecordNoIrq, RecordQuiet,
              UNCHANGED_replay, GoTo
<1>3. IInv /\ PathInv /\ from = Recorded /\ from \in Firmware
  BY <1>2 DEF TInv
<1>4. IInv'
  BY <1>1, <1>3, RecordingKeeps
<1>5. Recorded' = Recorded
  <2>1. path'[1] = path[1]
    BY <1>2, <1>3, AppendFacts DEF PathInv
  <2> QED
    BY <2>1 DEF Recorded
<1> QED
  BY <1>1, <1>2, <1>3, <1>4, <1>5 DEF TInv, IInv

\* The recording starts at the head of the first iteration.
LEMMA FirstHead ==
    ASSUME RunsTheExample, PathInv, Recorded \in Firmware, from = Recorded
    PROVE  /\ IsHead(1, 0) /\ path[1].events = 0 /\ 0 \in 0 .. MainIters - 1
           /\ FwState(FwReset(from.variant, 1)) = FwState(path[1].m.fw)
<1>1. path[1].m = Start(Recorded) /\ path[1].events = 0 /\ Len(path) \in Nat \ {0}
  BY EntryFields, PathSound DEF PathInv
<1>2. path[1].m.fw = from
  BY <1>1 DEF Start
<1>3. MainIters \in Nat \ {0}
  BY TimelineAssumption DEF MainIters
<1>4. PICK v, k : from = FwReset(v, k)
  BY DEF RunsTheExample
<1>5. /\ from.pc = "top" /\ from.iters = MainIters
      /\ FwState(FwReset(from.variant, 1)) = FwState(from)
  BY <1>4 DEF FwReset, FwState, MainIters
<1> QED
  BY <1>1, <1>2, <1>3, <1>5 DEF IsHead, Pc, Iters

\* where the recording stops and the pass of open begins,
LEMMA OpenKeeps ==
    ASSUME RunsTheExample, RecordWrites, TInv, Open
    PROVE  TInv'
<1> DEFINE e == Event("stop", dev, 0, 0)
           state == FwState(FwReset(from.variant, 1))
           cp == [main_iter |-> 0, cursor |-> 0, ts |-> 0, fw |-> state]
<1>1. /\ phase = "record" /\ phase' = "replay" /\ Halted(hal)
      /\ trace' = Append(trace, e) /\ checkpoints' = <<cp>>
      /\ hal' = Start(FwRestore(state, from.variant, 1)) /\ cursor' = 0 /\ now' = 0
      /\ job' = [NoJob EXCEPT !.call = "open"]
      /\ UNCHANGED <<dev, path, from, event_count, position, answer, calls>>
  BY DEF Open, Install
<1>2. /\ IInv /\ PathInv /\ from = Recorded /\ from \in Firmware
      /\ event_count = 0 /\ position = 0 /\ answer = NoAnswer /\ calls \in 0 .. MaxCalls
  BY <1>1 DEF TInv
<1>3. e.type # "irq"
  BY DEF Event
<1> HIDE DEF e
<1>4. PathInv' /\ Len(path) \in Nat /\ Len(path) >= 1
  BY <1>1, <1>2, <1>3, StopKeepsPath
<1>5. Halted(path[Len(path)].m)'
  <2>1. path[Len(path)].m = hal
    BY <1>1, <1>2, EntryFields DEF IInv, RecordInv
  <2> QED
    BY <1>1, <2>1 DEF Halted
<1>6. /\ IsHead(1, 0) /\ path[1].events = 0 /\ 0 \in 0 .. MainIters - 1
      /\ state = FwState(path[1].m.fw) /\ MainIters \in Nat
  BY <1>2, FirstHead, TimelineAssumption DEF MainIters
<1>7. hal' = Ahead(path[1].m, MainIters - 0 - 1)
  BY <1>1, <1>2, <1>6, Installed
<1>8. /\ IsJob(job') /\ job'.call = "open" /\ job'.iter = 0 /\ job'.target = 0
  BY <1>1 DEF NoJob, IsJob
<1>9. IsHead(1, 0)' /\ MainIters' = MainIters
  BY <1>1, <1>6 DEF IsHead, Pc, Iters, MainIters
<1>10. Behind(1)'
  <2>1. Lag' = MainIters - 1 /\ Iters(1)' = MainIters /\ MainIters \in Nat
    BY <1>6, <1>8, <1>9 DEF Lag, IsHead
  <2>2. Iters(1)' = Lag' + 1
    BY <2>1
  <2>3. MainIters - 0 - 1 = Lag'
    BY <1>6, <2>1
  <2>4. hal' = Ahead(path[1].m, Lag)'
    BY <1>1, <1>7, <2>3 DEF Ahead, Sooner
  <2>5. (cursor = path[1].events)' /\ (now = TimeAt(cursor))'
    BY <1>1, <1>6 DEF TimeAt
  <2> QED
    BY <1>1, <1>4, <2>2, <2>4, <2>5 DEF Behind
<1>11. CheckpointsInv'
  <2>1. /\ Len(checkpoints') = 1 /\ checkpoints'[1] = cp /\ IsSeq(checkpoints')
    BY <1>1 DEF IsSeq
  <2>2. cp.cursor = 0 /\ cp.main_iter = 0 /\ cp.ts = 0 /\ cp.fw = state
    OBVIOUS
  <2> HIDE DEF cp, state
  <2>3. PICK c : c = cp
    OBVIOUS
  <2>4. Describes(c, 1)'
    BY <1>1, <1>6, <1>9, <2>2, <2>3 DEF Describes, TimeAt
  <2>5. c = checkpoints'[1]
    BY <2>1, <2>3
  <2>6. Describes(checkpoints[1], 1)'
    BY <2>4, <2>5
  <2>7. (checkpoints[1].cursor = 0 /\ checkpoints[1].main_iter \in 0 .. MainIters - 1)'
    BY <1>6, <1>9, <2>1, <2>2
  <2>8. \A i \in 1 .. Len(checkpoints') : i = 1
    BY <2>1
  <2> QED
    BY <2>1, <2>6, <2>7, <2>8 DEF CheckpointsInv
<1>12. AnswerInv'
  BY <1>1, <1>2 DEF AnswerInv, NoAnswer, NoSnapshot, Answered
<1>13. JobInv(1)'
  BY <1>1, <1>2, <1>6, <1>8, <1>9 DEF JobInv
<1>14. (from = Recorded)' /\ (from \in Firmware)' /\ (calls \in 0 .. MaxCalls)'
  BY <1>1, <1>2 DEF Recorded
<1> QED
  BY <1>1, <1>4, <1>5, <1>10, <1>11, <1>12, <1>13, <1>14 DEF TInv

\* A run between two iterations goes on as the recording did.
LEMMA NextOneKeeps ==
    ASSUME RunsTheExample, PathInv, Recorded \in Firmware, from = Recorded,
           NEW p, Behind(p), IsJob(job), job.iter \in 0 .. MainIters - 1,
           Halted(hal), job.iter + 1 < MainIters, NextOne
    PROVE  /\ UNCHANGED <<phase, dev, trace, path, from>>
           /\ Behind(p)' /\ IsJob(job)' /\ (job.iter \in 0 .. MainIters - 1)'
           /\ job'.call = job.call /\ job'.target = job.target
           /\ job'.captured = job.captured /\ job'.snap = job.snap
           /\ job'.query = job.query /\ job'.lo = job.lo /\ job'.hi = job.hi
           /\ IsHead(p, job.iter + 1)
<1>1. /\ hal' = [hal EXCEPT !.fw = RunIteration(hal.fw)]
      /\ job' = [job EXCEPT !.iter = @ + 1]
      /\ UNCHANGED <<phase, dev, trace, cursor, now, path, from>>
  BY DEF NextOne
<1>2. MainIters \in Nat /\ MainIters' = MainIters
  BY <1>1, TimelineAssumption DEF MainIters
<1>3. Lag \in Nat \ {0}
  BY <1>2 DEF Lag
<1>4. /\ IsHead(p, job.iter + 1) /\ Iters(p) = Lag
      /\ hal' = Ahead(path[p].m, Lag - 1)
  BY <1>1, <1>2, <1>3, NextIs
<1>5. PICK k : k = job.iter + 1
  OBVIOUS
<1>6. job' = [job EXCEPT !.iter = k]
  BY <1>1, <1>5
<1>7. /\ IsJob(job') /\ job'.iter = k
      /\ job'.call = job.call /\ job'.target = job.target
      /\ job'.captured = job.captured /\ job'.snap = job.snap
      /\ job'.query = job.query /\ job'.lo = job.lo /\ job'.hi = job.hi
  BY <1>6 DEF IsJob
<1>8. Lag' = Lag - 1 /\ k \in 0 .. MainIters - 1
  BY <1>2, <1>5, <1>7 DEF Lag
<1>9. Behind(p)'
  <2>1. Iters(p)' = Lag' + 1
    <3>1. Iters(p)' = Iters(p)
      BY <1>1 DEF Iters
    <3> QED
      BY <1>3, <1>4, <1>8, <3>1
  <2>2. hal' = Ahead(path[p].m, Lag)'
    BY <1>1, <1>4, <1>8 DEF Ahead, Sooner
  <2>3. (p \in 1 .. Len(path))' /\ (cursor = path[p].events)' /\ (now = TimeAt(cursor))'
    BY <1>1 DEF Behind, TimeAt
  <2> QED
    BY <2>1, <2>2, <2>3 DEF Behind
<1> QED
  BY <1>1, <1>2, <1>4, <1>7, <1>8, <1>9

\* while open, between two iterations, takes its checkpoints,
LEMMA OpenGoesOnKeeps ==
    ASSUME RunsTheExample, TInv, OpenGoesOn
    PROVE  TInv'
<1>1. /\ phase = "replay" /\ Halted(hal) /\ job.call = "open" /\ job.iter + 1 < MainIters
      /\ NextOne /\ UNCHANGED <<event_count, position, answer, calls>>
      /\ checkpoints' = IF (job.iter + 1) % CheckpointEvery = 0
                        THEN Append(checkpoints, CheckpointAt(job.iter + 1, hal.fw))
                        ELSE checkpoints
  BY DEF OpenGoesOn, IterationEnds
<1>2. /\ PathInv /\ from = Recorded /\ from \in Firmware /\ calls \in 0 .. MaxCalls
      /\ Halted(path[Len(path)].m) /\ CheckpointsInv /\ AnswerInv
  BY <1>1 DEF TInv
<1>3. PICK p : Behind(p) /\ JobInv(p)
  BY <1>1 DEF TInv
<1>4. IsJob(job) /\ job.iter \in 0 .. MainIters - 1
  BY <1>3 DEF JobInv
<1>5. /\ UNCHANGED <<phase, dev, trace, path, from>>
      /\ Behind(p)' /\ IsJob(job)' /\ (job.iter \in 0 .. MainIters - 1)'
      /\ job'.call = job.call /\ job'.target = job.target
      /\ IsHead(p, job.iter + 1)
  BY <1>1, <1>2, <1>3, <1>4, NextOneKeeps
<1>6. job.target = 0 /\ event_count = 0 /\ position = 0 /\ answer = NoAnswer
  BY <1>1, <1>3 DEF JobInv
<1>7. JobInv(p)'
  BY <1>1, <1>5, <1>6 DEF JobInv
<1>8. AnswerInv'
  BY <1>1, <1>6 DEF AnswerInv, NoAnswer, NoSnapshot, Answered
<1>9. PathInv' /\ (from = Recorded)' /\ (from \in Firmware)' /\ Halted(path[Len(path)].m)'
  BY <1>2, <1>5, SameRecording
<1>10. MainIters' = MainIters /\ MainIters \in Nat
  BY <1>2, <1>5, TimelineAssumption DEF MainIters
<1>11. \A cp, j : Describes(cp, j)' <=> Describes(cp, j)
  BY <1>5 DEF Describes, IsHead, Pc, Iters, TimeAt, MainIters
<1>12. CheckpointsInv'
  <2>1. CASE checkpoints' = checkpoints
    BY <1>2, <1>5, <2>1, SameCheckpoints
  <2>2. CASE checkpoints' = Append(checkpoints, CheckpointAt(job.iter + 1, hal.fw))
    <3>1. PICK c : c = CheckpointAt(job.iter + 1, hal.fw)
      OBVIOUS
    <3>2. Describes(c, p)
      <4>1. Lag \in Nat
        BY <1>4, <1>10 DEF Lag
      <4>2. FwState(hal.fw) = FwState(path[p].m.fw)
        BY <1>1, <1>2, <1>3, <4>1, BehindAccesses
      <4>3. cursor = path[p].events /\ now = TimeAt(cursor)
        BY <1>3 DEF Behind
      <4> QED
        BY <1>5, <3>1, <4>2, <4>3 DEF Describes, CheckpointAt
    <3>3. c.main_iter \in 0 .. MainIters - 1
      BY <1>1, <1>4, <1>10, <3>1 DEF CheckpointAt
    <3>4. /\ IsSeq(checkpoints') /\ Len(checkpoints) \in Nat
          /\ Len(checkpoints') = Len(checkpoints) + 1
          /\ \A i \in 1 .. Len(checkpoints) : checkpoints'[i] = checkpoints[i]
          /\ checkpoints'[Len(checkpoints) + 1] = c
      BY <1>2, <2>2, <3>1, AppendFacts DEF CheckpointsInv
    <3>5. Len(checkpoints) >= 1 /\ checkpoints[1].cursor = 0
      BY <1>2 DEF CheckpointsInv
    <3>6. Len(checkpoints') >= 1 /\ checkpoints'[1].cursor = 0
      <4>1. 1 \in 1 .. Len(checkpoints)
        BY <3>4, <3>5
      <4> QED
        BY <3>4, <3>5, <4>1
    <3>7. ASSUME NEW i \in 1 .. Len(checkpoints')
          PROVE  /\ (checkpoints[i].main_iter \in 0 .. MainIters - 1)'
                 /\ (\E j : Describes(checkpoints[i], j))'
      <4>1. PICK x : x = checkpoints'[i]
        OBVIOUS
      <4>2. x.main_iter \in 0 .. MainIters - 1 /\ \E j : Describes(x, j)
        <5>1. CASE i = Len(checkpoints) + 1
          BY <3>2, <3>3, <3>4, <4>1, <5>1
        <5>2. CASE i \in 1 .. Len(checkpoints)
          BY <1>2, <3>4, <4>1, <5>2 DEF CheckpointsInv
        <5> QED
          BY <3>4, <3>7, <5>1, <5>2
      <4>3. PICK j : Describes(x, j)'
        BY <1>11, <4>2
      <4>4. Describes(checkpoints[i], j)'
        BY <4>1, <4>3
      <4> QED
        BY <1>10, <4>1, <4>2, <4>4
    <3> QED
      BY <3>4, <3>6, <3>7 DEF CheckpointsInv
  <2> QED
    BY <1>1, <2>1, <2>2
<1> QED
  BY <1>1, <1>2, <1>5, <1>7, <1>8, <1>9, <1>12 DEF TInv

\* and finds how many events there are,
LEMMA OpenEndsKeeps ==
    ASSUME RunsTheExample, TInv, OpenEnds
    PROVE  TInv'
<1>1. /\ phase = "replay" /\ Halted(hal) /\ job.call = "open" /\ job.iter + 1 >= MainIters
      /\ event_count' = cursor /\ position' = 0 /\ job' = NoJob /\ phase' = "idle"
      /\ UNCHANGED <<trace, path, from, checkpoints, answer, calls>>
  BY DEF OpenEnds, IterationEnds
<1>2. /\ PathInv /\ from = Recorded /\ from \in Firmware /\ calls \in 0 .. MaxCalls
      /\ Halted(path[Len(path)].m) /\ CheckpointsInv /\ AnswerInv
  BY <1>1 DEF TInv
<1>3. PICK p : Behind(p) /\ JobInv(p)
  BY <1>1 DEF TInv
<1>4. MainIters \in Nat /\ job.iter \in 0 .. MainIters - 1
  BY <1>2, <1>3, TimelineAssumption DEF JobInv, MainIters
<1>5. Lag = 0
  BY <1>1, <1>4 DEF Lag
<1>6. cursor = LastEvents /\ LastEvents \in Nat
  BY <1>1, <1>2, <1>3, <1>5, Ends, PathSound DEF LastEvents
<1>7. PathInv' /\ (from = Recorded)' /\ (from \in Firmware)' /\ Halted(path[Len(path)].m)'
  BY <1>1, <1>2, SameRecording
<1>8. CheckpointsInv' /\ AnswerInv' /\ LastEvents' = LastEvents
  BY <1>1, <1>2, SameCheckpoints, SameAnswer, SameView
<1> QED
  BY <1>1, <1>2, <1>6, <1>7, <1>8 DEF TInv

\* while a call runs,
LEMMA SeekGoesOnKeeps ==
    ASSUME RunsTheExample, TInv, SeekGoesOn
    PROVE  TInv'
<1>1. /\ phase = "replay" /\ Halted(hal) /\ job.call \in {"seek", "find"}
      /\ ~job.captured /\ job.iter + 1 < MainIters
      /\ NextOne /\ UNCHANGED <<checkpoints, event_count, position, answer, calls>>
  BY DEF SeekGoesOn, IterationEnds, timeline
<1>2. /\ PathInv /\ from = Recorded /\ from \in Firmware /\ calls \in 0 .. MaxCalls
      /\ Halted(path[Len(path)].m) /\ CheckpointsInv /\ AnswerInv
  BY <1>1 DEF TInv
<1>3. PICK p : Behind(p) /\ JobInv(p)
  BY <1>1 DEF TInv
<1>4. IsJob(job) /\ job.iter \in 0 .. MainIters - 1
  BY <1>3 DEF JobInv
<1>5. /\ UNCHANGED <<phase, dev, trace, path, from>>
      /\ Behind(p)' /\ IsJob(job)' /\ (job.iter \in 0 .. MainIters - 1)'
      /\ job'.call = job.call /\ job'.target = job.target
      /\ job'.captured = job.captured /\ job'.snap = job.snap
      /\ job'.query = job.query /\ job'.lo = job.lo /\ job'.hi = job.hi
  BY <1>1, <1>2, <1>3, <1>4, NextOneKeeps
<1>6. /\ event_count = LastEvents /\ position \in 0 .. event_count
      /\ SeekInv(p) /\ (job.call = "find" => FindInv)
  BY <1>1, <1>3 DEF JobInv
<1>7. job.call = "find" => FindInv'
  BY <1>1, <1>5, <1>6, SameFind
<1>8. SeekInv(p)'
  <2>1. PICK t : t = job.target
    OBVIOUS
  <2>2. t = job'.target /\ ~job'.captured
    BY <1>1, <1>5, <2>1
  <2>3. /\ t \in 0 .. event_count /\ StartOf(t) \in 1 .. p
        /\ \A i \in StartOf(t) .. p - 1 : ~Serves(i, t)
    BY <1>1, <1>6, <2>1 DEF SeekInv
  <2>4. StartOf(t)' = StartOf(t) /\ \A i : Serves(i, t)' <=> Serves(i, t)
    BY <1>1, <1>5, SameView
  <2>5. StartOf(job.target)' = StartOf(t)' /\ \A i : Serves(i, job.target)' <=> Serves(i, t)'
    BY <2>2
  <2> QED
    BY <1>1, <2>2, <2>3, <2>4, <2>5 DEF SeekInv
<1>9. PathInv' /\ (from = Recorded)' /\ (from \in Firmware)' /\ Halted(path[Len(path)].m)'
  BY <1>2, <1>5, SameRecording
<1>10. CheckpointsInv' /\ AnswerInv' /\ LastEvents' = LastEvents
  BY <1>1, <1>2, <1>5, SameCheckpoints, SameAnswer, SameView
<1>11. JobInv(p)'
  BY <1>1, <1>5, <1>6, <1>7, <1>8, <1>10 DEF JobInv
<1> QED
  BY <1>1, <1>2, <1>5, <1>9, <1>10, <1>11 DEF TInv

\* A step of the firmware re-executed keeps the run Behind the recording, and
\* captures the state sought when it comes by.
LEMMA ReexecuteKeeps ==
    ASSUME RunsTheExample, RecordWrites, TInv, Reexecute
    PROVE  TInv'
<1>1. Replays /\ MaybeCapture /\ UNCHANGED timeline
  BY DEF Reexecute, Replays
<1>2. phase = "replay"
  BY <1>1 DEF Replays, ReplayRead, ReplayWrite, ReplayIrq, ReplayNoIrq, ReplayQuiet
<1>3. /\ PathInv /\ from = Recorded /\ from \in Firmware /\ calls \in 0 .. MaxCalls
      /\ Halted(path[Len(path)].m) /\ CheckpointsInv /\ AnswerInv
  BY <1>2 DEF TInv
<1>4. PICK p : Behind(p) /\ JobInv(p)
  BY <1>2 DEF TInv
<1>5. /\ UNCHANGED <<phase, dev, trace, path, from>>
      /\ \E q : Behind(q)' /\ JobInv(q)'
  BY <1>1, <1>3, <1>4, CaptureKeeps
<1>6. UNCHANGED <<checkpoints, event_count, position, answer, calls>>
  BY <1>1 DEF timeline
<1>7. PathInv' /\ (from = Recorded)' /\ (from \in Firmware)' /\ Halted(path[Len(path)].m)'
  BY <1>3, <1>5, SameRecording
<1>8. CheckpointsInv' /\ AnswerInv'
  BY <1>3, <1>5, <1>6, SameCheckpoints, SameAnswer
<1> QED
  BY <1>2, <1>3, <1>5, <1>6, <1>7, <1>8 DEF TInv

\* The recording and its description outlast a call's end, or the start of the next.
LEMMA CallKeeps ==
    ASSUME PathInv, from = Recorded, from \in Firmware, Halted(path[Len(path)].m),
           CheckpointsInv, UNCHANGED <<path, trace, from, checkpoints>>
    PROVE  /\ PathInv' /\ (from = Recorded)' /\ (from \in Firmware)'
           /\ Halted(path[Len(path)].m)' /\ CheckpointsInv' /\ LastEvents' = LastEvents
BY SameRecording, SameCheckpoints, SameView

\* What is known when the run of a call has come to its end.
LEMMA AtSeekEnds ==
    ASSUME RunsTheExample, TInv, SeekEnds
    PROVE  /\ PathInv /\ from = Recorded /\ from \in Firmware
           /\ Halted(path[Len(path)].m) /\ CheckpointsInv
           /\ calls \in 0 .. MaxCalls /\ phase = "replay"
           /\ event_count = LastEvents /\ event_count \in Nat
           /\ position \in 0 .. event_count /\ AnswerInv
           /\ IsJob(job) /\ job.target \in 0 .. event_count
           /\ job.call = "find" => FindInv
           /\ Answers(SoughtSnapshot, job.target)
           /\ SoughtSnapshot.fw.consumed = Worth(job.target)
<1>1. phase = "replay" /\ job.call \in {"seek", "find"}
  BY DEF SeekEnds, IterationEnds
<1>2. /\ PathInv /\ from = Recorded /\ from \in Firmware /\ calls \in 0 .. MaxCalls
      /\ Halted(path[Len(path)].m) /\ CheckpointsInv /\ AnswerInv
  BY <1>1 DEF TInv
<1>3. PICK p : Behind(p) /\ JobInv(p)
  BY <1>1 DEF TInv
<1>4. /\ event_count = LastEvents /\ position \in 0 .. event_count
      /\ SeekInv(p) /\ (job.call = "find" => FindInv)
      /\ IsJob(job) /\ job.iter \in 0 .. MainIters - 1
  BY <1>1, <1>3 DEF JobInv
<1>5. Answers(SoughtSnapshot, job.target)
  BY <1>2, <1>3, <1>4, SoughtIs
<1>6. LastEvents \in Nat
  <2>1. Len(path) \in 1 .. Len(path)
    BY <1>2, PathSound
  <2> QED
    BY <1>2, <2>1, PathSound DEF LastEvents
<1>7. SoughtSnapshot.fw.consumed = Worth(job.target)
  BY <1>5 DEF Answers, Worth
<1> QED
  BY <1>1, <1>2, <1>4, <1>5, <1>6, <1>7 DEF SeekInv

\* when seek answers,
LEMMA SeekReportsKeeps ==
    ASSUME RunsTheExample, TInv, SeekReports
    PROVE  TInv'
<1>1. /\ SeekEnds /\ position' = job.target
      /\ answer' = [snap |-> SoughtSnapshot, query |-> 0]
      /\ job' = NoJob /\ phase' = "idle"
      /\ UNCHANGED <<trace, path, from, checkpoints, event_count, calls>>
  BY DEF SeekReports, Report
<1>2. /\ PathInv /\ from = Recorded /\ from \in Firmware
      /\ Halted(path[Len(path)].m) /\ CheckpointsInv /\ calls \in 0 .. MaxCalls
      /\ event_count = LastEvents /\ event_count \in Nat
      /\ job.target \in 0 .. event_count
      /\ Answers(SoughtSnapshot, job.target)
  BY <1>1, AtSeekEnds
<1>3. PICK s, k : s = SoughtSnapshot /\ k = job.target
  OBVIOUS
<1>4. /\ answer' = [snap |-> s, query |-> 0] /\ Answers(s, k)' /\ s.event_index = k
      /\ k \in Nat /\ k <= LastEvents'
  <2>1. (Answers(s, k)' <=> Answers(s, k)) /\ LastEvents' = LastEvents
    BY <1>1, SameView
  <2> QED
    BY <1>1, <1>2, <1>3, <2>1 DEF Answers
<1>5. answer'.snap = s /\ answer'.query = 0
  BY <1>4
<1>6. AnswerInv'
  <2>1. answer'.snap.event_index = k
    BY <1>4, <1>5
  <2>2. Answers(answer.snap, answer.snap.event_index)'
    BY <1>4, <1>5, <2>1
  <2> QED
    BY <1>4, <1>5, <2>1, <2>2 DEF AnswerInv
<1>7. /\ PathInv' /\ (from = Recorded)' /\ (from \in Firmware)'
      /\ Halted(path[Len(path)].m)' /\ CheckpointsInv' /\ LastEvents' = LastEvents
  BY <1>1, <1>2, CallKeeps
<1> QED
  BY <1>1, <1>2, <1>6, <1>7 DEF TInv

\* The state a seek for the last event answers with has all the work done.
LEMMA WorthOfAll ==
    ASSUME RunsTheExample, PathInv, Recorded \in Firmware, Halted(path[Len(path)].m),
           CheckpointsInv
    PROVE  Worth(LastEvents) = Consumed(Len(path))
<1>1. Len(path) \in Nat \ {0} /\ LastEvents \in Nat
  BY PathSound DEF LastEvents
<1>2. PICK s : s = StartOf(LastEvents)
  OBVIOUS
<1>3. s \in 1 .. Len(path)
  BY <1>1, <1>2, StartIs
<1>4. CASE FirstWith(LastEvents, s) = FwState(path[Len(path)].m.fw)
  BY <1>2, <1>4, StateConsumed DEF Worth, Consumed
<1>5. CASE \E i \in s .. Len(path) :
              Serves(i, LastEvents) /\ FirstWith(LastEvents, s) = FwState(path[i].m.fw)
  <2>1. PICK i \in s .. Len(path) :
              Serves(i, LastEvents) /\ FirstWith(LastEvents, s) = FwState(path[i].m.fw)
    BY <1>5
  <2>2. i \in 1 .. Len(path) /\ path[i].events = path[Len(path)].events
    BY <1>1, <1>3, <2>1 DEF Serves, LastEvents
  <2>3. Consumed(i) = Consumed(Len(path))
    BY <2>2, LastWork
  <2> QED
    BY <1>2, <2>1, <2>3, StateConsumed DEF Worth, Consumed
<1> QED
  BY <1>3, <1>4, <1>5, FirstOrEnd

\* when find_first answers,
LEMMA FindReportsKeeps ==
    ASSUME RunsTheExample, TInv, FindReports
    PROVE  TInv'
<1>1. /\ SeekEnds /\ job.call = "find" /\ position' = job.target
      /\ IF job.lo = -1 THEN ~Reached(SoughtSnapshot, job.query) ELSE job.lo >= job.hi
      /\ answer' = [snap |-> IF job.lo = -1 THEN NoSnapshot ELSE SoughtSnapshot,
                    query |-> job.query]
      /\ job' = NoJob /\ phase' = "idle"
      /\ UNCHANGED <<trace, path, from, checkpoints, event_count, calls>>
  BY DEF FindReports, Report
<1>2. /\ PathInv /\ from = Recorded /\ from \in Firmware
      /\ Halted(path[Len(path)].m) /\ CheckpointsInv /\ calls \in 0 .. MaxCalls
      /\ event_count = LastEvents /\ event_count \in Nat
      /\ job.target \in 0 .. event_count
      /\ Answers(SoughtSnapshot, job.target) /\ FindInv
      /\ SoughtSnapshot.fw.consumed = Worth(job.target)
  BY <1>1, AtSeekEnds
<1>3. PICK s, k, q : s = SoughtSnapshot /\ k = job.target /\ q = job.query
  OBVIOUS
<1>4. q \in Nat \ {0} /\ k \in Nat /\ Answers(s, k) /\ s.event_index = k
  BY <1>2, <1>3 DEF FindInv, Answers
<1>5. /\ \A x : Worth(x)' = Worth(x)
      /\ \A x, y : Answers(x, y)' <=> Answers(x, y)
      /\ Consumed(Len(path))' = Consumed(Len(path)) /\ LastEvents' = LastEvents
  BY <1>1, SameView
<1>8. k <= LastEvents'
  BY <1>2, <1>3, <1>5
<1>6. AnswerInv'
  <2>1. CASE job.lo = -1
    <3>1. answer'.snap = NoSnapshot /\ answer'.query = q
      BY <1>1, <1>3, <2>1
    <3>2. answer'.snap.event_index = -1
      BY <3>1 DEF NoSnapshot
    <3>3. Consumed(Len(path)) < q
      <4>1. k = LastEvents
        BY <1>2, <1>3, <2>1 DEF FindInv
      <4>2. Worth(k) = Consumed(Len(path))
        BY <1>2, <4>1, WorthOfAll
      <4>3. ~(Worth(k) >= q)
        BY <1>1, <1>2, <1>3, <2>1, SMTT(60) DEF Reached
      <4>4. Consumed(Len(path)) \in Nat
        <5>1. Len(path) \in 1 .. Len(path)
          BY <1>2, PathSound
        <5> QED
          BY <1>2, <5>1, PathSound DEF HalInv, FwInv, Shaped, Consumed
      <4> QED
        BY <1>4, <4>2, <4>3, <4>4
    <3> QED
      BY <1>5, <3>1, <3>2, <3>3 DEF AnswerInv, Answered
  <2>2. CASE job.lo # -1
    <3>1. answer'.snap = s /\ answer'.query = q /\ answer'.snap.event_index = k
      BY <1>1, <1>3, <1>4, <2>2
    <3>2. /\ job.lo \in Nat /\ job.hi \in Nat /\ job.lo <= job.hi /\ job.lo >= job.hi
          /\ k = job.lo + (job.hi - job.lo) \div 2
          /\ Worth(job.hi) >= q /\ (job.lo > 0 => Worth(job.lo - 1) < q)
      BY <1>1, <1>2, <1>3, <2>2 DEF FindInv
    <3>3. k = job.lo /\ k = job.hi
      BY <3>2
    <3>4. Worth(k)' >= q /\ (k > 0 => Worth(k - 1)' < q) /\ Answers(s, k)'
      <4>1. Worth(k) >= q /\ (k > 0 => Worth(k - 1) < q)
        BY <3>2, <3>3
      <4> QED
        BY <1>4, <1>5, <4>1
    <3>5. /\ Answers(answer.snap, answer.snap.event_index)'
          /\ Worth(answer.snap.event_index)' >= q
          /\ k > 0 => Worth(answer.snap.event_index - 1)' < q
      BY <3>1, <3>4
    <3> QED
      BY <1>4, <1>8, <3>1, <3>5 DEF AnswerInv, Answered
  <2> QED
    BY <2>1, <2>2
<1>7. /\ PathInv' /\ (from = Recorded)' /\ (from \in Firmware)'
      /\ Halted(path[Len(path)].m)' /\ CheckpointsInv' /\ LastEvents' = LastEvents
  BY <1>1, <1>2, CallKeeps
<1> QED
  BY <1>1, <1>2, <1>6, <1>7 DEF TInv

\* What is left of a call that has started, whatever called it.
LEMMA StartKeeps ==
    ASSUME RunsTheExample, PathInv, from = Recorded, from \in Firmware,
           Halted(path[Len(path)].m), CheckpointsInv, AnswerInv,
           event_count = LastEvents, UNCHANGED <<checkpoints, event_count, answer>>,
           (position \in 0 .. event_count)', calls' \in 0 .. MaxCalls,
           NEW j, IsJob(j), j.call \in {"seek", "find"}, NEW k \in Nat, StartSeek(j, k),
           j.call = "find" => FindInv'
    PROVE  TInv'
<1>1. /\ UNCHANGED <<path, trace, checkpoints, from>> /\ phase' = "replay"
      /\ IsJob(job)' /\ job'.call = j.call
      /\ (job.iter \in 0 .. MainIters - 1)'
      /\ \E p : Behind(p)' /\ SeekInv(p)'
  BY SeekStarts
<1>2. PICK p : Behind(p)' /\ SeekInv(p)'
  BY <1>1
<1>3. /\ PathInv' /\ (from = Recorded)' /\ (from \in Firmware)'
      /\ Halted(path[Len(path)].m)' /\ CheckpointsInv' /\ LastEvents' = LastEvents
  BY <1>1, CallKeeps
<1>4. AnswerInv'
  BY <1>1, SameAnswer
<1>5. JobInv(p)'
  BY <1>1, <1>2, <1>3 DEF JobInv
<1> QED
  BY <1>1, <1>2, <1>3, <1>4, <1>5 DEF TInv

\* What holds between two calls.
LEMMA WhenCalled ==
    ASSUME RunsTheExample, TInv, Called
    PROVE  /\ PathInv /\ from = Recorded /\ from \in Firmware
           /\ Halted(path[Len(path)].m) /\ CheckpointsInv /\ AnswerInv
           /\ event_count = LastEvents /\ event_count \in Nat
           /\ position \in 0 .. event_count /\ calls' \in 0 .. MaxCalls
<1>1. phase = "idle" /\ calls < MaxCalls /\ calls' = calls + 1
  BY DEF Called
<1>2. /\ PathInv /\ from = Recorded /\ from \in Firmware /\ calls \in 0 .. MaxCalls
      /\ Halted(path[Len(path)].m) /\ CheckpointsInv /\ AnswerInv
      /\ event_count = LastEvents /\ position \in 0 .. event_count
  BY <1>1 DEF TInv
<1>3. LastEvents \in Nat
  <2>1. Len(path) \in 1 .. Len(path)
    BY <1>2, PathSound
  <2> QED
    BY <1>2, <2>1, PathSound DEF LastEvents
<1>4. calls' \in 0 .. MaxCalls
  BY <1>1, <1>2, TimelineAssumption
<1> QED
  BY <1>2, <1>3, <1>4

\* when a seek is asked for, wherever it leads,
LEMMA SeekKeeps ==
    ASSUME RunsTheExample, TInv, NEW k \in Nat, Seek(k)
    PROVE  TInv'
<1>0. PICK j : j = [NoJob EXCEPT !.call = "seek"]
  OBVIOUS
<1>1. Called /\ StartSeek(j, k) /\ UNCHANGED <<checkpoints, event_count, position, answer>>
  BY <1>0 DEF Seek
<1>2. IsJob(j) /\ j.call = "seek"
  BY <1>0 DEF IsJob, NoJob
<1>3. /\ PathInv /\ from = Recorded /\ from \in Firmware
      /\ Halted(path[Len(path)].m) /\ CheckpointsInv /\ AnswerInv
      /\ event_count = LastEvents /\ event_count \in Nat
      /\ position \in 0 .. event_count /\ calls' \in 0 .. MaxCalls
  BY <1>1, WhenCalled
<1>4. (position \in 0 .. event_count)'
  BY <1>1, <1>3
<1> QED
  BY <1>1, <1>2, <1>3, <1>4, StartKeeps

\* when the search for a condition begins, with the end,
LEMMA FindFirstKeeps ==
    ASSUME RunsTheExample, TInv, NEW c \in Nat \ {0}, FindFirst(c)
    PROVE  TInv'
<1>1. PICK n : n = event_count
  OBVIOUS
<1>2. /\ PathInv /\ from = Recorded /\ from \in Firmware
      /\ Halted(path[Len(path)].m) /\ CheckpointsInv /\ AnswerInv
      /\ event_count = LastEvents /\ event_count \in Nat
      /\ position \in 0 .. event_count /\ calls' \in 0 .. MaxCalls
  BY WhenCalled DEF FindFirst
<1>0. PICK j : j = [NoJob EXCEPT !.call = "find", !.query = c, !.lo = -1, !.hi = n]
  OBVIOUS
<1>3. StartSeek(j, n) /\ UNCHANGED <<checkpoints, event_count, position, answer>>
  BY <1>0, <1>1 DEF FindFirst
<1>4. IsJob(j) /\ j.call = "find" /\ j.query = c /\ j.lo = -1 /\ j.hi = n
  BY <1>0 DEF IsJob, NoJob
<1>5. n \in Nat /\ (position \in 0 .. event_count)'
  BY <1>1, <1>2, <1>3
<1>6. job'.query = c /\ job'.lo = -1 /\ job'.hi = n /\ job'.target = AtMost(n, event_count)
  BY <1>2, <1>3, <1>4, <1>5, SeekStarts
<1>7. FindInv'
  BY <1>1, <1>3, <1>5, <1>6 DEF FindInv, AtMost
<1> QED
  BY <1>2, <1>3, <1>4, <1>5, <1>7, StartKeeps

\* The middle of an interval lies in it, and below its end if that is not its start.
LEMMA Middle ==
    ASSUME NEW lo \in Nat, NEW hi \in Nat, lo <= hi
    PROVE  /\ lo + (hi - lo) \div 2 \in lo .. hi
           /\ lo < hi => lo + (hi - lo) \div 2 < hi
OBVIOUS

\* and when it goes on with one of the halves.
LEMMA FindGoesOnKeeps ==
    ASSUME RunsTheExample, TInv, FindGoesOn
    PROVE  TInv'
<1> DEFINE holds == Reached(SoughtSnapshot, job.query)
<1>1. PICK lo, hi, query, target, n :
          /\ lo = IF job.lo = -1 THEN 0 ELSE IF holds THEN job.lo ELSE job.target + 1
          /\ hi = IF job.lo # -1 /\ holds THEN job.target ELSE job.hi
          /\ query = job.query /\ target = job.target /\ n = event_count
  OBVIOUS
<1>2. /\ SeekEnds /\ job.call = "find"
      /\ IF job.lo = -1 THEN holds ELSE job.lo < job.hi
      /\ StartSeek([job EXCEPT !.lo = lo, !.hi = hi], lo + (hi - lo) \div 2)
      /\ position' = job.target
      /\ UNCHANGED <<checkpoints, event_count, answer, calls>>
  BY <1>1 DEF FindGoesOn
<1>3. /\ PathInv /\ from = Recorded /\ from \in Firmware
      /\ Halted(path[Len(path)].m) /\ CheckpointsInv /\ AnswerInv /\ calls \in 0 .. MaxCalls
      /\ event_count = LastEvents /\ event_count \in Nat
      /\ IsJob(job) /\ job.target \in 0 .. event_count /\ FindInv
      /\ SoughtSnapshot.fw.consumed = Worth(job.target)
  BY <1>2, AtSeekEnds
<1>4. holds <=> Worth(target) >= query
  BY <1>1, <1>3 DEF Reached
<1> HIDE DEF holds
<1>5. /\ lo \in Nat /\ hi \in Nat /\ lo <= hi /\ hi <= n
      /\ query \in Nat \ {0}
      /\ Worth(hi) >= query
      /\ lo > 0 => ~(Worth(lo - 1) >= query) \/ Worth(lo - 1) < query
  <2>1. query \in Nat \ {0} /\ n \in Nat /\ target \in 0 .. n
    BY <1>1, <1>3 DEF FindInv
  <2>2. CASE job.lo = -1
    <3>1. lo = 0 /\ hi = n /\ target = n /\ holds
      BY <1>1, <1>2, <1>3, <2>2 DEF FindInv
    <3> QED
      BY <1>4, <2>1, <3>1
  <2>3. CASE job.lo # -1
    <3> DEFINE a == job.lo
               b == job.hi
    <3>1. /\ a \in Nat /\ b \in Nat /\ a <= b /\ b <= n /\ a < b
          /\ target = a + (b - a) \div 2
          /\ Worth(b) >= query /\ (a > 0 => Worth(a - 1) < query)
      BY <1>1, <1>2, <1>3, <2>3 DEF FindInv
    <3>2. lo = (IF holds THEN a ELSE target + 1) /\ hi = IF holds THEN target ELSE b
      BY <1>1, <2>3
    <3> HIDE DEF a, b
    <3>3. target \in a .. b /\ target < b
      BY <3>1, Middle
    <3>4. CASE holds
      <4>1. lo = a /\ hi = target
        BY <3>2, <3>4
      <4> QED
        BY <1>4, <2>1, <3>1, <3>3, <3>4, <4>1
    <3>5. CASE ~holds
      <4>1. lo = target + 1 /\ hi = b /\ lo - 1 = target
        BY <2>1, <3>2, <3>5
      <4> QED
        BY <1>4, <2>1, <3>1, <3>3, <3>5, <4>1
    <3> QED
      BY <3>4, <3>5
  <2> QED
    BY <2>2, <2>3
<1>6. lo > 0 => Worth(lo - 1) < query
  <2> SUFFICES ASSUME lo > 0 PROVE Worth(lo - 1) < query
    OBVIOUS
  <2>1. PICK w : w = Worth(lo - 1)
    BY SMTT(60)
  <2>2. w \in Nat
    <3>1. lo - 1 \in Nat
      BY <1>5
    <3>2. StartOf(lo - 1) \in 1 .. Len(path)
      BY <1>3, <3>1, StartIs
    <3>3. Len(path) \in 1 .. Len(path) /\ Len(path) \in Nat
      BY <1>3, PathSound
    <3>4. \E i \in 1 .. Len(path) :
             FirstWith(lo - 1, StartOf(lo - 1)) = FwState(path[i].m.fw)
      BY <1>3, <3>2, <3>3, FirstOrEnd
    <3>5. PICK i \in 1 .. Len(path) : Worth(lo - 1) = path[i].m.fw.consumed
      BY <3>4, StateConsumed DEF Worth
    <3> QED
      BY <1>3, <2>1, <3>5, PathSound, ZenonT(60) DEF HalInv, FwInv, Shaped
  <2> QED
    BY <1>5, <2>1, <2>2
<1>10. PICK j, k : j = [job EXCEPT !.lo = lo, !.hi = hi] /\ k = lo + (hi - lo) \div 2
  OBVIOUS
<1>7. /\ IsJob(j) /\ j.call = "find" /\ j.lo = lo /\ j.hi = hi /\ j.query = query
  <2>1. IsJob(job) /\ job.call = "find" /\ job.query = query
    BY <1>1, <1>2, <1>3
  <2> QED
    BY <1>10, <2>1 DEF IsJob
<1>8. k \in lo .. hi /\ k \in Nat /\ k <= n /\ n = event_count
  <2>1. k \in lo .. hi
    BY <1>5, <1>10, Middle
  <2> QED
    BY <1>1, <1>3, <1>5, <2>1, SMTT(60)
<1>9. StartSeek(j, k)
  BY <1>2, <1>10
<1>11. /\ job'.query = query /\ job'.lo = lo /\ job'.hi = hi
       /\ job'.target = AtMost(k, event_count)
       /\ UNCHANGED <<path, trace, checkpoints, from, event_count>>
  BY <1>2, <1>3, <1>7, <1>8, <1>9, SeekStarts
<1>12. job'.target = k
  BY <1>8, <1>11 DEF AtMost
<1>13. FindInv'
  <2>1. \A x : Worth(x)' = Worth(x)
    BY <1>11, SameView
  <2>2. Worth(hi)' >= query /\ (lo > 0 => Worth(lo - 1)' < query)
    BY <1>5, <1>6, <2>1
  <2>3. Worth(job.hi)' >= job'.query /\ (job'.lo > 0 => Worth(job.lo - 1)' < job'.query)
    BY <1>11, <2>2
  <2>4. job'.target = job'.lo + (job'.hi - job'.lo) \div 2
    BY <1>10, <1>11, <1>12
  <2> QED
    BY <1>1, <1>5, <1>11, <2>3, <2>4 DEF FindInv
<1>14. (position \in 0 .. event_count)'
  BY <1>2, <1>3
<1> QED
  BY <1>2, <1>3, <1>7, <1>8, <1>9, <1>13, <1>14, StartKeeps

\* No call leaves the states of the invariant.
LEMMA UserCallsKeep ==
    ASSUME RunsTheExample, TInv, UserCalls
    PROVE  TInv'
<1>1. ASSUME NEW k \in 0 .. event_count + 1, Seek(k) PROVE TInv'
  <2>1. event_count \in Nat
    BY <1>1, WhenCalled DEF Seek
  <2> QED
    BY <1>1, <2>1, SeekKeeps
<1>2. ASSUME NEW n \in Steps, StepBack(n) \/ StepForward(n) PROVE TInv'
  <2>1. n \in Nat
    BY TimelineAssumption
  <2>2. Called
    BY <1>2 DEF StepBack, StepForward, Seek
  <2>3. position \in Nat
    BY <2>2, WhenCalled
  <2>4. PICK k, l : k = (IF n > position THEN 0 ELSE position - n) /\ l = position + n
    OBVIOUS
  <2>5. k \in Nat /\ l \in Nat
    BY <2>1, <2>3, <2>4
  <2>6. Seek(k) \/ Seek(l)
    BY <1>2, <2>4 DEF StepBack, StepForward
  <2> QED
    BY <2>5, <2>6, SeekKeeps
<1>3. ASSUME NEW c \in Thresholds, FindFirst(c) PROVE TInv'
  <2>1. c \in Nat \ {0}
    BY TimelineAssumption
  <2> QED
    BY <1>3, <2>1, FindFirstKeeps
<1> QED
  BY <1>1, <1>2, <1>3 DEF UserCalls

\* Neither does standing still.
LEMMA StutterKeeps ==
    ASSUME TInv, UNCHANGED allvars
    PROVE  TInv'
<1>1. /\ UNCHANGED <<phase, hal, dev, trace, cursor, now, divergence, path, step, from>>
      /\ UNCHANGED <<checkpoints, event_count, position, answer, calls, job>>
  BY DEF allvars, vars, timeline
<1>2. /\ \A p : Behind(p)' <=> Behind(p)
      /\ IInv' <=> IInv
  BY <1>1 DEF Behind, Iters, Pc, Lag, MainIters, TimeAt, Ahead, Sooner, IInv, PathInv,
              ExplainedAt, IsSeq, IsMachine, RecordInv, ReplayInv, FoundNothing, Recorded
<1>3. PathInv' /\ (from = Recorded)' /\ (from \in Firmware)'
      /\ (Halted(path[Len(path)].m)' <=> Halted(path[Len(path)].m))
  BY <1>1, SameRecording DEF TInv
<1>4. /\ CheckpointsInv => CheckpointsInv'
      /\ AnswerInv => AnswerInv'
      /\ LastEvents' = LastEvents
  BY <1>1, SameCheckpoints, SameAnswer, SameView
<1>5. ASSUME NEW p, JobInv(p) PROVE JobInv(p)'
  <2>1. SeekInv(p) => SeekInv(p)'
    <3>1. PICK t, s : t = job.target /\ s = job.snap
      OBVIOUS
    <3>2. t = job'.target /\ s = job'.snap
      BY <1>1, <3>1
    <3>3. /\ StartOf(t)' = StartOf(t) /\ \A i : Serves(i, t)' <=> Serves(i, t)
          /\ Answers(s, t)' <=> Answers(s, t)
      BY <1>1, SameView
    <3>4. /\ StartOf(job.target)' = StartOf(t)'
          /\ \A i : Serves(i, job.target)' <=> Serves(i, t)'
          /\ Answers(job.snap, job.target)' <=> Answers(s, t)'
      BY <3>2
    <3> QED
      BY <1>1, <3>1, <3>2, <3>3, <3>4 DEF SeekInv
  <2>2. FindInv => FindInv'
    BY <1>1, SameFind
  <2> QED
    BY <1>1, <1>4, <1>5, <2>1, <2>2 DEF JobInv, IsJob, MainIters
<1> QED
  BY <1>1, <1>2, <1>3, <1>4, <1>5 DEF TInv

\* Every step keeps the invariant.
LEMMA TInvStep ==
    ASSUME RunsTheExample, RecordWrites, TInv, [TimelineNext]_allvars
    PROVE  TInv'
BY RecordingKeepsT, OpenKeeps, ReexecuteKeeps, OpenGoesOnKeeps, OpenEndsKeeps,
   SeekGoesOnKeeps, SeekReportsKeeps, FindReportsKeeps, FindGoesOnKeeps,
   UserCallsKeep, StutterKeeps
DEF TimelineNext, Works

\* The invariant holds of every timeline of a recording that holds the writes.
LEMMA TInvCorrect ==
    ASSUME RunsTheExample, RecordWrites
    PROVE  TimelineSpec => []TInv
<1>1. TimelineInit => TInv
  BY TInvInit
<1>2. TInv /\ [TimelineNext]_allvars => TInv'
  BY TInvStep
<1> QED
  BY <1>1, <1>2, PTL DEF TimelineSpec

--------------------------------------------------------------------------------
(* What a timeline promises.                                                 *)

\* TimelineTypeOK, for every example firmware, device, distance of checkpoints and
\* sequence of calls.
THEOREM TimelineTypeCorrect ==
    ASSUME RunsTheExample, RecordWrites
    PROVE  TimelineSpec => []TimelineTypeOK
<1>1. TInv => TimelineTypeOK
  <2> SUFFICES ASSUME TInv PROVE TimelineTypeOK
    OBVIOUS
  <2>1. MainIters \in Nat \ {0}
    BY TimelineAssumption DEF TInv, MainIters
  <2>2. CASE phase = "record"
    BY <2>1, <2>2 DEF TInv, TimelineTypeOK, NoJob
  <2>3. CASE phase = "idle"
    <3>1. LastEvents \in Nat
      <4>1. PathInv
        BY DEF TInv
      <4> QED
        BY <4>1, AppendFacts DEF PathInv, LastEvents
    <3> QED
      BY <2>1, <2>3, <3>1 DEF TInv, TimelineTypeOK, NoJob, CheckpointsInv
  <2>4. CASE phase = "replay"
    <3>1. PICK p : JobInv(p)
      BY <2>4 DEF TInv
    <3>2. event_count \in Nat
      <4>1. PathInv
        BY DEF TInv
      <4> QED
        BY <3>1, <4>1, AppendFacts DEF PathInv, LastEvents, JobInv
    <3> QED
      BY <2>1, <2>4, <3>1, <3>2, SMTT(60) DEF TInv, JobInv, SeekInv, TimelineTypeOK, CheckpointsInv
  <2> QED
    BY <2>2, <2>3, <2>4 DEF TInv
<1> QED
  BY <1>1, TInvCorrect, PTL

\* A checkpoint is a complete description, wherever the checkpoints are taken.
THEOREM CheckpointsAreCompleteCorrect ==
    ASSUME RunsTheExample, RecordWrites
    PROVE  TimelineSpec => []CheckpointsAreComplete
<1>1. TInv => CheckpointsAreComplete
  <2>1. CASE phase = "record"
    BY <2>1 DEF TInv, CheckpointsAreComplete
  <2>2. CASE phase # "record"
    BY <2>2, Complete DEF TInv
  <2> QED
    BY <2>1, <2>2
<1> QED
  BY <1>1, TInvCorrect, PTL

\* Whatever was called before, a seek answers with the recording's own state: the
\* re-execution from a checkpoint goes through the machines of the recording.
THEOREM SeekIsExactCorrect ==
    ASSUME RunsTheExample, RecordWrites
    PROVE  TimelineSpec => []SeekIsExact
<1>1. TInv => SeekIsExact
  <2> SUFFICES ASSUME TInv, Answered PROVE
          LET k == answer.snap.event_index
              cp == Nearest(k)
          IN /\ answer.snap.fw = FirstWith(k, HeadOf(cp.main_iter))
             /\ answer.snap.ts = IF k = 0 THEN 0 ELSE trace[k].ts
    BY DEF SeekIsExact
  <2>1. phase # "record"
    BY DEF TInv, Answered, NoAnswer, NoSnapshot
  <2>2. Answers(answer.snap, answer.snap.event_index)
    BY <2>1 DEF TInv, AnswerInv
  <2> QED
    BY <2>2 DEF Answers, StartOf, TimeAt
<1> QED
  BY <1>1, TInvCorrect, PTL

\* find_first reports the first event at which a seek would see the condition, and
\* nothing only if the run never meets it.
THEOREM FindsTheFirstCorrect ==
    ASSUME RunsTheExample, RecordWrites
    PROVE  TimelineSpec => []FindsTheFirst
<1>1. TInv => FindsTheFirst
  <2> SUFFICES ASSUME TInv, answer.query > 0 PROVE
        IF Answered
        THEN LET k == answer.snap.event_index IN
             /\ Reached(answer.snap, answer.query)
             /\ k > 0 => FirstWith(k - 1, HeadOf(Nearest(k - 1).main_iter)).consumed
                             < answer.query
        ELSE path[Len(path)].m.fw.consumed < answer.query
    BY DEF FindsTheFirst
  <2>1. phase # "record"
    BY DEF TInv, NoAnswer
  <2>2. AnswerInv
    BY <2>1 DEF TInv
  <2>3. CASE Answered
    BY <2>2, <2>3 DEF AnswerInv, Answers, Worth, StartOf, Reached
  <2>4. CASE ~Answered
    BY <2>2, <2>4 DEF AnswerInv, Consumed
  <2> QED
    BY <2>3, <2>4
<1> QED
  BY <1>1, TInvCorrect, PTL

--------------------------------------------------------------------------------
(* Moving backwards.                                                         *)

\* What the firmware does to a device of D leaves it in D, and never sets its clock
\* back; what it writes are numbers.
ClockRuns(D) ==
    /\ DevInit \subseteq D
    /\ \A d \in D : DevNow(d) \in Nat
    /\ \A d \in D : \A a : \A r \in DevRead(d, a) : r.dev \in D /\ DevNow(d) <= DevNow(r.dev)
    /\ \A d \in D : \A a : \A v \in Nat : \A e \in DevWrite(d, a, v) :
          e \in D /\ DevNow(d) <= DevNow(e)
    /\ \A d \in D : \A p \in DevPoll(d) : p.dev \in D /\ DevNow(d) <= DevNow(p.dev)

\* Every state the simulated part may be in, and more.
Parts ==
    [cycles : Nat, wait : Nat, frame_pos : Nat, tx_sent : Nat, tx_checksum : Seq(Bytes),
     odr : Nat, rx_byte : Bytes \cup {0}, rx_pending : BOOLEAN, irq_latched : BOOLEAN]

\* The simulated part is such a device: an access costs cycles, and a poll none.
LEMMA PartClockRuns ==
    ASSUME DevInit = McuInit,
           \A d, a : DevRead(d, a) = McuRead(d, a),
           \A d, a, v : DevWrite(d, a, v) = McuWrite(d, a, v),
           \A d : DevPoll(d) = McuPoll(d) /\ DevNow(d) = McuNow(d)
    PROVE  ClockRuns(Parts)
<1>1. ASSUME NEW d \in Parts, NEW e \in Advance(d)
      PROVE  e \in Parts /\ e.cycles = d.cycles + 1
  <2>1. PICK x : x = Elapse(d)
    OBVIOUS
  <2>2. x \in Parts /\ x.cycles = d.cycles + 1
    <3>1. PICK w \in Nat : x = [d EXCEPT !.cycles = @ + 1, !.wait = w]
      <4>1. PICK w : w = IF d.wait > 0 THEN d.wait - 1 ELSE 0
        OBVIOUS
      <4>2. w \in Nat
        BY <4>1 DEF Parts
      <4> QED
        BY <2>1, <4>1, <4>2 DEF Elapse
    <3>2. PICK c \in Nat : c = d.cycles + 1
      BY DEF Parts
    <3>3. x = [d EXCEPT !.cycles = c, !.wait = w]
      BY <3>1, <3>2
    <3> QED
      BY <3>2, <3>3 DEF Parts
  <2>3. e = x \/ e \in Arrivals(x)
    BY <2>1 DEF Advance
  <2>4. CASE e \in Arrivals(x)
    <3> DEFINE ends == x.frame_pos + 1 >= FrameLen
               arrived(byte, gap) ==
                   [x EXCEPT !.rx_byte = byte, !.rx_pending = TRUE, !.irq_latched = TRUE,
                             !.tx_checksum = Append(@, byte), !.tx_sent = @ + 1,
                             !.frame_pos = IF ends THEN 0 ELSE @ + 1, !.wait = gap]
    <3>1. Arrivals(x) = {arrived(byte, gap) :
                            byte \in Bytes, gap \in IF ends THEN FrameGaps ELSE ByteGaps}
      BY DEF Arrivals
    <3> HIDE DEF arrived
    <3>2. PICK byte \in Bytes, gap \in FrameGaps \cup ByteGaps : e = arrived(byte, gap)
      BY <2>4, <3>1
    <3>3. PICK at \in {0, x.frame_pos + 1} :
             e = [x EXCEPT !.rx_byte = byte, !.rx_pending = TRUE, !.irq_latched = TRUE,
                           !.tx_checksum = Append(@, byte), !.tx_sent = @ + 1,
                           !.frame_pos = at, !.wait = gap]
      BY <3>2 DEF arrived
    <3>4. gap \in Nat /\ at \in Nat /\ Append(x.tx_checksum, byte) \in Seq(Bytes)
      BY <2>2, <3>2, <3>3, McuAssumption, SMTT(60) DEF Parts
    <3>5. e = [cycles |-> x.cycles, wait |-> gap, frame_pos |-> at,
               tx_sent |-> x.tx_sent + 1, tx_checksum |-> Append(x.tx_checksum, byte),
               odr |-> x.odr, rx_byte |-> byte, rx_pending |-> TRUE, irq_latched |-> TRUE]
      BY <2>2, <3>3 DEF Parts
    <3> QED
      BY <2>2, <3>4, <3>5, SMTT(60) DEF Parts
  <2> QED
    BY <2>2, <2>3, <2>4
<1>2. DevInit \subseteq Parts
  <2> SUFFICES ASSUME NEW d \in McuInit PROVE d \in Parts
    OBVIOUS
  <2>1. PICK w \in FrameGaps :
           d = [cycles |-> 0, wait |-> w, frame_pos |-> 0, tx_sent |-> 0,
                tx_checksum |-> <<>>, odr |-> 0, rx_byte |-> 0, rx_pending |-> FALSE,
                irq_latched |-> FALSE]
    BY DEF McuInit
  <2>2. w \in Nat /\ <<>> \in Seq(Bytes)
    BY <2>1, McuAssumption
  <2> QED
    BY <2>1, <2>2 DEF Parts
<1>3. ASSUME NEW d \in Parts
      PROVE  DevNow(d) = d.cycles /\ DevNow(d) \in Nat
  BY DEF McuNow, Parts
<1>4. ASSUME NEW d \in Parts, NEW a, NEW r \in DevRead(d, a)
      PROVE  r.dev \in Parts /\ DevNow(d) <= DevNow(r.dev)
  <2>1. PICK e \in Advance(d) : r.dev = IF a = "DR" THEN [e EXCEPT !.rx_pending = FALSE] ELSE e
    <3>1. PICK e \in Advance(d) :
            r = [dev   |-> IF a = "DR" THEN [e EXCEPT !.rx_pending = FALSE] ELSE e,
                 value |-> CASE a = "CNT" -> e.cycles
                             [] a = "SR"  -> IF e.rx_pending THEN 1 ELSE 0
                             [] a = "DR"  -> e.rx_byte
                             [] a = "ODR" -> e.odr
                             [] OTHER     -> 0]
      BY DEF McuRead
    <3> QED
      BY <3>1
  <2>2. e \in Parts /\ e.cycles = d.cycles + 1
    BY <1>1
  <2>3. r.dev \in Parts /\ r.dev.cycles = e.cycles
    BY <2>1, <2>2, ZenonT(60) DEF Parts
  <2> QED
    BY <1>3, <2>2, <2>3, SMTT(60) DEF Parts
<1>5. ASSUME NEW d \in Parts, NEW a, NEW v \in Nat, NEW g \in DevWrite(d, a, v)
      PROVE  g \in Parts /\ DevNow(d) <= DevNow(g)
  <2>1. PICK e \in Advance(d) : g = IF a = "ODR" THEN [e EXCEPT !.odr = v] ELSE e
    BY DEF McuWrite
  <2>2. e \in Parts /\ e.cycles = d.cycles + 1
    BY <1>1
  <2>3. g \in Parts /\ g.cycles = e.cycles
    BY <2>1, <2>2 DEF Parts
  <2> QED
    BY <1>3, <2>2, <2>3, SMTT(60) DEF Parts
<1>6. ASSUME NEW d \in Parts, NEW p \in DevPoll(d)
      PROVE  p.dev \in Parts /\ DevNow(d) <= DevNow(p.dev)
  <2>1. p.dev \in {d, [d EXCEPT !.irq_latched = FALSE]}
    <3>1. \/ p = [dev |-> [d EXCEPT !.irq_latched = FALSE], vector |-> 1]
          \/ p = [dev |-> d, vector |-> -1]
      BY DEF McuPoll
    <3> QED
      BY <3>1
  <2>2. p.dev \in Parts /\ p.dev.cycles = d.cycles
    BY <2>1 DEF Parts
  <2> QED
    BY <1>3, <2>2, SMTT(60) DEF Parts
<1> QED
  BY <1>2, <1>3, <1>4, <1>5, <1>6 DEF ClockRuns

\* So the timestamps of the trace never go back.
TimeInv(D) ==
    /\ dev \in D /\ IsSeq(trace)
    /\ \A k \in 1 .. Len(trace) : trace[k].ts \in Nat /\ trace[k].ts <= DevNow(dev)
    /\ \A k, l \in 1 .. Len(trace) : k <= l => trace[k].ts <= trace[l].ts

\* An event is stamped with the clock of its device.
LEMMA StampKeeps ==
    ASSUME NEW D, ClockRuns(D), TimeInv(D), dev' \in D, DevNow(dev) <= DevNow(dev'),
           \/ trace' = trace
           \/ \E type, a, v : trace' = Append(trace, Event(type, dev', a, v))
    PROVE  TimeInv(D)'
<1>1. DevNow(dev) \in Nat /\ DevNow(dev') \in Nat /\ IsSeq(trace)
  BY DEF ClockRuns, TimeInv
<1>2. ASSUME NEW k \in 1 .. Len(trace)
      PROVE  trace[k].ts \in Nat /\ trace[k].ts <= DevNow(dev')
  BY <1>1 DEF TimeInv
<1>3. CASE trace' = trace
  BY <1>1, <1>2, <1>3 DEF TimeInv, IsSeq
<1>4. ASSUME NEW type, NEW a, NEW v, trace' = Append(trace, Event(type, dev', a, v))
      PROVE  TimeInv(D)'
  <2>0. PICK e : e = Event(type, dev', a, v)
    OBVIOUS
  <2>1. e.ts = DevNow(dev')
    BY <2>0 DEF Event
  <2>2. /\ IsSeq(trace') /\ Len(trace) \in Nat /\ Len(trace') = Len(trace) + 1
        /\ \A i \in 1 .. Len(trace) : trace'[i] = trace[i]
        /\ trace'[Len(trace) + 1] = e
    BY <1>1, <1>4, <2>0, AppendFacts
  <2>3. ASSUME NEW k \in 1 .. Len(trace')
        PROVE  trace'[k].ts \in Nat /\ trace'[k].ts <= DevNow(dev')
    <3>1. CASE k \in 1 .. Len(trace)
      BY <1>2, <2>2, <3>1
    <3>2. CASE k = Len(trace) + 1
      BY <1>1, <2>1, <2>2, <3>2
    <3> QED
      BY <2>2, <3>1, <3>2
  <2>4. ASSUME NEW k \in 1 .. Len(trace'), NEW l \in 1 .. Len(trace'), k <= l
        PROVE  trace'[k].ts <= trace'[l].ts
    <3>1. CASE l \in 1 .. Len(trace)
      BY <2>2, <2>4, <3>1 DEF TimeInv
    <3>2. CASE l = Len(trace) + 1
      BY <2>1, <2>2, <2>3, <3>2
    <3> QED
      BY <2>2, <3>1, <3>2
  <2> QED
    BY <2>2, <2>3, <2>4 DEF TimeInv
<1> QED
  BY <1>3, <1>4

\* From the start, and with every step.
LEMMA TimeInvInit ==
    ASSUME NEW D, ClockRuns(D), TimelineInit
    PROVE  TimeInv(D)
BY DEF TimelineInit, Init, TimeInv, IsSeq, ClockRuns

\* The example's main loop writes what it counted.
LEMMA WritesNumbers ==
    ASSUME RunsTheExample, TInv, phase = "record"
    PROVE  Request(hal.fw).value \in Nat
<1>1. FwInv(hal.fw)
  <2>1. PathInv /\ Recorded \in Firmware /\ path[Len(path)].m = hal
    BY DEF TInv, IInv, RecordInv
  <2>2. HalInv(hal)
    BY <2>1, PathSound
  <2> QED
    BY <2>2 DEF HalInv
<1>2. Request(hal.fw).value \in {0, hal.fw.consumed}
  BY <1>1 DEF RunsTheExample, FwInv, Shaped, Positions, AtAccess, RxRequest, MainRequest,
              IsrRequest, Call
<1> QED
  BY <1>1, <1>2 DEF FwInv, Shaped

\* No step sets the clock of the device back.
LEMMA TimeInvStep ==
    ASSUME RunsTheExample, TInv, NEW D, ClockRuns(D), TimeInv(D), [TimelineNext]_allvars
    PROVE  TimeInv(D)'
<1>0. dev \in D /\ DevNow(dev) \in Nat
  BY DEF TimeInv, ClockRuns
<1>1. CASE TimelineRecords
  <2>1. /\ dev' \in D /\ DevNow(dev) <= DevNow(dev')
        /\ \/ trace' = trace
           \/ \E type, a, v : trace' = Append(trace, Event(type, dev', a, v))
    <3>1. CASE RecordRead
      <4>1. PICK r \in DevRead(dev, Request(hal.fw).addr) :
               /\ dev' = r.dev
               /\ trace' = Append(trace, Event("read", r.dev, Request(hal.fw).addr, r.value))
        BY <3>1 DEF RecordRead
      <4> QED
        BY <1>0, <4>1 DEF ClockRuns
    <3>2. CASE RecordWrite
      <4>1. PICK d \in DevWrite(dev, Request(hal.fw).addr, Request(hal.fw).value) :
               /\ dev' = d
               /\ trace' = IF RecordWrites
                           THEN Append(trace, Event("write", d, Request(hal.fw).addr,
                                                    Request(hal.fw).value))
                           ELSE trace
        BY <3>2 DEF RecordWrite
      <4>2. Request(hal.fw).value \in Nat
        BY <3>2, WritesNumbers DEF RecordWrite
      <4> QED
        BY <1>0, <4>1, <4>2 DEF ClockRuns
    <3>3. CASE RecordIrq
      <4>1. PICK p \in DevPoll(dev) :
               dev' = p.dev /\ trace' = Append(trace, Event("irq", p.dev, p.vector, 0))
        BY <3>3 DEF RecordIrq
      <4> QED
        BY <1>0, <4>1 DEF ClockRuns
    <3>4. CASE RecordNoIrq
      <4>1. trace' = trace /\ \E p \in DevPoll(dev) : dev' = p.dev
        BY <3>4 DEF RecordNoIrq
      <4> QED
        BY <1>0, <4>1 DEF ClockRuns
    <3>5. CASE RecordQuiet
      BY <1>0, <3>5 DEF RecordQuiet
    <3> QED
      BY <1>1, <3>1, <3>2, <3>3, <3>4, <3>5 DEF TimelineRecords
  <2> QED
    BY <2>1, StampKeeps
<1>2. CASE Open
  <2>1. dev' = dev /\ trace' = Append(trace, Event("stop", dev', 0, 0))
    BY <1>2 DEF Open
  <2>2. dev' \in D /\ DevNow(dev) <= DevNow(dev')
    BY <1>0, <2>1
  <2> QED
    BY <2>1, <2>2, StampKeeps
<1>3. CASE Works \/ UserCalls \/ UNCHANGED allvars
  <2>1. dev' = dev /\ trace' = trace
    <3>1. CASE Reexecute
      BY <3>1 DEF Reexecute, ReplayRead, ReplayWrite, ReplayIrq, ReplayNoIrq,
                  ReplayQuiet, UNCHANGED_record
    <3>2. CASE OpenGoesOn \/ OpenEnds \/ SeekGoesOn \/ SeekReports \/ FindReports
      BY <3>2, SMTT(60) DEF OpenGoesOn, OpenEnds, SeekGoesOn, SeekReports, FindReports, NextOne,
                  Report
    <3>3. CASE FindGoesOn
      BY <3>3, SMTT(60) DEF FindGoesOn, StartSeek
    <3>4. CASE UserCalls
      BY <3>4 DEF UserCalls, StepBack, StepForward, Seek, FindFirst, StartSeek
    <3>5. CASE UNCHANGED allvars
      BY <3>5 DEF allvars, vars
    <3> QED
      BY <1>3, <3>1, <3>2, <3>3, <3>4, <3>5 DEF Works
  <2>2. dev' \in D /\ DevNow(dev) <= DevNow(dev')
    BY <1>0, <2>1
  <2> QED
    BY <2>1, <2>2, StampKeeps
<1> QED
  BY <1>1, <1>2, <1>3 DEF TimelineNext

\* The earlier the event, the less work has been done where it was served.
LEMMA WorthGrows ==
    ASSUME RunsTheExample, PathInv, Recorded \in Firmware, CheckpointsInv,
           NEW j \in Nat, NEW k \in Nat, j <= k, k <= LastEvents
    PROVE  Worth(j) <= Worth(k)
<1>1. /\ Len(path) \in Nat \ {0} /\ LastEvents \in Nat /\ Len(path) \in 1 .. Len(path)
      /\ \A i \in 1 .. Len(path) : Consumed(i) \in Nat
  <2>1. Len(path) \in Nat \ {0} /\ Len(path) \in 1 .. Len(path)
    BY PathSound
  <2>2. LastEvents \in Nat
    BY <2>1, PathSound DEF LastEvents
  <2>3. ASSUME NEW i \in 1 .. Len(path)
        PROVE  Consumed(i) \in Nat
    <3>1. i \in i .. Len(path)
      BY <2>1
    <3> QED
      BY <3>1, PathOrder
  <2> QED
    BY <2>1, <2>2, <2>3
<1>2. PICK s, t : s = StartOf(j) /\ t = StartOf(k)
  OBVIOUS
<1>3. s \in 1 .. Len(path) /\ t \in 1 .. Len(path) /\ path[s].events <= j
  BY <1>2, StartIs
<1>4. \/ Worth(k) = Consumed(Len(path))
      \/ \E h \in t .. Len(path) : Serves(h, k) /\ Worth(k) = Consumed(h)
  BY <1>2, <1>3, FirstOrEnd, StateConsumed, SMTT(60) DEF Worth, Consumed
<1>5. CASE j = k
  <2>1. Worth(k) \in Nat
    BY <1>1, <1>3, <1>4, SMTT(60)
  <2> QED
    BY <1>5, <2>1
<1>6. CASE j # k
  <2>1. j < LastEvents
    BY <1>1, <1>6
  <2>2. \E i \in s .. Len(path) - 1 : path[i].events = j /\ Accesses(path[i].m)
    BY <1>3, <2>1, EventHasAccess DEF LastEvents
  <2>3. PICK i \in s .. Len(path) : Serves(i, j) /\ Worth(j) = Consumed(i)
    <3>1. ~(\A h \in s .. Len(path) : ~Serves(h, j))
      BY <1>1, <1>3, <2>2, SMTT(60) DEF Serves
    <3> QED
      BY <1>2, <1>3, <3>1, FirstOrEnd, StateConsumed, SMTT(60) DEF Worth, Consumed
  <2>4. i \in 1 .. Len(path) /\ path[i].events = j
    BY <1>1, <1>3, <2>3 DEF Serves
  <2>5. CASE Worth(k) = Consumed(Len(path))
    <3>1. Consumed(i) <= Consumed(Len(path))
      BY <1>1, <2>4, PathOrder
    <3> QED
      BY <2>3, <2>5, <3>1
  <2>6. CASE \E h \in t .. Len(path) : Serves(h, k) /\ Worth(k) = Consumed(h)
    <3>1. PICK h \in t .. Len(path) : Serves(h, k) /\ Worth(k) = Consumed(h)
      BY <2>6
    <3>2. h \in 1 .. Len(path) /\ path[h].events = k
      BY <1>1, <1>3, <3>1 DEF Serves
    <3>3. h \in i .. Len(path)
      <4> SUFFICES ASSUME h < i PROVE FALSE
        BY <1>1, <2>4, <3>2
      <4>1. i \in h .. Len(path)
        BY <1>1, <2>4, <3>2
      <4>2. path[h].events <= path[i].events
        BY <3>2, <4>1, PathOrder
      <4> QED
        BY <1>6, <2>4, <3>2, <4>2
    <3>4. Consumed(i) <= Consumed(h)
      BY <2>4, <3>3, PathOrder
    <3> QED
      BY <2>3, <3>1, <3>4
  <2> QED
    BY <1>4, <2>5, <2>6
<1> QED
  BY <1>5, <1>6

\* The events of a recording are those of its trace.
LEMMA EventsRecorded ==
    ASSUME RunsTheExample, PathInv, Recorded \in Firmware
    PROVE  LastEvents \in Nat /\ LastEvents <= Len(trace) /\ Len(trace) \in Nat
<1>1. Len(path) \in 1 .. Len(path)
  BY PathSound
<1> QED
  BY <1>1, PathSound DEF LastEvents

\* While an answer stands, no step touches the recording or its checkpoints.
LEMMA AnsweredKeeps ==
    ASSUME TInv, Answered, [TimelineNext]_allvars
    PROVE  UNCHANGED <<path, trace, checkpoints, from>>
<1>1. answer # NoAnswer
  BY DEF Answered, NoAnswer, NoSnapshot
<1>2. ~TimelineRecords /\ ~Open
  BY <1>1 DEF TInv, TimelineRecords, Open, RecordRead, RecordWrite, RecordIrq,
              RecordNoIrq, RecordQuiet
<1>3. ~OpenGoesOn
  BY <1>1 DEF TInv, JobInv, OpenGoesOn, IterationEnds
<1>4. CASE Reexecute
  BY <1>4 DEF Reexecute, ReplayRead, ReplayWrite, ReplayIrq, ReplayNoIrq,
              ReplayQuiet, UNCHANGED_record, timeline
<1>5. CASE OpenEnds \/ SeekGoesOn \/ SeekReports \/ FindReports
  BY <1>5, SMTT(60) DEF OpenEnds, SeekGoesOn, SeekReports, FindReports, NextOne, Report, timeline
<1>6. CASE FindGoesOn
  BY <1>6, SMTT(60) DEF FindGoesOn, StartSeek
<1>7. CASE UserCalls
  BY <1>7, ZenonT(60) DEF UserCalls, StepBack, StepForward, Seek, FindFirst, StartSeek
<1>8. CASE UNCHANGED allvars
  BY <1>8 DEF allvars, vars, timeline
<1> QED
  BY <1>2, <1>3, <1>4, <1>5, <1>6, <1>7, <1>8 DEF TimelineNext, Works

\* "neither work done nor the clock ever increases while moving backwards", of any
\* device whose own clock does not go back.
THEOREM BackwardsUndoesWorkCorrect ==
    ASSUME RunsTheExample, RecordWrites, NEW D, ClockRuns(D)
    PROVE  TimelineSpec => BackwardsUndoesWork
<1> DEFINE Back ==
      Answered /\ Answered' /\ answer'.snap.event_index <= answer.snap.event_index =>
         /\ answer'.snap.fw.consumed <= answer.snap.fw.consumed
         /\ answer'.snap.ts <= answer.snap.ts
<1>1. TInv /\ TimeInv(D) /\ TInv' /\ [TimelineNext]_allvars => [Back]_allvars
  <2> SUFFICES ASSUME TInv, TimeInv(D), TInv', [TimelineNext]_allvars, Answered, Answered',
                      answer'.snap.event_index <= answer.snap.event_index
               PROVE  /\ answer'.snap.fw.consumed <= answer.snap.fw.consumed
                      /\ answer'.snap.ts <= answer.snap.ts
    OBVIOUS
  <2>1. UNCHANGED <<path, trace, checkpoints, from>>
    BY AnsweredKeeps
  <2>2. phase # "record" /\ phase' # "record"
    BY DEF TInv, Answered, NoAnswer, NoSnapshot
  <2>3. PICK s, k, r, j : /\ s = answer.snap /\ k = answer.snap.event_index
                          /\ r = answer'.snap /\ j = answer'.snap.event_index
    OBVIOUS
  <2>4. Answers(s, k) /\ k <= LastEvents /\ k \in Nat
    BY <2>2, <2>3 DEF TInv, AnswerInv, Answered
  <2>5. Answers(r, j) /\ j \in Nat
    <3>1. Answers(r, j)' /\ j \in Nat
      <4>1. Answers(answer.snap, answer.snap.event_index)' /\ j \in Nat
        BY <2>2, <2>3 DEF TInv, AnswerInv, Answered
      <4> QED
        BY <2>3, <4>1
    <3> QED
      BY <2>1, <3>1, SameView
  <2>6. /\ PathInv /\ Recorded \in Firmware /\ CheckpointsInv
    BY <2>2 DEF TInv
  <2>7. Worth(j) <= Worth(k)
    BY <2>3, <2>4, <2>5, <2>6, WorthGrows
  <2>8. TimeAt(j) <= TimeAt(k)
    <3>1. k \in 0 .. Len(trace) /\ j \in 0 .. k /\ Len(trace) \in Nat
      BY <2>3, <2>4, <2>5, <2>6, EventsRecorded
    <3>2. CASE j = 0
      BY <3>1, <3>2 DEF TimeAt, TimeInv
    <3>3. CASE j # 0
      BY <3>1, <3>3 DEF TimeAt, TimeInv
    <3> QED
      BY <3>2, <3>3
  <2> QED
    BY <2>3, <2>4, <2>5, <2>7, <2>8 DEF Answers, Worth
<1>2. TimelineInit => TimeInv(D)
  BY TimeInvInit
<1>3. TInv /\ TimeInv(D) /\ [TimelineNext]_allvars => TimeInv(D)'
  BY TimeInvStep
<1>4. TimelineSpec => []TInv
  BY TInvCorrect
<1> QED
  BY <1>1, <1>2, <1>3, <1>4, PTL DEF TimelineSpec, BackwardsUndoesWork
================================================================================
