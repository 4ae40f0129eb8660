----------------------------- MODULE RecorderProofs ----------------------------
(****************************************************************************)
(* The recorder's clock, for every width of the counter, every pattern of   *)
(* gaps and every interleaving of the handler with the main loop's call: as *)
(* long as the samples come in order and less than a wrap apart the         *)
(* extended clock is exact, and with the main loop's calls alone no gap is  *)
(* called suspicious that is shorter than half a wrap.                      *)
(*                                                                          *)
(* ClockInv ties the clock to the last sample: what it last saw of the      *)
(* counter is that sample's remainder (InStep), late samples or not, and so *)
(* a true step of less than a wrap is told from the remainders alone        *)
(* (StepIs).  A sample is behind the last one only if a handler came        *)
(* between the read of the counter and the clock (Fresh), so it remains to  *)
(* follow the main loop's position through its call (MainShape).            *)
(*                                                                          *)
(* The writer and the ring, for every capacity of both: RecInv counts what  *)
(* they hold, keeps what a step of the call found to fit while no handler   *)
(* comes between (Fitting), and places the time in the call's hands between *)
(* the last one in the trace and the clock (Timely).  It needs of the       *)
(* writer's sink, a parameter of TraceWriter, that it is the ring           *)
(* (PushesToTheRing), and of the clock that it only moves forward           *)
(* (ExtendGrows), late samples or not.                                      *)
(*                                                                          *)
(* The trace, for as long as no handler has recorded inside the main loop's *)
(* call: TraceInv takes what the link has carried and what the ring still   *)
(* holds as one stream, and says that there are cuts of the recording such  *)
(* that every block in it holds its share and the writer the rest (Told)    *)
(* and, if nothing was refused, that the blocks lie one behind the other    *)
(* with nothing between (Whole).  What the host makes of the stream and     *)
(* what its reader hands out are recursive functions: that they exist, and  *)
(* what they return, is shown by induction on the set of the numbers for    *)
(* which it holds (SetInduction).                                           *)
(****************************************************************************)
EXTENDS Recorder, TraceProofs, WellFoundedInduction

\* The clock and the history of its samples.
InStep(c, s) ==
    /\ c \in [primed : BOOLEAN, last_raw : Int, wraps : Int, suspicious : Int]
    /\ s.long \in Int /\ s.base \in Int
    /\ s.seen \in Nat \cup {-1}
    /\ c.primed <=> s.seen # -1
    /\ ~c.primed => c.wraps = 0
    /\ c.primed => c.last_raw = s.seen % Wrap
    /\ c.primed /\ s.exact => s.base + Value(c) = s.seen

\* The main loop's position, and the call that waits behind a block.
Placed(m) ==
    /\ "at" \in DOMAIN m
    /\ m.at \in {"frame", "framed", "pushing", "pushed"} => "then" \in DOMAIN m
    /\ m.at = "append" \/ ("then" \in DOMAIN m /\ m.then = "append")
          => "call" \in DOMAIN m
    /\ m.at = "encoded" => "then" \notin DOMAIN m /\ "call" \notin DOMAIN m
    /\ "call" \in DOMAIN m =>
            /\ "at" \in DOMAIN m.call
            /\ "then" \notin DOMAIN m.call /\ "call" \notin DOMAIN m.call

MainShape ==
    /\ Placed(main)
    /\ main.at = "sampled" => main.time \in Nat /\ main.time <= time

\* No sample is behind the time, nor, with the main loop alone, the one in its hands.
Fresh ==
    /\ time \in Nat /\ samples.seen <= time
    /\ ~torn /\ main.at = "sampled" => samples.seen <= main.time

ClockInv ==
    /\ InStep(clock, samples)
    /\ MainShape
    /\ Fresh
    /\ ~torn => clock.suspicious <= samples.long

--------------------------------------------------------------------------------

\* The wrap is a positive number.
LEMMA WrapIs == Wrap \in Nat \ {0} /\ Half \in Int /\ 2 * Half = Wrap
BY WrapAssumption DEF Half

\* Quotient and remainder.
LEMMA QuotientAndRemainder ==
    ASSUME NEW a \in Int
    PROVE  \E q \in Int : a = Wrap * q + (a % Wrap) /\ a % Wrap \in 0 .. Wrap - 1
<1>1. a = Wrap * (a \div Wrap) + (a % Wrap) /\ a % Wrap \in 0 .. Wrap - 1
      /\ a \div Wrap \in Int
  BY WrapIs
<1> QED
  BY <1>1

\* A step of less than a wrap shows in the remainders.
LEMMA StepIs ==
    ASSUME NEW s \in Nat, NEW t \in Nat, s <= t,
           NEW u, u = s % Wrap, NEW v, v = t % Wrap
    PROVE  /\ v - u <= t - s
           /\ t - s < Wrap => t - s = v - u + (IF v < u THEN Wrap ELSE 0)
<1>1. PICK q \in Int : s = Wrap * q + (s % Wrap) /\ s % Wrap \in 0 .. Wrap - 1
  BY QuotientAndRemainder
<1>2. PICK p \in Int : t = Wrap * p + (t % Wrap) /\ t % Wrap \in 0 .. Wrap - 1
  BY QuotientAndRemainder
<1> DEFINE d == p - q
<1>3. /\ Wrap \in Nat \ {0} /\ u \in 0 .. Wrap - 1 /\ v \in 0 .. Wrap - 1
      /\ d \in Int /\ t - s = Wrap * d + (v - u)
  <2>1. Wrap \in Nat \ {0} /\ u \in 0 .. Wrap - 1 /\ v \in 0 .. Wrap - 1
    BY <1>1, <1>2, WrapIs
  <2>2. s = Wrap * q + u /\ t = Wrap * p + v
    BY <1>1, <1>2
  <2>3. Wrap \in Int /\ u \in Int /\ v \in Int /\ q \in Int /\ p \in Int
    BY <1>1, <1>2, <2>1
  <2>4. /\ Wrap * (p - q) = Wrap * p - Wrap * q
        /\ Wrap * p \in Int /\ Wrap * q \in Int /\ p - q \in Int
    BY ONLY <2>3
  <2>5. t - s = Wrap * (p - q) + (v - u)
    BY ONLY <2>2, <2>3, <2>4
  <2> QED
    BY ONLY <2>1, <2>4, <2>5 DEF d
<1> HIDE DEF d
<1>4. d >= 0
  <2> SUFFICES ASSUME d <= -1 PROVE FALSE
    BY <1>3
  <2>1. Wrap * d <= -Wrap
    BY <1>3
  <2> QED
    BY <1>3, <2>1
<1>5. Wrap * d >= 0
  BY <1>3, <1>4
<1>6. ASSUME t - s < Wrap PROVE t - s = v - u + (IF v < u THEN Wrap ELSE 0)
  <2>1. CASE d = 0
    <3>1. Wrap * d = 0
      BY <1>3, <2>1
    <3> QED
      BY <1>3, <3>1
  <2>2. CASE d = 1
    <3>1. Wrap * d = Wrap
      BY <1>3, <2>2
    <3> QED
      BY <1>3, <1>6, <3>1
  <2>3. CASE d >= 2
    <3>1. Wrap * d >= 2 * Wrap
      BY <1>3, <2>3
    <3> QED
      BY <1>3, <1>6, <3>1
  <2> QED
    BY <1>3, <1>4, <2>1, <2>2, <2>3
<1> QED
  BY <1>3, <1>5, <1>6

\* One sample more.  It is suspicious without being long only if it is late.
LEMMA SampleInStep ==
    ASSUME NEW c, NEW s, InStep(c, s), NEW t \in Nat
    PROVE  LET d == Extend(c, t % Wrap)
               r == Sampled(s, t)
           IN /\ InStep(d, r) /\ r.seen = t /\ d.primed
              /\ s.seen <= t =>
                    d.suspicious - c.suspicious <= r.long - s.long
              /\ d.suspicious \in Int /\ r.long \in Int
<1> DEFINE raw == t % Wrap
           d == Extend(c, raw)
           r == Sampled(s, t)
<1>1. Wrap \in Nat \ {0} /\ raw \in 0 .. Wrap - 1 /\ Half \in Int
  BY WrapIs
<1>2. CASE ~c.primed
  <2>1. s.seen = -1 /\ c.wraps = 0
    BY <1>2 DEF InStep
  <2>2. d = [primed |-> TRUE, last_raw |-> raw, wraps |-> 0,
             suspicious |-> c.suspicious]
    BY <1>2, <2>1 DEF Extend, InStep
  <2>3. r.seen = t /\ r.base = t - raw /\ r.long = s.long
    BY <2>1 DEF Sampled, InStep
  <2>4. raw = t % Wrap
    OBVIOUS
  <2> HIDE DEF d, r, raw
  <2>5. Value(d) = raw
    BY <1>1, <2>2 DEF Value
  <2>6. /\ d.primed = TRUE /\ d.last_raw = raw /\ d.wraps = 0
        /\ d.suspicious \in Int /\ r.long \in Int /\ raw \in Int
    BY <1>1, <2>2, <2>3 DEF InStep
  <2>7. r.base \in Int /\ r.base + Value(d) = r.seen
    BY <2>3, <2>5, <2>6
  <2>8. d \in [primed : BOOLEAN, last_raw : Int, wraps : Int, suspicious : Int]
    BY <1>1, <2>2 DEF InStep
  <2>9. InStep(d, r)
    BY <2>3, <2>4, <2>6, <2>7, <2>8 DEF InStep
  <2> QED
    BY <1>2, <2>1, <2>2, <2>3, <2>6, <2>9 DEF InStep, d, r, raw
<1>3. CASE c.primed
  <2> DEFINE wrapped == IF raw < c.last_raw THEN 1 ELSE 0
             doubt == IF raw - c.last_raw >= Half THEN 1 ELSE 0
             far == IF t - s.seen >= Half THEN 1 ELSE 0
             close == s.exact /\ t - s.seen \in 0 .. Wrap - 1
  <2>1. s.seen \in Nat /\ c.last_raw = s.seen % Wrap
    BY <1>3 DEF InStep
  <2>2. d = [primed |-> TRUE, last_raw |-> raw, wraps |-> c.wraps + wrapped,
             suspicious |-> c.suspicious + doubt]
    BY <1>3 DEF Extend, InStep
  <2>3. /\ r.seen = t /\ r.base = s.base /\ r.long = s.long + far
        /\ r.exact => close
    <3>1. r.seen = t /\ r.base = s.base /\ r.long = s.long + far
      BY <2>1 DEF Sampled
    <3>2. r.exact = (s.exact /\ (s.seen = -1 \/ t - s.seen \in 0 .. Wrap - 1))
      BY DEF Sampled
    <3>3. s.seen # -1
      BY <2>1
    <3> QED
      BY <3>1, <3>2, <3>3, Zenon
  <2>4. wrapped \in {0, 1} /\ doubt \in {0, 1} /\ far \in {0, 1}
    OBVIOUS
  <2>5. ASSUME s.seen <= t PROVE doubt <= far
    <3>1. raw - c.last_raw <= t - s.seen
      <4> HIDE DEF raw
      <4>1. raw = t % Wrap
        BY DEF raw
      <4> QED
        BY ONLY <2>1, <2>5, <4>1, StepIs, t \in Nat
    <3> HIDE DEF raw
    <3> QED
      BY <1>1, <2>1, <3>1 DEF InStep
  <2>6. ASSUME close PROVE s.base + ((c.wraps + wrapped) * Wrap + raw) = t
    <3>1. /\ c.wraps \in Int /\ s.base \in Int /\ c.last_raw \in Int
          /\ Wrap \in Int /\ raw \in Int /\ s.seen \in Int
      BY <1>1, <2>1 DEF InStep
    <3>2. c.wraps * Wrap \in Int
      BY <3>1
    <3>3. s.base + (c.wraps * Wrap + c.last_raw) = s.seen
      BY <1>3, <2>6 DEF InStep, Value
    <3>4. t - s.seen = raw - c.last_raw + (IF raw < c.last_raw THEN Wrap ELSE 0)
      <4> HIDE DEF raw
      <4>1. raw = t % Wrap
        BY DEF raw
      <4>2. s.seen <= t /\ t - s.seen < Wrap
        BY <1>1, <2>1, <2>6
      <4> QED
        BY ONLY <2>1, <4>1, <4>2, StepIs, t \in Nat
    <3>5. CASE raw < c.last_raw
      <4>1. wrapped = 1
        BY <3>5
      <4>2. (c.wraps + 1) * Wrap = c.wraps * Wrap + Wrap
        BY ONLY <3>1
      <4> HIDE DEF raw, wrapped, close
      <4> QED
        BY ONLY <3>1, <3>2, <3>3, <3>4, <3>5, <4>1, <4>2, t \in Nat
    <3>6. CASE ~(raw < c.last_raw)
      <4>1. c.wraps + wrapped = c.wraps
        BY <3>1, <3>6
      <4> HIDE DEF raw, wrapped, close
      <4>2. (c.wraps + wrapped) * Wrap = c.wraps * Wrap
        BY ONLY <4>1, Zenon
      <4>3. t - s.seen = raw - c.last_raw
        BY ONLY <3>1, <3>4, <3>6, t \in Nat
      <4>4. s.base + (c.wraps * Wrap + raw) = t
        BY ONLY <3>1, <3>2, <3>3, <4>3, t \in Nat
      <4> QED
        BY ONLY <4>2, <4>4, Zenon
    <3> QED
      BY <3>5, <3>6
  <2>7. raw = t % Wrap
    OBVIOUS
  <2> HIDE DEF d, r, raw, wrapped, doubt, far, close
  <2>8. InStep(d, r)
    <3>1. d.primed = TRUE /\ r.seen = t /\ d.last_raw = raw /\ r.base = s.base
      BY <2>2, <2>3
    <3>2. d.wraps \in Int /\ d.suspicious \in Int /\ r.long \in Int /\ s.base \in Int
      BY <2>2, <2>3, <2>4 DEF InStep
    <3>3. r.exact => close
      BY <2>3
    <3>4. r.exact => r.base + Value(d) = r.seen
      <4>1. Value(d) = (c.wraps + wrapped) * Wrap + raw
        BY <2>2 DEF Value
      <4>2. (c.wraps + wrapped) * Wrap \in Int
        BY <1>1, <2>4 DEF InStep
      <4> QED
        BY <1>1, <2>6, <3>1, <3>2, <3>3, <4>1, <4>2
    <3> QED
      BY <1>1, <2>2, <2>3, <2>7, <3>1, <3>2, <3>4 DEF InStep
  <2>9. s.seen <= t => d.suspicious - c.suspicious <= r.long - s.long
    BY <2>2, <2>3, <2>4, <2>5 DEF InStep
  <2> QED
    BY <2>2, <2>3, <2>8, <2>9 DEF d, r, raw, InStep
<1> QED
  BY <1>2, <1>3 DEF InStep

--------------------------------------------------------------------------------

\* Recording starts with no sample taken.
LEMMA InitClock == RecInit => ClockInv
<1> SUFFICES ASSUME RecInit PROVE ClockInv
  OBVIOUS
<1>1. /\ clock = NewClock /\ main = NoCall /\ ~torn
      /\ samples = [seen |-> -1, base |-> 0, exact |-> TRUE, long |-> 0]
  BY DEF RecInit
<1>2. time \in Nat
  BY RecorderAssumption, WrapAssumption DEF RecInit
<1>3. InStep(clock, samples)
  BY <1>1 DEF InStep, NewClock
<1>4. MainShape
  BY <1>1 DEF MainShape, Placed, NoCall
<1>5. Fresh
  BY <1>1, <1>2 DEF Fresh, NoCall
<1>6. clock.suspicious <= samples.long
  BY <1>1 DEF NewClock
<1> QED
  BY <1>3, <1>4, <1>5, <1>6 DEF ClockInv

\* A step that takes no sample and leaves the clock alone, as most do.
LEMMA Elsewhere ==
    ASSUME ClockInv, UNCHANGED <<time, clock, torn, samples>>,
           Placed(main'), main'.at # "sampled"
    PROVE  ClockInv'
<1>1. InStep(clock, samples)'
  BY DEF ClockInv, InStep, Value
<1>2. MainShape' /\ Fresh'
  BY DEF ClockInv, MainShape, Fresh, Placed
<1> QED
  BY <1>1, <1>2 DEF ClockInv

\* The counter is read.
LEMMA SampleClock == ClockInv /\ Sample => ClockInv'
<1> SUFFICES ASSUME ClockInv, Sample PROVE ClockInv'
  OBVIOUS
<1>1. time' \in Nat /\ time' > time /\ samples.seen <= time /\ time \in Nat
  BY RecorderAssumption DEF Sample, ClockInv, Fresh
<1>2. PICK what : main' = [at |-> "sampled", what |-> what, time |-> time']
  BY DEF Sample
<1>3. UNCHANGED <<clock, torn, samples>>
  BY DEF Sample
<1>4. InStep(clock, samples)'
  BY <1>3 DEF ClockInv, InStep, Value
<1>5. MainShape'
  BY <1>1, <1>2 DEF MainShape, Placed
<1>6. samples.seen \in Int
  BY DEF ClockInv, InStep
<1>7. Fresh'
  BY <1>1, <1>2, <1>3, <1>6 DEF Fresh
<1> QED
  BY <1>3, <1>4, <1>5, <1>7 DEF ClockInv

\* The sample in the main loop's hands reaches the clock.
LEMMA StampClock == ClockInv /\ Stamp => ClockInv'
<1> SUFFICES ASSUME ClockInv, Stamp PROVE ClockInv'
  OBVIOUS
<1>1. /\ main.at = "sampled" /\ time' = time /\ torn' = torn
      /\ clock' = Extend(clock, main.time % Wrap)
      /\ samples' = Sampled(samples, main.time)
      /\ main' = [at |-> "stamped", what |-> main.what, ts |-> Value(clock')]
  BY DEF Stamp
<1>2. main.time \in Nat /\ main.time <= time /\ time \in Nat
  BY <1>1 DEF ClockInv, MainShape, Fresh
<1>3. InStep(clock, samples)
  BY DEF ClockInv
<1>4. /\ InStep(clock', samples') /\ samples'.seen = main.time
      /\ samples.seen <= main.time =>
            clock'.suspicious - clock.suspicious <= samples'.long - samples.long
      /\ clock'.suspicious \in Int /\ samples'.long \in Int
  BY ONLY <1>1, <1>2, <1>3, SampleInStep
<1>5. InStep(clock, samples)'
  BY <1>4 DEF InStep, Value
<1>6. MainShape'
  BY <1>1 DEF MainShape, Placed
<1>7. Fresh'
  BY <1>1, <1>2, <1>4 DEF Fresh
<1>8. ~torn' => clock'.suspicious <= samples'.long
  BY <1>1, <1>3, <1>4 DEF ClockInv, Fresh, InStep
<1> QED
  BY <1>5, <1>6, <1>7, <1>8 DEF ClockInv

\* What a handler's call of the writer does to the clock and its samples.
LEMMA AtomicClock ==
    ASSUME NEW state, InStep(state.clock, state.samples), NEW t \in Nat,
           NEW call, NEW o \in Atomic(state, t, call)
    PROVE  /\ InStep(o.clock, o.samples) /\ o.samples.seen = t
           /\ state.samples.seen <= t =>
                 o.clock.suspicious - state.clock.suspicious
                    <= o.samples.long - state.samples.long
           /\ o.clock.suspicious \in Int /\ o.samples.long \in Int
<1>1. o.clock = Extend(state.clock, t % Wrap) /\ o.samples = Sampled(state.samples, t)
  BY DEF Atomic
<1> QED
  BY ONLY <1>1, InStep(state.clock, state.samples), t \in Nat, SampleInStep

\* A handler samples the counter twice; where the main loop is it stays.
LEMMA HandlerClock == ClockInv /\ Handler => ClockInv'
<1> SUFFICES ASSUME ClockInv, Handler PROVE ClockInv'
  OBVIOUS
<1>1. PICK gap \in Gaps : time' = time + gap + 1
  BY DEF Handler
<1>2. time \in Nat /\ samples.seen <= time /\ gap \in Nat \ {0}
  BY RecorderAssumption DEF ClockInv, Fresh
<1> DEFINE t == time' - 1
<1>3. t \in Nat /\ time' \in Nat /\ samples.seen \in Int /\ samples.seen <= t /\ t <= time'
  BY <1>1, <1>2 DEF ClockInv, InStep
<1>4. PICK sink : \E s \in Atomic([clock |-> clock, samples |-> samples, w |-> writer,
                                   recorded |-> recorded, sink |-> sink],
                                  t, IrqEvent(0, 1)) :
          \E o \in Atomic(s, time', ReadEvent(0, 5)) :
             clock' = o.clock /\ samples' = o.samples
  BY DEF Handler
<1> DEFINE now == [clock |-> clock, samples |-> samples, w |-> writer,
                   recorded |-> recorded, sink |-> sink]
<1>5. PICK s \in Atomic(now, t, IrqEvent(0, 1)) :
          \E o \in Atomic(s, time', ReadEvent(0, 5)) :
             clock' = o.clock /\ samples' = o.samples
  BY <1>4
<1>6. PICK o \in Atomic(s, time', ReadEvent(0, 5)) :
          clock' = o.clock /\ samples' = o.samples
  BY <1>5
<1>7. now.clock = clock /\ now.samples = samples /\ InStep(now.clock, now.samples)
  BY DEF ClockInv
<1> HIDE DEF t, now
<1>8. /\ InStep(s.clock, s.samples) /\ s.samples.seen = t
      /\ samples.seen <= t =>
            s.clock.suspicious - clock.suspicious <= s.samples.long - samples.long
      /\ s.clock.suspicious \in Int /\ s.samples.long \in Int
  BY ONLY <1>3, <1>5, <1>7, AtomicClock
<1>9. /\ InStep(o.clock, o.samples) /\ o.samples.seen = time'
      /\ s.samples.seen <= time' =>
            o.clock.suspicious - s.clock.suspicious <= o.samples.long - s.samples.long
      /\ o.clock.suspicious \in Int /\ o.samples.long \in Int
  BY ONLY <1>3, <1>6, <1>8, AtomicClock
<1>10. InStep(clock, samples)'
  BY <1>6, <1>9 DEF InStep, Value
<1>11. main' = main \/ (main.at = "pushing" /\ \E n : main' = [main EXCEPT !.copied = n])
  BY DEF Handler
<1>12. /\ DOMAIN main' = DOMAIN main
       /\ \A f \in DOMAIN main : f # "copied" => main'[f] = main[f]
  BY <1>11
<1>13. Placed(main') /\ main'.at = main.at
  BY <1>12 DEF ClockInv, MainShape, Placed
<1>14. torn' <=> torn \/ main.at # "idle"
  BY DEF Handler
<1>15. main.at = "sampled" => main' = main
  BY <1>11
<1>16. MainShape'
  BY <1>1, <1>2, <1>13, <1>15 DEF ClockInv, MainShape
<1>17. Fresh'
  BY <1>3, <1>6, <1>9, <1>13, <1>14 DEF Fresh
<1>18. ~torn' => clock'.suspicious <= samples'.long
  <2> SUFFICES ASSUME ~torn' PROVE clock'.suspicious <= samples'.long
    OBVIOUS
  <2>1. clock.suspicious <= samples.long /\ clock.suspicious \in Int /\ samples.long \in Int
    BY <1>14 DEF ClockInv, InStep
  <2> QED
    BY ONLY <1>3, <1>6, <1>8, <1>9, <2>1
<1> QED
  BY <1>10, <1>16, <1>17, <1>18 DEF ClockInv

--------------------------------------------------------------------------------
(* The rest of the main loop's call, and the consumer, leave the clock alone.  *)

\* The clock, the time and the samples as they were.
Untouched == UNCHANGED <<time, clock, torn, samples>>

\* After a call of the writer the main loop is where AfterWrite puts it.
LEMMA AfterWritePlaced ==
    ASSUME NEW w, NEW what
    PROVE  Placed(AfterWrite(w, what)) /\ AfterWrite(w, what).at # "sampled"
BY DEF AfterWrite, NoCall, Flushing, Placed

\* A record of some fields more is at the place it is put at.
LEMMA EncodeClock == ClockInv /\ Encode => ClockInv'
<1> SUFFICES ASSUME ClockInv, Encode PROVE ClockInv'
  OBVIOUS
<1>1. Untouched
  BY DEF Encode, Untouched
<1>2. \/ \E w, what : main' = AfterWrite(w, what)
      \/ \E what, ev, encoded :
            main' = [at |-> "encoded", what |-> what, ev |-> ev, encoded |-> encoded]
  BY DEF Encode
<1>3. Placed(main') /\ main'.at # "sampled"
  <2>1. CASE \E w, what : main' = AfterWrite(w, what)
    BY <2>1, AfterWritePlaced
  <2>2. CASE \E what, ev, encoded :
            main' = [at |-> "encoded", what |-> what, ev |-> ev, encoded |-> encoded]
    BY <2>2 DEF Placed
  <2> QED
    BY <1>2, <2>1, <2>2
<1> QED
  BY <1>1, <1>3, Elsewhere DEF Untouched

\* The call waits behind a block, or goes on.
LEMMA RoomClock == ClockInv /\ Room => ClockInv'
<1> SUFFICES ASSUME ClockInv, Room PROVE ClockInv'
  OBVIOUS
<1>1. Untouched
  BY DEF Room, Untouched
<1>2. "at" \in DOMAIN main /\ "then" \notin DOMAIN main /\ "call" \notin DOMAIN main
  BY DEF ClockInv, MainShape, Placed, Room
<1>3. \/ main' = [at |-> "frame", then |-> "append", call |-> main]
      \/ main' = [at |-> "append", call |-> main]
  BY DEF Room
<1>4. Placed(main') /\ main'.at # "sampled"
  BY <1>2, <1>3 DEF Placed
<1> QED
  BY <1>1, <1>4, Elsewhere DEF Untouched

\* Fields added to a place on the way to the sink, or taken from it: what the call
\* waits for stays.
LEMMA OnTheWay ==
    ASSUME NEW m, Placed(m), "then" \in DOMAIN m, NEW n, "at" \in DOMAIN n,
           n.at \in {"framed", "pushing", "pushed"},
           "then" \in DOMAIN n, n.then = m.then,
           "call" \in DOMAIN n <=> "call" \in DOMAIN m,
           "call" \in DOMAIN m => n.call = m.call
    PROVE  Placed(n) /\ n.at # "sampled"
BY DEF Placed

\* So a call that is advanced on the way to the sink is placed.
LEMMA AdvancedPlaced ==
    ASSUME NEW m, Placed(m), "then" \in DOMAIN m, NEW fields,
           "at" \in DOMAIN fields, fields.at \in {"framed", "pushing", "pushed"},
           "then" \notin DOMAIN fields, "call" \notin DOMAIN fields
    PROVE  Placed(Advanced(m, fields)) /\ Advanced(m, fields).at # "sampled"
<1> DEFINE n == Advanced(m, fields)
<1>1. /\ DOMAIN n = DOMAIN m \cup DOMAIN fields
      /\ n.at = fields.at /\ n.then = m.then
      /\ "call" \in DOMAIN m => n.call = m.call
  BY DEF Advanced
<1> HIDE DEF n
<1>2. Placed(n) /\ n.at # "sampled"
  BY <1>1, OnTheWay
<1> QED
  BY <1>2 DEF n

\* A restriction that keeps place and call is placed.
LEMMA RestrictPlaced ==
    ASSUME NEW m, Placed(m), m.at \in {"framed", "pushing"}, NEW S,
           {"at", "then", "call"} \cap S = {}
    PROVE  LET n == Restrict(m, DOMAIN m \ S)
           IN Placed(n) /\ "then" \in DOMAIN n
<1> DEFINE n == Restrict(m, DOMAIN m \ S)
<1>1. "at" \in DOMAIN m /\ "then" \in DOMAIN m
  BY DEF Placed
<1>2. /\ DOMAIN n = DOMAIN m \ S
      /\ n.at = m.at /\ n.then = m.then
      /\ "call" \in DOMAIN m => n.call = m.call
  BY <1>1 DEF Restrict
<1> HIDE DEF n
<1>3. Placed(n) /\ "then" \in DOMAIN n
  BY <1>1, <1>2 DEF Placed
<1> QED
  BY <1>3 DEF n

\* The frame is taken.
LEMMA FrameClock == ClockInv /\ Frame => ClockInv'
<1> SUFFICES ASSUME ClockInv, Frame PROVE ClockInv'
  OBVIOUS
<1>1. Untouched
  BY DEF Frame, Untouched
<1>2. Placed(main) /\ "then" \in DOMAIN main
  BY DEF Frame, ClockInv, MainShape, Placed
<1>3. main' = Advanced(main, [at |-> "framed", seq |-> writer.block_seq,
                              frame |-> writer.staged])
  BY DEF Frame
<1>4. Placed(main') /\ main'.at # "sampled"
  BY <1>2, <1>3, AdvancedPlaced
<1> QED
  BY <1>1, <1>4, Elsewhere DEF Untouched

\* A push starts, or is refused.
LEMMA StartPushPlaced ==
    ASSUME NEW piece, NEW m, Placed(m), "then" \in DOMAIN m, StartPush(piece, m)
    PROVE  Placed(main') /\ main'.at # "sampled"
<1>1. \/ main' = Advanced(m, [at |-> "pushing", piece |-> piece,
                              head |-> ring.head, copied |-> 0])
      \/ main' = Advanced(m, [at |-> "pushed", taken |-> FALSE])
  BY DEF StartPush
<1> QED
  BY <1>1, AdvancedPlaced

\* The block goes to the sink.
LEMMA PushBlockClock == ClockInv /\ PushBlock => ClockInv'
<1> SUFFICES ASSUME ClockInv, PushBlock PROVE ClockInv'
  OBVIOUS
<1>1. Untouched
  BY DEF PushBlock, Untouched
<1> DEFINE m == Restrict(main, DOMAIN main \ {"seq", "frame"})
<1>2. Placed(m) /\ "then" \in DOMAIN m
  BY RestrictPlaced DEF PushBlock, ClockInv, MainShape
<1>3. PICK piece : StartPush(piece, m)
  BY DEF PushBlock
<1> HIDE DEF m
<1>4. Placed(main') /\ main'.at # "sampled"
  BY <1>2, <1>3, StartPushPlaced
<1> QED
  BY <1>1, <1>4, Elsewhere DEF Untouched

\* The terminator goes to the sink.
LEMMA PushEndClock == ClockInv /\ PushEnd => ClockInv'
<1> SUFFICES ASSUME ClockInv, PushEnd PROVE ClockInv'
  OBVIOUS
<1>1. Untouched
  BY DEF PushEnd, Untouched
<1> DEFINE m == [at |-> "end", then |-> "over"]
<1>2. Placed(m) /\ "then" \in DOMAIN m
  BY DEF Placed
<1>3. StartPush(EndPiece, m)
  BY DEF PushEnd
<1> HIDE DEF m
<1>4. Placed(main') /\ main'.at # "sampled"
  BY <1>2, <1>3, StartPushPlaced
<1> QED
  BY <1>1, <1>4, Elsewhere DEF Untouched

\* The piece is in the ring.
LEMMA PublishClock == ClockInv /\ PublishPiece => ClockInv'
<1> SUFFICES ASSUME ClockInv, PublishPiece PROVE ClockInv'
  OBVIOUS
<1>1. Untouched
  BY DEF PublishPiece, Untouched
<1> DEFINE m == Restrict(main, DOMAIN main \ {"piece", "head", "copied"})
<1>2. Placed(m) /\ "then" \in DOMAIN m
  BY RestrictPlaced DEF PublishPiece, ClockInv, MainShape
<1>3. main' = Advanced(m, [at |-> "pushed", taken |-> TRUE])
  BY DEF PublishPiece
<1> HIDE DEF m
<1>4. Placed(main') /\ main'.at # "sampled"
  BY <1>2, <1>3, AdvancedPlaced
<1> QED
  BY <1>1, <1>4, Elsewhere DEF Untouched

\* The block is spent, the event staged, the call over, recording stopped.
LEMMA LaterClock ==
    ClockInv /\ (Spend \/ AppendEvent \/ Commit \/ Stopped) => ClockInv'
<1> SUFFICES ASSUME ClockInv, Spend \/ AppendEvent \/ Commit \/ Stopped
             PROVE  ClockInv'
  OBVIOUS
<1>1. Untouched
  BY DEF Spend, AppendEvent, Commit, Stopped, Untouched
<1>2. Placed(main)
  BY DEF ClockInv, MainShape
<1>3. CASE Spend
  <2>1. \/ main' = [at |-> "append", call |-> main.call] /\ main.then = "append"
        \/ main' = [at |-> "end"]
    BY <1>3 DEF Spend
  <2>2. main.at = "pushed"
    BY <1>3 DEF Spend
  <2> QED
    BY <1>1, <1>2, <2>1, <2>2, Elsewhere DEF Placed, Untouched
<1>4. CASE AppendEvent
  <2>1. main.at = "append" /\ main' = [main.call EXCEPT !.at = "appended"]
    BY <1>4 DEF AppendEvent
  <2>2. /\ "at" \in DOMAIN main.call
        /\ "then" \notin DOMAIN main.call /\ "call" \notin DOMAIN main.call
    BY <1>2, <2>1 DEF Placed
  <2>3. Placed(main') /\ main'.at # "sampled"
    BY <2>1, <2>2 DEF Placed
  <2> QED
    BY <1>1, <2>3, Elsewhere DEF Untouched
<1>5. CASE Commit
  <2>1. main' = AfterWrite(writer', main.what)
    BY <1>5 DEF Commit
  <2> QED
    BY <1>1, <2>1, AfterWritePlaced, Elsewhere DEF Untouched
<1>6. CASE Stopped
  <2>1. main' = NoCall
    BY <1>6 DEF Stopped
  <2> QED
    BY <1>1, <2>1, Elsewhere DEF NoCall, Placed, Untouched
<1> QED
  BY <1>3, <1>4, <1>5, <1>6

\* A chunk, the start and the end of a drain, and a stutter leave the main loop
\* where it is.
LEMMA AsideClock ==
    ClockInv /\ (Consumer \/ UNCHANGED recvars) => ClockInv'
<1> SUFFICES ASSUME ClockInv, Consumer \/ UNCHANGED recvars PROVE ClockInv'
  OBVIOUS
<1>1. UNCHANGED <<time, clock, torn, samples, main>>
  BY DEF Consumer, StartDrain, DrainChunk, DrainReturns, recvars
<1> QED
  BY <1>1 DEF ClockInv, InStep, Value, MainShape, Placed, Fresh

\* Every step keeps the invariant.
LEMMA NextClock == ClockInv /\ [RecNext]_recvars => ClockInv'
<1> SUFFICES ASSUME ClockInv, [RecNext]_recvars PROVE ClockInv'
  OBVIOUS
<1> QED
  BY SampleClock, StampClock, EncodeClock, RoomClock, FrameClock, PushBlockClock,
     PushEndClock, PublishClock, LaterClock, HandlerClock, AsideClock
     DEF RecNext, MainStep

\* ClockInv always holds.
LEMMA ClockInvariance == RecSpec => []ClockInv
BY InitClock, NextClock, PTL DEF RecSpec

\* clock.h's "the extension is exact": whatever the wrap, the gaps and the
\* interleaving, extend() of clock.cpp tells the time of the last sample as long as
\* the samples came in order and less than a wrap apart.
THEOREM ClockCorrect == RecSpec => []ClockIsExact
<1>1. ClockInv => ClockIsExact
  BY DEF ClockInv, InStep, ClockIsExact
<1> QED
  BY <1>1, ClockInvariance, PTL

\* suspicious() of clock.cpp raises no false alarm as long as no handler samples
\* the counter inside the main loop's call: what it has counted are gaps of half a
\* wrap or more.
THEOREM SuspicionCorrect == RecSpec => []SuspicionIsFounded
<1>1. ClockInv => SuspicionIsFounded
  BY DEF ClockInv, SuspicionIsFounded
<1> QED
  BY <1>1, ClockInvariance, PTL

--------------------------------------------------------------------------------
(* The writer, the ring and the times the main loop carries.                 *)

\* What a cfg says by its substitution: the writer's sink is the ring.
PushesToTheRing == \A r, piece : Offer(r, piece) = SinkPush(r, piece)

\* A sequence, of whatever elements.
IsSeq(s) == s \in Seq({s[i] : i \in 1 .. Len(s)})

\* The fields of the writer.
IsWriter(w) ==
    /\ w = [started |-> w.started, finished |-> w.finished, ok |-> w.ok, err |-> w.err,
            staged |-> w.staged, used |-> w.used, last_ts |-> w.last_ts,
            last_addr |-> w.last_addr, block_seq |-> w.block_seq,
            blocks_lost |-> w.blocks_lost, events |-> w.events]
    /\ IsSeq(w.staged) /\ w.used \in Nat /\ w.events \in Nat

\* The ring holds what is between its counters.
IsRing(r) ==
    /\ r = [store |-> r.store, head |-> r.head, tail |-> r.tail, drops |-> r.drops]
    /\ r.head \in Nat /\ r.tail \in Nat /\ r.tail <= r.head

\* What the main loop does while it drains, and behind stop().
Alone ==
    /\ phase \in {"run", "drain", "over"}
    /\ phase # "run" => main.at = "idle"
    /\ drain.on => main.at = "idle"
    /\ drain = [on |-> drain.on, sent |-> drain.sent] /\ drain.sent \in Nat

\* The counters of writer and ring, and what they count.
Counted ==
    /\ IsWriter(writer) /\ IsRing(ring)
    /\ IsSeq(recorded) /\ writer.events = Len(recorded)
    /\ IsSeq(received) /\ Len(received) = ring.tail

\* With no handler in the call, what was found to fit still fits.
Fitting ==
    /\ main.at = "pushing" => "piece" \in DOMAIN main /\ PieceLen(main.piece) \in Nat
    /\ ~torn =>
          /\ UsedUnits(ring) <= Cap /\ writer.used <= PayloadCap
          /\ main.at = "append" => writer.used + 1 <= PayloadCap
          /\ main.at = "pushing" => PieceLen(main.piece) <= Cap - UsedUnits(ring)

\* The time in the hands of a call m lies between lo and hi.
Between(lo, t, hi) == t \in Int /\ lo <= t /\ t <= hi
CarriesEvent(m, lo, hi) == "ev" \in DOMAIN m /\ Between(lo, m.ev.ts, hi)
Carries(m, lo, hi) ==
    /\ m.at = "idle" => "call" \notin DOMAIN m
    /\ m.at = "stamped" => "ts" \in DOMAIN m /\ Between(lo, m.ts, hi)
    /\ m.at \in {"encoded", "appended"} => CarriesEvent(m, lo, hi)
    /\ "call" \in DOMAIN m => CarriesEvent(m.call, lo, hi)

\* The trace is not ahead of the clock, nor behind what is to be recorded.
Timely ==
    /\ ~clock.primed => clock.last_raw = 0
    /\ ~torn =>
          /\ Between(writer.last_ts, writer.last_ts, Value(clock)) /\ Value(clock) \in Int
          /\ writer.err # "non-monotonic timestamp"
          /\ Carries(main, writer.last_ts, Value(clock))

\* The invariant that goes with ClockInv.
RecInv == Alone /\ Counted /\ Fitting /\ Timely

\* A sequence with an element more, and two sequences one behind the other.
LEMMA SeqFacts ==
    ASSUME NEW s, IsSeq(s)
    PROVE  /\ Len(s) \in Nat
           /\ \A e : IsSeq(Append(s, e)) /\ Len(Append(s, e)) = Len(s) + 1
           /\ \A t : IsSeq(t) => IsSeq(s \o t) /\ Len(s \o t) = Len(s) + Len(t)
<1>1. Len(s) \in Nat
  BY DEF IsSeq
<1>2. ASSUME NEW e
      PROVE  IsSeq(Append(s, e)) /\ Len(Append(s, e)) = Len(s) + 1
  <2> DEFINE S == {s[i] : i \in 1 .. Len(s)} \cup {e}
             t == Append(s, e)
  <2>1. s \in Seq(S)
    BY DEF IsSeq
  <2>2. t \in Seq(S) /\ Len(t) = Len(s) + 1
    BY <2>1
  <2> HIDE DEF t, S
  <2>3. IsSeq(t)
    BY <2>2 DEF IsSeq
  <2> QED
    BY <2>2, <2>3 DEF t
<1>3. ASSUME NEW t, IsSeq(t)
      PROVE  IsSeq(s \o t) /\ Len(s \o t) = Len(s) + Len(t)
  <2> DEFINE S == {s[i] : i \in 1 .. Len(s)} \cup {t[i] : i \in 1 .. Len(t)}
             u == s \o t
  <2>1. s \in Seq(S) /\ t \in Seq(S)
    BY <1>3 DEF IsSeq
  <2>2. u \in Seq(S) /\ Len(u) = Len(s) + Len(t)
    BY <2>1
  <2> HIDE DEF u, S
  <2>3. IsSeq(u)
    BY <2>2 DEF IsSeq
  <2> QED
    BY <2>2, <2>3 DEF u
<1> QED
  BY <1>1, <1>2, <1>3

\* A sample takes the clock forward.
LEMMA ExtendGrows ==
    ASSUME NEW c, NEW s, InStep(c, s), ~c.primed => c.last_raw = 0, NEW t \in Nat
    PROVE  LET d == Extend(c, t % Wrap)
           IN d.primed /\ Value(c) \in Int /\ Value(d) \in Int /\ Value(c) <= Value(d)
<1> DEFINE raw == t % Wrap
           d == Extend(c, raw)
<1>1. /\ Wrap \in Nat \ {0} /\ raw \in 0 .. Wrap - 1
      /\ c.wraps \in Int /\ c.last_raw \in Int /\ c.wraps * Wrap \in Int
      /\ Value(c) = c.wraps * Wrap + c.last_raw
  BY WrapIs DEF InStep, Value
<1> HIDE DEF raw
<1>2. CASE ~c.primed
  <2>1. d.wraps = c.wraps /\ d.last_raw = raw /\ d.primed
    BY <1>2 DEF Extend, InStep
  <2>2. Value(d) = c.wraps * Wrap + raw
    BY <2>1 DEF Value
  <2> QED
    BY <1>1, <1>2, <2>1, <2>2 DEF raw
<1>3. CASE c.primed
  <2>1. /\ d.wraps = c.wraps + (IF raw < c.last_raw THEN 1 ELSE 0)
        /\ d.last_raw = raw /\ d.primed
    BY <1>3 DEF Extend, InStep
  <2>2. c.last_raw \in 0 .. Wrap - 1
    <3>1. s.seen \in Nat /\ c.last_raw = s.seen % Wrap
      BY <1>3 DEF InStep
    <3> QED
      BY <1>1, <3>1
  <2>3. CASE raw < c.last_raw
    <3>1. Value(d) = (c.wraps + 1) * Wrap + raw
      BY <2>1, <2>3 DEF Value
    <3>2. (c.wraps + 1) * Wrap = c.wraps * Wrap + Wrap
      BY ONLY <1>1
    <3>3. Value(d) = c.wraps * Wrap + Wrap + raw
      BY <3>1, <3>2
    <3> QED
      BY <1>1, <2>1, <2>2, <3>3 DEF raw
  <2>4. CASE ~(raw < c.last_raw)
    <3>1. d.wraps = c.wraps
      BY <1>1, <2>1, <2>4
    <3>2. Value(d) = c.wraps * Wrap + raw
      BY <2>1, <3>1 DEF Value
    <3> QED
      BY <1>1, <2>1, <2>2, <2>4, <3>2 DEF raw
  <2> QED
    BY <2>3, <2>4
<1> QED
  BY <1>2, <1>3 DEF raw

\* What a push makes of the ring: it takes the piece whole, or nothing.
LEMMA PublishIs ==
    ASSUME NEW r, IsRing(r), NEW piece, PieceLen(piece) \in Nat, NEW at, NEW first, NEW last
    PROVE  LET q == Publish(CopyUnits(r, piece, at, first, last), piece)
           IN IsRing(q) /\ q.tail = r.tail /\ q.head = r.head + PieceLen(piece)
<1> DEFINE c == CopyUnits(r, piece, at, first, last)
           q == Publish(c, piece)
<1>1. PICK store : c = [r EXCEPT !.store = store]
  BY DEF CopyUnits
<1> HIDE DEF c
<1>2. PICK n : n = r.head + PieceLen(piece)
  OBVIOUS
<1>3. c.head = r.head /\ c = [store |-> store, head |-> r.head, tail |-> r.tail,
                              drops |-> r.drops]
  BY <1>1 DEF IsRing
<1>4. q = [store |-> store, head |-> n, tail |-> r.tail, drops |-> r.drops]
  BY <1>2, <1>3 DEF Publish
<1>5. r.head \in Nat /\ r.tail \in Nat /\ r.tail <= r.head /\ n \in Nat /\ r.tail <= n
  BY <1>2 DEF IsRing
<1> HIDE DEF q
<1>6. IsRing(q) /\ q.tail = r.tail /\ q.head = n
  BY <1>4, <1>5 DEF IsRing
<1> QED
  BY <1>2, <1>6 DEF q, c

\* A refused piece is counted.
LEMMA DroppedIs ==
    ASSUME NEW r, IsRing(r)
    PROVE  IsRing(Dropped(r)) /\ Dropped(r).tail = r.tail /\ Dropped(r).head = r.head
<1>1. PICK n : n = r.drops + 1
  OBVIOUS
<1>2. Dropped(r) = [r EXCEPT !.drops = n]
  BY <1>1 DEF Dropped
<1> QED
  BY <1>2 DEF IsRing

\* A copy moves neither counter.
LEMMA CopyIs ==
    ASSUME NEW r, IsRing(r), NEW piece, NEW at, NEW first, NEW last
    PROVE  LET q == CopyUnits(r, piece, at, first, last)
           IN IsRing(q) /\ q.tail = r.tail /\ q.head = r.head
<1>1. PICK store : CopyUnits(r, piece, at, first, last) = [r EXCEPT !.store = store]
  BY DEF CopyUnits
<1> QED
  BY <1>1 DEF IsRing

\* The ring r has become q by pushes.
Pushed(r, q) ==
    /\ IsRing(q) /\ q.tail = r.tail /\ r.head <= q.head
    /\ UsedUnits(r) <= Cap => UsedUnits(q) <= Cap

\* The sink, called by a handler.
LEMMA PushIs ==
    ASSUME PushesToTheRing, NEW r, IsRing(r), NEW piece, PieceLen(AsSent(piece)) \in Nat,
           NEW o \in Offer(r, piece)
    PROVE  Pushed(r, o.sink)
<1>1. PICK sent : sent = AsSent(piece) /\ PieceLen(sent) \in Nat
  OBVIOUS
<1>2. o = IF Fits(r, sent)
          THEN [sink |-> Publish(CopyUnits(r, sent, r.head, 1, PieceLen(sent)), sent),
                taken |-> TRUE]
          ELSE [sink |-> Dropped(r), taken |-> FALSE]
  BY <1>1 DEF PushesToTheRing, SinkPush
<1>3. r.head \in Nat /\ r.tail \in Nat /\ Cap \in Nat
  BY RecorderAssumption DEF IsRing
<1>4. CASE Fits(r, sent)
  <2>1. PICK q : q = Publish(CopyUnits(r, sent, r.head, 1, PieceLen(sent)), sent)
    OBVIOUS
  <2>2. o.sink = q
    BY <1>2, <1>4, <2>1
  <2>3. IsRing(q) /\ q.tail = r.tail /\ q.head = r.head + PieceLen(sent)
    BY <1>1, <2>1, PublishIs
  <2> QED
    BY <1>1, <1>3, <1>4, <2>2, <2>3 DEF Pushed, Fits, UsedUnits
<1>5. CASE ~Fits(r, sent)
  <2>1. o.sink = Dropped(r)
    BY <1>2, <1>5
  <2> QED
    BY <1>3, <2>1, DroppedIs DEF Pushed, UsedUnits
<1> QED
  BY <1>4, <1>5

\* A block is spent.
LEMMA SpentIs ==
    ASSUME NEW w, IsWriter(w), NEW taken
    PROVE  LET v == [w EXCEPT !.block_seq = @ + 1, !.staged = <<>>, !.used = 0,
                              !.blocks_lost = IF taken THEN @ ELSE @ + 1]
           IN /\ IsWriter(v) /\ v.used = 0 /\ v.events = w.events
              /\ v.last_ts = w.last_ts /\ v.err = w.err
<1> DEFINE v == [w EXCEPT !.block_seq = @ + 1, !.staged = <<>>, !.used = 0,
                          !.blocks_lost = IF taken THEN @ ELSE @ + 1]
<1>1. PICK lost, seq, none : /\ lost = IF taken THEN w.blocks_lost ELSE w.blocks_lost + 1
                             /\ seq = w.block_seq + 1 /\ none = <<>>
  OBVIOUS
<1>2. IsSeq(none)
  BY <1>1 DEF IsSeq
<1>3. v = [w EXCEPT !.block_seq = seq, !.staged = none, !.used = 0, !.blocks_lost = lost]
  BY <1>1
<1> HIDE DEF v
<1>5. /\ IsWriter(v) /\ v.used = 0 /\ v.events = w.events
      /\ v.last_ts = w.last_ts /\ v.err = w.err
  BY <1>2, <1>3 DEF IsWriter
<1> QED
  BY <1>5 DEF v

\* flush_block of a handler.
LEMMA FlushIs ==
    ASSUME PushesToTheRing, NEW w, IsWriter(w), NEW r, IsRing(r), NEW o \in FlushBlock(w, r)
    PROVE  /\ IsWriter(o.w) /\ o.w.used = 0 /\ o.w.events = w.events
           /\ o.w.last_ts = w.last_ts /\ o.w.err = w.err
           /\ Pushed(r, o.sink)
<1>1. r.head \in Nat /\ r.tail \in Nat
  BY DEF IsRing
<1>2. CASE w.used = 0
  <2>1. o.w = w /\ o.sink = r
    BY <1>2 DEF FlushBlock
  <2> QED
    BY <1>1, <1>2, <2>1 DEF Pushed
<1>3. CASE w.used # 0
  <2>1. PICK p \in Offer(r, BlockPiece(w)) :
           o = [w |-> [w EXCEPT !.block_seq = @ + 1, !.staged = <<>>, !.used = 0,
                                !.blocks_lost = IF p.taken THEN @ ELSE @ + 1],
                sink |-> p.sink]
    BY <1>3 DEF FlushBlock
  <2>2. IsWriter(o.w) /\ o.w.used = 0 /\ o.w.events = w.events
        /\ o.w.last_ts = w.last_ts /\ o.w.err = w.err
    BY <2>1, SpentIs, ZenonT(60)
  <2>3. PieceLen(AsSent(BlockPiece(w))) \in Nat
    <3>1. Len(w.staged) \in Nat
      BY SeqFacts DEF IsWriter
    <3> QED
      BY <3>1 DEF PieceLen, AsSent, BlockPiece, Framed
  <2> QED
    BY <2>1, <2>2, <2>3, PushIs
<1> QED
  BY <1>2, <1>3

\* An event is staged: one unit more in the block, one event more.
LEMMA StagedIs ==
    ASSUME NEW w, IsWriter(w), NEW e
    PROVE  LET v == [w EXCEPT !.staged = Append(@, e), !.used = @ + 1, !.events = @ + 1]
           IN /\ IsWriter(v) /\ v.used = w.used + 1 /\ v.events = w.events + 1
              /\ v.last_ts = w.last_ts /\ v.err = w.err
<1> DEFINE v == [w EXCEPT !.staged = Append(@, e), !.used = @ + 1, !.events = @ + 1]
<1>1. PICK s, u, n : s = Append(w.staged, e) /\ u = w.used + 1 /\ n = w.events + 1
  OBVIOUS
<1>2. IsSeq(s) /\ u \in Nat /\ n \in Nat
  BY <1>1, SeqFacts DEF IsWriter
<1>3. v = [w EXCEPT !.staged = s, !.used = u, !.events = n]
  BY <1>1
<1> HIDE DEF v
<1>5. /\ IsWriter(v) /\ v.used = u /\ v.events = n
      /\ v.last_ts = w.last_ts /\ v.err = w.err
  BY <1>2, <1>3 DEF IsWriter
<1> QED
  BY <1>1, <1>5 DEF v

\* stage of a handler: a block goes out first if the event does not fit.
LEMMA StageIs ==
    ASSUME PushesToTheRing, NEW w, IsWriter(w), NEW r, IsRing(r), NEW e,
           NEW o \in Stage(w, r, e, 1)
    PROVE  /\ IsWriter(o.w) /\ o.w.used <= PayloadCap /\ o.w.events = w.events + 1
           /\ o.w.last_ts = w.last_ts /\ o.w.err = w.err
           /\ Pushed(r, o.sink)
<1>1. PICK b \in IF w.used + 1 > PayloadCap THEN FlushBlock(w, r)
                 ELSE {[w |-> w, sink |-> r]} :
         o = [w |-> [b.w EXCEPT !.staged = Append(@, e), !.used = @ + 1, !.events = @ + 1],
              sink |-> b.sink]
  BY DEF Stage
<1>2. /\ IsWriter(b.w) /\ b.w.used + 1 <= PayloadCap /\ b.w.events = w.events
      /\ b.w.last_ts = w.last_ts /\ b.w.err = w.err
      /\ Pushed(r, b.sink)
  <2>1. PayloadCap \in Nat /\ 1 <= PayloadCap
    <3>1. PayloadCap \in Nat /\ 1 \in 1 .. PayloadCap
      BY EventSizesAssumption, RecorderAssumption
    <3> QED
      BY <3>1
  <2>2. CASE w.used + 1 > PayloadCap
    BY <1>1, <2>1, <2>2, FlushIs
  <2>3. CASE ~(w.used + 1 > PayloadCap)
    <3>1. b.w = w /\ b.sink = r
      BY <1>1, <2>3
    <3>2. Pushed(r, r)
      BY DEF Pushed, IsRing
    <3> QED
      BY <2>1, <2>3, <3>1, <3>2 DEF IsWriter
  <2> QED
    BY <2>2, <2>3
<1>3. /\ IsWriter(o.w) /\ o.w.used = b.w.used + 1 /\ o.w.events = b.w.events + 1
      /\ o.w.last_ts = b.w.last_ts /\ o.w.err = b.w.err /\ o.sink = b.sink
  BY <1>1, <1>2, StagedIs, ZenonT(60)
<1> QED
  BY <1>2, <1>3

\* An error latches.
LEMMA FailIs ==
    ASSUME NEW w, IsWriter(w), NEW why
    PROVE  LET v == WFail(w, why)
           IN /\ IsWriter(v) /\ v.used = w.used /\ v.events = w.events
              /\ v.last_ts = w.last_ts /\ v.err \in {w.err, why}
<1> DEFINE v == WFail(w, why)
<1>1. PICK err, no : err = (IF w.err = NoError THEN why ELSE w.err) /\ no = FALSE
  OBVIOUS
<1>2. v = [w EXCEPT !.ok = no, !.err = err] /\ err \in {w.err, why}
  BY <1>1 DEF WFail
<1> HIDE DEF v
<1>3. /\ IsWriter(v) /\ v.used = w.used /\ v.events = w.events
      /\ v.last_ts = w.last_ts /\ v.err = err
  BY <1>2 DEF IsWriter
<1> QED
  BY <1>2, <1>3 DEF v

\* A handler's call of the writer.  It fails only if its time is behind the trace.
LEMMA WriteIs ==
    ASSUME PushesToTheRing, NEW w, IsWriter(w), NEW r, IsRing(r), NEW ev,
           NEW o \in Write(w, r, ev, 1)
    PROVE  /\ IsWriter(o.w) /\ Pushed(r, o.sink)
           /\ o.w.used <= PayloadCap \/ o.w.used = w.used
           /\ o.w.events \in {w.events, w.events + 1}
           /\ ~(ev.ts < w.last_ts) => o.w.err = w.err /\ o.w.last_ts \in {w.last_ts, ev.ts}
<1>1. Pushed(r, r)
  BY DEF Pushed, IsRing
<1>2. CASE o = [w |-> w, sink |-> r]
  BY <1>1, <1>2
<1>3. CASE ev.ts < w.last_ts /\ o = [w |-> WFail(w, "non-monotonic timestamp"), sink |-> r]
  BY <1>1, <1>3, FailIs, ZenonT(60)
<1>4. ASSUME NEW e, NEW s \in Stage(w, r, e, 1), NEW addr,
             o.w = [s.w EXCEPT !.last_ts = ev.ts, !.last_addr = addr], o.sink = s.sink
      PROVE  /\ IsWriter(o.w) /\ Pushed(r, o.sink)
             /\ o.w.used <= PayloadCap /\ o.w.events = w.events + 1
             /\ o.w.err = w.err /\ o.w.last_ts = ev.ts
  <2>1. /\ IsWriter(s.w) /\ s.w.used <= PayloadCap /\ s.w.events = w.events + 1
        /\ s.w.last_ts = w.last_ts /\ s.w.err = w.err /\ Pushed(r, s.sink)
    BY <1>4, StageIs
  <2>2. PICK v : v = s.w
    OBVIOUS
  <2>3. IsWriter(v) /\ o.w = [v EXCEPT !.last_ts = ev.ts, !.last_addr = addr]
    BY <1>4, <2>1, <2>2
  <2>4. /\ IsWriter(o.w) /\ o.w.used = v.used /\ o.w.events = v.events
        /\ o.w.last_ts = ev.ts /\ o.w.err = v.err
    <3>1. PICK u, n : u = ev.ts /\ n = [v EXCEPT !.last_ts = u, !.last_addr = addr]
      OBVIOUS
    <3>2. /\ IsWriter(n) /\ n.used = v.used /\ n.events = v.events
          /\ n.last_ts = u /\ n.err = v.err
      BY <2>3, <3>1 DEF IsWriter
    <3> QED
      BY <2>3, <3>1, <3>2
  <2> QED
    BY <1>4, <2>1, <2>2, <2>4
<1>5. CASE o \in WriteMmio(w, r, ev, 1)
  <2>0. PICK e : \E s \in Stage(w, r, e, 1) :
           o = [s EXCEPT !.w.last_ts = ev.ts, !.w.last_addr = ev.addr]
    BY <1>5 DEF WriteMmio
  <2>1. PICK s \in Stage(w, r, e, 1) :
           o = [s EXCEPT !.w.last_ts = ev.ts, !.w.last_addr = ev.addr]
    BY <2>0
  <2>2. s = [w |-> s.w, sink |-> s.sink]
    <3>1. PICK v, q : s = [w |-> v, sink |-> q]
      BY <2>1 DEF Stage
    <3> QED
      BY <3>1
  <2>3. o.w = [s.w EXCEPT !.last_ts = ev.ts, !.last_addr = ev.addr] /\ o.sink = s.sink
    BY <2>1, <2>2
  <2> QED
    BY <1>4, <2>1, <2>3
<1>6. CASE o \in WritePlain(w, r, ev, 1)
  <2>0. PICK e : \E s \in Stage(w, r, e, 1) : o = [s EXCEPT !.w.last_ts = ev.ts]
    BY <1>6 DEF WritePlain
  <2>1. PICK s \in Stage(w, r, e, 1) : o = [s EXCEPT !.w.last_ts = ev.ts]
    BY <2>0
  <2>2. s = [w |-> s.w, sink |-> s.sink]
    <3>1. PICK v, q : s = [w |-> v, sink |-> q]
      BY <2>1 DEF Stage
    <3> QED
      BY <3>1
  <2>3. o.w = [s.w EXCEPT !.last_ts = ev.ts] /\ o.sink = s.sink
    BY <2>1, <2>2
  <2>4. IsWriter(s.w)
    BY <2>1, StageIs
  <2>5. o.w = [s.w EXCEPT !.last_ts = ev.ts, !.last_addr = s.w.last_addr]
    BY <2>3, <2>4 DEF IsWriter
  <2> QED
    BY <1>4, <2>1, <2>3, <2>5, ZenonT(60)
<1> QED
  BY <1>2, <1>3, <1>5, <1>6 DEF Write

--------------------------------------------------------------------------------
(* They stay in order.                                                       *)

\* The header is in the ring, and nothing has been recorded.
LEMMA InitRec == ASSUME PushesToTheRing, RecInit PROVE RecInv
<1> DEFINE yes == TRUE
           w == [NewWriter EXCEPT !.started = yes, !.ok = yes, !.err = NewWriter.err]
<1>1. PICK o \in Begin(NewWriter, EmptyRing, TRUE) : o.w.ok /\ writer = o.w /\ ring = o.sink
  BY DEF RecInit
<1>2. o \in Emit(w, EmptyRing, HeaderPiece)
  BY <1>1 DEF Begin, NewWriter
<1>3. PICK p \in Offer(EmptyRing, HeaderPiece) :
         o = [w |-> IF p.taken THEN w ELSE WFail(w, "sink rejected data"), sink |-> p.sink]
  BY <1>2 DEF Emit
<1>4. writer = w
  <2>1. ~WFail(w, "sink rejected data").ok
    BY DEF WFail, NewWriter
  <2> HIDE DEF w
  <2> QED
    BY <1>1, <1>3, <2>1
<1>5. IsWriter(w) /\ w.used = 0 /\ w.events = 0 /\ w.last_ts = 0 /\ w.err = "none"
  <2>1. PICK none, no, well : none = <<>> /\ no = FALSE /\ well = "none"
    OBVIOUS
  <2>2. IsSeq(none)
    BY <2>1 DEF IsSeq
  <2>3. NewWriter = [started |-> no, finished |-> no, ok |-> no, err |-> well,
                     staged |-> none, used |-> 0, last_ts |-> 0, last_addr |-> 0,
                     block_seq |-> 0, blocks_lost |-> 0, events |-> 0]
    BY <2>1 DEF NewWriter, NoError
  <2> HIDE DEF yes
  <2>4. /\ IsWriter(NewWriter) /\ NewWriter.used = 0 /\ NewWriter.events = 0
        /\ NewWriter.last_ts = 0 /\ NewWriter.err = well
    BY <2>2, <2>3 DEF IsWriter
  <2>5. PICK n : n = NewWriter
    OBVIOUS
  <2>6. w = [n EXCEPT !.started = yes, !.ok = yes, !.err = well]
    BY <2>4, <2>5
  <2>7. IsWriter(n) /\ n.used = 0 /\ n.events = 0 /\ n.last_ts = 0
    BY <2>4, <2>5
  <2> HIDE DEF w
  <2>8. IsWriter(w) /\ w.used = 0 /\ w.events = 0 /\ w.last_ts = 0 /\ w.err = well
    BY <2>6, <2>7 DEF IsWriter
  <2> QED
    BY <2>1, <2>8
<1>6. IsRing(ring) /\ ring.tail = 0 /\ UsedUnits(ring) <= Cap
  <2>1. PICK store : EmptyRing = [store |-> store, head |-> 0, tail |-> 0, drops |-> 0]
    BY DEF EmptyRing
  <2>2. IsRing(EmptyRing) /\ UsedUnits(EmptyRing) <= Cap /\ EmptyRing.tail = 0
    BY <2>1, RecorderAssumption DEF IsRing, UsedUnits
  <2>3. PieceLen(AsSent(HeaderPiece)) \in Nat
    BY DEF PieceLen, AsSent, HeaderPiece
  <2>4. Pushed(EmptyRing, ring)
    BY <1>1, <1>3, <2>2, <2>3, PushIs
  <2> QED
    BY <2>2, <2>4 DEF Pushed
<1> HIDE DEF w
<1>7. /\ phase = "run" /\ main = NoCall /\ main.at = "idle" /\ DOMAIN main = {"at"}
      /\ ~drain.on /\ received = <<>> /\ recorded = <<>>
      /\ clock.last_raw = 0 /\ clock.wraps = 0
  BY DEF RecInit, NoCall, NewClock
<1>8. Value(clock) = 0
  BY <1>7, WrapIs DEF Value
<1>9. IsSeq(<<>>) /\ Len(<<>>) = 0
  BY DEF IsSeq
<1>10. PayloadCap \in Nat
  BY EventSizesAssumption
<1>11. Alone
  <2>1. PICK no : no = FALSE
    OBVIOUS
  <2>2. drain = [on |-> no, sent |-> 0]
    BY <2>1 DEF RecInit
  <2>3. drain = [on |-> drain.on, sent |-> drain.sent] /\ drain.sent = 0
    BY <2>2
  <2> QED
    BY <1>7, <2>3 DEF Alone
<1>12. Counted
  BY <1>4, <1>5, <1>6, <1>7, <1>9 DEF Counted
<1>13. Fitting
  BY <1>4, <1>5, <1>6, <1>7, <1>10 DEF Fitting
<1>14. Timely
  BY <1>4, <1>5, <1>7, <1>8 DEF Timely, Between, Carries
<1> QED
  BY <1>11, <1>12, <1>13, <1>14 DEF RecInv

\* The counter is read.
LEMMA SampleRec == RecInv /\ Sample => RecInv'
<1> SUFFICES ASSUME RecInv, Sample PROVE RecInv'
  OBVIOUS
<1>1. /\ UNCHANGED <<clock, writer, ring, recorded, torn, phase, drain, received>>
      /\ phase = "run" /\ ~drain.on
  BY DEF Sample, MainFree, UNCHANGED_link
<1>2. PICK what : main' = [at |-> "sampled", what |-> what, time |-> time']
  BY DEF Sample
<1>3. main'.at = "sampled" /\ "call" \notin DOMAIN main'
  BY <1>2
<1> QED
  BY <1>1, <1>3 DEF RecInv, Alone, Counted, Fitting, Timely, Carries, Between, IsWriter,
     IsRing, IsSeq, UsedUnits, Value

\* The clock moves on, and the writer stays behind it.
LEMMA StampRec == ClockInv /\ RecInv /\ Stamp => RecInv'
<1> SUFFICES ASSUME ClockInv, RecInv, Stamp PROVE RecInv'
  OBVIOUS
<1>1. /\ UNCHANGED <<writer, ring, recorded, torn, phase, drain, received>>
      /\ main.at = "sampled" /\ clock' = Extend(clock, main.time % Wrap)
      /\ main' = [at |-> "stamped", what |-> main.what, ts |-> Value(clock')]
  BY DEF Stamp, UNCHANGED_link
<1>2. main.time \in Nat /\ InStep(clock, samples) /\ (~clock.primed => clock.last_raw = 0)
  BY <1>1 DEF ClockInv, MainShape, RecInv, Timely
<1>3. /\ clock'.primed /\ Value(clock) \in Int /\ Value(clock') \in Int
      /\ Value(clock) <= Value(clock')
  BY ONLY <1>1, <1>2, ExtendGrows
<1>4. /\ main'.at = "stamped" /\ main'.ts = Value(clock') /\ "ts" \in DOMAIN main'
      /\ "call" \notin DOMAIN main'
  BY <1>1
<1>5. Alone' /\ Counted' /\ Fitting'
  BY <1>1, <1>4 DEF RecInv, Alone, Counted, Fitting, IsWriter, IsRing, IsSeq, UsedUnits
<1>6. Value(clock)' = Value(clock')
  BY DEF Value
<1>7. ~torn => writer.last_ts \in Int /\ writer.last_ts <= Value(clock)
                /\ writer.err # "non-monotonic timestamp"
  BY DEF RecInv, Timely, Between
<1>8. ~torn => /\ Between(writer.last_ts, Value(clock'), Value(clock'))
               /\ Between(writer.last_ts, writer.last_ts, Value(clock'))
  <2>1. PICK lo, mid, hi : lo = writer.last_ts /\ mid = Value(clock) /\ hi = Value(clock')
    OBVIOUS
  <2>2. mid \in Int /\ hi \in Int /\ mid <= hi /\ (~torn => lo \in Int /\ lo <= mid)
    BY <1>3, <1>7, <2>1
  <2>3. ~torn => Between(lo, hi, hi) /\ Between(lo, lo, hi)
    BY ONLY <2>2 DEF Between
  <2> QED
    BY <2>1, <2>3
<1>9. ~torn => Carries(main', writer.last_ts, Value(clock'))
  BY <1>4, <1>8 DEF Carries
<1>10. Timely'
  BY <1>1, <1>3, <1>6, <1>7, <1>8, <1>9 DEF Timely
<1> QED
  BY <1>5, <1>10 DEF RecInv

\* Nothing is in the main loop's hands between its calls and behind one.
LEMMA AfterWriteIs ==
    ASSUME NEW w, NEW what
    PROVE  LET m == AfterWrite(w, what)
           IN /\ m.at \in {"idle", "frame", "end"} /\ "call" \notin DOMAIN m
              /\ \A lo, hi : Carries(m, lo, hi)
BY DEF AfterWrite, NoCall, Flushing, Carries

\* The guards find no time behind the trace unless a handler has recorded.
LEMMA EncodeRec == RecInv /\ Encode => RecInv'
<1> SUFFICES ASSUME RecInv, Encode PROVE RecInv'
  OBVIOUS
<1>1. /\ UNCHANGED <<clock, ring, recorded, torn, phase, drain, received>>
      /\ main.at = "stamped"
  BY DEF Encode, UNCHANGED_link
<1>2. phase = "run" /\ ~drain.on
  BY <1>1 DEF RecInv, Alone
<1>3. IsWriter(writer) /\ IsRing(ring) /\ Value(clock)' = Value(clock)
      /\ UsedUnits(ring)' = UsedUnits(ring)
  BY <1>1 DEF RecInv, Counted, Value, UsedUnits
<1>4. ~torn => /\ Between(writer.last_ts, main.ts, Value(clock))
               /\ Between(writer.last_ts, writer.last_ts, Value(clock))
  BY <1>1 DEF RecInv, Timely, Carries
<1>5. CASE ~Recording(writer)
  <2>1. writer' = writer /\ \E w, what : main' = AfterWrite(w, what)
    BY <1>5 DEF Encode
  <2>2. main'.at \in {"idle", "frame", "end"} /\ \A lo, hi : Carries(main', lo, hi)
    BY <2>1, AfterWriteIs
  <2>3. Alone' /\ Counted' /\ Fitting'
    BY <1>1, <1>2, <2>1, <2>2 DEF RecInv, Alone, Counted, Fitting, IsWriter, IsRing, IsSeq,
       UsedUnits
  <2>4. Timely'
    BY <1>1, <1>3, <2>1, <2>2 DEF RecInv, Timely, Between, Carries
  <2> QED
    BY <2>3, <2>4 DEF RecInv
<1>6. CASE Recording(writer) /\ main.ts < writer.last_ts
  <2>1. /\ writer' = WFail(writer, "non-monotonic timestamp")
        /\ \E w, what : main' = AfterWrite(w, what)
    BY <1>6 DEF Encode
  <2>2. main'.at \in {"idle", "frame", "end"} /\ \A lo, hi : Carries(main', lo, hi)
    BY <2>1, AfterWriteIs
  <2>3. torn
    BY <1>4, <1>6 DEF Between
  <2>4. IsWriter(writer') /\ writer'.used = writer.used /\ writer'.events = writer.events
    BY <1>3, <2>1, FailIs
  <2>5. Alone' /\ Counted' /\ Fitting'
    BY <1>1, <1>2, <2>2, <2>3, <2>4 DEF RecInv, Alone, Counted, Fitting, IsWriter, IsRing,
       IsSeq
  <2>6. Timely'
    BY <1>1, <2>3 DEF RecInv, Timely
  <2> QED
    BY <2>5, <2>6 DEF RecInv
<1>7. CASE Recording(writer) /\ ~(main.ts < writer.last_ts)
  <2>1. writer' = writer
    BY <1>7 DEF Encode
  <2>2. PICK encoded, ev : /\ ev = CallEvent(main.what, main.ts)
                           /\ main' = [at |-> "encoded", what |-> main.what, ev |-> ev,
                                       encoded |-> encoded]
    BY <1>7 DEF Encode
  <2>3. ev.ts = main.ts
    BY <2>2 DEF CallEvent, ReadEvent, StopEvent
  <2>4. /\ main'.at = "encoded" /\ "ev" \in DOMAIN main' /\ main'.ev.ts = main.ts
        /\ "call" \notin DOMAIN main'
    BY <2>2, <2>3
  <2>5. Alone' /\ Counted' /\ Fitting'
    BY <1>1, <1>2, <2>1, <2>4 DEF RecInv, Alone, Counted, Fitting, IsWriter, IsRing, IsSeq,
       UsedUnits
  <2>6. ~torn => Carries(main', writer.last_ts, Value(clock))
    BY <1>4, <2>4 DEF Carries, CarriesEvent
  <2>7. Timely'
    BY <1>1, <1>3, <2>1, <2>6 DEF RecInv, Timely, Between
  <2> QED
    BY <2>5, <2>7 DEF RecInv
<1> QED
  BY <1>5, <1>6, <1>7

\* A step of the call that leaves writer and clock alone.
LEMMA CallMoves ==
    ASSUME RecInv, main.at # "idle", IsRing(ring'), ring'.tail = ring.tail,
           UNCHANGED <<clock, writer, recorded, torn, phase, drain, received>>,
           main'.at = "pushing" => "piece" \in DOMAIN main' /\ PieceLen(main'.piece) \in Nat,
           ~torn => /\ UsedUnits(ring') <= Cap
                    /\ main'.at = "append" => writer.used + 1 <= PayloadCap
                    /\ main'.at = "pushing" => PieceLen(main'.piece) <= Cap - UsedUnits(ring')
                    /\ Carries(main', writer.last_ts, Value(clock))
    PROVE  RecInv'
<1>1. phase = "run" /\ ~drain.on /\ Value(clock)' = Value(clock)
      /\ UsedUnits(ring)' = UsedUnits(ring')
  BY DEF RecInv, Alone, Value, UsedUnits
<1>2. Alone'
  BY <1>1 DEF RecInv, Alone
<1>3. Counted'
  BY DEF RecInv, Counted, IsWriter, IsRing, IsSeq
<1>4. Fitting'
  BY <1>1 DEF RecInv, Fitting, PieceLen
<1>5. Timely'
  BY <1>1 DEF RecInv, Timely
<1> QED
  BY <1>2, <1>3, <1>4, <1>5 DEF RecInv

\* What is known of the call before such a step.
LEMMA CallIs ==
    ASSUME RecInv
    PROVE  /\ IsRing(ring) /\ IsWriter(writer)
           /\ ring.head \in Nat /\ ring.tail \in Nat /\ Cap \in Nat /\ PayloadCap \in Nat
           /\ ~torn => /\ UsedUnits(ring) <= Cap
                       /\ Carries(main, writer.last_ts, Value(clock))
BY RecorderAssumption, EventSizesAssumption DEF RecInv, Counted, IsRing, Fitting, Timely

\* stage asks for room.
LEMMA RoomRec == RecInv /\ Room => RecInv'
<1> SUFFICES ASSUME RecInv, Room PROVE RecInv'
  OBVIOUS
<1>1. /\ UNCHANGED <<clock, writer, ring, recorded, torn, phase, drain, received>>
      /\ main.at = "encoded"
      /\ main' = IF writer.used + 1 > PayloadCap
                 THEN [at |-> "frame", then |-> "append", call |-> main]
                 ELSE [at |-> "append", call |-> main]
  BY DEF Room, UNCHANGED_link
<1>2. /\ main'.at \in {"frame", "append"} /\ main'.call = main
      /\ main'.at = "append" => ~(writer.used + 1 > PayloadCap)
  BY <1>1
<1>3. ~torn => Carries(main', writer.last_ts, Value(clock))
  BY <1>1, <1>2, CallIs DEF Carries
<1>4. main'.at = "append" => writer.used + 1 <= PayloadCap
  BY <1>2, CallIs DEF IsWriter
<1> QED
  BY <1>1, <1>2, <1>3, <1>4, CallIs, CallMoves DEF UsedUnits

\* What the call waits for is carried along on the way to the sink.
LEMMA AdvancedCarries ==
    ASSUME NEW m, NEW lo, NEW hi, Carries(m, lo, hi), NEW fields, "at" \in DOMAIN fields,
           fields.at \in {"framed", "pushing", "pushed"}, "call" \notin DOMAIN fields
    PROVE  Carries(Advanced(m, fields), lo, hi)
<1> DEFINE n == Advanced(m, fields)
<1>1. /\ n.at = fields.at
      /\ "call" \in DOMAIN n <=> "call" \in DOMAIN m
      /\ "call" \in DOMAIN m => n.call = m.call
  BY DEF Advanced
<1> HIDE DEF n
<1>2. Carries(n, lo, hi)
  BY <1>1 DEF Carries
<1> QED
  BY <1>2 DEF n

\* And when the call lets go of the frame or of the piece.
LEMMA RestrictCarries ==
    ASSUME NEW m, NEW lo, NEW hi, Carries(m, lo, hi), "at" \in DOMAIN m,
           m.at \in {"framed", "pushing"}, NEW S, {"at", "call"} \cap S = {}
    PROVE  Carries(Restrict(m, DOMAIN m \ S), lo, hi)
<1> DEFINE n == Restrict(m, DOMAIN m \ S)
<1>1. /\ n.at = m.at
      /\ "call" \in DOMAIN n <=> "call" \in DOMAIN m
      /\ "call" \in DOMAIN m => n.call = m.call
  BY DEF Restrict
<1> HIDE DEF n
<1>2. Carries(n, lo, hi)
  BY <1>1 DEF Carries
<1> QED
  BY <1>2 DEF n

\* The frame is taken.
LEMMA FrameRec == RecInv /\ Frame => RecInv'
<1> SUFFICES ASSUME RecInv, Frame PROVE RecInv'
  OBVIOUS
<1>1. /\ UNCHANGED <<clock, writer, ring, recorded, torn, phase, drain, received>>
      /\ main.at = "frame"
  BY DEF Frame, UNCHANGED_link
<1>2. PICK fields : /\ fields = [at |-> "framed", seq |-> writer.block_seq,
                                 frame |-> writer.staged]
                    /\ main' = Advanced(main, fields)
  BY DEF Frame
<1>3. fields.at = "framed" /\ "at" \in DOMAIN fields /\ "call" \notin DOMAIN fields
  BY <1>2
<1>4. main'.at = "framed"
  BY <1>2, <1>3 DEF Advanced
<1>5. ~torn => Carries(main', writer.last_ts, Value(clock))
  BY <1>2, <1>3, CallIs, AdvancedCarries
<1> QED
  BY <1>1, <1>4, <1>5, CallIs, CallMoves DEF UsedUnits

\* A push starts, or is refused.
LEMMA StartPushRec ==
    ASSUME RecInv, main.at # "idle",
           UNCHANGED <<clock, writer, recorded, torn, phase, drain, received>>,
           NEW piece, PieceLen(piece) \in Nat, NEW m, StartPush(piece, m),
           ~torn => Carries(m, writer.last_ts, Value(clock))
    PROVE  RecInv'
<1>1. CASE Fits(ring, piece)
  <2>1. PICK fields : /\ fields = [at |-> "pushing", piece |-> piece, head |-> ring.head,
                                   copied |-> 0]
                      /\ main' = Advanced(m, fields)
    BY <1>1 DEF StartPush
  <2>2. ring' = ring
    BY <1>1 DEF StartPush
  <2>3. /\ fields.at = "pushing" /\ fields.piece = piece
        /\ "at" \in DOMAIN fields /\ "piece" \in DOMAIN fields /\ "call" \notin DOMAIN fields
    BY <2>1
  <2>4. main'.at = "pushing" /\ main'.piece = piece /\ "piece" \in DOMAIN main'
    BY <2>1, <2>3 DEF Advanced
  <2>5. ~torn => Carries(main', writer.last_ts, Value(clock))
    BY <2>1, <2>3, AdvancedCarries
  <2>6. ~torn => PieceLen(piece) <= Cap - UsedUnits(ring')
    BY <1>1, <2>2, CallIs DEF Fits, UsedUnits
  <2> QED
    BY <2>2, <2>4, <2>5, <2>6, CallIs, CallMoves DEF UsedUnits
<1>2. CASE ~Fits(ring, piece)
  <2>1. PICK fields : /\ fields = [at |-> "pushed", taken |-> FALSE]
                      /\ main' = Advanced(m, fields)
    BY <1>2 DEF StartPush
  <2>2. ring' = Dropped(ring)
    BY <1>2 DEF StartPush
  <2>3. fields.at = "pushed" /\ "at" \in DOMAIN fields /\ "call" \notin DOMAIN fields
    BY <2>1
  <2>4. main'.at = "pushed"
    BY <2>1, <2>3 DEF Advanced
  <2>5. ~torn => Carries(main', writer.last_ts, Value(clock))
    BY <2>1, <2>3, AdvancedCarries
  <2>6. IsRing(ring') /\ ring'.tail = ring.tail /\ ring'.head = ring.head
    BY <2>2, CallIs, DroppedIs
  <2> QED
    BY <2>4, <2>5, <2>6, CallIs, CallMoves DEF UsedUnits
<1> QED
  BY <1>1, <1>2

\* The block goes to the sink.
LEMMA PushBlockRec == ClockInv /\ RecInv /\ PushBlock => RecInv'
<1> SUFFICES ASSUME ClockInv, RecInv, PushBlock PROVE RecInv'
  OBVIOUS
<1>1. /\ UNCHANGED <<clock, writer, recorded, torn, phase, drain, received>>
      /\ main.at = "framed" /\ "at" \in DOMAIN main
  BY DEF PushBlock, UNCHANGED_link, ClockInv, MainShape, Placed
<1>2. PICK m, piece :
         /\ m = Restrict(main, DOMAIN main \ {"seq", "frame"})
         /\ piece = Framed([seq |-> main.seq, payload |-> writer.staged], main.frame)
         /\ StartPush(piece, m)
  BY DEF PushBlock
<1>3. PieceLen(piece) \in Nat
  <2>1. piece.kind = "block" /\ piece.payload = writer.staged
    BY <1>2 DEF Framed
  <2>2. Len(writer.staged) \in Nat
    BY CallIs, SeqFacts DEF IsWriter
  <2> QED
    BY <2>1, <2>2 DEF PieceLen
<1>4. ~torn => Carries(m, writer.last_ts, Value(clock))
  BY <1>1, <1>2, CallIs, RestrictCarries
<1> QED
  BY <1>1, <1>2, <1>3, <1>4, StartPushRec

\* The terminator goes to the sink.
LEMMA PushEndRec == RecInv /\ PushEnd => RecInv'
<1> SUFFICES ASSUME RecInv, PushEnd PROVE RecInv'
  OBVIOUS
<1>1. /\ UNCHANGED <<clock, writer, recorded, torn, phase, drain, received>>
      /\ main.at = "end"
  BY DEF PushEnd, UNCHANGED_link
<1>2. PICK m : m = [at |-> "end", then |-> "over"] /\ StartPush(EndPiece, m)
  BY DEF PushEnd
<1>3. PieceLen(EndPiece) \in Nat
  BY DEF PieceLen, EndPiece
<1>4. \A lo, hi : Carries(m, lo, hi)
  BY <1>2 DEF Carries
<1> QED
  BY <1>1, <1>2, <1>3, <1>4, StartPushRec

\* The piece is in the ring.
LEMMA PublishRec == ClockInv /\ RecInv /\ PublishPiece => RecInv'
<1> SUFFICES ASSUME ClockInv, RecInv, PublishPiece PROVE RecInv'
  OBVIOUS
<1>1. /\ UNCHANGED <<clock, writer, recorded, torn, phase, drain, received>>
      /\ main.at = "pushing" /\ "at" \in DOMAIN main
  BY DEF PublishPiece, UNCHANGED_link, ClockInv, MainShape, Placed
<1>2. PICK m, fields :
         /\ m = Restrict(main, DOMAIN main \ {"piece", "head", "copied"})
         /\ fields = [at |-> "pushed", taken |-> TRUE] /\ main' = Advanced(m, fields)
  BY DEF PublishPiece
<1>3. fields.at = "pushed" /\ "at" \in DOMAIN fields /\ "call" \notin DOMAIN fields
  BY <1>2
<1>4. main'.at = "pushed"
  BY <1>2, <1>3 DEF Advanced
<1>5. ~torn => Carries(main', writer.last_ts, Value(clock))
  <2>1. ~torn => Carries(m, writer.last_ts, Value(clock))
    BY <1>1, <1>2, CallIs, RestrictCarries
  <2> QED
    BY <1>2, <1>3, <2>1, AdvancedCarries
<1>6. PICK piece : piece = main.piece
  OBVIOUS
<1>7. /\ PieceLen(piece) \in Nat
      /\ ~torn => PieceLen(piece) <= Cap - UsedUnits(ring)
  BY <1>1, <1>6 DEF RecInv, Fitting
<1>8. ring' = Publish(CopyUnits(ring, piece, main.head, main.copied + 1, PieceLen(piece)),
                      piece)
  BY <1>6 DEF PublishPiece
<1>9. IsRing(ring') /\ ring'.tail = ring.tail /\ ring'.head = ring.head + PieceLen(piece)
  BY <1>7, <1>8, CallIs, PublishIs
<1>10. ~torn => UsedUnits(ring') <= Cap
  BY <1>7, <1>9, CallIs DEF UsedUnits
<1> QED
  BY <1>1, <1>4, <1>5, <1>9, <1>10, CallMoves

\* A step of the call that leaves ring and clock alone.
LEMMA WriterMoves ==
    ASSUME RecInv, UNCHANGED <<clock, ring, torn, drain, received>>, main.at # "idle",
           phase' = phase \/ (phase' = "drain" /\ main'.at = "idle"),
           IsWriter(writer'), IsSeq(recorded'), writer'.events = Len(recorded'),
           main'.at # "pushing",
           ~torn => /\ writer'.used <= PayloadCap
                    /\ main'.at = "append" => writer'.used + 1 <= PayloadCap
                    /\ Between(writer'.last_ts, writer'.last_ts, Value(clock))
                    /\ writer'.err # "non-monotonic timestamp"
                    /\ Carries(main', writer'.last_ts, Value(clock))
    PROVE  RecInv'
<1>1. /\ phase = "run" /\ ~drain.on /\ Value(clock)' = Value(clock)
      /\ UsedUnits(ring)' = UsedUnits(ring) /\ IsRing(ring)
  BY DEF RecInv, Alone, Counted, Value, UsedUnits
<1>2. Alone'
  BY <1>1 DEF Alone, RecInv
<1>3. Counted'
  BY <1>1 DEF RecInv, Counted, IsWriter, IsRing, IsSeq
<1>4. Fitting'
  BY <1>1 DEF RecInv, Fitting
<1>5. Timely'
  BY <1>1 DEF RecInv, Timely
<1> QED
  BY <1>2, <1>3, <1>4, <1>5 DEF RecInv

\* What is known of the writer before such a step.
LEMMA WriterIs ==
    ASSUME RecInv
    PROVE  /\ IsWriter(writer) /\ IsSeq(recorded) /\ writer.events = Len(recorded)
           /\ 1 <= PayloadCap /\ PayloadCap \in Nat /\ writer.used \in Nat
           /\ ~torn => /\ writer.used <= PayloadCap
                       /\ Between(writer.last_ts, writer.last_ts, Value(clock))
                       /\ writer.err # "non-monotonic timestamp"
                       /\ Carries(main, writer.last_ts, Value(clock))
<1>1. PayloadCap \in Nat /\ 1 \in 1 .. PayloadCap
  BY EventSizesAssumption, RecorderAssumption
<1>2. 1 <= PayloadCap
  BY <1>1
<1>3. IsWriter(writer) /\ IsSeq(recorded) /\ writer.events = Len(recorded)
  BY DEF RecInv, Counted
<1>4. ~torn => writer.used <= PayloadCap
  BY DEF RecInv, Fitting
<1>5. ~torn => /\ Between(writer.last_ts, writer.last_ts, Value(clock))
               /\ writer.err # "non-monotonic timestamp"
               /\ Carries(main, writer.last_ts, Value(clock))
  BY DEF RecInv, Timely
<1>6. writer.used \in Nat
  BY <1>3 DEF IsWriter
<1> QED
  BY <1>1, <1>2, <1>3, <1>4, <1>5, <1>6

\* The block is spent.
LEMMA SpendRec == ClockInv /\ RecInv /\ Spend => RecInv'
<1> SUFFICES ASSUME ClockInv, RecInv, Spend PROVE RecInv'
  OBVIOUS
<1>1. /\ UNCHANGED <<clock, ring, recorded, torn, phase, drain, received>>
      /\ main.at = "pushed" /\ main.then # "over" /\ Placed(main)
      /\ main' = IF main.then = "append" THEN [at |-> "append", call |-> main.call]
                 ELSE [at |-> "end"]
  BY DEF Spend, UNCHANGED_link, ClockInv, MainShape
<1>2. /\ IsWriter(writer') /\ writer'.used = 0 /\ writer'.events = writer.events
      /\ writer'.last_ts = writer.last_ts /\ writer'.err = writer.err
  <2>1. PICK w, taken : w = writer /\ taken = main.taken
    OBVIOUS
  <2>2. IsWriter(w)
    BY <2>1, WriterIs
  <2>3. writer' = [w EXCEPT !.block_seq = @ + 1, !.staged = <<>>, !.used = 0,
                            !.blocks_lost = IF taken THEN @ ELSE @ + 1]
    BY <2>1 DEF Spend
  <2>4. /\ IsWriter(writer') /\ writer'.used = 0 /\ writer'.events = w.events
        /\ writer'.last_ts = w.last_ts /\ writer'.err = w.err
    BY <2>2, <2>3, SpentIs, ZenonT(60)
  <2> QED
    BY <2>1, <2>4
<1>3. main'.at \in {"append", "end"}
  BY <1>1
<1>4. ~torn => Carries(main', writer'.last_ts, Value(clock))
  <2>1. CASE main.then = "append"
    <3>1. "call" \in DOMAIN main /\ main'.at = "append" /\ main'.call = main.call
      BY <1>1, <2>1 DEF Placed
    <3> QED
      BY <1>2, <3>1, WriterIs DEF Carries
  <2>2. CASE main.then # "append"
    <3>1. main'.at = "end" /\ "call" \notin DOMAIN main'
      BY <1>1, <2>2
    <3> QED
      BY <3>1 DEF Carries
  <2> QED
    BY <2>1, <2>2
<1>5. writer'.used <= PayloadCap /\ writer'.used + 1 <= PayloadCap
  <2>1. PayloadCap \in Nat /\ 1 <= PayloadCap
    BY WriterIs
  <2> QED
    BY <1>2, <2>1
<1>6. IsSeq(recorded') /\ writer'.events = Len(recorded')
  BY <1>1, <1>2, WriterIs
<1>7. ~torn => /\ Between(writer'.last_ts, writer'.last_ts, Value(clock))
               /\ writer'.err # "non-monotonic timestamp"
  BY <1>2, WriterIs
<1> QED
  BY <1>1, <1>2, <1>3, <1>4, <1>5, <1>6, <1>7, WriterMoves

\* The event is staged.
LEMMA AppendRec == ClockInv /\ RecInv /\ AppendEvent => RecInv'
<1> SUFFICES ASSUME ClockInv, RecInv, AppendEvent PROVE RecInv'
  OBVIOUS
<1>1. /\ UNCHANGED <<clock, ring, torn, phase, drain, received>>
      /\ main.at = "append" /\ Placed(main)
      /\ recorded' = Append(recorded, main.call.ev)
      /\ main' = [main.call EXCEPT !.at = "appended"]
  BY DEF AppendEvent, UNCHANGED_link, ClockInv, MainShape
<1>2. /\ IsWriter(writer') /\ writer'.used = writer.used + 1
      /\ writer'.events = writer.events + 1
      /\ writer'.last_ts = writer.last_ts /\ writer'.err = writer.err
  <2>1. PICK w, e : w = writer /\ e = main.call.encoded
    OBVIOUS
  <2>2. IsWriter(w)
    BY <2>1, WriterIs
  <2>3. writer' = [w EXCEPT !.staged = Append(@, e), !.used = @ + 1, !.events = @ + 1]
    BY <2>1 DEF AppendEvent
  <2>4. /\ IsWriter(writer') /\ writer'.used = w.used + 1 /\ writer'.events = w.events + 1
        /\ writer'.last_ts = w.last_ts /\ writer'.err = w.err
    BY <2>2, <2>3, StagedIs
  <2> QED
    BY <2>1, <2>4
<1>3. IsSeq(recorded') /\ writer'.events = Len(recorded')
  BY <1>1, <1>2, WriterIs, SeqFacts
<1>4. /\ "call" \in DOMAIN main /\ "at" \in DOMAIN main.call
      /\ "call" \notin DOMAIN main.call
  BY <1>1 DEF Placed
<1>5. /\ main'.at = "appended" /\ DOMAIN main' = DOMAIN main.call
      /\ main'.ev = main.call.ev
  BY <1>1, <1>4
<1>6. ~torn => Carries(main', writer'.last_ts, Value(clock))
  BY <1>2, <1>4, <1>5, WriterIs DEF Carries, CarriesEvent
<1>7. ~torn => writer.used + 1 <= PayloadCap
  BY <1>1 DEF RecInv, Fitting
<1> QED
  BY <1>1, <1>2, <1>3, <1>5, <1>6, <1>7, WriterIs, WriterMoves

\* The running time moves on to the event's.
LEMMA CommitRec == RecInv /\ Commit => RecInv'
<1> SUFFICES ASSUME RecInv, Commit PROVE RecInv'
  OBVIOUS
<1>1. /\ UNCHANGED <<clock, ring, recorded, torn, phase, drain, received>>
      /\ main.at = "appended" /\ main' = AfterWrite(writer', main.what)
  BY DEF Commit, UNCHANGED_link
<1>2. /\ IsWriter(writer') /\ writer'.used = writer.used
      /\ writer'.events = writer.events
      /\ writer'.last_ts = main.ev.ts /\ writer'.err = writer.err
  <2>1. PICK ts, addr :
           /\ ts = main.ev.ts
           /\ addr = IF IsMmio(main.ev.type) THEN main.ev.addr ELSE writer.last_addr
    OBVIOUS
  <2>2. writer' = [writer EXCEPT !.last_ts = ts, !.last_addr = addr]
    BY <2>1 DEF Commit
  <2>3. IsWriter(writer)
    BY WriterIs
  <2>4. /\ IsWriter(writer') /\ writer'.used = writer.used
        /\ writer'.events = writer.events
        /\ writer'.last_ts = ts /\ writer'.err = writer.err
    BY <2>2, <2>3 DEF IsWriter
  <2> QED
    BY <2>1, <2>4
<1>3. main'.at \in {"idle", "frame", "end"} /\ \A lo, hi : Carries(main', lo, hi)
  BY <1>1, AfterWriteIs
<1>4. ~torn => Between(writer.last_ts, main.ev.ts, Value(clock))
  BY <1>1, WriterIs DEF Carries, CarriesEvent
<1>5. ~torn => Between(writer'.last_ts, writer'.last_ts, Value(clock))
  BY <1>2, <1>4 DEF Between
<1> QED
  BY <1>1, <1>2, <1>3, <1>5, WriterIs, WriterMoves

\* stop() returns.
LEMMA StoppedRec == RecInv /\ Stopped => RecInv'
<1> SUFFICES ASSUME RecInv, Stopped PROVE RecInv'
  OBVIOUS
<1>1. /\ UNCHANGED <<clock, ring, recorded, torn, drain, received>>
      /\ main.at \in {"end", "pushed"} /\ main' = NoCall /\ phase' = "drain"
  BY DEF Stopped
<1>2. main'.at = "idle" /\ "call" \notin DOMAIN main'
  BY <1>1 DEF NoCall
<1>3. PICK w : /\ w \in {writer, WFail(writer, "sink rejected data")}
               /\ writer' = [w EXCEPT !.finished = TRUE]
  BY DEF Stopped
<1>4. /\ IsWriter(w) /\ w.used = writer.used /\ w.events = writer.events
      /\ w.last_ts = writer.last_ts /\ w.err \in {writer.err, "sink rejected data"}
  BY <1>3, WriterIs, FailIs, ZenonT(60)
<1>5. /\ IsWriter(writer') /\ writer'.used = w.used /\ writer'.events = w.events
      /\ writer'.last_ts = w.last_ts /\ writer'.err = w.err
  <2>1. PICK yes : yes = TRUE
    OBVIOUS
  <2>2. writer' = [w EXCEPT !.finished = yes]
    BY <1>3, <2>1
  <2> QED
    BY <1>4, <2>2 DEF IsWriter
<1>6. \A lo, hi : Carries(main', lo, hi)
  BY <1>2 DEF Carries
<1> QED
  BY <1>1, <1>2, <1>4, <1>5, <1>6, WriterIs, WriterMoves

--------------------------------------------------------------------------------
(* A handler, and the consumer.                                              *)

\* What a handler finds and leaves behind: the same, and the same order, as between
\* two calls of the main loop.
Kept(s) ==
    /\ InStep(s.clock, s.samples) /\ (~s.clock.primed => s.clock.last_raw = 0)
    /\ IsWriter(s.w) /\ IsRing(s.sink)
    /\ IsSeq(s.recorded) /\ s.w.events = Len(s.recorded)

InOrder(s) ==
    /\ s.w.used <= PayloadCap
    /\ Between(s.w.last_ts, s.w.last_ts, Value(s.clock)) /\ Value(s.clock) \in Int
    /\ s.w.err # "non-monotonic timestamp"

\* One call of the writer from a handler.
LEMMA AtomicIs ==
    ASSUME PushesToTheRing, NEW state, Kept(state), NEW t \in Nat, NEW call,
           "ts" \in DOMAIN call, NEW o \in Atomic(state, t, call)
    PROVE  Kept(o) /\ Pushed(state.sink, o.sink) /\ (InOrder(state) => InOrder(o))
<1>1. PICK c, ev : c = Extend(state.clock, t % Wrap) /\ ev = [call EXCEPT !.ts = Value(c)]
  OBVIOUS
<1>2. PICK p \in Write(state.w, state.sink, ev, 1) :
         o = [clock |-> c, samples |-> Sampled(state.samples, t), w |-> p.w,
              sink |-> p.sink,
              recorded |-> IF p.w.events > state.w.events
                           THEN Append(state.recorded, ev) ELSE state.recorded]
  BY <1>1 DEF Atomic
<1>3. ev.ts = Value(c)
  BY <1>1
<1>4. /\ o.clock = c /\ o.w = p.w /\ o.sink = p.sink
      /\ o.recorded = IF p.w.events > state.w.events
                      THEN Append(state.recorded, ev) ELSE state.recorded
  BY <1>2
<1>5. InStep(o.clock, o.samples)
  BY AtomicClock DEF Kept
<1>6. /\ c.primed /\ Value(state.clock) \in Int /\ Value(c) \in Int
      /\ Value(state.clock) <= Value(c)
  BY ONLY <1>1, Kept(state), t \in Nat, ExtendGrows DEF Kept
<1>7. /\ IsWriter(p.w) /\ Pushed(state.sink, p.sink)
      /\ p.w.used <= PayloadCap \/ p.w.used = state.w.used
      /\ p.w.events \in {state.w.events, state.w.events + 1}
      /\ ~(ev.ts < state.w.last_ts) =>
            p.w.err = state.w.err /\ p.w.last_ts \in {state.w.last_ts, ev.ts}
  BY <1>2, WriteIs DEF Kept
<1>8. IsSeq(o.recorded) /\ o.w.events = Len(o.recorded)
  <2>1. IsSeq(state.recorded) /\ state.w.events = Len(state.recorded) /\ state.w.events \in Nat
    BY DEF Kept, IsWriter
  <2>2. CASE p.w.events = state.w.events
    <3>1. o.recorded = state.recorded
      BY <1>4, <2>1, <2>2
    <3> QED
      BY <1>4, <2>1, <2>2, <3>1
  <2>3. CASE p.w.events = state.w.events + 1
    <3>1. o.recorded = Append(state.recorded, ev)
      BY <1>4, <2>1, <2>3
    <3> QED
      BY <1>4, <2>1, <2>3, <3>1, SeqFacts
  <2> QED
    BY <1>7, <2>2, <2>3
<1>9. Kept(o)
  BY <1>4, <1>5, <1>6, <1>7, <1>8 DEF Kept, Pushed
<1>10. ASSUME InOrder(state) PROVE InOrder(o)
  <2>1. PICK lo, mid, hi : lo = state.w.last_ts /\ mid = Value(state.clock) /\ hi = Value(c)
    OBVIOUS
  <2>2. lo \in Int /\ lo <= mid /\ mid \in Int /\ hi \in Int /\ mid <= hi
    BY <1>6, <1>10, <2>1 DEF InOrder, Between
  <2>3. Between(lo, lo, hi) /\ Between(hi, hi, hi) /\ ~(hi < lo)
    BY ONLY <2>2 DEF Between
  <2>4. /\ p.w.err = state.w.err /\ p.w.last_ts \in {lo, hi}
    BY <1>3, <1>7, <2>1, <2>3
  <2>5. Between(p.w.last_ts, p.w.last_ts, hi)
    BY <2>3, <2>4
  <2>6. p.w.used <= PayloadCap
    BY <1>7, <1>10 DEF InOrder
  <2> QED
    BY <1>4, <1>6, <1>10, <2>1, <2>4, <2>5, <2>6 DEF InOrder
<1> QED
  BY <1>4, <1>7, <1>9, <1>10

\* Two pushes one after the other.
LEMMA PushedTwice ==
    ASSUME NEW r, IsRing(r), NEW p, NEW q, Pushed(r, p), Pushed(p, q)
    PROVE  Pushed(r, q)
<1>1. r.head \in Nat /\ p.head \in Nat /\ q.head \in Nat
  BY DEF Pushed, IsRing
<1> QED
  BY <1>1 DEF Pushed

\* A handler: what it breaks it breaks inside the main loop's call.
LEMMA HandlerRec ==
    ASSUME PushesToTheRing, ClockInv, RecInv, Handler PROVE RecInv'
<1>1. /\ phase = "run" /\ UNCHANGED <<phase, drain, received>>
      /\ torn' = (torn \/ main.at # "idle")
  BY DEF Handler, UNCHANGED_link
<1>2. PICK gap \in Gaps : time' = time + gap + 1
  BY DEF Handler
<1> DEFINE t == time' - 1
<1>3. t \in Nat /\ time' \in Nat
  BY <1>2, RecorderAssumption DEF ClockInv, Fresh
<1>4. PICK n : \E s \in Atomic([clock |-> clock, samples |-> samples, w |-> writer,
                      recorded |-> recorded,
                      sink |-> IF main.at = "pushing"
                               THEN CopyUnits(ring, main.piece, main.head,
                                              main.copied + 1, n)
                               ELSE ring], t, IrqEvent(0, 1)) :
                \E o \in Atomic(s, time', ReadEvent(0, 5)) :
                   /\ clock' = o.clock /\ samples' = o.samples
                   /\ writer' = o.w /\ ring' = o.sink /\ recorded' = o.recorded
                   /\ main' = IF main.at = "pushing" THEN [main EXCEPT !.copied = n]
                              ELSE main
  BY DEF Handler
<1>5. PICK sink : sink = IF main.at = "pushing"
                         THEN CopyUnits(ring, main.piece, main.head, main.copied + 1, n)
                         ELSE ring
  OBVIOUS
<1> DEFINE now == [clock |-> clock, samples |-> samples, w |-> writer,
                   recorded |-> recorded, sink |-> sink]
<1>6. PICK s \in Atomic(now, t, IrqEvent(0, 1)) :
          \E o \in Atomic(s, time', ReadEvent(0, 5)) :
             /\ clock' = o.clock /\ samples' = o.samples
             /\ writer' = o.w /\ ring' = o.sink /\ recorded' = o.recorded
             /\ main' = IF main.at = "pushing" THEN [main EXCEPT !.copied = n] ELSE main
  BY <1>4, <1>5
<1>7. PICK o \in Atomic(s, time', ReadEvent(0, 5)) :
             /\ clock' = o.clock /\ samples' = o.samples
             /\ writer' = o.w /\ ring' = o.sink /\ recorded' = o.recorded
             /\ main' = IF main.at = "pushing" THEN [main EXCEPT !.copied = n] ELSE main
  BY <1>6
<1>8. /\ now.clock = clock /\ now.samples = samples /\ now.w = writer
      /\ now.recorded = recorded /\ now.sink = sink
  OBVIOUS
<1> HIDE DEF now, t
<1>9. IsRing(sink) /\ sink.tail = ring.tail /\ sink.head = ring.head
  BY <1>5, CallIs, CopyIs
<1>10. Kept(now)
  BY <1>8, <1>9 DEF Kept, ClockInv, RecInv, Counted, Timely
<1>11. ~torn => InOrder(now)
  BY <1>8 DEF InOrder, RecInv, Fitting, Timely
<1>12. /\ "ts" \in DOMAIN IrqEvent(0, 1) /\ "ts" \in DOMAIN ReadEvent(0, 5)
  BY DEF IrqEvent, ReadEvent
<1>13. Kept(s) /\ Pushed(sink, s.sink) /\ (InOrder(now) => InOrder(s))
  BY <1>3, <1>6, <1>8, <1>10, <1>12, AtomicIs
<1>14. Kept(o) /\ Pushed(s.sink, o.sink) /\ (InOrder(s) => InOrder(o))
  BY <1>3, <1>7, <1>12, <1>13, AtomicIs
<1>15. Pushed(sink, ring')
  BY <1>7, <1>9, <1>13, <1>14, PushedTwice
<1>16. /\ DOMAIN main' = DOMAIN main /\ main'.at = main.at
       /\ main.at # "pushing" => main' = main
       /\ main.at = "pushing" /\ "piece" \in DOMAIN main => main'.piece = main.piece
  <2>1. CASE main.at = "pushing"
    <3>1. main' = [main EXCEPT !.copied = n] /\ "at" \in DOMAIN main
      BY <1>7, <2>1 DEF ClockInv, MainShape, Placed
    <3> QED
      BY <2>1, <3>1
  <2>2. CASE main.at # "pushing"
    BY <1>7, <2>2
  <2> QED
    BY <2>1, <2>2
<1>17. Alone'
  BY <1>1, <1>16 DEF RecInv, Alone
<1>18. Counted'
  <2>1. IsWriter(writer') /\ IsSeq(recorded') /\ writer'.events = Len(recorded')
    BY <1>7, <1>14 DEF Kept
  <2>2. IsRing(ring') /\ ring'.tail = ring.tail
    BY <1>9, <1>15 DEF Pushed
  <2>3. IsSeq(received') /\ Len(received') = ring'.tail
    BY <1>1, <2>2 DEF RecInv, Counted
  <2> QED
    BY <2>1, <2>2, <2>3 DEF Counted, IsWriter, IsRing, IsSeq
<1>19. ~torn' => ~torn /\ main.at = "idle" /\ main' = main /\ InOrder(o)
  BY <1>1, <1>11, <1>13, <1>14, <1>16
<1>20. Fitting'
  <2>1. main'.at = "pushing" => "piece" \in DOMAIN main' /\ PieceLen(main'.piece) \in Nat
    BY <1>16 DEF RecInv, Fitting
  <2>2. ~torn' => UsedUnits(ring') <= Cap
    BY <1>9, <1>15, <1>19, CallIs DEF Pushed, UsedUnits
  <2>3. ~torn' => writer'.used <= PayloadCap
    BY <1>7, <1>19 DEF InOrder
  <2> QED
    BY <1>16, <1>19, <2>1, <2>2, <2>3 DEF Fitting, UsedUnits, PieceLen
<1>21. Timely'
  <2>1. ~clock'.primed => clock'.last_raw = 0
    BY <1>7, <1>14 DEF Kept
  <2>2. ~torn' => /\ Between(writer'.last_ts, writer'.last_ts, Value(clock'))
                  /\ Value(clock') \in Int /\ writer'.err # "non-monotonic timestamp"
    BY <1>7, <1>19 DEF InOrder
  <2>3. ~torn' => "call" \notin DOMAIN main
    BY <1>19, CallIs DEF Carries
  <2>4. ~torn' => \A lo, hi : Carries(main', lo, hi)
    BY <1>19, <2>3 DEF Carries
  <2>5. Value(clock)' = Value(clock')
    BY DEF Value
  <2> QED
    BY <2>1, <2>2, <2>4, <2>5 DEF Timely
<1> QED
  BY <1>17, <1>18, <1>20, <1>21 DEF RecInv

\* What peek offers is in the ring.
LEMMA ChunkIs == RecInv => Chunk \in Int /\ Chunk <= UsedUnits(ring)
<1> SUFFICES ASSUME RecInv PROVE Chunk \in Int /\ Chunk <= UsedUnits(ring)
  OBVIOUS
<1>1. PICK a, b, c : /\ a = Cap - (ring.tail % Cap) /\ b = UsedUnits(ring)
                     /\ c = DrainLimit - drain.sent
  OBVIOUS
<1>2. a \in Int /\ b \in Int /\ c \in Int
  <2>1. drain.sent \in Nat /\ ring.head \in Nat /\ ring.tail \in Nat
    BY CallIs DEF RecInv, Alone
  <2>2. Cap \in Nat \ {0} /\ DrainLimit \in Nat
    BY RecorderAssumption
  <2>3. ring.tail % Cap \in Int
    BY <2>1, <2>2
  <2> QED
    BY <1>1, <2>1, <2>2, <2>3 DEF UsedUnits
<1>3. PICK ends : /\ ends = {a, b} \cup (IF phase = "run" THEN {c} ELSE {})
                  /\ Chunk = CHOOSE n \in ends : \A e \in ends : n <= e
  BY <1>1 DEF Chunk
<1>4. b \in ends /\ ends \subseteq Int
  BY <1>2, <1>3
<1>5. \E n \in ends : \A e \in ends : n <= e
  <2>1. ends = {a, b} \/ ends = {a, b, c}
    BY <1>3
  <2>2. CASE ends = {a, b}
    <3>1. a <= b \/ b <= a
      BY ONLY <1>2
    <3> QED
      BY <1>2, <2>2, <3>1
  <2>3. CASE ends = {a, b, c}
    <3>1. \/ a <= b /\ a <= c
          \/ b <= a /\ b <= c
          \/ c <= a /\ c <= b
      BY ONLY <1>2
    <3> QED
      BY <1>2, <2>3, <3>1
  <2> QED
    BY <2>1, <2>2, <2>3
<1>6. Chunk \in ends /\ \A e \in ends : Chunk <= e
  BY <1>3, <1>5
<1> QED
  BY <1>1, <1>4, <1>6

\* A step of the consumer: what leaves the ring is what the link has carried.
LEMMA LinkMoves ==
    ASSUME RecInv, main.at = "idle", UNCHANGED <<clock, writer, main, recorded, torn>>,
           phase' \in {"run", "drain", "over"},
           drain' = [on |-> drain'.on, sent |-> drain'.sent], drain'.sent \in Nat,
           IsRing(ring'), IsSeq(received'), Len(received') = ring'.tail,
           ~torn => UsedUnits(ring') <= Cap
    PROVE  RecInv'
<1>1. Value(clock)' = Value(clock) /\ UsedUnits(ring)' = UsedUnits(ring')
  BY DEF Value, UsedUnits
<1>2. Alone'
  BY DEF Alone
<1>3. Counted'
  BY DEF RecInv, Counted, IsWriter, IsRing, IsSeq
<1>4. Fitting'
  BY <1>1 DEF RecInv, Fitting
<1>5. Timely'
  BY <1>1 DEF RecInv, Timely
<1> QED
  BY <1>2, <1>3, <1>4, <1>5 DEF RecInv

\* The consumer, step by step.
LEMMA ConsumerRec == RecInv /\ Consumer => RecInv'
<1> SUFFICES ASSUME RecInv, Consumer PROVE RecInv'
  OBVIOUS
<1>1. /\ UNCHANGED <<clock, writer, main, recorded, torn>>
      /\ main.at = "idle" /\ phase \in {"run", "drain", "over"}
  BY DEF Consumer, StartDrain, DrainChunk, DrainReturns, MainFree, RecInv, Alone
<1>2. /\ IsRing(ring) /\ IsSeq(received) /\ Len(received) = ring.tail
      /\ ~torn => UsedUnits(ring) <= Cap
  BY CallIs DEF RecInv, Counted
<1>3. CASE StartDrain \/ DrainReturns
  <2>1. /\ phase' \in {"run", "drain", "over"} /\ UNCHANGED <<ring, received>>
        /\ \E on : drain' = [on |-> on, sent |-> 0]
    BY <1>1, <1>3 DEF StartDrain, DrainReturns
  <2>2. drain' = [on |-> drain'.on, sent |-> drain'.sent] /\ drain'.sent \in Nat
    BY <2>1
  <2>3. IsRing(ring') /\ IsSeq(received') /\ UsedUnits(ring') = UsedUnits(ring)
    BY <1>2, <2>1 DEF UsedUnits
  <2> QED
    BY <1>1, <1>2, <2>1, <2>2, <2>3, LinkMoves
<1>4. CASE DrainChunk
  <2>1. PICK n \in 1 .. Chunk :
           /\ received' = received \o [u \in 1 .. n |-> ring.store[(ring.tail + u - 1) % Cap]]
           /\ ring' = [ring EXCEPT !.tail = @ + n]
           /\ drain' = [drain EXCEPT !.sent = @ + n]
    BY <1>4 DEF DrainChunk
  <2>2. /\ n \in Nat /\ ring.head \in Nat /\ ring.tail \in Nat
        /\ n <= ring.head - ring.tail /\ Cap \in Nat
    <3>1. PICK k, u : k = Chunk /\ u = UsedUnits(ring)
      OBVIOUS
    <3>2. k \in Int /\ k <= u /\ n \in 1 .. k
      BY <2>1, <3>1, ChunkIs
    <3>3. ring.head \in Nat /\ ring.tail \in Nat /\ u = ring.head - ring.tail /\ Cap \in Nat
      BY <3>1, CallIs DEF UsedUnits
    <3> QED
      BY ONLY <3>2, <3>3
  <2>3. IsRing(ring') /\ ring'.tail = ring.tail + n /\ ring'.head = ring.head
    <3>1. PICK r, m : r = ring /\ m = ring.tail + n
      OBVIOUS
    <3>2. IsRing(r) /\ ring' = [r EXCEPT !.tail = m] /\ m \in Nat /\ m <= r.head
      BY <1>2, <2>1, <2>2, <3>1, SMTT(60)
    <3>3. IsRing(ring') /\ ring'.tail = m /\ ring'.head = r.head
      BY <3>2 DEF IsRing
    <3> QED
      BY <3>1, <3>3
  <2>4. IsSeq(received') /\ Len(received') = ring'.tail
    <3>1. PICK units : units = [u \in 1 .. n |-> ring.store[(ring.tail + u - 1) % Cap]]
      OBVIOUS
    <3>2. units \in Seq({units[i] : i \in 1 .. n}) /\ Len(units) = n
      <4>1. DOMAIN units = 1 .. n /\ units = [u \in 1 .. n |-> units[u]]
        BY <3>1
      <4>2. PICK S : S = {units[i] : i \in 1 .. n}
        OBVIOUS
      <4>3. \A u \in 1 .. n : units[u] \in S
        BY <4>2
      <4>4. units \in [1 .. n -> S]
        BY ONLY <4>1, <4>3
      <4>5. units \in Seq(S) /\ Len(units) = n
        BY ONLY <4>4, <2>2
      <4> QED
        BY <4>2, <4>5
    <3>3. IsSeq(units)
      BY <3>2 DEF IsSeq
    <3> QED
      BY <1>2, <2>1, <2>3, <3>1, <3>2, <3>3, SeqFacts, SMTT(60)
  <2>5. drain' = [on |-> drain'.on, sent |-> drain'.sent] /\ drain'.sent \in Nat
    <3>1. PICK d, m : d = drain /\ m = drain.sent + n
      OBVIOUS
    <3>2. d = [on |-> d.on, sent |-> d.sent] /\ m \in Nat /\ drain' = [d EXCEPT !.sent = m]
      BY <2>1, <2>2, <3>1 DEF RecInv, Alone
    <3> QED
      BY <3>2
  <2>6. ~torn => UsedUnits(ring') <= Cap
    BY <1>2, <2>2, <2>3 DEF UsedUnits
  <2>7. phase' = phase
    BY <1>4 DEF DrainChunk
  <2> QED
    BY <1>1, <2>3, <2>4, <2>5, <2>6, <2>7, LinkMoves, SMTT(60)
<1> QED
  BY <1>3, <1>4 DEF Consumer

--------------------------------------------------------------------------------
(* What the recorder promises of its state.                                  *)

\* Every step keeps it,
LEMMA NextRec ==
    ASSUME PushesToTheRing, ClockInv, RecInv, [RecNext]_recvars PROVE RecInv'
<1>1. CASE MainStep
  BY <1>1, SampleRec, StampRec, EncodeRec, RoomRec, FrameRec, PushBlockRec, PushEndRec,
     PublishRec, SpendRec, AppendRec, CommitRec, StoppedRec DEF MainStep
<1>2. CASE Handler
  BY <1>2, HandlerRec
<1>3. CASE Consumer
  BY <1>3, ConsumerRec
<1>4. CASE UNCHANGED recvars
  <2>1. UNCHANGED <<phase, clock, writer, ring, main, drain, received, recorded, torn>>
    BY <1>4 DEF recvars
  <2>2. Value(clock)' = Value(clock) /\ UsedUnits(ring)' = UsedUnits(ring)
    BY <2>1 DEF Value, UsedUnits
  <2>3. Alone' /\ Counted'
    BY <2>1 DEF RecInv, Alone, Counted, IsWriter, IsRing, IsSeq
  <2>4. Fitting' /\ Timely'
    BY <2>1, <2>2 DEF RecInv, Fitting, Timely
  <2> QED
    BY <2>3, <2>4 DEF RecInv
<1> QED
  BY <1>1, <1>2, <1>3, <1>4 DEF RecNext

\* and so it always holds.
LEMMA RecInvariance == ASSUME PushesToTheRing PROVE RecSpec => [](ClockInv /\ RecInv)
<1>1. RecInit => ClockInv /\ RecInv
  BY InitClock, InitRec
<1>2. ClockInv /\ RecInv /\ [RecNext]_recvars => (ClockInv /\ RecInv)'
  BY NextClock, NextRec
<1> QED
  BY <1>1, <1>2, PTL DEF RecSpec

\* The shape of the recorder's state, for every capacity of the ring and of the block:
\* the units the link has carried are those the consumer has released, the writer
\* counts what it has staged, and with the main loop's calls alone neither the ring
\* nor the block buffer overflows (RecTypeOK).
THEOREM RecTypeCorrect == ASSUME PushesToTheRing PROVE RecSpec => []RecTypeOK
<1>1. RecInv => RecTypeOK
  <2> SUFFICES ASSUME RecInv PROVE RecTypeOK
    OBVIOUS
  <2>1. writer.used \in Nat /\ PayloadCap \in Nat
    BY WriterIs
  <2>2. ~torn => writer.used \in 0 .. PayloadCap
    <3>1. ~torn => writer.used <= PayloadCap
      BY WriterIs
    <3> QED
      BY <2>1, <3>1
  <2> QED
    BY <2>2, CallIs DEF RecTypeOK, RecInv, Alone, Counted, IsRing
<1> QED
  BY <1>1, RecInvariance, PTL

\* Time in the trace never runs backwards, so that the writer latches no error for it,
\* unless a handler has recorded inside the main loop's call (LatchedOnlyIfTorn):
\* however the samples come, the extended clock only moves forward, and a call carries
\* a time no later than the clock and no earlier than the last one in the trace.
THEOREM LatchedCorrect == ASSUME PushesToTheRing PROVE RecSpec => []LatchedOnlyIfTorn
<1>1. RecInv => LatchedOnlyIfTorn
  BY DEF RecInv, Timely, LatchedOnlyIfTorn
<1> QED
  BY <1>1, RecInvariance, PTL

--------------------------------------------------------------------------------
(* The units on their way to the host.                                       *)

\* The unit that was number i of all that were pushed: the link has carried it, or
\* it is still in the ring.
UnitAt(r, rcv, i) == IF i < r.tail THEN rcv[i + 1] ELSE r.store[i % Cap]

\* Two positions of one cell are a turn apart.
LEMMA CellsApart ==
    ASSUME NEW a \in Nat, NEW b \in Nat, a < b, b - a < Cap
    PROVE  a % Cap # b % Cap
<1> SUFFICES ASSUME a % Cap = b % Cap PROVE FALSE
  OBVIOUS
<1> DEFINE q == a \div Cap
           p == b \div Cap
           r == a % Cap
<1>1. Cap \in Nat \ {0}
  BY RecorderAssumption
<1>2. q \in Int /\ p \in Int /\ r \in Int /\ a = Cap * q + r /\ b = Cap * p + r
  BY <1>1
<1> HIDE DEF q, p, r
<1>3. b - a = Cap * (p - q)
  BY <1>1, <1>2, SMTT(60)
<1>4. CASE p - q <= 0
  <2>1. Cap * (p - q) <= 0
    BY <1>1, <1>2, <1>4, SMTT(60)
  <2> QED
    BY <1>1, <1>2, <1>3, <2>1
<1>5. CASE p - q >= 1
  <2>1. Cap * (p - q) >= Cap
    BY <1>1, <1>2, <1>5, SMTT(60)
  <2> QED
    BY <1>1, <1>2, <1>3, <2>1
<1> QED
  BY <1>1, <1>2, <1>4, <1>5

\* A push of n units to the head of a ring that has room for them.
Grown(r, piece, n, q) ==
    /\ IsRing(r) /\ n \in Nat /\ n = PieceLen(piece) /\ UsedUnits(r) + n <= Cap
    /\ q = Publish(CopyUnits(r, piece, r.head, 1, n), piece)

\* What was in the ring stays where it was, and the piece is behind it.
LEMMA UnitsPublished ==
    ASSUME NEW r, NEW rcv, NEW piece, NEW n, NEW q, Grown(r, piece, n, q)
    PROVE  /\ q.head = r.head + n /\ q.tail = r.tail /\ q.drops = r.drops
           /\ \A i \in 0 .. r.head - 1 : UnitAt(q, rcv, i) = UnitAt(r, rcv, i)
           /\ \A u \in 1 .. n :
                 UnitAt(q, rcv, r.head + u - 1) = [piece |-> piece, unit |-> u]
<1>0. /\ IsRing(r) /\ n \in Nat /\ n = PieceLen(piece) /\ UsedUnits(r) + n <= Cap
      /\ q = Publish(CopyUnits(r, piece, r.head, 1, n), piece)
  BY DEF Grown
<1>1. /\ Cap \in Nat \ {0} /\ r.head \in Nat /\ r.tail \in Nat /\ r.tail <= r.head
      /\ r.head - r.tail + n <= Cap /\ n \in Nat
  BY <1>0, RecorderAssumption DEF IsRing, UsedUnits
<1> DEFINE Here(k) == {u \in 1 .. n : (r.head + u - 1) % Cap = k}
<1>2. PICK store : store = [k \in 0 .. Cap - 1 |->
            IF Here(k) = {} THEN r.store[k]
            ELSE [piece |-> piece,
                  unit |-> CHOOSE u \in Here(k) : \A v \in Here(k) : v <= u]]
  OBVIOUS
<1>3. CopyUnits(r, piece, r.head, 1, n) = [r EXCEPT !.store = store]
  BY <1>2 DEF CopyUnits
<1>4. /\ q.head = r.head + n /\ q.tail = r.tail /\ q.drops = r.drops
      /\ q.store = store
  <2>1. PICK h : h = r.head + n
    OBVIOUS
  <2>2. q = [store |-> store, head |-> h, tail |-> r.tail, drops |-> r.drops]
    BY <1>0, <1>3, <2>1 DEF Publish, IsRing
  <2> QED
    BY <2>1, <2>2
<1>5. ASSUME NEW i \in 0 .. r.head - 1 PROVE UnitAt(q, rcv, i) = UnitAt(r, rcv, i)
  <2>1. CASE i < r.tail
    BY <1>4, <2>1 DEF UnitAt
  <2>2. CASE ~(i < r.tail)
    <3> DEFINE k == i % Cap
    <3>1. k \in 0 .. Cap - 1
      BY <1>1
    <3>2. Here(k) = {}
      <4> SUFFICES ASSUME NEW u \in 1 .. n, (r.head + u - 1) % Cap = k PROVE FALSE
        OBVIOUS
      <4>1. /\ i \in Nat /\ r.head + u - 1 \in Nat /\ i < r.head + u - 1 
            /\ (r.head + u - 1) - i < Cap
        BY <1>1, <2>2
      <4> QED
        BY <4>1, CellsApart
    <3> HIDE DEF k, Here
    <3>3. store[k] = r.store[k]
      BY <1>2, <3>1, <3>2
    <3> QED
      BY <1>4, <2>2, <3>3 DEF UnitAt, k
  <2> QED
    BY <2>1, <2>2
<1>6. ASSUME NEW u \in 1 .. n
      PROVE  UnitAt(q, rcv, r.head + u - 1) = [piece |-> piece, unit |-> u]
  <2> DEFINE i == r.head + u - 1
             k == i % Cap
  <2>1. i \in Nat /\ k \in 0 .. Cap - 1 /\ ~(i < r.tail)
    BY <1>1, SMTT(60)
  <2>2. Here(k) = {u}
    <3>1. ASSUME NEW v \in 1 .. n, (r.head + v - 1) % Cap = k, v # u PROVE FALSE
      <4>1. r.head + v - 1 \in Nat
        BY <1>1
      <4>2. CASE v < u
        <5>1. r.head + v - 1 < i /\ i - (r.head + v - 1) < Cap
          BY <1>1, <4>2
        <5> QED
          BY <2>1, <3>1, <4>1, <5>1, CellsApart
      <4>3. CASE u < v
        <5>1. i < r.head + v - 1 /\ (r.head + v - 1) - i < Cap
          BY <1>1, <4>3
        <5> QED
          BY <2>1, <3>1, <4>1, <5>1, CellsApart
      <4> QED
        BY <3>1, <4>2, <4>3
    <3> QED
      BY <3>1
  <2> HIDE DEF k, Here, i
  <2>3. store[k] = [piece |-> piece, unit |-> u]
    <3>1. (CHOOSE v \in {u} : \A w \in {u} : w <= v) = u
      <4>1. \A w \in {u} : w <= u
        OBVIOUS
      <4> QED
        BY <4>1
    <3> QED
      BY <1>2, <2>1, <2>2, <3>1, SMTT(60)
  <2> QED
    BY <1>4, <2>1, <2>3 DEF UnitAt, k, i
<1> QED
  BY <1>4, <1>5, <1>6

\* The link, which has carried rcv, takes n units more.
TakenOut(r, rcv, n, q, more) ==
    /\ IsRing(r) /\ IsSeq(rcv) /\ Len(rcv) = r.tail
    /\ n \in Nat /\ r.tail + n <= r.head
    /\ more = rcv \o [u \in 1 .. n |-> r.store[(r.tail + u - 1) % Cap]]
    /\ q.store = r.store /\ q.head = r.head /\ q.tail = r.tail + n /\ q.drops = r.drops

\* What the link takes of the ring is what it carried next.
LEMMA UnitsDrained ==
    ASSUME NEW r, NEW rcv, NEW n, NEW q, NEW more, TakenOut(r, rcv, n, q, more)
    PROVE  \A i \in 0 .. r.head - 1 : UnitAt(q, more, i) = UnitAt(r, rcv, i)
<1>1. r.head \in Nat /\ r.tail \in Nat
  BY DEF TakenOut, IsRing
<1>2. /\ q.tail = r.tail + n /\ q.store = r.store /\ IsSeq(rcv) /\ Len(rcv) = r.tail
      /\ n \in Nat /\ r.tail + n <= r.head
      /\ more = rcv \o [u \in 1 .. n |-> r.store[(r.tail + u - 1) % Cap]]
  BY DEF TakenOut
<1> DEFINE units == [u \in 1 .. n |-> r.store[(r.tail + u - 1) % Cap]]
<1>3. /\ \A j \in 1 .. r.tail : more[j] = rcv[j]
      /\ \A u \in 1 .. n : more[r.tail + u] = units[u]
  <2> DEFINE S == {rcv[j] : j \in 1 .. Len(rcv)}
             U == {units[j] : j \in 1 .. n}
  <2>1. rcv \in Seq(S)
    BY <1>2 DEF IsSeq
  <2>2. units \in Seq(U) /\ Len(units) = n
    <3>1. \A u \in 1 .. n : units[u] \in U
      OBVIOUS
    <3>2. units = [u \in 1 .. n |-> units[u]]
      OBVIOUS
    <3> HIDE DEF U, units
    <3>3. units \in [1 .. n -> U]
      BY ONLY <3>1, <3>2
    <3> QED
      BY ONLY <1>2, <3>3
  <2> HIDE DEF S, U, units
  <2>3. rcv \in Seq(S \cup U) /\ units \in Seq(S \cup U)
    BY <2>1, <2>2
  <2>4. more = rcv \o units
    BY <1>2 DEF units
  <2>5. /\ \A j \in 1 .. Len(rcv) : more[j] = rcv[j]
        /\ \A u \in 1 .. Len(units) : more[Len(rcv) + u] = units[u]
    BY ONLY <2>3, <2>4
  <2> QED
    BY <1>2, <2>2, <2>5
<1>4. ASSUME NEW i \in 0 .. r.head - 1 PROVE UnitAt(q, more, i) = UnitAt(r, rcv, i)
  <2>1. CASE i < r.tail
    <3>1. i + 1 \in 1 .. r.tail /\ i < r.tail + n
      BY <1>1, <1>2, <2>1
    <3> QED
      BY <1>2, <1>3, <2>1, <3>1 DEF UnitAt
  <2>2. CASE ~(i < r.tail) /\ i < r.tail + n
    <3> DEFINE u == i + 1 - r.tail
    <3>1. u \in 1 .. n /\ r.tail + u = i + 1 /\ r.tail + u - 1 = i
      <4>1. i \in Nat /\ r.tail \in Nat /\ n \in Nat
        BY <1>1, <1>2
      <4> QED
        BY ONLY <2>2, <4>1 DEF u
    <3> HIDE DEF u
    <3>2. more[i + 1] = r.store[i % Cap]
      BY <1>3, <3>1
    <3> QED
      BY <1>2, <2>2, <3>2 DEF UnitAt
  <2>3. CASE ~(i < r.tail + n)
    <3>1. ~(i < r.tail)
      BY <1>1, <1>2, <2>3
    <3> QED
      BY <1>2, <2>3, <3>1 DEF UnitAt
  <2> QED
    BY <2>1, <2>2, <2>3, SMTT(60)
<1> QED
  BY <1>4

\* All that was pushed, as one stream.
Stream(r, rcv) == [i \in 0 .. r.head - 1 |-> UnitAt(r, rcv, i)]

--------------------------------------------------------------------------------
(* What the stream tells of the recording.                                   *)

\* A block as it was sent, which holds its share of the recording.
IsBlock(cuts, blocks, rec, b) ==
    /\ b \in ArrivedSet /\ b.kind = "block" /\ b.damage = "none"
    /\ Sound(cuts, blocks, rec, b)

\* The header is the first unit; all others are of sound blocks, or the terminator's.
Stowed(cuts, blocks, rec, units, head) ==
    /\ \A i \in 0 .. head - 1 :
          \/ i = 0 /\ units[i].piece = HeaderPiece
          \/ units[i].piece = EndPiece
          \/ IsBlock(cuts, blocks, rec, units[i].piece)

\* The units of block s, which is not empty, lie behind those of the blocks before it.
Tile(cuts, blocks, rec, units, head, s) ==
    /\ cuts[s] < cuts[s + 1]
    /\ \E b : /\ IsBlock(cuts, blocks, rec, b) /\ b.seq = s
              /\ s + cuts[s] + PieceLen(b) < head
              /\ \A u \in 1 .. PieceLen(b) :
                    units[s + cuts[s] + u] = [piece |-> b, unit |-> u]

\* With nothing refused the stream is the header, every block, and the terminator.
Whole(cuts, blocks, rec, units, head, ends) ==
    /\ units[0] = [piece |-> HeaderPiece, unit |-> 1]
    /\ \A s \in 0 .. blocks - 1 : Tile(cuts, blocks, rec, units, head, s)
    /\ head = 1 + blocks + cuts[blocks] + (IF ends THEN 1 ELSE 0)
    /\ ends => units[head - 1] = [piece |-> EndPiece, unit |-> 1]

\* The writer holds the events behind those of the blocks it has sent.  The pending
\* block counts as sent (blocks) when its push is over and it is not yet spent.
Shares(cuts, w, rec, blocks) ==
    /\ rec \in Seq(EventSet)
    /\ cuts \in [Nat -> Nat] /\ cuts[0] = 0
    /\ w.block_seq \in Nat /\ blocks \in {w.block_seq, w.block_seq + 1}
    /\ HoldsFrom(rec, cuts[w.block_seq], w.staged)
    /\ cuts[w.block_seq] + Len(w.staged) = Len(rec)
    /\ blocks = w.block_seq + 1 => cuts[blocks] = Len(rec)
    /\ w.used = Len(w.staged)

\* All of it, by given cuts.
Told(cuts, w, r, rcv, rec, blocks, ends) ==
    /\ Shares(cuts, w, rec, blocks)
    /\ r.head \in Nat /\ r.drops \in Nat
    /\ Stowed(cuts, blocks, rec, Stream(r, rcv), r.head)
    /\ r.drops = 0 => Whole(cuts, blocks, rec, Stream(r, rcv), r.head, ends)

\* A sequence is empty when it has no elements.
LEMMA LenIs ==
    ASSUME NEW S, NEW s \in Seq(S)
    PROVE  Len(s) \in Nat /\ (s = <<>> <=> Len(s) = 0) /\ (s # <<>> => Len(s) > 0)
OBVIOUS

\* A block stays sound when an event is recorded,
LEMMA BlockOn ==
    ASSUME NEW rec \in Seq(EventSet), NEW ev \in EventSet, NEW cuts, NEW blocks, NEW b,
           IsBlock(cuts, blocks, rec, b)
    PROVE  IsBlock(cuts, blocks, Append(rec, ev), b)
<1>1. Sound(cuts, blocks, rec, b)
  BY DEF IsBlock
<1>2. HoldsFrom(Append(rec, ev), cuts[b.seq], b.payload)
  BY <1>1, HoldsOn DEF Sound
<1>3. Sound(cuts, blocks, Append(rec, ev), b)
  BY <1>1, <1>2 DEF Sound
<1> QED
  BY <1>3 DEF IsBlock

\* and when another block is cut off.
LEMMA BlockBefore ==
    ASSUME NEW rec, NEW cuts \in [Nat -> Nat], NEW blocks \in Nat, NEW b, NEW n \in Nat,
           IsBlock(cuts, blocks, rec, b), NEW d, d = [cuts EXCEPT ![blocks + 1] = n]
    PROVE  IsBlock(d, blocks + 1, rec, b)
<1>1. Sound(cuts, blocks, rec, b)
  BY DEF IsBlock
<1>2. /\ b.seq \in 0 .. blocks /\ b.seq \in Nat /\ b.seq + 1 \in Nat
      /\ b.seq # blocks + 1 /\ b.seq + 1 # blocks + 1
  <2>1. b.seq \in 0 .. blocks - 1
    BY <1>1 DEF Sound
  <2> QED
    BY <2>1
<1>3. d[b.seq] = cuts[b.seq] /\ d[b.seq + 1] = cuts[b.seq + 1]
  BY <1>2
<1>4. Sound(d, blocks + 1, rec, b)
  BY <1>1, <1>2, <1>3 DEF Sound
<1> QED
  BY <1>4 DEF IsBlock

\* An event goes behind the staged ones.
LEMMA ToldOn ==
    ASSUME NEW cuts, NEW w, NEW r, NEW rcv, NEW rec,
           Told(cuts, w, r, rcv, rec, w.block_seq, FALSE),
           NEW ev \in EventSet, NEW v,
           v.staged = Append(w.staged, EncodedAt(Append(rec, ev), Len(rec) + 1)),
           v.used = w.used + 1, v.block_seq = w.block_seq
    PROVE  Told(cuts, v, r, rcv, Append(rec, ev), v.block_seq, FALSE)
<1> DEFINE all == Append(rec, ev)
           e == EncodedAt(all, Len(rec) + 1)
           units == Stream(r, rcv)
           n == cuts[w.block_seq]
<1>1. Shares(cuts, w, rec, w.block_seq)
  BY DEF Told
<1>2. rec \in Seq(EventSet) /\ w.block_seq \in Nat /\ n \in Nat
  BY <1>1 DEF Shares
<1>3. all \in Seq(EventSet) /\ Len(all) = Len(rec) + 1 /\ Len(rec) \in Nat
  BY <1>2
<1>4. e \in EncodedSet
  <2> HIDE DEF all
  <2>1. Len(rec) + 1 \in 1 .. Len(all)
    BY <1>3
  <2> QED
    BY <1>3, <2>1, EncodedType
<1>5. \A b : IsBlock(cuts, w.block_seq, rec, b) => IsBlock(cuts, w.block_seq, all, b)
  BY <1>2, BlockOn
<1> HIDE DEF all, e, units
<1>6. /\ w.staged \in Seq(EncodedSet) /\ n + Len(w.staged) = Len(rec)
      /\ HoldsFrom(rec, n, w.staged)
  BY <1>1 DEF Shares, HoldsFrom
<1>7. v.staged = Append(w.staged, e)
  BY DEF e, all
<1>8. /\ v.staged \in Seq(EncodedSet) /\ Len(v.staged) = Len(w.staged) + 1
      /\ v.staged[Len(v.staged)] = e
      /\ \A i \in 1 .. Len(w.staged) : v.staged[i] = w.staged[i]
  BY <1>4, <1>6, <1>7
<1>9. n + Len(v.staged) = Len(all)
  <2>1. Len(w.staged) \in Nat /\ Len(rec) \in Nat /\ n \in Nat
    BY <1>2, <1>3, <1>6
  <2>2. /\ n + Len(w.staged) = Len(rec) /\ Len(v.staged) = Len(w.staged) + 1
        /\ Len(all) = Len(rec) + 1
    BY <1>3, <1>6, <1>8
  <2> QED
    BY ONLY <2>1, <2>2
<1>10. HoldsFrom(all, n, v.staged)
  <2>1. HoldsFrom(all, n, w.staged)
    BY <1>2, <1>6, HoldsOn DEF all
  <2>2. ASSUME NEW i \in 1 .. Len(v.staged) PROVE v.staged[i] = EncodedAt(all, n + i)
    <3>1. CASE i \in 1 .. Len(w.staged)
      BY <1>8, <2>1, <3>1 DEF HoldsFrom
    <3>2. CASE i = Len(v.staged)
      <4>1. n + i = Len(rec) + 1
        BY <1>3, <1>9, <3>2
      <4> QED
        BY <1>8, <3>2, <4>1 DEF e
    <3> QED
      BY <1>6, <1>8, <3>1, <3>2
  <2> QED
    BY <1>2, <1>8, <1>9, <2>2, <1>3, SMTT(60) DEF HoldsFrom
<1>11. Shares(cuts, v, all, v.block_seq)
  <2>1. v.used = Len(v.staged)
    BY <1>1, <1>8 DEF Shares
  <2>2. cuts \in [Nat -> Nat] /\ cuts[0] = 0 /\ v.block_seq \in Nat
    BY <1>1 DEF Shares
  <2>3. v.block_seq # v.block_seq + 1
    BY <2>2, SMTT(60)
  <2>4. HoldsFrom(all, cuts[v.block_seq], v.staged)
        /\ cuts[v.block_seq] + Len(v.staged) = Len(all)
    BY <1>9, <1>10 DEF n
  <2> QED
    BY <1>3, <2>1, <2>2, <2>3, <2>4 DEF Shares
<1>12. Stowed(cuts, v.block_seq, all, units, r.head)
  BY <1>5 DEF Told, Stowed, units
<1>13. r.drops = 0 => Whole(cuts, v.block_seq, all, units, r.head, FALSE)
  BY <1>5 DEF Told, Whole, Tile, units
<1> QED
  BY <1>11, <1>12, <1>13 DEF Told, units, all

\* Fields of the writer the trace does not depend on.
LEMMA ToldSame ==
    ASSUME NEW cuts, NEW w, NEW r, NEW rcv, NEW rec, NEW blocks, NEW ends,
           Told(cuts, w, r, rcv, rec, blocks, ends), NEW v,
           v.staged = w.staged, v.used = w.used, v.block_seq = w.block_seq
    PROVE  Told(cuts, v, r, rcv, rec, blocks, ends)
BY DEF Told, Shares

\* The block whose push is over is spent.
LEMMA ToldSpent ==
    ASSUME NEW cuts, NEW w, NEW r, NEW rcv, NEW rec,
           Told(cuts, w, r, rcv, rec, w.block_seq + 1, FALSE), NEW v,
           v.staged = <<>>, v.used = 0, v.block_seq = w.block_seq + 1
    PROVE  Told(cuts, v, r, rcv, rec, v.block_seq, FALSE)
<1>1. /\ rec \in Seq(EventSet) /\ cuts \in [Nat -> Nat] /\ cuts[0] = 0
      /\ v.block_seq \in Nat /\ cuts[v.block_seq] = Len(rec)
  <2>1. Shares(cuts, w, rec, w.block_seq + 1)
    BY DEF Told
  <2>2. w.block_seq + 1 \in Nat
    <3>1. w.block_seq \in Nat
      BY <2>1 DEF Shares
    <3> QED
      BY <3>1
  <2> QED
    BY <2>1, <2>2 DEF Shares
<1>2. Len(<<>>) = 0 /\ <<>> \in Seq(EncodedSet)
  OBVIOUS
<1>3. HoldsFrom(rec, cuts[v.block_seq], <<>>)
  BY <1>1, <1>2 DEF HoldsFrom
<1>4. Shares(cuts, v, rec, v.block_seq)
  BY <1>1, <1>2, <1>3 DEF Shares
<1> QED
  BY <1>4 DEF Told

\* The stream with the units of one piece behind it.
Longer(old, head, drops, piece, n, new, q) ==
    /\ head \in Nat /\ n \in Nat /\ q.head = head + n /\ q.drops = drops
    /\ \A i \in 0 .. head - 1 : new[i] = old[i]
    /\ \A u \in 1 .. n : new[head + u - 1] = [piece |-> piece, unit |-> u]

\* Seen as one stream, ring and link have the piece more and nothing else.
LEMMA StreamGrows ==
    ASSUME NEW r, NEW rcv, NEW piece, NEW n, NEW q, Grown(r, piece, n, q)
    PROVE  Longer(Stream(r, rcv), r.head, r.drops, piece, n, Stream(q, rcv), q)
<1>0. /\ IsRing(r) /\ n \in Nat /\ n = PieceLen(piece) /\ UsedUnits(r) + n <= Cap
      /\ q = Publish(CopyUnits(r, piece, r.head, 1, n), piece)
  BY DEF Grown
<1>1. r.head \in Nat
  BY <1>0 DEF IsRing
<1>2. /\ q.head = r.head + n /\ q.drops = r.drops
      /\ \A i \in 0 .. r.head - 1 : UnitAt(q, rcv, i) = UnitAt(r, rcv, i)
      /\ \A u \in 1 .. n :
            UnitAt(q, rcv, r.head + u - 1) = [piece |-> piece, unit |-> u]
  BY UnitsPublished
<1>3. \A i \in 0 .. r.head + n - 1 : Stream(q, rcv)[i] = UnitAt(q, rcv, i)
  <2> SUFFICES ASSUME NEW i \in 0 .. r.head + n - 1
               PROVE  Stream(q, rcv)[i] = UnitAt(q, rcv, i)
    OBVIOUS
  <2>1. i \in 0 .. q.head - 1
    <3>1. q.head = r.head + n
      BY <1>2
    <3>2. i \in 0 .. (r.head + n) - 1
      BY <1>0, <1>1
    <3> QED
      BY ONLY <3>1, <3>2
  <2> QED
    BY <2>1 DEF Stream
<1>4. \A i \in 0 .. r.head - 1 : Stream(r, rcv)[i] = UnitAt(r, rcv, i)
  BY DEF Stream
<1>5. \A i \in 0 .. r.head - 1 : i \in 0 .. r.head + n - 1
  BY <1>0, <1>1
<1>6. \A u \in 1 .. n : r.head + u - 1 \in 0 .. r.head + n - 1
  BY <1>0, <1>1
<1> QED
  BY <1>0, <1>1, <1>2, <1>3, <1>4, <1>5, <1>6 DEF Longer

\* The block the writer sends.
SentBlock(w) == Framed([seq |-> w.block_seq, payload |-> w.staged], w.staged)

\* It holds what the writer holds.
CutOff(cuts, w, rec, d) ==
    /\ Shares(cuts, w, rec, w.block_seq) /\ w.staged # <<>>
    /\ d = [cuts EXCEPT ![w.block_seq + 1] = Len(rec)]

Holds(cuts, w, rec, d) ==
    /\ IsBlock(d, w.block_seq + 1, rec, SentBlock(w))
    /\ SentBlock(w).seq = w.block_seq
    /\ PieceLen(SentBlock(w)) = 1 + Len(w.staged)
    /\ Len(w.staged) \in Nat /\ Len(w.staged) > 0
    /\ Shares(d, w, rec, w.block_seq + 1)
    /\ d \in [Nat -> Nat] /\ d[w.block_seq + 1] = Len(rec)
    /\ \A s \in 0 .. w.block_seq : d[s] = cuts[s]

\* With a cut at the end of the recording the staged share is a sound block.
LEMMA SentIsBlock ==
    ASSUME NEW cuts, NEW w, NEW rec, NEW d, CutOff(cuts, w, rec, d)
    PROVE  Holds(cuts, w, rec, d)
<1>0. /\ Shares(cuts, w, rec, w.block_seq) /\ w.staged # <<>>
      /\ d = [cuts EXCEPT ![w.block_seq + 1] = Len(rec)]
  BY DEF CutOff
<1> DEFINE k == w.block_seq
           b == SentBlock(w)
<1>1. /\ rec \in Seq(EventSet) /\ cuts \in [Nat -> Nat] /\ cuts[0] = 0 /\ k \in Nat
      /\ w.used = Len(w.staged)
      /\ HoldsFrom(rec, cuts[k], w.staged)
      /\ cuts[k] + Len(w.staged) = Len(rec)
  BY <1>0 DEF Shares
<1>2. w.staged \in Seq(EncodedSet)
  BY <1>1 DEF HoldsFrom
<1>3. Len(w.staged) \in Nat /\ Len(w.staged) > 0 /\ Len(rec) \in Nat
  <2>1. Len(w.staged) \in Nat /\ Len(w.staged) > 0
    BY <1>0, <1>2, LenIs, Zenon
  <2>2. Len(rec) \in Nat
    BY <1>1, LenIs, Zenon
  <2> QED
    BY <2>1, <2>2
<1>4. b = [kind |-> "block", seq |-> k, payload |-> w.staged, damage |-> "none"]
  BY DEF SentBlock, Framed
<1>5. b \in ArrivedSet
  BY <1>1, <1>2, <1>4 DEF ArrivedSet
<1>6. PieceLen(b) = 1 + Len(w.staged)
  BY <1>4 DEF PieceLen
<1> HIDE DEF k
<1>7. d = [cuts EXCEPT ![k + 1] = Len(rec)]
  BY <1>0 DEF k
<1>8. /\ d \in [Nat -> Nat] /\ d[k + 1] = Len(rec) /\ d[k] = cuts[k] /\ d[0] = 0
      /\ \A s \in 0 .. k : d[s] = cuts[s]
  <2>1. /\ k \in Nat /\ k + 1 \in Nat /\ k + 1 # k /\ k + 1 # 0
        /\ \A s \in 0 .. k : s \in Nat /\ s # k + 1
    <3>1. k \in Nat
      BY <1>1
    <3> QED
      BY ONLY <3>1
  <2>2. cuts \in [Nat -> Nat] /\ cuts[0] = 0 /\ Len(rec) \in Nat
    BY <1>1, <1>3
  <2>3. d \in [Nat -> Nat] /\ d[k + 1] = Len(rec) /\ \A s \in Nat : s # k + 1 => d[s] = cuts[s]
    BY ONLY <1>7, <2>1, <2>2
  <2> QED
    BY <2>1, <2>2, <2>3
<1>9. Sound(d, k + 1, rec, b)
  <2>1. b.seq = k /\ b.payload = w.staged /\ k \in 0 .. (k + 1) - 1
    BY <1>1, <1>4
  <2> QED
    BY <1>1, <1>8, <2>1 DEF Sound
<1>10. IsBlock(d, k + 1, rec, b)
  BY <1>4, <1>5, <1>9 DEF IsBlock
<1>11. Shares(d, w, rec, k + 1)
  BY <1>1, <1>8 DEF Shares, k
<1>12. b.seq = k
  BY <1>4
<1> QED
  BY <1>3, <1>6, <1>8, <1>10, <1>11, <1>12, Zenon DEF k, Holds

\* The block is in the ring.
LEMMA ToldBlock ==
    ASSUME NEW cuts, NEW w, NEW r, NEW rcv, NEW rec,
           Told(cuts, w, r, rcv, rec, w.block_seq, FALSE), w.staged # <<>>,
           NEW b, b = SentBlock(w), NEW n, NEW q, Grown(r, b, n, q)
    PROVE  \E d : Told(d, w, q, rcv, rec, w.block_seq + 1, FALSE)
<1> DEFINE k == w.block_seq
           d == [cuts EXCEPT ![k + 1] = Len(rec)]
           old == Stream(r, rcv)
           new == Stream(q, rcv)
<1>1. /\ Shares(cuts, w, rec, k) /\ r.drops \in Nat
      /\ Stowed(cuts, k, rec, old, r.head)
      /\ r.drops = 0 => Whole(cuts, k, rec, old, r.head, FALSE)
  BY DEF Told
<1>2. /\ IsBlock(d, k + 1, rec, b) /\ b.seq = k /\ n = 1 + Len(w.staged)
      /\ Len(w.staged) \in Nat /\ Len(w.staged) > 0
      /\ Shares(d, w, rec, k + 1) /\ d \in [Nat -> Nat] /\ d[k + 1] = Len(rec)
      /\ \A s \in 0 .. k : d[s] = cuts[s]
  <2> HIDE DEF d, old, new
  <2>1. CutOff(cuts, w, rec, d)
    BY <1>1 DEF CutOff, d, k
  <2>2. Holds(cuts, w, rec, d)
    BY ONLY <2>1, SentIsBlock
  <2>3. n = PieceLen(SentBlock(w))
    BY DEF Grown
  <2> QED
    BY <2>2, <2>3 DEF Holds, k
<1>3. n \in Nat
  BY DEF Grown
<1>4. /\ r.head \in Nat /\ q.head = r.head + n /\ q.drops = r.drops
      /\ \A i \in 0 .. r.head - 1 : new[i] = old[i]
      /\ \A u \in 1 .. n : new[r.head + u - 1] = [piece |-> b, unit |-> u]
  <2>1. Longer(old, r.head, r.drops, b, n, new, q)
    BY StreamGrows
  <2> HIDE DEF old, new, d, k
  <2> QED
    BY <2>1 DEF Longer
<1>5. /\ k \in Nat /\ cuts \in [Nat -> Nat] /\ Len(rec) \in Nat
      /\ cuts[k] + Len(w.staged) = Len(rec) /\ cuts[k] \in Nat
  <2>1. /\ k \in Nat /\ cuts \in [Nat -> Nat] /\ rec \in Seq(EventSet)
        /\ cuts[k] + Len(w.staged) = Len(rec)
    BY <1>1 DEF Shares
  <2>2. Len(rec) \in Nat
    BY <2>1, LenIs, Zenon
  <2> QED
    BY <2>1, <2>2
<1>6. \A c : IsBlock(cuts, k, rec, c) => IsBlock(d, k + 1, rec, c)
  BY <1>5, BlockBefore
<1> HIDE DEF k, d, old, new
<1>7. Stowed(d, k + 1, rec, new, q.head)
  <2> SUFFICES ASSUME NEW i \in 0 .. q.head - 1
               PROVE  \/ i = 0 /\ new[i].piece = HeaderPiece
                      \/ new[i].piece = EndPiece
                      \/ IsBlock(d, k + 1, rec, new[i].piece)
    BY DEF Stowed
  <2>1. CASE i \in 0 .. r.head - 1
    BY <1>1, <1>4, <1>6, <2>1 DEF Stowed
  <2>2. CASE i \notin 0 .. r.head - 1
    <3> DEFINE u == i - r.head + 1
    <3>1. u \in 1 .. n /\ r.head + u - 1 = i
      BY <1>3, <1>4, <2>2
    <3> HIDE DEF u
    <3>2. new[i].piece = b
      <4>1. new[i] = [piece |-> b, unit |-> u]
        BY <1>4, <3>1
      <4> QED
        BY <4>1
    <3> QED
      BY <1>2, <3>2
  <2> QED
    BY <2>1, <2>2
<1>8. ASSUME q.drops = 0 PROVE Whole(d, k + 1, rec, new, q.head, FALSE)
  <2>1. Whole(cuts, k, rec, old, r.head, FALSE)
    BY <1>1, <1>4, <1>8
  <2>2. r.head = 1 + k + cuts[k] /\ r.head > 0 /\ cuts[k] \in Nat
    BY <1>5, <2>1 DEF Whole
  <2>3. new[0] = [piece |-> HeaderPiece, unit |-> 1]
    BY <1>4, <2>1, <2>2 DEF Whole
  <2>4. q.head = 1 + (k + 1) + d[k + 1]
    <3>1. /\ q.head = r.head + n /\ n = 1 + Len(w.staged) /\ d[k + 1] = Len(rec)
          /\ r.head = 1 + k + cuts[k] /\ cuts[k] + Len(w.staged) = Len(rec)
      BY <1>2, <1>4, <1>5, <2>2
    <3>2. k \in Nat /\ cuts[k] \in Nat /\ Len(w.staged) \in Nat
      BY <1>2, <1>5
    <3> QED
      BY ONLY <3>1, <3>2, SMTT(60)
  <2>5. ASSUME NEW s \in 0 .. k - 1 PROVE Tile(d, k + 1, rec, new, q.head, s)
    <3>1. d[s] = cuts[s] /\ d[s + 1] = cuts[s + 1] /\ cuts[s] \in Nat
      <4>1. s \in 0 .. k /\ s + 1 \in 0 .. k /\ s \in Nat
        BY <1>5
      <4> QED
        BY <1>2, <1>5, <4>1
    <3>2. PICK c : /\ IsBlock(cuts, k, rec, c) /\ c.seq = s
                   /\ s + cuts[s] + PieceLen(c) < r.head
                   /\ \A u \in 1 .. PieceLen(c) :
                         old[s + cuts[s] + u] = [piece |-> c, unit |-> u]
      BY <2>1 DEF Whole, Tile
    <3>3. PieceLen(c) \in Nat
      <4>1. c.payload \in Seq(EncodedSet) /\ c.kind = "block"
        BY <3>2 DEF IsBlock, Sound, HoldsFrom
      <4> QED
        BY <4>1 DEF PieceLen
    <3>4. s + cuts[s] + PieceLen(c) < q.head
      BY <1>3, <1>4, <3>1, <3>2, <3>3
    <3>5. ASSUME NEW u \in 1 .. PieceLen(c)
          PROVE  new[s + cuts[s] + u] = [piece |-> c, unit |-> u]
      <4>1. s + cuts[s] + u \in 0 .. r.head - 1
        BY <1>4, <3>1, <3>2, <3>3, SMTT(60)
      <4> QED
        BY <1>4, <3>2, <4>1
    <3>6. cuts[s] < cuts[s + 1]
      BY <2>1 DEF Whole, Tile
    <3> QED
      BY <1>6, <3>1, <3>2, <3>4, <3>5, <3>6 DEF Tile
  <2>6. Tile(d, k + 1, rec, new, q.head, k)
    <3>1. d[k] = cuts[k]
      BY <1>2, <1>5
    <3> DEFINE len == Len(w.staged)
    <3>5. /\ d[k + 1] = cuts[k] + len /\ len \in Nat /\ len > 0 /\ cuts[k] \in Nat
          /\ k \in Nat /\ PieceLen(b) = 1 + len /\ q.head = 1 + (k + 1) + (cuts[k] + len)
      <4>1. d[k + 1] = Len(rec) /\ cuts[k] + len = Len(rec)
        BY <1>2, <1>5
      <4>2. len \in Nat /\ len > 0 /\ cuts[k] \in Nat /\ k \in Nat
        BY <1>2, <1>5
      <4>3. PieceLen(b) = n /\ n = 1 + len
        BY <1>2 DEF Grown
      <4> HIDE DEF len
      <4> QED
        BY <2>4, <4>1, <4>2, <4>3, Zenon
    <3> HIDE DEF len
    <3>2. d[k] < d[k + 1]
      BY ONLY <3>1, <3>5
    <3>3. k + d[k] + PieceLen(b) < q.head
      BY ONLY <3>1, <3>5
    <3>4. ASSUME NEW u \in 1 .. PieceLen(b)
          PROVE  new[k + d[k] + u] = [piece |-> b, unit |-> u]
      <4>1. k + d[k] + u = r.head + u - 1 /\ u \in 1 .. n
        <5>1. k \in Nat /\ cuts[k] \in Nat /\ r.head = 1 + k + cuts[k]
          BY <1>5, <2>2
        <5>2. PieceLen(b) = n
          BY DEF Grown
        <5>3. u \in 1 .. n
          BY <5>2
        <5> QED
          BY ONLY <1>3, <3>1, <5>1, <5>3
      <4> QED
        BY <1>4, <4>1
    <3> QED
      BY <1>2, <3>2, <3>3, <3>4 DEF Tile
  <2>7. \A s \in 0 .. (k + 1) - 1 : Tile(d, k + 1, rec, new, q.head, s)
    <3>1. \A s \in 0 .. (k + 1) - 1 : s \in 0 .. k - 1 \/ s = k
      BY <1>5
    <3> QED
      BY <2>5, <2>6, <3>1, Zenon
  <2>8. q.head = 1 + (k + 1) + d[k + 1] + (IF FALSE THEN 1 ELSE 0)
    <3>1. q.head = q.head + 0
      BY <1>3, <1>4
    <3> QED
      BY <2>4, <3>1
  <2> QED
    BY <2>3, <2>7, <2>8, Zenon DEF Whole
<1>9. q.head \in Nat /\ q.drops \in Nat
  BY <1>1, <1>3, <1>4
<1>10. Told(d, w, q, rcv, rec, k + 1, FALSE)
  BY <1>2, <1>7, <1>8, <1>9 DEF Told, new
<1> QED
  BY <1>10 DEF k

\* A refused piece leaves a hole.
LEMMA ToldRefused ==
    ASSUME NEW cuts, NEW w, NEW r, NEW rcv, NEW rec, NEW blocks, NEW ends, NEW other,
           Told(cuts, w, r, rcv, rec, blocks, ends), IsRing(r),
           NEW q, q = Dropped(r)
    PROVE  Told(cuts, w, q, rcv, rec, blocks, other)
<1>1. PICK n : n = r.drops + 1
  OBVIOUS
<1>2. q = [r EXCEPT !.drops = n] /\ r.drops \in Nat
  BY <1>1 DEF Dropped, Told
<1>3. /\ q.head = r.head /\ q.tail = r.tail /\ q.store = r.store
      /\ q.drops \in Nat /\ q.drops # 0
  BY <1>1, <1>2 DEF IsRing
<1>4. Stream(q, rcv) = Stream(r, rcv)
  BY <1>3 DEF Stream, UnitAt
<1> QED
  BY <1>3, <1>4 DEF Told

\* So does a refused block.
LEMMA ToldLost ==
    ASSUME NEW cuts, NEW w, NEW r, NEW rcv, NEW rec,
           Told(cuts, w, r, rcv, rec, w.block_seq, FALSE), w.staged # <<>>,
           IsRing(r), NEW q, q = Dropped(r)
    PROVE  \E d : Told(d, w, q, rcv, rec, w.block_seq + 1, FALSE)
<1> DEFINE d == [cuts EXCEPT ![w.block_seq + 1] = Len(rec)]
<1>1. Told(cuts, w, q, rcv, rec, w.block_seq, FALSE)
  BY ToldRefused
<1>2. Shares(cuts, w, rec, w.block_seq)
  BY <1>1 DEF Told
<1>3. Shares(d, w, rec, w.block_seq + 1)
  <2>1. CutOff(cuts, w, rec, d)
    BY <1>2 DEF CutOff
  <2> HIDE DEF d
  <2>2. Holds(cuts, w, rec, d)
    BY <2>1, SentIsBlock
  <2> QED
    BY <2>2 DEF Holds
<1>4. w.block_seq \in Nat /\ cuts \in [Nat -> Nat] /\ Len(rec) \in Nat
  <2>1. w.block_seq \in Nat /\ cuts \in [Nat -> Nat] /\ rec \in Seq(EventSet)
    BY <1>2 DEF Shares
  <2> QED
    BY <2>1, LenIs, Zenon
<1>5. \A c : IsBlock(cuts, w.block_seq, rec, c) => IsBlock(d, w.block_seq + 1, rec, c)
  BY <1>4, BlockBefore
<1> HIDE DEF d
<1>6. Stowed(d, w.block_seq + 1, rec, Stream(q, rcv), q.head)
  BY <1>1, <1>5 DEF Told, Stowed
<1>7. q.drops # 0
  <2>1. r.drops \in Nat /\ q = [r EXCEPT !.drops = @ + 1]
    BY DEF Told, Dropped
  <2> QED
    BY <2>1 DEF IsRing
<1>8. Told(d, w, q, rcv, rec, w.block_seq + 1, FALSE)
  BY <1>1, <1>3, <1>6, <1>7 DEF Told
<1> QED
  BY <1>8

\* The terminator is in the ring.
LEMMA ToldEnded ==
    ASSUME NEW cuts, NEW w, NEW r, NEW rcv, NEW rec, NEW blocks,
           Told(cuts, w, r, rcv, rec, blocks, FALSE),
           NEW n, NEW q, Grown(r, EndPiece, n, q)
    PROVE  Told(cuts, w, q, rcv, rec, blocks, TRUE)
<1> DEFINE old == Stream(r, rcv)
           new == Stream(q, rcv)
<1>1. n = 1 /\ n \in Nat
  BY DEF PieceLen, EndPiece, Grown
<1>2. /\ r.head \in Nat /\ q.head = r.head + 1 /\ q.drops = r.drops
      /\ \A i \in 0 .. r.head - 1 : new[i] = old[i]
      /\ \A u \in 1 .. 1 : new[r.head + u - 1] = [piece |-> EndPiece, unit |-> u]
  <2>1. Longer(old, r.head, r.drops, EndPiece, n, new, q)
    BY StreamGrows
  <2> HIDE DEF old, new
  <2> QED
    BY <1>1, <2>1 DEF Longer
<1>3. new[r.head] = [piece |-> EndPiece, unit |-> 1]
  <2>1. 1 \in 1 .. 1 /\ r.head + 1 - 1 = r.head
    BY <1>2
  <2> QED
    BY <1>2, <2>1
<1>4. /\ Stowed(cuts, blocks, rec, old, r.head)
      /\ r.drops = 0 => Whole(cuts, blocks, rec, old, r.head, FALSE)
      /\ Shares(cuts, w, rec, blocks) /\ r.drops \in Nat
  BY DEF Told
<1> HIDE DEF old, new
<1>5. Stowed(cuts, blocks, rec, new, q.head)
  <2> SUFFICES ASSUME NEW i \in 0 .. q.head - 1
               PROVE  \/ i = 0 /\ new[i].piece = HeaderPiece
                      \/ new[i].piece = EndPiece
                      \/ IsBlock(cuts, blocks, rec, new[i].piece)
    BY DEF Stowed
  <2>1. i \in 0 .. r.head - 1 \/ i = r.head
    BY <1>2
  <2> QED
    BY <1>2, <1>3, <1>4, <2>1 DEF Stowed
<1>6. ASSUME q.drops = 0 PROVE Whole(cuts, blocks, rec, new, q.head, TRUE)
  <2>1. Whole(cuts, blocks, rec, old, r.head, FALSE)
    BY <1>2, <1>4, <1>6
  <2>2. cuts[blocks] \in Nat /\ blocks \in Nat /\ cuts \in [Nat -> Nat]
    <3>1. /\ cuts \in [Nat -> Nat] /\ w.block_seq \in Nat
          /\ blocks \in {w.block_seq, w.block_seq + 1}
      BY <1>4 DEF Shares
    <3>2. blocks \in Nat
      BY <3>1
    <3> QED
      BY <3>1, <3>2
  <2>3. r.head = 1 + blocks + cuts[blocks] /\ r.head > 0
    BY <2>1, <2>2 DEF Whole
  <2>4. new[0] = [piece |-> HeaderPiece, unit |-> 1]
    BY <1>2, <2>1, <2>3 DEF Whole
  <2>5. q.head = 1 + blocks + cuts[blocks] + 1 /\ q.head - 1 = r.head
    BY <1>2, <2>2, <2>3
  <2>6. ASSUME NEW s \in 0 .. blocks - 1 PROVE Tile(cuts, blocks, rec, new, q.head, s)
    <3>1. PICK c : /\ IsBlock(cuts, blocks, rec, c) /\ c.seq = s
                   /\ s + cuts[s] + PieceLen(c) < r.head
                   /\ \A u \in 1 .. PieceLen(c) :
                         old[s + cuts[s] + u] = [piece |-> c, unit |-> u]
      BY <2>1 DEF Whole, Tile
    <3>2. cuts[s] \in Nat /\ PieceLen(c) \in Nat
      <4>1. c.payload \in Seq(EncodedSet) /\ c.kind = "block"
        BY <3>1 DEF IsBlock, Sound, HoldsFrom
      <4>2. PieceLen(c) \in Nat
        BY <4>1 DEF PieceLen
      <4>3. cuts \in [Nat -> Nat] /\ s \in Nat
        BY <2>2
      <4> QED
        BY <4>2, <4>3
    <3>3. s + cuts[s] + PieceLen(c) < q.head
      BY <1>2, <3>1, <3>2
    <3>4. ASSUME NEW u \in 1 .. PieceLen(c)
          PROVE  new[s + cuts[s] + u] = [piece |-> c, unit |-> u]
      <4>1. s + cuts[s] + u \in 0 .. r.head - 1
        BY <1>2, <3>1, <3>2
      <4> QED
        BY <1>2, <3>1, <4>1
    <3>5. cuts[s] < cuts[s + 1]
      BY <2>1 DEF Whole, Tile
    <3> QED
      BY <3>1, <3>3, <3>4, <3>5 DEF Tile
  <2> QED
    BY <1>3, <2>4, <2>5, <2>6 DEF Whole
<1>7. q.head \in Nat /\ q.drops \in Nat
  BY <1>2, <1>4
<1> QED
  BY <1>4, <1>5, <1>6, <1>7 DEF Told, new

\* The link takes something.
LEMMA ToldDrained ==
    ASSUME NEW cuts, NEW w, NEW r, NEW rcv, NEW rec, NEW blocks, NEW ends,
           Told(cuts, w, r, rcv, rec, blocks, ends),
           NEW n, NEW q, NEW more, TakenOut(r, rcv, n, q, more)
    PROVE  Told(cuts, w, q, more, rec, blocks, ends)
<1>1. q.head = r.head /\ q.drops = r.drops
  BY DEF TakenOut
<1>2. \A i \in 0 .. r.head - 1 : UnitAt(q, more, i) = UnitAt(r, rcv, i)
  BY UnitsDrained
<1>3. Stream(q, more) = Stream(r, rcv)
  BY <1>1, <1>2 DEF Stream
<1> QED
  BY <1>1, <1>3 DEF Told

--------------------------------------------------------------------------------
(* The recording, step by step.                                              *)

\* There are cuts to tell it by: they are not kept anywhere in the program.
Tells(w, r, rcv, rec, blocks, ends) == \E cuts : Told(cuts, w, r, rcv, rec, blocks, ends)

\* The running state of the writer is the one behind the first n events.
Predicts(w, rec, n) == w.last_ts = TsAfter(rec, n) /\ w.last_addr = AddrAfter(rec, n)

\* A writer no call is in, its ring, and what they have recorded.
Settled(w, r, rcv, rec) ==
    /\ Tells(w, r, rcv, rec, w.block_seq, FALSE)
    /\ Predicts(w, rec, Len(rec)) /\ w.ok \in BOOLEAN

\* What a push of a piece makes of the ring.
Offered(r, piece, q, taken) ==
    \/ taken = TRUE /\ \E n : Grown(r, piece, n, q)
    \/ taken = FALSE /\ q = Dropped(r)

\* The sink, while the ring is not overfull.
LEMMA SinkOffers ==
    ASSUME PushesToTheRing, NEW r, IsRing(r), UsedUnits(r) <= Cap, NEW piece,
           NEW sent, sent = AsSent(piece), PieceLen(sent) \in Nat,
           NEW p \in Offer(r, piece)
    PROVE  Offered(r, sent, p.sink, p.taken)
<1>1. p = IF Fits(r, sent)
          THEN [sink |-> Publish(CopyUnits(r, sent, r.head, 1, PieceLen(sent)), sent),
                taken |-> TRUE]
          ELSE [sink |-> Dropped(r), taken |-> FALSE]
  BY DEF PushesToTheRing, SinkPush
<1>2. r.head \in Nat /\ r.tail \in Nat /\ Cap \in Nat
  BY RecorderAssumption DEF IsRing
<1>3. CASE Fits(r, sent)
  <2>1. PICK q : q = Publish(CopyUnits(r, sent, r.head, 1, PieceLen(sent)), sent)
    OBVIOUS
  <2>2. p.sink = q /\ p.taken = TRUE
    BY <1>1, <1>3, <2>1
  <2>3. UsedUnits(r) + PieceLen(sent) <= Cap
    BY <1>2, <1>3 DEF Fits, UsedUnits
  <2>4. Grown(r, sent, PieceLen(sent), q)
    BY <2>1, <2>3 DEF Grown
  <2> QED
    BY <2>2, <2>4 DEF Offered
<1>4. CASE ~Fits(r, sent)
  <2>1. p.sink = Dropped(r) /\ p.taken = FALSE
    BY <1>1, <1>4
  <2> QED
    BY <2>1 DEF Offered
<1> QED
  BY <1>3, <1>4

\* A block offered to the ring, whatever becomes of it.
LEMMA BlockTells ==
    ASSUME NEW w, NEW r, NEW rcv, NEW rec, Tells(w, r, rcv, rec, w.block_seq, FALSE),
           w.staged # <<>>, IsRing(r), NEW q, NEW taken, Offered(r, SentBlock(w), q, taken)
    PROVE  Tells(w, q, rcv, rec, w.block_seq + 1, FALSE)
<1>1. PICK cuts : Told(cuts, w, r, rcv, rec, w.block_seq, FALSE)
  BY DEF Tells
<1>2. CASE q = Dropped(r)
  <2>1. \E d : Told(d, w, q, rcv, rec, w.block_seq + 1, FALSE)
    BY <1>1, <1>2, ToldLost
  <2> QED
    BY <2>1 DEF Tells
<1>3. ASSUME NEW n, Grown(r, SentBlock(w), n, q)
      PROVE  Tells(w, q, rcv, rec, w.block_seq + 1, FALSE)
  <2>1. \E d : Told(d, w, q, rcv, rec, w.block_seq + 1, FALSE)
    BY <1>1, <1>3, ToldBlock
  <2> QED
    BY <2>1 DEF Tells
<1> QED
  BY <1>2, <1>3 DEF Offered

\* The terminator offered to the ring.
LEMMA EndTells ==
    ASSUME NEW w, NEW r, NEW rcv, NEW rec, NEW blocks, Tells(w, r, rcv, rec, blocks, FALSE),
           IsRing(r), NEW q, NEW taken, Offered(r, EndPiece, q, taken)
    PROVE  Tells(w, q, rcv, rec, blocks, taken)
<1>1. PICK cuts : Told(cuts, w, r, rcv, rec, blocks, FALSE)
  BY DEF Tells
<1>2. CASE q = Dropped(r)
  <2>1. Told(cuts, w, q, rcv, rec, blocks, taken)
    BY <1>1, <1>2, ToldRefused
  <2> QED
    BY <2>1 DEF Tells
<1>3. ASSUME NEW n, Grown(r, EndPiece, n, q), taken = TRUE
      PROVE  Tells(w, q, rcv, rec, blocks, taken)
  <2>1. Told(cuts, w, q, rcv, rec, blocks, TRUE)
    BY <1>1, <1>3, ToldEnded
  <2> QED
    BY <1>3, <2>1 DEF Tells
<1> QED
  BY <1>2, <1>3 DEF Offered

\* The spent writer.
Spent(w, v) ==
    /\ v.staged = <<>> /\ v.used = 0 /\ v.block_seq = w.block_seq + 1
    /\ v.last_ts = w.last_ts /\ v.last_addr = w.last_addr /\ v.ok = w.ok
    /\ v.events = w.events

\* What the end of a block, taken or lost, leaves of the writer.
LEMMA SpentFields ==
    ASSUME NEW w, IsWriter(w), NEW taken, NEW v,
           v = [w EXCEPT !.block_seq = @ + 1, !.staged = <<>>, !.used = 0,
                         !.blocks_lost = IF taken THEN @ ELSE @ + 1]
    PROVE  Spent(w, v)
<1>1. PICK lost, seq, none : /\ lost = IF taken THEN w.blocks_lost ELSE w.blocks_lost + 1
                             /\ seq = w.block_seq + 1 /\ none = <<>>
  OBVIOUS
<1>2. v = [w EXCEPT !.block_seq = seq, !.staged = none, !.used = 0, !.blocks_lost = lost]
  BY <1>1
<1>3. /\ v.staged = none /\ v.used = 0 /\ v.block_seq = seq
      /\ v.last_ts = w.last_ts /\ v.last_addr = w.last_addr /\ v.ok = w.ok
      /\ v.events = w.events
  BY <1>2 DEF IsWriter
<1> QED
  BY <1>1, <1>3 DEF Spent

\* Its trace is the one before.
LEMMA SpentTells ==
    ASSUME NEW w, NEW v, Spent(w, v), NEW r, NEW rcv, NEW rec,
           Tells(w, r, rcv, rec, w.block_seq + 1, FALSE)
    PROVE  Tells(v, r, rcv, rec, v.block_seq, FALSE)
<1>1. PICK cuts : Told(cuts, w, r, rcv, rec, w.block_seq + 1, FALSE)
  BY DEF Tells
<1>2. v.staged = <<>> /\ v.used = 0 /\ v.block_seq = w.block_seq + 1
  BY DEF Spent
<1>3. Told(cuts, v, r, rcv, rec, v.block_seq, FALSE)
  BY <1>1, <1>2, ToldSpent
<1> QED
  BY <1>3 DEF Tells

\* flush_block of a handler, with something to send.
LEMMA FlushTells ==
    ASSUME PushesToTheRing, NEW w, IsWriter(w), w.used # 0, NEW r, IsRing(r),
           UsedUnits(r) <= Cap, NEW rcv, NEW rec, Settled(w, r, rcv, rec),
           NEW o \in FlushBlock(w, r)
    PROVE  Settled(o.w, o.sink, rcv, rec) /\ o.w.events = w.events /\ o.w.ok = w.ok
           /\ o.w.last_ts = w.last_ts /\ o.w.last_addr = w.last_addr
<1>1. PICK p \in Offer(r, BlockPiece(w)) :
           o = [w |-> [w EXCEPT !.block_seq = @ + 1, !.staged = <<>>, !.used = 0,
                                !.blocks_lost = IF p.taken THEN @ ELSE @ + 1],
                sink |-> p.sink]
  BY DEF FlushBlock
<1>2. PICK v : v = [w EXCEPT !.block_seq = @ + 1, !.staged = <<>>, !.used = 0,
                             !.blocks_lost = IF p.taken THEN @ ELSE @ + 1]
  OBVIOUS
<1>3. o.w = v /\ o.sink = p.sink
  BY <1>1, <1>2
<1>4. Spent(w, v)
  BY <1>2, SpentFields
<1>5. AsSent(BlockPiece(w)) = SentBlock(w)
  BY DEF AsSent, BlockPiece, SentBlock, Framed
<1>6. PieceLen(SentBlock(w)) \in Nat /\ w.staged # <<>>
  <2>1. Len(w.staged) \in Nat
    BY SeqFacts DEF IsWriter
  <2>2. PieceLen(SentBlock(w)) \in Nat
    BY <2>1 DEF PieceLen, SentBlock, Framed
  <2>3. w.used = Len(w.staged)
    BY DEF Settled, Tells, Told, Shares
  <2> QED
    BY <2>2, <2>3
<1>7. Offered(r, SentBlock(w), p.sink, p.taken)
  BY <1>5, <1>6, SinkOffers
<1>8. Tells(w, p.sink, rcv, rec, w.block_seq + 1, FALSE)
  BY <1>6, <1>7, BlockTells DEF Settled
<1>9. Tells(v, p.sink, rcv, rec, v.block_seq, FALSE)
  BY <1>4, <1>8, SpentTells
<1> QED
  BY <1>3, <1>4, <1>9 DEF Settled, Spent, Predicts

\* e is the encoding of ev behind rec.
Encodes(rec, ev, e) == e = EncodedAt(Append(rec, ev), Len(rec) + 1)

\* Where an event's deltas come from.
LEMMA EncodedHere ==
    ASSUME NEW rec \in Seq(EventSet), NEW ev \in EventSet, NEW w, Predicts(w, rec, Len(rec)),
           NEW e, e = [type |-> ev.type, value |-> ev.value, dts |-> ev.ts - w.last_ts,
                       arg |-> IF IsMmio(ev.type) THEN ev.addr - w.last_addr ELSE ev.addr]
    PROVE  Encodes(rec, ev, e)
<1> DEFINE all == Append(rec, ev)
           n == Len(rec) + 1
<1>1. Len(rec) \in Nat /\ all[n] = ev /\ n - 1 = Len(rec) /\ Len(rec) \in 0 .. Len(rec)
  OBVIOUS
<1>2. TsAfter(all, n - 1) = w.last_ts /\ AddrAfter(all, n - 1) = w.last_addr
  BY <1>1, EncodedBefore DEF Predicts
<1> HIDE DEF all, n
<1> QED
  BY <1>1, <1>2 DEF EncodedAt, all, n, Encodes

\* And the running state behind it.
LEMMA PredictsOn ==
    ASSUME NEW rec \in Seq(EventSet), NEW ev \in EventSet, NEW w, Predicts(w, rec, Len(rec)),
           NEW v, v.last_ts = ev.ts,
           v.last_addr = IF IsMmio(ev.type) THEN ev.addr ELSE w.last_addr
    PROVE  Predicts(v, Append(rec, ev), Len(Append(rec, ev)))
<1> DEFINE all == Append(rec, ev)
           n == Len(rec) + 1
<1>1. /\ Len(rec) \in Nat /\ all[n] = ev /\ n - 1 = Len(rec) /\ Len(rec) \in 0 .. Len(rec)
      /\ Len(all) = n /\ n \in Nat /\ n > 0 /\ n # 0
  OBVIOUS
<1>2. AddrAfter(all, n - 1) = w.last_addr
  BY <1>1, EncodedBefore DEF Predicts
<1> HIDE DEF all, n
<1>3. TsAfter(all, n) = ev.ts
  BY <1>1 DEF TsAfter
<1>4. AddrAfter(all, n) = IF IsMmio(ev.type) THEN ev.addr ELSE w.last_addr
  BY <1>1, <1>2, AddrStep
<1> QED
  BY <1>1, <1>3, <1>4 DEF Predicts, all

\* An event goes behind the staged ones.
LEMMA AppendTells ==
    ASSUME NEW w, NEW r, NEW rcv, NEW rec, Tells(w, r, rcv, rec, w.block_seq, FALSE),
           NEW ev \in EventSet, NEW e, Encodes(rec, ev, e), NEW v,
           v.staged = Append(w.staged, e),
           v.used = w.used + 1, v.block_seq = w.block_seq
    PROVE  Tells(v, r, rcv, Append(rec, ev), v.block_seq, FALSE)
<1>1. PICK cuts : Told(cuts, w, r, rcv, rec, w.block_seq, FALSE)
  BY DEF Tells
<1>2. Told(cuts, v, r, rcv, Append(rec, ev), v.block_seq, FALSE)
  BY <1>1, ToldOn DEF Encodes
<1> QED
  BY <1>2 DEF Tells

\* Fields the trace does not depend on.
LEMMA SameTells ==
    ASSUME NEW w, NEW r, NEW rcv, NEW rec, NEW blocks, NEW ends,
           Tells(w, r, rcv, rec, blocks, ends),
           NEW v, v.staged = w.staged, v.used = w.used, v.block_seq = w.block_seq
    PROVE  Tells(v, r, rcv, rec, blocks, ends)
<1>1. PICK cuts : Told(cuts, w, r, rcv, rec, blocks, ends)
  BY DEF Tells
<1>2. Told(cuts, v, r, rcv, rec, blocks, ends)
  BY <1>1, ToldSame
<1> QED
  BY <1>2 DEF Tells

\* What was recorded consists of events.
LEMMA TellsEvents ==
    ASSUME NEW w, NEW r, NEW rcv, NEW rec, NEW blocks, NEW ends,
           Tells(w, r, rcv, rec, blocks, ends)
    PROVE  /\ rec \in Seq(EventSet) /\ w.used = Len(w.staged)
           /\ w.staged \in Seq(EncodedSet) /\ w.block_seq \in Nat
BY DEF Tells, Told, Shares, HoldsFrom

\* The writer's fields once an event is staged.
StagedFields(w, v, e) ==
    /\ v.staged = Append(w.staged, e) /\ v.used = w.used + 1
    /\ v.events = w.events + 1 /\ v.block_seq = w.block_seq
    /\ v.last_ts = w.last_ts /\ v.last_addr = w.last_addr /\ v.ok = w.ok

\* What a call that stages its event changes of the writer.
LEMMA StagedHas ==
    ASSUME NEW w, IsWriter(w), NEW e, NEW v,
           v = [w EXCEPT !.staged = Append(@, e), !.used = @ + 1, !.events = @ + 1]
    PROVE  StagedFields(w, v, e)
<1>1. PICK s, u, n : s = Append(w.staged, e) /\ u = w.used + 1 /\ n = w.events + 1
  OBVIOUS
<1>2. v = [w EXCEPT !.staged = s, !.used = u, !.events = n]
  BY <1>1
<1>3. /\ v.staged = s /\ v.used = u /\ v.events = n /\ v.block_seq = w.block_seq
      /\ v.last_ts = w.last_ts /\ v.last_addr = w.last_addr /\ v.ok = w.ok
  BY <1>2 DEF IsWriter
<1> QED
  BY <1>1, <1>3 DEF StagedFields

\* Neither the writer's block nor the ring is overfull.
Roomy(w, r) ==
    /\ IsWriter(w) /\ w.used <= PayloadCap
    /\ IsRing(r) /\ UsedUnits(r) <= Cap

\* What stage makes of the writer and of the ring: one event more, the running state
\* not yet moved on.
StagesTo(w, rcv, rec, ev, u, q) ==
    /\ Tells(u, q, rcv, Append(rec, ev), u.block_seq, FALSE)
    /\ u.last_addr = w.last_addr /\ u.ok = w.ok /\ u.events = w.events + 1

\* stage of a handler: the running state is not yet moved on.
LEMMA StageTells ==
    ASSUME PushesToTheRing, NEW w, NEW r, Roomy(w, r),
           NEW rcv, NEW rec, Settled(w, r, rcv, rec),
           NEW ev \in EventSet, NEW e, Encodes(rec, ev, e),
           NEW o \in Stage(w, r, e, 1)
    PROVE  StagesTo(w, rcv, rec, ev, o.w, o.sink)
<1>0. IsWriter(w) /\ w.used <= PayloadCap /\ IsRing(r) /\ UsedUnits(r) <= Cap
  BY DEF Roomy
<1>1. PICK b \in IF w.used + 1 > PayloadCap THEN FlushBlock(w, r)
                 ELSE {[w |-> w, sink |-> r]} :
         o = [w |-> [b.w EXCEPT !.staged = Append(@, e), !.used = @ + 1, !.events = @ + 1],
              sink |-> b.sink]
  BY DEF Stage
<1>2. /\ IsWriter(b.w) /\ Settled(b.w, b.sink, rcv, rec) /\ b.w.events = w.events
      /\ b.w.last_addr = w.last_addr /\ b.w.ok = w.ok
  <2>1. CASE w.used + 1 > PayloadCap
    <3>1. b \in FlushBlock(w, r)
      BY <1>1, <2>1
    <3>2. w.used # 0
      <4>1. PayloadCap \in Nat /\ 1 \in 1 .. PayloadCap
        BY EventSizesAssumption, RecorderAssumption
      <4> QED
        BY <2>1, <4>1
    <3> QED
      BY <1>0, <3>1, <3>2, FlushIs, FlushTells
  <2>2. CASE ~(w.used + 1 > PayloadCap)
    <3>1. b.w = w /\ b.sink = r
      BY <1>1, <2>2
    <3> QED
      BY <1>0, <3>1
  <2> QED
    BY <2>1, <2>2
<1>3. PICK v : v = [b.w EXCEPT !.staged = Append(@, e), !.used = @ + 1, !.events = @ + 1]
  OBVIOUS
<1>4. o.w = v /\ o.sink = b.sink
  BY <1>1, <1>3
<1>5. StagedFields(b.w, v, e)
  BY <1>2, <1>3, StagedHas
<1>6. Tells(v, b.sink, rcv, Append(rec, ev), v.block_seq, FALSE)
  <2>1. /\ Tells(b.w, b.sink, rcv, rec, b.w.block_seq, FALSE)
        /\ v.staged = Append(b.w.staged, e) /\ v.used = b.w.used + 1
        /\ v.block_seq = b.w.block_seq
    BY <1>2, <1>5 DEF Settled, StagedFields
  <2> QED
    BY <2>1, AppendTells
<1> QED
  BY <1>2, <1>4, <1>5, <1>6 DEF StagedFields, StagesTo

\* The event is committed.
LEMMA CommitSettles ==
    ASSUME NEW w, NEW u, NEW v, NEW r, NEW rcv, NEW rec, NEW ev \in EventSet,
           Settled(w, r, rcv, rec), NEW q,
           Tells(u, q, rcv, Append(rec, ev), u.block_seq, FALSE), u.ok = w.ok,
           v.staged = u.staged, v.used = u.used, v.block_seq = u.block_seq, v.ok = u.ok,
           v.last_ts = ev.ts,
           v.last_addr = IF IsMmio(ev.type) THEN ev.addr ELSE w.last_addr
    PROVE  Settled(v, q, rcv, Append(rec, ev))
<1>1. rec \in Seq(EventSet) /\ Predicts(w, rec, Len(rec))
  BY TellsEvents DEF Settled
<1>2. Predicts(v, Append(rec, ev), Len(Append(rec, ev)))
  BY <1>1, PredictsOn
<1>3. Tells(v, q, rcv, Append(rec, ev), u.block_seq, FALSE)
  BY SameTells
<1> QED
  BY <1>2, <1>3 DEF Settled

\* What a handler's call of the writer adds to the recording.
Extended(w, v, rec, ev) == IF v.events > w.events THEN Append(rec, ev) ELSE rec

\* A latched error leaves the trace as it is.
LEMMA FailSettles ==
    ASSUME NEW w, IsWriter(w), NEW r, NEW rcv, NEW rec, Settled(w, r, rcv, rec), NEW why,
           NEW v, v = WFail(w, why)
    PROVE  Settled(v, r, rcv, rec) /\ v.events = w.events
<1>1. PICK err, no : err = (IF w.err = NoError THEN why ELSE w.err) /\ no = FALSE
  OBVIOUS
<1>2. v = [w EXCEPT !.ok = no, !.err = err]
  BY <1>1 DEF WFail
<1>3. /\ v.staged = w.staged /\ v.used = w.used /\ v.block_seq = w.block_seq
      /\ v.last_ts = w.last_ts /\ v.last_addr = w.last_addr /\ v.ok = no
      /\ v.events = w.events
  BY <1>2 DEF IsWriter
<1>4. Tells(v, r, rcv, rec, w.block_seq, FALSE)
  BY <1>3, SameTells DEF Settled
<1> QED
  BY <1>1, <1>3, <1>4 DEF Settled, Predicts

\* A handler's call of the writer.
LEMMA WriteSettles ==
    ASSUME PushesToTheRing, NEW w, NEW r, Roomy(w, r),
           NEW rcv, NEW rec, Settled(w, r, rcv, rec),
           NEW ev \in EventSet, NEW o \in Write(w, r, ev, 1)
    PROVE  Settled(o.w, o.sink, rcv, Extended(w, o.w, rec, ev))
<1>0. IsWriter(w) /\ w.used <= PayloadCap /\ IsRing(r) /\ UsedUnits(r) <= Cap
  BY DEF Roomy
<1>1. w.events \in Nat /\ Predicts(w, rec, Len(rec)) /\ rec \in Seq(EventSet)
  BY <1>0, TellsEvents DEF IsWriter, Settled
<1>2. CASE o = [w |-> w, sink |-> r]
  <2>1. o.w = w /\ o.sink = r /\ ~(w.events > w.events)
    BY <1>1, <1>2
  <2> QED
    BY <2>1 DEF Extended
<1>3. CASE o = [w |-> WFail(w, "non-monotonic timestamp"), sink |-> r]
  <2>1. PICK v : v = WFail(w, "non-monotonic timestamp")
    OBVIOUS
  <2>2. o.w = v /\ o.sink = r /\ Settled(v, r, rcv, rec) /\ v.events = w.events
    BY <1>0, <1>3, <2>1, FailSettles
  <2>3. ~(v.events > w.events)
    BY <1>1, <2>2
  <2> QED
    BY <2>2, <2>3 DEF Extended
<1>4. ASSUME NEW e, Encodes(rec, ev, e), NEW s \in Stage(w, r, e, 1),
             NEW v, v = o.w, o.sink = s.sink, v.last_ts = ev.ts,
             v.last_addr = IF IsMmio(ev.type) THEN ev.addr ELSE s.w.last_addr,
             v.staged = s.w.staged, v.used = s.w.used, v.block_seq = s.w.block_seq,
             v.ok = s.w.ok, v.events = s.w.events
      PROVE  Settled(o.w, o.sink, rcv, Extended(w, o.w, rec, ev))
  <2>1. /\ Tells(s.w, s.sink, rcv, Append(rec, ev), s.w.block_seq, FALSE)
        /\ s.w.last_addr = w.last_addr /\ s.w.ok = w.ok /\ s.w.events = w.events + 1
    <3>1. Encodes(rec, ev, e) /\ s \in Stage(w, r, e, 1)
      BY <1>4
    <3>2. StagesTo(w, rcv, rec, ev, s.w, s.sink)
      BY <3>1, StageTells
    <3> QED
      BY <3>2 DEF StagesTo
  <2>2. Settled(v, s.sink, rcv, Append(rec, ev))
    BY <1>4, <2>1, CommitSettles, ZenonT(60)
  <2>3. v.events > w.events
    BY <1>1, <1>4, <2>1
  <2> QED
    BY <1>4, <2>2, <2>3 DEF Extended
<1>5. ASSUME NEW e, NEW s \in Stage(w, r, e, 1)
      PROVE  s = [w |-> s.w, sink |-> s.sink] /\ IsWriter(s.w)
  <2>1. PICK v, q : s = [w |-> v, sink |-> q]
    BY <1>5 DEF Stage
  <2>2. IsWriter(s.w)
    BY <1>0, <1>5, StageIs
  <2> QED
    BY <2>1, <2>2
<1>6. CASE IsMmio(ev.type) /\ o \in WriteMmio(w, r, ev, 1)
  <2>1. PICK e : /\ e = [type |-> ev.type, dts |-> ev.ts - w.last_ts,
                         arg |-> ev.addr - w.last_addr, value |-> ev.value]
                 /\ \E s \in Stage(w, r, e, 1) :
                       o = [s EXCEPT !.w.last_ts = ev.ts, !.w.last_addr = ev.addr]
    BY <1>6 DEF WriteMmio
  <2>2. PICK s \in Stage(w, r, e, 1) :
           o = [s EXCEPT !.w.last_ts = ev.ts, !.w.last_addr = ev.addr]
    BY <2>1
  <2>3. Encodes(rec, ev, e)
    BY <1>1, <1>6, <2>1, EncodedHere
  <2>4. s = [w |-> s.w, sink |-> s.sink] /\ IsWriter(s.w)
    BY <1>5
  <2>5. PICK v : v = [s.w EXCEPT !.last_ts = ev.ts, !.last_addr = ev.addr]
    OBVIOUS
  <2>6. o.w = v /\ o.sink = s.sink
    BY <2>2, <2>4, <2>5
  <2>7. /\ v.staged = s.w.staged /\ v.used = s.w.used /\ v.block_seq = s.w.block_seq
        /\ v.ok = s.w.ok /\ v.events = s.w.events /\ v.last_ts = ev.ts
        /\ v.last_addr = ev.addr
    BY <2>4, <2>5 DEF IsWriter
  <2> QED
    BY <1>4, <1>6, <2>3, <2>6, <2>7
<1>7. CASE ~IsMmio(ev.type) /\ o \in WritePlain(w, r, ev, 1)
  <2>1. PICK e : /\ e = [type |-> ev.type, dts |-> ev.ts - w.last_ts,
                         arg |-> ev.addr, value |-> ev.value]
                 /\ \E s \in Stage(w, r, e, 1) : o = [s EXCEPT !.w.last_ts = ev.ts]
    BY <1>7 DEF WritePlain
  <2>2. PICK s \in Stage(w, r, e, 1) : o = [s EXCEPT !.w.last_ts = ev.ts]
    BY <2>1
  <2>3. Encodes(rec, ev, e)
    BY <1>1, <1>7, <2>1, EncodedHere
  <2>4. s = [w |-> s.w, sink |-> s.sink] /\ IsWriter(s.w)
    BY <1>5
  <2>5. PICK v : v = [s.w EXCEPT !.last_ts = ev.ts]
    OBVIOUS
  <2>6. o.w = v /\ o.sink = s.sink
    BY <2>2, <2>4, <2>5
  <2>7. /\ v.staged = s.w.staged /\ v.used = s.w.used /\ v.block_seq = s.w.block_seq
        /\ v.ok = s.w.ok /\ v.events = s.w.events /\ v.last_ts = ev.ts
        /\ v.last_addr = s.w.last_addr
    BY <2>4, <2>5 DEF IsWriter
  <2> QED
    BY <1>4, <1>7, <2>3, <2>6, <2>7
<1> QED
  BY <1>2, <1>3, <1>6, <1>7 DEF Write

--------------------------------------------------------------------------------
(* The invariant.                                                            *)

\* The blocks whose pushes are over.
Blocks(m, w) ==
    IF m.at = "pushed" /\ m.then # "over" THEN w.block_seq + 1 ELSE w.block_seq

\* The terminator has been taken.
Ends(m, w, p) ==
    \/ m.at = "pushed" /\ m.then = "over" /\ m.taken = TRUE
    \/ p # "run" /\ w.ok

\* How much of the recording the writer's running state is behind.
Behind(m, rec) == IF m.at = "appended" THEN Len(rec) - 1 ELSE Len(rec)

\* A call about to record its event.
Ready(m, rec) == m.ev \in EventSet /\ Encodes(rec, m.ev, m.encoded)

\* What the main loop's call has in its hands.
InHand(m, w, r, rec) ==
    /\ m.at = "encoded" => Ready(m, rec)
    /\ m.at = "append" => Ready(m.call, rec)
    /\ m.at = "appended" => rec # <<>> /\ m.ev = rec[Len(rec)]
    /\ m.at \in {"frame", "framed", "pushing", "pushed"} =>
          /\ m.then \in {"append", "end", "over"}
          /\ m.then = "append" => Ready(m.call, rec)
          /\ IF m.then = "over" THEN w.ok /\ w.staged = <<>> ELSE w.staged # <<>>
    /\ m.at \in {"frame", "framed"} => m.then # "over"
    /\ m.at = "framed" => m.frame = w.staged /\ m.seq = w.block_seq
    /\ m.at = "pushing" =>
          /\ m.copied = 0 /\ m.head = r.head
          /\ m.piece = IF m.then = "over" THEN EndPiece ELSE SentBlock(w)
    /\ m.at = "pushed" => m.taken \in BOOLEAN
    /\ m.at = "end" /\ w.ok => w.staged = <<>>

\* With the main loop's calls alone the stream tells of all that was recorded.
TraceInv ==
    ~torn =>
        /\ Tells(writer, ring, received, recorded, Blocks(main, writer),
                 Ends(main, writer, phase))
        /\ Predicts(writer, recorded, Behind(main, recorded))
        /\ writer.ok \in BOOLEAN
        /\ phase # "run" /\ writer.ok => writer.staged = <<>>
        /\ InHand(main, writer, ring, recorded)

\* One call of the writer from a handler.
LEMMA AtomicSettles ==
    ASSUME PushesToTheRing, NEW state, Kept(state), InOrder(state),
           UsedUnits(state.sink) <= Cap, NEW rcv,
           Settled(state.w, state.sink, rcv, state.recorded),
           NEW t \in Nat, NEW call, "ts" \in DOMAIN call,
           \A ts \in Nat : [call EXCEPT !.ts = ts] \in EventSet,
           NEW o \in Atomic(state, t, call)
    PROVE  Settled(o.w, o.sink, rcv, o.recorded)
<1>1. PICK c, ev : c = Extend(state.clock, t % Wrap) /\ ev = [call EXCEPT !.ts = Value(c)]
  OBVIOUS
<1>2. PICK p \in Write(state.w, state.sink, ev, 1) :
         o = [clock |-> c, samples |-> Sampled(state.samples, t), w |-> p.w,
              sink |-> p.sink,
              recorded |-> IF p.w.events > state.w.events
                           THEN Append(state.recorded, ev) ELSE state.recorded]
  BY <1>1 DEF Atomic
<1>3. /\ o.w = p.w /\ o.sink = p.sink
      /\ o.recorded = Extended(state.w, p.w, state.recorded, ev)
  BY <1>2 DEF Extended
<1>4. Value(c) \in Nat
  <2>1. /\ Value(state.clock) \in Int /\ Value(c) \in Int
        /\ Value(state.clock) <= Value(c)
    BY ONLY <1>1, Kept(state), t \in Nat, ExtendGrows DEF Kept
  <2>2. state.w.last_ts <= Value(state.clock)
    BY DEF InOrder, Between
  <2>3. state.w.last_ts \in Nat
    <3>1. state.recorded \in Seq(EventSet)
      BY TellsEvents DEF Settled
    <3>2. Len(state.recorded) \in 0 .. Len(state.recorded)
      BY <3>1
    <3> QED
      BY <3>1, <3>2, StateIsNat DEF Settled, Predicts
  <2>4. PICK lo, mid, hi : lo = state.w.last_ts /\ mid = Value(state.clock) /\ hi = Value(c)
    OBVIOUS
  <2> QED
    BY <2>1, <2>2, <2>3, <2>4
<1>5. ev \in EventSet
  BY <1>1, <1>4
<1>6. Roomy(state.w, state.sink)
  BY DEF Roomy, Kept, InOrder
<1>7. Settled(p.w, p.sink, rcv, Extended(state.w, p.w, state.recorded, ev))
  BY <1>2, <1>5, <1>6, WriteSettles
<1> QED
  BY <1>3, <1>7

\* Between two calls the trace is settled.
LEMMA IdleSettled ==
    ASSUME NEW m, NEW w, NEW r, NEW rcv, NEW rec,
           m.at \notin {"pushed", "appended"}, w.ok \in BOOLEAN
    PROVE  /\ Ends(m, w, "run") = FALSE /\ Blocks(m, w) = w.block_seq
           /\ Behind(m, rec) = Len(rec)
           /\ Settled(w, r, rcv, rec) <=> /\ Tells(w, r, rcv, rec, Blocks(m, w), Ends(m, w, "run"))
                                          /\ Predicts(w, rec, Behind(m, rec))
<1>1. Ends(m, w, "run") = FALSE /\ Blocks(m, w) = w.block_seq /\ Behind(m, rec) = Len(rec)
  BY DEF Ends, Blocks, Behind
<1> QED
  BY <1>1 DEF Settled

\* A handler between two calls of the main loop.
LEMMA HandlerTrace ==
    ASSUME PushesToTheRing, ClockInv, RecInv, TraceInv, Handler PROVE TraceInv'
<1> SUFFICES ASSUME ~torn' PROVE TraceInv'
  BY DEF TraceInv
<1>1. /\ phase = "run" /\ UNCHANGED <<phase, drain, received>>
      /\ ~torn /\ main.at = "idle"
  BY DEF Handler, UNCHANGED_link
<1>2. PICK gap \in Gaps : time' = time + gap + 1
  BY DEF Handler
<1> DEFINE t == time' - 1
<1>3. t \in Nat /\ time' \in Nat
  BY <1>2, RecorderAssumption DEF ClockInv, Fresh
<1> DEFINE now == [clock |-> clock, samples |-> samples, w |-> writer,
                   recorded |-> recorded, sink |-> ring]
<1>4. PICK s \in Atomic(now, t, IrqEvent(0, 1)) :
          \E o \in Atomic(s, time', ReadEvent(0, 5)) :
             /\ clock' = o.clock /\ samples' = o.samples
             /\ writer' = o.w /\ ring' = o.sink /\ recorded' = o.recorded
             /\ main' = main
  BY <1>1 DEF Handler
<1>5. PICK o \in Atomic(s, time', ReadEvent(0, 5)) :
             /\ writer' = o.w /\ ring' = o.sink /\ recorded' = o.recorded
             /\ main' = main
  BY <1>4
<1>6. /\ now.clock = clock /\ now.samples = samples /\ now.w = writer
      /\ now.recorded = recorded /\ now.sink = ring
  OBVIOUS
<1> HIDE DEF now, t
<1>7. Kept(now) /\ InOrder(now) /\ UsedUnits(now.sink) <= Cap
  BY <1>1, <1>6 DEF Kept, ClockInv, RecInv, Counted, Timely, InOrder, Fitting
<1>8. /\ "ts" \in DOMAIN IrqEvent(0, 1) /\ "ts" \in DOMAIN ReadEvent(0, 5)
      /\ \A ts \in Nat : [IrqEvent(0, 1) EXCEPT !.ts = ts] \in EventSet
      /\ \A ts \in Nat : [ReadEvent(0, 5) EXCEPT !.ts = ts] \in EventSet
  BY DEF IrqEvent, ReadEvent, EventSet
<1>9. Settled(now.w, now.sink, received, now.recorded)
  BY <1>1, <1>6, IdleSettled DEF TraceInv
<1>10. Settled(s.w, s.sink, received, s.recorded)
  BY <1>3, <1>4, <1>7, <1>8, <1>9, AtomicSettles
<1>11. Kept(s) /\ InOrder(s) /\ UsedUnits(s.sink) <= Cap
  BY <1>3, <1>4, <1>7, <1>8, AtomicIs DEF Pushed
<1>12. Settled(o.w, o.sink, received, o.recorded)
  BY <1>3, <1>5, <1>8, <1>10, <1>11, AtomicSettles
<1>13. InHand(main', writer', ring', recorded')
  BY <1>1, <1>5 DEF InHand
<1>14. Settled(writer', ring', received', recorded') /\ writer'.ok \in BOOLEAN
       /\ phase' = "run" /\ main'.at = "idle"
  BY <1>1, <1>5, <1>12 DEF Settled
<1> QED
  BY <1>13, <1>14, IdleSettled DEF TraceInv

--------------------------------------------------------------------------------
(* The steps of the main loop's call.                                        *)

\* A step of the call that moves only the main loop.
LEMMA CallTells ==
    ASSUME TraceInv, UNCHANGED <<writer, ring, received, recorded, torn, phase>>,
           phase = "run", main.at \notin {"pushed", "appended"},
           main'.at \notin {"pushed", "appended"},
           ~torn => InHand(main', writer, ring, recorded)
    PROVE  TraceInv'
<1>1. ~torn => /\ Ends(main, writer, "run") = FALSE /\ Ends(main', writer, "run") = FALSE
               /\ Blocks(main, writer) = writer.block_seq
               /\ Blocks(main', writer) = writer.block_seq
               /\ Behind(main, recorded) = Len(recorded)
               /\ Behind(main', recorded) = Len(recorded)
  BY IdleSettled DEF TraceInv
<1> QED
  BY <1>1 DEF TraceInv

\* What is known of the trace before a step of the call.
LEMMA TraceIs ==
    ASSUME TraceInv, ~torn
    PROVE  /\ Tells(writer, ring, received, recorded, Blocks(main, writer),
                    Ends(main, writer, phase))
           /\ Predicts(writer, recorded, Behind(main, recorded))
           /\ writer.ok \in BOOLEAN
           /\ InHand(main, writer, ring, recorded)
           /\ recorded \in Seq(EventSet) /\ writer.used = Len(writer.staged)
           /\ writer.staged \in Seq(EncodedSet) /\ Len(writer.staged) \in Nat
           /\ writer.staged = <<>> <=> writer.used = 0
<1>1. /\ Tells(writer, ring, received, recorded, Blocks(main, writer),
               Ends(main, writer, phase))
      /\ Predicts(writer, recorded, Behind(main, recorded))
      /\ writer.ok \in BOOLEAN
      /\ InHand(main, writer, ring, recorded)
  BY DEF TraceInv
<1>2. /\ recorded \in Seq(EventSet) /\ writer.used = Len(writer.staged)
      /\ writer.staged \in Seq(EncodedSet)
  BY <1>1, TellsEvents
<1>3. Len(writer.staged) \in Nat /\ (writer.staged = <<>> <=> Len(writer.staged) = 0)
  BY <1>2, LenIs, Zenon
<1> QED
  BY <1>1, <1>2, <1>3

\* The counter is read.
LEMMA SampleTrace == ASSUME TraceInv, Sample PROVE TraceInv'
<1>1. /\ UNCHANGED <<writer, ring, received, recorded, torn, phase>>
      /\ phase = "run" /\ main.at = "idle"
  BY DEF Sample, MainFree, UNCHANGED_link
<1>2. PICK what : main' = [at |-> "sampled", what |-> what, time |-> time']
  BY DEF Sample
<1>3. main'.at = "sampled"
  BY <1>2
<1>4. InHand(main', writer, ring, recorded)
  BY <1>3 DEF InHand
<1> QED
  BY <1>1, <1>3, <1>4, CallTells

\* The clock moves on.
LEMMA StampTrace == ASSUME RecInv, TraceInv, Stamp PROVE TraceInv'
<1>1. /\ UNCHANGED <<writer, ring, received, recorded, torn, phase>>
      /\ main.at = "sampled"
  BY DEF Stamp, UNCHANGED_link
<1>2. phase = "run"
  BY <1>1 DEF RecInv, Alone
<1>3. PICK what, ts : main' = [at |-> "stamped", what |-> what, ts |-> ts]
  BY DEF Stamp
<1>4. main'.at = "stamped"
  BY <1>3
<1>5. InHand(main', writer, ring, recorded)
  BY <1>4 DEF InHand
<1> QED
  BY <1>1, <1>2, <1>4, <1>5, CallTells

\* Behind a call of the writer there is a block to flush only if one is staged.
LEMMA AfterWriteInHand ==
    ASSUME NEW w, NEW what, NEW r, NEW rec, w.used \in Nat, w.ok \in BOOLEAN,
           w.staged = <<>> <=> w.used = 0,
           NEW m, m = AfterWrite(w, what)
    PROVE  InHand(m, w, r, rec) /\ m.at \in {"idle", "frame", "end"}
<1>1. CASE what = "access"
  <2>1. m.at = "idle"
    BY <1>1 DEF AfterWrite, NoCall
  <2> QED
    BY <2>1 DEF InHand
<1>2. CASE what # "access" /\ w.ok /\ w.used > 0
  <2>1. m = [at |-> "frame", then |-> "end"]
    BY <1>2 DEF AfterWrite, Flushing
  <2>2. m.at = "frame" /\ m.then = "end" /\ w.staged # <<>>
    BY <1>2, <2>1
  <2> QED
    BY <2>2 DEF InHand
<1>3. CASE what # "access" /\ ~(w.ok /\ w.used > 0)
  <2>1. m.at = "end"
    BY <1>3 DEF AfterWrite
  <2>2. w.ok => w.staged = <<>>
    BY <1>3
  <2> QED
    BY <2>1, <2>2 DEF InHand
<1> QED
  BY <1>1, <1>2, <1>3

\* The event is encoded against the running state of the writer.
LEMMA EncodeTrace == ASSUME RecInv, TraceInv, Encode PROVE TraceInv'
<1>1. /\ UNCHANGED <<ring, received, recorded, torn, phase>> /\ main.at = "stamped"
  BY DEF Encode, UNCHANGED_link
<1>2. phase = "run"
  BY <1>1 DEF RecInv, Alone
<1>3. CASE ~torn
  <2>1. /\ Between(writer.last_ts, main.ts, Value(clock))
        /\ Predicts(writer, recorded, Len(recorded))
    BY <1>1, <1>3, TraceIs, CallIs DEF Carries, Behind
  <2>2. CASE ~Recording(writer)
    <3>1. writer' = writer /\ main' = AfterWrite(writer, main.what)
      BY <2>2 DEF Encode
    <3>2. InHand(main', writer, ring, recorded) /\ main'.at \in {"idle", "frame", "end"}
      BY <1>3, <3>1, TraceIs, AfterWriteInHand
    <3> QED
      BY <1>1, <1>2, <3>1, <3>2, CallTells
  <2>3. CASE Recording(writer) /\ main.ts < writer.last_ts
    <3>1. main.ts \in Int /\ writer.last_ts <= main.ts
      BY <2>1 DEF Between
    <3>2. writer.last_ts \in Int
      BY <1>3, WriterIs DEF Between
    <3> QED
      BY <2>3, <3>1, <3>2
  <2>4. CASE Recording(writer) /\ ~(main.ts < writer.last_ts)
    <3>1. writer' = writer
      BY <2>4 DEF Encode
    <3>2. PICK ev, e :
             /\ ev = CallEvent(main.what, main.ts)
             /\ e = [type |-> ev.type, value |-> ev.value, dts |-> ev.ts - writer.last_ts,
                     arg |-> IF IsMmio(ev.type) THEN ev.addr - writer.last_addr ELSE ev.addr]
             /\ main' = [at |-> "encoded", what |-> main.what, ev |-> ev, encoded |-> e]
      BY <2>4 DEF Encode
    <3>3. main.ts \in Nat
      <4>1. writer.last_ts \in Nat
        <5>1. Len(recorded) \in 0 .. Len(recorded)
          BY <1>3, TraceIs
        <5> QED
          BY <1>3, <2>1, <5>1, TraceIs, StateIsNat DEF Predicts
      <4>2. main.ts \in Int /\ writer.last_ts <= main.ts
        BY <2>1 DEF Between
      <4> QED
        BY <4>1, <4>2
    <3>4. ev \in EventSet
      BY <3>2, <3>3 DEF CallEvent, ReadEvent, StopEvent, EventSet
    <3>5. Encodes(recorded, ev, e)
      BY <1>3, <2>1, <3>2, <3>4, TraceIs, EncodedHere
    <3>6. main'.at = "encoded" /\ main'.ev = ev /\ main'.encoded = e
      BY <3>2
    <3>7. InHand(main', writer, ring, recorded)
      BY <3>4, <3>5, <3>6 DEF InHand, Ready
    <3> QED
      BY <1>1, <1>2, <3>1, <3>6, <3>7, CallTells
  <2> QED
    BY <2>2, <2>3, <2>4
<1> QED
  BY <1>1, <1>3 DEF TraceInv

\* stage asks for room.
LEMMA RoomTrace == ASSUME RecInv, TraceInv, Room PROVE TraceInv'
<1>1. /\ UNCHANGED <<writer, ring, received, recorded, torn, phase>>
      /\ main.at = "encoded"
      /\ main' = IF writer.used + 1 > PayloadCap
                 THEN [at |-> "frame", then |-> "append", call |-> main]
                 ELSE [at |-> "append", call |-> main]
  BY DEF Room, UNCHANGED_link
<1>2. phase = "run"
  BY <1>1 DEF RecInv, Alone
<1>3. main'.at \in {"frame", "append"}
  BY <1>1
<1>4. ASSUME ~torn PROVE InHand(main', writer, ring, recorded)
  <2>1. Ready(main, recorded)
    BY <1>1, <1>4, TraceIs DEF InHand
  <2>2. CASE writer.used + 1 > PayloadCap
    <3>1. main'.at = "frame" /\ main'.then = "append" /\ main'.call = main
      BY <1>1, <2>2
    <3>2. writer.staged # <<>>
      <4>1. PICK u, p : u = writer.used /\ p = PayloadCap
        OBVIOUS
      <4>2. u \in Nat /\ p \in Nat /\ 1 <= p /\ u + 1 > p
        BY <2>2, <4>1, WriterIs
      <4>3. u # 0
        BY ONLY <4>2
      <4> QED
        BY <1>4, <4>1, <4>3, TraceIs
    <3> QED
      BY <2>1, <3>1, <3>2 DEF InHand
  <2>3. CASE ~(writer.used + 1 > PayloadCap)
    <3>1. main'.at = "append" /\ main'.call = main
      BY <1>1, <2>3
    <3> QED
      BY <2>1, <3>1 DEF InHand
  <2> QED
    BY <2>2, <2>3
<1> QED
  BY <1>1, <1>2, <1>3, <1>4, CallTells

\* The frame is taken.
LEMMA FrameTrace == ASSUME ClockInv, RecInv, TraceInv, Frame PROVE TraceInv'
<1>1. /\ UNCHANGED <<writer, ring, received, recorded, torn, phase>>
      /\ main.at = "frame" /\ Placed(main)
  BY DEF Frame, UNCHANGED_link, ClockInv, MainShape
<1>2. phase = "run"
  BY <1>1 DEF RecInv, Alone
<1>3. PICK fields : /\ fields = [at |-> "framed", seq |-> writer.block_seq,
                                 frame |-> writer.staged]
                    /\ main' = Advanced(main, fields)
  BY DEF Frame
<1>4. /\ DOMAIN fields = {"at", "seq", "frame"} /\ fields.at = "framed"
      /\ fields.seq = writer.block_seq /\ fields.frame = writer.staged
  BY <1>3
<1>5. /\ main'.at = "framed" /\ main'.seq = writer.block_seq
      /\ main'.frame = writer.staged
  BY <1>3, <1>4 DEF Advanced
<1>6. main'.then = main.then /\ (main.then = "append" => main'.call = main.call)
  BY <1>1, <1>3, <1>4 DEF Advanced, Placed
<1>7. ASSUME ~torn PROVE InHand(main', writer, ring, recorded)
  <2>1. InHand(main, writer, ring, recorded)
    BY <1>7, TraceIs
  <2> QED
    BY <1>1, <1>5, <1>6, <2>1 DEF InHand
<1> QED
  BY <1>1, <1>2, <1>5, <1>7, CallTells

\* The call on its way to the sink, with a piece.
Heading(m, w, rec, piece) ==
    /\ "then" \in DOMAIN m /\ m.then \in {"append", "end", "over"}
    /\ m.then = "append" => "call" \in DOMAIN m /\ Ready(m.call, rec)
    /\ piece = IF m.then = "over" THEN EndPiece ELSE SentBlock(w)
    /\ IF m.then = "over" THEN w.ok /\ w.staged = <<>> ELSE w.staged # <<>>

\* A push that has been offered to the ring, and is over.
LEMMA PushedTells ==
    ASSUME TraceInv, ~torn, phase = "run", IsRing(ring),
           UNCHANGED <<writer, received, recorded, torn, phase>>,
           main.at \notin {"pushed", "appended"},
           NEW m, NEW piece, Heading(m, writer, recorded, piece),
           NEW taken \in BOOLEAN, Offered(ring, piece, ring', taken),
           main'.at = "pushed", main'.then = m.then, main'.taken = taken,
           m.then = "append" => main'.call = m.call
    PROVE  TraceInv'
<1>1. Tells(writer, ring, received, recorded, writer.block_seq, FALSE)
  BY IdleSettled DEF TraceInv
<1>2. /\ writer.ok \in BOOLEAN /\ Predicts(writer, recorded, Len(recorded))
  BY IdleSettled DEF TraceInv
<1>3. InHand(main', writer, ring', recorded)
  BY DEF InHand, Heading
<1>4. Behind(main', recorded) = Len(recorded)
  BY DEF Behind
<1>5. CASE m.then = "over"
  <2>1. Tells(writer, ring', received, recorded, writer.block_seq, taken)
    BY <1>1, <1>5, EndTells DEF Heading
  <2>2. Blocks(main', writer) = writer.block_seq /\ Ends(main', writer, phase) = taken
    BY <1>5 DEF Blocks, Ends
  <2> QED
    BY <1>2, <1>3, <1>4, <2>1, <2>2 DEF TraceInv
<1>6. CASE m.then # "over"
  <2>1. Tells(writer, ring', received, recorded, writer.block_seq + 1, FALSE)
    BY <1>1, <1>6, BlockTells DEF Heading
  <2>2. Blocks(main', writer) = writer.block_seq + 1 /\ Ends(main', writer, phase) = FALSE
    BY <1>6 DEF Blocks, Ends
  <2> QED
    BY <1>2, <1>3, <1>4, <2>1, <2>2 DEF TraceInv
<1> QED
  BY <1>5, <1>6

\* A push starts, or is refused.
LEMMA StartPushTrace ==
    ASSUME RecInv, TraceInv, ~torn, main.at \notin {"idle", "pushed", "appended"},
           UNCHANGED <<writer, received, recorded, torn, phase>>,
           NEW piece, NEW m, Heading(m, writer, recorded, piece), StartPush(piece, m)
    PROVE  TraceInv'
<1>1. phase = "run" /\ IsRing(ring)
  BY DEF RecInv, Alone, Counted
<1>2. "then" \in DOMAIN m /\ (m.then = "append" => "call" \in DOMAIN m)
  BY DEF Heading
<1>3. CASE Fits(ring, piece)
  <2>1. PICK fields : /\ fields = [at |-> "pushing", piece |-> piece, head |-> ring.head,
                                   copied |-> 0]
                      /\ main' = Advanced(m, fields)
    BY <1>3 DEF StartPush
  <2>2. ring' = ring
    BY <1>3 DEF StartPush
  <2>3. /\ DOMAIN fields = {"at", "piece", "head", "copied"}
        /\ fields.at = "pushing" /\ fields.piece = piece /\ fields.head = ring.head
        /\ fields.copied = 0
    BY <2>1
  <2>4. /\ main'.at = "pushing" /\ main'.piece = piece /\ main'.head = ring.head
        /\ main'.copied = 0
    BY <2>1, <2>3 DEF Advanced
  <2>5. main'.then = m.then /\ (m.then = "append" => main'.call = m.call)
    BY <1>2, <2>1, <2>3 DEF Advanced
  <2>6. InHand(main', writer, ring, recorded)
    BY <2>4, <2>5 DEF InHand, Heading
  <2> QED
    BY <1>1, <2>2, <2>4, <2>6, CallTells
<1>4. CASE ~Fits(ring, piece)
  <2>1. PICK fields : /\ fields = [at |-> "pushed", taken |-> FALSE]
                      /\ main' = Advanced(m, fields)
    BY <1>4 DEF StartPush
  <2>2. ring' = Dropped(ring)
    BY <1>4 DEF StartPush
  <2>3. DOMAIN fields = {"at", "taken"} /\ fields.at = "pushed" /\ fields.taken = FALSE
    BY <2>1
  <2>4. main'.at = "pushed" /\ main'.taken = FALSE
    BY <2>1, <2>3 DEF Advanced
  <2>5. main'.then = m.then /\ (m.then = "append" => main'.call = m.call)
    BY <1>2, <2>1, <2>3 DEF Advanced
  <2>6. Offered(ring, piece, ring', FALSE)
    BY <2>2 DEF Offered
  <2> QED
    BY <1>1, <2>4, <2>5, <2>6, PushedTells
<1> QED
  BY <1>3, <1>4

\* The block goes to the sink.
LEMMA PushBlockTrace == ASSUME ClockInv, RecInv, TraceInv, PushBlock PROVE TraceInv'
<1>1. /\ UNCHANGED <<writer, received, recorded, torn, phase>>
      /\ main.at = "framed" /\ Placed(main)
  BY DEF PushBlock, UNCHANGED_link, ClockInv, MainShape
<1>2. PICK m, piece :
         /\ m = Restrict(main, DOMAIN main \ {"seq", "frame"})
         /\ piece = Framed([seq |-> main.seq, payload |-> writer.staged], main.frame)
         /\ StartPush(piece, m)
  BY DEF PushBlock
<1>3. ASSUME ~torn PROVE TraceInv'
  <2>1. InHand(main, writer, ring, recorded)
    BY <1>3, TraceIs
  <2>2. piece = SentBlock(writer)
    BY <1>1, <1>2, <2>1 DEF InHand, SentBlock
  <2>3. /\ "then" \in DOMAIN m /\ m.then = main.then
        /\ main.then = "append" => "call" \in DOMAIN m /\ m.call = main.call
    BY <1>1, <1>2 DEF Restrict, Placed
  <2>4. Heading(m, writer, recorded, piece)
    BY <1>1, <2>1, <2>2, <2>3 DEF Heading, InHand
  <2> QED
    BY <1>1, <1>2, <1>3, <2>4, StartPushTrace
<1> QED
  BY <1>1, <1>3 DEF TraceInv

\* The terminator goes to the sink.
LEMMA PushEndTrace == ASSUME RecInv, TraceInv, PushEnd PROVE TraceInv'
<1>1. /\ UNCHANGED <<writer, received, recorded, torn, phase>>
      /\ main.at = "end" /\ writer.ok
  BY DEF PushEnd, UNCHANGED_link
<1>2. PICK m : m = [at |-> "end", then |-> "over"] /\ StartPush(EndPiece, m)
  BY DEF PushEnd
<1>3. ASSUME ~torn PROVE TraceInv'
  <2>1. InHand(main, writer, ring, recorded)
    BY <1>3, TraceIs
  <2>2. "then" \in DOMAIN m /\ m.then = "over"
    BY <1>2
  <2>3. Heading(m, writer, recorded, EndPiece)
    BY <1>1, <2>1, <2>2 DEF Heading, InHand
  <2> QED
    BY <1>1, <1>2, <1>3, <2>3, StartPushTrace
<1> QED
  BY <1>1, <1>3 DEF TraceInv

\* The piece is in the ring.
LEMMA PublishTrace == ASSUME ClockInv, RecInv, TraceInv, PublishPiece PROVE TraceInv'
<1>1. /\ UNCHANGED <<writer, received, recorded, torn, phase>>
      /\ main.at = "pushing" /\ Placed(main)
  BY DEF PublishPiece, UNCHANGED_link, ClockInv, MainShape
<1>2. PICK m, fields :
         /\ m = Restrict(main, DOMAIN main \ {"piece", "head", "copied"})
         /\ fields = [at |-> "pushed", taken |-> TRUE] /\ main' = Advanced(m, fields)
  BY DEF PublishPiece
<1>3. ASSUME ~torn PROVE TraceInv'
  <2>1. InHand(main, writer, ring, recorded)
    BY <1>3, TraceIs
  <2>2. /\ "then" \in DOMAIN m /\ m.then = main.then
        /\ main.then = "append" => "call" \in DOMAIN m /\ m.call = main.call
    BY <1>1, <1>2 DEF Restrict, Placed
  <2>3. DOMAIN fields = {"at", "taken"} /\ fields.at = "pushed" /\ fields.taken = TRUE
    BY <1>2
  <2>4. main'.at = "pushed" /\ main'.taken = TRUE
    BY <1>2, <2>3 DEF Advanced
  <2>5. main'.then = m.then /\ (m.then = "append" => main'.call = m.call)
    BY <1>2, <2>2, <2>3 DEF Advanced
  <2>6. PICK piece : piece = main.piece
    OBVIOUS
  <2>7. Heading(m, writer, recorded, piece)
    BY <1>1, <2>1, <2>2, <2>6 DEF Heading, InHand
  <2>8. IsRing(ring) /\ phase = "run"
    BY <1>1 DEF RecInv, Alone, Counted
  <2>9. ring' = Publish(CopyUnits(ring, piece, ring.head, 1, PieceLen(piece)), piece)
    <3>1. main.head = ring.head /\ main.copied + 1 = 1
      BY <1>1, <2>1 DEF InHand
    <3> QED
      BY <2>6, <3>1 DEF PublishPiece
  <2>10. PieceLen(piece) \in Nat /\ UsedUnits(ring) + PieceLen(piece) <= Cap
    <3>1. PieceLen(piece) \in Nat /\ PieceLen(piece) <= Cap - UsedUnits(ring)
      BY <1>1, <1>3, <2>6 DEF RecInv, Fitting
    <3>2. Cap \in Nat /\ UsedUnits(ring) \in Int
      BY CallIs DEF UsedUnits
    <3> QED
      BY <3>1, <3>2
  <2>11. Offered(ring, piece, ring', TRUE)
    BY <2>8, <2>9, <2>10 DEF Offered, Grown
  <2> QED
    BY <1>1, <1>3, <2>2, <2>4, <2>5, <2>7, <2>8, <2>11, PushedTells
<1> QED
  BY <1>1, <1>3 DEF TraceInv

\* The block is spent.
LEMMA SpendTrace == ASSUME ClockInv, RecInv, TraceInv, Spend PROVE TraceInv'
<1>1. /\ UNCHANGED <<ring, received, recorded, torn, phase>>
      /\ main.at = "pushed" /\ main.then # "over" /\ Placed(main)
      /\ main' = IF main.then = "append" THEN [at |-> "append", call |-> main.call]
                 ELSE [at |-> "end"]
      /\ writer' = [writer EXCEPT !.block_seq = @ + 1, !.staged = <<>>, !.used = 0,
                                  !.blocks_lost = IF main.taken THEN @ ELSE @ + 1]
  BY DEF Spend, UNCHANGED_link, ClockInv, MainShape
<1>2. phase = "run"
  BY <1>1 DEF RecInv, Alone
<1>3. Spent(writer, writer')
  <2>1. PICK w, v, taken : w = writer /\ v = writer' /\ taken = main.taken
    OBVIOUS
  <2>2. v = [w EXCEPT !.block_seq = @ + 1, !.staged = <<>>, !.used = 0,
                      !.blocks_lost = IF taken THEN @ ELSE @ + 1]
    BY <1>1, <2>1
  <2>3. Spent(w, v)
    BY <2>1, <2>2, WriterIs, SpentFields
  <2> QED
    BY <2>1, <2>3
<1>4. ASSUME ~torn PROVE TraceInv'
  <2>1. /\ Tells(writer, ring, received, recorded, writer.block_seq + 1, FALSE)
        /\ Predicts(writer, recorded, Len(recorded)) /\ writer.ok \in BOOLEAN
        /\ InHand(main, writer, ring, recorded)
    <3>1. /\ Blocks(main, writer) = writer.block_seq + 1
          /\ Ends(main, writer, phase) = FALSE
          /\ Behind(main, recorded) = Len(recorded)
      BY <1>1, <1>2 DEF Blocks, Ends, Behind
    <3> QED
      BY <1>4, <3>1, TraceIs
  <2>2. Tells(writer', ring, received, recorded, writer'.block_seq, FALSE)
    BY <1>3, <2>1, SpentTells
  <2>3. /\ Predicts(writer', recorded, Len(recorded)) /\ writer'.ok \in BOOLEAN
        /\ writer'.staged = <<>>
    BY <1>3, <2>1 DEF Spent, Predicts
  <2>4. main'.at \in {"append", "end"} /\ (main'.at = "append" => Ready(main'.call, recorded))
    <3>1. CASE main.then = "append"
      <4>1. main'.at = "append" /\ main'.call = main.call
        BY <1>1, <3>1
      <4> QED
        BY <1>1, <2>1, <3>1, <4>1 DEF InHand
    <3>2. CASE main.then # "append"
      <4>1. main'.at = "end"
        BY <1>1, <3>2
      <4> QED
        BY <4>1
    <3> QED
      BY <3>1, <3>2
  <2>5. InHand(main', writer', ring, recorded)
    BY <2>3, <2>4 DEF InHand
  <2>6. Settled(writer', ring, received, recorded)
    BY <2>2, <2>3 DEF Settled
  <2> QED
    BY <1>1, <1>2, <2>3, <2>4, <2>5, <2>6, IdleSettled DEF TraceInv
<1> QED
  BY <1>1, <1>4 DEF TraceInv

\* The event is staged.
LEMMA AppendTrace == ASSUME ClockInv, RecInv, TraceInv, AppendEvent PROVE TraceInv'
<1>1. /\ UNCHANGED <<ring, received, torn, phase>>
      /\ main.at = "append" /\ Placed(main)
      /\ recorded' = Append(recorded, main.call.ev)
      /\ main' = [main.call EXCEPT !.at = "appended"]
      /\ writer' = [writer EXCEPT !.staged = Append(@, main.call.encoded),
                                  !.used = @ + 1, !.events = @ + 1]
  BY DEF AppendEvent, UNCHANGED_link, ClockInv, MainShape
<1>2. phase = "run"
  BY <1>1 DEF RecInv, Alone
<1>3. ASSUME ~torn PROVE TraceInv'
  <2>1. PICK ev, e : ev = main.call.ev /\ e = main.call.encoded
    OBVIOUS
  <2>2. /\ Settled(writer, ring, received, recorded) /\ writer.ok \in BOOLEAN
        /\ InHand(main, writer, ring, recorded) /\ recorded \in Seq(EventSet)
    BY <1>1, <1>2, <1>3, TraceIs, IdleSettled
  <2>3. ev \in EventSet /\ Encodes(recorded, ev, e)
    BY <1>1, <2>1, <2>2 DEF InHand, Ready
  <2>4. StagedFields(writer, writer', e)
    BY <1>1, <2>1, WriterIs, StagedHas
  <2>5. Tells(writer', ring, received, recorded', writer'.block_seq, FALSE)
    <3>1. PICK w, v, r, rcv, rec :
             w = writer /\ v = writer' /\ r = ring /\ rcv = received /\ rec = recorded
      OBVIOUS
    <3>2. /\ Tells(w, r, rcv, rec, w.block_seq, FALSE)
          /\ v.staged = Append(w.staged, e) /\ v.used = w.used + 1
          /\ v.block_seq = w.block_seq
      BY <2>2, <2>4, <3>1 DEF Settled, StagedFields
    <3>3. Tells(v, r, rcv, Append(rec, ev), v.block_seq, FALSE)
      BY ONLY <2>3, <3>1, <3>2, AppendTells
    <3> QED
      BY <1>1, <2>1, <3>1, <3>3
  <2>6. /\ Len(recorded) \in 0 .. Len(recorded) /\ Len(recorded') = Len(recorded) + 1
        /\ recorded'[Len(recorded')] = ev /\ recorded' # <<>>
        /\ Len(recorded') - 1 = Len(recorded)
    BY <1>1, <2>1, <2>2, <2>3
  <2>7. Predicts(writer', recorded', Len(recorded))
    <3>1. Predicts(writer, recorded, Len(recorded))
      BY <2>2 DEF Settled
    <3>2. /\ TsAfter(recorded', Len(recorded)) = TsAfter(recorded, Len(recorded))
          /\ AddrAfter(recorded', Len(recorded)) = AddrAfter(recorded, Len(recorded))
      BY <1>1, <2>1, <2>2, <2>3, <2>6, EncodedBefore
    <3> QED
      BY <2>4, <3>1, <3>2 DEF Predicts, StagedFields
  <2>8. main'.at = "appended" /\ main'.ev = ev
    <3>1. "call" \in DOMAIN main /\ "at" \in DOMAIN main.call
      BY <1>1 DEF Placed
    <3>2. "ev" \in DOMAIN main.call
      BY <1>3, <3>1, CallIs DEF Carries, CarriesEvent
    <3> QED
      BY <1>1, <2>1, <3>1, <3>2
  <2>9. InHand(main', writer', ring, recorded')
    BY <2>6, <2>8 DEF InHand
  <2>10. /\ Ends(main', writer', phase) = FALSE /\ Blocks(main', writer') = writer'.block_seq
         /\ Behind(main', recorded') = Len(recorded)
    BY <1>2, <2>6, <2>8 DEF Ends, Blocks, Behind
  <2>11. writer'.ok \in BOOLEAN
    BY <2>2, <2>4 DEF StagedFields
  <2> QED
    BY <1>1, <1>2, <2>5, <2>7, <2>9, <2>10, <2>11 DEF TraceInv
<1> QED
  BY <1>1, <1>3 DEF TraceInv

\* The running state moves on to the event's.
LEMMA CommitTrace == ASSUME RecInv, TraceInv, Commit PROVE TraceInv'
<1>1. /\ UNCHANGED <<ring, received, recorded, torn, phase>>
      /\ main.at = "appended" /\ main' = AfterWrite(writer', main.what)
  BY DEF Commit, UNCHANGED_link
<1>2. phase = "run"
  BY <1>1 DEF RecInv, Alone
<1>3. PICK ts, addr :
         /\ ts = main.ev.ts
         /\ addr = IF IsMmio(main.ev.type) THEN main.ev.addr ELSE writer.last_addr
  OBVIOUS
<1>4. /\ writer'.staged = writer.staged /\ writer'.used = writer.used
      /\ writer'.block_seq = writer.block_seq /\ writer'.ok = writer.ok
      /\ writer'.last_ts = ts /\ writer'.last_addr = addr
  <2>1. writer' = [writer EXCEPT !.last_ts = ts, !.last_addr = addr]
    BY <1>3 DEF Commit
  <2> QED
    BY <2>1, WriterIs DEF IsWriter
<1>5. ASSUME ~torn PROVE TraceInv'
  <2> DEFINE n == Len(recorded)
  <2>1. /\ Tells(writer, ring, received, recorded, writer.block_seq, FALSE)
        /\ Predicts(writer, recorded, n - 1) /\ writer.ok \in BOOLEAN
        /\ InHand(main, writer, ring, recorded)
        /\ recorded \in Seq(EventSet) /\ (writer.staged = <<>> <=> writer.used = 0)
        /\ writer.used \in Nat
    <3>1. /\ Blocks(main, writer) = writer.block_seq
          /\ Ends(main, writer, phase) = FALSE
          /\ Behind(main, recorded) = n - 1
      BY <1>1, <1>2 DEF Blocks, Ends, Behind
    <3> QED
      BY <1>5, <3>1, TraceIs
  <2>2. recorded # <<>> /\ main.ev = recorded[n]
    BY <1>1, <2>1 DEF InHand
  <2>3. n \in Nat /\ n > 0
    BY <2>1, <2>2, LenIs, Zenon
  <2> HIDE DEF n
  <2>4. Predicts(writer', recorded, n)
    <3>1. TsAfter(recorded, n) = ts
      BY <1>3, <2>2, <2>3 DEF TsAfter
    <3>2. AddrAfter(recorded, n) = IF IsMmio(recorded[n].type) THEN recorded[n].addr
                                   ELSE AddrAfter(recorded, n - 1)
      BY <2>3, AddrStep
    <3>3. AddrAfter(recorded, n) = addr
      BY <1>3, <2>1, <2>2, <3>2 DEF Predicts
    <3> QED
      BY <1>4, <3>1, <3>3 DEF Predicts
  <2>5. Tells(writer', ring, received, recorded, writer'.block_seq, FALSE)
    BY <1>4, <2>1, SameTells
  <2>6. InHand(main', writer', ring, recorded) /\ main'.at \in {"idle", "frame", "end"}
    BY <1>1, <1>4, <2>1, AfterWriteInHand
  <2>7. Settled(writer', ring, received, recorded) /\ writer'.ok \in BOOLEAN
    BY <1>4, <2>1, <2>4, <2>5 DEF Settled, n
  <2> QED
    BY <1>1, <1>2, <2>6, <2>7, IdleSettled DEF TraceInv
<1> QED
  BY <1>1, <1>5 DEF TraceInv

\* stop() returns.
LEMMA StoppedTrace == ASSUME RecInv, TraceInv, Stopped PROVE TraceInv'
<1>1. /\ UNCHANGED <<ring, received, recorded, torn>>
      /\ main' = NoCall /\ phase' = "drain"
      /\ \/ main.at = "end" /\ ~writer.ok
         \/ main.at = "pushed" /\ main.then = "over"
  BY DEF Stopped
<1>2. phase = "run"
  BY <1>1 DEF RecInv, Alone
<1>3. main'.at = "idle"
  BY <1>1 DEF NoCall
<1>4. PICK refused \in BOOLEAN :
         /\ refused <=> main.at = "pushed" /\ ~main.taken
         /\ writer' = [(IF refused THEN WFail(writer, "sink rejected data") ELSE writer)
                       EXCEPT !.finished = TRUE]
  <2>1. CASE main.at = "pushed" /\ ~main.taken
    BY <2>1 DEF Stopped
  <2>2. CASE ~(main.at = "pushed" /\ ~main.taken)
    BY <2>2 DEF Stopped
  <2> QED
    BY <2>1, <2>2
<1>5. /\ writer'.staged = writer.staged /\ writer'.used = writer.used
      /\ writer'.block_seq = writer.block_seq
      /\ writer'.ok = (IF refused THEN FALSE ELSE writer.ok)
      /\ writer'.last_ts = writer.last_ts /\ writer'.last_addr = writer.last_addr
  <2>1. IsWriter(writer)
    BY WriterIs
  <2>2. PICK err, no, yes :
           /\ err = (IF writer.err = NoError THEN "sink rejected data" ELSE writer.err)
           /\ no = FALSE /\ yes = TRUE
    OBVIOUS
  <2>3. CASE refused
    <3>1. PICK w : w = [writer EXCEPT !.ok = no, !.err = err]
      OBVIOUS
    <3>2. w = WFail(writer, "sink rejected data")
      BY <2>2, <3>1 DEF WFail
    <3>3. writer' = [w EXCEPT !.finished = yes]
      BY <1>4, <2>2, <2>3, <3>2
    <3>4. writer' = [writer EXCEPT !.ok = no, !.err = err, !.finished = yes]
      BY <2>1, <3>1, <3>3 DEF IsWriter
    <3> QED
      BY <2>1, <2>2, <2>3, <3>4 DEF IsWriter
  <2>4. CASE ~refused
    <3>1. writer' = [writer EXCEPT !.finished = yes]
      BY <1>4, <2>2, <2>4
    <3> QED
      BY <2>1, <2>4, <3>1 DEF IsWriter
  <2> QED
    BY <2>3, <2>4
<1>6. ASSUME ~torn PROVE TraceInv'
  <2>1. /\ Tells(writer, ring, received, recorded, Blocks(main, writer),
                 Ends(main, writer, phase))
        /\ Predicts(writer, recorded, Len(recorded)) /\ writer.ok \in BOOLEAN
        /\ InHand(main, writer, ring, recorded)
    BY <1>1, <1>6, TraceIs DEF Behind
  <2>2. Blocks(main, writer) = writer.block_seq /\ Blocks(main', writer') = writer.block_seq
    BY <1>1, <1>3, <1>5 DEF Blocks
  <2>3. /\ writer'.ok \in BOOLEAN
        /\ Ends(main', writer', phase') = Ends(main, writer, phase)
        /\ writer'.ok => writer.staged = <<>>
    <3>1. CASE main.at = "end" /\ ~writer.ok
      <4>1. ~writer'.ok /\ writer'.ok \in BOOLEAN
        BY <1>4, <1>5, <2>1, <3>1
      <4>2. Ends(main', writer', phase') = FALSE /\ Ends(main, writer, phase) = FALSE
        BY <1>2, <1>3, <3>1, <4>1 DEF Ends
      <4> QED
        BY <4>1, <4>2
    <3>2. CASE main.at = "pushed" /\ main.then = "over"
      <4>1. main.taken \in BOOLEAN /\ writer.ok /\ writer.staged = <<>>
        BY <2>1, <3>2 DEF InHand
      <4>2. writer'.ok = main.taken
        BY <1>4, <1>5, <2>1, <3>2, <4>1
      <4>3. Ends(main', writer', phase') = main.taken
        BY <1>1, <1>3, <4>1, <4>2 DEF Ends
      <4>4. Ends(main, writer, phase) = main.taken
        BY <1>2, <3>2, <4>1 DEF Ends
      <4> QED
        BY <4>1, <4>2, <4>3, <4>4
    <3> QED
      BY <1>1, <3>1, <3>2
  <2>4. Tells(writer', ring, received, recorded, Blocks(main', writer'),
              Ends(main', writer', phase'))
    BY <1>5, <2>1, <2>2, <2>3, SameTells
  <2>5. Predicts(writer', recorded, Behind(main', recorded))
    BY <1>3, <1>5, <2>1 DEF Predicts, Behind
  <2>6. InHand(main', writer', ring, recorded)
    BY <1>3 DEF InHand
  <2> QED
    BY <1>1, <1>5, <2>3, <2>4, <2>5, <2>6 DEF TraceInv
<1> QED
  BY <1>1, <1>6 DEF TraceInv

\* A step of the consumer.
LEMMA ConsumerTrace == ASSUME RecInv, TraceInv, Consumer PROVE TraceInv'
<1>1. /\ UNCHANGED <<writer, main, recorded, torn>>
      /\ main.at = "idle"
  BY DEF Consumer, StartDrain, DrainChunk, DrainReturns, MainFree, RecInv, Alone
<1>2. (phase = "run" <=> phase' = "run")
  BY DEF Consumer, StartDrain, DrainChunk, DrainReturns
<1>3. Tells(writer, ring, received, recorded, Blocks(main, writer), Ends(main, writer, phase))
      => Tells(writer, ring', received', recorded, Blocks(main, writer),
               Ends(main, writer, phase))
  <2>1. CASE StartDrain \/ DrainReturns
    BY <2>1 DEF StartDrain, DrainReturns
  <2>2. CASE DrainChunk
    <3>1. PICK n \in 1 .. Chunk :
             /\ received' = received \o [u \in 1 .. n |-> ring.store[(ring.tail + u - 1) % Cap]]
             /\ ring' = [ring EXCEPT !.tail = @ + n]
      BY <2>2 DEF DrainChunk
    <3>2. /\ n \in Nat /\ ring.tail \in Nat /\ ring.tail + n <= ring.head
      <4>1. PICK k, u : k = Chunk /\ u = UsedUnits(ring)
        OBVIOUS
      <4>2. k \in Int /\ k <= u /\ n \in 1 .. k
        BY <3>1, <4>1, ChunkIs
      <4>3. ring.head \in Nat /\ ring.tail \in Nat /\ u = ring.head - ring.tail
        BY <4>1, CallIs DEF UsedUnits
      <4> QED
        BY ONLY <4>2, <4>3
    <3>3. /\ ring'.store = ring.store /\ ring'.head = ring.head
          /\ ring'.tail = ring.tail + n /\ ring'.drops = ring.drops
      <4>1. PICK r, m : r = ring /\ m = ring.tail + n
        OBVIOUS
      <4>2. IsRing(r) /\ ring' = [r EXCEPT !.tail = m]
        BY <3>1, <4>1, CallIs
      <4>3. /\ ring'.store = r.store /\ ring'.head = r.head
            /\ ring'.tail = m /\ ring'.drops = r.drops
        BY <4>2 DEF IsRing
      <4> QED
        BY <4>1, <4>3
    <3>4. IsRing(ring) /\ IsSeq(received) /\ Len(received) = ring.tail
      BY DEF RecInv, Counted
    <3>5. TakenOut(ring, received, n, ring', received')
      BY <3>1, <3>2, <3>3, <3>4 DEF TakenOut
    <3> QED
      BY <3>5, ToldDrained DEF Tells
  <2> QED
    BY <2>1, <2>2 DEF Consumer
<1>4. InHand(main, writer, ring', recorded) /\ Behind(main, recorded) = Len(recorded)
  BY <1>1 DEF InHand, Behind
<1>5. writer.ok \in BOOLEAN => Ends(main, writer, phase') = Ends(main, writer, phase)
  BY <1>1, <1>2 DEF Ends
<1> QED
  BY <1>1, <1>2, <1>3, <1>4, <1>5 DEF TraceInv

\* The header is in the ring and nothing else.
LEMMA InitTrace == ASSUME PushesToTheRing, RecInit PROVE TraceInv
<1> DEFINE yes == TRUE
           w == [NewWriter EXCEPT !.started = yes, !.ok = yes, !.err = NewWriter.err]
<1>1. PICK o \in Begin(NewWriter, EmptyRing, TRUE) :
         o.w.ok /\ writer = o.w /\ ring = o.sink
  BY DEF RecInit
<1>2. o \in Emit(w, EmptyRing, HeaderPiece)
  BY <1>1 DEF Begin, NewWriter
<1>3. PICK p \in Offer(EmptyRing, HeaderPiece) :
         o = [w |-> IF p.taken THEN w ELSE WFail(w, "sink rejected data"), sink |-> p.sink]
  BY <1>2 DEF Emit
<1>4. writer = w /\ p.taken /\ ring = p.sink
  <2>1. ~WFail(w, "sink rejected data").ok
    BY DEF WFail, NewWriter
  <2> HIDE DEF w
  <2> QED
    BY <1>1, <1>3, <2>1
<1>5. /\ w.staged = <<>> /\ w.used = 0 /\ w.block_seq = 0 /\ w.ok = TRUE
      /\ w.last_ts = 0 /\ w.last_addr = 0
  <2>1. PICK none, no, well : none = <<>> /\ no = FALSE /\ well = "none"
    OBVIOUS
  <2>2. NewWriter = [started |-> no, finished |-> no, ok |-> no, err |-> well,
                     staged |-> none, used |-> 0, last_ts |-> 0, last_addr |-> 0,
                     block_seq |-> 0, blocks_lost |-> 0, events |-> 0]
    BY <2>1 DEF NewWriter, NoError
  <2>3. /\ w.staged = none /\ w.used = 0 /\ w.block_seq = 0 /\ w.ok = yes
        /\ w.last_ts = 0 /\ w.last_addr = 0
    <3> HIDE DEF yes
    <3> QED
      BY <2>2
  <2> QED
    BY <2>1, <2>3
<1> HIDE DEF w
<1>7. HeaderPiece = AsSent(HeaderPiece) /\ PieceLen(HeaderPiece) = 1
  <2>1. HeaderPiece.kind = "header"
    BY DEF HeaderPiece
  <2> QED
    BY <2>1 DEF PieceLen, AsSent
<1>8. PICK r : r = EmptyRing /\ IsRing(r) /\ r.head = 0 /\ r.tail = 0 /\ r.drops = 0
  <2>1. PICK store : EmptyRing = [store |-> store, head |-> 0, tail |-> 0, drops |-> 0]
    BY DEF EmptyRing
  <2>2. PICK r : r = EmptyRing /\ r = [store |-> store, head |-> 0, tail |-> 0, drops |-> 0]
    BY <2>1
  <2>3. IsRing(r) /\ r.head = 0 /\ r.tail = 0 /\ r.drops = 0
    BY <2>2 DEF IsRing
  <2> QED
    BY <2>2, <2>3
<1>9. PICK n : Grown(r, HeaderPiece, n, ring)
  <2>1. UsedUnits(r) <= Cap
    BY <1>8, RecorderAssumption DEF UsedUnits
  <2>2. Offered(r, HeaderPiece, p.sink, p.taken)
    <3>1. p \in Offer(r, HeaderPiece) /\ IsRing(r)
      BY <1>3, <1>8
    <3>2. PieceLen(HeaderPiece) \in Nat
      BY <1>7
    <3> QED
      BY <1>7, <2>1, <3>1, <3>2, SinkOffers
  <2> QED
    BY <1>4, <2>2 DEF Offered
<1>10. n = 1
  BY <1>7, <1>9 DEF Grown
<1> DEFINE cuts == [s \in Nat |-> 0]
           units == Stream(ring, received)
<1>11. Longer(Stream(r, received), r.head, r.drops, HeaderPiece, n, units, ring)
  <2>1. PICK rcv, q : rcv = received /\ q = ring
    OBVIOUS
  <2>2. Grown(r, HeaderPiece, n, q)
    BY <1>9, <2>1
  <2>3. Longer(Stream(r, rcv), r.head, r.drops, HeaderPiece, n, Stream(q, rcv), q)
    BY <2>2, StreamGrows
  <2> QED
    BY <2>1, <2>3
<1>12. /\ ring.head = 1 /\ ring.drops = 0
       /\ units[0] = [piece |-> HeaderPiece, unit |-> 1]
  <2>1. 0 + 1 - 1 = 0 /\ 1 \in 1 .. 1
    OBVIOUS
  <2> HIDE DEF units
  <2> QED
    BY <1>8, <1>10, <1>11, <2>1 DEF Longer
<1>13. units[0].piece = HeaderPiece
  <2> HIDE DEF units
  <2> QED
    BY <1>12
<1>14. recorded = <<>> /\ phase = "run" /\ main.at = "idle"
  BY DEF RecInit, NoCall
<1>15. Shares(cuts, writer, recorded, 0)
  <2>1. <<>> \in Seq(EncodedSet) /\ <<>> \in Seq(EventSet) /\ Len(<<>>) = 0
    OBVIOUS
  <2>2. cuts \in [Nat -> Nat] /\ cuts[0] = 0
    OBVIOUS
  <2> HIDE DEF cuts
  <2>3. HoldsFrom(<<>>, 0, <<>>)
    BY <2>1 DEF HoldsFrom
  <2> QED
    BY <1>4, <1>5, <1>14, <2>1, <2>2, <2>3 DEF Shares
<1>16. Stowed(cuts, 0, recorded, units, 1)
  <2> HIDE DEF cuts, units
  <2> QED
    BY <1>13 DEF Stowed
<1>17. Whole(cuts, 0, recorded, units, 1, FALSE)
  <2>1. cuts[0] = 0
    OBVIOUS
  <2> HIDE DEF cuts, units
  <2> QED
    BY <1>12, <2>1 DEF Whole
<1>18. Tells(writer, ring, received, recorded, writer.block_seq, FALSE)
  <2>1. Told(cuts, writer, ring, received, recorded, 0, FALSE)
    <3> HIDE DEF cuts, units
    <3>1. Told(cuts, writer, ring, received, recorded, 0, FALSE)
          <=> /\ Shares(cuts, writer, recorded, 0)
              /\ ring.head \in Nat /\ ring.drops \in Nat
              /\ Stowed(cuts, 0, recorded, units, ring.head)
              /\ ring.drops = 0 => Whole(cuts, 0, recorded, units, ring.head, FALSE)
      BY DEF Told, units
    <3>2. ring.head \in Nat /\ ring.drops \in Nat
      BY <1>12
    <3>3. Stowed(cuts, 0, recorded, units, ring.head)
      BY <1>12, <1>16, Zenon
    <3>4. Whole(cuts, 0, recorded, units, ring.head, FALSE)
      BY <1>12, <1>17, Zenon
    <3> QED
      BY <1>15, <3>1, <3>2, <3>3, <3>4
  <2> HIDE DEF cuts, units
  <2> QED
    BY <1>4, <1>5, <2>1 DEF Tells
<1>19. Predicts(writer, recorded, Len(recorded))
  <2>1. Len(recorded) = 0
    BY <1>14
  <2>2. TsAfter(recorded, 0) = 0 /\ AddrAfter(recorded, 0) = 0
    BY AddrZero DEF TsAfter
  <2> QED
    BY <1>4, <1>5, <2>1, <2>2 DEF Predicts
<1>20. writer.ok \in BOOLEAN /\ InHand(main, writer, ring, recorded)
  BY <1>4, <1>5, <1>14 DEF InHand
<1>21. Settled(writer, ring, received, recorded)
  BY <1>18, <1>19, <1>20 DEF Settled
<1>22. main.at \notin {"pushed", "appended"}
  BY <1>14
<1> QED
  BY <1>14, <1>20, <1>21, <1>22, IdleSettled DEF TraceInv

\* Every step.
LEMMA NextTrace ==
    ASSUME PushesToTheRing, ClockInv, RecInv, TraceInv, [RecNext]_recvars PROVE TraceInv'
<1>1. CASE UNCHANGED recvars
  <2>1. UNCHANGED <<phase, writer, ring, main, received, recorded, torn>>
    BY <1>1 DEF recvars
  <2> QED
    BY <2>1 DEF TraceInv
<1>2. CASE Consumer
  BY <1>2, ConsumerTrace
<1>3. CASE Handler
  BY <1>3, HandlerTrace
<1>4. CASE MainStep
  BY <1>4, SampleTrace, StampTrace, EncodeTrace, RoomTrace, FrameTrace, PushBlockTrace,
     PushEndTrace, PublishTrace, SpendTrace, AppendTrace, CommitTrace, StoppedTrace
     DEF MainStep
<1> QED
  BY <1>1, <1>2, <1>3, <1>4 DEF RecNext

\* So it is what every behaviour keeps.
LEMMA TraceInvariance ==
    ASSUME PushesToTheRing PROVE RecSpec => [](ClockInv /\ RecInv /\ TraceInv)
<1>1. RecInit => ClockInv /\ RecInv /\ TraceInv
  BY InitClock, InitRec, InitTrace
<1>2. ClockInv /\ RecInv /\ TraceInv /\ [RecNext]_recvars
         => (ClockInv /\ RecInv /\ TraceInv)'
  BY NextClock, NextRec, NextTrace
<1> QED
  BY <1>1, <1>2, PTL DEF RecSpec

--------------------------------------------------------------------------------
(* What the host makes of the units.                                         *)

\* Mathematical induction, by a set and not by an operator.
LEMMA SetInduction ==
    ASSUME NEW S, S \subseteq Nat, 0 \in S, \A n \in S : n + 1 \in S
    PROVE  S = Nat
<1> DEFINE R == {ss \in Nat \X Nat : ss[1] < ss[2]}
           T == Nat \ S
<1>1. IsWellFoundedOn(R, Nat)
  BY NatLessThanWellFounded DEF OpToRel
<1> SUFFICES ASSUME T # {} PROVE FALSE
  OBVIOUS
<1>2. PICK x \in T : \A y \in T : ~(<<y, x>> \in R)
  <2> HIDE DEF R, T
  <2>1. T \subseteq Nat
    BY DEF T
  <2> QED
    BY <1>1, <2>1, WFMin
<1>3. x \in Nat /\ x # 0
  OBVIOUS
<1>4. x - 1 \in Nat /\ x - 1 < x
  BY <1>3
<1>5. x - 1 \notin T
  <2>1. <<x - 1, x>> \in R
    BY <1>3, <1>4
  <2> HIDE DEF R, T
  <2> QED
    BY <1>2, <2>1
<1> QED
  <2>1. x - 1 \in S
    BY <1>4, <1>5
  <2>2. x - 1 + 1 = x
    BY <1>3
  <2> QED
    BY <2>1, <2>2

\* WholeAt, of any units.
WholeIn(rcv, p) ==
    LET piece == rcv[p].piece IN
    /\ rcv[p].unit = 1
    /\ p + PieceLen(piece) - 1 <= Len(rcv)
    /\ \A u \in 1 .. PieceLen(piece) : rcv[p + u - 1] = [piece |-> piece, unit |-> u]

\* What is made of the units from p on, if f says it of those behind them.
Parsed(rcv, f, p) ==
    IF p > Len(rcv) THEN [pieces |-> <<>>, tail |-> "none"]
    ELSE IF WholeIn(rcv, p)
    THEN LET piece == rcv[p].piece
             rest == f[p + PieceLen(piece)]
         IN [rest EXCEPT !.pieces = <<piece>> \o @]
    ELSE IF p + PieceLen(rcv[p].piece) - 1 > Len(rcv)
    THEN [pieces |-> <<>>, tail |-> "block"]
    ELSE [pieces |-> <<Spoiled>>, tail |-> "none"]

\* f says it of all from lo on.
Parses(rcv, f, lo) == f = [p \in lo .. Len(rcv) + 1 |-> Parsed(rcv, f, p)]

\* The units are of pieces, which are not empty.
Units(rcv) ==
    /\ Len(rcv) \in Nat
    /\ \A p \in 1 .. Len(rcv) : PieceLen(rcv[p].piece) \in Nat \ {0}

\* Only what lies behind matters.
LEMMA ParsedSame ==
    ASSUME NEW rcv, Units(rcv), NEW p \in 1 .. Len(rcv) + 1, NEW f, NEW g,
           \A q \in p + 1 .. Len(rcv) + 1 : g[q] = f[q]
    PROVE  Parsed(rcv, g, p) = Parsed(rcv, f, p)
<1>1. CASE WholeIn(rcv, p) /\ ~(p > Len(rcv))
  <2>1. PICK len : len = PieceLen(rcv[p].piece)
    OBVIOUS
  <2>2. len \in Nat \ {0} /\ p + len - 1 <= Len(rcv) /\ Len(rcv) \in Nat
    BY <1>1, <2>1 DEF Units, WholeIn
  <2>3. p + len \in p + 1 .. Len(rcv) + 1
    BY <2>2
  <2> QED
    BY <1>1, <2>1, <2>3 DEF Parsed
<1>2. CASE ~(WholeIn(rcv, p) /\ ~(p > Len(rcv)))
  BY <1>2 DEF Parsed
<1> QED
  BY <1>1, <1>2, SMTT(60)

\* There is such a function.
LEMMA ParseExists ==
    ASSUME NEW rcv, Units(rcv)
    PROVE  \E f : Parses(rcv, f, 1)
<1> DEFINE N == Len(rcv)
           S == {k \in Nat : k > N \/ \E f : Parses(rcv, f, N + 1 - k)}
<1>1. N \in Nat
  BY DEF Units
<1>2. 0 \in S
  <2>1. Parses(rcv, [p \in N + 1 .. N + 1 |-> [pieces |-> <<>>, tail |-> "none"]], N + 1)
    BY <1>1 DEF Parses, Parsed
  <2>2. N + 1 - 0 = N + 1
    BY <1>1
  <2> QED
    BY <2>1, <2>2
<1>3. ASSUME NEW k \in S PROVE k + 1 \in S
  <2> SUFFICES ASSUME k + 1 <= N PROVE \E f : Parses(rcv, f, N + 1 - (k + 1))
    BY <1>1
  <2>1. PICK f, lo : lo = N + 1 - k /\ Parses(rcv, f, lo)
    BY <1>1
  <2>2. PICK low : low = N + 1 - (k + 1) /\ lo = low + 1 /\ low \in 1 .. N
    BY <1>1, <2>1
  <2> HIDE DEF N, S
  <2> DEFINE g == [p \in low .. N + 1 |-> IF p = low THEN Parsed(rcv, f, p) ELSE f[p]]
  <2>3. ASSUME NEW p \in low .. N + 1 PROVE g[p] = Parsed(rcv, g, p)
    <3>1. \A q \in p + 1 .. N + 1 : g[q] = f[q]
      BY <1>1, <2>2
    <3>2. p \in 1 .. N + 1
      BY <1>1, <2>2
    <3> HIDE DEF g
    <3>3. Parsed(rcv, g, p) = Parsed(rcv, f, p)
      BY <3>1, <3>2, ParsedSame DEF N
    <3>4. g[p] = Parsed(rcv, f, p)
      <4>1. CASE p = low
        BY <4>1 DEF g
      <4>2. CASE p # low
        <5>1. p \in lo .. N + 1
          BY <1>1, <2>2, <4>2
        <5>2. g[p] = f[p]
          BY <4>2 DEF g
        <5> QED
          BY <2>1, <5>1, <5>2 DEF Parses, N
      <4> QED
        BY <4>1, <4>2
    <3> QED
      BY <3>3, <3>4
  <2>4. g = [p \in low .. N + 1 |-> g[p]]
    OBVIOUS
  <2> HIDE DEF g
  <2>5. g = [p \in low .. N + 1 |-> Parsed(rcv, g, p)]
    BY ONLY <2>3, <2>4
  <2> QED
    BY <2>2, <2>5 DEF Parses, N
<1> HIDE DEF S
<1>4. S = Nat
  <2>1. S \subseteq Nat
    BY DEF S
  <2> QED
    BY ONLY <1>2, <1>3, <2>1, SetInduction
<1>5. N \in S /\ ~(N > N) /\ N + 1 - N = 1
  BY <1>1, <1>4
<1> QED
  BY <1>5 DEF S

\* So that is what the host makes of the units.
LEMMA ReassembledIs ==
  ASSUME \E f : Parses(received, f, 1)
  PROVE  \E f : Parses(received, f, 1) /\ Reassembled = f[1]
<1> DEFINE F == CHOOSE f : Parses(received, f, 1)
<1>1. Parses(received, F, 1)
  OBVIOUS
<1>2. Reassembled = F[1]
  BY Zenon DEF Reassembled, Parses, Parsed, WholeIn, WholeAt
<1> QED
  BY <1>1, <1>2

\* One more call of next.
Called(m, s) ==
    LET x == NextEvent(s.r, m) IN [r |-> x.r, got |-> s.got \o x.out]

\* f says what n calls have made.
Runs(m, f, n) ==
    f = [i \in 0 .. n |-> IF i = 0 THEN [r |-> Open(m), got |-> <<>>]
                          ELSE Called(m, f[i - 1])]

\* There is such a function,
LEMMA RunExists ==
    ASSUME NEW m, NEW n \in Nat
    PROVE  \E f : Runs(m, f, n)
<1> DEFINE Start == [r |-> Open(m), got |-> <<>>]
           S == {k \in Nat : \E f : Runs(m, f, k)}
<1>1. 0 \in S
  <2>1. Runs(m, [i \in 0 .. 0 |-> Start], 0)
    BY DEF Runs
  <2> QED
    BY <2>1
<1>2. ASSUME NEW k \in S PROVE k + 1 \in S
  <2>1. PICK f : Runs(m, f, k)
    OBVIOUS
  <2>2. k \in Nat
    OBVIOUS
  <2> DEFINE g == [i \in 0 .. k + 1 |-> IF i = k + 1 THEN Called(m, f[k]) ELSE f[i]]
  <2>3. ASSUME NEW i \in 0 .. k + 1
        PROVE  g[i] = IF i = 0 THEN Start ELSE Called(m, g[i - 1])
    <3> HIDE DEF S, Start
    <3>1. CASE i = 0
      <4>1. g[i] = f[0] /\ 0 \in 0 .. k
        BY <2>2, <3>1
      <4> QED
        BY <2>1, <3>1, <4>1 DEF Runs, Start
    <3>2. CASE i # 0
      <4>1. i - 1 \in 0 .. k /\ i - 1 # k + 1 /\ i - 1 \in 0 .. k + 1
        BY <2>2, <3>2
      <4>2. g[i - 1] = f[i - 1]
        BY <4>1
      <4>3. g[i] = Called(m, f[i - 1])
        <5>1. CASE i = k + 1
          BY <2>2, <5>1
        <5>2. CASE i # k + 1
          <6>1. i \in 0 .. k
            BY <2>2, <5>2
          <6>2. g[i] = f[i]
            BY <5>2
          <6> QED
            BY <2>1, <3>2, <6>1, <6>2 DEF Runs
        <5> QED
          BY <5>1, <5>2
      <4> HIDE DEF g
      <4> QED
        BY <3>2, <4>2, <4>3
    <3> QED
      BY <3>1, <3>2
  <2>4. g = [i \in 0 .. k + 1 |-> g[i]]
    OBVIOUS
  <2> HIDE DEF g, Start
  <2>5. g = [i \in 0 .. k + 1 |-> IF i = 0 THEN Start ELSE Called(m, g[i - 1])]
    BY ONLY <2>3, <2>4
  <2> QED
    BY <2>2, <2>5 DEF Runs, Start
<1> HIDE DEF S
<1>3. S = Nat
  <2>1. S \subseteq Nat
    BY DEF S
  <2> QED
    BY ONLY <1>1, <1>2, <2>1, SetInduction
<1> QED
  BY <1>3 DEF S

\* and so that is what the host reads.
LEMMA ReadingIs ==
  ASSUME \E f : Runs(Reassembled, f, Len(received) + 1)
  PROVE  \E f : Runs(Reassembled, f, Len(received) + 1) /\ Reading = f[Len(received) + 1]
<1> DEFINE F == CHOOSE f : Runs(Reassembled, f, Len(received) + 1)
<1>1. Runs(Reassembled, F, Len(received) + 1)
  OBVIOUS
<1>2. Reading = F[Len(received) + 1]
  BY Zenon DEF Reading, Runs, Called
<1> QED
  BY <1>1, <1>2

\* A terminator, or a block that is sound if it is undamaged.
Sendable(cuts, blocks, rec, piece) ==
    /\ piece \in ArrivedSet /\ piece.kind # "header"
    /\ piece.kind = "block" /\ piece.damage = "none" => Sound(cuts, blocks, rec, piece)

\* What the link has carried is of such pieces, behind the header.
Carried(cuts, blocks, rec, rcv) ==
    /\ Len(rcv) \in Nat
    /\ \A p \in 1 .. Len(rcv) :
          \/ p = 1 /\ rcv[p].piece = HeaderPiece
          \/ Sendable(cuts, blocks, rec, rcv[p].piece)

\* Pieces of this kind, from number k on.
Sendables(cuts, blocks, rec, x, k) ==
    /\ x = [pieces |-> x.pieces, tail |-> x.tail]
    /\ x.pieces \in Seq(ArrivedSet)
    /\ \A j \in k .. Len(x.pieces) : Sendable(cuts, blocks, rec, x.pieces[j])

\* A piece is not empty.
LEMMA PieceLenIs ==
    ASSUME NEW piece \in ArrivedSet
    PROVE  /\ PieceLen(piece) \in Nat \ {0}
           /\ piece.kind = "block" => /\ piece.payload \in Seq(EncodedSet)
                                      /\ PieceLen(piece) = 1 + Len(piece.payload)
           /\ piece.kind # "block" => PieceLen(piece) = 1
<1>1. CASE piece.kind = "block"
  <2>1. piece.payload \in Seq(EncodedSet)
    BY <1>1 DEF ArrivedSet, HeaderPiece, EndPiece
  <2>2. Len(piece.payload) \in Nat
    BY <2>1, LenIs
  <2> QED
    BY <1>1, <2>1, <2>2 DEF PieceLen
<1>2. CASE piece.kind # "block"
  BY <1>2 DEF PieceLen
<1> QED
  BY <1>1, <1>2

\* The fixed pieces.
LEMMA FixedPieces ==
    /\ HeaderPiece \in ArrivedSet /\ EndPiece \in ArrivedSet /\ Spoiled \in ArrivedSet
    /\ HeaderPiece.kind = "header" /\ EndPiece.kind = "end"
    /\ Spoiled.kind = "block" /\ Spoiled.damage = "crc"
<1>1. <<>> \in Seq(EncodedSet)
  OBVIOUS
<1>2. PICK none : none = <<>>
  OBVIOUS
<1>3. [kind |-> "block", seq |-> 0, payload |-> none, damage |-> "crc"] \in ArrivedSet
  BY <1>1, <1>2 DEF ArrivedSet
<1>4. Spoiled = [kind |-> "block", seq |-> 0, payload |-> none, damage |-> "crc"]
  BY <1>2 DEF Spoiled
<1> QED
  BY <1>3, <1>4 DEF ArrivedSet, HeaderPiece, EndPiece

\* Units that are carried are of pieces.
LEMMA CarriedUnits ==
    ASSUME NEW cuts, NEW blocks, NEW rec, NEW rcv, Carried(cuts, blocks, rec, rcv)
    PROVE  Units(rcv)
<1>1. ASSUME NEW p \in 1 .. Len(rcv) PROVE PieceLen(rcv[p].piece) \in Nat \ {0}
  <2>1. rcv[p].piece \in ArrivedSet
    BY FixedPieces DEF Carried, Sendable
  <2> QED
    BY <2>1, PieceLenIs
<1> QED
  BY <1>1 DEF Units, Carried

\* A piece in front of others.
Headed(x, piece, y) ==
    /\ y.tail = x.tail /\ Len(y.pieces) = Len(x.pieces) + 1 /\ y.pieces[1] = piece
    /\ \A j \in 1 .. Len(x.pieces) : y.pieces[j + 1] = x.pieces[j]

\* What may lie there in front of a run of pieces may lie there with them.
LEMMA PieceBefore ==
    ASSUME NEW cuts, NEW blocks, NEW rec, NEW x, Sendables(cuts, blocks, rec, x, 1),
           NEW piece \in ArrivedSet, NEW k \in {1, 2},
           k = 1 => Sendable(cuts, blocks, rec, piece),
           NEW y, y = [x EXCEPT !.pieces = <<piece>> \o @]
    PROVE  Sendables(cuts, blocks, rec, y, k) /\ Headed(x, piece, y)
<1>1. PICK s, t : s = x.pieces /\ t = x.tail /\ x = [pieces |-> s, tail |-> t]
                  /\ s \in Seq(ArrivedSet)
  BY DEF Sendables
<1>2. PICK all : all = <<piece>> \o s
  OBVIOUS
<1>3. /\ all \in Seq(ArrivedSet) /\ Len(all) = Len(s) + 1 /\ all[1] = piece
      /\ \A j \in 1 .. Len(s) : all[j + 1] = s[j]
      /\ \A j \in 2 .. Len(all) : all[j] = s[j - 1] /\ j - 1 \in 1 .. Len(s)
  BY ONLY <1>1, <1>2, piece \in ArrivedSet
<1>4. y = [pieces |-> all, tail |-> t]
  BY <1>1, <1>2
<1>5. y.pieces = all /\ y.tail = t
  BY <1>4
<1>6. \A j \in k .. Len(all) : Sendable(cuts, blocks, rec, all[j])
  <2> SUFFICES ASSUME NEW j \in k .. Len(all) PROVE Sendable(cuts, blocks, rec, all[j])
    OBVIOUS
  <2>1. CASE j = 1
    BY <1>3, <2>1
  <2>2. CASE j # 1
    <3>1. Len(all) \in Nat
      BY <1>3, LenIs
    <3>2. j \in 2 .. Len(all)
      BY <2>2, <3>1
    <3>3. all[j] = s[j - 1] /\ j - 1 \in 1 .. Len(s)
      BY <1>3, <3>2
    <3> QED
      BY <1>1, <3>3 DEF Sendables
  <2> QED
    BY <2>1, <2>2
<1> QED
  BY <1>1, <1>3, <1>4, <1>5, <1>6 DEF Sendables, Headed

\* What is made of the units from p on.
LEMMA ParsedIs ==
    ASSUME NEW cuts, NEW blocks, NEW rec, NEW rcv, Carried(cuts, blocks, rec, rcv),
           NEW p \in 1 .. Len(rcv) + 1, NEW f,
           \A q \in p + 1 .. Len(rcv) + 1 : Sendables(cuts, blocks, rec, f[q], 1),
           NEW k, k = IF p = 1 THEN 2 ELSE 1
    PROVE  Sendables(cuts, blocks, rec, Parsed(rcv, f, p), k)
<1>1. ASSUME NEW s \in Seq(ArrivedSet), \A j \in 1 .. Len(s) : Sendable(cuts, blocks, rec, s[j]),
             NEW t, Parsed(rcv, f, p) = [pieces |-> s, tail |-> t]
      PROVE  Sendables(cuts, blocks, rec, Parsed(rcv, f, p), k)
  <2>1. PICK x : x = Parsed(rcv, f, p) /\ x = [pieces |-> s, tail |-> t]
    BY <1>1
  <2>2. x.pieces = s /\ x.tail = t
    BY <2>1
  <2>3. \A j \in k .. Len(s) : j \in 1 .. Len(s)
    BY LenIs
  <2> QED
    BY <1>1, <2>1, <2>2, <2>3 DEF Sendables
<1>2. PICK none \in Seq(ArrivedSet) :
         none = <<>> /\ \A j \in 1 .. Len(none) : Sendable(cuts, blocks, rec, none[j])
  <2>1. <<>> \in Seq(ArrivedSet) /\ \A j \in 1 .. Len(<<>>) : FALSE
    OBVIOUS
  <2> QED
    BY <2>1
<1>3. CASE p > Len(rcv)
  <2>1. Parsed(rcv, f, p) = [pieces |-> none, tail |-> "none"]
    BY <1>2, <1>3 DEF Parsed
  <2> QED
    BY <1>1, <1>2, <2>1
<1>4. CASE ~(p > Len(rcv)) /\ WholeIn(rcv, p)
  <2>1. PICK piece, q : piece = rcv[p].piece /\ q = p + PieceLen(piece)
    OBVIOUS
  <2>2. Len(rcv) \in Nat /\ p \in 1 .. Len(rcv)
    BY <1>4 DEF Carried
  <2>3. piece \in ArrivedSet /\ (k = 1 => Sendable(cuts, blocks, rec, piece)) /\ k \in {1, 2}
    BY <2>1, <2>2, FixedPieces DEF Carried, Sendable
  <2>4. q \in p + 1 .. Len(rcv) + 1
    <3>1. PICK len : len = PieceLen(piece)
      OBVIOUS
    <3>2. len \in Nat \ {0}
      BY <2>3, <3>1, PieceLenIs
    <3>3. p + len - 1 <= Len(rcv)
      BY <1>4, <2>1, <3>1 DEF WholeIn
    <3> QED
      BY <2>1, <2>2, <3>1, <3>2, <3>3, SMTT(60)
  <2>5. Sendables(cuts, blocks, rec, f[q], 1)
    BY <2>4
  <2>6. PICK y : y = [f[q] EXCEPT !.pieces = <<piece>> \o @]
    OBVIOUS
  <2>7. Parsed(rcv, f, p) = y
    BY <1>4, <2>1, <2>6 DEF Parsed
  <2>8. Sendables(cuts, blocks, rec, y, k)
    BY <2>3, <2>5, <2>6, PieceBefore
  <2> QED
    BY <2>7, <2>8
<1>5. CASE ~(p > Len(rcv)) /\ ~WholeIn(rcv, p)
  <2> DEFINE one == <<Spoiled>>
  <2>1. \/ Parsed(rcv, f, p) = [pieces |-> none, tail |-> "block"]
        \/ Parsed(rcv, f, p) = [pieces |-> one, tail |-> "none"]
    BY <1>2, <1>5 DEF Parsed
  <2>2. one \in Seq(ArrivedSet) /\ \A j \in 1 .. Len(one) : one[j] = Spoiled
    BY FixedPieces
  <2>3. Sendable(cuts, blocks, rec, Spoiled)
    BY FixedPieces DEF Sendable
  <2> HIDE DEF one
  <2>4. \A j \in 1 .. Len(one) : Sendable(cuts, blocks, rec, one[j])
    BY <2>2, <2>3
  <2> QED
    BY <1>1, <1>2, <2>1, <2>2, <2>4
<1> QED
  BY <1>3, <1>4, <1>5

\* What the host makes of all units is what a reader may be given.
LEMMA ParseArrives ==
    ASSUME NEW cuts, NEW blocks, NEW rec, NEW rcv, Carried(cuts, blocks, rec, rcv),
           NEW f, Parses(rcv, f, 1)
    PROVE  Arrives(cuts, blocks, rec, f[1].pieces)
<1> DEFINE N == Len(rcv)
           Good(p) == Sendables(cuts, blocks, rec, f[p], IF p = 1 THEN 2 ELSE 1)
           S == {n \in Nat : \A p \in 1 .. N + 1 : p + n >= N + 1 => Good(p)}
<1>1. N \in Nat
  BY DEF Carried
<1>2. ASSUME NEW p \in 1 .. N + 1, \A q \in p + 1 .. N + 1 : Good(q) PROVE Good(p)
  <2>1. \A q \in p + 1 .. N + 1 : q # 1
    BY <1>1
  <2>2. \A q \in p + 1 .. N + 1 : Sendables(cuts, blocks, rec, f[q], 1)
    BY <1>2, <2>1
  <2>3. f[p] = Parsed(rcv, f, p)
    BY DEF Parses
  <2> QED
    BY <2>2, <2>3, ParsedIs
<1> HIDE DEF Good
<1>3. 0 \in S
  <2> SUFFICES ASSUME NEW p \in 1 .. N + 1, p + 0 >= N + 1 PROVE Good(p)
    OBVIOUS
  <2>1. \A q \in p + 1 .. N + 1 : FALSE
    BY <1>1
  <2> QED
    BY <1>2, <2>1
<1>4. ASSUME NEW n \in S PROVE n + 1 \in S
  <2> SUFFICES ASSUME NEW p \in 1 .. N + 1, p + (n + 1) >= N + 1 PROVE Good(p)
    OBVIOUS
  <2>1. ASSUME NEW q \in p + 1 .. N + 1 PROVE Good(q)
    <3>1. q \in 1 .. N + 1 /\ q + n >= N + 1
      BY <1>1
    <3> QED
      BY <3>1
  <2> QED
    BY <1>2, <2>1
<1> HIDE DEF S
<1>5. S = Nat
  <2>1. S \subseteq Nat
    BY DEF S
  <2> QED
    BY ONLY <1>3, <1>4, <2>1, SetInduction
<1>6. Good(1)
  <2>1. N \in S /\ 1 \in 1 .. N + 1 /\ 1 + N >= N + 1
    BY <1>1, <1>5
  <2> QED
    BY <2>1 DEF S
<1> QED
  BY <1>6 DEF Good, Sendables, Sendable, Arrives

\* Every call of next leaves the reader where it is in the recording, or hands out the
\* next event.
LEMMA CallReads ==
    ASSUME NEW cuts, NEW blocks \in Nat, NEW rec \in Seq(EventSet), NEW m,
           Arrives(cuts, blocks, rec, m.pieces), NEW s,
           Reads(cuts, blocks, rec, s.r, s.got), NEW t, t = Called(m, s)
    PROVE  Reads(cuts, blocks, rec, t.r, t.got)
<1>1. PICK r, got, x : r = s.r /\ got = s.got /\ x = NextEvent(r, m)
  OBVIOUS
<1>2. t.r = x.r /\ t.got = got \o x.out
  BY <1>1 DEF Called
<1>3. r \in Readers /\ got \in Seq(EventSet) /\ Reads(cuts, blocks, rec, r, got)
  BY <1>1 DEF Reads
<1>4. ASSUME x.out = <<>>, Reads(cuts, blocks, rec, x.r, got)
      PROVE  Reads(cuts, blocks, rec, t.r, t.got)
  <2>1. got \o <<>> = got
    BY <1>3
  <2> QED
    BY <1>2, <1>4, <2>1
<1>5. CASE ~r.opened
  <2>1. x.r = RFail(r, "next() before open()") /\ x.out = <<>>
    BY <1>1, <1>5 DEF NextEvent
  <2>2. "next() before open()" \in ReadErrors
    BY DEF ReadErrors
  <2>3. x.r \in Readers /\ SameReading(x.r, r)
    BY <1>3, <2>1, <2>2, FailedReader
  <2> QED
    BY <1>3, <1>4, <2>1, <2>3, SameReads
<1>6. CASE r.opened /\ (r.done \/ r.err # NoReadError)
  <2>1. x.r = r /\ x.out = <<>>
    BY <1>1, <1>6 DEF NextEvent
  <2> QED
    BY <1>3, <1>4, <2>1
<1>7. CASE ~r.done /\ r.err = NoReadError
  <2>1. Answered(cuts, blocks, rec, r, got, x)
    BY <1>1, <1>3, <1>7, NextReads
  <2>2. CASE x.out = <<>> /\ Reads(cuts, blocks, rec, x.r, got)
    BY <1>4, <2>2
  <2>3. CASE /\ Len(got) < Len(rec) /\ x.out = <<rec[Len(got) + 1]>>
             /\ Reads(cuts, blocks, rec, x.r, Append(got, rec[Len(got) + 1]))
    <3>1. PICK ev : ev = rec[Len(got) + 1]
      OBVIOUS
    <3>2. got \o <<ev>> = Append(got, ev)
      BY <1>3
    <3> QED
      BY <1>2, <2>3, <3>1, <3>2
  <2> QED
    BY <2>1, <2>2, <2>3 DEF Answered
<1> QED
  BY <1>5, <1>6, <1>7

\* After any number of calls a prefix has been handed out.
LEMMA RunReads ==
    ASSUME NEW cuts, cuts[0] = 0, NEW blocks \in Nat, NEW rec \in Seq(EventSet), NEW m,
           Arrives(cuts, blocks, rec, m.pieces), NEW n \in Nat, NEW f, Runs(m, f, n)
    PROVE  \A i \in 0 .. n : Reads(cuts, blocks, rec, f[i].r, f[i].got)
<1> DEFINE Good(i) == Reads(cuts, blocks, rec, f[i].r, f[i].got)
           S == {i \in Nat : i <= n => Good(i)}
<1>1. 0 \in S
  <2>1. f[0] = [r |-> Open(m), got |-> <<>>]
    BY DEF Runs
  <2>2. f[0].r = Open(m) /\ f[0].got = <<>>
    BY <2>1
  <2> QED
    BY <2>2, OpenReads
<1>2. ASSUME NEW i \in S PROVE i + 1 \in S
  <2> SUFFICES ASSUME i + 1 <= n PROVE Good(i + 1)
    OBVIOUS
  <2>1. i + 1 \in 0 .. n /\ i + 1 # 0 /\ i + 1 - 1 = i /\ i <= n
    OBVIOUS
  <2>2. f[i + 1] = Called(m, f[i])
    BY <2>1 DEF Runs
  <2> QED
    BY <2>1, <2>2, CallReads
<1> HIDE DEF S, Good
<1>3. S = Nat
  <2>1. S \subseteq Nat
    BY DEF S
  <2> QED
    BY ONLY <1>1, <1>2, <2>1, SetInduction
<1>4. ASSUME NEW i \in 0 .. n PROVE Good(i)
  <2>1. i \in S /\ i <= n
    BY <1>3
  <2> QED
    BY <2>1 DEF S
<1> QED
  BY <1>4 DEF Good

\* Of what was pushed the link has carried what the consumer released.
LEMMA ToldCarried ==
    ASSUME RecInv, NEW cuts, NEW blocks, NEW ends,
           Told(cuts, writer, ring, received, recorded, blocks, ends)
    PROVE  /\ Carried(cuts, blocks, recorded, received)
           /\ cuts[0] = 0 /\ blocks \in Nat /\ recorded \in Seq(EventSet)
           /\ \A i \in 0 .. ring.tail - 1 : Stream(ring, received)[i] = received[i + 1]
<1>1. /\ ring.head \in Nat /\ ring.tail \in Nat /\ ring.tail <= ring.head
      /\ Len(received) = ring.tail
  BY CallIs DEF RecInv, Counted, IsRing
<1>2. ASSUME NEW i \in 0 .. ring.tail - 1
      PROVE  Stream(ring, received)[i] = received[i + 1]
  <2>1. i \in 0 .. ring.head - 1 /\ i < ring.tail
    BY <1>1
  <2> QED
    BY <2>1 DEF Stream, UnitAt
<1>3. ASSUME NEW p \in 1 .. Len(received)
      PROVE  \/ p = 1 /\ received[p].piece = HeaderPiece
             \/ Sendable(cuts, blocks, recorded, received[p].piece)
  <2>1. PICK i : i = p - 1
    OBVIOUS
  <2>2. i \in 0 .. ring.head - 1 /\ i \in 0 .. ring.tail - 1 /\ i + 1 = p /\ (i = 0 <=> p = 1)
    BY <1>1, <2>1
  <2>3. PICK units : units = Stream(ring, received)
    OBVIOUS
  <2>4. units[i] = received[p]
    BY <1>2, <2>2, <2>3
  <2>5. \/ i = 0 /\ units[i].piece = HeaderPiece
        \/ units[i].piece = EndPiece
        \/ IsBlock(cuts, blocks, recorded, units[i].piece)
    BY <2>2, <2>3 DEF Told, Stowed
  <2>6. Sendable(cuts, blocks, recorded, EndPiece)
    BY FixedPieces DEF Sendable
  <2> QED
    BY <2>2, <2>4, <2>5, <2>6 DEF IsBlock, Sendable
<1>4. Shares(cuts, writer, recorded, blocks)
  BY DEF Told
<1>5. blocks \in Nat
  BY <1>4, SMTT(60) DEF Shares
<1> QED
  BY <1>1, <1>2, <1>3, <1>4, <1>5 DEF Shares, Carried

\* The host reads what was recorded first.
Hosts(cuts, blocks, rec, f, m, n, out) ==
    /\ Arrives(cuts, blocks, rec, m.pieces) /\ n \in Nat /\ Runs(m, f, n) /\ out = f[n].got
    /\ Reads(cuts, blocks, rec, f[n].r, f[n].got)

\* What the host reads of a told recording is what the reader's laws say of it.
LEMMA HostReads ==
    ASSUME NEW cuts, cuts[0] = 0, NEW blocks \in Nat, recorded \in Seq(EventSet),
           Carried(cuts, blocks, recorded, received)
    PROVE  \E f : Hosts(cuts, blocks, recorded, f, Reassembled, Len(received) + 1, Reading.got)
                  /\ Reading = f[Len(received) + 1]
<1>1. PICK f : Parses(received, f, 1) /\ Reassembled = f[1]
  <2>1. \E f : Parses(received, f, 1)
    BY CarriedUnits, ParseExists
  <2> QED
    BY <2>1, ReassembledIs
<1>2. Arrives(cuts, blocks, recorded, Reassembled.pieces)
  BY <1>1, ParseArrives
<1>3. PICK n : n = Len(received) + 1 /\ n \in Nat
  BY DEF Carried
<1>4. PICK g : Runs(Reassembled, g, n) /\ Reading = g[n]
  <2>1. \E g : Runs(Reassembled, g, Len(received) + 1)
    BY <1>3, RunExists
  <2> QED
    BY <1>3, <2>1, ReadingIs
<1>5. Reads(cuts, blocks, recorded, g[n].r, g[n].got)
  <2>1. n \in 0 .. n
    BY <1>3
  <2>2. PICK m : m = Reassembled
    OBVIOUS
  <2>3. Runs(m, g, n) /\ Arrives(cuts, blocks, recorded, m.pieces)
    BY <1>2, <1>4, <2>2
  <2> QED
    BY <1>3, <2>1, <2>3, RunReads
<1> QED
  BY <1>2, <1>3, <1>4, <1>5 DEF Hosts

\* A sequence that agrees with the first elements of another is a prefix of it.
LEMMA AgreesIsPrefix ==
    ASSUME NEW S, NEW s \in Seq(S), NEW t \in Seq(S), Len(s) <= Len(t),
           \A i \in 1 .. Len(s) : s[i] = t[i]
    PROVE  IsPrefix(s, t)
<1>1. Len(s) \in Nat /\ Len(t) \in Nat
  OBVIOUS
<1>2. /\ SubSeq(s, 1, Len(s)) = [i \in 1 .. Len(s) |-> s[i]]
      /\ SubSeq(t, 1, Len(s)) = [i \in 1 .. Len(s) |-> t[i]]
  BY <1>1
<1>3. [i \in 1 .. Len(s) |-> s[i]] = [i \in 1 .. Len(s) |-> t[i]]
  OBVIOUS
<1> QED
  BY <1>2, <1>3 DEF IsPrefix

\* With the main loop's calls alone the host reads a prefix of what was recorded
\* (AloneIsPrefix).
THEOREM AlonePrefixCorrect == ASSUME PushesToTheRing PROVE RecSpec => []AloneIsPrefix
<1>1. RecInv /\ TraceInv => AloneIsPrefix
  <2> SUFFICES ASSUME RecInv, TraceInv, ~torn PROVE IsPrefix(Reading.got, recorded)
    BY DEF AloneIsPrefix
  <2>1. PICK cuts, blocks, ends : Told(cuts, writer, ring, received, recorded, blocks, ends)
    BY TraceIs DEF Tells
  <2>2. /\ Carried(cuts, blocks, recorded, received)
        /\ cuts[0] = 0 /\ blocks \in Nat /\ recorded \in Seq(EventSet)
    BY <2>1, ToldCarried
  <2>3. PICK f : Hosts(cuts, blocks, recorded, f, Reassembled, Len(received) + 1, Reading.got)
    BY <2>2, HostReads
  <2>4. /\ Reading.got \in Seq(EventSet) /\ Len(Reading.got) <= Len(recorded)
        /\ \A i \in 1 .. Len(Reading.got) : Reading.got[i] = recorded[i]
    BY <2>3 DEF Hosts, Reads
  <2> QED
    BY <2>2, <2>4, AgreesIsPrefix
<1> QED
  BY <1>1, TraceInvariance, PTL

--------------------------------------------------------------------------------
(* The reading of a healthy recording.                                       *)

\* The link has carried everything: the header, every block, and the terminator.
FullLink(cuts, blocks, rec, rcv) ==
    /\ rec \in Seq(EventSet) /\ blocks \in Nat
    /\ cuts \in [Nat -> Nat] /\ cuts[0] = 0 /\ cuts[blocks] = Len(rec)
    /\ Len(rcv) = blocks + Len(rec) + 2
    /\ rcv[1] = [piece |-> HeaderPiece, unit |-> 1]
    /\ rcv[Len(rcv)] = [piece |-> EndPiece, unit |-> 1]
    /\ \A s \in 0 .. blocks - 1 :
          \E b : /\ IsBlock(cuts, blocks, rec, b) /\ b.seq = s
                 /\ s + cuts[s] + PieceLen(b) < Len(rcv)
                 /\ \A u \in 1 .. PieceLen(b) :
                       rcv[s + cuts[s] + u + 1] = [piece |-> b, unit |-> u]

\* The blocks from number s on, and the terminator.
Rest(cuts, blocks, rec, x, s) ==
    /\ Sendables(cuts, blocks, rec, x, 1) /\ x.tail = "none"
    /\ Len(x.pieces) = blocks - s + 1
    /\ x.pieces[blocks - s + 1] = EndPiece
    /\ \A j \in s .. blocks - 1 : /\ IsBlock(cuts, blocks, rec, x.pieces[j - s + 1])
                                  /\ x.pieces[j - s + 1].seq = j

\* All blocks behind a header, and the terminator.
FullMedium(cuts, blocks, rec, m) ==
    /\ m.tail = "none" /\ Len(m.pieces) = blocks + 2
    /\ m.pieces[blocks + 2] = EndPiece
    /\ \A s \in 0 .. blocks - 1 : /\ IsBlock(cuts, blocks, rec, m.pieces[s + 2])
                                  /\ m.pieces[s + 2].seq = s

\* A piece that is whole is found.
WholeThere(rcv, p, piece) ==
    /\ piece \in ArrivedSet /\ Len(rcv) \in Nat /\ p \in 1 .. Len(rcv)
    /\ p + PieceLen(piece) - 1 <= Len(rcv)
    /\ \A u \in 1 .. PieceLen(piece) : rcv[p + u - 1] = [piece |-> piece, unit |-> u]

Follows(rcv, f, p, piece, q) ==
    WholeThere(rcv, p, piece) /\ Parses(rcv, f, 1) /\ q = p + PieceLen(piece)

Put(f, p, piece, q) == f[p] = [f[q] EXCEPT !.pieces = <<piece>> \o @]

\* A piece that lies there whole is the first the host makes of the units.
LEMMA WholeParsed ==
    ASSUME NEW rcv, NEW f, NEW p, NEW piece, NEW q, Follows(rcv, f, p, piece, q)
    PROVE  Put(f, p, piece, q)
<1>0. WholeThere(rcv, p, piece) /\ Parses(rcv, f, 1) /\ q = p + PieceLen(piece)
  BY DEF Follows
<1>1. PICK len : len = PieceLen(piece) /\ len \in Nat \ {0}
  BY <1>0, PieceLenIs DEF WholeThere
<1>2. p \in 1 .. Len(rcv) /\ Len(rcv) \in Nat /\ p + len - 1 <= Len(rcv) /\ q = p + len
  BY <1>0, <1>1 DEF WholeThere
<1>3. rcv[p] = [piece |-> piece, unit |-> 1]
  <2>1. 1 \in 1 .. len /\ p + 1 - 1 = p
    BY <1>1, <1>2
  <2> QED
    BY <1>0, <1>1, <2>1 DEF WholeThere
<1>4. rcv[p].piece = piece /\ rcv[p].unit = 1
  BY <1>3
<1>5. WholeIn(rcv, p)
  BY <1>0, <1>4 DEF WholeThere, WholeIn
<1>6. ~(p > Len(rcv)) /\ p \in 1 .. Len(rcv) + 1
  BY <1>1, <1>2
<1>7. f[p] = Parsed(rcv, f, p)
  BY <1>0, <1>6 DEF Parses
<1> QED
  BY <1>0, <1>4, <1>5, <1>6, <1>7 DEF Parsed, Put

\* The terminator is the last piece.
LEMMA RestIsEnd ==
    ASSUME NEW cuts, NEW blocks, NEW rec, NEW rcv, FullLink(cuts, blocks, rec, rcv),
           NEW f, Parses(rcv, f, 1)
    PROVE  Rest(cuts, blocks, rec, f[blocks + cuts[blocks] + 2], blocks)
<1>1. PICK N : /\ N = Len(rcv) /\ N \in Nat /\ N >= 2 /\ blocks \in Nat
               /\ N = blocks + cuts[blocks] + 2
  <2>1. Len(rec) \in Nat /\ blocks \in Nat /\ cuts[blocks] = Len(rec)
    BY LenIs DEF FullLink
  <2> QED
    BY <2>1, SMTT(60) DEF FullLink
<1>2. PICK x : x = f[N + 1] /\ x = [pieces |-> <<>>, tail |-> "none"]
  <2>1. N + 1 \in 1 .. Len(rcv) + 1 /\ N + 1 > Len(rcv)
    BY <1>1
  <2>2. f[N + 1] = Parsed(rcv, f, N + 1)
    BY <2>1 DEF Parses
  <2> QED
    BY <2>1, <2>2 DEF Parsed
<1>3. x.tail = "none" /\ Len(x.pieces) = 0 /\ Sendables(cuts, blocks, rec, x, 1)
  <2>1. PICK none : none = <<>> /\ none \in Seq(ArrivedSet) /\ Len(none) = 0
    <3>1. <<>> \in Seq(ArrivedSet) /\ Len(<<>>) = 0
      OBVIOUS
    <3> QED
      BY <3>1
  <2>2. x.pieces = none /\ x.tail = "none" /\ x = [pieces |-> none, tail |-> x.tail]
    BY <1>2, <2>1
  <2>3. \A j \in 1 .. 0 : FALSE
    OBVIOUS
  <2> QED
    BY <2>1, <2>2, <2>3 DEF Sendables
<1>4. PieceLen(EndPiece) = 1 /\ Sendable(cuts, blocks, rec, EndPiece)
  BY FixedPieces, PieceLenIs DEF Sendable
<1>5. WholeThere(rcv, N, EndPiece)
  <2>1. N \in 1 .. N /\ N + 1 - 1 <= N
    BY <1>1
  <2>2. \A u \in 1 .. 1 : u = 1 /\ N + u - 1 = N
    BY <1>1
  <2>3. rcv[N] = [piece |-> EndPiece, unit |-> 1]
    BY <1>1 DEF FullLink
  <2> QED
    BY <1>1, <1>4, <2>1, <2>2, <2>3, FixedPieces DEF WholeThere
<1>6. PICK y : y = f[N] /\ y = [x EXCEPT !.pieces = <<EndPiece>> \o @]
  <2>1. PICK q : q = N + 1
    OBVIOUS
  <2>2. Follows(rcv, f, N, EndPiece, q)
    BY <1>4, <1>5, <2>1 DEF Follows
  <2>3. Put(f, N, EndPiece, q)
    BY <2>2, WholeParsed
  <2> QED
    BY <1>2, <2>1, <2>3 DEF Put
<1>7. /\ Sendables(cuts, blocks, rec, y, 1)
      /\ y.tail = x.tail /\ Len(y.pieces) = Len(x.pieces) + 1 /\ y.pieces[1] = EndPiece
  <2>1. 1 \in {1, 2} /\ y = [x EXCEPT !.pieces = <<EndPiece>> \o @]
    BY <1>6
  <2>2. Sendables(cuts, blocks, rec, y, 1) /\ Headed(x, EndPiece, y)
    BY ONLY <1>3, <1>4, <2>1, FixedPieces, PieceBefore
  <2> QED
    BY <2>2 DEF Headed
<1>8. blocks - blocks + 1 = 1 /\ \A j \in blocks .. blocks - 1 : FALSE
  BY <1>1
<1>9. Rest(cuts, blocks, rec, y, blocks)
  BY <1>3, <1>7, <1>8 DEF Rest
<1> QED
  BY <1>1, <1>6, <1>9

\* A block in front of those behind it.
LEMMA RestBefore ==
    ASSUME NEW cuts, NEW blocks \in Nat, NEW rec, NEW x, NEW s \in 0 .. blocks - 1,
           Rest(cuts, blocks, rec, x, s + 1), NEW b, IsBlock(cuts, blocks, rec, b), b.seq = s,
           NEW y, y = [x EXCEPT !.pieces = <<b>> \o @]
    PROVE  Rest(cuts, blocks, rec, y, s)
<1>1. Sendable(cuts, blocks, rec, b) /\ b \in ArrivedSet
  BY DEF IsBlock, Sendable
<1>2. /\ Sendables(cuts, blocks, rec, x, 1) /\ x.tail = "none"
      /\ Len(x.pieces) = blocks - (s + 1) + 1
      /\ x.pieces[blocks - (s + 1) + 1] = EndPiece
  BY DEF Rest
<1>3. /\ Sendables(cuts, blocks, rec, y, 1)
      /\ y.tail = x.tail /\ Len(y.pieces) = Len(x.pieces) + 1 /\ y.pieces[1] = b
      /\ \A j \in 1 .. Len(x.pieces) : y.pieces[j + 1] = x.pieces[j]
  <2>1. 1 \in {1, 2} /\ y = [x EXCEPT !.pieces = <<b>> \o @]
    OBVIOUS
  <2>2. Sendables(cuts, blocks, rec, y, 1) /\ Headed(x, b, y)
    BY ONLY <1>1, <1>2, <2>1, PieceBefore
  <2> QED
    BY <2>2 DEF Headed
<1>4. PICK n : n = blocks - s /\ n \in Nat \ {0} /\ blocks - (s + 1) + 1 = n
              /\ blocks - s + 1 = n + 1
  <2>1. /\ blocks - s \in Nat \ {0} /\ blocks - (s + 1) + 1 = blocks - s
        /\ blocks - s + 1 = (blocks - s) + 1
    <3>1. blocks \in Nat /\ s \in 0 .. blocks - 1
      OBVIOUS
    <3> QED
      BY ONLY <3>1
  <2> QED
    BY <2>1
<1>5. Len(y.pieces) = n + 1 /\ y.pieces[n + 1] = EndPiece
  <2>1. n \in 1 .. Len(x.pieces)
    BY <1>2, <1>4, SMTT(60)
  <2> QED
    BY <1>2, <1>3, <1>4, <2>1
<1>6. ASSUME NEW j \in s .. blocks - 1
      PROVE  /\ IsBlock(cuts, blocks, rec, y.pieces[j - s + 1])
             /\ y.pieces[j - s + 1].seq = j
  <2>1. CASE j = s
    <3>1. j - s + 1 = 1
      BY <2>1
    <3> QED
      BY <1>3, <2>1, <3>1
  <2>2. CASE j # s
    <3>1. PICK k : k = j - (s + 1) + 1 /\ k \in 1 .. n /\ j - s + 1 = k + 1
      BY <1>4, <2>2
    <3>2. j \in s + 1 .. blocks - 1
      BY <2>2
    <3>3. IsBlock(cuts, blocks, rec, x.pieces[k]) /\ x.pieces[k].seq = j
      BY <3>1, <3>2 DEF Rest
    <3>4. y.pieces[k + 1] = x.pieces[k]
      BY <1>2, <1>3, <1>4, <3>1
    <3> QED
      BY <3>1, <3>3, <3>4
  <2> QED
    BY <2>1, <2>2
<1> QED
  BY <1>2, <1>3, <1>4, <1>5, <1>6 DEF Rest

\* The pieces that lie behind block s.
LEMMA RestParsed ==
    ASSUME NEW cuts, NEW blocks, NEW rec, NEW rcv, FullLink(cuts, blocks, rec, rcv),
           NEW f, Parses(rcv, f, 1), NEW s \in 0 .. blocks - 1,
           Rest(cuts, blocks, rec, f[s + 1 + cuts[s + 1] + 2], s + 1)
    PROVE  Rest(cuts, blocks, rec, f[s + cuts[s] + 2], s)
<1>1. PICK b : /\ IsBlock(cuts, blocks, rec, b) /\ b.seq = s
               /\ s + cuts[s] + PieceLen(b) < Len(rcv)
               /\ \A u \in 1 .. PieceLen(b) :
                     rcv[s + cuts[s] + u + 1] = [piece |-> b, unit |-> u]
  BY DEF FullLink
<1>2. PICK len : len = PieceLen(b) /\ len \in Nat \ {0} /\ cuts[s + 1] + 1 = cuts[s] + len
  <2>1. /\ b \in ArrivedSet /\ b.kind = "block" /\ cuts[s + 1] = cuts[s] + Len(b.payload)
    BY <1>1 DEF IsBlock, Sound
  <2>2. PieceLen(b) = 1 + Len(b.payload) /\ Len(b.payload) \in Nat
    BY <2>1, PieceLenIs, LenIs
  <2>3. cuts[s] \in Nat
    BY SMTT(60) DEF FullLink
  <2> QED
    BY <2>1, <2>2, <2>3, SMTT(60)
<1>3. /\ blocks \in Nat /\ s \in Nat /\ cuts[s] \in Nat /\ cuts[s + 1] \in Nat
      /\ Len(rcv) \in Nat
  <2>1. Len(rec) \in Nat /\ blocks \in Nat
    BY LenIs DEF FullLink
  <2>2. s \in Nat /\ s + 1 \in Nat
    BY <2>1
  <2>3. Len(rcv) = blocks + Len(rec) + 2 /\ cuts \in [Nat -> Nat]
    BY DEF FullLink
  <2>4. Len(rcv) \in Nat
    BY <2>1, <2>3
  <2> QED
    BY <2>1, <2>2, <2>3, <2>4
<1>4. PICK p : p = s + cuts[s] + 2
  OBVIOUS
<1>5. /\ p \in 1 .. Len(rcv) /\ p + len - 1 <= Len(rcv)
      /\ p + len = s + 1 + cuts[s + 1] + 2
      /\ \A u \in 1 .. len : p + u - 1 = s + cuts[s] + u + 1
  <2>1. PICK c, d, N : c = cuts[s] /\ d = cuts[s + 1] /\ N = Len(rcv)
    OBVIOUS
  <2>2. /\ c \in Nat /\ d \in Nat /\ N \in Nat /\ s \in Nat /\ len \in Nat \ {0}
        /\ d + 1 = c + len /\ s + c + len < N /\ p = s + c + 2
    BY <1>1, <1>2, <1>3, <1>4, <2>1
  <2>3. /\ p \in 1 .. N /\ p + len - 1 <= N /\ p + len = s + 1 + d + 2
        /\ \A u \in 1 .. len : p + u - 1 = s + c + u + 1
    BY ONLY <2>2
  <2> QED
    BY <2>1, <2>3
<1>6. WholeThere(rcv, p, b)
  BY <1>1, <1>2, <1>3, <1>5 DEF WholeThere, IsBlock
<1>7. PICK x, y : x = f[p + len] /\ y = f[p] /\ y = [x EXCEPT !.pieces = <<b>> \o @]
  <2>1. PICK q : q = p + len
    OBVIOUS
  <2>2. Follows(rcv, f, p, b, q)
    BY <1>2, <1>6, <2>1 DEF Follows
  <2>3. Put(f, p, b, q)
    BY <2>2, WholeParsed
  <2> QED
    BY <2>1, <2>3 DEF Put
<1>8. Rest(cuts, blocks, rec, x, s + 1)
  BY <1>5, <1>7
<1>9. Rest(cuts, blocks, rec, y, s)
  BY <1>1, <1>3, <1>7, <1>8, RestBefore, ZenonT(60)
<1> QED
  BY <1>4, <1>7, <1>9

\* All of them.
LEMMA FullParsed ==
    ASSUME NEW cuts, NEW blocks, NEW rec, NEW rcv, FullLink(cuts, blocks, rec, rcv),
           NEW f, Parses(rcv, f, 1)
    PROVE  FullMedium(cuts, blocks, rec, f[1])
<1> DEFINE Good(s) == Rest(cuts, blocks, rec, f[s + cuts[s] + 2], s)
           S == {n \in Nat : n <= blocks => Good(blocks - n)}
<1>1. blocks \in Nat /\ Len(rcv) \in Nat /\ Len(rcv) >= 2
  <2>1. Len(rec) \in Nat /\ blocks \in Nat
    BY LenIs DEF FullLink
  <2> QED
    BY <2>1 DEF FullLink
<1>2. Good(blocks)
  BY RestIsEnd
<1>3. ASSUME NEW s \in 0 .. blocks - 1, Good(s + 1) PROVE Good(s)
  BY <1>3, RestParsed
<1> HIDE DEF Good
<1>4. 0 \in S
  <2>1. blocks - 0 = blocks
    BY <1>1
  <2> QED
    BY <1>2, <2>1
<1>5. ASSUME NEW n \in S PROVE n + 1 \in S
  <2> SUFFICES ASSUME n + 1 <= blocks PROVE Good(blocks - (n + 1))
    OBVIOUS
  <2>1. PICK s : s = blocks - (n + 1) /\ s \in 0 .. blocks - 1 /\ s + 1 = blocks - n
                 /\ n <= blocks
    BY <1>1
  <2> QED
    BY <1>3, <2>1
<1> HIDE DEF S
<1>6. S = Nat
  <2>1. S \subseteq Nat
    BY DEF S
  <2> QED
    BY ONLY <1>4, <1>5, <2>1, SetInduction
<1>7. Rest(cuts, blocks, rec, f[2], 0)
  <2>1. blocks \in S /\ blocks <= blocks /\ blocks - blocks = 0
    BY <1>1, <1>6
  <2>2. Good(0)
    BY <2>1 DEF S
  <2>3. 0 + cuts[0] + 2 = 2
    BY DEF FullLink
  <2> QED
    BY <2>2, <2>3 DEF Good
<1>8. PICK x, y : x = f[2] /\ y = f[1] /\ y = [x EXCEPT !.pieces = <<HeaderPiece>> \o @]
  <2>1. PieceLen(HeaderPiece) = 1
    BY FixedPieces, PieceLenIs
  <2>2. WholeThere(rcv, 1, HeaderPiece)
    <3>1. 1 \in 1 .. Len(rcv) /\ 1 + 1 - 1 <= Len(rcv)
      BY <1>1
    <3>2. \A u \in 1 .. 1 : u = 1 /\ 1 + u - 1 = 1
      OBVIOUS
    <3>3. rcv[1] = [piece |-> HeaderPiece, unit |-> 1]
      BY DEF FullLink
    <3> QED
      BY <1>1, <2>1, <3>1, <3>2, <3>3, FixedPieces DEF WholeThere
  <2>3. Put(f, 1, HeaderPiece, 2)
    <3>1. Follows(rcv, f, 1, HeaderPiece, 2)
      BY <2>1, <2>2 DEF Follows
    <3> QED
      BY <3>1, WholeParsed
  <2> QED
    BY <2>3 DEF Put
<1>9. /\ Sendables(cuts, blocks, rec, x, 1) /\ x.tail = "none"
      /\ Len(x.pieces) = blocks + 1 /\ x.pieces[blocks + 1] = EndPiece
      /\ \A j \in 0 .. blocks - 1 : /\ IsBlock(cuts, blocks, rec, x.pieces[j + 1])
                                    /\ x.pieces[j + 1].seq = j
  <2>1. /\ Sendables(cuts, blocks, rec, x, 1) /\ x.tail = "none"
        /\ Len(x.pieces) = blocks - 0 + 1 /\ x.pieces[blocks - 0 + 1] = EndPiece
        /\ \A j \in 0 .. blocks - 1 : /\ IsBlock(cuts, blocks, rec, x.pieces[j - 0 + 1])
                                      /\ x.pieces[j - 0 + 1].seq = j
    BY <1>7, <1>8 DEF Rest
  <2>2. blocks - 0 = blocks /\ \A j \in 0 .. blocks - 1 : j - 0 = j
    BY <1>1
  <2> QED
    BY <2>1, <2>2
<1>10. /\ y.tail = x.tail /\ Len(y.pieces) = Len(x.pieces) + 1
       /\ \A j \in 1 .. Len(x.pieces) : y.pieces[j + 1] = x.pieces[j]
  <2>1. 2 \in {1, 2} /\ 2 # 1 /\ HeaderPiece \in ArrivedSet
    BY FixedPieces
  <2>2. Sendables(cuts, blocks, rec, y, 2) /\ Headed(x, HeaderPiece, y)
    BY ONLY <1>8, <1>9, <2>1, PieceBefore
  <2> QED
    BY <2>2 DEF Headed
<1>11. Len(y.pieces) = blocks + 2 /\ y.pieces[blocks + 2] = EndPiece
  <2>1. blocks + 1 \in 1 .. blocks + 1 /\ blocks + 1 + 1 = blocks + 2
    BY <1>1
  <2> QED
    BY <1>9, <1>10, <2>1
<1>12. ASSUME NEW s \in 0 .. blocks - 1
       PROVE  IsBlock(cuts, blocks, rec, y.pieces[s + 2]) /\ y.pieces[s + 2].seq = s
  <2>1. s + 1 \in 1 .. blocks + 1 /\ s + 1 + 1 = s + 2
    BY <1>1
  <2>2. y.pieces[s + 2] = x.pieces[s + 1]
    BY <1>9, <1>10, <2>1
  <2> QED
    BY <1>9, <2>2
<1> QED
  BY <1>8, <1>9, <1>10, <1>11, <1>12 DEF FullMedium

\* A reader of it that has handed out n events and stands behind the blocks it took.
Going(cuts, blocks, rec, s, n) ==
    /\ Reads(cuts, blocks, rec, s.r, s.got) /\ Len(s.got) = n
    /\ s.r.opened = TRUE /\ s.r.done = FALSE /\ s.r.err = NoReadError
    /\ s.r.at = s.r.expect_seq + 2

\* A reader that has handed out everything and found the terminator.
Ended(rec, s) ==
    /\ s.got = rec /\ s.r.opened = TRUE /\ s.r.done = TRUE /\ s.r.err = NoReadError

\* What there is to read.
Complete(cuts, blocks, rec, m) ==
    /\ rec \in Seq(EventSet) /\ blocks \in Nat /\ cuts[0] = 0 /\ cuts[blocks] = Len(rec)
    /\ \A s \in 0 .. blocks - 1 : cuts[s] < cuts[s + 1]
    /\ FullMedium(cuts, blocks, rec, m)

\* Handing out an event, the reader stays where it is.
LEMMA PastStays ==
    ASSUME NEW r \in Readers
    PROVE  LET v == PastEvent(r) IN
           v.opened = r.opened /\ v.at = r.at /\ v.expect_seq = r.expect_seq
<1>1. PICK payload, ts, addr : PastEvent(r) = [r EXCEPT !.payload = payload, !.last_ts = ts,
                                                        !.last_addr = addr]
  BY DEF PastEvent
<1> QED
  BY <1>1 DEF Readers

\* The next block, when events are left.
LEMMA GoingLoads ==
    ASSUME NEW cuts, NEW blocks, NEW rec, NEW m, Complete(cuts, blocks, rec, m),
           NEW s, NEW n, Going(cuts, blocks, rec, s, n), n < Len(rec), s.r.payload = <<>>,
           NEW q, q = LoadNextBlock(s.r, m)
    PROVE  /\ Going(cuts, blocks, rec, [r |-> q, got |-> s.got], n) /\ q.payload # <<>>
<1>1. PICK r, out : r = s.r /\ out = s.got
  OBVIOUS
<1>2. /\ Reads(cuts, blocks, rec, r, out) /\ Len(out) = n /\ r.opened = TRUE
      /\ r.done = FALSE /\ r.err = NoReadError /\ r.at = r.expect_seq + 2
      /\ r.payload = <<>> /\ q = LoadNextBlock(r, m)
  BY <1>1 DEF Going
<1>3. /\ r \in Readers /\ blocks \in Nat /\ rec \in Seq(EventSet) /\ n \in Nat
      /\ r.at \in Nat /\ r.blocks_read \in Nat
  <2>1. out \in Seq(EventSet)
    BY <1>2 DEF Reads
  <2> QED
    BY <1>2, <2>1, LenIs DEF Reads, Complete, Readers
<1>4. PICK seq : seq = r.expect_seq /\ seq \in 0 .. blocks - 1 /\ cuts[seq] = n
  <2>1. Len(<<>>) = 0
    OBVIOUS
  <2>2. r.expect_seq \in 0 .. blocks /\ cuts[r.expect_seq] = n + 0
    BY <1>2, <2>1 DEF Reads
  <2>3. cuts[r.expect_seq] = n /\ cuts[blocks] = Len(rec)
    BY <1>3, <2>2 DEF Complete
  <2>4. r.expect_seq # blocks
    BY <1>3, <2>3
  <2> QED
    BY <1>3, <2>2, <2>3, <2>4
<1>5. PICK b : b = m.pieces[r.at] /\ IsBlock(cuts, blocks, rec, b) /\ b.seq = seq
               /\ ~(r.at > Len(m.pieces))
  <2>1. r.at = seq + 2 /\ seq + 2 <= blocks + 2
    BY <1>2, <1>3, <1>4
  <2> QED
    BY <1>4, <2>1, SMTT(60) DEF Complete, FullMedium
<1>6. Sound(cuts, blocks, rec, b) /\ b.kind = "block" /\ b.damage = "none" /\ b.seq \in Nat
  BY <1>3, <1>4, <1>5 DEF IsBlock
<1>7. q = TakeBlock(r, b)
  BY <1>2, <1>5, <1>6 DEF LoadNextBlock
<1>8. PICK next, read, payload, at :
         /\ next = seq + 1 /\ read = r.blocks_read + 1 /\ payload = b.payload /\ at = r.at + 1
         /\ next \in Nat /\ read \in Nat /\ at \in Nat /\ payload \in Seq(EncodedSet)
         /\ at = next + 2
  <2>1. b.payload \in Seq(EncodedSet)
    BY <1>6 DEF Sound, HoldsFrom
  <2>2. seq + 1 \in Nat /\ r.blocks_read + 1 \in Nat /\ r.at + 1 \in Nat
        /\ r.at + 1 = (seq + 1) + 2
    BY <1>2, <1>3, <1>4, SMTT(60)
  <2> QED
    BY <2>1, <2>2
<1>9. IsTaken(q, r, next, payload, at)
  <2>1. q = Taken(r, next, read, payload, at)
    <3>1. ~(b.seq < r.expect_seq) /\ ~(b.seq > r.expect_seq) /\ b.seq + 1 = next
      BY <1>3, <1>4, <1>5, <1>8
    <3> QED
      BY <1>7, <1>8, <3>1, Zenon DEF TakeBlock, Taken
  <2> QED
    BY <1>3, <1>8, <2>1, TakenReader
<1>10. Reads(cuts, blocks, rec, q, out)
  <2>1. Loaded(cuts, blocks, rec, r, q, out)
    BY <1>2, <1>3, <1>6, <1>7, TakeReads
  <2> QED
    BY <2>1 DEF Loaded
<1>11. q.payload # <<>>
  <2>1. cuts[seq] < cuts[seq + 1] /\ cuts[seq + 1] = cuts[seq] + Len(payload)
    BY <1>4, <1>5, <1>6, <1>8 DEF Complete, Sound
  <2>2. Len(payload) # 0
    BY <1>3, <1>4, <2>1
  <2> QED
    BY <1>8, <1>9, <2>2, LenIs DEF IsTaken
<1>12. PICK t : t = [r |-> q, got |-> s.got]
  OBVIOUS
<1>13. t.r = q /\ t.got = out
  BY <1>1, <1>12
<1>14. Going(cuts, blocks, rec, t, n)
  BY <1>2, <1>8, <1>9, <1>10, <1>13 DEF IsTaken, Going
<1> QED
  BY <1>11, <1>12, <1>14

\* A call hands out the next event, while there is one.
LEMMA GoingOn ==
    ASSUME NEW cuts, NEW blocks, NEW rec, NEW m, Complete(cuts, blocks, rec, m),
           NEW s, NEW n, Going(cuts, blocks, rec, s, n), n < Len(rec),
           NEW t, t = Called(m, s), NEW k, k = n + 1
    PROVE  Going(cuts, blocks, rec, t, k)
<1>1. PICK q : q = IF s.r.payload = <<>> THEN LoadNextBlock(s.r, m) ELSE s.r
  OBVIOUS
<1>2. PICK out : out = s.got /\ out \in Seq(EventSet) /\ Len(out) = n
  BY DEF Going, Reads
<1>3. /\ q.payload # <<>> /\ Reads(cuts, blocks, rec, q, out)
      /\ q.opened = TRUE /\ q.done = FALSE /\ q.err = NoReadError
      /\ q.at = q.expect_seq + 2
  <2>1. CASE s.r.payload = <<>>
    <3>1. q = LoadNextBlock(s.r, m)
      BY <1>1, <2>1
    <3>2. PICK u : u = [r |-> q, got |-> s.got]
      OBVIOUS
    <3>3. u.r = q /\ u.got = s.got
      BY <3>2
    <3>4. Going(cuts, blocks, rec, u, n) /\ q.payload # <<>>
      BY <2>1, <3>1, <3>2, GoingLoads
    <3> QED
      BY <1>2, <3>3, <3>4 DEF Going
  <2>2. CASE s.r.payload # <<>>
    BY <1>1, <1>2, <2>2 DEF Going
  <2> QED
    BY <2>1, <2>2
<1>4. blocks \in Nat /\ rec \in Seq(EventSet) /\ q \in Readers
  BY <1>3 DEF Complete, Reads
<1>5. PICK ev, v : /\ ev = Decoded(q) /\ v = PastEvent(q)
                   /\ Reads(cuts, blocks, rec, v, Append(out, ev))
                   /\ v.done = q.done /\ v.err = q.err
                   /\ Len(out) < Len(rec) /\ ev = rec[Len(out) + 1]
  <2>1. Passed(cuts, blocks, rec, q, out)
    BY <1>3, <1>4, PastReads
  <2> QED
    BY <2>1 DEF Passed
<1>6. v.opened = q.opened /\ v.at = q.at /\ v.expect_seq = q.expect_seq
  BY <1>4, <1>5, PastStays
<1>7. NextEvent(s.r, m) = [r |-> v, out |-> <<ev>>]
  <2>1. s.r.opened /\ ~(s.r.done \/ s.r.err # NoReadError)
    BY DEF Going
  <2> QED
    BY <1>1, <1>3, <1>5, <2>1 DEF NextEvent
<1>8. t.r = v /\ t.got = Append(out, ev)
  <2>1. PICK x : x = NextEvent(s.r, m) /\ x.r = v /\ x.out = <<ev>>
    BY <1>7
  <2>2. t.r = x.r /\ t.got = s.got \o x.out
    BY <2>1 DEF Called
  <2>3. out \o <<ev>> = Append(out, ev)
    BY <1>2
  <2> QED
    BY <1>2, <2>1, <2>2, <2>3
<1>9. Len(Append(out, ev)) = k
  BY <1>2
<1> QED
  BY <1>3, <1>5, <1>6, <1>8, <1>9 DEF Going

\* The call after the last event finds the terminator.
LEMMA GoingEnds ==
    ASSUME NEW cuts, NEW blocks, NEW rec, NEW m, Complete(cuts, blocks, rec, m),
           NEW s, Going(cuts, blocks, rec, s, Len(rec)), NEW t, t = Called(m, s)
    PROVE  Ended(rec, t)
<1>1. PICK r, out, n : r = s.r /\ out = s.got /\ n = Len(rec)
  OBVIOUS
<1>2. /\ Reads(cuts, blocks, rec, r, out) /\ Len(out) = n /\ r.opened = TRUE
      /\ r.done = FALSE /\ r.err = NoReadError /\ r.at = r.expect_seq + 2
  BY <1>1 DEF Going
<1>3. /\ r \in Readers /\ blocks \in Nat /\ rec \in Seq(EventSet) /\ n \in Nat
      /\ out \in Seq(EventSet) /\ r.payload \in Seq(EncodedSet) /\ r.expect_seq \in 0 .. blocks
  BY <1>1, <1>2, LenIs DEF Reads, Complete, Readers
<1>4. out = rec
  <2>1. \A i \in 1 .. n : out[i] = rec[i]
    BY <1>2 DEF Reads
  <2>2. Len(out) = Len(rec) /\ \A i \in 1 .. Len(out) : out[i] = rec[i]
    BY <1>1, <1>2, <2>1
  <2> QED
    BY <1>3, <2>2, SeqEqual
<1>5. r.payload = <<>>
  <2>1. Len(r.payload) \in Nat /\ n + Len(r.payload) <= n
    BY <1>1, <1>2, <1>3, LenIs DEF Reads, HoldsFrom
  <2>2. Len(r.payload) = 0
    BY <1>3, <2>1
  <2> QED
    BY <1>3, <2>2, LenIs
<1>6. r.expect_seq = blocks
  <2> SUFFICES ASSUME r.expect_seq \in 0 .. blocks - 1 PROVE FALSE
    BY <1>3
  <2>1. PICK seq, b : /\ seq = r.expect_seq /\ IsBlock(cuts, blocks, rec, b) /\ b.seq = seq
    BY ZenonT(60) DEF Complete, FullMedium
  <2>2. cuts[seq] = n
    <3>1. Len(<<>>) = 0 /\ n + 0 = n
      BY <1>3
    <3> QED
      BY <1>2, <1>5, <2>1, <3>1 DEF Reads
  <2>3. /\ cuts[seq] < cuts[seq + 1] /\ cuts[seq + 1] = cuts[seq] + Len(b.payload)
        /\ cuts[seq] + Len(b.payload) <= n /\ b.payload \in Seq(EncodedSet)
    BY <1>1, <2>1 DEF Complete, IsBlock, Sound, HoldsFrom
  <2>4. Len(b.payload) \in Nat
    BY <2>3, LenIs
  <2> QED
    BY <1>3, <2>2, <2>3, <2>4
<1>7. LoadNextBlock(r, m) = [r EXCEPT !.done = TRUE]
  <2>1. r.at = blocks + 2 /\ ~(blocks + 2 > Len(m.pieces)) /\ m.pieces[blocks + 2] = EndPiece
    BY <1>2, <1>3, <1>6 DEF Complete, FullMedium
  <2> QED
    BY <2>1, FixedPieces DEF LoadNextBlock
<1>8. PICK v : /\ v = [r EXCEPT !.done = TRUE] /\ v \in Readers /\ SameReading(v, r)
               /\ v.done = TRUE /\ v.err = r.err
  BY <1>3, DoneReader
<1>9. v.payload = <<>> /\ v.opened = TRUE
  BY <1>2, <1>5, <1>8 DEF SameReading
<1>10. NextEvent(r, m) = [r |-> v, out |-> <<>>]
  BY <1>2, <1>5, <1>7, <1>8, <1>9 DEF NextEvent
<1>11. t.r = v /\ t.got = out
  <2>1. PICK x : x = NextEvent(r, m) /\ x.r = v /\ x.out = <<>>
    BY <1>10
  <2>2. t.r = x.r /\ t.got = out \o x.out
    BY <1>1, <2>1 DEF Called
  <2>3. out \o <<>> = out
    BY <1>3
  <2> QED
    BY <2>1, <2>2, <2>3
<1> QED
  BY <1>2, <1>4, <1>8, <1>9, <1>11 DEF Ended

\* The calls after that change nothing.
LEMMA EndedStays ==
    ASSUME NEW rec \in Seq(EventSet), NEW m, NEW s, Ended(rec, s), NEW t, t = Called(m, s)
    PROVE  Ended(rec, t)
<1>1. PICK x : x = NextEvent(s.r, m) /\ x.r = s.r /\ x.out = <<>>
  <2>1. s.r.opened /\ s.r.done
    BY DEF Ended
  <2>2. NextEvent(s.r, m) = [r |-> s.r, out |-> <<>>]
    BY <2>1 DEF NextEvent
  <2>3. NextEvent(s.r, m).r = s.r /\ NextEvent(s.r, m).out = <<>>
    BY <2>2
  <2> QED
    BY <2>3
<1>2. t.r = s.r /\ t.got = rec \o <<>>
  BY <1>1 DEF Called, Ended
<1>3. rec \o <<>> = rec
  OBVIOUS
<1> QED
  BY <1>2, <1>3 DEF Ended

\* The reader of a complete medium has opened it.
LEMMA GoingStarts ==
    ASSUME NEW cuts, NEW blocks, NEW rec, NEW m, Complete(cuts, blocks, rec, m),
           NEW s, s = [r |-> Open(m), got |-> <<>>]
    PROVE  Going(cuts, blocks, rec, s, 0)
<1>1. PICK r : r = Open(m) /\ s.r = r /\ s.got = <<>>
  OBVIOUS
<1>2. Reads(cuts, blocks, rec, r, <<>>)
  BY <1>1, OpenReads DEF Complete
<1>3. m.pieces # <<>>
  <2>1. Len(m.pieces) # 0
    BY DEF Complete, FullMedium
  <2>2. Len(<<>>) = 0
    OBVIOUS
  <2> QED
    BY <2>1, <2>2
<1>4. /\ r.opened = TRUE /\ r.done = FALSE /\ r.err = NoReadError
      /\ r.at = 2 /\ r.expect_seq = 0
  BY <1>1, <1>3 DEF Open, NewReader
<1>5. r.at = r.expect_seq + 2 /\ Len(<<>>) = 0
  BY <1>4
<1> QED
  BY <1>1, <1>2, <1>4, <1>5 DEF Going

\* Calls enough hand out everything.
LEMMA RunEnds ==
    ASSUME NEW cuts, NEW blocks, NEW rec, NEW m, Complete(cuts, blocks, rec, m),
           NEW n \in Nat, n > Len(rec), NEW f, Runs(m, f, n)
    PROVE  Ended(rec, f[n])
<1> DEFINE L == Len(rec)
           Good(i) == IF i <= L THEN Going(cuts, blocks, rec, f[i], i) ELSE Ended(rec, f[i])
           S == {i \in Nat : i <= n => Good(i)}
<1>1. L \in Nat /\ rec \in Seq(EventSet)
  BY LenIs DEF Complete
<1>2. 0 \in S
  <2>1. f[0] = [r |-> Open(m), got |-> <<>>]
    BY DEF Runs
  <2>2. Going(cuts, blocks, rec, f[0], 0)
    BY <2>1, GoingStarts
  <2> QED
    BY <1>1, <2>2
<1>3. ASSUME NEW i \in S PROVE i + 1 \in S
  <2> SUFFICES ASSUME i + 1 <= n PROVE Good(i + 1)
    OBVIOUS
  <2>1. i \in Nat /\ i + 1 \in 0 .. n /\ i + 1 # 0 /\ i + 1 - 1 = i /\ i <= n
    OBVIOUS
  <2>2. PICK s, t, k : s = f[i] /\ t = f[k] /\ k = i + 1 /\ t = Called(m, s)
    <3>1. f[i + 1] = Called(m, f[i])
      BY <2>1 DEF Runs
    <3> QED
      BY <3>1
  <2>3. Good(i)
    BY <2>1
  <2>4. CASE i < L
    <3>1. i <= L /\ k <= L
      BY <1>1, <2>1, <2>2, <2>4
    <3>2. Going(cuts, blocks, rec, s, i)
      BY <2>2, <2>3, <3>1
    <3>3. Going(cuts, blocks, rec, t, k)
      BY <2>2, <2>4, <3>2, GoingOn
    <3> QED
      BY <2>2, <3>1, <3>3
  <2>5. CASE i = L
    <3>1. i <= L /\ ~(k <= L)
      BY <1>1, <2>1, <2>2, <2>5
    <3>2. Going(cuts, blocks, rec, s, Len(rec))
      BY <2>2, <2>3, <2>5, <3>1
    <3>3. Ended(rec, t)
      BY <2>2, <3>2, GoingEnds
    <3> QED
      BY <2>2, <3>1, <3>3
  <2>6. CASE i > L
    <3>1. ~(i <= L) /\ ~(k <= L)
      BY <1>1, <2>1, <2>2, <2>6
    <3>2. Ended(rec, s)
      BY <2>2, <2>3, <3>1
    <3>3. Ended(rec, t)
      BY <1>1, <2>2, <3>2, EndedStays
    <3> QED
      BY <2>2, <3>1, <3>3
  <2> QED
    BY <1>1, <2>1, <2>4, <2>5, <2>6
<1> HIDE DEF S
<1>4. S = Nat
  <2>1. S \subseteq Nat
    BY DEF S
  <2> QED
    BY ONLY <1>2, <1>3, <2>1, SetInduction
<1>5. n \in S /\ n <= n /\ ~(n <= L)
  BY <1>1, <1>4
<1> QED
  BY <1>5 DEF S

\* With nothing refused and nothing left in the ring the link has carried everything.
LEMMA HealthyLink ==
    ASSUME RecInv, TraceInv, ~torn, Emptied, Healthy
    PROVE  \E cuts, blocks : /\ FullLink(cuts, blocks, recorded, received)
                             /\ Carried(cuts, blocks, recorded, received)
                             /\ \A s \in 0 .. blocks - 1 : cuts[s] < cuts[s + 1]
<1>1. /\ phase = "over" /\ main.at = "idle" /\ writer.ok /\ ring.drops = 0
      /\ ring.head = ring.tail /\ ring.head \in Nat /\ Len(received) = ring.tail
  <2>1. ring.head \in Nat /\ ring.tail \in Nat /\ ring.head - ring.tail = 0
    BY CallIs DEF Emptied, UsedUnits
  <2> QED
    BY <2>1 DEF Emptied, Healthy, RecInv, Alone, Counted
<1>2. PICK blocks : blocks = writer.block_seq
  OBVIOUS
<1>3. Blocks(main, writer) = blocks /\ Ends(main, writer, phase) = TRUE
  BY <1>1, <1>2 DEF Blocks, Ends
<1>4. PICK cuts : Told(cuts, writer, ring, received, recorded, blocks, TRUE)
  BY <1>3, TraceIs DEF Tells
<1>5. /\ Carried(cuts, blocks, recorded, received)
      /\ cuts[0] = 0 /\ blocks \in Nat /\ recorded \in Seq(EventSet)
      /\ \A i \in 0 .. ring.tail - 1 : Stream(ring, received)[i] = received[i + 1]
  BY <1>4, ToldCarried
<1>6. PICK units, head : units = Stream(ring, received) /\ head = ring.head
  OBVIOUS
<1>7. Whole(cuts, blocks, recorded, units, head, TRUE)
  BY <1>1, <1>4, <1>6 DEF Told
<1>8. /\ head \in Nat /\ Len(received) = head
      /\ \A i \in 0 .. head - 1 : units[i] = received[i + 1]
  BY <1>1, <1>5, <1>6
<1>9. cuts \in [Nat -> Nat] /\ cuts[blocks] = Len(recorded) /\ Len(recorded) \in Nat
  <2>1. writer.staged = <<>>
    BY <1>1 DEF TraceInv
  <2>2. Shares(cuts, writer, recorded, blocks)
    BY <1>4 DEF Told
  <2>3. /\ cuts \in [Nat -> Nat] /\ cuts[blocks] + Len(writer.staged) = Len(recorded)
    BY <1>2, <2>2 DEF Shares
  <2>4. Len(<<>>) = 0 /\ Len(recorded) \in Nat
    BY <1>5, LenIs
  <2>5. cuts[blocks] \in Nat
    BY <1>5, <2>3
  <2> QED
    BY <2>1, <2>3, <2>4, <2>5, SMTT(60)
<1>10. head = blocks + Len(recorded) + 2
  BY <1>5, <1>7, <1>9 DEF Whole
<1>11. received[1] = [piece |-> HeaderPiece, unit |-> 1]
  <2>1. 0 \in 0 .. head - 1 /\ 0 + 1 = 1
    BY <1>5, <1>9, <1>10
  <2>2. units[0] = received[1]
    BY <1>8, <2>1
  <2> QED
    BY <1>7, <2>2 DEF Whole
<1>12. received[Len(received)] = [piece |-> EndPiece, unit |-> 1]
  <2>1. head - 1 \in 0 .. head - 1 /\ head - 1 + 1 = Len(received)
    BY <1>5, <1>8, <1>9, <1>10
  <2>2. units[head - 1] = received[Len(received)]
    BY <1>8, <2>1
  <2> QED
    BY <1>7, <2>2 DEF Whole
<1>13. ASSUME NEW s \in 0 .. blocks - 1
       PROVE  /\ cuts[s] < cuts[s + 1]
              /\ \E b : /\ IsBlock(cuts, blocks, recorded, b) /\ b.seq = s
                        /\ s + cuts[s] + PieceLen(b) < Len(received)
                        /\ \A u \in 1 .. PieceLen(b) :
                              received[s + cuts[s] + u + 1] = [piece |-> b, unit |-> u]
  <2>1. Tile(cuts, blocks, recorded, units, head, s)
    BY <1>7 DEF Whole
  <2>2. PICK b : /\ IsBlock(cuts, blocks, recorded, b) /\ b.seq = s
                 /\ s + cuts[s] + PieceLen(b) < head
                 /\ \A u \in 1 .. PieceLen(b) :
                       units[s + cuts[s] + u] = [piece |-> b, unit |-> u]
    BY <2>1 DEF Tile
  <2>3. PICK len, c : len = PieceLen(b) /\ len \in Nat /\ c = cuts[s] /\ c \in Nat
    <3>1. b \in ArrivedSet
      BY <2>2 DEF IsBlock
    <3>2. s \in Nat
      BY <1>5
    <3> QED
      BY <1>9, <3>1, <3>2, PieceLenIs
  <2>4. ASSUME NEW u \in 1 .. len PROVE received[s + c + u + 1] = [piece |-> b, unit |-> u]
    <3>1. s + c + u \in 0 .. head - 1
      <4>1. s \in Nat /\ head \in Nat /\ c \in Nat /\ len \in Nat /\ u \in 1 .. len
        BY <1>5, <1>8, <2>3
      <4>2. s + c + len < head
        BY <2>2, <2>3
      <4> QED
        BY ONLY <4>1, <4>2
    <3>2. units[s + c + u] = received[s + c + u + 1]
      BY <1>8, <3>1
    <3> QED
      BY <2>2, <2>3, <3>2
  <2> QED
    BY <1>8, <2>1, <2>2, <2>3, <2>4 DEF Tile
<1>14. FullLink(cuts, blocks, recorded, received)
  BY <1>5, <1>8, <1>9, <1>10, <1>11, <1>12, <1>13 DEF FullLink
<1> QED
  BY <1>5, <1>13, <1>14

\* A healthy recording that the main loop's calls alone have made is whole
\* (HealthyAloneIsWhole).
THEOREM HealthyAloneCorrect == ASSUME PushesToTheRing PROVE RecSpec => []HealthyAloneIsWhole
<1>1. RecInv /\ TraceInv => HealthyAloneIsWhole
  <2> SUFFICES ASSUME RecInv, TraceInv, ~torn, Emptied, Healthy
               PROVE  Reading.got = recorded /\ Reading.r.err = NoReadError
    BY DEF HealthyAloneIsWhole
  <2>1. PICK cuts, blocks : /\ FullLink(cuts, blocks, recorded, received)
                            /\ Carried(cuts, blocks, recorded, received)
                            /\ \A s \in 0 .. blocks - 1 : cuts[s] < cuts[s + 1]
    BY HealthyLink
  <2>2. PICK m, n : m = Reassembled /\ n = Len(received) + 1
    OBVIOUS
  <2>3. PICK f : Parses(received, f, 1) /\ m = f[1]
    <3>1. \E f : Parses(received, f, 1)
      BY <2>1, CarriedUnits, ParseExists
    <3> QED
      BY <2>2, <3>1, ReassembledIs
  <2>4. FullMedium(cuts, blocks, recorded, m)
    BY <2>1, <2>3, FullParsed
  <2>5. Complete(cuts, blocks, recorded, m)
    BY <2>1, <2>4 DEF Complete, FullLink
  <2>6. n \in Nat /\ n > Len(recorded)
    <3>1. /\ Len(recorded) \in Nat /\ blocks \in Nat
          /\ Len(received) = blocks + Len(recorded) + 2
      BY <2>1, LenIs DEF FullLink
    <3> QED
      BY <2>2, <3>1
  <2>7. PICK g : Runs(m, g, n) /\ Reading = g[n]
    <3>1. \E g : Runs(Reassembled, g, Len(received) + 1)
      BY <2>2, <2>6, RunExists
    <3> QED
      BY <2>2, <3>1, ReadingIs
  <2>8. PICK s, rec : s = Reading /\ rec = recorded
    OBVIOUS
  <2>9. Ended(rec, s)
    BY <2>5, <2>6, <2>7, <2>8, RunEnds
  <2> QED
    BY <2>8, <2>9 DEF Ended
<1> QED
  BY <1>1, TraceInvariance, PTL
================================================================================
