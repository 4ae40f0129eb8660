------------------------------ MODULE TraceProofs -----------------------------
(****************************************************************************)
(* What the events of a trace, their encodings and the reader have to do    *)
(* with one another, whoever recorded and whatever lies between: every      *)
(* event has one encoding, EncodedAt its place in the recording, a block    *)
(* that is sound holds those of its share, and a reader that takes sound    *)
(* blocks without a gap is always at an event whose predecessor it has      *)
(* read (Reads), so that its deltas decode.                                 *)
(****************************************************************************)
EXTENDS TraceWriter, TraceReader, SequenceTheorems, TLAPS

--------------------------------------------------------------------------------
(* Events and their encodings.                                               *)

EventSet == [type : {"read", "write", "irq", "irq_at", "stop"}, ts : Nat,
             addr : Nat, value : Nat]

EncodedSet == [type : {"read", "write", "irq", "irq_at", "stop"}, dts : Int,
               arg : Int, value : Nat]

\* The running state behind the first n events.
TsAfter(rec, n) == IF n = 0 THEN 0 ELSE rec[n].ts

IsLastMmio(rec, n, k) ==
    /\ k \in 1 .. n /\ IsMmio(rec[k].type)
    /\ \A j \in k + 1 .. n : ~IsMmio(rec[j].type)

AddrAfter(rec, n) ==
    IF \E k : IsLastMmio(rec, n, k)
    THEN rec[CHOOSE k : IsLastMmio(rec, n, k)].addr
    ELSE 0

EncodedAt(rec, n) ==
    [type |-> rec[n].type,
     dts |-> rec[n].ts - TsAfter(rec, n - 1),
     arg |-> IF IsMmio(rec[n].type) THEN rec[n].addr - AddrAfter(rec, n - 1)
             ELSE rec[n].addr,
     value |-> rec[n].value]

\* There is one last MMIO event at most.
LEMMA OneLastMmio ==
    ASSUME NEW rec, NEW n \in Nat, NEW k, IsLastMmio(rec, n, k)
    PROVE  AddrAfter(rec, n) = rec[k].addr
<1> DEFINE c == CHOOSE j : IsLastMmio(rec, n, j)
<1>1. IsLastMmio(rec, n, c)
  OBVIOUS
<1>2. c = k
  <2> HIDE DEF c
  <2>1. c \in 1 .. n /\ k \in 1 .. n /\ ~(c > k) /\ ~(k > c)
    BY <1>1 DEF IsLastMmio
  <2> QED
    BY <2>1
<1> QED
  BY <1>2 DEF AddrAfter

\* The predictor one event on.
LEMMA AddrStep ==
    ASSUME NEW rec, NEW n \in Nat, n > 0
    PROVE  AddrAfter(rec, n) = IF IsMmio(rec[n].type) THEN rec[n].addr
                               ELSE AddrAfter(rec, n - 1)
<1>1. CASE IsMmio(rec[n].type)
  <2>1. IsLastMmio(rec, n, n)
    BY <1>1 DEF IsLastMmio
  <2> QED
    BY <1>1, <2>1, OneLastMmio
<1>2. CASE ~IsMmio(rec[n].type)
  <2>1. \A k : IsLastMmio(rec, n, k) <=> IsLastMmio(rec, n - 1, k)
    BY <1>2 DEF IsLastMmio
  <2>2. CASE \E k : IsLastMmio(rec, n, k)
    <3>1. PICK k : IsLastMmio(rec, n, k)
      BY <2>2
    <3>2. AddrAfter(rec, n) = rec[k].addr
      BY <3>1, OneLastMmio
    <3>3. AddrAfter(rec, n - 1) = rec[k].addr
      BY <2>1, <3>1, OneLastMmio, n - 1 \in Nat
    <3> QED
      BY <1>2, <3>2, <3>3
  <2>3. CASE ~\E k : IsLastMmio(rec, n, k)
    BY <1>2, <2>1, <2>3 DEF AddrAfter
  <2> QED
    BY <2>2, <2>3
<1> QED
  BY <1>1, <1>2

\* Before the first event the predictor is zero.
LEMMA AddrZero ==
    ASSUME NEW rec
    PROVE  AddrAfter(rec, 0) = 0
<1>1. ~\E k : IsLastMmio(rec, 0, k)
  BY DEF IsLastMmio
<1> QED
  BY <1>1 DEF AddrAfter

\* The running state consists of numbers.
LEMMA StateIsNat ==
    ASSUME NEW rec \in Seq(EventSet), NEW n \in 0 .. Len(rec)
    PROVE  TsAfter(rec, n) \in Nat /\ AddrAfter(rec, n) \in Nat
<1>1. \A k \in 1 .. Len(rec) : rec[k].ts \in Nat /\ rec[k].addr \in Nat
  <2>1. \A k \in 1 .. Len(rec) : rec[k] \in EventSet
    OBVIOUS
  <2> QED
    BY <2>1 DEF EventSet
<1>2. TsAfter(rec, n) \in Nat
  BY <1>1 DEF TsAfter
<1>3. AddrAfter(rec, n) \in Nat
  <2>1. CASE \E k : IsLastMmio(rec, n, k)
    <3>1. PICK k : IsLastMmio(rec, n, k)
      BY <2>1
    <3>2. k \in 1 .. Len(rec)
      BY <3>1 DEF IsLastMmio
    <3> QED
      BY <1>1, <3>1, <3>2, OneLastMmio
  <2>2. CASE ~\E k : IsLastMmio(rec, n, k)
    BY <2>2 DEF AddrAfter
  <2> QED
    BY <2>1, <2>2
<1> QED
  BY <1>2, <1>3

\* What was recorded before an event does not depend on it.
LEMMA EncodedBefore ==
    ASSUME NEW rec \in Seq(EventSet), NEW ev \in EventSet
    PROVE  /\ \A n \in 0 .. Len(rec) :
                 /\ TsAfter(Append(rec, ev), n) = TsAfter(rec, n)
                 /\ AddrAfter(Append(rec, ev), n) = AddrAfter(rec, n)
           /\ \A n \in 1 .. Len(rec) :
                 EncodedAt(Append(rec, ev), n) = EncodedAt(rec, n)
<1> DEFINE all == Append(rec, ev)
<1>1. \A k \in 1 .. Len(rec) : all[k] = rec[k]
  OBVIOUS
<1> HIDE DEF all
<1>2. ASSUME NEW n \in 0 .. Len(rec) PROVE AddrAfter(all, n) = AddrAfter(rec, n)
  <2>1. \A k : IsLastMmio(all, n, k) <=> IsLastMmio(rec, n, k)
    BY <1>1, SMTT(60) DEF IsLastMmio
  <2>2. CASE \E k : IsLastMmio(rec, n, k)
    <3>1. PICK k : IsLastMmio(rec, n, k)
      BY <2>2
    <3>2. all[k] = rec[k]
      BY <1>1, <3>1 DEF IsLastMmio
    <3>3. AddrAfter(all, n) = all[k].addr /\ AddrAfter(rec, n) = rec[k].addr
      BY <2>1, <3>1, OneLastMmio
    <3> QED
      BY <3>2, <3>3
  <2>3. CASE ~\E k : IsLastMmio(rec, n, k)
    BY <2>1, <2>3 DEF AddrAfter
  <2> QED
    BY <2>2, <2>3
<1>3. ASSUME NEW n \in 0 .. Len(rec) PROVE TsAfter(all, n) = TsAfter(rec, n)
  BY <1>1 DEF TsAfter
<1>4. ASSUME NEW n \in 1 .. Len(rec) PROVE EncodedAt(all, n) = EncodedAt(rec, n)
  <2>1. all[n] = rec[n] /\ n - 1 \in 0 .. Len(rec)
    BY <1>1
  <2> QED
    BY <1>2, <1>3, <2>1 DEF EncodedAt
<1> QED
  BY <1>2, <1>3, <1>4 DEF all

\* An encoding is an encoding.
LEMMA EncodedType ==
    ASSUME NEW rec \in Seq(EventSet), NEW n \in 1 .. Len(rec)
    PROVE  EncodedAt(rec, n) \in EncodedSet
<1> DEFINE dts == rec[n].ts - TsAfter(rec, n - 1)
           arg == IF IsMmio(rec[n].type) THEN rec[n].addr - AddrAfter(rec, n - 1)
                  ELSE rec[n].addr
<1>1. rec[n] \in EventSet /\ n - 1 \in 0 .. Len(rec)
  OBVIOUS
<1>2. TsAfter(rec, n - 1) \in Nat /\ AddrAfter(rec, n - 1) \in Nat
  BY <1>1, StateIsNat
<1>3. /\ rec[n].type \in {"read", "write", "irq", "irq_at", "stop"}
      /\ rec[n].ts \in Nat /\ rec[n].addr \in Nat /\ rec[n].value \in Nat
  BY <1>1 DEF EventSet
<1>4. dts \in Int /\ arg \in Int
  BY <1>2, <1>3, SMTT(60)
<1>5. EncodedAt(rec, n) = [type |-> rec[n].type, dts |-> dts, arg |-> arg,
                           value |-> rec[n].value]
  BY DEF EncodedAt
<1> HIDE DEF dts, arg
<1> QED
  BY <1>3, <1>4, <1>5 DEF EncodedSet

\* Behind the event before it an encoding decodes.
LEMMA DecodesBack ==
    ASSUME NEW rec \in Seq(EventSet), NEW n \in 1 .. Len(rec), NEW r,
           Head(r.payload) = EncodedAt(rec, n),
           r.last_ts = TsAfter(rec, n - 1), r.last_addr = AddrAfter(rec, n - 1)
    PROVE  Decoded(r) = rec[n]
<1>1. rec[n] \in EventSet /\ n - 1 \in 0 .. Len(rec)
  OBVIOUS
<1>2. TsAfter(rec, n - 1) \in Nat /\ AddrAfter(rec, n - 1) \in Nat
  BY <1>1, StateIsNat
<1> DEFINE e == EncodedAt(rec, n)
<1>3. /\ e.type = rec[n].type /\ e.value = rec[n].value
      /\ r.last_ts + e.dts = rec[n].ts
      /\ (IF IsMmio(e.type) THEN r.last_addr + e.arg ELSE e.arg) = rec[n].addr
  <2>1. rec[n].ts \in Nat /\ rec[n].addr \in Nat
    BY <1>1 DEF EventSet
  <2>2. /\ e.type = rec[n].type /\ e.value = rec[n].value
        /\ e.dts = rec[n].ts - TsAfter(rec, n - 1)
        /\ e.arg = IF IsMmio(rec[n].type) THEN rec[n].addr - AddrAfter(rec, n - 1)
                   ELSE rec[n].addr
    BY DEF EncodedAt
  <2> DEFINE s == TsAfter(rec, n - 1)
             a == AddrAfter(rec, n - 1)
  <2> HIDE DEF e, s, a
  <2>3. r.last_ts + e.dts = rec[n].ts
    BY <1>2, <2>1, <2>2 DEF s
  <2>4. (IF IsMmio(e.type) THEN r.last_addr + e.arg ELSE e.arg) = rec[n].addr
    BY <1>2, <2>1, <2>2 DEF a
  <2> QED
    BY <2>2, <2>3, <2>4
<1> HIDE DEF e
<1>4. Decoded(r) = [type |-> e.type, ts |-> r.last_ts + e.dts,
                    addr |-> IF IsMmio(e.type) THEN r.last_addr + e.arg ELSE e.arg,
                    value |-> e.value]
  BY DEF Decoded, IsMmio, e
<1>5. Decoded(r) = [type |-> rec[n].type, ts |-> rec[n].ts, addr |-> rec[n].addr,
                    value |-> rec[n].value]
  BY <1>3, <1>4
<1> QED
  BY <1>1, <1>5 DEF EventSet

--------------------------------------------------------------------------------
(* Blocks, and what arrives of them.                                         *)

\* A payload holds the encodings of the events after the first n.
HoldsFrom(rec, n, payload) ==
    /\ payload \in Seq(EncodedSet)
    /\ n \in Nat /\ n + Len(payload) <= Len(rec)
    /\ \A i \in 1 .. Len(payload) : payload[i] = EncodedAt(rec, n + i)

\* A block holds its share.
Sound(cuts, blocks, rec, piece) ==
    /\ piece.seq \in 0 .. blocks - 1
    /\ cuts[piece.seq + 1] = cuts[piece.seq] + Len(piece.payload)
    /\ HoldsFrom(rec, cuts[piece.seq], piece.payload)

ArrivedSet ==
    {HeaderPiece, EndPiece}
        \cup [kind : {"block"}, seq : Nat, payload : Seq(EncodedSet),
              damage : {"none", "crc", "length", "zero"}]

\* Behind the header there are blocks, sound if undamaged, and terminators.
Arrives(cuts, blocks, rec, pieces) ==
    /\ pieces \in Seq(ArrivedSet)
    /\ \A k \in 2 .. Len(pieces) :
          /\ pieces[k].kind # "header"
          /\ pieces[k].kind = "block" /\ pieces[k].damage = "none"
                => Sound(cuts, blocks, rec, pieces[k])

\* Encodings stay what they are when an event is recorded behind them.
LEMMA HoldsOn ==
    ASSUME NEW rec \in Seq(EventSet), NEW ev \in EventSet, NEW n, NEW payload,
           HoldsFrom(rec, n, payload)
    PROVE  HoldsFrom(Append(rec, ev), n, payload)
<1>1. Len(Append(rec, ev)) = Len(rec) + 1
  OBVIOUS
<1>2. ASSUME NEW i \in 1 .. Len(payload)
      PROVE  payload[i] = EncodedAt(Append(rec, ev), n + i)
  <2>1. n + i \in 1 .. Len(rec) /\ payload[i] = EncodedAt(rec, n + i)
    BY DEF HoldsFrom
  <2> QED
    BY <2>1, EncodedBefore
<1> QED
  BY <1>1, <1>2 DEF HoldsFrom

--------------------------------------------------------------------------------
(* The reader.                                                               *)

ReadErrors == {"none", "trace shorter than its header", "gap in trace",
               "block sequence went backwards", "truncated block",
               "block CRC mismatch", "next() before open()"}

Readers ==
    [opened : BOOLEAN, done : BOOLEAN, err : ReadErrors, at : Nat,
     payload : Seq(EncodedSet), last_ts : Nat, last_addr : Nat,
     expect_seq : Nat, blocks_read : Nat, blocks_lost : Nat]

\* The reader has handed out what was recorded first, its payload is what comes
\* next, and the block it expects what comes after.
Reads(cuts, blocks, rec, r, out) ==
    /\ r \in Readers
    /\ r.opened => r.at >= 2
    /\ out \in Seq(EventSet) /\ Len(out) <= Len(rec)
    /\ \A i \in 1 .. Len(out) : out[i] = rec[i]
    /\ HoldsFrom(rec, Len(out), r.payload)
    /\ r.expect_seq \in 0 .. blocks
    /\ cuts[r.expect_seq] = Len(out) + Len(r.payload)
    /\ r.last_ts = TsAfter(rec, Len(out)) /\ r.last_addr = AddrAfter(rec, Len(out))

\* A reader that differs in nothing the events depend on.
SameReading(v, r) ==
    /\ v.opened = r.opened /\ v.at = r.at /\ v.payload = r.payload
    /\ v.expect_seq = r.expect_seq
    /\ v.last_ts = r.last_ts /\ v.last_addr = r.last_addr

\* Such a reader is as far on.
LEMMA SameReads ==
    ASSUME NEW cuts, NEW blocks, NEW rec, NEW r, NEW out,
           Reads(cuts, blocks, rec, r, out), NEW v \in Readers, SameReading(v, r)
    PROVE  Reads(cuts, blocks, rec, v, out)
<1>1. v.opened => v.at >= 2
  BY Zenon DEF Reads, SameReading
<1> QED
  BY <1>1, Zenon DEF Reads, SameReading

\* An error is latched and nothing else.
LEMMA FailedReader ==
    ASSUME NEW r \in Readers, NEW why \in ReadErrors, NEW v, v = RFail(r, why)
    PROVE  /\ v \in Readers /\ SameReading(v, r)
           /\ v.done = r.done /\ v.blocks_lost = r.blocks_lost
           /\ why # NoReadError => v.err # NoReadError
<1> DEFINE err == IF r.err = NoReadError THEN why ELSE r.err
<1>1. /\ err \in ReadErrors /\ RFail(r, why) = [r EXCEPT !.err = err]
      /\ why # NoReadError => err # NoReadError
  BY DEF Readers, RFail
<1> HIDE DEF err
<1> QED
  BY <1>1 DEF Readers, SameReading

\* Reading ends.
LEMMA DoneReader ==
    ASSUME NEW r \in Readers, NEW v, v = [r EXCEPT !.done = TRUE]
    PROVE  /\ v \in Readers /\ SameReading(v, r) /\ v.done = TRUE
           /\ v.err = r.err /\ v.blocks_lost = r.blocks_lost
BY DEF Readers, SameReading

\* Reading ends with an error.
LEMMA ClosedReader ==
    ASSUME NEW r \in Readers, NEW why \in ReadErrors, NEW v, v = Close(r, why)
    PROVE  /\ v \in Readers /\ SameReading(v, r) /\ v.done = TRUE
           /\ v.blocks_lost = r.blocks_lost
           /\ why # NoReadError => v.err # NoReadError
<1> DEFINE u == RFail(r, why)
<1>1. /\ u \in Readers /\ SameReading(u, r) /\ u.blocks_lost = r.blocks_lost
      /\ why # NoReadError => u.err # NoReadError
  BY FailedReader
<1>2. v = [u EXCEPT !.done = TRUE]
  BY DEF Close
<1> HIDE DEF u
<1>3. /\ v \in Readers /\ SameReading(v, u) /\ v.done = TRUE
      /\ v.err = u.err /\ v.blocks_lost = u.blocks_lost
  BY ONLY <1>1, <1>2, DoneReader
<1> QED
  BY <1>1, <1>3 DEF SameReading

\* Lost blocks are counted.
LEMMA GapReader ==
    ASSUME NEW r \in Readers, NEW n \in Nat, NEW v,
           v = [r EXCEPT !.blocks_lost = n]
    PROVE  /\ v \in Readers /\ SameReading(v, r) /\ v.done = r.done
           /\ v.err = r.err /\ v.blocks_lost = n
BY DEF Readers, SameReading

\* The block a reader takes.
Taken(r, seq, read, payload, at) ==
    [r EXCEPT !.expect_seq = seq, !.blocks_read = read, !.payload = payload, !.at = at]

IsTaken(v, r, seq, payload, at) ==
    /\ v \in Readers /\ v.opened = r.opened /\ v.at = at
    /\ v.payload = payload /\ v.expect_seq = seq
    /\ v.last_ts = r.last_ts /\ v.last_addr = r.last_addr
    /\ v.done = r.done /\ v.err = r.err /\ v.blocks_lost = r.blocks_lost

\* It is as it was but for these fields.
LEMMA TakenReader ==
    ASSUME NEW r \in Readers, NEW seq \in Nat, NEW read \in Nat,
           NEW payload \in Seq(EncodedSet), NEW at \in Nat,
           NEW v, v = Taken(r, seq, read, payload, at)
    PROVE  IsTaken(v, r, seq, payload, at)
BY DEF Taken, IsTaken, Readers

\* What loading a block does: the reader has stopped, or it goes on.
Loaded(cuts, blocks, rec, r, q, out) ==
    /\ Reads(cuts, blocks, rec, q, out)
    /\ \/ q.done = TRUE /\ q.payload = <<>>
       \/ q.done = r.done /\ q.err = r.err

\* A sound block: the next one is taken, any other ends the reading.
LEMMA TakeReads ==
    ASSUME NEW cuts, NEW blocks \in Nat, NEW rec, NEW r, NEW out,
           Reads(cuts, blocks, rec, r, out), r.payload = <<>>,
           NEW block, block.seq \in Nat, Sound(cuts, blocks, rec, block),
           NEW q, q = TakeBlock(r, block)
    PROVE  Loaded(cuts, blocks, rec, r, q, out)
<1>1. r \in Readers /\ r.expect_seq \in Nat
  BY DEF Reads, Readers
<1>2. "block sequence went backwards" \in ReadErrors /\ "gap in trace" \in ReadErrors
  BY DEF ReadErrors
<1>3. CASE block.seq < r.expect_seq
  <2>1. q = Close(r, "block sequence went backwards")
    BY <1>3 DEF TakeBlock
  <2>2. q \in Readers /\ SameReading(q, r) /\ q.done = TRUE
    BY ONLY <1>1, <1>2, <2>1, ClosedReader
  <2>3. Reads(cuts, blocks, rec, q, out)
    BY <2>2, SameReads
  <2> QED
    BY <2>2, <2>3 DEF SameReading, Loaded
<1>4. CASE block.seq > r.expect_seq
  <2> DEFINE u == Close(r, "gap in trace")
             n == block.seq - r.expect_seq
  <2>1. q = [u EXCEPT !.blocks_lost = n]
    <3>1. ~(block.seq < r.expect_seq)
      BY <1>1, <1>4
    <3> QED
      BY <1>4, <3>1, Zenon DEF TakeBlock
  <2>2. n \in Nat
    BY <1>1, <1>4
  <2>3. u \in Readers /\ SameReading(u, r) /\ u.done = TRUE
    <3> DEFINE w == u
    <3> HIDE DEF w
    <3>1. w = Close(r, "gap in trace")
      BY DEF w
    <3>2. w \in Readers /\ SameReading(w, r) /\ w.done = TRUE
      BY ONLY <1>1, <1>2, <3>1, ClosedReader
    <3> QED
      BY <3>2 DEF w
  <2> HIDE DEF u, n
  <2>4. q \in Readers /\ SameReading(q, u) /\ q.done = u.done
    BY ONLY <2>1, <2>2, <2>3, GapReader
  <2>5. SameReading(q, r) /\ q.done = TRUE
    BY <2>3, <2>4 DEF SameReading
  <2>6. Reads(cuts, blocks, rec, q, out)
    BY <2>4, <2>5, SameReads
  <2> QED
    BY <2>5, <2>6 DEF SameReading, Loaded
<1>5. CASE block.seq = r.expect_seq
  <2> DEFINE seq == block.seq
             payload == block.payload
             at == r.at + 1
             read == r.blocks_read + 1
             next == block.seq + 1
  <2>1. q = Taken(r, next, read, payload, at)
    <3>1. ~(block.seq < r.expect_seq) /\ ~(block.seq > r.expect_seq)
      BY <1>1, <1>5
    <3> QED
      BY <3>1, Zenon DEF TakeBlock, Taken
  <2>2. Len(<<>>) = 0
    OBVIOUS
  <2>3. /\ next \in Nat /\ read \in Nat /\ at \in Nat
        /\ payload \in Seq(EncodedSet)
    <3>1. r.at \in Nat /\ r.blocks_read \in Nat
      BY <1>1 DEF Readers
    <3>2. payload \in Seq(EncodedSet)
      BY DEF Sound, HoldsFrom
    <3>3. \A n \in Nat : n + 1 \in Nat
      OBVIOUS
    <3>4. next \in Nat
      OBVIOUS
    <3>5. read \in Nat
      BY <3>1, <3>3, Zenon
    <3>6. at \in Nat
      BY <3>1, <3>3, Zenon
    <3> QED
      BY <3>2, <3>4, <3>5, <3>6
  <2>4. next = seq + 1
    OBVIOUS
  <2> HIDE DEF seq, payload, at, read, next
  <2>5. r \in Readers
    BY <1>1
  <2>6. IsTaken(q, r, next, payload, at)
    BY ONLY <2>1, <2>3, <2>5, TakenReader
  <2>7. /\ q \in Readers /\ q.opened = r.opened /\ q.at = at
        /\ q.payload = payload /\ q.expect_seq = next
        /\ q.last_ts = r.last_ts /\ q.last_addr = r.last_addr
        /\ q.done = r.done /\ q.err = r.err
    BY <2>6, Zenon DEF IsTaken
  <2>8. q.opened => q.at >= 2
    <3>1. r.at \in Nat /\ (r.opened => r.at >= 2)
      BY DEF Reads, Readers
    <3>2. r.opened => at >= 2
      BY <3>1 DEF at
    <3> QED
      BY <2>7, <3>2, Zenon
  <2>9. cuts[seq] = Len(out)
    <3>1. cuts[r.expect_seq] = Len(out) + 0 /\ Len(out) \in Nat
      BY <2>2 DEF Reads
    <3> QED
      BY <1>5, <3>1 DEF seq
  <2>10. /\ seq \in 0 .. blocks - 1
        /\ cuts[seq + 1] = cuts[seq] + Len(payload)
        /\ HoldsFrom(rec, cuts[seq], payload)
    BY DEF Sound, seq, payload
  <2>11. q.expect_seq \in 0 .. blocks
    BY <2>7, <2>10, <2>4
  <2>12. HoldsFrom(rec, Len(out), q.payload)
    BY <2>7, <2>9, <2>10
  <2>13. cuts[q.expect_seq] = Len(out) + Len(q.payload)
    BY <2>7, <2>9, <2>10, <2>4
  <2>14. Reads(cuts, blocks, rec, q, out)
    BY <2>7, <2>8, <2>11, <2>12, <2>13, Zenon DEF Reads
  <2> QED
    BY <2>7, <2>14 DEF Loaded
<1>6. block.seq < r.expect_seq \/ block.seq > r.expect_seq \/ block.seq = r.expect_seq
  BY <1>1
<1> QED
  BY <1>3, <1>4, <1>5, <1>6, Zenon

\* The next block, or the end of the trace.
LEMMA LoadReads ==
    ASSUME NEW cuts, NEW blocks \in Nat, NEW rec, NEW r, NEW out,
           Reads(cuts, blocks, rec, r, out), r.payload = <<>>, r.opened,
           NEW m, Arrives(cuts, blocks, rec, m.pieces),
           NEW q, q = LoadNextBlock(r, m)
    PROVE  Loaded(cuts, blocks, rec, r, q, out)
<1>1. r \in Readers /\ r.at \in Nat /\ r.at >= 2
  BY DEF Reads, Readers
<1>2. "truncated block" \in ReadErrors /\ "block CRC mismatch" \in ReadErrors
  BY DEF ReadErrors
<1>3. ASSUME q = [r EXCEPT !.done = TRUE]
      PROVE  Loaded(cuts, blocks, rec, r, q, out)
  <2>1. q \in Readers /\ SameReading(q, r) /\ q.done = TRUE
    BY ONLY <1>1, <1>3, DoneReader
  <2>2. Reads(cuts, blocks, rec, q, out)
    BY <2>1, SameReads
  <2> QED
    BY <2>1, <2>2 DEF SameReading, Loaded
<1>4. ASSUME NEW why \in ReadErrors, q = Close(r, why)
      PROVE  Loaded(cuts, blocks, rec, r, q, out)
  <2>1. q \in Readers /\ SameReading(q, r) /\ q.done = TRUE
    BY ONLY <1>1, <1>4, ClosedReader
  <2>2. Reads(cuts, blocks, rec, q, out)
    BY <2>1, SameReads
  <2> QED
    BY <2>1, <2>2 DEF SameReading, Loaded
<1>5. CASE r.at > Len(m.pieces)
  <2>1. q = Close(r, "truncated block") \/ q = [r EXCEPT !.done = TRUE]
    BY <1>5, Zenon DEF LoadNextBlock
  <2> QED
    BY <1>2, <1>3, <1>4, <2>1
<1>6. CASE ~(r.at > Len(m.pieces))
  <2> DEFINE piece == m.pieces[r.at]
  <2>1. Len(m.pieces) \in Nat /\ m.pieces \in Seq(ArrivedSet)
    BY DEF Arrives
  <2>2. r.at \in 2 .. Len(m.pieces)
    BY ONLY <1>1, <1>6, <2>1
  <2>3. piece \in ArrivedSet
    BY ONLY <2>1, <2>2
  <2>4. /\ piece.kind # "header"
        /\ piece.kind = "block" /\ piece.damage = "none"
              => Sound(cuts, blocks, rec, piece)
    BY <2>2 DEF Arrives
  <2>5. q = CASE piece.kind = "end"           -> [r EXCEPT !.done = TRUE]
              [] piece.kind = "block" /\ piece.damage = "zero" ->
                     [r EXCEPT !.done = TRUE]
              [] piece.kind = "block" /\ piece.damage \in {"crc", "length"} ->
                     Close(r, "block CRC mismatch")
              [] OTHER                        -> TakeBlock(r, piece)
    BY <1>6, Zenon DEF LoadNextBlock
  <2> HIDE DEF piece
  <2>6. \/ piece.kind = "end"
        \/ /\ piece.kind = "block" /\ piece.seq \in Nat
           /\ piece.damage \in {"none", "crc", "length", "zero"}
    BY <2>3, <2>4 DEF ArrivedSet, HeaderPiece, EndPiece
  <2>7. \/ q = [r EXCEPT !.done = TRUE]
        \/ q = Close(r, "block CRC mismatch")
        \/ /\ q = TakeBlock(r, piece) /\ piece.kind = "block" /\ piece.seq \in Nat
           /\ piece.damage = "none"
    <3>1. CASE piece.kind = "end"
      BY <2>5, <3>1
    <3>2. CASE piece.kind = "block" /\ piece.damage = "zero"
      BY <2>5, <3>2
    <3>3. CASE piece.kind = "block" /\ piece.damage \in {"crc", "length"}
      BY <2>5, <3>3
    <3>4. CASE piece.kind = "block" /\ piece.seq \in Nat /\ piece.damage = "none"
      BY <2>5, <3>4
    <3> QED
      BY <2>6, <3>1, <3>2, <3>3, <3>4
  <2>8. CASE q = TakeBlock(r, piece) /\ piece.kind = "block" /\ piece.seq \in Nat
             /\ piece.damage = "none"
    <3>1. Sound(cuts, blocks, rec, piece) /\ piece.seq \in Nat /\ q = TakeBlock(r, piece)
      BY <2>4, <2>8
    <3> QED
      BY <3>1, TakeReads
  <2> QED
    <3>1. CASE q = [r EXCEPT !.done = TRUE]
      BY <1>3, <3>1, Zenon
    <3>2. CASE q = Close(r, "block CRC mismatch")
      BY <1>2, <1>4, <3>2, Zenon
    <3> QED
      BY <2>7, <2>8, <3>1, <3>2, Zenon
<1> QED
  BY <1>5, <1>6, Zenon

\* A reader one event on.
Past(r, payload, ts, addr) ==
    [r EXCEPT !.payload = payload, !.last_ts = ts, !.last_addr = addr]

IsPast(v, r, payload, ts, addr) ==
    /\ v \in Readers /\ v.opened = r.opened /\ v.at = r.at
    /\ v.payload = payload /\ v.expect_seq = r.expect_seq
    /\ v.last_ts = ts /\ v.last_addr = addr
    /\ v.done = r.done /\ v.err = r.err /\ v.blocks_lost = r.blocks_lost

\* It is as it was but for these fields.
LEMMA PastReader ==
    ASSUME NEW r \in Readers, NEW payload \in Seq(EncodedSet), NEW ts \in Nat,
           NEW addr \in Nat, NEW v, v = Past(r, payload, ts, addr)
    PROVE  IsPast(v, r, payload, ts, addr)
BY DEF Past, IsPast, Readers

Passed(cuts, blocks, rec, r, out) ==
    /\ Len(out) < Len(rec) /\ Decoded(r) = rec[Len(out) + 1]
    /\ Reads(cuts, blocks, rec, PastEvent(r), Append(out, Decoded(r)))
    /\ PastEvent(r).done = r.done /\ PastEvent(r).err = r.err

\* The event handed out is the next one that was recorded.
LEMMA PastReads ==
    ASSUME NEW cuts, NEW blocks \in Nat, NEW rec \in Seq(EventSet),
           NEW r, NEW out, Reads(cuts, blocks, rec, r, out), r.payload # <<>>
    PROVE  Passed(cuts, blocks, rec, r, out)
<1> DEFINE n == Len(out) + 1
           payload == Tail(r.payload)
           ev == rec[n]
           addr == IF ev.type \in {"read", "write"} THEN ev.addr ELSE r.last_addr
           q == PastEvent(r)
           ts == ev.ts
<1>1. r \in Readers /\ r.payload \in Seq(EncodedSet) /\ r.last_addr \in Nat
  BY DEF Reads, Readers
<1>2. /\ Len(out) \in Nat /\ Len(rec) \in Nat /\ Len(r.payload) \in Nat
      /\ out \in Seq(EventSet) /\ Len(r.payload) > 0
      /\ Len(out) + Len(r.payload) <= Len(rec)
      /\ \A i \in 1 .. Len(r.payload) : r.payload[i] = EncodedAt(rec, Len(out) + i)
  <2> DEFINE p == r.payload
  <2>1. /\ out \in Seq(EventSet) /\ p \in Seq(EncodedSet) /\ p # <<>>
        /\ rec \in Seq(EventSet)
    BY <1>1 DEF Reads
  <2>2. /\ Len(out) + Len(p) <= Len(rec)
        /\ \A i \in 1 .. Len(p) : p[i] = EncodedAt(rec, Len(out) + i)
    BY DEF Reads, HoldsFrom
  <2> HIDE DEF p
  <2>3. Len(out) \in Nat /\ Len(rec) \in Nat /\ Len(p) \in Nat /\ Len(p) > 0
    BY ONLY <2>1
  <2> QED
    BY <2>1, <2>2, <2>3, Zenon DEF p
<1>3. n \in 1 .. Len(rec) /\ Len(out) < Len(rec) /\ n - 1 = Len(out) /\ n \in Nat
      /\ n > 0
  <2>1. Len(out) \in Nat /\ Len(rec) \in Nat /\ Len(r.payload) \in Nat
        /\ Len(r.payload) > 0 /\ Len(out) + Len(r.payload) <= Len(rec)
    BY <1>2, Zenon
  <2> QED
    BY ONLY <2>1 DEF n
<1>4. rec \in Seq(EventSet) /\ ev \in EventSet
  <2>1. rec \in Seq(EventSet)
    OBVIOUS
  <2> HIDE DEF n
  <2> QED
    BY ONLY <1>3, <2>1
<1>5. ts \in Nat /\ addr \in Nat
  BY <1>1, <1>4 DEF EventSet
<1>6. /\ payload \in Seq(EncodedSet) /\ Len(payload) = Len(r.payload) - 1
      /\ \A i \in 1 .. Len(payload) : payload[i] = r.payload[i + 1]
      /\ Head(r.payload) = r.payload[1]
  <2> DEFINE p == r.payload
  <2>1. p \in Seq(EncodedSet) /\ p # <<>>
    BY <1>1
  <2> HIDE DEF p
  <2>2. Tail(p) \in Seq(EncodedSet) /\ Len(Tail(p)) = Len(p) - 1 /\ Head(p) = p[1]
        /\ \A i \in 1 .. Len(Tail(p)) : Tail(p)[i] = p[i + 1]
    BY ONLY <2>1
  <2> QED
    BY <2>2, Zenon DEF p
<1>7. Decoded(r) = ev
  <2>1. Head(r.payload) = EncodedAt(rec, n)
    <3>1. 1 \in 1 .. Len(r.payload)
      <4>1. Len(r.payload) \in Nat /\ Len(r.payload) > 0
        BY <1>2, Zenon
      <4> QED
        BY ONLY <4>1
    <3> QED
      BY <1>2, <1>6, <3>1, Zenon
  <2>2. r.last_ts = TsAfter(rec, n - 1) /\ r.last_addr = AddrAfter(rec, n - 1)
    BY <1>3 DEF Reads
  <2> HIDE DEF n
  <2> QED
    BY <1>3, <1>4, <2>1, <2>2, DecodesBack
<1>8. q = Past(r, payload, ts, addr)
  BY <1>7, Zenon DEF PastEvent, Past
<1> HIDE DEF q, payload, ts, addr
<1>9. IsPast(q, r, payload, ts, addr)
  <2>1. r \in Readers
    BY <1>1
  <2>2. payload \in Seq(EncodedSet)
    BY <1>6
  <2> QED
    BY ONLY <1>5, <1>8, <2>1, <2>2, PastReader
<1>10. ts = TsAfter(rec, n) /\ addr = AddrAfter(rec, n)
  <2>1. ts = TsAfter(rec, n)
    BY <1>3 DEF TsAfter, ts
  <2>2. AddrAfter(rec, n) = IF IsMmio(ev.type) THEN ev.addr ELSE AddrAfter(rec, n - 1)
    <3> HIDE DEF n
    <3> QED
      BY <1>3, AddrStep, Zenon
  <2>3. AddrAfter(rec, n - 1) = r.last_addr
    BY <1>3 DEF Reads
  <2> QED
    BY <2>1, <2>2, <2>3, Zenon DEF IsMmio, addr
<1> DEFINE more == Append(out, ev)
<1>11. /\ more \in Seq(EventSet) /\ Len(more) = n
       /\ \A i \in 1 .. n : more[i] = rec[i]
  <2>1. \A i \in 1 .. Len(out) : out[i] = rec[i]
    BY DEF Reads
  <2>2. out \in Seq(EventSet) /\ ev \in EventSet /\ n = Len(out) + 1
    BY <1>2, <1>4, Zenon
  <2>3. ev = rec[n]
    OBVIOUS
  <2> HIDE DEF ev, n
  <2> QED
    BY ONLY <2>1, <2>2, <2>3 DEF more
<1> HIDE DEF more
<1>12. /\ Len(out) \in Nat /\ Len(rec) \in Nat /\ Len(r.payload) \in Nat
       /\ Len(out) + Len(r.payload) <= Len(rec)
       /\ Len(payload) = Len(r.payload) - 1 /\ n = Len(out) + 1
  BY <1>2, <1>6, Zenon
<1>13. n + Len(payload) = Len(out) + Len(r.payload)
  <2>1. \A a, b \in Nat : (a + 1) + (b - 1) = a + b
    OBVIOUS
  <2>2. (Len(out) + 1) + (Len(r.payload) - 1) = Len(out) + Len(r.payload)
    BY <1>12, <2>1, Zenon
  <2> QED
    BY <1>12, <2>2, Zenon
<1>14. HoldsFrom(rec, n, payload)
  <2>1. n \in Nat /\ n + Len(payload) <= Len(rec)
    BY <1>3, <1>12, <1>13, Zenon
  <2>2. ASSUME NEW i \in 1 .. Len(payload)
        PROVE  payload[i] = EncodedAt(rec, n + i)
    <3>1. i + 1 \in 1 .. Len(r.payload) /\ Len(out) + (i + 1) = n + i
      BY ONLY <1>12, <2>2
    <3>2. r.payload[i + 1] = EncodedAt(rec, Len(out) + (i + 1))
      BY <1>2, <3>1
    <3> QED
      BY <1>6, <3>1, <3>2
  <2> QED
    BY <1>6, <2>1, <2>2 DEF HoldsFrom
<1>15. cuts[r.expect_seq] = n + Len(payload)
  <2>1. cuts[r.expect_seq] = Len(out) + Len(r.payload)
    BY DEF Reads
  <2> QED
    BY <1>13, <2>1, Zenon
<1>16. Reads(cuts, blocks, rec, q, more)
  <2>1. n <= Len(rec)
    BY <1>3
  <2>2. q.opened => q.at >= 2
    BY <1>9, Zenon DEF Reads, IsPast
  <2> HIDE DEF n
  <2> QED
    BY <1>9, <1>10, <1>11, <1>14, <1>15, <2>1, <2>2, Zenon DEF Reads, IsPast
<1> QED
  BY <1>3, <1>7, <1>9, <1>16, Zenon DEF IsPast, Passed, q, more

\* What a call of next may answer: nothing, or the event that comes next.
Answered(cuts, blocks, rec, r, out, n) ==
    \/ n.out = <<>> /\ Reads(cuts, blocks, rec, n.r, out)
    \/ /\ Len(out) < Len(rec) /\ n.out = <<rec[Len(out) + 1]>>
       /\ Reads(cuts, blocks, rec, n.r, Append(out, rec[Len(out) + 1]))
       /\ n.r.done = r.done /\ n.r.err = r.err

\* It answers so.
LEMMA NextReads ==
    ASSUME NEW cuts, NEW blocks \in Nat, NEW rec \in Seq(EventSet), NEW r, NEW out,
           Reads(cuts, blocks, rec, r, out), ~r.done, r.err = NoReadError,
           NEW m, Arrives(cuts, blocks, rec, m.pieces),
           NEW n, n = NextEvent(r, m)
    PROVE  Answered(cuts, blocks, rec, r, out, n)
<1>1. r \in Readers
  BY DEF Reads
<1>2. CASE ~r.opened
  <2> DEFINE q == RFail(r, "next() before open()")
  <2>1. n = [r |-> q, out |-> <<>>]
    BY <1>2, Zenon DEF NextEvent
  <2>2. "next() before open()" \in ReadErrors
    BY DEF ReadErrors
  <2>3. \A v : v = q => v \in Readers /\ SameReading(v, r)
    BY <1>1, <2>2, FailedReader
  <2> HIDE DEF q
  <2>4. Reads(cuts, blocks, rec, q, out)
    BY <2>3, SameReads
  <2>5. n.r = q /\ n.out = <<>>
    BY <2>1
  <2> QED
    BY <2>4, <2>5, Zenon DEF Answered
<1>3. CASE r.opened
  <2> DEFINE q == IF r.payload = <<>> THEN LoadNextBlock(r, m) ELSE r
  <2>1. n = IF q.payload = <<>> THEN [r |-> q, out |-> <<>>]
            ELSE [r |-> PastEvent(q), out |-> <<Decoded(q)>>]
    BY <1>3, Zenon DEF NextEvent
  <2>2. Loaded(cuts, blocks, rec, r, q, out)
    <3>1. CASE r.payload = <<>>
      <4>1. q = LoadNextBlock(r, m)
        BY <3>1
      <4> HIDE DEF q
      <4> QED
        BY <1>3, <3>1, <4>1, LoadReads
    <3>2. CASE r.payload # <<>>
      <4>1. q = r
        BY <3>2
      <4> HIDE DEF q
      <4> QED
        BY <4>1, Zenon DEF Loaded
    <3> QED
      BY <3>1, <3>2
  <2> HIDE DEF q
  <2>3. CASE q.payload = <<>>
    <3>1. n.r = q /\ n.out = <<>>
      BY <2>1, <2>3
    <3> QED
      BY <2>2, <3>1, Zenon DEF Answered, Loaded
  <2>4. CASE q.payload # <<>>
    <3>1. n.r = PastEvent(q) /\ n.out = <<Decoded(q)>>
      BY <2>1, <2>4
    <3>2. Reads(cuts, blocks, rec, q, out) /\ q.done = r.done /\ q.err = r.err
      BY <2>2, <2>4, Zenon DEF Loaded
    <3>3. /\ Len(out) < Len(rec) /\ Decoded(q) = rec[Len(out) + 1]
          /\ Reads(cuts, blocks, rec, PastEvent(q), Append(out, Decoded(q)))
          /\ PastEvent(q).done = q.done /\ PastEvent(q).err = q.err
      <4>1. Passed(cuts, blocks, rec, q, out)
        BY <2>4, <3>2, PastReads
      <4> QED
        BY <4>1 DEF Passed
    <3> QED
      BY <3>1, <3>2, <3>3, Zenon DEF Answered
  <2> QED
    BY <2>3, <2>4
<1> QED
  BY <1>2, <1>3

\* A reader behind a header.
Opened(f, at) == [f EXCEPT !.opened = TRUE, !.at = at]

IsOpened(v, f, at) ==
    /\ v \in Readers /\ v.at = at /\ v.payload = f.payload
    /\ v.expect_seq = f.expect_seq /\ v.blocks_lost = f.blocks_lost
    /\ v.done = f.done
    /\ v.last_ts = f.last_ts /\ v.last_addr = f.last_addr

\* It is as it was but for these fields.
LEMMA OpenedReader ==
    ASSUME NEW f \in Readers, NEW at \in Nat, NEW v, v = Opened(f, at)
    PROVE  IsOpened(v, f, at)
BY DEF Opened, IsOpened, Readers

\* A reader that has been opened has read nothing.
LEMMA OpenReads ==
    ASSUME NEW cuts, cuts[0] = 0, NEW blocks \in Nat, NEW rec \in Seq(EventSet),
           NEW m, NEW r, r = Open(m)
    PROVE  Reads(cuts, blocks, rec, r, <<>>)
<1>1. "trace shorter than its header" \in ReadErrors /\ NoReadError \in ReadErrors
  BY DEF ReadErrors, NoReadError
<1>2. /\ NewReader \in Readers /\ NewReader.opened = FALSE
      /\ NewReader.payload = <<>> /\ NewReader.expect_seq = 0
      /\ NewReader.last_ts = 0 /\ NewReader.last_addr = 0
  <2>1. <<>> \in Seq(EncodedSet)
    OBVIOUS
  <2>2. NewReader \in Readers
    BY <1>1, <2>1 DEF NewReader, Readers
  <2>3. /\ NewReader.opened = FALSE
        /\ NewReader.payload = <<>> /\ NewReader.expect_seq = 0
        /\ NewReader.last_ts = 0 /\ NewReader.last_addr = 0
    BY DEF NewReader
  <2> QED
    BY <2>2, <2>3
<1>3. /\ r \in Readers /\ (r.opened => r.at >= 2) /\ r.payload = <<>>
      /\ r.expect_seq = 0 /\ r.last_ts = 0 /\ r.last_addr = 0
  <2>1. CASE m.pieces = <<>>
    <3>1. r = RFail(NewReader, "trace shorter than its header")
      BY <2>1 DEF Open
    <3>2. r \in Readers /\ SameReading(r, NewReader)
      BY <1>1, <1>2, <3>1, FailedReader
    <3> QED
      BY <1>2, <3>2, Zenon DEF SameReading
  <2>2. CASE m.pieces # <<>>
    <3>1. r = Opened(NewReader, 2)
      BY <2>2 DEF Open, Opened
    <3>2. IsOpened(r, NewReader, 2)
      BY <1>2, <3>1, OpenedReader
    <3>3. /\ r \in Readers /\ r.at = 2 /\ r.payload = <<>> /\ r.expect_seq = 0
          /\ r.last_ts = 0 /\ r.last_addr = 0
      BY <1>2, <3>2, Zenon DEF IsOpened
    <3>4. r.at >= 2
      BY <3>3
    <3> QED
      BY <3>3, <3>4, Zenon
  <2> QED
    BY <2>1, <2>2
<1>4. HoldsFrom(rec, 0, <<>>)
  BY DEF HoldsFrom
<1>5. Len(<<>>) = 0 /\ 0 <= Len(rec) /\ <<>> \in Seq(EventSet) /\ 0 \in 0 .. blocks
      /\ 0 = 0 + 0 /\ \A i \in 1 .. 0 : <<>>[i] = rec[i]
  OBVIOUS
<1>6. TsAfter(rec, 0) = 0 /\ AddrAfter(rec, 0) = 0
  BY AddrZero DEF TsAfter
<1> QED
  BY <1>3, <1>4, <1>5, <1>6, Zenon DEF Reads
================================================================================
