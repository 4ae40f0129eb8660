--------------------------- MODULE TraceStreamProofs ---------------------------
(****************************************************************************)
(* A trace on its way, for every sink that takes a piece or refuses it, any *)
(* number of events of any kind and length, every block size and everything *)
(* the link of TraceStream does to it: what the reader hands out is a       *)
(* prefix of what was recorded.                                             *)
(*                                                                          *)
(* What the encodings and the reader have to do with one another is in      *)
(* TraceProofs; what is said here is of the writer and of the link.  The    *)
(* cuts say after how many events each block number starts; they are not    *)
(* kept anywhere in the program, so the invariant says that there are some  *)
(* (Kept): every block sent, and the pending one, holds the encodings of    *)
(* its share, whether the blocks around it were taken or not.  A reader     *)
(* that takes block numbers without a gap is then always at an event whose  *)
(* predecessor it has read (Reads), so that its deltas decode.              *)
(*                                                                          *)
(* The numbers of the blocks, for the same sinks and the same link: where   *)
(* the reader reports a gap, its blocks were refused by the sink and the    *)
(* next one was taken, and a loss that shows in no error of the reader has  *)
(* been counted, or has latched an error, in the writer.                    *)
(****************************************************************************)
EXTENDS TraceStream, TraceProofs

\* The sink of Spec: it has taken the piece, or nothing has changed.
TakesOrRefuses == \A s, p : Offer(s, p) \subseteq AnySink(s, p)

--------------------------------------------------------------------------------
(* The writer and what it has sent.                                          *)

\* The calls and the stop event are events.
LEMMA CallsAreEvents == AllCalls \subseteq EventSet
<1>1. Calls \subseteq EventSet
  BY CallsAssumption DEF EventSet
<1>2. \A ts \in StopTimes : StopEvent(ts) \in EventSet
  BY CallsAssumption DEF EventSet, StopEvent
<1> QED
  BY <1>1, <1>2 DEF AllCalls

Errors == {"none", "begin() called twice", "bad arguments", "sink rejected data",
           "non-monotonic timestamp"}

Writers ==
    [started : BOOLEAN, finished : BOOLEAN, ok : BOOLEAN, err : Errors,
     staged : Seq(EncodedSet), used : Nat, last_ts : Nat, last_addr : Nat,
     block_seq : Nat, blocks_lost : Nat, events : Nat]

\* The writer's fields agree with one another and with the recording.
Counted(w, rec) ==
    /\ w \in Writers /\ rec \in Seq(AllCalls)
    /\ w.used <= PayloadCap /\ (w.used = 0 <=> w.staged = <<>>)
    /\ w.blocks_lost <= w.block_seq
    /\ w.events = Len(rec)
    /\ w.last_ts = TsAfter(rec, Len(rec)) /\ w.last_addr = AddrAfter(rec, Len(rec))
    /\ \A k \in 1 .. Len(rec) - 1 : rec[k].ts <= rec[k + 1].ts

PieceSet == {HeaderPiece, EndPiece}
              \cup [kind : {"block"}, seq : Nat, payload : Seq(EncodedSet)]

\* What was sent: the header first, sound blocks, the terminator.
Sent(cuts, blocks, rec, sink) ==
    /\ sink \in Seq(PieceSet)
    /\ \A k \in 1 .. Len(sink) :
          /\ sink[k].kind = "header" <=> k = 1
          /\ sink[k].kind = "block" => Sound(cuts, blocks, rec, sink[k])

Kept(cuts, w, sink, rec) ==
    /\ Counted(w, rec)
    /\ cuts \in [Nat -> Nat] /\ cuts[0] = 0
    /\ HoldsFrom(rec, cuts[w.block_seq], w.staged)
    /\ cuts[w.block_seq] + Len(w.staged) = Len(rec)
    /\ Sent(cuts, w.block_seq, rec, sink)
    /\ w.ok => sink # <<>> /\ w.started
    /\ ~w.started => sink = <<>> /\ rec = <<>>

\* An event goes behind the staged ones.
LEMMA StagedKept ==
    ASSUME NEW cuts, NEW w, NEW sink, NEW rec, Kept(cuts, w, sink, rec),
           w.ok, NEW ev \in AllCalls, w.last_ts <= ev.ts, NEW v \in Writers,
           v.staged = Append(w.staged, EncodedAt(Append(rec, ev), Len(rec) + 1)),
           v.used > 0, v.used <= PayloadCap, v.events = w.events + 1,
           v.last_ts = ev.ts,
           v.last_addr = IF IsMmio(ev.type) THEN ev.addr ELSE w.last_addr,
           v.block_seq = w.block_seq, v.blocks_lost = w.blocks_lost,
           v.started = w.started
    PROVE  Kept(cuts, v, sink, Append(rec, ev))
<1> DEFINE all == Append(rec, ev)
           e == EncodedAt(all, Len(rec) + 1)
<1>1. /\ rec \in Seq(AllCalls) /\ rec \in Seq(EventSet) /\ ev \in EventSet
      /\ all \in Seq(AllCalls) /\ all \in Seq(EventSet)
  BY CallsAreEvents DEF Kept, Counted
<1>2. /\ Len(all) = Len(rec) + 1 /\ Len(rec) \in Nat /\ all[Len(rec) + 1] = ev
      /\ \A k \in 1 .. Len(rec) : all[k] = rec[k]
  BY <1>1
<1>3. e \in EncodedSet
  <2> HIDE DEF all
  <2>1. Len(rec) + 1 \in 1 .. Len(all)
    BY <1>2
  <2> QED
    BY <1>1, <2>1, EncodedType
<1>4. w.staged \in Seq(EncodedSet) /\ w \in Writers /\ w.block_seq \in Nat
  BY DEF Kept, Counted, Writers
<1>5. /\ v.staged # <<>> /\ Len(v.staged) = Len(w.staged) + 1
      /\ v.staged \in Seq(EncodedSet) /\ v.staged[Len(w.staged) + 1] = e
      /\ \A i \in 1 .. Len(w.staged) : v.staged[i] = w.staged[i]
      /\ Len(w.staged) \in Nat
  BY <1>3, <1>4
<1> HIDE DEF all, e
<1>6. Counted(v, all)
  <2>1. v.last_ts = TsAfter(all, Len(all))
    BY <1>2 DEF TsAfter
  <2>2. v.last_addr = AddrAfter(all, Len(all))
    <3>1. AddrAfter(all, Len(rec)) = AddrAfter(rec, Len(rec))
      BY <1>1, <1>2, EncodedBefore DEF all
    <3>2. w.last_addr = AddrAfter(rec, Len(rec))
      BY DEF Kept, Counted
    <3>3. /\ AddrAfter(all, Len(all))
              = IF IsMmio(ev.type) THEN ev.addr ELSE AddrAfter(all, Len(all) - 1)
          /\ Len(all) - 1 = Len(rec)
      BY <1>2, AddrStep
    <3> QED
      BY <3>1, <3>2, <3>3
  <2>3. ASSUME NEW k \in 1 .. Len(all) - 1 PROVE all[k].ts <= all[k + 1].ts
    <3>1. CASE k = Len(rec)
      <4>1. w.last_ts = rec[k].ts
        BY <1>2, <3>1 DEF Kept, Counted, TsAfter
      <4> QED
        BY <1>2, <3>1, <4>1
    <3>2. CASE k # Len(rec)
      <4>1. k \in 1 .. Len(rec) - 1 /\ k + 1 \in 1 .. Len(rec)
        BY <1>2, <3>2
      <4>2. rec[k].ts <= rec[k + 1].ts
        BY <4>1 DEF Kept, Counted
      <4> QED
        BY <1>2, <4>1, <4>2
    <3> QED
      BY <3>1, <3>2
  <2>4. v.events = Len(all) /\ v.blocks_lost <= v.block_seq
    BY <1>2 DEF Kept, Counted
  <2>5. v.used # 0
    BY DEF Writers
  <2> QED
    BY <1>1, <1>5, <2>1, <2>2, <2>3, <2>4, <2>5 DEF Counted
<1>7. HoldsFrom(rec, cuts[w.block_seq], w.staged)
      /\ cuts[w.block_seq] + Len(w.staged) = Len(rec) /\ cuts[w.block_seq] \in Nat
  BY <1>4 DEF Kept
<1>8. HoldsFrom(all, cuts[v.block_seq], v.staged)
      /\ cuts[v.block_seq] + Len(v.staged) = Len(all)
  <2>1. HoldsFrom(all, cuts[w.block_seq], w.staged)
    BY <1>1, <1>7, HoldsOn DEF all
  <2>2. e = EncodedAt(all, Len(rec) + 1)
    BY DEF e
  <2>3. cuts[v.block_seq] + Len(v.staged) = Len(all)
    BY <1>2, <1>5, <1>7, SMTT(60)
  <2>4. ASSUME NEW i \in 1 .. Len(v.staged)
        PROVE  v.staged[i] = EncodedAt(all, cuts[v.block_seq] + i)
    <3>1. CASE i \in 1 .. Len(w.staged)
      BY <1>5, <2>1, <3>1 DEF HoldsFrom
    <3>2. CASE i = Len(w.staged) + 1
      <4>1. cuts[v.block_seq] + i = Len(rec) + 1
        BY <1>7, <1>5, <3>2, SMTT(60)
      <4> QED
        BY <1>5, <2>2, <3>2, <4>1
    <3> QED
      BY <1>5, <3>1, <3>2
  <2> QED
    BY <1>2, <1>5, <1>7, <2>3, <2>4, SMTT(60) DEF HoldsFrom
<1>9. Sent(cuts, v.block_seq, all, sink)
  <2>1. Sent(cuts, w.block_seq, rec, sink)
    BY DEF Kept
  <2>2. \A k \in 1 .. Len(sink) : Sound(cuts, w.block_seq, rec, sink[k])
                                 => Sound(cuts, w.block_seq, all, sink[k])
    BY <1>1, HoldsOn DEF Sound, all
  <2> QED
    BY <2>1, <2>2 DEF Sent
<1>10. v.started /\ sink # <<>>
  BY DEF Kept
<1> QED
  BY <1>6, <1>8, <1>9, <1>10 DEF Kept, all

\* A piece that is not the header and, if a block, sound, follows what was sent.
LEMMA SentOn ==
    ASSUME NEW cuts, NEW blocks, NEW rec, NEW sink, Sent(cuts, blocks, rec, sink),
           sink # <<>>, NEW piece \in PieceSet, piece.kind # "header",
           piece.kind = "block" => Sound(cuts, blocks, rec, piece)
    PROVE  Sent(cuts, blocks, rec, Append(sink, piece))
<1> DEFINE all == Append(sink, piece)
<1>1. sink \in Seq(PieceSet) /\ Len(sink) \in Nat /\ Len(sink) # 0
  BY DEF Sent
<1>2. /\ all \in Seq(PieceSet) /\ Len(all) = Len(sink) + 1
      /\ all[Len(sink) + 1] = piece
      /\ \A k \in 1 .. Len(sink) : all[k] = sink[k]
  BY <1>1
<1> HIDE DEF all
<1>3. ASSUME NEW k \in 1 .. Len(all)
      PROVE  /\ all[k].kind = "header" <=> k = 1
             /\ all[k].kind = "block" => Sound(cuts, blocks, rec, all[k])
  <2>1. CASE k \in 1 .. Len(sink)
    BY <1>2, <2>1 DEF Sent
  <2>2. CASE k = Len(sink) + 1
    BY <1>1, <1>2, <2>2
  <2> QED
    BY <1>1, <1>2, <2>1, <2>2
<1> QED
  BY <1>2, <1>3 DEF Sent, all

\* A sink answers in one of two ways.
LEMMA OfferIs ==
    ASSUME TakesOrRefuses, NEW sink, NEW piece, NEW p \in Offer(sink, piece)
    PROVE  \/ p.taken = TRUE /\ p.sink = Append(sink, piece)
           \/ p.taken = FALSE /\ p.sink = sink
<1>1. p \in AnySink(sink, piece)
  BY DEF TakesOrRefuses
<1> QED
  BY <1>1 DEF AnySink

IsFailed(v, w) ==
    /\ v \in Writers /\ v.ok = FALSE /\ v.events = w.events
    /\ v.used = w.used /\ v.staged = w.staged
    /\ v.blocks_lost = w.blocks_lost /\ v.block_seq = w.block_seq
    /\ v.last_ts = w.last_ts /\ v.last_addr = w.last_addr
    /\ v.started = w.started /\ v.finished = w.finished

\* A writer that fails is as it was but for ok and err.
LEMMA FailedWriter ==
    ASSUME NEW w \in Writers, NEW why \in Errors, NEW v, v = WFail(w, why)
    PROVE  IsFailed(v, w)
<1> DEFINE err == IF w.err = NoError THEN why ELSE w.err
<1>1. err \in Errors /\ WFail(w, why) = [w EXCEPT !.ok = FALSE, !.err = err]
  BY DEF Writers, WFail
<1> HIDE DEF err
<1>2. ASSUME NEW ok \in BOOLEAN, NEW u, u = [w EXCEPT !.ok = ok, !.err = err]
      PROVE  /\ u \in Writers /\ u.ok = ok /\ u.events = w.events
             /\ u.used = w.used /\ u.staged = w.staged
             /\ u.blocks_lost = w.blocks_lost /\ u.block_seq = w.block_seq
             /\ u.last_ts = w.last_ts /\ u.last_addr = w.last_addr
             /\ u.started = w.started /\ u.finished = w.finished
  BY <1>1, <1>2 DEF Writers
<1>3. IsFailed(v, w)
  BY <1>1, <1>2 DEF IsFailed
<1> QED
  BY <1>3

\* A writer that fails keeps what it has.
LEMMA FailKept ==
    ASSUME NEW cuts, NEW w, NEW sink, NEW rec, Kept(cuts, w, sink, rec),
           NEW why \in Errors
    PROVE  Kept(cuts, WFail(w, why), sink, rec)
<1> DEFINE v == WFail(w, why)
<1>1. w \in Writers
  BY DEF Kept, Counted
<1>2. v = WFail(w, why)
  OBVIOUS
<1> HIDE DEF v
<1>3. IsFailed(v, w)
  BY ONLY <1>1, <1>2, why \in Errors, FailedWriter
<1>4. Counted(v, rec)
  BY <1>3, Zenon DEF Kept, Counted, IsFailed
<1>5. v.ok = FALSE /\ v.block_seq = w.block_seq /\ v.staged = w.staged
      /\ v.started = w.started
  BY <1>3, Zenon DEF IsFailed
<1>6. Kept(cuts, v, sink, rec)
  BY <1>4, <1>5, Zenon DEF Kept
<1> QED
  BY <1>6 DEF v

\* The terminator goes out, or a fatal error is latched.
LEMMA EmitKept ==
    ASSUME TakesOrRefuses, NEW cuts, NEW w, NEW sink, NEW rec,
           Kept(cuts, w, sink, rec), w.ok, NEW o \in Emit(w, sink, EndPiece)
    PROVE  Kept(cuts, o.w, o.sink, rec) /\ o.w.events = w.events
<1> DEFINE Out(p) == [w |-> IF p.taken THEN w ELSE WFail(w, "sink rejected data"),
                      sink |-> p.sink]
<1>1. o \in {Out(p) : p \in Offer(sink, EndPiece)}
  BY DEF Emit
<1> HIDE DEF Out
<1>2. PICK p \in Offer(sink, EndPiece) : o = Out(p)
  BY <1>1
<1>3. w \in Writers /\ sink # <<>> /\ Sent(cuts, w.block_seq, rec, sink)
  BY DEF Kept, Counted
<1>4. CASE p.taken = TRUE /\ p.sink = Append(sink, EndPiece)
  <2>1. o.w = w /\ o.sink = Append(sink, EndPiece)
    BY <1>2, <1>4 DEF Out
  <2>2. EndPiece \in PieceSet /\ EndPiece.kind = "end"
    BY DEF PieceSet, EndPiece
  <2>3. Sent(cuts, w.block_seq, rec, o.sink)
    BY <1>3, <2>1, <2>2, SentOn
  <2>4. o.sink # <<>>
    BY <1>3, <2>1 DEF Sent
  <2> QED
    BY <2>1, <2>3, <2>4 DEF Kept
<1>5. CASE p.taken = FALSE /\ p.sink = sink
  <2>1. o.w = WFail(w, "sink rejected data") /\ o.sink = sink
    BY <1>2, <1>5 DEF Out
  <2>2. "sink rejected data" \in Errors
    BY DEF Errors
  <2>3. o.w.events = w.events
    <3>1. w \in Writers /\ o.w = WFail(w, "sink rejected data")
      BY <1>3, <2>1
    <3>2. IsFailed(o.w, w)
      BY ONLY <2>2, <3>1, FailedWriter
    <3> QED
      BY <3>2, Zenon DEF IsFailed
  <2>4. Kept(cuts, o.w, o.sink, rec)
    BY <2>1, <2>2, FailKept
  <2> QED
    BY <2>3, <2>4
<1> QED
  BY <1>4, <1>5, OfferIs, ZenonT(60)

\* A writer whose block is spent.
Spent(w, seq, staged, used, lost) ==
    [w EXCEPT !.block_seq = seq, !.staged = staged, !.used = used,
              !.blocks_lost = lost]

IsSpent(v, w, seq, staged, used, lost) ==
    /\ v \in Writers /\ v.block_seq = seq /\ v.staged = staged
    /\ v.used = used /\ v.blocks_lost = lost
    /\ v.events = w.events /\ v.ok = w.ok /\ v.started = w.started
    /\ v.finished = w.finished
    /\ v.last_ts = w.last_ts /\ v.last_addr = w.last_addr

\* It is as it was but for these fields.
LEMMA SpentWriter ==
    ASSUME NEW w \in Writers, NEW seq \in Nat, NEW staged \in Seq(EncodedSet),
           NEW used \in Nat, NEW lost \in Nat, NEW v,
           v = Spent(w, seq, staged, used, lost)
    PROVE  IsSpent(v, w, seq, staged, used, lost)
BY DEF Writers, Spent, IsSpent

\* The pending block goes out or is lost; the next one starts behind it.
LEMMA FlushKept ==
    ASSUME TakesOrRefuses, NEW cuts, NEW w, NEW sink, NEW rec,
           Kept(cuts, w, sink, rec), w.ok, NEW o \in FlushBlock(w, sink)
    PROVE  /\ \E c : Kept(c, o.w, o.sink, rec)
           /\ o.w.events = w.events /\ o.w.ok /\ o.w.started = w.started
           /\ o.w.last_ts = w.last_ts /\ o.w.last_addr = w.last_addr
           /\ o.w.used = 0
<1>1. /\ w \in Writers /\ w.block_seq \in Nat /\ w.used \in Nat
      /\ w.blocks_lost \in Nat /\ w.staged \in Seq(EncodedSet)
      /\ rec \in Seq(AllCalls) /\ sink # <<>> /\ Sent(cuts, w.block_seq, rec, sink)
  BY DEF Kept, Counted, Writers
<1>2. CASE w.used = 0
  <2>1. o = [w |-> w, sink |-> sink]
    BY <1>2 DEF FlushBlock
  <2>2. o.w = w /\ o.sink = sink
    BY <2>1
  <2> QED
    BY <1>2, <2>2
<1>3. CASE w.used # 0
  <2> DEFINE n == w.block_seq
             Lost(p) == IF p.taken THEN w.blocks_lost ELSE w.blocks_lost + 1
             Out(p) == [w |-> Spent(w, n + 1, <<>>, 0, Lost(p)), sink |-> p.sink]
             c == [cuts EXCEPT ![n + 1] = Len(rec)]
  <2>1. o \in {Out(p) : p \in Offer(sink, BlockPiece(w))}
    BY <1>3 DEF FlushBlock, Spent
  <2>2. ASSUME NEW p
        PROVE  /\ Lost(p) \in {w.blocks_lost, w.blocks_lost + 1} /\ Lost(p) \in Nat
               /\ Out(p).w = Spent(w, n + 1, <<>>, 0, Lost(p))
               /\ Out(p).sink = p.sink
    BY <1>1
  <2>3. n \in Nat /\ n + 1 \in Nat /\ n \in 0 .. (n + 1) - 1
    BY <1>1
  <2>4. n = w.block_seq
    OBVIOUS
  <2>5. /\ c \in [Nat -> Nat] /\ c[n + 1] = Len(rec) /\ Len(rec) \in Nat
        /\ \A s \in 0 .. n : c[s] = cuts[s]
        /\ c[0] = 0 /\ cuts[n] \in Nat
    <3> HIDE DEF n
    <3>1. cuts \in [Nat -> Nat] /\ cuts[0] = 0
      BY DEF Kept
    <3>2. Len(rec) \in Nat
      BY <1>1
    <3> QED
      BY <2>3, <3>1, <3>2
  <2> HIDE DEF Out, Lost, n, c
  <2>6. PICK p \in Offer(sink, BlockPiece(w)) : o = Out(p)
    BY <2>1
  <2>7. /\ o.w \in Writers /\ o.w.block_seq = n + 1 /\ o.w.staged = <<>>
        /\ o.w.used = 0 /\ o.w.blocks_lost \in {w.blocks_lost, w.blocks_lost + 1}
        /\ o.w.events = w.events /\ o.w.ok = w.ok /\ o.w.started = w.started
        /\ o.w.last_ts = w.last_ts /\ o.w.last_addr = w.last_addr
        /\ o.sink = p.sink
    <3>1. <<>> \in Seq(EncodedSet)
      OBVIOUS
    <3>2. o.w = Spent(w, n + 1, <<>>, 0, Lost(p))
      BY <2>2, <2>6
    <3>3. /\ w \in Writers /\ n + 1 \in Nat /\ 0 \in Nat
          /\ Lost(p) \in {w.blocks_lost, w.blocks_lost + 1} /\ Lost(p) \in Nat
      BY <1>1, <2>2, <2>3
    <3>4. /\ o.w \in Writers /\ o.w.block_seq = n + 1 /\ o.w.staged = <<>>
          /\ o.w.used = 0 /\ o.w.blocks_lost = Lost(p)
          /\ o.w.events = w.events /\ o.w.ok = w.ok /\ o.w.started = w.started
          /\ o.w.last_ts = w.last_ts /\ o.w.last_addr = w.last_addr
      <4> DEFINE lost == Lost(p)
                 next == n + 1
                 none == <<>>
                 zero == 0
      <4>1. /\ w \in Writers /\ next \in Nat /\ none \in Seq(EncodedSet)
            /\ zero \in Nat /\ lost \in Nat
            /\ o.w = Spent(w, next, none, zero, lost)
        BY <3>1, <3>2, <3>3
      <4> HIDE DEF lost, next, none, zero
      <4>2. /\ o.w \in Writers /\ o.w.block_seq = next /\ o.w.staged = none
            /\ o.w.used = zero /\ o.w.blocks_lost = lost
            /\ o.w.events = w.events /\ o.w.ok = w.ok /\ o.w.started = w.started
            /\ o.w.last_ts = w.last_ts /\ o.w.last_addr = w.last_addr
        <5> DEFINE v == o.w
        <5>1. v = Spent(w, next, none, zero, lost)
          BY <4>1
        <5> HIDE DEF v
        <5>2. IsSpent(v, w, next, none, zero, lost)
          BY ONLY <4>1, <5>1, SpentWriter
        <5> QED
          BY <5>2, Zenon DEF IsSpent, v
      <4> QED
        BY <4>2 DEF lost, next, none, zero
    <3>5. o.sink = p.sink
      BY <2>2, <2>6
    <3> QED
      BY <3>3, <3>4, <3>5
  <2>8. HoldsFrom(rec, cuts[n], w.staged) /\ cuts[n] + Len(w.staged) = Len(rec)
    BY <2>4 DEF Kept
  <2>9. Counted(o.w, rec)
    <3>1. o.w.used <= PayloadCap
      BY <2>7, EventSizesAssumption
    <3>2. o.w.blocks_lost <= o.w.block_seq
      <4>1. w.blocks_lost <= n
        BY <2>4 DEF Kept, Counted
      <4> QED
        BY <1>1, <2>3, <2>7, <4>1
    <3> QED
      BY <2>7, <3>1, <3>2 DEF Kept, Counted
  <2>10. HoldsFrom(rec, c[n + 1], <<>>) /\ c[n + 1] + Len(<<>>) = Len(rec)
    BY <2>5 DEF HoldsFrom
  <2>11. ASSUME NEW piece, Sound(cuts, n, rec, piece)
         PROVE  Sound(c, n + 1, rec, piece)
    <3>1. piece.seq \in 0 .. n - 1
      BY <2>11 DEF Sound
    <3>2. piece.seq + 1 \in 0 .. n /\ piece.seq \in 0 .. n
          /\ piece.seq \in 0 .. (n + 1) - 1
      BY <2>3, <3>1
    <3>3. c[piece.seq] = cuts[piece.seq] /\ c[piece.seq + 1] = cuts[piece.seq + 1]
      BY <2>5, <3>2
    <3> QED
      BY <2>11, <3>2, <3>3 DEF Sound
  <2>12. Sent(c, n + 1, rec, sink)
    BY <1>1, <2>4, <2>11 DEF Sent
  <2>13. Sent(c, n + 1, rec, o.sink) /\ o.sink # <<>>
    <3>1. \/ p.taken = TRUE /\ p.sink = Append(sink, BlockPiece(w))
          \/ p.taken = FALSE /\ p.sink = sink
      BY OfferIs
    <3>2. ASSUME p.taken = FALSE /\ p.sink = sink
          PROVE  Sent(c, n + 1, rec, o.sink) /\ o.sink # <<>>
      BY <1>1, <2>7, <2>12, <3>2
    <3>3. ASSUME p.taken = TRUE /\ p.sink = Append(sink, BlockPiece(w))
          PROVE  Sent(c, n + 1, rec, o.sink) /\ o.sink # <<>>
      <4> DEFINE piece == BlockPiece(w)
      <4>1. /\ piece.kind = "block" /\ piece.seq = n /\ piece.payload = w.staged
            /\ piece \in PieceSet
        BY <1>1, <2>4 DEF BlockPiece, PieceSet
      <4>2. o.sink = Append(sink, piece)
        BY <2>7, <3>3
      <4> HIDE DEF piece
      <4>3. c[n] = cuts[n]
        BY <2>3, <2>5
      <4>4. Sound(c, n + 1, rec, piece)
        BY <2>3, <2>5, <2>8, <4>1, <4>3 DEF Sound
      <4>5. Sent(c, n + 1, rec, Append(sink, piece))
        BY <1>1, <2>12, <4>1, <4>4, SentOn
      <4>6. Append(sink, piece) # <<>>
        <5>1. sink \in Seq(PieceSet)
          BY <1>1 DEF Sent
        <5> QED
          BY <4>1, <5>1
      <4> QED
        BY <4>2, <4>5, <4>6
    <3> QED
      BY <3>1, <3>2, <3>3
  <2>14. o.w.started /\ w.started
    BY <2>7 DEF Kept
  <2>15. Kept(c, o.w, o.sink, rec)
    BY <2>5, <2>7, <2>9, <2>10, <2>13, <2>14 DEF Kept
  <2> QED
    BY <2>7, <2>15
<1> QED
  BY <1>2, <1>3

\* A writer with one event more, as stage leaves it, and with the running state
\* as write_plain and write_mmio leave it.
Grown(w, staged, used, events) ==
    [w EXCEPT !.staged = staged, !.used = used, !.events = events]

Dated(o, ts) == [o EXCEPT !.w.last_ts = ts]

Moved(o, ts, addr) == [o EXCEPT !.w.last_ts = ts, !.w.last_addr = addr]

IsGrown(v, w, staged, used, events) ==
    /\ v \in Writers /\ v.staged = staged /\ v.used = used /\ v.events = events
    /\ v.block_seq = w.block_seq /\ v.blocks_lost = w.blocks_lost
    /\ v.started = w.started /\ v.ok = w.ok /\ v.finished = w.finished
    /\ v.last_ts = w.last_ts /\ v.last_addr = w.last_addr

\* It is as it was but for these fields.
LEMMA GrownWriter ==
    ASSUME NEW w \in Writers, NEW staged \in Seq(EncodedSet), NEW used \in Nat,
           NEW events \in Nat, NEW v, v = Grown(w, staged, used, events)
    PROVE  IsGrown(v, w, staged, used, events)
BY DEF Writers, Grown, IsGrown

\* So is an outcome's writer.
LEMMA DatedOutcome ==
    ASSUME NEW w \in Writers, NEW sink, NEW o, o = [w |-> w, sink |-> sink],
           NEW ts \in Nat, NEW p, p = Dated(o, ts)
    PROVE  /\ p.sink = sink /\ p.w \in Writers /\ p.w.last_ts = ts
           /\ p.w.last_addr = w.last_addr
           /\ p.w.staged = w.staged /\ p.w.used = w.used /\ p.w.events = w.events
           /\ p.w.block_seq = w.block_seq /\ p.w.blocks_lost = w.blocks_lost
           /\ p.w.started = w.started /\ p.w.finished = w.finished
           /\ p.w.ok = w.ok
BY DEF Writers, Dated

\* And one whose predictor has moved.
LEMMA MovedOutcome ==
    ASSUME NEW w \in Writers, NEW sink, NEW o, o = [w |-> w, sink |-> sink],
           NEW ts \in Nat, NEW addr \in Nat, NEW p, p = Moved(o, ts, addr)
    PROVE  /\ p.sink = sink /\ p.w \in Writers /\ p.w.last_ts = ts
           /\ p.w.last_addr = addr
           /\ p.w.staged = w.staged /\ p.w.used = w.used /\ p.w.events = w.events
           /\ p.w.block_seq = w.block_seq /\ p.w.blocks_lost = w.blocks_lost
           /\ p.w.started = w.started /\ p.w.finished = w.finished
           /\ p.w.ok = w.ok
BY DEF Writers, Moved

\* Staging an event: the block before it may go out, and then it fits.
LEMMA StageKept ==
    ASSUME TakesOrRefuses, NEW cuts, NEW w, NEW sink, NEW rec,
           Kept(cuts, w, sink, rec), w.ok, NEW e \in EncodedSet,
           NEW size \in EventSizes, NEW o \in Stage(w, sink, e, size)
    PROVE  \E c, f, s :
             /\ Kept(c, f, s, rec) /\ f.ok /\ f.last_ts = w.last_ts
             /\ f.last_addr = w.last_addr /\ f.events = w.events
             /\ f.used + size <= PayloadCap
             /\ o = [w |-> Grown(f, Append(f.staged, e), f.used + size, f.events + 1),
                     sink |-> s]
<1> DEFINE Out(b) == [w |-> Grown(b.w, Append(b.w.staged, e), b.w.used + size,
                                  b.w.events + 1),
                      sink |-> b.sink]
           before == IF w.used + size > PayloadCap THEN FlushBlock(w, sink)
                     ELSE {[w |-> w, sink |-> sink]}
<1>1. o \in {Out(b) : b \in before}
  BY DEF Stage, Grown
<1>2. \A b : Out(b) = [w |-> Grown(b.w, Append(b.w.staged, e), b.w.used + size,
                                   b.w.events + 1),
                       sink |-> b.sink]
  OBVIOUS
<1> HIDE DEF Out
<1>3. PICK b \in before : o = Out(b)
  BY <1>1
<1>4. /\ \E c : Kept(c, b.w, b.sink, rec)
      /\ b.w.ok /\ b.w.last_ts = w.last_ts /\ b.w.last_addr = w.last_addr
      /\ b.w.events = w.events /\ b.w.used + size <= PayloadCap
  <2>1. /\ size \in Nat /\ size <= PayloadCap /\ PayloadCap \in Nat
        /\ w.used \in Nat
    BY EventSizesAssumption, SMTT(60) DEF Kept, Counted, Writers
  <2>2. CASE w.used + size > PayloadCap
    <3>1. b \in FlushBlock(w, sink)
      BY <2>2
    <3>2. /\ \E c : Kept(c, b.w, b.sink, rec)
          /\ b.w.events = w.events /\ b.w.ok
          /\ b.w.last_ts = w.last_ts /\ b.w.last_addr = w.last_addr
          /\ b.w.used = 0
      BY <3>1, FlushKept
    <3> QED
      BY <2>1, <3>2
  <2>3. CASE ~(w.used + size > PayloadCap)
    <3>1. b = [w |-> w, sink |-> sink]
      BY <2>3
    <3>2. b.w = w /\ b.sink = sink
      BY <3>1
    <3> QED
      BY <2>1, <2>3, <3>2
  <2> QED
    BY <2>2, <2>3
<1>5. o = [w |-> Grown(b.w, Append(b.w.staged, e), b.w.used + size, b.w.events + 1),
           sink |-> b.sink]
  BY <1>2, <1>3
<1> QED
  BY <1>4, <1>5

\* The encoding of a new event is made of it and the writer's running state.
LEMMA EncodedNew ==
    ASSUME NEW rec \in Seq(EventSet), NEW ev \in EventSet
    PROVE  EncodedAt(Append(rec, ev), Len(rec) + 1)
             = [type |-> ev.type, dts |-> ev.ts - TsAfter(rec, Len(rec)),
                arg |-> IF IsMmio(ev.type) THEN ev.addr - AddrAfter(rec, Len(rec))
                        ELSE ev.addr,
                value |-> ev.value]
<1> DEFINE all == Append(rec, ev)
           n == Len(rec) + 1
<1>1. all[n] = ev /\ n - 1 = Len(rec) /\ Len(rec) \in 0 .. Len(rec)
  OBVIOUS
<1>2. TsAfter(all, Len(rec)) = TsAfter(rec, Len(rec))
      /\ AddrAfter(all, Len(rec)) = AddrAfter(rec, Len(rec))
  BY <1>1, EncodedBefore
<1> HIDE DEF all, n
<1>3. EncodedAt(all, n)
        = [type |-> ev.type, dts |-> ev.ts - TsAfter(rec, Len(rec)),
           arg |-> IF IsMmio(ev.type) THEN ev.addr - AddrAfter(rec, Len(rec))
                   ELSE ev.addr,
           value |-> ev.value]
  BY <1>1, <1>2 DEF EncodedAt
<1> QED
  BY <1>3 DEF all, n

\* A call of the writer records its event or does not.
LEMMA WriteKept ==
    ASSUME TakesOrRefuses, NEW cuts, NEW w, NEW sink, NEW rec,
           Kept(cuts, w, sink, rec), NEW ev \in AllCalls,
           NEW size \in EventSizes, NEW o \in Write(w, sink, ev, size)
    PROVE  \/ o.w.events = w.events /\ \E c : Kept(c, o.w, o.sink, rec)
           \/ o.w.events = w.events + 1 /\ \E c : Kept(c, o.w, o.sink, Append(rec, ev))
<1> DEFINE idle == ~Recording(w) \/ (ev.type = "write" /\ ~RecordsWrites)
           e == EncodedAt(Append(rec, ev), Len(rec) + 1)
<1>1. w \in Writers /\ rec \in Seq(EventSet) /\ ev \in EventSet
  BY CallsAreEvents DEF Kept, Counted
<1>2. CASE idle
  <2>1. o = [w |-> w, sink |-> sink]
    BY <1>2 DEF Write
  <2>2. o.w = w /\ o.sink = sink
    BY <2>1
  <2> QED
    BY <2>2
<1>3. CASE ~idle /\ ev.ts < w.last_ts
  <2>1. o = [w |-> WFail(w, "non-monotonic timestamp"), sink |-> sink]
    BY <1>3 DEF Write
  <2>2. o.w = WFail(w, "non-monotonic timestamp") /\ o.sink = sink
    BY <2>1
  <2>3. "non-monotonic timestamp" \in Errors
    BY DEF Errors
  <2>4. o.w.events = w.events
    <3>1. IsFailed(o.w, w)
      BY ONLY <1>1, <2>2, <2>3, FailedWriter
    <3> QED
      BY <3>1, Zenon DEF IsFailed
  <2>5. Kept(cuts, o.w, o.sink, rec)
    BY <2>2, <2>3, FailKept
  <2> QED
    BY <2>4, <2>5
<1>4. CASE ~idle /\ ~(ev.ts < w.last_ts)
  <2>1. w.ok /\ w.last_ts <= ev.ts /\ ev.ts \in Nat /\ ev.addr \in Nat
    <3>1. w.last_ts \in Nat /\ ev.ts \in Nat /\ ev.addr \in Nat
      BY <1>1 DEF Writers, EventSet
    <3> QED
      BY <1>4, <3>1 DEF Recording
  <2>2. w.last_ts = TsAfter(rec, Len(rec)) /\ w.last_addr = AddrAfter(rec, Len(rec))
    BY DEF Kept, Counted
  <2>3. e \in EncodedSet
    <3>1. /\ Append(rec, ev) \in Seq(EventSet)
          /\ Len(rec) + 1 \in 1 .. Len(Append(rec, ev))
      BY <1>1
    <3> QED
      BY <3>1, EncodedType
  <2>4. e = [type |-> ev.type, dts |-> ev.ts - w.last_ts,
             arg |-> IF IsMmio(ev.type) THEN ev.addr - w.last_addr ELSE ev.addr,
             value |-> ev.value]
    BY <1>1, <2>2, EncodedNew
  <2> HIDE DEF e
  <2>5. PICK x \in Stage(w, sink, e, size) :
          o = IF IsMmio(ev.type) THEN Moved(x, ev.ts, ev.addr) ELSE Dated(x, ev.ts)
    <3>1. CASE IsMmio(ev.type)
      <4>1. o \in WriteMmio(w, sink, ev, size)
        BY <1>4, <3>1 DEF Write
      <4>2. e = [type |-> ev.type, dts |-> ev.ts - w.last_ts,
                 arg |-> ev.addr - w.last_addr, value |-> ev.value]
        BY <2>4, <3>1
      <4>3. o \in {Moved(x, ev.ts, ev.addr) : x \in Stage(w, sink, e, size)}
        BY <4>1, <4>2 DEF WriteMmio, Moved
      <4> QED
        BY <3>1, <4>3
    <3>2. CASE ~IsMmio(ev.type)
      <4>1. o \in WritePlain(w, sink, ev, size)
        BY <1>4, <3>2 DEF Write
      <4>2. e = [type |-> ev.type, dts |-> ev.ts - w.last_ts,
                 arg |-> ev.addr, value |-> ev.value]
        BY <2>4, <3>2
      <4>3. o \in {Dated(x, ev.ts) : x \in Stage(w, sink, e, size)}
        BY <4>1, <4>2 DEF WritePlain, Dated
      <4> QED
        BY <3>2, <4>3
    <3> QED
      BY <3>1, <3>2
  <2>6. PICK c, f, s :
          /\ Kept(c, f, s, rec) /\ f.ok /\ f.last_ts = w.last_ts
          /\ f.last_addr = w.last_addr /\ f.events = w.events
          /\ f.used + size <= PayloadCap
          /\ x = [w |-> Grown(f, Append(f.staged, e), f.used + size, f.events + 1),
                  sink |-> s]
    BY <2>1, <2>3, StageKept
  <2> DEFINE g == Grown(f, Append(f.staged, e), f.used + size, f.events + 1)
  <2>7. /\ f \in Writers /\ f.staged \in Seq(EncodedSet) /\ f.used \in Nat
        /\ f.events \in Nat /\ size \in Nat /\ size > 0
    BY <2>6, EventSizesAssumption DEF Kept, Counted, Writers
  <2>8. /\ Append(f.staged, e) \in Seq(EncodedSet) /\ f.used + size \in Nat
        /\ f.events + 1 \in Nat
    BY <2>3, <2>7
  <2>9. /\ g \in Writers /\ g.staged = Append(f.staged, e) /\ g.used = f.used + size
        /\ g.events = f.events + 1
        /\ g.block_seq = f.block_seq /\ g.blocks_lost = f.blocks_lost
        /\ g.started = f.started /\ g.ok = f.ok
        /\ g.last_ts = f.last_ts /\ g.last_addr = f.last_addr
    <3> DEFINE staged == Append(f.staged, e)
               used == f.used + size
               events == f.events + 1
    <3>1. /\ f \in Writers /\ staged \in Seq(EncodedSet) /\ used \in Nat
          /\ events \in Nat /\ g = Grown(f, staged, used, events)
      BY <2>7, <2>8
    <3> HIDE DEF staged, used, events, g
    <3>2. /\ g \in Writers /\ g.staged = staged /\ g.used = used /\ g.events = events
          /\ g.block_seq = f.block_seq /\ g.blocks_lost = f.blocks_lost
          /\ g.started = f.started /\ g.ok = f.ok
          /\ g.last_ts = f.last_ts /\ g.last_addr = f.last_addr
      <4>1. IsGrown(g, f, staged, used, events)
        BY ONLY <3>1, GrownWriter
      <4> QED
        BY <4>1, Zenon DEF IsGrown
    <3> QED
      BY <3>2 DEF staged, used, events
  <2>10. x = [w |-> g, sink |-> s]
    BY <2>6
  <2> HIDE DEF g
  <2>11. /\ o.sink = s /\ o.w \in Writers /\ o.w.last_ts = ev.ts
         /\ o.w.last_addr = IF IsMmio(ev.type) THEN ev.addr ELSE g.last_addr
         /\ o.w.staged = g.staged /\ o.w.used = g.used /\ o.w.events = g.events
         /\ o.w.block_seq = g.block_seq /\ o.w.blocks_lost = g.blocks_lost
         /\ o.w.started = g.started
    <3>1. g \in Writers
      BY <2>9
    <3>2. CASE IsMmio(ev.type)
      <4>1. o = Moved(x, ev.ts, ev.addr)
        BY <2>5, <3>2
      <4>2. ev.ts \in Nat /\ ev.addr \in Nat
        BY <2>1
      <4>3. /\ o.sink = s /\ o.w \in Writers /\ o.w.last_ts = ev.ts
            /\ o.w.last_addr = ev.addr
            /\ o.w.staged = g.staged /\ o.w.used = g.used /\ o.w.events = g.events
            /\ o.w.block_seq = g.block_seq /\ o.w.blocks_lost = g.blocks_lost
            /\ o.w.started = g.started
        BY ONLY <2>10, <3>1, <4>1, <4>2, MovedOutcome
      <4> QED
        BY <3>2, <4>3
    <3>3. CASE ~IsMmio(ev.type)
      <4>1. o = Dated(x, ev.ts)
        BY <2>5, <3>3
      <4>2. ev.ts \in Nat
        BY <2>1
      <4>3. /\ o.sink = s /\ o.w \in Writers /\ o.w.last_ts = ev.ts
            /\ o.w.last_addr = g.last_addr
            /\ o.w.staged = g.staged /\ o.w.used = g.used /\ o.w.events = g.events
            /\ o.w.block_seq = g.block_seq /\ o.w.blocks_lost = g.blocks_lost
            /\ o.w.started = g.started
        BY ONLY <2>10, <3>1, <4>1, <4>2, DatedOutcome
      <4> QED
        BY <3>3, <4>3
    <3> QED
      BY <3>2, <3>3
  <2> DEFINE v == o.w
  <2>12. /\ v \in Writers
         /\ v.staged = Append(f.staged, EncodedAt(Append(rec, ev), Len(rec) + 1))
         /\ v.used > 0 /\ v.used <= PayloadCap /\ v.events = f.events + 1
         /\ v.last_ts = ev.ts
         /\ v.last_addr = IF IsMmio(ev.type) THEN ev.addr ELSE f.last_addr
         /\ v.block_seq = f.block_seq /\ v.blocks_lost = f.blocks_lost
         /\ v.started = f.started
    <3>1. v.used > 0 /\ v.used <= PayloadCap
      BY <2>6, <2>7, <2>9, <2>11
    <3>2. v.staged = Append(f.staged, EncodedAt(Append(rec, ev), Len(rec) + 1))
      BY <2>9, <2>11 DEF e
    <3> QED
      BY <2>9, <2>11, <3>1, <3>2
  <2> HIDE DEF v
  <2>13. Kept(c, v, s, Append(rec, ev))
    <3>1. f.last_ts <= ev.ts
      BY <2>1, <2>6
    <3> QED
      BY <2>6, <2>12, <3>1, StagedKept
  <2>14. o.w.events = w.events + 1 /\ Kept(c, o.w, o.sink, Append(rec, ev))
    BY <2>6, <2>9, <2>11, <2>13 DEF v
  <2> QED
    BY <2>14
<1> QED
  BY <1>2, <1>3, <1>4

\* The outcome of a call is a record of a writer and a sink.
IsOutcome(o) == DOMAIN o = {"w", "sink"}

\* A pair is one.
LEMMA PairIsOutcome ==
    ASSUME NEW o, \E w, sink : o = [w |-> w, sink |-> sink]
    PROVE  IsOutcome(o)
BY DEF IsOutcome

\* flush_block has such outcomes.
LEMMA FlushOutcome ==
    ASSUME NEW w, NEW sink, NEW o \in FlushBlock(w, sink)
    PROVE  IsOutcome(o)
<1>1. \E v, s : o = [w |-> v, sink |-> s]
  BY DEF FlushBlock
<1> QED
  BY <1>1, PairIsOutcome

\* emit has.
LEMMA EmitOutcome ==
    ASSUME NEW w, NEW sink, NEW piece, NEW o \in Emit(w, sink, piece)
    PROVE  IsOutcome(o)
<1>1. \E v, s : o = [w |-> v, sink |-> s]
  BY DEF Emit
<1> QED
  BY <1>1, PairIsOutcome

\* stage has.
LEMMA StageOutcome ==
    ASSUME NEW w, NEW sink, NEW e, NEW size, NEW o \in Stage(w, sink, e, size)
    PROVE  IsOutcome(o)
<1>1. \E v, s : o = [w |-> v, sink |-> s]
  BY DEF Stage
<1> QED
  BY <1>1, PairIsOutcome

\* An outcome stays one.
LEMMA StampedOutcome ==
    ASSUME NEW o, IsOutcome(o), NEW ts, NEW addr
    PROVE  IsOutcome(Dated(o, ts)) /\ IsOutcome(Moved(o, ts, addr))
<1>1. IsOutcome(Dated(o, ts))
  BY DEF IsOutcome, Dated
<1>2. IsOutcome(Moved(o, ts, addr))
  BY DEF IsOutcome, Moved
<1> QED
  BY <1>1, <1>2

\* The calls that record have.
LEMMA WriteOutcome ==
    ASSUME NEW w, NEW sink, NEW ev, NEW size, NEW o \in Write(w, sink, ev, size)
    PROVE  IsOutcome(o)
<1>1. CASE \E v : o = [w |-> v, sink |-> sink]
  BY <1>1, PairIsOutcome
<1>2. CASE o \in WriteMmio(w, sink, ev, size)
  <2> DEFINE e == [type |-> ev.type, dts |-> ev.ts - w.last_ts,
                   arg |-> ev.addr - w.last_addr, value |-> ev.value]
  <2>1. o \in {Moved(x, ev.ts, ev.addr) : x \in Stage(w, sink, e, size)}
    BY <1>2 DEF WriteMmio, Moved
  <2> HIDE DEF e
  <2> QED
    BY <2>1, StageOutcome, StampedOutcome
<1>3. CASE o \in WritePlain(w, sink, ev, size)
  <2> DEFINE e == [type |-> ev.type, dts |-> ev.ts - w.last_ts,
                   arg |-> ev.addr, value |-> ev.value]
  <2>1. o \in {Dated(x, ev.ts) : x \in Stage(w, sink, e, size)}
    BY <1>3 DEF WritePlain, Dated
  <2> HIDE DEF e
  <2> QED
    BY <2>1, StageOutcome, StampedOutcome
<1> QED
  BY <1>1, <1>2, <1>3 DEF Write

\* Recording over: nothing else changes.
Closed(o) == [o EXCEPT !.w.finished = TRUE]

\* The invariant does not speak of finished.
LEMMA ClosedKept ==
    ASSUME NEW cuts, NEW rec, NEW o, IsOutcome(o), Kept(cuts, o.w, o.sink, rec)
    PROVE  /\ Kept(cuts, Closed(o).w, Closed(o).sink, rec)
           /\ Closed(o).w.events = o.w.events
<1> DEFINE p == Closed(o)
<1>1. o.w \in Writers
  BY DEF Kept, Counted
<1>2. /\ p.w \in Writers /\ p.sink = o.sink /\ p.w.events = o.w.events
      /\ p.w.staged = o.w.staged /\ p.w.used = o.w.used
      /\ p.w.last_ts = o.w.last_ts /\ p.w.last_addr = o.w.last_addr
      /\ p.w.block_seq = o.w.block_seq /\ p.w.blocks_lost = o.w.blocks_lost
      /\ p.w.started = o.w.started /\ p.w.ok = o.w.ok
  BY <1>1 DEF Closed, Writers, IsOutcome
<1> HIDE DEF p
<1>3. Kept(cuts, p.w, p.sink, rec)
  BY <1>2 DEF Kept, Counted
<1> QED
  BY <1>2, <1>3 DEF p

\* finish records its stop event or does not.
LEMMA FinishKept ==
    ASSUME TakesOrRefuses, NEW cuts, NEW w, NEW sink, NEW rec,
           Kept(cuts, w, sink, rec), NEW ts \in StopTimes,
           NEW size \in EventSizes, NEW o \in Finish(w, sink, ts, size)
    PROVE  \/ o.w.events = w.events /\ \E c : Kept(c, o.w, o.sink, rec)
           \/ /\ o.w.events = w.events + 1
              /\ \E c : Kept(c, o.w, o.sink, Append(rec, StopEvent(ts)))
<1>1. CASE ~w.started \/ w.finished
  <2>1. o = [w |-> w, sink |-> sink]
    BY <1>1 DEF Finish
  <2>2. o.w = w /\ o.sink = sink
    BY <2>1
  <2> QED
    BY <2>2
<1>2. CASE ~(~w.started \/ w.finished)
  <2> DEFINE Flushes(x) == IF x.w.ok THEN FlushBlock(x.w, x.sink) ELSE {x}
             Ends(x) == IF x.w.ok THEN Emit(x.w, x.sink, EndPiece) ELSE {x}
             stopped == Write(w, sink, StopEvent(ts), size)
             flushed == UNION {Flushes(x) : x \in stopped}
             ended == UNION {Ends(x) : x \in flushed}
  <2>1. o \in {Closed(x) : x \in ended}
    BY <1>2 DEF Finish, Closed
  <2>2. ASSUME NEW x, x.w.ok
        PROVE  /\ Flushes(x) = FlushBlock(x.w, x.sink)
               /\ Ends(x) = Emit(x.w, x.sink, EndPiece)
    BY <2>2
  <2>3. ASSUME NEW x, ~x.w.ok
        PROVE  Flushes(x) = {x} /\ Ends(x) = {x}
    BY <2>3
  <2> HIDE DEF Flushes, Ends
  <2>4. PICK z \in ended : o = Closed(z)
    BY <2>1
  <2>5. PICK y \in flushed : z \in Ends(y)
    BY <2>4
  <2>6. PICK x \in stopped : y \in Flushes(x)
    BY <2>5
  <2>7. IsOutcome(z)
    <3>1. IsOutcome(x)
      BY <2>6, WriteOutcome
    <3>2. IsOutcome(y)
      <4>1. CASE x.w.ok
        BY <2>2, <2>6, <4>1, FlushOutcome
      <4>2. CASE ~x.w.ok
        BY <2>3, <2>6, <3>1, <4>2
      <4> QED
        BY <4>1, <4>2
    <3>3. CASE y.w.ok
      BY <2>2, <2>5, <3>3, EmitOutcome
    <3>4. CASE ~y.w.ok
      BY <2>3, <2>5, <3>2, <3>4
    <3> QED
      BY <3>3, <3>4
  <2>8. StopEvent(ts) \in AllCalls
    BY DEF AllCalls
  <2>9. PICK all \in {rec, Append(rec, StopEvent(ts))} :
          /\ \E c : Kept(c, x.w, x.sink, all)
          /\ x.w.events = w.events + (IF all = rec THEN 0 ELSE 1)
    <3>1. Append(rec, StopEvent(ts)) # rec
      <4>1. rec \in Seq(AllCalls)
        BY DEF Kept, Counted
      <4> QED
        BY <2>8, <4>1
    <3>2. w.events \in Nat
      BY DEF Kept, Counted, Writers
    <3>3. \/ x.w.events = w.events /\ \E c : Kept(c, x.w, x.sink, rec)
          \/ /\ x.w.events = w.events + 1
             /\ \E c : Kept(c, x.w, x.sink, Append(rec, StopEvent(ts)))
      BY <2>6, <2>8, WriteKept
    <3> QED
      BY <3>1, <3>2, <3>3
  <2>10. /\ x.w.events = w.events + (IF all = rec THEN 0 ELSE 1)
         /\ w.events \in Nat
    BY <2>9 DEF Kept, Counted, Writers
  <2>11. (\E c : Kept(c, y.w, y.sink, all)) /\ y.w.events = x.w.events
    <3>1. PICK c : Kept(c, x.w, x.sink, all)
      BY <2>9
    <3>2. CASE x.w.ok
      <4>1. y \in FlushBlock(x.w, x.sink)
        BY <2>2, <2>6, <3>2
      <4> QED
        BY <3>1, <3>2, <4>1, FlushKept
    <3>3. CASE ~x.w.ok
      BY <2>3, <2>6, <3>1, <3>3
    <3> QED
      BY <3>2, <3>3
  <2>12. (\E c : Kept(c, z.w, z.sink, all)) /\ z.w.events = x.w.events
    <3>1. PICK c : Kept(c, y.w, y.sink, all)
      BY <2>11
    <3>2. CASE y.w.ok
      <4>1. z \in Emit(y.w, y.sink, EndPiece)
        BY <2>2, <2>5, <3>2
      <4> QED
        BY <2>11, <3>1, <3>2, <4>1, EmitKept
    <3>3. CASE ~y.w.ok
      BY <2>3, <2>5, <2>11, <3>1, <3>3
    <3> QED
      BY <3>2, <3>3
  <2>13. (\E c : Kept(c, o.w, o.sink, all)) /\ o.w.events = x.w.events
    <3>1. PICK c : Kept(c, z.w, z.sink, all)
      BY <2>12
    <3> QED
      BY <2>7, <2>4, <2>12, <3>1, ClosedKept, ZenonT(60)
  <2>14. CASE all = rec
    BY <2>13, <2>10, <2>14
  <2>15. CASE all # rec
    BY <2>9, <2>13, <2>10, <2>15
  <2> QED
    BY <2>14, <2>15
<1> QED
  BY <1>1, <1>2

\* Nothing was sent, or the header.
LEMMA FirstSent ==
    ASSUME NEW cuts, NEW sink, sink = <<>> \/ sink = <<HeaderPiece>>
    PROVE  Sent(cuts, 0, <<>>, sink)
<1>1. CASE sink = <<>>
  BY <1>1 DEF Sent
<1>2. CASE sink = <<HeaderPiece>>
  <2>1. HeaderPiece \in PieceSet /\ HeaderPiece.kind = "header"
    BY DEF PieceSet, HeaderPiece
  <2>2. sink \in Seq(PieceSet) /\ Len(sink) = 1 /\ sink[1] = HeaderPiece
    <3> HIDE DEF HeaderPiece, PieceSet
    <3> QED
      BY <1>2, <2>1
  <2>3. \A k \in 1 .. Len(sink) : k = 1 /\ sink[k] = HeaderPiece
    BY <2>2
  <2> QED
    BY <2>1, <2>2, <2>3 DEF Sent
<1> QED
  BY <1>1, <1>2

\* A writer that has sent nothing, or the header.
LEMMA FreshKept ==
    ASSUME NEW w \in Writers, w.staged = <<>>, w.used = 0, w.last_ts = 0,
           w.last_addr = 0, w.block_seq = 0, w.blocks_lost = 0, w.events = 0,
           NEW sink,
           \/ sink = <<>> /\ w.ok = FALSE
           \/ sink = <<HeaderPiece>> /\ w.started = TRUE
    PROVE  Kept([s \in Nat |-> 0], w, sink, <<>>)
<1> DEFINE cuts == [s \in Nat |-> 0]
<1>1. Counted(w, <<>>)
  BY EventSizesAssumption, AddrZero DEF Counted, TsAfter
<1>2. cuts \in [Nat -> Nat] /\ cuts[0] = 0
  OBVIOUS
<1> HIDE DEF cuts
<1>3. HoldsFrom(<<>>, cuts[0], <<>>) /\ cuts[0] + Len(<<>>) = Len(<<>>)
  BY <1>2 DEF HoldsFrom
<1>4. Sent(cuts, 0, <<>>, sink)
  BY FirstSent
<1>5. w.ok => sink # <<>> /\ w.started
  <2>1. <<HeaderPiece>> # <<>>
    OBVIOUS
  <2> QED
    BY <2>1, Zenon
<1>6. ~w.started => sink = <<>>
  BY Zenon
<1> QED
  BY <1>1, <1>2, <1>3, <1>4, <1>5, <1>6 DEF Kept, cuts

\* What begin makes of a new writer.
Begun(err) == [NewWriter EXCEPT !.started = TRUE, !.ok = TRUE, !.err = err]

\* A writer just begun has everything still before it.
LEMMA BegunWriter ==
    ASSUME NEW err \in Errors, NEW v, v = Begun(err)
    PROVE  /\ v \in Writers /\ v.started = TRUE /\ v.ok = TRUE
           /\ v.staged = <<>> /\ v.used = 0 /\ v.last_ts = 0
           /\ v.last_addr = 0 /\ v.block_seq = 0 /\ v.blocks_lost = 0
           /\ v.events = 0 /\ v.finished = FALSE
<1>1. NoError \in Errors
  BY DEF NoError, Errors
<1>2. NewWriter \in Writers
  BY <1>1 DEF NewWriter, Writers
<1>3. /\ NewWriter.staged = <<>> /\ NewWriter.used = 0 /\ NewWriter.last_ts = 0
      /\ NewWriter.last_addr = 0 /\ NewWriter.block_seq = 0
      /\ NewWriter.blocks_lost = 0 /\ NewWriter.events = 0
      /\ NewWriter.finished = FALSE
  BY DEF NewWriter
<1>4. ASSUME NEW n \in Writers, v = [n EXCEPT !.started = TRUE, !.ok = TRUE, !.err = err]
      PROVE  /\ v \in Writers /\ v.started = TRUE /\ v.ok = TRUE
             /\ v.staged = n.staged /\ v.used = n.used /\ v.last_ts = n.last_ts
             /\ v.last_addr = n.last_addr /\ v.block_seq = n.block_seq
             /\ v.blocks_lost = n.blocks_lost /\ v.events = n.events
             /\ v.finished = n.finished
  BY <1>4, ZenonT(60) DEF Writers
<1> QED
  BY <1>2, <1>3, <1>4 DEF Begun

\* begin, the first time and after.
LEMMA BeginKept ==
    ASSUME TakesOrRefuses, NEW cuts, NEW w, NEW sink, NEW rec,
           Kept(cuts, w, sink, rec), NEW valid \in BOOLEAN,
           NEW o \in Begin(w, sink, valid)
    PROVE  \E c : Kept(c, o.w, o.sink, rec)
<1>1. w \in Writers
  BY DEF Kept, Counted
<1>2. "begin() called twice" \in Errors /\ "bad arguments" \in Errors
      /\ "sink rejected data" \in Errors
  BY DEF Errors
<1>3. CASE w.started
  <2>1. o = [w |-> WFail(w, "begin() called twice"), sink |-> sink]
    BY <1>3 DEF Begin
  <2>2. o.w = WFail(w, "begin() called twice") /\ o.sink = sink
    BY <2>1
  <2> QED
    BY <1>2, <2>2, FailKept
<1>4. CASE ~w.started /\ ~valid
  <2>1. o = [w |-> WFail(w, "bad arguments"), sink |-> sink]
    BY <1>4 DEF Begin
  <2>2. o.w = WFail(w, "bad arguments") /\ o.sink = sink
    BY <2>1
  <2> QED
    BY <1>2, <2>2, FailKept
<1>5. CASE ~w.started /\ valid
  <2> DEFINE fresh == Begun(w.err)
             Out(p) == [w |-> IF p.taken THEN fresh
                              ELSE WFail(fresh, "sink rejected data"),
                        sink |-> p.sink]
  <2>1. sink = <<>> /\ rec = <<>>
    BY <1>5 DEF Kept
  <2>2. o \in {Out(p) : p \in Offer(sink, HeaderPiece)}
    BY <1>5 DEF Begin, Emit, Begun
  <2>3. /\ fresh \in Writers /\ fresh.started = TRUE /\ fresh.ok = TRUE
        /\ fresh.staged = <<>> /\ fresh.used = 0 /\ fresh.last_ts = 0
        /\ fresh.last_addr = 0 /\ fresh.block_seq = 0 /\ fresh.blocks_lost = 0
        /\ fresh.events = 0
    <3>1. w.err \in Errors
      BY <1>1 DEF Writers
    <3> HIDE DEF fresh
    <3>2. fresh = Begun(w.err)
      BY DEF fresh
    <3> QED
      BY ONLY <3>1, <3>2, BegunWriter
  <2> HIDE DEF fresh
  <2>4. ASSUME NEW p
        PROVE  /\ p.taken = TRUE => Out(p).w = fresh
               /\ p.taken = FALSE => Out(p).w = WFail(fresh, "sink rejected data")
               /\ Out(p).sink = p.sink
    OBVIOUS
  <2> HIDE DEF Out
  <2>5. PICK p \in Offer(sink, HeaderPiece) : o = Out(p)
    BY <2>2
  <2>6. CASE p.taken = TRUE /\ p.sink = Append(sink, HeaderPiece)
    <3>1. Append(<<>>, HeaderPiece) = <<HeaderPiece>>
      OBVIOUS
    <3>2. o.w = fresh /\ o.sink = <<HeaderPiece>>
      BY <2>1, <2>4, <2>5, <2>6, <3>1
    <3>3. Kept([s \in Nat |-> 0], o.w, o.sink, <<>>)
      BY <2>3, <3>2, FreshKept
    <3> QED
      BY <2>1, <3>3
  <2>7. CASE p.taken = FALSE /\ p.sink = sink
    <3>1. o.w = WFail(fresh, "sink rejected data") /\ o.sink = <<>>
      BY <2>1, <2>4, <2>5, <2>7
    <3>2. fresh \in Writers /\ "sink rejected data" \in Errors
      BY <1>2, <2>3
    <3>3. /\ o.w \in Writers /\ o.w.ok = FALSE /\ o.w.events = fresh.events
          /\ o.w.used = fresh.used /\ o.w.staged = fresh.staged
          /\ o.w.blocks_lost = fresh.blocks_lost /\ o.w.block_seq = fresh.block_seq
          /\ o.w.last_ts = fresh.last_ts /\ o.w.last_addr = fresh.last_addr
          /\ o.w.started = fresh.started
      <4>1. IsFailed(o.w, fresh)
        BY ONLY <3>1, <3>2, FailedWriter
      <4> QED
        BY <4>1, Zenon DEF IsFailed
    <3>4. Kept([s \in Nat |-> 0], o.w, o.sink, <<>>)
      BY <2>3, <3>1, <3>3, FreshKept
    <3> QED
      BY <2>1, <3>4
  <2> QED
    BY <2>6, <2>7, OfferIs, ZenonT(60)
<1> QED
  BY <1>3, <1>4, <1>5

--------------------------------------------------------------------------------
(* The link.                                                                 *)

\* What was sent arrives, a bit of a block apart.
LEMMA ArrivedArrives ==
    ASSUME NEW cuts, NEW blocks, NEW rec, Sent(cuts, blocks, rec, wire),
           NEW damaged, NEW how \in {"none", "crc", "length", "zero"}
    PROVE  /\ Arrives(cuts, blocks, rec, Arrived(damaged, how))
           /\ Len(Arrived(damaged, how)) = Len(wire)
           /\ \A k \in 1 .. Len(wire) : Arrived(damaged, how)[k].kind = wire[k].kind
<1> DEFINE A(k) == IF wire[k].kind # "block" THEN wire[k]
                   ELSE [kind |-> "block", seq |-> wire[k].seq,
                         payload |-> wire[k].payload,
                         damage |-> IF k = damaged THEN how ELSE "none"]
           all == Arrived(damaged, how)
<1>1. all = [k \in 1 .. Len(wire) |-> A(k)]
  BY DEF Arrived
<1>2. wire \in Seq(PieceSet) /\ Len(wire) \in Nat
  BY DEF Sent
<1>3. ASSUME NEW k \in 1 .. Len(wire)
      PROVE  /\ A(k) \in ArrivedSet /\ A(k).kind = wire[k].kind
             /\ A(k).kind = "block" => A(k).seq = wire[k].seq
                                      /\ A(k).payload = wire[k].payload
  <2>1. wire[k] \in PieceSet
    BY <1>2
  <2>2. CASE wire[k].kind # "block"
    <3>1. A(k) = wire[k]
      BY <2>2
    <3>2. wire[k] \in {HeaderPiece, EndPiece}
      BY <2>1, <2>2 DEF PieceSet
    <3> QED
      BY <2>2, <3>1, <3>2 DEF ArrivedSet
  <2>3. CASE wire[k].kind = "block"
    <3>1. wire[k].seq \in Nat /\ wire[k].payload \in Seq(EncodedSet)
      BY <2>1, <2>3 DEF PieceSet, HeaderPiece, EndPiece
    <3> DEFINE d == IF k = damaged THEN how ELSE "none"
    <3>2. d \in {"none", "crc", "length", "zero"}
      OBVIOUS
    <3>3. A(k) = [kind |-> "block", seq |-> wire[k].seq, payload |-> wire[k].payload,
                  damage |-> d]
      BY <2>3
    <3> HIDE DEF d, A
    <3> QED
      BY <2>3, <3>1, <3>2, <3>3 DEF ArrivedSet
  <2> QED
    BY <2>2, <2>3
<1> HIDE DEF A
<1>4. all \in Seq(ArrivedSet) /\ Len(all) = Len(wire)
      /\ \A k \in 1 .. Len(wire) : all[k] = A(k)
  <2>1. \A k \in 1 .. Len(wire) : A(k) \in ArrivedSet
    BY <1>3
  <2>2. [k \in 1 .. Len(wire) |-> A(k)] \in Seq(ArrivedSet)
    BY <1>2, <2>1, IsASeq
  <2> QED
    BY <1>1, <1>2, <2>2
<1> HIDE DEF all
<1>5. ASSUME NEW k \in 2 .. Len(all)
      PROVE  /\ all[k].kind # "header"
             /\ all[k].kind = "block" => Sound(cuts, blocks, rec, all[k])
  <2>1. k \in 1 .. Len(wire) /\ k # 1
    BY <1>2, <1>4
  <2>2. /\ wire[k].kind # "header"
        /\ wire[k].kind = "block" => Sound(cuts, blocks, rec, wire[k])
    BY <2>1 DEF Sent
  <2> QED
    BY <1>3, <1>4, <2>1, <2>2 DEF Sound
<1> QED
  BY <1>3, <1>4, <1>5 DEF Arrives, all

\* What arrives may be any choice of the pieces behind the header.
LEMMA ChoiceArrives ==
    ASSUME NEW cuts, NEW blocks, NEW rec, NEW all, Arrives(cuts, blocks, rec, all),
           NEW some \in Seq(ArrivedSet),
           \A k \in 2 .. Len(some) : \E i \in 2 .. Len(all) : some[k] = all[i]
    PROVE  Arrives(cuts, blocks, rec, some)
<1> SUFFICES ASSUME NEW k \in 2 .. Len(some)
             PROVE  /\ some[k].kind # "header"
                    /\ some[k].kind = "block" /\ some[k].damage = "none"
                          => Sound(cuts, blocks, rec, some[k])
  BY Zenon DEF Arrives
<1>1. PICK i \in 2 .. Len(all) : some[k] = all[i]
  OBVIOUS
<1> QED
  BY <1>1 DEF Arrives

\* A trace cut short arrives.
LEMMA CutArrives ==
    ASSUME NEW cuts, NEW blocks, NEW rec, NEW all, Arrives(cuts, blocks, rec, all),
           NEW k \in 0 .. Len(all)
    PROVE  Arrives(cuts, blocks, rec, SubSeq(all, 1, k))
<1> DEFINE some == SubSeq(all, 1, k)
<1>1. all \in Seq(ArrivedSet) /\ Len(all) \in Nat
  BY DEF Arrives
<1>2. \A i \in 1 .. k : all[i] \in ArrivedSet
  BY <1>1
<1>3. /\ some \in Seq(ArrivedSet) /\ Len(some) = k
      /\ \A i \in 1 .. k : some[i] = all[i]
  BY <1>1, <1>2, SubSeqProperties
<1> HIDE DEF some
<1>4. \A i \in 2 .. Len(some) : i \in 2 .. Len(all) /\ some[i] = all[i]
  BY <1>1, <1>3
<1>5. Arrives(cuts, blocks, rec, some)
  BY <1>3, <1>4, ChoiceArrives
<1> QED
  BY <1>5 DEF some

\* Something inserted goes between what was before and what was behind.
LEMMA InsertIs ==
    ASSUME NEW s, NEW j \in Nat, NEW e
    PROVE  InsertAt(s, j + 1, e) = (SubSeq(s, 1, j) \o <<e>>) \o SubSeq(s, j + 1, Len(s))
<1> DEFINE i == j + 1
<1>1. i - 1 = j
  OBVIOUS
<1> HIDE DEF i
<1>2. InsertAt(s, i, e) = (SubSeq(s, 1, i - 1) \o <<e>>) \o SubSeq(s, i, Len(s))
  BY Zenon DEF InsertAt
<1>3. InsertAt(s, i, e) = (SubSeq(s, 1, j) \o <<e>>) \o SubSeq(s, i, Len(s))
  BY <1>1, <1>2, Zenon
<1> QED
  BY <1>3, Zenon DEF i

\* Where each piece is then.
Inserted(more, all, j, x) ==
    /\ more \in Seq(ArrivedSet) /\ Len(more) = Len(all) + 1
    /\ \A i \in 1 .. j : more[i] = all[i]
    /\ more[j + 1] = x
    /\ \A i \in j + 2 .. Len(all) + 1 : more[i] = all[i - 1]

\* It is there.
LEMMA InsertedIs ==
    ASSUME NEW all \in Seq(ArrivedSet), NEW j \in 0 .. Len(all),
           NEW x \in ArrivedSet, NEW more, more = InsertAt(all, j + 1, x)
    PROVE  Inserted(more, all, j, x)
<1> DEFINE front == SubSeq(all, 1, j)
           back == SubSeq(all, j + 1, Len(all))
           some == (front \o <<x>>) \o back
<1>1. Len(all) \in Nat /\ j \in Nat /\ j + 1 - 1 = j
  OBVIOUS
<1>2. \A i \in 1 .. Len(all) : all[i] \in ArrivedSet
  OBVIOUS
<1>3. /\ front \in Seq(ArrivedSet) /\ Len(front) = j
      /\ \A i \in 1 .. j : front[i] = all[i]
  BY <1>1, <1>2, SubSeqProperties
<1>4. /\ back \in Seq(ArrivedSet) /\ Len(back) = Len(all) - j
      /\ \A i \in 1 .. Len(all) - j : back[i] = all[i + j]
  <2>1. \A i \in j + 1 .. Len(all) : all[i] \in ArrivedSet
    BY <1>1, <1>2
  <2>2. /\ back \in Seq(ArrivedSet)
        /\ Len(back) = IF j + 1 <= Len(all) THEN Len(all) - (j + 1) + 1 ELSE 0
        /\ \A i \in 1 .. Len(all) - (j + 1) + 1 : back[i] = all[j + 1 + i - 1]
    BY <1>1, <2>1, SubSeqProperties
  <2> HIDE DEF back
  <2> QED
    BY <1>1, <2>2
<1>5. more = some
  BY <1>1, InsertIs
<1> HIDE DEF front, back
<1>6. /\ some \in Seq(ArrivedSet) /\ Len(some) = Len(all) + 1
      /\ \A i \in 1 .. j : some[i] = front[i]
      /\ some[j + 1] = x
      /\ \A i \in j + 2 .. Len(all) + 1 : some[i] = back[i - (j + 1)]
  <2>1. /\ front \o <<x>> \in Seq(ArrivedSet) /\ Len(front \o <<x>>) = j + 1
        /\ \A i \in 1 .. j : (front \o <<x>>)[i] = front[i]
        /\ (front \o <<x>>)[j + 1] = x
    BY <1>1, <1>3
  <2> DEFINE y == front \o <<x>>
  <2>2. /\ y \in Seq(ArrivedSet) /\ Len(y) = j + 1
        /\ \A i \in 1 .. j : y[i] = front[i]
        /\ y[j + 1] = x
    BY <2>1
  <2> HIDE DEF y
  <2>3. /\ y \o back \in Seq(ArrivedSet)
        /\ Len(y \o back) = Len(y) + Len(back)
        /\ \A i \in 1 .. Len(y) + Len(back) :
              (y \o back)[i] = IF i <= Len(y) THEN y[i] ELSE back[i - Len(y)]
    BY <1>4, <2>2, ConcatProperties
  <2> DEFINE z == y \o back
  <2> HIDE DEF z
  <2>4. /\ z \in Seq(ArrivedSet) /\ Len(z) = j + 1 + (Len(all) - j)
        /\ \A i \in 1 .. j + 1 + (Len(all) - j) :
              z[i] = IF i <= j + 1 THEN y[i] ELSE back[i - (j + 1)]
    BY <1>4, <2>2, <2>3, SMTT(60) DEF z
  <2>5. j + 1 + (Len(all) - j) = Len(all) + 1 /\ j + 1 <= Len(all) + 1
    BY <1>1
  <2>6. \A i \in 1 .. j + 1 : z[i] = y[i]
    BY <1>1, <2>4, SMTT(60)
  <2>7. \A i \in j + 2 .. Len(all) + 1 : z[i] = back[i - (j + 1)]
    BY <1>1, <2>4, SMTT(60)
  <2>8. some = z
    BY DEF z, y
  <2> HIDE DEF some
  <2> QED
    BY <1>1, <2>2, <2>4, <2>5, <2>6, <2>7, <2>8
<1> HIDE DEF some
<1>7. ASSUME NEW i \in j + 2 .. Len(all) + 1 PROVE some[i] = all[i - 1]
  <2>1. i - (j + 1) \in 1 .. Len(all) - j /\ i - (j + 1) + j = i - 1
    BY <1>1
  <2>2. some[i] = back[i - (j + 1)]
    BY <1>6
  <2>3. back[i - (j + 1)] = all[i - (j + 1) + j]
    BY <1>4, <2>1
  <2> QED
    BY <2>1, <2>2, <2>3
<1> QED
  BY <1>3, <1>5, <1>6, <1>7 DEF Inserted

\* A trace with a block repeated arrives.
LEMMA TwiceArrives ==
    ASSUME NEW cuts, NEW blocks, NEW rec, NEW all, Arrives(cuts, blocks, rec, all),
           NEW k \in 2 .. Len(all), NEW j \in k .. Len(all)
    PROVE  Arrives(cuts, blocks, rec, InsertAt(all, j + 1, all[k]))
<1> DEFINE x == all[k]
           some == InsertAt(all, j + 1, x)
<1>1. /\ all \in Seq(ArrivedSet) /\ Len(all) \in Nat /\ j \in 0 .. Len(all)
      /\ x \in ArrivedSet
  BY DEF Arrives
<1> HIDE DEF x
<1>2. /\ some \in Seq(ArrivedSet) /\ Len(some) = Len(all) + 1
      /\ \A i \in 1 .. j : some[i] = all[i]
      /\ some[j + 1] = x
      /\ \A i \in j + 2 .. Len(all) + 1 : some[i] = all[i - 1]
  <2>1. some = InsertAt(all, j + 1, x)
    OBVIOUS
  <2> HIDE DEF some
  <2>2. Inserted(some, all, j, x)
    BY ONLY <1>1, <2>1, InsertedIs, Zenon
  <2> QED
    BY <2>2, Zenon DEF Inserted
<1> HIDE DEF some
<1>3. ASSUME NEW i \in 2 .. Len(some)
      PROVE  \E n \in 2 .. Len(all) : some[i] = all[n]
  <2>1. CASE i <= j
    BY <1>1, <1>2, <2>1
  <2>2. CASE i = j + 1
    BY <1>2, <2>2 DEF x
  <2>3. CASE i > j + 1
    <3>1. i \in j + 2 .. Len(all) + 1 /\ i - 1 \in 2 .. Len(all)
      BY <1>1, <1>2, <2>3
    <3> QED
      BY <1>2, <3>1
  <2> QED
    BY <1>1, <2>1, <2>2, <2>3
<1>4. Arrives(cuts, blocks, rec, some)
  BY <1>2, <1>3, ChoiceArrives
<1> QED
  BY <1>4 DEF some, x

\* Whatever the link does.
LEMMA CarryArrives ==
    ASSUME NEW cuts, NEW blocks, NEW rec, Sent(cuts, blocks, rec, wire),
           CarryDamaged \/ CarryCut \/ CarryTwice
    PROVE  Arrives(cuts, blocks, rec, medium'.pieces)
<1>1. Len(wire) \in Nat
  BY DEF Sent
<1>2. CASE CarryDamaged
  <2>1. PICK k \in Blocks \cup {0}, how \in {"crc", "length", "zero"} :
           medium' = [pieces |-> Arrived(k, how), tail |-> "none"]
    BY <1>2 DEF CarryDamaged
  <2>2. medium'.pieces = Arrived(k, how)
    BY <2>1
  <2> QED
    BY <2>2, ArrivedArrives
<1> DEFINE all == Arrived(0, "none")
<1>3. /\ Arrives(cuts, blocks, rec, all) /\ Len(all) = Len(wire)
      /\ \A k \in 1 .. Len(wire) : all[k].kind = wire[k].kind
  BY ArrivedArrives
<1>4. CASE CarryCut
  <2>1. PICK k \in 0 .. Len(wire) - 1, tail \in {"none", "word", "block"} :
           medium' = [pieces |-> SubSeq(all, 1, k), tail |-> tail]
    BY <1>4 DEF CarryCut
  <2>2. medium'.pieces = SubSeq(all, 1, k) /\ k \in 0 .. Len(all)
    BY <1>1, <1>3, <2>1
  <2> QED
    BY <1>3, <2>2, CutArrives
<1>5. CASE CarryTwice
  <2>1. PICK k \in Blocks :
          \E j \in k .. Len(wire) :
             medium' = [pieces |-> InsertAt(all, j + 1, all[k]), tail |-> "none"]
    BY <1>5 DEF CarryTwice
  <2>2. PICK j \in k .. Len(wire) :
             medium' = [pieces |-> InsertAt(all, j + 1, all[k]), tail |-> "none"]
    BY <2>1
  <2>3. k \in 2 .. Len(all)
    BY <1>1, <1>3 DEF Blocks, Sent
  <2>4. j \in k .. Len(all) /\ medium'.pieces = InsertAt(all, j + 1, all[k])
    BY <1>3, <2>2
  <2> QED
    BY <1>3, <2>3, <2>4, TwiceArrives
<1> QED
  BY <1>2, <1>4, <1>5

--------------------------------------------------------------------------------
(* The trace on its way.                                                     *)

\* What has been read of the calls are calls.
LEMMA OutIsCalls ==
    ASSUME NEW cuts, NEW blocks, NEW rec \in Seq(AllCalls), NEW r, NEW out,
           Reads(cuts, blocks, rec, r, out)
    PROVE  out \in Seq(AllCalls) /\ rec \in Seq(EventSet)
<1>1. /\ out \in Seq(EventSet) /\ Len(out) <= Len(rec)
      /\ \A i \in 1 .. Len(out) : out[i] = rec[i]
  BY Zenon DEF Reads
<1>2. \A i \in 1 .. Len(out) : out[i] \in AllCalls
  <2>1. ASSUME NEW i \in 1 .. Len(out) PROVE out[i] \in AllCalls
    <3>1. i \in 1 .. Len(rec)
      BY <1>1
    <3> QED
      BY <1>1, <3>1
  <2> QED
    BY <2>1
<1>3. out \in Seq(AllCalls)
  <2>1. out = [i \in 1 .. Len(out) |-> out[i]] /\ Len(out) \in Nat
    BY <1>1
  <2>2. out \in [1 .. Len(out) -> AllCalls]
    BY <1>2, <2>1, Zenon
  <2> QED
    BY <2>1, <2>2
<1> QED
  BY <1>3, CallsAreEvents

\* The host, for the cuts of the device.
Host(cuts) ==
    /\ phase # "read" => reader = NewReader /\ got = <<>>
    /\ phase \in {"open", "read"}
          => Arrives(cuts, writer.block_seq, recorded, medium.pieces)
    /\ phase = "read" => Reads(cuts, writer.block_seq, recorded, reader, got)

Inv ==
    /\ phase \in {"begin", "write", "carry", "open", "read"}
    /\ \E cuts : Kept(cuts, writer, wire, recorded) /\ Host(cuts)

\* What the invariant says while the device records.
LEMMA WhileRecording ==
    ASSUME Inv, phase \in {"begin", "write"}
    PROVE  /\ \E cuts : Kept(cuts, writer, wire, recorded)
           /\ reader = NewReader /\ got = <<>>
BY Zenon DEF Inv, Host

\* The device has done something.
LEMMA DeviceInv ==
    ASSUME Inv, phase \in {"begin", "write"}, UNCHANGED <<reader, got>>,
           phase' \in {"begin", "write", "carry"},
           \E cuts : Kept(cuts, writer', wire', recorded')
    PROVE  Inv'
<1>1. reader' = NewReader /\ got' = <<>>
  BY WhileRecording
<1>2. PICK cuts : Kept(cuts, writer', wire', recorded')
  OBVIOUS
<1>3. /\ phase' # "read" /\ phase' # "open"
      /\ phase' \in {"begin", "write", "carry", "open", "read"}
  OBVIOUS
<1>4. Host(cuts)'
  BY <1>1, <1>3 DEF Host
<1> QED
  BY <1>2, <1>3, <1>4 DEF Inv

\* An outcome whose event is recorded iff it was staged.
LEMMA BecomesKept ==
    ASSUME NEW o, NEW ev, Becomes(o, ev), writer.events \in Nat,
           \/ o.w.events = writer.events /\ \E c : Kept(c, o.w, o.sink, recorded)
           \/ /\ o.w.events = writer.events + 1
              /\ \E c : Kept(c, o.w, o.sink, Append(recorded, ev))
    PROVE  \E cuts : Kept(cuts, writer', wire', recorded')
<1>1. CASE o.w.events = writer.events /\ \E c : Kept(c, o.w, o.sink, recorded)
  <2>1. ~(o.w.events > writer.events)
    BY <1>1
  <2> QED
    BY <1>1, <2>1 DEF Becomes
<1>2. CASE /\ o.w.events = writer.events + 1
           /\ \E c : Kept(c, o.w, o.sink, Append(recorded, ev))
  <2>1. o.w.events > writer.events
    BY <1>2
  <2> QED
    BY <1>2, <2>1 DEF Becomes
<1> QED
  BY <1>1, <1>2

\* Initially nothing was recorded.
LEMMA InitInv == Init => Inv
<1> SUFFICES ASSUME Init PROVE Inv
  OBVIOUS
<1>1. /\ NewWriter \in Writers /\ NewWriter.staged = <<>> /\ NewWriter.used = 0
      /\ NewWriter.last_ts = 0 /\ NewWriter.last_addr = 0
      /\ NewWriter.block_seq = 0 /\ NewWriter.blocks_lost = 0
      /\ NewWriter.events = 0 /\ NewWriter.ok = FALSE
  <2>1. NoError \in Errors /\ <<>> \in Seq(EncodedSet)
    BY DEF NoError, Errors
  <2>2. NewWriter \in Writers
    BY <2>1 DEF NewWriter, Writers
  <2> QED
    BY <2>2 DEF NewWriter
<1>2. Kept([s \in Nat |-> 0], NewWriter, <<>>, <<>>)
  <2> DEFINE sink == <<>>
             w == NewWriter
  <2>1. sink = <<>> /\ w.ok = FALSE
    BY <1>1
  <2>2. /\ w \in Writers /\ w.staged = <<>> /\ w.used = 0 /\ w.last_ts = 0
        /\ w.last_addr = 0 /\ w.block_seq = 0 /\ w.blocks_lost = 0 /\ w.events = 0
    BY <1>1
  <2> HIDE DEF sink, w
  <2>3. Kept([s \in Nat |-> 0], w, sink, <<>>)
    BY <2>1, <2>2, FreshKept
  <2> QED
    BY <2>3 DEF sink, w
<1>3. \A cuts : Host(cuts)
  BY DEF Init, Host
<1> QED
  BY <1>2, <1>3 DEF Init, Inv

\* begin, the first time or not.
LEMMA BeginInv ==
    ASSUME TakesOrRefuses, Inv, CallBegin
    PROVE  Inv'
<1>1. PICK cuts : Kept(cuts, writer, wire, recorded)
  BY WhileRecording DEF CallBegin
<1>2. PICK valid \in BOOLEAN : \E o \in Begin(writer, wire, valid) :
          /\ writer' = o.w /\ wire' = o.sink
          /\ phase' = IF o.w.started THEN "write" ELSE "begin"
  BY DEF CallBegin
<1>3. PICK o \in Begin(writer, wire, valid) :
          /\ writer' = o.w /\ wire' = o.sink
          /\ phase' = IF o.w.started THEN "write" ELSE "begin"
  BY <1>2
<1>4. \E c : Kept(c, o.w, o.sink, recorded)
  BY <1>1, BeginKept
<1>5. \E c : Kept(c, writer', wire', recorded')
  BY <1>3, <1>4 DEF CallBegin
<1>6. phase' \in {"begin", "write", "carry"}
  BY <1>3
<1> QED
  BY <1>5, <1>6, DeviceInv DEF CallBegin

\* One of the calls that record an event.
LEMMA WriteInv ==
    ASSUME TakesOrRefuses, Inv, CallWrite
    PROVE  Inv'
<1>1. PICK cuts : Kept(cuts, writer, wire, recorded)
  BY WhileRecording DEF CallWrite
<1>2. writer.events \in Nat
  BY <1>1 DEF Kept, Counted, Writers
<1>3. PICK c \in Calls, size \in EventSizes :
          \E o \in Write(writer, wire, c, size) : Becomes(o, c)
  BY DEF CallWrite
<1>4. PICK o \in Write(writer, wire, c, size) : Becomes(o, c)
  BY <1>3
<1>5. c \in AllCalls
  BY DEF AllCalls
<1>6. \/ o.w.events = writer.events /\ \E d : Kept(d, o.w, o.sink, recorded)
      \/ /\ o.w.events = writer.events + 1
         /\ \E d : Kept(d, o.w, o.sink, Append(recorded, c))
  BY <1>1, <1>5, WriteKept
<1>7. \E d : Kept(d, writer', wire', recorded')
  BY <1>2, <1>4, <1>6, BecomesKept
<1>8. phase \in {"begin", "write"} /\ phase' \in {"begin", "write", "carry"}
      /\ UNCHANGED <<reader, got>>
  BY <1>4 DEF CallWrite, Becomes
<1> QED
  BY <1>7, <1>8, DeviceInv

\* finish.
LEMMA FinishInv ==
    ASSUME TakesOrRefuses, Inv, CallFinish
    PROVE  Inv'
<1>1. PICK cuts : Kept(cuts, writer, wire, recorded)
  BY WhileRecording DEF CallFinish
<1>2. writer.events \in Nat
  BY <1>1 DEF Kept, Counted, Writers
<1>3. PICK ts \in StopTimes, size \in EventSizes :
          \E o \in Finish(writer, wire, ts, size) : Becomes(o, StopEvent(ts))
  BY DEF CallFinish
<1>4. PICK o \in Finish(writer, wire, ts, size) : Becomes(o, StopEvent(ts))
  BY <1>3
<1>5. \/ o.w.events = writer.events /\ \E d : Kept(d, o.w, o.sink, recorded)
      \/ /\ o.w.events = writer.events + 1
         /\ \E d : Kept(d, o.w, o.sink, Append(recorded, StopEvent(ts)))
  BY <1>1, FinishKept
<1>6. \E d : Kept(d, writer', wire', recorded')
  BY <1>2, <1>4, <1>5, BecomesKept
<1>7. phase \in {"begin", "write"} /\ phase' \in {"begin", "write", "carry"}
      /\ UNCHANGED <<reader, got>>
  BY <1>4 DEF CallFinish, Becomes
<1> QED
  BY <1>6, <1>7, DeviceInv

\* The trace is under way.
LEMMA CarryInv ==
    ASSUME Inv, Carry
    PROVE  Inv'
<1>1. PICK cuts : Kept(cuts, writer, wire, recorded) /\ Host(cuts)
  BY DEF Inv
<1>2. Sent(cuts, writer.block_seq, recorded, wire)
  BY <1>1 DEF Kept
<1>3. Arrives(cuts, writer.block_seq, recorded, medium'.pieces)
  BY <1>2, CarryArrives DEF Carry
<1>4. reader = NewReader /\ got = <<>>
  BY <1>1 DEF Host, Carry
<1>5. /\ phase' = "open" /\ writer' = writer /\ wire' = wire /\ recorded' = recorded
      /\ reader' = reader /\ got' = got
  BY DEF Carry
<1>6. Host(cuts)'
  BY <1>3, <1>4, <1>5 DEF Host
<1>7. Kept(cuts, writer', wire', recorded')
  BY <1>1, <1>5, Zenon
<1> QED
  BY <1>5, <1>6, <1>7 DEF Inv

\* The host opens it.
LEMMA OpenInv ==
    ASSUME Inv, CallOpen
    PROVE  Inv'
<1>1. PICK cuts : Kept(cuts, writer, wire, recorded) /\ Host(cuts)
  BY DEF Inv
<1>2. writer.block_seq \in Nat /\ recorded \in Seq(AllCalls) /\ cuts[0] = 0
  BY <1>1 DEF Kept, Counted, Writers
<1>3. /\ phase = "open" /\ phase' = "read" /\ writer' = writer /\ wire' = wire
      /\ recorded' = recorded /\ medium' = medium /\ got' = got
      /\ reader' = Open(medium)
  BY DEF CallOpen
<1>4. Arrives(cuts, writer.block_seq, recorded, medium.pieces) /\ got = <<>>
  BY <1>1, <1>3 DEF Host
<1>5. Reads(cuts, writer.block_seq, recorded, reader', <<>>)
  <2>1. recorded \in Seq(EventSet)
    BY <1>2, CallsAreEvents
  <2> QED
    BY <1>2, <1>3, <2>1, OpenReads
<1>6. Host(cuts)'
  BY <1>3, <1>4, <1>5 DEF Host
<1>7. Kept(cuts, writer', wire', recorded')
  BY <1>1, <1>3, Zenon
<1> QED
  BY <1>3, <1>6, <1>7 DEF Inv

\* What a call of next does.
LEMMA CallNextReads ==
    ASSUME Inv, CallNext
    PROVE  \E cuts : /\ Kept(cuts, writer, wire, recorded) /\ Host(cuts)
                     /\ Reads(cuts, writer.block_seq, recorded, reader, got)
                     /\ Answered(cuts, writer.block_seq, recorded, reader, got,
                                 NextEvent(reader, medium))
<1>1. PICK cuts : Kept(cuts, writer, wire, recorded) /\ Host(cuts)
  BY DEF Inv
<1>2. writer.block_seq \in Nat /\ recorded \in Seq(AllCalls)
  BY <1>1 DEF Kept, Counted, Writers
<1>3. /\ Reads(cuts, writer.block_seq, recorded, reader, got)
      /\ Arrives(cuts, writer.block_seq, recorded, medium.pieces)
  BY <1>1 DEF Host, CallNext
<1>4. ~reader.done /\ reader.err = NoReadError
  BY Zenon DEF CallNext, Stopped
<1>5. Answered(cuts, writer.block_seq, recorded, reader, got,
               NextEvent(reader, medium))
  <2>1. recorded \in Seq(EventSet)
    BY <1>2, CallsAreEvents
  <2> QED
    BY <1>2, <1>3, <1>4, <2>1, NextReads
<1> QED
  BY <1>1, <1>3, <1>5

\* The host asks for an event.
LEMMA CallNextInv ==
    ASSUME Inv, CallNext
    PROVE  Inv'
<1> DEFINE n == NextEvent(reader, medium)
<1>1. PICK cuts : /\ Kept(cuts, writer, wire, recorded) /\ Host(cuts)
                  /\ Reads(cuts, writer.block_seq, recorded, reader, got)
                  /\ Answered(cuts, writer.block_seq, recorded, reader, got, n)
  BY CallNextReads
<1>2. /\ phase = "read" /\ phase' = "read" /\ writer' = writer /\ wire' = wire
      /\ recorded' = recorded /\ medium' = medium
      /\ reader' = n.r /\ got' = got \o n.out
  BY DEF CallNext
<1> HIDE DEF n
<1>3. got \in Seq(EventSet)
  BY <1>1 DEF Reads
<1>4. Reads(cuts, writer.block_seq, recorded, reader', got')
  <2>1. CASE n.out = <<>> /\ Reads(cuts, writer.block_seq, recorded, n.r, got)
    <3>1. got' = got
      BY <1>2, <1>3, <2>1
    <3> QED
      BY <1>2, <2>1, <3>1
  <2>2. CASE /\ Len(got) < Len(recorded) /\ n.out = <<recorded[Len(got) + 1]>>
             /\ Reads(cuts, writer.block_seq, recorded, n.r,
                      Append(got, recorded[Len(got) + 1]))
             /\ n.r.done = reader.done /\ n.r.err = reader.err
    <3>1. got' = Append(got, recorded[Len(got) + 1])
      BY <1>2, <1>3, <2>2
    <3> QED
      BY <1>2, <2>2, <3>1
  <2> QED
    BY <1>1, <2>1, <2>2 DEF Answered
<1>5. Host(cuts)'
  BY <1>1, <1>2, <1>4 DEF Host
<1>6. Kept(cuts, writer', wire', recorded')
  BY <1>1, <1>2, Zenon
<1> QED
  BY <1>2, <1>5, <1>6 DEF Inv

\* Every step keeps the invariant.
LEMMA NextInv == TakesOrRefuses /\ Inv /\ [Next]_vars => Inv'
<1> SUFFICES ASSUME TakesOrRefuses, Inv, [Next]_vars PROVE Inv'
  OBVIOUS
<1>1. CASE UNCHANGED vars
  BY <1>1 DEF vars, Inv, Host
<1> QED
  BY <1>1, BeginInv, WriteInv, FinishInv, CarryInv, OpenInv, CallNextInv DEF Next

\* It always holds.
LEMMA Invariance ==
    ASSUME TakesOrRefuses
    PROVE  Spec => []Inv
<1>1. Inv /\ [Next]_vars => Inv'
  BY NextInv
<1> QED
  BY <1>1, InitInv, PTL DEF Spec

\* For every block size, length of the encodings and number of events, the block
\* buffer never overflows, the counters agree with what was recorded, time never
\* runs backwards in the recording, and the header is the first piece and the
\* only one of its kind, whatever the sink refuses.
THEOREM StreamTypeCorrect ==
    ASSUME TakesOrRefuses
    PROVE  Spec => []TypeOK
<1>1. Inv => TypeOK
  <2> SUFFICES ASSUME Inv PROVE TypeOK
    OBVIOUS
  <2>1. PICK cuts : Kept(cuts, writer, wire, recorded)
    BY DEF Inv
  <2>2. writer \in Writers /\ recorded \in Seq(AllCalls)
    BY <2>1 DEF Kept, Counted
  <2>3. /\ writer.used \in Nat /\ writer.blocks_lost \in Nat
        /\ writer.block_seq \in Nat /\ PayloadCap \in Nat
    BY <2>2, EventSizesAssumption DEF Writers
  <2>4. writer.used \in 0 .. PayloadCap /\ writer.blocks_lost \in 0 .. writer.block_seq
    <3>1. writer.used <= PayloadCap /\ writer.blocks_lost <= writer.block_seq
      BY <2>1 DEF Kept, Counted
    <3> QED
      BY ONLY <2>3, <3>1
  <2>5. Values(recorded) \subseteq AllCalls
    BY <2>2 DEF Values
  <2>6. \A k \in 1 .. Len(wire) : wire[k].kind = "header" <=> k = 1
    BY <2>1 DEF Kept, Sent
  <2>7. /\ (writer.used = 0 <=> writer.staged = <<>>) /\ writer.events = Len(recorded)
        /\ \A k \in 1 .. Len(recorded) - 1 : recorded[k].ts <= recorded[k + 1].ts
    BY <2>1 DEF Kept, Counted
  <2> QED
    BY <2>4, <2>5, <2>6, <2>7 DEF Inv, TypeOK
<1> QED
  BY <1>1, Invariance, PTL

\* Whatever the sink refuses and the link cuts, damages or repeats, the reader
\* hands out the recorded events from the first on and no other.
THEOREM PrefixCorrect ==
    ASSUME TakesOrRefuses
    PROVE  Spec => []GotIsPrefix
<1>1. Inv => GotIsPrefix
  <2> SUFFICES ASSUME Inv PROVE GotIsPrefix
    OBVIOUS
  <2>1. PICK cuts : Kept(cuts, writer, wire, recorded) /\ Host(cuts)
    BY DEF Inv
  <2>2. recorded \in Seq(AllCalls)
    BY <2>1 DEF Kept, Counted
  <2>3. /\ got \in Seq(AllCalls) /\ Len(got) <= Len(recorded)
        /\ \A i \in 1 .. Len(got) : got[i] = recorded[i]
    <3>1. CASE phase = "read"
      <4>1. Reads(cuts, writer.block_seq, recorded, reader, got)
        BY <2>1, <3>1 DEF Host
      <4>2. got \in Seq(AllCalls)
        BY <2>2, <4>1, OutIsCalls
      <4> QED
        BY <4>1, <4>2 DEF Reads
    <3>2. CASE phase # "read"
      BY <2>1, <2>2, <3>2 DEF Host
    <3> QED
      BY <3>1, <3>2
  <2>4. SubSeq(got, 1, Len(got)) = SubSeq(recorded, 1, Len(got))
    <3>1. Len(got) \in Nat /\ Len(recorded) \in Nat
      BY <2>2, <2>3
    <3> DEFINE n == Len(got)
    <3>2. /\ \A i \in 1 .. n : got[i] \in AllCalls
          /\ \A i \in 1 .. n : recorded[i] \in AllCalls
      BY <2>2, <2>3
    <3> HIDE DEF n
    <3>3. n \in Nat
      BY <3>1 DEF n
    <3>4. /\ SubSeq(got, 1, n) \in Seq(AllCalls)
          /\ Len(SubSeq(got, 1, n)) = n
          /\ \A i \in 1 .. n : SubSeq(got, 1, n)[i] = got[i]
      BY <3>2, <3>3, SubSeqProperties
    <3>5. /\ SubSeq(recorded, 1, n) \in Seq(AllCalls)
          /\ Len(SubSeq(recorded, 1, n)) = n
          /\ \A i \in 1 .. n : SubSeq(recorded, 1, n)[i] = recorded[i]
      BY <3>2, <3>3, SubSeqProperties
    <3>6. \A i \in 1 .. n : got[i] = recorded[i]
      BY <2>3 DEF n
    <3>7. SubSeq(got, 1, n) = SubSeq(recorded, 1, n)
      <4> DEFINE a == SubSeq(got, 1, n)
                 b == SubSeq(recorded, 1, n)
      <4>1. /\ a \in Seq(AllCalls) /\ b \in Seq(AllCalls) /\ Len(a) = Len(b)
            /\ \A i \in 1 .. Len(a) : a[i] = b[i]
        BY <3>4, <3>5, <3>6
      <4> HIDE DEF a, b
      <4>2. a = b
        BY <4>1, SeqEqual
      <4> QED
        BY <4>2 DEF a, b
    <3> QED
      BY <3>7 DEF n
  <2> QED
    BY <2>3, <2>4 DEF GotIsPrefix, IsPrefix
<1> QED
  BY <1>1, Invariance, PTL

\* finish hands nothing to the sink once an error has latched.
LEMMA FailedFinish ==
    ASSUME NEW w, ~w.ok, w.started, NEW sink, NEW ts, NEW size,
           NEW o \in Finish(w, sink, ts, size)
    PROVE  o.sink = sink
<1>1. CASE ~w.started \/ w.finished
  <2>1. o = [w |-> w, sink |-> sink]
    BY <1>1 DEF Finish
  <2> QED
    BY <2>1
<1>2. CASE ~(~w.started \/ w.finished)
  <2> DEFINE x == [w |-> w, sink |-> sink]
             Flushes(y) == IF y.w.ok THEN FlushBlock(y.w, y.sink) ELSE {y}
             Ends(y) == IF y.w.ok THEN Emit(y.w, y.sink, EndPiece) ELSE {y}
             stopped == Write(w, sink, StopEvent(ts), size)
             flushed == UNION {Flushes(y) : y \in stopped}
             ended == UNION {Ends(y) : y \in flushed}
  <2>1. o \in {Closed(y) : y \in ended}
    BY <1>2 DEF Finish, Closed
  <2>2. stopped = {x}
    BY Zenon DEF Write, Recording
  <2>3. x.w = w /\ x.sink = sink
    OBVIOUS
  <2>4. Flushes(x) = {x} /\ Ends(x) = {x}
    BY <2>3, Zenon
  <2> HIDE DEF x, Flushes, Ends
  <2>5. flushed = {x}
    BY <2>2, <2>4
  <2>6. ended = {x}
    BY <2>4, <2>5
  <2>7. o = Closed(x)
    BY <2>1, <2>6
  <2>8. o.sink = x.sink
    <3>1. IsOutcome(x)
      BY DEF x, IsOutcome
    <3> QED
      BY <2>7, <3>1 DEF Closed, IsOutcome
  <2> QED
    BY <2>3, <2>8
<1> QED
  BY <1>1, <1>2

\* After an error has latched the writer hands nothing more to the sink.
THEOREM SilenceCorrect == Spec => ErrorSilencesTheWriter
<1>1. [Next]_vars => (writer.started /\ ~writer.ok => wire' = wire)
  <2> SUFFICES ASSUME [Next]_vars, writer.started, ~writer.ok
               PROVE  wire' = wire
    OBVIOUS
  <2>1. CASE CallBegin
    <3>1. PICK valid \in BOOLEAN : \E o \in Begin(writer, wire, valid) :
              writer' = o.w /\ wire' = o.sink
      BY <2>1 DEF CallBegin
    <3>2. PICK o \in Begin(writer, wire, valid) : writer' = o.w /\ wire' = o.sink
      BY <3>1
    <3>3. o = [w |-> WFail(writer, "begin() called twice"), sink |-> wire]
      BY Zenon DEF Begin
    <3> QED
      BY <3>2, <3>3
  <2>2. CASE CallWrite
    <3>1. PICK c \in Calls, size \in EventSizes :
             \E o \in Write(writer, wire, c, size) : Becomes(o, c)
      BY <2>2 DEF CallWrite
    <3>2. PICK o \in Write(writer, wire, c, size) : Becomes(o, c)
      BY <3>1
    <3>3. o = [w |-> writer, sink |-> wire]
      BY Zenon DEF Write, Recording
    <3> QED
      BY <3>2, <3>3 DEF Becomes
  <2>3. CASE CallFinish
    <3>1. PICK ts \in StopTimes, size \in EventSizes :
             \E o \in Finish(writer, wire, ts, size) : Becomes(o, StopEvent(ts))
      BY <2>3 DEF CallFinish
    <3>2. PICK o \in Finish(writer, wire, ts, size) : Becomes(o, StopEvent(ts))
      BY <3>1
    <3>3. o.sink = wire
      BY FailedFinish
    <3> QED
      BY <3>2, <3>3 DEF Becomes
  <2>4. CASE Carry \/ CallOpen \/ CallNext \/ UNCHANGED vars
    BY <2>4 DEF Carry, CallOpen, CallNext, vars
  <2> QED
    BY <2>1, <2>2, <2>3, <2>4 DEF Next
<1> QED
  BY <1>1, PTL DEF Spec, ErrorSilencesTheWriter

\* A reader has stopped or it has not.
LEMMA StoppedOrNot ==
    /\ Stopped \in BOOLEAN /\ (Stopped)' \in BOOLEAN
    /\ ~Stopped => Stopped = FALSE
    /\ ~Stopped /\ ~(Stopped)' => (Stopped)' = Stopped
<1>1. Stopped = TRUE \/ Stopped = FALSE
  BY DEF Stopped
<1>2. (Stopped)' = TRUE \/ (Stopped)' = FALSE
  BY DEF Stopped
<1> QED
  BY <1>1, <1>2, Zenon

\* The host may be handed the next recorded event, or nothing; then it may stop.
LEMMA CallNextStreams ==
    ASSUME Inv, CallNext
    PROVE  Stream!Next \/ UNCHANGED <<recorded, got, Stopped>>
<1> DEFINE n == NextEvent(reader, medium)
<1>1. PICK cuts : /\ Reads(cuts, writer.block_seq, recorded, reader, got)
                  /\ Answered(cuts, writer.block_seq, recorded, reader, got, n)
  BY CallNextReads
<1>2. /\ recorded' = recorded /\ reader' = n.r /\ got' = got \o n.out /\ ~Stopped
  BY DEF CallNext
<1> HIDE DEF n
<1>3. got \in Seq(EventSet)
  BY <1>1 DEF Reads
<1>4. CASE n.out = <<>>
  <2>1. got' = got
    BY <1>2, <1>3, <1>4
  <2>2. CASE Stopped'
    <3>1. Stream!Stop
      BY <1>2, <2>1, <2>2, Zenon DEF Stream!Stop
    <3> QED
      BY <3>1, Zenon DEF Stream!Next
  <2>3. CASE ~Stopped'
    BY <1>2, <2>1, <2>3, StoppedOrNot, Zenon
  <2> QED
    BY <2>2, <2>3, Zenon
<1>5. CASE n.out # <<>>
  <2>1. /\ Len(got) < Len(recorded) /\ n.out = <<recorded[Len(got) + 1]>>
        /\ n.r.done = reader.done /\ n.r.err = reader.err
    BY <1>1, <1>5, Zenon DEF Answered
  <2>2. got' = Append(got, recorded[Len(got) + 1])
    BY <1>2, <1>3, <2>1
  <2>3. Stopped' = Stopped
    BY <1>2, <2>1, Zenon DEF Stopped
  <2>4. Stream!Receive
    BY <1>2, <2>1, <2>2, <2>3, Zenon DEF Stream!Receive
  <2> QED
    BY <2>4, Zenon DEF Stream!Next
<1> QED
  BY <1>4, <1>5

\* The trace implements the abstract stream: every step of the device, the link
\* and the host is one of recording an event, handing out the next one or
\* stopping, or changes nothing of them.
THEOREM StreamIsImplemented ==
    ASSUME TakesOrRefuses
    PROVE  Spec => ImplementsEventStream
<1>1. Init => Stream!Init
  <2> SUFFICES ASSUME Init PROVE Stream!Init
    OBVIOUS
  <2>1. ~Stopped
    BY Zenon DEF Init, Stopped, NewReader, NoReadError
  <2> QED
    BY <2>1, StoppedOrNot, Zenon DEF Init, Stream!Init
<1>2. Inv /\ [Next]_vars => [Stream!Next]_<<recorded, got, Stopped>>
  <2> SUFFICES ASSUME Inv, [Next]_vars
               PROVE  Stream!Next \/ UNCHANGED <<recorded, got, Stopped>>
    OBVIOUS
  <2>1. ASSUME NEW o, NEW ev \in AllCalls, Becomes(o, ev)
        PROVE  Stream!Next \/ UNCHANGED <<recorded, got, Stopped>>
    <3>1. recorded' = Append(recorded, ev) \/ recorded' = recorded
      BY <2>1, Zenon DEF Becomes
    <3>2. got' = got /\ Stopped' = Stopped
      BY <2>1, Zenon DEF Becomes, Stopped
    <3>3. CASE recorded' = Append(recorded, ev)
      <4>1. Stream!Record(ev)
        BY <3>2, <3>3, Zenon DEF Stream!Record
      <4> QED
        BY <4>1, Zenon DEF Stream!Next
    <3>4. CASE recorded' = recorded
      BY <3>2, <3>4, Zenon
    <3> QED
      BY <3>1, <3>3, <3>4, Zenon
  <2>2. CASE CallBegin \/ Carry
    BY <2>2, Zenon DEF CallBegin, Carry, Stopped
  <2>3. CASE CallWrite
    BY <2>1, <2>3, Zenon DEF CallWrite, AllCalls
  <2>4. CASE CallFinish
    <3>1. \A ts \in StopTimes : StopEvent(ts) \in AllCalls
      BY DEF AllCalls
    <3> QED
      BY <2>1, <2>4, <3>1, Zenon DEF CallFinish
  <2>5. CASE CallOpen
    <3>1. recorded' = recorded /\ got' = got
      BY <2>5 DEF CallOpen
    <3>2. ~Stopped
      <4>1. reader = NewReader
        BY <2>5, Zenon DEF Inv, Host, CallOpen
      <4> QED
        BY <4>1, Zenon DEF NewReader, Stopped, NoReadError
    <3>3. CASE Stopped'
      <4>1. Stream!Stop
        BY <3>1, <3>2, <3>3, Zenon DEF Stream!Stop
      <4> QED
        BY <4>1, Zenon DEF Stream!Next
    <3>4. CASE ~Stopped'
      BY <3>1, <3>2, <3>4, StoppedOrNot, Zenon
    <3> QED
      BY <3>3, <3>4, Zenon
  <2>6. CASE CallNext
    BY <2>6, CallNextStreams
  <2>7. CASE UNCHANGED vars
    BY <2>7, Zenon DEF vars, Stopped
  <2> QED
    BY <2>2, <2>3, <2>4, <2>5, <2>6, <2>7, Zenon DEF Next
<1> QED
  BY <1>1, <1>2, Invariance, PTL DEF Spec, ImplementsEventStream, Stream!Spec
--------------------------------------------------------------------------------
(* The numbers of the blocks.                                                *)

Ended(sink) == sink # <<>> /\ sink[Len(sink)].kind = "end"

\* How many blocks the sink has taken.
BlocksIn(sink) == IF Ended(sink) THEN Len(sink) - 2 ELSE Len(sink) - 1

\* seq blocks were sent, and lost of them refused: behind the header come the
\* others, in order, and nothing comes behind the terminator.
Ordered(seq, lost, sink) ==
    /\ seq \in Nat /\ lost \in Nat /\ sink \in Seq(PieceSet)
    /\ \A k \in 2 .. Len(sink) :
          \/ sink[k].kind = "block"
          \/ sink[k].kind = "end" /\ k = Len(sink)
    /\ \A k \in 2 .. Len(sink) : sink[k].kind = "block" =>
          /\ sink[k].seq \in Nat /\ sink[k].seq < seq
          /\ k - 2 <= sink[k].seq /\ sink[k].seq <= lost + (k - 2)
    /\ \A j, k \in 2 .. Len(sink) :
          j < k /\ sink[k].kind = "block" => sink[j].seq < sink[k].seq
    /\ sink # <<>> => seq = lost + BlocksIn(sink)

\* A block was refused.
LEMMA OrderedLost ==
    ASSUME NEW seq, NEW lost, NEW sink, Ordered(seq, lost, sink)
    PROVE  Ordered(seq + 1, lost + 1, sink)
<1>1. seq \in Nat /\ lost \in Nat /\ sink \in Seq(PieceSet) /\ Len(sink) \in Nat
  BY DEF Ordered
<1>2. ASSUME NEW k \in 2 .. Len(sink), sink[k].kind = "block"
      PROVE  /\ sink[k].seq \in Nat /\ sink[k].seq < seq + 1
             /\ k - 2 <= sink[k].seq /\ sink[k].seq <= (lost + 1) + (k - 2)
  <2>1. /\ sink[k].seq \in Nat /\ sink[k].seq < seq
        /\ k - 2 <= sink[k].seq /\ sink[k].seq <= lost + (k - 2)
    BY <1>2 DEF Ordered
  <2> QED
    BY <1>1, <2>1
<1>3. sink # <<>> => seq + 1 = (lost + 1) + BlocksIn(sink)
  <2>1. BlocksIn(sink) \in Int
    BY <1>1 DEF BlocksIn
  <2>2. sink # <<>> => seq = lost + BlocksIn(sink)
    BY Zenon DEF Ordered
  <2> QED
    BY <1>1, <2>1, <2>2
<1>4. seq + 1 \in Nat /\ lost + 1 \in Nat
  BY <1>1
<1> QED
  BY <1>1, <1>2, <1>3, <1>4 DEF Ordered

\* A piece behind the others.
LEMMA Behind ==
    ASSUME NEW sink \in Seq(PieceSet), NEW piece \in PieceSet
    PROVE  /\ Append(sink, piece) \in Seq(PieceSet) /\ Append(sink, piece) # <<>>
           /\ Len(Append(sink, piece)) = Len(sink) + 1 /\ Len(sink) \in Nat
           /\ Append(sink, piece)[Len(sink) + 1] = piece
           /\ \A k \in 1 .. Len(sink) : Append(sink, piece)[k] = sink[k]
           /\ Ended(Append(sink, piece)) <=> piece.kind = "end"
<1> DEFINE all == Append(sink, piece)
<1>1. /\ all \in Seq(PieceSet) /\ all # <<>>
      /\ Len(all) = Len(sink) + 1 /\ Len(sink) \in Nat
      /\ all[Len(sink) + 1] = piece
      /\ \A k \in 1 .. Len(sink) : all[k] = sink[k]
  OBVIOUS
<1> HIDE DEF all
<1>2. Ended(all) <=> piece.kind = "end"
  BY <1>1 DEF Ended
<1> QED
  BY <1>1, <1>2 DEF all

\* A block was taken.
LEMMA OrderedTaken ==
    ASSUME NEW seq, NEW lost, NEW sink, Ordered(seq, lost, sink), sink # <<>>,
           ~Ended(sink), NEW piece \in PieceSet, piece.kind = "block",
           piece.seq = seq
    PROVE  Ordered(seq + 1, lost, Append(sink, piece))
<1> DEFINE all == Append(sink, piece)
<1>1. /\ seq \in Nat /\ lost \in Nat /\ sink \in Seq(PieceSet) /\ Len(sink) \in Nat
      /\ Len(sink) # 0
  BY DEF Ordered
<1>2. /\ all \in Seq(PieceSet) /\ all # <<>> /\ Len(all) = Len(sink) + 1
      /\ all[Len(sink) + 1] = piece /\ ~Ended(all)
      /\ \A k \in 1 .. Len(sink) : all[k] = sink[k]
  BY <1>1, Behind
<1> HIDE DEF all
<1>3. seq = lost + (Len(sink) - 1)
  BY DEF Ordered, BlocksIn
<1>4. \A k \in 2 .. Len(sink) : sink[k].kind = "block"
  BY DEF Ordered, Ended
<1>5. ASSUME NEW k \in 2 .. Len(all)
      PROVE  /\ all[k].kind = "block" /\ all[k].seq \in Nat /\ all[k].seq < seq + 1
             /\ k - 2 <= all[k].seq /\ all[k].seq <= lost + (k - 2)
  <2>1. CASE k = Len(sink) + 1
    <3>1. all[k].kind = "block" /\ all[k].seq = seq
      BY <1>2, <2>1
    <3> QED
      BY <1>1, <1>3, <2>1, <3>1
  <2>2. CASE k \in 2 .. Len(sink)
    <3>1. /\ sink[k].seq \in Nat /\ sink[k].seq < seq
          /\ k - 2 <= sink[k].seq /\ sink[k].seq <= lost + (k - 2)
      BY <1>4, <2>2 DEF Ordered
    <3>2. all[k] = sink[k]
      BY <1>2, <2>2
    <3> QED
      BY <1>1, <1>4, <2>2, <3>1, <3>2
  <2> QED
    BY <1>1, <1>2, <2>1, <2>2
<1>6. ASSUME NEW j \in 2 .. Len(all), NEW k \in 2 .. Len(all), j < k
      PROVE  all[j].seq < all[k].seq
  <2>1. j \in 2 .. Len(sink) /\ all[j] = sink[j]
    BY <1>1, <1>2, <1>6
  <2>2. CASE k = Len(sink) + 1
    <3>1. all[k].seq = seq /\ sink[j].seq < seq
      BY <1>2, <1>4, <2>1, <2>2 DEF Ordered
    <3> QED
      BY <2>1, <3>1
  <2>3. CASE k \in 2 .. Len(sink)
    <3>1. all[k] = sink[k] /\ sink[j].seq < sink[k].seq
      BY <1>2, <1>4, <1>6, <2>1, <2>3 DEF Ordered
    <3> QED
      BY <2>1, <3>1
  <2> QED
    BY <1>1, <1>2, <2>2, <2>3, SMTT(60)
<1>7. seq + 1 = lost + BlocksIn(all)
  BY <1>1, <1>2, <1>3 DEF BlocksIn
<1>8. seq + 1 \in Nat
  BY <1>1
<1>9. Ordered(seq + 1, lost, all)
  BY <1>1, <1>2, <1>5, <1>6, <1>7, <1>8 DEF Ordered
<1> QED
  BY <1>9 DEF all

\* The terminator was taken.
LEMMA OrderedEnd ==
    ASSUME NEW seq, NEW lost, NEW sink, Ordered(seq, lost, sink), sink # <<>>,
           ~Ended(sink)
    PROVE  Ordered(seq, lost, Append(sink, EndPiece))
<1> DEFINE piece == EndPiece
           all == Append(sink, piece)
<1>1. /\ seq \in Nat /\ lost \in Nat /\ sink \in Seq(PieceSet) /\ Len(sink) \in Nat
      /\ Len(sink) # 0
  BY DEF Ordered
<1>2. piece \in PieceSet /\ piece.kind = "end"
  BY DEF PieceSet, EndPiece
<1> HIDE DEF piece
<1>3. /\ all \in Seq(PieceSet) /\ all # <<>> /\ Len(all) = Len(sink) + 1
      /\ all[Len(sink) + 1] = piece /\ Ended(all)
      /\ \A k \in 1 .. Len(sink) : all[k] = sink[k]
  BY <1>1, <1>2, Behind
<1> HIDE DEF all
<1>4. seq = lost + (Len(sink) - 1)
  BY DEF Ordered, BlocksIn
<1>5. ASSUME NEW k \in 2 .. Len(all)
      PROVE  \/ k = Len(all) /\ all[k].kind = "end"
             \/ k \in 2 .. Len(sink) /\ all[k] = sink[k] /\ sink[k].kind = "block"
  <2>1. CASE k = Len(sink) + 1
    BY <1>2, <1>3, <2>1
  <2>2. CASE k \in 2 .. Len(sink)
    <3>1. sink[k].kind = "block"
      BY <2>2 DEF Ordered, Ended
    <3> QED
      BY <1>3, <2>2, <3>1
  <2> QED
    BY <1>1, <1>3, <2>1, <2>2
<1>6. \A k \in 2 .. Len(all) : \/ all[k].kind = "block"
                               \/ all[k].kind = "end" /\ k = Len(all)
  BY <1>5
<1>7. ASSUME NEW k \in 2 .. Len(all), all[k].kind = "block"
      PROVE  /\ all[k].seq \in Nat /\ all[k].seq < seq
             /\ k - 2 <= all[k].seq /\ all[k].seq <= lost + (k - 2)
  <2>1. k \in 2 .. Len(sink) /\ all[k] = sink[k] /\ sink[k].kind = "block"
    BY <1>5, <1>7
  <2> QED
    BY <2>1 DEF Ordered
<1>8. ASSUME NEW j \in 2 .. Len(all), NEW k \in 2 .. Len(all), j < k,
             all[k].kind = "block"
      PROVE  all[j].seq < all[k].seq
  <2>1. k \in 2 .. Len(sink) /\ all[k] = sink[k] /\ sink[k].kind = "block"
    BY <1>5, <1>8
  <2>2. j \in 2 .. Len(sink) /\ all[j] = sink[j]
    BY <1>1, <1>3, <1>8, <2>1
  <2> QED
    BY <1>8, <2>1, <2>2 DEF Ordered
<1>9. seq = lost + BlocksIn(all)
  BY <1>1, <1>3, <1>4 DEF BlocksIn
<1>10. Ordered(seq, lost, all)
  BY <1>1, <1>3, <1>6, <1>7, <1>8, <1>9 DEF Ordered
<1> QED
  BY <1>10 DEF all, piece

--------------------------------------------------------------------------------
(* The writer.                                                               *)

\* A writer that records, and what its sink has taken.
Going(w, sink) ==
    /\ w \in Writers /\ w.started = TRUE /\ w.finished = FALSE
    /\ w.used = 0 <=> w.staged = <<>>
    /\ w.ok => sink # <<>>
    /\ ~Ended(sink)
    /\ Ordered(w.block_seq, w.blocks_lost, sink)

\* One that is through: nothing is pending unless something went wrong.
Over(w, sink) ==
    /\ w \in Writers
    /\ w.ok => w.staged = <<>>
    /\ Ordered(w.block_seq, w.blocks_lost, sink)

\* A writer that fails goes on.
LEMMA FailGoing ==
    ASSUME NEW w, NEW sink, Going(w, sink), NEW why \in Errors, NEW v,
           v = WFail(w, why)
    PROVE  Going(v, sink) /\ v.ok = FALSE
<1>1. w \in Writers
  BY DEF Going
<1>2. IsFailed(v, w)
  BY ONLY <1>1, why \in Errors, v = WFail(w, why), FailedWriter
<1> QED
  BY <1>2, Zenon DEF Going, IsFailed

\* The pending block goes out or is lost.
LEMMA FlushGoing ==
    ASSUME TakesOrRefuses, NEW w, NEW sink, Going(w, sink), w.ok,
           NEW o \in FlushBlock(w, sink)
    PROVE  Going(o.w, o.sink) /\ o.w.ok = w.ok /\ o.w.used = 0
           /\ o.w.last_ts = w.last_ts /\ o.w.last_addr = w.last_addr
<1>1. /\ w \in Writers /\ w.block_seq \in Nat /\ w.used \in Nat
      /\ w.blocks_lost \in Nat /\ w.staged \in Seq(EncodedSet)
      /\ sink # <<>> /\ ~Ended(sink) /\ sink \in Seq(PieceSet)
      /\ Ordered(w.block_seq, w.blocks_lost, sink)
  BY DEF Going, Ordered, Writers
<1>2. CASE w.used = 0
  <2>1. o = [w |-> w, sink |-> sink]
    BY <1>2 DEF FlushBlock
  <2>2. o.w = w /\ o.sink = sink
    BY <2>1
  <2> QED
    BY <1>2, <2>2
<1>3. CASE w.used # 0
  <2> DEFINE n == w.block_seq
             Lost(p) == IF p.taken THEN w.blocks_lost ELSE w.blocks_lost + 1
             Out(p) == [w |-> Spent(w, n + 1, <<>>, 0, Lost(p)), sink |-> p.sink]
  <2>1. o \in {Out(p) : p \in Offer(sink, BlockPiece(w))}
    BY <1>3 DEF FlushBlock, Spent
  <2>2. ASSUME NEW p
        PROVE  /\ p.taken = TRUE => Lost(p) = w.blocks_lost
               /\ p.taken = FALSE => Lost(p) = w.blocks_lost + 1
               /\ Lost(p) \in Nat
               /\ Out(p).w = Spent(w, n + 1, <<>>, 0, Lost(p))
               /\ Out(p).sink = p.sink
    BY <1>1
  <2> HIDE DEF Out, Lost
  <2>3. PICK p \in Offer(sink, BlockPiece(w)) : o = Out(p)
    BY <2>1
  <2> DEFINE lost == Lost(p)
             next == n + 1
             none == <<>>
             zero == 0
             v == o.w
  <2>4. /\ w \in Writers /\ next \in Nat /\ none \in Seq(EncodedSet)
        /\ zero \in Nat /\ lost \in Nat /\ v = Spent(w, next, none, zero, lost)
    <3>1. v = Spent(w, next, none, zero, lost)
      BY <2>2, <2>3
    <3>2. next \in Nat /\ none \in Seq(EncodedSet) /\ zero \in Nat
      BY <1>1
    <3> QED
      BY <1>1, <2>2, <3>1, <3>2, Zenon
  <2>5. o.sink = p.sink
    BY <2>2, <2>3
  <2> HIDE DEF lost, next, none, zero, v, n
  <2>6. IsSpent(v, w, next, none, zero, lost)
    BY ONLY <2>4, SpentWriter
  <2>7. /\ v \in Writers /\ v.block_seq = n + 1 /\ v.staged = <<>>
        /\ v.used = 0 /\ v.blocks_lost = lost /\ v.ok = w.ok
        /\ v.started = TRUE /\ v.finished = FALSE
        /\ v.last_ts = w.last_ts /\ v.last_addr = w.last_addr
    BY <2>6, Zenon DEF IsSpent, next, none, zero, Going
  <2>8. /\ Ordered(n + 1, lost, o.sink) /\ o.sink # <<>> /\ ~Ended(o.sink)
    <3>1. CASE p.taken = FALSE /\ p.sink = sink
      <4>1. lost = w.blocks_lost + 1
        BY <2>2, <3>1 DEF lost
      <4>2. Ordered(n + 1, lost, sink)
        BY <1>1, <4>1, OrderedLost DEF n
      <4> QED
        BY <1>1, <2>5, <3>1, <4>2
    <3>2. CASE p.taken = TRUE /\ p.sink = Append(sink, BlockPiece(w))
      <4> DEFINE piece == BlockPiece(w)
      <4>1. piece.kind = "block" /\ piece.seq = n /\ piece \in PieceSet
        BY <1>1 DEF BlockPiece, PieceSet, n
      <4>2. o.sink = Append(sink, piece) /\ lost = w.blocks_lost
        BY <2>2, <2>5, <3>2 DEF lost
      <4> HIDE DEF piece
      <4>3. Ordered(n + 1, lost, Append(sink, piece))
        BY <1>1, <4>1, <4>2, OrderedTaken DEF n
      <4>4. Append(sink, piece) # <<>> /\ ~Ended(Append(sink, piece))
        BY <1>1, <4>1, Behind
      <4> QED
        BY <4>2, <4>3, <4>4
    <3> QED
      BY <3>1, <3>2, OfferIs
  <2>9. Going(v, o.sink)
    BY <2>7, <2>8, Zenon DEF Going
  <2> QED
    BY <2>7, <2>9 DEF v
<1> QED
  BY <1>2, <1>3

\* An event is staged.
LEMMA StageGoing ==
    ASSUME TakesOrRefuses, NEW w, NEW sink, Going(w, sink), w.ok,
           NEW e \in EncodedSet, NEW size \in EventSizes,
           NEW o \in Stage(w, sink, e, size)
    PROVE  Going(o.w, o.sink)
<1> DEFINE before == IF w.used + size > PayloadCap THEN FlushBlock(w, sink)
                     ELSE {[w |-> w, sink |-> sink]}
           Out(b) == [w |-> Grown(b.w, Append(b.w.staged, e), b.w.used + size,
                                  b.w.events + 1),
                      sink |-> b.sink]
<1>1. o \in {Out(b) : b \in before}
  BY DEF Stage, Grown
<1>2. ASSUME NEW b
      PROVE  /\ Out(b).w = Grown(b.w, Append(b.w.staged, e), b.w.used + size,
                                 b.w.events + 1)
             /\ Out(b).sink = b.sink
  OBVIOUS
<1> HIDE DEF Out
<1>3. PICK b \in before : o = Out(b)
  BY <1>1
<1>4. Going(b.w, b.sink)
  <2>1. CASE w.used + size > PayloadCap
    BY <1>3, <2>1, FlushGoing
  <2>2. CASE ~(w.used + size > PayloadCap)
    <3>1. b = [w |-> w, sink |-> sink]
      BY <1>3, <2>2
    <3>2. b.w = w /\ b.sink = sink
      BY <3>1
    <3> QED
      BY <3>2
  <2> QED
    BY <2>1, <2>2
<1> DEFINE f == b.w
           staged == Append(f.staged, e)
           used == f.used + size
           events == f.events + 1
           v == o.w
<1>5. v = Grown(f, staged, used, events) /\ o.sink = b.sink
  BY <1>2, <1>3
<1>6. /\ f \in Writers /\ f.staged \in Seq(EncodedSet) /\ f.used \in Nat
      /\ f.events \in Nat /\ size \in Nat /\ size > 0
  BY <1>4, EventSizesAssumption, SMTT(60) DEF Going, Writers
<1> HIDE DEF f, v
<1>7. /\ staged \in Seq(EncodedSet) /\ used \in Nat /\ events \in Nat
      /\ staged # <<>> /\ used # 0
  BY <1>6
<1> HIDE DEF staged, used, events
<1>8. IsGrown(v, f, staged, used, events)
  BY ONLY <1>5, <1>6, <1>7, GrownWriter
<1>9. Going(v, b.sink)
  <2>1. Going(f, b.sink)
    BY <1>4 DEF f
  <2> QED
    BY <1>7, <1>8, <2>1, Zenon DEF IsGrown, Going
<1> QED
  BY <1>5, <1>9 DEF v

\* One of the calls that record an event.
LEMMA WriteGoing ==
    ASSUME TakesOrRefuses, NEW w, NEW sink, Going(w, sink), NEW ev \in AllCalls,
           NEW size \in EventSizes, NEW o \in Write(w, sink, ev, size)
    PROVE  Going(o.w, o.sink)
<1> DEFINE idle == ~Recording(w) \/ (ev.type = "write" /\ ~RecordsWrites)
<1>1. w \in Writers /\ ev \in EventSet
  BY CallsAreEvents DEF Going
<1>2. CASE idle
  <2>1. o = [w |-> w, sink |-> sink]
    BY <1>2 DEF Write
  <2>2. o.w = w /\ o.sink = sink
    BY <2>1
  <2> QED
    BY <2>2
<1>3. CASE ~idle /\ ev.ts < w.last_ts
  <2>1. o = [w |-> WFail(w, "non-monotonic timestamp"), sink |-> sink]
    BY <1>3 DEF Write
  <2>2. o.w = WFail(w, "non-monotonic timestamp") /\ o.sink = sink
    BY <2>1
  <2>3. "non-monotonic timestamp" \in Errors
    BY DEF Errors
  <2> QED
    BY <2>2, <2>3, FailGoing
<1>4. CASE ~idle /\ ~(ev.ts < w.last_ts)
  <2>1. /\ w.ok /\ w.last_ts \in Nat /\ w.last_addr \in Nat
        /\ ev.ts \in Nat /\ ev.addr \in Nat /\ ev.value \in Nat
        /\ ev.type \in {"read", "write", "irq", "irq_at", "stop"}
    BY <1>1, <1>4 DEF Recording, Writers, EventSet
  <2> DEFINE dts == ev.ts - w.last_ts
             arg == IF IsMmio(ev.type) THEN ev.addr - w.last_addr ELSE ev.addr
             e == [type |-> ev.type, dts |-> dts, arg |-> arg, value |-> ev.value]
  <2>2. dts \in Int /\ arg \in Int
    BY <2>1
  <2>3. e \in EncodedSet
    <3> HIDE DEF dts, arg
    <3> QED
      BY <2>1, <2>2 DEF EncodedSet
  <2>4. PICK x \in Stage(w, sink, e, size) :
          o = IF IsMmio(ev.type) THEN Moved(x, ev.ts, ev.addr) ELSE Dated(x, ev.ts)
    <3>1. CASE IsMmio(ev.type)
      <4>1. o \in WriteMmio(w, sink, ev, size)
        BY <1>4, <3>1 DEF Write
      <4>2. o \in {Moved(x, ev.ts, ev.addr) : x \in Stage(w, sink, e, size)}
        BY <3>1, <4>1 DEF WriteMmio, Moved
      <4> QED
        BY <3>1, <4>2
    <3>2. CASE ~IsMmio(ev.type)
      <4>1. o \in WritePlain(w, sink, ev, size)
        BY <1>4, <3>2 DEF Write
      <4>2. o \in {Dated(x, ev.ts) : x \in Stage(w, sink, e, size)}
        BY <3>2, <4>1 DEF WritePlain, Dated
      <4> QED
        BY <3>2, <4>2
    <3> QED
      BY <3>1, <3>2
  <2> HIDE DEF e
  <2>5. Going(x.w, x.sink) /\ x.w \in Writers
    BY <2>1, <2>3, StageGoing, ZenonT(60) DEF Going
  <2>6. x = [w |-> x.w, sink |-> x.sink]
    <3>1. \E v, s : x = [w |-> v, sink |-> s]
      BY DEF Stage
    <3> QED
      BY <3>1
  <2> DEFINE g == x.w
             s == x.sink
  <2>7. /\ o.sink = s /\ o.w \in Writers
        /\ o.w.staged = g.staged /\ o.w.used = g.used
        /\ o.w.block_seq = g.block_seq /\ o.w.blocks_lost = g.blocks_lost
        /\ o.w.started = g.started /\ o.w.finished = g.finished
        /\ o.w.ok = g.ok
    <3>1. g \in Writers /\ x = [w |-> g, sink |-> s]
      BY <2>5, <2>6
    <3> HIDE DEF g, s
    <3>2. CASE IsMmio(ev.type)
      <4>1. o = Moved(x, ev.ts, ev.addr) /\ ev.ts \in Nat /\ ev.addr \in Nat
        BY <2>1, <2>4, <3>2
      <4> QED
        BY ONLY <3>1, <4>1, MovedOutcome
    <3>3. CASE ~IsMmio(ev.type)
      <4>1. o = Dated(x, ev.ts) /\ ev.ts \in Nat
        BY <2>1, <2>4, <3>3
      <4> QED
        BY ONLY <3>1, <4>1, DatedOutcome
    <3> QED
      BY <3>2, <3>3
  <2>8. Going(g, s)
    BY <2>5
  <2> HIDE DEF g, s
  <2> QED
    BY <2>7, <2>8, Zenon DEF Going
<1> QED
  BY <1>2, <1>3, <1>4


\* An outcome that is over.
LEMMA ClosedOver ==
    ASSUME NEW o, IsOutcome(o), Over(o.w, o.sink)
    PROVE  Over(Closed(o).w, Closed(o).sink)
<1> DEFINE p == Closed(o)
<1>1. o.w \in Writers
  BY DEF Over
<1>2. /\ p.w \in Writers /\ p.sink = o.sink
      /\ p.w.staged = o.w.staged /\ p.w.ok = o.w.ok
      /\ p.w.block_seq = o.w.block_seq /\ p.w.blocks_lost = o.w.blocks_lost
  BY <1>1 DEF Closed, Writers, IsOutcome
<1> HIDE DEF p
<1>3. Over(p.w, p.sink)
  BY <1>2 DEF Over
<1> QED
  BY <1>3 DEF p

\* The terminator goes out behind the last block, or an error is latched.
LEMMA EndOver ==
    ASSUME TakesOrRefuses, NEW w, NEW sink, Going(w, sink), w.ok, w.used = 0,
           NEW o \in Emit(w, sink, EndPiece)
    PROVE  Over(o.w, o.sink)
<1> DEFINE Out(p) == [w |-> IF p.taken THEN w ELSE WFail(w, "sink rejected data"),
                      sink |-> p.sink]
<1>1. o \in {Out(p) : p \in Offer(sink, EndPiece)}
  BY DEF Emit
<1>2. ASSUME NEW p
      PROVE  /\ p.taken = TRUE => Out(p).w = w
             /\ p.taken = FALSE => Out(p).w = WFail(w, "sink rejected data")
             /\ Out(p).sink = p.sink
  OBVIOUS
<1> HIDE DEF Out
<1>3. PICK p \in Offer(sink, EndPiece) : o = Out(p)
  BY <1>1
<1>4. CASE p.taken = TRUE /\ p.sink = Append(sink, EndPiece)
  <2>1. o.w = w /\ o.sink = Append(sink, EndPiece)
    BY <1>2, <1>3, <1>4
  <2>2. Ordered(w.block_seq, w.blocks_lost, Append(sink, EndPiece))
    BY OrderedEnd DEF Going
  <2> QED
    BY <2>1, <2>2 DEF Going, Over
<1>5. CASE p.taken = FALSE /\ p.sink = sink
  <2>1. o.w = WFail(w, "sink rejected data") /\ o.sink = sink
    BY <1>2, <1>3, <1>5
  <2>2. "sink rejected data" \in Errors
    BY DEF Errors
  <2>3. Going(o.w, sink) /\ o.w.ok = FALSE
    BY <2>1, <2>2, FailGoing
  <2> QED
    BY <2>1, <2>3 DEF Going, Over
<1> QED
  BY <1>4, <1>5, OfferIs

\* finish sends what is pending, and then nothing is unless an error latched.
LEMMA FinishOver ==
    ASSUME TakesOrRefuses, NEW w, NEW sink, Going(w, sink), NEW ts \in StopTimes,
           NEW size \in EventSizes, NEW o \in Finish(w, sink, ts, size)
    PROVE  Over(o.w, o.sink)
<1> DEFINE Flushes(x) == IF x.w.ok THEN FlushBlock(x.w, x.sink) ELSE {x}
           Ends(x) == IF x.w.ok THEN Emit(x.w, x.sink, EndPiece) ELSE {x}
           stopped == Write(w, sink, StopEvent(ts), size)
           flushed == UNION {Flushes(x) : x \in stopped}
           ended == UNION {Ends(x) : x \in flushed}
<1>1. o \in {Closed(x) : x \in ended}
  BY DEF Finish, Closed, Going
<1>2. ASSUME NEW x, x.w.ok
      PROVE  /\ Flushes(x) = FlushBlock(x.w, x.sink)
             /\ Ends(x) = Emit(x.w, x.sink, EndPiece)
  BY <1>2
<1>3. ASSUME NEW x, ~x.w.ok
      PROVE  Flushes(x) = {x} /\ Ends(x) = {x}
  BY <1>3
<1> HIDE DEF Flushes, Ends
<1>4. PICK z \in ended : o = Closed(z)
  BY <1>1
<1>5. PICK y \in flushed : z \in Ends(y)
  BY <1>4
<1>6. PICK x \in stopped : y \in Flushes(x)
  BY <1>5
<1>7. Going(x.w, x.sink) /\ IsOutcome(x)
  <2>1. StopEvent(ts) \in AllCalls
    BY DEF AllCalls
  <2> QED
    BY <1>6, <2>1, WriteGoing, WriteOutcome
<1>8. Going(y.w, y.sink) /\ IsOutcome(y) /\ (y.w.ok => y.w.used = 0)
  <2>1. CASE x.w.ok
    <3>1. y \in FlushBlock(x.w, x.sink)
      BY <1>2, <1>6, <2>1
    <3> QED
      BY <1>7, <2>1, <3>1, FlushGoing, FlushOutcome
  <2>2. CASE ~x.w.ok
    BY <1>3, <1>6, <1>7, <2>2
  <2> QED
    BY <2>1, <2>2
<1>9. Over(z.w, z.sink) /\ IsOutcome(z)
  <2>1. CASE y.w.ok
    <3>1. z \in Emit(y.w, y.sink, EndPiece)
      BY <1>2, <1>5, <2>1
    <3> QED
      BY <1>8, <2>1, <3>1, EndOver, EmitOutcome
  <2>2. CASE ~y.w.ok
    <3>1. z = y
      BY <1>3, <1>5, <2>2
    <3> QED
      BY <1>8, <2>2, <3>1 DEF Going, Over
  <2> QED
    BY <2>1, <2>2
<1> QED
  BY <1>4, <1>9, ClosedOver

\* begin starts the recording, or fails before anything was sent.
LEMMA BeginGoing ==
    ASSUME TakesOrRefuses, NEW w \in Writers, NEW sink, NEW valid \in BOOLEAN,
           \/ w.started = FALSE /\ sink = <<>>
           \/ w.started = TRUE /\ Going(w, sink),
           NEW o \in Begin(w, sink, valid)
    PROVE  \/ o.w.started = FALSE /\ o.sink = <<>>
           \/ o.w.started = TRUE /\ Going(o.w, o.sink)
<1>1. "begin() called twice" \in Errors /\ "bad arguments" \in Errors
      /\ "sink rejected data" \in Errors
  BY DEF Errors
<1>2. CASE w.started = TRUE
  <2>1. o = [w |-> WFail(w, "begin() called twice"), sink |-> sink]
    BY <1>2 DEF Begin
  <2>2. o.w = WFail(w, "begin() called twice") /\ o.sink = sink
    BY <2>1
  <2>3. Going(o.w, o.sink)
    BY <1>1, <1>2, <2>2, FailGoing
  <2> QED
    BY <2>3 DEF Going
<1>3. CASE w.started = FALSE /\ ~valid
  <2>1. o = [w |-> WFail(w, "bad arguments"), sink |-> sink]
    BY <1>3 DEF Begin
  <2>2. o.w = WFail(w, "bad arguments") /\ o.sink = sink
    BY <2>1
  <2>3. IsFailed(o.w, w)
    BY ONLY <1>1, <2>2, w \in Writers, FailedWriter
  <2>4. o.w.started = w.started
    BY <2>3, Zenon DEF IsFailed
  <2> QED
    BY <1>3, <2>2, <2>4
<1>4. CASE w.started = FALSE /\ valid
  <2> DEFINE fresh == Begun(w.err)
             Out(p) == [w |-> IF p.taken THEN fresh
                              ELSE WFail(fresh, "sink rejected data"),
                        sink |-> p.sink]
  <2>1. sink = <<>>
    BY <1>4
  <2>2. o \in {Out(p) : p \in Offer(sink, HeaderPiece)}
    BY <1>4 DEF Begin, Emit, Begun
  <2>3. /\ fresh \in Writers /\ fresh.started = TRUE /\ fresh.ok = TRUE
        /\ fresh.staged = <<>> /\ fresh.used = 0 /\ fresh.block_seq = 0
        /\ fresh.blocks_lost = 0 /\ fresh.finished = FALSE
    <3>1. w.err \in Errors
      BY DEF Writers
    <3> HIDE DEF fresh
    <3>2. fresh = Begun(w.err)
      BY DEF fresh
    <3> QED
      BY ONLY <3>1, <3>2, BegunWriter
  <2> HIDE DEF fresh
  <2>4. ASSUME NEW p
        PROVE  /\ p.taken = TRUE => Out(p).w = fresh
               /\ p.taken = FALSE => Out(p).w = WFail(fresh, "sink rejected data")
               /\ Out(p).sink = p.sink
    OBVIOUS
  <2> HIDE DEF Out
  <2>5. PICK p \in Offer(sink, HeaderPiece) : o = Out(p)
    BY <2>2
  <2>6. CASE p.taken = TRUE /\ p.sink = Append(sink, HeaderPiece)
    <3> DEFINE piece == HeaderPiece
               one == <<piece>>
    <3>1. piece \in PieceSet /\ piece.kind = "header"
      BY DEF PieceSet, HeaderPiece
    <3> HIDE DEF piece
    <3>2. Append(<<>>, piece) = one
      OBVIOUS
    <3>3. /\ one \in Seq(PieceSet) /\ Len(one) = 1 /\ one[1] = piece /\ one # <<>>
      BY <3>1
    <3>4. o.w = fresh /\ o.sink = one
      BY <2>1, <2>4, <2>5, <2>6, <3>2 DEF piece
    <3> HIDE DEF one
    <3>5. ~Ended(one) /\ BlocksIn(one) = 0
      BY <3>1, <3>3 DEF Ended, BlocksIn
    <3>6. Ordered(0, 0, one)
      BY <3>3, <3>5 DEF Ordered
    <3>7. Going(fresh, one)
      BY <2>3, <3>3, <3>5, <3>6 DEF Going
    <3> QED
      BY <2>3, <3>4, <3>7
  <2>7. CASE p.taken = FALSE /\ p.sink = sink
    <3>1. o.w = WFail(fresh, "sink rejected data") /\ o.sink = <<>>
      BY <2>1, <2>4, <2>5, <2>7
    <3>2. IsFailed(o.w, fresh)
      BY ONLY <1>1, <2>3, <3>1, FailedWriter
    <3>3. ~Ended(<<>>) /\ Ordered(0, 0, <<>>)
      BY DEF Ended, Ordered
    <3>4. Going(o.w, <<>>) /\ o.w.started = TRUE
      BY <2>3, <3>2, <3>3, Zenon DEF Going, IsFailed
    <3> QED
      BY <3>1, <3>4
  <2> QED
    BY <2>6, <2>7, OfferIs, ZenonT(60)
<1> QED
  BY <1>2, <1>3, <1>4 DEF Writers

--------------------------------------------------------------------------------
(* The link.                                                                 *)

IsBlock(k) == k \in 2 .. Len(wire) /\ wire[k].kind = "block"

\* A block that arrives has its old place or comes after it.
Linked(pieces) ==
    \A k \in 2 .. Len(pieces) : pieces[k].kind = "block" =>
        \/ IsBlock(k) /\ pieces[k].seq = wire[k].seq
        \/ \E i \in 2 .. k - 1 : IsBlock(i) /\ pieces[k].seq = wire[i].seq

\* The pieces that arrive are the ones that were sent.
LEMMA ArrivedAre ==
    ASSUME NEW damaged, NEW how, NEW k \in 1 .. Len(wire)
    PROVE  /\ Arrived(damaged, how)[k].kind = wire[k].kind
           /\ wire[k].kind = "block"
                 => /\ Arrived(damaged, how)[k].seq = wire[k].seq
                    /\ k # damaged => Arrived(damaged, how)[k].damage = "none"
BY DEF Arrived

\* All of them have their places.
LEMMA ArrivedLinked ==
    ASSUME NEW cuts, NEW blocks, NEW rec, Sent(cuts, blocks, rec, wire),
           NEW damaged, NEW how \in {"none", "crc", "length", "zero"}
    PROVE  Linked(Arrived(damaged, how))
<1> DEFINE all == Arrived(damaged, how)
<1>1. Len(all) = Len(wire) /\ Len(wire) \in Nat
  <2>1. Len(all) = Len(wire)
    BY ArrivedArrives
  <2>2. wire \in Seq(PieceSet)
    BY DEF Sent
  <2> QED
    BY <2>1, <2>2
<1>2. ASSUME NEW k \in 2 .. Len(all), all[k].kind = "block"
      PROVE  IsBlock(k) /\ all[k].seq = wire[k].seq
  <2>1. k \in 1 .. Len(wire) /\ k \in 2 .. Len(wire)
    BY <1>1
  <2>2. /\ all[k].kind = wire[k].kind
        /\ wire[k].kind = "block" => all[k].seq = wire[k].seq
    BY <2>1, ArrivedAre
  <2> HIDE DEF all
  <2> QED
    BY <1>2, <2>1, <2>2 DEF IsBlock
<1> HIDE DEF all
<1>3. Linked(all)
  BY <1>2 DEF Linked
<1> QED
  BY <1>3 DEF all

\* Whatever the link does.
LEMMA CarryLinked ==
    ASSUME NEW cuts, NEW blocks, NEW rec, Sent(cuts, blocks, rec, wire),
           CarryDamaged \/ CarryCut \/ CarryTwice
    PROVE  Linked(medium'.pieces)
<1>1. CASE CarryDamaged
  <2>1. PICK k \in Blocks \cup {0}, how \in {"crc", "length", "zero"} :
           medium' = [pieces |-> Arrived(k, how), tail |-> "none"]
    BY <1>1 DEF CarryDamaged
  <2>2. medium'.pieces = Arrived(k, how)
    BY <2>1
  <2> QED
    BY <2>2, ArrivedLinked
<1> DEFINE all == Arrived(0, "none")
<1>2. /\ Arrives(cuts, blocks, rec, all) /\ Len(all) = Len(wire)
      /\ Linked(all)
  BY ArrivedArrives, ArrivedLinked
<1>3. all \in Seq(ArrivedSet) /\ Len(wire) \in Nat
  BY <1>2 DEF Arrives, Sent
<1> HIDE DEF all
<1>4. CASE CarryCut
  <2>1. PICK k \in 0 .. Len(wire) - 1, tail \in {"none", "word", "block"} :
           medium' = [pieces |-> SubSeq(all, 1, k), tail |-> tail]
    BY <1>4 DEF CarryCut, all
  <2> DEFINE some == SubSeq(all, 1, k)
  <2>2. \A i \in 1 .. k : all[i] \in ArrivedSet
    BY <1>2, <1>3
  <2>3. Len(some) = k /\ \A i \in 1 .. k : some[i] = all[i]
    BY <1>2, <1>3, <2>2, SubSeqProperties
  <2>4. medium'.pieces = some
    BY <2>1
  <2> HIDE DEF some
  <2>5. \A i \in 2 .. Len(some) : some[i] = all[i] /\ i \in 2 .. Len(all)
    BY <1>2, <1>3, <2>3
  <2>6. Linked(some)
    BY <1>2, <2>5 DEF Linked
  <2> QED
    BY <2>4, <2>6
<1>5. CASE CarryTwice
  <2>1. PICK k \in Blocks : \E j \in k .. Len(wire) :
             medium' = [pieces |-> InsertAt(all, j + 1, all[k]), tail |-> "none"]
    BY <1>5 DEF CarryTwice, all
  <2>2. PICK j \in k .. Len(wire) :
             medium' = [pieces |-> InsertAt(all, j + 1, all[k]), tail |-> "none"]
    BY <2>1
  <2>3. IsBlock(k) /\ k \in 2 .. Len(all) /\ j \in 0 .. Len(all)
    BY <1>2, <1>3 DEF Blocks, Sent, IsBlock
  <2> DEFINE x == all[k]
             more == InsertAt(all, j + 1, x)
  <2>4. x \in ArrivedSet /\ medium'.pieces = more
    BY <1>3, <2>2, <2>3
  <2>5. x.seq = wire[k].seq
    BY <2>3, ArrivedAre DEF IsBlock, all
  <2> HIDE DEF x
  <2>6. more = InsertAt(all, j + 1, x)
    OBVIOUS
  <2> HIDE DEF more
  <2>7. Inserted(more, all, j, x)
    BY ONLY <1>3, <2>3, <2>4, <2>6, InsertedIs, Zenon
  <2>8. ASSUME NEW i \in 2 .. Len(more), more[i].kind = "block"
        PROVE  \/ IsBlock(i) /\ more[i].seq = wire[i].seq
               \/ \E h \in 2 .. i - 1 : IsBlock(h) /\ more[i].seq = wire[h].seq
    <3>1. CASE i <= j
      <4>1. more[i] = all[i] /\ i \in 2 .. Len(all)
        BY <1>3, <2>3, <2>7, <3>1 DEF Inserted
      <4> QED
        BY <1>2, <2>8, <4>1 DEF Linked
    <3>2. CASE i = j + 1
      <4>1. more[i] = x /\ k \in 2 .. i - 1
        BY <2>3, <2>7, <3>2 DEF Inserted
      <4> QED
        BY <2>3, <2>5, <4>1
    <3>3. CASE i > j + 1
      <4>1. i \in j + 2 .. Len(all) + 1 /\ i - 1 \in 2 .. Len(all)
        BY <1>3, <2>3, <2>7, <3>3 DEF Inserted
      <4>2. more[i] = all[i - 1]
        BY <2>7, <4>1 DEF Inserted
      <4>3. \/ IsBlock(i - 1) /\ all[i - 1].seq = wire[i - 1].seq
            \/ \E h \in 2 .. (i - 1) - 1 : IsBlock(h) /\ all[i - 1].seq = wire[h].seq
        BY <1>2, <2>8, <4>1, <4>2 DEF Linked
      <4>4. i - 1 \in 2 .. i - 1 /\ \A h \in 2 .. (i - 1) - 1 : h \in 2 .. i - 1
        BY <4>1
      <4> QED
        BY <4>2, <4>3, <4>4
    <3> QED
      BY <2>3, <3>1, <3>2, <3>3
  <2>9. Linked(more)
    BY <2>8 DEF Linked
  <2> QED
    BY <2>4, <2>9
<1> QED
  BY <1>1, <1>4, <1>5

--------------------------------------------------------------------------------
(* The reader.                                                               *)

\* It expects the block after the one it took last.
Aligned(r) ==
    r.opened => /\ r.at >= 2
                /\ r.at = 2 => r.expect_seq = 0
                /\ r.at # 2 => /\ IsBlock(r.at - 1)
                                /\ r.expect_seq = wire[r.at - 1].seq + 1

\* The gap it reports ends at the block it stopped before.
GapEnds(r) ==
    \/ r.blocks_lost = 0
    \/ /\ r.done /\ r.opened /\ IsBlock(r.at)
       /\ wire[r.at].seq = r.expect_seq + r.blocks_lost

\* It stops without an error behind the last block.
EndsLast(r) ==
    r.done /\ r.err = NoReadError /\ Faithful
        => /\ r.opened /\ r.payload = <<>>
           /\ r.at > Len(wire) \/ wire[r.at].kind = "end"

Follows(r) == Aligned(r) /\ GapEnds(r) /\ EndsLast(r)

\* A reader that stops with an error where it is.
LEMMA FailFollows ==
    ASSUME NEW r, Aligned(r), r.blocks_lost = 0, NEW v, SameReading(v, r),
           v.blocks_lost = 0, v.err # NoReadError
    PROVE  Follows(v)
<1>1. Aligned(v)
  BY Zenon DEF Aligned, SameReading
<1> QED
  BY <1>1, Zenon DEF Follows, GapEnds, EndsLast

\* The block at the reader's place is taken, or is not the one expected.
LEMMA TakeFollows ==
    ASSUME NEW seq, NEW lost, Ordered(seq, lost, wire),
           NEW r \in Readers, Aligned(r), r.opened = TRUE, r.done = FALSE,
           r.blocks_lost = 0,
           NEW block, block.seq \in Nat, block.payload \in Seq(EncodedSet),
           \/ IsBlock(r.at) /\ block.seq = wire[r.at].seq
           \/ \E i \in 2 .. r.at - 1 : IsBlock(i) /\ block.seq = wire[i].seq,
           NEW q, q = TakeBlock(r, block)
    PROVE  Follows(q)
<1>1. r.expect_seq \in Nat /\ r.at \in Nat /\ r.blocks_read \in Nat
  BY DEF Readers
<1>2. "block sequence went backwards" \in ReadErrors /\ "gap in trace" \in ReadErrors
      /\ "block sequence went backwards" # NoReadError
      /\ "gap in trace" # NoReadError
  BY DEF ReadErrors, NoReadError
<1>3. CASE block.seq < r.expect_seq
  <2>1. q = Close(r, "block sequence went backwards")
    BY <1>3 DEF TakeBlock
  <2>2. SameReading(q, r) /\ q.blocks_lost = r.blocks_lost /\ q.err # NoReadError
    BY ONLY <1>2, <2>1, r \in Readers, ClosedReader
  <2> QED
    BY <2>2, FailFollows
<1>4. ASSUME block.seq >= r.expect_seq
      PROVE  IsBlock(r.at) /\ block.seq = wire[r.at].seq
  <2>1. CASE \E i \in 2 .. r.at - 1 : IsBlock(i) /\ block.seq = wire[i].seq
    <3>1. PICK i \in 2 .. r.at - 1 : IsBlock(i) /\ block.seq = wire[i].seq
      BY <2>1
    <3>2. /\ r.at # 2 /\ r.at - 1 \in 2 .. Len(wire) /\ i \in 2 .. Len(wire)
          /\ wire[r.at - 1].kind = "block"
          /\ r.expect_seq = wire[r.at - 1].seq + 1
      BY <1>1, <3>1 DEF Aligned, IsBlock
    <3>3. wire[r.at - 1].seq \in Nat
      BY <3>2 DEF Ordered
    <3>4. wire[i].seq <= wire[r.at - 1].seq
      <4>1. CASE i = r.at - 1
        BY <3>3, <4>1
      <4>2. CASE i < r.at - 1
        <5>1. wire[i].seq < wire[r.at - 1].seq
          BY <3>2, <4>2 DEF Ordered
        <5>2. wire[i].seq \in Nat
          BY <3>1
        <5> QED
          BY <3>3, <5>1, <5>2
      <4> QED
        BY <1>1, <3>1, <4>1, <4>2
    <3> QED
      BY <1>4, <3>1, <3>2, <3>3, <3>4, SMTT(60)
  <2> QED
    BY <2>1
<1>5. CASE block.seq > r.expect_seq
  <2> DEFINE u == Close(r, "gap in trace")
             n == block.seq - r.expect_seq
  <2>1. q = [u EXCEPT !.blocks_lost = n]
    <3>1. ~(block.seq < r.expect_seq)
      BY <1>1, <1>5
    <3> QED
      BY <1>5, <3>1, Zenon DEF TakeBlock
  <2>2. n \in Nat /\ block.seq = r.expect_seq + n
    BY <1>1, <1>5, SMTT(60)
  <2>3. /\ u \in Readers /\ SameReading(u, r) /\ u.done = TRUE
        /\ u.err # NoReadError
    <3> DEFINE w == u
    <3>1. w = Close(r, "gap in trace")
      OBVIOUS
    <3> HIDE DEF w
    <3>2. w \in Readers /\ SameReading(w, r) /\ w.done = TRUE /\ w.err # NoReadError
      BY ONLY <1>2, <3>1, r \in Readers, ClosedReader
    <3> QED
      BY <3>2 DEF w
  <2> HIDE DEF u, n
  <2>4. /\ SameReading(q, u) /\ q.done = u.done /\ q.err = u.err
        /\ q.blocks_lost = n
    BY ONLY <2>1, <2>2, <2>3, GapReader
  <2>5. SameReading(q, r) /\ q.done = TRUE /\ q.err # NoReadError
    BY <2>3, <2>4 DEF SameReading
  <2>6. Aligned(q)
    BY <2>5, Zenon DEF Aligned, SameReading
  <2>7. IsBlock(q.at) /\ wire[q.at].seq = q.expect_seq + q.blocks_lost /\ q.opened
    <3>1. IsBlock(r.at) /\ block.seq = wire[r.at].seq
      BY <1>1, <1>4, <1>5
    <3> QED
      BY <2>2, <2>4, <2>5, <3>1 DEF SameReading
  <2> QED
    BY <2>5, <2>6, <2>7, Zenon DEF Follows, GapEnds, EndsLast
<1>6. CASE block.seq = r.expect_seq
  <2> DEFINE next == block.seq + 1
             read == r.blocks_read + 1
             payload == block.payload
             at == r.at + 1
  <2>1. q = Taken(r, next, read, payload, at)
    <3>1. ~(block.seq < r.expect_seq) /\ ~(block.seq > r.expect_seq)
      BY <1>1, <1>6
    <3> QED
      BY <3>1, Zenon DEF TakeBlock, Taken
  <2>2. /\ next \in Nat /\ read \in Nat /\ at \in Nat
        /\ payload \in Seq(EncodedSet)
    BY <1>1, SMTT(60)
  <2>3. at - 1 = r.at /\ at >= 2 /\ at # 2
    <3>1. r.at >= 2
      BY DEF Aligned
    <3> QED
      BY <1>1, <3>1
  <2>4. IsBlock(r.at) /\ next = wire[r.at].seq + 1
    BY <1>1, <1>4, <1>6
  <2> HIDE DEF next, read, payload, at
  <2>5. IsTaken(q, r, next, payload, at)
    BY ONLY <2>1, <2>2, r \in Readers, TakenReader
  <2>6. /\ q.at = at /\ q.expect_seq = next /\ q.opened = TRUE
        /\ q.done = FALSE /\ q.blocks_lost = 0
    BY <2>5, Zenon DEF IsTaken
  <2>7. Aligned(q)
    BY <2>3, <2>4, <2>6 DEF Aligned
  <2> QED
    BY <2>6, <2>7 DEF Follows, GapEnds, EndsLast
<1> QED
  BY <1>1, <1>3, <1>5, <1>6

\* The next block, or the end of the trace.
LEMMA LoadFollows ==
    ASSUME NEW seq, NEW lost, Ordered(seq, lost, wire),
           NEW cuts, NEW blocks, NEW rec, Arrives(cuts, blocks, rec, medium.pieces),
           Linked(medium.pieces),
           NEW r \in Readers, Aligned(r), r.opened = TRUE, r.done = FALSE,
           r.blocks_lost = 0, r.payload = <<>>,
           NEW q, q = LoadNextBlock(r, medium)
    PROVE  Follows(q)
<1> DEFINE pieces == medium.pieces
<1>1. /\ r.at \in Nat /\ r.at >= 2 /\ pieces \in Seq(ArrivedSet)
      /\ Len(pieces) \in Nat
  BY DEF Readers, Aligned, Arrives
<1>2. /\ "truncated block" \in ReadErrors /\ "block CRC mismatch" \in ReadErrors
      /\ "truncated block" # NoReadError /\ "block CRC mismatch" # NoReadError
  BY DEF ReadErrors, NoReadError
<1>3. ASSUME NEW why \in ReadErrors, why # NoReadError, q = Close(r, why)
      PROVE  Follows(q)
  <2>1. SameReading(q, r) /\ q.blocks_lost = r.blocks_lost /\ q.err # NoReadError
    BY ONLY <1>3, r \in Readers, ClosedReader
  <2> QED
    BY <2>1, FailFollows
<1>4. ASSUME q = [r EXCEPT !.done = TRUE],
             Faithful => r.at > Len(wire) \/ wire[r.at].kind = "end"
      PROVE  Follows(q)
  <2>1. SameReading(q, r) /\ q.done = TRUE /\ q.blocks_lost = r.blocks_lost
    BY ONLY <1>4, r \in Readers, DoneReader
  <2>2. Aligned(q)
    BY <2>1, Zenon DEF Aligned, SameReading
  <2>3. EndsLast(q)
    BY <1>4, <2>1, Zenon DEF EndsLast, SameReading
  <2> QED
    BY <2>1, <2>2, <2>3, Zenon DEF Follows, GapEnds
<1> DEFINE sent == Arrived(0, "none")
<1>5. ASSUME Faithful PROVE pieces = sent /\ Len(sent) = Len(wire)
  <2>1. pieces = sent
    BY <1>5 DEF Faithful
  <2>2. Len(wire) \in Nat
    BY DEF Ordered
  <2> QED
    BY <2>1, <2>2 DEF Arrived
<1>6. CASE r.at > Len(pieces)
  <2>1. q = Close(r, "truncated block") \/ q = [r EXCEPT !.done = TRUE]
    BY <1>6, Zenon DEF LoadNextBlock
  <2>2. Faithful => r.at > Len(wire)
    <3> HIDE DEF pieces, sent
    <3> QED
      BY <1>5, <1>6
  <2> QED
    BY <1>2, <1>3, <1>4, <2>1, <2>2
<1>7. CASE ~(r.at > Len(pieces))
  <2> DEFINE piece == pieces[r.at]
  <2>1. r.at \in 2 .. Len(pieces)
    BY ONLY <1>1, <1>7
  <2>2. piece \in ArrivedSet
    BY ONLY <1>1, <2>1
  <2>3. piece.kind # "header"
    BY <2>1 DEF Arrives
  <2>4. \/ piece.kind = "end"
        \/ /\ piece.kind = "block" /\ piece.seq \in Nat
           /\ piece.payload \in Seq(EncodedSet)
           /\ piece.damage \in {"none", "crc", "length", "zero"}
    <3> HIDE DEF piece
    <3> QED
      BY <2>2, <2>3 DEF ArrivedSet, HeaderPiece, EndPiece
  <2>5. q = CASE piece.kind = "end"           -> [r EXCEPT !.done = TRUE]
              [] piece.kind = "block" /\ piece.damage = "zero" ->
                     [r EXCEPT !.done = TRUE]
              [] piece.kind = "block" /\ piece.damage \in {"crc", "length"} ->
                     Close(r, "block CRC mismatch")
              [] OTHER                        -> TakeBlock(r, piece)
    BY <1>7, Zenon DEF LoadNextBlock
  <2>6. ASSUME Faithful
        PROVE  /\ piece.kind = wire[r.at].kind
               /\ piece.kind = "block" => piece.damage = "none"
    <3>1. r.at \in 1 .. Len(wire) /\ r.at # 0 /\ piece = sent[r.at]
      <4> HIDE DEF pieces, sent
      <4> QED
        BY <1>1, <1>5, <2>1, <2>6
    <3>2. /\ sent[r.at].kind = wire[r.at].kind
          /\ wire[r.at].kind = "block" => sent[r.at].damage = "none"
      BY <3>1, ArrivedAre
    <3> QED
      BY <3>1, <3>2
  <2>7. piece.kind = "block" =>
          \/ IsBlock(r.at) /\ piece.seq = wire[r.at].seq
          \/ \E i \in 2 .. r.at - 1 : IsBlock(i) /\ piece.seq = wire[i].seq
    BY <2>1 DEF Linked
  <2> HIDE DEF piece, pieces, sent
  <2>8. CASE piece.kind = "end"
    <3>1. q = [r EXCEPT !.done = TRUE]
      BY <2>5, <2>8
    <3> QED
      BY <1>4, <2>6, <2>8, <3>1
  <2>9. CASE piece.kind = "block" /\ piece.damage = "zero"
    <3>1. q = [r EXCEPT !.done = TRUE]
      BY <2>5, <2>9
    <3>2. ~Faithful
      BY <2>6, <2>9
    <3> QED
      BY <1>4, <3>1, <3>2
  <2>10. CASE piece.kind = "block" /\ piece.damage \in {"crc", "length"}
    <3>1. q = Close(r, "block CRC mismatch")
      BY <2>5, <2>10
    <3> QED
      BY <1>2, <1>3, <3>1
  <2>11. CASE piece.kind = "block" /\ piece.damage = "none"
    <3>1. q = TakeBlock(r, piece)
      BY <2>5, <2>11
    <3>2. piece.seq \in Nat /\ piece.payload \in Seq(EncodedSet)
      BY <2>4, <2>11
    <3> QED
      BY <2>7, <2>11, <3>1, <3>2, TakeFollows
  <2> QED
    BY <2>4, <2>8, <2>9, <2>10, <2>11
<1> QED
  BY <1>6, <1>7, Zenon

\* An event on, a reader is where it was.
LEMMA PastFollows ==
    ASSUME NEW r \in Readers, Follows(r), r.done = FALSE
    PROVE  Follows(PastEvent(r))
<1> DEFINE ev == Decoded(r)
           payload == Tail(r.payload)
           addr == IF ev.type \in {"read", "write"} THEN ev.addr ELSE r.last_addr
           q == PastEvent(r)
           ts == ev.ts
<1>1. q = Past(r, payload, ts, addr)
  BY Zenon DEF PastEvent, Past
<1> HIDE DEF q, payload, ts, addr
<1>2. /\ q.opened = r.opened /\ q.at = r.at /\ q.expect_seq = r.expect_seq
      /\ q.done = r.done /\ q.blocks_lost = r.blocks_lost
  BY <1>1 DEF Past, Readers
<1>3. Aligned(q)
  BY <1>2, Zenon DEF Follows, Aligned
<1>4. GapEnds(q) /\ EndsLast(q)
  BY <1>2, Zenon DEF Follows, GapEnds, EndsLast
<1> QED
  BY <1>3, <1>4 DEF Follows, q

\* A call of next.
LEMMA NextFollows ==
    ASSUME NEW seq, NEW lost, Ordered(seq, lost, wire),
           NEW cuts, NEW blocks \in Nat, NEW rec, NEW out,
           Arrives(cuts, blocks, rec, medium.pieces), Linked(medium.pieces),
           NEW r, Reads(cuts, blocks, rec, r, out), Follows(r),
           r.done = FALSE, r.err = NoReadError
    PROVE  Follows(NextEvent(r, medium).r)
<1> DEFINE n == NextEvent(r, medium)
<1>1. r \in Readers /\ Aligned(r) /\ r.blocks_lost = 0
  BY DEF Reads, Follows, GapEnds
<1>2. CASE r.opened = FALSE
  <2> DEFINE q == RFail(r, "next() before open()")
  <2>1. n = [r |-> q, out |-> <<>>]
    BY <1>2, Zenon DEF NextEvent
  <2>2. q = RFail(r, "next() before open()")
    OBVIOUS
  <2> HIDE DEF q, n
  <2>3. n.r = q
    BY <2>1
  <2>4. "next() before open()" \in ReadErrors /\ "next() before open()" # NoReadError
    BY DEF ReadErrors, NoReadError
  <2>5. SameReading(q, r) /\ q.blocks_lost = r.blocks_lost /\ q.err # NoReadError
    BY ONLY <1>1, <2>2, <2>4, FailedReader
  <2>6. Follows(q)
    BY <1>1, <2>5, FailFollows
  <2> QED
    BY <2>3, <2>6 DEF n
<1>3. CASE r.opened = TRUE
  <2> DEFINE q == IF r.payload = <<>> THEN LoadNextBlock(r, medium) ELSE r
  <2>1. n = IF q.payload = <<>> THEN [r |-> q, out |-> <<>>]
            ELSE [r |-> PastEvent(q), out |-> <<Decoded(q)>>]
    BY <1>3, Zenon DEF NextEvent
  <2>2. Follows(q) /\ Loaded(cuts, blocks, rec, r, q, out)
    <3>1. CASE r.payload = <<>>
      <4>1. q = LoadNextBlock(r, medium)
        BY <3>1
      <4> HIDE DEF q
      <4>2. Follows(q)
        BY <1>1, <1>3, <3>1, <4>1, LoadFollows
      <4>3. Loaded(cuts, blocks, rec, r, q, out)
        BY <1>3, <3>1, <4>1, LoadReads
      <4> QED
        BY <4>2, <4>3
    <3>2. CASE r.payload # <<>>
      <4>1. q = r
        BY <3>2
      <4> HIDE DEF q
      <4> QED
        BY <4>1, Zenon DEF Loaded
    <3> QED
      BY <3>1, <3>2
  <2> HIDE DEF q, n
  <2>3. CASE q.payload = <<>>
    <3>1. n.r = q
      BY <2>1, <2>3
    <3> QED
      BY <2>2, <3>1 DEF n
  <2>4. CASE q.payload # <<>>
    <3>1. n.r = PastEvent(q)
      BY <2>1, <2>4
    <3>2. q \in Readers /\ q.done = FALSE
      BY <2>2, <2>4, Zenon DEF Loaded, Reads
    <3> QED
      BY <2>2, <3>1, <3>2, PastFollows DEF n
  <2> QED
    BY <2>3, <2>4
<1> QED
  BY <1>1, <1>2, <1>3 DEF Readers

\* A reader that has been opened stands behind the header.
LEMMA OpenFollows ==
    ASSUME NEW r, r = Open(medium)
    PROVE  Follows(r)
<1>1. /\ NewReader.opened = FALSE /\ NewReader.done = FALSE
      /\ NewReader.blocks_lost = 0 /\ NewReader.expect_seq = 0
  BY DEF NewReader
<1>2. CASE medium.pieces = <<>>
  <2>1. r = RFail(NewReader, "trace shorter than its header")
    BY <1>2 DEF Open
  <2>2. r.opened = FALSE /\ r.done = FALSE /\ r.blocks_lost = 0
    BY <2>1 DEF RFail, NewReader
  <2> QED
    BY <2>2, Zenon DEF Follows, Aligned, GapEnds, EndsLast
<1>3. CASE medium.pieces # <<>>
  <2>1. r = [NewReader EXCEPT !.opened = TRUE, !.at = 2]
    BY <1>3 DEF Open
  <2>2. /\ r.opened = TRUE /\ r.done = FALSE /\ r.blocks_lost = 0
        /\ r.at = 2 /\ r.expect_seq = 0
    BY <2>1 DEF NewReader
  <2> QED
    BY <2>2 DEF Follows, Aligned, GapEnds, EndsLast
<1> QED
  BY <1>2, <1>3

--------------------------------------------------------------------------------
(* The trace on its way.                                                     *)

GapInv ==
    /\ phase = "begin" => writer.started = FALSE /\ wire = <<>>
    /\ phase = "write" => Going(writer, wire)
    /\ phase \in {"carry", "open", "read"} => Over(writer, wire)
    /\ phase \in {"open", "read"} => Linked(medium.pieces)
    /\ phase = "read" => Follows(reader)

\* Every step keeps it.
LEMMA GapStep ==
    ASSUME TakesOrRefuses, Inv, GapInv, [Next]_vars
    PROVE  GapInv'
<1>1. PICK cuts : Kept(cuts, writer, wire, recorded) /\ Host(cuts)
  BY DEF Inv
<1>2. writer \in Writers /\ writer.block_seq \in Nat
  BY <1>1 DEF Kept, Counted, Writers
<1>3. CASE CallBegin
  <2>1. PICK valid \in BOOLEAN : \E o \in Begin(writer, wire, valid) :
            /\ writer' = o.w /\ wire' = o.sink
            /\ phase' = IF o.w.started THEN "write" ELSE "begin"
    BY <1>3 DEF CallBegin
  <2>2. PICK o \in Begin(writer, wire, valid) :
            /\ writer' = o.w /\ wire' = o.sink
            /\ phase' = IF o.w.started THEN "write" ELSE "begin"
    BY <2>1
  <2>3. \/ writer.started = FALSE /\ wire = <<>>
        \/ writer.started = TRUE /\ Going(writer, wire)
    BY <1>3 DEF CallBegin, GapInv, Going
  <2>4. \/ o.w.started = FALSE /\ o.sink = <<>>
        \/ o.w.started = TRUE /\ Going(o.w, o.sink)
    BY <1>2, <2>3, BeginGoing
  <2>5. CASE o.w.started = FALSE /\ o.sink = <<>>
    BY <2>2, <2>5 DEF GapInv
  <2>6. CASE o.w.started = TRUE /\ Going(o.w, o.sink)
    BY <2>2, <2>6 DEF GapInv
  <2> QED
    BY <2>4, <2>5, <2>6
<1>4. CASE CallWrite
  <2>1. PICK c \in Calls, size \in EventSizes :
           \E o \in Write(writer, wire, c, size) : Becomes(o, c)
    BY <1>4 DEF CallWrite
  <2>2. PICK o \in Write(writer, wire, c, size) : Becomes(o, c)
    BY <2>1
  <2>3. c \in AllCalls /\ Going(writer, wire)
    BY <1>4 DEF AllCalls, CallWrite, GapInv
  <2>4. Going(o.w, o.sink)
    BY <2>3, WriteGoing
  <2> QED
    BY <1>4, <2>2, <2>4 DEF CallWrite, Becomes, GapInv
<1>5. CASE CallFinish
  <2>1. PICK ts \in StopTimes, size \in EventSizes :
           \E o \in Finish(writer, wire, ts, size) : Becomes(o, StopEvent(ts))
    BY <1>5 DEF CallFinish
  <2>2. PICK o \in Finish(writer, wire, ts, size) : Becomes(o, StopEvent(ts))
    BY <2>1
  <2>3. Over(o.w, o.sink)
    BY <1>5, FinishOver DEF CallFinish, GapInv
  <2> QED
    BY <1>5, <2>2, <2>3 DEF CallFinish, Becomes, GapInv
<1>6. CASE Carry
  <2>1. Linked(medium'.pieces)
    BY <1>1, <1>6, CarryLinked DEF Carry, Kept
  <2>2. Over(writer, wire) /\ writer' = writer /\ wire' = wire /\ phase' = "open"
    BY <1>6 DEF Carry, GapInv
  <2>3. Linked(medium.pieces)'
    BY <2>1, <2>2 DEF Linked, IsBlock
  <2> QED
    BY <2>2, <2>3 DEF GapInv
<1>7. CASE CallOpen
  <2>1. Follows(Open(medium))
    BY OpenFollows
  <2>2. /\ Over(writer, wire) /\ Linked(medium.pieces)
        /\ writer' = writer /\ wire' = wire /\ medium' = medium
        /\ phase' = "read" /\ reader' = Open(medium)
    BY <1>7 DEF CallOpen, GapInv
  <2>3. Linked(medium.pieces)'
    BY <2>2 DEF Linked, IsBlock
  <2>4. Follows(reader)'
    BY <2>1, <2>2 DEF Follows, Aligned, GapEnds, EndsLast, IsBlock, Faithful, Arrived
  <2> QED
    BY <2>2, <2>3, <2>4 DEF GapInv
<1>8. CASE CallNext
  <2> DEFINE n == NextEvent(reader, medium)
  <2>1. /\ Over(writer, wire) /\ Linked(medium.pieces) /\ Follows(reader)
        /\ phase = "read" /\ phase' = "read" /\ writer' = writer /\ wire' = wire
        /\ medium' = medium /\ reader' = n.r
    BY <1>8 DEF CallNext, GapInv
  <2>2. /\ Reads(cuts, writer.block_seq, recorded, reader, got)
        /\ Arrives(cuts, writer.block_seq, recorded, medium.pieces)
    BY <1>1, <2>1 DEF Host
  <2>3. reader.done = FALSE /\ reader.err = NoReadError
    BY <1>8, <2>2 DEF CallNext, Stopped, Reads, Readers
  <2>4. Follows(n.r)
    BY <1>2, <2>1, <2>2, <2>3, NextFollows DEF Over
  <2> HIDE DEF n
  <2>5. Linked(medium.pieces)'
    BY <2>1 DEF Linked, IsBlock
  <2>6. Follows(reader)'
    BY <2>1, <2>4 DEF Follows, Aligned, GapEnds, EndsLast, IsBlock, Faithful, Arrived
  <2> QED
    BY <2>1, <2>5, <2>6 DEF GapInv
<1>9. CASE UNCHANGED vars
  BY <1>9 DEF vars, GapInv, Linked, IsBlock, Follows, Aligned, GapEnds, EndsLast,
              Faithful, Arrived
<1> QED
  BY <1>3, <1>4, <1>5, <1>6, <1>7, <1>8, <1>9 DEF Next

\* It always holds, with the one of TraceStreamProofs.
LEMMA GapInvariance ==
    ASSUME TakesOrRefuses
    PROVE  Spec => [](Inv /\ GapInv)
<1>1. Init => GapInv
  BY DEF Init, GapInv, NewWriter
<1>2. Inv /\ GapInv /\ [Next]_vars => GapInv'
  BY GapStep
<1> QED
  BY <1>1, <1>2, Invariance, PTL DEF Spec

\* A gap the reader reports begins behind the last block it read, every block in
\* it was refused by the sink, the block it ends at was taken, and the writer has
\* counted at least as many as lost.
THEOREM GapIsExactCorrect ==
    ASSUME TakesOrRefuses
    PROVE  Spec => []GapIsExact
<1>1. Inv /\ GapInv => GapIsExact
  <2> SUFFICES ASSUME Inv, GapInv, reader.blocks_lost > 0
               PROVE  /\ \A s \in reader.expect_seq
                                  .. (reader.expect_seq + reader.blocks_lost) - 1 :
                            Sequenced(s) = {}
                      /\ Sequenced(reader.expect_seq + reader.blocks_lost) # {}
                      /\ writer.blocks_lost >= reader.blocks_lost
    BY DEF GapIsExact
  <2>1. PICK cuts : Kept(cuts, writer, wire, recorded) /\ Host(cuts)
    BY DEF Inv
  <2>2. phase = "read"
    <3>1. CASE phase # "read"
      BY <2>1, <3>1 DEF Host, NewReader
    <3> QED
      BY <3>1
  <2>3. reader \in Readers /\ Follows(reader) /\ Over(writer, wire)
    BY <2>1, <2>2 DEF Host, Reads, GapInv
  <2> DEFINE first == reader.expect_seq
             lost == reader.blocks_lost
             at == reader.at
             after == first + lost
  <2>4. /\ first \in Nat /\ lost \in Nat /\ lost > 0 /\ at \in Nat
        /\ writer.blocks_lost \in Nat
        /\ Ordered(writer.block_seq, writer.blocks_lost, wire)
    BY <2>3 DEF Readers, Over, Ordered
  <2>5. IsBlock(at) /\ wire[at].seq = after /\ reader.opened /\ at >= 2
    BY <2>3, <2>4 DEF Follows, GapEnds, Aligned
  <2>6. \/ at = 2 /\ first = 0
        \/ at # 2 /\ IsBlock(at - 1) /\ first = wire[at - 1].seq + 1
    BY <2>3, <2>5 DEF Follows, Aligned
  <2>7. \A k \in 1 .. Len(wire) : wire[k].kind = "block" => k \in 2 .. Len(wire)
    BY <2>1, SMTT(60) DEF Kept, Sent
  <2> HIDE DEF first, lost, at, after
  <2>8. Sequenced(after) # {}
    BY <2>5 DEF IsBlock, Sequenced, Values
  <2>9. ASSUME NEW s \in first .. after - 1, NEW w \in Sequenced(s)
        PROVE  FALSE
    <3>1. PICK k \in 1 .. Len(wire) : w = wire[k]
      BY DEF Sequenced, Values
    <3>2. wire[k].kind = "block" /\ wire[k].seq = s /\ k \in 2 .. Len(wire)
      BY <2>7, <3>1 DEF Sequenced
    <3>3. s \in Nat /\ first <= s /\ s < after /\ after \in Nat
      BY <2>4 DEF after
    <3>4. CASE k = at
      BY <2>5, <3>2, <3>3, <3>4
    <3>5. CASE k > at
      <4>1. wire[at].seq < wire[k].seq
        BY <2>4, <2>5, <3>2, <3>5 DEF Ordered, IsBlock
      <4> QED
        BY <2>5, <3>2, <3>3, <4>1
    <3>6. CASE k < at
      <4>1. at # 2 /\ IsBlock(at - 1) /\ first = wire[at - 1].seq + 1
        BY <2>6, <3>2, <3>6
      <4>2. wire[at - 1].seq \in Nat
        BY <2>4, <4>1 DEF Ordered, IsBlock
      <4>3. k = at - 1 \/ wire[k].seq < wire[at - 1].seq
        <5>1. k = at - 1 \/ k < at - 1
          BY <2>4, <3>2, <3>6
        <5>2. ASSUME k < at - 1 PROVE wire[k].seq < wire[at - 1].seq
          BY <2>4, <3>2, <4>1, <5>2 DEF Ordered, IsBlock
        <5> QED
          BY <5>1, <5>2
      <4> QED
        BY <3>2, <3>3, <4>1, <4>2, <4>3, SMTT(60)
    <3> QED
      BY <2>4, <3>2, <3>4, <3>5, <3>6
  <2>10. writer.blocks_lost >= lost
    <3>1. after <= writer.blocks_lost + (at - 2) /\ after = first + lost
      BY <2>4, <2>5 DEF Ordered, IsBlock, after
    <3>2. first >= at - 2
      <4>1. CASE at = 2
        BY <2>4, <4>1
      <4>2. CASE at # 2 /\ IsBlock(at - 1) /\ first = wire[at - 1].seq + 1
        <5>1. wire[at - 1].seq \in Nat /\ (at - 1) - 2 <= wire[at - 1].seq
          BY <2>4, <4>2 DEF Ordered, IsBlock
        <5> QED
          BY <2>4, <4>2, <5>1
      <4> QED
        BY <2>6, <4>1, <4>2
    <3> QED
      BY <2>4, <3>1, <3>2
  <2> QED
    BY <2>8, <2>9, <2>10 DEF first, lost, after
<1> QED
  BY <1>1, GapInvariance, PTL

\* A reader that ends without an error on all that the sink took has handed out
\* everything that was recorded, unless the writer counts a lost block or has
\* latched an error.
THEOREM LossIsKnownCorrect ==
    ASSUME TakesOrRefuses
    PROVE  Spec => []LossIsKnown
<1>1. Inv /\ GapInv => LossIsKnown
  <2> SUFFICES ASSUME Inv, GapInv, phase = "read", Stopped,
                      reader.err = NoReadError, Faithful,
                      ~(writer.blocks_lost > 0), writer.ok
               PROVE  got = recorded
    BY DEF LossIsKnown
  <2>1. PICK cuts : Kept(cuts, writer, wire, recorded) /\ Host(cuts)
    BY DEF Inv
  <2>2. /\ reader \in Readers /\ Follows(reader) /\ Over(writer, wire)
        /\ Reads(cuts, writer.block_seq, recorded, reader, got)
    BY <2>1 DEF Host, Reads, GapInv
  <2>3. reader.done
    BY DEF Stopped
  <2>4. /\ reader.opened /\ reader.payload = <<>>
        /\ reader.at > Len(wire) \/ wire[reader.at].kind = "end"
    BY <2>2, <2>3 DEF Follows, EndsLast
  <2> DEFINE at == reader.at
             next == reader.expect_seq
             sent == writer.block_seq
  <2>5. /\ writer.blocks_lost = 0 /\ sent \in Nat /\ next \in Nat /\ at \in Nat
        /\ Ordered(sent, 0, wire) /\ wire # <<>> /\ Len(wire) \in Nat
        /\ Len(wire) # 0 /\ writer.staged = <<>>
    <3>1. writer.blocks_lost \in Nat
      BY <2>2 DEF Over, Ordered
    <3>2. writer.blocks_lost = 0
      BY <3>1
    <3>3. Ordered(sent, 0, wire) /\ writer.staged = <<>>
      BY <2>2, <3>2 DEF Over
    <3>4. sent \in Nat /\ wire \in Seq(PieceSet)
      BY <3>3 DEF Ordered
    <3>5. wire # <<>>
      BY <2>1 DEF Kept
    <3>6. next \in Nat /\ at \in Nat
      BY <2>2 DEF Readers
    <3>7. Len(wire) \in Nat /\ Len(wire) # 0
      BY <3>4, <3>5
    <3> QED
      BY <3>2, <3>3, <3>4, <3>5, <3>6, <3>7
  <2>6. /\ at >= 2
        /\ \/ at = 2 /\ next = 0
           \/ at # 2 /\ IsBlock(at - 1) /\ next = wire[at - 1].seq + 1
    BY <2>2, <2>4 DEF Follows, Aligned
  <2>7. at > Len(wire) \/ wire[at].kind = "end"
    BY <2>4
  <2> HIDE DEF at, next, sent
  <2>8. next = at - 2
    <3>1. CASE at = 2 /\ next = 0
      BY <3>1
    <3>2. CASE at # 2 /\ IsBlock(at - 1) /\ next = wire[at - 1].seq + 1
      <4>1. /\ wire[at - 1].seq \in Nat /\ (at - 1) - 2 <= wire[at - 1].seq
            /\ wire[at - 1].seq <= 0 + ((at - 1) - 2)
        BY <2>5, <3>2 DEF Ordered, IsBlock
      <4> QED
        BY <2>5, <3>2, <4>1, SMTT(60)
    <3> QED
      BY <2>6, <3>1, <3>2
  <2>9. sent = 0 + BlocksIn(wire)
    BY <2>5 DEF Ordered
  <2>10. next = sent
    <3>1. CASE at \in 2 .. Len(wire) /\ wire[at].kind = "end"
      <4>1. at = Len(wire)
        BY <2>5, <3>1 DEF Ordered
      <4>2. Ended(wire)
        BY <2>5, <3>1, <4>1 DEF Ended
      <4> QED
        BY <2>5, <2>8, <2>9, <4>1, <4>2 DEF BlocksIn
    <3>2. CASE at > Len(wire)
      <4>1. at - 1 <= Len(wire)
        BY <2>5, <2>6, <3>2 DEF IsBlock
      <4>2. at = Len(wire) + 1
        BY <2>5, <3>2, <4>1
      <4>3. ~Ended(wire)
        <5>1. CASE at = 2
          <6>1. Len(wire) = 1
            <7>1. \A n \in Nat : 2 = n + 1 => n = 1
              OBVIOUS
            <7>2. Len(wire) \in Nat /\ 2 = Len(wire) + 1
              BY <2>5, <4>2, <5>1, Zenon
            <7> QED
              BY <7>1, <7>2, Zenon
          <6>2. ASSUME Ended(wire) PROVE FALSE
            BY <2>5, <2>9, <6>1, <6>2 DEF BlocksIn
          <6> QED
            BY <6>2
        <5>2. CASE IsBlock(at - 1)
          <6>1. at - 1 = Len(wire)
            BY <2>5, <4>2
          <6> QED
            BY <5>2, <6>1 DEF Ended, IsBlock
        <5> QED
          BY <2>6, <5>1, <5>2
      <4> QED
        BY <2>5, <2>8, <2>9, <4>2, <4>3 DEF BlocksIn
    <3> QED
      BY <2>5, <2>6, <2>7, <3>1, <3>2
  <2>11. Len(got) = Len(recorded)
    <3>1. cuts[sent] + 0 = Len(recorded) /\ cuts \in [Nat -> Nat]
      <4>1. Len(<<>>) = 0
        OBVIOUS
      <4> QED
        BY <2>1, <2>5, <4>1 DEF Kept, sent
    <3>2. cuts[next] = Len(got) + 0 /\ got \in Seq(EventSet)
      <4>1. Len(<<>>) = 0
        OBVIOUS
      <4> QED
        BY <2>2, <2>4, <4>1 DEF Reads, next
    <3>3. Len(got) \in Nat /\ cuts[sent] \in Nat
      BY <2>5, <3>1, <3>2
    <3> QED
      BY <2>10, <3>1, <3>2, <3>3
  <2>12. /\ got \in Seq(EventSet) /\ recorded \in Seq(EventSet)
         /\ \A i \in 1 .. Len(got) : got[i] = recorded[i]
    BY <2>1, <2>2, CallsAreEvents DEF Reads, Kept, Counted
  <2> QED
    BY <2>11, <2>12, SeqEqual
<1> QED
  BY <1>1, GapInvariance, PTL
================================================================================
