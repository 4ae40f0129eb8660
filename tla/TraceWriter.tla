------------------------------- MODULE TraceWriter ------------------------------
(****************************************************************************)
(* TraceWriter of core/src/trace_writer.cpp as operators on a writer record *)
(* and the sink's state.  A call has several outcomes when the sink has:    *)
(* each is a record [w, sink].                                              *)
(*                                                                          *)
(* What reaches the sink is a piece: the header, a block with its sequence  *)
(* number and the events it holds, or the terminator.  An encoded event     *)
(* keeps the two deltas of the format (dts, and arg for an MMIO address)    *)
(* against the writer's running state; its length, which the varints make   *)
(* depend on the values, is the caller's choice.  bytes_ is left out.       *)
(****************************************************************************)
EXTENDS Integers, Sequences

CONSTANTS
    Offer(_, _),      \* Offer(sink, piece): outcomes [sink, taken] of the sink
    PayloadCap,       \* payload_cap()
    EventSizes,       \* lengths an encoded event may have
    RecordsWrites     \* kFlagRecordWrites is set in flags_

\* kMinBlockBuffer holds the frame and the longest event.
ASSUME EventSizesAssumption ==
    /\ PayloadCap \in Nat
    /\ EventSizes # {} /\ EventSizes \subseteq 1 .. PayloadCap
    /\ RecordsWrites \in BOOLEAN

NoError == "none"

\* The constructor.
NewWriter ==
    [started |-> FALSE, finished |-> FALSE, ok |-> FALSE, err |-> NoError,
     staged |-> <<>>, used |-> 0, last_ts |-> 0, last_addr |-> 0,
     block_seq |-> 0, blocks_lost |-> 0, events |-> 0]

HeaderPiece == [kind |-> "header"]
EndPiece    == [kind |-> "end"]
BlockPiece(w) == [kind |-> "block", seq |-> w.block_seq, payload |-> w.staged]

WFail(w, why) ==
    [w EXCEPT !.ok = FALSE, !.err = IF @ = NoError THEN why ELSE @]

\* emit: the header or the terminator, whose loss is fatal.
Emit(w, sink, piece) ==
    {[w |-> IF o.taken THEN w ELSE WFail(w, "sink rejected data"),
      sink |-> o.sink] : o \in Offer(sink, piece)}

\* begin, with arguments that are valid or not.  A second call kills a healthy
\* writer; err_ of an earlier refused call stays.
Begin(w, sink, valid) ==
    IF w.started THEN {[w |-> WFail(w, "begin() called twice"), sink |-> sink]}
    ELSE IF ~valid THEN {[w |-> WFail(w, "bad arguments"), sink |-> sink]}
    ELSE Emit([NewWriter EXCEPT !.started = TRUE, !.ok = TRUE, !.err = w.err],
              sink, HeaderPiece)

\* A slip: a refused block is not counted.
FlushUncounted(w, sink) ==
    IF w.used = 0 THEN {[w |-> w, sink |-> sink]}
    ELSE {[w |-> [w EXCEPT !.block_seq = @ + 1, !.staged = <<>>, !.used = 0],
           sink |-> o.sink] : o \in Offer(sink, BlockPiece(w))}

\* A block the sink refuses is counted and its number is spent.
FlushBlock(w, sink) ==
    IF w.used = 0 THEN {[w |-> w, sink |-> sink]}
    ELSE {[w |-> [w EXCEPT !.block_seq = @ + 1, !.staged = <<>>, !.used = 0,
                           !.blocks_lost = IF o.taken THEN @ ELSE @ + 1],
           sink |-> o.sink] : o \in Offer(sink, BlockPiece(w))}

\* A slip: the pending block is flushed only when it is overfull.
StageTooLate(w, sink, encoded, size) ==
    {[w |-> [b.w EXCEPT !.staged = Append(@, encoded), !.used = @ + size,
                        !.events = @ + 1],
      sink |-> b.sink] :
        b \in IF w.used > PayloadCap THEN FlushBlock(w, sink)
              ELSE {[w |-> w, sink |-> sink]}}

\* The pending block goes out first when the event does not fit behind it.
Stage(w, sink, encoded, size) ==
    {[w |-> [b.w EXCEPT !.staged = Append(@, encoded), !.used = @ + size,
                        !.events = @ + 1],
      sink |-> b.sink] :
        b \in IF w.used + size > PayloadCap THEN FlushBlock(w, sink)
              ELSE {[w |-> w, sink |-> sink]}}

Recording(w) == w.ok /\ w.started /\ ~w.finished

\* write_mmio, which moves the address predictor, and write_plain, which does
\* not.  ev is [type, ts, addr, value].
WriteMmio(w, sink, ev, size) ==
    LET encoded == [type |-> ev.type, dts |-> ev.ts - w.last_ts,
                    arg |-> ev.addr - w.last_addr, value |-> ev.value]
    IN {[o EXCEPT !.w.last_ts = ev.ts, !.w.last_addr = ev.addr] :
            o \in Stage(w, sink, encoded, size)}

WritePlain(w, sink, ev, size) ==
    LET encoded == [type |-> ev.type, dts |-> ev.ts - w.last_ts,
                    arg |-> ev.addr, value |-> ev.value]
    IN {[o EXCEPT !.w.last_ts = ev.ts] : o \in Stage(w, sink, encoded, size)}

IsMmio(type) == type \in {"read", "write"}

\* The guards both share, and the one of mmio_write.
Write(w, sink, ev, size) ==
    IF ~Recording(w) \/ (ev.type = "write" /\ ~RecordsWrites)
    THEN {[w |-> w, sink |-> sink]}
    ELSE IF ev.ts < w.last_ts
    THEN {[w |-> WFail(w, "non-monotonic timestamp"), sink |-> sink]}
    ELSE IF IsMmio(ev.type) THEN WriteMmio(w, sink, ev, size)
    ELSE WritePlain(w, sink, ev, size)

StopEvent(ts) == [type |-> "stop", ts |-> ts, addr |-> 0, value |-> 0]

\* A slip: the block and the terminator are sent whatever went wrong before.
FinishAnyway(w, sink, ts, size) ==
    IF ~w.started \/ w.finished THEN {[w |-> w, sink |-> sink]}
    ELSE LET stopped == Write(w, sink, StopEvent(ts), size)
             flushed == UNION {FlushBlock(o.w, o.sink) : o \in stopped}
             ended   == UNION {Emit(o.w, o.sink, EndPiece) : o \in flushed}
         IN {[o EXCEPT !.w.finished = TRUE] : o \in ended}

\* finish: the stop event, the last block, the terminator, each only while no
\* error is latched.
Finish(w, sink, ts, size) ==
    IF ~w.started \/ w.finished THEN {[w |-> w, sink |-> sink]}
    ELSE LET stopped == Write(w, sink, StopEvent(ts), size)
             flushed == UNION {IF o.w.ok THEN FlushBlock(o.w, o.sink) ELSE {o} :
                                   o \in stopped}
             ended   == UNION {IF o.w.ok THEN Emit(o.w, o.sink, EndPiece) ELSE {o} :
                                   o \in flushed}
         IN {[o EXCEPT !.w.finished = TRUE] : o \in ended}
================================================================================
