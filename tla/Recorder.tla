-------------------------------- MODULE Recorder -------------------------------
(****************************************************************************)
(* A device that records itself: target/src/recorder.cpp joins the writer   *)
(* to the ring buffer behind its sink and drains the buffer into a link     *)
(* from the main loop, on the part, where time is a sampled cycle counter   *)
(* (Clock) and a handler that records may be entered between any two steps  *)
(* of the main loop's own call of the writer.  hal_irq_disable, which the   *)
(* sink calls around a push, only counts there and so guards nothing.       *)
(*                                                                          *)
(* The main loop's call is split where it reads what a handler writes: the  *)
(* counter, the clock, the guard and the deltas, the room in the block, the *)
(* block's frame, the push, the spent block, the staged event, the running  *)
(* state.  The read-modify-write of one variable is one step, and so is the *)
(* whole of a handler, which nothing preempts.                              *)
(*                                                                          *)
(* The bytes of a piece (TraceWriter) are counted in units: its framing is  *)
(* one, and each event it holds is one.                                     *)
(****************************************************************************)
EXTENDS TraceWriter, TraceReader, Clock, FiniteSets, SequencesExt

CONSTANTS
    Cap,              \* the ring's capacity, in units
    StartTimes,       \* where the counter may stand when recording starts
    Gaps,             \* cycles that may pass between two samples of the counter
    DrainLimit,       \* max_bytes of a drain() from the main loop, in units
    MaxCalls,         \* bound on the main loop's accesses
    MaxIrqs           \* bound on the interrupts

ASSUME RecorderAssumption ==
    /\ Cap \in Nat \ {0} /\ DrainLimit \in Nat \ {0}
    /\ StartTimes \subseteq 0 .. Wrap - 1 /\ Gaps \subseteq Nat \ {0}
    /\ MaxCalls \in Nat /\ MaxIrqs \in Nat
    /\ EventSizes = {1}

VARIABLES
    phase,       \* "run", then "drain" after stop(), then "over"
    time,        \* cycles, as the counter would have them were it wide enough
    clock,       \* the ClockExtender
    writer,      \* the TraceWriter
    ring,        \* the RingBuffer: [store, head, tail, drops]
    main,        \* the main loop's call in progress, see NoCall
    drain,       \* the drain() in progress: [on, sent]
    received,    \* the units the link has carried
    left,        \* calls and interrupts still to come: [calls, irqs]
    recorded,    \* history: the events staged, in the order of their staging
    torn,        \* history: a handler recorded inside the main loop's call
    samples      \* history: [seen, base, exact, long], see Sampled

recvars == <<phase, time, clock, writer, ring, main, drain, received, left,
             recorded, torn, samples>>

--------------------------------------------------------------------------------
(* The ring, in units.  What its own two sides may do to each other byte by  *)
(* byte is RingBuffer's subject.                                             *)

Blank == [piece |-> EndPiece, unit |-> 0]
EmptyRing == [store |-> [k \in 0 .. Cap - 1 |-> Blank], head |-> 0, tail |-> 0,
              drops |-> 0]

PieceLen(piece) == 1 + (IF piece.kind = "block" THEN Len(piece.payload) ELSE 0)

UsedUnits(r) == r.head - r.tail

\* used() above the capacity makes space() wrap around.
Fits(r, piece) == PieceLen(piece) <= Cap - UsedUnits(r) \/ UsedUnits(r) > Cap

\* The units first to last of a piece copied to where the head was at.
CopyUnits(r, piece, at, first, last) ==
    [r EXCEPT !.store =
        [k \in 0 .. Cap - 1 |->
            LET here == {u \in first .. last : (at + u - 1) % Cap = k} IN
            IF here = {} THEN r.store[k]
            ELSE [piece |-> piece, unit |-> CHOOSE u \in here : \A v \in here : v <= u]]]

Dropped(r) == [r EXCEPT !.drops = @ + 1]

Publish(r, piece) == [r EXCEPT !.head = @ + PieceLen(piece)]

\* A block as the reader will find it if its frame was made of the payload frame.
Framed(block, frame) ==
    [kind |-> "block", seq |-> block.seq, payload |-> block.payload,
     damage |-> IF block.payload = frame THEN "none" ELSE "crc"]

AsSent(piece) ==
    IF piece.kind = "block" THEN Framed(piece, piece.payload) ELSE piece

\* Recorder::sink, when nothing comes between its steps.
SinkPush(r, piece) ==
    LET sent == AsSent(piece) IN
    {IF Fits(r, sent)
     THEN [sink |-> Publish(CopyUnits(r, sent, r.head, 1, PieceLen(sent)), sent),
           taken |-> TRUE]
     ELSE [sink |-> Dropped(r), taken |-> FALSE]}

--------------------------------------------------------------------------------
NoCall == [at |-> "idle"]

\* begin() and start(): the header is in the ring.
RecInit ==
    /\ phase = "run"
    /\ time \in StartTimes /\ clock = NewClock
    /\ \E o \in Begin(NewWriter, EmptyRing, TRUE) :
          o.w.ok /\ writer = o.w /\ ring = o.sink
    /\ main = NoCall /\ drain = [on |-> FALSE, sent |-> 0] /\ received = <<>>
    /\ left = [calls |-> MaxCalls, irqs |-> MaxIrqs]
    /\ recorded = <<>> /\ torn = FALSE
    /\ samples = [seen |-> -1, base |-> 0, exact |-> TRUE, long |-> 0]

\* The history of the samples once one taken at time t has been extended: seen is
\* its time, base the time at which the counter last stood at zero before the first
\* of them, exact says that they came in order and less than a wrap apart, and long
\* counts those half a wrap or more behind the one before.
Sampled(s, t) ==
    [seen |-> t,
     base |-> IF s.seen = -1 THEN t - (t % Wrap) ELSE s.base,
     exact |-> s.exact /\ (s.seen = -1 \/ t - s.seen \in 0 .. Wrap - 1),
     long |-> s.long + (IF s.seen # -1 /\ t - s.seen >= Half THEN 1 ELSE 0)]

--------------------------------------------------------------------------------
(* The main loop's access, or its stop(): MODE_RECORD is left only then.     *)

ReadEvent(ts, addr) == [type |-> "read", ts |-> ts, addr |-> addr, value |-> 0]
IrqEvent(ts, vector) ==
    [type |-> "irq_at", ts |-> ts, addr |-> vector, value |-> 0]

MainFree == phase = "run" /\ main.at = "idle" /\ ~drain.on

UNCHANGED_link == UNCHANGED <<phase, drain, received>>

\* s_now reads the counter; that is all a call does before a handler may sample
\* it again.
Sample ==
    /\ MainFree
    /\ \E gap \in Gaps : time' = time + gap
    /\ \E what \in {"access", "stop"} :
          /\ what = "access" => left.calls > 0
          /\ main' = [at |-> "sampled", what |-> what, time |-> time']
          /\ left' = IF what = "access" THEN [left EXCEPT !.calls = @ - 1] ELSE left
    /\ UNCHANGED <<clock, writer, ring, recorded, torn, samples>>
    /\ UNCHANGED_link

Stamp ==
    /\ main.at = "sampled"
    /\ clock' = Extend(clock, main.time % Wrap)
    /\ samples' = Sampled(samples, main.time)
    /\ main' = [at |-> "stamped", what |-> main.what, ts |-> Value(clock')]
    /\ UNCHANGED <<time, writer, ring, left, recorded, torn>>
    /\ UNCHANGED_link

\* After a call of write_mmio or write_plain: the access is over, or finish()
\* goes on to the last block, if the writer is well and has one.
Flushing == [at |-> "frame", then |-> "end"]
AfterWrite(w, what) ==
    IF what = "access" THEN NoCall
    ELSE IF w.ok /\ w.used > 0 THEN Flushing
    ELSE [at |-> "end"]

CallEvent(what, ts) ==
    IF what = "access" THEN ReadEvent(ts, 2) ELSE StopEvent(ts)

\* The guards of the writer, and the deltas of the event.
Encode ==
    /\ main.at = "stamped"
    /\ IF ~Recording(writer)
       THEN UNCHANGED writer /\ main' = AfterWrite(writer, main.what)
       ELSE IF main.ts < writer.last_ts
       THEN /\ writer' = WFail(writer, "non-monotonic timestamp")
            /\ main' = AfterWrite(writer', main.what)
       ELSE LET ev == CallEvent(main.what, main.ts)
                arg == IF IsMmio(ev.type) THEN ev.addr - writer.last_addr ELSE ev.addr
            IN /\ main' = [at |-> "encoded", what |-> main.what, ev |-> ev,
                           encoded |-> [type |-> ev.type, value |-> ev.value,
                                        dts |-> ev.ts - writer.last_ts, arg |-> arg]]
               /\ UNCHANGED writer
    /\ UNCHANGED <<time, clock, ring, left, recorded, torn, samples>>
    /\ UNCHANGED_link

\* stage: is there room behind the staged events?
Room ==
    /\ main.at = "encoded"
    /\ main' = IF writer.used + 1 > PayloadCap
               THEN [at |-> "frame", then |-> "append", call |-> main]
               ELSE [at |-> "append", call |-> main]
    /\ UNCHANGED <<time, clock, writer, ring, left, recorded, torn, samples>>
    /\ UNCHANGED_link

\* A call further on, with more in its hands.
Advanced(call, fields) ==
    [f \in DOMAIN call \cup DOMAIN fields |->
        IF f \in DOMAIN fields THEN fields[f] ELSE call[f]]

\* flush_block puts length, sequence number and CRC around the payload.
Frame ==
    /\ main.at = "frame"
    /\ main' = Advanced(main, [at |-> "framed", seq |-> writer.block_seq,
                               frame |-> writer.staged])
    /\ UNCHANGED <<time, clock, writer, ring, left, recorded, torn, samples>>
    /\ UNCHANGED_link

\* The sink's push of a piece starts: refused, or to be copied to the head.
StartPush(piece, call) ==
    IF Fits(ring, piece)
    THEN /\ main' = Advanced(call, [at |-> "pushing", piece |-> piece,
                                    head |-> ring.head, copied |-> 0])
         /\ UNCHANGED ring
    ELSE /\ main' = Advanced(call, [at |-> "pushed", taken |-> FALSE])
         /\ ring' = Dropped(ring)

PushBlock ==
    /\ main.at = "framed"
    /\ StartPush(Framed([seq |-> main.seq, payload |-> writer.staged], main.frame),
                 Restrict(main, DOMAIN main \ {"seq", "frame"}))
    /\ UNCHANGED <<time, clock, writer, left, recorded, torn, samples>>
    /\ UNCHANGED_link

\* finish, with the last block behind it: the terminator, if all is well.
PushEnd ==
    /\ main.at = "end" /\ writer.ok
    /\ StartPush(EndPiece, [at |-> "end", then |-> "over"])
    /\ UNCHANGED <<time, clock, writer, left, recorded, torn, samples>>
    /\ UNCHANGED_link

\* What is left to copy is copied, and the head moves.
PublishPiece ==
    /\ main.at = "pushing"
    /\ ring' = Publish(CopyUnits(ring, main.piece, main.head, main.copied + 1,
                                 PieceLen(main.piece)), main.piece)
    /\ main' = Advanced(Restrict(main, DOMAIN main \ {"piece", "head", "copied"}),
                        [at |-> "pushed", taken |-> TRUE])
    /\ UNCHANGED <<time, clock, writer, left, recorded, torn, samples>>
    /\ UNCHANGED_link

\* The block is spent, taken or not.
Spend ==
    /\ main.at = "pushed" /\ main.then # "over"
    /\ writer' = [writer EXCEPT !.block_seq = @ + 1, !.staged = <<>>, !.used = 0,
                                !.blocks_lost = IF main.taken THEN @ ELSE @ + 1]
    /\ main' = IF main.then = "append" THEN [at |-> "append", call |-> main.call]
               ELSE [at |-> "end"]
    /\ UNCHANGED <<time, clock, ring, left, recorded, torn, samples>>
    /\ UNCHANGED_link

AppendEvent ==
    /\ main.at = "append"
    /\ writer' = [writer EXCEPT !.staged = Append(@, main.call.encoded),
                                !.used = @ + 1, !.events = @ + 1]
    /\ recorded' = Append(recorded, main.call.ev)
    /\ main' = [main.call EXCEPT !.at = "appended"]
    /\ UNCHANGED <<time, clock, ring, left, torn, samples>>
    /\ UNCHANGED_link

Commit ==
    /\ main.at = "appended"
    /\ writer' = [writer EXCEPT !.last_ts = main.ev.ts,
                                !.last_addr = IF IsMmio(main.ev.type) THEN main.ev.addr
                                              ELSE @]
    /\ main' = AfterWrite(writer', main.what)
    /\ UNCHANGED <<time, clock, ring, left, recorded, torn, samples>>
    /\ UNCHANGED_link

\* stop() returns: a refused terminator is fatal, and the shim is off.
Stopped ==
    /\ \/ main.at = "end" /\ ~writer.ok
       \/ main.at = "pushed" /\ main.then = "over"
    /\ writer' = [(IF main.at = "pushed" /\ ~main.taken
                   THEN WFail(writer, "sink rejected data") ELSE writer)
                  EXCEPT !.finished = TRUE]
    /\ main' = NoCall /\ phase' = "drain"
    /\ UNCHANGED <<time, clock, ring, left, recorded, torn, samples, drain, received>>

--------------------------------------------------------------------------------
(* An interrupt: rwd_cortex_m_isr_entry and a handler with one access.       *)

\* One call of the writer that nothing interrupts, for the event call, at time t.
Atomic(state, t, call) ==
    LET c == Extend(state.clock, t % Wrap)
        ev == [call EXCEPT !.ts = Value(c)]
    IN {[clock |-> c, samples |-> Sampled(state.samples, t),
         w |-> o.w, sink |-> o.sink,
         recorded |-> IF o.w.events > state.w.events
                      THEN Append(state.recorded, ev) ELSE state.recorded] :
            o \in Write(state.w, state.sink, ev, 1)}

Handler ==
    /\ phase = "run" /\ left.irqs > 0
    /\ \E gap \in Gaps : time' = time + gap + 1
    /\ left' = [left EXCEPT !.irqs = @ - 1]
    /\ torn' = (torn \/ main.at # "idle")
    /\ \E n \in IF main.at = "pushing" THEN main.copied .. PieceLen(main.piece)
                ELSE {0} :
          LET pushing == main.at = "pushing"
              now == [clock |-> clock, samples |-> samples, w |-> writer,
                      recorded |-> recorded,
                      sink |-> IF pushing
                               THEN CopyUnits(ring, main.piece, main.head,
                                              main.copied + 1, n)
                               ELSE ring]
          IN \E s \in Atomic(now, time' - 1, IrqEvent(0, 1)) :
             \E o \in Atomic(s, time', ReadEvent(0, 5)) :
                /\ clock' = o.clock /\ samples' = o.samples
                /\ writer' = o.w /\ ring' = o.sink /\ recorded' = o.recorded
                /\ main' = IF pushing THEN [main EXCEPT !.copied = n] ELSE main
    /\ UNCHANGED_link

--------------------------------------------------------------------------------
(* The consumer.                                                             *)

StartDrain ==
    /\ \/ MainFree
       \/ phase = "drain" /\ ~drain.on
    /\ drain' = [on |-> TRUE, sent |-> 0]
    /\ UNCHANGED <<phase, time, clock, writer, ring, main, received, left,
                   recorded, torn, samples>>

\* What peek offers: up to the end of the store, and up to what drain() may
\* still send, which in the loop behind stop() is all there is.
Chunk ==
    LET ends == {Cap - (ring.tail % Cap), UsedUnits(ring)}
                    \cup IF phase = "run" THEN {DrainLimit - drain.sent} ELSE {}
    IN CHOOSE n \in ends : \A e \in ends : n <= e

\* A slip: all that was offered is consumed, whatever the link took.
ConsumeOffered ==
    /\ drain.on
    /\ \E n \in 1 .. Chunk :
          /\ received' = received \o [u \in 1 .. n |-> ring.store[(ring.tail + u - 1) % Cap]]
          /\ ring' = [ring EXCEPT !.tail = @ + Chunk]
          /\ drain' = [drain EXCEPT !.sent = @ + Chunk]
    /\ UNCHANGED <<phase, time, clock, writer, main, left, recorded, torn, samples>>

\* The link takes n units of the chunk, or claims more and is held to the chunk.
DrainChunk ==
    /\ drain.on
    /\ \E n \in 1 .. Chunk :
          /\ received' = received \o [u \in 1 .. n |-> ring.store[(ring.tail + u - 1) % Cap]]
          /\ ring' = [ring EXCEPT !.tail = @ + n]
          /\ drain' = [drain EXCEPT !.sent = @ + n]
    /\ UNCHANGED <<phase, time, clock, writer, main, left, recorded, torn, samples>>

\* A slip: the loop behind stop() waits for the buffer to be empty.
DrainUntilEmpty ==
    /\ drain.on
    /\ drain' = [on |-> FALSE, sent |-> 0]
    /\ phase' = IF phase = "drain" /\ UsedUnits(ring) = 0 THEN "over" ELSE phase
    /\ UNCHANGED <<time, clock, writer, ring, main, received, left, recorded,
                   torn, samples>>

\* drain returns: nothing to send, nothing more allowed, or the link is full.
\* The loop behind stop() ends when nothing was sent at all.
DrainReturns ==
    /\ drain.on
    /\ drain' = [on |-> FALSE, sent |-> 0]
    /\ phase' = IF phase = "drain" /\ drain.sent = 0 THEN "over" ELSE phase
    /\ UNCHANGED <<time, clock, writer, ring, main, received, left, recorded,
                   torn, samples>>

--------------------------------------------------------------------------------
MainStep ==
    \/ Sample \/ Stamp \/ Encode \/ Room \/ Frame \/ PushBlock \/ PushEnd
    \/ PublishPiece \/ Spend \/ AppendEvent \/ Commit \/ Stopped

Consumer == StartDrain \/ DrainChunk \/ DrainReturns

RecNext == MainStep \/ Handler \/ Consumer

RecSpec == RecInit /\ [][RecNext]_recvars

\* The loop that empties the buffer goes on until it ends; nothing makes the
\* firmware record, or stop.
FairRecSpec == RecSpec /\ WF_recvars(phase = "drain" /\ Consumer)
--------------------------------------------------------------------------------
(* What the host makes of the units the link carried.                        *)

WholeAt(p) ==
    LET piece == received[p].piece IN
    /\ received[p].unit = 1
    /\ p + PieceLen(piece) - 1 <= Len(received)
    /\ \A u \in 1 .. PieceLen(piece) : received[p + u - 1] = [piece |-> piece, unit |-> u]

\* The pieces from unit p on: the first that is not whole is a block cut short at
\* the end of the stream, or one that fails its CRC.  (Units that belong to no
\* piece are taken not to read as the terminator.)
Spoiled == [kind |-> "block", seq |-> 0, payload |-> <<>>, damage |-> "crc"]
Reassembled ==
    LET From[p \in 1 .. Len(received) + 1] ==
            IF p > Len(received) THEN [pieces |-> <<>>, tail |-> "none"]
            ELSE IF WholeAt(p)
            THEN LET piece == received[p].piece
                     rest == From[p + PieceLen(piece)]
                 IN [rest EXCEPT !.pieces = <<piece>> \o @]
            ELSE IF p + PieceLen(received[p].piece) - 1 > Len(received)
            THEN [pieces |-> <<>>, tail |-> "block"]
            ELSE [pieces |-> <<Spoiled>>, tail |-> "none"]
    IN From[1]

\* next() until it returns false: every call hands out an event or stops.
Reading ==
    LET medium == Reassembled
        After[n \in 0 .. Len(received) + 1] ==
            IF n = 0 THEN [r |-> Open(medium), got |-> <<>>]
            ELSE LET s == After[n - 1]
                     x == NextEvent(s.r, medium)
                 IN [r |-> x.r, got |-> s.got \o x.out]
    IN After[Len(received) + 1]

Healthy == writer.ok /\ writer.blocks_lost = 0 /\ ring.drops = 0
Emptied == phase = "over" /\ UsedUnits(ring) = 0
--------------------------------------------------------------------------------
(* What a recorder promises.                                                 *)

\* The shape of the state: nothing is sent twice, the block buffer overflows only
\* under a handler that recorded inside the main loop's call, and so does the ring.
RecTypeOK ==
    /\ phase \in {"run", "drain", "over"}
    /\ ring.tail <= ring.head /\ Len(received) = ring.tail
    /\ ~torn => UsedUnits(ring) <= Cap /\ writer.used \in 0 .. PayloadCap
    /\ writer.events = Len(recorded)
    /\ drain.on => main.at = "idle"

\* "the extension is exact" (clock.h): as long as the samples came in order and
\* less than a wrap apart, the extended clock tells the time of the last one.
ClockIsExact ==
    samples.exact /\ samples.seen # -1 => samples.base + Value(clock) = samples.seen

\* suspicious() raises no false alarm: it counts only gaps of half a wrap or more,
\* unless handlers have sampled the counter inside the main loop's sampling.
SuspicionIsFounded == ~torn => clock.suspicious <= samples.long

\* Time in the trace never runs backwards, late samples or not, and so the writer
\* latches no error for it, unless a handler recorded inside the main loop's call.
LatchedOnlyIfTorn == writer.err = "non-monotonic timestamp" => torn

\* With its calls alone, whatever the ring refused and wherever the link stopped
\* taking, the host reads a prefix of what was recorded.
AloneIsPrefix ==
    phase = "over" /\ ~torn => IsPrefix(Reading.got, recorded)

\* "Everything the writer produced reached the ring, and the writer has not latched
\* an error" (healthy()): then, with its calls alone and the ring emptied, the host
\* reads all that was recorded, with no error.
HealthyAloneIsWhole ==
    Emptied /\ ~torn /\ Healthy =>
        Reading.got = recorded /\ Reading.r.err = NoReadError

\* stop() is followed by the end of the run, however slow the link is: a drain()
\* that moved nothing ends the loop.
DrainEnds == phase = "drain" ~> phase = "over"

--------------------------------------------------------------------------------
(* What comments say and the code does not do.                               *)

\* recorder.h:16: "the sink masks interrupts around the push itself", so that a
\* healthy recording is whole whoever recorded; on the part the mask only counts.
HealthyIsWhole ==
    Emptied /\ Healthy => Reading.got = recorded /\ Reading.r.err = NoReadError

\* execution-model.md:165: "suspicious() counts sample gaps beyond half a period so
\* the doubt is reported rather than buried."  A gap across a wrap is not counted.
LongGapsAreReported == ~torn => clock.suspicious >= samples.long
================================================================================
