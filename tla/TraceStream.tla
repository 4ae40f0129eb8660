------------------------------- MODULE TraceStream -----------------------------
(****************************************************************************)
(* A trace from the events handed to the writer to the events the reader    *)
(* hands out: TraceWriter in front of a sink that may refuse any piece, a   *)
(* link that may cut the stream short, flip a bit of one block or repeat    *)
(* one, and TraceReader behind it.                                          *)
(****************************************************************************)
EXTENDS TraceWriter, TraceReader, FiniteSets, SequencesExt

CONSTANTS
    Calls,            \* the calls of the firmware: records [type, ts, addr, value]
    StopTimes,        \* timestamps finish() may be called with
    MaxEvents         \* bound on the events recorded before finish()

ASSUME CallsAssumption ==
    /\ Calls \subseteq [type : {"read", "write", "irq", "irq_at"}, ts : Nat,
                        addr : Nat, value : Nat]
    /\ StopTimes \subseteq Nat

VARIABLES
    phase,       \* "begin", "write", "carry", "open", "read"
    writer,      \* the TraceWriter
    wire,        \* the pieces the sink has taken
    recorded,    \* history: the events staged
    medium,      \* what arrives: [pieces, tail]
    reader,      \* the TraceReader
    got          \* the events the reader has handed out

vars == <<phase, writer, wire, recorded, medium, reader, got>>

\* The sink of the runs: it takes any piece or refuses it.
AnySink(sink, piece) ==
    {[sink |-> Append(sink, piece), taken |-> TRUE],
     [sink |-> sink, taken |-> FALSE]}

Nothing == [pieces |-> <<>>, tail |-> "none"]

Init ==
    /\ phase = "begin"
    /\ writer = NewWriter /\ wire = <<>> /\ recorded = <<>>
    /\ medium = Nothing /\ reader = NewReader /\ got = <<>>

--------------------------------------------------------------------------------
(* The device.                                                               *)

\* The writer and the sink are now those of the outcome o.  An event was staged
\* iff events_ moved; it is in the block that is pending then.
Becomes(o, ev) ==
    /\ writer' = o.w /\ wire' = o.sink
    /\ recorded' = IF o.w.events > writer.events
                   THEN Append(recorded, ev) ELSE recorded
    /\ UNCHANGED <<medium, reader, got>>

CallBegin ==
    /\ phase \in {"begin", "write"}
    /\ \E valid \in BOOLEAN : \E o \in Begin(writer, wire, valid) :
          /\ writer' = o.w /\ wire' = o.sink
          /\ phase' = IF o.w.started THEN "write" ELSE "begin"
    /\ UNCHANGED <<recorded, medium, reader, got>>

CallWrite ==
    /\ phase = "write" /\ writer.events < MaxEvents
    /\ \E c \in Calls, size \in EventSizes :
       \E o \in Write(writer, wire, c, size) : Becomes(o, c)
    /\ UNCHANGED phase

CallFinish ==
    /\ phase = "write"
    /\ \E ts \in StopTimes, size \in EventSizes :
       \E o \in Finish(writer, wire, ts, size) : Becomes(o, StopEvent(ts))
    /\ phase' = "carry"

--------------------------------------------------------------------------------
(* The link.                                                                 *)

Blocks == {k \in 1 .. Len(wire) : wire[k].kind = "block"}

Arrived(damaged, how) ==
    [k \in 1 .. Len(wire) |->
        IF wire[k].kind # "block" THEN wire[k]
        ELSE [kind |-> "block", seq |-> wire[k].seq, payload |-> wire[k].payload,
              damage |-> IF k = damaged THEN how ELSE "none"]]

\* Everything the sink took arrives, but for a bit of one block.
CarryDamaged ==
    \E k \in Blocks \cup {0}, how \in {"crc", "length", "zero"} :
        medium' = [pieces |-> Arrived(k, how), tail |-> "none"]

\* The device browned out: whole pieces, and a ragged tail.
CarryCut ==
    \E k \in 0 .. Len(wire) - 1, tail \in {"none", "word", "block"} :
        /\ tail = "block" => wire[k + 1].kind = "block"
        /\ medium' = [pieces |-> SubSeq(Arrived(0, "none"), 1, k), tail |-> tail]

\* A block arrives a second time, after a later one.
CarryTwice ==
    \E k \in Blocks : \E j \in k .. Len(wire) :
        LET pieces == Arrived(0, "none") IN
        medium' = [pieces |-> InsertAt(pieces, j + 1, pieces[k]), tail |-> "none"]

Carry ==
    /\ phase = "carry"
    /\ CarryDamaged \/ CarryCut \/ CarryTwice
    /\ phase' = "open"
    /\ UNCHANGED <<writer, wire, recorded, reader, got>>

--------------------------------------------------------------------------------
(* The host.                                                                 *)

CallOpen ==
    /\ phase = "open"
    /\ reader' = Open(medium)
    /\ phase' = "read"
    /\ UNCHANGED <<writer, wire, recorded, medium, got>>

Stopped == reader.done \/ reader.err # NoReadError

CallNext ==
    /\ phase = "read" /\ ~Stopped
    /\ LET n == NextEvent(reader, medium) IN
       reader' = n.r /\ got' = got \o n.out
    /\ UNCHANGED <<phase, writer, wire, recorded, medium>>

Next ==
    \/ CallBegin \/ CallWrite \/ CallFinish
    \/ Carry
    \/ CallOpen \/ CallNext

Spec == Init /\ [][Next]_vars

\* The host reads on until the reader stops; nobody makes the device call.
FairSpec == Spec /\ WF_vars(Carry) /\ WF_vars(CallOpen) /\ WF_vars(CallNext)
--------------------------------------------------------------------------------
(* What the trace promises.                                                  *)

Values(s) == {s[k] : k \in 1 .. Len(s)}
AllCalls == Calls \cup {StopEvent(ts) : ts \in StopTimes}

\* The shape of the state: the block buffer never overflows, time in the trace
\* never runs backwards, and only the header can be the first piece taken.
TypeOK ==
    /\ phase \in {"begin", "write", "carry", "open", "read"}
    /\ writer.used \in 0 .. PayloadCap /\ (writer.used = 0 <=> writer.staged = <<>>)
    /\ writer.blocks_lost \in 0 .. writer.block_seq
    /\ writer.events = Len(recorded)
    /\ Values(recorded) \subseteq AllCalls
    /\ \A k \in 1 .. Len(recorded) - 1 : recorded[k].ts <= recorded[k + 1].ts
    /\ \A k \in 1 .. Len(wire) : wire[k].kind = "header" <=> k = 1

\* Whatever is refused, cut, damaged or repeated, the reader hands out the
\* recorded events from the first on, with their absolute times and addresses:
\* a hole ends the reading, for the deltas after it would decode wrongly
\* (load_next_block).
GotIsPrefix == IsPrefix(got, recorded)

\* The abstract stream, with the reader's end for its stop.
Stream == INSTANCE EventStream
            WITH Events <- AllCalls, received <- got, stopped <- Stopped
ImplementsEventStream == Stream!Spec

Sequenced(s) == {w \in Values(wire) : w.kind = "block" /\ w.seq = s}

\* "the reader sees a gap of exactly" the blocks lost (flush_block): a reported
\* gap starts after the last block read, its blocks were all refused by the
\* sink, and the block it ends at was taken.
GapIsExact ==
    reader.blocks_lost > 0 =>
        LET first == reader.expect_seq
            after == first + reader.blocks_lost
        IN /\ \A s \in first .. after - 1 : Sequenced(s) = {}
           /\ Sequenced(after) # {}
           /\ writer.blocks_lost >= reader.blocks_lost

\* All that the sink took has arrived as it was.
Faithful == medium = [pieces |-> Arrived(0, "none"), tail |-> "none"]

\* The device knows of every loss, also of one the host cannot see (HoleIsShown): a
\* reader that ends without an error on exactly what the sink took missed an event
\* only if the writer counts a lost block or has latched an error.
LossIsKnown ==
    phase = "read" /\ Stopped /\ reader.err = NoReadError /\ Faithful
        /\ got # recorded
            => writer.blocks_lost > 0 \/ ~writer.ok

\* After an error has latched nothing more is handed to the sink, so that no
\* terminator ever makes a recording that failed look like one that ended.
ErrorSilencesTheWriter == [][writer.started /\ ~writer.ok => wire' = wire]_vars

\* The reader of a finite medium stops.
ReaderStops == phase = "carry" ~> phase = "read" /\ Stopped

--------------------------------------------------------------------------------
(* What comments say and the code does not do.                               *)

\* trace_writer.h:76: "Non-zero means the trace has a hole; the sequence numbers
\* show a reader exactly where and how big."  The last block has no successor.
HoleIsShown ==
    phase = "read" /\ Stopped /\ Faithful /\ writer.ok /\ writer.blocks_lost > 0
        => reader.blocks_lost > 0
================================================================================
