------------------------------- MODULE TraceReader ------------------------------
(****************************************************************************)
(* TraceReader of core/src/trace_reader.cpp as operators on a reader record *)
(* and the medium it reads: [pieces, tail], the whole pieces that arrived   *)
(* (see TraceWriter) and what is left of the one that was cut: nothing, a   *)
(* few bytes too short to be a length word ("word"), or the start of a      *)
(* block ("block").                                                         *)
(*                                                                          *)
(* A block carries what became of it on the way in the field damage: "none" *)
(* or "crc" for a flipped bit that its CRC covers, or, for a flipped bit of *)
(* the length word, which it does not cover, "length", or "zero" when the   *)
(* word now reads zero.  The CRC is taken to catch what it covers, and a    *)
(* misframed block with it.  The checks on malformed varints and ranges,    *)
(* which no block that passes its CRC meets, are left out.                  *)
(****************************************************************************)
EXTENDS Integers, Sequences

NoReadError == "none"

\* The constructor.
NewReader ==
    [opened |-> FALSE, done |-> FALSE, err |-> NoReadError, at |-> 0,
     payload |-> <<>>, last_ts |-> 0, last_addr |-> 0, expect_seq |-> 0,
     blocks_read |-> 0, blocks_lost |-> 0]

RFail(r, why) == [r EXCEPT !.err = IF @ = NoReadError THEN why ELSE @]

\* open: everything is reset first.
Open(medium) ==
    IF medium.pieces = <<>>
    THEN RFail(NewReader, "trace shorter than its header")
    ELSE [NewReader EXCEPT !.opened = TRUE, !.at = 2]

Close(r, why) == [RFail(r, why) EXCEPT !.done = TRUE]

\* Slips: a gap is read over, and its size is one too many.
TakeAnyLater(r, block) ==
    IF block.seq < r.expect_seq THEN Close(r, "block sequence went backwards")
    ELSE [r EXCEPT !.expect_seq = block.seq + 1, !.blocks_read = @ + 1,
                   !.payload = block.payload, !.at = @ + 1]

TakeWithWideGap(r, block) ==
    IF block.seq < r.expect_seq THEN Close(r, "block sequence went backwards")
    ELSE IF block.seq > r.expect_seq
    THEN [Close(r, "gap in trace") EXCEPT !.blocks_lost = block.seq + 1 - r.expect_seq]
    ELSE [r EXCEPT !.expect_seq = block.seq + 1, !.blocks_read = @ + 1,
                   !.payload = block.payload, !.at = @ + 1]

\* A whole block with no damage, at the reader's position.
TakeBlock(r, block) ==
    IF block.seq < r.expect_seq THEN Close(r, "block sequence went backwards")
    ELSE IF block.seq > r.expect_seq
    THEN [Close(r, "gap in trace") EXCEPT !.blocks_lost = block.seq - r.expect_seq]
    ELSE [r EXCEPT !.expect_seq = block.seq + 1, !.blocks_read = @ + 1,
                   !.payload = block.payload, !.at = @ + 1]

\* A slip: the end of a trace without a terminator is not an end.
LoadWithoutEnd(r, medium) ==
    IF r.at > Len(medium.pieces)
    THEN IF medium.tail = "block" THEN Close(r, "truncated block") ELSE r
    ELSE LET piece == medium.pieces[r.at] IN
         CASE piece.kind = "end"           -> [r EXCEPT !.done = TRUE]
           [] piece.kind = "block" /\ piece.damage = "zero" ->
                  [r EXCEPT !.done = TRUE]
           [] piece.kind = "block" /\ piece.damage \in {"crc", "length"} ->
                  Close(r, "block CRC mismatch")
           [] OTHER                        -> TakeBlock(r, piece)

LoadNextBlock(r, medium) ==
    IF r.at > Len(medium.pieces)
    THEN IF medium.tail = "block" THEN Close(r, "truncated block")
         ELSE [r EXCEPT !.done = TRUE]
    ELSE LET piece == medium.pieces[r.at] IN
         CASE piece.kind = "end"           -> [r EXCEPT !.done = TRUE]
           [] piece.kind = "block" /\ piece.damage = "zero" ->
                  [r EXCEPT !.done = TRUE]
           [] piece.kind = "block" /\ piece.damage \in {"crc", "length"} ->
                  Close(r, "block CRC mismatch")
           [] OTHER                        -> TakeBlock(r, piece)

\* The event at the head of the payload, decoded against the running state.
Decoded(r) ==
    LET e == Head(r.payload)
        mmio == e.type \in {"read", "write"}
    IN [type |-> e.type, ts |-> r.last_ts + e.dts,
        addr |-> IF mmio THEN r.last_addr + e.arg ELSE e.arg, value |-> e.value]

\* A slip: an interrupt's vector moves the address predictor.
PastEventPredicting(r) ==
    LET ev == Decoded(r) IN
    [r EXCEPT !.payload = Tail(@), !.last_ts = ev.ts, !.last_addr = ev.addr]

PastEvent(r) ==
    LET ev == Decoded(r) IN
    [r EXCEPT !.payload = Tail(@), !.last_ts = ev.ts,
              !.last_addr = IF ev.type \in {"read", "write"} THEN ev.addr ELSE @]

\* next: the reader after it, and the event it handed out, if any.
NextEvent(r, medium) ==
    IF ~r.opened THEN [r |-> RFail(r, "next() before open()"), out |-> <<>>]
    ELSE IF r.done \/ r.err # NoReadError THEN [r |-> r, out |-> <<>>]
    ELSE LET q == IF r.payload = <<>> THEN LoadNextBlock(r, medium) ELSE r IN
         IF q.payload = <<>> THEN [r |-> q, out |-> <<>>]
         ELSE [r |-> PastEvent(q), out |-> <<Decoded(q)>>]
================================================================================
