------------------------------- MODULE RingBuffer ------------------------------
(****************************************************************************)
(* RingBuffer of core/src/ring_buffer.cpp between one producer, push(), and *)
(* one consumer, Recorder::drain() (target/src/recorder.cpp) with the       *)
(* transport it calls, either of which an interrupt may stop between any    *)
(* two accesses to what they share: the bytes, head_ and tail_.             *)
(*                                                                          *)
(* The counters are Wrap wide, Wrap standing for 2^32; the mask on use is   *)
(* the remainder by Cap, which divides Wrap as a power of two does.         *)
(****************************************************************************)
EXTENDS Integers, Sequences, FiniteSets

CONSTANTS
    Cap,              \* capacity
    Wrap,             \* the counters wrap around here
    Byte,             \* what a byte may be
    Blocks,           \* the blocks that may be pushed: sequences of bytes
    MaxBytes,         \* the limit a drain() is called with
    MaxDrops          \* bound on the refused pushes between two resets

\* init() takes a power of two from 2 to half the width of the counters.
ASSUME CapAssumption ==
    /\ Cap \in Nat \ {0, 1} /\ Wrap \in Nat
    /\ \E n \in 2 .. Wrap : Wrap = n * Cap

ASSUME BlocksAssumption ==
    /\ Blocks \subseteq Seq(Byte) /\ <<>> \notin Blocks
    /\ MaxBytes \in Nat \ {0} /\ MaxDrops \in Nat

VARIABLES
    store, head, tail,
    drops,       \* drops_; bytes_dropped_ goes with it
    high_water,
    push,        \* the push in progress: [at, block, copied]
    drain,       \* the drain in progress: [at, sent, offset, avail, read]
    line         \* the bytes the last chunk carried to the transport

vars == <<store, head, tail, drops, high_water, push, drain, line>>

Plus(counter, n) == (counter + n) % Wrap
Minus(a, b) == (a - b) % Wrap
Masked(counter) == counter % Cap

Used == Minus(head, tail)
\* A slip: room for one byte too many.
SpaceAndOne == Cap - Used + 1

Space == Cap - Used

NoPush == [at |-> "idle", block |-> <<>>, copied |-> 0]
NoDrain == [at |-> "idle", sent |-> 0, offset |-> 0, avail |-> 0, read |-> <<>>]

\* init, with the storage zeroed as .bss is.
Init ==
    /\ \E b \in Byte : store = [k \in 0 .. Cap - 1 |-> b]
    /\ head = 0 /\ tail = 0 /\ drops = 0 /\ high_water = 0
    /\ push = NoPush /\ drain = NoDrain /\ line = <<>>

--------------------------------------------------------------------------------
(* The producer.                                                             *)

\* push reads tail_ once, for space().
PushRefused ==
    /\ push.at = "idle" /\ drops < MaxDrops
    /\ \E block \in Blocks : Len(block) > Space
    /\ drops' = drops + 1
    /\ UNCHANGED <<store, head, tail, high_water, push, drain, line>>

PushAccepted ==
    /\ push.at = "idle"
    /\ \E block \in Blocks :
          /\ Len(block) <= Space
          /\ push' = [at |-> "copy", block |-> block, copied |-> 0]
    /\ UNCHANGED <<store, head, tail, drops, high_water, drain, line>>

\* A slip: the part of a block behind the wrap is not copied.
CopyFirstPart ==
    /\ push.at = "copy" /\ push.copied < Len(push.block)
    /\ store' = [store EXCEPT ![Masked(head) + push.copied] =
                                    push.block[push.copied + 1]]
    /\ push' = [push EXCEPT !.copied = @ + 1]
    /\ UNCHANGED <<head, tail, drops, high_water, drain, line>>

\* One byte of either copy_bytes: the second starts over at the store's front.
CopyByte ==
    /\ push.at = "copy" /\ push.copied < Len(push.block)
    /\ store' = [store EXCEPT ![Masked(Plus(head, push.copied))] =
                                    push.block[push.copied + 1]]
    /\ push' = [push EXCEPT !.copied = @ + 1]
    /\ UNCHANGED <<head, tail, drops, high_water, drain, line>>

Publish ==
    /\ push.at = "copy" /\ push.copied = Len(push.block)
    /\ head' = Plus(head, Len(push.block))
    /\ push' = [push EXCEPT !.at = "mark"]
    /\ UNCHANGED <<store, tail, drops, high_water, drain, line>>

\* The mark, from a second reading of the consumer's counter.
MarkHighWater ==
    /\ push.at = "mark"
    /\ high_water' = IF Used > high_water THEN Used ELSE high_water
    /\ push' = NoPush
    /\ UNCHANGED <<store, head, tail, drops, drain, line>>

--------------------------------------------------------------------------------
(* The consumer.                                                             *)

\* A slip: the chunk goes on to the end of the store.
PeekToEnd ==
    /\ drain.at = "idle" /\ drain.sent < MaxBytes /\ Used > 0
    /\ LET offset == Masked(tail)
           ends == {Cap - offset, MaxBytes - drain.sent}
       IN drain' = [drain EXCEPT !.at = "send", !.offset = offset, !.read = <<>>,
                                 !.avail = CHOOSE n \in ends : \A e \in ends : n <= e]
    /\ UNCHANGED <<store, head, tail, drops, high_water, push, line>>

\* peek: what is held up to the end of the store, and no more than drain() may
\* still send.
Peek ==
    /\ drain.at = "idle" /\ drain.sent < MaxBytes /\ Used > 0
    /\ LET offset == Masked(tail)
           ends == {Cap - offset, Used, MaxBytes - drain.sent}
       IN drain' = [drain EXCEPT !.at = "send", !.offset = offset, !.read = <<>>,
                                 !.avail = CHOOSE n \in ends : \A e \in ends : n <= e]
    /\ UNCHANGED <<store, head, tail, drops, high_water, push, line>>

\* The transport reads the chunk byte by byte.
SendByte ==
    /\ drain.at = "send" /\ Len(drain.read) < drain.avail
    /\ drain' = [drain EXCEPT !.read = Append(@, store[drain.offset + Len(@)])]
    /\ UNCHANGED <<store, head, tail, drops, high_water, push, line>>

\* The transport took some of it, or (a bug in it) claims to have taken more
\* than it was offered and is held to that; the loop goes round.
Consume ==
    /\ drain.at = "send" /\ drain.read # <<>>
    /\ LET taken == Len(drain.read) IN
       /\ tail' = IF taken > Used THEN tail ELSE Plus(tail, taken)
       /\ line' = drain.read
       /\ drain' = [NoDrain EXCEPT !.sent = drain.sent + taken]
    /\ UNCHANGED <<store, head, drops, high_water, push>>

\* drain returns: the limit is reached, the buffer is empty or the link is full.
DrainReturns ==
    /\ \/ drain.at = "idle" /\ drain.sent > 0 /\ (drain.sent >= MaxBytes \/ Used = 0)
       \/ drain.at = "send" /\ drain.read = <<>>
    /\ drain' = NoDrain
    /\ UNCHANGED <<store, head, tail, drops, high_water, push, line>>

\* A slip: a reset under the transport.
ResetWhileDraining ==
    /\ push = NoPush
    /\ head' = 0 /\ tail' = 0 /\ drops' = 0 /\ high_water' = 0
    /\ UNCHANGED <<store, push, drain, line>>

\* reset, which neither side may be running beside.
Reset ==
    /\ push = NoPush /\ drain = NoDrain
    /\ head' = 0 /\ tail' = 0 /\ drops' = 0 /\ high_water' = 0
    /\ UNCHANGED <<store, push, drain, line>>

Produce == CopyByte \/ Publish \/ MarkHighWater
Next ==
    \/ PushRefused \/ PushAccepted \/ Produce
    \/ Peek \/ SendByte \/ Consume \/ DrainReturns
    \/ Reset

Spec == Init /\ [][Next]_vars
--------------------------------------------------------------------------------
TypeOK ==
    /\ store \in [0 .. Cap - 1 -> Byte]
    /\ head \in 0 .. Wrap - 1 /\ tail \in 0 .. Wrap - 1 /\ Used \in 0 .. Cap
    /\ high_water \in 0 .. Cap
    /\ push.at \in {"idle", "copy", "mark"}
    /\ drain.at \in {"idle", "send"} /\ drain.sent \in 0 .. MaxBytes

Held == [k \in 1 .. Used |-> store[Masked(Plus(tail, k - 1))]]

\* The lock-free buffer is the bounded FIFO: with both counters wrapping and the
\* two sides stopped anywhere, a byte is handed out once, in order, as it was
\* pushed, and a push is refused only when it does not fit.
Queue == INSTANCE ByteQueue WITH Room <- Cap, queue <- Held, refused <- drops
ImplementsByteQueue == Queue!Spec

\* "Published last: until head_ moves, the consumer sees none of it" (push), nor
\* does the producer write under the transport: the bytes being copied and the
\* chunk being sent never share a cell.
SidesKeepApart ==
    push.at = "copy" /\ drain.at = "send" =>
        {Masked(Plus(head, k)) : k \in 0 .. Len(push.block) - 1}
            \cap {drain.offset + k : k \in 0 .. drain.avail - 1} = {}

\* A chunk that was offered can be consumed, whatever was pushed meanwhile
\* (consume never returns false in drain).
OfferStands == drain.at = "send" => drain.avail <= Used
================================================================================
