------------------------------- MODULE ByteQueue -------------------------------
(****************************************************************************)
(* What the buffer between recording and transmitting promises              *)
(* (core/include/rewind/ring_buffer.h): a bounded FIFO of bytes that takes  *)
(* all of a block or none of it, refuses only a block that does not fit,    *)
(* counts what it refuses, and hands out each byte once.                    *)
(****************************************************************************)
EXTENDS Sequences, Naturals

CONSTANTS Room, Blocks

VARIABLES
    queue,       \* the bytes held
    line,        \* the bytes handed out last
    refused      \* blocks refused since the queue was last cleared

Init == queue = <<>> /\ line = <<>> /\ refused = 0

Put(block) ==
    /\ Len(queue) + Len(block) <= Room
    /\ queue' = queue \o block
    /\ UNCHANGED <<line, refused>>

Refuse(block) ==
    /\ Len(queue) + Len(block) > Room
    /\ refused' = refused + 1
    /\ UNCHANGED <<queue, line>>

Get(n) ==
    /\ line' = SubSeq(queue, 1, n)
    /\ queue' = SubSeq(queue, n + 1, Len(queue))
    /\ UNCHANGED refused

Clear == queue' = <<>> /\ refused' = 0 /\ UNCHANGED line

Next ==
    \/ \E block \in Blocks : Put(block) \/ Refuse(block)
    \/ \E n \in 1 .. Len(queue) : Get(n)
    \/ Clear

Spec == Init /\ [][Next]_<<queue, line, refused>>
================================================================================
