------------------------------- MODULE EventStream -----------------------------
(****************************************************************************)
(* What a trace promises its reader (core/include/rewind/trace.h): whatever *)
(* the sink refuses and the link loses or damages, the reader is handed the *)
(* recorded events, in order and from the first, until it stops; an event   *)
(* it cannot vouch for is never handed out.                                 *)
(****************************************************************************)
EXTENDS Sequences, Naturals

CONSTANT Events

VARIABLES recorded, received, stopped

Init == recorded = <<>> /\ received = <<>> /\ stopped = FALSE

Record(e) ==
    /\ recorded' = Append(recorded, e)
    /\ UNCHANGED <<received, stopped>>

Receive ==
    /\ ~stopped /\ Len(received) < Len(recorded)
    /\ received' = Append(received, recorded[Len(received) + 1])
    /\ UNCHANGED <<recorded, stopped>>

Stop == ~stopped /\ stopped' = TRUE /\ UNCHANGED <<recorded, received>>

Next == (\E e \in Events : Record(e)) \/ Receive \/ Stop

Spec == Init /\ [][Next]_<<recorded, received, stopped>>
================================================================================
