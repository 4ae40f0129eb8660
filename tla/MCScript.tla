------------------------------- MODULE MCScript --------------------------------
(****************************************************************************)
(* Hardware for TLC with scripted firmware, of the shape test_hal.cpp   *)
(* drives the shim with, on a device that may raise any vector at any       *)
(* access.  A firmware state holds the script of the main loop still to     *)
(* run, that of the handler, a variable x the handlers write, and what the  *)
(* main loop read (y) and took from x (z).                                  *)
(****************************************************************************)
EXTENDS Hardware

CONSTANT Irqs         \* bound on the interrupts a run raises

\* Main loop: an access, a critical section around another, a read of the
\* shared variable, a write of it.
MCMain == <<"read", "disable", "read", "enable", "take", "write", "take", "read">>
MCPlain == <<"read", "take", "write", "read">>

\* The handlers: vector 1 reads into x; vector 2 does so in a critical section
\* of its own.  Vector 3 has no handler.
MCHandler(v) ==
    CASE v = 1 -> <<"fetch">>
      [] v = 2 -> <<"disable", "fetch", "enable", "fetch">>

MCFirmwareOf(main) ==
    [main |-> main, isr |-> <<>>, inside |-> FALSE, x |-> 0, y |-> 0, z |-> 0]

MCScripted == {MCFirmwareOf(MCMain)}
MCPlainOne == {MCFirmwareOf(MCPlain)}
MCReplayedAs(f) == {f}

MCHead(f) == IF f.inside
             THEN IF f.isr = <<>> THEN "iret" ELSE Head(f.isr)
             ELSE IF f.main = <<>> THEN "halt" ELSE Head(f.main)

MCRequest(f) ==
    LET op == MCHead(f) IN
    CASE op = "read"  -> [op |-> "read", addr |-> "A", value |-> 0]
      [] op = "fetch" -> [op |-> "read", addr |-> "C", value |-> 0]
      [] op = "write" -> [op |-> "write", addr |-> "B", value |-> f.z]
      [] op = "take"  -> [op |-> "step", addr |-> "none", value |-> 0]
      [] OTHER        -> [op |-> op, addr |-> "none", value |-> 0]

MCNextOp(f) == IF ~f.inside THEN [f EXCEPT !.main = Tail(@)]
               ELSE IF f.isr = <<>> THEN [f EXCEPT !.inside = FALSE]
               ELSE [f EXCEPT !.isr = Tail(@)]

MCResume(f, v) ==
    LET op == MCHead(f)
        g == MCNextOp(f)
    IN CASE op = "read"  -> [g EXCEPT !.y = v]
         [] op = "fetch" -> [g EXCEPT !.x = v]
         [] op = "take"  -> [g EXCEPT !.z = g.x]
         [] OTHER        -> g

MCEnterIsr(f, v) == [f EXCEPT !.isr = MCHandler(v), !.inside = TRUE]

\* The handlers come back, and leave the mask as they found it: these are the states
\* of the scripts, and of the handlers under them.
MCMainStates ==
    {[MCFirmwareOf(SubSeq(script, k, Len(script))) EXCEPT !.x = x, !.y = y, !.z = z] :
        script \in {MCMain, MCPlain}, k \in 1 .. Len(MCMain) + 1,
        x \in {0, 1}, y \in {0, 1}, z \in {0, 1}}

MCHandlerStates ==
    {<<f, [f EXCEPT !.isr = rest[1], !.inside = TRUE, !.x = x], rest[2]>> :
        f \in MCMainStates, x \in {0, 1},
        rest \in {<<MCHandler(2), 0>>, <<Tail(MCHandler(2)), 1>>,
                  <<Tail(Tail(MCHandler(2))), 1>>, <<MCHandler(1), 0>>, <<<<>>, 0>>}}

ASSUME ScriptsAreC ==
    /\ HandlersComeBack(MCMainStates, MCHandlerStates, {0, 1})
    /\ HandlersUnmask(MCHandlerStates)

\* The device: its clock, a latched vector, and the interrupts it may raise yet.
MCDevInit == {[now |-> 0, latched |-> NoIrq, left |-> Irqs],
              [now |-> 0, latched |-> 1, left |-> Irqs - 1]}

MCRaise(d, vectors) ==
    {d} \cup IF d.latched = NoIrq /\ d.left > 0
             THEN {[d EXCEPT !.latched = v, !.left = @ - 1] : v \in vectors}
             ELSE {}

MCAfterAccess(d, vectors) == MCRaise([d EXCEPT !.now = @ + 1], vectors)

MCDevRead(d, addr) ==
    {[dev |-> e, value |-> v] : e \in MCAfterAccess(d, {1, 2, 3}), v \in {0, 1}}
MCDevWrite(d, addr, value) == MCAfterAccess(d, {1, 2, 3})

MCDevPoll(d) == {[dev |-> [d EXCEPT !.latched = NoIrq], vector |-> d.latched]}
MCDevNow(d) == d.now
MCHandled == {1, 2}
================================================================================
