------------------------------- MODULE MCRxPump --------------------------------
\* RxPumpSystem for TLC: recordings of Iters main-loop iterations of either
\* variant, replayed as either variant for as many iterations, one less or one
\* more.
EXTENDS RxPumpSystem

CONSTANT Iters

Variants == {"buggy", "fixed"}

MCFirmware == {FwReset(v, Iters) : v \in Variants}
MCReplayedAs(f) == {FwReset(v, k) : v \in Variants, k \in Iters - 1 .. Iters + 1}
MCHandled == {UartVector}
================================================================================
