------------------------------- MODULE MCTimeline ------------------------------
\* Timeline for TLC: the buggy variant on the simulated device.
EXTENDS Timeline, Mcu

CONSTANT Iters

MCFirmware == {FwReset("buggy", Iters)}
MCReplayedAs(f) == {f}
MCHandled == {UartVector}
================================================================================
