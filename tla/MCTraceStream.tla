----------------------------- MODULE MCTraceStream -----------------------------
\* TraceStream for TLC.
EXTENDS TraceStream

Call(type, ts, addr) == [type |-> type, ts |-> ts, addr |-> addr, value |-> 0]

\* Reads of two registers, forwards and backwards in the address space, an
\* interrupt between them that must leave the address predictor alone, and
\* times that stand still, advance and run backwards.
MCCalls ==
    {Call("read", 0, 2), Call("read", 1, 5), Call("write", 1, 2), Call("irq_at", 1, 3)}
================================================================================
