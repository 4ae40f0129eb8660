----------------------------- MODULE MCRingBuffer ------------------------------
\* RingBuffer for TLC: blocks that fit easily, just and never.
EXTENDS RingBuffer

MCBlocks == {<<1>>, <<2, 1>>, <<1, 2, 2>>, <<2, 2, 1, 2, 1>>}
================================================================================
