------------------------------ MODULE MCBlockCodec -----------------------------
(* Words of 5 bits in digits of 2: three bytes, the last with one bit, as      *)
(* 64 = 9 * 7 + 1.  Addresses of 3 bits, whose differences take 4.             *)
EXTENDS BlockCodec

Event(type, ts, addr, value) == [type |-> type, ts |-> ts, addr |-> addr, value |-> value]

MCEvents ==
    {Event(EvRead, ts, addr, value) : ts \in {0, 31}, addr \in {0, 3, 7}, value \in {7}}
    \cup {Event(EvWrite, 4, 7, 4), Event(EvIrqEnter, 3, 5, 0), Event(EvIrqAt, 4, 2, 7),
          Event(EvStop, 31, 0, 0)}

\* Anything in the place of an address delta, of a vector and of a time; a type
\* that does not exist; an argument cut short.
MCForgeries ==
    LET Junk == UNION {[1 .. n -> Byte] : n \in 1 .. 3} IN
    {<<EvRead, 0>> \o junk \o <<0, 1>> : junk \in Junk}
    \cup {<<EvIrqEnter, 0>> \o junk : junk \in Junk}
    \cup {<<EvIrqAt, 1, 1>> \o junk : junk \in Junk}
    \cup {<<EvStop>> \o junk : junk \in Junk}
    \cup {<<0, 0>>, <<6, 0>>}
================================================================================
