--------------------------------- MODULE Clock ---------------------------------
(****************************************************************************)
(* ClockExtender of target/src/clock.cpp: the samples of a free-running     *)
(* cycle counter that wraps around at Wrap (2^32) widened to a count that   *)
(* does not.  value_ is Value; wraps_ is taken not to overflow.             *)
(****************************************************************************)
EXTENDS Integers

CONSTANT Wrap

ASSUME WrapAssumption == Wrap \in Nat \ {0} /\ Wrap % 2 = 0

\* The constructor and reset().
NewClock == [primed |-> FALSE, last_raw |-> 0, wraps |-> 0, suspicious |-> 0]

Value(c) == c.wraps * Wrap + c.last_raw

\* kSuspiciousDelta
Half == Wrap \div 2

\* Slips: the first sample is compared like the others, and a step back counts
\* as a wrap only if it is a long one.
ExtendUnanchored(c, raw) ==
    [primed |-> TRUE, last_raw |-> raw,
     wraps |-> c.wraps + (IF raw < c.last_raw THEN 1 ELSE 0),
     suspicious |-> c.suspicious + (IF raw - c.last_raw >= Half THEN 1 ELSE 0)]

ExtendIfFarBack(c, raw) ==
    IF ~c.primed THEN [c EXCEPT !.primed = TRUE, !.last_raw = raw]
    ELSE [c EXCEPT !.last_raw = raw,
                   !.wraps = @ + (IF c.last_raw - raw >= Half THEN 1 ELSE 0),
                   !.suspicious = @ + (IF raw - c.last_raw >= Half THEN 1 ELSE 0)]

\* extend: the first sample anchors the clock; a smaller one than the last means
\* a wrap, and one far ahead of it, without a wrap, is suspicious.
Extend(c, raw) ==
    IF ~c.primed THEN [c EXCEPT !.primed = TRUE, !.last_raw = raw]
    ELSE [c EXCEPT !.last_raw = raw,
                   !.wraps = @ + (IF raw < c.last_raw THEN 1 ELSE 0),
                   !.suspicious = @ + (IF raw - c.last_raw >= Half THEN 1 ELSE 0)]
================================================================================
