---------------------------- MODULE BlockCodecProofs ---------------------------
(****************************************************************************)
(* What the bytes of a block say, for every word size and byte size the     *)
(* assumptions of Varint and BlockCodec allow, every set of events and      *)
(* every forgery.                                                           *)
(*                                                                          *)
(* Varint: the digits of a number, weighed by Scale, add up to it (Sums),   *)
(* and varint_decode is the sum of the digits up to the first byte that     *)
(* ends a number (DecodeIs), so it undoes varint_encode (RoundTrip).        *)
(*                                                                          *)
(* Crc32: the table's words differ in their highest four bits, so a nibble  *)
(* step loses nothing (TopsDiffer, NibbleStepKeeps): registers that differ  *)
(* go on differing, and two neighbouring bytes that differ show in the      *)
(* checksum (BurstIsSeen).  Each word of the table is four steps of the     *)
(* standard's division (TableIsFourBits), so the register is the standard's *)
(* (EveryRegisterIsStandard).                                               *)
(*                                                                          *)
(* BlockCodec: a block's checksum is right until the link damages it        *)
(* (BlockInv), and until something was forged the bytes on their way are    *)
(* those of the events the host has still to read, encoded against what     *)
(* the host remembers (StreamInv).                                          *)
(****************************************************************************)
EXTENDS BlockCodec, SequenceTheorems, WellFoundedInduction, TLAPS

--------------------------------------------------------------------------------
(* Induction and recursion over natural numbers.                             *)

\* Mathematical induction, by a set and not by an operator.
LEMMA SetInduction ==
    ASSUME NEW S, S \subseteq Nat, 0 \in S, \A n \in S : n + 1 \in S
    PROVE  S = Nat
<1> DEFINE R == {ss \in Nat \X Nat : ss[1] < ss[2]}
           T == Nat \ S
<1>1. IsWellFoundedOn(R, Nat)
  BY NatLessThanWellFounded DEF OpToRel
<1> SUFFICES ASSUME T # {} PROVE FALSE
  OBVIOUS
<1>2. PICK x \in T : \A y \in T : ~(<<y, x>> \in R)
  <2> HIDE DEF R, T
  <2>1. T \subseteq Nat
    BY DEF T
  <2> QED
    BY <1>1, <2>1, WFMin
<1>3. x \in Nat /\ x # 0
  OBVIOUS
<1>4. x - 1 \in Nat /\ x - 1 < x
  BY <1>3
<1>5. x - 1 \notin T
  <2>1. <<x - 1, x>> \in R
    BY <1>3, <1>4
  <2> HIDE DEF R, T
  <2> QED
    BY <1>2, <2>1
<1> QED
  <2>1. x - 1 \in S
    BY <1>4, <1>5
  <2>2. x - 1 + 1 = x
    BY <1>3
  <2> QED
    BY <2>1, <2>2

\* f is what n rounds of h make of start.
Iterates(f, V, start, h, n) ==
    /\ f \in [0 .. n -> V] /\ f[0] = start
    /\ \A i \in 1 .. n : f[i] = h[i][f[i - 1]]

\* Rounds that stay in a set can be counted.
LEMMA IterationExists ==
    ASSUME NEW V, NEW start \in V, NEW n \in Nat, NEW h \in [1 .. n -> [V -> V]]
    PROVE  \E f : Iterates(f, V, start, h, n)
<1> DEFINE S == {k \in Nat : k > n \/ \E f : Iterates(f, V, start, h, k)}
<1>1. 0 \in S
  <2>1. Iterates([i \in 0 .. 0 |-> start], V, start, h, 0)
    BY DEF Iterates
  <2> QED
    BY <2>1
<1>2. ASSUME NEW k \in S PROVE k + 1 \in S
  <2> SUFFICES ASSUME k + 1 <= n PROVE \E f : Iterates(f, V, start, h, k + 1)
    OBVIOUS
  <2>1. PICK f : Iterates(f, V, start, h, k)
    OBVIOUS
  <2>2. k \in Nat /\ k + 1 \in 1 .. n
    OBVIOUS
  <2> DEFINE g == [i \in 0 .. k + 1 |-> IF i = k + 1 THEN h[k + 1][f[k]] ELSE f[i]]
  <2>3. h[k + 1][f[k]] \in V
    <3>1. f[k] \in V
      BY <2>1, <2>2 DEF Iterates
    <3> QED
      BY <2>2, <3>1
  <2>4. g \in [0 .. k + 1 -> V]
    <3> SUFFICES ASSUME NEW i \in 0 .. k + 1 PROVE g[i] \in V
      BY Zenon
    <3>1. i # k + 1 => i \in 0 .. k
      BY <2>2
    <3> QED
      BY <2>1, <2>3, <3>1 DEF Iterates
  <2>5. g[0] = start
    BY <2>1, <2>2 DEF Iterates
  <2>6. ASSUME NEW i \in 1 .. k + 1 PROVE g[i] = h[i][g[i - 1]]
    <3>1. i - 1 \in 0 .. k /\ i - 1 # k + 1 /\ i - 1 \in 0 .. k + 1 /\ i \in 0 .. k + 1
      BY <2>2
    <3>2. g[i - 1] = f[i - 1]
      BY <3>1
    <3>3. CASE i = k + 1
      BY <2>2, <3>2, <3>3
    <3>4. CASE i # k + 1
      <4>1. i \in 1 .. k
        BY <2>2, <3>4
      <4> QED
        BY <2>1, <3>1, <3>2, <3>4, <4>1 DEF Iterates
    <3> QED
      BY <3>3, <3>4
  <2> HIDE DEF g
  <2>7. Iterates(g, V, start, h, k + 1)
    BY <2>4, <2>5, <2>6 DEF Iterates
  <2> QED
    BY <2>7
<1> HIDE DEF S
<1>3. S = Nat
  <2>1. S \subseteq Nat
    BY DEF S
  <2> QED
    BY ONLY <1>1, <1>2, <2>1, SetInduction
<1>4. n \in S /\ ~(n > n)
  BY <1>3
<1> QED
  BY <1>4 DEF S

\* Induction up to a bound.
LEMMA UpTo ==
    ASSUME NEW n \in Nat, NEW S, 0 \in S, \A i \in 1 .. n : i - 1 \in S => i \in S
    PROVE  \A i \in 0 .. n : i \in S
<1> DEFINE T == {k \in Nat : k > n \/ k \in S}
<1>1. 0 \in T
  OBVIOUS
<1>2. ASSUME NEW k \in T PROVE k + 1 \in T
  <2>1. k \in Nat /\ k + 1 - 1 = k
    OBVIOUS
  <2>2. CASE k + 1 > n
    BY <2>1, <2>2
  <2>3. CASE k + 1 <= n
    <3>1. k + 1 \in 1 .. n /\ k \in S
      BY <2>1, <2>3
    <3> QED
      BY <2>1, <3>1
  <2> QED
    BY <2>1, <2>2, <2>3
<1> HIDE DEF T
<1>3. T = Nat
  <2>1. T \subseteq Nat
    BY DEF T
  <2> QED
    BY ONLY <1>1, <1>2, <2>1, SetInduction
<1> SUFFICES ASSUME NEW i \in 0 .. n PROVE i \in S
  OBVIOUS
<1>4. i \in T /\ ~(i > n)
  BY <1>3
<1> QED
  BY <1>4 DEF T

--------------------------------------------------------------------------------
(* Varints.                                                                  *)

\* The worth of the digits, by its definition.
LEMMA ScaleIs ==
    /\ Scale[0] = 1
    /\ \A k \in 1 .. MaxBytes : Scale[k] = Radix * Scale[k - 1]
    /\ \A k \in 0 .. MaxBytes : Scale[k] \in Nat \ {0}
<1> DEFINE Step == [i \in 1 .. MaxBytes |-> [x \in Int |-> Radix * x]]
           Worth(f) == f = [k \in 0 .. MaxBytes |-> IF k = 0 THEN 1 ELSE Radix * f[k - 1]]
<1>0. MaxBytes \in Nat /\ Radix \in Nat \ {0}
  BY VarintAssumption
<1>1. PICK g : Iterates(g, Int, 1, Step, MaxBytes)
  <2>1. Step \in [1 .. MaxBytes -> [Int -> Int]]
    BY <1>0
  <2>2. 1 \in Int
    OBVIOUS
  <2> HIDE DEF Step
  <2> QED
    BY ONLY <1>0, <2>1, <2>2, IterationExists
<1>2. Worth(g)
  <2>1. ASSUME NEW k \in 0 .. MaxBytes
        PROVE  g[k] = IF k = 0 THEN 1 ELSE Radix * g[k - 1]
    <3>1. CASE k = 0
      BY <1>1, <3>1 DEF Iterates
    <3>2. CASE k # 0
      <4>1. k \in 1 .. MaxBytes /\ k - 1 \in 0 .. MaxBytes
        BY <1>0, <3>2
      <4>2. g[k - 1] \in Int /\ g[k] = Step[k][g[k - 1]]
        BY <1>1, <4>1 DEF Iterates
      <4> QED
        BY <3>2, <4>1, <4>2
    <3> QED
      BY <3>1, <3>2
  <2>2. g = [k \in 0 .. MaxBytes |-> g[k]]
    BY <1>1 DEF Iterates
  <2> QED
    BY ONLY <2>1, <2>2
<1>3. Worth(Scale)
  <2>1. Worth(CHOOSE f : Worth(f))
    BY <1>2
  <2>2. Scale = CHOOSE f : Worth(f)
    BY Zenon DEF Scale
  <2> QED
    BY <2>1, <2>2
<1>4. /\ Scale[0] = 1
      /\ \A k \in 1 .. MaxBytes : Scale[k] = Radix * Scale[k - 1]
  <2>1. PICK f : f = Scale
    OBVIOUS
  <2>2. f = [k \in 0 .. MaxBytes |-> IF k = 0 THEN 1 ELSE Radix * f[k - 1]]
    BY ONLY <1>3, <2>1
  <2>3. \A k \in 0 .. MaxBytes : f[k] = IF k = 0 THEN 1 ELSE Radix * f[k - 1]
    BY ONLY <2>2, Zenon
  <2>4. 0 \in 0 .. MaxBytes /\ \A k \in 1 .. MaxBytes : k \in 0 .. MaxBytes /\ k # 0
    BY <1>0
  <2> QED
    BY ONLY <2>1, <2>3, <2>4, Zenon
<1>5. ASSUME NEW k \in 0 .. MaxBytes PROVE Scale[k] \in Nat \ {0}
  <2> DEFINE S == {i \in Nat : Scale[i] \in Nat \ {0}}
  <2>1. 0 \in S
    BY <1>4
  <2>2. ASSUME NEW i \in 1 .. MaxBytes, i - 1 \in S PROVE i \in S
    <3>1. Scale[i - 1] \in Nat \ {0} /\ Scale[i] = Radix * Scale[i - 1] /\ i \in Nat
      BY <1>0, <1>4, <2>2
    <3> QED
      BY <1>0, <3>1
  <2> HIDE DEF S
  <2>3. k \in S
    BY <1>0, <2>1, <2>2, UpTo
  <2> QED
    BY <2>3 DEF S
<1> QED
  BY <1>4, <1>5

\* A digit and the rest.
LEMMA Digits ==
    ASSUME NEW v \in Nat
    PROVE  /\ v % Radix \in 0 .. Radix - 1 /\ v \div Radix \in Nat
           /\ v = Radix * (v \div Radix) + (v % Radix)
           /\ v >= Radix => v \div Radix >= 1 /\ v \div Radix < v
<1>0. Radix \in Nat /\ Radix >= 2
  BY VarintAssumption
<1>1. PICK q, d : q = v \div Radix /\ d = v % Radix
  OBVIOUS
<1>2. q \in Int /\ d \in 0 .. Radix - 1 /\ v = Radix * q + d
  BY <1>0, <1>1
<1>3. q >= 0
  <2> SUFFICES ASSUME q <= -1 PROVE FALSE
    BY <1>2
  <2>1. Radix * q <= Radix * (-1)
    BY <1>0, <1>2
  <2> QED
    BY <1>0, <1>2, <2>1
<1>4. v >= Radix => q >= 1 /\ q < v
  <2> SUFFICES ASSUME v >= Radix PROVE q >= 1 /\ q < v
    OBVIOUS
  <2>1. q # 0
    BY <1>0, <1>2
  <2>2. Radix * q >= 2 * q
    BY <1>0, <1>2, <1>3
  <2> QED
    BY <1>0, <1>2, <1>3, <2>1, <2>2
<1> QED
  BY <1>1, <1>2, <1>3, <1>4

\* The bytes of v, if f has those of the numbers below it.
Code(f, v) == IF v < Radix THEN <<v>> ELSE <<Radix + (v % Radix)>> \o f[v \div Radix]

Encodes(f, n) == f = [v \in 0 .. n - 1 |-> Code(f, v)]

\* A number's bytes are those of its last digit and of the rest (varint_encode).
LEMMA EncodeIs == \A v \in U64 : VarintEncode[v] = Code(VarintEncode, v)
<1>0. Word \in Nat
  BY VarintAssumption
<1> DEFINE S == {n \in Nat : \E f : Encodes(f, n)}
<1>1. 0 \in S
  <2>1. Encodes([v \in 0 .. 0 - 1 |-> 0], 0)
    BY DEF Encodes
  <2> QED
    BY <2>1
<1>2. ASSUME NEW n \in S PROVE n + 1 \in S
  <2>1. PICK f : Encodes(f, n)
    OBVIOUS
  <2>2. n \in Nat
    OBVIOUS
  <2> DEFINE g == [v \in 0 .. n |-> IF v = n THEN Code(f, n) ELSE f[v]]
  <2>3. ASSUME NEW v \in 0 .. n PROVE g[v] = Code(g, v)
    <3>1. Code(g, v) = Code(f, v)
      <4>1. CASE v < Radix
        BY <4>1 DEF Code
      <4>2. CASE ~(v < Radix)
        <5>1. v \div Radix \in 0 .. n /\ v \div Radix # n
          BY <2>2, <4>2, Digits, VarintAssumption, SMTT(60)
        <5>2. g[v \div Radix] = f[v \div Radix]
          BY <5>1
        <5> HIDE DEF g
        <5> QED
          BY <4>2, <5>2 DEF Code
      <4> QED
        BY <4>1, <4>2
    <3>2. g[v] = Code(f, v)
      <4>1. CASE v = n
        BY <2>2, <4>1
      <4>2. CASE v # n
        <5>1. v \in 0 .. n - 1 /\ v \in 0 .. n
          BY <2>2, <4>2
        <5>2. g[v] = f[v]
          BY <4>2, <5>1
        <5>3. f[v] = Code(f, v)
          BY ONLY <2>1, <5>1, Zenon DEF Encodes
        <5> QED
          BY ONLY <5>2, <5>3
      <4> QED
        BY ONLY <4>1, <4>2
    <3> QED
      BY <3>1, <3>2
  <2>4. g = [v \in 0 .. n |-> g[v]]
    OBVIOUS
  <2> HIDE DEF g
  <2>5. g = [v \in 0 .. n |-> Code(g, v)]
    BY ONLY <2>3, <2>4
  <2>6. n + 1 - 1 = n
    BY <2>2
  <2>7. Encodes(g, n + 1)
    BY ONLY <2>5, <2>6 DEF Encodes
  <2> QED
    BY <2>2, <2>7
<1> HIDE DEF S
<1>3. S = Nat
  <2>1. S \subseteq Nat
    BY DEF S
  <2> QED
    BY ONLY <1>1, <1>2, <2>1, SetInduction
<1>4. \E f : Encodes(f, Word)
  BY <1>0, <1>3 DEF S
<1>5. Encodes(CHOOSE f : Encodes(f, Word), Word)
  BY <1>4
<1>6. VarintEncode = CHOOSE f : Encodes(f, Word)
  BY Zenon DEF VarintEncode, Encodes, Code, U64
<1>7. VarintEncode = [v \in 0 .. Word - 1 |-> Code(VarintEncode, v)]
  BY <1>5, <1>6 DEF Encodes
<1>8. PICK f : f = VarintEncode
  OBVIOUS
<1>9. \A v \in 0 .. Word - 1 : f[v] = Code(f, v)
  BY ONLY <1>7, <1>8, Zenon
<1> QED
  BY ONLY <1>8, <1>9 DEF U64

\* The bytes of a number are bytes, one at least.
LEMMA EncodeType ==
    \A v \in U64 : VarintEncode[v] \in Seq(Byte) /\ Len(VarintEncode[v]) \in Nat \ {0}
<1>0. Word \in Nat /\ Radix \in Nat /\ Radix >= 2
  BY VarintAssumption
<1> DEFINE Good(v) == VarintEncode[v] \in Seq(Byte) /\ Len(VarintEncode[v]) \in Nat \ {0}
           S == {n \in Nat : \A v \in 0 .. n - 1 : v \in U64 => Good(v)}
<1>1. 0 \in S
  OBVIOUS
<1>2. ASSUME NEW n \in S PROVE n + 1 \in S
  <2>1. n \in Nat /\ n + 1 \in Nat /\ \A v \in 0 .. n - 1 : v \in U64 => Good(v)
    OBVIOUS
  <2> HIDE DEF Good
  <2>2. ASSUME n \in U64 PROVE Good(n)
    <3>1. CASE n < Radix
      <4>1. VarintEncode[n] = <<n>>
        BY <2>2, <3>1, EncodeIs DEF Code
      <4>2. n \in Byte
        BY <1>0, <2>1, <3>1 DEF Byte
      <4> QED
        BY <4>1, <4>2 DEF Good
    <3>2. CASE ~(n < Radix)
      <4>1. VarintEncode[n] = <<Radix + (n % Radix)>> \o VarintEncode[n \div Radix]
        BY <2>2, <3>2, EncodeIs DEF Code
      <4>2. PICK d, q : d = n % Radix /\ q = n \div Radix
        OBVIOUS
      <4>3. d \in 0 .. Radix - 1 /\ q \in 0 .. n - 1 /\ q \in U64
        BY <1>0, <2>1, <2>2, <3>2, <4>2, Digits, SMTT(60) DEF U64
      <4>4. Radix + d \in Byte
        BY <1>0, <4>3 DEF Byte
      <4>5. Good(q)
        BY <2>1, <4>3
      <4>6. <<Radix + d>> \in Seq(Byte) /\ Len(<<Radix + d>>) = 1
        BY <4>4
      <4>7. PICK t : t = VarintEncode[q] /\ t \in Seq(Byte)
        BY <4>5 DEF Good
      <4>8. /\ <<Radix + d>> \o t \in Seq(Byte)
            /\ Len(<<Radix + d>> \o t) = 1 + Len(t) /\ Len(t) \in Nat
        BY ONLY <4>6, <4>7, ConcatProperties, LenProperties
      <4> QED
        BY <4>1, <4>2, <4>7, <4>8 DEF Good
    <3> QED
      BY <3>1, <3>2
  <2>3. \A v \in 0 .. n + 1 - 1 : v = n \/ v \in 0 .. n - 1
    BY <2>1
  <2> QED
    BY <2>1, <2>2, <2>3
<1> HIDE DEF S
<1>3. S = Nat
  <2>1. S \subseteq Nat
    BY DEF S
  <2> QED
    BY ONLY <1>1, <1>2, <2>1, SetInduction
<1> HIDE DEF Good
<1>4. Word \in S
  BY <1>0, <1>3
<1>5. \A v \in U64 : Good(v)
  BY <1>0, <1>4 DEF S, U64
<1> QED
  BY <1>5 DEF Good

\* The bytes of v lie in bytes behind place p.
CodeAt(bytes, p, v) ==
    /\ p + Len(VarintEncode[v]) <= Len(bytes)
    /\ \A j \in 1 .. Len(VarintEncode[v]) : bytes[p + j] = VarintEncode[v][j]

\* Its first byte is its last digit, and the rest of it lies behind.
LEMMA CodeUnfolds ==
    ASSUME NEW bytes \in Seq(Byte), NEW p \in Nat, NEW v \in U64, CodeAt(bytes, p, v)
    PROVE  /\ v < Radix => Len(VarintEncode[v]) = 1 /\ bytes[p + 1] = v
           /\ ~(v < Radix) =>
                 /\ v \div Radix \in U64
                 /\ Len(VarintEncode[v]) = 1 + Len(VarintEncode[v \div Radix])
                 /\ bytes[p + 1] = Radix + (v % Radix)
                 /\ CodeAt(bytes, p + 1, v \div Radix)
<1>0. Word \in Nat /\ Radix \in Nat /\ Radix >= 2 /\ v \in Nat
  BY VarintAssumption DEF U64
<1>1. CASE v < Radix
  <2>1. VarintEncode[v] = <<v>>
    BY <1>1, EncodeIs DEF Code
  <2>2. Len(VarintEncode[v]) = 1 /\ VarintEncode[v][1] = v
    BY <2>1
  <2>3. bytes[p + 1] = VarintEncode[v][1]
    BY <2>2 DEF CodeAt
  <2> QED
    BY <1>1, <2>2, <2>3
<1>2. CASE ~(v < Radix)
  <2>1. PICK d, q : d = v % Radix /\ q = v \div Radix
    OBVIOUS
  <2>2. q \in U64
    BY <1>0, <1>2, <2>1, Digits DEF U64
  <2>3. VarintEncode[v] = <<Radix + d>> \o VarintEncode[q]
    BY <1>0, <1>2, <2>1, EncodeIs DEF Code
  <2>4. PICK t : t = VarintEncode[q] /\ t \in Seq(Byte) /\ Len(t) \in Nat
    BY <2>2, EncodeType
  <2>5. d \in Int
    BY <1>0, <2>1, Digits
  <2>6. PICK s : s = <<Radix + d>> \o t
    OBVIOUS
  <2>7. Len(s) = 1 + Len(t) /\ s[1] = Radix + d /\ \A j \in 1 .. Len(t) : s[j + 1] = t[j]
    BY <2>4, <2>6, SMTT(60)
  <2>8. p + Len(s) <= Len(bytes) /\ \A j \in 1 .. Len(s) : bytes[p + j] = s[j]
    BY <2>3, <2>4, <2>6 DEF CodeAt
  <2>9. bytes[p + 1] = Radix + d
    BY <2>4, <2>7, <2>8
  <2>10. ASSUME NEW j \in 1 .. Len(t) PROVE bytes[p + 1 + j] = t[j]
    <3>1. j + 1 \in 1 .. Len(s) /\ p + (j + 1) = p + 1 + j
      BY <2>4, <2>7
    <3> QED
      BY <2>7, <2>8, <3>1
  <2>11. p + 1 + Len(t) <= Len(bytes)
    <3>1. Len(bytes) \in Nat
      OBVIOUS
    <3>2. p + (1 + Len(t)) <= Len(bytes)
      BY <2>7, <2>8
    <3>3. p \in Nat /\ Len(t) \in Nat
      BY <2>4
    <3> QED
      BY ONLY <3>1, <3>2, <3>3
  <2>12. CodeAt(bytes, p + 1, q)
    BY <2>4, <2>10, <2>11 DEF CodeAt
  <2> QED
    BY <1>2, <2>1, <2>2, <2>3, <2>4, <2>6, <2>7, <2>9, <2>12
<1> QED
  BY <1>1, <1>2

\* What the first k bytes are worth, for all k up to m.
Sums(bytes, s, m) ==
    /\ s[0] = 0 /\ \A k \in 0 .. m : s[k] \in Nat
    /\ \A k \in 1 .. m :
          k <= MaxBytes => s[k] = s[k - 1] + (bytes[k] % Radix) * Scale[k - 1]

\* A number whose bytes lie behind place p adds its worth there, ends where its
\* bytes do and not before.
AddsUp(bytes, s, p, v) ==
    LET e == p + Len(VarintEncode[v]) IN
    CodeAt(bytes, p, v) /\ Sums(bytes, s, e) /\ p < MaxBytes /\ v * Scale[p] < Word =>
        /\ e <= MaxBytes /\ s[e] = s[p] + v * Scale[p] /\ bytes[e] < Radix
        /\ \A k \in p + 1 .. e - 1 : ~(bytes[k] < Radix)

\* Every number's bytes add up to it, wherever they lie.
LEMMA CodeIsWorth ==
    \A v \in U64 : \A bytes \in Seq(Byte) : \A s : \A p \in Nat : AddsUp(bytes, s, p, v)
<1>0. Word \in Nat /\ Radix \in Nat /\ Radix >= 2 /\ MaxBytes \in Nat \ {0}
  BY VarintAssumption
<1> DEFINE Good(v) == \A bytes \in Seq(Byte) : \A s : \A p \in Nat : AddsUp(bytes, s, p, v)
           S == {n \in Nat : \A v \in 0 .. n - 1 : v \in U64 => Good(v)}
<1>1. 0 \in S
  OBVIOUS
<1>2. ASSUME NEW n \in S PROVE n + 1 \in S
  <2>1. n \in Nat /\ n + 1 \in Nat /\ \A v \in 0 .. n - 1 : v \in U64 => Good(v)
    OBVIOUS
  <2>2. ASSUME n \in U64 PROVE Good(n)
    <3> SUFFICES ASSUME NEW bytes \in Seq(Byte), NEW s, NEW p \in Nat
                 PROVE  AddsUp(bytes, s, p, n)
      OBVIOUS
    <3> HIDE DEF Good, S
    <3>1. PICK e : e = p + Len(VarintEncode[n])
      OBVIOUS
    <3> SUFFICES ASSUME CodeAt(bytes, p, n), Sums(bytes, s, e), p < MaxBytes,
                        n * Scale[p] < Word
                 PROVE  /\ e <= MaxBytes /\ s[e] = s[p] + n * Scale[p] /\ bytes[e] < Radix
                        /\ \A k \in p + 1 .. e - 1 : ~(bytes[k] < Radix)
      BY <3>1 DEF AddsUp
    <3>2. e \in Nat /\ e >= p + 1
      BY <2>2, <3>1, EncodeType
    <3>3. PICK w : w = Scale[p] /\ w \in Nat \ {0} /\ Scale[p + 1] = Radix * w
      <4>1. p \in 0 .. MaxBytes /\ p + 1 \in 1 .. MaxBytes /\ p + 1 - 1 = p
        BY <1>0
      <4> QED
        BY <4>1, ScaleIs
    <3>4. s[p] \in Nat /\ s[p + 1] = s[p] + (bytes[p + 1] % Radix) * w
      <4>1. p \in 0 .. e /\ p + 1 \in 1 .. e /\ p + 1 - 1 = p /\ p + 1 <= MaxBytes
        BY <1>0, <3>2
      <4> QED
        BY <3>3, <4>1 DEF Sums
    <3>5. CASE n < Radix
      <4>1. e = p + 1 /\ bytes[p + 1] = n
        BY <2>2, <3>1, <3>5, CodeUnfolds, ZenonT(60)
      <4>2. n % Radix = n
        BY <1>0, <2>1, <3>5
      <4>3. \A k \in p + 1 .. e - 1 : FALSE
        BY <4>1
      <4> QED
        BY <1>0, <3>3, <3>4, <3>5, <4>1, <4>2, <4>3
    <3>6. CASE ~(n < Radix)
      <4>1. PICK q, d : q = n \div Radix /\ d = n % Radix
        OBVIOUS
      <4>2. /\ q \in U64 /\ e = p + 1 + Len(VarintEncode[q])
            /\ bytes[p + 1] = Radix + d /\ CodeAt(bytes, p + 1, q)
        <5>1. /\ q \in U64 /\ Len(VarintEncode[n]) = 1 + Len(VarintEncode[q])
              /\ bytes[p + 1] = Radix + d /\ CodeAt(bytes, p + 1, q)
          BY <2>2, <3>6, <4>1, CodeUnfolds
        <5>2. Len(VarintEncode[q]) \in Nat
          BY <5>1, EncodeType
        <5>3. e = p + (1 + Len(VarintEncode[q]))
          BY <3>1, <5>1
        <5>4. e = p + 1 + Len(VarintEncode[q])
          <6>1. PICK len : len = Len(VarintEncode[q])
            OBVIOUS
          <6>2. len \in Nat /\ e = p + (1 + len)
            BY <5>2, <5>3, <6>1
          <6>3. e = p + 1 + len
            BY ONLY <6>2, p \in Nat
          <6> QED
            BY <6>1, <6>3
        <5> QED
          BY <5>1, <5>4
      <4>3. /\ d \in 0 .. Radix - 1 /\ n = Radix * q + d /\ q \in 1 .. n - 1
        <5>1. n >= Radix
          BY <1>0, <2>1, <3>6
        <5> QED
          BY <1>0, <2>1, <4>1, <5>1, Digits
      <4>4. bytes[p + 1] % Radix = d /\ ~(bytes[p + 1] < Radix)
        BY <1>0, <4>2, <4>3
      <4>5. n * w = q * (Radix * w) + d * w
        BY <1>0, <3>3, <4>3, SMTT(60)
      <4>6. d * w \in Nat /\ q * (Radix * w) \in Nat /\ q * (Radix * w) >= Radix * w
        <5>1. PICK u : u = Radix * w
          OBVIOUS
        <5>2. u \in Nat
          BY <1>0, <3>3, <5>1
        <5>3. q \in Nat /\ q >= 1 /\ d \in Nat /\ w \in Nat
          BY <2>1, <3>3, <4>3, SMTT(60)
        <5>4. q * u \in Nat /\ q * u >= u
          BY ONLY <5>2, <5>3
        <5>5. d * w \in Nat
          BY ONLY <5>3
        <5> QED
          BY <5>1, <5>4, <5>5
      <4>7. p + 1 < MaxBytes
        <5> SUFFICES ASSUME p + 1 = MaxBytes PROVE FALSE
          BY <1>0
        <5>1. Radix * w >= Word
          BY <3>3, VarintAssumption
        <5> QED
          BY <1>0, <3>3, <4>5, <4>6, <5>1, SMTT(60)
      <4>8. q * Scale[p + 1] < Word
        BY <1>0, <3>3, <4>5, <4>6, SMTT(60)
      <4>9. AddsUp(bytes, s, p + 1, q)
        <5>1. Good(q)
          BY <2>1, <4>2, <4>3
        <5>2. p + 1 \in Nat
          OBVIOUS
        <5> QED
          BY <5>1, <5>2 DEF Good
      <4>10. /\ e <= MaxBytes /\ s[e] = s[p + 1] + q * Scale[p + 1] /\ bytes[e] < Radix
             /\ \A k \in p + 1 + 1 .. e - 1 : ~(bytes[k] < Radix)
        BY <4>2, <4>7, <4>8, <4>9 DEF AddsUp
      <4>11. s[e] = s[p] + n * w
        <5>1. s[e] = s[p] + d * w + q * (Radix * w)
          BY <3>3, <3>4, <4>4, <4>10
        <5> QED
          BY <3>4, <4>5, <4>6, <5>1
      <4>12. ASSUME NEW k \in p + 1 .. e - 1 PROVE ~(bytes[k] < Radix)
        <5>1. k = p + 1 \/ k \in p + 1 + 1 .. e - 1
          BY <3>2
        <5> QED
          BY <4>4, <4>10, <5>1
      <4> QED
        BY <3>3, <4>10, <4>11, <4>12
    <3> QED
      BY <3>5, <3>6
  <2> HIDE DEF Good
  <2>3. \A v \in 0 .. n + 1 - 1 : v = n \/ v \in 0 .. n - 1
    BY <2>1
  <2> QED
    BY <2>1, <2>2, <2>3
<1> HIDE DEF S
<1>3. S = Nat
  <2>1. S \subseteq Nat
    BY DEF S
  <2> QED
    BY ONLY <1>1, <1>2, <2>1, SetInduction
<1> HIDE DEF Good
<1>4. Word \in S
  BY <1>0, <1>3
<1>5. \A v \in U64 : Good(v)
  BY <1>0, <1>4 DEF S, U64
<1> QED
  BY <1>5 DEF Good

\* A higher digit is worth more.
LEMMA ScaleGrows ==
    ASSUME NEW k \in 0 .. MaxBytes, NEW j \in 0 .. k - 1
    PROVE  Scale[j] < Scale[k]
<1>0. MaxBytes \in Nat /\ Radix \in Nat /\ Radix >= 2
  BY VarintAssumption
<1> DEFINE S == {i \in Nat : \A l \in 0 .. i - 1 : Scale[l] < Scale[i]}
<1>1. 0 \in S
  OBVIOUS
<1>2. ASSUME NEW i \in 1 .. MaxBytes, i - 1 \in S PROVE i \in S
  <2>1. PICK w : w = Scale[i - 1] /\ w \in Nat \ {0} /\ Scale[i] = Radix * w
    BY <1>0, ScaleIs
  <2>2. w < Radix * w
    BY <1>0, <2>1
  <2>3. ASSUME NEW l \in 0 .. i - 1 PROVE Scale[l] < Scale[i]
    <3>1. CASE l = i - 1
      BY <2>1, <2>2, <3>1
    <3>2. CASE l # i - 1
      <4>1. l \in 0 .. i - 1 - 1 /\ l \in 0 .. MaxBytes
        BY <1>0, <3>2
      <4>2. Scale[l] < w
        BY <1>2, <2>1, <4>1
      <4>3. PICK x : x = Scale[l] /\ x \in Nat
        BY <4>1, ScaleIs
      <4>4. x < w /\ w \in Nat /\ Radix * w \in Nat
        BY <1>0, <2>1, <4>2, <4>3
      <4>5. x < Radix * w
        BY ONLY <2>2, <4>3, <4>4
      <4> QED
        BY <2>1, <4>3, <4>5
    <3> QED
      BY <3>1, <3>2
  <2> QED
    BY <1>0, <2>3
<1> HIDE DEF S
<1>3. k \in S
  BY <1>0, <1>1, <1>2, UpTo
<1> QED
  BY <1>3 DEF S

\* Products.
LEMMA OneMore == \A x, w \in Int : (x + 1) * w = x * w + w
OBVIOUS

\* A product grows with its factor.
LEMMA MoreOften == \A x, y, w \in Nat : x <= y => x * w <= y * w
<1> SUFFICES ASSUME NEW x \in Nat, NEW y \in Nat, NEW w \in Nat, x <= y
             PROVE  x * w <= y * w
  OBVIOUS
<1>1. PICK z : z = y - x /\ z \in Nat /\ y = x + z
  OBVIOUS
<1>2. (x + z) * w = x * w + z * w /\ z * w \in Nat /\ x * w \in Nat
  BY <1>1
<1> QED
  BY <1>1, <1>2

\* What is less than a multiple of w leaves room for less than w.
LEMMA RoomForLess ==
    ASSUME NEW m \in Nat, NEW w \in Nat \ {0}, m % w = 0,
           NEW x \in Nat, NEW r \in Nat, r < w, x * w < m
    PROVE  r + x * w < m
<1>1. PICK q : q = m \div w
  OBVIOUS
<1>2. q \in Int /\ m = w * q
  BY <1>1
<1>3. x < q
  <2> SUFFICES ASSUME q <= x PROVE FALSE
    BY <1>2
  <2>1. CASE q >= 0
    <3>1. q * w <= x * w
      BY <1>2, <2>1, MoreOften
    <3> QED
      BY <1>2, <3>1
  <2>2. CASE q < 0
    <3>1. w * q <= 0
      BY <1>2, <2>2
    <3>2. x * w >= 0
      OBVIOUS
    <3> QED
      BY <1>2, <3>1, <3>2
  <2> QED
    BY <1>2, <2>1, <2>2
<1>4. q \in Nat /\ x + 1 <= q
  BY <1>2, <1>3
<1>5. (x + 1) * w <= q * w
  BY <1>4, MoreOften
<1>6. (x + 1) * w = x * w + w /\ x * w \in Nat
  BY OneMore
<1> QED
  BY <1>2, <1>5, <1>6

\* The state of varint_decode behind i bytes, which it has accepted.
Round(i, r, n) == [n |-> n, over |-> FALSE, result |-> r, scale |-> Scale[i], read |-> i]

\* One round of its loop: it adds the digit's worth, or refuses what is too large.
LEMMA OneRound ==
    ASSUME NEW i \in 1 .. MaxBytes, NEW r \in Nat, r < Scale[i - 1], NEW byte \in Byte,
           NEW t, t = r + (byte % Radix) * Scale[i - 1]
    PROVE  /\ t \in Nat
           /\ i < MaxBytes => t < Scale[i] /\ t < Word
           /\ t < Word => DecodeByte(Round(i - 1, r, 0), byte)
                              = Round(i, t, IF byte < Radix THEN i ELSE 0)
           /\ t >= Word => DecodeByte(Round(i - 1, r, 0), byte).n = 0
<1>0. /\ Word \in Nat /\ Radix \in Nat /\ Radix >= 2 /\ MaxBytes \in Nat \ {0}
      /\ i \in Nat /\ byte \in Nat
  BY VarintAssumption DEF Byte
<1>1. PICK w : w = Scale[i - 1] /\ w \in Nat \ {0} /\ Scale[i] = Radix * w
  BY <1>0, ScaleIs
<1>2. PICK x : x = byte % Radix /\ x \in 0 .. Radix - 1
  BY <1>0
<1>3. x * w \in Nat /\ t = r + x * w /\ t \in Nat /\ r < w
  <2>1. x * w \in Nat
    BY <1>0, <1>1, <1>2
  <2> QED
    BY <1>1, <1>2, <2>1
<1>4. t < Radix * w
  <2>1. x + 1 \in Nat /\ x + 1 <= Radix /\ w \in Nat
    BY <1>0, <1>1, <1>2
  <2>2. (x + 1) * w <= Radix * w
    BY <1>0, <2>1, MoreOften
  <2>3. (x + 1) * w = x * w + w
    BY <1>1, <1>2, OneMore
  <2>4. Radix * w \in Nat
    BY <1>0, <1>1
  <2> QED
    BY <1>1, <1>3, <2>2, <2>3, <2>4
<1>5. PICK top : top = Scale[MaxBytes - 1] /\ top \in Nat \ {0} /\ Word % top = 0 /\ top < Word
  BY <1>0, ScaleIs, VarintAssumption
<1>6. ASSUME i < MaxBytes PROVE t < Scale[i] /\ t < Word /\ w # top
  <2>1. Scale[i] <= top
    <3>1. i = MaxBytes - 1 \/ i \in 0 .. MaxBytes - 1 - 1
      BY <1>0, <1>6
    <3>2. MaxBytes - 1 \in 0 .. MaxBytes
      BY <1>0
    <3>3. CASE i = MaxBytes - 1
      BY <1>5, <3>3
    <3>4. CASE i \in 0 .. MaxBytes - 1 - 1
      <4>1. Scale[i] < top
        BY <1>5, <3>2, <3>4, ScaleGrows
      <4>2. Scale[i] \in Nat
        BY <1>0, ScaleIs
      <4> QED
        BY <1>5, <4>1, <4>2
    <3> QED
      BY <3>1, <3>3, <3>4
  <2>2. w # top
    <3>1. i - 1 \in 0 .. MaxBytes - 1 - 1 /\ MaxBytes - 1 \in 0 .. MaxBytes
      BY <1>0, <1>6
    <3>2. w < top
      BY <1>1, <1>5, <3>1, ScaleGrows
    <3> QED
      BY <1>1, <1>5, <3>2
  <2> QED
    BY <1>0, <1>1, <1>3, <1>4, <1>5, <2>1, <2>2
<1>7. ASSUME i = MaxBytes PROVE w = top /\ (x * w < Word <=> t < Word)
  <2>1. w = top
    BY <1>1, <1>5, <1>7
  <2>2. ASSUME x * w < Word PROVE t < Word
    <3>1. x \in Nat /\ Word % w = 0
      BY <1>2, <1>5, <2>1
    <3> QED
      BY <1>0, <1>1, <1>3, <2>2, <3>1, RoomForLess, ZenonT(60)
  <2> QED
    BY <1>0, <1>3, <2>1, <2>2
<1>8. ASSUME t < Word
      PROVE  DecodeByte(Round(i - 1, r, 0), byte)
                 = Round(i, t, IF byte < Radix THEN i ELSE 0)
  <2>1. ~(w = top /\ x * w >= Word)
    BY <1>0, <1>3, <1>6, <1>7, <1>8
  <2>2. t % Word = t
    BY <1>0, <1>3, <1>8
  <2>3. PICK d : d = Round(i - 1, r, 0)
    OBVIOUS
  <2>4. /\ d = [n |-> 0, over |-> FALSE, result |-> r, scale |-> w, read |-> i - 1]
        /\ d.n = 0 /\ ~d.over /\ d.result = r /\ d.scale = w /\ d.read + 1 = i
    BY <1>0, <1>1, <2>3 DEF Round
  <2>5. DecodeByte(d, byte)
            = [d EXCEPT !.result = (r + x * w) % Word, !.scale = d.scale * Radix,
                        !.read = d.read + 1, !.n = IF byte < Radix THEN d.read + 1 ELSE 0]
    BY ONLY <1>2, <1>5, <2>1, <2>4, Zenon DEF DecodeByte
  <2>6. w * Radix = Scale[i]
    BY <1>0, <1>1
  <2>7. PICK n : n = IF byte < Radix THEN i ELSE 0
    OBVIOUS
  <2>8. DecodeByte(d, byte) = [n |-> n, over |-> FALSE, result |-> t, scale |-> Scale[i],
                               read |-> i]
    BY ONLY <1>3, <2>2, <2>4, <2>5, <2>6, <2>7
  <2> QED
    BY ONLY <2>3, <2>7, <2>8 DEF Round
<1>9. ASSUME t >= Word PROVE DecodeByte(Round(i - 1, r, 0), byte).n = 0
  <2>1. w = top /\ x * w >= Word
    BY <1>0, <1>3, <1>6, <1>7, <1>9
  <2> QED
    BY <1>1, <1>2, <1>5, <2>1 DEF DecodeByte, Round
<1> QED
  BY <1>1, <1>3, <1>6, <1>8, <1>9

Limit(bytes) == IF Len(bytes) < MaxBytes THEN Len(bytes) ELSE MaxBytes
DecodeStart == [n |-> 0, over |-> FALSE, result |-> 0, scale |-> 1, read |-> 0]
DecodeStates == [n : Nat, over : BOOLEAN, result : Nat, scale : Nat, read : Nat]

\* f says what the rounds of varint_decode make of bytes.
Rounds(bytes, f) ==
    f = [i \in 0 .. Limit(bytes) |-> IF i = 0 THEN DecodeStart
                                     ELSE DecodeByte(f[i - 1], bytes[i])]

Returned(d) == [n |-> d.n, value |-> IF d.n = 0 THEN 0 ELSE d.result]

\* A round leaves a state.
LEMMA DecodeByteType ==
    \A d \in DecodeStates, byte \in Byte : DecodeByte(d, byte) \in DecodeStates
<1> SUFFICES ASSUME NEW d \in DecodeStates, NEW byte \in Byte
             PROVE  DecodeByte(d, byte) \in DecodeStates
  OBVIOUS
<1>0. Word \in Nat /\ Word > 0 /\ Radix \in Nat \ {0} /\ byte \in Nat
  <2>1. Scale[MaxBytes - 1] \in Nat
    BY VarintAssumption, ScaleIs
  <2> QED
    BY <2>1, VarintAssumption DEF Byte
<1>1. PICK x : x = byte % Radix /\ x \in Nat
  BY <1>0
<1>2. PICK result : result = (d.result + x * d.scale) % Word /\ result \in Nat
  <2>1. d.result \in Nat /\ d.scale \in Nat
    BY DEF DecodeStates
  <2>2. x * d.scale \in Nat
    BY <1>1, <2>1
  <2> QED
    BY <1>0, <2>1, <2>2
<1>3. d.scale * Radix \in Nat /\ d.read + 1 \in Nat
  BY <1>0 DEF DecodeStates
<1>4. CASE d.over \/ d.n # 0
  BY <1>4 DEF DecodeByte
<1>5. CASE ~(d.over \/ d.n # 0) /\ d.scale = Scale[MaxBytes - 1] /\ x * d.scale >= Word
  <2>1. DecodeByte(d, byte) = [d EXCEPT !.over = TRUE]
    BY <1>1, <1>5 DEF DecodeByte
  <2> QED
    BY <2>1 DEF DecodeStates
<1>6. CASE ~(d.over \/ d.n # 0) /\ ~(d.scale = Scale[MaxBytes - 1] /\ x * d.scale >= Word)
  <2>1. DecodeByte(d, byte)
            = [d EXCEPT !.result = result, !.scale = d.scale * Radix, !.read = d.read + 1,
                        !.n = IF byte < Radix THEN d.read + 1 ELSE 0]
    BY ONLY <1>1, <1>2, <1>6, Zenon DEF DecodeByte
  <2>2. PICK n : n = (IF byte < Radix THEN d.read + 1 ELSE 0) /\ n \in Nat
    BY <1>3
  <2> QED
    BY <1>2, <1>3, <2>1, <2>2 DEF DecodeStates
<1> QED
  BY <1>4, <1>5, <1>6

\* So varint_decode returns what its last round leaves.
LEMMA DecodeIsRounds ==
    ASSUME NEW bytes \in Seq(Byte)
    PROVE  \E f : /\ f[0] = DecodeStart
                  /\ \A i \in 1 .. Limit(bytes) : f[i] = DecodeByte(f[i - 1], bytes[i])
                  /\ VarintDecode(bytes) = Returned(f[Limit(bytes)])
<1>0. PICK n : n = Limit(bytes) /\ n \in Nat /\ n <= Len(bytes)
  BY VarintAssumption DEF Limit
<1> DEFINE h == [i \in 1 .. n |-> [d \in DecodeStates |-> DecodeByte(d, bytes[i])]]
<1>1. PICK g : Iterates(g, DecodeStates, DecodeStart, h, n)
  <2>1. h \in [1 .. n -> [DecodeStates -> DecodeStates]]
    <3>1. \A i \in 1 .. n : bytes[i] \in Byte
      BY <1>0
    <3> QED
      BY <3>1, DecodeByteType
  <2>2. DecodeStart \in DecodeStates
    BY DEF DecodeStart, DecodeStates
  <2> HIDE DEF h
  <2> QED
    BY ONLY <1>0, <2>1, <2>2, IterationExists
<1>2. Rounds(bytes, g)
  <2>1. ASSUME NEW i \in 0 .. n
        PROVE  g[i] = IF i = 0 THEN DecodeStart ELSE DecodeByte(g[i - 1], bytes[i])
    <3>1. CASE i = 0
      BY <1>1, <3>1 DEF Iterates
    <3>2. CASE i # 0
      <4>1. i \in 1 .. n /\ i - 1 \in 0 .. n
        BY <1>0, <3>2
      <4>2. g[i - 1] \in DecodeStates /\ g[i] = h[i][g[i - 1]]
        BY <1>1, <4>1 DEF Iterates
      <4> QED
        BY <3>2, <4>1, <4>2
    <3> QED
      BY <3>1, <3>2
  <2>2. g = [i \in 0 .. n |-> g[i]]
    BY <1>1 DEF Iterates
  <2>3. g = [i \in 0 .. n |-> IF i = 0 THEN DecodeStart
                              ELSE DecodeByte(g[i - 1], bytes[i])]
    BY ONLY <2>1, <2>2
  <2> QED
    BY ONLY <1>0, <2>3 DEF Rounds
<1> DEFINE F == CHOOSE f : Rounds(bytes, f)
<1>3. Rounds(bytes, F)
  BY <1>2
<1>4. VarintDecode(bytes) = Returned(F[Limit(bytes)])
  BY Zenon DEF VarintDecode, Rounds, Returned, Limit, DecodeStart
<1>5. PICK f : f = F
  OBVIOUS
<1>6. \A i \in 0 .. n : f[i] = IF i = 0 THEN DecodeStart ELSE DecodeByte(f[i - 1], bytes[i])
  <2>1. f = [i \in 0 .. n |-> IF i = 0 THEN DecodeStart
                              ELSE DecodeByte(f[i - 1], bytes[i])]
    BY ONLY <1>0, <1>3, <1>5 DEF Rounds
  <2> QED
    BY ONLY <2>1, Zenon
<1>7. 0 \in 0 .. n /\ \A i \in 1 .. n : i \in 0 .. n /\ i # 0
  BY <1>0
<1> QED
  BY ONLY <1>0, <1>4, <1>5, <1>6, <1>7, Zenon

\* Place e is the first that ends a number.
FirstEnd(bytes, e) == bytes[e] < Radix /\ \A k \in 1 .. e - 1 : ~(bytes[k] < Radix)

\* Until then it has added up the digits.
LEMMA DecodeAddsUp ==
    ASSUME NEW bytes \in Seq(Byte), NEW f, NEW s, Sums(bytes, s, Limit(bytes)),
           f[0] = DecodeStart,
           \A i \in 1 .. Limit(bytes) : f[i] = DecodeByte(f[i - 1], bytes[i]),
           NEW m \in 0 .. Limit(bytes), m < MaxBytes,
           \A k \in 1 .. m : ~(bytes[k] < Radix)
    PROVE  f[m] = Round(m, s[m], 0) /\ s[m] \in Nat /\ s[m] < Scale[m]
<1>0. /\ Limit(bytes) \in Nat /\ Limit(bytes) <= Len(bytes) /\ MaxBytes \in Nat
      /\ m \in Nat /\ m <= Limit(bytes)
  BY VarintAssumption DEF Limit
<1> DEFINE S == {i \in Nat : f[i] = Round(i, s[i], 0) /\ s[i] \in Nat /\ s[i] < Scale[i]}
<1>1. 0 \in S
  <2>1. Scale[0] = 1
    BY ScaleIs
  <2>2. s[0] = 0
    BY DEF Sums
  <2>3. f[0] = Round(0, 0, 0)
    BY <2>1 DEF Round, DecodeStart
  <2>4. 0 \in Nat /\ 0 < 1
    OBVIOUS
  <2> QED
    BY ONLY <2>1, <2>2, <2>3, <2>4
<1>2. ASSUME NEW i \in 1 .. m, i - 1 \in S PROVE i \in S
  <2>1. /\ i \in 1 .. MaxBytes /\ i < MaxBytes /\ i \in 1 .. Limit(bytes)
        /\ i \in 1 .. Len(bytes) /\ i \in Nat
    BY <1>0
  <2>2. f[i - 1] = Round(i - 1, s[i - 1], 0) /\ s[i - 1] \in Nat /\ s[i - 1] < Scale[i - 1]
    BY <1>2
  <2>3. bytes[i] \in Byte /\ ~(bytes[i] < Radix)
    BY <2>1
  <2>4. s[i] = s[i - 1] + (bytes[i] % Radix) * Scale[i - 1]
    BY <2>1 DEF Sums
  <2> HIDE DEF S
  <2>5. /\ s[i] \in Nat /\ s[i] < Scale[i] /\ s[i] < Word
        /\ s[i] < Word => DecodeByte(Round(i - 1, s[i - 1], 0), bytes[i])
                              = Round(i, s[i], IF bytes[i] < Radix THEN i ELSE 0)
    BY <2>1, <2>2, <2>3, <2>4, OneRound
  <2>6. f[i] = DecodeByte(f[i - 1], bytes[i])
    BY <2>1
  <2>7. f[i] = Round(i, s[i], 0)
    BY ONLY <2>2, <2>3, <2>5, <2>6, Zenon
  <2> QED
    BY <2>1, <2>5, <2>7 DEF S
<1> HIDE DEF S
<1>3. m \in S
  <2>1. m \in 0 .. m
    BY <1>0
  <2> QED
    BY ONLY <1>0, <1>1, <1>2, <2>1, UpTo
<1> QED
  BY <1>3 DEF S

\* What varint_decode makes of bytes: the number they spell, if it is no longer
\* than a word has digits and fits in the word.
LEMMA DecodeIs ==
    ASSUME NEW bytes \in Seq(Byte), NEW s, Sums(bytes, s, Limit(bytes))
    PROVE  /\ \A e \in 1 .. Limit(bytes) :
                 FirstEnd(bytes, e) =>
                     VarintDecode(bytes) = IF s[e] < Word THEN [n |-> e, value |-> s[e]]
                                           ELSE [n |-> 0, value |-> 0]
           /\ (\A e \in 1 .. Limit(bytes) : ~FirstEnd(bytes, e)) =>
                 VarintDecode(bytes) = [n |-> 0, value |-> 0]
<1>0. PICK L : /\ L = Limit(bytes) /\ L \in Nat /\ L <= Len(bytes) /\ L <= MaxBytes
               /\ MaxBytes \in Nat
  BY VarintAssumption DEF Limit
<1>1. PICK f : /\ f[0] = DecodeStart
               /\ \A i \in 1 .. L : f[i] = DecodeByte(f[i - 1], bytes[i])
               /\ VarintDecode(bytes) = Returned(f[L])
  BY <1>0, DecodeIsRounds
<1>2. ASSUME NEW e \in 1 .. L, \A k \in 1 .. e - 1 : ~(bytes[k] < Radix)
      PROVE  /\ s[e] \in Nat
             /\ s[e] < Word => f[e] = Round(e, s[e], IF bytes[e] < Radix THEN e ELSE 0)
             /\ s[e] >= Word => f[e].n = 0 /\ e = MaxBytes
  <2>1. e - 1 \in 0 .. L /\ e - 1 < MaxBytes /\ e \in 1 .. MaxBytes /\ bytes[e] \in Byte
    BY <1>0
  <2>2. f[e - 1] = Round(e - 1, s[e - 1], 0) /\ s[e - 1] \in Nat /\ s[e - 1] < Scale[e - 1]
    BY <1>0, <1>1, <1>2, <2>1, DecodeAddsUp
  <2>3. s[e] = s[e - 1] + (bytes[e] % Radix) * Scale[e - 1]
    BY <1>0 DEF Sums
  <2>4. /\ s[e] \in Nat
        /\ e < MaxBytes => s[e] < Word
        /\ s[e] < Word => DecodeByte(Round(e - 1, s[e - 1], 0), bytes[e])
                              = Round(e, s[e], IF bytes[e] < Radix THEN e ELSE 0)
        /\ s[e] >= Word => DecodeByte(Round(e - 1, s[e - 1], 0), bytes[e]).n = 0
    BY <2>1, <2>2, <2>3, OneRound
  <2>5. f[e] = DecodeByte(f[e - 1], bytes[e])
    BY <1>1
  <2>6. s[e] >= Word => e = MaxBytes
    BY <2>1, <2>4, VarintAssumption
  <2> QED
    BY ONLY <2>2, <2>4, <2>5, <2>6, Zenon
<1>3. ASSUME NEW e \in 1 .. L, FirstEnd(bytes, e)
      PROVE  VarintDecode(bytes) = IF s[e] < Word THEN [n |-> e, value |-> s[e]]
                                   ELSE [n |-> 0, value |-> 0]
  <2>1. /\ s[e] \in Nat
        /\ s[e] < Word => f[e] = Round(e, s[e], e)
        /\ s[e] >= Word => f[e].n = 0 /\ e = MaxBytes
    BY <1>2, <1>3 DEF FirstEnd
  <2>2. CASE s[e] < Word
    <3> DEFINE S == {i \in Nat : i < e \/ f[i] = f[e]}
    <3>1. 0 \in S
      OBVIOUS
    <3>2. ASSUME NEW i \in 1 .. L, i - 1 \in S PROVE i \in S
      <4>1. CASE i < e
        BY <4>1
      <4>2. CASE i = e
        BY <4>2
      <4>3. CASE i > e
        <5>1. f[i - 1] = f[e]
          BY <3>2, <4>3
        <5>2. f[i - 1].n # 0
          BY <2>1, <2>2, <5>1 DEF Round
        <5>3. DecodeByte(f[i - 1], bytes[i]) = f[i - 1]
          BY <5>2 DEF DecodeByte
        <5> QED
          BY <1>1, <5>1, <5>3
      <4> QED
        BY <4>1, <4>2, <4>3
    <3> HIDE DEF S
    <3>3. L \in S
      <4>1. L \in 0 .. L
        BY <1>0
      <4> QED
        BY ONLY <1>0, <3>1, <3>2, <4>1, UpTo
    <3>4. f[L] = Round(e, s[e], e)
      BY <1>0, <2>1, <2>2, <3>3 DEF S
    <3>5. e # 0
      OBVIOUS
    <3> QED
      BY <1>1, <2>2, <3>4, <3>5 DEF Returned, Round
  <2>3. CASE ~(s[e] < Word)
    <3>1. s[e] >= Word
      BY <2>1, <2>3, VarintAssumption
    <3>2. e = L
      BY <1>0, <2>1, <3>1
    <3>3. f[L].n = 0
      BY <2>1, <3>1, <3>2
    <3> QED
      BY <1>1, <2>3, <3>3 DEF Returned
  <2> QED
    BY <2>2, <2>3
<1>4. ASSUME \A e \in 1 .. L : ~FirstEnd(bytes, e)
      PROVE  VarintDecode(bytes) = [n |-> 0, value |-> 0]
  <2> DEFINE S == {i \in Nat : \A k \in 1 .. i : ~(bytes[k] < Radix)}
  <2>1. 0 \in S
    OBVIOUS
  <2>2. ASSUME NEW i \in 1 .. L, i - 1 \in S PROVE i \in S
    <3>1. \A k \in 1 .. i - 1 : ~(bytes[k] < Radix)
      BY <2>2
    <3>2. ~(bytes[i] < Radix)
      BY <1>4, <3>1 DEF FirstEnd
    <3> QED
      BY <3>1, <3>2
  <2> HIDE DEF S
  <2>3. L \in S
    <3>1. L \in 0 .. L
      BY <1>0
    <3> QED
      BY ONLY <1>0, <2>1, <2>2, <3>1, UpTo
  <2>4. \A k \in 1 .. L : ~(bytes[k] < Radix)
    BY <2>3 DEF S
  <2>5. f[L].n = 0
    <3>1. CASE L = 0
      BY <1>1, <3>1 DEF DecodeStart
    <3>2. CASE L # 0
      <4>1. L \in 1 .. L /\ \A k \in 1 .. L - 1 : ~(bytes[k] < Radix)
        BY <1>0, <2>4, <3>2
      <4>2. /\ s[L] \in Nat
            /\ s[L] < Word => f[L] = Round(L, s[L], IF bytes[L] < Radix THEN L ELSE 0)
            /\ s[L] >= Word => f[L].n = 0
        BY <1>2, <4>1
      <4>3. ~(bytes[L] < Radix)
        BY <2>4, <4>1
      <4> QED
        BY <4>2, <4>3, VarintAssumption DEF Round
    <3> QED
      BY <3>1, <3>2
  <2> QED
    BY <1>1, <2>5 DEF Returned
<1> QED
  BY <1>0, <1>3, <1>4

--------------------------------------------------------------------------------
(* Varint and ZigZag: what goes in comes out.                                 *)

\* The sums of the digits of bytes.
LEMMA SumsExist ==
    ASSUME NEW bytes \in Seq(Byte)
    PROVE  \E s : Sums(bytes, s, Len(bytes))
<1>0. Radix \in Nat \ {0} /\ MaxBytes \in Nat
  BY VarintAssumption
<1>1. PICK n : n = Len(bytes) /\ n \in Nat
  OBVIOUS
<1> DEFINE worth(k) == IF k <= MaxBytes THEN (bytes[k] % Radix) * Scale[k - 1] ELSE 0
           h == [k \in 1 .. n |-> [x \in Nat |-> x + worth(k)]]
<1>2. ASSUME NEW k \in 1 .. n PROVE worth(k) \in Nat
  <2>1. CASE k <= MaxBytes
    <3>1. k - 1 \in 0 .. MaxBytes
      BY <1>0, <1>1, <2>1
    <3>2. PICK w : w = Scale[k - 1] /\ w \in Nat
      BY <3>1, ScaleIs
    <3>3. bytes[k] \in Nat
      BY <1>1, <1>0 DEF Byte
    <3>4. PICK d : d = bytes[k] % Radix /\ d \in Nat
      BY <1>0, <3>3
    <3>5. d * w \in Nat
      BY <3>2, <3>4
    <3> QED
      BY <2>1, <3>2, <3>4, <3>5
  <2>2. CASE ~(k <= MaxBytes)
    BY <2>2
  <2> QED
    BY <2>1, <2>2
<1> HIDE DEF worth
<1>3. PICK s : Iterates(s, Nat, 0, h, n)
  <2>1. h \in [1 .. n -> [Nat -> Nat]]
    BY <1>2
  <2>2. 0 \in Nat
    OBVIOUS
  <2> HIDE DEF h
  <2> QED
    BY ONLY <1>1, <2>1, <2>2, IterationExists
<1>4. \A k \in 0 .. n : s[k] \in Nat
  BY <1>3 DEF Iterates
<1>5. ASSUME NEW k \in 1 .. n PROVE s[k] = s[k - 1] + worth(k)
  <2>1. k - 1 \in 0 .. n
    BY <1>1
  <2>2. s[k - 1] \in Nat /\ s[k] = h[k][s[k - 1]]
    BY <1>3, <2>1 DEF Iterates
  <2> QED
    BY <2>2
<1>6. s[0] = 0
  BY <1>3 DEF Iterates
<1>7. \A k \in 1 .. n : k <= MaxBytes => s[k] = s[k - 1] + (bytes[k] % Radix) * Scale[k - 1]
  BY <1>5 DEF worth
<1> QED
  BY ONLY <1>1, <1>4, <1>6, <1>7 DEF Sums

\* The varint at the front of a payload is read back, and nothing behind it.
THEOREM RoundTrip ==
    ASSUME NEW v \in U64, NEW rest \in Seq(Byte)
    PROVE  VarintDecode(VarintEncode[v] \o rest) = [n |-> Len(VarintEncode[v]), value |-> v]
<1>0. Word \in Nat /\ MaxBytes \in Nat \ {0} /\ v \in Nat /\ v < Word
  BY VarintAssumption DEF U64
<1>1. PICK c : c = VarintEncode[v] /\ c \in Seq(Byte) /\ Len(c) \in Nat \ {0}
  BY EncodeType
<1>2. PICK bytes : bytes = c \o rest
  OBVIOUS
<1>3. /\ bytes \in Seq(Byte) /\ Len(bytes) \in Nat /\ Len(c) <= Len(bytes)
      /\ \A j \in 1 .. Len(c) : bytes[j] = c[j]
  BY <1>1, <1>2
<1>4. PICK s : Sums(bytes, s, Len(bytes))
  BY <1>3, SumsExist
<1>5. ASSUME NEW m \in 0 .. Len(bytes) PROVE Sums(bytes, s, m)
  <2>1. (\A k \in 0 .. m : k \in 0 .. Len(bytes)) /\ \A k \in 1 .. m : k \in 1 .. Len(bytes)
    BY <1>3
  <2> QED
    BY ONLY <1>4, <2>1 DEF Sums
<1>6. PICK e : e = Len(c) /\ e \in Nat \ {0} /\ e = 0 + Len(VarintEncode[v])
  BY <1>1
<1>7. CodeAt(bytes, 0, v)
  BY <1>1, <1>3 DEF CodeAt
<1>8. /\ e <= MaxBytes /\ s[e] = s[0] + v * Scale[0] /\ bytes[e] < Radix
      /\ \A k \in 0 + 1 .. e - 1 : ~(bytes[k] < Radix)
  <2>1. AddsUp(bytes, s, 0, v)
    BY <1>3, CodeIsWorth
  <2>2. Sums(bytes, s, e)
    BY <1>3, <1>5, <1>6
  <2>3. v * Scale[0] < Word
    BY <1>0, ScaleIs
  <2>4. 0 < MaxBytes
    BY <1>0
  <2> QED
    BY ONLY <1>6, <1>7, <2>1, <2>2, <2>3, <2>4 DEF AddsUp
<1>9. s[e] = v
  <2>1. s[0] = 0
    BY <1>4 DEF Sums
  <2> QED
    BY <1>0, <1>8, <2>1, ScaleIs
<1>10. FirstEnd(bytes, e)
  BY <1>8 DEF FirstEnd
<1>11. e \in 1 .. Limit(bytes) /\ Limit(bytes) \in 0 .. Len(bytes)
  BY <1>0, <1>3, <1>6, <1>8 DEF Limit
<1>12. Sums(bytes, s, Limit(bytes))
  BY <1>5, <1>11
<1>13. VarintDecode(bytes) = [n |-> e, value |-> s[e]]
  <2>1. s[e] < Word
    BY <1>0, <1>9
  <2> QED
    BY <1>3, <1>10, <1>11, <1>12, <2>1, DecodeIs
<1> QED
  BY <1>1, <1>2, <1>6, <1>9, <1>13

\* A delta of addresses fits in a word and comes back with its sign.
THEOREM ZigZagRoundTrip ==
    ASSUME NEW d \in Int, -Space32 < d, d < Space32
    PROVE  ZigZagEncode(d) \in U64 /\ ZigZagDecode(ZigZagEncode(d)) = d
<1>0. Word \in Nat /\ Space32 \in Nat \ {0} /\ 2 * Space32 <= Word
  BY VarintAssumption, BlockCodecAssumption
<1>1. CASE d < 0
  <2>1. PICK x : x = 2 * (-(d + 1))
    OBVIOUS
  <2>2. x \in Nat /\ x + 1 < Word /\ x % Word = x /\ x = -2 * d - 2
    BY <1>0, <1>1, <2>1
  <2>3. ZigZagEncode(d) = x + 1
    BY <1>1, <2>1, <2>2 DEF ZigZagEncode
  <2>4. (x + 1) % 2 = 1 /\ (x + 1) \div 2 = -d - 1
    BY <2>2
  <2> QED
    BY <1>0, <2>2, <2>3, <2>4 DEF U64, ZigZagDecode
<1>2. CASE ~(d < 0)
  <2>1. PICK x : x = 2 * d
    OBVIOUS
  <2>2. x \in Nat /\ x < Word /\ x % Word = x
    BY <1>0, <1>2, <2>1
  <2>3. ZigZagEncode(d) = x
    BY <1>2, <2>1, <2>2 DEF ZigZagEncode
  <2>4. x % 2 = 0 /\ x \div 2 = d
    BY <2>1
  <2> QED
    BY <1>0, <2>2, <2>3, <2>4 DEF U64, ZigZagDecode
<1> QED
  BY <1>1, <1>2

--------------------------------------------------------------------------------
(* Crc32: sets of bits, their weights and the digits of the table.            *)

\* The exclusive or, bit by bit.
LEMMA SymDiffIs == ASSUME NEW A, NEW B, NEW x
                   PROVE  x \in SymDiff(A, B) <=> ~(x \in A <=> x \in B)
BY DEF SymDiff

\* What a bit is worth.
LEMMA WeightIs ==
    /\ Weight[1] = 1 /\ Weight[2] = 2 /\ Weight[3] = 4 /\ Weight[4] = 8
    /\ Weight[5] = 16 /\ Weight[6] = 32 /\ Weight[7] = 64 /\ Weight[8] = 128
BY DEF Weight

\* A byte is the set of its bits.
LEMMA BitsOfByte ==
    ASSUME NEW n \in 0 .. 255, NEW m \in 0 .. 255, BitsOf(n, 8) = BitsOf(m, 8)
    PROVE  n = m
<1>1. ASSUME NEW b \in 0 .. 7
      PROVE  (n \div Weight[b + 1]) % 2 = 1 <=> (m \div Weight[b + 1]) % 2 = 1
  <2>1. b \in 0 .. 8 - 1
    OBVIOUS
  <2>2. b \in BitsOf(n, 8) <=> b \in BitsOf(m, 8)
    OBVIOUS
  <2> QED
    BY <2>1, <2>2 DEF BitsOf
<1> DEFINE Same(w) == (n \div w) % 2 = 1 <=> (m \div w) % 2 = 1
<1>2. \A b \in 0 .. 7 : Same(Weight[b + 1])
  BY <1>1
<1> HIDE DEF Same
<1>3. Same(1) /\ Same(2) /\ Same(4) /\ Same(8) /\ Same(16) /\ Same(32) /\ Same(64) /\ Same(128)
  <2>1. \A b \in 0 .. 7, c \in 1 .. 8 : c = b + 1 => Same(Weight[c])
    BY <1>2
  <2>2. \A c \in 1 .. 8 : Same(Weight[c])
    <3>1. \A c \in 1 .. 8 : c - 1 \in 0 .. 7 /\ c = c - 1 + 1
      OBVIOUS
    <3> QED
      BY ONLY <2>1, <3>1
  <2> QED
    BY <2>2, WeightIs
<1> QED
  BY <1>3, SMTT(60) DEF Same

\* The low nibble is the set of the four low bits.
LEMMA LowNibbleIs ==
    ASSUME NEW X, NEW Y
    PROVE  /\ LowNibble(X) \in 0 .. 15
           /\ LowNibble(X) = LowNibble(Y) <=> \A b \in 0 .. 3 : b \in X <=> b \in Y
<1> DEFINE x(b) == IF b \in X THEN 1 ELSE 0
           y(b) == IF b \in Y THEN 1 ELSE 0
<1>1. LowNibble(X) = x(0) + 2 * x(1) + 4 * x(2) + 8 * x(3)
  BY WeightIs DEF LowNibble
<1>2. LowNibble(Y) = y(0) + 2 * y(1) + 4 * y(2) + 8 * y(3)
  BY WeightIs DEF LowNibble
<1>3. \A b \in 0 .. 3 : x(b) \in 0 .. 1 /\ y(b) \in 0 .. 1 /\ (x(b) = y(b) <=> (b \in X <=> b \in Y))
  OBVIOUS
<1> HIDE DEF x, y
<1>4. /\ LowNibble(X) \in 0 .. 15
      /\ LowNibble(X) = LowNibble(Y) <=> \A b \in 0 .. 3 : x(b) = y(b)
  BY <1>1, <1>2, <1>3
<1> QED
  BY <1>3, <1>4

\* The bits of a word that is written in hexadecimal.
LEMMA HexIs ==
    ASSUME NEW digits, NEW b \in 0 .. 31
    PROVE  b \in Hex(digits) <=> b % 4 \in BitsOf(digits[8 - (b \div 4)], 4)
<1>1. ASSUME NEW k \in 1 .. 8, NEW c \in BitsOf(digits[k], 4), b = 4 * (8 - k) + c
      PROVE  k = 8 - (b \div 4) /\ c = b % 4
  BY <1>1 DEF BitsOf
<1>2. 8 - (b \div 4) \in 1 .. 8 /\ b = 4 * (8 - (8 - (b \div 4))) + (b % 4)
  OBVIOUS
<1> DEFINE Group(k) == {4 * (8 - k) + c : c \in BitsOf(digits[k], 4)}
<1>3. b \in Hex(digits) <=> \E k \in 1 .. 8 : b \in Group(k)
  BY DEF Hex
<1>4. \A k \in 1 .. 8 : b \in Group(k) => k = 8 - (b \div 4) /\ b % 4 \in BitsOf(digits[k], 4)
  BY <1>1
<1>5. b % 4 \in BitsOf(digits[8 - (b \div 4)], 4) => b \in Group(8 - (b \div 4))
  BY <1>2
<1> HIDE DEF Group
<1> QED
  BY <1>2, <1>3, <1>4, <1>5

\* A digit has the bits it has.
LEMMA DigitIs ==
    /\ BitsOf(0, 4) = {} /\ BitsOf(1, 4) = {0} /\ BitsOf(2, 4) = {1}
    /\ BitsOf(3, 4) = {0, 1} /\ BitsOf(4, 4) = {2} /\ BitsOf(5, 4) = {0, 2}
    /\ BitsOf(6, 4) = {1, 2} /\ BitsOf(7, 4) = {0, 1, 2} /\ BitsOf(8, 4) = {3}
    /\ BitsOf(9, 4) = {0, 3} /\ BitsOf(10, 4) = {1, 3} /\ BitsOf(11, 4) = {0, 1, 3}
    /\ BitsOf(12, 4) = {2, 3} /\ BitsOf(13, 4) = {0, 2, 3}
    /\ BitsOf(14, 4) = {1, 2, 3} /\ BitsOf(15, 4) = {0, 1, 2, 3}
<1>1. \A n \in 0 .. 15 :
         BitsOf(n, 4) = {b \in 0 .. 3 : \/ b = 0 /\ n % 2 = 1
                                        \/ b = 1 /\ (n \div 2) % 2 = 1
                                        \/ b = 2 /\ (n \div 4) % 2 = 1
                                        \/ b = 3 /\ (n \div 8) % 2 = 1}
  <2>1. ASSUME NEW n \in 0 .. 15, NEW b \in 0 .. 3
        PROVE  (n \div Weight[b + 1]) % 2 = 1
                   <=> \/ b = 0 /\ n % 2 = 1
                       \/ b = 1 /\ (n \div 2) % 2 = 1
                       \/ b = 2 /\ (n \div 4) % 2 = 1
                       \/ b = 3 /\ (n \div 8) % 2 = 1
    <3>1. n \div 1 = n /\ b \in {0, 1, 2, 3} /\ Weight[0 + 1] = 1 /\ Weight[1 + 1] = 2
          /\ Weight[2 + 1] = 4 /\ Weight[3 + 1] = 8
      BY WeightIs
    <3>2. CASE b = 0
      BY <3>1, <3>2
    <3>3. CASE b = 1
      BY <3>1, <3>3
    <3>4. CASE b = 2
      BY <3>1, <3>4
    <3>5. CASE b = 3
      BY <3>1, <3>5
    <3> QED
      BY <3>1, <3>2, <3>3, <3>4, <3>5
  <2>2. 4 - 1 = 3
    OBVIOUS
  <2> QED
    BY <2>1, <2>2 DEF BitsOf
<1> QED
  BY <1>1

\* A word has 32 bits.
LEMMA HexType ==
    ASSUME NEW digits
    PROVE  Hex(digits) \subseteq 0 .. 31
<1>1. ASSUME NEW k \in 1 .. 8, NEW c \in 0 .. 3
      PROVE  4 * (8 - k) + c \in 0 .. 31
  OBVIOUS
<1>2. \A k \in 1 .. 8 : BitsOf(digits[k], 4) \subseteq 0 .. 3
  BY DEF BitsOf
<1> QED
  BY <1>1, <1>2 DEF Hex

\* The table, bit by bit: what is left of each low nibble after four steps.
LEMMA TableIs ==
    /\ NibbleTable[1] = {}
    /\ NibbleTable[2] = {2, 5, 6, 12, 16, 17, 18, 20, 21, 23, 24, 26, 27, 28}
    /\ NibbleTable[3] = {3, 6, 7, 13, 17, 18, 19, 21, 22, 24, 25, 27, 28, 29}
    /\ NibbleTable[4] = {2, 3, 5, 7, 12, 13, 16, 19, 20, 22, 23, 25, 26, 29}
    /\ NibbleTable[5] = {4, 7, 8, 14, 18, 19, 20, 22, 23, 25, 26, 28, 29, 30}
    /\ NibbleTable[6] = {2, 4, 5, 6, 7, 8, 12, 14, 16, 17, 19, 21, 22, 24, 25, 27, 29,
                         30}
    /\ NibbleTable[7] = {3, 4, 6, 8, 13, 14, 17, 20, 21, 23, 24, 26, 27, 30}
    /\ NibbleTable[8] = {2, 3, 4, 5, 8, 12, 13, 14, 16, 18, 28, 30}
    /\ NibbleTable[9] = {5, 8, 9, 15, 19, 20, 21, 23, 24, 26, 27, 29, 30, 31}
    /\ NibbleTable[10] = {2, 6, 8, 9, 12, 15, 16, 17, 18, 19, 28, 29, 30, 31}
    /\ NibbleTable[11] = {3, 5, 6, 7, 8, 9, 13, 15, 17, 18, 20, 22, 23, 25, 26, 28, 30,
                          31}
    /\ NibbleTable[12] = {2, 3, 7, 8, 9, 12, 13, 15, 16, 21, 22, 24, 25, 27, 30, 31}
    /\ NibbleTable[13] = {4, 5, 7, 9, 14, 15, 18, 21, 22, 24, 25, 27, 28, 31}
    /\ NibbleTable[14] = {2, 4, 6, 7, 9, 12, 14, 15, 16, 17, 20, 22, 23, 25, 26, 31}
    /\ NibbleTable[15] = {3, 4, 5, 6, 9, 13, 14, 15, 17, 19, 29, 31}
    /\ NibbleTable[16] = {2, 3, 4, 9, 12, 13, 14, 15, 16, 18, 19, 20, 21, 23, 24, 26,
                          27, 28, 29, 31}
<1>1. NibbleTable[1] = Hex(<<0, 0, 0, 0, 0, 0, 0, 0>>)
  BY DEF NibbleTable
<1>2. NibbleTable[2] = Hex(<<1, 13, 11, 7, 1, 0, 6, 4>>)
  BY DEF NibbleTable
<1>3. NibbleTable[3] = Hex(<<3, 11, 6, 14, 2, 0, 12, 8>>)
  BY DEF NibbleTable
<1>4. NibbleTable[4] = Hex(<<2, 6, 13, 9, 3, 0, 10, 12>>)
  BY DEF NibbleTable
<1>5. NibbleTable[5] = Hex(<<7, 6, 13, 12, 4, 1, 9, 0>>)
  BY DEF NibbleTable
<1>6. NibbleTable[6] = Hex(<<6, 11, 6, 11, 5, 1, 15, 4>>)
  BY DEF NibbleTable
<1>7. NibbleTable[7] = Hex(<<4, 13, 11, 2, 6, 1, 5, 8>>)
  BY DEF NibbleTable
<1>8. NibbleTable[8] = Hex(<<5, 0, 0, 5, 7, 1, 3, 12>>)
  BY DEF NibbleTable
<1>9. NibbleTable[9] = Hex(<<14, 13, 11, 8, 8, 3, 2, 0>>)
  BY DEF NibbleTable
<1>10. NibbleTable[10] = Hex(<<15, 0, 0, 15, 9, 3, 4, 4>>)
  BY DEF NibbleTable
<1>11. NibbleTable[11] = Hex(<<13, 6, 13, 6, 10, 3, 14, 8>>)
  BY DEF NibbleTable
<1>12. NibbleTable[12] = Hex(<<12, 11, 6, 1, 11, 3, 8, 12>>)
  BY DEF NibbleTable
<1>13. NibbleTable[13] = Hex(<<9, 11, 6, 4, 12, 2, 11, 0>>)
  BY DEF NibbleTable
<1>14. NibbleTable[14] = Hex(<<8, 6, 13, 3, 13, 2, 13, 4>>)
  BY DEF NibbleTable
<1>15. NibbleTable[15] = Hex(<<10, 0, 0, 10, 14, 2, 7, 8>>)
  BY DEF NibbleTable
<1>16. NibbleTable[16] = Hex(<<11, 13, 11, 13, 15, 2, 1, 12>>)
  BY DEF NibbleTable
<1>17. Hex(<<0, 0, 0, 0, 0, 0, 0, 0>>) = {}
  BY DigitIs, HexIs, HexType
<1>18. Hex(<<1, 13, 11, 7, 1, 0, 6, 4>>) = {2, 5, 6, 12, 16, 17, 18, 20, 21, 23, 24, 26,
                                            27, 28}
  BY DigitIs, HexIs, HexType
<1>19. Hex(<<3, 11, 6, 14, 2, 0, 12, 8>>) = {3, 6, 7, 13, 17, 18, 19, 21, 22, 24, 25,
                                             27, 28, 29}
  BY DigitIs, HexIs, HexType
<1>20. Hex(<<2, 6, 13, 9, 3, 0, 10, 12>>) = {2, 3, 5, 7, 12, 13, 16, 19, 20, 22, 23, 25,
                                             26, 29}
  BY DigitIs, HexIs, HexType
<1>21. Hex(<<7, 6, 13, 12, 4, 1, 9, 0>>) = {4, 7, 8, 14, 18, 19, 20, 22, 23, 25, 26, 28,
                                            29, 30}
  BY DigitIs, HexIs, HexType
<1>22. Hex(<<6, 11, 6, 11, 5, 1, 15, 4>>) = {2, 4, 5, 6, 7, 8, 12, 14, 16, 17, 19, 21,
                                             22, 24, 25, 27, 29, 30}
  BY DigitIs, HexIs, HexType
<1>23. Hex(<<4, 13, 11, 2, 6, 1, 5, 8>>) = {3, 4, 6, 8, 13, 14, 17, 20, 21, 23, 24, 26,
                                            27, 30}
  BY DigitIs, HexIs, HexType
<1>24. Hex(<<5, 0, 0, 5, 7, 1, 3, 12>>) = {2, 3, 4, 5, 8, 12, 13, 14, 16, 18, 28, 30}
  BY DigitIs, HexIs, HexType
<1>25. Hex(<<14, 13, 11, 8, 8, 3, 2, 0>>) = {5, 8, 9, 15, 19, 20, 21, 23, 24, 26, 27,
                                             29, 30, 31}
  BY DigitIs, HexIs, HexType
<1>26. Hex(<<15, 0, 0, 15, 9, 3, 4, 4>>) = {2, 6, 8, 9, 12, 15, 16, 17, 18, 19, 28, 29,
                                            30, 31}
  BY DigitIs, HexIs, HexType
<1>27. Hex(<<13, 6, 13, 6, 10, 3, 14, 8>>) = {3, 5, 6, 7, 8, 9, 13, 15, 17, 18, 20, 22,
                                              23, 25, 26, 28, 30, 31}
  BY DigitIs, HexIs, HexType
<1>28. Hex(<<12, 11, 6, 1, 11, 3, 8, 12>>) = {2, 3, 7, 8, 9, 12, 13, 15, 16, 21, 22, 24,
                                              25, 27, 30, 31}
  BY DigitIs, HexIs, HexType
<1>29. Hex(<<9, 11, 6, 4, 12, 2, 11, 0>>) = {4, 5, 7, 9, 14, 15, 18, 21, 22, 24, 25, 27,
                                             28, 31}
  BY DigitIs, HexIs, HexType
<1>30. Hex(<<8, 6, 13, 3, 13, 2, 13, 4>>) = {2, 4, 6, 7, 9, 12, 14, 15, 16, 17, 20, 22,
                                             23, 25, 26, 31}
  BY DigitIs, HexIs, HexType
<1>31. Hex(<<10, 0, 0, 10, 14, 2, 7, 8>>) = {3, 4, 5, 6, 9, 13, 14, 15, 17, 19, 29, 31}
  BY DigitIs, HexIs, HexType
<1>32. Hex(<<11, 13, 11, 13, 15, 2, 1, 12>>) = {2, 3, 4, 9, 12, 13, 14, 15, 16, 18, 19,
                                                20, 21, 23, 24, 26, 27, 28, 29, 31}
  BY DigitIs, HexIs, HexType
<1> QED
  BY ONLY <1>1, <1>2, <1>3, <1>4, <1>5, <1>6, <1>7, <1>8, <1>9, <1>10, <1>11, <1>12, <1>13,
     <1>14, <1>15, <1>16, <1>17, <1>18, <1>19, <1>20, <1>21, <1>22, <1>23, <1>24, <1>25,
     <1>26, <1>27, <1>28, <1>29, <1>30, <1>31, <1>32, ZenonT(60)

\* Its words tell the nibbles apart by their highest four bits.
LEMMA TopsDiffer ==
    ASSUME NEW n \in 1 .. 16, NEW m \in 1 .. 16,
           \A b \in 28 .. 31 : b \in NibbleTable[n] <=> b \in NibbleTable[m]
    PROVE  n = m
<1> DEFINE Top(k) == (IF 28 \in NibbleTable[k] THEN 1 ELSE 0)
                     + (IF 29 \in NibbleTable[k] THEN 2 ELSE 0)
                     + (IF 30 \in NibbleTable[k] THEN 4 ELSE 0)
                     + (IF 31 \in NibbleTable[k] THEN 8 ELSE 0)
<1>1. Top(n) = Top(m)
  OBVIOUS
<1>2. Top(1) = 0
  BY TableIs
<1>3. Top(2) = 1
  BY TableIs
<1>4. Top(3) = 3
  BY TableIs
<1>5. Top(4) = 2
  BY TableIs
<1>6. Top(5) = 7
  BY TableIs
<1>7. Top(6) = 6
  BY TableIs
<1>8. Top(7) = 4
  BY TableIs
<1>9. Top(8) = 5
  BY TableIs
<1>10. Top(9) = 14
  BY TableIs
<1>11. Top(10) = 15
  BY TableIs
<1>12. Top(11) = 13
  BY TableIs
<1>13. Top(12) = 12
  BY TableIs
<1>14. Top(13) = 9
  BY TableIs
<1>15. Top(14) = 8
  BY TableIs
<1>16. Top(15) = 10
  BY TableIs
<1>17. Top(16) = 11
  BY TableIs
<1> HIDE DEF Top
<1> QED
  BY ONLY n \in 1 .. 16, m \in 1 .. 16, <1>1, <1>2, <1>3, <1>4, <1>5, <1>6, <1>7, <1>8, <1>9,
     <1>10, <1>11, <1>12, <1>13, <1>14, <1>15, <1>16, <1>17

\* One step, bit by bit.
LEMMA NibbleStepIs ==
    ASSUME NEW X, X \subseteq 0 .. 31
    PROVE  /\ NibbleStep(X) \subseteq 0 .. 31
           /\ \A b \in 0 .. 31 :
                 b \in NibbleStep(X)
                     <=> ~(b + 4 \in X <=> b \in NibbleTable[LowNibble(X) + 1])
<1>1. LowNibble(X) + 1 \in 1 .. 16
  BY LowNibbleIs
<1>2. NibbleTable[LowNibble(X) + 1] \subseteq 0 .. 31
  <2>1. \A k \in 1 .. 16 : NibbleTable[k] \subseteq 0 .. 31
    BY TableIs
  <2> QED
    BY <1>1, <2>1
<1>3. Shifted(X, 4) \subseteq 0 .. 31 /\ \A b \in 0 .. 31 : b \in Shifted(X, 4) <=> b + 4 \in X
  BY DEF Shifted
<1> QED
  BY <1>2, <1>3, SymDiffIs DEF NibbleStep

--------------------------------------------------------------------------------
(* Crc32: a block that was hit does not pass.                                 *)

\* A step loses nothing: what the low nibbles tell apart shows at the top, and
\* what is above them moves down.
LEMMA NibbleStepKeeps ==
    ASSUME NEW X, NEW Y, X \subseteq 0 .. 31, Y \subseteq 0 .. 31
    PROVE  /\ LowNibble(X) # LowNibble(Y) =>
                  \E b \in 28 .. 31 : ~(b \in NibbleStep(X) <=> b \in NibbleStep(Y))
           /\ LowNibble(X) = LowNibble(Y) =>
                  \A b \in 0 .. 27 : (b \in NibbleStep(X) <=> b \in NibbleStep(Y))
                                         <=> (b + 4 \in X <=> b + 4 \in Y)
           /\ NibbleStep(X) = NibbleStep(Y) => X = Y
<1>1. ASSUME LowNibble(X) # LowNibble(Y)
      PROVE  \E b \in 28 .. 31 : ~(b \in NibbleStep(X) <=> b \in NibbleStep(Y))
  <2>1. PICK n, m : n = LowNibble(X) + 1 /\ m = LowNibble(Y) + 1
    OBVIOUS
  <2>2. n \in 1 .. 16 /\ m \in 1 .. 16 /\ n # m
    BY <1>1, <2>1, LowNibbleIs
  <2>3. PICK b \in 28 .. 31 : ~(b \in NibbleTable[n] <=> b \in NibbleTable[m])
    BY <2>2, TopsDiffer
  <2>4. b + 4 \notin X /\ b + 4 \notin Y /\ b \in 0 .. 31
    OBVIOUS
  <2>5. b \in NibbleStep(X) <=> b \in NibbleTable[n]
    BY <2>1, <2>4, NibbleStepIs
  <2>6. b \in NibbleStep(Y) <=> b \in NibbleTable[m]
    BY <2>1, <2>4, NibbleStepIs
  <2> QED
    BY <2>3, <2>5, <2>6
<1>2. ASSUME LowNibble(X) = LowNibble(Y), NEW b \in 0 .. 27
      PROVE  (b \in NibbleStep(X) <=> b \in NibbleStep(Y)) <=> (b + 4 \in X <=> b + 4 \in Y)
  <2>1. b \in 0 .. 31
    OBVIOUS
  <2>2. b \in NibbleStep(X) <=> ~(b + 4 \in X <=> b \in NibbleTable[LowNibble(X) + 1])
    BY <2>1, NibbleStepIs
  <2>3. b \in NibbleStep(Y) <=> ~(b + 4 \in Y <=> b \in NibbleTable[LowNibble(X) + 1])
    BY <1>2, <2>1, NibbleStepIs
  <2> QED
    BY <2>2, <2>3
<1>3. ASSUME NibbleStep(X) = NibbleStep(Y) PROVE X = Y
  <2>1. LowNibble(X) = LowNibble(Y)
    BY <1>1, <1>3
  <2>2. \A b \in 0 .. 3 : b \in X <=> b \in Y
    BY <2>1, LowNibbleIs
  <2>3. \A b \in 4 .. 31 : b \in X <=> b \in Y
    <3>1. \A b \in 4 .. 31 : b - 4 \in 0 .. 27 /\ b - 4 + 4 = b
      OBVIOUS
    <3> QED
      BY <1>2, <1>3, <2>1, <3>1
  <2>4. \A b \in 0 .. 31 : b \in 0 .. 3 \/ b \in 4 .. 31
    OBVIOUS
  <2> QED
    BY <2>2, <2>3, <2>4
<1> QED
  BY <1>1, <1>2, <1>3

\* A byte enters at the bottom of the register.
LEMMA EntersLow ==
    ASSUME NEW X, X \subseteq 0 .. 31, NEW c
    PROVE  /\ SymDiff(X, BitsOf(c, 8)) \subseteq 0 .. 31
           /\ \A b \in 8 .. 31 : b \in SymDiff(X, BitsOf(c, 8)) <=> b \in X
           /\ Crc32Byte(X, c) \subseteq 0 .. 31
<1>1. BitsOf(c, 8) \subseteq 0 .. 7
  BY DEF BitsOf
<1>2. SymDiff(X, BitsOf(c, 8)) \subseteq 0 .. 31
  <2>1. BitsOf(c, 8) \subseteq 0 .. 31
    BY <1>1
  <2> QED
    BY <2>1 DEF SymDiff
<1>3. \A b \in 8 .. 31 : b \in SymDiff(X, BitsOf(c, 8)) <=> b \in X
  BY <1>1, SymDiffIs
<1>4. NibbleStep(SymDiff(X, BitsOf(c, 8))) \subseteq 0 .. 31
  BY <1>2, NibbleStepIs
<1> QED
  BY <1>2, <1>3, <1>4, NibbleStepIs DEF Crc32Byte

\* Two bytes leave registers that differ above the place where the next enters.
LEMMA BytesDiffer ==
    ASSUME NEW X, X \subseteq 0 .. 31, NEW c \in 0 .. 255, NEW d \in 0 .. 255, c # d
    PROVE  \E b \in 8 .. 31 : ~(b \in Crc32Byte(X, c) <=> b \in Crc32Byte(X, d))
<1>1. PICK C, D : C = SymDiff(X, BitsOf(c, 8)) /\ D = SymDiff(X, BitsOf(d, 8))
  OBVIOUS
<1>2. C \subseteq 0 .. 31 /\ D \subseteq 0 .. 31 /\ \A b \in 8 .. 31 : b \in C <=> b \in D
  BY <1>1, EntersLow, ZenonT(60)
<1>3. \E b \in 0 .. 7 : ~(b \in C <=> b \in D)
  <2>1. BitsOf(c, 8) # BitsOf(d, 8)
    BY BitsOfByte, ZenonT(60)
  <2>2. BitsOf(c, 8) \subseteq 0 .. 7 /\ BitsOf(d, 8) \subseteq 0 .. 7
    BY DEF BitsOf
  <2>3. PICK b \in 0 .. 7 : ~(b \in BitsOf(c, 8) <=> b \in BitsOf(d, 8))
    BY <2>1, <2>2
  <2> QED
    BY <1>1, <2>3, SymDiffIs
<1>4. PICK E, F : E = NibbleStep(C) /\ F = NibbleStep(D)
  OBVIOUS
<1>5. E \subseteq 0 .. 31 /\ F \subseteq 0 .. 31
  BY <1>2, <1>4, NibbleStepIs
<1>6. Crc32Byte(X, c) = NibbleStep(E) /\ Crc32Byte(X, d) = NibbleStep(F)
  BY <1>1, <1>4 DEF Crc32Byte
<1>7. CASE LowNibble(E) # LowNibble(F)
  <2>1. \E b \in 28 .. 31 : ~(b \in NibbleStep(E) <=> b \in NibbleStep(F))
    BY <1>5, <1>7, NibbleStepKeeps
  <2>2. \A b \in 28 .. 31 : b \in 8 .. 31
    OBVIOUS
  <2> QED
    BY ONLY <1>6, <2>1, <2>2
<1>8. CASE LowNibble(E) = LowNibble(F)
  <2>1. LowNibble(C) # LowNibble(D)
    <3> SUFFICES ASSUME LowNibble(C) = LowNibble(D) PROVE FALSE
      OBVIOUS
    <3>1. \A b \in 0 .. 3 : b \in C <=> b \in D
      BY LowNibbleIs
    <3>2. \A b \in 0 .. 27 : (b \in E <=> b \in F) <=> (b + 4 \in C <=> b + 4 \in D)
      BY <1>2, <1>4, NibbleStepKeeps, ZenonT(60)
    <3>3. \A b \in 0 .. 3 : b \in E <=> b \in F
      BY <1>8, LowNibbleIs
    <3>4. \A b \in 0 .. 3 : b + 4 \in C <=> b + 4 \in D
      BY <3>2, <3>3
    <3>5. \A b \in 4 .. 7 : b - 4 \in 0 .. 3 /\ b - 4 + 4 = b
      OBVIOUS
    <3>6. \A b \in 4 .. 7 : b \in C <=> b \in D
      BY <3>4, <3>5
    <3>7. \A b \in 0 .. 7 : b \in 0 .. 3 \/ b \in 4 .. 7
      OBVIOUS
    <3> QED
      BY ONLY <1>3, <3>1, <3>6, <3>7
  <2>2. PICK b \in 28 .. 31 : ~(b \in E <=> b \in F)
    BY <1>2, <1>4, <2>1, NibbleStepKeeps
  <2>3. b - 4 \in 0 .. 27 /\ b - 4 \in 8 .. 31 /\ b - 4 + 4 = b
    OBVIOUS
  <2>4. ~(b - 4 \in NibbleStep(E) <=> b - 4 \in NibbleStep(F))
    <3>1. \A a \in 0 .. 27 : (a \in NibbleStep(E) <=> a \in NibbleStep(F))
                                <=> (a + 4 \in E <=> a + 4 \in F)
      BY ONLY <1>5, <1>8, NibbleStepKeeps, Zenon
    <3> QED
      BY <2>2, <2>3, <3>1
  <2> QED
    BY <1>6, <2>3, <2>4
<1> QED
  BY <1>7, <1>8

\* Registers that differ differ behind the next byte: whatever it is, if they
\* differ above the place where it enters.
LEMMA StillDiffer ==
    ASSUME NEW X, NEW Y, X \subseteq 0 .. 31, Y \subseteq 0 .. 31, NEW c, NEW d,
           (X # Y /\ c = d) \/ \E b \in 8 .. 31 : ~(b \in X <=> b \in Y)
    PROVE  Crc32Byte(X, c) # Crc32Byte(Y, d)
<1>1. PICK C, D : C = SymDiff(X, BitsOf(c, 8)) /\ D = SymDiff(Y, BitsOf(d, 8))
  OBVIOUS
<1>2. C \subseteq 0 .. 31 /\ D \subseteq 0 .. 31
  BY <1>1, EntersLow
<1>3. C # D
  <2>1. CASE X # Y /\ c = d
    <3>1. PICK b : ~(b \in X <=> b \in Y)
      BY <2>1
    <3>2. ~(b \in C <=> b \in D)
      BY <1>1, <2>1, <3>1, SymDiffIs
    <3> QED
      BY <3>2
  <2>2. CASE \E b \in 8 .. 31 : ~(b \in X <=> b \in Y)
    BY <1>1, <2>2, EntersLow
  <2> QED
    BY <2>1, <2>2
<1>4. NibbleStep(C) # NibbleStep(D)
  BY <1>2, <1>3, NibbleStepKeeps
<1>5. NibbleStep(C) \subseteq 0 .. 31 /\ NibbleStep(D) \subseteq 0 .. 31
  BY <1>2, NibbleStepIs
<1>6. NibbleStep(NibbleStep(C)) # NibbleStep(NibbleStep(D))
  BY <1>4, <1>5, NibbleStepKeeps
<1> QED
  BY <1>1, <1>6 DEF Crc32Byte

\* f says what the register holds behind each byte.
Registers(bytes, f) ==
    /\ f[0] = 0 .. 31
    /\ \A i \in 0 .. Len(bytes) : f[i] \subseteq 0 .. 31
    /\ \A i \in 1 .. Len(bytes) : f[i] = Crc32Byte(f[i - 1], bytes[i])

\* The register is what crc32_update leaves (core/src/crc32.cpp).
LEMMA RegisterIs ==
    ASSUME NEW V, NEW bytes \in Seq(V)
    PROVE  \E f : Registers(bytes, f) /\ Register(bytes) = f[Len(bytes)]
<1>0. PICK n : n = Len(bytes) /\ n \in Nat
  OBVIOUS
<1> DEFINE h == [i \in 1 .. n |-> [X \in SUBSET (0 .. 31) |-> Crc32Byte(X, bytes[i])]]
           Crc(f) == f = [i \in 0 .. Len(bytes) |->
                             IF i = 0 THEN Ones ELSE Crc32Byte(f[i - 1], bytes[i])]
<1>1. PICK g : Iterates(g, SUBSET (0 .. 31), 0 .. 31, h, n)
  <2>1. h \in [1 .. n -> [SUBSET (0 .. 31) -> SUBSET (0 .. 31)]]
    BY EntersLow
  <2>2. 0 .. 31 \in SUBSET (0 .. 31)
    OBVIOUS
  <2> HIDE DEF h
  <2> QED
    BY ONLY <1>0, <2>1, <2>2, IterationExists
<1>2. \A i \in 0 .. n : g[i] \subseteq 0 .. 31
  BY <1>1 DEF Iterates
<1>3. ASSUME NEW i \in 1 .. n PROVE g[i] = Crc32Byte(g[i - 1], bytes[i])
  <2>1. i - 1 \in 0 .. n
    BY <1>0
  <2>2. g[i - 1] \in SUBSET (0 .. 31) /\ g[i] = h[i][g[i - 1]]
    BY <1>1, <2>1 DEF Iterates
  <2> QED
    BY <2>2
<1>4. g[0] = 0 .. 31
  BY <1>1 DEF Iterates
<1>5. Crc(g)
  <2>1. ASSUME NEW i \in 0 .. n
        PROVE  g[i] = IF i = 0 THEN Ones ELSE Crc32Byte(g[i - 1], bytes[i])
    <3>1. i # 0 => i \in 1 .. n
      BY <1>0
    <3> QED
      BY <1>3, <1>4, <3>1 DEF Ones
  <2>2. g = [i \in 0 .. n |-> g[i]]
    BY <1>1 DEF Iterates
  <2>3. g = [i \in 0 .. n |-> IF i = 0 THEN Ones ELSE Crc32Byte(g[i - 1], bytes[i])]
    BY ONLY <2>1, <2>2
  <2> QED
    BY ONLY <1>0, <2>3
<1> DEFINE F == CHOOSE f : Crc(f)
<1>6. Crc(F)
  BY <1>5
<1>7. Register(bytes) = F[Len(bytes)]
  BY Zenon DEF Register
<1>8. PICK f : f = F
  OBVIOUS
<1>9. \A i \in 0 .. n : f[i] = IF i = 0 THEN Ones ELSE Crc32Byte(f[i - 1], bytes[i])
  <2>1. f = [i \in 0 .. n |-> IF i = 0 THEN Ones ELSE Crc32Byte(f[i - 1], bytes[i])]
    BY ONLY <1>0, <1>6, <1>8
  <2> QED
    BY ONLY <2>1, Zenon
<1>10. 0 \in 0 .. n /\ \A i \in 1 .. n : i \in 0 .. n /\ i # 0
  BY <1>0
<1>11. f[0] = 0 .. 31 /\ \A i \in 1 .. n : f[i] = Crc32Byte(f[i - 1], bytes[i])
  BY ONLY <1>9, <1>10, Zenon DEF Ones
<1>12. \A i \in 0 .. n : f[i] \subseteq 0 .. 31
  <2> DEFINE S == {i \in Nat : f[i] \subseteq 0 .. 31}
  <2>1. 0 \in S
    BY <1>11
  <2>2. ASSUME NEW i \in 1 .. n, i - 1 \in S PROVE i \in S
    <3>1. f[i - 1] \subseteq 0 .. 31 /\ i \in Nat
      <4>1. f[i - 1] \subseteq 0 .. 31
        BY ONLY <2>2, Zenon
      <4>2. i \in Nat
        BY ONLY <1>0, i \in 1 .. n
      <4> QED
        BY ONLY <4>1, <4>2, Zenon
    <3>2. Crc32Byte(f[i - 1], bytes[i]) \subseteq 0 .. 31
      BY ONLY <3>1, EntersLow, Zenon
    <3> QED
      BY <1>11, <3>1, <3>2
  <2>3. \A i \in 0 .. n : i \in S
    <3> HIDE DEF S
    <3> QED
      BY ONLY <1>0, <2>1, <2>2, UpTo
  <2> QED
    BY <2>3
<1>13. Registers(bytes, f)
  BY ONLY <1>0, <1>11, <1>12 DEF Registers
<1> QED
  BY <1>7, <1>8, <1>13

\* What hits two bytes that lie side by side leaves another checksum.
THEOREM BurstIsSeen ==
    ASSUME NEW bytes \in Seq(0 .. 255), NEW hit \in Seq(0 .. 255), Len(hit) = Len(bytes),
           NEW k \in 1 .. Len(bytes) - 1, hit # bytes,
           \A i \in 1 .. Len(bytes) : i # k /\ i # k + 1 => hit[i] = bytes[i]
    PROVE  Crc32(hit) # Crc32(bytes)
<1>0. PICK n : n = Len(bytes) /\ n \in Nat
  OBVIOUS
<1>1. PICK f : Registers(bytes, f) /\ Register(bytes) = f[n]
  BY <1>0, RegisterIs
<1>2. PICK g : Registers(hit, g) /\ Register(hit) = g[n]
  BY <1>0, RegisterIs
<1>3. /\ \A i \in 0 .. n : f[i] \subseteq 0 .. 31 /\ g[i] \subseteq 0 .. 31
      /\ \A i \in 1 .. n : f[i] = Crc32Byte(f[i - 1], bytes[i])
      /\ \A i \in 1 .. n : g[i] = Crc32Byte(g[i - 1], hit[i])
      /\ f[0] = g[0]
  BY <1>0, <1>1, <1>2 DEF Registers
<1>4. f[k - 1] = g[k - 1]
  <2> DEFINE S == {i \in Nat : f[i] = g[i]}
  <2>1. 0 \in S
    BY <1>3
  <2>2. ASSUME NEW i \in 1 .. k - 1, i - 1 \in S PROVE i \in S
    <3>1. i \in 1 .. n /\ i # k /\ i # k + 1
      BY <1>0
    <3> QED
      BY <1>0, <1>3, <2>2, <3>1
  <2>3. k - 1 \in Nat /\ k - 1 \in 0 .. k - 1
    OBVIOUS
  <2> HIDE DEF S
  <2>4. k - 1 \in S
    BY ONLY <2>1, <2>2, <2>3, UpTo
  <2> QED
    BY <2>4 DEF S
<1>5. /\ k \in 1 .. n /\ k + 1 \in 1 .. n /\ k - 1 \in 0 .. n /\ k + 1 - 1 = k /\ k \in 0 .. n
      /\ bytes[k] \in 0 .. 255 /\ hit[k] \in 0 .. 255
      /\ bytes[k + 1] \in 0 .. 255 /\ hit[k + 1] \in 0 .. 255
  <2>1. k \in 1 .. n - 1 /\ n = Len(hit)
    BY <1>0
  <2>2. k \in 1 .. n /\ k + 1 \in 1 .. n /\ k - 1 \in 0 .. n /\ k + 1 - 1 = k /\ k \in 0 .. n
    BY ONLY <1>0, <2>1
  <2>3. \A i \in 1 .. n : bytes[i] \in 0 .. 255 /\ hit[i] \in 0 .. 255
    <3> SUFFICES ASSUME NEW i \in 1 .. n PROVE bytes[i] \in 0 .. 255 /\ hit[i] \in 0 .. 255
      OBVIOUS
    <3>1. bytes[i] \in 0 .. 255
      BY ONLY <1>0, i \in 1 .. n, bytes \in Seq(0 .. 255), ElementOfSeq, SMTT(60)
    <3>2. hit[i] \in 0 .. 255
      BY ONLY <2>1, i \in 1 .. n, hit \in Seq(0 .. 255), ElementOfSeq
    <3> QED
      BY <3>1, <3>2
  <2> QED
    BY ONLY <2>2, <2>3
<1>6. f[k + 1] # g[k + 1]
  <2>1. PICK X : X = f[k - 1] /\ X = g[k - 1] /\ X \subseteq 0 .. 31
    BY <1>3, <1>4, <1>5, ZenonT(60)
  <2>2. f[k] = Crc32Byte(X, bytes[k]) /\ g[k] = Crc32Byte(X, hit[k])
    BY <1>3, <1>5, <2>1, ZenonT(60)
  <2>3. f[k + 1] = Crc32Byte(f[k], bytes[k + 1]) /\ g[k + 1] = Crc32Byte(g[k], hit[k + 1])
    BY <1>3, <1>5, SMTT(60)
  <2>4. f[k] \subseteq 0 .. 31 /\ g[k] \subseteq 0 .. 31
    BY <1>3, <1>5, ZenonT(60)
  <2>5. CASE bytes[k] # hit[k]
    <3>1. \E b \in 8 .. 31 : ~(b \in Crc32Byte(X, bytes[k]) <=> b \in Crc32Byte(X, hit[k]))
      BY ONLY <1>5, <2>1, <2>5, BytesDiffer, ZenonT(60)
    <3>2. \E b \in 8 .. 31 : ~(b \in f[k] <=> b \in g[k])
      BY ONLY <2>2, <3>1, ZenonT(60)
    <3>3. Crc32Byte(f[k], bytes[k + 1]) # Crc32Byte(g[k], hit[k + 1])
      BY ONLY <2>4, <3>2, StillDiffer, ZenonT(60)
    <3> QED
      BY ONLY <2>3, <3>3, Zenon
  <2>6. CASE bytes[k] = hit[k]
    <3>1. bytes[k + 1] # hit[k + 1]
      BY <1>0, <2>6
    <3>2. f[k] = g[k]
      BY <2>2, <2>6
    <3>3. \E b \in 8 .. 31 : ~(b \in Crc32Byte(f[k], bytes[k + 1])
                                    <=> b \in Crc32Byte(f[k], hit[k + 1]))
      BY ONLY <1>5, <2>4, <3>1, BytesDiffer, ZenonT(60)
    <3> QED
      BY ONLY <2>3, <3>2, <3>3, Zenon
  <2> QED
    BY <2>5, <2>6
<1>7. f[n] # g[n]
  <2> DEFINE S == {i \in Nat : i < k + 1 \/ f[i] # g[i]}
  <2>1. 0 \in S
    OBVIOUS
  <2>2. ASSUME NEW i \in 1 .. n, i - 1 \in S PROVE i \in S
    <3>1. CASE i < k + 1
      BY <3>1
    <3>2. CASE i = k + 1
      BY <1>6, <3>2
    <3>3. CASE i > k + 1
      <4>1. f[i - 1] # g[i - 1] /\ i - 1 \in 0 .. n
        BY <1>0, <2>2, <3>3
      <4>2. hit[i] = bytes[i]
        BY <1>0, <3>3
      <4>3. f[i - 1] \subseteq 0 .. 31 /\ g[i - 1] \subseteq 0 .. 31
        BY <1>3, <4>1
      <4>4. Crc32Byte(f[i - 1], bytes[i]) # Crc32Byte(g[i - 1], hit[i])
        BY ONLY <4>1, <4>2, <4>3, StillDiffer, Zenon
      <4> QED
        BY <1>3, <4>4
    <3> QED
      BY <3>1, <3>2, <3>3
  <2> HIDE DEF S
  <2>3. n \in S
    <3>1. n \in 0 .. n
      BY <1>0
    <3> QED
      BY ONLY <1>0, <2>1, <2>2, <3>1, UpTo
  <2> QED
    BY <1>5, <2>3 DEF S
<1>8. PICK b : ~(b \in Register(bytes) <=> b \in Register(hit))
  <2>1. n \in 0 .. n
    BY <1>0
  <2>2. PICK X, Y : X = f[n] /\ Y = g[n] /\ X # Y /\ X \subseteq 0 .. 31 /\ Y \subseteq 0 .. 31
    BY ONLY <1>3, <1>7, <2>1, Zenon
  <2>3. \E b : ~(b \in X <=> b \in Y)
    BY ONLY <2>2
  <2> QED
    BY ONLY <1>1, <1>2, <2>2, <2>3, ZenonT(60)
<1>9. ~(b \in Crc32(bytes) <=> b \in Crc32(hit))
  BY <1>8, SymDiffIs DEF Crc32
<1> QED
  BY <1>9

--------------------------------------------------------------------------------
(* Crc32: the table's steps are the standard's.                               *)

\* One bit of the standard's division.
LEMMA BitStepIs ==
    ASSUME NEW X, X \subseteq 0 .. 31
    PROVE  /\ BitStep(X) \subseteq 0 .. 31
           /\ \A b \in 0 .. 31 : b \in BitStep(X) <=> ~(b + 1 \in X <=> 0 \in X /\ b \in Poly)
<1>1. Poly \subseteq 0 .. 31
  BY HexType DEF Poly
<1>2. /\ Shifted(X, 1) \subseteq 0 .. 31
      /\ \A b \in 0 .. 31 : b \in Shifted(X, 1) <=> b + 1 \in X
  BY DEF Shifted
<1>3. PICK P : P = (IF 0 \in X THEN Poly ELSE {}) /\ P \subseteq 0 .. 31
  BY <1>1
<1>4. BitStep(X) = SymDiff(Shifted(X, 1), P)
  BY <1>3 DEF BitStep
<1>5. BitStep(X) \subseteq 0 .. 31
  BY <1>2, <1>3, <1>4 DEF SymDiff
<1>6. ASSUME NEW b \in 0 .. 31
      PROVE  b \in BitStep(X) <=> ~(b + 1 \in X <=> 0 \in X /\ b \in Poly)
  <2>1. b \in BitStep(X) <=> ~(b \in Shifted(X, 1) <=> b \in P)
    BY <1>4, SymDiffIs
  <2> QED
    BY <1>2, <1>3, <2>1
<1> QED
  BY <1>5, <1>6

\* Four of them: no term of the polynomial is lower than the fifth, so that the low
\* nibble alone decides which of them are subtracted.
LEMMA FourBitsIs ==
    ASSUME NEW X, X \subseteq 0 .. 31
    PROVE  /\ FourBits(X) \subseteq 0 .. 31
           /\ \A b \in 0 .. 31 :
                 b \in FourBits(X)
                     <=> ~(b + 4 \in X
                               <=> ~((~(0 \in X /\ b + 3 \in Poly <=> 1 \in X /\ b + 2 \in Poly))
                                     <=> (~(2 \in X /\ b + 1 \in Poly <=> 3 \in X /\ b \in Poly))))
<1>1. PICK A : A = BitStep(X) /\ A \subseteq 0 .. 31
  BY BitStepIs
<1>2. PICK B : B = BitStep(A) /\ B \subseteq 0 .. 31
  BY <1>1, BitStepIs
<1>3. PICK C : C = BitStep(B) /\ C \subseteq 0 .. 31
  BY <1>2, BitStepIs
<1>4. PICK D : D = BitStep(C) /\ D \subseteq 0 .. 31
  BY <1>3, BitStepIs
<1>5. FourBits(X) = D
  BY <1>1, <1>2, <1>3, <1>4 DEF FourBits
<1>6. Poly = NibbleTable[9]
  BY DEF Poly, NibbleTable
<1>7. \A b \in 0 .. 3 : b \notin Poly
  BY <1>6, TableIs
<1>8. \A b \in Int : b > 31 => b \notin Poly /\ b \notin X /\ b \notin A /\ b \notin B /\ b \notin C
  <2>1. Poly \subseteq 0 .. 31
    BY HexType DEF Poly
  <2> QED
    BY <1>1, <1>2, <1>3, <2>1
<1>9. \A b \in Nat : b \in A <=> ~(b + 1 \in X <=> 0 \in X /\ b \in Poly)
  <2>1. \A b \in 0 .. 31 : b \in A <=> ~(b + 1 \in X <=> 0 \in X /\ b \in Poly)
    BY ONLY X \subseteq 0 .. 31, <1>1, BitStepIs, Zenon
  <2> QED
    BY ONLY <1>8, <2>1, X \subseteq 0 .. 31
<1>10. \A b \in Nat : b \in B <=> ~(b + 1 \in A <=> 0 \in A /\ b \in Poly)
  <2>1. \A b \in 0 .. 31 : b \in B <=> ~(b + 1 \in A <=> 0 \in A /\ b \in Poly)
    BY ONLY X \subseteq 0 .. 31, <1>1, <1>2, BitStepIs, Zenon
  <2> QED
    BY ONLY <1>8, <2>1, X \subseteq 0 .. 31
<1>11. \A b \in Nat : b \in C <=> ~(b + 1 \in B <=> 0 \in B /\ b \in Poly)
  <2>1. \A b \in 0 .. 31 : b \in C <=> ~(b + 1 \in B <=> 0 \in B /\ b \in Poly)
    BY ONLY X \subseteq 0 .. 31, <1>2, <1>3, BitStepIs, Zenon
  <2> QED
    BY ONLY <1>8, <2>1, X \subseteq 0 .. 31
<1>12. \A b \in 0 .. 31 : b \in D <=> ~(b + 1 \in C <=> 0 \in C /\ b \in Poly)
  BY <1>3, <1>4, BitStepIs
<1>13. /\ 0 \in A <=> 1 \in X
       /\ 1 \in A <=> 2 \in X
       /\ 2 \in A <=> 3 \in X
  BY <1>7, <1>9
<1>14. /\ 0 \in B <=> 1 \in A
       /\ 1 \in B <=> 2 \in A
  BY <1>7, <1>10
<1>15. 0 \in C <=> 1 \in B
  BY <1>7, <1>11
<1>16. ASSUME NEW b \in 0 .. 31
       PROVE  b \in D
                  <=> ~(b + 4 \in X
                            <=> ~((~(0 \in X /\ b + 3 \in Poly <=> 1 \in X /\ b + 2 \in Poly))
                                  <=> (~(2 \in X /\ b + 1 \in Poly <=> 3 \in X /\ b \in Poly))))
  <2>1. b + 3 \in A <=> ~(b + 4 \in X <=> 0 \in X /\ b + 3 \in Poly)
    BY <1>9
  <2>2. b + 2 \in B <=> ~(b + 3 \in A <=> 0 \in A /\ b + 2 \in Poly)
    BY <1>10
  <2>3. b + 1 \in C <=> ~(b + 2 \in B <=> 0 \in B /\ b + 1 \in Poly)
    BY <1>11
  <2> QED
    BY ONLY <1>12, <1>13, <1>14, <1>15, <2>1, <2>2, <2>3, b \in 0 .. 31, Zenon
<1> QED
  BY <1>4, <1>5, <1>16

\* The table has what four steps of the division leave of a nibble (crc32.cpp).
LEMMA TableIsFourBits ==
    ASSUME NEW X, NEW b \in 0 .. 31
    PROVE  b \in NibbleTable[LowNibble(X) + 1]
               <=> ~((~(0 \in X /\ b + 3 \in Poly <=> 1 \in X /\ b + 2 \in Poly))
                     <=> (~(2 \in X /\ b + 1 \in Poly <=> 3 \in X /\ b \in Poly)))
<1> DEFINE x(k) == IF k \in X THEN 1 ELSE 0
<1>1. LowNibble(X) = x(0) + 2 * x(1) + 4 * x(2) + 8 * x(3)
  BY WeightIs DEF LowNibble
<1>2. \A k \in 0 .. 3 : x(k) \in 0 .. 1 /\ (x(k) = 1 <=> k \in X)
  OBVIOUS
<1> HIDE DEF x
<1>3. Poly = NibbleTable[9]
  BY DEF Poly, NibbleTable
<1>4. CASE LowNibble(X) = 0
  <2>1. 0 \notin X /\ 1 \notin X /\ 2 \notin X /\ 3 \notin X
    BY <1>1, <1>2, <1>4
  <2>2. LowNibble(X) + 1 = 1
    BY <1>4
  <2> QED
    BY ONLY <1>3, <2>1, <2>2, TableIs, b \in 0 .. 31
<1>5. CASE LowNibble(X) = 1
  <2>1. 0 \in X /\ 1 \notin X /\ 2 \notin X /\ 3 \notin X
    BY <1>1, <1>2, <1>5
  <2>2. LowNibble(X) + 1 = 2
    BY <1>5
  <2> QED
    BY ONLY <1>3, <2>1, <2>2, TableIs, b \in 0 .. 31
<1>6. CASE LowNibble(X) = 2
  <2>1. 0 \notin X /\ 1 \in X /\ 2 \notin X /\ 3 \notin X
    BY <1>1, <1>2, <1>6
  <2>2. LowNibble(X) + 1 = 3
    BY <1>6
  <2> QED
    BY ONLY <1>3, <2>1, <2>2, TableIs, b \in 0 .. 31
<1>7. CASE LowNibble(X) = 3
  <2>1. 0 \in X /\ 1 \in X /\ 2 \notin X /\ 3 \notin X
    BY <1>1, <1>2, <1>7
  <2>2. LowNibble(X) + 1 = 4
    BY <1>7
  <2> QED
    BY ONLY <1>3, <2>1, <2>2, TableIs, b \in 0 .. 31
<1>8. CASE LowNibble(X) = 4
  <2>1. 0 \notin X /\ 1 \notin X /\ 2 \in X /\ 3 \notin X
    BY <1>1, <1>2, <1>8
  <2>2. LowNibble(X) + 1 = 5
    BY <1>8
  <2> QED
    BY ONLY <1>3, <2>1, <2>2, TableIs, b \in 0 .. 31
<1>9. CASE LowNibble(X) = 5
  <2>1. 0 \in X /\ 1 \notin X /\ 2 \in X /\ 3 \notin X
    BY <1>1, <1>2, <1>9
  <2>2. LowNibble(X) + 1 = 6
    BY <1>9
  <2> QED
    BY ONLY <1>3, <2>1, <2>2, TableIs, b \in 0 .. 31
<1>10. CASE LowNibble(X) = 6
  <2>1. 0 \notin X /\ 1 \in X /\ 2 \in X /\ 3 \notin X
    BY <1>1, <1>2, <1>10
  <2>2. LowNibble(X) + 1 = 7
    BY <1>10
  <2> QED
    BY ONLY <1>3, <2>1, <2>2, TableIs, b \in 0 .. 31
<1>11. CASE LowNibble(X) = 7
  <2>1. 0 \in X /\ 1 \in X /\ 2 \in X /\ 3 \notin X
    BY <1>1, <1>2, <1>11
  <2>2. LowNibble(X) + 1 = 8
    BY <1>11
  <2> QED
    BY ONLY <1>3, <2>1, <2>2, TableIs, b \in 0 .. 31
<1>12. CASE LowNibble(X) = 8
  <2>1. 0 \notin X /\ 1 \notin X /\ 2 \notin X /\ 3 \in X
    BY <1>1, <1>2, <1>12
  <2>2. LowNibble(X) + 1 = 9
    BY <1>12
  <2> QED
    BY ONLY <1>3, <2>1, <2>2, TableIs, b \in 0 .. 31
<1>13. CASE LowNibble(X) = 9
  <2>1. 0 \in X /\ 1 \notin X /\ 2 \notin X /\ 3 \in X
    BY <1>1, <1>2, <1>13
  <2>2. LowNibble(X) + 1 = 10
    BY <1>13
  <2> QED
    BY ONLY <1>3, <2>1, <2>2, TableIs, b \in 0 .. 31
<1>14. CASE LowNibble(X) = 10
  <2>1. 0 \notin X /\ 1 \in X /\ 2 \notin X /\ 3 \in X
    BY <1>1, <1>2, <1>14
  <2>2. LowNibble(X) + 1 = 11
    BY <1>14
  <2> QED
    BY ONLY <1>3, <2>1, <2>2, TableIs, b \in 0 .. 31
<1>15. CASE LowNibble(X) = 11
  <2>1. 0 \in X /\ 1 \in X /\ 2 \notin X /\ 3 \in X
    BY <1>1, <1>2, <1>15
  <2>2. LowNibble(X) + 1 = 12
    BY <1>15
  <2> QED
    BY ONLY <1>3, <2>1, <2>2, TableIs, b \in 0 .. 31
<1>16. CASE LowNibble(X) = 12
  <2>1. 0 \notin X /\ 1 \notin X /\ 2 \in X /\ 3 \in X
    BY <1>1, <1>2, <1>16
  <2>2. LowNibble(X) + 1 = 13
    BY <1>16
  <2> QED
    BY ONLY <1>3, <2>1, <2>2, TableIs, b \in 0 .. 31
<1>17. CASE LowNibble(X) = 13
  <2>1. 0 \in X /\ 1 \notin X /\ 2 \in X /\ 3 \in X
    BY <1>1, <1>2, <1>17
  <2>2. LowNibble(X) + 1 = 14
    BY <1>17
  <2> QED
    BY ONLY <1>3, <2>1, <2>2, TableIs, b \in 0 .. 31
<1>18. CASE LowNibble(X) = 14
  <2>1. 0 \notin X /\ 1 \in X /\ 2 \in X /\ 3 \in X
    BY <1>1, <1>2, <1>18
  <2>2. LowNibble(X) + 1 = 15
    BY <1>18
  <2> QED
    BY ONLY <1>3, <2>1, <2>2, TableIs, b \in 0 .. 31
<1>19. CASE LowNibble(X) = 15
  <2>1. 0 \in X /\ 1 \in X /\ 2 \in X /\ 3 \in X
    BY <1>1, <1>2, <1>19
  <2>2. LowNibble(X) + 1 = 16
    BY <1>19
  <2> QED
    BY ONLY <1>3, <2>1, <2>2, TableIs, b \in 0 .. 31
<1> QED
  BY LowNibbleIs, <1>4, <1>5, <1>6, <1>7, <1>8, <1>9, <1>10, <1>11, <1>12, <1>13, <1>14, <1>15,
     <1>16, <1>17, <1>18, <1>19

\* So a step by the table is four steps of the division.
LEMMA NibbleStepIsFourBits ==
    ASSUME NEW X, X \subseteq 0 .. 31
    PROVE  NibbleStep(X) = FourBits(X)
<1>1. ASSUME NEW b \in 0 .. 31 PROVE b \in NibbleStep(X) <=> b \in FourBits(X)
  <2>1. b \in NibbleStep(X) <=> ~(b + 4 \in X <=> b \in NibbleTable[LowNibble(X) + 1])
    BY NibbleStepIs
  <2> QED
    BY <2>1, FourBitsIs, TableIsFourBits
<1>2. NibbleStep(X) \subseteq 0 .. 31 /\ FourBits(X) \subseteq 0 .. 31
  BY NibbleStepIs, FourBitsIs
<1> QED
  BY <1>1, <1>2

--------------------------------------------------------------------------------
(* The fields of an event.                                                    *)

\* One byte more.
LEMMA RegisterOfOneMore ==
    ASSUME NEW V, NEW c \in Seq(V), NEW d \in Seq(V), Len(d) = Len(c) + 1,
           \A i \in 1 .. Len(c) : d[i] = c[i]
    PROVE  /\ Register(c) \subseteq 0 .. 31
           /\ Register(d) = Crc32Byte(Register(c), d[Len(d)])
<1>0. PICK n : n = Len(c) /\ n \in Nat /\ Len(d) = n + 1
  OBVIOUS
<1>1. PICK f : Registers(c, f) /\ Register(c) = f[n]
  BY <1>0, RegisterIs
<1>2. PICK g : Registers(d, g) /\ Register(d) = g[n + 1]
  BY <1>0, RegisterIs
<1>3. /\ f[0] = g[0] /\ f[n] \subseteq 0 .. 31
      /\ \A i \in 1 .. n : f[i] = Crc32Byte(f[i - 1], c[i])
      /\ \A i \in 1 .. n + 1 : g[i] = Crc32Byte(g[i - 1], d[i])
  <2>1. n \in 0 .. n
    BY <1>0
  <2>2. f[0] = 0 .. 31 /\ f[n] \subseteq 0 .. 31
    BY ONLY <1>0, <1>1, <2>1, Zenon DEF Registers
  <2>3. \A i \in 1 .. n : f[i] = Crc32Byte(f[i - 1], c[i])
    BY ONLY <1>0, <1>1, Zenon DEF Registers
  <2>4. g[0] = 0 .. 31 /\ \A i \in 1 .. n + 1 : g[i] = Crc32Byte(g[i - 1], d[i])
    BY ONLY <1>0, <1>2, Zenon DEF Registers
  <2> QED
    BY ONLY <2>2, <2>3, <2>4, Zenon
<1> DEFINE S == {i \in Nat : f[i] = g[i]}
<1>4. 0 \in S
  BY <1>3
<1>5. ASSUME NEW i \in 1 .. n, i - 1 \in S PROVE i \in S
  <2>1. i \in 1 .. n + 1 /\ i \in Nat
    BY <1>0
  <2> QED
    BY <1>0, <1>3, <1>5, <2>1
<1>6. f[n] = g[n]
  <2> HIDE DEF S
  <2>1. n \in 0 .. n
    BY <1>0
  <2>2. n \in S
    BY ONLY <1>0, <1>4, <1>5, <2>1, UpTo
  <2> QED
    BY <2>2 DEF S
<1>7. g[n + 1] = Crc32Byte(g[n], d[n + 1])
  <2>1. PICK m : m = n + 1 /\ m \in 1 .. n + 1 /\ m - 1 = n
    BY <1>0
  <2>2. g[m] = Crc32Byte(g[m - 1], d[m])
    BY ONLY <1>3, <2>1, Zenon
  <2> QED
    BY ONLY <2>1, <2>2, Zenon
<1> QED
  BY ONLY <1>0, <1>1, <1>2, <1>3, <1>6, <1>7

\* Behind every byte of any sequence the register is the standard's.
THEOREM EveryRegisterIsStandard ==
    ASSUME NEW V, NEW bytes \in Seq(V)
    PROVE  IsStandard(bytes)
<1> SUFFICES ASSUME NEW k \in 1 .. Len(bytes)
             PROVE  Register(SubSeq(bytes, 1, k))
                        = StandardByte(Register(SubSeq(bytes, 1, k - 1)), bytes[k])
  BY DEF IsStandard
<1>1. PICK c, d : c = SubSeq(bytes, 1, k - 1) /\ d = SubSeq(bytes, 1, k)
  OBVIOUS
<1>2. /\ c \in Seq(V) /\ Len(c) = k - 1 /\ \A i \in 1 .. k - 1 : c[i] = bytes[i]
      /\ d \in Seq(V) /\ Len(d) = k /\ \A i \in 1 .. k : d[i] = bytes[i]
  BY <1>1
<1>3. Len(d) = Len(c) + 1 /\ d[Len(d)] = bytes[k] /\ \A i \in 1 .. Len(c) : d[i] = c[i]
  BY <1>2
<1>4. PICK X : X = Register(c) /\ X \subseteq 0 .. 31 /\ Register(d) = Crc32Byte(X, bytes[k])
  BY <1>2, <1>3, RegisterOfOneMore, ZenonT(60)
<1>5. PICK C : C = SymDiff(X, BitsOf(bytes[k], 8)) /\ C \subseteq 0 .. 31
  <2>1. SymDiff(X, BitsOf(bytes[k], 8)) \subseteq 0 .. 31
    BY ONLY <1>4, EntersLow, Zenon
  <2> QED
    BY ONLY <2>1, Zenon
<1>6. NibbleStep(C) = FourBits(C) /\ NibbleStep(C) \subseteq 0 .. 31
  BY <1>5, NibbleStepIs, NibbleStepIsFourBits, ZenonT(60)
<1>7. NibbleStep(NibbleStep(C)) = FourBits(FourBits(C))
  BY <1>6, NibbleStepIsFourBits
<1> QED
  BY <1>1, <1>4, <1>5, <1>7 DEF Crc32Byte, StandardByte

\* The checksum is a word.
LEMMA Crc32Type ==
    ASSUME NEW V, NEW bytes \in Seq(V)
    PROVE  Crc32(bytes) \subseteq 0 .. 31
<1>1. PICK f : Registers(bytes, f) /\ Register(bytes) = f[Len(bytes)]
  BY RegisterIs
<1>2. Len(bytes) \in 0 .. Len(bytes)
  OBVIOUS
<1>3. Register(bytes) \subseteq 0 .. 31
  BY <1>1, <1>2 DEF Registers
<1> QED
  BY <1>3 DEF Crc32, Ones, SymDiff

--------------------------------------------------------------------------------
(* Parsing.                                                                  *)

\* A decoder takes no more than there is, and returns a word.
LEMMA VarintDecodeType ==
    ASSUME NEW bytes \in Seq(Byte)
    PROVE  VarintDecode(bytes) \in [n : 0 .. Len(bytes), value : U64]
<1>0. Word \in Nat /\ Word > 0 /\ MaxBytes \in Nat /\ Len(bytes) \in Nat
  <2>1. Scale[MaxBytes - 1] \in Nat
    BY VarintAssumption, ScaleIs
  <2> QED
    BY <2>1, VarintAssumption
<1>1. PICK s : Sums(bytes, s, Len(bytes))
  BY SumsExist
<1>2. Limit(bytes) \in 0 .. Len(bytes)
  BY <1>0 DEF Limit
<1>3. Sums(bytes, s, Limit(bytes))
  <2>1. /\ \A k \in 0 .. Limit(bytes) : k \in 0 .. Len(bytes)
        /\ \A k \in 1 .. Limit(bytes) : k \in 1 .. Len(bytes)
    BY <1>0, <1>2
  <2> QED
    BY ONLY <1>1, <2>1 DEF Sums
<1>4. \A e \in 1 .. Limit(bytes) : e \in 0 .. Len(bytes) /\ s[e] \in Nat
  BY <1>0, <1>2, <1>3 DEF Sums
<1>5. CASE \E e \in 1 .. Limit(bytes) : FirstEnd(bytes, e)
  <2>1. PICK e \in 1 .. Limit(bytes) : FirstEnd(bytes, e)
    BY <1>5
  <2>2. VarintDecode(bytes) = IF s[e] < Word THEN [n |-> e, value |-> s[e]]
                              ELSE [n |-> 0, value |-> 0]
    BY ONLY <1>3, <2>1, bytes \in Seq(Byte), DecodeIs
  <2>3. CASE s[e] < Word
    <3>1. s[e] \in U64 /\ e \in 0 .. Len(bytes)
      BY <1>0, <1>4, <2>1, <2>3 DEF U64
    <3> QED
      BY ONLY <2>2, <2>3, <3>1
  <2>4. CASE ~(s[e] < Word)
    <3>1. 0 \in U64 /\ 0 \in 0 .. Len(bytes)
      BY <1>0 DEF U64
    <3> QED
      BY ONLY <2>2, <2>4, <3>1
  <2> QED
    BY <2>3, <2>4
<1>6. CASE \A e \in 1 .. Limit(bytes) : ~FirstEnd(bytes, e)
  <2>1. VarintDecode(bytes) = [n |-> 0, value |-> 0]
    BY ONLY <1>3, <1>6, bytes \in Seq(Byte), DecodeIs
  <2>2. 0 \in U64 /\ 0 \in 0 .. Len(bytes)
    BY <1>0 DEF U64
  <2> QED
    BY ONLY <2>1, <2>2
<1> QED
  BY <1>5, <1>6

ParseStart(bytes) == [ok |-> TRUE, rest |-> bytes, values |-> <<>>]

\* Parsing takes one varint after the other.
LEMMA ParsedIs ==
    ASSUME NEW bytes
    PROVE  /\ Parsed(bytes, 0) = ParseStart(bytes)
           /\ \A k \in 0 .. 2 : Parsed(bytes, k + 1) = TakeVarint(Parsed(bytes, k))
<1> DEFINE s0 == ParseStart(bytes)
           s1 == TakeVarint(s0)
           s2 == TakeVarint(s1)
           s3 == TakeVarint(s2)
           At(j) == IF j = 0 THEN s0 ELSE IF j = 1 THEN s1 ELSE IF j = 2 THEN s2 ELSE s3
           Fs(f, k) == f = [j \in 0 .. k |-> IF j = 0 THEN s0 ELSE TakeVarint(f[j - 1])]
<1>1. ASSUME NEW k \in 0 .. 3 PROVE Parsed(bytes, k) = At(k)
  <2> DEFINE g == [j \in 0 .. k |-> At(j)]
  <2>1. ASSUME NEW j \in 0 .. k PROVE g[j] = IF j = 0 THEN s0 ELSE TakeVarint(g[j - 1])
    <3>1. j = 0 \/ j = 1 \/ j = 2 \/ j = 3
      OBVIOUS
    <3>2. j # 0 => j - 1 \in 0 .. k
      OBVIOUS
    <3>3. g[j] = At(j) /\ (j # 0 => g[j - 1] = At(j - 1))
      BY <3>2
    <3> HIDE DEF g, s0
    <3>4. j # 0 => At(j) = TakeVarint(At(j - 1))
      BY <3>1
    <3> QED
      BY <3>3, <3>4
  <2>2. g = [j \in 0 .. k |-> g[j]]
    OBVIOUS
  <2> HIDE DEF g
  <2>3. Fs(g, k)
    <3> HIDE DEF s0
    <3> QED
      BY ONLY <2>1, <2>2
  <2> DEFINE F == CHOOSE f : Fs(f, k)
  <2>4. Fs(F, k)
    BY <2>3
  <2>5. Parsed(bytes, k) = F[k]
    BY Zenon DEF Parsed, ParseStart
  <2>6. PICK f : f = F
    OBVIOUS
  <2>7. \A j \in 0 .. k : f[j] = IF j = 0 THEN s0 ELSE TakeVarint(f[j - 1])
    <3> HIDE DEF s0, F
    <3>1. f = [j \in 0 .. k |-> IF j = 0 THEN s0 ELSE TakeVarint(f[j - 1])]
      BY ONLY <2>4, <2>6
    <3> QED
      BY ONLY <3>1, Zenon
  <2>8. f[k] = At(k)
    <3> HIDE DEF s0
    <3>1. k = 0 \/ k = 1 \/ k = 2 \/ k = 3
      OBVIOUS
    <3>2. f[0] = s0
      BY ONLY <2>7, k \in 0 .. 3
    <3>3. k >= 1 => f[1] = s1
      BY ONLY <2>7, <3>2, k \in 0 .. 3
    <3>4. k >= 2 => f[2] = s2
      BY ONLY <2>7, <3>3, k \in 0 .. 3
    <3>5. k >= 3 => f[3] = s3
      BY ONLY <2>7, <3>4, k \in 0 .. 3
    <3> QED
      BY ONLY <3>1, <3>2, <3>3, <3>4, <3>5
  <2> QED
    BY <2>5, <2>6, <2>8
<1>2. ASSUME NEW k \in 0 .. 2 PROVE Parsed(bytes, k + 1) = TakeVarint(Parsed(bytes, k))
  <2>1. k \in 0 .. 3 /\ k + 1 \in 0 .. 3
    OBVIOUS
  <2>2. Parsed(bytes, k + 1) = At(k + 1) /\ Parsed(bytes, k) = At(k)
    BY ONLY <1>1, <2>1
  <2> HIDE DEF s0
  <2>3. k = 0 \/ k = 1 \/ k = 2
    OBVIOUS
  <2> QED
    BY ONLY <2>2, <2>3
<1>3. Parsed(bytes, 0) = ParseStart(bytes)
  <2>1. 0 \in 0 .. 3
    OBVIOUS
  <2> HIDE DEF s0
  <2>2. Parsed(bytes, 0) = s0
    BY ONLY <1>1, <2>1
  <2> QED
    BY <2>2 DEF s0
<1> QED
  BY <1>2, <1>3

Parses == [ok : BOOLEAN, rest : Seq(Byte), values : Seq(U64)]

\* Every varint that is taken is a word more; a parse that fails stays failed.
LEMMA TakeVarintType ==
    ASSUME NEW p \in Parses
    PROVE  /\ TakeVarint(p) \in Parses
           /\ TakeVarint(p).ok => p.ok /\ Len(TakeVarint(p).values) = Len(p.values) + 1
<1>1. PICK d : d = VarintDecode(p.rest) /\ d.n \in 0 .. Len(p.rest) /\ d.value \in U64
  <2>1. p.rest \in Seq(Byte)
    BY DEF Parses
  <2> QED
    BY <2>1, VarintDecodeType
<1>2. CASE ~p.ok \/ d.n = 0
  <2>1. TakeVarint(p) = [p EXCEPT !.ok = FALSE]
    BY <1>1, <1>2 DEF TakeVarint
  <2> QED
    BY <2>1 DEF Parses
<1>3. CASE ~(~p.ok \/ d.n = 0)
  <2>1. PICK r : r = p.rest /\ r \in Seq(Byte)
    BY DEF Parses
  <2>2. PICK s : s = SubSeq(r, d.n + 1, Len(r)) /\ s \in Seq(Byte)
    <3>1. d.n + 1 \in Int /\ Len(r) \in Int /\ \A i \in d.n + 1 .. Len(r) : r[i] \in Byte
      BY <1>1, <2>1
    <3>2. SubSeq(r, d.n + 1, Len(r)) \in Seq(Byte)
      BY ONLY <3>1, SubSeqProperties, Zenon
    <3> QED
      BY <3>2
  <2>3. PICK v : v = Append(p.values, d.value) /\ v \in Seq(U64) /\ Len(v) = Len(p.values) + 1
    <3>1. p.values \in Seq(U64) /\ d.value \in U64
      BY <1>1 DEF Parses
    <3> QED
      BY ONLY <3>1, AppendProperties, ZenonT(60)
  <2>4. TakeVarint(p) = [p EXCEPT !.rest = s, !.values = v]
    BY <1>1, <1>3, <2>1, <2>2, <2>3 DEF TakeVarint
  <2> QED
    BY <1>3, <2>2, <2>3, <2>4 DEF Parses
<1> QED
  BY <1>2, <1>3

\* So a parse that succeeds has the fields it was asked for.
LEMMA ParsedType ==
    ASSUME NEW bytes \in Seq(Byte), NEW k \in 0 .. 3
    PROVE  Parsed(bytes, k) \in Parses /\ (Parsed(bytes, k).ok => Len(Parsed(bytes, k).values) = k)
<1> DEFINE S == {j \in Nat : /\ Parsed(bytes, j) \in Parses
                             /\ Parsed(bytes, j).ok => Len(Parsed(bytes, j).values) = j}
<1>1. 0 \in S
  <2>1. Parsed(bytes, 0) = ParseStart(bytes)
    BY ParsedIs
  <2>2. <<>> \in Seq(U64) /\ Len(<<>>) = 0 /\ 0 \in Nat
    OBVIOUS
  <2>3. ParseStart(bytes) \in Parses /\ Len(ParseStart(bytes).values) = 0
    BY <2>2 DEF ParseStart, Parses
  <2> QED
    BY <2>1, <2>2, <2>3
<1>2. ASSUME NEW j \in 1 .. 3, j - 1 \in S PROVE j \in S
  <2>1. PICK i : i = j - 1 /\ i \in 0 .. 2 /\ j = i + 1
    OBVIOUS
  <2>2. PICK p : p = Parsed(bytes, i) /\ p \in Parses /\ (p.ok => Len(p.values) = i)
    BY <1>2, <2>1
  <2>3. Parsed(bytes, j) = TakeVarint(p)
    BY ONLY <2>1, <2>2, ParsedIs
  <2>4. TakeVarint(p) \in Parses /\ (TakeVarint(p).ok => Len(TakeVarint(p).values) = j)
    BY <2>1, <2>2, TakeVarintType
  <2> QED
    BY <2>3, <2>4
<1> HIDE DEF S
<1>3. k \in S
  <2>1. 3 \in Nat
    OBVIOUS
  <2> QED
    BY ONLY <1>1, <1>2, <2>1, k \in 0 .. 3, UpTo
<1> QED
  BY <1>3 DEF S

\* A varint in front of a rest is taken, and the rest is left.
LEMMA TakeEncoded ==
    ASSUME NEW v \in U64, NEW more \in Seq(Byte), NEW values \in Seq(U64)
    PROVE  TakeVarint([ok |-> TRUE, rest |-> VarintEncode[v] \o more, values |-> values])
               = [ok |-> TRUE, rest |-> more, values |-> Append(values, v)]
<1>1. PICK c : c = VarintEncode[v] /\ c \in Seq(Byte) /\ Len(c) \in Nat \ {0}
  BY EncodeType
<1>2. VarintDecode(c \o more) = [n |-> Len(c), value |-> v]
  BY <1>1, RoundTrip
<1>3. SubSeq(c \o more, Len(c) + 1, Len(c \o more)) = more
  <2>1. PICK s : s = SubSeq(c \o more, Len(c) + 1, Len(c \o more))
    OBVIOUS
  <2>2. s \in Seq(Byte) /\ Len(s) = Len(more) /\ \A i \in 1 .. Len(more) : s[i] = more[i]
    BY <1>1, <2>1, SMTT(60)
  <2> QED
    BY <2>1, <2>2
<1>4. PICK p : p = [ok |-> TRUE, rest |-> c \o more, values |-> values]
  OBVIOUS
<1>5. /\ p.ok /\ p.rest = c \o more /\ p.values = values
      /\ VarintDecode(p.rest).n = Len(c) /\ VarintDecode(p.rest).value = v
  BY <1>2, <1>4
<1>6. TakeVarint(p) = [p EXCEPT !.rest = SubSeq(p.rest, Len(c) + 1, Len(p.rest)),
                                !.values = Append(p.values, v)]
  BY <1>1, <1>5, Zenon DEF TakeVarint
<1>7. TakeVarint(p) = [ok |-> TRUE, rest |-> more, values |-> Append(values, v)]
  BY ONLY <1>3, <1>4, <1>5, <1>6, ZenonT(60)
<1> QED
  BY <1>1, <1>4, <1>7

--------------------------------------------------------------------------------
(* Types.                                                                    *)

Addresses == 0 .. Space32 - 1

BlockTypes ==
    /\ writer \in [ts : U64, addr : Addresses, seq : Nat]
    /\ staged \in Seq(Byte)
    /\ link \in [seq : Seq(Byte), payload : Seq(Byte), crc : SUBSET Int]
    /\ link # NoBlock => Len(link.seq) = 4
    /\ condition \in {"sent", "damaged", "forged"}
    /\ reader \in [ts : U64, addr : Addresses, done : BOOLEAN, payload : Seq(Byte), seq : Nat]
    /\ sent \in Seq(Events)
    /\ got \in Seq([type : 1 .. 5, ts : U64, addr : Addresses, value : Addresses])

\* A block's number is four bytes.
LEMMA Le32Type == \A n \in Nat : Le32(n) \in Seq(Byte) /\ Len(Le32(n)) = 4
<1> SUFFICES ASSUME NEW n \in Nat PROVE Le32(n) \in Seq(Byte) /\ Len(Le32(n)) = 4
  OBVIOUS
<1>1. PICK B : B = 2 * Radix /\ B \in Nat \ {0}
  BY VarintAssumption
<1>2. PICK B2 : B2 = B * B /\ B2 \in Nat \ {0}
  BY <1>1
<1>3. PICK B3 : B3 = B * B * B /\ B3 \in Nat \ {0}
  BY <1>1, <1>2
<1>4. \A m \in Int : m % B \in 0 .. B - 1
  BY <1>1
<1>5. PICK x0, x1, x2, x3 : /\ x0 = n % B /\ x1 = (n \div B) % B
                            /\ x2 = (n \div B2) % B /\ x3 = (n \div B3) % B
  OBVIOUS
<1>6. x0 \in 0 .. B - 1 /\ x1 \in 0 .. B - 1 /\ x2 \in 0 .. B - 1 /\ x3 \in 0 .. B - 1
  BY <1>1, <1>2, <1>3, <1>4, <1>5
<1>7. Le32(n) = <<x0, x1, x2, x3>>
  BY <1>1, <1>2, <1>3, <1>5 DEF Le32
<1> QED
  BY <1>1, <1>6, <1>7 DEF Byte

\* What an event has.
LEMMA EventIs ==
    ASSUME NEW ev \in Events
    PROVE  /\ ev.type \in 1 .. 5 /\ ev.type \in Byte /\ ev.ts \in U64
           /\ ev.addr \in Addresses /\ ev.value \in Addresses
           /\ ev.addr \in U64 /\ ev.value \in U64
           /\ ev = [type |-> ev.type, ts |-> ev.ts, addr |-> ev.addr, value |-> ev.value]
           /\ ev.type = EvIrqEnter => ev.value = 0
           /\ ev.type = EvStop => ev.addr = 0 /\ ev.value = 0
           /\ ev.type = EvIrqAt => Version >= 3
<1>1. ev \in [type : 1 .. 5, ts : U64, addr : 0 .. Space32 - 1, value : 0 .. Space32 - 1]
  BY EventsAssumption
<1>2. \A n \in 1 .. 5 : n \in Byte
  BY VarintAssumption, BlockCodecAssumption DEF Byte
<1>3. \A n \in 0 .. Space32 - 1 : n \in U64
  BY VarintAssumption, BlockCodecAssumption DEF U64
<1> QED
  BY <1>1, <1>2, <1>3, EventsAssumption DEF Addresses

\* What write_mmio and write_plain put behind the time, by type.
LEMMA ArgumentsIs ==
    ASSUME NEW w, NEW ev
    PROVE  /\ ev.type \in Mmio =>
                  Arguments(w, ev)
                      = VarintEncode[ZigZagEncode(ev.addr - w.addr)] \o VarintEncode[ev.value]
           /\ ev.type = EvIrqEnter => Arguments(w, ev) = VarintEncode[ev.addr]
           /\ ev.type = EvIrqAt =>
                  Arguments(w, ev) = VarintEncode[ev.addr] \o VarintEncode[ev.value]
           /\ ev.type = EvStop => Arguments(w, ev) = <<>>
<1>1. /\ ev.type \in Mmio => ev.type # EvIrqEnter /\ ev.type # EvIrqAt /\ ev.type # EvStop
      /\ ev.type = EvIrqEnter => ev.type \notin Mmio /\ ev.type # EvIrqAt /\ ev.type # EvStop
      /\ ev.type = EvIrqAt => ev.type \notin Mmio /\ ev.type # EvIrqEnter /\ ev.type # EvStop
      /\ ev.type = EvStop => ev.type \notin Mmio /\ ev.type # EvIrqEnter /\ ev.type # EvIrqAt
  BY DEF Mmio, EvRead, EvWrite, EvIrqEnter, EvIrqAt, EvStop
<1>2. ASSUME ev.type \in Mmio
      PROVE  Arguments(w, ev)
                 = VarintEncode[ZigZagEncode(ev.addr - w.addr)] \o VarintEncode[ev.value]
  BY ONLY <1>1, <1>2 DEF Arguments
<1>3. ASSUME ev.type = EvIrqEnter PROVE Arguments(w, ev) = VarintEncode[ev.addr]
  BY ONLY <1>1, <1>3 DEF Arguments
<1>4. ASSUME ev.type = EvIrqAt
      PROVE  Arguments(w, ev) = VarintEncode[ev.addr] \o VarintEncode[ev.value]
  BY ONLY <1>1, <1>4 DEF Arguments
<1>5. ASSUME ev.type = EvStop PROVE Arguments(w, ev) = <<>>
  BY ONLY <1>1, <1>5 DEF Arguments
<1> QED
  BY <1>2, <1>3, <1>4, <1>5

\* The fields next() takes, by type.
LEMMA FieldsIs ==
    ASSUME NEW type
    PROVE  /\ Fields(type) \in 0 .. 3
           /\ type \in Mmio => Fields(type) = 3
           /\ type = EvIrqEnter => Fields(type) = 2
           /\ type = EvIrqAt /\ Version >= 3 => Fields(type) = 3
           /\ type = EvStop => Fields(type) = 1
           /\ Fields(type) # 0 => type \in 1 .. 5
<1>1. /\ type \in Mmio => type # EvIrqEnter /\ type # EvIrqAt /\ type # EvStop
      /\ type = EvIrqEnter => type \notin Mmio /\ type # EvIrqAt /\ type # EvStop
      /\ type = EvIrqAt => type \notin Mmio /\ type # EvIrqEnter /\ type # EvStop
      /\ type = EvStop => type \notin Mmio /\ type # EvIrqEnter /\ type # EvIrqAt
  BY DEF Mmio, EvRead, EvWrite, EvIrqEnter, EvIrqAt, EvStop
<1>2. ASSUME type \in Mmio PROVE Fields(type) = 3
  BY ONLY <1>1, <1>2 DEF Fields
<1>3. ASSUME type = EvIrqEnter PROVE Fields(type) = 2
  BY ONLY <1>1, <1>3 DEF Fields
<1>4. ASSUME type = EvIrqAt, Version >= 3 PROVE Fields(type) = 3
  BY ONLY <1>1, <1>4 DEF Fields
<1>5. ASSUME type = EvStop PROVE Fields(type) = 1
  BY ONLY <1>1, <1>5 DEF Fields
<1>6. ASSUME type \notin Mmio, type # EvIrqEnter, ~(type = EvIrqAt /\ Version >= 3), type # EvStop
      PROVE  Fields(type) = 0
  BY ONLY <1>6 DEF Fields
<1>7. type \in Mmio \/ type \in {EvIrqEnter, EvIrqAt, EvStop} => type \in 1 .. 5
  BY DEF Mmio, EvRead, EvWrite, EvIrqEnter, EvIrqAt, EvStop
<1> QED
  BY <1>2, <1>3, <1>4, <1>5, <1>6, <1>7

\* An event has one of the types.
LEMMA TypesAre ==
    \A type \in 1 .. 5 :
       type \in Mmio \/ type = EvIrqEnter \/ type = EvIrqAt \/ type = EvStop
BY DEF Mmio, EvRead, EvWrite, EvIrqEnter, EvIrqAt, EvStop

\* The arguments are bytes.
LEMMA ArgumentsType ==
    ASSUME NEW w, w.addr \in Addresses, NEW ev \in Events
    PROVE  Arguments(w, ev) \in Seq(Byte)
<1>1. \A v \in U64 : VarintEncode[v] \in Seq(Byte)
  BY EncodeType
<1>2. \A v, x \in U64 : VarintEncode[v] \o VarintEncode[x] \in Seq(Byte)
  <2> SUFFICES ASSUME NEW v \in U64, NEW x \in U64
               PROVE  VarintEncode[v] \o VarintEncode[x] \in Seq(Byte)
    OBVIOUS
  <2> QED
    BY ONLY <1>1, v \in U64, x \in U64, ConcatProperties
<1>3. ZigZagEncode(ev.addr - w.addr) \in U64
  BY EventIs, ZigZagRoundTrip, BlockCodecAssumption DEF Addresses
<1>4. ev.addr \in U64 /\ ev.value \in U64 /\ ev.type \in 1 .. 5
  BY EventIs
<1>5. <<>> \in Seq(Byte)
  OBVIOUS
<1> QED
  BY ONLY <1>1, <1>2, <1>3, <1>4, <1>5, ArgumentsIs, TypesAre

--------------------------------------------------------------------------------
(* Every variable keeps its type.                                            *)

\* What next() makes of the fields.
AddrOf(type, values) ==
    IF Len(values) < 2 THEN 0
    ELSE IF type \in Mmio THEN reader.addr + ZigZagDecode(values[2])
    ELSE values[2]
EventOf(type, values) ==
    [type |-> type, ts |-> (reader.ts + values[1]) % Word, addr |-> AddrOf(type, values),
     value |-> IF Len(values) = 3 THEN values[3] ELSE 0]

\* next() hands out the event of the fields, or stops.
LEMMA NextIs ==
    ASSUME NextOfPayload, NEW type, NEW p,
           type = Head(reader.payload), p = Parsed(Tail(reader.payload), Fields(type))
    PROVE  IF Fields(type) = 0 \/ ~p.ok \/ ~InRange(type, p.values)
           THEN reader' = [reader EXCEPT !.done = TRUE] /\ UNCHANGED got
           ELSE /\ reader' = [reader EXCEPT !.payload = p.rest,
                                  !.ts = EventOf(type, p.values).ts,
                                  !.addr = IF type \in Mmio THEN AddrOf(type, p.values)
                                           ELSE @]
                /\ got' = Append(got, EventOf(type, p.values))
BY Zenon DEF NextOfPayload, EventOf, AddrOf

\* Numbers are signed by ZigZag.
LEMMA ZigZagType == \A u \in U64 : ZigZagDecode(u) \in Int
BY DEF U64, ZigZagDecode

\* What passes the range checks fits the fields of an event.
LEMMA EventOfType ==
    ASSUME BlockTypes, NEW type, NEW values \in Seq(U64),
           Fields(type) # 0, Len(values) = Fields(type), InRange(type, values)
    PROVE  /\ EventOf(type, values)
                  \in [type : 1 .. 5, ts : U64, addr : Addresses, value : Addresses]
           /\ AddrOf(type, values) \in Addresses
<1>0. /\ Word \in Nat /\ Word > 0 /\ Space32 \in Nat \ {0}
      /\ reader.addr \in 0 .. Space32 - 1 /\ reader.ts \in 0 .. Word - 1
  <2>1. 2 * Space32 <= Word
    BY BlockCodecAssumption
  <2> QED
    BY <2>1, VarintAssumption, BlockCodecAssumption DEF BlockTypes, Addresses, U64
<1>1. Fields(type) \in 1 .. 3 /\ type \in 1 .. 5
  BY FieldsIs
<1>2. PICK k : k = Len(values) /\ k \in 1 .. 3
  BY <1>1
<1>3. \A i \in 1 .. k : values[i] \in U64 /\ values[i] \in Nat
  <2>1. \A i \in 1 .. k : values[i] \in U64
    BY <1>2
  <2>2. \A v \in U64 : v \in Nat
    BY DEF U64
  <2> QED
    BY ONLY <2>1, <2>2
<1>4. (reader.ts + values[1]) % Word \in U64
  <2>1. PICK t, v : t = reader.ts /\ t \in Nat /\ v = values[1] /\ v \in Nat
    BY <1>0, <1>2, <1>3
  <2>2. (t + v) % Word \in 0 .. Word - 1
    BY ONLY <1>0, <2>1, SMTT(60)
  <2> QED
    BY <2>1, <2>2 DEF U64
<1>5. AddrOf(type, values) \in Addresses
  <2>1. CASE k < 2
    BY <1>0, <1>2, <2>1 DEF AddrOf, Addresses
  <2>2. CASE k >= 2 /\ type \in Mmio
    <3>1. PICK delta : delta = ZigZagDecode(values[2]) /\ delta \in Int
      BY <1>2, <1>3, <2>2, ZigZagType
    <3>2. delta >= -reader.addr /\ delta <= Space32 - 1 - reader.addr
      BY <1>2, <2>2, <3>1 DEF InRange
    <3>3. AddrOf(type, values) = reader.addr + delta
      BY <1>2, <2>2, <3>1 DEF AddrOf
    <3> QED
      BY <1>0, <3>1, <3>2, <3>3 DEF Addresses
  <2>3. CASE k >= 2 /\ type \notin Mmio
    <3>1. values[2] < Space32 /\ values[2] \in Nat
      BY <1>2, <1>3, <2>3 DEF InRange
    <3>2. AddrOf(type, values) = values[2]
      BY <1>2, <2>3 DEF AddrOf
    <3> QED
      BY <1>0, <3>1, <3>2 DEF Addresses
  <2> QED
    BY <1>2, <2>1, <2>2, <2>3
<1>6. (IF Len(values) = 3 THEN values[3] ELSE 0) \in Addresses
  <2>1. CASE k = 3
    <3>1. values[3] < Space32 /\ values[3] \in Nat
      BY <1>2, <1>3, <2>1 DEF InRange
    <3> QED
      BY <1>0, <1>2, <2>1, <3>1 DEF Addresses
  <2>2. CASE k # 3
    BY <1>0, <1>2, <2>2 DEF Addresses
  <2> QED
    BY <2>1, <2>2
<1> QED
  BY <1>1, <1>4, <1>5, <1>6 DEF EventOf

--------------------------------------------------------------------------------
(* What the link does to a block.                                             *)

Covered == link.seq \o link.payload

Hit(k, byte, both) ==
    [Covered EXCEPT ![k] = byte, ![k + 1] = IF both THEN 2 * Radix - 1 - @ ELSE @]

\* What hits a block leaves bytes of the same length, cut into number and payload as
\* they were, and another checksum.
LEMMA HitIsSeen ==
    ASSUME BlockTypes, link # NoBlock, NEW k \in 1 .. Len(Covered) - 1, NEW byte \in Byte,
           NEW both \in BOOLEAN, NEW hit, hit = Hit(k, byte, both), hit # Covered
    PROVE  /\ Crc32(hit) # Crc32(Covered)
           /\ SubSeq(hit, 1, 4) \in Seq(Byte) /\ Len(SubSeq(hit, 1, 4)) = 4
           /\ SubSeq(hit, 5, Len(hit)) \in Seq(Byte)
           /\ SubSeq(hit, 1, 4) \o SubSeq(hit, 5, Len(hit)) = hit
<1>1. PICK c : c = Covered /\ c \in Seq(Byte) /\ Len(c) >= 4 /\ Len(c) \in Nat
  <2>1. link.seq \in Seq(Byte) /\ link.payload \in Seq(Byte) /\ Len(link.seq) = 4
    BY DEF BlockTypes
  <2>2. Covered \in Seq(Byte) /\ Len(Covered) = 4 + Len(link.payload)
    <3>1. PICK s, t : /\ s = link.seq /\ s \in Seq(Byte) /\ Len(s) = 4
                      /\ t = link.payload /\ t \in Seq(Byte)
      BY <2>1
    <3>2. s \o t \in Seq(Byte) /\ Len(s \o t) = Len(s) + Len(t)
      BY ONLY <3>1, ConcatProperties
    <3> QED
      BY ONLY <3>1, <3>2 DEF Covered
  <2> QED
    BY <2>1, <2>2
<1>2. \A b \in Byte : b \in 0 .. 255 /\ 2 * Radix - 1 - b \in Byte
  BY VarintAssumption, BlockCodecAssumption DEF Byte
<1>3. PICK n : n = Len(c) /\ n \in Nat /\ n >= 4 /\ k \in 1 .. n - 1
  BY <1>1
<1>4. c \in [1 .. n -> Byte]
  BY <1>1, <1>3
<1>5. hit = [c EXCEPT ![k] = byte, ![k + 1] = IF both THEN 2 * Radix - 1 - c[k + 1] ELSE c[k + 1]]
  <2>1. k + 1 # k
    BY <1>3
  <2> QED
    BY <1>1, <2>1 DEF Hit
<1>6. PICK x : x = (IF both THEN 2 * Radix - 1 - c[k + 1] ELSE c[k + 1]) /\ x \in Byte
  <2>1. k + 1 \in 1 .. n
    BY <1>3
  <2>2. c[k + 1] \in Byte
    BY <1>4, <2>1
  <2> QED
    BY <1>2, <2>2
<1>7. /\ hit \in [1 .. n -> Byte]
      /\ \A i \in 1 .. n : i # k /\ i # k + 1 => hit[i] = c[i]
  BY <1>3, <1>4, <1>5, <1>6
<1>8. hit \in Seq(Byte) /\ Len(hit) = n
  BY <1>3, <1>7
<1>9. c \in Seq(0 .. 255) /\ hit \in Seq(0 .. 255)
  <2>1. \A s \in Seq(Byte) : s \in Seq(0 .. 255)
    <3> SUFFICES ASSUME NEW s \in Seq(Byte) PROVE s \in Seq(0 .. 255)
      OBVIOUS
    <3>1. Byte \subseteq 0 .. 255
      BY ONLY <1>2
    <3> QED
      BY ONLY <3>1, s \in Seq(Byte), SeqMonotonic, ZenonT(60)
  <2> QED
    BY <1>1, <1>8, <2>1
<1>10. Crc32(hit) # Crc32(c)
  <2>1. /\ Len(hit) = Len(c) /\ k \in 1 .. Len(c) - 1 /\ hit # c
        /\ \A i \in 1 .. Len(c) : i # k /\ i # k + 1 => hit[i] = c[i]
    BY <1>1, <1>3, <1>7, <1>8
  <2> QED
    BY ONLY <1>9, <2>1, BurstIsSeen
<1>11. PICK s, t : s = SubSeq(hit, 1, 4) /\ t = SubSeq(hit, 5, Len(hit))
  OBVIOUS
<1>12. /\ s \in Seq(Byte) /\ Len(s) = 4 /\ \A i \in 1 .. 4 : s[i] = hit[i]
       /\ t \in Seq(Byte) /\ Len(t) = n - 4 /\ \A i \in 1 .. n - 4 : t[i] = hit[i + 4]
  <2>1. /\ \A i \in 1 .. 4 : hit[i] \in Byte
        /\ \A i \in 5 .. n : hit[i] \in Byte
    BY <1>3, <1>7
  <2>2. s \in Seq(Byte) /\ Len(s) = 4 /\ \A i \in 1 .. 4 : s[i] = hit[1 + i - 1]
    BY ONLY <1>11, <2>1, SubSeqProperties
  <2>3. /\ t \in Seq(Byte) /\ Len(t) = (IF 5 <= n THEN n - 5 + 1 ELSE 0)
        /\ \A i \in 1 .. n - 5 + 1 : t[i] = hit[5 + i - 1]
    BY ONLY <1>3, <1>8, <1>11, <2>1, SubSeqProperties
  <2>4. Len(t) = n - 4
    BY ONLY <1>3, <2>3
  <2>5. ASSUME NEW i \in 1 .. n - 4 PROVE t[i] = hit[i + 4]
    <3>1. 5 + i - 1 = i + 4 /\ i \in 1 .. n - 5 + 1
      BY ONLY <1>3, i \in 1 .. n - 4
    <3> QED
      BY <2>3, <3>1
  <2>6. \A i \in 1 .. 4 : 1 + i - 1 = i
    OBVIOUS
  <2> QED
    BY ONLY <2>2, <2>3, <2>4, <2>5, <2>6
<1>13. s \o t = hit
  <2>1. /\ s \o t \in Seq(Byte) /\ Len(s \o t) = 4 + (n - 4)
        /\ \A i \in 1 .. 4 + (n - 4) : (s \o t)[i] = IF i <= 4 THEN s[i] ELSE t[i - 4]
    <3>1. /\ s \o t \in Seq(Byte) /\ Len(s \o t) = Len(s) + Len(t)
          /\ \A i \in 1 .. Len(s) + Len(t) :
                (s \o t)[i] = IF i <= Len(s) THEN s[i] ELSE t[i - Len(s)]
      <4>1. s \in Seq(Byte) /\ t \in Seq(Byte)
        BY ONLY <1>12
      <4> QED
        BY ONLY <4>1, ConcatProperties
    <3> QED
      BY ONLY <1>12, <3>1, Zenon
  <2>2. PICK u : u = s \o t
    OBVIOUS
  <2>3. u \in Seq(Byte) /\ Len(u) = n
    BY ONLY <1>3, <2>1, <2>2
  <2>4. ASSUME NEW i \in 1 .. n PROVE u[i] = hit[i]
    <3>1. i \in 1 .. 4 + (n - 4)
      BY ONLY <1>3, i \in 1 .. n
    <3>2. CASE i <= 4
      BY <1>12, <2>1, <2>2, <3>1, <3>2, SMTT(60)
    <3>3. CASE ~(i <= 4)
      <4>1. i - 4 \in 1 .. n - 4 /\ i - 4 + 4 = i
        BY ONLY <1>3, <3>3, i \in 1 .. n
      <4> QED
        BY <1>12, <2>1, <2>2, <3>1, <3>3, <4>1
    <3> QED
      BY <3>2, <3>3
  <2>5. u = hit
    BY ONLY <1>8, <2>3, <2>4, SeqEqual
  <2> QED
    BY ONLY <2>2, <2>5
<1> QED
  BY ONLY <1>1, <1>10, <1>11, <1>12, <1>13

\* A block's checksum is right until the link has damaged it, and then wrong.
ChecksumTells == link # NoBlock => (Crc32(Covered) = link.crc <=> condition # "damaged")

BlockInv == BlockTypes /\ ChecksumTells

\* A block has a number, and so is not NoBlock.
LEMMA BlockIs ==
    ASSUME NEW s, NEW p, NEW c, Len(s) = 4
    PROVE  [seq |-> s, payload |-> p, crc |-> c] # NoBlock
<1> SUFFICES ASSUME [seq |-> s, payload |-> p, crc |-> c] = NoBlock PROVE FALSE
  OBVIOUS
<1>1. s = <<>>
  BY DEF NoBlock
<1> QED
  BY <1>1

\* No block is on its way at the start.
LEMMA BlockInvInit == BlockInit => BlockInv
<1> SUFFICES ASSUME BlockInit PROVE BlockInv
  OBVIOUS
<1>1. 0 \in U64 /\ 0 \in Addresses /\ 0 \in Nat
  <2>1. Scale[MaxBytes - 1] \in Nat
    BY VarintAssumption, ScaleIs
  <2> QED
    BY <2>1, VarintAssumption, BlockCodecAssumption DEF U64, Addresses
<1>2. writer \in [ts : U64, addr : Addresses, seq : Nat]
  BY <1>1 DEF BlockInit
<1>3. reader \in [ts : U64, addr : Addresses, done : BOOLEAN, payload : Seq(Byte), seq : Nat]
  BY <1>1 DEF BlockInit
<1>4. link \in [seq : Seq(Byte), payload : Seq(Byte), crc : SUBSET Int] /\ link = NoBlock
  BY DEF BlockInit, NoBlock
<1>5. /\ staged \in Seq(Byte) /\ condition \in {"sent", "damaged", "forged"}
      /\ sent \in Seq(Events)
      /\ got \in Seq([type : 1 .. 5, ts : U64, addr : Addresses, value : Addresses])
  BY DEF BlockInit
<1> QED
  BY ONLY <1>2, <1>3, <1>4, <1>5 DEF BlockInv, BlockTypes, ChecksumTells

\* Staging an event leaves the block on its way alone.
LEMMA BlockInvStage == BlockInv /\ StageEvent => BlockInv'
<1> SUFFICES ASSUME BlockInv, StageEvent PROVE BlockInv'
  BY SMTT(60)
<1>1. PICK ev \in Events :
         /\ ev.ts >= writer.ts
         /\ staged' = staged \o <<ev.type>> \o VarintEncode[ev.ts - writer.ts]
                             \o Arguments(writer, ev)
         /\ writer' = [writer EXCEPT !.ts = ev.ts,
                           !.addr = IF ev.type \in Mmio THEN ev.addr ELSE @]
         /\ sent' = Append(sent, ev)
  BY DEF StageEvent
<1>2. UNCHANGED <<link, condition, reader, got>>
  BY DEF StageEvent
<1>3. /\ writer \in [ts : U64, addr : Addresses, seq : Nat] /\ staged \in Seq(Byte)
      /\ sent \in Seq(Events)
  BY DEF BlockInv, BlockTypes
<1>4. ev.type \in Byte /\ ev.ts \in U64 /\ ev.addr \in Addresses
  BY EventIs
<1>5. staged' \in Seq(Byte)
  <2>1. ev.ts - writer.ts \in U64
    <3>1. PICK t, u : t = writer.ts /\ u = ev.ts /\ t \in U64 /\ u \in U64 /\ u >= t
      BY <1>1, <1>3, <1>4
    <3>2. u - t \in U64
      BY ONLY <3>1, VarintAssumption DEF U64
    <3> QED
      BY ONLY <3>1, <3>2
  <2>2. PICK t : t = VarintEncode[ev.ts - writer.ts] /\ t \in Seq(Byte)
    BY <2>1, EncodeType
  <2>3. writer.addr \in Addresses
    BY <1>3
  <2>4. PICK a : a = Arguments(writer, ev) /\ a \in Seq(Byte)
    BY <2>3, ArgumentsType
  <2>5. <<ev.type>> \in Seq(Byte)
    BY <1>4
  <2>6. staged \o <<ev.type>> \o t \o a \in Seq(Byte)
    BY ONLY <1>3, <2>2, <2>4, <2>5, ConcatProperties
  <2> QED
    BY <1>1, <2>2, <2>4, <2>6
<1>6. writer' \in [ts : U64, addr : Addresses, seq : Nat]
  BY <1>1, <1>3, <1>4
<1>7. sent' \in Seq(Events)
  BY <1>1, <1>3
<1> QED
  BY <1>2, <1>5, <1>6, <1>7 DEF BlockInv, BlockTypes, ChecksumTells, Covered

\* A block is sent under its own checksum.
LEMMA BlockInvSend == BlockInv /\ SendBlock => BlockInv'
<1> SUFFICES ASSUME BlockInv, SendBlock PROVE BlockInv'
  OBVIOUS
<1>1. PICK s : s = Le32(writer.seq) /\ s \in Seq(Byte) /\ Len(s) = 4
  BY Le32Type DEF BlockInv, BlockTypes
<1>2. staged \in Seq(Byte)
  BY DEF BlockInv, BlockTypes
<1>3. PICK c : c = Crc32(s \o staged) /\ c \subseteq 0 .. 31
  <2>1. s \o staged \in Seq(Byte)
    BY ONLY <1>1, <1>2, ConcatProperties
  <2>2. Crc32(s \o staged) \subseteq 0 .. 31
    BY ONLY <2>1, Crc32Type
  <2> QED
    BY <2>2
<1>4. link' = [seq |-> s, payload |-> staged, crc |-> c]
  BY <1>1, <1>3 DEF SendBlock
<1>5. link' \in [seq : Seq(Byte), payload : Seq(Byte), crc : SUBSET Int]
  <2>1. c \in SUBSET Int
    BY ONLY <1>3
  <2> QED
    BY ONLY <1>1, <1>2, <1>4, <2>1
<1>6. Len(link'.seq) = 4 /\ ChecksumTells'
  <2>1. link'.seq = s /\ link'.payload = staged /\ link'.crc = c
    BY <1>4
  <2>2. condition' # "damaged"
    BY DEF SendBlock
  <2> QED
    BY <1>1, <1>3, <2>1, <2>2 DEF ChecksumTells, Covered
<1>7. writer' \in [ts : U64, addr : Addresses, seq : Nat]
  <2>1. writer \in [ts : U64, addr : Addresses, seq : Nat]
    BY DEF BlockInv, BlockTypes
  <2>2. writer' = [writer EXCEPT !.seq = @ + 1]
    BY DEF SendBlock
  <2> QED
    BY ONLY <2>1, <2>2
<1>8. staged' \in Seq(Byte) /\ condition' = "sent" /\ UNCHANGED <<reader, sent, got>>
  BY DEF SendBlock
<1> QED
  BY <1>5, <1>6, <1>7, <1>8 DEF BlockInv, BlockTypes

\* A damaged block is a block still, and its checksum is wrong.
LEMMA DamageIs ==
    ASSUME BlockInv, DamageBlock
    PROVE  /\ link' \in [seq : Seq(Byte), payload : Seq(Byte), crc : SUBSET Int]
           /\ Len(link'.seq) = 4 /\ Crc32(Covered') # link'.crc
<1>1. /\ link \in [seq : Seq(Byte), payload : Seq(Byte), crc : SUBSET Int]
      /\ link # NoBlock /\ condition = "sent" /\ Len(link.seq) = 4
      /\ Crc32(Covered) = link.crc /\ BlockTypes
  BY DEF BlockInv, BlockTypes, ChecksumTells, DamageBlock
<1>2. ASSUME NEW k \in 1 .. Len(Covered) - 1, NEW byte \in Byte, NEW both \in BOOLEAN,
             Hit(k, byte, both) # Covered,
             link' = [link EXCEPT !.seq = SubSeq(Hit(k, byte, both), 1, 4),
                                  !.payload = SubSeq(Hit(k, byte, both), 5,
                                                     Len(Hit(k, byte, both)))]
      PROVE  /\ link' \in [seq : Seq(Byte), payload : Seq(Byte), crc : SUBSET Int]
             /\ Len(link'.seq) = 4 /\ Crc32(Covered') # link'.crc
  <2>1. PICK hit : hit = Hit(k, byte, both)
    OBVIOUS
  <2>2. /\ Crc32(hit) # Crc32(Covered)
        /\ SubSeq(hit, 1, 4) \in Seq(Byte) /\ Len(SubSeq(hit, 1, 4)) = 4
        /\ SubSeq(hit, 5, Len(hit)) \in Seq(Byte)
        /\ SubSeq(hit, 1, 4) \o SubSeq(hit, 5, Len(hit)) = hit
    BY ONLY <1>1, <1>2, <2>1, HitIsSeen, SMTT(60)
  <2>3. PICK s, t : s = SubSeq(hit, 1, 4) /\ t = SubSeq(hit, 5, Len(hit))
    OBVIOUS
  <2>4. link' = [link EXCEPT !.seq = s, !.payload = t]
    BY ONLY <1>2, <2>1, <2>3
  <2>5. /\ link' \in [seq : Seq(Byte), payload : Seq(Byte), crc : SUBSET Int]
        /\ link'.seq = s /\ link'.payload = t /\ link'.crc = link.crc
    BY ONLY <1>1, <2>2, <2>3, <2>4
  <2> QED
    BY ONLY <1>1, <2>2, <2>3, <2>5, Zenon DEF Covered
<1>3. ASSUME NEW b \in 0 .. 31, link' = [link EXCEPT !.crc = SymDiff(@, {b})]
      PROVE  /\ link' \in [seq : Seq(Byte), payload : Seq(Byte), crc : SUBSET Int]
             /\ Len(link'.seq) = 4 /\ Crc32(Covered') # link'.crc
  <2>1. PICK c : c = SymDiff(link.crc, {b}) /\ c \in SUBSET Int /\ c # link.crc
    <3>1. link.crc \subseteq Int /\ b \in Int
      BY <1>1
    <3>2. SymDiff(link.crc, {b}) \subseteq Int
      BY <3>1 DEF SymDiff
    <3>3. b \in SymDiff(link.crc, {b}) <=> b \notin link.crc
      BY SymDiffIs
    <3> QED
      BY <3>2, <3>3
  <2>2. link' = [link EXCEPT !.crc = c]
    BY <1>3, <2>1
  <2>3. /\ link' \in [seq : Seq(Byte), payload : Seq(Byte), crc : SUBSET Int]
        /\ link'.seq = link.seq /\ link'.payload = link.payload /\ link'.crc = c
    BY ONLY <1>1, <2>1, <2>2, SMTT(60)
  <2> QED
    BY ONLY <1>1, <2>1, <2>3, Zenon DEF Covered
<1> QED
  <2>1. \/ \E k \in 1 .. Len(Covered) - 1, byte \in Byte, both \in BOOLEAN :
              /\ Hit(k, byte, both) # Covered
              /\ link' = [link EXCEPT !.seq = SubSeq(Hit(k, byte, both), 1, 4),
                                      !.payload = SubSeq(Hit(k, byte, both), 5,
                                                         Len(Hit(k, byte, both)))]
        \/ \E b \in 0 .. 31 : link' = [link EXCEPT !.crc = SymDiff(@, {b})]
    BY Zenon DEF DamageBlock, Hit, Covered
  <2> QED
    BY ONLY <1>2, <1>3, <2>1, ZenonT(60)

\* A damaged block has a wrong checksum.
LEMMA BlockInvDamage == BlockInv /\ DamageBlock => BlockInv'
<1> SUFFICES ASSUME BlockInv, DamageBlock PROVE BlockInv'
  OBVIOUS
<1>1. condition' = "damaged" /\ UNCHANGED <<writer, staged, reader, sent, got>>
  BY ZenonT(60) DEF DamageBlock
<1> QED
  BY <1>1, DamageIs DEF BlockInv, BlockTypes, ChecksumTells

\* A forgery has the checksum of its bytes.
LEMMA BlockInvForge == BlockInv /\ ForgeBlock => BlockInv'
<1> SUFFICES ASSUME BlockInv, ForgeBlock PROVE BlockInv'
  OBVIOUS
<1>1. PICK s : s = Le32(reader.seq) /\ s \in Seq(Byte) /\ Len(s) = 4
  BY Le32Type DEF BlockInv, BlockTypes
<1>2. PICK payload \in Forgeries :
         link' = [seq |-> Le32(reader.seq), payload |-> payload,
                  crc |-> Crc32(Le32(reader.seq) \o payload)]
  BY DEF ForgeBlock
<1>3. payload \in Seq(Byte)
  BY EventsAssumption
<1>4. PICK c : c = Crc32(s \o payload) /\ c \subseteq 0 .. 31
  <2>1. s \o payload \in Seq(Byte)
    BY ONLY <1>1, <1>3, ConcatProperties
  <2>2. Crc32(s \o payload) \subseteq 0 .. 31
    BY ONLY <2>1, Crc32Type
  <2> QED
    BY <2>2
<1>5. link' = [seq |-> s, payload |-> payload, crc |-> c]
  BY <1>1, <1>2, <1>4
<1>6. link' \in [seq : Seq(Byte), payload : Seq(Byte), crc : SUBSET Int]
  <2>1. c \in SUBSET Int
    BY ONLY <1>4
  <2> QED
    BY ONLY <1>1, <1>3, <1>5, <2>1
<1>7. Len(link'.seq) = 4 /\ ChecksumTells'
  <2>1. link'.seq = s /\ link'.payload = payload /\ link'.crc = c
    BY <1>5
  <2>2. condition' # "damaged"
    BY DEF ForgeBlock
  <2> QED
    BY <1>1, <1>4, <2>1, <2>2 DEF ChecksumTells, Covered
<1>8. condition' = "forged" /\ UNCHANGED <<writer, staged, reader, sent, got>>
  BY DEF ForgeBlock
<1> QED
  BY <1>6, <1>7, <1>8 DEF BlockInv, BlockTypes

\* A block that is taken or dropped is no longer on its way.
LEMMA BlockInvLoad == BlockInv /\ LoadBlock => BlockInv'
<1> SUFFICES ASSUME BlockInv, LoadBlock PROVE BlockInv'
  OBVIOUS
<1>1. /\ link \in [seq : Seq(Byte), payload : Seq(Byte), crc : SUBSET Int]
      /\ reader \in [ts : U64, addr : Addresses, done : BOOLEAN, payload : Seq(Byte), seq : Nat]
  BY DEF BlockInv, BlockTypes
<1>2. \/ reader' = [reader EXCEPT !.done = TRUE]
      \/ reader' = [reader EXCEPT !.seq = @ + 1, !.payload = link.payload]
  BY DEF LoadBlock
<1>3. reader' \in [ts : U64, addr : Addresses, done : BOOLEAN, payload : Seq(Byte), seq : Nat]
  <2>1. CASE reader' = [reader EXCEPT !.done = TRUE]
    BY ONLY <1>1, <2>1
  <2>2. CASE reader' = [reader EXCEPT !.seq = @ + 1, !.payload = link.payload]
    <3>1. PICK t : t = link.payload /\ t \in Seq(Byte)
      BY <1>1
    <3>2. PICK n : n = reader.seq + 1 /\ n \in Nat
      BY <1>1
    <3>3. reader' = [reader EXCEPT !.seq = n, !.payload = t]
      BY ONLY <2>2, <3>1, <3>2
    <3> QED
      BY ONLY <1>1, <3>1, <3>2, <3>3
  <2> QED
    BY <1>2, <2>1, <2>2
<1>4. link' = NoBlock /\ UNCHANGED <<writer, staged, condition, sent, got>>
  BY DEF LoadBlock
<1>5. NoBlock \in [seq : Seq(Byte), payload : Seq(Byte), crc : SUBSET Int]
  BY DEF NoBlock
<1> QED
  BY <1>3, <1>4, <1>5 DEF BlockInv, BlockTypes, ChecksumTells

\* An event that is handed out is one of the host's types.
LEMMA BlockInvNextOf == BlockInv /\ NextOfPayload => BlockInv'
<1> SUFFICES ASSUME BlockInv, NextOfPayload PROVE BlockInv'
  OBVIOUS
<1>1. /\ reader \in [ts : U64, addr : Addresses, done : BOOLEAN, payload : Seq(Byte), seq : Nat]
      /\ got \in Seq([type : 1 .. 5, ts : U64, addr : Addresses, value : Addresses])
      /\ BlockTypes
  BY DEF BlockInv, BlockTypes
<1>2. PICK type, bytes : /\ type = Head(reader.payload)
                         /\ bytes = Tail(reader.payload) /\ bytes \in Seq(Byte)
  <2>1. reader.payload \in Seq(Byte) /\ reader.payload # <<>>
    BY <1>1 DEF NextOfPayload
  <2>2. Tail(reader.payload) \in Seq(Byte)
    BY ONLY <2>1, HeadTailProperties
  <2> QED
    BY ONLY <2>2, Zenon
<1>3. PICK k : k = Fields(type) /\ k \in 0 .. 3
  BY FieldsIs
<1>4. PICK p : /\ p = Parsed(bytes, k) /\ p \in Parses
               /\ p.ok => Len(p.values) = k
  BY <1>2, <1>3, ParsedType
<1>5. IF k = 0 \/ ~p.ok \/ ~InRange(type, p.values)
      THEN reader' = [reader EXCEPT !.done = TRUE] /\ UNCHANGED got
      ELSE /\ reader' = [reader EXCEPT !.payload = p.rest,
                             !.ts = EventOf(type, p.values).ts,
                             !.addr = IF type \in Mmio THEN AddrOf(type, p.values) ELSE @]
           /\ got' = Append(got, EventOf(type, p.values))
  <2>1. p = Parsed(Tail(reader.payload), Fields(type))
    BY ONLY <1>2, <1>3, <1>4
  <2> QED
    BY ONLY NextOfPayload, <1>2, <1>3, <2>1, NextIs, ZenonT(60)
<1>6. UNCHANGED <<writer, staged, link, condition, sent>>
  BY DEF NextOfPayload
<1>7. /\ reader' \in [ts : U64, addr : Addresses, done : BOOLEAN, payload : Seq(Byte), seq : Nat]
      /\ got' \in Seq([type : 1 .. 5, ts : U64, addr : Addresses, value : Addresses])
  <2>1. CASE k = 0 \/ ~p.ok \/ ~InRange(type, p.values)
    BY <1>1, <1>5, <2>1
  <2>2. CASE ~(k = 0 \/ ~p.ok \/ ~InRange(type, p.values))
    <3>1. p.values \in Seq(U64) /\ p.rest \in Seq(Byte)
      BY <1>4 DEF Parses
    <3>2. PICK ev : /\ ev = EventOf(type, p.values)
                    /\ ev \in [type : 1 .. 5, ts : U64, addr : Addresses, value : Addresses]
                    /\ AddrOf(type, p.values) \in Addresses
      BY ONLY <1>1, <1>3, <1>4, <2>2, <3>1, EventOfType
    <3>3. got' = Append(got, ev)
      BY <1>5, <2>2, <3>2
    <3>4. reader' = [reader EXCEPT !.payload = p.rest, !.ts = ev.ts,
                         !.addr = IF type \in Mmio THEN AddrOf(type, p.values) ELSE @]
      BY <1>5, <2>2, <3>2
    <3>5. reader' \in [ts : U64, addr : Addresses, done : BOOLEAN, payload : Seq(Byte), seq : Nat]
      BY ONLY <1>1, <3>1, <3>2, <3>4
    <3> QED
      BY ONLY <1>1, <3>2, <3>3, <3>5, AppendProperties
  <2> QED
    BY <2>1, <2>2
<1> QED
  BY <1>6, <1>7 DEF BlockInv, BlockTypes, ChecksumTells, Covered

\* The types and the checksum hold throughout.
LEMMA BlockInvNext == BlockInv /\ [BlockNext]_vars => BlockInv'
<1>1. BlockInv /\ UNCHANGED vars => BlockInv'
  BY DEF BlockInv, BlockTypes, ChecksumTells, Covered, vars
<1> QED
  BY <1>1, BlockInvStage, BlockInvSend, BlockInvDamage, BlockInvForge, BlockInvLoad,
     BlockInvNextOf DEF BlockNext

\* The fields of writer and reader stay in their integer types, whatever bytes arrive
\* (next() checks what it decodes before it narrows it), and the checksum of the block
\* on its way is right exactly until the link has damaged it.
THEOREM BlockTypeCorrect == BlockSpec => []BlockInv
BY BlockInvInit, BlockInvNext, PTL DEF BlockSpec

Accepted ==
    reader'.seq # reader.seq =>
       condition # "damaged" /\ IsStandard(link.seq \o link.payload)

\* A block that load_next_block() takes was not damaged.
LEMMA AcceptedStep == BlockInv /\ [BlockNext]_vars => Accepted
<1> SUFFICES ASSUME BlockInv, [BlockNext]_vars, reader'.seq # reader.seq
             PROVE  condition # "damaged" /\ IsStandard(link.seq \o link.payload)
  BY DEF Accepted
<1>1. reader \in [ts : U64, addr : Addresses, done : BOOLEAN, payload : Seq(Byte), seq : Nat]
  BY DEF BlockInv, BlockTypes
<1>2. ~(reader' = reader)
  OBVIOUS
<1>3. ~NextOfPayload
  <2> SUFFICES ASSUME NextOfPayload PROVE reader'.seq = reader.seq
    OBVIOUS
  <2>1. PICK type, p : /\ type = Head(reader.payload)
                       /\ p = Parsed(Tail(reader.payload), Fields(type))
    OBVIOUS
  <2>2. \/ reader' = [reader EXCEPT !.done = TRUE]
        \/ reader' = [reader EXCEPT !.payload = p.rest,
                             !.ts = EventOf(type, p.values).ts,
                             !.addr = IF type \in Mmio THEN AddrOf(type, p.values) ELSE @]
    BY <2>1, NextIs, ZenonT(60)
  <2> QED
    BY <1>1, <2>2
<1>4. LoadBlock
  BY <1>2, <1>3, ZenonT(60) DEF BlockNext, StageEvent, SendBlock, DamageBlock, ForgeBlock, vars
<1>5. Crc32(link.seq \o link.payload) = link.crc /\ link # NoBlock
  BY <1>1, <1>4 DEF LoadBlock
<1>6. condition # "damaged"
  BY <1>5 DEF BlockInv, ChecksumTells, Covered
<1>7. link.seq \o link.payload \in Seq(Byte)
  <2>1. PICK s, t : /\ s = link.seq /\ s \in Seq(Byte)
                    /\ t = link.payload /\ t \in Seq(Byte)
    BY DEF BlockInv, BlockTypes
  <2> QED
    BY <2>1
<1> QED
  BY <1>6, <1>7, EveryRegisterIsStandard

\* load_next_block() takes no block the link has hit, in a bit of the checksum or in a
\* byte with or without its neighbour, and what it takes has passed the checksum the
\* standard defines, bit by bit (AcceptedIsIntact).
THEOREM AcceptedCorrect == BlockSpec => AcceptedIsIntact
<1>1. BlockInv /\ [BlockNext]_vars
         => [reader'.seq # reader.seq =>
                condition # "damaged" /\ IsStandard(link.seq \o link.payload)]_vars
  BY AcceptedStep DEF Accepted
<1> QED
  BY <1>1, BlockTypeCorrect, PTL DEF BlockSpec, AcceptedIsIntact

--------------------------------------------------------------------------------
(* Fields one behind the other.                                               *)

\* Words put one behind the other.
LEMMA OneBehind ==
    ASSUME NEW V, NEW s \in Seq(V), NEW t \in Seq(V), NEW v \in V, Len(t) = Len(s) + 1,
           \A i \in 1 .. Len(s) : t[i] = s[i], t[Len(s) + 1] = v
    PROVE  Append(s, v) = t
<1>1. PICK u : u = Append(s, v)
  OBVIOUS
<1>2. /\ u \in Seq(V) /\ Len(u) = Len(t) /\ u[Len(s) + 1] = v
      /\ \A i \in 1 .. Len(s) : u[i] = s[i]
  BY <1>1, AppendProperties
<1>3. \A i \in 1 .. Len(t) : i \in 1 .. Len(s) \/ i = Len(s) + 1
  OBVIOUS
<1>4. \A i \in 1 .. Len(u) : u[i] = t[i]
  BY <1>2, <1>3
<1> QED
  BY ONLY <1>1, <1>2, <1>4, t \in Seq(V), SeqEqual

\* Two words in a row.
LEMMA Pairs ==
    ASSUME NEW V, NEW a \in V, NEW b \in V
    PROVE  <<a, b>> \in Seq(V) /\ Append(<<a>>, b) = <<a, b>>
<1>1. PICK s : s = <<a>> /\ s \in Seq(V) /\ Len(s) = 1 /\ s[1] = a
  <2>1. <<a>> \in Seq(V) /\ Len(<<a>>) = 1 /\ <<a>>[1] = a
    OBVIOUS
  <2> QED
    BY ONLY <2>1, Zenon
<1>2. PICK t : t = <<a, b>> /\ t \in Seq(V) /\ Len(t) = 2 /\ t[1] = a /\ t[2] = b
  <2>1. <<a, b>> \in Seq(V) /\ Len(<<a, b>>) = 2 /\ <<a, b>>[1] = a /\ <<a, b>>[2] = b
    OBVIOUS
  <2> QED
    BY ONLY <2>1, Zenon
<1>3. Append(s, b) = t
  <2>1. /\ Len(t) = Len(s) + 1 /\ t[Len(s) + 1] = b
        /\ \A i \in 1 .. Len(s) : t[i] = s[i]
    BY ONLY <1>1, <1>2
  <2>2. s \in Seq(V) /\ t \in Seq(V)
    BY ONLY <1>1, <1>2
  <2> QED
    BY ONLY <2>1, <2>2, b \in V, OneBehind
<1> QED
  BY ONLY <1>1, <1>2, <1>3, Zenon

\* And three.
LEMMA Triples ==
    ASSUME NEW V, NEW a \in V, NEW b \in V, NEW c \in V
    PROVE  Append(<<a, b>>, c) = <<a, b, c>>
<1>1. PICK s : s = <<a, b>> /\ s \in Seq(V) /\ Len(s) = 2 /\ s[1] = a /\ s[2] = b
  <2>1. <<a, b>> \in Seq(V) /\ Len(<<a, b>>) = 2 /\ <<a, b>>[1] = a /\ <<a, b>>[2] = b
    OBVIOUS
  <2> QED
    BY ONLY <2>1, Zenon
<1>2. PICK t : /\ t = <<a, b, c>> /\ t \in Seq(V) /\ Len(t) = 3
               /\ t[1] = a /\ t[2] = b /\ t[3] = c
  <2>1. /\ <<a, b, c>> \in Seq(V) /\ Len(<<a, b, c>>) = 3
        /\ <<a, b, c>>[1] = a /\ <<a, b, c>>[2] = b /\ <<a, b, c>>[3] = c
    OBVIOUS
  <2> QED
    BY ONLY <2>1, Zenon
<1>3. Append(s, c) = t
  <2>1. /\ Len(t) = Len(s) + 1 /\ t[Len(s) + 1] = c
        /\ \A i \in 1 .. Len(s) : t[i] = s[i]
    BY ONLY <1>1, <1>2
  <2>2. s \in Seq(V) /\ t \in Seq(V)
    BY ONLY <1>1, <1>2
  <2> QED
    BY ONLY <2>1, <2>2, c \in V, OneBehind
<1> QED
  BY ONLY <1>1, <1>2, <1>3, Zenon

\* The first field is parsed, and what lies behind it is left.
LEMMA OneField ==
    ASSUME NEW a \in U64, NEW r \in Seq(Byte)
    PROVE  Parsed(VarintEncode[a] \o r, 1) = [ok |-> TRUE, rest |-> r, values |-> <<a>>]
<1>1. PICK bytes : bytes = VarintEncode[a] \o r
  OBVIOUS
<1>2. Parsed(bytes, 0 + 1) = TakeVarint(Parsed(bytes, 0)) /\ Parsed(bytes, 0) = ParseStart(bytes)
  <2>1. 0 \in 0 .. 2
    OBVIOUS
  <2> QED
    BY ONLY <2>1, ParsedIs, Zenon
<1>3. Append(<<>>, a) = <<a>> /\ <<>> \in Seq(U64) /\ 0 + 1 = 1
  OBVIOUS
<1>4. TakeVarint(ParseStart(bytes)) = [ok |-> TRUE, rest |-> r, values |-> Append(<<>>, a)]
  BY ONLY <1>1, <1>3, a \in U64, r \in Seq(Byte), TakeEncoded, Zenon DEF ParseStart
<1> QED
  BY ONLY <1>1, <1>2, <1>3, <1>4

\* The second behind the first.
LEMMA TwoFields ==
    ASSUME NEW a \in U64, NEW b \in U64, NEW r \in Seq(Byte)
    PROVE  Parsed(VarintEncode[a] \o (VarintEncode[b] \o r), 2)
               = [ok |-> TRUE, rest |-> r, values |-> <<a, b>>]
<1>1. PICK r1 : r1 = VarintEncode[b] \o r /\ r1 \in Seq(Byte)
  <2>1. VarintEncode[b] \in Seq(Byte)
    BY EncodeType
  <2>2. VarintEncode[b] \o r \in Seq(Byte)
    BY ONLY <2>1, r \in Seq(Byte), ConcatProperties
  <2> QED
    BY ONLY <2>2, Zenon
<1>2. PICK bytes : bytes = VarintEncode[a] \o r1
  OBVIOUS
<1>3. Parsed(bytes, 1) = [ok |-> TRUE, rest |-> r1, values |-> <<a>>]
  BY ONLY <1>1, <1>2, a \in U64, OneField, Zenon
<1>4. Parsed(bytes, 1 + 1) = TakeVarint(Parsed(bytes, 1))
  <2>1. 1 \in 0 .. 2
    OBVIOUS
  <2> QED
    BY ONLY <2>1, ParsedIs, Zenon
<1>5. Append(<<a>>, b) = <<a, b>> /\ <<a>> \in Seq(U64) /\ 1 + 1 = 2
  <2>1. Append(<<a>>, b) = <<a, b>>
    BY ONLY a \in U64, b \in U64, Pairs, Zenon
  <2> QED
    BY <2>1
<1>6. TakeVarint(Parsed(bytes, 1)) = [ok |-> TRUE, rest |-> r, values |-> Append(<<a>>, b)]
  BY ONLY <1>1, <1>3, <1>5, b \in U64, r \in Seq(Byte), TakeEncoded, Zenon
<1> QED
  BY ONLY <1>1, <1>2, <1>4, <1>5, <1>6

\* And the third.
LEMMA ThreeFields ==
    ASSUME NEW a \in U64, NEW b \in U64, NEW c \in U64, NEW r \in Seq(Byte)
    PROVE  Parsed(VarintEncode[a] \o (VarintEncode[b] \o (VarintEncode[c] \o r)), 3)
               = [ok |-> TRUE, rest |-> r, values |-> <<a, b, c>>]
<1>1. PICK r2 : r2 = VarintEncode[c] \o r /\ r2 \in Seq(Byte)
  <2>1. VarintEncode[c] \in Seq(Byte)
    BY EncodeType
  <2>2. VarintEncode[c] \o r \in Seq(Byte)
    BY ONLY <2>1, r \in Seq(Byte), ConcatProperties
  <2> QED
    BY ONLY <2>2, Zenon
<1>2. PICK bytes : bytes = VarintEncode[a] \o (VarintEncode[b] \o r2)
  OBVIOUS
<1>3. Parsed(bytes, 2) = [ok |-> TRUE, rest |-> r2, values |-> <<a, b>>]
  BY ONLY <1>1, <1>2, a \in U64, b \in U64, TwoFields, Zenon
<1>4. Parsed(bytes, 2 + 1) = TakeVarint(Parsed(bytes, 2))
  <2>1. 2 \in 0 .. 2
    OBVIOUS
  <2> QED
    BY ONLY <2>1, ParsedIs, Zenon
<1>5. Append(<<a, b>>, c) = <<a, b, c>> /\ <<a, b>> \in Seq(U64) /\ 2 + 1 = 3
  <2>1. Append(<<a, b>>, c) = <<a, b, c>>
    BY ONLY a \in U64, b \in U64, c \in U64, Triples, Zenon
  <2> QED
    BY <2>1
<1>6. TakeVarint(Parsed(bytes, 2)) = [ok |-> TRUE, rest |-> r, values |-> Append(<<a, b>>, c)]
  BY ONLY <1>1, <1>3, <1>5, c \in U64, r \in Seq(Byte), TakeEncoded, Zenon
<1> QED
  BY ONLY <1>1, <1>2, <1>4, <1>5, <1>6

\* What a device and its host remember of the events before.
Memories == [ts : U64, addr : Addresses]
After(w, ev) == [ts |-> ev.ts, addr |-> IF ev.type \in Mmio THEN ev.addr ELSE w.addr]
EventBytes(w, ev) == <<ev.type>> \o (VarintEncode[ev.ts - w.ts] \o Arguments(w, ev))

\* They are bytes, one at least.
LEMMA EventBytesType ==
    ASSUME NEW w \in Memories, NEW ev \in Events, ev.ts >= w.ts
    PROVE  /\ ev.ts - w.ts \in U64
           /\ VarintEncode[ev.ts - w.ts] \in Seq(Byte) /\ Arguments(w, ev) \in Seq(Byte)
           /\ EventBytes(w, ev) \in Seq(Byte) /\ EventBytes(w, ev) # <<>>
<1>1. ev.ts - w.ts \in U64
  <2>1. PICK t, u : t = w.ts /\ u = ev.ts /\ t \in U64 /\ u \in U64 /\ u >= t
    BY EventIs DEF Memories
  <2>2. u - t \in U64
    BY ONLY <2>1, VarintAssumption DEF U64
  <2> QED
    BY ONLY <2>1, <2>2
<1>2. PICK c : c = VarintEncode[ev.ts - w.ts] /\ c \in Seq(Byte)
  BY <1>1, EncodeType
<1>3. w.addr \in Addresses
  BY DEF Memories
<1>4. PICK a : a = Arguments(w, ev) /\ a \in Seq(Byte)
  BY <1>3, ArgumentsType
<1>5. <<ev.type>> \in Seq(Byte) /\ Len(<<ev.type>>) = 1
  BY EventIs
<1>6. PICK t : t = <<ev.type>> /\ t \in Seq(Byte) /\ Len(t) = 1
  BY <1>5
<1>7. t \o (c \o a) \in Seq(Byte) /\ t \o (c \o a) # <<>>
  <2>1. c \o a \in Seq(Byte)
    BY ONLY <1>2, <1>4, ConcatProperties
  <2>2. t # <<>>
    BY <1>6
  <2> QED
    BY ONLY <1>6, <2>1, <2>2, ConcatProperties, ConcatEqualIffEmpty
<1> QED
  BY ONLY <1>1, <1>2, <1>4, <1>6, <1>7 DEF EventBytes

\* A host that remembers what the device remembered has parsed a payload that starts
\* with the bytes of ev.
Received(w, ev, more, payload, p) ==
    /\ reader.ts = w.ts /\ reader.addr = w.addr
    /\ payload = EventBytes(w, ev) \o more
    /\ p = Parsed(Tail(payload), Fields(ev.type))

\* What it parsed says ev, and more is left.
Says(ev, more, payload, p) ==
    /\ Head(payload) = ev.type /\ Fields(ev.type) # 0
    /\ p.ok /\ p.rest = more /\ InRange(ev.type, p.values)
    /\ EventOf(ev.type, p.values) = ev
    /\ ev.type \in Mmio => AddrOf(ev.type, p.values) = ev.addr

\* An event that is read behind the events it was written behind comes out as it was.
LEMMA EventParses ==
    ASSUME NEW w \in Memories, NEW ev \in Events, ev.ts >= w.ts, NEW more \in Seq(Byte),
           NEW payload, NEW p, Received(w, ev, more, payload, p)
    PROVE  Says(ev, more, payload, p)
<1> SUFFICES ASSUME reader.ts = w.ts, reader.addr = w.addr,
                    payload = EventBytes(w, ev) \o more,
                    p = Parsed(Tail(payload), Fields(ev.type))
             PROVE  /\ Head(payload) = ev.type /\ Fields(ev.type) # 0
                    /\ p.ok /\ p.rest = more /\ InRange(ev.type, p.values)
                    /\ EventOf(ev.type, p.values) = ev
                    /\ ev.type \in Mmio => AddrOf(ev.type, p.values) = ev.addr
  BY DEF Received, Says
<1>0. /\ Word \in Nat /\ Space32 \in Nat \ {0} /\ w.ts \in 0 .. Word - 1
      /\ w.addr \in 0 .. Space32 - 1
  BY VarintAssumption, BlockCodecAssumption DEF Memories, U64, Addresses
<1>1. PICK ts : ts = ev.ts - w.ts /\ ts \in U64
  BY EventBytesType
<1>2. PICK c : c = VarintEncode[ts] /\ c \in Seq(Byte)
  BY <1>1, EncodeType
<1>3. PICK a : a = Arguments(w, ev) /\ a \in Seq(Byte)
  BY EventBytesType
<1>4. PICK tail : tail = c \o (a \o more) /\ tail \in Seq(Byte) /\ a \o more \in Seq(Byte)
  BY ONLY <1>2, <1>3, more \in Seq(Byte), ConcatProperties
<1>5. PICK t : t = <<ev.type>> /\ t \in Seq(Byte) /\ Len(t) = 1 /\ t[1] = ev.type
  <2>1. ev.type \in Byte
    BY EventIs
  <2>2. <<ev.type>> \in Seq(Byte) /\ Len(<<ev.type>>) = 1 /\ <<ev.type>>[1] = ev.type
    BY ONLY <2>1
  <2> QED
    BY ONLY <2>2, Zenon
<1>6. payload = t \o tail
  <2>1. EventBytes(w, ev) = t \o (c \o a)
    BY ONLY <1>1, <1>2, <1>3, <1>5 DEF EventBytes
  <2>2. c \o a \in Seq(Byte)
    BY ONLY <1>2, <1>3, ConcatProperties
  <2>3. (t \o (c \o a)) \o more = t \o ((c \o a) \o more)
    BY ONLY <1>5, <2>2, more \in Seq(Byte), ConcatAssociative, SMTT(60)
  <2>4. (c \o a) \o more = c \o (a \o more)
    <3>1. c \in Seq(Byte) /\ a \in Seq(Byte)
      BY ONLY <1>2, <1>3
    <3> QED
      BY ONLY <3>1, more \in Seq(Byte), ConcatAssociative, SMTT(60)
  <2> QED
    BY ONLY <1>4, <2>1, <2>3, <2>4, payload = EventBytes(w, ev) \o more
<1>7. Head(payload) = ev.type /\ Tail(payload) = tail
  <2>1. Head(t \o tail) = ev.type
    BY ONLY <1>4, <1>5
  <2>2. /\ Tail(t \o tail) \in Seq(Byte) /\ Len(Tail(t \o tail)) = Len(tail)
        /\ \A i \in 1 .. Len(tail) : Tail(t \o tail)[i] = tail[i]
    BY ONLY <1>4, <1>5
  <2>3. Tail(t \o tail) = tail
    BY ONLY <1>4, <2>2, SeqEqual
  <2> QED
    BY ONLY <1>6, <2>1, <2>3
<1>8. ev.type \in 1 .. 5 /\ ev.addr \in U64 /\ ev.value \in U64 /\ ev.addr \in Addresses
      /\ ev.value \in Addresses
  BY EventIs
<1>10. ASSUME NEW x \in U64, NEW y \in U64, a = VarintEncode[x] \o VarintEncode[y]
       PROVE  Parsed(tail, 3) = [ok |-> TRUE, rest |-> more, values |-> <<ts, x, y>>]
  <2>1. VarintEncode[x] \in Seq(Byte) /\ VarintEncode[y] \in Seq(Byte)
    BY EncodeType
  <2>2. a \o more = VarintEncode[x] \o (VarintEncode[y] \o more)
    <3>1. PICK s, u : s = VarintEncode[x] /\ u = VarintEncode[y]
      OBVIOUS
    <3>2. s \in Seq(Byte) /\ u \in Seq(Byte)
      BY ONLY <2>1, <3>1
    <3>3. (s \o u) \o more = s \o (u \o more)
      BY ONLY <3>2, more \in Seq(Byte), ConcatAssociative, SMTT(60)
    <3> QED
      BY ONLY <1>10, <3>1, <3>3
  <2>3. tail = VarintEncode[ts] \o (VarintEncode[x] \o (VarintEncode[y] \o more))
    BY ONLY <1>2, <1>4, <2>2
  <2> QED
    BY ONLY <1>1, <2>3, x \in U64, y \in U64, more \in Seq(Byte), ThreeFields, ZenonT(60)
<1>11. (w.ts + ts) % Word = ev.ts
  <2>1. ev.ts \in 0 .. Word - 1
    BY EventIs DEF U64
  <2>2. w.ts + ts = ev.ts
    BY <1>0, <1>1, <2>1
  <2>3. ev.ts % Word = ev.ts
    BY ONLY <1>0, <2>1, SMTT(60)
  <2> QED
    BY ONLY <2>2, <2>3
<1>12. \A v \in Addresses : v < Space32 /\ v \in Int
  BY <1>0 DEF Addresses
<1>13. CASE ev.type \in Mmio
  <2>1. PICK z : /\ z = ZigZagEncode(ev.addr - w.addr) /\ z \in U64
                 /\ ZigZagDecode(z) = ev.addr - w.addr
    <3>1. ev.addr - w.addr \in Int /\ -Space32 < ev.addr - w.addr /\ ev.addr - w.addr < Space32
      BY <1>0, <1>8, SMTT(60) DEF Addresses
    <3> QED
      BY <3>1, ZigZagRoundTrip
  <2>2. a = VarintEncode[z] \o VarintEncode[ev.value]
    BY <1>3, <1>13, <2>1, ArgumentsIs
  <2>3. Fields(ev.type) = 3
    BY <1>13, FieldsIs
  <2>4. p = [ok |-> TRUE, rest |-> more, values |-> <<ts, z, ev.value>>]
    BY ONLY <1>7, <1>8, <1>10, <2>1, <2>2, <2>3, p = Parsed(Tail(payload), Fields(ev.type))
  <2>5. PICK v : /\ v = p.values /\ Len(v) = 3 /\ v[1] = ts /\ v[2] = z /\ v[3] = ev.value
                 /\ p.ok /\ p.rest = more
    BY <2>4
  <2>6. AddrOf(ev.type, v) = ev.addr
    <3>1. AddrOf(ev.type, v) = reader.addr + ZigZagDecode(z)
      BY <1>13, <2>5 DEF AddrOf
    <3> QED
      BY <1>0, <1>8, <1>12, <2>1, <3>1
  <2>7. InRange(ev.type, v)
    <3>1. ev.addr - w.addr >= -reader.addr /\ ev.addr - w.addr <= Space32 - 1 - reader.addr
      BY <1>0, <1>8 DEF Addresses
    <3> QED
      BY <1>8, <1>12, <1>13, <2>1, <2>5, <3>1 DEF InRange
  <2>8. EventOf(ev.type, v) = [type |-> ev.type, ts |-> ev.ts, addr |-> ev.addr,
                               value |-> ev.value]
    BY ONLY <1>11, <2>5, <2>6, reader.ts = w.ts DEF EventOf
  <2> QED
    <3>1. EventOf(ev.type, v) = ev /\ Fields(ev.type) # 0
      BY ONLY <2>3, <2>8, EventIs, ev \in Events
    <3> QED
      BY ONLY <1>7, <2>5, <2>6, <2>7, <3>1, Zenon
<1>14. CASE ev.type = EvIrqAt
  <2>1. ev.type \notin Mmio
    BY <1>14 DEF Mmio, EvRead, EvWrite, EvIrqAt
  <2>2. a = VarintEncode[ev.addr] \o VarintEncode[ev.value]
    BY <1>3, <1>14, ArgumentsIs
  <2>3. Fields(ev.type) = 3
    BY <1>14, FieldsIs, EventIs
  <2>4. p = [ok |-> TRUE, rest |-> more, values |-> <<ts, ev.addr, ev.value>>]
    BY ONLY <1>7, <1>8, <1>10, <2>2, <2>3, p = Parsed(Tail(payload), Fields(ev.type))
  <2>5. PICK v : /\ v = p.values /\ Len(v) = 3 /\ v[1] = ts /\ v[2] = ev.addr
                 /\ v[3] = ev.value /\ p.ok /\ p.rest = more
    BY <2>4
  <2>6. AddrOf(ev.type, v) = ev.addr
    BY <2>1, <2>5 DEF AddrOf
  <2>7. InRange(ev.type, v)
    BY <1>8, <1>12, <2>1, <2>5 DEF InRange
  <2>8. EventOf(ev.type, v) = [type |-> ev.type, ts |-> ev.ts, addr |-> ev.addr,
                               value |-> ev.value]
    BY ONLY <1>11, <2>5, <2>6, reader.ts = w.ts DEF EventOf
  <2> QED
    <3>1. EventOf(ev.type, v) = ev /\ Fields(ev.type) # 0
      BY ONLY <2>3, <2>8, EventIs, ev \in Events
    <3> QED
      BY ONLY <1>7, <2>1, <2>5, <2>6, <2>7, <3>1, Zenon
<1>15. CASE ev.type = EvIrqEnter
  <2>1. ev.type \notin Mmio /\ ev.value = 0
    BY <1>15, EventIs DEF Mmio, EvRead, EvWrite, EvIrqEnter
  <2>2. a = VarintEncode[ev.addr]
    BY <1>3, <1>15, ArgumentsIs
  <2>3. Fields(ev.type) = 2
    BY <1>15, FieldsIs
  <2>4. p = [ok |-> TRUE, rest |-> more, values |-> <<ts, ev.addr>>]
    <3>1. tail = VarintEncode[ts] \o (VarintEncode[ev.addr] \o more)
      BY ONLY <1>2, <1>4, <2>2
    <3>2. Parsed(tail, 2) = [ok |-> TRUE, rest |-> more, values |-> <<ts, ev.addr>>]
      BY ONLY <1>1, <1>8, <3>1, more \in Seq(Byte), TwoFields, Zenon
    <3> QED
      BY ONLY <1>7, <2>3, <3>2, p = Parsed(Tail(payload), Fields(ev.type))
  <2>5. PICK v : /\ v = p.values /\ Len(v) = 2 /\ v[1] = ts /\ v[2] = ev.addr
                 /\ p.ok /\ p.rest = more
    BY <2>4
  <2>6. AddrOf(ev.type, v) = ev.addr
    BY <2>1, <2>5 DEF AddrOf
  <2>7. InRange(ev.type, v)
    BY <1>8, <1>12, <2>1, <2>5 DEF InRange
  <2>8. EventOf(ev.type, v) = [type |-> ev.type, ts |-> ev.ts, addr |-> ev.addr,
                               value |-> ev.value]
    BY ONLY <1>11, <2>1, <2>5, <2>6, reader.ts = w.ts DEF EventOf
  <2> QED
    <3>1. EventOf(ev.type, v) = ev /\ Fields(ev.type) # 0
      BY ONLY <2>3, <2>8, EventIs, ev \in Events
    <3> QED
      BY ONLY <1>7, <2>1, <2>5, <2>6, <2>7, <3>1, Zenon
<1>16. CASE ev.type = EvStop
  <2>1. ev.type \notin Mmio /\ ev.addr = 0 /\ ev.value = 0
    BY <1>16, EventIs DEF Mmio, EvRead, EvWrite, EvStop
  <2>2. a \o more = more
    <3>1. a = <<>>
      BY <1>3, <1>16, ArgumentsIs
    <3> QED
      BY ONLY <3>1, more \in Seq(Byte), ConcatEmptySeq
  <2>3. Fields(ev.type) = 1
    BY <1>16, FieldsIs
  <2>4. p = [ok |-> TRUE, rest |-> more, values |-> <<ts>>]
    <3>1. tail = VarintEncode[ts] \o more
      BY ONLY <1>2, <1>4, <2>2
    <3>2. Parsed(tail, 1) = [ok |-> TRUE, rest |-> more, values |-> <<ts>>]
      BY ONLY <1>1, <3>1, more \in Seq(Byte), OneField, Zenon
    <3> QED
      BY ONLY <1>7, <2>3, <3>2, p = Parsed(Tail(payload), Fields(ev.type))
  <2>5. PICK v : v = p.values /\ Len(v) = 1 /\ v[1] = ts /\ p.ok /\ p.rest = more
    BY <2>4
  <2>6. AddrOf(ev.type, v) = ev.addr
    BY <2>1, <2>5 DEF AddrOf
  <2>7. InRange(ev.type, v)
    BY <2>5 DEF InRange
  <2>8. EventOf(ev.type, v) = [type |-> ev.type, ts |-> ev.ts, addr |-> ev.addr,
                               value |-> ev.value]
    BY ONLY <1>11, <2>1, <2>5, <2>6, reader.ts = w.ts DEF EventOf
  <2> QED
    <3>1. EventOf(ev.type, v) = ev /\ Fields(ev.type) # 0
      BY ONLY <2>3, <2>8, EventIs, ev \in Events
    <3> QED
      BY ONLY <1>7, <2>1, <2>5, <2>6, <2>7, <3>1, Zenon
<1> QED
  BY <1>8, <1>13, <1>14, <1>15, <1>16, TypesAre

--------------------------------------------------------------------------------
(* The bytes that are pending, event by event.                                *)

\* What a device remembers, event by event, and the bytes of the events behind each
\* of them from the g-th on.
Story(s, was) ==
    /\ was \in [0 .. Len(s) -> Memories] /\ was[0] = [ts |-> 0, addr |-> 0]
    /\ \A i \in 1 .. Len(s) : was[i] = After(was[i - 1], s[i]) /\ s[i].ts >= was[i - 1].ts
Tails(s, g, was, t) ==
    /\ t \in [g .. Len(s) -> Seq(Byte)] /\ t[Len(s)] = <<>>
    /\ \A i \in g + 1 .. Len(s) : t[i - 1] = EventBytes(was[i - 1], s[i]) \o t[i]

\* The bytes of the events of s that lie behind the g-th, for a device that
\* remembers w and a host that remembers r.
Pending(s, g, w, r, bytes) ==
    \E was, t : /\ Story(s, was) /\ Tails(s, g, was, t)
                /\ was[Len(s)] = w /\ was[g] = r /\ t[g] = bytes

\* An event's own time and address are memories.
LEMMA AfterType == \A w \in Memories, ev \in Events : After(w, ev) \in Memories
<1> SUFFICES ASSUME NEW w \in Memories, NEW ev \in Events PROVE After(w, ev) \in Memories
  OBVIOUS
<1>1. ev.ts \in U64 /\ ev.addr \in Addresses /\ w.addr \in Addresses
  BY EventIs DEF Memories
<1> QED
  BY ONLY <1>1 DEF After, Memories

\* At the start nothing is pending.
LEMMA PendingStart ==
    ASSUME NEW z, z = [ts |-> 0, addr |-> 0], z \in Memories
    PROVE  Pending(<<>>, 0, z, z, <<>>)
<1>1. PICK s : s = <<>> /\ Len(s) = 0
  OBVIOUS
<1>2. PICK b : b = <<>> /\ b \in Seq(Byte)
  <2>1. <<>> \in Seq(Byte)
    OBVIOUS
  <2> QED
    BY ONLY <2>1, Zenon
<1>3. PICK was : was = [i \in 0 .. 0 |-> z]
  OBVIOUS
<1>4. PICK t : t = [i \in 0 .. 0 |-> b]
  OBVIOUS
<1>5. was \in [0 .. 0 -> Memories] /\ was[0] = z /\ t \in [0 .. 0 -> Seq(Byte)] /\ t[0] = b
  BY ONLY <1>2, <1>3, <1>4, z \in Memories
<1>6. \A i : i \notin 1 .. 0 /\ i \notin 0 + 1 .. 0
  OBVIOUS
<1>7. Story(s, was)
  BY ONLY <1>1, <1>5, <1>6, z = [ts |-> 0, addr |-> 0] DEF Story
<1>8. Tails(s, 0, was, t)
  BY ONLY <1>1, <1>2, <1>5, <1>6 DEF Tails
<1> QED
  BY ONLY <1>1, <1>2, <1>5, <1>7, <1>8 DEF Pending

\* An event that is staged is pending behind those that were.
LEMMA PendingStaged ==
    ASSUME NEW s \in Seq(Events), NEW g \in 0 .. Len(s), NEW w, NEW r, NEW bytes,
           Pending(s, g, w, r, bytes), NEW ev \in Events, ev.ts >= w.ts
    PROVE  Pending(Append(s, ev), g, After(w, ev), r, bytes \o EventBytes(w, ev))
<1>1. PICK was, t : /\ Story(s, was) /\ Tails(s, g, was, t)
                    /\ was[Len(s)] = w /\ was[g] = r /\ t[g] = bytes
  BY DEF Pending
<1>2. PICK n : n = Len(s) /\ n \in Nat /\ g \in 0 .. n
  OBVIOUS
<1>3. /\ was \in [0 .. n -> Memories] /\ was[0] = [ts |-> 0, addr |-> 0] /\ was[n] = w
      /\ \A i \in 1 .. n : was[i] = After(was[i - 1], s[i]) /\ s[i].ts >= was[i - 1].ts
  BY ONLY <1>1, <1>2 DEF Story
<1>4. /\ t \in [g .. n -> Seq(Byte)] /\ t[n] = <<>>
      /\ \A i \in g + 1 .. n : t[i - 1] = EventBytes(was[i - 1], s[i]) \o t[i]
  BY ONLY <1>1, <1>2 DEF Tails
<1>5. PICK u : u = Append(s, ev) /\ Len(u) = n + 1 /\ u[n + 1] = ev
               /\ \A i \in 1 .. n : u[i] = s[i]
  <2>1. PICK u : u = Append(s, ev)
    OBVIOUS
  <2>2. Len(u) = n + 1 /\ u[n + 1] = ev /\ \A i \in 1 .. n : u[i] = s[i]
    BY <1>2, <2>1, AppendProperties
  <2> QED
    BY ONLY <2>1, <2>2, Zenon
<1>6. w \in Memories
  BY <1>2, <1>3
<1>7. PICK b : b = EventBytes(w, ev) /\ b \in Seq(Byte)
  BY <1>6, EventBytesType
<1>8. PICK a : a = After(w, ev) /\ a \in Memories
  BY <1>6, AfterType
<1>9. PICK wasNew : wasNew = [i \in 0 .. n + 1 |-> IF i <= n THEN was[i] ELSE a]
  OBVIOUS
<1>10. PICK tNew : tNew = [i \in g .. n + 1 |-> IF i <= n THEN t[i] \o b ELSE <<>>]
  OBVIOUS
<1>11. /\ wasNew \in [0 .. n + 1 -> Memories] /\ wasNew[n + 1] = a
       /\ \A i \in 0 .. n : wasNew[i] = was[i]
  <2>1. \A i \in 0 .. n + 1 : (IF i <= n THEN was[i] ELSE a) \in Memories
    <3>1. \A i \in 0 .. n + 1 : i <= n => i \in 0 .. n
      BY ONLY <1>2
    <3> QED
      BY ONLY <1>3, <1>8, <3>1
  <2>2. n + 1 \in 0 .. n + 1 /\ ~(n + 1 <= n) /\ \A i \in 0 .. n : i \in 0 .. n + 1 /\ i <= n
    BY ONLY <1>2
  <2> QED
    BY ONLY <1>9, <2>1, <2>2
<1>12. /\ tNew \in [g .. n + 1 -> Seq(Byte)] /\ tNew[n + 1] = <<>>
       /\ \A i \in g .. n : tNew[i] = t[i] \o b
  <2>1. \A i \in g .. n + 1 : (IF i <= n THEN t[i] \o b ELSE <<>>) \in Seq(Byte)
    <3> SUFFICES ASSUME NEW i \in g .. n + 1
                 PROVE  (IF i <= n THEN t[i] \o b ELSE <<>>) \in Seq(Byte)
      OBVIOUS
    <3>1. i <= n => i \in g .. n
      BY ONLY <1>2, i \in g .. n + 1
    <3>2. ASSUME i <= n PROVE t[i] \o b \in Seq(Byte)
      <4>1. t[i] \in Seq(Byte)
        BY ONLY <1>4, <3>1, <3>2
      <4>2. b \in Seq(Byte)
        BY ONLY <1>7
      <4> QED
        BY ONLY <4>1, <4>2, ConcatProperties
    <3>3. <<>> \in Seq(Byte)
      OBVIOUS
    <3> QED
      BY ONLY <3>2, <3>3
  <2>2. /\ n + 1 \in g .. n + 1 /\ ~(n + 1 <= n)
        /\ \A i \in g .. n : i \in g .. n + 1 /\ i <= n
    BY ONLY <1>2
  <2> QED
    BY ONLY <1>10, <2>1, <2>2
<1>13. Story(u, wasNew)
  <2>1. ASSUME NEW i \in 1 .. n + 1
        PROVE  wasNew[i] = After(wasNew[i - 1], u[i]) /\ u[i].ts >= wasNew[i - 1].ts
    <3>1. CASE i \in 1 .. n
      <4>1. i \in 0 .. n /\ i - 1 \in 0 .. n
        BY ONLY <1>2, <3>1
      <4> QED
        BY ONLY <1>3, <1>5, <1>11, <3>1, <4>1
    <3>2. CASE i = n + 1
      <4>1. i - 1 = n /\ n \in 0 .. n
        BY ONLY <1>2, <3>2
      <4> QED
        BY ONLY <1>3, <1>5, <1>8, <1>11, <3>2, <4>1, ev.ts >= w.ts
    <3> QED
      BY ONLY <1>2, <3>1, <3>2, i \in 1 .. n + 1
  <2>2. wasNew[0] = [ts |-> 0, addr |-> 0]
    <3>1. 0 \in 0 .. n
      BY ONLY <1>2
    <3> QED
      BY ONLY <1>3, <1>11, <3>1
  <2> QED
    BY ONLY <1>5, <1>11, <2>1, <2>2 DEF Story
<1>14. Tails(u, g, wasNew, tNew)
  <2>1. ASSUME NEW i \in g + 1 .. n + 1
        PROVE  tNew[i - 1] = EventBytes(wasNew[i - 1], u[i]) \o tNew[i]
    <3>1. CASE i \in g + 1 .. n
      <4>1. i \in g .. n /\ i - 1 \in g .. n /\ i - 1 \in 0 .. n /\ i \in 1 .. n
        BY ONLY <1>2, <3>1
      <4>2. tNew[i - 1] = t[i - 1] \o b /\ tNew[i] = t[i] \o b /\ u[i] = s[i]
            /\ wasNew[i - 1] = was[i - 1]
        BY ONLY <1>5, <1>11, <1>12, <4>1
      <4>3. PICK e : e = EventBytes(was[i - 1], s[i]) /\ e \in Seq(Byte)
        <5>1. was[i - 1] \in Memories
          BY ONLY <1>3, <4>1
        <5>2. s[i] \in Events
          BY ONLY <1>2, <4>1, s \in Seq(Events)
        <5>3. s[i].ts >= was[i - 1].ts
          BY ONLY <1>3, <4>1
        <5> QED
          BY ONLY <5>1, <5>2, <5>3, EventBytesType
      <4>4. t[i - 1] = e \o t[i]
        BY ONLY <1>4, <3>1, <4>3
      <4>5. PICK rest : rest = t[i] /\ rest \in Seq(Byte)
        BY ONLY <1>4, <4>1
      <4>6. (e \o rest) \o b = e \o (rest \o b)
        <5>1. e \in Seq(Byte) /\ rest \in Seq(Byte) /\ b \in Seq(Byte)
          BY ONLY <1>7, <4>3, <4>5
        <5> QED
          BY ONLY <5>1, ConcatAssociative, SMTT(60)
      <4> QED
        BY ONLY <4>2, <4>3, <4>4, <4>5, <4>6
    <3>2. CASE i = n + 1
      <4>1. i - 1 = n /\ n \in 0 .. n /\ n \in g .. n
        BY ONLY <1>2, <3>2
      <4>2. tNew[n] = <<>> \o b /\ tNew[i] = <<>> /\ u[i] = ev /\ wasNew[n] = w
        BY ONLY <1>3, <1>4, <1>5, <1>11, <1>12, <3>2, <4>1
      <4>3. <<>> \o b = b \o <<>>
        <5>1. b \in Seq(Byte)
          BY ONLY <1>7
        <5> QED
          BY ONLY <5>1, ConcatEmptySeq
      <4> QED
        BY ONLY <1>7, <4>1, <4>2, <4>3
    <3>3. i \in g + 1 .. n \/ i = n + 1
      BY ONLY <1>2, i \in g + 1 .. n + 1
    <3> QED
      BY ONLY <3>1, <3>2, <3>3, Zenon
  <2> QED
    BY ONLY <1>5, <1>12, <2>1 DEF Tails
<1>15. wasNew[g] = r /\ tNew[g] = bytes \o b
  <2>1. g \in 0 .. n /\ g \in g .. n
    BY ONLY <1>2
  <2> QED
    BY ONLY <1>1, <1>11, <1>12, <2>1
<1>16. Pending(u, g, a, r, bytes \o b)
  BY ONLY <1>5, <1>11, <1>13, <1>14, <1>15, Zenon DEF Pending
<1> QED
  BY ONLY <1>5, <1>7, <1>8, <1>16

\* The first event that is pending is read from the first bytes.
LEMMA PendingNext ==
    ASSUME NEW s \in Seq(Events), NEW g \in 0 .. Len(s), NEW w, NEW r, NEW bytes,
           Pending(s, g, w, r, bytes), bytes # <<>>
    PROVE  /\ g + 1 \in 1 .. Len(s) /\ s[g + 1] \in Events /\ r \in Memories
           /\ s[g + 1].ts >= r.ts
           /\ \E more \in Seq(Byte) : /\ bytes = EventBytes(r, s[g + 1]) \o more
                                      /\ Pending(s, g + 1, w, After(r, s[g + 1]), more)
<1>1. PICK was, t : /\ Story(s, was) /\ Tails(s, g, was, t)
                    /\ was[Len(s)] = w /\ was[g] = r /\ t[g] = bytes
  BY DEF Pending
<1>2. PICK n : n = Len(s) /\ n \in Nat /\ g \in 0 .. n
  OBVIOUS
<1>3. /\ was \in [0 .. n -> Memories]
      /\ \A i \in 1 .. n : was[i] = After(was[i - 1], s[i]) /\ s[i].ts >= was[i - 1].ts
  BY ONLY <1>1, <1>2 DEF Story
<1>4. /\ t \in [g .. n -> Seq(Byte)] /\ t[n] = <<>>
      /\ \A i \in g + 1 .. n : t[i - 1] = EventBytes(was[i - 1], s[i]) \o t[i]
  BY ONLY <1>1, <1>2 DEF Tails
<1>5. g # n
  BY ONLY <1>1, <1>4, bytes # <<>>
<1>6. PICK h : h = g + 1 /\ h \in 1 .. n /\ h \in g + 1 .. n /\ h - 1 = g /\ h \in g .. n
  BY ONLY <1>2, <1>5
<1>7. was[h] = After(r, s[h]) /\ s[h].ts >= r.ts /\ r \in Memories
  BY ONLY <1>1, <1>2, <1>3, <1>6
<1>8. PICK more : more = t[h] /\ more \in Seq(Byte) /\ bytes = EventBytes(r, s[h]) \o more
  BY ONLY <1>1, <1>4, <1>6
<1>9. s[h] \in Events
  BY ONLY <1>2, <1>6, s \in Seq(Events)
<1>10. Pending(s, h, w, After(r, s[h]), more)
  <2>1. PICK tNew : tNew = [i \in h .. n |-> t[i]]
    OBVIOUS
  <2>2. tNew \in [h .. n -> Seq(Byte)] /\ tNew[h] = more /\ tNew[n] = <<>>
        /\ \A i \in h .. n : tNew[i] = t[i]
    <3>1. h \in h .. n /\ n \in h .. n /\ \A i \in h .. n : i \in g .. n
      BY ONLY <1>2, <1>6
    <3> QED
      BY ONLY <1>4, <1>8, <2>1, <3>1
  <2>3. \A i \in h + 1 .. n : tNew[i - 1] = EventBytes(was[i - 1], s[i]) \o tNew[i]
    <3>1. \A i \in h + 1 .. n : i \in g + 1 .. n /\ i \in h .. n /\ i - 1 \in h .. n
      BY ONLY <1>2, <1>6
    <3> QED
      BY ONLY <1>4, <2>2, <3>1
  <2>4. Tails(s, h, was, tNew)
    BY ONLY <1>2, <2>2, <2>3 DEF Tails
  <2> QED
    BY ONLY <1>1, <1>7, <2>2, <2>4, Zenon DEF Pending
<1> QED
  BY ONLY <1>2, <1>6, <1>7, <1>8, <1>9, <1>10

\* With no bytes left, no event is.
LEMMA PendingNone ==
    ASSUME NEW s \in Seq(Events), NEW g \in 0 .. Len(s), NEW w, NEW r,
           Pending(s, g, w, r, <<>>)
    PROVE  g = Len(s)
<1> SUFFICES ASSUME g # Len(s) PROVE FALSE
  OBVIOUS
<1>1. PICK was, t : /\ Story(s, was) /\ Tails(s, g, was, t) /\ t[g] = <<>>
  BY DEF Pending
<1>2. PICK n : n = Len(s) /\ n \in Nat /\ g \in 0 .. n /\ g # n
  OBVIOUS
<1>3. PICK h : h = g + 1 /\ h \in 1 .. n /\ h \in g + 1 .. n /\ h - 1 = g /\ h \in g .. n
               /\ g \in 0 .. n
  BY ONLY <1>2
<1>4. was[g] \in Memories /\ s[h].ts >= was[g].ts
  BY ONLY <1>1, <1>2, <1>3 DEF Story
<1>5. s[h] \in Events
  BY ONLY <1>2, <1>3, s \in Seq(Events)
<1>6. PICK e : e = EventBytes(was[g], s[h]) /\ e \in Seq(Byte) /\ e # <<>>
  BY ONLY <1>4, <1>5, EventBytesType
<1>7. PICK more : more = t[h] /\ more \in Seq(Byte) /\ t[g] = e \o more
  BY ONLY <1>1, <1>2, <1>3, <1>6 DEF Tails
<1>8. e \o more # <<>>
  <2>1. e \in Seq(Byte) /\ more \in Seq(Byte)
    BY ONLY <1>6, <1>7
  <2> QED
    BY ONLY <1>6, <2>1, ConcatEqualIffEmpty
<1> QED
  BY ONLY <1>1, <1>7, <1>8

--------------------------------------------------------------------------------
(* The host keeps in step with the device.                                    *)

WriterHas == [ts |-> writer.ts, addr |-> writer.addr]
ReaderHas == [ts |-> reader.ts, addr |-> reader.addr]
InFlight == reader.payload \o (link.payload \o staged)

\* While nothing has gone wrong, the bytes on their way are those of the events the
\* host has not read yet, and the next block is the one it expects.
InStep ==
    /\ ~reader.done /\ Pending(sent, Len(got), WriterHas, ReaderHas, InFlight)
    /\ link # NoBlock => /\ staged = <<>> /\ link.seq = Le32(reader.seq)
                         /\ writer.seq = reader.seq + 1
    /\ link = NoBlock => writer.seq = reader.seq
    /\ reader.payload # <<>> => staged = <<>>

\* Up to the first forgery the host has read what was sent, in order; a damaged
\* block is the last.
StreamInv ==
    /\ condition = "forged" => staged = <<>>
    /\ link # NoBlock => reader.payload = <<>> /\ ~reader.done
    /\ condition # "forged" => /\ Len(got) <= Len(sent)
                               /\ \A i \in 1 .. Len(got) : got[i] = sent[i]
    /\ condition = "damaged" => /\ staged = <<>> /\ reader.payload = <<>>
                                /\ link = NoBlock => reader.done
    /\ condition = "sent" => InStep

\* At the start nothing is on its way.
LEMMA StreamInvInit == BlockInit => StreamInv
<1> SUFFICES ASSUME BlockInit PROVE StreamInv
  OBVIOUS
<1>1. /\ writer.ts = 0 /\ writer.addr = 0 /\ writer.seq = 0
      /\ reader.ts = 0 /\ reader.addr = 0 /\ reader.seq = 0 /\ ~reader.done
      /\ reader.payload = <<>> /\ link = NoBlock /\ link.payload = <<>>
      /\ staged = <<>> /\ sent = <<>> /\ got = <<>> /\ condition = "sent"
  BY DEF BlockInit, NoBlock
<1>2. PICK z : /\ z = [ts |-> 0, addr |-> 0] /\ z \in Memories
               /\ WriterHas = z /\ ReaderHas = z
  <2>1. 0 \in U64 /\ 0 \in Addresses
    <3>1. Scale[MaxBytes - 1] \in Nat
      BY VarintAssumption, ScaleIs
    <3> QED
      BY <3>1, VarintAssumption, BlockCodecAssumption DEF U64, Addresses
  <2> QED
    BY ONLY <1>1, <2>1 DEF Memories, WriterHas, ReaderHas
<1>3. InFlight = <<>>
  <2>1. <<>> \o (<<>> \o <<>>) = <<>>
    OBVIOUS
  <2> QED
    BY ONLY <1>1, <2>1 DEF InFlight
<1>4. Pending(<<>>, 0, z, z, <<>>)
  BY ONLY <1>2, PendingStart, Zenon
<1>5. Len(got) = 0 /\ Len(sent) = 0
  BY <1>1
<1>6. Pending(sent, Len(got), WriterHas, ReaderHas, InFlight)
  BY ONLY <1>1, <1>2, <1>3, <1>4, <1>5
<1>7. InStep
  BY ONLY <1>1, <1>6 DEF InStep
<1>8. \A i : i \notin 1 .. 0
  OBVIOUS
<1> QED
  BY <1>1, <1>5, <1>7, <1>8 DEF StreamInv

\* Only in step is an event staged: its bytes go behind the rest.
LEMMA StreamInvStage == BlockInv /\ StreamInv /\ StageEvent => StreamInv'
<1> SUFFICES ASSUME BlockInv, StreamInv, StageEvent PROVE StreamInv'
  BY SMTT(60)
<1>1. PICK ev \in Events :
         /\ ev.ts >= writer.ts
         /\ staged' = staged \o <<ev.type>> \o VarintEncode[ev.ts - writer.ts]
                             \o Arguments(writer, ev)
         /\ writer' = [writer EXCEPT !.ts = ev.ts,
                           !.addr = IF ev.type \in Mmio THEN ev.addr ELSE @]
         /\ sent' = Append(sent, ev)
  BY DEF StageEvent
<1>2. /\ Idle /\ condition # "forged" /\ UNCHANGED <<link, condition, reader, got>>
  BY DEF StageEvent
<1>3. /\ writer \in [ts : U64, addr : Addresses, seq : Nat] /\ staged \in Seq(Byte)
      /\ sent \in Seq(Events) /\ Len(got) \in Nat /\ condition \in {"sent", "damaged", "forged"}
  BY DEF BlockInv, BlockTypes
<1>4. link = NoBlock /\ reader.payload = <<>> /\ ~reader.done /\ link.payload = <<>>
  BY <1>2 DEF Idle, NoBlock
<1>5. condition = "sent" /\ InStep
  BY <1>2, <1>3, <1>4 DEF StreamInv
<1>6. PICK w : w = WriterHas /\ w \in Memories /\ ev.ts >= w.ts
  <2>1. WriterHas \in Memories
    BY ONLY <1>3 DEF WriterHas, Memories
  <2>2. ev.ts >= WriterHas.ts
    BY ONLY <1>1 DEF WriterHas
  <2> QED
    BY ONLY <2>1, <2>2, Zenon
<1>7. PICK b : b = EventBytes(w, ev) /\ b \in Seq(Byte)
  BY <1>6, EventBytesType
<1>8. InFlight = staged
  <2>1. <<>> \o (<<>> \o staged) = staged
    BY ONLY <1>3, ConcatEmptySeq
  <2> QED
    BY ONLY <1>4, <2>1 DEF InFlight
<1>9. staged' = staged \o b
  <2>1. PICK c : c = VarintEncode[ev.ts - writer.ts] /\ c \in Seq(Byte)
    BY <1>6, EventBytesType DEF WriterHas
  <2>2. PICK a : a = Arguments(writer, ev) /\ a = Arguments(w, ev) /\ a \in Seq(Byte)
    <3>1. Arguments(writer, ev) = Arguments(w, ev)
      BY <1>6 DEF WriterHas, Arguments
    <3> QED
      BY <1>6, <3>1, EventBytesType
  <2>3. PICK t : t = <<ev.type>> /\ t \in Seq(Byte)
    <3>1. <<ev.type>> \in Seq(Byte)
      BY EventIs
    <3> QED
      BY ONLY <3>1, Zenon
  <2>4. staged' = ((staged \o t) \o c) \o a
    BY ONLY <1>1, <2>1, <2>2, <2>3
  <2>5. b = t \o (c \o a)
    BY ONLY <1>6, <1>7, <2>1, <2>2, <2>3 DEF EventBytes, WriterHas
  <2>6. t \in Seq(Byte) /\ c \in Seq(Byte) /\ a \in Seq(Byte) /\ staged \in Seq(Byte)
    BY ONLY <1>3, <2>1, <2>2, <2>3
  <2>7. c \o a \in Seq(Byte) /\ staged \o t \in Seq(Byte)
    BY ONLY <2>6, ConcatProperties
  <2>8. ((staged \o t) \o c) \o a = (staged \o t) \o (c \o a)
    BY ONLY <2>6, <2>7, ConcatAssociative, SMTT(60)
  <2>9. (staged \o t) \o (c \o a) = staged \o (t \o (c \o a))
    BY ONLY <2>6, <2>7, ConcatAssociative, SMTT(60)
  <2> QED
    BY ONLY <2>4, <2>5, <2>8, <2>9
<1>10. InFlight' = staged \o b
  <2>1. staged \o b \in Seq(Byte)
    BY ONLY <1>3, <1>7, ConcatProperties
  <2>2. <<>> \o (<<>> \o (staged \o b)) = staged \o b
    BY ONLY <2>1, ConcatEmptySeq
  <2> QED
    BY ONLY <1>2, <1>4, <1>9, <2>2 DEF InFlight
<1>11. WriterHas' = After(w, ev)
  BY <1>1, <1>3, <1>6 DEF WriterHas, After
<1>12. ReaderHas' = ReaderHas /\ Len(got') = Len(got) /\ writer'.seq = writer.seq
  BY <1>1, <1>2, <1>3 DEF ReaderHas
<1>13. Len(got) \in 0 .. Len(sent)
  BY <1>3, <1>5 DEF StreamInv
<1>14. Pending(sent', Len(got'), WriterHas', ReaderHas', InFlight')
  <2>1. PICK r, g : r = ReaderHas /\ g = Len(got) /\ g \in 0 .. Len(sent)
    BY ONLY <1>13
  <2>2. Pending(sent, g, w, r, staged)
    BY ONLY <1>5, <1>6, <1>8, <2>1 DEF InStep
  <2>3. Pending(Append(sent, ev), g, After(w, ev), r, staged \o EventBytes(w, ev))
    BY ONLY <1>3, <1>6, <2>1, <2>2, ev \in Events, PendingStaged
  <2> QED
    BY ONLY <1>1, <1>7, <1>10, <1>11, <1>12, <2>1, <2>3
<1>15. /\ Len(got') <= Len(sent')
       /\ \A i \in 1 .. Len(got') : got'[i] = sent'[i]
  <2>1. Len(sent') = Len(sent) + 1 /\ \A i \in 1 .. Len(sent) : sent'[i] = sent[i]
    BY <1>1, <1>3, AppendProperties
  <2>2. Len(got) <= Len(sent) /\ \A i \in 1 .. Len(got) : got[i] = sent[i]
    BY <1>5 DEF StreamInv
  <2>3. PICK m, n : /\ m = Len(got) /\ m \in Nat /\ n = Len(sent) /\ n \in Nat /\ m <= n
    BY <1>3, <2>2
  <2> QED
    BY <1>2, <2>1, <2>2, <2>3
<1>16. InStep'
  BY <1>2, <1>4, <1>5, <1>12, <1>14 DEF InStep
<1> QED
  BY <1>2, <1>4, <1>5, <1>15, <1>16 DEF StreamInv

\* A block takes what is staged along.
LEMMA StreamInvSend == BlockInv /\ StreamInv /\ SendBlock => StreamInv'
<1> SUFFICES ASSUME BlockInv, StreamInv, SendBlock PROVE StreamInv'
  OBVIOUS
<1>1. /\ Idle /\ staged # <<>> /\ staged' = <<>> /\ condition' = "sent"
      /\ writer' = [writer EXCEPT !.seq = @ + 1] /\ UNCHANGED <<reader, sent, got>>
  BY DEF SendBlock
<1>2. /\ writer \in [ts : U64, addr : Addresses, seq : Nat] /\ staged \in Seq(Byte)
      /\ condition \in {"sent", "damaged", "forged"}
  BY DEF BlockInv, BlockTypes
<1>3. link = NoBlock /\ reader.payload = <<>> /\ ~reader.done /\ link.payload = <<>>
  BY <1>1 DEF Idle, NoBlock
<1>4. condition = "sent" /\ InStep
  BY <1>1, <1>2, <1>3 DEF StreamInv
<1>5. link'.seq = Le32(writer.seq) /\ link'.payload = staged
  BY DEF SendBlock
<1>6. InFlight' = InFlight
  <2>1. <<>> \o (<<>> \o staged) = <<>> \o (staged \o <<>>)
    BY ONLY <1>2, ConcatEmptySeq
  <2> QED
    BY ONLY <1>1, <1>3, <1>5, <2>1 DEF InFlight
<1>7. WriterHas' = WriterHas /\ ReaderHas' = ReaderHas /\ writer'.seq = writer.seq + 1
  BY <1>1, <1>2 DEF WriterHas, ReaderHas
<1>8. writer.seq = reader.seq
  BY <1>3, <1>4 DEF InStep
<1>9. link' # NoBlock
  <2>1. PICK s : s = Le32(writer.seq) /\ Len(s) = 4
    BY <1>2, Le32Type
  <2> QED
    BY <1>5, <2>1 DEF NoBlock
<1>10. InStep'
  <2>1. Pending(sent', Len(got'), WriterHas', ReaderHas', InFlight')
    BY <1>1, <1>4, <1>6, <1>7 DEF InStep
  <2> QED
    BY <1>1, <1>3, <1>5, <1>7, <1>8, <1>9, <2>1 DEF InStep
<1> QED
  BY <1>1, <1>3, <1>4, <1>10 DEF StreamInv

\* What is damaged is a block the host has not seen.
LEMMA StreamInvDamage == BlockInv /\ StreamInv /\ DamageBlock => StreamInv'
<1> SUFFICES ASSUME BlockInv, StreamInv, DamageBlock PROVE StreamInv'
  OBVIOUS
<1>1. /\ link # NoBlock /\ condition = "sent" /\ condition' = "damaged"
      /\ UNCHANGED <<writer, staged, reader, sent, got>>
  BY ZenonT(60) DEF DamageBlock
<1>2. link' # NoBlock
  <2>1. Len(link'.seq) = 4
    BY DamageIs
  <2> QED
    BY <2>1 DEF NoBlock
<1> QED
  BY <1>1, <1>2, SMTT(60) DEF StreamInv, InStep

\* A forgery ends what the stream promises.
LEMMA StreamInvForge == BlockInv /\ StreamInv /\ ForgeBlock => StreamInv'
BY DEF ForgeBlock, Idle, StreamInv

\* The host takes the block it expects and stops at one that was damaged.
LEMMA StreamInvLoad == BlockInv /\ StreamInv /\ LoadBlock => StreamInv'
<1> SUFFICES ASSUME BlockInv, StreamInv, LoadBlock PROVE StreamInv'
  OBVIOUS
<1>1. /\ link \in [seq : Seq(Byte), payload : Seq(Byte), crc : SUBSET Int]
      /\ reader \in [ts : U64, addr : Addresses, done : BOOLEAN, payload : Seq(Byte), seq : Nat]
      /\ condition \in {"sent", "damaged", "forged"}
  BY DEF BlockInv, BlockTypes
<1>2. link # NoBlock /\ link' = NoBlock /\ UNCHANGED <<writer, staged, condition, sent, got>>
  BY DEF LoadBlock
<1>3. reader.payload = <<>> /\ ~reader.done
  BY <1>2 DEF StreamInv
<1>4. CASE condition = "forged"
  BY <1>2, <1>4 DEF StreamInv
<1>5. CASE condition = "damaged"
  <2>1. Crc32(link.seq \o link.payload) # link.crc
    BY <1>2, <1>5 DEF BlockInv, ChecksumTells, Covered
  <2>2. reader' = [reader EXCEPT !.done = TRUE]
    BY <2>1 DEF LoadBlock
  <2>3. reader'.done /\ reader'.payload = <<>>
    BY <1>1, <1>3, <2>2
  <2> QED
    BY <1>2, <1>5, <2>3 DEF StreamInv
<1>6. CASE condition = "sent"
  <2>1. InStep /\ staged = <<>> /\ link.seq = Le32(reader.seq) /\ writer.seq = reader.seq + 1
    BY <1>2, <1>6 DEF StreamInv, InStep
  <2>2. Crc32(link.seq \o link.payload) = link.crc
    BY <1>2, <1>6 DEF BlockInv, ChecksumTells, Covered
  <2>3. PICK p, n : p = link.payload /\ p \in Seq(Byte) /\ n = reader.seq + 1
    BY <1>1
  <2>4. reader' = [reader EXCEPT !.seq = n, !.payload = p]
    BY ONLY LoadBlock, <2>1, <2>2, <2>3 DEF LoadBlock
  <2>5. /\ reader'.payload = p /\ reader'.seq = n /\ ~reader'.done
        /\ reader'.ts = reader.ts /\ reader'.addr = reader.addr
    BY ONLY <1>1, <1>3, <2>4
  <2>6. InFlight' = InFlight
    <3>1. NoBlock.payload = <<>>
      BY DEF NoBlock
    <3>2. p \o (<<>> \o <<>>) = <<>> \o (p \o <<>>)
      BY ONLY <2>3, ConcatEmptySeq
    <3>3. link'.payload = <<>> /\ staged' = <<>>
      BY <1>2, <2>1, <3>1
    <3> QED
      BY ONLY <1>3, <2>1, <2>3, <2>5, <3>2, <3>3 DEF InFlight
  <2>7. ReaderHas' = ReaderHas /\ WriterHas' = WriterHas
    BY <1>2, <2>5 DEF ReaderHas, WriterHas
  <2>8. Pending(sent', Len(got'), WriterHas', ReaderHas', InFlight')
    BY <1>2, <2>1, <2>6, <2>7 DEF InStep
  <2>9. InStep'
    BY <1>2, <2>1, <2>3, <2>5, <2>8 DEF InStep
  <2> QED
    BY <1>2, <1>6, <2>9 DEF StreamInv
<1> QED
  BY <1>1, <1>4, <1>5, <1>6

\* What the host reads next is the first event that is pending.
LEMMA StreamInvNextOf == BlockInv /\ StreamInv /\ NextOfPayload => StreamInv'
<1> SUFFICES ASSUME BlockInv, StreamInv, NextOfPayload PROVE StreamInv'
  OBVIOUS
<1>1. /\ reader \in [ts : U64, addr : Addresses, done : BOOLEAN, payload : Seq(Byte), seq : Nat]
      /\ condition \in {"sent", "damaged", "forged"} /\ sent \in Seq(Events)
      /\ got \in Seq([type : 1 .. 5, ts : U64, addr : Addresses, value : Addresses])
  BY DEF BlockInv, BlockTypes
<1>2. reader.payload # <<>> /\ UNCHANGED <<writer, staged, link, condition, sent>>
  BY DEF NextOfPayload
<1>3. link = NoBlock /\ link.payload = <<>> /\ condition # "damaged"
  <2>1. link = NoBlock /\ condition # "damaged"
    BY <1>2 DEF StreamInv
  <2> QED
    BY <2>1 DEF NoBlock
<1>4. CASE condition = "forged"
  BY <1>2, <1>3, <1>4 DEF StreamInv
<1>5. CASE condition = "sent"
  <2>1. /\ InStep /\ staged = <<>> /\ Len(got) <= Len(sent)
        /\ \A i \in 1 .. Len(got) : got[i] = sent[i]
    BY <1>2, <1>5 DEF StreamInv, InStep
  <2>2. PICK payload : payload = reader.payload /\ payload \in Seq(Byte) /\ payload # <<>>
    BY <1>1, <1>2
  <2>3. InFlight = payload
    <3>1. payload \o (<<>> \o <<>>) = payload
      BY ONLY <2>2, ConcatEmptySeq
    <3> QED
      BY ONLY <1>3, <2>1, <2>2, <3>1 DEF InFlight
  <2>4. PICK g : g = Len(got) /\ g \in 0 .. Len(sent)
    BY <1>1, <2>1
  <2>5. PICK w, r : w = WriterHas /\ r = ReaderHas
    OBVIOUS
  <2>6. Pending(sent, g, w, r, payload)
    BY ONLY <2>1, <2>3, <2>4, <2>5 DEF InStep
  <2>7. /\ g + 1 \in 1 .. Len(sent) /\ sent[g + 1] \in Events /\ r \in Memories
        /\ sent[g + 1].ts >= r.ts
        /\ \E more \in Seq(Byte) : /\ payload = EventBytes(r, sent[g + 1]) \o more
                                   /\ Pending(sent, g + 1, w, After(r, sent[g + 1]), more)
    BY ONLY <1>1, <2>2, <2>4, <2>6, PendingNext
  <2>8. PICK ev : ev = sent[g + 1] /\ ev \in Events /\ ev.ts >= r.ts
    BY ONLY <2>7
  <2>9. PICK more \in Seq(Byte) : /\ payload = EventBytes(r, ev) \o more
                                  /\ Pending(sent, g + 1, w, After(r, ev), more)
    BY ONLY <2>7, <2>8
  <2>10. reader.ts = r.ts /\ reader.addr = r.addr
    BY ONLY <2>5 DEF ReaderHas
  <2>11. PICK p : p = Parsed(Tail(payload), Fields(ev.type))
    OBVIOUS
  <2>12. /\ Head(payload) = ev.type /\ Fields(ev.type) # 0
         /\ p.ok /\ p.rest = more /\ InRange(ev.type, p.values)
         /\ EventOf(ev.type, p.values) = ev
         /\ ev.type \in Mmio => AddrOf(ev.type, p.values) = ev.addr
    <3>1. r \in Memories /\ ev \in Events /\ ev.ts >= r.ts
      BY ONLY <2>7, <2>8
    <3>2. Received(r, ev, more, payload, p)
      BY ONLY <2>9, <2>10, <2>11 DEF Received
    <3>3. Says(ev, more, payload, p)
      BY ONLY <3>1, <3>2, more \in Seq(Byte), EventParses, Zenon
    <3> QED
      BY ONLY <3>3 DEF Says
  <2>13. /\ reader' = [reader EXCEPT !.payload = p.rest,
                           !.ts = EventOf(ev.type, p.values).ts,
                           !.addr = IF ev.type \in Mmio THEN AddrOf(ev.type, p.values) ELSE @]
         /\ got' = Append(got, EventOf(ev.type, p.values))
    <3>1. PICK type : type = ev.type
      OBVIOUS
    <3>2. type = Head(reader.payload) /\ p = Parsed(Tail(reader.payload), Fields(type))
      BY ONLY <2>2, <2>11, <2>12, <3>1
    <3>3. IF Fields(type) = 0 \/ ~p.ok \/ ~InRange(type, p.values)
          THEN reader' = [reader EXCEPT !.done = TRUE] /\ UNCHANGED got
          ELSE /\ reader' = [reader EXCEPT !.payload = p.rest,
                                 !.ts = EventOf(type, p.values).ts,
                                 !.addr = IF type \in Mmio THEN AddrOf(type, p.values) ELSE @]
               /\ got' = Append(got, EventOf(type, p.values))
      BY ONLY NextOfPayload, <3>2, NextIs, ZenonT(60)
    <3> QED
      BY ONLY <2>12, <3>1, <3>3
  <2>14. PICK a : a = (IF ev.type \in Mmio THEN ev.addr ELSE reader.addr)
    OBVIOUS
  <2>15. reader' = [reader EXCEPT !.payload = more, !.ts = ev.ts, !.addr = a]
    BY ONLY <2>12, <2>13, <2>14
  <2>16. /\ reader'.payload = more /\ reader'.ts = ev.ts /\ reader'.addr = a
         /\ reader'.done = reader.done /\ reader'.seq = reader.seq
    BY ONLY <1>1, <2>15
  <2>17. got' = Append(got, ev)
    BY ONLY <2>12, <2>13
  <2>18. ReaderHas' = After(r, ev) /\ WriterHas' = w
    BY ONLY <1>2, <2>5, <2>14, <2>16 DEF ReaderHas, WriterHas, After
  <2>19. InFlight' = more
    <3>1. more \o (<<>> \o <<>>) = more
      BY ONLY more \in Seq(Byte), ConcatEmptySeq
    <3> QED
      BY ONLY <1>2, <1>3, <2>1, <2>16, <3>1 DEF InFlight
  <2>20. /\ Len(got') = g + 1 /\ got'[g + 1] = ev
         /\ \A i \in 1 .. g : got'[i] = got[i]
    <3>1. PICK T : T = [type : 1 .. 5, ts : U64, addr : Addresses, value : Addresses]
                   /\ got \in Seq(T) /\ ev \in T
      BY ONLY <1>1, <2>8, EventsAssumption DEF Addresses
    <3> QED
      BY ONLY <2>4, <2>17, <3>1, AppendProperties
  <2>21. Pending(sent', Len(got'), WriterHas', ReaderHas', InFlight')
    BY ONLY <1>2, <2>9, <2>18, <2>19, <2>20
  <2>22. InStep'
    <3>1. ~reader.done /\ writer.seq = reader.seq
      BY <1>3, <2>1 DEF InStep
    <3> QED
      BY <1>2, <1>3, <2>1, <2>16, <2>21, <3>1 DEF InStep
  <2>23. Len(got') <= Len(sent') /\ \A i \in 1 .. Len(got') : got'[i] = sent'[i]
    <3>1. \A i \in 1 .. g + 1 : i \in 1 .. g \/ i = g + 1
      BY ONLY <2>4
    <3>2. g + 1 <= Len(sent)
      BY ONLY <2>7
    <3> QED
      BY ONLY <1>2, <2>1, <2>4, <2>8, <2>20, <3>1, <3>2
  <2> QED
    BY <1>2, <1>3, <1>5, <2>22, <2>23 DEF StreamInv
<1> QED
  BY <1>1, <1>3, <1>4, <1>5

\* Every step keeps the host in step.
LEMMA StreamInvNext == BlockInv /\ StreamInv /\ [BlockNext]_vars => StreamInv'
<1>1. StreamInv /\ UNCHANGED vars => StreamInv'
  BY DEF StreamInv, InStep, WriterHas, ReaderHas, InFlight, vars
<1> QED
  BY <1>1, StreamInvStage, StreamInvSend, StreamInvDamage, StreamInvForge, StreamInvLoad,
     StreamInvNextOf DEF BlockNext

\* And so it is throughout.
LEMMA InStepCorrect == BlockSpec => []StreamInv
BY StreamInvInit, StreamInvNext, BlockTypeCorrect, PTL DEF BlockSpec

\* Sequences that agree as far as the first goes.
LEMMA AgreesIsPrefix ==
    ASSUME NEW S, NEW s \in Seq(S), NEW t \in Seq(S), Len(s) <= Len(t),
           \A i \in 1 .. Len(s) : s[i] = t[i]
    PROVE  IsPrefix(s, t)
<1>1. Len(s) \in Nat /\ Len(t) \in Nat
  OBVIOUS
<1>2. /\ SubSeq(s, 1, Len(s)) = [i \in 1 .. Len(s) |-> s[i]]
      /\ SubSeq(t, 1, Len(s)) = [i \in 1 .. Len(s) |-> t[i]]
  BY <1>1
<1>3. [i \in 1 .. Len(s) |-> s[i]] = [i \in 1 .. Len(s) |-> t[i]]
  OBVIOUS
<1> QED
  BY <1>2, <1>3 DEF IsPrefix

\* Through every encoding on the way, the events come out as they went in, in order
\* and, once everything has arrived, all of them; only a block that was hit stops the
\* host (ReadsWhatWasSent).
THEOREM ReadsCorrect == BlockSpec => []ReadsWhatWasSent
<1>1. BlockInv /\ StreamInv => ReadsWhatWasSent
  <2> SUFFICES ASSUME BlockInv, StreamInv, condition # "forged"
               PROVE  /\ IsPrefix(got, sent)
                      /\ Idle /\ staged = <<>> => got = sent
                      /\ reader.done => condition = "damaged"
    BY DEF ReadsWhatWasSent
  <2>1. Len(got) <= Len(sent) /\ \A i \in 1 .. Len(got) : got[i] = sent[i]
    BY DEF StreamInv
  <2>2. PICK T : /\ T = [type : 1 .. 5, ts : U64, addr : Addresses, value : Addresses]
                 /\ got \in Seq(T)
    BY DEF BlockInv, BlockTypes
  <2>3. sent \in Seq(T) /\ sent \in Seq(Events)
    <3>1. sent \in Seq(Events) /\ \A ev \in Events : ev \in T
      BY ONLY BlockInv, <2>2, EventsAssumption DEF BlockInv, BlockTypes, Addresses
    <3> QED
      BY ONLY <3>1
  <2>4. IsPrefix(got, sent)
    BY ONLY <2>1, <2>2, <2>3, AgreesIsPrefix
  <2>5. condition = "sent" \/ condition = "damaged"
    BY DEF BlockInv, BlockTypes
  <2>6. ASSUME Idle, staged = <<>> PROVE got = sent
    <3>1. link = NoBlock /\ reader.payload = <<>> /\ ~reader.done /\ link.payload = <<>>
      BY <2>6 DEF Idle, NoBlock
    <3>2. InStep
      BY <2>5, <3>1 DEF StreamInv
    <3>3. InFlight = <<>>
      <4>1. <<>> \o (<<>> \o <<>>) = <<>>
        OBVIOUS
      <4> QED
        BY ONLY <2>6, <3>1, <4>1 DEF InFlight
    <3>4. PICK g, w, r : g = Len(got) /\ w = WriterHas /\ r = ReaderHas
      OBVIOUS
    <3>5. g \in 0 .. Len(sent)
      BY ONLY <2>1, <2>2, <2>3, <3>4
    <3>6. Pending(sent, g, w, r, <<>>)
      BY ONLY <3>2, <3>3, <3>4 DEF InStep
    <3>7. g = Len(sent)
      BY ONLY <2>3, <3>5, <3>6, PendingNone
    <3> QED
      BY ONLY <2>1, <2>2, <2>3, <3>4, <3>7, SeqEqual
  <2>7. reader.done => condition = "damaged"
    BY <2>5 DEF StreamInv, InStep
  <2> QED
    BY <2>4, <2>6, <2>7
<1> QED
  BY <1>1, BlockTypeCorrect, InStepCorrect, PTL

--------------------------------------------------------------------------------
(* Any bytes: what they spell is what is read.                                *)

\* A set of numbers that has one has a least one.
LEMMA MinIs ==
    ASSUME NEW S, S \subseteq Nat, S # {}
    PROVE  Min(S) \in S /\ \A y \in S : Min(S) <= y
<1>1. PICK x \in S : \A y \in S : x <= y
  <2> SUFFICES ASSUME \A x \in S : \E y \in S : y < x PROVE FALSE
    <3>1. \A x, y \in S : ~(x <= y) => y < x
      BY ONLY S \subseteq Nat
    <3> QED
      BY <3>1
  <2> DEFINE T == {n \in Nat : \A y \in S : ~(y < n)}
  <2>1. 0 \in T
    OBVIOUS
  <2>2. ASSUME NEW n \in T PROVE n + 1 \in T
    <3>1. n \notin S
      OBVIOUS
    <3>2. \A y \in S : ~(y < n + 1)
      <4> SUFFICES ASSUME NEW y \in S, y < n + 1 PROVE FALSE
        OBVIOUS
      <4>1. ~(y < n) /\ y \in Nat /\ n \in Nat
        OBVIOUS
      <4>2. y = n
        BY ONLY <4>1, y < n + 1
      <4> QED
        BY <3>1, <4>2
    <3> QED
      BY <3>2
  <2> HIDE DEF T
  <2>3. T = Nat
    <3>1. T \subseteq Nat
      BY DEF T
    <3> QED
      BY ONLY <2>1, <2>2, <3>1, SetInduction
  <2>4. PICK x \in S : TRUE
    BY ONLY S # {}
  <2> x + 1 \in Nat
    BY ONLY x \in S, S \subseteq Nat
  <2>5. x + 1 \in T
    BY <2>3
  <2>6. \A y \in S : ~(y < x + 1)
    BY ONLY <2>5 DEF T
  <2>7. PICK y \in S : y < x
    OBVIOUS
  <2>8. y < x + 1
    BY ONLY <2>7, x \in S, y \in S, S \subseteq Nat
  <2> QED
    BY ONLY <2>6, <2>8, y \in S
<1> QED
  BY <1>1 DEF Min

\* Where a field ends, and that the last one's end comes after it.
NextEnd(bytes, e) == Min(EndsBehind(bytes, e) \cup {Len(bytes) + 1})

\* The field behind a field ends at the next end.
LEMMA EndOfIs ==
    ASSUME NEW bytes
    PROVE  /\ EndOf(bytes, 0) = 0
           /\ \A k \in 0 .. 2 : EndOf(bytes, k + 1) = NextEnd(bytes, EndOf(bytes, k))
<1> DEFINE e1 == NextEnd(bytes, 0)
           e2 == NextEnd(bytes, e1)
           e3 == NextEnd(bytes, e2)
           At(j) == IF j = 0 THEN 0 ELSE IF j = 1 THEN e1 ELSE IF j = 2 THEN e2 ELSE e3
           Ends(f, k) == f = [j \in 0 .. k |-> IF j = 0 THEN 0 ELSE NextEnd(bytes, f[j - 1])]
<1>1. ASSUME NEW k \in 0 .. 3 PROVE EndOf(bytes, k) = At(k)
  <2> DEFINE g == [j \in 0 .. k |-> At(j)]
  <2>1. ASSUME NEW j \in 0 .. k PROVE g[j] = IF j = 0 THEN 0 ELSE NextEnd(bytes, g[j - 1])
    <3>1. j = 0 \/ j = 1 \/ j = 2 \/ j = 3
      OBVIOUS
    <3>2. j # 0 => j - 1 \in 0 .. k
      OBVIOUS
    <3>3. g[j] = At(j) /\ (j # 0 => g[j - 1] = At(j - 1))
      BY <3>2
    <3> HIDE DEF g
    <3>4. j # 0 => At(j) = NextEnd(bytes, At(j - 1))
      BY <3>1
    <3> QED
      BY <3>1, <3>3, <3>4
  <2>2. g = [j \in 0 .. k |-> g[j]]
    OBVIOUS
  <2> HIDE DEF g
  <2>3. Ends(g, k)
    BY ONLY <2>1, <2>2
  <2> DEFINE F == CHOOSE f : Ends(f, k)
  <2>4. Ends(F, k)
    BY <2>3
  <2>5. EndOf(bytes, k) = F[k]
    BY Zenon DEF EndOf, NextEnd
  <2>6. PICK f : f = F
    OBVIOUS
  <2>7. \A j \in 0 .. k : f[j] = IF j = 0 THEN 0 ELSE NextEnd(bytes, f[j - 1])
    <3> HIDE DEF F
    <3>1. f = [j \in 0 .. k |-> IF j = 0 THEN 0 ELSE NextEnd(bytes, f[j - 1])]
      BY ONLY <2>4, <2>6
    <3> QED
      BY ONLY <3>1, Zenon
  <2>8. f[k] = At(k)
    <3>1. k = 0 \/ k = 1 \/ k = 2 \/ k = 3
      OBVIOUS
    <3>2. f[0] = 0
      BY ONLY <2>7, k \in 0 .. 3
    <3>3. k >= 1 => f[1] = e1
      BY ONLY <2>7, <3>2, k \in 0 .. 3
    <3>4. k >= 2 => f[2] = e2
      BY ONLY <2>7, <3>3, k \in 0 .. 3
    <3>5. k >= 3 => f[3] = e3
      BY ONLY <2>7, <3>4, k \in 0 .. 3
    <3> QED
      BY ONLY <3>1, <3>2, <3>3, <3>4, <3>5
  <2> QED
    BY <2>5, <2>6, <2>8
<1>2. ASSUME NEW k \in 0 .. 2 PROVE EndOf(bytes, k + 1) = NextEnd(bytes, EndOf(bytes, k))
  <2>1. k \in 0 .. 3 /\ k + 1 \in 0 .. 3
    OBVIOUS
  <2>2. EndOf(bytes, k + 1) = At(k + 1) /\ EndOf(bytes, k) = At(k)
    BY ONLY <1>1, <2>1
  <2>3. k = 0 \/ k = 1 \/ k = 2
    OBVIOUS
  <2> QED
    BY ONLY <2>2, <2>3
<1>3. EndOf(bytes, 0) = 0
  <2>1. 0 \in 0 .. 3
    OBVIOUS
  <2> QED
    BY ONLY <1>1, <2>1
<1> QED
  BY <1>2, <1>3

\* The first byte behind a place that ends a number, or none.
LEMMA NextEndIs ==
    ASSUME NEW bytes \in Seq(Byte), NEW from \in 0 .. Len(bytes),
           NEW e, e = NextEnd(bytes, from)
    PROVE  /\ e \in from + 1 .. Len(bytes) + 1
           /\ e <= Len(bytes) => bytes[e] < Radix
           /\ \A i \in from + 1 .. e - 1 : ~(bytes[i] < Radix)
<1>1. PICK n : n = Len(bytes) /\ n \in Nat /\ from \in 0 .. n
  OBVIOUS
<1>2. PICK S : S = EndsBehind(bytes, from) \cup {n + 1}
  OBVIOUS
<1>3. \A i : i \in S <=> (i \in from + 1 .. n /\ bytes[i] < Radix) \/ i = n + 1
  BY <1>1, <1>2 DEF EndsBehind
<1>4. S \subseteq Nat /\ S # {}
  <2>1. \A i : i \in from + 1 .. n \/ i = n + 1 => i \in Nat
    BY ONLY <1>1
  <2>2. n + 1 \in S
    BY ONLY <1>3
  <2> QED
    BY ONLY <1>3, <2>1, <2>2
<1>5. e = Min(S)
  BY ONLY <1>1, <1>2, e = NextEnd(bytes, from) DEF NextEnd
<1>6. e \in S /\ \A y \in S : e <= y
  BY ONLY <1>4, <1>5, MinIs
<1>7. e \in from + 1 .. n + 1 /\ (e <= n => bytes[e] < Radix)
  BY ONLY <1>1, <1>3, <1>6
<1>8. ASSUME NEW i \in from + 1 .. e - 1 PROVE ~(bytes[i] < Radix)
  <2> SUFFICES ASSUME bytes[i] < Radix PROVE FALSE
    OBVIOUS
  <2>1. i \in from + 1 .. n /\ i \in Int /\ i < e
    BY ONLY <1>1, <1>7, <1>8
  <2>2. i \in S
    BY ONLY <1>3, <2>1, bytes[i] < Radix
  <2> QED
    BY ONLY <1>1, <1>6, <1>7, <2>1, <2>2
<1> QED
  BY ONLY <1>1, <1>7, <1>8

\* The field behind the k-th, which ends at from, ends at e, soon enough, and rest is
\* what follows from.
FieldAt(bytes, k, from, e, rest) ==
    /\ from \in 0 .. Len(bytes) /\ from = EndOf(bytes, k)
    /\ e \in from + 1 .. Len(bytes) /\ e = EndOf(bytes, k + 1) /\ e - from <= MaxBytes
    /\ rest \in Seq(Byte) /\ Len(rest) = Len(bytes) - from
    /\ \A i \in 1 .. Len(rest) : rest[i] = bytes[from + i]

\* The number that is spelled there is the sum of the digits.
LEMMA NumberIs ==
    ASSUME NEW bytes \in Seq(Byte), NEW k \in 0 .. 2, NEW from, NEW e, NEW rest, NEW s,
           FieldAt(bytes, k, from, e, rest), Sums(rest, s, e - from)
    PROVE  Number(bytes, k + 1) = s[e - from]
<1> SUFFICES ASSUME from \in 0 .. Len(bytes), from = EndOf(bytes, k),
                    e \in from + 1 .. Len(bytes), e = EndOf(bytes, k + 1),
                    e - from <= MaxBytes,
                    rest \in Seq(Byte), Len(rest) = Len(bytes) - from,
                    \A i \in 1 .. Len(rest) : rest[i] = bytes[from + i]
             PROVE  Number(bytes, k + 1) = s[e - from]
  BY Zenon DEF FieldAt
<1>0. PICK n, m : /\ n = Len(bytes) /\ n \in Nat /\ m = e - from /\ m \in 1 .. n - from
                  /\ from \in 0 .. n /\ e = from + m /\ m <= MaxBytes /\ e \in 1 .. n
                  /\ e \in Int /\ MaxBytes \in Nat
  <2>1. PICK n : n = Len(bytes) /\ n \in Nat
    BY ONLY bytes \in Seq(Byte)
  <2>2. PICK m : m = e - from
    OBVIOUS
  <2>3. from \in 0 .. n /\ e \in from + 1 .. n /\ MaxBytes \in Nat /\ m <= MaxBytes
    BY <2>1, <2>2, VarintAssumption
  <2> QED
    BY ONLY <2>1, <2>2, <2>3
<1> DEFINE A == StartOf(bytes, k + 1)
           Z == EndOf(bytes, k + 1)
           Adds(f) == f = [i \in A - 1 .. Z |->
                              IF i < A THEN 0
                              ELSE f[i - 1] + (bytes[i] % Radix) * Scale[i - A]]
           F == CHOOSE f : Adds(f)
           Digit(i) == (bytes[i] % Radix) * Scale[i - (from + 1)]
           g == [i \in from .. e |-> s[i - from]]
<1>1. s[0] = 0 /\ \A j \in 1 .. m : s[j] = s[j - 1] + Digit(from + j)
  <2>1. s[0] = 0 /\ \A j \in 1 .. m : j <= MaxBytes =>
                       s[j] = s[j - 1] + (rest[j] % Radix) * Scale[j - 1]
    BY ONLY <1>0, Sums(rest, s, e - from) DEF Sums
  <2>2. ASSUME NEW j \in 1 .. m PROVE s[j] = s[j - 1] + Digit(from + j)
    <3>1. j <= MaxBytes /\ j \in 1 .. Len(rest) /\ (from + j) - (from + 1) = j - 1
      BY ONLY <1>0, <2>2, Len(rest) = Len(bytes) - from
    <3>2. rest[j] = bytes[from + j]
      BY ONLY <3>1, \A i \in 1 .. Len(rest) : rest[i] = bytes[from + i]
    <3> QED
      BY ONLY <2>1, <2>2, <3>1, <3>2
  <2> QED
    BY ONLY <2>1, <2>2
<1>2. Number(bytes, k + 1) = F[Z]
  BY Zenon DEF Number
<1>3. A = from + 1 /\ Z = e
  <2>1. k + 1 - 1 = k
    OBVIOUS
  <2> QED
    BY <2>1 DEF StartOf
<1>4. from + 1 - 1 = from /\ from \in Int
  BY ONLY <1>0
<1> HIDE DEF A, Z
<1> HIDE DEF Digit
<1>5. Adds(g)
  <2>1. ASSUME NEW i \in from .. e
        PROVE  s[i - from] = IF i < from + 1 THEN 0 ELSE g[i - 1] + Digit(i)
    <3>1. CASE i < from + 1
      <4>1. i - from = 0
        BY ONLY <1>0, <3>1, i \in from .. e
      <4> QED
        BY ONLY <1>1, <3>1, <4>1
    <3>2. CASE ~(i < from + 1)
      <4>1. PICK j : j = i - from /\ j \in 1 .. m /\ from + j = i /\ j - 1 = i - 1 - from
                     /\ i - 1 \in from .. e
        BY ONLY <1>0, <3>2, i \in from .. e
      <4>2. g[i - 1] = s[j - 1]
        BY ONLY <1>4, <4>1
      <4> QED
        BY ONLY <1>1, <3>2, <4>1, <4>2
    <3> QED
      BY <3>1, <3>2
  <2>2. g = [i \in from .. e |-> s[i - from]]
    OBVIOUS
  <2> HIDE DEF g
  <2>3. A - 1 .. Z = from .. e /\ A = from + 1
    BY ONLY <1>3, <1>4
  <2>4. \A i \in from .. e : g[i] = s[i - from]
    BY ONLY <2>2
  <2>5. \A i \in A - 1 .. Z :
           g[i] = IF i < A THEN 0 ELSE g[i - 1] + (bytes[i] % Radix) * Scale[i - A]
    BY ONLY <2>1, <2>3, <2>4 DEF Digit
  <2>6. g = [i \in A - 1 .. Z |-> g[i]]
    BY ONLY <2>2, <2>3
  <2> QED
    BY ONLY <2>5, <2>6
<1> HIDE DEF g
<1>6. Adds(F)
  BY <1>5
<1>7. PICK f : f = F
  OBVIOUS
<1>8. \A i \in from .. e : f[i] = IF i < from + 1 THEN 0 ELSE f[i - 1] + Digit(i)
  <2> HIDE DEF F
  <2>1. f = [i \in A - 1 .. Z |->
                IF i < A THEN 0 ELSE f[i - 1] + (bytes[i] % Radix) * Scale[i - A]]
    BY ONLY <1>6, <1>7
  <2>2. \A i \in A - 1 .. Z :
           f[i] = IF i < A THEN 0 ELSE f[i - 1] + (bytes[i] % Radix) * Scale[i - A]
    BY ONLY <2>1, Zenon
  <2>3. A - 1 .. Z = from .. e /\ A = from + 1
    BY ONLY <1>3, <1>4
  <2> QED
    BY ONLY <2>2, <2>3 DEF Digit
<1> HIDE DEF F
<1> DEFINE S == {j \in Nat : f[from + j] = s[j]}
<1>9. 0 \in S
  <2>1. from \in from .. e /\ from < from + 1 /\ from + 0 = from
    BY ONLY <1>0
  <2>2. f[from + 0] = s[0]
    BY ONLY <1>1, <1>4, <1>8, <2>1
  <2> QED
    BY <2>2
<1>10. ASSUME NEW j \in 1 .. m, j - 1 \in S PROVE j \in S
  <2>1. /\ from + j \in from .. e /\ ~(from + j < from + 1) /\ (from + j) - 1 = from + (j - 1)
        /\ j \in Nat
    BY ONLY <1>0, j \in 1 .. m
  <2>2. f[from + (j - 1)] = s[j - 1]
    BY <1>10
  <2>3. f[from + j] = s[j]
    BY ONLY <1>1, <1>4, <1>8, <2>1, <2>2, j \in 1 .. m
  <2> QED
    BY <2>1, <2>3
<1> HIDE DEF S
<1>11. m \in S
  <2>1. m \in Nat /\ m \in 0 .. m
    BY ONLY <1>0
  <2> QED
    BY ONLY <1>9, <1>10, <2>1, UpTo
<1>12. f[e] = s[m]
  BY <1>0, <1>11 DEF S
<1> QED
  BY ONLY <1>0, <1>2, <1>3, <1>7, <1>12

\* What follows a place.
Behind(bytes, from) == SubSeq(bytes, from + 1, Len(bytes))

\* What lies behind a place has the bytes that lie there.
LEMMA BehindIs ==
    ASSUME NEW bytes \in Seq(Byte), NEW from \in 0 .. Len(bytes)
    PROVE  /\ Behind(bytes, from) \in Seq(Byte)
           /\ Len(Behind(bytes, from)) = Len(bytes) - from
           /\ \A i \in 1 .. Len(bytes) - from : Behind(bytes, from)[i] = bytes[from + i]
<1>1. PICK n : n = Len(bytes) /\ n \in Nat /\ from \in 0 .. n
  OBVIOUS
<1>2. \A i \in from + 1 .. n : bytes[i] \in Byte
  BY ONLY <1>1, bytes \in Seq(Byte)
<1>3. from + 1 \in Int /\ n \in Int
  BY ONLY <1>1
<1>4. PICK r : r = Behind(bytes, from)
  OBVIOUS
<1>5. r = SubSeq(bytes, from + 1, n)
  BY ONLY <1>1, <1>4 DEF Behind
<1>6. /\ r \in Seq(Byte) /\ Len(r) = (IF from + 1 <= n THEN n - (from + 1) + 1 ELSE 0)
      /\ \A i \in 1 .. n - (from + 1) + 1 : r[i] = bytes[from + 1 + i - 1]
  BY ONLY <1>2, <1>3, <1>5, SubSeqProperties
<1>7. Len(r) = n - from
  BY ONLY <1>1, <1>6
<1>8. ASSUME NEW i \in 1 .. n - from PROVE r[i] = bytes[from + i]
  <2>1. i \in 1 .. n - (from + 1) + 1 /\ from + 1 + i - 1 = from + i
    BY ONLY <1>1, i \in 1 .. n - from
  <2> QED
    BY ONLY <1>6, <2>1
<1> QED
  BY ONLY <1>1, <1>4, <1>6, <1>7, <1>8

\* What lies behind a place behind a place.
LEMMA BehindBehind ==
    ASSUME NEW bytes \in Seq(Byte), NEW from \in 0 .. Len(bytes),
           NEW m \in 0 .. Len(bytes) - from
    PROVE  Behind(Behind(bytes, from), m) = Behind(bytes, from + m)
<1>1. PICK n : n = Len(bytes) /\ n \in Nat /\ from \in 0 .. n /\ m \in 0 .. n - from
  OBVIOUS
<1>2. PICK r : /\ r = Behind(bytes, from) /\ r \in Seq(Byte) /\ Len(r) = n - from
               /\ \A i \in 1 .. n - from : r[i] = bytes[from + i]
  BY ONLY <1>1, bytes \in Seq(Byte), BehindIs, ZenonT(60)
<1>3. PICK t : /\ t = Behind(r, m) /\ t \in Seq(Byte) /\ Len(t) = n - from - m
               /\ \A i \in 1 .. n - from - m : t[i] = r[m + i]
  <2>1. m \in 0 .. Len(r) /\ r \in Seq(Byte)
    BY ONLY <1>1, <1>2
  <2>2. PICK t : t = Behind(r, m)
    OBVIOUS
  <2>3. /\ t \in Seq(Byte) /\ Len(t) = Len(r) - m
        /\ \A i \in 1 .. Len(r) - m : t[i] = r[m + i]
    BY ONLY <2>1, <2>2, BehindIs
  <2> QED
    BY ONLY <1>2, <2>2, <2>3
<1>4. PICK f : f = from + m /\ f \in 0 .. n
  BY ONLY <1>1
<1>5. PICK u : /\ u = Behind(bytes, f) /\ u \in Seq(Byte) /\ Len(u) = n - f
               /\ \A i \in 1 .. n - f : u[i] = bytes[f + i]
  BY ONLY <1>1, <1>4, bytes \in Seq(Byte), BehindIs, ZenonT(60)
<1>6. ASSUME NEW i \in 1 .. n - f PROVE t[i] = u[i]
  <2>1. i \in 1 .. n - from - m /\ m + i \in 1 .. n - from /\ from + (m + i) = f + i
    BY ONLY <1>1, <1>4, i \in 1 .. n - f
  <2> QED
    BY ONLY <1>2, <1>3, <1>5, <2>1, i \in 1 .. n - f, SMTT(60)
<1>7. Len(t) = Len(u) /\ Len(t) = n - f
  BY ONLY <1>1, <1>3, <1>4, <1>5
<1>8. t = u
  BY ONLY <1>3, <1>5, <1>6, <1>7, SeqEqual
<1> QED
  BY ONLY <1>2, <1>3, <1>4, <1>5, <1>8

\* A field spells a word: it ends, soon enough, and is not too large.
SpellsWord(bytes, j) ==
    /\ EndOf(bytes, j) <= Len(bytes)
    /\ EndOf(bytes, j) - StartOf(bytes, j) < MaxBytes
    /\ Number(bytes, j) < Word

\* varint_decode takes the next field iff it does.
LEMMA DecodesField ==
    ASSUME NEW bytes \in Seq(Byte), NEW k \in 0 .. 2,
           NEW from \in 0 .. Len(bytes), from = EndOf(bytes, k),
           NEW d, d = VarintDecode(Behind(bytes, from))
    PROVE  /\ SpellsWord(bytes, k + 1) =>
                  /\ d.n # 0 /\ d.n \in 1 .. Len(bytes) - from
                  /\ EndOf(bytes, k + 1) = from + d.n /\ d.value = Number(bytes, k + 1)
           /\ ~SpellsWord(bytes, k + 1) => d.n = 0
<1>1. PICK n : n = Len(bytes) /\ n \in Nat /\ from \in 0 .. n
  OBVIOUS
<1>2. PICK rest : /\ rest = Behind(bytes, from) /\ rest \in Seq(Byte) /\ Len(rest) = n - from
                  /\ \A i \in 1 .. n - from : rest[i] = bytes[from + i]
  BY ONLY <1>1, bytes \in Seq(Byte), BehindIs, ZenonT(60)
<1>3. PICK e : /\ e = EndOf(bytes, k + 1) /\ e \in from + 1 .. n + 1
               /\ e <= n => bytes[e] < Radix
               /\ \A i \in from + 1 .. e - 1 : ~(bytes[i] < Radix)
  <2>1. EndOf(bytes, k + 1) = NextEnd(bytes, from)
    BY EndOfIs
  <2> QED
    BY <1>1, <2>1, NextEndIs, SMTT(60)
<1>4. MaxBytes \in Nat /\ Radix \in Nat /\ Word \in Nat
  BY VarintAssumption
<1>5. PICK L : /\ L = Limit(rest) /\ L \in 0 .. n - from /\ L <= MaxBytes
               /\ \A i \in 1 .. n - from : i <= MaxBytes => i <= L
  BY ONLY <1>1, <1>2, <1>4 DEF Limit
<1>6. PICK s : Sums(rest, s, n - from)
  BY <1>2, SumsExist
<1>7. ASSUME NEW m \in 0 .. n - from PROVE Sums(rest, s, m)
  <2>1. /\ \A i \in 0 .. m : i \in 0 .. n - from
        /\ \A i \in 1 .. m : i \in 1 .. n - from
    BY ONLY <1>1, <1>7
  <2> QED
    BY ONLY <1>6, <2>1 DEF Sums
<1>8. Sums(rest, s, L)
  BY <1>5, <1>7
<1>9. SpellsWord(bytes, k + 1)
         <=> e <= n /\ e - from <= MaxBytes /\ Number(bytes, k + 1) < Word
  <2>1. k + 1 - 1 = k
    OBVIOUS
  <2>2. StartOf(bytes, k + 1) = from + 1
    BY <2>1 DEF StartOf
  <2>3. e - (from + 1) < MaxBytes <=> e - from <= MaxBytes
    BY ONLY <1>1, <1>3, <1>4
  <2> QED
    BY ONLY <1>1, <1>3, <2>2, <2>3 DEF SpellsWord
<1>10. CASE e <= n /\ e - from <= MaxBytes
  <2>1. PICK m : m = e - from /\ m \in 1 .. L /\ m \in 1 .. n - from /\ e = from + m /\ m # 0
                 /\ m \in 0 .. n - from /\ e \in from + 1 .. n /\ m <= MaxBytes
    <3>1. PICK m : m = e - from
      OBVIOUS
    <3>2. m \in 1 .. n - from /\ m <= MaxBytes /\ e = from + m /\ e \in from + 1 .. n
      BY ONLY <1>1, <1>3, <1>10, <3>1, SMTT(60)
    <3>3. m <= L
      BY ONLY <1>5, <3>2
    <3>4. m \in 1 .. L /\ m # 0 /\ m \in 0 .. n - from
      BY ONLY <1>1, <1>5, <3>2, <3>3
    <3> QED
      BY ONLY <3>1, <3>2, <3>4, Zenon
  <2>2. FirstEnd(rest, m)
    <3>1. rest[m] < Radix
      BY ONLY <1>2, <1>3, <1>10, <2>1
    <3>2. ASSUME NEW i \in 1 .. m - 1 PROVE ~(rest[i] < Radix)
      <4>1. i \in 1 .. n - from /\ from + i \in from + 1 .. e - 1
        BY ONLY <1>1, <2>1, i \in 1 .. m - 1
      <4> QED
        BY ONLY <1>2, <1>3, <4>1
    <3> QED
      BY ONLY <3>1, <3>2 DEF FirstEnd
  <2>3. VarintDecode(rest) = IF s[m] < Word THEN [n |-> m, value |-> s[m]]
                             ELSE [n |-> 0, value |-> 0]
    BY ONLY <1>2, <1>5, <1>8, <2>1, <2>2, DecodeIs
  <2>4. Number(bytes, k + 1) = s[m]
    <3>1. Sums(rest, s, e - from)
      BY ONLY <1>7, <2>1
    <3>2. Len(rest) = Len(bytes) - from /\ \A i \in 1 .. Len(rest) : rest[i] = bytes[from + i]
      BY ONLY <1>1, <1>2
    <3>3. e \in from + 1 .. Len(bytes) /\ e = EndOf(bytes, k + 1) /\ e - from <= MaxBytes
      BY ONLY <1>1, <1>3, <1>10, <2>1
    <3>4. Number(bytes, k + 1) = s[e - from]
      <4>1. FieldAt(bytes, k, from, e, rest)
        BY ONLY <1>2, <3>2, <3>3, from \in 0 .. Len(bytes), from = EndOf(bytes, k) DEF FieldAt
      <4> QED
        BY ONLY <3>1, <4>1, bytes \in Seq(Byte), k \in 0 .. 2, NumberIs, ZenonT(60)
    <3> QED
      BY ONLY <2>1, <3>4
  <2>5. CASE s[m] < Word
    <3>1. d = [n |-> m, value |-> s[m]]
      BY <1>2, <2>3, <2>5
    <3>2. d.n = m /\ d.value = s[m]
      BY ONLY <3>1
    <3>3. SpellsWord(bytes, k + 1)
      BY ONLY <1>9, <1>10, <2>4, <2>5
    <3> QED
      BY ONLY <1>1, <1>3, <2>1, <2>4, <3>2, <3>3
  <2>6. CASE ~(s[m] < Word)
    <3>1. d = [n |-> 0, value |-> 0]
      BY <1>2, <2>3, <2>6
    <3>2. d.n = 0
      BY ONLY <3>1
    <3>3. ~SpellsWord(bytes, k + 1)
      BY ONLY <1>9, <2>4, <2>6
    <3> QED
      BY ONLY <3>2, <3>3
  <2> QED
    BY ONLY <2>5, <2>6
<1>11. CASE ~(e <= n /\ e - from <= MaxBytes)
  <2>1. ASSUME NEW m \in 1 .. L, FirstEnd(rest, m) PROVE FALSE
    <3>1. m \in 1 .. n - from /\ m <= MaxBytes
      BY ONLY <1>1, <1>4, <1>5, <2>1
    <3>2. bytes[from + m] < Radix
      BY ONLY <1>2, <2>1, <3>1 DEF FirstEnd
    <3>3. ~(e > from + m)
      <4> SUFFICES ASSUME e > from + m PROVE FALSE
        OBVIOUS
      <4>1. from + m \in from + 1 .. e - 1
        BY ONLY <1>1, <1>3, <3>1, e > from + m
      <4> QED
        BY ONLY <1>3, <3>2, <4>1
    <3> QED
      BY ONLY <1>1, <1>3, <1>4, <1>11, <3>1, <3>3
  <2>2. VarintDecode(rest) = [n |-> 0, value |-> 0]
    BY ONLY <1>2, <1>5, <1>8, <2>1, DecodeIs
  <2>3. d.n = 0
    BY <1>2, <2>2
  <2>4. ~SpellsWord(bytes, k + 1)
    BY ONLY <1>9, <1>11
  <2> QED
    BY ONLY <2>3, <2>4
<1> QED
  BY ONLY <1>10, <1>11

\* A parse succeeds iff every field spells a word, and takes those words.
ParsesWords(bytes, k) ==
    LET p == Parsed(bytes, k) IN
    /\ p.ok <=> \A j \in 1 .. k : SpellsWord(bytes, j)
    /\ p.ok => /\ EndOf(bytes, k) \in 0 .. Len(bytes) /\ p.rest = Behind(bytes, EndOf(bytes, k))
               /\ \A j \in 1 .. k : p.values[j] = Number(bytes, j)

\* So it is for every number of fields an event can have.
LEMMA ParsedWords ==
    ASSUME NEW bytes \in Seq(Byte), NEW k \in 0 .. 3
    PROVE  ParsesWords(bytes, k)
<1> DEFINE S == {j \in Nat : ParsesWords(bytes, j)}
<1>1. 0 \in S
  <2>1. Parsed(bytes, 0) = ParseStart(bytes)
    BY ParsedIs
  <2>2. ParseStart(bytes).ok /\ ParseStart(bytes).rest = bytes
    BY DEF ParseStart
  <2>3. EndOf(bytes, 0) = 0
    BY EndOfIs
  <2>4. Behind(bytes, 0) = bytes
    <3>1. PICK n, r : n = Len(bytes) /\ n \in Nat /\ r = Behind(bytes, 0)
      OBVIOUS
    <3>2. 0 \in 0 .. n /\ n - 0 = n /\ \A i \in 1 .. n : 0 + i = i
      BY ONLY <3>1
    <3>3. r \in Seq(Byte) /\ Len(r) = n /\ \A i \in 1 .. n : r[i] = bytes[i]
      BY ONLY <3>1, <3>2, bytes \in Seq(Byte), BehindIs
    <3> QED
      BY ONLY <3>1, <3>3, bytes \in Seq(Byte), SeqEqual
  <2>5. 0 \in 0 .. Len(bytes) /\ \A j : j \notin 1 .. 0
    OBVIOUS
  <2>6. ParsesWords(bytes, 0)
    BY ONLY <2>1, <2>2, <2>3, <2>4, <2>5 DEF ParsesWords
  <2> QED
    BY <2>6
<1>2. ASSUME NEW j \in 1 .. 3, j - 1 \in S PROVE j \in S
  <2>1. PICK i : i = j - 1 /\ i \in 0 .. 2 /\ i \in 0 .. 3 /\ j = i + 1 /\ j \in Nat
    OBVIOUS
  <2>2. ParsesWords(bytes, i)
    BY <1>2, <2>1
  <2>3. PICK p : p = Parsed(bytes, i) /\ p \in Parses /\ (p.ok => Len(p.values) = i)
    <3>1. /\ Parsed(bytes, i) \in Parses
          /\ Parsed(bytes, i).ok => Len(Parsed(bytes, i).values) = i
      BY ONLY <2>1, bytes \in Seq(Byte), ParsedType
    <3> QED
      BY ONLY <3>1, Zenon
  <2>4. PICK q : q = Parsed(bytes, j) /\ q = TakeVarint(p)
    BY ONLY <2>1, <2>3, ParsedIs
  <2>5. /\ p.ok <=> \A l \in 1 .. i : SpellsWord(bytes, l)
        /\ p.ok => /\ EndOf(bytes, i) \in 0 .. Len(bytes)
                   /\ p.rest = Behind(bytes, EndOf(bytes, i))
                   /\ \A l \in 1 .. i : p.values[l] = Number(bytes, l)
    BY ONLY <2>2, <2>3 DEF ParsesWords
  <2>6. \A l : l \in 1 .. j <=> l \in 1 .. i \/ l = j
    BY ONLY <2>1
  <2>7. CASE ~p.ok
    <3>1. q = [p EXCEPT !.ok = FALSE]
      BY ONLY <2>4, <2>7 DEF TakeVarint
    <3>2. ~q.ok
      BY ONLY <2>3, <3>1 DEF Parses
    <3> QED
      BY ONLY <2>1, <2>4, <2>5, <2>6, <2>7, <3>2 DEF ParsesWords, S
  <2>8. CASE p.ok
    <3>1. PICK from : from = EndOf(bytes, i) /\ from \in 0 .. Len(bytes) /\ p.rest = Behind(bytes, from)
      BY ONLY <2>5, <2>8
    <3>2. PICK d : d = VarintDecode(Behind(bytes, from))
      OBVIOUS
    <3>3. /\ SpellsWord(bytes, j) =>
                 /\ d.n # 0 /\ d.n \in 1 .. Len(bytes) - from
                 /\ EndOf(bytes, j) = from + d.n /\ d.value = Number(bytes, j)
          /\ ~SpellsWord(bytes, j) => d.n = 0
      BY ONLY <2>1, <3>1, <3>2, bytes \in Seq(Byte), DecodesField
    <3>4. CASE ~SpellsWord(bytes, j)
      <4>1. d.n = 0 /\ d = VarintDecode(p.rest)
        BY ONLY <3>1, <3>2, <3>3, <3>4
      <4>2. q = [p EXCEPT !.ok = FALSE]
        BY ONLY <2>4, <4>1, Zenon DEF TakeVarint
      <4>3. ~q.ok
        BY ONLY <2>3, <4>2 DEF Parses
      <4> QED
        BY ONLY <2>1, <2>4, <2>6, <3>4, <4>3 DEF ParsesWords, S
    <3>5. CASE SpellsWord(bytes, j)
      <4>1. /\ d.n # 0 /\ d.n \in 1 .. Len(bytes) - from
            /\ EndOf(bytes, j) = from + d.n /\ d.value = Number(bytes, j)
        BY ONLY <3>3, <3>5
      <4>2. PICK m, v : m = d.n /\ v = d.value /\ m \in 1 .. Len(bytes) - from
                        /\ EndOf(bytes, j) = from + m /\ v = Number(bytes, j)
        BY ONLY <4>1
      <4>3. d = VarintDecode(p.rest) /\ d.n # 0
        BY ONLY <3>1, <3>2, <4>1
      <4>4. q = [p EXCEPT !.rest = SubSeq(p.rest, d.n + 1, Len(p.rest)),
                          !.values = Append(p.values, d.value)]
        BY ONLY <2>4, <2>8, <4>3, Zenon DEF TakeVarint
      <4>5. PICK r, vs : r = Behind(p.rest, m) /\ vs = Append(p.values, v)
        OBVIOUS
      <4>6. q = [p EXCEPT !.rest = r, !.values = vs]
        BY ONLY <4>2, <4>4, <4>5 DEF Behind
      <4>7. q.ok /\ q.rest = r /\ q.values = vs
        BY ONLY <2>3, <2>8, <4>6 DEF Parses
      <4>8. r = Behind(bytes, EndOf(bytes, j)) /\ EndOf(bytes, j) \in 0 .. Len(bytes)
        <5>1. PICK n : n = Len(bytes) /\ n \in Nat
          BY ONLY bytes \in Seq(Byte)
        <5>2. m \in 0 .. n - from /\ from + m \in 0 .. n /\ m \in 0 .. Len(bytes) - from
          BY ONLY <3>1, <4>2, <5>1
        <5>3. Behind(Behind(bytes, from), m) = Behind(bytes, from + m)
          BY ONLY <3>1, <5>2, bytes \in Seq(Byte), BehindBehind
        <5> QED
          BY ONLY <3>1, <4>2, <4>5, <5>1, <5>2, <5>3
      <4>9. ASSUME NEW l \in 1 .. j PROVE vs[l] = Number(bytes, l)
        <5>1. p.values \in Seq(U64) /\ Len(p.values) = i /\ v \in U64
          <6>1. p.rest \in Seq(Byte) /\ p.values \in Seq(U64)
            BY ONLY <2>3 DEF Parses
          <6>2. d.value \in U64
            BY ONLY <4>3, <6>1, VarintDecodeType
          <6> QED
            BY ONLY <2>3, <2>8, <4>2, <6>1, <6>2
        <5>2. /\ \A x \in 1 .. i : vs[x] = p.values[x]
              /\ vs[i + 1] = v
          BY ONLY <4>5, <5>1, AppendProperties
        <5> QED
          BY ONLY <2>1, <2>5, <2>6, <2>8, <4>2, <4>9, <5>2
      <4> QED
        BY ONLY <2>1, <2>4, <2>5, <2>6, <2>8, <3>5, <4>7, <4>8, <4>9 DEF ParsesWords, S
    <3> QED
      BY ONLY <3>4, <3>5
  <2> QED
    BY ONLY <2>7, <2>8
<1> HIDE DEF S
<1>3. k \in S
  <2>1. 3 \in Nat
    OBVIOUS
  <2> QED
    BY ONLY <1>1, <1>2, <2>1, k \in 0 .. 3, UpTo
<1> QED
  BY <1>3 DEF S

\* p is what next() makes of the n fields of an event of that type.
Taken(type, bytes, n, p) == n = Fields(type) /\ p = Parsed(bytes, n)

\* It is what they spell, and passes the range checks iff that is an event.
TakesWhatIsSpelled(type, bytes, n, p) ==
    /\ Spells(type, bytes) <=> n # 0 /\ p.ok /\ InRange(type, p.values)
    /\ p.ok => /\ Len(p.values) = n /\ p.rest = Behind(bytes, EndOf(bytes, n))
               /\ \A j \in 1 .. n : p.values[j] = Number(bytes, j)

\* next() accepts what it parsed iff the bytes spell an event of that type.
LEMMA SpellsIs ==
    ASSUME BlockTypes, NEW bytes \in Seq(Byte), NEW type, NEW n, NEW p,
           Taken(type, bytes, n, p)
    PROVE  TakesWhatIsSpelled(type, bytes, n, p)
<1> SUFFICES ASSUME n = Fields(type), p = Parsed(bytes, n)
             PROVE  /\ Spells(type, bytes) <=> n # 0 /\ p.ok /\ InRange(type, p.values)
                    /\ p.ok => /\ Len(p.values) = n /\ p.rest = Behind(bytes, EndOf(bytes, n))
                               /\ \A j \in 1 .. n : p.values[j] = Number(bytes, j)
  BY Zenon DEF Taken, TakesWhatIsSpelled
<1>1. n \in 0 .. 3
  BY FieldsIs
<1>2. ParsesWords(bytes, n)
  BY <1>1, ParsedWords
<1>3. /\ p.ok <=> \A j \in 1 .. n : SpellsWord(bytes, j)
      /\ p.ok => /\ p.rest = Behind(bytes, EndOf(bytes, n))
                 /\ \A j \in 1 .. n : p.values[j] = Number(bytes, j)
  BY ONLY <1>2, p = Parsed(bytes, n) DEF ParsesWords
<1>4. p \in Parses /\ (p.ok => Len(p.values) = n)
  BY ONLY <1>1, bytes \in Seq(Byte), p = Parsed(bytes, n), ParsedType
<1>5. Spells(type, bytes)
         <=> /\ n # 0 /\ \A j \in 1 .. n : SpellsWord(bytes, j)
             /\ n >= 2 => (IF type \in Mmio THEN reader.addr + ZigZagDecode(Number(bytes, 2))
                           ELSE Number(bytes, 2)) \in 0 .. Space32 - 1
             /\ n = 3 => Number(bytes, 3) < Space32
  BY ONLY n = Fields(type) DEF Spells, SpellsWord
<1>6. ASSUME p.ok
      PROVE  InRange(type, p.values)
                 <=> /\ n >= 2 => (IF type \in Mmio
                                   THEN reader.addr + ZigZagDecode(Number(bytes, 2))
                                   ELSE Number(bytes, 2)) \in 0 .. Space32 - 1
                     /\ n = 3 => Number(bytes, 3) < Space32
  <2>1. PICK vs : vs = p.values /\ Len(vs) = n /\ vs \in Seq(U64)
    BY ONLY <1>4, <1>6 DEF Parses
  <2>2. \A j \in 1 .. n : vs[j] = Number(bytes, j) /\ vs[j] \in U64
    BY ONLY <1>3, <1>6, <2>1
  <2>3. ASSUME n >= 2
        PROVE  /\ Number(bytes, 2) = vs[2] /\ vs[2] \in Nat /\ ZigZagDecode(vs[2]) \in Int
               /\ n = 3 => Number(bytes, 3) = vs[3]
    <3>1. 2 \in 1 .. n /\ (n = 3 => 3 \in 1 .. n)
      BY ONLY <1>1, <2>3
    <3>2. vs[2] \in U64 /\ Number(bytes, 2) = vs[2] /\ (n = 3 => Number(bytes, 3) = vs[3])
      BY ONLY <2>2, <3>1
    <3>3. ZigZagDecode(vs[2]) \in Int
      BY ONLY <3>2, ZigZagType
    <3> QED
      BY ONLY <3>2, <3>3 DEF U64
  <2>4. reader.addr \in Int /\ Space32 \in Nat
    BY BlockCodecAssumption DEF BlockTypes, Addresses
  <2>5. CASE n >= 2
    <3>1. PICK x, z : x = vs[2] /\ x \in Nat /\ z = ZigZagDecode(x) /\ z \in Int
      BY ONLY <2>3, <2>5
    <3>2. PICK a : a = reader.addr /\ a \in Int
      BY ONLY <2>4
    <3>3. (z >= -a /\ z <= Space32 - 1 - a) <=> a + z \in 0 .. Space32 - 1
      BY ONLY <2>4, <3>1, <3>2
    <3>4. x < Space32 <=> x \in 0 .. Space32 - 1
      BY ONLY <2>4, <3>1
    <3>5. InRange(type, vs)
             <=> /\ IF type \in Mmio THEN z >= -a /\ z <= Space32 - 1 - a ELSE x < Space32
                 /\ n = 3 => vs[3] < Space32
      BY ONLY <2>1, <2>5, <3>1, <3>2 DEF InRange
    <3>6. Number(bytes, 2) = x /\ (n = 3 => Number(bytes, 3) = vs[3])
      BY ONLY <2>3, <2>5, <3>1
    <3> QED
      BY ONLY <2>1, <2>5, <3>1, <3>2, <3>3, <3>4, <3>5, <3>6
  <2>6. CASE ~(n >= 2)
    BY ONLY <1>1, <2>1, <2>6 DEF InRange
  <2> QED
    BY ONLY <2>5, <2>6
<1> QED
  BY ONLY <1>3, <1>4, <1>5, <1>6

\* What one step of next() makes of what its payload spells.
ParsesItsPayload ==
    LET type  == Head(reader.payload)
        bytes == Tail(reader.payload)
        n     == Fields(type)
    IN IF ~Spells(type, bytes) THEN reader'.done /\ got' = got
       ELSE /\ ~reader'.done
            /\ reader'.payload = SubSeq(bytes, EndOf(bytes, n) + 1, Len(bytes))
            /\ Last(got').ts = (reader.ts + Number(bytes, 1)) % Word
            /\ n >= 2 /\ type \in Mmio =>
                  Last(got').addr = reader.addr + ZigZagDecode(Number(bytes, 2))
            /\ n >= 2 /\ type \notin Mmio => Last(got').addr = Number(bytes, 2)
            /\ n = 3 => Last(got').value = Number(bytes, 3)

\* Every step of next() does that.
LEMMA ParsesStep == BlockTypes /\ NextOfPayload => ParsesItsPayload
<1> SUFFICES ASSUME BlockTypes, NextOfPayload PROVE ParsesItsPayload
  OBVIOUS
<1>1. /\ reader \in [ts : U64, addr : Addresses, done : BOOLEAN, payload : Seq(Byte), seq : Nat]
      /\ got \in Seq([type : 1 .. 5, ts : U64, addr : Addresses, value : Addresses])
      /\ reader.payload # <<>> /\ ~reader.done
  BY DEF BlockTypes, NextOfPayload
<1>2. PICK type, bytes : /\ type = Head(reader.payload)
                         /\ bytes = Tail(reader.payload) /\ bytes \in Seq(Byte)
  <2>1. Tail(reader.payload) \in Seq(Byte)
    <3>1. reader.payload \in Seq(Byte) /\ reader.payload # <<>>
      BY ONLY <1>1
    <3> QED
      BY ONLY <3>1, HeadTailProperties
  <2> QED
    BY ONLY <2>1, Zenon
<1>3. PICK n, p : n = Fields(type) /\ p = Parsed(bytes, n)
  OBVIOUS
<1>4. /\ Spells(type, bytes) <=> n # 0 /\ p.ok /\ InRange(type, p.values)
      /\ p.ok => /\ Len(p.values) = n /\ p.rest = Behind(bytes, EndOf(bytes, n))
                 /\ \A j \in 1 .. n : p.values[j] = Number(bytes, j)
  <2>1. Taken(type, bytes, n, p) /\ bytes \in Seq(Byte)
    BY ONLY <1>2, <1>3 DEF Taken
  <2>2. TakesWhatIsSpelled(type, bytes, n, p)
    BY ONLY <2>1, BlockTypes, SpellsIs, Zenon
  <2> QED
    BY ONLY <2>2, Zenon DEF TakesWhatIsSpelled
<1>5. IF n = 0 \/ ~p.ok \/ ~InRange(type, p.values)
      THEN reader' = [reader EXCEPT !.done = TRUE] /\ UNCHANGED got
      ELSE /\ reader' = [reader EXCEPT !.payload = p.rest,
                             !.ts = EventOf(type, p.values).ts,
                             !.addr = IF type \in Mmio THEN AddrOf(type, p.values) ELSE @]
           /\ got' = Append(got, EventOf(type, p.values))
  <2>1. p = Parsed(Tail(reader.payload), Fields(type))
    BY ONLY <1>2, <1>3
  <2>2. IF Fields(type) = 0 \/ ~p.ok \/ ~InRange(type, p.values)
        THEN reader' = [reader EXCEPT !.done = TRUE] /\ UNCHANGED got
        ELSE /\ reader' = [reader EXCEPT !.payload = p.rest,
                               !.ts = EventOf(type, p.values).ts,
                               !.addr = IF type \in Mmio THEN AddrOf(type, p.values) ELSE @]
             /\ got' = Append(got, EventOf(type, p.values))
    <3>1. type = Head(reader.payload)
      BY ONLY <1>2
    <3> QED
      BY ONLY NextOfPayload, <2>1, <3>1, NextIs, ZenonT(60)
  <2> QED
    BY ONLY <1>3, <2>2
<1>6. n \in 0 .. 3
  BY ONLY <1>3, FieldsIs
<1>7. CASE ~Spells(type, bytes)
  <2>1. reader' = [reader EXCEPT !.done = TRUE] /\ got' = got
    BY ONLY <1>4, <1>5, <1>7
  <2>2. reader'.done
    BY ONLY <1>1, <2>1
  <2> QED
    BY ONLY <1>2, <1>7, <2>1, <2>2 DEF ParsesItsPayload
<1>8. CASE Spells(type, bytes)
  <2>1. n # 0 /\ p.ok /\ InRange(type, p.values)
    BY ONLY <1>4, <1>8
  <2>2. PICK vs : vs = p.values /\ Len(vs) = n /\ \A j \in 1 .. n : vs[j] = Number(bytes, j)
    BY ONLY <1>4, <2>1
  <2>3. PICK ev : ev = EventOf(type, vs)
    OBVIOUS
  <2>4. PICK a : a = (IF type \in Mmio THEN AddrOf(type, vs) ELSE reader.addr)
    OBVIOUS
  <2>5. reader' = [reader EXCEPT !.payload = p.rest, !.ts = ev.ts, !.addr = a]
    BY ONLY <1>5, <2>1, <2>2, <2>3, <2>4
  <2>6. ~reader'.done /\ reader'.payload = p.rest
    BY ONLY <1>1, <2>5
  <2>7. reader'.payload = SubSeq(bytes, EndOf(bytes, n) + 1, Len(bytes))
    BY ONLY <1>4, <2>1, <2>6 DEF Behind
  <2>8. got' = Append(got, ev)
    BY ONLY <1>5, <2>1, <2>2, <2>3
  <2>9. Last(got') = ev
    <3>1. PICK m : m = Len(got) /\ m \in Nat
      BY ONLY <1>1
    <3>2. Len(got') = m + 1 /\ got'[m + 1] = ev
      BY ONLY <1>1, <2>8, <3>1
    <3> QED
      BY ONLY <3>2 DEF Last
  <2>10. /\ ev.ts = (reader.ts + vs[1]) % Word /\ ev.addr = AddrOf(type, vs)
         /\ n = 3 => ev.value = vs[3]
    BY ONLY <2>2, <2>3 DEF EventOf
  <2>11. /\ n >= 2 /\ type \in Mmio => ev.addr = reader.addr + ZigZagDecode(vs[2])
         /\ n >= 2 /\ type \notin Mmio => ev.addr = vs[2]
    BY ONLY <1>6, <2>2, <2>10 DEF AddrOf
  <2>12. /\ vs[1] = Number(bytes, 1) /\ (n >= 2 => vs[2] = Number(bytes, 2))
         /\ n = 3 => vs[3] = Number(bytes, 3)
    <3>1. 1 \in 1 .. n /\ (n >= 2 => 2 \in 1 .. n) /\ (n = 3 => 3 \in 1 .. n)
      BY ONLY <1>6, <2>1
    <3> QED
      BY ONLY <2>2, <3>1
  <2> QED
    BY ONLY <1>2, <1>3, <1>8, <2>6, <2>7, <2>9, <2>10, <2>11, <2>12 DEF ParsesItsPayload
<1> QED
  BY ONLY <1>7, <1>8

\* Of any bytes, forged ones too, the reader takes an event iff they spell one that
\* fits its fields, and then that one and no byte more; otherwise it stops
\* (ParsesExactly).
THEOREM ParsesCorrect == BlockSpec => ParsesExactly
<1>1. BlockInv /\ StreamInv /\ [BlockNext]_vars
         => [reader.payload # <<>> => ParsesItsPayload]_vars
  <2> SUFFICES ASSUME BlockInv, StreamInv, BlockNext, reader.payload # <<>>
               PROVE  ParsesItsPayload
    BY SMTT(60)
  <2>1. NextOfPayload
    BY ZenonT(60) DEF BlockNext, StageEvent, SendBlock, DamageBlock, ForgeBlock, LoadBlock,
       Idle, StreamInv
  <2> QED
    BY <2>1, ParsesStep DEF BlockInv
<1>2. BlockSpec => [][reader.payload # <<>> => ParsesItsPayload]_vars
  BY <1>1, BlockTypeCorrect, InStepCorrect, PTL DEF BlockSpec
<1> QED
  BY ONLY <1>2, Zenon DEF ParsesExactly, ParsesItsPayload
================================================================================
