---------------------------- MODULE RingBufferProofs ---------------------------
(****************************************************************************)
(* The ring buffer for every capacity, width of its counters, set of blocks *)
(* and limit of a drain: its invariants, and that it implements the bounded *)
(* FIFO of ByteQueue.                                                       *)
(*                                                                          *)
(* The argument.  The cells a reader or a writer touches are numbered from  *)
(* the tail: Cell(k) for k < Cap, all different although both counters wrap *)
(* around.  The bytes held are in the cells below Used, the bytes a push    *)
(* copies go to cells from Used up to what there is room for, and those a   *)
(* drain offers are the first of the held ones.  Publishing and consuming   *)
(* move the numbering, never a byte.                                        *)
(****************************************************************************)
EXTENDS RingBuffer, SequenceTheorems, TLAPS

--------------------------------------------------------------------------------
(* Counters that wrap around.                                                *)

\* What the remainder is, for any divisor.
LEMMA DivMod ==
    ASSUME NEW C \in Nat \ {0}, NEW a \in Int
    PROVE  a = C * (a \div C) + (a % C) /\ a % C \in 0 .. C - 1 /\ a \div C \in Int
OBVIOUS

\* Quotient and remainder are the only ones.
LEMMA OnlyRemainder ==
    ASSUME NEW C \in Nat \ {0}, NEW q \in Int, NEW r \in 0 .. C - 1,
           NEW p \in Int, NEW s \in 0 .. C - 1, C * q + r = C * p + s
    PROVE  q = p /\ r = s
<1>1. C * (q - p) = s - r  OBVIOUS
<1>2. ~(q - p >= 1)
  <2> SUFFICES ASSUME q - p >= 1 PROVE FALSE  OBVIOUS
  <2>1. C * (q - p) >= C  OBVIOUS
  <2> QED  BY <2>1, <1>1
<1>3. ~(p - q >= 1)
  <2> SUFFICES ASSUME p - q >= 1 PROVE FALSE  OBVIOUS
  <2>1. C * (p - q) >= C  OBVIOUS
  <2>2. C * (p - q) = r - s  BY <1>1
  <2> QED  BY <2>1, <2>2
<1> QED  BY <1>1, <1>2, <1>3

\* Less than a whole turn away from each other, two positions are different.
LEMMA WithinATurn ==
    ASSUME NEW C \in Nat \ {0}, NEW a \in Nat, NEW b \in Nat, a < b, b - a < C
    PROVE  a % C # b % C
<1> SUFFICES ASSUME a % C = b % C PROVE FALSE  OBVIOUS
<1> DEFINE q == a \div C  p == b \div C  r == a % C
<1>1. /\ q \in Int /\ p \in Int /\ r \in 0 .. C - 1
      /\ a = C * q + r /\ b = C * p + r
  BY DivMod
<1> HIDE DEF q, p, r
<1>2. C * (p - q) = b - a  BY <1>1
<1>3. ~(p - q >= 1)
  <2> SUFFICES ASSUME p - q >= 1 PROVE FALSE  BY <1>1
  <2>1. C * (p - q) >= C  BY <1>1
  <2> QED  BY <2>1, <1>2
<1>4. ~(p - q <= 0)
  <2> SUFFICES ASSUME p - q <= 0 PROVE FALSE  BY <1>1
  <2>1. C * (p - q) <= 0  BY <1>1
  <2> QED  BY <2>1, <1>2
<1> QED  BY <1>1, <1>3, <1>4

\* The remainder of a remainder's neighbour, up to the end of the turn.
LEMMA InTheTurn ==
    ASSUME NEW C \in Nat \ {0}, NEW a \in Nat, NEW k \in Nat, (a % C) + k < C
    PROVE  (a % C) + k = (a + k) % C
<1> DEFINE q == a \div C  r == a % C  p == (a + k) \div C  s == (a + k) % C
<1>1. q \in Int /\ r \in 0 .. C - 1 /\ a = C * q + r  BY DivMod
<1>2. p \in Int /\ s \in 0 .. C - 1 /\ a + k = C * p + s  BY DivMod, SMTT(60)
<1>3. r + k < C  OBVIOUS
<1> HIDE DEF q, r, p, s
<1>4. C * q + (r + k) = C * p + s  BY <1>1, <1>2
<1>5. r + k = s  BY <1>1, <1>2, <1>3, <1>4, OnlyRemainder
<1> QED  BY <1>5 DEF r, s

\* Positions a multiple of the divisor apart have the same remainder.
LEMMA TurnsApart ==
    ASSUME NEW C \in Nat \ {0}, NEW a \in Int, NEW b \in Int, NEW n \in Int,
           b = a - n * C
    PROVE  b % C = a % C
<1> DEFINE q == a \div C  r == a % C  p == b \div C  s == b % C
<1>1. q \in Int /\ r \in 0 .. C - 1 /\ a = C * q + r  BY DivMod
<1>2. p \in Int /\ s \in 0 .. C - 1 /\ b = C * p + s  BY DivMod
<1> HIDE DEF q, r, p, s
<1>3. C * (q - n) = C * q - n * C  BY <1>1
<1>4. C * (q - n) + r = C * p + s  BY <1>1, <1>2, <1>3
<1>5. q - n \in Int  BY <1>1
<1>6. r = s  BY <1>1, <1>2, <1>4, <1>5, OnlyRemainder
<1> QED  BY <1>6 DEF r, s

\* The values of head and tail.
Counter == 0 .. Wrap - 1

\* The sum and the difference of wrapped counters.
LEMMA PlusIs ==
    ASSUME NEW c \in Counter, NEW n \in Counter
    PROVE  Plus(c, n) = IF c + n < Wrap THEN c + n ELSE c + n - Wrap
BY CapAssumption DEF Plus, Counter

\* See PlusIs.
LEMMA MinusIs ==
    ASSUME NEW a \in Counter, NEW b \in Counter
    PROVE  Minus(a, b) = IF a >= b THEN a - b ELSE a - b + Wrap
BY CapAssumption DEF Minus, Counter

\* The counters tell a full buffer from an empty one.
LEMMA CounterFits ==
    /\ Cap \in Nat \ {0, 1} /\ Wrap \in Nat \ {0} /\ 2 * Cap <= Wrap
    /\ 0 .. Cap \subseteq Counter
<1> PICK n \in 2 .. Wrap : Wrap = n * Cap  BY CapAssumption
<1>1. n * Cap >= 2 * Cap  BY CapAssumption
<1> QED  BY <1>1, CapAssumption DEF Counter

\* Moving a counter twice, and a difference when either side has moved.
LEMMA PlusPlus ==
    ASSUME NEW c \in Counter, NEW i \in Nat, NEW k \in Nat, i + k < Wrap
    PROVE  Plus(c, i) \in Counter /\ Plus(Plus(c, i), k) = Plus(c, i + k)
<1>1. i \in Counter /\ k \in Counter /\ i + k \in Counter  BY CounterFits DEF Counter
<1>2. Plus(c, i) = IF c + i < Wrap THEN c + i ELSE c + i - Wrap  BY <1>1, PlusIs
<1>3. Plus(c, i) \in Counter  BY <1>1, <1>2, CounterFits DEF Counter
<1>4. Plus(Plus(c, i), k) = IF Plus(c, i) + k < Wrap THEN Plus(c, i) + k
                            ELSE Plus(c, i) + k - Wrap  BY <1>1, <1>3, PlusIs
<1>5. Plus(c, i + k) = IF c + (i + k) < Wrap THEN c + (i + k) ELSE c + (i + k) - Wrap
  BY <1>1, PlusIs
<1> QED  BY <1>1, <1>2, <1>3, <1>4, <1>5, CounterFits DEF Counter

\* A difference when either side has moved.
LEMMA MinusMoves ==
    ASSUME NEW a \in Counter, NEW b \in Counter, NEW n \in Nat
    PROVE  /\ Minus(a, b) \in Counter
           /\ a = Plus(b, Minus(a, b))
           /\ Minus(a, b) + n < Wrap => Minus(Plus(a, n), b) = Minus(a, b) + n
           /\ n <= Minus(a, b) => Minus(a, Plus(b, n)) = Minus(a, b) - n
<1>1. Minus(a, b) = IF a >= b THEN a - b ELSE a - b + Wrap  BY MinusIs
<1>2. Minus(a, b) \in Counter  BY <1>1, CounterFits DEF Counter
<1>3. a = Plus(b, Minus(a, b))  BY <1>1, <1>2, PlusIs, CounterFits DEF Counter
<1>4. ASSUME Minus(a, b) + n < Wrap PROVE Minus(Plus(a, n), b) = Minus(a, b) + n
  <2>1. n \in Counter  BY <1>2, <1>4, CounterFits DEF Counter
  <2>2. Plus(a, n) = IF a + n < Wrap THEN a + n ELSE a + n - Wrap  BY <2>1, PlusIs
  <2>3. Plus(a, n) \in Counter  BY <2>1, <2>2, CounterFits DEF Counter
  <2>4. Minus(Plus(a, n), b) = IF Plus(a, n) >= b THEN Plus(a, n) - b
                               ELSE Plus(a, n) - b + Wrap  BY <2>3, MinusIs
  <2> QED  BY <1>1, <1>4, <2>2, <2>4, CounterFits DEF Counter
<1>5. ASSUME n <= Minus(a, b) PROVE Minus(a, Plus(b, n)) = Minus(a, b) - n
  <2>1. n \in Counter  BY <1>2, <1>5, CounterFits DEF Counter
  <2>2. Plus(b, n) = IF b + n < Wrap THEN b + n ELSE b + n - Wrap  BY <2>1, PlusIs
  <2>3. Plus(b, n) \in Counter  BY <2>1, <2>2, CounterFits DEF Counter
  <2>4. Minus(a, Plus(b, n)) = IF a >= Plus(b, n) THEN a - Plus(b, n)
                               ELSE a - Plus(b, n) + Wrap  BY <2>3, MinusIs
  <2> QED  BY <1>1, <1>5, <2>2, <2>4, CounterFits DEF Counter
<1> QED  BY <1>2, <1>3, <1>4, <1>5

--------------------------------------------------------------------------------
(* The cells.                                                                *)

\* The wrap of the counter does not move the cell: Cap divides Wrap.
LEMMA CellIs ==
    ASSUME NEW c \in Counter, NEW k \in Counter
    PROVE  Masked(Plus(c, k)) = (c + k) % Cap /\ Masked(Plus(c, k)) \in 0 .. Cap - 1
<1> PICK n \in 2 .. Wrap : Wrap = n * Cap  BY CapAssumption
<1>1. (c + k - Wrap) % Cap = (c + k) % Cap
  <2>1. /\ c + k \in Int /\ c + k - Wrap \in Int /\ n \in Int
        /\ c + k - Wrap = (c + k) - n * Cap
    BY CounterFits DEF Counter
  <2> QED  BY <2>1, TurnsApart, CounterFits, ZenonT(60)
<1>2. (c + k) % Cap \in 0 .. Cap - 1  BY DivMod, CounterFits DEF Counter
<1> QED  BY <1>1, <1>2, PlusIs DEF Masked

\* Cells numbered from the same counter are different.
LEMMA CellsDiffer ==
    ASSUME NEW c \in Counter, NEW i \in 0 .. Cap - 1, NEW k \in 0 .. Cap - 1, i # k
    PROVE  Masked(Plus(c, i)) # Masked(Plus(c, k))
<1>1. i \in Counter /\ k \in Counter  BY CounterFits DEF Counter
<1>2. /\ Masked(Plus(c, i)) = (c + i) % Cap
      /\ Masked(Plus(c, k)) = (c + k) % Cap
  BY <1>1, CellIs
<1>3. CASE i < k
  <2>1. /\ c + i \in Nat /\ c + k \in Nat /\ Cap \in Nat \ {0}
        /\ c + i < c + k /\ (c + k) - (c + i) < Cap
    BY <1>1, <1>3, CounterFits DEF Counter
  <2>2. (c + i) % Cap # (c + k) % Cap  BY <2>1, WithinATurn
  <2> QED  BY <2>2, <1>2
<1>4. CASE k < i
  <2>1. /\ c + i \in Nat /\ c + k \in Nat /\ Cap \in Nat \ {0}
        /\ c + k < c + i /\ (c + i) - (c + k) < Cap
    BY <1>1, <1>4, CounterFits DEF Counter
  <2>2. (c + k) % Cap # (c + i) % Cap  BY <2>1, WithinATurn
  <2> QED  BY <2>2, <1>2
<1> QED  BY <1>3, <1>4, CounterFits

Cell(k) == Masked(Plus(tail, k))

CountersInv ==
    /\ store \in [0 .. Cap - 1 -> Byte]
    /\ head \in Counter /\ tail \in Counter /\ Used \in 0 .. Cap
    /\ high_water \in 0 .. Cap

PushInv ==
    /\ push \in [at : {"idle", "copy", "mark"}, block : Blocks \cup {<<>>}, copied : Nat]
    /\ push.at = "copy" =>
          /\ push.block \in Blocks /\ Len(push.block) <= Space
          /\ push.copied <= Len(push.block)
          /\ \A k \in 0 .. push.copied - 1 :
                store[Masked(Plus(head, k))] = push.block[k + 1]

DrainInv ==
    /\ drain \in [at : {"idle", "send"}, sent : 0 .. MaxBytes, offset : Nat,
                  avail : Nat, read : Seq(Byte)]
    /\ drain.at = "send" =>
          /\ drain.offset = Masked(tail)
          /\ drain.avail <= Cap - drain.offset /\ drain.avail <= Used
          /\ drain.avail <= MaxBytes - drain.sent
          /\ Len(drain.read) <= drain.avail
          /\ \A k \in 1 .. Len(drain.read) : drain.read[k] = store[drain.offset + k - 1]

Inv == CountersInv /\ PushInv /\ DrainInv

\* Numbered from the head, the cells go on behind those held.
LEMMA BehindTheHeld ==
    ASSUME CountersInv, NEW k \in Nat, Used + k < Cap
    PROVE  Masked(Plus(head, k)) = Cell(Used + k)
<1>1. head = Plus(tail, Used)  BY MinusMoves DEF CountersInv, Used
<1>2. Plus(Plus(tail, Used), k) = Plus(tail, Used + k)
  BY PlusPlus, CounterFits DEF CountersInv
<1> QED  BY <1>1, <1>2 DEF Cell

\* The chunk is made of the first cells held.
LEMMA ChunkIsHeld ==
    ASSUME CountersInv, DrainInv, drain.at = "send", NEW k \in 0 .. drain.avail - 1
    PROVE  drain.offset + k = Cell(k) /\ k < Used /\ Cell(k) \in 0 .. Cap - 1
<1>1. k \in Nat /\ k < Used /\ k \in Counter
  BY CounterFits DEF CountersInv, DrainInv, Counter
<1>2. tail \in Nat /\ Cap \in Nat \ {0}  BY CounterFits DEF CountersInv, Counter
<1>3. (tail % Cap) + k = (tail + k) % Cap
  <2>1. tail % Cap \in 0 .. Cap - 1  BY <1>2, DivMod
  <2>2. (tail % Cap) + k < Cap  BY <1>1, <1>2, <2>1 DEF DrainInv, Masked
  <2> QED  BY <1>1, <1>2, <2>2, InTheTurn
<1>4. Cell(k) = (tail + k) % Cap /\ Cell(k) \in 0 .. Cap - 1
  BY <1>1, CellIs DEF CountersInv, Cell
<1> QED  BY <1>1, <1>3, <1>4 DEF DrainInv, Masked

\* What a push copies and what a drain offers never share a cell.
LEMMA Apart ==
    ASSUME Inv, push.at = "copy", drain.at = "send",
           NEW i \in 0 .. Len(push.block) - 1, NEW k \in 0 .. drain.avail - 1
    PROVE  Masked(Plus(head, i)) # drain.offset + k
<1>1. Len(push.block) \in Nat /\ i \in Nat /\ Used + i < Cap
  BY BlocksAssumption, CounterFits DEF Inv, CountersInv, PushInv, Space
<1>2. Masked(Plus(head, i)) = Cell(Used + i)  BY <1>1, BehindTheHeld DEF Inv
<1>3. drain.offset + k = Cell(k) /\ k < Used  BY ChunkIsHeld DEF Inv
<1>4. /\ Used + i \in 0 .. Cap - 1 /\ k \in 0 .. Cap - 1 /\ Used + i # k
  BY <1>1, <1>3, CounterFits DEF Inv, CountersInv
<1>5. tail \in Counter  BY DEF Inv, CountersInv
<1>6. Cell(Used + i) # Cell(k)  BY <1>4, <1>5, CellsDiffer DEF Cell
<1> QED  BY <1>2, <1>3, <1>6

\* The block that is being copied.
LEMMA BlockIsBytes ==
    ASSUME PushInv, push.at = "copy"
    PROVE  /\ push.block \in Seq(Byte) /\ Len(push.block) \in Nat \ {0}
           /\ \A k \in 1 .. Len(push.block) : push.block[k] \in Byte
<1>1. push.block \in Seq(Byte) /\ push.block # <<>>
  BY BlocksAssumption DEF PushInv
<1>2. Len(push.block) \in Nat \ {0}  BY <1>1, EmptySeq
<1> QED  BY <1>1, <1>2, ElementOfSeq

--------------------------------------------------------------------------------
(* The invariant.                                                            *)

\* Initially the buffer is empty and both sides are idle.
LEMMA InitInv == Init => Inv
<1> SUFFICES ASSUME Init PROVE Inv  OBVIOUS
<1>1. CountersInv
  <2>1. Minus(0, 0) = 0  BY CounterFits, MinusIs DEF Counter
  <2> QED  BY <2>1, CounterFits DEF Init, CountersInv, Counter, Used
<1>2. PushInv  BY DEF Init, PushInv, NoPush
<1>3. DrainInv  BY BlocksAssumption DEF Init, DrainInv, NoDrain
<1> QED  BY <1>1, <1>2, <1>3 DEF Inv

\* The byte that is copied goes to a cell of the store, and to none that was
\* copied before or is being sent.
LEMMA CopyByteInv == Inv /\ CopyByte => Inv'
<1> SUFFICES ASSUME Inv, CopyByte PROVE Inv'  OBVIOUS
<1> DEFINE cell == Masked(Plus(head, push.copied))
<1>1. /\ push.at = "copy" /\ push.copied < Len(push.block)
      /\ store' = [store EXCEPT ![cell] = push.block[push.copied + 1]]
      /\ push' = [push EXCEPT !.copied = @ + 1]
      /\ UNCHANGED <<head, tail, high_water, drain>>
  BY DEF CopyByte
<1>2. /\ push.copied \in Nat /\ Len(push.block) \in Nat
      /\ Len(push.block) <= Cap /\ push.copied \in Counter
      /\ push.block[push.copied + 1] \in Byte
  BY <1>1, BlockIsBytes, CounterFits, SMTT(60) DEF Inv, CountersInv, PushInv, Space, Counter
<1>3. cell \in 0 .. Cap - 1  BY <1>2, CellIs DEF Inv, CountersInv
<1>4. store \in [0 .. Cap - 1 -> Byte]  BY DEF Inv, CountersInv
<1> HIDE DEF cell
<1>5. CountersInv'
  BY <1>1, <1>2, <1>3 DEF Inv, CountersInv, Used
<1>6. PushInv'
  <2>1. ASSUME NEW k \in 0 .. push.copied
        PROVE  store'[Masked(Plus(head, k))] = push.block[k + 1]
    <3>1. CASE k = push.copied  BY <1>1, <1>3, <1>4, <3>1 DEF cell
    <3>2. CASE k < push.copied
      <4>1. /\ k \in 0 .. Cap - 1 /\ push.copied \in 0 .. Cap - 1 /\ k # push.copied
            /\ k \in Counter /\ head \in Counter
        BY <1>1, <1>2, <3>2, CounterFits, SMTT(60) DEF Counter, Inv, CountersInv
      <4>2. Masked(Plus(head, k)) # cell  BY <4>1, CellsDiffer DEF cell
      <4>3. Masked(Plus(head, k)) \in 0 .. Cap - 1  BY <4>1, CellIs
      <4>4. store[Masked(Plus(head, k))] = push.block[k + 1]
        BY <1>1, <1>2, <3>2 DEF Inv, PushInv
      <4> QED  BY <1>1, <1>4, <4>2, <4>3, <4>4
    <3> QED  BY <1>2, <3>1, <3>2
  <2>2. push'.copied = push.copied + 1 /\ push'.block = push.block /\ push'.at = "copy"
    BY <1>1 DEF Inv, PushInv
  <2>3. \A k \in 0 .. push'.copied - 1 :
            store'[Masked(Plus(head', k))] = push'.block[k + 1]
    BY <1>1, <1>2, <2>1, <2>2
  <2> QED  BY <1>1, <1>2, <2>2, <2>3 DEF Inv, PushInv, Space, Used
<1>7. DrainInv'
  <2>1. ASSUME drain.at = "send", NEW k \in 1 .. Len(drain.read)
        PROVE  store'[drain.offset + k - 1] = store[drain.offset + k - 1]
    <3>1. Len(drain.read) \in Nat /\ Len(drain.read) <= drain.avail
      BY <2>1, LenProperties DEF Inv, DrainInv
    <3>2. k - 1 \in 0 .. drain.avail - 1  BY <3>1 DEF Inv, DrainInv
    <3>3. push.copied \in 0 .. Len(push.block) - 1  BY <1>1, <1>2
    <3>4. cell # drain.offset + (k - 1)  BY <1>1, <2>1, <3>2, <3>3, Apart DEF cell
    <3>5. drain.offset + (k - 1) \in 0 .. Cap - 1
      BY <2>1, <3>2, ChunkIsHeld DEF Inv
    <3>6. drain.offset + (k - 1) = drain.offset + k - 1
      BY DEF Inv, DrainInv
    <3> QED  BY <1>1, <1>4, <3>4, <3>5, <3>6
  <2> QED  BY <1>1, <2>1 DEF Inv, DrainInv, Used
<1> QED  BY <1>5, <1>6, <1>7 DEF Inv

\* A block becomes visible that had room.
LEMMA PublishUsed ==
    ASSUME Inv, Publish
    PROVE  /\ Used' = Used + Len(push.block) /\ Used' <= Cap
           /\ head' \in Counter /\ Len(push.block) \in Nat \ {0}
<1>1. push.at = "copy" /\ head' = Plus(head, Len(push.block)) /\ tail' = tail
  BY DEF Publish
<1>2. Len(push.block) \in Nat \ {0} /\ Used + Len(push.block) <= Cap
  BY <1>1, BlockIsBytes, CounterFits DEF Inv, CountersInv, PushInv, Space
<1>3. Used + Len(push.block) < Wrap /\ Len(push.block) < Wrap
  BY <1>2, CounterFits DEF Inv, CountersInv
<1>4. Used' = Used + Len(push.block)
  BY <1>1, <1>2, <1>3, MinusMoves DEF Used, Inv, CountersInv
<1>5. head' \in Counter
  <2>1. Len(push.block) + 0 < Wrap  BY <1>2, <1>3
  <2> QED  BY <1>1, <1>2, <2>1, PlusPlus DEF Inv, CountersInv
<1> QED  BY <1>2, <1>4, <1>5

\* The copied bytes are held from here on.
LEMMA PublishInv == Inv /\ Publish => Inv'
<1> SUFFICES ASSUME Inv, Publish PROVE Inv'  OBVIOUS
<1>1. /\ push' = [push EXCEPT !.at = "mark"]
      /\ UNCHANGED <<store, tail, high_water, drain>>
  BY DEF Publish
<1>2. /\ Used' = Used + Len(push.block) /\ Used' <= Cap
      /\ head' \in Counter /\ Len(push.block) \in Nat \ {0}
  BY PublishUsed
<1>3. CountersInv'  BY <1>1, <1>2 DEF Inv, CountersInv
<1>4. PushInv'  BY <1>1 DEF Inv, PushInv
<1>5. DrainInv'  BY <1>1, <1>2 DEF Inv, CountersInv, DrainInv
<1> QED  BY <1>3, <1>4, <1>5 DEF Inv

\* What is offered are held bytes in adjacent cells.
LEMMA PeekInv == Inv /\ Peek => Inv'
<1> SUFFICES ASSUME Inv, Peek PROVE Inv'  OBVIOUS
<1> DEFINE offset == Masked(tail)
           ends == {Cap - offset, Used, MaxBytes - drain.sent}
           least == CHOOSE n \in ends : \A e \in ends : n <= e
<1>1. /\ drain' = [drain EXCEPT !.at = "send", !.offset = offset, !.read = <<>>,
                                 !.avail = least]
      /\ Used > 0 /\ drain.sent < MaxBytes
      /\ UNCHANGED <<store, head, tail, high_water, push>>
  BY DEF Peek
<1>2. offset \in 0 .. Cap - 1
  <2>1. tail \in Int /\ Cap \in Nat \ {0}
    BY CounterFits DEF Inv, CountersInv, Counter
  <2> QED  BY <2>1, DivMod DEF Masked
<1>3. Cap - offset \in Nat /\ Used \in Nat /\ MaxBytes - drain.sent \in Nat
  BY <1>1, <1>2, BlocksAssumption, CounterFits, SMTT(60) DEF Inv, CountersInv, DrainInv
<1> HIDE DEF offset
<1>4. \E n \in ends : \A e \in ends : n <= e
  <2>1. CASE Cap - offset <= Used /\ Cap - offset <= MaxBytes - drain.sent
    BY <1>3, <2>1
  <2>2. CASE Used <= Cap - offset /\ Used <= MaxBytes - drain.sent
    BY <1>3, <2>2
  <2>3. CASE MaxBytes - drain.sent <= Used /\ MaxBytes - drain.sent <= Cap - offset
    BY <1>3, <2>3
  <2> QED  BY <1>3, <2>1, <2>2, <2>3
<1>5. least \in ends /\ \A e \in ends : least <= e  BY <1>4
<1>6. /\ least \in Nat /\ least <= Cap - offset /\ least <= Used
      /\ least <= MaxBytes - drain.sent
  BY <1>3, <1>5
<1> HIDE DEF ends, least
<1>7. CountersInv'  BY <1>1 DEF Inv, CountersInv, Used
<1>8. PushInv'  BY <1>1 DEF Inv, PushInv, Space, Used
<1>9. DrainInv'
  <2>1. drain' = [at |-> "send", sent |-> drain.sent, offset |-> offset,
                  avail |-> least, read |-> <<>>]
    BY <1>1 DEF Inv, DrainInv
  <2>2. Len(drain'.read) = 0 /\ tail' = tail /\ Used' = Used  BY <1>1, <2>1 DEF Used
  <2>3. <<>> \in Seq(Byte) /\ offset \in Nat /\ drain.sent \in 0 .. MaxBytes
    BY <1>2, EmptySeq DEF Inv, DrainInv
  <2> QED  BY <1>6, <2>1, <2>2, <2>3 DEF DrainInv, offset
<1> QED  BY <1>7, <1>8, <1>9 DEF Inv

\* The byte sent is the one that was held when it was offered.
LEMMA SendByteInv == Inv /\ SendByte => Inv'
<1> SUFFICES ASSUME Inv, SendByte PROVE Inv'  OBVIOUS
<1> DEFINE byte == store[drain.offset + Len(drain.read)]
<1>1. /\ drain.at = "send" /\ Len(drain.read) < drain.avail
      /\ drain' = [drain EXCEPT !.read = Append(drain.read, byte)]
      /\ UNCHANGED <<store, head, tail, high_water, push>>
  BY DEF SendByte
<1>2. drain.read \in Seq(Byte) /\ Len(drain.read) \in Nat
  BY LenProperties DEF Inv, DrainInv
<1>3. byte \in Byte
  <2>1. Len(drain.read) \in 0 .. drain.avail - 1  BY <1>1, <1>2 DEF Inv, DrainInv
  <2>2. drain.offset + Len(drain.read) \in 0 .. Cap - 1
    BY <1>1, <2>1, ChunkIsHeld DEF Inv
  <2> QED  BY <2>2 DEF Inv, CountersInv
<1> HIDE DEF byte
<1>4. /\ Append(drain.read, byte) \in Seq(Byte)
      /\ Len(Append(drain.read, byte)) = Len(drain.read) + 1
      /\ \A k \in 1 .. Len(drain.read) : Append(drain.read, byte)[k] = drain.read[k]
      /\ Append(drain.read, byte)[Len(drain.read) + 1] = byte
  BY <1>2, <1>3, AppendProperties
<1>5. CountersInv'  BY <1>1 DEF Inv, CountersInv, Used
<1>6. PushInv'  BY <1>1 DEF Inv, PushInv, Space, Used
<1>7. DrainInv'
  <2>1. /\ drain'.read = Append(drain.read, byte) /\ drain'.at = "send"
        /\ drain'.offset = drain.offset /\ drain'.avail = drain.avail
        /\ drain'.sent = drain.sent
    BY <1>1 DEF Inv, DrainInv
  <2>2. ASSUME NEW k \in 1 .. Len(drain.read) + 1
        PROVE  drain'.read[k] = store[drain.offset + k - 1]
    <3>1. CASE k = Len(drain.read) + 1
      BY <1>2, <1>4, <2>1, <3>1 DEF byte, Inv, DrainInv
    <3>2. CASE k \in 1 .. Len(drain.read)
      BY <1>1, <1>4, <2>1, <3>2 DEF Inv, DrainInv
    <3> QED  BY <1>2, <3>1, <3>2, SMTT(60)
  <2>3. drain' \in [at : {"idle", "send"}, sent : 0 .. MaxBytes, offset : Nat,
                    avail : Nat, read : Seq(Byte)]
    BY <1>1, <1>4 DEF Inv, DrainInv
  <2> QED  BY <1>1, <1>2, <1>4, <2>1, <2>2, <2>3, SMTT(60) DEF Inv, DrainInv, Used
<1> QED  BY <1>5, <1>6, <1>7 DEF Inv

\* What a drain took was offered, and so was held.
LEMMA ConsumeUsed ==
    ASSUME Inv, Consume
    PROVE  /\ Len(drain.read) \in Nat \ {0} /\ Len(drain.read) <= Used
           /\ tail' = Plus(tail, Len(drain.read)) /\ tail' \in Counter
           /\ Used' = Used - Len(drain.read)
<1>1. drain.at = "send" /\ drain.read # <<>> /\ head' = head
  BY DEF Consume
<1>2. Len(drain.read) \in Nat \ {0} /\ Len(drain.read) <= Used
  <2>1. Len(drain.read) \in Nat \ {0}  BY <1>1, EmptySeq DEF Inv, DrainInv
  <2> QED  BY <1>1, <2>1, CounterFits DEF Inv, CountersInv, DrainInv
<1>3. tail' = Plus(tail, Len(drain.read))
  BY <1>2, CounterFits DEF Consume, Inv, CountersInv
<1>4. tail' \in Counter
  <2>1. Len(drain.read) + 0 < Wrap  BY <1>2, CounterFits DEF Inv, CountersInv
  <2> QED  BY <1>2, <1>3, <2>1, PlusPlus DEF Inv, CountersInv
<1>5. Used' = Used - Len(drain.read)
  BY <1>1, <1>2, <1>3, MinusMoves DEF Used, Inv, CountersInv
<1> QED  BY <1>2, <1>3, <1>4, <1>5

\* The bytes sent are no longer held.
LEMMA ConsumeInv == Inv /\ Consume => Inv'
<1> SUFFICES ASSUME Inv, Consume PROVE Inv'  OBVIOUS
<1>1. /\ drain.at = "send"
      /\ drain' = [NoDrain EXCEPT !.sent = drain.sent + Len(drain.read)]
      /\ UNCHANGED <<store, head, high_water, push>>
  BY DEF Consume
<1>2. /\ Len(drain.read) \in Nat \ {0} /\ Len(drain.read) <= Used
      /\ tail' \in Counter /\ Used' = Used - Len(drain.read)
  BY ConsumeUsed
<1>3. CountersInv'  BY <1>1, <1>2, CounterFits, SMTT(60) DEF Inv, CountersInv
<1>4. PushInv'
  <2>1. push.at = "copy" => Len(push.block) <= Space'
    <3> SUFFICES ASSUME push.at = "copy" PROVE Len(push.block) <= Space'  OBVIOUS
    <3>1. Len(push.block) \in Nat  BY BlockIsBytes DEF Inv
    <3> QED  BY <1>2, <3>1, CounterFits, SMTT(60) DEF Inv, CountersInv, PushInv, Space
  <2> QED  BY <1>1, <2>1 DEF Inv, PushInv
<1>5. DrainInv'
  <2>1. drain.sent + Len(drain.read) \in 0 .. MaxBytes
    BY <1>1, <1>2, BlocksAssumption DEF Inv, DrainInv
  <2>2. drain' = [at |-> "idle", sent |-> drain.sent + Len(drain.read), offset |-> 0,
                  avail |-> 0, read |-> <<>>]
    BY <1>1 DEF NoDrain
  <2>3. <<>> \in Seq(Byte)  BY EmptySeq
  <2> QED  BY <2>1, <2>2, <2>3 DEF DrainInv
<1> QED  BY <1>3, <1>4, <1>5 DEF Inv

\* Every step keeps the invariant.
LEMMA NextInv == Inv /\ [Next]_vars => Inv'
<1> SUFFICES ASSUME Inv, [Next]_vars PROVE Inv'  OBVIOUS
<1>1. CASE PushRefused
  BY <1>1 DEF PushRefused, Inv, CountersInv, PushInv, DrainInv, Used, Space
<1>2. CASE PushAccepted
  <2>1. PICK block \in Blocks :
            /\ Len(block) <= Space
            /\ push' = [at |-> "copy", block |-> block, copied |-> 0]
    BY <1>2 DEF PushAccepted
  <2>2. UNCHANGED <<store, head, tail, high_water, drain>>  BY <1>2 DEF PushAccepted
  <2>3. CountersInv'  BY <2>2 DEF Inv, CountersInv, Used
  <2>4. PushInv'
    <3>1. block \in Seq(Byte) /\ Len(block) \in Nat  BY BlocksAssumption, LenProperties
    <3> QED  BY <2>1, <2>2, <3>1 DEF PushInv, Space, Used
  <2>5. DrainInv'  BY <2>2 DEF Inv, DrainInv, Used
  <2> QED  BY <2>3, <2>4, <2>5 DEF Inv
<1>3. CASE CopyByte  BY <1>3, CopyByteInv
<1>4. CASE Publish  BY <1>4, PublishInv
<1>5. CASE MarkHighWater
  <2>1. UNCHANGED <<store, head, tail, drain>> /\ high_water' \in 0 .. Cap
        /\ push' = NoPush
    BY <1>5 DEF MarkHighWater, Inv, CountersInv
  <2>2. CountersInv'  BY <2>1 DEF Inv, CountersInv, Used
  <2>3. PushInv'  BY <2>1 DEF PushInv, NoPush
  <2>4. DrainInv'  BY <2>1 DEF Inv, DrainInv, Used
  <2> QED  BY <2>2, <2>3, <2>4 DEF Inv
<1>6. CASE Peek  BY <1>6, PeekInv
<1>7. CASE SendByte  BY <1>7, SendByteInv
<1>8. CASE Consume  BY <1>8, ConsumeInv
<1>9. CASE DrainReturns
  <2>1. UNCHANGED <<store, head, tail, high_water, push>> /\ drain' = NoDrain
    BY <1>9 DEF DrainReturns
  <2>2. CountersInv'  BY <2>1 DEF Inv, CountersInv, Used
  <2>3. PushInv'  BY <2>1 DEF Inv, PushInv, Space, Used
  <2>4. DrainInv'  BY <2>1, BlocksAssumption DEF DrainInv, NoDrain
  <2> QED  BY <2>2, <2>3, <2>4 DEF Inv
<1>10. CASE Reset
  <2>1. /\ push = NoPush /\ drain = NoDrain /\ head' = 0 /\ tail' = 0
        /\ high_water' = 0 /\ UNCHANGED <<store, push, drain>>
    BY <1>10 DEF Reset
  <2>2. CountersInv'
    <3>1. Minus(0, 0) = 0  BY CounterFits, MinusIs DEF Counter
    <3> QED  BY <2>1, <3>1, CounterFits DEF Inv, CountersInv, Counter, Used
  <2>3. PushInv'  BY <2>1 DEF Inv, PushInv, NoPush
  <2>4. DrainInv'  BY <2>1 DEF Inv, DrainInv, NoDrain
  <2> QED  BY <2>2, <2>3, <2>4 DEF Inv
<1>11. CASE UNCHANGED vars
  BY <1>11 DEF vars, Inv, CountersInv, PushInv, DrainInv, Used, Space
<1> QED
  BY <1>1, <1>2, <1>3, <1>4, <1>5, <1>6, <1>7, <1>8, <1>9, <1>10, <1>11
  DEF Next, Produce

\* It always holds.
LEMMA Invariance == Spec => []Inv
BY InitInv, NextInv, PTL DEF Spec

--------------------------------------------------------------------------------
(* The theorems.                                                             *)

\* TypeOK for every instance: the occupancy never leaves 0 .. Cap although both
\* counters wrap around, and a drain never sends more than its limit (push,
\* Recorder::drain).
THEOREM RingTypeCorrect == Spec => []TypeOK
<1>1. Inv => TypeOK
  BY DEF Inv, CountersInv, PushInv, DrainInv, TypeOK, Counter
<1> QED  BY <1>1, Invariance, PTL

\* The bytes a push copies are never those the transport reads, however the two
\* sides were stopped (push, peek).
THEOREM SidesKeepApartCorrect == Spec => []SidesKeepApart
<1>1. Inv => SidesKeepApart  BY Apart DEF SidesKeepApart
<1> QED  BY <1>1, Invariance, PTL

\* What peek offered is still held when drain consumes it.
THEOREM OfferStandsCorrect == Spec => []OfferStands
<1>1. Inv => OfferStands  BY DEF Inv, DrainInv, OfferStands
<1> QED  BY <1>1, Invariance, PTL

--------------------------------------------------------------------------------
(* The buffer implements the bounded FIFO.                                   *)

\* What n bytes of a store hold from a tail on.
HeldIn(s, t, n) == [k \in 1 .. n |-> s[Masked(Plus(t, k - 1))]]

\* What is held is a sequence of bytes.
LEMMA HeldIs ==
    ASSUME NEW s \in [0 .. Cap - 1 -> Byte], NEW t \in Counter, NEW n \in 0 .. Cap
    PROVE  /\ HeldIn(s, t, n) \in Seq(Byte) /\ Len(HeldIn(s, t, n)) = n /\ n \in Nat
           /\ \A k \in 1 .. n : /\ HeldIn(s, t, n)[k] = s[Masked(Plus(t, k - 1))]
                               /\ HeldIn(s, t, n)[k] \in Byte
<1>1. \A k \in 1 .. n : s[Masked(Plus(t, k - 1))] \in Byte
  <2> SUFFICES ASSUME NEW k \in 1 .. n PROVE s[Masked(Plus(t, k - 1))] \in Byte
    OBVIOUS
  <2>1. k - 1 \in Counter  BY CounterFits DEF Counter
  <2> QED  BY <2>1, CellIs
<1>2. n \in Nat  BY CounterFits
<1> QED  BY <1>1, <1>2 DEF HeldIn

\* What is held, by cells.
LEMMA HeldNow ==
    ASSUME Inv
    PROVE  /\ Held = HeldIn(store, tail, Used)
           /\ Held \in Seq(Byte) /\ Len(Held) = Used /\ Used \in Nat
           /\ \A k \in 1 .. Used : Held[k] = store[Cell(k - 1)] /\ Held[k] \in Byte
<1>1. Held = HeldIn(store, tail, Used)  BY DEF Held, HeldIn
<1>2. store \in [0 .. Cap - 1 -> Byte] /\ tail \in Counter /\ Used \in 0 .. Cap
  BY DEF Inv, CountersInv
<1> QED  BY <1>1, <1>2, HeldIs DEF Cell

\* The same of the next state.
LEMMA HeldNext ==
    ASSUME Inv'
    PROVE  /\ Held' \in Seq(Byte) /\ Len(Held') = Used' /\ Used' \in Nat
           /\ \A k \in 1 .. Used' : Held'[k] = store'[Masked(Plus(tail', k - 1))]
<1>1. Held' = HeldIn(store', tail', Used')  BY DEF Held, HeldIn
<1>2. store' \in [0 .. Cap - 1 -> Byte] /\ tail' \in Counter /\ Used' \in 0 .. Cap
  BY DEF Inv, CountersInv
<1> QED  BY <1>1, <1>2, HeldIs

\* A byte on its way into the buffer changes nothing that is held.
LEMMA CopyByteStutters == Inv /\ Inv' /\ CopyByte => Held' = Held
<1> SUFFICES ASSUME Inv, Inv', CopyByte PROVE Held' = Held  OBVIOUS
<1> DEFINE cell == Masked(Plus(head, push.copied))
<1>1. /\ push.at = "copy" /\ push.copied < Len(push.block) /\ push.copied \in Nat
      /\ store' = [store EXCEPT ![cell] = push.block[push.copied + 1]]
      /\ tail' = tail /\ Used' = Used
  BY DEF CopyByte, Inv, PushInv, Used
<1>2. Used + push.copied < Cap
  BY <1>1, BlockIsBytes, CounterFits DEF Inv, CountersInv, PushInv, Space
<1>3. cell = Cell(Used + push.copied)  BY <1>1, <1>2, BehindTheHeld DEF Inv
<1> HIDE DEF cell
<1>4. ASSUME NEW k \in 1 .. Used PROVE store'[Cell(k - 1)] = store[Cell(k - 1)]
  <2>1. /\ k - 1 \in 0 .. Cap - 1 /\ Used + push.copied \in 0 .. Cap - 1
        /\ k - 1 # Used + push.copied /\ k - 1 \in Counter /\ tail \in Counter
    BY <1>1, <1>2, CounterFits, SMTT(60) DEF Inv, CountersInv, Counter
  <2>2. Cell(k - 1) # cell  BY <1>3, <2>1, CellsDiffer DEF Cell
  <2>3. Cell(k - 1) \in 0 .. Cap - 1  BY <2>1, CellIs DEF Cell
  <2> QED  BY <1>1, <2>2, <2>3 DEF Inv, CountersInv
<1>5. \A k \in 1 .. Used : Held'[k] = Held[k]
  BY <1>1, <1>4, HeldNow, HeldNext, SMTT(60) DEF Cell
<1> QED  BY <1>1, <1>5, HeldNow, HeldNext, SeqEqual

\* Publishing puts the whole block behind what was held.
LEMMA PublishPuts ==
    Inv /\ Inv' /\ Publish => \E block \in Blocks : Queue!Put(block)
<1> SUFFICES ASSUME Inv, Inv', Publish PROVE \E block \in Blocks : Queue!Put(block)
  OBVIOUS
<1>1. /\ push.at = "copy" /\ push.copied = Len(push.block) /\ push.block \in Blocks
      /\ UNCHANGED <<store, tail, drops, line>>
  BY DEF Publish, Inv, PushInv
<1>2. /\ Used' = Used + Len(push.block) /\ Used' <= Cap
      /\ Len(push.block) \in Nat \ {0}
  BY PublishUsed
<1>3. push.block \in Seq(Byte)  BY <1>1, BlockIsBytes DEF Inv
<1>4. /\ Held \o push.block \in Seq(Byte)
      /\ Len(Held \o push.block) = Used + Len(push.block)
      /\ \A k \in 1 .. Used + Len(push.block) :
            (Held \o push.block)[k] = IF k <= Used THEN Held[k] ELSE push.block[k - Used]
  BY <1>3, HeldNow, ConcatProperties
<1>5. ASSUME NEW k \in 1 .. Used + Len(push.block)
      PROVE  Held'[k] = (Held \o push.block)[k]
  <2>1. Held'[k] = store[Cell(k - 1)]  BY <1>1, <1>2, HeldNext DEF Cell
  <2>2. CASE k <= Used  BY <1>4, <2>1, <2>2, HeldNow
  <2>3. CASE k > Used
    <3> DEFINE j == k - 1 - Used
    <3>1. /\ j \in 0 .. push.copied - 1 /\ j \in Nat /\ Used + j < Cap
          /\ Used + j = k - 1 /\ j + 1 = k - Used
      <4>1. Used \in Nat  BY HeldNow
      <4> QED  BY <1>1, <1>2, <2>3, <4>1, CounterFits
    <3> HIDE DEF j
    <3>2. Masked(Plus(head, j)) = Cell(k - 1)  BY <3>1, BehindTheHeld DEF Inv
    <3>3. store[Masked(Plus(head, j))] = push.block[j + 1]
      BY <1>1, <3>1 DEF Inv, PushInv
    <3> QED  BY <1>4, <2>1, <2>3, <3>1, <3>2, <3>3, HeldNow, SMTT(60)
  <2> QED  BY <2>2, <2>3, <1>2, HeldNow
<1>6. Held' = Held \o push.block
  BY <1>2, <1>4, <1>5, HeldNext, SeqEqual
<1>7. Len(Held) + Len(push.block) <= Cap  BY <1>2, HeldNow
<1> QED  BY <1>1, <1>6, <1>7 DEF Queue!Put

\* Consuming takes from the front what the transport has read.
LEMMA ConsumeGets ==
    Inv /\ Inv' /\ Consume => \E n \in 1 .. Len(Held) : Queue!Get(n)
<1> SUFFICES ASSUME Inv, Inv', Consume PROVE \E n \in 1 .. Len(Held) : Queue!Get(n)
  OBVIOUS
<1> DEFINE n == Len(drain.read)
<1>1. /\ n \in Nat \ {0} /\ n <= Used /\ tail' = Plus(tail, n) /\ Used' = Used - n
  BY ConsumeUsed
<1>2. /\ drain.at = "send" /\ line' = drain.read /\ store' = store /\ drops' = drops
  BY DEF Consume
<1>3. drain.read \in Seq(Byte)  BY DEF Inv, DrainInv
<1>4. /\ n <= drain.avail /\ drain.avail \in Nat
      /\ \A k \in 1 .. n : drain.read[k] = store[drain.offset + k - 1]
  BY <1>2 DEF Inv, DrainInv
<1> HIDE DEF n
<1>5. line' = SubSeq(Held, 1, n)
  <2>1. /\ SubSeq(Held, 1, n) \in Seq(Byte) /\ Len(SubSeq(Held, 1, n)) = n
        /\ \A k \in 1 .. n : SubSeq(Held, 1, n)[k] = Held[k]
    <3>1. \A k \in 1 .. n : Held[k] \in Byte  BY <1>1, HeldNow
    <3>2. /\ SubSeq(Held, 1, n) \in Seq(Byte)
          /\ Len(SubSeq(Held, 1, n)) = IF 1 <= n THEN n - 1 + 1 ELSE 0
          /\ \A k \in 1 .. n - 1 + 1 : SubSeq(Held, 1, n)[k] = Held[1 + k - 1]
      BY <1>1, <3>1, SubSeqProperties
    <3> QED  BY <1>1, <3>2
  <2>2. ASSUME NEW k \in 1 .. n PROVE drain.read[k] = Held[k]
    <3>1. k - 1 \in 0 .. drain.avail - 1 /\ k \in 1 .. Used
      BY <1>1, <1>4, HeldNow
    <3>2. drain.offset + (k - 1) = Cell(k - 1)
      BY <1>2, <3>1, ChunkIsHeld DEF Inv
    <3>3. drain.offset + (k - 1) = drain.offset + k - 1  BY DEF Inv, DrainInv
    <3> QED  BY <1>4, <3>1, <3>2, <3>3, HeldNow
  <2> QED  BY <1>2, <1>3, <2>1, <2>2, SeqEqual DEF n
<1>6. Held' = SubSeq(Held, n + 1, Len(Held))
  <2>1. /\ SubSeq(Held, n + 1, Used) \in Seq(Byte)
        /\ Len(SubSeq(Held, n + 1, Used)) = Used - n
        /\ \A k \in 1 .. Used - n : SubSeq(Held, n + 1, Used)[k] = Held[n + k]
    <3>1. \A k \in n + 1 .. Used : Held[k] \in Byte  BY <1>1, HeldNow
    <3>2. n + 1 \in Int /\ Used \in Int  BY <1>1, HeldNow
    <3>3. /\ SubSeq(Held, n + 1, Used) \in Seq(Byte)
          /\ Len(SubSeq(Held, n + 1, Used))
                = IF n + 1 <= Used THEN Used - (n + 1) + 1 ELSE 0
          /\ \A k \in 1 .. Used - (n + 1) + 1 :
                SubSeq(Held, n + 1, Used)[k] = Held[n + 1 + k - 1]
      BY <3>1, <3>2, SubSeqProperties
    <3> QED  BY <1>1, <3>3, HeldNow
  <2>2. ASSUME NEW k \in 1 .. Used - n PROVE Held'[k] = Held[n + k]
    <3>1. /\ n + (k - 1) < Wrap /\ k - 1 \in Nat /\ n \in Nat
          /\ n + (k - 1) = (n + k) - 1 /\ n + k \in 1 .. Used
      BY <1>1, HeldNow, CounterFits DEF Inv, CountersInv
    <3>2. Plus(tail', k - 1) = Plus(tail, (n + k) - 1)
      <4>1. tail \in Counter  BY DEF Inv, CountersInv
      <4> QED  BY <1>1, <3>1, <4>1, PlusPlus
    <3>3. Held'[k] = store[Masked(Plus(tail', k - 1))]  BY <1>1, <1>2, HeldNext
    <3>4. Held[n + k] = store[Cell((n + k) - 1)]  BY <3>1, HeldNow
    <3> QED  BY <3>2, <3>3, <3>4 DEF Cell
  <2> QED  BY <1>1, <2>1, <2>2, HeldNow, HeldNext, SeqEqual
<1>7. n \in 1 .. Len(Held)  BY <1>1, HeldNow
<1> QED  BY <1>2, <1>5, <1>6, <1>7 DEF Queue!Get

\* For every capacity, width of the counters, set of blocks and limit of a drain,
\* the lock-free ring buffer is a bounded FIFO: each step of either side is one of
\* its steps or changes nothing of it.
THEOREM RingIsAByteQueue == Spec => ImplementsByteQueue
<1>1. Init => Queue!Init
  <2> SUFFICES ASSUME Init PROVE Queue!Init  OBVIOUS
  <2>1. Inv  BY InitInv
  <2>2. Used = 0
    <3>1. Minus(0, 0) = 0  BY CounterFits, MinusIs DEF Counter
    <3> QED  BY <3>1 DEF Init, Used
  <2>3. Held = <<>>  BY <2>1, <2>2, HeldNow, EmptySeq
  <2> QED  BY <2>3 DEF Init, Queue!Init
<1>2. Inv /\ Inv' /\ [Next]_vars => [Queue!Next]_<<Held, line, drops>>
  <2> SUFFICES ASSUME Inv, Inv', [Next]_vars
               PROVE  Queue!Next \/ UNCHANGED <<Held, line, drops>>
    OBVIOUS
  <2>1. CASE PushRefused
    <3>1. PICK block \in Blocks : Len(block) > Space  BY <2>1 DEF PushRefused
    <3>2. Len(block) \in Nat  BY BlocksAssumption, LenProperties
    <3>3. Len(Held) + Len(block) > Cap
      BY <3>1, <3>2, HeldNow, CounterFits DEF Space
    <3>4. Held' = Held /\ drops' = drops + 1 /\ line' = line
      BY <2>1 DEF PushRefused, Held, Used
    <3> QED  BY <3>3, <3>4 DEF Queue!Refuse, Queue!Next
  <2>2. CASE PushAccepted  BY <2>2 DEF PushAccepted, Held, Used
  <2>3. CASE CopyByte
    <3>1. Held' = Held  BY <2>3, CopyByteStutters
    <3> QED  BY <2>3, <3>1 DEF CopyByte
  <2>4. CASE Publish  BY <2>4, PublishPuts DEF Queue!Next
  <2>5. CASE MarkHighWater  BY <2>5 DEF MarkHighWater, Held, Used
  <2>6. CASE Peek  BY <2>6 DEF Peek, Held, Used
  <2>7. CASE SendByte  BY <2>7 DEF SendByte, Held, Used
  <2>8. CASE Consume  BY <2>8, ConsumeGets DEF Queue!Next
  <2>9. CASE DrainReturns  BY <2>9 DEF DrainReturns, Held, Used
  <2>10. CASE Reset
    <3>1. head' = 0 /\ tail' = 0 /\ drops' = 0 /\ line' = line  BY <2>10 DEF Reset
    <3>2. Used' = 0
      <4>1. Minus(0, 0) = 0  BY CounterFits, MinusIs DEF Counter
      <4> QED  BY <3>1, <4>1 DEF Used
    <3>3. Held' = <<>>  BY <3>2, HeldNext, EmptySeq
    <3> QED  BY <3>1, <3>3 DEF Queue!Clear, Queue!Next
  <2>11. CASE UNCHANGED vars  BY <2>11 DEF vars, Held, Used
  <2> QED
    BY <2>1, <2>2, <2>3, <2>4, <2>5, <2>6, <2>7, <2>8, <2>9, <2>10, <2>11
    DEF Next, Produce
<1> QED  BY <1>1, <1>2, Invariance, PTL DEF Spec, ImplementsByteQueue, Queue!Spec
================================================================================
