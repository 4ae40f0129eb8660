------------------------------- MODULE BlockCodec ------------------------------
(****************************************************************************)
(* The bytes of a block, which TraceStream leaves abstract: the events of   *)
(* TraceWriter::write_mmio and write_plain encoded with Varint, checksummed *)
(* with Crc32 by flush_block, damaged or forged on the way, and parsed by   *)
(* TraceReader::load_next_block and next.  u32 is 0 .. Space32 - 1.         *)
(****************************************************************************)
EXTENDS Varint, Crc32, SequencesExt

CONSTANTS
    Space32,     \* 2^32
    Events,      \* the events of the device: records [type, ts, addr, value]
    Forgeries,   \* payloads no device sent, under a right checksum
    Version,     \* hdr_.version
    MaxEvents    \* bound on the events sent

ASSUME BlockCodecAssumption ==
    /\ Space32 \in Nat \ {0} /\ 2 * Space32 <= Word /\ Version \in {2, 3}
    /\ 2 * Radix \in 6 .. 256 \* a byte holds an event's type, and has 8 bits

VARIABLES
    writer,      \* [ts, addr, seq]: last_ts_, last_addr_ and block_seq_
    staged,      \* the payload staged in the writer's buffer
    link,        \* the block on its way, or NoBlock
    condition,   \* history: what became of it, "sent", "damaged" or "forged"
    reader,      \* [ts, addr, done, payload, seq]: its fields
    sent,        \* history: the events staged
    got          \* the events handed out

vars == <<writer, staged, link, condition, reader, sent, got>>

\* EventType
EvRead == 1
EvWrite == 2
EvIrqEnter == 3
EvStop == 4
EvIrqAt == 5
Mmio == {EvRead, EvWrite}

\* An event has the fields its type has, and 0 for the others.
ASSUME EventsAssumption ==
    /\ \A ev \in Events :
          /\ ev \in [type : 1 .. 5, ts : U64, addr : 0 .. Space32 - 1,
                     value : 0 .. Space32 - 1]
          /\ ev.type = EvIrqEnter => ev.value = 0
          /\ ev.type = EvStop => ev.addr = 0 /\ ev.value = 0
          /\ ev.type = EvIrqAt => Version >= 3
    /\ Forgeries \subseteq Seq(Byte)

NoBlock == [seq |-> <<>>, payload |-> <<>>, crc |-> {}]

\* put_u32_le
Le32(n) ==
    LET B == 2 * Radix
    IN <<n % B, (n \div B) % B, (n \div (B * B)) % B, (n \div (B * B * B)) % B>>

BlockInit ==
    /\ writer = [ts |-> 0, addr |-> 0, seq |-> 0] /\ staged = <<>>
    /\ link = NoBlock /\ condition = "sent"
    /\ reader = [ts |-> 0, addr |-> 0, done |-> FALSE, payload |-> <<>>, seq |-> 0]
    /\ sent = <<>> /\ got = <<>>

\* One block at a time: the device has sent nothing the host has not parsed.
Idle == link = NoBlock /\ reader.payload = <<>> /\ ~reader.done

\* What write_mmio and write_plain put behind the type and the time.
Arguments(w, ev) ==
    CASE ev.type \in Mmio      -> VarintEncode[ZigZagEncode(ev.addr - w.addr)]
                                      \o VarintEncode[ev.value]
      [] ev.type = EvIrqEnter  -> VarintEncode[ev.addr]
      [] ev.type = EvIrqAt     -> VarintEncode[ev.addr] \o VarintEncode[ev.value]
      [] ev.type = EvStop      -> <<>>

StageEvent ==
    /\ Idle /\ Len(sent) < MaxEvents /\ condition # "forged"
    /\ \E ev \in Events :
          /\ ev.ts >= writer.ts
          /\ staged' = staged \o <<ev.type>> \o VarintEncode[ev.ts - writer.ts]
                              \o Arguments(writer, ev)
          /\ writer' = [writer EXCEPT !.ts = ev.ts,
                            !.addr = IF ev.type \in Mmio THEN ev.addr ELSE @]
          /\ sent' = Append(sent, ev)
    /\ UNCHANGED <<link, condition, reader, got>>

\* flush_block: the checksum covers the sequence number and the payload.
SendBlock ==
    /\ Idle /\ staged # <<>>
    /\ link' = [seq |-> Le32(writer.seq), payload |-> staged,
                crc |-> Crc32(Le32(writer.seq) \o staged)]
    /\ writer' = [writer EXCEPT !.seq = @ + 1]
    /\ staged' = <<>> /\ condition' = "sent"
    /\ UNCHANGED <<reader, sent, got>>

--------------------------------------------------------------------------------
(* The link.                                                                 *)

\* A byte of what the checksum covers changes and its neighbour may be inverted
\* with it, or a bit of the checksum itself is.
DamageBlock ==
    /\ link # NoBlock /\ condition = "sent"
    /\ LET covered == link.seq \o link.payload IN
       \/ \E k \in 1 .. Len(covered) - 1, byte \in Byte, both \in BOOLEAN :
             LET hit == [covered EXCEPT ![k] = byte,
                             ![k + 1] = IF both THEN 2 * Radix - 1 - @ ELSE @]
             IN /\ hit # covered
                /\ link' = [link EXCEPT !.seq = SubSeq(hit, 1, 4),
                                        !.payload = SubSeq(hit, 5, Len(hit))]
       \/ \E b \in 0 .. 31 : link' = [link EXCEPT !.crc = SymDiff(@, {b})]
    /\ condition' = "damaged"
    /\ UNCHANGED <<writer, staged, reader, sent, got>>

ForgeBlock ==
    /\ Idle /\ staged = <<>> /\ Len(sent) < MaxEvents /\ condition # "forged"
    /\ \E payload \in Forgeries :
          link' = [seq |-> Le32(reader.seq), payload |-> payload,
                   crc |-> Crc32(Le32(reader.seq) \o payload)]
    /\ condition' = "forged"
    /\ UNCHANGED <<writer, staged, reader, sent, got>>

--------------------------------------------------------------------------------
(* The host.                                                                 *)

\* load_next_block, for a whole block.
LoadBlock ==
    /\ link # NoBlock
    /\ reader' =
          IF Crc32(link.seq \o link.payload) # link.crc \/ link.seq # Le32(reader.seq)
          THEN [reader EXCEPT !.done = TRUE]
          ELSE [reader EXCEPT !.seq = @ + 1, !.payload = link.payload]
    /\ link' = NoBlock
    /\ UNCHANGED <<writer, staged, condition, sent, got>>

\* The varints that follow a type byte; 0 for a type next() refuses.
Fields(type) ==
    CASE type \in Mmio                    -> 3
      [] type = EvIrqEnter                -> 2
      [] type = EvIrqAt /\ Version >= 3   -> 3
      [] type = EvStop                    -> 1
      [] OTHER                            -> 0

\* The next varint of p.rest; once one is malformed p.ok stays FALSE.
TakeVarint(p) ==
    LET d == VarintDecode(p.rest) IN
    IF ~p.ok \/ d.n = 0 THEN [p EXCEPT !.ok = FALSE]
    ELSE [p EXCEPT !.rest = SubSeq(@, d.n + 1, Len(@)), !.values = Append(@, d.value)]

\* The first k fields of bytes.
Parsed(bytes, k) ==
    LET fields[j \in 0 .. k] ==
            IF j = 0 THEN [ok |-> TRUE, rest |-> bytes, values |-> <<>>]
            ELSE TakeVarint(fields[j - 1])
    IN fields[k]

\* The range checks on the arguments; the delta is tested before it is added.
InRange(type, values) ==
    /\ Len(values) >= 2 =>
          IF type \in Mmio
          THEN LET delta == ZigZagDecode(values[2]) IN
               delta >= -reader.addr /\ delta <= Space32 - 1 - reader.addr
          ELSE values[2] < Space32
    /\ Len(values) = 3 => values[3] < Space32

\* next: what the first bytes of the payload say, or an error.
NextOfPayload ==
    /\ reader.payload # <<>> /\ ~reader.done
    /\ LET type == Head(reader.payload)
           p    == Parsed(Tail(reader.payload), Fields(type))
           addr == IF Len(p.values) < 2 THEN 0
                   ELSE IF type \in Mmio THEN reader.addr + ZigZagDecode(p.values[2])
                   ELSE p.values[2]
           ev   == [type |-> type, ts |-> (reader.ts + p.values[1]) % Word, addr |-> addr,
                    value |-> IF Len(p.values) = 3 THEN p.values[3] ELSE 0]
       IN IF Fields(type) = 0 \/ ~p.ok \/ ~InRange(type, p.values)
          THEN reader' = [reader EXCEPT !.done = TRUE] /\ UNCHANGED got
          ELSE /\ reader' = [reader EXCEPT !.payload = p.rest, !.ts = ev.ts,
                                 !.addr = IF type \in Mmio THEN addr ELSE @]
               /\ got' = Append(got, ev)
    /\ UNCHANGED <<writer, staged, link, condition, sent>>

BlockNext ==
    \/ StageEvent \/ SendBlock
    \/ DamageBlock \/ ForgeBlock
    \/ LoadBlock \/ NextOfPayload

BlockSpec == BlockInit /\ [][BlockNext]_vars

--------------------------------------------------------------------------------
(* What the bytes owe the stream.                                            *)

\* The round trip TraceStream takes as given: through variable-length deltas of
\* times and of addresses that go both ways (write_mmio, next), the reader hands
\* out exactly what was sent, and a block that arrives as it was is not refused.
ReadsWhatWasSent ==
    condition # "forged" =>
        /\ IsPrefix(got, sent)
        /\ Idle /\ staged = <<>> => got = sent
        /\ reader.done => condition = "damaged"

\* The checksum TraceReader relies on: nothing hit a block it takes on its way,
\* and the nibbles add up to the standard's CRC-32 (crc32.h) over the sequence
\* number and the payload, so that a host of another make would take it too.
AcceptedIsIntact ==
    [][reader'.seq # reader.seq =>
          condition # "damaged" /\ IsStandard(link.seq \o link.payload)]_vars

\* The numbers a payload spells out, by their definition: the digits up to each
\* byte without the continuation flag.
EndsBehind(bytes, k) == {e \in k + 1 .. Len(bytes) : bytes[e] < Radix}
EndOf(bytes, j) ==
    LET end[i \in 0 .. j] ==
            IF i = 0 THEN 0
            ELSE Min(EndsBehind(bytes, end[i - 1]) \cup {Len(bytes) + 1})
    IN end[j]
StartOf(bytes, j) == EndOf(bytes, j - 1) + 1
Number(bytes, j) ==
    LET from == StartOf(bytes, j)
        sum[k \in from - 1 .. EndOf(bytes, j)] ==
            IF k < from THEN 0 ELSE sum[k - 1] + (bytes[k] % Radix) * Scale[k - from]
    IN sum[EndOf(bytes, j)]

\* It spells the fields of an event of that type.
Spells(type, bytes) ==
    /\ Fields(type) # 0
    /\ \A j \in 1 .. Fields(type) :
          /\ EndOf(bytes, j) <= Len(bytes)
          /\ EndOf(bytes, j) - StartOf(bytes, j) < MaxBytes
          /\ Number(bytes, j) < Word
    /\ Fields(type) >= 2 =>
          (IF type \in Mmio THEN reader.addr + ZigZagDecode(Number(bytes, 2))
           ELSE Number(bytes, 2)) \in 0 .. Space32 - 1
    /\ Fields(type) = 3 => Number(bytes, 3) < Space32

\* "parsing input it does not trust" (trace_reader.cpp:218): of any bytes, the
\* reader hands out an event iff they spell one that fits its fields, and then
\* that one, and stops otherwise.
ParsesExactly ==
    [][reader.payload # <<>> =>
          LET type  == Head(reader.payload)
              bytes == Tail(reader.payload)
              n     == Fields(type)
          IN IF ~Spells(type, bytes) THEN reader'.done /\ got' = got
             ELSE /\ ~reader'.done
                  /\ reader'.payload = SubSeq(bytes, EndOf(bytes, n) + 1, Len(bytes))
                  /\ Last(got').ts = (reader.ts + Number(bytes, 1)) % Word
                  /\ n >= 2 /\ type \in Mmio =>
                        Last(got').addr = reader.addr + ZigZagDecode(Number(bytes, 2))
                  /\ n >= 2 /\ type \notin Mmio => Last(got').addr = Number(bytes, 2)
                  /\ n = 3 => Last(got').value = Number(bytes, 3)]_vars
================================================================================
