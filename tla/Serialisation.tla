---------------------------- MODULE Serialisation ----------------------------
(***************************************************************************)
(* serialisation: objects as ASN.1 DER, and packet_deserialiser, which     *)
(* cuts the octets of a connection into packets again.  Octets are the     *)
(* real ones; std::uint64_t has Wide octets.  A decoder is a record that   *)
(* the operations pass on: fail is what was thrown, got what was read      *)
(* last.  A text is one octet, a calendar time is one octet and its        *)
(* fraction another.  The packets are two types made of every construct    *)
(* the protocols use: sequences, tags, optionals, containers, a choice.    *)
(***************************************************************************)
EXTENDS Integers, Sequences, SequencesExt

CONSTANTS
    Wide,           \* sizeof(uint64_t)
    MaxStructure,   \* max_structure_size
    MaxConstructed, \* max_constructed_size
    MaxDepth,       \* max_structure_depth
    MaxBuffer,      \* buf_max_size_
    Packets,        \* the packets that are sent
    Absent,         \* an empty optional
    MaxPackets      \* bound: packets sent

Pow(b, n) == b ^ n
Bit(v, i) == (v \div Pow(2, i)) % 2
Smaller(a, b) == IF a < b THEN a ELSE b

-----------------------------------------------------------------------------
\* util.hpp.  The block of bits that the highest bit set (and the sign) is in.
highest_bit_block(v, signed, size, block) ==
    LET bits == {i \in 0 .. size * 8 - 1 : Bit(v, i) = 1}
        top == IF bits = {} THEN -1 ELSE CHOOSE i \in bits : \A j \in bits : j <= i
        high == IF signed /\ (top + 1) % block = 0 THEN top + 1 ELSE top
    IN  IF high < 0 THEN 0 ELSE high \div block

bits_from_position(v, pos, block) == (v \div Pow(2, pos)) % Pow(2, block)

encode_to_octets(v, size, signed, block) ==
    LET n == highest_bit_block(v, signed, size, block) + 1
    IN  [i \in 1 .. n |-> bits_from_position(v, (n - i) * block, block)]

decode_from_octets(o) == FoldLeft(LAMBDA v, b : v * 256 + b, 0, o)

\* The octets that hold v, inverted.
Inverted(v, signed, size) == Pow(256, highest_bit_block(v, signed, size, 8) + 1) - 1 - v
translate_negative(v, size) == Inverted(-(v + 1), TRUE, size)

encode_integer(v, size) ==
    IF v < 0 THEN encode_to_octets(translate_negative(v, size), size, FALSE, 8)
    ELSE encode_to_octets(v, size, TRUE, 8)

decode_integer(o, size) ==
    IF o[1] < 128 THEN decode_from_octets(o) ELSE -Inverted(decode_from_octets(o), FALSE, size) - 1

\* A real is a special one or normal: an odd man times 2 to the exp.
Special(kind) == [kind |-> kind, neg |-> FALSE, man |-> 0, exp |-> 0]
Specials == {Special(kind) : kind \in {"nan", "inf", "-inf", "0", "-0"}}
\* frexp and export_mantissa push man to the left of its octets, normalise_mantissa back.
export_mantissa(man) ==
    LET n == highest_bit_block(man, FALSE, Wide, 8) + 1
        bits == highest_bit_block(man, FALSE, Wide, 1) + 1
    IN  [octets |-> n, value |-> man * Pow(2, 8 * n - bits), bits |-> bits]
normalise_mantissa(m) ==
    LET low == CHOOSE i \in 0 .. 7 : Bit(m.value, i) = 1 /\ \A j \in 0 .. i - 1 : Bit(m.value, j) = 0
    IN  [octets |-> m.octets, value |-> m.value \div Pow(2, low), shift |-> low]

encode_special_real(r) ==
    CASE r.kind = "nan" -> <<66>> [] r.kind = "inf" -> <<64>> [] r.kind = "-inf" -> <<65>>
      [] r.kind = "-0" -> <<67>> [] r.kind = "0" -> <<>>

encode_normal_real(r) ==
    LET m == export_mantissa(r.man)  n == normalise_mantissa(m)
        exp == encode_integer((r.exp + m.bits) - (m.octets * 8 - n.shift), Wide)
    IN  <<128 + (IF r.neg THEN 64 ELSE 0) + (IF Len(exp) > 3 THEN 3 ELSE Len(exp) - 1)>>
        \o (IF Len(exp) > 3 THEN <<Len(exp)>> ELSE <<>>)
        \o exp \o [i \in 1 .. n.octets |-> bits_from_position(n.value, (n.octets - i) * 8, 8)]

decode_special_real(b) ==
    Special(CASE b = 66 -> "nan" [] b = 64 -> "inf" [] b = 65 -> "-inf" [] b = 67 -> "-0"
              [] OTHER -> "error")

\* The sign and the exponent's place, or an error for an encoding that is not supported.
check_to_decode_normal_real(o) ==
    LET long == o[1] % 4 = 3
    IN  [ok |-> Bit(o[1], 7) = 1 /\ \A i \in 2 .. 5 : Bit(o[1], i) = 0, neg |-> Bit(o[1], 6) = 1,
         from |-> IF long THEN 3 ELSE 2, length |-> IF long THEN o[2] ELSE (o[1] % 4) + 1]

decode_normal_real(o) ==
    LET c == check_to_decode_normal_real(o)
        to == c.from + c.length
    IN  IF ~c.ok \/ Len(o) < to THEN Special("error")
        ELSE [kind |-> "normal", neg |-> c.neg, man |-> decode_from_octets(SubSeq(o, to, Len(o))),
              exp |-> decode_integer(SubSeq(o, c.from, to - 1), Wide)]

encode_real(r) == IF r.kind # "normal" THEN encode_special_real(r) ELSE encode_normal_real(r)
decode_real(o) ==
    CASE o = <<>> -> Special("0") [] Len(o) = 1 -> decode_special_real(o[1]) [] Len(o) > 1 -> decode_normal_real(o)

-----------------------------------------------------------------------------
\* asn_der_encoder.  A tag is <<class, number>>.
Universal(n) == <<0, n>>
Context(n) == <<2, n>>
SequenceTag == Universal(16)
IntegerTag == Universal(2)
OctetStringTag == Universal(4)
RealTag == Universal(9)
TimeTag == Universal(24)

encode_tag_first_byte(class, n, constructed) == <<class * 64 + (IF constructed THEN 32 ELSE 0) + n>>

encode_tag(tag, constructed) ==
    IF tag[2] <= 30 THEN encode_tag_first_byte(tag[1], tag[2], constructed)
    ELSE LET long == encode_to_octets(tag[2], Wide, FALSE, 7)
         IN  encode_tag_first_byte(tag[1], 31, constructed)
             \o [i \in DOMAIN long |-> IF i = Len(long) THEN long[i] ELSE long[i] + 128]

encode_length(n) ==
    IF n <= 127 THEN <<n>>
    ELSE LET long == encode_to_octets(n, Wide, FALSE, 8) IN <<128 + Len(long)>> \o long

encode_header(tag, constructed, n) == encode_tag(tag, constructed) \o encode_length(n)

\* start_sequence ... end_sequence: the octets are kept until their number is known.
sequence(tag, octets) == encode_header(tag, TRUE, Len(octets)) \o octets
explicit_tag(tag, octets) == encode_header(tag, TRUE, Len(octets)) \o octets
\* A text that is too long to be loaded again is refused: Packets has none.
encode_string(tag, octets) == encode_header(tag, FALSE, Len(octets)) \o octets
write_integer(tag, v) == encode_string(tag, encode_integer(v, 2))
write_real(r) == encode_string(RealTag, encode_real(r))
\* Times in milliseconds since the epoch: the fraction is left out when it is 0.
write_time(t) == encode_string(TimeTag, IF t % 1000 = 0 THEN <<t \div 1000>> ELSE <<t \div 1000, t % 1000>>)
\* An optional value that is absent writes nothing.
optional(v, octets) == IF v = Absent THEN <<>> ELSE octets

\* The packets, as choice::serialise writes them: "first" is a number, an optional sequence of a
\* number and, with an implicit tag, an optional number; "second" is a container of texts and,
\* with an explicit tag, a number.
PacketTag(type) == CASE type = "first" -> 1 [] type = "second" -> 2 [] OTHER -> 40
serialise(p) ==
    sequence(Context(PacketTag(p.type)),
        IF p.type = "second"
        THEN sequence(SequenceTag, FlattenSeq([i \in DOMAIN p.texts |-> encode_string(OctetStringTag, p.texts[i])]))
             \o explicit_tag(Context(3), write_integer(IntegerTag, p.number))
        ELSE write_integer(IntegerTag, p.number)
             \o optional(p.opt, sequence(SequenceTag, write_integer(IntegerTag, p.opt)))
             \o optional(p.tagged, write_integer(Context(1), p.tagged)))

-----------------------------------------------------------------------------
\* buffered_stream over octet_span_istream.  at is where the stream is, buffer what was read
\* ahead of need, ahead how far into it the decoder is, real the octets before it.
NewDecoder(data) ==
    [data |-> data, at |-> 0, buffer |-> <<>>, ahead |-> 0, real |-> 0, peeks |-> 0,
     seq_pos |-> <<>>, fail |-> "no", got |-> 0, kept |-> <<>>]

\* Once something was thrown, the rest does not run.
Throw(d, what) == [d EXCEPT !.fail = what]
position(d) == d.real + d.ahead

read_from_buffer(d, n) ==
    LET m == Smaller(n, Len(d.buffer) - d.ahead)
        read == [d EXCEPT !.ahead = @ + m, !.got = SubSeq(d.buffer, d.ahead + 1, d.ahead + m)]
    IN  IF d.ahead >= Len(d.buffer) THEN [d EXCEPT !.got = <<>>]
        ELSE IF d.peeks = 0 /\ read.ahead = Len(d.buffer)
             THEN [read EXCEPT !.real = @ + read.ahead, !.ahead = 0, !.buffer = <<>>]
             ELSE read

\* A short read takes what is left of the stream with it.
read_from_stream(d, n) ==
    LET octets == SubSeq(d.data, d.at + 1, d.at + n)
        read == [d EXCEPT !.at = @ + n, !.got = @ \o octets]
    IN  IF d.at + n > Len(d.data) THEN Throw([d EXCEPT !.at = Len(d.data)], "error")
        ELSE IF d.peeks > 0 THEN [read EXCEPT !.buffer = @ \o octets, !.ahead = @ + n]
        ELSE [read EXCEPT !.real = @ + n]

\* got becomes the n octets that follow.
ReadRest(b, n) == IF Len(b.got) = n THEN b ELSE read_from_stream(b, n - Len(b.got))
read(d, n) == IF d.fail # "no" THEN d ELSE ReadRest(read_from_buffer(d, n), n)

\* got becomes whether n octets can be read.
readable_bytes(d, n) ==
    LET more == n - (IF d.ahead < Len(d.buffer) THEN Len(d.buffer) - d.ahead ELSE 0)
    IN  IF d.fail # "no" THEN d
        ELSE IF more <= 0 THEN [d EXCEPT !.got = TRUE]
        ELSE IF d.at + more > Len(d.data) THEN [d EXCEPT !.at = Len(d.data), !.got = FALSE]
        ELSE [d EXCEPT !.buffer = @ \o SubSeq(d.data, d.at + 1, d.at + more), !.at = @ + more,
                       !.got = TRUE]

\* The guards run when something was thrown as well.
start_peek(d) == [d EXCEPT !.peeks = @ + 1]
end_peek_Commits(d, ahead, commit) == [d EXCEPT !.peeks = @ - 1]
end_peek(d, ahead, commit) == [d EXCEPT !.peeks = @ - 1, !.ahead = IF commit THEN @ ELSE ahead]

-----------------------------------------------------------------------------
\* asn_der_decoder.  An operation goes on with what the one before it got, unless that threw.
\* got becomes the number of a tag in several octets.
MaxTagOctets == (Wide * 8) \div 7 + 1
TagOctet(r, k, number) ==
    IF r.fail # "no" THEN <<r, 0>>
    ELSE IF k = MaxTagOctets /\ r.got[1] >= 128 THEN <<Throw(r, "error"), 0>>
    ELSE <<r, number * 128 + (r.got[1] % 128)>>
decode_long_tag(d) ==
    LET Octets[k \in 0 .. MaxTagOctets] ==    \* the decoder after k octets, as <<decoder, number>>
            IF k = 0 THEN <<d, 0>>
            ELSE LET before == Octets[k - 1]
                 IN  IF before[1].fail # "no" \/ (k > 1 /\ before[1].got[1] < 128) THEN before
                     ELSE TagOctet(read(before[1], 1), k, before[2])
        last == Octets[MaxTagOctets]
    IN  [last[1] EXCEPT !.got = last[2]]

\* got becomes the length.
FromOctets(o) == IF o.fail # "no" THEN o ELSE [o EXCEPT !.got = decode_from_octets(o.got)]
LengthFrom(b) ==
    IF b.fail # "no" THEN b
    ELSE IF b.got[1] < 128 THEN [b EXCEPT !.got = b.got[1]]
    ELSE IF b.got[1] % 128 \notin 1 .. Wide THEN Throw(b, "error")
    ELSE FromOctets(read(b, b.got[1] % 128))
decode_length(d) == LengthFrom(read(d, 1))

\* got becomes the header.
WithLength(l, tag, constructed) ==
    IF l.fail # "no" THEN l
    ELSE IF l.got > (IF constructed THEN MaxConstructed ELSE MaxStructure) THEN Throw(l, "error")
    ELSE [l EXCEPT !.got = [tag |-> tag, constructed |-> constructed, length |-> l.got]]
WithTag(t, octet) ==
    IF t.fail # "no" THEN t
    ELSE WithLength(decode_length(t), <<octet \div 64, t.got>>, Bit(octet, 5) = 1)
HeaderFrom(b) ==
    IF b.fail # "no" THEN b
    ELSE WithTag(IF b.got[1] % 32 = 31 THEN decode_long_tag(b) ELSE [b EXCEPT !.got = b.got[1] % 32], b.got[1])
decode_any_header(d) == HeaderFrom(read(d, 1))

is_end_of_sequence(d) == d.seq_pos # <<>> /\ Head(d.seq_pos) <= position(d)

\* decode_header for a tag that is expected: another tag, or the end, is "absent".
ExpectedTag(h, tag) == IF h.fail = "no" /\ h.got.tag # tag THEN Throw(h, "absent") ELSE h
decode_header(d, tag) ==
    LET r == IF d.seq_pos = <<>> THEN readable_bytes(d, 1) ELSE [d EXCEPT !.got = TRUE]
    IN  IF d.fail # "no" THEN d
        ELSE IF is_end_of_sequence(d) \/ ~r.got THEN Throw(r, "absent")
        ELSE ExpectedTag(decode_any_header(r), tag)

push(d, length) ==
    IF Len(d.seq_pos) >= MaxDepth THEN Throw(d, "error")
    ELSE [d EXCEPT !.seq_pos = <<position(d) + length>> \o @]

Enter(h) ==
    IF h.fail # "no" THEN h
    ELSE IF ~h.got.constructed THEN Throw(h, "error") ELSE push(h, h.got.length)
start_sequence(d, tag) == Enter(decode_header(d, tag))
start_explicit_tag(d, tag) == Enter(decode_header(d, tag))

\* end_sequence runs in ~sequence: after a throw as well, if the start did not throw.  What was not
\* read of the sequence is skipped; an error in that is thrown afterwards.
Rethrow(d, fail) == IF d.fail # "no" THEN d ELSE [d EXCEPT !.fail = fail]
end_sequence(d, start) ==
    LET popped == [d EXCEPT !.seq_pos = Tail(@), !.fail = "no"]
        left == Head(d.seq_pos) - position(d)
    IN  IF start.fail # "no" THEN d
        ELSE Rethrow(IF left > 0 THEN read(popped, left) ELSE popped, d.fail)

Content(h) == IF h.fail # "no" THEN h ELSE read(h, h.got.length)
decode_string(d, tag) == Content(decode_header(d, tag))

IntFrom(o, size, signed) ==
    IF o.fail # "no" THEN o
    ELSE IF o.got[1] >= 128 /\ ~signed THEN Throw(o, "error")
    ELSE [o EXCEPT !.got = decode_integer(o.got, size)]
IntContent(h, size, signed) ==
    IF h.fail # "no" THEN h
    ELSE IF h.got.length > size + (IF signed THEN 0 ELSE 1) \/ h.got.length = 0 THEN Throw(h, "error")
    ELSE IntFrom(Content(h), size, signed)
decode_int(d, tag, size, signed) == IntContent(decode_header(d, tag), size, signed)

RealFrom(o) == IF o.fail # "no" THEN o ELSE [o EXCEPT !.got = decode_real(o.got)]
RealContent(h) ==
    IF h.fail = "no" /\ h.got.length > 2 * Wide + 2 THEN Throw(h, "error") ELSE RealFrom(Content(h))
decode_double(d) == RealContent(decode_header(d, RealTag))

TimeFrom(o) ==
    IF o.fail # "no" THEN o
    ELSE IF Len(o.got) \notin {1, 2} THEN Throw(o, "error")
    ELSE [o EXCEPT !.got = o.got[1] * 1000 + (IF Len(o.got) = 1 THEN 0 ELSE o.got[2])]
decode_time(d) == TimeFrom(decode_string(d, TimeTag))

\* trailing_data: what is left of the sequence, to be written again as it was.
decode_trailing(d) ==
    IF d.fail # "no" THEN d
    ELSE IF d.seq_pos = <<>> THEN Throw(d, "error")
    ELSE IF is_end_of_sequence(d) THEN [d EXCEPT !.got = <<>>]
    ELSE read(d, Head(d.seq_pos) - position(d))

next_tag(d) ==
    LET h == decode_any_header(start_peek(d)) IN end_peek(h, d.ahead, FALSE)

\* has_next: the length of the next element if all of it is there, else 0; what is thrown on the
\* way counts as 0.
NextIsThere(h, d) ==
    LET length == position(h) - position(d) + h.got.length
        back == [end_peek(h, d.ahead, FALSE) EXCEPT !.fail = "no"]
        r == readable_bytes(back, length)
    IN  IF h.fail # "no" THEN [back EXCEPT !.got = 0] ELSE [r EXCEPT !.got = IF r.got THEN length ELSE 0]
has_next(d) == NextIsThere(decode_any_header(start_peek(d)), d)

-----------------------------------------------------------------------------
\* deserialiser.  Values that were read collect in kept.
Keep(d, v) == IF d.fail = "no" THEN [d EXCEPT !.kept = Append(@, v)] ELSE d
KeepGot(d) == Keep(d, d.got)

ReadNumber(d, tag) == KeepGot(decode_int(d, tag, 2, TRUE))
ContaineeIn(s) == end_sequence(ReadNumber(s, IntegerTag), s)
Containee(d) == ContaineeIn(start_sequence(d, SequenceTag))
Text(d) == KeepGot(decode_string(d, OctetStringTag))

\* handle(optional): nothing of it is read when it is absent.
OptionalFrom(r, d) ==
    LET back == end_peek(r, d.ahead, r.fail = "no")
    IN  IF r.fail = "absent" THEN Keep([back EXCEPT !.fail = "no", !.kept = d.kept], Absent) ELSE back
handle_optional(d, part) ==
    IF d.fail # "no" THEN d
    ELSE LET p == start_peek(d)
         IN  OptionalFrom(IF part = "containee" THEN Containee(p) ELSE ReadNumber(p, Context(1)), d)

\* An element of a container that takes no octets is refused.
NotEmpty(e, from) == IF e.fail = "no" /\ position(e) = from THEN Throw(e, "error") ELSE e
ContainerIn(s, kept) ==
    LET Elements[k \in 0 .. Len(s.data)] ==
            IF k = 0 THEN [s EXCEPT !.kept = <<>>]
            ELSE LET before == Elements[k - 1]
                 IN  IF before.fail # "no" \/ is_end_of_sequence(before) THEN before
                     ELSE NotEmpty(Text(before), position(before))
        all == Elements[Len(s.data)]
    IN  IF s.fail # "no" THEN s ELSE Keep([end_sequence(all, s) EXCEPT !.kept = kept], all.kept)
container_serialise(d) == ContainerIn(start_sequence(d, SequenceTag), d.kept)

\* The end of an explicit tag has no guard: it is not reached after a throw.
EndExplicit(d, e) == IF d.fail # "no" THEN d ELSE end_sequence(d, e)
ExplicitIn(e) == EndExplicit(ReadNumber(e, IntegerTag), e)

PacketIn(s, type) ==
    end_sequence(IF type = "first"
                 THEN handle_optional(handle_optional(ReadNumber(s, IntegerTag), "containee"), "tagged")
                 ELSE ExplicitIn(start_explicit_tag(container_serialise(s), Context(3))), s)
deserialise(d, type) == PacketIn(start_sequence(d, Context(PacketTag(type))), type)

\* choice::deserialise: the tag tells the type.
ChoiceOf(t) ==
    LET types == {type \in {"first", "second"} : t.got.tag[2] = PacketTag(type)}
    IN  IF t.fail # "no" THEN t
        ELSE IF types = {} THEN Throw(t, "error") ELSE deserialise(t, CHOOSE type \in types : TRUE)
choice_deserialise(d) == ChoiceOf(next_tag(d))

Values(p) == IF p.type = "second" THEN <<p.texts, p.number>> ELSE <<p.number, p.opt, p.tagged>>

-----------------------------------------------------------------------------
VARIABLES
    sent,           \* packets sent on this connection
    wire,           \* octets of it that have not arrived
    buf,            \* buf_
    visited,        \* what the visitor was called with
    thrown          \* what handle threw: the connection is closed then ("closed": it was never open)

packetVars == <<sent, wire, buf, visited, thrown>>

PacketsInit == sent = <<>> /\ wire = <<>> /\ buf = <<>> /\ visited = <<>> /\ thrown = "no"

SendPacket(p) ==
    /\ Len(sent) < MaxPackets /\ thrown = "no"
    /\ sent' = Append(sent, p) /\ wire' = wire \o serialise(p) /\ UNCHANGED <<buf, visited, thrown>>

\* do_check's loop over the octets there are: the packets in them, and how many octets they took.
Visit(before, r, length) ==
    IF r.fail # "no" THEN [before EXCEPT !.fail = "error"]
    ELSE [pos |-> before.pos + length, seen |-> Append(before.seen, r.kept), fail |-> "no"]
CheckNext(before, d) == IF d.got = 0 THEN before ELSE Visit(before, choice_deserialise(d), d.got)
Checked(octets) ==
    LET Step[k \in 0 .. MaxPackets] ==
            IF k = 0 THEN [pos |-> 0, seen |-> <<>>, fail |-> "no"]
            ELSE LET before == Step[k - 1]
                 IN  IF before.fail # "no" \/ before.pos = Len(octets) THEN before
                     ELSE CheckNext(before, has_next(NewDecoder(SubSeq(octets, before.pos + 1, Len(octets)))))
    IN  Step[MaxPackets]

do_check_Forgets(data) ==
    IF Len(buf) + Len(data) > MaxBuffer THEN thrown' = "constraint" /\ UNCHANGED <<buf, visited>>
    ELSE LET octets == buf \o data
             c == Checked(octets)
         IN  /\ visited' = visited \o c.seen /\ thrown' = c.fail
             /\ buf' = (IF c.pos > 0 THEN <<>> ELSE octets)

\* With nothing kept the packets are read where they arrived, and only the rest is kept.
do_check(data) ==
    IF Len(buf) + Len(data) > MaxBuffer THEN thrown' = "constraint" /\ UNCHANGED <<buf, visited>>
    ELSE LET octets == buf \o data
             c == Checked(octets)
         IN  /\ visited' = visited \o c.seen /\ thrown' = c.fail
             /\ buf' = (CASE c.fail # "no" -> IF buf = <<>> THEN <<>> ELSE octets
                          [] OTHER -> SubSeq(octets, c.pos + 1, Len(octets)))

\* handle: some of the octets arrive.
handle(n) ==
    /\ thrown = "no" /\ n <= Len(wire)
    /\ do_check(SubSeq(wire, 1, n)) /\ wire' = SubSeq(wire, n + 1, Len(wire))
    /\ UNCHANGED sent

\* The connection is made anew: clear().
clear ==
    /\ sent # <<>>
    /\ sent' = <<>> /\ wire' = <<>> /\ buf' = <<>> /\ visited' = <<>> /\ thrown' = "no"

PacketsNext ==
    \/ \E p \in Packets : SendPacket(p)
    \/ \E n \in 1 .. Len(wire) : handle(n)
    \/ clear

-----------------------------------------------------------------------------
\* Two's complement in as few octets as it takes, most significant first: what DER asks for.
Minimal(v) ==
    LET n == CHOOSE k \in 1 .. Wide : /\ v \in -Pow(2, 8 * k - 1) .. Pow(2, 8 * k - 1) - 1
                                      /\ \A j \in 1 .. k - 1 : v \notin -Pow(2, 8 * j - 1) .. Pow(2, 8 * j - 1) - 1
        w == IF v < 0 THEN v + Pow(256, n) ELSE v
    IN  [i \in 1 .. n |-> (w \div Pow(256, n - i)) % 256]

Fresh == sent = <<>> /\ wire = <<>> /\ thrown = "no"

\* d has read all of the octets, and got the header from them.
HasHeader(d, octets, header) == d.fail = "no" /\ position(d) = Len(octets) /\ d.got = header

\* Numbers are written as DER asks and read back as they were, at every edge of an octet and of
\* a sign: integers, tags, lengths, reals and times.
NumbersKept ==
    LET reals == Specials \cup
                 [kind : {"normal"}, neg : BOOLEAN, man : {1, 3, 127, 129, 255, 257, 32767, 65535}, exp : {-129, -128, -1, 0, 127, 128}]
        headers == [tag : (0 .. 3) \X {0, 1, 30, 31, 127, 128, 16383, 16384}, constructed : BOOLEAN,
                    length : {0, 127, 128, 255, 256}]
    IN  /\ \A v \in -32768 .. -32700 \cup -300 .. 300 \cup 32700 .. 32767 :
              encode_integer(v, 2) = Minimal(v) /\ decode_integer(Minimal(v), 2) = v
        /\ \A v \in 0 .. 255 : encode_integer(v, 1) = Minimal(v) /\ decode_integer(Minimal(v), 1) = v
        /\ \A h \in headers : LET octets == encode_header(h.tag, h.constructed, h.length)
                              IN  HasHeader(decode_any_header(NewDecoder(octets)), octets, h)
        /\ \A r \in reals : decode_double(NewDecoder(write_real(r))).got = r
        /\ \A t \in {0, 1, 999, 1000, 1001, 255999} : decode_time(NewDecoder(write_time(t))).got = t

\* d has loaded the values from all of the octets and from no others.
HasLoaded(d, octets, values) ==
    /\ d.fail = "no" /\ d.kept = values /\ position(d) = Len(octets)
    /\ d.seq_pos = <<>> /\ d.peeks = 0

\* Nothing is loaded from octets that are cut short.
CutsRefused(octets) ==
    \A n \in 0 .. Len(octets) - 1 :
        LET cut == NewDecoder(SubSeq(octets, 1, n))
        IN  choice_deserialise(cut).fail = "error" /\ has_next(cut).got = 0

\* The number of a "first" followed by something that this program does not know.
UnknownKept(octets, number) ==
    LET rest == decode_trailing(decode_int(start_sequence(NewDecoder(octets), Context(1)), IntegerTag, 2, TRUE))
    IN  /\ HasLoaded(choice_deserialise(NewDecoder(octets)), octets, <<number, Absent, Absent>>)
        /\ octets = sequence(Context(1), write_integer(IntegerTag, number) \o rest.got)

DocumentKept(octets, p) ==
    /\ HasLoaded(choice_deserialise(NewDecoder(octets \o <<48, 0>>)), octets, Values(p))
    /\ CutsRefused(octets)

\* A document loads as what was saved, with all of its octets and no others taken, though
\* optional values are tried for and given up again; cut anywhere it does not load; a program
\* that does not know the last values of a type loads the others, and with trailing_data it
\* saves again what it did not know; and the numbers in it are those of NumbersKept.
DocumentsKept ==
    Fresh =>
        /\ NumbersKept
        /\ \A p \in {q \in Packets : q.type # "unknown"} :
              /\ DocumentKept(serialise(p), p)
              /\ p.type = "first" =>
                    UnknownKept(sequence(Context(1), write_integer(IntegerTag, p.number) \o write_real(Special("0"))),
                                p.number)

\* ends[n] is where the nth packet ends in the octets of the connection.
OnceInOrder(ends) ==
    LET arrived == ends[Len(sent)] - Len(wire)
        whole == CHOOSE n \in DOMAIN ends : ends[n] <= arrived /\ (n < Len(sent) => ends[n + 1] > arrived)
    IN  /\ \A i \in DOMAIN visited : i \in DOMAIN sent /\ visited[i] = Values(sent[i])
        /\ thrown = "no" => Len(visited) = whole /\ Len(buf) = arrived - ends[whole]
        /\ thrown = "error" => \E i \in 1 .. whole : sent[i].type = "unknown" /\ Len(visited) = i - 1
        /\ thrown = "constraint" => arrived - ends[Len(visited)] > MaxBuffer

\* However the octets of a connection are cut up on the way, the visitor is called once with
\* each packet, in order, as soon as its last octet is there; a packet of a type that is not in
\* the choice is the only thing that ends this before the buffer is full.
PacketsOnce ==
    OnceInOrder([n \in 0 .. Len(sent) |-> Len(FlattenSeq([i \in 1 .. n |-> serialise(sent[i])]))])
=============================================================================
