------------------------------ MODULE AudioFiles ------------------------------
(***************************************************************************)
(* audio/util: WAV files and the conversion of sound between formats.  A   *)
(* file is loaded chunk by chunk and then converted.  Its chunks have the  *)
(* sizes they declare, except that the last one may be cut short; a sample *)
(* of data is one number, a float is a rational <<numerator, denominator>>.*)
(* Byte order is left out: reading and writing swap the same bytes.        *)
(***************************************************************************)
EXTENDS Integers, Sequences, SequencesExt

CONSTANTS
    Files,          \* the files: [riff, chunks, tail], see below
    Targets,        \* the formats to convert to
    MaxFmtSize, MaxDataSize, \* max_fmt_chunk_size, max_data_chunk_size
    MaxChannels,    \* max_supported_channels
    MaxRate,        \* max_sample_rate
    HalfChar, HalfShort, HalfInt24, \* 128, 32768 and 2^23 in the code
    MaxSaves,       \* bound: calls of save
    MaxMixes,       \* bound: calls of mix, scale and add_silence_samples
    Multipliers,    \* the multipliers they are called with, rationals
    Nothing         \* an empty optional

\* chunk: id, declared size, the samples that are there, and for "fmt " the format it holds
\* [tag, channels, rate, bits]; bits \div 8 samples of data are one sample value here, so sizes
\* are in values.
VARIABLES
    file, next,     \* the file and the chunk that is read next
    format, data,   \* wav's format_ and data_, audio_data's after the load
    status,         \* "loading", "loaded", "error", "buffered", "converted", "refused"
    block, mixes,  \* the audio_buffer made of the data: [type, samples, used]
    saves

mixVars == <<block, mixes>>
fileVars == <<file, next, format, data, status, mixVars, saves>>

FilesInit == file \in Files /\ next = 1 /\ format = Nothing /\ data = <<>> /\ status = "loading" /\ saves = 0
             /\ block = Nothing /\ mixes = 0

\* wav::load: the header of the file.
load_header ==
    /\ status = "loading" /\ next = 1 /\ ~file.riff
    /\ status' = "error" /\ UNCHANGED <<file, next, format, data, mixVars, saves>>

load_format_chunk(c) ==
    IF c.size < 1 \/ c.size > MaxFmtSize \/ Len(c.samples) # c.size
    THEN status' = "error" /\ UNCHANGED <<format, data>>
    ELSE format' = c.fmt /\ UNCHANGED <<data, status>>

load_data_chunk(c) ==
    IF c.size > MaxDataSize \/ Len(c.samples) # c.size
    THEN status' = "error" /\ UNCHANGED <<format, data>>
    ELSE data' = c.samples /\ UNCHANGED <<format, status>>

\* load_chunk: a chunk of another kind is skipped, even past the end of the file.
load_chunk ==
    /\ status = "loading" /\ file.riff /\ next <= Len(file.chunks)
    /\ LET c == file.chunks[next]
       IN  CASE c.id = "fmt" -> load_format_chunk(c)
             [] c.id = "data" -> load_data_chunk(c)
             [] OTHER -> UNCHANGED <<format, data, status>>
    /\ next' = next + 1 /\ UNCHANGED <<file, mixVars, saves>>

validate_wav_format(f, size) ==
    /\ f.tag \in {1, 3} /\ f.channels \in 1 .. MaxChannels /\ f.rate \in 1 .. MaxRate
    /\ IF f.tag = 3 THEN f.bits = 32 ELSE f.bits \in {8, 16, 24}
    /\ size % f.channels = 0

wav_type(f) ==
    CASE f.tag = 3 -> "float" [] f.tag # 3 /\ f.bits = 8 -> "uchar"
      [] f.tag # 3 /\ f.bits = 24 -> "int24" [] OTHER -> "short"

\* wav::load at the end of the file, and wav::format.
load_end ==
    /\ status = "loading" /\ file.riff /\ next > Len(file.chunks)
    /\ IF file.tail = "partial" \/ format = Nothing \/ data = <<>> \/ ~validate_wav_format(format, Len(data))
       THEN status' = "error" /\ UNCHANGED format
       ELSE /\ status' = "loaded"
            /\ format' = [type |-> wav_type(format), channels |-> format.channels, rate |-> format.rate]
    /\ UNCHANGED <<file, next, data, mixVars, saves>>

-----------------------------------------------------------------------------
Clamp(x, lo, hi) == IF x < lo THEN lo ELSE IF x > hi THEN hi ELSE x
\* lrintf: to the nearest integer, halves to the even one.
Round(r) ==
    LET q == r[1] \div r[2]  twice == 2 * (r[1] - q * r[2])
    IN  IF twice < r[2] \/ (twice = r[2] /\ q % 2 = 0) THEN q ELSE q + 1
\* In lowest terms; the denominator is positive.
Reduced(r) ==
    LET g == CHOOSE k \in {d \in 1 .. r[2] : r[1] % d = 0 /\ r[2] % d = 0} :
                \A d \in k + 1 .. r[2] : r[1] % d # 0 \/ r[2] % d # 0
    IN  <<r[1] \div g, r[2] \div g>>
Leq(r, s) == r[1] * s[2] <= s[1] * r[2]

read_sample(v, type) ==
    CASE type = "char" -> <<v, HalfChar>>
      [] type = "uchar" -> <<v - HalfChar, HalfChar>>
      [] type = "short" -> <<v, HalfShort>>
      [] type = "int24" -> <<v, HalfInt24>>
      [] type = "float" -> v

quantise(r, scale, lo, hi) == Clamp(Round(<<r[1] * scale, r[2]>>), lo, hi)

\* write_sample: clamped to -1 .. 1 first; int24_t is not written at all.
write_sample(r0, type) ==
    LET r == <<Clamp(r0[1], -r0[2], r0[2]), r0[2]>>
    IN  CASE type = "char" -> quantise(r, HalfChar, -HalfChar, HalfChar - 1)
          [] type = "uchar" -> quantise(<<r[1] + r[2], r[2]>>, HalfChar, 0, 2 * HalfChar - 1)
          [] type = "short" -> quantise(r, HalfShort, -HalfShort, HalfShort - 1)
          [] type = "float" -> r
          [] type = "int24" -> 0

Plus(r, s) == Reduced(<<r[1] * s[2] + s[1] * r[2], r[2] * s[2]>>)
mix_channels(frame) ==
    LET sum[c \in 0 .. Len(frame)] == IF c = 0 THEN <<0, 1>> ELSE Plus(sum[c - 1], frame[c])
    IN  Reduced(<<sum[Len(frame)][1], sum[Len(frame)][2] * Len(frame)>>)

remap_channel(frame, dst, ch) ==
    CASE dst < Len(frame) -> mix_channels(frame)
      [] dst >= Len(frame) /\ ch <= Len(frame) -> frame[ch]
      [] OTHER -> frame[1]

\* The frames of the data as floats, each with dst channels; a partial frame at the end is dropped.
decode_frames(d, src, dst) ==
    [f \in 1 .. Len(d) \div src.channels |->
        LET frame == [c \in 1 .. src.channels |-> read_sample(d[(f - 1) * src.channels + c], src.type)]
        IN  [c \in 1 .. dst |-> remap_channel(frame, dst, c)]]

dst_frames_Truncates(n, src, dst) == LET whole == (n * dst) \div src IN IF whole < 1 THEN 1 ELSE whole

\* Rounded, so that the duration is kept.
dst_frames(n, src, dst) ==
    LET nearest == (n * dst + src \div 2) \div src IN IF nearest < 1 THEN 1 ELSE nearest

\* Linear interpolation.
convert_rate(frames, src, dst) ==
    LET n == Len(frames)
        Frame(f) ==
            LET at == (f * src) \div dst
                i0 == IF at < n THEN at ELSE n - 1
                i1 == IF i0 + 1 < n THEN i0 + 1 ELSE n - 1
                frac == f * src - i0 * dst          \* times dst
                Between(a, b) ==
                    Reduced(<<a[1] * b[2] * (dst - frac) + b[1] * a[2] * frac, a[2] * b[2] * dst>>)
            IN  [c \in DOMAIN frames[1] |-> Between(frames[i0 + 1][c], frames[i1 + 1][c])]
    IN  IF n = 0 THEN <<>> ELSE [k \in 1 .. dst_frames(n, src, dst) |-> Frame(k - 1)]

\* The frames of so many channels, one after the other.
encode_frames(frames, channels, type) ==
    [k \in 1 .. Len(frames) * channels |->
        write_sample(frames[(k - 1) \div channels + 1][((k - 1) % channels) + 1], type)]

Converted(target) ==
    LET frames == decode_frames(data, format, target.channels)
    IN  encode_frames(IF format.rate = target.rate THEN frames
                      ELSE convert_rate(frames, format.rate, target.rate),
                      target.channels, target.type)

\* audio_data::resample
resample(target) ==
    /\ status = "loaded"
    /\ IF format.channels > MaxChannels \/ (format.rate # target.rate /\ 0 \in {format.rate, target.rate})
       THEN status' = "refused" /\ UNCHANGED <<format, data>>
       ELSE data' = Converted(target) /\ format' = target /\ status' = "converted"
    /\ UNCHANGED <<file, next, mixVars, saves>>

\* wav::save of what was converted, and the file it makes is the one that is loaded next.
save ==
    /\ status = "converted" /\ saves < MaxSaves /\ saves' = saves + 1 /\ format.type \in {"uchar", "short", "float"}
    /\ file' = [riff |-> TRUE, tail |-> "clean",
                chunks |-> <<[id |-> "fmt", size |-> 1, samples |-> <<0>>,
                              fmt |-> [tag |-> IF format.type = "float" THEN 3 ELSE 1,
                                       channels |-> format.channels, rate |-> format.rate,
                                       bits |-> CASE format.type = "uchar" -> 8
                                                  [] format.type = "short" -> 16
                                                  [] format.type = "float" -> 32]],
                             [id |-> "data", size |-> Len(data), samples |-> data, fmt |-> Nothing]>>]
    /\ next' = 1 /\ format' = Nothing /\ data' = <<>> /\ status' = "loading"
    /\ UNCHANGED mixVars

-----------------------------------------------------------------------------
\* audio_buffer: samples of one type in a block of a fixed size, the first `used` of them in use.
lowest(type) == CASE type = "uchar" -> 0 [] type = "char" -> -HalfChar [] type = "short" -> -HalfShort
highest(type) == CASE type = "uchar" -> 2 * HalfChar - 1 [] type = "char" -> HalfChar - 1
                   [] type = "short" -> HalfShort - 1
silence(type) == CASE type = "uchar" -> HalfChar [] type = "float" -> <<0, 1>> [] OTHER -> 0

\* checked_bytes_per_sample: the types a buffer may hold.
checked_type(type) == type \in {"char", "uchar", "short", "float"}

\* A double cast to the sample type: clamped, then cut toward zero; a float keeps its value.
to_sample(r, type) ==
    IF type = "float" THEN Reduced(r)
    ELSE LET c == Clamp(r[1], lowest(type) * r[2], highest(type) * r[2])
         IN  IF c < 0 THEN -((-c) \div r[2]) ELSE c \div r[2]
to_double(v, type) == IF type = "float" THEN v ELSE <<v, 1>>
Times(r, s) == <<r[1] * s[1], r[2] * s[2]>>

mix_sample(v, w, mult, type) == to_sample(Times(Plus(to_double(v, type), to_double(w, type)), mult), type)
scale_sample(v, mult, type) == to_sample(Times(to_double(v, type), mult), type)

mix(b, pos, other, otherPos, length, mult) ==
    [b EXCEPT !.samples = [i \in DOMAIN @ |->
        IF i \in pos + 1 .. pos + length
        THEN mix_sample(@[i], other.samples[otherPos + i - pos], mult, b.type) ELSE @[i]]]

scale(b, pos, length, mult) ==
    [b EXCEPT !.samples = [i \in DOMAIN @ |->
        IF i \in pos + 1 .. pos + length THEN scale_sample(@[i], mult, b.type) ELSE @[i]]]

add_silence_samples(b, n) ==
    [b EXCEPT !.samples = [i \in DOMAIN @ |-> IF i \in b.used + 1 .. b.used + n THEN silence(b.type) ELSE @[i]],
              !.used = @ + n]

consume_block(b, n) ==
    IF n = b.used THEN [b EXCEPT !.used = 0]
    ELSE [b EXCEPT !.used = @ - n,
                   !.samples = [i \in DOMAIN @ |-> IF i + n \in DOMAIN @ THEN @[i + n] ELSE @[i]]]

\* A copy has the same room and the samples in use; the room behind them is zero.
copy(b) == [b EXCEPT !.samples = [i \in DOMAIN @ |->
               IF i <= b.used THEN @[i] ELSE IF b.type = "float" THEN <<0, 1>> ELSE 0]]

\* load_file_to_buffer: what was loaded becomes a full buffer, if a buffer can hold its type.
load_file_to_buffer ==
    /\ status = "loaded" /\ mixes < MaxMixes
    /\ IF checked_type(format.type)
       THEN status' = "buffered" /\ block' = [type |-> format.type, samples |-> data, used |-> Len(data)]
       ELSE status' = "refused" /\ UNCHANGED block
    /\ UNCHANGED <<file, next, format, data, mixes, saves>>

\* What a sample of a type may be, and what the files and formats may hold: a data chunk has
\* samples of the type that the last format chunk gives.
SamplesOf(type) ==
    CASE type = "float" -> Int \X (Nat \ {0}) [] type = "int24" -> -HalfInt24 .. HalfInt24 - 1
      [] type \in {"char", "uchar", "short"} -> lowest(type) .. highest(type)
Types == {"char", "uchar", "short", "int24", "float"}
WavFormats == [tag : Int, channels : Int, rate : Int, bits : Int]
LastIn(chunks, id, i) == i \in DOMAIN chunks /\ chunks[i].id = id /\ \A j \in i + 1 .. Len(chunks) : chunks[j].id # id
IsFile(f) ==
    /\ f.riff \in BOOLEAN /\ f.tail \in {"clean", "partial"}
    /\ Len(f.chunks) \in Nat /\ DOMAIN f.chunks = 1 .. Len(f.chunks)
    /\ \A i \in DOMAIN f.chunks :
          LET c == f.chunks[i]
          IN  /\ c.id \in {"fmt", "data", "other"} /\ c.size \in Int /\ Len(c.samples) \in Nat /\ (c.id = "fmt" => c.fmt \in WavFormats)
              /\ c.id = "data" => \A j \in DOMAIN f.chunks : LastIn(f.chunks, "fmt", j) =>
                                    c.samples \in Seq(SamplesOf(wav_type(f.chunks[j].fmt)))

\* The scale of a wider type is a multiple of that of a narrower one; a multiplier is not negative.
ASSUME FilesAssumption ==
    /\ {MaxFmtSize, MaxDataSize, MaxChannels, MaxRate, MaxSaves, MaxMixes} \subseteq Nat
    /\ {HalfChar, HalfShort, HalfInt24} \subseteq Nat \ {0} /\ HalfShort % HalfChar = 0
    /\ \A f \in Files : IsFile(f)
    /\ \A t \in Targets : t.type \in Types /\ t.channels \in Nat /\ t.rate \in Nat
    /\ \A m \in Multipliers : m \in Nat \X (Nat \ {0})
    /\ Nothing \notin WavFormats

\* What the application may call: within the buffer, as the asserts ask.
change_buffer(b) ==
    /\ status = "buffered" /\ mixes < MaxMixes
    /\ block' = b /\ mixes' = mixes + 1
    /\ UNCHANGED <<file, next, format, data, status, saves>>

change_some ==
    \/ \E pos \in 0 .. block.used : \E n \in 0 .. block.used - pos, m \in Multipliers :
          \/ change_buffer(scale(block, pos, n, m))
          \/ change_buffer(mix(block, pos, copy(block), 0, n, m))
    \/ \E n \in 1 .. block.used : change_buffer(consume_block(block, n))
    \/ \E n \in 1 .. Len(block.samples) - block.used : change_buffer(add_silence_samples(block, n))

\* audio_data(audio_buffer): the whole block, in use or not.
from_buffer ==
    /\ status = "buffered"
    /\ data' = block.samples /\ status' = "converted" /\ block' = Nothing
    /\ UNCHANGED <<file, next, format, mixes, saves>>

FilesNext ==
    \/ load_header \/ load_chunk \/ load_end \/ save
    \/ load_file_to_buffer \/ (status = "buffered" /\ change_some) \/ from_buffer
    \/ \E target \in Targets : resample(target)

-----------------------------------------------------------------------------
\* The file as a whole: what a reader must accept.
LastOf(id) ==
    IF \E i \in DOMAIN file.chunks : LastIn(file.chunks, id, i)
    THEN CHOOSE i \in DOMAIN file.chunks : LastIn(file.chunks, id, i) ELSE 0
WellFormed ==
    /\ file.riff /\ file.tail = "clean" /\ LastOf("fmt") # 0 /\ LastOf("data") # 0
    /\ \A i \in DOMAIN file.chunks :
          LET c == file.chunks[i]
          IN  c.id # "other" => Len(c.samples) = c.size
              /\ c.size <= (IF c.id = "fmt" THEN MaxFmtSize ELSE MaxDataSize) /\ (c.id = "fmt" => c.size > 0)
    /\ file.chunks[LastOf("data")].size > 0
    /\ validate_wav_format(file.chunks[LastOf("fmt")].fmt, file.chunks[LastOf("data")].size)

\* A file loads if it is well formed and not otherwise, wherever it is cut, with the data and the
\* format of its last chunks; and what loads can be decoded: whole frames of a number of
\* channels that the decoder has room for (the comment at wav.hpp:10).
WavLoads ==
    /\ status = "loaded" =>
          /\ WellFormed /\ data = file.chunks[LastOf("data")].samples
          /\ Len(data) % format.channels = 0 /\ format.channels <= MaxChannels
    /\ status = "error" => ~WellFormed

\* Converting keeps the sound: integer samples come back exactly from a float and from a wider
\* type (the comment at audio_data.cpp:73), sound that is converted to its own format stays as it
\* is unless a float is beyond -1 .. 1, where write_sample clamps; the duration changes by less
\* than a frame, no sample leaves the range of the samples it was made from, and what is loaded is
\* what WavLoads says.  Mixing and scaling a buffer clamp and never wrap: a louder sample never
\* comes out quieter, a multiplier of one and silence leave signed samples alone (the silence of
\* unsigned ones is not zero), and no sample of a buffer is outside its type.
SoundKept ==
    /\ WavLoads
    /\ status = "loading" /\ next = 1 =>
          /\ \A v \in -HalfChar .. HalfChar - 1 :
                /\ write_sample(read_sample(v, "char"), "char") = v
                /\ write_sample(read_sample(v + HalfChar, "uchar"), "uchar") = v + HalfChar
                /\ write_sample(read_sample(write_sample(read_sample(v, "char"), "short"), "short"), "char") = v
          /\ \A v \in -HalfShort .. HalfShort - 1 : write_sample(read_sample(v, "short"), "short") = v
          /\ \A t \in {"char", "uchar"} : \A v \in lowest(t) .. highest(t) :
                /\ scale_sample(v, <<1, 1>>, t) = v
                /\ t = "char" => mix_sample(v, silence(t), <<1, 1>>, t) = v
                /\ \A w \in v .. highest(t), x \in lowest(t) .. highest(t), m \in Multipliers :
                      /\ scale_sample(v, m, t) <= scale_sample(w, m, t)
                      /\ mix_sample(v, x, m, t) <= mix_sample(w, x, m, t)
    /\ status = "buffered" =>
          /\ block.used <= Len(block.samples)
          /\ block.type # "float" => \A i \in DOMAIN block.samples : block.samples[i] \in lowest(block.type) .. highest(block.type)
    /\ status = "loaded" =>
          \A target \in {t \in Targets : t.rate # 0} :
            LET from == decode_frames(data, format, target.channels)
                to == convert_rate(from, format.rate, target.rate)
            IN  /\ target.type = format.type /\ target.channels = format.channels
                      /\ target.rate = format.rate /\ target.type # "int24"
                      /\ (target.type = "float" => \A i \in DOMAIN data : data[i][1] \in -data[i][2] .. data[i][2])
                   => Converted(target) = data
                /\ 2 * (Len(to) * format.rate - Len(from) * target.rate) \in -format.rate .. 2 * format.rate
                /\ \A f \in DOMAIN to : \A c \in DOMAIN to[f] :
                      \E a, b \in DOMAIN from : Leq(from[a][c], to[f][c]) /\ Leq(to[f][c], from[b][c])
=============================================================================
