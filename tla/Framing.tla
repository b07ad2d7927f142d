------------------------------- MODULE Framing -------------------------------
(***************************************************************************)
(* network: frames over a TLS stream.  The sender puts a big-endian length *)
(* in front of a payload; the frame_reader takes a frame out of a stream   *)
(* that hands it any number of the bytes it asks for, under a cap that the *)
(* connection raises once the peer is authenticated.  The stream may end   *)
(* under it, after the last frame or in the middle of one.                 *)
(***************************************************************************)
EXTENDS Naturals, Sequences

CONSTANTS
    Base,           \* values of one byte of the length (256 in the code)
    HeaderSize,     \* frame_header_size (4 in the code)
    MaxFrame,       \* max_frame_size
    MaxHandshake,   \* max_handshake_frame_size
    Payloads,       \* the payloads the sender is given
    MaxFrames       \* bound: frames sent

ASSUME FramingAssumption ==
    /\ Base \in Nat \ {0, 1} /\ HeaderSize \in Nat \ {0}
    /\ MaxHandshake \in Nat /\ MaxFrame \in Nat /\ MaxFrames \in Nat
    /\ Payloads \subseteq Seq(0 .. Base - 1)

VARIABLES
    stream,         \* bytes in the TLS stream
    sent,           \* the frames sent, and whether the sender was refused
    reader,         \* the members of frame_reader
    got,            \* what the receive handlers were called with
    busyErrors,     \* receives refused with operation_in_progress
    ended           \* how the stream ended: "no", "closed" by the sender, or an "error"

frVars == <<stream, sent, reader, got, busyErrors, ended>>

\* A number shifted to the right by up to HeaderSize octets.
shifted(v) ==
    LET by[k \in 0 .. HeaderSize] == IF k = 0 THEN v ELSE by[k - 1] \div Base IN by

\* The header has room for the length of every frame.
ASSUME CapAssumption == shifted(MaxFrame)[HeaderSize] = 0

encode_frame(p) == [i \in 1 .. HeaderSize |-> shifted(Len(p))[HeaderSize - i] % Base] \o p

decode_frame_length(h) ==
    LET length[i \in 0 .. HeaderSize] == IF i = 0 THEN 0 ELSE length[i - 1] * Base + h[i]
    IN  length[HeaderSize]

FramingInit ==
    /\ stream = <<>> /\ sent = <<>> /\ got = <<>> /\ busyErrors = 0 /\ ended = "no"
    /\ reader = [busy |-> FALSE, buffer |-> <<>>, expected |-> HeaderSize, headerDone |-> FALSE,
                 max |-> MaxHandshake, failed |-> FALSE]

\* async_send_frame; a payload over max_frame_size is refused and nothing is written.
async_send_frame(p) ==
    /\ ended = "no" /\ Len(sent) < MaxFrames /\ Len(p) <= MaxFrame
    /\ sent' = Append(sent, p) /\ stream' = stream \o encode_frame(p)
    /\ UNCHANGED <<reader, got, busyErrors, ended>>

\* The connection's receive loop: one receive after the other until one fails.
async_receive_frame ==
    /\ ~reader.busy /\ ~reader.failed
    /\ reader' = [reader EXCEPT !.busy = TRUE, !.buffer = <<>>, !.expected = HeaderSize,
                                !.headerDone = FALSE]
    /\ UNCHANGED <<stream, sent, got, busyErrors, ended>>

ReceiveWhileBusy ==
    /\ reader.busy /\ busyErrors = 0
    /\ busyErrors' = 1
    /\ UNCHANGED <<stream, sent, reader, got, ended>>

\* become_connected: the cap of the handshake makes way for that of the application.
set_max_frame_size ==
    /\ ~reader.busy /\ ~reader.failed /\ got # <<>>
    /\ reader' = [reader EXCEPT !.max = MaxFrame]
    /\ UNCHANGED <<stream, sent, got, busyErrors, ended>>

complete(r, ec) ==
    /\ reader' = [r EXCEPT !.busy = FALSE, !.failed = ec # "none",
                           !.buffer = IF ec = "none" THEN <<>> ELSE @]
    /\ got' = Append(got, [ec |-> ec, payload |-> IF ec = "none" THEN r.buffer ELSE <<>>])

on_header(r) ==
    LET length == decode_frame_length(r.buffer)
        body == [r EXCEPT !.headerDone = TRUE, !.expected = length, !.buffer = <<>>]
    IN  IF length > r.max THEN complete(r, "invalid_record")
        ELSE IF length = 0 THEN complete(body, "none")
        ELSE reader' = body /\ got' = got

\* async_read_some gave n bytes of those asked for.
on_read(n) ==
    LET r == [reader EXCEPT !.buffer = @ \o SubSeq(stream, 1, n)]
    IN  /\ reader.busy /\ n <= Len(stream) /\ Len(r.buffer) <= r.expected
        /\ stream' = SubSeq(stream, n + 1, Len(stream))
        /\ CASE Len(r.buffer) < r.expected -> reader' = r /\ got' = got
             [] Len(r.buffer) = r.expected /\ r.headerDone -> complete(r, "none")
             [] OTHER -> on_header(r)
        /\ UNCHANGED <<sent, busyErrors, ended>>

\* The sender closes its side once its frames are out, or the connection fails: the bytes that
\* are still in the stream then may be lost, in the middle of a frame too.
stream_ends ==
    /\ ended = "no" /\ ended' \in {"closed", "error"}
    /\ UNCHANGED <<stream, sent, reader, got, busyErrors>>

\* async_read_some gave an error instead: what was read of a frame is not handed up.
StreamFails == ended = "error" \/ (ended = "closed" /\ stream = <<>>)

read_failed_HandsUp ==
    /\ reader.busy /\ StreamFails
    /\ complete(reader, "none")
    /\ UNCHANGED <<stream, sent, busyErrors, ended>>

read_failed ==
    /\ reader.busy /\ StreamFails
    /\ complete(reader, "stream")
    /\ UNCHANGED <<stream, sent, busyErrors, ended>>

FramingNext ==
    \/ \E p \in Payloads : async_send_frame(p)
    \/ async_receive_frame \/ ReceiveWhileBusy \/ set_max_frame_size
    \/ \E n \in 1 .. Len(stream) : on_read(n)
    \/ stream_ends \/ read_failed

-----------------------------------------------------------------------------
\* Message boundaries are kept: what the handlers got without an error is what was sent, frame
\* by frame and in order, however the stream was cut and wherever it ended.  Only the last
\* receive fails: for a frame that is over the cap in force, or because the stream ended, and
\* that after every frame if the sender closed it.
FramesKept ==
    /\ \A i \in 1 .. Len(got) : got[i].ec = "none" => i <= Len(sent) /\ got[i].payload = sent[i]
    /\ \A i \in 1 .. Len(got) : got[i].ec # "none" => i = Len(got)
    /\ \A i \in 1 .. Len(got) :
          got[i].ec = "invalid_record" => i <= Len(sent) /\ Len(sent[i]) > reader.max
    /\ \A i \in 1 .. Len(got) :
          got[i].ec = "stream" => ended = "error" \/ (ended = "closed" /\ i = Len(sent) + 1)

\* Every frame that was sent reaches a handler, or one before it was refused.
FramesArrive == \A i \in 1 .. MaxFrames : Len(sent) >= i ~> Len(got) >= i \/ reader.failed
=============================================================================
