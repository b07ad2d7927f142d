---------------------------- MODULE AudioDevices ----------------------------
(***************************************************************************)
(* audio/audio_lib: the play and capture devices over ALSA and over        *)
(* DirectSound.  The owner starts and stops a device while a worker writes *)
(* to it or reads from it and waits for it.  Sound is counted in frames,   *)
(* numbered as they are made.  ALSA keeps a queue of frames and a state;   *)
(* DirectSound is a ring that a cursor runs around, and the device object  *)
(* remembers its own position in it.  The two libraries are modelled from  *)
(* how the code uses them.                                                 *)
(***************************************************************************)
EXTENDS Integers, Sequences, SequencesExt

CONSTANTS
    Size,           \* frames in the device's buffer
    BufferSize,     \* frames in the caller's audio_buffer
    MaxSound,       \* bound: frames made
    MaxOut,         \* bound: frames that came out, silence included
    MaxStarts       \* bound: calls of start

ASSUME AudioAssumption == Size \in Nat \ {0} /\ BufferSize \in Nat

Devices == {"alsa_play", "alsa_capture", "dsound_play", "dsound_capture"}

VARIABLES
    dev,            \* which device it is
    pcm,            \* what the library does: "prepared", "running", "paused", "draining",
                    \* "xrun", "setup"
    queue,          \* frames the device has and has not played, or captured and not handed over
    ring, pos, cursor, \* DirectSound: the ring (0 is silence), pos_ and the device's cursor
    running,        \* running_
    event,          \* the notification event is set (it resets when a wait takes it)
    buffer,         \* the caller's audio_buffer
    made, out,      \* frames made so far, and the frames that came out
    lost,           \* frames that a forced stop, an overrun or the end of a capture
                    \* device's drain threw away
    slipped,        \* the ring ran dry, or over, or was written over
    worker,         \* "idle", "waiting"
    stopping,       \* "no", or the stop_type of the stop() in progress
    starts

audioVars == <<dev, pcm, queue, ring, pos, cursor, running, event, buffer, made, out, lost, slipped,
               worker, stopping, starts>>
ringVars == <<ring, pos, cursor, event, slipped>>

AudioInit ==
    /\ dev \in Devices /\ pcm = "prepared" /\ queue = <<>>
    /\ ring = [i \in 0 .. Size - 1 |-> 0] /\ pos = 0 /\ cursor = 0
    /\ running = FALSE /\ event = FALSE /\ buffer = <<>> /\ made = 0 /\ out = <<>> /\ lost = {}
    /\ slipped = FALSE /\ worker = "idle" /\ stopping = "no" /\ starts = 0

Least(a, b) == IF a < b THEN a ELSE b

-----------------------------------------------------------------------------
\* audio_buffer
consume_samples(b, n) == SubSeq(b, n + 1, Len(b))
free_samples(b) == BufferSize - Len(b)

\* The caller puts a frame into its buffer, or takes what was read into it.
FillBuffer ==
    /\ dev \in {"alsa_play", "dsound_play"} /\ made < MaxSound /\ free_samples(buffer) > 0
    /\ made' = made + 1 /\ buffer' = Append(buffer, made')
    /\ UNCHANGED <<dev, pcm, queue, ringVars, running, out, lost, worker, stopping, starts>>
TakeBuffer ==
    /\ dev \in {"alsa_capture", "dsound_capture"} /\ buffer # <<>>
    /\ out' = out \o buffer /\ buffer' = consume_samples(buffer, Len(buffer))
    /\ UNCHANGED <<dev, pcm, queue, ringVars, running, made, lost, worker, stopping, starts>>

-----------------------------------------------------------------------------
\* alsa_play_device::start: resume, or prepare if need be (which forgets what is queued) and
\* start, which fails on an empty queue.
alsa_play_start ==
    /\ dev = "alsa_play" /\ stopping = "no" /\ starts < MaxStarts /\ starts' = starts + 1
    /\ \/ /\ pcm \in {"running", "paused"} /\ pcm' = "running" /\ running' = TRUE
          /\ UNCHANGED <<queue, lost>>
       \/ /\ pcm # "running"
          /\ queue' = (IF pcm = "prepared" THEN queue ELSE <<>>)
          /\ lost' = lost \cup (Range(queue) \ Range(queue'))
          /\ pcm' = (IF queue' = <<>> THEN "prepared" ELSE "running")
          /\ running' = (running \/ queue' # <<>>)
    /\ UNCHANGED <<dev, ringVars, buffer, made, out, worker, stopping>>

alsa_capture_start ==
    /\ dev = "alsa_capture" /\ stopping = "no" /\ starts < MaxStarts /\ starts' = starts + 1
    /\ running' = TRUE /\ pcm' = (IF pcm = "prepared" THEN "running" ELSE pcm)
    /\ UNCHANGED <<dev, queue, ringVars, buffer, made, out, lost, worker, stopping>>

\* stop: running_ goes first; StopDevice is the rest.
alsa_play_stop(type) ==
    /\ dev = "alsa_play" /\ stopping = "no" /\ running' = FALSE /\ stopping' = type
    /\ UNCHANGED <<dev, pcm, queue, ringVars, buffer, made, out, lost, worker, starts>>
alsa_capture_stop(type) ==
    /\ dev = "alsa_capture" /\ stopping = "no" /\ running' = FALSE /\ stopping' = type
    /\ UNCHANGED <<dev, pcm, queue, ringVars, buffer, made, out, lost, worker, starts>>

\* The call into ALSA that stop chose: a pause where the device can and it works, else a drop; a
\* drain, which goes on until the queue is empty, or leaves what a capture device still has.
StopDevice ==
    /\ dev \in {"alsa_play", "alsa_capture"}
    /\ \/ /\ stopping = "force" /\ dev = "alsa_play" /\ pcm = "running"
          /\ pcm' = "paused" /\ stopping' = "no" /\ UNCHANGED <<queue, lost>>
       \/ /\ stopping = "force" /\ pcm' = "setup" /\ stopping' = "no"
          /\ queue' = <<>> /\ lost' = lost \cup Range(queue)
       \/ /\ stopping = "drain" /\ queue # <<>> /\ pcm # "draining" /\ pcm' = "draining"
          /\ UNCHANGED <<queue, lost, stopping>>
       \/ /\ stopping = "drain" /\ (queue = <<>> \/ (dev = "alsa_capture" /\ pcm = "draining"))
          /\ pcm' = "setup" /\ stopping' = "no"
          /\ queue' = <<>> /\ lost' = lost \cup Range(queue)
    /\ UNCHANGED <<dev, ringVars, running, buffer, made, out, worker, starts>>

alsa_write_ConsumesAll ==
    /\ dev = "alsa_play" /\ worker = "idle" /\ buffer # <<>>
    /\ \E n \in 1 .. Least(Len(buffer), Size - Len(queue)) :
          /\ pcm \in {"prepared", "running", "paused", "xrun"}
          /\ queue' = queue \o SubSeq(buffer, 1, n) /\ buffer' = <<>>
          /\ pcm' \in (IF pcm = "prepared" THEN {"prepared", "running"}
                       ELSE IF pcm = "xrun" THEN {"running"} ELSE {pcm})
    /\ UNCHANGED <<dev, ringVars, running, made, out, lost, worker, stopping, starts>>

\* write: as many frames as there is room for go out of the buffer; after an underrun the device
\* is prepared, written to again and started.  (Without room it blocks.)
alsa_write ==
    /\ dev = "alsa_play" /\ worker = "idle" /\ buffer # <<>>
    /\ \E n \in 1 .. Least(Len(buffer), Size - Len(queue)) :
          /\ pcm \in {"prepared", "running", "paused", "xrun"}
          /\ queue' = queue \o SubSeq(buffer, 1, n) /\ buffer' = consume_samples(buffer, n)
          /\ pcm' \in (IF pcm = "prepared" THEN {"prepared", "running"}
                       ELSE IF pcm = "xrun" THEN {"running"} ELSE {pcm})
    /\ UNCHANGED <<dev, ringVars, running, made, out, lost, worker, stopping, starts>>

\* read: what is there and fits; an overrun is recovered from, which leaves the device prepared.
alsa_read ==
    /\ dev = "alsa_capture" /\ worker = "idle"
    /\ \/ pcm = "xrun" /\ pcm' = "prepared" /\ UNCHANGED <<queue, buffer>>
       \/ LET n == Least(Len(queue), free_samples(buffer))
          IN  /\ pcm # "xrun" /\ n > 0 /\ pcm' = pcm
              /\ buffer' = buffer \o SubSeq(queue, 1, n) /\ queue' = SubSeq(queue, n + 1, Len(queue))
    /\ UNCHANGED <<dev, ringVars, running, made, out, lost, worker, stopping, starts>>

AlsaPlays ==
    /\ dev = "alsa_play" /\ pcm \in {"running", "draining"}
    /\ IF queue # <<>> THEN out' = Append(out, Head(queue)) /\ queue' = Tail(queue) /\ pcm' = pcm
       ELSE pcm = "running" /\ pcm' = "xrun" /\ UNCHANGED <<queue, out>>
    /\ UNCHANGED <<dev, ringVars, running, buffer, made, lost, worker, stopping, starts>>

AlsaCaptures ==
    /\ dev = "alsa_capture" /\ pcm = "running" /\ made < MaxSound /\ made' = made + 1
    /\ IF Len(queue) < Size THEN queue' = Append(queue, made') /\ UNCHANGED <<pcm, lost>>
       ELSE queue' = <<>> /\ lost' = lost \cup Range(queue) \cup {made'} /\ pcm' = "xrun"
    /\ UNCHANGED <<dev, ringVars, running, buffer, out, worker, stopping, starts>>

-----------------------------------------------------------------------------
Ahead(from, to) == (to - from + Size) % Size

dsound_play_start ==
    /\ dev = "dsound_play" /\ stopping = "no" /\ starts < MaxStarts /\ starts' = starts + 1
    /\ pcm' = "running" /\ running' = TRUE
    /\ UNCHANGED <<dev, queue, ringVars, buffer, made, out, lost, worker, stopping>>
dsound_capture_start ==
    /\ dev = "dsound_capture" /\ stopping = "no" /\ starts < MaxStarts /\ starts' = starts + 1
    /\ pcm' = "running"
    /\ UNCHANGED <<dev, queue, ringVars, running, buffer, made, out, lost, worker, stopping>>

\* zero_buffer_region: all of the ring but what is still to be played.
zero_buffer_region == [i \in DOMAIN ring |-> IF Ahead(cursor, i) < Ahead(cursor, pos) THEN ring[i] ELSE 0]

\* stop(drain) of a running play device silences the rest of the ring and sleeps until what is
\* left has been played.
drain ==
    /\ dev = "dsound_play" /\ running /\ stopping = "no" /\ stopping' = "drain" /\ ring' = zero_buffer_region
    /\ UNCHANGED <<dev, pcm, queue, pos, cursor, event, slipped, running, buffer, made, out, lost, worker, starts>>

\* The device stops and a wait is woken.
dsound_play_stop ==
    /\ dev = "dsound_play" /\ (stopping = "drain" => queue = <<>> \/ pcm # "running")
    /\ pcm' = "setup" /\ running' = FALSE /\ event' = TRUE /\ stopping' = "no"
    /\ UNCHANGED <<dev, queue, ring, pos, cursor, slipped, buffer, made, out, lost, worker, starts>>

dsound_capture_stop_Silent ==
    /\ dev = "dsound_capture" /\ pcm' = "setup"
    /\ UNCHANGED <<dev, queue, ringVars, running, buffer, made, out, lost, worker, stopping, starts>>

\* Capturing goes on until the cursors meet or a deadline is over: how long does not matter here.
dsound_capture_stop ==
    /\ dev = "dsound_capture" /\ pcm' = "setup" /\ event' = TRUE
    /\ UNCHANGED <<dev, queue, ring, pos, cursor, slipped, running, buffer, made, out, lost, worker, stopping, starts>>

\* avail of a play device keeps one frame unwritten.
play_avail == IF Ahead(pos, cursor) = 0 THEN 0 ELSE Ahead(pos, cursor) - 1
capture_avail == Ahead(pos, cursor)

\* write: before the start the whole ring but a frame is free.  A device that was stopped when
\* pos_ was 0 again is taken for one that has not started yet, and what it still had to play is
\* written over.
dsound_write ==
    LET fresh == pos = 0 /\ ~running
        n == Least(IF fresh THEN Size - 1 ELSE play_avail, Len(buffer))
    IN  /\ dev = "dsound_play" /\ worker = "idle" /\ n > 0
        /\ slipped' = (slipped \/ (fresh /\ (cursor # 0 \/ queue # <<>>)))
        /\ ring' = [i \in DOMAIN ring |->
                       IF Ahead(pos, i) < n THEN buffer[Ahead(pos, i) + 1] ELSE ring[i]]
        /\ pos' = (pos + n) % Size
        /\ queue' = queue \o SubSeq(buffer, 1, n) /\ buffer' = consume_samples(buffer, n)
        /\ UNCHANGED <<dev, pcm, cursor, event, running, made, out, lost, worker,
                       stopping, starts>>

dsound_read ==
    LET n == Least(capture_avail, free_samples(buffer))
    IN  /\ dev = "dsound_capture" /\ worker = "idle" /\ n > 0
        /\ buffer' = buffer \o [k \in 1 .. n |-> ring[(pos + k - 1) % Size]]
        /\ pos' = (pos + n) % Size
        /\ queue' = SubSeq(queue, n + 1, Len(queue))
        /\ UNCHANGED <<dev, pcm, ring, cursor, event, slipped, running, made, out, lost, worker,
                       stopping, starts>>

\* The cursor moves on; the event is set at the positions asked for.
DsoundPlays ==
    /\ dev = "dsound_play" /\ pcm = "running" /\ Len(out) < MaxOut
    /\ out' = Append(out, ring[cursor]) /\ cursor' = (cursor + 1) % Size /\ event' \in {event, TRUE}
    /\ slipped' = (slipped \/ (queue = <<>> /\ \E i \in DOMAIN ring : ring[i] # 0))
    /\ queue' = (IF queue # <<>> /\ Head(queue) = ring[cursor] THEN Tail(queue) ELSE queue)
    /\ UNCHANGED <<dev, pcm, ring, pos, running, buffer, made, lost, worker, stopping, starts>>

DsoundCaptures ==
    /\ dev = "dsound_capture" /\ pcm = "running" /\ made < MaxSound /\ made' = made + 1
    /\ ring' = [ring EXCEPT ![cursor] = made'] /\ cursor' = (cursor + 1) % Size
    /\ queue' = Append(queue, made') /\ event' \in {event, TRUE}
    /\ slipped' = (slipped \/ cursor' = pos)
    /\ UNCHANGED <<dev, pcm, pos, running, buffer, out, lost, worker, stopping, starts>>

-----------------------------------------------------------------------------
wait ==
    /\ worker = "idle" /\ worker' = "waiting"
    /\ UNCHANGED <<dev, pcm, queue, ringVars, running, buffer, made, out, lost, stopping, starts>>

\* ALSA's wait polls until the device has room or frames or an error, or was stopped; it looks at
\* running_ every 20 ms.  DirectSound's takes the event; a play device's gives up in time.
alsa_play_wait == dev = "alsa_play" /\ (~running \/ Len(queue) < Size)
alsa_capture_wait == dev = "alsa_capture" /\ (~running \/ queue # <<>> \/ pcm \in {"xrun", "setup"})
dsound_play_wait == dev = "dsound_play"
dsound_capture_wait == dev = "dsound_capture" /\ event

WaitReturns ==
    /\ worker = "waiting"
    /\ alsa_play_wait \/ alsa_capture_wait \/ dsound_play_wait \/ dsound_capture_wait
    /\ worker' = "idle" /\ event' = FALSE
    /\ UNCHANGED <<dev, pcm, queue, ring, pos, cursor, slipped, running, buffer, made, out, lost,
                   stopping, starts>>

AudioNext ==
    \/ FillBuffer \/ TakeBuffer
    \/ alsa_play_start \/ alsa_capture_start \/ StopDevice \/ alsa_write \/ alsa_read
    \/ \E type \in {"force", "drain"} : alsa_play_stop(type) \/ alsa_capture_stop(type)
    \/ AlsaPlays \/ AlsaCaptures
    \/ dsound_play_start \/ dsound_capture_start \/ drain \/ dsound_play_stop \/ dsound_capture_stop
    \/ dsound_write \/ dsound_read
    \/ DsoundPlays \/ DsoundCaptures
    \/ wait \/ WaitReturns

\* The devices run, and so do the worker's reads and waits.
AudioFairness ==
    /\ WF_audioVars(WaitReturns) /\ WF_audioVars(alsa_read) /\ WF_audioVars(TakeBuffer)
    /\ WF_audioVars(AlsaPlays \/ AlsaCaptures)

-----------------------------------------------------------------------------
\* No frame is lost or repeated between the caller's buffer and the device, however writes,
\* reads, starts and stops interleave: what came out (silence apart), what the device has and
\* what is in the buffer are the frames made, in order, but for those a forced stop or an overrun
\* threw away, or that were not read when a capture device had drained.  In the ring, the frames
\* ahead of the cursor are the ones still to be played after some silence, so that the cursor at
\* pos_ means all played.  (A ring that ran dry plays itself again, one that ran over has lost a
\* round, and a write to a stopped ring at pos_ 0 covers what was not played: these end the
\* guarantee.)
AudioKept ==
    LET all == out \o (IF dev \in {"alsa_play", "dsound_play"} THEN queue \o buffer ELSE buffer \o queue)
        ahead == [k \in 1 .. Ahead(cursor, pos) |-> ring[(cursor + k - 1) % Size]]
    IN  ~slipped =>
          /\ \A i, j \in 1 .. Len(all) : i < j /\ all[j] # 0 => all[i] < all[j]
          /\ Range(queue) \cup Range(buffer) \cup (Range(out) \ {0}) \cup lost = 1 .. made
          /\ dev = "dsound_play" =>
                /\ Len(queue) <= Len(ahead)
                /\ ahead = [k \in 1 .. Len(ahead) - Len(queue) |-> 0] \o queue

\* A wait() in progress ends when the device is stopped: stop() signals the event (the comment
\* at dsound.cpp:217), and on ALSA the poll sees running_.
StopEndsWait ==
    []((worker = "waiting" /\ pcm = "running" /\ <>(pcm = "setup")) => <>(worker = "idle"))
=============================================================================
