# securepath: TLA+ models

TLA+ models of securepath, from its two services down to the codec, the stores, the
audio devices and the console, checked with TLC on small instances. Except for the
serialisation, the safety properties of every part are also proved with TLAPS for every
instance. The source is the reference: each definition that models code is listed in
`PROJECT.json` under `map` with its lines.

    tlc -config PacketStorage.cfg MCPacketStorage             # a run
    tlapm PacketStorageProofs.tla                             # the proofs

## 1. The system

securepath is a set of C++ libraries with two services on top.

| part | state | operations | talks to |
|---|---|---|---|
| packet server (`infrastructure/packet_transport/server`) | connections by client id, `ack_map_` per connection, the packet storage | hello, transport, ack, disconnect | clients through encrypted connections, the storage |
| packet storage (`packet_storage`) | queue, index by receiver, removal queue, sequence number, the packets table | `insert`, `packet_handle::mark_as_acked`, `get_pending_packets`, `close`, one writer thread | the server's strands, SQLite |
| packet client | `out_packets` and `in_packets` tables, `hello_done` | `send_packet`, `connect`, `close`, the strand's handlers | the server, the application's threads |
| encrypted connection | life-cycle flags, outgoing queue, timer | `connect`, `send`, `close`, `close_later`, callbacks | its owner, TLS stream, io_context |
| encrypted server | acceptor, map of sessions | `start`, `close`, accept, `remove` | its sessions |
| TLS stream | pending handlers, output queue, decrypted input, five flags | `async_handshake`, `async_read_some`, `async_write`, `async_shutdown`, `close` | Botan's channel, the socket |
| framing | partial frame, frame cap | receive, send | TLS stream |
| sp handshake | role, hello ids, peer's key | `start`, `handle_packet` | key and certificate stores |
| event loop (`event_system`) | events, timers, `next_trigger_`, `active_handler_` | `emit`, `start_timer`, `stop_timer`, `remove_receiver`, `stop` | receivers, callers on any thread |
| broadcast events | observers per event type | `register_observer`, `emit`, `deregister_observer` | event loops, strands |
| key client and key server | promises by request id; key store | `register_key`, `find_key`, `find_certificate` | encrypted connections |
| futures, tasks (`util`) | value, waiter; chains of coroutine frames | complete, await, `resume_on`, `sync_wait` | any thread, executors |
| server programs | main thread, io threads, signal set | `run`, signal, `close`, `wait` | encrypted server, stores |
| certificates (`crypto`) | certificates, references of keys, revocations | create, revoke, verify, `add_link`, search a chain | stores |
| key, certificate and secret stores | a cache in front of a table | `insert`, `find`, `remove`, `clear` | database |
| database | open savepoints, rows | begin, commit, roll back, bind, read | SQLite |
| key generation tool | four files, an identity's stores | `create`, `load`, install | the operator |
| sealed streams and envelopes | cipher states, counters, recipients | encrypt, decrypt, tag, `seek`, envelop, open | Botan |
| serialisation | partial packet, peeking stream, nesting | save, load, `has_next`, cut packets | connections, stores |
| audio | device and ring positions, files, buffers | start, stop, read, write, wait; load, save, resample, mix | ALSA, DirectSound |
| console | widgets, focus, processing flag; the line and its history | draw, keys, add, remove, quit; edit | curses, callers on any thread |
| cryptographic primitives, log, util | values and I/O | | |

What is hard here:

* *Threads around a strand.* Connections run their handlers on a strand while the
  owner's threads call `send`, `close` and `connect`; flags are read outside the
  locks that protect the queues (`send` against `become_connected`, `send_packet`
  against `handle(hello)`).
* *Threads around a queue.* The storage's writer moves packets from memory to the
  table while receivers acknowledge them, reconnect and ask for what is pending;
  the event loop runs handlers without its mutex while receivers are destroyed.
* *Crashes and lost messages.* A client forgets a packet only when the server has
  stored it, the server only when the receiver has; both ends and the connection
  may die between any two of the steps.
* *Octets in pieces.* Frames and packets arrive cut anywhere, and optional values are
  tried for by reading ahead and giving up again.
* *Half done.* A cache changes before its table throws; a savepoint stays open after a
  rollback; the key tool is stopped between two files.
* *Ends.* Four things can end a connection, several kinds of handlers wait for
  its end, and their completions arrive afterwards.

What makes each part correct:

* storage: a sender that was told "stored" can forget the packet; keys are unique
  over restarts; removals hit only acknowledged rows; a receiver that comes back
  gets everything;
* transport: a packet is always in the sender's table, with the server, or with
  the receiver; it moves on while the connections work;
* event loop: a removed receiver is never called; events keep their order; the
  loop never sleeps on work;
* TLS stream: each handler is invoked once, in order; success means written; the
  stream is never left deaf, and every call is answered;
* connection: `on_connected` first, `on_disconnected` once and last, nothing after
  `close()`; an attempt ends; a queued message is not forgotten;
* key service: a call gets its own answer or fails, and what was registered is
  found;
* handshake: nobody is connected to a peer that did not prove its key over this
  channel, and a client names itself only to a server it has verified; framing: the
  stream of frames is the stream of messages;
* server programs: a session has an owner from start to end; a signal ends the program;
* certificates: exactly the chains that the certificates grant are accepted and found;
  stores: what was put in comes out, and a revoked certificate stays revoked;
  transactions are all or nothing; key material is of one piece;
* serialisation: what was saved loads, a truncated document does not, packets are
  delivered once and in order; sealing: what was sealed opens, and nothing else;
* broadcast: who was connected hears an event once, nobody after its end; tasks: a
  suspended chain is resumed, once, where it asked to be;
* audio: no frame is lost or repeated, a waiting thread is woken by stop, conversion
  keeps the sound; console: widgets do not change under the thread that draws them, and
  the line is the one the user has in mind.

## 2. Modules

| module | models | kind |
|---|---|---|
| `PacketStore` | what the storage promises its two users | abstract specification |
| `PacketStorage` | `packet_storage`: writer thread, callers, database, restarts | component; implements `PacketStore` |
| `PacketStorageProofs` | theorems about it | TLAPS |
| `PacketTransport` | packet clients, packet server, FIFO connections | composition; its storage is an `INSTANCE` of `PacketStore` |
| `PacketTransportProofs` | theorems about it | TLAPS |
| `EventLoop` | `basic_event_loop`, `single_thread_event_loop`, event handlers | component |
| `EventLoopProofs` | theorems about it | TLAPS |
| `TlsStream` | `tls_stream` | component |
| `TlsStreamProofs` | theorems about it | TLAPS |
| `EncryptedConnection` | `encrypted_connection_impl` with its owner's threads | component |
| `EncryptedConnectionProofs` | theorems about it | TLAPS |
| `KeyService` | key clients, `future`, key server sessions, key store over cache and database | composition |
| `KeyServiceProofs` | theorems about it | TLAPS |
| `InPackets` | the client's table of received packets and the handles to its rows | component |
| `Handshake` | both roles of the sp handshake, pk and ss | composition of two ends |
| `Framing` | `encode_frame`, `frame_reader` | component |
| `ServerProgram` | a server program: main thread, io threads, acceptor, sessions, signals | composition |
| `CertificateChain` | certificates, chains, the search for a chain | operators against a declaration, over every small set of certificates |
| `Stores`, `Database` | caches over tables; savepoints and columns | components |
| `KeyGen` | `sp_keygen` and its files | component |
| `NetworkProofs` | theorems about `ServerProgram`, `KeyGen`, `Stores`, `Handshake`, `InPackets`, `Database`, `Framing` and `CertificateChain` | TLAPS |
| `Serialisation` | the DER codec, the packet deserialiser | operators against declarations; a connection |
| `Sealing` | stream ciphers with a counter, envelopes | components |
| `Broadcast` | `broadcast_event_handler`, `asio_broadcast_observer` | component |
| `Tasks` | `task`, `future`, `resume_on`, `run_detached` | component |
| `AudioDevices` | ALSA and DirectSound play and capture devices | components |
| `AudioFiles` | WAV files, conversion, `audio_buffer` | component, operators against declarations |
| `Console`, `InputLine` | the console's thread and its widgets; the line editor | components |
| `LibraryProofs` | theorems about `Console`, `Broadcast`, `Tasks`, `InputLine`, `Sealing`, `AudioDevices` and `AudioFiles` | TLAPS |
| `MCNetwork`, `MCLibrary`, `MCDelivery` | sums: a behaviour moves one of several parts that share no state | instances |
| `MCPacketStorage`, `MCPacketTransport`, `MCKeyService` | values for constants that a .cfg cannot write, symmetry | instances |

Definitions named like another one with a suffix (`rollback_Release`) are faults used to
see that each property can fail; no specification uses them. Where several properties
of a component are checked as one (`OwnerIsServed`, `CallersServed`, ...), the parts
keep their names and their comments in the module.

### PacketStorage
One action per critical section of `queue_mutex_`, per `atomic_flag` operation and
per SQL statement. The writer is `NextPacket`, `TestFlag`, `WriteToDatabase` (or
`WriteFails`), `Notify`, `RemoveFromDatabase`; `remove` and `RemovePush` are the two
halves of `mark_as_acked`; `ReadIndex` and `ReadRows` those of
`get_pending_packets`; `Close*` and `Purge*` are `close()`. `Restart` is a crash or
an orderly end followed by a new constructor: memory is gone, rows stay, and
`sequence_` continues from the largest row. Payloads and ids are model values.
Each packet value is one call of `insert`.

### PacketTransport
A client's `send_packet` is three steps on the caller's thread (row, look at
`state()` and `hello_done`, send), next to the strand's handlers; the server's
handlers are split where they call the storage and then look up a connection.
Messages are records in two FIFO sequences per connection. When a connection breaks, what
was under way to the client is lost; what was under way to the server may still be handled,
also after the client's next connection has said hello, until the server sees the break
(`ServerDisconnect`). A connection ends because it fails at either side, because `close()` is
called, because the server refuses a packet before the hello, or because the process dies;
`Disconnected` and `Terminated` are what the two sides do then. `ConnsOf` and `BreaksOf`
bound, for each client by itself, its connections and how often one breaks. A packet is
signed with the one key that its client has, which the handshake uses too, so `Genuine`
compares clients. `out_packets` keys follow SQLite's rule for an `INTEGER PRIMARY KEY`. The
storage is `PacketStore` with one element per `insert`; of what is not yet a row
`get_pending_packets` may miss a packet, as `PacketStorage` shows.

### EventLoop
Each action is a critical section of `mutex_`; a handler is an interval between
`TakeEvent` or `FireTimer` and `HandlerReturns`, in which it may call everything the
other threads may. The deques only grow at the back, so an event is its place in
the order of emission and the deque a set of numbers. The clock is a natural
number.

### TlsStream
The stream is one record and each member function an operator from stream to
stream, composed as in the code, because everything runs on one strand: a handler
is one step. Botan's channel is the environment: what one read brings (handshake
messages, the last of them, application data, `close_notify`, or nothing the stream hears
of, like a key update), what it emits, before the activation and after it (the answer to a
key update or to `close_notify`), when it throws. Data is counted in records. A read's handler runs inline in the code
and may start the next read there; the model lets that call follow as a step of
its own.

### EncryptedConnection
One life of an impl (a `connect` on a closed connection makes a new impl). The
strand runs one handler at a time; a callback into the owner is the interval while
`cb` is not `"none"`. The owner's threads are split at the atomics: `send` queues and
then looks at `is_connected_`; `connect` starts the resolver and then, off the
strand, the timer; `close` exchanges `is_closed_`, waits, and closes by itself when
it finds the io_context stopped. Operations complete with success or error in any
order; after the stream is closed a read cannot succeed, a write's success may
still be queued. `stop()` of the io_context may come while a handler runs, which then
goes on. `pc` tells the three ways apart in which a `close` ends: run by the strand
(`"closed"`), by the caller on a stopped io_context (`"inline"`), or at once because
`is_closed_` was set (`"returned"`). `Uses` says what the owner does besides `close()`
from its threads.

### KeyService
A call is `Enter` (id and promise under the mutex) and `send_request`, on any thread;
the strand runs `on_received`, and `on_disconnected` as `on_disconnected`, three times
`take_all`, `FailTaken`. `pending` are the three maps, keyed by id. A client's
connections are numbered by `life`; each has its two FIFO sequences, which go on being
served by an old session while the client has a new connection. `register_key` and
`insert` are the two critical sections of a registration. A future that is awaited is
`await_suspend`, `complete` and `Resume`. `known` (per call) is history: the keys whose
registration had been answered when the call began.

### InPackets
The table survives restarts, handles do not. `insert` is the end of
`handle(transport_packet)`, whose packet is acknowledged then; `emit_pending_packets`
makes a second handle for every row. Keys follow SQLite's rule, so a key is given again.
The application may use any handle at any time; `again` notes that it used one of a packet
it had already marked, after which the table promises nothing.

### Handshake, Framing, ServerProgram
`Handshake` runs the two ends of `handshake` with contexts that differ in version,
suite, offered tags, keys, chains, secrets and restrictions, on one TLS channel or on
two with a relay between them; signatures and MACs are symbolic and cover the exporter
of the channel. `Framing` has the real header, with a small base and fewer octets, and a
stream that hands over any number of the octets asked for. `stream_ends` is the sender
closing its side or the connection failing, at any octet, and `read_failed` the read that
finds out: the receive fails, and what was read of a frame is not handed up. `ServerProgram` splits
`on_accepted` and `close` at the mutex and at each session, and follows the io threads
until they run out of work.

### CertificateChain, Stores, Database, KeyGen
`CertificateChain` makes certificates one by one (level, host, signer, type, revocation);
a key may have been changed since it was signed (`change_key`, which `verify_me` notices), or
be missing in the verifier's key store (`LacksKey`, which ends a search in `follow_issuer`). A
key is the same wherever it is held. The module compares `is_authentic`, `add_link` and `create_certificate_chain` with `Grants`, which
says in one quantifier what they check link by link. The recursion of `chain_verify` and
`build_list` is that of recursive functions: over the links of a chain, and over the subject
and the level a certificate must exceed, which ends because levels are below the one an
unrestricted key has. `build_list` has the set of all lists that the search may come to: the
code takes a key's certificates in the order of their ids, which the model does not give, and
stops at the first list that is authentic. `Stores` follows one row of one
of the five stores: an operation holds the cache's mutex, its statement may throw after
the cache has changed. `Database` has savepoints by their one name, as SQLite resolves
them. `KeyGen` may be stopped between any two writes of files and rows.

### Serialisation and Sealing
`Serialisation` works on the real octets (tags, lengths of several octets, two's
complement, reals) with integers of at most three octets; its decoder is a record that the
operations of `buffered_stream`, `asn_der_decoder` and `deserialiser` pass on, with the
stack of positions that peeking pushes. The packets are two types made of the constructs
the protocols use. `Sealing` has ideal ciphers: an octet carries the keystream positions it
was combined with, a tag is equal exactly when all it covers is, a secret is the same only
at both ends of an agreement. Everything around them (states, counters, seek, chunks,
recipients, which part of a hybrid key opens which entry) is the code's.

### Broadcast, Tasks, Console
`Broadcast` splits `emit` at the two mutexes and the observer's end at
`deregister_observer`, `disable` and the destruction. In `Tasks` a chain is frames of task
bodies and `resume_on`s over one future; each step is a `resume`, an `await_suspend`, a
`final_suspend`, a completion or a hop to the executor. `Console` has the thread's loop split
where it lets the mutex go, `wait_for_processing` with its `notify_one`, and the calls of
other threads. The focus is a `weak_ptr`: `lock_focus` follows it to any widget that somebody
keeps (`Kept`: `widgets_`, the application, an `add_widget` that waits), so a widget that was
removed or never added is drawn and gets keys for as long as the application has it; `LetGo`
is the application letting go of one.

### AudioDevices and AudioFiles
The libraries are external: ALSA as a queue with a state (prepared, running, paused,
draining, xrun), DirectSound as a ring whose cursor runs on whether or not it was filled.
The devices' members decide what is written where. In `AudioFiles` samples are integers with
small ranges and floats are rationals, so rounding and clamping at the ends of the ranges
are exact; files are chunks whose sizes may be wrong or cut. A data chunk's samples are given
as numbers, of the type that the file's last format chunk names (`IsFile`).

## 3. Runs

Passing runs; each checks safety and liveness together:

| run | shows | bounds |
|---|---|---|
| `storage` | a sender that was told can forget (`NotifiedDurable`), an INSERT never meets its key (`KeysDoNotCollide`), `get_pending_packets` misses at most the packet in the writer's hand, every packet is reported and every acknowledged row goes (`AllSettled`), `PacketStore` is implemented | 2 packets for one receiver, 1 removing thread with 2 removals under way, 1 reader, 1 restart, 1 failing statement |
| `transport_sender` | a packet with a fresh key is in the sender's table or with the server (`FreshKeyIsNeverLost`) | 2 packets, 2 connections of the sender, 2 breaks or crashes, the receiver away |
| `delivery` | of a sender whose connection breaks: the packet leaves its table (`SentLeavesTable`), also when it was sent too early; of a receiver whose connection breaks: a stored packet reaches its table (`StoredReachesReceiver`) and the server drops it only then (`AckedMeansReceived`); of an event loop: events in order and once, no call after a removal (`ReceiversServed`), `NeverSleepsOnWork`; events are delivered, timers fire, `remove_receiver` returns (`LoopAnswers`) | 1 packet and 1 break or crash: 3 connections of the sender, which may store its packet 3 times, with the receiver away; or 1 of the sender and 2 of the receiver. 1 receiver of events, 1 caller, 2 events, 2 timers with two delays, repeating or not, clock to 3 |
| `tls` | success means written, in order (`WritesKept`); each handler once, shutdown's last, no deaf stream (`NobodyForgotten`); every call is answered (`CallsAnswered`) | 1 read, 2 writes, 2 records, high-water mark 2, 1 message that brings nothing, close_notify at any time |
| `conn` | callbacks in order, nothing after a close that waited, no forgotten message, an ended connection looks ended (`OwnerIsServed`); attempts end with a silent peer, close returns on a stopped io_context, sessions are released (`ConnectionsEnd`) | 2 threads, one of them closes, 1 send, 1 frame, 1 extra handshake packet, `close_later` and closing callbacks |
| `keys` | own answers, registered keys known over connections and restarts, coroutines resumed, no call left behind by a disconnect (`CallersServed`); calls on a live connection are answered or fail (`RequestsAnswered`) | 2 calls of one client, 2 connections, 1 fault (a cut, a restart or a failing statement) |
| `network` | `FramesKept`, `TrustKept`, `SessionsOwned`, `UnseenKept`, `ChainsExact`, `StoreServesStored`, `RevokedStays`, `TransactionsAtomic`, `KeysWhole`; handshakes and frames end and a signal ends the program (`NetworkEnds`) | all pairs of 45 contexts on one channel or two; 3 frames over and under both caps, the end of the stream anywhere; 2 sessions, a signal at any time; 3 packets and 3 handles with 1 restart; 3 certificates over 2 keys and a root with 3 levels and chains of 2, and for the first 2 of them also a key changed or missing, or a revocation; 1 throwing statement and 1 restart; 3 writes in 2 nested transactions with a crash; 3 `create`s, stopped twice |
| `library` | `DocumentsKept`, `PacketsOnce`, `SealedOpens`, `BroadcastsHeard`, `ResultsPassed`, `AudioKept`, `StopEndsWait`, `SoundKept`, `EditsAsMeant`, `WidgetsStill`, `ConsoleAnswers` | every integer of two octets and 2 of 7 packets cut anywhere; 2 messages written and read, 4 keys and 2 recipients; 2 emitters, 3 events, 2 connects; 2 chains of two and three frames with 2 completers; a device of 3 frames, 5 frames of sound, 2 starts; files with right, wrong and cut chunks, 60 target formats, 2 changes of a buffer; 7 keys in a field of 2 characters; 2 widgets that the application may let go of, 1 other thread, 3 calls, 2 keys |

Why these bounds are enough for the questions: two packets, writes, events or timers
are what it takes to confuse one with another (keys, order, an index, the next
trigger); one restart separates two incarnations, one failure two paths; two
threads of the owner and the strand are the three parties that can meet in the
connection. Sample ranges, fields, rings, headers and integers are small but have their
ends inside the range that is enumerated; three certificates make a chain, a rival for one
of its links and a revocation. The theorems below carry the main
invariants of most components to any number of receivers, threads, packets, writes and restarts. Deadlock is not
checked: every one of these systems may come to rest (everything sent, everything closed,
or a bound reached). The parts of `network`, of `library` and of `delivery` do not interact: a
run picks one at the start, so each is explored by itself. In the transport's two parts of
`delivery` there is one connection left after every break, so that what the properties
promise "once connections have ceased to break" does not end with the bound: the third one of
the sender is for the server's refusal of a packet that came before the hello. The sender
whose connection holds sends once its hello is answered, since a packet that is stored
twice is the other part's matter.

Limits of the properties that are the code's own:

* A repeating timer may starve the event loop, since timers come first, so events and
  timers are promised only without another repeating timer.
* `SentLeavesTable` excepts a packet that the server failed to write. `StoredReachesReceiver`
  does too, and also one that `get_pending_packets` missed for the receiver's present
  connection (the packet in the writer's hand, see `PacketStorage`), and a receiver whose
  earlier connection said hello last, of which the run `transport_online` tells.
* `UnseenKept` holds while the application leaves a packet's other handles alone.
* `TransactionsAtomic`: a rollback leaves its savepoint open; what it says of the disk
  afterwards is what was not left open.
* `StoreServesStored` excepts a change whose statement threw, and empty values in the
  tables that read them back as none.
* `AudioKept` ends where a ring ran dry or over, or was written at position 0 while
  stopped. `int24` sound is read but written as silence, unsigned sound is not kept by
  mixing with silence, and a conversion to the same format clamps floats beyond -1 .. 1, which
  a buffer that was mixed may hold: `SoundKept` excepts the three.
* `ConsoleAnswers` is about one waiting thread: `notify_one` wakes one of several, and the
  next waits for the next draw. `WidgetsStill` is proved for any number of them.
* `SealedOpens` is about no more messages than the counter has values, 2^64 in the code: the
  counter does not wrap in the run. Damage is to an octet of the data.
* `KeysWhole` says that the files fit each other and an identity its key, not that `--init`
  leaves a pki alone; see below.
* `CallsAnswered` excepts a handshake that the peer's `close_notify` overtakes: `on_alert`
  sets `peer_closed_`, the reads stop and nobody answers, although `tls_stream.hpp:101`
  says "the handler gets the first error or success". The connection above is saved by its
  timeout.

Runs that show a disagreement between the code and what a header says (each has an entry
in `findings` with the quotation):

| run | what happens |
|---|---|
| `storage_close_purges` | `next_packet` takes a packet and returns `!close_`: the packet is neither written by the thread nor purged |
| `transport_no_loss` | a key of `out_packets` is used again while an ack for it is under way |
| `transport_online` | the hello of a connection that the receiver gave up is handled after that of its present one and takes its place in `conns`: a packet stored then goes to the dead connection, and stays with the server while the receiver is online |
| `server_close` | `on_accepted` enters a session after `close()` took the sessions to close: the io threads, and `wait()`, do not end while its peer lives |

Other things met while modelling have no run. `close()` returns while the `on_disconnected` of a
`close_later` runs, since the queued part sets `is_closed_` first (`encrypted_connection.hpp:60`
says "the destructor waits like close()"); the same holds for a callback that closed by
itself. `send_packet` on a new connection may see the old `hello_done` and send before the
hello; the server then ends the connection. In the key client a call that is entered while
`on_disconnected` takes the maps, or that a `close()` meets, waits until the next disconnect;
of two registrations of a key at the same time both may succeed; and a registration whose
INSERT failed is found, and refused when it is tried again, until the server's next start. A
`connect()` that meets the end of the connection before may leave that one's error in the new
promise of `wait_for_connection`. `async_shutdown` during the handshake leaves the handshake's
handler to run behind its own; only tests call it, after the handshake. An inline close on a
stopped io_context may meet a handler that has not returned; `CloseWaits` is therefore about
closes the strand has run. The server's hello never carries "unknown" for a tag that is not
offered, as `protocol.hpp:41` of the handshake says: the handshake fails instead.
`sp_keygen`'s `load()` needs `root.priv`, which `pki.hpp:19` advises to keep offline, and
`exists()` looks for that file alone (`pki.cpp:75`): once it has been taken away, another
`--init` in the directory writes a new `root.pub`, CA key and CA certificate over the old ones,
although `doc/keygen.md:41` says "An existing pki or identity is never overwritten". (The trace
in `KeyGen` is `create`, its four `write_files`, `TakeOffline`, and the same again. While
`root.priv` is there, and for an identity that has its key, the sentence holds: it is the first
thing `create` and `install_identity` look at.) The
console's `redraw()` during a draw is lost (`context.cpp:271`), and `running_` is never set, so
the destructor does not wait (`context.cpp:33`). `commit()` leaves `history_pos_` where it is.
`audio_data(audio_buffer)` takes the whole block of a buffer, used or not. Times before 1970
with milliseconds do not survive `asn_der_encoder.hpp:65`, and an unsigned integer of one
octet too many is accepted (`asn_der_decoder.hpp:283`). `sync_wait` on the thread that runs
the executor waits for itself.

### Fairness
* Storage, event loop (`LoopFairness` in `MCDelivery`): the operating system runs a thread that can run (weak
  fairness of the writer's and the loop's steps, of the calls that were begun
  there, and of the clock); nobody is obliged to begin a call or to close.
* Transport (`Scheduling`, and `connect`): strands and threads with something to do run; the
  application connects again after a disconnect, as its callers do, once more than
  connections break. Messages on a connection that holds
  are delivered (TCP).
* TLS stream: the socket completes what was started on it and the strand runs what
  is posted.
* Key service: threads and strands run, an attempt to connect ends, a cut is seen by
  the client; close and connect are never owed.
* Connection: the strand runs what is posted to it in the end (strong fairness: it
  is busy in between), callbacks return, the timer expires. The peer and the
  network owe nothing.
* Network: a reader that asks gets its octets, a handshake packet is handled, and the
  threads of a server program run; clients and the signal owe nothing.
* Library: a wait that may return does, a worker reads what it waited for, and an ALSA
  device that runs goes on; the console's thread runs (keys are read without blocking) and
  a thread that was woken gets the mutex. DirectSound's cursor, callers and keys owe
  nothing.

## 4. Theorems

`PacketStorageProofs`, from `ReceiverAssumption`, `NoneAssumption` and
`BoundAssumption` (`ReceiverOf` is a function from packets to receivers, `None` is no
packet, the bounds are natural numbers):

* `StorageInvariant`: `Spec => [](TypeOK /\ StorageInv)`. `NotifiedDurable` is not
  inductive: a row is deleted by its ack number, so one needs that numbers are not
  shared (`AckOfItsOwn`, `EverythingIssued`: what is issued or a row has a number of
  its own, not above `sequence_`), that a number under removal belongs to an
  acknowledged packet (`OnlyAckedRemoved`), that a flag the writer finds set was set
  by an acknowledgement (`FlagMeansAcked`), and that a packet is queued once and
  the writer's local is set where it uses it (`QueueOnce`, `WriterHoldsPacket`). A
  restart keeps the numbers apart because `sequence_` starts at the largest row
  (`LastAckBounds`).
* `StorageTypes`, `StorageDurable`, `StorageKeys`: the parts a reader wants.
* `StorageRefinement`: `Spec => StorageImplementsStore`. `PacketStorage`, with its queues,
  its thread and its table, implements `PacketStore`. The mapping reads off what is
  accepted, a row, lost, acknowledged and told; there is one lemma for each kind of step
  the abstract storage makes (`AcceptedStep` to `ErasedStep`), and `RefinementStep` puts them
  together. Every one of them rests on `StorageInvariant`: without it a deletion by number
  might erase a packet that nobody acknowledged.
* `PendingMissesOne`: between its two reads `get_pending_packets` misses at most the packet
  in the writer's hand. Inductive with `ToldWasInserted`, `AcceptedFound` (what is accepted,
  neither acknowledged nor lost, is in the index, in the writer's hand or a row) and
  `ReadersFind` (what a reader has not seen at its first read it will find at its second).

`PacketTransportProofs`, from `RouteAssumption`, `NoneAssumption`, `PacketsAssumption` (the
packets are finitely many, so that the rows can be listed in the order of their keys) and
`BoundAssumption`:

* `TransportTypes`, `FreshKeysKept`, `AckedReceived`, all from one invariant `Inv`. A
  message on a connection says something of both ends, so `Wires` bounds what may be under
  way on a connection by its maker: to the server packets with their keys and acks of what
  the client received, to the client its packets and acks of what a sender was told. These
  sets only grow (`WiresGrow`), so an action has to be looked at only where it puts a message
  on a connection. `RowsOwned`, `KeysSuffice` and `SecondIsReused` are about SQLite's keys:
  an ack removes the row with its key, which is another packet's only when that one got the
  key second. `StoredAsSent`, `ToldIsKept` and `RowUntilTold` follow the packet from the
  sender's table to the server's.

`EventLoopProofs`, from `ReceiverAssumption`, `CallerAssumption` and `LoopBoundAssumption`:

* `EventLoopInvariant`: `LoopSpec => [](LoopTypeOK /\ LoopInv)`. Besides the properties it
  needs that everything queued belongs to an active receiver (`QueuedAreActive`),
  that a receiver that was removed is inactive (`RemovedAreInactive`), and that
  `next_trigger_` is set and not later than any timer (`TriggerIsNotLate`), which is
  what makes a stale `next_trigger_` harmless.
* `ReceiversAreServed`, `NoLostWakeup`: the properties.

`TlsStreamProofs`, from `BoundAssumption`, for any number of reads, writes and records:

* `StreamTypes`, `WritesAreKept`, `NobodyIsForgotten`, from `Inv`. A handler of the strand is a
  composition of member functions, and halfway through it the stream is in no state of the
  specification. `StreamInv` is therefore a predicate on a stream and the sets of what was
  called, late and written, and there is one lemma for each member function (`DeliverRead`,
  `StartWrite`, `OnEmit`, `FailPending`, ...); a step chains them. Of its parts, `AnswersInv` is
  about the sequences of what is invoked and posted against what is still kept: each handler is
  in one of the three, and no pair of them is in the wrong order. The order holds later because
  it is stated for what is kept now (`AllFine`). `QueueInv`: the records a marker waits for are
  on the wire or in front of it, so that a marker at the head may say success. `FlagsInv`: a
  closed stream keeps nothing, after `async_shutdown` nothing is taken any more, and a write
  under way has its records at the head of the queue. `TakenInv`: a new write's marker waits for
  all the writes before it.
* `InOrderOf` and `LeastOf` are the lemmas about listing a set of numbers in order, which is
  how the markers of a queue are found.

`EncryptedConnectionProofs`, from `ConstantAssumption`:

* `ConnectionTypes`, `OwnersAreServed`, from `Inv`: the four parts of `OwnerIsServed` with
  `Held` (`client_` is null exactly from the end on), `Started` (nothing is under way for a
  fresh impl) and `Told` (which callbacks the owner has had, by the state of the flags).
  `do_close` and `handle_disconnect` run inside many of the handlers; each is one lemma.

`KeyServiceProofs`, from `ConstantAssumption` and `DistinctAssumption` (the values used for
"no answer" and for results are not keys or calls):

* `KeyServiceTypes`, `CallersAreServed`, from `Inv`. The answer on a connection has to be
  right about the registrations its caller knew of, and has to reach that caller and no
  other: `IdsUnique` and `PendingOwned` (a map holds calls of its client under their own
  id, and a call without an answer is in a map or in the hands of `fail_all`), `Wires`
  (requests and right answers of calls of this client), `Working` (what a session knows
  between its lookup and its insert) and `TakenMaps` (what `fail_all` has emptied so far).

`NetworkProofs`, about eight modules that the `Network` run checks as one sum. Each theorem is
about the part's own specification, its initial states and its steps alone (`ServerSpec`,
`KeyGenSpec`, `StoresSpec`, `HandshakeSpec`, `InPacketsSpec`, `DatabaseSpec`, `FramingSpec`,
`ChainSpec`); in `MCNetwork` a behaviour makes steps of one of the parts only.

* `SessionsAreOwned`: with `Accepting` (`on_accepted` lists a session before it starts it)
  and `ClosingOnce` (each `close()` takes the sessions once).
* `KeysAreWhole`, from `KeyGenAssumption`: with `FilesInOrder` and `IdentityInOrder`, which
  say how far each file and row may be ahead of the next when the tool is stopped.
* `StoresServe` and the action property `RevokedStaysRevoked`, from `NoneAssumption`: with
  `InStep`, which ties the cache and the row to what was stored last.
* `TrustIsKept`, from `ContextAssumption` (the value for "absent" is neither a context nor
  credentials that an end can make, and a context offers known tags): for any contexts and
  channels. The packets that exist are those the two ends can make, each bound to its channel,
  its role and the two session ids; what an end has verified is read off its handshake object.
* `UnseenIsKept`, from `InRowAssumption` (row keys are 1 to some n), stated like `UnseenKept`
  for as long as no handle of a marked packet was used (`again`). `RowsKept`: rows and
  packets that are not marked correspond one to one; `HandlesFind`: a handle, also one still to
  be delivered, has the key of its packet's row. SQLite gives the key of a removed row again,
  so the argument is that a new key is none of the present ones (`NewRowKey`, from
  `LargestKey`) and that a handle of a marked packet is never used to find a row. That
  `emit_pending_packets` lists each row is `RowAtPlace`.
* `TransactionsAreAtomic`, from `WidthAssumption` (the provers know nothing of powers, so it
  states two facts of 2^(w-1) and 2^w that hold for every width). A rollback does not release
  its savepoint, and all savepoints have one name. `Nested`: there are never fewer savepoints
  than open transactions. `OwnSavepoints`: while there are as many, each transaction has its
  own, and the table is the disk and what the open ones wrote; once one is left over, the last
  one is released by nobody and the disk does not change until a crash. `OpenApart`: what is
  open is on no disk and in no committed transaction. `ColumnValue` is the arithmetic of the
  columns.
* `FramesAreKept`, from `FramingAssumption` and `CapAssumption` (a header has room for the
  length of the largest frame), for frames of any lengths read in any pieces, from a stream
  that ends anywhere. `EndsAtFrame`: a reader that has read all there is stands between two
  frames, so a sender that closes fails nothing but the receive after its last frame. `Placed`
  says where each frame that the reader has not finished ends among the octets of the stream, and
  `ReaderAt` that the reader's buffer is a first part of the header or of the payload of the
  next one: a reader that is one octet off would be at no frame's place. That
  `decode_frame_length` undoes `encode_frame` is `HeaderDecodes`, an induction over the octets.
* `ChainsAreExact`, from `ChainAssumption` (the root is not one of the keys, levels are below
  that of an unrestricted key, hosts are sequences of names, and the value for "no certificate"
  is none): a chain verifies exactly when its certificates grant it and its keys are signed as
  they are, and a search that succeeds returns such a chain, and finds one whenever there is one
  among the keys that the verifier has. The invariant has only the types; the work is in the
  operators. `Verified` gives `chain_verify` link by link without recursion, where
  `UnderNests` carries a restriction to a host over all the links below it. `ListsAreRoutes`:
  `build_list` has exactly the lists that `Routes` describes, by induction on the level, because
  a call depends on the calls for higher levels alone (`SearchDepends`). `ChainIsShort`: the
  levels of a route rise, so it has no more links than there are certificates.

`LibraryProofs`, about seven parts of the `Library` run, again each by its own specification
(`ConsoleSpec`, `BroadcastSpec`, `TasksSpec`, `LineSpec`, `SealingSpec`, `AudioSpec`,
`FilesSpec`):

* `WidgetsAreStill`, from `ConsoleInv`: the thread walks over `widgets_` as it is while it draws,
  and over nothing otherwise; what it walks over or has locked is therefore alive.
* `BroadcastsAreHeard`, from `EmitterAssumption` (an emitter is not the value for a free lock).
  `BroadcastsHeard` compares the calls that were made with what was wanted; for it to stay true
  the calls still to come have to be in order too. `CallsInOrder` is about the calls made, the
  one that runs and the posted ones together, as pairs of event and function; `OneEmits` (who
  has the lock has the latest event) and `Connected` (functions are numbered in the order of
  their connection) keep a new call behind all of them. `WantedHeard` has each wanted
  call made, running, posted or still to be posted by the emitter, and `Disabled` says that
  none runs once the observer is gone.
* `ResultsArePassed`, from `ChainAssumption` (a call has at least one frame, each of one of the two
  kinds). The invariant is one predicate per call, about that call's values only, so that a
  step has to be looked at for one call. `ChainStands`: the frames outside the one that runs
  have started and each is the continuation of the next, so that `final_suspend` always finds
  one. `FutureKept`: the future's continuation is set exactly while the chain is suspended, and
  it has the first completion. `OutcomePassed`: what is passed on is that of the outermost level that
  threw, all of which are further in than the one that runs. `ExecutorInv` has each submitted handle at the
  executor once; without it the executor could take a chain that is running already.
* `EditsAreAsMeant`, from `FieldAssumption` (the field has a width): with the types
  (`LineTypes`), `EditsAsMeant` is inductive. The work is in what an edit at the cursor does to
  a text in two parts: `RemovedBefore`, `RemovedAfter`, `Inserted`, `Replaced`, `MovedLeft` and
  `MovedRight`, each place by place; and in the scrolling, which moves the field or the cursor
  in it and never both.
* `SealedAreOpened`, from `SealingAssumption` (an octet can be damaged, the counter has a value
  for every message, and "no message" is none) and `KeyAssumption` (keys have ids of their own).
  `SealingSpec` has the streams and the envelopes side by side. For the streams, `Sends` says that
  the draft is what the cipher has taken and that the next nonce is none of those before, and
  `Reads` that the receiving cipher has exactly what was given of the message it is at, and
  nothing between messages. With them a tag depends on the plaintext and the nonce only, by
  the ideal cipher: encrypting is undone by itself (`UnderTwice`), in pieces as at once
  (`UnderPieces`), and damage shows (`DamageSeen`). An envelope
  opens by its first entry under the key's id (`FirstEntries`, `LateEntry`, `SealedWith`), and
  `EnvelopeOpens` is that this entry opens with that key and for no other.

* `AudioIsKept`, from `AudioAssumption` (a device has room for a frame), for devices and
  sounds of any size. While nothing slipped, `DeviceFlow` has what came out, what the device
  holds and what the application still has as one stretch of numbers in order, with gaps only
  where a stop threw frames away. `RingHolds` says which places of DirectSound's ring hold the
  frames under way, counted from the cursor on (`Ahead`), so that writing at the position and
  reading at the cursor are one more and one less at the ends of the queue, also where the
  ring wraps around.
* `SoundIsKept`, from `FilesAssumption` (the scale of a wider type is a multiple of that of a
  narrower one, multipliers are not negative, and the files are as above), for any files, formats and sample ranges. `FilesInv`
  is about loading: `Reading`, what has been read is what the last chunk of each kind so far
  holds, and the file is good so far; then `Sound` and `Buffered`, the samples are of their
  type. The rest is arithmetic of fractions in lowest terms (`ReducedIs`), of division that cuts
  towards zero and of rounding: integer samples come back from a float and from a wider type
  (`SampleReturns`, `SampleWidens`), clamping and cutting keep the order (`SampleGrows`), a
  sample at a new rate or a new number of channels lies between those it was made from
  (`Blended`, `MixedChannels`), and the duration differs by less than a frame (`DurationKept`).

Only model-checked: liveness and everything under fairness, which is out of this prover's reach
(`LoopAnswers`, `CallsAnswered`, `ConnectionsEnd`, `RequestsAnswered`, `NetworkEnds`,
`SentLeavesTable`, `StoredReachesReceiver`, `AllSettled`, `StopEndsWait`, `ConsoleAnswers`); and `DocumentsKept` and
`PacketsOnce` of `Serialisation`, which compare a whole encoder with a whole decoder over powers
of the base, of which the provers know nothing. The library's theorems of induction take an
operator as a parameter and cannot be used; where the proofs above need an induction
(`ShiftsExist`, `SumsExist`, `ListsAreRoutes`), they take the least number for which a claim fails
(`LeastNumber`, `LeastOne`) and refute it, and get a function with a recursive definition from the same
argument before they use its equation.

## 5. Not modelled

`PROJECT.json` lists every component with its status. The numeric algorithms of
cryptography are Botan's and ideal here. Logging, curses output, error texts, command lines
and the configuration and enumeration of audio devices are I/O. SQLite, ALSA and DirectSound
are modelled by what the code uses of them. Memory orders of the C++ atomics are taken as
sequentially consistent, which is what the code asks for. `error_packet` is not modelled; nor
is `event_loop_broadcast_observer`, which posts to the event loop of `EventLoop`, nor the
promise of `wait_for_connection`, nor `search_identifier`, which only reads. Identifier and
property certificates are certificates of another type to a chain. The order in which the
members of `packet_server` are destroyed (`conns` before `storage`, whose writer may still
call `do_ack`) is outside the modules. Two event loops that remove each other's receivers are
listed as a hazard without a property; a `close()` on the only io thread waits for itself, as
its header says.

## 6. Plan

1. Proofs: `DocumentsKept` and `PacketsOnce`, construct by construct (lengths, integers,
   optional values), with the powers as recursive functions; more action properties.
2. Two event loops; `event_loop_broadcast_observer`; the promise of `wait_for_connection`.
3. `InPackets` and `PacketStorage` in place of their abstractions in `PacketTransport`.
