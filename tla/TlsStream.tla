------------------------------ MODULE TlsStream ------------------------------
(***************************************************************************)
(* network: tls_stream, the asynchronous TLS stream under an encrypted     *)
(* connection.  Everything runs on one strand, so a handler is one step;   *)
(* each member function is an operator from stream to stream, composed as  *)
(* in the code.  Botan's channel and the socket are the environment: what  *)
(* one read brings, whether a write or a call into the channel fails.      *)
(***************************************************************************)
EXTENDS Integers, Sequences, FiniteSets

CONSTANTS
    MaxReads,       \* bound: calls of async_read_some
    MaxWrites,      \* bound: calls of async_write
    MaxRecords,     \* bound: application records the peer sends
    MaxFlights,     \* bound: messages of the peer that bring nothing, like those of its
                    \* handshake before the last, or a key update
    HighWater       \* read_high_water_mark, in records

ASSUME BoundAssumption ==
    /\ MaxReads \in Nat /\ MaxWrites \in Nat /\ MaxRecords \in Nat /\ MaxFlights \in Nat
    /\ HighWater \in Nat \ {0}

VARIABLES
    st,             \* the stream: its members, what is posted to the strand, and
                    \* done, the handlers in the order they were invoked
    called,         \* the handlers of all calls so far
    late,           \* those called after async_shutdown
    wire,           \* writes whose records are on the wire
    records, flights,
    early           \* close_notify came before the session was active

peer == <<records, flights, early>>
vars == <<st, called, late, wire, peer>>

\* User handlers.
HS == [op |-> "handshake", n |-> 0]
SD == [op |-> "shutdown", n |-> 0]
R(n) == [op |-> "read", n |-> n]
W(n) == [op |-> "write", n |-> n]
NoRead == R(0)

\* out_item: records of write n (0: of the channel itself), or its marker.
Record(n) == [data |-> TRUE, write |-> n]
Marker(n) == [data |-> FALSE, write |-> n]

Init ==
    /\ st = [channel |-> FALSE, reading |-> FALSE, writing |-> FALSE, activated |-> FALSE,
             peerClosed |-> FALSE, closing |-> FALSE, closed |-> FALSE, error |-> FALSE,
             handshake |-> FALSE, shutdown |-> FALSE, read |-> NoRead, plain |-> 0,
             out |-> <<>>, posted |-> <<>>, done |-> <<>>]
    /\ called = {} /\ late = {} /\ wire = {}
    /\ records = 0 /\ flights = 0 /\ early = FALSE

Post(s, h, ok) == [s EXCEPT !.posted = Append(@, [of |-> h, ok |-> ok])]
Invoke(s, h, ok) == [s EXCEPT !.done = Append(@, [of |-> h, ok |-> ok])]
Answered(h) == \E i \in DOMAIN st.done : st.done[i].of = h

\* What a call gets that the stream does not take.
Refuse(s, h) == Post(s, h, FALSE)

-----------------------------------------------------------------------------
(* Private functions.                                                      *)

Paused(s) == s.plain >= HighWater

start_read(s) ==
    IF s.reading \/ s.closed \/ s.error \/ s.peerClosed \/ Paused(s) THEN s
    ELSE [s EXCEPT !.reading = TRUE]

\* The pending read is answered inline: with data first, then with the end.
deliver_read(s) ==
    CASE s.read # NoRead /\ s.plain > 0 ->
            Invoke([s EXCEPT !.plain = @ - 1, !.read = NoRead], s.read, TRUE)
      [] s.read # NoRead /\ s.plain = 0 /\ (s.error \/ s.peerClosed) ->
            Invoke([s EXCEPT !.read = NoRead], s.read, FALSE)
      [] OTHER -> s

ReadyToShutDown(s) == s.closing /\ ~s.writing /\ s.out = <<>> /\ ~s.closed

finish_shutdown(s) ==
    IF ~ReadyToShutDown(s) THEN s
    ELSE LET c == [s EXCEPT !.closed = s.peerClosed, !.shutdown = FALSE]
         IN  IF s.shutdown THEN Post(c, SD, TRUE) ELSE c

\* The numbers of a finite set, from the smallest on.
InOrder(S) == [i \in 1..Cardinality(S) |-> CHOOSE n \in S : Cardinality({m \in S : m <= n}) = i]

\* The items of out_queue_ that have a handler, in the queue's order.
Markers(q) ==
    LET at == InOrder({i \in DOMAIN q : ~q[i].data}) IN [i \in DOMAIN at |-> q[at[i]]]

\* Mutation: the markers behind the first records are completed as well.
LeadingMarkers_All(s) == Markers(s.out)

\* The items without data at the front of out_queue_.
LeadingMarkers(s) ==
    LET n == CHOOSE n \in 0..Len(s.out) :
                /\ \A i \in 1..n : ~s.out[i].data
                /\ n < Len(s.out) => s.out[n + 1].data
    IN  SubSeq(s.out, 1, n)

\* The answers to the writes with these markers.
WritesDone(m, ok) == [i \in DOMAIN m |-> [of |-> W(m[i].write), ok |-> ok]]

complete_write_markers(s) ==
    LET m == LeadingMarkers(s)
    IN  [s EXCEPT !.out = SubSeq(@, Len(m) + 1, Len(@)), !.posted = @ \o WritesDone(m, TRUE)]

start_write(s) ==
    IF s.writing \/ s.closed THEN s
    ELSE LET m == complete_write_markers(s)
         IN  IF m.out # <<>> THEN [m EXCEPT !.writing = TRUE]
             ELSE IF m.closing THEN finish_shutdown(m) ELSE m

on_emit(s, n) == start_write([s EXCEPT !.out = Append(@, Record(n))])

\* fail_pending: handshake, read, writes, shutdown, in this order.
FailWrites(s) ==
    [s EXCEPT !.out = <<>>, !.posted = @ \o WritesDone(Markers(s.out), FALSE)]
FailOne(s, isSet, h) == IF isSet THEN Post(s, h, FALSE) ELSE s

fail_pending(s) ==
    LET a == FailOne([s EXCEPT !.handshake = FALSE], s.handshake, HS)
        b == FailOne([a EXCEPT !.read = NoRead], a.read # NoRead, a.read)
        c == FailWrites(b)
    IN  FailOne([c EXCEPT !.shutdown = FALSE], c.shutdown, SD)

fail(s) ==
    IF s.error \/ s.closed THEN s
    ELSE fail_pending([s EXCEPT !.error = TRUE, !.closed = TRUE])

\* Mutation: the handler is kept, and called again by the next failure.
on_activated_Keep(s) ==
    IF s.handshake THEN Post([s EXCEPT !.activated = TRUE], HS, TRUE)
    ELSE [s EXCEPT !.activated = TRUE]

on_activated(s) ==
    LET a == [s EXCEPT !.activated = TRUE, !.handshake = FALSE]
    IN  IF s.handshake THEN Post(a, HS, TRUE) ELSE a

-----------------------------------------------------------------------------
(* Calls, as they run on the strand.                                       *)

Call(h) ==
    /\ h \notin called
    /\ called' = called \cup {h}
    /\ late' = IF SD \in called THEN late \cup {h} ELSE late

\* A client's channel emits its first flight when it is made; making it may
\* fail.
async_handshake ==
    /\ Call(HS)
    /\ \/ (st.channel \/ st.closed) /\ st' = Refuse(st, HS)
       \/ /\ ~st.channel /\ ~st.closed
          /\ LET s == [st EXCEPT !.handshake = TRUE]
                 made == [s EXCEPT !.channel = TRUE]
             IN  st' \in {start_read(on_emit(made, 0)), start_read(made), fail(s)}
    /\ UNCHANGED <<wire, peer>>

\* The users read and write from the handshake's handler on.
async_read_some(n) ==
    /\ Answered(HS)
    /\ n = 1 \/ R(n - 1) \in called
    /\ Call(R(n))
    /\ st' = IF st.read # NoRead \/ st.closed \/ st.closing THEN Refuse(st, R(n))
             ELSE start_read(deliver_read([st EXCEPT !.read = R(n)]))
    /\ UNCHANGED <<wire, peer>>

\* The channel emits the records of the data or throws.
async_write(n) ==
    /\ Answered(HS)
    /\ n = 1 \/ W(n - 1) \in called
    /\ Call(W(n))
    /\ IF st.error \/ st.closed \/ st.closing \/ ~st.activated
         THEN st' = Refuse(st, W(n))
         ELSE LET mark(s) == start_write([s EXCEPT !.out = Append(@, Marker(n))])
              IN  st' \in {mark(on_emit(st, n)), Post(fail(st), W(n), FALSE)}
    /\ UNCHANGED <<wire, peer>>

EndPendingRead(s) ==
    IF s.read = NoRead THEN s ELSE Post([s EXCEPT !.read = NoRead], s.read, FALSE)

\* The channel emits close_notify, unless there is none or it throws.
\* Called after the handshake, as its tests do.
async_shutdown ==
    /\ Answered(HS)
    /\ Call(SD)
    /\ IF st.closed \/ st.closing \/ st.error
         THEN st' = Refuse(st, SD)
         ELSE LET s == EndPendingRead([st EXCEPT !.closing = TRUE, !.shutdown = TRUE])
              IN  \/ st' = start_write(s)
                  \/ st.channel /\ st' = start_write(on_emit(s, 0))
    /\ UNCHANGED <<wire, peer>>

close ==
    /\ ~st.closed
    /\ st' = fail_pending([st EXCEPT !.closed = TRUE])
    /\ UNCHANGED <<called, late, wire, peer>>

-----------------------------------------------------------------------------
(* Completions of the socket's operations, and the posted handlers.        *)

\* One read brings handshake messages, the last of them, application data,
\* close_notify: what the channel calls back for, in this order.  It may emit
\* an answer first: a flight of the handshake, a key update, its close_notify.
Bring(s, finish, app, notify) ==
    LET a == IF finish THEN on_activated(s) ELSE s
        b == [a EXCEPT !.plain = @ + app]
    IN  [b EXCEPT !.peerClosed = @ \/ notify]

OnReadData(finish, emits, app, notify) ==
    LET s == [st EXCEPT !.reading = FALSE]
        e == IF emits THEN on_emit(s, 0) ELSE s
        b == Bring(e, finish, app, notify)
    IN  /\ st.reading
        /\ finish => ~st.activated
        /\ app > 0 => finish \/ st.activated
        /\ ~finish /\ app = 0 /\ ~notify => flights < MaxFlights
        /\ records + app <= MaxRecords
        /\ records' = records + app
        /\ flights' = IF finish \/ app > 0 \/ notify THEN flights ELSE flights + 1
        /\ early' = (early \/ (notify /\ ~finish /\ ~st.activated))
        /\ st' = IF st.closed THEN s ELSE start_read(deliver_read(b))
        /\ UNCHANGED <<called, late, wire>>

\* A fatal alert, or data the channel refuses: it may emit an alert and throw.
OnReadRefused ==
    LET s == [st EXCEPT !.reading = FALSE]
    IN  /\ st.reading /\ ~st.closed
        /\ \/ st' = start_read(deliver_read(fail(s)))
           \/ st' = fail(on_emit(s, 0))
        /\ UNCHANGED <<called, late, wire, peer>>

\* Mutation: a handshake that loses its socket counts as a closed session.
IsEndOfSession_Always(s) == TRUE

IsEndOfSession(s) == s.closing \/ s.activated

OnReadError ==
    LET s == [st EXCEPT !.reading = FALSE]
    IN  /\ st.reading
        /\ st' = IF st.closed THEN s
                 ELSE IF IsEndOfSession(st)
                      THEN finish_shutdown(deliver_read([s EXCEPT !.peerClosed = TRUE]))
                      ELSE fail(s)
        /\ UNCHANGED <<called, late, wire, peer>>

OnWritten ==
    LET s == [st EXCEPT !.writing = FALSE]
    IN  /\ st.writing /\ ~st.closed
        /\ st' = start_write([s EXCEPT !.out = Tail(@)])
        /\ wire' = wire \cup {Head(st.out).write}
        /\ UNCHANGED <<called, late, peer>>

OnWriteError ==
    LET s == [st EXCEPT !.writing = FALSE]
    IN  /\ st.writing
        /\ st' = IF st.closed THEN s ELSE fail([s EXCEPT !.out = Tail(@)])
        /\ UNCHANGED <<called, late, wire, peer>>

RunPosted ==
    /\ st.posted # <<>>
    /\ LET p == Head(st.posted)
       IN  st' = Invoke([st EXCEPT !.posted = Tail(@)], p.of, p.ok)
    /\ UNCHANGED <<called, late, wire, peer>>

-----------------------------------------------------------------------------
OnRead ==
    \/ \E finish, emits, notify \in BOOLEAN, app \in 0..MaxRecords :
          OnReadData(finish, emits, app, notify)
    \/ OnReadRefused \/ OnReadError

Next ==
    \/ async_handshake \/ async_shutdown \/ close
    \/ \E n \in 1..MaxReads : async_read_some(n)
    \/ \E n \in 1..MaxWrites : async_write(n)
    \/ OnRead \/ OnWritten \/ OnWriteError \/ RunPosted

Spec == Init /\ [][Next]_vars

\* The socket completes what was started on it, and the strand runs what is
\* posted to it.  Nobody has to call, to close or to shut down.
FairSpec ==
    Spec /\ WF_vars(OnRead) /\ WF_vars(OnWritten \/ OnWriteError) /\ WF_vars(RunPosted)

-----------------------------------------------------------------------------
(* Properties.                                                             *)

Handlers == {HS, SD} \cup {R(n) : n \in 1..MaxReads} \cup {W(n) : n \in 1..MaxWrites}
Items == [data : BOOLEAN, write : 0..MaxWrites]
Answers == [of : Handlers, ok : BOOLEAN]

Streams ==
    [channel : BOOLEAN, reading : BOOLEAN, writing : BOOLEAN, activated : BOOLEAN,
     peerClosed : BOOLEAN, closing : BOOLEAN, closed : BOOLEAN, error : BOOLEAN,
     handshake : BOOLEAN, shutdown : BOOLEAN, read : {R(n) : n \in 0..MaxReads}, plain : Nat,
     out : Seq(Items), posted : Seq(Answers), done : Seq(Answers)]

TypeOK ==
    /\ st \in Streams
    /\ late \subseteq called /\ called \subseteq Handlers
    /\ wire \subseteq 0..MaxWrites
    /\ records \in 0..MaxRecords /\ flights \in 0..MaxFlights /\ early \in BOOLEAN

\* The handlers that members of the stream keep, and all the places a handler is in.
Members ==
    {h \in Handlers : (h = HS /\ st.handshake) \/ (h = SD /\ st.shutdown) \/ h = st.read}
Places(h) ==
    LET at(q) == {i \in DOMAIN q : q[i].of = h}
        markers == {i \in DOMAIN st.out : ~st.out[i].data /\ h = W(st.out[i].write)}
    IN  ({"member"} \X {i \in {0} : h \in Members}) \cup ({"out_queue"} \X markers)
        \cup ({"posted"} \X at(st.posted)) \cup ({"invoked"} \X at(st.done))

\* Every handler is in one place from its call on: kept by the stream, posted
\* or invoked.  None is dropped and none is invoked twice.
HandlersInOnePlace ==
    \A h \in Handlers :
        IF h \in called THEN \E p \in Places(h) : Places(h) = {p} ELSE Places(h) = {}

\* tls_stream.hpp: "the handler runs once the records reached the socket":
\* a write that succeeds, and every write before it, is on the wire.
SuccessIsOnTheWire ==
    \A i \in DOMAIN st.done : st.done[i].of.op = "write" /\ st.done[i].ok
        => \A m \in 1..st.done[i].of.n : m \in wire

\* "writes complete in order": nothing called before async_shutdown overtakes.
WritesCompleteInOrder ==
    \A i, j \in DOMAIN st.done :
        LET a == st.done[i].of
            b == st.done[j].of
        IN  a.op = "write" /\ b.op = "write" /\ i < j /\ b \notin late => a.n < b.n \/ a \in late

\* "Any pending read completes ... before the shutdown handler runs; no user
\* handler is invoked afterwards."
ShutdownIsLast ==
    \A i, j \in DOMAIN st.done : st.done[i].of = SD /\ i < j => st.done[j].of \in late

\* The stream listens to its peer until one of them ends or the user has
\* HighWater unread records: no read is forgotten when reads are paused.
NeverDeaf ==
    st.channel /\ ~st.closed /\ ~st.peerClosed => st.reading \/ st.plain >= HighWater

\* Every call is answered: a write and a shutdown always, a read at the latest when the stream
\* has ended, and a handshake unless the peer's close_notify overtakes it, which stops the
\* reads, and the owner does not close the stream.
CallsAnswered ==
    \A h \in Handlers :
        h \in called /\ (h.op # "read" \/ st.closed)
            ~> Answered(h) \/ (h = HS /\ early /\ ~st.closed)

\* What a write's handler says is so: the records are on the wire, and in the order of the calls.
WritesKept == SuccessIsOnTheWire /\ WritesCompleteInOrder

\* Nobody is forgotten: each handler is in one place until it is invoked, the shutdown's after
\* all others, and the peer is listened to until somebody ends the stream.
NobodyForgotten == HandlersInOnePlace /\ ShutdownIsLast /\ NeverDeaf
=============================================================================
