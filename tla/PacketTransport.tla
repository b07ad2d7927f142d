--------------------------- MODULE PacketTransport ---------------------------
(***************************************************************************)
(* Packet clients and the packet server: a client keeps a packet in its    *)
(* out_packets table until the server says it is stored; the server keeps  *)
(* it until the receiver says it is in its in_packets table.  Connections  *)
(* are FIFO, break at any time and are made again; the threads that call   *)
(* send_packet run beside the connection's strand; the storage is the one  *)
(* PacketStore specifies.                                                  *)
(***************************************************************************)
EXTENDS Integers, FiniteSets, Sequences

CONSTANTS
    Clients,
    Packets,        \* payloads handed to send_packet
    SenderOf, ReceiverOf,
    None,
    MaxConns,       \* bound: connections made by all clients together
    ConnsOf,        \* bound: connections made by each client
    MaxStored,      \* bound: packet_storage::insert calls, one ack number each
    BreaksOf        \* bound: how often the connection of each client breaks, or it dies

ASSUME RouteAssumption ==
    SenderOf \in [Packets -> Clients] /\ ReceiverOf \in [Packets -> Clients]
ASSUME NoneAssumption == None \notin Packets \cup Clients
ASSUME PacketsAssumption == IsFiniteSet(Packets)
ASSUME BoundAssumption ==
    MaxConns \in Nat /\ ConnsOf \in [Clients -> Nat] /\ MaxStored \in Nat
    /\ BreaksOf \in [Clients -> Nat]

Conns == 1..MaxConns
StoredAcks == 1..MaxStored
Keys == 1..Cardinality(Packets)

VARIABLES
    \* client: its tables and members
    out,            \* out_packets: key -> packet or None
    received,       \* packets that were inserted into in_packets
    state,          \* state() of the current connection object
    conn,           \* the current connection, 0 before the first connect()
    helloDone,      \* hello_done
    strand,         \* what the client's strand is in the middle of
    sending,        \* per packet: where its send_packet call is
    keyOf,          \* the key send_packet returned, 0 before
    \* connections: owner, is each side's object alive, bytes under way
    owner, clientUp, serverUp, toServer, toClient,
    \* server
    good,           \* connection_good_ per connection
    current,        \* conns: the last connection of each client that said hello, or 0
    ackMap,         \* ack_map_ per connection
    handling,       \* per connection: the rest of the handler that runs on its strand
    stored,         \* ack -> what was inserted: packet, sender's key and connection
    \* the storage
    held, rows, told, acked,
    \* history
    reused,         \* packets that got a key some other packet had before
    skipped,        \* accepted packets get_pending_packets did not find, on which connection
    breaks          \* breaks and deaths of each client

store == <<held, rows, told, acked>>
clientVars == <<out, received, state, conn, helloDone, strand, sending, keyOf, reused, breaks>>
netVars == <<owner, clientUp, serverUp, toServer, toClient>>
serverVars == <<good, current, ackMap, handling, stored, skipped>>
vars == <<clientVars, netVars, serverVars, store>>

Store == INSTANCE PacketStore WITH Packets <- StoredAcks

\* The numbers of a finite set, from the smallest on.
InOrder(S) == [i \in 1..Cardinality(S) |-> CHOOSE n \in S : Cardinality({m \in S : m <= n}) = i]

Made(c) == Cardinality({k \in DOMAIN owner : owner[k] = c})

Nothing == [do |-> "nothing"]
Hello == [type |-> "hello"]
Transport(p, a) == [type |-> "transport", packet |-> p, ack |-> a]
Ack(a) == [type |-> "ack", ack |-> a]

Init ==
    /\ out = [c \in Clients |-> [k \in Keys |-> None]]
    /\ received = [c \in Clients |-> {}]
    /\ state = [c \in Clients |-> "not_connected"]
    /\ conn = [c \in Clients |-> 0]
    /\ helloDone = [c \in Clients |-> FALSE]
    /\ strand = [c \in Clients |-> "idle"]
    /\ sending = [p \in Packets |-> "no"]
    /\ keyOf = [p \in Packets |-> 0]
    /\ owner = <<>>
    /\ clientUp = [k \in Conns |-> FALSE] /\ serverUp = [k \in Conns |-> FALSE]
    /\ toServer = [k \in Conns |-> <<>>] /\ toClient = [k \in Conns |-> <<>>]
    /\ good = [k \in Conns |-> FALSE]
    /\ current = [c \in Clients |-> 0]
    /\ ackMap = [k \in Conns |-> {}]
    /\ handling = [k \in Conns |-> Nothing]
    /\ stored = <<>>
    /\ reused = {} /\ skipped = {} /\ breaks = [c \in Clients |-> 0]
    /\ Store!StoreInit

-----------------------------------------------------------------------------
(* packet_client: send_packet, on the caller's thread.                     *)

\* out_packets::insert: an INTEGER PRIMARY KEY is one more than the largest
\* key in the table, 1 in an empty one.
NextKey(table) ==
    LET used == {k \in Keys : table[k] # None}
    IN  CHOOSE k \in Keys : k - 1 \in used \cup {0} /\ \A u \in used : u < k

\* encrypted_connection::send queues the message on the current connection
\* object; one that is closed never sends it.
ClientSend(c, m) ==
    toServer' = IF conn[c] # 0 /\ clientUp[conn[c]]
                THEN [toServer EXCEPT ![conn[c]] = Append(@, m)] ELSE toServer

\* The row is written first.
send_packet(p) ==
    LET c == SenderOf[p]
        k == NextKey(out[c])
    IN  /\ sending[p] = "no"
        /\ out' = [out EXCEPT ![c][k] = p]
        /\ keyOf' = [keyOf EXCEPT ![p] = k]
        /\ reused' = IF \E q \in Packets : SenderOf[q] = c /\ keyOf[q] = k
                     THEN reused \cup {p} ELSE reused
        /\ sending' = [sending EXCEPT ![p] = "check"]
        /\ UNCHANGED <<received, state, conn, helloDone, strand, breaks, netVars, serverVars, store>>

\* if(state() == connected && hello_done)
SendCheck(p) ==
    LET c == SenderOf[p]
    IN  /\ sending[p] = "check"
        /\ sending' = [sending EXCEPT ![p] =
                IF state[c] = "connected" /\ helloDone[c] THEN "send" ELSE "done"]
        /\ UNCHANGED <<out, received, state, conn, helloDone, strand, keyOf, reused, breaks,
                       netVars, serverVars, store>>

SendNow(p) ==
    /\ sending[p] = "send"
    /\ ClientSend(SenderOf[p], Transport(p, keyOf[p]))
    /\ sending' = [sending EXCEPT ![p] = "done"]
    /\ UNCHANGED <<out, received, state, conn, helloDone, strand, keyOf, reused, breaks,
                   owner, clientUp, serverUp, toClient, serverVars, store>>

-----------------------------------------------------------------------------
(* packet_client: connecting, and the handlers on the connection's strand. *)

\* packet_client::connect: only from not_connected; a new connection object.
connect(c) ==
    /\ state[c] = "not_connected"
    /\ strand[c] = "idle"
    /\ Len(owner) < MaxConns /\ Made(c) < ConnsOf[c]
    /\ owner' = Append(owner, c)
    /\ conn' = [conn EXCEPT ![c] = Len(owner) + 1]
    /\ clientUp' = [clientUp EXCEPT ![Len(owner) + 1] = TRUE]
    /\ state' = [state EXCEPT ![c] = "connecting"]
    /\ UNCHANGED <<out, received, helloDone, strand, sending, keyOf, reused, breaks,
                   serverUp, toServer, toClient, serverVars, store>>

\* encrypted_connection_impl::become_connected: state_ first, then
\* on_connected.  The server's side is connected by then.
BecomeConnected(c) ==
    /\ state[c] = "connecting"
    /\ clientUp[conn[c]]
    /\ state' = [state EXCEPT ![c] = "connected"]
    /\ strand' = [strand EXCEPT ![c] = "on_connected"]
    /\ serverUp' = [serverUp EXCEPT ![conn[c]] = TRUE]
    /\ UNCHANGED <<out, received, conn, helloDone, sending, keyOf, reused, breaks,
                   owner, clientUp, toServer, toClient, serverVars, store>>

on_connected(c) ==
    /\ strand[c] = "on_connected"
    /\ helloDone' = [helloDone EXCEPT ![c] = FALSE]
    /\ ClientSend(c, Hello)
    /\ strand' = [strand EXCEPT ![c] = "idle"]
    /\ UNCHANGED <<out, received, state, conn, sending, keyOf, reused, breaks,
                   owner, clientUp, serverUp, toClient, serverVars, store>>

\* The next message of the current connection, when the strand is free.
ClientNext(c, type) ==
    LET k == conn[c] IN
    /\ strand[c] = "idle" /\ state[c] = "connected"
    /\ toClient[k] # <<>> /\ Head(toClient[k]).type = type
    /\ toClient' = [toClient EXCEPT ![k] = Tail(@)]
ClientMessage(c) == Head(toClient[conn[c]])

\* Mutation: the flag is not set.
HandleHello_NoFlag(c) ==
    /\ ClientNext(c, "hello")
    /\ strand' = [strand EXCEPT ![c] = "resend"]
    /\ UNCHANGED <<out, received, state, conn, helloDone, sending, keyOf, reused, breaks,
                   owner, clientUp, serverUp, toServer, serverVars, store>>

\* handle(hello): the flag, then the resend of every row.
HandleHello(c) ==
    /\ ClientNext(c, "hello")
    /\ helloDone' = [helloDone EXCEPT ![c] = TRUE]
    /\ strand' = [strand EXCEPT ![c] = "resend"]
    /\ UNCHANGED <<out, received, state, conn, sending, keyOf, reused, breaks,
                   owner, clientUp, serverUp, toServer, serverVars, store>>

PendingOut(c) ==
    LET used == {k \in Keys : out[c][k] # None}
        order == InOrder(used)
    IN  [i \in DOMAIN order |-> Transport(out[c][order[i]], order[i])]

Resend(c) ==
    /\ strand[c] = "resend"
    /\ toServer' = IF clientUp[conn[c]]
                   THEN [toServer EXCEPT ![conn[c]] = @ \o PendingOut(c)] ELSE toServer
    /\ strand' = [strand EXCEPT ![c] = "idle"]
    /\ UNCHANGED <<out, received, state, conn, helloDone, sending, keyOf, reused, breaks,
                   owner, clientUp, serverUp, toClient, serverVars, store>>

\* Mutation: the packet is acknowledged, but not written to in_packets.
InsertIn_Never(c, p) == received[c]

InsertIn(c, p) == received[c] \cup {p}

\* handle(transport_packet): into the in_packets table, then the ack.
HandleTransport(c) ==
    /\ ClientNext(c, "transport")
    /\ received' = [received EXCEPT ![c] = InsertIn(c, ClientMessage(c).packet)]
    /\ ClientSend(c, Ack(ClientMessage(c).ack))
    /\ UNCHANGED <<out, state, conn, helloDone, strand, sending, keyOf, reused, breaks,
                   owner, clientUp, serverUp, serverVars, store>>

\* handle(ack_packet): the row with that key goes.
HandleAck(c) ==
    /\ ClientNext(c, "ack")
    /\ out' = [out EXCEPT ![c][ClientMessage(c).ack] = None]
    /\ UNCHANGED <<received, state, conn, helloDone, strand, sending, keyOf, reused, breaks,
                   owner, clientUp, serverUp, toServer, serverVars, store>>

\* The connection object ends between two handlers: what is under way to the
\* client is lost, what is under way to the server may still arrive.
Disconnected(c) ==
    LET k == conn[c] IN
    /\ state[c] # "not_connected"
    /\ strand[c] = "idle"
    /\ state' = [state EXCEPT ![c] = "not_connected"]
    /\ clientUp' = [clientUp EXCEPT ![k] = FALSE]
    /\ toClient' = [toClient EXCEPT ![k] = <<>>]
    /\ UNCHANGED <<out, received, conn, helloDone, strand, sending, keyOf, reused,
                   owner, serverUp, toServer, serverVars, store>>

Break(c) == breaks[c] < BreaksOf[c] /\ breaks' = [breaks EXCEPT ![c] = @ + 1]

\* The connection fails, or close() is called.
Disconnect(c) == Break(c) /\ Disconnected(c)

\* The client's process dies at any point and is started again: its tables
\* are what it has left.
Crash(c) ==
    /\ Break(c)
    /\ state' = [state EXCEPT ![c] = "not_connected"]
    /\ helloDone' = [helloDone EXCEPT ![c] = FALSE]
    /\ strand' = [strand EXCEPT ![c] = "idle"]
    /\ sending' = [p \in Packets |->
            IF SenderOf[p] = c /\ sending[p] # "no" THEN "done" ELSE sending[p]]
    /\ clientUp' = [k \in Conns |-> clientUp[k] /\ k # conn[c]]
    /\ toClient' = [k \in Conns |-> IF k = conn[c] THEN <<>> ELSE toClient[k]]
    /\ UNCHANGED <<out, received, conn, keyOf, reused, owner, serverUp, toServer,
                   serverVars, store>>

-----------------------------------------------------------------------------
(* packet_server and its connections: one strand per connection.           *)

Done(k) == handling' = [handling EXCEPT ![k] = Nothing]

\* connection::send: what a client that is gone would have got is lost.
ServerSend(k, ms) ==
    toClient' = IF clientUp[k] THEN [toClient EXCEPT ![k] = @ \o ms] ELSE toClient

ServerNext(k, type) ==
    /\ serverUp[k] /\ handling[k] = Nothing
    /\ toServer[k] # <<>> /\ Head(toServer[k]).type = type
    /\ toServer' = [toServer EXCEPT ![k] = Tail(@)]
ServerMessage(k) == Head(toServer[k])

\* connection::on_connect: answers, and registers the connection.
ServerHello(k) ==
    /\ ServerNext(k, "hello")
    /\ ServerSend(k, <<Hello>>)
    /\ current' = [current EXCEPT ![owner[k]] = k]
    /\ handling' = [handling EXCEPT ![k] = [do |-> "pending"]]
    /\ UNCHANGED <<clientVars, owner, clientUp, serverUp, good, ackMap, stored, skipped, store>>

Delivery(a) == Transport(stored[a].packet, a)

\* Mutation: the handle is not put into ack_map_.
Remember_Never(k, as) == ackMap

Remember(k, as) == [ackMap EXCEPT ![k] = @ \cup as]

\* Then sends what the storage has for the client; of what is not yet a row
\* get_pending_packets may miss one packet.
ServerPending(k) ==
    LET mine(S) == {a \in S : ReceiverOf[stored[a].packet] = owner[k]}
    IN  /\ handling[k].do = "pending"
        /\ \E missed \in SUBSET mine(held) :
            LET found == mine(held \cup rows) \ missed
                order == InOrder(found)
            IN  /\ Cardinality(missed) <= 1
                /\ skipped' = skipped \cup {<<a, k>> : a \in missed}
                /\ ackMap' = Remember(k, found)
                /\ ServerSend(k, [i \in DOMAIN order |-> Delivery(order[i])])
        /\ good' = [good EXCEPT ![k] = TRUE]
        /\ Done(k)
        /\ UNCHANGED <<clientVars, owner, clientUp, serverUp, toServer, current, stored, store>>

\* terminate(), or a failure: the object closes and, with the last reference
\* to it, goes.
Terminated(k) ==
    /\ serverUp' = [serverUp EXCEPT ![k] = FALSE]
    /\ toServer' = [toServer EXCEPT ![k] = <<>>]
    /\ good' = [good EXCEPT ![k] = FALSE]
    /\ ackMap' = [ackMap EXCEPT ![k] = {}]
    /\ UNCHANGED <<out, received, state, conn, helloDone, strand, sending, keyOf, reused,
                   owner, clientUp, toClient, current, handling, stored, skipped, store>>

Terminate(k) == Terminated(k) /\ breaks' = breaks

\* A packet before the client's hello ends the connection.
ServerRefuse(k) ==
    /\ serverUp[k] /\ handling[k] = Nothing /\ ~good[k]
    /\ toServer[k] # <<>> /\ Head(toServer[k]).type # "hello"
    /\ Terminate(k)

\* connection::handle(transport_packet): the packet is signed by the key of the connection.
\* (send_packet signs with the one key a client has, which its handshake uses too.)
Genuine(k, m) == SenderOf[m.packet] = owner[k]

\* impl::transport_packet: into the storage, then to the receiver.
ServerTransport(k) ==
    LET m == ServerMessage(k)
        a == Len(stored) + 1
    IN  /\ ServerNext(k, "transport")
        /\ good[k] /\ Genuine(k, m)
        /\ a <= MaxStored
        /\ stored' = Append(stored, [packet |-> m.packet, key |-> m.ack, from |-> k])
        /\ Store!Accept(a)
        /\ handling' = [handling EXCEPT ![k] = [do |-> "route", ack |-> a]]
        /\ UNCHANGED <<clientVars, owner, clientUp, serverUp, toClient, good, current, ackMap, skipped>>

ServerRoute(k) ==
    LET a == handling[k].ack
        r == current[ReceiverOf[stored[a].packet]]
    IN  /\ handling[k].do = "route"
        /\ IF r # 0 /\ serverUp[r]
             THEN /\ ackMap' = Remember(r, {a})
                  /\ ServerSend(r, <<Delivery(a)>>)
             ELSE UNCHANGED <<ackMap, toClient>>
        /\ Done(k)
        /\ UNCHANGED <<clientVars, owner, clientUp, serverUp, toServer, good, current,
                       stored, skipped, store>>

\* connection::handle(ack_packet): a known ack is passed to the storage.
ServerAck(k) ==
    /\ ServerNext(k, "ack")
    /\ good[k]
    /\ IF ServerMessage(k).ack \in ackMap[k]
         THEN Store!Acknowledge(ServerMessage(k).ack)
         ELSE UNCHANGED store
    /\ UNCHANGED <<clientVars, owner, clientUp, serverUp, toClient, serverVars>>

\* The server sees that the client is gone, and drops the connection.
ServerDisconnect(k) ==
    /\ serverUp[k] /\ ~clientUp[k]
    /\ handling[k] = Nothing
    /\ Terminate(k)

\* The server sees the failure first.
ServerDrop(k) ==
    /\ serverUp[k] /\ clientUp[k]
    /\ handling[k] = Nothing
    /\ Break(owner[k]) /\ Terminated(k)

\* The client sees that the server dropped the connection.
ServerGone(c) ==
    /\ state[c] = "connected" /\ ~serverUp[conn[c]]
    /\ Disconnected(c) /\ breaks' = breaks

-----------------------------------------------------------------------------
(* The storage's thread.                                                   *)

StorageWrite(a) ==
    /\ Store!Store(a)
    /\ UNCHANGED <<clientVars, netVars, serverVars>>

StorageLose(a) ==
    /\ Store!Forget({a})
    /\ UNCHANGED <<clientVars, netVars, serverVars>>

\* Mutation: the packet is acknowledged with the server's number.
KeyToAck_Server(a) == a

KeyToAck(a) == stored[a].key

\* notify: do_ack on the connection the packet came from, on the sender's
\* current one when that object is gone.
StorageTell(a) ==
    LET from == stored[a].from
        other == current[owner[from]]
        to == IF serverUp[from] THEN from ELSE other
    IN  /\ a \notin told
        /\ Store!Tell(a)
        /\ IF to # 0 /\ serverUp[to] THEN ServerSend(to, <<Ack(KeyToAck(a))>>)
           ELSE UNCHANGED toClient
        /\ UNCHANGED <<clientVars, owner, clientUp, serverUp, toServer, serverVars>>

StorageErase(a) ==
    /\ Store!Erase(a)
    /\ UNCHANGED <<clientVars, netVars, serverVars>>

-----------------------------------------------------------------------------
Strand(c) == on_connected(c) \/ BecomeConnected(c) \/ HandleHello(c) \/ Resend(c)
             \/ HandleTransport(c) \/ HandleAck(c) \/ ServerGone(c)
Sender(p) == SendCheck(p) \/ SendNow(p)
Server(k) == ServerHello(k) \/ ServerPending(k) \/ ServerRefuse(k) \/ ServerTransport(k)
             \/ ServerRoute(k) \/ ServerAck(k) \/ ServerDisconnect(k)
StorageThread(a) == StorageWrite(a) \/ StorageTell(a) \/ StorageErase(a)

Next ==
    \/ \E p \in Packets : send_packet(p) \/ Sender(p)
    \/ \E c \in Clients : connect(c) \/ Strand(c) \/ Disconnect(c) \/ Crash(c)
    \/ \E k \in 1..Len(owner) : Server(k) \/ ServerDrop(k)
    \/ \E a \in 1..Len(stored) : StorageThread(a) \/ StorageLose(a)

Spec == Init /\ [][Next]_vars

\* Every strand and thread that has something to do is run in the end.
Scheduling ==
    /\ \A c \in Clients : WF_vars(Strand(c))
    /\ \A p \in Packets : WF_vars(Sender(p))
    /\ \A k \in Conns : WF_vars(k \in 1..Len(owner) /\ Server(k))
    /\ \A a \in StoredAcks : WF_vars(a \in 1..Len(stored) /\ StorageThread(a))

\* The application connects again after a disconnect.
FairSpec == Spec /\ Scheduling /\ \A c \in Clients : WF_vars(connect(c))

-----------------------------------------------------------------------------
(* Properties.                                                             *)

ToServerMessages == {Hello} \cup {Transport(p, k) : p \in Packets, k \in Keys}
                    \cup {Ack(a) : a \in StoredAcks}
ToClientMessages == {Hello} \cup {Transport(p, a) : p \in Packets, a \in StoredAcks}
                    \cup {Ack(k) : k \in Keys}

Handling == {Nothing, [do |-> "pending"]} \cup {[do |-> "route", ack |-> a] : a \in DOMAIN stored}
StoredPackets == [packet : Packets, key : Keys, from : Conns]

TypeOK ==
    /\ out \in [Clients -> [Keys -> Packets \cup {None}]]
    /\ received \in [Clients -> SUBSET Packets]
    /\ state \in [Clients -> {"not_connected", "connecting", "connected"}]
    /\ conn \in [Clients -> Conns \cup {0}]
    /\ helloDone \in [Clients -> BOOLEAN]
    /\ strand \in [Clients -> {"idle", "on_connected", "resend"}]
    /\ sending \in [Packets -> {"no", "check", "send", "done"}]
    /\ keyOf \in [Packets -> Keys \cup {0}]
    /\ owner \in Seq(Clients) /\ Len(owner) <= MaxConns
    /\ clientUp \in [Conns -> BOOLEAN] /\ serverUp \in [Conns -> BOOLEAN]
    /\ toServer \in [Conns -> Seq(ToServerMessages)]
    /\ toClient \in [Conns -> Seq(ToClientMessages)]
    /\ good \in [Conns -> BOOLEAN]
    /\ current \in [Clients -> Conns \cup {0}]
    /\ ackMap \in [Conns -> SUBSET StoredAcks]
    /\ handling \in [Conns -> Handling]
    /\ stored \in Seq(StoredPackets) /\ Len(stored) <= MaxStored
    /\ reused \subseteq Packets /\ skipped \subseteq StoredAcks \X Conns
    /\ breaks \in [Clients -> Nat]
    /\ held \cup rows \cup told \cup acked \subseteq DOMAIN stored

InOut(p) == p \in {out[SenderOf[p]][k] : k \in Keys}
Instances(p) == {a \in DOMAIN stored : stored[a].packet = p}

\* send_packet has returned or will; the packet is in the sender's table, or
\* with the server, or its receiver acknowledged it.
Accounted(p) == InOut(p) \/ Instances(p) \cap (held \cup rows \cup acked) # {}

\* A packet whose key was never in use before cannot be lost, whatever
\* breaks: the row goes only when the server's storage has the packet.  (Of
\* one that got a used key see SentIsNeverLost.)
FreshKeyIsNeverLost ==
    \A p \in Packets : sending[p] # "no" => Accounted(p) \/ p \in reused

\* The server drops a packet only when it is in the receiver's table.
AckedMeansReceived ==
    \A a \in acked : LET p == stored[a].packet IN p \in received[ReceiverOf[p]]

Lost(a) == a \notin held \cup rows \cup told \cup acked
\* get_pending_packets missed the packet for the receiver's present connection.
Skipped(a, c) == <<a, conn[c]>> \in skipped
\* The hello of an earlier connection was handled after that of the present one.
Overtaken(c) == good[conn[c]] /\ current[c] # conn[c]
Online(c) == state[c] = "connected" /\ good[conn[c]]

\* send_packet against handle(hello): the row is written before hello_done is
\* read, and hello_done set before the rows are read.  So once connections have
\* ceased to break, no packet stays in the table, not even one that was sent
\* too early because hello_done still was that of the connection before; unless
\* the server fails to write it.
SentLeavesTable ==
    \A p \in Packets :
        <>[](InOut(p) => sending[p] = "no" \/ \E a \in Instances(p) : Lost(a))

\* transport_packet against on_connect: the packet is stored before the
\* receiver is looked up, and the receiver registered before the storage is
\* read.  So once connections have ceased to break, every stored packet whose
\* receiver connects is in the receiver's table, except one that get_pending_packets missed for the
\* connection the receiver has now, or while the server takes the receiver's
\* earlier connection for its present one (see SentIfOnline).
StoredReachesReceiver ==
    \A a \in StoredAcks :
        <>[](a \in DOMAIN stored =>
                LET c == ReceiverOf[stored[a].packet]
                IN  conn[c] # 0 => a \in acked \/ Lost(a) \/ Skipped(a, c) \/ Overtaken(c))

-----------------------------------------------------------------------------
(* What the headers say and the code does not do.                          *)

\* out_packets.hpp: "insert transport packet to the database so that we can
\* ensure its transportation".
SentIsNeverLost == \A p \in Packets : sending[p] # "no" => Accounted(p)
\* packet_server.cpp, of a packet just stored: "send if receivers online".  A
\* receiver that is connected, and whose hello was answered, has the packet in
\* the end.
SentIfOnline ==
    \A a \in StoredAcks :
        <>[](a \in DOMAIN stored =>
                LET c == ReceiverOf[stored[a].packet]
                IN  Online(c) => a \in acked \/ Lost(a) \/ Skipped(a, c))
=============================================================================
