------------------------------ MODULE InPackets ------------------------------
(***************************************************************************)
(* The table of received packets of a packet client (client/               *)
(* in_packets.cpp) and the handles to its rows that the application gets   *)
(* with on_packet: from the connection when a packet arrives, and for all  *)
(* rows again from emit_pending_packets.  The process may die at any time; *)
(* the table survives.                                                     *)
(***************************************************************************)
EXTENDS Integers, Sequences, FiniteSets, FiniteSetsExt

CONSTANTS
    InRowKeys,       \* row keys, 1 .. n
    MaxArrivals,     \* bound: packets that arrive
    MaxInHandles,    \* bound: handles not yet dropped
    MaxInCrashes     \* bound: restarts of the process

ASSUME InRowAssumption == IsFiniteSet(InRowKeys) /\ InRowKeys = 1..Cardinality(InRowKeys)

VARIABLES
    inRows,      \* key -> [packet, userdata] of the rows there are
    emitted,     \* on_packet events not delivered: handles [key, packet]
    held,        \* handles the application has
    arrived,     \* packets that arrived, numbered in order; each was acknowledged
    noted,       \* packet -> the data the application attached last
    seen,        \* packets the application has marked
    again,       \* a handle of a packet already marked was used
    inCrashes

inVars == <<inRows, emitted, held, arrived, noted, seen, again, inCrashes>>

InPacketsInit ==
    /\ inRows = <<>> /\ emitted = <<>> /\ held = {} /\ arrived = 0
    /\ noted = <<>> /\ seen = {} /\ again = FALSE /\ inCrashes = 0

\* INTEGER PRIMARY KEY (external): one more than the largest key there is.
row_key == IF DOMAIN inRows = {} THEN 1 ELSE Max(DOMAIN inRows) + 1

Dropped(rows, key) == [k \in DOMAIN rows \ {key} |-> rows[k]]

\* handle(transport_packet): the row is inserted and its handle emitted, then the ack is sent.
insert ==
    /\ arrived < MaxArrivals /\ row_key \in InRowKeys
    /\ Len(emitted) + Cardinality(held) < MaxInHandles
    /\ arrived' = arrived + 1
    /\ inRows' = [k \in DOMAIN inRows \cup {row_key} |->
                     IF k = row_key THEN [packet |-> arrived + 1, userdata |-> 0] ELSE inRows[k]]
    /\ emitted' = Append(emitted, [key |-> row_key, packet |-> arrived + 1])
    /\ noted' = Append(noted, 0)
    /\ UNCHANGED <<held, seen, again, inCrashes>>

\* get_pending_packets: a handle for each row, with its key; changed: with its place in the result.
InOrder(k) == Cardinality({j \in DOMAIN inRows : j <= k})
pending_handle_Place(k) == [key |-> InOrder(k), packet |-> inRows[k].packet]
pending_handle(k) == [key |-> k, packet |-> inRows[k].packet]

emit_pending_packets ==
    /\ inRows # <<>> /\ Len(emitted) + Cardinality(held) + Cardinality(DOMAIN inRows) <= MaxInHandles
    /\ emitted' = emitted \o [i \in 1 .. Cardinality(DOMAIN inRows) |->
                                 pending_handle(CHOOSE k \in DOMAIN inRows : InOrder(k) = i)]
    /\ UNCHANGED <<inRows, held, arrived, noted, seen, again, inCrashes>>

\* The event loop calls the application's handler; the application drops a handle when it likes.
on_packet ==
    /\ emitted # <<>>
    /\ held' = held \cup {Head(emitted)} /\ emitted' = Tail(emitted)
    /\ UNCHANGED <<inRows, arrived, noted, seen, again, inCrashes>>

drop_handle(h) ==
    /\ held' = held \ {h}
    /\ UNCHANGED <<inRows, emitted, arrived, noted, seen, again, inCrashes>>

\* mark_seen: the row with the handle's key goes.
mark_seen(h) ==
    /\ inRows' = Dropped(inRows, h.key)
    /\ seen' = seen \cup {h.packet}
    /\ again' = (again \/ h.packet \in seen)
    /\ UNCHANGED <<emitted, held, arrived, noted, inCrashes>>

\* set_data updates the row with the handle's key, if there is one; data reads it.
set_data(h, d) ==
    /\ inRows' = [k \in DOMAIN inRows |->
                     IF k = h.key THEN [inRows[k] EXCEPT !.userdata = d] ELSE inRows[k]]
    /\ noted' = [noted EXCEPT ![h.packet] = d]
    /\ again' = (again \/ h.packet \in seen)
    /\ UNCHANGED <<emitted, held, arrived, seen, inCrashes>>

data_impl(h) == IF h.key \in DOMAIN inRows THEN inRows[h.key].userdata ELSE 0

InCrash ==
    /\ inCrashes < MaxInCrashes /\ inCrashes' = inCrashes + 1
    /\ emitted' = <<>> /\ held' = {}
    /\ UNCHANGED <<inRows, arrived, noted, seen, again>>

InPacketsNext ==
    \/ insert \/ emit_pending_packets \/ on_packet \/ InCrash
    \/ \E h \in held : drop_handle(h) \/ mark_seen(h) \/ set_data(h, 1)

\* A packet that was acknowledged stays in the table, once, with the data the application attached to
\* it and a handle of it that finds that data, until the application marks it, whatever restarts and
\* however often it is emitted again (in_packets.hpp: "so that we can ensure it is handled"); provided
\* the application leaves the other handles of a packet alone once it has marked it: a key is given
\* again, and such a handle then stands for a row of another packet.
UnseenKept ==
    ~again =>
        /\ \A p \in 1 .. arrived :
              Cardinality({k \in DOMAIN inRows : inRows[k].packet = p}) = IF p \in seen THEN 0 ELSE 1
        /\ \A h \in held : h.packet \notin seen => data_impl(h) = noted[h.packet]
        /\ \A k \in DOMAIN inRows : inRows[k].userdata = noted[inRows[k].packet]
=============================================================================
