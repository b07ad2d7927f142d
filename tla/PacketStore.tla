----------------------------- MODULE PacketStore -----------------------------
(***************************************************************************)
(* What the packet server's storage promises its two users: the sender of  *)
(* a packet, who may forget it once it is told so, and its receiver, who   *)
(* must get it until it has acknowledged it.  PacketStorage (the thread,   *)
(* its queues and the database) implements this module.                    *)
(***************************************************************************)
CONSTANT Packets        \* every call of packet_storage::insert that is made

VARIABLES
    held,       \* accepted, kept in memory only
    rows,       \* accepted, in the database
    told,       \* packets whose sender was told they are stored
    acked       \* packets whose receiver acknowledged them

svars == <<held, rows, told, acked>>

StoreInit ==
    /\ held = {} /\ rows = {} /\ told = {} /\ acked = {}

Accept(p) ==
    /\ p \notin held \cup rows \cup told
    /\ held' = held \cup {p}
    /\ UNCHANGED <<rows, told, acked>>

\* An acknowledgement is never taken back.
Acknowledge(p) ==
    /\ acked' = acked \cup {p}
    /\ UNCHANGED <<held, rows, told>>

Store(p) ==
    /\ p \in held
    /\ held' = held \ {p}
    /\ rows' = rows \cup {p}
    /\ UNCHANGED <<told, acked>>

\* Memory may lose packets (a failed write, a crash), never one whose sender
\* was told: those are rows, or need no storage any more.
Forget(P) ==
    /\ P \subseteq held
    /\ held' = held \ P
    /\ UNCHANGED <<rows, told, acked>>

Tell(p) ==
    /\ p \in rows \cup acked
    /\ told' = told \cup {p}
    /\ UNCHANGED <<held, rows, acked>>

\* A row leaves the database only when the receiver has acknowledged it.
Erase(p) ==
    /\ p \in rows \cap acked
    /\ rows' = rows \ {p}
    /\ UNCHANGED <<held, told, acked>>

StoreNext ==
    \/ \E p \in Packets : Accept(p) \/ Acknowledge(p) \/ Store(p) \/ Tell(p) \/ Erase(p)
    \/ \E P \in SUBSET held : Forget(P)

StoreSpec == StoreInit /\ [][StoreNext]_svars
=============================================================================
