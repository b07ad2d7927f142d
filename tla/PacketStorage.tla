---------------------------- MODULE PacketStorage ----------------------------
(***************************************************************************)
(* packet_storage of the packet server: an in-memory queue that one writer *)
(* thread moves into the packets table, an index of the queue by receiver, *)
(* a queue of removals, and the calls other threads make into them.        *)
(* Each action is one critical section of queue_mutex_, one atomic_flag    *)
(* operation or one database statement.                                    *)
(***************************************************************************)
EXTENDS Integers, FiniteSets, Sequences, SequencesExt

CONSTANTS
    Packets,        \* one value per call of insert() over all incarnations
    Receivers,
    ReceiverOf,     \* the receiver id a packet carries
    Removers,       \* threads that call packet_handle::mark_as_acked
    Readers,        \* threads that call get_pending_packets
    None,           \* a null shared_ptr<queued_packet>
    MaxRestarts,    \* bound: incarnations of the server process
    MaxDbFailures,  \* bound: statements that throw
    MaxRemovals     \* bound: removals under way at a time

ASSUME ReceiverAssumption == ReceiverOf \in [Packets -> Receivers]
ASSUME NoneAssumption == None \notin Packets
ASSUME BoundAssumption == MaxRestarts \in Nat /\ MaxDbFailures \in Nat /\ MaxRemovals \in Nat

VARIABLES
    \* the object's members
    queue,          \* queue_: the packets not yet taken by the writer
    index,          \* receiver_index_: the packets in it
    removeQueue,    \* remove_queue_
    sequence,       \* sequence_
    closed,         \* close_
    ack,            \* queued_packet::ack, 0 before insert()
    flags,          \* packets whose remove_flag is set
    db,             \* packets table: the packets it holds, keyed by ack
    \* the threads
    writer,         \* where thread_entry is
    hand,           \* its local p
    handAck,        \* its local remove_ack
    remover,        \* per thread: the ack it is about to push, or 0
    reader,         \* per thread: where get_pending_packets is
    closer,         \* where close() is
    handles,        \* packet_handles given out with a weak_ptr to the packet
    rowHandles,     \* packet_handles given out for a row, without one
    \* environment and history
    restarts, dbFailures,
    notified,       \* packets whose notify callback ran
    acked,          \* packets mark_as_acked was called for
    lost            \* packets lost to a failed write or to a crash

calls == <<remover, reader, closer, handles, rowHandles>>
thread == <<writer, hand, handAck>>
history == <<restarts, dbFailures, notified, acked, lost>>
vars == <<queue, index, removeQueue, sequence, closed, ack, flags, db,
          thread, calls, history>>

Idle == [pc |-> "idle", of |-> None, seen |-> {}, before |-> {}, missed |-> {}]

\* Mutation: the constructor does not read max(ack).
LastAck_Zero(rows) == 0

\* packet_storage::packet_storage: sequence_ continues from the rows.
LastAck(rows) == CHOOSE n \in {ack[p] : p \in rows} \cup {0} :
                    \A p \in rows : ack[p] <= n

Fresh ==
    /\ queue' = <<>> /\ index' = {} /\ removeQueue' = <<>>
    /\ sequence' = LastAck(db)
    /\ closed' = FALSE
    /\ flags' = {}
    /\ writer' = "next" /\ hand' = None /\ handAck' = 0
    /\ remover' = [t \in Removers |-> 0]
    /\ reader' = [g \in Readers |-> Idle]
    /\ closer' = "open"
    /\ handles' = {} /\ rowHandles' = {}

Init ==
    /\ queue = <<>> /\ index = {} /\ removeQueue = <<>>
    /\ sequence = 0 /\ closed = FALSE
    /\ ack = [p \in Packets |-> 0]
    /\ flags = {} /\ db = {}
    /\ writer = "next" /\ hand = None /\ handAck = 0
    /\ remover = [t \in Removers |-> 0]
    /\ reader = [g \in Readers |-> Idle]
    /\ closer = "open" /\ handles = {} /\ rowHandles = {}
    /\ restarts = 0 /\ dbFailures = 0
    /\ notified = {} /\ acked = {} /\ lost = {}

Inserted == {p \in Packets : ack[p] # 0}

\* A queued_packet lives while queue_ or the writer's p owns it.
Alive(p) == p \in Range(queue) \/ hand = p

\* cond_.notify_one(): the writer is the only waiter.
NotifyWriter == writer' = IF writer = "wait" THEN "next" ELSE writer

-----------------------------------------------------------------------------
(* Calls from the network threads, while the object is not being closed.   *)

NextAck == sequence + 1

insert(p) ==
    /\ closer = "open"
    /\ ack[p] = 0
    /\ sequence' = sequence + 1
    /\ ack' = [ack EXCEPT ![p] = NextAck]
    /\ index' = index \cup {p}
    /\ queue' = Append(queue, p)
    /\ handles' = handles \cup {p}
    /\ NotifyWriter
    /\ UNCHANGED <<removeQueue, closed, flags, db, hand, handAck,
                   remover, reader, closer, rowHandles, history>>

\* Mutation: a packet that was disposed of already is not removed separately.
Disposed_Never(p) == FALSE

\* What remove_flag.test_and_set() returns.
Disposed(p) == p \in flags

\* remove(), first half: test_and_set on a packet that is still alive; when
\* the flag was clear the packet will not be written and the call is done.
remove(t, p) ==
    /\ closer = "open"
    /\ remover[t] = 0
    /\ Len(removeQueue) < MaxRemovals
    /\ acked' = acked \cup {p}
    /\ \/ /\ p \in handles /\ Alive(p)
          /\ flags' = flags \cup {p}
          /\ remover' = [remover EXCEPT ![t] = IF Disposed(p) THEN ack[p] ELSE 0]
       \/ /\ p \in rowHandles \/ (p \in handles /\ ~Alive(p))
          /\ remover' = [remover EXCEPT ![t] = ack[p]]
          /\ UNCHANGED flags
    /\ UNCHANGED <<queue, index, removeQueue, sequence, closed, ack, db, thread,
                   reader, closer, handles, rowHandles, restarts, dbFailures, notified, lost>>

\* remove(), second half: the ack goes to remove_queue_.
RemovePush(t) ==
    /\ remover[t] # 0
    /\ removeQueue' = Append(removeQueue, remover[t])
    /\ remover' = [remover EXCEPT ![t] = 0]
    /\ NotifyWriter
    /\ UNCHANGED <<queue, index, sequence, closed, ack, flags, db, hand, handAck,
                   reader, closer, handles, rowHandles, history>>

\* Mutation: only the database is consulted.
QueuedFor_Nothing(r) == {}

QueuedFor(r) == {p \in index : ReceiverOf[p] = r}

\* get_pending_packets(), under the mutex: the queued packets of a receiver.
ReadIndex(g, r) ==
    /\ closer = "open"
    /\ reader[g].pc = "idle"
    /\ reader' = [reader EXCEPT ![g] =
            [pc |-> "rows", of |-> r,
             seen |-> QueuedFor(r),
             before |-> {p \in Inserted \ (lost \cup acked) : ReceiverOf[p] = r},
             missed |-> {}]]
    /\ UNCHANGED <<queue, index, removeQueue, sequence, closed, ack, flags, db,
                   thread, remover, closer, handles, rowHandles, history>>

\* get_pending_packets(), without the mutex: the SELECT, merged by ack.  The
\* result is kept to state what a call may miss; the next call forgets it.
ReadRows(g) ==
    LET r == reader[g].of
        rows == {p \in db : ReceiverOf[p] = r}
    IN  /\ reader[g].pc = "rows"
        /\ handles' = handles \cup reader[g].seen
        /\ rowHandles' = rowHandles \cup rows
        /\ reader' = [reader EXCEPT ![g] =
                [Idle EXCEPT !.missed =
                    reader[g].before \ (reader[g].seen \cup rows \cup acked \cup lost)]]
        /\ UNCHANGED <<queue, index, removeQueue, sequence, closed, ack, flags, db,
                       thread, remover, closer, history>>

-----------------------------------------------------------------------------
(* thread_entry.                                                           *)

RemoveFromIndex(p) == index \ {p}

\* next_packet(): one critical section; it may end in cond_.wait.
NextPacket ==
    /\ writer = "next"
    /\ IF ~closed /\ queue = <<>> /\ removeQueue = <<>>
         THEN /\ writer' = "wait" /\ hand' = None /\ handAck' = 0
              /\ UNCHANGED <<queue, index, removeQueue>>
         ELSE /\ writer' = IF closed THEN "exited" ELSE "flag"
              /\ hand' = IF queue = <<>> THEN None ELSE Head(queue)
              /\ queue' = IF queue = <<>> THEN <<>> ELSE Tail(queue)
              /\ index' = RemoveFromIndex(hand')
              /\ handAck' = IF removeQueue = <<>> THEN 0 ELSE Head(removeQueue)
              /\ removeQueue' = IF removeQueue = <<>> THEN <<>> ELSE Tail(removeQueue)
    /\ UNCHANGED <<sequence, closed, ack, flags, db, calls, history>>

SpuriousWakeup ==
    /\ writer = "wait"
    /\ writer' = "next"
    /\ UNCHANGED <<queue, index, removeQueue, sequence, closed, ack, flags, db,
                   hand, handAck, calls, history>>

\* if(p) { write_to_db = !p->remove_flag.test_and_set(); ... }
TestFlag ==
    /\ writer = "flag"
    /\ \/ hand = None    /\ writer' = "remove" /\ UNCHANGED flags
       \/ hand \in flags /\ writer' = "notify" /\ UNCHANGED flags
       \/ hand # None /\ hand \notin flags /\ writer' = "write" /\ flags' = flags \cup {hand}
    /\ UNCHANGED <<queue, index, removeQueue, sequence, closed, ack, db,
                   hand, handAck, calls, history>>

\* The INSERT succeeds on a key that is not in the table.
KeyFree(p) == \A q \in db : ack[q] # ack[p]

WriteToDatabase ==
    /\ writer = "write"
    /\ KeyFree(hand)
    /\ db' = db \cup {hand}
    /\ writer' = "notify"
    /\ UNCHANGED <<queue, index, removeQueue, sequence, closed, ack, flags,
                   hand, handAck, calls, history>>

\* Mutation: the result of write_to_database is not looked at.
AfterFailedWrite_Notify == "notify"

AfterFailedWrite == "remove"

\* It throws on a duplicate key, or for a reason of the database's own.
WriteFails ==
    /\ writer = "write"
    /\ \/ ~KeyFree(hand) /\ UNCHANGED dbFailures
       \/ dbFailures < MaxDbFailures /\ dbFailures' = dbFailures + 1
    /\ lost' = lost \cup {hand}
    /\ writer' = AfterFailedWrite
    /\ UNCHANGED <<queue, index, removeQueue, sequence, closed, ack, flags, db,
                   hand, handAck, calls, restarts, notified, acked>>

Notify ==
    /\ writer = "notify"
    /\ notified' = notified \cup {hand}
    /\ writer' = "remove"
    /\ UNCHANGED <<queue, index, removeQueue, sequence, closed, ack, flags, db,
                   hand, handAck, calls, restarts, dbFailures, acked, lost>>

\* Mutation: the comparison of the DELETE is off.
WithoutAck_UpTo(a) == {p \in db : ack[p] > a}

WithoutAck(a) == {p \in db : ack[p] # a}

RemoveFromDatabase ==
    /\ writer = "remove"
    /\ writer' = "next"
    /\ \/ db' = WithoutAck(handAck) /\ UNCHANGED dbFailures
       \/ /\ handAck # 0 /\ dbFailures < MaxDbFailures
          /\ dbFailures' = dbFailures + 1 /\ UNCHANGED db
    /\ UNCHANGED <<queue, index, removeQueue, sequence, closed, ack, flags,
                   hand, handAck, calls, restarts, notified, acked, lost>>

-----------------------------------------------------------------------------
(* close(), called by the destructor when the network threads have ended.  *)

CloseBegin ==
    /\ closer = "open"
    /\ \A t \in Removers : remover[t] = 0
    /\ \A g \in Readers : reader[g].pc = "idle"
    /\ closed' = TRUE
    /\ closer' = "notify"
    /\ UNCHANGED <<queue, index, removeQueue, sequence, ack, flags, db, thread,
                   remover, reader, handles, rowHandles, history>>

CloseNotify ==
    /\ closer = "notify"
    /\ NotifyWriter
    /\ closer' = "join"
    /\ UNCHANGED <<queue, index, removeQueue, sequence, closed, ack, flags, db,
                   hand, handAck, remover, reader, handles, rowHandles, history>>

CloseJoin ==
    /\ closer = "join"
    /\ writer = "exited"
    /\ closer' = "purge"
    /\ hand' = None /\ handAck' = 0
    /\ UNCHANGED <<queue, index, removeQueue, sequence, closed, ack, flags, db,
                   writer, remover, reader, handles, rowHandles, history>>

\* purge_queues(), one element of queue_ per step, then of remove_queue_; a
\* statement that throws is logged and skipped.
PurgePacket ==
    /\ closer = "purge"
    /\ queue # <<>>
    /\ flags' = flags \cup {Head(queue)}
    /\ queue' = Tail(queue)
    /\ \/ /\ Head(queue) \in flags
          /\ UNCHANGED <<db, lost, dbFailures>>
       \/ /\ Head(queue) \notin flags /\ KeyFree(Head(queue))
          /\ db' = db \cup {Head(queue)}
          /\ UNCHANGED <<lost, dbFailures>>
       \/ /\ Head(queue) \notin flags
          /\ \/ ~KeyFree(Head(queue)) /\ UNCHANGED dbFailures
             \/ dbFailures < MaxDbFailures /\ dbFailures' = dbFailures + 1
          /\ lost' = lost \cup {Head(queue)} /\ UNCHANGED db
    /\ UNCHANGED <<index, removeQueue, sequence, closed, ack, thread, calls,
                   restarts, notified, acked>>

PurgeRemoval ==
    /\ closer = "purge"
    /\ queue = <<>> /\ removeQueue # <<>>
    /\ removeQueue' = Tail(removeQueue)
    /\ \/ db' = WithoutAck(Head(removeQueue)) /\ UNCHANGED dbFailures
       \/ /\ dbFailures < MaxDbFailures /\ dbFailures' = dbFailures + 1
          /\ UNCHANGED db
    /\ UNCHANGED <<queue, index, sequence, closed, ack, flags, thread, calls,
                   restarts, notified, acked, lost>>

CloseEnd ==
    /\ closer = "purge"
    /\ queue = <<>> /\ removeQueue = <<>>
    /\ closer' = "closed"
    /\ UNCHANGED <<queue, index, removeQueue, sequence, closed, ack, flags, db,
                   thread, remover, reader, handles, rowHandles, history>>

\* A new incarnation on the same database: after close(), or after a crash
\* at any point, which loses what is only in memory.
Restart ==
    /\ restarts < MaxRestarts
    /\ restarts' = restarts + 1
    /\ lost' = lost \cup (Inserted \ db)
    /\ Fresh
    /\ UNCHANGED <<ack, db, dbFailures, notified, acked>>

-----------------------------------------------------------------------------
Writer == NextPacket \/ TestFlag \/ WriteToDatabase \/ WriteFails \/ Notify
          \/ RemoveFromDatabase
Closer == CloseBegin \/ CloseNotify \/ CloseJoin \/ PurgePacket \/ PurgeRemoval \/ CloseEnd

Next ==
    \/ \E p \in Packets : insert(p)
    \/ \E t \in Removers : RemovePush(t) \/ \E p \in Packets : remove(t, p)
    \/ \E g \in Readers : ReadRows(g) \/ \E r \in Receivers : ReadIndex(g, r)
    \/ Writer \/ SpuriousWakeup
    \/ Closer
    \/ Restart

Spec == Init /\ [][Next]_vars

\* The scheduler runs every thread that can run: the writer, and a remover
\* between its two steps.  Nobody has to call, to close or to crash.
Fairness ==
    /\ WF_vars(Writer)
    /\ \A t \in Removers : WF_vars(RemovePush(t))

FairSpec == Spec /\ Fairness
-----------------------------------------------------------------------------
(* Properties.                                                             *)

WriterSteps == {"next", "wait", "flag", "write", "notify", "remove", "exited"}
CloserSteps == {"open", "notify", "join", "purge", "closed"}
ReaderStates == [pc : {"idle", "rows"}, of : Receivers \cup {None}, seen : SUBSET Packets,
                 before : SUBSET Packets, missed : SUBSET Packets]

\* Every member, local and history variable has the values the code can give it.
TypeOK ==
    /\ queue \in Seq(Packets) /\ index \subseteq Packets
    /\ removeQueue \in Seq(Nat) /\ sequence \in Nat /\ closed \in BOOLEAN
    /\ ack \in [Packets -> Nat]
    /\ flags \subseteq Packets /\ db \subseteq Packets
    /\ writer \in WriterSteps /\ hand \in Packets \cup {None} /\ handAck \in Nat
    /\ remover \in [Removers -> Nat]
    /\ reader \in [Readers -> ReaderStates]
    /\ closer \in CloserSteps
    /\ handles \subseteq Packets /\ rowHandles \subseteq Packets
    /\ restarts \in 0..MaxRestarts /\ dbFailures \in 0..MaxDbFailures
    /\ notified \subseteq Packets /\ acked \subseteq Packets /\ lost \subseteq Packets

\* A sender that was told "stored" may forget the packet: from then on the
\* packet is in the database until its receiver has acknowledged it, through
\* every failed write, concurrent removal, close, crash and restart.
NotifiedDurable == notified \subseteq db \cup acked

\* The INSERT of the writer never meets its key in the table, whatever rows
\* the earlier incarnations of the server left there.
KeysDoNotCollide == writer = "write" => KeyFree(hand)

\* The packet the writer has taken and not yet dealt with.
InHand == IF writer \in {"flag", "write"} THEN {hand} \ {None} ELSE {}

\* get_pending_packets reads the index and the table at two moments.  Of
\* the packets accepted before the call, unacknowledged and not lost, it
\* misses at most the one the writer holds between the two.
PendingMissesOnlyWritersPacket ==
    [][\A g \in Readers :
        reader[g].pc = "rows" /\ reader'[g].pc = "idle" /\ restarts' = restarts
            => reader'[g].missed \subseteq InHand]_vars

\* Every accepted packet is reported to its sender, unless it is lost or the
\* storage is closed or dies first: no wakeup of the writer is lost.
InsertedIsTold ==
    \A p \in Packets : p \in Inserted ~> (p \in notified \cup lost \/ closed \/ restarts > 0)

\* Every acknowledged packet leaves the database, unless the DELETE fails or
\* the storage is closed or dies first.
AckedRowsGo ==
    \A p \in Packets :
        p \in acked ~> (p \notin db \/ closed \/ restarts > 0 \/ dbFailures > 0)

\* Why NotifiedDurable and KeysDoNotCollide hold, as an inductive invariant.
\* A packet is issued when its handle is out; what is issued or a row has an
\* ack of its own, at most sequence_; an ack under removal is at most
\* sequence_ and belongs to an acknowledged packet; a flag on a packet that
\* the writer has not reached was set by an acknowledgement.
Issued == handles \cup rowHandles
Known == db \cup Issued
AckOfItsOwn ==
    /\ \A p \in Known : 0 < ack[p] /\ ack[p] <= sequence
    /\ \A p, q \in Known : ack[p] = ack[q] => p = q
EverythingIssued ==
    /\ Range(queue) \cup index \cup flags \subseteq Issued
    /\ hand = None \/ hand \in Issued
    /\ \A g \in Readers : reader[g].seen \subseteq Issued
RemovalOfAcked(a) ==
    a <= sequence /\ \A p \in Known : ack[p] = a => p \in acked
OnlyAckedRemoved ==
    /\ \A t \in Removers : RemovalOfAcked(remover[t])
    /\ \A a \in Range(removeQueue) : RemovalOfAcked(a)
    /\ RemovalOfAcked(handAck)
QueueOnce ==
    /\ \A i, j \in 1..Len(queue) : queue[i] = queue[j] => i = j
    /\ hand \notin Range(queue)
    /\ db \cap (Range(queue) \cup InHand) = {}
FlagMeansAcked ==
    /\ Range(queue) \cap flags \subseteq acked
    /\ writer = "flag" => {hand} \cap flags \subseteq acked
WriterHoldsPacket ==
    /\ writer \in {"write", "notify"} => hand # None
    /\ writer = "notify" => hand \in db \cup acked
StorageInv ==
    /\ AckOfItsOwn /\ EverythingIssued /\ OnlyAckedRemoved
    /\ QueueOnce /\ FlagMeansAcked /\ WriterHoldsPacket
    /\ NotifiedDurable

\* The storage implements its abstract specification.
Store == INSTANCE PacketStore WITH
    held <- Range(queue) \cup InHand, rows <- db, told <- notified
StorageImplementsStore == Store!StoreSpec

-----------------------------------------------------------------------------
(* What the header file says and the code does not do.                     *)

\* packet_storage.hpp: "Close the database thread and purge queues to
\* database": after close() every accepted, unacknowledged packet whose
\* write did not fail is a row.
ClosePurgesQueues == closer = "closed" => Inserted \subseteq db \cup acked \cup lost

\* The writer thread settles everything it is given, whatever it races with: accepted packets
\* are reported and acknowledged ones leave the database.
AllSettled == InsertedIsTold /\ AckedRowsGo
=============================================================================
