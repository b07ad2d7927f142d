------------------------- MODULE PacketStorageProofs -------------------------
(***************************************************************************)
(* What PacketStorage keeps for any number of packets, receivers, threads, *)
(* restarts and database failures.                                         *)
(***************************************************************************)
EXTENDS PacketStorage, WellFoundedInduction, TLAPS

-----------------------------------------------------------------------------
(* Sequences seen through the set of their elements.                       *)

\* A push_back adds one element.
LEMMA RangeOfAppend ==
    ASSUME NEW S, NEW s \in Seq(S), NEW e \in S
    PROVE  /\ Append(s, e) \in Seq(S)
           /\ Range(Append(s, e)) = Range(s) \cup {e}
<1>1. Append(s, e) \in Seq(S) /\ Len(Append(s, e)) = Len(s) + 1
           /\ Append(s, e)[Len(s) + 1] = e
           /\ \A i \in 1..Len(s) : Append(s, e)[i] = s[i]
  OBVIOUS
<1>2. Range(Append(s, e)) \subseteq Range(s) \cup {e}
  BY <1>1 DEF Range
<1>3. Range(s) \cup {e} \subseteq Range(Append(s, e))
  <2>1. \A i \in 1..Len(s) : i \in 1..Len(s) + 1
    OBVIOUS
  <2> QED BY <1>1, <2>1 DEF Range
<1> QED BY <1>1, <1>2, <1>3

\* A pop_front takes one element.
LEMMA RangeOfTail ==
    ASSUME NEW S, NEW s \in Seq(S), s # <<>>
    PROVE  /\ Head(s) \in S /\ Tail(s) \in Seq(S)
           /\ Range(s) = Range(Tail(s)) \cup {Head(s)}
<1>1. Head(s) = s[1] /\ Head(s) \in S /\ Tail(s) \in Seq(S) /\ Len(s) \in Nat /\ Len(s) > 0
           /\ Len(Tail(s)) = Len(s) - 1
           /\ \A i \in 1..(Len(s) - 1) : Tail(s)[i] = s[i + 1]
  OBVIOUS
<1>2. Range(Tail(s)) \cup {Head(s)} \subseteq Range(s)
  <2>1. \A i \in 1..Len(Tail(s)) : i + 1 \in 1..Len(s)
    BY <1>1
  <2> QED BY <1>1, <2>1 DEF Range
<1>3. Range(s) \subseteq Range(Tail(s)) \cup {Head(s)}
  <2> SUFFICES ASSUME NEW i \in 1..Len(s)
               PROVE  s[i] \in Range(Tail(s)) \cup {Head(s)}
    BY <1>1 DEF Range
  <2>1. CASE i = 1
    BY <1>1, <2>1
  <2>2. CASE i # 1
    <3>1. i - 1 \in 1..Len(Tail(s)) /\ Tail(s)[i - 1] = s[i]
      BY <1>1, <2>2
    <3>2. DOMAIN Tail(s) = 1..Len(Tail(s))
      BY <1>1
    <3>3. Tail(s)[i - 1] \in Range(Tail(s))
      BY <3>1, <3>2 DEF Range
    <3> QED BY <3>1, <3>3
  <2> QED BY <2>1, <2>2
<1> QED BY <1>1, <1>2, <1>3

\* Popping a queue without duplicates takes its front out of it.
LEMMA DistinctTail ==
    ASSUME NEW S, NEW s \in Seq(S), s # <<>>,
           \A i, j \in 1..Len(s) : s[i] = s[j] => i = j
    PROVE  /\ Head(s) \notin Range(Tail(s))
           /\ \A i, j \in 1..Len(Tail(s)) : Tail(s)[i] = Tail(s)[j] => i = j
<1>1. Head(s) = s[1] /\ Len(s) \in Nat /\ Len(s) > 0 /\ Tail(s) \in Seq(S)
           /\ Len(Tail(s)) = Len(s) - 1
           /\ \A i \in 1..(Len(s) - 1) : Tail(s)[i] = s[i + 1] /\ i + 1 \in 1..Len(s)
  OBVIOUS
<1>2. Head(s) \notin Range(Tail(s))
  <2> SUFFICES ASSUME NEW i \in 1..Len(Tail(s)), Tail(s)[i] = Head(s) PROVE FALSE
    BY <1>1 DEF Range
  <2> QED BY <1>1
<1>3. ASSUME NEW i \in 1..Len(Tail(s)), NEW j \in 1..Len(Tail(s)), Tail(s)[i] = Tail(s)[j]
      PROVE  i = j
  <2>1. s[i + 1] = s[j + 1] /\ i + 1 \in 1..Len(s) /\ j + 1 \in 1..Len(s)
    BY <1>1, <1>3
  <2>2. i + 1 = j + 1
    BY <2>1
  <2> QED BY <2>2, <1>1
<1> QED BY <1>2, <1>3

\* A push_back of something new keeps a queue without duplicates.
LEMMA DistinctAppend ==
    ASSUME NEW S, NEW s \in Seq(S), NEW e \in S, e \notin Range(s),
           \A i, j \in 1..Len(s) : s[i] = s[j] => i = j
    PROVE  \A i, j \in 1..Len(Append(s, e)) : Append(s, e)[i] = Append(s, e)[j] => i = j
<1>1. Len(s) \in Nat /\ Len(Append(s, e)) = Len(s) + 1
           /\ Append(s, e)[Len(s) + 1] = e
           /\ \A i \in 1..Len(s) : Append(s, e)[i] = s[i] /\ s[i] # e
  BY DEF Range
<1> QED BY <1>1

\* SELECT max(ack): the constructor finds a number no row exceeds.
LEMMA LastAckBounds ==
    ASSUME TypeOK, \A p \in db : ack[p] <= sequence
    PROVE  LastAck(db) \in Nat /\ \A p \in db : ack[p] <= LastAck(db)
<1> DEFINE U == {n \in Nat : \A p \in db : ack[p] <= n}
           A == {ack[p] : p \in db} \cup {0}
<1>1. sequence \in U /\ U \subseteq Nat
  BY DEF TypeOK
<1>2. PICK m \in U : \A y \in U : ~(<<y, m>> \in OpToRel(<, Nat))
  BY <1>1, WFMin, NatLessThanWellFounded
<1>3. \A y \in U : ~(y < m)
  BY <1>1, <1>2 DEF OpToRel
<1>4. m \in A
  <2> SUFFICES ASSUME m # 0, \A p \in db : ack[p] # m PROVE FALSE
    OBVIOUS
  <2>1. m - 1 \in Nat /\ \A p \in db : ack[p] <= m - 1
    BY <1>1 DEF TypeOK
  <2> QED BY <1>1, <1>3, <2>1
<1>5. A \subseteq Nat
  BY DEF TypeOK
<1> QED BY <1>1, <1>2, <1>4, <1>5 DEF LastAck

-----------------------------------------------------------------------------
(* Types.                                                                  *)

\* A thread that is not reading is in one of the readers' states.
LEMMA IdleType == Idle \in ReaderStates
BY DEF Idle, ReaderStates

\* An empty queue is a queue.
LEMMA EmptyQueue == \A S : <<>> \in Seq(S) /\ Range(<<>>) = {} /\ Len(<<>>) = 0
BY DEF Range

\* The constructed object and its threads have the right types.
LEMMA TypeInit == Init => TypeOK
<1> SUFFICES ASSUME Init PROVE TypeOK
  OBVIOUS
<1>1. queue \in Seq(Packets) /\ removeQueue \in Seq(Nat)
  BY EmptyQueue DEF Init
<1>2. reader \in [Readers -> ReaderStates]
  BY IdleType DEF Init
<1>3. ack \in [Packets -> Nat] /\ remover \in [Removers -> Nat]
  BY DEF Init
<1>4. /\ index = {} /\ flags = {} /\ db = {} /\ handles = {} /\ rowHandles = {}
      /\ notified = {} /\ acked = {} /\ lost = {}
  BY DEF Init
<1>5. closed \in BOOLEAN /\ hand \in Packets \cup {None}
  BY DEF Init
<1>6. /\ sequence \in Nat /\ handAck \in Nat
      /\ writer \in WriterSteps /\ closer \in CloserSteps
      /\ restarts \in 0..MaxRestarts /\ dbFailures \in 0..MaxDbFailures
  BY BoundAssumption DEF Init, WriterSteps, CloserSteps
<1> QED BY <1>1, <1>2, <1>3, <1>4, <1>5, <1>6 DEF TypeOK

\* Every step keeps the types; the constructor's max(ack) is a number because
\* the rows' acks are bounded by sequence_.
LEMMA TypeStep ==
    ASSUME TypeOK, AckOfItsOwn, WriterHoldsPacket, [Next]_vars
    PROVE  TypeOK'
<1> USE BoundAssumption DEF TypeOK, WriterSteps, CloserSteps
<1>1. ASSUME NEW p \in Packets, insert(p) PROVE TypeOK'
  <2>1. queue' \in Seq(Packets)
    BY <1>1, RangeOfAppend DEF insert
  <2>2. ack' \in [Packets -> Nat] /\ sequence' \in Nat
    BY <1>1 DEF insert, NextAck
  <2> QED BY <1>1, <2>1, <2>2 DEF insert, NotifyWriter, history
<1>2. ASSUME NEW t \in Removers, NEW p \in Packets, remove(t, p) PROVE TypeOK'
  BY <1>2 DEF remove, thread
<1>3. ASSUME NEW t \in Removers, RemovePush(t) PROVE TypeOK'
  BY <1>3 DEF RemovePush, NotifyWriter, history
<1>4. ASSUME NEW g \in Readers, NEW r \in Receivers, ReadIndex(g, r) PROVE TypeOK'
  <2>1. reader' \in [Readers -> ReaderStates]
    BY <1>4 DEF ReadIndex, QueuedFor, Inserted, ReaderStates
  <2> QED BY <1>4, <2>1 DEF ReadIndex, thread, history
<1>5. ASSUME NEW g \in Readers, ReadRows(g) PROVE TypeOK'
  <2>1. reader[g].seen \subseteq Packets /\ reader[g].before \subseteq Packets
    BY DEF ReaderStates
  <2>2. reader' \in [Readers -> ReaderStates]
    <3> DEFINE m == reader[g].before \ (reader[g].seen \cup {p \in db : ReceiverOf[p] = reader[g].of}
                                         \cup acked \cup lost)
    <3>1. [Idle EXCEPT !.missed = m] \in ReaderStates
      BY <2>1 DEF Idle, ReaderStates
    <3>2. reader' = [reader EXCEPT ![g] = [Idle EXCEPT !.missed = m]]
      BY <1>5 DEF ReadRows
    <3> HIDE DEF m
    <3> QED BY <3>1, <3>2
  <2> QED BY <1>5, <2>1, <2>2 DEF ReadRows, thread, history
<1>6. CASE NextPacket
  <2>1. queue # <<>> => Head(queue) \in Packets /\ Tail(queue) \in Seq(Packets)
    BY RangeOfTail
  <2>2. removeQueue # <<>> => Head(removeQueue) \in Nat /\ Tail(removeQueue) \in Seq(Nat)
    BY RangeOfTail
  <2>3. queue' \in Seq(Packets) /\ removeQueue' \in Seq(Nat)
    BY <1>6, <2>1, <2>2 DEF NextPacket
  <2>4. hand' \in Packets \cup {None} /\ handAck' \in Nat /\ index' \subseteq Packets
    BY <1>6, <2>1, <2>2 DEF NextPacket, RemoveFromIndex
  <2> QED BY <1>6, <2>3, <2>4 DEF NextPacket, calls, history
<1>7. CASE SpuriousWakeup
  BY <1>7 DEF SpuriousWakeup, calls, history
<1>8. CASE TestFlag
  BY <1>8 DEF TestFlag, calls, history
<1>9. CASE WriteToDatabase
  BY <1>9 DEF WriterHoldsPacket, WriteToDatabase, calls, history
<1>10. CASE WriteFails
  BY <1>10 DEF WriterHoldsPacket, WriteFails, AfterFailedWrite, calls
<1>11. CASE Notify
  BY <1>11 DEF WriterHoldsPacket, Notify, calls
<1>12. CASE RemoveFromDatabase
  BY <1>12 DEF RemoveFromDatabase, WithoutAck, calls
<1>13. CASE CloseBegin
  BY <1>13 DEF CloseBegin, thread, history
<1>14. CASE CloseNotify
  BY <1>14 DEF CloseNotify, NotifyWriter, history
<1>15. CASE CloseJoin
  BY <1>15 DEF CloseJoin, history
<1>16. CASE PurgePacket
  <2>1. queue # << >> /\ queue' = Tail(queue)
    BY <1>16 DEF PurgePacket
  <2>2. queue' \in Seq(Packets) /\ Head(queue) \in Packets
    BY <2>1, RangeOfTail
  <2>3. /\ UNCHANGED <<index, removeQueue, sequence, closed, ack, writer, hand, handAck, remover, reader,
                        closer, handles, rowHandles, restarts, notified, acked>>
        /\ flags' = flags \cup {Head(queue)} /\ db' \in {db, db \cup {Head(queue)}}
    BY <1>16 DEF PurgePacket, thread, calls
  <2>4. lost' \subseteq Packets /\ dbFailures' \in 0..MaxDbFailures
    BY <1>16, <2>2 DEF PurgePacket
  <2> QED BY <2>2, <2>3, <2>4
<1>17. CASE PurgeRemoval
  BY <1>17, RangeOfTail DEF PurgeRemoval, WithoutAck, thread, calls
<1>18. CASE CloseEnd
  BY <1>18 DEF CloseEnd, thread, history
<1>19. CASE Restart
  <2>1. LastAck(db) \in Nat
    BY LastAckBounds DEF AckOfItsOwn, Known
  <2>2. reader' \in [Readers -> ReaderStates]
    BY <1>19, IdleType DEF Restart, Fresh
  <2>3. queue' \in Seq(Packets) /\ removeQueue' \in Seq(Nat)
    BY <1>19, EmptyQueue DEF Restart, Fresh
  <2>4. remover' \in [Removers -> Nat]
    BY <1>19 DEF Restart, Fresh
  <2>5. /\ index' = {} /\ flags' = {} /\ handles' = {} /\ rowHandles' = {}
        /\ sequence' \in Nat /\ closed' \in BOOLEAN
        /\ writer' \in WriterSteps /\ closer' \in CloserSteps
        /\ hand' \in Packets \cup {None} /\ handAck' \in Nat
    BY <1>19, <2>1 DEF Restart, Fresh
  <2>6. lost' \subseteq Packets /\ restarts' \in 0..MaxRestarts
    BY <1>19 DEF Restart, Inserted
  <2>7. UNCHANGED <<ack, db, dbFailures, notified, acked>>
    BY <1>19 DEF Restart
  <2> QED BY <2>2, <2>3, <2>4, <2>5, <2>6, <2>7
<1>20. CASE UNCHANGED vars
  BY <1>20 DEF vars, thread, calls, history
<1> QED
  BY <1>1, <1>2, <1>3, <1>4, <1>5, <1>6, <1>7, <1>8, <1>9, <1>10, <1>11, <1>12,
     <1>13, <1>14, <1>15, <1>16, <1>17, <1>18, <1>19, <1>20 DEF Next, Writer, Closer

-----------------------------------------------------------------------------
(* The inductive invariant.                                                *)

\* What the critical section of insert() does to queue_.
LEMMA PushedQueue ==
    ASSUME TypeOK, QueueOnce, NEW p \in Packets, insert(p), p \notin Range(queue)
    PROVE  /\ Range(queue') = Range(queue) \cup {p}
           /\ \A i, j \in 1..Len(queue') : queue'[i] = queue'[j] => i = j
<1>1. queue \in Seq(Packets) /\ queue' = Append(queue, p)
           /\ \A i, j \in 1..Len(queue) : queue[i] = queue[j] => i = j
  BY DEF TypeOK, insert, QueueOnce
<1> QED BY <1>1, RangeOfAppend, DistinctAppend

\* What the critical section of next_packet() does to the two queues.
LEMMA PoppedQueue ==
    ASSUME TypeOK, QueueOnce, NextPacket
    PROVE  /\ Range(queue') \subseteq Range(queue)
           /\ hand' = None \/ (hand' \in Range(queue) /\ hand' \notin Range(queue'))
           /\ \A i, j \in 1..Len(queue') : queue'[i] = queue'[j] => i = j
<1>1. queue \in Seq(Packets) /\ \A i, j \in 1..Len(queue) : queue[i] = queue[j] => i = j
  BY DEF TypeOK, QueueOnce
<1>2. \/ queue' = queue /\ hand' = None
      \/ queue # <<>> /\ queue' = Tail(queue) /\ hand' = Head(queue)
  BY DEF NextPacket
<1>3. CASE queue' = queue /\ hand' = None
  BY <1>1, <1>3
<1>4. CASE queue # <<>> /\ queue' = Tail(queue) /\ hand' = Head(queue)
  BY <1>1, <1>4, RangeOfTail, DistinctTail
<1> QED BY <1>2, <1>3, <1>4

LEMMA PoppedRemovals ==
    ASSUME TypeOK, NextPacket
    PROVE  Range(removeQueue') \cup {handAck'} \subseteq Range(removeQueue) \cup {0}
<1>1. removeQueue \in Seq(Nat)
  BY DEF TypeOK
<1>2. \/ removeQueue' = removeQueue /\ handAck' = 0
      \/ removeQueue # <<>> /\ removeQueue' = Tail(removeQueue) /\ handAck' = Head(removeQueue)
  BY DEF NextPacket
<1>3. CASE removeQueue' = removeQueue /\ handAck' = 0
  BY <1>3
<1>4. CASE removeQueue # <<>> /\ removeQueue' = Tail(removeQueue) /\ handAck' = Head(removeQueue)
  BY <1>1, <1>4, RangeOfTail
<1> QED BY <1>2, <1>3, <1>4

\* The elements of the queues have the queues' types.
LEMMA QueueElements == TypeOK => Range(queue) \subseteq Packets /\ Range(removeQueue) \subseteq Nat
BY DEF TypeOK, Range

\* The push of remove().
LEMMA PushedRemoval ==
    ASSUME TypeOK, NEW t \in Removers, RemovePush(t)
    PROVE  Range(removeQueue') = Range(removeQueue) \cup {remover[t]}
<1>1. removeQueue \in Seq(Nat) /\ remover[t] \in Nat /\ removeQueue' = Append(removeQueue, remover[t])
  BY DEF TypeOK, RemovePush
<1> QED BY <1>1, RangeOfAppend

\* Every step keeps StorageInv.
LEMMA InvStep ==
    ASSUME TypeOK, StorageInv, [Next]_vars, TypeOK'
    PROVE  StorageInv'
<1> USE DEF TypeOK, StorageInv, AckOfItsOwn, EverythingIssued, OnlyAckedRemoved, RemovalOfAcked, QueueOnce, InHand, FlagMeansAcked, WriterHoldsPacket, NotifiedDurable, Known, Issued
<1>1. ASSUME NEW p \in Packets, insert(p) PROVE StorageInv'
  <2>1. p \notin Known /\ p # None /\ hand # p /\ p \notin Range(queue)
    BY <1>1, NoneAssumption DEF insert
  <2>2. Range(queue') = Range(queue) \cup {p}
        /\ \A i, j \in 1..Len(queue') : queue'[i] = queue'[j] => i = j
    BY <1>1, <2>1, PushedQueue
  <2>3. AckOfItsOwn'
    <3>1. Known' = Known \cup {p} /\ Known \subseteq Packets
      BY <1>1 DEF insert
    <3>2. sequence' = sequence + 1 /\ ack'[p] = sequence + 1
          /\ \A q \in Known : ack'[q] = ack[q] /\ ack[q] \in Nat
      BY <1>1, <2>1, <3>1 DEF insert, NextAck
    <3> HIDE DEF Known, TypeOK
    <3>3. sequence \in Nat
      BY DEF TypeOK
    <3> QED BY <2>1, <3>1, <3>2, <3>3
  <2>4. EverythingIssued'
    BY <1>1, <2>2 DEF insert
  <2>5. OnlyAckedRemoved'
    <3>1. ASSUME NEW a \in Nat, RemovalOfAcked(a) PROVE RemovalOfAcked(a)'
      <4>1. sequence' = sequence + 1 /\ acked' = acked /\ Known' = Known \cup {p}
        BY <1>1 DEF insert, NextAck, history
      <4>2. \A q \in Known' : ack'[q] = IF q = p THEN sequence + 1 ELSE ack[q]
        BY <1>1, <4>1 DEF insert, NextAck
      <4>3. a <= sequence /\ sequence \in Nat /\ \A q \in Known : ack[q] = a => q \in acked
        BY <3>1
      <4> HIDE DEF Known, TypeOK
      <4> QED BY <4>1, <4>2, <4>3
    <3>2. UNCHANGED <<remover, removeQueue, handAck>>
      BY <1>1 DEF insert, history
    <3>3. /\ \A t \in Removers : remover[t] \in Nat /\ RemovalOfAcked(remover[t])
          /\ \A a \in Range(removeQueue) : a \in Nat /\ RemovalOfAcked(a)
          /\ handAck \in Nat /\ RemovalOfAcked(handAck)
      BY QueueElements
    <3> HIDE DEF RemovalOfAcked
    <3> QED BY <3>1, <3>2, <3>3
  <2>6. QueueOnce'
    <3>1. UNCHANGED <<hand, db>> /\ InHand' \subseteq InHand
      BY <1>1 DEF insert, NotifyWriter
    <3> QED BY <2>1, <2>2, <3>1
  <2>7. FlagMeansAcked'
    <3>1. p \notin flags
      BY <2>1
    <3> QED BY <1>1, <2>2, <3>1 DEF insert, NotifyWriter, history
  <2>8. WriterHoldsPacket' /\ NotifiedDurable'
    BY <1>1 DEF insert, NotifyWriter, history
  <2> QED BY <2>3, <2>4, <2>5, <2>6, <2>7, <2>8
<1>2. ASSUME NEW t \in Removers, NEW p \in Packets, remove(t, p) PROVE StorageInv'
  <2>1. p \in Issued /\ acked' = acked \cup {p} /\ flags' \subseteq flags \cup {p}
        /\ UNCHANGED <<queue, index, removeQueue, sequence, ack, db, thread, reader,
                       handles, rowHandles, notified>>
    BY <1>2 DEF remove
  <2>2. AckOfItsOwn' /\ EverythingIssued'
    BY <2>1 DEF thread
  <2>3. OnlyAckedRemoved'
    <3>1. \A a \in Nat : RemovalOfAcked(a) => RemovalOfAcked(a)'
      BY <2>1
    <3>2. RemovalOfAcked(ack[p])' /\ RemovalOfAcked(0)'
      BY <2>1
    <3>3. \A u \in Removers : remover'[u] \in {remover[u], 0, ack[p]} /\ remover[u] \in Nat
      BY <1>2 DEF remove
    <3>4. \A u \in Removers : RemovalOfAcked(remover[u])
      OBVIOUS
    <3>5. UNCHANGED <<ack, removeQueue, handAck>> /\ handAck \in Nat
      BY <2>1 DEF thread
    <3>6. (\A a \in Range(removeQueue) : RemovalOfAcked(a)) /\ RemovalOfAcked(handAck)
      OBVIOUS
    <3> HIDE DEF RemovalOfAcked, TypeOK, Known, Issued
    <3> QED BY <3>1, <3>2, <3>3, <3>4, <3>5, <3>6, QueueElements
  <2>4. QueueOnce'
    BY <2>1 DEF thread
  <2>5. FlagMeansAcked' /\ WriterHoldsPacket' /\ NotifiedDurable'
    BY <2>1 DEF thread
  <2> QED BY <2>2, <2>3, <2>4, <2>5
<1>3. ASSUME NEW t \in Removers, RemovePush(t) PROVE StorageInv'
  <2>1. Range(removeQueue') = Range(removeQueue) \cup {remover[t]}
    BY <1>3, PushedRemoval
  <2>2. UNCHANGED <<queue, index, sequence, ack, flags, db, hand, handAck,
                    reader, handles, rowHandles, notified, acked>>
    BY <1>3 DEF RemovePush, history
  <2>3. OnlyAckedRemoved'
    <3>1. \A a : RemovalOfAcked(a) => RemovalOfAcked(a)'
      BY <2>2
    <3>2. RemovalOfAcked(0)
      <4>1. sequence \in Nat /\ \A p \in Known : ack[p] \in Nat /\ 0 < ack[p]
        OBVIOUS
      <4> HIDE DEF Known, TypeOK
      <4> QED BY <4>1
    <3>3. \A u \in Removers : remover'[u] \in {remover[u], 0}
      BY <1>3 DEF RemovePush
    <3> QED BY <2>1, <2>2, <3>1, <3>2, <3>3
  <2>4. AckOfItsOwn' /\ EverythingIssued'
    BY <2>2
  <2>5. QueueOnce' /\ FlagMeansAcked' /\ WriterHoldsPacket' /\ NotifiedDurable'
    BY <1>3, <2>2 DEF RemovePush, NotifyWriter
  <2> QED BY <2>3, <2>4, <2>5
<1>4. ASSUME NEW g \in Readers, NEW r \in Receivers, ReadIndex(g, r) PROVE StorageInv'
  BY <1>4 DEF ReadIndex, QueuedFor, ReaderStates, thread, history
<1>5. ASSUME NEW g \in Readers, ReadRows(g) PROVE StorageInv'
  BY <1>5 DEF ReadRows, Idle, ReaderStates, thread, history
<1>6. CASE NextPacket
  <2>1. /\ Range(queue') \subseteq Range(queue)
        /\ hand' = None \/ (hand' \in Range(queue) /\ hand' \notin Range(queue'))
        /\ \A i, j \in 1..Len(queue') : queue'[i] = queue'[j] => i = j
    BY <1>6, PoppedQueue
  <2>2. None \notin Range(queue)
    BY NoneAssumption, QueueElements
  <2>3. Range(removeQueue') \cup {handAck'} \subseteq Range(removeQueue) \cup {0}
    BY <1>6, PoppedRemovals
  <2>4. UNCHANGED <<sequence, ack, flags, db, remover, reader, handles, rowHandles,
                    notified, acked>>
    BY <1>6 DEF NextPacket, calls, history
  <2>5. index' \subseteq index /\ writer' \in {"wait", "exited", "flag"}
    <3> HIDE DEF TypeOK, StorageInv
    <3> QED BY <1>6 DEF NextPacket, RemoveFromIndex
  <2>6. AckOfItsOwn'
    BY <2>4
  <2>7. EverythingIssued'
    BY <2>1, <2>4, <2>5
  <2>8. OnlyAckedRemoved'
    <3>1. \A a : RemovalOfAcked(a) => RemovalOfAcked(a)'
      BY <2>4
    <3>2. RemovalOfAcked(0)
      <4>1. sequence \in Nat /\ \A p \in Known : ack[p] \in Nat /\ 0 < ack[p]
        OBVIOUS
      <4> HIDE DEF Known, TypeOK
      <4> QED BY <4>1
    <3> QED BY <2>3, <2>4, <3>1, <3>2
  <2>9. QueueOnce'
    BY <2>1, <2>2, <2>4, <2>5
  <2>10. FlagMeansAcked'
    BY <2>1, <2>4, NoneAssumption
  <2>11. WriterHoldsPacket' /\ NotifiedDurable'
    BY <2>4, <2>5
  <2> QED BY <2>6, <2>7, <2>8, <2>9, <2>10, <2>11
<1>7. CASE SpuriousWakeup
  <2>1. UNCHANGED <<queue, index, removeQueue, sequence, ack, flags, db, hand, handAck,
                    remover, reader, handles, rowHandles, notified, acked>>
    BY <1>7 DEF SpuriousWakeup, calls, history
  <2>2. AckOfItsOwn' /\ EverythingIssued' /\ OnlyAckedRemoved'
    BY <2>1
  <2>3. QueueOnce' /\ FlagMeansAcked' /\ WriterHoldsPacket' /\ NotifiedDurable'
    BY <1>7, <2>1 DEF SpuriousWakeup
  <2> QED BY <2>2, <2>3
<1>8. CASE TestFlag
  <2>1. UNCHANGED <<queue, index, removeQueue, sequence, ack, db, hand, handAck,
                    remover, reader, handles, rowHandles, notified, acked>>
    BY <1>8 DEF TestFlag, calls, history
  <2>2. AckOfItsOwn' /\ OnlyAckedRemoved' /\ NotifiedDurable'
    BY <2>1
  <2>3. EverythingIssued'
    BY <1>8, <2>1 DEF TestFlag
  <2>4. QueueOnce'
    BY <1>8, <2>1 DEF TestFlag
  <2>5. FlagMeansAcked' /\ WriterHoldsPacket'
    BY <1>8, <2>1, NoneAssumption DEF TestFlag
  <2> QED BY <2>2, <2>3, <2>4, <2>5
<1>9. CASE WriteToDatabase
  BY <1>9 DEF WriteToDatabase, calls, history
<1>10. CASE WriteFails
  BY <1>10 DEF WriteFails, AfterFailedWrite, calls
<1>11. CASE Notify
  BY <1>11 DEF Notify, calls
<1>12. CASE RemoveFromDatabase
  BY <1>12 DEF RemoveFromDatabase, WithoutAck, calls
<1>13. CASE CloseBegin
  BY <1>13 DEF CloseBegin, thread, history
<1>14. CASE CloseNotify
  BY <1>14 DEF CloseNotify, NotifyWriter, history
<1>15. CASE CloseJoin
  <2>1. UNCHANGED <<queue, index, removeQueue, sequence, ack, flags, db, writer,
                    remover, reader, handles, rowHandles, notified, acked>>
        /\ hand' = None /\ handAck' = 0 /\ writer = "exited"
    BY <1>15 DEF CloseJoin, history
  <2>2. None \notin Range(queue)
    BY NoneAssumption, QueueElements
  <2>3. AckOfItsOwn' /\ EverythingIssued' /\ NotifiedDurable'
    BY <2>1
  <2>4. OnlyAckedRemoved'
    BY <2>1 DEF Known
  <2>5. QueueOnce' /\ FlagMeansAcked' /\ WriterHoldsPacket'
    BY <2>1, <2>2
  <2> QED BY <2>3, <2>4, <2>5
<1>16. CASE PurgePacket
  <2>1. UNCHANGED <<index, removeQueue, sequence, ack, writer, hand, handAck,
                    remover, reader, handles, rowHandles, notified, acked>>
    BY <1>16 DEF PurgePacket, thread, calls
  <2>2. /\ Head(queue) \in Range(queue) /\ Range(queue') \subseteq Range(queue)
        /\ Head(queue) \notin Range(queue')
        /\ \A i, j \in 1..Len(queue') : queue'[i] = queue'[j] => i = j
    <3>1. queue # << >> /\ queue' = Tail(queue) /\ queue \in Seq(Packets)
      BY <1>16 DEF PurgePacket
    <3>2. \A i, j \in 1..Len(queue) : queue[i] = queue[j] => i = j
      OBVIOUS
    <3> HIDE DEF TypeOK, StorageInv, QueueOnce
    <3>3. Range(queue) = Range(Tail(queue)) \cup {Head(queue)}
      BY <3>1, RangeOfTail
    <3>4. /\ Head(queue) \notin Range(Tail(queue))
          /\ \A i, j \in 1..Len(Tail(queue)) : Tail(queue)[i] = Tail(queue)[j] => i = j
      BY <3>1, <3>2, DistinctTail
    <3> QED BY <3>1, <3>3, <3>4
  <2>3. flags' = flags \cup {Head(queue)} /\ db \subseteq db' /\ db' \subseteq db \cup {Head(queue)}
    BY <1>16 DEF PurgePacket
  <2>4. Known' = Known /\ Issued' = Issued
    BY <2>1, <2>2, <2>3
  <2>5. AckOfItsOwn' /\ EverythingIssued'
    BY <2>1, <2>2, <2>3, <2>4
  <2>6. OnlyAckedRemoved'
    BY <2>1, <2>4
  <2>7. QueueOnce' /\ FlagMeansAcked' /\ WriterHoldsPacket' /\ NotifiedDurable'
    BY <2>1, <2>2, <2>3
  <2> QED BY <2>5, <2>6, <2>7
<1>17. CASE PurgeRemoval
  <2>1. UNCHANGED <<queue, index, sequence, ack, flags, writer, hand, handAck,
                    remover, reader, handles, rowHandles, notified, acked>>
    BY <1>17 DEF PurgeRemoval, thread, calls
  <2>2. Head(removeQueue) \in Range(removeQueue) /\ Range(removeQueue') \subseteq Range(removeQueue)
    BY <1>17, RangeOfTail DEF PurgeRemoval
  <2>3. db' \subseteq db /\ db \ acked \subseteq db'
    <3>1. RemovalOfAcked(Head(removeQueue))
      BY <2>2
    <3> QED BY <1>17, <3>1 DEF PurgeRemoval, WithoutAck
  <2>4. AckOfItsOwn' /\ EverythingIssued' /\ OnlyAckedRemoved'
    BY <2>1, <2>2, <2>3
  <2>5. QueueOnce' /\ FlagMeansAcked' /\ WriterHoldsPacket' /\ NotifiedDurable'
    BY <2>1, <2>3
  <2> QED BY <2>4, <2>5
<1>18. CASE CloseEnd
  BY <1>18 DEF CloseEnd, thread, history
<1>19. CASE Restart
  <2>1. LastAck(db) \in Nat /\ \A p \in db : ack[p] <= LastAck(db)
    BY LastAckBounds
  <2>2. UNCHANGED <<ack, db, notified, acked>> /\ sequence' = LastAck(db)
        /\ handles' = {} /\ rowHandles' = {} /\ index' = {} /\ flags' = {}
        /\ writer' = "next" /\ hand' = None /\ handAck' = 0
        /\ remover' = [t \in Removers |-> 0] /\ reader' = [g \in Readers |-> Idle]
    BY <1>19 DEF Restart, Fresh
  <2>3. queue' = <<>> /\ removeQueue' = <<>> /\ Range(queue') = {} /\ Range(removeQueue') = {}
        /\ Len(queue') = 0
    BY <1>19, EmptyQueue DEF Restart, Fresh
  <2>4. Known' = db /\ Issued' = {} /\ db \subseteq Known
    BY <2>2
  <2>5. AckOfItsOwn'
    BY <2>1, <2>2, <2>4
  <2>6. EverythingIssued'
    BY <2>2, <2>3 DEF Idle
  <2>7. OnlyAckedRemoved'
    <3>1. RemovalOfAcked(0)'
      BY <2>1, <2>2, <2>4
    <3> QED BY <2>2, <2>3, <3>1
  <2>8. QueueOnce' /\ FlagMeansAcked' /\ WriterHoldsPacket' /\ NotifiedDurable'
    BY <2>2, <2>3
  <2> QED BY <2>5, <2>6, <2>7, <2>8
<1>20. CASE UNCHANGED vars
  BY <1>20 DEF vars, thread, calls, history
<1> QED
  BY <1>1, <1>2, <1>3, <1>4, <1>5, <1>6, <1>7, <1>8, <1>9, <1>10, <1>11, <1>12, <1>13, <1>14, <1>15, <1>16, <1>17, <1>18, <1>19, <1>20 DEF Next, Writer, Closer


\* The packet storage keeps its types and its inductive invariant.
THEOREM StorageInvariant == Spec => [](TypeOK /\ StorageInv)
<1>1. Init => TypeOK /\ StorageInv
  <2> SUFFICES ASSUME Init PROVE TypeOK /\ StorageInv
    OBVIOUS
  <2>1. TypeOK
    BY TypeInit
  <2>2. Range(queue) = {} /\ Range(removeQueue) = {} /\ Len(queue) = 0 /\ Known = {}
    BY EmptyQueue DEF Init, Known, Issued
  <2>3. AckOfItsOwn /\ EverythingIssued
    BY <2>2 DEF Init, AckOfItsOwn, EverythingIssued, Idle
  <2>4. OnlyAckedRemoved
    BY <2>2 DEF Init, OnlyAckedRemoved, RemovalOfAcked
  <2>5. QueueOnce /\ FlagMeansAcked /\ WriterHoldsPacket /\ NotifiedDurable
    BY <2>2 DEF Init, QueueOnce, InHand, FlagMeansAcked, WriterHoldsPacket, NotifiedDurable
  <2> QED BY <2>1, <2>3, <2>4, <2>5 DEF StorageInv
<1>2. TypeOK /\ StorageInv /\ [Next]_vars => (TypeOK /\ StorageInv)'
  BY TypeStep, InvStep DEF StorageInv
<1> QED BY <1>1, <1>2, PTL DEF Spec

\* Every variable keeps its type.
THEOREM StorageTypes == Spec => []TypeOK
BY StorageInvariant, PTL

\* packet_storage: a packet whose sender was told is in the database until
\* its receiver has acknowledged it.
THEOREM StorageDurable == Spec => []NotifiedDurable
<1>1. StorageInv => NotifiedDurable
  BY DEF StorageInv
<1> QED BY StorageInvariant, <1>1, PTL

\* packet_storage: the writer never meets its key in the table.
THEOREM StorageKeys == Spec => []KeysDoNotCollide
<1>1. TypeOK /\ StorageInv => KeysDoNotCollide
  <2> SUFFICES ASSUME TypeOK, StorageInv, writer = "write", NEW q \in db
               PROVE  ack[q] # ack[hand]
    BY DEF KeysDoNotCollide, KeyFree
  <2>1. hand \in Known /\ q \in Known /\ hand # q
    BY DEF StorageInv, EverythingIssued, QueueOnce, InHand, WriterHoldsPacket, Known
  <2> QED BY <2>1 DEF StorageInv, AckOfItsOwn
<1> QED BY StorageInvariant, <1>1, PTL

-----------------------------------------------------------------------------
(* What a reader may miss, and what the storage implements.                *)

\* A packet whose sender was told has been inserted.
ToldWasInserted == \A p \in notified : ack[p] # 0

\* Until close() begins an accepted packet is in the index, in the writer's hand or a row, unless it is
\* acknowledged or lost.
AcceptedFound ==
    closer = "open" => ~closed /\ Inserted \subseteq index \cup InHand \cup db \cup acked \cup lost

\* A packet that a reader has to report and did not find in the index is in the writer's hand or a row.
ReadersFind ==
    \A g \in Readers : reader[g].pc = "rows" =>
        /\ closer = "open"
        /\ \A p \in reader[g].before \ (reader[g].seen \cup acked \cup lost) :
              p \in db \cup InHand /\ ReceiverOf[p] = reader[g].of

PendingInv == ToldWasInserted /\ AcceptedFound /\ ReadersFind

\* A step that leaves the members and the readers alone and does not move the packet in hand.
LEMMA QuietStep ==
    ASSUME PendingInv, InHand' = InHand,
           UNCHANGED <<ack, index, db, acked, lost, notified, reader, closer, closed>>
    PROVE  PendingInv'
<1>1. ToldWasInserted'
  BY DEF PendingInv, ToldWasInserted
<1>2. AcceptedFound'
  BY DEF PendingInv, AcceptedFound, Inserted
<1>3. ReadersFind'
  BY DEF PendingInv, ReadersFind
<1> QED BY <1>1, <1>2, <1>3 DEF PendingInv

\* A step that moves packets from one place to another, or acknowledges, stores or loses some.
LEMMA MovingStep ==
    ASSUME PendingInv, UNCHANGED <<ack, notified, reader, closer, closed>>,
           acked \subseteq acked', lost \subseteq lost',
           closer = "open" => /\ index \subseteq index' \cup InHand'
                              /\ db \cup InHand \subseteq db' \cup InHand' \cup acked' \cup lost'
    PROVE  PendingInv'
<1>1. ToldWasInserted'
  BY DEF PendingInv, ToldWasInserted
<1>2. AcceptedFound'
  BY DEF PendingInv, AcceptedFound, Inserted
<1>3. ReadersFind'
  <2> SUFFICES ASSUME NEW g \in Readers, reader[g].pc = "rows"
               PROVE  /\ closer = "open"
                      /\ \A p \in reader[g].before \ (reader[g].seen \cup acked' \cup lost') :
                            p \in db' \cup InHand' /\ ReceiverOf[p] = reader[g].of
    BY DEF ReadersFind
  <2>1. closer = "open" /\ \A p \in reader[g].before \ (reader[g].seen \cup acked \cup lost) :
                              p \in db \cup InHand /\ ReceiverOf[p] = reader[g].of
    BY DEF PendingInv, ReadersFind
  <2> QED BY <2>1
<1> QED BY <1>1, <1>2, <1>3 DEF PendingInv

\* Every step keeps PendingInv.
LEMMA PendingStep ==
    ASSUME TypeOK, StorageInv, PendingInv, [Next]_vars
    PROVE  PendingInv'
<1>1. ASSUME NEW p \in Packets, insert(p) PROVE PendingInv'
  <2>1. /\ ack[p] = 0 /\ ack' = [ack EXCEPT ![p] = sequence + 1] /\ index' = index \cup {p}
        /\ UNCHANGED <<db, acked, lost, notified, reader, closer, closed>> /\ InHand' = InHand
        /\ sequence \in Nat /\ ack \in [Packets -> Nat] /\ notified \subseteq Packets
    BY <1>1 DEF insert, NextAck, InHand, NotifyWriter, history, TypeOK
  <2>2. \A q \in Packets : ack'[q] = IF q = p THEN sequence + 1 ELSE ack[q]
    BY <2>1
  <2>3. ToldWasInserted'
    BY <2>1, <2>2 DEF PendingInv, ToldWasInserted
  <2>4. AcceptedFound'
    <3>1. Inserted' \subseteq Inserted \cup {p}
      BY <2>2 DEF Inserted
    <3> QED BY <2>1, <3>1 DEF PendingInv, AcceptedFound
  <2>5. ReadersFind'
    BY <2>1 DEF PendingInv, ReadersFind
  <2> QED BY <2>3, <2>4, <2>5 DEF PendingInv
<1>2. ASSUME NEW t \in Removers, NEW p \in Packets, remove(t, p) PROVE PendingInv'
  <2>1. /\ UNCHANGED <<ack, index, db, lost, notified, reader, closer, closed>>
        /\ acked \subseteq acked' /\ InHand' = InHand
    BY <1>2 DEF remove, thread, InHand
  <2> QED BY <2>1, MovingStep
<1>3. ASSUME NEW t \in Removers, RemovePush(t) PROVE PendingInv'
  <2>1. UNCHANGED <<ack, index, db, acked, lost, notified, reader, closer, closed>> /\ InHand' = InHand
    BY <1>3 DEF RemovePush, NotifyWriter, history, InHand
  <2> QED BY <2>1, QuietStep
<1>4. ASSUME NEW g \in Readers, NEW r \in Receivers, ReadIndex(g, r) PROVE PendingInv'
  <2>1. UNCHANGED <<ack, index, db, acked, lost, notified, closer, closed>> /\ InHand' = InHand /\ closer = "open"
    BY <1>4 DEF ReadIndex, thread, history, InHand
  <2>2. PICK x : x = [pc |-> "rows", of |-> r, seen |-> QueuedFor(r),
                      before |-> {p \in Inserted \ (lost \cup acked) : ReceiverOf[p] = r}, missed |-> {}]
    OBVIOUS
  <2>3. reader' = [reader EXCEPT ![g] = x]
    BY <1>4, <2>2 DEF ReadIndex
  <2>4. \A h \in Readers : reader'[h] = IF h = g THEN x ELSE reader[h]
    BY <2>3 DEF TypeOK
  <2>5. \A p \in x.before \ (x.seen \cup acked \cup lost) : p \in db \cup InHand /\ ReceiverOf[p] = x.of
    <3>1. \A p \in x.before : p \in Inserted \ (lost \cup acked) /\ ReceiverOf[p] = r /\ x.of = r
      BY <2>2
    <3>2. x.seen = {p \in index : ReceiverOf[p] = r}
      BY <2>2 DEF QueuedFor
    <3>3. Inserted \subseteq index \cup InHand \cup db \cup acked \cup lost
      BY <2>1 DEF PendingInv, AcceptedFound
    <3> QED BY <3>1, <3>2, <3>3
  <2>6. ReadersFind'
    <3> SUFFICES ASSUME NEW h \in Readers, reader'[h].pc = "rows"
                 PROVE  /\ closer' = "open"
                        /\ \A p \in reader'[h].before \ (reader'[h].seen \cup acked' \cup lost') :
                              p \in db' \cup InHand' /\ ReceiverOf[p] = reader'[h].of
      BY DEF ReadersFind
    <3>1. CASE h = g
      <4>1. reader'[h] = x
        BY <2>4, <3>1
      <4> QED BY <2>1, <2>5, <4>1
    <3>2. CASE h # g
      <4>1. reader'[h] = reader[h]
        BY <2>4, <3>2
      <4> QED BY <2>1, <4>1 DEF PendingInv, ReadersFind
    <3> QED BY <3>1, <3>2
  <2>7. ToldWasInserted' /\ AcceptedFound'
    BY <2>1 DEF PendingInv, ToldWasInserted, AcceptedFound, Inserted
  <2> QED BY <2>6, <2>7 DEF PendingInv
<1>5. ASSUME NEW g \in Readers, ReadRows(g) PROVE PendingInv'
  <2>1. UNCHANGED <<ack, index, db, acked, lost, notified, closer, closed>> /\ InHand' = InHand
    BY <1>5 DEF ReadRows, thread, history, InHand
  <2>2. PICK m : reader' = [reader EXCEPT ![g] = [Idle EXCEPT !.missed = m]]
    BY <1>5 DEF ReadRows
  <2>3. \A h \in Readers : reader'[h] = IF h = g THEN [Idle EXCEPT !.missed = m] ELSE reader[h]
    BY <2>2 DEF TypeOK
  <2>4. [Idle EXCEPT !.missed = m].pc = "idle"
    BY DEF Idle
  <2>5. ReadersFind'
    <3>1. \A h \in Readers : reader'[h].pc = "idle" \/ reader'[h] = reader[h]
      BY <2>3, <2>4
    <3> QED BY <2>1, <3>1 DEF PendingInv, ReadersFind
  <2>6. ToldWasInserted' /\ AcceptedFound'
    BY <2>1 DEF PendingInv, ToldWasInserted, AcceptedFound, Inserted
  <2> QED BY <2>5, <2>6 DEF PendingInv
<1>6. CASE NextPacket
  <2>1. UNCHANGED <<ack, db, acked, lost, notified, reader, closer, closed>> /\ InHand = {}
    BY <1>6 DEF NextPacket, calls, history, InHand
  <2>2. ~closed => index \subseteq index' \cup InHand'
    <3>1. CASE queue = <<>> /\ removeQueue = <<>> /\ ~closed
      BY <1>6, <3>1 DEF NextPacket
    <3>2. CASE ~closed /\ ~(queue = <<>> /\ removeQueue = <<>>)
      <4>1. index' = index \ {hand'} /\ writer' = "flag"
        BY <1>6, <3>2 DEF NextPacket, RemoveFromIndex
      <4>2. None \notin index
        BY NoneAssumption DEF TypeOK
      <4> QED BY <4>1, <4>2 DEF InHand
    <3> QED BY <3>1, <3>2
  <2>3. closer = "open" => ~closed
    BY DEF PendingInv, AcceptedFound
  <2> QED BY <2>1, <2>2, <2>3, MovingStep
<1>7. CASE SpuriousWakeup
  <2>1. UNCHANGED <<ack, index, db, acked, lost, notified, reader, closer, closed>> /\ InHand' = InHand
    BY <1>7 DEF SpuriousWakeup, calls, history, InHand
  <2> QED BY <2>1, QuietStep
<1>8. CASE TestFlag
  <2>1. UNCHANGED <<ack, index, db, acked, lost, notified, reader, closer, closed, hand>> /\ writer = "flag"
    BY <1>8 DEF TestFlag, calls, history
  <2>2. hand = None \/ hand \in flags \/ writer' = "write"
    BY <1>8 DEF TestFlag
  <2>3. InHand \subseteq InHand' \cup acked
    BY <2>1, <2>2 DEF InHand, StorageInv, FlagMeansAcked
  <2> QED BY <2>1, <2>3, MovingStep
<1>9. CASE WriteToDatabase
  <2>1. UNCHANGED <<ack, index, acked, lost, notified, reader, closer, closed>>
        /\ db' = db \cup {hand} /\ writer = "write"
    BY <1>9 DEF WriteToDatabase, calls, history
  <2> QED BY <2>1, MovingStep DEF InHand
<1>10. CASE WriteFails
  <2>1. UNCHANGED <<ack, index, acked, db, notified, reader, closer, closed>>
        /\ lost' = lost \cup {hand} /\ writer = "write"
    BY <1>10 DEF WriteFails, calls
  <2> QED BY <2>1, MovingStep DEF InHand
<1>11. CASE Notify
  <2>1. /\ UNCHANGED <<ack, index, db, acked, lost, reader, closer, closed>> /\ InHand = {} /\ InHand' = {}
        /\ notified' = notified \cup {hand} /\ writer = "notify"
    BY <1>11 DEF Notify, calls, InHand
  <2>2. ack[hand] # 0
    <3>1. hand \in Known /\ ack[hand] > 0
      BY <2>1 DEF StorageInv, EverythingIssued, WriterHoldsPacket, AckOfItsOwn, Known
    <3>2. hand \in Packets
      BY <3>1 DEF TypeOK, Known, Issued
    <3> QED BY <3>1, <3>2 DEF TypeOK
  <2>3. ToldWasInserted'
    BY <2>1, <2>2 DEF PendingInv, ToldWasInserted
  <2>4. AcceptedFound' /\ ReadersFind'
    BY <2>1 DEF PendingInv, AcceptedFound, Inserted, ReadersFind
  <2> QED BY <2>3, <2>4 DEF PendingInv
<1>12. CASE RemoveFromDatabase
  <2>1. /\ UNCHANGED <<ack, index, acked, lost, notified, reader, closer, closed>> /\ InHand = {}
        /\ db' = WithoutAck(handAck) \/ db' = db
    BY <1>12 DEF RemoveFromDatabase, calls, InHand
  <2>2. db \subseteq db' \cup acked
    BY <2>1 DEF WithoutAck, StorageInv, OnlyAckedRemoved, RemovalOfAcked, Known
  <2> QED BY <2>1, <2>2, MovingStep
<1>13. CASE CloseBegin
  <2>1. UNCHANGED <<ack, notified, reader>> /\ closer' # "open" /\ \A g \in Readers : reader[g].pc = "idle"
    BY <1>13 DEF CloseBegin, history
  <2> QED BY <2>1 DEF PendingInv, ToldWasInserted, AcceptedFound, ReadersFind
<1>14. CASE CloseNotify
  <2>1. UNCHANGED <<ack, notified, reader>> /\ closer' # "open" /\ closer # "open"
    BY <1>14 DEF CloseNotify, history
  <2> QED BY <2>1 DEF PendingInv, ToldWasInserted, AcceptedFound, ReadersFind
<1>15. CASE CloseJoin
  <2>1. UNCHANGED <<ack, notified, reader>> /\ closer' # "open" /\ closer # "open"
    BY <1>15 DEF CloseJoin, history
  <2> QED BY <2>1 DEF PendingInv, ToldWasInserted, AcceptedFound, ReadersFind
<1>16. CASE PurgePacket
  <2>1. UNCHANGED <<ack, notified, reader>> /\ closer' # "open" /\ closer # "open"
    BY <1>16 DEF PurgePacket, calls
  <2> QED BY <2>1 DEF PendingInv, ToldWasInserted, AcceptedFound, ReadersFind
<1>17. CASE PurgeRemoval
  <2>1. UNCHANGED <<ack, notified, reader>> /\ closer' # "open" /\ closer # "open"
    BY <1>17 DEF PurgeRemoval, calls
  <2> QED BY <2>1 DEF PendingInv, ToldWasInserted, AcceptedFound, ReadersFind
<1>18. CASE CloseEnd
  <2>1. UNCHANGED <<ack, notified, reader>> /\ closer' # "open" /\ closer # "open"
    BY <1>18 DEF CloseEnd, history
  <2> QED BY <2>1 DEF PendingInv, ToldWasInserted, AcceptedFound, ReadersFind
<1>19. CASE Restart
  <2>1. /\ UNCHANGED <<ack, db, notified, acked>> /\ closed' = FALSE
        /\ lost' = lost \cup (Inserted \ db) /\ reader' = [g \in Readers |-> Idle]
    BY <1>19 DEF Restart, Fresh
  <2>2. ToldWasInserted' /\ AcceptedFound'
    BY <2>1 DEF PendingInv, ToldWasInserted, AcceptedFound, Inserted
  <2>3. ReadersFind'
    BY <2>1 DEF ReadersFind, Idle
  <2> QED BY <2>2, <2>3 DEF PendingInv
<1>20. CASE UNCHANGED vars
  <2>1. UNCHANGED <<ack, index, db, acked, lost, notified, reader, closer, closed>> /\ InHand' = InHand
    BY <1>20 DEF vars, thread, calls, history, InHand
  <2> QED BY <2>1, QuietStep
<1> QED
  BY <1>1, <1>2, <1>3, <1>4, <1>5, <1>6, <1>7, <1>8, <1>9, <1>10, <1>11, <1>12, <1>13, <1>14,
     <1>15, <1>16, <1>17, <1>18, <1>19, <1>20 DEF Next, Writer, Closer

LEMMA PendingAlways == Spec => [](TypeOK /\ StorageInv /\ PendingInv)
<1>1. Init => PendingInv
  BY DEF Init, PendingInv, ToldWasInserted, AcceptedFound, Inserted, ReadersFind, Idle
<1>2. TypeOK /\ StorageInv /\ PendingInv /\ [Next]_vars => PendingInv'
  BY PendingStep
<1> QED BY <1>1, <1>2, StorageInvariant, PTL DEF Spec

\* get_pending_packets reads the index under the mutex and the table without it.  For any packets,
\* receivers and threads it misses at most the packet that the writer holds between the two.
THEOREM PendingMissesOne == Spec => PendingMissesOnlyWritersPacket
<1> DEFINE A == \A g \in Readers :
                  reader[g].pc = "rows" /\ reader'[g].pc = "idle" /\ restarts' = restarts
                      => reader'[g].missed \subseteq InHand
<1>1. TypeOK /\ StorageInv /\ PendingInv /\ [Next]_vars => [A]_vars
  <2> SUFFICES ASSUME TypeOK, StorageInv, PendingInv, Next, NEW g \in Readers,
                      reader[g].pc = "rows", reader'[g].pc = "idle", restarts' = restarts
               PROVE  reader'[g].missed \subseteq InHand
    OBVIOUS
  <2>1. ReadRows(g)
    <3>1. closer = "open"
      BY DEF PendingInv, ReadersFind
    <3>2. ASSUME NEW h \in Readers, NEW r \in Receivers, ReadIndex(h, r) PROVE FALSE
      <4>1. reader[h].pc = "idle" /\ h # g
        BY <3>2 DEF ReadIndex
      <4>2. reader'[g] = reader[g]
        BY <3>2, <4>1 DEF ReadIndex, TypeOK
      <4> QED BY <4>2
    <3>3. ASSUME NEW h \in Readers, ReadRows(h), h # g PROVE FALSE
      <4>1. reader'[g] = reader[g]
        BY <3>3 DEF ReadRows, TypeOK
      <4> QED BY <4>1
    <3>4. ~Restart
      BY DEF Restart, TypeOK
    <3>5. reader' # reader
      OBVIOUS
    <3>6. ~(\E p \in Packets : insert(p)) /\ ~SpuriousWakeup
          /\ ~(\E t \in Removers : RemovePush(t) \/ \E p \in Packets : remove(t, p))
      BY <3>5 DEF insert, remove, RemovePush, SpuriousWakeup, calls
    <3>7. ~Writer
      BY <3>5 DEF Writer, NextPacket, TestFlag, WriteToDatabase, WriteFails, Notify, RemoveFromDatabase, calls
    <3>8. ~Closer
      BY <3>5 DEF Closer, CloseBegin, CloseNotify, CloseJoin, PurgePacket, PurgeRemoval, CloseEnd, calls
    <3> QED BY <3>2, <3>3, <3>4, <3>6, <3>7, <3>8 DEF Next
  <2>2. PICK m : /\ m = reader[g].before \ (reader[g].seen \cup {p \in db : ReceiverOf[p] = reader[g].of}
                                             \cup acked \cup lost)
                 /\ reader' = [reader EXCEPT ![g] = [Idle EXCEPT !.missed = m]]
    BY <2>1 DEF ReadRows
  <2>3. reader'[g] = [Idle EXCEPT !.missed = m]
    BY <2>2 DEF TypeOK
  <2>4. [Idle EXCEPT !.missed = m].missed = m
    BY DEF Idle
  <2>5. m \subseteq InHand
    BY <2>2 DEF PendingInv, ReadersFind
  <2> QED BY <2>3, <2>4, <2>5
<1>2. (TypeOK /\ StorageInv /\ PendingInv) /\ [Next]_vars => [A]_vars
  BY <1>1
<1> QED BY <1>2, PendingAlways, PTL DEF Spec, PendingMissesOnlyWritersPacket

-----------------------------------------------------------------------------
(* The refinement.                                                         *)

\* What memory alone holds, as PacketStore sees it.
Held == Range(queue) \cup InHand

\* The abstract steps, as the storage takes them.
LEMMA AcceptedStep ==
    ASSUME NEW p \in Packets, p \notin Held \cup db \cup notified, Held' = Held \cup {p},
           UNCHANGED <<db, notified, acked>>
    PROVE  Store!StoreNext
BY DEF Held, Store!StoreNext, Store!Accept

LEMMA ForgottenStep ==
    ASSUME NEW P, P \subseteq Held, Held' = Held \ P, UNCHANGED <<db, notified, acked>>
    PROVE  Store!StoreNext
BY DEF Held, Store!StoreNext, Store!Forget

LEMMA StoredStep ==
    ASSUME NEW p \in Packets, p \in Held, Held' = Held \ {p}, db' = db \cup {p},
           UNCHANGED <<notified, acked>>
    PROVE  Store!StoreNext
BY DEF Held, Store!StoreNext, Store!Store

LEMMA ToldStep ==
    ASSUME NEW p \in Packets, p \in db \cup acked, notified' = notified \cup {p},
           Held' = Held, UNCHANGED <<db, acked>>
    PROVE  Store!StoreNext
BY DEF Held, Store!StoreNext, Store!Tell

LEMMA AcknowledgedStep ==
    ASSUME NEW p \in Packets, acked' = acked \cup {p}, Held' = Held, UNCHANGED <<db, notified>>
    PROVE  Store!StoreNext
BY DEF Held, Store!StoreNext, Store!Acknowledge

\* A DELETE takes the one row of an acknowledged packet, or none: no two rows share a number.
LEMMA ErasedStep ==
    ASSUME TypeOK, StorageInv, NEW a, RemovalOfAcked(a), db' = WithoutAck(a), Held' = Held,
           UNCHANGED <<notified, acked>>
    PROVE  [Store!StoreNext]_(Store!svars)
<1>1. CASE \E p \in db : ack[p] = a
  <2>1. PICK p \in db : ack[p] = a
    BY <1>1
  <2>2. p \in Packets /\ p \in acked
    BY <2>1 DEF TypeOK, RemovalOfAcked, Known
  <2>3. db' = db \ {p}
    BY <2>1 DEF WithoutAck, StorageInv, AckOfItsOwn, Known
  <2> QED BY <2>1, <2>2, <2>3 DEF Held, Store!StoreNext, Store!Erase
<1>2. CASE \A p \in db : ack[p] # a
  <2>1. db' = db
    BY <1>2 DEF WithoutAck
  <2> QED BY <2>1 DEF Held, Store!svars
<1> QED BY <1>1, <1>2

LEMMA StutteringStep ==
    ASSUME Held' = Held, UNCHANGED <<db, notified, acked>>
    PROVE  [Store!StoreNext]_(Store!svars)
BY DEF Held, Store!svars

\* Every step of the storage is one of PacketStore, or none.
LEMMA RefinementStep ==
    ASSUME TypeOK, StorageInv, PendingInv, [Next]_vars
    PROVE  [Store!StoreNext]_(Store!svars)
<1> USE DEF Held
<1>1. ASSUME NEW p \in Packets, insert(p) PROVE Store!StoreNext
  <2>1. /\ ack[p] = 0 /\ UNCHANGED <<db, notified, acked, hand>> /\ InHand' = InHand
    BY <1>1 DEF insert, NotifyWriter, InHand, history
  <2>2. p \notin Known /\ p # None /\ p \notin notified
    BY <2>1, NoneAssumption DEF StorageInv, AckOfItsOwn, PendingInv, ToldWasInserted
  <2>3. p \notin Range(queue) /\ p \notin InHand /\ p \notin db
    BY <2>2 DEF StorageInv, EverythingIssued, Known, InHand
  <2>4. Range(queue') = Range(queue) \cup {p}
    BY <1>1, RangeOfAppend DEF insert, TypeOK
  <2> QED BY <2>1, <2>2, <2>3, <2>4, AcceptedStep
<1>2. ASSUME NEW t \in Removers, NEW p \in Packets, remove(t, p) PROVE Store!StoreNext
  <2>1. acked' = acked \cup {p} /\ Held' = Held /\ UNCHANGED <<db, notified>>
    BY <1>2 DEF remove, thread, InHand
  <2> QED BY <2>1, AcknowledgedStep
<1>3. ASSUME NEW t \in Removers, RemovePush(t) PROVE [Store!StoreNext]_(Store!svars)
  <2>1. Held' = Held /\ UNCHANGED <<db, notified, acked>>
    BY <1>3 DEF RemovePush, NotifyWriter, InHand, history
  <2> QED BY <2>1, StutteringStep
<1>4. ASSUME NEW g \in Readers, NEW r \in Receivers, ReadIndex(g, r) PROVE [Store!StoreNext]_(Store!svars)
  <2>1. Held' = Held /\ UNCHANGED <<db, notified, acked>>
    BY <1>4 DEF ReadIndex, thread, InHand, history
  <2> QED BY <2>1, StutteringStep
<1>5. ASSUME NEW g \in Readers, ReadRows(g) PROVE [Store!StoreNext]_(Store!svars)
  <2>1. Held' = Held /\ UNCHANGED <<db, notified, acked>>
    BY <1>5 DEF ReadRows, thread, InHand, history
  <2> QED BY <2>1, StutteringStep
<1>6. CASE NextPacket
  <2>1. UNCHANGED <<db, notified, acked>> /\ InHand = {}
    BY <1>6 DEF NextPacket, calls, history, InHand
  <2>2. CASE queue = <<>>
    <3>1. queue' = queue /\ hand' = None
      BY <1>6, <2>2 DEF NextPacket
    <3>2. Held' = Held
      BY <2>1, <3>1 DEF InHand
    <3> QED BY <2>1, <3>2, StutteringStep
  <2>3. CASE queue # <<>>
    <3>1. /\ queue' = Tail(queue) /\ hand' = Head(queue) /\ index' = RemoveFromIndex(hand')
          /\ writer' = IF closed THEN "exited" ELSE "flag"
      BY <1>6, <2>3 DEF NextPacket
    <3>2. /\ Range(queue) = Range(queue') \cup {hand'} /\ hand' \notin Range(queue') /\ hand' # None
      <4>1. queue \in Seq(Packets) /\ \A i, j \in 1..Len(queue) : queue[i] = queue[j] => i = j
        BY DEF TypeOK, StorageInv, QueueOnce
      <4>2. /\ Range(queue) = Range(Tail(queue)) \cup {Head(queue)} /\ Head(queue) \notin Range(Tail(queue))
            /\ Head(queue) \in Packets
        BY <2>3, <4>1, RangeOfTail, DistinctTail
      <4> QED BY <3>1, <4>2, NoneAssumption
    <3>3. CASE closed
      <4>1. Held' = Held \ {hand'} /\ {hand'} \subseteq Held
        BY <2>1, <3>1, <3>2, <3>3 DEF InHand
      <4> QED BY <2>1, <4>1, ForgottenStep
    <3>4. CASE ~closed
      <4>1. Held' = Held
        BY <2>1, <3>1, <3>2, <3>4 DEF InHand
      <4> QED BY <2>1, <4>1, StutteringStep
    <3> QED BY <3>3, <3>4
  <2> QED BY <2>2, <2>3
<1>7. CASE SpuriousWakeup
  <2>1. Held' = Held /\ UNCHANGED <<db, notified, acked>>
    BY <1>7 DEF SpuriousWakeup, calls, InHand, history
  <2> QED BY <2>1, StutteringStep
<1>8. CASE TestFlag
  <2>1. UNCHANGED <<queue, hand, db, notified, acked>> /\ writer = "flag"
        /\ (writer' = "write" \/ hand = None \/ (hand # None /\ writer' = "notify"))
    BY <1>8 DEF TestFlag, calls, history
  <2>2. CASE writer' = "write" \/ hand = None
    <3>1. Held' = Held
      BY <2>1, <2>2 DEF InHand
    <3> QED BY <2>1, <3>1, StutteringStep
  <2>3. CASE hand # None /\ writer' = "notify"
    <3>1. InHand = {hand} /\ InHand' = {} /\ hand \notin Range(queue)
      BY <2>1, <2>3 DEF InHand, StorageInv, QueueOnce
    <3>2. Held' = Held \ {hand} /\ {hand} \subseteq Held
      BY <2>1, <3>1
    <3> QED BY <2>1, <3>2, ForgottenStep
  <2> QED BY <2>1, <2>2, <2>3
<1>9. CASE WriteToDatabase
  <2>1. UNCHANGED <<queue, hand, notified, acked>> /\ writer = "write" /\ writer' = "notify" /\ db' = db \cup {hand}
    BY <1>9 DEF WriteToDatabase, calls, history
  <2>2. hand \in Packets /\ hand # None
    BY <2>1 DEF StorageInv, WriterHoldsPacket, TypeOK
  <2>3. InHand = {hand} /\ InHand' = {} /\ hand \notin Range(queue)
    BY <2>1, <2>2 DEF InHand, StorageInv, QueueOnce
  <2>4. Held' = Held \ {hand} /\ hand \in Held
    BY <2>1, <2>3
  <2> QED BY <2>1, <2>2, <2>4, StoredStep
<1>10. CASE WriteFails
  <2>1. UNCHANGED <<queue, hand, db, notified, acked>> /\ writer = "write" /\ writer' = "remove"
    BY <1>10 DEF WriteFails, AfterFailedWrite, calls
  <2>2. hand # None
    BY <2>1 DEF StorageInv, WriterHoldsPacket
  <2>3. InHand = {hand} /\ InHand' = {} /\ hand \notin Range(queue)
    BY <2>1, <2>2 DEF InHand, StorageInv, QueueOnce
  <2>4. Held' = Held \ {hand} /\ {hand} \subseteq Held
    BY <2>1, <2>3
  <2> QED BY <2>1, <2>4, ForgottenStep
<1>11. CASE Notify
  <2>1. UNCHANGED <<queue, hand, db, acked>> /\ writer = "notify" /\ writer' = "remove"
        /\ notified' = notified \cup {hand}
    BY <1>11 DEF Notify, calls
  <2>2. hand \in Packets /\ hand \in db \cup acked
    BY <2>1 DEF StorageInv, WriterHoldsPacket, TypeOK
  <2>3. Held' = Held
    BY <2>1 DEF InHand
  <2> QED BY <2>1, <2>2, <2>3, ToldStep
<1>12. CASE RemoveFromDatabase
  <2>1. UNCHANGED <<queue, hand, notified, acked>> /\ writer = "remove" /\ writer' = "next"
        /\ (db' = WithoutAck(handAck) \/ db' = db)
    BY <1>12 DEF RemoveFromDatabase, calls
  <2>2. Held' = Held /\ RemovalOfAcked(handAck)
    BY <2>1 DEF InHand, StorageInv, OnlyAckedRemoved
  <2> QED BY <2>1, <2>2, ErasedStep, StutteringStep
<1>13. CASE CloseBegin
  <2>1. Held' = Held /\ UNCHANGED <<db, notified, acked>>
    BY <1>13 DEF CloseBegin, thread, InHand, history
  <2> QED BY <2>1, StutteringStep
<1>14. CASE CloseNotify
  <2>1. Held' = Held /\ UNCHANGED <<db, notified, acked>>
    BY <1>14 DEF CloseNotify, NotifyWriter, InHand, history
  <2> QED BY <2>1, StutteringStep
<1>15. CASE CloseJoin
  <2>1. Held' = Held /\ UNCHANGED <<db, notified, acked>>
    BY <1>15 DEF CloseJoin, InHand, history
  <2> QED BY <2>1, StutteringStep
<1>16. CASE PurgePacket
  <2>1. UNCHANGED <<notified, acked, hand, writer>> /\ queue # <<>> /\ queue' = Tail(queue)
        /\ (db' = db \/ db' = db \cup {Head(queue)})
    BY <1>16 DEF PurgePacket, thread, calls
  <2>2. PICK p : p = Head(queue)
    OBVIOUS
  <2>3. p \in Packets /\ Range(queue) = Range(queue') \cup {p} /\ p \notin Range(queue')
    <3>1. queue \in Seq(Packets) /\ \A i, j \in 1..Len(queue) : queue[i] = queue[j] => i = j
      BY DEF TypeOK, StorageInv, QueueOnce
    <3>2. /\ Range(queue) = Range(Tail(queue)) \cup {Head(queue)} /\ Head(queue) \notin Range(Tail(queue))
          /\ Head(queue) \in Packets
      BY <2>1, <3>1, RangeOfTail, DistinctTail
    <3> QED BY <2>1, <2>2, <3>2
  <2>4. p \notin InHand /\ InHand' = InHand
    BY <2>1, <2>3 DEF InHand, StorageInv, QueueOnce
  <2>5. Held' = Held \ {p} /\ p \in Held
    BY <2>3, <2>4
  <2> QED BY <2>1, <2>2, <2>3, <2>5, ForgottenStep, StoredStep
<1>17. CASE PurgeRemoval
  <2>1. UNCHANGED <<queue, hand, writer, notified, acked>> /\ removeQueue # <<>>
        /\ (db' = WithoutAck(Head(removeQueue)) \/ db' = db)
    BY <1>17 DEF PurgeRemoval, thread, calls
  <2>2. Head(removeQueue) \in Range(removeQueue)
    BY <2>1, RangeOfTail DEF TypeOK
  <2>3. RemovalOfAcked(Head(removeQueue))
    BY <2>2 DEF StorageInv, OnlyAckedRemoved
  <2>4. Held' = Held
    BY <2>1 DEF InHand
  <2> QED BY <2>1, <2>3, <2>4, ErasedStep, StutteringStep
<1>18. CASE CloseEnd
  <2>1. Held' = Held /\ UNCHANGED <<db, notified, acked>>
    BY <1>18 DEF CloseEnd, thread, InHand, history
  <2> QED BY <2>1, StutteringStep
<1>19. CASE Restart
  <2>1. UNCHANGED <<db, notified, acked>> /\ queue' = <<>> /\ writer' = "next"
    BY <1>19 DEF Restart, Fresh
  <2>2. Held' = {}
    BY <2>1, EmptyQueue DEF InHand
  <2>3. Held' = Held \ Held
    BY <2>2
  <2> QED BY <2>1, <2>3, ForgottenStep
<1>20. CASE UNCHANGED vars
  <2>1. Held' = Held /\ UNCHANGED <<db, notified, acked>>
    BY <1>20 DEF vars, thread, calls, history, InHand
  <2> QED BY <2>1, StutteringStep
<1> QED
  BY <1>1, <1>2, <1>3, <1>4, <1>5, <1>6, <1>7, <1>8, <1>9, <1>10, <1>11, <1>12, <1>13, <1>14,
     <1>15, <1>16, <1>17, <1>18, <1>19, <1>20 DEF Next, Writer, Closer

\* packet_storage, with its thread, its queues and its table, implements PacketStore: an accepted packet
\* goes from memory to the database, its sender is told after that or after the acknowledgement, and a
\* row goes only when it is acknowledged.  Every crash and failed statement is a step of PacketStore.
THEOREM StorageRefinement == Spec => StorageImplementsStore
<1>1. Init => Store!StoreInit
  <2> SUFFICES ASSUME Init PROVE Store!StoreInit
    OBVIOUS
  <2>1. Range(queue) = {} /\ InHand = {} /\ db = {} /\ notified = {} /\ acked = {}
    BY EmptyQueue DEF Init, InHand
  <2> QED BY <2>1 DEF Store!StoreInit
<1>2. (TypeOK /\ StorageInv /\ PendingInv) /\ [Next]_vars => [Store!StoreNext]_(Store!svars)
  BY RefinementStep
<1> QED BY <1>1, <1>2, PendingAlways, PTL DEF Spec, StorageImplementsStore, Store!StoreSpec
=============================================================================
