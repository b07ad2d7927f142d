------------------------ MODULE PacketTransportProofs ------------------------
(***************************************************************************)
(* What PacketTransport keeps for any number of clients, packets,          *)
(* connections, stored packets and breaks:  a packet with a key of its own *)
(* is not lost, and the server lets go only of what the receiver has.      *)
(***************************************************************************)
EXTENDS PacketTransport, FiniteSetTheorems, WellFoundedInduction, TLAPS

-----------------------------------------------------------------------------
(* The inductive invariant.                                                *)

\* Whoever refers to a connection refers to one that was made, by that client.
ConnsOwned ==
    /\ \A c \in Clients : conn[c] # 0 => conn[c] \in DOMAIN owner /\ owner[conn[c]] = c
    /\ \A c \in Clients : current[c] # 0 => current[c] \in DOMAIN owner /\ owner[current[c]] = c
    /\ \A c \in Clients : state[c] # "not_connected" \/ strand[c] # "idle" => conn[c] # 0
    /\ \A k \in Conns : k \notin DOMAIN owner => toServer[k] = <<>> /\ toClient[k] = <<>>

\* A row is a packet of the client that send_packet has written, under the key it returned.
RowsOwned ==
    \A c \in Clients, k \in Keys :
        out[c][k] # None =>
            SenderOf[out[c][k]] = c /\ keyOf[out[c][k]] = k /\ sending[out[c][k]] # "no"

Sent == {p \in Packets : sending[p] # "no"}

\* Keys are given once per call, so there are enough of them.
KeysSuffice ==
    \A p \in Packets : (sending[p] = "no" <=> keyOf[p] = 0) /\ keyOf[p] <= Cardinality(Sent)

\* A row whose key another packet has, or had, is of a packet that got it second.
SecondIsReused ==
    \A p, q \in Packets :
        p # q /\ SenderOf[p] = SenderOf[q] /\ keyOf[p] # 0 /\ keyOf[q] = keyOf[p]
            => p \in reused \/ out[SenderOf[p]][keyOf[p]] # p

\* What may be under way on a connection that client c made: to the server a packet with its
\* key, or the ack of one that c received; to the client a packet for c, or the ack of one
\* whose sender was told.
FromClient(c) ==
    {Hello} \cup {Transport(p, keyOf[p]) : p \in {q \in Sent : SenderOf[q] = c}}
            \cup {Ack(a) : a \in {b \in DOMAIN stored : stored[b].packet \in received[c]
                                                        /\ ReceiverOf[stored[b].packet] = c}}
FromServer(c) ==
    {Hello} \cup {Transport(stored[a].packet, a) :
                     a \in {b \in DOMAIN stored : ReceiverOf[stored[b].packet] = c}}
            \cup {Ack(stored[a].key) : a \in {b \in told : SenderOf[stored[b].packet] = c}}

Wires ==
    \A k \in DOMAIN owner, c \in Clients :
        owner[k] = c => toServer[k] \in Seq(FromClient(c)) /\ toClient[k] \in Seq(FromServer(c))

\* The server has a packet with the key its sender has given it, from a connection of its sender.
StoredAsSent ==
    \A a \in DOMAIN stored :
        LET p == stored[a].packet
        IN  /\ sending[p] # "no" /\ stored[a].key = keyOf[p]
            /\ stored[a].from \in DOMAIN owner /\ owner[stored[a].from] = SenderOf[p]

\* Of what the sender was told, the storage keeps the packet until it is acknowledged.
ToldIsKept == told \subseteq rows \cup acked

\* FreshKeyIsNeverLost, with told for what the storage has: it may still lose what is only held.
RowUntilTold ==
    \A p \in Packets : sending[p] # "no" => InOut(p) \/ Instances(p) \cap told # {} \/ p \in reused

Inv ==
    /\ TypeOK /\ ConnsOwned /\ RowsOwned /\ KeysSuffice /\ SecondIsReused
    /\ Wires /\ StoredAsSent /\ ToldIsKept /\ RowUntilTold /\ AckedMeansReceived

-----------------------------------------------------------------------------
(* Numbers and sequences.                                                  *)

\* A sequence over a set is one over a larger set.
LEMMA SeqGrows ==
    ASSUME NEW S, NEW T, S \subseteq T, NEW s \in Seq(S)
    PROVE  s \in Seq(T)
<1>1. s \in [1..Len(s) -> S] /\ Len(s) \in Nat
  OBVIOUS
<1>2. s \in [1..Len(s) -> T]
  BY <1>1
<1> QED BY <1>1, <1>2

LEMMA EmptySeq ==
    ASSUME NEW S
    PROVE  <<>> \in Seq(S)
OBVIOUS

\* One element of a function replaced, wherever it is.
LEMMA ExceptIn ==
    ASSUME NEW S, NEW T, NEW f \in [S -> T], NEW x, NEW v \in T
    PROVE  [f EXCEPT ![x] = v] \in [S -> T]
OBVIOUS

\* A set of numbers that is not empty has a smallest one.
LEMMA Smallest ==
    ASSUME NEW U \in SUBSET Nat, U # {}
    PROVE  \E m \in U : \A n \in U : m <= n
<1>1. PICK m \in U : \A y \in U : ~(<<y, m>> \in OpToRel(<, Nat))
  BY WFMin, NatLessThanWellFounded
<1>2. \A y \in U : ~(y < m)
  BY <1>1 DEF OpToRel
<1> QED BY <1>2

\* The table read in the order of its keys: InOrder lists elements of the set.
LEMMA InOrderLists ==
    ASSUME NEW N \in Nat, NEW S \in SUBSET (1..N)
    PROVE  InOrder(S) \in Seq(S)
<1> DEFINE upTo(n) == {m \in S : m <= n}
           C(n) == Cardinality(upTo(n))
<1>1. IsFiniteSet(S) /\ Cardinality(S) \in Nat
  <2>1. 1 \in Int /\ N \in Int
    OBVIOUS
  <2>2. IsFiniteSet(1..N)
    BY <2>1, FS_Interval
  <2> QED BY <2>2, FS_Subset, FS_CardinalityType
<1>2. \A m \in S : m \in Nat /\ 1 <= m /\ m <= N
  OBVIOUS
<1>3. ASSUME NEW n \in Nat PROVE IsFiniteSet(upTo(n)) /\ C(n) \in Nat
  <2>1. upTo(n) \in SUBSET S
    OBVIOUS
  <2> QED BY <1>1, <2>1, FS_Subset, FS_CardinalityType
<1>4. ASSUME NEW n \in Nat, n >= 1
      PROVE  C(n) = IF n \in S THEN C(n - 1) + 1 ELSE C(n - 1)
  <2> DEFINE l == n - 1
  <2>0. l \in Nat /\ ~(n <= l)
    BY <1>4
  <2>1. IsFiniteSet(upTo(l)) /\ n \notin upTo(l)
    <3> HIDE DEF l
    <3> QED BY <2>0, <1>3, Zenon
  <2>2. CASE n \in S
    <3>1. \A m \in S : m <= n <=> m <= n - 1 \/ m = n
      BY <1>2, <1>4
    <3>2. upTo(n) = upTo(n - 1) \cup {n}
      BY <2>2, <3>1, Zenon
    <3> QED BY <2>1, <2>2, <3>2, FS_AddElement
  <2>3. CASE n \notin S
    <3>1. \A m \in S : m <= n <=> m <= n - 1
      BY <1>2, <1>4, <2>3
    <3>2. upTo(n) = upTo(n - 1)
      BY <3>1, Zenon
    <3> QED BY <2>3, <3>2
  <2> QED BY <2>2, <2>3
<1>5. C(N) = Cardinality(S) /\ C(0) = 0
  <2>1. upTo(N) = S
    BY <1>2, Zenon
  <2>2. \A m \in S : ~(m <= 0)
    BY <1>2
  <2>3. upTo(0) = {}
    BY <2>2, Zenon
  <2> QED BY <2>1, <2>3, FS_EmptySet
<1> HIDE DEF C
<1>6. ASSUME NEW i \in 1..Cardinality(S)
      PROVE  \E n \in S : C(n) = i
  <2> DEFINE U == {n \in Nat : C(n) >= i}
  <2>1. N \in U
    BY <1>1, <1>5
  <2> HIDE DEF U
  <2>2. PICK n \in U : \A l \in U : n <= l
    BY <2>1, Smallest DEF U
  <2>3. n \in Nat /\ C(n) >= i
    BY <2>2 DEF U
  <2>4. n >= 1
    BY <2>3, <1>5
  <2>5. n - 1 \in Nat /\ n - 1 \notin U
    BY <2>2, <2>3, <2>4
  <2>6. C(n - 1) \in Nat /\ C(n) \in Nat
    BY <2>3, <2>5, <1>3
  <2>7. C(n - 1) < i
    BY <2>5, <2>6 DEF U
  <2> QED BY <2>3, <2>4, <2>6, <2>7, <1>1, <1>4
<1>7. ASSUME NEW i \in 1..Cardinality(S) PROVE (CHOOSE n \in S : C(n) = i) \in S
  BY <1>6
<1>8. InOrder(S) = [i \in 1..Cardinality(S) |-> CHOOSE n \in S : C(n) = i]
  BY DEF InOrder, C
<1> QED BY <1>1, <1>7, <1>8

\* INTEGER PRIMARY KEY: the next key is one that no row has, and there is one.
LEMMA NextKeyIsFree ==
    ASSUME Inv, NEW p \in Packets, sending[p] = "no"
    PROVE  LET table == out[SenderOf[p]]
               k == NextKey(table)
           IN  k \in Keys /\ table[k] = None /\ k <= Cardinality(Sent) + 1
<1> DEFINE table == out[SenderOf[p]]
           used == {k \in Keys : table[k] # None}
           n == Cardinality(Sent)
           U == {m \in Nat : \A u \in used : u <= m}
<1>1. IsFiniteSet(Sent) /\ n \in Nat /\ n + 1 <= Cardinality(Packets) /\ Cardinality(Packets) \in Nat
  <2>1. IsFiniteSet(Sent) /\ Sent \subseteq Packets /\ p \notin Sent
    BY PacketsAssumption, FS_Subset DEF Sent
  <2>2. Cardinality(Sent \cup {p}) = n + 1 /\ IsFiniteSet(Sent \cup {p})
    BY <2>1, FS_AddElement
  <2>3. Cardinality(Sent \cup {p}) <= Cardinality(Packets)
    BY <2>1, PacketsAssumption, FS_Subset
  <2> QED BY <2>1, <2>2, <2>3, PacketsAssumption, FS_CardinalityType
<1>2. SenderOf[p] \in Clients /\ table \in [Keys -> Packets \cup {None}]
  BY RouteAssumption DEF Inv, TypeOK
<1>3. \A u \in used : u \in Nat /\ u >= 1 /\ u <= n
  <2> SUFFICES ASSUME NEW u \in used PROVE u \in Nat /\ u >= 1 /\ u <= n
    OBVIOUS
  <2>1. u \in Keys /\ keyOf[table[u]] = u /\ table[u] \in Packets
    BY <1>2 DEF Inv, RowsOwned
  <2>2. keyOf[table[u]] <= n
    BY <2>1 DEF Inv, KeysSuffice
  <2> QED BY <2>1, <2>2, <1>1 DEF Keys
<1>4. n \in U /\ U \subseteq Nat
  BY <1>1, <1>3
<1> HIDE DEF U
<1>5. PICK m \in U : \A l \in U : m <= l
  BY <1>4, Smallest
<1>6. m \in Nat /\ m <= n /\ \A u \in used : u <= m
  BY <1>4, <1>5 DEF U
<1>7. m \in used \cup {0}
  <2> SUFFICES ASSUME m # 0, m \notin used PROVE FALSE
    OBVIOUS
  <2>1. m - 1 \in Nat /\ \A u \in used : u <= m - 1
    BY <1>6, <1>3
  <2>2. m - 1 \in U
    BY <2>1 DEF U
  <2> QED BY <2>2, <1>5, <1>6
<1>8. m + 1 \in Keys /\ (m + 1) - 1 \in used \cup {0} /\ \A u \in used : u < m + 1
  BY <1>1, <1>3, <1>6, <1>7 DEF Keys
<1> DEFINE k == NextKey(table)
<1>9. k \in Keys /\ k - 1 \in used \cup {0} /\ \A u \in used : u < k
  BY <1>8 DEF NextKey
<1>10. k \notin used
  BY <1>3, <1>9
<1>11. k <= n + 1
  BY <1>1, <1>3, <1>9 DEF Keys
<1> QED BY <1>9, <1>10, <1>11

-----------------------------------------------------------------------------
(* What grows only, and what follows for the parts of the invariant that   *)
(* an action leaves alone.                                                 *)

Grows ==
    /\ \A p \in Packets : sending[p] # "no" => sending'[p] # "no" /\ keyOf'[p] = keyOf[p]
    /\ \A a \in DOMAIN stored : a \in DOMAIN stored' /\ stored'[a] = stored[a]
    /\ \A c \in Clients : received[c] \subseteq received'[c]
    /\ \A k \in DOMAIN owner : k \in DOMAIN owner' /\ owner'[k] = owner[k]
    /\ told \subseteq told'

\* The tables of the senders are as they were, and no call of send_packet begins.
TablesStay ==
    /\ UNCHANGED <<out, keyOf, reused>>
    /\ \A p \in Packets : sending'[p] # "no" <=> sending[p] # "no"

LEMMA TablesFrame ==
    ASSUME Inv, Grows, TablesStay
    PROVE  RowsOwned' /\ KeysSuffice' /\ SecondIsReused' /\ RowUntilTold'
<1> USE DEF Inv, TypeOK, Grows, TablesStay
<1>1. Sent' = Sent
  BY DEF Sent
<1>2. RowsOwned'
  BY DEF RowsOwned
<1>3. KeysSuffice'
  BY <1>1 DEF KeysSuffice
<1>4. SecondIsReused'
  BY DEF SecondIsReused
<1>5. RowUntilTold'
  <2> SUFFICES ASSUME NEW p \in Packets, sending'[p] # "no", p \notin reused', ~InOut(p)'
               PROVE  Instances(p)' \cap told' # {}
    BY DEF RowUntilTold
  <2>1. ~InOut(p)
    BY DEF InOut
  <2>2. PICK a \in Instances(p) : a \in told
    BY <2>1 DEF RowUntilTold
  <2>3. a \in Instances(p)' /\ a \in told'
    BY <2>2 DEF Instances
  <2> QED BY <2>3
<1> QED BY <1>2, <1>3, <1>4, <1>5

LEMMA StoreFrame ==
    ASSUME Inv, Grows, UNCHANGED <<stored, held, rows, told, acked>>
    PROVE  StoredAsSent' /\ ToldIsKept' /\ AckedMeansReceived'
<1> USE DEF Inv, TypeOK, Grows
<1>1. \A a \in DOMAIN stored : stored[a] \in StoredPackets
  OBVIOUS
<1>2. StoredAsSent'
  BY <1>1 DEF StoredAsSent, StoredPackets
<1>3. AckedMeansReceived'
  <2> SUFFICES ASSUME NEW a \in acked'
               PROVE  stored'[a].packet \in received'[ReceiverOf[stored'[a].packet]]
    BY DEF AckedMeansReceived
  <2>1. a \in acked /\ a \in DOMAIN stored /\ stored'[a] = stored[a]
    OBVIOUS
  <2>2. stored[a].packet \in received[ReceiverOf[stored[a].packet]]
    BY <2>1 DEF AckedMeansReceived
  <2>3. stored[a].packet \in Packets /\ ReceiverOf[stored[a].packet] \in Clients
    BY <1>1, <2>1, RouteAssumption DEF StoredPackets
  <2> QED BY <2>1, <2>2, <2>3
<1> QED BY <1>2, <1>3 DEF ToldIsKept

\* What may be under way stays so.
LEMMA WiresGrow ==
    ASSUME Inv, Grows, NEW c \in Clients
    PROVE  FromClient(c) \subseteq FromClient(c)' /\ FromServer(c) \subseteq FromServer(c)'
<1> USE DEF Inv, TypeOK, Grows
<1>1. FromClient(c) \subseteq FromClient(c)'
  <2> SUFFICES ASSUME NEW m \in FromClient(c) PROVE m \in FromClient(c)'
    OBVIOUS
  <2>1. CASE m = Hello
    BY <2>1 DEF FromClient
  <2>2. CASE \E p \in Sent : SenderOf[p] = c /\ m = Transport(p, keyOf[p])
    <3>1. PICK p \in Sent : SenderOf[p] = c /\ m = Transport(p, keyOf[p])
      BY <2>2
    <3>2. p \in Sent' /\ m = Transport(p, keyOf'[p])
      BY <3>1 DEF Sent
    <3> QED BY <3>1, <3>2 DEF FromClient
  <2>3. CASE \E a \in DOMAIN stored : /\ stored[a].packet \in received[c]
                                      /\ ReceiverOf[stored[a].packet] = c /\ m = Ack(a)
    <3>1. PICK a \in DOMAIN stored : /\ stored[a].packet \in received[c]
                                     /\ ReceiverOf[stored[a].packet] = c /\ m = Ack(a)
      BY <2>3
    <3>2. a \in DOMAIN stored' /\ stored'[a] = stored[a] /\ stored[a].packet \in received'[c]
      BY <3>1
    <3> QED BY <3>1, <3>2 DEF FromClient
  <2> QED BY <2>1, <2>2, <2>3 DEF FromClient
<1>2. FromServer(c) \subseteq FromServer(c)'
  <2> SUFFICES ASSUME NEW m \in FromServer(c) PROVE m \in FromServer(c)'
    OBVIOUS
  <2>1. CASE m = Hello
    BY <2>1 DEF FromServer
  <2>2. CASE \E a \in DOMAIN stored : ReceiverOf[stored[a].packet] = c /\ m = Transport(stored[a].packet, a)
    <3>1. PICK a \in DOMAIN stored : ReceiverOf[stored[a].packet] = c /\ m = Transport(stored[a].packet, a)
      BY <2>2
    <3>2. a \in DOMAIN stored' /\ stored'[a] = stored[a]
      BY <3>1
    <3> QED BY <3>1, <3>2 DEF FromServer
  <2>3. CASE \E a \in told : SenderOf[stored[a].packet] = c /\ m = Ack(stored[a].key)
    <3>1. PICK a \in told : SenderOf[stored[a].packet] = c /\ m = Ack(stored[a].key)
      BY <2>3
    <3>2. a \in told' /\ stored'[a] = stored[a]
      BY <3>1
    <3> QED BY <3>1, <3>2 DEF FromServer
  <2> QED BY <2>1, <2>2, <2>3 DEF FromServer
<1> QED BY <1>1, <1>2

\* It is enough to look at what an action puts on a connection or takes from it.
LEMMA WiresFrame ==
    ASSUME Inv, Grows,
           \A k \in DOMAIN owner', c \in Clients : owner'[k] = c =>
              /\ \/ k \in DOMAIN owner /\ toServer'[k] = toServer[k]
                 \/ toServer'[k] \in Seq(FromClient(c)')
              /\ \/ k \in DOMAIN owner /\ toClient'[k] = toClient[k]
                 \/ toClient'[k] \in Seq(FromServer(c)')
    PROVE  Wires'
<1> SUFFICES ASSUME NEW k \in DOMAIN owner', NEW c \in Clients, owner'[k] = c
             PROVE  /\ toServer'[k] \in Seq(FromClient(c)')
                    /\ toClient'[k] \in Seq(FromServer(c)')
  BY DEF Wires
<1>1. FromClient(c) \subseteq FromClient(c)' /\ FromServer(c) \subseteq FromServer(c)'
  BY WiresGrow
<1>2. ASSUME k \in DOMAIN owner, toServer'[k] = toServer[k]
      PROVE  toServer'[k] \in Seq(FromClient(c)')
  <2>1. toServer[k] \in Seq(FromClient(c))
    BY <1>2 DEF Grows, Inv, Wires
  <2> QED BY <1>1, <1>2, <2>1, SeqGrows
<1>3. ASSUME k \in DOMAIN owner, toClient'[k] = toClient[k]
      PROVE  toClient'[k] \in Seq(FromServer(c)')
  <2>1. toClient[k] \in Seq(FromServer(c))
    BY <1>3 DEF Grows, Inv, Wires
  <2> QED BY <1>1, <1>3, <2>1, SeqGrows
<1> QED BY <1>2, <1>3

-----------------------------------------------------------------------------
(* One lemma for each action: it keeps the invariant.                      *)

\* The bounds are those of the sets of numbers.
LEMMA MadeConns ==
    ASSUME Inv
    PROVE  /\ DOMAIN owner = 1..Len(owner) /\ DOMAIN owner \subseteq Conns
           /\ DOMAIN stored = 1..Len(stored) /\ DOMAIN stored \subseteq StoredAcks
<1>1. DOMAIN owner = 1..Len(owner) /\ DOMAIN owner \subseteq Conns
  BY BoundAssumption, SMTT(20) DEF Inv, TypeOK, Conns
<1>2. DOMAIN stored = 1..Len(stored) /\ DOMAIN stored \subseteq StoredAcks
  BY BoundAssumption DEF Inv, TypeOK, StoredAcks
<1> QED BY <1>1, <1>2

\* The caller's thread looks at the connection's state.
LEMMA SendCheckStep ==
    ASSUME Inv, NEW p \in Packets, SendCheck(p)
    PROVE  Inv'
<1> USE DEF SendCheck, netVars, serverVars, store
<1>1. Grows
  BY DEF Grows, Inv, TypeOK
<1>2. TablesStay
  BY DEF TablesStay, Inv, TypeOK
<1>3. TypeOK'
  BY DEF Inv, TypeOK, Handling
<1>4. ConnsOwned'
  BY DEF Inv, ConnsOwned
<1>5. Wires'
  BY <1>1, WiresFrame
<1> QED BY <1>1, <1>2, <1>3, <1>4, <1>5, TablesFrame, StoreFrame DEF Inv

\* A connection object is made: nothing is under way on it.
LEMMA ConnectStep ==
    ASSUME Inv, NEW c \in Clients, connect(c)
    PROVE  Inv'
<1> USE DEF connect, serverVars, store
<1> DEFINE k == Len(owner) + 1
<1>1. owner \in Seq(Clients) /\ k \in Conns /\ k \notin DOMAIN owner
  BY BoundAssumption, SMTT(20) DEF Inv, TypeOK, Conns
<1>2. owner' \in Seq(Clients) /\ Len(owner') = k /\ owner'[k] = c /\ DOMAIN owner' = DOMAIN owner \cup {k}
         /\ \A l \in DOMAIN owner : owner'[l] = owner[l]
  BY <1>1
<1> HIDE DEF k
<1>3. Grows
  BY <1>2 DEF Grows, Inv, TypeOK
<1>4. TablesStay
  BY DEF TablesStay, Inv, TypeOK
<1>5. TypeOK'
  <2>1. /\ owner' \in Seq(Clients) /\ Len(owner') <= MaxConns
        /\ conn' \in [Clients -> Conns \cup {0}] /\ clientUp' \in [Conns -> BOOLEAN]
        /\ state' \in [Clients -> {"not_connected", "connecting", "connected"}]
    BY <1>1, <1>2 DEF Inv, TypeOK, Conns, k
  <2>2. UNCHANGED <<out, received, helloDone, strand, sending, keyOf, reused, breaks,
                    serverUp, toServer, toClient, serverVars, store>>
    OBVIOUS
  <2> HIDE DEF connect
  <2> QED BY <2>1, <2>2 DEF Inv, TypeOK, Handling
<1>6. ConnsOwned'
  BY <1>1, <1>2 DEF Inv, TypeOK, ConnsOwned, k
<1>7. toServer'[k] = <<>> /\ toClient'[k] = <<>>
  BY <1>1 DEF Inv, ConnsOwned
<1>8. ASSUME NEW l \in DOMAIN owner', NEW d \in Clients, owner'[l] = d
      PROVE  /\ \/ l \in DOMAIN owner /\ toServer'[l] = toServer[l]
                \/ toServer'[l] \in Seq(FromClient(d)')
             /\ \/ l \in DOMAIN owner /\ toClient'[l] = toClient[l]
                \/ toClient'[l] \in Seq(FromServer(d)')
  <2>1. CASE l = k
    BY <2>1, <1>7, EmptySeq, Zenon
  <2>2. CASE l \in DOMAIN owner
    BY <2>2
  <2> QED BY <1>2, <2>1, <2>2
<1>9. Wires'
  BY <1>3, <1>8, WiresFrame
<1> QED BY <1>3, <1>4, <1>5, <1>6, <1>9, TablesFrame, StoreFrame DEF Inv

\* The handshake is done on both sides.
LEMMA BecomeConnectedStep ==
    ASSUME Inv, NEW c \in Clients, BecomeConnected(c)
    PROVE  Inv'
<1> USE DEF BecomeConnected, serverVars, store
<1>1. Grows
  BY DEF Grows, Inv, TypeOK
<1>2. TablesStay
  BY DEF TablesStay, Inv, TypeOK
<1>3. TypeOK'
  BY DEF Inv, TypeOK, Handling
<1>4. ConnsOwned'
  BY DEF Inv, TypeOK, ConnsOwned
<1>5. Wires'
  BY <1>1, WiresFrame
<1> QED BY <1>1, <1>2, <1>3, <1>4, <1>5, TablesFrame, StoreFrame DEF Inv

\* Each break is counted.
LEMMA BreakCounts ==
    ASSUME Inv, NEW c \in Clients
    PROVE  (Break(c) \/ breaks' = breaks) => breaks' \in [Clients -> Nat]
<1>1. breaks \in [Clients -> Nat]
  BY DEF Inv, TypeOK
<1> QED BY <1>1 DEF Break

\* The connection breaks: what is under way to the client is lost.
LEMMA DisconnectStep ==
    ASSUME Inv, NEW c \in Clients, Disconnected(c), breaks' \in [Clients -> Nat]
    PROVE  Inv'
<1> USE DEF Disconnected, serverVars, store
<1>1. Grows
  BY DEF Grows, Inv, TypeOK
<1>2. TablesStay
  BY DEF TablesStay, Inv, TypeOK
<1>3. TypeOK'
  <2>1. toClient' \in [Conns -> Seq(ToClientMessages)]
    BY EmptySeq, ExceptIn, Zenon DEF Inv, TypeOK
  <2>2. clientUp' \in [Conns -> BOOLEAN]
    BY DEF Inv, TypeOK
  <2>3. state' \in [Clients -> {"not_connected", "connecting", "connected"}]
    BY DEF Inv, TypeOK
  <2>4. UNCHANGED <<out, received, conn, helloDone, strand, sending, keyOf, reused,
                    owner, serverUp, toServer, serverVars, store>>
    OBVIOUS
  <2> HIDE DEF Disconnected
  <2> QED BY <2>1, <2>2, <2>3, <2>4 DEF Inv, TypeOK, Handling
<1>4. ConnsOwned'
  BY DEF Inv, TypeOK, ConnsOwned
<1>5. ASSUME NEW k \in Conns PROVE toClient'[k] = toClient[k] \/ toClient'[k] = <<>>
  BY DEF Inv, TypeOK
<1>6. DOMAIN owner \subseteq Conns
  BY MadeConns
<1>7. Wires'
  BY <1>1, <1>5, <1>6, WiresFrame
<1> QED BY <1>1, <1>2, <1>3, <1>4, <1>7, TablesFrame, StoreFrame DEF Inv

\* The process ends: the tables are what is left.
LEMMA CrashStep ==
    ASSUME Inv, NEW c \in Clients, Crash(c)
    PROVE  Inv'
<1> USE DEF Crash, serverVars, store
<1>0. breaks' \in [Clients -> Nat]
  BY BreakCounts DEF Crash
<1>1. Grows
  BY DEF Grows, Inv, TypeOK
<1>2. TablesStay
  BY DEF TablesStay, Inv, TypeOK
<1>3. TypeOK'
  <2>1. toClient' \in [Conns -> Seq(ToClientMessages)]
    BY EmptySeq DEF Inv, TypeOK
  <2>2. clientUp' \in [Conns -> BOOLEAN]
    OBVIOUS
  <2>3. /\ state' \in [Clients -> {"not_connected", "connecting", "connected"}]
        /\ helloDone' \in [Clients -> BOOLEAN] /\ strand' \in [Clients -> {"idle", "on_connected", "resend"}]
    BY DEF Inv, TypeOK
  <2>4. sending' \in [Packets -> {"no", "check", "send", "done"}]
    BY DEF Inv, TypeOK
  <2>5. UNCHANGED <<out, received, conn, keyOf, reused, owner, serverUp, toServer, serverVars, store>>
    OBVIOUS
  <2> HIDE DEF Crash
  <2> QED BY <1>0, <2>1, <2>2, <2>3, <2>4, <2>5 DEF Inv, TypeOK, Handling
<1>4. ConnsOwned'
  BY DEF Inv, TypeOK, ConnsOwned
<1>5. DOMAIN owner \subseteq Conns
  BY MadeConns
<1>6. Wires'
  BY <1>1, <1>5, WiresFrame
<1> QED BY <1>1, <1>2, <1>3, <1>4, <1>6, TablesFrame, StoreFrame DEF Inv

\* The server drops a connection: what is under way to it is lost.
LEMMA TerminateStep ==
    ASSUME Inv, NEW k \in DOMAIN owner, Terminated(k), breaks' \in [Clients -> Nat]
    PROVE  Inv'
<1> USE DEF Terminated, store
<1>1. Grows
  BY DEF Grows, Inv, TypeOK
<1>2. TablesStay
  BY DEF TablesStay, Inv, TypeOK
<1>3. TypeOK'
  <2>1. toServer' \in [Conns -> Seq(ToServerMessages)]
    BY EmptySeq, ExceptIn, Zenon DEF Inv, TypeOK
  <2>2. serverUp' \in [Conns -> BOOLEAN] /\ good' \in [Conns -> BOOLEAN]
    BY DEF Inv, TypeOK
  <2>3. ackMap' \in [Conns -> SUBSET StoredAcks]
    BY DEF Inv, TypeOK
  <2>4. UNCHANGED <<out, received, state, conn, helloDone, strand, sending, keyOf, reused,
                    owner, clientUp, toClient, current, handling, stored, skipped, store>>
    OBVIOUS
  <2> HIDE DEF Terminated
  <2> QED BY <2>1, <2>2, <2>3, <2>4 DEF Inv, TypeOK, Handling
<1>4. ConnsOwned'
  BY DEF Inv, TypeOK, ConnsOwned
<1>5. DOMAIN owner \subseteq Conns
  BY MadeConns
<1>6. ASSUME NEW l \in Conns PROVE toServer'[l] = toServer[l] \/ toServer'[l] = <<>>
  BY DEF Inv, TypeOK
<1>7. Wires'
  BY <1>1, <1>5, <1>6, WiresFrame
<1> QED BY <1>1, <1>2, <1>3, <1>4, <1>7, TablesFrame, StoreFrame DEF Inv

\* The storage writes, loses or erases a packet.
LEMMA StorageStep ==
    ASSUME Inv, NEW a \in DOMAIN stored, StorageWrite(a) \/ StorageLose(a) \/ StorageErase(a)
    PROVE  Inv'
<1> USE DEF StorageWrite, StorageLose, StorageErase, Store!Store, Store!Forget, Store!Erase,
            clientVars, netVars, serverVars
<1>1. Grows
  BY DEF Grows, Inv, TypeOK
<1>2. TablesStay
  BY DEF TablesStay, Inv, TypeOK
<1>3. TypeOK'
  BY DEF Inv, TypeOK, Handling
<1>4. ConnsOwned'
  BY DEF Inv, ConnsOwned
<1>5. Wires'
  BY <1>1, WiresFrame
<1>6. StoredAsSent' /\ ToldIsKept' /\ AckedMeansReceived'
  BY DEF Inv, StoredAsSent, ToldIsKept, AckedMeansReceived
<1> QED BY <1>1, <1>2, <1>3, <1>4, <1>5, <1>6, TablesFrame DEF Inv
-----------------------------------------------------------------------------
(* Messages put on a connection and taken from it.                         *)

\* What may be under way are messages of the protocol.
LEMMA MessageTypes ==
    ASSUME Inv, NEW c \in Clients
    PROVE  FromClient(c) \subseteq ToServerMessages /\ FromServer(c) \subseteq ToClientMessages
<1>1. \A p \in Sent : p \in Packets /\ keyOf[p] \in Keys
  BY DEF Inv, TypeOK, KeysSuffice, Sent
<1>2. DOMAIN stored \subseteq StoredAcks /\ told \subseteq DOMAIN stored
  BY MadeConns DEF Inv, TypeOK
<1>3. \A a \in DOMAIN stored : stored[a].packet \in Packets /\ stored[a].key \in Keys
  <2>1. \A a \in DOMAIN stored : stored[a] \in StoredPackets
    BY DEF Inv, TypeOK
  <2> QED BY <2>1 DEF StoredPackets
<1>4. FromClient(c) \subseteq ToServerMessages
  <2> SUFFICES ASSUME NEW m \in FromClient(c) PROVE m \in ToServerMessages
    OBVIOUS
  <2>1. CASE \E p \in Sent : m = Transport(p, keyOf[p])
    BY <2>1, <1>1 DEF ToServerMessages
  <2>2. CASE \E a \in DOMAIN stored : m = Ack(a)
    BY <2>2, <1>2 DEF ToServerMessages
  <2> QED BY <2>1, <2>2 DEF FromClient, ToServerMessages
<1>5. FromServer(c) \subseteq ToClientMessages
  <2> SUFFICES ASSUME NEW m \in FromServer(c) PROVE m \in ToClientMessages
    OBVIOUS
  <2>1. CASE \E a \in DOMAIN stored : m = Transport(stored[a].packet, a)
    BY <2>1, <1>2, <1>3 DEF ToClientMessages
  <2>2. CASE \E a \in told : m = Ack(stored[a].key)
    BY <2>2, <1>2, <1>3 DEF ToClientMessages
  <2> QED BY <2>1, <2>2 DEF FromServer, ToClientMessages
<1> QED BY <1>4, <1>5

LEMMA HeadTail ==
    ASSUME NEW S, NEW s \in Seq(S), s # <<>>
    PROVE  Head(s) \in S /\ Tail(s) \in Seq(S)
OBVIOUS

LEMMA Concat ==
    ASSUME NEW S, NEW s \in Seq(S), NEW t \in Seq(S)
    PROVE  s \o t \in Seq(S)
OBVIOUS

LEMMA OneMore ==
    ASSUME NEW S, NEW s \in Seq(S), NEW m \in S
    PROVE  Append(s, m) \in Seq(S) /\ <<m>> \in Seq(S)
OBVIOUS

\* The strand of a client takes the next message of its current connection.
LEMMA ClientTakes ==
    ASSUME Inv, NEW c \in Clients, NEW type, ClientNext(c, type)
    PROVE  /\ conn[c] \in DOMAIN owner /\ owner[conn[c]] = c
           /\ ClientMessage(c) \in FromServer(c) /\ ClientMessage(c).type = type
           /\ toClient' \in [Conns -> Seq(ToClientMessages)]
           /\ \A l \in Conns : l \notin DOMAIN owner => toClient'[l] = <<>>
           /\ \A l \in DOMAIN owner, d \in Clients :
                  owner[l] = d => toClient'[l] \in Seq(FromServer(d))
<1> DEFINE k == conn[c]
<1>1. k \in DOMAIN owner /\ owner[k] = c /\ k \in Conns
  BY MadeConns DEF Inv, ConnsOwned, ClientNext
<1>2. toClient[k] \in Seq(FromServer(c)) /\ toClient[k] # <<>>
  BY <1>1 DEF Inv, Wires, ClientNext
<1>3. Head(toClient[k]) \in FromServer(c) /\ Tail(toClient[k]) \in Seq(FromServer(c))
  BY <1>2, HeadTail
<1>4. toClient \in [Conns -> Seq(ToClientMessages)] /\ Tail(toClient[k]) \in Seq(ToClientMessages)
  BY <1>1, <1>2, HeadTail DEF Inv, TypeOK
<1>5. toClient' = [toClient EXCEPT ![k] = Tail(toClient[k])] /\ Head(toClient[k]).type = type
  BY DEF ClientNext
<1>6. toClient' \in [Conns -> Seq(ToClientMessages)]
  BY <1>4, <1>5, ExceptIn
<1>7. \A l \in Conns : toClient'[l] = IF l = k THEN Tail(toClient[k]) ELSE toClient[l]
  BY <1>4, <1>5, Zenon
<1>8. DOMAIN owner \subseteq Conns
  BY MadeConns
<1> QED BY <1>1, <1>3, <1>5, <1>6, <1>7, <1>8 DEF ClientMessage, Inv, ConnsOwned, Wires

\* The strand of a server's connection takes its next message.
LEMMA ServerTakes ==
    ASSUME Inv, NEW k \in DOMAIN owner, NEW type, ServerNext(k, type)
    PROVE  /\ owner[k] \in Clients
           /\ ServerMessage(k) \in FromClient(owner[k]) /\ ServerMessage(k).type = type
           /\ toServer' \in [Conns -> Seq(ToServerMessages)]
           /\ \A l \in Conns : l \notin DOMAIN owner => toServer'[l] = <<>>
           /\ \A l \in DOMAIN owner, d \in Clients :
                  owner[l] = d => toServer'[l] \in Seq(FromClient(d))
<1> DEFINE c == owner[k]
<1>1. k \in Conns /\ c \in Clients
  BY MadeConns DEF Inv, TypeOK
<1>2. toServer[k] \in Seq(FromClient(c)) /\ toServer[k] # <<>>
  BY <1>1 DEF Inv, Wires, ServerNext
<1>3. Head(toServer[k]) \in FromClient(c) /\ Tail(toServer[k]) \in Seq(FromClient(c))
  BY <1>2, HeadTail
<1>4. toServer \in [Conns -> Seq(ToServerMessages)] /\ Tail(toServer[k]) \in Seq(ToServerMessages)
  BY <1>1, <1>2, HeadTail DEF Inv, TypeOK
<1>5. toServer' = [toServer EXCEPT ![k] = Tail(toServer[k])] /\ Head(toServer[k]).type = type
  BY DEF ServerNext
<1>6. toServer' \in [Conns -> Seq(ToServerMessages)]
  BY <1>4, <1>5, ExceptIn
<1>7. \A l \in Conns : toServer'[l] = IF l = k THEN Tail(toServer[k]) ELSE toServer[l]
  BY <1>4, <1>5, Zenon
<1>8. DOMAIN owner \subseteq Conns
  BY MadeConns
<1> QED BY <1>1, <1>3, <1>5, <1>6, <1>7, <1>8 DEF ServerMessage, Inv, ConnsOwned, Wires

\* Messages that its client may send are put on a connection, or are not.
LEMMA PutToServer ==
    ASSUME Inv, Grows, UNCHANGED owner,
           NEW k \in DOMAIN owner, NEW c \in Clients, owner[k] = c,
           NEW ms \in Seq(ToServerMessages), ms \in Seq(FromClient(c)'),
           toServer' = [toServer EXCEPT ![k] = @ \o ms] \/ toServer' = toServer
    PROVE  /\ toServer' \in [Conns -> Seq(ToServerMessages)]
           /\ \A l \in Conns : l \notin DOMAIN owner => toServer'[l] = <<>>
           /\ \A l \in DOMAIN owner, d \in Clients :
                  owner[l] = d => toServer'[l] \in Seq(FromClient(d)')
<1>1. k \in Conns /\ DOMAIN owner \subseteq Conns
  BY MadeConns DEF Inv, TypeOK
<1>2. toServer \in [Conns -> Seq(ToServerMessages)]
  BY DEF Inv, TypeOK
<1>3. \A l \in DOMAIN owner, d \in Clients :
          owner[l] = d => toServer[l] \in Seq(FromClient(d)')
  BY WiresGrow, SeqGrows DEF Inv, Wires
<1>4. toServer[k] \o ms \in Seq(ToServerMessages)
  BY <1>1, <1>2, Concat
<1>5. toServer[k] \o ms \in Seq(FromClient(c)')
  BY <1>1, <1>3, Concat
<1>6. CASE toServer' = toServer
  BY <1>2, <1>3, <1>6 DEF Inv, ConnsOwned
<1>7. CASE toServer' = [toServer EXCEPT ![k] = toServer[k] \o ms]
  <2>1. toServer' \in [Conns -> Seq(ToServerMessages)]
    BY <1>2, <1>4, <1>7, ExceptIn
  <2>2. \A l \in Conns : toServer'[l] = IF l = k THEN toServer[k] \o ms ELSE toServer[l]
    BY <1>2, <1>7, Zenon
  <2>3. \A l \in Conns : l \notin DOMAIN owner => toServer'[l] = <<>>
    BY <2>2 DEF Inv, ConnsOwned
  <2>4. ASSUME NEW l \in DOMAIN owner, NEW d \in Clients, owner[l] = d
        PROVE  toServer'[l] \in Seq(FromClient(d)')
    <3>1. CASE l = k
      BY <3>1, <2>4, <2>2, <1>1, <1>5, Zenon
    <3>2. CASE l # k
      BY <3>2, <2>4, <2>2, <1>1, <1>3, Zenon
    <3> QED BY <3>1, <3>2
  <2> QED BY <2>1, <2>3, <2>4
<1> QED BY <1>6, <1>7

LEMMA PutToClient ==
    ASSUME Inv, Grows, UNCHANGED owner,
           NEW k \in DOMAIN owner, NEW c \in Clients, owner[k] = c,
           NEW ms \in Seq(ToClientMessages), ms \in Seq(FromServer(c)'),
           ServerSend(k, ms)
    PROVE  /\ toClient' \in [Conns -> Seq(ToClientMessages)]
           /\ \A l \in Conns : l \notin DOMAIN owner => toClient'[l] = <<>>
           /\ \A l \in DOMAIN owner, d \in Clients :
                  owner[l] = d => toClient'[l] \in Seq(FromServer(d)')
<1>1. k \in Conns /\ DOMAIN owner \subseteq Conns
  BY MadeConns DEF Inv, TypeOK
<1>2. toClient \in [Conns -> Seq(ToClientMessages)]
  BY DEF Inv, TypeOK
<1>3. \A l \in DOMAIN owner, d \in Clients :
          owner[l] = d => toClient[l] \in Seq(FromServer(d)')
  BY WiresGrow, SeqGrows DEF Inv, Wires
<1>4. toClient[k] \o ms \in Seq(ToClientMessages)
  BY <1>1, <1>2, Concat
<1>5. toClient[k] \o ms \in Seq(FromServer(c)')
  BY <1>1, <1>3, Concat
<1>6. CASE toClient' = toClient
  BY <1>2, <1>3, <1>6 DEF Inv, ConnsOwned
<1>7. CASE toClient' = [toClient EXCEPT ![k] = toClient[k] \o ms]
  <2>1. toClient' \in [Conns -> Seq(ToClientMessages)]
    BY <1>2, <1>4, <1>7, ExceptIn
  <2>2. \A l \in Conns : toClient'[l] = IF l = k THEN toClient[k] \o ms ELSE toClient[l]
    BY <1>2, <1>7, Zenon
  <2>3. \A l \in Conns : l \notin DOMAIN owner => toClient'[l] = <<>>
    BY <2>2 DEF Inv, ConnsOwned
  <2>4. ASSUME NEW l \in DOMAIN owner, NEW d \in Clients, owner[l] = d
        PROVE  toClient'[l] \in Seq(FromServer(d)')
    <3>1. CASE l = k
      BY <3>1, <2>4, <2>2, <1>1, <1>5, Zenon
    <3>2. CASE l # k
      BY <3>2, <2>4, <2>2, <1>1, <1>3, Zenon
    <3> QED BY <3>1, <3>2
  <2> QED BY <2>1, <2>3, <2>4
<1> QED BY <1>6, <1>7 DEF ServerSend

\* What was under way on every connection may be under way still.
LEMMA TakenIsFine ==
    ASSUME Inv, Grows, NEW l, NEW d \in Clients
    PROVE  /\ toServer'[l] \in Seq(FromClient(d)) => toServer'[l] \in Seq(FromClient(d)')
           /\ toClient'[l] \in Seq(FromServer(d)) => toClient'[l] \in Seq(FromServer(d)')
BY WiresGrow, SeqGrows

\* encrypted_connection::send of a message that the client may send.
LEMMA ClientSends ==
    ASSUME Inv, Grows, UNCHANGED owner, NEW c \in Clients,
           NEW m \in ToServerMessages, m \in FromClient(c)', ClientSend(c, m)
    PROVE  /\ toServer' \in [Conns -> Seq(ToServerMessages)]
           /\ \A l \in Conns : l \notin DOMAIN owner => toServer'[l] = <<>>
           /\ \A l \in DOMAIN owner, d \in Clients :
                  owner[l] = d => toServer'[l] \in Seq(FromClient(d)')
<1>1. CASE conn[c] # 0
  <2> DEFINE k == conn[c]
  <2>1. k \in DOMAIN owner /\ owner[k] = c /\ k \in Conns
    BY <1>1, MadeConns DEF Inv, ConnsOwned
  <2>2. <<m>> \in Seq(ToServerMessages) /\ <<m>> \in Seq(FromClient(c)')
    BY EmptySeq, OneMore
  <2>3. toServer[k] \in Seq(ToServerMessages)
    BY <2>1 DEF Inv, TypeOK
  <2>4. Append(toServer[k], m) = toServer[k] \o <<m>>
    BY <2>3
  <2>5. toServer' = [toServer EXCEPT ![k] = toServer[k] \o <<m>>] \/ toServer' = toServer
    BY <2>4 DEF ClientSend
  <2> HIDE DEF k
  <2> QED BY <2>1, <2>2, <2>5, PutToServer
<1>2. CASE conn[c] = 0
  <2>1. toServer' = toServer
    BY <1>2 DEF ClientSend
  <2>2. \A l \in DOMAIN owner, d \in Clients :
            owner[l] = d => toServer[l] \in Seq(FromClient(d)')
    BY WiresGrow, SeqGrows DEF Inv, Wires
  <2> QED BY <2>1, <2>2 DEF Inv, TypeOK, ConnsOwned
<1> QED BY <1>1, <1>2

-----------------------------------------------------------------------------
(* The actions that send and handle messages.                              *)

\* The caller's thread sends the packet.
LEMMA SendNowStep ==
    ASSUME Inv, NEW p \in Packets, SendNow(p)
    PROVE  Inv'
<1> USE DEF SendNow, serverVars, store
<1> DEFINE c == SenderOf[p]
           m == Transport(p, keyOf[p])
<1>1. Grows
  BY DEF Grows, Inv, TypeOK
<1>2. TablesStay
  BY DEF TablesStay, Inv, TypeOK
<1>3. c \in Clients /\ m \in FromClient(c)
  BY RouteAssumption DEF FromClient, Sent
<1>4. m \in ToServerMessages /\ m \in FromClient(c)' /\ ClientSend(c, m)
  BY <1>1, <1>3, MessageTypes, WiresGrow
<1>5. sending' \in [Packets -> {"no", "check", "send", "done"}]
  BY DEF Inv, TypeOK
<1>6. UNCHANGED <<out, received, state, conn, helloDone, strand, keyOf, reused, breaks,
                  owner, clientUp, serverUp, toClient, serverVars, store>>
  OBVIOUS
<1> HIDE DEF SendNow, c, m
<1>7. /\ toServer' \in [Conns -> Seq(ToServerMessages)]
      /\ \A l \in Conns : l \notin DOMAIN owner => toServer'[l] = <<>>
      /\ \A l \in DOMAIN owner, d \in Clients : owner[l] = d => toServer'[l] \in Seq(FromClient(d)')
  BY <1>1, <1>3, <1>4, <1>6, ClientSends
<1>8. TypeOK'
  BY <1>5, <1>6, <1>7 DEF Inv, TypeOK, Handling
<1>9. ConnsOwned'
  BY <1>6, <1>7 DEF Inv, ConnsOwned
<1>10. Wires'
  BY <1>1, <1>6, <1>7, WiresFrame
<1> QED BY <1>1, <1>2, <1>6, <1>8, <1>9, <1>10, TablesFrame, StoreFrame DEF Inv

\* The strand says hello.
LEMMA OnConnectedStep ==
    ASSUME Inv, NEW c \in Clients, on_connected(c)
    PROVE  Inv'
<1> USE DEF on_connected, serverVars, store
<1>1. Grows
  BY DEF Grows, Inv, TypeOK
<1>2. TablesStay
  BY DEF TablesStay, Inv, TypeOK
<1>3. Hello \in ToServerMessages /\ Hello \in FromClient(c)'
  BY DEF FromClient, ToServerMessages
<1>4. helloDone' \in [Clients -> BOOLEAN] /\ strand' \in [Clients -> {"idle", "on_connected", "resend"}]
  BY DEF Inv, TypeOK
<1>5. UNCHANGED <<out, received, state, conn, sending, keyOf, reused, breaks,
                  owner, clientUp, serverUp, toClient, serverVars, store>>
      /\ ClientSend(c, Hello)
  OBVIOUS
<1>6. \A d \in Clients : strand'[d] = strand[d] \/ strand'[d] = "idle"
  BY DEF Inv, TypeOK
<1> HIDE DEF on_connected
<1>7. /\ toServer' \in [Conns -> Seq(ToServerMessages)]
      /\ \A l \in Conns : l \notin DOMAIN owner => toServer'[l] = <<>>
      /\ \A l \in DOMAIN owner, d \in Clients : owner[l] = d => toServer'[l] \in Seq(FromClient(d)')
  BY <1>1, <1>3, <1>5, ClientSends
<1>8. TypeOK'
  BY <1>4, <1>5, <1>7 DEF Inv, TypeOK, Handling
<1>9. ConnsOwned'
  BY <1>5, <1>6, <1>7 DEF Inv, ConnsOwned
<1>10. Wires'
  BY <1>1, <1>5, <1>7, WiresFrame
<1> QED BY <1>1, <1>2, <1>5, <1>8, <1>9, <1>10, TablesFrame, StoreFrame DEF Inv

\* The server answered: the flag is set, the rows are read next.
LEMMA HandleHelloStep ==
    ASSUME Inv, NEW c \in Clients, HandleHello(c)
    PROVE  Inv'
<1> USE DEF HandleHello, serverVars, store
<1>1. Grows
  BY DEF Grows, Inv, TypeOK
<1>2. TablesStay
  BY DEF TablesStay, Inv, TypeOK
<1>3. ClientNext(c, "hello")
  OBVIOUS
<1>4. helloDone' \in [Clients -> BOOLEAN] /\ strand' \in [Clients -> {"idle", "on_connected", "resend"}]
  BY DEF Inv, TypeOK
<1>5. UNCHANGED <<out, received, state, conn, sending, keyOf, reused, breaks,
                  owner, clientUp, serverUp, toServer, serverVars, store>>
  OBVIOUS
<1>6. \A d \in Clients : strand'[d] = strand[d] \/ d = c
  BY DEF Inv, TypeOK
<1> HIDE DEF HandleHello
<1>7. /\ conn[c] \in DOMAIN owner /\ owner[conn[c]] = c
      /\ toClient' \in [Conns -> Seq(ToClientMessages)]
      /\ \A l \in Conns : l \notin DOMAIN owner => toClient'[l] = <<>>
      /\ \A l \in DOMAIN owner, d \in Clients : owner[l] = d => toClient'[l] \in Seq(FromServer(d))
  BY <1>3, ClientTakes
<1>8. TypeOK'
  BY <1>4, <1>5, <1>7 DEF Inv, TypeOK, Handling
<1>9. ConnsOwned'
  BY <1>3, <1>5, <1>6, <1>7 DEF Inv, ConnsOwned, ClientNext
<1>10. Wires'
  BY <1>1, <1>5, <1>7, WiresFrame, TakenIsFine
<1> QED BY <1>1, <1>2, <1>5, <1>8, <1>9, <1>10, TablesFrame, StoreFrame DEF Inv

\* Every row is sent again.
LEMMA ResendStep ==
    ASSUME Inv, NEW c \in Clients, Resend(c)
    PROVE  Inv'
<1> USE DEF Resend, serverVars, store
<1> DEFINE k == conn[c]
           ms == PendingOut(c)
<1>1. Grows
  BY DEF Grows, Inv, TypeOK
<1>2. TablesStay
  BY DEF TablesStay, Inv, TypeOK
<1>3. ms \in Seq(FromClient(c))
  <2> DEFINE used == {i \in Keys : out[c][i] # None}
             order == InOrder(used)
  <2>1. used \subseteq 1..Cardinality(Packets) /\ Cardinality(Packets) \in Nat
    BY PacketsAssumption, FS_CardinalityType DEF Keys
  <2>2. order \in Seq(used)
    BY <2>1, InOrderLists
  <2>3. \A i \in used : Transport(out[c][i], i) \in FromClient(c)
    <3> SUFFICES ASSUME NEW i \in used PROVE Transport(out[c][i], i) \in FromClient(c)
      OBVIOUS
    <3>1. i \in Keys /\ out[c][i] \in Packets
      BY DEF Inv, TypeOK
    <3>2. out[c][i] \in Sent /\ SenderOf[out[c][i]] = c /\ keyOf[out[c][i]] = i
      BY <3>1, NoneAssumption DEF Inv, RowsOwned, Sent
    <3> QED BY <3>2 DEF FromClient
  <2> HIDE DEF used, order
  <2>4. \A i \in DOMAIN order : order[i] \in used
    BY <2>2
  <2>5. DOMAIN order = 1..Len(order) /\ Len(order) \in Nat
    BY <2>2
  <2>6. ms = [i \in DOMAIN order |-> Transport(out[c][order[i]], order[i])]
    BY DEF PendingOut, used, order
  <2> QED BY <2>3, <2>4, <2>5, <2>6
<1>4. k \in DOMAIN owner /\ owner[k] = c
  BY DEF Inv, ConnsOwned
<1>5. ms \in Seq(ToServerMessages) /\ ms \in Seq(FromClient(c)')
  BY <1>1, <1>3, MessageTypes, WiresGrow, SeqGrows
<1>6. strand' \in [Clients -> {"idle", "on_connected", "resend"}]
      /\ \A d \in Clients : strand'[d] = strand[d] \/ strand'[d] = "idle"
  BY DEF Inv, TypeOK
<1>7. UNCHANGED <<out, received, state, conn, helloDone, sending, keyOf, reused, breaks,
                  owner, clientUp, serverUp, toClient, serverVars, store>>
      /\ (toServer' = [toServer EXCEPT ![k] = @ \o ms] \/ toServer' = toServer)
  OBVIOUS
<1> HIDE DEF Resend, k, ms
<1>8. /\ toServer' \in [Conns -> Seq(ToServerMessages)]
      /\ \A l \in Conns : l \notin DOMAIN owner => toServer'[l] = <<>>
      /\ \A l \in DOMAIN owner, d \in Clients : owner[l] = d => toServer'[l] \in Seq(FromClient(d)')
  BY <1>1, <1>4, <1>5, <1>7, PutToServer
<1>9. TypeOK'
  BY <1>6, <1>7, <1>8 DEF Inv, TypeOK, Handling
<1>10. ConnsOwned'
  BY <1>6, <1>7, <1>8 DEF Inv, ConnsOwned
<1>11. Wires'
  BY <1>1, <1>7, <1>8, WiresFrame
<1> QED BY <1>1, <1>2, <1>7, <1>9, <1>10, <1>11, TablesFrame, StoreFrame DEF Inv

\* send_packet writes the row under a key that no row has.
LEMMA SendPacketStep ==
    ASSUME Inv, NEW p \in Packets, send_packet(p)
    PROVE  Inv'
<1> DEFINE c == SenderOf[p]
           k == NextKey(out[c])
<1>1. /\ sending[p] = "no"
      /\ out' = [out EXCEPT ![c] = [out[c] EXCEPT ![k] = p]]
      /\ keyOf' = [keyOf EXCEPT ![p] = k]
      /\ reused' = IF \E q \in Packets : SenderOf[q] = c /\ keyOf[q] = k THEN reused \cup {p} ELSE reused
      /\ sending' = [sending EXCEPT ![p] = "check"]
  BY DEF send_packet
<1>2. UNCHANGED <<received, state, conn, helloDone, strand, breaks, netVars, serverVars, store>>
  BY DEF send_packet
<1>3. k \in Keys /\ out[c][k] = None /\ k <= Cardinality(Sent) + 1
  BY <1>1, NextKeyIsFree
<1>4. c \in Clients /\ k # 0 /\ keyOf[p] = 0
  BY <1>1, <1>3, RouteAssumption DEF Inv, KeysSuffice, Keys
<1> HIDE DEF c, k
<1>5. /\ out \in [Clients -> [Keys -> Packets \cup {None}]] /\ keyOf \in [Packets -> Keys \cup {0}]
      /\ sending \in [Packets -> {"no", "check", "send", "done"}] /\ reused \subseteq Packets
  BY DEF Inv, TypeOK
<1>6. /\ \A d \in Clients, l \in Keys : out'[d][l] = IF d = c /\ l = k THEN p ELSE out[d][l]
      /\ \A q \in Packets : keyOf'[q] = IF q = p THEN k ELSE keyOf[q]
      /\ \A q \in Packets : sending'[q] = IF q = p THEN "check" ELSE sending[q]
  BY <1>1, <1>3, <1>4, <1>5
<1>7. /\ out' \in [Clients -> [Keys -> Packets \cup {None}]] /\ keyOf' \in [Packets -> Keys \cup {0}]
      /\ sending' \in [Packets -> {"no", "check", "send", "done"}] /\ reused' \subseteq Packets
  BY <1>1, <1>3, <1>4, <1>5
<1>8. Grows
  BY <1>1, <1>2, <1>6 DEF Grows, serverVars, netVars, store
<1>9. TypeOK'
  BY <1>2, <1>7 DEF Inv, TypeOK, Handling, serverVars, netVars, store
<1>10. ConnsOwned'
  BY <1>2 DEF Inv, ConnsOwned, serverVars, netVars
<1>11. RowsOwned'
  BY <1>1, <1>4, <1>5, <1>6 DEF Inv, RowsOwned, c
<1>12. KeysSuffice'
  <2>1. Sent' = Sent \cup {p} /\ p \notin Sent
    BY <1>1, <1>6 DEF Sent
  <2>2. IsFiniteSet(Sent)
    BY PacketsAssumption, FS_Subset DEF Sent
  <2>3. Cardinality(Sent') = Cardinality(Sent) + 1 /\ Cardinality(Sent) \in Nat
    BY <2>1, <2>2, FS_AddElement, FS_CardinalityType
  <2>4. \A q \in Packets : keyOf[q] \in Nat /\ keyOf[q] <= Cardinality(Sent)
    BY <1>5 DEF Inv, KeysSuffice, Keys
  <2>5. k \in Nat
    BY <1>3 DEF Keys
  <2>6. \A q \in Packets : keyOf'[q] <= Cardinality(Sent')
    BY <2>3, <2>4, <2>5, <1>3, <1>6
  <2>7. \A q \in Packets : sending'[q] = "no" <=> keyOf'[q] = 0
    BY <1>4, <1>6 DEF Inv, KeysSuffice
  <2> QED BY <2>6, <2>7 DEF KeysSuffice
<1>13. SecondIsReused'
  <2> SUFFICES ASSUME NEW x \in Packets, NEW y \in Packets, x # y, SenderOf[x] = SenderOf[y],
                      keyOf'[x] # 0, keyOf'[y] = keyOf'[x], x \notin reused'
               PROVE  out'[SenderOf[x]][keyOf'[x]] # x
    BY DEF SecondIsReused
  <2>1. x # p
    BY <1>1, <1>6 DEF c
  <2>2. x \notin reused /\ keyOf'[x] = keyOf[x] /\ keyOf[x] \in Keys /\ SenderOf[x] \in Clients
    BY <2>1, <1>1, <1>5, <1>6, RouteAssumption
  <2>3. CASE y = p
    BY <2>1, <2>2, <2>3, <1>4, <1>6 DEF c
  <2>4. CASE y # p
    BY <2>1, <2>2, <2>4, <1>6 DEF Inv, SecondIsReused
  <2> QED BY <2>3, <2>4
<1>14. RowUntilTold'
  <2> SUFFICES ASSUME NEW q \in Packets, sending'[q] # "no", q \notin reused'
               PROVE  InOut(q)' \/ Instances(q)' \cap told' # {}
    BY DEF RowUntilTold
  <2>1. CASE q = p
    <3>1. out'[SenderOf[q]][k] = q
      BY <2>1, <1>3, <1>4, <1>6 DEF c
    <3> QED BY <3>1, <1>3 DEF InOut
  <2>2. CASE q # p
    <3>1. q \notin reused /\ sending[q] # "no" /\ SenderOf[q] \in Clients
      BY <2>2, <1>1, <1>6, RouteAssumption
    <3>2. CASE InOut(q)
      <4>1. PICK l \in Keys : out[SenderOf[q]][l] = q
        BY <3>2 DEF InOut
      <4>2. out'[SenderOf[q]][l] = q
        BY <4>1, <3>1, <1>3, <1>6, NoneAssumption
      <4> QED BY <4>2 DEF InOut
    <3>3. CASE Instances(q) \cap told # {}
      BY <3>3, <1>2 DEF Instances, serverVars, store
    <3> QED BY <3>1, <3>2, <3>3 DEF Inv, RowUntilTold
  <2> QED BY <2>1, <2>2
<1>15. UNCHANGED <<owner, toServer, toClient, stored, held, rows, told, acked>>
  BY <1>2 DEF netVars, serverVars, store
<1>16. Wires'
  BY <1>8, <1>15, WiresFrame
<1> QED BY <1>8, <1>9, <1>10, <1>11, <1>12, <1>13, <1>14, <1>15, <1>16, StoreFrame DEF Inv

\* The ack of a packet removes the row with its key: that packet's, or one that got the key again.
LEMMA HandleAckStep ==
    ASSUME Inv, NEW c \in Clients, HandleAck(c)
    PROVE  Inv'
<1> DEFINE m == ClientMessage(c)
           k == m.ack
<1>1. ClientNext(c, "ack") /\ out' = [out EXCEPT ![c] = [out[c] EXCEPT ![k] = None]]
  BY DEF HandleAck
<1>2. UNCHANGED <<received, state, conn, helloDone, strand, sending, keyOf, reused, breaks,
                  owner, clientUp, serverUp, toServer, good, current, ackMap, handling, stored, skipped,
                  held, rows, told, acked>>
  BY DEF HandleAck, serverVars, store
<1>3. /\ m \in FromServer(c) /\ m.type = "ack"
      /\ toClient' \in [Conns -> Seq(ToClientMessages)]
      /\ \A l \in Conns : l \notin DOMAIN owner => toClient'[l] = <<>>
      /\ \A l \in DOMAIN owner, d \in Clients : owner[l] = d => toClient'[l] \in Seq(FromServer(d))
  BY <1>1, ClientTakes
<1>4. PICK a \in told : SenderOf[stored[a].packet] = c /\ m = Ack(stored[a].key)
  BY <1>3 DEF FromServer, Hello, Transport
<1> DEFINE q == stored[a].packet
<1>5. a \in DOMAIN stored /\ q \in Packets /\ keyOf[q] = k /\ SenderOf[q] = c /\ k \in Keys
  <2>1. a \in DOMAIN stored /\ stored[a] \in StoredPackets
    BY DEF Inv, TypeOK
  <2>2. stored[a].key = k /\ stored[a].key = keyOf[q]
    BY <1>4, <2>1 DEF Ack, Inv, StoredAsSent
  <2> QED BY <1>4, <2>1, <2>2 DEF StoredPackets
<1> HIDE DEF k, m, q
<1>6. out \in [Clients -> [Keys -> Packets \cup {None}]]
  BY DEF Inv, TypeOK
<1>7. /\ out' \in [Clients -> [Keys -> Packets \cup {None}]]
      /\ \A d \in Clients, l \in Keys : out'[d][l] = IF d = c /\ l = k THEN None ELSE out[d][l]
  BY <1>1, <1>5, <1>6
<1>8. Grows
  BY <1>2 DEF Grows
<1>9. TypeOK'
  BY <1>2, <1>3, <1>7 DEF Inv, TypeOK, Handling
<1>10. ConnsOwned'
  BY <1>2, <1>3 DEF Inv, ConnsOwned
<1>11. RowsOwned'
  BY <1>2, <1>7 DEF Inv, RowsOwned
<1>12. KeysSuffice'
  BY <1>2 DEF Inv, KeysSuffice, Sent
<1>13. SecondIsReused'
  <2> SUFFICES ASSUME NEW x \in Packets, NEW y \in Packets, x # y, SenderOf[x] = SenderOf[y],
                      keyOf[x] # 0, keyOf[y] = keyOf[x], x \notin reused
               PROVE  out'[SenderOf[x]][keyOf[x]] # x
    BY <1>2 DEF SecondIsReused
  <2>1. keyOf[x] \in Keys /\ SenderOf[x] \in Clients
    BY RouteAssumption DEF Inv, TypeOK
  <2>2. out[SenderOf[x]][keyOf[x]] # x
    BY DEF Inv, SecondIsReused
  <2> QED BY <2>1, <2>2, <1>7, NoneAssumption
<1>14. RowUntilTold'
  <2> SUFFICES ASSUME NEW x \in Packets, sending[x] # "no", x \notin reused, ~(InOut(x)')
               PROVE  Instances(x)' \cap told' # {}
    BY <1>2 DEF RowUntilTold
  <2>1. Instances(x)' = Instances(x) /\ told' = told
    BY <1>2 DEF Instances
  <2>2. CASE InOut(x)
    <3>1. PICK l \in Keys : out[SenderOf[x]][l] = x
      BY <2>2 DEF InOut
    <3>2. SenderOf[x] \in Clients /\ out'[SenderOf[x]][l] # x
      BY <3>1, RouteAssumption DEF InOut
    <3>3. SenderOf[x] = c /\ l = k
      BY <3>1, <3>2, <1>7
    <3>4. keyOf[x] = k /\ k # 0
      BY <3>1, <3>2, <3>3, NoneAssumption DEF Inv, RowsOwned, Keys
    <3>5. x = q
      BY <3>1, <3>3, <3>4, <1>5 DEF Inv, SecondIsReused
    <3> QED BY <2>1, <3>5, <1>5 DEF Instances, q
  <2>3. CASE Instances(x) \cap told # {}
    BY <2>1, <2>3
  <2> QED BY <2>2, <2>3 DEF Inv, RowUntilTold
<1>15. Wires'
  BY <1>2, <1>3, <1>8, WiresFrame, TakenIsFine
<1> QED BY <1>2, <1>8, <1>9, <1>10, <1>11, <1>12, <1>13, <1>14, <1>15, StoreFrame DEF Inv

\* The packet is in the receiver's table when its ack is under way.
LEMMA HandleTransportStep ==
    ASSUME Inv, NEW c \in Clients, HandleTransport(c)
    PROVE  Inv'
<1> DEFINE m == ClientMessage(c)
<1>1. /\ ClientNext(c, "transport") /\ ClientSend(c, Ack(m.ack))
      /\ received' = [received EXCEPT ![c] = received[c] \cup {m.packet}]
  BY DEF HandleTransport, InsertIn
<1>2. UNCHANGED <<out, state, conn, helloDone, strand, sending, keyOf, reused, breaks,
                  owner, clientUp, serverUp, good, current, ackMap, handling, stored, skipped,
                  held, rows, told, acked>>
  BY DEF HandleTransport, serverVars, store
<1>3. /\ m \in FromServer(c) /\ m.type = "transport"
      /\ toClient' \in [Conns -> Seq(ToClientMessages)]
      /\ \A l \in Conns : l \notin DOMAIN owner => toClient'[l] = <<>>
      /\ \A l \in DOMAIN owner, d \in Clients : owner[l] = d => toClient'[l] \in Seq(FromServer(d))
  BY <1>1, ClientTakes
<1>4. PICK a \in DOMAIN stored : ReceiverOf[stored[a].packet] = c /\ m = Transport(stored[a].packet, a)
  BY <1>3 DEF FromServer, Hello, Ack
<1>5. stored[a].packet \in Packets /\ m.packet = stored[a].packet /\ m.ack = a /\ a \in StoredAcks
  <2>1. stored[a] \in StoredPackets /\ a \in StoredAcks
    BY MadeConns DEF Inv, TypeOK
  <2> QED BY <2>1, <1>4 DEF StoredPackets, Transport
<1> HIDE DEF m
<1>6. /\ received' \in [Clients -> SUBSET Packets]
      /\ \A d \in Clients : received'[d] = IF d = c THEN received[c] \cup {m.packet} ELSE received[d]
  <2>1. received \in [Clients -> SUBSET Packets]
    BY DEF Inv, TypeOK
  <2> QED BY <2>1, <1>1, <1>5
<1>7. Grows
  BY <1>2, <1>6 DEF Grows
<1>8. TablesStay
  BY <1>2 DEF TablesStay
<1>9. Ack(m.ack) \in ToServerMessages
  BY <1>5 DEF ToServerMessages
<1>10. Ack(m.ack) \in FromClient(c)'
  <2>1. a \in DOMAIN stored' /\ stored'[a].packet \in received'[c] /\ ReceiverOf[stored'[a].packet] = c
    BY <1>2, <1>4, <1>5, <1>6
  <2> QED BY <2>1, <1>5 DEF FromClient
<1>11. /\ toServer' \in [Conns -> Seq(ToServerMessages)]
       /\ \A l \in Conns : l \notin DOMAIN owner => toServer'[l] = <<>>
       /\ \A l \in DOMAIN owner, d \in Clients : owner[l] = d => toServer'[l] \in Seq(FromClient(d)')
  BY <1>1, <1>2, <1>7, <1>9, <1>10, ClientSends
<1>12. TypeOK'
  BY <1>2, <1>3, <1>6, <1>11 DEF Inv, TypeOK, Handling
<1>13. ConnsOwned'
  BY <1>2, <1>3, <1>11 DEF Inv, ConnsOwned
<1>14. Wires'
  BY <1>2, <1>3, <1>7, <1>11, WiresFrame, TakenIsFine
<1> QED BY <1>2, <1>7, <1>8, <1>12, <1>13, <1>14, TablesFrame, StoreFrame DEF Inv

-----------------------------------------------------------------------------
(* The server's handlers, and the storage's word to the sender.            *)

\* connection::on_connect, first half.
LEMMA ServerHelloStep ==
    ASSUME Inv, NEW k \in DOMAIN owner, ServerHello(k)
    PROVE  Inv'
<1>0. PICK c \in Clients : owner[k] = c
  BY DEF Inv, TypeOK
<1>1. /\ ServerNext(k, "hello") /\ ServerSend(k, <<Hello>>)
      /\ current' = [current EXCEPT ![c] = k]
      /\ handling' = [handling EXCEPT ![k] = [do |-> "pending"]]
  BY <1>0 DEF ServerHello
<1>2. UNCHANGED <<out, received, state, conn, helloDone, strand, sending, keyOf, reused, breaks,
                  owner, clientUp, serverUp, good, ackMap, stored, skipped, held, rows, told, acked>>
  BY DEF ServerHello, clientVars, store
<1>3. /\ c \in Clients /\ k \in Conns
      /\ toServer' \in [Conns -> Seq(ToServerMessages)]
      /\ \A l \in Conns : l \notin DOMAIN owner => toServer'[l] = <<>>
      /\ \A l \in DOMAIN owner, d \in Clients : owner[l] = d => toServer'[l] \in Seq(FromClient(d))
  BY <1>0, <1>1, ServerTakes, MadeConns
<1>4. Grows
  BY <1>2 DEF Grows
<1>5. TablesStay
  BY <1>2 DEF TablesStay
<1>6. <<Hello>> \in Seq(ToClientMessages) /\ <<Hello>> \in Seq(FromServer(c)')
  <2>1. Hello \in ToClientMessages /\ Hello \in FromServer(c)'
    BY DEF ToClientMessages, FromServer
  <2> QED BY <2>1, EmptySeq, OneMore
<1>7. /\ toClient' \in [Conns -> Seq(ToClientMessages)]
      /\ \A l \in Conns : l \notin DOMAIN owner => toClient'[l] = <<>>
      /\ \A l \in DOMAIN owner, d \in Clients : owner[l] = d => toClient'[l] \in Seq(FromServer(d)')
  BY <1>0, <1>1, <1>2, <1>3, <1>4, <1>6, PutToClient
<1>8. /\ current' \in [Clients -> Conns \cup {0}]
      /\ \A d \in Clients : current'[d] = IF d = c THEN k ELSE current[d]
  BY <1>1, <1>3 DEF Inv, TypeOK
<1>9. handling' \in [Conns -> Handling']
  BY <1>1, <1>2 DEF Inv, TypeOK, Handling
<1>10. TypeOK'
  BY <1>2, <1>3, <1>7, <1>8, <1>9 DEF Inv, TypeOK
<1>11. ConnsOwned'
  BY <1>2, <1>3, <1>7, <1>8, <1>0 DEF Inv, ConnsOwned
<1>12. Wires'
  BY <1>2, <1>3, <1>4, <1>7, WiresFrame, TakenIsFine
<1> QED BY <1>2, <1>4, <1>5, <1>10, <1>11, <1>12, TablesFrame, StoreFrame DEF Inv

\* A packet that is stored for a client may be sent to it.
LEMMA DeliveryIsFine ==
    ASSUME Inv, NEW a \in DOMAIN stored
    PROVE  /\ Delivery(a) \in FromServer(ReceiverOf[stored[a].packet])
           /\ Delivery(a) \in ToClientMessages
           /\ stored[a].packet \in Packets /\ ReceiverOf[stored[a].packet] \in Clients
<1>1. stored[a] \in StoredPackets
  BY DEF Inv, TypeOK
<1>2. stored[a].packet \in Packets /\ ReceiverOf[stored[a].packet] \in Clients
  BY <1>1, RouteAssumption DEF StoredPackets
<1>3. Delivery(a) \in FromServer(ReceiverOf[stored[a].packet])
  BY DEF FromServer, Delivery
<1> QED BY <1>2, <1>3, MessageTypes

\* on_connect, second half: what the storage has for the client.
LEMMA ServerPendingStep ==
    ASSUME Inv, NEW k \in DOMAIN owner, ServerPending(k)
    PROVE  Inv'
<1>0. PICK c \in Clients : owner[k] = c
  BY DEF Inv, TypeOK
<1> DEFINE mine(S) == {a \in S : ReceiverOf[stored[a].packet] = owner[k]}
<1>1. PICK missed \in SUBSET mine(held) :
        LET found == mine(held \cup rows) \ missed
            order == InOrder(found)
        IN  /\ skipped' = skipped \cup {<<a, k>> : a \in missed}
            /\ ackMap' = [ackMap EXCEPT ![k] = ackMap[k] \cup found]
            /\ ServerSend(k, [i \in DOMAIN order |-> Delivery(order[i])])
  BY DEF ServerPending, Remember
<1>2. UNCHANGED <<out, received, state, conn, helloDone, strand, sending, keyOf, reused, breaks,
                  owner, clientUp, serverUp, toServer, current, stored, held, rows, told, acked>>
      /\ good' = [good EXCEPT ![k] = TRUE] /\ handling' = [handling EXCEPT ![k] = Nothing]
  BY DEF ServerPending, Done, clientVars, store
<1> DEFINE found == mine(held \cup rows) \ missed
           order == InOrder(found)
           ms == [i \in DOMAIN order |-> Delivery(order[i])]
<1>3. /\ found \subseteq DOMAIN stored /\ found \subseteq StoredAcks /\ missed \subseteq StoredAcks
      /\ \A a \in found : ReceiverOf[stored[a].packet] = c
  BY <1>0, MadeConns DEF Inv, TypeOK
<1>4. k \in Conns /\ c \in Clients
  BY MadeConns DEF Inv, TypeOK
<1>5. ackMap' \in [Conns -> SUBSET StoredAcks] /\ skipped' \subseteq StoredAcks \X Conns
      /\ good' \in [Conns -> BOOLEAN] /\ handling' \in [Conns -> Handling']
  <2>1. ackMap' \in [Conns -> SUBSET StoredAcks]
    BY <1>1, <1>3, <1>4 DEF Inv, TypeOK
  <2>2. skipped' \subseteq StoredAcks \X Conns
    BY <1>1, <1>3, <1>4 DEF Inv, TypeOK
  <2>3. good' \in [Conns -> BOOLEAN] /\ handling' \in [Conns -> Handling']
    BY <1>2 DEF Inv, TypeOK, Handling
  <2> QED BY <2>1, <2>2, <2>3
<1>6. order \in Seq(found)
  <2>1. found \subseteq 1..MaxStored
    BY <1>3 DEF StoredAcks
  <2> QED BY <2>1, InOrderLists, BoundAssumption
<1>7. ServerSend(k, ms)
  BY <1>1
<1> HIDE DEF found, order
<1>8. DOMAIN order = 1..Len(order) /\ Len(order) \in Nat /\ \A i \in DOMAIN order : order[i] \in found
  BY <1>6
<1>9. \A i \in DOMAIN order : Delivery(order[i]) \in FromServer(c) /\ Delivery(order[i]) \in ToClientMessages
  BY <1>3, <1>8, DeliveryIsFine
<1>10. ms \in Seq(FromServer(c)) /\ ms \in Seq(ToClientMessages)
  BY <1>8, <1>9
<1> HIDE DEF ms, mine
<1>11. Grows
  BY <1>2 DEF Grows
<1>12. TablesStay
  BY <1>2 DEF TablesStay
<1>13. ms \in Seq(FromServer(c)')
  BY <1>4, <1>10, <1>11, WiresGrow, SeqGrows
<1>14. /\ toClient' \in [Conns -> Seq(ToClientMessages)]
       /\ \A l \in Conns : l \notin DOMAIN owner => toClient'[l] = <<>>
       /\ \A l \in DOMAIN owner, d \in Clients : owner[l] = d => toClient'[l] \in Seq(FromServer(d)')
  BY <1>0, <1>2, <1>4, <1>7, <1>10, <1>11, <1>13, PutToClient
<1>15. TypeOK'
  BY <1>2, <1>5, <1>14 DEF Inv, TypeOK
<1>16. ConnsOwned'
  BY <1>2, <1>14 DEF Inv, ConnsOwned
<1>17. Wires'
  BY <1>2, <1>11, <1>14, WiresFrame
<1> QED BY <1>2, <1>11, <1>12, <1>15, <1>16, <1>17, TablesFrame, StoreFrame DEF Inv

\* impl::transport_packet, first half: into the storage with the sender's key.
LEMMA ServerTransportStep ==
    ASSUME Inv, NEW k \in DOMAIN owner, ServerTransport(k)
    PROVE  Inv'
<1>0. PICK c \in Clients : owner[k] = c
  BY DEF Inv, TypeOK
<1> DEFINE m == ServerMessage(k)
           a == Len(stored) + 1
           new == [packet |-> m.packet, key |-> m.ack, from |-> k]
<1>1. /\ ServerNext(k, "transport") /\ a <= MaxStored
      /\ stored' = Append(stored, new)
      /\ held' = held \cup {a}
      /\ handling' = [handling EXCEPT ![k] = [do |-> "route", ack |-> a]]
  BY DEF ServerTransport, Store!Accept
<1>2. UNCHANGED <<out, received, state, conn, helloDone, strand, sending, keyOf, reused, breaks,
                  owner, clientUp, serverUp, toClient, good, current, ackMap, skipped, rows, told, acked>>
  BY DEF ServerTransport, Store!Accept, clientVars
<1>3. /\ c \in Clients /\ k \in Conns /\ m \in FromClient(c) /\ m.type = "transport"
      /\ toServer' \in [Conns -> Seq(ToServerMessages)]
      /\ \A l \in Conns : l \notin DOMAIN owner => toServer'[l] = <<>>
      /\ \A l \in DOMAIN owner, d \in Clients : owner[l] = d => toServer'[l] \in Seq(FromClient(d))
  BY <1>0, <1>1, ServerTakes, MadeConns
<1>4. PICK p \in Sent : SenderOf[p] = c /\ m = Transport(p, keyOf[p])
  BY <1>3 DEF FromClient, Hello, Ack
<1>5. new = [packet |-> p, key |-> keyOf[p], from |-> k] /\ p \in Packets /\ keyOf[p] \in Keys
      /\ sending[p] # "no"
  <2>1. m.packet = p /\ m.ack = keyOf[p]
    BY <1>4 DEF Transport
  <2>2. p \in Packets /\ keyOf[p] \in Keys /\ sending[p] # "no"
    BY <1>4 DEF Sent, Inv, TypeOK, KeysSuffice
  <2> QED BY <2>1, <2>2
<1>6. new \in StoredPackets
  BY <1>3, <1>5 DEF StoredPackets
<1> HIDE DEF new
<1>7. /\ stored' \in Seq(StoredPackets) /\ Len(stored') = a /\ stored'[a] = new
      /\ DOMAIN stored' = DOMAIN stored \cup {a} /\ a \notin DOMAIN stored
      /\ \A b \in DOMAIN stored : stored'[b] = stored[b]
  <2>1. stored \in Seq(StoredPackets)
    BY DEF Inv, TypeOK
  <2> QED BY <2>1, <1>1, <1>6
<1> HIDE DEF a, m
<1>8. Grows
  BY <1>2, <1>7 DEF Grows
<1>9. TablesStay
  BY <1>2 DEF TablesStay
<1>10. handling' \in [Conns -> Handling']
  <2>1. Handling \subseteq Handling' /\ [do |-> "route", ack |-> a] \in Handling'
    BY <1>7 DEF Handling
  <2>2. handling \in [Conns -> Handling']
    BY <2>1 DEF Inv, TypeOK
  <2> QED BY <1>1, <2>1, <2>2
<1>11. held' \cup rows' \cup told' \cup acked' \subseteq DOMAIN stored'
  BY <1>1, <1>2, <1>7 DEF Inv, TypeOK
<1>12. TypeOK'
  BY <1>1, <1>2, <1>3, <1>7, <1>10, <1>11 DEF Inv, TypeOK
<1>13. ConnsOwned'
  BY <1>2, <1>3 DEF Inv, ConnsOwned
<1>14. Wires'
  BY <1>2, <1>3, <1>8, WiresFrame, TakenIsFine
<1>15. StoredAsSent'
  <2>1. stored'[a].packet = p /\ stored'[a].key = keyOf[p] /\ stored'[a].from = k
    BY <1>5, <1>7
  <2>2. \A b \in DOMAIN stored : stored'[b] = stored[b]
    BY <1>7
  <2> QED BY <1>0, <1>2, <1>4, <1>5, <1>7, <2>1, <2>2 DEF Inv, StoredAsSent
<1>16. ToldIsKept' /\ AckedMeansReceived'
  BY <1>2, <1>7 DEF Inv, TypeOK, ToldIsKept, AckedMeansReceived
<1> QED BY <1>8, <1>9, <1>12, <1>13, <1>14, <1>15, <1>16, TablesFrame DEF Inv

\* transport_packet, second half: to the receiver's connection, when there is one.
LEMMA ServerRouteStep ==
    ASSUME Inv, NEW k \in DOMAIN owner, ServerRoute(k)
    PROVE  Inv'
<1> DEFINE a == handling[k].ack
           r == current[ReceiverOf[stored[a].packet]]
<1>1. /\ handling[k].do = "route"
      /\ \/ /\ r # 0
            /\ ackMap' = [ackMap EXCEPT ![r] = ackMap[r] \cup {a}]
            /\ ServerSend(r, <<Delivery(a)>>)
         \/ UNCHANGED <<ackMap, toClient>>
      /\ handling' = [handling EXCEPT ![k] = Nothing]
  BY DEF ServerRoute, Remember, Done
<1>2. UNCHANGED <<out, received, state, conn, helloDone, strand, sending, keyOf, reused, breaks,
                  owner, clientUp, serverUp, toServer, good, current, stored, skipped,
                  held, rows, told, acked>>
  BY DEF ServerRoute, clientVars, store
<1>3. a \in DOMAIN stored /\ a \in StoredAcks
  <2>1. k \in Conns /\ handling[k] \in Handling
    BY MadeConns DEF Inv, TypeOK
  <2>2. PICK b \in DOMAIN stored : handling[k] = [do |-> "route", ack |-> b]
    <3>1. handling[k] # Nothing /\ handling[k] # [do |-> "pending"]
      <4>1. Nothing.do # "route" /\ [do |-> "pending"].do # "route"
        BY DEF Nothing
      <4> QED BY <1>1, <4>1
    <3> HIDE DEF a
    <3> QED BY <2>1, <3>1 DEF Handling
  <2>3. a = b
    BY <2>2
  <2> QED BY <2>2, <2>3, MadeConns
<1> HIDE DEF a
<1>4. PICK c \in Clients : ReceiverOf[stored[a].packet] = c
  BY <1>3, DeliveryIsFine
<1>5. Delivery(a) \in FromServer(c) /\ Delivery(a) \in ToClientMessages
  BY <1>3, <1>4, DeliveryIsFine
<1>6. Grows
  BY <1>2 DEF Grows
<1>7. TablesStay
  BY <1>2 DEF TablesStay
<1>8. handling' \in [Conns -> Handling']
  BY <1>1, <1>2 DEF Inv, TypeOK, Handling
<1>9. /\ ackMap' \in [Conns -> SUBSET StoredAcks]
      /\ toClient' \in [Conns -> Seq(ToClientMessages)]
      /\ \A l \in Conns : l \notin DOMAIN owner => toClient'[l] = <<>>
      /\ \A l \in DOMAIN owner, d \in Clients : owner[l] = d => toClient'[l] \in Seq(FromServer(d)')
  <2>1. CASE UNCHANGED <<ackMap, toClient>>
    <3>1. \A l \in DOMAIN owner, d \in Clients : owner[l] = d => toClient[l] \in Seq(FromServer(d)')
      BY <1>6, WiresGrow, SeqGrows DEF Inv, Wires
    <3> QED BY <2>1, <3>1 DEF Inv, TypeOK, ConnsOwned
  <2>2. CASE /\ r # 0
             /\ ackMap' = [ackMap EXCEPT ![r] = ackMap[r] \cup {a}]
             /\ ServerSend(r, <<Delivery(a)>>)
    <3>1. r \in DOMAIN owner /\ owner[r] = c /\ r \in Conns
      BY <2>2, <1>4, MadeConns DEF Inv, ConnsOwned
    <3> HIDE DEF r
    <3>2. ackMap' \in [Conns -> SUBSET StoredAcks]
      BY <2>2, <3>1, <1>3 DEF Inv, TypeOK
    <3>3. Delivery(a) \in FromServer(c)'
      BY <1>5, <1>6, WiresGrow
    <3>4. <<Delivery(a)>> \in Seq(ToClientMessages) /\ <<Delivery(a)>> \in Seq(FromServer(c)')
      BY <3>3, <1>5, EmptySeq, OneMore
    <3> QED BY <2>2, <3>1, <3>2, <3>4, <1>2, <1>6, PutToClient
  <2> QED BY <1>1, <2>1, <2>2
<1>10. TypeOK'
  BY <1>2, <1>8, <1>9 DEF Inv, TypeOK
<1>11. ConnsOwned'
  BY <1>2, <1>9 DEF Inv, ConnsOwned
<1>12. Wires'
  BY <1>2, <1>6, <1>9, WiresFrame
<1> QED BY <1>2, <1>6, <1>7, <1>10, <1>11, <1>12, TablesFrame, StoreFrame DEF Inv

\* connection::handle(ack_packet): only what the receiver has is acknowledged.
LEMMA ServerAckStep ==
    ASSUME Inv, NEW k \in DOMAIN owner, ServerAck(k)
    PROVE  Inv'
<1> DEFINE m == ServerMessage(k)
<1>0. PICK c \in Clients : owner[k] = c
  BY DEF Inv, TypeOK
<1>1. ServerNext(k, "ack") /\ (acked' = acked \cup {m.ack} \/ acked' = acked)
  BY DEF ServerAck, Store!Acknowledge, store
<1>2. UNCHANGED <<out, received, state, conn, helloDone, strand, sending, keyOf, reused, breaks,
                  owner, clientUp, serverUp, toClient, good, current, ackMap, handling, stored, skipped,
                  held, rows, told>>
  BY DEF ServerAck, Store!Acknowledge, clientVars, serverVars, store
<1>3. /\ m \in FromClient(c) /\ m.type = "ack"
      /\ toServer' \in [Conns -> Seq(ToServerMessages)]
      /\ \A l \in Conns : l \notin DOMAIN owner => toServer'[l] = <<>>
      /\ \A l \in DOMAIN owner, d \in Clients : owner[l] = d => toServer'[l] \in Seq(FromClient(d))
  BY <1>0, <1>1, ServerTakes
<1>4. PICK a \in DOMAIN stored : /\ stored[a].packet \in received[c]
                                 /\ ReceiverOf[stored[a].packet] = c /\ m = Ack(a)
  BY <1>3 DEF FromClient, Hello, Transport
<1>5. acked' \subseteq acked \cup {a} /\ acked \subseteq acked'
  <2>1. m.ack = a
    BY <1>4 DEF Ack
  <2> QED BY <1>1, <2>1
<1> HIDE DEF m
<1>6. Grows
  BY <1>2 DEF Grows
<1>7. TablesStay
  BY <1>2 DEF TablesStay
<1>8. TypeOK'
  BY <1>2, <1>3, <1>4, <1>5 DEF Inv, TypeOK, Handling
<1>9. ConnsOwned'
  BY <1>2, <1>3 DEF Inv, ConnsOwned
<1>10. Wires'
  BY <1>2, <1>3, <1>6, WiresFrame, TakenIsFine
<1>11. StoredAsSent' /\ ToldIsKept'
  BY <1>2, <1>5 DEF Inv, StoredAsSent, ToldIsKept
<1>12. AckedMeansReceived'
  BY <1>2, <1>4, <1>5 DEF Inv, AckedMeansReceived
<1> QED BY <1>6, <1>7, <1>8, <1>9, <1>10, <1>11, <1>12, TablesFrame DEF Inv

\* notify: the sender is told with its own key, on a connection of its own.
LEMMA StorageTellStep ==
    ASSUME Inv, NEW a \in DOMAIN stored, StorageTell(a)
    PROVE  Inv'
<1> DEFINE from == stored[a].from
           to == IF serverUp[from] THEN from ELSE current[owner[from]]
           m == Ack(stored[a].key)
<1>1. /\ a \in rows \cup acked /\ told' = told \cup {a}
      /\ (to # 0 /\ ServerSend(to, <<m>>)) \/ toClient' = toClient
  BY DEF StorageTell, Store!Tell, KeyToAck
<1>2. UNCHANGED <<out, received, state, conn, helloDone, strand, sending, keyOf, reused, breaks,
                  owner, clientUp, serverUp, toServer, good, current, ackMap, handling, stored, skipped,
                  held, rows, acked>>
  BY DEF StorageTell, Store!Tell, clientVars, serverVars
<1>3. stored[a].packet \in Packets /\ stored[a].key \in Keys
  <2>1. stored[a] \in StoredPackets
    BY DEF Inv, TypeOK
  <2> QED BY <2>1 DEF StoredPackets
<1>4. PICK c \in Clients : SenderOf[stored[a].packet] = c
  BY <1>3, RouteAssumption
<1>5. from \in DOMAIN owner /\ owner[from] = c
  BY <1>4 DEF Inv, StoredAsSent
<1>6. to # 0 => to \in DOMAIN owner /\ owner[to] = c
  BY <1>5 DEF Inv, ConnsOwned
<1>7. Grows
  BY <1>1, <1>2 DEF Grows
<1>8. TablesStay
  BY <1>2 DEF TablesStay
<1>9. m \in ToClientMessages /\ m \in FromServer(c)'
  <2>1. m \in ToClientMessages
    BY <1>3 DEF ToClientMessages
  <2>2. a \in told' /\ SenderOf[stored'[a].packet] = c /\ m = Ack(stored'[a].key)
    BY <1>1, <1>2, <1>4
  <2> HIDE DEF m
  <2>3. m \in FromServer(c)'
    BY <2>2 DEF FromServer
  <2> QED BY <2>1, <2>3
<1> HIDE DEF m, from, to
<1>10. /\ toClient' \in [Conns -> Seq(ToClientMessages)]
       /\ \A l \in Conns : l \notin DOMAIN owner => toClient'[l] = <<>>
       /\ \A l \in DOMAIN owner, d \in Clients : owner[l] = d => toClient'[l] \in Seq(FromServer(d)')
  <2>1. CASE toClient' = toClient
    <3>1. \A l \in DOMAIN owner, d \in Clients : owner[l] = d => toClient[l] \in Seq(FromServer(d)')
      BY <1>7, WiresGrow, SeqGrows DEF Inv, Wires
    <3> QED BY <2>1, <3>1 DEF Inv, TypeOK, ConnsOwned
  <2>2. CASE to # 0 /\ ServerSend(to, <<m>>)
    <3>1. <<m>> \in Seq(ToClientMessages) /\ <<m>> \in Seq(FromServer(c)')
      BY <1>9, EmptySeq, OneMore
    <3> QED BY <2>2, <3>1, <1>2, <1>6, <1>7, PutToClient
  <2> QED BY <1>1, <2>1, <2>2
<1>11. TypeOK'
  BY <1>1, <1>2, <1>10 DEF Inv, TypeOK, Handling
<1>12. ConnsOwned'
  BY <1>2, <1>10 DEF Inv, ConnsOwned
<1>13. Wires'
  BY <1>2, <1>7, <1>10, WiresFrame
<1>14. StoredAsSent' /\ ToldIsKept' /\ AckedMeansReceived'
  BY <1>1, <1>2 DEF Inv, StoredAsSent, ToldIsKept, AckedMeansReceived
<1> QED BY <1>7, <1>8, <1>11, <1>12, <1>13, <1>14, TablesFrame DEF Inv

-----------------------------------------------------------------------------
(* The theorems.                                                           *)

LEMMA InitInv == Init => Inv
<1> SUFFICES ASSUME Init PROVE Inv
  OBVIOUS
<1> USE DEF Init, Store!StoreInit
<1>1. TypeOK
  <2>1. \A S : <<>> \in Seq(S) /\ Len(<<>>) = 0
    OBVIOUS
  <2>2. toServer \in [Conns -> Seq(ToServerMessages)] /\ toClient \in [Conns -> Seq(ToClientMessages)]
    BY <2>1
  <2>3. owner \in Seq(Clients) /\ Len(owner) <= MaxConns
    BY <2>1, BoundAssumption
  <2>4. stored \in Seq(StoredPackets) /\ Len(stored) <= MaxStored
    BY <2>1, BoundAssumption
  <2> QED BY <2>2, <2>3, <2>4, BoundAssumption DEF TypeOK, Handling
<1>2. ConnsOwned /\ RowsOwned
  BY DEF ConnsOwned, RowsOwned
<1>3. KeysSuffice /\ SecondIsReused
  <2>1. Sent = {}
    BY DEF Sent
  <2>2. Cardinality(Sent) = 0
    BY <2>1, FS_EmptySet
  <2> QED BY <2>2 DEF KeysSuffice, SecondIsReused
<1>4. DOMAIN owner = {} /\ DOMAIN stored = {}
  OBVIOUS
<1>5. Wires /\ StoredAsSent /\ ToldIsKept /\ RowUntilTold /\ AckedMeansReceived
  BY <1>4 DEF Wires, StoredAsSent, ToldIsKept, RowUntilTold, AckedMeansReceived
<1> QED BY <1>1, <1>2, <1>3, <1>5 DEF Inv

LEMMA StepInv == Inv /\ [Next]_vars => Inv'
<1> SUFFICES ASSUME Inv, [Next]_vars PROVE Inv'
  OBVIOUS
<1>1. CASE UNCHANGED vars
  <2> USE <1>1 DEF vars, clientVars, netVars, serverVars, store
  <2>1. Grows /\ TablesStay
    BY DEF Grows, TablesStay
  <2>2. TypeOK' /\ ConnsOwned'
    BY DEF Inv, TypeOK, Handling, ConnsOwned
  <2>3. Wires'
    BY <2>1, WiresFrame
  <2> QED BY <2>1, <2>2, <2>3, TablesFrame, StoreFrame DEF Inv
<1>2. ASSUME NEW p \in Packets, send_packet(p) \/ Sender(p) PROVE Inv'
  BY <1>2, SendPacketStep, SendCheckStep, SendNowStep DEF Sender
<1>3. ASSUME NEW c \in Clients, connect(c) \/ Strand(c) \/ Disconnect(c) \/ Crash(c) PROVE Inv'
  <2>1. CASE Disconnect(c)
    BY <2>1, BreakCounts, DisconnectStep DEF Disconnect
  <2>2. CASE ServerGone(c)
    BY <2>2, BreakCounts, DisconnectStep DEF ServerGone
  <2> QED BY <1>3, <2>1, <2>2, ConnectStep, OnConnectedStep, BecomeConnectedStep, HandleHelloStep,
             ResendStep, HandleTransportStep, HandleAckStep, CrashStep DEF Strand
<1>4. ASSUME NEW k \in 1..Len(owner), Server(k) \/ ServerDrop(k) PROVE Inv'
  <2>1. k \in DOMAIN owner
    BY MadeConns
  <2>2. owner[k] \in Clients
    BY <2>1 DEF Inv, TypeOK
  <2>3. CASE ServerDrop(k)
    BY <2>1, <2>2, <2>3, BreakCounts, TerminateStep DEF ServerDrop
  <2>4. CASE ServerRefuse(k) \/ ServerDisconnect(k)
    BY <2>1, <2>2, <2>4, BreakCounts, TerminateStep DEF ServerRefuse, ServerDisconnect, Terminate
  <2> QED BY <1>4, <2>1, <2>3, <2>4, ServerHelloStep, ServerPendingStep, ServerTransportStep,
             ServerRouteStep, ServerAckStep DEF Server
<1>5. ASSUME NEW a \in 1..Len(stored), StorageThread(a) \/ StorageLose(a) PROVE Inv'
  <2>1. a \in DOMAIN stored
    BY MadeConns
  <2> QED BY <1>5, <2>1, StorageStep, StorageTellStep DEF StorageThread
<1> QED BY <1>1, <1>2, <1>3, <1>4, <1>5 DEF Next

LEMMA AlwaysInv == Spec => []Inv
BY InitInv, StepInv, PTL DEF Spec

\* Whatever breaks and in whatever order the strands run, the state of the clients, the
\* connections and the server is a well-formed one: in particular there is a free key for every
\* packet, and every message under way is one of the protocol.
THEOREM TransportTypes == Spec => []TypeOK
<1>1. Inv => TypeOK
  BY DEF Inv
<1> QED BY <1>1, AlwaysInv, PTL

\* A packet handed to send_packet under a key that was never in use is in the sender's table,
\* with the server or acknowledged by its receiver, whatever breaks between the three.
THEOREM FreshKeysKept == Spec => []FreshKeyIsNeverLost
<1>1. Inv => FreshKeyIsNeverLost
  <2> SUFFICES ASSUME Inv, NEW p \in Packets, sending[p] # "no", p \notin reused
               PROVE  Accounted(p)
    BY DEF FreshKeyIsNeverLost
  <2>1. CASE InOut(p)
    BY <2>1 DEF Accounted
  <2>2. CASE Instances(p) \cap told # {}
    BY <2>2 DEF Accounted, Inv, ToldIsKept
  <2> QED BY <2>1, <2>2 DEF Inv, RowUntilTold
<1> QED BY <1>1, AlwaysInv, PTL

\* The server lets go only of packets that are in their receiver's in_packets table.
THEOREM AckedReceived == Spec => []AckedMeansReceived
<1>1. Inv => AckedMeansReceived
  BY DEF Inv
<1> QED BY <1>1, AlwaysInv, PTL
=============================================================================
