--------------------------- MODULE TlsStreamProofs ---------------------------
(***************************************************************************)
(* What TlsStream keeps for any number of reads, writes and records.  The  *)
(* invariant is about a stream and not about the variable st, so that it   *)
(* can be followed through the functions a handler is composed of.         *)
(***************************************************************************)
EXTENDS TlsStream, FiniteSetTheorems, WellFoundedInduction, TLAPS

-----------------------------------------------------------------------------
(* The answers of a stream: done and posted are sequences of answers, K is *)
(* the set of handlers still kept, C of those called, L of the late ones   *)
(* and w of the writes on the wire.                                        *)

\* a may be answered before b: writes go in order, and nothing that is not late comes after SD.
Fine(a, b, L) ==
    /\ a.op = "write" /\ b.op = "write" /\ b \notin L => a.n < b.n \/ a \in L
    /\ a = SD => b \in L
AllFine(A, B, L) == \A a \in A, b \in B : Fine(a, b, L)

Of(q) == {q[i].of : i \in DOMAIN q}
Once(q) == \A i, j \in DOMAIN q : q[i].of = q[j].of => i = j
Ordered(q, L) == \A i, j \in DOMAIN q : i < j => Fine(q[i].of, q[j].of, L)
OnWire(q, w) ==
    \A i \in DOMAIN q : q[i].of.op = "write" /\ q[i].ok => \A m \in 1..q[i].of.n : m \in w

AnswersInv(d, p, K, C, L, w) ==
    /\ d \in Seq(Answers) /\ p \in Seq(Answers)
    /\ Once(d) /\ Once(p) /\ Of(d) \cap Of(p) = {} /\ (Of(d) \cup Of(p)) \cap K = {}
    /\ C = K \cup Of(d) \cup Of(p)
    /\ Ordered(d, L) /\ Ordered(p, L)
    /\ AllFine(Of(d), Of(p) \cup K, L) /\ AllFine(Of(p), K, L)
    /\ OnWire(d, w) /\ OnWire(p, w)

-----------------------------------------------------------------------------
(* A stream.                                                               *)

Marked(q) == {i \in DOMAIN q : ~q[i].data}
MarkedWrites(q) == {W(q[i].write) : i \in Marked(q)}
Kept(s) ==
    (IF s.handshake THEN {HS} ELSE {}) \cup (IF s.shutdown THEN {SD} ELSE {})
        \cup ({s.read} \ {NoRead}) \cup MarkedWrites(s.out)

\* out_queue_: its markers are in the order of the writes, and what a marker waits for is on the wire
\* or in the queue before it.
MarkersInOrder(q) ==
    /\ \A i \in Marked(q) : q[i].write \in 1..MaxWrites
    /\ \A i, j \in Marked(q) : i < j => q[i].write < q[j].write
QueueInv(q, w) ==
    /\ MarkersInOrder(q)
    /\ \A i \in Marked(q) : \A m \in 1..q[i].write :
          m \in w \/ \E k \in DOMAIN q : k < i /\ q[k] = Record(m)

\* The flags: a stream that is closed, or has answered the shutdown, keeps no handler.
FlagsInv(s, C) ==
    /\ s.closed => ~s.handshake /\ ~s.shutdown /\ s.read = NoRead /\ s.out = <<>>
    /\ s.error => s.closed
    /\ s.closing => SD \in C /\ s.read = NoRead
    /\ SD \in C => (s.closing \/ s.closed) /\ ~s.handshake
    /\ SD \in C /\ ~s.shutdown => s.read = NoRead /\ Marked(s.out) = {}
    /\ HS \in C /\ ~s.handshake => s.activated \/ s.closed
    /\ s.channel => HS \in C
    /\ s.writing => s.closed \/ (s.out # <<>> /\ s.out[1].data)

\* Writes that were taken are on the wire or in the queue while the stream takes writes.
TakenInv(s, C, w) ==
    ~s.closed /\ ~s.closing =>
        \A m \in 1..MaxWrites : W(m) \in C => m \in w \/ \E k \in DOMAIN s.out : s.out[k] = Record(m)

StreamInv(s, C, L, w) ==
    /\ s \in Streams
    /\ AnswersInv(s.done, s.posted, Kept(s), C, L, w)
    /\ QueueInv(s.out, w) /\ FlagsInv(s, C) /\ TakenInv(s, C, w)

\* The calls: writes are made one after the other, and late ones after async_shutdown.
CallsInv ==
    /\ called \subseteq Handlers /\ late \subseteq called
    /\ \A n, m \in 1..MaxWrites : n < m /\ W(m) \in called => W(n) \in called
    /\ late # {} => SD \in called
    /\ SD \in called => HS \in called

Inv ==
    /\ TypeOK /\ CallsInv /\ StreamInv(st, called, late, wire) /\ NeverDeaf

-----------------------------------------------------------------------------
(* Sets of numbers in order.                                               *)

\* A set of numbers that is not empty has a smallest one.
LEMMA LeastOf ==
    ASSUME NEW U \in SUBSET Nat, U # {}
    PROVE  \E m \in U : \A n \in U : m <= n
<1>1. PICK m \in U : \A y \in U : ~(<<y, m>> \in OpToRel(<, Nat))
  BY WFMin, NatLessThanWellFounded
<1>2. \A y \in U : ~(y < m)
  BY <1>1 DEF OpToRel
<1> QED BY <1>2

\* InOrder lists the numbers of the set, each one, from the smallest on.
LEMMA InOrderOf ==
    ASSUME NEW N \in Nat, NEW S \in SUBSET (1..N)
    PROVE  /\ InOrder(S) \in Seq(S)
           /\ \A i, j \in DOMAIN InOrder(S) : i < j => InOrder(S)[i] < InOrder(S)[j]
           /\ \A n \in S : \E i \in DOMAIN InOrder(S) : InOrder(S)[i] = n
<1> DEFINE below(n) == {m \in S : m <= n}
           size(n) == Cardinality(below(n))
<1>1. IsFiniteSet(S) /\ Cardinality(S) \in Nat
  <2>1. 1 \in Int /\ N \in Int
    OBVIOUS
  <2>2. IsFiniteSet(1..N)
    BY <2>1, FS_Interval
  <2> QED BY <2>2, FS_Subset, FS_CardinalityType
<1>2. \A m \in S : m \in Nat /\ 1 <= m /\ m <= N
  OBVIOUS
<1>3. ASSUME NEW n \in Nat PROVE IsFiniteSet(below(n)) /\ size(n) \in Nat /\ size(n) <= Cardinality(S)
  <2>1. below(n) \in SUBSET S
    OBVIOUS
  <2> QED BY <1>1, <2>1, FS_Subset, FS_CardinalityType
<1>4. ASSUME NEW n \in Nat, NEW l \in Nat, n <= l PROVE size(n) <= size(l)
  <2>1. \A m \in S : m <= n => m <= l
    BY <1>2, <1>4
  <2>2. below(n) \in SUBSET below(l)
    BY <2>1, Zenon
  <2> QED BY <1>3, <2>2, FS_Subset
<1>5. ASSUME NEW n \in Nat, NEW l \in S, n < l PROVE size(n) < size(l)
  <2>0. l \in Nat /\ ~(l <= n)
    BY <1>2, <1>5
  <2>1. IsFiniteSet(below(n)) /\ l \notin below(n) /\ size(n) \in Nat
    BY <2>0, <1>3, Zenon
  <2>2. Cardinality(below(n) \cup {l}) = size(n) + 1
    BY <2>1, FS_AddElement
  <2>3. \A m \in S : m <= n => m <= l
    BY <1>2, <1>5, <2>0
  <2>4. below(n) \cup {l} \in SUBSET below(l)
    <3>1. l <= l
      BY <2>0
    <3> QED BY <2>3, <3>1, Zenon
  <2>5. Cardinality(below(n) \cup {l}) <= size(l) /\ size(l) \in Nat
    BY <1>3, <2>0, <2>4, FS_Subset
  <2> QED BY <2>1, <2>2, <2>5
<1>6. size(N) = Cardinality(S) /\ size(0) = 0
  <2>1. below(N) = S
    BY <1>2, Zenon
  <2>2. \A m \in S : ~(m <= 0)
    BY <1>2
  <2>3. below(0) = {}
    BY <2>2, Zenon
  <2> QED BY <2>1, <2>3, FS_EmptySet
<1>7. ASSUME NEW n \in Nat, n >= 1, n \notin S PROVE size(n) = size(n - 1)
  <2>1. \A m \in S : m <= n <=> m <= n - 1
    BY <1>2, <1>7
  <2>2. below(n) = below(n - 1)
    BY <2>1, Zenon
  <2> QED BY <2>2
<1>8. ASSUME NEW n \in Nat, n >= 1, n \in S PROVE size(n) = size(n - 1) + 1
  <2> DEFINE l == n - 1
  <2>0. l \in Nat /\ ~(n <= l)
    BY <1>8
  <2>1. IsFiniteSet(below(l)) /\ n \notin below(l) /\ size(l) \in Nat
    <3> HIDE DEF l
    <3> QED BY <2>0, <1>3, Zenon
  <2>2. \A m \in S : m <= n <=> m <= n - 1 \/ m = n
    BY <1>2, <1>8
  <2>3. below(n) = below(n - 1) \cup {n}
    BY <1>8, <2>2, Zenon
  <2> QED BY <2>1, <2>3, FS_AddElement
<1> HIDE DEF size
<1>9. ASSUME NEW i \in 1..Cardinality(S)
      PROVE  \E n \in S : size(n) = i
  <2> DEFINE U == {n \in Nat : size(n) >= i}
  <2>1. N \in U
    BY <1>1, <1>6
  <2> HIDE DEF U
  <2>2. PICK n \in U : \A l \in U : n <= l
    BY <2>1, LeastOf DEF U
  <2>3. n \in Nat /\ size(n) >= i
    BY <2>2 DEF U
  <2>4. n >= 1
    BY <2>3, <1>6
  <2>5. n - 1 \in Nat /\ n - 1 \notin U
    BY <2>2, <2>3, <2>4
  <2>6. size(n - 1) \in Nat /\ size(n) \in Nat
    BY <2>3, <2>5, <1>3
  <2>7. size(n - 1) < i
    BY <2>5, <2>6 DEF U
  <2>8. CASE n \in S
    BY <2>8, <2>3, <2>4, <2>6, <2>7, <1>1, <1>8
  <2>9. CASE n \notin S
    BY <2>9, <2>3, <2>4, <2>6, <2>7, <1>1, <1>7
  <2> QED BY <2>8, <2>9
<1> DEFINE at(i) == CHOOSE n \in S : size(n) = i
<1>10. ASSUME NEW i \in 1..Cardinality(S) PROVE at(i) \in S /\ size(at(i)) = i
  BY <1>9
<1>11. InOrder(S) = [i \in 1..Cardinality(S) |-> at(i)]
  BY DEF InOrder, size
<1> HIDE DEF at
<1>12. DOMAIN InOrder(S) = 1..Cardinality(S) /\ \A i \in 1..Cardinality(S) : InOrder(S)[i] = at(i)
  BY <1>11
<1>13. InOrder(S) \in Seq(S)
  BY <1>1, <1>10, <1>11
<1>14. ASSUME NEW i \in 1..Cardinality(S), NEW j \in 1..Cardinality(S), i < j PROVE at(i) < at(j)
  <2>1. at(i) \in Nat /\ at(j) \in Nat /\ size(at(i)) = i /\ size(at(j)) = j /\ i \in Nat /\ j \in Nat
    <3>1. at(i) \in S /\ at(j) \in S /\ size(at(i)) = i /\ size(at(j)) = j
      BY <1>10
    <3>2. at(i) \in Nat /\ at(j) \in Nat
      BY <1>2, <3>1, Zenon
    <3>3. i \in Nat /\ j \in Nat
      BY <1>1
    <3> QED BY <3>1, <3>2, <3>3
  <2>2. at(j) <= at(i) => size(at(j)) <= size(at(i))
    BY <1>4, <2>1
  <2> QED BY <1>14, <2>1, <2>2
<1>15. ASSUME NEW n \in S PROVE size(n) \in 1..Cardinality(S) /\ at(size(n)) = n
  <2>1. n \in Nat /\ 0 < n /\ 0 \in Nat
    BY <1>2
  <2>2. size(n) \in Nat /\ size(n) <= Cardinality(S) /\ 0 < size(n)
    BY <2>1, <1>3, <1>5, <1>6
  <2>3. size(n) \in 1..Cardinality(S)
    BY <2>2, <1>1
  <2>4. at(size(n)) \in S /\ size(at(size(n))) = size(n)
    BY <2>3, <1>10
  <2>5. at(size(n)) \in Nat
    BY <2>4, <1>2
  <2>6. ~(n < at(size(n)))
    <3>1. n < at(size(n)) => size(n) < size(at(size(n)))
      BY <2>1, <2>4, <1>5
    <3> QED BY <2>2, <2>4, <3>1
  <2>7. ~(at(size(n)) < n)
    BY <2>5, <2>2, <2>4, <1>5
  <2> QED BY <2>1, <2>3, <2>5, <2>6, <2>7
<1> QED BY <1>12, <1>13, <1>14, <1>15

-----------------------------------------------------------------------------
(* What may be done with answers.                                          *)

\* The answers r are those of p, then those of q.
Joins(r, p, q) ==
    /\ r \in Seq(Answers) /\ Len(r) = Len(p) + Len(q)
    /\ \A i \in 1..Len(p) : r[i] = p[i]
    /\ \A i \in 1..Len(q) : r[Len(p) + i] = q[i]

LEMMA Concatenated ==
    ASSUME NEW p \in Seq(Answers), NEW q \in Seq(Answers)
    PROVE  Joins(p \o q, p, q)
BY DEF Joins

LEMMA Appended ==
    ASSUME NEW p \in Seq(Answers), NEW a \in Answers
    PROVE  Joins(Append(p, a), p, <<a>>) /\ <<a>> \in Seq(Answers)
BY DEF Joins

\* Every place of r is one of p or one of q.
LEMMA JoinedPlaces ==
    ASSUME NEW p \in Seq(Answers), NEW q \in Seq(Answers), NEW r, Joins(r, p, q)
    PROVE  /\ r \in Seq(Answers) /\ Of(r) = Of(p) \cup Of(q)
           /\ \A i \in DOMAIN r :
                 \/ i \in DOMAIN p /\ r[i] = p[i]
                 \/ i > Len(p) /\ i - Len(p) \in DOMAIN q /\ r[i] = q[i - Len(p)]
<1>1. /\ r \in Seq(Answers) /\ DOMAIN p = 1..Len(p) /\ DOMAIN q = 1..Len(q) /\ Len(p) \in Nat /\ Len(q) \in Nat
      /\ DOMAIN r = 1..(Len(p) + Len(q))
  BY DEF Joins
<1>2. ASSUME NEW i \in DOMAIN r
      PROVE  \/ i \in DOMAIN p /\ r[i] = p[i]
             \/ i > Len(p) /\ i - Len(p) \in DOMAIN q /\ r[i] = q[i - Len(p)]
  <2>1. CASE i <= Len(p)
    BY <1>1, <2>1 DEF Joins
  <2>2. CASE i > Len(p)
    <3>1. i - Len(p) \in 1..Len(q) /\ Len(p) + (i - Len(p)) = i
      BY <1>1, <2>2
    <3> QED BY <1>1, <2>2, <3>1 DEF Joins
  <2> QED BY <1>1, <2>1, <2>2
<1>3. Of(r) \subseteq Of(p) \cup Of(q)
  BY <1>2 DEF Of
<1>4. ASSUME NEW i \in DOMAIN p PROVE p[i].of \in Of(r)
  <2>1. i \in DOMAIN r /\ r[i] = p[i]
    BY <1>1 DEF Joins
  <2> QED BY <2>1 DEF Of
<1>5. ASSUME NEW i \in DOMAIN q PROVE q[i].of \in Of(r)
  <2>1. Len(p) + i \in DOMAIN r /\ r[Len(p) + i] = q[i]
    BY <1>1 DEF Joins
  <2> QED BY <2>1 DEF Of
<1>6. Of(p) \cup Of(q) \subseteq Of(r)
  BY <1>4, <1>5 DEF Of
<1> QED BY <1>1, <1>2, <1>3, <1>6

\* Two lists of which the first may be answered before the second are one.
LEMMA JoinedOrder ==
    ASSUME NEW p \in Seq(Answers), NEW q \in Seq(Answers), NEW r, Joins(r, p, q), NEW L, NEW w,
           Once(p), Once(q), Of(p) \cap Of(q) = {}, Ordered(p, L), Ordered(q, L),
           AllFine(Of(p), Of(q), L), OnWire(p, w), OnWire(q, w)
    PROVE  Once(r) /\ Ordered(r, L) /\ OnWire(r, w)
<1>1. /\ r \in Seq(Answers)
      /\ \A i \in DOMAIN r :
            \/ i \in DOMAIN p /\ r[i] = p[i]
            \/ i > Len(p) /\ i - Len(p) \in DOMAIN q /\ r[i] = q[i - Len(p)]
  BY JoinedPlaces
<1>2. /\ DOMAIN p = 1..Len(p) /\ Len(p) \in Nat /\ DOMAIN r \subseteq Nat
      /\ \A i \in DOMAIN p : p[i].of \in Of(p)
      /\ \A i \in DOMAIN q : q[i].of \in Of(q)
  BY <1>1 DEF Of
<1>3. OnWire(r, w)
  BY <1>1 DEF OnWire
<1>4. ASSUME NEW i \in DOMAIN r, NEW j \in DOMAIN r, i < j PROVE Fine(r[i].of, r[j].of, L) /\ r[i].of # r[j].of
  <2>1. CASE i \in DOMAIN p /\ r[i] = p[i] /\ j \in DOMAIN p /\ r[j] = p[j]
    BY <1>2, <1>4, <2>1 DEF Ordered, Once
  <2>2. CASE /\ i \in DOMAIN p /\ r[i] = p[i]
             /\ j > Len(p) /\ j - Len(p) \in DOMAIN q /\ r[j] = q[j - Len(p)]
    <3>1. r[i].of \in Of(p) /\ r[j].of \in Of(q)
      BY <1>2, <2>2
    <3> QED BY <3>1 DEF AllFine
  <2>3. CASE /\ i > Len(p) /\ i - Len(p) \in DOMAIN q /\ r[i] = q[i - Len(p)]
             /\ j > Len(p) /\ j - Len(p) \in DOMAIN q /\ r[j] = q[j - Len(p)]
    <3>1. i - Len(p) < j - Len(p) /\ i - Len(p) # j - Len(p)
      BY <1>2, <1>4
    <3> QED BY <2>3, <3>1 DEF Ordered, Once
  <2>4. ~(i > Len(p) /\ j \in DOMAIN p)
    BY <1>2, <1>4
  <2> QED BY <1>1, <2>1, <2>2, <2>3, <2>4
<1>5. Once(r)
  <2>1. \A i, j \in DOMAIN r : i < j \/ j < i \/ i = j
    BY <1>2
  <2> QED BY <1>4, <2>1, Zenon DEF Once
<1> QED BY <1>3, <1>4, <1>5 DEF Ordered

\* Handlers that were kept are answered: their answers q are posted behind the others.
LEMMA AnswerMany ==
    ASSUME NEW d, NEW p, NEW K, NEW C, NEW L, NEW w, AnswersInv(d, p, K, C, L, w),
           NEW q \in Seq(Answers), Once(q), Of(q) \subseteq K, Ordered(q, L), OnWire(q, w),
           AllFine(Of(q), K \ Of(q), L), NEW r, Joins(r, p, q)
    PROVE  AnswersInv(d, r, K \ Of(q), C, L, w)
<1>1. p \in Seq(Answers) /\ Once(p) /\ Ordered(p, L) /\ OnWire(p, w) /\ Of(p) \cap K = {}
      /\ AllFine(Of(p), K, L)
  BY DEF AnswersInv
<1>2. d \in Seq(Answers) /\ Once(d) /\ Ordered(d, L) /\ OnWire(d, w) /\ Of(d) \cap K = {}
      /\ Of(d) \cap Of(p) = {} /\ AllFine(Of(d), Of(p) \cup K, L) /\ C = K \cup Of(d) \cup Of(p)
  BY DEF AnswersInv
<1>3. r \in Seq(Answers) /\ Of(r) = Of(p) \cup Of(q)
  BY <1>1, JoinedPlaces
<1>4. Of(p) \cap Of(q) = {} /\ AllFine(Of(p), Of(q), L)
  BY <1>1 DEF AllFine
<1>5. Once(r) /\ Ordered(r, L) /\ OnWire(r, w)
  BY <1>1, <1>4, JoinedOrder
<1>6. /\ Of(d) \cap Of(r) = {} /\ (Of(d) \cup Of(r)) \cap (K \ Of(q)) = {}
      /\ C = (K \ Of(q)) \cup Of(d) \cup Of(r)
  BY <1>1, <1>2, <1>3
<1>7. AllFine(Of(d), Of(r) \cup (K \ Of(q)), L) /\ AllFine(Of(r), K \ Of(q), L)
  BY <1>1, <1>2, <1>3 DEF AllFine
<1> QED BY <1>2, <1>3, <1>5, <1>6, <1>7 DEF AnswersInv

\* One list of one answer.
LEMMA OneAnswer ==
    ASSUME NEW h, NEW ok, [of |-> h, ok |-> ok] \in Answers, NEW L, NEW w,
           h.op = "write" => ~ok
    PROVE  LET q == <<[of |-> h, ok |-> ok]>>
           IN  q \in Seq(Answers) /\ Of(q) = {h} /\ Once(q) /\ Ordered(q, L) /\ OnWire(q, w)
BY DEF Of, Once, Ordered, OnWire

\* One handler is answered; a write that is answered alone has failed.
LEMMA AnswerOne ==
    ASSUME NEW d, NEW p, NEW K, NEW C, NEW L, NEW w, AnswersInv(d, p, K, C, L, w),
           NEW h \in K, h \in Handlers, NEW ok \in BOOLEAN, h.op = "write" => ~ok,
           AllFine({h}, K \ {h}, L)
    PROVE  AnswersInv(d, Append(p, [of |-> h, ok |-> ok]), K \ {h}, C, L, w)
<1> DEFINE a == [of |-> h, ok |-> ok]
           q == <<a>>
<1>1. a \in Answers
  BY DEF Answers
<1>2. q \in Seq(Answers) /\ Of(q) = {h} /\ Once(q) /\ Ordered(q, L) /\ OnWire(q, w)
  BY <1>1, OneAnswer
<1>3. p \in Seq(Answers)
  BY DEF AnswersInv
<1>4. Joins(Append(p, a), p, q)
  BY <1>1, <1>3, Appended
<1> HIDE DEF a, q
<1>5. Of(q) \subseteq K /\ AllFine(Of(q), K \ Of(q), L)
  BY <1>2
<1>6. AnswersInv(d, Append(p, a), K \ Of(q), C, L, w)
  BY <1>2, <1>4, <1>5, AnswerMany
<1> QED BY <1>2, <1>6 DEF a

\* A read's handler is invoked inline, before what is posted.
LEMMA InvokeRead ==
    ASSUME NEW d, NEW p, NEW K, NEW C, NEW L, NEW w, AnswersInv(d, p, K, C, L, w),
           NEW h \in K, h \in Handlers, NEW ok \in BOOLEAN, h.op = "read"
    PROVE  AnswersInv(Append(d, [of |-> h, ok |-> ok]), p, K \ {h}, C, L, w)
<1> DEFINE a == [of |-> h, ok |-> ok]
           q == <<a>>
<1>1. a \in Answers
  BY DEF Answers
<1>2. q \in Seq(Answers) /\ Of(q) = {h} /\ Once(q) /\ Ordered(q, L) /\ OnWire(q, w)
  BY <1>1, OneAnswer
<1>3. p \in Seq(Answers) /\ Once(p) /\ Ordered(p, L) /\ OnWire(p, w) /\ Of(p) \cap K = {}
      /\ AllFine(Of(p), K, L)
  BY DEF AnswersInv
<1>4. d \in Seq(Answers) /\ Once(d) /\ Ordered(d, L) /\ OnWire(d, w) /\ Of(d) \cap K = {}
      /\ Of(d) \cap Of(p) = {} /\ AllFine(Of(d), Of(p) \cup K, L) /\ C = K \cup Of(d) \cup Of(p)
  BY DEF AnswersInv
<1>5. Joins(Append(d, a), d, q)
  BY <1>1, <1>4, Appended
<1>6. \A b : Fine(h, b, L)
  BY DEF Fine, SD
<1> HIDE DEF a, q
<1> DEFINE r == Append(d, a)
<1>7. r \in Seq(Answers) /\ Of(r) = Of(d) \cup {h}
  BY <1>2, <1>4, <1>5, JoinedPlaces
<1>8. Once(r) /\ Ordered(r, L) /\ OnWire(r, w)
  <2>1. Of(d) \cap Of(q) = {} /\ AllFine(Of(d), Of(q), L)
    BY <1>2, <1>4 DEF AllFine
  <2> QED BY <1>2, <1>4, <1>5, <2>1, JoinedOrder
<1> HIDE DEF r
<1>9. /\ Of(r) \cap Of(p) = {} /\ (Of(r) \cup Of(p)) \cap (K \ {h}) = {}
      /\ C = (K \ {h}) \cup Of(r) \cup Of(p)
  BY <1>3, <1>4, <1>7
<1>10. AllFine(Of(r), Of(p) \cup (K \ {h}), L) /\ AllFine(Of(p), K \ {h}, L)
  BY <1>3, <1>4, <1>6, <1>7 DEF AllFine
<1>11. AnswersInv(r, p, K \ {h}, C, L, w)
  BY <1>3, <1>7, <1>8, <1>9, <1>10 DEF AnswersInv
<1> QED BY <1>11 DEF a, r

\* The strand runs the first handler that is posted.
LEMMA RunFirst ==
    ASSUME NEW d, NEW p, NEW K, NEW C, NEW L, NEW w, AnswersInv(d, p, K, C, L, w), p # <<>>
    PROVE  AnswersInv(Append(d, Head(p)), Tail(p), K, C, L, w)
<1> DEFINE a == Head(p)
           q == <<a>>
           r == Append(d, a)
           t == Tail(p)
<1>3. p \in Seq(Answers) /\ Once(p) /\ Ordered(p, L) /\ OnWire(p, w) /\ Of(p) \cap K = {}
      /\ AllFine(Of(p), K, L)
  BY DEF AnswersInv
<1>4. d \in Seq(Answers) /\ Once(d) /\ Ordered(d, L) /\ OnWire(d, w) /\ Of(d) \cap K = {}
      /\ Of(d) \cap Of(p) = {} /\ AllFine(Of(d), Of(p) \cup K, L) /\ C = K \cup Of(d) \cup Of(p)
  BY DEF AnswersInv
<1>1. /\ a \in Answers /\ a = p[1] /\ 1 \in DOMAIN p /\ t \in Seq(Answers)
      /\ \A i \in DOMAIN t : i \in Nat /\ i + 1 \in DOMAIN p /\ t[i] = p[i + 1]
      /\ \A i \in DOMAIN p : i = 1 \/ (i \in Nat /\ i - 1 \in DOMAIN t /\ t[i - 1] = p[i])
  BY <1>3
<1> HIDE DEF t
<1>2. q \in Seq(Answers) /\ Of(q) = {a.of} /\ Once(q) /\ Ordered(q, L) /\ OnWire(q, w)
  BY <1>1, <1>3 DEF Of, Once, Ordered, OnWire
<1>5. Joins(Append(d, a), d, q)
  BY <1>1, <1>4, Appended
<1> HIDE DEF a, q
<1>6. Of(p) = {a.of} \cup Of(t) /\ a.of \notin Of(t)
  <2>1. Of(t) \subseteq Of(p) /\ a.of \in Of(p)
    BY <1>1 DEF Of
  <2>2. Of(p) \subseteq {a.of} \cup Of(t)
    BY <1>1 DEF Of
  <2>3. \A i \in DOMAIN t : t[i].of # a.of
    <3> SUFFICES ASSUME NEW i \in DOMAIN t PROVE t[i].of # a.of
      OBVIOUS
    <3>1. i + 1 \in DOMAIN p /\ t[i] = p[i + 1] /\ i + 1 # 1
      BY <1>1
    <3> QED BY <1>1, <1>3, <3>1 DEF Once
  <2> QED BY <2>1, <2>2, <2>3 DEF Of
<1>7. Once(t) /\ Ordered(t, L) /\ OnWire(t, w)
  <2>1. Once(t)
    BY <1>1, <1>3 DEF Once
  <2>2. Ordered(t, L)
    <3> SUFFICES ASSUME NEW i \in DOMAIN t, NEW j \in DOMAIN t, i < j PROVE Fine(t[i].of, t[j].of, L)
      BY DEF Ordered
    <3>1. /\ i + 1 \in DOMAIN p /\ t[i] = p[i + 1] /\ j + 1 \in DOMAIN p /\ t[j] = p[j + 1]
          /\ i + 1 < j + 1
      BY <1>1
    <3> QED BY <1>3, <3>1 DEF Ordered
  <2>3. OnWire(t, w)
    BY <1>1, <1>3 DEF OnWire
  <2> QED BY <2>1, <2>2, <2>3
<1>8. \A b \in Of(t) : Fine(a.of, b, L)
  <2>1. ASSUME NEW i \in DOMAIN t PROVE Fine(a.of, t[i].of, L)
    <3>1. i + 1 \in DOMAIN p /\ t[i] = p[i + 1] /\ 1 < i + 1
      BY <1>1
    <3> QED BY <1>1, <1>3, <3>1 DEF Ordered
  <2> QED BY <2>1 DEF Of
<1>9. r \in Seq(Answers) /\ Of(r) = Of(d) \cup {a.of}
  <2>1. Joins(r, d, q)
    BY <1>5
  <2> HIDE DEF r
  <2> QED BY <1>2, <1>4, <2>1, JoinedPlaces
<1>10. Once(r) /\ Ordered(r, L) /\ OnWire(r, w)
  <2>1. Of(d) \cap Of(q) = {} /\ AllFine(Of(d), Of(q), L)
    BY <1>2, <1>4, <1>6 DEF AllFine
  <2> QED BY <1>2, <1>4, <1>5, <2>1, JoinedOrder
<1> HIDE DEF r
<1>11. /\ Of(r) \cap Of(t) = {} /\ (Of(r) \cup Of(t)) \cap K = {} /\ C = K \cup Of(r) \cup Of(t)
  BY <1>3, <1>4, <1>6, <1>9
<1>12. AllFine(Of(r), Of(t) \cup K, L) /\ AllFine(Of(t), K, L)
  BY <1>3, <1>4, <1>6, <1>8, <1>9 DEF AllFine
<1>13. AnswersInv(r, t, K, C, L, w)
  BY <1>1, <1>7, <1>9, <1>10, <1>11, <1>12 DEF AnswersInv
<1> QED BY <1>13 DEF a, r, t

\* Records reach the wire.
LEMMA WireGrows ==
    ASSUME NEW d, NEW p, NEW K, NEW C, NEW L, NEW w, AnswersInv(d, p, K, C, L, w), NEW v, w \subseteq v
    PROVE  AnswersInv(d, p, K, C, L, v)
<1>1. OnWire(d, v) /\ OnWire(p, v)
  BY DEF AnswersInv, OnWire
<1> QED BY <1>1 DEF AnswersInv

\* What a new call finds: h was not called before, it is late when SD was called, and a write
\* comes after the writes before it.
NewCall(h, C, L, M) ==
    /\ h \in Handlers /\ h \notin C /\ L \subseteq C /\ C \subseteq Handlers
    /\ M = IF SD \in C THEN L \cup {h} ELSE L
    /\ \A n, m \in 1..MaxWrites : n < m /\ W(m) \in C => W(n) \in C

\* What was answered may be answered before a new call, whatever becomes of it.
LEMMA NewIsFine ==
    ASSUME NEW h, NEW C, NEW L, NEW M, NewCall(h, C, L, M)
    PROVE  /\ \A a \in C : Fine(a, h, M)
           /\ \A a \in C, b \in C : Fine(a, b, L) => Fine(a, b, M)
<1>1. L \subseteq M /\ (SD \in C => h \in M)
  BY DEF NewCall
<1>2. ASSUME NEW a \in C PROVE Fine(a, h, M)
  <2>1. a = SD => h \in M
    BY <1>1
  <2>2. ASSUME a.op = "write", h.op = "write" PROVE a.n < h.n
    <3>1. PICK n \in 1..MaxWrites : a = W(n)
      BY <2>2 DEF NewCall, Handlers, HS, SD, R
    <3>2. PICK m \in 1..MaxWrites : h = W(m)
      BY <2>2 DEF NewCall, Handlers, HS, SD, R
    <3>3. n # m /\ ~(m < n)
      BY <3>1, <3>2 DEF NewCall
    <3> QED BY <3>1, <3>2, <3>3 DEF W
  <2> QED BY <2>1, <2>2 DEF Fine
<1>3. ASSUME NEW a \in C, NEW b \in C, Fine(a, b, L) PROVE Fine(a, b, M)
  BY <1>1, <1>3 DEF Fine
<1> QED BY <1>2, <1>3

\* A call is taken: its handler is kept.
LEMMA CallOne ==
    ASSUME NEW d, NEW p, NEW K, NEW C, NEW L, NEW w, AnswersInv(d, p, K, C, L, w),
           NEW h, NEW M, NewCall(h, C, L, M)
    PROVE  AnswersInv(d, p, K \cup {h}, C \cup {h}, M, w)
<1>1. p \in Seq(Answers) /\ Once(p) /\ Ordered(p, L) /\ OnWire(p, w) /\ Of(p) \cap K = {}
      /\ AllFine(Of(p), K, L)
  BY DEF AnswersInv
<1>2. d \in Seq(Answers) /\ Once(d) /\ Ordered(d, L) /\ OnWire(d, w) /\ Of(d) \cap K = {}
      /\ Of(d) \cap Of(p) = {} /\ AllFine(Of(d), Of(p) \cup K, L) /\ C = K \cup Of(d) \cup Of(p)
  BY DEF AnswersInv
<1>3. h \notin C
  BY DEF NewCall
<1>4. /\ \A a \in C : Fine(a, h, M)
      /\ \A a \in C, b \in C : Fine(a, b, L) => Fine(a, b, M)
  BY NewIsFine
<1>5. (\A i \in DOMAIN d : d[i].of \in C) /\ (\A i \in DOMAIN p : p[i].of \in C)
  BY <1>2 DEF Of
<1>6. Ordered(d, M) /\ Ordered(p, M)
  BY <1>1, <1>2, <1>4, <1>5 DEF Ordered
<1>7. AllFine(Of(d), Of(p) \cup (K \cup {h}), M) /\ AllFine(Of(p), K \cup {h}, M)
  BY <1>1, <1>2, <1>4 DEF AllFine
<1>8. (Of(d) \cup Of(p)) \cap (K \cup {h}) = {} /\ C \cup {h} = (K \cup {h}) \cup Of(d) \cup Of(p)
  BY <1>1, <1>2, <1>3
<1> QED BY <1>1, <1>2, <1>6, <1>7, <1>8 DEF AnswersInv

-----------------------------------------------------------------------------
(* The functions a handler is composed of.                                 *)

\* A stream that has no reason to stop reads, or its user has enough to read.
Hears(s) == s.channel /\ ~s.closed /\ ~s.peerClosed => s.reading \/ s.plain >= HighWater

\* What the functions that answer and write leave alone.
Follows(s, t) ==
    /\ t.channel = s.channel /\ t.reading = s.reading /\ t.plain = s.plain
    /\ t.peerClosed = s.peerClosed /\ t.closing = s.closing /\ t.activated = s.activated
    /\ s.closed => t.closed

LEMMA StillHears ==
    ASSUME NEW s, NEW t, Hears(s), Follows(s, t)
    PROVE  Hears(t)
BY DEF Hears, Follows

\* The invariant is about these members only.
SameHandlers(s, t) ==
    /\ t.done = s.done /\ t.posted = s.posted /\ t.handshake = s.handshake
    /\ t.shutdown = s.shutdown /\ t.read = s.read /\ t.out = s.out
    /\ t.closed = s.closed /\ t.error = s.error /\ t.closing = s.closing
    /\ s.activated => t.activated
    /\ t.writing => s.writing

LEMMA OtherMembers ==
    ASSUME NEW s, NEW C, NEW L, NEW w, StreamInv(s, C, L, w), NEW t \in Streams, SameHandlers(s, t),
           t.channel => s.channel \/ HS \in C
    PROVE  StreamInv(t, C, L, w)
<1>1. Kept(t) = Kept(s)
  BY DEF SameHandlers, Kept
<1>2. FlagsInv(t, C)
  BY DEF StreamInv, FlagsInv, SameHandlers
<1>3. TakenInv(t, C, w)
  BY DEF StreamInv, TakenInv, SameHandlers
<1> QED BY <1>1, <1>2, <1>3 DEF StreamInv, SameHandlers

\* The handlers kept are told apart by what they are of.
LEMMA KeptOps ==
    ASSUME NEW s \in Streams, MarkersInOrder(s.out)
    PROVE  /\ Kept(s) \subseteq Handlers
           /\ \A h \in MarkedWrites(s.out) : h.op = "write"
           /\ s.read.op = "read" /\ HS.op = "handshake" /\ SD.op = "shutdown"
           /\ s.read # NoRead => s.read \in Kept(s) /\ s.read \in Handlers
<1>1. MarkedWrites(s.out) \subseteq Handlers /\ \A h \in MarkedWrites(s.out) : h.op = "write"
  BY DEF MarkedWrites, MarkersInOrder, Handlers, W
<1>2. HS \in Handlers /\ SD \in Handlers /\ HS.op = "handshake" /\ SD.op = "shutdown"
  BY DEF Handlers, HS, SD
<1>3. s.read.op = "read" /\ (s.read # NoRead => s.read \in Handlers)
  <2>1. PICK n \in 0..MaxReads : s.read = R(n)
    BY DEF Streams
  <2>2. s.read # NoRead => n \in 1..MaxReads
    BY <2>1, BoundAssumption DEF NoRead
  <2> QED BY <2>1, <2>2 DEF R, Handlers
<1> QED BY <1>1, <1>2, <1>3 DEF Kept

LEMMA StartRead ==
    ASSUME NEW s, NEW C, NEW L, NEW w, StreamInv(s, C, L, w)
    PROVE  StreamInv(start_read(s), C, L, w) /\ Hears(start_read(s))
<1>1. CASE s.reading \/ s.closed \/ s.error \/ s.peerClosed \/ Paused(s)
  <2>1. start_read(s) = s
    BY <1>1 DEF start_read
  <2>2. s.error => s.closed
    BY DEF StreamInv, FlagsInv
  <2> QED BY <1>1, <2>1, <2>2 DEF Hears, Paused
<1>2. CASE ~(s.reading \/ s.closed \/ s.error \/ s.peerClosed \/ Paused(s))
  <2>1. PICK t : t = [s EXCEPT !.reading = TRUE]
    OBVIOUS
  <2>2. s \in Streams
    BY DEF StreamInv
  <2>3. t \in Streams /\ SameHandlers(s, t) /\ t.channel = s.channel /\ t.reading
    BY <2>1, <2>2 DEF Streams, SameHandlers
  <2>4. start_read(s) = t
    BY <1>2, <2>1 DEF start_read
  <2> QED BY <2>3, <2>4, OtherMembers DEF Hears
<1> QED BY <1>1, <1>2

\* The pending read is over, answered inline or through the strand.
LEMMA ReadOver ==
    ASSUME NEW s, NEW C, NEW L, NEW w, StreamInv(s, C, L, w), s.read # NoRead,
           NEW t \in Streams, t.read = NoRead, NEW ok \in BOOLEAN,
           \/ t.done = Append(s.done, [of |-> s.read, ok |-> ok]) /\ t.posted = s.posted
           \/ t.posted = Append(s.posted, [of |-> s.read, ok |-> ok]) /\ t.done = s.done,
           t.handshake = s.handshake, t.shutdown = s.shutdown, t.out = s.out, t.closed = s.closed,
           t.error = s.error, t.closing = s.closing, t.activated = s.activated, t.writing = s.writing,
           t.channel = s.channel
    PROVE  StreamInv(t, C, L, w)
<1>1. s \in Streams /\ MarkersInOrder(s.out) /\ AnswersInv(s.done, s.posted, Kept(s), C, L, w)
  BY DEF StreamInv, QueueInv
<1>2. /\ \A h \in MarkedWrites(s.out) : h.op = "write"
      /\ s.read.op = "read" /\ HS.op = "handshake" /\ SD.op = "shutdown"
      /\ s.read \in Kept(s) /\ s.read \in Handlers
  BY <1>1, KeptOps
<1>3. Kept(t) = Kept(s) \ {s.read}
  BY <1>2 DEF Kept
<1>4. AnswersInv(t.done, t.posted, Kept(s) \ {s.read}, C, L, w)
  <2>1. CASE t.done = Append(s.done, [of |-> s.read, ok |-> ok]) /\ t.posted = s.posted
    BY <1>1, <1>2, <2>1, InvokeRead
  <2>2. CASE t.posted = Append(s.posted, [of |-> s.read, ok |-> ok]) /\ t.done = s.done
    <3>1. AllFine({s.read}, Kept(s) \ {s.read}, L)
      BY <1>2 DEF AllFine, Fine
    <3> QED BY <1>1, <1>2, <2>2, <3>1, AnswerOne
  <2> QED BY <2>1, <2>2
<1>5. FlagsInv(t, C) /\ TakenInv(t, C, w) /\ QueueInv(t.out, w)
  BY DEF StreamInv, FlagsInv, TakenInv
<1> QED BY <1>3, <1>4, <1>5 DEF StreamInv

LEMMA DeliverRead ==
    ASSUME NEW s, NEW C, NEW L, NEW w, StreamInv(s, C, L, w)
    PROVE  StreamInv(deliver_read(s), C, L, w) /\ deliver_read(s).peerClosed = s.peerClosed
<1>0. s \in Streams /\ s.done \in Seq(Answers) /\ s.plain \in Nat
      /\ (s.read # NoRead => s.read \in Handlers)
  BY KeptOps DEF StreamInv, QueueInv, Streams
<1>1. ASSUME s.read # NoRead, NEW ok \in BOOLEAN, NEW b, b \in Streams, SameHandlers(s, b),
             b.channel = s.channel, b.activated = s.activated, b.writing = s.writing, b.peerClosed = s.peerClosed,
             NEW t, t = [b EXCEPT !.read = NoRead, !.done = Append(s.done, [of |-> s.read, ok |-> ok])]
      PROVE  StreamInv(t, C, L, w) /\ t.peerClosed = s.peerClosed
  <2>1. Append(s.done, [of |-> s.read, ok |-> ok]) \in Seq(Answers)
    BY <1>0, <1>1 DEF Answers
  <2>2. NoRead \in {R(i) : i \in 0..MaxReads}
    BY BoundAssumption DEF NoRead
  <2>3. t \in Streams
    BY <1>0, <1>1, <2>1, <2>2 DEF Streams
  <2>4. /\ t.read = NoRead /\ t.done = Append(s.done, [of |-> s.read, ok |-> ok]) /\ t.posted = s.posted
        /\ t.handshake = s.handshake /\ t.shutdown = s.shutdown /\ t.out = s.out /\ t.closed = s.closed
        /\ t.error = s.error /\ t.closing = s.closing /\ t.activated = s.activated /\ t.writing = s.writing
        /\ t.channel = s.channel /\ t.peerClosed = s.peerClosed
    BY <1>0, <1>1 DEF Streams, SameHandlers
  <2> QED BY <1>1, <2>3, <2>4, ReadOver
<1>2. CASE s.read # NoRead /\ s.plain > 0
  <2>1. PICK b : b = [s EXCEPT !.plain = s.plain - 1]
    OBVIOUS
  <2>2. s.plain - 1 \in Nat
    BY <1>0, <1>2
  <2>3. /\ b \in Streams /\ SameHandlers(s, b) /\ b.channel = s.channel /\ b.activated = s.activated
        /\ b.writing = s.writing /\ b.peerClosed = s.peerClosed
    BY <1>0, <2>1, <2>2 DEF Streams, SameHandlers
  <2>4. deliver_read(s) = [b EXCEPT !.read = NoRead, !.done = Append(s.done, [of |-> s.read, ok |-> TRUE])]
    BY <1>0, <1>2, <2>1 DEF deliver_read, Invoke, Streams
  <2> QED BY <1>1, <1>2, <2>3, <2>4
<1>3. CASE s.read # NoRead /\ s.plain = 0 /\ (s.error \/ s.peerClosed)
  <2>1. deliver_read(s) = [s EXCEPT !.read = NoRead, !.done = Append(s.done, [of |-> s.read, ok |-> FALSE])]
    BY <1>0, <1>3 DEF deliver_read, Invoke, Streams
  <2>2. SameHandlers(s, s)
    BY DEF SameHandlers
  <2> QED BY <1>0, <1>1, <1>3, <2>1, <2>2
<1>4. CASE ~(s.read # NoRead /\ s.plain > 0) /\ ~(s.read # NoRead /\ s.plain = 0 /\ (s.error \/ s.peerClosed))
  BY <1>4 DEF deliver_read
<1> QED BY <1>2, <1>3, <1>4

LEMMA FinishShutdown ==
    ASSUME NEW s, NEW C, NEW L, NEW w, StreamInv(s, C, L, w)
    PROVE  StreamInv(finish_shutdown(s), C, L, w) /\ Follows(s, finish_shutdown(s))
<1>0. s \in Streams /\ MarkersInOrder(s.out) /\ AnswersInv(s.done, s.posted, Kept(s), C, L, w)
      /\ s.posted \in Seq(Answers)
  BY DEF StreamInv, QueueInv, Streams
<1>1. CASE ~ReadyToShutDown(s)
  BY <1>1 DEF finish_shutdown, Follows
<1>2. CASE ReadyToShutDown(s)
  <2>1. s.closing /\ ~s.writing /\ s.out = <<>> /\ ~s.closed
    BY <1>2 DEF ReadyToShutDown
  <2>2. SD \in C /\ s.read = NoRead /\ ~s.handshake /\ ~s.error
    BY <2>1 DEF StreamInv, FlagsInv
  <2>3. Kept(s) = IF s.shutdown THEN {SD} ELSE {}
    BY <2>1, <2>2 DEF Kept, MarkedWrites, Marked
  <2>4. PICK c : c = [s EXCEPT !.closed = s.peerClosed, !.shutdown = FALSE]
    OBVIOUS
  <2>5. /\ c \in Streams /\ c.done = s.done /\ c.handshake = s.handshake /\ ~c.shutdown /\ c.read = s.read
        /\ c.out = s.out /\ c.closed = s.peerClosed /\ c.error = s.error /\ c.closing = s.closing
        /\ c.activated = s.activated /\ c.writing = s.writing /\ c.channel = s.channel
        /\ c.reading = s.reading /\ c.plain = s.plain /\ c.peerClosed = s.peerClosed /\ c.posted = s.posted
    BY <1>0, <2>4 DEF Streams
  <2>6. PICK t : t = IF s.shutdown THEN Post(c, SD, TRUE) ELSE c
    OBVIOUS
  <2>7. finish_shutdown(s) = t
    BY <1>2, <2>4, <2>6 DEF finish_shutdown
  <2>8. SD \in Handlers
    BY DEF Handlers
  <2>9. Append(s.posted, [of |-> SD, ok |-> TRUE]) \in Seq(Answers)
    BY <1>0, <2>8 DEF Answers
  <2>10. /\ t \in Streams /\ t.done = s.done /\ t.handshake = s.handshake /\ ~t.shutdown /\ t.read = s.read
         /\ t.out = s.out /\ t.closed = s.peerClosed /\ t.error = s.error /\ t.closing = s.closing
         /\ t.activated = s.activated /\ t.writing = s.writing /\ t.channel = s.channel
         /\ t.reading = s.reading /\ t.plain = s.plain /\ t.peerClosed = s.peerClosed
         /\ t.posted = IF s.shutdown THEN Append(s.posted, [of |-> SD, ok |-> TRUE]) ELSE s.posted
    <3>1. CASE s.shutdown
      <4>1. t = [c EXCEPT !.posted = Append(s.posted, [of |-> SD, ok |-> TRUE])]
        BY <2>5, <2>6, <3>1 DEF Post
      <4>2. t \in Streams
        BY <2>5, <2>9, <4>1 DEF Streams
      <4> QED BY <2>5, <3>1, <4>1, <4>2 DEF Streams
    <3>2. CASE ~s.shutdown
      BY <2>5, <2>6, <3>2
    <3> QED BY <3>1, <3>2
  <2>11. Kept(t) = {}
    BY <2>1, <2>2, <2>10 DEF Kept, MarkedWrites, Marked
  <2>12. AnswersInv(t.done, t.posted, {}, C, L, w)
    <3>1. CASE s.shutdown
      <4>1. AllFine({SD}, {SD} \ {SD}, L) /\ SD.op # "write" /\ {SD} \ {SD} = {}
        BY DEF AllFine, SD
      <4>2. AnswersInv(s.done, s.posted, {SD}, C, L, w)
        BY <1>0, <2>3, <3>1
      <4>3. AnswersInv(s.done, Append(s.posted, [of |-> SD, ok |-> TRUE]), {SD} \ {SD}, C, L, w)
        BY <2>8, <4>1, <4>2, AnswerOne
      <4> QED BY <2>10, <3>1, <4>1, <4>3
    <3>2. CASE ~s.shutdown
      BY <1>0, <2>3, <2>10, <3>2
    <3> QED BY <3>1, <3>2
  <2>13. FlagsInv(t, C) /\ TakenInv(t, C, w) /\ QueueInv(t.out, w)
    <3>1. Marked(t.out) = {}
      BY <2>1, <2>10 DEF Marked
    <3>2. FlagsInv(s, C) /\ QueueInv(s.out, w)
      BY DEF StreamInv
    <3>3. FlagsInv(t, C)
      BY <2>1, <2>2, <2>10, <3>1, <3>2 DEF FlagsInv
    <3> QED BY <2>1, <2>10, <3>2, <3>3 DEF TakenInv
  <2>14. Follows(s, t)
    BY <2>1, <2>10 DEF Follows
  <2> QED BY <2>7, <2>10, <2>11, <2>12, <2>13, <2>14 DEF StreamInv
<1> QED BY <1>1, <1>2

\* The answers to writes whose markers are at places f[1], f[2] ... of the queue, one after the other.
LEMMA WritesAnswered ==
    ASSUME NEW q \in Seq(Items), MarkersInOrder(q), NEW f \in Seq(Marked(q)), NEW ok \in BOOLEAN,
           \A i, j \in DOMAIN f : i < j => f[i] < f[j], NEW a, NEW L,
           a = [i \in DOMAIN f |-> [of |-> W(q[f[i]].write), ok |-> ok]]
    PROVE  /\ a \in Seq(Answers) /\ Once(a) /\ Ordered(a, L)
           /\ Of(a) = {W(q[f[i]].write) : i \in DOMAIN f}
           /\ Of(a) \subseteq MarkedWrites(q)
<1>1. DOMAIN f = 1..Len(f) /\ Len(f) \in Nat /\ \A i \in DOMAIN f : f[i] \in Marked(q)
  OBVIOUS
<1>2. /\ \A i \in Marked(q) : q[i].write \in 1..MaxWrites /\ W(q[i].write) \in Handlers
      /\ \A i, j \in Marked(q) : i < j => q[i].write < q[j].write
  BY DEF MarkersInOrder, Handlers
<1>3. DOMAIN a = DOMAIN f /\ \A i \in DOMAIN f : a[i] = [of |-> W(q[f[i]].write), ok |-> ok]
  OBVIOUS
<1>4. \A i \in DOMAIN f : a[i] \in Answers /\ a[i].of = W(q[f[i]].write)
  BY <1>1, <1>2, <1>3 DEF Answers
<1>5. a \in Seq(Answers)
  BY <1>1, <1>4
<1>6. ASSUME NEW i \in DOMAIN f, NEW j \in DOMAIN f, i < j
      PROVE  Fine(a[i].of, a[j].of, L) /\ a[i].of # a[j].of
  <2>1. q[f[i]].write < q[f[j]].write /\ q[f[i]].write \in 1..MaxWrites /\ q[f[j]].write \in 1..MaxWrites
    BY <1>1, <1>2, <1>6
  <2> QED BY <1>4, <2>1 DEF Fine, W, SD
<1>7. Once(a)
  <2>1. \A i, j \in DOMAIN f : i < j \/ j < i \/ i = j
    BY <1>1
  <2>2. \A i, j \in DOMAIN f : i < j => a[i].of # a[j].of
    BY <1>6
  <2>3. \A i, j \in DOMAIN f : a[i].of = a[j].of => i = j
    BY <2>1, <2>2, Zenon
  <2> QED BY <1>3, <2>3 DEF Once
<1>8. Ordered(a, L)
  BY <1>3, <1>6 DEF Ordered
<1>9. Of(a) = {W(q[f[i]].write) : i \in DOMAIN f}
  BY <1>3, <1>4 DEF Of
<1> QED BY <1>1, <1>5, <1>7, <1>8, <1>9 DEF MarkedWrites

\* The items without data at the front are those up to a place.
LEMMA LeadingOf ==
    ASSUME NEW s, s.out \in Seq(Items)
    PROVE  \E n \in 0..Len(s.out) :
              /\ LeadingMarkers(s) = SubSeq(s.out, 1, n)
              /\ \A i \in 1..n : ~s.out[i].data
              /\ n < Len(s.out) => s.out[n + 1].data
<1> DEFINE q == s.out
           U == {n \in Nat : n = Len(q) \/ (n < Len(q) /\ q[n + 1].data)}
           P(n) == (\A i \in 1..n : ~q[i].data) /\ (n < Len(q) => q[n + 1].data)
<1>1. Len(q) \in Nat /\ Len(q) \in U
  OBVIOUS
<1> HIDE DEF U
<1>2. PICK n \in U : \A m \in U : n <= m
  BY <1>1, LeastOf DEF U
<1>3. n \in Nat /\ n <= Len(q) /\ (n < Len(q) => q[n + 1].data)
  BY <1>1, <1>2 DEF U
<1>4. ASSUME NEW i \in 1..n PROVE ~q[i].data
  <2>1. i - 1 \in Nat /\ i - 1 < n /\ i - 1 < Len(q) /\ (i - 1) + 1 = i
    BY <1>1, <1>3
  <2>2. i - 1 \notin U
    BY <1>2, <1>3, <2>1
  <2> QED BY <2>1, <2>2 DEF U
<1>5. n \in 0..Len(q) /\ P(n)
  BY <1>1, <1>3, <1>4
<1>6. PICK m : m = CHOOSE k \in 0..Len(q) : P(k)
  OBVIOUS
<1>7. m \in 0..Len(q) /\ P(m)
  BY <1>5, <1>6
<1>8. LeadingMarkers(s) = SubSeq(q, 1, m)
  BY <1>6 DEF LeadingMarkers
<1> QED BY <1>7, <1>8

\* What is left of a queue behind its first n items.
LEMMA RestOf ==
    ASSUME NEW q \in Seq(Items), NEW n \in 0..Len(q)
    PROVE  LET o == SubSeq(q, n + 1, Len(q))
           IN  /\ o \in Seq(Items) /\ Len(o) = Len(q) - n
               /\ \A i \in DOMAIN o : i \in Nat /\ i >= 1 /\ n + i \in DOMAIN q /\ o[i] = q[n + i]
               /\ \A i \in DOMAIN q : i > n => i - n \in DOMAIN o /\ o[i - n] = q[i]
<1> DEFINE o == SubSeq(q, n + 1, Len(q))
<1>1. Len(q) \in Nat /\ n \in Nat /\ n <= Len(q)
  OBVIOUS
<1>2. o \in Seq(Items) /\ Len(o) = Len(q) - n /\ \A i \in 1..(Len(q) - n) : o[i] = q[n + i]
  <2>1. \A i \in (n + 1)..Len(q) : q[i] \in Items
    BY <1>1
  <2>2. o = [i \in 1..(Len(q) - n) |-> q[(n + 1) + i - 1]]
    BY <1>1
  <2>3. \A i \in 1..(Len(q) - n) : (n + 1) + i - 1 = n + i /\ n + i \in (n + 1)..Len(q)
    BY <1>1
  <2>4. Len(q) - n \in Nat
    BY <1>1
  <2> HIDE DEF o
  <2>5. o \in [1..(Len(q) - n) -> Items]
    BY <2>1, <2>2, <2>3
  <2> QED BY <2>2, <2>3, <2>4, <2>5
<1> HIDE DEF o
<1>3. DOMAIN o = 1..(Len(q) - n) /\ DOMAIN q = 1..Len(q)
  BY <1>1, <1>2
<1>4. ASSUME NEW i \in DOMAIN o PROVE i \in Nat /\ i >= 1 /\ n + i \in DOMAIN q /\ o[i] = q[n + i]
  BY <1>1, <1>2, <1>3
<1>5. ASSUME NEW i \in DOMAIN q, i > n PROVE i - n \in DOMAIN o /\ o[i - n] = q[i]
  <2>1. i - n \in 1..(Len(q) - n) /\ n + (i - n) = i
    BY <1>1, <1>3, <1>5
  <2> QED BY <1>2, <1>3, <2>1
<1> QED BY <1>2, <1>4, <1>5 DEF o

\* A queue loses items at its front; records that it loses are on the wire.
Rest(q, n, o, w, v) ==
    /\ MarkersInOrder(q) => MarkersInOrder(o)
    /\ QueueInv(q, w) => QueueInv(o, v)
    /\ \A m : (\E k \in DOMAIN q : q[k] = Record(m)) => m \in v \/ \E k \in DOMAIN o : o[k] = Record(m)
    /\ MarkersInOrder(q) => MarkedWrites(o) = MarkedWrites(q) \ {W(q[i].write) : i \in {j \in 1..n : ~q[j].data}}

LEMMA QueueRest ==
    ASSUME NEW q \in Seq(Items), NEW n \in 0..Len(q), NEW o, o = SubSeq(q, n + 1, Len(q)), NEW w, NEW v,
           w \subseteq v, \A i \in 1..n : q[i].data => q[i].write \in v
    PROVE  Rest(q, n, o, w, v)
<1>1. /\ Len(q) \in Nat /\ n \in Nat /\ n <= Len(q) /\ DOMAIN q = 1..Len(q)
      /\ o \in Seq(Items)
      /\ \A i \in DOMAIN o : i \in Nat /\ i >= 1 /\ n + i \in DOMAIN q /\ o[i] = q[n + i]
      /\ \A i \in DOMAIN q : i > n => i - n \in DOMAIN o /\ o[i - n] = q[i]
  BY RestOf
<1>2. \A i \in Marked(o) : i \in Nat /\ i >= 1 /\ n + i \in Marked(q) /\ o[i] = q[n + i]
  BY <1>1 DEF Marked
<1>3. ASSUME MarkersInOrder(q) PROVE MarkersInOrder(o)
  <2>1. \A i \in Marked(o) : o[i].write \in 1..MaxWrites
    BY <1>2, <1>3 DEF MarkersInOrder
  <2>2. ASSUME NEW i \in Marked(o), NEW j \in Marked(o), i < j PROVE o[i].write < o[j].write
    <3>1. n + i \in Marked(q) /\ n + j \in Marked(q) /\ n + i < n + j /\ o[i] = q[n + i] /\ o[j] = q[n + j]
      <4>1. i \in Nat /\ j \in Nat /\ n \in Nat
        BY <1>1, <1>2
      <4>2. n + i < n + j
        BY <2>2, <4>1
      <4> QED BY <1>2, <4>2
    <3> QED BY <1>3, <3>1 DEF MarkersInOrder
  <2> QED BY <2>1, <2>2 DEF MarkersInOrder
<1>4. ASSUME NEW m, NEW k \in DOMAIN q, q[k] = Record(m), m \notin v
      PROVE  k > n /\ k - n \in DOMAIN o /\ o[k - n] = Record(m)
  <2>1. q[k].data /\ q[k].write = m
    BY <1>4 DEF Record
  <2>2. ~(k \in 1..n)
    BY <1>4, <2>1
  <2>3. k > n
    BY <1>1, <2>2
  <2> QED BY <1>1, <1>4, <2>3
<1>5. ASSUME QueueInv(q, w) PROVE QueueInv(o, v)
  <2>1. ASSUME NEW i \in Marked(o), NEW m \in 1..o[i].write, m \notin v
        PROVE  \E k \in DOMAIN o : k < i /\ o[k] = Record(m)
    <3>1. n + i \in Marked(q) /\ o[i] = q[n + i] /\ m \notin w /\ i \in Nat
      BY <1>2, <2>1
    <3>2. PICK k \in DOMAIN q : k < n + i /\ q[k] = Record(m)
      BY <1>5, <3>1 DEF QueueInv
    <3>3. k - n \in DOMAIN o /\ o[k - n] = Record(m)
      BY <1>4, <2>1, <3>2
    <3>4. k - n < i
      BY <1>1, <3>1, <3>2
    <3> QED BY <3>3, <3>4
  <2> QED BY <1>3, <1>5, <2>1 DEF QueueInv
<1>6. \A m : (\E k \in DOMAIN q : q[k] = Record(m)) => m \in v \/ \E k \in DOMAIN o : o[k] = Record(m)
  BY <1>4
<1>7. ASSUME MarkersInOrder(q)
      PROVE  MarkedWrites(o) = MarkedWrites(q) \ {W(q[i].write) : i \in {j \in 1..n : ~q[j].data}}
  <2> DEFINE G == {W(q[i].write) : i \in {j \in 1..n : ~q[j].data}}
  <2>1. ASSUME NEW i \in Marked(o) PROVE W(o[i].write) \in MarkedWrites(q) \ G
    <3>1. n + i \in Marked(q) /\ o[i] = q[n + i] /\ i \in Nat /\ i >= 1
      BY <1>2
    <3>2. ASSUME NEW j \in 1..n, ~q[j].data PROVE W(q[j].write) # W(o[i].write)
      <4>1. j \in Marked(q) /\ j < n + i
        BY <1>1, <3>1, <3>2 DEF Marked
      <4>2. q[j].write < q[n + i].write /\ q[j].write \in 1..MaxWrites /\ q[n + i].write \in 1..MaxWrites
        BY <1>7, <3>1, <4>1 DEF MarkersInOrder
      <4>3. q[j].write # q[n + i].write
        BY <4>2
      <4> QED BY <3>1, <4>3 DEF W
    <3>3. W(o[i].write) \in MarkedWrites(q)
      BY <3>1 DEF MarkedWrites
    <3> QED BY <3>2, <3>3
  <2>2. ASSUME NEW i \in Marked(q), W(q[i].write) \notin G PROVE W(q[i].write) \in MarkedWrites(o)
    <3>1. ~(i \in 1..n) /\ i \in DOMAIN q
      BY <2>2 DEF Marked
    <3>2. i > n
      BY <1>1, <3>1
    <3>3. i - n \in Marked(o) /\ o[i - n] = q[i]
      BY <1>1, <3>1, <3>2 DEF Marked
    <3> QED BY <3>3 DEF MarkedWrites
  <2> HIDE DEF G
  <2>3. MarkedWrites(o) \subseteq MarkedWrites(q) \ G
    BY <2>1 DEF MarkedWrites
  <2>4. MarkedWrites(q) \ G \subseteq MarkedWrites(o)
    <3>1. ASSUME NEW h \in MarkedWrites(q), h \notin G PROVE h \in MarkedWrites(o)
      <4>1. PICK i \in Marked(q) : h = W(q[i].write)
        BY DEF MarkedWrites
      <4> QED BY <2>2, <3>1, <4>1
    <3> QED BY <3>1
  <2> QED BY <2>3, <2>4 DEF G
<1> QED BY <1>3, <1>5, <1>6, <1>7 DEF Rest

\* The records in a queue are in the next one, too.
RecordsStay(q, o) ==
    \A m : (\E k \in DOMAIN q : q[k] = Record(m)) => \E k \in DOMAIN o : o[k] = Record(m)

LEMMA CompleteMarkers ==
    ASSUME NEW s, NEW C, NEW L, NEW w, StreamInv(s, C, L, w), ~s.writing, ~s.closed,
           NEW t, t = complete_write_markers(s)
    PROVE  /\ StreamInv(t, C, L, w) /\ Follows(s, t) /\ ~t.writing /\ ~t.closed
           /\ t.out # <<>> => t.out[1].data
           /\ RecordsStay(s.out, t.out)
<1>0. /\ s \in Streams /\ s.out \in Seq(Items) /\ s.posted \in Seq(Answers)
      /\ MarkersInOrder(s.out) /\ QueueInv(s.out, w)
      /\ AnswersInv(s.done, s.posted, Kept(s), C, L, w)
  BY DEF StreamInv, QueueInv, Streams
<1>1. PICK q : q = s.out
  OBVIOUS
<1>2. PICK n \in 0..Len(q) : /\ LeadingMarkers(s) = SubSeq(q, 1, n)
                             /\ \A i \in 1..n : ~q[i].data
                             /\ n < Len(q) => q[n + 1].data
  BY <1>0, <1>1, LeadingOf
<1>3. /\ q \in Seq(Items) /\ Len(q) \in Nat /\ n \in Nat /\ n <= Len(q) /\ DOMAIN q = 1..Len(q)
      /\ MarkersInOrder(q)
  BY <1>0, <1>1
<1>4. PICK m : m = SubSeq(q, 1, n)
  OBVIOUS
<1>5. Len(m) = n /\ DOMAIN m = 1..n /\ \A i \in 1..n : m[i] = q[i]
  BY <1>3, <1>4
<1>6. PICK a : a = WritesDone(m, TRUE)
  OBVIOUS
<1>7. PICK f : f = [i \in 1..n |-> i]
  OBVIOUS
<1>8. /\ f \in Seq(Marked(q)) /\ DOMAIN f = 1..n /\ \A i \in 1..n : f[i] = i
      /\ \A i, j \in DOMAIN f : i < j => f[i] < f[j]
  <2>1. \A i \in 1..n : i \in Marked(q)
    BY <1>2, <1>3 DEF Marked
  <2>2. f \in [1..n -> Marked(q)]
    BY <1>7, <2>1
  <2>3. f \in Seq(Marked(q))
    BY <1>3, <2>2
  <2> QED BY <1>7, <2>3
<1>9. a = [i \in DOMAIN f |-> [of |-> W(q[f[i]].write), ok |-> TRUE]]
  <2>1. \A i \in 1..n : m[i] = q[f[i]]
    BY <1>5, <1>8
  <2> QED BY <1>5, <1>6, <1>8, <2>1 DEF WritesDone
<1>10. /\ a \in Seq(Answers) /\ Once(a) /\ Ordered(a, L)
       /\ Of(a) = {W(q[f[i]].write) : i \in DOMAIN f}
       /\ Of(a) \subseteq MarkedWrites(q)
  BY <1>3, <1>8, <1>9, WritesAnswered
<1>11. Of(a) = {W(q[i].write) : i \in {j \in 1..n : ~q[j].data}}
  BY <1>2, <1>8, <1>10
<1>12. OnWire(a, w)
  <2> SUFFICES ASSUME NEW i \in DOMAIN a, NEW k \in 1..a[i].of.n PROVE k \in w
    BY DEF OnWire
  <2>1. i \in 1..n /\ a[i].of.n = q[i].write
    BY <1>8, <1>9 DEF W
  <2>2. i \in Marked(q) /\ i <= n
    BY <1>2, <1>3, <2>1 DEF Marked
  <2>3. k \in w \/ \E j \in DOMAIN q : j < i /\ q[j] = Record(k)
    BY <1>0, <1>1, <2>1, <2>2 DEF QueueInv
  <2>4. \A j \in DOMAIN q : j < i => ~q[j].data
    BY <1>2, <1>3, <2>2
  <2> QED BY <2>3, <2>4 DEF Record
<1>13. PICK o : o = SubSeq(q, n + 1, Len(q))
  OBVIOUS
<1>14. o \in Seq(Items) /\ Len(o) = Len(q) - n /\ (o # <<>> => o[1].data)
  <2>1. /\ o \in Seq(Items) /\ Len(o) = Len(q) - n
        /\ \A i \in DOMAIN o : o[i] = q[n + i]
    BY <1>3, <1>13, RestOf
  <2>2. o # <<>> => 1 \in DOMAIN o /\ n < Len(q)
    BY <1>3, <2>1
  <2> QED BY <1>2, <2>1, <2>2
<1>15. /\ MarkersInOrder(o) /\ QueueInv(o, w)
       /\ \A k : (\E i \in DOMAIN q : q[i] = Record(k)) => \E i \in DOMAIN o : o[i] = Record(k)
       /\ MarkedWrites(o) = MarkedWrites(q) \ Of(a)
  <2>1. \A i \in 1..n : q[i].data => q[i].write \in {}
    BY <1>2
  <2>2. Rest(q, n, o, {}, {})
    BY <1>3, <1>13, <2>1, QueueRest
  <2>3. w \subseteq w /\ \A i \in 1..n : q[i].data => q[i].write \in w
    BY <1>2
  <2>4. Rest(q, n, o, w, w)
    BY <1>3, <1>13, <2>3, QueueRest
  <2>5. MarkersInOrder(o) /\ QueueInv(o, w)
    BY <1>0, <1>1, <2>4 DEF Rest
  <2>6. MarkedWrites(o) = MarkedWrites(q) \ Of(a)
    BY <1>3, <1>11, <2>4, Zenon DEF Rest
  <2>7. \A k : (\E i \in DOMAIN q : q[i] = Record(k)) => \E i \in DOMAIN o : o[i] = Record(k)
    BY <2>2 DEF Rest
  <2> QED BY <2>5, <2>6, <2>7
<1>16. s.posted \o a \in Seq(Answers) /\ Joins(s.posted \o a, s.posted, a)
  BY <1>0, <1>10, Concatenated
<1>17. t = [s EXCEPT !.out = o, !.posted = s.posted \o a]
  BY <1>0, <1>1, <1>2, <1>4, <1>5, <1>6, <1>13 DEF complete_write_markers
<1>18. /\ t \in Streams /\ t.out = o /\ t.posted = s.posted \o a
       /\ t.done = s.done /\ t.handshake = s.handshake /\ t.shutdown = s.shutdown /\ t.read = s.read
       /\ t.closed = s.closed /\ t.error = s.error /\ t.closing = s.closing
       /\ t.activated = s.activated /\ t.writing = s.writing /\ t.channel = s.channel
       /\ t.reading = s.reading /\ t.plain = s.plain /\ t.peerClosed = s.peerClosed
  BY <1>0, <1>14, <1>16, <1>17 DEF Streams
<1>19. /\ \A h \in MarkedWrites(q) : h.op = "write"
       /\ s.read.op = "read" /\ HS.op = "handshake" /\ SD.op = "shutdown"
  BY <1>0, <1>1, KeptOps
<1>20. Kept(t) = Kept(s) \ Of(a) /\ Of(a) \subseteq Kept(s)
  BY <1>1, <1>10, <1>15, <1>18, <1>19 DEF Kept
<1>21. AllFine(Of(a), Kept(s) \ Of(a), L)
  <2> SUFFICES ASSUME NEW x \in Of(a), NEW y \in Kept(s) \ Of(a), y.op = "write" PROVE x.n < y.n
    BY <1>10, <1>19 DEF AllFine, Fine
  <2>1. y \in MarkedWrites(o)
    BY <1>1, <1>15, <1>19 DEF Kept
  <2>2. PICK j \in Marked(o) : y = W(o[j].write)
    BY <2>1 DEF MarkedWrites
  <2>3. n + j \in Marked(q) /\ o[j] = q[n + j] /\ j \in Nat /\ j >= 1
    BY <1>3, <1>13, RestOf DEF Marked
  <2>4. PICK i \in 1..n : x = W(q[i].write) /\ ~q[i].data
    BY <1>11
  <2>5. i \in Marked(q) /\ i < n + j
    BY <1>3, <2>3, <2>4 DEF Marked
  <2>6. q[i].write < q[n + j].write
    BY <1>3, <2>3, <2>5 DEF MarkersInOrder
  <2> QED BY <2>2, <2>3, <2>4, <2>6 DEF W
<1>22. AnswersInv(t.done, t.posted, Kept(t), C, L, w)
  <2>1. AnswersInv(s.done, s.posted \o a, Kept(s) \ Of(a), C, L, w)
    BY <1>0, <1>10, <1>12, <1>16, <1>20, <1>21, AnswerMany
  <2> QED BY <1>18, <1>20, <2>1
<1>23. FlagsInv(t, C)
  <2>0. \A i \in DOMAIN o : n + i \in DOMAIN q /\ o[i] = q[n + i]
    BY <1>3, <1>13, RestOf
  <2>1. Marked(s.out) = {} => Marked(o) = {}
    BY <1>1, <2>0 DEF Marked
  <2> QED BY <1>18, <2>1 DEF StreamInv, FlagsInv
<1>24. TakenInv(t, C, w)
  BY <1>1, <1>15, <1>18 DEF StreamInv, TakenInv
<1>25. RecordsStay(s.out, t.out)
  BY <1>1, <1>15, <1>18 DEF RecordsStay
<1>26. Follows(s, t) /\ ~t.writing /\ ~t.closed
  BY <1>18 DEF Follows
<1> QED BY <1>14, <1>15, <1>18, <1>22, <1>23, <1>24, <1>25, <1>26 DEF StreamInv

LEMMA StartWrite ==
    ASSUME NEW s, NEW C, NEW L, NEW w, StreamInv(s, C, L, w), NEW t, t = start_write(s)
    PROVE  /\ StreamInv(t, C, L, w) /\ Follows(s, t)
           /\ RecordsStay(s.out, t.out)
           /\ (\E m : \E k \in DOMAIN s.out : s.out[k] = Record(m)) => (t.closed => s.closed)
<1>1. CASE s.writing \/ s.closed
  BY <1>1 DEF start_write, Follows, RecordsStay
<1>2. CASE ~s.writing /\ ~s.closed
  <2>1. PICK c : c = complete_write_markers(s)
    OBVIOUS
  <2>2. /\ StreamInv(c, C, L, w) /\ Follows(s, c) /\ ~c.writing /\ ~c.closed
        /\ c.out # <<>> => c.out[1].data
        /\ RecordsStay(s.out, c.out)
    BY <1>2, <2>1, CompleteMarkers
  <2>3. t = IF c.out # <<>> THEN [c EXCEPT !.writing = TRUE] ELSE IF c.closing THEN finish_shutdown(c) ELSE c
    BY <1>2, <2>1 DEF start_write
  <2>4. CASE c.out # <<>>
    <3>1. t = [c EXCEPT !.writing = TRUE] /\ c \in Streams
      BY <2>2, <2>3, <2>4 DEF StreamInv
    <3>2. /\ t \in Streams /\ t.writing /\ t.out = c.out /\ t.posted = c.posted
          /\ t.done = c.done /\ t.handshake = c.handshake /\ t.shutdown = c.shutdown /\ t.read = c.read
          /\ t.closed = c.closed /\ t.error = c.error /\ t.closing = c.closing
          /\ t.activated = c.activated /\ t.channel = c.channel
          /\ t.reading = c.reading /\ t.plain = c.plain /\ t.peerClosed = c.peerClosed
      BY <3>1 DEF Streams
    <3>3. Kept(t) = Kept(c)
      BY <3>2 DEF Kept
    <3>4. FlagsInv(t, C) /\ TakenInv(t, C, w)
      BY <2>2, <2>4, <3>2 DEF StreamInv, FlagsInv, TakenInv
    <3>5. StreamInv(t, C, L, w)
      BY <2>2, <3>2, <3>3, <3>4 DEF StreamInv
    <3>6. Follows(s, t) /\ ~t.closed
      BY <1>2, <2>2, <3>2 DEF Follows
    <3> QED BY <2>2, <3>2, <3>5, <3>6
  <2>5. CASE c.out = <<>>
    <3>1. (\A m : ~\E k \in DOMAIN s.out : s.out[k] = Record(m)) /\ \A o : RecordsStay(s.out, o)
      BY <2>2, <2>5 DEF RecordsStay
    <3>2. CASE c.closing
      <4>1. StreamInv(t, C, L, w) /\ Follows(c, t)
        BY <2>2, <2>3, <2>5, <3>2, FinishShutdown
      <4>2. Follows(s, t)
        BY <1>2, <2>2, <4>1 DEF Follows
      <4> QED BY <3>1, <4>1, <4>2
    <3>3. CASE ~c.closing
      BY <2>2, <2>3, <2>5, <3>1, <3>3
    <3> QED BY <3>2, <3>3
  <2> QED BY <2>4, <2>5
<1>3. s \in Streams
  BY DEF StreamInv
<1> QED BY <1>1, <1>2

\* A queue that gets an item at its end.
LEMMA QueueGrows ==
    ASSUME NEW q \in Seq(Items), NEW x \in Items
    PROVE  /\ Append(q, x) \in Seq(Items) /\ DOMAIN Append(q, x) = DOMAIN q \cup {Len(q) + 1}
           /\ Append(q, x)[Len(q) + 1] = x /\ Len(q) \in Nat /\ DOMAIN q = 1..Len(q)
           /\ \A i \in DOMAIN q : Append(q, x)[i] = q[i] /\ i <= Len(q)
           /\ Append(q, x) # <<>> /\ (q # <<>> => Append(q, x)[1] = q[1])
<1>1. /\ Append(q, x) \in Seq(Items) /\ Len(q) \in Nat /\ DOMAIN q = 1..Len(q)
      /\ Len(Append(q, x)) = Len(q) + 1 /\ Append(q, x)[Len(q) + 1] = x
      /\ \A i \in 1..Len(q) : Append(q, x)[i] = q[i]
  OBVIOUS
<1>2. DOMAIN Append(q, x) = 1..(Len(q) + 1)
  BY <1>1
<1>3. q # <<>> => 1 \in 1..Len(q)
  BY <1>1
<1>4. 1..(Len(q) + 1) = (1..Len(q)) \cup {Len(q) + 1}
  BY <1>1
<1> QED BY <1>1, <1>2, <1>3, <1>4

LEMMA OnEmit ==
    ASSUME NEW s, NEW C, NEW L, NEW w, StreamInv(s, C, L, w), ~s.closed, NEW n \in 0..MaxWrites,
           NEW t, t = on_emit(s, n)
    PROVE  /\ StreamInv(t, C, L, w) /\ Follows(s, t) /\ ~t.closed
           /\ RecordsStay(s.out, t.out) /\ \E k \in DOMAIN t.out : t.out[k] = Record(n)
<1>0. s \in Streams /\ s.out \in Seq(Items) /\ QueueInv(s.out, w)
  BY DEF StreamInv, Streams
<1>1. Record(n) \in Items /\ Record(n).data
  BY DEF Items, Record
<1>2. PICK q : q = s.out
  OBVIOUS
<1>3. PICK o : o = Append(q, Record(n))
  OBVIOUS
<1>4. /\ o \in Seq(Items) /\ DOMAIN o = DOMAIN q \cup {Len(q) + 1}
      /\ o[Len(q) + 1] = Record(n) /\ Len(q) \in Nat /\ DOMAIN q = 1..Len(q)
      /\ \A i \in DOMAIN q : o[i] = q[i] /\ i <= Len(q)
      /\ o # <<>> /\ (q # <<>> => o[1] = q[1])
  BY <1>0, <1>1, <1>2, <1>3, QueueGrows
<1>5. Marked(o) = Marked(q) /\ \A i \in Marked(q) : i \in DOMAIN q /\ o[i] = q[i]
  BY <1>1, <1>4 DEF Marked
<1>6. MarkedWrites(o) = MarkedWrites(q)
  BY <1>5 DEF MarkedWrites
<1>7. QueueInv(o, w)
  <2>1. MarkersInOrder(o)
    BY <1>0, <1>2, <1>5 DEF QueueInv, MarkersInOrder
  <2>2. ASSUME NEW i \in Marked(o), NEW m \in 1..o[i].write
        PROVE  m \in w \/ \E k \in DOMAIN o : k < i /\ o[k] = Record(m)
    <3>1. m \in w \/ \E k \in DOMAIN q : k < i /\ q[k] = Record(m)
      BY <1>0, <1>2, <1>5 DEF QueueInv
    <3> QED BY <1>4, <3>1
  <2> QED BY <2>1, <2>2 DEF QueueInv
<1>8. PICK e : e = [s EXCEPT !.out = o]
  OBVIOUS
<1>9. /\ e \in Streams /\ e.out = o /\ e.posted = s.posted /\ e.writing = s.writing
      /\ e.done = s.done /\ e.handshake = s.handshake /\ e.shutdown = s.shutdown /\ e.read = s.read
      /\ e.closed = s.closed /\ e.error = s.error /\ e.closing = s.closing
      /\ e.activated = s.activated /\ e.channel = s.channel
      /\ e.reading = s.reading /\ e.plain = s.plain /\ e.peerClosed = s.peerClosed
  BY <1>0, <1>4, <1>8 DEF Streams
<1>10. Kept(e) = Kept(s)
  BY <1>2, <1>6, <1>9 DEF Kept
<1>11. FlagsInv(e, C)
  <2>1. FlagsInv(s, C)
    BY DEF StreamInv
  <2> QED BY <1>2, <1>4, <1>5, <1>9, <2>1 DEF FlagsInv
<1>12. RecordsStay(s.out, e.out)
  BY <1>2, <1>4, <1>9 DEF RecordsStay
<1>13. TakenInv(e, C, w)
  BY <1>9, <1>12 DEF StreamInv, TakenInv, RecordsStay
<1>14. StreamInv(e, C, L, w) /\ Follows(s, e)
  BY <1>7, <1>9, <1>10, <1>11, <1>13 DEF StreamInv, Follows
<1>15. t = start_write(e)
  BY <1>0, <1>2, <1>3, <1>8 DEF on_emit
<1>16. \E k \in DOMAIN e.out : e.out[k] = Record(n)
  BY <1>4, <1>9
<1>17. /\ StreamInv(t, C, L, w) /\ Follows(e, t)
       /\ RecordsStay(e.out, t.out)
       /\ (\E m : \E k \in DOMAIN e.out : e.out[k] = Record(m)) => (t.closed => e.closed)
  BY <1>14, <1>15, StartWrite
<1>18. Follows(s, t)
  BY <1>14, <1>17 DEF Follows
<1>19. RecordsStay(s.out, t.out) /\ \E k \in DOMAIN t.out : t.out[k] = Record(n)
  BY <1>12, <1>16, <1>17 DEF RecordsStay
<1>20. ~t.closed
  BY <1>9, <1>16, <1>17
<1> QED BY <1>17, <1>18, <1>19, <1>20

-----------------------------------------------------------------------------
(* The end of a stream.                                                    *)

\* a is x but for what is posted.
OnlyPosts(x, a) ==
    /\ a \in Streams /\ a.out = x.out /\ a.writing = x.writing
    /\ a.done = x.done /\ a.handshake = x.handshake /\ a.shutdown = x.shutdown /\ a.read = x.read
    /\ a.closed = x.closed /\ a.error = x.error /\ a.closing = x.closing
    /\ a.activated = x.activated /\ a.channel = x.channel
    /\ a.reading = x.reading /\ a.plain = x.plain /\ a.peerClosed = x.peerClosed

LEMMA PostOnly ==
    ASSUME NEW x \in Streams, NEW h \in Handlers, NEW ok \in BOOLEAN, NEW a, a = Post(x, h, ok)
    PROVE  OnlyPosts(x, a) /\ a.posted = Append(x.posted, [of |-> h, ok |-> ok])
<1>1. x.posted \in Seq(Answers) /\ [of |-> h, ok |-> ok] \in Answers
  BY DEF Streams, Answers
<1>2. Append(x.posted, [of |-> h, ok |-> ok]) \in Seq(Answers)
  BY <1>1
<1>3. a = [x EXCEPT !.posted = Append(x.posted, [of |-> h, ok |-> ok])]
  BY DEF Post
<1>4. a \in Streams
  BY <1>2, <1>3 DEF Streams
<1> QED BY <1>3, <1>4 DEF OnlyPosts, Streams

\* A handler that s keeps, when it is set, is failed in x, which does not keep it any more.
LEMMA FailOneOf ==
    ASSUME NEW s, NEW C, NEW L, NEW w, AnswersInv(s.done, s.posted, Kept(s), C, L, w),
           NEW x \in Streams, x.done = s.done, x.posted = s.posted,
           NEW isSet, NEW h, isSet <=> h \in Kept(s), isSet => h \in Handlers, Kept(x) = Kept(s) \ {h},
           AllFine({h}, Kept(s) \ {h}, L), NEW a, a = FailOne(x, isSet, h)
    PROVE  OnlyPosts(x, a) /\ AnswersInv(a.done, a.posted, Kept(a), C, L, w)
<1>1. CASE isSet
  <2>1. a = Post(x, h, FALSE)
    BY <1>1 DEF FailOne
  <2>2. OnlyPosts(x, a) /\ a.posted = Append(s.posted, [of |-> h, ok |-> FALSE])
    <3>1. h \in Handlers /\ FALSE \in BOOLEAN
      BY <1>1
    <3>2. OnlyPosts(x, a) /\ a.posted = Append(x.posted, [of |-> h, ok |-> FALSE])
      BY <2>1, <3>1, PostOnly
    <3> QED BY <3>2
  <2>3. Kept(a) = Kept(s) \ {h}
    BY <2>2 DEF OnlyPosts, Kept
  <2>4. AnswersInv(s.done, Append(s.posted, [of |-> h, ok |-> FALSE]), Kept(s) \ {h}, C, L, w)
    BY <1>1, AnswerOne
  <2> QED BY <2>2, <2>3, <2>4 DEF OnlyPosts
<1>2. CASE ~isSet
  <2>1. a = x /\ Kept(s) \ {h} = Kept(s)
    BY <1>2 DEF FailOne
  <2> QED BY <2>1 DEF OnlyPosts
<1> QED BY <1>1, <1>2

\* The writes in the queue are failed together.
LEMMA FailAllWrites ==
    ASSUME NEW s \in Streams, NEW C, NEW L, NEW w, MarkersInOrder(s.out),
           AnswersInv(s.done, s.posted, Kept(s), C, L, w), ~s.handshake, s.read = NoRead,
           NEW c, c = FailWrites(s)
    PROVE  /\ c \in Streams /\ c.out = <<>> /\ c.writing = s.writing
           /\ c.done = s.done /\ c.handshake = s.handshake /\ c.shutdown = s.shutdown /\ c.read = s.read
           /\ c.closed = s.closed /\ c.error = s.error /\ c.closing = s.closing
           /\ c.activated = s.activated /\ c.channel = s.channel
           /\ c.reading = s.reading /\ c.plain = s.plain /\ c.peerClosed = s.peerClosed
           /\ AnswersInv(c.done, c.posted, Kept(c), C, L, w)
<1>0. s.out \in Seq(Items) /\ s.posted \in Seq(Answers)
  BY DEF Streams
<1>1. PICK q : q = s.out
  OBVIOUS
<1>2. q \in Seq(Items) /\ Len(q) \in Nat /\ DOMAIN q = 1..Len(q) /\ MarkersInOrder(q)
  BY <1>0, <1>1
<1>3. Marked(q) \in SUBSET (1..Len(q)) /\ Marked(q) = {i \in DOMAIN q : ~q[i].data}
  BY <1>2 DEF Marked
<1>4. PICK f : f = InOrder(Marked(q))
  OBVIOUS
<1>5. /\ f \in Seq(Marked(q)) /\ \A i, j \in DOMAIN f : i < j => f[i] < f[j]
      /\ \A n \in Marked(q) : \E i \in DOMAIN f : f[i] = n
  BY <1>2, <1>3, <1>4, InOrderOf
<1>6. PICK m : m = Markers(q)
  OBVIOUS
<1>7. m = [i \in DOMAIN f |-> q[f[i]]]
  BY <1>3, <1>4, <1>6 DEF Markers
<1>8. PICK a : a = WritesDone(m, FALSE)
  OBVIOUS
<1>9. a = [i \in DOMAIN f |-> [of |-> W(q[f[i]].write), ok |-> FALSE]]
  BY <1>7, <1>8 DEF WritesDone
<1>10. /\ a \in Seq(Answers) /\ Once(a) /\ Ordered(a, L)
       /\ Of(a) = {W(q[f[i]].write) : i \in DOMAIN f}
       /\ Of(a) \subseteq MarkedWrites(q)
  BY <1>2, <1>5, <1>9, WritesAnswered
<1>11. Of(a) = MarkedWrites(q)
  BY <1>5, <1>10 DEF MarkedWrites
<1>12. OnWire(a, w)
  BY <1>9 DEF OnWire
<1>13. <<>> \in Seq(Items) /\ s.posted \o a \in Seq(Answers) /\ Joins(s.posted \o a, s.posted, a)
  BY <1>0, <1>10, Concatenated
<1>14. c = [s EXCEPT !.out = <<>>, !.posted = s.posted \o a]
  BY <1>1, <1>6, <1>8 DEF FailWrites
<1>15. /\ c \in Streams /\ c.out = <<>> /\ c.writing = s.writing /\ c.posted = s.posted \o a
       /\ c.done = s.done /\ c.handshake = s.handshake /\ c.shutdown = s.shutdown /\ c.read = s.read
       /\ c.closed = s.closed /\ c.error = s.error /\ c.closing = s.closing
       /\ c.activated = s.activated /\ c.channel = s.channel
       /\ c.reading = s.reading /\ c.plain = s.plain /\ c.peerClosed = s.peerClosed
  BY <1>13, <1>14 DEF Streams
<1>16. /\ \A h \in MarkedWrites(q) : h.op = "write"
       /\ SD.op = "shutdown"
  BY <1>1, KeptOps
<1>17. MarkedWrites(c.out) = {}
  BY <1>15 DEF MarkedWrites, Marked
<1>18. Kept(c) = Kept(s) \ Of(a) /\ Of(a) \subseteq Kept(s) /\ Kept(c) \subseteq {SD}
  BY <1>1, <1>11, <1>15, <1>16, <1>17 DEF Kept
<1>19. AllFine(Of(a), Kept(s) \ Of(a), L)
  BY <1>11, <1>16, <1>18 DEF AllFine, Fine
<1>20. AnswersInv(s.done, s.posted \o a, Kept(s) \ Of(a), C, L, w)
  BY <1>10, <1>12, <1>13, <1>18, <1>19, AnswerMany
<1> QED BY <1>15, <1>18, <1>20

\* fail_pending: nobody is kept any more.
NobodyKept(s, t) ==
    /\ t \in Streams /\ t.out = <<>> /\ ~t.handshake /\ ~t.shutdown /\ t.read = NoRead
    /\ t.closed = s.closed /\ t.closing = s.closing /\ t.activated = s.activated /\ t.channel = s.channel

LEMMA FailPending ==
    ASSUME NEW s \in Streams, NEW C, NEW L, NEW w, MarkersInOrder(s.out),
           AnswersInv(s.done, s.posted, Kept(s), C, L, w), NEW t, t = fail_pending(s)
    PROVE  NobodyKept(s, t) /\ AnswersInv(t.done, t.posted, Kept(t), C, L, w)
<1>1. HS \in Handlers /\ SD \in Handlers
  BY DEF Handlers
<1>2. NoRead \in {R(i) : i \in 0..MaxReads} /\ NoRead.op = "read"
  BY BoundAssumption DEF NoRead, R
<1>3. PICK a : a = FailOne([s EXCEPT !.handshake = FALSE], s.handshake, HS)
  OBVIOUS
<1>4. PICK b : b = FailOne([a EXCEPT !.read = NoRead], a.read # NoRead, a.read)
  OBVIOUS
<1>5. PICK c : c = FailWrites(b)
  OBVIOUS
<1>6. t = FailOne([c EXCEPT !.shutdown = FALSE], c.shutdown, SD)
  BY <1>3, <1>4, <1>5 DEF fail_pending
<1>7. /\ a \in Streams /\ ~a.handshake /\ a.shutdown = s.shutdown /\ a.read = s.read /\ a.out = s.out
      /\ a.closed = s.closed /\ a.error = s.error /\ a.closing = s.closing /\ a.writing = s.writing
      /\ a.activated = s.activated /\ a.channel = s.channel
      /\ a.reading = s.reading /\ a.plain = s.plain /\ a.peerClosed = s.peerClosed
      /\ AnswersInv(a.done, a.posted, Kept(a), C, L, w)
  <2>1. PICK x : x = [s EXCEPT !.handshake = FALSE]
    OBVIOUS
  <2>2. /\ x \in Streams /\ ~x.handshake /\ x.shutdown = s.shutdown /\ x.read = s.read /\ x.out = s.out
        /\ x.closed = s.closed /\ x.error = s.error /\ x.closing = s.closing /\ x.writing = s.writing
        /\ x.activated = s.activated /\ x.channel = s.channel /\ x.done = s.done /\ x.posted = s.posted
        /\ x.reading = s.reading /\ x.plain = s.plain /\ x.peerClosed = s.peerClosed
    BY <2>1 DEF Streams
  <2>3. /\ \A h \in MarkedWrites(s.out) : h.op = "write"
        /\ s.read.op = "read" /\ HS.op = "handshake" /\ SD.op = "shutdown"
    BY KeptOps
  <2>4. (s.handshake <=> HS \in Kept(s)) /\ Kept(x) = Kept(s) \ {HS}
    BY <2>2, <2>3 DEF Kept
  <2>5. AllFine({HS}, Kept(s) \ {HS}, L)
    BY <2>3 DEF AllFine, Fine
  <2>6. OnlyPosts(x, a) /\ AnswersInv(a.done, a.posted, Kept(a), C, L, w)
    <3>1. x \in Streams /\ x.done = s.done /\ x.posted = s.posted
      BY <2>2
    <3>2. a = FailOne(x, s.handshake, HS)
      BY <1>3, <2>1
    <3> QED BY <1>1, <2>4, <2>5, <3>1, <3>2, FailOneOf
  <2> QED BY <2>2, <2>6 DEF OnlyPosts
<1>8. /\ b \in Streams /\ ~b.handshake /\ b.shutdown = s.shutdown /\ b.read = NoRead /\ b.out = s.out
      /\ b.closed = s.closed /\ b.error = s.error /\ b.closing = s.closing /\ b.writing = s.writing
      /\ b.activated = s.activated /\ b.channel = s.channel
      /\ b.reading = s.reading /\ b.plain = s.plain /\ b.peerClosed = s.peerClosed
      /\ AnswersInv(b.done, b.posted, Kept(b), C, L, w)
  <2>1. PICK x : x = [a EXCEPT !.read = NoRead]
    OBVIOUS
  <2>2. /\ x \in Streams /\ x.handshake = a.handshake /\ x.shutdown = s.shutdown /\ x.read = NoRead /\ x.out = s.out
        /\ x.closed = s.closed /\ x.error = s.error /\ x.closing = s.closing /\ x.writing = s.writing
        /\ x.activated = s.activated /\ x.channel = s.channel /\ x.done = a.done /\ x.posted = a.posted
        /\ x.reading = s.reading /\ x.plain = s.plain /\ x.peerClosed = s.peerClosed
    BY <1>2, <1>7, <2>1 DEF Streams
  <2>3. /\ \A h \in MarkedWrites(a.out) : h.op = "write"
        /\ a.read.op = "read" /\ HS.op = "handshake" /\ SD.op = "shutdown"
        /\ a.read # NoRead => a.read \in Kept(a) /\ a.read \in Handlers
    BY <1>7, KeptOps
  <2>4. (a.read # NoRead <=> a.read \in Kept(a)) /\ Kept(x) = Kept(a) \ {a.read}
    BY <1>7, <2>2, <2>3 DEF Kept
  <2>5. AllFine({a.read}, Kept(a) \ {a.read}, L)
    BY <2>3 DEF AllFine, Fine
  <2>6. PICK isSet : isSet = (a.read # NoRead)
    OBVIOUS
  <2>7. b = FailOne(x, isSet, a.read)
    BY <1>4, <2>1, <2>6
  <2>8. (isSet <=> a.read \in Kept(a)) /\ (isSet => a.read \in Handlers)
    BY <2>3, <2>4, <2>6
  <2>9. AnswersInv(a.done, a.posted, Kept(a), C, L, w) /\ x \in Streams /\ x.done = a.done /\ x.posted = a.posted
        /\ Kept(x) = Kept(a) \ {a.read}
    BY <1>7, <2>2, <2>4
  <2>10. OnlyPosts(x, b) /\ AnswersInv(b.done, b.posted, Kept(b), C, L, w)
    BY <2>5, <2>7, <2>8, <2>9, FailOneOf
  <2> QED BY <1>7, <2>2, <2>10 DEF OnlyPosts
<1>9. /\ c \in Streams /\ c.out = <<>> /\ c.writing = b.writing
      /\ c.done = b.done /\ c.handshake = b.handshake /\ c.shutdown = b.shutdown /\ c.read = b.read
      /\ c.closed = b.closed /\ c.error = b.error /\ c.closing = b.closing
      /\ c.activated = b.activated /\ c.channel = b.channel
      /\ c.reading = b.reading /\ c.plain = b.plain /\ c.peerClosed = b.peerClosed
      /\ AnswersInv(c.done, c.posted, Kept(c), C, L, w)
  BY <1>5, <1>8, FailAllWrites
<1>10. PICK x : x = [c EXCEPT !.shutdown = FALSE]
  OBVIOUS
<1>11. /\ x \in Streams /\ ~x.handshake /\ ~x.shutdown /\ x.read = NoRead /\ x.out = <<>>
       /\ x.closed = s.closed /\ x.error = s.error /\ x.closing = s.closing /\ x.writing = s.writing
       /\ x.activated = s.activated /\ x.channel = s.channel /\ x.done = c.done /\ x.posted = c.posted
       /\ x.reading = s.reading /\ x.plain = s.plain /\ x.peerClosed = s.peerClosed
  <2>1. c \in Streams
    BY <1>9
  <2>2. /\ x \in Streams /\ x.handshake = c.handshake /\ ~x.shutdown /\ x.read = c.read /\ x.out = c.out
        /\ x.closed = c.closed /\ x.error = c.error /\ x.closing = c.closing /\ x.writing = c.writing
        /\ x.activated = c.activated /\ x.channel = c.channel /\ x.done = c.done /\ x.posted = c.posted
        /\ x.reading = c.reading /\ x.plain = c.plain /\ x.peerClosed = c.peerClosed
    BY <1>10, <2>1 DEF Streams
  <2> QED BY <1>8, <1>9, <2>2
<1>12. (c.shutdown <=> SD \in Kept(c)) /\ Kept(x) = Kept(c) \ {SD} /\ Kept(x) = {}
  BY <1>8, <1>9, <1>11 DEF Kept, MarkedWrites, Marked
<1>13. AllFine({SD}, Kept(c) \ {SD}, L)
  BY <1>12 DEF AllFine
<1>14. OnlyPosts(x, t) /\ AnswersInv(t.done, t.posted, Kept(t), C, L, w)
  <2>1. t = FailOne(x, c.shutdown, SD)
    BY <1>6, <1>10
  <2>2. AnswersInv(c.done, c.posted, Kept(c), C, L, w) /\ x \in Streams /\ x.done = c.done /\ x.posted = c.posted
    BY <1>9, <1>11
  <2> QED BY <1>1, <1>12, <1>13, <2>1, <2>2, FailOneOf
<1> QED BY <1>11, <1>14 DEF OnlyPosts, NobodyKept

\* A stream that is ended: its queue may have lost its first item just before.
LEMMA Ended ==
    ASSUME NEW s, NEW C, NEW L, NEW w, StreamInv(s, C, L, w), NEW x \in Streams,
           MarkersInOrder(x.out), MarkedWrites(x.out) = MarkedWrites(s.out), x.closed,
           x.done = s.done, x.posted = s.posted, x.handshake = s.handshake, x.shutdown = s.shutdown,
           x.read = s.read, x.closing = s.closing, x.activated = s.activated, x.channel = s.channel,
           NEW t, t = fail_pending(x)
    PROVE  /\ StreamInv(t, C, L, w) /\ t.closed
<1>1. AnswersInv(x.done, x.posted, Kept(x), C, L, w)
  <2>1. Kept(x) = Kept(s)
    BY DEF Kept
  <2> QED BY <2>1 DEF StreamInv
<1>2. /\ t \in Streams /\ t.out = <<>> /\ ~t.handshake /\ ~t.shutdown /\ t.read = NoRead
      /\ t.closed = x.closed /\ t.closing = x.closing
      /\ t.activated = x.activated /\ t.channel = x.channel
      /\ AnswersInv(t.done, t.posted, Kept(t), C, L, w)
  <2>1. NobodyKept(x, t) /\ AnswersInv(t.done, t.posted, Kept(t), C, L, w)
    BY <1>1, FailPending
  <2> QED BY <2>1 DEF NobodyKept
<1>3. Marked(t.out) = {}
  BY <1>2 DEF Marked
<1>4. QueueInv(t.out, w)
  BY <1>3 DEF QueueInv, MarkersInOrder
<1>5. FlagsInv(t, C)
  <2>1. FlagsInv(s, C)
    BY DEF StreamInv
  <2> QED BY <1>2, <1>3, <2>1 DEF FlagsInv
<1>6. TakenInv(t, C, w)
  BY <1>2 DEF TakenInv
<1> QED BY <1>2, <1>4, <1>5, <1>6 DEF StreamInv

LEMMA Fail ==
    ASSUME NEW s, NEW C, NEW L, NEW w, StreamInv(s, C, L, w), NEW t, t = fail(s)
    PROVE  StreamInv(t, C, L, w) /\ t.closed
<1>0. s \in Streams /\ MarkersInOrder(s.out) /\ (s.error => s.closed)
  BY DEF StreamInv, QueueInv, FlagsInv
<1>1. CASE s.error \/ s.closed
  BY <1>0, <1>1 DEF fail
<1>2. CASE ~(s.error \/ s.closed)
  <2>1. PICK x : x = [s EXCEPT !.error = TRUE, !.closed = TRUE]
    OBVIOUS
  <2>2. t = fail_pending(x)
    BY <1>2, <2>1 DEF fail
  <2>3. /\ x \in Streams /\ x.out = s.out /\ x.closed
        /\ x.done = s.done /\ x.posted = s.posted /\ x.handshake = s.handshake /\ x.shutdown = s.shutdown
        /\ x.read = s.read /\ x.closing = s.closing /\ x.activated = s.activated /\ x.channel = s.channel
    BY <1>0, <2>1 DEF Streams
  <2> QED BY <1>0, <2>2, <2>3, Ended
<1> QED BY <1>1, <1>2

LEMMA OnActivated ==
    ASSUME NEW s, NEW C, NEW L, NEW w, StreamInv(s, C, L, w), NEW t, t = on_activated(s)
    PROVE  StreamInv(t, C, L, w)
<1>0. s \in Streams /\ MarkersInOrder(s.out) /\ AnswersInv(s.done, s.posted, Kept(s), C, L, w)
  BY DEF StreamInv, QueueInv
<1>1. PICK x : x = [s EXCEPT !.activated = TRUE, !.handshake = FALSE]
  OBVIOUS
<1>2. /\ x \in Streams /\ ~x.handshake /\ x.shutdown = s.shutdown /\ x.read = s.read /\ x.out = s.out
      /\ x.closed = s.closed /\ x.error = s.error /\ x.closing = s.closing /\ x.writing = s.writing
      /\ x.activated /\ x.channel = s.channel /\ x.done = s.done /\ x.posted = s.posted
  BY <1>0, <1>1 DEF Streams
<1>3. /\ \A h \in MarkedWrites(s.out) : h.op = "write"
      /\ s.read.op = "read" /\ HS.op = "handshake" /\ SD.op = "shutdown"
  BY <1>0, KeptOps
<1>4. (s.handshake <=> HS \in Kept(s)) /\ Kept(x) = Kept(s) \ {HS}
  BY <1>2, <1>3 DEF Kept
<1>5. AllFine({HS}, Kept(s) \ {HS}, L)
  BY <1>3 DEF AllFine, Fine
<1>6. /\ t \in Streams /\ ~t.handshake /\ t.shutdown = s.shutdown /\ t.read = s.read /\ t.out = s.out
      /\ t.closed = s.closed /\ t.error = s.error /\ t.closing = s.closing /\ t.writing = s.writing
      /\ t.activated /\ t.channel = s.channel
      /\ AnswersInv(t.done, t.posted, Kept(t), C, L, w)
  <2>1. CASE s.handshake
    <3>1. t = Post(x, HS, TRUE) /\ HS \in Handlers
      BY <1>1, <2>1 DEF on_activated, Handlers
    <3>2. OnlyPosts(x, t) /\ t.posted = Append(s.posted, [of |-> HS, ok |-> TRUE])
      <4>1. OnlyPosts(x, t) /\ t.posted = Append(x.posted, [of |-> HS, ok |-> TRUE])
        BY <1>2, <3>1, PostOnly
      <4> QED BY <1>2, <4>1
    <3>3. AnswersInv(s.done, Append(s.posted, [of |-> HS, ok |-> TRUE]), Kept(s) \ {HS}, C, L, w)
      BY <1>0, <1>3, <1>4, <1>5, <2>1, <3>1, AnswerOne
    <3>4. Kept(t) = Kept(s) \ {HS}
      BY <1>4, <3>2 DEF Kept, OnlyPosts
    <3> QED BY <1>2, <3>2, <3>3, <3>4 DEF OnlyPosts
  <2>2. CASE ~s.handshake
    <3>1. t = x
      BY <1>1, <2>2 DEF on_activated
    <3>2. Kept(t) = Kept(s)
      BY <1>4, <2>2, <3>1
    <3> QED BY <1>0, <1>2, <3>1, <3>2
  <2> QED BY <2>1, <2>2
<1>7. FlagsInv(t, C) /\ TakenInv(t, C, w) /\ QueueInv(t.out, w)
  BY <1>6 DEF StreamInv, FlagsInv, TakenInv
<1> QED BY <1>6, <1>7 DEF StreamInv

-----------------------------------------------------------------------------
(* Calls.                                                                  *)

\* What a step has to show.
LEMMA InvAfter ==
    ASSUME CallsInv', StreamInv(st', called', late', wire'), Hears(st'), wire' \subseteq 0..MaxWrites,
           records' \in 0..MaxRecords, flights' \in 0..MaxFlights, early' \in BOOLEAN
    PROVE  Inv'
<1>1. TypeOK'
  BY DEF TypeOK, CallsInv, StreamInv
<1>2. NeverDeaf'
  BY DEF NeverDeaf, Hears
<1> QED BY <1>1, <1>2 DEF Inv

\* A call that the stream does not take is answered through the strand.
LEMMA Refused ==
    ASSUME NEW s, NEW C, NEW L, NEW w, StreamInv(s, C, L, w), NEW h, NEW M, NewCall(h, C, L, M),
           s.closed \/ (s.closing /\ h.op = "write") \/ h.op = "read", NEW t, t = Refuse(s, h)
    PROVE  StreamInv(t, C \cup {h}, M, w) /\ Follows(s, t)
<1>0. s \in Streams /\ AnswersInv(s.done, s.posted, Kept(s), C, L, w) /\ FlagsInv(s, C) /\ TakenInv(s, C, w)
  BY DEF StreamInv
<1>1. h \in Handlers /\ h \notin C /\ (SD \in C => h \in M)
  BY DEF NewCall
<1>2. h \notin Kept(s)
  BY <1>0, <1>1 DEF AnswersInv
<1>3. AnswersInv(s.done, s.posted, Kept(s) \cup {h}, C \cup {h}, M, w)
  BY <1>0, CallOne
<1>4. (Kept(s) \cup {h}) \ {h} = Kept(s)
  BY <1>2
<1>5. AllFine({h}, Kept(s), M)
  <2>1. CASE s.closed
    <3>1. Kept(s) = {}
      BY <1>0, <2>1 DEF FlagsInv, Kept, MarkedWrites, Marked
    <3> QED BY <3>1 DEF AllFine
  <2>2. CASE s.closing /\ h.op = "write"
    <3>1. h \in M /\ h # SD
      BY <1>0, <1>1, <2>2 DEF FlagsInv, SD
    <3> QED BY <3>1 DEF AllFine, Fine
  <2>3. CASE h.op = "read"
    BY <2>3 DEF AllFine, Fine, SD
  <2> QED BY <2>1, <2>2, <2>3
<1>6. AnswersInv(s.done, Append(s.posted, [of |-> h, ok |-> FALSE]), Kept(s), C \cup {h}, M, w)
  <2>1. h \in Kept(s) \cup {h} /\ AllFine({h}, (Kept(s) \cup {h}) \ {h}, M)
    BY <1>4, <1>5
  <2>2. AnswersInv(s.done, Append(s.posted, [of |-> h, ok |-> FALSE]), (Kept(s) \cup {h}) \ {h}, C \cup {h}, M, w)
    BY <1>1, <1>3, <2>1, AnswerOne
  <2> QED BY <1>4, <2>2
<1>7. OnlyPosts(s, t) /\ t.posted = Append(s.posted, [of |-> h, ok |-> FALSE])
  BY <1>0, <1>1, PostOnly DEF Refuse
<1>8. Kept(t) = Kept(s)
  BY <1>7 DEF Kept, OnlyPosts
<1>9. HS.op = "handshake" /\ SD.op = "shutdown" /\ \A m : W(m).op = "write"
  BY DEF HS, SD, W
<1>10. FlagsInv(t, C \cup {h})
  <2>1. ~s.closed => (SD \in C \cup {h} <=> SD \in C) /\ (HS \in C \cup {h} <=> HS \in C)
    BY <1>9
  <2>2. /\ t.out = s.out /\ t.writing = s.writing
        /\ t.handshake = s.handshake /\ t.shutdown = s.shutdown /\ t.read = s.read
        /\ t.closed = s.closed /\ t.error = s.error /\ t.closing = s.closing
        /\ t.activated = s.activated /\ t.channel = s.channel
    BY <1>7 DEF OnlyPosts
  <2>3. CASE s.closed
    <3>1. Marked(s.out) = {}
      BY <1>0, <2>3 DEF FlagsInv, Marked
    <3> QED BY <1>0, <2>2, <2>3, <3>1 DEF FlagsInv
  <2>4. CASE ~s.closed
    BY <1>0, <2>1, <2>2, <2>4 DEF FlagsInv
  <2> QED BY <2>3, <2>4
<1>11. TakenInv(t, C \cup {h}, w)
  BY <1>0, <1>7, <1>9 DEF TakenInv, OnlyPosts
<1>12. QueueInv(t.out, w)
  BY <1>7 DEF StreamInv, OnlyPosts
<1> QED BY <1>6, <1>7, <1>8, <1>10, <1>11, <1>12 DEF StreamInv, Follows, OnlyPosts

LEMMA CallMade ==
    ASSUME Inv, NEW h \in Handlers, Call(h), h = SD => HS \in called,
           \A m \in 1..MaxWrites : h = W(m) => m = 1 \/ W(m - 1) \in called
    PROVE  /\ NewCall(h, called, late, late') /\ called' = called \cup {h} /\ CallsInv'
<1>1. /\ h \notin called /\ called' = called \cup {h}
      /\ late' = IF SD \in called THEN late \cup {h} ELSE late
  BY DEF Call
<1>2. /\ called \subseteq Handlers /\ late \subseteq called
      /\ \A n, m \in 1..MaxWrites : n < m /\ W(m) \in called => W(n) \in called
      /\ late # {} => SD \in called
      /\ SD \in called => HS \in called
  BY DEF Inv, CallsInv
<1>3. NewCall(h, called, late, late')
  BY <1>1, <1>2 DEF NewCall
<1>4. ASSUME NEW n \in 1..MaxWrites, NEW m \in 1..MaxWrites, n < m, W(m) \in called'
      PROVE  W(n) \in called'
  <2>1. CASE W(m) \in called
    BY <1>1, <1>2, <1>4, <2>1
  <2>2. CASE h = W(m)
    <3>0. m # 1
      BY <1>4
    <3>1. W(m - 1) \in called
      BY <2>2, <3>0
    <3>2. n = m - 1 \/ (n < m - 1 /\ m - 1 \in 1..MaxWrites)
      BY <1>4, BoundAssumption
    <3>3. W(n) \in called
      BY <1>2, <3>1, <3>2
    <3> QED BY <1>1, <3>3
  <2> QED BY <1>1, <1>4, <2>1, <2>2
<1>5. CallsInv'
  <2>1. called' \subseteq Handlers /\ late' \subseteq called' /\ (late' # {} => SD \in called')
        /\ (SD \in called' => HS \in called')
    BY <1>1, <1>2
  <2> QED BY <1>4, <2>1 DEF CallsInv
<1> QED BY <1>1, <1>3, <1>5

\* The rest of a call's step.
LEMMA CalledStep ==
    ASSUME Inv, CallsInv', StreamInv(st', called', late', wire), Hears(st'), UNCHANGED <<wire, peer>>
    PROVE  Inv'
<1>1. wire \subseteq 0..MaxWrites /\ records \in 0..MaxRecords /\ flights \in 0..MaxFlights /\ early \in BOOLEAN
  BY DEF Inv, TypeOK
<1>2. wire' = wire /\ records' = records /\ flights' = flights /\ early' = early
  BY DEF peer
<1> QED BY <1>1, <1>2, InvAfter

LEMMA HandshakeStep ==
    ASSUME Inv, async_handshake
    PROVE  Inv'
<1>0. Call(HS) /\ UNCHANGED <<wire, peer>> /\ HS \in Handlers /\ HS # SD /\ \A m : HS # W(m)
  BY DEF async_handshake, Handlers, HS, SD, W
<1>1. NewCall(HS, called, late, late') /\ called' = called \cup {HS} /\ CallsInv'
  BY <1>0, CallMade
<1>2. StreamInv(st, called, late, wire) /\ Hears(st) /\ st \in Streams
  BY DEF Inv, NeverDeaf, Hears, StreamInv
<1>3. HS \notin called /\ SD \notin called /\ late' = late /\ ~st.channel
  <2>1. HS \notin called /\ (SD \in called => HS \in called)
    BY <1>1 DEF NewCall, Inv, CallsInv
  <2> QED BY <1>1, <1>2, <2>1 DEF NewCall, StreamInv, FlagsInv
<1>4. CASE (st.channel \/ st.closed) /\ st' = Refuse(st, HS)
  <2>1. st.closed
    BY <1>3, <1>4
  <2>2. StreamInv(st', called', late', wire) /\ Follows(st, st')
    BY <1>1, <1>2, <1>4, <2>1, Refused
  <2> QED BY <1>0, <1>1, <1>2, <2>2, StillHears, CalledStep
<1>5. CASE ~st.closed /\ \E s, made : /\ s = [st EXCEPT !.handshake = TRUE]
                                      /\ made = [s EXCEPT !.channel = TRUE]
                                      /\ st' \in {start_read(on_emit(made, 0)), start_read(made), fail(s)}
  <2>1. PICK s, made : /\ s = [st EXCEPT !.handshake = TRUE]
                       /\ made = [s EXCEPT !.channel = TRUE]
                       /\ st' \in {start_read(on_emit(made, 0)), start_read(made), fail(s)}
    BY <1>5
  <2>2. /\ s \in Streams /\ s.handshake /\ s.shutdown = st.shutdown /\ s.read = st.read /\ s.out = st.out
        /\ s.closed = st.closed /\ s.error = st.error /\ s.closing = st.closing /\ s.writing = st.writing
        /\ s.activated = st.activated /\ s.channel = st.channel /\ s.done = st.done /\ s.posted = st.posted
    BY <1>2, <2>1 DEF Streams
  <2>3. Kept(s) = Kept(st) \cup {HS}
    BY <2>2 DEF Kept
  <2>4. AnswersInv(s.done, s.posted, Kept(s), called', late', wire)
    <3>1. AnswersInv(st.done, st.posted, Kept(st), called, late, wire)
      BY <1>2 DEF StreamInv
    <3>2. AnswersInv(st.done, st.posted, Kept(st) \cup {HS}, called \cup {HS}, late', wire)
      BY <1>1, <3>1, CallOne
    <3> QED BY <1>1, <2>2, <2>3, <3>2
  <2>5. FlagsInv(s, called')
    <3>1. FlagsInv(st, called) /\ SD \notin called'
      BY <1>0, <1>1, <1>2, <1>3 DEF StreamInv
    <3> QED BY <1>1, <1>3, <1>5, <2>2, <3>1 DEF FlagsInv
  <2>6. TakenInv(s, called', wire)
    <3>1. TakenInv(st, called, wire)
      BY <1>2 DEF StreamInv
    <3> QED BY <1>0, <1>1, <2>2, <3>1 DEF TakenInv
  <2>7. StreamInv(s, called', late', wire)
    <3>1. QueueInv(s.out, wire)
      BY <1>2, <2>2 DEF StreamInv
    <3> QED BY <2>2, <2>4, <2>5, <2>6, <3>1 DEF StreamInv
  <2>8. made \in Streams /\ SameHandlers(s, made)
    <3>1. s \in Streams /\ made = [s EXCEPT !.channel = TRUE]
      BY <2>1, <2>2
    <3> QED BY <3>1 DEF Streams, SameHandlers
  <2>9. StreamInv(made, called', late', wire) /\ ~made.closed
    <3>1. HS \in called'
      BY <1>1
    <3>2. ~made.closed
      BY <1>5, <2>2, <2>8 DEF SameHandlers
    <3> QED BY <2>7, <2>8, <3>1, <3>2, OtherMembers
  <2>10. StreamInv(on_emit(made, 0), called', late', wire)
    <3>1. 0 \in 0..MaxWrites
      BY BoundAssumption
    <3> QED BY <2>9, <3>1, OnEmit
  <2>11. StreamInv(st', called', late', wire) /\ Hears(st')
    <3>1. CASE st' = start_read(on_emit(made, 0))
      BY <2>10, <3>1, StartRead
    <3>2. CASE st' = start_read(made)
      BY <2>9, <3>2, StartRead
    <3>3. CASE st' = fail(s)
      BY <2>7, <3>3, Fail DEF Hears
    <3> QED BY <2>1, <3>1, <3>2, <3>3
  <2> QED BY <1>0, <1>1, <2>11, CalledStep
<1> QED BY <1>4, <1>5 DEF async_handshake

LEMMA ReadStep ==
    ASSUME Inv, NEW n \in 1..MaxReads, async_read_some(n)
    PROVE  Inv'
<1>0. Call(R(n)) /\ UNCHANGED <<wire, peer>> /\ R(n) \in Handlers /\ R(n) # SD /\ R(n) # HS /\ R(n).op = "read"
      /\ \A m : R(n) # W(m)
  BY DEF async_read_some, Handlers, HS, SD, W, R
<1>1. NewCall(R(n), called, late, late') /\ called' = called \cup {R(n)} /\ CallsInv'
  BY <1>0, CallMade
<1>2. StreamInv(st, called, late, wire) /\ Hears(st) /\ st \in Streams
  BY DEF Inv, NeverDeaf, Hears, StreamInv
<1>3. CASE st' = Refuse(st, R(n))
  <2>1. StreamInv(st', called', late', wire) /\ Follows(st, st')
    BY <1>0, <1>1, <1>2, <1>3, Refused
  <2> QED BY <1>0, <1>1, <1>2, <2>1, StillHears, CalledStep
<1>4. CASE /\ st.read = NoRead /\ ~st.closed /\ ~st.closing
           /\ st' = start_read(deliver_read([st EXCEPT !.read = R(n)]))
  <2>1. PICK s : s = [st EXCEPT !.read = R(n)]
    OBVIOUS
  <2>2. R(n) \in {R(i) : i \in 0..MaxReads} /\ R(n) # NoRead
    BY BoundAssumption DEF NoRead, R
  <2>3. /\ s \in Streams /\ s.handshake = st.handshake /\ s.shutdown = st.shutdown /\ s.read = R(n) /\ s.out = st.out
        /\ s.closed = st.closed /\ s.error = st.error /\ s.closing = st.closing /\ s.writing = st.writing
        /\ s.activated = st.activated /\ s.channel = st.channel /\ s.done = st.done /\ s.posted = st.posted
    BY <1>2, <2>1, <2>2 DEF Streams
  <2>4. Kept(s) = Kept(st) \cup {R(n)}
    BY <1>4, <2>2, <2>3 DEF Kept
  <2>5. AnswersInv(s.done, s.posted, Kept(s), called', late', wire)
    <3>1. AnswersInv(st.done, st.posted, Kept(st), called, late, wire)
      BY <1>2 DEF StreamInv
    <3>2. AnswersInv(st.done, st.posted, Kept(st) \cup {R(n)}, called \cup {R(n)}, late', wire)
      BY <1>1, <3>1, CallOne
    <3> QED BY <1>1, <2>3, <2>4, <3>2
  <2>6. FlagsInv(s, called')
    <3>1. FlagsInv(st, called)
      BY <1>2 DEF StreamInv
    <3>2. SD \notin called
      BY <1>4, <3>1 DEF FlagsInv
    <3> QED BY <1>0, <1>1, <1>4, <2>3, <3>1, <3>2 DEF FlagsInv
  <2>7. TakenInv(s, called', wire)
    <3>1. TakenInv(st, called, wire)
      BY <1>2 DEF StreamInv
    <3> QED BY <1>0, <1>1, <2>3, <3>1 DEF TakenInv
  <2>8. StreamInv(s, called', late', wire)
    <3>1. QueueInv(s.out, wire)
      BY <1>2, <2>3 DEF StreamInv
    <3> QED BY <2>3, <2>5, <2>6, <2>7, <3>1 DEF StreamInv
  <2>9. StreamInv(deliver_read(s), called', late', wire)
    BY <2>8, DeliverRead
  <2>10. StreamInv(st', called', late', wire) /\ Hears(st')
    BY <1>4, <2>1, <2>9, StartRead
  <2> QED BY <1>0, <1>1, <2>10, CalledStep
<1> QED BY <1>3, <1>4 DEF async_read_some

\* The marker of a write that is taken: its records, and those of the writes before it, are on the
\* wire or in the queue.
LEMMA MarkWrite ==
    ASSUME NEW s, NEW C, NEW L, NEW w, StreamInv(s, C, L, w), ~s.closed, ~s.closing, NEW n \in 1..MaxWrites,
           NEW M, NewCall(W(n), C, L, M), \A m \in 1..MaxWrites : m < n => W(m) \in C,
           \E k \in DOMAIN s.out : s.out[k] = Record(n),
           NEW t, t = [s EXCEPT !.out = Append(s.out, Marker(n))]
    PROVE  StreamInv(t, C \cup {W(n)}, M, w) /\ Follows(s, t)
<1>0. /\ s \in Streams /\ s.out \in Seq(Items) /\ QueueInv(s.out, w) /\ MarkersInOrder(s.out)
      /\ AnswersInv(s.done, s.posted, Kept(s), C, L, w) /\ FlagsInv(s, C) /\ TakenInv(s, C, w)
  BY DEF StreamInv, Streams, QueueInv
<1>1. Marker(n) \in Items /\ ~Marker(n).data /\ Marker(n).write = n
  BY DEF Items, Marker
<1>2. PICK q : q = s.out
  OBVIOUS
<1>3. PICK o : o = Append(q, Marker(n))
  OBVIOUS
<1>4. /\ o \in Seq(Items) /\ DOMAIN o = DOMAIN q \cup {Len(q) + 1}
      /\ o[Len(q) + 1] = Marker(n) /\ Len(q) \in Nat /\ DOMAIN q = 1..Len(q)
      /\ \A i \in DOMAIN q : o[i] = q[i] /\ i <= Len(q)
      /\ o # <<>> /\ (q # <<>> => o[1] = q[1])
  BY <1>0, <1>1, <1>2, <1>3, QueueGrows
<1>5. Marked(o) = Marked(q) \cup {Len(q) + 1} /\ \A i \in Marked(q) : i \in DOMAIN q /\ o[i] = q[i]
  BY <1>1, <1>4 DEF Marked
<1>6. MarkedWrites(o) = MarkedWrites(q) \cup {W(n)}
  BY <1>1, <1>4, <1>5 DEF MarkedWrites
<1>7. \A i \in Marked(q) : q[i].write \in 1..MaxWrites /\ q[i].write < n
  <2> SUFFICES ASSUME NEW i \in Marked(q) PROVE q[i].write \in 1..MaxWrites /\ q[i].write < n
    OBVIOUS
  <2>1. q[i].write \in 1..MaxWrites
    BY <1>0, <1>2 DEF MarkersInOrder
  <2>2. W(q[i].write) \in C
    BY <1>0, <1>2 DEF AnswersInv, Kept, MarkedWrites
  <2>3. W(n) \notin C /\ \A k, m \in 1..MaxWrites : k < m /\ W(m) \in C => W(k) \in C
    BY DEF NewCall
  <2>4. q[i].write # n /\ ~(n < q[i].write)
    BY <2>1, <2>2, <2>3
  <2> QED BY <2>1, <2>4
<1>8. QueueInv(o, w)
  <2>1. ASSUME NEW i \in Marked(o) PROVE o[i].write \in 1..MaxWrites
    BY <1>1, <1>4, <1>5, <1>7
  <2>2. ASSUME NEW i \in Marked(o), NEW j \in Marked(o), i < j PROVE o[i].write < o[j].write
    <3>1. i \in Marked(q) /\ i <= Len(q)
      <4>1. \A k \in Marked(q) : k \in Nat /\ k <= Len(q)
        BY <1>4, <1>5
      <4> QED BY <1>4, <1>5, <2>2, <4>1
    <3>2. CASE j \in Marked(q)
      BY <1>0, <1>2, <1>5, <2>2, <3>1, <3>2 DEF MarkersInOrder
    <3>3. CASE j = Len(q) + 1
      BY <1>1, <1>4, <1>5, <1>7, <3>1, <3>3
    <3> QED BY <1>5, <3>2, <3>3
  <2>3. ASSUME NEW i \in Marked(o), NEW m \in 1..o[i].write
        PROVE  m \in w \/ \E k \in DOMAIN o : k < i /\ o[k] = Record(m)
    <3>1. CASE i \in Marked(q)
      <4>1. m \in w \/ \E k \in DOMAIN q : k < i /\ q[k] = Record(m)
        BY <1>0, <1>2, <1>5, <3>1 DEF QueueInv
      <4> QED BY <1>4, <4>1
    <3>2. CASE i = Len(q) + 1
      <4>1. m \in 1..n
        BY <1>1, <1>4, <3>2
      <4>2. m \in w \/ \E k \in DOMAIN q : q[k] = Record(m)
        <5>1. CASE m = n
          BY <1>2, <5>1
        <5>2. CASE m # n
          <6>1. m \in 1..MaxWrites /\ m < n
            BY <4>1, <5>2, BoundAssumption
          <6>2. W(m) \in C
            BY <6>1
          <6> QED BY <1>0, <1>2, <6>1, <6>2 DEF TakenInv
        <5> QED BY <5>1, <5>2
      <4>3. \A k \in DOMAIN q : k \in DOMAIN o /\ k < i /\ o[k] = q[k]
        BY <1>4, <3>2
      <4> QED BY <4>2, <4>3
    <3> QED BY <1>5, <3>1, <3>2
  <2> QED BY <2>1, <2>2, <2>3 DEF QueueInv, MarkersInOrder
<1>9. /\ t \in Streams /\ t.out = o /\ t.posted = s.posted /\ t.writing = s.writing
      /\ t.done = s.done /\ t.handshake = s.handshake /\ t.shutdown = s.shutdown /\ t.read = s.read
      /\ t.closed = s.closed /\ t.error = s.error /\ t.closing = s.closing
      /\ t.activated = s.activated /\ t.channel = s.channel
      /\ t.reading = s.reading /\ t.plain = s.plain /\ t.peerClosed = s.peerClosed
  <2>1. t = [s EXCEPT !.out = o] /\ s \in Streams /\ o \in Seq(Items)
    BY <1>0, <1>2, <1>3, <1>4
  <2> QED BY <2>1 DEF Streams
<1>10. Kept(t) = Kept(s) \cup {W(n)}
  BY <1>2, <1>6, <1>9 DEF Kept
<1>11. AnswersInv(s.done, s.posted, Kept(s) \cup {W(n)}, C \cup {W(n)}, M, w)
  BY <1>0, CallOne
<1>12. SD \notin C /\ W(n) # SD /\ W(n) # HS
  BY <1>0 DEF FlagsInv, W, SD, HS
<1>13. FlagsInv(t, C \cup {W(n)})
  BY <1>0, <1>2, <1>4, <1>9, <1>12 DEF FlagsInv
<1>14. TakenInv(t, C \cup {W(n)}, w)
  <2> SUFFICES ASSUME NEW m \in 1..MaxWrites, W(m) \in C \cup {W(n)}
               PROVE  m \in w \/ \E k \in DOMAIN o : o[k] = Record(m)
    BY <1>9 DEF TakenInv
  <2>1. m \in w \/ \E k \in DOMAIN q : q[k] = Record(m)
    <3>1. CASE W(m) \in C
      BY <1>0, <1>2, <3>1 DEF TakenInv
    <3>2. CASE W(m) = W(n)
      <4>1. m = n
        BY <3>2 DEF W
      <4> QED BY <1>2, <4>1
    <3> QED BY <3>1, <3>2
  <2> QED BY <1>4, <2>1
<1> QED BY <1>8, <1>9, <1>10, <1>11, <1>13, <1>14 DEF StreamInv, Follows

\* The handshake's handler is invoked only when it is kept no more.
LEMMA AfterHandshake ==
    ASSUME Inv, Answered(HS)
    PROVE  HS \in called /\ ~st.handshake
<1>1. AnswersInv(st.done, st.posted, Kept(st), called, late, wire)
  BY DEF Inv, StreamInv
<1>2. HS \in Of(st.done)
  BY DEF Answered, Of
<1>3. st.handshake => HS \in Kept(st)
  BY DEF Kept
<1> QED BY <1>1, <1>2, <1>3 DEF AnswersInv

LEMMA WriteStep ==
    ASSUME Inv, NEW n \in 1..MaxWrites, async_write(n)
    PROVE  Inv'
<1>0. /\ Call(W(n)) /\ UNCHANGED <<wire, peer>> /\ Answered(HS) /\ (n = 1 \/ W(n - 1) \in called)
  BY DEF async_write
<1>1. /\ W(n) \in Handlers /\ W(n) # SD /\ W(n).op = "write" /\ \A m : W(n) = W(m) => m = n
  BY DEF Handlers, W, SD
<1>2. NewCall(W(n), called, late, late') /\ called' = called \cup {W(n)} /\ CallsInv'
  BY <1>0, <1>1, CallMade
<1>3. StreamInv(st, called, late, wire) /\ Hears(st) /\ st \in Streams /\ FlagsInv(st, called)
  BY DEF Inv, NeverDeaf, Hears, StreamInv
<1>4. CASE (st.error \/ st.closed \/ st.closing \/ ~st.activated) /\ st' = Refuse(st, W(n))
  <2>1. st.closed \/ st.closing
    BY <1>0, <1>3, <1>4, AfterHandshake DEF FlagsInv
  <2>2. StreamInv(st', called', late', wire) /\ Follows(st, st')
    BY <1>1, <1>2, <1>3, <1>4, <2>1, Refused
  <2> QED BY <1>0, <1>2, <1>3, <2>2, StillHears, CalledStep
<1>5. CASE ~st.closed /\ ~st.closing /\ st' = Post(fail(st), W(n), FALSE)
  <2>1. PICK f : f = fail(st)
    OBVIOUS
  <2>2. StreamInv(f, called, late, wire) /\ f.closed
    BY <1>3, <2>1, Fail
  <2>3. st' = Refuse(f, W(n))
    BY <1>5, <2>1 DEF Refuse
  <2>4. StreamInv(st', called', late', wire) /\ Follows(f, st')
    BY <1>2, <2>2, <2>3, Refused
  <2>5. Hears(st')
    BY <2>2, <2>4 DEF Follows, Hears
  <2> QED BY <1>0, <1>2, <2>4, <2>5, CalledStep
<1>6. CASE /\ ~st.closed /\ ~st.closing
           /\ st' = start_write([on_emit(st, n) EXCEPT !.out = Append(@, Marker(n))])
  <2>1. PICK e : e = on_emit(st, n)
    OBVIOUS
  <2>2. /\ StreamInv(e, called, late, wire) /\ Follows(st, e) /\ ~e.closed
        /\ \E k \in DOMAIN e.out : e.out[k] = Record(n)
    <3>1. n \in 0..MaxWrites
      OBVIOUS
    <3> QED BY <1>3, <1>6, <2>1, <3>1, OnEmit
  <2>3. PICK m : m = [e EXCEPT !.out = Append(e.out, Marker(n))]
    OBVIOUS
  <2>4. \A k \in 1..MaxWrites : k < n => W(k) \in called
    <3>1. \A i, j \in 1..MaxWrites : i < j /\ W(j) \in called => W(i) \in called
      BY DEF Inv, CallsInv
    <3>2. ASSUME NEW k \in 1..MaxWrites, k < n PROVE W(k) \in called
      <4>1. n # 1 /\ n - 1 \in 1..MaxWrites /\ (k = n - 1 \/ k < n - 1)
        BY <3>2, BoundAssumption
      <4> QED BY <1>0, <3>1, <4>1
    <3> QED BY <3>2
  <2>5. ~e.closing
    BY <1>6, <2>2 DEF Follows
  <2>6. StreamInv(m, called', late', wire) /\ Follows(e, m)
    BY <1>2, <2>2, <2>3, <2>4, <2>5, MarkWrite
  <2>7. st' = start_write(m)
    BY <1>6, <2>1, <2>3
  <2>8. StreamInv(st', called', late', wire) /\ Follows(m, st')
    BY <2>6, <2>7, StartWrite
  <2>9. Hears(st')
    BY <1>3, <2>2, <2>6, <2>8, StillHears
  <2> QED BY <1>0, <1>2, <2>8, <2>9, CalledStep
<1> QED BY <1>4, <1>5, <1>6 DEF async_write

LEMMA ShutdownStep ==
    ASSUME Inv, async_shutdown
    PROVE  Inv'
<1>0. Call(SD) /\ UNCHANGED <<wire, peer>> /\ Answered(HS) /\ SD \in Handlers /\ \A m : SD # W(m)
  BY DEF async_shutdown, Handlers, SD, W
<1>1. HS \in called /\ ~st.handshake
  BY <1>0, AfterHandshake
<1>2. NewCall(SD, called, late, late') /\ called' = called \cup {SD} /\ CallsInv'
  BY <1>0, <1>1, CallMade
<1>3. StreamInv(st, called, late, wire) /\ Hears(st) /\ st \in Streams /\ FlagsInv(st, called)
  BY DEF Inv, NeverDeaf, Hears, StreamInv
<1>4. SD \notin called /\ late' = late
  BY <1>2 DEF NewCall
<1>5. CASE (st.closed \/ st.closing \/ st.error) /\ st' = Refuse(st, SD)
  <2>1. st.closed
    BY <1>3, <1>4, <1>5 DEF FlagsInv
  <2>2. StreamInv(st', called', late', wire) /\ Follows(st, st')
    BY <1>2, <1>3, <1>5, <2>1, Refused
  <2> QED BY <1>0, <1>2, <1>3, <2>2, StillHears, CalledStep
<1>6. CASE /\ ~st.closed
           /\ \E s : /\ s = EndPendingRead([st EXCEPT !.closing = TRUE, !.shutdown = TRUE])
                     /\ st' = start_write(s) \/ st' = start_write(on_emit(s, 0))
  <2>1. PICK s : /\ s = EndPendingRead([st EXCEPT !.closing = TRUE, !.shutdown = TRUE])
                 /\ st' = start_write(s) \/ st' = start_write(on_emit(s, 0))
    BY <1>6
  <2>2. PICK x : x = [st EXCEPT !.closing = TRUE, !.shutdown = TRUE]
    OBVIOUS
  <2>3. /\ x \in Streams /\ x.handshake = st.handshake /\ x.shutdown /\ x.read = st.read /\ x.out = st.out
        /\ x.closed = st.closed /\ x.error = st.error /\ x.closing /\ x.writing = st.writing
        /\ x.activated = st.activated /\ x.channel = st.channel /\ x.done = st.done /\ x.posted = st.posted
        /\ x.reading = st.reading /\ x.plain = st.plain /\ x.peerClosed = st.peerClosed
    BY <1>3, <2>2 DEF Streams
  <2>4. PICK y : y = [x EXCEPT !.read = NoRead]
    OBVIOUS
  <2>5. NoRead \in {R(i) : i \in 0..MaxReads}
    BY BoundAssumption DEF NoRead
  <2>6. /\ y \in Streams /\ y.handshake = x.handshake /\ y.shutdown = x.shutdown /\ y.read = NoRead /\ y.out = x.out
        /\ y.closed = x.closed /\ y.error = x.error /\ y.closing = x.closing /\ y.writing = x.writing
        /\ y.activated = x.activated /\ y.channel = x.channel /\ y.done = x.done /\ y.posted = x.posted
        /\ y.reading = x.reading /\ y.plain = x.plain /\ y.peerClosed = x.peerClosed
    BY <2>3, <2>4, <2>5 DEF Streams
  <2>7. AnswersInv(x.done, x.posted, Kept(x), called', late', wire)
    <3>1. AnswersInv(st.done, st.posted, Kept(st), called, late, wire)
      BY <1>3 DEF StreamInv
    <3>2. AnswersInv(st.done, st.posted, Kept(st) \cup {SD}, called \cup {SD}, late', wire)
      BY <1>2, <3>1, CallOne
    <3>3. Kept(x) = Kept(st) \cup {SD}
      BY <2>3 DEF Kept
    <3> QED BY <1>2, <2>3, <3>2, <3>3
  <2>8. MarkersInOrder(x.out)
    BY <1>3, <2>3 DEF StreamInv, QueueInv
  <2>9. /\ \A h \in MarkedWrites(x.out) : h.op = "write"
        /\ x.read.op = "read" /\ HS.op = "handshake" /\ SD.op = "shutdown"
        /\ x.read # NoRead => x.read \in Kept(x) /\ x.read \in Handlers
    BY <2>3, <2>8, KeptOps
  <2>10. /\ OnlyPosts(y, s) /\ AnswersInv(s.done, s.posted, Kept(s), called', late', wire)
    <3>1. CASE x.read = NoRead
      <4>1. s = x
        BY <2>1, <2>2, <3>1 DEF EndPendingRead
      <4> QED BY <2>3, <2>6, <2>7, <3>1, <4>1 DEF OnlyPosts
    <3>2. CASE x.read # NoRead
      <4>0. PICK isSet : isSet = TRUE
        OBVIOUS
      <4>1. s = FailOne(y, isSet, x.read)
        BY <2>1, <2>2, <2>4, <3>2, <4>0 DEF EndPendingRead, FailOne
      <4>2. Kept(y) = Kept(x) \ {x.read}
        BY <2>6, <2>9 DEF Kept
      <4>3. AllFine({x.read}, Kept(x) \ {x.read}, late')
        BY <2>9 DEF AllFine, Fine
      <4>4. y \in Streams /\ y.done = x.done /\ y.posted = x.posted /\ x.read \in Kept(x) /\ x.read \in Handlers
        BY <2>6, <2>9, <3>2
      <4>5. isSet <=> x.read \in Kept(x)
        BY <4>0, <4>4
      <4> QED BY <2>7, <4>1, <4>2, <4>3, <4>4, <4>5, FailOneOf
    <3> QED BY <3>1, <3>2
  <2>11. /\ s \in Streams /\ ~s.handshake /\ s.shutdown /\ s.read = NoRead /\ s.out = st.out
         /\ ~s.closed /\ s.error = st.error /\ s.closing /\ s.writing = st.writing
         /\ s.activated = st.activated /\ s.channel = st.channel
         /\ s.reading = st.reading /\ s.plain = st.plain /\ s.peerClosed = st.peerClosed
    BY <1>1, <1>6, <2>3, <2>6, <2>10 DEF OnlyPosts
  <2>12. FlagsInv(s, called') /\ TakenInv(s, called', wire) /\ QueueInv(s.out, wire)
    <3>1. FlagsInv(s, called')
      BY <1>1, <1>2, <1>3, <1>6, <2>11 DEF FlagsInv
    <3>2. TakenInv(s, called', wire)
      BY <2>11 DEF TakenInv
    <3> QED BY <1>3, <2>11, <3>1, <3>2 DEF StreamInv
  <2>13. StreamInv(s, called', late', wire)
    BY <2>10, <2>11, <2>12 DEF StreamInv
  <2>14. Hears(s)
    BY <1>3, <1>6, <2>11 DEF Hears
  <2>15. StreamInv(on_emit(s, 0), called', late', wire) /\ Follows(s, on_emit(s, 0))
    <3>1. 0 \in 0..MaxWrites
      BY BoundAssumption
    <3> QED BY <2>11, <2>13, <3>1, OnEmit
  <2>16. StreamInv(st', called', late', wire) /\ Hears(st')
    <3>1. CASE st' = start_write(s)
      BY <2>13, <2>14, <3>1, StartWrite, StillHears
    <3>2. CASE st' = start_write(on_emit(s, 0))
      BY <2>14, <2>15, <3>2, StartWrite, StillHears
    <3> QED BY <2>1, <3>1, <3>2
  <2> QED BY <1>0, <1>2, <2>16, CalledStep
<1> QED BY <1>5, <1>6 DEF async_shutdown

-----------------------------------------------------------------------------
(* Completions, and what the strand runs.                                  *)

\* Steps that are no calls.
LEMMA UncalledStep ==
    ASSUME Inv, UNCHANGED <<called, late>>, StreamInv(st', called, late, wire'), Hears(st'),
           wire' \subseteq 0..MaxWrites,
           records' \in 0..MaxRecords, flights' \in 0..MaxFlights, early' \in BOOLEAN
    PROVE  Inv'
<1>1. CallsInv'
  BY DEF Inv, CallsInv
<1> QED BY <1>1, InvAfter

LEMMA UncalledStepOf ==
    ASSUME Inv, UNCHANGED <<called, late, wire, peer>>, StreamInv(st', called, late, wire), Hears(st')
    PROVE  Inv'
<1>1. wire \subseteq 0..MaxWrites /\ records \in 0..MaxRecords /\ flights \in 0..MaxFlights /\ early \in BOOLEAN
  BY DEF Inv, TypeOK
<1>2. wire' = wire /\ records' = records /\ flights' = flights /\ early' = early
  BY DEF peer
<1> QED BY <1>1, <1>2, UncalledStep

LEMMA CloseStep ==
    ASSUME Inv, close
    PROVE  Inv'
<1>1. StreamInv(st, called, late, wire) /\ st \in Streams /\ MarkersInOrder(st.out)
  BY DEF Inv, StreamInv, QueueInv
<1>2. PICK x : x = [st EXCEPT !.closed = TRUE]
  OBVIOUS
<1>3. st' = fail_pending(x) /\ UNCHANGED <<called, late, wire, peer>>
  BY <1>2 DEF close
<1>4. /\ x \in Streams /\ x.out = st.out /\ x.closed
      /\ x.done = st.done /\ x.posted = st.posted /\ x.handshake = st.handshake /\ x.shutdown = st.shutdown
      /\ x.read = st.read /\ x.closing = st.closing /\ x.activated = st.activated /\ x.channel = st.channel
  BY <1>1, <1>2 DEF Streams
<1>5. StreamInv(st', called, late, wire) /\ st'.closed
  BY <1>1, <1>3, <1>4, Ended
<1> QED BY <1>3, <1>5, UncalledStepOf DEF Hears

\* The read that has completed.
LEMMA ReadEnds ==
    ASSUME Inv, NEW s, s = [st EXCEPT !.reading = FALSE]
    PROVE  StreamInv(s, called, late, wire) /\ s.closed = st.closed /\ s \in Streams
<1>1. StreamInv(st, called, late, wire) /\ st \in Streams
  BY DEF Inv, StreamInv
<1>2. s \in Streams /\ SameHandlers(st, s) /\ s.channel = st.channel /\ s.closed = st.closed
  BY <1>1 DEF Streams, SameHandlers
<1> QED BY <1>1, <1>2, OtherMembers

\* What the channel calls back for.
LEMMA Brought ==
    ASSUME NEW s, NEW C, NEW L, NEW w, StreamInv(s, C, L, w), NEW finish \in BOOLEAN, NEW app \in Nat,
           NEW notify \in BOOLEAN, NEW t, t = Bring(s, finish, app, notify)
    PROVE  StreamInv(t, C, L, w)
<1>1. PICK a : a = IF finish THEN on_activated(s) ELSE s
  OBVIOUS
<1>2. StreamInv(a, C, L, w) /\ a \in Streams
  <2>1. StreamInv(a, C, L, w)
    BY <1>1, OnActivated
  <2> QED BY <2>1 DEF StreamInv
<1>3. PICK b : b = [a EXCEPT !.plain = a.plain + app]
  OBVIOUS
<1>4. b \in Streams /\ SameHandlers(a, b) /\ b.channel = a.channel
  <2>1. a.plain + app \in Nat
    BY <1>2 DEF Streams
  <2> QED BY <1>2, <1>3, <2>1 DEF Streams, SameHandlers
<1>5. StreamInv(b, C, L, w)
  BY <1>2, <1>4, OtherMembers
<1>6. t = [b EXCEPT !.peerClosed = b.peerClosed \/ notify]
  BY <1>1, <1>3 DEF Bring
<1>7. t \in Streams /\ SameHandlers(b, t) /\ t.channel = b.channel
  <2>1. (b.peerClosed \/ notify) \in BOOLEAN
    OBVIOUS
  <2> QED BY <1>4, <1>6, <2>1 DEF Streams, SameHandlers
<1> QED BY <1>5, <1>7, OtherMembers

LEMMA ReadDataStep ==
    ASSUME Inv, NEW finish \in BOOLEAN, NEW emits \in BOOLEAN, NEW notify \in BOOLEAN, NEW app \in 0..MaxRecords,
           OnReadData(finish, emits, app, notify)
    PROVE  Inv'
<1>1. PICK s : s = [st EXCEPT !.reading = FALSE]
  OBVIOUS
<1>2. StreamInv(s, called, late, wire) /\ s.closed = st.closed /\ s \in Streams
  BY <1>1, ReadEnds
<1>3. /\ UNCHANGED <<called, late, wire>> /\ app \in Nat
      /\ wire' \subseteq 0..MaxWrites /\ records' \in 0..MaxRecords
  BY BoundAssumption DEF OnReadData, Inv, TypeOK
<1>4. flights' \in 0..MaxFlights /\ early' \in BOOLEAN
  <2>1. flights \in 0..MaxFlights /\ MaxFlights \in Nat /\ early \in BOOLEAN
    BY BoundAssumption DEF Inv, TypeOK
  <2>2. flights' = IF finish \/ app > 0 \/ notify THEN flights ELSE flights + 1
    BY DEF OnReadData
  <2>3. ~(finish \/ app > 0 \/ notify) => flights < MaxFlights
    <3>1. ~finish /\ app = 0 /\ ~notify => flights < MaxFlights
      BY DEF OnReadData
    <3> QED BY <1>3, <3>1
  <2>4. early' \in BOOLEAN
    <3>1. early' = (early \/ (notify /\ ~finish /\ ~st.activated))
      BY DEF OnReadData
    <3> QED BY <3>1
  <2> QED BY <2>1, <2>2, <2>3, <2>4
<1>5. StreamInv(st', called, late, wire) /\ Hears(st')
  <2>1. CASE st.closed
    <3>1. st' = s
      BY <1>1, <2>1 DEF OnReadData
    <3> QED BY <1>2, <2>1, <3>1 DEF Hears
  <2>2. CASE ~st.closed
    <3>1. PICK e : e = IF emits THEN on_emit(s, 0) ELSE s
      OBVIOUS
    <3>2. StreamInv(e, called, late, wire)
      <4>1. 0 \in 0..MaxWrites /\ ~s.closed
        BY <1>2, <2>2, BoundAssumption
      <4>2. StreamInv(on_emit(s, 0), called, late, wire)
        BY <1>2, <4>1, OnEmit
      <4> QED BY <1>2, <3>1, <4>2
    <3>3. PICK b : b = Bring(e, finish, app, notify)
      OBVIOUS
    <3>4. StreamInv(b, called, late, wire)
      BY <1>3, <3>2, <3>3, Brought
    <3>5. st' = start_read(deliver_read(b))
      BY <1>1, <2>2, <3>1, <3>3 DEF OnReadData
    <3>6. StreamInv(deliver_read(b), called, late, wire)
      BY <3>4, DeliverRead
    <3> QED BY <3>5, <3>6, StartRead
  <2> QED BY <2>1, <2>2
<1>6. wire' = wire
  BY <1>3
<1> QED BY <1>3, <1>4, <1>5, <1>6, UncalledStep

LEMMA ReadRefusedStep ==
    ASSUME Inv, OnReadRefused
    PROVE  Inv'
<1>1. PICK s : s = [st EXCEPT !.reading = FALSE]
  OBVIOUS
<1>2. StreamInv(s, called, late, wire) /\ s.closed = st.closed /\ s \in Streams
  BY <1>1, ReadEnds
<1>3. /\ ~st.closed /\ UNCHANGED <<called, late, wire, peer>>
      /\ st' = start_read(deliver_read(fail(s))) \/ st' = fail(on_emit(s, 0))
  BY <1>1 DEF OnReadRefused
<1>4. StreamInv(fail(s), called, late, wire)
  BY <1>2, Fail
<1>5. StreamInv(deliver_read(fail(s)), called, late, wire)
  BY <1>4, DeliverRead
<1>6. StreamInv(on_emit(s, 0), called, late, wire)
  <2>1. 0 \in 0..MaxWrites /\ ~s.closed
    BY <1>2, <1>3, BoundAssumption
  <2> QED BY <1>2, <2>1, OnEmit
<1>7. StreamInv(fail(on_emit(s, 0)), called, late, wire) /\ fail(on_emit(s, 0)).closed
  BY <1>6, Fail
<1>8. StreamInv(st', called, late, wire) /\ Hears(st')
  <2>1. CASE st' = start_read(deliver_read(fail(s)))
    BY <1>5, <2>1, StartRead
  <2>2. CASE st' = fail(on_emit(s, 0))
    BY <1>7, <2>2 DEF Hears
  <2> QED BY <1>3, <2>1, <2>2
<1> QED BY <1>3, <1>8, UncalledStepOf

LEMMA ReadErrorStep ==
    ASSUME Inv, OnReadError
    PROVE  Inv'
<1>1. PICK s : s = [st EXCEPT !.reading = FALSE]
  OBVIOUS
<1>2. StreamInv(s, called, late, wire) /\ s.closed = st.closed /\ s \in Streams
  BY <1>1, ReadEnds
<1>3. PICK x : x = [s EXCEPT !.peerClosed = TRUE]
  OBVIOUS
<1>4. x \in Streams /\ SameHandlers(s, x) /\ x.channel = s.channel /\ x.peerClosed
  BY <1>2, <1>3 DEF Streams, SameHandlers
<1>5. StreamInv(x, called, late, wire)
  BY <1>2, <1>4, OtherMembers
<1>6. /\ UNCHANGED <<called, late, wire, peer>>
      /\ \/ st.closed /\ st' = s
         \/ st' = finish_shutdown(deliver_read(x))
         \/ st' = fail(s)
  BY <1>1, <1>3 DEF OnReadError
<1>7. StreamInv(st', called, late, wire) /\ Hears(st')
  <2>1. CASE st.closed /\ st' = s
    BY <1>2, <2>1 DEF Hears
  <2>2. CASE st' = finish_shutdown(deliver_read(x))
    <3>1. StreamInv(deliver_read(x), called, late, wire) /\ deliver_read(x).peerClosed = x.peerClosed
      BY <1>5, DeliverRead
    <3>2. StreamInv(st', called, late, wire) /\ Follows(deliver_read(x), st')
      BY <2>2, <3>1, FinishShutdown
    <3> QED BY <1>4, <3>1, <3>2 DEF Hears, Follows
  <2>3. CASE st' = fail(s)
    BY <1>2, <2>3, Fail DEF Hears
  <2> QED BY <1>6, <2>1, <2>2, <2>3
<1> QED BY <1>6, <1>7, UncalledStepOf

\* The first item of the queue, whose records the socket was given, leaves it.
LEMMA FirstGone ==
    ASSUME NEW q \in Seq(Items), q # <<>>, q[1].data, NEW o, o = Tail(q), NEW w, NEW v,
           w \subseteq v, q[1].write \in v
    PROVE  /\ o \in Seq(Items) /\ Rest(q, 1, o, w, v)
           /\ MarkersInOrder(q) => MarkedWrites(o) = MarkedWrites(q)
           /\ Marked(q) = {} => Marked(o) = {}
<1>1. Len(q) \in Nat /\ 1 \in 0..Len(q) /\ DOMAIN q = 1..Len(q)
  BY SMT
<1>2. o \in Seq(Items) /\ o = SubSeq(q, 1 + 1, Len(q))
  <2>1. o \in Seq(Items) /\ Len(o) = Len(q) - 1 /\ \A i \in 1..(Len(q) - 1) : o[i] = q[1 + i]
    BY <1>1
  <2>2. PICK r : r = SubSeq(q, 1 + 1, Len(q))
    OBVIOUS
  <2>3. r \in Seq(Items) /\ Len(r) = Len(q) - 1 /\ \A i \in DOMAIN r : r[i] = q[1 + i]
    BY <1>1, <2>2, RestOf
  <2>4. DOMAIN r = 1..(Len(q) - 1) /\ DOMAIN o = 1..(Len(q) - 1)
    BY <2>1, <2>3
  <2>5. \A i \in 1..(Len(q) - 1) : o[i] = r[i]
    BY <2>1, <2>3, <2>4
  <2> QED BY <2>1, <2>2, <2>3, <2>4, <2>5
<1>3. \A i \in 1..1 : q[i].data /\ q[i].write \in v
  OBVIOUS
<1>4. Rest(q, 1, o, w, v)
  BY <1>1, <1>2, <1>3, QueueRest
<1>5. MarkersInOrder(q) => MarkedWrites(o) = MarkedWrites(q)
  <2>1. {j \in 1..1 : ~q[j].data} = {}
    BY <1>3, Zenon
  <2> QED BY <1>4, <2>1, Zenon DEF Rest
<1>6. Marked(q) = {} => Marked(o) = {}
  BY <1>1, <1>2, RestOf DEF Marked
<1> QED BY <1>2, <1>4, <1>5, <1>6

LEMMA WrittenStep ==
    ASSUME Inv, OnWritten
    PROVE  Inv'
<1>1. /\ StreamInv(st, called, late, wire) /\ st \in Streams /\ st.out \in Seq(Items)
      /\ MarkersInOrder(st.out) /\ QueueInv(st.out, wire) /\ FlagsInv(st, called) /\ TakenInv(st, called, wire)
      /\ AnswersInv(st.done, st.posted, Kept(st), called, late, wire)
  BY DEF Inv, StreamInv, QueueInv, Streams
<1>2. PICK q : q = st.out
  OBVIOUS
<1>3. PICK o : o = Tail(q)
  OBVIOUS
<1>4. PICK x : x = [st EXCEPT !.writing = FALSE, !.out = o]
  OBVIOUS
<1>5. /\ st.writing /\ ~st.closed /\ st' = start_write(x) /\ wire' = wire \cup {q[1].write}
      /\ UNCHANGED <<called, late, peer>>
  BY <1>2, <1>3, <1>4 DEF OnWritten
<1>6. q # <<>> /\ q[1].data /\ q \in Seq(Items)
  BY <1>1, <1>2, <1>5 DEF FlagsInv
<1>7. PICK v : v = wire'
  OBVIOUS
<1>8. wire \subseteq v /\ q[1].write \in v /\ v \subseteq 0..MaxWrites
  <2>1. wire \subseteq 0..MaxWrites
    BY DEF Inv, TypeOK
  <2>2. q[1].write \in 0..MaxWrites
    <3>1. q[1] \in Items
      BY <1>6
    <3> QED BY <3>1 DEF Items
  <2> QED BY <1>5, <1>7, <2>1, <2>2
<1>9. /\ o \in Seq(Items) /\ Rest(q, 1, o, wire, v)
      /\ MarkersInOrder(q) => MarkedWrites(o) = MarkedWrites(q)
      /\ Marked(q) = {} => Marked(o) = {}
  BY <1>3, <1>6, <1>8, FirstGone
<1>10. /\ x \in Streams /\ x.out = o /\ ~x.writing /\ x.posted = st.posted
       /\ x.done = st.done /\ x.handshake = st.handshake /\ x.shutdown = st.shutdown /\ x.read = st.read
       /\ x.closed = st.closed /\ x.error = st.error /\ x.closing = st.closing
       /\ x.activated = st.activated /\ x.channel = st.channel
       /\ x.reading = st.reading /\ x.plain = st.plain /\ x.peerClosed = st.peerClosed
  BY <1>1, <1>4, <1>9 DEF Streams
<1>11. AnswersInv(x.done, x.posted, Kept(x), called, late, v)
  <2>1. Kept(x) = Kept(st)
    BY <1>1, <1>2, <1>9, <1>10 DEF Kept
  <2>2. AnswersInv(st.done, st.posted, Kept(st), called, late, v)
    BY <1>1, <1>8, WireGrows
  <2> QED BY <1>10, <2>1, <2>2
<1>12. QueueInv(x.out, v)
  BY <1>1, <1>2, <1>9, <1>10 DEF Rest
<1>13. FlagsInv(x, called)
  BY <1>1, <1>2, <1>5, <1>9, <1>10 DEF FlagsInv
<1>14. TakenInv(x, called, v)
  <2> SUFFICES ASSUME ~st.closing, NEW m \in 1..MaxWrites, W(m) \in called
               PROVE  m \in v \/ \E k \in DOMAIN o : o[k] = Record(m)
    BY <1>10 DEF TakenInv
  <2>1. m \in wire \/ \E k \in DOMAIN q : q[k] = Record(m)
    BY <1>1, <1>2, <1>5 DEF TakenInv
  <2> QED BY <1>8, <1>9, <2>1 DEF Rest
<1>15. StreamInv(x, called, late, v)
  BY <1>10, <1>11, <1>12, <1>13, <1>14 DEF StreamInv
<1>16. StreamInv(st', called, late, v) /\ Follows(x, st')
  BY <1>5, <1>15, StartWrite
<1>17. Hears(x)
  <2>1. Hears(st)
    BY DEF Inv, NeverDeaf, Hears
  <2> QED BY <1>10, <2>1 DEF Hears
<1>18. Hears(st')
  BY <1>16, <1>17, StillHears
<1>19. records' \in 0..MaxRecords /\ flights' \in 0..MaxFlights /\ early' \in BOOLEAN
  BY <1>5 DEF Inv, TypeOK, peer
<1> QED BY <1>5, <1>7, <1>8, <1>16, <1>18, <1>19, UncalledStep

LEMMA WriteErrorStep ==
    ASSUME Inv, OnWriteError
    PROVE  Inv'
<1>1. /\ StreamInv(st, called, late, wire) /\ st \in Streams /\ st.out \in Seq(Items)
      /\ MarkersInOrder(st.out) /\ FlagsInv(st, called)
  BY DEF Inv, StreamInv, QueueInv, Streams
<1>2. UNCHANGED <<called, late, wire, peer>> /\ st.writing
  BY DEF OnWriteError
<1>3. CASE st.closed
  <2>1. st' = [st EXCEPT !.writing = FALSE]
    BY <1>3 DEF OnWriteError
  <2>2. st' \in Streams /\ SameHandlers(st, st') /\ st'.channel = st.channel /\ st'.closed
    BY <1>1, <1>3, <2>1 DEF Streams, SameHandlers
  <2>3. StreamInv(st', called, late, wire)
    BY <1>1, <2>2, OtherMembers
  <2> QED BY <1>2, <2>2, <2>3, UncalledStepOf DEF Hears
<1>4. CASE ~st.closed
  <2>1. PICK o : o = Tail(st.out)
    OBVIOUS
  <2>2. PICK y : y = [st EXCEPT !.writing = FALSE, !.out = o]
    OBVIOUS
  <2>3. st' = fail(y)
    BY <1>4, <2>1, <2>2 DEF OnWriteError
  <2>4. st.out # <<>> /\ st.out[1].data /\ ~st.error
    BY <1>1, <1>2, <1>4 DEF FlagsInv
  <2>5. o \in Seq(Items) /\ MarkersInOrder(o) /\ MarkedWrites(o) = MarkedWrites(st.out)
    <3>1. PICK v : v = {st.out[1].write}
      OBVIOUS
    <3>2. Rest(st.out, 1, o, {}, v) /\ o \in Seq(Items) /\ MarkedWrites(o) = MarkedWrites(st.out)
      <4>1. {} \subseteq v /\ st.out[1].write \in v
        BY <3>1
      <4> QED BY <1>1, <2>1, <2>4, <4>1, FirstGone
    <3> QED BY <1>1, <3>2 DEF Rest
  <2>6. PICK x : x = [y EXCEPT !.error = TRUE, !.closed = TRUE]
    OBVIOUS
  <2>7. /\ y \in Streams /\ y.out = o /\ ~y.closed /\ ~y.error
        /\ y.done = st.done /\ y.posted = st.posted /\ y.handshake = st.handshake /\ y.shutdown = st.shutdown
        /\ y.read = st.read /\ y.closing = st.closing /\ y.activated = st.activated /\ y.channel = st.channel
    BY <1>1, <1>4, <2>2, <2>4, <2>5 DEF Streams
  <2>8. /\ x \in Streams /\ x.out = o /\ x.closed
        /\ x.done = st.done /\ x.posted = st.posted /\ x.handshake = st.handshake /\ x.shutdown = st.shutdown
        /\ x.read = st.read /\ x.closing = st.closing /\ x.activated = st.activated /\ x.channel = st.channel
    BY <2>6, <2>7 DEF Streams
  <2>9. st' = fail_pending(x)
    BY <2>3, <2>6, <2>7 DEF fail
  <2>10. StreamInv(st', called, late, wire) /\ st'.closed
    BY <1>1, <2>5, <2>8, <2>9, Ended
  <2> QED BY <1>2, <2>10, UncalledStepOf DEF Hears
<1> QED BY <1>3, <1>4

LEMMA RunStep ==
    ASSUME Inv, RunPosted
    PROVE  Inv'
<1>1. /\ StreamInv(st, called, late, wire) /\ st \in Streams
      /\ st.done \in Seq(Answers) /\ st.posted \in Seq(Answers)
      /\ AnswersInv(st.done, st.posted, Kept(st), called, late, wire)
  BY DEF Inv, StreamInv, Streams
<1>2. PICK a : a = Head(st.posted)
  OBVIOUS
<1>3. st.posted # <<>> /\ UNCHANGED <<called, late, wire, peer>>
  BY DEF RunPosted
<1>4. a \in Answers /\ Tail(st.posted) \in Seq(Answers)
  BY <1>1, <1>2, <1>3
<1>5. [of |-> a.of, ok |-> a.ok] = a
  BY <1>4 DEF Answers
<1>6. st' = [st EXCEPT !.posted = Tail(st.posted), !.done = Append(st.done, a)]
  BY <1>1, <1>2, <1>5 DEF RunPosted, Invoke, Streams
<1>7. Append(st.done, a) \in Seq(Answers)
  BY <1>1, <1>4
<1>8. /\ st' \in Streams /\ st'.posted = Tail(st.posted) /\ st'.done = Append(st.done, a)
      /\ st'.handshake = st.handshake /\ st'.shutdown = st.shutdown /\ st'.read = st.read /\ st'.out = st.out
      /\ st'.closed = st.closed /\ st'.error = st.error /\ st'.closing = st.closing
      /\ st'.activated = st.activated /\ st'.channel = st.channel /\ st'.writing = st.writing
      /\ st'.reading = st.reading /\ st'.plain = st.plain /\ st'.peerClosed = st.peerClosed
  BY <1>1, <1>4, <1>6, <1>7 DEF Streams
<1>9. AnswersInv(st'.done, st'.posted, Kept(st'), called, late, wire)
  <2>1. Kept(st') = Kept(st)
    BY <1>8 DEF Kept
  <2>2. AnswersInv(Append(st.done, a), Tail(st.posted), Kept(st), called, late, wire)
    BY <1>1, <1>2, <1>3, RunFirst
  <2> QED BY <1>8, <2>1, <2>2
<1>10. QueueInv(st'.out, wire) /\ FlagsInv(st', called) /\ TakenInv(st', called, wire)
  BY <1>1, <1>8 DEF StreamInv, FlagsInv, TakenInv
<1>11. StreamInv(st', called, late, wire)
  BY <1>8, <1>9, <1>10 DEF StreamInv
<1>12. Hears(st')
  <2>1. Hears(st)
    BY DEF Inv, NeverDeaf, Hears
  <2> QED BY <1>8, <2>1 DEF Hears
<1> QED BY <1>3, <1>11, <1>12, UncalledStepOf

-----------------------------------------------------------------------------
(* The invariant.                                                          *)

LEMMA InitInv == Init => Inv
<1> SUFFICES ASSUME Init PROVE Inv
  OBVIOUS
<1>1. /\ st.channel = FALSE /\ st.reading = FALSE /\ st.writing = FALSE /\ st.activated = FALSE
      /\ st.peerClosed = FALSE /\ st.closing = FALSE /\ st.closed = FALSE /\ st.error = FALSE
      /\ st.handshake = FALSE /\ st.shutdown = FALSE /\ st.read = NoRead /\ st.plain = 0
      /\ st.out = <<>> /\ st.posted = <<>> /\ st.done = <<>>
  BY DEF Init
<1>2. called = {} /\ late = {} /\ wire = {} /\ records = 0 /\ flights = 0 /\ early = FALSE
  BY DEF Init
<1>3. st \in Streams
  <2>1. NoRead \in {R(n) : n \in 0..MaxReads}
    BY BoundAssumption DEF NoRead
  <2>2. <<>> \in Seq(Items) /\ <<>> \in Seq(Answers)
    OBVIOUS
  <2> QED BY <2>1, <2>2 DEF Init, Streams
<1>4. TypeOK
  <2>1. records \in 0..MaxRecords /\ flights \in 0..MaxFlights
    BY <1>2, BoundAssumption
  <2>2. late \subseteq called /\ called \subseteq Handlers /\ wire \subseteq 0..MaxWrites /\ early \in BOOLEAN
    BY <1>2, Zenon
  <2> QED BY <1>3, <2>1, <2>2 DEF TypeOK
<1>5. CallsInv
  BY <1>2 DEF CallsInv
<1>6. Marked(st.out) = {} /\ MarkedWrites(st.out) = {}
  BY <1>1 DEF Marked, MarkedWrites
<1>7. Kept(st) = {} /\ Of(st.done) = {} /\ Of(st.posted) = {}
  BY <1>1, <1>6 DEF Kept, Of
<1>8. AnswersInv(st.done, st.posted, Kept(st), called, late, wire)
  BY <1>1, <1>2, <1>7 DEF AnswersInv, Once, Ordered, OnWire, AllFine
<1>9. QueueInv(st.out, wire) /\ FlagsInv(st, called) /\ TakenInv(st, called, wire)
  BY <1>1, <1>2, <1>6 DEF QueueInv, MarkersInOrder, FlagsInv, TakenInv
<1>10. StreamInv(st, called, late, wire)
  BY <1>3, <1>8, <1>9 DEF StreamInv
<1>11. NeverDeaf
  BY <1>1 DEF NeverDeaf
<1> QED BY <1>4, <1>5, <1>10, <1>11 DEF Inv

LEMMA InvStep == Inv /\ [Next]_vars => Inv'
<1> SUFFICES ASSUME Inv, [Next]_vars PROVE Inv'
  OBVIOUS
<1>1. CASE async_handshake
  BY <1>1, HandshakeStep
<1>2. CASE async_shutdown
  BY <1>2, ShutdownStep
<1>3. CASE close
  BY <1>3, CloseStep
<1>4. ASSUME NEW n \in 1..MaxReads, async_read_some(n) PROVE Inv'
  BY <1>4, ReadStep
<1>5. ASSUME NEW n \in 1..MaxWrites, async_write(n) PROVE Inv'
  BY <1>5, WriteStep
<1>6. CASE OnRead
  BY <1>6, ReadDataStep, ReadRefusedStep, ReadErrorStep DEF OnRead
<1>7. CASE OnWritten
  BY <1>7, WrittenStep
<1>8. CASE OnWriteError
  BY <1>8, WriteErrorStep
<1>9. CASE RunPosted
  BY <1>9, RunStep
<1>10. CASE UNCHANGED vars
  <2>1. UNCHANGED <<called, late, wire, peer>> /\ st' = st
    BY <1>10 DEF vars
  <2>2. StreamInv(st', called, late, wire) /\ Hears(st')
    BY <2>1 DEF Inv, NeverDeaf, Hears
  <2> QED BY <2>1, <2>2, UncalledStepOf
<1> QED BY <1>1, <1>2, <1>3, <1>4, <1>5, <1>6, <1>7, <1>8, <1>9, <1>10 DEF Next

-----------------------------------------------------------------------------
(* What the invariant says.                                                *)

LEMMA InvWritesKept == Inv => WritesKept
<1> SUFFICES ASSUME Inv PROVE WritesKept
  OBVIOUS
<1>1. OnWire(st.done, wire) /\ Ordered(st.done, late)
  BY DEF Inv, StreamInv, AnswersInv
<1>2. SuccessIsOnTheWire
  BY <1>1 DEF SuccessIsOnTheWire, OnWire
<1>3. WritesCompleteInOrder
  BY <1>1 DEF WritesCompleteInOrder, Ordered, Fine
<1> QED BY <1>2, <1>3 DEF WritesKept

\* A handler kept is a member of the stream or has one marker in the queue.
LEMMA KeptPlaces ==
    ASSUME Inv, NEW h \in Handlers
    PROVE  /\ h \in Kept(st) <=> h \in Members \/ h \in MarkedWrites(st.out)
           /\ h \in Members => h \notin MarkedWrites(st.out)
           /\ \A i, j \in Marked(st.out) : W(st.out[i].write) = W(st.out[j].write) => i = j
<1>1. st \in Streams /\ MarkersInOrder(st.out) /\ st.out \in Seq(Items)
  BY DEF Inv, StreamInv, QueueInv, Streams
<1>2. /\ \A g \in MarkedWrites(st.out) : g.op = "write"
      /\ st.read.op = "read" /\ HS.op = "handshake" /\ SD.op = "shutdown"
  BY <1>1, KeptOps
<1>3. h # NoRead
  BY BoundAssumption DEF Handlers, NoRead, HS, SD, R, W
<1>4. h \in Kept(st) <=> h \in Members \/ h \in MarkedWrites(st.out)
  BY <1>3 DEF Kept, Members
<1>5. h \in Members => h \notin MarkedWrites(st.out)
  BY <1>2 DEF Members
<1>6. ASSUME NEW i \in Marked(st.out), NEW j \in Marked(st.out), W(st.out[i].write) = W(st.out[j].write)
      PROVE  i = j
  <2>1. st.out[i].write = st.out[j].write /\ st.out[i].write \in 1..MaxWrites
    BY <1>1, <1>6 DEF W, MarkersInOrder
  <2>2. i \in Nat /\ j \in Nat
    BY <1>1 DEF Marked
  <2>3. ~(i < j) /\ ~(j < i)
    BY <1>1, <2>1 DEF MarkersInOrder
  <2> QED BY <2>2, <2>3
<1> QED BY <1>4, <1>5, <1>6

LEMMA InvOnePlace == Inv => HandlersInOnePlace
<1> SUFFICES ASSUME Inv, NEW h \in Handlers
             PROVE  IF h \in called THEN \E x \in Places(h) : Places(h) = {x} ELSE Places(h) = {}
  BY DEF HandlersInOnePlace
<1>1. PICK m : m = {i \in {0} : h \in Members}
  OBVIOUS
<1>2. PICK q : q = {i \in DOMAIN st.out : ~st.out[i].data /\ h = W(st.out[i].write)}
  OBVIOUS
<1>3. PICK p : p = {i \in DOMAIN st.posted : st.posted[i].of = h}
  OBVIOUS
<1>4. PICK d : d = {i \in DOMAIN st.done : st.done[i].of = h}
  OBVIOUS
<1>5. Places(h) = ({"member"} \X m) \cup ({"out_queue"} \X q) \cup ({"posted"} \X p) \cup ({"invoked"} \X d)
  BY <1>1, <1>2, <1>3, <1>4 DEF Places
<1>6. /\ Once(st.done) /\ Once(st.posted) /\ Of(st.done) \cap Of(st.posted) = {}
      /\ (Of(st.done) \cup Of(st.posted)) \cap Kept(st) = {}
      /\ called = Kept(st) \cup Of(st.done) \cup Of(st.posted)
  BY DEF Inv, StreamInv, AnswersInv
<1>7. /\ h \in Kept(st) <=> h \in Members \/ h \in MarkedWrites(st.out)
      /\ h \in Members => h \notin MarkedWrites(st.out)
      /\ \A i, j \in Marked(st.out) : W(st.out[i].write) = W(st.out[j].write) => i = j
  BY KeptPlaces
<1>8. (h \notin Members => m = {}) /\ (h \in Members => m = {0})
  BY <1>1
<1>9. h \notin MarkedWrites(st.out) => q = {}
  BY <1>2 DEF MarkedWrites, Marked
<1>10. h \in MarkedWrites(st.out) => \E i : q = {i}
  <2> SUFFICES ASSUME h \in MarkedWrites(st.out) PROVE \E i : q = {i}
    OBVIOUS
  <2>1. PICK i \in Marked(st.out) : h = W(st.out[i].write)
    BY DEF MarkedWrites
  <2>2. i \in q
    BY <1>2, <2>1 DEF Marked
  <2>3. \A j \in q : j = i
    BY <1>2, <1>7, <2>1 DEF Marked
  <2> QED BY <2>2, <2>3
<1>11. h \notin Of(st.posted) => p = {}
  BY <1>3 DEF Of
<1>12. h \in Of(st.posted) => \E i : p = {i}
  <2> SUFFICES ASSUME h \in Of(st.posted) PROVE \E i : p = {i}
    OBVIOUS
  <2>1. PICK i \in DOMAIN st.posted : h = st.posted[i].of
    BY DEF Of
  <2>2. i \in p /\ \A j \in p : j = i
    BY <1>3, <1>6, <2>1 DEF Once
  <2> QED BY <2>2
<1>13. h \notin Of(st.done) => d = {}
  BY <1>4 DEF Of
<1>14. h \in Of(st.done) => \E i : d = {i}
  <2> SUFFICES ASSUME h \in Of(st.done) PROVE \E i : d = {i}
    OBVIOUS
  <2>1. PICK i \in DOMAIN st.done : h = st.done[i].of
    BY DEF Of
  <2>2. i \in d /\ \A j \in d : j = i
    BY <1>4, <1>6, <2>1 DEF Once
  <2> QED BY <2>2
<1>15. CASE h \notin called
  <2>1. m = {} /\ q = {} /\ p = {} /\ d = {}
    BY <1>6, <1>7, <1>8, <1>9, <1>11, <1>13, <1>15
  <2> QED BY <1>5, <1>15, <2>1
<1>16. CASE h \in Of(st.done)
  <2>1. m = {} /\ q = {} /\ p = {}
    BY <1>6, <1>7, <1>8, <1>9, <1>11, <1>16
  <2>2. PICK i : d = {i}
    BY <1>14, <1>16
  <2>3. Places(h) = {<<"invoked", i>>}
    BY <1>5, <2>1, <2>2
  <2> QED BY <1>6, <1>16, <2>3
<1>17. CASE h \in Of(st.posted)
  <2>1. m = {} /\ q = {} /\ d = {}
    BY <1>6, <1>7, <1>8, <1>9, <1>13, <1>17
  <2>2. PICK i : p = {i}
    BY <1>12, <1>17
  <2>3. Places(h) = {<<"posted", i>>}
    BY <1>5, <2>1, <2>2
  <2> QED BY <1>6, <1>17, <2>3
<1>18. CASE h \in MarkedWrites(st.out)
  <2>1. m = {} /\ p = {} /\ d = {}
    BY <1>6, <1>7, <1>8, <1>11, <1>13, <1>18
  <2>2. PICK i : q = {i}
    BY <1>10, <1>18
  <2>3. Places(h) = {<<"out_queue", i>>}
    BY <1>5, <2>1, <2>2
  <2> QED BY <1>6, <1>7, <1>18, <2>3
<1>19. CASE h \in Members
  <2>1. m = {0} /\ q = {} /\ p = {} /\ d = {}
    BY <1>6, <1>7, <1>8, <1>9, <1>11, <1>13, <1>19
  <2>2. Places(h) = {<<"member", 0>>}
    BY <1>5, <2>1
  <2> QED BY <1>6, <1>7, <1>19, <2>2
<1> QED BY <1>6, <1>7, <1>15, <1>16, <1>17, <1>18, <1>19

LEMMA InvNobodyForgotten == Inv => NobodyForgotten
<1> SUFFICES ASSUME Inv PROVE NobodyForgotten
  OBVIOUS
<1>1. Ordered(st.done, late)
  BY DEF Inv, StreamInv, AnswersInv
<1>2. ShutdownIsLast
  BY <1>1 DEF ShutdownIsLast, Ordered, Fine
<1> QED BY <1>2, InvOnePlace DEF NobodyForgotten, Inv

-----------------------------------------------------------------------------
(* Theorems.                                                               *)

\* tls_stream's members keep their types through every call and completion: out_queue_ holds records
\* and markers only, the pending read is one read or none, and what was called is known.
THEOREM StreamTypes == Spec => []TypeOK
<1>1. Inv => TypeOK
  BY DEF Inv
<1> QED BY <1>1, InitInv, InvStep, PTL DEF Spec

\* tls_stream's write handlers tell the truth: a write that was answered with success, and every
\* write before it, is on the wire, and writes are answered in the order of their calls, however
\* the calls, the socket's completions, its failures and the strand's handlers interleave.
THEOREM WritesAreKept == Spec => []WritesKept
<1> QED BY InitInv, InvStep, InvWritesKept, PTL DEF Spec

\* A handler given to tls_stream is in one place until it is invoked, and is invoked at most once;
\* none that was given before async_shutdown is invoked after the shutdown's handler; and the stream
\* has a read outstanding unless it is closed, the peer has ended, or the user has not read enough.
THEOREM NobodyIsForgotten == Spec => []NobodyForgotten
<1> QED BY InitInv, InvStep, InvNobodyForgotten, PTL DEF Spec
=============================================================================
