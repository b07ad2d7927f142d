-------------------------- MODULE KeyServiceProofs --------------------------
(***************************************************************************)
(* What KeyService keeps for any number of clients, calls, keys, lives of  *)
(* a connection and faults: a caller gets the answer to its own call, the  *)
(* answer knows what was registered before, a disconnect leaves no call    *)
(* behind and no continuation is lost.                                     *)
(***************************************************************************)
EXTENDS KeyService, TLAPS

-----------------------------------------------------------------------------
(* The inductive invariant.                                                *)

Made(k) == call[k].pc # "idle"

\* next_id_ gives every call of a client its own number; what a call is stays what it was, and
\* what it knows to be registered is in the database.
CallsMade ==
    \A k \in Calls :
        IF Made(k)
        THEN /\ call[k].id \in 1..nextId[ClientOf[k]]
             /\ call[k].on <= life[ClientOf[k]]
             /\ call[k].known \subseteq db
             /\ call[k].kind \in Kinds
             /\ call[k].arg \in IF call[k].kind = "find_cert" THEN CertIds ELSE Keys
        ELSE answer[k] = None /\ call[k].on = 0

IdsUnique ==
    \A j, k \in Calls :
        Made(j) /\ Made(k) /\ ClientOf[j] = ClientOf[k] /\ call[j].id = call[k].id => j = k

\* The maps hold calls of their client under the id and the kind of the call, fail_all has taken
\* such calls only, and every call that has no answer is in one of the two.
Waits(k) ==
    LET m == pending[ClientOf[k]][call[k].kind]
    IN  call[k].id \in DOMAIN m /\ m[call[k].id] = k

PendingOwned ==
    /\ \A cl \in Clients : \A kind \in Kinds : \A i \in DOMAIN pending[cl][kind] :
          LET k == pending[cl][kind][i]
          IN  Made(k) /\ ClientOf[k] = cl /\ call[k].kind = kind /\ call[k].id = i
    /\ \A cl \in Clients : \A k \in taken[cl].calls : Made(k) /\ ClientOf[k] = cl
    /\ \A k \in Calls :
          Made(k) /\ answer[k] = None => Waits(k) \/ k \in taken[ClientOf[k]].calls

\* What is in a map that fail_all has emptied was not entered on the connection that ended.
TakenMaps ==
    \A cl \in Clients :
        /\ st[cl] # "failing" => taken[cl].maps = 0 /\ taken[cl].calls = {}
        /\ \A n \in 1..taken[cl].maps : \A i \in DOMAIN pending[cl][FailOrder[n]] :
              call[pending[cl][FailOrder[n]][i]].on # life[cl]

\* What may be under way on a connection of client cl: requests of its calls, and answers to them
\* that are right about what was registered.
RequestsOf(cl) == {Request(k) : k \in {j \in Calls : Made(j) /\ ClientOf[j] = cl}}
ResponsesTo(cl) ==
    {r \in Responses :
        /\ Made(r.of) /\ ClientOf[r.of] = cl
        /\ r.id = call[r.of].id /\ r.kind = call[r.of].kind
        /\ r.result \in {"absent", "ok"} => call[r.of].arg \notin call[r.of].known
        /\ r.result = "ok" => call[r.of].arg \in db}

Wires ==
    \A s \in Links, cl \in Clients :
        s[1] = cl => req[s] \in Seq(RequestsOf(cl)) /\ resp[s] \in Seq(ResponsesTo(cl))

\* A session that is about to insert does so for the request at its front, whose caller did not
\* know the key when it called.
Working ==
    \A s \in Links :
        work[s] # None =>
            /\ session[s] = "open" /\ req[s] # <<>>
            /\ LET r == Head(req[s])
               IN  r.kind = "register" /\ r.arg = work[s] /\ work[s] \notin call[r.of].known

OkIsStored ==
    \A k \in Calls : answer[k] # None /\ answer[k].result = "ok" => call[k].arg \in db

Inv ==
    /\ TypeOK /\ CallsMade /\ IdsUnique /\ PendingOwned /\ TakenMaps /\ Wires /\ Working
    /\ OkIsStored /\ AnswersMatch /\ RegisteredIsKnown /\ NoLostResume /\ PendingFails

-----------------------------------------------------------------------------
(* Sequences and connections.                                              *)

\* A sequence over a set is one over a larger set.
LEMMA SeqGrows ==
    ASSUME NEW S, NEW T, S \subseteq T, NEW s \in Seq(S)
    PROVE  s \in Seq(T)
<1>1. s \in [1..Len(s) -> S] /\ Len(s) \in Nat
  OBVIOUS
<1>2. s \in [1..Len(s) -> T]
  BY <1>1
<1> QED BY <1>1, <1>2

LEMMA EmptySeq ==
    ASSUME NEW S
    PROVE  <<>> \in Seq(S)
OBVIOUS

LEMMA ExceptIn ==
    ASSUME NEW S, NEW T, NEW f \in [S -> T], NEW x, NEW v \in T
    PROVE  [f EXCEPT ![x] = v] \in [S -> T]
OBVIOUS

LEMMA HeadTail ==
    ASSUME NEW S, NEW s \in Seq(S), s # <<>>
    PROVE  Head(s) \in S /\ Tail(s) \in Seq(S)
OBVIOUS

LEMMA OneMore ==
    ASSUME NEW S, NEW s \in Seq(S), NEW m \in S
    PROVE  Append(s, m) \in Seq(S) /\ (s # <<>> => Append(s, m) # <<>> /\ Head(Append(s, m)) = Head(s))
OBVIOUS

\* Every client has a connection of its own.
LEMMA LinkOf ==
    ASSUME Inv, NEW cl \in Clients
    PROVE  Link(cl) \in Links /\ Link(cl)[1] = cl
BY DEF Inv, TypeOK, Link, Links

LEMMA Ends ==
    ASSUME NEW s \in Links
    PROVE  s[1] \in Clients
BY DEF Links

-----------------------------------------------------------------------------
(* What stays, and what follows for the parts that an action leaves alone. *)

\* A call stays what it was, and the database only grows.
Grows ==
    /\ \A k \in Calls : Made(k) => /\ Made(k)'
                                   /\ call'[k].id = call[k].id /\ call'[k].kind = call[k].kind
                                   /\ call'[k].arg = call[k].arg /\ call'[k].known = call[k].known
    /\ db \subseteq db'

LEMMA WiresGrow ==
    ASSUME Inv, Grows, NEW cl \in Clients
    PROVE  RequestsOf(cl) \subseteq RequestsOf(cl)' /\ ResponsesTo(cl) \subseteq ResponsesTo(cl)'
<1>1. RequestsOf(cl) \subseteq RequestsOf(cl)'
  <2> SUFFICES ASSUME NEW m \in RequestsOf(cl) PROVE m \in RequestsOf(cl)'
    OBVIOUS
  <2>1. PICK k \in Calls : Made(k) /\ ClientOf[k] = cl /\ m = Request(k)
    BY DEF RequestsOf
  <2>2. Made(k)' /\ Request(k)' = Request(k)
    BY <2>1 DEF Grows, Request
  <2> QED BY <2>1, <2>2 DEF RequestsOf
<1>2. ResponsesTo(cl) \subseteq ResponsesTo(cl)'
  <2> SUFFICES ASSUME NEW m \in ResponsesTo(cl) PROVE m \in ResponsesTo(cl)'
    OBVIOUS
  <2>1. m \in Responses /\ m.of \in Calls /\ Made(m.of)
    BY DEF ResponsesTo, Responses
  <2> DEFINE k == m.of
  <2>2. k \in Calls /\ Made(k)' /\ call'[k].id = call[k].id /\ call'[k].kind = call[k].kind
        /\ call'[k].arg = call[k].arg /\ call'[k].known = call[k].known /\ db \subseteq db'
    BY <2>1 DEF Grows
  <2>3. /\ ClientOf[k] = cl /\ m.id = call[k].id /\ m.kind = call[k].kind
        /\ m.result \in {"absent", "ok"} => call[k].arg \notin call[k].known
        /\ m.result = "ok" => call[k].arg \in db
    BY DEF ResponsesTo
  <2> QED BY <2>1, <2>2, <2>3 DEF ResponsesTo
<1> QED BY <1>1, <1>2

\* It is enough to look at what an action puts on a connection or takes from it.
LEMMA WiresFrame ==
    ASSUME Inv, Grows,
           \A s \in Links, cl \in Clients : s[1] = cl =>
              /\ \/ req'[s] = req[s] \/ req'[s] \in Seq(RequestsOf(cl))
                 \/ req'[s] \in Seq(RequestsOf(cl)')
              /\ \/ resp'[s] = resp[s] \/ resp'[s] \in Seq(ResponsesTo(cl))
                 \/ resp'[s] \in Seq(ResponsesTo(cl)')
    PROVE  Wires'
<1> SUFFICES ASSUME NEW s \in Links, NEW cl \in Clients, s[1] = cl
             PROVE  req'[s] \in Seq(RequestsOf(cl)') /\ resp'[s] \in Seq(ResponsesTo(cl)')
  BY DEF Wires
<1>1. RequestsOf(cl) \subseteq RequestsOf(cl)' /\ ResponsesTo(cl) \subseteq ResponsesTo(cl)'
  BY WiresGrow
<1>2. req[s] \in Seq(RequestsOf(cl)) /\ resp[s] \in Seq(ResponsesTo(cl))
  BY DEF Inv, Wires
<1>3. req'[s] \in Seq(RequestsOf(cl)) => req'[s] \in Seq(RequestsOf(cl)')
  BY <1>1, SeqGrows
<1>4. resp'[s] \in Seq(ResponsesTo(cl)) => resp'[s] \in Seq(ResponsesTo(cl)')
  BY <1>1, SeqGrows
<1>5. req'[s] = req[s] => req'[s] \in Seq(RequestsOf(cl))
  BY <1>2
<1>6. resp'[s] = resp[s] => resp'[s] \in Seq(ResponsesTo(cl))
  BY <1>2
<1>7. req'[s] \in Seq(RequestsOf(cl)')
  BY <1>3, <1>5
<1>8. resp'[s] \in Seq(ResponsesTo(cl)')
  BY <1>4, <1>6
<1> QED BY <1>7, <1>8

\* The server and the environment touch neither the clients' tables nor the calls.
LEMMA ServerFrame ==
    ASSUME Inv, UNCHANGED <<client, table, caller>>, db \subseteq db', TypeOK', Wires', Working'
    PROVE  Inv'
<1> USE DEF client, table, caller, Inv
<1>1. CallsMade'
  BY DEF CallsMade, Made, TypeOK
<1>2. IdsUnique'
  BY DEF IdsUnique, Made
<1>3. PendingOwned'
  BY DEF PendingOwned, Made, Waits
<1>4. TakenMaps'
  BY DEF TakenMaps
<1>5. OkIsStored' /\ AnswersMatch' /\ RegisteredIsKnown' /\ NoLostResume' /\ PendingFails'
  BY DEF OkIsStored, AnswersMatch, RegisteredIsKnown, NoLostResume, PendingFails
<1> QED BY <1>1, <1>2, <1>3, <1>4, <1>5

-----------------------------------------------------------------------------
(* The server.                                                             *)

\* The request at the front of a session is one of a call of its client.
LEMMA FrontRequest ==
    ASSUME Inv, NEW s \in Links, req[s] # <<>>
    PROVE  /\ Head(req[s]).of \in Calls /\ Made(Head(req[s]).of) /\ ClientOf[Head(req[s]).of] = s[1]
           /\ Head(req[s]) = Request(Head(req[s]).of)
           /\ Tail(req[s]) \in Seq(RequestsOf(s[1])) /\ Tail(req[s]) \in Seq(Requests)
<1>1. req[s] \in Seq(RequestsOf(s[1])) /\ req[s] \in Seq(Requests)
  BY Ends DEF Inv, Wires, TypeOK
<1>2. Head(req[s]) \in RequestsOf(s[1]) /\ Tail(req[s]) \in Seq(RequestsOf(s[1]))
      /\ Tail(req[s]) \in Seq(Requests)
  BY <1>1, HeadTail
<1>3. PICK k \in Calls : Made(k) /\ ClientOf[k] = s[1] /\ Head(req[s]) = Request(k)
  BY <1>2 DEF RequestsOf
<1>4. Head(req[s]).of = k
  BY <1>3 DEF Request
<1> QED BY <1>2, <1>3, <1>4

\* send_response of a right answer.
LEMMA Answering ==
    ASSUME Inv, UNCHANGED call, db \subseteq db', NEW s \in Links, req[s] # <<>>,
           NEW result \in Results, send_response(s, result),
           LET k == Head(req[s]).of
           IN  /\ result \in {"absent", "ok"} => call[k].arg \notin call[k].known
               /\ result = "ok" => call[k].arg \in db'
    PROVE  /\ req' \in [Links -> Seq(Requests)] /\ resp' \in [Links -> Seq(Responses)]
           /\ Wires'
           /\ \A l \in Links : l # s => req'[l] = req[l]
<1>0. PICK cl \in Clients : s[1] = cl
  BY Ends
<1>1. PICK k \in Calls : k = Head(req[s]).of /\ Made(k) /\ ClientOf[k] = cl /\ Head(req[s]) = Request(k)
  BY <1>0, FrontRequest
<1>2. Tail(req[s]) \in Seq(RequestsOf(cl)) /\ Tail(req[s]) \in Seq(Requests)
  BY <1>0, FrontRequest
<1>3. Grows
  BY DEF Grows, Made
<1> DEFINE r == Head(req[s])
           a == [id |-> r.id, kind |-> r.kind, result |-> result, of |-> r.of]
<1>4. r.id = call[k].id /\ r.kind = call[k].kind /\ r.of = k
  BY <1>1 DEF Request
<1>5. call[k].id \in Nat /\ call[k].kind \in Kinds
  BY <1>1 DEF Inv, TypeOK, CallStates, CallsMade
<1>6. a \in Responses /\ a.id = call[k].id /\ a.kind = call[k].kind /\ a.result = result /\ a.of = k
  BY <1>4, <1>5 DEF Responses
<1>7. Made(k)' /\ call' = call
  BY <1>1, <1>3 DEF Grows
<1>8. a \in ResponsesTo(cl)'
  <2>1. /\ result \in {"absent", "ok"} => call[k].arg \notin call[k].known
        /\ result = "ok" => call[k].arg \in db'
    BY <1>1
  <2> HIDE DEF a
  <2> QED BY <1>1, <1>6, <1>7, <2>1 DEF ResponsesTo
<1>9. /\ req' = [req EXCEPT ![s] = Tail(req[s])]
      /\ resp' = resp \/ resp' = [resp EXCEPT ![s] = Append(resp[s], a)]
  BY DEF send_response
<1> HIDE DEF a, r
<1>10. /\ req \in [Links -> Seq(Requests)] /\ resp \in [Links -> Seq(Responses)]
       /\ resp[s] \in Seq(ResponsesTo(cl)')
  <2>1. req \in [Links -> Seq(Requests)] /\ resp \in [Links -> Seq(Responses)]
    BY DEF Inv, TypeOK
  <2>2. resp[s] \in Seq(ResponsesTo(cl))
    BY <1>0 DEF Inv, Wires
  <2>3. resp[s] \in Seq(ResponsesTo(cl)')
    BY <1>0, <1>3, <2>2, WiresGrow, SeqGrows
  <2> QED BY <2>1, <2>3
<1>11. req' \in [Links -> Seq(Requests)] /\ req'[s] = Tail(req[s]) /\ \A l \in Links : l # s => req'[l] = req[l]
  BY <1>2, <1>9, <1>10
<1>12. Append(resp[s], a) \in Seq(ResponsesTo(cl)') /\ Append(resp[s], a) \in Seq(Responses)
  BY <1>6, <1>8, <1>10, OneMore
<1>13. /\ resp' \in [Links -> Seq(Responses)]
       /\ \A l \in Links : l # s => resp'[l] = resp[l]
       /\ resp'[s] = resp[s] \/ resp'[s] \in Seq(ResponsesTo(cl)')
  <2>1. CASE resp' = resp
    BY <2>1, <1>10
  <2>2. CASE resp' = [resp EXCEPT ![s] = Append(resp[s], a)]
    <3>1. \A l \in Links : resp'[l] = IF l = s THEN Append(resp[s], a) ELSE resp[l]
      BY <2>2, <1>10, Zenon
    <3>2. resp' \in [Links -> Seq(Responses)]
      BY <2>2, <1>10, <1>12, ExceptIn
    <3> QED BY <3>1, <3>2, <1>12
  <2> QED BY <1>9, <2>1, <2>2
<1>14. ASSUME NEW l \in Links, NEW c \in Clients, l[1] = c
       PROVE  /\ \/ req'[l] = req[l] \/ req'[l] \in Seq(RequestsOf(c))
                 \/ req'[l] \in Seq(RequestsOf(c)')
              /\ \/ resp'[l] = resp[l] \/ resp'[l] \in Seq(ResponsesTo(c))
                 \/ resp'[l] \in Seq(ResponsesTo(c)')
  <2>1. CASE l = s
    <3>1. c = cl
      BY <2>1, <1>0, <1>14
    <3> QED BY <2>1, <3>1, <1>2, <1>11, <1>13
  <2>2. CASE l # s
    BY <2>2, <1>11, <1>13
  <2> QED BY <2>1, <2>2
<1>15. Wires'
  BY <1>3, <1>14, WiresFrame
<1> QED BY <1>11, <1>13, <1>15

\* What a session works on stays, when its front request does.
LEMMA WorkingFrame ==
    ASSUME Inv, Grows,
           \A s \in Links : work'[s] # None =>
              /\ work'[s] = work[s] /\ session'[s] = session[s]
              /\ req[s] # <<>> => req'[s] # <<>> /\ Head(req'[s]) = Head(req[s])
    PROVE  Working'
<1> SUFFICES ASSUME NEW s \in Links, work'[s] # None
             PROVE  /\ session'[s] = "open" /\ req'[s] # <<>>
                    /\ Head(req'[s]).kind = "register" /\ Head(req'[s]).arg = work'[s]
                    /\ work'[s] \notin call'[Head(req'[s]).of].known
  BY DEF Working
<1>1. work[s] # None /\ work'[s] = work[s]
  OBVIOUS
<1>2. /\ session[s] = "open" /\ req[s] # <<>>
      /\ Head(req[s]).kind = "register" /\ Head(req[s]).arg = work[s]
      /\ work[s] \notin call[Head(req[s]).of].known
  BY <1>1 DEF Inv, Working
<1>3. call'[Head(req[s]).of].known = call[Head(req[s]).of].known
  BY <1>2, FrontRequest DEF Grows
<1> QED BY <1>1, <1>2, <1>3

\* key_store::register_key up to the insert.
LEMMA RegisterStep ==
    ASSUME Inv, NEW s \in Links, register_key(s)
    PROVE  Inv'
<1> DEFINE key == Head(req[s]).arg
           k == Head(req[s]).of
<1>1. /\ session[s] = "open" /\ work[s] = None /\ req[s] # <<>> /\ Head(req[s]).kind = "register"
      /\ UNCHANGED <<client, table, caller, cut, session, db>>
  BY DEF register_key, Serving
<1>2. \/ /\ send_response(s, "rejected") /\ UNCHANGED work /\ cache' \subseteq cache \cup db
         /\ faults' \in 0..MaxFaults
      \/ /\ key \notin BadKeys /\ ~Known(key)
         /\ work' = [work EXCEPT ![s] = key] /\ UNCHANGED <<cache, req, resp, faults>>
  BY ConstantAssumption DEF register_key, Invalid, Fill, Inv, TypeOK
<1>3. k \in Calls /\ Made(k) /\ key = call[k].arg /\ call[k].kind = "register"
  <2>1. k \in Calls /\ Made(k) /\ Head(req[s]) = Request(k)
    BY <1>1, FrontRequest
  <2>2. Request(k).arg = call[k].arg /\ Request(k).kind = call[k].kind
    BY DEF Request
  <2> QED BY <1>1, <2>1, <2>2
<1>4. key \in Keys /\ call[k].known \subseteq db
  BY <1>3 DEF Inv, CallsMade
<1>5. Grows
  BY <1>1 DEF Grows, Made, caller
<1> HIDE DEF key, k
<1>6. CASE /\ send_response(s, "rejected") /\ UNCHANGED work /\ cache' \subseteq cache \cup db
           /\ faults' \in 0..MaxFaults
  <2>1. /\ req' \in [Links -> Seq(Requests)] /\ resp' \in [Links -> Seq(Responses)]
        /\ Wires' /\ \A l \in Links : l # s => req'[l] = req[l]
    BY <1>1, <1>6, Answering DEF Results, caller
  <2>2. TypeOK'
    BY <1>1, <1>6, <2>1 DEF Inv, TypeOK, client, table, caller
  <2>3. Working'
    BY <1>1, <1>5, <1>6, <2>1, WorkingFrame
  <2> QED BY <1>1, <2>1, <2>2, <2>3, ServerFrame
<1>7. CASE /\ key \notin BadKeys /\ ~Known(key)
           /\ work' = [work EXCEPT ![s] = key] /\ UNCHANGED <<cache, req, resp, faults>>
  <2>1. /\ work' \in [Links -> (Keys \ BadKeys) \cup {None}]
        /\ \A l \in Links : work'[l] = IF l = s THEN key ELSE work[l]
    BY <1>4, <1>7 DEF Inv, TypeOK
  <2>2. TypeOK'
    BY <1>1, <1>7, <2>1 DEF Inv, TypeOK, client, table, caller
  <2>3. Wires'
    BY <1>5, <1>7, WiresFrame
  <2>4. key \notin call[k].known
    BY <1>4, <1>7 DEF Known
  <2>5. Working'
    BY <1>1, <1>7, <2>1, <2>4 DEF Inv, Working, caller, key, k
  <2> QED BY <1>1, <2>2, <2>3, <2>5, ServerFrame
<1> QED BY <1>2, <1>6, <1>7

\* public_key_cache::insert: another session may have inserted the key since the lookup.
LEMMA InsertStep ==
    ASSUME Inv, NEW s \in Links, insert(s)
    PROVE  Inv'
<1> DEFINE k == Head(req[s]).of
<1>1. /\ session[s] = "open" /\ work[s] # None /\ work' = [work EXCEPT ![s] = None]
      /\ UNCHANGED <<client, table, caller, cut, session>>
      /\ cache' = cache \cup {work[s]} /\ faults' \in 0..MaxFaults
      /\ \/ db' = db \cup {work[s]} /\ send_response(s, "ok")
         \/ db' = db /\ send_response(s, "rejected")
  BY ConstantAssumption DEF insert, Stored, Inv, TypeOK
<1>2. /\ req[s] # <<>> /\ Head(req[s]).arg = work[s] /\ work[s] \notin call[k].known
  BY <1>1 DEF Inv, Working
<1>3. call[k].arg = work[s] /\ work[s] \in Keys
  <2>1. Head(req[s]) = Request(k) /\ work[s] \in Keys
    BY <1>1, <1>2, FrontRequest DEF Inv, TypeOK
  <2> QED BY <1>2, <2>1 DEF Request
<1> HIDE DEF k
<1>4. /\ req' \in [Links -> Seq(Requests)] /\ resp' \in [Links -> Seq(Responses)]
      /\ Wires' /\ \A l \in Links : l # s => req'[l] = req[l]
  <2>1. UNCHANGED call /\ db \subseteq db' /\ "ok" \in Results /\ "rejected" \in Results
    BY <1>1 DEF caller, Results
  <2>2. CASE db' = db \cup {work[s]} /\ send_response(s, "ok")
    BY <1>2, <1>3, <2>1, <2>2, Answering DEF k
  <2>3. CASE send_response(s, "rejected")
    BY <1>2, <2>1, <2>3, Answering
  <2> QED BY <1>1, <2>2, <2>3
<1>5. /\ work' \in [Links -> (Keys \ BadKeys) \cup {None}]
      /\ \A l \in Links : work'[l] = IF l = s THEN None ELSE work[l]
  BY <1>1 DEF Inv, TypeOK
<1>6. db \subseteq db' /\ db' \subseteq Keys /\ cache' \subseteq Keys
  BY <1>1, <1>3 DEF Inv, TypeOK
<1>7. Grows
  BY <1>1, <1>6 DEF Grows, Made, caller
<1>8. TypeOK'
  BY <1>1, <1>4, <1>5, <1>6 DEF Inv, TypeOK, client, table, caller
<1>9. Working'
  BY <1>1, <1>4, <1>5, <1>7, WorkingFrame
<1> QED BY <1>1, <1>4, <1>6, <1>8, <1>9, ServerFrame

\* The two lookups.
LEMMA FindStep ==
    ASSUME Inv, NEW s \in Links, find_key(s) \/ find_certificate(s)
    PROVE  Inv'
<1> DEFINE k == Head(req[s]).of
           arg == Head(req[s]).arg
           kind == Head(req[s]).kind
<1>1. /\ session[s] = "open" /\ work[s] = None /\ req[s] # <<>>
      /\ UNCHANGED <<client, table, caller, cut, session, work, db, faults>>
      /\ cache' \subseteq cache \cup db
  BY DEF find_key, find_certificate, Serving, Fill, server
<1>2. \/ kind = "find_key" /\ send_response(s, IF Known(arg) THEN arg ELSE "absent")
      \/ kind = "find_cert" /\ send_response(s, IF arg \in HeldCerts THEN arg ELSE "absent")
  BY DEF find_key, find_certificate, Serving
<1>3. k \in Calls /\ Made(k) /\ arg = call[k].arg /\ call[k].kind = kind
  <2>1. k \in Calls /\ Made(k) /\ Head(req[s]) = Request(k)
    BY <1>1, FrontRequest
  <2>2. Request(k).arg = call[k].arg /\ Request(k).kind = call[k].kind
    BY DEF Request
  <2> QED BY <1>1, <2>1, <2>2
<1>4. call[k].known \subseteq db /\ db \subseteq Keys /\ arg \in IF kind = "find_cert" THEN CertIds ELSE Keys
  BY <1>3 DEF Inv, CallsMade, TypeOK
<1>5. arg \in Results /\ "absent" \in Results /\ arg # "absent" /\ arg # "ok"
  BY <1>4, DistinctAssumption DEF Results
<1>6. PICK result \in Results :
         send_response(s, result) /\ result # "ok" /\ (result = "absent" => arg \notin call[k].known)
  <2>1. CASE kind = "find_key" /\ send_response(s, IF Known(arg) THEN arg ELSE "absent")
    <3>1. CASE Known(arg)
      BY <3>1, <2>1, <1>5
    <3>2. CASE ~Known(arg)
      <4>1. arg \notin call[k].known
        BY <3>2, <1>4 DEF Known
      <4> QED BY <4>1, <3>2, <2>1, <1>5
    <3> QED BY <3>1, <3>2
  <2>2. CASE kind = "find_cert" /\ send_response(s, IF arg \in HeldCerts THEN arg ELSE "absent")
    <3>1. arg \notin call[k].known
      BY <2>2, <1>4, DistinctAssumption
    <3> QED BY <2>2, <3>1, <1>5
  <2> QED BY <1>2, <2>1, <2>2
<1>7. /\ req' \in [Links -> Seq(Requests)] /\ resp' \in [Links -> Seq(Responses)]
      /\ Wires' /\ \A l \in Links : l # s => req'[l] = req[l]
  BY <1>1, <1>3, <1>6, Answering DEF caller
<1>8. Grows
  BY <1>1 DEF Grows, Made, caller
<1>9. TypeOK'
  BY <1>1, <1>7 DEF Inv, TypeOK, client, table, caller
<1>10. Working'
  BY <1>1, <1>7, <1>8, WorkingFrame
<1> QED BY <1>1, <1>7, <1>9, <1>10, ServerFrame

\* A session ends, a connection is cut, the server's process ends: requests are lost.
LEMMA LossStep ==
    ASSUME Inv,
           \/ \E s \in Links : LookupFails(s) \/ SessionEnds(s) \/ Cut(s)
           \/ Restart
    PROVE  Inv'
<1>1. /\ UNCHANGED <<client, table, caller, resp, db>>
      /\ cache' \subseteq cache /\ faults' \in 0..MaxFaults
  BY ConstantAssumption DEF LookupFails, SessionEnds, Cut, Restart, Serving, server, Inv, TypeOK
<1>2. /\ cut' \in [Links -> BOOLEAN] /\ session' \in [Links -> {"none", "open", "gone"}]
      /\ work' \in [Links -> (Keys \ BadKeys) \cup {None}]
  <2>1. /\ cut \in [Links -> BOOLEAN] /\ session \in [Links -> {"none", "open", "gone"}]
        /\ work \in [Links -> (Keys \ BadKeys) \cup {None}]
    BY DEF Inv, TypeOK
  <2>2. ASSUME NEW s \in Links, LookupFails(s) \/ SessionEnds(s) \/ Cut(s)
        PROVE  /\ cut' \in [Links -> BOOLEAN] /\ session' \in [Links -> {"none", "open", "gone"}]
               /\ work' \in [Links -> (Keys \ BadKeys) \cup {None}]
    <3>1. UNCHANGED work /\ (UNCHANGED cut \/ cut' = [cut EXCEPT ![s] = TRUE])
          /\ (UNCHANGED session \/ session' = [session EXCEPT ![s] = "gone"])
      BY <2>2 DEF LookupFails, SessionEnds, Cut
    <3>2. "gone" \in {"none", "open", "gone"} /\ TRUE \in BOOLEAN
      OBVIOUS
    <3> QED BY <2>1, <3>1, <3>2, ExceptIn
  <2>3. CASE Restart
    <3>1. cut' \in [Links -> BOOLEAN] /\ work' \in [Links -> (Keys \ BadKeys) \cup {None}]
      BY <2>1, <2>3 DEF Restart
    <3>2. session' \in [Links -> {"none", "open", "gone"}]
      BY <2>1, <2>3 DEF Restart
    <3> QED BY <3>1, <3>2
  <2> QED BY <2>2, <2>3
<1>3. req' \in [Links -> Seq(Requests)]
  <2>1. req \in [Links -> Seq(Requests)] /\ <<>> \in Seq(Requests)
    BY EmptySeq DEF Inv, TypeOK
  <2> QED BY <2>1, ExceptIn DEF LookupFails, SessionEnds, Cut, Restart
<1>4. \A l \in Links :
         /\ req'[l] = req[l] \/ req'[l] = <<>>
         /\ work'[l] # None => work'[l] = work[l] /\ session'[l] = session[l] /\ req'[l] = req[l]
  BY DEF LookupFails, SessionEnds, Cut, Restart, Serving, Inv, TypeOK
<1>5. Grows
  BY <1>1 DEF Grows, Made, caller
<1>6. TypeOK'
  BY <1>1, <1>2, <1>3 DEF Inv, TypeOK, client, table, caller
<1>7. Wires'
  <2>1. \A S : <<>> \in Seq(S)
    BY EmptySeq
  <2> QED BY <1>1, <1>4, <1>5, <2>1, WiresFrame
<1>8. Working'
  BY <1>4, <1>5, WorkingFrame
<1> QED BY <1>1, <1>6, <1>7, <1>8, ServerFrame

-----------------------------------------------------------------------------
(* The connection of a client.                                             *)

\* A new impl has a life of its own: calls of earlier lives stay with theirs.
LEMMA ConnectStep ==
    ASSUME Inv, NEW cl \in Clients, connect(cl)
    PROVE  Inv'
<1>1. /\ UNCHANGED <<nextId, pending, taken, call, answer, waiter, resuming, req, resp, cut, session, work,
                     cache, db, faults>>
      /\ st' = [st EXCEPT ![cl] = "connecting"]
      /\ \/ st[cl] = "fresh" /\ life' = life
         \/ /\ st[cl] \in {"ended", "closed"} /\ life[cl] < MaxLives
            /\ life' = [life EXCEPT ![cl] = life[cl] + 1]
  BY DEF connect, NewLife, table, caller, link, server
<1>2. /\ st' \in [Clients -> {"fresh", "connecting", "connected", "failing", "ended", "closed"}]
      /\ life' \in [Clients -> 1..MaxLives]
      /\ \A c \in Clients : st'[c] = IF c = cl THEN "connecting" ELSE st[c]
      /\ \A c \in Clients : c # cl => life'[c] = life[c]
      /\ \A c \in Clients : life[c] <= life'[c] /\ life[c] \in Nat /\ life'[c] \in Nat
  <2>1. st \in [Clients -> {"fresh", "connecting", "connected", "failing", "ended", "closed"}]
        /\ life \in [Clients -> 1..MaxLives]
    BY DEF Inv, TypeOK
  <2>2. /\ st' \in [Clients -> {"fresh", "connecting", "connected", "failing", "ended", "closed"}]
        /\ \A c \in Clients : st'[c] = IF c = cl THEN "connecting" ELSE st[c]
    BY <1>1, <2>1
  <2>3. CASE life' = life
    BY <2>1, <2>2, <2>3, ConstantAssumption
  <2>4. CASE life[cl] < MaxLives /\ life' = [life EXCEPT ![cl] = life[cl] + 1]
    <3>1. life[cl] + 1 \in 1..MaxLives
      BY <2>1, <2>4, ConstantAssumption
    <3>2. life' \in [Clients -> 1..MaxLives]
          /\ \A c \in Clients : life'[c] = IF c = cl THEN life[cl] + 1 ELSE life[c]
      BY <2>1, <2>4, <3>1
    <3> QED BY <2>1, <2>2, <3>2, ConstantAssumption
  <2> QED BY <1>1, <2>3, <2>4
<1>3. Grows
  BY <1>1 DEF Grows, Made
<1>4. TypeOK'
  BY <1>1, <1>2 DEF Inv, TypeOK
<1>5. CallsMade'
  <2>1. \A k \in Calls : ClientOf[k] \in Clients /\ call[k].on \in Nat
    BY ConstantAssumption DEF Inv, TypeOK, CallStates
  <2> QED BY <1>1, <1>2, <2>1 DEF Inv, CallsMade, Made
<1>6. IdsUnique' /\ PendingOwned'
  BY <1>1 DEF Inv, IdsUnique, PendingOwned, Made, Waits
<1>7. TakenMaps'
  <2> SUFFICES ASSUME NEW c \in Clients
               PROVE  /\ st'[c] # "failing" => taken[c].maps = 0 /\ taken[c].calls = {}
                      /\ \A n \in 1..taken[c].maps : \A i \in DOMAIN pending[c][FailOrder[n]] :
                            call[pending[c][FailOrder[n]][i]].on # life'[c]
    BY <1>1 DEF TakenMaps
  <2>1. CASE c = cl
    <3>1. taken[c].maps = 0 /\ taken[c].calls = {}
      BY <1>1, <2>1 DEF Inv, TakenMaps
    <3> QED BY <3>1
  <2>2. CASE c # cl
    <3>1. st'[c] = st[c] /\ life'[c] = life[c]
      BY <1>2, <2>2
    <3>2. /\ st[c] # "failing" => taken[c].maps = 0 /\ taken[c].calls = {}
          /\ \A n \in 1..taken[c].maps : \A i \in DOMAIN pending[c][FailOrder[n]] :
                call[pending[c][FailOrder[n]][i]].on # life[c]
      BY DEF Inv, TakenMaps
    <3> QED BY <3>1, <3>2
  <2> QED BY <2>1, <2>2
<1>8. Wires'
  BY <1>1, <1>3, WiresFrame
<1>9. Working'
  BY <1>1, <1>3, WorkingFrame
<1>10. OkIsStored' /\ AnswersMatch' /\ RegisteredIsKnown' /\ NoLostResume'
  BY <1>1 DEF Inv, OkIsStored, AnswersMatch, RegisteredIsKnown, NoLostResume
<1>11. PendingFails'
  BY <1>1, <1>2 DEF Inv, PendingFails
<1> QED BY <1>4, <1>5, <1>6, <1>7, <1>8, <1>9, <1>10, <1>11 DEF Inv

\* The other steps of a connection that leave the tables alone: made, lost or closed.
LEMMA LinkStep ==
    ASSUME Inv, NEW cl \in Clients, on_connected(cl) \/ on_disconnected(cl) \/ close(cl)
    PROVE  Inv'
<1>0. PICK s \in Links : s = Link(cl)
  BY LinkOf
<1>1. UNCHANGED <<life, nextId, pending, taken, call, answer, waiter, resuming, work, cache, db, faults>>
  BY DEF on_connected, on_disconnected, close, table, caller, server
<1>2. /\ st[cl] # "failing" /\ st' = [st EXCEPT ![cl] = st'[cl]]
      /\ st'[cl] \in {"fresh", "connecting", "connected", "failing", "ended", "closed"}
      /\ st'[cl] = "ended" => st[cl] = "ended"
  BY DEF on_connected, on_disconnected, close, Inv, TypeOK
<1>3. /\ cut' = cut \/ cut' = [cut EXCEPT ![s] = TRUE]
      /\ session' = session \/ session' = [session EXCEPT ![s] = "open"]
      /\ resp' = resp \/ resp' = [resp EXCEPT ![s] = <<>>]
      /\ req' = req \/ (session[s] # "open" /\ req' = [req EXCEPT ![s] = <<>>] /\ session' = session)
  BY <1>0 DEF on_connected, on_disconnected, close, Drop
<1>4. /\ st' \in [Clients -> {"fresh", "connecting", "connected", "failing", "ended", "closed"}]
      /\ \A c \in Clients : c # cl => st'[c] = st[c]
  <2> DEFINE v == st'[cl]
  <2>1. v \in {"fresh", "connecting", "connected", "failing", "ended", "closed"}
        /\ st' = [st EXCEPT ![cl] = v]
    BY <1>2
  <2> HIDE DEF v
  <2> QED BY <2>1 DEF Inv, TypeOK
<1>5. /\ cut' \in [Links -> BOOLEAN] /\ session' \in [Links -> {"none", "open", "gone"}]
      /\ req' \in [Links -> Seq(Requests)] /\ resp' \in [Links -> Seq(Responses)]
  <2>1. cut' \in [Links -> BOOLEAN] /\ session' \in [Links -> {"none", "open", "gone"}]
    BY <1>3 DEF Inv, TypeOK
  <2>2. req \in [Links -> Seq(Requests)] /\ resp \in [Links -> Seq(Responses)]
    BY DEF Inv, TypeOK
  <2>3. <<>> \in Seq(Requests) /\ <<>> \in Seq(Responses)
    BY EmptySeq
  <2>4. req' \in [Links -> Seq(Requests)]
    BY <1>3, <2>2, <2>3, ExceptIn
  <2>5. resp' \in [Links -> Seq(Responses)]
    BY <1>3, <2>2, <2>3, ExceptIn
  <2> QED BY <2>1, <2>4, <2>5
<1>6. TypeOK'
  BY <1>1, <1>4, <1>5 DEF Inv, TypeOK
<1>7. \A l \in Links :
         /\ resp'[l] = resp[l] \/ resp'[l] = <<>>
         /\ req'[l] = req[l] \/ (req'[l] = <<>> /\ session[l] # "open")
         /\ session[l] = "open" => session'[l] = "open"
  BY <1>3 DEF Inv, TypeOK
<1>8. Grows
  BY <1>1 DEF Grows, Made
<1>9. Wires'
  <2>1. \A S : <<>> \in Seq(S)
    BY EmptySeq
  <2> QED BY <1>7, <1>8, <2>1, WiresFrame
<1>10. Working'
  <2>1. ASSUME NEW l \in Links, work'[l] # None
        PROVE  /\ work'[l] = work[l] /\ session'[l] = session[l]
               /\ req[l] # <<>> => req'[l] # <<>> /\ Head(req'[l]) = Head(req[l])
    <3>1. work[l] # None /\ work'[l] = work[l] /\ session[l] = "open"
      BY <2>1, <1>1 DEF Inv, Working
    <3> QED BY <3>1, <1>7
  <2> QED BY <1>8, <2>1, WorkingFrame
<1>11. CallsMade' /\ IdsUnique' /\ PendingOwned'
  BY <1>1 DEF Inv, CallsMade, IdsUnique, PendingOwned, Made, Waits
<1>12. TakenMaps'
  <2> SUFFICES ASSUME NEW c \in Clients
               PROVE  /\ st'[c] # "failing" => taken[c].maps = 0 /\ taken[c].calls = {}
                      /\ \A n \in 1..taken[c].maps : \A i \in DOMAIN pending[c][FailOrder[n]] :
                            call[pending[c][FailOrder[n]][i]].on # life[c]
    BY <1>1 DEF TakenMaps
  <2> QED BY <1>2, <1>4 DEF Inv, TakenMaps
<1>13. OkIsStored' /\ AnswersMatch' /\ RegisteredIsKnown' /\ NoLostResume'
  BY <1>1 DEF Inv, OkIsStored, AnswersMatch, RegisteredIsKnown, NoLostResume
<1>14. PendingFails'
  BY <1>1, <1>2, <1>4 DEF Inv, PendingFails
<1> QED BY <1>6, <1>9, <1>10, <1>11, <1>12, <1>13, <1>14 DEF Inv

\* fail_all empties the maps one after the other.
LEMMA Order == Len(FailOrder) = 3 /\ \A kind \in Kinds : \E n \in 1..3 : FailOrder[n] = kind
<1>1. FailOrder[1] = "register" /\ FailOrder[2] = "find_key" /\ FailOrder[3] = "find_cert"
      /\ Len(FailOrder) = 3
  BY DEF FailOrder
<1> QED BY <1>1 DEF Kinds

LEMMA OrderIn == \A n \in 1..3 : FailOrder[n] \in Kinds
<1>1. FailOrder[1] = "register" /\ FailOrder[2] = "find_key" /\ FailOrder[3] = "find_cert"
  BY DEF FailOrder
<1>2. \A n \in 1..3 : n = 1 \/ n = 2 \/ n = 3
  OBVIOUS
<1> QED BY <1>1, <1>2 DEF Kinds

LEMMA TakeStep ==
    ASSUME Inv, NEW cl \in Clients, take_all(cl)
    PROVE  Inv'
<1> DEFINE n == taken[cl].maps + 1
           kind == FailOrder[n]
           m == pending[cl][kind]
<1>1. /\ st[cl] = "failing" /\ n <= 3
      /\ pending' = [pending EXCEPT ![cl] = [pending[cl] EXCEPT ![kind] = <<>>]]
      /\ taken' = [taken EXCEPT ![cl] =
             [maps |-> n, calls |-> taken[cl].calls \cup {m[i] : i \in DOMAIN m}]]
      /\ UNCHANGED <<st, life, nextId, call, answer, waiter, resuming, req, resp, cut, session, work,
                     cache, db, faults>>
  BY Order DEF take_all, client, caller, link, server
<1>2. n \in 1..3 /\ kind \in Kinds /\ taken[cl].maps \in Nat /\ taken[cl].maps < n
  <2>1. taken[cl] \in [maps : 0..3, calls : SUBSET Calls]
    BY DEF Inv, TypeOK
  <2>2. taken[cl].maps \in 0..3
    BY <2>1
  <2> QED BY <1>1, <2>2, OrderIn
<1> HIDE DEF n, kind
<1>3. /\ DOMAIN pending' = Clients
      /\ \A c \in Clients : DOMAIN pending'[c] = Kinds
      /\ \A c \in Clients : \A q \in Kinds :
            pending'[c][q] = IF c = cl /\ q = kind THEN <<>> ELSE pending[c][q]
  BY <1>1, <1>2 DEF Inv, TypeOK
<1>4. {m[i] : i \in DOMAIN m} \subseteq Calls
  BY <1>2 DEF Inv, TypeOK
<1>5. /\ taken' \in [Clients -> [maps : 0..3, calls : SUBSET Calls]]
      /\ taken'[cl].maps = n /\ taken'[cl].calls = taken[cl].calls \cup {m[i] : i \in DOMAIN m}
      /\ \A c \in Clients : c # cl => taken'[c] = taken[c]
  <2> DEFINE M == {m[i] : i \in DOMAIN m}
             v == [maps |-> n, calls |-> taken[cl].calls \cup M]
  <2>1. M \subseteq Calls /\ taken \in [Clients -> [maps : 0..3, calls : SUBSET Calls]]
    BY <1>4 DEF Inv, TypeOK
  <2> HIDE DEF M
  <2>2. v \in [maps : 0..3, calls : SUBSET Calls] /\ v.maps = n /\ v.calls = taken[cl].calls \cup M
    BY <1>2, <2>1
  <2>3. taken' = [taken EXCEPT ![cl] = v]
    BY <1>1 DEF M
  <2> HIDE DEF v
  <2>4. taken'[cl] = v /\ taken' \in [Clients -> [maps : 0..3, calls : SUBSET Calls]]
        /\ \A c \in Clients : c # cl => taken'[c] = taken[c]
    BY <2>1, <2>2, <2>3
  <2> QED BY <2>2, <2>4 DEF M
<1>6. \A c \in Clients : \A q \in Kinds : \A i \in DOMAIN pending'[c][q] :
         i \in DOMAIN pending[c][q] /\ pending'[c][q][i] = pending[c][q][i]
  BY <1>3
<1>7. Grows
  BY <1>1 DEF Grows, Made
<1>8. TypeOK'
  BY <1>1, <1>3, <1>5, <1>6 DEF Inv, TypeOK
<1>9. CallsMade' /\ IdsUnique'
  BY <1>1 DEF Inv, CallsMade, IdsUnique, Made
<1>10. PendingOwned'
  <2>1. ASSUME NEW c \in Clients, NEW q \in Kinds, NEW i \in DOMAIN pending'[c][q], NEW k,
               k = pending'[c][q][i]
        PROVE  Made(k)' /\ ClientOf[k] = c /\ call'[k].kind = q /\ call'[k].id = i
    <3>1. i \in DOMAIN pending[c][q] /\ k = pending[c][q][i]
      BY <2>1, <1>6
    <3>2. Made(k) /\ ClientOf[k] = c /\ call[k].kind = q /\ call[k].id = i
      BY <3>1 DEF Inv, PendingOwned
    <3> QED BY <3>2, <1>1 DEF Made
  <2>2. ASSUME NEW c \in Clients, NEW k \in taken'[c].calls PROVE Made(k)' /\ ClientOf[k] = c
    <3>1. k \in taken[c].calls \/ (c = cl /\ \E i \in DOMAIN m : k = m[i])
      BY <2>2, <1>5
    <3>2. Made(k) /\ ClientOf[k] = c
      BY <3>1, <1>2 DEF Inv, PendingOwned
    <3> QED BY <3>2, <1>1 DEF Made
  <2>3. ASSUME NEW k \in Calls, Made(k)', answer'[k] = None
        PROVE  Waits(k)' \/ k \in taken'[ClientOf[k]].calls
    <3>1. Made(k) /\ answer[k] = None /\ ClientOf[k] \in Clients
      BY <2>3, <1>1, ConstantAssumption DEF Made
    <3>2. call[k].kind \in Kinds
      BY <3>1 DEF Inv, CallsMade
    <3>3. CASE k \in taken[ClientOf[k]].calls
      BY <3>1, <3>3, <1>5
    <3>4. CASE Waits(k) /\ ClientOf[k] = cl /\ call[k].kind = kind
      BY <3>4, <1>5 DEF Waits
    <3>5. CASE Waits(k) /\ ~(ClientOf[k] = cl /\ call[k].kind = kind)
      <4>1. pending'[ClientOf[k]][call[k].kind] = pending[ClientOf[k]][call[k].kind]
        BY <3>1, <3>2, <3>5, <1>3
      <4> QED BY <3>5, <4>1, <1>1 DEF Waits
    <3> QED BY <3>1, <3>3, <3>4, <3>5 DEF Inv, PendingOwned
  <2> QED BY <2>1, <2>2, <2>3 DEF PendingOwned
<1>11. TakenMaps'
  <2> SUFFICES ASSUME NEW c \in Clients
               PROVE  /\ st[c] # "failing" => taken'[c].maps = 0 /\ taken'[c].calls = {}
                      /\ \A j \in 1..taken'[c].maps : \A i \in DOMAIN pending'[c][FailOrder[j]] :
                            call[pending'[c][FailOrder[j]][i]].on # life[c]
    BY <1>1 DEF TakenMaps
  <2>1. CASE c # cl
    <3>1. \A q \in Kinds : pending'[c][q] = pending[c][q]
      BY <1>3, <2>1
    <3>2. \A j \in 1..taken[c].maps : FailOrder[j] \in Kinds
      <4>1. taken[c] \in [maps : 0..3, calls : SUBSET Calls]
        BY DEF Inv, TypeOK
      <4>2. taken[c].maps \in 0..3
        BY <4>1
      <4> QED BY <4>2, OrderIn
    <3>3. /\ st[c] # "failing" => taken[c].maps = 0 /\ taken[c].calls = {}
          /\ \A j \in 1..taken[c].maps : \A i \in DOMAIN pending[c][FailOrder[j]] :
                call[pending[c][FailOrder[j]][i]].on # life[c]
      BY DEF Inv, TakenMaps
    <3> QED BY <1>5, <2>1, <3>1, <3>2, <3>3
  <2>2. CASE c = cl
    <3> SUFFICES ASSUME NEW j \in 1..n, NEW i \in DOMAIN pending'[cl][FailOrder[j]]
                 PROVE  call[pending'[cl][FailOrder[j]][i]].on # life[cl]
      BY <1>1, <1>5, <2>2
    <3>1. FailOrder[j] \in Kinds
      BY <1>2, OrderIn
    <3>2. FailOrder[j] # kind
      BY <3>1, <1>3
    <3>3. j \in 1..taken[cl].maps
      BY <3>2, <1>2 DEF kind, n
    <3>4. i \in DOMAIN pending[cl][FailOrder[j]] /\ pending'[cl][FailOrder[j]][i] = pending[cl][FailOrder[j]][i]
      BY <3>1, <1>6
    <3> QED BY <3>3, <3>4 DEF Inv, TakenMaps
  <2> QED BY <2>1, <2>2
<1>12. Wires'
  BY <1>1, <1>7, WiresFrame
<1>13. Working'
  BY <1>1, <1>7, WorkingFrame
<1>14. OkIsStored' /\ AnswersMatch' /\ RegisteredIsKnown' /\ NoLostResume' /\ PendingFails'
  BY <1>1 DEF Inv, OkIsStored, AnswersMatch, RegisteredIsKnown, NoLostResume, PendingFails
<1> QED BY <1>8, <1>9, <1>10, <1>11, <1>12, <1>13, <1>14 DEF Inv

-----------------------------------------------------------------------------
(* The calls.                                                              *)

\* The two steps of the coroutine that awaits a call.
LEMMA AwaitStep ==
    ASSUME Inv, NEW k \in Calls, await_suspend(k) \/ Resume(k)
    PROVE  Inv'
<1>1. UNCHANGED <<st, life, nextId, pending, taken, call, answer, req, resp, cut, session, work,
                  cache, db, faults>>
  BY DEF await_suspend, Resume, client, table, link, server
<1>2. waiter' \in [Calls -> {"none", "suspended", "resumed"}] /\ resuming' \subseteq Calls
  BY DEF await_suspend, Resume, Inv, TypeOK
<1>3. NoLostResume'
  BY DEF await_suspend, Resume, Inv, TypeOK, NoLostResume
<1>4. Grows
  BY <1>1 DEF Grows, Made
<1>5. TypeOK'
  BY <1>1, <1>2 DEF Inv, TypeOK
<1>6. CallsMade' /\ IdsUnique' /\ PendingOwned'
  BY <1>1 DEF Inv, CallsMade, IdsUnique, PendingOwned, Made, Waits
<1>7. TakenMaps'
  BY <1>1 DEF Inv, TakenMaps
<1>8. Wires'
  BY <1>1, <1>4, WiresFrame
<1>9. Working'
  BY <1>1, <1>4, WorkingFrame
<1>10. OkIsStored' /\ AnswersMatch' /\ RegisteredIsKnown' /\ PendingFails'
  BY <1>1 DEF Inv, OkIsStored, AnswersMatch, RegisteredIsKnown, PendingFails
<1> QED BY <1>3, <1>5, <1>6, <1>7, <1>8, <1>9, <1>10 DEF Inv

\* A call enters the map of its kind under a number that no call of the client has.
LEMMA EnterStep ==
    ASSUME Inv, NEW k \in Calls, NEW ask \in Asks[k], Enter(k, ask[1], ask[2])
    PROVE  Inv'
<1>0. PICK cl \in Clients, kind \in Kinds, arg \in Keys \cup CertIds :
         /\ cl = ClientOf[k] /\ kind = ask[1] /\ arg = ask[2]
         /\ arg \in IF kind = "find_cert" THEN CertIds ELSE Keys
  <2>1. Asks[k] \subseteq ({"register", "find_key"} \X Keys) \cup ({"find_cert"} \X CertIds)
    BY ConstantAssumption
  <2>2. \/ ask[1] \in {"register", "find_key"} /\ ask[2] \in Keys
        \/ ask[1] = "find_cert" /\ ask[2] \in CertIds
    <3>1. ask \in {"register", "find_key"} \X Keys \/ ask \in {"find_cert"} \X CertIds
      BY <2>1
    <3> QED BY <3>1
  <2> QED BY <2>2, ConstantAssumption DEF Kinds
<1>1. Enter(k, kind, arg)
  BY <1>0
<1> DEFINE id == nextId[cl] + 1
           on == IF Live(cl) THEN life[cl] ELSE 0
           new == [pc |-> "entered", kind |-> kind, arg |-> arg, id |-> id, on |-> on, known |-> Registered]
<1>2. /\ call[k].pc = "idle"
      /\ nextId' = [nextId EXCEPT ![cl] = id]
      /\ pending' = [pending EXCEPT ![cl] = [pending[cl] EXCEPT ![kind] = emplace(pending[cl][kind], id, k)]]
      /\ call' = [call EXCEPT ![k] = new]
      /\ UNCHANGED <<st, life, taken, answer, waiter, resuming, req, resp, cut, session, work,
                     cache, db, faults>>
  BY <1>0, <1>1 DEF Enter, client, link, server
<1>3. ~Made(k) /\ answer[k] = None
  BY <1>2 DEF Inv, CallsMade, Made
<1>4. Registered \subseteq db /\ db \subseteq Keys
  BY DEF Registered, Inv, OkIsStored, TypeOK
<1>5. nextId[cl] \in Nat /\ life[cl] \in 1..MaxLives /\ id \in Nat /\ id > nextId[cl]
  BY DEF Inv, TypeOK
<1>6. on \in 0..MaxLives /\ on <= life[cl] /\ (st[cl] \in {"failing", "ended"} => on # life[cl])
  BY <1>5, ConstantAssumption DEF Live
<1> HIDE DEF id, on
<1>7. new \in CallStates
  BY <1>4, <1>5, <1>6 DEF CallStates
<1>8. /\ call' \in [Calls -> CallStates] /\ call'[k] = new
      /\ \A j \in Calls : j # k => call'[j] = call[j]
  <2> HIDE DEF new
  <2> QED BY <1>2, <1>7 DEF Inv, TypeOK
<1>9. /\ call'[k].pc = "entered" /\ call'[k].kind = kind /\ call'[k].arg = arg /\ call'[k].id = id
      /\ call'[k].on = on /\ call'[k].known = Registered
  BY <1>8
<1> HIDE DEF new
<1>10. /\ nextId' \in [Clients -> Nat] /\ \A c \in Clients : nextId[c] <= nextId'[c] /\ nextId[c] \in Nat
       /\ nextId'[cl] = id
  BY <1>2, <1>5 DEF Inv, TypeOK
<1>11. id \notin DOMAIN pending[cl][kind]
  <2> SUFFICES ASSUME id \in DOMAIN pending[cl][kind] PROVE FALSE
    OBVIOUS
  <2> DEFINE j == pending[cl][kind][id]
  <2>1. j \in Calls /\ Made(j) /\ ClientOf[j] = cl /\ call[j].id = id
    BY DEF Inv, PendingOwned, TypeOK
  <2>2. id \in 1..nextId[cl]
    BY <2>1 DEF Inv, CallsMade
  <2> QED BY <2>2, <1>5
<1>12. /\ DOMAIN pending' = Clients
       /\ \A c \in Clients : DOMAIN pending'[c] = Kinds
       /\ \A c \in Clients : \A q \in Kinds : c # cl \/ q # kind => pending'[c][q] = pending[c][q]
       /\ pending'[cl][kind] = emplace(pending[cl][kind], id, k)
  <2> DEFINE e == emplace(pending[cl][kind], id, k)
  <2>1. pending' = [pending EXCEPT ![cl] = [pending[cl] EXCEPT ![kind] = e]]
    BY <1>2
  <2> HIDE DEF e
  <2>2. /\ DOMAIN pending' = Clients
        /\ \A c \in Clients : DOMAIN pending'[c] = Kinds
        /\ \A c \in Clients : \A q \in Kinds : c # cl \/ q # kind => pending'[c][q] = pending[c][q]
        /\ pending'[cl][kind] = e
    BY <2>1 DEF Inv, TypeOK
  <2> QED BY <2>2 DEF e
<1>13. \A c \in Clients : \A q \in Kinds : \A i \in DOMAIN pending'[c][q] :
          \/ i \in DOMAIN pending[c][q] /\ pending'[c][q][i] = pending[c][q][i]
          \/ c = cl /\ q = kind /\ i = id /\ pending'[c][q][i] = k
  BY <1>12 DEF emplace
<1>14. id \in DOMAIN pending'[cl][kind] /\ pending'[cl][kind][id] = k
       /\ \A i \in DOMAIN pending[cl][kind] :
             i \in DOMAIN pending'[cl][kind] /\ pending'[cl][kind][i] = pending[cl][kind][i]
  BY <1>11, <1>12 DEF emplace
<1>15. \A j \in Calls : Made(j)' <=> Made(j) \/ j = k
  BY <1>3, <1>8, <1>9 DEF Made
<1>16. Grows
  <2> SUFFICES ASSUME NEW j \in Calls, Made(j) PROVE Made(j)' /\ call'[j] = call[j]
    BY <1>2 DEF Grows
  <2> QED BY <1>3, <1>8, <1>15
<1>17. \A c \in Clients : \A q \in Kinds : \A i \in DOMAIN pending[c][q] :
          /\ pending[c][q][i] \in Calls /\ Made(pending[c][q][i])
          /\ call'[pending[c][q][i]] = call[pending[c][q][i]]
  BY <1>3, <1>8 DEF Inv, TypeOK, PendingOwned
<1>18. TypeOK'
  <2>1. \A c \in Clients : \A q \in Kinds : \A i \in DOMAIN pending'[c][q] : pending'[c][q][i] \in Calls
    BY <1>13, <1>17
  <2> QED BY <1>2, <1>8, <1>10, <1>12, <2>1 DEF Inv, TypeOK
<1>19. CallsMade'
  <2> SUFFICES ASSUME NEW j \in Calls
               PROVE  IF Made(j)'
                      THEN /\ call'[j].id \in 1..nextId'[ClientOf[j]]
                           /\ call'[j].on <= life[ClientOf[j]]
                           /\ call'[j].known \subseteq db
                           /\ call'[j].kind \in Kinds
                           /\ call'[j].arg \in IF call'[j].kind = "find_cert" THEN CertIds ELSE Keys
                      ELSE answer[j] = None /\ call'[j].on = 0
    BY <1>2 DEF CallsMade
  <2>1. CASE j = k
    <3>1. id \in 1..nextId'[cl]
      BY <1>5, <1>10
    <3> QED BY <2>1, <3>1, <1>0, <1>4, <1>6, <1>9, <1>15
  <2>2. CASE j # k /\ Made(j)
    <3>1. call'[j] = call[j] /\ Made(j)' /\ ClientOf[j] \in Clients
      BY <2>2, <1>8, <1>15, ConstantAssumption
    <3>2. call[j].id \in 1..nextId[ClientOf[j]]
      BY <2>2 DEF Inv, CallsMade
    <3>3. call[j].id \in 1..nextId'[ClientOf[j]]
      <4>1. nextId[ClientOf[j]] <= nextId'[ClientOf[j]] /\ nextId[ClientOf[j]] \in Nat
            /\ nextId'[ClientOf[j]] \in Nat
        BY <3>1, <1>10
      <4> QED BY <3>2, <4>1
    <3> QED BY <2>2, <3>1, <3>3 DEF Inv, CallsMade
  <2>3. CASE j # k /\ ~Made(j)
    <3>1. call'[j] = call[j] /\ ~Made(j)'
      BY <2>3, <1>8, <1>15
    <3> QED BY <2>3, <3>1 DEF Inv, CallsMade
  <2> QED BY <2>1, <2>2, <2>3
<1>20. IdsUnique'
  <2>1. \A j \in Calls : Made(j) /\ ClientOf[j] = cl => call[j].id # id
    BY <1>5 DEF Inv, CallsMade
  <2> QED BY <2>1, <1>0, <1>8, <1>9, <1>15 DEF Inv, IdsUnique
<1>21. PendingOwned'
  <2>1. ASSUME NEW c \in Clients, NEW q \in Kinds, NEW i \in DOMAIN pending'[c][q], NEW j,
               j = pending'[c][q][i]
        PROVE  Made(j)' /\ ClientOf[j] = c /\ call'[j].kind = q /\ call'[j].id = i
    <3>1. CASE i \in DOMAIN pending[c][q] /\ j = pending[c][q][i]
      <4>1. Made(j) /\ ClientOf[j] = c /\ call[j].kind = q /\ call[j].id = i
        BY <3>1 DEF Inv, PendingOwned
      <4>2. j \in Calls /\ call'[j] = call[j]
        BY <3>1, <1>17
      <4> QED BY <4>1, <4>2, <1>15
    <3>2. CASE c = cl /\ q = kind /\ i = id /\ j = k
      BY <3>2, <1>0, <1>9, <1>15
    <3> QED BY <2>1, <3>1, <3>2, <1>13
  <2>2. ASSUME NEW c \in Clients, NEW j \in taken'[c].calls PROVE Made(j)' /\ ClientOf[j] = c
    <3>1. j \in taken[c].calls /\ taken[c] \in [maps : 0..3, calls : SUBSET Calls]
      BY <2>2, <1>2 DEF Inv, TypeOK
    <3>2. j \in Calls /\ Made(j) /\ ClientOf[j] = c
      BY <3>1 DEF Inv, PendingOwned
    <3> QED BY <3>2, <1>15
  <2>3. ASSUME NEW j \in Calls, Made(j)', answer'[j] = None
        PROVE  Waits(j)' \/ j \in taken'[ClientOf[j]].calls
    <3>1. CASE j = k
      BY <3>1, <1>0, <1>9, <1>14 DEF Waits
    <3>2. CASE j # k
      <4>1. Made(j) /\ answer[j] = None /\ call'[j] = call[j] /\ ClientOf[j] \in Clients
        BY <3>2, <2>3, <1>2, <1>8, <1>15, ConstantAssumption
      <4>2. call[j].kind \in Kinds
        BY <4>1 DEF Inv, CallsMade
      <4>3. CASE j \in taken[ClientOf[j]].calls
        BY <4>3, <1>2
      <4>4. CASE Waits(j)
        <5>1. call[j].id \in DOMAIN pending'[ClientOf[j]][call[j].kind]
              /\ pending'[ClientOf[j]][call[j].kind][call[j].id] = j
          BY <4>1, <4>2, <4>4, <1>12, <1>14 DEF Waits
        <5> QED BY <5>1, <4>1 DEF Waits
      <4> QED BY <4>1, <4>3, <4>4 DEF Inv, PendingOwned
    <3> QED BY <3>1, <3>2
  <2> QED BY <2>1, <2>2, <2>3 DEF PendingOwned
<1>22. TakenMaps'
  <2> SUFFICES ASSUME NEW c \in Clients
               PROVE  /\ st[c] # "failing" => taken[c].maps = 0 /\ taken[c].calls = {}
                      /\ \A n \in 1..taken[c].maps : \A i \in DOMAIN pending'[c][FailOrder[n]] :
                            call'[pending'[c][FailOrder[n]][i]].on # life[c]
    <3>1. UNCHANGED <<st, taken, life>>
      BY <1>2
    <3> QED BY <3>1 DEF TakenMaps
  <2>1. /\ st[c] # "failing" => taken[c].maps = 0 /\ taken[c].calls = {}
        /\ \A n \in 1..taken[c].maps : \A i \in DOMAIN pending[c][FailOrder[n]] :
              call[pending[c][FailOrder[n]][i]].on # life[c]
    BY DEF Inv, TakenMaps
  <2>2. ASSUME NEW n \in 1..taken[c].maps, NEW i \in DOMAIN pending'[c][FailOrder[n]]
        PROVE  call'[pending'[c][FailOrder[n]][i]].on # life[c]
    <3>1. FailOrder[n] \in Kinds /\ st[c] = "failing"
      <4>1. taken[c] \in [maps : 0..3, calls : SUBSET Calls]
        BY DEF Inv, TypeOK
      <4>2. taken[c].maps \in 0..3
        BY <4>1
      <4> QED BY <2>1, <2>2, <4>2, OrderIn
    <3>2. CASE i \in DOMAIN pending[c][FailOrder[n]]
               /\ pending'[c][FailOrder[n]][i] = pending[c][FailOrder[n]][i]
      BY <3>1, <3>2, <2>1, <1>17
    <3>3. CASE c = cl /\ pending'[c][FailOrder[n]][i] = k
      BY <3>1, <3>3, <1>6, <1>9
    <3> QED BY <3>1, <3>2, <3>3, <1>13
  <2> QED BY <2>1, <2>2
<1>23. Wires'
  BY <1>2, <1>16, WiresFrame
<1>24. Working'
  BY <1>2, <1>16, WorkingFrame
<1>25. OkIsStored' /\ AnswersMatch' /\ RegisteredIsKnown' /\ NoLostResume'
  BY <1>2, <1>3, <1>8 DEF Inv, OkIsStored, AnswersMatch, RegisteredIsKnown, NoLostResume
<1>26. PendingFails'
  BY <1>0, <1>2, <1>6, <1>8, <1>9 DEF Inv, PendingFails
<1> QED BY <1>18, <1>19, <1>20, <1>21, <1>22, <1>23, <1>24, <1>25, <1>26 DEF Inv

\* The request of a call that was entered goes to the server, or nowhere.
LEMMA SendRequestStep ==
    ASSUME Inv, NEW k \in Calls, send_request(k)
    PROVE  Inv'
<1>0. PICK cl \in Clients, s \in Links : cl = ClientOf[k] /\ s = Link(cl) /\ s[1] = cl
  BY LinkOf, ConstantAssumption
<1>1. /\ call[k].pc = "entered" /\ call' = [call EXCEPT ![k] = [call[k] EXCEPT !.pc = "sent"]]
      /\ req' = req \/ req' = [req EXCEPT ![s] = Append(req[s], Request(k))]
      /\ UNCHANGED <<st, life, nextId, pending, taken, answer, waiter, resuming, resp, cut, session, work,
                     cache, db, faults>>
  BY <1>0 DEF send_request, client, table, server
<1>2. /\ call' \in [Calls -> CallStates]
      /\ \A j \in Calls : /\ Made(j)' <=> Made(j)
                          /\ call'[j].id = call[j].id /\ call'[j].kind = call[j].kind
                          /\ call'[j].arg = call[j].arg /\ call'[j].known = call[j].known
                          /\ call'[j].on = call[j].on
  <2>1. call \in [Calls -> CallStates]
    BY DEF Inv, TypeOK
  <2> QED BY <1>1, <2>1 DEF Made, CallStates
<1>3. Grows
  BY <1>1, <1>2 DEF Grows
<1>4. Request(k) \in Requests /\ Request(k) \in RequestsOf(cl)
  <2>1. Made(k)
    BY <1>1 DEF Made
  <2>2. call[k].id \in Nat /\ call[k].kind \in Kinds /\ call[k].arg \in Keys \cup CertIds
    BY <2>1 DEF Inv, CallsMade, TypeOK, CallStates
  <2> QED BY <1>0, <2>1, <2>2 DEF Request, Requests, RequestsOf
<1>5. req \in [Links -> Seq(Requests)] /\ req[s] \in Seq(RequestsOf(cl))
  BY <1>0 DEF Inv, TypeOK, Wires
<1> DEFINE longer == Append(req[s], Request(k))
<1>6. /\ longer \in Seq(Requests) /\ longer \in Seq(RequestsOf(cl))
      /\ req[s] # <<>> => longer # <<>> /\ Head(longer) = Head(req[s])
  BY <1>4, <1>5, OneMore
<1> HIDE DEF longer
<1>7. /\ req' \in [Links -> Seq(Requests)]
      /\ \A l \in Links : req'[l] = req[l] \/ (l = s /\ req'[l] = longer)
  <2>1. CASE req' = req
    BY <2>1, <1>5
  <2>2. CASE req' = [req EXCEPT ![s] = longer]
    <3>1. req' \in [Links -> Seq(Requests)]
      BY <2>2, <1>5, <1>6, ExceptIn
    <3>2. \A l \in Links : req'[l] = IF l = s THEN longer ELSE req[l]
      BY <2>2, <1>5, Zenon
    <3> QED BY <3>1, <3>2
  <2> QED BY <1>1, <2>1, <2>2 DEF longer
<1>8. TypeOK'
  BY <1>1, <1>2, <1>7 DEF Inv, TypeOK
<1>9. CallsMade' /\ IdsUnique'
  <2>1. CallsMade'
    BY <1>1, <1>2 DEF Inv, CallsMade
  <2>2. IdsUnique'
    BY <1>2 DEF Inv, IdsUnique
  <2> QED BY <2>1, <2>2
<1>10. PendingOwned'
  <2>1. \A c \in Clients : \A q \in Kinds : \A i \in DOMAIN pending[c][q] :
           LET j == pending[c][q][i]
           IN  j \in Calls /\ Made(j) /\ ClientOf[j] = c /\ call[j].kind = q /\ call[j].id = i
    BY DEF Inv, PendingOwned, TypeOK
  <2>2. ASSUME NEW c \in Clients, NEW j \in taken[c].calls PROVE j \in Calls /\ Made(j) /\ ClientOf[j] = c
    <3>1. taken[c] \in [maps : 0..3, calls : SUBSET Calls]
      BY DEF Inv, TypeOK
    <3>2. taken[c].calls \subseteq Calls
      BY <3>1
    <3> QED BY <3>2 DEF Inv, PendingOwned
  <2>3. ASSUME NEW j \in Calls, Made(j)', answer[j] = None
        PROVE  Waits(j)' \/ j \in taken[ClientOf[j]].calls
    <3>1. Waits(j) \/ j \in taken[ClientOf[j]].calls
      BY <2>3, <1>2 DEF Inv, PendingOwned
    <3>2. Waits(j)' <=> Waits(j)
      BY <1>1, <1>2 DEF Waits
    <3> QED BY <3>1, <3>2
  <2> QED BY <1>1, <1>2, <2>1, <2>2, <2>3 DEF PendingOwned
<1>11. TakenMaps'
  <2>1. ASSUME NEW c \in Clients, NEW n \in 1..taken[c].maps, NEW i \in DOMAIN pending[c][FailOrder[n]]
        PROVE  call'[pending[c][FailOrder[n]][i]].on # life[c]
    <3>1. taken[c] \in [maps : 0..3, calls : SUBSET Calls]
      BY DEF Inv, TypeOK
    <3>2. taken[c].maps \in 0..3
      BY <3>1
    <3>3. FailOrder[n] \in Kinds
      BY <3>2, OrderIn
    <3>4. pending[c][FailOrder[n]][i] \in Calls
      BY <3>3 DEF Inv, TypeOK
    <3>5. call[pending[c][FailOrder[n]][i]].on # life[c]
      BY DEF Inv, TakenMaps
    <3> QED BY <3>4, <3>5, <1>2
  <2> QED BY <1>1, <2>1 DEF Inv, TakenMaps
<1>12. Wires'
  BY <1>0, <1>1, <1>3, <1>6, <1>7, WiresFrame
<1>13. Working'
  BY <1>1, <1>3, <1>6, <1>7, WorkingFrame
<1>14. OkIsStored' /\ AnswersMatch' /\ RegisteredIsKnown' /\ NoLostResume' /\ PendingFails'
  BY <1>1, <1>2 DEF Inv, OkIsStored, AnswersMatch, RegisteredIsKnown, NoLostResume, PendingFails
<1> QED BY <1>8, <1>9, <1>10, <1>11, <1>12, <1>13, <1>14 DEF Inv

-----------------------------------------------------------------------------
(* The answers.                                                            *)

\* promise_base::complete: the first answer stays, and whoever waits for it is resumed.
LEMMA Completing ==
    ASSUME Inv, NEW ks \in SUBSET Calls, NEW a \in Answers, complete(ks, a), UNCHANGED waiter
    PROVE  /\ answer' \in [Calls -> Answers \cup {None}] /\ resuming' \subseteq Calls /\ a # None
           /\ \A k \in Calls : answer'[k] = IF k \in ks /\ answer[k] = None THEN a ELSE answer[k]
           /\ NoLostResume'
<1>1. a # None
  BY DistinctAssumption
<1>2. \A k \in Calls : answer'[k] = IF k \in ks /\ answer[k] = None THEN a ELSE answer[k]
  BY DEF complete
<1>3. answer' \in [Calls -> Answers \cup {None}] /\ resuming' \subseteq Calls
  BY DEF complete, Inv, TypeOK
<1>4. NoLostResume'
  <2>1. resuming' = resuming \cup {k \in ks : answer[k] = None /\ waiter[k] = "suspended"}
    BY DEF complete
  <2> QED BY <1>2, <2>1 DEF Inv, NoLostResume
<1> QED BY <1>1, <1>2, <1>3, <1>4

\* A response completes the call it is the answer to: its id is that call's alone.
LEMMA ReceivedStep ==
    ASSUME Inv, NEW cl \in Clients, on_received(cl)
    PROVE  Inv'
<1>0. PICK s \in Links : s = Link(cl) /\ s[1] = cl
  BY LinkOf
<1>1. PICK r : r = Head(resp[s])
  OBVIOUS
<1> DEFINE m == pending[cl][r.kind]
           ks == Found(m, r.id)
           a == [result |-> r.result, of |-> r.of]
<1>2. /\ resp[s] # <<>> /\ resp' = [resp EXCEPT ![s] = Tail(resp[s])]
      /\ pending' = [pending EXCEPT ![cl] = [pending[cl] EXCEPT ![r.kind] = Without(m, r.id)]]
      /\ complete(ks, a)
      /\ UNCHANGED <<st, life, nextId, taken, call, waiter, req, cut, session, work, cache, db, faults>>
  BY <1>0, <1>1 DEF on_received, take, client, server
<1>3. resp[s] \in Seq(ResponsesTo(cl)) /\ resp \in [Links -> Seq(Responses)]
  BY <1>0 DEF Inv, Wires, TypeOK
<1>4. r \in ResponsesTo(cl) /\ Tail(resp[s]) \in Seq(ResponsesTo(cl)) /\ Tail(resp[s]) \in Seq(Responses)
  BY <1>1, <1>2, <1>3, HeadTail
<1>5. /\ r.of \in Calls /\ r.kind \in Kinds /\ r.result \in Results /\ Made(r.of) /\ ClientOf[r.of] = cl
      /\ r.id = call[r.of].id /\ r.kind = call[r.of].kind
      /\ r.result \in {"absent", "ok"} => call[r.of].arg \notin call[r.of].known
      /\ r.result = "ok" => call[r.of].arg \in db
  BY <1>4 DEF ResponsesTo, Responses
<1>6. a \in Answers /\ a.result = r.result /\ a.of = r.of
  BY <1>5 DEF Answers
<1>7. ks \subseteq {r.of} /\ (r.id \in DOMAIN m => r.of \in ks)
  <2>1. ASSUME r.id \in DOMAIN m PROVE m[r.id] = r.of
    <3>1. m[r.id] \in Calls
      BY <2>1, <1>5 DEF Inv, TypeOK
    <3>2. \A q \in Kinds : \A i \in DOMAIN pending[cl][q] :
             Made(pending[cl][q][i]) /\ ClientOf[pending[cl][q][i]] = cl /\ call[pending[cl][q][i]].id = i
      BY DEF Inv, PendingOwned
    <3>3. Made(m[r.id]) /\ ClientOf[m[r.id]] = cl /\ call[m[r.id]].id = r.id
      <4> HIDE DEF Made
      <4> QED BY <2>1, <3>2, <1>5, Zenon
    <3> QED BY <3>1, <3>3, <1>5 DEF Inv, IdsUnique
  <2> QED BY <2>1 DEF Found
<1> HIDE DEF ks, a
<1>8. /\ answer' \in [Calls -> Answers \cup {None}] /\ resuming' \subseteq Calls /\ a # None
      /\ \A k \in Calls : answer'[k] = IF k \in ks /\ answer[k] = None THEN a ELSE answer[k]
      /\ NoLostResume'
  <2>1. ks \in SUBSET Calls /\ UNCHANGED waiter /\ complete(ks, a)
    BY <1>2, <1>5, <1>7
  <2> QED BY <2>1, <1>6, Completing
<1>9. \A k \in Calls : answer'[k] = answer[k] \/ (k = r.of /\ answer'[k] = a)
  BY <1>7, <1>8
<1>10. /\ DOMAIN pending' = Clients
       /\ \A c \in Clients : DOMAIN pending'[c] = Kinds
       /\ \A c \in Clients : \A q \in Kinds : c # cl \/ q # r.kind => pending'[c][q] = pending[c][q]
       /\ pending'[cl][r.kind] = Without(m, r.id)
  <2> DEFINE w == Without(m, r.id)
  <2>1. pending' = [pending EXCEPT ![cl] = [pending[cl] EXCEPT ![r.kind] = w]]
    BY <1>2
  <2> HIDE DEF w
  <2>2. /\ DOMAIN pending' = Clients
        /\ \A c \in Clients : DOMAIN pending'[c] = Kinds
        /\ \A c \in Clients : \A q \in Kinds : c # cl \/ q # r.kind => pending'[c][q] = pending[c][q]
        /\ pending'[cl][r.kind] = w
    BY <2>1, <1>5 DEF Inv, TypeOK
  <2> QED BY <2>2 DEF w
<1>11. \A c \in Clients : \A q \in Kinds :
          /\ \A i \in DOMAIN pending'[c][q] : i \in DOMAIN pending[c][q] /\ pending'[c][q][i] = pending[c][q][i]
          /\ \A i \in DOMAIN pending[c][q] :
                \/ i \in DOMAIN pending'[c][q] /\ pending'[c][q][i] = pending[c][q][i]
                \/ c = cl /\ q = r.kind /\ i = r.id
  BY <1>10 DEF Without
<1>12. Grows
  BY <1>2 DEF Grows, Made
<1>13. resp' \in [Links -> Seq(Responses)] /\ resp'[s] = Tail(resp[s]) /\ \A l \in Links : l # s => resp'[l] = resp[l]
  BY <1>2, <1>3, <1>4
<1>14. TypeOK'
  BY <1>2, <1>8, <1>10, <1>11, <1>13 DEF Inv, TypeOK
<1>15. CallsMade' /\ IdsUnique'
  <2>1. \A k \in Calls : ~Made(k) => answer'[k] = answer[k]
    BY <1>5, <1>9
  <2> QED BY <1>2, <2>1 DEF Inv, CallsMade, IdsUnique, Made
<1>16. PendingOwned'
  <2>1. ASSUME NEW c \in Clients, NEW q \in Kinds, NEW i \in DOMAIN pending'[c][q], NEW k,
               k = pending'[c][q][i]
        PROVE  Made(k)' /\ ClientOf[k] = c /\ call'[k].kind = q /\ call'[k].id = i
    <3>1. i \in DOMAIN pending[c][q] /\ k = pending[c][q][i]
      BY <2>1, <1>11
    <3>2. Made(k) /\ ClientOf[k] = c /\ call[k].kind = q /\ call[k].id = i
      BY <3>1 DEF Inv, PendingOwned
    <3> QED BY <3>2, <1>2 DEF Made
  <2>2. \A c \in Clients : \A k \in taken'[c].calls : Made(k)' /\ ClientOf[k] = c
    BY <1>2 DEF Inv, PendingOwned, Made
  <2>3. ASSUME NEW k \in Calls, Made(k)', answer'[k] = None
        PROVE  Waits(k)' \/ k \in taken'[ClientOf[k]].calls
    <3>1. Made(k) /\ answer[k] = None /\ k \notin ks /\ ClientOf[k] \in Clients
      BY <2>3, <1>2, <1>8, ConstantAssumption DEF Made
    <3>2. call[k].kind \in Kinds
      BY <3>1 DEF Inv, CallsMade
    <3>3. CASE Waits(k)
      <4>1. call[k].id \in DOMAIN pending[ClientOf[k]][call[k].kind]
            /\ pending[ClientOf[k]][call[k].kind][call[k].id] = k
        BY <3>3 DEF Waits
      <4>2. ~(ClientOf[k] = cl /\ call[k].kind = r.kind /\ call[k].id = r.id)
        BY <3>1, <4>1, <1>5, <1>7 DEF Inv, IdsUnique
      <4>3. call[k].id \in DOMAIN pending'[ClientOf[k]][call[k].kind]
            /\ pending'[ClientOf[k]][call[k].kind][call[k].id] = k
        BY <3>1, <3>2, <4>1, <4>2, <1>11
      <4> QED BY <4>3, <1>2 DEF Waits
    <3> QED BY <3>1, <3>3, <1>2 DEF Inv, PendingOwned
  <2> QED BY <2>1, <2>2, <2>3 DEF PendingOwned
<1>17. TakenMaps'
  <2>0. UNCHANGED <<st, life, taken, call>>
    BY <1>2
  <2> SUFFICES ASSUME NEW c \in Clients
               PROVE  /\ st[c] # "failing" => taken[c].maps = 0 /\ taken[c].calls = {}
                      /\ \A n \in 1..taken[c].maps : \A i \in DOMAIN pending'[c][FailOrder[n]] :
                            call[pending'[c][FailOrder[n]][i]].on # life[c]
    BY <2>0 DEF TakenMaps
  <2>1. /\ st[c] # "failing" => taken[c].maps = 0 /\ taken[c].calls = {}
        /\ \A n \in 1..taken[c].maps : \A i \in DOMAIN pending[c][FailOrder[n]] :
              call[pending[c][FailOrder[n]][i]].on # life[c]
    BY DEF Inv, TakenMaps
  <2>2. taken[c] \in [maps : 0..3, calls : SUBSET Calls]
    BY DEF Inv, TypeOK
  <2>3. taken[c].maps \in 0..3
    BY <2>2
  <2>4. \A n \in 1..taken[c].maps : FailOrder[n] \in Kinds
    BY <2>3, OrderIn
  <2> QED BY <2>1, <2>4, <1>11
<1>18. Wires'
  <2>1. ASSUME NEW l \in Links, NEW c \in Clients, l[1] = c
        PROVE  req'[l] = req[l] /\ (resp'[l] = resp[l] \/ resp'[l] \in Seq(ResponsesTo(c)))
    <3>1. CASE l = s
      BY <3>1, <2>1, <1>0, <1>2, <1>4, <1>13
    <3>2. CASE l # s
      BY <3>2, <1>2, <1>13
    <3> QED BY <3>1, <3>2
  <2> QED BY <2>1, <1>12, WiresFrame
<1>19. Working'
  BY <1>2, <1>12, WorkingFrame
<1>20. OkIsStored' /\ AnswersMatch' /\ RegisteredIsKnown'
  BY <1>2, <1>5, <1>6, <1>9 DEF Inv, OkIsStored, AnswersMatch, RegisteredIsKnown
<1>21. PendingFails'
  BY <1>2, <1>8, <1>9 DEF Inv, PendingFails
<1> QED BY <1>8, <1>14, <1>15, <1>16, <1>17, <1>18, <1>19, <1>20, <1>21 DEF Inv

\* The end of fail_all: every call that was entered on the connection has an answer now.
LEMMA FailTakenStep ==
    ASSUME Inv, NEW cl \in Clients, FailTaken(cl)
    PROVE  Inv'
<1> DEFINE ks == taken[cl].calls
           a == [result |-> "failed", of |-> None]
           none == [maps |-> 0, calls |-> {}]
<1>1. /\ st[cl] = "failing" /\ taken[cl].maps = 3 /\ complete(ks, a)
      /\ taken' = [taken EXCEPT ![cl] = none] /\ st' = [st EXCEPT ![cl] = "ended"]
      /\ UNCHANGED <<life, nextId, pending, call, waiter, req, resp, cut, session, work, cache, db, faults>>
  BY Order DEF FailTaken, link, server
<1>2. taken \in [Clients -> [maps : 0..3, calls : SUBSET Calls]]
  BY DEF Inv, TypeOK
<1>3. ks \in SUBSET Calls /\ a \in Answers /\ a.result = "failed" /\ a.of = None
  BY <1>2 DEF Answers, Results
<1> HIDE DEF a
<1>4. /\ answer' \in [Calls -> Answers \cup {None}] /\ resuming' \subseteq Calls /\ a # None
      /\ \A k \in Calls : answer'[k] = IF k \in ks /\ answer[k] = None THEN a ELSE answer[k]
      /\ NoLostResume'
  <2>1. UNCHANGED waiter /\ complete(ks, a)
    BY <1>1
  <2> QED BY <2>1, <1>3, Completing
<1>5. none \in [maps : 0..3, calls : SUBSET Calls] /\ none.maps = 0 /\ none.calls = {}
  OBVIOUS
<1> HIDE DEF none
<1>6. /\ taken' \in [Clients -> [maps : 0..3, calls : SUBSET Calls]] /\ taken'[cl] = none
      /\ \A c \in Clients : c # cl => taken'[c] = taken[c]
  BY <1>1, <1>2, <1>5
<1>7. /\ st' \in [Clients -> {"fresh", "connecting", "connected", "failing", "ended", "closed"}]
      /\ \A c \in Clients : st'[c] = IF c = cl THEN "ended" ELSE st[c]
  BY <1>1 DEF Inv, TypeOK
<1>8. Grows
  BY <1>1 DEF Grows, Made
<1>9. TypeOK'
  BY <1>1, <1>4, <1>6, <1>7 DEF Inv, TypeOK
<1>10. CallsMade' /\ IdsUnique'
  <2>1. \A k \in Calls : ~Made(k) => answer'[k] = answer[k]
    BY <1>4 DEF Inv, PendingOwned
  <2> QED BY <1>1, <2>1 DEF Inv, CallsMade, IdsUnique, Made
<1>11. PendingOwned'
  <2>1. \A c \in Clients : \A k \in taken'[c].calls : Made(k) /\ ClientOf[k] = c
    BY <1>5, <1>6 DEF Inv, PendingOwned
  <2>2. ASSUME NEW k \in Calls, Made(k), answer'[k] = None
        PROVE  Waits(k) \/ k \in taken'[ClientOf[k]].calls
    <3>1. answer[k] = None /\ k \notin taken[cl].calls /\ ClientOf[k] \in Clients
      BY <2>2, <1>4, ConstantAssumption
    <3> QED BY <2>2, <3>1, <1>6 DEF Inv, PendingOwned
  <2>3. UNCHANGED <<pending, call>>
    BY <1>1
  <2> QED BY <2>1, <2>2, <2>3 DEF Inv, PendingOwned, Made, Waits
<1>12. TakenMaps'
  <2>0. UNCHANGED <<life, pending, call>>
    BY <1>1
  <2> SUFFICES ASSUME NEW c \in Clients
               PROVE  /\ st'[c] # "failing" => taken'[c].maps = 0 /\ taken'[c].calls = {}
                      /\ \A n \in 1..taken'[c].maps : \A i \in DOMAIN pending[c][FailOrder[n]] :
                            call[pending[c][FailOrder[n]][i]].on # life[c]
    BY <2>0 DEF TakenMaps
  <2>1. CASE c = cl
    BY <2>1, <1>5, <1>6
  <2>2. CASE c # cl
    <3>1. taken'[c] = taken[c] /\ st'[c] = st[c]
      BY <2>2, <1>6, <1>7
    <3> QED BY <3>1 DEF Inv, TakenMaps
  <2> QED BY <2>1, <2>2
<1>13. Wires'
  BY <1>1, <1>8, WiresFrame
<1>14. Working'
  BY <1>1, <1>8, WorkingFrame
<1>15. OkIsStored' /\ AnswersMatch' /\ RegisteredIsKnown'
  BY <1>1, <1>3, <1>4 DEF Inv, OkIsStored, AnswersMatch, RegisteredIsKnown
<1>16. PendingFails'
  <2> SUFFICES ASSUME NEW c \in Clients, NEW k \in Calls, st'[c] = "ended", ClientOf[k] = c, answer'[k] = None
               PROVE  call[k].on # life[c]
    BY <1>1 DEF PendingFails
  <2>1. answer[k] = None
    BY <1>4
  <2>2. CASE c # cl
    BY <2>1, <2>2, <1>7 DEF Inv, PendingFails
  <2>3. CASE c = cl /\ ~Made(k)
    <3>1. call[k].on = 0 /\ life[c] \in 1..MaxLives
      BY <2>3 DEF Inv, CallsMade, TypeOK
    <3> QED BY <3>1
  <2>4. CASE c = cl /\ Made(k)
    <3>1. k \notin taken[cl].calls
      BY <2>1, <1>4
    <3>2. Waits(k) /\ call[k].kind \in Kinds
      BY <2>1, <2>4, <3>1 DEF Inv, PendingOwned, CallsMade
    <3>3. PICK n \in 1..3 : FailOrder[n] = call[k].kind
      BY <3>2, Order
    <3>4. n \in 1..taken[cl].maps /\ call[k].id \in DOMAIN pending[cl][FailOrder[n]]
          /\ pending[cl][FailOrder[n]][call[k].id] = k
      BY <2>4, <3>2, <3>3, <1>1 DEF Waits
    <3> QED BY <2>4, <3>4 DEF Inv, TakenMaps
  <2> QED BY <2>2, <2>3, <2>4
<1> QED BY <1>4, <1>9, <1>10, <1>11, <1>12, <1>13, <1>14, <1>15, <1>16 DEF Inv

-----------------------------------------------------------------------------
(* The theorems.                                                           *)

LEMMA InitInv == Init => Inv
<1> SUFFICES ASSUME Init PROVE Inv
  OBVIOUS
<1> USE DEF Init
<1>1. TypeOK
  <2>1. <<>> \in Seq(Requests) /\ <<>> \in Seq(Responses)
    BY EmptySeq
  <2>2. req \in [Links -> Seq(Requests)] /\ resp \in [Links -> Seq(Responses)]
    BY <2>1
  <2>3. NotMade \in CallStates
    BY ConstantAssumption DEF NotMade, CallStates
  <2>4. call \in [Calls -> CallStates] /\ answer \in [Calls -> Answers \cup {None}]
    BY <2>3
  <2>5. /\ DOMAIN pending = Clients
        /\ \A cl \in Clients : DOMAIN pending[cl] = Kinds
        /\ \A cl \in Clients : \A kind \in Kinds : pending[cl][kind] = <<>>
    OBVIOUS
  <2>6. taken \in [Clients -> [maps : 0..3, calls : SUBSET Calls]] /\ life \in [Clients -> 1..MaxLives]
    BY ConstantAssumption
  <2> QED BY <2>2, <2>4, <2>5, <2>6, ConstantAssumption DEF TypeOK
<1>2. \A k \in Calls : ~Made(k) /\ call[k].on = 0 /\ answer[k] = None
  BY DEF Made, NotMade
<1>3. CallsMade /\ IdsUnique
  BY <1>2 DEF CallsMade, IdsUnique
<1>4. PendingOwned
  <2>1. \A cl \in Clients : \A kind \in Kinds : pending[cl][kind] = <<>>
    OBVIOUS
  <2>2. \A cl \in Clients : taken[cl].calls = {}
    OBVIOUS
  <2> QED BY <1>2, <2>1, <2>2 DEF PendingOwned
<1>5. TakenMaps
  <2>1. \A cl \in Clients : taken[cl].calls = {} /\ taken[cl].maps = 0
    OBVIOUS
  <2>2. \A cl \in Clients : \A n \in 1..taken[cl].maps : FALSE
    BY <2>1
  <2> HIDE DEF Init
  <2> QED BY <2>1, <2>2 DEF TakenMaps
<1>6. Wires
  <2>1. \A S : <<>> \in Seq(S)
    BY EmptySeq
  <2> QED BY <2>1 DEF Wires
<1>7. Working
  BY DEF Working
<1>8. OkIsStored /\ AnswersMatch /\ RegisteredIsKnown /\ NoLostResume /\ PendingFails
  BY <1>2 DEF OkIsStored, AnswersMatch, RegisteredIsKnown, NoLostResume, PendingFails
<1> QED BY <1>1, <1>3, <1>4, <1>5, <1>6, <1>7, <1>8 DEF Inv

LEMMA StepInv == Inv /\ [Next]_vars => Inv'
<1> SUFFICES ASSUME Inv, [Next]_vars PROVE Inv'
  OBVIOUS
<1>1. CASE UNCHANGED vars
  <2>1. UNCHANGED <<client, table, caller, req, resp, cut, session, work, cache, db, faults>>
    BY <1>1 DEF vars, link, server
  <2>2. Grows
    BY <2>1 DEF Grows, Made, caller
  <2>3. TypeOK'
    BY <2>1 DEF Inv, TypeOK, client, table, caller
  <2>4. Wires' /\ Working'
    BY <2>1, <2>2, WiresFrame, WorkingFrame
  <2> QED BY <2>1, <2>3, <2>4, ServerFrame
<1>2. ASSUME NEW k \in Calls,
             \/ \E ask \in Asks[k] : Enter(k, ask[1], ask[2])
             \/ send_request(k) \/ await_suspend(k) \/ Resume(k)
      PROVE  Inv'
  BY <1>2, EnterStep, SendRequestStep, AwaitStep
<1>3. ASSUME NEW cl \in Clients, connect(cl) \/ close(cl) \/ Attempt(cl) \/ Strand(cl)
      PROVE  Inv'
  BY <1>3, ConnectStep, LinkStep, TakeStep, ReceivedStep, FailTakenStep DEF Attempt, Strand
<1>4. ASSUME NEW s \in Links, Serve(s) \/ SessionEnds(s) \/ Cut(s)
      PROVE  Inv'
  BY <1>4, RegisterStep, InsertStep, FindStep, LossStep DEF Serve
<1>5. CASE Restart
  BY <1>5, LossStep
<1> QED BY <1>1, <1>2, <1>3, <1>4, <1>5 DEF Next

LEMMA AlwaysInv == Spec => []Inv
BY InitInv, StepInv, PTL DEF Spec

\* Whatever the callers, the strands and the sessions do in whatever order, the state of the key
\* client and the key server is well-formed.
THEOREM KeyServiceTypes == Spec => []TypeOK
<1>1. Inv => TypeOK
  BY DEF Inv
<1> QED BY <1>1, AlwaysInv, PTL

\* For any clients, calls, keys and faults: the answer of a call is the server's answer to that
\* call, it knows every key that was registered before the call began, whoever awaits it is
\* resumed, and no call of a connection is left without an answer when on_disconnected returns.
THEOREM CallersAreServed == Spec => []CallersServed
<1>1. Inv => CallersServed
  BY DEF Inv, CallersServed
<1> QED BY <1>1, AlwaysInv, PTL
=============================================================================
