----------------------------- MODULE KeyService -----------------------------
(***************************************************************************)
(* infrastructure: key clients and the key server.  The calls of a client  *)
(* are entered by any thread, answered or failed by the strand of its      *)
(* connection; the server runs one session per connection and keeps the    *)
(* keys in a cache in front of a database.  A connection is what           *)
(* EncryptedConnection promises: FIFO both ways until it is cut.           *)
(***************************************************************************)
EXTENDS Integers, Sequences

CONSTANTS
    Clients,
    Calls,          \* each is one call, made once
    ClientOf,       \* the client whose call it is
    Asks,           \* what a call may be, as <<kind, argument>>
    Awaited,        \* the calls whose future is awaited, the others' get() blocks
    Keys,           \* public keys, their ids with them
    BadKeys,        \* those that are not self-authentic
    CertIds,
    HeldCerts,      \* the certificates the server has
    None,
    MaxLives,       \* bound: connections of one client
    MaxFaults       \* bound: connections that break, restarts of the server and
                    \* failing statements of its database

\* What the server may say of a call, and what a call may end with.
Results == {"ok", "rejected", "failed", "absent"} \cup Keys \cup CertIds
Answers == [result : Results, of : Calls \cup {None}]

ASSUME ConstantAssumption ==
    /\ ClientOf \in [Calls -> Clients]
    /\ BadKeys \subseteq Keys /\ HeldCerts \subseteq CertIds
    /\ Asks \in [Calls -> SUBSET (({"register", "find_key"} \X Keys) \cup ({"find_cert"} \X CertIds))]
    /\ Awaited \subseteq Calls
    /\ MaxLives \in Nat \ {0} /\ MaxFaults \in Nat
\* None, the words of the server, keys and certificates are told apart.
ASSUME DistinctAssumption ==
    /\ None \notin Calls \cup Keys \cup CertIds \cup Answers
    /\ Keys \cap CertIds = {}
    /\ {"ok", "rejected", "failed", "absent"} \cap (Keys \cup CertIds) = {}

VARIABLES
    (* a client *)
    st,             \* where the life of its connection is
    life,           \* which of its impls it has
    nextId,         \* next_id_
    pending,        \* register_pending_, find_key_pending_, find_cert_pending_
    taken,          \* what fail_all has taken so far: how many maps, which calls
    (* a call *)
    call, answer, waiter,
    resuming,       \* calls whose continuation was taken and is not resumed
    (* a connection <<client, life>> *)
    req, resp, cut, session,
    work,           \* the key a session has looked up and is about to insert
    (* the server *)
    cache, db,
    faults

client == <<st, life>>
table == <<nextId, pending, taken>>
caller == <<call, answer, waiter, resuming>>
link == <<req, resp, cut, session, work>>
server == <<cache, db>>
vars == <<client, table, caller, link, server, faults>>

Links == Clients \X (1..MaxLives)
Link(cl) == <<cl, life[cl]>>

Kinds == {"register", "find_key", "find_cert"}

NotMade == [pc |-> "idle", kind |-> None, arg |-> None, id |-> 0, on |-> 0, known |-> {}]

Init ==
    /\ st = [cl \in Clients |-> "fresh"]
    /\ life = [cl \in Clients |-> 1]
    /\ nextId = [cl \in Clients |-> 0]
    /\ pending = [cl \in Clients |-> [kind \in Kinds |-> <<>>]]
    /\ taken = [cl \in Clients |-> [maps |-> 0, calls |-> {}]]
    /\ call = [k \in Calls |-> NotMade]
    /\ answer = [k \in Calls |-> None]
    /\ waiter = [k \in Calls |-> "none"]
    /\ resuming = {}
    /\ req = [s \in Links |-> <<>>] /\ resp = [s \in Links |-> <<>>]
    /\ cut = [s \in Links |-> FALSE]
    /\ session = [s \in Links |-> "none"]
    /\ work = [s \in Links |-> None]
    /\ cache = {} /\ db = {}
    /\ faults = 0

-----------------------------------------------------------------------------
(* The promise of a call.                                                  *)

\* promise_base::complete for the promises of ks: the first answer stays.  The
\* continuations that are taken with it are resumed when the mutex is released.
complete(ks, a) ==
    LET first == {k \in ks : answer[k] = None}
    IN  /\ answer' = [k \in Calls |-> IF k \in first THEN a ELSE answer[k]]
        /\ resuming' = resuming \cup {k \in first : waiter[k] = "suspended"}

await_suspend(k) ==
    /\ k \in Awaited /\ call[k].pc = "sent" /\ waiter[k] = "none"
    /\ waiter' = [waiter EXCEPT ![k] = IF answer[k] = None THEN "suspended" ELSE "resumed"]
    /\ UNCHANGED <<client, table, call, answer, resuming, link, server, faults>>

Resume(k) ==
    /\ k \in resuming
    /\ resuming' = resuming \ {k}
    /\ waiter' = [waiter EXCEPT ![k] = "resumed"]
    /\ UNCHANGED <<client, table, call, answer, link, server, faults>>

-----------------------------------------------------------------------------
(* The client: calls.                                                      *)

Live(cl) == st[cl] \in {"fresh", "connecting", "connected"}

\* The keys some call has registered, to the knowledge of its caller.
Registered ==
    {call[k].arg : k \in {j \in Calls : call[j].kind = "register" /\ answer[j] # None
                                        /\ answer[j].result = "ok"}}

emplace(m, id, k) == [i \in DOMAIN m \cup {id} |-> IF i \in DOMAIN m THEN m[i] ELSE k]

\* async_register_key, async_find_key, async_find_certificate under the mutex.
Enter(k, kind, arg) ==
    LET cl == ClientOf[k]
        id == nextId[cl] + 1
    IN  /\ call[k].pc = "idle"
        /\ nextId' = [nextId EXCEPT ![cl] = id]
        /\ pending' = [pending EXCEPT ![cl][kind] = emplace(@, id, k)]
        /\ call' = [call EXCEPT ![k] =
               [pc |-> "entered", kind |-> kind, arg |-> arg, id |-> id,
                on |-> IF Live(cl) THEN life[cl] ELSE 0, known |-> Registered]]
        /\ UNCHANGED <<client, taken, answer, waiter, resuming, link, server, faults>>

\* What an impl has to send reaches the peer unless the impl has ended or the
\* connection is cut.
Carries(cl) == Live(cl) /\ ~cut[Link(cl)]

Request(k) == [id |-> call[k].id, kind |-> call[k].kind, arg |-> call[k].arg, of |-> k]

send_request(k) ==
    LET cl == ClientOf[k]
    IN  /\ call[k].pc = "entered"
        /\ call' = [call EXCEPT ![k].pc = "sent"]
        /\ req' = IF Carries(cl) THEN [req EXCEPT ![Link(cl)] = Append(@, Request(k))] ELSE req
        /\ UNCHANGED <<client, table, answer, waiter, resuming, resp, cut, session, work,
                       server, faults>>

\* The promise in map m with this id, if there is one.
Found(m, id) == IF id \in DOMAIN m THEN {m[id]} ELSE {}
Without(m, id) == [i \in DOMAIN m \ {id} |-> m[i]]

take(cl, r) == pending' = [pending EXCEPT ![cl][r.kind] = Without(@, r.id)]

\* on_received: one response, which completes its promise.
on_received(cl) ==
    LET s == Link(cl)
        r == Head(resp[s])
    IN  /\ st[cl] = "connected"
        /\ resp[s] # <<>>
        /\ resp' = [resp EXCEPT ![s] = Tail(@)]
        /\ take(cl, r)
        /\ complete(Found(pending[cl][r.kind], r.id), [result |-> r.result, of |-> r.of])
        /\ UNCHANGED <<client, nextId, taken, call, waiter, req, cut, session, work,
                       server, faults>>

-----------------------------------------------------------------------------
(* The client: its connection.                                             *)

\* encrypted_connection::connect takes a new impl for one that is closed.
NewLife(cl) ==
    \/ st[cl] = "fresh" /\ UNCHANGED life
    \/ /\ st[cl] \in {"ended", "closed"} /\ life[cl] < MaxLives
       /\ life' = [life EXCEPT ![cl] = @ + 1]

\* An impl that is used and not closed refuses: connect throws invalid_state.
connect(cl) ==
    /\ NewLife(cl)
    /\ st' = [st EXCEPT ![cl] = "connecting"]
    /\ UNCHANGED <<table, caller, link, server, faults>>

on_connected(cl) ==
    /\ st[cl] = "connecting" /\ ~cut[Link(cl)]
    /\ st' = [st EXCEPT ![cl] = "connected"]
    /\ session' = [session EXCEPT ![Link(cl)] = "open"]
    /\ UNCHANGED <<life, table, caller, req, resp, cut, work, server, faults>>

\* The impl ends, and with it what it has not sent and not read.
Drop(cl) ==
    LET s == Link(cl)
    IN  /\ cut' = [cut EXCEPT ![s] = TRUE]
        /\ resp' = [resp EXCEPT ![s] = <<>>]
        /\ req' = IF session[s] = "open" THEN req ELSE [req EXCEPT ![s] = <<>>]

\* The attempt fails, or the connection is cut: on_disconnected begins.
on_disconnected(cl) ==
    /\ \/ st[cl] = "connecting"
       \/ st[cl] = "connected" /\ cut[Link(cl)]
    /\ st' = [st EXCEPT ![cl] = "failing"]
    /\ Drop(cl)
    /\ UNCHANGED <<life, table, caller, session, work, server, faults>>

\* Mutation: the certificate lookups are forgotten.
FailOrder_Two == <<"register", "find_key">>

FailOrder == <<"register", "find_key", "find_cert">>

take_all(cl) ==
    LET n == taken[cl].maps + 1
        m == pending[cl][FailOrder[n]]
    IN  /\ st[cl] = "failing"
        /\ n <= Len(FailOrder)
        /\ pending' = [pending EXCEPT ![cl][FailOrder[n]] = <<>>]
        /\ taken' = [taken EXCEPT ![cl] =
               [maps |-> n, calls |-> @.calls \cup {m[i] : i \in DOMAIN m}]]
        /\ UNCHANGED <<client, nextId, caller, link, server, faults>>

\* The rest of fail_all and of on_disconnected.  The exceptions are set one after the
\* other by the same thread, and no two of them concern the same call.
FailTaken(cl) ==
    /\ st[cl] = "failing"
    /\ taken[cl].maps = Len(FailOrder)
    /\ complete(taken[cl].calls, [result |-> "failed", of |-> None])
    /\ taken' = [taken EXCEPT ![cl] = [maps |-> 0, calls |-> {}]]
    /\ st' = [st EXCEPT ![cl] = "ended"]
    /\ UNCHANGED <<life, nextId, pending, call, waiter, link, server, faults>>

\* client::close and the destructor: waits for the strand, calls nobody.
close(cl) ==
    /\ st[cl] # "failing"
    /\ st' = [st EXCEPT ![cl] = IF @ = "ended" THEN @ ELSE "closed"]
    /\ IF Live(cl) THEN Drop(cl) ELSE UNCHANGED <<cut, req, resp>>
    /\ UNCHANGED <<life, table, caller, session, work, server, faults>>

-----------------------------------------------------------------------------
(* The server.                                                             *)

\* send_response of session s to the request at its front, which is done with it.
send_response(s, result) ==
    LET r == Head(req[s])
    IN  /\ req' = [req EXCEPT ![s] = Tail(@)]
        /\ resp' = IF cut[s] THEN resp
                   ELSE [resp EXCEPT ![s] =
                       Append(@, [id |-> r.id, kind |-> r.kind, result |-> result, of |-> r.of])]

Serving(s, kind) ==
    /\ session[s] = "open" /\ work[s] = None
    /\ req[s] # <<>> /\ Head(req[s]).kind = kind
    /\ UNCHANGED <<client, table, caller>>

\* public_key_cache::find, which keeps what a backend had.
Known(key) == key \in cache \cup db
Fill(key) == cache' = IF key \in db THEN cache \cup {key} ELSE cache

\* Mutation: an invalid key is dropped, with no answer.
Invalid_Silent(s) == req' = [req EXCEPT ![s] = Tail(@)] /\ UNCHANGED resp

Invalid(s) == send_response(s, "rejected")

\* key_store::register_key up to the insert.
register_key(s) ==
    /\ Serving(s, "register")
    /\ LET key == Head(req[s]).arg
       IN  \/ /\ key \in BadKeys
              /\ Invalid(s)
              /\ UNCHANGED <<work, cache, faults>>
           \/ /\ key \notin BadKeys /\ Known(key)
              /\ Fill(key)
              /\ send_response(s, "rejected")
              /\ UNCHANGED <<work, faults>>
           \/ /\ key \notin BadKeys /\ ~Known(key)
              /\ work' = [work EXCEPT ![s] = key]
              /\ UNCHANGED <<cache, req, resp, faults>>
           \/ /\ key \notin BadKeys \cup cache /\ faults < MaxFaults
              /\ faults' = faults + 1
              /\ send_response(s, "rejected")
              /\ UNCHANGED <<work, cache>>
    /\ UNCHANGED <<cut, session, db>>

\* public_key_cache::insert, the cache first.
Stored(key) == cache' = cache \cup {key} /\ db' = db \cup {key}

insert(s) ==
    /\ session[s] = "open" /\ work[s] # None
    /\ work' = [work EXCEPT ![s] = None]
    /\ \/ /\ Stored(work[s])
          /\ send_response(s, "ok")
          /\ UNCHANGED faults
       \/ /\ faults < MaxFaults
          /\ faults' = faults + 1
          /\ cache' = cache \cup {work[s]}
          /\ send_response(s, "rejected")
          /\ UNCHANGED db
    /\ UNCHANGED <<client, table, caller, cut, session>>

find_key(s) ==
    /\ Serving(s, "find_key")
    /\ LET key == Head(req[s]).arg
       IN  /\ send_response(s, IF Known(key) THEN key ELSE "absent")
           /\ Fill(key)
    /\ UNCHANGED <<cut, session, work, db, faults>>

find_certificate(s) ==
    /\ Serving(s, "find_cert")
    /\ LET cid == Head(req[s]).arg
       IN  send_response(s, IF cid \in HeldCerts THEN cid ELSE "absent")
    /\ UNCHANGED <<cut, session, work, server, faults>>

\* A database_error of a lookup is no securepath::error: the handler of on_received
\* closes the connection.
LookupFails(s) ==
    /\ \E kind \in {"find_key", "find_cert"} : Serving(s, kind)
    /\ faults < MaxFaults
    /\ faults' = faults + 1
    /\ cut' = [cut EXCEPT ![s] = TRUE]
    /\ session' = [session EXCEPT ![s] = "gone"]
    /\ req' = [req EXCEPT ![s] = <<>>]
    /\ UNCHANGED <<resp, work, server>>

\* The session of a cut connection ends, between two of its handlers.
SessionEnds(s) ==
    /\ session[s] = "open" /\ cut[s] /\ work[s] = None
    /\ session' = [session EXCEPT ![s] = "gone"]
    /\ req' = [req EXCEPT ![s] = <<>>]
    /\ UNCHANGED <<client, table, caller, resp, cut, work, server, faults>>

-----------------------------------------------------------------------------
(* The environment.                                                        *)

Cut(s) ==
    /\ faults < MaxFaults /\ session[s] = "open" /\ ~cut[s]
    /\ faults' = faults + 1
    /\ cut' = [cut EXCEPT ![s] = TRUE]
    /\ UNCHANGED <<client, table, caller, req, resp, session, work, server>>

\* The server's process ends and starts again: sessions and cache are gone.
Restart ==
    /\ faults < MaxFaults
    /\ faults' = faults + 1
    /\ LET up == {s \in Links : session[s] = "open"}
       IN  /\ session' = [s \in Links |-> IF s \in up THEN "gone" ELSE session[s]]
           /\ cut' = [s \in Links |-> cut[s] \/ s \in up]
           /\ req' = [s \in Links |-> IF s \in up THEN <<>> ELSE req[s]]
    /\ work' = [s \in Links |-> None]
    /\ cache' = {}
    /\ UNCHANGED <<client, table, caller, resp, db>>

-----------------------------------------------------------------------------
Strand(cl) == on_received(cl) \/ take_all(cl) \/ FailTaken(cl)
Attempt(cl) == on_connected(cl) \/ on_disconnected(cl)
Serve(s) == register_key(s) \/ insert(s) \/ find_key(s) \/ find_certificate(s) \/ LookupFails(s)

Next ==
    \/ \E k \in Calls :
          \/ \E ask \in Asks[k] : Enter(k, ask[1], ask[2])
          \/ send_request(k) \/ await_suspend(k) \/ Resume(k)
    \/ \E cl \in Clients :
          connect(cl) \/ close(cl) \/ Attempt(cl) \/ Strand(cl)
    \/ \E s \in Links : Serve(s) \/ SessionEnds(s) \/ Cut(s)
    \/ Restart

Spec == Init /\ [][Next]_vars

\* The callers' threads and the strands run, an attempt ends (it has a timeout),
\* and the end of a connection that is cut is seen.
FairSpec ==
    /\ Spec
    /\ \A k \in Calls : WF_vars(send_request(k)) /\ WF_vars(Resume(k))
    /\ \A cl \in Clients : WF_vars(Attempt(cl)) /\ WF_vars(Strand(cl))
    /\ \A s \in Links : WF_vars(Serve(s))

-----------------------------------------------------------------------------
(* Properties.                                                             *)

CallStates == [pc : {"idle", "entered", "sent"}, kind : Kinds \cup {None},
               arg : Keys \cup CertIds \cup {None}, id : Nat, on : 0..MaxLives, known : SUBSET Keys]
Requests == [id : Nat, kind : Kinds, arg : Keys \cup CertIds, of : Calls]
Responses == [id : Nat, kind : Kinds, result : Results, of : Calls]

TypeOK ==
    /\ st \in [Clients -> {"fresh", "connecting", "connected", "failing", "ended", "closed"}]
    /\ life \in [Clients -> 1..MaxLives]
    /\ nextId \in [Clients -> Nat]
    /\ DOMAIN pending = Clients
    /\ \A cl \in Clients :
          /\ DOMAIN pending[cl] = Kinds
          /\ \A kind \in Kinds : \A i \in DOMAIN pending[cl][kind] : pending[cl][kind][i] \in Calls
    /\ taken \in [Clients -> [maps : 0..3, calls : SUBSET Calls]]
    /\ call \in [Calls -> CallStates]
    /\ answer \in [Calls -> Answers \cup {None}]
    /\ waiter \in [Calls -> {"none", "suspended", "resumed"}]
    /\ resuming \subseteq Calls
    /\ req \in [Links -> Seq(Requests)] /\ resp \in [Links -> Seq(Responses)]
    /\ cut \in [Links -> BOOLEAN]
    /\ session \in [Links -> {"none", "open", "gone"}]
    /\ work \in [Links -> (Keys \ BadKeys) \cup {None}]
    /\ cache \subseteq Keys /\ db \subseteq Keys
    /\ faults \in 0..MaxFaults

\* "The id correlates a response to its request": a call gets the server's
\* answer to itself, although promises of a connection that was closed stay in
\* the maps.
AnswersMatch ==
    \A k \in Calls : answer[k] # None => answer[k].of \in {k, None}

\* A key that was registered before a call began is there for the call, also on
\* another connection, for another client and after a restart of the server: a
\* lookup finds it and a second registration is rejected.
RegisteredIsKnown ==
    \A k \in Calls :
        answer[k] # None /\ answer[k].result \in {"absent", "ok"}
            => call[k].arg \notin call[k].known

\* "On disconnect every pending call fails": the calls entered before
\* on_disconnected began have failed or have an answer when it has returned.
PendingFails ==
    \A cl \in Clients : \A k \in Calls :
        st[cl] = "ended" /\ ClientOf[k] = cl /\ answer[k] = None => call[k].on # life[cl]

\* A coroutine that awaits a call is resumed: the continuation is never stored
\* behind the completion that would take it.
NoLostResume ==
    \A k \in Calls : waiter[k] = "suspended" /\ answer[k] # None => k \in resuming

\* A call made on a connection that is being made or is there is answered or
\* fails, unless the client is closed.
RequestsAnswered ==
    \A k \in Calls :
        LET cl == ClientOf[k]
        IN  call[k].on = life[cl] /\ st[cl] # "fresh"
                ~> answer[k] # None \/ st[cl] = "closed"

\* What a caller of the key client relies on: the answer is to its own call and says what was
\* registered, the coroutine that awaits it is resumed, and a disconnect leaves no call behind.
CallersServed == AnswersMatch /\ RegisteredIsKnown /\ NoLostResume /\ PendingFails
=============================================================================
