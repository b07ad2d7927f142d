------------------------- MODULE EncryptedConnection -------------------------
(***************************************************************************)
(* network: one encrypted_connection_impl, from connect or accept to its   *)
(* end.  Handlers run one at a time on the strand; the owner's threads     *)
(* call connect, send, close and close_later next to them.  A callback     *)
(* into the owner is an interval: the handler goes on when it returns.     *)
(* TLS and framing are the environment, through the handlers they call.    *)
(***************************************************************************)
EXTENDS Integers, Sequences

CONSTANTS
    Callers,        \* the owner's threads
    Closers,        \* those that call close
    Uses,           \* what else the program does: "close_later", "close in callback"
    MaxSends,       \* bound: calls of send
    MaxFrames,      \* bound: frames the peer sends
    MaxPackets      \* bound: handshake packets of the peer before its last

ASSUME ConstantAssumption ==
    /\ Closers \subseteq Callers
    /\ Uses \subseteq {"close_later", "close in callback"}
    /\ MaxSends \in Nat /\ MaxFrames \in Nat /\ MaxPackets \in Nat

VARIABLES
    role,
    c,              \* the members: state_, is_connected_, is_closed_, client_ (set or
                    \* null), disconnected_, writing_, out_queue_ (its length), tls_, timer_
    ops,            \* asynchronous operations whose handler has not run
    jobs,           \* what is posted to the strand, besides
    doSends,        \* the posted calls of do_send
    cb,             \* where the strand is in the owner's code, "none" if nowhere
    calls,          \* the callbacks so far
    why,            \* what on_disconnected was told
    listed,         \* the server's sessions_ holds the connection
    pc,             \* per caller
    stopped,        \* io_context::stopped()
    sends, frames, packets

vars == <<role, c, ops, jobs, doSends, cb, calls, why, listed, pc, stopped,
          sends, frames, packets>>
counters == <<sends, frames, packets>>
owner == <<pc, stopped>>

CloseJob(t) == [job |-> "close", of |-> t]
Job(name) == [job |-> name]

Init ==
    /\ role \in {"client", "server"}
    /\ c = [state |-> "not_connected", isConnected |-> FALSE, isClosed |-> FALSE,
            client |-> TRUE, disconnected |-> FALSE, writing |-> FALSE, queued |-> 0,
            tls |-> "none", timer |-> "off"]
    /\ ops = {} /\ doSends = 0
    /\ jobs = IF role = "server" THEN {Job("accepted")} ELSE {}
    /\ cb = "none" /\ calls = <<>> /\ why = "nothing"
    /\ listed = (role = "server")
    /\ pc = [t \in Callers |-> "idle"]
    /\ stopped = FALSE
    /\ sends = 0 /\ frames = 0 /\ packets = 0

-----------------------------------------------------------------------------
(* Functions of the members.                                               *)

\* timer_.cancel(): a handler that is queued already still runs, without error.
CancelTimer(m) == [m EXCEPT !.timer = IF @ = "armed" THEN "off" ELSE @]

\* disconnect_with up to the callback.
Ended(m) ==
    [CancelTimer(m) EXCEPT !.disconnected = TRUE, !.isConnected = FALSE,
                           !.tls = IF @ = "open" THEN "closed" ELSE @, !.client = FALSE]

CanSend(m) == ~m.writing /\ m.queued > 0 /\ m.isConnected

do_send(m) == IF CanSend(m) THEN [m EXCEPT !.writing = TRUE, !.queued = @ - 1] ELSE m
SendOps(m) == IF CanSend(m) THEN {"send"} ELSE {}

ReceiveOps(m) == IF m.isConnected /\ m.client THEN {"recv"} ELSE {}

\* Calls the owner, if it is still there; a handler without an owner has nothing
\* left to do, for is_connected_ is false then.
Notify(m, name) ==
    /\ cb' = IF m.client THEN name ELSE "none"
    /\ calls' = IF m.client THEN Append(calls, name) ELSE calls

\* handle_disconnect(error) at the end of a handler that leaves members m.
handle_disconnect(m, error) ==
    IF ~m.disconnected
    THEN /\ c' = Ended(m)
         /\ Notify(m, "disconnected")
         /\ why' = IF m.client THEN error ELSE why
    ELSE c' = m /\ UNCHANGED <<cb, calls, why>>

\* Mutation: do_close leaves client_ set.
Closed_KeepClient(m) ==
    IF m.disconnected THEN m
    ELSE [Ended(m) EXCEPT !.isClosed = TRUE, !.state = "not_connected", !.client = m.client]

\* do_close: the members after it, and the removal it posts.
Closed(m) == IF m.disconnected THEN [m EXCEPT !.client = FALSE]
             ELSE [Ended(m) EXCEPT !.isClosed = TRUE, !.state = "not_connected"]

RemoveJobs(m) == IF role = "server" /\ m.client THEN {Job("remove")} ELSE {}

-----------------------------------------------------------------------------
(* The owner's calls.                                                      *)

Goto(t, from, to) == pc[t] = from /\ pc' = [pc EXCEPT ![t] = to]

\* A connection that is closed gets a new impl, which is another life.
connect(t) ==
    /\ role = "client"
    /\ c.state = "not_connected" /\ ~c.isClosed
    /\ Goto(t, "idle", "timing")
    /\ c' = [c EXCEPT !.state = "connecting"]
    /\ ops' = ops \cup {"resolve"}
    /\ UNCHANGED <<role, jobs, doSends, cb, calls, why, listed, stopped, counters>>

start_timeout(t) ==
    /\ Goto(t, "timing", "idle")
    /\ c' = [c EXCEPT !.timer = "armed"]
    /\ UNCHANGED <<role, ops, jobs, doSends, cb, calls, why, listed, stopped, counters>>

\* Called by the server's on_accepted, off the strand, also when the session was closed meanwhile.
start_server_handshake ==
    /\ Job("accepted") \in jobs /\ ~stopped
    /\ c' = [c EXCEPT !.state = "connecting", !.timer = "armed"]
    /\ jobs' = (jobs \ {Job("accepted")}) \cup {Job("start")}
    /\ UNCHANGED <<role, ops, doSends, cb, calls, why, listed, owner, counters>>

send(t) ==
    /\ sends < MaxSends
    /\ Goto(t, "idle", "sending")
    /\ sends' = sends + 1
    /\ c' = [c EXCEPT !.queued = @ + 1]
    /\ UNCHANGED <<role, ops, jobs, doSends, cb, calls, why, listed, stopped, frames, packets>>

send_post(t) ==
    /\ Goto(t, "sending", "idle")
    /\ doSends' = IF c.isConnected THEN doSends + 1 ELSE doSends
    /\ UNCHANGED <<role, c, ops, jobs, cb, calls, why, listed, stopped, counters>>

AlreadyClosed == c.isClosed

close(t) ==
    /\ t \in Closers
    /\ IF AlreadyClosed
         THEN Goto(t, "idle", "returned") /\ UNCHANGED <<c, jobs>>
         ELSE /\ Goto(t, "idle", "waiting")
              /\ c' = [c EXCEPT !.isClosed = TRUE]
              /\ jobs' = jobs \cup {CloseJob(t)}
    /\ UNCHANGED <<role, ops, doSends, cb, calls, why, listed, stopped, counters>>

\* The caller finds the io_context stopped and closes by itself.
CloseStopped(t) ==
    /\ stopped
    /\ Goto(t, "waiting", "inline")
    /\ c' = Closed(c)
    /\ jobs' = jobs \cup RemoveJobs(c)
    /\ UNCHANGED <<role, ops, doSends, cb, calls, why, listed, stopped, counters>>

close_later(t) ==
    /\ "close_later" \in Uses
    /\ pc[t] = "idle"
    /\ Job("later") \notin jobs
    /\ jobs' = jobs \cup {Job("later")}
    /\ UNCHANGED <<role, c, ops, doSends, cb, calls, why, listed, owner, counters>>

\* close() in a callback runs on the strand.
CloseInCallback ==
    /\ "close in callback" \in Uses
    /\ cb \notin {"none", "ending"} /\ ~AlreadyClosed
    /\ c' = Closed([c EXCEPT !.isClosed = TRUE])
    /\ jobs' = jobs \cup RemoveJobs(c)
    /\ UNCHANGED <<role, ops, doSends, cb, calls, why, listed, owner, counters>>

\* io_context::stop(): a handler that runs goes on, no other one is started.
Stop ==
    /\ ~stopped
    /\ stopped' = TRUE
    /\ UNCHANGED <<role, c, ops, jobs, doSends, cb, calls, why, listed, pc, counters>>

-----------------------------------------------------------------------------
(* The strand: completions.                                                *)

Complete(op) ==
    /\ cb = "none" /\ ~stopped
    /\ op \in ops
    /\ UNCHANGED <<role, listed, owner, sends>>

on_resolve ==
    /\ Complete("resolve")
    /\ \/ /\ c.client
          /\ ops' = (ops \ {"resolve"}) \cup {"connect"}
          /\ UNCHANGED <<c, cb, calls, why>>
       \/ ops' = ops \ {"resolve"} /\ handle_disconnect(c, "error")
    /\ UNCHANGED <<jobs, doSends, frames, packets>>

StartTls(m) == [m EXCEPT !.tls = "open"]

on_connect ==
    /\ Complete("connect")
    /\ \/ /\ c.client
          /\ ops' = (ops \ {"connect"}) \cup {"tls"}
          /\ c' = StartTls(c)
          /\ UNCHANGED <<cb, calls, why>>
       \/ ops' = ops \ {"connect"} /\ handle_disconnect(c, "error")
    /\ UNCHANGED <<jobs, doSends, frames, packets>>

\* The client sends its hello; both then wait for a packet.  The handler may be
\* queued with success before the end of the connection.
on_tls_handshake ==
    /\ Complete("tls")
    /\ LET rest == ops \ {"tls"}
       IN  \/ /\ ops' = rest \cup {"recv"} \cup (IF role = "client" THEN {"hsend"} ELSE {})
              /\ UNCHANGED <<c, cb, calls, why>>
           \/ ops' = rest /\ handle_disconnect(c, "error")
    /\ UNCHANGED <<jobs, doSends, frames, packets>>

Answers == IF role = "client" THEN {{"hsend"}, {}} ELSE {{"hsend"}}

become_connected(m) ==
    [CancelTimer(m) EXCEPT !.state = "connected", !.isConnected = TRUE]

\* on_handshake_frame: the peer is authentic, one more packet is wanted, or the
\* handshake fails.
on_handshake_frame ==
    /\ Complete("recv")
    /\ c.state # "connected"
    /\ LET rest == ops \ {"recv"}
       IN  \/ /\ c.tls = "open"
              /\ \E answer \in Answers : ops' = rest \cup answer
              /\ c' = become_connected(c)
              /\ Notify(c, "connected")
              /\ UNCHANGED <<why, packets>>
           \/ /\ c.tls = "open" /\ packets < MaxPackets
              /\ packets' = packets + 1
              /\ ops' = rest \cup {"hsend", "recv"}
              /\ UNCHANGED <<c, cb, calls, why>>
           \/ ops' = rest /\ handle_disconnect(c, "error") /\ UNCHANGED packets
    /\ UNCHANGED <<jobs, doSends, frames>>

HandshakeSent ==
    /\ Complete("hsend")
    /\ ops' = ops \ {"hsend"}
    /\ \/ UNCHANGED <<c, cb, calls, why>>
       \/ handle_disconnect(c, "error")
    /\ UNCHANGED <<jobs, doSends, frames, packets>>

on_data_frame ==
    /\ Complete("recv")
    /\ c.state = "connected"
    /\ ops' = ops \ {"recv"}
    /\ \/ /\ c.tls = "open" /\ frames < MaxFrames
          /\ frames' = frames + 1
          /\ Notify(c, "received")
          /\ UNCHANGED <<c, why>>
       \/ handle_disconnect(c, "error") /\ UNCHANGED frames
    /\ UNCHANGED <<jobs, doSends, packets>>

OnSent ==
    /\ Complete("send")
    /\ ops' = ops \ {"send"}
    /\ LET m == [c EXCEPT !.writing = FALSE]
       IN  \/ c' = m /\ Notify(m, "sent") /\ UNCHANGED why
           \/ handle_disconnect(m, "error")
    /\ UNCHANGED <<jobs, doSends, frames, packets>>

TimerExpires ==
    /\ c.timer = "armed"
    /\ c' = [c EXCEPT !.timer = "expired"]
    /\ UNCHANGED <<role, ops, jobs, doSends, cb, calls, why, listed, owner, counters>>

\* Mutation: the timeout is only for the TCP connection.
TimedOut_Connecting == c.tls = "none"

TimedOut == c.state # "connected"

on_timeout ==
    /\ cb = "none" /\ ~stopped
    /\ c.timer = "expired"
    /\ LET m == [c EXCEPT !.timer = "off"]
       IN  IF TimedOut THEN handle_disconnect(m, "timed_out")
           ELSE c' = m /\ UNCHANGED <<cb, calls, why>>
    /\ UNCHANGED <<role, ops, jobs, doSends, listed, owner, counters>>

-----------------------------------------------------------------------------
(* The strand: posted functions, and the return from a callback.           *)

Run(j) ==
    /\ cb = "none" /\ ~stopped
    /\ j \in jobs
    /\ UNCHANGED <<role, stopped, counters>>

RunStart ==
    /\ Run(Job("start"))
    /\ jobs' = jobs \ {Job("start")}
    /\ c' = IF c.client THEN StartTls(c) ELSE c
    /\ ops' = IF c.client THEN ops \cup {"tls"} ELSE ops
    /\ UNCHANGED <<doSends, cb, calls, why, listed, pc>>

RunClose(t) ==
    /\ Run(CloseJob(t))
    /\ jobs' = (jobs \ {CloseJob(t)}) \cup RemoveJobs(c)
    /\ c' = Closed(c)
    /\ pc' = [pc EXCEPT ![t] = "closed"]
    /\ UNCHANGED <<ops, doSends, cb, calls, why, listed>>

RunLater ==
    /\ Run(Job("later"))
    /\ jobs' = jobs \ {Job("later")}
    /\ IF c.isClosed THEN UNCHANGED <<c, cb, calls, why>>
       ELSE handle_disconnect([c EXCEPT !.isClosed = TRUE], "closed")
    /\ UNCHANGED <<ops, doSends, listed, pc>>

RunRemove ==
    /\ Run(Job("remove"))
    /\ jobs' = jobs \ {Job("remove")}
    /\ listed' = FALSE
    /\ UNCHANGED <<c, ops, doSends, cb, calls, why, pc>>

RunDoSend ==
    /\ cb = "none" /\ ~stopped
    /\ doSends > 0
    /\ doSends' = doSends - 1
    /\ c' = do_send(c)
    /\ ops' = ops \cup SendOps(c)
    /\ UNCHANGED <<role, jobs, cb, calls, why, listed, owner, counters>>

\* The callbacks behind which the handler calls do_send and receive_data.
SendsAfter == cb \in {"connected", "sent"}
ReceivesAfter == cb \in {"connected", "received"}

CallbackReturns ==
    /\ cb \in {"connected", "received", "sent"}
    /\ cb' = "none"
    /\ c' = IF SendsAfter THEN do_send(c) ELSE c
    /\ ops' = ops \cup (IF SendsAfter THEN SendOps(c) ELSE {})
                  \cup (IF ReceivesAfter THEN ReceiveOps(c) ELSE {})
    /\ UNCHANGED <<role, jobs, doSends, calls, why, listed, owner, counters>>

AfterDisconnected(m) == [m EXCEPT !.isClosed = TRUE]

\* disconnect_with behind the callback.
OnDisconnectedReturns ==
    /\ cb = "disconnected"
    /\ cb' = "ending"
    /\ listed' = FALSE
    /\ c' = AfterDisconnected(c)
    /\ UNCHANGED <<role, ops, jobs, doSends, calls, why, owner, counters>>

DisconnectDone ==
    /\ cb = "ending"
    /\ cb' = "none"
    /\ c' = [c EXCEPT !.isClosed = TRUE, !.state = "not_connected"]
    /\ UNCHANGED <<role, ops, jobs, doSends, calls, why, listed, owner, counters>>

-----------------------------------------------------------------------------
Return == CallbackReturns \/ OnDisconnectedReturns \/ DisconnectDone

Next ==
    \/ \E t \in Callers :
          \/ connect(t) \/ start_timeout(t) \/ send(t) \/ send_post(t)
          \/ close(t) \/ CloseStopped(t) \/ close_later(t) \/ RunClose(t)
    \/ start_server_handshake \/ CloseInCallback \/ Stop
    \/ on_resolve \/ on_connect \/ on_tls_handshake \/ on_handshake_frame
    \/ HandshakeSent \/ on_data_frame \/ OnSent \/ TimerExpires \/ on_timeout
    \/ RunStart \/ RunLater \/ RunRemove \/ RunDoSend \/ Return

Spec == Init /\ [][Next]_vars

\* The strand runs what is posted to it, time passes, callbacks return, and the
\* callers' threads run.  The network and the peer need not do anything.
FairSpec ==
    /\ Spec
    /\ WF_vars(Return) /\ WF_vars(TimerExpires)
    /\ SF_vars(on_timeout) /\ SF_vars(RunRemove)
    /\ \A t \in Callers : WF_vars(start_timeout(t))
    /\ \A t \in Closers : SF_vars(RunClose(t)) /\ WF_vars(CloseStopped(t))

-----------------------------------------------------------------------------
(* Properties.                                                             *)

Callbacks == {"connected", "received", "sent", "disconnected"}
Operations == {"resolve", "connect", "tls", "recv", "hsend", "send"}

Members ==
    [state : {"not_connected", "connecting", "connected"}, isConnected : BOOLEAN, isClosed : BOOLEAN,
     client : BOOLEAN, disconnected : BOOLEAN, writing : BOOLEAN, queued : Nat,
     tls : {"none", "open", "closed"}, timer : {"off", "armed", "expired"}]
Jobs == {Job(n) : n \in {"accepted", "start", "later", "remove"}} \cup {CloseJob(t) : t \in Callers}

TypeOK ==
    /\ role \in {"client", "server"}
    /\ c \in Members
    /\ ops \subseteq Operations /\ jobs \subseteq Jobs /\ doSends \in Nat
    /\ cb \in Callbacks \cup {"none", "ending"}
    /\ calls \in Seq(Callbacks)
    /\ why \in {"nothing", "error", "timed_out", "closed"}
    /\ listed \in BOOLEAN /\ stopped \in BOOLEAN
    /\ pc \in [Callers -> {"idle", "timing", "sending", "waiting", "closed", "inline", "returned"}]
    /\ sends \in 0..MaxSends /\ frames \in 0..MaxFrames /\ packets \in 0..MaxPackets

\* on_connected comes first and once, on_disconnected once and last, whatever
\* fails, times out or is closed, and in whatever order; a connection that was made
\* is never ended by the timeout of its making.
CallbacksInOrder ==
  /\ why = "timed_out" => \A i \in DOMAIN calls : calls[i] # "connected"
  /\ \A i \in DOMAIN calls :
        /\ calls[i] = "connected" <=> i = 1 /\ calls[i] # "disconnected"
        /\ calls[i] = "disconnected" => i = Len(calls)

\* "close() waits for the strand and tells nobody": once a close that was run
\* by the strand has returned, no callback is running and none will.
Silent == cb \in {"none", "ending"}
CloseWaits == (\E t \in Callers : pc[t] = "closed") => Silent

\* A message that is queued while the connection is made or another is written
\* is not forgotten: somebody is about to call do_send.
NoLostSend ==
    c.isConnected /\ c.queued > 0 =>
        \/ c.writing \/ doSends > 0 \/ cb \in {"connected", "sent"}
        \/ \E t \in Callers : pc[t] = "sending"

\* encrypted_connection::connect replaces an impl that is closed and uses one
\* that is not: an ended impl is never one that still looks fresh.
EndedIsClosed == c.disconnected /\ c.state = "not_connected" => c.isClosed

\* An attempt to connect ends, even when the peer is silent.
ConnectEnds == c.state = "connecting" ~> c.state = "connected" \/ c.isClosed \/ stopped

\* close returns, also when nobody runs the strand any more.
CloseReturns == \A t \in Callers : pc[t] = "waiting" ~> pc[t] \in {"closed", "inline"}

\* encrypted_server: "owns each one until it is closed".
SessionReleased == c.disconnected ~> ~listed \/ stopped

-----------------------------------------------------------------------------
(* What the documents say and the code does not do.                        *)

\* What the owner of a connection relies on, whatever ends it: callbacks in order and once, none
\* after a close that waited, no message left in the queue, and an ended connection that can be
\* told from a fresh one.
OwnerIsServed == CallbacksInOrder /\ CloseWaits /\ NoLostSend /\ EndedIsClosed

\* Nothing waits for ever: an attempt to connect ends, close returns, and the server lets go of
\* a session that ended.
ConnectionsEnd == ConnectEnds /\ CloseReturns /\ SessionReleased
=============================================================================
