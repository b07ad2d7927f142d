---------------------------- MODULE ServerProgram ----------------------------
(***************************************************************************)
(* The packet server and the key server as programs: main thread, the      *)
(* io_context's threads, the signal handler, the acceptor and its sessions *)
(* (net_base, encrypted_net_base, encrypted_server).  A session is what    *)
(* EncryptedConnection models; here it starts, ends and removes itself.    *)
(***************************************************************************)
EXTENDS Naturals, FiniteSets

CONSTANTS
    Sessions,       \* the connections that clients make
    Signals         \* SIGINT arrives: "late" only once the server listens, "any" time

VARIABLES
    main,           \* where the main thread is
    acceptor,       \* "closed" or "open"
    accepting,      \* an async_accept is pending
    sessions,       \* sessions_
    session,        \* each connection: "none", "accepted", "running", "ended"
    handler,        \* the step of on_accepted for each accepted connection
    gone,           \* the sessions whose remove() ran
    closing,        \* the sessions each close() still has to close
    closer,         \* who is inside close(): the signal handler, the main thread
    signal,         \* the signal set: "waiting", "raised", "cancelled"
    io              \* the io_context: "idle", "running", "stopped"

srvVars == <<main, acceptor, accepting, sessions, session, handler, gone, closing, closer,
             signal, io>>

ServerInit ==
    /\ main = "init" /\ acceptor = "closed" /\ accepting = FALSE
    /\ sessions = {} /\ session = [s \in Sessions |-> "none"]
    /\ handler = [s \in Sessions |-> "none"] /\ gone = {}
    /\ closing = [who \in {"signal", "main"} |-> {}] /\ closer = {}
    /\ signal = "waiting" /\ io = "idle"

-----------------------------------------------------------------------------
\* The threads start once init() has the root key, the databases and the server's own key.
run ==
    /\ main = "init"
    /\ main' = "threads" /\ io' = "running"
    /\ UNCHANGED <<acceptor, accepting, sessions, session, handler, gone, closing, closer, signal>>

check_server_key_Throws ==
    /\ main = "init"
    /\ main' = "failed"
    /\ UNCHANGED <<acceptor, accepting, sessions, session, handler, gone, closing, closer, signal, io>>

\* encrypted_server::start, under the mutex.
Listen == acceptor' = "open" /\ accepting' = TRUE

\* packet_server::run goes on with start and wait; bind or listen may throw.
start_server ==
    /\ main = "threads"
    /\ \/ main' = "wait" /\ Listen
       \/ main' = "failed" /\ UNCHANGED <<acceptor, accepting>>
    /\ UNCHANGED <<sessions, session, handler, gone, closing, closer, signal, io>>

\* The handler of async_accept: the session is listed before it starts.
on_accepted_Starts(s) ==
    /\ accepting /\ io = "running" /\ session[s] = "none"
    /\ accepting' = FALSE
    /\ session' = [session EXCEPT ![s] = "running"]
    /\ handler' = [handler EXCEPT ![s] = "list"]
    /\ UNCHANGED <<main, acceptor, sessions, gone, closing, closer, signal, io>>

on_accepted(s) ==
    /\ accepting /\ io = "running" /\ session[s] = "none"
    /\ accepting' = FALSE
    /\ session' = [session EXCEPT ![s] = "accepted"]
    /\ handler' = [handler EXCEPT ![s] = "list"]
    /\ UNCHANGED <<main, acceptor, sessions, gone, closing, closer, signal, io>>

ListSession(s) ==
    /\ handler[s] = "list"
    /\ sessions' = sessions \cup {s}
    /\ handler' = [handler EXCEPT ![s] = "start"]
    /\ UNCHANGED <<main, acceptor, accepting, session, gone, closing, closer, signal, io>>

StartSession(s) ==
    /\ handler[s] = "start"
    /\ session' = [session EXCEPT ![s] = IF @ = "accepted" THEN "running" ELSE @]
    /\ handler' = [handler EXCEPT ![s] = "again"]
    /\ UNCHANGED <<main, acceptor, accepting, sessions, gone, closing, closer, signal, io>>

AcceptNext(s) ==
    /\ handler[s] = "again"
    /\ accepting' = (accepting \/ acceptor = "open")
    /\ handler' = [handler EXCEPT ![s] = "none"]
    /\ UNCHANGED <<main, acceptor, sessions, session, gone, closing, closer, signal, io>>

\* The accept of a closed acceptor is aborted, which ends the loop; after any other error the
\* handler accepts again at once.
AcceptAborted ==
    /\ accepting /\ io = "running" /\ acceptor = "closed"
    /\ accepting' = FALSE
    /\ UNCHANGED <<main, acceptor, sessions, session, handler, gone, closing, closer, signal, io>>

\* The peer or an error ends the connection; it then removes itself from the server.
SessionEnds(s) ==
    /\ session[s] = "running" /\ io = "running"
    /\ session' = [session EXCEPT ![s] = "ended"]
    /\ UNCHANGED <<main, acceptor, accepting, sessions, handler, gone, closing, closer, signal, io>>

remove(s) ==
    /\ session[s] = "ended" /\ s \notin gone
    /\ gone' = gone \cup {s} /\ sessions' = sessions \ {s}
    /\ UNCHANGED <<main, acceptor, accepting, session, handler, closing, closer, signal, io>>

-----------------------------------------------------------------------------
Signal ==
    /\ signal = "waiting" /\ (Signals = "late" => main = "wait")
    /\ signal' = "raised"
    /\ UNCHANGED <<main, acceptor, accepting, sessions, session, handler, gone, closing, closer, io>>

\* close(): the acceptor is closed and the sessions are taken, under the mutex ...
close_server(who) ==
    /\ acceptor' = "closed" /\ sessions' = {}
    /\ closing' = [closing EXCEPT ![who] = sessions]
    /\ closer' = closer \cup {who}
    /\ UNCHANGED <<accepting, session, handler, gone>>

OnSignal ==
    /\ signal = "raised" /\ io = "running"
    /\ close_server("signal") /\ signal' = "handled"
    /\ UNCHANGED <<main, io>>

\* ... then each is closed, which waits for it to end ...
CloseSession_Idle(who, s) ==
    /\ s \in closing[who] /\ session[s] # "running"
    /\ closing' = [closing EXCEPT ![who] = @ \ {s}]
    /\ session' = [session EXCEPT ![s] = "ended"]
    /\ UNCHANGED <<main, acceptor, accepting, sessions, handler, gone, closer, signal, io>>

CloseSession(who, s) ==
    /\ s \in closing[who]
    /\ closing' = [closing EXCEPT ![who] = @ \ {s}]
    /\ session' = [session EXCEPT ![s] = "ended"]
    /\ UNCHANGED <<main, acceptor, accepting, sessions, handler, gone, closer, signal, io>>

\* ... and net_base::close cancels the signals and lets the work guard go.
close_net(who) ==
    /\ who \in closer /\ closing[who] = {}
    /\ closer' = closer \ {who}
    /\ signal' = IF signal = "waiting" THEN "cancelled" ELSE signal
    /\ main' = IF who = "main" THEN "join" ELSE main
    /\ UNCHANGED <<acceptor, accepting, sessions, session, handler, gone, closing, io>>

\* The threads leave io_context::run when no handler runs and nothing is pending.
HasWork ==
    \/ signal \in {"waiting", "raised"} \/ "signal" \in closer \/ accepting
    \/ \E s \in Sessions : handler[s] # "none" \/ session[s] = "running"
                           \/ (session[s] = "ended" /\ s \notin gone)

ThreadsEnd ==
    /\ io = "running" /\ ~HasWork
    /\ io' = "stopped"
    /\ UNCHANGED <<main, acceptor, accepting, sessions, session, handler, gone, closing, closer, signal>>

\* wait() joins the threads; main then destroys the server, which closes it once more.
wait ==
    /\ main = "wait" /\ io = "stopped"
    /\ main' = "failed"
    /\ UNCHANGED <<acceptor, accepting, sessions, session, handler, gone, closing, closer, signal, io>>

Destroy ==
    /\ main = "failed"
    /\ close_server("main") /\ main' = "closing"
    /\ UNCHANGED <<signal, io>>

JoinThreads ==
    /\ main = "join" /\ io \in {"idle", "stopped"}
    /\ main' = "done"
    /\ UNCHANGED <<acceptor, accepting, sessions, session, handler, gone, closing, closer, signal, io>>

\* The steps the threads of the program do take; the rest is up to clients and the operator.
Progress ==
    \/ run \/ check_server_key_Throws \/ start_server \/ AcceptAborted \/ OnSignal
    \/ ThreadsEnd \/ wait \/ Destroy \/ JoinThreads
    \/ \E who \in {"signal", "main"} :
          close_net(who) \/ \E s \in Sessions : CloseSession(who, s)
    \/ \E s \in Sessions : ListSession(s) \/ StartSession(s) \/ AcceptNext(s) \/ remove(s)

ServerNext ==
    \/ Signal \/ Progress
    \/ \E s \in Sessions : on_accepted(s) \/ SessionEnds(s)

ServerSpec == ServerInit /\ [][ServerNext]_srvVars

-----------------------------------------------------------------------------
\* A server owns its sessions from before they start to their end: a session that runs is in
\* sessions_ or in the hands of a close(), and one that has removed itself is in neither, so
\* that nothing keeps it.  While it listens it waits for the next client, or a handler is about
\* to.
SessionsOwned ==
    /\ \A s \in Sessions :
          /\ session[s] = "running" => s \in sessions \/ \E who \in closer : s \in closing[who]
          /\ s \in gone => s \notin sessions
    /\ acceptor = "open" =>
          accepting \/ io # "running" \/ \E s \in Sessions : handler[s] # "none"

\* A signal ends the program, unless the close left something behind: a session whose accept
\* was under way, or a server that was started after it.
LeftBehind == signal = "handled" /\ closer = {} /\ (sessions # {} \/ acceptor = "open")
SignalEnds == signal = "raised" ~> main = "done" \/ LeftBehind

\* After close() was called, the program's wait() returns.
CloseEndsWait == signal = "handled" ~> main = "done"
=============================================================================
