---------------------- MODULE EncryptedConnectionProofs ----------------------
(***************************************************************************)
(* What EncryptedConnection keeps for any number of callers, messages,     *)
(* frames and handshake packets: the callbacks come in order and end,      *)
(* close waits, no message is forgotten, an ended impl is seen to be one.  *)
(***************************************************************************)
EXTENDS EncryptedConnection, TLAPS

-----------------------------------------------------------------------------
(* The inductive invariant.                                                *)

\* client_ is null from the end of the connection on, and the connection is made exactly while
\* the owner is told so.
Held ==
    /\ c.client <=> ~c.disconnected
    /\ c.tls = "open" => c.client
    /\ c.isConnected => c.client
    /\ c.client => (c.isConnected <=> c.state = "connected")
    /\ "send" \in ops /\ c.client => c.isConnected
    /\ cb \in {"disconnected", "ending"} => c.disconnected

\* Nothing is under way for an impl that is fresh, and only start_server_handshake moves one
\* that the server has accepted.
Started ==
    /\ c.state = "not_connected" /\ ~c.isClosed =>
          /\ ops = {} /\ c.timer = "off" /\ Job("start") \notin jobs
          /\ \A t \in Callers : pc[t] # "timing"
    /\ Job("accepted") \in jobs =>
          role = "server" /\ ops = {} /\ Job("start") \notin jobs /\ c.state = "not_connected"

\* What the owner has been told while it is there.
Told ==
    /\ c.client => why = "nothing"
    /\ c.client /\ ~c.isConnected => calls = <<>>
    /\ c.client /\ c.isConnected =>
          /\ calls # <<>>
          /\ \A i \in DOMAIN calls : calls[i] # "disconnected" /\ (calls[i] = "connected" <=> i = 1)
    /\ \A t \in Callers : pc[t] = "closed" => ~c.client

Inv ==
    /\ TypeOK /\ Held /\ Started /\ Told
    /\ CallbacksInOrder /\ CloseWaits /\ NoLostSend /\ EndedIsClosed

-----------------------------------------------------------------------------
(* What the functions of the members do.                                   *)

LEMMA OneMore ==
    ASSUME NEW S, NEW s \in Seq(S), NEW e \in S
    PROVE  Append(s, e) \in Seq(S)
OBVIOUS

LEMMA EndedIs ==
    ASSUME NEW m \in Members
    PROVE  LET e == Ended(m)
           IN  /\ e \in Members /\ e.disconnected /\ ~e.client /\ ~e.isConnected /\ e.tls # "open"
               /\ e.state = m.state /\ e.isClosed = m.isClosed /\ (m.timer = "off" => e.timer = "off")
BY DEF Ended, CancelTimer, Members

LEMMA ClosedIs ==
    ASSUME NEW m \in Members, m.client <=> ~m.disconnected, m.tls = "open" => m.client,
           m.isConnected => m.client
    PROVE  LET e == Closed(m)
           IN  /\ e \in Members /\ e.disconnected /\ ~e.client /\ ~e.isConnected /\ e.tls # "open"
               /\ m.timer = "off" => e.timer = "off"
               /\ m.isClosed => e.isClosed
               /\ \/ m.disconnected /\ e.state = m.state
                  \/ e.state = "not_connected" /\ e.isClosed
<1>1. CASE m.disconnected
  BY <1>1 DEF Closed, Members
<1>2. CASE ~m.disconnected
  <2> DEFINE d == Ended(m)
  <2>1. d \in Members /\ d.disconnected /\ ~d.client /\ ~d.isConnected /\ d.tls # "open"
        /\ (m.timer = "off" => d.timer = "off")
    BY EndedIs
  <2>2. Closed(m) = [d EXCEPT !.isClosed = TRUE, !.state = "not_connected"]
    BY <1>2 DEF Closed
  <2> HIDE DEF d
  <2> QED BY <2>1, <2>2 DEF Members
<1> QED BY <1>1, <1>2

LEMMA DoSendIs ==
    ASSUME NEW m \in Members
    PROVE  LET e == do_send(m)
           IN  /\ e \in Members /\ e.disconnected = m.disconnected /\ e.client = m.client
               /\ e.isConnected = m.isConnected /\ e.tls = m.tls /\ e.state = m.state
               /\ e.isClosed = m.isClosed /\ e.timer = m.timer
               /\ e.isConnected /\ e.queued > 0 => e.writing
<1>1. CASE CanSend(m)
  <2>1. do_send(m) = [m EXCEPT !.writing = TRUE, !.queued = m.queued - 1]
    BY <1>1 DEF do_send
  <2>2. m.queued - 1 \in Nat
    BY <1>1 DEF CanSend, Members
  <2> QED BY <2>1, <2>2 DEF Members
<1>2. CASE ~CanSend(m)
  <2>1. do_send(m) = m
    BY <1>2 DEF do_send
  <2>2. m.isConnected /\ m.queued > 0 => m.writing
    BY <1>2 DEF CanSend
  <2> QED BY <2>1, <2>2
<1> QED BY <1>1, <1>2

-----------------------------------------------------------------------------
(* The parts of the invariant that most actions leave alone.               *)

\* The owner is told nothing, and it is as much there as it was or less.
LEMMA QuietFrame ==
    ASSUME Inv, UNCHANGED <<calls, why>>,
           c'.client => c.client /\ c'.isConnected = c.isConnected,
           \A t \in Callers : pc'[t] = "closed" => pc[t] = "closed" \/ ~c'.client,
           ~c.client => ~c'.client
    PROVE  CallbacksInOrder' /\ Told'
<1>1. CallbacksInOrder'
  BY DEF Inv, CallbacksInOrder
<1>2. Told'
  BY DEF Inv, Told
<1> QED BY <1>1, <1>2

\* handle_disconnect: the end, told once to an owner that is there, and nothing to one that is not.
LEMMA EndStep ==
    ASSUME Inv, cb = "none", NEW m \in Members,
           m.client = c.client, m.disconnected = c.disconnected, m.isConnected = c.isConnected,
           m.state = c.state, m.tls = c.tls, c.isClosed => m.isClosed,
           m.timer = c.timer \/ m.timer = "off",
           m.state = "not_connected" => m.isClosed,
           NEW error \in {"error", "timed_out", "closed"}, error = "timed_out" => c.state # "connected",
           handle_disconnect(m, error),
           UNCHANGED <<role, doSends, listed, pc, stopped, sends, frames, packets>>,
           ops' \subseteq ops, jobs' \subseteq jobs
    PROVE  Inv'
<1>1. /\ c' \in Members /\ c'.disconnected /\ ~c'.client /\ ~c'.isConnected /\ c'.tls # "open"
      /\ c'.state = c.state /\ c'.isClosed = m.isClosed /\ (c.timer = "off" => c'.timer = "off")
  <2>1. CASE ~m.disconnected
    BY <2>1, EndedIs DEF handle_disconnect
  <2>2. CASE m.disconnected
    BY <2>2 DEF handle_disconnect, Inv, Held
  <2> QED BY <2>1, <2>2
<1>2. \/ c.client /\ cb' = "disconnected" /\ calls' = Append(calls, "disconnected") /\ why' = error
      \/ ~c.client /\ UNCHANGED <<cb, calls, why>>
  BY DEF handle_disconnect, Notify, Inv, Held
<1>3. calls \in Seq(Callbacks) /\ "disconnected" \in Callbacks
  BY DEF Inv, TypeOK, Callbacks
<1>4. TypeOK'
  <2>1. calls' \in Seq(Callbacks)
    BY <1>2, <1>3, OneMore
  <2>2. cb' \in Callbacks \cup {"none", "ending"} /\ why' \in {"nothing", "error", "timed_out", "closed"}
    BY <1>2, <1>3 DEF Inv, TypeOK
  <2>3. ops' \subseteq Operations /\ jobs' \subseteq Jobs
    BY DEF Inv, TypeOK
  <2> QED BY <1>1, <2>1, <2>2, <2>3 DEF Inv, TypeOK
<1>5. Held' /\ Started'
  BY <1>1 DEF Inv, Held, Started
<1>6. CallbacksInOrder'
  <2>1. CASE ~c.client
    BY <2>1, <1>2 DEF Inv, CallbacksInOrder
  <2>2. CASE c.client
    <3>1. /\ Len(calls') = Len(calls) + 1 /\ calls'[Len(calls) + 1] = "disconnected"
          /\ DOMAIN calls' = 1..(Len(calls) + 1) /\ Len(calls) \in Nat /\ DOMAIN calls = 1..Len(calls)
          /\ \A i \in 1..Len(calls) : calls'[i] = calls[i]
      BY <2>2, <1>2, <1>3
    <3>2. why' = error
      BY <2>2, <1>2
    <3>3. CASE c.isConnected
      <4>1. /\ Len(calls) # 0 /\ error # "timed_out"
            /\ \A i \in 1..Len(calls) : calls[i] # "disconnected" /\ (calls[i] = "connected" <=> i = 1)
        BY <2>2, <3>1, <3>3, <1>3 DEF Inv, Told, Held
      <4> QED BY <3>1, <3>2, <4>1 DEF CallbacksInOrder
    <3>4. CASE ~c.isConnected
      <4>1. Len(calls) = 0
        BY <2>2, <3>4 DEF Inv, Told
      <4> QED BY <3>1, <3>2, <4>1 DEF CallbacksInOrder
    <3> QED BY <3>3, <3>4
  <2> QED BY <2>1, <2>2
<1>7. Told'
  BY <1>1 DEF Told
<1>8. CloseWaits'
  BY <1>2 DEF Inv, CloseWaits, Silent, Told
<1>9. NoLostSend' /\ EndedIsClosed'
  BY <1>1 DEF NoLostSend, EndedIsClosed
<1> QED BY <1>4, <1>5, <1>6, <1>7, <1>8, <1>9 DEF Inv

\* Notify of an owner that is there and was told that the connection is made.
LEMMA TellStep ==
    ASSUME Inv, cb = "none", NEW name \in {"received", "sent"}, c.client => c.isConnected,
           Notify(c, name), UNCHANGED why
    PROVE  /\ calls' \in Seq(Callbacks) /\ cb' \in Callbacks \cup {"none", "ending"}
           /\ CallbacksInOrder'
           /\ c.client /\ c.isConnected =>
                 /\ calls' # <<>>
                 /\ \A i \in DOMAIN calls' : calls'[i] # "disconnected" /\ (calls'[i] = "connected" <=> i = 1)
           /\ c.client => cb' = name
           /\ ~c.client => cb' = "none"
<1>1. calls \in Seq(Callbacks) /\ name \in Callbacks /\ name # "connected" /\ name # "disconnected"
  BY DEF Inv, TypeOK, Callbacks
<1>2. CASE ~c.client
  BY <1>1, <1>2 DEF Notify, Inv, CallbacksInOrder
<1>3. CASE c.client
  <2>1. /\ calls' = Append(calls, name) /\ cb' = name /\ why' = "nothing"
    BY <1>3 DEF Notify, Inv, Told
  <2>2. /\ calls' \in Seq(Callbacks)
        /\ Len(calls') = Len(calls) + 1 /\ calls'[Len(calls) + 1] = name
        /\ DOMAIN calls' = 1..(Len(calls) + 1) /\ Len(calls) \in Nat /\ DOMAIN calls = 1..Len(calls)
        /\ \A i \in 1..Len(calls) : calls'[i] = calls[i]
    BY <1>1, <2>1
  <2>3. /\ Len(calls) # 0
        /\ \A i \in 1..Len(calls) : calls[i] # "disconnected" /\ (calls[i] = "connected" <=> i = 1)
    BY <1>1, <1>3, <2>2 DEF Inv, Told
  <2>4. \A i \in DOMAIN calls' : calls'[i] # "disconnected" /\ (calls'[i] = "connected" <=> i = 1)
    BY <1>1, <2>2, <2>3
  <2>5. CallbacksInOrder' /\ calls' # <<>>
    BY <2>1, <2>2, <2>4 DEF CallbacksInOrder
  <2> QED BY <1>1, <1>3, <2>1, <2>2, <2>4, <2>5
<1> QED BY <1>2, <1>3

-----------------------------------------------------------------------------
(* The calls of the owner.                                                 *)

LEMMA JobNames ==
    /\ \A n : Job(n).job = n
    /\ \A t : CloseJob(t).job = "close"
BY DEF Job, CloseJob

LEMMA ConnectStep == ASSUME Inv, NEW t \in Callers, connect(t) PROVE Inv'
<1>1. /\ UNCHANGED <<role, jobs, doSends, cb, calls, why, listed, stopped, sends, frames, packets>>
      /\ role = "client" /\ c.state = "not_connected" /\ ~c.isClosed
      /\ pc[t] = "idle" /\ pc' = [pc EXCEPT ![t] = "timing"]
      /\ c' = [c EXCEPT !.state = "connecting"] /\ ops' = ops \cup {"resolve"}
  BY DEF connect, Goto, counters
<1>2. c \in Members /\ pc \in [Callers -> {"idle", "timing", "sending", "waiting", "closed", "inline", "returned"}]
      /\ ops \subseteq Operations
  BY DEF Inv, TypeOK
<1>3. c' \in Members /\ c'.state = "connecting" /\ c'.client = c.client /\ c'.disconnected = c.disconnected
      /\ c'.isConnected = c.isConnected /\ c'.tls = c.tls /\ c'.queued = c.queued /\ c'.writing = c.writing
  BY <1>1, <1>2 DEF Members
<1>4. /\ pc' \in [Callers -> {"idle", "timing", "sending", "waiting", "closed", "inline", "returned"}]
      /\ \A s \in Callers : pc'[s] = "closed" <=> pc[s] = "closed"
      /\ \A s \in Callers : pc'[s] = "sending" <=> pc[s] = "sending"
  BY <1>1, <1>2
<1>5. TypeOK'
  <2>1. ops' \subseteq Operations
    BY <1>1, <1>2 DEF Operations
  <2> QED BY <1>1, <1>3, <1>4, <2>1 DEF Inv, TypeOK
<1>6. Held' /\ Started'
  <2>1. Job("accepted") \notin jobs
    BY <1>1 DEF Inv, Started
  <2>2. c.client /\ ~c.isConnected /\ "send" \notin ops
    BY <1>1 DEF Inv, Held, Started, EndedIsClosed
  <2> QED BY <1>1, <1>3, <2>1, <2>2 DEF Inv, Held, Started
<1>7. CallbacksInOrder' /\ Told'
  BY <1>1, <1>3, <1>4, QuietFrame
<1>8. CloseWaits' /\ NoLostSend' /\ EndedIsClosed'
  BY <1>1, <1>3, <1>4 DEF Inv, CloseWaits, Silent, NoLostSend, EndedIsClosed
<1> QED BY <1>5, <1>6, <1>7, <1>8 DEF Inv

LEMMA StartTimeoutStep == ASSUME Inv, NEW t \in Callers, start_timeout(t) PROVE Inv'
<1>1. /\ UNCHANGED <<role, ops, jobs, doSends, cb, calls, why, listed, stopped, sends, frames, packets>>
      /\ pc[t] = "timing" /\ pc' = [pc EXCEPT ![t] = "idle"]
      /\ c' = [c EXCEPT !.timer = "armed"]
  BY DEF start_timeout, Goto, counters
<1>2. c \in Members /\ pc \in [Callers -> {"idle", "timing", "sending", "waiting", "closed", "inline", "returned"}]
  BY DEF Inv, TypeOK
<1>3. c' \in Members /\ c'.state = c.state /\ c'.client = c.client /\ c'.disconnected = c.disconnected
      /\ c'.isConnected = c.isConnected /\ c'.tls = c.tls /\ c'.queued = c.queued /\ c'.writing = c.writing
      /\ c'.isClosed = c.isClosed
  BY <1>1, <1>2 DEF Members
<1>4. /\ pc' \in [Callers -> {"idle", "timing", "sending", "waiting", "closed", "inline", "returned"}]
      /\ \A s \in Callers : pc'[s] = "closed" <=> pc[s] = "closed"
      /\ \A s \in Callers : pc'[s] = "sending" <=> pc[s] = "sending"
  BY <1>1, <1>2
<1>5. TypeOK'
  BY <1>1, <1>3, <1>4 DEF Inv, TypeOK
<1>6. Held' /\ Started'
  <2>1. c.state # "not_connected" \/ c.isClosed
    BY <1>1 DEF Inv, Started
  <2> QED BY <1>1, <1>3, <2>1 DEF Inv, Held, Started
<1>7. CallbacksInOrder' /\ Told'
  BY <1>1, <1>3, <1>4, QuietFrame
<1>8. CloseWaits' /\ NoLostSend' /\ EndedIsClosed'
  BY <1>1, <1>3, <1>4 DEF Inv, CloseWaits, Silent, NoLostSend, EndedIsClosed
<1> QED BY <1>5, <1>6, <1>7, <1>8 DEF Inv

LEMMA ServerHandshakeStep == ASSUME Inv, start_server_handshake PROVE Inv'
<1>1. /\ UNCHANGED <<role, ops, doSends, cb, calls, why, listed, pc, stopped, sends, frames, packets>>
      /\ Job("accepted") \in jobs
      /\ c' = [c EXCEPT !.state = "connecting", !.timer = "armed"]
      /\ jobs' = (jobs \ {Job("accepted")}) \cup {Job("start")}
  BY DEF start_server_handshake, counters, owner
<1>2. c \in Members /\ jobs \subseteq Jobs
  BY DEF Inv, TypeOK
<1>3. c' \in Members /\ c'.state = "connecting" /\ c'.client = c.client /\ c'.disconnected = c.disconnected
      /\ c'.isConnected = c.isConnected /\ c'.tls = c.tls /\ c'.queued = c.queued /\ c'.writing = c.writing
  BY <1>1, <1>2 DEF Members
<1>4. jobs' \subseteq Jobs /\ Job("accepted") \notin jobs'
  BY <1>1, <1>2, JobNames DEF Jobs
<1>5. TypeOK'
  BY <1>1, <1>3, <1>4 DEF Inv, TypeOK
<1>6. Held' /\ Started'
  <2>1. c.state = "not_connected" /\ ops = {}
    BY <1>1 DEF Inv, Started
  <2> QED BY <1>1, <1>3, <1>4, <2>1 DEF Inv, Held, Started
<1>7. CallbacksInOrder' /\ Told'
  BY <1>1, <1>3, QuietFrame
<1>8. CloseWaits' /\ NoLostSend' /\ EndedIsClosed'
  BY <1>1, <1>3 DEF Inv, CloseWaits, Silent, NoLostSend, EndedIsClosed
<1> QED BY <1>5, <1>6, <1>7, <1>8 DEF Inv

LEMMA SendStep == ASSUME Inv, NEW t \in Callers, send(t) PROVE Inv'
<1>1. /\ UNCHANGED <<role, ops, jobs, doSends, cb, calls, why, listed, stopped, frames, packets>>
      /\ pc[t] = "idle" /\ pc' = [pc EXCEPT ![t] = "sending"]
      /\ sends < MaxSends /\ sends' = sends + 1
      /\ c' = [c EXCEPT !.queued = c.queued + 1]
  BY DEF send, Goto
<1>2. c \in Members /\ pc \in [Callers -> {"idle", "timing", "sending", "waiting", "closed", "inline", "returned"}]
      /\ sends \in 0..MaxSends /\ c.queued + 1 \in Nat
  BY DEF Inv, TypeOK, Members
<1>3. c' \in Members /\ c'.state = c.state /\ c'.client = c.client /\ c'.disconnected = c.disconnected
      /\ c'.isConnected = c.isConnected /\ c'.tls = c.tls /\ c'.isClosed = c.isClosed /\ c'.timer = c.timer
  BY <1>1, <1>2 DEF Members
<1>4. /\ pc' \in [Callers -> {"idle", "timing", "sending", "waiting", "closed", "inline", "returned"}]
      /\ \A s \in Callers : pc'[s] = "closed" <=> pc[s] = "closed"
      /\ \A s \in Callers : pc'[s] = "timing" <=> pc[s] = "timing"
      /\ pc'[t] = "sending"
  BY <1>1, <1>2
<1>5. TypeOK'
  <2>1. MaxSends \in Nat
    BY ConstantAssumption
  <2>2. sends' \in 0..MaxSends
    BY <1>1, <1>2, <2>1
  <2> QED BY <1>1, <1>3, <1>4, <2>2 DEF Inv, TypeOK
<1>6. Held' /\ Started'
  BY <1>1, <1>3, <1>4 DEF Inv, Held, Started
<1>7. CallbacksInOrder' /\ Told'
  BY <1>1, <1>3, <1>4, QuietFrame
<1>8. CloseWaits' /\ NoLostSend' /\ EndedIsClosed'
  BY <1>1, <1>3, <1>4 DEF Inv, CloseWaits, Silent, NoLostSend, EndedIsClosed
<1> QED BY <1>5, <1>6, <1>7, <1>8 DEF Inv

LEMMA SendPostStep == ASSUME Inv, NEW t \in Callers, send_post(t) PROVE Inv'
<1>1. /\ UNCHANGED <<role, c, ops, jobs, cb, calls, why, listed, stopped, sends, frames, packets>>
      /\ pc[t] = "sending" /\ pc' = [pc EXCEPT ![t] = "idle"]
      /\ doSends' = IF c.isConnected THEN doSends + 1 ELSE doSends
  BY DEF send_post, Goto, counters
<1>2. pc \in [Callers -> {"idle", "timing", "sending", "waiting", "closed", "inline", "returned"}]
      /\ doSends \in Nat
  BY DEF Inv, TypeOK
<1>3. doSends' \in Nat /\ (c.isConnected => doSends' > 0)
  BY <1>1, <1>2
<1>4. /\ pc' \in [Callers -> {"idle", "timing", "sending", "waiting", "closed", "inline", "returned"}]
      /\ \A s \in Callers : pc'[s] = "closed" <=> pc[s] = "closed"
      /\ \A s \in Callers : pc'[s] = "timing" <=> pc[s] = "timing"
  BY <1>1, <1>2
<1>5. TypeOK'
  BY <1>1, <1>3, <1>4 DEF Inv, TypeOK
<1>6. Held' /\ Started'
  BY <1>1, <1>4 DEF Inv, Held, Started
<1>7. CallbacksInOrder' /\ Told'
  BY <1>1, <1>4, QuietFrame
<1>8. CloseWaits' /\ NoLostSend' /\ EndedIsClosed'
  BY <1>1, <1>3, <1>4 DEF Inv, CloseWaits, Silent, NoLostSend, EndedIsClosed
<1> QED BY <1>5, <1>6, <1>7, <1>8 DEF Inv

LEMMA CloseCallStep == ASSUME Inv, NEW t \in Callers, close(t) PROVE Inv'
<1>1. UNCHANGED <<role, ops, doSends, cb, calls, why, listed, stopped, sends, frames, packets>>
  BY DEF close, counters
<1>2. c \in Members /\ pc \in [Callers -> {"idle", "timing", "sending", "waiting", "closed", "inline", "returned"}]
      /\ jobs \subseteq Jobs
  BY DEF Inv, TypeOK
<1>3. PICK to \in {"waiting", "returned"} : pc[t] = "idle" /\ pc' = [pc EXCEPT ![t] = to]
  BY DEF close, Goto
<1>4. /\ pc' \in [Callers -> {"idle", "timing", "sending", "waiting", "closed", "inline", "returned"}]
      /\ \A s \in Callers : pc'[s] = "closed" <=> pc[s] = "closed"
      /\ \A s \in Callers : pc'[s] = "timing" <=> pc[s] = "timing"
      /\ \A s \in Callers : pc'[s] = "sending" <=> pc[s] = "sending"
  BY <1>2, <1>3
<1>5. c' = c \/ c' = [c EXCEPT !.isClosed = TRUE]
  BY DEF close
<1>6. c' \in Members /\ c'.state = c.state /\ c'.client = c.client /\ c'.disconnected = c.disconnected
      /\ c'.isConnected = c.isConnected /\ c'.tls = c.tls /\ c'.queued = c.queued /\ c'.writing = c.writing
      /\ c'.timer = c.timer /\ (c.isClosed => c'.isClosed)
  BY <1>2, <1>5 DEF Members
<1>7. jobs' = jobs \/ jobs' = jobs \cup {CloseJob(t)}
  BY DEF close
<1>8. jobs' \subseteq Jobs /\ \A n \in {"accepted", "start"} : Job(n) \in jobs' <=> Job(n) \in jobs
  BY <1>2, <1>7, JobNames DEF Jobs
<1>9. TypeOK'
  BY <1>1, <1>4, <1>6, <1>8 DEF Inv, TypeOK
<1>10. Held' /\ Started'
  BY <1>1, <1>4, <1>6, <1>8 DEF Inv, Held, Started
<1>11. CallbacksInOrder' /\ Told'
  BY <1>1, <1>4, <1>6, QuietFrame
<1>12. CloseWaits' /\ NoLostSend' /\ EndedIsClosed'
  BY <1>1, <1>4, <1>6 DEF Inv, CloseWaits, Silent, NoLostSend, EndedIsClosed
<1> QED BY <1>9, <1>10, <1>11, <1>12 DEF Inv

LEMMA CloseLaterStep == ASSUME Inv, NEW t \in Callers, close_later(t) PROVE Inv'
<1>1. UNCHANGED <<role, c, ops, doSends, cb, calls, why, listed, pc, stopped, sends, frames, packets>>
      /\ jobs' = jobs \cup {Job("later")}
  BY DEF close_later, counters, owner
<1>2. jobs' \subseteq Jobs /\ \A n \in {"accepted", "start"} : Job(n) \in jobs' <=> Job(n) \in jobs
  BY <1>1, JobNames DEF Jobs, Inv, TypeOK
<1>3. TypeOK' /\ Held' /\ Started'
  BY <1>1, <1>2 DEF Inv, TypeOK, Held, Started
<1>4. CallbacksInOrder' /\ Told'
  BY <1>1, QuietFrame
<1>5. CloseWaits' /\ NoLostSend' /\ EndedIsClosed'
  BY <1>1 DEF Inv, CloseWaits, Silent, NoLostSend, EndedIsClosed
<1> QED BY <1>3, <1>4, <1>5 DEF Inv

LEMMA StopStep == ASSUME Inv, Stop PROVE Inv'
<1>1. UNCHANGED <<role, c, ops, jobs, doSends, cb, calls, why, listed, pc, sends, frames, packets>>
      /\ stopped' = TRUE
  BY DEF Stop, counters
<1>2. TypeOK' /\ Held' /\ Started'
  BY <1>1 DEF Inv, TypeOK, Held, Started
<1>3. CallbacksInOrder' /\ Told'
  BY <1>1, QuietFrame
<1>4. CloseWaits' /\ NoLostSend' /\ EndedIsClosed'
  BY <1>1 DEF Inv, CloseWaits, Silent, NoLostSend, EndedIsClosed
<1> QED BY <1>2, <1>3, <1>4 DEF Inv

\* do_close, wherever it runs: the owner is gone and is told nothing.
LEMMA ClosedStep ==
    ASSUME Inv, NEW m \in Members, m = c \/ m = [c EXCEPT !.isClosed = TRUE], c' = Closed(m),
           \E gone \in SUBSET jobs : jobs' = (jobs \ gone) \cup RemoveJobs(c),
           UNCHANGED <<role, ops, doSends, cb, calls, why, listed, stopped, sends, frames, packets>>,
           pc' \in [Callers -> {"idle", "timing", "sending", "waiting", "closed", "inline", "returned"}],
           \A s \in Callers : pc'[s] = "timing" => pc[s] = "timing",
           (\E s \in Callers : pc'[s] = "closed") => Silent
    PROVE  Inv'
<1>1. c \in Members /\ jobs \subseteq Jobs
  BY DEF Inv, TypeOK
<1>2. m.client = c.client /\ m.disconnected = c.disconnected /\ m.isConnected = c.isConnected
      /\ m.tls = c.tls /\ m.state = c.state /\ m.timer = c.timer /\ (c.isClosed => m.isClosed)
  BY <1>1 DEF Members
<1>3. /\ c' \in Members /\ c'.disconnected /\ ~c'.client /\ ~c'.isConnected /\ c'.tls # "open"
      /\ c.timer = "off" => c'.timer = "off"
      /\ c.isClosed => c'.isClosed
      /\ \/ c.disconnected /\ c'.state = c.state
         \/ c'.state = "not_connected" /\ c'.isClosed
  <2>1. (m.client <=> ~m.disconnected) /\ (m.tls = "open" => m.client) /\ (m.isConnected => m.client)
    BY <1>2 DEF Inv, Held
  <2> QED BY <1>2, <2>1, ClosedIs
<1>4. jobs' \subseteq Jobs /\ \A n \in {"accepted", "start"} : Job(n) \in jobs' => Job(n) \in jobs
  <2>1. RemoveJobs(c) \subseteq {Job("remove")}
    BY DEF RemoveJobs
  <2>2. jobs' \subseteq jobs \cup {Job("remove")}
    BY <2>1
  <2> QED BY <1>1, <2>2, JobNames DEF Jobs
<1>5. TypeOK'
  BY <1>3, <1>4 DEF Inv, TypeOK
<1>6. EndedIsClosed'
  BY <1>3 DEF Inv, EndedIsClosed
<1>7. Held'
  BY <1>3 DEF Held
<1>8. Started'
  <2>1. ~(c'.state = "not_connected" /\ ~c'.isClosed)
    BY <1>3, <1>6 DEF EndedIsClosed
  <2>2. c.state = "not_connected" => c'.state = "not_connected"
    BY <1>3
  <2> QED BY <1>4, <2>1, <2>2 DEF Inv, Started
<1>9. CallbacksInOrder' /\ Told'
  BY <1>3, QuietFrame
<1>10. CloseWaits' /\ NoLostSend'
  BY <1>3 DEF CloseWaits, Silent, NoLostSend
<1> QED BY <1>5, <1>6, <1>7, <1>8, <1>9, <1>10 DEF Inv

LEMMA CloseStoppedStep == ASSUME Inv, NEW t \in Callers, CloseStopped(t) PROVE Inv'
<1>1. UNCHANGED <<role, ops, doSends, cb, calls, why, listed, stopped, sends, frames, packets>>
      /\ pc[t] = "waiting" /\ pc' = [pc EXCEPT ![t] = "inline"]
      /\ c' = Closed(c) /\ jobs' = jobs \cup RemoveJobs(c)
  BY DEF CloseStopped, Goto, counters
<1>2. c \in Members /\ pc \in [Callers -> {"idle", "timing", "sending", "waiting", "closed", "inline", "returned"}]
  BY DEF Inv, TypeOK
<1>3. /\ pc' \in [Callers -> {"idle", "timing", "sending", "waiting", "closed", "inline", "returned"}]
      /\ \A s \in Callers : pc'[s] = "timing" => pc[s] = "timing"
      /\ \A s \in Callers : pc'[s] = "closed" => pc[s] = "closed"
  BY <1>1, <1>2
<1>4. (\E s \in Callers : pc'[s] = "closed") => Silent
  BY <1>3 DEF Inv, CloseWaits
<1>5. \E gone \in SUBSET jobs : jobs' = (jobs \ gone) \cup RemoveJobs(c)
  <2>1. {} \in SUBSET jobs /\ jobs' = (jobs \ {}) \cup RemoveJobs(c)
    BY <1>1
  <2> QED BY <2>1
<1> QED BY <1>1, <1>2, <1>3, <1>4, <1>5, ClosedStep

LEMMA CloseInCallbackStep == ASSUME Inv, CloseInCallback PROVE Inv'
<1>1. UNCHANGED <<role, ops, doSends, cb, calls, why, listed, pc, stopped, sends, frames, packets>>
      /\ c' = Closed([c EXCEPT !.isClosed = TRUE]) /\ jobs' = jobs \cup RemoveJobs(c)
  BY DEF CloseInCallback, counters, owner
<1>2. c \in Members /\ pc \in [Callers -> {"idle", "timing", "sending", "waiting", "closed", "inline", "returned"}]
      /\ [c EXCEPT !.isClosed = TRUE] \in Members
  BY DEF Inv, TypeOK, Members
<1>3. (\E s \in Callers : pc'[s] = "closed") => Silent
  BY <1>1 DEF Inv, CloseWaits
<1>4. \E gone \in SUBSET jobs : jobs' = (jobs \ gone) \cup RemoveJobs(c)
  <2>1. {} \in SUBSET jobs /\ jobs' = (jobs \ {}) \cup RemoveJobs(c)
    BY <1>1
  <2> QED BY <2>1
<1>5. PICK m \in Members : m = [c EXCEPT !.isClosed = TRUE] /\ c' = Closed(m)
  BY <1>1, <1>2
<1> QED BY <1>1, <1>2, <1>3, <1>4, <1>5, ClosedStep

LEMMA RunCloseStep == ASSUME Inv, NEW t \in Callers, RunClose(t) PROVE Inv'
<1>1. UNCHANGED <<role, ops, doSends, cb, calls, why, listed, stopped, sends, frames, packets>>
      /\ cb = "none" /\ CloseJob(t) \in jobs
      /\ pc' = [pc EXCEPT ![t] = "closed"]
      /\ c' = Closed(c) /\ jobs' = (jobs \ {CloseJob(t)}) \cup RemoveJobs(c)
  BY DEF RunClose, Run, counters
<1>2. c \in Members /\ pc \in [Callers -> {"idle", "timing", "sending", "waiting", "closed", "inline", "returned"}]
  BY DEF Inv, TypeOK
<1>3. /\ pc' \in [Callers -> {"idle", "timing", "sending", "waiting", "closed", "inline", "returned"}]
      /\ \A s \in Callers : pc'[s] = "timing" => pc[s] = "timing"
  BY <1>1, <1>2
<1>4. (\E s \in Callers : pc'[s] = "closed") => Silent
  BY <1>1 DEF Silent
<1>5. \E gone \in SUBSET jobs : jobs' = (jobs \ gone) \cup RemoveJobs(c)
  <2>1. {CloseJob(t)} \in SUBSET jobs
    BY <1>1
  <2> QED BY <1>1, <2>1
<1> QED BY <1>1, <1>2, <1>3, <1>4, <1>5, ClosedStep

-----------------------------------------------------------------------------
(* The strand: completions.                                                *)

\* An operation is under way for no impl that is fresh or only accepted.
LEMMA UnderWay ==
    ASSUME Inv, NEW op, Complete(op)
    PROVE  /\ cb = "none" /\ op \in ops /\ UNCHANGED <<role, listed, pc, stopped, sends>>
           /\ c.state = "not_connected" => c.isClosed
           /\ Job("accepted") \notin jobs
           /\ c \in Members /\ ops \subseteq Operations
BY DEF Complete, owner, Inv, Started, TypeOK

\* A handler that fails ends the connection.
LEMMA FailStep ==
    ASSUME Inv, NEW op, Complete(op), ops' = ops \ {op}, NEW m \in Members,
           m = c \/ m = [c EXCEPT !.writing = FALSE], handle_disconnect(m, "error"),
           UNCHANGED <<jobs, doSends, frames, packets>>
    PROVE  Inv'
<1>1. cb = "none" /\ UNCHANGED <<role, listed, pc, stopped, sends>> /\ c \in Members
      /\ (c.state = "not_connected" => c.isClosed)
  BY UnderWay
<1>2. m.client = c.client /\ m.disconnected = c.disconnected /\ m.isConnected = c.isConnected
      /\ m.state = c.state /\ m.tls = c.tls /\ m.isClosed = c.isClosed /\ m.timer = c.timer
  BY <1>1 DEF Members
<1>3. ops' \subseteq ops /\ jobs' \subseteq jobs
  OBVIOUS
<1> QED BY <1>1, <1>2, <1>3, EndStep

\* A handler that tells the owner nothing and goes on with another operation.
LEMMA GoOnStep ==
    ASSUME Inv, NEW op, Complete(op), c' = c \/ (c' = StartTls(c) /\ c.client),
           ops' \subseteq Operations, "send" \in ops' => "send" \in ops,
           UNCHANGED <<jobs, doSends, cb, calls, why, frames>>, packets' \in 0..MaxPackets
    PROVE  Inv'
<1>1. /\ cb = "none" /\ UNCHANGED <<role, listed, pc, stopped, sends>>
      /\ c.state = "not_connected" => c.isClosed
      /\ Job("accepted") \notin jobs /\ c \in Members
  BY UnderWay
<1>2. c' \in Members /\ c'.state = c.state /\ c'.client = c.client /\ c'.disconnected = c.disconnected
      /\ c'.isConnected = c.isConnected /\ c'.queued = c.queued /\ c'.writing = c.writing
      /\ c'.isClosed = c.isClosed /\ (c'.tls = "open" => c.tls = "open" \/ c.client)
  BY <1>1 DEF Members, StartTls
<1>3. TypeOK'
  BY <1>1, <1>2 DEF Inv, TypeOK
<1>4. Held' /\ Started'
  BY <1>1, <1>2 DEF Inv, Held, Started
<1>5. CallbacksInOrder' /\ Told'
  BY <1>1, <1>2, QuietFrame
<1>6. CloseWaits' /\ NoLostSend' /\ EndedIsClosed'
  BY <1>1, <1>2 DEF Inv, CloseWaits, Silent, NoLostSend, EndedIsClosed
<1> QED BY <1>3, <1>4, <1>5, <1>6 DEF Inv

LEMMA ResolveStep == ASSUME Inv, on_resolve PROVE Inv'
<1>1. Complete("resolve") /\ UNCHANGED <<jobs, doSends, frames, packets>>
  BY DEF on_resolve
<1>2. c \in Members /\ ops \subseteq Operations /\ packets \in 0..MaxPackets
  BY DEF Inv, TypeOK
<1>3. CASE ops' = (ops \ {"resolve"}) \cup {"connect"} /\ UNCHANGED <<c, cb, calls, why>>
  <2>1. ops' \subseteq Operations /\ ("send" \in ops' => "send" \in ops)
    BY <1>2, <1>3 DEF Operations
  <2> QED BY <1>1, <1>2, <1>3, <2>1, GoOnStep
<1>4. CASE ops' = ops \ {"resolve"} /\ handle_disconnect(c, "error")
  BY <1>1, <1>2, <1>4, FailStep
<1> QED BY <1>3, <1>4 DEF on_resolve

LEMMA TcpStep == ASSUME Inv, on_connect PROVE Inv'
<1>1. Complete("connect") /\ UNCHANGED <<jobs, doSends, frames, packets>>
  BY DEF on_connect
<1>2. c \in Members /\ ops \subseteq Operations /\ packets \in 0..MaxPackets
  BY DEF Inv, TypeOK
<1>3. CASE c.client /\ ops' = (ops \ {"connect"}) \cup {"tls"} /\ c' = StartTls(c) /\ UNCHANGED <<cb, calls, why>>
  <2>1. ops' \subseteq Operations /\ ("send" \in ops' => "send" \in ops)
    BY <1>2, <1>3 DEF Operations
  <2> QED BY <1>1, <1>2, <1>3, <2>1, GoOnStep
<1>4. CASE ops' = ops \ {"connect"} /\ handle_disconnect(c, "error")
  BY <1>1, <1>2, <1>4, FailStep
<1> QED BY <1>3, <1>4 DEF on_connect

LEMMA TlsStep == ASSUME Inv, on_tls_handshake PROVE Inv'
<1>1. Complete("tls") /\ UNCHANGED <<jobs, doSends, frames, packets>>
  BY DEF on_tls_handshake
<1>2. c \in Members /\ ops \subseteq Operations /\ packets \in 0..MaxPackets
  BY DEF Inv, TypeOK
<1>3. CASE /\ ops' = (ops \ {"tls"}) \cup {"recv"} \cup (IF role = "client" THEN {"hsend"} ELSE {})
           /\ UNCHANGED <<c, cb, calls, why>>
  <2>1. ops' \subseteq Operations /\ ("send" \in ops' => "send" \in ops)
    BY <1>2, <1>3 DEF Operations
  <2> QED BY <1>1, <1>2, <1>3, <2>1, GoOnStep
<1>4. CASE ops' = ops \ {"tls"} /\ handle_disconnect(c, "error")
  BY <1>1, <1>2, <1>4, FailStep
<1> QED BY <1>3, <1>4 DEF on_tls_handshake

LEMMA HandshakeSentStep == ASSUME Inv, HandshakeSent PROVE Inv'
<1>1. Complete("hsend") /\ ops' = ops \ {"hsend"} /\ UNCHANGED <<jobs, doSends, frames, packets>>
  BY DEF HandshakeSent
<1>2. c \in Members /\ ops \subseteq Operations /\ packets \in 0..MaxPackets
  BY DEF Inv, TypeOK
<1>3. CASE UNCHANGED <<c, cb, calls, why>>
  <2>1. ops' \subseteq Operations /\ ("send" \in ops' => "send" \in ops)
    BY <1>1, <1>2
  <2> QED BY <1>1, <1>2, <1>3, <2>1, GoOnStep
<1>4. CASE handle_disconnect(c, "error")
  BY <1>1, <1>2, <1>4, FailStep
<1> QED BY <1>3, <1>4 DEF HandshakeSent

\* The handshake is over: on_connected, and nothing was said before.
LEMMA MadeStep ==
    ASSUME Inv, Complete("recv"), c.state # "connected", c.tls = "open",
           ops' \subseteq Operations, "send" \in ops' => "send" \in ops,
           c' = become_connected(c), Notify(c, "connected"),
           UNCHANGED <<why, packets, jobs, doSends, frames>>
    PROVE  Inv'
<1>1. /\ cb = "none" /\ UNCHANGED <<role, listed, pc, stopped, sends>>
      /\ Job("accepted") \notin jobs /\ c \in Members
  BY UnderWay
<1>2. c.client /\ ~c.isConnected /\ ~c.disconnected /\ calls = <<>> /\ why = "nothing"
      /\ \A t \in Callers : pc[t] # "closed"
  BY DEF Inv, Held, Told
<1>3. c' \in Members /\ c'.state = "connected" /\ c'.isConnected /\ c'.client = c.client
      /\ c'.disconnected = c.disconnected /\ c'.tls = c.tls
  BY <1>1 DEF become_connected, CancelTimer, Members
<1>4. cb' = "connected" /\ calls' = <<"connected">>
  BY <1>2 DEF Notify
<1>5. calls' \in Seq(Callbacks) /\ cb' \in Callbacks \cup {"none", "ending"}
  BY <1>4 DEF Callbacks
<1>6. calls' # <<>> /\ DOMAIN calls' = {1} /\ Len(calls') = 1 /\ calls'[1] = "connected"
  BY <1>4
<1>7. TypeOK'
  BY <1>1, <1>3, <1>5 DEF Inv, TypeOK
<1>8. Held' /\ Started'
  BY <1>1, <1>2, <1>3, <1>4 DEF Held, Started
<1>9. Told' /\ CallbacksInOrder'
  BY <1>1, <1>2, <1>3, <1>6 DEF Told, CallbacksInOrder
<1>10. CloseWaits' /\ NoLostSend' /\ EndedIsClosed'
  BY <1>1, <1>2, <1>3, <1>4 DEF CloseWaits, NoLostSend, EndedIsClosed
<1> QED BY <1>7, <1>8, <1>9, <1>10 DEF Inv

LEMMA HandshakeFrameStep == ASSUME Inv, on_handshake_frame PROVE Inv'
<1>1. Complete("recv") /\ c.state # "connected" /\ UNCHANGED <<jobs, doSends, frames>>
  BY DEF on_handshake_frame
<1>2. c \in Members /\ ops \subseteq Operations /\ packets \in 0..MaxPackets
  BY DEF Inv, TypeOK
<1>3. CASE /\ c.tls = "open"
           /\ \E answer \in Answers : ops' = (ops \ {"recv"}) \cup answer
           /\ c' = become_connected(c) /\ Notify(c, "connected") /\ UNCHANGED <<why, packets>>
  <2>1. ops' \subseteq Operations /\ ("send" \in ops' => "send" \in ops)
    BY <1>2, <1>3 DEF Operations, Answers
  <2> QED BY <1>1, <1>3, <2>1, MadeStep
<1>4. CASE /\ packets < MaxPackets /\ packets' = packets + 1
           /\ ops' = (ops \ {"recv"}) \cup {"hsend", "recv"} /\ UNCHANGED <<c, cb, calls, why>>
  <2>1. ops' \subseteq Operations /\ ("send" \in ops' => "send" \in ops)
    BY <1>2, <1>4 DEF Operations
  <2>2. MaxPackets \in Nat
    BY ConstantAssumption
  <2>3. packets' \in 0..MaxPackets
    BY <1>2, <1>4, <2>2
  <2> QED BY <1>1, <1>4, <2>1, <2>3, GoOnStep
<1>5. CASE ops' = ops \ {"recv"} /\ handle_disconnect(c, "error") /\ UNCHANGED packets
  BY <1>1, <1>2, <1>5, FailStep
<1> QED BY <1>3, <1>4, <1>5 DEF on_handshake_frame

LEMMA DataFrameStep == ASSUME Inv, on_data_frame PROVE Inv'
<1>1. Complete("recv") /\ c.state = "connected" /\ ops' = ops \ {"recv"} /\ UNCHANGED <<jobs, doSends, packets>>
  BY DEF on_data_frame
<1>2. /\ cb = "none" /\ UNCHANGED <<role, listed, pc, stopped, sends>>
      /\ Job("accepted") \notin jobs /\ c \in Members
      /\ ops' \subseteq Operations /\ ("send" \in ops' => "send" \in ops)
  BY <1>1, UnderWay
<1>3. CASE frames < MaxFrames /\ frames' = frames + 1 /\ Notify(c, "received") /\ UNCHANGED <<c, why>>
  <2>1. frames' \in 0..MaxFrames
    <3>1. MaxFrames \in Nat /\ frames \in 0..MaxFrames
      BY ConstantAssumption DEF Inv, TypeOK
    <3> QED BY <1>3, <3>1
  <2>2. c.client => c.isConnected
    BY <1>1 DEF Inv, Held
  <2>3. /\ calls' \in Seq(Callbacks) /\ cb' \in Callbacks \cup {"none", "ending"}
        /\ CallbacksInOrder'
        /\ c.client /\ c.isConnected =>
              /\ calls' # <<>>
              /\ \A i \in DOMAIN calls' : calls'[i] # "disconnected" /\ (calls'[i] = "connected" <=> i = 1)
        /\ c.client => cb' = "received"
        /\ ~c.client => cb' = "none"
    BY <1>2, <1>3, <2>2, TellStep
  <2>4. TypeOK'
    BY <1>1, <1>2, <1>3, <2>1, <2>3 DEF Inv, TypeOK
  <2>5. Held' /\ Started'
    BY <1>1, <1>2, <1>3, <2>3 DEF Inv, Held, Started
  <2>6. Told'
    BY <1>2, <1>3, <2>2, <2>3 DEF Inv, Told
  <2>7. CloseWaits'
    BY <1>2, <1>3, <2>3 DEF Inv, CloseWaits, Silent, Told
  <2>8. NoLostSend' /\ EndedIsClosed'
    BY <1>1, <1>2, <1>3 DEF Inv, NoLostSend, EndedIsClosed
  <2> QED BY <2>3, <2>4, <2>5, <2>6, <2>7, <2>8 DEF Inv
<1>4. CASE handle_disconnect(c, "error") /\ UNCHANGED frames
  BY <1>1, <1>2, <1>4, FailStep
<1> QED BY <1>3, <1>4 DEF on_data_frame

LEMMA SentStep == ASSUME Inv, OnSent PROVE Inv'
<1>1. Complete("send") /\ ops' = ops \ {"send"} /\ UNCHANGED <<jobs, doSends, frames, packets>>
  BY DEF OnSent
<1>2. /\ cb = "none" /\ UNCHANGED <<role, listed, pc, stopped, sends>>
      /\ Job("accepted") \notin jobs /\ c \in Members /\ "send" \in ops
      /\ ops' \subseteq Operations /\ (c.state = "not_connected" => c.isClosed)
  BY <1>1, UnderWay
<1>3. PICK m \in Members :
        /\ m = [c EXCEPT !.writing = FALSE]
        /\ (c' = m /\ Notify(m, "sent") /\ UNCHANGED why) \/ handle_disconnect(m, "error")
  <2>1. [c EXCEPT !.writing = FALSE] \in Members
    BY <1>2 DEF Members
  <2> QED BY <2>1 DEF OnSent
<1>4. m.client = c.client /\ m.disconnected = c.disconnected /\ m.isConnected = c.isConnected
      /\ m.state = c.state /\ m.tls = c.tls /\ m.isClosed = c.isClosed /\ m.timer = c.timer
  BY <1>2, <1>3 DEF Members
<1>5. CASE c' = m /\ Notify(m, "sent") /\ UNCHANGED why
  <2>1. c.client => c.isConnected
    BY <1>2 DEF Inv, Held
  <2>2. Notify(c, "sent")
    BY <1>4, <1>5 DEF Notify
  <2>3. /\ calls' \in Seq(Callbacks) /\ cb' \in Callbacks \cup {"none", "ending"}
        /\ CallbacksInOrder'
        /\ c.client /\ c.isConnected =>
              /\ calls' # <<>>
              /\ \A i \in DOMAIN calls' : calls'[i] # "disconnected" /\ (calls'[i] = "connected" <=> i = 1)
        /\ c.client => cb' = "sent"
        /\ ~c.client => cb' = "none"
    BY <1>2, <1>5, <2>1, <2>2, TellStep
  <2>4. TypeOK'
    BY <1>1, <1>2, <1>5, <2>3 DEF Inv, TypeOK
  <2>5. Held' /\ Started'
    BY <1>1, <1>2, <1>4, <1>5, <2>3 DEF Inv, Held, Started
  <2>6. Told'
    BY <1>2, <1>4, <1>5, <2>1, <2>3 DEF Inv, Told
  <2>7. CloseWaits'
    BY <1>2, <2>3 DEF Inv, CloseWaits, Silent, Told
  <2>8. NoLostSend' /\ EndedIsClosed'
    BY <1>4, <1>5, <2>3 DEF Inv, Held, NoLostSend, EndedIsClosed
  <2> QED BY <2>3, <2>4, <2>5, <2>6, <2>7, <2>8 DEF Inv
<1>6. CASE handle_disconnect(m, "error")
  BY <1>1, <1>3, <1>6, FailStep
<1> QED BY <1>3, <1>5, <1>6

LEMMA TimerStep == ASSUME Inv, TimerExpires PROVE Inv'
<1>1. UNCHANGED <<role, ops, jobs, doSends, cb, calls, why, listed, pc, stopped, sends, frames, packets>>
      /\ c.timer = "armed" /\ c' = [c EXCEPT !.timer = "expired"] /\ c \in Members
  BY DEF TimerExpires, owner, counters, Inv, TypeOK
<1>2. c' \in Members /\ c'.state = c.state /\ c'.client = c.client /\ c'.disconnected = c.disconnected
      /\ c'.isConnected = c.isConnected /\ c'.tls = c.tls /\ c'.queued = c.queued /\ c'.writing = c.writing
      /\ c'.isClosed = c.isClosed
  BY <1>1 DEF Members
<1>3. TypeOK'
  BY <1>1, <1>2 DEF Inv, TypeOK
<1>4. Held' /\ Started'
  BY <1>1, <1>2 DEF Inv, Held, Started
<1>5. CallbacksInOrder' /\ Told'
  BY <1>1, <1>2, QuietFrame
<1>6. CloseWaits' /\ NoLostSend' /\ EndedIsClosed'
  BY <1>1, <1>2 DEF Inv, CloseWaits, Silent, NoLostSend, EndedIsClosed
<1> QED BY <1>3, <1>4, <1>5, <1>6 DEF Inv

\* The timeout ends what is not connected and nothing else.
LEMMA TimeoutStep == ASSUME Inv, on_timeout PROVE Inv'
<1>1. UNCHANGED <<role, ops, jobs, doSends, listed, pc, stopped, sends, frames, packets>>
      /\ cb = "none" /\ c.timer = "expired" /\ c \in Members
  BY DEF on_timeout, owner, counters, Inv, TypeOK
<1>2. PICK m \in Members :
        /\ m = [c EXCEPT !.timer = "off"]
        /\ IF TimedOut THEN handle_disconnect(m, "timed_out") ELSE c' = m /\ UNCHANGED <<cb, calls, why>>
  <2>1. [c EXCEPT !.timer = "off"] \in Members
    BY <1>1 DEF Members
  <2> QED BY <2>1 DEF on_timeout
<1>3. m.client = c.client /\ m.disconnected = c.disconnected /\ m.isConnected = c.isConnected
      /\ m.state = c.state /\ m.tls = c.tls /\ m.isClosed = c.isClosed /\ m.timer = "off"
      /\ m.queued = c.queued /\ m.writing = c.writing
  BY <1>1, <1>2 DEF Members
<1>4. CASE TimedOut
  <2>1. c.state # "connected" /\ handle_disconnect(m, "timed_out")
    BY <1>2, <1>4 DEF TimedOut
  <2>2. c.state = "not_connected" => c.isClosed
    BY <1>1 DEF Inv, Started
  <2>3. ops' \subseteq ops /\ jobs' \subseteq jobs
    BY <1>1
  <2> QED BY <1>1, <1>3, <2>1, <2>2, <2>3, EndStep
<1>5. CASE ~TimedOut
  <2>1. c' = m /\ UNCHANGED <<cb, calls, why>>
    BY <1>2, <1>5
  <2>2. TypeOK'
    BY <1>1, <2>1 DEF Inv, TypeOK
  <2>3. Held' /\ Started'
    BY <1>1, <1>3, <2>1 DEF Inv, Held, Started
  <2>4. CallbacksInOrder' /\ Told'
    BY <1>1, <1>3, <2>1, QuietFrame
  <2>5. CloseWaits' /\ NoLostSend' /\ EndedIsClosed'
    BY <1>1, <1>3, <2>1 DEF Inv, CloseWaits, Silent, NoLostSend, EndedIsClosed
  <2> QED BY <2>2, <2>3, <2>4, <2>5 DEF Inv
<1> QED BY <1>4, <1>5

-----------------------------------------------------------------------------
(* The strand: posted functions, and the return from a callback.           *)

LEMMA RunStartStep == ASSUME Inv, RunStart PROVE Inv'
<1>1. UNCHANGED <<role, doSends, cb, calls, why, listed, pc, stopped, sends, frames, packets>>
      /\ cb = "none" /\ Job("start") \in jobs /\ c \in Members /\ ops \subseteq Operations
      /\ jobs' = jobs \ {Job("start")} /\ c' = (IF c.client THEN StartTls(c) ELSE c)
      /\ ops' = (IF c.client THEN ops \cup {"tls"} ELSE ops)
  BY DEF RunStart, Run, counters, Inv, TypeOK
<1>2. c' \in Members /\ c'.state = c.state /\ c'.client = c.client /\ c'.disconnected = c.disconnected
      /\ c'.isConnected = c.isConnected /\ c'.queued = c.queued /\ c'.writing = c.writing
      /\ c'.isClosed = c.isClosed /\ (c'.tls = "open" => c.tls = "open" \/ c.client)
  BY <1>1 DEF Members, StartTls
<1>3. ops' \subseteq Operations /\ ("send" \in ops' => "send" \in ops)
  BY <1>1 DEF Operations
<1>4. TypeOK'
  BY <1>1, <1>2, <1>3 DEF Inv, TypeOK
<1>5. Held'
  BY <1>1, <1>2, <1>3 DEF Inv, Held
<1>6. Started'
  <2>1. (c.state = "not_connected" => c.isClosed) /\ Job("accepted") \notin jobs
    BY <1>1 DEF Inv, Started
  <2> QED BY <1>1, <1>2, <2>1 DEF Started
<1>7. CallbacksInOrder' /\ Told'
  BY <1>1, <1>2, QuietFrame
<1>8. CloseWaits' /\ NoLostSend' /\ EndedIsClosed'
  BY <1>1, <1>2 DEF Inv, CloseWaits, Silent, NoLostSend, EndedIsClosed
<1> QED BY <1>4, <1>5, <1>6, <1>7, <1>8 DEF Inv

LEMMA RunLaterStep == ASSUME Inv, RunLater PROVE Inv'
<1>1. UNCHANGED <<role, ops, doSends, listed, pc, stopped, sends, frames, packets>>
      /\ cb = "none" /\ jobs' = jobs \ {Job("later")} /\ c \in Members
  BY DEF RunLater, Run, counters, Inv, TypeOK
<1>2. CASE c.isClosed
  <2>1. UNCHANGED <<c, cb, calls, why>>
    BY <1>2 DEF RunLater
  <2>2. TypeOK' /\ Held' /\ Started'
    BY <1>1, <2>1 DEF Inv, TypeOK, Held, Started
  <2>3. CallbacksInOrder' /\ Told'
    BY <1>1, <2>1, QuietFrame
  <2>4. CloseWaits' /\ NoLostSend' /\ EndedIsClosed'
    BY <1>1, <2>1 DEF Inv, CloseWaits, Silent, NoLostSend, EndedIsClosed
  <2> QED BY <2>2, <2>3, <2>4 DEF Inv
<1>3. CASE ~c.isClosed
  <2>1. [c EXCEPT !.isClosed = TRUE] \in Members
    BY <1>1 DEF Members
  <2>2. PICK m \in Members : m = [c EXCEPT !.isClosed = TRUE] /\ handle_disconnect(m, "closed")
    BY <1>3, <2>1 DEF RunLater
  <2>3. m.client = c.client /\ m.disconnected = c.disconnected /\ m.isConnected = c.isConnected
        /\ m.state = c.state /\ m.tls = c.tls /\ m.isClosed /\ m.timer = c.timer
    BY <1>1, <2>2 DEF Members
  <2>4. ops' \subseteq ops /\ jobs' \subseteq jobs
    BY <1>1
  <2> QED BY <1>1, <2>2, <2>3, <2>4, EndStep
<1> QED BY <1>2, <1>3

LEMMA RunRemoveStep == ASSUME Inv, RunRemove PROVE Inv'
<1>1. UNCHANGED <<role, c, ops, doSends, cb, calls, why, pc, stopped, sends, frames, packets>>
      /\ jobs' = jobs \ {Job("remove")} /\ listed' = FALSE
  BY DEF RunRemove, Run, counters
<1>2. TypeOK' /\ Held' /\ Started'
  BY <1>1 DEF Inv, TypeOK, Held, Started
<1>3. CallbacksInOrder' /\ Told'
  BY <1>1, QuietFrame
<1>4. CloseWaits' /\ NoLostSend' /\ EndedIsClosed'
  BY <1>1 DEF Inv, CloseWaits, Silent, NoLostSend, EndedIsClosed
<1> QED BY <1>2, <1>3, <1>4 DEF Inv

\* The operations that do_send and receive_data start are those of a connection that is made.
LEMMA MoreOps ==
    ASSUME Inv, NEW more, more \subseteq SendOps(c) \cup ReceiveOps(c), ops' = ops \cup more,
           UNCHANGED <<role, jobs, pc>>,
           c'.state = c.state, c'.client = c.client, c'.disconnected = c.disconnected,
           c'.isConnected = c.isConnected, c'.tls = c.tls, c'.timer = c.timer, c'.isClosed = c.isClosed,
           cb' \in {"disconnected", "ending"} => c.disconnected
    PROVE  ops' \subseteq Operations /\ Held' /\ Started'
<1>1. more # {} => c.isConnected
  BY DEF SendOps, ReceiveOps, CanSend
<1>2. c.isConnected => c.client /\ c.state = "connected"
  BY DEF Inv, Held
<1>3. ops' \subseteq Operations
  BY DEF SendOps, ReceiveOps, Operations, Inv, TypeOK
<1>4. Held'
  BY <1>1, <1>2 DEF Inv, Held
<1>5. Started'
  <2>1. CASE more = {}
    BY <2>1 DEF Inv, Started
  <2>2. CASE more # {}
    BY <2>2, <1>1, <1>2 DEF Inv, Started
  <2> QED BY <2>1, <2>2
<1> QED BY <1>3, <1>4, <1>5

LEMMA RunDoSendStep == ASSUME Inv, RunDoSend PROVE Inv'
<1>1. UNCHANGED <<role, jobs, cb, calls, why, listed, pc, stopped, sends, frames, packets>>
      /\ cb = "none" /\ doSends > 0 /\ doSends' = doSends - 1 /\ c' = do_send(c) /\ ops' = ops \cup SendOps(c)
      /\ c \in Members /\ doSends \in Nat
  BY DEF RunDoSend, owner, counters, Inv, TypeOK
<1>2. /\ c' \in Members /\ c'.disconnected = c.disconnected /\ c'.client = c.client
      /\ c'.isConnected = c.isConnected /\ c'.tls = c.tls /\ c'.state = c.state
      /\ c'.isClosed = c.isClosed /\ c'.timer = c.timer
      /\ c'.isConnected /\ c'.queued > 0 => c'.writing
  BY <1>1, DoSendIs
<1>3. PICK more : more = SendOps(c)
  OBVIOUS
<1>4. ops' \subseteq Operations /\ Held' /\ Started'
  <2>1. more \subseteq SendOps(c) \cup ReceiveOps(c) /\ ops' = ops \cup more
    BY <1>1, <1>3
  <2> QED BY <1>1, <1>2, <2>1, MoreOps
<1>5. doSends' \in Nat
  BY <1>1
<1>6. TypeOK'
  BY <1>1, <1>2, <1>4, <1>5 DEF Inv, TypeOK
<1>7. CallbacksInOrder' /\ Told'
  BY <1>1, <1>2, QuietFrame
<1>8. CloseWaits' /\ NoLostSend' /\ EndedIsClosed'
  BY <1>1, <1>2 DEF Inv, CloseWaits, Silent, NoLostSend, EndedIsClosed
<1> QED BY <1>4, <1>6, <1>7, <1>8 DEF Inv

LEMMA CallbackReturnsStep == ASSUME Inv, CallbackReturns PROVE Inv'
<1>1. UNCHANGED <<role, jobs, doSends, calls, why, listed, pc, stopped, sends, frames, packets>>
      /\ cb \in {"connected", "received", "sent"} /\ cb' = "none" /\ c \in Members
      /\ c' = (IF SendsAfter THEN do_send(c) ELSE c)
  BY DEF CallbackReturns, owner, counters, Inv, TypeOK
<1>2. /\ c' \in Members /\ c'.disconnected = c.disconnected /\ c'.client = c.client
      /\ c'.isConnected = c.isConnected /\ c'.tls = c.tls /\ c'.state = c.state
      /\ c'.isClosed = c.isClosed /\ c'.timer = c.timer
      /\ SendsAfter /\ c'.isConnected /\ c'.queued > 0 => c'.writing
      /\ ~SendsAfter => c' = c
  BY <1>1, DoSendIs
<1>3. PICK more : /\ more = (IF SendsAfter THEN SendOps(c) ELSE {}) \cup (IF ReceivesAfter THEN ReceiveOps(c) ELSE {})
                  /\ ops' = ops \cup more
  <2>1. PICK A, B : /\ A = (IF SendsAfter THEN SendOps(c) ELSE {}) /\ B = (IF ReceivesAfter THEN ReceiveOps(c) ELSE {})
                    /\ ops' = ops \cup A \cup B
    BY DEF CallbackReturns
  <2>2. (ops \cup A) \cup B = ops \cup (A \cup B)
    OBVIOUS
  <2> QED BY <2>1, <2>2
<1>4. ops' \subseteq Operations /\ Held' /\ Started'
  <2>1. more \subseteq SendOps(c) \cup ReceiveOps(c)
    BY <1>3
  <2> QED BY <1>1, <1>2, <1>3, <2>1, MoreOps
<1>5. TypeOK'
  BY <1>1, <1>2, <1>4 DEF Inv, TypeOK
<1>6. CallbacksInOrder' /\ Told'
  BY <1>1, <1>2, QuietFrame
<1>7. CloseWaits' /\ EndedIsClosed'
  BY <1>1, <1>2 DEF Inv, CloseWaits, Silent, EndedIsClosed
<1>8. NoLostSend'
  BY <1>1, <1>2 DEF Inv, NoLostSend, SendsAfter
<1> QED BY <1>4, <1>5, <1>6, <1>7, <1>8 DEF Inv

LEMMA DisconnectedReturnsStep == ASSUME Inv, OnDisconnectedReturns PROVE Inv'
<1>1. UNCHANGED <<role, ops, jobs, doSends, calls, why, pc, stopped, sends, frames, packets>>
      /\ cb = "disconnected" /\ cb' = "ending" /\ listed' = FALSE /\ c \in Members
      /\ c' = [c EXCEPT !.isClosed = TRUE]
  BY DEF OnDisconnectedReturns, AfterDisconnected, owner, counters, Inv, TypeOK
<1>2. c' \in Members /\ c'.state = c.state /\ c'.client = c.client /\ c'.disconnected = c.disconnected
      /\ c'.isConnected = c.isConnected /\ c'.tls = c.tls /\ c'.queued = c.queued /\ c'.writing = c.writing
      /\ c'.timer = c.timer /\ c'.isClosed
  BY <1>1 DEF Members
<1>3. TypeOK'
  BY <1>1, <1>2 DEF Inv, TypeOK
<1>4. Held' /\ Started'
  BY <1>1, <1>2 DEF Inv, Held, Started
<1>5. CallbacksInOrder' /\ Told'
  BY <1>1, <1>2, QuietFrame
<1>6. CloseWaits' /\ NoLostSend' /\ EndedIsClosed'
  BY <1>1, <1>2 DEF Inv, CloseWaits, Silent, NoLostSend, EndedIsClosed
<1> QED BY <1>3, <1>4, <1>5, <1>6 DEF Inv

LEMMA DisconnectDoneStep == ASSUME Inv, DisconnectDone PROVE Inv'
<1>1. UNCHANGED <<role, ops, jobs, doSends, calls, why, listed, pc, stopped, sends, frames, packets>>
      /\ cb = "ending" /\ cb' = "none" /\ c \in Members
      /\ c' = [c EXCEPT !.isClosed = TRUE, !.state = "not_connected"]
  BY DEF DisconnectDone, owner, counters, Inv, TypeOK
<1>2. c' \in Members /\ c'.state = "not_connected" /\ c'.client = c.client /\ c'.disconnected = c.disconnected
      /\ c'.isConnected = c.isConnected /\ c'.tls = c.tls /\ c'.isClosed
  BY <1>1 DEF Members
<1>3. ~c.client /\ ~c.isConnected
  BY <1>1 DEF Inv, Held
<1>4. TypeOK'
  BY <1>1, <1>2 DEF Inv, TypeOK
<1>5. Held' /\ Started'
  BY <1>1, <1>2, <1>3 DEF Inv, Held, Started
<1>6. CallbacksInOrder' /\ Told'
  BY <1>1, <1>2, QuietFrame
<1>7. CloseWaits' /\ NoLostSend' /\ EndedIsClosed'
  BY <1>1, <1>2, <1>3 DEF CloseWaits, Silent, NoLostSend, EndedIsClosed
<1> QED BY <1>4, <1>5, <1>6, <1>7 DEF Inv

-----------------------------------------------------------------------------
(* The specification.                                                      *)

LEMMA InitInv == Init => Inv
<1> SUFFICES ASSUME Init PROVE Inv
  OBVIOUS
<1>1. calls = <<>> /\ calls \in Seq(Callbacks)
  BY DEF Init
<1>2. jobs \subseteq Jobs
  BY DEF Init, Jobs
<1>3. (Job("accepted") \in jobs => role = "server") /\ Job("start") \notin jobs
  BY JobNames DEF Init
<1>4. TypeOK
  <2>1. 0 \in 0..MaxSends /\ 0 \in 0..MaxFrames /\ 0 \in 0..MaxPackets
    <3>1. MaxSends \in Nat /\ MaxFrames \in Nat /\ MaxPackets \in Nat
      BY ConstantAssumption
    <3> QED BY <3>1
  <2>2. c \in Members
    BY DEF Init, Members
  <2>3. pc \in [Callers -> {"idle", "timing", "sending", "waiting", "closed", "inline", "returned"}]
        /\ listed \in BOOLEAN /\ stopped \in BOOLEAN
    BY DEF Init
  <2>4. sends \in 0..MaxSends /\ frames \in 0..MaxFrames /\ packets \in 0..MaxPackets
        /\ doSends \in Nat /\ ops \subseteq Operations
    BY <2>1 DEF Init
  <2> QED BY <1>1, <1>2, <2>2, <2>3, <2>4 DEF Init, TypeOK
<1>5. Held /\ Started /\ Told
  BY <1>3 DEF Init, Held, Started, Told
<1>6. CallbacksInOrder /\ CloseWaits /\ NoLostSend /\ EndedIsClosed
  BY <1>1 DEF Init, CallbacksInOrder, CloseWaits, Silent, NoLostSend, EndedIsClosed
<1> QED BY <1>4, <1>5, <1>6 DEF Inv

LEMMA StepInv == Inv /\ [Next]_vars => Inv'
<1> SUFFICES ASSUME Inv, [Next]_vars PROVE Inv'
  OBVIOUS
<1>1. ASSUME NEW t \in Callers,
             \/ connect(t) \/ start_timeout(t) \/ send(t) \/ send_post(t)
             \/ close(t) \/ CloseStopped(t) \/ close_later(t) \/ RunClose(t)
      PROVE  Inv'
  BY <1>1, ConnectStep, StartTimeoutStep, SendStep, SendPostStep, CloseCallStep, CloseStoppedStep,
     CloseLaterStep, RunCloseStep
<1>2. CASE start_server_handshake \/ CloseInCallback \/ Stop
  BY <1>2, ServerHandshakeStep, CloseInCallbackStep, StopStep
<1>3. CASE \/ on_resolve \/ on_connect \/ on_tls_handshake \/ on_handshake_frame
           \/ HandshakeSent \/ on_data_frame \/ OnSent \/ TimerExpires \/ on_timeout
  BY <1>3, ResolveStep, TcpStep, TlsStep, HandshakeFrameStep, HandshakeSentStep, DataFrameStep, SentStep,
     TimerStep, TimeoutStep
<1>4. CASE RunStart \/ RunLater \/ RunRemove \/ RunDoSend
  BY <1>4, RunStartStep, RunLaterStep, RunRemoveStep, RunDoSendStep
<1>5. CASE Return
  BY <1>5, CallbackReturnsStep, DisconnectedReturnsStep, DisconnectDoneStep DEF Return
<1>6. CASE UNCHANGED vars
  <2>1. UNCHANGED <<role, c, ops, jobs, doSends, cb, calls, why, listed, pc, stopped, sends, frames, packets>>
    BY <1>6 DEF vars
  <2>2. TypeOK' /\ Held' /\ Started'
    BY <2>1 DEF Inv, TypeOK, Held, Started
  <2>3. CallbacksInOrder' /\ Told'
    BY <2>1, QuietFrame
  <2>4. CloseWaits' /\ NoLostSend' /\ EndedIsClosed'
    BY <2>1 DEF Inv, CloseWaits, Silent, NoLostSend, EndedIsClosed
  <2> QED BY <2>2, <2>3, <2>4 DEF Inv
<1> QED BY <1>1, <1>2, <1>3, <1>4, <1>5, <1>6 DEF Next

LEMMA AlwaysInv == Spec => []Inv
BY InitInv, StepInv, PTL DEF Spec

\* Every member, operation, posted function and callback of encrypted_connection_impl is one of
\* those the code has, and the queues stay countable.
THEOREM ConnectionTypes == Spec => []TypeOK
<1>1. Inv => TypeOK
  BY DEF Inv
<1> QED BY <1>1, AlwaysInv, PTL

\* OwnerIsServed, for any number of the owner's threads and of messages: on_connected first and
\* once, on_disconnected once and last, nothing after a close that has waited, no message left
\* behind in out_queue_, and an ended impl never taken for a fresh one.
THEOREM OwnersAreServed == Spec => []OwnerIsServed
<1>1. Inv => OwnerIsServed
  BY DEF Inv, OwnerIsServed
<1> QED BY <1>1, AlwaysInv, PTL
=============================================================================
