---------------------------- MODULE NetworkProofs ----------------------------
(***************************************************************************)
(* What the parts around a connection keep: the server programs their      *)
(* sessions, the packet client what it has received, the key generation    *)
(* tool its key material, the stores what is put into them, the database   *)
(* its transactions, the sp handshake the trust of both ends, framing the  *)
(* frames, and certificate chains what their certificates grant, for any   *)
(* number of sessions, packets, rows, bytes, keys and certificates and any *)
(* configurations of the two ends.                                         *)
(***************************************************************************)
EXTENDS Framing, Handshake, ServerProgram, InPackets, CertificateChain, Stores, Database, KeyGen,
        FiniteSetTheorems, SequenceTheorems, WellFoundedInduction, TLAPS

-----------------------------------------------------------------------------
(* ServerProgram: who owns a session.                                      *)

Closers == {"signal", "main"}

ServerTypes ==
    /\ acceptor \in {"closed", "open"} /\ accepting \in BOOLEAN
    /\ sessions \subseteq Sessions /\ gone \subseteq Sessions /\ closer \subseteq Closers
    /\ session \in [Sessions -> {"none", "accepted", "running", "ended"}]
    /\ handler \in [Sessions -> {"none", "list", "start", "again"}]
    /\ closing \in [Closers -> SUBSET Sessions]

Owned(s) == s \in sessions \/ \E who \in closer : s \in closing[who]

\* on_accepted lists a session before it starts it, and only once.
Accepting ==
    \A s \in Sessions :
        /\ handler[s] = "list" => session[s] = "accepted"
        /\ session[s] = "accepted" => handler[s] \in {"list", "start"}
        /\ session[s] = "accepted" /\ handler[s] = "start" => Owned(s)
        /\ s \in sessions \/ (\E who \in Closers : s \in closing[who]) => handler[s] # "list" /\ session[s] # "none"
        /\ s \in gone => session[s] = "ended"

\* Each close() takes the sessions once, and has them only until it is through.
ClosingOnce ==
    /\ \A who \in Closers : closing[who] # {} => who \in closer
    /\ "signal" \in closer => signal = "handled"
    /\ "main" \in closer => main = "closing"
    /\ main = "init" => acceptor = "closed"

ServerInv == ServerTypes /\ Accepting /\ ClosingOnce /\ SessionsOwned

LEMMA ServerInitInv == ServerInit => ServerInv
BY DEF ServerInit, ServerInv, ServerTypes, Accepting, ClosingOnce, SessionsOwned, Closers, Owned

\* The main thread and the threads of the io_context move, the sessions stay.
LEMMA MainStep ==
    ASSUME ServerInv,
           \/ run \/ check_server_key_Throws \/ start_server \/ AcceptAborted \/ ThreadsEnd \/ wait
           \/ JoinThreads \/ Signal
    PROVE  ServerInv'
<1>1. UNCHANGED <<sessions, session, handler, gone, closing, closer>>
  BY DEF run, check_server_key_Throws, start_server, AcceptAborted, ThreadsEnd, wait, JoinThreads, Signal
<1>2. ServerTypes'
  BY <1>1 DEF ServerInv, ServerTypes, run, check_server_key_Throws, start_server, AcceptAborted, ThreadsEnd,
              wait, JoinThreads, Signal, Listen
<1>3. Accepting'
  BY <1>1 DEF ServerInv, Accepting, Owned
<1>4. ClosingOnce'
  BY <1>1 DEF ServerInv, ClosingOnce, run, check_server_key_Throws, start_server, AcceptAborted, ThreadsEnd,
              wait, JoinThreads, Signal
<1>5. SessionsOwned'
  BY <1>1 DEF ServerInv, SessionsOwned, ClosingOnce, run, check_server_key_Throws, start_server, AcceptAborted,
              ThreadsEnd, wait, JoinThreads, Signal, Listen
<1> QED BY <1>2, <1>3, <1>4, <1>5 DEF ServerInv

LEMMA AcceptStep ==
    ASSUME ServerInv, NEW s \in Sessions, on_accepted(s) \/ ListSession(s) \/ StartSession(s) \/ AcceptNext(s)
    PROVE  ServerInv'
<1>1. UNCHANGED <<main, acceptor, gone, closing, closer, signal, io>>
  BY DEF on_accepted, ListSession, StartSession, AcceptNext
<1>2. CASE on_accepted(s)
  <2>1. /\ session[s] = "none" /\ session' = [session EXCEPT ![s] = "accepted"]
        /\ handler' = [handler EXCEPT ![s] = "list"] /\ accepting' = FALSE /\ UNCHANGED sessions
    BY <1>2 DEF on_accepted
  <2>2. s \notin sessions /\ \A who \in Closers : s \notin closing[who]
    BY <2>1 DEF ServerInv, Accepting
  <2> QED BY <1>1, <2>1, <2>2 DEF ServerInv, ServerTypes, Accepting, ClosingOnce, SessionsOwned, Owned
<1>3. CASE ListSession(s)
  <2>1. /\ handler[s] = "list" /\ handler' = [handler EXCEPT ![s] = "start"]
        /\ sessions' = sessions \cup {s} /\ UNCHANGED <<accepting, session>>
    BY <1>3 DEF ListSession
  <2> QED BY <1>1, <2>1 DEF ServerInv, ServerTypes, Accepting, ClosingOnce, SessionsOwned, Owned
<1>4. CASE StartSession(s)
  <2>1. /\ handler[s] = "start" /\ handler' = [handler EXCEPT ![s] = "again"]
        /\ session' = [session EXCEPT ![s] = IF session[s] = "accepted" THEN "running" ELSE session[s]]
        /\ UNCHANGED <<accepting, sessions>>
    BY <1>4 DEF StartSession
  <2> QED BY <1>1, <2>1 DEF ServerInv, ServerTypes, Accepting, ClosingOnce, SessionsOwned, Owned
<1>5. CASE AcceptNext(s)
  <2>1. /\ handler[s] = "again" /\ handler' = [handler EXCEPT ![s] = "none"]
        /\ accepting' = (accepting \/ acceptor = "open") /\ UNCHANGED <<session, sessions>>
    BY <1>5 DEF AcceptNext
  <2> QED BY <1>1, <2>1 DEF ServerInv, ServerTypes, Accepting, ClosingOnce, SessionsOwned, Owned
<1> QED BY <1>2, <1>3, <1>4, <1>5

LEMMA EndingStep ==
    ASSUME ServerInv, NEW s \in Sessions, SessionEnds(s) \/ remove(s)
    PROVE  ServerInv'
BY DEF SessionEnds, remove, ServerInv, ServerTypes, Accepting, ClosingOnce, SessionsOwned, Owned

LEMMA TakeStep ==
    ASSUME ServerInv, NEW who \in Closers, close_server(who), closing[who] = {},
           who = "signal" => signal' = "handled" /\ UNCHANGED main,
           who = "main" => main' = "closing" /\ UNCHANGED signal, UNCHANGED io
    PROVE  ServerInv'
<1>1. /\ acceptor' = "closed" /\ sessions' = {} /\ closing' = [closing EXCEPT ![who] = sessions]
      /\ closer' = closer \cup {who} /\ UNCHANGED <<accepting, session, handler, gone>>
  BY DEF close_server
<1>2. \A w \in Closers : closing'[w] = IF w = who THEN sessions ELSE closing[w]
  BY <1>1 DEF ServerInv, ServerTypes
<1>3. \A s \in Sessions : Owned(s) => Owned(s)'
  BY <1>1, <1>2 DEF Owned, ServerInv, ServerTypes
<1>4. ServerTypes'
  BY <1>1 DEF ServerInv, ServerTypes
<1>5. Accepting'
  BY <1>1, <1>2, <1>3 DEF ServerInv, Accepting
<1>6. ClosingOnce'
  BY <1>1, <1>2 DEF ServerInv, ClosingOnce, Closers
<1>7. SessionsOwned'
  BY <1>1, <1>3 DEF ServerInv, SessionsOwned, Owned
<1> QED BY <1>4, <1>5, <1>6, <1>7 DEF ServerInv

LEMMA CloseStep ==
    ASSUME ServerInv, NEW who \in Closers, close_net(who) \/ \E s \in Sessions : CloseSession(who, s)
    PROVE  ServerInv'
<1>1. ASSUME NEW s \in Sessions, CloseSession(who, s) PROVE ServerInv'
  <2>1. /\ s \in closing[who] /\ closing' = [closing EXCEPT ![who] = closing[who] \ {s}]
        /\ session' = [session EXCEPT ![s] = "ended"]
        /\ UNCHANGED <<main, acceptor, accepting, sessions, handler, gone, closer, signal, io>>
    BY <1>1 DEF CloseSession
  <2>2. \A w \in Closers : closing'[w] = IF w = who THEN closing[w] \ {s} ELSE closing[w]
    BY <2>1 DEF ServerInv, ServerTypes
  <2>3. \A t \in Sessions : session'[t] = IF t = s THEN "ended" ELSE session[t]
    BY <2>1 DEF ServerInv, ServerTypes
  <2>4. \A t \in Sessions \ {s} : Owned(t) => Owned(t)'
    BY <2>1, <2>2 DEF Owned, ServerInv, ServerTypes
  <2>5. ServerTypes'
    BY <2>1 DEF ServerInv, ServerTypes
  <2>6. Accepting'
    BY <2>1, <2>2, <2>3, <2>4 DEF ServerInv, Accepting
  <2>7. ClosingOnce'
    BY <2>1, <2>2 DEF ServerInv, ClosingOnce
  <2>8. SessionsOwned'
    BY <2>1, <2>3, <2>4 DEF ServerInv, SessionsOwned, Owned
  <2> QED BY <2>5, <2>6, <2>7, <2>8 DEF ServerInv
<1>2. CASE close_net(who)
  <2>1. /\ who \in closer /\ closing[who] = {} /\ closer' = closer \ {who}
        /\ signal' = (IF signal = "waiting" THEN "cancelled" ELSE signal)
        /\ main' = (IF who = "main" THEN "join" ELSE main)
        /\ UNCHANGED <<acceptor, accepting, sessions, session, handler, gone, closing, io>>
    BY <1>2 DEF close_net
  <2>2. \A t \in Sessions : Owned(t) => Owned(t)'
    BY <2>1 DEF Owned
  <2>3. ServerTypes' /\ Accepting'
    BY <2>1, <2>2 DEF ServerInv, ServerTypes, Accepting
  <2>4. ClosingOnce'
    BY <2>1 DEF ServerInv, ClosingOnce, Closers
  <2>5. SessionsOwned'
    BY <2>1, <2>2 DEF ServerInv, SessionsOwned, Owned
  <2> QED BY <2>3, <2>4, <2>5 DEF ServerInv
<1> QED BY <1>1, <1>2

LEMMA ServerStepInv == ServerInv /\ [ServerNext]_srvVars => ServerInv'
<1> SUFFICES ASSUME ServerInv, [ServerNext]_srvVars PROVE ServerInv'
  OBVIOUS
<1>1. CASE \/ run \/ check_server_key_Throws \/ start_server \/ AcceptAborted \/ ThreadsEnd \/ wait
           \/ JoinThreads \/ Signal
  BY <1>1, MainStep
<1>2. ASSUME NEW s \in Sessions,
             on_accepted(s) \/ ListSession(s) \/ StartSession(s) \/ AcceptNext(s) \/ remove(s) \/ SessionEnds(s)
      PROVE  ServerInv'
  BY <1>2, AcceptStep, EndingStep
<1>3. CASE OnSignal
  <2>1. close_server("signal") /\ signal = "raised" /\ signal' = "handled" /\ UNCHANGED <<main, io>>
    BY <1>3 DEF OnSignal
  <2>2. closing["signal"] = {}
    BY <2>1 DEF ServerInv, ClosingOnce, Closers
  <2> QED BY <2>1, <2>2, TakeStep DEF Closers
<1>4. CASE Destroy
  <2>1. close_server("main") /\ main = "failed" /\ main' = "closing" /\ UNCHANGED <<signal, io>>
    BY <1>4 DEF Destroy
  <2>2. closing["main"] = {}
    BY <2>1 DEF ServerInv, ClosingOnce, Closers
  <2> QED BY <2>1, <2>2, TakeStep DEF Closers
<1>5. ASSUME NEW who \in Closers, close_net(who) \/ \E s \in Sessions : CloseSession(who, s)
      PROVE  ServerInv'
  BY <1>5, CloseStep
<1>6. CASE UNCHANGED srvVars
  BY <1>6 DEF srvVars, ServerInv, ServerTypes, Accepting, ClosingOnce, SessionsOwned, Owned
<1> QED BY <1>1, <1>2, <1>3, <1>4, <1>5, <1>6 DEF ServerNext, Progress, Closers

\* SessionsOwned for any number of sessions: encrypted_server has each session in sessions_ or in
\* the hands of a close() while it runs, none that removed itself, and listens while it is open.
THEOREM SessionsAreOwned == ServerSpec => []SessionsOwned
<1>1. ServerInv => SessionsOwned
  BY DEF ServerInv
<1> QED BY <1>1, ServerInitInv, ServerStepInv, PTL DEF ServerSpec

-----------------------------------------------------------------------------
(* KeyGen: the material of one create().                                   *)

KeyGenTypes ==
    /\ files \in [rootPriv : Nat, rootPub : Nat, caPriv : Nat, caCert : Nat]
    /\ identity \in [priv : Nat, chain : Nat, pub : Nat]
    /\ material \in Nat /\ creates \in Nat
    /\ tool \in {"idle", "rootPriv", "rootPub", "caPriv", "caCert", "identity", "chain", "pub"}

\* No file is of a create() that is still to come; the files are written in their order, and the CA
\* certificate, the last, is of the root's create() only when all are.
FilesInOrder ==
    /\ \A f \in {"rootPriv", "rootPub", "caPriv", "caCert"} : files[f] <= creates
    /\ files.caCert = files.rootPriv /\ files.rootPriv # 0 =>
          files.rootPub = files.caCert /\ files.caPriv = files.caCert
    /\ tool \in {"rootPriv", "rootPub", "caPriv", "caCert"} => material = creates /\ files.caCert < creates
    /\ tool = "rootPriv" => files.rootPriv = 0
    /\ tool \in {"rootPub", "caPriv", "caCert"} => files.rootPriv = material
    /\ tool \in {"caPriv", "caCert"} => files.rootPub = material
    /\ tool = "caCert" => files.caPriv = material
    /\ tool \in {"identity", "chain", "pub"} => material # 0

\* The private key is put into the stores first, then the chain, then the public key.
IdentityInOrder ==
    /\ identity.priv = 0 => identity.chain = 0
    /\ identity.chain = 0 => identity.pub = 0
    /\ tool = "chain" => identity.priv = material /\ identity.chain = 0
    /\ tool = "pub" => identity.priv = material /\ identity.chain = material /\ identity.pub = 0

KeyGenInv == KeyGenTypes /\ FilesInOrder /\ IdentityInOrder /\ KeysWhole

LEMMA KeyGenInitInv == KeyGenInit => KeyGenInv
BY DEF KeyGenInit, KeyGenInv, KeyGenTypes, FilesInOrder, IdentityInOrder, KeysWhole

\* The tool ends, or is stopped, where it is.
LEMMA FailsStep ==
    ASSUME KeyGenInv, Fails
    PROVE  KeyGenInv'
BY DEF Fails, KeyGenInv, KeyGenTypes, FilesInOrder, IdentityInOrder, KeysWhole

LEMMA CreateStep ==
    ASSUME KeyGenInv, create
    PROVE  KeyGenInv'
<1>1. CASE exists
  BY <1>1, FailsStep DEF create
<1>2. CASE ~exists
  <2>1. /\ tool = "idle" /\ files.rootPriv = 0 /\ creates' = creates + 1 /\ material' = creates + 1
        /\ tool' = "rootPriv" /\ UNCHANGED <<files, identity>>
    BY <1>2 DEF create, exists
  <2>2. KeyGenTypes'
    BY <2>1 DEF KeyGenInv, KeyGenTypes
  <2>3. /\ files.rootPriv \in Nat /\ files.rootPub \in Nat /\ files.caPriv \in Nat /\ files.caCert \in Nat
        /\ creates \in Nat
    BY DEF KeyGenInv, KeyGenTypes
  <2>4. FilesInOrder'
    BY <2>1, <2>3 DEF KeyGenInv, FilesInOrder
  <2> QED BY <2>1, <2>2, <2>4 DEF KeyGenInv, IdentityInOrder, KeysWhole
<1> QED BY <1>1, <1>2

LEMMA WriteStep ==
    ASSUME KeyGenInv, NEW file \in DOMAIN files, write_files(file)
    PROVE  KeyGenInv'
<1>1. /\ files \in [rootPriv : Nat, rootPub : Nat, caPriv : Nat, caCert : Nat] /\ material \in Nat
      /\ file \in {"rootPriv", "rootPub", "caPriv", "caCert"} /\ creates \in Nat
  BY DEF KeyGenInv, KeyGenTypes
<1>2. /\ tool = file /\ tool' = After(file) /\ UNCHANGED <<material, identity, creates, stops>>
      /\ files' = [files EXCEPT ![file] = material] /\ material = creates
  BY <1>1 DEF write_files, KeyGenInv, FilesInOrder
<1>3. CASE file = "rootPriv"
  <2>1. files' = [files EXCEPT !.rootPriv = material] /\ tool' = "rootPub"
    BY <1>2, <1>3 DEF After
  <2> QED BY <1>1, <1>2, <1>3, <2>1 DEF KeyGenInv, KeyGenTypes, FilesInOrder, IdentityInOrder, KeysWhole
<1>4. CASE file = "rootPub"
  <2>1. files' = [files EXCEPT !.rootPub = material] /\ tool' = "caPriv"
    BY <1>2, <1>4 DEF After
  <2> QED BY <1>1, <1>2, <1>4, <2>1 DEF KeyGenInv, KeyGenTypes, FilesInOrder, IdentityInOrder, KeysWhole
<1>5. CASE file = "caPriv"
  <2>1. files' = [files EXCEPT !.caPriv = material] /\ tool' = "caCert"
    BY <1>2, <1>5 DEF After
  <2> QED BY <1>1, <1>2, <1>5, <2>1 DEF KeyGenInv, KeyGenTypes, FilesInOrder, IdentityInOrder, KeysWhole
<1>6. CASE file = "caCert"
  <2>1. files' = [files EXCEPT !.caCert = material] /\ tool' = "identity"
    BY <1>2, <1>6 DEF After
  <2> QED BY <1>1, <1>2, <1>6, <2>1 DEF KeyGenInv, KeyGenTypes, FilesInOrder, IdentityInOrder, KeysWhole
<1> QED BY <1>1, <1>3, <1>4, <1>5, <1>6

LEMMA LoadStep ==
    ASSUME KeyGenInv, load
    PROVE  KeyGenInv'
<1>1. CASE Fails
  BY <1>1, FailsStep
<1>2. CASE ~Fails
  <2>1. /\ files.rootPriv # 0 /\ files.caPriv # 0 /\ files.caCert = files.rootPriv
        /\ tool = "idle" /\ material' = files.caPriv /\ tool' = "identity" /\ UNCHANGED <<files, identity, creates>>
    BY <1>2 DEF load
  <2> QED BY <2>1 DEF KeyGenInv, KeyGenTypes, FilesInOrder, IdentityInOrder, KeysWhole
<1> QED BY <1>1, <1>2

LEMMA InstallStep ==
    ASSUME KeyGenInv, install_identity \/ set_my_certificate_chain \/ InsertPublicKey
    PROVE  KeyGenInv'
<1>1. identity \in [priv : Nat, chain : Nat, pub : Nat] /\ material \in Nat
  BY DEF KeyGenInv, KeyGenTypes
<1>2. CASE Fails
  BY <1>2, FailsStep
<1>3. CASE install_identity /\ ~Fails
  <2>1. /\ tool = "identity" /\ identity.priv = 0 /\ identity' = [identity EXCEPT !.priv = material]
        /\ tool' = "chain" /\ UNCHANGED <<files, material, creates>>
    BY <1>3 DEF install_identity
  <2> QED BY <1>1, <2>1 DEF KeyGenInv, KeyGenTypes, FilesInOrder, IdentityInOrder, KeysWhole
<1>4. CASE set_my_certificate_chain
  <2>1. /\ tool = "chain" /\ identity' = [identity EXCEPT !.chain = material]
        /\ tool' = "pub" /\ UNCHANGED <<files, material, creates>>
    BY <1>4 DEF set_my_certificate_chain
  <2> QED BY <1>1, <2>1 DEF KeyGenInv, KeyGenTypes, FilesInOrder, IdentityInOrder, KeysWhole
<1>5. CASE InsertPublicKey
  <2>1. /\ tool = "pub" /\ identity' = [identity EXCEPT !.pub = material]
        /\ tool' = "idle" /\ material' = 0 /\ UNCHANGED <<files, creates>>
    BY <1>5 DEF InsertPublicKey
  <2> QED BY <1>1, <2>1 DEF KeyGenInv, KeyGenTypes, FilesInOrder, IdentityInOrder, KeysWhole
<1> QED BY <1>2, <1>3, <1>4, <1>5

LEMMA OfflineStep ==
    ASSUME KeyGenInv, TakeOffline
    PROVE  KeyGenInv'
<1>1. files \in [rootPriv : Nat, rootPub : Nat, caPriv : Nat, caCert : Nat] /\ creates \in Nat
  BY DEF KeyGenInv, KeyGenTypes
<1>2. tool = "idle" /\ files' = [files EXCEPT !.rootPriv = 0] /\ UNCHANGED <<material, tool, identity, creates>>
  BY DEF TakeOffline
<1> QED BY <1>1, <1>2 DEF KeyGenInv, KeyGenTypes, FilesInOrder, IdentityInOrder, KeysWhole

LEMMA KeyGenStepInv == KeyGenInv /\ [KeyGenNext]_kgVars => KeyGenInv'
<1> SUFFICES ASSUME KeyGenInv, [KeyGenNext]_kgVars PROVE KeyGenInv'
  OBVIOUS
<1>1. ASSUME NEW file \in DOMAIN files, write_files(file) PROVE KeyGenInv'
  BY <1>1, WriteStep
<1>2. CASE PrintKeys \/ Stopped
  BY <1>2, FailsStep DEF PrintKeys, Stopped
<1>3. CASE UNCHANGED kgVars
  BY <1>3 DEF kgVars, KeyGenInv, KeyGenTypes, FilesInOrder, IdentityInOrder, KeysWhole
<1> QED BY <1>1, <1>2, <1>3, CreateStep, LoadStep, InstallStep, OfflineStep DEF KeyGenNext

\* KeysWhole, however often sp_keygen is run, stopped half way and run again: the material it works
\* with is of one create(), and an identity is certified by the CA its key was made with.
THEOREM KeysAreWhole == KeyGenSpec => []KeysWhole
<1>1. KeyGenInv => KeysWhole
  BY DEF KeyGenInv
<1> QED BY <1>1, KeyGenInitInv, KeyGenStepInv, PTL DEF KeyGenSpec

-----------------------------------------------------------------------------
(* Stores: the cache in front of the table.                                *)

\* What the column of the row is for what was stored.
Column(v) == IF kind = "certificates" THEN v ELSE bind_blob(v)

\* Unless the last change threw half way, the row is that of what was stored last, and the cache has
\* nothing, or that, or what the database finds for it.
InStep ==
    ~torn => row = Column(asked) /\ cache \in {None, asked, DatabaseFind}

Values == {None, "x", "y", "empty", "plain", "revoked"}

StoresInv ==
    /\ kind \in Tables /\ asked \in Values /\ torn \in BOOLEAN
    /\ asked = "empty" => kind \in {"private_data", "values", "secrets"}
    /\ InStep

LEMMA FindIsStored ==
    ASSUME StoresInv, ~torn
    PROVE  DatabaseFind = asked \/ (asked = "empty" /\ kind \in {"private_data", "values"} /\ DatabaseFind = None)
BY NoneAssumption DEF StoresInv, InStep, Column, bind_blob, Values, Tables, DatabaseFind, public_key_database_find,
   certificate_database_find, private_data_database_find, key_value_database_find, shared_secret_database_find

LEMMA StoresInitInv == StoresInit => StoresInv
BY NoneAssumption DEF StoresInit, StoresInv, InStep, Column, bind_blob, Values

\* A value put into the cache and then into the table, or taken out of both.
LEMMA PutStep ==
    ASSUME StoresInv, NEW v \in Values, cache' = v, UNCHANGED kind, Statement(Column(v), v),
           v = "empty" => kind \in {"private_data", "values", "secrets"}
    PROVE  StoresInv'
BY DEF StoresInv, InStep, Column, bind_blob, Statement

LEMMA GetStep ==
    ASSUME StoresInv, cache' \in {None, DatabaseFind}, UNCHANGED <<kind, row, asked, torn>>
    PROVE  StoresInv'
<1>1. DatabaseFind' = DatabaseFind
  BY DEF DatabaseFind, public_key_database_find, certificate_database_find, private_data_database_find,
         key_value_database_find, shared_secret_database_find
<1> QED BY <1>1 DEF StoresInv, InStep, Column, bind_blob

LEMMA CertificateStep ==
    ASSUME StoresInv, NEW v \in {"plain", "revoked"}, certificate_cache_insert(v)
    PROVE  StoresInv'
<1>1. kind = "certificates" /\ kind' = kind /\ cache' = v
  BY DEF certificate_cache_insert
<1>2. CASE row = "revoked"
  BY <1>1, <1>2 DEF certificate_cache_insert, certificate_database_insert, StoresInv, InStep
<1>3. CASE row # "revoked"
  <2>1. Statement(Column(v), v)
    BY <1>1, <1>3 DEF certificate_cache_insert, certificate_database_insert, Column
  <2>2. v \in Values /\ v # "empty"
    BY DEF Values
  <2> QED BY <1>1, <2>1, <2>2, PutStep
<1> QED BY <1>2, <1>3

LEMMA DropStep ==
    ASSUME StoresInv, NEW t, Drop(t)
    PROVE  StoresInv'
<1>1. cache' = None /\ UNCHANGED kind /\ Statement(None, None)
  BY DEF Drop
<1>2. None \in Values /\ Column(None) = None /\ None # "empty"
  BY NoneAssumption DEF Values, Column, bind_blob
<1> QED BY <1>1, <1>2, PutStep

LEMMA InsertStep ==
    ASSUME StoresInv, NEW t \in Tables \ {"certificates"}, NEW v \in {"x", "y", "empty"}, Put(t, v),
           v = "empty" => t \in {"private_data", "values", "secrets"}
    PROVE  StoresInv'
<1>1. kind = t /\ cache' = v /\ UNCHANGED kind /\ Statement(bind_blob(v), v)
  BY DEF Put
<1>2. v \in Values /\ Column(v) = bind_blob(v)
  BY <1>1 DEF Values, Column
<1> QED BY <1>1, <1>2, PutStep

LEMMA StoresStepInv == StoresInv /\ [StoresNext]_storeVars => StoresInv'
<1> SUFFICES ASSUME StoresInv, [StoresNext]_storeVars PROVE StoresInv'
  OBVIOUS
<1>1. ASSUME NEW v \in {"x", "y"},
             \/ public_key_cache_insert(v) \/ private_data_cache_set_my_private_key(v)
             \/ private_data_cache_set_my_certificate_chain(v)
      PROVE  StoresInv'
  <2>1. \E t \in Tables \ {"certificates"} : Put(t, v)
    BY <1>1 DEF Tables, public_key_cache_insert, private_data_cache_set_my_private_key,
                private_data_cache_set_my_certificate_chain
  <2> QED BY <2>1, InsertStep
<1>2. ASSUME NEW v \in {"x", "empty"},
             private_data_cache_insert(v) \/ key_value_cache_insert(v) \/ shared_secret_cache_insert(v)
      PROVE  StoresInv'
  <2>1. \E t \in {"private_data", "values", "secrets"} : Put(t, v)
    BY <1>2 DEF private_data_cache_insert, key_value_cache_insert, shared_secret_cache_insert
  <2>2. {"private_data", "values", "secrets"} \subseteq Tables \ {"certificates"}
    BY DEF Tables
  <2> QED BY <2>1, <2>2, InsertStep
<1>3. ASSUME NEW v \in {"plain", "revoked"}, certificate_cache_insert(v) PROVE StoresInv'
  BY <1>3, CertificateStep
<1>4. CASE \/ public_key_cache_remove \/ private_data_cache_erase \/ key_value_cache_erase \/ key_value_cache_clear
           \/ shared_secret_cache_remove \/ certificate_cache_remove
  BY <1>4, DropStep DEF public_key_cache_remove, private_data_cache_erase, key_value_cache_erase,
     key_value_cache_clear, shared_secret_cache_remove, certificate_cache_remove
<1>5. CASE \/ public_key_cache_find \/ private_data_cache_my_private_key \/ private_data_cache_my_certificate_chain
           \/ private_data_cache_find \/ key_value_cache_find \/ shared_secret_cache_find \/ certificate_cache_find
           \/ Restart
  BY <1>5, GetStep DEF Get, Restart, public_key_cache_find, private_data_cache_my_private_key,
     private_data_cache_my_certificate_chain, private_data_cache_find, key_value_cache_find,
     shared_secret_cache_find, certificate_cache_find
<1>6. CASE UNCHANGED storeVars
  BY <1>6 DEF storeVars, StoresInv, InStep, Column, bind_blob, DatabaseFind, public_key_database_find,
     certificate_database_find, private_data_database_find, key_value_database_find, shared_secret_database_find
<1> QED BY <1>1, <1>2, <1>3, <1>4, <1>5, <1>6 DEF StoresNext

LEMMA StoresAlwaysInv == StoresSpec => []StoresInv
BY StoresInitInv, StoresStepInv, PTL DEF StoresSpec

\* StoreServesStored: whatever was put into, taken out of or looked up in a store, and however often
\* the program restarts or a statement throws.
THEOREM StoresServe == StoresSpec => []StoreServesStored
<1>1. StoresInv => StoreServesStored
  BY FindIsStored DEF StoresInv, InStep, StoreServesStored, Served
<1> QED BY <1>1, StoresAlwaysInv, PTL

\* What one step may do to a revoked certificate.
StaysRevoked ==
    kind = "certificates" /\ row = "revoked" =>
        /\ row' \in {"revoked", None}
        /\ Served = "revoked" /\ ~torn' => Served' \in {"revoked", None}

LEMMA RevokedStep == [StoresNext]_storeVars => [StaysRevoked]_storeVars
<1> SUFFICES ASSUME StoresNext, kind = "certificates", row = "revoked"
             PROVE  /\ row' \in {"revoked", None}
                    /\ ~torn' /\ Served = "revoked" => Served' \in {"revoked", None}
  BY DEF StaysRevoked
<1>1. DatabaseFind = row /\ (kind' = "certificates" => DatabaseFind' = row')
  BY DEF DatabaseFind, certificate_database_find
<1>2. CASE \E v \in {"plain", "revoked"} : certificate_cache_insert(v)
  BY <1>2 DEF certificate_cache_insert, certificate_database_insert
<1>3. CASE certificate_cache_remove
  BY <1>1, <1>3, NoneAssumption DEF certificate_cache_remove, Drop, Statement, Served
<1>4. CASE certificate_cache_find \/ Restart
  BY <1>1, <1>4, NoneAssumption DEF certificate_cache_find, Get, Restart, Served
<1> QED BY <1>2, <1>3, <1>4 DEF StoresNext, public_key_cache_insert, private_data_cache_set_my_private_key,
           private_data_cache_set_my_certificate_chain, private_data_cache_insert, key_value_cache_insert,
           shared_secret_cache_insert, public_key_cache_find, public_key_cache_remove,
           private_data_cache_my_private_key, private_data_cache_my_certificate_chain, private_data_cache_find,
           private_data_cache_erase, key_value_cache_find, key_value_cache_erase, key_value_cache_clear,
           shared_secret_cache_find, shared_secret_cache_remove, Put, Drop, Get

\* RevokedStays: no insert, restart or lookup makes an unrevoked certificate of a revoked one.
THEOREM RevokedStaysRevoked == StoresSpec => RevokedStays
<1>1. [StoresNext]_storeVars => [StaysRevoked]_storeVars
  BY RevokedStep
<1>2. StoresSpec => [][StaysRevoked]_storeVars
  BY <1>1, PTL DEF StoresSpec
<1> QED BY <1>2 DEF RevokedStays, StaysRevoked

-----------------------------------------------------------------------------
(* Handshake: what the two ends may come to believe.                       *)

\* The packets that can be made: one hello of each side, and each side's own credentials or MAC over
\* its channel, its role and the two session ids.
Binding(s) == <<chan[s], s, "client id", "server id">>
HasCreds(s) == conf[s].key # Absent /\ conf[s].chain # Absent
Creds(s) == [key |-> conf[s].key, chain |-> conf[s].chain, sig |-> <<conf[s].key, Binding(s)>>]
AuthOf(s) == [type |-> "auth", creds |-> IF HasCreds(s) THEN Creds(s) ELSE Absent]
SecretOf(s) == conf[s].secrets[conf["client"].secretId]
AuthSsOf(s) == [type |-> "auth_ss", id |-> conf["client"].secretId, mac |-> <<SecretOf(s), Binding(s)>>]

ToServer == {client_hello("client id"), AuthOf("client"), AuthSsOf("client")}
ToClient == {server_hello(conf["client"].tag, "server id", Absent),
             server_hello(conf["client"].tag, "server id", AuthOf("server")),
             Ack, AuthSsOf("server")}

HandshakeObjects ==
    [helloSent : BOOLEAN, concrete : {"none", "pk", "ss"}, verified : BOOLEAN,
     remote : {c.key : c \in Contexts} \cup {Absent}, clientId : {Absent, "client id"},
     serverId : {Absent, "server id"}, tag : {c.tag : c \in Contexts} \cup {"unknown"}]

HandshakeTypes ==
    /\ hs \in [Sides -> HandshakeObjects]
    /\ result \in [Sides -> {"none", "in_progress", "succeeded", "error"}]
    /\ inbox = [s \in Sides |-> inbox[s]]
    /\ inbox["server"] \in Seq(ToServer) /\ inbox["client"] \in Seq(ToClient)
    /\ disclosed \in BOOLEAN

\* Nothing happens before both programs have their context and before the client starts.
Begun ==
    /\ conf["client"] # Absent => conf \in [Sides -> Contexts] /\ chan \in [Sides -> Channels]
    /\ conf["client"] = Absent => result["client"] = "none"
    /\ result["client"] = "none" =>
          /\ result["server"] = "none" /\ inbox["client"] = <<>> /\ inbox["server"] = <<>>
          /\ hs["client"] = NewHandshake /\ hs["server"] = NewHandshake /\ ~disclosed

\* A handshake object that has made its concrete handshake has the ids of both sides and the tag
\* that the client asked for.
Made(h) ==
    h.concrete # "none" =>
        /\ ~h.helloSent /\ h.clientId = "client id" /\ h.serverId = "server id"
        /\ h.concrete = conf["client"].tag /\ h.tag = conf["client"].tag

\* What verify_server_and_reply has found out.
ServerVerified ==
    /\ OneChannel /\ HasCreds("server")
    /\ conf["server"].key = conf["server"].chain.subject
    /\ Authentic("client", conf["server"].chain, conf["client"].restrict)

SecretShared == OneChannel /\ SecretOf("client") = SecretOf("server")

\* What the server has found out of the client at the end of a pk handshake.
ClientKnown(h) ==
    \/ h.remote = Absent /\ ~conf["server"].authenticateRemote /\ ~HasCreds("client")
    \/ /\ OneChannel /\ HasCreds("client") /\ h.remote = conf["client"].key
       /\ conf["client"].key = conf["client"].chain.subject

ClientVerified(h) == h.verified => h.concrete = "pk" /\ h.remote = conf["server"].key /\ ServerVerified
ClientDone(h) ==
    /\ Succeeded("server") /\ h.concrete # "none"
    /\ h.concrete = "pk" => h.verified
    /\ h.concrete = "ss" => SecretShared
ServerDone(h) ==
    /\ h.concrete # "none" /\ hs["client"].concrete = h.concrete
    /\ h.concrete = "pk" => ClientKnown(h)
    /\ h.concrete = "ss" => SecretShared

ClientSide ==
    LET h == hs["client"]
    IN  /\ Made(h) /\ ClientVerified(h)
        /\ h.helloSent => h.clientId = "client id" /\ h.tag = conf["client"].tag /\ ~h.verified
        /\ result["client"] \in {"in_progress", "succeeded"} /\ ~h.helloSent => h.concrete # "none"
        /\ disclosed => h.verified
        /\ Succeeded("client") => ClientDone(h)

ServerSide ==
    LET h == hs["server"]
    IN  /\ Made(h) /\ ~h.helloSent /\ ~h.verified
        /\ ~Succeeded("server") => h.remote = Absent
        /\ Succeeded("server") => ServerDone(h)

\* A packet with an answer is on its way only when its sender has got that far.
Sent ==
    /\ \A i \in DOMAIN inbox["server"] :
          /\ inbox["server"][i].type = "auth" => hs["client"].concrete = "pk"
          /\ inbox["server"][i].type = "auth_ss" => hs["client"].concrete = "ss"
    /\ \A i \in DOMAIN inbox["client"] : inbox["client"][i].type \in {"ack", "auth_ss"} => Succeeded("server")

HandshakeInv == HandshakeTypes /\ Begun /\ ClientSide /\ ServerSide /\ Sent

LEMMA MakeAuthIs ==
    ASSUME NEW s \in Sides, NEW h, h.clientId = "client id", h.serverId = "server id"
    PROVE  /\ make_auth(s, h) = AuthOf(s)
           /\ make_auth_ss(s, h, conf["client"].secretId) = IF SecretOf(s) = Absent THEN Absent ELSE AuthSsOf(s)
<1>1. derive_binding(s, h).local = Binding(s)
  BY DEF derive_binding, Binding
<1> QED BY <1>1 DEF make_auth, make_auth_ss, AuthOf, AuthSsOf, HasCreds, Creds, SecretOf

\* A signature and a MAC prove the peer's key, or its secret, and the peer's end of the channel.
LEMMA VerifiedIs ==
    ASSUME NEW s \in Sides, NEW h, h.clientId = "client id", h.serverId = "server id", NEW restrict,
           verify_credentials(s, h, Creds(Peer(s)), restrict)
    PROVE  /\ OneChannel /\ conf[Peer(s)].key = conf[Peer(s)].chain.subject
           /\ Authentic(s, conf[Peer(s)].chain, restrict)
<1>1. derive_binding(s, h).remote = <<chan[s], Peer(s), "client id", "server id">>
  BY DEF derive_binding
<1>2. <<conf[Peer(s)].key, Binding(Peer(s))>> = <<conf[Peer(s)].key, <<chan[s], Peer(s), "client id", "server id">>>>
  BY <1>1 DEF verify_credentials, Creds
<1>3. chan[s] = chan[Peer(s)]
  BY <1>2 DEF Binding
<1>4. OneChannel
  BY <1>3 DEF OneChannel, Peer, Sides
<1> QED BY <1>4 DEF verify_credentials, Creds

LEMMA VerifiedSsIs ==
    ASSUME NEW s \in Sides, NEW h, h.clientId = "client id", h.serverId = "server id",
           verify_auth_ss(s, h, AuthSsOf(Peer(s)))
    PROVE  SecretShared /\ SecretOf(s) # Absent
<1>1. derive_binding(s, h).remote = <<chan[s], Peer(s), "client id", "server id">>
  BY DEF derive_binding
<1>2. <<SecretOf(Peer(s)), Binding(Peer(s))>> = <<SecretOf(s), <<chan[s], Peer(s), "client id", "server id">>>>
      /\ SecretOf(s) # Absent
  BY <1>1 DEF verify_auth_ss, AuthSsOf, SecretOf
<1>3. chan[s] = chan[Peer(s)] /\ SecretOf(s) = SecretOf(Peer(s))
  BY <1>2 DEF Binding
<1> QED BY <1>2, <1>3 DEF OneChannel, SecretShared, Peer, Sides

\* What each end may be after it has handled a packet with result r.
ClientKeeps(h) ==
    /\ h \in HandshakeObjects /\ ~h.helloSent /\ Made(h) /\ ClientVerified(h)
    /\ hs["client"].concrete # "none" => h.concrete = hs["client"].concrete
    /\ hs["client"].verified => h.verified
ClientResult(r) ==
    /\ ClientKeeps(r.hs)
    /\ r.state \in {"error", "in_progress", "succeeded"}
    /\ r.state # "error" => r.hs.concrete # "none"
    /\ r.state = "succeeded" => ClientDone(r.hs)
    /\ r.packet # Absent => \/ r.packet = AuthOf("client") /\ r.hs.verified
                            \/ r.packet = AuthSsOf("client") /\ r.hs.concrete = "ss"

ServerKeeps(h) == h \in HandshakeObjects /\ ~h.helloSent /\ ~h.verified /\ Made(h)
ServerResult(r) ==
    /\ ServerKeeps(r.hs)
    /\ r.state \in {"error", "in_progress", "succeeded"}
    /\ r.state # "succeeded" => r.hs.remote = Absent
    /\ r.state = "succeeded" => ServerDone(r.hs)
    /\ r.packet # Absent => r.packet \in ToClient
    /\ r.packet # Absent /\ r.packet.type \in {"ack", "auth_ss"} => r.state = "succeeded"

LEMMA ClientFails ==
    ASSUME NEW h, ClientKeeps(h)
    PROVE  ClientResult(Fail(h))
BY DEF ClientResult, Fail, Step

LEMMA ServerFails ==
    ASSUME NEW h, ServerKeeps(h), h.remote = Absent
    PROVE  ServerResult(Fail(h))
BY DEF ServerResult, Fail, Step

LEMMA Configured ==
    ASSUME HandshakeInv, result["client"] # "none"
    PROVE  /\ conf["client"] # Absent /\ conf \in [Sides -> Contexts] /\ chan \in [Sides -> Channels]
           /\ \A s \in Sides : conf[s] \in Contexts /\ conf[s].tags \subseteq {"pk", "ss"}
           /\ \A s \in Sides : Creds(s) # Absent
<1>1. conf["client"] # Absent /\ conf \in [Sides -> Contexts] /\ chan \in [Sides -> Channels]
  BY DEF HandshakeInv, Begun
<1>2. \A s \in Sides : conf[s] \in Contexts /\ chan[s] \in Channels
  BY <1>1
<1> QED BY <1>1, <1>2, ContextAssumption DEF Creds, Binding

LEMMA PacketsOfServer ==
    ASSUME NEW p \in ToClient
    PROVE  /\ p.type \in {"server_hello", "ack", "auth_ss"}
           /\ p.type = "server_hello" =>
                 p.id = "server id" /\ p.tag = conf["client"].tag /\ p.auth \in {Absent, AuthOf("server")}
           /\ p.type = "auth_ss" => p = AuthSsOf("server")
<1>1. CASE p \in {server_hello(conf["client"].tag, "server id", Absent),
                  server_hello(conf["client"].tag, "server id", AuthOf("server"))}
  <2>1. PICK a \in {Absent, AuthOf("server")} : p = server_hello(conf["client"].tag, "server id", a)
    BY <1>1
  <2>2. p.type = "server_hello" /\ p.id = "server id" /\ p.tag = conf["client"].tag /\ p.auth = a
    BY <2>1 DEF server_hello
  <2> QED BY <2>2
<1>2. CASE p = Ack
  <2>1. p.type = "ack"
    BY <1>2 DEF Ack
  <2> QED BY <2>1
<1>3. CASE p = AuthSsOf("server")
  <2>1. p.type = "auth_ss"
    BY <1>3 DEF AuthSsOf
  <2> QED BY <1>3, <2>1
<1> QED BY <1>1, <1>2, <1>3 DEF ToClient

LEMMA PacketsOfClient ==
    ASSUME NEW p \in ToServer
    PROVE  /\ p.type \in {"client_hello", "auth", "auth_ss"}
           /\ p.type = "client_hello" => p.id = "client id" /\ p.tag = conf["client"].tag
           /\ p.type = "auth" => p = AuthOf("client")
           /\ p.type = "auth_ss" => p = AuthSsOf("client")
<1>1. CASE p = client_hello("client id")
  <2>1. p.type = "client_hello" /\ p.id = "client id" /\ p.tag = conf["client"].tag
    BY <1>1 DEF client_hello
  <2> QED BY <2>1
<1>2. CASE p = AuthOf("client")
  <2>1. p.type = "auth"
    BY <1>2 DEF AuthOf
  <2> QED BY <1>2, <2>1
<1>3. CASE p = AuthSsOf("client")
  <2>1. p.type = "auth_ss"
    BY <1>3 DEF AuthSsOf
  <2> QED BY <1>3, <2>1
<1> QED BY <1>1, <1>2, <1>3 DEF ToServer

-----------------------------------------------------------------------------
(* The client.                                                             *)

\* The server's credentials, once the concrete handshake is made.
LEMMA ClientPk ==
    ASSUME HandshakeInv, result["client"] # "none", NEW h, ClientKeeps(h), h.concrete = "pk", ~h.verified
    PROVE  ClientResult(verify_server_and_reply(h, AuthOf("server")))
<1>1. h.clientId = "client id" /\ h.serverId = "server id" /\ h \in HandshakeObjects
  BY DEF ClientKeeps, Made
<1>2. CASE \/ AuthOf("server").creds = Absent
           \/ ~verify_credentials("client", h, AuthOf("server").creds, conf["client"].restrict)
  <2>1. verify_server_and_reply(h, AuthOf("server")) = Fail(h)
    BY <1>2 DEF verify_server_and_reply
  <2> QED BY <2>1, ClientFails
<1>3. CASE /\ AuthOf("server").creds # Absent
           /\ verify_credentials("client", h, AuthOf("server").creds, conf["client"].restrict)
  <2>1. HasCreds("server") /\ AuthOf("server").creds = Creds("server")
    BY <1>3 DEF AuthOf
  <2>2. "client" \in Sides /\ Peer("client") = "server" /\ "server" \in Sides
    BY DEF Sides, Peer
  <2>3. ServerVerified
    BY <1>1, <1>3, <2>1, <2>2, VerifiedIs DEF ServerVerified
  <2>4. PICK g : g = [h EXCEPT !.verified = TRUE, !.remote = conf["server"].key]
    OBVIOUS
  <2>5. verify_server_and_reply(h, AuthOf("server")) = Step("in_progress", AuthOf("client"), g)
    <3>1. PICK a : a = AuthOf("server")
      OBVIOUS
    <3>2. verify_server_and_reply(h, a) =
            Step("in_progress", make_auth("client", h), [h EXCEPT !.verified = TRUE, !.remote = a.creds.key])
      BY <1>3, <3>1 DEF verify_server_and_reply
    <3>3. a.creds.key = conf["server"].key
      BY <2>1, <3>1 DEF Creds
    <3>4. make_auth("client", h) = AuthOf("client")
      BY <1>1, <2>2, MakeAuthIs
    <3> QED BY <2>4, <3>1, <3>2, <3>3, <3>4
  <2>6. conf["server"].key \in {c.key : c \in Contexts}
    BY <2>2, Configured
  <2>7. g \in HandshakeObjects /\ g.verified /\ g.remote = conf["server"].key /\ g.helloSent = h.helloSent
        /\ g.concrete = h.concrete /\ g.clientId = h.clientId /\ g.serverId = h.serverId /\ g.tag = h.tag
    BY <1>1, <2>4, <2>6 DEF HandshakeObjects
  <2>8. ClientKeeps(g) /\ g.concrete = "pk"
    BY <2>3, <2>7 DEF ClientKeeps, Made, ClientVerified
  <2> QED BY <2>5, <2>7, <2>8 DEF ClientResult, Step
<1> QED BY <1>2, <1>3

LEMMA ClientSs ==
    ASSUME HandshakeInv, NEW h, ClientKeeps(h), h.concrete = "ss"
    PROVE  ClientResult(client_ss_start(h))
<1>1. h.clientId = "client id" /\ h.serverId = "server id" /\ "client" \in Sides
  BY DEF ClientKeeps, Made, Sides
<1>2. client_ss_start(h) \in {Fail(h), Step("in_progress", AuthSsOf("client"), h)}
  BY <1>1, MakeAuthIs DEF client_ss_start
<1>3. ClientResult(Step("in_progress", AuthSsOf("client"), h))
  BY DEF ClientResult, Step
<1> QED BY <1>2, <1>3, ClientFails

\* handle_server_hello makes the concrete handshake and takes its first step.
LEMMA ClientHello ==
    ASSUME HandshakeInv, result["client"] # "none", hs["client"].helloSent, NEW p \in ToClient
    PROVE  ClientResult(handle_packet("client", p))
<1>1. PICK h \in HandshakeObjects : h = [hs["client"] EXCEPT !.helloSent = FALSE]
  <2>1. hs["client"] \in HandshakeObjects
    BY DEF HandshakeInv, HandshakeTypes, Sides
  <2> QED BY <2>1 DEF HandshakeObjects
<1>2. /\ ~h.helloSent /\ h.clientId = "client id" /\ h.tag = conf["client"].tag /\ ~h.verified
      /\ h.concrete = "none" /\ hs["client"].concrete = "none" /\ ~hs["client"].verified
  <2>1. hs["client"] \in HandshakeObjects
    BY DEF HandshakeInv, HandshakeTypes, Sides
  <2>2. /\ ~h.helloSent /\ h.clientId = hs["client"].clientId /\ h.tag = hs["client"].tag
        /\ h.verified = hs["client"].verified /\ h.concrete = hs["client"].concrete
    BY <1>1, <2>1 DEF HandshakeObjects
  <2> QED BY <2>2 DEF HandshakeInv, ClientSide, Made
<1>3. handle_packet("client", p) = handle_server_hello(h, p)
  BY <1>1 DEF handle_packet
<1>4. ClientKeeps(h)
  BY <1>2 DEF ClientKeeps, Made, ClientVerified
<1>5. CASE \/ p.type # "server_hello" \/ p.version # conf["client"].version
           \/ p.tag # h.tag \/ p.suite # conf["client"].suite
  <2>1. handle_server_hello(h, p) = Fail(h)
    BY <1>5 DEF handle_server_hello
  <2> QED BY <1>3, <1>4, <2>1, ClientFails
<1>6. CASE ~(\/ p.type # "server_hello" \/ p.version # conf["client"].version
             \/ p.tag # h.tag \/ p.suite # conf["client"].suite)
  <2>1. p.id = "server id" /\ p.auth \in {Absent, AuthOf("server")}
    BY <1>6, PacketsOfServer
  <2>2. PICK m : m = construct_handshake("client", [h EXCEPT !.serverId = p.id], h.tag)
    OBVIOUS
  <2>3. conf["client"].tags \subseteq {"pk", "ss"}
    BY Configured DEF Sides
  <2>4. /\ m \in HandshakeObjects /\ ~m.helloSent /\ m.clientId = "client id" /\ m.tag = conf["client"].tag
        /\ ~m.verified /\ m.serverId = "server id" /\ m.concrete \in {"none", conf["client"].tag}
    BY <1>2, <2>1, <2>2, <2>3 DEF construct_handshake, HandshakeObjects
  <2>5. ClientKeeps(m)
    BY <1>2, <2>4 DEF ClientKeeps, Made, ClientVerified
  <2>6. handle_server_hello(h, p) =
          IF m.concrete = "none" THEN Fail(m)
          ELSE IF p.auth # Absent THEN concrete_handle_packet("client", m, p.auth)
          ELSE IF m.concrete = "ss" THEN client_ss_start(m) ELSE Fail(m)
    BY <1>6, <2>2 DEF handle_server_hello
  <2>7. CASE m.concrete = "none" \/ (m.concrete = "pk" /\ p.auth = Absent)
    BY <1>3, <2>5, <2>6, <2>7, ClientFails
  <2>8. CASE m.concrete = "pk" /\ p.auth # Absent
    <3>1. concrete_handle_packet("client", m, p.auth) = client_pk_handle_packet(m, AuthOf("server"))
      BY <2>1, <2>8 DEF concrete_handle_packet
    <3>2. client_pk_handle_packet(m, AuthOf("server")) = verify_server_and_reply(m, AuthOf("server"))
      BY <2>4 DEF client_pk_handle_packet, AuthOf
    <3> QED BY <1>3, <2>4, <2>5, <2>6, <2>8, <3>1, <3>2, ClientPk
  <2>9. CASE m.concrete = "ss" /\ p.auth # Absent
    <3>1. concrete_handle_packet("client", m, p.auth) = client_ss_handle_packet(m, AuthOf("server"))
      BY <2>1, <2>9 DEF concrete_handle_packet
    <3>2. client_ss_handle_packet(m, AuthOf("server")) = Fail(m)
      BY DEF client_ss_handle_packet, AuthOf
    <3> QED BY <1>3, <2>5, <2>6, <2>9, <3>1, <3>2, ClientFails
  <2>10. CASE m.concrete = "ss" /\ p.auth = Absent
    BY <1>3, <2>5, <2>6, <2>10, ClientSs
  <2>11. m.concrete \in {"none", "pk", "ss"}
    BY <2>4 DEF HandshakeObjects
  <2> QED BY <2>7, <2>8, <2>9, <2>10, <2>11
<1> QED BY <1>5, <1>6

\* The last packet of the server.
LEMMA ClientLast ==
    ASSUME HandshakeInv, result["client"] = "in_progress", ~hs["client"].helloSent, NEW p \in ToClient,
           p.type \in {"ack", "auth_ss"} => Succeeded("server")
    PROVE  ClientResult(handle_packet("client", p))
<1>1. PICK h : h = hs["client"]
  OBVIOUS
<1>2. /\ h \in HandshakeObjects /\ ~h.helloSent /\ Made(h) /\ ClientVerified(h) /\ h.concrete \in {"pk", "ss"}
  BY <1>1 DEF HandshakeInv, HandshakeTypes, ClientSide, HandshakeObjects, Sides
<1>3. ClientKeeps(h) /\ h.clientId = "client id" /\ h.serverId = "server id"
  BY <1>1, <1>2 DEF ClientKeeps, Made
<1>4. handle_packet("client", p) = concrete_handle_packet("client", h, p)
  BY <1>1, <1>2 DEF handle_packet
<1>5. p.type \in {"server_hello", "ack", "auth_ss"} /\ (p.type = "auth_ss" => p = AuthSsOf("server"))
  BY PacketsOfServer
<1>6. CASE h.concrete = "pk"
  <2>1. concrete_handle_packet("client", h, p) = client_pk_handle_packet(h, p)
    BY <1>6 DEF concrete_handle_packet
  <2>2. CASE h.verified /\ p.type = "ack" /\ p.version = conf["client"].version
    <3>1. client_pk_handle_packet(h, p) = Step("succeeded", Absent, h)
      BY <2>2 DEF client_pk_handle_packet
    <3>2. ClientDone(h)
      BY <1>6, <2>2 DEF ClientDone
    <3>5. ClientResult(Step("succeeded", Absent, h))
      BY <1>3, <1>6, <3>2 DEF ClientResult, Step
    <3> QED BY <1>4, <2>1, <3>1, <3>5
  <2>3. CASE ~(h.verified /\ p.type = "ack" /\ p.version = conf["client"].version)
    <3>1. client_pk_handle_packet(h, p) = Fail(h)
      BY <1>5, <2>3 DEF client_pk_handle_packet
    <3> QED BY <1>3, <1>4, <2>1, <3>1, ClientFails
  <2> QED BY <2>2, <2>3
<1>7. CASE h.concrete = "ss"
  <2>1. concrete_handle_packet("client", h, p) = client_ss_handle_packet(h, p)
    BY <1>7 DEF concrete_handle_packet
  <2>2. CASE p.type = "auth_ss" /\ p.id = conf["client"].secretId /\ verify_auth_ss("client", h, p)
    <3>1. client_ss_handle_packet(h, p) = Step("succeeded", Absent, h)
      BY <2>2 DEF client_ss_handle_packet
    <3>2. "client" \in Sides /\ Peer("client") = "server"
      BY DEF Sides, Peer
    <3>3. SecretShared
      BY <1>3, <1>5, <2>2, <3>2, VerifiedSsIs
    <3>4. ClientDone(h)
      BY <1>7, <2>2, <3>3 DEF ClientDone
    <3>5. ClientResult(Step("succeeded", Absent, h))
      BY <1>3, <1>7, <3>4 DEF ClientResult, Step
    <3> QED BY <1>4, <2>1, <3>1, <3>5
  <2>3. CASE ~(p.type = "auth_ss" /\ p.id = conf["client"].secretId /\ verify_auth_ss("client", h, p))
    <3>1. client_ss_handle_packet(h, p) = Fail(h)
      BY <2>3 DEF client_ss_handle_packet
    <3> QED BY <1>3, <1>4, <2>1, <3>1, ClientFails
  <2> QED BY <2>2, <2>3
<1> QED BY <1>2, <1>6, <1>7

-----------------------------------------------------------------------------
(* The server.                                                             *)

LEMMA ServerHello ==
    ASSUME HandshakeInv, result["client"] # "none", ~Succeeded("server"), NEW p \in ToServer,
           hs["server"].concrete = "none"
    PROVE  ServerResult(handle_packet("server", p))
<1>1. PICK h \in HandshakeObjects : h = hs["server"]
  BY DEF HandshakeInv, HandshakeTypes, Sides
<1>2. ~h.helloSent /\ ~h.verified /\ h.concrete = "none" /\ h.remote = Absent
  BY <1>1 DEF HandshakeInv, ServerSide
<1>3. handle_packet("server", p) = handle_client_hello(h, p)
  BY <1>1, <1>2 DEF handle_packet
<1>4. ServerKeeps(h)
  BY <1>2 DEF ServerKeeps, Made
<1>5. CASE \/ p.type # "client_hello" \/ p.version # conf["server"].version
           \/ p.suite # conf["server"].suite
  <2>1. handle_client_hello(h, p) = Fail(h)
    BY <1>5 DEF handle_client_hello
  <2> QED BY <1>2, <1>3, <1>4, <2>1, ServerFails
<1>6. CASE ~(\/ p.type # "client_hello" \/ p.version # conf["server"].version
             \/ p.suite # conf["server"].suite)
  <2>1. p.id = "client id" /\ p.tag = conf["client"].tag
    BY <1>6, PacketsOfClient
  <2>2. PICK m : m = construct_handshake("server",
                        [h EXCEPT !.clientId = p.id, !.serverId = "server id", !.tag = p.tag], p.tag)
    OBVIOUS
  <2>3. conf["server"].tags \subseteq {"pk", "ss"} /\ conf["client"] \in Contexts
    BY Configured DEF Sides
  <2>4. /\ m \in HandshakeObjects /\ ~m.helloSent /\ ~m.verified /\ m.remote = Absent
        /\ m.clientId = "client id" /\ m.serverId = "server id" /\ m.tag = conf["client"].tag
        /\ m.concrete \in {"none", conf["client"].tag}
    BY <1>2, <2>1, <2>2, <2>3 DEF construct_handshake, HandshakeObjects
  <2>5. ServerKeeps(m)
    BY <2>4 DEF ServerKeeps, Made
  <2>6. PICK first : /\ first = IF m.concrete = "pk" THEN server_pk_start(m) ELSE Step("in_progress", Absent, m)
                     /\ handle_client_hello(h, p) =
                          IF m.concrete = "none" \/ first.state = "error" THEN Fail(m)
                          ELSE Step("in_progress", server_hello(p.tag, m.serverId, first.packet), m)
    BY <1>6, <2>2 DEF handle_client_hello
  <2>7. first.state # "error" => first.packet \in {Absent, AuthOf("server")}
    <3>1. make_auth("server", m) = AuthOf("server")
      BY <2>4, MakeAuthIs DEF Sides
    <3> QED BY <2>6, <3>1 DEF server_pk_start, Step, Fail
  <2>8. CASE m.concrete = "none" \/ first.state = "error"
    BY <1>3, <2>4, <2>5, <2>6, <2>8, ServerFails
  <2>9. CASE ~(m.concrete = "none" \/ first.state = "error")
    <3>1. PICK q : q = server_hello(conf["client"].tag, "server id", first.packet)
      OBVIOUS
    <3>2. q \in ToClient /\ q.type = "server_hello"
      BY <2>7, <2>9, <3>1 DEF ToClient, server_hello
    <3>3. handle_client_hello(h, p) = Step("in_progress", q, m)
      BY <2>1, <2>4, <2>6, <2>9, <3>1
    <3>4. ServerResult(Step("in_progress", q, m))
      BY <2>4, <2>5, <3>2 DEF ServerResult, Step
    <3> QED BY <1>3, <3>3, <3>4
  <2> QED BY <2>8, <2>9
<1> QED BY <1>5, <1>6

\* The client's credentials or MAC decide.
LEMMA ServerLast ==
    ASSUME HandshakeInv, result["client"] # "none", ~Succeeded("server"), NEW p \in ToServer,
           p.type = "auth" => hs["client"].concrete = "pk",
           p.type = "auth_ss" => hs["client"].concrete = "ss",
           hs["server"].concrete # "none"
    PROVE  ServerResult(handle_packet("server", p))
<1>1. PICK h \in HandshakeObjects : h = hs["server"]
  BY DEF HandshakeInv, HandshakeTypes, Sides
<1>2. /\ ~h.helloSent /\ ~h.verified /\ h.remote = Absent /\ Made(h) /\ h.concrete \in {"pk", "ss"}
      /\ h.clientId = "client id" /\ h.serverId = "server id"
  BY <1>1 DEF HandshakeInv, ServerSide, Made, HandshakeObjects
<1>3. handle_packet("server", p) = concrete_handle_packet("server", h, p)
  BY <1>1, <1>2 DEF handle_packet
<1>4. ServerKeeps(h)
  BY <1>2 DEF ServerKeeps
<1>5. /\ p.type = "auth" => p = AuthOf("client")
      /\ p.type = "auth_ss" => p = AuthSsOf("client")
  BY PacketsOfClient
<1>6. "server" \in Sides /\ Peer("server") = "client" /\ "client" \in Sides
  BY DEF Sides, Peer
<1>7. Creds("client") # Absent /\ conf["client"] \in Contexts
  BY <1>6, Configured
<1>8. Ack \in ToClient
  BY DEF ToClient
<1>9. CASE h.concrete = "pk"
  <2>1. concrete_handle_packet("server", h, p) = server_pk_handle_packet(h, p)
    BY <1>9 DEF concrete_handle_packet
  <2>2. CASE server_pk_handle_packet(h, p) = Fail(h)
    BY <1>2, <1>3, <1>4, <2>1, <2>2, ServerFails
  <2>3. CASE p.type = "auth" /\ p.creds = Absent /\ ~conf["server"].authenticateRemote
    <3>1. server_pk_handle_packet(h, p) = Step("succeeded", Ack, h)
      BY <2>3 DEF server_pk_handle_packet
    <3>2. ~HasCreds("client")
      BY <1>5, <1>7, <2>3 DEF AuthOf
    <3>3. ServerDone(h)
      BY <1>2, <1>9, <2>3, <3>2 DEF ServerDone, ClientKnown
    <3>4. ServerResult(Step("succeeded", Ack, h))
      BY <1>4, <1>8, <3>3 DEF ServerResult, Step
    <3> QED BY <1>3, <2>1, <3>1, <3>4
  <2>4. CASE p.type = "auth" /\ p.creds # Absent /\ verify_credentials("server", h, p.creds, FALSE)
    <3>1. HasCreds("client") /\ p.creds = Creds("client") /\ p.creds.key = conf["client"].key
      BY <1>5, <2>4 DEF AuthOf, Creds
    <3>2. OneChannel /\ conf["client"].key = conf["client"].chain.subject
      BY <1>2, <1>6, <2>4, <3>1, VerifiedIs
    <3>3. PICK g : g = [h EXCEPT !.remote = conf["client"].key]
      OBVIOUS
    <3>4. server_pk_handle_packet(h, p) = Step("succeeded", Ack, g)
      BY <2>4, <3>1, <3>3 DEF server_pk_handle_packet
    <3>5. conf["client"].key \in {c.key : c \in Contexts}
      BY <1>7
    <3>6. /\ g \in HandshakeObjects /\ g.remote = conf["client"].key /\ g.helloSent = h.helloSent
          /\ g.verified = h.verified /\ g.concrete = h.concrete /\ g.clientId = h.clientId
          /\ g.serverId = h.serverId /\ g.tag = h.tag
      BY <3>3, <3>5 DEF HandshakeObjects
    <3>7. ServerKeeps(g)
      BY <1>2, <3>6 DEF ServerKeeps, Made
    <3>8. ServerDone(g)
      BY <1>9, <2>4, <3>1, <3>2, <3>6 DEF ServerDone, ClientKnown
    <3>9. ServerResult(Step("succeeded", Ack, g))
      BY <1>8, <3>7, <3>8 DEF ServerResult, Step
    <3> QED BY <1>3, <2>1, <3>4, <3>9
  <2> QED BY <2>2, <2>3, <2>4 DEF server_pk_handle_packet
<1>10. CASE h.concrete = "ss"
  <2>1. concrete_handle_packet("server", h, p) = server_ss_handle_packet(h, p)
    BY <1>10 DEF concrete_handle_packet
  <2>2. CASE p.type = "auth_ss" /\ verify_auth_ss("server", h, p)
    <3>1. p.id = conf["client"].secretId /\ p = AuthSsOf("client")
      BY <1>5, <2>2 DEF AuthSsOf
    <3>2. SecretShared /\ SecretOf("server") # Absent
      BY <1>2, <1>6, <2>2, <3>1, VerifiedSsIs
    <3>3. make_auth_ss("server", h, p.id) = AuthSsOf("server")
      BY <1>2, <1>6, <3>1, <3>2, MakeAuthIs
    <3>4. server_ss_handle_packet(h, p) = Step("succeeded", AuthSsOf("server"), h)
      BY <2>2, <3>3 DEF server_ss_handle_packet
    <3>5. ServerDone(h)
      BY <1>10, <2>2, <3>2 DEF ServerDone
    <3>6. AuthSsOf("server") \in ToClient
      BY DEF ToClient
    <3>7. ServerResult(Step("succeeded", AuthSsOf("server"), h))
      BY <1>4, <3>5, <3>6 DEF ServerResult, Step
    <3> QED BY <1>3, <2>1, <3>4, <3>7
  <2>3. CASE ~(p.type = "auth_ss" /\ verify_auth_ss("server", h, p))
    <3>1. server_ss_handle_packet(h, p) = Fail(h)
      BY <2>3 DEF server_ss_handle_packet
    <3> QED BY <1>2, <1>3, <1>4, <2>1, <3>1, ServerFails
  <2> QED BY <2>2, <2>3
<1> QED BY <1>2, <1>9, <1>10

-----------------------------------------------------------------------------
(* The steps of the handshake.                                             *)

LEMMA Advance ==
    ASSUME HandshakeTypes, NEW s \in Sides, NEW r, NEW rest, advance_handshake(s, r, rest)
    PROVE  /\ UNCHANGED <<conf, chan>>
           /\ hs'[s] = r.hs /\ hs'[Peer(s)] = hs[Peer(s)]
           /\ result'[s] = r.state /\ result'[Peer(s)] = result[Peer(s)]
           /\ inbox'[s] = rest
           /\ inbox'[Peer(s)] = IF r.state = "error" \/ r.packet = Absent THEN inbox[Peer(s)]
                                ELSE Append(inbox[Peer(s)], r.packet)
           /\ r.hs \in HandshakeObjects => hs' \in [Sides -> HandshakeObjects]
           /\ r.state \in {"in_progress", "succeeded", "error"} =>
                 result' \in [Sides -> {"none", "in_progress", "succeeded", "error"}]
           /\ inbox' = [t \in Sides |-> inbox'[t]]
<1>1. s # Peer(s) /\ Peer(s) \in Sides
  BY DEF Peer, Sides
<1>2. /\ hs' = [hs EXCEPT ![s] = r.hs] /\ result' = [result EXCEPT ![s] = r.state] /\ UNCHANGED <<conf, chan>>
      /\ inbox' = [inbox EXCEPT ![s] = rest,
                     ![Peer(s)] = IF r.state = "error" \/ r.packet = Absent THEN inbox[Peer(s)]
                                  ELSE Append(inbox[Peer(s)], r.packet)]
  BY <1>1 DEF advance_handshake
<1>3. /\ hs'[s] = r.hs /\ hs'[Peer(s)] = hs[Peer(s)]
      /\ r.hs \in HandshakeObjects => hs' \in [Sides -> HandshakeObjects]
  BY <1>1, <1>2 DEF HandshakeTypes
<1>4. /\ result'[s] = r.state /\ result'[Peer(s)] = result[Peer(s)]
      /\ r.state \in {"in_progress", "succeeded", "error"} =>
            result' \in [Sides -> {"none", "in_progress", "succeeded", "error"}]
  BY <1>1, <1>2 DEF HandshakeTypes
<1>5. DOMAIN inbox = Sides /\ inbox = [t \in Sides |-> inbox[t]]
  BY DEF HandshakeTypes
<1>6. /\ inbox'[s] = rest
      /\ inbox'[Peer(s)] = IF r.state = "error" \/ r.packet = Absent THEN inbox[Peer(s)]
                           ELSE Append(inbox[Peer(s)], r.packet)
      /\ inbox' = [t \in Sides |-> inbox'[t]]
  BY <1>1, <1>2, <1>5
<1> QED BY <1>2, <1>3, <1>4, <1>6

LEMMA TailIs ==
    ASSUME NEW S, NEW q \in Seq(S), q # <<>>
    PROVE  /\ Head(q) \in S /\ Tail(q) \in Seq(S) /\ Head(q) = q[1] /\ 1 \in DOMAIN q
           /\ \A i \in DOMAIN Tail(q) : i + 1 \in DOMAIN q /\ Tail(q)[i] = q[i + 1]
OBVIOUS

LEMMA AppendIs ==
    ASSUME NEW S, NEW q \in Seq(S), NEW e \in S
    PROVE  /\ Append(q, e) \in Seq(S)
           /\ \A i \in DOMAIN Append(q, e) : Append(q, e)[i] = e \/ (i \in DOMAIN q /\ Append(q, e)[i] = q[i])
OBVIOUS

\* The packets are what the two contexts and channels make them.
LEMMA SamePackets ==
    ASSUME UNCHANGED <<conf, chan>>
    PROVE  ToServer' = ToServer /\ ToClient' = ToClient
BY DEF ToServer, ToClient, client_hello, server_hello, AuthOf, AuthSsOf, HasCreds, Creds, SecretOf, Binding, Ack

LEMMA SameFindings ==
    ASSUME UNCHANGED <<conf, chan>>, NEW h
    PROVE  /\ Made(h)' <=> Made(h)
           /\ ClientVerified(h)' <=> ClientVerified(h)
           /\ ClientKnown(h)' <=> ClientKnown(h)
           /\ SecretShared' <=> SecretShared
BY DEF Made, ClientVerified, ClientKnown, SecretShared, ServerVerified, HasCreds, OneChannel, Authentic, SecretOf

LEMMA ClientFrameStep ==
    ASSUME HandshakeInv, on_handshake_frame("client")
    PROVE  HandshakeInv'
<1>1. PICK p, r : /\ p = Head(inbox["client"]) /\ r = handle_packet("client", p)
                  /\ advance_handshake("client", r, Tail(inbox["client"]))
                  /\ inbox["client"] # <<>> /\ result["client"] \in {"none", "in_progress"}
  BY DEF on_handshake_frame
<1>2. result["client"] = "in_progress"
  BY <1>1 DEF HandshakeInv, Begun
<1>3. /\ inbox["client"] \in Seq(ToClient) /\ inbox["server"] \in Seq(ToServer)
      /\ hs["server"] \in HandshakeObjects
  BY DEF HandshakeInv, HandshakeTypes, Sides
<1>4. /\ p \in ToClient /\ Tail(inbox["client"]) \in Seq(ToClient)
      /\ p.type \in {"ack", "auth_ss"} => Succeeded("server")
      /\ \A i \in DOMAIN Tail(inbox["client"]) :
            Tail(inbox["client"])[i].type \in {"ack", "auth_ss"} => Succeeded("server")
  BY <1>1, <1>3, TailIs DEF HandshakeInv, Sent
<1>5. ClientResult(r)
  BY <1>1, <1>2, <1>4, ClientHello, ClientLast
<1>6. "client" \in Sides /\ Peer("client") = "server" /\ HandshakeTypes
  BY DEF Sides, Peer, HandshakeInv
<1>7. /\ UNCHANGED <<conf, chan>>
      /\ hs'["client"] = r.hs /\ hs'["server"] = hs["server"]
      /\ result'["client"] = r.state /\ result'["server"] = result["server"]
      /\ inbox'["client"] = Tail(inbox["client"])
      /\ inbox'["server"] = IF r.state = "error" \/ r.packet = Absent THEN inbox["server"]
                            ELSE Append(inbox["server"], r.packet)
      /\ hs' \in [Sides -> HandshakeObjects]
      /\ result' \in [Sides -> {"none", "in_progress", "succeeded", "error"}]
      /\ inbox' = [t \in Sides |-> inbox'[t]]
  BY <1>1, <1>5, <1>6, Advance DEF ClientResult, ClientKeeps
<1>8. disclosed' \in BOOLEAN /\ (disclosed' => disclosed \/ (r.packet # Absent /\ r.packet.type = "auth"))
  BY <1>1, <1>6 DEF advance_handshake, HandshakeTypes
<1>9. ToServer' = ToServer /\ ToClient' = ToClient
  BY <1>7, SamePackets
<1>10. /\ r.packet # Absent => r.packet \in ToServer
       /\ r.packet # Absent /\ r.packet.type = "auth" => r.hs.verified /\ r.hs.concrete = "pk"
       /\ r.packet # Absent /\ r.packet.type = "auth_ss" => r.hs.concrete = "ss"
  <2>1. AuthOf("client").type = "auth" /\ AuthSsOf("client").type = "auth_ss"
    BY DEF AuthOf, AuthSsOf
  <2> QED BY <1>5, <2>1 DEF ClientResult, ClientKeeps, ClientVerified, ToServer
<1>11. HandshakeTypes'
  <2>1. inbox'["server"] \in Seq(ToServer)
    BY <1>3, <1>7, <1>10, AppendIs
  <2> QED BY <1>4, <1>7, <1>8, <1>9, <2>1 DEF HandshakeTypes
<1>12. Begun'
  <2>1. r.state # "none"
    BY <1>5 DEF ClientResult
  <2> QED BY <1>2, <1>7, <2>1 DEF HandshakeInv, Begun
<1>13. ClientSide'
  <2>1. Made(r.hs)' /\ ClientVerified(r.hs)' /\ (r.state = "succeeded" => ClientDone(r.hs)')
    BY <1>5, <1>7, SameFindings DEF ClientResult, ClientKeeps, ClientDone, Succeeded
  <2>2. /\ ~r.hs.helloSent /\ (r.state \in {"in_progress", "succeeded"} => r.hs.concrete # "none")
        /\ hs["client"].verified => r.hs.verified
    BY <1>5 DEF ClientResult, ClientKeeps
  <2>3. disclosed' => r.hs.verified
    BY <1>8, <1>10, <2>2 DEF HandshakeInv, ClientSide
  <2> QED BY <1>7, <2>1, <2>2, <2>3 DEF ClientSide, Made, ClientVerified, ClientDone, Succeeded
<1>14. ServerSide'
  <2>1. PICK h : h = hs["server"]
    OBVIOUS
  <2>2. Made(h) /\ ~h.helloSent /\ ~h.verified /\ (~Succeeded("server") => h.remote = Absent)
    BY <2>1 DEF HandshakeInv, ServerSide
  <2>3. Succeeded("server") => ServerDone(h) /\ hs'["client"].concrete = hs["client"].concrete
    BY <1>5, <1>7, <2>1 DEF HandshakeInv, ServerSide, ServerDone, ClientResult, ClientKeeps
  <2>4. Made(h)' /\ (Succeeded("server") => ServerDone(h)')
    BY <1>7, <2>2, <2>3, SameFindings DEF ServerDone
  <2> QED BY <1>7, <2>1, <2>2, <2>4 DEF ServerSide, Made, ServerDone, ClientKnown, Succeeded
<1>15. Sent'
  <2>1. \A i \in DOMAIN inbox["server"] :
          /\ inbox["server"][i].type = "auth" => r.hs.concrete = "pk"
          /\ inbox["server"][i].type = "auth_ss" => r.hs.concrete = "ss"
    BY <1>5 DEF HandshakeInv, Sent, ClientResult, ClientKeeps
  <2>2. \A i \in DOMAIN inbox'["server"] :
          /\ inbox'["server"][i].type = "auth" => r.hs.concrete = "pk"
          /\ inbox'["server"][i].type = "auth_ss" => r.hs.concrete = "ss"
    <3>1. CASE r.state = "error" \/ r.packet = Absent
      BY <1>7, <2>1, <3>1
    <3>2. CASE ~(r.state = "error" \/ r.packet = Absent)
      <4>1. inbox'["server"] = Append(inbox["server"], r.packet)
        BY <1>7, <3>2
      <4> QED BY <1>3, <1>10, <2>1, <3>2, <4>1, AppendIs
    <3> QED BY <3>1, <3>2
  <2> QED BY <1>4, <1>7, <2>2 DEF Sent, Succeeded
<1> QED BY <1>11, <1>12, <1>13, <1>14, <1>15 DEF HandshakeInv

LEMMA ServerFrameStep ==
    ASSUME HandshakeInv, on_handshake_frame("server")
    PROVE  HandshakeInv'
<1>1. PICK p, r : /\ p = Head(inbox["server"]) /\ r = handle_packet("server", p)
                  /\ advance_handshake("server", r, Tail(inbox["server"]))
                  /\ inbox["server"] # <<>> /\ result["server"] \in {"none", "in_progress"}
  BY DEF on_handshake_frame
<1>2. result["client"] # "none" /\ ~Succeeded("server") /\ ~Succeeded("client")
  BY <1>1 DEF HandshakeInv, Begun, Succeeded, ClientSide, ClientDone
<1>3. /\ inbox["client"] \in Seq(ToClient) /\ inbox["server"] \in Seq(ToServer)
      /\ hs["client"] \in HandshakeObjects
  BY DEF HandshakeInv, HandshakeTypes, Sides
<1>4. /\ p \in ToServer /\ Tail(inbox["server"]) \in Seq(ToServer)
      /\ p.type = "auth" => hs["client"].concrete = "pk"
      /\ p.type = "auth_ss" => hs["client"].concrete = "ss"
      /\ \A i \in DOMAIN Tail(inbox["server"]) :
            /\ Tail(inbox["server"])[i].type = "auth" => hs["client"].concrete = "pk"
            /\ Tail(inbox["server"])[i].type = "auth_ss" => hs["client"].concrete = "ss"
  BY <1>1, <1>3, TailIs DEF HandshakeInv, Sent
<1>5. ServerResult(r)
  BY <1>1, <1>2, <1>4, ServerHello, ServerLast
<1>6. "server" \in Sides /\ Peer("server") = "client" /\ HandshakeTypes
  BY DEF Sides, Peer, HandshakeInv
<1>7. /\ UNCHANGED <<conf, chan>>
      /\ hs'["server"] = r.hs /\ hs'["client"] = hs["client"]
      /\ result'["server"] = r.state /\ result'["client"] = result["client"]
      /\ inbox'["server"] = Tail(inbox["server"])
      /\ inbox'["client"] = IF r.state = "error" \/ r.packet = Absent THEN inbox["client"]
                            ELSE Append(inbox["client"], r.packet)
      /\ hs' \in [Sides -> HandshakeObjects]
      /\ result' \in [Sides -> {"none", "in_progress", "succeeded", "error"}]
      /\ inbox' = [t \in Sides |-> inbox'[t]]
  BY <1>1, <1>5, <1>6, Advance DEF ServerResult, ServerKeeps
<1>8. UNCHANGED disclosed
  BY <1>1, <1>6 DEF advance_handshake, HandshakeTypes
<1>9. ToServer' = ToServer /\ ToClient' = ToClient
  BY <1>7, SamePackets
<1>10. HandshakeTypes'
  <2>1. inbox'["client"] \in Seq(ToClient)
    BY <1>3, <1>5, <1>7, AppendIs DEF ServerResult
  <2> QED BY <1>4, <1>6, <1>7, <1>8, <1>9, <2>1 DEF HandshakeTypes
<1>11. Begun'
  BY <1>2, <1>7 DEF HandshakeInv, Begun
<1>12. ClientSide'
  <2>1. PICK h : h = hs["client"]
    OBVIOUS
  <2>2. /\ Made(h) /\ ClientVerified(h)
        /\ h.helloSent => h.clientId = "client id" /\ h.tag = conf["client"].tag /\ ~h.verified
        /\ result["client"] \in {"in_progress", "succeeded"} /\ ~h.helloSent => h.concrete # "none"
        /\ disclosed => h.verified
    BY <2>1 DEF HandshakeInv, ClientSide
  <2>3. Made(h)' /\ ClientVerified(h)'
    BY <1>7, <2>2, SameFindings
  <2> QED BY <1>2, <1>7, <1>8, <2>1, <2>2, <2>3 DEF ClientSide, Made, ClientVerified, Succeeded
<1>13. ServerSide'
  <2>1. Made(r.hs) /\ ~r.hs.helloSent /\ ~r.hs.verified /\ (r.state # "succeeded" => r.hs.remote = Absent)
        /\ (r.state = "succeeded" => ServerDone(r.hs))
    BY <1>5 DEF ServerResult, ServerKeeps
  <2>2. Made(r.hs)' /\ (r.state = "succeeded" => ServerDone(r.hs)')
    BY <1>7, <2>1, SameFindings DEF ServerDone
  <2> QED BY <1>7, <2>1, <2>2 DEF ServerSide, Made, ServerDone, ClientKnown, Succeeded
<1>14. Sent'
  <2>1. \A i \in DOMAIN inbox["client"] : inbox["client"][i].type \notin {"ack", "auth_ss"}
    BY <1>2 DEF HandshakeInv, Sent
  <2>2. \A i \in DOMAIN inbox'["client"] : inbox'["client"][i].type \in {"ack", "auth_ss"} => r.state = "succeeded"
    <3>1. CASE r.state = "error" \/ r.packet = Absent
      BY <1>7, <2>1, <3>1
    <3>2. CASE ~(r.state = "error" \/ r.packet = Absent)
      <4>1. inbox'["client"] = Append(inbox["client"], r.packet) /\ r.packet \in ToClient
        BY <1>5, <1>7, <3>2 DEF ServerResult
      <4>2. r.packet.type \in {"ack", "auth_ss"} => r.state = "succeeded"
        BY <1>5, <3>2 DEF ServerResult
      <4> QED BY <1>3, <2>1, <4>1, <4>2, AppendIs
    <3> QED BY <3>1, <3>2
  <2> QED BY <1>4, <1>7, <2>2 DEF Sent, Succeeded
<1> QED BY <1>10, <1>11, <1>12, <1>13, <1>14 DEF HandshakeInv

\* A handshake object as it is constructed.
LEMMA NewIs ==
    /\ NewHandshake.concrete = "none" /\ ~NewHandshake.helloSent /\ ~NewHandshake.verified
    /\ NewHandshake.remote = Absent /\ NewHandshake \in HandshakeObjects
<1>1. "none" \in {"none", "pk", "ss"} /\ FALSE \in BOOLEAN /\ Absent \in {c.key : c \in Contexts} \cup {Absent}
      /\ Absent \in {Absent, "client id"} /\ Absent \in {Absent, "server id"}
      /\ "unknown" \in {c.tag : c \in Contexts} \cup {"unknown"}
  OBVIOUS
<1>2. NewHandshake \in HandshakeObjects
  BY <1>1 DEF NewHandshake, HandshakeObjects
<1> QED BY <1>2 DEF NewHandshake

\* What start makes of it.
LEMMA StartedRecord ==
    ASSUME NEW tag, NEW h,
           h = [NewHandshake EXCEPT !.helloSent = TRUE, !.clientId = "client id", !.tag = tag]
    PROVE  h = [helloSent |-> TRUE, concrete |-> "none", verified |-> FALSE, remote |-> Absent,
                clientId |-> "client id", serverId |-> Absent, tag |-> tag]
BY DEF NewHandshake

LEMMA StartedIs ==
    ASSUME NEW tag, tag \in {d.tag : d \in Contexts}, NEW h,
           h = [helloSent |-> TRUE, concrete |-> "none", verified |-> FALSE, remote |-> Absent,
                clientId |-> "client id", serverId |-> Absent, tag |-> tag]
    PROVE  /\ h \in HandshakeObjects /\ h.helloSent /\ h.concrete = "none" /\ ~h.verified
           /\ h.clientId = "client id" /\ h.tag = tag
<1>1. h \in HandshakeObjects
  BY DEF HandshakeObjects
<1> QED BY <1>1

LEMMA StartStep ==
    ASSUME HandshakeInv, start
    PROVE  HandshakeInv'
<1>1. PICK h, r : /\ h = [hs["client"] EXCEPT !.helloSent = TRUE, !.clientId = "client id",
                                              !.tag = conf["client"].tag]
                  /\ r = Step("in_progress", client_hello(h.clientId), h)
                  /\ advance_handshake("client", r, <<>>)
                  /\ conf["client"] # Absent /\ result["client"] = "none"
  BY DEF start
<1>2. /\ result["server"] = "none" /\ inbox["client"] = <<>> /\ inbox["server"] = <<>>
      /\ hs["client"] = NewHandshake /\ hs["server"] = NewHandshake /\ ~disclosed
      /\ conf \in [Sides -> Contexts] /\ chan \in [Sides -> Channels] /\ conf["client"] \in Contexts
  BY <1>1 DEF HandshakeInv, Begun, Sides
<1>3. /\ h \in HandshakeObjects /\ h.helloSent /\ h.concrete = "none" /\ ~h.verified /\ h.clientId = "client id"
      /\ h.tag = conf["client"].tag
  <2>1. PICK tag : tag = conf["client"].tag
    OBVIOUS
  <2>2. tag \in {d.tag : d \in Contexts}
    BY <1>2, <2>1
  <2>3. h = [helloSent |-> TRUE, concrete |-> "none", verified |-> FALSE, remote |-> Absent,
             clientId |-> "client id", serverId |-> Absent, tag |-> tag]
    <3>1. h = [NewHandshake EXCEPT !.helloSent = TRUE, !.clientId = "client id", !.tag = tag]
      BY <1>1, <1>2, <2>1
    <3> QED BY <3>1, StartedRecord
  <2> QED BY <2>1, <2>2, <2>3, StartedIs
<1>4. r.hs = h /\ r.state = "in_progress" /\ r.packet = client_hello("client id")
  BY <1>1, <1>3 DEF Step
<1>5. "client" \in Sides /\ Peer("client") = "server" /\ HandshakeTypes
  BY DEF Sides, Peer, HandshakeInv
<1>6. /\ UNCHANGED <<conf, chan>>
      /\ hs'["client"] = h /\ hs'["server"] = NewHandshake
      /\ result'["client"] = "in_progress" /\ result'["server"] = "none"
      /\ inbox'["client"] = <<>>
      /\ inbox'["server"] = IF r.packet = Absent THEN <<>> ELSE Append(<<>>, r.packet)
      /\ hs' \in [Sides -> HandshakeObjects]
      /\ result' \in [Sides -> {"none", "in_progress", "succeeded", "error"}]
      /\ inbox' = [t \in Sides |-> inbox'[t]]
  <2>1. PICK rest : rest = <<>>
    OBVIOUS
  <2>2. advance_handshake("client", r, rest)
    BY <1>1, <2>1
  <2>3. /\ UNCHANGED <<conf, chan>>
        /\ hs'["client"] = r.hs /\ hs'["server"] = hs["server"]
        /\ result'["client"] = r.state /\ result'["server"] = result["server"]
        /\ inbox'["client"] = rest
        /\ inbox'["server"] = IF r.state = "error" \/ r.packet = Absent THEN inbox["server"]
                              ELSE Append(inbox["server"], r.packet)
        /\ r.hs \in HandshakeObjects => hs' \in [Sides -> HandshakeObjects]
        /\ r.state \in {"in_progress", "succeeded", "error"} =>
              result' \in [Sides -> {"none", "in_progress", "succeeded", "error"}]
        /\ inbox' = [t \in Sides |-> inbox'[t]]
    BY <1>5, <2>2, Advance
  <2> QED BY <1>2, <1>3, <1>4, <2>1, <2>3
<1>7. r.packet \in ToServer /\ r.packet.type = "client_hello"
  <2>1. client_hello("client id").type = "client_hello"
    BY DEF client_hello
  <2> QED BY <1>4, <2>1 DEF ToServer
<1>8. /\ inbox'["server"] \in Seq(ToServer) /\ inbox'["client"] \in Seq(ToClient)
      /\ \A i \in DOMAIN inbox'["server"] : inbox'["server"][i].type = "client_hello"
  <2>1. PICK q : q = <<>>
    OBVIOUS
  <2>2. q \in Seq(ToServer) /\ q \in Seq(ToClient) /\ DOMAIN q = {}
    BY <2>1
  <2>3. inbox'["server"] = q \/ inbox'["server"] = Append(q, r.packet)
    BY <1>6, <2>1
  <2>4. inbox'["client"] \in Seq(ToClient)
    BY <1>6, <2>1, <2>2
  <2>5. Append(q, r.packet) \in Seq(ToServer)
        /\ \A i \in DOMAIN Append(q, r.packet) : Append(q, r.packet)[i] = r.packet
    BY <1>7, <2>2, AppendIs
  <2> QED BY <1>7, <2>2, <2>3, <2>4, <2>5
<1>9. ~disclosed'
  BY <1>1, <1>2, <1>7 DEF advance_handshake
<1>10. ToServer' = ToServer /\ ToClient' = ToClient
  BY <1>6, SamePackets
<1>11. HandshakeTypes'
  <2>1. inbox'["server"] \in Seq(ToServer') /\ inbox'["client"] \in Seq(ToClient')
    BY <1>8, <1>10
  <2>2. disclosed' \in BOOLEAN
    BY <1>9, <1>1 DEF advance_handshake
  <2> QED BY <1>6, <2>1, <2>2 DEF HandshakeTypes
<1>12. Begun'
  <2>1. conf'["client"] # Absent /\ result'["client"] # "none"
    BY <1>1, <1>6
  <2>2. conf' \in [Sides -> Contexts] /\ chan' \in [Sides -> Channels]
    BY <1>2, <1>6
  <2> QED BY <2>1, <2>2 DEF Begun
<1>13. Sent'
  <2>1. \A i \in DOMAIN inbox'["server"] : inbox'["server"][i].type \notin {"auth", "auth_ss"}
    BY <1>8
  <2>2. DOMAIN inbox'["client"] = {}
    BY <1>6
  <2> QED BY <2>1, <2>2 DEF Sent
<1>14. ClientSide'
  <2>1. hs'["client"] = h /\ conf' = conf /\ ~disclosed' /\ ~Succeeded("client")'
    BY <1>6, <1>9 DEF Succeeded
  <2> QED BY <1>3, <2>1 DEF ClientSide, Made, ClientVerified
<1>15. ServerSide'
  <2>1. hs'["server"] = NewHandshake /\ ~Succeeded("server")'
    BY <1>6 DEF Succeeded
  <2> QED BY <2>1, NewIs DEF ServerSide, Made
<1> QED BY <1>11, <1>12, <1>13, <1>14, <1>15 DEF HandshakeInv

LEMMA ConfigureStep ==
    ASSUME HandshakeInv, Configure
    PROVE  HandshakeInv'
<1>1. /\ conf["client"] = Absent /\ conf' \in [Sides -> Contexts] /\ chan' \in [Sides -> Channels]
      /\ UNCHANGED <<hs, result, inbox, disclosed>>
  BY DEF Configure
<1>2. /\ result["client"] = "none" /\ result["server"] = "none" /\ inbox["client"] = <<>> /\ inbox["server"] = <<>>
      /\ hs["client"] = NewHandshake /\ hs["server"] = NewHandshake /\ ~disclosed
  BY <1>1 DEF HandshakeInv, Begun
<1>3. inbox'["client"] \in Seq(ToClient') /\ inbox'["server"] \in Seq(ToServer')
  BY <1>1, <1>2
<1>4. HandshakeTypes'
  BY <1>1, <1>3 DEF HandshakeInv, HandshakeTypes
<1>5. Begun' /\ Sent'
  BY <1>1, <1>2 DEF Begun, Sent
<1>6. ClientSide' /\ ServerSide'
  BY <1>1, <1>2 DEF ClientSide, ServerSide, Made, ClientVerified, Succeeded, NewHandshake
<1> QED BY <1>4, <1>5, <1>6 DEF HandshakeInv

LEMMA PeerClosedStep ==
    ASSUME HandshakeInv, NEW s \in Sides, PeerClosed(s)
    PROVE  HandshakeInv'
<1>1. /\ result[s] \in {"none", "in_progress"} /\ result[Peer(s)] = "error"
      /\ result' = [result EXCEPT ![s] = "error"] /\ UNCHANGED <<conf, chan, hs, inbox, disclosed>>
  BY DEF PeerClosed
<1>2. result["client"] # "none"
  BY <1>1 DEF HandshakeInv, Begun, Peer, Sides
<1>3. /\ result' \in [Sides -> {"none", "in_progress", "succeeded", "error"}]
      /\ \A t \in Sides : result'[t] = IF t = s THEN "error" ELSE result[t]
  BY <1>1 DEF HandshakeInv, HandshakeTypes
<1>4. \A t \in Sides : Succeeded(t)' <=> Succeeded(t)
  BY <1>1, <1>3 DEF Succeeded
<1>5. result'["client"] # "none" /\ (result'["client"] \in {"in_progress", "succeeded"} => result'["client"] = result["client"])
  BY <1>2, <1>3 DEF Sides
<1>6. ToServer' = ToServer /\ ToClient' = ToClient
  BY <1>1, SamePackets
<1>7. HandshakeTypes'
  BY <1>1, <1>3, <1>6 DEF HandshakeInv, HandshakeTypes
<1>8. Begun' /\ Sent'
  BY <1>1, <1>2, <1>4, <1>5 DEF HandshakeInv, Begun, Sent, Sides
<1>9. PICK a, b : a = hs["client"] /\ b = hs["server"]
  OBVIOUS
<1>10. /\ Made(a)' <=> Made(a)
       /\ ClientVerified(a)' <=> ClientVerified(a)
       /\ ClientDone(a)' <=> ClientDone(a)
       /\ Made(b)' <=> Made(b)
       /\ ServerDone(b)' <=> ServerDone(b)
  <2>1. Succeeded("server")' <=> Succeeded("server")
    BY <1>4 DEF Sides
  <2> QED BY <1>1, <2>1, SameFindings DEF ClientDone, ServerDone
<1>11. /\ Made(a)' /\ ClientVerified(a)'
       /\ a.helloSent => a.clientId = "client id" /\ a.tag = conf["client"].tag /\ ~a.verified
       /\ result["client"] \in {"in_progress", "succeeded"} /\ ~a.helloSent => a.concrete # "none"
       /\ disclosed => a.verified
       /\ Succeeded("client")' => ClientDone(a)'
  <2>1. Succeeded("client")' => Succeeded("client")
    BY <1>4 DEF Sides
  <2> QED BY <1>9, <1>10, <2>1 DEF HandshakeInv, ClientSide
<1>12. /\ Made(b)' /\ ~b.helloSent /\ ~b.verified
       /\ ~Succeeded("server")' => b.remote = Absent
       /\ Succeeded("server")' => ServerDone(b)'
  <2>1. Succeeded("server")' <=> Succeeded("server")
    BY <1>4 DEF Sides
  <2> QED BY <1>9, <1>10, <2>1 DEF HandshakeInv, ServerSide
<1>13. hs' = hs /\ conf' = conf /\ disclosed' = disclosed /\ hs["client"] = a /\ hs["server"] = b
  BY <1>1, <1>9
<1>14. ClientSide'
  BY <1>5, <1>11, <1>13 DEF ClientSide, Made, ClientVerified, ClientDone
<1>15. ServerSide'
  BY <1>12, <1>13 DEF ServerSide, Made, ServerDone, ClientKnown
<1> QED BY <1>7, <1>8, <1>14, <1>15 DEF HandshakeInv

LEMMA HandshakeInitInv == HandshakeInit => HandshakeInv
<1> SUFFICES ASSUME HandshakeInit PROVE HandshakeInv
  OBVIOUS
<1>1. /\ conf["client"] = Absent /\ hs["client"] = NewHandshake /\ hs["server"] = NewHandshake
      /\ result["client"] = "none" /\ result["server"] = "none"
      /\ inbox["client"] = <<>> /\ inbox["server"] = <<>> /\ ~disclosed
  BY DEF HandshakeInit, Sides
<1>2. HandshakeTypes
  <2>1. hs \in [Sides -> HandshakeObjects] /\ result \in [Sides -> {"none", "in_progress", "succeeded", "error"}]
        /\ inbox = [s \in Sides |-> inbox[s]] /\ disclosed \in BOOLEAN
    BY NewIs DEF HandshakeInit
  <2>2. inbox["server"] \in Seq(ToServer) /\ inbox["client"] \in Seq(ToClient)
    BY <1>1
  <2> QED BY <2>1, <2>2 DEF HandshakeTypes
<1>3. Begun /\ Sent
  BY <1>1 DEF Begun, Sent
<1>4. ClientSide
  <2>1. hs["client"] = NewHandshake /\ ~disclosed /\ ~Succeeded("client") /\ result["client"] = "none"
    BY <1>1 DEF Succeeded
  <2> QED BY <2>1, NewIs DEF ClientSide, Made, ClientVerified
<1>5. ServerSide
  <2>1. hs["server"] = NewHandshake /\ ~Succeeded("server")
    BY <1>1 DEF Succeeded
  <2> QED BY <2>1, NewIs DEF ServerSide, Made
<1> QED BY <1>2, <1>3, <1>4, <1>5 DEF HandshakeInv

LEMMA HandshakeStepInv == HandshakeInv /\ [HandshakeNext]_hsVars => HandshakeInv'
<1> SUFFICES ASSUME HandshakeInv, [HandshakeNext]_hsVars PROVE HandshakeInv'
  OBVIOUS
<1>1. ASSUME NEW s \in Sides, on_handshake_frame(s) PROVE HandshakeInv'
  BY <1>1, ClientFrameStep, ServerFrameStep DEF Sides
<1>2. CASE UNCHANGED hsVars
  <2>1. UNCHANGED <<conf, chan, hs, result, inbox, disclosed>>
    BY <1>2 DEF hsVars
  <2>2. ToServer' = ToServer /\ ToClient' = ToClient
    BY <2>1, SamePackets
  <2>3. HandshakeTypes' /\ Begun' /\ Sent'
    BY <2>1, <2>2 DEF HandshakeInv, HandshakeTypes, Begun, Sent, Succeeded
  <2>4. ClientSide' /\ ServerSide'
    BY <2>1 DEF HandshakeInv, ClientSide, ServerSide, Made, ClientVerified, ClientDone, ServerDone, ClientKnown,
       SecretShared, ServerVerified, HasCreds, OneChannel, Authentic, SecretOf, Succeeded
  <2> QED BY <2>3, <2>4 DEF HandshakeInv
<1> QED BY <1>1, <1>2, ConfigureStep, StartStep, PeerClosedStep DEF HandshakeNext

\* TrustKept for any contexts of the two ends, whether their channel is one or an intermediary's two:
\* an end that succeeds knows whom it talks to, over which channel, and that the other agrees on the
\* method; and the client discloses itself only to a server it has verified.
THEOREM TrustIsKept == HandshakeSpec => []TrustKept
<1>1. HandshakeInv => TrustKept
  <2> SUFFICES ASSUME HandshakeInv PROVE PeersAgree /\ DisclosedToVerified
    BY DEF TrustKept
  <2>1. /\ Succeeded("client") => ClientDone(hs["client"])
        /\ Succeeded("server") => ServerDone(hs["server"])
        /\ Made(hs["client"]) /\ Made(hs["server"]) /\ ClientVerified(hs["client"])
    BY DEF HandshakeInv, ClientSide, ServerSide
  <2>2. DisclosedToVerified
    BY <2>1 DEF HandshakeInv, ClientSide, ClientVerified, ServerVerified, DisclosedToVerified
  <2>3. ASSUME Succeeded("server")
        PROVE  /\ hs["server"].concrete = hs["client"].tag /\ hs["client"].concrete = hs["server"].concrete
               /\ hs["server"].concrete = "pk" => ClientKnown(hs["server"])
               /\ hs["server"].concrete = "ss" => SecretShared
    BY <2>1, <2>3 DEF ServerDone, Made
  <2>4. ASSUME Succeeded("client")
        PROVE  /\ Succeeded("server") /\ hs["client"].concrete = hs["client"].tag
               /\ hs["client"].concrete = "pk" => hs["client"].remote = conf["server"].key /\ ServerVerified
               /\ hs["client"].concrete = "ss" => SecretShared
    BY <2>1, <2>4 DEF ClientDone, Made, ClientVerified
  <2>5. PeersAgree
    BY <2>3, <2>4 DEF PeersAgree, Sides, Peer, ClientKnown, ServerVerified, SecretShared, SecretOf, HasCreds
  <2> QED BY <2>2, <2>5
<1> QED BY <1>1, HandshakeInitInv, HandshakeStepInv, PTL DEF HandshakeSpec

-----------------------------------------------------------------------------
(* InPackets: the rows, and the handles that stand for them.  Nothing is   *)
(* said once the application has used a handle of a packet it had marked.  *)

InPacketsSpec == InPacketsInit /\ [][InPacketsNext]_inVars

InHandles == [key : InRowKeys, packet : Nat]
InboxTypes ==
    /\ arrived \in Nat /\ seen \subseteq 1..arrived /\ noted \in Seq(Nat) /\ Len(noted) = arrived
    /\ DOMAIN inRows \subseteq InRowKeys
    /\ \A k \in DOMAIN inRows : inRows[k] \in [packet : 1..arrived, userdata : Nat]
    /\ emitted \in Seq(InHandles) /\ held \subseteq InHandles

\* Each packet that was not marked has one row, with its data; those that were marked have none.
RowsKept ==
    /\ \A k \in DOMAIN inRows : inRows[k].packet \notin seen /\ inRows[k].userdata = noted[inRows[k].packet]
    /\ \A k, j \in DOMAIN inRows : inRows[k].packet = inRows[j].packet => k = j
    /\ \A p \in 1..arrived : p \notin seen => \E k \in DOMAIN inRows : inRows[k].packet = p

\* A handle finds the row of its packet, if that is not marked.
Finds(h, rows, marked, n) ==
    /\ h.packet \in 1..n
    /\ h.packet \notin marked => h.key \in DOMAIN rows /\ rows[h.key].packet = h.packet
HandlesFind ==
    /\ \A h \in held : Finds(h, inRows, seen, arrived)
    /\ \A i \in DOMAIN emitted : Finds(emitted[i], inRows, seen, arrived)

InboxKept == InboxTypes /\ RowsKept /\ HandlesFind
InboxInv == again \in BOOLEAN /\ (~again => InboxKept)

\* A set of numbers that is not empty has a smallest one, and, with a bound, a largest.
LEMMA LeastNumber ==
    ASSUME NEW U \in SUBSET Nat, U # {}
    PROVE  \E m \in U : \A n \in U : m <= n
<1>1. PICK m \in U : \A y \in U : ~(<<y, m>> \in OpToRel(<, Nat))
  BY WFMin, NatLessThanWellFounded
<1>2. \A y \in U : ~(y < m)
  BY <1>1 DEF OpToRel
<1> QED BY <1>2

LEMMA LargestKey ==
    ASSUME NEW N \in Nat, NEW S \in SUBSET (1..N), S # {}
    PROVE  Max(S) \in S /\ \A y \in S : y <= Max(S)
<1> DEFINE U == {n \in Nat : \A y \in S : y <= n}
<1>1. N \in U
  OBVIOUS
<1>2. PICK m \in U : \A n \in U : m <= n
  <2>1. U \in SUBSET Nat /\ U # {}
    BY <1>1
  <2> HIDE DEF U
  <2> QED BY <2>1, LeastNumber
<1>3. m \in Nat /\ \A y \in S : y \in Nat /\ 1 <= y /\ y <= m
  BY <1>2
<1>4. m \in S
  <2> SUFFICES ASSUME m \notin S PROVE FALSE
    OBVIOUS
  <2>0. PICK z \in S : TRUE
    OBVIOUS
  <2>1. m - 1 \in Nat /\ \A y \in S : y <= m - 1
    <3>1. \A y \in S : y # m
      OBVIOUS
    <3>2. z \in Nat /\ 1 <= z /\ z <= m
      BY <1>3
    <3> HIDE DEF U
    <3> QED BY <1>3, <3>1, <3>2
  <2>2. m - 1 \in U
    BY <2>1
  <2> HIDE DEF U
  <2> QED BY <1>2, <1>3, <2>2
<1>5. m \in S /\ \A y \in S : m >= y
  BY <1>3, <1>4
<1> QED BY <1>5 DEF Max

LEMMA NewRowKey ==
    ASSUME DOMAIN inRows \subseteq InRowKeys
    PROVE  row_key \notin DOMAIN inRows
<1>1. PICK N \in Nat : InRowKeys = 1..N
  BY InRowAssumption, FS_CardinalityType
<1>2. CASE DOMAIN inRows = {}
  BY <1>2
<1>3. CASE DOMAIN inRows # {}
  <2>1. PICK S : S = DOMAIN inRows
    OBVIOUS
  <2>0. S \in SUBSET (1..N) /\ S # {}
    BY <1>1, <1>3, <2>1
  <2>2. Max(S) \in S /\ (\A y \in S : y <= Max(S)) /\ \A y \in S : y \in Nat
    <3>1. Max(S) \in S /\ \A y \in S : y <= Max(S)
      BY <2>0, LargestKey, Zenon
    <3>2. \A y \in S : y \in Nat
      BY <2>0
    <3> QED BY <3>1, <3>2
  <2>3. row_key = Max(S) + 1
    BY <1>3, <2>1 DEF row_key
  <2>4. Max(S) + 1 \notin S
    BY <2>2
  <2> QED BY <2>1, <2>3, <2>4
<1> QED BY <1>2, <1>3

\* The rows in the order of their keys: there is one at each place.
LEMMA RowAtPlace ==
    ASSUME DOMAIN inRows \subseteq InRowKeys, NEW i \in 1..Cardinality(DOMAIN inRows)
    PROVE  \E k \in DOMAIN inRows : InOrder(k) = i
<1>1. PICK N \in Nat : InRowKeys = 1..N
  BY InRowAssumption, FS_CardinalityType
<1> DEFINE below(n) == {j \in DOMAIN inRows : j <= n}
           U == {n \in Nat : Cardinality(below(n)) >= i}
<1>2. IsFiniteSet(DOMAIN inRows) /\ Cardinality(DOMAIN inRows) \in Nat
  BY InRowAssumption, FS_Subset, FS_CardinalityType
<1>3. ASSUME NEW n \in Nat PROVE IsFiniteSet(below(n)) /\ Cardinality(below(n)) \in Nat
  <2>1. below(n) \in SUBSET (DOMAIN inRows)
    OBVIOUS
  <2> QED BY <1>2, <2>1, FS_Subset, FS_CardinalityType
<1>4. \A j \in DOMAIN inRows : j \in Nat /\ 1 <= j /\ j <= N
  BY <1>1
<1>5. N \in U
  <2>1. below(N) = DOMAIN inRows
    BY <1>4, Zenon
  <2>2. Cardinality(below(N)) >= i
    BY <1>2, <2>1
  <2> QED BY <2>2
<1>6. PICK n \in U : \A l \in U : n <= l
  <2>1. U \in SUBSET Nat /\ U # {}
    BY <1>5
  <2> HIDE DEF U
  <2> QED BY <2>1, LeastNumber
<1>7. n \in Nat /\ Cardinality(below(n)) >= i /\ i \in Nat /\ i >= 1
  BY <1>2, <1>6
<1>8. n >= 1
  <2> SUFFICES ASSUME n = 0 PROVE FALSE
    BY <1>7
  <2>1. \A j \in DOMAIN inRows : ~(j <= 0)
    BY <1>4
  <2>2. below(0) = {}
    BY <2>1, Zenon
  <2>3. Cardinality(below(0)) = 0
    BY <2>2, FS_EmptySet
  <2> HIDE DEF below
  <2> QED BY <1>7, <2>3
<1>9. PICK l \in Nat : l = n - 1 /\ l < n
  BY <1>7, <1>8
<1>10. Cardinality(below(l)) < i /\ Cardinality(below(l)) \in Nat /\ Cardinality(below(n)) \in Nat
  <2>1. ~(n <= l)
    BY <1>7, <1>9
  <2>2. l \notin U
    <3> HIDE DEF U
    <3> QED BY <1>6, <2>1
  <2>3. Cardinality(below(l)) \in Nat /\ Cardinality(below(n)) \in Nat
    BY <1>3, <1>7
  <2>4. ~(Cardinality(below(l)) >= i)
    BY <2>2
  <2> HIDE DEF below
  <2> QED BY <1>7, <2>3, <2>4
<1>11. \A j \in DOMAIN inRows : j <= n <=> j <= l \/ j = n
  BY <1>4, <1>7, <1>9
<1>12. n \in DOMAIN inRows
  <2> SUFFICES ASSUME n \notin DOMAIN inRows PROVE FALSE
    OBVIOUS
  <2>1. below(n) = below(l)
    BY <1>11, Zenon
  <2> HIDE DEF below
  <2> QED BY <1>7, <1>10, <2>1
<1>13. Cardinality(below(n)) = Cardinality(below(l)) + 1
  <2>1. below(n) = below(l) \cup {n}
    BY <1>11, <1>12, Zenon
  <2>2. ~(n <= l)
    BY <1>7, <1>9
  <2>3. n \notin below(l)
    BY <2>2
  <2>4. IsFiniteSet(below(l))
    BY <1>3
  <2> HIDE DEF below
  <2> QED BY <2>1, <2>3, <2>4, FS_AddElement
<1>14. Cardinality(below(n)) = i
  <2> HIDE DEF below
  <2> QED BY <1>7, <1>10, <1>13
<1>15. InOrder(n) = i
  BY <1>14 DEF InOrder
<1> QED BY <1>12, <1>15

\* What stays as it is when a step leaves the table alone.
LEMMA SameRows ==
    ASSUME InboxKept, UNCHANGED <<inRows, arrived, noted, seen>>, emitted' \in Seq(InHandles), held' \subseteq InHandles,
           \A h \in held' : Finds(h, inRows, seen, arrived),
           \A i \in DOMAIN emitted' : Finds(emitted'[i], inRows, seen, arrived)
    PROVE  InboxKept'
<1>1. InboxTypes /\ RowsKept
  BY DEF InboxKept
<1>2. RowsKept'
  BY <1>1 DEF RowsKept
<1>3. InboxTypes'
  BY <1>1 DEF InboxTypes
<1>4. HandlesFind'
  BY DEF HandlesFind
<1> QED BY <1>2, <1>3, <1>4 DEF InboxKept

LEMMA InboxInsertStep ==
    ASSUME InboxKept, insert
    PROVE  InboxKept'
<1>1. /\ InboxTypes /\ RowsKept /\ HandlesFind
  BY DEF InboxKept
<1>2. PICK key : key = row_key
  OBVIOUS
<1>3. PICK n : n = arrived + 1
  OBVIOUS
<1>4. /\ key \in InRowKeys /\ arrived' = n /\ emitted' = Append(emitted, [key |-> key, packet |-> n])
      /\ inRows' = [k \in DOMAIN inRows \cup {key} |->
                       IF k = key THEN [packet |-> n, userdata |-> 0] ELSE inRows[k]]
      /\ noted' = Append(noted, 0) /\ held' = held /\ seen' = seen
  BY <1>2, <1>3 DEF insert
<1>5. key \notin DOMAIN inRows
  BY <1>1, <1>2, NewRowKey DEF InboxTypes
<1>6. /\ arrived \in Nat /\ n \in Nat /\ n \in 1..n /\ n \notin 1..arrived /\ 1..arrived \subseteq 1..n
      /\ \A p \in 1..n : p = n \/ p \in 1..arrived
  BY <1>1, <1>3 DEF InboxTypes
<1>7. /\ DOMAIN inRows' = DOMAIN inRows \cup {key}
      /\ inRows'[key] = [packet |-> n, userdata |-> 0]
      /\ \A k \in DOMAIN inRows : inRows'[k] = inRows[k] /\ k # key
  BY <1>4, <1>5
<1>8. noted' \in Seq(Nat) /\ Len(noted') = n /\ noted'[n] = 0 /\ \A p \in 1..arrived : noted'[p] = noted[p]
  <2>1. noted \in Seq(Nat) /\ Len(noted) = arrived
    BY <1>1 DEF InboxTypes
  <2> QED BY <1>3, <1>4, <1>6, <2>1
<1>9. seen \subseteq 1..arrived /\ n \notin seen
  BY <1>1, <1>6 DEF InboxTypes
<1>10. PICK h : h = [key |-> key, packet |-> n]
  OBVIOUS
<1>11. h \in InHandles /\ h.key = key /\ h.packet = n
  BY <1>4, <1>6, <1>10 DEF InHandles
<1>12. /\ emitted' \in Seq(InHandles)
       /\ \A i \in DOMAIN emitted' : emitted'[i] = h \/ (i \in DOMAIN emitted /\ emitted'[i] = emitted[i])
  <2>1. emitted \in Seq(InHandles)
    BY <1>1 DEF InboxTypes
  <2> QED BY <1>4, <1>10, <1>11, <2>1
<1>13. \A k \in DOMAIN inRows : inRows[k] \in [packet : 1..arrived, userdata : Nat]
  BY <1>1 DEF InboxTypes
<1>14. InboxTypes'
  <2>1. \A k \in DOMAIN inRows' : inRows'[k] \in [packet : 1..n, userdata : Nat]
    <3>1. \A r \in [packet : 1..arrived, userdata : Nat] : r \in [packet : 1..n, userdata : Nat]
      BY <1>6
    <3>2. [packet |-> n, userdata |-> 0] \in [packet : 1..n, userdata : Nat]
      BY <1>6
    <3> QED BY <1>7, <1>13, <3>1, <3>2
  <2>2. DOMAIN inRows' \subseteq InRowKeys
    BY <1>1, <1>4, <1>7 DEF InboxTypes
  <2>3. seen' \subseteq 1..n
    BY <1>4, <1>6, <1>9
  <2>4. held' \subseteq InHandles
    BY <1>1, <1>4 DEF InboxTypes
  <2> QED BY <1>4, <1>6, <1>8, <1>12, <2>1, <2>2, <2>3, <2>4 DEF InboxTypes
<1>15. \A k \in DOMAIN inRows : inRows[k].packet \in 1..arrived
  BY <1>13
<1>16. RowsKept'
  <2>1. \A k \in DOMAIN inRows' : inRows'[k].packet \notin seen /\ inRows'[k].userdata = noted'[inRows'[k].packet]
    <3>1. \A k \in DOMAIN inRows : inRows[k].packet \notin seen /\ inRows[k].userdata = noted[inRows[k].packet]
      BY <1>1 DEF RowsKept
    <3>2. inRows'[key].packet = n /\ inRows'[key].userdata = 0
      BY <1>7
    <3>3. \A k \in DOMAIN inRows : inRows'[k].packet \notin seen /\ inRows'[k].userdata = noted'[inRows'[k].packet]
      BY <1>7, <1>8, <1>15, <3>1
    <3> QED BY <1>7, <1>8, <1>9, <3>2, <3>3
  <2>2. \A k, j \in DOMAIN inRows' : inRows'[k].packet = inRows'[j].packet => k = j
    <3>1. \A k, j \in DOMAIN inRows : inRows[k].packet = inRows[j].packet => k = j
      BY <1>1 DEF RowsKept
    <3>2. inRows'[key].packet = n
      BY <1>7
    <3>3. \A k \in DOMAIN inRows : inRows'[k].packet = inRows[k].packet /\ inRows'[k].packet # n
      BY <1>6, <1>7, <1>15
    <3> QED BY <1>7, <3>1, <3>2, <3>3
  <2>3. ASSUME NEW p \in 1..n, p \notin seen PROVE \E k \in DOMAIN inRows' : inRows'[k].packet = p
    <3>1. CASE p = n
      BY <1>7, <3>1
    <3>2. CASE p \in 1..arrived
      <4>1. PICK k \in DOMAIN inRows : inRows[k].packet = p
        BY <1>1, <2>3, <3>2 DEF RowsKept
      <4> QED BY <1>7, <4>1
    <3> QED BY <1>6, <3>1, <3>2
  <2> QED BY <1>4, <2>1, <2>2, <2>3 DEF RowsKept
<1>17. HandlesFind'
  <2>1. ASSUME NEW g, Finds(g, inRows, seen, arrived) PROVE Finds(g, inRows', seen, n)
    BY <1>6, <1>7, <2>1 DEF Finds
  <2>2. Finds(h, inRows', seen, n)
    BY <1>6, <1>7, <1>11 DEF Finds
  <2>3. \A g \in held' : Finds(g, inRows', seen, n)
    BY <1>1, <1>4, <2>1 DEF HandlesFind
  <2>4. \A i \in DOMAIN emitted' : Finds(emitted'[i], inRows', seen, n)
    BY <1>1, <1>12, <2>1, <2>2 DEF HandlesFind
  <2> QED BY <1>4, <2>3, <2>4 DEF HandlesFind
<1> QED BY <1>14, <1>16, <1>17 DEF InboxKept

\* get_pending_packets gives each row's own key.
LEMMA EmitPendingStep ==
    ASSUME InboxKept, emit_pending_packets
    PROVE  InboxKept'
<1>1. InboxTypes /\ RowsKept /\ HandlesFind
  BY DEF InboxKept
<1>2. PICK C : C = Cardinality(DOMAIN inRows)
  OBVIOUS
<1>3. PICK s : s = [i \in 1..C |-> pending_handle(CHOOSE k \in DOMAIN inRows : InOrder(k) = i)]
  OBVIOUS
<1>4. emitted' = emitted \o s /\ UNCHANGED <<inRows, arrived, noted, seen>> /\ held' = held
  BY <1>2, <1>3 DEF emit_pending_packets
<1>5. DOMAIN inRows \subseteq InRowKeys /\ C \in Nat
  BY <1>1, <1>2, InRowAssumption, FS_Subset, FS_CardinalityType DEF InboxTypes
<1>6. ASSUME NEW k \in DOMAIN inRows
      PROVE  pending_handle(k) \in InHandles /\ Finds(pending_handle(k), inRows, seen, arrived)
  <2>1. inRows[k].packet \in 1..arrived /\ arrived \in Nat /\ k \in InRowKeys
    BY <1>1, <1>5 DEF InboxTypes
  <2>2. inRows[k].packet \in Nat
    BY <2>1
  <2>3. pending_handle(k) = [key |-> k, packet |-> inRows[k].packet]
    BY DEF pending_handle
  <2> QED BY <2>1, <2>2, <2>3 DEF InHandles, Finds
<1>7. ASSUME NEW i \in 1..C PROVE s[i] \in InHandles /\ Finds(s[i], inRows, seen, arrived)
  <2>1. PICK k : k = CHOOSE x \in DOMAIN inRows : InOrder(x) = i
    OBVIOUS
  <2>2. k \in DOMAIN inRows
    BY <1>2, <1>5, <2>1, RowAtPlace
  <2>3. s[i] = pending_handle(k)
    BY <1>3, <2>1
  <2> QED BY <1>6, <2>2, <2>3
<1>8. s \in Seq(InHandles) /\ DOMAIN s = 1..C /\ Len(s) = C
  <2>1. DOMAIN s = 1..C /\ s = [i \in 1..C |-> s[i]]
    BY <1>3
  <2> QED BY <1>5, <1>7, <2>1
<1>9. emitted \in Seq(InHandles) /\ Len(emitted) \in Nat
  BY <1>1 DEF InboxTypes
<1>10. emitted' \in Seq(InHandles)
  BY <1>4, <1>8, <1>9
<1>11. ASSUME NEW i \in DOMAIN emitted'
       PROVE  \/ i \in DOMAIN emitted /\ emitted'[i] = emitted[i]
              \/ i - Len(emitted) \in 1..C /\ emitted'[i] = s[i - Len(emitted)]
  BY <1>4, <1>5, <1>8, <1>9
<1>12. \A i \in DOMAIN emitted' : Finds(emitted'[i], inRows, seen, arrived)
  <2>1. \A i \in DOMAIN emitted : Finds(emitted[i], inRows, seen, arrived)
    BY <1>1 DEF HandlesFind
  <2> QED BY <1>7, <1>11, <2>1
<1>13. held' \subseteq InHandles /\ \A h \in held' : Finds(h, inRows, seen, arrived)
  BY <1>1, <1>4 DEF InboxTypes, HandlesFind
<1> QED BY <1>4, <1>10, <1>12, <1>13, SameRows

LEMMA OnPacketStep ==
    ASSUME InboxKept, on_packet
    PROVE  InboxKept'
<1>1. InboxTypes /\ HandlesFind
  BY DEF InboxKept
<1>2. /\ emitted # <<>> /\ held' = held \cup {Head(emitted)} /\ emitted' = Tail(emitted)
      /\ UNCHANGED <<inRows, arrived, noted, seen>>
  BY DEF on_packet
<1>3. emitted \in Seq(InHandles) /\ held \subseteq InHandles
  BY <1>1 DEF InboxTypes
<1>4. Len(emitted) \in Nat /\ 1 \in DOMAIN emitted /\ Head(emitted) = emitted[1] /\ Head(emitted) \in InHandles
  BY <1>2, <1>3
<1>5. /\ emitted' \in Seq(InHandles)
      /\ \A i \in DOMAIN emitted' : i + 1 \in DOMAIN emitted /\ emitted'[i] = emitted[i + 1]
  BY <1>2, <1>3, <1>4
<1>6. held' \subseteq InHandles
  BY <1>2, <1>3, <1>4
<1>7. \A h \in held' : Finds(h, inRows, seen, arrived)
  BY <1>1, <1>2, <1>4 DEF HandlesFind
<1>8. \A i \in DOMAIN emitted' : Finds(emitted'[i], inRows, seen, arrived)
  BY <1>1, <1>5 DEF HandlesFind
<1> QED BY <1>2, <1>5, <1>6, <1>7, <1>8, SameRows

\* Dropping a handle, and a crash.
LEMMA InboxDropStep ==
    ASSUME InboxKept, UNCHANGED <<inRows, arrived, noted, seen>>, held' \subseteq held, emitted' \in {<<>>, emitted}
    PROVE  InboxKept'
<1>1. InboxTypes /\ HandlesFind
  BY DEF InboxKept
<1>2. emitted' \in Seq(InHandles)
  <2>1. <<>> \in Seq(InHandles)
    OBVIOUS
  <2> QED BY <1>1, <2>1 DEF InboxTypes
<1>3. held' \subseteq InHandles
  BY <1>1 DEF InboxTypes
<1>4. \A h \in held' : Finds(h, inRows, seen, arrived)
  BY <1>1 DEF HandlesFind
<1>5. \A i \in DOMAIN emitted' : Finds(emitted'[i], inRows, seen, arrived)
  BY <1>1 DEF HandlesFind
<1> QED BY <1>2, <1>3, <1>4, <1>5, SameRows

\* The row that goes is the row of the handle's packet, and no other handle needs it.
LEMMA MarkSeenStep ==
    ASSUME InboxKept, NEW h \in held, h.packet \notin seen, mark_seen(h)
    PROVE  InboxKept'
<1>1. InboxTypes /\ RowsKept /\ HandlesFind
  BY DEF InboxKept
<1>2. /\ inRows' = [k \in DOMAIN inRows \ {h.key} |-> inRows[k]] /\ seen' = seen \cup {h.packet}
      /\ emitted' = emitted /\ held' = held /\ arrived' = arrived /\ noted' = noted
  BY DEF mark_seen, Dropped
<1>3. h.packet \in 1..arrived /\ h.key \in DOMAIN inRows /\ inRows[h.key].packet = h.packet
  BY <1>1 DEF HandlesFind, Finds
<1>4. DOMAIN inRows' = DOMAIN inRows \ {h.key} /\ \A k \in DOMAIN inRows' : inRows'[k] = inRows[k]
  BY <1>2
<1>5. \A k \in DOMAIN inRows' : inRows[k].packet # h.packet
  BY <1>1, <1>3, <1>4 DEF RowsKept
<1>6. InboxTypes'
  BY <1>1, <1>2, <1>3, <1>4 DEF InboxTypes
<1>7. RowsKept'
  <2>1. \A k \in DOMAIN inRows' : inRows'[k].packet \notin seen' /\ inRows'[k].userdata = noted[inRows'[k].packet]
    BY <1>1, <1>2, <1>4, <1>5 DEF RowsKept
  <2>2. \A k, j \in DOMAIN inRows' : inRows'[k].packet = inRows'[j].packet => k = j
    BY <1>1, <1>4 DEF RowsKept
  <2>3. ASSUME NEW p \in 1..arrived, p \notin seen' PROVE \E k \in DOMAIN inRows' : inRows'[k].packet = p
    <3>1. p \notin seen /\ p # h.packet
      BY <1>2, <2>3
    <3>2. PICK k \in DOMAIN inRows : inRows[k].packet = p
      BY <1>1, <3>1 DEF RowsKept
    <3> QED BY <1>3, <1>4, <3>1, <3>2
  <2> QED BY <1>2, <2>1, <2>2, <2>3 DEF RowsKept
<1>8. ASSUME NEW g, Finds(g, inRows, seen, arrived) PROVE Finds(g, inRows', seen', arrived)
  BY <1>2, <1>3, <1>4, <1>8 DEF Finds
<1>9. HandlesFind'
  <2>1. \A g \in held : Finds(g, inRows', seen', arrived)
    BY <1>1, <1>8 DEF HandlesFind
  <2>2. \A i \in DOMAIN emitted : Finds(emitted[i], inRows', seen', arrived)
    BY <1>1, <1>8 DEF HandlesFind
  <2> QED BY <1>2, <2>1, <2>2 DEF HandlesFind
<1> QED BY <1>6, <1>7, <1>9 DEF InboxKept

\* The data goes to the row of the handle's packet and to no other.
LEMMA SetDataStep ==
    ASSUME InboxKept, NEW h \in held, h.packet \notin seen, NEW d \in Nat, set_data(h, d)
    PROVE  InboxKept'
<1>1. InboxTypes /\ RowsKept /\ HandlesFind
  BY DEF InboxKept
<1>2. /\ inRows' = [k \in DOMAIN inRows |-> IF k = h.key THEN [inRows[k] EXCEPT !.userdata = d] ELSE inRows[k]]
      /\ noted' = [noted EXCEPT ![h.packet] = d]
      /\ emitted' = emitted /\ held' = held /\ arrived' = arrived /\ seen' = seen
  BY DEF set_data
<1>3. h.packet \in 1..arrived /\ h.key \in DOMAIN inRows /\ inRows[h.key].packet = h.packet
  BY <1>1 DEF HandlesFind, Finds
<1>4. noted' \in Seq(Nat) /\ Len(noted') = arrived /\ noted'[h.packet] = d
      /\ \A p \in 1..arrived : p # h.packet => noted'[p] = noted[p]
  <2>1. noted \in Seq(Nat) /\ Len(noted) = arrived
    BY <1>1 DEF InboxTypes
  <2> QED BY <1>2, <1>3, <2>1
<1>5. \A k \in DOMAIN inRows : inRows[k] \in [packet : 1..arrived, userdata : Nat]
  BY <1>1 DEF InboxTypes
<1>6. /\ DOMAIN inRows' = DOMAIN inRows
      /\ \A k \in DOMAIN inRows : k # h.key => inRows'[k] = inRows[k]
      /\ inRows'[h.key] = [inRows[h.key] EXCEPT !.userdata = d]
  BY <1>2, <1>3
<1>7. /\ inRows'[h.key] \in [packet : 1..arrived, userdata : Nat]
      /\ inRows'[h.key].packet = inRows[h.key].packet /\ inRows'[h.key].userdata = d
  <2>1. PICK r \in [packet : 1..arrived, userdata : Nat] : r = inRows[h.key]
    BY <1>3, <1>5
  <2> QED BY <1>6, <2>1
<1>8. \A k \in DOMAIN inRows : inRows'[k].packet = inRows[k].packet
  BY <1>6, <1>7
<1>9. InboxTypes'
  <2>1. \A k \in DOMAIN inRows' : inRows'[k] \in [packet : 1..arrived, userdata : Nat]
    BY <1>5, <1>6, <1>7
  <2> QED BY <1>1, <1>2, <1>4, <1>6, <2>1 DEF InboxTypes
<1>10. RowsKept'
  <2>1. ASSUME NEW k \in DOMAIN inRows PROVE inRows'[k].userdata = noted'[inRows[k].packet]
    <3>1. CASE k = h.key
      BY <1>3, <1>4, <1>7, <3>1
    <3>2. CASE k # h.key
      <4>1. inRows[k].packet # h.packet /\ inRows[k].packet \in 1..arrived
        BY <1>1, <1>3, <1>5, <3>2 DEF RowsKept
      <4>2. inRows[k].userdata = noted[inRows[k].packet]
        BY <1>1 DEF RowsKept
      <4> QED BY <1>4, <1>6, <3>2, <4>1, <4>2
    <3> QED BY <3>1, <3>2
  <2> QED BY <1>1, <1>2, <1>6, <1>8, <2>1 DEF RowsKept
<1>11. ASSUME NEW g, Finds(g, inRows, seen, arrived) PROVE Finds(g, inRows', seen, arrived)
  BY <1>6, <1>8, <1>11 DEF Finds
<1>12. HandlesFind'
  <2>1. \A g \in held : Finds(g, inRows', seen, arrived)
    BY <1>1, <1>11 DEF HandlesFind
  <2>2. \A i \in DOMAIN emitted : Finds(emitted[i], inRows', seen, arrived)
    BY <1>1, <1>11 DEF HandlesFind
  <2> QED BY <1>2, <2>1, <2>2 DEF HandlesFind
<1> QED BY <1>9, <1>10, <1>12 DEF InboxKept

LEMMA InboxInit == InPacketsInit => InboxInv
<1> SUFFICES ASSUME InPacketsInit PROVE InboxInv
  OBVIOUS
<1>1. /\ inRows = <<>> /\ emitted = <<>> /\ held = {} /\ arrived = 0 /\ noted = <<>> /\ seen = {} /\ again = FALSE
  BY DEF InPacketsInit
<1>2. DOMAIN inRows = {} /\ DOMAIN emitted = {} /\ 1..arrived = {}
  BY <1>1
<1>3. InboxTypes
  <2>1. <<>> \in Seq(Nat) /\ Len(<<>>) = 0
    OBVIOUS
  <2>2. <<>> \in Seq(InHandles)
    OBVIOUS
  <2> QED BY <1>1, <1>2, <2>1, <2>2 DEF InboxTypes
<1>4. RowsKept /\ HandlesFind
  BY <1>1, <1>2 DEF RowsKept, HandlesFind
<1> QED BY <1>1, <1>3, <1>4 DEF InboxInv, InboxKept

LEMMA InboxStep == InboxInv /\ [InPacketsNext]_inVars => InboxInv'
<1> SUFFICES ASSUME InboxInv, [InPacketsNext]_inVars PROVE InboxInv'
  OBVIOUS
<1>1. again \in BOOLEAN /\ (~again => InboxKept)
  BY DEF InboxInv
<1>2. CASE insert
  <2>1. again' = again
    BY <1>2 DEF insert
  <2> QED BY <1>1, <1>2, <2>1, InboxInsertStep DEF InboxInv
<1>3. CASE emit_pending_packets
  <2>1. again' = again
    BY <1>3 DEF emit_pending_packets
  <2> QED BY <1>1, <1>3, <2>1, EmitPendingStep DEF InboxInv
<1>4. CASE on_packet
  <2>1. again' = again
    BY <1>4 DEF on_packet
  <2> QED BY <1>1, <1>4, <2>1, OnPacketStep DEF InboxInv
<1>5. CASE InCrash
  <2>1. again' = again /\ UNCHANGED <<inRows, arrived, noted, seen>> /\ held' = {} /\ emitted' = <<>>
    BY <1>5 DEF InCrash
  <2> QED BY <1>1, <2>1, InboxDropStep DEF InboxInv
<1>6. ASSUME NEW h \in held, drop_handle(h) PROVE InboxInv'
  <2>1. again' = again /\ UNCHANGED <<inRows, arrived, noted, seen>> /\ held' \subseteq held /\ emitted' = emitted
    BY <1>6 DEF drop_handle
  <2> QED BY <1>1, <2>1, InboxDropStep DEF InboxInv
<1>7. ASSUME NEW h \in held, mark_seen(h) PROVE InboxInv'
  <2>1. again' = (again \/ h.packet \in seen)
    BY <1>7 DEF mark_seen
  <2>2. again' \in BOOLEAN
    BY <2>1
  <2>3. ~again' => ~again /\ h.packet \notin seen
    BY <2>1
  <2> QED BY <1>1, <1>7, <2>2, <2>3, MarkSeenStep DEF InboxInv
<1>8. ASSUME NEW h \in held, set_data(h, 1) PROVE InboxInv'
  <2>1. again' = (again \/ h.packet \in seen)
    BY <1>8 DEF set_data
  <2>2. again' \in BOOLEAN
    BY <2>1
  <2>3. ~again' => ~again /\ h.packet \notin seen
    BY <2>1
  <2>4. 1 \in Nat
    OBVIOUS
  <2> QED BY <1>1, <1>8, <2>2, <2>3, <2>4, SetDataStep DEF InboxInv
<1>9. CASE UNCHANGED inVars
  <2>1. again' = again /\ UNCHANGED <<inRows, arrived, noted, seen>> /\ held' = held /\ emitted' = emitted
    BY <1>9 DEF inVars
  <2> QED BY <1>1, <2>1, InboxDropStep DEF InboxInv
<1> QED BY <1>2, <1>3, <1>4, <1>5, <1>6, <1>7, <1>8, <1>9 DEF InPacketsNext

LEMMA InboxUnseen == InboxInv => UnseenKept
<1> SUFFICES ASSUME InboxInv, ~again
             PROVE  /\ \A p \in 1 .. arrived :
                          Cardinality({k \in DOMAIN inRows : inRows[k].packet = p}) = IF p \in seen THEN 0 ELSE 1
                    /\ \A h \in held : h.packet \notin seen => data_impl(h) = noted[h.packet]
                    /\ \A k \in DOMAIN inRows : inRows[k].userdata = noted[inRows[k].packet]
  BY DEF UnseenKept
<1>1. RowsKept /\ HandlesFind
  BY DEF InboxInv, InboxKept
<1>2. ASSUME NEW p \in 1..arrived
      PROVE  Cardinality({k \in DOMAIN inRows : inRows[k].packet = p}) = IF p \in seen THEN 0 ELSE 1
  <2>1. CASE p \in seen
    <3>1. {k \in DOMAIN inRows : inRows[k].packet = p} = {}
      BY <1>1, <2>1 DEF RowsKept
    <3> QED BY <2>1, <3>1, FS_EmptySet
  <2>2. CASE p \notin seen
    <3>1. PICK j \in DOMAIN inRows : inRows[j].packet = p
      BY <1>1, <2>2 DEF RowsKept
    <3>2. {k \in DOMAIN inRows : inRows[k].packet = p} = {j}
      BY <1>1, <3>1 DEF RowsKept
    <3>3. Cardinality({j}) = 1
      BY FS_Singleton
    <3> QED BY <2>2, <3>2, <3>3
  <2> QED BY <2>1, <2>2
<1>3. \A k \in DOMAIN inRows : inRows[k].userdata = noted[inRows[k].packet]
  BY <1>1 DEF RowsKept
<1>4. \A h \in held : h.packet \notin seen => data_impl(h) = noted[h.packet]
  BY <1>1, <1>3 DEF HandlesFind, Finds, data_impl
<1> QED BY <1>2, <1>3, <1>4

\* For any number of packets, handles and restarts: what a packet client received and acknowledged is in
\* its table once, with the data the application attached, and each handle of it finds that row, until
\* the application marks it (in_packets.cpp).
THEOREM UnseenIsKept == InPacketsSpec => []UnseenKept
<1> QED BY InboxInit, InboxStep, InboxUnseen, PTL DEF InPacketsSpec

-----------------------------------------------------------------------------
(* Database.  Once a transaction was rolled back its savepoint stays open, *)
(* and what is on disk does not change before the next crash; until then   *)
(* each transaction has its own savepoint.                                 *)

DatabaseSpec == DatabaseInit /\ [][DatabaseNext]_dbVars

Rows == 1..written
OpenRows == UNION {scopes[i] : i \in DOMAIN scopes}
DatabaseTypes ==
    /\ written \in Nat /\ rollbacks \in Nat /\ crashes \in Nat
    /\ table \subseteq Rows /\ onDisk \subseteq Rows /\ undone \subseteq Rows /\ plain \subseteq Rows
    /\ committed \subseteq SUBSET Rows
    /\ savepoints \in Seq(SUBSET Rows) /\ scopes \in Seq(SUBSET Rows)

\* Each transaction that is not over has its savepoint, and without a rollback there are no others.
Nested ==
    /\ Len(scopes) <= Len(savepoints)
    /\ rollbacks = 0 => Len(scopes) = Len(savepoints)

\* No savepoint is left over: the table is what is on disk and what the open transactions wrote, and
\* a savepoint has nothing of what was written since.
OwnSavepoints ==
    Len(scopes) = Len(savepoints) =>
        /\ table = onDisk \cup OpenRows /\ undone \cap table = {}
        /\ \A i \in DOMAIN savepoints : savepoints[i] \subseteq table
        /\ \A i, j \in DOMAIN scopes : i <= j => savepoints[i] \cap scopes[j] = {}

\* What the open transactions wrote is nobody else's.
OpenApart == OpenRows \cap onDisk = {} /\ \A r \in committed : r \cap OpenRows = {}

RowsAtomic ==
    /\ undone \cap onDisk = {}
    /\ \A r \in committed : r \subseteq onDisk \/ r \cap onDisk = {}
    /\ rollbacks <= 1 => undone \cap table = {}
    /\ rollbacks = 0 => plain \subseteq onDisk /\ \A r \in committed : r \subseteq onDisk

DatabaseInv == DatabaseTypes /\ Nested /\ OwnSavepoints /\ OpenApart /\ RowsAtomic

\* The sequence without its last member.
LEMMA FrontOf ==
    ASSUME NEW X, NEW s \in Seq(X), s # <<>>
    PROVE  /\ Len(s) \in Nat /\ Len(s) >= 1 /\ Last(s) = s[Len(s)] /\ Last(s) \in X
           /\ Len(s) \in DOMAIN s /\ DOMAIN s = 1..Len(s)
           /\ Front(s) \in Seq(X) /\ Len(Front(s)) = Len(s) - 1 /\ DOMAIN Front(s) = 1..(Len(s) - 1)
           /\ \A i \in DOMAIN Front(s) : i \in DOMAIN s /\ Front(s)[i] = s[i]
<1>1. Len(s) \in Nat /\ Len(s) >= 1 /\ Len(s) \in DOMAIN s /\ DOMAIN s = 1..Len(s) /\ s[Len(s)] \in X
  OBVIOUS
<1>2. /\ SubSeq(s, 1, Len(s) - 1) \in Seq(X) /\ Len(SubSeq(s, 1, Len(s) - 1)) = Len(s) - 1
      /\ \A i \in 1..(Len(s) - 1) : i \in DOMAIN s /\ SubSeq(s, 1, Len(s) - 1)[i] = s[i]
  BY <1>1
<1>3. DOMAIN SubSeq(s, 1, Len(s) - 1) = 1..(Len(s) - 1)
  BY <1>2
<1> QED BY <1>1, <1>2, <1>3 DEF Front, Last

\* Rows written in the innermost transaction.
LEMMA AddedTo ==
    ASSUME NEW X, NEW s \in Seq(SUBSET X), s # <<>>, NEW x \in SUBSET X,
           NEW t, t = [s EXCEPT ![Len(s)] = s[Len(s)] \cup x]
    PROVE  /\ t \in Seq(SUBSET X) /\ Len(t) = Len(s) /\ DOMAIN t = DOMAIN s /\ t[Len(s)] = s[Len(s)] \cup x
           /\ \A i \in DOMAIN s : i # Len(s) => t[i] = s[i]
           /\ UNION {t[i] : i \in DOMAIN t} = (UNION {s[i] : i \in DOMAIN s}) \cup x
<1>1. Len(s) \in Nat /\ Len(s) \in DOMAIN s /\ DOMAIN s = 1..Len(s) /\ s[Len(s)] \in SUBSET X
  OBVIOUS
<1>2. s[Len(s)] \cup x \in SUBSET X
  BY <1>1
<1>3. t \in Seq(SUBSET X) /\ Len(t) = Len(s)
  BY <1>1, <1>2
<1>4. DOMAIN t = DOMAIN s /\ t[Len(s)] = s[Len(s)] \cup x /\ \A i \in DOMAIN s : i # Len(s) => t[i] = s[i]
  BY <1>1
<1>5. ASSUME NEW y PROVE (\E i \in DOMAIN t : y \in t[i]) <=> (\E i \in DOMAIN s : y \in s[i]) \/ y \in x
  BY <1>1, <1>4
<1>6. UNION {t[i] : i \in DOMAIN t} = (UNION {s[i] : i \in DOMAIN s}) \cup x
  BY <1>5
<1> QED BY <1>3, <1>4, <1>6

\* More rows are there, the types hold as before.
LEMMA MoreRows ==
    ASSUME DatabaseTypes, NEW n \in Nat, written <= n
    PROVE  /\ Rows \subseteq 1..n /\ table \subseteq 1..n /\ onDisk \subseteq 1..n /\ undone \subseteq 1..n
           /\ plain \subseteq 1..n /\ committed \subseteq SUBSET (1..n)
           /\ savepoints \in Seq(SUBSET (1..n)) /\ scopes \in Seq(SUBSET (1..n))
<1>1. Rows \subseteq 1..n
  BY DEF DatabaseTypes, Rows
<1>2. PICK R : R = Rows
  OBVIOUS
<1>3. PICK Q : Q = 1..n
  OBVIOUS
<1>4. SUBSET R \subseteq SUBSET Q
  BY <1>1, <1>2, <1>3
<1>5. ASSUME NEW s \in Seq(SUBSET R) PROVE s \in Seq(SUBSET Q)
  <2>1. Len(s) \in Nat /\ DOMAIN s = 1..Len(s) /\ s = [i \in 1..Len(s) |-> s[i]] /\ \A i \in 1..Len(s) : s[i] \in SUBSET Q
    BY <1>4
  <2> QED BY <2>1
<1> QED BY <1>1, <1>2, <1>3, <1>4, <1>5 DEF DatabaseTypes

LEMMA DbExecuteStep ==
    ASSUME DatabaseInv, execute
    PROVE  DatabaseInv'
<1>1. DatabaseTypes /\ Nested /\ OwnSavepoints /\ OpenApart /\ RowsAtomic
  BY DEF DatabaseInv
<1>2. PICK w : w = written + 1
  OBVIOUS
<1>3. /\ written' = w /\ table' = table \cup {w}
      /\ onDisk' = IF savepoints = <<>> THEN table \cup {w} ELSE onDisk
      /\ savepoints' = savepoints /\ committed' = committed /\ undone' = undone /\ crashes' = crashes
      /\ rollbacks' = rollbacks
  BY <1>2 DEF execute
<1>4. /\ scopes = <<>> => plain' = plain \cup {w} /\ scopes' = scopes
      /\ scopes # <<>> => plain' = plain /\ scopes' = [scopes EXCEPT ![Len(scopes)] = scopes[Len(scopes)] \cup {w}]
  BY <1>2 DEF execute
<1>5. w \in Nat /\ written \in Nat /\ written <= w /\ w \notin Rows /\ w \in 1..w /\ Rows' = 1..w
  BY <1>1, <1>2, <1>3 DEF DatabaseTypes, Rows
<1>6. /\ table \subseteq 1..w /\ onDisk \subseteq 1..w /\ undone \subseteq 1..w
      /\ plain \subseteq 1..w /\ committed \subseteq SUBSET (1..w)
      /\ savepoints \in Seq(SUBSET (1..w)) /\ scopes \in Seq(SUBSET (1..w))
  BY <1>1, <1>5, MoreRows
<1>7. /\ w \notin table /\ w \notin onDisk /\ w \notin undone /\ (\A r \in committed : w \notin r)
      /\ (\A i \in DOMAIN savepoints : w \notin savepoints[i])
  <2>1. /\ table \subseteq Rows /\ onDisk \subseteq Rows /\ undone \subseteq Rows /\ committed \subseteq SUBSET Rows
        /\ savepoints \in Seq(SUBSET Rows)
    BY <1>1 DEF DatabaseTypes
  <2>2. \A i \in DOMAIN savepoints : savepoints[i] \in SUBSET Rows
    BY <2>1
  <2> QED BY <1>5, <2>1, <2>2
<1>8. /\ scopes' \in Seq(SUBSET (1..w)) /\ Len(scopes') = Len(scopes) /\ DOMAIN scopes' = DOMAIN scopes
      /\ OpenRows' = IF scopes = <<>> THEN OpenRows ELSE OpenRows \cup {w}
      /\ \A i \in DOMAIN scopes : scopes'[i] \subseteq scopes[i] \cup {w}
  <2>1. CASE scopes = <<>>
    <3>1. scopes' = scopes
      BY <1>4, <2>1
    <3> QED BY <1>6, <2>1, <3>1 DEF OpenRows
  <2>2. CASE scopes # <<>>
    <3>1. scopes' = [scopes EXCEPT ![Len(scopes)] = scopes[Len(scopes)] \cup {w}] /\ {w} \in SUBSET (1..w)
      BY <1>4, <1>5, <2>2
    <3>2. /\ scopes' \in Seq(SUBSET (1..w)) /\ Len(scopes') = Len(scopes) /\ DOMAIN scopes' = DOMAIN scopes
          /\ scopes'[Len(scopes)] = scopes[Len(scopes)] \cup {w}
          /\ \A i \in DOMAIN scopes : i # Len(scopes) => scopes'[i] = scopes[i]
          /\ UNION {scopes'[i] : i \in DOMAIN scopes'} = (UNION {scopes[i] : i \in DOMAIN scopes}) \cup {w}
      BY <1>6, <2>2, <3>1, AddedTo
    <3> QED BY <2>2, <3>2 DEF OpenRows
  <2> QED BY <2>1, <2>2
<1>9. plain' \subseteq plain \cup {w} /\ (scopes # <<>> => plain' = plain)
  BY <1>4
<1>10. DatabaseTypes'
  BY <1>1, <1>3, <1>5, <1>6, <1>8, <1>9 DEF DatabaseTypes
<1>11. Nested'
  BY <1>1, <1>3, <1>8 DEF Nested
<1>12. savepoints = <<>> => scopes = <<>> /\ Len(scopes) = Len(savepoints) /\ OpenRows = {} /\ table = onDisk
  <2> SUFFICES ASSUME savepoints = <<>> PROVE scopes = <<>> /\ Len(scopes) = Len(savepoints) /\ OpenRows = {} /\ table = onDisk
    OBVIOUS
  <2>1. Len(savepoints) = 0 /\ Len(scopes) \in Nat
    BY <1>6
  <2>2. Len(scopes) = 0
    BY <1>1, <2>1 DEF Nested
  <2>3. scopes = <<>>
    BY <1>6, <2>2
  <2>4. OpenRows = {}
    BY <2>3 DEF OpenRows
  <2> QED BY <1>1, <2>1, <2>2, <2>3, <2>4 DEF OwnSavepoints
<1>13. OwnSavepoints'
  <2> SUFFICES ASSUME Len(scopes) = Len(savepoints)
               PROVE  /\ table' = onDisk' \cup OpenRows' /\ undone \cap table' = {}
                      /\ \A i \in DOMAIN savepoints : savepoints[i] \subseteq table'
                      /\ \A i, j \in DOMAIN scopes : i <= j => savepoints[i] \cap scopes'[j] = {}
    BY <1>3, <1>8 DEF OwnSavepoints
  <2>1. /\ table = onDisk \cup OpenRows /\ undone \cap table = {}
        /\ (\A i \in DOMAIN savepoints : savepoints[i] \subseteq table)
        /\ \A i, j \in DOMAIN scopes : i <= j => savepoints[i] \cap scopes[j] = {}
    BY <1>1 DEF OwnSavepoints
  <2>2. savepoints # <<>> => scopes # <<>>
    <3>1. scopes = <<>> => Len(scopes) = 0
      OBVIOUS
    <3> QED BY <1>6, <3>1
  <2>3. table' = onDisk' \cup OpenRows'
    BY <1>3, <1>8, <1>12, <2>1, <2>2
  <2>4. undone \cap table' = {} /\ \A i \in DOMAIN savepoints : savepoints[i] \subseteq table'
    BY <1>3, <1>7, <2>1
  <2>5. DOMAIN scopes = DOMAIN savepoints
    BY <1>6
  <2>6. \A i, j \in DOMAIN scopes : i <= j => savepoints[i] \cap scopes'[j] = {}
    BY <1>7, <1>8, <2>1, <2>5
  <2> QED BY <2>3, <2>4, <2>6
<1>14. OpenApart'
  BY <1>1, <1>3, <1>7, <1>8, <1>12 DEF OpenApart
<1>15. RowsAtomic'
  <2>1. undone \cap onDisk' = {}
    BY <1>1, <1>3, <1>7, <1>12 DEF RowsAtomic
  <2>2. onDisk' = onDisk \/ onDisk' = onDisk \cup {w}
    BY <1>3, <1>12
  <2>3. \A r \in committed : r \subseteq onDisk' \/ r \cap onDisk' = {}
    BY <1>1, <1>7, <2>2 DEF RowsAtomic
  <2>4. rollbacks <= 1 => undone \cap table' = {}
    BY <1>1, <1>3, <1>7 DEF RowsAtomic
  <2>5. ASSUME rollbacks = 0 PROVE plain' \subseteq onDisk' /\ \A r \in committed : r \subseteq onDisk'
    <3>1. plain \subseteq onDisk /\ (\A r \in committed : r \subseteq onDisk) /\ Len(scopes) = Len(savepoints)
      BY <1>1, <2>5 DEF RowsAtomic, Nested
    <3>2. scopes = <<>> => savepoints = <<>>
      BY <1>6, <3>1
    <3> QED BY <1>3, <1>9, <2>2, <3>1, <3>2
  <2> QED BY <1>3, <2>1, <2>3, <2>4, <2>5 DEF RowsAtomic
<1> QED BY <1>10, <1>11, <1>13, <1>14, <1>15 DEF DatabaseInv

LEMMA DbBeginStep ==
    ASSUME DatabaseInv, begin_transaction
    PROVE  DatabaseInv'
<1>1. DatabaseTypes /\ Nested /\ OwnSavepoints /\ OpenApart /\ RowsAtomic
  BY DEF DatabaseInv
<1>2. /\ savepoints' = Append(savepoints, table) /\ scopes' = Append(scopes, {})
      /\ UNCHANGED <<table, onDisk, committed, undone, plain, written, crashes, rollbacks>>
  BY DEF begin_transaction
<1>3. savepoints \in Seq(SUBSET Rows) /\ scopes \in Seq(SUBSET Rows) /\ table \in SUBSET Rows /\ {} \in SUBSET Rows
  BY <1>1 DEF DatabaseTypes
<1>4. PICK n : n = Len(scopes) + 1
  OBVIOUS
<1>5. /\ scopes' \in Seq(SUBSET Rows) /\ Len(scopes') = n /\ n \in DOMAIN scopes' /\ scopes'[n] = {}
      /\ (\A i \in DOMAIN scopes : i \in DOMAIN scopes' /\ scopes'[i] = scopes[i] /\ i < n)
      /\ \A i \in DOMAIN scopes' : i \in DOMAIN scopes \/ i = n
  BY <1>2, <1>3, <1>4
<1>6. /\ savepoints' \in Seq(SUBSET Rows) /\ Len(savepoints') = Len(savepoints) + 1
      /\ savepoints'[Len(savepoints) + 1] = table
      /\ (\A i \in DOMAIN savepoints : savepoints'[i] = savepoints[i])
      /\ \A i \in DOMAIN savepoints' : i \in DOMAIN savepoints \/ i = Len(savepoints) + 1
  BY <1>2, <1>3
<1>7. OpenRows' = OpenRows
  <2>1. ASSUME NEW y PROVE (\E i \in DOMAIN scopes' : y \in scopes'[i]) <=> \E i \in DOMAIN scopes : y \in scopes[i]
    BY <1>5
  <2> QED BY <2>1 DEF OpenRows
<1>8. Rows' = Rows
  BY <1>2 DEF Rows
<1>9. DatabaseTypes'
  BY <1>1, <1>2, <1>5, <1>6, <1>8 DEF DatabaseTypes
<1>10. Len(scopes) \in Nat /\ Len(savepoints) \in Nat
  BY <1>3
<1>11. Nested'
  BY <1>1, <1>2, <1>4, <1>5, <1>6, <1>10 DEF Nested
<1>12. OwnSavepoints'
  <2> SUFFICES ASSUME Len(scopes') = Len(savepoints')
               PROVE  /\ table = onDisk \cup OpenRows /\ undone \cap table = {}
                      /\ \A i \in DOMAIN savepoints' : savepoints'[i] \subseteq table
                      /\ \A i, j \in DOMAIN scopes' : i <= j => savepoints'[i] \cap scopes'[j] = {}
    BY <1>2, <1>7 DEF OwnSavepoints
  <2>1. Len(scopes) = Len(savepoints)
    <3>1. Len(scopes) + 1 = Len(savepoints) + 1
      BY <1>4, <1>5, <1>6
    <3> QED BY <1>10, <3>1
  <2>2. /\ table = onDisk \cup OpenRows /\ undone \cap table = {}
        /\ (\A i \in DOMAIN savepoints : savepoints[i] \subseteq table)
        /\ \A i, j \in DOMAIN scopes : i <= j => savepoints[i] \cap scopes[j] = {}
    BY <1>1, <2>1 DEF OwnSavepoints
  <2>3. \A i \in DOMAIN savepoints' : savepoints'[i] \subseteq table
    BY <1>6, <2>2
  <2>4. ASSUME NEW i \in DOMAIN scopes', NEW j \in DOMAIN scopes', i <= j PROVE savepoints'[i] \cap scopes'[j] = {}
    <3>1. CASE j = n
      BY <1>5, <3>1
    <3>2. CASE j \in DOMAIN scopes
      <4>1. i \in DOMAIN scopes /\ i \in DOMAIN savepoints
        BY <1>3, <1>4, <1>5, <1>10, <2>1, <2>4, <3>2
      <4> QED BY <1>5, <1>6, <2>2, <2>4, <3>2, <4>1
    <3> QED BY <1>5, <3>1, <3>2
  <2> QED BY <2>2, <2>3, <2>4
<1>13. OpenApart' /\ RowsAtomic'
  BY <1>1, <1>2, <1>7 DEF OpenApart, RowsAtomic
<1> QED BY <1>9, <1>11, <1>12, <1>13 DEF DatabaseInv

\* The end of an inner transaction hands its rows to the outer one.
LEMMA DbCommitStep ==
    ASSUME DatabaseInv, Commit
    PROVE  DatabaseInv'
<1>1. DatabaseTypes /\ Nested /\ OwnSavepoints /\ OpenApart /\ RowsAtomic
  BY DEF DatabaseInv
<1>2. PICK rest : rest = Front(scopes)
  OBVIOUS
<1>3. PICK wrote : wrote = Last(scopes)
  OBVIOUS
<1>4. /\ scopes # <<>> /\ savepoints' = Front(savepoints)
      /\ onDisk' = IF Len(savepoints) = 1 THEN table ELSE onDisk
      /\ UNCHANGED <<table, undone, plain, written, crashes, rollbacks>>
  BY DEF Commit, release
<1>5. /\ rest = <<>> => scopes' = rest /\ committed' = committed \cup {wrote}
      /\ rest # <<>> => scopes' = [rest EXCEPT ![Len(rest)] = rest[Len(rest)] \cup wrote] /\ committed' = committed
  BY <1>2, <1>3 DEF Commit
<1>6. PICK n : n = Len(scopes)
  OBVIOUS
<1>7. savepoints \in Seq(SUBSET Rows) /\ scopes \in Seq(SUBSET Rows) /\ Rows' = Rows
  BY <1>1, <1>4 DEF DatabaseTypes, Rows
<1>8. /\ n \in Nat /\ n >= 1 /\ wrote = scopes[n] /\ wrote \in SUBSET Rows /\ n \in DOMAIN scopes
      /\ DOMAIN scopes = 1..n /\ rest \in Seq(SUBSET Rows) /\ Len(rest) = n - 1 /\ DOMAIN rest = 1..(n - 1)
      /\ \A i \in DOMAIN rest : i \in DOMAIN scopes /\ rest[i] = scopes[i]
  BY <1>2, <1>3, <1>4, <1>6, <1>7, FrontOf
<1>9. PICK l : l = Len(savepoints)
  OBVIOUS
<1>10. l \in Nat /\ n <= l /\ (rollbacks = 0 => n = l)
  BY <1>1, <1>6, <1>7, <1>9 DEF Nested
<1>11. savepoints # <<>>
  <2>1. l # 0
    BY <1>8, <1>10
  <2> QED BY <1>9, <2>1
<1>12. /\ savepoints' \in Seq(SUBSET Rows) /\ Len(savepoints') = l - 1 /\ DOMAIN savepoints' = 1..(l - 1)
       /\ DOMAIN savepoints = 1..l
       /\ \A i \in DOMAIN savepoints' : i \in DOMAIN savepoints /\ savepoints'[i] = savepoints[i]
  BY <1>4, <1>7, <1>9, <1>11, FrontOf
<1>13. wrote \subseteq OpenRows /\ wrote \cap onDisk = {}
  BY <1>1, <1>8 DEF OpenRows, OpenApart
<1>14. n = l => /\ table = onDisk \cup OpenRows /\ undone \cap table = {}
                /\ \A i \in DOMAIN savepoints : savepoints[i] \subseteq table
                /\ \A i, j \in DOMAIN scopes : i <= j => savepoints[i] \cap scopes[j] = {}
  BY <1>1, <1>6, <1>9 DEF OwnSavepoints
<1>15. CASE rest = <<>>
  <2>1. n = 1 /\ scopes' = <<>> /\ committed' = committed \cup {wrote}
    BY <1>5, <1>8, <1>15
  <2>2. Len(scopes') = 0 /\ DOMAIN scopes' = {} /\ scopes' \in Seq(SUBSET Rows)
    BY <1>5, <1>8, <1>15, <2>1
  <2>3. OpenRows' = {} /\ OpenRows = wrote
    <3>1. OpenRows' = {}
      BY <2>2 DEF OpenRows
    <3>2. DOMAIN scopes = {1}
      BY <1>8, <2>1
    <3> QED BY <1>8, <2>1, <3>1, <3>2 DEF OpenRows
  <2>4. DatabaseTypes'
    BY <1>1, <1>4, <1>7, <1>8, <1>12, <2>1, <2>2 DEF DatabaseTypes
  <2>5. Nested'
    BY <1>4, <1>8, <1>10, <1>12, <2>1, <2>2 DEF Nested
  <2>6. l = 1 => onDisk' = table /\ table = onDisk \cup wrote /\ undone \cap table = {}
    BY <1>4, <1>9, <1>14, <2>1, <2>3
  <2>7. l # 1 => onDisk' = onDisk
    BY <1>4, <1>9
  <2>8. OwnSavepoints'
    <3> SUFFICES ASSUME Len(scopes') = Len(savepoints')
                 PROVE  /\ table = onDisk' \cup OpenRows' /\ undone \cap table = {}
                        /\ \A i \in DOMAIN savepoints' : savepoints'[i] \subseteq table
                        /\ \A i, j \in DOMAIN scopes' : i <= j => savepoints'[i] \cap scopes'[j] = {}
      BY <1>4 DEF OwnSavepoints
    <3>1. l = 1
      BY <1>10, <1>12, <2>2
    <3>2. DOMAIN savepoints' = {}
      BY <1>12, <3>1
    <3> QED BY <2>2, <2>3, <2>6, <3>1, <3>2
  <2>9. OpenApart'
    BY <2>3 DEF OpenApart
  <2>10. RowsAtomic'
    <3>1. undone \cap onDisk' = {}
      BY <1>1, <2>6, <2>7 DEF RowsAtomic
    <3>2. \A r \in committed : r \cap wrote = {}
      BY <1>1, <2>3 DEF OpenApart
    <3>3. \A r \in committed : r \subseteq onDisk' \/ r \cap onDisk' = {}
      BY <1>1, <2>6, <2>7, <3>2 DEF RowsAtomic
    <3>4. wrote \subseteq onDisk' \/ wrote \cap onDisk' = {}
      BY <1>13, <2>6, <2>7
    <3>5. rollbacks = 0 => plain \subseteq onDisk' /\ (\A r \in committed : r \subseteq onDisk') /\ wrote \subseteq onDisk'
      <4>1. rollbacks = 0 => l = 1
        BY <1>10, <2>1
      <4> QED BY <1>1, <2>6, <4>1 DEF RowsAtomic
    <3> QED BY <1>1, <1>4, <2>1, <3>1, <3>3, <3>4, <3>5 DEF RowsAtomic
  <2> QED BY <2>4, <2>5, <2>8, <2>9, <2>10 DEF DatabaseInv
<1>16. CASE rest # <<>>
  <2>1. scopes' = [rest EXCEPT ![Len(rest)] = rest[Len(rest)] \cup wrote] /\ committed' = committed
    BY <1>5, <1>16
  <2>2. /\ scopes' \in Seq(SUBSET Rows) /\ Len(scopes') = Len(rest) /\ DOMAIN scopes' = DOMAIN rest
        /\ scopes'[Len(rest)] = rest[Len(rest)] \cup wrote
        /\ (\A i \in DOMAIN rest : i # Len(rest) => scopes'[i] = rest[i])
        /\ UNION {scopes'[i] : i \in DOMAIN scopes'} = (UNION {rest[i] : i \in DOMAIN rest}) \cup wrote
    <3>1. rest \in Seq(SUBSET Rows) /\ rest # <<>> /\ wrote \in SUBSET Rows
      BY <1>8, <1>16
    <3> QED BY <2>1, <3>1, AddedTo
  <2>3. n - 1 >= 1 /\ n - 1 \in DOMAIN rest
    <3>1. Len(rest) # 0
      BY <1>8, <1>16
    <3> QED BY <1>8, <3>1
  <2>4. onDisk' = onDisk
    BY <1>4, <1>8, <1>9, <1>10, <2>3
  <2>5. OpenRows' = OpenRows
    <3>1. \A i \in DOMAIN scopes : i \in DOMAIN rest \/ i = n
      BY <1>8
    <3>2. ASSUME NEW y PROVE (\E i \in DOMAIN scopes : y \in scopes[i]) <=> (\E i \in DOMAIN rest : y \in rest[i]) \/ y \in wrote
      BY <1>8, <3>1
    <3>3. UNION {scopes[i] : i \in DOMAIN scopes} = (UNION {rest[i] : i \in DOMAIN rest}) \cup wrote
      BY <3>2
    <3> QED BY <2>2, <3>3 DEF OpenRows
  <2>6. DatabaseTypes'
    BY <1>1, <1>4, <1>7, <1>12, <2>1, <2>2, <2>4 DEF DatabaseTypes
  <2>7. Nested'
    BY <1>4, <1>8, <1>10, <1>12, <2>2 DEF Nested
  <2>8. OwnSavepoints'
    <3> SUFFICES ASSUME Len(scopes') = Len(savepoints')
                 PROVE  /\ table = onDisk \cup OpenRows /\ undone \cap table = {}
                        /\ \A i \in DOMAIN savepoints' : savepoints'[i] \subseteq table
                        /\ \A i, j \in DOMAIN scopes' : i <= j => savepoints'[i] \cap scopes'[j] = {}
      BY <1>4, <2>4, <2>5 DEF OwnSavepoints
    <3>1. n = l
      BY <1>8, <1>10, <1>12, <2>2
    <3>2. ASSUME NEW i \in DOMAIN scopes', NEW j \in DOMAIN scopes', i <= j PROVE savepoints'[i] \cap scopes'[j] = {}
      <4>1. i \in DOMAIN savepoints' /\ i \in DOMAIN scopes /\ j \in DOMAIN scopes /\ j \in DOMAIN rest /\ i <= n
        BY <1>8, <1>12, <2>2, <3>1, <3>2
      <4>2. savepoints[i] \cap scopes[j] = {} /\ savepoints[i] \cap wrote = {}
        BY <1>8, <1>14, <3>1, <3>2, <4>1
      <4>3. scopes'[j] \subseteq scopes[j] \cup wrote
        BY <1>8, <2>2, <4>1
      <4> QED BY <1>12, <4>1, <4>2, <4>3
    <3> QED BY <1>12, <1>14, <3>1, <3>2
  <2>9. OpenApart' /\ RowsAtomic'
    BY <1>1, <1>4, <2>1, <2>4, <2>5 DEF OpenApart, RowsAtomic
  <2> QED BY <2>6, <2>7, <2>8, <2>9 DEF DatabaseInv
<1> QED BY <1>15, <1>16

LEMMA DbRollbackStep ==
    ASSUME DatabaseInv, Rollback
    PROVE  DatabaseInv'
<1>1. DatabaseTypes /\ Nested /\ OwnSavepoints /\ OpenApart /\ RowsAtomic
  BY DEF DatabaseInv
<1>2. /\ scopes # <<>> /\ savepoints' = savepoints /\ table' = Last(savepoints) /\ onDisk' = onDisk
      /\ scopes' = Front(scopes) /\ undone' = undone \cup Last(scopes) /\ rollbacks' = rollbacks + 1
      /\ UNCHANGED <<committed, plain, written, crashes>>
  BY DEF Rollback, rollback
<1>3. savepoints \in Seq(SUBSET Rows) /\ scopes \in Seq(SUBSET Rows) /\ Rows' = Rows /\ rollbacks \in Nat
  BY <1>1, <1>2 DEF DatabaseTypes, Rows
<1>4. PICK n : n = Len(scopes)
  OBVIOUS
<1>5. PICK l : l = Len(savepoints)
  OBVIOUS
<1>6. /\ n \in Nat /\ n >= 1 /\ Last(scopes) = scopes[n] /\ scopes[n] \in SUBSET Rows /\ n \in DOMAIN scopes
      /\ scopes' \in Seq(SUBSET Rows) /\ Len(scopes') = n - 1
      /\ \A i \in DOMAIN scopes' : i \in DOMAIN scopes /\ scopes'[i] = scopes[i]
  BY <1>2, <1>3, <1>4, FrontOf
<1>7. l \in Nat /\ n <= l /\ (rollbacks = 0 => n = l)
  BY <1>1, <1>3, <1>4, <1>5 DEF Nested
<1>8. savepoints # <<>>
  <2>1. l # 0
    BY <1>6, <1>7
  <2> QED BY <1>5, <2>1
<1>9. Last(savepoints) = savepoints[l] /\ savepoints[l] \in SUBSET Rows /\ l \in DOMAIN savepoints
  <2>1. /\ Last(savepoints) = savepoints[Len(savepoints)] /\ Last(savepoints) \in SUBSET Rows
        /\ Len(savepoints) \in DOMAIN savepoints
    BY <1>3, <1>8, FrontOf
  <2> QED BY <1>5, <2>1
<1>10. scopes[n] \subseteq OpenRows /\ OpenRows' \subseteq OpenRows
  BY <1>6 DEF OpenRows
<1>11. DatabaseTypes'
  BY <1>1, <1>2, <1>3, <1>6, <1>9 DEF DatabaseTypes
<1>12. Nested' /\ OwnSavepoints'
  <2>1. Len(scopes') # Len(savepoints') /\ Len(scopes') <= Len(savepoints') /\ rollbacks' # 0
    BY <1>2, <1>3, <1>5, <1>6, <1>7
  <2> QED BY <2>1 DEF Nested, OwnSavepoints
<1>13. OpenApart'
  BY <1>1, <1>2, <1>10 DEF OpenApart
<1>14. RowsAtomic'
  <2>1. undone' \cap onDisk = {}
    BY <1>1, <1>2, <1>6, <1>10 DEF RowsAtomic, OpenApart
  <2>2. ASSUME rollbacks = 0 PROVE undone' \cap table' = {}
    <3>1. n = l /\ undone \cap table = {} /\ savepoints[l] \subseteq table
      BY <1>1, <1>4, <1>5, <1>7, <1>9, <2>2 DEF OwnSavepoints
    <3>2. savepoints[n] \cap scopes[n] = {}
      <4>1. n <= n
        BY <1>6
      <4> QED BY <1>1, <1>4, <1>5, <1>6, <3>1, <4>1 DEF OwnSavepoints
    <3> QED BY <1>2, <1>6, <1>9, <3>1, <3>2
  <2>3. (rollbacks' <= 1 => rollbacks = 0) /\ rollbacks' # 0
    BY <1>2, <1>3
  <2> QED BY <1>1, <1>2, <2>1, <2>2, <2>3 DEF RowsAtomic
<1> QED BY <1>11, <1>12, <1>13, <1>14 DEF DatabaseInv

LEMMA DbCrashStep ==
    ASSUME DatabaseInv, Crash
    PROVE  DatabaseInv'
<1>1. DatabaseTypes /\ OpenApart /\ RowsAtomic
  BY DEF DatabaseInv
<1>2. /\ table' = onDisk /\ savepoints' = <<>> /\ scopes' = <<>> /\ undone' = undone \cup OpenRows
      /\ crashes' = crashes + 1 /\ UNCHANGED <<onDisk, committed, plain, written, rollbacks>>
  BY DEF Crash, OpenRows, Range
<1>3. DOMAIN scopes' = {} /\ DOMAIN savepoints' = {} /\ Len(scopes') = 0 /\ Len(savepoints') = 0
  BY <1>2
<1>4. OpenRows' = {}
  BY <1>3 DEF OpenRows
<1>5. OpenRows \subseteq Rows
  <2>1. scopes \in Seq(SUBSET Rows)
    BY <1>1 DEF DatabaseTypes
  <2>2. \A i \in DOMAIN scopes : scopes[i] \in SUBSET Rows
    BY <2>1
  <2> QED BY <2>2 DEF OpenRows
<1>6. DatabaseTypes'
  <2>1. Rows' = Rows /\ <<>> \in Seq(SUBSET Rows)
    BY <1>2 DEF Rows
  <2> QED BY <1>1, <1>2, <1>5, <2>1 DEF DatabaseTypes
<1>7. Nested' /\ OpenApart'
  BY <1>3, <1>4 DEF Nested, OpenApart
<1>8. undone' \cap onDisk = {}
  BY <1>1, <1>2 DEF OpenApart, RowsAtomic
<1>9. OwnSavepoints'
  BY <1>2, <1>3, <1>4, <1>8 DEF OwnSavepoints
<1>10. RowsAtomic'
  BY <1>1, <1>2, <1>8 DEF RowsAtomic
<1> QED BY <1>6, <1>7, <1>9, <1>10 DEF DatabaseInv

LEMMA DbInitInv == DatabaseInit => DatabaseInv
<1> SUFFICES ASSUME DatabaseInit PROVE DatabaseInv
  OBVIOUS
<1>1. /\ table = {} /\ onDisk = {} /\ savepoints = <<>> /\ scopes = <<>>
      /\ committed = {} /\ undone = {} /\ plain = {} /\ written = 0 /\ crashes = 0 /\ rollbacks = 0
  BY DEF DatabaseInit
<1>2. DOMAIN scopes = {} /\ DOMAIN savepoints = {} /\ Len(scopes) = 0 /\ Len(savepoints) = 0
  BY <1>1
<1>3. OpenRows = {}
  BY <1>2 DEF OpenRows
<1>4. DatabaseTypes
  <2>1. <<>> \in Seq(SUBSET Rows)
    OBVIOUS
  <2> QED BY <1>1, <2>1 DEF DatabaseTypes
<1>5. Nested /\ OwnSavepoints /\ OpenApart /\ RowsAtomic
  BY <1>1, <1>2, <1>3 DEF Nested, OwnSavepoints, OpenApart, RowsAtomic
<1> QED BY <1>4, <1>5 DEF DatabaseInv

LEMMA DbStep == DatabaseInv /\ [DatabaseNext]_dbVars => DatabaseInv'
<1> SUFFICES ASSUME DatabaseInv, [DatabaseNext]_dbVars PROVE DatabaseInv'
  OBVIOUS
<1>1. CASE UNCHANGED dbVars
  <2>1. Rows' = Rows /\ OpenRows' = OpenRows
    BY <1>1 DEF dbVars, Rows, OpenRows
  <2> QED BY <1>1, <2>1 DEF dbVars, DatabaseInv, DatabaseTypes, Nested, OwnSavepoints, OpenApart, RowsAtomic
<1> QED BY <1>1, DbExecuteStep, DbBeginStep, DbCommitStep, DbRollbackStep, DbCrashStep DEF DatabaseNext

LEMMA SmallRemainder ==
    ASSUME NEW M \in Nat \ {0}, NEW x \in 0..(M - 1)
    PROVE  x % M = x
OBVIOUS

\* What an unsigned column holds is the value less half of the range.
LEMMA ColumnValue ==
    ASSUME NEW M, M = 2 ^ Width, NEW H, H = 2 ^ (Width - 1), NEW v \in 0..(M - 1)
    PROVE  bind_uint64(v) = v - H /\ value_uint64(v - H) = v
<1>1. M \in Nat \ {0} /\ H \in Nat \ {0} /\ M = 2 * H /\ v \in Int /\ v >= 0 /\ v < M
  BY WidthAssumption
<1>2. PICK x \in Int : x = v - H
  BY <1>1
<1>3. PICK y \in Int : y = x % M
  BY <1>1
<1>4. y = IF x < 0 THEN x + M ELSE x
  <2>1. CASE x < 0
    <3>1. -M <= x
      BY <1>1, <1>2
    <3> QED BY <1>1, <1>3, <2>1, <3>1
  <2>2. CASE ~(x < 0)
    <3>1. x \in 0..(M - 1)
      BY <1>1, <1>2, <2>2
    <3> QED BY <1>1, <1>3, <2>2, <3>1
  <2> QED BY <2>1, <2>2
<1>5. y >= 0 /\ y < M
  BY <1>1, <1>2, <1>4
<1>6. (y + M) % M = y
  BY <1>1, <1>5
<1>7. Signed(y) = x
  <2>1. Signed(y) = IF y < H THEN y ELSE y - M
    BY <1>1 DEF Signed
  <2> QED BY <1>1, <1>2, <1>4, <2>1
<1>8. bind_uint64(v) = x
  <2>1. bind_uint64(v) = Signed(((x % M) + M) % M)
    BY <1>2 DEF bind_uint64, Wrap
  <2> QED BY <1>3, <1>6, <1>7, <2>1
<1>9. value_uint64(x) = v
  <2>1. value_uint64(x) = (x + H) % M /\ x + H = v
    BY <1>1, <1>2 DEF value_uint64
  <2>2. v % M = v
    BY <1>1, SmallRemainder
  <2> QED BY <2>1, <2>2
<1> QED BY <1>2, <1>8, <1>9

LEMMA ColumnsKept ==
    ASSUME NEW u \in 0..(2 ^ Width - 1), NEW v \in 0..(2 ^ Width - 1)
    PROVE  /\ value_uint64(bind_uint64(v)) = v
           /\ u < v <=> bind_uint64(u) < bind_uint64(v)
           /\ value_time(bind_time(v)) \in v - 9 .. v
<1>1. PICK M : M = 2 ^ Width
  OBVIOUS
<1>2. PICK H : H = 2 ^ (Width - 1)
  OBVIOUS
<1>3. M \in Nat /\ H \in Nat /\ u \in 0..(M - 1) /\ v \in 0..(M - 1)
  BY <1>1, <1>2, WidthAssumption
<1>4. bind_uint64(v) = v - H /\ value_uint64(v - H) = v /\ bind_uint64(u) = u - H
  BY <1>1, <1>2, <1>3, ColumnValue
<1>5. u \in Nat /\ v \in Nat
  BY <1>3
<1>6. u < v <=> u - H < v - H
  BY <1>3, <1>5
<1>7. (v \div 10) * 10 \in v - 9 .. v
  BY <1>5
<1> QED BY <1>4, <1>6, <1>7 DEF value_time, bind_time

\* For any nesting of transactions, any number of rows and of crashes and any width of a column: what was
\* rolled back, or open at a crash, is never on disk and what was committed is there whole or not at all
\* (database/sqlite/connection.cpp); until a rollback leaves a savepoint behind, nothing that was
\* committed is missing.  The columns give back the integers they were given, in their order.
THEOREM TransactionsAreAtomic == DatabaseSpec => []TransactionsAtomic
<1>1. DatabaseInv => TransactionsAtomic
  BY ColumnsKept DEF DatabaseInv, RowsAtomic, TransactionsAtomic
<1> QED BY <1>1, DbInitInv, DbStep, PTL DEF DatabaseSpec

-----------------------------------------------------------------------------
(* Framing: the header.                                                    *)

\* Being the numbers that v is shifted to, step by step.
Shifts(by, v, n) == by \in [0..n -> Nat] /\ by[0] = v /\ \A k \in 1..n : by[k] = by[k - 1] \div Base

LEMMA ShiftsExist == \A v, n \in Nat : \E by : Shifts(by, v, n)
<1> SUFFICES ASSUME NEW v \in Nat, NEW N \in Nat, ~ \E by : Shifts(by, v, N) PROVE FALSE
  OBVIOUS
<1> DEFINE U == {n \in Nat : ~ \E by : Shifts(by, v, n)}
<1>1. PICK n \in U : \A m \in U : n <= m
  <2>1. U \in SUBSET Nat /\ U # {}
    OBVIOUS
  <2> HIDE DEF U
  <2> QED BY <2>1, LeastNumber
<1>2. n # 0
  <2>1. Shifts([k \in 0..0 |-> v], v, 0)
    BY DEF Shifts
  <2> QED BY <1>1, <2>1
<1>3. n - 1 \in Nat /\ n - 1 \notin U
  BY <1>1, <1>2
<1>4. PICK by : Shifts(by, v, n - 1)
  BY <1>3
<1> DEFINE on == [k \in 0..n |-> IF k = n THEN by[n - 1] \div Base ELSE by[k]]
<1>5. by \in [0..n - 1 -> Nat] /\ by[0] = v /\ \A k \in 1..n - 1 : by[k] = by[k - 1] \div Base
  BY <1>4 DEF Shifts
<1>6. Base \in Nat /\ Base > 0 /\ \A x \in Nat : x \div Base \in Nat
  BY FramingAssumption
<1>7. by[n - 1] \div Base \in Nat
  BY <1>1, <1>2, <1>5, <1>6
<1>8. on \in [0..n -> Nat]
  BY <1>1, <1>5, <1>7
<1>9. on[0] = v /\ \A k \in 1..n : on[k] = on[k - 1] \div Base
  <2>1. on[0] = v
    BY <1>1, <1>2, <1>5
  <2>2. ASSUME NEW k \in 1..n PROVE on[k] = on[k - 1] \div Base
    <3>1. n \in Nat /\ k \in 0..n /\ k - 1 \in 0..n /\ k - 1 # n
      BY <1>1
    <3>2. on[k - 1] = by[k - 1]
      BY <3>1
    <3>3. CASE k = n
      BY <3>1, <3>2, <3>3
    <3>4. CASE k # n
      <4>1. k \in 1..n - 1 /\ on[k] = by[k]
        BY <3>1, <3>4
      <4> QED BY <1>5, <3>2, <4>1
    <3> QED BY <3>3, <3>4
  <2> QED BY <2>1, <2>2
<1>10. Shifts(on, v, n)
  BY <1>8, <1>9 DEF Shifts
<1> QED BY <1>1, <1>10

LEMMA Shifted == \A v \in Nat : Shifts(shifted(v), v, HeaderSize)
<1> TAKE v \in Nat
<1> DEFINE Def(by) == [k \in 0..HeaderSize |-> IF k = 0 THEN v ELSE by[k - 1] \div Base]
<1>1. HeaderSize \in Nat
  BY FramingAssumption
<1>2. PICK g : Shifts(g, v, HeaderSize)
  BY <1>1, ShiftsExist
<1>3. g = Def(g)
  <2>1. g \in [0..HeaderSize -> Nat] /\ g[0] = v /\ \A k \in 1..HeaderSize : g[k] = g[k - 1] \div Base
    BY <1>2 DEF Shifts
  <2> QED BY <1>1, <2>1
<1> DEFINE by == shifted(v)
<1>4. by = Def(by)
  <2>1. shifted(v) = CHOOSE f : f = Def(f)
    BY DEF shifted
  <2> QED BY <1>3, <2>1
<1> HIDE DEF by
<1>e. \A f : /\ Def(f)[0] = v /\ Def(f) = [k \in 0..HeaderSize |-> Def(f)[k]]
             /\ \A k \in 1..HeaderSize : Def(f)[k] = f[k - 1] \div Base
  <2> TAKE f
  <2>1. DOMAIN Def(f) = 0..HeaderSize /\ \A k \in 0..HeaderSize : Def(f)[k] = IF k = 0 THEN v ELSE f[k - 1] \div Base
    OBVIOUS
  <2>2. Def(f) = [k \in 0..HeaderSize |-> Def(f)[k]]
    OBVIOUS
  <2> HIDE DEF Def
  <2>3. 0 \in 0..HeaderSize /\ \A k \in 1..HeaderSize : k \in 0..HeaderSize /\ k # 0
    BY <1>1
  <2> QED BY <2>1, <2>2, <2>3
<1> HIDE DEF Def
<1>5. /\ by = [k \in 0..HeaderSize |-> by[k]]
      /\ by[0] = v /\ \A k \in 1..HeaderSize : by[k] = by[k - 1] \div Base
  BY <1>4, <1>e
<1>6. \A x \in Nat : x \div Base \in Nat
  BY FramingAssumption
<1>7. \A k \in 0..HeaderSize : by[k] = g[k]
  <2> SUFFICES ASSUME NEW k \in 0..HeaderSize, by[k] # g[k] PROVE FALSE
    OBVIOUS
  <2> DEFINE U == {i \in 0..HeaderSize : by[i] # g[i]}
  <2>1. PICK m \in U : \A i \in U : m <= i
    <3>1. U \in SUBSET Nat /\ U # {}
      BY <1>1
    <3> HIDE DEF U
    <3> QED BY <3>1, LeastNumber
  <2>2. m # 0 /\ m \in 1..HeaderSize
    BY <1>1, <1>2, <1>5, <2>1 DEF Shifts
  <2>3. m - 1 \notin U /\ m - 1 \in 0..HeaderSize
    BY <1>1, <2>1, <2>2
  <2> QED BY <1>2, <1>5, <2>1, <2>2, <2>3 DEF Shifts
<1>8. by \in [0..HeaderSize -> Nat]
  <2>1. by = [k \in 0..HeaderSize |-> by[k]]
    BY <1>5
  <2>2. \A k \in 0..HeaderSize : by[k] \in Nat
    BY <1>2, <1>7 DEF Shifts
  <2> QED BY <2>1, <2>2
<1> QED BY <1>5, <1>8 DEF Shifts, by

\* A shorter frame's length has room where a longer one's has.
LEMMA ShiftedSmaller == \A v, w \in Nat : v <= w => \A k \in 0..HeaderSize : shifted(v)[k] <= shifted(w)[k]
<1> SUFFICES ASSUME NEW v \in Nat, NEW w \in Nat, v <= w,
                    NEW K \in 0..HeaderSize, ~(shifted(v)[K] <= shifted(w)[K])
             PROVE  FALSE
  OBVIOUS
<1> DEFINE U == {k \in 0..HeaderSize : ~(shifted(v)[k] <= shifted(w)[k])}
<1>0. HeaderSize \in Nat
  BY FramingAssumption
<1>1. PICK m \in U : \A i \in U : m <= i
  <2>1. U \in SUBSET Nat /\ U # {}
    BY <1>0
  <2> HIDE DEF U
  <2> QED BY <2>1, LeastNumber
<1>2. Shifts(shifted(v), v, HeaderSize) /\ Shifts(shifted(w), w, HeaderSize)
  BY Shifted
<1>3. m \in 1..HeaderSize
  BY <1>0, <1>1, <1>2 DEF Shifts
<1>4. m - 1 \in 0..HeaderSize /\ shifted(v)[m - 1] <= shifted(w)[m - 1]
  BY <1>0, <1>1, <1>3
<1>5. \A x, y \in Nat : x <= y => x \div Base <= y \div Base
  BY FramingAssumption
<1>6. shifted(v)[m] = shifted(v)[m - 1] \div Base /\ shifted(w)[m] = shifted(w)[m - 1] \div Base
  BY <1>2, <1>3 DEF Shifts
<1>7. shifted(v)[m - 1] \in Nat /\ shifted(w)[m - 1] \in Nat
  BY <1>2, <1>4 DEF Shifts
<1> QED BY <1>1, <1>4, <1>5, <1>6, <1>7

\* decode_frame_length undoes what encode_frame puts in front of a payload.
LEMMA HeaderDecodes ==
    ASSUME NEW n \in 0..MaxFrame, NEW h \in Seq(0..Base - 1), Len(h) = HeaderSize,
           \A i \in 1..HeaderSize : h[i] = shifted(n)[HeaderSize - i] % Base
    PROVE  decode_frame_length(h) = n
<1>0. HeaderSize \in Nat /\ MaxFrame \in Nat /\ n \in Nat /\ Base \in Nat /\ Base > 0
  BY FramingAssumption
<1> DEFINE Def(f) == [i \in 0..HeaderSize |-> IF i = 0 THEN 0 ELSE f[i - 1] * Base + h[i]]
<1> DEFINE s == shifted(n)
<1>1. s \in [0..HeaderSize -> Nat] /\ s[0] = n /\ \A k \in 1..HeaderSize : s[k] = s[k - 1] \div Base
  BY <1>0, Shifted DEF Shifts
<1>2. s[HeaderSize] = 0
  <2>1. shifted(n)[HeaderSize] <= shifted(MaxFrame)[HeaderSize]
    BY <1>0, ShiftedSmaller
  <2> QED BY <1>0, <1>1, <2>1, CapAssumption
<1>h. \A i \in 1..HeaderSize : h[i] = s[HeaderSize - i] % Base
  OBVIOUS
<1> HIDE DEF s
<1>3. \A x \in Nat : (x \div Base) * Base + (x % Base) = x
  <2> TAKE x \in Nat
  <2>1. x % Base = x - Base * (x \div Base)
    BY <1>0
  <2>2. PICK q \in Int : q = x \div Base
    BY <1>0
  <2>3. Base * q = q * Base /\ Base * q \in Int
    BY <1>0
  <2>4. PICK t \in Int : t = Base * q
    BY <2>3
  <2>5. x % Base = x - t /\ (x \div Base) * Base = t
    BY <2>1, <2>2, <2>3, <2>4
  <2> QED BY <2>5
<1>4. \A i \in 1..HeaderSize : s[HeaderSize - (i - 1)] * Base + h[i] = s[HeaderSize - i]
  <2> TAKE i \in 1..HeaderSize
  <2>1. HeaderSize - (i - 1) \in 1..HeaderSize /\ HeaderSize - i \in 0..HeaderSize /\ HeaderSize - (i - 1) - 1 = HeaderSize - i
    BY <1>0
  <2>2. s[HeaderSize - (i - 1)] = s[HeaderSize - i] \div Base
    BY <1>1, <2>1
  <2>3. h[i] = s[HeaderSize - i] % Base
    BY <1>h
  <2>4. s[HeaderSize - i] \in Nat
    BY <1>1, <2>1
  <2>5. (s[HeaderSize - i] \div Base) * Base + (s[HeaderSize - i] % Base) = s[HeaderSize - i]
    BY <1>3, <2>4
  <2>6. HeaderSize - (i - 1) \in 0..HeaderSize
    BY <2>1
  <2> QED BY <2>2, <2>3, <2>5, <2>6
<1> DEFINE g == [i \in 0..HeaderSize |-> s[HeaderSize - i]]
<1>5. g = Def(g)
  <2>1. \A i \in 0..HeaderSize : g[i] = IF i = 0 THEN 0 ELSE g[i - 1] * Base + h[i]
    BY <1>0, <1>2, <1>4
  <2> QED BY <2>1
<1>e. \A f : Def(f)[0] = 0 /\ \A i \in 1..HeaderSize : Def(f)[i] = f[i - 1] * Base + h[i]
  <2> TAKE f
  <2>1. \A i \in 0..HeaderSize : Def(f)[i] = IF i = 0 THEN 0 ELSE f[i - 1] * Base + h[i]
    OBVIOUS
  <2> HIDE DEF Def
  <2>2. 0 \in 0..HeaderSize /\ \A i \in 1..HeaderSize : i \in 0..HeaderSize /\ i # 0
    BY <1>0
  <2> QED BY <2>1, <2>2
<1> HIDE DEF Def
<1>6. \A f : f = Def(f) => f[HeaderSize] = n
  <2> SUFFICES ASSUME NEW f, f = Def(f) PROVE f[HeaderSize] = n
    OBVIOUS
  <2>1. f[0] = 0 /\ \A i \in 1..HeaderSize : f[i] = f[i - 1] * Base + h[i]
    BY <1>e
  <2>2. \A i \in 0..HeaderSize : f[i] = s[HeaderSize - i]
    <3> SUFFICES ASSUME NEW K \in 0..HeaderSize, f[K] # s[HeaderSize - K] PROVE FALSE
      OBVIOUS
    <3> DEFINE U == {i \in 0..HeaderSize : f[i] # s[HeaderSize - i]}
    <3>1. PICK m \in U : \A i \in U : m <= i
      <4>1. U \in SUBSET Nat /\ U # {}
        BY <1>0
      <4> HIDE DEF U
      <4> QED BY <4>1, LeastNumber
    <3>2. m \in 1..HeaderSize
      <4>1. s[HeaderSize - 0] = 0
        BY <1>0, <1>2
      <4>2. m # 0
        BY <2>1, <3>1, <4>1
      <4> QED BY <1>0, <3>1, <4>2
    <3>3. m - 1 \in 0..HeaderSize /\ f[m - 1] = s[HeaderSize - (m - 1)]
      BY <1>0, <3>1, <3>2
    <3>4. f[m] = s[HeaderSize - m]
      BY <1>4, <2>1, <3>2, <3>3
    <3> QED BY <3>1, <3>4
  <2> QED BY <1>0, <1>1, <2>2
<1>7. decode_frame_length(h) = (CHOOSE f : f = Def(f))[HeaderSize]
  BY DEF decode_frame_length, Def
<1> HIDE DEF g
<1> QED BY <1>5, <1>6, <1>7

-----------------------------------------------------------------------------
(* Framing: frames in the stream.                                          *)

FramingSpec == FramingInit /\ [][FramingNext]_frVars

Byte == 0..Base - 1
Received == [ec : {"none", "stream", "invalid_record"}, payload : Seq(Byte)]
FramingTypes ==
    /\ stream \in Seq(Byte)
    /\ sent \in Seq(Payloads) /\ \A i \in 1..Len(sent) : Len(sent[i]) <= MaxFrame
    /\ reader \in [busy : BOOLEAN, buffer : Seq(Byte), expected : Nat, headerDone : BOOLEAN,
                   max : Nat, failed : BOOLEAN]
    /\ got \in Seq(Received) /\ ended \in {"no", "closed", "error"}

\* What the reader has taken of the frame it is at.
Taken(r) == IF ~r.busy THEN 0 ELSE IF r.headerDone THEN HeaderSize + Len(r.buffer) ELSE Len(r.buffer)

\* ends[i] is where frame i ends among the bytes of the stream, for the frames from k + 1 on; of
\* the first of them `taken` bytes were read already.
Placed(ends, k, taken, bytes, frames) ==
    /\ ends \in [0..Len(frames) -> Int] /\ ends[k] = -taken /\ ends[Len(frames)] = Len(bytes)
    /\ \A i \in k + 1..Len(frames) :
          /\ ends[i] = ends[i - 1] + HeaderSize + Len(frames[i]) /\ ends[i] <= Len(bytes)
          /\ \A j \in 1..HeaderSize + Len(frames[i]) :
                ends[i - 1] + j >= 1 => bytes[ends[i - 1] + j] = encode_frame(frames[i])[j]

\* The reader is at the header or at the payload of frame k + 1.
ReaderAt(r, k, frames) ==
    r.busy =>
        /\ Taken(r) > 0 => k < Len(frames)
        /\ r.headerDone => k < Len(frames) /\ r.expected = Len(frames[k + 1])
        /\ ~r.headerDone => r.expected = HeaderSize
        /\ Len(r.buffer) < r.expected
        /\ \A j \in 1..Len(r.buffer) :
              r.buffer[j] = encode_frame(frames[k + 1])[IF r.headerDone THEN HeaderSize + j ELSE j]

FramingInv ==
    /\ FramingTypes /\ FramesKept /\ (reader.failed => ~reader.busy)
    /\ ~reader.failed =>
          /\ Len(got) <= Len(sent) /\ \A i \in 1..Len(got) : got[i].ec = "none"
          /\ ReaderAt(reader, Len(got), sent)
          /\ \E ends : Placed(ends, Len(got), Taken(reader), stream, sent)

LEMMA Concatenated ==
    ASSUME NEW S, NEW a \in Seq(S), NEW b \in Seq(S)
    PROVE  /\ a \o b \in Seq(S) /\ Len(a \o b) = Len(a) + Len(b)
           /\ \A i \in 1..Len(a) : (a \o b)[i] = a[i]
           /\ \A i \in 1..Len(b) : (a \o b)[Len(a) + i] = b[i]
OBVIOUS

LEMMA Encoded ==
    ASSUME NEW p \in Payloads
    PROVE  /\ p \in Seq(Byte) /\ encode_frame(p) \in Seq(Byte) /\ Len(encode_frame(p)) = HeaderSize + Len(p)
           /\ \A i \in 1..HeaderSize : encode_frame(p)[i] = shifted(Len(p))[HeaderSize - i] % Base
           /\ \A i \in 1..Len(p) : encode_frame(p)[HeaderSize + i] = p[i]
<1>1. HeaderSize \in Nat /\ Base \in Nat /\ Base > 1 /\ p \in Seq(Byte)
  BY FramingAssumption DEF Byte
<1>2. PICK s : s = shifted(Len(p)) /\ s \in [0..HeaderSize -> Nat]
  <2>1. Len(p) \in Nat
    BY <1>1
  <2>2. Shifts(shifted(Len(p)), Len(p), HeaderSize)
    BY <2>1, Shifted
  <2> QED BY <2>2 DEF Shifts
<1> DEFINE h == [i \in 1..HeaderSize |-> s[HeaderSize - i] % Base]
<1>3. h \in Seq(Byte) /\ Len(h) = HeaderSize
  <2>1. \A i \in 1..HeaderSize : s[HeaderSize - i] % Base \in Byte
    <3> TAKE i \in 1..HeaderSize
    <3>1. s[HeaderSize - i] \in Nat
      BY <1>1, <1>2
    <3> QED BY <1>1, <3>1 DEF Byte
  <2> QED BY <1>1, <2>1
<1>4. encode_frame(p) = h \o p
  BY <1>2 DEF encode_frame
<1>5. \A i \in 1..HeaderSize : h[i] = shifted(Len(p))[HeaderSize - i] % Base
  BY <1>2
<1> HIDE DEF h
<1>6. /\ h \o p \in Seq(Byte) /\ Len(h \o p) = Len(h) + Len(p)
      /\ \A i \in 1..Len(h) : (h \o p)[i] = h[i]
      /\ \A i \in 1..Len(p) : (h \o p)[Len(h) + i] = p[i]
  <2>1. p \in Seq(Byte) /\ h \in Seq(Byte)
    BY <1>1, <1>3
  <2> QED BY <2>1, Concatenated
<1> QED BY <1>1, <1>3, <1>4, <1>5, <1>6

LEMMA FramingInit0 == FramingInit => FramingInv
<1> SUFFICES ASSUME FramingInit PROVE FramingInv
  OBVIOUS
<1>1. HeaderSize \in Nat /\ MaxHandshake \in Nat
  BY FramingAssumption
<1>2. FramingTypes /\ FramesKept /\ ~reader.failed /\ ~reader.busy
  BY <1>1 DEF FramingInit, FramingTypes, FramesKept, Received
<1>3. ReaderAt(reader, Len(got), sent)
  BY <1>2 DEF ReaderAt
<1>4. Placed([i \in 0..0 |-> 0], Len(got), Taken(reader), stream, sent)
  <2>1. sent = <<>> /\ got = <<>> /\ stream = <<>> /\ Taken(reader) = 0
    BY <1>2 DEF FramingInit, Taken
  <2> DEFINE z == [i \in 0..0 |-> 0]
  <2>2. z \in [0..0 -> Int] /\ z[0] = 0
    OBVIOUS
  <2> HIDE DEF z
  <2>3. Len(sent) = 0 /\ Len(got) = 0 /\ Len(stream) = 0
    BY <2>1
  <2>4. Placed(z, Len(got), Taken(reader), stream, sent)
    BY <2>1, <2>2, <2>3 DEF Placed
  <2> QED BY <2>4 DEF z
<1> QED BY <1>2, <1>3, <1>4 DEF FramingInv, FramingInit

LEMMA SendStep == FramingInv /\ (\E p \in Payloads : async_send_frame(p)) => FramingInv'
<1> SUFFICES ASSUME FramingInv, NEW p \in Payloads, async_send_frame(p) PROVE FramingInv'
  OBVIOUS
<1> DEFINE e == encode_frame(p)  last == Len(sent) + 1
<1>1. FramingTypes /\ p \in Seq(Byte) /\ e \in Seq(Byte) /\ Len(e) = HeaderSize + Len(p) /\ HeaderSize \in Nat
  BY Encoded, FramingAssumption DEF FramingInv
<1>2. /\ stream' = stream \o e /\ sent' = Append(sent, p) /\ Len(p) <= MaxFrame
      /\ reader' = reader /\ got' = got /\ ended' = ended /\ ended = "no"
  BY DEF async_send_frame
<1>3. Len(sent') = last /\ sent'[last] = p /\ \A i \in 1..Len(sent) : sent'[i] = sent[i]
  BY <1>1, <1>2 DEF FramingTypes
<1> HIDE DEF e
<1>c. /\ stream' \in Seq(Byte) /\ Len(stream') = Len(stream) + Len(e)
      /\ \A i \in 1..Len(stream) : stream'[i] = stream[i]
      /\ \A i \in 1..Len(e) : stream'[Len(stream) + i] = e[i]
  <2>1. stream \in Seq(Byte)
    BY <1>1 DEF FramingTypes
  <2>2. /\ stream \o e \in Seq(Byte) /\ Len(stream \o e) = Len(stream) + Len(e)
        /\ \A i \in 1..Len(stream) : (stream \o e)[i] = stream[i]
        /\ \A i \in 1..Len(e) : (stream \o e)[Len(stream) + i] = e[i]
    <3>1. e \in Seq(Byte)
      BY <1>1
    <3> QED BY <2>1, <3>1, Concatenated
  <2> QED BY <1>2, <2>2
<1>4. FramingTypes'
  <2>1. sent' \in Seq(Payloads) /\ \A i \in 1..Len(sent') : Len(sent'[i]) <= MaxFrame
    BY <1>1, <1>2, <1>3, SMTT(30) DEF FramingTypes
  <2> QED BY <1>1, <1>2, <1>c, <2>1 DEF FramingTypes
<1>5. FramesKept'
  <2>1. FramesKept /\ Len(sent) \in Nat /\ Len(sent') = Len(sent) + 1 /\ Len(got) \in Nat
    BY <1>1, <1>3 DEF FramingInv, FramingTypes
  <2>2. \A i \in 1..Len(got) : i <= Len(sent) => i <= Len(sent') /\ sent'[i] = sent[i]
    BY <1>3, <2>1
  <2> QED BY <1>2, <2>1, <2>2 DEF FramesKept
<1>6. ASSUME ~reader.failed PROVE /\ ReaderAt(reader, Len(got), sent') /\ \E ends : Placed(ends, Len(got), Taken(reader), stream', sent')
  <2>1. ReaderAt(reader, Len(got), sent) /\ Len(got) <= Len(sent) /\ Len(got) \in Nat /\ Len(sent) \in Nat
    BY <1>1, <1>6 DEF FramingInv, FramingTypes
  <2>2. ReaderAt(reader, Len(got), sent')
    <3> SUFFICES ASSUME reader.busy PROVE ReaderAt(reader, Len(got), sent')
      BY DEF ReaderAt
    <3>1. Len(got) < Len(sent) => sent'[Len(got) + 1] = sent[Len(got) + 1]
      BY <1>3, <2>1
    <3>2. Len(reader.buffer) \in Nat
      BY <1>1 DEF FramingTypes
    <3>3. Len(reader.buffer) > 0 => Len(got) < Len(sent)
      BY <1>1, <2>1, <3>2 DEF ReaderAt, Taken
    <3> QED BY <1>3, <2>1, <3>1, <3>2, <3>3 DEF ReaderAt
  <2>3. PICK ends : Placed(ends, Len(got), Taken(reader), stream, sent)
    BY <1>6 DEF FramingInv
  <2> DEFINE on == [i \in 0..last |-> IF i = last THEN Len(stream) + Len(e) ELSE ends[i]]
  <2>4. /\ ends \in [0..Len(sent) -> Int] /\ ends[Len(got)] = -Taken(reader) /\ ends[Len(sent)] = Len(stream)
        /\ \A i \in Len(got) + 1..Len(sent) :
              /\ ends[i] = ends[i - 1] + HeaderSize + Len(sent[i]) /\ ends[i] <= Len(stream)
              /\ \A j \in 1..HeaderSize + Len(sent[i]) :
                    ends[i - 1] + j >= 1 => stream[ends[i - 1] + j] = encode_frame(sent[i])[j]
    BY <2>3 DEF Placed
  <2>5. Len(stream) \in Nat /\ Len(stream') = Len(stream) + Len(e) /\ Len(e) \in Nat
    BY <1>1, <1>c DEF FramingTypes
  <2>6. on \in [0..last -> Int] /\ on[Len(got)] = -Taken(reader) /\ on[last] = Len(stream')
    BY <2>1, <2>4, <2>5
  <2>7. \A i \in 0..Len(sent) : on[i] = ends[i]
    BY <2>1
  <2>8. ASSUME NEW i \in Len(got) + 1..last
        PROVE  /\ on[i] = on[i - 1] + HeaderSize + Len(sent'[i]) /\ on[i] <= Len(stream')
               /\ \A j \in 1..HeaderSize + Len(sent'[i]) :
                     on[i - 1] + j >= 1 => stream'[on[i - 1] + j] = encode_frame(sent'[i])[j]
    <3>1. CASE i = last
      <4>1. on[i] = Len(stream) + Len(e) /\ on[i - 1] = Len(stream) /\ sent'[i] = p
        BY <1>3, <2>1, <2>4, <2>7, <3>1
      <4>2. \A j \in 1..Len(e) : stream'[Len(stream) + j] = e[j]
        BY <1>c
      <4>3. e = encode_frame(p) /\ Len(p) \in Nat
        BY <1>1 DEF e
      <4>4. on[i] = on[i - 1] + HeaderSize + Len(sent'[i]) /\ on[i] <= Len(stream')
        BY <1>1, <2>5, <4>1, <4>3, SMTT(30)
      <4> QED BY <1>1, <2>5, <4>1, <4>2, <4>3, <4>4
    <3>2. CASE i # last
      <4>1. i \in Len(got) + 1..Len(sent) /\ on[i] = ends[i] /\ on[i - 1] = ends[i - 1] /\ sent'[i] = sent[i] /\ ends[i] \in Int /\ ends[i - 1] \in Int
        BY <1>3, <2>1, <2>4, <2>7, <3>2
      <4>2. Len(sent[i]) \in Nat
        <5>1. i \in 1..Len(sent)
          BY <2>1, <4>1
        <5>2. sent[i] \in Payloads
          BY <1>1, <5>1 DEF FramingTypes
        <5> QED BY <5>2, Encoded
      <4>3. ASSUME NEW j \in 1..HeaderSize + Len(sent[i]), ends[i - 1] + j >= 1
            PROVE  stream'[ends[i - 1] + j] = encode_frame(sent[i])[j]
        <5>1. ends[i - 1] + j \in 1..Len(stream)
          <6>1. ends[i] = ends[i - 1] + HeaderSize + Len(sent[i]) /\ ends[i] <= Len(stream)
            BY <2>4, <4>1
          <6>2. j \in Int /\ j <= HeaderSize + Len(sent[i])
            BY <1>1, <4>2
          <6>3. ends[i - 1] + j \in Int /\ ends[i - 1] + j <= ends[i]
            <7>1. ends[i] \in Int /\ ends[i - 1] \in Int /\ HeaderSize \in Nat
              BY <1>1, <4>1
            <7>2. PICK l \in Nat : l = Len(sent[i])
              BY <4>2
            <7>3. PICK x \in Int : x = ends[i - 1]
              BY <7>1
            <7>4. ends[i] = x + HeaderSize + l /\ j <= HeaderSize + l
              BY <6>1, <6>2, <7>2, <7>3
            <7>5. x + j \in Int /\ x + j <= x + HeaderSize + l
              BY <6>2, <7>1, <7>4
            <7> QED BY <7>3, <7>4, <7>5
          <6> QED BY <2>5, <4>1, <4>3, <6>1, <6>3
        <5>2. stream'[ends[i - 1] + j] = stream[ends[i - 1] + j]
          BY <1>c, <5>1
        <5> QED BY <2>4, <4>1, <4>3, <5>2
      <4>4. ends[i] = ends[i - 1] + HeaderSize + Len(sent[i]) /\ ends[i] <= Len(stream)
        BY <2>4, <4>1
      <4>5. on[i] <= Len(stream')
        BY <2>5, <4>1, <4>4
      <4> QED BY <4>1, <4>3, <4>4, <4>5
    <3> QED BY <3>1, <3>2
  <2> HIDE DEF on
  <2>9. Placed(on, Len(got), Taken(reader), stream', sent')
    BY <1>3, <2>6, <2>8 DEF Placed
  <2> QED BY <2>2, <2>9
<1>7. ~reader'.failed => Len(got') <= Len(sent')
  <2>1. Len(sent) \in Nat /\ Len(got) \in Nat
    BY <1>1 DEF FramingTypes
  <2> QED BY <1>2, <1>3, <2>1 DEF FramingInv
<1> QED BY <1>2, <1>4, <1>5, <1>6, <1>7 DEF FramingInv

\* What is still in the stream moves up by the bytes that were read.
LEMMA MovesUp ==
    ASSUME FramingTypes, NEW k \in 0..Len(sent), NEW taken \in Nat, NEW ends,
           Placed(ends, k, taken, stream, sent), NEW n \in 1..Len(stream),
           NEW l \in k..Len(sent), NEW left \in Nat, ends[l] = n - left
    PROVE  Placed([i \in 0..Len(sent) |-> ends[i] - n], l, left, SubSeq(stream, n + 1, Len(stream)), sent)
<1> DEFINE on == [i \in 0..Len(sent) |-> ends[i] - n]  rest == SubSeq(stream, n + 1, Len(stream))
<1>1. /\ ends \in [0..Len(sent) -> Int] /\ ends[Len(sent)] = Len(stream)
      /\ \A i \in k + 1..Len(sent) :
            /\ ends[i] = ends[i - 1] + HeaderSize + Len(sent[i]) /\ ends[i] <= Len(stream)
            /\ \A j \in 1..HeaderSize + Len(sent[i]) :
                  ends[i - 1] + j >= 1 => stream[ends[i - 1] + j] = encode_frame(sent[i])[j]
  BY DEF Placed
<1>2. Len(sent) \in Nat /\ Len(stream) \in Nat /\ stream \in Seq(Byte) /\ HeaderSize \in Nat
  BY FramingAssumption DEF FramingTypes
<1>3. Len(rest) = Len(stream) - n /\ \A i \in 1..Len(stream) - n : rest[i] = stream[n + i]
  <2>1. n \in Nat /\ n + 1 \in 1..Len(stream) + 1
    BY <1>2
  <2> QED BY <1>2, <2>1
<1> HIDE DEF rest
<1>4. on \in [0..Len(sent) -> Int] /\ \A i \in 0..Len(sent) : on[i] = ends[i] - n
  BY <1>1
<1> HIDE DEF on
<1>5. on[l] = -left /\ on[Len(sent)] = Len(rest)
  <2>1. l \in 0..Len(sent) /\ Len(sent) \in 0..Len(sent)
    BY <1>2
  <2>2. on[l] = ends[l] - n /\ on[Len(sent)] = ends[Len(sent)] - n
    BY <1>4, <2>1
  <2> QED BY <1>1, <1>2, <1>3, <2>2
<1>6. ASSUME NEW i \in l + 1..Len(sent)
      PROVE  /\ on[i] = on[i - 1] + HeaderSize + Len(sent[i]) /\ on[i] <= Len(rest)
             /\ \A j \in 1..HeaderSize + Len(sent[i]) :
                   on[i - 1] + j >= 1 => rest[on[i - 1] + j] = encode_frame(sent[i])[j]
  <2>1. i \in k + 1..Len(sent) /\ i \in 0..Len(sent) /\ i - 1 \in 0..Len(sent) /\ i \in 1..Len(sent)
    BY <1>2
  <2>2. PICK a \in Int, b \in Int, m \in Nat : a = ends[i - 1] /\ b = ends[i] /\ m = Len(sent[i])
    <3>1. sent[i] \in Payloads
      BY <2>1 DEF FramingTypes
    <3>2. Len(sent[i]) \in Nat
      BY <3>1, Encoded
    <3>3. ends[i - 1] \in Int /\ ends[i] \in Int
      BY <1>1, <2>1
    <3> QED BY <3>2, <3>3
  <2>3. on[i - 1] = a - n /\ on[i] = b - n
    BY <1>4, <2>1, <2>2
  <2>4. b = a + HeaderSize + m /\ b <= Len(stream)
    BY <1>1, <2>1, <2>2
  <2>5. on[i] = on[i - 1] + HeaderSize + m /\ on[i] <= Len(rest)
    BY <1>2, <1>3, <2>3, <2>4
  <2>6. ASSUME NEW j \in 1..HeaderSize + m, on[i - 1] + j >= 1 PROVE rest[on[i - 1] + j] = encode_frame(sent[i])[j]
    <3>1. a - n + j \in 1..Len(stream) - n /\ a + j >= 1
      BY <1>2, <2>3, <2>4, <2>6
    <3>2. rest[a - n + j] = stream[n + (a - n + j)] /\ n + (a - n + j) = a + j
      BY <1>3, <3>1
    <3>3. stream[a + j] = encode_frame(sent[i])[j]
      BY <1>1, <2>1, <2>2, <3>1
    <3> QED BY <2>3, <3>2, <3>3
  <2> QED BY <2>2, <2>5, <2>6
<1> QED BY <1>4, <1>5, <1>6 DEF Placed, on, rest

\* What is read next are bytes of the frame the reader is at.
LEMMA ReadsFrame ==
    ASSUME FramingTypes, NEW k \in 0..Len(sent), NEW taken \in Nat, NEW ends,
           Placed(ends, k, taken, stream, sent), NEW n \in 1..Len(stream), taken > 0 => k < Len(sent)
    PROVE  /\ k < Len(sent) /\ ends[k + 1] = HeaderSize + Len(sent[k + 1]) - taken
           /\ taken + n <= HeaderSize + Len(sent[k + 1]) =>
                 \A j \in 1..n : SubSeq(stream, 1, n)[j] = encode_frame(sent[k + 1])[taken + j]
<1>1. Len(sent) \in Nat /\ Len(stream) \in Nat /\ stream \in Seq(Byte) /\ HeaderSize \in Nat
  BY FramingAssumption DEF FramingTypes
<1>2. ends[k] = -taken /\ ends[Len(sent)] = Len(stream)
  BY DEF Placed
<1>3. k < Len(sent)
  BY <1>1, <1>2
<1>4. k + 1 \in k + 1..Len(sent) /\ k + 1 - 1 = k /\ k + 1 \in 1..Len(sent)
  BY <1>1, <1>3
<1>5. PICK m \in Nat : m = Len(sent[k + 1])
  <2>1. sent[k + 1] \in Payloads
    BY <1>4 DEF FramingTypes
  <2> QED BY <2>1, Encoded
<1>6. /\ ends[k + 1] = ends[k] + HeaderSize + m
      /\ \A j \in 1..HeaderSize + m : ends[k] + j >= 1 => stream[ends[k] + j] = encode_frame(sent[k + 1])[j]
  <2>1. PICK i : i = k + 1 /\ i \in k + 1..Len(sent) /\ i - 1 = k
    BY <1>4
  <2>2. /\ ends[i] = ends[i - 1] + HeaderSize + Len(sent[i])
        /\ \A j \in 1..HeaderSize + Len(sent[i]) :
              ends[i - 1] + j >= 1 => stream[ends[i - 1] + j] = encode_frame(sent[i])[j]
    BY <2>1 DEF Placed
  <2> QED BY <1>5, <2>1, <2>2
<1>7. ends[k + 1] = HeaderSize + m - taken
  BY <1>1, <1>2, <1>6
<1>8. ASSUME taken + n <= HeaderSize + m, NEW j \in 1..n
      PROVE  SubSeq(stream, 1, n)[j] = encode_frame(sent[k + 1])[taken + j]
  <2>1. SubSeq(stream, 1, n)[j] = stream[j]
    BY <1>1
  <2>2. taken + j \in 1..HeaderSize + m /\ -taken + (taken + j) = j /\ j >= 1
    BY <1>1, <1>8
  <2> QED BY <1>2, <1>6, <2>1, <2>2
<1> QED BY <1>3, <1>5, <1>7, <1>8

LEMMA StreamRead ==
    ASSUME FramingTypes, NEW n \in 1..Len(stream)
    PROVE  /\ SubSeq(stream, 1, n) \in Seq(Byte) /\ Len(SubSeq(stream, 1, n)) = n
           /\ SubSeq(stream, n + 1, Len(stream)) \in Seq(Byte)
<1>1. stream \in Seq(Byte) /\ Len(stream) \in Nat
  BY DEF FramingTypes
<1>2. n + 1 \in 1..Len(stream) + 1 /\ n \in 1..Len(stream)
  BY <1>1
<1> QED BY <1>1, <1>2

LEMMA ReadStep == FramingInv /\ (\E n \in 1..Len(stream) : on_read(n)) => FramingInv'
<1> SUFFICES ASSUME FramingInv, NEW n \in 1..Len(stream), on_read(n) PROVE FramingInv'
  OBVIOUS
<1> DEFINE k == Len(got)  piece == SubSeq(stream, 1, n)  rest == SubSeq(stream, n + 1, Len(stream))
           frame == encode_frame(sent[k + 1])  r == [reader EXCEPT !.buffer = @ \o piece]
<1>1. /\ FramingTypes /\ reader.busy /\ ~reader.failed /\ n \in Nat /\ n > 0
      /\ \A i \in 1..Len(got) : got[i].ec = "none"
      /\ ReaderAt(reader, k, sent)
      /\ \E ends : Placed(ends, k, Taken(reader), stream, sent)
  <2>1. FramingTypes /\ reader.busy /\ ~reader.failed
    BY DEF FramingInv, on_read
  <2>2. Len(stream) \in Nat
    BY <2>1 DEF FramingTypes
  <2> QED BY <2>1, <2>2 DEF FramingInv
<1>2. /\ piece \in Seq(Byte) /\ Len(piece) = n /\ rest \in Seq(Byte)
      /\ stream' = rest /\ sent' = sent /\ ended' = ended
  BY <1>1, StreamRead DEF on_read
<1>3. /\ k \in Nat /\ Len(sent) \in Nat /\ k <= Len(sent) /\ HeaderSize \in Nat /\ HeaderSize > 0
      /\ reader.buffer \in Seq(Byte) /\ Len(reader.buffer) \in Nat /\ reader.expected \in Nat /\ reader.max \in Nat
      /\ reader \in [busy : BOOLEAN, buffer : Seq(Byte), expected : Nat, headerDone : BOOLEAN,
                     max : Nat, failed : BOOLEAN]
  BY <1>1, FramingAssumption DEF FramingTypes, FramingInv
<1>n. n \in Nat /\ HeaderSize \in Nat
  BY <1>1, <1>3
<1> DEFINE off == IF reader.headerDone THEN HeaderSize ELSE 0
           buffer == reader.buffer \o piece
<1>4. Taken(reader) = off + Len(reader.buffer) /\ Taken(reader) \in Nat /\ off \in Nat
  BY <1>1, <1>3 DEF Taken
<1>5. Taken(reader) > 0 => k < Len(sent)
  BY <1>1 DEF ReaderAt
<1>6. PICK ends : Placed(ends, k, Taken(reader), stream, sent)
  BY <1>1
<1>7. /\ k < Len(sent) /\ ends[k + 1] = HeaderSize + Len(sent[k + 1]) - Taken(reader)
      /\ Taken(reader) + n <= HeaderSize + Len(sent[k + 1]) =>
            \A j \in 1..n : piece[j] = frame[Taken(reader) + j]
  <2>1. k \in 0..Len(sent)
    BY <1>3
  <2> QED BY <1>1, <1>4, <1>5, <1>6, <2>1, ReadsFrame
<1>8. /\ sent[k + 1] \in Payloads /\ sent[k + 1] \in Seq(Byte) /\ Len(sent[k + 1]) \in 0..MaxFrame
      /\ frame \in Seq(Byte) /\ Len(frame) = HeaderSize + Len(sent[k + 1])
      /\ \A i \in 1..HeaderSize : frame[i] = shifted(Len(sent[k + 1]))[HeaderSize - i] % Base
      /\ \A i \in 1..Len(sent[k + 1]) : frame[HeaderSize + i] = sent[k + 1][i]
  <2>1. k + 1 \in 1..Len(sent)
    BY <1>3, <1>7
  <2>2. sent[k + 1] \in Payloads /\ Len(sent[k + 1]) <= MaxFrame
    BY <1>1, <2>1 DEF FramingTypes
  <2>3. sent[k + 1] \in Seq(Byte) /\ MaxFrame \in Nat
    BY <2>2, Encoded, FramingAssumption
  <2> QED BY <2>2, <2>3, Encoded
<1>9. /\ reader.headerDone => reader.expected = Len(sent[k + 1])
      /\ ~reader.headerDone => reader.expected = HeaderSize
      /\ Len(reader.buffer) < reader.expected
      /\ \A j \in 1..Len(reader.buffer) : reader.buffer[j] = frame[off + j]
  <2>1. \A j \in 1..Len(reader.buffer) :
           reader.buffer[j] = frame[IF reader.headerDone THEN HeaderSize + j ELSE j]
    BY <1>1 DEF ReaderAt
  <2>2. \A j \in 1..Len(reader.buffer) : (IF reader.headerDone THEN HeaderSize + j ELSE j) = off + j
    BY <1>3
  <2>3. \A j \in 1..Len(reader.buffer) : reader.buffer[j] = frame[off + j]
    BY <2>1, <2>2
  <2> QED BY <1>1, <2>3 DEF ReaderAt
<1>10. buffer \in Seq(Byte) /\ Len(buffer) = Len(reader.buffer) + n
  <2>1. Len(buffer) = Len(reader.buffer) + Len(piece) /\ buffer \in Seq(Byte)
    BY <1>2, <1>3, Concatenated
  <2> QED BY <1>2, <2>1
<1>11. ASSUME Len(buffer) <= reader.expected
       PROVE  \A j \in 1..Len(buffer) : buffer[j] = frame[off + j]
  <2> TAKE j \in 1..Len(buffer)
  <2>1. CASE j <= Len(reader.buffer)
    <3>1. j \in 1..Len(reader.buffer)
      BY <1>3, <1>10, <2>1
    <3>2. buffer[j] = reader.buffer[j]
      BY <1>2, <1>3, <3>1, Concatenated
    <3> QED BY <1>9, <3>1, <3>2
  <2>2. CASE ~(j <= Len(reader.buffer))
    <3>1. j - Len(reader.buffer) \in 1..n
      BY <1>1, <1>3, <1>10, <2>2
    <3>2. PICK i \in 1..n : i = j - Len(reader.buffer)
      BY <3>1
    <3>3. buffer[Len(reader.buffer) + i] = piece[i] /\ Len(reader.buffer) + i = j
      <4>1. \A x \in 1..Len(piece) : buffer[Len(reader.buffer) + x] = piece[x]
        BY <1>2, <1>3, Concatenated
      <4>2. i \in Nat /\ Len(reader.buffer) + i = j
        BY <1>1, <1>3, <1>10, <3>2
      <4> QED BY <1>2, <4>1, <4>2
    <3>4. Taken(reader) + n <= HeaderSize + Len(sent[k + 1])
      <4>1. PICK b \in Nat, m \in Nat : b = Len(reader.buffer) /\ m = Len(sent[k + 1])
        BY <1>3, <1>8, SMTT(30)
      <4>2. b + n <= reader.expected
        BY <1>10, <1>11, <4>1
      <4>3. Taken(reader) = off + b
        BY <1>4, <4>1
      <4>4. off + n + b <= HeaderSize + m
        BY <1>1, <1>3, <1>9, <4>1, <4>2, SMTT(30)
      <4> HIDE DEF off
      <4>5. off \in Nat
        BY <1>4
      <4>6. PICK o \in Nat : o = off
        BY <4>5
      <4>7. o + n + b <= HeaderSize + m
        BY <4>4, <4>6
      <4>8. (o + b) + n <= HeaderSize + m
        <5>1. \A x, y, z \in Nat : (x + y) + z = x + z + y
          OBVIOUS
        <5>2. (o + b) + n = o + n + b
          BY <1>n, <5>1
        <5> QED BY <4>7, <5>2
      <4> QED BY <4>1, <4>3, <4>6, <4>8
    <3>5. Taken(reader) + i = off + j
      BY <1>3, <1>4, <3>2, <1>10, <1>1
    <3> QED BY <1>7, <3>3, <3>4, <3>5
  <2> QED BY <2>1, <2>2
<1>12. /\ Len(buffer) <= reader.expected /\ r = [reader EXCEPT !.buffer = buffer] /\ r.buffer = buffer /\ r.expected = reader.expected
       /\ r.headerDone = reader.headerDone /\ r.max = reader.max /\ r.busy = TRUE /\ r.failed = FALSE
       /\ r \in [busy : BOOLEAN, buffer : Seq(Byte), expected : Nat, headerDone : BOOLEAN,
                 max : Nat, failed : BOOLEAN]
  <2>1. Len(r.buffer) <= r.expected
    BY DEF on_read
  <2> HIDE DEF piece
  <2>2. r = [reader EXCEPT !.buffer = buffer]
    BY <1>3
  <2> HIDE DEF buffer
  <2>3. r.buffer = buffer /\ r.expected = reader.expected
    BY <1>3, <2>2
  <2> QED BY <1>1, <1>3, <1>10, <2>1, <2>2, <2>3
<1>13. /\ CASE Len(r.buffer) < r.expected -> reader' = r /\ got' = got
            [] Len(r.buffer) = r.expected /\ r.headerDone -> complete(r, "none")
            [] OTHER -> on_header(r)
  BY DEF on_read
\* The stream after the read, for a reader that is still at the frame or is done with it.
<1>14. \E e : Placed(e, k, Taken(reader) + n, stream', sent')
  <2>1. ends[k] = n - (Taken(reader) + n)
    BY <1>1, <1>4, <1>6 DEF Placed
  <2>2. k \in 0..Len(sent) /\ k \in k..Len(sent) /\ Taken(reader) + n \in Nat
    BY <1>1, <1>3, <1>4
  <2>3. Placed([i \in 0..Len(sent) |-> ends[i] - n], k, Taken(reader) + n, rest, sent)
    BY <1>1, <1>4, <1>6, <2>1, <2>2, MovesUp
  <2> QED BY <1>2, <2>3
<1>15. ASSUME Taken(reader) + n = HeaderSize + Len(sent[k + 1])
       PROVE  \E e : Placed(e, k + 1, 0, stream', sent')
  <2>1. ends[k + 1] = n - 0
    <3>1. PICK t \in Nat, m \in Nat : t = Taken(reader) /\ m = Len(sent[k + 1])
      BY <1>4, <1>8
    <3>2. ends[k + 1] = HeaderSize + m - t /\ t + n = HeaderSize + m
      BY <1>7, <1>15, <3>1
    <3>3. HeaderSize + m - t = n - 0
      BY <1>n, <3>1, <3>2, SMTT(30)
    <3> QED BY <3>2, <3>3
  <2>2. k \in 0..Len(sent) /\ k + 1 \in k..Len(sent) /\ 0 \in Nat
    BY <1>3, <1>7
  <2>3. Placed([i \in 0..Len(sent) |-> ends[i] - n], k + 1, 0, rest, sent)
    BY <1>1, <1>4, <1>6, <2>1, <2>2, MovesUp
  <2> QED BY <1>2, <2>3
<1> HIDE DEF off, buffer, piece, rest, r
<1> DEFINE Whole == [busy : BOOLEAN, buffer : Seq(Byte), expected : Nat, headerDone : BOOLEAN,
                     max : Nat, failed : BOOLEAN]
<1>16. got \in Seq(Received) /\ sent \in Seq(Payloads)
  BY <1>1 DEF FramingTypes
\* What a step that hands g to the receive handler has to show.
<1>17. ASSUME NEW g \in Received, got' = Append(got, g), reader' \in Whole,
              ~reader'.busy, reader'.max = reader.max,
              g.ec = "none" => g.payload = sent[k + 1],
              g.ec # "none" => g.ec = "invalid_record" /\ Len(sent[k + 1]) > reader.max,
              ~reader'.failed => g.ec = "none" /\ Taken(reader) + n = HeaderSize + Len(sent[k + 1])
       PROVE  FramingInv'
  <2>1. /\ got' \in Seq(Received) /\ Len(got') = k + 1 /\ got'[k + 1] = g
        /\ \A i \in 1..k : got'[i] = got[i]
    BY <1>16, <1>17
  <2>2. FramingTypes'
    BY <1>1, <1>2, <1>17, <2>1 DEF FramingTypes
  <2>3. FramesKept'
    <3>1. ASSUME NEW i \in 1..Len(got')
          PROVE  /\ got'[i].ec = "none" => i <= Len(sent') /\ got'[i].payload = sent'[i]
                 /\ got'[i].ec # "none" => i = Len(got')
                 /\ got'[i].ec = "invalid_record" => i <= Len(sent') /\ Len(sent'[i]) > reader'.max
                 /\ got'[i].ec # "stream"
      <4>1. CASE i = k + 1
        <5>1. got'[i] = g /\ i <= Len(sent') /\ sent'[i] = sent[k + 1] /\ i = Len(got')
          BY <1>2, <1>3, <1>7, <2>1, <4>1
        <5> QED BY <1>17, <5>1
      <4>2. CASE i # k + 1
        <5>1. i \in 1..k /\ i \in 1..Len(got)
          BY <1>3, <2>1, <4>2
        <5>2. got'[i] = got[i] /\ got[i].ec = "none"
          BY <1>1, <2>1, <5>1
        <5>3. got[i].payload = sent[i] /\ i <= Len(sent)
          BY <5>1, <5>2 DEF FramingInv, FramesKept
        <5> QED BY <1>2, <5>2, <5>3
      <4> QED BY <4>1, <4>2
    <3> QED BY <3>1 DEF FramesKept
  <2>4. ASSUME ~reader'.failed
        PROVE  /\ Len(got') <= Len(sent') /\ \A i \in 1..Len(got') : got'[i].ec = "none"
               /\ ReaderAt(reader', Len(got'), sent')
               /\ \E e : Placed(e, Len(got'), Taken(reader'), stream', sent')
    <3>4. Len(got') <= Len(sent')
      BY <1>2, <1>3, <1>7, <2>1
    <3>1. \A i \in 1..Len(got') : got'[i].ec = "none"
      <4> TAKE i \in 1..Len(got')
      <4>1. i = k + 1 \/ i \in 1..k
        BY <1>3, <2>1
      <4> QED BY <1>1, <1>17, <2>1, <2>4, <4>1
    <3>2. ReaderAt(reader', Len(got'), sent')
      BY <1>17 DEF ReaderAt
    <3>3. Taken(reader') = 0
      BY <1>17 DEF Taken
    <3> QED BY <1>15, <1>17, <2>1, <2>4, <3>1, <3>2, <3>3, <3>4
  <2> QED BY <1>17, <2>2, <2>3, <2>4 DEF FramingInv
\* And one that goes on with the frame.
<1>18. ASSUME got' = got, reader' \in Whole, reader'.busy, ~reader'.failed, reader'.max = reader.max,
              Taken(reader') = Taken(reader) + n, ReaderAt(reader', k, sent)
       PROVE  FramingInv'
  <2>1. FramingTypes'
    BY <1>1, <1>2, <1>18 DEF FramingTypes
  <2>2. FramesKept'
    BY <1>2, <1>18 DEF FramingInv, FramesKept
  <2> QED BY <1>1, <1>2, <1>14, <1>18, <2>1, <2>2 DEF FramingInv
<1>19. CASE Len(buffer) < reader.expected
  <2>0. Len(r.buffer) < r.expected
    BY <1>12, <1>19
  <2>1. reader' = r /\ got' = got
    <3>1. Len(r.buffer) # r.expected
      <4>1. PICK a \in Nat, b \in Nat : a = Len(r.buffer) /\ b = r.expected
        BY <1>3, <1>10, <1>12
      <4> QED BY <2>0, <4>1
    <3> QED BY <1>13, <2>0, <3>1
  <2>2. Taken(r) = off + Len(buffer) /\ Len(buffer) \in Nat
    <3>1. off = IF reader.headerDone THEN HeaderSize ELSE 0
      BY DEF off
    <3>2. Len(buffer) \in Nat
      BY <1>10
    <3> QED BY <1>12, <3>1, <3>2 DEF Taken
  <2>3. Taken(r) = Taken(reader) + n
    <3>1. PICK b \in Nat : b = Len(reader.buffer)
      BY <1>3
    <3>2. Len(buffer) = b + n /\ Taken(reader) = off + b /\ off \in Nat
      BY <1>4, <1>10, <3>1
    <3>3. off + (b + n) = (off + b) + n
      BY <1>1, <3>1, <3>2
    <3> QED BY <2>2, <3>2, <3>3
  <2>4. \A j \in 1..Len(buffer) : buffer[j] = frame[IF r.headerDone THEN HeaderSize + j ELSE j]
    <3> TAKE j \in 1..Len(buffer)
    <3>1. buffer[j] = frame[off + j]
      BY <1>11, <1>12
    <3>2. (IF r.headerDone THEN HeaderSize + j ELSE j) = off + j
      BY <1>10, <1>12 DEF off
    <3> QED BY <3>1, <3>2
  <2>5. ReaderAt(r, k, sent)
    BY <1>7, <1>9, <1>12, <1>19, <2>4 DEF ReaderAt
  <2> QED BY <1>12, <1>18, <2>1, <2>3, <2>5
<1>20. CASE Len(buffer) = reader.expected /\ reader.headerDone
  <2>1. complete(r, "none")
    <3>1. ~(Len(buffer) < reader.expected)
      BY <1>3, <1>20
    <3> QED BY <1>12, <1>13, <1>20, <3>1
  <2> DEFINE g == [ec |-> "none", payload |-> buffer]
  <2>2. reader' = [r EXCEPT !.busy = FALSE, !.failed = FALSE, !.buffer = <<>>] /\ got' = Append(got, g)
    BY <1>12, <2>1 DEF complete
  <2>3. buffer = sent[k + 1]
    <3>1. off = HeaderSize /\ Len(buffer) = Len(sent[k + 1])
      BY <1>9, <1>20 DEF off
    <3>2. \A j \in 1..Len(buffer) : buffer[j] = sent[k + 1][j]
      BY <1>8, <1>11, <1>20, <1>12, <3>1
    <3> QED BY <1>8, <1>10, <3>1, <3>2, SMTT(30)
  <2>4. g \in Received /\ g.ec = "none" /\ g.payload = sent[k + 1]
    BY <1>10, <2>3 DEF Received
  <2>5. reader' \in Whole /\ ~reader'.busy /\ ~reader'.failed /\ reader'.max = reader.max
    <3>1. r \in Whole /\ r.max = reader.max /\ <<>> \in Seq(Byte)
      BY <1>12
    <3> HIDE DEF r, g
    <3> QED BY <2>2, <3>1
  <2>6. Taken(reader) + n = HeaderSize + Len(sent[k + 1])
    <3>1. PICK b \in Nat, m \in Nat : b = Len(reader.buffer) /\ m = Len(sent[k + 1])
      BY <1>3, <1>8
    <3>2. b + n = m /\ Taken(reader) = HeaderSize + b
      BY <1>4, <1>9, <1>10, <1>20, <3>1 DEF off
    <3>3. (HeaderSize + b) + n = HeaderSize + (b + n)
      BY <1>n, <3>1
    <3> QED BY <3>1, <3>2, <3>3
  <2> HIDE DEF g
  <2> QED BY <1>17, <2>2, <2>4, <2>5, <2>6
<1>21. CASE Len(buffer) = reader.expected /\ ~reader.headerDone
  <2>1. on_header(r)
    <3>1. ~(Len(buffer) < reader.expected)
      BY <1>3, <1>21
    <3> QED BY <1>12, <1>13, <1>21, <3>1
  <2>2. off = 0 /\ Len(buffer) = HeaderSize
    BY <1>9, <1>21 DEF off
  <2>3. PICK m \in 0..MaxFrame : m = Len(sent[k + 1])
    BY <1>8
  <2>4. decode_frame_length(buffer) = m
    <3>1. \A i \in 1..HeaderSize : buffer[i] = shifted(m)[HeaderSize - i] % Base
      <4> TAKE i \in 1..HeaderSize
      <4>1. buffer[i] = frame[0 + i] /\ 0 + i = i
        BY <1>3, <1>11, <1>12, <2>2
      <4> QED BY <1>8, <2>3, <4>1
    <3>2. buffer \in Seq(0..Base - 1)
      BY <1>10 DEF Byte
    <3> QED BY <2>2, <2>3, <3>1, <3>2, HeaderDecodes
  <2>5. Taken(reader) + n = HeaderSize
    <3>1. PICK b \in Nat : b = Len(reader.buffer)
      BY <1>3
    <3>2. Taken(reader) = 0 + b /\ b + n = HeaderSize
      BY <1>4, <1>10, <2>2, <3>1
    <3> QED BY <3>1, <3>2
  <2>6. m \in Nat
    BY <2>3, FramingAssumption
  <2> DEFINE body == [r EXCEPT !.headerDone = TRUE, !.expected = m, !.buffer = <<>>]
  <2>7. IF m > reader.max THEN complete(r, "invalid_record")
        ELSE IF m = 0 THEN complete(body, "none")
        ELSE reader' = body /\ got' = got
    BY <1>12, <2>1, <2>4 DEF on_header
  <2>8. /\ body \in Whole /\ body.busy = TRUE /\ body.failed = FALSE /\ body.max = reader.max /\ body.buffer = <<>>
        /\ body.expected = m /\ body.headerDone = TRUE
    <3>1. r \in Whole /\ r.max = reader.max /\ r.busy = TRUE /\ r.failed = FALSE /\ <<>> \in Seq(Byte)
      BY <1>12
    <3> QED BY <2>6, <3>1
  <2>9. CASE m > reader.max
    <3> DEFINE g == [ec |-> "invalid_record", payload |-> <<>>]
    <3>1. reader' = [r EXCEPT !.busy = FALSE, !.failed = TRUE, !.buffer = r.buffer] /\ got' = Append(got, g)
      BY <2>7, <2>9 DEF complete
    <3>2. g \in Received /\ g.ec = "invalid_record"
      BY DEF Received
    <3>3. reader' \in Whole /\ ~reader'.busy /\ reader'.failed /\ reader'.max = reader.max
      BY <1>10, <1>12, <3>1
    <3> HIDE DEF g
    <3> QED BY <1>17, <2>3, <2>9, <3>1, <3>2, <3>3
  <2>10. CASE ~(m > reader.max) /\ m = 0
    <3> DEFINE g == [ec |-> "none", payload |-> body.buffer]
    <3>1. reader' = [body EXCEPT !.busy = FALSE, !.failed = FALSE, !.buffer = <<>>] /\ got' = Append(got, g)
      BY <2>7, <2>10 DEF complete
    <3>2. sent[k + 1] = <<>>
      <4>1. sent[k + 1] \in Seq(Byte) /\ Len(sent[k + 1]) = 0
        BY <1>8, <2>3, <2>10
      <4> QED BY <4>1
    <3> HIDE DEF body
    <3>3. g \in Received /\ g.ec = "none" /\ g.payload = sent[k + 1]
      BY <2>8, <3>2 DEF Received
    <3>4. reader' \in Whole /\ ~reader'.busy /\ ~reader'.failed /\ reader'.max = reader.max
      BY <2>8, <3>1
    <3>5. Taken(reader) + n = HeaderSize + Len(sent[k + 1])
      BY <1>3, <2>3, <2>5, <2>10
    <3> HIDE DEF g
    <3> QED BY <1>17, <3>1, <3>3, <3>4, <3>5
  <2>11. CASE ~(m > reader.max) /\ m # 0
    <3>1. reader' = body /\ got' = got
      BY <2>7, <2>11
    <3> HIDE DEF body
    <3>2. Taken(body) = HeaderSize
      <4>1. Len(body.buffer) = 0
        BY <2>8
      <4> QED BY <1>3, <2>8, <4>1 DEF Taken
    <3>3. ReaderAt(body, k, sent)
      <4>1. Len(body.buffer) = 0 /\ m > 0
        BY <2>6, <2>8, <2>11
      <4> QED BY <1>7, <2>3, <2>8, <4>1 DEF ReaderAt
    <3> QED BY <1>18, <2>5, <2>8, <3>1, <3>2, <3>3
  <2> QED BY <2>9, <2>10, <2>11
<1>22. Len(buffer) < reader.expected \/ Len(buffer) = reader.expected
  BY <1>3, <1>10, <1>12
<1> QED BY <1>19, <1>20, <1>21, <1>22

LEMMA ReaderSteps ==
    FramingInv /\ (async_receive_frame \/ ReceiveWhileBusy \/ set_max_frame_size \/ UNCHANGED frVars) => FramingInv'
<1> SUFFICES ASSUME FramingInv PROVE
        async_receive_frame \/ ReceiveWhileBusy \/ set_max_frame_size \/ UNCHANGED frVars => FramingInv'
  OBVIOUS
<1>1. /\ FramingTypes /\ HeaderSize \in Nat /\ HeaderSize > 0 /\ MaxFrame \in Nat
      /\ reader \in [busy : BOOLEAN, buffer : Seq(Byte), expected : Nat, headerDone : BOOLEAN,
                     max : Nat, failed : BOOLEAN]
  BY FramingAssumption DEF FramingInv, FramingTypes
<1>2. ASSUME async_receive_frame PROVE FramingInv'
  <2>1. /\ ~reader.failed /\ ~reader.busy /\ stream' = stream /\ sent' = sent /\ got' = got /\ ended' = ended
        /\ reader' = [reader EXCEPT !.busy = TRUE, !.buffer = <<>>, !.expected = HeaderSize, !.headerDone = FALSE]
        /\ <<>> \in Seq(Byte)
    BY <1>2 DEF async_receive_frame
  <2>2. /\ reader'.busy /\ reader'.buffer = <<>> /\ reader'.expected = HeaderSize /\ ~reader'.headerDone
        /\ ~reader'.failed /\ reader'.max = reader.max
        /\ reader' \in [busy : BOOLEAN, buffer : Seq(Byte), expected : Nat, headerDone : BOOLEAN,
                        max : Nat, failed : BOOLEAN]
    BY <1>1, <2>1
  <2>3. Taken(reader') = 0 /\ Taken(reader) = 0 /\ Len(reader'.buffer) = 0
    BY <2>1, <2>2 DEF Taken
  <2>4. FramingTypes'
    BY <1>1, <2>1, <2>2 DEF FramingTypes
  <2>5. FramesKept'
    BY <2>1, <2>2 DEF FramesKept, FramingInv
  <2>6. ReaderAt(reader', Len(got), sent)
    BY <1>1, <2>2, <2>3 DEF ReaderAt
  <2> QED BY <2>1, <2>2, <2>3, <2>4, <2>5, <2>6 DEF FramingInv
<1>3. ASSUME ReceiveWhileBusy \/ UNCHANGED frVars PROVE FramingInv'
  <2>1. stream' = stream /\ sent' = sent /\ got' = got /\ reader' = reader /\ ended' = ended
    BY <1>3 DEF ReceiveWhileBusy, frVars
  <2>2. FramingTypes' /\ FramesKept'
    BY <2>1 DEF FramingInv, FramingTypes, FramesKept
  <2> QED BY <2>1, <2>2 DEF FramingInv
<1>4. ASSUME set_max_frame_size PROVE FramingInv'
  <2>1. /\ ~reader.failed /\ ~reader.busy /\ stream' = stream /\ sent' = sent /\ got' = got /\ ended' = ended
        /\ reader' = [reader EXCEPT !.max = MaxFrame]
    BY <1>4 DEF set_max_frame_size
  <2>2. /\ ~reader'.busy /\ ~reader'.failed
        /\ reader' \in [busy : BOOLEAN, buffer : Seq(Byte), expected : Nat, headerDone : BOOLEAN,
                        max : Nat, failed : BOOLEAN]
    <3>1. MaxFrame \in Nat /\ reader \in [busy : BOOLEAN, buffer : Seq(Byte), expected : Nat, headerDone : BOOLEAN,
                                          max : Nat, failed : BOOLEAN]
      BY <1>1
    <3> QED BY <2>1, <3>1
  <2>3. Taken(reader') = 0 /\ Taken(reader) = 0 /\ ReaderAt(reader', Len(got), sent)
    BY <2>1, <2>2 DEF Taken, ReaderAt
  <2>4. FramingTypes'
    BY <1>1, <2>1, <2>2 DEF FramingTypes
  <2>5. FramesKept'
    BY <2>1 DEF FramesKept, FramingInv
  <2> QED BY <2>1, <2>2, <2>3, <2>4, <2>5 DEF FramingInv
<1> QED BY <1>2, <1>3, <1>4

\* A stream that was closed in order and is read to its end stands between two frames.
LEMMA EndsAtFrame ==
    ASSUME FramingInv, ~reader.failed, reader.busy, stream = <<>>
    PROVE  Len(got) = Len(sent)
<1> DEFINE k == Len(got)
<1>1. /\ FramingTypes /\ k \in Nat /\ Len(sent) \in Nat /\ k <= Len(sent) /\ HeaderSize \in Nat /\ HeaderSize > 0
      /\ Len(stream) = 0 /\ ReaderAt(reader, k, sent)
  BY FramingAssumption DEF FramingInv, FramingTypes
<1>2. PICK ends : Placed(ends, k, Taken(reader), stream, sent)
  BY DEF FramingInv
<1>3. PICK b \in Nat : b = Len(reader.buffer)
  BY <1>1 DEF FramingTypes
<1>4. ASSUME k # Len(sent) PROVE FALSE
  <2>1. k + 1 \in k + 1..Len(sent) /\ (k + 1) - 1 = k /\ k + 1 \in 1..Len(sent)
    BY <1>1, <1>4
  <2>2. PICK m \in Nat : m = Len(sent[k + 1])
    <3>1. sent[k + 1] \in Payloads
      BY <1>1, <2>1 DEF FramingTypes
    <3> QED BY <3>1, Encoded
  <2>3. ends[k] = -Taken(reader)
    BY <1>2 DEF Placed
  <2>4. ends[k + 1] = ends[k] + HeaderSize + m /\ ends[k + 1] <= 0
    <3>1. PICK i : i = k + 1 /\ i \in k + 1..Len(sent) /\ i - 1 = k
      BY <2>1
    <3>2. ends[i] = ends[i - 1] + HeaderSize + Len(sent[i]) /\ ends[i] <= Len(stream)
      BY <1>2, <3>1 DEF Placed
    <3> QED BY <1>1, <2>2, <3>1, <3>2
  <2>7. PICK h \in Nat : h = HeaderSize /\ h > 0
    BY <1>1
  <2>5. CASE reader.headerDone
    <3>1. b < m /\ Taken(reader) = h + b
      BY <1>1, <1>3, <2>2, <2>5, <2>7 DEF ReaderAt, Taken
    <3>2. ends[k + 1] = -(h + b) + h + m
      BY <2>3, <2>4, <2>7, <3>1
    <3>3. -(h + b) + h + m > 0
      BY <3>1
    <3> QED BY <2>4, <3>2, <3>3
  <2>6. CASE ~reader.headerDone
    <3>1. b < h /\ Taken(reader) = b
      BY <1>1, <1>3, <2>6, <2>7 DEF ReaderAt, Taken
    <3>2. ends[k + 1] = -b + h + m
      BY <2>3, <2>4, <2>7, <3>1
    <3>3. -b + h + m > 0
      BY <3>1
    <3> QED BY <2>4, <3>2, <3>3
  <2> QED BY <2>5, <2>6
<1> QED BY <1>4

LEMMA EndSteps == FramingInv /\ (stream_ends \/ read_failed) => FramingInv'
<1>1. ASSUME FramingInv, stream_ends PROVE FramingInv'
  <2>1. /\ stream' = stream /\ sent' = sent /\ got' = got /\ reader' = reader
        /\ ended = "no" /\ ended' \in {"closed", "error"}
    BY <1>1 DEF stream_ends
  <2>2. FramingTypes' /\ FramesKept'
    BY <1>1, <2>1 DEF FramingInv, FramingTypes, FramesKept
  <2> QED BY <1>1, <2>1, <2>2 DEF FramingInv
<1>2. ASSUME FramingInv, read_failed PROVE FramingInv'
  <2> DEFINE k == Len(got)  g == [ec |-> "stream", payload |-> <<>>]
  <2>1. /\ stream' = stream /\ sent' = sent /\ ended' = ended /\ reader.busy /\ StreamFails
        /\ reader' = [reader EXCEPT !.busy = FALSE, !.failed = TRUE, !.buffer = @]
        /\ got' = Append(got, g)
    BY <1>2 DEF read_failed, complete
  <2>2. FramingTypes /\ ~reader.failed /\ k \in Nat /\ Len(sent) \in Nat /\ got \in Seq(Received)
    BY <1>2, <2>1 DEF FramingInv, FramingTypes
  <2>3. \A i \in 1..k : got[i].ec = "none" /\ i <= Len(sent) /\ got[i].payload = sent[i]
    BY <1>2, <2>2 DEF FramingInv, FramesKept
  <2>4. /\ reader' \in [busy : BOOLEAN, buffer : Seq(Byte), expected : Nat, headerDone : BOOLEAN,
                         max : Nat, failed : BOOLEAN]
        /\ ~reader'.busy /\ reader'.failed
    <3>1. reader \in [busy : BOOLEAN, buffer : Seq(Byte), expected : Nat, headerDone : BOOLEAN,
                      max : Nat, failed : BOOLEAN]
      BY <2>2 DEF FramingTypes
    <3> QED BY <2>1, <3>1
  <2>5. g \in Received /\ g.ec = "stream"
    BY DEF Received
  <2> HIDE DEF g
  <2>6. /\ got' \in Seq(Received) /\ Len(got') = k + 1 /\ got'[k + 1] = g
        /\ \A i \in 1..k : got'[i] = got[i]
    BY <2>1, <2>2, <2>5
  <2>7. FramingTypes'
    BY <2>1, <2>2, <2>4, <2>6 DEF FramingTypes
  <2>8. ended = "error" \/ (ended = "closed" /\ k + 1 = Len(sent) + 1)
    BY <1>2, <2>1, <2>2, EndsAtFrame DEF StreamFails
  <2>9. FramesKept'
    <3>1. \A i \in 1..Len(got') : i = k + 1 \/ (i \in 1..k /\ i # k + 1)
      BY <2>2, <2>6
    <3> QED BY <2>1, <2>3, <2>5, <2>6, <2>8, <3>1 DEF FramesKept
  <2> QED BY <2>4, <2>7, <2>9 DEF FramingInv
<1> QED BY <1>1, <1>2

\* However the bytes of the stream are cut, for any payloads and any numbers of frames and reads: what
\* the handlers of frame_reader were called with is what async_send_frame was given, frame by frame and
\* in order, and only the last receive fails: for a frame over the cap in force, or where the stream
\* ended, which is past the last frame if the sender closed it (network/encryption/framing.cpp).
THEOREM FramesAreKept == FramingSpec => []FramesKept
<1>1. FramingInv /\ [FramingNext]_frVars => FramingInv'
  BY SendStep, ReadStep, ReaderSteps, EndSteps DEF FramingNext
<1>2. FramingInv => FramesKept
  BY DEF FramingInv
<1> QED BY FramingInit0, <1>1, <1>2, PTL DEF FramingSpec
-----------------------------------------------------------------------------
(* CertificateChain: host names.                                           *)
Names == Seq(STRING)

\* The letters of y, in either case, end x.
Ends(x, y) ==
    /\ Len(y) <= Len(x)
    /\ \A i \in 1..Len(y) : Lower(x[Len(x) - Len(y) + i]) = Lower(y[i])

\* What is_subset_of and Below come to.
Under(x, y) ==
    \/ y = <<>>
    \/ Ends(x, y) /\ (Len(x) = Len(y) \/ y[1] = "." \/ x[Len(x) - Len(y)] = ".")

LEMMA LowerDot == \A c : (Lower(c) = "." <=> c = ".") /\ Lower(Lower(c)) = Lower(c)
BY DEF Lower

LEMMA LowerName ==
    ASSUME NEW x \in Names
    PROVE  /\ to_lower(x) \in Seq({Lower(x[i]) : i \in 1..Len(x)}) /\ Len(to_lower(x)) = Len(x)
           /\ \A i \in 1..Len(x) : to_lower(x)[i] = Lower(x[i])
<1>1. PICK n \in Nat : n = Len(x) /\ DOMAIN x = 1..n
  BY DEF Names
<1>2. to_lower(x) = [i \in 1..n |-> Lower(x[i])]
  BY <1>1 DEF to_lower
<1> QED BY <1>1, <1>2

LEMMA SequenceOf ==
    ASSUME NEW S, NEW n \in Nat, NEW r \in [1..n -> S]
    PROVE  r \in Seq(S) /\ Len(r) = n
<1>1. r \in Seq(S)
  OBVIOUS
<1>2. DOMAIN r = 1..n
  OBVIOUS
<1> QED BY <1>1, <1>2

\* The elements of s end t.
EndsIn(s, t) == Len(s) <= Len(t) /\ \A i \in 1..Len(s) : t[Len(t) - Len(s) + i] = s[i]

LEMMA SuffixMeans ==
    ASSUME NEW S, NEW T, NEW s \in Seq(S), NEW t \in Seq(T)
    PROVE  IsSuffix(s, t) <=> EndsIn(s, t)
<1>1. PICK m \in Nat : m = Len(s) /\ DOMAIN s = 1..m
  OBVIOUS
<1>2. PICK n \in Nat : n = Len(t) /\ DOMAIN t = 1..n
  OBVIOUS
<1>3. PICK r : r = Reverse(s)
  OBVIOUS
<1>4. PICK q : q = Reverse(t)
  OBVIOUS
<1>5. r = [i \in 1..m |-> s[(m - i) + 1]] /\ q = [i \in 1..n |-> t[(n - i) + 1]]
  BY <1>1, <1>2, <1>3, <1>4 DEF Reverse
<1>6. \A i \in 1..m : (m - i) + 1 \in 1..m
  BY <1>1
<1>7. \A i \in 1..n : (n - i) + 1 \in 1..n
  BY <1>2
<1>8. r \in Seq(S) /\ q \in Seq(T) /\ Len(r) = m /\ Len(q) = n
  <2>1. \A i \in 1..m : s[(m - i) + 1] \in S
    BY <1>1, <1>6
  <2>2. \A i \in 1..n : t[(n - i) + 1] \in T
    BY <1>2, <1>7
  <2>3. r \in [1..m -> S] /\ q \in [1..n -> T]
    BY <1>5, <2>1, <2>2
  <2> QED BY <2>3, SequenceOf
<1>9. IsSuffix(s, t) <=> m <= n /\ SubSeq(r, 1, m) = SubSeq(q, 1, m)
  BY <1>3, <1>4, <1>8 DEF IsSuffix, IsPrefix
<1>10. ASSUME m <= n
       PROVE  SubSeq(r, 1, m) = SubSeq(q, 1, m) <=> \A i \in 1..m : t[n - m + i] = s[i]
  <2>1. SubSeq(r, 1, m) = [i \in 1..m |-> s[(m - i) + 1]] /\ SubSeq(q, 1, m) = [i \in 1..m |-> t[(n - i) + 1]]
    <3>1. SubSeq(r, 1, m) = [i \in 1..m |-> r[i]] /\ SubSeq(q, 1, m) = [i \in 1..m |-> q[i]]
      <4>1. \A i \in 1..m : r[i] \in S /\ q[i] \in T
        BY <1>1, <1>2, <1>8, <1>10
      <4>2. m - 1 + 1 = m /\ \A i \in 1..m : 1 + i - 1 = i
        BY <1>1
      <4>3. \A i \in 1..m : SubSeq(r, 1, m)[i] = r[i] /\ SubSeq(q, 1, m)[i] = q[i]
        BY <1>1, <4>1, <4>2, SubSeqProperties
      <4>4. SubSeq(r, 1, m) \in Seq(S) /\ SubSeq(q, 1, m) \in Seq(T)
        BY <1>1, <4>1, SubSeqProperties
      <4>5. Len(SubSeq(r, 1, m)) = m /\ Len(SubSeq(q, 1, m)) = m
        BY <1>1, <4>1, <4>2, SubSeqProperties
      <4> QED BY <1>1, <4>3, <4>4, <4>5
    <3>2. \A i \in 1..m : r[i] = s[(m - i) + 1] /\ q[i] = t[(n - i) + 1]
      BY <1>1, <1>2, <1>5, <1>10
    <3> QED BY <3>1, <3>2
  <2>2. SubSeq(r, 1, m) = SubSeq(q, 1, m) <=> \A i \in 1..m : s[(m - i) + 1] = t[(n - i) + 1]
    BY <2>1
  <2>3. (\A i \in 1..m : s[(m - i) + 1] = t[(n - i) + 1]) <=> \A i \in 1..m : t[n - m + i] = s[i]
    <3>1. ASSUME \A i \in 1..m : s[(m - i) + 1] = t[(n - i) + 1], NEW i \in 1..m PROVE t[n - m + i] = s[i]
      <4>1. (m - i) + 1 \in 1..m /\ (m - ((m - i) + 1)) + 1 = i /\ (n - ((m - i) + 1)) + 1 = n - m + i
        BY <1>1, <1>2
      <4> QED BY <3>1, <4>1
    <3>2. ASSUME \A i \in 1..m : t[n - m + i] = s[i], NEW i \in 1..m PROVE s[(m - i) + 1] = t[(n - i) + 1]
      <4>1. (m - i) + 1 \in 1..m /\ n - m + ((m - i) + 1) = (n - i) + 1
        BY <1>1, <1>2
      <4> QED BY <3>2, <4>1
    <3> QED BY <3>1, <3>2
  <2> QED BY <2>2, <2>3
<1> QED BY <1>1, <1>2, <1>9, <1>10 DEF EndsIn

\* is_subset_of is Under.
LEMMA SubsetIsUnder ==
    ASSUME NEW x \in Names, NEW y \in Names
    PROVE  is_subset_of(x, y) <=> Under(x, y)
<1>1. CASE y = <<>>
  BY <1>1 DEF is_subset_of, Under
<1>2. CASE y # <<>>
  <2>1. PICK m \in Nat : m = Len(y) /\ m >= 1
    BY <1>2 DEF Names
  <2>2. PICK n \in Nat : n = Len(x)
    BY DEF Names
  <2>3. PICK o, S : o = to_lower(y) /\ o \in Seq(S) /\ Len(o) = m /\ \A i \in 1..m : o[i] = Lower(y[i])
    BY LowerName, <2>1
  <2>4. PICK l, T : l = to_lower(x) /\ l \in Seq(T) /\ Len(l) = n /\ \A i \in 1..n : l[i] = Lower(x[i])
    BY LowerName, <2>2
  <2>5. l = o <=> n = m /\ \A i \in 1..m : l[i] = o[i]
    BY <2>3, <2>4
  <2>6. Ends(x, y) <=> m <= n /\ \A i \in 1..m : l[n - m + i] = o[i]
    <3>1. ASSUME m <= n, NEW i \in 1..m PROVE n - m + i \in 1..n
      BY <3>1, <2>1, <2>2
    <3> QED BY <2>1, <2>2, <2>3, <2>4, <3>1 DEF Ends
  <2>7. o[1] = "." <=> y[1] = "."
    BY <2>1, <2>3, LowerDot
  <2>8. IsSuffix(o, l) <=> Ends(x, y)
    <3>1. IsSuffix(o, l) <=> EndsIn(o, l)
      BY <2>3, <2>4, SuffixMeans
    <3>2. EndsIn(o, l) <=> m <= n /\ \A i \in 1..m : l[n - m + i] = o[i]
      BY <2>3, <2>4 DEF EndsIn
    <3> QED BY <2>6, <3>1, <3>2
  <2>9. ASSUME y[1] # "." PROVE IsSuffix(<<".">> \o o, l) <=> Ends(x, y) /\ m < n /\ x[n - m] = "."
    <3>1. PICK d : d = <<".">> \o o
      OBVIOUS
    <3>2. d \in Seq(S \cup {"."}) /\ Len(d) = m + 1 /\ d[1] = "." /\ \A i \in 1..m : d[i + 1] = o[i]
      <4>1. <<".">> \in Seq(S \cup {"."}) /\ o \in Seq(S \cup {"."}) /\ Len(<<".">>) = 1 /\ <<".">>[1] = "."
        BY <2>3
      <4> QED BY <2>1, <2>3, <3>1, <4>1
    <3>3. IsSuffix(d, l) <=> m + 1 <= n /\ \A i \in 1..m + 1 : l[n - (m + 1) + i] = d[i]
      <4>1. IsSuffix(d, l) <=> EndsIn(d, l)
        BY <2>4, <3>2, SuffixMeans
      <4>2. EndsIn(d, l) <=> m + 1 <= n /\ \A i \in 1..m + 1 : l[n - (m + 1) + i] = d[i]
        BY <2>4, <3>2 DEF EndsIn
      <4> QED BY <4>1, <4>2
    <3>4. m + 1 <= n <=> m < n
      BY <2>1, <2>2
    <3>5. ASSUME m < n PROVE (\A i \in 1..m + 1 : l[n - (m + 1) + i] = d[i]) <=> l[n - m] = "." /\ \A i \in 1..m : l[n - m + i] = o[i]
      <4>1. ASSUME \A i \in 1..m + 1 : l[n - (m + 1) + i] = d[i] PROVE l[n - m] = "." /\ \A i \in 1..m : l[n - m + i] = o[i]
        <5>1. 1 \in 1..m + 1 /\ n - (m + 1) + 1 = n - m
          BY <2>1, <2>2
        <5>2. \A i \in 1..m : i + 1 \in 1..m + 1 /\ n - (m + 1) + (i + 1) = n - m + i
          BY <2>1, <2>2
        <5> QED BY <4>1, <5>1, <5>2, <3>2
      <4>2. ASSUME l[n - m] = ".", \A i \in 1..m : l[n - m + i] = o[i], NEW i \in 1..m + 1 PROVE l[n - (m + 1) + i] = d[i]
        <5>1. CASE i = 1
          <6>1. n - (m + 1) + i = n - m
            BY <5>1, <2>1, <2>2
          <6> QED BY <5>1, <6>1, <4>2, <3>2
        <5>2. CASE i # 1
          <6>1. PICK j \in 1..m : i = j + 1 /\ n - (m + 1) + i = n - m + j
            <7>1. i - 1 \in 1..m /\ i = (i - 1) + 1 /\ n - (m + 1) + i = n - m + (i - 1)
              BY <5>2, <2>1, <2>2
            <7> QED BY <7>1
          <6> QED BY <6>1, <4>2, <3>2
        <5> QED BY <5>1, <5>2
      <4> QED BY <4>1, <4>2
    <3>6. ASSUME m < n PROVE l[n - m] = "." <=> x[n - m] = "."
      <4>1. n - m \in 1..n
        BY <3>6, <2>1, <2>2
      <4> QED BY <4>1, <2>4, LowerDot
    <3>7. m < n => m <= n
      BY <2>1, <2>2
    <3> QED BY <3>1, <3>3, <3>4, <3>5, <3>6, <3>7, <2>6
  <2>10. is_subset_of(x, y) <=> \/ l = o
                                \/ y[1] = "." /\ IsSuffix(o, l)
                                \/ y[1] # "." /\ IsSuffix(<<".">> \o o, l)
    BY <1>2, <2>3, <2>4, <2>7 DEF is_subset_of
  <2>11. l = o <=> n = m /\ Ends(x, y)
    <3>1. n = m => m <= n /\ \A i \in 1..m : n - m + i = i
      BY <2>1, <2>2
    <3> QED BY <2>5, <2>6, <3>1
  <2>12. Ends(x, y) => n = m \/ m < n
    <3>1. Ends(x, y) => m <= n
      BY <2>6
    <3> QED BY <3>1, <2>1, <2>2
  <2>13. Under(x, y) <=> Ends(x, y) /\ (n = m \/ y[1] = "." \/ x[n - m] = ".")
    BY <1>2, <2>1, <2>2 DEF Under
  <2> QED BY <2>8, <2>9, <2>10, <2>11, <2>12, <2>13
<1> QED BY <1>1, <1>2

LEMMA BelowIsUnder ==
    ASSUME NEW x \in Names, NEW y \in Names
    PROVE  Below(x, y) <=> Under(x, y)
<1>1. CASE y = <<>>
  BY <1>1 DEF Below, Under
<1>2. CASE y # <<>>
  <2>1. PICK m \in Nat : m = Len(y) /\ m >= 1
    BY <1>2 DEF Names
  <2>2. PICK n \in Nat : n = Len(x)
    BY DEF Names
  <2>3. PICK o, S : o = to_lower(y) /\ o \in Seq(S) /\ Len(o) = m /\ \A i \in 1..m : o[i] = Lower(y[i])
    BY LowerName, <2>1
  <2>4. ASSUME NEW k \in 0..n
        PROVE  to_lower(SubSeq(x, k + 1, n)) = o <=> k = n - m /\ \A i \in 1..m : Lower(x[k + i]) = Lower(y[i])
    <3>1. PICK s : s = SubSeq(x, k + 1, n)
      OBVIOUS
    <3>2. s \in Names /\ Len(s) = n - k /\ \A i \in 1..n - k : s[i] = x[k + i]
      <4>1. n \in Int /\ k + 1 \in Int /\ n - (k + 1) + 1 = n - k /\ n - k \in Nat
        BY <2>2
      <4>2. \A i \in k + 1..n : x[i] \in STRING
        <5>1. \A i \in k + 1..n : i \in 1..n
          BY <2>2
        <5> QED BY <2>2, <5>1 DEF Names
      <4>3. \A i \in 1..n - k : (k + 1) + i - 1 = k + i
        BY <2>2
      <4>4. s \in Names
        BY <3>1, <4>1, <4>2, SubSeqProperties DEF Names
      <4>5. Len(s) = n - k
        <5>1. Len(s) = IF k + 1 <= n THEN n - (k + 1) + 1 ELSE 0
          BY <3>1, <4>1, <4>2, SubSeqProperties
        <5>2. ~(k + 1 <= n) => n - k = 0
          BY <2>2
        <5> QED BY <4>1, <5>1, <5>2
      <4>6. \A i \in 1..n - k : s[i] = x[k + i]
        <5>1. \A i \in 1..n - (k + 1) + 1 : s[i] = x[(k + 1) + i - 1]
          BY <3>1, <4>1, <4>2, SubSeqProperties
        <5> QED BY <4>1, <4>3, <5>1
      <4> QED BY <4>4, <4>5, <4>6
    <3>3. PICK l, T : l = to_lower(s) /\ l \in Seq(T) /\ Len(l) = n - k /\ \A i \in 1..n - k : l[i] = Lower(s[i])
      <4>1. PICK T : T = {Lower(s[i]) : i \in 1..Len(s)}
        OBVIOUS
      <4>2. to_lower(s) \in Seq(T) /\ Len(to_lower(s)) = Len(s)
            /\ \A i \in 1..Len(s) : to_lower(s)[i] = Lower(s[i])
        BY <3>2, <4>1, LowerName
      <4> QED BY <3>2, <4>2
    <3>4. l = o <=> n - k = m /\ \A i \in 1..m : l[i] = o[i]
      BY <2>3, <3>3
    <3>5. n - k = m <=> k = n - m
      BY <2>1, <2>2
    <3>6. n - k = m => \A i \in 1..m : l[i] = Lower(x[k + i]) /\ o[i] = Lower(y[i])
      BY <2>3, <3>2, <3>3
    <3> QED BY <3>1, <3>3, <3>4, <3>5, <3>6
  <2>5. Below(x, y) <=> \E k \in 0..n : /\ k = n - m /\ \A i \in 1..m : Lower(x[k + i]) = Lower(y[i])
                                        /\ k = 0 \/ x[k] = "." \/ y[1] = "."
    BY <1>2, <2>2, <2>3, <2>4 DEF Below
  <2>6. n - m \in 0..n <=> m <= n
    BY <2>1, <2>2
  <2>7. n - m = 0 <=> n = m
    BY <2>1, <2>2
  <2>8. Under(x, y) <=> /\ m <= n /\ \A i \in 1..m : Lower(x[n - m + i]) = Lower(y[i])
                        /\ n = m \/ y[1] = "." \/ x[n - m] = "."
    BY <1>2, <2>1, <2>2 DEF Under, Ends
  <2> QED BY <2>5, <2>6, <2>7, <2>8
<1> QED BY <1>1, <1>2

LEMMA UnderNests ==
    ASSUME NEW x \in Names, NEW y \in Names, NEW z \in Names, Under(x, y), Under(y, z)
    PROVE  Under(x, z)
<1>1. CASE z = <<>>
  BY <1>1 DEF Under
<1>2. CASE z # <<>>
  <2>1. PICK m \in Nat : m = Len(y)
    BY DEF Names
  <2>2. PICK n \in Nat : n = Len(x)
    BY DEF Names
  <2>3. PICK p \in Nat : p = Len(z) /\ p >= 1
    BY <1>2 DEF Names
  <2>4. /\ p <= m /\ \A i \in 1..p : Lower(y[m - p + i]) = Lower(z[i])
        /\ m = p \/ z[1] = "." \/ y[m - p] = "."
    BY <1>2, <2>1, <2>3 DEF Under, Ends
  <2>5. y # <<>>
    <3>1. Len(y) # 0
      BY <2>1, <2>3, <2>4
    <3> QED BY <3>1 DEF Names
  <2>6. /\ m <= n /\ \A i \in 1..m : Lower(x[n - m + i]) = Lower(y[i])
        /\ n = m \/ y[1] = "." \/ x[n - m] = "."
    BY <2>1, <2>2, <2>5 DEF Under, Ends
  <2>7. p <= n
    BY <2>1, <2>2, <2>3, <2>4, <2>6
  <2>8. ASSUME NEW i \in 1..p PROVE Lower(x[n - p + i]) = Lower(z[i])
    <3>1. m - p + i \in 1..m /\ n - m + (m - p + i) = n - p + i
      BY <2>1, <2>2, <2>3, <2>4, <2>6
    <3>2. Lower(x[n - m + (m - p + i)]) = Lower(y[m - p + i])
      BY <2>6, <3>1
    <3> QED BY <2>4, <3>1, <3>2
  <2>9. ASSUME n # p, z[1] # "." PROVE x[n - p] = "."
    <3>1. CASE m = p
      <4>1. 1 \in 1..p /\ m - p + 1 = 1
        BY <2>1, <2>3, <3>1
      <4>2. Lower(y[1]) = Lower(z[1])
        BY <4>1, <2>4
      <4>3. y[1] # "."
        BY <4>2, <2>9, LowerDot
      <4> QED BY <4>3, <2>6, <2>9, <3>1
    <3>2. CASE m # p
      <4>1. y[m - p] = "."
        BY <2>4, <2>9, <3>2
      <4>2. m - p \in 1..m /\ n - m + (m - p) = n - p
        BY <2>1, <2>2, <2>3, <2>4, <3>2
      <4>3. Lower(x[n - p]) = Lower(".")
        BY <4>1, <4>2, <2>6
      <4> QED BY <4>3, LowerDot
    <3> QED BY <3>1, <3>2
  <2> QED BY <2>2, <2>3, <2>7, <2>8, <2>9 DEF Under, Ends
<1> QED BY <1>1, <1>2

LEMMA NamesNest == HostsNest
<1>1. \A x \in HostNames : x \in Names
  BY ChainAssumption DEF Names
<1>2. SUFFICES ASSUME NEW x \in HostNames, NEW y \in HostNames, NEW z \in HostNames
               PROVE  /\ is_subset_of(x, y) <=> Below(x, y)
                      /\ is_subset_of(x, y) /\ is_subset_of(y, z) => is_subset_of(x, z)
                      /\ merge(x, y) # NoCert => is_subset_of(merge(x, y), x) /\ is_subset_of(merge(x, y), y)
  BY DEF HostsNest
<1>3. x \in Names /\ y \in Names /\ z \in Names
  BY <1>1
<1>4. is_subset_of(x, y) <=> Below(x, y)
  BY <1>3, SubsetIsUnder, BelowIsUnder
<1>5. is_subset_of(x, y) /\ is_subset_of(y, z) => is_subset_of(x, z)
  BY <1>3, SubsetIsUnder, UnderNests
<1>6. is_subset_of(x, x) /\ is_subset_of(y, y)
  BY DEF is_subset_of
<1>7. merge(x, y) # NoCert => is_subset_of(merge(x, y), x) /\ is_subset_of(merge(x, y), y)
  BY <1>6 DEF merge
<1> QED BY <1>4, <1>5, <1>7

-----------------------------------------------------------------------------
(* The certificates and the stores. *)
ChainSpec == ChainInit /\ [][ChainNext]_chainVars

Certificates ==
    [signer : Keys \cup {RootKey}, subject : Keys, type : {"key", "identifier"}, level : CaLevels,
     host : Names, revocation : {NoCert} \cup [id : Nat, by : Keys \cup {RootKey}]]

ChainInv ==
    /\ issued \in Seq(Certificates) /\ Len(issued) <= MaxCerts
    /\ store \in Seq({"absent", "plain", "revoked"}) /\ Len(store) = Len(issued)
    /\ refs \in [Keys -> SUBSET (1..Len(issued))]

LEMMA NoName == <<>> \in Names
<1>1. <<>> \in Seq(STRING)
  OBVIOUS
<1> QED BY <1>1 DEF Names

LEMMA CertificateMade ==
    ASSUME NEW signer \in Keys \cup {RootKey}, NEW subject \in Keys, NEW type \in {"key", "identifier"},
           NEW level \in CaLevels, NEW host \in Names, NEW attach, NEW known, ChainInv,
           create_certificate(signer, subject, type, level, host, attach, known)
    PROVE  ChainInv'
<1>1. PICK c : c = [signer |-> signer, subject |-> subject, type |-> type,
                    level |-> level, host |-> host, revocation |-> NoCert]
  OBVIOUS
<1>2. c \in Certificates
  BY <1>1 DEF Certificates
<1>3. PICK n \in Nat : n = Len(issued) /\ n < MaxCerts
  BY DEF ChainInv, create_certificate
<1>4. issued' = Append(issued, c)
  BY <1>1 DEF create_certificate
<1>5. issued' \in Seq(Certificates) /\ Len(issued') = n + 1
  BY <1>2, <1>3, <1>4 DEF ChainInv
<1>6. n + 1 <= MaxCerts
  BY <1>3, ChainAssumption
<1>7. PICK word : word \in {"absent", "plain", "revoked"} /\ store' = Append(store, word)
  BY DEF create_certificate
<1>8. store' \in Seq({"absent", "plain", "revoked"}) /\ Len(store') = n + 1
  BY <1>3, <1>7 DEF ChainInv
<1>9. refs' \in [Keys -> SUBSET (1..n + 1)]
  <2>1. \A i \in 1..n : i \in 1..n + 1
    BY <1>3
  <2>2. n + 1 \in 1..n + 1
    BY <1>3
  <2>3. refs \in [Keys -> SUBSET (1..n)]
    BY <1>3 DEF ChainInv
  <2>4. refs \in [Keys -> SUBSET (1..n + 1)] /\ \A k \in Keys : refs[k] \cup {n + 1} \in SUBSET (1..n + 1)
    BY <2>1, <2>2, <2>3
  <2>5. refs' = IF attach THEN [refs EXCEPT ![subject] = @ \cup {n + 1}] ELSE refs
    BY <1>3 DEF create_certificate
  <2> QED BY <2>4, <2>5
<1> QED BY <1>3, <1>5, <1>6, <1>8, <1>9 DEF ChainInv

LEMMA EntrySet ==
    ASSUME NEW S, NEW f \in Seq(S), NEW i \in 1..Len(f), NEW c \in S
    PROVE  [f EXCEPT ![i] = c] \in Seq(S) /\ Len([f EXCEPT ![i] = c]) = Len(f)
OBVIOUS

LEMMA CertificateRevoked ==
    ASSUME NEW id \in DOMAIN issued, NEW other \in DOMAIN issued, NEW by \in Keys \cup {RootKey}, NEW told,
           ChainInv, revoke_certificate(id, [id |-> other, by |-> by], told)
    PROVE  ChainInv'
<1>1. PICK n \in Nat : n = Len(issued) /\ id \in 1..n /\ other \in 1..n /\ n = Len(store) /\ n <= MaxCerts
  BY DEF ChainInv
<1>2. PICK rev : rev = [id |-> other, by |-> by]
  OBVIOUS
<1>3. PICK r : r = (IF told THEN NoCert ELSE rev) /\ issued' = [issued EXCEPT ![id].revocation = r]
  BY <1>2 DEF revoke_certificate
<1>4. r \in {NoCert} \cup [id : Nat, by : Keys \cup {RootKey}]
  BY <1>1, <1>2, <1>3
<1>5. PICK c : c = [issued[id] EXCEPT !.revocation = r]
  OBVIOUS
<1>6. issued[id] \in Certificates
  BY <1>1 DEF ChainInv
<1>7. c \in Certificates
  BY <1>4, <1>5, <1>6 DEF Certificates
<1>8. issued' = [issued EXCEPT ![id] = c]
  BY <1>3, <1>5
<1>9. issued' \in Seq(Certificates) /\ Len(issued') = n
  BY <1>1, <1>7, <1>8 DEF ChainInv
<1>10. store' \in Seq({"absent", "plain", "revoked"}) /\ Len(store') = n
  <2>1. store' = [store EXCEPT ![id] = "revoked"] \/ store' = store
    BY DEF revoke_certificate
  <2>2. PICK S : S = {"absent", "plain", "revoked"}
    OBVIOUS
  <2>3. store \in Seq(S) /\ "revoked" \in S
    BY <2>2 DEF ChainInv
  <2>4. [store EXCEPT ![id] = "revoked"] \in Seq(S) /\ Len([store EXCEPT ![id] = "revoked"]) = Len(store)
    BY <1>1, <2>3, EntrySet
  <2> QED BY <1>1, <2>1, <2>2, <2>3, <2>4
<1>11. refs' = refs
  BY DEF revoke_certificate
<1> QED BY <1>1, <1>9, <1>10, <1>11 DEF ChainInv

LEMMA ChainStep == ChainInv /\ [ChainNext]_chainVars => ChainInv'
<1> SUFFICES ASSUME ChainInv, [ChainNext]_chainVars PROVE ChainInv'
  OBVIOUS
<1>1. /\ \A h \in Hosts : h \in Names
      /\ \A l \in Levels : l \in CaLevels
      /\ 0 \in CaLevels /\ <<>> \in Names
  <2>1. AnyLevel \in Nat /\ AnyLevel # 0 /\ Levels \subseteq CaLevels /\ Hosts \subseteq Seq(STRING)
    BY ChainAssumption
  <2>2. 0 \in CaLevels
    BY <2>1 DEF CaLevels
  <2>3. \A h \in Hosts : h \in Names
    BY <2>1 DEF Names
  <2> QED BY <2>1, <2>2, <2>3, NoName
<1>2. ASSUME NEW signer \in Keys \cup {RootKey}, NEW subject \in Keys, NEW level \in Levels, NEW host \in Hosts,
             create_certificate(signer, subject, "key", level, host, TRUE, TRUE)
      PROVE  ChainInv'
  BY <1>1, <1>2, CertificateMade
<1>3. ASSUME NEW signer \in Keys \cup {RootKey}, NEW subject \in Keys, NEW type \in {"key", "identifier"},
             NEW attach \in BOOLEAN, NEW known \in BOOLEAN,
             create_certificate(signer, subject, type, 0, <<>>, attach, known)
      PROVE  ChainInv'
  BY <1>1, <1>3, CertificateMade
<1>4. ASSUME NEW id \in DOMAIN issued, NEW other \in DOMAIN issued, NEW by \in Keys \cup {RootKey},
             NEW told \in BOOLEAN, revoke_certificate(id, [id |-> other, by |-> by], told)
      PROVE  ChainInv'
  BY <1>4, CertificateRevoked
<1>5. ASSUME NEW k \in Keys, change_key(k) \/ LacksKey(k) PROVE ChainInv'
  BY <1>5 DEF change_key, LacksKey, ChainInv
<1>6. CASE UNCHANGED chainVars
  BY <1>6 DEF ChainInv, chainVars
<1> QED BY <1>2, <1>3, <1>4, <1>5, <1>6 DEF ChainNext

LEMMA ChainStart == ChainInit => ChainInv
<1> SUFFICES ASSUME ChainInit PROVE ChainInv
  OBVIOUS
<1>1. issued = <<>> /\ store = <<>> /\ refs = [k \in Keys |-> {}]
  BY DEF ChainInit
<1>2. <<>> \in Seq(Certificates) /\ <<>> \in Seq({"absent", "plain", "revoked"}) /\ Len(<<>>) = 0
  OBVIOUS
<1>3. refs \in [Keys -> SUBSET (1..0)]
  BY <1>1
<1>4. Len(issued) <= MaxCerts
  BY <1>1, <1>2, ChainAssumption
<1> QED BY <1>1, <1>2, <1>3, <1>4 DEF ChainInv

-----------------------------------------------------------------------------
(* Verification. *)

\* What is_authentic asks of the link at place i.
Sound(chain, i) ==
    LET id == chain[i].cert
        c == Cert(id)
    IN  /\ c.signer = (IF i = 1 THEN RootKey ELSE chain[i - 1].subject)
        /\ c.subject = chain[i].subject /\ c.type = "key"
        /\ verify_me(chain[i].subject) /\ id \in refs[chain[i].subject]
        /\ store[id] # "revoked"
        /\ c.revocation # [id |-> id, by |-> c.signer]

Within(chain, i) ==
    i > 1 => /\ Cert(chain[i].cert).level < Cert(chain[i - 1].cert).level
             /\ Under(Cert(chain[i].cert).host, Cert(chain[i - 1].cert).host)

Good(chain, i) == Sound(chain, i) /\ Within(chain, i)

\* What the verification keeps after place n of a chain that is good so far.
Verifying(chain, n) ==
    IF n = 0 THEN [previous |-> RootKey, level |-> AnyLevel, host |-> <<>>]
    ELSE [previous |-> chain[n].subject, level |-> Cert(chain[n].cert).level,
          host |-> Cert(chain[n].cert).host]

LEMMA LinkIsIssued ==
    ASSUME ChainInv, NEW link \in Links
    PROVE  /\ link.cert \in DOMAIN issued /\ link.subject \in Keys
           /\ Cert(link.cert) \in Certificates
           /\ Cert(link.cert).level \in CaLevels /\ Cert(link.cert).host \in Names
           /\ link = [subject |-> link.subject, cert |-> link.cert]
<1>1. PICK k \in Keys, i \in DOMAIN issued : link = [subject |-> k, cert |-> i]
  BY DEF Links
<1>2. issued[i] \in Certificates
  BY DEF ChainInv
<1> QED BY <1>1, <1>2 DEF Cert, Certificates

LEMMA LevelsBelow == AnyLevel \in Nat /\ 0 \in CaLevels /\ \A l \in CaLevels : l \in Nat /\ l < AnyLevel
BY ChainAssumption DEF CaLevels

LEMMA AfterIsSome ==
    ASSUME ChainInv, NEW chain \in Seq(Links), NEW n \in 0..Len(chain)
    PROVE  Verifying(chain, n) # NoCert
<1>1. AnyLevel \in Nat /\ <<>> \in Names
  BY NoName, LevelsBelow
<1>2. CASE n = 0
  <2>1. PICK r : r = [previous |-> RootKey, level |-> AnyLevel, host |-> <<>>]
    OBVIOUS
  <2>2. <<>> \in Seq(STRING)
    BY <1>1 DEF Names
  <2>3. r \in [previous : Keys \cup {RootKey}, level : Nat, host : Seq(STRING)]
    BY <1>1, <2>1, <2>2
  <2>4. Verifying(chain, n) = r
    BY <1>2, <2>1 DEF Verifying
  <2> QED BY <2>3, <2>4, ChainAssumption
<1>3. CASE n # 0
  <2>1. chain[n] \in Links
    BY <1>3
  <2>2. chain[n].subject \in Keys /\ Cert(chain[n].cert).level \in Nat /\ Cert(chain[n].cert).host \in Seq(STRING)
    BY <2>1, LinkIsIssued, LevelsBelow DEF Names
  <2>3. Verifying(chain, n) \in [previous : Keys \cup {RootKey}, level : Nat, host : Seq(STRING)]
    BY <1>3, <2>2 DEF Verifying
  <2> QED BY <2>3, ChainAssumption
<1> QED BY <1>2, <1>3

LEMMA UnderNone == \A x : Under(x, <<>>)
BY DEF Under

LEMMA ElementChecked ==
    ASSUME ChainInv, NEW chain \in Seq(Links), NEW i \in 1..Len(chain)
    PROVE  check_chain_element(Verifying(chain, i - 1), chain[i])
             = IF Good(chain, i) THEN Verifying(chain, i) ELSE NoCert
<1>1. PICK at : at = Verifying(chain, i - 1)
  OBVIOUS
<1>2. at # NoCert
  <2>1. i - 1 \in 0..Len(chain)
    OBVIOUS
  <2> QED BY <1>1, <2>1, AfterIsSome
<1>3. PICK link \in Links : link = chain[i]
  OBVIOUS
<1>4. PICK c : c = Cert(link.cert) /\ c \in Certificates /\ c.level \in CaLevels /\ c.host \in Names
  BY LinkIsIssued
<1>5. PICK d : d = check_link(link, at.previous, [level |-> at.level, host |-> at.host])
  OBVIOUS
<1>6. at.previous = (IF i = 1 THEN RootKey ELSE chain[i - 1].subject)
  BY <1>1 DEF Verifying
<1>7. c.level < at.level /\ is_subset_of(c.host, at.host) <=> Within(chain, i)
  <2>1. CASE i = 1
    <3>1. at.level = AnyLevel /\ at.host = <<>>
      BY <1>1, <2>1 DEF Verifying
    <3>2. c.level < AnyLevel
      BY <1>4, LevelsBelow
    <3>3. is_subset_of(c.host, <<>>)
      BY DEF is_subset_of
    <3>4. Within(chain, i)
      BY <2>1 DEF Within
    <3> QED BY <3>1, <3>2, <3>3, <3>4
  <2>2. CASE i # 1
    <3>1. PICK p \in Links : p = chain[i - 1] /\ i - 1 # 0 /\ i > 1
      <4>1. i - 1 \in 1..Len(chain) /\ i - 1 # 0 /\ i > 1
        BY <2>2
      <4> QED BY <4>1
    <3>2. at.level = Cert(p.cert).level /\ at.host = Cert(p.cert).host
      BY <1>1, <3>1 DEF Verifying
    <3>3. Cert(p.cert).host \in Names
      BY LinkIsIssued
    <3>4. is_subset_of(c.host, at.host) <=> Under(c.host, at.host)
      BY <1>4, <3>2, <3>3, SubsetIsUnder
    <3>5. Within(chain, i) <=> c.level < at.level /\ Under(c.host, at.host)
      BY <1>3, <1>4, <3>1, <3>2 DEF Within
    <3> QED BY <3>4, <3>5
  <2> QED BY <2>1, <2>2
<1>8. d = IF /\ c.signer = at.previous /\ ~(c.revocation = [id |-> link.cert, by |-> at.previous])
             /\ verify_me(link.subject) /\ c.type = "key" /\ c.subject = link.subject /\ link.cert \in refs[link.subject]
             /\ c.level < at.level /\ is_subset_of(c.host, at.host)
          THEN [level |-> c.level, host |-> c.host] ELSE NoCert
  BY <1>4, <1>5 DEF check_link, check_link_certificate, cert_is_authentic, is_revoked, check_link_data
<1>9. [level |-> c.level, host |-> c.host] # NoCert
  <2>1. [level |-> c.level, host |-> c.host] \in [level : Nat, host : Seq(STRING)]
    BY <1>4, LevelsBelow DEF Names
  <2> QED BY <2>1, ChainAssumption
<1>10. check_chain_element(at, link) =
         IF d = NoCert \/ store[link.cert] = "revoked" THEN NoCert
         ELSE [previous |-> link.subject, level |-> d.level, host |-> d.host]
  BY <1>2, <1>5 DEF check_chain_element, is_revoked_in_store
<1>11. Sound(chain, i) <=> /\ c.signer = at.previous /\ c.subject = link.subject /\ c.type = "key"
                           /\ verify_me(link.subject) /\ link.cert \in refs[link.subject]
                           /\ store[link.cert] # "revoked"
                           /\ c.revocation # [id |-> link.cert, by |-> c.signer]
  BY <1>3, <1>4, <1>6 DEF Sound
<1>12. Verifying(chain, i) = [previous |-> link.subject, level |-> c.level, host |-> c.host]
  BY <1>3, <1>4 DEF Verifying
<1>13. CASE Good(chain, i)
  <2>1. d = [level |-> c.level, host |-> c.host] /\ store[link.cert] # "revoked"
    BY <1>7, <1>8, <1>11, <1>13 DEF Good
  <2> QED BY <1>1, <1>3, <1>9, <1>10, <1>12, <1>13, <2>1
<1>14. CASE ~Good(chain, i)
  <2>1. d = NoCert \/ store[link.cert] = "revoked"
    BY <1>7, <1>8, <1>11, <1>14 DEF Good
  <2> QED BY <1>1, <1>3, <1>10, <1>14, <2>1
<1> QED BY <1>13, <1>14

\* The state after each link, as long as the links are good.
LEMMA Verified ==
    ASSUME ChainInv, NEW chain \in Seq(Links)
    PROVE  \A n \in 0..Len(chain) :
              chain_verify(chain)[n] = IF \A i \in 1..n : Good(chain, i) THEN Verifying(chain, n) ELSE NoCert
<1> DEFINE Def(f) == [n \in 0..Len(chain) |-> IF n = 0 THEN [previous |-> RootKey, level |-> AnyLevel, host |-> <<>>]
                                              ELSE check_chain_element(f[n - 1], chain[n])]
           g == [n \in 0..Len(chain) |-> IF \A i \in 1..n : Good(chain, i) THEN Verifying(chain, n) ELSE NoCert]
<1>1. PICK L \in Nat : L = Len(chain)
  OBVIOUS
<1>2. \A link : check_chain_element(NoCert, link) = NoCert
  BY DEF check_chain_element
<1>3. \A f : /\ \A n \in 0..L : Def(f)[n] = IF n = 0 THEN Verifying(chain, 0) ELSE check_chain_element(f[n - 1], chain[n])
             /\ DOMAIN Def(f) = 0..L
  BY <1>1 DEF Verifying
<1>4. /\ g = [n \in 0..L |-> g[n]]
      /\ \A n \in 0..L : g[n] = IF \A i \in 1..n : Good(chain, i) THEN Verifying(chain, n) ELSE NoCert
  BY <1>1
<1>5. ASSUME NEW f, NEW n \in 1..L, f[n - 1] = g[n - 1]
      PROVE  check_chain_element(f[n - 1], chain[n]) = g[n]
  <2> HIDE DEF g
  <2>1. /\ n - 1 \in 0..L /\ n \in 0..L /\ n \in 1..Len(chain) /\ n \in 1..n
        /\ \A i \in 1..n : i \in 1..n - 1 \/ i = n
    BY <1>1
  <2>2. \A i \in 1..n - 1 : i \in 1..n
    BY <1>1
  <2>3. CASE \A i \in 1..n - 1 : Good(chain, i)
    <3>1. f[n - 1] = Verifying(chain, n - 1)
      BY <1>4, <1>5, <2>1, <2>3
    <3>2. check_chain_element(f[n - 1], chain[n]) = IF Good(chain, n) THEN Verifying(chain, n) ELSE NoCert
      BY <3>1, <2>1, ElementChecked
    <3>3. (\A i \in 1..n : Good(chain, i)) <=> Good(chain, n)
      BY <2>1, <2>3
    <3> QED BY <1>4, <2>1, <3>2, <3>3
  <2>4. CASE ~ \A i \in 1..n - 1 : Good(chain, i)
    <3>1. f[n - 1] = NoCert
      BY <1>4, <1>5, <2>1, <2>4
    <3>2. ~ \A i \in 1..n : Good(chain, i)
      BY <2>2, <2>4
    <3> QED BY <1>2, <1>4, <2>1, <3>1, <3>2
  <2> QED BY <2>3, <2>4
<1>6. g[0] = Verifying(chain, 0)
  <2>1. 0 \in 0..L /\ \A i \in 1..0 : Good(chain, i)
    BY <1>1
  <2> HIDE DEF g
  <2> QED BY <1>4, <2>1
<1>7. g = Def(g)
  <2>1. \A n \in 0..L : Def(g)[n] = g[n]
    <3> SUFFICES ASSUME NEW n \in 0..L PROVE Def(g)[n] = g[n]
      OBVIOUS
    <3>1. Def(g)[n] = IF n = 0 THEN Verifying(chain, 0) ELSE check_chain_element(g[n - 1], chain[n])
      BY <1>3
    <3>2. n # 0 => n \in 1..L
      BY <1>1
    <3> HIDE DEF Def, g
    <3> QED BY <3>1, <3>2, <1>5, <1>6
  <2>2. Def(g) = [n \in 0..L |-> Def(g)[n]]
    BY <1>1
  <2> HIDE DEF Def, g
  <2> QED BY <1>4, <2>1, <2>2
<1> DEFINE v == chain_verify(chain)
<1>8. v = Def(v)
  <2>1. chain_verify(chain) = CHOOSE f : f = Def(f)
    BY DEF chain_verify
  <2> HIDE DEF Def, g
  <2> QED BY <1>7, <2>1
<1> HIDE DEF v, Def, g
<1>9. \A n \in 0..L : v[n] = IF n = 0 THEN Verifying(chain, 0) ELSE check_chain_element(v[n - 1], chain[n])
  BY <1>3, <1>8
<1>10. \A n \in 0..L : v[n] = g[n]
  <2> SUFFICES ASSUME NEW n \in 0..L, v[n] # g[n] PROVE FALSE
    OBVIOUS
  <2> DEFINE U == {i \in 0..L : v[i] # g[i]}
  <2>1. PICK m \in U : \A i \in U : m <= i
    <3>1. U \in SUBSET Nat /\ U # {}
      BY <1>1
    <3> HIDE DEF U
    <3> QED BY <3>1, LeastNumber
  <2>2. m # 0 /\ m \in 1..L
    BY <1>1, <1>6, <1>9, <2>1
  <2>3. m - 1 \in 0..L /\ ~(m <= m - 1) /\ m \in 0..L
    BY <1>1, <2>2
  <2>4. v[m - 1] = g[m - 1]
    BY <2>1, <2>3
  <2>5. v[m] = g[m]
    BY <1>5, <1>9, <2>2, <2>3, <2>4
  <2> QED BY <2>1, <2>5
<1> QED BY <1>1, <1>4, <1>10 DEF v

LEMMA AuthenticIs ==
    ASSUME ChainInv, NEW chain \in Seq(Links)
    PROVE  is_authentic(RootKey, chain) <=>
             Len(chain) \in 1..MaxChain /\ \A i \in 1..Len(chain) : Good(chain, i)
<1>1. Len(chain) \in 0..Len(chain)
  OBVIOUS
<1>2. chain_verify(chain)[Len(chain)]
        = IF \A i \in 1..Len(chain) : Good(chain, i) THEN Verifying(chain, Len(chain)) ELSE NoCert
  BY <1>1, Verified
<1>3. Verifying(chain, Len(chain)) # NoCert
  BY <1>1, AfterIsSome
<1> QED BY <1>2, <1>3 DEF is_authentic, find_root_key

Level(chain, i) == Cert(chain[i].cert).level
Host(chain, i) == Cert(chain[i].cert).host

LEMMA LinkHere ==
    ASSUME ChainInv, NEW chain \in Seq(Links), NEW i \in 1..Len(chain)
    PROVE  /\ chain[i] \in Links /\ chain[i].cert \in DOMAIN issued /\ chain[i].subject \in Keys
           /\ Level(chain, i) \in Nat /\ Level(chain, i) < AnyLevel /\ Level(chain, i) \in CaLevels
           /\ Host(chain, i) \in Names
<1>1. chain[i] \in Links
  OBVIOUS
<1> QED BY <1>1, LinkIsIssued, LevelsBelow DEF Level, Host

\* Each certificate bounds all that follow it if each bounds the next.
LEMMA WithinAll ==
    ASSUME ChainInv, NEW chain \in Seq(Links), \A i \in 1..Len(chain) : Within(chain, i),
           NEW i \in 1..Len(chain)
    PROVE  \A j \in 1..Len(chain) : i < j => Level(chain, j) < Level(chain, i) /\ Under(Host(chain, j), Host(chain, i))
<1> DEFINE P(j) == Level(chain, j) < Level(chain, i) /\ Under(Host(chain, j), Host(chain, i))
<1>1. SUFFICES ASSUME NEW J \in 1..Len(chain), i < J, ~P(J) PROVE FALSE
  OBVIOUS
<1> DEFINE U == {j \in 1..Len(chain) : i < j /\ ~P(j)}
<1>2. PICK m \in U : \A k \in U : m <= k
  <2>1. U \in SUBSET Nat /\ U # {}
    BY <1>1
  <2> HIDE DEF U
  <2> QED BY <2>1, LeastNumber
<1>3. m \in 1..Len(chain) /\ i < m /\ m > 1 /\ m - 1 \in 1..Len(chain) /\ (m - 1 = i \/ i < m - 1) /\ ~(m <= m - 1)
  BY <1>2
<1>4. Level(chain, m) < Level(chain, m - 1) /\ Under(Host(chain, m), Host(chain, m - 1))
  BY <1>3 DEF Within, Level, Host
<1>5. CASE m - 1 = i
  BY <1>2, <1>4, <1>5
<1>6. CASE i < m - 1
  <2>1. P(m - 1)
    BY <1>2, <1>3, <1>6
  <2>2. Level(chain, m) \in Nat /\ Level(chain, m - 1) \in Nat /\ Level(chain, i) \in Nat
    BY <1>3, LinkHere
  <2>3. Level(chain, m) < Level(chain, i)
    BY <1>4, <2>1, <2>2
  <2>4. Host(chain, m) \in Names /\ Host(chain, m - 1) \in Names /\ Host(chain, i) \in Names
    BY <1>3, LinkHere
  <2>5. Under(Host(chain, m), Host(chain, i))
    BY <1>4, <2>1, <2>4, UnderNests
  <2> QED BY <1>2, <2>3, <2>5
<1> QED BY <1>3, <1>5, <1>6

LEMMA GrantsIs ==
    ASSUME ChainInv, NEW chain \in Seq(Links)
    PROVE  Grants(chain) <=> Len(chain) \in 1..MaxChain /\ \A i \in 1..Len(chain) : Good(chain, i)
<1>1. PICK L \in Nat : L = Len(chain) /\ DOMAIN chain = 1..L
  OBVIOUS
<1>2. \A i, j \in 1..L : Below(Host(chain, j), Host(chain, i)) <=> Under(Host(chain, j), Host(chain, i))
  BY <1>1, LinkHere, BelowIsUnder
<1>3. Grants(chain) <=>
        /\ L \in 1..MaxChain
        /\ \A i \in 1..L : /\ Sound(chain, i)
                          /\ \A j \in 1..L : i < j => Level(chain, j) < Level(chain, i)
                                                   /\ Below(Host(chain, j), Host(chain, i))
  BY <1>1 DEF Grants, Sound, Level, Host
<1>4. (\A i \in 1..L : Within(chain, i)) <=>
        \A i \in 1..L : \A j \in 1..L : i < j => Level(chain, j) < Level(chain, i)
                                               /\ Under(Host(chain, j), Host(chain, i))
  <2>1. ASSUME \A i \in 1..L : \A j \in 1..L : i < j => Level(chain, j) < Level(chain, i)
                                               /\ Under(Host(chain, j), Host(chain, i)),
               NEW i \in 1..L
        PROVE  Within(chain, i)
    <3>1. i > 1 => i - 1 \in 1..L /\ i - 1 < i
      BY <1>1
    <3> QED BY <2>1, <3>1 DEF Within, Level, Host
  <2> QED BY <1>1, <2>1, WithinAll
<1> QED BY <1>1, <1>2, <1>3, <1>4 DEF Good

LEMMA ForHosts ==
    ASSUME ChainInv, NEW chain \in Seq(Links), Grants(chain), NEW host \in Names
    PROVE  is_authentic_for(RootKey, chain, host) <=> \A i \in 1..Len(chain) : Below(host, Host(chain, i))
<1>1. PICK n : n = Len(chain) /\ n \in 1..Len(chain)
  BY GrantsIs
<1>2. Last(chain) = chain[n]
  BY <1>1 DEF Last
<1>3. is_authentic_for(RootKey, chain, host) <=> is_subset_of(host, Host(chain, n))
  BY <1>2, AuthenticIs, GrantsIs DEF is_authentic_for, Host
<1>4. \A i \in 1..Len(chain) : Host(chain, i) \in Names
  BY LinkHere
<1>5. \A i \in 1..Len(chain) : Below(host, Host(chain, i)) <=> Under(host, Host(chain, i))
  BY <1>4, BelowIsUnder
<1>6. is_subset_of(host, Host(chain, n)) <=> Under(host, Host(chain, n))
  BY <1>1, <1>4, SubsetIsUnder
<1>7. ASSUME Under(host, Host(chain, n)), NEW i \in 1..Len(chain) PROVE Under(host, Host(chain, i))
  <2>1. CASE i = n
    BY <1>7, <2>1
  <2>2. CASE i # n
    <3>1. i < n
      BY <1>1, <2>2
    <3>2. Under(Host(chain, n), Host(chain, i))
      BY <1>1, <3>1, WithinAll, GrantsIs DEF Good
    <3> QED BY <1>1, <1>4, <1>7, <3>2, UnderNests
  <2> QED BY <2>1, <2>2
<1> QED BY <1>1, <1>3, <1>5, <1>6, <1>7

\* add_link checks what is_authentic checks of the last link.
LEMMA LinkAdded ==
    ASSUME ChainInv, NEW chain \in Seq(Links), chain # <<>>,
           Len(chain) > 1 => is_authentic(RootKey, Front(chain))
    PROVE  is_authentic(RootKey, chain) <=>
             /\ add_link(Front(chain), Last(chain))
             /\ store[Last(chain).cert] # "revoked" /\ Len(chain) <= MaxChain
<1>1. PICK n : n \in Nat /\ n = Len(chain) /\ n >= 1 /\ n \in 1..Len(chain)
  <2>1. Len(chain) # 0
    OBVIOUS
  <2> QED BY <2>1
<1>2. PICK link \in Links : link = chain[n] /\ link = Last(chain)
  BY <1>1 DEF Last
<1>3. PICK c : c = Cert(link.cert) /\ c \in Certificates /\ c.level \in CaLevels /\ c.host \in Names
  BY LinkIsIssued
<1>4. PICK front : front = Front(chain)
  OBVIOUS
<1>5. front \in Seq(Links) /\ Len(front) = n - 1 /\ \A i \in 1..n - 1 : front[i] = chain[i]
  <2>1. front = SubSeq(chain, 1, n - 1)
    BY <1>1, <1>4 DEF Front
  <2>2. \A i \in 1..n - 1 : chain[i] \in Links
    BY <1>1
  <2>3. n - 1 \in Int /\ 1 \in Int /\ n - 1 - 1 + 1 = n - 1 /\ \A i \in 1..n - 1 : 1 + i - 1 = i
    BY <1>1
  <2>4. front \in Seq(Links)
    BY <2>1, <2>2, <2>3, SubSeqProperties
  <2>5. Len(front) = IF 1 <= n - 1 THEN n - 1 - 1 + 1 ELSE 0
    BY <2>1, <2>2, <2>3, SubSeqProperties
  <2>6. \A i \in 1..n - 1 - 1 + 1 : front[i] = chain[1 + i - 1]
    BY <2>1, <2>2, <2>3, SubSeqProperties
  <2>7. ~(1 <= n - 1) => n - 1 = 0
    BY <1>1
  <2> QED BY <2>3, <2>4, <2>5, <2>6, <2>7
<1>6. \A i \in 1..n - 1 : Good(front, i) <=> Good(chain, i)
  <2> SUFFICES ASSUME NEW i \in 1..n - 1 PROVE Good(front, i) <=> Good(chain, i)
    OBVIOUS
  <2>1. front[i] = chain[i] /\ (i > 1 => front[i - 1] = chain[i - 1])
    <3>1. i > 1 => i - 1 \in 1..n - 1
      BY <1>1
    <3> QED BY <1>5, <3>1
  <2>2. i = 1 \/ i > 1
    BY <1>1
  <2> QED BY <2>1, <2>2 DEF Good, Sound, Within
<1>7. n > 1 => \A i \in 1..n - 1 : Good(chain, i)
  BY <1>1, <1>4, <1>5, <1>6, AuthenticIs
<1>8. (\A i \in 1..n : Good(chain, i)) <=> Good(chain, n)
  <2>1. \A i \in 1..n : i = n \/ (n > 1 /\ i \in 1..n - 1)
    BY <1>1
  <2> QED BY <1>1, <1>7, <2>1
<1>9. is_authentic(RootKey, chain) <=> n <= MaxChain /\ Good(chain, n)
  <2>1. n \in 1..MaxChain <=> n <= MaxChain
    BY <1>1, ChainAssumption
  <2> QED BY <1>1, <1>8, <2>1, AuthenticIs
<1>10. \A previous, l, h :
         check_link(link, previous, [level |-> l, host |-> h]) # NoCert <=>
            /\ c.signer = previous /\ ~(c.revocation = [id |-> link.cert, by |-> previous])
            /\ verify_me(link.subject)
            /\ c.type = "key" /\ c.subject = link.subject /\ link.cert \in refs[link.subject]
            /\ c.level < l /\ is_subset_of(c.host, h)
  <2>1. [level |-> c.level, host |-> c.host] \in [level : Nat, host : Seq(STRING)]
    BY <1>3, LevelsBelow DEF Names
  <2>2. [level |-> c.level, host |-> c.host] # NoCert
    BY <2>1, ChainAssumption
  <2> QED BY <1>3, <2>2 DEF check_link, check_link_certificate, cert_is_authentic, is_revoked, check_link_data
<1>11. CASE n = 1
  <2>1. front = <<>>
    BY <1>5, <1>11
  <2>2. c.level < AnyLevel /\ is_subset_of(c.host, <<>>)
    BY <1>3, LevelsBelow DEF is_subset_of
  <2>3. add_link(front, link) <=>
            /\ c.signer = RootKey /\ ~(c.revocation = [id |-> link.cert, by |-> RootKey])
            /\ verify_me(link.subject)
            /\ c.type = "key" /\ c.subject = link.subject /\ link.cert \in refs[link.subject]
    BY <1>3, <1>10, <2>1, <2>2 DEF add_link, find_root_key
  <2>4. Within(chain, n)
    BY <1>11 DEF Within
  <2>5. Good(chain, n) <=> add_link(front, link) /\ store[link.cert] # "revoked"
    BY <1>2, <1>3, <1>11, <2>3, <2>4 DEF Good, Sound
  <2> QED BY <1>1, <1>2, <1>4, <1>9, <2>5
<1>12. CASE n # 1
  <2>1. PICK p \in Links : p = chain[n - 1] /\ p = Last(front) /\ n - 1 \in 1..Len(chain)
    <3>1. n - 1 \in 1..n - 1 /\ n - 1 \in 1..Len(chain)
      BY <1>1, <1>12
    <3> QED BY <1>5, <3>1 DEF Last
  <2>2. front # <<>>
    BY <1>1, <1>5, <1>12
  <2>3. PICK last : last = Cert(p.cert) /\ last.host \in Names
    BY LinkIsIssued
  <2>4. add_link(front, link) <=>
            /\ c.signer = p.subject /\ ~(c.revocation = [id |-> link.cert, by |-> p.subject])
            /\ verify_me(link.subject)
            /\ c.type = "key" /\ c.subject = link.subject /\ link.cert \in refs[link.subject]
            /\ c.level < last.level /\ is_subset_of(c.host, last.host)
    BY <1>10, <2>1, <2>2, <2>3 DEF add_link
  <2>5. is_subset_of(c.host, last.host) <=> Under(c.host, last.host)
    BY <1>3, <2>3, SubsetIsUnder
  <2>6. Within(chain, n) <=> c.level < last.level /\ Under(c.host, last.host)
    BY <1>1, <1>2, <1>3, <1>12, <2>1, <2>3 DEF Within
  <2>7. Good(chain, n) <=> add_link(front, link) /\ store[link.cert] # "revoked"
    BY <1>2, <1>3, <1>12, <2>1, <2>4, <2>5, <2>6 DEF Good, Sound
  <2> QED BY <1>1, <1>2, <1>4, <1>9, <2>7
<1> QED BY <1>11, <1>12

LEMMA ChainsAreSound == ChainInv => ChainsSound
<1> SUFFICES ASSUME ChainInv PROVE ChainsSound
  OBVIOUS
<1>1. ASSUME NEW chain \in Chains PROVE chain \in Seq(Links)
  <2>1. PICK n \in 0..MaxCerts : chain \in [1..n -> Links]
    BY DEF Chains
  <2>2. n \in Nat
    BY ChainAssumption
  <2> QED BY <2>1, <2>2, SequenceOf
<1>2. \A chain \in Chains : is_authentic(RootKey, chain) <=> Grants(chain)
  BY <1>1, AuthenticIs, GrantsIs
<1>3. ASSUME NEW chain \in Chains, Grants(chain), NEW host \in HostNames
      PROVE  is_authentic_for(RootKey, chain, host) <=> \A i \in DOMAIN chain : Below(host, Cert(chain[i].cert).host)
  <2>1. host \in Names
    BY ChainAssumption DEF Names
  <2>2. DOMAIN chain = 1..Len(chain)
    BY <1>1
  <2> QED BY <1>1, <1>3, <2>1, <2>2, ForHosts DEF Host
<1>4. \A chain \in Chains :
         chain # <<>> /\ (Len(chain) > 1 => is_authentic(RootKey, Front(chain))) =>
              (is_authentic(RootKey, chain) <=>
                 /\ add_link(Front(chain), Last(chain))
                 /\ store[Last(chain).cert] # "revoked" /\ Len(chain) <= MaxChain)
  BY <1>1, LinkAdded
<1> QED BY <1>2, <1>3, <1>4, NamesNest DEF ChainsSound

-----------------------------------------------------------------------------
(* The search. *)

\* What the search asks of the link at place i of a complete list.
Reached(chain, i) ==
    LET id == chain[i].cert
    IN  /\ id \in refs[chain[i].subject] /\ store[id] # "absent" /\ Cert(id).type = "key"
        /\ Cert(id).signer = (IF i = 1 THEN RootKey ELSE chain[i - 1].subject)
        /\ i > 1 => Level(chain, i) < Level(chain, i - 1) /\ chain[i - 1].subject \in keyStore

\* The complete lists from the root to a key whose certificate is above a level.
Routes(at) ==
    {chain \in Seq(Links) :
        /\ Len(chain) >= 1 /\ chain[Len(chain)].subject = at[1]
        /\ at[2] = NoCert \/ at[2] < Level(chain, Len(chain))
        /\ \A i \in 1..Len(chain) : Reached(chain, i)}

Places == Keys \X (CaLevels \cup {NoCert})

\* One call of build_list, if the calls it makes return what r says.
Search(r, at) ==
    UNION {follow_issuer(Cert(id), <<[subject |-> at[1], cert |-> id]>>, r[<<Cert(id).signer, Cert(id).level>>])
           : id \in {i \in refs[at[1]] : consider(at[1], i, at[2])}}

LEMMA IssuedHere ==
    ASSUME ChainInv, NEW at \in Places, NEW id \in refs[at[1]]
    PROVE  /\ id \in DOMAIN issued /\ Cert(id).signer \in Keys \cup {RootKey}
           /\ Cert(id).level \in CaLevels
           /\ [subject |-> at[1], cert |-> id] \in Links
<1>1. at[1] \in Keys
  BY DEF Places
<1>2. refs[at[1]] \subseteq 1..Len(issued)
  BY <1>1 DEF ChainInv
<1>3. DOMAIN issued = 1..Len(issued)
  BY DEF ChainInv
<1>4. issued[id] \in Certificates
  BY <1>2, <1>3 DEF ChainInv
<1> QED BY <1>1, <1>2, <1>3, <1>4 DEF Cert, Certificates, Links

LEMMA PlaceOf ==
    ASSUME NEW k \in Keys, NEW l \in CaLevels \cup {NoCert}
    PROVE  \E p \in Places : p = <<k, l>> /\ p[1] = k /\ p[2] = l
<1>1. PICK p : p = <<k, l>>
  OBVIOUS
<1>2. p[1] = k /\ p[2] = l
  BY <1>1
<1>3. p \in Places
  BY <1>1 DEF Places
<1> QED BY <1>1, <1>2, <1>3

LEMMA RouteOf ==
    ASSUME NEW chain \in Seq(Links), NEW n, n = Len(chain), n >= 1, NEW at, chain[n].subject = at[1],
           at[2] = NoCert \/ at[2] < Level(chain, n), \A i \in 1..n : Reached(chain, i)
    PROVE  chain \in Routes(at)
BY DEF Routes

LEMMA OneLink ==
    ASSUME NEW S, NEW chain \in Seq(S), Len(chain) = 1
    PROVE  chain = <<chain[1]>>
OBVIOUS

\* The list that is longer by one link.
LEMMA Longer ==
    ASSUME NEW S, NEW above \in Seq(S), NEW link \in S, NEW chain, chain = above \o <<link>>
    PROVE  /\ chain \in Seq(S) /\ Len(chain) = Len(above) + 1 /\ chain[Len(above) + 1] = link
           /\ \A i \in 1..Len(above) : chain[i] = above[i]
<1>1. <<link>> \in Seq(S) /\ Len(<<link>>) = 1 /\ <<link>>[1] = link
  OBVIOUS
<1> QED BY <1>1

\* A list without its last link.
CutAt(S, chain, n) ==
    \E above \in Seq(S) : /\ Len(above) = n - 1 /\ \A i \in 1..n - 1 : above[i] = chain[i]
                          /\ chain = above \o <<chain[n]>>

LEMMA Shorter ==
    ASSUME NEW S, NEW chain \in Seq(S), NEW n \in Nat, n >= 1, Len(chain) = n
    PROVE  CutAt(S, chain, n)
<1> DEFINE above == [i \in 1..n - 1 |-> chain[i]]
<1>1. n - 1 \in Nat /\ chain[n] \in S
  OBVIOUS
<1>2. above \in [1..n - 1 -> S]
  OBVIOUS
<1>3. above \in Seq(S) /\ Len(above) = n - 1
  BY <1>1, <1>2, SequenceOf
<1>4. \A i \in 1..n - 1 : above[i] = chain[i]
  OBVIOUS
<1> HIDE DEF above
<1>5. PICK c : c = above \o <<chain[n]>>
  OBVIOUS
<1>6. c \in Seq(S) /\ Len(c) = Len(above) + 1 /\ c[Len(above) + 1] = chain[n] /\ \A i \in 1..Len(above) : c[i] = above[i]
  BY <1>1, <1>3, <1>5, Longer
<1>7. Len(c) = n /\ \A i \in 1..n : c[i] = chain[i]
  <2>1. n - 1 + 1 = n /\ \A i \in 1..n : i = n \/ i \in 1..n - 1
    OBVIOUS
  <2> QED BY <1>3, <1>4, <1>6, <2>1
<1>8. c = chain
  BY <1>6, <1>7
<1> QED BY <1>3, <1>4, <1>5, <1>8 DEF CutAt

\* A link at the end changes nothing for those before it.
LEMMA ReachedBefore ==
    ASSUME NEW n \in Nat, NEW above, NEW chain, \A i \in 1..n : chain[i] = above[i]
    PROVE  /\ \A i \in 1..n : Reached(chain, i) <=> Reached(above, i)
           /\ \A i \in 1..n : Level(chain, i) = Level(above, i)
<1>1. ASSUME NEW i \in 1..n PROVE Level(chain, i) = Level(above, i)
  BY DEF Level
<1>2. ASSUME NEW i \in 1..n PROVE Reached(chain, i) <=> Reached(above, i)
  <2>1. CASE i = 1
    BY <2>1 DEF Reached
  <2>2. CASE i # 1
    <3>1. i - 1 \in 1..n
      BY <2>2
    <3>2. chain[i] = above[i] /\ chain[i - 1] = above[i - 1]
      BY <3>1
    <3>3. Level(chain, i) = Level(above, i) /\ Level(chain, i - 1) = Level(above, i - 1)
      BY <1>1, <3>1
    <3> QED BY <2>2, <3>2, <3>3 DEF Reached
  <2> QED BY <2>1, <2>2
<1> QED BY <1>1, <1>2

\* What one call finds, if the calls it makes find all routes, is the routes.
LEMMA SearchFinds ==
    ASSUME ChainInv, NEW r, \A p \in Places : r[p] = Routes(p), NEW at \in Places
    PROVE  Search(r, at) = Routes(at)
<1>1. at[1] \in Keys /\ at[2] \in CaLevels \cup {NoCert}
  BY DEF Places
<1>2. ASSUME NEW id \in refs[at[1]], consider(at[1], id, at[2]), NEW chain,
             chain \in follow_issuer(Cert(id), <<[subject |-> at[1], cert |-> id]>>, r[<<Cert(id).signer, Cert(id).level>>])
      PROVE  chain \in Routes(at)
  <2>1. PICK link \in Links : link = [subject |-> at[1], cert |-> id] /\ link.cert = id /\ link.subject = at[1]
    BY IssuedHere
  <2>2. Cert(id).signer \in Keys \cup {RootKey} /\ Cert(id).level \in CaLevels
    BY IssuedHere
  <2>3. store[id] # "absent" /\ Cert(id).type = "key" /\ (at[2] = NoCert \/ at[2] < Cert(id).level)
    BY <1>2 DEF consider
  <2>4. CASE Cert(id).signer = RootKey
    <3>1. chain = <<link>>
      BY <1>2, <2>1, <2>4 DEF follow_issuer, find_root_key
    <3>2. chain \in Seq(Links) /\ Len(chain) = 1 /\ chain[1] = link
      BY <3>1
    <3>3. Reached(chain, 1)
      BY <2>1, <2>3, <2>4, <3>2 DEF Reached
    <3>4. Level(chain, 1) = Cert(id).level
      BY <2>1, <3>2 DEF Level
    <3>5. \A i \in 1..Len(chain) : i = 1
      BY <3>2
    <3>6. PICK n : n = 1 /\ n = Len(chain) /\ n >= 1
      BY <3>2
    <3>7. chain[n].subject = at[1] /\ (at[2] = NoCert \/ at[2] < Level(chain, n)) /\ \A i \in 1..n : Reached(chain, i)
      BY <2>1, <2>3, <3>2, <3>3, <3>4, <3>5, <3>6
    <3> QED BY <3>2, <3>6, <3>7, RouteOf
  <2>5. CASE Cert(id).signer # RootKey
    <3>1. PICK p \in Places : p = <<Cert(id).signer, Cert(id).level>> /\ p[1] = Cert(id).signer /\ p[2] = Cert(id).level
      <4>1. Cert(id).signer \in Keys /\ Cert(id).level \in CaLevels \cup {NoCert}
        BY <2>2, <2>5
      <4> QED BY <4>1, PlaceOf
    <3>2. Cert(id).signer \in keyStore /\ \E above \in r[p] : chain = above \o <<link>>
      BY <1>2, <2>1, <2>5, <3>1 DEF follow_issuer, find_root_key
    <3>0. PICK above \in r[p] : chain = above \o <<link>>
      BY <3>2
    <3>3. above \in Routes(p)
      BY <3>0
    <3>4. PICK n \in Nat : /\ n = Len(above) /\ n >= 1 /\ above \in Seq(Links) /\ above[n].subject = p[1]
                           /\ p[2] = NoCert \/ p[2] < Level(above, n)
                           /\ \A i \in 1..n : Reached(above, i)
      BY <3>3 DEF Routes
    <3>5. chain \in Seq(Links) /\ Len(chain) = n + 1 /\ chain[n + 1] = link /\ \A i \in 1..n : chain[i] = above[i]
      BY <3>0, <3>4, Longer
    <3>6. p[2] # NoCert
      BY <2>2, <3>1, LevelsBelow, ChainAssumption
    <3>7. Level(chain, n) = Level(above, n) /\ \A i \in 1..n : Reached(chain, i)
      <4>1. n \in 1..n
        BY <3>4
      <4> QED BY <3>4, <3>5, <4>1, ReachedBefore
    <3>8. Level(chain, n + 1) = Cert(id).level
      BY <2>1, <3>5 DEF Level
    <3>9. chain[n].subject = Cert(id).signer
      <4>1. n \in 1..n
        BY <3>4
      <4> QED BY <3>1, <3>4, <3>5, <4>1
    <3>10. n + 1 - 1 = n /\ n + 1 > 1 /\ n + 1 # 1 /\ n + 1 >= 1 /\ \A i \in 1..n + 1 : i = n + 1 \/ i \in 1..n
      BY <3>4
    <3>11. Reached(chain, n + 1)
      BY <2>1, <2>3, <3>1, <3>2, <3>4, <3>5, <3>6, <3>7, <3>8, <3>9, <3>10 DEF Reached
    <3>12. \A i \in 1..n + 1 : Reached(chain, i)
      BY <3>7, <3>10, <3>11
    <3> QED BY <2>1, <2>3, <3>5, <3>8, <3>10, <3>12 DEF Routes
  <2> QED BY <2>4, <2>5
<1>3. ASSUME NEW chain \in Routes(at)
      PROVE  \E id \in refs[at[1]] :
                /\ consider(at[1], id, at[2])
                /\ chain \in follow_issuer(Cert(id), <<[subject |-> at[1], cert |-> id]>>,
                                           r[<<Cert(id).signer, Cert(id).level>>])
  <2>1. PICK n \in Nat : /\ n = Len(chain) /\ n >= 1 /\ chain \in Seq(Links) /\ chain[n].subject = at[1]
                         /\ at[2] = NoCert \/ at[2] < Level(chain, n)
                         /\ \A i \in 1..n : Reached(chain, i)
    BY <1>3 DEF Routes
  <2>2. n \in 1..n
    BY <2>1
  <2>3. PICK link \in Links : link = chain[n]
    BY <2>1, <2>2
  <2>4. PICK id : id = link.cert
    OBVIOUS
  <2>5. link = [subject |-> at[1], cert |-> id] /\ link.subject = at[1]
    BY <2>1, <2>3, <2>4, LinkIsIssued
  <2>6. id \in refs[at[1]] /\ store[id] # "absent" /\ Cert(id).type = "key" /\ Level(chain, n) = Cert(id).level
        /\ Cert(id).signer = (IF n = 1 THEN RootKey ELSE chain[n - 1].subject)
        /\ (n > 1 => Level(chain, n) < Level(chain, n - 1) /\ chain[n - 1].subject \in keyStore)
    BY <2>1, <2>2, <2>3, <2>4, <2>5 DEF Reached, Level
  <2>7. consider(at[1], id, at[2])
    BY <2>1, <2>6 DEF consider
  <2>8. PICK above \in Seq(Links) : Len(above) = n - 1 /\ (\A i \in 1..n - 1 : above[i] = chain[i]) /\ chain = above \o <<link>>
    <3>1. CutAt(Links, chain, n)
      BY <2>1, Shorter
    <3> QED BY <2>3, <3>1 DEF CutAt
  <2>9. CASE n = 1
    <3>1. above = <<>>
      BY <2>8, <2>9
    <3>2. chain = <<link>>
      <4>1. Len(chain) = 1
        BY <2>1, <2>9
      <4>2. chain = <<chain[1]>>
        BY <2>1, <4>1, OneLink
      <4> QED BY <2>3, <2>9, <4>2
    <3>3. follow_issuer(Cert(id), <<[subject |-> at[1], cert |-> id]>>, r[<<Cert(id).signer, Cert(id).level>>]) = {<<link>>}
      BY <2>5, <2>6, <2>9 DEF follow_issuer, find_root_key
    <3> QED BY <2>6, <2>7, <3>2, <3>3
  <2>10. CASE n # 1
    <3>1. PICK m \in Nat : m = n - 1 /\ m >= 1 /\ m \in 1..n - 1 /\ m \in 1..n /\ n > 1
      <4>1. n - 1 \in Nat /\ n - 1 >= 1 /\ n > 1
        BY <2>1, <2>10
      <4> QED BY <4>1
    <3>2. chain[m] \in Links
      BY <2>1, <3>1
    <3>3. Cert(id).signer = chain[m].subject /\ Cert(id).signer \in Keys /\ Cert(id).signer # RootKey
      <4>1. chain[m].subject \in Keys
        BY <3>2, LinkIsIssued
      <4> QED BY <2>6, <2>10, <3>1, <4>1, ChainAssumption
    <3>4. PICK p \in Places : p = <<Cert(id).signer, Cert(id).level>> /\ p[1] = Cert(id).signer /\ p[2] = Cert(id).level
      <4>1. Cert(id).level \in CaLevels
        BY <2>6, IssuedHere
      <4> QED BY <3>3, <4>1, PlaceOf
    <3>5. \A i \in 1..m : chain[i] = above[i]
      BY <2>8, <3>1
    <3>6. m \in 1..m /\ \A i \in 1..m : i \in 1..n
      BY <3>1
    <3>7. Level(above, m) = Level(chain, m) /\ \A i \in 1..m : Reached(above, i)
      <4>1. \A i \in 1..m : Reached(chain, i) <=> Reached(above, i)
        BY <3>5, ReachedBefore
      <4>2. \A i \in 1..m : Level(chain, i) = Level(above, i)
        BY <3>5, ReachedBefore
      <4> QED BY <2>1, <3>6, <4>1, <4>2
    <3>8. above[m].subject = p[1] /\ p[2] < Level(above, m)
      BY <2>6, <3>1, <3>3, <3>4, <3>5, <3>6, <3>7
    <3>9. above \in Routes(p)
      BY <2>8, <3>1, <3>7, <3>8 DEF Routes
    <3>10. above \in r[<<Cert(id).signer, Cert(id).level>>]
      BY <3>4, <3>9
    <3>12. Cert(id).signer \in keyStore
      BY <2>6, <3>1, <3>3
    <3>11. chain \in follow_issuer(Cert(id), <<[subject |-> at[1], cert |-> id]>>, r[<<Cert(id).signer, Cert(id).level>>])
      BY <2>5, <2>8, <3>3, <3>10, <3>12 DEF follow_issuer, find_root_key
    <3> QED BY <2>6, <2>7, <3>11
  <2> QED BY <2>9, <2>10
<1> QED BY <1>2, <1>3 DEF Search

\* A call depends on the calls for certificates of a higher level alone.
LEMMA SearchDepends ==
    ASSUME ChainInv, NEW at \in Places, NEW r, NEW q,
           \A p \in Places : p[2] # NoCert /\ (at[2] = NoCert \/ at[2] < p[2]) => r[p] = q[p]
    PROVE  Search(r, at) = Search(q, at)
<1>1. ASSUME NEW id \in refs[at[1]], consider(at[1], id, at[2])
      PROVE  follow_issuer(Cert(id), <<[subject |-> at[1], cert |-> id]>>, r[<<Cert(id).signer, Cert(id).level>>])
               = follow_issuer(Cert(id), <<[subject |-> at[1], cert |-> id]>>, q[<<Cert(id).signer, Cert(id).level>>])
  <2>1. CASE Cert(id).signer = RootKey
    BY <2>1 DEF follow_issuer, find_root_key
  <2>2. CASE Cert(id).signer # RootKey
    <3>1. Cert(id).signer \in Keys /\ Cert(id).level \in CaLevels
      BY <2>2, IssuedHere
    <3>2. PICK p \in Places : p = <<Cert(id).signer, Cert(id).level>> /\ p[2] = Cert(id).level
      BY <3>1, PlaceOf
    <3>3. p[2] # NoCert
      BY <3>1, <3>2, LevelsBelow, ChainAssumption
    <3>4. at[2] = NoCert \/ at[2] < p[2]
      BY <1>1, <3>2 DEF consider
    <3>5. r[p] = q[p]
      BY <3>3, <3>4
    <3> QED BY <3>2, <3>5
  <2> QED BY <2>1, <2>2
<1> QED BY <1>1 DEF Search

LEMMA ListsAreRoutes ==
    ASSUME ChainInv, NEW at \in Places
    PROVE  build_list[at] = Routes(at)
<1> DEFINE Def(f) == [p \in Places |-> Search(f, p)]
           g == [p \in Places |-> Routes(p)]
           b == build_list
<1>1. g = Def(g)
  <2>1. \A p \in Places : g[p] = Routes(p)
    OBVIOUS
  <2>2. \A p \in Places : Search(g, p) = Routes(p)
    <3> HIDE DEF g
    <3> QED BY <2>1, SearchFinds
  <2> QED BY <2>2
<1>2. b = Def(b)
  <2>1. build_list = CHOOSE f : f = Def(f)
    BY DEF build_list, Search, Places
  <2> HIDE DEF Def, g
  <2> QED BY <1>1, <2>1
<1>3. \A f, p : p \in Places => Def(f)[p] = Search(f, p)
  OBVIOUS
<1> HIDE DEF Def, b
<1>4. \A p \in Places : b[p] = Search(b, p) /\ g[p] = Search(g, p) /\ g[p] = Routes(p)
  <2>1. \A p \in Places : g[p] = Routes(p)
    OBVIOUS
  <2> HIDE DEF g
  <2> QED BY <1>1, <1>2, <1>3, <2>1
<1> HIDE DEF g
<1> DEFINE M(p) == IF p[2] = NoCert THEN AnyLevel ELSE AnyLevel - 1 - p[2]
           Wrong(p) == p \in Places /\ b[p] # g[p]
           U == {m \in Nat : \E p \in Places : Wrong(p) /\ M(p) = m}
<1>5. ASSUME NEW p \in Places PROVE M(p) \in Nat
  <2>1. p[2] \in CaLevels \cup {NoCert}
    BY DEF Places
  <2> QED BY <2>1, LevelsBelow
<1>6. ASSUME NEW p \in Places, NEW o \in Places, o[2] # NoCert, p[2] = NoCert \/ p[2] < o[2] PROVE M(o) < M(p)
  <2>1. p[2] \in CaLevels \cup {NoCert} /\ o[2] \in CaLevels
    BY <1>6 DEF Places
  <2> QED BY <1>6, <2>1, LevelsBelow
<1>7. SUFFICES ASSUME b[at] # g[at] PROVE FALSE
  BY <1>4 DEF b
<1>8. PICK m \in U : \A k \in U : m <= k
  <2>1. Wrong(at) /\ M(at) \in Nat
    BY <1>5, <1>7
  <2> HIDE DEF M, Wrong
  <2>2. U \in SUBSET Nat /\ U # {}
    BY <2>1
  <2> HIDE DEF U
  <2> QED BY <2>2, LeastNumber
<1>9. PICK p \in Places : b[p] # g[p] /\ M(p) = m
  <2> HIDE DEF M
  <2> QED BY <1>8
<1>10. ASSUME NEW o \in Places, o[2] # NoCert /\ (p[2] = NoCert \/ p[2] < o[2]) PROVE b[o] = g[o]
  <2>1. M(o) < M(p) /\ M(o) \in Nat /\ M(p) \in Nat
    BY <1>5, <1>6, <1>10
  <2> HIDE DEF M
  <2>2. ~(m <= M(o))
    BY <1>9, <2>1
  <2>3. M(o) \notin U
    BY <1>8, <2>2
  <2> QED BY <2>1, <2>3
<1>11. Search(b, p) = Search(g, p)
  BY <1>10, SearchDepends
<1> QED BY <1>4, <1>9, <1>11

\* The levels descend, so no certificate is in a chain twice.
LEMMA ChainIsShort ==
    ASSUME ChainInv, NEW chain \in Seq(Links), \A i \in 1..Len(chain) : Within(chain, i)
    PROVE  Len(chain) <= MaxCerts
<1>1. PICK n \in Nat : n = Len(chain)
  OBVIOUS
<1>2. PICK l \in Nat : l = Len(issued) /\ DOMAIN issued = 1..l /\ l <= MaxCerts
  BY DEF ChainInv
<1>3. SUFFICES ASSUME l < n PROVE FALSE
  BY <1>1, <1>2, ChainAssumption
<1> DEFINE f == [i \in 1..n |-> chain[i].cert]
<1>4. f \in [1..n -> 1..l]
  BY <1>1, <1>2, LinkHere
<1>5. IsFiniteSet(1..n) /\ Cardinality(1..n) = n /\ IsFiniteSet(1..l) /\ Cardinality(1..l) = l
  <2>1. Cardinality(1..n) = (IF 1 > n THEN 0 ELSE n - 1 + 1) /\ Cardinality(1..l) = (IF 1 > l THEN 0 ELSE l - 1 + 1)
    BY FS_Interval
  <2>2. (1 > n => n = 0) /\ n - 1 + 1 = n /\ (1 > l => l = 0) /\ l - 1 + 1 = l
    OBVIOUS
  <2>3. IsFiniteSet(1..n) /\ IsFiniteSet(1..l)
    BY FS_Interval
  <2> QED BY <2>1, <2>2, <2>3
<1>6. PICK x \in 1..n, y \in 1..n : x # y /\ f[x] = f[y]
  <2> HIDE DEF f
  <2>1. Cardinality(1..l) < Cardinality(1..n)
    BY <1>3, <1>5
  <2>2. PICK S, T : S = 1..n /\ T = 1..l
    OBVIOUS
  <2>3. IsFiniteSet(S) /\ IsFiniteSet(T) /\ Cardinality(T) < Cardinality(S) /\ f \in [S -> T]
    BY <1>4, <1>5, <2>1, <2>2
  <2>4. \E x \in S, y \in S : x # y /\ f[x] = f[y]
    BY <2>3, FS_PigeonHole
  <2> QED BY <2>2, <2>4
<1>7. Level(chain, x) = Level(chain, y)
  BY <1>6 DEF Level
<1>8. Level(chain, x) \in Nat /\ Level(chain, y) \in Nat
  BY <1>1, LinkHere
<1>9. x < y \/ y < x
  BY <1>6
<1>10. x < y => Level(chain, y) < Level(chain, x)
  BY <1>1, WithinAll
<1>11. y < x => Level(chain, x) < Level(chain, y)
  BY <1>1, WithinAll
<1> QED BY <1>7, <1>8, <1>9, <1>10, <1>11

\* The stores have what leads over place i of a chain.
InStores(chain, i) == store[chain[i].cert] # "absent" /\ (i > 1 => chain[i - 1].subject \in keyStore)

LEMMA ChainsAreFound == ChainInv => ChainsFound
<1> SUFFICES ASSUME ChainInv, NEW k \in Keys
             PROVE  (create_certificate_chain(k) # {}) <=>
                       \E chain \in Chains :
                          /\ Grants(chain) /\ Last(chain).subject = k
                          /\ \A i \in DOMAIN chain : InStores(chain, i)
  BY DEF ChainsFound, InStores
<1>1. PICK at \in Places : at = <<k, NoCert>> /\ at[1] = k /\ at[2] = NoCert
  <2>1. NoCert \in CaLevels \cup {NoCert}
    OBVIOUS
  <2> QED BY <2>1, PlaceOf
<1>2. create_certificate_chain(k) = {chain \in Routes(at) : is_authentic(RootKey, chain)}
  BY <1>1, ListsAreRoutes DEF create_certificate_chain, try_complete
<1>3. ASSUME NEW chain \in Routes(at), is_authentic(RootKey, chain)
      PROVE  \E c \in Chains : /\ Grants(c) /\ Last(c).subject = k
                               /\ \A i \in DOMAIN c : InStores(c, i)
  <2>1. PICK n \in Nat : /\ n = Len(chain) /\ chain \in Seq(Links) /\ DOMAIN chain = 1..n
                         /\ chain[n].subject = k /\ \A i \in 1..n : Reached(chain, i)
    BY <1>1, <1>3 DEF Routes
  <2>2. Grants(chain) /\ \A i \in 1..n : Good(chain, i)
    BY <1>3, <2>1, AuthenticIs, GrantsIs
  <2>3. n <= MaxCerts
    BY <2>1, <2>2, ChainIsShort DEF Good
  <2>4. chain \in Chains
    <3>1. n \in 0..MaxCerts
      BY <2>3, ChainAssumption
    <3>2. chain \in [1..n -> Links]
      BY <2>1
    <3> QED BY <3>1, <3>2 DEF Chains
  <2>5. Last(chain).subject = k
    BY <2>1 DEF Last
  <2>6. \A i \in DOMAIN chain : InStores(chain, i)
    BY <2>1 DEF Reached, InStores
  <2> QED BY <2>2, <2>4, <2>5, <2>6
<1>4. ASSUME NEW chain \in Chains, Grants(chain), Last(chain).subject = k,
             \A i \in DOMAIN chain : InStores(chain, i)
      PROVE  chain \in Routes(at) /\ is_authentic(RootKey, chain)
  <2>1. PICK n \in Nat : n \in 0..MaxCerts /\ chain \in [1..n -> Links]
    BY ChainAssumption DEF Chains
  <2>2. chain \in Seq(Links) /\ Len(chain) = n /\ DOMAIN chain = 1..n
    BY <2>1, SequenceOf
  <2>3. n \in 1..MaxChain /\ \A i \in 1..n : Good(chain, i)
    BY <1>4, <2>2, GrantsIs
  <2>4. is_authentic(RootKey, chain)
    BY <2>2, <2>3, AuthenticIs
  <2>5. n >= 1 /\ chain[n].subject = k
    BY <1>4, <2>2, <2>3 DEF Last
  <2>6. ASSUME NEW i \in 1..n PROVE Reached(chain, i)
    BY <1>4, <2>2, <2>3 DEF Good, Sound, Within, Reached, Level, InStores
  <2> QED BY <1>1, <2>2, <2>4, <2>5, <2>6 DEF Routes
<1> QED BY <1>2, <1>3, <1>4

\* For any keys, certificates, host names, levels and revocations, a chain is accepted exactly if
\* its keys are signed as they are, each of its certificates bounds all that follow it and none is
\* known to be revoked, and the search finds one for a key exactly if the stores hold one with the
\* keys of its issuers (certificate_chain::is_authentic,
\* certificate_chain::add_link, create_certificate_chain).
THEOREM ChainsAreExact == ChainSpec => []ChainsExact
<1>1. ChainInit => ChainInv
  BY ChainStart
<1>2. ChainInv /\ [ChainNext]_chainVars => ChainInv'
  BY ChainStep
<1>3. ChainInv => ChainsExact
  BY ChainsAreSound, ChainsAreFound DEF ChainsExact
<1> QED BY <1>1, <1>2, <1>3, PTL DEF ChainSpec
=============================================================================
