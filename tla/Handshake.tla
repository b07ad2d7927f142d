------------------------------ MODULE Handshake ------------------------------
(***************************************************************************)
(* network: the sp handshake inside one TLS channel, from the client_hello *)
(* to the last packet.  Both ends are the class handshake, which drives    *)
(* the hellos and then a pk or an ss handshake.  Keys, chains, signatures  *)
(* and MACs are symbolic: a signature is the pair of the key and of what   *)
(* it covers.                                                              *)
(***************************************************************************)
EXTENDS Naturals, Sequences

CONSTANTS
    Contexts,       \* the configurations of network::context, per side
    Channels,       \* what the exporters of the two ends belong to: one channel, or two
    Absent          \* an empty optional

Sides == {"client", "server"}
Peer(s) == IF s = "client" THEN "server" ELSE "client"

\* An empty optional is neither a context nor credentials, and a context knows the constructors of
\* the pk and the ss handshake or of one of them.
ASSUME ContextAssumption ==
    /\ Absent \notin Contexts
    /\ \A c \in Contexts : c.tags \subseteq {"pk", "ss"}
    /\ \A c \in Contexts, ch \in Channels, s \in Sides :
          Absent # [key |-> c.key, chain |-> c.chain,
                    sig |-> <<c.key, <<ch, s, "client id", "server id">>>>]

VARIABLES
    conf,           \* the context of each side, Absent before it is set up
    chan,           \* the TLS channel of each side's exporter
    hs,             \* the handshake object of each side
    result,         \* the state of its last handshake_result
    inbox,          \* frames on their way to each side
    disclosed       \* the client's credentials have left it

hsVars == <<conf, chan, hs, result, inbox, disclosed>>

NewHandshake ==
    [helloSent |-> FALSE, concrete |-> "none", verified |-> FALSE, remote |-> Absent,
     clientId |-> Absent, serverId |-> Absent, tag |-> "unknown"]

HandshakeInit ==
    /\ conf = [s \in Sides |-> Absent] /\ chan = [s \in Sides |-> Absent]
    /\ hs = [s \in Sides |-> NewHandshake]
    /\ result = [s \in Sides |-> "none"]
    /\ inbox = [s \in Sides |-> <<>>]
    /\ disclosed = FALSE

\* Both programs build their context and the TLS handshake has succeeded.
Configure ==
    /\ conf["client"] = Absent
    /\ conf' \in [Sides -> Contexts]
    /\ chan' \in [Sides -> Channels]
    /\ UNCHANGED <<hs, result, inbox, disclosed>>

-----------------------------------------------------------------------------
\* The exporter over (role || client_id || server_id), for us and for the peer.
derive_binding(s, h) ==
    LET over(role) == <<chan[s], role, h.clientId, h.serverId>>
    IN  [local |-> over(s), remote |-> over(Peer(s))]

Step(state, packet, h) == [state |-> state, packet |-> packet, hs |-> h]
Fail(h) == Step("error", Absent, h)

make_auth(s, h) ==
    [type |-> "auth",
     creds |-> IF conf[s].key = Absent \/ conf[s].chain = Absent THEN Absent
               ELSE [key |-> conf[s].key, chain |-> conf[s].chain,
                     sig |-> <<conf[s].key, derive_binding(s, h).local>>]]

\* certificate_chain::is_authentic, with the host name when the client restricts to it.
Authentic(s, chain, restrict) == chain.root = conf[s].root /\ (restrict => chain.host = conf[s].host)

verify_credentials_AnySubject(s, h, creds, restrict) ==
    /\ Authentic(s, creds.chain, restrict)
    /\ creds.sig = <<creds.key, derive_binding(s, h).remote>>

verify_credentials(s, h, creds, restrict) ==
    /\ Authentic(s, creds.chain, restrict)
    /\ creds.chain.subject = creds.key
    /\ creds.sig = <<creds.key, derive_binding(s, h).remote>>

verify_server_and_reply(h, p) ==
    IF p.creds = Absent \/ ~verify_credentials("client", h, p.creds, conf["client"].restrict)
    THEN Fail(h)
    ELSE Step("in_progress", make_auth("client", h),
              [h EXCEPT !.verified = TRUE, !.remote = p.creds.key])

client_pk_handle_packet(h, p) ==
    IF ~h.verified /\ p.type = "auth" THEN verify_server_and_reply(h, p)
    ELSE IF h.verified /\ p.type = "ack" /\ p.version = conf["client"].version
         THEN Step("succeeded", Absent, h) ELSE Fail(h)

Ack == [type |-> "ack", version |-> conf["server"].version]

server_pk_start(h) ==
    IF make_auth("server", h).creds = Absent THEN Fail(h)
    ELSE Step("in_progress", make_auth("server", h), h)

server_pk_handle_packet(h, p) ==
    IF p.type # "auth" THEN Fail(h)
    ELSE IF p.creds = Absent
    THEN IF conf["server"].authenticateRemote THEN Fail(h) ELSE Step("succeeded", Ack, h)
    ELSE IF verify_credentials("server", h, p.creds, FALSE)
         THEN Step("succeeded", Ack, [h EXCEPT !.remote = p.creds.key]) ELSE Fail(h)

make_auth_ss(s, h, id) ==
    IF conf[s].secrets[id] = Absent THEN Absent
    ELSE [type |-> "auth_ss", id |-> id,
          mac |-> <<conf[s].secrets[id], derive_binding(s, h).local>>]

verify_auth_ss(s, h, p) ==
    /\ conf[s].secrets[p.id] # Absent
    /\ p.mac = <<conf[s].secrets[p.id], derive_binding(s, h).remote>>

client_ss_start(h) ==
    LET p == make_auth_ss("client", h, conf["client"].secretId)
    IN  IF p = Absent THEN Fail(h) ELSE Step("in_progress", p, h)

client_ss_handle_packet(h, p) ==
    IF /\ p.type = "auth_ss" /\ p.id = conf["client"].secretId
       /\ verify_auth_ss("client", h, p)
    THEN Step("succeeded", Absent, h) ELSE Fail(h)

server_ss_handle_packet(h, p) ==
    IF p.type = "auth_ss" /\ verify_auth_ss("server", h, p)
    THEN Step("succeeded", make_auth_ss("server", h, p.id), h) ELSE Fail(h)

\* context::construct_handshake, which finds the constructor of the tag or throws.
construct_handshake(s, h, tag) == [h EXCEPT !.concrete = IF tag \in conf[s].tags THEN tag ELSE "none"]

concrete_handle_packet(s, h, p) ==
    CASE h.concrete = "pk" /\ s = "client" -> client_pk_handle_packet(h, p)
      [] h.concrete = "pk" /\ s = "server" -> server_pk_handle_packet(h, p)
      [] h.concrete = "ss" /\ s = "client" -> client_ss_handle_packet(h, p)
      [] h.concrete = "ss" /\ s = "server" -> server_ss_handle_packet(h, p)

-----------------------------------------------------------------------------
client_hello(id) ==
    [type |-> "client_hello", version |-> conf["client"].version, suite |-> conf["client"].suite,
     tag |-> conf["client"].tag, id |-> id]

server_hello(tag, id, auth) ==
    [type |-> "server_hello", version |-> conf["server"].version, suite |-> conf["server"].suite,
     tag |-> tag, id |-> id, auth |-> auth]

handle_client_hello(h, p) ==
    IF \/ p.type # "client_hello" \/ p.version # conf["server"].version
       \/ p.suite # conf["server"].suite
    THEN Fail(h)
    ELSE LET made == construct_handshake("server",
                        [h EXCEPT !.clientId = p.id, !.serverId = "server id", !.tag = p.tag], p.tag)
             first == IF made.concrete = "pk" THEN server_pk_start(made)
                      ELSE Step("in_progress", Absent, made)
         IN  IF made.concrete = "none" \/ first.state = "error" THEN Fail(made)
             ELSE Step("in_progress", server_hello(p.tag, made.serverId, first.packet), made)

handle_server_hello(h, p) ==
    IF \/ p.type # "server_hello" \/ p.version # conf["client"].version
       \/ p.tag # h.tag \/ p.suite # conf["client"].suite
    THEN Fail(h)
    ELSE LET made == construct_handshake("client", [h EXCEPT !.serverId = p.id], h.tag)
         IN  IF made.concrete = "none" THEN Fail(made)
             ELSE IF p.auth # Absent THEN concrete_handle_packet("client", made, p.auth)
             ELSE IF made.concrete = "ss" THEN client_ss_start(made) ELSE Fail(made)

handle_packet(s, p) ==
    IF hs[s].helloSent THEN handle_server_hello([hs[s] EXCEPT !.helloSent = FALSE], p)
    ELSE IF hs[s].concrete = "none" THEN handle_client_hello(hs[s], p)
    ELSE concrete_handle_packet(s, hs[s], p)

\* encrypted_connection_impl sends the packet of a result and goes on as its state says.
advance_handshake(s, r, rest) ==
    /\ hs' = [hs EXCEPT ![s] = r.hs]
    /\ result' = [result EXCEPT ![s] = r.state]
    /\ inbox' = [inbox EXCEPT ![s] = rest,
                    ![Peer(s)] = IF r.state = "error" \/ r.packet = Absent THEN @
                                 ELSE Append(@, r.packet)]
    /\ disclosed' = (disclosed \/ /\ s = "client" /\ r.packet # Absent
                                  /\ r.packet.type = "auth" /\ r.packet.creds # Absent)
    /\ UNCHANGED <<conf, chan>>

start ==
    /\ conf["client"] # Absent /\ result["client"] = "none"
    /\ LET h == [hs["client"] EXCEPT !.helloSent = TRUE, !.clientId = "client id",
                                      !.tag = conf["client"].tag]
       IN  advance_handshake("client", Step("in_progress", client_hello(h.clientId), h), <<>>)

on_handshake_frame(s) ==
    /\ inbox[s] # <<>> /\ result[s] \in {"none", "in_progress"}
    /\ advance_handshake(s, handle_packet(s, Head(inbox[s])), Tail(inbox[s]))

\* The other end failed and closed the connection; its packets have been handled.
PeerClosed(s) ==
    /\ inbox[s] = <<>> /\ result[s] \in {"none", "in_progress"} /\ result[Peer(s)] = "error"
    /\ result' = [result EXCEPT ![s] = "error"]
    /\ UNCHANGED <<conf, chan, hs, inbox, disclosed>>

HandshakeNext ==
    \/ Configure \/ start
    \/ \E s \in Sides : on_handshake_frame(s) \/ PeerClosed(s)

HandshakeSpec == HandshakeInit /\ [][HandshakeNext]_hsVars

-----------------------------------------------------------------------------
Succeeded(s) == result[s] = "succeeded"
OneChannel == chan["client"] = chan["server"]

\* What each end learns of the other is so: the client succeeds only once the server accepted
\* it; an end that succeeded talks over the channel the
\* other end authenticated, and remote_public_key is the key the peer holds and is certified
\* for (none for an anonymous client, which only a server that allows it accepts), or both
\* hold the secret the client named.
PeersAgree ==
    \A s \in Sides : Succeeded(s) =>
        /\ Succeeded("server")
        /\ hs[s].concrete = hs["client"].tag
        /\ s = "client" \/ hs["client"].concrete = hs["server"].concrete
        /\ hs[s].concrete = "pk" =>
              /\ hs[s].remote # Absent => OneChannel /\ hs[s].remote = conf[Peer(s)].key
                                          /\ hs[s].remote = conf[Peer(s)].chain.subject
              /\ hs[s].remote = Absent =>
                    /\ s = "server" /\ ~conf[s].authenticateRemote
                    /\ conf["client"].key = Absent \/ conf["client"].chain = Absent
        /\ hs[s].concrete = "ss" =>
              LET id == conf["client"].secretId
              IN  OneChannel /\ conf["client"].secrets[id] = conf["server"].secrets[id]

\* The client shows who it is only to a server that holds a key certified under the client's
\* root, for the host it meant, at the other end of its own channel.
DisclosedToVerified ==
    disclosed => /\ OneChannel
                 /\ conf["server"].key = conf["server"].chain.subject
                 /\ Authentic("client", conf["server"].chain, conf["client"].restrict)

\* Every handshake comes to an end on both sides; two ends that are set up for each other come
\* to an agreement, whatever else they enable.
Compatible ==
    /\ OneChannel /\ conf["client"] # Absent
    /\ LET c == conf["client"] srv == conf["server"]
           good(k) == k.key # Absent /\ k.chain # Absent
       IN  /\ c.version = srv.version /\ c.suite = srv.suite /\ c.tag \in c.tags \cap srv.tags
           /\ c.tag = "pk" =>
                 /\ good(srv) /\ srv.key = srv.chain.subject
                 /\ Authentic("client", srv.chain, c.restrict)
                 /\ IF good(c) THEN c.key = c.chain.subject /\ Authentic("server", c.chain, FALSE)
                    ELSE ~srv.authenticateRemote
           /\ c.tag = "ss" =>
                 /\ c.secrets[c.secretId] # Absent
                 /\ c.secrets[c.secretId] = srv.secrets[c.secretId]
HandshakesEnd ==
    /\ conf["client"] # Absent ~> \A s \in Sides : result[s] \in {"succeeded", "error"}
    /\ Compatible ~> Succeeded("client") /\ Succeeded("server")

\* The handshake keeps both ends' trust: each end knows whom it talks to, and the client names
\* itself only to a server it has verified.
TrustKept == PeersAgree /\ DisclosedToVerified
=============================================================================
