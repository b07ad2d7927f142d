------------------------------ MODULE MCNetwork ------------------------------
(***************************************************************************)
(* The parts below and around a connection: framing, the sp handshake, the *)
(* server programs, the client's table of received packets; and what trust *)
(* rests on: certificates, the stores they are kept in, the database below *)
(* the stores and the tool that makes the keys.  They share no state here: *)
(* a behaviour moves one part, picked at the start.                        *)
(***************************************************************************)
EXTENDS Framing, Handshake, ServerProgram, InPackets, CertificateChain, Stores, Database, KeyGen

CONSTANTS Parts

VARIABLE part

netVars == <<frVars, hsVars, srvVars, inVars>>
trustVars == <<chainVars, storeVars, dbVars, kgVars>>
vars == <<part, netVars, trustVars>>

K(name) == [subject |-> name, root |-> "root", host |-> "host"]
\* A context set up for the pk and the ss handshake, and the ways another may differ from it.
Usual ==
    [version |-> 2, suite |-> "pq1", tags |-> {"pk", "ss"}, tag |-> "pk", key |-> "key",
     chain |-> K("key"), root |-> "root", host |-> "host", restrict |-> TRUE,
     authenticateRemote |-> TRUE, secretId |-> "id", secrets |-> [i \in {"id"} |-> "secret"]]
Vary(c) ==
    {c, [c EXCEPT !.version = 1], [c EXCEPT !.suite = "pq1_high"], [c EXCEPT !.tags = {"ss"}],
     [c EXCEPT !.tags = {"pk"}], [c EXCEPT !.tag = "ss"], [c EXCEPT !.key = Absent],
     [c EXCEPT !.chain = Absent], [c EXCEPT !.chain.root = "other"], [c EXCEPT !.key = "other"],
     [c EXCEPT !.chain.host = "other"], [c EXCEPT !.restrict = FALSE],
     [c EXCEPT !.authenticateRemote = FALSE], [c EXCEPT !.secrets["id"] = Absent],
     [c EXCEPT !.secrets["id"] = "other"]}
MCContexts ==
    Vary(Usual) \cup Vary([Usual EXCEPT !.tag = "ss"])
    \cup {[c EXCEPT !.key = Absent, !.authenticateRemote = FALSE] : c \in Vary(Usual)}

MCPayloads == {<<>>, <<1>>, <<1, 0>>, <<0, 1, 1>>}

Dotless == {<<>>, <<"a">>}
MCHostNames ==
    Dotless \cup {<<"b", ".", "a">>, <<"A">>, <<"b", "a">>, <<".", "a">>, <<"b">>,
                  <<"B", ".", "A">>, <<"c", ".", "b", ".", "a">>}

MCInit ==
    /\ part \in Parts
    /\ FramingInit /\ HandshakeInit /\ ServerInit /\ InPacketsInit
    /\ ChainInit /\ StoresInit /\ DatabaseInit /\ KeyGenInit
    /\ part # "stores" => kind = "values"       \* which store it is matters in that part alone

framing == part = "framing" /\ UNCHANGED <<part, hsVars, srvVars, inVars, trustVars>>
handshake == part = "handshake" /\ UNCHANGED <<part, frVars, srvVars, inVars, trustVars>>
server == part = "server" /\ UNCHANGED <<part, frVars, hsVars, inVars, trustVars>>

MCNext ==
    \/ framing /\ FramingNext
    \/ handshake /\ HandshakeNext
    \/ server /\ ServerNext
    \/ part = "inbox" /\ InPacketsNext /\ UNCHANGED <<part, frVars, hsVars, srvVars, trustVars>>
    \/ part = "chain" /\ ChainNext /\ UNCHANGED <<part, netVars, storeVars, dbVars, kgVars>>
    \/ part = "stores" /\ StoresNext /\ UNCHANGED <<part, netVars, chainVars, dbVars, kgVars>>
    \/ part = "database" /\ DatabaseNext /\ UNCHANGED <<part, netVars, chainVars, storeVars, kgVars>>
    \/ part = "keygen" /\ KeyGenNext /\ UNCHANGED <<part, netVars, chainVars, storeVars, dbVars>>

\* The connection keeps receiving and TLS delivers; a handshake packet is handled; a thread of
\* the server goes on.
Fairness ==
    /\ WF_vars(framing /\ (\/ async_receive_frame \/ read_failed
                           \/ \E n \in 1 .. Len(stream) : on_read(n)))
    /\ WF_vars(handshake /\ HandshakeNext)
    /\ WF_vars(server /\ Progress)

Spec == MCInit /\ [][MCNext]_vars /\ Fairness

\* Everything comes to its end: a handshake succeeds or fails on both sides, a frame that was
\* sent is received or refused, and a signal ends the server program unless a session was left
\* behind by its close.
NetworkEnds == HandshakesEnd /\ FramesArrive /\ SignalEnds
=============================================================================
