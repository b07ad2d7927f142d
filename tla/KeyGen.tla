-------------------------------- MODULE KeyGen --------------------------------
(***************************************************************************)
(* infrastructure/keygen: sp_keygen, which keeps the root and CA material  *)
(* in a directory of four files and installs certified identities into     *)
(* stores.  It may be stopped between any two writes and run again; the    *)
(* operator may take root.priv away to keep it offline.  Keys are numbered *)
(* by the create() that generated them.                                    *)
(***************************************************************************)
EXTENDS Naturals

CONSTANTS
    MaxCreates,     \* bound: calls of create that get as far as new keys
    MaxStops        \* bound: times the tool is stopped half way

ASSUME KeyGenAssumption == MaxCreates \in Nat /\ MaxStops \in Nat

VARIABLES
    files,          \* the four files, by the create() they come from; 0 is no file
    material,       \* the pki object in memory, 0 when there is none
    tool,           \* what the running tool does next
    identity,       \* the stores: private key, chain, public key, by the CA that made them
    creates, stops

kgVars == <<files, material, tool, identity, creates, stops>>

KeyGenInit ==
    /\ files = [rootPriv |-> 0, rootPub |-> 0, caPriv |-> 0, caCert |-> 0]
    /\ material = 0 /\ tool = "idle"
    /\ identity = [priv |-> 0, chain |-> 0, pub |-> 0]
    /\ creates = 0 /\ stops = 0

\* The process ends with an error; the files and stores stay as they are.
Fails == tool' = "idle" /\ material' = 0 /\ UNCHANGED <<files, identity, creates>>

exists == files.rootPriv # 0

\* --init: new keys in memory, then the files one by one, the CA certificate last.
create ==
    /\ tool = "idle"
    /\ IF exists THEN Fails
       ELSE /\ creates < MaxCreates /\ creates' = creates + 1
            /\ material' = creates' /\ tool' = "rootPriv"
            /\ UNCHANGED <<files, identity>>
    /\ UNCHANGED stops

After(file) ==
    CASE file = "rootPriv" -> "rootPub" [] file = "rootPub" -> "caPriv"
      [] file = "caPriv" -> "caCert" [] file = "caCert" -> "identity"
write_files(file) ==
    /\ tool = file
    /\ files' = [files EXCEPT ![file] = material]
    /\ tool' = After(file)
    /\ UNCHANGED <<material, identity, creates, stops>>

load_Unchecked ==
    /\ tool = "idle"
    /\ IF files.rootPriv = 0 \/ files.caPriv = 0 \/ files.caCert = 0
       THEN Fails
       ELSE material' = files.caPriv /\ tool' = "identity" /\ UNCHANGED <<files, identity, creates>>
    /\ UNCHANGED stops

\* load: the files must be there, and the CA certificate must be from the root.
load ==
    /\ tool = "idle"
    /\ IF \/ files.rootPriv = 0 \/ files.caPriv = 0 \/ files.caCert = 0
          \/ files.caCert # files.rootPriv
       THEN Fails
       ELSE material' = files.caPriv /\ tool' = "identity" /\ UNCHANGED <<files, identity, creates>>
    /\ UNCHANGED stops

\* --server or --client: install_identity certifies a new key, unless the store has one.
install_identity ==
    /\ tool = "identity"
    /\ IF identity.priv # 0 THEN Fails
       ELSE /\ identity' = [identity EXCEPT !.priv = material] /\ tool' = "chain"
            /\ UNCHANGED <<files, material, creates>>
    /\ UNCHANGED stops
set_my_certificate_chain ==
    /\ tool = "chain"
    /\ identity' = [identity EXCEPT !.chain = material] /\ tool' = "pub"
    /\ UNCHANGED <<files, material, creates, stops>>
InsertPublicKey ==
    /\ tool = "pub"
    /\ identity' = [identity EXCEPT !.pub = material] /\ tool' = "idle" /\ material' = 0
    /\ UNCHANGED <<files, creates, stops>>

\* Neither --server nor --client: the tool prints the keys and ends.
PrintKeys == tool = "identity" /\ Fails /\ UNCHANGED stops

Stopped ==
    /\ tool # "idle" /\ stops < MaxStops /\ stops' = stops + 1
    /\ Fails

TakeOffline ==
    /\ tool = "idle" /\ files.rootPriv # 0
    /\ files' = [files EXCEPT !.rootPriv = 0]
    /\ UNCHANGED <<material, tool, identity, creates, stops>>

KeyGenNext ==
    \/ create \/ \E file \in DOMAIN files : write_files(file)
    \/ load \/ install_identity \/ set_my_certificate_chain \/ InsertPublicKey \/ PrintKeys
    \/ Stopped \/ TakeOffline

KeyGenSpec == KeyGenInit /\ [][KeyGenNext]_kgVars

-----------------------------------------------------------------------------
\* Key material that the tool works with is of one piece, wherever an earlier run was stopped:
\* the CA key, its certificate and the root public key that the processes load are of one
\* create(); and an identity that has a chain has the key it is for.
KeysWhole ==
    /\ tool \in {"identity", "chain", "pub"} =>
          material = files.caCert /\ material = files.rootPub /\ material = files.caPriv
    /\ identity.chain # 0 => identity.chain = identity.priv
    /\ identity.pub # 0 => identity.pub = identity.chain
=============================================================================
