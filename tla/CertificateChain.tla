--------------------------- MODULE CertificateChain ---------------------------
(***************************************************************************)
(* crypto: key certificates, their revocation, and the chains that lead    *)
(* from the root key to a subject: verification, extension by one link,    *)
(* and the search for a chain in the stores.  Signatures are symbolic: a   *)
(* certificate names the key that signed it, and a key's own signature     *)
(* covers its content or does not.  A key is the same wherever it is held. *)
(* Host names are sequences of characters, because is_subset_of compares   *)
(* suffixes.                                                               *)
(***************************************************************************)
EXTENDS Integers, Sequences, FiniteSets, SequencesExt

CONSTANTS
    RootKey,        \* root_public_key()
    Keys,           \* the other keys
    Hosts,          \* the host name restrictions of certificates
    HostNames,      \* more host names, for the comparison itself
    Levels,         \* ca levels
    AnyLevel,       \* std::numeric_limits<int>::max(), above every ca level
    MaxChain,       \* max_chain_length
    MaxCerts,       \* bound: certificates issued
    MaxFlawed,      \* bound: certificates issued when something out of the ordinary happens
    NoCert          \* an empty optional

CaLevels == 0 .. AnyLevel - 1

ASSUME ChainAssumption ==
    /\ RootKey \notin Keys
    /\ AnyLevel \in Nat \ {0} /\ Levels \subseteq CaLevels
    /\ Hosts \cup HostNames \subseteq Seq(STRING)
    /\ MaxChain \in Nat /\ MaxCerts \in Nat
    /\ NoCert \notin Nat
    /\ NoCert \notin [level : Nat, host : Seq(STRING)]
    /\ NoCert \notin [previous : Keys \cup {RootKey}, level : Nat, host : Seq(STRING)]

VARIABLES
    issued,         \* certificates in the order they were made; the place is the id
    refs,           \* the certificate ids each public key references
    store,          \* what the verifier's certificate store holds of each id:
                    \* "absent", "plain", "revoked"
    selfSigned,     \* the keys whose signature covers their content
    keyStore        \* the keys that the verifier's key store holds

chainVars == <<issued, refs, store, selfSigned, keyStore>>

ChainInit ==
    /\ issued = <<>> /\ refs = [k \in Keys |-> {}] /\ store = <<>>
    /\ selfSigned = Keys /\ keyStore = Keys

-----------------------------------------------------------------------------
Lower(c) == CASE c = "A" -> "a" [] c = "B" -> "b" [] OTHER -> c
to_lower(h) == [i \in DOMAIN h |-> Lower(h[i])]

\* key_cert_restriction::is_subset_of: the same domain, or one below it.
is_subset_of(mine, other) ==
    \/ other = <<>>
    \/ LET o == to_lower(other)
           dotted == IF o[1] = "." THEN o ELSE <<".">> \o o
       IN  to_lower(mine) = o \/ IsSuffix(dotted, to_lower(mine))

merge(r1, r2) ==
    CASE is_subset_of(r1, r2) -> r1
      [] ~is_subset_of(r1, r2) /\ is_subset_of(r2, r1) -> r2
      [] OTHER -> NoCert

-----------------------------------------------------------------------------
\* A certificate as presented: the one issued, with the revocation that is stapled to it.
Cert(id) == issued[id]

\* certificate::is_revoked: the revocation names this certificate and its issuer signed it.
is_revoked(id, key) == Cert(id).revocation = [id |-> id, by |-> key]

\* certificate::is_authentic: signed by the key and not revoked by it.
cert_is_authentic(id, key) == Cert(id).signer = key /\ ~is_revoked(id, key)

verify_me(key) == key \in selfSigned

check_link_certificate(link, previous) ==
    /\ cert_is_authentic(link.cert, previous)
    /\ verify_me(link.subject)
    /\ Cert(link.cert).type = "key"
    /\ Cert(link.cert).signer = previous

check_link_data_FreeHost(link, data) ==
    LET c == Cert(link.cert)
    IN  IF /\ c.subject = link.subject /\ link.cert \in refs[link.subject]
           /\ c.level < data.level
        THEN [level |-> c.level, host |-> data.host] ELSE NoCert

\* The level and the restriction after the link, or NoCert if it fails.
check_link_data(link, data) ==
    LET c == Cert(link.cert)
    IN  IF /\ c.subject = link.subject /\ link.cert \in refs[link.subject]
           /\ c.level < data.level /\ is_subset_of(c.host, data.host)
        THEN [level |-> c.level, host |-> c.host] ELSE NoCert

check_link(link, previous, data) ==
    IF check_link_certificate(link, previous) THEN check_link_data(link, data) ELSE NoCert

\* is_revoked_in_store: the verifier's own copy carries a revocation by the issuer.
is_revoked_in_store(id) == store[id] = "revoked"

check_chain_element(at, link) ==
    LET data == IF at = NoCert THEN NoCert
                ELSE check_link(link, at.previous, [level |-> at.level, host |-> at.host])
    IN  IF data = NoCert \/ is_revoked_in_store(link.cert) THEN NoCert
        ELSE [previous |-> link.subject, level |-> data.level, host |-> data.host]

find_root_key(key) == key = RootKey

\* What chain_verify keeps from one link of the chain to the next.
chain_verify(chain) ==
    LET after[n \in 0 .. Len(chain)] ==
            IF n = 0 THEN [previous |-> RootKey, level |-> AnyLevel, host |-> <<>>]
            ELSE check_chain_element(after[n - 1], chain[n])
    IN  after

\* certificate_chain::is_authentic; a chain is the root's id and the links from it on.
is_authentic(root, chain) ==
    /\ Len(chain) \in 1 .. MaxChain /\ find_root_key(root)
    /\ chain_verify(chain)[Len(chain)] # NoCert

is_authentic_for(root, chain, host) ==
    is_authentic(root, chain) /\ is_subset_of(host, Cert(Last(chain).cert).host)

\* add_link, for an empty chain under a root key or one that has links.
add_link(chain, link) ==
    IF chain = <<>>
    THEN /\ find_root_key(Cert(link.cert).signer)
         /\ check_link(link, RootKey, [level |-> AnyLevel, host |-> <<>>]) # NoCert
    ELSE LET last == Cert(Last(chain).cert)
         IN  check_link(link, Last(chain).subject, [level |-> last.level, host |-> last.host])
             # NoCert

-----------------------------------------------------------------------------

\* chain_builder: from the subject to the root, through the certificates the keys reference
\* and the store has, each of a higher level than the one before, and the issuers' keys that the
\* key store has.  What build_list reaches is the set of complete lists it tries; it takes the
\* first that is authentic.
consider(key, id, last) ==
    /\ store[id] # "absent" /\ Cert(id).type = "key"
    /\ last = NoCert \/ last < Cert(id).level

follow_issuer(cert, list, onwards) ==
    IF find_root_key(cert.signer) THEN {list}
    ELSE IF cert.signer \in keyStore THEN {above \o list : above \in onwards}
    ELSE {}

build_list[at \in Keys \X (CaLevels \cup {NoCert})] ==
    UNION {follow_issuer(Cert(id), <<[subject |-> at[1], cert |-> id]>>,
                         build_list[<<Cert(id).signer, Cert(id).level>>])
           : id \in {i \in refs[at[1]] : consider(at[1], i, at[2])}}

try_complete(list) == is_authentic(RootKey, list)

create_certificate_chain(subject) == {list \in build_list[<<subject, NoCert>>] : try_complete(list)}

-----------------------------------------------------------------------------
\* Every certificate is a key certificate that its subject references, and the stores hold them
\* all and the keys, which are signed.
Ordinary ==
    /\ selfSigned = Keys /\ keyStore = Keys
    /\ \A i \in DOMAIN issued :
          /\ Cert(i).type = "key" /\ Cert(i).revocation = NoCert
          /\ i \in refs[Cert(i).subject] /\ store[i] = "plain"

\* create_key_certificate by the owner of a key, whose subject then references it, and is signed
\* again, or does not; other certificate types are made the same way.
create_certificate(signer, subject, type, level, host, attach, known) ==
    /\ Len(issued) < MaxCerts /\ Ordinary
    /\ issued # <<>> => level <= Last(issued).level     \* the ids are only names: any order does
    /\ issued' = Append(issued, [signer |-> signer, subject |-> subject, type |-> type,
                                 level |-> level, host |-> host, revocation |-> NoCert])
    /\ refs' = IF attach THEN [refs EXCEPT ![subject] = @ \cup {Len(issued) + 1}] ELSE refs
    /\ store' = Append(store, IF known THEN "plain" ELSE "absent")
    /\ UNCHANGED <<selfSigned, keyStore>>

\* revoke_certificate by the issuer, or a revocation of another certificate or by another key
\* that is stapled to this one; the verifier's store learns of a proper one, or does not.
revoke_certificate(id, rev, told) ==
    /\ Len(issued) = MaxFlawed /\ id \in DOMAIN issued
    /\ Ordinary
    /\ issued' = [issued EXCEPT ![id].revocation = IF told THEN NoCert ELSE rev]
    /\ store' = IF told /\ rev = [id |-> id, by |-> Cert(id).signer]
                THEN [store EXCEPT ![id] = "revoked"] ELSE store
    /\ UNCHANGED <<refs, selfSigned, keyStore>>

\* add_certificate_id, or another change of a key's content, without sign_me after it.
change_key(k) ==
    /\ Len(issued) = MaxFlawed /\ Ordinary
    /\ selfSigned' = selfSigned \ {k}
    /\ UNCHANGED <<issued, refs, store, keyStore>>

\* The verifier does not have a key.
LacksKey(k) ==
    /\ Len(issued) = MaxFlawed /\ Ordinary
    /\ keyStore' = keyStore \ {k}
    /\ UNCHANGED <<issued, refs, store, selfSigned>>

ChainNext ==
    \/ \E signer \in Keys \cup {RootKey}, subject \in Keys, level \in Levels, host \in Hosts :
          create_certificate(signer, subject, "key", level, host, TRUE, TRUE)
    \/ \E signer \in Keys \cup {RootKey}, subject \in Keys, type \in {"key", "identifier"},
         attach, known \in BOOLEAN :
          Len(issued) < MaxFlawed /\ create_certificate(signer, subject, type, 0, <<>>, attach, known)
    \/ \E id, other \in DOMAIN issued, by \in Keys \cup {RootKey}, told \in BOOLEAN :
          revoke_certificate(id, [id |-> other, by |-> by], told)
    \/ \E k \in Keys : change_key(k) \/ LacksKey(k)

-----------------------------------------------------------------------------
Links == {[subject |-> k, cert |-> i] : k \in Keys, i \in DOMAIN issued}
Chains == UNION {[1 .. n -> Links] : n \in 0 .. MaxCerts}

\* A name is below another if it is the other with whole labels in front; the empty name is
\* above all.
Below(mine, other) ==
    \/ other = <<>>
    \/ \E n \in 0 .. Len(mine) :
          /\ to_lower(SubSeq(mine, n + 1, Len(mine))) = to_lower(other)
          /\ n = 0 \/ mine[n] = "." \/ other[1] = "."

\* Host names nest: what is below a name that is below another is below that one too, and
\* merge takes the tighter of two.  (The names do not change: a few states check it.)
HostsNest ==
    Len(issued) = 1 /\ store = <<"absent">> =>
        \A x, y, z \in HostNames :
            /\ is_subset_of(x, y) <=> Below(x, y)
            /\ is_subset_of(x, y) /\ is_subset_of(y, z) => is_subset_of(x, z)
            /\ merge(x, y) # NoCert => is_subset_of(merge(x, y), x) /\ is_subset_of(merge(x, y), y)

\* The declaration the checks stand for: each certificate was made by the key before it (the
\* root first) for the key of its link, which is signed as it is and names it; no verifier may
\* know it revoked; and every certificate bounds all that follow it, in level and in host.
Grants(chain) ==
    /\ Len(chain) \in 1 .. MaxChain
    /\ \A i \in DOMAIN chain :
          LET c == Cert(chain[i].cert)
          IN  /\ c.signer = (IF i = 1 THEN RootKey ELSE chain[i - 1].subject)
              /\ c.subject = chain[i].subject /\ c.type = "key"
              /\ verify_me(chain[i].subject) /\ chain[i].cert \in refs[chain[i].subject]
              /\ store[chain[i].cert] # "revoked"
              /\ c.revocation # [id |-> chain[i].cert, by |-> c.signer]
              /\ \A j \in DOMAIN chain : i < j =>
                    LET d == Cert(chain[j].cert)
                    IN  d.level < c.level /\ Below(d.host, c.host)

\* is_authentic accepts exactly the chains in which every certificate bounds all that come
\* after it, and add_link accepts exactly the links that keep a chain authentic, apart from the
\* two checks it leaves to is_authentic (the store's revocations, the length).  A host that the
\* chain is accepted for is one that every certificate of it admits.
ChainsSound ==
    HostsNest /\
    \A chain \in Chains :
        /\ is_authentic(RootKey, chain) <=> Grants(chain)
        /\ Grants(chain) => \A host \in HostNames :
              is_authentic_for(RootKey, chain, host) <=>
                  \A i \in DOMAIN chain : Below(host, Cert(chain[i].cert).host)
        /\ chain # <<>> /\ (Len(chain) > 1 => is_authentic(RootKey, Front(chain))) =>
              (is_authentic(RootKey, chain) <=>
                 /\ add_link(Front(chain), Last(chain))
                 /\ store[Last(chain).cert] # "revoked" /\ Len(chain) <= MaxChain)

\* create_certificate_chain finds a chain for every key that has one in the stores, which have
\* to hold its certificates and the keys that issued them.
ChainsFound ==
    \A k \in Keys :
        (create_certificate_chain(k) # {}) <=>
            \E chain \in Chains :
                /\ Grants(chain) /\ Last(chain).subject = k
                /\ \A i \in DOMAIN chain :
                      /\ store[chain[i].cert] # "absent"
                      /\ i > 1 => chain[i - 1].subject \in keyStore

\* Verification and search agree with what the certificates grant: a chain is accepted if and
\* only if each of its certificates bounds all that follow, and one is found if there is one.
ChainsExact == ChainsSound /\ ChainsFound
=============================================================================
