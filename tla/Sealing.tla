------------------------------ MODULE Sealing ------------------------------
(***************************************************************************)
(* Authenticated streams and envelopes (crypto/aes_gcm.cpp,                *)
(* enveloped_content.cpp, encrypted_content.cpp, encrypted_key.cpp, the    *)
(* encryption of public_key.cpp and private_key.cpp, detail/               *)
(* hybrid_kem.cpp).                                                        *)
(*                                                                         *)
(* The ciphers of Botan are ideal: an octet carries the set of keystream   *)
(* positions it was combined with, and combining it with one again removes *)
(* it; a tag is equal to another exactly when key, nonce, additional data  *)
(* and plaintext are; an agreement or encapsulation yields the same secret *)
(* only at both of its ends.  Random values are taken from a counter.      *)
(*                                                                         *)
(* A sender and a receiver use a pair of ciphers, for one message or with  *)
(* an implicit counter; an enveloper makes envelopes, to which recipients  *)
(* are added later.                                                        *)
(***************************************************************************)
EXTENDS Integers, Sequences, FiniteSets, FiniteSetsExt

CONSTANTS
    OctetValues,          \* values of an octet
    MaxData,         \* aes_gcm_max_data_size: octets under one nonce
    CounterRange,    \* the counter's values, 2^64 in the code
    MaxMessages,     \* bound: messages sent on the stream
    MaxReads,        \* bound: messages the receiver reads
    PrivateKeys,     \* [valid, suite, sig, x, pq]: a key pair, by its parts
    MaxRecipients,   \* bound: recipients added to the enveloper or to an envelope
    NoMessage

\* The values of octets, tags and messages.
Positions == Int \X Seq(Nat) \X Nat
Octets == [v : OctetValues, keystream : SUBSET Positions]
Nonces == {0} \X Nat
Tags == [key : {0}, nonce : Nonces, aad : Seq(OctetValues), plain : Seq(Octets)]
Arrivals == [sound : BOOLEAN, meant : Seq(Octets), counter : Nat, aad : Seq(OctetValues), tag : Tags,
             data : Seq(Octets)]

\* There is another octet than the one sent, the counter has a value for each message (2^64 in the
\* code), and the value for "no message" is none.
ASSUME SealingAssumption ==
    /\ OctetValues # {} /\ \A v \in OctetValues : \E w \in OctetValues : w # v
    /\ CounterRange \in Nat \ {0} /\ MaxMessages \in Nat /\ MaxMessages <= CounterRange /\ MaxData \in Nat
    /\ NoMessage \notin Arrivals

VARIABLES
    enc, dec,        \* the sender's and the receiver's cipher
    draft,           \* the message being sent: [aad, data]
    msgs,            \* messages sent: [counter, aad, data, tag, plain]
    reading,         \* the message being read, as it arrived, or NoMessage
    progress,        \* what reading it gave: [aad, given, plain]
    verdicts,        \* [sound, accepted, plain, meant] of the messages read
    random,          \* random values drawn
    env,             \* the enveloper: [data, sym, keys]
    content          \* the enveloped_content made last, or NoMessage

streamVars == <<enc, dec, draft, msgs, reading, progress, verdicts>>
envelopeVars == <<random, env, content>>
sealVars == <<streamVars, envelopeVars>>

Plain(v) == [v |-> v, keystream |-> {}]
Blank == [aad |-> <<>>, data |-> <<>>]

-----------------------------------------------------------------------------
\* The cipher object.  CTR combines each octet with the keystream at its position.
cipher(c, data) ==
    [i \in DOMAIN data |->
        [data[i] EXCEPT !.keystream = SymDiff(@, {<<c.key, c.nonce, Len(c.plain) + i>>})]]

\* start: a message under the given nonce.
gcm_start(c, nonce) == [c EXCEPT !.nonce = nonce, !.aad = <<>>, !.plain = <<>>]

\* check_usable and the length check of process: otherwise they throw and change nothing.
may_process(c, n) == ~c.finished /\ n <= MaxData - Len(c.plain)

process(c, data) ==
    [c EXCEPT !.plain = @ \o (IF c.encrypt THEN data ELSE cipher(c, data))]
process_auth(c, data) == [c EXCEPT !.aad = @ \o data]

tag(c) == [key |-> c.key, nonce |-> c.nonce, aad |-> c.aad, plain |-> c.plain]

\* single_message_gcm: one message under the nonce given; it cannot seek.
single_message(key, nonce, encrypt) ==
    [key |-> key, encrypt |-> encrypt, single |-> TRUE, finished |-> FALSE, nonce |-> nonce,
     aad |-> <<>>, plain |-> <<>>, counter |-> 0]

\* implicit_counter_gcm: the nonce is the prefix and the counter, which each message moves on.
StreamIv == 0
next_nonce(c) == gcm_start([c EXCEPT !.counter = (@ + 1) % CounterRange], <<StreamIv, c.counter>>)
implicit_counter(key, counter, encrypt) ==
    next_nonce([single_message(key, <<>>, encrypt) EXCEPT !.single = FALSE, !.counter = counter])
\* Changed: what the message given up left behind stays.
seek_Lazy(c, counter) == [c EXCEPT !.counter = (counter + 1) % CounterRange, !.nonce = <<StreamIv, counter>>]
seek(c, counter) == next_nonce([c EXCEPT !.counter = counter])

\* After tag() a single message's cipher is finished, the other goes on with the next nonce.
finish(c) == [c EXCEPT !.finished = TRUE, !.aad = <<>>, !.plain = <<>>]
after_tag(c) == IF c.single THEN finish(c) ELSE next_nonce(c)

-----------------------------------------------------------------------------
StreamInit ==
    /\ \/ enc = implicit_counter(0, 0, TRUE) /\ dec = implicit_counter(0, 0, FALSE)
       \/ enc = single_message(0, <<StreamIv, 0>>, TRUE) /\ dec = single_message(0, <<StreamIv, 0>>, FALSE)
    /\ draft = Blank /\ msgs = <<>> /\ verdicts = {}
    /\ reading = NoMessage
    /\ progress = [aad |-> FALSE, given |-> 0, plain |-> <<>>]

\* The sender feeds a piece of its message, data or additional data, in any order.
EncryptPiece(data) ==
    /\ Len(msgs) < MaxMessages /\ may_process(enc, Len(data))
    /\ draft' = [draft EXCEPT !.data = @ \o cipher(enc, data)]
    /\ enc' = process(enc, data)
    /\ UNCHANGED <<dec, msgs, reading, progress, verdicts>>

EncryptAuth(a) ==
    /\ Len(msgs) < MaxMessages /\ draft.aad = <<>> /\ ~enc.finished
    /\ draft' = [draft EXCEPT !.aad = <<a>>]
    /\ enc' = process_auth(enc, <<a>>)
    /\ UNCHANGED <<dec, msgs, reading, progress, verdicts>>

EncryptTag ==
    /\ Len(msgs) < MaxMessages /\ ~enc.finished
    /\ msgs' = Append(msgs, [counter |-> enc.nonce[2], aad |-> draft.aad, data |-> draft.data, tag |-> tag(enc),
                             plain |-> enc.plain])
    /\ enc' = after_tag(enc) /\ draft' = Blank
    /\ UNCHANGED <<dec, reading, progress, verdicts>>

\* Damage on the way: the first octet has another value.
Changed(octets) == [octets EXCEPT ![1].v = CHOOSE v \in OctetValues : v # @]

\* A message arrives, in any order, again or not at all, whole or damaged, and the receiver turns to
\* it, through with the one before or not: it seeks, unless the message is the next one in order.
Receive(i, sound, seeks) ==
    LET m == msgs[i]
        got == [sound |-> sound, meant |-> m.plain, counter |-> m.counter, aad |-> m.aad, tag |-> m.tag,
                data |-> IF sound THEN m.data ELSE Changed(m.data)]
    IN  /\ Cardinality(verdicts) < MaxReads
        /\ sound \/ m.data # <<>>
        /\ IF seeks THEN ~dec.single
           ELSE reading = NoMessage /\ ~dec.finished /\ dec.nonce = <<StreamIv, m.counter>>
        /\ reading' = got
        /\ progress' = [aad |-> FALSE, given |-> 0, plain |-> <<>>]
        /\ dec' = IF seeks THEN seek(dec, m.counter) ELSE dec
        /\ UNCHANGED <<enc, draft, msgs, verdicts>>

DecryptPiece(n) ==
    /\ reading # NoMessage /\ progress.given + n <= Len(reading.data) /\ may_process(dec, n)
    /\ LET piece == SubSeq(reading.data, progress.given + 1, progress.given + n) IN
       /\ progress' = [progress EXCEPT !.given = @ + n, !.plain = @ \o cipher(dec, piece)]
       /\ dec' = process(dec, piece)
    /\ UNCHANGED <<enc, draft, msgs, reading, verdicts>>

DecryptAuth ==
    /\ reading # NoMessage /\ ~progress.aad /\ ~dec.finished
    /\ progress' = [progress EXCEPT !.aad = TRUE]
    /\ dec' = process_auth(dec, reading.aad)
    /\ UNCHANGED <<enc, draft, msgs, reading, verdicts>>

\* tag() and tag_matches at the end of the message.
DecryptTag ==
    /\ reading # NoMessage /\ ~dec.finished /\ progress.aad /\ progress.given = Len(reading.data)
    /\ verdicts' = verdicts \cup {[sound |-> reading.sound, meant |-> reading.meant, plain |-> progress.plain,
                                   accepted |-> tag(dec) = reading.tag]}
    /\ dec' = after_tag(dec) /\ reading' = NoMessage
    /\ UNCHANGED <<enc, draft, msgs, progress>>

StreamNext ==
    \/ \E v \in OctetValues : EncryptPiece(<<Plain(v)>>) \/ EncryptAuth(v)
    \/ EncryptTag
    \/ \E i \in DOMAIN msgs, sound, seeks \in BOOLEAN : Receive(i, sound, seeks)
    \/ \E n \in 1 .. MaxData : DecryptPiece(n)
    \/ DecryptAuth \/ DecryptTag

-----------------------------------------------------------------------------
\* Keys.  A pair's parts name both halves of it; only whoever has the private key takes apart what
\* was encapsulated to it.
construct_id(k) == [suite |-> k.suite, sig |-> k.sig, x |-> k.x, pq |-> k.pq]

\* Keys have ids of their own.
ASSUME KeyAssumption ==
    /\ \A k \in PrivateKeys : k.valid \in BOOLEAN
    /\ \A k, l \in PrivateKeys : construct_id(k) = construct_id(l) => k = l

combine_shared_secrets(suite, ss_pq, ss_x, ct_x, pk_x) ==
    [suite |-> suite, pq |-> ss_pq, x |-> ss_x, ct |-> ct_x, pk |-> pk_x]

\* An agreement is the same from both sides; r is what is drawn for this encapsulation.
x_agree(a, b) == {a, b}
kem_encapsulate(k, r) ==
    [ct_x |-> <<"ephemeral", r>>, ct_pq |-> <<k.pq, r>>,
     key |-> combine_shared_secrets(k.suite, <<k.pq, r>>, x_agree(<<"ephemeral", r>>, <<k.x, 0>>),
                                    <<"ephemeral", r>>, k.x)]

\* Another key's ciphertext gives a key nobody has, without an error.
kem_decapsulate(k, ct_x, ct_pq) ==
    combine_shared_secrets(k.suite, IF ct_pq[1] = k.pq THEN ct_pq ELSE <<k.pq, -1>>,
                           x_agree(ct_x, <<k.x, 0>>), ct_x, k.x)

\* public_key::encrypt: the payload under the encapsulated key, bound to the key's id.
public_key_encrypt(k, plain, r) ==
    LET e == kem_encapsulate(k, r) IN
    [version |-> 1, suite |-> k.suite, ct_x |-> e.ct_x, ct_pq |-> e.ct_pq,
     sealed |-> [key |-> e.key, aad |-> construct_id(k), iv |-> r, plain |-> plain]]

\* private_key::decrypt: the ciphertext must be of this version and suite, and open under the key that
\* is decapsulated.
Bad(why) == [ok |-> FALSE, plain |-> why]
parse_ciphertext(k, ct) == ct.version = 1 /\ ct.suite = k.suite
open(key, id, ct) == ct.sealed.key = key /\ ct.sealed.aad = id
private_key_decrypt(k, ct) ==
    IF parse_ciphertext(k, ct) /\ k.valid /\ open(kem_decapsulate(k, ct.ct_x, ct.ct_pq), construct_id(k), ct)
    THEN [ok |-> TRUE, plain |-> ct.sealed.plain]
    ELSE Bad("bad_ciphertext")

encrypt_key(k, sym, r) == [key_id |-> construct_id(k), data |-> public_key_encrypt(k, sym, r)]
decrypt_key(k, entry) ==
    IF entry.key_id # construct_id(k) THEN Bad("wrong_key") ELSE private_key_decrypt(k, entry.data)

-----------------------------------------------------------------------------
\* encrypt and decrypt of encrypted_content; the iv is additional data too.
encrypt(data, sym, iv) ==
    LET c == process(process_auth(single_message(sym, <<iv>>, TRUE), <<iv>>), data) IN
    [iv |-> iv, encrypted |-> cipher(single_message(sym, <<iv>>, TRUE), data), tag |-> tag(c)]

decrypt(ec, sym) ==
    LET c == process(process_auth(single_message(sym, <<ec.iv>>, FALSE), <<ec.iv>>), ec.encrypted) IN
    IF tag(c) = ec.tag THEN [ok |-> TRUE, plain |-> c.plain] ELSE Bad("invalid_tag")

\* enveloped_content::decrypt: the first entry for the key counts.
decrypt_envelope(en, k) ==
    LET mine == {i \in DOMAIN en.keys : en.keys[i].key_id = construct_id(k)} IN
    IF mine = {} THEN Bad("wrong_key")
    ELSE LET sym == decrypt_key(k, en.keys[Min(mine)]) IN
         IF sym.ok THEN decrypt(en, sym.plain) ELSE sym

EnvelopeInit ==
    /\ random = 1
    /\ env = [data |-> <<Plain(CHOOSE v \in OctetValues : TRUE)>>, sym |-> 1, keys |-> <<>>, added |-> {}]
    /\ content = NoMessage

Entries == Len(env.keys) + (IF content = NoMessage THEN 0 ELSE Len(content.late))

\* enveloper::add; an empty public key cannot encrypt, so nothing is added.
enveloper_add(k) ==
    /\ Entries < MaxRecipients
    /\ IF k.valid
       THEN /\ random' = random + 1
            /\ env' = [env EXCEPT !.keys = Append(@, encrypt_key(k, env.sym, random + 1)), !.added = @ \cup {k}]
       ELSE UNCHANGED <<random, env>>
    /\ UNCHANGED content

\* enveloper::result, with a fresh iv each time.
enveloper_result ==
    /\ random < MaxRecipients + 3
    /\ random' = random + 1
    /\ LET ec == encrypt(env.data, env.sym, random + 1) IN
       content' = [keys |-> env.keys, iv |-> ec.iv, encrypted |-> ec.encrypted, tag |-> ec.tag,
                   first |-> env.added, late |-> <<>>, sound |-> TRUE]
    /\ UNCHANGED env

\* enveloped_content::add of an entry: from the same enveloper, or another one's, or under another id.
content_add(k, sym, id) ==
    /\ content # NoMessage /\ Entries < MaxRecipients /\ k.valid
    /\ random' = random + 1
    /\ content' = [content EXCEPT
          !.keys = Append(@, [encrypt_key(k, sym, random + 1) EXCEPT !.key_id = construct_id(id)]),
          !.late = Append(@, [id |-> id, right |-> sym = env.sym /\ k = id])]
    /\ UNCHANGED env

\* The envelope is stored or sent and comes back with an octet changed.
content_damaged ==
    /\ content # NoMessage /\ content.sound
    /\ content' = [content EXCEPT !.sound = FALSE, !.encrypted = Changed(@)]
    /\ UNCHANGED <<random, env>>

EnvelopeNext ==
    \/ \E k \in PrivateKeys : enveloper_add(k)
    \/ enveloper_result \/ content_damaged
    \/ \E k, id \in PrivateKeys, sym \in {env.sym, -1} : content_add(k, sym, id)

SealingInit == StreamInit /\ EnvelopeInit

-----------------------------------------------------------------------------
\* The first entry under k's id that this envelope was given decides whether k opens it.
Meant(k) ==
    \/ k \in content.first
    \/ \E i \in DOMAIN content.late :
          /\ content.late[i].id = k /\ content.late[i].right
          /\ \A j \in 1 .. i - 1 : content.late[j].id # k

\* What was sealed is opened, and nothing else.  On a stream the receiver accepts a message exactly if
\* it arrived as it was sent, and has its plaintext then, however the two sides cut it into pieces,
\* whatever was lost, repeated, reordered, damaged or given up half way before it; and no two messages
\* have a nonce in common (aes_gcm.cpp).  An envelope gives its data to exactly the keys that its
\* enveloper made an entry for, before or after the result, and an error to every other, to one whose
\* first entry holds another key, and to all once it is damaged (enveloped_content.cpp).
SealedOpens ==
    /\ \A w \in verdicts : w.accepted = w.sound /\ (w.sound => w.plain = w.meant)
    /\ \A i, j \in DOMAIN msgs : i # j => msgs[i].tag.nonce # msgs[j].tag.nonce
    /\ content # NoMessage =>
          \A k \in PrivateKeys :
              LET o == decrypt_envelope(content, k) IN
              /\ o.ok <=> (Meant(k) /\ content.sound)
              /\ o.ok => o.plain = env.data
=============================================================================
