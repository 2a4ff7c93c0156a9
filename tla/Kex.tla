---------------------------------- MODULE Kex ----------------------------------
(***************************************************************************)
(* Class Kex (src/src/kex) as exchange_identification and                  *)
(* perform_key_exchange of src/src/main.cpp use it: the two identification *)
(* lines, the two KEXINITs, ECDH_INIT and the reply, byte by byte, between *)
(* the client and a server that follows RFC 4253, over a network that may  *)
(* alter them: nothing else protects the packets in the clear.             *)
(*                                                                         *)
(* Cryptography is ideal.  SHA-256 of a sequence of bytes is the sequence. *)
(* There is one signature, the server's, which verifies for its host key   *)
(* and the hash it signed.  The shared secret of the two public keys is    *)
(* known to both ends; with any other key the client may get any secret.   *)
(***************************************************************************)
EXTENDS Encoding

CONSTANTS
    cookie_bytes, length_of_key, signature_bytes,
    KEXINIT, KEX_ECDH_INIT, KEX_ECDH_REPLY, COMMA, CR,   \* bytes
    VERSION,            \* "SSH-2.0"
    CLIENT_ID,          \* the client's identification
    SERVER_ID,          \* the server's
    ED25519,            \* the name "ssh-ed25519"
    Supported,          \* the client's ten name lists
    Offers,             \* the server's: ten sequences of names
    CLIENT_KEY, SERVER_KEY, HOST_KEY,   \* public keys
    SIGNATURE,
    SharedSecrets,
    MaxAltered          \* bound: alterations

\* The lists that are negotiated; the last two are the languages.
Lists == 1..10
Negotiated == 1..8

ASSUME KexAssumption ==
    /\ cookie_bytes \in Nat /\ length_of_key \in Nat /\ signature_bytes \in Nat
    /\ {KEXINIT, KEX_ECDH_INIT, KEX_ECDH_REPLY, COMMA, CR} \subseteq Bytes
    /\ {CLIENT_KEY, SERVER_KEY, HOST_KEY} \cup SharedSecrets
         \subseteq [1..length_of_key -> Bytes]
    /\ SIGNATURE \in [1..signature_bytes -> Bytes]
    /\ {VERSION, CLIENT_ID, SERVER_ID} \subseteq Seq(Bytes \ {CR})
    /\ Len(VERSION) <= Len(SERVER_ID)
    /\ SubSeq(SERVER_ID, 1, Len(VERSION)) = VERSION
    /\ Supported \in [Lists -> Seq(Bytes)]
    /\ \A i \in Negotiated :
         Supported[i] \in Seq(Bytes \ {COMMA}) /\ Supported[i] # <<>>
    /\ Supported[2] = ED25519
    /\ Offers \subseteq [Lists -> Seq(Seq(Bytes \ {COMMA}))]
    /\ MaxAltered \in Nat

VARIABLES
    client,     \* stage, what it knows of the exchange, algorithms, keys
    server,     \* the same of the server, and the hash it has signed
    net,        \* by kind, the message on its way, or NONE
    offer, secret,  \* the server's names; the secret the keys give
    altered     \* messages altered so far

kexVars == <<client, server, net, offer, secret, altered>>

\* No bytes at all, which is not the empty sequence of them.
NONE == <<-1>>

Kinds == {"server_id", "client_id", "server_kexinit", "client_kexinit",
          "ecdh_init", "reply"}

-------------------------------------------------------------------------------
(***************************************************************************)
(* KEXINIT.                                                                *)
(***************************************************************************)
append_name_list(payload, list) == append_string(payload, list)

Kexinit(cookie, lists) ==
    LET written[n \in 0..10] ==
            IF n = 0 THEN <<KEXINIT>> \o cookie
            ELSE append_name_list(written[n - 1], lists[n])
    IN  written[10] \o <<0>> \o encode_uint32(0)

create_client_kexinit == Kexinit([i \in 1..cookie_bytes |-> 0], Supported)

\* The position of the first list, and the one after each of the ten.
ListEnds(payload) ==
    LET end[n \in 0..10] ==
            IF n = 0 THEN 1 + cookie_bytes ELSE after_string(payload, end[n - 1])
    IN  end

read_name_lists(payload) ==
    [i \in Lists |-> read_string(payload, ListEnds(payload)[i - 1])]

\* Mutant: bytes after the last field are let pass.
accepts_kexinit_Loose(payload) ==
    LET position == ListEnds(payload)[10]
    IN  /\ Len(payload) >= 1
        /\ payload[1] = KEXINIT
        /\ Remain(payload, position, 1 + uint32_bytes)
        /\ read_uint32(payload, position + 1) = 0

\* parse_kexinit does not throw.
accepts_kexinit(payload) ==
    LET position == ListEnds(payload)[10]
    IN  /\ Len(payload) >= 1
        /\ payload[1] = KEXINIT
        /\ Remain(payload, position, 1 + uint32_bytes)
        /\ read_uint32(payload, position + 1) = 0
        /\ Len(payload) = position + 1 + uint32_bytes

\* getline with ',': an item begins at the beginning and after each comma,
\* unless nothing follows, and goes on until the next.
Starts(list) == {p \in 0..(Len(list) - 1) : p = 0 \/ list[p] = COMMA}

Item(list, p) ==
    LET end == CHOOSE q \in p..Len(list) :
                  /\ \A i \in (p + 1)..q : list[i] # COMMA
                  /\ q = Len(list) \/ list[q + 1] = COMMA
    IN  SubSeq(list, p + 1, end)

\* The items of the client that the server has; without one the code throws.
Shared(client_list, server_list) ==
    {p \in Starts(client_list) :
        \E q \in Starts(server_list) : Item(server_list, q) = Item(client_list, p)}

\* The first of them.
choose_algorithm(client_list, server_list) ==
    LET shared == Shared(client_list, server_list)
    IN  Item(client_list, CHOOSE p \in shared : \A q \in shared : p <= q)

\* negotiate does not throw.
agrees(lists) == \A i \in Negotiated : Shared(Supported[i], lists[i]) # {}

negotiate(lists) ==
    [i \in Negotiated |-> choose_algorithm(Supported[i], lists[i])]

-------------------------------------------------------------------------------
(***************************************************************************)
(* ECDH_INIT and the reply.                                                *)
(***************************************************************************)
create_ecdh_init_payload(key) == append_string(<<KEX_ECDH_INIT>>, key)

\* The positions after the three strings of the reply.
ReplyEnds(payload) ==
    LET first == after_string(payload, 1)
        second == after_string(payload, first)
    IN  <<1, first, second, after_string(payload, second)>>

ReplyField(payload, i) == read_string(payload, ReplyEnds(payload)[i])

\* parse_ecdh_reply does not throw.
accepts_ecdh_reply(payload) ==
    /\ Len(payload) >= 1
    /\ payload[1] = KEX_ECDH_REPLY
    /\ ReplyEnds(payload)[4] = Len(payload)
    /\ Len(ReplyField(payload, 2)) = length_of_key

\* A name and a value of this size, and nothing after them.
accepts_ed25519(blob, name, size) ==
    LET after == after_string(blob, 0)
    IN  /\ after_string(blob, after) = Len(blob)
        /\ read_string(blob, 0) \in {name} \cap {ED25519}
        /\ Len(read_string(blob, after)) = size

ed25519_value(blob) == read_string(blob, after_string(blob, 0))

\* Mutant: the bytes as they are.
append_positive_mpint_Raw(destination, value) ==
    append_string(destination, value)

SignBit(byte) == byte >= BYTE \div 2

append_positive_mpint(destination, value) ==
    LET count == CHOOSE n \in 0..Len(value) :
                    /\ \A i \in 1..n : value[i] = 0
                    /\ n = Len(value) \/ value[n + 1] # 0
        magnitude == SubSeq(value, count + 1, Len(value))
        negative == magnitude # <<>> /\ SignBit(magnitude[1])
    IN  append_string(destination,
                      IF negative THEN <<0>> \o magnitude ELSE magnitude)

calculate_exchange_hash(view, shared_secret) ==
    LET ids == append_string(append_string(<<>>, view.client_id), view.server_id)
        kexinits == append_string(append_string(ids, view.client_kexinit),
                                  view.server_kexinit)
        keys == append_string(append_string(append_string(kexinits,
                    view.host_key), view.client_key), view.server_key)
    IN  append_positive_mpint(keys, shared_secret)

\* Mutant: any signature of the host key will do.
verify_ed25519_signature_AnyHash(public_key, signature, hash) ==
    public_key = HOST_KEY /\ signature = SIGNATURE

verify_ed25519_signature(public_key, signature, hash) ==
    public_key = HOST_KEY /\ signature = SIGNATURE /\ hash = server.signed

derive_key_material(shared_secret, hash, letter, session_id) ==
    <<append_positive_mpint(<<>>, shared_secret), hash, letter, session_id>>

\* Mutant: the directions are swapped.
derive_transport_keys_Swapped(shared_secret, hash, session_id) ==
    [iv_cs |-> derive_key_material(shared_secret, hash, "B", session_id),
     iv_sc |-> derive_key_material(shared_secret, hash, "A", session_id),
     encryption_key_cs |-> derive_key_material(shared_secret, hash, "C", session_id),
     encryption_key_sc |-> derive_key_material(shared_secret, hash, "D", session_id),
     mac_key_cs |-> derive_key_material(shared_secret, hash, "E", session_id),
     mac_key_sc |-> derive_key_material(shared_secret, hash, "F", session_id)]

derive_transport_keys(shared_secret, hash, session_id) ==
    [iv_cs |-> derive_key_material(shared_secret, hash, "A", session_id),
     iv_sc |-> derive_key_material(shared_secret, hash, "B", session_id),
     encryption_key_cs |-> derive_key_material(shared_secret, hash, "C", session_id),
     encryption_key_sc |-> derive_key_material(shared_secret, hash, "D", session_id),
     mac_key_cs |-> derive_key_material(shared_secret, hash, "E", session_id),
     mac_key_sc |-> derive_key_material(shared_secret, hash, "F", session_id)]

-------------------------------------------------------------------------------
(***************************************************************************)
(* The client.  view is what goes into the exchange hash.                  *)
(***************************************************************************)
NoView == [client_id |-> NONE, server_id |-> NONE,
           client_kexinit |-> NONE, server_kexinit |-> NONE,
           host_key |-> NONE, client_key |-> NONE, server_key |-> NONE]

ClientAt(stage) ==
    /\ client.stage = stage
    /\ UNCHANGED <<server, offer, secret, altered>>

ClientThrows == client' = [client EXCEPT !.stage = "rejected"] /\ UNCHANGED net

\* Mutant: the line as it came.
read_version_AsIs(line) == line

\* read_version drops every '\r'.
read_version(line) ==
    LET version[n \in 0..Len(line)] ==
            IF n = 0 THEN <<>>
            ELSE IF line[n] = CR THEN version[n - 1]
            ELSE Append(version[n - 1], line[n])
    IN  version[Len(line)]

is_ssh2(line) ==
    Len(line) >= Len(VERSION) /\ SubSeq(line, 1, Len(VERSION)) = VERSION

exchange_identification ==
    LET line == read_version(net["server_id"])
    IN  /\ ClientAt("identification")
        /\ net["server_id"] # NONE
        /\ \/ /\ is_ssh2(line)
              /\ client' = [client EXCEPT
                              !.stage = "kexinit",
                              !.view.server_id = line,
                              !.view.client_kexinit = create_client_kexinit]
              /\ net' = [net EXCEPT !["client_id"] = CLIENT_ID \o <<CR>>,
                                    !["client_kexinit"] = create_client_kexinit]
           \/ ~is_ssh2(line) /\ ClientThrows

ReceiveKexinit ==
    LET payload == net["server_kexinit"]
        lists == read_name_lists(payload)
        agreed == accepts_kexinit(payload) /\ agrees(lists)
    IN  /\ ClientAt("kexinit")
        /\ payload # NONE
        /\ \/ /\ agreed
              /\ client' = [client EXCEPT
                              !.stage = "reply",
                              !.algorithms = negotiate(lists),
                              !.view.server_kexinit = payload,
                              !.view.client_key = CLIENT_KEY]
              /\ net' = [net EXCEPT !["ecdh_init"] =
                                      create_ecdh_init_payload(CLIENT_KEY)]
           \/ ~agreed /\ ClientThrows

\* crypto_scalarmult_curve25519: with another key another secret, or the same,
\* since not every bit of a key counts, or none where it rejects the key.
calculate_shared_secret(key) ==
    IF key = SERVER_KEY THEN {secret} ELSE SharedSecrets \cup {NONE}

(***************************************************************************)
(* The reply up to the keys; between the signature and the keys the host   *)
(* key is looked up (modules Handshake and KnownHosts).                    *)
(***************************************************************************)
ReceiveReply ==
    LET reply == net["reply"]
        host_key == ReplyField(reply, 1)
        signature == ReplyField(reply, 3)
        view == [client.view EXCEPT !.host_key = host_key,
                                    !.server_key = ReplyField(reply, 2)]
        name == client.algorithms[2]
    IN  /\ ClientAt("reply")
        /\ reply # NONE
        /\ \/ ~accepts_ecdh_reply(reply) /\ ClientThrows
           \/ /\ accepts_ecdh_reply(reply)
              /\ \E shared_secret \in calculate_shared_secret(view.server_key) :
                   LET hash == calculate_exchange_hash(view, shared_secret)
                       verified ==
                         /\ shared_secret # NONE
                         /\ accepts_ed25519(host_key, name, length_of_key)
                         /\ accepts_ed25519(signature, name, signature_bytes)
                         /\ verify_ed25519_signature(ed25519_value(host_key),
                                                     ed25519_value(signature),
                                                     hash)
                   IN  \/ /\ verified
                          /\ client' = [client EXCEPT
                               !.stage = "verified",
                               !.view = view,
                               !.keys = derive_transport_keys(shared_secret,
                                                              hash, hash)]
                          /\ UNCHANGED net
                       \/ ~verified /\ ClientThrows

-------------------------------------------------------------------------------
(***************************************************************************)
(* The server, from RFC 4253 and RFC 8731: names, numbers and letters      *)
(* rather than the client's loops.                                         *)
(***************************************************************************)
Joined(names) ==
    LET joined[n \in 0..Len(names)] ==
            IF n = 0 THEN <<>>
            ELSE IF n = 1 THEN names[1]
            ELSE joined[n - 1] \o <<COMMA>> \o names[n]
    IN  joined[Len(names)]

ServerKexinit(names) ==
    Kexinit([i \in 1..cookie_bytes |-> 1],
            [i \in Lists |-> Joined(names[i])])

\* A number with a zero in front and then without as many leading zeros as
\* leaves the sign bit clear.
mpint(value) ==
    LET padded == <<0>> \o value
        Clear(n) == /\ \A i \in 1..n : padded[i] = 0
                    /\ n = Len(padded) \/ ~SignBit(padded[n + 1])
        most == CHOOSE n \in 0..Len(padded) :
                    Clear(n) /\ \A m \in 0..Len(padded) : Clear(m) => m <= n
    IN  SubSeq(padded, most + 1, Len(padded))

String(value) == encode_uint32(Len(value)) \o value

ServerHash(view) ==
    String(view.client_id) \o String(view.server_id)
      \o String(view.client_kexinit) \o String(view.server_kexinit)
      \o String(view.host_key) \o String(view.client_key)
      \o String(view.server_key) \o String(mpint(secret))

ServerKeys(hash) ==
    LET key(letter) == <<String(mpint(secret)), hash, letter, hash>>
    IN  [iv_cs |-> key("A"), iv_sc |-> key("B"),
         encryption_key_cs |-> key("C"), encryption_key_sc |-> key("D"),
         mac_key_cs |-> key("E"), mac_key_sc |-> key("F")]

Ed25519Blob(value) == String(ED25519) \o String(value)

\* Every category has a name of the client's in it.
Common == \A i \in Negotiated : \E j \in DOMAIN offer[i] : offer[i][j] = Supported[i]

ServerReply ==
    <<KEX_ECDH_REPLY>> \o String(Ed25519Blob(HOST_KEY)) \o String(SERVER_KEY)
      \o String(Ed25519Blob(SIGNATURE))

(***************************************************************************)
(* A message is far shorter than a string may be: transport.cpp:14 lets no *)
(* packet have more than 35000 bytes, RFC 4253 no identification more than *)
(* 255.                                                                    *)
(***************************************************************************)
Original(kind, names) ==
    CASE kind = "server_id" -> SERVER_ID \o <<CR>>
      [] kind = "client_id" -> CLIENT_ID \o <<CR>>
      [] kind = "server_kexinit" -> ServerKexinit(names)
      [] kind = "client_kexinit" -> create_client_kexinit
      [] kind = "ecdh_init" -> create_ecdh_init_payload(CLIENT_KEY)
      [] kind = "reply" -> ServerReply

ASSUME SizesAssumption ==
    /\ \A kind \in Kinds, names \in Offers :
         Len(Original(kind, names)) + MaxAltered \in UInt32
    /\ length_of_key + 1 \in UInt32

ServerReplies ==
    LET view == [client_id |-> read_version(net["client_id"]),
                 server_id |-> SERVER_ID,
                 client_kexinit |-> net["client_kexinit"],
                 server_kexinit |-> ServerKexinit(offer),
                 host_key |-> Ed25519Blob(HOST_KEY),
                 client_key |-> read_string(net["ecdh_init"], 1),
                 server_key |-> SERVER_KEY]
        hash == ServerHash(view)
    IN  /\ server.stage = "waiting"
        /\ net["ecdh_init"] # NONE
        /\ after_string(net["ecdh_init"], 1) = Len(net["ecdh_init"])
        /\ accepts_kexinit(net["client_kexinit"])
        /\ Common
        /\ net' = [net EXCEPT !["reply"] = ServerReply]
        /\ server' = [stage |-> "replied", view |-> view, signed |-> hash,
                      keys |-> ServerKeys(hash)]
        /\ UNCHANGED <<client, offer, secret, altered>>

-------------------------------------------------------------------------------
\* A byte is lost, repeated or changed.
Alterations(message) ==
    UNION {{SubSeq(message, 1, i - 1) \o SubSeq(message, i + 1, Len(message)),
            SubSeq(message, 1, i) \o SubSeq(message, i, Len(message)),
            [message EXCEPT ![i] = (@ + 1) % BYTE]} : i \in DOMAIN message}

\* A message is altered before it is read.
Unread(kind) ==
    CASE kind = "server_id" -> client.stage = "identification"
      [] kind = "server_kexinit" -> client.stage = "kexinit"
      [] kind = "reply" -> client.stage = "reply"
      [] OTHER -> server.stage = "waiting"

Alter(kind) ==
    /\ altered < MaxAltered
    /\ net[kind] # NONE
    /\ Unread(kind)
    /\ \E message \in Alterations(net[kind]) : net' = [net EXCEPT ![kind] = message]
    /\ altered' = altered + 1
    /\ UNCHANGED <<client, server, offer, secret>>

KexInit ==
    /\ offer \in Offers
    /\ secret \in SharedSecrets
    /\ client = [stage |-> "identification", view |-> [NoView EXCEPT !.client_id = CLIENT_ID],
                 algorithms |-> NONE, keys |-> NONE]
    /\ server = [stage |-> "waiting", view |-> NoView, signed |-> NONE,
                 keys |-> NONE]
    /\ net = [kind \in Kinds |->
                CASE kind = "server_id" -> SERVER_ID \o <<CR>>
                  [] kind = "server_kexinit" -> ServerKexinit(offer)
                  [] OTHER -> NONE]
    /\ altered = 0

\* The exchange goes on under the keys, or the client has ended it, or the
\* server finds the client's messages wrong and does.
KexOver ==
    /\ client.stage \in {"verified", "rejected"} \/ altered > 0 \/ ~Common
    /\ UNCHANGED kexVars

KexNext ==
    \/ exchange_identification
    \/ ReceiveKexinit
    \/ ReceiveReply
    \/ ServerReplies
    \/ \E kind \in Kinds : Alter(kind)
    \/ KexOver

KexSpec == KexInit /\ [][KexNext]_kexVars

-------------------------------------------------------------------------------
(***************************************************************************)
(* Types; the identification that is kept and hashed has no '\r' in it,    *)
(* whatever line came (main.cpp:110-120).                                  *)
(***************************************************************************)
KexTypeOK ==
    /\ client.stage \in {"identification", "kexinit", "reply", "verified", "rejected"}
    /\ server.stage \in {"waiting", "replied"}
    /\ \A kind \in Kinds :
         net[kind] = NONE \/ \A i \in DOMAIN net[kind] : net[kind][i] \in Bytes
    /\ \A i \in DOMAIN client.view.server_id : client.view.server_id[i] # CR
    /\ altered \in 0..MaxAltered

(***************************************************************************)
(* A client that has verified the signature has had, byte for byte, the    *)
(* exchange that the server has had, whatever was altered on the way: the  *)
(* length before each string and the checks for trailing bytes leave no    *)
(* two exchanges with one hash (kex.cpp:282-347).                          *)
(***************************************************************************)
SameExchange == client.stage = "verified" => client.view = server.view

(***************************************************************************)
(* The two ends then have the same six keys and vectors, each for the same *)
(* direction and purpose (kex.cpp:355-377).                                *)
(***************************************************************************)
SameKeys == client.stage = "verified" => client.keys = server.keys

(***************************************************************************)
(* Without interference the client ends the exchange for the lack of a     *)
(* common algorithm and for nothing else: whatever else the server offers  *)
(* and in which order, and for secrets with leading zeros or the sign bit  *)
(* set (kex.cpp:171-209, 266-280).                                         *)
(***************************************************************************)
HonestOutcome ==
    altered = 0 =>
        /\ client.stage = "rejected" => ~Common
        /\ client.stage \in {"reply", "verified"} => Common

(***************************************************************************)
(* A KEXINIT that the client goes on with is the encoding of the lists it  *)
(* took from it, but for the boolean: nothing was skipped, read twice or   *)
(* left over (kex.cpp:18-120).                                             *)
(***************************************************************************)
KexinitExact ==
    client.stage \in {"reply", "verified"} =>
        LET payload == client.view.server_kexinit
            exact == Kexinit(Slice(payload, 1, cookie_bytes),
                             read_name_lists(payload))
        IN  /\ Len(exact) = Len(payload)
            /\ \A i \in DOMAIN exact :
                 payload[i] = exact[i] \/ i = Len(exact) - uint32_bytes

================================================================================
