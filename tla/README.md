# SSH_Client in TLA+

The repository is an SSH-2.0 client in C++ (single thread, POSIX sockets and
termios, libsodium and OpenSSL for the primitives). This directory models its
control: the interactive session with its flow control, the handshake with its
change of keys, the bytes of the packets and of the key exchange, the known-hosts
file, the command line, and the terminal it must give back. Paths
below are relative to the repository's `src/`; `main.cpp:312` is line 312 of it.

- [1. The system](#1-the-system) - inventory of parts, state, interactions
- [2. The modules](#2-the-modules) - which module models what, and how
- [3. The runs](#3-the-runs) - what TLC checks, with which bounds and fairness
- [4. The proofs](#4-the-proofs) - what holds for all values of the constants
- [5. Findings](#5-findings)
- [6. What is left out](#6-what-is-left-out)
- [7. Plan](#7-plan)

## 1. The system

| part | source | state it keeps | operations |
|---|---|---|---|
| interactive session | `main.cpp:163-328, 448-465` | `Channel`, where it is in its loops, the last `revents` | `open_session_channel`, `request_pty`, `request_shell`, `handle_global_request`, `run_interactive_shell` |
| connection | `connection/` | none; reads and writes a `Channel` | a `parse_`/`validate_` method per server message, a `create_` method per client message |
| handshake | `main.cpp:110-161, 332-410`, `kex/` | `KexData`, session keys | identification, KEXINIT, ECDH, signature and host key check, NEWKEYS |
| authentication | `main.cpp:413-445`, `auth/` | none | service request, `none`, `password` |
| transport | `transport/` | keys, IV/counter and sequence number of each direction | `send_packet`, `receive_packet`, `enable_*_encryption` |
| known hosts | `known_hosts/` | the file, shared with other processes | `check`, `add` |
| terminal | `terminal/` | saved settings, `raw_mode_active`, the tty itself | `read_hidden_input`, `get_terminal_info`, `enable_raw_mode`, `restore`, destructor |
| socket | `socket/` | a file descriptor | constructor (connect), `read_exact`, `write_exact` |
| encoding | `common/ssh_encoding.*` | none | reading and writing of uint32, string, name-list, mpint |
| configuration | `main.cpp:53-108` | none | argument parsing, host identifier, fingerprint text |

`main` calls, in this order, the handshake, the authentication and the session;
all three send and receive whole packets through the transport, which reads and
writes the socket with blocking calls. Nothing runs concurrently inside the
process. The concurrency is outside it:

- **The server** goes on while the client works through one iteration of its
  poll loop with the `revents` that `poll` returned at its start. A blocking
  `write` to the socket sits between the keyboard and the socket branch.
- **The network** may close (FIN) or reset (RST) the connection at any point.
  A write after that throws or, once the kernel knows, raises SIGPIPE.
- **The user** types, hangs up the terminal, answers the host-key question or
  does not, interrupts the password prompt.
- **Other clients** of the same user read and append the same known-hosts file,
  without a lock.
- **The disk** may be full when the known-hosts entry is written.

What makes each part correct:

- *session/connection*: the windows at both ends agree up to what is in flight;
  the client offers window before the server starves; a full remote window
  closes the keyboard and an adjustment reopens it; a server that keeps to the
  protocol is never rejected and none drives the client into an exception meant
  for misuse by its own code; CLOSE is answered once, last; exit status and
  output are complete at a normal end; a dead connection ends the session.
- *handshake/transport*: both directions change keys right after their own
  NEWKEYS, with packet numbers that run on; the password leaves only encrypted,
  for a verified and approved host key; nobody waits for ever.
- *transport/socket*: payloads arrive complete, unaltered, in order and once
  each, however reads and writes are cut, until the connection fails; a length is
  believed only within its limits; nothing that keeps to the format is refused.
- *kex/encoding*: a client that has verified the signature has had byte for byte
  the exchange the server has had, and the same keys; without interference only
  the lack of a common algorithm ends it, whatever the secret's leading bits.
- *configuration*: the client connects to the user, host and port that were
  written; keys of two ports of a host are kept apart.
- *known hosts*: only approved keys are trusted, a changed key is refused, what
  was reported as saved matches later.
- *terminal*: however the client ends, the terminal is as it was.

Everything in this code that a unit test would hardly reach is listed, with the
line where it bites and the properties that cover it, under `hazards` in
`PROJECT.json`.

## 2. The modules

```
Encoding          <- Transport, Kex
PacketStream      <~ Transport
Connection        <- Session
Terminal          <- Session, Handshake
KnownHostsFile    <- Handshake, KnownHosts
Configuration     <- Handshake
Session           <- ShellSession, SessionProofs
ShellSession      <- ShellSessionProofs
SessionProofs     <- ShellSessionProofs
Handshake         <- HandshakeServer, HandshakeProofs
HandshakeServer   <- HandshakeServerProofs
Transport         <- TransportProofs
Kex               <- KexProofs
KnownHosts        <- KnownHostsProofs
KnownHostsFile    <- KnownHostsFileProofs <- KnownHostsProofs, HandshakeProofs
HandshakeProofs   <- HandshakeServerProofs
```

`<-` is "is extended by", `<~` is "is implemented by". Each `MC*` module with its
`.cfg` files instantiates the module it is named after; each `*Proofs` module
holds the theorems about the module it is named after (section 4).

**Encoding** is namespace `ssh_encoding` over sequences of bytes: a read gives
the position after it or `FAILED` where the code throws. A number has four bytes,
as in the code; how many values a byte has is a constant.

**PacketStream** is what one direction of a connection promises: `Send`,
`Deliver` the next payload, `Fail`. Session, ShellSession, Handshake and their
proofs are written on top of it: their packets are atomic.

**Transport** is class `Transport` over class `Socket`, one direction, byte by
byte. `send_packet` frames, encrypts and authenticates; `write_exact` and
`read_exact` are loops of pieces of any size, one action per piece;
`receive_packet` is the actions `LengthRead`, `BodyRead` (in the clear) and
`BlockRead`, `RestRead`, `MacRead` (encrypted), one after each `read_exact`, with
its checks in the code's order. A byte on the wire carries its place in the key
stream, or which byte of which MAC it is. The network cuts the connection between
any two bytes and alters protected ones. `Stream == INSTANCE PacketStream` maps
the receiver's `in.status` to the stream's status.

**Kex** is class `Kex` as `exchange_identification` and `perform_key_exchange`
use it: both identification lines, both KEXINITs, ECDH_INIT and the reply as
bytes, parsed and built as in the code, against a server written from the RFCs
with definitions of its own for the hash, the mpint and the keys, so that the two
ends check each other. The network loses, repeats or changes bytes.

**Configuration** is `parse_client_config` and `known_host_identifier`;
`std::stoul` negates in unsigned arithmetic, and the result is cut to 16 bits.

**Connection** is class `Connection`: for every `parse_`/`validate_` method an
operator `accepts_...(channel, message)` (its early throws) and, where the
method assigns to the channel, `parse_...` (the new channel); for every
`create_` method `can_create_...` and the message it makes. Messages are
records; a payload is its size, and `well_formed` stands for every parse error
inside a message. Window arithmetic is modulo `UINT32_MAX + 1` (`Add32`,
`Sub32`).

**Terminal** holds `tty` (the settings in force: `cooked`, `hidden`, `raw`),
`original_settings` and `raw_mode_active`, with an action per method.

**Session** is `run_connection_session`. `pc` is the program location: three
waits (`opening`, `pty`, `shell`) and the four places of one iteration of the
poll loop, `poll -> keyboard -> socket -> loop_end`, between which the server
and the network move. `s2c` and `c2s` are the packets in flight, `tcp` says
whether the connection is `up`, closed by the server (`fin`), `reset`, or
closed and then reset (`broken`: the state in which a write raises SIGPIPE).
Every branch of the three receive loops is an action; all branches that throw
are `ReceiveRejected`. `Throw` runs `~Terminal`, as stack unwinding does; a
signal does not. A write blocks while `SEND_BUFFER` packets are unread. The
server sends any message of `ServerMessages` at any time.

**ShellSession** puts a server that keeps to RFC 4254 beside the unchanged
client actions, and counts the bytes typed, consumed, produced and shown. The
server is not in the repository and is marked external in the map.

**KnownHostsFile** is the file as lines of fields, `check` (empty lines are passed
over; the first other line that is malformed or the host's decides), and what an append leaves behind, the
entry cut short at any point included. **KnownHosts** runs several processes
through `check`, the question, `add`'s second check, and the write. The entry
sits in the `ofstream`'s buffer until the destructor runs, so a failing write
goes unnoticed: that is what `AddWrite` says.

**Handshake** is `main` from the command line (`Start`, `Connect`) up to
`authenticate_user`: one action per packet that is awaited, with everything the
code does until it waits again. A packet carries
the keys it is protected with and the number its MAC covers. Cryptography is
ideal: a packet is accepted if its keys and number are those of the direction;
a signature is valid for this exchange or not. The history variable `signer` is
the key whose owner signed the exchange, whatever the client made of the signature;
`PasswordProtected` compares it with the key the client took. **HandshakeServer** adds an
honest server, which sends its NEWKEYS with its reply, before it has seen the
client's.

Operators whose names end in a suffix such as `_Late` or `_Resets` and whose
comment begins with "Mutant" are deliberate errors. They are used in no
specification; each run's properties were tried against them to see that the
property notices a bug of that kind.

## 3. The runs

`tlc -config X.cfg M`; sizes are distinct states.

| run | module / cfg | checks | states |
|---|---|---|---|
| any_server | MCSession / MCSession | the client against a server that sends anything, closes, resets: `SessionInv`, `NoInternalError`, `WindowOffered`, `RestoredUnlessKilled`, `CloseHandshake`, `LostForCause`, `NothingAfterClose`, and `DeadConnectionEnds`: a closed or reset connection ends the session | 706 000 |
| sigpipe | MCSession / MCSessionSignal | violated: `RestoredAtExit` | - |
| shell_session | MCShellSession / MCShellSession | with an honest server: `WindowsAgree`, `NeverRejected`, `RepliesOwed`, `CompleteAtExit`, `ShellTypeOK` | 1 590 000 |
| shell_session_live | MCShellSession / MCShellSessionLive | `OutputFlows`, `KeyboardResumes`, `CloseEndsSession`, `RequestsAnswered` | 66 000 |
| known_hosts | MCKnownHosts / MCKnownHosts | two clients, writes that fail: `TrustedOnlyIfApproved`, `ChangedKeyRefused`, `RecordedForever`, `KnownHostsTypeOK` | 1 480 000 |
| known_hosts_race | MCKnownHosts / MCKnownHostsRace | violated: `SavedKeyMatches` by two clients | - |
| known_hosts_disk_full | MCKnownHosts / MCKnownHostsDiskFull | violated: `SavedKeyMatches` by a full disk | - |
| handshake_any_peer | MCHandshake / MCHandshake | a peer that sends anything, and any command line: `EndpointAsWritten`, `PasswordProtected`, `OutgoingStream`, `EchoUnlessKilled`, `HandshakeTypeOK` | 4 590 000 |
| handshake_server | MCHandshakeServer / MCHandshakeServer | an honest server: `KeysChangeInStep`, `NeverTurnedAway`, `HandshakeProceeds` | 220 |
| password_interrupt | MCHandshake / MCHandshakeInterrupt | violated: `EchoAtExit` | - |
| transport | MCTransport / MCTransport | bytes, cut and altered: `ImplementsStream` (refinement of PacketStream), `EndsInStep`, `RefusedForCause`, `LengthBounded`, `PacketsArrive`, `TransportTypeOK` | 164 000 |
| kex | MCKex / MCKex | key exchange with an honest server over a network that alters: `SameExchange`, `SameKeys`, `HonestOutcome`, `KexinitExact`, `KexTypeOK` | 648 000 |

**Bounds.**

- `UINT32_MAX` of 3 or 4 scales the machine integer down, with windows, packet sizes
  and thresholds of 1 to 4 bytes under it. The code compares these numbers with
  each other and adds and subtracts them; every comparison has both outcomes
  and equality at this size, a grant that would overflow occurs, and both
  windows are used up and replenished in one session. The proofs do not depend
  on the sizes.
- `MCServerMessages` has every message type, addressed to this and another
  channel, with sizes on both sides of every limit, and malformed data.
- `SEND_BUFFER` and `RECV_BUFFER` of 1 or 2 packets make writes block; with 2,
  messages of different kinds are in flight together.
- `MaxTyped`, `MaxOutput` exceed the windows, so each is exhausted and needed
  again;
  `MaxGlobalRequests = 2` allows two replies outstanding at once.
- Known hosts: two processes, two hosts, two keys, at most `MaxFailures = 2`
  cut-off writes (one entry that continues another's remains). File contents are
  unbounded otherwise: a host is entered once per race, so the file stays short.
- Handshake: the client takes one line and six packets; `MaxQueue = 2` packets are
  in flight, so that packets under old and new keys wait together. Sequence
  numbers do not wrap within a handshake. `MCInvocations` has a host with and
  without the port it has by default, another port, and every way for the
  arguments to be wrong; `ULONG_MAX` of 31 and `UINT16_MAX` of 7 leave numbers
  that a cut to 16 bits, a negation, or both would turn into a port.
- Transport: sizes are scaled down with the relations of the code kept: the
  smallest encrypted packet is one block, so nothing is read after its first
  block, the cipher's block is twice the plain one, the largest packet is not a
  multiple of it, lengths need two of their four bytes. Three packets are NEWKEYS, the
  first with the new keys, and one after it. `SEQUENCE_NUMBERS = 2` makes the
  number wrap with encrypted packets. `SOCKET_BUFFER = 4` is less than any
  packet, so no packet is ever on the wire as a whole. One byte is altered: by 1,
  or by a block, which makes a length that passes the alignment check; a second
  cannot help once the MAC covers the first.
- Kex: names and lengths are one byte, keys two. Two alterations allow one to be
  made up for by another (a length and the byte it counts). The secrets have a
  leading zero, the sign bit, both; the offers are the client's algorithms alone;
  after others, before others and among empty names; and one inside a longer name.

**Fairness.** The client is one thread that is running or in a system call, so
weak fairness on its steps holds, with two exceptions (`Awake`, `ClientWorks`):
a `poll` that has only the keyboard to wait for need not return, and no system
call need fail. Fairness says nothing about which step is taken: at `poll` the
keyboard may be ready every time, and `DeadConnectionEnds` shows that the socket
is still served. In ShellSession the
server reads what arrives, whether or not it can write (weak fairness on
`ServerReceives`); it confirms, grants window and writes output when its own
buffer, which empties and fills again, has room often enough (strong fairness).
The first is a real requirement on the server: the client does not read while a
write of its own blocks, so with a server that likewise stops reading while it
cannot write, the two could wait on each other. The user is never assumed to
type or to answer. In HandshakeServer both programs are weakly fair and the user
is not. In Transport the two ends are weakly fair in `Writing` and `Reading`: a
process in `write_exact` or `read_exact` goes on when the kernel lets it; nobody
has to begin a packet.

Deadlock is checked in every run but `transport`; `Terminated`, `HandshakeOver` and
`KexOver` let a process that has ended stutter. `KexOver` is disabled while an
exchange that was not interfered with is incomplete, so such an exchange never
gets stuck. In `transport` the stream may end anywhere: nothing more is sent, or
the connection is lost.

## 4. The proofs

TLAPS checks the theorems below for every value of the constants that meets the
assumptions: any sizes, any number of packets, processes, hosts and failures, any
peer. The runs check the same definitions on small instances.

| module | theorem | property it establishes |
|---|---|---|
| SessionProofs | `TypeCorrect`, `Inductive` | `TypeOK`, `SessionInv` |
| | `NeverInternal` | `NoInternalError`: no exception of the `create_` methods |
| | `WindowAlwaysOffered` | `WindowOffered` |
| | `ClosesProperly`, `CloseIsLast` | `CloseHandshake`, `NothingAfterClose` |
| | `TerminalGivenBack` | `RestoredUnlessKilled` |
| | `LostOnlyForCause` | `LostForCause` |
| ShellSessionProofs | `ShellInductive`, `ShellTypeCorrect` | `ShellTypeOK` |
| | `ProtocolAccepted` | `NeverRejected` |
| | `WindowsAlwaysAgree` | `WindowsAgree` |
| | `RepliesAlwaysOwed` | `RepliesOwed` |
| | `NothingMissing` | `CompleteAtExit` |
| TransportProofs | `TransportInductive`, `TransportTypes` | `TransportTypeOK` |
| | `PacketsAreAStream` | `ImplementsStream`: the refinement of PacketStream |
| | `EndsStayInStep` | `EndsInStep` |
| | `RefusedOnlyForCause` | `RefusedForCause` |
| | `LengthIsBounded` | `LengthBounded` |
| KnownHostsProofs | `KnownHostsInductive`, `KnownHostsTypes` | `KnownHostsTypeOK` |
| | `OnlyApprovedTrusted` | `TrustedOnlyIfApproved` |
| | `ChangedNeverTrusted` | `ChangedKeyRefused` |
| | `EntriesNeverReplaced` | `RecordedForever` |
| HandshakeProofs | `HandshakeInductive`, `HandshakeTypes` | `HandshakeTypeOK` |
| | `PasswordOnlyProtected` | `PasswordProtected` |
| | `OutgoingInOrder` | `OutgoingStream` |
| | `EchoRestored` | `EchoUnlessKilled` |
| | `EndpointIsTheTarget` | `EndpointAsWritten` |
| HandshakeServerProofs | `SystemInductive` | - |
| | `KeysInStep` | `KeysChangeInStep` |
| | `HonestServerAccepted` | `NeverTurnedAway` |
| KexProofs | `ExchangeInductive`, `KexTypes` | `KexTypeOK` |
| | `SameExchangeAlways` | `SameExchange` |
| | `SameKeysAlways` | `SameKeys` |
| | `KexinitExactAlways` | `KexinitExact` |
| | `HonestAlways` | `HonestOutcome` |

**Session.** The properties are not inductive alone. `SessionInv` joins, to the
types, what relates the program location to the rest of the state: `WindowInv`
(between two steps the window has always been topped up, since `ReceiveData`
consumes and gives back in one step), `OpenInv` (where the channel is open, and
that the client's CLOSE implies the server's), `TerminalInv` (in the loop the tty
is raw and its settings are saved). `NoInternalError` needs all of them: a window
adjustment is created only when `0 < target - local_window`, does not overflow
because `local_window <= target`, and is sent on an open channel; keyboard data
fit because `max_read` is the minimum of the three limits. The type invariant
includes that an active raw mode has saved settings, without which the
destructor could write back settings that were never read. `LostForCause` needs
that a reset which `poll` reported is not undone (`LossInv`), and from `OpenInv` that
a client which still sends, reads or polls has not sent its CLOSE. Assumed
(`ConnectionAssumption`, `SessionAssumption`): a window target that is a uint32_t,
a threshold below it, a positive keyboard buffer; the server's messages are any
set of messages at all.

**Shell session.** `NeverRejected` and `WindowsAgree` need each other: data are
refused when they exceed the window, and the windows stay equal only while no
message is refused. `ShellInv` joins them to `SessionInv` and, while the client runs,
to: `OrderInv` (the client goes through the stages opening, pty, shell, loop; what
takes it to the next one is asked for by at most one request in `c2s`, is being
prepared by the server, or is at one place of `s2c`; the messages before that place
suit the client's stage, those behind it the server's), `ProperInv` (what the
messages contain), `EofInv` and `StatusInv` (once each, and in the queue until
seen), `CloseInv` (the server's CLOSE is the last in its queue; the client closes
only in answer; the connection goes down only after both), and `BooksInv`, the sums.
`BooksInv` holds `WindowsAgree` and `RepliesOwed`, and that output produced is output
shown and output under way, from which `CompleteAtExit` follows when CLOSE, the last
message, is read. `InFlight` counts the units that the messages of a queue carry,
so that a proof about it uses the theorems on cardinalities instead of an induction:
`Append` adds a message's amount, `Tail` takes it away. A step of the client is
then described by what it moves (`ClientPays`, `ServerPays`: so much data, window,
replies out of one queue, into the other, to or from the end's own books), and one
lemma for each end shows that such a step keeps the balance (`ClientBalance`,
`ServerBalance`). Assumed of the server (`ShellSessionAssumption`): a positive window
that is a uint32_t, and a packet size that the client accepts. The socket buffers have
any positive size, so the theorems hold for every interleaving of messages under way.

**Transport.** `TypeInv` adds to the types what the receiver has of a packet at
each of its reads (`StageShape`). `StreamInv` says that there is a log of the
packets sent, with the bytes they were written as: a packet's bytes begin at its
`Mark`, which has its place in the stream of bytes, its place in the key stream,
and whether it is encrypted (`Log`). Sender and receiver are at marks of it
(`SenderAt`, `ReceiverAt`), and what the receiver has, what is in its buffer, in the
kernel and still to be written are consecutive pieces of those bytes (`Flows`),
except that a protected byte may have been altered. The log is not part of the
model: `StreamInv` quantifies over it, and each step's proof says which log follows.
`MacsInPlace` - a byte of a MAC is where the MAC of its packet is - is what makes an
altered length harmless: if the receiver, having believed it, finds an intact MAC,
then it is the MAC of this packet with this number, so the packet is the one that
was sent (lemma `MacFits`). The framing lemmas show that every padding that fills
whole blocks (`Aligned`), the client's own and a longer one, gives a packet that
passes every check of the receiver, and that the payload is found in it again.
`TransportAssumption` asks what the constants of `transport.cpp:12-20` satisfy: the
least packet is a whole number of blocks of either cipher, and not more than one
block above the smallest payload with its padding; a MAC fits the largest packet; a
block holds a length and one more byte.

**Known hosts.** `KnownHostsFileProofs` follows an append, cut short at any point,
through the lines of the file: each complete line stays where it is, at most one is
new or continued, and a continued one has a field that no host, key or algorithm
equals. So every line that can match was approved (`Entries`), and a host once
settled stays settled (`Settled`), which together with what each process has been
told is the inductive invariant. Assumed: hosts, keys and the algorithm's name are
distinct fields, as they are in the file (names, base64 keys, `ssh-ed25519`).

**Handshake.** Whatever the peer does, the client sends a prefix of one script, and
the stage it is at fixes its keys and packet numbers (`SentInv`, `StageInv`); from
its NEWKEYS on, its host key is the signer's and one that the user or the file
vouches for (`KeyInv`). `EndpointIsTheTarget` needs the arithmetic of `stoul` and of the cut to
16 bits, and that a target with one AT sign is put together again from its parts.
`HandshakeServerProofs` gives the server a script as well: how many of its packets
the client has taken follows from the client's stage, how many it has sent from how
many it has read, and the queue is what lies between (`StreamInv`). Assumed of the
command lines and the peer's packets: only that they are such (`CommandLine`,
`PeerPacket`), that `SESSION` is a name of its own, and that a known-hosts file
without lines is empty.

**Kex.** These theorems are about what the code computes from bytes. Two facts
carry them. A string written with its length in front is found again, and the
bytes before and after it do not matter (`StringFound`), so the input of the
exchange hash determines every one of its eight fields (`HashInjective`). And the
client's loop for the secret, which drops leading zeros and puts one back before a
sign bit, gives the server's definition of an mpint: the longest run of leading
zeros that may go without setting the sign (`MpintIs`).

`ExchangeInv` is inductive: messages stay bytes, altered or not (`Typing`), and
shorter than a length field can say (`Sizes`); what the client has sent is what
it hashes (`ClientSent`); what it knows at each stage, with a KEXINIT that is the
encoding of the lists read from it (`ClientKnows`); the server has signed the hash
of a complete exchange, or nothing yet (`ServerKnows`); a verified client has the
server's view and keys (`Agreement`). `SameExchange` alone is not inductive: that
`hash = server.signed` excludes every other exchange needs that the server
signed the hash of its own. `HonestOutcome` needs `HonestInv`: while nothing is
altered, every message is the one its sender wrote. Each parser of the client then
meets its own counterpart: the identification without its '\r' (`VersionKept`), the
ten lists (`KexinitReadBack`), the reply and the two blobs (`ReplyRead`,
`BlobRead`), and the items that `getline` cuts a list into: a name that is not
empty is one of them if and only if it is one that the list was joined from
(`NamesFound`), so that `choose_algorithm` finds a common name where there is one (`OneShared`). Both
invariants were checked with TLC on the constants of the run before they were
proved.

The induction over lengths and lists is done with sets: a set of numbers that has
0 and, with each number, the next one, has them all, because otherwise there would
be a least one missing (`Induction`). From it, a function on `0..N` exists that is
given by its first value and how each value follows from the one before
(`Recursion`), which is what the model's recursive functions are.

Assumed (`KexAssumption`): the message numbers, comma and '\r' are bytes; keys and
secrets have their fixed length, a signature its own; the identifications have no
'\r' and the server's begins with `SSH-2.0`; the client offers one name in each of
the eight lists that are negotiated, the one it offers for the host key is
`ssh-ed25519` (`kex.cpp:127-134`); names have no comma. `SizesAssumption`: no
message, with the bytes that alterations add, is longer than a length field can say.
The largest packet has 35000 bytes (`transport.cpp:14`), an identification at most
255. The secret, the server's offer, the number of alterations and every length are
arbitrary otherwise.

**Only model-checked.** Liveness, since TLAPS does not reason about fairness:
`DeadConnectionEnds`, `OutputFlows`, `KeyboardResumes`, `CloseEndsSession`,
`RequestsAnswered`, `HandshakeProceeds`, `PacketsArrive`; and that nothing
deadlocks, which is about what is enabled. Every invariant and every safety
property of steps that a passing run checks is also proved.

## 5. Findings

1. **SIGPIPE leaves the terminal raw** (`socket/socket.cpp:82`, run `sigpipe`).
   `write` on a connection that was closed and then reset kills the process, so
   `~Terminal` does not run.
2. **Two clients can save different keys for one host**
   (`known_hosts/known_hosts.cpp:67`, run `known_hosts_race`). Both are told
   "Host key saved"; the second key never matches.
3. **A failed write of the known-hosts entry is reported as success**
   (`known_hosts/known_hosts.cpp:86`, run `known_hosts_disk_full`). The stream
   is tested before its buffer is flushed. `known_hosts` shows that even so no
   key is trusted that was not approved.
4. **Ctrl-C at the password prompt leaves echo off**
   (`terminal/terminal.cpp:37`, run `password_interrupt`).

The properties that hold are stated so as to leave exactly these cases out
(`RestoredUnlessKilled`, `EchoUnlessKilled`; `RecordedForever` for a
line that has its newline, whatever happens to later ones).

## 6. What is left out

- The primitives of libsodium and OpenSSL: ideal, as described above. That one of
  their calls fails (memory, a broken engine) is not considered; the code throws.
- In Transport, altered bytes of packets in the clear, which nothing there
  protects: Kex has them. In Kex and Handshake, partial reads and writes: both rely
  on the stream of packets that `transport` checks.
- The messages of `connection/` and `auth/` stay records with a flag
  `well_formed`: their parsers use the operators of Encoding in the same way as
  those of Kex and differ in the fields only.
- The fingerprint shown to the user, which is formatting.
- A minus sign before the port: `std::stoul` turns a number close to `-ULONG_MAX`
  into a small one, which is accepted. The model has this; `EndpointAsWritten`
  promises the number written only where there is no minus sign.
- What the client refuses by design and so no honest server of the models does:
  lines before the identification, a guessed key exchange packet, re-exchange of
  keys, USERAUTH_BANNER, `exit-signal`, channel requests in the session. Session's
  and Handshake's unrestricted servers send such messages; the client ends.
- `create_exec_request`, which nothing calls.
- Silent loss of the connection: the client has no timeout and no keepalive, so
  it waits for ever; there is nothing to check.
- `tcsetattr` that fails while restoring in the destructor or in
  `read_hidden_input`: taken to succeed.
- In a known-hosts line that ran into another, a joined field is `GARBAGE`; that
  two host names joined might spell a third is not considered.
- A known-hosts line of blanks only, which the code takes for malformed; a line of
  no characters, which it passes over, is the empty sequence of fields.
- A step that receives a packet and sends an answer, or reads the keyboard and sends,
  is one action, although the write may block in between. The client looks at nothing
  meanwhile, and a reset during the write may drop any packets not yet taken, as one
  before it may. What differs is that the packet being answered still occupies the
  receive buffer while the write waits.
- Memory exhaustion.

## 7. Plan

Built, in this order: Connection, Terminal, Session and its proofs,
ShellSession, KnownHosts, Handshake, HandshakeServer; Encoding, Transport with
PacketStream, Kex, Configuration; the proofs about KnownHosts, Handshake,
HandshakeServer, Transport, ShellSession and Kex. What could follow:

1. **Client**: Handshake and Session composed, so that the terminal and the
   sequence numbers go through a whole run of the program.
2. Handshake's packets refined to the bytes of Kex, which would replace the
   argument of section 6 that the one rests on the other.
