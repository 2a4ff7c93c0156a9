------------------------------- MODULE Session -------------------------------
(***************************************************************************)
(* run_connection_session of src/src/main.cpp: the client opens a session  *)
(* channel, requests a PTY and a shell, and runs the poll loop of          *)
(* run_interactive_shell until the channel is closed, against a server     *)
(* that may send any message of this layer at any time, close or reset     *)
(* the TCP connection.  SSH packets travel in two FIFO queues; the kernel  *)
(* holds at most SEND_BUFFER packets the server has not read, after which  *)
(* write_exact blocks.                                                     *)
(*                                                                         *)
(* One iteration of the poll loop is several steps, because the server     *)
(* goes on between them while the client works with the revents that poll  *)
(* returned: poll, keyboard, socket, loop_end.                             *)
(***************************************************************************)
EXTENDS Connection, Terminal

CONSTANTS
    LOCAL_WINDOW_TARGET, LOCAL_WINDOW_THRESHOLD, LOCAL_MAX_PACKET_SIZE,
    KEYBOARD_BUFFER_SIZE,
    ServerMessages,     \* the messages the server may send
    SEND_BUFFER,        \* packets the client's socket holds unsent or unread
    RECV_BUFFER         \* packets in flight to, or buffered at, the client

ASSUME SessionAssumption ==
    /\ LOCAL_WINDOW_TARGET \in UInt32
    /\ LOCAL_WINDOW_THRESHOLD \in 0..(LOCAL_WINDOW_TARGET - 1)
    /\ LOCAL_MAX_PACKET_SIZE \in MIN_MAX_PACKET_SIZE..UINT32_MAX
    /\ KEYBOARD_BUFFER_SIZE \in 1..UINT32_MAX
    /\ ServerMessages \subseteq ServerMessage
    /\ SEND_BUFFER \in Nat \ {0}
    /\ RECV_BUFFER \in Nat \ {0}

VARIABLES
    channel,    \* the Channel of run_connection_session
    pc,         \* where the client is
    result,     \* how the process ended
    revents,    \* what poll last reported for the socket
    s2c, c2s,   \* packets from and to the server
    tcp         \* "up", "fin" (server closed), "reset", "broken" (closed,
                \* then reset)

vars == <<channel, pc, result, revents, s2c, c2s, tcp, terminalVars>>

(***************************************************************************)
(* The exceptions that end in main's catch block, by cause: "rejected", a  *)
(* packet of the server; "lost", the connection; "system", another system  *)
(* call failing; "internal", a create_ method refusing the client's own    *)
(* state.  "killed": ended by SIGPIPE.                                     *)
(***************************************************************************)
Results == {"running", "ok", "rejected", "lost", "system", "internal", "killed"}

Locations == {"start", "opening", "pty", "shell", "poll", "keyboard",
              "socket", "loop_end", "exit"}

\* The places where the client is in receive_packet.
Receiving == {"opening", "pty", "shell", "socket"}

InLoop == {"poll", "keyboard", "socket", "loop_end"}

\* The types of the session's state, every window a uint32_t (connection.hpp).
TypeOK ==
    /\ channel \in Channel
    /\ pc \in Locations
    /\ result \in Results
    /\ revents \in [socket : BOOLEAN, hangup : BOOLEAN]
    /\ s2c \in Seq(ServerMessage)
    /\ c2s \in Seq(ClientMessage)
    /\ tcp \in {"up", "fin", "reset", "broken"}
    /\ TerminalTypeOK

\* Channel channel{} and the assignments after it.
InitialChannel ==
    [local_id |-> 0, remote_id |-> 0,
     local_window |-> LOCAL_WINDOW_TARGET, remote_window |-> 0,
     local_max_packet |-> LOCAL_MAX_PACKET_SIZE, remote_max_packet |-> 0,
     open |-> FALSE, remote_eof_received |-> FALSE,
     remote_close_received |-> FALSE, local_close_sent |-> FALSE,
     exit_status_received |-> FALSE, exit_status |-> 0]

Init ==
    /\ channel = InitialChannel
    /\ pc = "start"
    /\ result = "running"
    /\ revents = [socket |-> FALSE, hangup |-> FALSE]
    /\ s2c = <<>>
    /\ c2s = <<>>
    /\ tcp = "up"
    /\ TerminalInit

-------------------------------------------------------------------------------
(***************************************************************************)
(* How a handler ends.  An exception unwinds to main, destroying the       *)
(* Terminal object on the way; the Channel goes with its stack frame, so   *)
(* what a handler did to it before it threw is of no account.  A signal    *)
(* does not unwind.                                                        *)
(***************************************************************************)
Continue(ch, next) ==
    /\ channel' = ch
    /\ pc' = next
    /\ UNCHANGED <<result, terminalVars>>

Throw(kind) ==
    /\ pc' = "exit"
    /\ result' = kind
    /\ DestroyTerminal
    /\ UNCHANGED channel

(***************************************************************************)
(* write on a dead connection: errno ECONNRESET or, when the server had    *)
(* closed before the reset, EPIPE with SIGPIPE, which the program leaves   *)
(* at its default action.                                                  *)
(***************************************************************************)
WriteFails ==
    /\ UNCHANGED c2s
    /\ \/ tcp = "reset" /\ Throw("lost")
       \/ /\ tcp = "broken"
          /\ pc' = "exit"
          /\ result' = "killed"
          /\ UNCHANGED <<channel, terminalVars>>

\* send_packet(m), after which the client's state is ch and it is at next.
\* What is sent after the server closed its socket is lost.
send_packet(m, ch, next) ==
    \/ /\ tcp = "up"
       /\ Len(c2s) < SEND_BUFFER
       /\ c2s' = Append(c2s, m)
       /\ Continue(ch, next)
    \/ /\ tcp = "fin"
       /\ UNCHANGED c2s
       /\ Continue(ch, next)
    \/ WriteFails

\* send_packet of a message whose create_ method may throw.
create_and_send(can_create, m, ch, next) ==
    \/ can_create /\ send_packet(m, ch, next)
    \/ ~can_create /\ Throw("internal") /\ UNCHANGED c2s

-------------------------------------------------------------------------------
(***************************************************************************)
(* Whether the loop at location at has a branch for m that does not throw. *)
(***************************************************************************)
Accepts(at, m) ==
    \/ m.type = "global_request" /\ accepts_global_request(m)
    \/ /\ at = "opening"
       /\ m.type = "open_confirmation" /\ accepts_open_confirmation(channel, m)
    \/ /\ at \in {"pty", "shell"}
       /\ m.type = "success" /\ accepts_channel_success(channel, m)
    \/ /\ at \in {"pty", "shell", "socket"}
       /\ m.type = "window_adjust" /\ accepts_window_adjust(channel, m)
    \/ /\ at = "socket"
       /\ \/ m.type = "data" /\ accepts_channel_data(channel, m)
          \/ /\ m.type = "extended_data"
             /\ accepts_channel_extended_data(channel, m)
          \/ m.type = "eof" /\ accepts_channel_eof(channel, m)
          \/ m.type = "request" /\ accepts_exit_status(channel, m)
          \/ m.type = "close" /\ accepts_channel_close(channel, m)

\* The packet receive_packet returns next.
response == Head(s2c)

\* receive_packet returned a packet of one of these types; it was accepted.
Receive(at, types) ==
    /\ pc = at
    /\ s2c # <<>>
    /\ response.type \in types
    /\ Accepts(at, response)
    /\ s2c' = Tail(s2c)
    /\ UNCHANGED <<revents, tcp>>

\* Where the client goes after a message that ends neither a wait nor the loop.
StayAt(at) == IF at = "socket" THEN "loop_end" ELSE at

open_session_channel ==
    /\ pc = "start"
    /\ create_and_send(can_create_session_open(channel),
                       create_session_open(channel), channel, "opening")
    /\ UNCHANGED <<revents, s2c, tcp>>

\* The confirmation ends open_session_channel; request_pty follows.
ReceiveOpenConfirmation ==
    LET ch == parse_open_confirmation(channel, response)
    IN  /\ Receive("opening", {"open_confirmation"})
        /\ \E info \in TerminalInfos :
             create_and_send(can_create_pty_request(ch, info),
                             create_pty_request(ch), ch, "pty")

\* wait_for_channel_request_result returns; request_shell follows.
ReceivePtySuccess ==
    /\ Receive("pty", {"success"})
    /\ create_and_send(can_create_shell_request(channel),
                       create_shell_request(channel), channel, "shell")

\* wait_for_channel_request_result returns; run_interactive_shell starts by
\* entering raw mode, which may fail.
ReceiveShellSuccess ==
    /\ Receive("shell", {"success"})
    /\ UNCHANGED c2s
    /\ \/ /\ enable_raw_mode
          /\ pc' = "poll"
          /\ UNCHANGED <<channel, result>>
       \/ Throw("system")

\* Mutant: want_reply is not looked at.
handle_global_request_Silent ==
    \E at \in Receiving :
        /\ Receive(at, {"global_request"})
        /\ Continue(channel, StayAt(at)) /\ UNCHANGED c2s

handle_global_request ==
    \E at \in Receiving :
        /\ Receive(at, {"global_request"})
        /\ \/ /\ response.want_reply
              /\ send_packet(create_request_failure, channel, StayAt(at))
           \/ /\ ~response.want_reply
              /\ Continue(channel, StayAt(at)) /\ UNCHANGED c2s

ReceiveWindowAdjust ==
    \E at \in Receiving :
        /\ Receive(at, {"window_adjust"})
        /\ Continue(parse_window_adjust(channel, response), StayAt(at))
        /\ UNCHANGED c2s

\* Every branch that throws, and the else branches.
ReceiveRejected ==
    /\ pc \in Receiving
    /\ s2c # <<>>
    /\ ~Accepts(pc, response)
    /\ s2c' = Tail(s2c)
    /\ Throw("rejected")
    /\ UNCHANGED <<revents, c2s, tcp>>

\* read_exact finds the connection closed or reset and its buffer drained.
ReceiveFails ==
    /\ pc \in Receiving
    /\ s2c = <<>>
    /\ tcp # "up"
    /\ Throw("lost")
    /\ UNCHANGED <<revents, s2c, c2s, tcp>>

-------------------------------------------------------------------------------
(***************************************************************************)
(* The poll loop.  The socket is readable when a packet is buffered and    *)
(* after the server closed or reset it.  The keyboard is watched only      *)
(* while the server grants window.  EINTR repeats the loop: a stuttering   *)
(* step.                                                                   *)
(***************************************************************************)
Readable == s2c # <<>> \/ tcp # "up"

WatchKeyboard == channel.remote_window > 0

Poll ==
    /\ pc = "poll"
    /\ \E keyboard \in BOOLEAN :
        /\ keyboard => WatchKeyboard
        /\ keyboard \/ Readable
        /\ pc' = IF keyboard THEN "keyboard" ELSE "socket"
    /\ revents' = [socket |-> Readable, hangup |-> tcp \in {"reset", "broken"}]
    /\ UNCHANGED <<channel, result, s2c, c2s, tcp, terminalVars>>

MinOf(a, b) == IF a <= b THEN a ELSE b

\* Mutant: the server's packet size is not considered.
max_read_AnySize == MinOf(KEYBOARD_BUFFER_SIZE, channel.remote_window)

max_read ==
    MinOf(MinOf(KEYBOARD_BUFFER_SIZE, channel.remote_window),
          channel.remote_max_packet)

\* Mutant: the socket is served only when the keyboard is not.
AfterKeyboard_Else == "loop_end"

AfterKeyboard == IF revents.socket THEN "socket" ELSE "loop_end"

\* Mutant: what was sent is not taken from the window.
DataSent_Uncounted(ch, size) == ch

DataSent(ch, size) == [ch EXCEPT !.remote_window = Sub32(@, size)]

\* read gives the bytes typed so far, at most max_read of them.
Keyboard(bytes_read) ==
    /\ pc = "keyboard"
    /\ bytes_read \in 1..max_read
    /\ create_and_send(can_create_channel_data(channel, bytes_read),
                       create_channel_data(channel, bytes_read),
                       DataSent(channel, bytes_read),
                       AfterKeyboard)
    /\ UNCHANGED <<revents, s2c, tcp>>

\* read returns 0, the terminal having hung up: nothing is done.
KeyboardEof ==
    /\ pc = "keyboard"
    /\ Continue(channel, AfterKeyboard)
    /\ UNCHANGED <<revents, s2c, c2s, tcp>>

\* poll, or read on the keyboard, returns -1.
SystemCallFails ==
    /\ pc \in {"poll", "keyboard"}
    /\ Throw("system")
    /\ UNCHANGED <<revents, s2c, c2s, tcp>>

\* Mutants: one byte too late, or never.
NeedsAdjust_Late(ch) == ch.open /\ ch.local_window < LOCAL_WINDOW_THRESHOLD

NeedsAdjust_Never(ch) == FALSE

NeedsAdjust(ch) == ch.open /\ ch.local_window <= LOCAL_WINDOW_THRESHOLD

\* Both kinds of data are written out at once and their window is given back
\* when no more than LOCAL_WINDOW_THRESHOLD of it is left.  The client looks
\* at nothing between receiving and sending: that the two are one step only
\* keeps a packet in the receive buffer while the write blocks.
ReceiveData ==
    LET ch == parse_channel_data(channel, response)
        difference == Sub32(LOCAL_WINDOW_TARGET, ch.local_window)
    IN  /\ Receive("socket", {"data", "extended_data"})
        /\ \/ /\ NeedsAdjust(ch)
              /\ create_and_send(
                   can_create_window_adjust(ch, difference),
                   create_window_adjust(ch, difference),
                   [ch EXCEPT !.local_window = Add32(@, difference)],
                   "loop_end")
           \/ ~NeedsAdjust(ch) /\ Continue(ch, "loop_end") /\ UNCHANGED c2s

ReceiveEof ==
    /\ Receive("socket", {"eof"})
    /\ Continue(parse_channel_eof(channel), "loop_end")
    /\ UNCHANGED c2s

ReceiveExitStatus ==
    /\ Receive("socket", {"request"})
    /\ Continue(parse_exit_status(channel, response), "loop_end")
    /\ UNCHANGED c2s

\* Mutant: the channel is left open.
CloseSent_StaysOpen(ch) == [ch EXCEPT !.local_close_sent = TRUE]

CloseSent(ch) == [ch EXCEPT !.local_close_sent = TRUE, !.open = FALSE]

\* The client answers with its own CLOSE, after which both flags are set and
\* the channel is no longer open.
ReceiveClose ==
    LET ch == parse_channel_close(channel)
    IN  /\ Receive("socket", {"close"})
        /\ \/ /\ ~ch.local_close_sent
              /\ create_and_send(
                   can_create_channel_close(ch), create_channel_close(ch),
                   CloseSent(ch), "loop_end")
           \/ /\ ch.local_close_sent
              /\ Continue([ch EXCEPT !.open = FALSE], "loop_end")
              /\ UNCHANGED c2s

\* Mutant: the socket is asked anew, and one the server closed counts as dead.
SocketDead_AskedAnew == tcp # "up"

\* The revents of this iteration's poll decide, whatever has happened since.
SocketDead == revents.hangup

LoopAgain ==
    /\ pc = "loop_end"
    /\ channel.open
    /\ \/ SocketDead /\ Throw("lost")
       \/ ~SocketDead /\ Continue(channel, "poll")
    /\ UNCHANGED <<revents, s2c, c2s, tcp>>

\* The loop ends; terminal.restore() may throw, and then ~Terminal repeats it.
LoopExit ==
    /\ pc = "loop_end"
    /\ ~channel.open
    /\ \/ /\ restore
          /\ pc' = "exit"
          /\ result' = "ok"
          /\ UNCHANGED channel
       \/ Throw("system")
    /\ UNCHANGED <<revents, s2c, c2s, tcp>>

ClientWorks ==
    \/ open_session_channel
    \/ ReceiveOpenConfirmation
    \/ ReceivePtySuccess
    \/ ReceiveShellSuccess
    \/ handle_global_request
    \/ ReceiveWindowAdjust
    \/ ReceiveRejected
    \/ ReceiveFails
    \/ Poll
    \/ \E bytes_read \in 1..KEYBOARD_BUFFER_SIZE : Keyboard(bytes_read)
    \/ KeyboardEof
    \/ ReceiveData
    \/ ReceiveEof
    \/ ReceiveExitStatus
    \/ ReceiveClose
    \/ LoopAgain
    \/ LoopExit

Client == ClientWorks \/ SystemCallFails

-------------------------------------------------------------------------------
(***************************************************************************)
(* The server and the network, as far as the client can see them.          *)
(***************************************************************************)
clientVars == <<channel, pc, result, revents, terminalVars>>

ServerSends(m) ==
    /\ pc # "exit"
    /\ tcp = "up"
    /\ Len(s2c) < RECV_BUFFER
    /\ s2c' = Append(s2c, m)
    /\ UNCHANGED <<clientVars, c2s, tcp>>

ServerReads ==
    /\ pc # "exit"
    /\ tcp = "up"
    /\ c2s # <<>>
    /\ c2s' = Tail(c2s)
    /\ UNCHANGED <<clientVars, s2c, tcp>>

ServerCloses ==
    /\ pc # "exit"
    /\ tcp = "up"
    /\ tcp' = "fin"
    /\ UNCHANGED <<clientVars, s2c, c2s>>

\* A reset may overtake packets the client's kernel has not received yet.
ConnectionReset ==
    /\ pc # "exit"
    /\ tcp \in {"up", "fin"}
    /\ tcp' = IF tcp = "up" THEN "reset" ELSE "broken"
    /\ \E n \in 0..Len(s2c) : s2c' = SubSeq(s2c, 1, n)
    /\ UNCHANGED <<clientVars, c2s>>

Server ==
    \/ \E m \in ServerMessages : ServerSends(m)
    \/ ServerReads
    \/ ServerCloses
    \/ ConnectionReset

\* The process has ended.
Terminated == pc = "exit" /\ UNCHANGED vars

Next == Client \/ Server \/ Terminated

Spec == Init /\ [][Next]_vars

(***************************************************************************)
(* The client is one thread that is always running or in a system call.    *)
(* poll returns when the socket is readable; that the user types, or that  *)
(* a system call fails, is not assumed.                                    *)
(***************************************************************************)
Awake == pc = "poll" => Readable

FairSpec == Spec /\ WF_vars(Awake /\ ClientWorks)

-------------------------------------------------------------------------------
(***************************************************************************)
(* The inductive invariant behind the properties below.  The local window  *)
(* is always the one on offer; where the client is tells whether the       *)
(* channel is open and what the terminal's settings are; a channel closed  *)
(* by the client is closed for both.                                       *)
(***************************************************************************)
WindowInv ==
    /\ channel.local_window \in (LOCAL_WINDOW_THRESHOLD + 1)..LOCAL_WINDOW_TARGET
    /\ channel.local_max_packet = LOCAL_MAX_PACKET_SIZE

OpenInv ==
    /\ pc \in {"start", "opening"} => ~channel.open /\ ~channel.local_close_sent
    /\ pc \in {"pty", "shell", "poll", "keyboard", "socket"} => channel.open
    /\ pc = "loop_end" /\ ~channel.open => channel.local_close_sent
    /\ channel.local_close_sent =>
          channel.remote_close_received /\ ~channel.open
    /\ result = "ok" => channel.local_close_sent

TerminalInv ==
    /\ pc \in InLoop =>
          tty = "raw" /\ raw_mode_active /\ original_settings = "cooked"
    /\ pc \in {"start", "opening", "pty", "shell"} =>
          tty = "cooked" /\ ~raw_mode_active
    /\ pc = "exit" /\ result # "killed" => tty = "cooked"

SessionInv ==
    /\ TypeOK
    /\ pc # "exit" => result = "running"
    /\ result # "internal"
    /\ WindowInv
    /\ OpenInv
    /\ TerminalInv

(***************************************************************************)
(* None of the exceptions that the create_ methods of Connection reserve   *)
(* for misuse by main.cpp is ever thrown, whatever the server sends: the   *)
(* poll loop never asks for more bytes than window and packet size allow,  *)
(* never for a window adjustment of zero or one that overflows, and never  *)
(* sends on a channel that is closed.                                      *)
(***************************************************************************)
NoInternalError == result # "internal"

(***************************************************************************)
(* Flow control never starves the server: wherever the poll loop is, more  *)
(* than LOCAL_WINDOW_THRESHOLD bytes of window are on offer, and never     *)
(* more than LOCAL_WINDOW_TARGET (main.cpp:312-318).                       *)
(***************************************************************************)
WindowOffered ==
    pc \in InLoop =>
        channel.local_window \in (LOCAL_WINDOW_THRESHOLD + 1)..LOCAL_WINDOW_TARGET

(***************************************************************************)
(* However the session ends, by return or by exception, the terminal has   *)
(* its settings back; only a signal prevents it (terminal.cpp:102-118).    *)
(***************************************************************************)
RestoredUnlessKilled ==
    pc = "exit" /\ result # "killed" => tty = "cooked"

(***************************************************************************)
(* The closing handshake: the client counts the session as ended normally  *)
(* only after it received CLOSE and answered it, and it closes only in     *)
(* answer to the server (main.cpp:302-308, 319-321).                       *)
(***************************************************************************)
CloseHandshake ==
    /\ result = "ok" => channel.local_close_sent
    /\ pc \in InLoop /\ ~channel.open => channel.local_close_sent
    /\ channel.local_close_sent =>
          channel.remote_close_received /\ ~channel.open

(***************************************************************************)
(* The client's CLOSE is the last packet it puts on the connection.        *)
(***************************************************************************)
NothingAfterClose ==
    [][channel.local_close_sent => Len(c2s') <= Len(c2s)]_vars

(***************************************************************************)
(* The connection is reported lost only when it is: reset, or closed by    *)
(* the server and then only after every packet sent before the close has   *)
(* been handled, although poll reports the close with packets buffered     *)
(* (main.cpp:276, 323).  Never after the client answered CLOSE, when the   *)
(* server is free to close or reset at once (main.cpp:319-323).            *)
(***************************************************************************)
LostForCause ==
    result = "lost" =>
        /\ tcp # "up"
        /\ tcp = "fin" => s2c = <<>>
        /\ ~channel.local_close_sent

(***************************************************************************)
(* A connection the server has closed or reset ends the session, however   *)
(* much the user goes on typing and however many packets are still         *)
(* buffered: every iteration of the loop that finds the socket readable    *)
(* reads from it (main.cpp:257-277).                                       *)
(***************************************************************************)
DeadConnectionEnds == tcp # "up" ~> pc = "exit"

(***************************************************************************)
(* What ~Terminal promises (terminal.hpp:26, "Restores saved terminal      *)
(* settings if necessary") and write_exact (socket.hpp:21, "Writes exactly *)
(* len bytes from src or throws on failure"): every end of the session     *)
(* leaves the terminal as it was.                                          *)
(***************************************************************************)
RestoredAtExit == pc = "exit" => tty = "cooked"

===============================================================================
