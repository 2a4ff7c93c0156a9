----------------------------- MODULE ShellSession -----------------------------
(***************************************************************************)
(* The client of Session together with a server that keeps to the channel  *)
(* protocol, over a connection that loses nothing until the server, having *)
(* seen the client's CLOSE, closes it.  The server is not part of the      *)
(* repository: it is what the client relies on.  typed, received, produced *)
(* and shown count the bytes of the session's two streams at their ends.   *)
(***************************************************************************)
EXTENDS Session, FiniteSets

CONSTANTS
    SERVER_WINDOW,          \* the window the server keeps open
    SERVER_MAX_PACKET_SIZE,
    EXIT_STATUS,            \* the shell's exit status
    MaxTyped,               \* bounds on the session's length
    MaxOutput,
    MaxGlobalRequests

ASSUME ShellSessionAssumption ==
    /\ SERVER_WINDOW \in 1..UINT32_MAX
    /\ SERVER_MAX_PACKET_SIZE \in MIN_MAX_PACKET_SIZE..UINT32_MAX
    /\ EXIT_STATUS \in UInt32
    /\ MaxTyped \in Nat /\ MaxOutput \in Nat /\ MaxGlobalRequests \in Nat

VARIABLES
    server,             \* the server's end of the channel
    requests,           \* global requests sent
    typed, received,    \* bytes read from the keyboard, consumed by the shell
    produced, shown     \* bytes the shell wrote, written to the terminal

counters == <<requests, typed, received, produced, shown>>

shellVars == <<vars, server, counters>>

ServerPhases == {"idle", "open", "shell", "closed"}

\* Both ends keep their types: no arithmetic of connection.cpp on a window leaves
\* uint32_t on either side, and no more is seen than was sent.
ShellTypeOK ==
    /\ TypeOK
    /\ server \in [phase : ServerPhases,
                   send_window : UInt32, recv_window : UInt32,
                   reply : {"none", "confirmation", "pty-req", "shell"},
                   eof_sent : BOOLEAN, exit_sent : BOOLEAN,
                   close_received : BOOLEAN, unanswered : Nat]
    /\ requests \in 0..MaxGlobalRequests
    /\ typed \in 0..MaxTyped /\ received \in 0..MaxTyped
    /\ produced \in 0..MaxOutput /\ shown \in 0..MaxOutput

ShellInit ==
    /\ Init
    /\ server = [phase |-> "idle", send_window |-> 0, recv_window |-> 0,
                 reply |-> "none", eof_sent |-> FALSE, exit_sent |-> FALSE,
                 close_received |-> FALSE, unanswered |-> 0]
    /\ requests = 0
    /\ typed = 0 /\ received = 0
    /\ produced = 0 /\ shown = 0

-------------------------------------------------------------------------------
(***************************************************************************)
(* The client's steps, with the bytes they take from the keyboard and put  *)
(* on the terminal.                                                        *)
(***************************************************************************)
Types(bytes_read) ==
    /\ typed + bytes_read <= MaxTyped
    /\ Keyboard(bytes_read)
    /\ typed' = typed + bytes_read
    /\ UNCHANGED <<server, requests, received, produced, shown>>

Shows ==
    /\ ReceiveData
    /\ shown' = shown + response.size
    /\ UNCHANGED <<server, requests, typed, received, produced>>

Works ==
    /\ \/ open_session_channel
       \/ ReceiveOpenConfirmation
       \/ ReceivePtySuccess
       \/ ReceiveShellSuccess
       \/ handle_global_request
       \/ ReceiveWindowAdjust
       \/ ReceiveRejected
       \/ ReceiveFails
       \/ Poll
       \/ KeyboardEof
       \/ ReceiveEof
       \/ ReceiveExitStatus
       \/ ReceiveClose
       \/ LoopAgain
       \/ LoopExit
    /\ UNCHANGED <<server, counters>>

ClientProceeds ==
    \/ \E bytes_read \in 1..KEYBOARD_BUFFER_SIZE : Types(bytes_read)
    \/ Shows
    \/ Works

ClientStep ==
    \/ ClientProceeds
    \/ SystemCallFails /\ UNCHANGED <<server, counters>>

-------------------------------------------------------------------------------
(***************************************************************************)
(* The server's steps.  It numbers its end of the channel 1.  It reads     *)
(* whether or not it can write, keeping a reply it owes: the client, which *)
(* does not read while a write blocks (socket.cpp:78-94), relies on that.  *)
(***************************************************************************)
request == Head(c2s)

ServerRuns == pc # "exit" /\ tcp = "up"

Reads(types) == ServerRuns /\ c2s # <<>> /\ request.type \in types

Sends(m) == Len(s2c) < RECV_BUFFER /\ s2c' = Append(s2c, m)

ServerIsAsked ==
    /\ Reads({"channel_open", "request"})
    /\ server' =
         IF request.type = "channel_open"
         THEN [server EXCEPT !.reply = "confirmation",
                             !.send_window = request.window]
         ELSE [server EXCEPT !.reply = request.name]
    /\ c2s' = Tail(c2s)
    /\ UNCHANGED <<clientVars, s2c, tcp, counters>>

ServerConfirms ==
    /\ ServerRuns
    /\ server.reply = "confirmation"
    /\ \E window \in {0, SERVER_WINDOW} :
        /\ Sends([type |-> "open_confirmation", recipient |-> 0,
                  sender |-> 1, window |-> window,
                  max_packet |-> SERVER_MAX_PACKET_SIZE,
                  well_formed |-> TRUE])
        /\ server' = [server EXCEPT !.phase = "open", !.reply = "none",
                                    !.recv_window = window]
    /\ UNCHANGED <<clientVars, c2s, tcp, counters>>

ServerAccepts ==
    /\ ServerRuns
    /\ server.reply \in {"pty-req", "shell"}
    /\ Sends([type |-> "success", recipient |-> 0, well_formed |-> TRUE])
    /\ server' = [server EXCEPT
                    !.phase = IF server.reply = "shell" THEN "shell" ELSE @,
                    !.reply = "none"]
    /\ UNCHANGED <<clientVars, c2s, tcp, counters>>

\* Input is the shell's until the server sent CLOSE; then it is dropped.
ServerConsumes ==
    /\ Reads({"data"})
    /\ server' = [server EXCEPT !.recv_window = @ - request.size]
    /\ received' = received + request.size
    /\ c2s' = Tail(c2s)
    /\ UNCHANGED <<clientVars, s2c, tcp, requests, typed, produced, shown>>

ServerIsGranted ==
    /\ Reads({"window_adjust"})
    /\ server' = [server EXCEPT !.send_window = @ + request.bytes_to_add]
    /\ c2s' = Tail(c2s)
    /\ UNCHANGED <<clientVars, s2c, tcp, counters>>

ServerIsAnswered ==
    /\ Reads({"request_failure"})
    /\ server' = [server EXCEPT !.unanswered = @ - 1]
    /\ c2s' = Tail(c2s)
    /\ UNCHANGED <<clientVars, s2c, tcp, counters>>

ServerSeesClose ==
    /\ Reads({"close"})
    /\ server' = [server EXCEPT !.close_received = TRUE]
    /\ c2s' = Tail(c2s)
    /\ UNCHANGED <<clientVars, s2c, tcp, counters>>

ServerGrants ==
    /\ ServerRuns
    /\ server.phase \in {"open", "shell"}
    /\ server.recv_window < SERVER_WINDOW
    /\ Sends([type |-> "window_adjust", recipient |-> 0,
              bytes_to_add |-> SERVER_WINDOW - server.recv_window,
              well_formed |-> TRUE])
    /\ server' = [server EXCEPT !.recv_window = SERVER_WINDOW]
    /\ UNCHANGED <<clientVars, c2s, tcp, counters>>

ServerAsks(want_reply) ==
    /\ ServerRuns
    /\ server.phase # "closed"
    /\ requests < MaxGlobalRequests
    /\ Sends([type |-> "global_request", want_reply |-> want_reply,
              well_formed |-> TRUE])
    /\ requests' = requests + 1
    /\ server' = [server EXCEPT
                    !.unanswered = IF want_reply THEN @ + 1 ELSE @]
    /\ UNCHANGED <<clientVars, c2s, tcp, typed, received, produced, shown>>

OutputMessages(n) ==
    {[type |-> "data", recipient |-> 0, size |-> n, well_formed |-> TRUE],
     [type |-> "extended_data", recipient |-> 0, data_type |-> 1, size |-> n,
      well_formed |-> TRUE]}

ServerOutputs(n) ==
    /\ ServerRuns
    /\ server.phase = "shell" /\ ~server.eof_sent
    /\ n <= server.send_window
    /\ produced + n <= MaxOutput
    /\ \E m \in OutputMessages(n) : Sends(m)
    /\ server' = [server EXCEPT !.send_window = @ - n]
    /\ produced' = produced + n
    /\ UNCHANGED <<clientVars, c2s, tcp, requests, typed, received, shown>>

ServerEof ==
    /\ ServerRuns
    /\ server.phase = "shell" /\ ~server.eof_sent
    /\ Sends([type |-> "eof", recipient |-> 0, well_formed |-> TRUE])
    /\ server' = [server EXCEPT !.eof_sent = TRUE]
    /\ UNCHANGED <<clientVars, c2s, tcp, counters>>

ServerExitStatus ==
    /\ ServerRuns
    /\ server.phase = "shell" /\ ~server.exit_sent
    /\ Sends([type |-> "request", recipient |-> 0, name |-> "exit-status",
              exit_status |-> EXIT_STATUS, well_formed |-> TRUE])
    /\ server' = [server EXCEPT !.exit_sent = TRUE]
    /\ UNCHANGED <<clientVars, c2s, tcp, counters>>

ServerClosesChannel ==
    /\ ServerRuns
    /\ server.phase = "shell"
    /\ Sends([type |-> "close", recipient |-> 0, well_formed |-> TRUE])
    /\ server' = [server EXCEPT !.phase = "closed"]
    /\ UNCHANGED <<clientVars, c2s, tcp, counters>>

\* Only once the client has answered its CLOSE.
ServerDisconnects ==
    /\ server.close_received
    /\ ServerCloses
    /\ UNCHANGED <<server, counters>>

ServerReceives ==
    \/ ServerIsAsked
    \/ ServerConsumes
    \/ ServerIsGranted
    \/ ServerIsAnswered
    \/ ServerSeesClose

ServerWrites == \E n \in 1..LOCAL_MAX_PACKET_SIZE : ServerOutputs(n)

ServerStep ==
    \/ ServerReceives
    \/ ServerConfirms
    \/ ServerAccepts
    \/ ServerGrants
    \/ \E want_reply \in BOOLEAN : ServerAsks(want_reply)
    \/ ServerWrites
    \/ ServerEof
    \/ ServerExitStatus
    \/ ServerClosesChannel
    \/ ServerDisconnects

ShellNext ==
    \/ ClientStep
    \/ ServerStep
    \/ Terminated /\ UNCHANGED <<server, counters>>

ShellSpec == ShellInit /\ [][ShellNext]_shellVars

(***************************************************************************)
(* The client never stops by itself: main.cpp has no sleep and no wait     *)
(* other than for the socket and the keyboard; see Awake.  The server      *)
(* reads what it is sent, replenishes the window it grants, and writes     *)
(* what its shell has to say.                                              *)
(***************************************************************************)
FairShellSpec ==
    /\ ShellSpec
    /\ WF_shellVars(Awake /\ ClientProceeds)
    /\ WF_shellVars(ServerReceives)
    /\ SF_shellVars(ServerConfirms \/ ServerAccepts)
    /\ SF_shellVars(ServerGrants)
    /\ SF_shellVars(ServerWrites)

-------------------------------------------------------------------------------
(***************************************************************************)
(* A server that keeps to the protocol never has a packet refused, in      *)
(* whatever order its messages meet the client's states: no message of     *)
(* its reaches one of the throws of connection.cpp or of the loops.        *)
(***************************************************************************)
NeverRejected == result \notin {"rejected", "internal"}

\* What a message carries of the bytes of a stream, of window for the other
\* end, or of questions to answer and answers.
Amount(kind, m) ==
    CASE kind = "data" /\ m.type \in {"data", "extended_data"} -> m.size
      [] kind = "window" /\ m.type = "window_adjust" -> m.bytes_to_add
      [] kind = "window" /\ m.type \in {"channel_open", "open_confirmation"} ->
            m.window
      [] kind = "reply" /\ m.type = "global_request" /\ m.want_reply -> 1
      [] kind = "reply" /\ m.type = "request_failure" -> 1
      [] OTHER -> 0

\* How much of it is under way: the units of every message, counted.
InFlight(kind, queue) ==
    Cardinality(UNION {{i} \X (1..Amount(kind, queue[i])) : i \in DOMAIN queue})

(***************************************************************************)
(* The two ends' views of a window differ exactly by what is in flight,    *)
(* in both directions: what the client believes the server may still send  *)
(* (local_window, main.cpp:312-318, connection.cpp:259) and what it        *)
(* believes it may send itself (remote_window, main.cpp:273).              *)
(***************************************************************************)
WindowsAgree ==
    pc \notin {"start", "exit"} =>
        /\ channel.local_window =
              server.send_window + InFlight("data", s2c) + InFlight("window", c2s)
        /\ server.recv_window =
              channel.remote_window + InFlight("data", c2s) + InFlight("window", s2c)

(***************************************************************************)
(* Every global request that wants a reply gets exactly one, whichever of  *)
(* the client's three receive loops it reaches (main.cpp:163-168).         *)
(***************************************************************************)
RepliesOwed ==
    pc # "exit" =>
        server.unanswered = InFlight("reply", s2c) + InFlight("reply", c2s)

(***************************************************************************)
(* When the session ends normally, everything the shell wrote before the   *)
(* server's CLOSE is on the terminal and the exit status, if the server    *)
(* sent one, is the one reported (main.cpp:462-464).                       *)
(***************************************************************************)
CompleteAtExit ==
    result = "ok" =>
        /\ shown = produced
        /\ channel.exit_status_received = server.exit_sent
        /\ server.exit_sent => channel.exit_status = EXIT_STATUS

(***************************************************************************)
(* A shell with something to say gets to say all of it: the client keeps   *)
(* giving window back (main.cpp:312-318), also while the user is typing.   *)
(***************************************************************************)
OutputFlows ==
    server.phase = "shell" ~>
        \/ shown = MaxOutput
        \/ server.eof_sent \/ server.phase = "closed"
        \/ pc = "exit"

(***************************************************************************)
(* A user whose keystrokes fill the server's window can type again: while  *)
(* the keyboard is not watched (main.cpp:242-246) the adjustment is read.  *)
(***************************************************************************)
KeyboardResumes ==
    pc \in InLoop /\ ~WatchKeyboard ~> WatchKeyboard \/ pc = "exit"
        \/ server.phase = "closed"

(***************************************************************************)
(* The server's CLOSE ends the session.                                    *)
(***************************************************************************)
CloseEndsSession == server.phase = "closed" ~> pc = "exit"

(***************************************************************************)
(* A global request that wants a reply gets it.                            *)
(***************************************************************************)
RequestsAnswered == server.unanswered > 0 ~> server.unanswered = 0 \/ pc = "exit"

===============================================================================
