----------------------------- MODULE SessionProofs -----------------------------
(***************************************************************************)
(* Session for every window, packet and buffer size and every server: the  *)
(* types, the inductive invariant SessionInv, and what follows from it.    *)
(***************************************************************************)
EXTENDS Session, TLAPS

(***************************************************************************)
(* The wrapping arithmetic of uint32_t stays in its range.                 *)
(***************************************************************************)
LEMMA Arithmetic32 ==
    ASSUME NEW a \in UInt32, NEW b \in UInt32
    PROVE  /\ Add32(a, b) \in UInt32
           /\ Sub32(a, b) \in UInt32
           /\ a + b <= UINT32_MAX => Add32(a, b) = a + b
           /\ b <= a => Sub32(a, b) = a - b
BY ConnectionAssumption DEF Add32, Sub32, UInt32

(***************************************************************************)
(* The numbers of a server's message are uint32_t.                         *)
(***************************************************************************)
LEMMA MessageFields ==
    ASSUME NEW m \in ServerMessage
    PROVE  /\ m.type = "open_confirmation" =>
                 m.sender \in UInt32 /\ m.window \in UInt32 /\ m.max_packet \in UInt32
           /\ m.type = "window_adjust" => m.bytes_to_add \in UInt32
           /\ m.type \in {"data", "extended_data"} => m.size \in UInt32
           /\ m.type = "request" => m.exit_status \in UInt32
BY DEF ServerMessage

(***************************************************************************)
(* Every method of Connection that updates a channel leaves a channel.     *)
(***************************************************************************)
LEMMA ChannelUpdates ==
    ASSUME NEW ch \in Channel, NEW m \in ServerMessage
    PROVE  /\ m.type = "open_confirmation" => parse_open_confirmation(ch, m) \in Channel
           /\ m.type = "window_adjust" => parse_window_adjust(ch, m) \in Channel
           /\ m.type \in {"data", "extended_data"} => parse_channel_data(ch, m) \in Channel
           /\ m.type = "request" => parse_exit_status(ch, m) \in Channel
           /\ parse_channel_eof(ch) \in Channel
           /\ parse_channel_close(ch) \in Channel
<1>1. CASE m.type = "open_confirmation"
  BY <1>1, MessageFields
     DEF Channel, parse_open_confirmation, parse_channel_eof, parse_channel_close
<1>2. CASE m.type = "window_adjust"
  <2>1. Add32(ch.remote_window, m.bytes_to_add) \in UInt32
    BY <1>2, MessageFields, Arithmetic32 DEF Channel
  <2> QED
    BY <1>2, <2>1
       DEF Channel, parse_window_adjust, parse_channel_eof, parse_channel_close
<1>3. CASE m.type \in {"data", "extended_data"}
  <2>1. Sub32(ch.local_window, m.size) \in UInt32
    BY <1>3, MessageFields, Arithmetic32 DEF Channel
  <2> QED
    BY <1>3, <2>1
       DEF Channel, parse_channel_data, parse_channel_eof, parse_channel_close
<1>4. CASE m.type = "request"
  BY <1>4, MessageFields
     DEF Channel, parse_exit_status, parse_channel_eof, parse_channel_close
<1>5. parse_channel_eof(ch) \in Channel /\ parse_channel_close(ch) \in Channel
  BY DEF Channel, parse_channel_eof, parse_channel_close
<1> QED
  BY <1>1, <1>2, <1>3, <1>4, <1>5

(***************************************************************************)
(* Every message the client builds is one a server can expect.             *)
(***************************************************************************)
LEMMA ClientMessages ==
    ASSUME NEW ch \in Channel, NEW n \in UInt32
    PROVE  /\ create_session_open(ch) \in ClientMessage
           /\ create_request_failure \in ClientMessage
           /\ create_pty_request(ch) \in ClientMessage
           /\ create_shell_request(ch) \in ClientMessage
           /\ create_channel_data(ch, n) \in ClientMessage
           /\ create_window_adjust(ch, n) \in ClientMessage
           /\ create_channel_close(ch) \in ClientMessage
BY DEF Channel, ClientMessage, create_session_open, create_request_failure,
       create_pty_request, create_shell_request, create_channel_data,
       create_window_adjust, create_channel_close

-------------------------------------------------------------------------------
(***************************************************************************)
(* Ending by exception, and sending a message, keep the types.             *)
(***************************************************************************)
LEMMA ThrowTypes ==
    ASSUME TypeOK, NEW kind \in Results, Throw(kind)
    PROVE  /\ channel' \in Channel
           /\ pc' \in Locations
           /\ result' \in Results
           /\ TerminalTypeOK'
BY DEF TypeOK, Throw, DestroyTerminal, TerminalTypeOK, TtySettings, Locations

LEMMA SendTypes ==
    ASSUME TypeOK,
           NEW m \in ClientMessage, NEW ch \in Channel, NEW next \in Locations,
           send_packet(m, ch, next)
    PROVE  /\ channel' \in Channel
           /\ pc' \in Locations
           /\ result' \in Results
           /\ c2s' \in Seq(ClientMessage)
           /\ TerminalTypeOK'
<1>1. CASE Continue(ch, next) /\ (c2s' = Append(c2s, m) \/ UNCHANGED c2s)
  BY <1>1 DEF TypeOK, Continue, TerminalTypeOK, terminalVars
<1>2. CASE WriteFails /\ Throw("lost")
  BY <1>2, ThrowTypes DEF TypeOK, WriteFails, Results
<1>3. CASE WriteFails /\ result' = "killed"
  BY <1>3
     DEF TypeOK, WriteFails, Throw, Results, Locations, TerminalTypeOK,
         terminalVars
<1> QED
  BY <1>1, <1>2, <1>3 DEF send_packet, WriteFails

LEMMA CreateAndSendTypes ==
    ASSUME TypeOK, NEW can,
           NEW m \in ClientMessage, NEW ch \in Channel, NEW next \in Locations,
           create_and_send(can, m, ch, next)
    PROVE  /\ channel' \in Channel
           /\ pc' \in Locations
           /\ result' \in Results
           /\ c2s' \in Seq(ClientMessage)
           /\ TerminalTypeOK'
<1>1. CASE send_packet(m, ch, next)
  BY <1>1, SendTypes
<1>2. CASE Throw("internal") /\ UNCHANGED c2s
  BY <1>2, ThrowTypes DEF TypeOK, Results
<1> QED
  BY <1>1, <1>2 DEF create_and_send

\* A packet that is received comes off the queue.
LEMMA ReceiveTypes ==
    ASSUME TypeOK, NEW at, NEW types, Receive(at, types)
    PROVE  /\ response \in ServerMessage
           /\ response.type \in types
           /\ s2c' \in Seq(ServerMessage)
           /\ revents' \in [socket : BOOLEAN, hangup : BOOLEAN]
           /\ tcp' \in {"up", "fin", "reset", "broken"}
BY DEF TypeOK, Receive, response

(***************************************************************************)
(* Every step keeps the types.                                             *)
(***************************************************************************)
LEMMA TypeStep ==
    TypeOK /\ [Next]_vars => TypeOK'
<1> SUFFICES ASSUME TypeOK, [Next]_vars PROVE TypeOK'
  OBVIOUS
<1> USE DEF Locations, Results
<1>1. CASE open_session_channel
  <2>1. create_session_open(channel) \in ClientMessage
    BY SessionAssumption, ClientMessages DEF TypeOK
  <2>2. channel \in Channel
    BY DEF TypeOK
  <2> QED
    BY <1>1, <2>1, <2>2, CreateAndSendTypes DEF open_session_channel, TypeOK
<1>2. CASE ReceiveOpenConfirmation
  <2> DEFINE ch == parse_open_confirmation(channel, response)
  <2>1. Receive("opening", {"open_confirmation"})
    BY <1>2 DEF ReceiveOpenConfirmation
  <2>2. ch \in Channel
    <3>1. response \in ServerMessage /\ response.type = "open_confirmation"
      BY <2>1, ReceiveTypes
    <3> QED
      BY <3>1, ChannelUpdates DEF TypeOK
  <2>3. create_pty_request(ch) \in ClientMessage
    BY <2>2, SessionAssumption, ClientMessages
  <2>4. PICK info \in TerminalInfos :
            create_and_send(can_create_pty_request(ch, info),
                            create_pty_request(ch), ch, "pty")
    BY <1>2 DEF ReceiveOpenConfirmation
  <2> HIDE DEF ch
  <2> QED
    BY <2>1, <2>2, <2>3, <2>4, ReceiveTypes, CreateAndSendTypes DEF TypeOK
<1>3. CASE ReceivePtySuccess
  <2>1. channel \in Channel /\ create_shell_request(channel) \in ClientMessage
    BY SessionAssumption, ClientMessages DEF TypeOK
  <2>2. Receive("pty", {"success"})
    BY <1>3 DEF ReceivePtySuccess
  <2> QED
    BY <1>3, <2>1, <2>2, ReceiveTypes, CreateAndSendTypes
       DEF TypeOK, ReceivePtySuccess
<1>4. CASE ReceiveShellSuccess
  <2>1. Receive("shell", {"success"}) /\ UNCHANGED c2s
    BY <1>4 DEF ReceiveShellSuccess
  <2>2. CASE Throw("system")
    BY <2>1, <2>2, ReceiveTypes, ThrowTypes DEF TypeOK
  <2>3. CASE enable_raw_mode /\ pc' = "poll" /\ UNCHANGED <<channel, result>>
    <3>1. TerminalTypeOK'
      BY <2>3
         DEF TypeOK, enable_raw_mode, TerminalTypeOK, TtySettings, terminalVars
    <3> QED
      BY <2>1, <2>3, <3>1, ReceiveTypes DEF TypeOK
  <2> QED
    BY <1>4, <2>2, <2>3 DEF ReceiveShellSuccess
<1>5. CASE handle_global_request
  <2>1. PICK at \in Receiving :
            /\ Receive(at, {"global_request"})
            /\ \/ send_packet(create_request_failure, channel, StayAt(at))
               \/ Continue(channel, StayAt(at)) /\ UNCHANGED c2s
    BY <1>5 DEF handle_global_request
  <2>2. StayAt(at) \in Locations /\ channel \in Channel
    BY DEF StayAt, Receiving, TypeOK
  <2>3. create_request_failure \in ClientMessage
    BY DEF create_request_failure, ClientMessage
  <2>4. CASE send_packet(create_request_failure, channel, StayAt(at))
    BY <2>1, <2>2, <2>3, <2>4, ReceiveTypes, SendTypes DEF TypeOK
  <2>5. CASE Continue(channel, StayAt(at)) /\ UNCHANGED c2s
    BY <2>1, <2>2, <2>5, ReceiveTypes
       DEF TypeOK, Continue, TerminalTypeOK, terminalVars
  <2> QED
    BY <2>1, <2>4, <2>5
<1>6. CASE ReceiveWindowAdjust
  <2> DEFINE ch == parse_window_adjust(channel, response)
  <2>1. PICK at \in Receiving :
            /\ Receive(at, {"window_adjust"})
            /\ Continue(ch, StayAt(at))
            /\ UNCHANGED c2s
    BY <1>6 DEF ReceiveWindowAdjust
  <2>2. StayAt(at) \in Locations
    BY DEF StayAt, Receiving
  <2>3. ch \in Channel
    <3>1. response \in ServerMessage /\ response.type = "window_adjust"
      BY <2>1, ReceiveTypes
    <3> QED
      BY <3>1, ChannelUpdates DEF TypeOK
  <2> HIDE DEF ch
  <2> QED
    BY <2>1, <2>2, <2>3, ReceiveTypes
       DEF TypeOK, Continue, TerminalTypeOK, terminalVars
<1>7. CASE ReceiveRejected
  BY <1>7, ThrowTypes DEF TypeOK, ReceiveRejected
<1>8. CASE ReceiveFails
  BY <1>8, ThrowTypes DEF TypeOK, ReceiveFails
<1>9. CASE Poll
  BY <1>9 DEF TypeOK, Poll, TerminalTypeOK, terminalVars, Readable
<1>10. ASSUME NEW n \in 1..KEYBOARD_BUFFER_SIZE, Keyboard(n) PROVE TypeOK'
  <2>1. n \in UInt32
    BY SessionAssumption, ConnectionAssumption DEF UInt32
  <2>2. DataSent(channel, n) \in Channel
    BY <2>1, Arithmetic32 DEF TypeOK, Channel, DataSent
  <2>3. create_channel_data(channel, n) \in ClientMessage
    BY <2>1, ClientMessages DEF TypeOK
  <2>4. AfterKeyboard \in Locations
    BY DEF AfterKeyboard
  <2> QED
    BY <1>10, <2>2, <2>3, <2>4, CreateAndSendTypes DEF TypeOK, Keyboard
<1>11. CASE KeyboardEof
  BY <1>11
     DEF TypeOK, KeyboardEof, Continue, AfterKeyboard, TerminalTypeOK,
         terminalVars
<1>12. CASE SystemCallFails
  BY <1>12, ThrowTypes DEF TypeOK, SystemCallFails
<1>13. CASE ReceiveData
  <2> DEFINE ch == parse_channel_data(channel, response)
             n == Sub32(LOCAL_WINDOW_TARGET, ch.local_window)
             adjusted == [ch EXCEPT !.local_window = Add32(@, n)]
  <2>1. Receive("socket", {"data", "extended_data"})
    BY <1>13 DEF ReceiveData
  <2>2. ch \in Channel
    BY <2>1, ReceiveTypes, ChannelUpdates DEF TypeOK
  <2>3. \/ create_and_send(can_create_window_adjust(ch, n),
                           create_window_adjust(ch, n), adjusted, "loop_end")
        \/ Continue(ch, "loop_end") /\ UNCHANGED c2s
    BY <1>13 DEF ReceiveData
  <2> HIDE DEF ch
  <2>4. n \in UInt32
    BY <2>2, SessionAssumption, Arithmetic32 DEF Channel
  <2> HIDE DEF n
  <2>5. adjusted \in Channel
    BY <2>2, <2>4, Arithmetic32 DEF Channel
  <2>6. create_window_adjust(ch, n) \in ClientMessage
    BY <2>2, <2>4, ClientMessages
  <2> HIDE DEF adjusted
  <2>7. CASE Continue(ch, "loop_end") /\ UNCHANGED c2s
    BY <2>1, <2>2, <2>7, ReceiveTypes
       DEF TypeOK, Continue, TerminalTypeOK, terminalVars
  <2>8. CASE create_and_send(can_create_window_adjust(ch, n),
                             create_window_adjust(ch, n), adjusted, "loop_end")
    BY <2>1, <2>5, <2>6, <2>8, ReceiveTypes, CreateAndSendTypes DEF TypeOK
  <2> QED
    BY <2>3, <2>7, <2>8
<1>14. CASE ReceiveEof
  <2>1. parse_channel_eof(channel) \in Channel
    BY DEF parse_channel_eof, Channel, TypeOK
  <2> QED
    BY <1>14, <2>1, ReceiveTypes
       DEF TypeOK, ReceiveEof, Continue, TerminalTypeOK, terminalVars
<1>15. CASE ReceiveExitStatus
  <2>1. Receive("socket", {"request"})
    BY <1>15 DEF ReceiveExitStatus
  <2>2. parse_exit_status(channel, response) \in Channel
    <3>1. response \in ServerMessage /\ response.type = "request"
      BY <2>1, ReceiveTypes
    <3> QED
      BY <3>1, ChannelUpdates DEF TypeOK
  <2> QED
    BY <1>15, <2>1, <2>2, ReceiveTypes
       DEF TypeOK, ReceiveExitStatus, Continue, TerminalTypeOK, terminalVars
<1>16. CASE ReceiveClose
  <2> DEFINE ch == parse_channel_close(channel)
  <2>1. ch \in Channel
    BY DEF parse_channel_close, Channel, TypeOK
  <2>2. /\ Receive("socket", {"close"})
        /\ \/ create_and_send(can_create_channel_close(ch),
                              create_channel_close(ch), CloseSent(ch), "loop_end")
           \/ Continue([ch EXCEPT !.open = FALSE], "loop_end") /\ UNCHANGED c2s
    BY <1>16 DEF ReceiveClose
  <2> HIDE DEF ch
  <2>3. CloseSent(ch) \in Channel /\ [ch EXCEPT !.open = FALSE] \in Channel
    BY <2>1 DEF CloseSent, Channel
  <2>4. create_channel_close(ch) \in ClientMessage
    BY <2>1 DEF create_channel_close, ClientMessage, Channel
  <2>5. CASE Continue([ch EXCEPT !.open = FALSE], "loop_end") /\ UNCHANGED c2s
    BY <2>2, <2>3, <2>5, ReceiveTypes
       DEF TypeOK, Continue, TerminalTypeOK, terminalVars
  <2>6. CASE create_and_send(can_create_channel_close(ch),
                             create_channel_close(ch), CloseSent(ch), "loop_end")
    BY <2>2, <2>3, <2>4, <2>6, ReceiveTypes, CreateAndSendTypes DEF TypeOK
  <2> QED
    BY <2>2, <2>5, <2>6
<1>17. CASE LoopAgain
  <2>1. CASE Throw("lost")
    BY <1>17, <2>1, ThrowTypes DEF TypeOK, LoopAgain
  <2>2. CASE Continue(channel, "poll")
    BY <1>17, <2>2
       DEF TypeOK, LoopAgain, Continue, TerminalTypeOK, terminalVars
  <2> QED
    BY <1>17, <2>1, <2>2 DEF LoopAgain
<1>18. CASE LoopExit
  <2>1. CASE Throw("system")
    BY <1>18, <2>1, ThrowTypes DEF TypeOK, LoopExit
  <2>2. CASE restore /\ pc' = "exit" /\ result' = "ok" /\ UNCHANGED channel
    <3>1. TerminalTypeOK'
      <4>1. CASE UNCHANGED terminalVars
        BY <4>1 DEF TypeOK, TerminalTypeOK, terminalVars
      <4>2. CASE raw_mode_active /\ tty' = original_settings
                   /\ raw_mode_active' = FALSE /\ UNCHANGED original_settings
        BY <4>2 DEF TypeOK, TerminalTypeOK
      <4> QED
        BY <2>2, <4>1, <4>2 DEF restore
    <3> QED
      BY <1>18, <2>2, <3>1 DEF TypeOK, LoopExit
  <2> QED
    BY <1>18, <2>1, <2>2 DEF LoopExit
<1>19. ASSUME NEW m \in ServerMessages, ServerSends(m) PROVE TypeOK'
  <2>1. m \in ServerMessage
    BY SessionAssumption
  <2> QED
    BY <1>19, <2>1
       DEF TypeOK, ServerSends, clientVars, TerminalTypeOK, terminalVars
<1>20. CASE ServerReads
  BY <1>20 DEF TypeOK, ServerReads, clientVars, TerminalTypeOK, terminalVars
<1>21. CASE ServerCloses
  BY <1>21 DEF TypeOK, ServerCloses, clientVars, TerminalTypeOK, terminalVars
<1>22. CASE ConnectionReset
  BY <1>22 DEF TypeOK, ConnectionReset, clientVars, TerminalTypeOK, terminalVars
<1>23. CASE UNCHANGED vars
  BY <1>23 DEF TypeOK, vars, TerminalTypeOK, terminalVars
<1> QED
  BY <1>1, <1>2, <1>3, <1>4, <1>5, <1>6, <1>7, <1>8, <1>9, <1>10, <1>11, <1>12,
     <1>13, <1>14, <1>15, <1>16, <1>17, <1>18, <1>19, <1>20, <1>21, <1>22, <1>23
     DEF Next, Client, ClientWorks, Server, Terminated

\* The initial state has the types.
LEMMA InitTypes == Init => TypeOK
<1> SUFFICES ASSUME Init PROVE TypeOK
  OBVIOUS
<1>1. channel \in Channel
  BY SessionAssumption, ConnectionAssumption
     DEF Init, InitialChannel, Channel, UInt32
<1>2. TerminalTypeOK
  BY DEF Init, TerminalInit, TerminalTypeOK, TtySettings
<1> QED
  BY <1>1, <1>2 DEF Init, TypeOK, Locations, Results

(***************************************************************************)
(* The variables of the session keep their types, in particular every      *)
(* window stays a uint32_t, whatever the server sends.                     *)
(***************************************************************************)
THEOREM TypeCorrect == Spec => []TypeOK
BY InitTypes, TypeStep, PTL DEF Spec

-------------------------------------------------------------------------------
(***************************************************************************)
(* A handler may leave the channel as ch and go on at next: the window on  *)
(* offer is ch's, the channel is as open as next requires, and next is on  *)
(* the same side of raw mode.                                              *)
(***************************************************************************)
GoodChannel(ch) ==
    /\ ch.local_window \in (LOCAL_WINDOW_THRESHOLD + 1)..LOCAL_WINDOW_TARGET
    /\ ch.local_max_packet = LOCAL_MAX_PACKET_SIZE
    /\ ch.local_close_sent => ch.remote_close_received /\ ~ch.open

MayGoOn(ch, next) ==
    /\ GoodChannel(ch)
    /\ next \in Locations \ {"exit"}
    /\ next \in {"start", "opening"} => ~ch.open /\ ~ch.local_close_sent
    /\ next \in {"pty", "shell", "poll", "keyboard", "socket"} => ch.open
    /\ next = "loop_end" /\ ~ch.open => ch.local_close_sent
    /\ next \in InLoop <=> pc \in InLoop

\* What a step has to establish besides the types.
SessionInvRest ==
    /\ pc # "exit" => result = "running"
    /\ result # "internal"
    /\ WindowInv
    /\ OpenInv
    /\ TerminalInv

LEMMA ContinueKeeps ==
    ASSUME SessionInv, pc # "exit", NEW ch, NEW next, MayGoOn(ch, next),
           Continue(ch, next)
    PROVE  SessionInvRest'
BY DEF SessionInv, SessionInvRest, TypeOK, MayGoOn, GoodChannel, Continue,
       WindowInv, OpenInv, TerminalInv, InLoop, Locations, terminalVars

LEMMA ThrowKeeps ==
    ASSUME SessionInv, pc # "exit", NEW kind \in {"rejected", "lost", "system"},
           Throw(kind)
    PROVE  SessionInvRest'
<1>1. tty' = "cooked"
  <2>1. CASE pc \in InLoop
    BY <2>1 DEF SessionInv, TerminalInv, Throw, DestroyTerminal
  <2>2. CASE pc \in {"start", "opening", "pty", "shell"}
    BY <2>2 DEF SessionInv, TerminalInv, Throw, DestroyTerminal
  <2> QED
    BY <2>1, <2>2 DEF SessionInv, TypeOK, Locations, InLoop
<1> QED
  BY <1>1
     DEF SessionInv, SessionInvRest, Throw, WindowInv, OpenInv, TerminalInv,
         InLoop

LEMMA SendKeeps ==
    ASSUME SessionInv, pc # "exit", NEW m, NEW ch, NEW next, MayGoOn(ch, next),
           send_packet(m, ch, next)
    PROVE  SessionInvRest'
<1>1. CASE Continue(ch, next)
  BY <1>1, ContinueKeeps
<1>2. CASE Throw("lost")
  BY <1>2, ThrowKeeps
<1>3. CASE pc' = "exit" /\ result' = "killed" /\ UNCHANGED <<channel, terminalVars>>
  BY <1>3
     DEF SessionInv, SessionInvRest, WindowInv, OpenInv, TerminalInv, InLoop
<1> QED
  BY <1>1, <1>2, <1>3 DEF send_packet, WriteFails

LEMMA CreateAndSendKeeps ==
    ASSUME SessionInv, pc # "exit", NEW can, NEW m, NEW ch, NEW next,
           MayGoOn(ch, next), can, create_and_send(can, m, ch, next)
    PROVE  SessionInvRest'
BY SendKeeps DEF create_and_send

\* Steps of the server and the network touch nothing of the client's.
LEMMA ServerKeeps ==
    ASSUME SessionInv, UNCHANGED clientVars
    PROVE  SessionInvRest'
BY DEF SessionInv, SessionInvRest, WindowInv, OpenInv, TerminalInv, InLoop,
       clientVars, terminalVars

(***************************************************************************)
(* get_terminal_info never yields what create_pty_request refuses, however *)
(* TERM is set and whatever TIOCGWINSZ reports.                            *)
(***************************************************************************)
LEMMA UsableInfo ==
    ASSUME NEW info \in TerminalInfos
    PROVE  info.type # "" /\ info.columns # 0 /\ info.rows # 0
<1>1. PICK t \in TermValue, d \in WindowSize : info = get_terminal_info(t, d)
  BY DEF TerminalInfos
<1>2. info.type # ""
  BY <1>1 DEF get_terminal_info, TermValue
<1>3. info.columns # 0 /\ info.rows # 0
  <2>1. CASE d.ok /\ d.ws_col # 0 /\ d.ws_row # 0
    BY <1>1, <2>1 DEF get_terminal_info, WindowSize
  <2>2. CASE ~(d.ok /\ d.ws_col # 0 /\ d.ws_row # 0)
    <3>1. info.columns = 80 /\ info.rows = 24
      BY <1>1, <2>2 DEF get_terminal_info
    <3> QED
      BY <3>1
  <2> QED
    BY <2>1, <2>2
<1> QED
  BY <1>2, <1>3

(***************************************************************************)
(* Every step keeps the inductive invariant.                               *)
(***************************************************************************)
LEMMA InvStep ==
    SessionInv /\ [Next]_vars => SessionInv'
<1> SUFFICES ASSUME SessionInv, [Next]_vars PROVE SessionInvRest'
  BY TypeStep DEF SessionInv, SessionInvRest
<1>0. TypeOK /\ channel \in Channel /\ GoodChannel(channel)
  BY DEF SessionInv, TypeOK, WindowInv, OpenInv, GoodChannel
<1>1. CASE open_session_channel
  <2>1. pc = "start" /\ ~channel.open /\ ~channel.local_close_sent
    BY <1>1 DEF open_session_channel, SessionInv, OpenInv
  <2>2. can_create_session_open(channel)
    BY <1>0, <2>1, SessionAssumption, ConnectionAssumption
       DEF can_create_session_open, GoodChannel, UInt32
  <2>3. MayGoOn(channel, "opening")
    BY <1>0, <2>1 DEF MayGoOn, Locations, InLoop
  <2> QED
    BY <1>1, <2>1, <2>2, <2>3, CreateAndSendKeeps DEF open_session_channel
<1>2. CASE ReceiveOpenConfirmation
  <2> DEFINE ch == parse_open_confirmation(channel, response)
  <2>1. pc = "opening" /\ ~channel.local_close_sent
    BY <1>2 DEF ReceiveOpenConfirmation, Receive, SessionInv, OpenInv
  <2>2. ch.open /\ ~ch.local_close_sent /\ GoodChannel(ch)
    BY <1>0, <2>1 DEF parse_open_confirmation, GoodChannel, Channel
  <2>3. PICK info \in TerminalInfos :
            create_and_send(can_create_pty_request(ch, info),
                            create_pty_request(ch), ch, "pty")
    BY <1>2 DEF ReceiveOpenConfirmation
  <2> HIDE DEF ch
  <2>4. can_create_pty_request(ch, info)
    BY <2>2, <2>3, UsableInfo DEF can_create_pty_request
  <2>5. MayGoOn(ch, "pty")
    BY <2>1, <2>2 DEF MayGoOn, Locations, InLoop
  <2> QED
    BY <2>1, <2>3, <2>4, <2>5, CreateAndSendKeeps
<1>3. CASE ReceivePtySuccess
  <2>1. pc = "pty" /\ channel.open
    BY <1>3 DEF ReceivePtySuccess, Receive, SessionInv, OpenInv
  <2>2. can_create_shell_request(channel) /\ MayGoOn(channel, "shell")
    BY <1>0, <2>1 DEF can_create_shell_request, MayGoOn, Locations, InLoop
  <2> QED
    BY <1>3, <2>1, <2>2, CreateAndSendKeeps DEF ReceivePtySuccess
<1>4. CASE ReceiveShellSuccess
  <2>1. pc = "shell" /\ channel.open /\ tty = "cooked" /\ ~raw_mode_active
    BY <1>4
       DEF ReceiveShellSuccess, Receive, SessionInv, OpenInv, TerminalInv
  <2>2. CASE Throw("system")
    BY <2>1, <2>2, ThrowKeeps
  <2>3. CASE enable_raw_mode /\ pc' = "poll" /\ UNCHANGED <<channel, result>>
    BY <2>1, <2>3
       DEF SessionInv, SessionInvRest, enable_raw_mode, WindowInv, OpenInv,
           TerminalInv, InLoop
  <2> QED
    BY <1>4, <2>2, <2>3 DEF ReceiveShellSuccess
<1>5. ASSUME NEW at \in Receiving, NEW types, Receive(at, types)
      PROVE  /\ pc # "exit" /\ pc = at
             /\ at # "opening" => channel.open
             /\ MayGoOn(channel, StayAt(at))
  <2>1. pc = at /\ pc \in Receiving
    BY <1>5 DEF Receive
  <2>2. CASE at = "opening"
    BY <1>0, <2>1, <2>2
       DEF MayGoOn, StayAt, Locations, InLoop, SessionInv, OpenInv
  <2>3. CASE at \in {"pty", "shell", "socket"}
    BY <1>0, <2>1, <2>3
       DEF MayGoOn, StayAt, Locations, InLoop, SessionInv, OpenInv
  <2> QED
    BY <2>1, <2>2, <2>3 DEF Receiving
<1>6. CASE handle_global_request
  <2>1. PICK at \in Receiving :
            /\ Receive(at, {"global_request"})
            /\ \/ send_packet(create_request_failure, channel, StayAt(at))
               \/ Continue(channel, StayAt(at))
    BY <1>6 DEF handle_global_request
  <2> QED
    BY <2>1, <1>5, SendKeeps, ContinueKeeps
<1>7. CASE ReceiveWindowAdjust
  <2> DEFINE ch == parse_window_adjust(channel, response)
  <2>1. PICK at \in Receiving :
            Receive(at, {"window_adjust"}) /\ Continue(ch, StayAt(at))
    BY <1>7 DEF ReceiveWindowAdjust
  <2>2. MayGoOn(channel, StayAt(at)) /\ pc # "exit"
    BY <2>1, <1>5
  <2>3. MayGoOn(ch, StayAt(at))
    BY <1>0, <2>2 DEF MayGoOn, GoodChannel, parse_window_adjust, Channel
  <2> HIDE DEF ch
  <2> QED
    BY <2>1, <2>2, <2>3, ContinueKeeps
<1>8. CASE ReceiveRejected
  BY <1>8, ThrowKeeps DEF ReceiveRejected, Receiving
<1>9. CASE ReceiveFails
  BY <1>9, ThrowKeeps DEF ReceiveFails, Receiving
<1>10. CASE Poll
  BY <1>10
     DEF Poll, SessionInv, SessionInvRest, WindowInv, OpenInv, TerminalInv,
         InLoop, terminalVars
<1>11. ASSUME NEW n \in 1..KEYBOARD_BUFFER_SIZE, Keyboard(n)
       PROVE  SessionInvRest'
  <2>1. pc = "keyboard" /\ channel.open /\ ~channel.local_close_sent
    BY <1>11 DEF Keyboard, SessionInv, OpenInv
  <2>2. n <= channel.remote_window /\ n <= channel.remote_max_packet
    <3>1. /\ channel.remote_window \in Int /\ channel.remote_max_packet \in Int
          /\ KEYBOARD_BUFFER_SIZE \in Int
      BY <1>0, SessionAssumption DEF Channel, UInt32
    <3>2. n \in 1..max_read
      BY <1>11 DEF Keyboard
    <3> QED
      BY <3>1, <3>2 DEF max_read, MinOf
  <2>3. can_create_channel_data(channel, n)
    BY <2>1, <2>2 DEF can_create_channel_data
  <2>4. MayGoOn(DataSent(channel, n), AfterKeyboard)
    BY <1>0, <2>1
       DEF MayGoOn, GoodChannel, DataSent, AfterKeyboard, Channel, Locations,
           InLoop
  <2> QED
    BY <1>11, <2>1, <2>3, <2>4, CreateAndSendKeeps DEF Keyboard
<1>12. CASE KeyboardEof
  <2>1. pc = "keyboard" /\ channel.open
    BY <1>12 DEF KeyboardEof, SessionInv, OpenInv
  <2>2. MayGoOn(channel, AfterKeyboard)
    BY <1>0, <2>1 DEF MayGoOn, AfterKeyboard, Locations, InLoop
  <2> QED
    BY <1>12, <2>1, <2>2, ContinueKeeps DEF KeyboardEof
<1>13. CASE SystemCallFails
  BY <1>13, ThrowKeeps DEF SystemCallFails
<1>14. CASE ReceiveData
  <2> DEFINE ch == parse_channel_data(channel, response)
             n == Sub32(LOCAL_WINDOW_TARGET, ch.local_window)
             adjusted == [ch EXCEPT !.local_window = Add32(@, n)]
  <2>1. /\ Receive("socket", {"data", "extended_data"})
        /\ \/ /\ NeedsAdjust(ch)
              /\ create_and_send(can_create_window_adjust(ch, n),
                                 create_window_adjust(ch, n), adjusted,
                                 "loop_end")
           \/ ~NeedsAdjust(ch) /\ Continue(ch, "loop_end")
    BY <1>14 DEF ReceiveData
  <2>2. pc = "socket" /\ channel.open /\ ~channel.local_close_sent
    BY <2>1 DEF Receive, SessionInv, OpenInv
  <2>3. /\ response \in ServerMessage
        /\ response.type \in {"data", "extended_data"}
    BY <1>0, <2>1, ReceiveTypes
  <2>4. response.size \in UInt32 /\ response.size <= channel.local_window
    <3>1. Accepts("socket", response)
      BY <2>1 DEF Receive
    <3>2. FitsLocalWindow(channel, response)
      BY <2>3, <3>1
         DEF Accepts, accepts_channel_data, accepts_channel_extended_data
    <3> QED
      BY <2>3, <3>2, MessageFields DEF FitsLocalWindow
  <2>5. /\ ch \in Channel /\ ch.open /\ ~ch.local_close_sent
        /\ ch.local_max_packet = LOCAL_MAX_PACKET_SIZE
        /\ ch.local_window \in 0..LOCAL_WINDOW_TARGET
    <3>1. Sub32(channel.local_window, response.size)
             = channel.local_window - response.size
      BY <1>0, <2>4, Arithmetic32 DEF Channel
    <3>2. ch.local_window = channel.local_window - response.size
      BY <1>0, <3>1 DEF parse_channel_data, Channel
    <3>3. ch.local_window \in 0..LOCAL_WINDOW_TARGET
      BY <1>0, <2>4, <3>2, SessionAssumption DEF GoodChannel, UInt32
    <3> QED
      BY <1>0, <2>2, <2>3, <3>3, ChannelUpdates
         DEF parse_channel_data, Channel, GoodChannel
  <2> HIDE DEF ch
  <2>6. CASE NeedsAdjust(ch)
    <3>1. /\ ch.local_window \in UInt32 /\ LOCAL_WINDOW_TARGET \in UInt32
          /\ ch.local_window <= LOCAL_WINDOW_THRESHOLD
          /\ LOCAL_WINDOW_THRESHOLD \in 0..(LOCAL_WINDOW_TARGET - 1)
      BY <2>5, <2>6, SessionAssumption DEF NeedsAdjust, Channel
    <3>2. n = LOCAL_WINDOW_TARGET - ch.local_window /\ n \in UInt32 /\ n > 0
      BY <2>5, <3>1, ConnectionAssumption DEF Sub32, UInt32
    <3> HIDE DEF n
    <3>3. Sub32(UINT32_MAX, n) = UINT32_MAX - n
      BY <3>2, ConnectionAssumption DEF Sub32, UInt32
    <3>4. can_create_window_adjust(ch, n)
      BY <2>5, <3>1, <3>2, <3>3, ConnectionAssumption
         DEF can_create_window_adjust, UInt32
    <3>5. Add32(ch.local_window, n) = LOCAL_WINDOW_TARGET
      BY <3>1, <3>2, ConnectionAssumption DEF Add32, UInt32
    <3>6. GoodChannel(adjusted)
      BY <2>5, <3>1, <3>5 DEF GoodChannel, Channel, UInt32
    <3>7. MayGoOn(adjusted, "loop_end")
      BY <2>2, <2>5, <3>6 DEF MayGoOn, Channel, Locations, InLoop
    <3> HIDE DEF adjusted
    <3> QED
      BY <2>1, <2>2, <2>6, <3>4, <3>7, CreateAndSendKeeps
  <2>7. CASE ~NeedsAdjust(ch)
    <3>1. ch.local_window > LOCAL_WINDOW_THRESHOLD
      BY <2>5, <2>7, SessionAssumption DEF NeedsAdjust, UInt32
    <3>2. MayGoOn(ch, "loop_end")
      BY <2>2, <2>5, <3>1, SessionAssumption
         DEF MayGoOn, GoodChannel, Locations, InLoop, UInt32
    <3> QED
      BY <2>1, <2>2, <2>7, <3>2, ContinueKeeps
  <2> QED
    BY <2>6, <2>7
<1>15. CASE ReceiveEof
  <2>1. pc = "socket" /\ channel.open
    BY <1>15 DEF ReceiveEof, Receive, SessionInv, OpenInv
  <2>2. MayGoOn(parse_channel_eof(channel), "loop_end")
    BY <1>0, <2>1
       DEF MayGoOn, GoodChannel, parse_channel_eof, Channel, Locations, InLoop
  <2> QED
    BY <1>15, <2>1, <2>2, ContinueKeeps DEF ReceiveEof
<1>16. CASE ReceiveExitStatus
  <2>1. pc = "socket" /\ channel.open
    BY <1>16 DEF ReceiveExitStatus, Receive, SessionInv, OpenInv
  <2>2. MayGoOn(parse_exit_status(channel, response), "loop_end")
    BY <1>0, <2>1
       DEF MayGoOn, GoodChannel, parse_exit_status, Channel, Locations, InLoop
  <2> QED
    BY <1>16, <2>1, <2>2, ContinueKeeps DEF ReceiveExitStatus
<1>17. CASE ReceiveClose
  <2> DEFINE ch == parse_channel_close(channel)
  <2>1. pc = "socket" /\ channel.open /\ ~channel.local_close_sent
    BY <1>17 DEF ReceiveClose, Receive, SessionInv, OpenInv
  <2>2. /\ ch \in Channel /\ GoodChannel(ch)
        /\ ch.open /\ ~ch.local_close_sent /\ ch.remote_close_received
    BY <1>0, <2>1 DEF parse_channel_close, GoodChannel, Channel
  <2>3. create_and_send(can_create_channel_close(ch), create_channel_close(ch),
                        CloseSent(ch), "loop_end")
    BY <1>17, <2>2 DEF ReceiveClose
  <2> HIDE DEF ch
  <2>4. can_create_channel_close(ch)
    BY <2>2 DEF can_create_channel_close
  <2>5. MayGoOn(CloseSent(ch), "loop_end")
    BY <2>1, <2>2
       DEF MayGoOn, GoodChannel, CloseSent, Channel, Locations, InLoop
  <2> QED
    BY <2>1, <2>3, <2>4, <2>5, CreateAndSendKeeps
<1>18. CASE LoopAgain
  <2>1. pc = "loop_end" /\ channel.open
    BY <1>18 DEF LoopAgain
  <2>2. MayGoOn(channel, "poll")
    BY <1>0, <2>1 DEF MayGoOn, Locations, InLoop
  <2> QED
    BY <1>18, <2>1, <2>2, ContinueKeeps, ThrowKeeps DEF LoopAgain
<1>19. CASE LoopExit
  <2>1. /\ pc = "loop_end" /\ ~channel.open /\ channel.local_close_sent
        /\ raw_mode_active /\ original_settings = "cooked"
    BY <1>19 DEF LoopExit, SessionInv, OpenInv, TerminalInv, InLoop
  <2>2. CASE Throw("system")
    BY <2>1, <2>2, ThrowKeeps
  <2>3. CASE restore /\ pc' = "exit" /\ result' = "ok" /\ UNCHANGED channel
    BY <2>1, <2>3
       DEF SessionInv, SessionInvRest, restore, WindowInv, OpenInv,
           TerminalInv, InLoop
  <2> QED
    BY <1>19, <2>2, <2>3 DEF LoopExit
<1>20. CASE Server
  BY <1>20, ServerKeeps
     DEF Server, ServerSends, ServerReads, ServerCloses, ConnectionReset
<1>21. CASE UNCHANGED vars
  BY <1>21, ServerKeeps DEF vars, clientVars
<1> QED
  BY <1>1, <1>2, <1>3, <1>4, <1>6, <1>7, <1>8, <1>9, <1>10, <1>11, <1>12, <1>13,
     <1>14, <1>15, <1>16, <1>17, <1>18, <1>19, <1>20, <1>21
     DEF Next, Client, ClientWorks, Terminated

(***************************************************************************)
(* The inductive invariant holds in every state of every session.          *)
(***************************************************************************)
THEOREM Inductive == Spec => []SessionInv
<1>1. Init => TypeOK
  BY InitTypes
<1>2. Init => SessionInv
  BY <1>1, SessionAssumption
     DEF Init, SessionInv, WindowInv, OpenInv, TerminalInv, TerminalInit,
         InitialChannel, InLoop, UInt32
<1> QED
  BY <1>2, InvStep, PTL DEF Spec

(***************************************************************************)
(* No server can drive the client into one of the exceptions that the      *)
(* create_ methods of connection.cpp keep for misuse.                      *)
(***************************************************************************)
THEOREM NeverInternal == Spec => []NoInternalError
<1>1. SessionInv => NoInternalError
  BY DEF SessionInv, NoInternalError
<1> QED
  BY <1>1, Inductive, PTL

(***************************************************************************)
(* Wherever the poll loop is, more than the threshold and no more than the *)
(* target is on offer to the server.                                       *)
(***************************************************************************)
THEOREM WindowAlwaysOffered == Spec => []WindowOffered
<1>1. SessionInv => WindowOffered
  BY DEF SessionInv, WindowInv, WindowOffered
<1> QED
  BY <1>1, Inductive, PTL

(***************************************************************************)
(* The session ends normally only through the closing handshake.           *)
(***************************************************************************)
THEOREM ClosesProperly == Spec => []CloseHandshake
<1>1. SessionInv => CloseHandshake
  BY DEF SessionInv, OpenInv, CloseHandshake, InLoop
<1> QED
  BY <1>1, Inductive, PTL

(***************************************************************************)
(* Every end of the session but a signal gives the terminal back.          *)
(***************************************************************************)
THEOREM TerminalGivenBack == Spec => []RestoredUnlessKilled
<1>1. SessionInv => RestoredUnlessKilled
  BY DEF SessionInv, TerminalInv, RestoredUnlessKilled
<1> QED
  BY <1>1, Inductive, PTL

(***************************************************************************)
(* Once the client has sent its CLOSE it sends nothing more: only leaving  *)
(* the loop is left to it.                                                 *)
(***************************************************************************)
THEOREM CloseIsLast == Spec => NothingAfterClose
<1>1. SessionInv /\ [Next]_vars =>
        [channel.local_close_sent => Len(c2s') <= Len(c2s)]_vars
  <2> SUFFICES ASSUME SessionInv, Next, channel.local_close_sent
               PROVE  Len(c2s') <= Len(c2s)
    OBVIOUS
  <2>1. pc \in {"loop_end", "exit"} /\ ~channel.open
    BY DEF SessionInv, TypeOK, Locations, OpenInv
  <2>2. Len(c2s) \in Nat
    BY DEF SessionInv, TypeOK
  <2>3. CASE UNCHANGED c2s
    BY <2>2, <2>3
  <2>4. CASE ServerReads
    BY <2>4 DEF ServerReads, SessionInv, TypeOK
  <2>5. CASE Client
    <3>1. CASE LoopAgain \/ LoopExit
      BY <3>1, <2>3 DEF LoopAgain, LoopExit
    <3> QED
      BY <2>1, <2>5, <3>1
         DEF Client, ClientWorks, open_session_channel, ReceiveOpenConfirmation,
             ReceivePtySuccess, ReceiveShellSuccess, handle_global_request,
             ReceiveWindowAdjust, ReceiveRejected, ReceiveFails, Poll,
             Keyboard, KeyboardEof, SystemCallFails, ReceiveData, ReceiveEof,
             ReceiveExitStatus, ReceiveClose, Receive, Receiving
  <2>6. CASE (\E m \in ServerMessages : ServerSends(m)) \/ ServerCloses
               \/ ConnectionReset \/ Terminated
    BY <2>3, <2>6
       DEF ServerSends, ServerCloses, ConnectionReset, Terminated, vars
  <2> QED
    BY <2>4, <2>5, <2>6 DEF Next, Server
<1> QED
  BY <1>1, Inductive, PTL DEF Spec, NothingAfterClose

-------------------------------------------------------------------------------
(***************************************************************************)
(* What poll reported of a reset stays true, and a loss has its cause.     *)
(***************************************************************************)
LossInv ==
    /\ revents.hangup => tcp \in {"reset", "broken"}
    /\ LostForCause

\* Sending reports a loss only on a connection that was reset.
LEMMA SendLoses ==
    ASSUME NEW can, NEW m, NEW ch, NEW next, result # "lost", result' = "lost",
           create_and_send(can, m, ch, next) \/ send_packet(m, ch, next)
    PROVE  tcp = "reset" /\ UNCHANGED channel
BY DEF create_and_send, send_packet, WriteFails, Continue, Throw

\* The steps of the client that report a loss, each with what it found.
LEMMA LosingSteps ==
    ASSUME SessionInv, LossInv, Client, result # "lost", result' = "lost"
    PROVE  /\ UNCHANGED <<channel, tcp>>
           /\ \/ tcp \in {"reset", "broken"}
              \/ tcp = "fin" /\ s2c = <<>> /\ s2c' = <<>>
           /\ pc \in Receiving \/ channel.open \/ pc \in {"start", "keyboard"}
<1>1. CASE open_session_channel
  BY <1>1, SendLoses DEF open_session_channel
<1>2. CASE ReceiveOpenConfirmation
  BY <1>2, SendLoses DEF ReceiveOpenConfirmation, Receive, Receiving
<1>3. CASE ReceivePtySuccess
  BY <1>3, SendLoses DEF ReceivePtySuccess, Receive, Receiving
<1>4. CASE handle_global_request
  BY <1>4, SendLoses DEF handle_global_request, Receive, Continue
<1>5. CASE ReceiveFails
  BY <1>5 DEF ReceiveFails, Throw, SessionInv, TypeOK
<1>6. CASE \E n \in 1..KEYBOARD_BUFFER_SIZE : Keyboard(n)
  BY <1>6, SendLoses DEF Keyboard
<1>7. CASE ReceiveData
  <2> DEFINE ch == parse_channel_data(channel, response)
             n == Sub32(LOCAL_WINDOW_TARGET, ch.local_window)
             adjusted == [ch EXCEPT !.local_window = Add32(@, n)]
  <2>1. /\ Receive("socket", {"data", "extended_data"})
        /\ \/ create_and_send(can_create_window_adjust(ch, n),
                              create_window_adjust(ch, n), adjusted, "loop_end")
           \/ Continue(ch, "loop_end")
    BY <1>7 DEF ReceiveData
  <2> HIDE DEF ch, n, adjusted
  <2> QED
    BY <2>1, SendLoses DEF Receive, Receiving, Continue
<1>8. CASE ReceiveClose
  <2> DEFINE ch == parse_channel_close(channel)
  <2>1. /\ Receive("socket", {"close"})
        /\ \/ create_and_send(can_create_channel_close(ch),
                              create_channel_close(ch), CloseSent(ch), "loop_end")
           \/ Continue([ch EXCEPT !.open = FALSE], "loop_end")
    BY <1>8 DEF ReceiveClose
  <2> HIDE DEF ch
  <2> QED
    BY <2>1, SendLoses DEF Receive, Receiving, Continue
<1>9. CASE LoopAgain
  BY <1>9 DEF LoopAgain, SocketDead, Continue, Throw, LossInv
<1>10. CASE \/ ReceiveShellSuccess \/ ReceiveWindowAdjust \/ ReceiveRejected
            \/ Poll \/ KeyboardEof \/ ReceiveEof \/ ReceiveExitStatus
            \/ LoopExit \/ SystemCallFails
  BY <1>10
     DEF ReceiveShellSuccess, ReceiveWindowAdjust, ReceiveRejected, Poll,
         KeyboardEof, ReceiveEof, ReceiveExitStatus, LoopExit, SystemCallFails,
         Continue, Throw
<1> QED
  BY <1>1, <1>2, <1>3, <1>4, <1>5, <1>6, <1>7, <1>8, <1>9, <1>10
     DEF Client, ClientWorks

LEMMA LossStep ==
    SessionInv /\ LossInv /\ [Next]_vars => LossInv'
<1> SUFFICES ASSUME SessionInv, LossInv, [Next]_vars PROVE LossInv'
  OBVIOUS
<1>1. CASE Client
  <2>1. pc # "exit" /\ result = "running"
    BY <1>1
       DEF SessionInv, Client, ClientWorks, open_session_channel,
           ReceiveOpenConfirmation, ReceivePtySuccess, ReceiveShellSuccess,
           handle_global_request, ReceiveWindowAdjust, ReceiveRejected,
           ReceiveFails, Poll, Keyboard, KeyboardEof, SystemCallFails,
           ReceiveData, ReceiveEof, ReceiveExitStatus, ReceiveClose, LoopAgain,
           LoopExit, Receive, Receiving
  <2>2. /\ tcp' = tcp
        /\ revents' = revents \/ revents'.hangup = (tcp \in {"reset", "broken"})
    BY <1>1
       DEF Client, ClientWorks, open_session_channel,
           ReceiveOpenConfirmation, ReceivePtySuccess, ReceiveShellSuccess,
           handle_global_request, ReceiveWindowAdjust, ReceiveRejected,
           ReceiveFails, Poll, Keyboard, KeyboardEof, SystemCallFails,
           ReceiveData, ReceiveEof, ReceiveExitStatus, ReceiveClose, LoopAgain,
           LoopExit, Receive
  <2>3. ASSUME result' = "lost"
        PROVE  /\ UNCHANGED <<channel, tcp>> /\ tcp # "up"
               /\ tcp = "fin" => s2c' = <<>>
               /\ ~channel.local_close_sent
    BY <1>1, <2>1, <2>3, LosingSteps DEF SessionInv, OpenInv, Receiving
  <2> QED
    BY <2>2, <2>3 DEF LossInv, LostForCause
<1>2. CASE Server
  <2>1. /\ result = "running" /\ UNCHANGED <<revents, result>>
        /\ tcp \in {"reset", "broken"} => tcp' = tcp
    BY <1>2
       DEF SessionInv, Server, ServerSends, ServerReads, ServerCloses,
           ConnectionReset, clientVars
  <2> QED
    BY <2>1 DEF LossInv, LostForCause
<1>3. CASE UNCHANGED vars
  BY <1>3 DEF LossInv, LostForCause, vars
<1> QED
  BY <1>1, <1>2, <1>3 DEF Next, Terminated

(***************************************************************************)
(* The client reports the connection lost only when it is, never with      *)
(* packets of an orderly close unread, and never after its own CLOSE.      *)
(***************************************************************************)
THEOREM LostOnlyForCause == Spec => []LostForCause
<1>1. Init => LossInv
  BY DEF Init, LossInv, LostForCause
<1>2. LossInv => LostForCause
  BY DEF LossInv
<1> QED
  BY <1>1, <1>2, LossStep, Inductive, PTL DEF Spec

===============================================================================
