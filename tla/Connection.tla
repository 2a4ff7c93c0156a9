------------------------------ MODULE Connection ------------------------------
(***************************************************************************)
(* The connection layer: the Channel record and the methods of class       *)
(* Connection (src/src/connection), which only read and update that        *)
(* record.  A payload is abstracted to a record of the fields it carries;  *)
(* well_formed says that it decodes to exactly those fields, so that a     *)
(* truncated payload, and one with trailing bytes, is one whose            *)
(* well_formed is FALSE.  A method that parses is a pair of operators:     *)
(* accepts_x(ch, m), under which it does not throw, and parse_x(ch, m),    *)
(* the channel it leaves behind.  No method assigns before its last check, *)
(* so a throw leaves the channel as it was.                                *)
(***************************************************************************)
EXTENDS Integers, Sequences

CONSTANTS
    UINT32_MAX,             \* std::numeric_limits<uint32_t>::max()
    MIN_MAX_PACKET_SIZE     \* connection.cpp:11

ASSUME ConnectionAssumption ==
    /\ UINT32_MAX \in Nat
    /\ MIN_MAX_PACKET_SIZE \in 1..UINT32_MAX

UInt32 == 0..UINT32_MAX

(***************************************************************************)
(* uint32_t arithmetic on two uint32_t operands wraps.                     *)
(***************************************************************************)
Add32(a, b) == IF a + b > UINT32_MAX THEN a + b - UINT32_MAX - 1 ELSE a + b

Sub32(a, b) == IF a < b THEN a - b + UINT32_MAX + 1 ELSE a - b

Channel ==
    [local_id              : UInt32,
     remote_id             : UInt32,
     local_window          : UInt32,
     remote_window         : UInt32,
     local_max_packet      : UInt32,
     remote_max_packet     : UInt32,
     open                  : BOOLEAN,
     remote_eof_received   : BOOLEAN,
     remote_close_received : BOOLEAN,
     local_close_sent      : BOOLEAN,
     exit_status_received  : BOOLEAN,
     exit_status           : UInt32]

-------------------------------------------------------------------------------
(***************************************************************************)
(* The messages a server sends on this layer.  "other" stands for every    *)
(* message number that none of the client's loops names, "exit-signal" for *)
(* every request but the one the client knows.                             *)
(***************************************************************************)
ServerMessage ==
         [type : {"open_confirmation"}, recipient : UInt32, sender : UInt32,
          window : UInt32, max_packet : UInt32, well_formed : BOOLEAN]
    \cup [type : {"open_failure", "success", "failure", "eof", "close"},
          recipient : UInt32, well_formed : BOOLEAN]
    \cup [type : {"global_request"}, want_reply : BOOLEAN,
          well_formed : BOOLEAN]
    \cup [type : {"window_adjust"}, recipient : UInt32, bytes_to_add : UInt32,
          well_formed : BOOLEAN]
    \cup [type : {"data"}, recipient : UInt32, size : UInt32,
          well_formed : BOOLEAN]
    \cup [type : {"extended_data"}, recipient : UInt32, data_type : UInt32,
          size : UInt32, well_formed : BOOLEAN]
    \cup [type : {"request"}, recipient : UInt32,
          name : {"exit-status", "exit-signal"}, exit_status : UInt32,
          well_formed : BOOLEAN]
    \cup [type : {"other"}, well_formed : BOOLEAN]

(***************************************************************************)
(* Every parse method first decodes the payload and compares the recipient *)
(* with the channel's own number.                                          *)
(***************************************************************************)
ForChannel(ch, m) == m.well_formed /\ m.recipient = ch.local_id

accepts_open_confirmation(ch, m) ==
    /\ ~ch.open
    /\ ForChannel(ch, m)
    /\ m.max_packet >= MIN_MAX_PACKET_SIZE

parse_open_confirmation(ch, m) ==
    [ch EXCEPT !.remote_id = m.sender,
               !.remote_window = m.window,
               !.remote_max_packet = m.max_packet,
               !.open = TRUE]

accepts_global_request(m) == m.well_formed

accepts_channel_success(ch, m) == ForChannel(ch, m)

\* Mutant: the largest window is refused.
accepts_window_adjust_Strict(ch, m) ==
    /\ ch.open
    /\ ForChannel(ch, m)
    /\ m.bytes_to_add # 0
    /\ ch.remote_window < Sub32(UINT32_MAX, m.bytes_to_add)

accepts_window_adjust(ch, m) ==
    /\ ch.open
    /\ ForChannel(ch, m)
    /\ m.bytes_to_add # 0
    /\ ch.remote_window <= Sub32(UINT32_MAX, m.bytes_to_add)

\* Mutants: the adjustment replaces the window, or is ignored.
parse_window_adjust_Replaces(ch, m) ==
    [ch EXCEPT !.remote_window = m.bytes_to_add]

parse_window_adjust_Ignored(ch, m) == ch

parse_window_adjust(ch, m) ==
    [ch EXCEPT !.remote_window = Add32(@, m.bytes_to_add)]

(***************************************************************************)
(* DATA and EXTENDED_DATA draw on the same window and obey the same        *)
(* limits; only data type 1, the standard error stream, is understood.     *)
(***************************************************************************)
FitsLocalWindow(ch, m) ==
    m.size <= ch.local_max_packet /\ m.size <= ch.local_window

accepts_channel_data(ch, m) ==
    ch.open /\ ForChannel(ch, m) /\ FitsLocalWindow(ch, m)

accepts_channel_extended_data(ch, m) ==
    /\ ch.open
    /\ ForChannel(ch, m)
    /\ m.data_type = 1
    /\ FitsLocalWindow(ch, m)

parse_channel_data(ch, m) ==
    [ch EXCEPT !.local_window = Sub32(@, m.size)]

accepts_channel_eof(ch, m) ==
    ch.open /\ ~ch.remote_eof_received /\ ForChannel(ch, m)

\* Mutants: EOF taken for the end of the channel.
parse_channel_eof_Closes(ch) ==
    [ch EXCEPT !.remote_eof_received = TRUE, !.open = FALSE]

parse_channel_eof(ch) == [ch EXCEPT !.remote_eof_received = TRUE]

accepts_exit_status(ch, m) ==
    /\ ch.open
    /\ ~ch.exit_status_received
    /\ ForChannel(ch, m)
    /\ m.name = "exit-status"

parse_exit_status(ch, m) ==
    [ch EXCEPT !.exit_status = m.exit_status, !.exit_status_received = TRUE]

accepts_channel_close(ch, m) ==
    ch.open /\ ~ch.remote_close_received /\ ForChannel(ch, m)

parse_channel_close(ch) == [ch EXCEPT !.remote_close_received = TRUE]

-------------------------------------------------------------------------------
(***************************************************************************)
(* The messages the client builds.  can_create_x(ch, ...) is the condition *)
(* under which create_x does not throw.                                    *)
(***************************************************************************)
ClientMessage ==
         [type : {"channel_open"}, sender : UInt32, window : UInt32,
          max_packet : UInt32]
    \cup [type : {"request"}, recipient : UInt32, name : {"pty-req", "shell"}]
    \cup [type : {"request_failure"}]
    \cup [type : {"data"}, recipient : UInt32, size : UInt32]
    \cup [type : {"window_adjust"}, recipient : UInt32, bytes_to_add : UInt32]
    \cup [type : {"close"}, recipient : UInt32]

can_create_session_open(ch) ==
    /\ ~ch.open
    /\ ch.local_window # 0
    /\ ch.local_max_packet >= MIN_MAX_PACKET_SIZE

create_session_open(ch) ==
    [type |-> "channel_open", sender |-> ch.local_id,
     window |-> ch.local_window, max_packet |-> ch.local_max_packet]

create_request_failure == [type |-> "request_failure"]

can_create_pty_request(ch, info) ==
    ch.open /\ info.type # "" /\ info.columns # 0 /\ info.rows # 0

create_pty_request(ch) ==
    [type |-> "request", recipient |-> ch.remote_id, name |-> "pty-req"]

can_create_shell_request(ch) == ch.open

create_shell_request(ch) ==
    [type |-> "request", recipient |-> ch.remote_id, name |-> "shell"]

can_create_channel_data(ch, size) ==
    /\ ch.open
    /\ ~ch.local_close_sent
    /\ size # 0
    /\ size <= ch.remote_window
    /\ size <= ch.remote_max_packet

create_channel_data(ch, size) ==
    [type |-> "data", recipient |-> ch.remote_id, size |-> size]

can_create_window_adjust(ch, bytes) ==
    /\ ch.open
    /\ bytes # 0
    /\ ch.local_window <= Sub32(UINT32_MAX, bytes)

create_window_adjust(ch, bytes) ==
    [type |-> "window_adjust", recipient |-> ch.remote_id,
     bytes_to_add |-> bytes]

can_create_channel_close(ch) == ch.open /\ ~ch.local_close_sent

create_channel_close(ch) == [type |-> "close", recipient |-> ch.remote_id]

===============================================================================
