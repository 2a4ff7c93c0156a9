------------------------------ MODULE MCSession ------------------------------
(***************************************************************************)
(* A server that sends anything: every message type, addressed to this     *)
(* channel or to another, with sizes and windows on both sides of every    *)
(* limit the client checks.                                                *)
(***************************************************************************)
EXTENDS Session

Recipients == {0, 1}

MCServerMessages ==
    UNION {
      [type : {"open_confirmation"}, recipient : Recipients, sender : {1},
       window : {0, UINT32_MAX},
       max_packet : {MIN_MAX_PACKET_SIZE - 1, MIN_MAX_PACKET_SIZE},
       well_formed : {TRUE}],
      [type : {"open_failure", "success", "failure", "eof", "close"},
       recipient : {0}, well_formed : {TRUE}],
      [type : {"success", "close"}, recipient : {1}, well_formed : {TRUE}],
      [type : {"global_request"}, want_reply : BOOLEAN, well_formed : {TRUE}],
      [type : {"window_adjust"}, recipient : {0},
       bytes_to_add : {0, 1, UINT32_MAX}, well_formed : {TRUE}],
      [type : {"data"}, recipient : {0},
       size : {1, LOCAL_MAX_PACKET_SIZE, LOCAL_MAX_PACKET_SIZE + 1}, well_formed : {TRUE}],
      [type : {"extended_data"}, recipient : {0}, data_type : {1, 2},
       size : {LOCAL_MAX_PACKET_SIZE}, well_formed : {TRUE}],
      [type : {"request"}, recipient : {0}, name : {"exit-status"},
       exit_status : {0, 1}, well_formed : {TRUE}],
      [type : {"request"}, recipient : {0}, name : {"exit-signal"},
       exit_status : {0}, well_formed : {TRUE}],
      [type : {"data"}, recipient : {0}, size : {1}, well_formed : {FALSE}],
      [type : {"other"}, well_formed : {TRUE}]}

(***************************************************************************)
(* A smaller choice for the liveness run: enough to reach the poll loop    *)
(* and to keep its queue busy.                                             *)
(***************************************************************************)
MCFewMessages ==
    UNION {
      [type : {"open_confirmation"}, recipient : {0}, sender : {1},
       window : {UINT32_MAX}, max_packet : {MIN_MAX_PACKET_SIZE},
       well_formed : {TRUE}],
      [type : {"success", "close"}, recipient : {0}, well_formed : {TRUE}],
      [type : {"global_request"}, want_reply : {TRUE}, well_formed : {TRUE}],
      [type : {"window_adjust"}, recipient : {0}, bytes_to_add : {1},
       well_formed : {TRUE}],
      [type : {"data"}, recipient : {0}, size : {2}, well_formed : {TRUE}]}

===============================================================================
