------------------------------ MODULE MCHandshake ------------------------------
(***************************************************************************)
(* A peer that sends any payload, well formed or not, in the clear or      *)
(* under the session's or other keys, with any sequence number near the    *)
(* awaited one, and shows either of two host keys.  The client is started  *)
(* for a host, for another port of it, or wrongly: 31 stands for the       *)
(* largest unsigned long and 7 for the largest port.                       *)
(***************************************************************************)
EXTENDS Handshake

CONSTANTS user, a, b, k1, k2

MCHosts == {<<a>>, <<b>>} \cup {<<a, port>> : port \in 0..7}

Text(number) == [negative |-> FALSE, number |-> number, rest |-> FALSE]

MCInvocations ==
    LET target == <<user, AT, a>>
    IN  {<<target>>, <<target, Text(2)>>, <<target, Text(3)>>} \cup
        {<<>>, <<<<>>>>, <<target, Text(1), Text(1)>>} \cup
        {<<t>> : t \in {<<a>>, <<AT, a>>, <<user, AT>>, <<user, AT, AT, a>>,
                        <<user, AT, a, AT, b>>}} \cup
        {<<target, Text(n)>> : n \in {-1, 0, 8, 31, 32, 11}} \cup
        {<<target, [Text(n) EXCEPT !.negative = TRUE]>> : n \in {0, 3, 29, 32}} \cup
        {<<target, [Text(3) EXCEPT !.rest = TRUE]>>}

Line(h, k) == <<h, ALGORITHM, k>>

MCKnownFiles ==
    {EmptyFile,
     [lines |-> <<Line(<<a>>, k1)>>, ends |-> "newline"],
     [lines |-> <<Line(<<b>>, k2), <<>>, Line(<<a>>, k2)>>, ends |-> "newline"],
     [lines |-> <<Line(<<a>>, k1), Line(<<a, 3>>, k2)>>, ends |-> "newline"],
     [lines |-> <<Line(<<b>>, k1), <<<<a>>>>>>, ends |-> "field"]}

MCPeer ==
    UNION {
      [payload : {"identification", "kexinit", "newkeys", "service_accept",
                  "failure", "success", "other"},
       keys : {"none"}, seq : {0}, well_formed : BOOLEAN],
      [payload : {"newkeys", "service_accept", "failure", "success"},
       keys : {SESSION}, seq : 3..5, well_formed : BOOLEAN],
      [payload : {"service_accept"}, keys : {"unknown"}, seq : {3},
       well_formed : {TRUE}],
      [payload : {"reply"}, keys : {"none"}, seq : {0}, well_formed : BOOLEAN,
       host_key : Keys, valid_signature : BOOLEAN]}

===============================================================================
