--------------------------- MODULE MCHandshakeServer ---------------------------
(***************************************************************************)
(* The known-hosts file holds nothing, this server's key, or another key   *)
(* for its name.                                                           *)
(***************************************************************************)
EXTENDS HandshakeServer

CONSTANTS user, a, b, k1, k2

MCHosts == {<<a>>, <<b>>}

MCInvocations == {<<<<user, AT, a>>>>}

MCKnownFiles ==
    {EmptyFile} \cup
    {[lines |-> <<<<<<b>>, ALGORITHM, k2>>, <<<<a>>, ALGORITHM, k>>>>,
      ends |-> "newline"] : k \in Keys}

===============================================================================
