----------------------------- MODULE Configuration -----------------------------
(***************************************************************************)
(* The command line (parse_client_config and known_host_identifier of      *)
(* src/src/main.cpp).  The arguments are a sequence: the target, itself a  *)
(* sequence of names and AT signs, and the text of the port.  A text is a  *)
(* sign, a number (none: -1) and whether other characters follow; blanks   *)
(* before them are read like the number.                                   *)
(***************************************************************************)
EXTENDS Integers, Sequences

CONSTANTS
    AT,
    DEFAULT_SSH_PORT,
    UINT16_MAX,
    ULONG_MAX

ASSUME ConfigurationAssumption ==
    /\ UINT16_MAX \in Nat /\ ULONG_MAX \in Nat
    /\ UINT16_MAX < ULONG_MAX
    /\ DEFAULT_SSH_PORT \in 1..UINT16_MAX

Sequence(s) == s \in Seq({s[i] : i \in DOMAIN s})

PortText == [negative : BOOLEAN, number : Int, rest : BOOLEAN]

CommandLine(arguments) ==
    /\ Len(arguments) >= 1 => Sequence(arguments[1])
    /\ Len(arguments) >= 2 => arguments[2] \in PortText

separators(target) == {i \in DOMAIN target : target[i] = AT}

\* std::stoul: a minus sign negates in unsigned arithmetic.
stoul_throws(text) == text.number \notin 0..ULONG_MAX

stoul(text) ==
    (IF text.negative THEN -text.number ELSE text.number) % (ULONG_MAX + 1)

\* Mutant: no upper limit.
accepts_port_Unlimited(text) ==
    ~stoul_throws(text) /\ ~text.rest /\ stoul(text) # 0

accepts_port(text) ==
    /\ ~stoul_throws(text)
    /\ ~text.rest
    /\ stoul(text) # 0
    /\ stoul(text) <= UINT16_MAX

\* parse_client_config does not throw.
accepts_arguments(arguments) ==
    /\ Len(arguments) \in {1, 2}
    /\ \E i \in 2..(Len(arguments[1]) - 1) : separators(arguments[1]) = {i}
    /\ Len(arguments) = 2 => accepts_port(arguments[2])

parse_client_config(arguments) ==
    LET target == arguments[1]
        separator == CHOOSE i \in separators(target) : TRUE
    IN  [username |-> SubSeq(target, 1, separator - 1),
         hostname |-> SubSeq(target, separator + 1, Len(target)),
         port |-> IF Len(arguments) = 1 THEN DEFAULT_SSH_PORT
                  ELSE stoul(arguments[2]) % (UINT16_MAX + 1)]

\* Mutant: one key for all ports of a host.
known_host_identifier_NoPort(config) == config.hostname

\* "hostname", or "[hostname]:port".
known_host_identifier(config) ==
    IF config.port = DEFAULT_SSH_PORT THEN config.hostname
    ELSE Append(config.hostname, config.port)

================================================================================
