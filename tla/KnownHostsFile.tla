---------------------------- MODULE KnownHostsFile ----------------------------
(***************************************************************************)
(* The known-hosts file of class KnownHosts (src/src/known_hosts): what    *)
(* check finds in it and what an append leaves in it.                      *)
(*                                                                         *)
(* A file is its lines and what it ends with.  A line is the sequence of   *)
(* its blank-separated fields.  A host name, the algorithm and the base64  *)
(* text of a key are fields; GARBAGE is a field that is none of these: one *)
(* that was cut short, or two that ran together.                           *)
(***************************************************************************)
EXTENDS Integers, Sequences, FiniteSets

CONSTANTS
    Hosts,      \* host names, as known_host_identifier gives them
    Keys,       \* host keys
    ALGORITHM,  \* the negotiated host key algorithm
    GARBAGE

ASSUME KnownHostsFileAssumption ==
    /\ GARBAGE \notin Hosts \cup Keys \cup {ALGORITHM}
    /\ Hosts \cap Keys = {}
    /\ ALGORITHM \notin Keys

Field == Hosts \cup Keys \cup {ALGORITHM, GARBAGE}

File == [lines : Seq(Seq(Field)), ends : {"newline", "space", "field"}]

\* No file, and a file of no bytes.
EmptyFile == [lines |-> <<>>, ends |-> "newline"]

\* An empty line is skipped; one of blanks alone, which nothing here writes and
\* which would be malformed, is not considered.
Malformed(line) == Len(line) \in 1..2

Entry(line) == Len(line) >= 3

\* The line that decides check(host, ...): the first that is malformed or the
\* host's; 0 when there is none.
DecidingLine(file, host) ==
    LET found == {i \in DOMAIN file.lines :
                    \/ Malformed(file.lines[i])
                    \/ Entry(file.lines[i]) /\ file.lines[i][1] = host}
    IN  IF found = {} THEN 0 ELSE CHOOSE i \in found : \A j \in found : i <= j

\* Mutants: the key is not compared; an entry that differs is passed over.
check_HostOnly(file, host, key) ==
    IF DecidingLine(file, host) = 0 THEN "Unknown" ELSE "Match"

check_PassesOver(file, host, key) ==
    IF \E i \in DOMAIN file.lines : file.lines[i] = <<host, ALGORITHM, key>>
    THEN "Match" ELSE "Unknown"

\* HostKeyStatus, or "throws".
check(file, host, key) ==
    LET n == DecidingLine(file, host)
    IN  CASE n = 0 -> "Unknown"
          [] n # 0 /\ Malformed(file.lines[n]) -> "throws"
          [] n # 0 /\ ~Malformed(file.lines[n]) ->
               IF file.lines[n][2] = ALGORITHM /\ file.lines[n][3] = key
               THEN "Match" ELSE "Changed"

\* The key the file holds for a host; GARBAGE when it holds none.
Recorded(file, host) ==
    LET n == DecidingLine(file, host)
    IN  IF n = 0 \/ Malformed(file.lines[n])
        THEN GARBAGE ELSE file.lines[n][3]

(***************************************************************************)
(* What reaches the file when add appends an entry: the whole line, or, if *)
(* the disk is full, some of its bytes or none.                            *)
(***************************************************************************)
Whole(host, key) ==
    [fields |-> <<host, ALGORITHM, key>>, ends |-> "newline"]

CutShort(host, key) ==
    {[fields |-> <<GARBAGE>>, ends |-> "field"],
     [fields |-> <<host>>, ends |-> "field"],
     [fields |-> <<host>>, ends |-> "space"],
     [fields |-> <<host, GARBAGE>>, ends |-> "field"],
     [fields |-> <<host, ALGORITHM>>, ends |-> "field"],
     [fields |-> <<host, ALGORITHM>>, ends |-> "space"],
     [fields |-> <<host, ALGORITHM, GARBAGE>>, ends |-> "field"],
     [fields |-> <<host, ALGORITHM, key>>, ends |-> "field"]}

(***************************************************************************)
(* std::ios::app: the bytes follow the file's last byte.  A last line      *)
(* without a newline goes on, and a last field without a blank runs into   *)
(* the first new one.                                                      *)
(***************************************************************************)
\* Mutant: std::ios::trunc.
Appended_Truncates(file, text) ==
    [lines |-> <<text.fields>>, ends |-> text.ends]

Appended(file, text) ==
    LET n == Len(file.lines)
        last == file.lines[n]
        joined == CASE file.ends = "space" -> last \o text.fields
                    [] file.ends = "field" ->
                         SubSeq(last, 1, Len(last) - 1)
                           \o <<GARBAGE>> \o Tail(text.fields)
    IN  [lines |-> IF file.ends = "newline"
                   THEN Append(file.lines, text.fields)
                   ELSE [file.lines EXCEPT ![n] = joined],
         ends |-> text.ends]

===============================================================================
