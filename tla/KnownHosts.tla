------------------------------ MODULE KnownHosts ------------------------------
(***************************************************************************)
(* Host key verification (perform_key_exchange, src/src/main.cpp:363-389)  *)
(* by several client processes of one user, which share one known-hosts    *)
(* file and no lock: check, the question to the user, and add, which       *)
(* checks again before it opens the file and writes.                       *)
(***************************************************************************)
EXTENDS KnownHostsFile

CONSTANTS
    Clients,        \* the processes
    MaxFailures     \* how often a write meets a full disk, at most

ASSUME KnownHostsAssumption == MaxFailures \in Nat

VARIABLES
    file,       \* the known-hosts file
    client,     \* each process: where it is, the host it connects to, the key
                \* it was shown, and the key the file held as it connected
    failures,   \* failed writes so far
    approved,   \* every <<host, key>> the user answered "yes" to
    saved       \* every <<host, key>> "Host key saved" was printed for

vars == <<file, client, failures, approved, saved>>

Locations == {"idle", "check", "prompt", "add", "write", "trusted"}

Idle == [pc |-> "idle", host |-> GARBAGE, key |-> GARBAGE, before |-> GARBAGE]

\* Types; a key is reported as saved only after the user approved it
\* (main.cpp:366-388).
KnownHostsTypeOK ==
    /\ file \in File
    /\ client \in [Clients ->
          [pc : Locations, host : Field, key : Field, before : Field]]
    /\ failures \in 0..MaxFailures
    /\ approved \subseteq Hosts \X Keys
    /\ saved \subseteq approved

Init ==
    /\ file = EmptyFile
    /\ client = [c \in Clients |-> Idle]
    /\ failures = 0
    /\ approved = {}
    /\ saved = {}

Goto(c, next) == client' = [client EXCEPT ![c].pc = next]

Exit(c) == client' = [client EXCEPT ![c] = Idle]

At(c, location) == client[c].pc = location

Shown(c) == <<client[c].host, client[c].key>>

Status(c) == check(file, client[c].host, client[c].key)

\* A client verified the server's signature with the key it was shown.
Connect(c, h, k) ==
    /\ At(c, "idle")
    /\ client' = [client EXCEPT ![c] =
          [pc |-> "check", host |-> h, key |-> k, before |-> Recorded(file, h)]]
    /\ UNCHANGED <<file, failures, approved, saved>>

\* Mutant: an unknown key is added without a question.
Check_Unasked(c) ==
    /\ At(c, "check")
    /\ \/ Status(c) = "Match" /\ Goto(c, "trusted")
       \/ Status(c) = "Unknown" /\ Goto(c, "add")
       \/ Status(c) \in {"Changed", "throws"} /\ Exit(c)
    /\ UNCHANGED <<file, failures, approved, saved>>

\* Changed, and a malformed line met on the way, throw.
Check(c) ==
    /\ At(c, "check")
    /\ \/ Status(c) = "Match" /\ Goto(c, "trusted")
       \/ Status(c) = "Unknown" /\ Goto(c, "prompt")
       \/ Status(c) \in {"Changed", "throws"} /\ Exit(c)
    /\ UNCHANGED <<file, failures, approved, saved>>

UserAnswers(c) ==
    /\ At(c, "prompt")
    /\ \/ Goto(c, "add") /\ approved' = approved \cup {Shown(c)}
       \/ Exit(c) /\ UNCHANGED approved
    /\ UNCHANGED <<file, failures, saved>>

\* add's own check; a Match by now means another client has added the key.
AddCheck(c) ==
    /\ At(c, "add")
    /\ \/ Status(c) = "Unknown" /\ Goto(c, "write") /\ UNCHANGED saved
       \/ /\ Status(c) = "Match"
          /\ Goto(c, "trusted")
          /\ saved' = saved \cup {Shown(c)}
       \/ Status(c) \in {"Changed", "throws"} /\ Exit(c) /\ UNCHANGED saved
    /\ UNCHANGED <<file, failures, approved>>

(***************************************************************************)
(* The entry fits the stream's buffer, which reaches the disk only when    *)
(* the stream is destroyed, after the check at known_hosts.cpp:86.  So     *)
(* whatever the write does, add returns and "Host key saved" is printed.   *)
(***************************************************************************)
AddWrite(c) ==
    /\ At(c, "write")
    /\ \/ /\ file' = Appended(file, Whole(client[c].host, client[c].key))
          /\ UNCHANGED failures
       \/ /\ failures < MaxFailures
          /\ failures' = failures + 1
          /\ \/ \E text \in CutShort(client[c].host, client[c].key) :
                    file' = Appended(file, text)
             \/ UNCHANGED file
    /\ saved' = saved \cup {Shown(c)}
    /\ Goto(c, "trusted")
    /\ UNCHANGED approved

\* The file cannot be opened, the user interrupts, or the session is over.
Leave(c) ==
    /\ ~At(c, "idle")
    /\ Exit(c)
    /\ UNCHANGED <<file, failures, approved, saved>>

Next ==
    \E c \in Clients :
        \/ \E h \in Hosts, k \in Keys : Connect(c, h, k)
        \/ Check(c)
        \/ UserAnswers(c)
        \/ AddCheck(c)
        \/ AddWrite(c)
        \/ Leave(c)

Spec == Init /\ [][Next]_vars

-------------------------------------------------------------------------------
(***************************************************************************)
(* No key is trusted for a host unless the user approved this key for this *)
(* host at some time, whatever failing writes and other clients have made  *)
(* of the file (README.md:157-158).                                        *)
(***************************************************************************)
TrustedOnlyIfApproved ==
    \A c \in Clients : At(c, "trusted") => Shown(c) \in approved

(***************************************************************************)
(* A changed key is refused (README.md:159): no client goes on with a key  *)
(* when the file held another one for the host as it connected.            *)
(***************************************************************************)
ChangedKeyRefused ==
    \A c \in Clients :
        At(c, "trusted") /\ client[c].before \in Keys =>
            client[c].before = client[c].key

\* The line has its newline: only the last one may lack it.
Complete(n) == n < Len(file.lines) \/ file.ends = "newline"

(***************************************************************************)
(* add never replaces an entry (known_hosts.hpp:22): the key that the file *)
(* holds for a host, in a line that has its newline, stays, whatever is    *)
(* appended, whatever of it is lost and whatever a last line without its   *)
(* newline turns into.                                                     *)
(***************************************************************************)
RecordedForever ==
    [][\A h \in Hosts :
          Recorded(file, h) \in Keys /\ Complete(DecidingLine(file, h)) =>
              Recorded(file', h) = Recorded(file, h)]_vars

(***************************************************************************)
(* "Accepted keys are stored" and "a matching key is accepted              *)
(* automatically" (README.md:148-157): a key reported as saved matches     *)
(* from then on.                                                           *)
(***************************************************************************)
SavedKeyMatches ==
    \A entry \in saved : check(file, entry[1], entry[2]) = "Match"

===============================================================================
