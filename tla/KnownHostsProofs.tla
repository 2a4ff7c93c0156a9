--------------------------- MODULE KnownHostsProofs ---------------------------
(***************************************************************************)
(* KnownHosts for any number of client processes, hosts, keys and failed   *)
(* writes: the inductive invariant and what follows from it.               *)
(***************************************************************************)
EXTENDS KnownHosts, KnownHostsFileProofs

-------------------------------------------------------------------------------
(***************************************************************************)
(* The inductive invariant.  Every line that can match was approved; a     *)
(* process that is past the question has had its key approved; and one     *)
(* that connected when the file held a key for its host is in front of the *)
(* first lookup or past it with that key, since the lookup can no longer   *)
(* find the host unknown.                                                  *)
(***************************************************************************)
Settled(f, h, k) ==
    LET n == DecidingLine(f, h)
    IN  /\ n # 0
        /\ ~Malformed(f.lines[n])
        /\ f.lines[n][3] \in {k, GARBAGE}

ClientInv(c) ==
    /\ ~At(c, "idle") => client[c].host \in Hosts /\ client[c].key \in Keys
    /\ client[c].pc \in {"add", "write", "trusted"} => Shown(c) \in approved
    /\ ~At(c, "idle") /\ client[c].before \in Keys =>
         /\ client[c].pc \in {"check", "trusted"}
         /\ At(c, "trusted") => client[c].before = client[c].key
         /\ Settled(file, client[c].host, client[c].before)

KnownHostsInv ==
    /\ KnownHostsTypeOK
    /\ GoodEnd(file)
    /\ Entries(file, approved)
    /\ \A c \in Clients : ClientInv(c)

\* What the file holds for a host, if a key, has settled it.
LEMMA RecordedSettles ==
    ASSUME NEW f \in File, NEW h \in Hosts
    PROVE  /\ Recorded(f, h) \in Field
           /\ Recorded(f, h) \in Keys => Settled(f, h, Recorded(f, h))
<1> DEFINE n == DecidingLine(f, h)
<1>1. CASE n = 0 \/ Malformed(f.lines[n])
  BY <1>1, DistinctFields DEF Recorded
<1>2. CASE n # 0 /\ ~Malformed(f.lines[n])
  <2>1. /\ n \in DOMAIN f.lines /\ Recorded(f, h) = f.lines[n][3]
        /\ Entry(f.lines[n])
    BY <1>2, DecidingLineIsFirst DEF Recorded, Decides
  <2>2. f.lines[n] \in Seq(Field)
    BY <2>1 DEF File
  <2>3. Len(f.lines[n]) \in Nat /\ ~(Len(f.lines[n]) < 3)
    BY <2>1, <2>2, LenProperties DEF Entry
  <2>4. f.lines[n][3] \in Field
    <3> HIDE DEF n
    <3>1. 3 \in 1..Len(f.lines[n])
      BY <2>3
    <3> QED
      BY <2>2, <3>1, ElementOfSeq
  <2> QED
    BY <1>2, <2>1, <2>4 DEF Settled
<1> QED
  BY <1>1, <1>2

\* A settled host is found, and under no other key.
LEMMA SettledStatus ==
    ASSUME NEW f \in File, NEW h \in Hosts, NEW k \in Keys, NEW y \in Keys,
           Settled(f, h, k)
    PROVE  /\ check(f, h, y) \in {"Match", "Changed"}
           /\ check(f, h, y) = "Match" => y = k
<1> DEFINE n == DecidingLine(f, h)
<1>1. n # 0 /\ ~Malformed(f.lines[n]) /\ f.lines[n][3] \in {k, GARBAGE}
  BY DEF Settled
<1>2. check(f, h, y) = IF f.lines[n][2] = ALGORITHM /\ f.lines[n][3] = y
                       THEN "Match" ELSE "Changed"
  BY <1>1 DEF check
<1> HIDE DEF n
<1> QED
  BY <1>1, <1>2, DistinctFields

LEMMA SettledStays ==
    ASSUME NEW h \in Hosts, NEW k \in Keys, NEW text \in Texts(h, k),
           NEW f \in File, GoodEnd(f), NEW x, NEW y, Settled(f, x, y)
    PROVE  Settled(Appended(f, text), x, y)
<1> DEFINE n == DecidingLine(f, x)
           g == Appended(f, text)
<1>1. n # 0 /\ ~Malformed(f.lines[n]) /\ f.lines[n][3] \in {y, GARBAGE}
  BY DEF Settled
<1>2. /\ DecidingLine(g, x) = n
      /\ ~Malformed(g.lines[n])
      /\ g.lines[n][3] \in {f.lines[n][3], GARBAGE}
  BY <1>1, DecisionStays
<1> HIDE DEF n, g
<1>3. Settled(g, x, y)
  BY <1>1, <1>2 DEF Settled
<1> QED
  BY <1>3 DEF g

(***************************************************************************)
(* Every step of a process keeps the invariant.                            *)
(***************************************************************************)
Process == [pc : Locations, host : Field, key : Field, before : Field]

\* A step that changes one process and neither file nor approved.
LEMMA LocalStep ==
    ASSUME KnownHostsInv, NEW c \in Clients, NEW p \in Process,
           client' = [client EXCEPT ![c] = p],
           UNCHANGED <<file, failures, approved>>,
           saved' \subseteq approved,
           p.pc # "idle" => p.host \in Hosts /\ p.key \in Keys,
           p.pc \in {"add", "write", "trusted"} => <<p.host, p.key>> \in approved,
           p.pc # "idle" /\ p.before \in Keys =>
             /\ p.pc \in {"check", "trusted"}
             /\ p.pc = "trusted" => p.before = p.key
             /\ Settled(file, p.host, p.before)
    PROVE  KnownHostsInv'
<1>1. KnownHostsTypeOK'
  BY DEF KnownHostsInv, KnownHostsTypeOK, Process
<1>2. GoodEnd(file)' /\ Entries(file, approved)'
  BY DEF KnownHostsInv, GoodEnd, Entries
<1>3. /\ client'[c] = p
      /\ \A d \in Clients : d # c => client'[d] = client[d]
  BY DEF KnownHostsInv, KnownHostsTypeOK
<1>4. ClientInv(c)'
  BY <1>3 DEF ClientInv, At, Shown, Settled
<1>5. \A d \in Clients : d # c => ClientInv(d)'
  BY <1>3 DEF KnownHostsInv, ClientInv, At, Shown, Settled
<1> QED
  BY <1>1, <1>2, <1>4, <1>5 DEF KnownHostsInv

\* The parts of the invariant that a step of c starts from.
LEMMA AtClient ==
    ASSUME KnownHostsInv, NEW c \in Clients
    PROVE  /\ file \in File
           /\ client[c] \in Process
           /\ saved \subseteq approved
           /\ client[c].pc # "idle" => client[c].host \in Hosts /\ client[c].key \in Keys
           /\ client[c].pc \in {"add", "write", "trusted"} => Shown(c) \in approved
           /\ client[c].pc # "idle" /\ client[c].before \in Keys =>
                /\ client[c].pc \in {"check", "trusted"}
                /\ client[c].pc = "trusted" => client[c].before = client[c].key
                /\ Settled(file, client[c].host, client[c].before)
BY DEF KnownHostsInv, KnownHostsTypeOK, ClientInv, At, Process

\* Going to another place, and leaving, in the form of LocalStep.
LEMMA GotoIs ==
    ASSUME KnownHostsInv, NEW c \in Clients, NEW next \in Locations
    PROVE  LET p == [client[c] EXCEPT !.pc = next]
           IN  /\ Goto(c, next) => client' = [client EXCEPT ![c] = p]
               /\ p \in Process
               /\ p.pc = next /\ p.host = client[c].host
               /\ p.key = client[c].key /\ p.before = client[c].before
BY AtClient DEF Goto, Process

LEMMA ExitKeeps ==
    ASSUME KnownHostsInv, NEW c \in Clients, Exit(c),
           UNCHANGED <<file, failures, approved, saved>>
    PROVE  KnownHostsInv'
<1>1. Idle \in Process /\ Idle.pc = "idle"
  BY DistinctFields DEF Idle, Process, Locations
<1> QED
  BY <1>1, AtClient, LocalStep DEF Exit

LEMMA ConnectKeeps ==
    ASSUME KnownHostsInv, NEW c \in Clients, NEW h \in Hosts, NEW k \in Keys,
           Connect(c, h, k)
    PROVE  KnownHostsInv'
<1> DEFINE p == [pc |-> "check", host |-> h, key |-> k, before |-> Recorded(file, h)]
<1>1. file \in File /\ saved \subseteq approved
  BY AtClient
<1>2. /\ Recorded(file, h) \in Field
      /\ Recorded(file, h) \in Keys => Settled(file, h, Recorded(file, h))
  BY <1>1, RecordedSettles
<1>3. h \in Field /\ k \in Field
  BY DEF Field
<1>4. /\ p \in Process /\ p.pc = "check" /\ p.host = h /\ p.key = k
      /\ p.before = Recorded(file, h)
  BY <1>2, <1>3 DEF Process, Locations
<1>5. /\ client' = [client EXCEPT ![c] = p]
      /\ UNCHANGED <<file, failures, approved, saved>>
  BY DEF Connect
<1> HIDE DEF p
<1> QED
  BY <1>1, <1>2, <1>4, <1>5, LocalStep

LEMMA CheckKeeps ==
    ASSUME KnownHostsInv, NEW c \in Clients, Check(c)
    PROVE  KnownHostsInv'
<1>1. At(c, "check") /\ UNCHANGED <<file, failures, approved, saved>>
  BY DEF Check
<1>2. /\ file \in File /\ saved \subseteq approved
      /\ client[c].host \in Hosts /\ client[c].key \in Keys
      /\ client[c].before \in Keys => Settled(file, client[c].host, client[c].before)
      /\ Entries(file, approved)
  BY <1>1, AtClient DEF At, KnownHostsInv
<1>3. CASE Status(c) = "Match" /\ Goto(c, "trusted")
  <2> DEFINE p == [client[c] EXCEPT !.pc = "trusted"]
  <2>1. /\ client' = [client EXCEPT ![c] = p]
        /\ p \in Process /\ p.pc = "trusted" /\ p.host = client[c].host
        /\ p.key = client[c].key /\ p.before = client[c].before
    BY <1>3, GotoIs DEF Locations
  <2>2. <<client[c].host, client[c].key>> \in approved
    BY <1>2, <1>3, ApprovedMatch DEF Status
  <2>3. client[c].before \in Keys => client[c].before = client[c].key
    BY <1>2, <1>3, SettledStatus DEF Status
  <2> HIDE DEF p
  <2> QED
    BY <1>1, <1>2, <2>1, <2>2, <2>3, LocalStep
<1>4. CASE Status(c) = "Unknown" /\ Goto(c, "prompt")
  <2> DEFINE p == [client[c] EXCEPT !.pc = "prompt"]
  <2>1. /\ client' = [client EXCEPT ![c] = p]
        /\ p \in Process /\ p.pc = "prompt" /\ p.host = client[c].host
        /\ p.key = client[c].key /\ p.before = client[c].before
    BY <1>4, GotoIs DEF Locations
  <2>2. client[c].before \notin Keys
    BY <1>2, <1>4, SettledStatus DEF Status
  <2> HIDE DEF p
  <2> QED
    BY <1>1, <1>2, <2>1, <2>2, LocalStep
<1>5. CASE Exit(c)
  BY <1>1, <1>5, ExitKeeps
<1> QED
  BY <1>3, <1>4, <1>5 DEF Check

\* Approving more leaves everything approved that was.
LEMMA UserAnswersKeeps ==
    ASSUME KnownHostsInv, NEW c \in Clients, UserAnswers(c)
    PROVE  KnownHostsInv'
<1>1. At(c, "prompt") /\ UNCHANGED <<file, failures, saved>>
  BY DEF UserAnswers
<1>2. CASE Exit(c) /\ UNCHANGED approved
  BY <1>1, <1>2, ExitKeeps
<1>3. CASE Goto(c, "add") /\ approved' = approved \cup {Shown(c)}
  <2> DEFINE p == [client[c] EXCEPT !.pc = "add"]
  <2>1. /\ client[c].host \in Hosts /\ client[c].key \in Keys
        /\ client[c].before \notin Keys
    BY <1>1, AtClient DEF At
  <2>2. /\ client' = [client EXCEPT ![c] = p]
        /\ p \in Process /\ p.pc = "add" /\ p.host = client[c].host
        /\ p.key = client[c].key /\ p.before = client[c].before
    BY <1>3, GotoIs DEF Locations
  <2> HIDE DEF p
  <2>3. /\ client'[c] = p
        /\ \A d \in Clients : d # c => client'[d] = client[d]
    BY <2>2 DEF KnownHostsInv, KnownHostsTypeOK
  <2>4. approved' \subseteq Hosts \X Keys /\ saved' \subseteq approved'
    BY <1>1, <1>3, <2>1 DEF KnownHostsInv, KnownHostsTypeOK, Shown
  <2>5. KnownHostsTypeOK'
    BY <1>1, <2>2, <2>4 DEF KnownHostsInv, KnownHostsTypeOK, Process
  <2>6. GoodEnd(file)' /\ Entries(file, approved)'
    BY <1>1, <1>3 DEF KnownHostsInv, GoodEnd, Entries
  <2>7. ClientInv(c)'
    BY <1>3, <2>1, <2>2, <2>3 DEF ClientInv, At, Shown
  <2>8. \A d \in Clients : d # c => ClientInv(d)'
    BY <1>1, <1>3, <2>3 DEF KnownHostsInv, ClientInv, At, Shown, Settled
  <2> QED
    BY <2>5, <2>6, <2>7, <2>8 DEF KnownHostsInv
<1> QED
  BY <1>2, <1>3 DEF UserAnswers

LEMMA AddCheckKeeps ==
    ASSUME KnownHostsInv, NEW c \in Clients, AddCheck(c)
    PROVE  KnownHostsInv'
<1>1. At(c, "add") /\ UNCHANGED <<file, failures, approved>>
  BY DEF AddCheck
<1>2. /\ saved \subseteq approved
      /\ client[c].host \in Hosts /\ client[c].key \in Keys
      /\ client[c].before \notin Keys
      /\ Shown(c) \in approved
      /\ <<client[c].host, client[c].key>> \in approved
  BY <1>1, AtClient DEF At, Shown
<1>3. CASE Goto(c, "write") /\ UNCHANGED saved
  <2> DEFINE p == [client[c] EXCEPT !.pc = "write"]
  <2>1. /\ client' = [client EXCEPT ![c] = p]
        /\ p \in Process /\ p.pc = "write" /\ p.host = client[c].host
        /\ p.key = client[c].key /\ p.before = client[c].before
    BY <1>3, GotoIs DEF Locations
  <2> HIDE DEF p
  <2> QED
    BY <1>1, <1>2, <1>3, <2>1, LocalStep
<1>4. CASE Goto(c, "trusted") /\ saved' = saved \cup {Shown(c)}
  <2> DEFINE p == [client[c] EXCEPT !.pc = "trusted"]
  <2>1. /\ client' = [client EXCEPT ![c] = p]
        /\ p \in Process /\ p.pc = "trusted" /\ p.host = client[c].host
        /\ p.key = client[c].key /\ p.before = client[c].before
    BY <1>4, GotoIs DEF Locations
  <2> HIDE DEF p
  <2> QED
    BY <1>1, <1>2, <1>4, <2>1, LocalStep
<1>5. CASE Exit(c) /\ UNCHANGED saved
  BY <1>1, <1>5, ExitKeeps
<1> QED
  BY <1>3, <1>4, <1>5 DEF AddCheck

\* The file is appended to, with all or a part of an approved entry, or not.
LEMMA AddWriteKeeps ==
    ASSUME KnownHostsInv, NEW c \in Clients, AddWrite(c)
    PROVE  KnownHostsInv'
<1> DEFINE h == client[c].host
           k == client[c].key
           p == [client[c] EXCEPT !.pc = "trusted"]
<1>1. At(c, "write") /\ UNCHANGED approved /\ saved' = saved \cup {Shown(c)}
  BY DEF AddWrite
<1>2. /\ file \in File /\ GoodEnd(file) /\ Entries(file, approved)
      /\ h \in Hosts /\ k \in Keys
      /\ client[c].before \notin Keys
      /\ <<h, k>> \in approved
      /\ saved' \subseteq approved
  BY <1>1, AtClient DEF At, Shown, KnownHostsInv
<1>3. /\ client' = [client EXCEPT ![c] = p]
      /\ p \in Process /\ p.pc = "trusted" /\ p.host = h
      /\ p.key = k /\ p.before = client[c].before
  BY GotoIs DEF AddWrite, Locations
<1> HIDE DEF h, k, p
<1>4. /\ client'[c] = p
      /\ \A d \in Clients : d # c => client'[d] = client[d]
  BY <1>3 DEF KnownHostsInv, KnownHostsTypeOK
<1>5. UNCHANGED file \/ \E text \in Texts(h, k) : file' = Appended(file, text)
  BY DEF AddWrite, Texts, h, k
<1>6. failures' \in 0..MaxFailures
  BY KnownHostsAssumption DEF AddWrite, KnownHostsInv, KnownHostsTypeOK
<1>7. /\ file' \in File /\ GoodEnd(file)' /\ Entries(file, approved)'
      /\ \A x, y : Settled(file, x, y) => Settled(file', x, y)
  <2>1. CASE UNCHANGED file
    BY <2>1, <1>1, <1>2 DEF GoodEnd, Entries
  <2>2. ASSUME NEW text \in Texts(h, k), file' = Appended(file, text)
        PROVE  /\ file' \in File /\ GoodEnd(file') /\ Entries(file', approved)
               /\ \A x, y : Settled(file, x, y) => Settled(file', x, y)
    <3>1. file' \in File /\ GoodEnd(file')
      BY <2>2, <1>2, AppendedFile
    <3>2. Entries(file', approved)
      BY <2>2, <1>2, EntriesStay
    <3>3. \A x, y : Settled(file, x, y) => Settled(file', x, y)
      BY <2>2, <1>2, SettledStays
    <3> QED
      BY <3>1, <3>2, <3>3
  <2> QED
    BY <2>1, <2>2, <1>1, <1>5
<1>8. KnownHostsTypeOK'
  BY <1>1, <1>2, <1>3, <1>6, <1>7 DEF KnownHostsInv, KnownHostsTypeOK, Process
<1>9. ClientInv(c)'
  BY <1>1, <1>2, <1>3, <1>4 DEF ClientInv, At, Shown
<1>10. \A d \in Clients : d # c => ClientInv(d)'
  BY <1>1, <1>4, <1>7 DEF KnownHostsInv, ClientInv, At, Shown
<1> QED
  BY <1>7, <1>8, <1>9, <1>10 DEF KnownHostsInv

LEMMA KnownHostsStep ==
    ASSUME KnownHostsInv, [Next]_vars
    PROVE  KnownHostsInv'
<1>1. ASSUME NEW c \in Clients, Leave(c)
      PROVE  KnownHostsInv'
  BY <1>1, ExitKeeps DEF Leave
<1>2. CASE UNCHANGED vars
  BY <1>2 DEF vars, KnownHostsInv, KnownHostsTypeOK, GoodEnd, Entries, ClientInv,
              At, Shown, Settled
<1> QED
  BY <1>1, <1>2, ConnectKeeps, CheckKeeps, UserAnswersKeeps, AddCheckKeeps,
     AddWriteKeeps
     DEF Next

-------------------------------------------------------------------------------
(***************************************************************************)
(* The invariant holds for any number of processes, hosts, keys and failed *)
(* writes.                                                                 *)
(***************************************************************************)
THEOREM KnownHostsInductive == Spec => []KnownHostsInv
<1>1. Init => KnownHostsInv
  <2> SUFFICES ASSUME Init PROVE KnownHostsInv
    OBVIOUS
  <2>1. file \in File /\ GoodEnd(file) /\ Entries(file, approved)
    BY DEF Init, EmptyFile, File, GoodEnd, Entries
  <2>2. Idle \in Process
    BY DistinctFields DEF Idle, Process, Locations
  <2>3. KnownHostsTypeOK
    BY <2>1, <2>2, KnownHostsAssumption DEF Init, KnownHostsTypeOK, Process
  <2>4. \A c \in Clients : ClientInv(c)
    BY DEF Init, ClientInv, At, Idle
  <2> QED
    BY <2>1, <2>3, <2>4 DEF KnownHostsInv
<1> QED
  BY <1>1, KnownHostsStep, PTL DEF Spec

(***************************************************************************)
(* File and processes keep their types, and "Host key saved" is printed    *)
(* for approved keys only.                                                 *)
(***************************************************************************)
THEOREM KnownHostsTypes == Spec => []KnownHostsTypeOK
<1>1. KnownHostsInv => KnownHostsTypeOK
  BY DEF KnownHostsInv
<1> QED
  BY <1>1, KnownHostsInductive, PTL

(***************************************************************************)
(* No client goes on with a key that the user never approved for the host, *)
(* however many clients and failed writes share the file                   *)
(* (main.cpp:366-387, known_hosts.cpp:28-89).                              *)
(***************************************************************************)
THEOREM OnlyApprovedTrusted == Spec => []TrustedOnlyIfApproved
<1>1. KnownHostsInv => TrustedOnlyIfApproved
  BY DEF KnownHostsInv, ClientInv, TrustedOnlyIfApproved, At
<1> QED
  BY <1>1, KnownHostsInductive, PTL

(***************************************************************************)
(* A client that connected when the file held another key for the host is  *)
(* never trusting the new one (known_hosts.cpp:52-63).                     *)
(***************************************************************************)
THEOREM ChangedNeverTrusted == Spec => []ChangedKeyRefused
<1>1. KnownHostsInv => ChangedKeyRefused
  BY DEF KnownHostsInv, ClientInv, ChangedKeyRefused, At
<1> QED
  BY <1>1, KnownHostsInductive, PTL

(***************************************************************************)
(* The key of a line with its newline is the host's for ever               *)
(* (known_hosts.hpp:22): no append, cut short or not, and to whatever last *)
(* line, changes what a lookup finds.                                      *)
(***************************************************************************)
THEOREM EntriesNeverReplaced == Spec => RecordedForever
<1> DEFINE A == \A h \in Hosts :
                  Recorded(file, h) \in Keys /\ Complete(DecidingLine(file, h)) =>
                      Recorded(file', h) = Recorded(file, h)
<1>1. ASSUME KnownHostsInv, [Next]_vars
      PROVE  [A]_vars
  <2>1. CASE UNCHANGED file
    BY <2>1
  <2>2. ASSUME NEW c \in Clients, NEW text \in Texts(client[c].host, client[c].key),
               At(c, "write"), file' = Appended(file, text)
        PROVE  A
    <3> SUFFICES ASSUME NEW h \in Hosts,
                        Recorded(file, h) \in Keys,
                        Complete(DecidingLine(file, h))
                 PROVE  Recorded(file', h) = Recorded(file, h)
      OBVIOUS
    <3> DEFINE n == DecidingLine(file, h)
    <3>1. /\ client[c].host \in Hosts /\ client[c].key \in Keys
          /\ file \in File /\ GoodEnd(file)
      BY <1>1, <2>2, AtClient DEF At, KnownHostsInv
    <3>2. n # 0 /\ ~Malformed(file.lines[n])
      BY DistinctFields DEF Recorded
    <3>3. n # Len(file.lines) \/ file.ends = "newline"
      <4>1. Len(file.lines) \in Nat /\ n \in DOMAIN file.lines
        BY <3>1, <3>2, DecidingLineIsFirst, LenProperties DEF File
      <4> QED
        BY <4>1 DEF Complete
    <3>4. /\ DecidingLine(file', h) = n
          /\ ~Malformed(file'.lines[n])
          /\ file'.lines[n] = file.lines[n]
      BY <2>2, <3>1, <3>2, <3>3, DecisionStays
    <3> HIDE DEF n
    <3>5. DecidingLine(file, h) = n
      BY DEF n
    <3> QED
      BY <3>2, <3>4, <3>5 DEF Recorded
  <2>3. \/ UNCHANGED file
        \/ \E c \in Clients :
             \E text \in Texts(client[c].host, client[c].key) :
                At(c, "write") /\ file' = Appended(file, text)
    BY <1>1 DEF Next, vars, Connect, Check, UserAnswers, AddCheck, AddWrite,
                Leave, Texts
  <2> QED
    BY <2>1, <2>2, <2>3
<1> QED
  BY <1>1, KnownHostsInductive, PTL DEF Spec, RecordedForever

===============================================================================
