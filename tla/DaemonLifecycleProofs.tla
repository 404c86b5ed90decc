------------------------ MODULE DaemonLifecycleProofs ------------------------
(* What holds of DaemonLifecycle for any number of commands and processes,  *)
(* on every machine the properties speak of.                                *)
EXTENDS DaemonLifecycle, FiniteSetTheorems, TLAPS

Labels == {"idle", "status", "first look", "own", "owned", "wait", "wait look", "clear",
           "stat lock", "unlock stale", "open lock", "stop", "stop check", "terminate",
           "stop wait", "stop drop"} \cup Holding
States == {"unborn", "starting", "listening", "dead", "foreign"}
Recs == [pid : AllPids, port : Ports]
Locks == [owner : Clients, stale : BOOLEAN]
Proc == [state : States, port : Ports]
Cmd == [pc : Labels, rec : {None} \cup Recs, pid : Pids \cup {None}, port : Ports, polls : Nat]

TypeOK ==
    /\ site \in Sites /\ record \in {None} \cup Recs /\ lock \in {None} \cup Locks
    /\ procs \in [AllPids -> Proc] /\ signalled \subseteq AllPids
    /\ cli \in [Clients -> Cmd]

\* Who is about to send a signal has a server in mind, or one that was a server: by
\* its command line, or because the command has just started it.
Minds(c) ==
    /\ cli[c].pc = "terminate" =>
          cli[c].rec \in Recs /\ (site.ownership # "probe" => procs[cli[c].rec.pid].state # "foreign")
    /\ cli[c].pc = "stop wait" => cli[c].rec \in Recs
    /\ cli[c].pc \in {"write", "probe"} => cli[c].pid \in Pids /\ procs[cli[c].pid].state # "foreign"

Strangers ==
    /\ procs[OldPid].state \in {"dead", "foreign"}
    /\ \A c \in Clients : Minds(c)
    /\ ForeignNeverSignalled

\* Without kills the lock file is there while somebody holds it, and never stale.
Locked ==
    ~site.crashes =>
        /\ lock # None => ~lock.stale /\ cli[lock.owner].pc \in Holding
        /\ \A c \in Clients : /\ cli[c].pc \in Holding => lock # None /\ lock.owner = c
                              /\ cli[c].pc # "unlock stale"

\* Commands at the same time: the server is on the default port, the lock covers
\* it from the last look to its first answer, and nobody else listens there.
FoundHere ==
    /\ \A p \in Pids : Serves(p) => procs[p].port = DefaultPort
    /\ \A p \in Ours : procs[p].state = "starting" =>
          \E c \in Clients : cli[c].pc \in {"write", "probe"} /\ cli[c].pid = p
    /\ \A c \in Clients :
          /\ cli[c].pc = "spawn" => cli[c].port = DefaultPort
          /\ cli[c].pc \in {"pick port", "spawn"} => Ours = {} /\ ~Listening(DefaultPort)
          /\ cli[c].pc \in {"write", "probe"} =>
                /\ cli[c].port = DefaultPort
                /\ \A p \in AllPids : procs[p].state = "listening" \/ p \in Ours => p = cli[c].pid
    /\ \A p, q \in Ours : p = q

Found == ~site.crashes /\ ~site.slow /\ DefaultPort \notin site.foreign => FoundHere

\* The labels at which no server is left, and those at which a command goes by the
\* record it read.
Cleared == {"clear", "stat lock", "unlock stale", "open lock", "recheck", "second look",
            "pick port", "spawn", "drop", "stop drop"}
Informed == {"owned", "stop check", "terminate", "stop wait"}

\* One command at a time, with a ps that works: the record names the server, and
\* whoever drops the record has seen that there is none.
Recorded(p) == record # None /\ record.pid = p /\ record.port = procs[p].port
AloneHere ==
    /\ \A c, d \in Clients : cli[c].pc # "idle" /\ cli[d].pc # "idle" => c = d
    /\ \A p \in Ours : \/ Recorded(p)
                       \/ \E c \in Clients : cli[c].pc = "write" /\ cli[c].pid = p
    /\ \A c \in Clients :
          /\ cli[c].pc \in Cleared => Ours = {}
          /\ cli[c].pc \in {"write", "probe"} =>
                Ours \subseteq {cli[c].pid} /\ procs[cli[c].pid].port = cli[c].port
          /\ cli[c].pc \in Informed => cli[c].rec = record

Alone == ~site.crashes /\ ~site.overlap /\ site.ownership = "exact" => AloneHere
-----------------------------------------------------------------------------
(* What a step does, field by field *)

files == <<site, record, lock, procs, signalled>>

\* A command goes from one label to another and keeps its locals.
Moved(c, from, to) ==
    /\ cli[c].pc = from /\ cli'[c].pc = to
    /\ cli'[c].rec = cli[c].rec /\ cli'[c].pid = cli[c].pid /\ cli'[c].port = cli[c].port

\* Steps that only look.
LookMove(c) ==
    /\ UNCHANGED files
    /\ \/ \E to \in {"status", "stop"} : Moved(c, "idle", to) /\ (site.overlap \/ \A d \in Clients : At(d, "idle"))
       \/ /\ cli[c].pc \in {"status", "own", "wait", "recheck", "stop"}
          /\ cli'[c].pc = AfterRead[cli[c].pc]
          /\ cli'[c].rec = record /\ cli'[c].pid = cli[c].pid /\ cli'[c].port = cli[c].port
       \/ Moved(c, "first look", "own") \/ Moved(c, "owned", "wait")
       \/ Moved(c, "owned", "clear") /\ FALSE \in Mine(cli[c].rec)
       \/ Moved(c, "stat lock", "open lock")
       \/ Moved(c, "stat lock", "unlock stale") /\ lock # None /\ lock.stale
       \/ Moved(c, "open lock", "wait") \/ Moved(c, "wait look", "wait")
       \/ Moved(c, "second look", "release") \/ Moved(c, "pick port", "release")
       \/ Moved(c, "spawn", "release") \/ Moved(c, "probe", "probe")
       \/ Moved(c, "second look", "pick port") /\ FALSE \in Running(cli[c].rec)
       \/ /\ cli[c].pc = "pick port" /\ cli'[c].pc = "spawn"
          /\ PortFree(DefaultPort) => cli'[c].port = DefaultPort
       \/ Moved(c, "probe", "drop") /\ ~Serves(cli[c].pid)
       \/ Moved(c, "stop check", "terminate") /\ TRUE \in Mine(cli[c].rec)
       \/ Moved(c, "stop check", "stop drop") /\ FALSE \in Mine(cli[c].rec)
       \/ Moved(c, "stop wait", "stop wait")
       \/ Moved(c, "stop wait", "stop drop") /\ ~Alive(cli[c].rec.pid)
       \/ /\ cli'[c] = Idle
          /\ site.crashes \/ cli[c].pc \in {"first look", "wait look", "stop check", "terminate", "stop wait"}

\* Steps that write a file, start a process or send a signal.
WriteMove(c) ==
    \/ /\ Moved(c, "clear", "stat lock") \/ Moved(c, "drop", "release")
          \/ (cli[c].pc = "stop drop" /\ cli'[c] = Idle)
       /\ record' = None /\ UNCHANGED <<lock, procs, signalled>>
    \/ Moved(c, "unlock stale", "open lock") /\ lock' = None /\ UNCHANGED <<record, procs, signalled>>
    \/ /\ Moved(c, "open lock", "recheck") /\ lock = None /\ lock' = [owner |-> c, stale |-> FALSE]
       /\ UNCHANGED <<record, procs, signalled>>
    \/ /\ cli[c].pc = "release" /\ cli'[c] = Idle
       /\ lock' = None /\ UNCHANGED <<record, procs, signalled>>
    \/ /\ cli[c].pc = "spawn" /\ cli'[c].pc = "write" /\ cli'[c].port = cli[c].port
       /\ \E p \in Pids : /\ procs[p].state = "unborn" /\ cli'[c].pid = p
                          /\ procs' = [procs EXCEPT ![p] = [state |-> "starting", port |-> cli[c].port]]
       /\ UNCHANGED <<record, lock, signalled>>
    \/ /\ Moved(c, "write", "probe")
       /\ record' = NewRecord(c) /\ UNCHANGED <<lock, procs, signalled>>
    \/ /\ Moved(c, "probe", "release") /\ TRUE \in Probe(cli[c].port)
       /\ record' \in {record, NewRecord(c)} /\ UNCHANGED <<lock, procs, signalled>>
    \/ /\ Moved(c, "write", "release") /\ record' \in {record, NewRecord(c)}
       /\ signalled' = signalled \cup {cli[c].pid} /\ UNCHANGED <<lock, procs>>
    \/ /\ Moved(c, "probe", "drop")
       /\ signalled' = signalled \cup {cli[c].pid} /\ UNCHANGED <<record, lock, procs>>
    \/ /\ Moved(c, "terminate", "stop wait") /\ signalled' = signalled \cup {cli[c].rec.pid}
       /\ UNCHANGED <<record, lock, procs>>

\* A step of a command.
CommandMove(c) ==
    /\ site' = site /\ \A d \in Clients \ {c} : cli'[d] = cli[d]
    /\ LookMove(c) \/ WriteMove(c)

\* What happens to a process by itself.
ProcessMove(p) ==
    /\ UNCHANGED <<site, record, lock, signalled, cli>> /\ Serves(p)
    /\ \E s \in {"listening", "dead"} :
          /\ procs' = [procs EXCEPT ![p].state = s]
          /\ s = "listening" => procs[p].state = "starting" /\ p \notin signalled

\* The checks of ownership say yes or no.
LEMMA MineAnswers ==
    ASSUME TypeOK, NEW rec
    PROVE  Mine(rec) \subseteq BOOLEAN
  <1>1. site.ownership \in {"exact", "failing", "probe"}
    BY SitesAssumption DEF TypeOK, SiteType
  <1>2. \A n : Probe(n) \subseteq BOOLEAN
    BY DEF Probe, Answers, Listening
  <1>3. \A p, n : (Serves(p) /\ procs[p].port = n) \in BOOLEAN
    OBVIOUS
  <1>4. \A p, n : Owns(p, n) \subseteq BOOLEAN
    BY <1>1, <1>2, <1>3 DEF Owns
  <1> QED BY <1>4 DEF Mine

\* One, two or three of a command's locals are set.
LEMMA LocalsSet ==
    ASSUME TypeOK, NEW c \in Clients, NEW x \in Cmd, cli' = [cli EXCEPT ![c] = x]
    PROVE  /\ cli' \in [Clients -> Cmd] /\ cli'[c] = x
           /\ \A d \in Clients \ {c} : cli'[d] = cli[d]
  BY DEF TypeOK

LEMMA CmdFields ==
    ASSUME NEW x \in Cmd
    PROVE  /\ DOMAIN x = {"pc", "rec", "pid", "port", "polls"} /\ x.polls \in Nat /\ x.port \in Ports
           /\ x.pc \in Labels /\ x.rec \in {None} \cup Recs /\ x.pid \in Pids \cup {None}
  BY DEF Cmd

LEMMA GotoMoves ==
    ASSUME TypeOK, NEW c \in Clients, NEW to \in Labels, Goto(c, to)
    PROVE  /\ cli' \in [Clients -> Cmd] /\ Moved(c, cli[c].pc, to)
           /\ \A d \in Clients \ {c} : cli'[d] = cli[d]
  <1> DEFINE x == [cli[c] EXCEPT !.pc = to]
  <1>1. cli \in [Clients -> Cmd] /\ cli[c] \in Cmd
    BY DEF TypeOK
  <1>2. x \in Cmd
    BY Zenon, <1>1 DEF Cmd
  <1>3. x.pc = to /\ x.rec = cli[c].rec /\ x.pid = cli[c].pid /\ x.port = cli[c].port
    BY Zenon, <1>1, CmdFields
  <1>4. cli' = [cli EXCEPT ![c] = x]
    BY <1>1 DEF Goto
  <1> HIDE DEF x
  <1> QED BY <1>2, <1>3, <1>4, LocalsSet DEF Moved

LEMMA PollsMoves ==
    ASSUME TypeOK, NEW c \in Clients, NEW to \in Labels, NEW n \in Nat,
           cli' = [cli EXCEPT ![c].pc = to, ![c].polls = n]
    PROVE  /\ cli' \in [Clients -> Cmd] /\ Moved(c, cli[c].pc, to)
           /\ \A d \in Clients \ {c} : cli'[d] = cli[d]
  <1> DEFINE x == [cli[c] EXCEPT !.pc = to, !.polls = n]
  <1>1. cli \in [Clients -> Cmd] /\ cli[c] \in Cmd
    BY DEF TypeOK
  <1>2. x \in Cmd
    BY Zenon, <1>1 DEF Cmd
  <1>3. x.pc = to /\ x.rec = cli[c].rec /\ x.pid = cli[c].pid /\ x.port = cli[c].port
    BY Zenon, <1>1, CmdFields
  <1>4. cli' = [cli EXCEPT ![c] = x]
    BY <1>1
  <1> HIDE DEF x
  <1> QED BY <1>2, <1>3, <1>4, LocalsSet DEF Moved

LEMMA IdleCmd == Idle \in Cmd /\ Idle.pc = "idle"
  BY PortsAssumption DEF Idle, Cmd, Labels, Ports

LEMMA ReturnMoves ==
    ASSUME TypeOK, NEW c \in Clients, Return(c)
    PROVE  /\ cli' \in [Clients -> Cmd] /\ cli'[c] = Idle
           /\ \A d \in Clients \ {c} : cli'[d] = cli[d]
  BY IdleCmd, LocalsSet DEF Return


LEMMA PollsCount ==
    ASSUME TypeOK, NEW c \in Clients
    PROVE  cli[c].polls + 1 \in Nat
  <1>1. cli[c] \in Cmd
    BY DEF TypeOK
  <1> QED BY <1>1, CmdFields

LEMMA CountMoves ==
    ASSUME TypeOK, NEW c \in Clients, cli' = [cli EXCEPT ![c].polls = @ + 1]
    PROVE  /\ cli' \in [Clients -> Cmd] /\ Moved(c, cli[c].pc, cli[c].pc)
           /\ \A d \in Clients \ {c} : cli'[d] = cli[d]
  <1> DEFINE n == cli[c].polls + 1
             x == [cli[c] EXCEPT !.polls = n]
  <1>1. cli \in [Clients -> Cmd] /\ cli[c] \in Cmd
    BY DEF TypeOK
  <1>2. n \in Nat
    BY <1>1, CmdFields
  <1>3. cli' = [cli EXCEPT ![c] = x]
    BY <1>1
  <1> HIDE DEF n
  <1>4. x \in Cmd
    BY Zenon, <1>1, <1>2 DEF Cmd
  <1>5. x.pc = cli[c].pc /\ x.rec = cli[c].rec /\ x.pid = cli[c].pid /\ x.port = cli[c].port
    BY Zenon, <1>1, CmdFields
  <1> HIDE DEF x
  <1> QED BY <1>3, <1>4, <1>5, LocalsSet DEF Moved

\* A step of a command, with the types it keeps.
Commanded(c) == cli' \in [Clients -> Cmd] /\ CommandMove(c)

LEMMA LookingMoves ==
    ASSUME TypeOK, NEW c \in Clients,
           \/ Begin(c) \/ ReadRecord(c) \/ FirstLook(c) \/ CheckOwned(c) \/ StatLock(c)
           \/ WaitLook(c) \/ SecondLook(c) \/ PickPort(c) \/ StopCheck(c) \/ StopWait(c) \/ Crash(c)
    PROVE  Commanded(c)
  <1> USE DEF Holding, Labels
  <1>1. UNCHANGED files
    BY DEF files, Begin, ReadRecord, FirstLook, CheckOwned, StatLock, WaitLook, SecondLook,
           PickPort, StopCheck, StopWait, Crash
  <1>2. ASSUME cli' \in [Clients -> Cmd], \A d \in Clients \ {c} : cli'[d] = cli[d], LookMove(c)
        PROVE  Commanded(c)
    BY <1>1, <1>2 DEF Commanded, CommandMove, files
  <1>3. ASSUME Return(c), site.crashes \/ cli[c].pc \in {"first look", "wait look", "stop check",
                                                         "terminate", "stop wait"}
        PROVE  Commanded(c)
    BY <1>1, <1>2, <1>3, ReturnMoves DEF LookMove
  <1>4. CASE Begin(c)
    <2>1. PICK to \in {"status", "stop"} : Goto(c, to)
      BY <1>4 DEF Begin
    <2>2. /\ cli' \in [Clients -> Cmd] /\ Moved(c, cli[c].pc, to)
          /\ \A d \in Clients \ {c} : cli'[d] = cli[d]
      BY <2>1, GotoMoves
    <2>3. LookMove(c)
      BY <1>1, <1>4, <2>2 DEF LookMove, Begin, At
    <2> QED BY <1>2, <2>2, <2>3
  <1>5. CASE ReadRecord(c)
    <2> DEFINE to == AfterRead[cli[c].pc]
               x == [cli[c] EXCEPT !.rec = record, !.pc = to]
    <2>1. cli \in [Clients -> Cmd] /\ cli[c] \in Cmd /\ record \in {None} \cup Recs
      BY DEF TypeOK
    <2>2. cli[c].pc \in {"status", "own", "wait", "recheck", "stop"} /\ to \in Labels
      <3>1. cli[c].pc \in DOMAIN AfterRead
        BY <1>5 DEF ReadRecord
      <3>2. DOMAIN AfterRead = {"status", "own", "wait", "recheck", "stop"}
        BY DEF AfterRead
      <3>3. \A l \in {"status", "own", "wait", "recheck", "stop"} : AfterRead[l] \in Labels
        <4>1. /\ AfterRead["status"] = "first look" /\ AfterRead["own"] = "owned"
              /\ AfterRead["wait"] = "wait look" /\ AfterRead["recheck"] = "second look"
              /\ AfterRead["stop"] = "stop check"
          BY DEF AfterRead
        <4> QED BY <4>1
      <3> QED BY <3>1, <3>2, <3>3
    <2>3. cli' = [cli EXCEPT ![c] = x]
      BY <1>5, <2>1 DEF ReadRecord
    <2> HIDE DEF to
    <2>4. x \in Cmd
      BY Zenon, <2>1, <2>2 DEF Cmd
    <2>5. x.pc = to /\ x.rec = record /\ x.pid = cli[c].pid /\ x.port = cli[c].port
      BY Zenon, <2>1, CmdFields
    <2> HIDE DEF x
    <2>6. cli' \in [Clients -> Cmd] /\ cli'[c] = x /\ \A d \in Clients \ {c} : cli'[d] = cli[d]
      BY <2>3, <2>4, LocalsSet
    <2>7. LookMove(c)
      BY <1>1, <2>2, <2>5, <2>6 DEF LookMove, to
    <2> QED BY <1>2, <2>6, <2>7
  <1>6. CASE FirstLook(c)
    <2>1. CASE Return(c)
      BY <1>3, <1>6, <2>1 DEF FirstLook, At
    <2>2. CASE Goto(c, "own")
      BY <1>1, <1>2, <1>6, <2>2, GotoMoves DEF FirstLook, At, LookMove
    <2> QED BY <1>6, <2>1, <2>2 DEF FirstLook
  <1>7. CASE CheckOwned(c)
    <2>1. CASE Restart(c, "wait")
      <3>1. cli' = [cli EXCEPT ![c].pc = "wait", ![c].polls = 0]
        BY <2>1 DEF Restart
      <3>2. /\ cli' \in [Clients -> Cmd] /\ Moved(c, cli[c].pc, "wait")
            /\ \A d \in Clients \ {c} : cli'[d] = cli[d]
        BY <3>1, PollsMoves
      <3>3. LookMove(c)
        BY <1>1, <1>7, <3>2 DEF CheckOwned, At, LookMove
      <3> QED BY <1>2, <3>2, <3>3
    <2>2. CASE Goto(c, "clear") /\ FALSE \in Mine(cli[c].rec)
      BY <1>1, <1>2, <1>7, <2>2, GotoMoves DEF CheckOwned, At, LookMove
    <2>3. Mine(cli[c].rec) \subseteq BOOLEAN
      BY MineAnswers
    <2> QED BY <1>7, <2>1, <2>2, <2>3 DEF CheckOwned
  <1>8. CASE StatLock(c)
    <2>1. CASE Goto(c, "unlock stale") /\ lock # None /\ lock.stale
      BY <1>1, <1>2, <1>8, <2>1, GotoMoves DEF StatLock, At, LookMove
    <2>2. CASE Goto(c, "open lock")
      BY <1>1, <1>2, <1>8, <2>2, GotoMoves DEF StatLock, At, LookMove
    <2> QED BY <1>8, <2>1, <2>2 DEF StatLock
  <1>9. CASE WaitLook(c)
    <2>1. CASE Return(c)
      BY <1>3, <1>9, <2>1 DEF WaitLook, At
    <2>2. CASE cli' = [cli EXCEPT ![c].pc = "wait", ![c].polls = @ + 1]
      <3> DEFINE n == cli[c].polls + 1
      <3>1. n \in Nat /\ cli \in [Clients -> Cmd]
        BY PollsCount DEF TypeOK
      <3>2. cli' = [cli EXCEPT ![c].pc = "wait", ![c].polls = n]
        BY <2>2, <3>1
      <3> HIDE DEF n
      <3>3. /\ cli' \in [Clients -> Cmd] /\ Moved(c, cli[c].pc, "wait")
            /\ \A d \in Clients \ {c} : cli'[d] = cli[d]
        BY <3>1, <3>2, PollsMoves
      <3>4. LookMove(c)
        BY <1>1, <1>9, <3>3 DEF WaitLook, At, LookMove
      <3> QED BY <1>2, <3>3, <3>4
    <2> QED BY <1>9, <2>1, <2>2 DEF WaitLook
  <1>10. CASE SecondLook(c)
    <2>1. CASE Goto(c, "release")
      BY <1>1, <1>2, <1>10, <2>1, GotoMoves DEF SecondLook, At, LookMove
    <2>2. CASE Goto(c, "pick port") /\ FALSE \in Running(cli[c].rec)
      BY <1>1, <1>2, <1>10, <2>2, GotoMoves DEF SecondLook, At, LookMove
    <2>3. Running(cli[c].rec) \subseteq BOOLEAN
      BY DEF Running
    <2> QED BY <1>10, <2>1, <2>2, <2>3 DEF SecondLook
  <1>11. CASE PickPort(c)
    <2>1. CASE Goto(c, "release")
      <3>1. /\ cli' \in [Clients -> Cmd] /\ Moved(c, cli[c].pc, "release")
            /\ \A d \in Clients \ {c} : cli'[d] = cli[d]
        BY <2>1, GotoMoves
      <3>2. LookMove(c)
        BY <1>1, <1>11, <3>1 DEF PickPort, At, LookMove
      <3> QED BY <1>2, <3>1, <3>2
    <2>2. ASSUME NEW p \in {p \in Ports : PortFree(p)},
                 \A q \in {q \in Ports : PortFree(q)} : p =< q,
                 cli' = [cli EXCEPT ![c].pc = "spawn", ![c].port = p]
          PROVE  Commanded(c)
      <3> DEFINE x == [cli[c] EXCEPT !.pc = "spawn", !.port = p]
      <3>1. cli \in [Clients -> Cmd] /\ cli[c] \in Cmd
        BY DEF TypeOK
      <3>2. cli' = [cli EXCEPT ![c] = x]
        BY <2>2, <3>1
      <3>3. x \in Cmd
        BY Zenon, <2>2, <3>1 DEF Cmd
      <3>4. x.pc = "spawn" /\ x.port = p
        BY Zenon, <3>1, CmdFields
      <3> HIDE DEF x
      <3>5. cli' \in [Clients -> Cmd] /\ cli'[c] = x /\ \A d \in Clients \ {c} : cli'[d] = cli[d]
        BY <3>2, <3>3, LocalsSet
      <3>6. PortFree(DefaultPort) => p = DefaultPort
        BY <2>2, PortsAssumption DEF Ports
      <3>7. LookMove(c)
        BY <1>1, <1>11, <3>4, <3>5, <3>6 DEF LookMove, PickPort, At
      <3> QED BY <1>2, <3>5, <3>7
    <2> QED BY <1>11, <2>1, <2>2 DEF PickPort
  <1>12. CASE StopCheck(c)
    <2>1. CASE Return(c)
      BY <1>3, <1>12, <2>1 DEF StopCheck, At
    <2>2. CASE Goto(c, "terminate") /\ TRUE \in Mine(cli[c].rec)
      BY <1>1, <1>2, <1>12, <2>2, GotoMoves DEF StopCheck, At, LookMove
    <2>3. CASE Goto(c, "stop drop") /\ FALSE \in Mine(cli[c].rec)
      BY <1>1, <1>2, <1>12, <2>3, GotoMoves DEF StopCheck, At, LookMove
    <2>4. Mine(cli[c].rec) \subseteq BOOLEAN
      BY MineAnswers
    <2> QED BY <1>12, <2>1, <2>2, <2>3, <2>4 DEF StopCheck
  <1>13. CASE StopWait(c)
    <2>1. CASE Return(c)
      BY <1>3, <1>13, <2>1 DEF StopWait, At
    <2>2. CASE Goto(c, "stop drop") /\ ~Alive(cli[c].rec.pid)
      BY <1>1, <1>2, <1>13, <2>2, GotoMoves DEF StopWait, At, LookMove
    <2>3. CASE cli' = [cli EXCEPT ![c].polls = @ + 1]
      BY <1>1, <1>2, <1>13, <2>3, CountMoves DEF StopWait, At, LookMove
    <2> QED BY <1>13, <2>1, <2>2, <2>3 DEF StopWait
  <1>14. CASE Crash(c)
    BY <1>3, <1>14 DEF Crash
  <1> QED BY <1>4, <1>5, <1>6, <1>7, <1>8, <1>9, <1>10, <1>11, <1>12, <1>13, <1>14

LEMMA WritingMoves ==
    ASSUME TypeOK, NEW c \in Clients,
           \/ ClearRecord(c) \/ RemoveStaleLock(c) \/ OpenLock(c) \/ Spawn(c) \/ WriteRecord(c)
           \/ AwaitReady(c) \/ DropRecord(c) \/ Release(c) \/ Terminate(c) \/ StopDrop(c)
    PROVE  Commanded(c)
  <1> USE DEF Holding, Labels
  <1>1. site' = site
    BY DEF ClearRecord, RemoveStaleLock, OpenLock, Spawn, WriteRecord, AwaitReady, DropRecord,
           Release, Terminate, StopDrop
  <1>2. ASSUME cli' \in [Clients -> Cmd], \A d \in Clients \ {c} : cli'[d] = cli[d],
               LookMove(c) \/ WriteMove(c)
        PROVE  Commanded(c)
    BY <1>1, <1>2 DEF Commanded, CommandMove
  <1>3. ASSUME NEW to \in Labels, Goto(c, to), Moved(c, cli[c].pc, to) => LookMove(c) \/ WriteMove(c)
        PROVE  Commanded(c)
    <2>1. /\ cli' \in [Clients -> Cmd] /\ Moved(c, cli[c].pc, to)
          /\ \A d \in Clients \ {c} : cli'[d] = cli[d]
      BY <1>3, GotoMoves
    <2> QED BY <1>2, <1>3, <2>1
  <1>4. ASSUME Return(c), cli'[c] = Idle => LookMove(c) \/ WriteMove(c)
        PROVE  Commanded(c)
    BY <1>2, <1>4, ReturnMoves
  <1>5. ASSUME NEW to \in Labels, Restart(c, to), Moved(c, cli[c].pc, to) => LookMove(c) \/ WriteMove(c)
        PROVE  Commanded(c)
    <2>1. cli' = [cli EXCEPT ![c].pc = to, ![c].polls = 0]
      BY <1>5 DEF Restart
    <2>2. /\ cli' \in [Clients -> Cmd] /\ Moved(c, cli[c].pc, to)
          /\ \A d \in Clients \ {c} : cli'[d] = cli[d]
      BY <2>1, PollsMoves
    <2> QED BY <1>2, <1>5, <2>2
  <1>6. CASE ClearRecord(c)
    BY <1>3, <1>6 DEF ClearRecord, At, WriteMove
  <1>7. CASE RemoveStaleLock(c)
    BY <1>3, <1>7 DEF RemoveStaleLock, At, WriteMove
  <1>8. CASE OpenLock(c)
    <2>1. CASE lock = None /\ lock' = [owner |-> c, stale |-> FALSE] /\ Goto(c, "recheck")
      BY <1>3, <1>8, <2>1 DEF OpenLock, At, WriteMove
    <2>2. CASE lock # None /\ lock' = lock /\ Restart(c, "wait")
      BY <1>5, <1>8, <2>2 DEF OpenLock, At, LookMove, files
    <2> QED BY <1>8, <2>1, <2>2 DEF OpenLock
  <1>9. CASE Spawn(c)
    <2>1. CASE Goto(c, "release") /\ UNCHANGED procs
      BY <1>3, <1>9, <2>1 DEF Spawn, At, LookMove, files
    <2>2. ASSUME NEW p \in site.pids, procs[p].state = "unborn",
                 procs' = [procs EXCEPT ![p] = [state |-> "starting", port |-> cli[c].port]],
                 cli' = [cli EXCEPT ![c].pc = "write", ![c].pid = p, ![c].polls = 0]
          PROVE  Commanded(c)
      <3> DEFINE x == [cli[c] EXCEPT !.pc = "write", !.pid = p, !.polls = 0]
      <3>1. cli \in [Clients -> Cmd] /\ cli[c] \in Cmd /\ p \in Pids
        BY SitesAssumption DEF TypeOK, SiteType
      <3>2. cli' = [cli EXCEPT ![c] = x]
        BY <2>2, <3>1
      <3>3. x \in Cmd
        BY Zenon, <3>1 DEF Cmd
      <3>4. x.pc = "write" /\ x.pid = p /\ x.port = cli[c].port
        BY Zenon, <3>1, CmdFields
      <3> HIDE DEF x
      <3>5. cli' \in [Clients -> Cmd] /\ cli'[c] = x /\ \A d \in Clients \ {c} : cli'[d] = cli[d]
        BY <3>2, <3>3, LocalsSet
      <3>6. /\ cli[c].pc = "spawn" /\ cli'[c].pc = "write" /\ cli'[c].port = cli[c].port
            /\ cli'[c].pid = p /\ UNCHANGED <<record, lock, signalled>>
        BY <1>9, <3>4, <3>5 DEF Spawn, At
      <3>7. WriteMove(c)
        BY <2>2, <3>1, <3>6 DEF WriteMove
      <3> QED BY <1>2, <3>5, <3>7
    <2> QED BY <1>9, <2>1, <2>2 DEF Spawn
  <1>10. CASE WriteRecord(c)
    <2>1. CASE record' = NewRecord(c) /\ Goto(c, "probe") /\ UNCHANGED signalled
      BY <1>3, <1>10, <2>1 DEF WriteRecord, At, WriteMove
    <2>2. CASE /\ signalled' = signalled \cup {cli[c].pid}
               /\ record' \in {record, NewRecord(c)} /\ Goto(c, "release")
      BY <1>3, <1>10, <2>2 DEF WriteRecord, At, WriteMove
    <2> QED BY <1>10, <2>1, <2>2 DEF WriteRecord
  <1>11. CASE AwaitReady(c)
    <2>1. cli[c].pc = "probe" /\ UNCHANGED <<lock, procs>>
      BY <1>11 DEF AwaitReady, At
    <2>2. CASE /\ TRUE \in Probe(cli[c].port)
               /\ record' \in {record, NewRecord(c)}
               /\ Goto(c, "release") /\ UNCHANGED signalled
      <3>1. Moved(c, cli[c].pc, "release") => WriteMove(c)
        BY <2>1, <2>2 DEF WriteMove
      <3> QED BY <1>3, <2>2, <3>1
    <2>3. CASE ~Serves(cli[c].pid) /\ Goto(c, "drop") /\ UNCHANGED <<record, signalled>>
      <3>1. Moved(c, cli[c].pc, "drop") => LookMove(c)
        BY <1>1, <2>1, <2>3 DEF LookMove, files
      <3> QED BY <1>3, <2>3, <3>1
    <2>4. CASE /\ signalled' = signalled \cup {cli[c].pid}
               /\ Goto(c, "drop") /\ UNCHANGED record
      <3>1. Moved(c, cli[c].pc, "drop") => WriteMove(c)
        BY <2>1, <2>4 DEF WriteMove
      <3> QED BY <1>3, <2>4, <3>1
    <2>5. CASE cli' = [cli EXCEPT ![c].polls = @ + 1] /\ UNCHANGED <<record, signalled>>
      <3>1. /\ cli' \in [Clients -> Cmd] /\ Moved(c, cli[c].pc, cli[c].pc)
            /\ \A d \in Clients \ {c} : cli'[d] = cli[d]
        BY <2>5, CountMoves
      <3>2. LookMove(c)
        BY <1>1, <2>1, <2>5, <3>1 DEF LookMove, files
      <3> QED BY <1>2, <3>1, <3>2
    <2>6. Probe(cli[c].port) \subseteq BOOLEAN
      BY DEF Probe, Answers, Listening
    <2> QED BY <1>11, <2>2, <2>3, <2>4, <2>5, <2>6 DEF AwaitReady
  <1>12. CASE DropRecord(c)
    BY <1>3, <1>12 DEF DropRecord, At, WriteMove
  <1>13. CASE Release(c)
    BY <1>4, <1>13 DEF Release, At, WriteMove
  <1>14. CASE Terminate(c)
    <2>1. CASE signalled' = signalled \cup {cli[c].rec.pid} /\ Restart(c, "stop wait")
      BY <1>5, <1>14, <2>1 DEF Terminate, At, WriteMove
    <2>2. CASE Return(c) /\ UNCHANGED signalled
      BY <1>4, <1>14, <2>2 DEF Terminate, At, LookMove, files
    <2> QED BY <1>14, <2>1, <2>2 DEF Terminate
  <1>15. CASE StopDrop(c)
    BY <1>4, <1>15 DEF StopDrop, At, WriteMove
  <1> QED BY <1>6, <1>7, <1>8, <1>9, <1>10, <1>11, <1>12, <1>13, <1>14, <1>15

\* Every step is one of these.
LEMMA EveryStepMoves ==
    ASSUME TypeOK, [Next]_vars
    PROVE  \/ UNCHANGED vars
           \/ \E c \in Clients : Commanded(c)
           \/ \E p \in Pids : ProcessMove(p)
           \/ \E p \in AllPids : Reuse(p)
           \/ LockAges
  <1>1. ASSUME NEW p \in Pids, Bind(p)
        PROVE  ProcessMove(p)
    <2> DEFINE s == IF PortFree(procs[p].port) THEN "listening" ELSE "dead"
    <2>1. s \in {"listening", "dead"} /\ procs' = [procs EXCEPT ![p].state = s]
      BY <1>1 DEF Bind
    <2>2. /\ UNCHANGED <<site, record, lock, signalled, cli>> /\ Serves(p)
          /\ procs[p].state = "starting" /\ p \notin signalled
      BY <1>1 DEF Bind, Serves
    <2> HIDE DEF s
    <2> QED BY <2>1, <2>2 DEF ProcessMove
  <1>2. ASSUME NEW p \in Pids, Exit(p)
        PROVE  ProcessMove(p)
    BY <1>2 DEF Exit, ProcessMove
  <1>3. ASSUME NEW c \in Clients, Begin(c) \/ Work(c) \/ Crash(c)
        PROVE  Commanded(c)
    BY <1>3, LookingMoves, WritingMoves DEF Work
  <1> QED BY <1>1, <1>2, <1>3 DEF Next
-----------------------------------------------------------------------------
(* Types and strangers *)

\* A process that is spawned was not one before; one that moves by itself ends up
\* listening, which it may only if nobody told it to go, or dead.
LEMMA ProcessTable ==
    ASSUME TypeOK, NEW p \in Pids, ProcessMove(p)
    PROVE  /\ procs' \in [AllPids -> Proc] /\ Serves(p)
           /\ \A q \in AllPids \ {p} : procs'[q] = procs[q]
           /\ procs'[p].port = procs[p].port /\ procs'[p].state \in {"listening", "dead"}
           /\ procs'[p].state = "listening" => procs[p].state = "starting" /\ p \notin signalled
  <1>1. procs \in [AllPids -> Proc] /\ p \in AllPids /\ procs[p] \in Proc
    BY DEF TypeOK, AllPids
  <1>2. PICK s \in {"listening", "dead"} :
          /\ procs' = [procs EXCEPT ![p].state = s]
          /\ s = "listening" => procs[p].state = "starting" /\ p \notin signalled
    BY DEF ProcessMove
  <1> QED BY <1>1, <1>2 DEF ProcessMove, Proc, States

\* A pid that is given away was a dead process's.
LEMMA ReuseTable ==
    ASSUME TypeOK, NEW p \in AllPids, Reuse(p)
    PROVE  /\ procs' \in [AllPids -> Proc] /\ procs[p].state = "dead"
           /\ \A q \in AllPids \ {p} : procs'[q] = procs[q]
           /\ procs'[p].port = procs[p].port /\ procs'[p].state = "foreign"
           /\ signalled' = signalled \ {p} /\ UNCHANGED <<site, record, lock, cli>>
  <1>1. procs \in [AllPids -> Proc] /\ procs[p] \in Proc
    BY DEF TypeOK
  <1>2. procs' = [procs EXCEPT ![p].state = "foreign"]
    BY DEF Reuse
  <1>3. /\ procs[p].state = "dead"
        /\ signalled' = signalled \ {p} /\ UNCHANGED <<site, record, lock, cli>>
    BY DEF Reuse
  <1> QED BY <1>1, <1>2, <1>3 DEF Proc, States

LEMMA SpawnTable ==
    ASSUME TypeOK, NEW p \in Pids, NEW n \in Ports,
           procs' = [procs EXCEPT ![p] = [state |-> "starting", port |-> n]]
    PROVE  /\ procs' \in [AllPids -> Proc] /\ procs'[p].state = "starting" /\ procs'[p].port = n
           /\ \A q \in AllPids \ {p} : procs'[q] = procs[q]
  BY DEF TypeOK, AllPids, Proc, States

LEMMA TypeStep ==
    ASSUME TypeOK, Strangers, [Next]_vars
    PROVE  TypeOK'
  <1>1. /\ site \in Sites /\ record \in {None} \cup Recs /\ lock \in {None} \cup Locks
        /\ procs \in [AllPids -> Proc] /\ signalled \subseteq AllPids /\ cli \in [Clients -> Cmd]
    BY DEF TypeOK
  <1>2. ASSUME NEW c \in Clients, Commanded(c)
        PROVE  TypeOK'
    <2>1. cli' \in [Clients -> Cmd] /\ site' = site /\ (LookMove(c) \/ WriteMove(c))
          /\ cli[c] \in Cmd
      BY <1>1, <1>2 DEF Commanded, CommandMove
    <2>2. CASE LookMove(c)
      BY <1>1, <2>1, <2>2 DEF LookMove, files, TypeOK
    <2>3. CASE WriteMove(c)
      <3>1. cli[c].port \in Ports /\ (cli[c].pc \in {"write", "probe"} => cli[c].pid \in Pids)
            /\ (cli[c].pc = "terminate" => cli[c].rec.pid \in AllPids)
        BY <2>1, CmdFields DEF Strangers, Minds, Recs
      <3>2. record' \in {None} \cup Recs
        <4>1. \/ record' = record \/ record' = None
              \/ cli[c].pc \in {"write", "probe"} /\ record' = [pid |-> cli[c].pid, port |-> cli[c].port]
          BY <2>3 DEF WriteMove, Moved, NewRecord
        <4>2. cli[c].pid \in Pids => [pid |-> cli[c].pid, port |-> cli[c].port] \in Recs
          BY <3>1 DEF Recs, AllPids
        <4> QED BY <1>1, <3>1, <4>1, <4>2
      <3>3. lock' \in {None} \cup Locks
        <4>1. lock' = lock \/ lock' = None \/ lock' = [owner |-> c, stale |-> FALSE]
          BY <2>3 DEF WriteMove
        <4>2. [owner |-> c, stale |-> FALSE] \in Locks
          BY DEF Locks
        <4> QED BY <1>1, <4>1, <4>2
      <3>4. procs' \in [AllPids -> Proc]
        <4>1. ASSUME NEW p \in Pids,
                     procs' = [procs EXCEPT ![p] = [state |-> "starting", port |-> cli[c].port]]
              PROVE  procs' \in [AllPids -> Proc]
          BY <3>1, <4>1, SpawnTable
        <4> QED BY <1>1, <2>3, <4>1 DEF WriteMove
      <3>5. signalled' \subseteq AllPids
        BY <1>1, <2>3, <3>1 DEF WriteMove, Moved, AllPids
      <3> QED BY <1>1, <2>1, <3>2, <3>3, <3>4, <3>5 DEF TypeOK
    <2> QED BY <2>1, <2>2, <2>3
  <1>3. ASSUME NEW p \in Pids, ProcessMove(p)
        PROVE  TypeOK'
    <2>1. procs' \in [AllPids -> Proc]
      BY <1>3, ProcessTable
    <2> QED BY <1>1, <1>3, <2>1 DEF TypeOK, ProcessMove
  <1>4. CASE LockAges
    <2>1. lock \in Locks /\ lock' = [lock EXCEPT !.stale = TRUE]
      BY <1>1, <1>4 DEF LockAges
    <2>2. lock' \in Locks
      BY <2>1 DEF Locks
    <2> QED BY <1>1, <1>4, <2>2 DEF TypeOK, LockAges
  <1>5. CASE UNCHANGED vars
    BY <1>1, <1>5 DEF TypeOK, vars
  <1>6. ASSUME NEW p \in AllPids, Reuse(p)
        PROVE  TypeOK'
    BY <1>1, <1>6, ReuseTable DEF TypeOK
  <1> QED BY <1>2, <1>3, <1>4, <1>5, <1>6, EveryStepMoves

LEMMA StrangersStep ==
    ASSUME TypeOK, Strangers, [Next]_vars
    PROVE  Strangers'
  <1>1. /\ procs \in [AllPids -> Proc] /\ signalled \subseteq AllPids /\ cli \in [Clients -> Cmd]
        /\ OldPid \notin Pids /\ AllPids = Pids \cup {OldPid} /\ record \in {None} \cup Recs
    BY PortsAssumption DEF TypeOK, AllPids
  <1>2. /\ procs[OldPid].state \in {"dead", "foreign"}
        /\ site.ownership # "probe" => \A p \in signalled : procs[p].state # "foreign"
        /\ \A c \in Clients : Minds(c)
    BY DEF Strangers, ForeignNeverSignalled
  <1>3. CASE UNCHANGED <<site, procs, signalled, cli>>
    BY <1>2, <1>3 DEF Strangers, Minds, ForeignNeverSignalled
  <1>4. ASSUME NEW p \in AllPids, Reuse(p)
        PROVE  Strangers'
    <2>1. /\ procs'[p].state = "foreign" /\ \A q \in AllPids \ {p} : procs'[q] = procs[q]
          /\ signalled' = signalled \ {p} /\ UNCHANGED <<site, cli>>
      BY <1>4, ReuseTable
    <2>2. procs'[OldPid].state \in {"dead", "foreign"}
      BY <1>1, <1>2, <2>1
    <2>3. ForeignNeverSignalled'
      BY <1>1, <1>2, <2>1 DEF ForeignNeverSignalled
    <2>4. ASSUME NEW c \in Clients
          PROVE  Minds(c)'
      <3>1. /\ cli[c].pc = "terminate" => cli[c].rec.pid # p
            /\ cli[c].pc \in {"write", "probe"} => cli[c].pid # p
        BY <1>4 DEF Reuse, At
      <3>2. Minds(c) /\ cli'[c] = cli[c]
        BY <1>2, <2>1
      <3>3. \A r \in Recs : r.pid \in AllPids
        BY DEF Recs
      <3> QED BY <1>1, <2>1, <3>1, <3>2, <3>3 DEF Minds
    <2> QED BY <2>2, <2>3, <2>4 DEF Strangers
  <1>5. ASSUME NEW p \in Pids, ProcessMove(p)
        PROVE  Strangers'
    <2>1. /\ procs'[p].state # "foreign" /\ \A q \in AllPids \ {p} : procs'[q] = procs[q]
          /\ UNCHANGED <<site, signalled, cli>>
      BY <1>5, ProcessTable DEF ProcessMove
    <2>2. procs'[OldPid].state \in {"dead", "foreign"}
      BY <1>1, <1>2, <2>1
    <2>3. ForeignNeverSignalled'
      BY <1>1, <1>2, <2>1 DEF ForeignNeverSignalled
    <2>4. ASSUME NEW c \in Clients
          PROVE  Minds(c)'
      <3>1. Minds(c) /\ cli'[c] = cli[c]
        BY <1>2, <2>1
      <3>2. \A r \in Recs : r.pid \in AllPids
        BY DEF Recs
      <3> QED BY <1>1, <2>1, <3>1, <3>2 DEF Minds
    <2> QED BY <2>2, <2>3, <2>4 DEF Strangers
  <1>6. ASSUME NEW c \in Clients, Commanded(c)
        PROVE  Strangers'
    <2>1. /\ site' = site /\ \A d \in Clients \ {c} : cli'[d] = cli[d]
          /\ LookMove(c) \/ WriteMove(c)
      BY <1>6 DEF Commanded, CommandMove
    <2>2. \A p \in AllPids : /\ procs[p].state # "foreign" => procs'[p].state # "foreign"
                             /\ p \notin Pids => procs'[p] = procs[p]
      <3>1. ASSUME NEW q \in Pids, procs' = [procs EXCEPT ![q] = [state |-> "starting", port |-> cli[c].port]]
            PROVE  \A p \in AllPids : /\ procs[p].state # "foreign" => procs'[p].state # "foreign"
                                      /\ p \notin Pids => procs'[p] = procs[p]
        <4>1. cli[c].port \in Ports
          BY <1>1, CmdFields
        <4> QED BY <1>1, <3>1, <4>1, SpawnTable
      <3> QED BY <2>1, <3>1 DEF LookMove, WriteMove, files
    <2>3. procs'[OldPid].state \in {"dead", "foreign"}
      BY <1>1, <1>2, <2>2
    <2>4. ASSUME NEW d \in Clients, d # c
          PROVE  Minds(d)'
      <3>1. Minds(d) /\ cli'[d] = cli[d]
        BY <1>2, <2>1, <2>4
      <3>2. \A r \in Recs : r.pid \in AllPids
        BY DEF Recs
      <3> QED BY <1>1, <2>1, <2>2, <3>1, <3>2 DEF Minds
    <2>5. CASE LookMove(c)
      <3>1. cli[c].rec \in {None} \cup Recs
        BY <1>1, CmdFields
      <3>2. \A l \in {"status", "own", "wait", "recheck", "stop"} :
               AfterRead[l] \in {"first look", "owned", "wait look", "second look", "stop check"}
        <4>1. /\ AfterRead["status"] = "first look" /\ AfterRead["own"] = "owned"
              /\ AfterRead["wait"] = "wait look" /\ AfterRead["recheck"] = "second look"
              /\ AfterRead["stop"] = "stop check"
          BY DEF AfterRead
        <4> QED BY <4>1
      <3>3. procs' = procs /\ signalled' = signalled
        BY <2>5 DEF LookMove, files
      <3>4. TRUE \in Mine(cli[c].rec) =>
              cli[c].rec \in Recs /\ (site.ownership # "probe" => procs[cli[c].rec.pid].state # "foreign")
        <4>1. site.ownership \in {"exact", "failing", "probe"}
          BY SitesAssumption DEF TypeOK, SiteType
        <4>2. \A q, n : TRUE \in Owns(q, n) => site.ownership = "probe" \/ Serves(q)
          BY <4>1 DEF Owns
        <4> QED BY <3>1, <4>2 DEF Mine, Serves
      <3>5. cli'[c].pc = "terminate" => TRUE \in Mine(cli[c].rec) /\ cli'[c].rec = cli[c].rec
        BY <2>5, <3>2, IdleCmd DEF LookMove, Moved
      <3>6. cli'[c].pc = "stop wait" => cli[c].pc = "stop wait" /\ cli'[c].rec = cli[c].rec
        BY <2>5, <3>2, IdleCmd DEF LookMove, Moved
      <3>7. cli'[c].pc \in {"write", "probe"} => cli[c].pc = "probe" /\ cli'[c].pid = cli[c].pid
        BY <2>5, <3>2, IdleCmd DEF LookMove, Moved
      <3>8. Minds(c)'
        BY <1>2, <2>1, <3>3, <3>4, <3>5, <3>6, <3>7 DEF Minds
      <3>9. ForeignNeverSignalled'
        BY <1>2, <2>1, <3>3 DEF ForeignNeverSignalled
      <3> QED BY <2>3, <2>4, <3>8, <3>9 DEF Strangers
    <2>6. CASE WriteMove(c)
      <3>1. cli'[c].pc # "terminate"
        BY <2>6, IdleCmd DEF WriteMove, Moved
      <3>2. cli'[c].pc = "stop wait" => cli[c].pc = "terminate" /\ cli'[c].rec = cli[c].rec
        BY <2>6, IdleCmd DEF WriteMove, Moved
      <3>3. cli'[c].pc \in {"write", "probe"} => cli'[c].pid \in Pids /\ procs'[cli'[c].pid].state # "foreign"
        <4>1. CASE cli[c].pc = "write"
          <5>1. cli'[c].pc \in {"write", "probe"} => cli'[c].pid = cli[c].pid
            BY <2>6, <4>1, IdleCmd DEF WriteMove, Moved
          <5> QED BY <1>1, <1>2, <2>2, <4>1, <5>1 DEF Minds
        <4>2. CASE cli[c].pc # "write"
          <5> SUFFICES ASSUME cli'[c].pc \in {"write", "probe"}
                       PROVE  cli'[c].pid \in Pids /\ procs'[cli'[c].pid].state # "foreign"
            OBVIOUS
          <5>1. PICK p \in Pids :
                  /\ cli'[c].pid = p
                  /\ procs' = [procs EXCEPT ![p] = [state |-> "starting", port |-> cli[c].port]]
            BY <2>6, <4>2, IdleCmd DEF WriteMove, Moved
          <5>2. cli[c].port \in Ports
            BY <1>1, CmdFields
          <5> QED BY <5>1, <5>2, SpawnTable
        <4> QED BY <4>1, <4>2
      <3>4. Minds(c)'
        BY <1>2, <3>1, <3>2, <3>3 DEF Minds
      <3>5. ForeignNeverSignalled'
        <4> SUFFICES ASSUME site.ownership # "probe", NEW p \in signalled'
                     PROVE  procs'[p].state # "foreign"
          BY <2>1 DEF ForeignNeverSignalled
        <4>1. \/ p \in signalled
              \/ cli[c].pc \in {"write", "probe"} /\ p = cli[c].pid
              \/ cli[c].pc = "terminate" /\ p = cli[c].rec.pid
          BY <2>6 DEF WriteMove, Moved
        <4>2. \A r \in Recs : r.pid \in AllPids
          BY DEF Recs
        <4>3. p \in AllPids /\ procs[p].state # "foreign"
          BY <1>1, <1>2, <4>1, <4>2 DEF Minds
        <4> QED BY <2>2, <4>3
      <3> QED BY <2>3, <2>4, <3>4, <3>5 DEF Strangers
    <2> QED BY <2>1, <2>5, <2>6
  <1> QED BY <1>3, <1>4, <1>5, <1>6, EveryStepMoves DEF LockAges, vars


\* Where reading the record leads to.
LEMMA ReadLabels ==
    /\ AfterRead["status"] = "first look" /\ AfterRead["own"] = "owned"
    /\ AfterRead["wait"] = "wait look" /\ AfterRead["recheck"] = "second look"
    /\ AfterRead["stop"] = "stop check"
  BY DEF AfterRead
-----------------------------------------------------------------------------
(* The lock *)

\* Without kills a command comes to hold the lock by creating it and gives it up by
\* removing it, and does neither otherwise.
LEMMA HoldingMoves ==
    ASSUME ~site.crashes, NEW c \in Clients, LookMove(c) \/ WriteMove(c), cli[c].pc # "unlock stale"
    PROVE  /\ \/ lock' = lock /\ (cli'[c].pc \in Holding <=> cli[c].pc \in Holding)
              \/ lock = None /\ lock' = [owner |-> c, stale |-> FALSE] /\ cli'[c].pc \in Holding
              \/ cli[c].pc = "release" /\ lock' = None /\ cli'[c].pc \notin Holding
           /\ cli'[c].pc = "unlock stale" => lock # None /\ lock.stale
  <1>1. CASE LookMove(c)
    <2>1. lock' = lock
      BY <1>1 DEF LookMove, files
    <2>2. cli'[c].pc \in Holding <=> cli[c].pc \in Holding
      BY <1>1, ReadLabels, IdleCmd DEF LookMove, Moved, Holding
    <2>3. cli'[c].pc = "unlock stale" => lock # None /\ lock.stale
      BY <1>1, ReadLabels, IdleCmd DEF LookMove, Moved
    <2> QED BY <2>1, <2>2, <2>3
  <1>2. CASE WriteMove(c)
    BY <1>2, IdleCmd DEF WriteMove, Moved, Holding
  <1> QED BY <1>1, <1>2

LEMMA LockedStep ==
    ASSUME TypeOK, Locked, [Next]_vars
    PROVE  Locked'
  <1>1. site' = site
    BY EveryStepMoves DEF Commanded, CommandMove, ProcessMove, Reuse, LockAges, vars
  <1> SUFFICES ASSUME ~site.crashes
               PROVE  /\ lock' # None => ~lock'.stale /\ cli'[lock'.owner].pc \in Holding
                      /\ \A c \in Clients : /\ cli'[c].pc \in Holding => lock' # None /\ lock'.owner = c
                                            /\ cli'[c].pc # "unlock stale"
    BY <1>1 DEF Locked
  <1>2. /\ lock # None => ~lock.stale /\ lock.owner \in Clients /\ cli[lock.owner].pc \in Holding
        /\ \A c \in Clients : /\ cli[c].pc \in Holding => lock # None /\ lock.owner = c
                              /\ cli[c].pc # "unlock stale"
    BY DEF Locked, TypeOK, Locks
  <1>3. CASE UNCHANGED <<lock, cli>>
    BY <1>2, <1>3
  <1>4. ASSUME NEW c \in Clients, Commanded(c)
        PROVE  /\ lock' # None => ~lock'.stale /\ cli'[lock'.owner].pc \in Holding
               /\ \A d \in Clients : /\ cli'[d].pc \in Holding => lock' # None /\ lock'.owner = d
                                     /\ cli'[d].pc # "unlock stale"
    <2>1. \A d \in Clients \ {c} : cli'[d] = cli[d]
      BY <1>4 DEF Commanded, CommandMove
    <2>2. /\ \/ lock' = lock /\ (cli'[c].pc \in Holding <=> cli[c].pc \in Holding)
             \/ lock = None /\ lock' = [owner |-> c, stale |-> FALSE] /\ cli'[c].pc \in Holding
             \/ cli[c].pc = "release" /\ lock' = None /\ cli'[c].pc \notin Holding
          /\ cli'[c].pc = "unlock stale" => lock # None /\ lock.stale
      BY <1>2, <1>4, HoldingMoves DEF Commanded, CommandMove
    <2>3. "release" \in Holding
      BY DEF Holding
    <2>4. CASE lock' = lock /\ (cli'[c].pc \in Holding <=> cli[c].pc \in Holding)
      BY <1>2, <2>1, <2>2, <2>4
    <2>5. CASE lock = None /\ lock' = [owner |-> c, stale |-> FALSE] /\ cli'[c].pc \in Holding
      <3>1. lock' # None /\ lock'.owner = c /\ ~lock'.stale
        <4>1. [owner |-> c, stale |-> FALSE] \in Locks /\ None \notin Locks
          BY NoneAssumption DEF Locks
        <4> QED BY <2>5, <4>1
      <3> QED BY <1>2, <2>1, <2>2, <2>5, <3>1
    <2>6. CASE cli[c].pc = "release" /\ lock' = None /\ cli'[c].pc \notin Holding
      BY <1>2, <2>1, <2>2, <2>3, <2>6
    <2> QED BY <2>2, <2>4, <2>5, <2>6
  <1>5. ~LockAges
    <2>1. "idle" \notin Holding
      BY DEF Holding
    <2> QED BY <1>2, <2>1 DEF LockAges, At
  <1> QED BY <1>3, <1>4, <1>5, EveryStepMoves DEF ProcessMove, Reuse, vars
-----------------------------------------------------------------------------
(* The servers *)

\* The step that starts a process.
Spawned(c, p) ==
    /\ cli[c].pc = "spawn" /\ cli'[c].pc = "write" /\ cli'[c].port = cli[c].port /\ cli'[c].pid = p
    /\ procs' = [procs EXCEPT ![p] = [state |-> "starting", port |-> cli[c].port]]
    /\ UNCHANGED <<record, lock, signalled>>

\* Every other step of a command leaves the processes alone.
StillMove(c) ==
    /\ procs' = procs /\ signalled \subseteq signalled'
    /\ cli[c].pc = "idle" => site.overlap \/ \A d \in Clients : At(d, "idle")
    /\ cli'[c].pc = "pick port" => cli[c].pc = "second look" /\ FALSE \in Running(cli[c].rec)
    /\ cli'[c].pc = "spawn" => cli[c].pc = "pick port" /\ (PortFree(DefaultPort) => cli'[c].port = DefaultPort)
    /\ cli'[c].pc \in {"write", "probe"} =>
          /\ cli[c].pc \in {"write", "probe"} /\ cli'[c].pid = cli[c].pid /\ cli'[c].port = cli[c].port
    /\ cli[c].pc \in {"write", "probe"} =>
          \/ cli'[c].pc \in {"write", "probe"} /\ cli'[c].pid = cli[c].pid
          \/ cli[c].pid \in signalled' \/ ~Serves(cli[c].pid) \/ TRUE \in Probe(cli[c].port)
    /\ cli'[c].pc \in Cleared =>
          \/ cli[c].pc \in Cleared
          \/ cli[c].pc \in {"owned", "stop check"} /\ FALSE \in Mine(cli[c].rec)
          \/ cli[c].pc = "stop wait" /\ ~Alive(cli[c].rec.pid)
          \/ cli[c].pc = "probe" /\ (~Serves(cli[c].pid) \/ cli[c].pid \in signalled')
    /\ \/ record' = record
       \/ record' = None /\ cli[c].pc \in Cleared
       \/ cli[c].pc \in {"write", "probe"} /\ record' = [pid |-> cli[c].pid, port |-> cli[c].port]
    /\ cli[c].pc = "write" =>
          record' = [pid |-> cli[c].pid, port |-> cli[c].port] \/ cli[c].pid \in signalled'
    /\ cli'[c].pc \in Informed =>
          /\ record' = record
          /\ cli'[c].rec = record \/ (cli[c].pc \in Informed /\ cli'[c].rec = cli[c].rec)

LEMMA LookingStill ==
    ASSUME ~site.crashes, NEW c \in Clients, LookMove(c)
    PROVE  StillMove(c)
  <1> USE LookMove(c), ReadLabels, IdleCmd
  <1>1. UNCHANGED files
    BY DEF LookMove
  <1>2. cli[c].pc = "idle" => site.overlap \/ \A d \in Clients : At(d, "idle")
    BY DEF LookMove, Moved
  <1>3. cli'[c].pc = "pick port" => cli[c].pc = "second look" /\ FALSE \in Running(cli[c].rec)
    BY DEF LookMove, Moved
  <1>4. cli'[c].pc = "spawn" => cli[c].pc = "pick port" /\ (PortFree(DefaultPort) => cli'[c].port = DefaultPort)
    BY DEF LookMove, Moved
  <1>5. cli'[c].pc \in {"write", "probe"} =>
          /\ cli[c].pc \in {"write", "probe"} /\ cli'[c].pid = cli[c].pid /\ cli'[c].port = cli[c].port
    BY DEF LookMove, Moved
  <1>6. cli[c].pc \in {"write", "probe"} =>
          \/ cli'[c].pc \in {"write", "probe"} /\ cli'[c].pid = cli[c].pid
          \/ ~Serves(cli[c].pid)
    BY DEF LookMove, Moved
  <1>7. cli'[c].pc \in Cleared =>
          \/ cli[c].pc \in Cleared
          \/ cli[c].pc \in {"owned", "stop check"} /\ FALSE \in Mine(cli[c].rec)
          \/ cli[c].pc = "stop wait" /\ ~Alive(cli[c].rec.pid)
          \/ cli[c].pc = "probe" /\ (~Serves(cli[c].pid) \/ cli[c].pid \in signalled')
    BY DEF LookMove, Moved, Cleared
  <1>8. cli[c].pc # "write"
    BY DEF LookMove, Moved
  <1>9. cli'[c].pc \in Informed =>
          cli'[c].rec = record \/ (cli[c].pc \in Informed /\ cli'[c].rec = cli[c].rec)
    BY DEF LookMove, Moved, Informed
  <1>10. UNCHANGED <<procs, signalled, record>>
    BY <1>1 DEF files
  <1> QED BY <1>2, <1>3, <1>4, <1>5, <1>6, <1>7, <1>8, <1>9, <1>10 DEF StillMove

LEMMA WritingStill ==
    ASSUME ~site.crashes, NEW c \in Clients, WriteMove(c)
    PROVE  StillMove(c) \/ \E p \in Pids : procs[p].state = "unborn" /\ Spawned(c, p)
  <1> SUFFICES ASSUME ~ \E p \in Pids : procs[p].state = "unborn" /\ Spawned(c, p)
               PROVE  StillMove(c)
    OBVIOUS
  <1> USE IdleCmd
  <1>1. ~(/\ cli[c].pc = "spawn" /\ cli'[c].pc = "write" /\ cli'[c].port = cli[c].port
          /\ \E p \in Pids : /\ procs[p].state = "unborn" /\ cli'[c].pid = p
                             /\ procs' = [procs EXCEPT ![p] = [state |-> "starting", port |-> cli[c].port]]
          /\ UNCHANGED <<record, lock, signalled>>)
    BY DEF Spawned
  <1>2. procs' = procs /\ signalled \subseteq signalled'
    BY <1>1 DEF WriteMove
  <1>3. /\ cli[c].pc \in {"clear", "drop", "stop drop", "unlock stale", "open lock", "release", "write",
                          "probe", "terminate"}
        /\ cli'[c].pc \in {"stat lock", "idle", "open lock", "recheck", "probe", "release", "drop", "stop wait"}
    BY <1>1 DEF WriteMove, Moved
  <1>4. /\ cli'[c].pc = "probe" => cli[c].pc = "write" /\ cli'[c].pid = cli[c].pid /\ cli'[c].port = cli[c].port
        /\ cli'[c].pc = "stop wait" => cli[c].pc = "terminate" /\ cli'[c].rec = cli[c].rec /\ record' = record
        /\ cli'[c].pc \in {"stat lock", "open lock", "recheck"} => cli[c].pc \in {"clear", "unlock stale", "open lock"}
        /\ cli'[c].pc = "drop" => cli[c].pc = "probe" /\ cli[c].pid \in signalled'
    BY <1>1 DEF WriteMove, Moved
  <1>5. cli[c].pc \in {"write", "probe"} =>
          \/ cli'[c].pc = "probe" \/ cli[c].pid \in signalled' \/ TRUE \in Probe(cli[c].port)
    BY <1>1 DEF WriteMove, Moved
  <1>6. /\ \/ record' = record
           \/ record' = None /\ cli[c].pc \in {"clear", "drop", "stop drop"}
           \/ cli[c].pc \in {"write", "probe"} /\ record' = [pid |-> cli[c].pid, port |-> cli[c].port]
        /\ cli[c].pc = "write" =>
             record' = [pid |-> cli[c].pid, port |-> cli[c].port] \/ cli[c].pid \in signalled'
    BY <1>1 DEF WriteMove, Moved, NewRecord
  <1> QED BY <1>2, <1>3, <1>4, <1>5, <1>6 DEF StillMove, Cleared, Informed

\* No server is made or moved, one that starts may come to listen, and one may end.
KeepsOurs ==
    /\ Ours' \subseteq Ours /\ UNCHANGED <<site, record, cli>>
    /\ \A q \in AllPids : /\ procs'[q].port = procs[q].port
                          /\ procs'[q].state = "listening" => procs[q].state = "listening" \/ q \in Ours
                          /\ procs'[q].state = "starting" => procs[q].state = "starting"
                          /\ Serves(q)' => Serves(q)

\* A process's own step is such a one, and so is giving its pid away.
LEMMA ProcessKeepsOurs ==
    ASSUME TypeOK, NEW p \in Pids, ProcessMove(p)
    PROVE  KeepsOurs
  <1>1. /\ procs' \in [AllPids -> Proc] /\ Serves(p)
        /\ \A q \in AllPids \ {p} : procs'[q] = procs[q]
        /\ procs'[p].port = procs[p].port /\ procs'[p].state \in {"listening", "dead"}
        /\ procs'[p].state = "listening" => procs[p].state = "starting" /\ p \notin signalled
    BY ProcessTable
  <1>2. UNCHANGED <<site, record, signalled, cli>> /\ Pids \subseteq AllPids
    BY DEF ProcessMove, AllPids
  <1> QED BY <1>1, <1>2 DEF KeepsOurs, Ours, Serves

LEMMA ReuseKeepsOurs ==
    ASSUME TypeOK, NEW p \in AllPids, Reuse(p)
    PROVE  KeepsOurs
  <1>1. /\ \A q \in AllPids \ {p} : procs'[q] = procs[q]
        /\ procs'[p].port = procs[p].port /\ procs'[p].state = "foreign"
        /\ signalled' = signalled \ {p} /\ UNCHANGED <<site, record, cli>>
    BY ReuseTable
  <1>2. Pids \subseteq AllPids
    BY DEF AllPids
  <1> QED BY <1>1, <1>2 DEF KeepsOurs, Ours, Serves

\* Every step, for the invariants about servers.
LEMMA ServerMoves ==
    ASSUME TypeOK, Locked, [Next]_vars, ~site.crashes
    PROVE  \/ UNCHANGED <<site, record, procs, signalled, cli>>
           \/ KeepsOurs
           \/ \E c \in Clients :
                 /\ site' = site /\ \A d \in Clients \ {c} : cli'[d] = cli[d]
                 /\ StillMove(c) \/ \E p \in Pids : procs[p].state = "unborn" /\ Spawned(c, p)
  <1>1. ASSUME NEW c \in Clients, Commanded(c)
        PROVE  /\ site' = site /\ \A d \in Clients \ {c} : cli'[d] = cli[d]
               /\ StillMove(c) \/ \E p \in Pids : procs[p].state = "unborn" /\ Spawned(c, p)
    BY <1>1, LookingStill, WritingStill DEF Commanded, CommandMove
  <1> QED BY <1>1, ProcessKeepsOurs, ReuseKeepsOurs, EveryStepMoves DEF LockAges, vars

LEMMA SpawnedOurs ==
    ASSUME TypeOK, NEW c \in Clients, NEW p \in Pids, Spawned(c, p)
    PROVE  /\ Ours' \subseteq Ours \cup {p} /\ UNCHANGED <<record, signalled>>
           /\ procs'[p].state = "starting" /\ procs'[p].port = cli[c].port
           /\ \A q \in AllPids \ {p} : procs'[q] = procs[q]
  <1>1. cli[c].port \in Ports
    BY CmdFields DEF TypeOK
  <1>2. /\ procs'[p].state = "starting" /\ procs'[p].port = cli[c].port
        /\ \A q \in AllPids \ {p} : procs'[q] = procs[q]
    BY <1>1, SpawnTable DEF Spawned
  <1> QED BY <1>2 DEF Ours, Serves, Spawned, AllPids


\* With prompt servers a look that finds none is right: nobody listens.
LEMMA LooksAreRight ==
    ASSUME ~site.slow
    PROVE  /\ \A rec : FALSE \in Running(rec) => ~Listening(DefaultPort)
           /\ \A n : TRUE \in Probe(n) => Listening(n)
  BY DEF Running, Probe, Answers

LEMMA FoundStep ==
    ASSUME TypeOK, Strangers, Locked, Found, [Next]_vars
    PROVE  Found'
  <1>1. site' = site
    BY EveryStepMoves DEF Commanded, CommandMove, ProcessMove, Reuse, LockAges, vars
  <1> SUFFICES ASSUME ~site.crashes, ~site.slow, DefaultPort \notin site.foreign
               PROVE  FoundHere'
    BY <1>1 DEF Found
  <1>2. FoundHere
    BY DEF Found
  <1>3. \A c, d \in Clients : cli[c].pc \in Holding /\ cli[d].pc \in Holding => c = d
    BY DEF Locked
  <1>4. /\ \A p \in AllPids : procs[p].state = "listening" => p \in Pids
        /\ Ours \subseteq Pids /\ Pids \subseteq AllPids
    BY DEF Strangers, Ours, AllPids
  <1>5. CASE UNCHANGED <<site, record, procs, signalled, cli>>
    BY <1>2, <1>5 DEF FoundHere, Ours, Serves, Listening
  <1>6. CASE KeepsOurs
    <2>1. /\ Ours' \subseteq Ours /\ cli' = cli
          /\ \A q \in AllPids : /\ procs'[q].port = procs[q].port
                                /\ procs'[q].state = "listening" => procs[q].state = "listening" \/ q \in Ours
                                /\ procs'[q].state = "starting" => procs[q].state = "starting"
                                /\ Serves(q)' => Serves(q)
      BY <1>6 DEF KeepsOurs
    <2>2. Listening(DefaultPort)' => Listening(DefaultPort) \/ Ours # {}
      BY <2>1 DEF Listening
    <2> QED BY <1>2, <1>4, <2>1, <2>2 DEF FoundHere
  <1>7. ASSUME NEW c \in Clients, \A d \in Clients \ {c} : cli'[d] = cli[d], NEW p \in Pids, Spawned(c, p)
        PROVE  FoundHere'
    <2>1. /\ Ours' \subseteq Ours \cup {p}
          /\ procs'[p].state = "starting" /\ procs'[p].port = cli[c].port
          /\ \A q \in AllPids \ {p} : procs'[q] = procs[q]
      BY <1>7, SpawnedOurs
    <2>2. cli[c].pc = "spawn" /\ cli'[c].pc = "write" /\ cli'[c].port = cli[c].port /\ cli'[c].pid = p
      BY <1>7 DEF Spawned
    <2>3. cli[c].port = DefaultPort /\ Ours = {} /\ ~Listening(DefaultPort)
      BY <1>2, <2>2 DEF FoundHere
    <2>4. \A d \in Clients \ {c} : cli'[d].pc \notin {"pick port", "spawn", "write", "probe"}
      BY <1>3, <1>7, <2>2 DEF Holding
    <2>5. \A q \in AllPids : procs[q].state # "listening"
      BY <1>2, <1>4, <2>3 DEF FoundHere, Listening, Serves
    <2>6. \A q \in AllPids : procs'[q].state = "listening" \/ q \in Ours' => q = p
      BY <2>1, <2>3, <2>5
    <2>7. \A q \in Pids : Serves(q)' => procs'[q].port = DefaultPort
      BY <1>2, <1>4, <2>1, <2>3 DEF FoundHere, Serves
    <2> QED BY <1>4, <2>1, <2>2, <2>3, <2>4, <2>6, <2>7 DEF FoundHere
  <1>8. ASSUME NEW c \in Clients, \A d \in Clients \ {c} : cli'[d] = cli[d], StillMove(c)
        PROVE  FoundHere'
    <2>1. procs' = procs /\ signalled \subseteq signalled' /\ site' = site
      BY <1>1, <1>8 DEF StillMove
    <2>2. /\ Ours' \subseteq Ours /\ (Listening(DefaultPort)' <=> Listening(DefaultPort))
          /\ \A p \in Pids : Serves(p)' <=> Serves(p)
          /\ \A p \in Ours' : p \notin signalled'
      BY <2>1 DEF Ours, Serves, Listening
    <2>3. \A p \in Ours' : procs'[p].state = "starting" =>
             \E d \in Clients : cli'[d].pc \in {"write", "probe"} /\ cli'[d].pid = p
      <3> SUFFICES ASSUME NEW p \in Ours', procs[p].state = "starting"
                   PROVE  \E d \in Clients : cli'[d].pc \in {"write", "probe"} /\ cli'[d].pid = p
        BY <2>1
      <3>1. PICK d \in Clients : cli[d].pc \in {"write", "probe"} /\ cli[d].pid = p
        BY <1>2, <2>2 DEF FoundHere
      <3>2. CASE d # c
        BY <1>8, <3>1, <3>2
      <3>3. CASE d = c
        <4>1. cli[c].pid \notin signalled' /\ Serves(cli[c].pid)
          BY <2>2, <3>1, <3>3 DEF Serves
        <4>2. TRUE \notin Probe(cli[c].port)
          <5>1. cli[c].port = DefaultPort /\ \A q \in AllPids : procs[q].state = "listening" => q = p
            BY <1>2, <3>1, <3>3 DEF FoundHere
          <5>2. ~Listening(DefaultPort)
            BY <5>1 DEF Listening
          <5> QED BY <5>1, <5>2, LooksAreRight
        <4>3. cli'[c].pc \in {"write", "probe"} /\ cli'[c].pid = cli[c].pid
          BY <1>8, <3>1, <3>3, <4>1, <4>2 DEF StillMove
        <4> QED BY <3>1, <3>3, <4>3
      <3> QED BY <3>2, <3>3
    <2>4. cli'[c].pc = "pick port" => Ours = {} /\ ~Listening(DefaultPort)
      <3> SUFFICES ASSUME cli'[c].pc = "pick port"
                   PROVE  Ours = {} /\ ~Listening(DefaultPort)
        OBVIOUS
      <3>1. cli[c].pc = "second look" /\ ~Listening(DefaultPort)
        BY <1>8, LooksAreRight DEF StillMove
      <3>2. ASSUME NEW p \in Ours
            PROVE  FALSE
        <4>1. procs[p].state # "listening"
          <5>1. p \in Pids /\ p \in AllPids
            BY <1>4
          <5>2. Serves(p) => procs[p].port = DefaultPort
            BY <1>2, <5>1 DEF FoundHere
          <5> QED BY <3>1, <5>1, <5>2 DEF Listening, Serves
        <4>2. procs[p].state = "starting"
          BY <4>1 DEF Ours, Serves
        <4>3. PICK d \in Clients : cli[d].pc \in {"write", "probe"}
          BY <1>2, <4>2 DEF FoundHere
        <4> QED BY <1>3, <3>1, <4>3 DEF Holding
      <3> QED BY <3>1, <3>2
    <2>5. cli'[c].pc = "spawn" => Ours = {} /\ ~Listening(DefaultPort) /\ cli'[c].port = DefaultPort
      <3>1. cli'[c].pc = "spawn" => cli[c].pc = "pick port" /\ (PortFree(DefaultPort) => cli'[c].port = DefaultPort)
        BY <1>8 DEF StillMove
      <3>2. ~Listening(DefaultPort) => PortFree(DefaultPort)
        BY DEF PortFree
      <3> QED BY <1>2, <3>1, <3>2 DEF FoundHere
    <2>6. cli'[c].pc \in {"write", "probe"} =>
             /\ cli'[c].port = DefaultPort
             /\ \A p \in AllPids : procs[p].state = "listening" \/ p \in Ours => p = cli'[c].pid
      <3>1. cli'[c].pc \in {"write", "probe"} =>
              /\ cli[c].pc \in {"write", "probe"} /\ cli'[c].pid = cli[c].pid /\ cli'[c].port = cli[c].port
        BY <1>8 DEF StillMove
      <3> QED BY <1>2, <3>1 DEF FoundHere
    <2>7. \A d \in Clients :
            /\ cli'[d].pc = "spawn" => cli'[d].port = DefaultPort
            /\ cli'[d].pc \in {"pick port", "spawn"} => Ours' = {} /\ ~Listening(DefaultPort)'
            /\ cli'[d].pc \in {"write", "probe"} =>
                  /\ cli'[d].port = DefaultPort
                  /\ \A p \in AllPids : procs'[p].state = "listening" \/ p \in Ours' => p = cli'[d].pid
      <3> SUFFICES ASSUME NEW d \in Clients
                   PROVE  /\ cli'[d].pc = "spawn" => cli'[d].port = DefaultPort
                          /\ cli'[d].pc \in {"pick port", "spawn"} => Ours = {} /\ ~Listening(DefaultPort)
                          /\ cli'[d].pc \in {"write", "probe"} =>
                                /\ cli'[d].port = DefaultPort
                                /\ \A p \in AllPids : procs[p].state = "listening" \/ p \in Ours => p = cli'[d].pid
        BY <2>1, <2>2
      <3>1. CASE d = c
        BY <2>4, <2>5, <2>6, <3>1
      <3>2. CASE d # c
        <4>1. cli'[d] = cli[d]
          BY <1>8, <3>2
        <4> QED BY <1>2, <4>1 DEF FoundHere
      <3> QED BY <3>1, <3>2
    <2>8. \A p \in Pids : Serves(p)' => procs'[p].port = DefaultPort
      BY <1>2, <2>1, <2>2 DEF FoundHere
    <2>9. \A p, q \in Ours' : p = q
      BY <1>2, <2>2 DEF FoundHere
    <2> QED BY <2>3, <2>7, <2>8, <2>9 DEF FoundHere
  <1> QED BY <1>5, <1>6, <1>7, <1>8, ServerMoves


LEMMA AloneStep ==
    ASSUME TypeOK, Strangers, Locked, Alone, [Next]_vars
    PROVE  Alone'
  <1>1. site' = site
    BY EveryStepMoves DEF Commanded, CommandMove, ProcessMove, Reuse, LockAges, vars
  <1> SUFFICES ASSUME ~site.crashes, ~site.overlap, site.ownership = "exact"
               PROVE  AloneHere'
    BY <1>1 DEF Alone
  <1>2. AloneHere
    BY DEF Alone
  <1>3. Ours \subseteq Pids /\ Pids \subseteq AllPids
    BY DEF Ours, AllPids
  <1>4. CASE UNCHANGED <<site, record, procs, signalled, cli>>
    BY <1>2, <1>4 DEF AloneHere, Ours, Serves, Recorded
  <1>5. CASE KeepsOurs
    <2>1. /\ Ours' \subseteq Ours /\ cli' = cli /\ record' = record
          /\ \A q \in AllPids : procs'[q].port = procs[q].port
      BY <1>5 DEF KeepsOurs
    <2>2. \A q \in AllPids : Recorded(q) => Recorded(q)'
      BY <2>1 DEF Recorded
    <2>3. \A c \in Clients : cli[c].pc \in {"write", "probe"} => cli[c].pid \in AllPids
      BY <1>3 DEF Strangers, Minds
    <2> QED BY <1>2, <1>3, <2>1, <2>2, <2>3 DEF AloneHere
  <1>6. ASSUME NEW c \in Clients, \A d \in Clients \ {c} : cli'[d] = cli[d], NEW p \in Pids, Spawned(c, p)
        PROVE  AloneHere'
    <2>1. /\ Ours' \subseteq Ours \cup {p}
          /\ procs'[p].state = "starting" /\ procs'[p].port = cli[c].port
      BY <1>6, SpawnedOurs
    <2>2. cli[c].pc = "spawn" /\ cli'[c].pc = "write" /\ cli'[c].port = cli[c].port /\ cli'[c].pid = p
      BY <1>6 DEF Spawned
    <2>3. Ours = {} /\ \A d \in Clients \ {c} : cli'[d].pc = "idle"
      BY <1>2, <1>6, <2>2 DEF AloneHere, Cleared
    <2>4. /\ "write" \notin Cleared /\ "idle" \notin Cleared /\ "write" \notin Informed /\ "idle" \notin Informed
      BY DEF Cleared, Informed
    <2> QED BY <2>1, <2>2, <2>3, <2>4 DEF AloneHere
  <1>7. ASSUME NEW c \in Clients, \A d \in Clients \ {c} : cli'[d] = cli[d], StillMove(c)
        PROVE  AloneHere'
    <2>1. procs' = procs /\ signalled \subseteq signalled'
      BY <1>7 DEF StillMove
    <2>2. /\ Ours' \subseteq Ours /\ \A p \in Ours : Serves(p) /\ Alive(p)
          /\ \A p \in Ours' : p \notin signalled'
      BY <2>1 DEF Ours, Serves, Alive
    <2>3. \A d \in Clients \ {c} : cli[d].pc = "idle" /\ cli'[d].pc = "idle"
      <3>1. cli[c].pc = "idle" => \A d \in Clients : cli[d].pc = "idle"
        BY <1>7 DEF StillMove, At
      <3> QED BY <1>2, <1>7, <3>1 DEF AloneHere
    <2>4. \A p \in Ours : Recorded(p) \/ (cli[c].pc = "write" /\ cli[c].pid = p)
      BY <1>2, <2>3 DEF AloneHere
    <2>5. /\ cli[c].pc \in Cleared => Ours = {}
          /\ cli[c].pc \in {"write", "probe"} =>
                Ours \subseteq {cli[c].pid} /\ procs[cli[c].pid].port = cli[c].port
          /\ cli[c].pc \in Informed => cli[c].rec = record
      BY <1>2 DEF AloneHere
    <2>6. \A p \in Ours' : Recorded(p)' \/ (cli'[c].pc = "write" /\ cli'[c].pid = p)
      <3> SUFFICES ASSUME NEW p \in Ours'
                   PROVE  Recorded(p)'
        OBVIOUS
      <3>1. p \in Ours /\ p \notin signalled'
        BY <2>2
      <3>2. ASSUME cli[c].pc \in {"write", "probe"}, record' = [pid |-> cli[c].pid, port |-> cli[c].port]
            PROVE  Recorded(p)'
        <4>1. p = cli[c].pid /\ procs[p].port = cli[c].port /\ cli[c].pid \in Pids /\ cli[c].port \in Ports
          BY <2>5, <3>1, <3>2, CmdFields DEF Strangers, Minds, TypeOK
        <4>2. [pid |-> cli[c].pid, port |-> cli[c].port] \in Recs /\ None \notin Recs
          BY <4>1, NoneAssumption DEF Recs, AllPids, Ports
        <4>3. record' # None /\ record'.pid = p /\ record'.port = procs[p].port
          BY <3>2, <4>1, <4>2
        <4> QED BY <2>1, <4>3 DEF Recorded
      <3>3. CASE cli[c].pc = "write"
        <4>1. record' = [pid |-> cli[c].pid, port |-> cli[c].port] \/ cli[c].pid \in signalled'
          BY <1>7, <3>3 DEF StillMove
        <4>2. p = cli[c].pid
          BY <2>5, <3>1, <3>3
        <4> QED BY <3>1, <3>2, <3>3, <4>1, <4>2
      <3>4. CASE cli[c].pc # "write"
        <4>1. Recorded(p)
          BY <2>4, <3>1, <3>4
        <4>2. CASE record' = record
          BY <2>1, <4>1, <4>2 DEF Recorded
        <4>3. CASE record' = None /\ cli[c].pc \in Cleared
          BY <2>5, <3>1, <4>3
        <4> QED BY <1>7, <3>2, <4>2, <4>3 DEF StillMove
      <3> QED BY <3>3, <3>4
    <2>7. cli'[c].pc \in Cleared => Ours' = {}
      <3> SUFFICES ASSUME cli'[c].pc \in Cleared, NEW p \in Ours'
                   PROVE  FALSE
        OBVIOUS
      <3>1. p \in Ours /\ p \notin signalled' /\ Serves(p) /\ Alive(p)
        BY <2>2
      <3>2. /\ {"owned", "stop check", "stop wait"} \subseteq Informed
            /\ \A l \in Informed : l # "write"
        BY DEF Informed
      <3>3. CASE cli[c].pc \in {"owned", "stop check", "stop wait"}
        <4>1. Recorded(p) /\ cli[c].rec = record
          BY <2>4, <2>5, <3>1, <3>2, <3>3
        <4>2. Mine(cli[c].rec) = {TRUE} /\ Alive(cli[c].rec.pid)
          BY <3>1, <4>1 DEF Recorded, Mine, Owns
        <4>3. "owned" \notin Cleared /\ "stop check" \notin Cleared /\ "stop wait" \notin Cleared
          BY DEF Cleared
        <4> QED BY <1>7, <3>3, <4>2, <4>3 DEF StillMove
      <3>4. CASE cli[c].pc = "probe" /\ (~Serves(cli[c].pid) \/ cli[c].pid \in signalled')
        BY <2>5, <3>1, <3>4
      <3>5. CASE cli[c].pc \in Cleared
        BY <2>5, <3>1, <3>5
      <3> QED BY <1>7, <3>3, <3>4, <3>5 DEF StillMove
    <2>8. cli'[c].pc \in {"write", "probe"} =>
             Ours' \subseteq {cli'[c].pid} /\ procs'[cli'[c].pid].port = cli'[c].port
      <3>1. cli'[c].pc \in {"write", "probe"} =>
              /\ cli[c].pc \in {"write", "probe"} /\ cli'[c].pid = cli[c].pid /\ cli'[c].port = cli[c].port
        BY <1>7 DEF StillMove
      <3> QED BY <2>1, <2>2, <2>5, <3>1
    <2>9. cli'[c].pc \in Informed => cli'[c].rec = record'
      <3>1. cli'[c].pc \in Informed =>
              /\ record' = record
              /\ cli'[c].rec = record \/ (cli[c].pc \in Informed /\ cli'[c].rec = cli[c].rec)
        BY <1>7 DEF StillMove
      <3> QED BY <2>5, <3>1
    <2>10. "idle" \notin Cleared /\ "idle" \notin Informed
      BY DEF Cleared, Informed
    <2> QED BY <2>3, <2>6, <2>7, <2>8, <2>9, <2>10 DEF AloneHere
  <1> QED BY <1>4, <1>5, <1>6, <1>7, ServerMoves
-----------------------------------------------------------------------------
(* The theorems *)

\* What holds of every reachable state.
DaemonInv == TypeOK /\ Strangers /\ Locked /\ Found /\ Alone

LEMMA DaemonStart == Init => DaemonInv
  <1> SUFFICES ASSUME Init
               PROVE  DaemonInv
    OBVIOUS
  <1>1. /\ site \in Sites /\ lock = None /\ signalled = {} /\ cli \in [Clients -> Cmd]
        /\ \A c \in Clients : cli[c].pc = "idle" /\ cli[c] = Idle
    BY IdleCmd DEF Init
  <1>2. /\ procs \in [AllPids -> Proc]
        /\ \A p \in Pids : procs[p].state = "unborn"
        /\ procs[OldPid].state \in {"dead", "foreign"}
    <2>1. DefaultPort \in Ports /\ OldPid \notin Pids
      BY PortsAssumption DEF Ports
    <2>2. PICK old \in {"dead", "foreign"} :
            procs = [p \in AllPids |-> [state |-> IF p = OldPid THEN old ELSE "unborn",
                                        port |-> DefaultPort]]
      BY DEF Init
    <2>3. \A p \in AllPids : procs[p] = [state |-> IF p = OldPid THEN old ELSE "unborn",
                                         port |-> DefaultPort]
      BY <2>2
    <2>4. \A p \in AllPids : procs[p] \in Proc
      <3>1. \A s \in States : [state |-> s, port |-> DefaultPort] \in Proc
        BY <2>1 DEF Proc
      <3>2. \A p \in AllPids : (IF p = OldPid THEN old ELSE "unborn") \in States
        BY <2>2 DEF States
      <3> QED BY <2>3, <3>1, <3>2
    <2> QED BY <2>1, <2>2, <2>3, <2>4 DEF AllPids
  <1>3. record \in {None} \cup Recs
    <2>1. [pid |-> OldPid, port |-> DefaultPort] \in Recs
      BY PortsAssumption DEF Recs, AllPids, Ports
    <2> QED BY <2>1 DEF Init
  <1>4. TypeOK
    BY <1>1, <1>2, <1>3 DEF TypeOK
  <1>5. Ours = {}
    BY <1>2 DEF Ours, Serves
  <1>6. Strangers
    BY <1>1, <1>2 DEF Strangers, Minds, ForeignNeverSignalled
  <1>7. "idle" \notin Holding /\ "idle" \notin Cleared /\ "idle" \notin Informed
    BY DEF Holding, Cleared, Informed
  <1>8. Locked
    BY <1>1, <1>7 DEF Locked
  <1>9. Found
    BY <1>1, <1>2, <1>5 DEF Found, FoundHere, Serves
  <1>10. Alone
    BY <1>1, <1>5, <1>7 DEF Alone, AloneHere
  <1> QED BY <1>4, <1>6, <1>8, <1>9, <1>10 DEF DaemonInv

LEMMA DaemonStep == DaemonInv /\ [Next]_vars => DaemonInv'
  BY TypeStep, StrangersStep, LockedStep, FoundStep, AloneStep DEF DaemonInv

\* The invariant holds in every reachable state of any number of commands: who holds
\* daemon.lock, what a command that acts on daemon.json knows of it, and where the
\* server is while commands overlap.
THEOREM DaemonInvariant == Spec => []DaemonInv
  BY DaemonStart, DaemonStep, PTL DEF Spec

\* Where ownership is read from the command line, also by a ps that may fail, Stop and
\* Start send SIGTERM to servers only, never to the process that got the pid of a
\* recorded one.
THEOREM OnlyServersSignalled == Spec => []ForeignNeverSignalled
  <1>1. DaemonInv => ForeignNeverSignalled
    BY DEF DaemonInv, Strangers
  <1> QED BY <1>1, DaemonInvariant, PTL

\* Without kills daemon.lock excludes: no two of any number of starters are between
\* its creation and its removal.
THEOREM LockExcludes == Spec => []LockExclusive
  <1>1. DaemonInv => LockExclusive
    BY DEF DaemonInv, Locked, LockExclusive
  <1> QED BY <1>1, DaemonInvariant, PTL

\* Without kills there is at most one server that nobody told to go: one command
\* after the other whatever the ports and however slow the servers, where ps works;
\* commands at the same time, and whatever ps or the build's check says, when servers
\* answer in time and the default port is theirs.
THEOREM NeverASecondServer == Spec => []OneServer
  <1>1. ASSUME DaemonInv, ~site.crashes, Findable
        PROVE  \A p, q \in Ours : p = q
    <2>1. CASE ~site.overlap /\ site.ownership = "exact"
      <3>1. AloneHere
        BY <1>1, <2>1 DEF DaemonInv, Alone
      <3> SUFFICES ASSUME NEW p \in Ours, NEW q \in Ours
                   PROVE  p = q
        OBVIOUS
      <3>2. CASE \E c \in Clients : cli[c].pc = "write"
        BY <3>1, <3>2 DEF AloneHere
      <3>3. CASE ~ \E c \in Clients : cli[c].pc = "write"
        BY <3>1, <3>3 DEF AloneHere, Recorded
      <3> QED BY <3>2, <3>3
    <2>2. CASE ~site.slow /\ DefaultPort \notin site.foreign
      BY <1>1, <2>2 DEF DaemonInv, Found, FoundHere
    <2> QED BY <1>1, <2>1, <2>2 DEF Findable
  <1>2. ASSUME \A p, q \in Ours : p = q
        PROVE  Cardinality(Ours) =< 1
    <2>1. CASE Ours = {}
      <3>1. Cardinality({}) = 0
        BY FS_EmptySet
      <3> QED BY <2>1, <3>1
    <2>2. ASSUME NEW p \in Ours
          PROVE  Cardinality(Ours) =< 1
      <3>1. Ours = {p}
        BY <1>2, <2>2
      <3>2. Cardinality({p}) = 1
        BY FS_Singleton
      <3> QED BY <3>1, <3>2
    <2> QED BY <2>1, <2>2
  <1>3. DaemonInv => OneServer
    BY <1>1, <1>2 DEF OneServer
  <1> QED BY <1>3, DaemonInvariant, PTL
=============================================================================
