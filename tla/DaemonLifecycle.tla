-------------------------- MODULE DaemonLifecycle --------------------------
(***************************************************************************)
(* pkg/daemon: CLI commands that start and stop the one background         *)
(* `datatug serve`, with the record daemon.json and the lock daemon.lock   *)
(* as their only shared state.                                             *)
(*                                                                         *)
(* A command is a process: every file or process operation of Start and    *)
(* Stop is a step of its own, and steps of several commands interleave.    *)
(* One look at a pid together with its port is one step.                   *)
(***************************************************************************)
EXTENDS Integers, FiniteSets

CONSTANTS
    Clients,       \* CLI commands, each may start or stop any number of times
    Pids,          \* bound: the processes that can be spawned
    OldPid,        \* the pid a record left from before a reboot names
    DefaultPort, MaxPort,
    MaxPolls,      \* polls before a wait times out
    Sites,         \* the machines to look at: see SiteType
    None

ASSUME PortsAssumption ==
    /\ DefaultPort \in Nat /\ MaxPort \in Nat /\ DefaultPort =< MaxPort
    /\ MaxPolls \in Nat
    /\ Pids \subseteq Nat /\ OldPid \notin Pids

\* What may happen on a machine: commands run at the same time, a command is
\* killed, a live server fails to answer in time, a dead process's pid is given
\* to a stranger.  `foreign`: the ports bound by something that is not a datatug
\* server; `pids` bounds the processes spawned.  `ownership`: ps works on Unix,
\* ps may fail, or the Windows build, which has no ps.
SiteType == [overlap : BOOLEAN, crashes : BOOLEAN, slow : BOOLEAN, reuse : BOOLEAN,
             ownership : {"exact", "failing", "probe"}, foreign : SUBSET (DefaultPort .. MaxPort), pids : SUBSET Pids]

ASSUME SitesAssumption == Sites \subseteq SiteType

ASSUME NoneAssumption ==
    /\ None \notin [pid : Pids \cup {OldPid}, port : DefaultPort .. MaxPort]
    /\ None \notin [owner : Clients, stale : BOOLEAN]

VARIABLES
    site,        \* the machine, one of Sites
    record,      \* daemon.json: None or [pid, port]
    lock,        \* daemon.lock: None or [owner, stale]
    procs,       \* procs[p]: [state, port] of the process p
    signalled,   \* processes that were sent SIGTERM
    cli          \* cli[c]: [pc, rec, pid, port, polls], a command's locals

vars == <<site, record, lock, procs, signalled, cli>>

Ports == DefaultPort .. MaxPort
AllPids == Pids \cup {OldPid}
Idle == [pc |-> "idle", rec |-> None, pid |-> None, port |-> DefaultPort, polls |-> 0]

\* A first use, or a record whose process is gone or whose pid was reused.
Init ==
    /\ site \in Sites
    /\ lock = None /\ signalled = {}
    /\ cli = [c \in Clients |-> Idle]
    /\ \E old \in {"dead", "foreign"} :
          procs = [p \in AllPids |-> [state |-> IF p = OldPid THEN old ELSE "unborn",
                                      port |-> DefaultPort]]
    /\ record \in {None, [pid |-> OldPid, port |-> DefaultPort]}
-----------------------------------------------------------------------------
(* What the operating system answers *)

Alive(p) == procs[p].state \in {"starting", "listening", "foreign"}
Serves(p) == procs[p].state \in {"starting", "listening"}
Listening(port) == \E p \in AllPids : procs[p].state = "listening" /\ procs[p].port = port
PortFree(port) == port \notin site.foreign /\ ~Listening(port)

\* What a connection attempt with a deadline may report.
Answers(up) == IF site.slow THEN {up, FALSE} ELSE {up}
Probe(port) == Answers(Listening(port))

\* Mutant: a reused pid is taken for the daemon.
OwnsAny(p, port) == {TRUE}

\* What processOwns may report: whether the command line of p is a `serve` on port;
\* that it is not, when ps fails; on Windows whether a datatug server answers on
\* port, whoever p is.
Owns(p, port) ==
    LET serves == Serves(p) /\ procs[p].port = port
    IN CASE site.ownership = "exact" -> {serves}
         [] site.ownership = "failing" -> {serves, FALSE}
         [] site.ownership = "probe" -> Probe(port)

\* What the checks of Start and Stop make of a record.
Mine(rec) == IF rec # None /\ Alive(rec.pid) THEN Owns(rec.pid, rec.port) ELSE {FALSE}

\* Status on the record read before: our server by pid and port, or any
\* datatug server on the preferred port.
Running(rec) ==
    {up \in BOOLEAN :
        \E mine \in IF rec # None /\ Alive(rec.pid) THEN Answers(~PortFree(rec.port)) ELSE {FALSE},
           other \in Probe(DefaultPort) : up <=> mine \/ other}
-----------------------------------------------------------------------------
(* Start *)

At(c, label) == cli[c].pc = label
Goto(c, label) == cli' = [cli EXCEPT ![c].pc = label]
Restart(c, label) == cli' = [cli EXCEPT ![c].pc = label, ![c].polls = 0]
Return(c) == cli' = [cli EXCEPT ![c] = Idle]

Begin(c) ==
    /\ At(c, "idle")
    /\ site.overlap \/ \A d \in Clients : At(d, "idle")
    /\ \E label \in {"status", "stop"} : Goto(c, label)
    /\ UNCHANGED <<site, record, lock, procs, signalled>>

\* readRecord, wherever Start, Status, waitRunning and Stop call it.
AfterRead == [status |-> "first look", own |-> "owned", wait |-> "wait look",
              recheck |-> "second look", stop |-> "stop check"]

ReadRecord(c) ==
    /\ cli[c].pc \in DOMAIN AfterRead
    /\ cli' = [cli EXCEPT ![c].rec = record, ![c].pc = AfterRead[@]]
    /\ UNCHANGED <<site, record, lock, procs, signalled>>

FirstLook(c) ==
    /\ At(c, "first look")
    /\ \E up \in Running(cli[c].rec) : IF up THEN Return(c) ELSE Goto(c, "own")
    /\ UNCHANGED <<site, record, lock, procs, signalled>>

\* Mutant: a server that did not answer is given up.
GiveUpSlow(c) ==
    /\ At(c, "owned")
    /\ Goto(c, "clear")
    /\ UNCHANGED <<site, record, lock, procs, signalled>>

\* Our server is alive but did not answer in time: wait for it.
CheckOwned(c) ==
    /\ At(c, "owned")
    /\ \E mine \in Mine(cli[c].rec) : IF mine THEN Restart(c, "wait") ELSE Goto(c, "clear")
    /\ UNCHANGED <<site, record, lock, procs, signalled>>

ClearRecord(c) ==
    /\ At(c, "clear")
    /\ record' = None
    /\ Goto(c, "stat lock")
    /\ UNCHANGED <<site, lock, procs, signalled>>

\* lock: three steps, stat, removal of a stale file, exclusive creation.
StatLock(c) ==
    /\ At(c, "stat lock")
    /\ Goto(c, IF lock # None /\ lock.stale THEN "unlock stale" ELSE "open lock")
    /\ UNCHANGED <<site, record, lock, procs, signalled>>

RemoveStaleLock(c) ==
    /\ At(c, "unlock stale")
    /\ lock' = None
    /\ Goto(c, "open lock")
    /\ UNCHANGED <<site, record, procs, signalled>>

\* Mutant: the lock file is opened without O_EXCL.
OpenLockShared(c) ==
    /\ At(c, "open lock")
    /\ lock' = [owner |-> c, stale |-> FALSE]
    /\ Goto(c, "recheck")
    /\ UNCHANGED <<site, record, procs, signalled>>

OpenLock(c) ==
    /\ At(c, "open lock")
    /\ \/ lock = None /\ lock' = [owner |-> c, stale |-> FALSE] /\ Goto(c, "recheck")
       \/ lock # None /\ lock' = lock /\ Restart(c, "wait")
    /\ UNCHANGED <<site, record, procs, signalled>>

\* Mutant: waitRunning does not count its polls.
WaitForever(c) ==
    /\ At(c, "wait look")
    /\ \E up \in Running(cli[c].rec) : IF up THEN Return(c) ELSE Goto(c, "wait")
    /\ UNCHANGED <<site, record, lock, procs, signalled>>

\* One round of waitRunning.
WaitLook(c) ==
    /\ At(c, "wait look")
    /\ \E up \in Running(cli[c].rec) :
          IF up \/ cli[c].polls >= MaxPolls THEN Return(c)
          ELSE cli' = [cli EXCEPT ![c].pc = "wait", ![c].polls = @ + 1]
    /\ UNCHANGED <<site, record, lock, procs, signalled>>

\* With the lock: look again; a policy set without a principal refuses.
SecondLook(c) ==
    /\ At(c, "second look")
    /\ \E up \in Running(cli[c].rec), refused \in BOOLEAN :
          Goto(c, IF up \/ refused THEN "release" ELSE "pick port")
    /\ UNCHANGED <<site, record, lock, procs, signalled>>

PickPort(c) ==
    /\ At(c, "pick port")
    /\ LET free == {p \in Ports : PortFree(p)}
       IN \/ free = {} /\ Goto(c, "release")
          \/ \E p \in free : /\ \A q \in free : p =< q
                             /\ cli' = [cli EXCEPT ![c].pc = "spawn", ![c].port = p]
    /\ UNCHANGED <<site, record, lock, procs, signalled>>

Spawn(c) ==
    /\ At(c, "spawn")
    /\ \/ Goto(c, "release") /\ UNCHANGED procs
       \/ \E p \in {q \in site.pids : procs[q].state = "unborn"} :
             /\ \A q \in site.pids : procs[q].state = "unborn" => p =< q
             /\ procs' = [procs EXCEPT ![p] = [state |-> "starting", port |-> cli[c].port]]
             /\ cli' = [cli EXCEPT ![c].pc = "write", ![c].pid = p, ![c].polls = 0]
    /\ UNCHANGED <<site, record, lock, signalled>>

\* writeRecord with an error may have replaced daemon.json: daemon.pid comes after it.
NewRecord(c) == [pid |-> cli[c].pid, port |-> cli[c].port]

\* Mutant: a server whose record cannot be written is left running.
WriteRecordOrLeave(c) ==
    /\ At(c, "write")
    /\ \/ record' = NewRecord(c) /\ Goto(c, "probe")
       \/ Goto(c, "release") /\ record' \in {record, NewRecord(c)}
    /\ UNCHANGED <<site, lock, procs, signalled>>

\* The write may fail; the server is then told to go.
WriteRecord(c) ==
    /\ At(c, "write")
    /\ \/ /\ record' = NewRecord(c)
          /\ Goto(c, "probe") /\ UNCHANGED signalled
       \/ /\ signalled' = signalled \cup {cli[c].pid}
          /\ record' \in {record, NewRecord(c)}
          /\ Goto(c, "release")
    /\ UNCHANGED <<site, lock, procs>>

\* One round of the readiness loop: ready (an error of the second writeRecord is
\* ignored), exited, timed out, or once more.
AwaitReady(c) ==
    LET me == cli[c]
    IN /\ At(c, "probe")
       /\ \E up \in Probe(me.port) :
             \/ /\ up
                /\ record' \in {record, NewRecord(c)}
                /\ Goto(c, "release") /\ UNCHANGED signalled
             \/ /\ ~up /\ ~Serves(me.pid)
                /\ Goto(c, "drop") /\ UNCHANGED <<record, signalled>>
             \/ /\ ~up /\ Serves(me.pid) /\ me.polls >= MaxPolls
                /\ signalled' = signalled \cup {me.pid}
                /\ Goto(c, "drop") /\ UNCHANGED record
             \/ /\ ~up /\ Serves(me.pid) /\ me.polls < MaxPolls
                /\ cli' = [cli EXCEPT ![c].polls = @ + 1]
                /\ UNCHANGED <<record, signalled>>
       /\ UNCHANGED <<site, lock, procs>>

DropRecord(c) ==
    /\ At(c, "drop")
    /\ record' = None
    /\ Goto(c, "release")
    /\ UNCHANGED <<site, lock, procs, signalled>>

\* release removes the lock file by its name, whoever created it.
Release(c) ==
    /\ At(c, "release")
    /\ lock' = None
    /\ Return(c)
    /\ UNCHANGED <<site, record, procs, signalled>>
-----------------------------------------------------------------------------
(* Stop *)

StopCheck(c) ==
    /\ At(c, "stop check")
    /\ \E mine \in Mine(cli[c].rec) :
          IF cli[c].rec = None THEN Return(c)
          ELSE Goto(c, IF mine THEN "terminate" ELSE "stop drop")
    /\ UNCHANGED <<site, record, lock, procs, signalled>>

\* SIGTERM to a process that is gone by now is an error, and Stop returns it.
Terminate(c) ==
    LET p == cli[c].rec.pid
    IN /\ At(c, "terminate")
       /\ IF Alive(p)
          THEN signalled' = signalled \cup {p} /\ Restart(c, "stop wait")
          ELSE Return(c) /\ UNCHANGED signalled
       /\ UNCHANGED <<site, record, lock, procs>>

StopWait(c) ==
    /\ At(c, "stop wait")
    /\ IF ~Alive(cli[c].rec.pid) THEN Goto(c, "stop drop")
       ELSE IF cli[c].polls >= MaxPolls THEN Return(c)
       ELSE cli' = [cli EXCEPT ![c].polls = @ + 1]
    /\ UNCHANGED <<site, record, lock, procs, signalled>>

StopDrop(c) ==
    /\ At(c, "stop drop")
    /\ record' = None
    /\ Return(c)
    /\ UNCHANGED <<site, lock, procs, signalled>>
-----------------------------------------------------------------------------
(* Servers, kills and time *)

\* serve binds its port, or exits when somebody else has it.  It has no handler for
\* SIGTERM, so that one told to go before it has bound never does.
Bind(p) ==
    /\ procs[p].state = "starting" /\ p \notin signalled
    /\ procs' = [procs EXCEPT ![p].state = IF PortFree(procs[p].port) THEN "listening" ELSE "dead"]
    /\ UNCHANGED <<site, record, lock, signalled, cli>>

\* The idle timeout, SIGTERM or a failure.
Exit(p) ==
    /\ Serves(p)
    /\ procs' = [procs EXCEPT ![p].state = "dead"]
    /\ UNCHANGED <<site, record, lock, signalled, cli>>

\* The pid of a dead process goes to a stranger, which nobody has signalled yet; not
\* in the moment between a command's look at the process and its signal.
Reuse(p) ==
    /\ site.reuse /\ procs[p].state = "dead"
    /\ \A c \in Clients : /\ At(c, "terminate") => cli[c].rec.pid # p
                          /\ cli[c].pc \in {"write", "probe"} => cli[c].pid # p
    /\ procs' = [procs EXCEPT ![p].state = "foreign"]
    /\ signalled' = signalled \ {p}
    /\ UNCHANGED <<site, record, lock, cli>>

Crash(c) ==
    /\ site.crashes /\ ~At(c, "idle")
    /\ Return(c)
    /\ UNCHANGED <<site, record, lock, procs, signalled>>

\* A lock gets old when its owner is gone: a live one is done in seconds.
LockAges ==
    /\ lock # None /\ ~lock.stale /\ At(lock.owner, "idle")
    /\ lock' = [lock EXCEPT !.stale = TRUE]
    /\ UNCHANGED <<site, record, procs, signalled, cli>>

Work(c) ==
    \/ ReadRecord(c) \/ FirstLook(c) \/ CheckOwned(c) \/ ClearRecord(c)
    \/ StatLock(c) \/ RemoveStaleLock(c) \/ OpenLock(c) \/ WaitLook(c)
    \/ SecondLook(c) \/ PickPort(c) \/ Spawn(c) \/ WriteRecord(c)
    \/ AwaitReady(c) \/ DropRecord(c) \/ Release(c)
    \/ StopCheck(c) \/ Terminate(c) \/ StopWait(c) \/ StopDrop(c)

Next ==
    \/ \E c \in Clients : Begin(c) \/ Work(c) \/ Crash(c)
    \/ \E p \in Pids : Bind(p) \/ Exit(p)
    \/ \E p \in AllPids : Reuse(p)
    \/ LockAges

Spec == Init /\ [][Next]_vars

\* A command that was begun is scheduled by the operating system.
FairSpec == Spec /\ \A c \in Clients : WF_vars(Work(c))
-----------------------------------------------------------------------------
(* Properties *)

\* "any other process is never signalled": whatever a record says, SIGTERM goes
\* to servers only, also when a pid in a record was reused and when ps fails; on
\* Windows nothing tells a reused pid.
ForeignNeverSignalled ==
    site.ownership # "probe" => \A p \in signalled : procs[p].state # "foreign"

\* The servers this CLI started and has not told to go.
Ours == {p \in Pids : Serves(p) /\ p \notin signalled}

\* "never start a second one": there is at most one such server as long as no command
\* is killed and the server can be found: one command after the other by its command
\* line, however slow it is, where ps works; also when commands look, decide and act
\* at the same time, and whatever ps says, if the server is where everybody looks for
\* it and answers in time.
Findable ==
    \/ ~site.overlap /\ site.ownership = "exact"
    \/ ~site.slow /\ DefaultPort \notin site.foreign

OneServer == ~site.crashes /\ Findable => Cardinality(Ours) =< 1

\* Start leaves a running server with a record: a server nobody told to go is
\* named by daemon.json, unless the Start that spawned it is about to write it.
ServersAreRecorded ==
    \A p \in Ours :
        \/ record # None /\ record.pid = p
        \/ \E c \in Clients : At(c, "write") /\ cli[c].pid = p

\* The labels at which Start holds the lock.
Holding == {"recheck", "second look", "pick port", "spawn", "write", "probe", "drop", "release"}

\* "lock takes daemon.lock exclusively": two starters never hold it at once,
\* unless a killed starter left a stale lock for both of them to replace.
LockExclusive ==
    ~site.crashes =>
        \A c, d \in Clients : cli[c].pc \in Holding /\ cli[d].pc \in Holding => c = d

\* Every Start and Stop returns, whatever the servers and other commands do.
CommandsReturn == \A c \in Clients : ~At(c, "idle") ~> At(c, "idle")
=============================================================================
