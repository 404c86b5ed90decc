# A TLA+ verification project for DataTug

`datatug-cli` is a large Go program: a database client, a project server, copy
and compare tools, a chat agent, a *Detective* that keeps Cases about data
incidents, and a *Watch* service that runs read-only Checks on a schedule, on
several machines, and tells people about the results. Most of it is
sequential: parse, decide, call a library, present. What is modelled here is
the part where a mistake needs a rare order of events to show: the Watch
service with its leases, fences, retries and timeouts, the background daemon,
and the journals that carry a change over several files and survive a crash.

## 1. Inventory

### 1.1 The Watch service

| part | source | state | operations | interacts with |
|---|---|---|---|---|
| definitions | `pkg/watch/definitions.go` | `definition`, `observation`, receipt, audit rows | PutDefinition, SetLifecycle, DeleteDefinition, ResetBaseline, Subscribe | cancels runs of the scheduler |
| scheduler | `pkg/watch/scheduler.go`, `retention.go` | `run`, `runner` rows | Reconcile (with prune), RegisterRunner, ClaimDue, Heartbeat, FinishRun | reads definitions, writes observations; ledger and outbox are written in the same transaction |
| event ledger | `pkg/watch/events.go` | `event` rows | recordEvent, reads | written by FinishRun only |
| outbox | `pkg/watch/notifications.go` | delivery, quota, inbox rows | notify, ClaimNotifications, FinishNotification, RetryNotification | filled by FinishRun, drained by coordinators and Telegram runners |
| Telegram | `pkg/watch/telegram.go`, `telegram_provider.go` | the active provider, links, link requests, the poll row | RegisterRunner with a bot, Begin/Complete/DisconnectTelegram, Claim/Renew/Advance/defer of the poll | the poll's fence guards Telegram deliveries |
| Telegram worker | `pkg/watchdaemon/telegram_runner.go` | its poll fence, offset, batch and delivery | a round: renew, drain deliveries, get updates, link, advance | HTTP to the server, Telegram's queue of updates |
| storage | `pkg/watch/storage.go`, `firestore*.go` | SQLite file or Firestore documents | one immediate transaction per method | everything above |
| coordinator | `pkg/watchdaemon/coordinator.go` | none | a tick: Reconcile, deliveries | the store, mail and SMS providers |
| HTTP server | `pkg/watchdaemon/server.go` | none | user and runner requests, error mapping | the store |
| runner | `pkg/watchdaemon/client.go` | its claim, a heartbeat goroutine | register, claim, execute, heartbeat, complete | HTTP to the server |

What is hard: any two calls of any two processes interleave; a call, or its
answer, is lost or late; runners and coordinators stop between two calls; the
wall clock may be stepped; people edit definitions and subscriptions at any
moment; Telegram asks for a pause, keeps updates until they are confirmed, and
hands them out again. What makes it correct: one active run per Watch, one usable claim per
run, results taken once and only under the current lease, evidence that only
changes by accepted results of one source, notifications with an event behind
them, no message to an address or a chat that did not consent, limits and flood
waits kept, and nothing stuck.

### 1.2 The daemon

`pkg/daemon` starts, finds and stops the one background `datatug serve` of a
home directory. Its state is two files, `daemon.json` (with `daemon.pid`) and
`daemon.lock`, and the processes of the machine. CLI commands run concurrently
and may be killed. It is correct when there is at most one server, recorded,
started under the lock, when nothing but that server is ever signalled, and
when every command returns.

### 1.3 The journals

`pkg/detective` keeps Cases, runs and an audit log in files of the project
directory. Every operation with an id (an action, a confirmed AI edit, a run,
an incident) writes a journal file before it touches the Case; every call
first finishes what earlier calls left unfinished. One lock per project
(`pkg/privateadmission`) orders the file writes, but several operations give it
up and take it again in the middle. It is correct when an operation takes
effect and is audited once, however often it is cut short and retried, when no
recovered image takes a later change back, and when what is accepted can be
finished.

`pkg/projectvisibility` archives and restores objects that are hidden in two
places, in the project's metadata and in the store that owns them (a session,
a Case). A journal per operation carries the change over both; the owner and
deletions of other objects go past its lock. It is correct when an
acknowledged restore was visible, when an old retry undoes nothing newer, and
when no accepted operation stays open, because an open one blocks all others.

### 1.4 The rest

`PROJECT.json` lists every other part with the reason it is not modelled;
section 7 says what could be.

## 2. Modules

| module | models | role |
|---|---|---|
| `WatchEvidence` | what the store promises about evidence | abstract specification |
| `WatchScheduler` | definitions, scheduler, ledger, retention | core; refines `WatchEvidence` |
| `WatchOutbox` | outbox, quotas, delivery loop for in_app, email, sms | component |
| `WatchRunner` | runner process, HTTP, coordinator's side of one run | composition of runner and scheduler |
| `TelegramChannel` | providers, links, poll lease, telegram rows, worker | composition of store, worker and Telegram |
| `DaemonLifecycle` | daemon start and stop | component |
| `DetectiveJournal` | journals and reconciliation around one Case | component |
| `ProjectVisibility` | journal and recovery of one object's visibility | component, with the owner of the object |
| `WatchSchedulerProofs`, `WatchSchedulerHistoryProofs` | | theorems about `WatchScheduler`; the second builds on the first |
| `WatchOutboxProofs`, `WatchRunnerProofs`, `TelegramChannelProofs`, `DaemonLifecycleProofs`, `DetectiveJournalProofs`, `ProjectVisibilityProofs` | | theorems about the module of that name |
| `MC...` | | instances for TLC |

Definitions marked *Mutant* in the modules are plausible mistakes in the code;
no specification uses them. Each checked property has one that breaks it.

Several modules have a constant `Sites` and a variable `site` that Init chooses
from it and nothing changes. A site is one deployment (who takes part, which
timers, which bounds), so that one run covers several small instances instead
of one large one; liveness is asked only of the sites whose scheduling allows
it, and the fairness conditions name them.

### 2.1 `WatchScheduler`

A row of a table is a record, a table a function from ids to rows: `defs` and
`obs` per Watch, `runs` by run id, `lastSeen` per runner, `events`. Every store
method runs in one immediate SQLite transaction (`storage.go:146`), so every
method is one atomic action: `CreateDefinition`/`EditDefinition`
(PutDefinition), `SetLifecycle` (and DeleteDefinition), `ResetBaseline`,
`Reconcile` (reconcileDefinition for every Watch, then prune),
`RegisterRunner`, `ClaimDue`, `Heartbeat`, `FinishRun` (with recordEvent and
the decision to notify). `granted` is history: every claim ever handed out. A
runner may use any of them at any later moment, any number of times, which
covers crashed, slow and duplicating runners and reordered requests. `notices`
is history as well: what FinishRun asked `notify` to send.

A run's id is the digest `(watch, version, due)`, so the model uses that
record. `Walk` is the claim loop: it goes through the jobs by due time, closes
the outdated and exhausted ones it meets and takes the first it may take; jobs
due at the same time come in any order. Completions are a small set of
(status, outcome, fingerprint); their digest is the completion itself. Backoff
is a function of the attempts. `StepClockBack` sets the clock to any earlier
instant.

Abstracted: inputs, titles and receipts; validation of malformed requests
(nothing changes); authorisation, except where it depends on state; cloud
admission hooks.

### 2.2 `WatchOutbox`

`outbox` and `quotas` are tables, `subs`, `audience` (who sees the Watch) and
`paid` what consent depends on. `Notify` is the notify call inside FinishRun,
`ClaimNotifications` the whole loop up to the first delivery handed out
(cancelling, failing and rate-limiting those it passes), `Send` the provider
with three outcomes: it accepted and the sender knows, it refused, or it
accepted and the sender reports a failure (`unsure`: the answer to DATA or to
the HTTP request was lost, `email.go:197`, `sms.go:65`), which `deliver` turns
into a retry like any other (`coordinator.go:92`). `FinishNotification` is the
acknowledgement, `Prune` the part of prune about
deliveries and counters. Several senders may be active; a claim that is never
sent or never acknowledged is a coordinator that stopped. A sender may hold
several claims at once, which the loop of one coordinator never does: this
covers a coordinator that was restarted. `Notify` is refused when the backlog
has no room for one round of notifications (`HasRoom`), as the FinishRun around
it is. One account per user; Telegram deliveries are `TelegramChannel`'s.

### 2.3 `WatchRunner`

One run of one Watch, and the processes around it with their timers. All times
are countdowns. A call is issued, served at any moment until the client's
timeout or never, and answered or not (`Serve`, `Deliver`, `Fail`). The runner
follows `Run` and `executeClaim` label by label: registration and its renewal,
the claim, execution with the heartbeat goroutine, the join, up to
`SubmitAttempts` submissions with growing waits. `Settled` says what has to
happen before time may pass: local steps are instantaneous, timers fire on
time. A request is not served after its client has given up, and a suspended
machine is not modelled. `RegistrationAssumption` says that a registration
outlasts one registration interval and two call timeouts, as the defaults do
(90 s against 30 s and twice 15 s). `Crash` is the end of the process at any
moment and its next start. Run also ends by itself when its Telegram worker
stops (`client.go:193`): that cancels the call or the execution at work, and the
inner loop returns at its next round. It is the same step here.

### 2.4 `DaemonLifecycle`

Every file or process operation of Start and Stop is a step; `cli[c].pc` is
the place in the code. `procs` are the operating system's processes; a stranger
may have the pid a stale record names, or get the pid of a server that died
(`Reuse`). A site says whether a live server may fail to answer (`slow`),
whether commands run at the same time (`overlap`), whether they may be killed
(`crashes`), whether pids are reused (`reuse`), which ports are taken by
strangers (`foreign`), and how ownership is checked: `exact` is the Unix build
with a `ps` that works, `failing` the Unix build with a `ps` that may fail, which
`processOwns` takes for "not ours" (`proc_unix.go:25`), and `probe` the Windows
build, which asks whether a datatug server answers on the port, whoever has the
pid (`proc_windows.go:35`). A pid is not reused between a command's look at the
process and its signal (`daemon.go:300-306`; for Start, between the spawn and
the end of its wait): nothing in the code prevents that, it is assumed. A write
of the record that fails may have replaced `daemon.json` already, because
`daemon.pid` is written after it (`daemon.go:132-135`). `LockAges` makes a lock stale only when its owner is gone:
Start takes seconds, `lockStaleAfter` is longer. `serve` has no handler for
SIGTERM, so a process that was told to go before it listens never does: `Bind`
is not for those. One that listens may take its time to go (`Exit`).

### 2.5 `TelegramChannel`

The rows of the store (`lastSeen`, `provider`, `polls`, `links`, `requests`,
`subs`, `outbox`), Telegram's queue of unconfirmed messages (`inbox`) and the
worker processes, each with the label it is at in `telegram_runner.go`. A store
method is one action, as in `WatchScheduler`. A worker may pause between any two
calls for any time, and give up at any of them (`GiveUp`: a lost answer, a
refused fence, a crash). `getUpdates` confirms what is below the offset it is
called with; the offset survives in the poll row, so a batch may be handed out
twice, to two workers. `Message` lets anybody who saw a link send its `/start`,
early, late or twice. A delivery's quota may be used up at its first claim
(`limited`), without counting: the counters are `WatchOutbox`'s. `via`,
`current` and `asked` are history: which request made a link, the newest request
of a user since it disconnected, and the wait a poll holder reported.

Two workers with one runner id are a runner that was restarted while the old
process still lives. Abstracted: the wire format, the private-chat and nonce
format checks, the request's digest, the quota counters.

### 2.6 `DetectiveJournal`

What an operation does to the Case is that its name is appended; so the Case
says which operations took effect, in which order, and how often, and an image
in a journal is such a sequence. The sections under the lock are split into
their file writes, and `Fail` ends a call between any two (a failed write, a
kill; the operating system frees the lock). `FinishStep` is one write of
finishAction, finishAICase, finishAIRun or finishIncidentOperation; `Reconcile`
does it for the other pending operations of the Case, `Replay` for one's own.
`GoOn`, `Leave` and `Resume` are the places where a call gives up the lock and
takes it again: between the sections of ExecuteAction, before and after a run
is evaluated, around what an incident does elsewhere. A member of `Procs` is a
caller: a command, or a request that a server handles beside others. One that
calls again with the same operation id is a retry.

Two operations journal without reconciling first. RestoreVisibilityCase
(`restore`, `visibility_restore.go`) takes back an archive of the Case in one
section. ExecuteNativePin (`native`, `native_action.go`) is a run with a fence of
the session service: receipt, start of the evaluation (`Dispatch`, which only one
call ever gets to), result; FinalizeNativeProduced is its `Replay`. Its fence may
refuse any step, which is `Fail`. The short sections in which each of its queries
is admitted write nothing, and the evidence link it writes last
(`finishNativeEvidence`) is part of the step that marks it done.

Earlier versions archived a Case by an update, which ExecuteAction no longer
takes. `site.legacy` says how far such an update, `LegacyArchive`, had come when
the present version was installed. finishAction completes one that is in the Case
(the state `action_test.go:267` builds) and refuses to write one that is not. An
archived Case links no run; that `datatug-core` refuses some edits of an
archived Case is left to `Fail`.

### 2.7 `ProjectVisibility`

One object with its native record and its metadata, both with revisions. One
caller at a time (`coordinator.lock` is held for the whole call), which may be
cut short between any two steps and begins again later with the same or another
operation; the owner's changes and deletions of other objects, which move the
metadata's revision, come in between. `RestoreNative`, `Translate`,
`ChangeMetadata`, `Check`, `WriteResult`, `CompleteOperation` are
finishOperation; an operation's file is `open`, then has a verdict, then is
renamed (`filed`). The native restore of a Case is itself several journaled
writes (`visibility_restore.go`); here it is the one step `RestoreNative`, since
what the checked properties see of it is the write of the Case, and a restore cut
short is retried under the same operation id. `DetectiveJournal` has its steps.

## 3. Runs

| run | asks | bounds | result |
|---|---|---|---|
| `sched_leases` | do leases, fences, ids and attempts hold up? | 1 Watch, 2 runners, 2 attempts, 4 instants, 2 versions | holds |
| `sched_clock` | and when the clock is stepped back? | 1 runner, 3 instants, pass/fail/error | holds |
| `sched_evidence` | is evidence right, do claims meet requirements, is `WatchEvidence` implemented? | 5 results from 2 sources and both modes on one Watch; or 2 Watches, the requirements of one changing, plain results | holds |
| `outbox` | who holds a delivery, who is told, how often; is everything settled, within the limits; does a full backlog drain? | 2 late coordinators, 2 addresses; a prompt one, 3 events, 2 a day, 1 a minute, 8 instants; the bell of the app; answers may be lost in all of them | holds |
| `runner` | what do runners do over a bad network; does the run settle? | 2 with generous timers; 1 with a crash and a tight lease; every call may be lost | holds |
| `telegram` | chats, links, flood waits and disconnects | 2 users and 1 chat, 2 requests and messages; a wait that ends within the clock; 2 workers of a runner and 2 bots with 1 message | holds |
| `telegram_flood` | is a reported wait respected? | 1 worker, 2 users, 2 chats, a wait longer than the clock | **violated** |
| `journal` | once, nothing lost, nothing stranded in one section | every kind of operation by one caller; pairs and triples by two; Cases an earlier version has archived, halfway or fully; 5 calls | holds |
| `journal_overlap` | nothing stranded when sections overlap? | an action and a confirmed edit, 2 callers | **violated** |
| `visibility` | acknowledged was visible, newest decides, everything settles | 2 restores, 1 archive, 2 changes by others, 2 failures | holds |
| `daemon` | one server, one lock holder, strangers safe, every command returns | one command at a time with slow servers and busy ports, pids reused; 2 at once, `ps` failing at will; the same that may be killed, pids reused; 2 at once of the Windows build | holds |
| `daemon_record` | is the server recorded with commands at once? | 2 commands at once, nobody killed | **violated** |

Why the bounds are enough. A conflict over a lease needs two claims, one of
them late: two attempts and one instant past `LeaseDuration`. Reuse of an id
needs a prune, `HistoryLimit` 1, and two versions or a clock step. A cooldown
of 2 fits in 3 instants with a step back. A quota needs more deliveries than
its limit and one window more; the event of another Watch at instant 0 makes
the daily limit bind on the first day and the minute limit on the next. A
backlog of `Capacity` 5 is full with one round of notifications besides the
row `HistoryLimit` keeps. A flood wait needs a lease, a deferral and a lease
after it, three fences, and two instants. A link that is mistaken for an older
one needs two requests and a row of the first. An operation is stranded, lost
or doubled by one other operation and a retry of each; five calls leave room
for both and one more. A lock or record race needs two commands. The constraint
`EvidenceOrFleet` of `sched_evidence` keeps to the two halves the table names.

Deadlock is checked only for the runners; the other systems may rightly stop,
at the end of the bounded clock, of the bounded calls or with no command under
way.

### 3.1 The violated runs

`daemon_record`: starter A finds no server. Starter B does everything: lock,
spawn, record, ready. A then executes `removeRecord` (`daemon.go:188`), which
comes before the lock, and B's server is left without a record: `daemon stop`
no longer knows it. Stop has the same window at `daemon.go:315`. The
specification's acceptance criterion says start leaves "a running server with a
pidfile and record".

`telegram_flood`: while a message is being sent its user disconnects (or the
provider is replaced, or a sibling row finds the recipient gone), which cancels
the row. The send is answered 429. FinishTelegramNotification finds the row no
longer its own and returns `ErrStaleLease` (`notifications.go:384`) before it
reads the wait; the worker gives up its lease, the bot's cooldown is not set, and
the next delivery goes out once what is left of the poll's lease (up to 30 s) is
over, however long Telegram asked to wait. The storage document says that flood waits are
retained "in the delivery and bot poll record".

`journal_overlap`: ExecuteAction reconciles in its first section, gives up the
lock, and writes in a second section that does not reconcile. Between the two
another call journals its image and fails before it writes the Case. The action
then replaces the Case, and the other operation fits neither its before nor its
after image any more: all its retries, and every later edit of that Case, end
in `ErrConflict`. A comment in `action.go` says why an edit must finish earlier
writes first; ConfirmRun does reconcile again.

What else strands an operation. `NeverStrandedInOneSection` says that nothing
does while every call reconciles and there is one caller at a time, or every
call writes in the section it reconciles in; with a server, requests count as
callers, so that one process alone does not satisfy it. Its premise leaves out
what does:

- RestoreVisibilityCase and ExecuteNativePin do not reconcile. Either overtakes a
  pending operation of the same Case and strands it, with one caller:
  `NeverStranded` is violated with `Sites <- Unreconciled` of
  `MCDetectiveJournal`. A restore of an archive that is in the Case but not done
  (the state of `action_test.go:267-306`) does it in three steps: the archive
  then is neither the Case's before nor its after image, and every call that
  reconciles ends in an error.
- An archive an earlier version journaled and did not write is refused by
  finishAction from the start (`action.go:537`), and with it every call that
  reconciles that Case.

The stale lock of the daemon. `LockExclusive` is stated for commands nobody
kills. After a kill it does not hold: A and B both see the stale lock
(`daemon.go:279`), A replaces it, B removes A's (`daemon.go:280`) and creates
its own. That part of the lock has no property.

### 3.2 What some properties say, and do not

`OneExecutor`. The documents claim at-least-once execution, never exclusivity.
The property says when the code gives exclusivity: when the lease outlasts one
renewal interval and two call timeouts, and the attempt's deadline the job's
timeout. The defaults (lease 30 s, renewal 5 s, call 15 s; deadline 2 min, job
3 min) do not: there two runners may execute a run, and the fence keeps the late
result out, which is what `OneLeaseHolder` and `TerminalRunsAreFrozen` show.

`OneServer`. With commands at the same time it has a premise: the server answers
in time, and the default port is free. Without either it does not hold. A holds
the lock and has spawned a server; B finds no record yet and nothing on the
default port, and goes on to clear the record. A writes it; B removes it
(`daemon.go:188` is not under the lock). B then gets the lock and looks again:
there is no record, and nothing answers on the default port, because A's server
is slow or is on another port. So B starts a second one. With prompt servers on
the default port the property does not depend on the ownership check.

With one command at a time it needs neither, but there it needs the ownership
check to be exact, a `ps` that works. Otherwise Start takes its own live server
that did not answer in time for a stranger, drops the record (`daemon.go:181-188`)
and starts a second one: with `Sites <- UnownedSites` of `MCDaemonLifecycle` and
no premise, TLC finds it in one Start after another, for a `ps` that fails and for
the probe of the Windows build. `daemon.go:152` knows that the check "can fail in
a sandbox", and so leaves it out of Status; Start and Stop rely on it.

`ForeignNeverSignalled` is about the Unix build. On Windows a Stop that read an
old record while another command started a server on the same port kills whoever
has the old pid: the port answers, and the pid is not looked at.

`KnownAcceptanceIsFinal`. The documents say that a message may be sent twice
after a lost answer (`docs/watch-daemon.md:164-171`), and the model does that.
The property says that this is the only way with a prompt coordinator: once the
sender knows of the acceptance, no later claim of that delivery is granted.

`BacklogDrains` has a premise: `HistoryLimit` leaves room for one round of
notifications below the capacity. The configuration admits a `HistoryLimit` of
10000 (`storage.go:404`), the capacity itself; with it a backlog that is full of
terminal rows never drains.

`DoneWasVisible` is about restores of objects that were archived natively. A
restore that was accepted while the object was hidden by its metadata only is
acknowledged without a look at the native record.

`RowsKeepToTheirLink` rests on DisconnectTelegram cancelling the rows of the
user: generations start again at 1 after a disconnect, so bot, chat and
generation alone do not tell a new link to the same chat from the old one.

### 3.3 Seen while modelling

Not stated as properties, because nothing in the repository promises otherwise
or because they are below the models' grain:

- A pending visibility operation of another actor, branch or environment makes
  recoverPending fail for everybody else (`store.go:385`) until its own caller
  retries it. A metadata archive made past the journal is undone by the retry
  of an older restore.
- The visibility journal's limit of 10002 names counts finished operations,
  which are never removed (`store.go:507`); the operation that reaches it is
  accepted and can then not be written.
- A direct mutation of a Case (`mutations.go`) has no journal: a crash between
  the Case and the audit log loses the audit entry. A torn last line of the
  audit log (`knowledge.go:223`) makes every later recovery fail.
- The Telegram worker takes any refused link call but a stale lease for an
  update that does not matter and advances over it (`telegram_runner.go:301`).
  When the refusal came from a registration that had run out, and the runner is
  back before the advance, the user's `/start` is lost and has to be sent again.

## 4. Fairness

- `WatchOutbox!FairSpec`: weak fairness of the delivery loop, of prune and of
  the clock, for a coordinator that is prompt. The loop and the tick are
  goroutines that run every interval for as long as the coordinator runs;
  prompt means that it looks at every instant and acknowledges within the lease
  (the provider call is cut after 10 s, the lease is 30 s).
- `WatchRunner!FairSpec`: local steps, timeouts and the clock go on (goroutines
  and timers); strong fairness of serving and answering each kind of call. The
  last is an assumption about the network, not about the code: a network that
  never lets any heartbeat through lets no run settle. It is stated for a runner
  that is alone, which is the harder case.
- `DaemonLifecycle!FairSpec`: a command that was begun is scheduled. Servers
  are not assumed to do anything.
- `ProjectVisibility!FairSpec`: a call that was begun goes on, and an operation
  that is open is called again, by its caller's retry. Failures are bounded;
  without that no retry would ever get through.

`TelegramChannel` and `DetectiveJournal` are checked for safety only: a bot
whose runner never comes back, or a Case nobody calls for, promises nothing.

## 5. Proofs

Every safety property of the passing runs, invariant or action property, is
proved, for all values of the constants that satisfy the named ASSUMEs of its
module: any sets of Watches, users, runners, workers, commands or operations,
any deployments (`Sites`), any durations and limits. TLC evaluates the ASSUMEs
on every run. The bounds that make a run finite (`MaxTime`, `MaxVersion`,
`MaxStarts` and the like) are arbitrary in the proofs.

Each proof has an inductive invariant, stated at the head of its module. It is
shown to hold initially and to be preserved by each action; before that, it was
checked with TLC on the run's own instance. Most modules first describe, in one
lemma per action, what a step does to each row or process (`RowsMove`,
`CommandMove`, `ProcMove`, `Becomes` ...), so that the invariant is then
preserved by a handful of shapes of step and not by every action anew.

### 5.1 Scheduler

| theorem | says |
|---|---|
| `TypeCorrect` | every stored row has its shape |
| `OneActiveRunPerWatch`, `NoRunLeftBehind` | a Watch never has two active runs, and its active run is of the enabled current version |
| `RunIdsUnique` | the next run's id was never used, also after prune |
| `LeaseExclusion` | of all claims ever granted for a Watch at most one is usable, and no two have the same run and fence |
| `TerminalRunsStay` | a terminal run never changes |
| `SchedulerImplementsEvidence` | the scheduler implements `WatchEvidence` |
| `AttemptsWithinBudget` | attempts, fences and leases keep to `MaxAttempts` and the deadline |
| `UsableClaimsMeetRequirements` | claims for the current version went to runners that meet its requirements |
| `OneEventPerRun`, `OneShotFiresOnce` | a run makes one event at most, which says what the run found; a one-shot Watch fires once |
| `CooldownHolds` | two notifications of a version are a cooldown apart |

`OneActiveRun` is not inductive. `reconcileDefinition` checks that the Watch
has no active run, which suffices for its own step; but that the new id is
fresh, so that it does not overwrite an old row, needs that every id ever used
lies behind the observation's next due time within the current version
(`IdsBehind`), that a Watch never created has version 0
(`AbsentIsUnversioned`), and that active runs belong to the enabled current
version (`ActiveRunsAreCurrent`). Lease exclusion needs that every claim
granted has a fence no higher than its run's and that no fence was granted
twice (`FencesIssued`). Together they are `ExclusionInv`. The refinement needs
in addition that an event's run is no longer active (`EventsClosed`), so that a
run cannot enter the ledger twice.

The history theorems need what the store remembers of the past. A step either
moves a Watch's version on or keeps its policy (`VersionPins`), so what was
checked when a claim was granted still holds while its version is current. An
event carries the Watch of its run (`EventsNameTheirWatch`); a run closed by its
event cannot be closed again. The cooldown is compared with `LastNotifiedAt`
only, so the invariant is that this is at or after every notification of the
version (`NoticesTracked`); the clock may step back, since the comparison then
refuses. All theorems hold with `StepClockBack`.

### 5.2 Outbox

| theorem | says |
|---|---|
| `OutboxTypeCorrect` | every row, counter, claim and reservation has its shape |
| `DeliveredOnlyIfAccepted` | a delivered row was accepted under the row's own fence |
| `SettledStays` | delivered and cancelled rows never change |
| `ConsentAtEveryAttempt` | a delivery is handed out with the consent of that moment |
| `KnownAcceptanceEnds` | with acknowledgements in time no claim follows one that is known to be accepted |
| `MessagesWithinBudget` | claims keep to `MaxAttempts` per manual retry |
| `QuotaNeverOverdrawn` | no day and no minute has more reservations than its limit |

`OutboxInv` says that rows, claims and reservations are of notified events only
(so a pruned delivery is never made again), that fences are issued once, and
that a row being sent was claimed under its present fence. `AcceptedTracked`
adds what promptness buys: an unanswered claim holds its row. `BudgetTracked`
relates the number of claims to the fence and the attempts since the last manual
retry. The quota needs most: a counter is removed by prune when it is
`QuotaRetention` old, so the invariant is that the counters of the *present and
later* periods hold every reservation (`UsesCounted`), and that a counter was
last written in its own period (`CountersDated`); a retention of two days then
never reaches a counter that is still read.

### 5.3 Runner

| theorem | says |
|---|---|
| `RunnerInvariant` | the invariant below |
| `CutOffRunnersStop` | no Check runs longer than a renewal interval and two call timeouts after its lease was last renewed |
| `NoTwoExecutors` | with generous timers no two runners execute the run |
| `AcknowledgementsAreTrue` | what a runner was told is recorded is in the log, under its fence |
| `RegistrationsAreKept` | no runner is sent away for a registration that ran out |

`RunnerInv` relates the two sides' clocks. `Shape`: which call belongs to which
label. `Registered`: the coordinator saw the runner at most one call later than
the runner believes, which with `RegistrationAssumption` keeps it below
`RunnerTTL` when a claim is served; with a registration as short as its interval,
TLC finds a runner that is sent away. `Renewed`: how old the renewal can be, by the call that is in
flight. `Holds`: under `GenerousTimers`, the lease has at least what the silence
since its renewal leaves of it, or reaches to the deadline, and the deadline lies
behind the job's own timeout; so the run is still leased to whoever executes it.
The inequalities are strict where they have to be: with a lease just as long as
the silence two runners do meet.

### 5.4 Telegram

| theorem | says |
|---|---|
| `TelegramTypeCorrect` | polls, links, requests, rows and workers have their shapes |
| `OneUserPerChat` | two users never share a chat of a bot |
| `FloodWaitNotBypassed` | nobody leases a poll or gets a row of a bot before its recorded wait is over |
| `OldRequestsNeverLink` | a link comes from the newest request since the last disconnect |
| `RowsFollowOneLink` | a row goes out through its own link only, and fails no other |

`TelegramInv`: open requests are the newest of their user
(`RequestsAreCurrent`), a bot that waits has no lease (`WaitingIsFree`), and a
row that can still be sent belongs to a linked user and, when it has the link's
generation, to that very link (`OpenRowsLinked`). The last is what makes the
reuse of generations after a disconnect harmless.

### 5.5 Daemon

| theorem | says |
|---|---|
| `DaemonInvariant` | the invariant below |
| `OnlyServersSignalled` | on the Unix build SIGTERM never goes to a stranger with a recorded pid |
| `LockExcludes` | without kills two starters never hold the lock |
| `NeverASecondServer` | `OneServer`, under its premises |

`Strangers`: who is about to send a signal has seen a server under that pid, or
has just started one. `Locked`: without kills the lock file belongs to whoever is at a label that
holds it. `OneServer` has two arguments, one for each premise. `Found`
(commands at the same time): the server is on the default port, and the lock is
held from the last look at that port until the server answers there. `Alone`
(one at a time, `ps` works): the record names the server or is about to, and
whoever gets to the labels behind the clearing of the record has seen that no
server is left. The first does not go through with a slow server or a taken port,
the second with an ownership check that may be wrong; TLC finds the second server
there: section 3.2.

### 5.6 Journals

| theorem | says |
|---|---|
| `JournalSafe` | the invariant `FilesInv` |
| `AppliedAtMostOnce` | an operation is in the Case and in the audit log once at most |
| `CaseOnlyGrows` | no write of the Case takes anything back |
| `AcknowledgedIsWritten` | what was acknowledged is there |
| `NoneStrandedInOneSection` | nothing is stranded while every call reconciles, and in the section it writes in or alone |
| `VisibilityInvariant` | the invariant `VisibilityInv` |
| `DoneRestoreWasVisible` | a restore that is done was visible |
| `OnlyNewestDecides` | only the newest accepted operation changes the object |

The Detective's `FilesInv`: an image is its before image with the operation
appended, which was not in it (`ImagesAppend`); what is in the Case has its
image or is a direct mutation, and what is audited is in the Case (`Traced`);
what is marked done is written (`DoneIsThere`); nothing is there twice
(`AllOnce`). For the last theorem `OnePending` adds that a call that is past its
reconciliation finds no other operation pending. A second section loses this, as
`journal_overlap` shows, and a call that does not reconcile never has it
(section 3.1).

`VisibilityInv`: only the newest operation can be unfinished, and a call works on
it (`OneAtATime`); a receipt's revision is one at which the object was not
archived (`Restores`, `Dated`); so when the metadata are changed and the native
revision is still the receipt's, the object is visible (`Seen`).

### 5.7 What is only model-checked

The liveness properties `EventuallySettled`, `BacklogDrains`, `RunSettles`,
`CommandsReturn` and `AcceptedSettles`: fairness and ENABLED are out of the
prover's reach. The properties of the violated runs are false. No module uses a
RECURSIVE operator, and no theorem needs induction over data: sequences are only
appended to, and sets grow by one element.

## 6. What could be proved next

The planned theorems are proved. What is left is to say more:

1. An abstract specification of the Detective's journal (a Case to which
   operations are applied atomically, at most once) and of the outbox (a message
   is owed, handed out, settled), implemented by the modules step by step. The
   invariants of sections 5.2 and 5.6 are what these refinements need.
2. The safety half of the liveness properties: which step is enabled in every
   state that is not settled, stated without ENABLED.
3. `ServersAreRecorded` for one command at a time, from `Alone`.

## 7. Not modelled

The modules cover the repository's concurrent and crash-prone core. By lines it
is a small part: most of the 172 thousand lines are presentation, SQL dialects,
wire formats and adapters to services, which hold no protocol a model checker
could say something about. Part by part:

- The Firestore store has the control flow of the standalone one over the
  queries of a service that is not in the repository; its contention, limits
  and retries would have to be guessed.
- Operation receipts of the Watch definitions replay an answer and change
  nothing; the audit table is written and listed, never read by a decision.
- The user requests of the Watch HTTP server decode, authorise and call the
  store.
- Requests that are served after their client has given up, and machines that
  are suspended, are left out of `WatchRunner`: time would need two clocks.
- Checks, validators, scenarios and knowledge proposals of the Detective use the
  journal of `DetectiveJournal` on other files. Imported evidence, run
  evaluation and the catalog compute and keep no protocol state.
- The incident and execution stores write event streams through a Git library
  that is not in the repository.
- Local project registry, compare cache, policy exceptions, session store and
  result cache: one locked file, or one database transaction, per operation.
  They interleave only as whole operations, and what is hard about them is in
  the file system or the database.
- Device login polls an external server; the chat agent's behaviour rests on an
  external model.
- Database copy, compare, reconcile and result operations are sequential
  pipelines over external databases; compare's row matching is a candidate for
  a check against a reference definition.
- Access policies, secure reads and the label guard are decisions over parsed
  queries without state.
- Commands, terminal UI, viewers, API and MCP handlers, message and e-mail
  texts, URLs, configuration parsing, authentication wire formats: no state.
