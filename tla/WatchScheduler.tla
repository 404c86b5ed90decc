--------------------------- MODULE WatchScheduler ---------------------------
(***************************************************************************)
(* The durable Watch scheduler of pkg/watch in its standalone (SQLite)     *)
(* form: definitions, observations, runs, runners and the event ledger.    *)
(*                                                                         *)
(* Every Store method is one immediate SQLite transaction (storage.go      *)
(* 146-160), so every action below is one method.  A method that returns   *)
(* an error rolls back, and so is no step at all.  Runners are reached     *)
(* over HTTP: a claim that was once granted may be heartbeated or          *)
(* completed at any later moment, any number of times, with any result,    *)
(* or never (a crash, a lost request); `granted` remembers those claims.   *)
(*                                                                         *)
(* The wall clock is Config.Now().UTC(): it may also be stepped back.      *)
(***************************************************************************)
EXTENDS Integers, FiniteSets

CONSTANTS
    Watches, Runners,
    Policies,          \* the user-editable part of a definition: see PolicyType
    Checks,            \* CheckID + CheckVersion + Inputs, the semantic part
    Fingerprints,      \* source fingerprints a runner may report
    NoFingerprint,     \* the empty SourceFingerprint
    Completions,       \* the payloads runners send; each is its own digest
    NoCompletion,      \* the empty CompletionHash
    NoRunner,          \* the empty RunnerID
    Capabilities,      \* Capabilities[r]: grants verified by the transport
    LeaseDuration, ExecutionTimeout, RunnerTTL, RunnerRetention,
    MaxAttempts, HistoryLimit,
    Backoff,           \* Backoff[n]: the wait after n failed attempts
    MaxTime,           \* bound: the last instant of the clock
    MaxVersion,        \* bound: the last version of a definition
    ClockStepsBack     \* whether the wall clock may be stepped back

Zero == 0              \* time.Time{}; the clock starts at 1

Triggers == {"becomes_true", "becomes_false", "changes"}
Lifecycles == {"absent", "enabled", "paused", "completed", "deleted"}
ActiveStates == {"due", "retry", "running"}
RunStates == ActiveStates \cup {"completed", "failed", "cancelled"}

ASSUME BoundsAssumption ==
    /\ LeaseDuration \in Nat \ {0} /\ ExecutionTimeout \in Nat \ {0}
    /\ RunnerTTL \in Nat \ {0} /\ RunnerRetention \in Nat \ {0}
    /\ MaxAttempts \in Nat \ {0} /\ HistoryLimit \in Nat \ {0}
    /\ Backoff \in [0 .. MaxAttempts -> Nat]
    /\ MaxTime \in Nat \ {0} /\ MaxVersion \in Nat \ {0}
    /\ ClockStepsBack \in BOOLEAN

\* What validateDefinition lets through.
ASSUME PolicyAssumption ==
    /\ Policies # {} /\ Checks # {}
    /\ \A p \in Policies :
          /\ p.mode \in {"one_shot", "continuous"}
          /\ p.trigger \in Triggers
          /\ p.initial \in {"notify", "baseline"}
          /\ p.recovery \in BOOLEAN
          /\ p.cooldown \in Nat
          /\ p.interval \in Nat \ {0}

\* What FinishRun's validation lets through.
ASSUME CompletionAssumption ==
    \A c \in Completions :
        /\ c.status \in {"completed", "error"}
        /\ c.outcome \in {"pass", "fail", "unknown"}
        /\ c.fp \in Fingerprints \cup {NoFingerprint}
        /\ c.status = "error" => c.outcome = "unknown"
        /\ c.status = "completed" /\ c.outcome # "unknown" => c.fp # NoFingerprint

ASSUME EmptyAssumption ==
    /\ NoFingerprint \notin Fingerprints
    /\ NoRunner \notin Runners
    /\ NoCompletion \notin Completions

VARIABLES
    now,
    defs,       \* defs[w]: [version, lifecycle, policy, check]
    obs,        \* obs[w]: the observation of w
    runs,       \* the runs table: a function from run ids to runs
    lastSeen,   \* lastSeen[r]: the runner's LastSeen, Zero when it has no row
    granted,    \* claims ever handed out: [run, fence, runner]
    events,     \* the events table
    notices     \* notifications recorded by notify: [run, event, at, cooldown]

vars == <<now, defs, obs, runs, lastSeen, granted, events, notices>>
-----------------------------------------------------------------------------
Min2(a, b) == IF a < b THEN a ELSE b

\* A run's id digests its watch, the definition version and the due instant.
RunId == [watch : Watches, version : Nat, due : Nat]

NewRun == [state |-> "due", runner |-> NoRunner, fence |-> 0, attempts |-> 0,
           leaseUntil |-> Zero, deadline |-> Zero, retryAt |-> Zero,
           hash |-> NoCompletion, outcome |-> "none", finishedAt |-> Zero]

Baseline == [value |-> "never", lastKnown |-> "never", fp |-> NoFingerprint,
             next |-> now, lastNotified |-> Zero, availability |-> "waiting"]

Active(i) == runs[i].state \in ActiveStates

Init ==
    /\ now = 1
    /\ defs = [w \in Watches |-> [version |-> 0, lifecycle |-> "absent",
                                  policy |-> CHOOSE p \in Policies : TRUE,
                                  check |-> CHOOSE k \in Checks : TRUE]]
    /\ obs = [w \in Watches |-> Baseline]
    /\ runs = [i \in {} |-> NewRun]
    /\ lastSeen = [r \in Runners |-> Zero]
    /\ granted = {}
    /\ events = {}
    /\ notices = {}
-----------------------------------------------------------------------------
(* Definitions: what people do *)

\* Mutant: a run that waits for its next attempt is forgotten.
CancelOnlyRunning(w) ==
    runs' = [i \in DOMAIN runs |->
                IF i.watch = w /\ runs[i].state = "running"
                THEN [runs[i] EXCEPT !.state = "cancelled", !.fence = @ + 1,
                                     !.finishedAt = now]
                ELSE runs[i]]

\* cancelRuns: every active run of w is cancelled and its fence moved on.
CancelRuns(w) ==
    runs' = [i \in DOMAIN runs |->
                IF i.watch = w /\ Active(i)
                THEN [runs[i] EXCEPT !.state = "cancelled", !.fence = @ + 1,
                                     !.finishedAt = now]
                ELSE runs[i]]

CreateDefinition(w, policy, check, startPaused) ==
    /\ defs[w].lifecycle = "absent"
    /\ defs' = [defs EXCEPT ![w] =
                  [version |-> 1, policy |-> policy, check |-> check,
                   lifecycle |-> IF startPaused THEN "paused" ELSE "enabled"]]
    /\ obs' = [obs EXCEPT ![w] = Baseline]
    /\ CancelRuns(w)
    /\ UNCHANGED <<now, lastSeen, granted, events, notices>>

\* visible requires that the definition exists and is not deleted.  Who may
\* edit, operation receipts and the version precondition only refuse.
Editable(w) ==
    /\ defs[w].lifecycle \notin {"absent", "deleted"}
    /\ defs[w].version < MaxVersion

\* An edit keeps the lifecycle.  It keeps the observation too unless it
\* changes the Check, its version or its inputs.
EditDefinition(w, policy, check) ==
    /\ Editable(w)
    /\ defs' = [defs EXCEPT ![w] = [version |-> @.version + 1, lifecycle |-> @.lifecycle,
                                    policy |-> policy, check |-> check]]
    /\ obs' = IF check = defs[w].check THEN obs ELSE [obs EXCEPT ![w] = Baseline]
    /\ CancelRuns(w)
    /\ UNCHANGED <<now, lastSeen, granted, events, notices>>

\* Mutant: pausing and resuming keep the version.
SetLifecycleSameVersion(w, lifecycle) ==
    /\ Editable(w)
    /\ defs' = [defs EXCEPT ![w].lifecycle = lifecycle]
    /\ obs' = IF lifecycle = "enabled"
              THEN [obs EXCEPT ![w].next = now, ![w].availability = "waiting"]
              ELSE obs
    /\ CancelRuns(w)
    /\ UNCHANGED <<now, lastSeen, granted, events, notices>>

SetLifecycle(w, lifecycle) ==
    /\ Editable(w)
    /\ defs' = [defs EXCEPT ![w].version = @ + 1, ![w].lifecycle = lifecycle]
    /\ obs' = IF lifecycle = "enabled"
              THEN [obs EXCEPT ![w].next = now, ![w].availability = "waiting"]
              ELSE obs
    /\ CancelRuns(w)
    /\ UNCHANGED <<now, lastSeen, granted, events, notices>>

ResetBaseline(w) ==
    /\ Editable(w)
    /\ defs' = [defs EXCEPT ![w].version = @ + 1]
    /\ obs' = [obs EXCEPT ![w] = Baseline]
    /\ CancelRuns(w)
    /\ UNCHANGED <<now, lastSeen, granted, events, notices>>
-----------------------------------------------------------------------------
(* The coordinator's tick *)

\* Mutant: a tick does not look for a run that is still open.
NeedsRunAgain(w) ==
    defs[w].lifecycle = "enabled" /\ obs[w].next =< now

\* Mutant: a tick runs the Watch whether or not it is due.
NeedsRunEarly(w) ==
    /\ defs[w].lifecycle = "enabled"
    /\ \A i \in DOMAIN runs : i.watch = w => ~Active(i)

\* reconcileDefinition creates a run for w.
NeedsRun(w) ==
    /\ defs[w].lifecycle = "enabled"
    /\ obs[w].next =< now
    /\ \A i \in DOMAIN runs : i.watch = w => ~Active(i)

RunIdOf(w) == [watch |-> w, version |-> defs[w].version, due |-> obs[w].next]

\* prune: the rows that survive, all active runs and the newest HistoryLimit
\* terminal ones.  A terminal row was last saved when it finished; rows saved
\* at the same instant are dropped in any order.
Retained(table) ==
    LET terminal == {i \in DOMAIN table : table[i].state \notin ActiveStates}
        active == DOMAIN table \ terminal
    IN IF Cardinality(terminal) =< HistoryLimit
       THEN {DOMAIN table}
       ELSE {active \cup kept :
               kept \in {k \in SUBSET terminal :
                           /\ Cardinality(k) = HistoryLimit
                           /\ \A i \in k, j \in terminal \ k :
                                 table[i].finishedAt >= table[j].finishedAt}}

Reconcile ==
    LET needy == {w \in Watches : NeedsRun(w)}
        fresh == {RunIdOf(w) : w \in needy}
        saved == [i \in DOMAIN runs \cup fresh |->
                    IF i \in fresh THEN NewRun ELSE runs[i]]
    IN /\ \E kept \in Retained(saved) : runs' = [i \in kept |-> saved[i]]
       /\ obs' = [w \in Watches |->
                    IF w \in needy
                    THEN [obs[w] EXCEPT !.next = now + defs[w].policy.interval,
                                        !.availability = "waiting"]
                    ELSE obs[w]]
       /\ lastSeen' = [r \in Runners |->
                         IF lastSeen[r] + RunnerRetention > now THEN lastSeen[r] ELSE Zero]
       /\ UNCHANGED <<now, defs, granted, events, notices>>
-----------------------------------------------------------------------------
(* The runner protocol *)

RegisterRunner(r) ==
    /\ lastSeen' = [lastSeen EXCEPT ![r] = now]
    /\ UNCHANGED <<now, defs, obs, runs, granted, events, notices>>

Eligible(r, w) == defs[w].policy.requires \subseteq Capabilities[r]

\* Mutant: the loop does not look at the state of the run.
PendingAnyState == {i \in DOMAIN runs :
              /\ i.due =< now /\ runs[i].retryAt =< now
              /\ ~(runs[i].state = "running" /\ runs[i].leaseUntil > now)}

\* The runs the claim loop does not skip, and what it does with each.
Pending == {i \in DOMAIN runs :
              /\ Active(i) /\ i.due =< now /\ runs[i].retryAt =< now
              /\ ~(runs[i].state = "running" /\ runs[i].leaseUntil > now)}
Current(i) == defs[i.watch].lifecycle = "enabled" /\ defs[i.watch].version = i.version
Outdated == {i \in Pending : ~Current(i)}
\* Mutant: requirements are not compared with the runner's grants.
AdmittedAll(r) == {i \in Pending : Current(i)}

Admitted(r) == {i \in Pending : Current(i) /\ Eligible(r, i.watch)}
\* Mutant: one attempt too many.
ExhaustedLate(r) == {i \in Admitted(r) : runs[i].attempts > MaxAttempts}

Exhausted(r) == {i \in Admitted(r) : runs[i].attempts >= MaxAttempts}
Claimable(r) == Admitted(r) \ Exhausted(r)

\* Mutant: the fence does not move when a lease is taken over.
GrantSameFence(r, i) ==
    [runs[i] EXCEPT !.state = "running", !.runner = r, !.finishedAt = Zero,
                    !.attempts = @ + 1, !.hash = NoCompletion, !.outcome = "none",
                    !.deadline = now + ExecutionTimeout,
                    !.leaseUntil = Min2(now + LeaseDuration, now + ExecutionTimeout),
                    !.retryAt = Zero]

Grant(r, i) ==
    [runs[i] EXCEPT !.state = "running", !.runner = r, !.finishedAt = Zero,
                    !.fence = @ + 1, !.attempts = @ + 1,
                    !.hash = NoCompletion, !.outcome = "none",
                    !.deadline = now + ExecutionTimeout,
                    !.leaseUntil = Min2(now + LeaseDuration, now + ExecutionTimeout),
                    !.retryAt = Zero]

\* The claim loop walks runs by DueAt (ties in any order) and stops at the
\* first claimable one: `picked` holds it, or is empty when there is none.
\* `passed` is what it closed on the way.
Walk(r, picked, passed) ==
    /\ runs' = [i \in DOMAIN runs |->
                  CASE i \in picked -> Grant(r, i)
                    [] i \in passed \cap Outdated ->
                         [runs[i] EXCEPT !.state = "cancelled", !.finishedAt = now]
                    [] i \in passed \cap Exhausted(r) ->
                         [runs[i] EXCEPT !.state = "failed", !.outcome = "unknown",
                                         !.finishedAt = now]
                    [] OTHER -> runs[i]]
    /\ obs' = [w \in Watches |->
                 IF \E i \in passed \cap Exhausted(r) : i.watch = w
                 THEN [obs[w] EXCEPT !.value = "unknown", !.availability = "error"]
                 ELSE obs[w]]
    /\ granted' = granted \cup
                    {[run |-> i, fence |-> Grant(r, i).fence, runner |-> r] : i \in picked}

ClaimDue(r) ==
    LET closing == Outdated \cup Exhausted(r)
    IN /\ lastSeen[r] # Zero
       /\ now - lastSeen[r] =< RunnerTTL
       /\ \/ Claimable(r) = {} /\ Walk(r, {}, closing)
          \/ \E i \in Claimable(r), passed \in SUBSET closing :
                /\ \A j \in Claimable(r) : i.due =< j.due
                /\ \A j \in closing : j.due < i.due => j \in passed
                /\ \A j \in passed : j.due =< i.due
                /\ Walk(r, {i}, passed)
       /\ lastSeen' = [lastSeen EXCEPT ![r] = now]
       /\ UNCHANGED <<now, defs, events, notices>>

Leased(g) ==
    /\ g.run \in DOMAIN runs
    /\ Current(g.run) /\ Eligible(g.runner, g.run.watch)
    /\ LET r == runs[g.run]
       IN /\ r.state = "running" /\ r.runner = g.runner /\ r.fence = g.fence
          /\ r.leaseUntil > now /\ r.deadline > now

Heartbeat(g) ==
    /\ Leased(g)
    /\ lastSeen[g.runner] # Zero
    /\ runs' = [runs EXCEPT ![g.run].leaseUntil = Min2(now + LeaseDuration, runs[g.run].deadline)]
    /\ lastSeen' = [lastSeen EXCEPT ![g.runner] = now]
    /\ UNCHANGED <<now, defs, obs, granted, events, notices>>

\* A completion already recorded for this fence: the identical one is answered
\* from the row, a different one is refused.  Neither writes.
Replayed(g) ==
    /\ g.run \in DOMAIN runs
    /\ runs[g.run].hash # NoCompletion
    /\ runs[g.run].fence = g.fence /\ runs[g.run].runner = g.runner

\* Mutant: the reported source is not compared with the pinned one.
SourceNeverChanged(o, c) == FALSE

SourceChanged(o, c) ==
    o.fp # NoFingerprint /\ c.fp # NoFingerprint /\ c.fp # o.fp

KnownResult(o, c) ==
    c.status = "completed" /\ c.outcome # "unknown" /\ ~SourceChanged(o, c)

\* An unknown result: retry with backoff, or give up.  The last known value,
\* the pinned source and the ledger are left alone.
FinishUnknown(g, c) ==
    LET w == g.run.watch
        r == runs[g.run]
        again == r.attempts < MaxAttempts
    IN /\ ~KnownResult(obs[w], c)
       /\ runs' = [runs EXCEPT ![g.run] =
                     [r EXCEPT !.hash = c, !.outcome = "unknown", !.finishedAt = now,
                               !.state = IF again THEN "retry" ELSE "failed",
                               !.retryAt = IF again THEN now + Backoff[r.attempts] ELSE @]]
       /\ obs' = [obs EXCEPT ![w].value = "unknown", ![w].availability = "error"]
       /\ UNCHANGED <<defs, events, notices>>

Target(p, value) ==
    \/ p.trigger = "changes"
    \/ p.trigger = "becomes_true" /\ value = "true"
    \/ p.trigger = "becomes_false" /\ value = "false"

\* Mutant: the event is named after its notification.
EventKindAsNotice(p, previous, value) ==
    IF previous = value \/ ~Target(p, value) THEN "" ELSE "change"

\* recordEvent: the kind of transition, "" for none.
EventKind(p, previous, value) ==
    CASE previous = "never" ->
           IF p.initial = "notify" /\ Target(p, value) THEN "trigger" ELSE ""
      [] previous = value -> ""
      [] previous = "false" /\ value = "true" -> "recovery"
      [] OTHER -> IF Target(p, value) THEN "trigger" ELSE ""

\* The notification the result asks for, before the cooldown; "" for none.
NoticeKind(p, previous, value) ==
    CASE previous = "never" ->
           IF p.initial = "notify" /\ Target(p, value)
           THEN IF value = "false" THEN "failure" ELSE "change"
           ELSE ""
      [] previous = value -> ""
      [] value = "true" /\ p.recovery /\ p.mode = "continuous" -> "recovery"
      [] OTHER -> IF ~Target(p, value) THEN ""
                  ELSE IF value = "false" THEN "failure" ELSE "change"

\* Mutant: a clock that was stepped back lifts the cooldown.
CooledAfterStepBack(o, p) ==
    o.lastNotified = Zero \/ now < o.lastNotified \/ now >= o.lastNotified + p.cooldown

\* The cooldown counts from the last notification of the same baseline.
Cooled(o, p) ==
    o.lastNotified = Zero \/ now >= o.lastNotified + p.cooldown

\* Mutant: only a "trigger" ends a one-shot Watch.
FiresOnTrigger(p, kind, value) ==
    kind = "trigger" /\ p.mode = "one_shot" /\ Target(p, value)

\* The result ends a one-shot Watch.
Fires(p, kind, value) ==
    kind # "" /\ p.mode = "one_shot" /\ Target(p, value)

\* A known result.  `subscribed` is whether notify finds anyone to tell.
FinishKnown(g, c, subscribed) ==
    LET w == g.run.watch
        p == defs[w].policy
        previous == obs[w].lastKnown
        value == IF c.outcome = "pass" THEN "true" ELSE "false"
        kind == EventKind(p, previous, value)
        notice == NoticeKind(p, previous, value)
        told == notice # "" /\ Cooled(obs[w], p) /\ subscribed
    IN /\ KnownResult(obs[w], c)
       /\ runs' = [runs EXCEPT ![g.run] =
                     [@ EXCEPT !.hash = c, !.outcome = c.outcome,
                               !.state = "completed", !.finishedAt = now]]
       /\ obs' = [obs EXCEPT ![w] =
                    [value |-> value, lastKnown |-> value, fp |-> c.fp, next |-> @.next,
                     lastNotified |-> IF told THEN now ELSE @.lastNotified,
                     availability |-> "available"]]
       /\ events' = IF kind = "" THEN events
                    ELSE events \cup {[watch |-> w, run |-> g.run, kind |-> kind,
                                       previous |-> previous, value |-> value, source |-> c.fp]}
       /\ notices' = IF told
                     THEN notices \cup {[run |-> g.run, event |-> notice, at |-> now,
                                         cooldown |-> p.cooldown]}
                     ELSE notices
       /\ defs' = IF Fires(p, kind, value)
                  THEN [defs EXCEPT ![w].lifecycle = "completed"]
                  ELSE defs

FinishRun(g, c) ==
    /\ ~Replayed(g)
    /\ Leased(g)
    /\ \/ FinishUnknown(g, c)
       \/ \E subscribed \in BOOLEAN : FinishKnown(g, c, subscribed)
    /\ UNCHANGED <<now, lastSeen, granted>>
-----------------------------------------------------------------------------
Tick ==
    /\ now < MaxTime
    /\ now' = now + 1
    /\ UNCHANGED <<defs, obs, runs, lastSeen, granted, events, notices>>

StepClockBack ==
    /\ ClockStepsBack
    /\ \E t \in 1 .. now : now' = t
    /\ UNCHANGED <<defs, obs, runs, lastSeen, granted, events, notices>>

Next ==
    \/ \E w \in Watches, p \in Policies, k \in Checks, b \in BOOLEAN : CreateDefinition(w, p, k, b)
    \/ \E w \in Watches, p \in Policies, k \in Checks : EditDefinition(w, p, k)
    \/ \E w \in Watches, l \in {"enabled", "paused", "deleted"} : SetLifecycle(w, l)
    \/ \E w \in Watches : ResetBaseline(w)
    \/ Reconcile
    \/ \E r \in Runners : RegisterRunner(r)
    \/ \E r \in Runners : ClaimDue(r)
    \/ \E g \in granted : Heartbeat(g)
    \/ \E g \in granted, c \in Completions : FinishRun(g, c)
    \/ Tick
    \/ StepClockBack

Spec == Init /\ [][Next]_vars
-----------------------------------------------------------------------------
(* Properties *)

Time == Nat
RunType == [state : RunStates, runner : Runners \cup {NoRunner}, fence : Nat,
            attempts : Nat, leaseUntil : Time, deadline : Time, retryAt : Time,
            hash : Completions \cup {NoCompletion},
            outcome : {"none", "pass", "fail", "unknown"}, finishedAt : Time]
DefinitionType == [version : Nat, lifecycle : Lifecycles, policy : Policies, check : Checks]
ObservationType == [value : {"never", "true", "false", "unknown"},
                    lastKnown : {"never", "true", "false"},
                    fp : Fingerprints \cup {NoFingerprint}, next : Time,
                    lastNotified : Time,
                    availability : {"waiting", "available", "error"}]
ClaimType == [run : RunId, fence : Nat, runner : Runners]
EventType == [watch : Watches, run : RunId, kind : {"trigger", "recovery"},
              previous : {"never", "true", "false"}, value : {"true", "false"},
              source : Fingerprints]
NoticeType == [run : RunId, event : {"change", "failure", "recovery"}, at : Time,
               cooldown : Nat]

\* The stored rows have the shapes the model declarations in model.go give them.
TypeOK ==
    /\ now \in Time
    /\ defs \in [Watches -> DefinitionType]
    /\ obs \in [Watches -> ObservationType]
    /\ DOMAIN runs \subseteq RunId
    /\ \A i \in DOMAIN runs : runs[i] \in RunType
    /\ lastSeen \in [Runners -> Time]
    /\ granted \subseteq ClaimType
    /\ events \subseteq EventType
    /\ notices \subseteq NoticeType

\* "Reconcile generates at most one due execution per Watch": whatever the order
\* of ticks, claims, results, edits and clock steps, a Watch never has two runs
\* that are due, waiting for a retry or running.
OneActiveRun ==
    \A i, j \in DOMAIN runs :
        Active(i) /\ Active(j) /\ i.watch = j.watch => i = j

\* Every path that changes a definition's version or takes it out of "enabled"
\* (edit, pause, delete, reset, a one-shot's own completion) also closes its
\* run: no run is left behind for a definition that has moved on.
ActiveRunsAreCurrent ==
    \A i \in DOMAIN runs : Active(i) => Current(i)

\* The id the next run of a Watch would get was never used before, not even by
\* a run that prune has removed.  Fences restart at 1 in every run, so a reused
\* id would let a late completion of the old run be taken for the new one.
RunIdsNeverReused ==
    \A w \in Watches : defs[w].lifecycle = "enabled" =>
        RunIdOf(w) \notin DOMAIN runs \cup {g.run : g \in granted}

\* At most one of the claims ever granted for a Watch can heartbeat or complete,
\* and no two runners were ever given the same run under the same fence.
OneLeaseHolder ==
    \A g, h \in granted :
        /\ g.run = h.run /\ g.fence = h.fence => g = h
        /\ Leased(g) /\ Leased(h) /\ g.run.watch = h.run.watch => g = h

\* A claim that can still be used was granted to a runner that has every
\* capability the definition requires now: an edit of the requirements revokes
\* the claims granted under the old ones.
GrantsMeetRequirements ==
    \A g \in granted :
        Current(g.run) => Eligible(g.runner, g.run.watch)

\* Attempts stay within MaxAttempts over crashes, expired leases and reported
\* errors; a run that waits for a retry always has an attempt left; the fence
\* counts the grants, plus one when cancelRuns revoked the last of them; and no
\* heartbeat carries a lease past the deadline.
AttemptBudget ==
    \A i \in DOMAIN runs :
        LET r == runs[i]
        IN /\ r.attempts =< MaxAttempts
           /\ r.state = "retry" => r.attempts < MaxAttempts
           /\ r.fence \in {r.attempts, r.attempts + 1}
           /\ Active(i) => r.fence = r.attempts
           /\ r.leaseUntil =< r.deadline

\* A run contributes at most one event, and the run of an event, while it is
\* retained, is completed with the outcome the event reports.
EventsHaveOneRun ==
    /\ \A e, f \in events : e.run = f.run => e = f
    /\ \A e \in events : e.run \in DOMAIN runs =>
          /\ runs[e.run].state = "completed"
          /\ (e.value = "true") = (runs[e.run].outcome = "pass")

\* A one-shot Watch that is still armed has not yet fired under its current
\* version: the event and the completion of the Watch are one step.
ArmedOneShotHasNotFired ==
    \A w \in Watches :
        defs[w].lifecycle = "enabled" /\ defs[w].policy.mode = "one_shot" =>
            ~\E e \in events : /\ e.watch = w
                               /\ e.run.version = defs[w].version
                               /\ Target(defs[w].policy, e.value)

\* Two notifications of one version of a Watch are a cooldown apart, also when
\* failures, retries and clock steps come between them.
CooldownSpacing ==
    \A m, n \in notices :
        m.run.watch = n.run.watch /\ m.run.version = n.run.version
        /\ m # n /\ m.at =< n.at
            => n.at >= m.at + m.cooldown

\* A run that is completed, failed or cancelled never changes again, however
\* late a heartbeat, a completion or a claim for it arrives.
TerminalRunsAreFrozen ==
    [][\A i \in DOMAIN runs \cap DOMAIN runs' : ~Active(i) => runs'[i] = runs[i]]_vars

Evidence == INSTANCE WatchEvidence WITH
    Sources <- Fingerprints, NoSource <- NoFingerprint,
    known <- [w \in Watches |-> obs[w].lastKnown],
    pin <- [w \in Watches |-> obs[w].fp],
    ledger <- events

\* The scheduler implements WatchEvidence: crashes, expired leases, errors,
\* unknown results, changed sources, replays and edits of the title or policy
\* never touch what is known, and every ledger entry is an accepted transition.
ImplementsEvidence == Evidence!Spec
=============================================================================
