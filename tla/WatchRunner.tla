----------------------------- MODULE WatchRunner -----------------------------
(***************************************************************************)
(* Runners (watchdaemon/client.go) against the coordinator over HTTP: the  *)
(* loop of Runner.Run, executeClaim with its heartbeat goroutine, and what *)
(* the coordinator does with one run of one Watch that nobody edits.       *)
(*                                                                         *)
(* Time is a set of countdowns, in steps of the renewal interval or less.  *)
(* A call is on its way for at most CallTimeout; the coordinator may       *)
(* handle it at any moment of that time, or never, and the answer may be   *)
(* lost.  A process that is not down takes its steps on time: a machine    *)
(* that is suspended is not modelled.                                      *)
(***************************************************************************)
EXTENDS Integers, FiniteSets

CONSTANTS
    Runners, NoRunner,
    CallTimeout,            \* the HTTP client's timeout
    RenewInterval, PollInterval, RegistrationInterval, JobTimeout,
    RunnerTTL, MaxAttempts, RetryDelay,
    SubmitAttempts,         \* how often a completion is sent
    Sites                   \* deployments to look at: see SiteType

\* A deployment: who runs, the coordinator's LeaseDuration and ExecutionTimeout,
\* and the bound on crashes of runners.
SiteType == [runners : SUBSET Runners, lease : Nat \ {0}, execution : Nat \ {0}, crashes : Nat]

ASSUME TimersAssumption ==
    /\ {CallTimeout, RenewInterval, PollInterval, RegistrationInterval, JobTimeout,
        RunnerTTL, MaxAttempts, SubmitAttempts}
          \subseteq Nat \ {0}
    /\ RetryDelay \in Nat
    /\ NoRunner \notin Runners
    /\ \A s \in Sites : s \in SiteType

\* The defaults leave room: 30 s and two timeouts of 15 s against 90 s.
ASSUME RegistrationAssumption == RegistrationInterval + 2 * CallTimeout =< RunnerTTL

VARIABLES
    site,      \* the deployment, one of Sites
    run,       \* the coordinator's run: times are what is left of them
    log,       \* completions it recorded: [fence, runner, result]
    seen,      \* seen[r]: time since LastSeen, up to RunnerTTL + 1
    proc,      \* proc[r]: the runner process
    call,      \* call[r]: its call in flight
    crashes

vars == <<site, run, log, seen, proc, call, crashes>>

NoCall == [kind |-> "none", age |-> 0, reply |-> "none", fence |-> 0]
Boot == [pc |-> "register", fence |-> 0, registered |-> 0, renewIn |-> 0, jobLeft |-> 0,
         wait |-> 0, tries |-> 0, result |-> "none", unrenewed |-> 0]

Init ==
    /\ site \in Sites
    /\ run = [state |-> "due", runner |-> NoRunner, fence |-> 0, attempts |-> 0,
              lease |-> 0, deadline |-> 0, wait |-> 0]
    /\ log = {}
    /\ seen = [r \in Runners |-> RunnerTTL + 1]
    /\ proc = [r \in Runners |-> Boot]
    /\ call = [r \in Runners |-> NoCall]
    /\ crashes = 0
-----------------------------------------------------------------------------
(* The coordinator *)

Smaller(a, b) == IF a < b THEN a ELSE b

Leased(r, fence) ==
    /\ run.state = "running" /\ run.runner = r /\ run.fence = fence
    /\ run.lease > 0 /\ run.deadline > 0

Answer(r, reply, fence) == call' = [call EXCEPT ![r].reply = reply, ![r].fence = fence]

ServeRegister(r) ==
    /\ Answer(r, "ok", 0)
    /\ seen' = [seen EXCEPT ![r] = 0]
    /\ UNCHANGED <<run, proc>>

\* Mutant: a run whose lease ran out is not taken up again.
ClaimableWhenIdle == run.state \in {"due", "retry"} /\ run.wait = 0

Claimable ==
    \/ run.state \in {"due", "retry"} /\ run.wait = 0
    \/ run.state = "running" /\ run.lease = 0

\* A claim by a runner that is not registered any more is forbidden.
ServeClaim(r) ==
    \/ /\ seen[r] > RunnerTTL
       /\ Answer(r, "forbidden", 0)
       /\ UNCHANGED <<run, seen, proc>>
    \/ /\ seen[r] =< RunnerTTL /\ ~Claimable
       /\ Answer(r, "nothing", 0)
       /\ seen' = [seen EXCEPT ![r] = 0]
       /\ UNCHANGED <<run, proc>>
    \/ /\ seen[r] =< RunnerTTL /\ Claimable /\ run.attempts >= MaxAttempts
       /\ run' = [run EXCEPT !.state = "failed"]
       /\ Answer(r, "nothing", 0)
       /\ seen' = [seen EXCEPT ![r] = 0]
       /\ UNCHANGED proc
    \/ /\ seen[r] =< RunnerTTL /\ Claimable /\ run.attempts < MaxAttempts
       /\ run' = [run EXCEPT !.state = "running", !.runner = r, !.fence = @ + 1,
                             !.attempts = @ + 1,
                             !.deadline = site.execution,
                             !.lease = Smaller(site.lease, site.execution)]
       /\ Answer(r, "claim", run.fence + 1)
       /\ seen' = [seen EXCEPT ![r] = 0]
       /\ proc' = [proc EXCEPT ![r].unrenewed = 0]

ServeHeartbeat(r) ==
    IF Leased(r, proc[r].fence)
    THEN /\ run' = [run EXCEPT !.lease = Smaller(site.lease, run.deadline)]
         /\ seen' = [seen EXCEPT ![r] = 0]
         /\ proc' = [proc EXCEPT ![r].unrenewed = 0]
         /\ Answer(r, "ok", 0)
    ELSE Answer(r, "stale", 0) /\ UNCHANGED <<run, seen, proc>>

\* Mutant: any recorded completion answers for this one.
ReplayedAnyone(r) == {e \in log : e.fence = run.fence}

\* The completion already recorded under the fence that stands, if any.
Replayed(r) ==
    {e \in log : e.fence = run.fence /\ e.fence = proc[r].fence /\ e.runner = r}

ServeComplete(r) ==
    LET result == proc[r].result
    IN \/ /\ Replayed(r) # {}
          /\ Answer(r, IF \E e \in Replayed(r) : e.result = result THEN "ok" ELSE "stale", 0)
          /\ UNCHANGED <<run, log>>
       \/ /\ Replayed(r) = {} /\ ~Leased(r, proc[r].fence)
          /\ Answer(r, "stale", 0)
          /\ UNCHANGED <<run, log>>
       \/ /\ Replayed(r) = {} /\ Leased(r, proc[r].fence)
          /\ log' = log \cup {[fence |-> proc[r].fence, runner |-> r, result |-> result]}
          /\ run' = [run EXCEPT !.state = IF result = "known" THEN "completed"
                                          ELSE IF run.attempts < MaxAttempts THEN "retry"
                                          ELSE "failed",
                                !.wait = RetryDelay]
          /\ Answer(r, "ok", 0)

Serve(r, kind) ==
    /\ call[r].kind = kind /\ call[r].reply = "none"
    /\ CASE kind = "register" -> ServeRegister(r) /\ UNCHANGED log
         [] kind = "claim" -> ServeClaim(r) /\ UNCHANGED log
         [] kind = "heartbeat" -> ServeHeartbeat(r) /\ UNCHANGED log
         [] kind = "complete" -> ServeComplete(r) /\ UNCHANGED <<seen, proc>>
    /\ UNCHANGED <<site, crashes>>
-----------------------------------------------------------------------------
(* The runner *)

At(r, pc) == proc[r].pc = pc
Goto(r, pc) == proc' = [proc EXCEPT ![r].pc = pc]
Rest(r, pc) == proc' = [proc EXCEPT ![r] = [Boot EXCEPT !.pc = pc, !.wait = PollInterval,
                                                        !.registered = proc[r].registered]]
Issue(r, kind) == call' = [call EXCEPT ![r] = [NoCall EXCEPT !.kind = kind]]
HangUp(r) == call' = [call EXCEPT ![r] = NoCall]

Register(r) ==
    /\ At(r, "register")
    /\ Issue(r, "register") /\ Goto(r, "calling")
    /\ UNCHANGED <<site, run, log, seen, crashes>>

\* Mutant: the age of the registration is not looked at.
ClaimWithoutRefresh(r) ==
    /\ At(r, "loop")
    /\ Issue(r, "claim") /\ Goto(r, "calling")
    /\ UNCHANGED <<site, run, log, seen, crashes>>

\* The inner loop: register again when the registration is old, else claim.
Loop(r) ==
    /\ At(r, "loop")
    /\ IF proc[r].registered > RegistrationInterval
       THEN Rest(r, "rest") /\ UNCHANGED call
       ELSE Issue(r, "claim") /\ Goto(r, "calling")
    /\ UNCHANGED <<site, run, log, seen, crashes>>

Wake(r) ==
    /\ proc[r].wait = 0
    /\ \/ At(r, "rest") /\ Goto(r, "register")
       \/ At(r, "pause") /\ Goto(r, "loop")
       \/ At(r, "backoff") /\ Goto(r, "submit")
    /\ UNCHANGED <<site, run, log, seen, call, crashes>>

\* The heartbeat goroutine: one call at a time while the Check executes.
Renew(r) ==
    /\ At(r, "executing") /\ proc[r].renewIn = 0 /\ call[r] = NoCall
    /\ Issue(r, "heartbeat")
    /\ proc' = [proc EXCEPT ![r].renewIn = RenewInterval]
    /\ UNCHANGED <<site, run, log, seen, crashes>>

\* Execute returns a result or an error, and renewal is told to stop.
ExecuteDone(r) ==
    /\ At(r, "executing") /\ proc[r].jobLeft > 0
    /\ \E result \in {"known", "error"} :
          proc' = [proc EXCEPT ![r].pc = "joining", ![r].result = result]
    /\ UNCHANGED <<site, run, log, seen, call, crashes>>

\* The job's own deadline cancels Execute and a heartbeat on its way.  Renewal
\* reports the deadline, and nothing is submitted; when it sees Execute's end
\* first, the run is reported as an error.
JobTimesOut(r) ==
    /\ At(r, "executing") /\ proc[r].jobLeft = 0
    /\ HangUp(r)
    /\ \/ Rest(r, "pause")
       \/ /\ call[r] = NoCall
          /\ proc' = [proc EXCEPT ![r].pc = "submit", ![r].result = "error", ![r].renewIn = 0]
    /\ UNCHANGED <<site, run, log, seen, crashes>>

\* executeClaim waits for a heartbeat that is still on its way.
Join(r) ==
    /\ At(r, "joining") /\ call[r] = NoCall
    /\ proc' = [proc EXCEPT ![r].pc = "submit", ![r].renewIn = 0, ![r].jobLeft = 0]
    /\ UNCHANGED <<site, run, log, seen, call, crashes>>

Submit(r) ==
    /\ At(r, "submit")
    /\ IF proc[r].tries >= SubmitAttempts
       THEN Rest(r, "pause") /\ UNCHANGED call
       ELSE /\ Issue(r, "complete")
            /\ proc' = [proc EXCEPT ![r].pc = "calling", ![r].tries = @ + 1]
    /\ UNCHANGED <<site, run, log, seen, crashes>>

\* The runner reads an answer.  "done" remembers that a completion was
\* acknowledged until the next poll.
Deliver(r, kind) ==
    LET reply == call[r].reply
    IN /\ call[r].kind = kind /\ reply # "none"
       /\ HangUp(r)
       /\ CASE kind = "register" ->
                 proc' = [proc EXCEPT ![r].pc = "loop", ![r].registered = 0]
            [] kind = "claim" ->
                 \/ reply = "forbidden" /\ Goto(r, "gone")
                 \/ reply = "nothing" /\ Rest(r, "pause")
                 \/ /\ reply = "claim"
                    /\ proc' = [proc EXCEPT ![r].pc = "executing", ![r].fence = call[r].fence,
                                            ![r].renewIn = RenewInterval,
                                            ![r].jobLeft = JobTimeout]
            [] kind = "heartbeat" ->
                 IF reply = "ok" THEN UNCHANGED proc ELSE Rest(r, "pause")
            [] kind = "complete" ->
                 IF reply = "ok"
                 THEN proc' = [proc EXCEPT ![r].pc = "done"]
                 ELSE Rest(r, "pause")
       /\ UNCHANGED <<site, run, log, seen, crashes>>

Acknowledged(r) ==
    /\ At(r, "done")
    /\ Rest(r, "pause")
    /\ UNCHANGED <<site, run, log, seen, call, crashes>>

\* Mutant: a failed heartbeat does not stop the execution.
ShrugOff(r, kind) ==
    /\ call[r].kind = kind
    /\ HangUp(r)
    /\ CASE kind \in {"register", "claim"} -> Rest(r, "rest")
         [] kind = "heartbeat" -> UNCHANGED proc
         [] kind = "complete" ->
              proc' = [proc EXCEPT ![r].pc = "backoff", ![r].wait = proc[r].tries]
    /\ UNCHANGED <<site, run, log, seen, crashes>>

\* No answer: a lost connection, or the timeout.  The request may have been
\* handled all the same.
Fail(r, kind) ==
    /\ call[r].kind = kind
    /\ HangUp(r)
    /\ CASE kind \in {"register", "claim"} -> Rest(r, "rest")
         [] kind = "heartbeat" -> Rest(r, "pause")
         [] kind = "complete" ->
              proc' = [proc EXCEPT ![r].pc = "backoff", ![r].wait = proc[r].tries]
    /\ UNCHANGED <<site, run, log, seen, crashes>>

\* The process ends, with what it was doing, and is started again: it was killed, or
\* its Telegram worker stopped, which cancels the claim, the execution or the
\* completion at work and ends Run at the next round of the inner loop.
Crash(r) ==
    /\ crashes < site.crashes /\ ~At(r, "gone")
    /\ crashes' = crashes + 1
    /\ HangUp(r)
    /\ proc' = [proc EXCEPT ![r] = Boot]
    /\ UNCHANGED <<site, run, log, seen>>
-----------------------------------------------------------------------------
(* Time *)

Down(n) == IF n > 0 THEN n - 1 ELSE 0

\* Nothing that is due now is left undone.
Settled(r) ==
    /\ call[r] # NoCall => call[r].age < CallTimeout
    /\ call[r] = NoCall =>
          \/ At(r, "gone")
          \/ proc[r].pc \in {"rest", "pause", "backoff"} /\ proc[r].wait > 0
          \/ At(r, "executing") /\ proc[r].renewIn > 0
    /\ proc[r].pc \in {"executing", "joining"} => proc[r].jobLeft > 0

Ages(p) ==
    [p EXCEPT !.wait = Down(@), !.renewIn = Down(@), !.jobLeft = Down(@),
              !.registered = Smaller(@ + 1, RegistrationInterval + 1),
              !.unrenewed = IF p.pc = "executing" \/ p.pc = "calling"
                            THEN Smaller(@ + 1, RenewInterval + 2 * CallTimeout + 1) ELSE 0]

Tick ==
    /\ \A r \in site.runners : Settled(r)
    /\ run' = [run EXCEPT !.lease = Down(@), !.deadline = Down(@), !.wait = Down(@)]
    /\ seen' = [r \in Runners |-> Smaller(seen[r] + 1, RunnerTTL + 1)]
    /\ proc' = [r \in Runners |-> Ages(proc[r])]
    /\ call' = [r \in Runners |-> IF call[r] = NoCall THEN NoCall
                                  ELSE [call[r] EXCEPT !.age = @ + 1]]
    /\ UNCHANGED <<site, log, crashes>>

Kinds == {"register", "claim", "heartbeat", "complete"}
Local(r) == \/ Register(r) \/ Loop(r) \/ Wake(r) \/ Renew(r) \/ ExecuteDone(r)
            \/ JobTimesOut(r) \/ Join(r) \/ Submit(r) \/ Acknowledged(r)

Next ==
    \/ \E r \in site.runners : Local(r) \/ Crash(r)
    \/ \E r \in site.runners, k \in Kinds : Serve(r, k) \/ Deliver(r, k) \/ Fail(r, k)
    \/ Tick

Spec == Init /\ [][Next]_vars

Alone(r) == site.runners = {r}
Loners == {r \in Runners : \E s \in Sites : s.runners = {r}}

\* Processes run, timeouts fire, and a network that is tried again and again
\* now and then carries a request, and an answer, of each kind.  This is asked
\* of a runner that is left alone; with a second one less would do.
FairSpec ==
    /\ Spec
    /\ \A r \in Loners :
          /\ WF_vars(Alone(r) /\ Tick)
          /\ WF_vars(Alone(r) /\ Local(r))
          /\ \A k \in Kinds :
                /\ WF_vars(Alone(r) /\ call[r].age = CallTimeout /\ Fail(r, k))
                /\ SF_vars(Alone(r) /\ Serve(r, k)) /\ SF_vars(Alone(r) /\ Deliver(r, k))
-----------------------------------------------------------------------------
(* Properties *)

\* A partitioned runner stops by itself: no Check is executed longer than one
\* renewal interval and two call timeouts after the coordinator last granted or
\* renewed its lease.
StopsWhenCutOff ==
    \A r \in Runners :
        At(r, "executing") => proc[r].unrenewed =< RenewInterval + 2 * CallTimeout

\* When a lease outlasts that silence, and the attempt's deadline the job's own
\* timeout, no two runners execute the run at the same time.  The defaults (30 s
\* against 5 s + 2 * 15 s, and 2 min against 3 min) do not go that far: there
\* only the fence keeps the late result out.
GenerousTimers ==
    /\ site.lease > RenewInterval + 2 * CallTimeout
    /\ site.execution > JobTimeout + CallTimeout

OneExecutor ==
    GenerousTimers =>
        \A q, r \in Runners : At(q, "executing") /\ At(r, "executing") => q = r

\* What a runner was told is recorded is recorded: its own result, under its
\* own fence, also when the first answer was lost and the result sent again.
AcknowledgedIsRecorded ==
    \A r \in Runners :
        At(r, "done") =>
            [fence |-> proc[r].fence, runner |-> r, result |-> proc[r].result] \in log

\* A runner whose credential is good is never sent away for a registration
\* that ran out: it registers again in time, whatever calls are lost.
NeverSentAway == \A r \in Runners : ~At(r, "gone")

\* A run that is due is completed or failed in the end, over lost requests,
\* lost answers, cut-off runners and crashes, though only one runner is left.
RunSettles ==
    <>((\A r \in Runners : ~Alone(r)) \/ run.state \in {"completed", "failed"})
=============================================================================
