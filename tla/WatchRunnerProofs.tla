-------------------------- MODULE WatchRunnerProofs --------------------------
(* What holds of WatchRunner for any number of runners and any timers that   *)
(* meet the assumptions.                                                     *)
EXTENDS WatchRunner, TLAPS

Pcs == {"register", "calling", "loop", "rest", "pause", "backoff", "submit", "executing",
        "joining", "done", "gone"}
Results == {"none", "known", "error"}
Replies == {"none", "ok", "nothing", "claim", "forbidden", "stale"}
ProcType == [pc : Pcs, fence : Nat, registered : Nat, renewIn : Nat, jobLeft : Nat,
             wait : Nat, tries : Nat, result : Results, unrenewed : Nat]
CallType == [kind : Kinds \cup {"none"}, age : Nat, reply : Replies, fence : Nat]
RunType == [state : {"due", "retry", "running", "completed", "failed"},
            runner : Runners \cup {NoRunner}, fence : Nat, attempts : Nat,
            lease : Nat, deadline : Nat, wait : Nat]
LogType == [fence : Nat, runner : Runners, result : Results]

TypeOK ==
    /\ site \in Sites /\ run \in RunType /\ log \subseteq LogType
    /\ seen \in [Runners -> Nat]
    /\ proc \in [Runners -> ProcType] /\ call \in [Runners -> CallType]

\* A call belongs to the label that waits for it; a runner of no deployment does
\* nothing; a claim is never refused.
Shape(r) ==
    /\ call[r].kind = "none" => call[r] = NoCall
    /\ proc[r].pc = "calling" <=> call[r].kind \in {"register", "claim", "complete"}
    /\ call[r].kind = "heartbeat" => proc[r].pc \in {"executing", "joining"}
    /\ call[r].kind = "claim" => call[r].reply # "forbidden"
    /\ call[r].age =< CallTimeout /\ proc[r].pc # "gone"
    /\ r \notin site.runners => proc[r].pc = "register" /\ call[r] = NoCall

\* A completion that was answered for is in the log, until the next poll.
Acked(r) ==
    proc[r].pc = "done" \/ (call[r].kind = "complete" /\ call[r].reply = "ok") =>
        [fence |-> proc[r].fence, runner |-> r, result |-> proc[r].result] \in log

\* The coordinator saw a runner not much earlier than the runner thinks.
Registered(r) ==
    /\ proc[r].pc \notin {"rest", "register"} /\ call[r].kind # "register" =>
          (proc[r].registered =< RegistrationInterval => seen[r] =< proc[r].registered + CallTimeout)
    /\ call[r].kind = "register" /\ call[r].reply # "none" => seen[r] =< call[r].age
    /\ call[r].kind = "claim" /\ call[r].reply = "none" =>
          seen[r] =< RegistrationInterval + CallTimeout + call[r].age

\* How long ago the lease was renewed, by what the runner waits for.
Renewed(r) ==
    /\ call[r].kind = "claim" /\ call[r].reply = "claim" => proc[r].unrenewed =< call[r].age
    /\ proc[r].pc = "executing" =>
          /\ proc[r].renewIn =< RenewInterval
          /\ call[r].kind = "none" =>
                proc[r].unrenewed + proc[r].renewIn =< CallTimeout + RenewInterval
          /\ call[r].kind = "heartbeat" =>
                proc[r].unrenewed =< call[r].age + (IF call[r].reply = "ok" THEN 0
                                                    ELSE CallTimeout + RenewInterval)

\* With generous timers the run is leased to whoever executes it, or is about to.
\* Its lease runs out no earlier than the silence since its renewal allows, or than
\* the attempt's deadline, and that one later than the job's own timeout.
Holds(r) ==
    /\ call[r].kind = "claim" /\ call[r].reply = "claim" =>
          /\ run.state = "running" /\ run.runner = r /\ run.fence = call[r].fence
          /\ run.deadline + call[r].age > JobTimeout + CallTimeout
          /\ run.lease + proc[r].unrenewed >= site.lease \/ run.lease >= run.deadline
    /\ proc[r].pc = "executing" =>
          /\ run.state = "running" /\ run.runner = r /\ run.fence = proc[r].fence
          /\ run.deadline > proc[r].jobLeft
          /\ run.lease + proc[r].unrenewed >= site.lease \/ run.lease >= run.deadline

Fine(r) == Shape(r) /\ Acked(r) /\ Registered(r) /\ Renewed(r)
RunnerInv ==
    /\ TypeOK /\ \A r \in Runners : Fine(r)
    /\ GenerousTimers => \A r \in Runners : Holds(r)
-----------------------------------------------------------------------------
(* What a step does to one runner, field by field *)

\* The runner's locals after the step; `wait` and `tries` are of no interest here.
Becomes(r, pc, fence, registered, renewIn, jobLeft, result, unrenewed) ==
    /\ proc' \in [Runners -> ProcType] /\ \A q \in Runners \ {r} : proc'[q] = proc[q]
    /\ proc'[r].pc = pc /\ proc'[r].fence = fence /\ proc'[r].registered = registered
    /\ proc'[r].renewIn = renewIn /\ proc'[r].jobLeft = jobLeft /\ proc'[r].result = result
    /\ proc'[r].unrenewed = unrenewed

\* Only its label changes.
GoesTo(r, pc) ==
    Becomes(r, pc, proc[r].fence, proc[r].registered, proc[r].renewIn, proc[r].jobLeft,
            proc[r].result, proc[r].unrenewed)

\* It gives up what it was doing.
Rests(r, pc) == Becomes(r, pc, 0, proc[r].registered, 0, 0, "none", 0)

Says(r, kind, age, reply, fence) ==
    /\ call' \in [Runners -> CallType] /\ \A q \in Runners \ {r} : call'[q] = call[q]
    /\ call'[r].kind = kind /\ call'[r].age = age /\ call'[r].reply = reply /\ call'[r].fence = fence
    /\ kind = "none" => call'[r] = NoCall

LEMMA ProcFields ==
    ASSUME NEW x \in ProcType
    PROVE  /\ DOMAIN x = {"pc", "fence", "registered", "renewIn", "jobLeft", "wait", "tries",
                          "result", "unrenewed"}
           /\ x.pc \in Pcs /\ x.fence \in Nat /\ x.registered \in Nat /\ x.renewIn \in Nat
           /\ x.jobLeft \in Nat /\ x.wait \in Nat /\ x.tries \in Nat /\ x.result \in Results
           /\ x.unrenewed \in Nat
  BY DEF ProcType

LEMMA CallFields ==
    ASSUME NEW x \in CallType
    PROVE  /\ DOMAIN x = {"kind", "age", "reply", "fence"}
           /\ x.kind \in Kinds \cup {"none"} /\ x.age \in Nat /\ x.reply \in Replies /\ x.fence \in Nat
  BY DEF CallType

LEMMA ProcSet ==
    ASSUME TypeOK, NEW r \in Runners, NEW x \in ProcType, proc' = [proc EXCEPT ![r] = x]
    PROVE  Becomes(r, x.pc, x.fence, x.registered, x.renewIn, x.jobLeft, x.result, x.unrenewed)
  BY DEF TypeOK, Becomes

LEMMA CallSet ==
    ASSUME TypeOK, NEW r \in Runners, NEW x \in CallType, call' = [call EXCEPT ![r] = x],
           x.kind = "none" => x = NoCall
    PROVE  Says(r, x.kind, x.age, x.reply, x.fence)
  BY DEF TypeOK, Says

LEMMA BootType ==
    /\ Boot \in ProcType
    /\ Boot.pc = "register" /\ Boot.fence = 0 /\ Boot.registered = 0 /\ Boot.renewIn = 0
    /\ Boot.jobLeft = 0 /\ Boot.result = "none" /\ Boot.unrenewed = 0
  BY DEF Boot, ProcType, Pcs, Results

LEMMA NoCallType ==
    /\ NoCall \in CallType
    /\ NoCall.kind = "none" /\ NoCall.age = 0 /\ NoCall.reply = "none" /\ NoCall.fence = 0
  BY DEF NoCall, CallType, Replies

LEMMA GotoGoes ==
    ASSUME TypeOK, NEW r \in Runners, NEW pc \in Pcs, Goto(r, pc)
    PROVE  GoesTo(r, pc)
  <1> DEFINE x == [proc[r] EXCEPT !.pc = pc]
  <1>1. proc \in [Runners -> ProcType] /\ proc[r] \in ProcType
    BY DEF TypeOK
  <1>2. x \in ProcType
    BY Zenon, <1>1 DEF ProcType
  <1>3. /\ x.pc = pc /\ x.fence = proc[r].fence /\ x.registered = proc[r].registered
        /\ x.renewIn = proc[r].renewIn /\ x.jobLeft = proc[r].jobLeft /\ x.result = proc[r].result
        /\ x.unrenewed = proc[r].unrenewed
    BY Zenon, <1>1, ProcFields
  <1>4. proc' = [proc EXCEPT ![r] = x]
    BY <1>1 DEF Goto
  <1> HIDE DEF x
  <1>5. Becomes(r, x.pc, x.fence, x.registered, x.renewIn, x.jobLeft, x.result, x.unrenewed)
    BY <1>2, <1>4, ProcSet
  <1> QED BY <1>3, <1>5 DEF GoesTo

LEMMA RestRests ==
    ASSUME TypeOK, NEW r \in Runners, NEW pc \in Pcs, Rest(r, pc)
    PROVE  Rests(r, pc)
  <1> DEFINE n == proc[r].registered
             x == [Boot EXCEPT !.pc = pc, !.wait = PollInterval, !.registered = n]
  <1>1. proc \in [Runners -> ProcType] /\ n \in Nat /\ PollInterval \in Nat
    BY ProcFields, TimersAssumption DEF TypeOK
  <1>2. proc' = [proc EXCEPT ![r] = x]
    BY DEF Rest
  <1> HIDE DEF n
  <1>3. x \in ProcType
    BY Zenon, <1>1, BootType DEF ProcType
  <1>4. /\ x.pc = pc /\ x.fence = 0 /\ x.registered = n /\ x.renewIn = 0 /\ x.jobLeft = 0
        /\ x.result = "none" /\ x.unrenewed = 0
    BY Zenon, BootType, ProcFields
  <1> HIDE DEF x
  <1>5. Becomes(r, x.pc, x.fence, x.registered, x.renewIn, x.jobLeft, x.result, x.unrenewed)
    BY <1>2, <1>3, ProcSet
  <1> QED BY <1>4, <1>5 DEF Rests, n

LEMMA IssueSays ==
    ASSUME TypeOK, NEW r \in Runners, NEW kind \in Kinds, Issue(r, kind)
    PROVE  Says(r, kind, 0, "none", 0)
  <1> DEFINE x == [NoCall EXCEPT !.kind = kind]
  <1>1. x \in CallType
    BY Zenon, NoCallType DEF CallType
  <1>2. x.kind = kind /\ x.age = 0 /\ x.reply = "none" /\ x.fence = 0
    BY Zenon, NoCallType, CallFields
  <1>3. call' = [call EXCEPT ![r] = x]
    BY DEF Issue
  <1>4. kind # "none"
    BY DEF Kinds
  <1> HIDE DEF x
  <1>5. Says(r, x.kind, x.age, x.reply, x.fence)
    BY <1>1, <1>2, <1>3, <1>4, CallSet
  <1> QED BY <1>2, <1>5

LEMMA HangUpSays ==
    ASSUME TypeOK, NEW r \in Runners, HangUp(r)
    PROVE  Says(r, "none", 0, "none", 0)
  <1>1. Says(r, NoCall.kind, NoCall.age, NoCall.reply, NoCall.fence)
    BY NoCallType, CallSet DEF HangUp
  <1> QED BY <1>1, NoCallType

LEMMA AnswerSays ==
    ASSUME TypeOK, NEW r \in Runners, NEW reply \in Replies, NEW fence \in Nat,
           call[r].kind # "none", Answer(r, reply, fence)
    PROVE  Says(r, call[r].kind, call[r].age, reply, fence)
  <1> DEFINE x == [call[r] EXCEPT !.reply = reply, !.fence = fence]
  <1>1. call \in [Runners -> CallType] /\ call[r] \in CallType
    BY DEF TypeOK
  <1>2. x \in CallType
    BY Zenon, <1>1 DEF CallType
  <1>3. x.kind = call[r].kind /\ x.age = call[r].age /\ x.reply = reply /\ x.fence = fence
    BY Zenon, <1>1, CallFields
  <1>4. call' = [call EXCEPT ![r] = x]
    BY <1>1 DEF Answer
  <1> HIDE DEF x
  <1>5. Says(r, x.kind, x.age, x.reply, x.fence)
    BY <1>2, <1>3, <1>4, CallSet
  <1> QED BY <1>3, <1>5
-----------------------------------------------------------------------------
(* Steps of one runner *)

\* What a step of r owes the invariant: its own part, and to leave the others theirs.
Good(r) ==
    /\ TypeOK' /\ Fine(r)' /\ (GenerousTimers => Holds(r)')
    /\ site' = site /\ log \subseteq log'
    /\ \A q \in Runners \ {r} : proc'[q] = proc[q] /\ call'[q] = call[q] /\ seen'[q] = seen[q]
    /\ run' = run \/ Claimable \/ run.runner = r

Kept == UNCHANGED <<site, run, log, seen>>

LEMMA SiteFacts ==
    ASSUME TypeOK
    PROVE  /\ site.runners \subseteq Runners /\ site.lease \in Nat \ {0} /\ site.execution \in Nat \ {0}
           /\ CallTimeout \in Nat \ {0} /\ RenewInterval \in Nat \ {0} /\ JobTimeout \in Nat \ {0}
           /\ RegistrationInterval \in Nat \ {0} /\ RunnerTTL \in Nat \ {0} /\ RetryDelay \in Nat
           /\ PollInterval \in Nat \ {0} /\ NoRunner \notin Runners
  BY TimersAssumption DEF TypeOK, SiteType

LEMMA RunnerFacts ==
    ASSUME RunnerInv, NEW r \in site.runners
    PROVE  /\ TypeOK /\ r \in Runners /\ Fine(r) /\ (GenerousTimers => Holds(r))
           /\ proc[r] \in ProcType /\ call[r] \in CallType /\ seen[r] \in Nat
           /\ proc[r].pc \notin {"calling", "executing", "joining"} => call[r] = NoCall /\ call[r].kind = "none"
  <1>1. TypeOK /\ r \in Runners /\ Fine(r) /\ (GenerousTimers => Holds(r))
    BY SiteFacts DEF RunnerInv
  <1>2. proc[r] \in ProcType /\ call[r] \in CallType /\ seen[r] \in Nat
    BY <1>1 DEF TypeOK
  <1>3. proc[r].pc \notin {"calling", "executing", "joining"} => call[r] = NoCall /\ call[r].kind = "none"
    BY <1>1, <1>2, CallFields DEF Fine, Shape, Kinds
  <1> QED BY <1>1, <1>2, <1>3

LEMMA SilenceSays ==
    ASSUME TypeOK, NEW r \in Runners, call[r] = NoCall, call' = call
    PROVE  Says(r, "none", 0, "none", 0)
  BY NoCallType DEF TypeOK, Says

\* A local step is good when the runner's own part holds afterwards.
LEMMA LocalGood ==
    ASSUME TypeOK, NEW r \in Runners, Kept, Fine(r)', GenerousTimers => Holds(r)',
           proc' \in [Runners -> ProcType], call' \in [Runners -> CallType],
           \A q \in Runners \ {r} : proc'[q] = proc[q] /\ call'[q] = call[q]
    PROVE  Good(r)
  BY DEF Good, Kept, TypeOK

\* Giving up is always good.
LEMMA RestGood ==
    ASSUME RunnerInv, NEW r \in site.runners, Kept, Says(r, "none", 0, "none", 0),
           NEW pc \in {"rest", "pause"}, Rests(r, pc),
           pc = "pause" => proc[r].pc \notin {"rest", "register"} /\ call[r].kind # "register"
    PROVE  Good(r)
  <1>1. /\ TypeOK /\ r \in Runners /\ Fine(r) /\ (GenerousTimers => Holds(r))
        /\ proc[r] \in ProcType /\ call[r] \in CallType /\ seen[r] \in Nat
    BY RunnerFacts
  <1>2. /\ proc'[r].pc = pc /\ proc'[r].registered = proc[r].registered
        /\ call'[r] = NoCall /\ call'[r].kind = "none" /\ call'[r].age = 0 /\ call'[r].reply = "none"
        /\ proc' \in [Runners -> ProcType] /\ call' \in [Runners -> CallType]
        /\ \A q \in Runners \ {r} : proc'[q] = proc[q] /\ call'[q] = call[q]
    BY DEF Rests, Becomes, Says
  <1>3. Shape(r)' /\ Acked(r)' /\ Renewed(r)' /\ Holds(r)'
    BY <1>2, SiteFacts, <1>1 DEF Kept, Shape, Acked, Renewed, Holds
  <1>4. Registered(r)'
    BY <1>1, <1>2 DEF Kept, Registered, Fine
  <1> QED BY <1>1, <1>2, <1>3, <1>4, LocalGood DEF Fine

LEMMA BeginningsGood ==
    ASSUME RunnerInv, NEW r \in site.runners, Register(r) \/ Loop(r) \/ Wake(r) \/ Acknowledged(r)
    PROVE  Good(r)
  <1>1. /\ TypeOK /\ r \in Runners /\ Fine(r) /\ (GenerousTimers => Holds(r))
        /\ proc[r] \in ProcType /\ call[r] \in CallType /\ seen[r] \in Nat
        /\ proc[r].pc \notin {"calling", "executing", "joining"} => call[r] = NoCall /\ call[r].kind = "none"
    BY RunnerFacts
  <1>2. Kept
    BY DEF Kept, Register, Loop, Wake, Acknowledged
  <1>3. CASE Register(r)
    <2>1. proc[r].pc = "register" /\ GoesTo(r, "calling") /\ Says(r, "register", 0, "none", 0)
      BY <1>1, <1>3, GotoGoes, IssueSays DEF Register, At, Pcs, Kinds
    <2>2. Fine(r)' /\ (GenerousTimers => Holds(r)')
      BY <1>1, <1>2, <2>1, SiteFacts
         DEF GoesTo, Becomes, Says, Kept, Fine, Shape, Acked, Registered, Renewed, Holds
    <2> QED BY <1>1, <1>2, <2>1, <2>2, LocalGood DEF GoesTo, Becomes, Says
  <1>4. CASE Loop(r)
    <2>1. proc[r].pc = "loop" /\ call[r] = NoCall /\ call[r].kind = "none"
      BY <1>1, <1>4 DEF Loop, At
    <2>2. CASE Rest(r, "rest") /\ UNCHANGED call
      BY <1>1, <1>2, <2>1, <2>2, RestRests, SilenceSays, RestGood DEF Pcs
    <2>3. CASE Issue(r, "claim") /\ Goto(r, "calling") /\ proc[r].registered =< RegistrationInterval
      <3>1. GoesTo(r, "calling") /\ Says(r, "claim", 0, "none", 0)
        BY <1>1, <2>3, GotoGoes, IssueSays DEF Pcs, Kinds
      <3>2. proc[r].registered \in Nat
        BY <1>1, ProcFields
      <3>3. Fine(r)' /\ (GenerousTimers => Holds(r)')
        BY <1>1, <1>2, <2>1, <2>3, <3>1, <3>2, SiteFacts
           DEF GoesTo, Becomes, Says, Kept, Fine, Shape, Acked, Registered, Renewed, Holds
      <3> QED BY <1>1, <1>2, <3>1, <3>3, LocalGood DEF GoesTo, Becomes, Says
    <2>4. proc[r].registered > RegistrationInterval <=> ~(proc[r].registered =< RegistrationInterval)
      BY <1>1, ProcFields, SiteFacts
    <2> QED BY <1>4, <2>2, <2>3, <2>4 DEF Loop
  <1>5. CASE Wake(r)
    <2>1. PICK from \in {"rest", "pause", "backoff"} :
            /\ proc[r].pc = from
            /\ Goto(r, IF from = "rest" THEN "register" ELSE IF from = "pause" THEN "loop" ELSE "submit")
      BY <1>5 DEF Wake, At
    <2> DEFINE to == IF from = "rest" THEN "register" ELSE IF from = "pause" THEN "loop" ELSE "submit"
    <2>2. to \in {"register", "loop", "submit"} /\ (to # "register" => from # "rest") /\ Goto(r, to)
      BY <2>1
    <2> HIDE DEF to
    <2>3. GoesTo(r, to) /\ Says(r, "none", 0, "none", 0) /\ call[r].kind = "none"
      BY <1>1, <1>5, <2>1, <2>2, GotoGoes, SilenceSays DEF Pcs, Wake
    <2>4. Fine(r)' /\ (GenerousTimers => Holds(r)')
      BY <1>1, <1>2, <2>1, <2>2, <2>3, SiteFacts
         DEF GoesTo, Becomes, Says, Kept, Fine, Shape, Acked, Registered, Renewed, Holds
    <2> QED BY <1>1, <1>2, <2>3, <2>4, LocalGood DEF GoesTo, Becomes, Says
  <1>6. CASE Acknowledged(r)
    <2>1. proc[r].pc = "done" /\ Rest(r, "pause") /\ call' = call
      BY <1>6 DEF Acknowledged, At
    <2> QED BY <1>1, <1>2, <2>1, RestRests, SilenceSays, RestGood DEF Pcs
  <1> QED BY <1>3, <1>4, <1>5, <1>6


LEMMA ExecutingGood ==
    ASSUME RunnerInv, NEW r \in site.runners, Renew(r) \/ ExecuteDone(r) \/ JobTimesOut(r)
    PROVE  Good(r)
  <1>1. /\ TypeOK /\ r \in Runners /\ Fine(r) /\ (GenerousTimers => Holds(r))
        /\ proc[r] \in ProcType /\ call[r] \in CallType /\ seen[r] \in Nat
    BY RunnerFacts
  <1>2. Kept /\ proc[r].pc = "executing" /\ proc \in [Runners -> ProcType]
    BY <1>1 DEF Kept, Renew, ExecuteDone, JobTimesOut, At, TypeOK
  <1>3. CASE Renew(r)
    <2> DEFINE x == [proc[r] EXCEPT !.renewIn = RenewInterval]
    <2>1. proc' = [proc EXCEPT ![r] = x] /\ Says(r, "heartbeat", 0, "none", 0)
      BY <1>1, <1>2, <1>3, IssueSays DEF Renew, Kinds
    <2>2. RenewInterval \in Nat
      BY <1>1, SiteFacts
    <2>3. x \in ProcType
      BY Zenon, <1>1, <2>2 DEF ProcType
    <2>4. /\ x.pc = "executing" /\ x.fence = proc[r].fence /\ x.registered = proc[r].registered
          /\ x.renewIn = RenewInterval /\ x.jobLeft = proc[r].jobLeft /\ x.result = proc[r].result
          /\ x.unrenewed = proc[r].unrenewed
      BY Zenon, <1>1, <1>2, ProcFields
    <2> HIDE DEF x
    <2>5. Becomes(r, x.pc, x.fence, x.registered, x.renewIn, x.jobLeft, x.result, x.unrenewed)
      BY <1>1, <2>1, <2>3, ProcSet
    <2>6. Becomes(r, "executing", proc[r].fence, proc[r].registered, RenewInterval, proc[r].jobLeft,
                  proc[r].result, proc[r].unrenewed)
      BY <2>4, <2>5
    <2>7. proc[r].renewIn = 0 /\ call[r] = NoCall /\ proc[r].unrenewed \in Nat
      BY <1>1, <1>3, ProcFields DEF Renew
    <2>8. Fine(r)' /\ (GenerousTimers => Holds(r)')
      BY <1>1, <1>2, <2>1, <2>6, <2>7, SiteFacts, NoCallType
         DEF Becomes, Says, Kept, Fine, Shape, Acked, Registered, Renewed, Holds
    <2> QED BY <1>1, <1>2, <2>1, <2>6, <2>8, LocalGood DEF Becomes, Says
  <1>4. CASE ExecuteDone(r)
    <2>1. PICK result \in {"known", "error"} :
            proc' = [proc EXCEPT ![r].pc = "joining", ![r].result = result]
      BY <1>4 DEF ExecuteDone
    <2> DEFINE x == [proc[r] EXCEPT !.pc = "joining", !.result = result]
    <2>2. proc' = [proc EXCEPT ![r] = x]
      BY <1>2, <2>1
    <2>3. "joining" \in Pcs /\ result \in Results
      BY DEF Pcs, Results
    <2>4. x \in ProcType
      BY Zenon, <1>1, <2>3 DEF ProcType
    <2>5. /\ x.pc = "joining" /\ x.fence = proc[r].fence /\ x.registered = proc[r].registered
          /\ x.renewIn = proc[r].renewIn /\ x.jobLeft = proc[r].jobLeft /\ x.result = result
          /\ x.unrenewed = proc[r].unrenewed
      BY Zenon, <1>1, ProcFields
    <2> HIDE DEF x
    <2>6. Becomes(r, x.pc, x.fence, x.registered, x.renewIn, x.jobLeft, x.result, x.unrenewed)
      BY <1>1, <2>2, <2>4, ProcSet
    <2>7. call' = call /\ call \in [Runners -> CallType]
      BY <1>1, <1>4 DEF ExecuteDone, TypeOK
    <2>8. Fine(r)' /\ (GenerousTimers => Holds(r)')
      BY <1>1, <1>2, <2>5, <2>6, <2>7, SiteFacts
         DEF Becomes, Kept, Fine, Shape, Acked, Registered, Renewed, Holds
    <2> QED BY <1>1, <1>2, <2>6, <2>7, <2>8, LocalGood DEF Becomes
  <1>5. CASE JobTimesOut(r)
    <2>1. Says(r, "none", 0, "none", 0)
      BY <1>1, <1>5, HangUpSays DEF JobTimesOut
    <2>2. CASE Rest(r, "pause")
      <3>1. Rests(r, "pause")
        BY <1>1, <2>2, RestRests DEF Pcs
      <3>2. call[r].kind # "register"
        BY <1>1, <1>2 DEF Fine, Shape
      <3> QED BY <1>2, <2>1, <3>1, <3>2, RestGood
    <2>3. CASE call[r] = NoCall /\ proc' = [proc EXCEPT ![r].pc = "submit", ![r].result = "error", ![r].renewIn = 0]
      <3> DEFINE x == [proc[r] EXCEPT !.pc = "submit", !.result = "error", !.renewIn = 0]
      <3>1. proc' = [proc EXCEPT ![r] = x]
        BY <1>2, <2>3
      <3>2. "submit" \in Pcs /\ "error" \in Results
        BY DEF Pcs, Results
      <3>3. x \in ProcType
        BY Zenon, <1>1, <3>2 DEF ProcType
      <3>4. /\ x.pc = "submit" /\ x.fence = proc[r].fence /\ x.registered = proc[r].registered
            /\ x.renewIn = 0 /\ x.jobLeft = proc[r].jobLeft /\ x.result = "error"
            /\ x.unrenewed = proc[r].unrenewed
        BY Zenon, <1>1, ProcFields
      <3> HIDE DEF x
      <3>5. Becomes(r, x.pc, x.fence, x.registered, x.renewIn, x.jobLeft, x.result, x.unrenewed)
        BY <1>1, <3>1, <3>3, ProcSet
      <3>6. Fine(r)' /\ (GenerousTimers => Holds(r)')
        BY <1>1, <1>2, <2>1, <2>3, <3>4, <3>5, SiteFacts, NoCallType
           DEF Becomes, Says, Kept, Fine, Shape, Acked, Registered, Renewed, Holds
      <3> QED BY <1>1, <1>2, <2>1, <3>5, <3>6, LocalGood DEF Becomes, Says
    <2> QED BY <1>5, <2>2, <2>3 DEF JobTimesOut
  <1> QED BY <1>3, <1>4, <1>5

LEMMA FinishingGood ==
    ASSUME RunnerInv, NEW r \in site.runners, Join(r) \/ Submit(r)
    PROVE  Good(r)
  <1>1. /\ TypeOK /\ r \in Runners /\ Fine(r) /\ (GenerousTimers => Holds(r))
        /\ proc[r] \in ProcType /\ call[r] \in CallType /\ seen[r] \in Nat
        /\ proc[r].pc \notin {"calling", "executing", "joining"} => call[r] = NoCall /\ call[r].kind = "none"
    BY RunnerFacts
  <1>2. Kept /\ proc \in [Runners -> ProcType]
    BY <1>1 DEF Kept, Join, Submit, TypeOK
  <1>3. CASE Join(r)
    <2> DEFINE x == [proc[r] EXCEPT !.pc = "submit", !.renewIn = 0, !.jobLeft = 0]
    <2>1. proc' = [proc EXCEPT ![r] = x]
      BY <1>2, <1>3 DEF Join
    <2>2. "submit" \in Pcs
      BY DEF Pcs
    <2>3. x \in ProcType
      BY Zenon, <1>1, <2>2 DEF ProcType
    <2>4. /\ x.pc = "submit" /\ x.fence = proc[r].fence /\ x.registered = proc[r].registered
          /\ x.renewIn = 0 /\ x.jobLeft = 0 /\ x.result = proc[r].result
          /\ x.unrenewed = proc[r].unrenewed
      BY Zenon, <1>1, ProcFields
    <2> HIDE DEF x
    <2>5. Becomes(r, x.pc, x.fence, x.registered, x.renewIn, x.jobLeft, x.result, x.unrenewed)
      BY <1>1, <2>1, <2>3, ProcSet
    <2>6. proc[r].pc = "joining" /\ call[r] = NoCall /\ Says(r, "none", 0, "none", 0)
      BY <1>1, <1>3, SilenceSays DEF Join, At
    <2>7. Fine(r)' /\ (GenerousTimers => Holds(r)')
      BY <1>1, <1>2, <2>4, <2>5, <2>6, SiteFacts, NoCallType
         DEF Becomes, Says, Kept, Fine, Shape, Acked, Registered, Renewed, Holds
    <2> QED BY <1>1, <1>2, <2>5, <2>6, <2>7, LocalGood DEF Becomes, Says
  <1>4. CASE Submit(r)
    <2>1. proc[r].pc = "submit" /\ call[r] = NoCall /\ call[r].kind = "none"
      BY <1>1, <1>4 DEF Submit, At
    <2>2. CASE Rest(r, "pause") /\ UNCHANGED call
      BY <1>1, <1>2, <2>1, <2>2, RestRests, SilenceSays, RestGood DEF Pcs
    <2>3. CASE Issue(r, "complete") /\ proc' = [proc EXCEPT ![r].pc = "calling", ![r].tries = @ + 1]
      <3> DEFINE n == proc[r].tries + 1
                 x == [proc[r] EXCEPT !.pc = "calling", !.tries = n]
      <3>1. n \in Nat /\ "calling" \in Pcs
        BY <1>1, ProcFields DEF Pcs
      <3>2. proc' = [proc EXCEPT ![r] = x]
        BY <1>2, <2>3
      <3> HIDE DEF n
      <3>3. x \in ProcType
        BY Zenon, <1>1, <3>1 DEF ProcType
      <3>4. /\ x.pc = "calling" /\ x.fence = proc[r].fence /\ x.registered = proc[r].registered
            /\ x.renewIn = proc[r].renewIn /\ x.jobLeft = proc[r].jobLeft /\ x.result = proc[r].result
            /\ x.unrenewed = proc[r].unrenewed
        BY Zenon, <1>1, ProcFields
      <3> HIDE DEF x
      <3>5. Becomes(r, x.pc, x.fence, x.registered, x.renewIn, x.jobLeft, x.result, x.unrenewed)
        BY <1>1, <3>2, <3>3, ProcSet
      <3>6. Says(r, "complete", 0, "none", 0)
        BY <1>1, <2>3, IssueSays DEF Kinds
      <3>7. Fine(r)' /\ (GenerousTimers => Holds(r)')
        BY <1>1, <1>2, <2>1, <3>4, <3>5, <3>6, SiteFacts
           DEF Becomes, Says, Kept, Fine, Shape, Acked, Registered, Renewed, Holds
      <3> QED BY <1>1, <1>2, <3>5, <3>6, <3>7, LocalGood DEF Becomes, Says
    <2> QED BY <1>4, <2>2, <2>3 DEF Submit
  <1> QED BY <1>3, <1>4


LEMMA DeliverGood ==
    ASSUME RunnerInv, NEW r \in site.runners, NEW kind \in Kinds, Deliver(r, kind)
    PROVE  Good(r)
  <1>1. /\ TypeOK /\ r \in Runners /\ Fine(r) /\ (GenerousTimers => Holds(r))
        /\ proc[r] \in ProcType /\ call[r] \in CallType /\ seen[r] \in Nat
        /\ proc[r].registered \in Nat /\ proc[r].unrenewed \in Nat /\ proc[r].renewIn \in Nat
        /\ call[r].age \in Nat /\ call[r].fence \in Nat
    BY RunnerFacts, ProcFields, CallFields
  <1>2. Kept /\ Says(r, "none", 0, "none", 0) /\ proc \in [Runners -> ProcType]
        /\ call[r].kind = kind /\ call[r].reply # "none"
    BY <1>1, HangUpSays DEF Deliver, Kept, TypeOK
  <1>3. CASE kind = "register"
    <2> DEFINE x == [proc[r] EXCEPT !.pc = "loop", !.registered = 0]
    <2>1. proc' = [proc EXCEPT ![r].pc = "loop", ![r].registered = 0]
      BY Zenon, <1>3 DEF Deliver
    <2>2. proc' = [proc EXCEPT ![r] = x] /\ "loop" \in Pcs
      BY <1>2, <2>1 DEF Pcs
    <2>3. x \in ProcType
      BY Zenon, <1>1, <2>2 DEF ProcType
    <2>4. /\ x.pc = "loop" /\ x.fence = proc[r].fence /\ x.registered = 0
          /\ x.renewIn = proc[r].renewIn /\ x.jobLeft = proc[r].jobLeft /\ x.result = proc[r].result
          /\ x.unrenewed = proc[r].unrenewed
      BY Zenon, <1>1, ProcFields
    <2> HIDE DEF x
    <2>5. Becomes(r, x.pc, x.fence, x.registered, x.renewIn, x.jobLeft, x.result, x.unrenewed)
      BY <1>1, <2>2, <2>3, ProcSet
    <2>6. Fine(r)' /\ (GenerousTimers => Holds(r)')
      BY <1>1, <1>2, <1>3, <2>4, <2>5, SiteFacts
         DEF Becomes, Says, Kept, Fine, Shape, Acked, Registered, Renewed, Holds
    <2> QED BY <1>1, <1>2, <2>5, <2>6, LocalGood DEF Becomes, Says
  <1>4. CASE kind = "claim"
    <2>1. \/ call[r].reply = "forbidden" /\ Goto(r, "gone")
          \/ call[r].reply = "nothing" /\ Rest(r, "pause")
          \/ /\ call[r].reply = "claim"
             /\ proc' = [proc EXCEPT ![r].pc = "executing", ![r].fence = call[r].fence,
                                     ![r].renewIn = RenewInterval, ![r].jobLeft = JobTimeout]
      BY Zenon, <1>4 DEF Deliver
    <2>2. proc[r].pc = "calling" /\ call[r].reply # "forbidden"
      BY <1>1, <1>2, <1>4 DEF Fine, Shape
    <2>3. CASE Rest(r, "pause")
      <3>1. Rests(r, "pause")
        BY <1>1, <2>3, RestRests DEF Pcs
      <3> QED BY <1>2, <1>4, <2>2, <3>1, RestGood
    <2>4. CASE /\ call[r].reply = "claim"
               /\ proc' = [proc EXCEPT ![r].pc = "executing", ![r].fence = call[r].fence,
                                       ![r].renewIn = RenewInterval, ![r].jobLeft = JobTimeout]
      <3> DEFINE f == call[r].fence
                 x == [proc[r] EXCEPT !.pc = "executing", !.fence = f,
                                      !.renewIn = RenewInterval, !.jobLeft = JobTimeout]
      <3>1. proc' = [proc EXCEPT ![r] = x]
        BY <1>2, <2>4
      <3>2. "executing" \in Pcs /\ RenewInterval \in Nat /\ JobTimeout \in Nat /\ f \in Nat
        BY <1>1, SiteFacts DEF Pcs
      <3> HIDE DEF f
      <3>3. x \in ProcType
        BY Zenon, <1>1, <3>2 DEF ProcType
      <3>4. /\ x.pc = "executing" /\ x.fence = f /\ x.registered = proc[r].registered
            /\ x.renewIn = RenewInterval /\ x.jobLeft = JobTimeout /\ x.result = proc[r].result
            /\ x.unrenewed = proc[r].unrenewed
        BY Zenon, <1>1, ProcFields
      <3> HIDE DEF x
      <3>5. Becomes(r, x.pc, x.fence, x.registered, x.renewIn, x.jobLeft, x.result, x.unrenewed)
        BY <1>1, <3>1, <3>3, ProcSet
      <3>6. Fine(r)'
        BY <1>1, <1>2, <1>4, <2>2, <2>4, <3>2, <3>4, <3>5, SiteFacts
           DEF Becomes, Says, Kept, Fine, Shape, Acked, Registered, Renewed
      <3>7. GenerousTimers => Holds(r)'
        <4>1. call[r].age =< CallTimeout /\ run.deadline \in Nat
          BY <1>1 DEF Fine, Shape, TypeOK, RunType
        <4> QED BY <1>1, <1>2, <1>4, <2>4, <3>4, <3>5, <4>1, SiteFacts DEF Becomes, Says, Kept, Holds, f
      <3> QED BY <1>1, <1>2, <3>5, <3>6, <3>7, LocalGood DEF Becomes, Says
    <2> QED BY <2>1, <2>2, <2>3, <2>4
  <1>5. CASE kind = "heartbeat"
    <2>1. IF call[r].reply = "ok" THEN UNCHANGED proc ELSE Rest(r, "pause")
      BY Zenon, <1>5 DEF Deliver
    <2>2. proc[r].pc \in {"executing", "joining"}
      BY <1>1, <1>2, <1>5 DEF Fine, Shape
    <2>3. CASE call[r].reply = "ok" /\ UNCHANGED proc
      <3>1. Fine(r)' /\ (GenerousTimers => Holds(r)')
        BY <1>1, <1>2, <1>5, <2>2, <2>3, SiteFacts
           DEF Says, Kept, Fine, Shape, Acked, Registered, Renewed, Holds
      <3> QED BY <1>1, <1>2, <2>3, <3>1, LocalGood DEF Says
    <2>4. CASE Rest(r, "pause")
      <3>1. Rests(r, "pause")
        BY <1>1, <2>4, RestRests DEF Pcs
      <3> QED BY <1>2, <1>5, <2>2, <3>1, RestGood
    <2> QED BY <2>1, <2>3, <2>4
  <1>6. CASE kind = "complete"
    <2>1. IF call[r].reply = "ok" THEN proc' = [proc EXCEPT ![r].pc = "done"] ELSE Rest(r, "pause")
      BY Zenon, <1>6 DEF Deliver
    <2>2. proc[r].pc = "calling"
      BY <1>1, <1>2, <1>6 DEF Fine, Shape
    <2>3. CASE call[r].reply = "ok" /\ Goto(r, "done")
      <3>1. GoesTo(r, "done")
        BY <1>1, <2>3, GotoGoes DEF Pcs
      <3>2. Fine(r)' /\ (GenerousTimers => Holds(r)')
        BY <1>1, <1>2, <1>6, <2>2, <2>3, <3>1, SiteFacts
           DEF GoesTo, Becomes, Says, Kept, Fine, Shape, Acked, Registered, Renewed, Holds
      <3> QED BY <1>1, <1>2, <3>1, <3>2, LocalGood DEF GoesTo, Becomes, Says
    <2>4. CASE Rest(r, "pause")
      <3>1. Rests(r, "pause")
        BY <1>1, <2>4, RestRests DEF Pcs
      <3> QED BY <1>2, <1>6, <2>2, <3>1, RestGood
    <2> QED BY <2>1, <2>3, <2>4 DEF Goto
  <1> QED BY <1>3, <1>4, <1>5, <1>6 DEF Kinds

LEMMA FailGood ==
    ASSUME RunnerInv, NEW r \in site.runners, NEW kind \in Kinds, Fail(r, kind)
    PROVE  Good(r)
  <1>1. /\ TypeOK /\ r \in Runners /\ Fine(r) /\ (GenerousTimers => Holds(r))
        /\ proc[r] \in ProcType /\ call[r] \in CallType /\ seen[r] \in Nat
    BY RunnerFacts
  <1>2. Kept /\ Says(r, "none", 0, "none", 0) /\ proc \in [Runners -> ProcType] /\ call[r].kind = kind
    BY <1>1, HangUpSays DEF Fail, Kept, TypeOK
  <1>3. CASE kind \in {"register", "claim"}
    <2>1. Rest(r, "rest")
      BY Zenon, <1>3 DEF Fail
    <2>2. Rests(r, "rest")
      BY <1>1, <2>1, RestRests DEF Pcs
    <2> QED BY <1>2, <2>2, RestGood
  <1>4. CASE kind = "heartbeat"
    <2>1. Rest(r, "pause")
      BY Zenon, <1>4 DEF Fail
    <2>2. Rests(r, "pause") /\ proc[r].pc \in {"executing", "joining"}
      BY <1>1, <1>2, <1>4, <2>1, RestRests DEF Pcs, Fine, Shape
    <2> QED BY <1>2, <1>4, <2>2, RestGood
  <1>5. CASE kind = "complete"
    <2> DEFINE n == proc[r].tries
               x == [proc[r] EXCEPT !.pc = "backoff", !.wait = n]
    <2>1. proc' = [proc EXCEPT ![r].pc = "backoff", ![r].wait = proc[r].tries]
      BY Zenon, <1>5 DEF Fail
    <2>2. proc' = [proc EXCEPT ![r] = x] /\ "backoff" \in Pcs /\ n \in Nat
      BY <1>1, <1>2, <2>1, ProcFields DEF Pcs
    <2> HIDE DEF n
    <2>3. x \in ProcType
      BY Zenon, <1>1, <2>2 DEF ProcType
    <2>4. /\ x.pc = "backoff" /\ x.fence = proc[r].fence /\ x.registered = proc[r].registered
          /\ x.renewIn = proc[r].renewIn /\ x.jobLeft = proc[r].jobLeft /\ x.result = proc[r].result
          /\ x.unrenewed = proc[r].unrenewed
      BY Zenon, <1>1, ProcFields
    <2> HIDE DEF x
    <2>5. Becomes(r, x.pc, x.fence, x.registered, x.renewIn, x.jobLeft, x.result, x.unrenewed)
      BY <1>1, <2>2, <2>3, ProcSet
    <2>6. Fine(r)' /\ (GenerousTimers => Holds(r)')
      BY <1>1, <1>2, <1>5, <2>4, <2>5, SiteFacts
         DEF Becomes, Says, Kept, Fine, Shape, Acked, Registered, Renewed, Holds
    <2> QED BY <1>1, <1>2, <2>5, <2>6, LocalGood DEF Becomes, Says
  <1> QED BY <1>3, <1>4, <1>5 DEF Kinds

LEMMA CrashGood ==
    ASSUME RunnerInv, NEW r \in site.runners, Crash(r)
    PROVE  Good(r)
  <1>1. /\ TypeOK /\ r \in Runners /\ Fine(r)
        /\ proc[r] \in ProcType /\ call[r] \in CallType /\ seen[r] \in Nat
    BY RunnerFacts
  <1>2. Kept /\ Says(r, "none", 0, "none", 0)
    BY <1>1, HangUpSays DEF Crash, Kept
  <1>3. proc' = [proc EXCEPT ![r] = Boot]
    BY DEF Crash
  <1>4. Becomes(r, "register", 0, 0, 0, 0, "none", 0)
    BY <1>1, <1>3, BootType DEF TypeOK, Becomes
  <1>5. Fine(r)' /\ (GenerousTimers => Holds(r)')
    BY <1>1, <1>2, <1>4, SiteFacts
       DEF Becomes, Says, Kept, Fine, Shape, Acked, Registered, Renewed, Holds
  <1> QED BY <1>1, <1>2, <1>4, <1>5, LocalGood DEF Becomes, Says
-----------------------------------------------------------------------------
(* Steps of the coordinator *)

LEMMA RunFields ==
    ASSUME NEW x \in RunType
    PROVE  /\ DOMAIN x = {"state", "runner", "fence", "attempts", "lease", "deadline", "wait"}
           /\ x.runner \in Runners \cup {NoRunner} /\ x.fence \in Nat /\ x.attempts \in Nat
           /\ x.lease \in Nat /\ x.deadline \in Nat /\ x.wait \in Nat
  BY DEF RunType

LEMMA SmallerIsNat ==
    ASSUME NEW a \in Nat, NEW b \in Nat
    PROVE  /\ Smaller(a, b) \in Nat /\ Smaller(a, b) =< a /\ Smaller(a, b) =< b
           /\ Smaller(a, b) >= a \/ Smaller(a, b) >= b
  BY DEF Smaller

LEMMA RenewedNow ==
    ASSUME TypeOK, NEW r \in Runners, proc' = [proc EXCEPT ![r].unrenewed = 0]
    PROVE  Becomes(r, proc[r].pc, proc[r].fence, proc[r].registered, proc[r].renewIn,
                   proc[r].jobLeft, proc[r].result, 0)
  <1> DEFINE x == [proc[r] EXCEPT !.unrenewed = 0]
  <1>1. proc \in [Runners -> ProcType] /\ proc[r] \in ProcType
    BY DEF TypeOK
  <1>2. x \in ProcType
    BY Zenon, <1>1 DEF ProcType
  <1>3. /\ x.pc = proc[r].pc /\ x.fence = proc[r].fence /\ x.registered = proc[r].registered
        /\ x.renewIn = proc[r].renewIn /\ x.jobLeft = proc[r].jobLeft /\ x.result = proc[r].result
        /\ x.unrenewed = 0
    BY Zenon, <1>1, ProcFields
  <1>4. proc' = [proc EXCEPT ![r] = x]
    BY <1>1
  <1> HIDE DEF x
  <1>5. Becomes(r, x.pc, x.fence, x.registered, x.renewIn, x.jobLeft, x.result, x.unrenewed)
    BY <1>2, <1>4, ProcSet
  <1> QED BY <1>3, <1>5

LEMMA SameProc ==
    ASSUME TypeOK, NEW r \in Runners, proc' = proc
    PROVE  GoesTo(r, proc[r].pc)
  BY DEF TypeOK, GoesTo, Becomes

LEMMA SeenNow ==
    ASSUME TypeOK, NEW r \in Runners, seen' = [seen EXCEPT ![r] = 0]
    PROVE  /\ seen' \in [Runners -> Nat] /\ seen'[r] = 0
           /\ \A q \in Runners \ {r} : seen'[q] = seen[q]
  BY DEF TypeOK

LEMMA SameSeen ==
    ASSUME TypeOK, NEW r \in Runners, seen' = seen
    PROVE  /\ seen' \in [Runners -> Nat] /\ seen'[r] = seen[r]
           /\ \A q \in Runners \ {r} : seen'[q] = seen[q]
  BY DEF TypeOK

\* A handled call is good when the runner's own part holds afterwards.
LEMMA ServedGood ==
    ASSUME TypeOK, NEW r \in Runners, Fine(r)', GenerousTimers => Holds(r)', site' = site,
           run' \in RunType, run' = run \/ Claimable \/ run.runner = r,
           log' \subseteq LogType, log \subseteq log',
           seen' \in [Runners -> Nat], \A q \in Runners \ {r} : seen'[q] = seen[q],
           proc' \in [Runners -> ProcType], call' \in [Runners -> CallType],
           \A q \in Runners \ {r} : proc'[q] = proc[q] /\ call'[q] = call[q]
    PROVE  Good(r)
  BY DEF Good, TypeOK

LEMMA ServeRegisterGood ==
    ASSUME RunnerInv, NEW r \in site.runners, Serve(r, "register")
    PROVE  Good(r)
  <1>1. /\ TypeOK /\ r \in Runners /\ Fine(r) /\ (GenerousTimers => Holds(r))
        /\ proc[r] \in ProcType /\ call[r] \in CallType /\ seen[r] \in Nat
        /\ call[r].age \in Nat
    BY RunnerFacts, CallFields
  <1>2. call[r].kind = "register" /\ call[r].reply = "none" /\ ServeRegister(r)
        /\ UNCHANGED <<site, log>>
    BY Zenon DEF Serve
  <1>3. GoesTo(r, proc[r].pc) /\ Says(r, "register", call[r].age, "ok", 0) /\ run' = run
    BY <1>1, <1>2, SameProc, AnswerSays DEF ServeRegister, Replies
  <1>4. /\ seen' \in [Runners -> Nat] /\ seen'[r] = 0
        /\ \A q \in Runners \ {r} : seen'[q] = seen[q]
    BY <1>1, <1>2, SeenNow DEF ServeRegister
  <1>5. Fine(r)' /\ (GenerousTimers => Holds(r)')
    BY <1>1, <1>2, <1>3, <1>4, SiteFacts
       DEF GoesTo, Becomes, Says, Fine, Shape, Acked, Registered, Renewed, Holds
  <1> QED BY <1>1, <1>2, <1>3, <1>4, <1>5, ServedGood DEF GoesTo, Becomes, Says, TypeOK

LEMMA ServeClaimGood ==
    ASSUME RunnerInv, NEW r \in site.runners, Serve(r, "claim")
    PROVE  Good(r)
  <1>1. /\ TypeOK /\ r \in Runners /\ Fine(r) /\ (GenerousTimers => Holds(r))
        /\ proc[r] \in ProcType /\ call[r] \in CallType /\ seen[r] \in Nat
        /\ call[r].age \in Nat /\ run \in RunType
    BY RunnerFacts, CallFields DEF TypeOK
  <1>2. /\ call[r].kind = "claim" /\ call[r].reply = "none" /\ proc[r].pc = "calling" /\ ServeClaim(r)
        /\ UNCHANGED <<site, log>>
    <2>1. call[r].kind = "claim" /\ call[r].reply = "none" /\ ServeClaim(r) /\ UNCHANGED <<site, log>>
      BY Zenon DEF Serve
    <2> QED BY <1>1, <2>1 DEF Fine, Shape
  <1>3. seen[r] =< RunnerTTL
    BY <1>1, <1>2, SiteFacts, RegistrationAssumption DEF Fine, Shape, Registered
  <1>4. CASE Answer(r, "nothing", 0) /\ seen' = [seen EXCEPT ![r] = 0] /\ UNCHANGED proc
             /\ run' \in RunType /\ (run' = run \/ Claimable)
    <2>1. GoesTo(r, proc[r].pc) /\ Says(r, "claim", call[r].age, "nothing", 0)
      BY <1>1, <1>2, <1>4, SameProc, AnswerSays DEF Replies
    <2>2. /\ seen' \in [Runners -> Nat] /\ seen'[r] = 0
          /\ \A q \in Runners \ {r} : seen'[q] = seen[q]
      BY <1>1, <1>4, SeenNow
    <2>3. proc[r].registered \in Nat
      BY <1>1, ProcFields
    <2>4. Fine(r)' /\ (GenerousTimers => Holds(r)')
      BY <1>1, <1>2, <2>1, <2>2, <2>3, SiteFacts
         DEF GoesTo, Becomes, Says, Fine, Shape, Acked, Registered, Renewed, Holds
    <2> QED BY <1>1, <1>2, <1>4, <2>1, <2>2, <2>4, ServedGood DEF GoesTo, Becomes, Says, TypeOK
  <1>5. CASE run' = [run EXCEPT !.state = "failed"] /\ Claimable
             /\ Answer(r, "nothing", 0) /\ seen' = [seen EXCEPT ![r] = 0] /\ UNCHANGED proc
    <2>1. run' \in RunType
      BY <1>1, <1>5 DEF RunType
    <2> QED BY <1>4, <1>5, <2>1
  <1>6. CASE /\ Claimable
             /\ run' = [run EXCEPT !.state = "running", !.runner = r, !.fence = @ + 1,
                                   !.attempts = @ + 1, !.deadline = site.execution,
                                   !.lease = Smaller(site.lease, site.execution)]
             /\ Answer(r, "claim", run.fence + 1)
             /\ seen' = [seen EXCEPT ![r] = 0]
             /\ proc' = [proc EXCEPT ![r].unrenewed = 0]
    <2> DEFINE f == run.fence + 1
               a == run.attempts + 1
               d == site.execution
               l == Smaller(site.lease, site.execution)
    <2>1. f \in Nat /\ a \in Nat /\ d \in Nat /\ l \in Nat /\ l =< d /\ (l >= site.lease \/ l >= d)
      BY <1>1, RunFields, SiteFacts, SmallerIsNat
    <2>2. run' = [run EXCEPT !.state = "running", !.runner = r, !.fence = f,
                             !.attempts = a, !.deadline = d, !.lease = l]
      BY <1>6
    <2>3. Answer(r, "claim", f) /\ (GenerousTimers => d > JobTimeout + CallTimeout)
      BY <1>6 DEF GenerousTimers
    <2> HIDE DEF f, a, d, l
    <2>4. run' \in RunType
      BY Zenon, <1>1, <2>1, <2>2 DEF RunType
    <2>5. run'.state = "running" /\ run'.runner = r /\ run'.fence = f /\ run'.deadline = d /\ run'.lease = l
      BY Zenon, <1>1, <2>2, RunFields
    <2>6. Says(r, "claim", call[r].age, "claim", f)
      BY <1>1, <1>2, <2>1, <2>3, AnswerSays DEF Replies
    <2>7. Becomes(r, proc[r].pc, proc[r].fence, proc[r].registered, proc[r].renewIn,
                  proc[r].jobLeft, proc[r].result, 0)
      BY <1>1, <1>6, RenewedNow
    <2>8. /\ seen' \in [Runners -> Nat] /\ seen'[r] = 0
          /\ \A q \in Runners \ {r} : seen'[q] = seen[q]
      BY <1>1, <1>6, SeenNow
    <2>9. proc[r].registered \in Nat
      BY <1>1, ProcFields
    <2>10. Fine(r)'
      BY <1>1, <1>2, <2>6, <2>7, <2>8, <2>9, SiteFacts
         DEF Becomes, Says, Fine, Shape, Acked, Registered, Renewed
    <2>11. GenerousTimers => Holds(r)'
      BY <1>1, <1>2, <2>1, <2>3, <2>5, <2>6, <2>7, SiteFacts DEF Becomes, Says, Holds
    <2> QED BY <1>1, <1>2, <1>6, <2>4, <2>6, <2>7, <2>8, <2>10, <2>11, ServedGood
            DEF Becomes, Says, TypeOK
  <1>7. ~(seen[r] > RunnerTTL)
    BY <1>1, <1>3, SiteFacts
  <1> QED BY <1>1, <1>2, <1>4, <1>5, <1>6, <1>7 DEF ServeClaim

LEMMA ServeHeartbeatGood ==
    ASSUME RunnerInv, NEW r \in site.runners, Serve(r, "heartbeat")
    PROVE  Good(r)
  <1>1. /\ TypeOK /\ r \in Runners /\ Fine(r) /\ (GenerousTimers => Holds(r))
        /\ proc[r] \in ProcType /\ call[r] \in CallType /\ seen[r] \in Nat
        /\ call[r].age \in Nat /\ run \in RunType
    BY RunnerFacts, CallFields DEF TypeOK
  <1>2. /\ call[r].kind = "heartbeat" /\ call[r].reply = "none" /\ proc[r].pc \in {"executing", "joining"}
        /\ ServeHeartbeat(r) /\ UNCHANGED <<site, log>>
    <2>1. call[r].kind = "heartbeat" /\ call[r].reply = "none" /\ ServeHeartbeat(r) /\ UNCHANGED <<site, log>>
      BY Zenon DEF Serve
    <2> QED BY <1>1, <2>1 DEF Fine, Shape
  <1>3. /\ proc[r].registered \in Nat /\ proc[r].unrenewed \in Nat /\ proc[r].renewIn \in Nat
        /\ proc[r].jobLeft \in Nat /\ run.deadline \in Nat /\ run.lease \in Nat
    BY <1>1, ProcFields, RunFields
  <1>4. CASE /\ Leased(r, proc[r].fence)
             /\ run' = [run EXCEPT !.lease = Smaller(site.lease, run.deadline)]
             /\ seen' = [seen EXCEPT ![r] = 0] /\ proc' = [proc EXCEPT ![r].unrenewed = 0]
             /\ Answer(r, "ok", 0)
    <2> DEFINE l == Smaller(site.lease, run.deadline)
    <2>1. l \in Nat /\ (l >= site.lease \/ l >= run.deadline)
      BY <1>1, <1>3, SiteFacts, SmallerIsNat
    <2>2. run' = [run EXCEPT !.lease = l]
      BY <1>4
    <2> HIDE DEF l
    <2>3. run' \in RunType
      BY Zenon, <1>1, <2>1, <2>2 DEF RunType
    <2>4. /\ run'.state = run.state /\ run'.runner = run.runner /\ run'.fence = run.fence
          /\ run'.deadline = run.deadline /\ run'.lease = l
      BY Zenon, <1>1, <2>2, RunFields
    <2>5. Says(r, "heartbeat", call[r].age, "ok", 0)
      BY <1>1, <1>2, <1>4, AnswerSays DEF Replies
    <2>6. Becomes(r, proc[r].pc, proc[r].fence, proc[r].registered, proc[r].renewIn,
                  proc[r].jobLeft, proc[r].result, 0)
      BY <1>1, <1>4, RenewedNow
    <2>7. /\ seen' \in [Runners -> Nat] /\ seen'[r] = 0
          /\ \A q \in Runners \ {r} : seen'[q] = seen[q]
      BY <1>1, <1>4, SeenNow
    <2>8. Fine(r)'
      BY <1>1, <1>2, <1>3, <2>5, <2>6, <2>7, SiteFacts
         DEF Becomes, Says, Fine, Shape, Acked, Registered, Renewed
    <2>9. GenerousTimers => Holds(r)'
      BY <1>1, <1>2, <1>3, <2>1, <2>4, <2>5, <2>6, SiteFacts DEF Becomes, Says, Holds
    <2>10. run.runner = r
      BY <1>4 DEF Leased
    <2> QED BY <1>1, <1>2, <2>3, <2>5, <2>6, <2>7, <2>8, <2>9, <2>10, ServedGood
            DEF Becomes, Says, TypeOK
  <1>5. CASE Answer(r, "stale", 0) /\ UNCHANGED <<run, seen, proc>>
    <2>1. GoesTo(r, proc[r].pc) /\ Says(r, "heartbeat", call[r].age, "stale", 0)
      BY <1>1, <1>2, <1>5, SameProc, AnswerSays DEF Replies
    <2>2. /\ seen' \in [Runners -> Nat] /\ seen'[r] = seen[r]
          /\ \A q \in Runners \ {r} : seen'[q] = seen[q]
      BY <1>1, <1>5, SameSeen
    <2>3. Fine(r)' /\ (GenerousTimers => Holds(r)')
      BY <1>1, <1>2, <1>5, <2>1, <2>2, SiteFacts
         DEF GoesTo, Becomes, Says, Fine, Shape, Acked, Registered, Renewed, Holds
    <2> QED BY <1>1, <1>2, <1>5, <2>1, <2>2, <2>3, ServedGood DEF GoesTo, Becomes, Says, TypeOK
  <1> QED BY <1>2, <1>4, <1>5 DEF ServeHeartbeat

LEMMA ServeCompleteGood ==
    ASSUME RunnerInv, NEW r \in site.runners, Serve(r, "complete")
    PROVE  Good(r)
  <1> DEFINE entry == [fence |-> proc[r].fence, runner |-> r, result |-> proc[r].result]
  <1>1. /\ TypeOK /\ r \in Runners /\ Fine(r) /\ (GenerousTimers => Holds(r))
        /\ proc[r] \in ProcType /\ call[r] \in CallType /\ seen[r] \in Nat
        /\ call[r].age \in Nat /\ run \in RunType /\ log \subseteq LogType
    BY RunnerFacts, CallFields DEF TypeOK
  <1>2. /\ call[r].kind = "complete" /\ call[r].reply = "none" /\ proc[r].pc = "calling" /\ ServeComplete(r)
        /\ UNCHANGED <<site, seen, proc>>
    <2>1. call[r].kind = "complete" /\ call[r].reply = "none" /\ ServeComplete(r) /\ UNCHANGED <<site, seen, proc>>
      BY Zenon DEF Serve
    <2> QED BY <1>1, <2>1 DEF Fine, Shape
  <1>3. GoesTo(r, proc[r].pc) /\ seen' \in [Runners -> Nat] /\ \A q \in Runners \ {r} : seen'[q] = seen[q]
    BY <1>1, <1>2, SameProc DEF TypeOK
  <1>4. ASSUME NEW reply \in Replies, Answer(r, reply, 0), reply = "ok" => entry \in log',
               log \subseteq log', log' \subseteq LogType, run' \in RunType, run' = run \/ run.runner = r
        PROVE  Good(r)
    <2>1. Says(r, "complete", call[r].age, reply, 0)
      BY <1>1, <1>2, <1>4, AnswerSays
    <2>2. Acked(r)'
      BY <1>2, <1>3, <1>4, <2>1 DEF GoesTo, Becomes, Says, Acked
    <2>3. Shape(r)' /\ Registered(r)' /\ Renewed(r)' /\ Holds(r)'
      BY <1>1, <1>2, <1>3, <2>1, SiteFacts
         DEF GoesTo, Becomes, Says, Fine, Shape, Registered, Renewed, Holds
    <2> QED BY <1>1, <1>2, <1>3, <1>4, <2>1, <2>2, <2>3, ServedGood DEF GoesTo, Becomes, Says, Fine
  <1>5. CASE /\ Replayed(r) # {} /\ UNCHANGED <<run, log>>
             /\ Answer(r, IF \E e \in Replayed(r) : e.result = proc[r].result THEN "ok" ELSE "stale", 0)
    <2>1. CASE \E e \in Replayed(r) : e.result = proc[r].result
      <3>1. PICK e \in Replayed(r) : e.result = proc[r].result
        BY <2>1
      <3>2. e \in LogType /\ e \in log /\ e.fence = proc[r].fence /\ e.runner = r
        BY <1>1, <3>1 DEF Replayed
      <3>3. e = entry
        BY <3>1, <3>2 DEF LogType
      <3> QED BY <1>1, <1>4, <1>5, <2>1, <3>2, <3>3 DEF Replies
    <2>2. CASE ~ \E e \in Replayed(r) : e.result = proc[r].result
      BY <1>1, <1>4, <1>5, <2>2 DEF Replies
    <2> QED BY <2>1, <2>2
  <1>6. CASE Answer(r, "stale", 0) /\ UNCHANGED <<run, log>>
    BY <1>1, <1>4, <1>6 DEF Replies
  <1>7. CASE /\ Leased(r, proc[r].fence) /\ log' = log \cup {entry} /\ Answer(r, "ok", 0)
             /\ run' = [run EXCEPT !.state = IF proc[r].result = "known" THEN "completed"
                                             ELSE IF run.attempts < MaxAttempts THEN "retry"
                                             ELSE "failed",
                                   !.wait = RetryDelay]
    <2> DEFINE s == IF proc[r].result = "known" THEN "completed"
                    ELSE IF run.attempts < MaxAttempts THEN "retry" ELSE "failed"
    <2>1. s \in {"due", "retry", "running", "completed", "failed"} /\ RetryDelay \in Nat
      BY <1>1, SiteFacts
    <2>2. run' = [run EXCEPT !.state = s, !.wait = RetryDelay]
      BY <1>7
    <2> HIDE DEF s
    <2>3. run' \in RunType
      BY Zenon, <1>1, <2>1, <2>2 DEF RunType
    <2>4. entry \in LogType
      BY <1>1, ProcFields DEF LogType
    <2>5. run.runner = r /\ "ok" \in Replies
      BY <1>7 DEF Leased, Replies
    <2> QED BY <1>1, <1>4, <1>7, <2>3, <2>4, <2>5
  <1> QED BY <1>2, <1>5, <1>6, <1>7 DEF ServeComplete
-----------------------------------------------------------------------------
(* Other runners, and time *)

\* Whoever executes has not been silent for long.
LEMMA SilenceIsShort ==
    ASSUME TypeOK, NEW r \in Runners, Fine(r)
    PROVE  /\ proc[r].pc = "executing" => proc[r].unrenewed =< RenewInterval + 2 * CallTimeout
           /\ call[r].kind = "claim" /\ call[r].reply = "claim" =>
                 proc[r].unrenewed =< CallTimeout
  <1>1. /\ proc[r].unrenewed \in Nat /\ proc[r].renewIn \in Nat /\ call[r].age \in Nat
        /\ call[r].kind \in Kinds \cup {"none"}
    BY ProcFields, CallFields DEF TypeOK
  <1>2. proc[r].pc = "executing" => call[r].kind \in {"none", "heartbeat"}
    BY <1>1 DEF Fine, Shape, Kinds
  <1> QED BY <1>1, <1>2, SiteFacts DEF Fine, Shape, Renewed

\* With generous timers its lease has not run out, so that nobody else gets the run.
LEMMA HolderIsLeased ==
    ASSUME RunnerInv, GenerousTimers, NEW r \in Runners,
           proc[r].pc = "executing" \/ (call[r].kind = "claim" /\ call[r].reply = "claim")
    PROVE  run.runner = r /\ run.lease > 0 /\ ~Claimable
  <1>1. TypeOK /\ Fine(r) /\ Holds(r)
    BY DEF RunnerInv
  <1>2. /\ proc[r].unrenewed \in Nat /\ proc[r].jobLeft \in Nat /\ call[r].age \in Nat
        /\ run.lease \in Nat /\ run.deadline \in Nat
    BY <1>1, ProcFields, CallFields, RunFields DEF TypeOK
  <1>3. /\ site.lease > RenewInterval + 2 * CallTimeout /\ call[r].age =< CallTimeout
        /\ site.lease \in Nat
    BY <1>1, SiteFacts DEF GenerousTimers, Fine, Shape
  <1>4. run.state = "running" /\ run.runner = r /\ run.deadline > 0
    BY <1>1, <1>2, <1>3, SiteFacts DEF Holds
  <1>5. proc[r].unrenewed < site.lease
    BY <1>1, <1>2, <1>3, SilenceIsShort, SiteFacts
  <1>6. run.lease > 0
    BY <1>1, <1>2, <1>3, <1>4, <1>5 DEF Holds
  <1> QED BY <1>2, <1>4, <1>6 DEF Claimable

LEMMA GoodStep ==
    ASSUME RunnerInv, NEW r \in Runners, Good(r)
    PROVE  RunnerInv'
  <1>1. TypeOK' /\ Fine(r)' /\ (GenerousTimers => Holds(r)') /\ site' = site /\ log \subseteq log'
    BY DEF Good
  <1>2. ASSUME NEW q \in Runners, q # r
        PROVE  Fine(q)' /\ (GenerousTimers => Holds(q)')
    <2>1. proc'[q] = proc[q] /\ call'[q] = call[q] /\ seen'[q] = seen[q]
      BY <1>2 DEF Good
    <2>2. Fine(q) /\ (GenerousTimers => Holds(q))
      BY DEF RunnerInv
    <2>3. Fine(q)'
      BY <1>1, <2>1, <2>2 DEF Fine, Shape, Acked, Registered, Renewed
    <2>4. ASSUME GenerousTimers,
                 proc[q].pc = "executing" \/ (call[q].kind = "claim" /\ call[q].reply = "claim")
          PROVE  run' = run
      <3>1. run.runner = q /\ ~Claimable
        BY <2>4, HolderIsLeased
      <3> QED BY <1>2, <3>1 DEF Good
    <2>5. GenerousTimers => Holds(q)'
      <3> SUFFICES ASSUME GenerousTimers
                   PROVE  Holds(q)'
        OBVIOUS
      <3>1. CASE proc[q].pc = "executing" \/ (call[q].kind = "claim" /\ call[q].reply = "claim")
        <4>1. run' = run
          BY <2>4, <3>1
        <4> QED BY <1>1, <2>1, <2>2, <4>1 DEF Holds
      <3>2. CASE ~(proc[q].pc = "executing" \/ (call[q].kind = "claim" /\ call[q].reply = "claim"))
        BY <2>1, <3>2 DEF Holds
      <3> QED BY <3>1, <3>2
    <2> QED BY <2>3, <2>5
  <1>3. GenerousTimers' => GenerousTimers
    BY <1>1 DEF GenerousTimers
  <1> QED BY <1>1, <1>2, <1>3 DEF RunnerInv

LEMMA DownIsNat ==
    ASSUME NEW n \in Nat
    PROVE  Down(n) \in Nat /\ Down(n) =< n /\ Down(n) >= n - 1 /\ (n > 0 => Down(n) = n - 1)
  BY DEF Down

LEMMA AgesFields ==
    ASSUME TypeOK, NEW p \in ProcType
    PROVE  /\ Ages(p) \in ProcType
           /\ Ages(p).pc = p.pc /\ Ages(p).fence = p.fence /\ Ages(p).result = p.result
           /\ Ages(p).renewIn = Down(p.renewIn) /\ Ages(p).jobLeft = Down(p.jobLeft)
           /\ Ages(p).registered = Smaller(p.registered + 1, RegistrationInterval + 1)
           /\ Ages(p).unrenewed = IF p.pc = "executing" \/ p.pc = "calling"
                                  THEN Smaller(p.unrenewed + 1, RenewInterval + 2 * CallTimeout + 1) ELSE 0
  <1> DEFINE w == Down(p.wait)
             n == Down(p.renewIn)
             j == Down(p.jobLeft)
             g == Smaller(p.registered + 1, RegistrationInterval + 1)
             u == IF p.pc = "executing" \/ p.pc = "calling"
                  THEN Smaller(p.unrenewed + 1, RenewInterval + 2 * CallTimeout + 1) ELSE 0
             x == [p EXCEPT !.wait = w, !.renewIn = n, !.jobLeft = j, !.registered = g, !.unrenewed = u]
  <1>1. w \in Nat /\ n \in Nat /\ j \in Nat
    BY ProcFields, DownIsNat
  <1>2. g \in Nat /\ u \in Nat
    <2>1. /\ p.registered + 1 \in Nat /\ RegistrationInterval + 1 \in Nat
          /\ p.unrenewed + 1 \in Nat /\ RenewInterval + 2 * CallTimeout + 1 \in Nat
      BY ProcFields, SiteFacts
    <2> QED BY <2>1, SmallerIsNat
  <1>3. Ages(p) = x
    BY DEF Ages
  <1> HIDE DEF w, n, j, g, u
  <1>4. x \in ProcType
    BY Zenon, <1>1, <1>2 DEF ProcType
  <1>5. /\ x.pc = p.pc /\ x.fence = p.fence /\ x.result = p.result /\ x.renewIn = n /\ x.jobLeft = j
        /\ x.registered = g /\ x.unrenewed = u
    BY Zenon, ProcFields
  <1> HIDE DEF x
  <1> QED BY <1>3, <1>4, <1>5 DEF n, j, g, u

\* What time does to one runner.
LEMMA TickEffect ==
    ASSUME TypeOK, Tick, NEW r \in Runners
    PROVE  /\ proc' \in [Runners -> ProcType] /\ call' \in [Runners -> CallType]
           /\ seen' \in [Runners -> Nat] /\ seen'[r] =< seen[r] + 1
           /\ proc'[r].pc = proc[r].pc /\ proc'[r].fence = proc[r].fence /\ proc'[r].result = proc[r].result
           /\ proc'[r].renewIn = Down(proc[r].renewIn) /\ proc'[r].jobLeft = Down(proc[r].jobLeft)
           /\ proc'[r].registered =< RegistrationInterval => proc'[r].registered = proc[r].registered + 1
           /\ proc'[r].unrenewed =< proc[r].unrenewed + 1
           /\ proc[r].pc \in {"executing", "calling"} /\ proc[r].unrenewed =< RenewInterval + 2 * CallTimeout =>
                 proc'[r].unrenewed = proc[r].unrenewed + 1
           /\ call[r] = NoCall => call'[r] = NoCall
           /\ call[r] # NoCall =>
                 /\ call'[r].kind = call[r].kind /\ call'[r].reply = call[r].reply
                 /\ call'[r].fence = call[r].fence /\ call'[r].age = call[r].age + 1
  <1>1. /\ proc \in [Runners -> ProcType] /\ proc[r] \in ProcType /\ call[r] \in CallType
        /\ call \in [Runners -> CallType] /\ seen \in [Runners -> Nat]
        /\ RegistrationInterval \in Nat /\ RenewInterval \in Nat /\ CallTimeout \in Nat /\ RunnerTTL \in Nat
    BY SiteFacts DEF TypeOK
  <1>2. proc' \in [Runners -> ProcType] /\ proc'[r] = Ages(proc[r])
    BY <1>1, AgesFields DEF Tick
  <1>3. seen' \in [Runners -> Nat] /\ seen'[r] =< seen[r] + 1
    <2>1. \A q \in Runners : Smaller(seen[q] + 1, RunnerTTL + 1) \in Nat
                             /\ Smaller(seen[q] + 1, RunnerTTL + 1) =< seen[q] + 1
      BY <1>1 DEF Smaller
    <2> QED BY <1>1, <2>1 DEF Tick
  <1>4. \A q \in Runners : call[q] # NoCall =>
          /\ [call[q] EXCEPT !.age = @ + 1] \in CallType
          /\ [call[q] EXCEPT !.age = @ + 1].kind = call[q].kind
          /\ [call[q] EXCEPT !.age = @ + 1].reply = call[q].reply
          /\ [call[q] EXCEPT !.age = @ + 1].fence = call[q].fence
          /\ [call[q] EXCEPT !.age = @ + 1].age = call[q].age + 1
    <2> SUFFICES ASSUME NEW q \in Runners
                 PROVE  /\ [call[q] EXCEPT !.age = @ + 1] \in CallType
                        /\ [call[q] EXCEPT !.age = @ + 1].kind = call[q].kind
                        /\ [call[q] EXCEPT !.age = @ + 1].reply = call[q].reply
                        /\ [call[q] EXCEPT !.age = @ + 1].fence = call[q].fence
                        /\ [call[q] EXCEPT !.age = @ + 1].age = call[q].age + 1
      OBVIOUS
    <2>1. call[q] \in CallType
      BY <1>1
    <2> QED BY <2>1 DEF CallType
  <1>5. /\ call' \in [Runners -> CallType]
        /\ call[r] = NoCall => call'[r] = NoCall
        /\ call[r] # NoCall =>
              /\ call'[r].kind = call[r].kind /\ call'[r].reply = call[r].reply
              /\ call'[r].fence = call[r].fence /\ call'[r].age = call[r].age + 1
    <2>1. call' = [q \in Runners |-> IF call[q] = NoCall THEN NoCall ELSE [call[q] EXCEPT !.age = @ + 1]]
      BY DEF Tick
    <2> QED BY <1>4, <2>1, NoCallType
  <1>6. /\ proc[r].registered \in Nat /\ proc[r].unrenewed \in Nat
    BY <1>1, ProcFields
  <1>7. /\ proc'[r].registered =< RegistrationInterval => proc'[r].registered = proc[r].registered + 1
        /\ proc'[r].unrenewed =< proc[r].unrenewed + 1
        /\ proc[r].pc \in {"executing", "calling"} /\ proc[r].unrenewed =< RenewInterval + 2 * CallTimeout =>
              proc'[r].unrenewed = proc[r].unrenewed + 1
    BY <1>1, <1>2, <1>6, AgesFields DEF Smaller
  <1> QED BY <1>1, <1>2, <1>3, <1>5, <1>7, AgesFields


LEMMA TickRun ==
    ASSUME TypeOK, Tick
    PROVE  /\ run' \in RunType /\ run'.state = run.state /\ run'.runner = run.runner /\ run'.fence = run.fence
           /\ run'.lease = Down(run.lease) /\ run'.deadline = Down(run.deadline)
  <1> DEFINE l == Down(run.lease)
             d == Down(run.deadline)
             w == Down(run.wait)
  <1>1. run \in RunType /\ l \in Nat /\ d \in Nat /\ w \in Nat
    BY RunFields, DownIsNat DEF TypeOK
  <1>2. run' = [run EXCEPT !.lease = l, !.deadline = d, !.wait = w]
    BY DEF Tick
  <1> HIDE DEF l, d, w
  <1>3. run' \in RunType
    BY Zenon, <1>1, <1>2 DEF RunType
  <1>4. run'.state = run.state /\ run'.runner = run.runner /\ run'.fence = run.fence
        /\ run'.lease = l /\ run'.deadline = d
    BY Zenon, <1>1, <1>2, RunFields
  <1> QED BY <1>3, <1>4 DEF l, d

LEMMA TickKeeps ==
    ASSUME RunnerInv, Tick, NEW r \in Runners
    PROVE  Fine(r)' /\ (GenerousTimers => Holds(r)')
  <1>1. TypeOK /\ Fine(r) /\ (GenerousTimers => Holds(r)) /\ UNCHANGED <<site, log>>
    BY DEF RunnerInv, Tick
  <1>2. /\ proc[r].registered \in Nat /\ proc[r].unrenewed \in Nat /\ proc[r].renewIn \in Nat
        /\ proc[r].jobLeft \in Nat /\ call[r].age \in Nat /\ seen[r] \in Nat
        /\ run.lease \in Nat /\ run.deadline \in Nat
        /\ proc'[r].registered \in Nat /\ proc'[r].unrenewed \in Nat /\ seen'[r] \in Nat
    <2>1. /\ proc' \in [Runners -> ProcType] /\ seen' \in [Runners -> Nat]
      BY <1>1, TickEffect
    <2>2. proc'[r] \in ProcType /\ proc[r] \in ProcType /\ call[r] \in CallType /\ run \in RunType
          /\ seen[r] \in Nat /\ seen'[r] \in Nat
      BY <1>1, <2>1 DEF TypeOK
    <2>3. proc'[r].registered \in Nat /\ proc'[r].unrenewed \in Nat
      BY <2>2 DEF ProcType
    <2> QED BY <2>2, <2>3, ProcFields, CallFields, RunFields
  <1>3. /\ seen'[r] =< seen[r] + 1
        /\ proc'[r].pc = proc[r].pc /\ proc'[r].fence = proc[r].fence /\ proc'[r].result = proc[r].result
        /\ proc'[r].renewIn = Down(proc[r].renewIn) /\ proc'[r].jobLeft = Down(proc[r].jobLeft)
        /\ proc'[r].registered =< RegistrationInterval => proc'[r].registered = proc[r].registered + 1
        /\ proc'[r].unrenewed =< proc[r].unrenewed + 1
        /\ proc[r].pc \in {"executing", "calling"} /\ proc[r].unrenewed =< RenewInterval + 2 * CallTimeout =>
              proc'[r].unrenewed = proc[r].unrenewed + 1
    BY <1>1, TickEffect
  <1>4. /\ call[r] = NoCall => call'[r] = NoCall
        /\ call[r] # NoCall =>
              /\ call'[r].kind = call[r].kind /\ call'[r].reply = call[r].reply
              /\ call'[r].fence = call[r].fence /\ call'[r].age = call[r].age + 1
    BY <1>1, TickEffect
  <1>5. /\ Down(proc[r].renewIn) \in Nat /\ Down(proc[r].renewIn) =< proc[r].renewIn
        /\ proc[r].renewIn > 0 => Down(proc[r].renewIn) = proc[r].renewIn - 1
        /\ proc[r].jobLeft > 0 => Down(proc[r].jobLeft) = proc[r].jobLeft - 1
    BY <1>2, DownIsNat
  <1>6. CallTimeout \in Nat \ {0} /\ RenewInterval \in Nat \ {0} /\ RegistrationInterval \in Nat \ {0}
        /\ site.lease \in Nat
    BY <1>1, SiteFacts
  <1>7. CASE r \notin site.runners
    <2>1. proc[r].pc = "register" /\ call[r] = NoCall /\ call'[r] = NoCall
      BY <1>1, <1>4, <1>7 DEF Fine, Shape
    <2> QED BY <1>1, <1>3, <1>6, <1>7, <2>1, NoCallType DEF Fine, Shape, Acked, Registered, Renewed, Holds
  <1>8. CASE r \in site.runners
    <2>1. Settled(r)
      BY <1>8 DEF Tick
    <2>2. CASE call[r] = NoCall
      <3>1. /\ call'[r] = NoCall /\ call'[r].kind = "none" /\ call[r].kind = "none"
            /\ call'[r].age = 0 /\ call'[r].reply = "none"
        BY <1>4, <2>2, NoCallType
      <3>2. proc[r].pc \in {"rest", "pause", "backoff"} \/ (proc[r].pc = "executing" /\ proc[r].renewIn > 0
                                                             /\ proc[r].jobLeft > 0)
        BY <1>1, <2>1, <2>2 DEF Settled, At, Fine, Shape
      <3>3. Shape(r)' /\ Acked(r)'
        BY <1>1, <1>3, <1>6, <1>8, <3>1, <3>2 DEF Shape, Acked
      <3>4. Registered(r)'
        BY <1>1, <1>2, <1>3, <1>6, <3>1, <3>2 DEF Fine, Registered
      <3>5. Renewed(r)'
        BY <1>1, <1>2, <1>3, <1>5, <1>6, <3>1, <3>2 DEF Fine, Renewed
      <3>6. GenerousTimers => Holds(r)'
        <4>1. CASE proc[r].pc # "executing"
          BY <1>3, <3>1, <4>1 DEF Holds
        <4>2. CASE proc[r].pc = "executing"
          <5>1. proc'[r].unrenewed = proc[r].unrenewed + 1
            BY <1>1, <1>3, <4>2, SilenceIsShort
          <5>2. /\ Down(run.lease) \in Nat /\ Down(run.deadline) \in Nat
                /\ Down(run.lease) >= run.lease - 1
                /\ run.deadline > 0 => Down(run.deadline) = run.deadline - 1
            BY <1>2, DownIsNat
          <5>3. proc'[r].jobLeft = proc[r].jobLeft - 1
            BY <1>3, <1>5, <3>2, <4>2
          <5> QED BY <1>1, <1>2, <1>3, <1>6, <3>1, <4>2, <5>1, <5>2, <5>3, TickRun DEF Holds
        <4> QED BY <4>1, <4>2
      <3> QED BY <3>3, <3>4, <3>5, <3>6 DEF Fine
    <2>3. CASE call[r] # NoCall
      <3>1. /\ call'[r].kind = call[r].kind /\ call'[r].reply = call[r].reply
            /\ call'[r].fence = call[r].fence /\ call'[r].age = call[r].age + 1
            /\ call[r].age < CallTimeout /\ call[r].kind # "none"
            /\ proc[r].pc = "executing" => proc[r].jobLeft > 0
        BY <1>1, <1>4, <2>1, <2>3 DEF Settled, Fine, Shape
      <3>2. Shape(r)' /\ Acked(r)'
        BY <1>1, <1>2, <1>3, <1>6, <1>8, <3>1 DEF Fine, Shape, Acked
      <3>3. Registered(r)'
        BY <1>1, <1>2, <1>3, <1>6, <3>1 DEF Fine, Registered
      <3>4. Renewed(r)'
        BY <1>1, <1>2, <1>3, <1>5, <1>6, <3>1 DEF Fine, Renewed
      <3>5. GenerousTimers => Holds(r)'
        <4>1. CASE ~(proc[r].pc = "executing" \/ (call[r].kind = "claim" /\ call[r].reply = "claim"))
          BY <1>3, <3>1, <4>1 DEF Holds
        <4>2. CASE proc[r].pc = "executing" \/ (call[r].kind = "claim" /\ call[r].reply = "claim")
          <5>1. proc'[r].unrenewed = proc[r].unrenewed + 1
            <6>1. proc[r].pc \in {"executing", "calling"}
              BY <1>1, <4>2 DEF Fine, Shape
            <6>2. proc[r].unrenewed =< RenewInterval + 2 * CallTimeout
              BY <1>1, <1>2, <1>6, <4>2, SilenceIsShort
            <6> QED BY <1>3, <6>1, <6>2
          <5>2. /\ Down(run.lease) \in Nat /\ Down(run.deadline) \in Nat
                /\ Down(run.lease) >= run.lease - 1
                /\ run.deadline > 0 => Down(run.deadline) = run.deadline - 1
            BY <1>2, DownIsNat
          <5>3. proc[r].pc = "executing" => proc'[r].jobLeft = proc[r].jobLeft - 1
            BY <1>3, <1>5, <3>1
          <5>4. JobTimeout \in Nat
            BY <1>1, SiteFacts
          <5> QED BY <1>1, <1>2, <1>3, <1>6, <3>1, <5>1, <5>2, <5>3, <5>4, TickRun DEF Holds
        <4> QED BY <4>1, <4>2
      <3> QED BY <3>2, <3>3, <3>4, <3>5 DEF Fine
    <2> QED BY <2>2, <2>3
  <1> QED BY <1>7, <1>8

LEMMA TickStep ==
    ASSUME RunnerInv, Tick
    PROVE  RunnerInv'
  <1>1. TypeOK /\ UNCHANGED <<site, log>>
    BY DEF RunnerInv, Tick
  <1>2. \A r \in Runners : Fine(r)' /\ (GenerousTimers => Holds(r)')
    BY TickKeeps
  <1>3. /\ proc' \in [Runners -> ProcType] /\ call' \in [Runners -> CallType]
        /\ seen' \in [Runners -> Nat] /\ run' \in RunType
    <2>1. run' \in RunType
      BY <1>1, TickRun
    <2>2. CASE Runners # {}
      BY <1>1, <2>1, <2>2, TickEffect
    <2>3. CASE Runners = {}
      BY <2>1, <2>3 DEF Tick
    <2> QED BY <2>2, <2>3
  <1>4. TypeOK'
    BY <1>1, <1>3 DEF TypeOK
  <1>5. GenerousTimers' <=> GenerousTimers
    BY <1>1 DEF GenerousTimers
  <1> QED BY <1>2, <1>4, <1>5 DEF RunnerInv
-----------------------------------------------------------------------------
(* The theorems *)

LEMMA RunnerStart == Init => RunnerInv
  <1> SUFFICES ASSUME Init
               PROVE  RunnerInv
    OBVIOUS
  <1>1. /\ {CallTimeout, RunnerTTL} \subseteq Nat
    BY TimersAssumption
  <1>2. run \in RunType
    BY DEF Init, RunType
  <1>3. /\ seen \in [Runners -> Nat] /\ proc \in [Runners -> ProcType] /\ call \in [Runners -> CallType]
        /\ \A r \in Runners : proc[r] = Boot /\ call[r] = NoCall
    BY <1>1, BootType, NoCallType DEF Init
  <1>4. TypeOK
    BY <1>2, <1>3 DEF TypeOK, Init
  <1>5. \A r \in Runners : Fine(r) /\ Holds(r)
    BY <1>1, <1>3, BootType, NoCallType DEF Fine, Shape, Acked, Registered, Renewed, Holds
  <1> QED BY <1>4, <1>5 DEF RunnerInv

LEMMA RunnerStep == RunnerInv /\ [Next]_vars => RunnerInv'
  <1> SUFFICES ASSUME RunnerInv, [Next]_vars
               PROVE  RunnerInv'
    OBVIOUS
  <1>1. ASSUME NEW r \in site.runners, Good(r)
        PROVE  RunnerInv'
    <2>1. r \in Runners
      BY RunnerFacts
    <2> QED BY <1>1, <2>1, GoodStep
  <1>2. ASSUME NEW r \in site.runners, Local(r) \/ Crash(r)
        PROVE  Good(r)
    BY <1>2, BeginningsGood, ExecutingGood, FinishingGood, CrashGood DEF Local
  <1>3. ASSUME NEW r \in site.runners, NEW k \in Kinds, Serve(r, k)
        PROVE  Good(r)
    BY <1>3, ServeRegisterGood, ServeClaimGood, ServeHeartbeatGood, ServeCompleteGood DEF Kinds
  <1>4. ASSUME NEW r \in site.runners, NEW k \in Kinds, Deliver(r, k) \/ Fail(r, k)
        PROVE  Good(r)
    BY <1>4, DeliverGood, FailGood
  <1>5. CASE UNCHANGED vars
    <2>1. UNCHANGED <<site, run, log, seen, proc, call>>
      BY <1>5 DEF vars
    <2> QED BY <2>1 DEF RunnerInv, TypeOK, Fine, Shape, Acked, Registered, Renewed, Holds, GenerousTimers
  <1> QED BY <1>1, <1>2, <1>3, <1>4, <1>5, TickStep DEF Next

\* The invariant holds in every reachable state, for any number of runners and any
\* timers: which call a runner waits for, when the coordinator last heard of it, and
\* how much of its lease is left.
THEOREM RunnerInvariant == Spec => []RunnerInv
  BY RunnerStart, RunnerStep, PTL DEF Spec

\* A Check is never executed longer than one renewal interval and two call timeouts
\* after the coordinator granted or renewed the lease, whatever the network does.
THEOREM CutOffRunnersStop == Spec => []StopsWhenCutOff
  <1>1. RunnerInv => StopsWhenCutOff
    BY SilenceIsShort DEF RunnerInv, StopsWhenCutOff, At
  <1> QED BY <1>1, RunnerInvariant, PTL

\* With a lease longer than that silence, and an attempt longer than the job's own
\* timeout and a call, no two of any number of runners execute the run at once.
THEOREM NoTwoExecutors == Spec => []OneExecutor
  <1>1. ASSUME RunnerInv, GenerousTimers, NEW q \in Runners, NEW r \in Runners,
               At(q, "executing"), At(r, "executing")
        PROVE  q = r
    BY <1>1 DEF RunnerInv, Holds, At
  <1>2. RunnerInv => OneExecutor
    BY <1>1 DEF OneExecutor
  <1> QED BY <1>2, RunnerInvariant, PTL

\* A runner that was told its completion is recorded finds it in the log, under its
\* own fence and with its own result, however often it had to send it.
THEOREM AcknowledgementsAreTrue == Spec => []AcknowledgedIsRecorded
  <1>1. RunnerInv => AcknowledgedIsRecorded
    BY DEF RunnerInv, Fine, Acked, AcknowledgedIsRecorded, At
  <1> QED BY <1>1, RunnerInvariant, PTL

\* No runner is sent away for a registration that ran out, when the coordinator keeps
\* it for a registration interval and two call timeouts.
THEOREM RegistrationsAreKept == Spec => []NeverSentAway
  <1>1. RunnerInv => NeverSentAway
    BY DEF RunnerInv, Fine, Shape, NeverSentAway, At
  <1> QED BY <1>1, RunnerInvariant, PTL
=============================================================================
