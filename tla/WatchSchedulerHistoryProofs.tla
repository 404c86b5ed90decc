--------------------- MODULE WatchSchedulerHistoryProofs ---------------------
(* What the stored attempts, claims, events and notifications of            *)
(* WatchScheduler say about the past, for every value of its constants.     *)
EXTENDS WatchSchedulerProofs
-----------------------------------------------------------------------------
(* Attempts, fences and leases of one run *)

\* What AttemptBudget says of one row.
Budgeted(r) ==
    /\ r.attempts =< MaxAttempts
    /\ r.state = "retry" => r.attempts < MaxAttempts
    /\ r.fence \in {r.attempts, r.attempts + 1}
    /\ r.state \in ActiveStates => r.fence = r.attempts
    /\ r.leaseUntil =< r.deadline

LEMMA BudgetOfRows ==
    AttemptBudget <=> \A i \in DOMAIN runs : Budgeted(runs[i])
  BY DEF AttemptBudget, Budgeted, Active

LEMMA NewRunBudgeted == Budgeted(NewRun)
  BY BoundsAssumption DEF Budgeted, NewRun, Zero, ActiveStates

\* Closing a row keeps its attempts and its lease, and moves its fence by one
\* at most.
LEMMA ClosedBudgeted ==
    ASSUME NEW r \in RunType, NEW s \in RunType, Budgeted(r),
           r.state \in ActiveStates, s.state \notin ActiveStates,
           s.attempts = r.attempts, s.fence \in {r.fence, r.fence + 1},
           s.leaseUntil = r.leaseUntil, s.deadline = r.deadline
    PROVE  Budgeted(s)
  BY DEF Budgeted, RunType, ActiveStates

\* cancelRuns closes the active rows of w under the next fence.
LEMMA CancelBudgeted ==
    ASSUME TypeOK, AttemptBudget, NEW w \in Watches, CancelRuns(w)
    PROVE  AttemptBudget'
  <1>1. DOMAIN runs' = DOMAIN runs
    BY DEF CancelRuns
  <1>2. ASSUME NEW i \in DOMAIN runs PROVE Budgeted(runs'[i])
    <2>0. runs[i] \in RunType /\ runs'[i] \in RunType /\ Budgeted(runs[i])
      BY CancelRunsEffect, BudgetOfRows DEF TypeOK
    <2>1. CASE i.watch = w /\ Active(i)
      <3>1. runs'[i] = [runs[i] EXCEPT !.state = "cancelled", !.fence = @ + 1, !.finishedAt = now]
        BY <2>1 DEF CancelRuns
      <3>2. /\ runs'[i].state = "cancelled" /\ runs'[i].attempts = runs[i].attempts
            /\ runs'[i].fence = runs[i].fence + 1
            /\ runs'[i].leaseUntil = runs[i].leaseUntil /\ runs'[i].deadline = runs[i].deadline
        BY <2>0, <3>1 DEF RunType
      <3>3. "cancelled" \notin ActiveStates
        BY DEF ActiveStates
      <3> QED BY <2>0, <2>1, <3>2, <3>3, ClosedBudgeted DEF Active
    <2>2. CASE ~(i.watch = w /\ Active(i))
      BY <2>0, <2>2, CancelRunsEffect
    <2> QED BY <2>1, <2>2
  <1>3. \A i \in DOMAIN runs' : Budgeted(runs'[i])
    BY <1>1, <1>2
  <1> QED BY <1>3 DEF AttemptBudget, Budgeted, Active

\* What the claim loop makes of a row: granted, closed, or left alone.
LEMMA WalkRows ==
    ASSUME NEW r \in Runners, NEW picked, NEW passed,
           picked \subseteq Claimable(r), passed \subseteq Outdated \cup Exhausted(r),
           Walk(r, picked, passed), NEW i \in DOMAIN runs
    PROVE  \/ i \in picked /\ runs'[i] = Grant(r, i)
           \/ /\ Active(i)
              /\ runs'[i] = [runs[i] EXCEPT !.state = "cancelled", !.finishedAt = now]
           \/ /\ Active(i)
              /\ runs'[i] = [runs[i] EXCEPT !.state = "failed", !.outcome = "unknown",
                                            !.finishedAt = now]
           \/ i \notin picked /\ runs'[i] = runs[i]
  <1>1. i \in picked => i \notin passed \cap Outdated /\ i \notin passed \cap Exhausted(r)
    BY PendingIsActive
  <1>2. i \in passed \cap Outdated => i \notin passed \cap Exhausted(r)
    BY DEF Outdated, Exhausted, Admitted
  <1>3. i \in passed => Active(i)
    BY PendingIsActive
  <1>4. CASE i \in picked
    BY Zenon, <1>1, <1>4 DEF Walk
  <1>5. CASE i \notin picked /\ i \in passed \cap Outdated
    BY Zenon, <1>2, <1>3, <1>5 DEF Walk
  <1>6. CASE i \notin picked /\ i \notin passed \cap Outdated /\ i \in passed \cap Exhausted(r)
    BY Zenon, <1>3, <1>6 DEF Walk
  <1>7. CASE i \notin picked /\ i \notin passed \cap Outdated /\ i \notin passed \cap Exhausted(r)
    BY Zenon, <1>7 DEF Walk
  <1> QED BY <1>4, <1>5, <1>6, <1>7

\* A claim uses one attempt that was left, and its lease ends by its deadline.
LEMMA GrantBudgeted ==
    ASSUME TypeOK, NEW r \in Runners, NEW i \in Claimable(r), Budgeted(runs[i])
    PROVE  Budgeted(Grant(r, i))
  <1>0. i \in DOMAIN runs /\ Active(i) /\ runs[i].attempts < MaxAttempts
    <2>1. i \in DOMAIN runs /\ Active(i) /\ ~(runs[i].attempts >= MaxAttempts)
      BY PendingIsActive DEF Claimable, Exhausted
    <2>2. runs[i].attempts \in Nat /\ MaxAttempts \in Nat
      BY <2>1, BoundsAssumption DEF TypeOK, RunType
    <2> QED BY <2>1, <2>2
  <1>1. runs[i] \in RunType /\ now \in Nat
    BY <1>0 DEF TypeOK, Time
  <1> DEFINE lease == Min2(now + LeaseDuration, now + ExecutionTimeout)
  <1>2. lease =< now + ExecutionTimeout
    <2>1. now + LeaseDuration \in Nat /\ now + ExecutionTimeout \in Nat
      BY <1>1, BoundsAssumption
    <2> QED BY <2>1, Min2Nat
  <1>3. /\ Grant(r, i).attempts = runs[i].attempts + 1 /\ Grant(r, i).fence = runs[i].fence + 1
        /\ Grant(r, i).state = "running" /\ Grant(r, i).deadline = now + ExecutionTimeout
        /\ Grant(r, i).leaseUntil = lease
    <2> HIDE DEF lease
    <2> QED BY <1>1 DEF Grant, RunType, lease
  <1>4. runs[i].attempts \in Nat /\ runs[i].fence = runs[i].attempts /\ MaxAttempts \in Nat
    BY <1>0, <1>1, BoundsAssumption DEF Budgeted, Active, RunType
  <1> HIDE DEF lease
  <1> QED BY <1>0, <1>2, <1>3, <1>4 DEF Budgeted

LEMMA WalkBudgeted ==
    ASSUME TypeOK, AttemptBudget, NEW r \in Runners, NEW picked, NEW passed,
           picked \subseteq Claimable(r), passed \subseteq Outdated \cup Exhausted(r),
           Walk(r, picked, passed)
    PROVE  AttemptBudget'
  <1>1. DOMAIN runs' = DOMAIN runs
    BY DEF Walk
  <1>2. ASSUME NEW i \in DOMAIN runs PROVE Budgeted(runs'[i])
    <2>0. runs[i] \in RunType /\ runs'[i] \in RunType /\ Budgeted(runs[i])
      BY WalkEffect, BudgetOfRows DEF TypeOK
    <2>1. CASE i \in picked /\ runs'[i] = Grant(r, i)
      BY <2>0, <2>1, GrantBudgeted
    <2>2. CASE /\ Active(i)
               /\ \/ runs'[i] = [runs[i] EXCEPT !.state = "cancelled", !.finishedAt = now]
                  \/ runs'[i] = [runs[i] EXCEPT !.state = "failed", !.outcome = "unknown",
                                                !.finishedAt = now]
      <3>1. /\ runs'[i].state \in {"cancelled", "failed"} /\ runs'[i].attempts = runs[i].attempts
            /\ runs'[i].fence = runs[i].fence
            /\ runs'[i].leaseUntil = runs[i].leaseUntil /\ runs'[i].deadline = runs[i].deadline
        BY <2>0, <2>2 DEF RunType
      <3>2. runs'[i].state \notin ActiveStates
        BY <3>1 DEF ActiveStates
      <3> QED BY <2>0, <2>2, <3>1, <3>2, ClosedBudgeted DEF Active
    <2>3. CASE runs'[i] = runs[i]
      BY <2>0, <2>3
    <2> QED BY <2>1, <2>2, <2>3, WalkRows
  <1>3. \A i \in DOMAIN runs' : Budgeted(runs'[i])
    BY <1>1, <1>2
  <1> QED BY <1>3 DEF AttemptBudget, Budgeted, Active

LEMMA HeartbeatBudgeted ==
    ASSUME TypeOK, AttemptBudget, NEW g \in granted, Heartbeat(g)
    PROVE  AttemptBudget'
  <1>0. Leased(g) /\ DOMAIN runs' = DOMAIN runs
    BY DEF Heartbeat
  <1> DEFINE lease == Min2(now + LeaseDuration, runs[g.run].deadline)
  <1>1. lease =< runs[g.run].deadline
    <2>1. now + LeaseDuration \in Nat /\ runs[g.run].deadline \in Nat
      BY <1>0, LeasedTypes, BoundsAssumption DEF RunType, Time
    <2> QED BY <2>1, Min2Nat
  <1>2. ASSUME NEW i \in DOMAIN runs PROVE Budgeted(runs'[i])
    <2>0. runs[i] \in RunType /\ Budgeted(runs[i])
      BY BudgetOfRows DEF TypeOK
    <2>1. CASE i = g.run
      <3>1. runs'[i] = [runs[i] EXCEPT !.leaseUntil = lease]
        BY <2>1 DEF Heartbeat
      <3> HIDE DEF lease
      <3>2. /\ runs'[i].state = runs[i].state /\ runs'[i].attempts = runs[i].attempts
            /\ runs'[i].fence = runs[i].fence /\ runs'[i].deadline = runs[i].deadline
            /\ runs'[i].leaseUntil = lease
        BY <2>0, <3>1 DEF RunType
      <3> QED BY <1>1, <2>0, <2>1, <3>2 DEF Budgeted
    <2>2. CASE i # g.run
      <3>1. runs'[i] = runs[i]
        BY <2>2 DEF Heartbeat
      <3> QED BY <2>0, <3>1
    <2> QED BY <2>1, <2>2
  <1>3. \A i \in DOMAIN runs' : Budgeted(runs'[i])
    BY <1>0, <1>2
  <1> QED BY <1>3 DEF AttemptBudget, Budgeted, Active

\* A reported result, known or not, keeps the attempts, the fence and the lease
\* of its run, and leaves it waiting only when an attempt is left.
LEMMA FinishBudgeted ==
    ASSUME TypeOK, AttemptBudget, NEW g \in granted, NEW c \in Completions, FinishRun(g, c)
    PROVE  AttemptBudget'
  <1>0. Leased(g)
    BY DEF FinishRun
  <1> DEFINE r == runs[g.run]
  <1>1. /\ r \in RunType /\ Budgeted(r) /\ g.run \in DOMAIN runs
        /\ r.state \in ActiveStates
    BY <1>0, LeasedTypes, BudgetOfRows DEF Active
  <1>2. /\ DOMAIN runs' = DOMAIN runs
        /\ \A i \in DOMAIN runs : i # g.run => runs'[i] = runs[i]
    BY DEF FinishRun, FinishUnknown, FinishKnown
  <1>3. /\ runs'[g.run].attempts = r.attempts /\ runs'[g.run].fence = r.fence
        /\ runs'[g.run].leaseUntil = r.leaseUntil /\ runs'[g.run].deadline = r.deadline
        /\ \/ runs'[g.run].state = "retry" /\ r.attempts < MaxAttempts
           \/ runs'[g.run].state \in {"failed", "completed"}
    <2>1. CASE FinishUnknown(g, c)
      <3> DEFINE state == IF r.attempts < MaxAttempts THEN "retry" ELSE "failed"
                 retryAt == IF r.attempts < MaxAttempts THEN now + Backoff[r.attempts]
                            ELSE r.retryAt
      <3>1. runs'[g.run] = [r EXCEPT !.hash = c, !.outcome = "unknown", !.finishedAt = now,
                                     !.state = state, !.retryAt = retryAt]
        BY <1>1, <2>1 DEF FinishUnknown
      <3>2. \/ state = "retry" /\ r.attempts < MaxAttempts
            \/ state = "failed"
        OBVIOUS
      <3> HIDE DEF state, retryAt, r
      <3> QED BY <1>1, <3>1, <3>2 DEF RunType
    <2>2. ASSUME NEW b \in BOOLEAN, FinishKnown(g, c, b)
          PROVE  /\ runs'[g.run].attempts = r.attempts /\ runs'[g.run].fence = r.fence
                 /\ runs'[g.run].leaseUntil = r.leaseUntil /\ runs'[g.run].deadline = r.deadline
                 /\ runs'[g.run].state = "completed"
      <3>1. runs'[g.run] = [r EXCEPT !.hash = c, !.outcome = c.outcome,
                                     !.state = "completed", !.finishedAt = now]
        BY <1>1, <2>2 DEF FinishKnown
      <3> HIDE DEF r
      <3> QED BY <1>1, <3>1 DEF RunType
    <2> QED BY <2>1, <2>2 DEF FinishRun
  <1>4. Budgeted(runs'[g.run])
    <2> HIDE DEF r
    <2> QED BY <1>1, <1>3 DEF Budgeted, ActiveStates
  <1>5. \A i \in DOMAIN runs' : Budgeted(runs'[i])
    BY <1>2, <1>4, BudgetOfRows
  <1> QED BY <1>5 DEF AttemptBudget, Budgeted, Active

LEMMA BudgetStep ==
    ASSUME TypeOK, AttemptBudget, [Next]_vars
    PROVE  AttemptBudget'
  <1>1. ASSUME NEW w \in Watches, DefinitionOf(w) PROVE AttemptBudget'
    <2>1. CancelRuns(w)
      BY <1>1, DefinitionStep DEF DefinitionOf
    <2> QED BY <2>1, CancelBudgeted
  <1>2. CASE Reconcile
    <2> DEFINE fresh == {RunIdOf(w) : w \in {v \in Watches : NeedsRun(v)}}
    <2>1. \A i \in DOMAIN runs' :
             \/ i \in fresh /\ runs'[i] = NewRun
             \/ i \in DOMAIN runs /\ i \notin fresh /\ runs'[i] = runs[i]
      BY <1>2, ReconcileEffect
    <2> HIDE DEF fresh
    <2>2. \A i \in DOMAIN runs' : Budgeted(runs'[i])
      BY <2>1, BudgetOfRows, NewRunBudgeted
    <2> QED BY <2>2 DEF AttemptBudget, Budgeted, Active
  <1>3. ASSUME NEW r \in Runners, ClaimDue(r) PROVE AttemptBudget'
    <2>1. PICK picked, passed :
              /\ picked \subseteq Claimable(r) /\ passed \subseteq Outdated \cup Exhausted(r)
              /\ Walk(r, picked, passed)
      BY <1>3, ClaimWalks
    <2> QED BY <2>1, WalkBudgeted
  <1>4. CASE UNCHANGED runs
    BY <1>4 DEF AttemptBudget, Active
  <1>5. ASSUME NEW r \in Runners, RegisterRunner(r) PROVE UNCHANGED runs
    BY <1>5 DEF RegisterRunner
  <1>6. Tick \/ StepClockBack \/ UNCHANGED vars => UNCHANGED runs
    BY DEF Tick, StepClockBack, vars
  <1> QED BY <1>1, <1>2, <1>3, <1>4, <1>5, <1>6, NextSplit, HeartbeatBudgeted, FinishBudgeted

\* For any retry limit: no run is attempted more than MaxAttempts times however
\* its leases expire and its runners fail, its fence counts its grants, and no
\* heartbeat carries a lease past the deadline.
THEOREM AttemptsWithinBudget == Spec => []AttemptBudget
  <1>1. Init => AttemptBudget
    BY DEF Init, AttemptBudget
  <1>2. TypeOK /\ AttemptBudget /\ [Next]_vars => AttemptBudget'
    BY BudgetStep
  <1> QED BY <1>1, <1>2, TypeCorrect, PTL DEF Spec

\* A Watch that was edited, paused, deleted, reset or has fired leaves no run
\* behind that could still be claimed or completed.
THEOREM NoRunLeftBehind == Spec => []ActiveRunsAreCurrent
  <1>1. ExclusionInv => ActiveRunsAreCurrent
    BY DEF ExclusionInv
  <1> QED BY <1>1, ExclusionInvariant, PTL
-----------------------------------------------------------------------------
(* Versions: what a step may do to a definition *)

\* Within a version the policy stays, and a Watch can only be completed.
VersionPins ==
    \A v \in Watches :
        \/ defs'[v].version > defs[v].version
        \/ /\ defs'[v].version = defs[v].version
           /\ defs'[v].policy = defs[v].policy
           /\ defs'[v].lifecycle \in {defs[v].lifecycle, "completed"}

LEMMA VersionStep ==
    ASSUME TypeOK, AbsentIsUnversioned, [Next]_vars
    PROVE  VersionPins
  <1>0. \A v \in Watches : defs[v] \in DefinitionType /\ defs[v].version \in Nat
    BY DEF TypeOK, DefinitionType
  <1>1. ASSUME NEW w \in Watches, DefinitionOf(w) PROVE VersionPins
    <2>1. /\ \A v \in Watches : v # w => defs'[v] = defs[v]
          /\ \/ defs'[w].version = defs[w].version + 1
             \/ defs[w].lifecycle = "absent" /\ defs'[w].version = 1
      BY <1>1, DefinitionStep DEF DefinitionOf
    <2>2. defs'[w].version > defs[w].version
      BY <1>0, <2>1 DEF AbsentIsUnversioned
    <2> QED BY <2>1, <2>2 DEF VersionPins
  <1>2. CASE UNCHANGED defs
    BY <1>2 DEF VersionPins
  <1>3. ASSUME NEW g \in granted, NEW c \in Completions, FinishRun(g, c) PROVE VersionPins
    <2>1. \/ defs' = defs
          \/ defs' = [defs EXCEPT ![g.run.watch].lifecycle = "completed"]
      <3>1. Leased(g)
        BY <1>3 DEF FinishRun
      <3>2. FinishUnknown(g, c) => defs' = defs
        BY DEF FinishUnknown
      <3>3. ASSUME NEW b \in BOOLEAN, FinishKnown(g, c, b)
            PROVE  \/ defs' = defs
                   \/ defs' = [defs EXCEPT ![g.run.watch].lifecycle = "completed"]
        BY <3>1, <3>3, FinishKnownEffect
      <3> QED BY <1>3, <3>2, <3>3 DEF FinishRun
    <2>2. CASE defs' = [defs EXCEPT ![g.run.watch].lifecycle = "completed"]
      <3> SUFFICES ASSUME NEW v \in Watches
                   PROVE  /\ defs'[v].version = defs[v].version
                          /\ defs'[v].policy = defs[v].policy
                          /\ defs'[v].lifecycle \in {defs[v].lifecycle, "completed"}
        BY DEF VersionPins
      <3>1. v = g.run.watch => defs'[v] = [defs[v] EXCEPT !.lifecycle = "completed"]
        BY <2>2 DEF TypeOK
      <3>2. v # g.run.watch => defs'[v] = defs[v]
        BY <2>2 DEF TypeOK
      <3> QED BY <1>0, <3>1, <3>2 DEF DefinitionType
    <2> QED BY <1>2, <2>1, <2>2
  <1>4. ASSUME NEW r \in Runners, RegisterRunner(r) \/ ClaimDue(r) PROVE UNCHANGED defs
    BY <1>4 DEF RegisterRunner, ClaimDue
  <1>5. ASSUME NEW g \in granted, Heartbeat(g) PROVE UNCHANGED defs
    BY <1>5 DEF Heartbeat
  <1>6. Reconcile \/ Tick \/ StepClockBack \/ UNCHANGED vars => UNCHANGED defs
    BY DEF Reconcile, Tick, StepClockBack, vars
  <1> QED BY <1>1, <1>2, <1>3, <1>4, <1>5, <1>6, NextSplit

\* A claim ever granted belongs to the current version of its Watch or to an
\* earlier one.
LEMMA GrantedVersions ==
    ASSUME TypeOK, IdsBehind, NEW g \in granted
    PROVE  /\ g.run.watch \in Watches /\ g.run.version \in Nat
           /\ defs[g.run.watch].version \in Nat
           /\ g.run.version =< defs[g.run.watch].version
  <1>1. g \in ClaimType
    BY DEF TypeOK
  <1>2. g.run \in RunId
    BY <1>1 DEF ClaimType
  <1>3. g.run.watch \in Watches /\ g.run.version \in Nat
    BY <1>2 DEF RunId
  <1>4. defs[g.run.watch].version \in Nat
    BY <1>3 DEF TypeOK, DefinitionType
  <1> QED BY <1>3, <1>4 DEF IdsBehind

\* A claim that is current after a step that did not grant it was current before
\* it, under the same policy.
LEMMA CurrentBefore ==
    ASSUME TypeOK, IdsBehind, VersionPins, NEW g \in granted,
           defs'[g.run.watch].version = g.run.version
    PROVE  /\ defs[g.run.watch].version = g.run.version
           /\ defs'[g.run.watch].policy = defs[g.run.watch].policy
           /\ defs'[g.run.watch].lifecycle \in {defs[g.run.watch].lifecycle, "completed"}
  <1>1. /\ g.run.watch \in Watches /\ g.run.version \in Nat
        /\ defs[g.run.watch].version \in Nat
        /\ g.run.version =< defs[g.run.watch].version
    BY GrantedVersions
  <1> QED BY <1>1 DEF VersionPins
-----------------------------------------------------------------------------
(* Requirements of the claims that can still be used *)

LEMMA RequirementsStep ==
    ASSUME TypeOK, IdsBehind, AbsentIsUnversioned, GrantsMeetRequirements, [Next]_vars
    PROVE  GrantsMeetRequirements'
  <1>1. VersionPins
    BY VersionStep
  <1>2. ASSUME NEW g \in granted, Current(g.run)'
        PROVE  Eligible(g.runner, g.run.watch)'
    <2>1. /\ defs[g.run.watch].version = g.run.version
          /\ defs'[g.run.watch].policy = defs[g.run.watch].policy
          /\ defs'[g.run.watch].lifecycle \in {defs[g.run.watch].lifecycle, "completed"}
          /\ defs'[g.run.watch].lifecycle = "enabled"
      BY <1>1, <1>2, CurrentBefore DEF Current
    <2>2. Current(g.run)
      BY <2>1 DEF Current
    <2> QED BY <2>1, <2>2 DEF GrantsMeetRequirements, Eligible
  <1>3. CASE granted' = granted
    BY <1>2, <1>3 DEF GrantsMeetRequirements
  <1>4. ASSUME NEW r \in Runners, ClaimDue(r) PROVE GrantsMeetRequirements'
    <2>1. PICK picked, passed :
              /\ picked \subseteq Claimable(r) /\ passed \subseteq Outdated \cup Exhausted(r)
              /\ Walk(r, picked, passed)
      BY <1>4, ClaimWalks
    <2>2. granted' = granted \cup
            {[run |-> i, fence |-> runs[i].fence + 1, runner |-> r] : i \in picked}
      BY <2>1, WalkEffect
    <2>3. \A i \in picked : Eligible(r, i.watch)
      BY <2>1 DEF Claimable, Admitted
    <2>4. defs' = defs
      BY <1>4 DEF ClaimDue
    <2>5. \A g \in granted' : g \in granted \/ \E i \in picked : g.run = i /\ g.runner = r
      BY <2>2
    <2>6. \A g \in granted' : g \notin granted => Eligible(g.runner, g.run.watch)'
      BY <2>3, <2>4, <2>5 DEF Eligible
    <2> QED BY <1>2, <2>6 DEF GrantsMeetRequirements
  <1>5. ASSUME NEW w \in Watches, DefinitionOf(w) PROVE granted' = granted
    BY <1>5, DefinitionStep DEF DefinitionOf
  <1>6. ASSUME NEW r \in Runners, RegisterRunner(r) PROVE granted' = granted
    BY <1>6 DEF RegisterRunner
  <1>7. ASSUME NEW g \in granted, NEW c \in Completions, Heartbeat(g) \/ FinishRun(g, c)
        PROVE  granted' = granted
    BY <1>7 DEF Heartbeat, FinishRun
  <1>8. ASSUME NEW g \in granted, Heartbeat(g) PROVE granted' = granted
    BY <1>8 DEF Heartbeat
  <1>9. Reconcile \/ Tick \/ StepClockBack \/ UNCHANGED vars => granted' = granted
    BY DEF Reconcile, Tick, StepClockBack, vars
  <1> QED BY <1>3, <1>4, <1>5, <1>6, <1>7, <1>8, <1>9, NextSplit

\* However the requirements of a Watch are edited while its runs are out, a claim
\* that can still be used is held by a runner with all the grants required now.
THEOREM UsableClaimsMeetRequirements == Spec => []GrantsMeetRequirements
  <1>1. Init => GrantsMeetRequirements
    BY DEF Init, GrantsMeetRequirements
  <1>2. ExclusionInv /\ GrantsMeetRequirements /\ [Next]_vars => GrantsMeetRequirements'
    BY RequirementsStep DEF ExclusionInv
  <1> QED BY <1>1, <1>2, ExclusionInvariant, PTL DEF Spec
-----------------------------------------------------------------------------
(* The event ledger *)

\* An event names the Watch of its run, and its run was claimed.
EventsNameTheirWatch == \A e \in events : e.run.watch = e.watch

EventHistoryInv == EventsHaveOneRun /\ EventsNameTheirWatch /\ ArmedOneShotHasNotFired

\* An accepted known result enters no event, or one event of its own run that
\* says what the run's outcome says.  An event that fires a one-shot Watch
\* completes it.
LEMMA KnownResultEvent ==
    ASSUME TypeOK, NEW g \in granted, NEW c \in Completions, NEW b \in BOOLEAN,
           Leased(g), FinishKnown(g, c, b)
    PROVE  \/ events' = events
           \/ \E e : /\ events' = events \cup {e}
                     /\ e.run = g.run /\ e.watch = g.run.watch
                     /\ runs'[g.run].state = "completed"
                     /\ (e.value = "true") = (runs'[g.run].outcome = "pass")
                     /\ defs[g.run.watch].policy.mode = "one_shot"
                        /\ Target(defs[g.run.watch].policy, e.value)
                        => defs'[g.run.watch].lifecycle = "completed"
  <1> DEFINE w == g.run.watch
             p == defs[w].policy
             value == IF c.outcome = "pass" THEN "true" ELSE "false"
             kind == EventKind(p, obs[w].lastKnown, value)
             e == [watch |-> w, run |-> g.run, kind |-> kind,
                   previous |-> obs[w].lastKnown, value |-> value, source |-> c.fp]
  <1>0. runs[g.run] \in RunType /\ g.run \in DOMAIN runs /\ w \in Watches
    BY LeasedTypes
  <1>1. events' = IF kind = "" THEN events ELSE events \cup {e}
    BY DEF FinishKnown
  <1>2. defs' = IF Fires(p, kind, value) THEN [defs EXCEPT ![w].lifecycle = "completed"] ELSE defs
    BY DEF FinishKnown
  <1>3. runs'[g.run].state = "completed" /\ runs'[g.run].outcome = c.outcome
    <2>1. runs'[g.run] = [runs[g.run] EXCEPT !.hash = c, !.outcome = c.outcome,
                                             !.state = "completed", !.finishedAt = now]
      BY <1>0 DEF FinishKnown
    <2> QED BY <1>0, <2>1 DEF RunType
  <1>4. (value = "true") = (c.outcome = "pass")
    OBVIOUS
  <1>5. e.run = g.run /\ e.watch = w /\ e.value = value
    OBVIOUS
  <1>6. ASSUME kind # "", p.mode = "one_shot", Target(p, value)
        PROVE  defs'[w].lifecycle = "completed"
    <2>1. Fires(p, kind, value)
      BY <1>6 DEF Fires
    <2>2. defs' = [defs EXCEPT ![w].lifecycle = "completed"]
      BY <1>2, <2>1
    <2>3. defs[w] \in DefinitionType /\ defs \in [Watches -> DefinitionType]
      BY <1>0 DEF TypeOK
    <2> HIDE DEF w
    <2> QED BY <1>0, <2>2, <2>3 DEF DefinitionType
  <1> HIDE DEF kind, e, value, p
  <1>7. CASE kind = ""
    BY <1>1, <1>7
  <1>8. CASE kind # ""
    <2>1. events' = events \cup {e}
      BY <1>1, <1>8
    <2> QED BY <1>3, <1>4, <1>5, <1>6, <1>8, <2>1 DEF p
  <1> QED BY <1>7, <1>8

\* The row of an event's run does not change while it is retained.
LEMMA EventRowsStay ==
    ASSUME EvidenceInv, [Next]_vars, NEW e \in events, e.run \in DOMAIN runs'
    PROVE  e.run \in DOMAIN runs /\ runs'[e.run] = runs[e.run]
  <1>0. /\ TypeOK /\ IdsBehind /\ \E g \in granted : g.run = e.run
        /\ e.run \in DOMAIN runs => ~Active(e.run)
    BY DEF EvidenceInv, ExclusionInv, EventsClosed
  <1>1. CASE RowsKept
    BY <1>0, <1>1 DEF RowsKept
  <1>2. CASE Reconcile
    <2>1. \/ \E w \in Watches : e.run = RunIdOf(w)
          \/ e.run \in DOMAIN runs /\ runs'[e.run] = runs[e.run]
      BY <1>0, <1>2, ReconcileEffect
    <2>2. \A w \in Watches : e.run # RunIdOf(w)
      BY <1>0, FreshIdsUnused
    <2> QED BY <2>1, <2>2
  <1> QED BY <1>0, <1>1, <1>2, RowsKeptByAll

LEMMA EventHistoryStep ==
    ASSUME EvidenceInv, EventHistoryInv, [Next]_vars
    PROVE  EventHistoryInv'
  <1>0. /\ TypeOK /\ IdsBehind /\ AbsentIsUnversioned /\ EventsClosed
        /\ EventsHaveOneRun /\ EventsNameTheirWatch /\ ArmedOneShotHasNotFired
    BY DEF EvidenceInv, ExclusionInv, EventHistoryInv
  <1>1. VersionPins
    BY <1>0, VersionStep
  \* The events there were.
  <1>2. \A e \in events : e.run \in DOMAIN runs' =>
           /\ runs'[e.run].state = "completed"
           /\ (e.value = "true") = (runs'[e.run].outcome = "pass")
    BY <1>0, EventRowsStay DEF EventsHaveOneRun
  <1>3. ASSUME NEW e \in events, NEW v \in Watches, e.watch = v,
               defs'[v].lifecycle = "enabled", defs'[v].policy.mode = "one_shot",
               e.run.version = defs'[v].version, Target(defs'[v].policy, e.value)
        PROVE  FALSE
    <2>1. PICK g \in granted : g.run = e.run
      BY <1>0 DEF EventsClosed
    <2>2. g.run.watch = v
      BY <1>0, <1>3, <2>1 DEF EventsNameTheirWatch
    <2>3. /\ defs[v].version = e.run.version /\ defs'[v].policy = defs[v].policy
          /\ defs'[v].lifecycle \in {defs[v].lifecycle, "completed"}
      BY <1>0, <1>1, <1>3, <2>1, <2>2, CurrentBefore
    <2> QED BY <1>0, <1>3, <2>3 DEF ArmedOneShotHasNotFired
  <1>4. CASE events' = events
    BY <1>0, <1>2, <1>3, <1>4
       DEF EventHistoryInv, EventsHaveOneRun, EventsNameTheirWatch, ArmedOneShotHasNotFired
  \* The one that is new.
  <1>5. ASSUME NEW g \in granted, NEW c \in Completions, NEW b \in BOOLEAN,
               Leased(g), FinishKnown(g, c, b), events' # events
        PROVE  EventHistoryInv'
    <2>1. PICK e : /\ events' = events \cup {e}
                   /\ e.run = g.run /\ e.watch = g.run.watch
                   /\ runs'[g.run].state = "completed"
                   /\ (e.value = "true") = (runs'[g.run].outcome = "pass")
                   /\ defs[g.run.watch].policy.mode = "one_shot"
                      /\ Target(defs[g.run.watch].policy, e.value)
                      => defs'[g.run.watch].lifecycle = "completed"
      BY <1>0, <1>5, KnownResultEvent
    <2>2. \A f \in events : f.run # g.run
      BY <1>0, <1>5, LeasedTypes DEF EventsClosed
    <2>3. EventsHaveOneRun'
      BY <1>0, <1>2, <2>1, <2>2 DEF EventsHaveOneRun
    <2>4. EventsNameTheirWatch'
      BY <1>0, <2>1 DEF EventsNameTheirWatch
    <2>5. ASSUME NEW v \in Watches, e.watch = v,
                 defs'[v].lifecycle = "enabled", defs'[v].policy.mode = "one_shot",
                 e.run.version = defs'[v].version, Target(defs'[v].policy, e.value)
          PROVE  FALSE
      <3>1. g.run.watch = v /\ defs'[v].policy = defs[v].policy
        BY <1>0, <1>1, <2>1, <2>5, CurrentBefore
      <3> QED BY <2>1, <2>5, <3>1
    <2>6. ArmedOneShotHasNotFired'
      BY <1>3, <2>1, <2>5 DEF ArmedOneShotHasNotFired
    <2> QED BY <2>3, <2>4, <2>6 DEF EventHistoryInv
  <1> QED BY <1>0, <1>4, <1>5, EvidenceStep

LEMMA EventHistoryInvariant == Spec => []EventHistoryInv
  <1>1. Init => EventHistoryInv
    BY DEF Init, EventHistoryInv, EventsHaveOneRun, EventsNameTheirWatch, ArmedOneShotHasNotFired
  <1>2. EvidenceInv /\ EventHistoryInv /\ [Next]_vars => EventHistoryInv'
    BY EventHistoryStep
  <1> QED BY <1>1, <1>2, EvidenceInvariant, PTL DEF Spec

\* Whatever is replayed, taken over or pruned, a run contributes at most one
\* event, and that event agrees with the outcome the run is stored with.
THEOREM OneEventPerRun == Spec => []EventsHaveOneRun
  <1>1. EventHistoryInv => EventsHaveOneRun
    BY DEF EventHistoryInv
  <1> QED BY <1>1, EventHistoryInvariant, PTL

\* A one-shot Watch fires once per version: its event and the end of the Watch
\* cannot be separated by anything that happens in between.
THEOREM OneShotFiresOnce == Spec => []ArmedOneShotHasNotFired
  <1>1. EventHistoryInv => ArmedOneShotHasNotFired
    BY DEF EventHistoryInv
  <1> QED BY <1>1, EventHistoryInvariant, PTL
-----------------------------------------------------------------------------
(* Notifications and the cooldown *)

\* The clock never shows time.Time{}, so a LastNotifiedAt that was set is seen
\* as set; the run of a notification was claimed; and LastNotifiedAt is not
\* before any notification of the current version, all of which were made under
\* the cooldown in force.
NoticesTracked ==
    /\ now >= 1
    /\ \A n \in notices :
          /\ \E g \in granted : g.run = n.run
          /\ n.run.version = defs[n.run.watch].version =>
                /\ obs[n.run.watch].lastNotified # Zero
                /\ n.at =< obs[n.run.watch].lastNotified
                /\ n.cooldown = defs[n.run.watch].policy.cooldown

NoticeInv == NoticesTracked /\ CooldownSpacing

\* A step that records no notification keeps the version of a Watch and its
\* LastNotifiedAt, or moves the version on.
LEMMA NotifiedStep ==
    ASSUME TypeOK, AbsentIsUnversioned, [Next]_vars
    PROVE  \/ /\ notices' = notices
              /\ \A v \in Watches :
                    \/ defs'[v].version > defs[v].version
                    \/ obs'[v].lastNotified = obs[v].lastNotified
           \/ \E g \in granted, c \in Completions, b \in BOOLEAN :
                 Leased(g) /\ FinishKnown(g, c, b) /\ UNCHANGED <<now, granted>>
  <1> DEFINE Quiet == /\ notices' = notices
                      /\ \A v \in Watches : \/ defs'[v].version > defs[v].version
                                            \/ obs'[v].lastNotified = obs[v].lastNotified
  <1>0. \A v \in Watches : defs[v].version \in Nat
    BY DEF TypeOK, DefinitionType
  <1>1. ASSUME NEW w \in Watches, DefinitionOf(w) PROVE Quiet
    <2>1. /\ \A v \in Watches : v # w => obs'[v] = obs[v]
          /\ \/ defs'[w].version = defs[w].version + 1
             \/ defs[w].lifecycle = "absent" /\ defs'[w].version = 1
          /\ notices' = notices
      BY <1>1, DefinitionStep DEF DefinitionOf
    <2>2. defs'[w].version > defs[w].version
      BY <1>0, <2>1 DEF AbsentIsUnversioned
    <2> QED BY <2>1, <2>2
  <1>2. ASSUME Reconcile PROVE Quiet
    BY <1>2, ReconcileEffect DEF Reconcile
  <1>3. ASSUME NEW r \in Runners, ClaimDue(r) PROVE Quiet
    <2>1. PICK picked, passed :
              /\ picked \subseteq Claimable(r) /\ passed \subseteq Outdated \cup Exhausted(r)
              /\ Walk(r, picked, passed)
      BY <1>3, ClaimWalks
    <2>2. notices' = notices
      BY <1>3 DEF ClaimDue
    <2> QED BY <2>1, <2>2, WalkEffect
  <1>4. ASSUME NEW g \in granted, NEW c \in Completions, FinishRun(g, c)
        PROVE  \/ Quiet
               \/ \E b \in BOOLEAN : Leased(g) /\ FinishKnown(g, c, b) /\ UNCHANGED <<now, granted>>
    <2>1. Leased(g) /\ UNCHANGED <<now, granted>>
      BY <1>4 DEF FinishRun
    <2>2. FinishUnknown(g, c) => Quiet
      BY <2>1, FinishUnknownEffect
    <2> HIDE DEF Quiet
    <2> QED BY <1>4, <2>1, <2>2 DEF FinishRun
  <1>5. ASSUME UNCHANGED <<obs, notices>> PROVE Quiet
    BY <1>5
  <1>6. ASSUME NEW r \in Runners, RegisterRunner(r) PROVE UNCHANGED <<obs, notices>>
    BY <1>6 DEF RegisterRunner
  <1>7. ASSUME NEW g \in granted, Heartbeat(g) PROVE UNCHANGED <<obs, notices>>
    BY <1>7 DEF Heartbeat
  <1>8. Tick \/ StepClockBack \/ UNCHANGED vars => UNCHANGED <<obs, notices>>
    BY DEF Tick, StepClockBack, vars
  <1> HIDE DEF Quiet
  <1>9. \/ Quiet
        \/ \E g \in granted, c \in Completions, b \in BOOLEAN :
              Leased(g) /\ FinishKnown(g, c, b) /\ UNCHANGED <<now, granted>>
    BY <1>1, <1>2, <1>3, <1>4, <1>5, <1>6, <1>7, <1>8, NextSplit
  <1> QED BY <1>9 DEF Quiet

\* An accepted known result tells nobody, and LastNotifiedAt stays; or it records
\* one notification, now, when the cooldown since LastNotifiedAt is over.
LEMMA KnownResultNotice ==
    ASSUME TypeOK, NEW g \in granted, NEW c \in Completions, NEW b \in BOOLEAN,
           Leased(g), FinishKnown(g, c, b)
    PROVE  LET w == g.run.watch
           IN /\ \A v \in Watches : v # w => obs'[v] = obs[v]
              /\ \/ notices' = notices /\ obs'[w].lastNotified = obs[w].lastNotified
                 \/ \E n : /\ notices' = notices \cup {n}
                           /\ n.run = g.run /\ n.at = now
                           /\ n.cooldown = defs[w].policy.cooldown
                           /\ obs'[w].lastNotified = now
                           /\ Cooled(obs[w], defs[w].policy)
  <1> DEFINE w == g.run.watch
             p == defs[w].policy
             value == IF c.outcome = "pass" THEN "true" ELSE "false"
             notice == NoticeKind(p, obs[w].lastKnown, value)
             told == notice # "" /\ Cooled(obs[w], p) /\ b
             last == IF told THEN now ELSE obs[w].lastNotified
             seen == [value |-> value, lastKnown |-> value, fp |-> c.fp, next |-> obs[w].next,
                      lastNotified |-> last, availability |-> "available"]
             n == [run |-> g.run, event |-> notice, at |-> now, cooldown |-> p.cooldown]
  <1>0. w \in Watches /\ obs \in [Watches -> ObservationType]
    BY LeasedTypes DEF TypeOK
  <1>1. obs' = [obs EXCEPT ![w] = seen]
    BY <1>0 DEF FinishKnown
  <1>2. notices' = IF told THEN notices \cup {n} ELSE notices
    BY DEF FinishKnown
  <1>3. seen.lastNotified = last
    <2> HIDE DEF value, last
    <2> QED OBVIOUS
  <1>4. n.run = g.run /\ n.at = now /\ n.cooldown = p.cooldown
    <2> HIDE DEF notice, p
    <2> QED OBVIOUS
  <1>5. told => Cooled(obs[w], p)
    OBVIOUS
  <1>6. obs'[w].lastNotified = last /\ \A v \in Watches : v # w => obs'[v] = obs[v]
    <2> HIDE DEF seen, last
    <2> QED BY <1>0, <1>1, <1>3
  <1>7. last = IF told THEN now ELSE obs[w].lastNotified
    OBVIOUS
  <1>8. CASE told
    <2> HIDE DEF told, n, last
    <2> QED BY <1>2, <1>4, <1>5, <1>6, <1>7, <1>8
  <1>9. CASE ~told
    <2> HIDE DEF told, n, last
    <2> QED BY <1>2, <1>6, <1>7, <1>9
  <1> QED BY <1>8, <1>9

\* A notification on record of a version that is still current was tracked
\* before the step, under the same policy.
LEMMA NoticeBefore ==
    ASSUME TypeOK, IdsBehind, VersionPins, NoticesTracked, NEW n \in notices,
           n.run.version = defs'[n.run.watch].version
    PROVE  /\ n.run.watch \in Watches /\ n.at \in Nat /\ n.cooldown \in Nat
           /\ defs'[n.run.watch].version = defs[n.run.watch].version
           /\ obs[n.run.watch].lastNotified # Zero
           /\ n.at =< obs[n.run.watch].lastNotified
           /\ n.cooldown = defs'[n.run.watch].policy.cooldown
           /\ n.cooldown = defs[n.run.watch].policy.cooldown
  <1>1. PICK g \in granted : g.run = n.run
    BY DEF NoticesTracked
  <1>2. /\ defs[n.run.watch].version = n.run.version
        /\ defs'[n.run.watch].policy = defs[n.run.watch].policy
    BY <1>1, CurrentBefore
  <1>3. n \in NoticeType /\ n.run.watch \in Watches
    BY <1>1, GrantedVersions DEF TypeOK
  <1> QED BY <1>2, <1>3 DEF NoticesTracked, NoticeType, Time

LEMMA ClockStep ==
    ASSUME TypeOK, now >= 1, [Next]_vars
    PROVE  now' >= 1
  <1>1. now \in Nat
    BY DEF TypeOK, Time
  <1>2. now' = now \/ Tick \/ StepClockBack
    BY DefinitionStep, NextSplit
       DEF DefinitionOf, Reconcile, RegisterRunner, ClaimDue, Heartbeat, FinishRun, vars
  <1> QED BY <1>1, <1>2 DEF Tick, StepClockBack

LEMMA NoticeStep ==
    ASSUME ExclusionInv, NoticeInv, [Next]_vars
    PROVE  NoticeInv'
  <1>0. /\ TypeOK /\ IdsBehind /\ AbsentIsUnversioned
        /\ NoticesTracked /\ CooldownSpacing /\ now >= 1 /\ now \in Nat
    BY DEF ExclusionInv, NoticeInv, NoticesTracked, TypeOK, Time
  <1>1. VersionPins
    BY <1>0, VersionStep
  <1>2. granted \subseteq granted' /\ now' >= 1
    BY <1>0, GrantedStep, ClockStep
  <1>3. CASE /\ notices' = notices
             /\ \A v \in Watches : \/ defs'[v].version > defs[v].version
                                   \/ obs'[v].lastNotified = obs[v].lastNotified
    <2>1. ASSUME NEW n \in notices
          PROVE  /\ \E g \in granted' : g.run = n.run
                 /\ n.run.version = defs'[n.run.watch].version =>
                       /\ obs'[n.run.watch].lastNotified # Zero
                       /\ n.at =< obs'[n.run.watch].lastNotified
                       /\ n.cooldown = defs'[n.run.watch].policy.cooldown
      <3>1. \E g \in granted' : g.run = n.run
        BY <1>0, <1>2 DEF NoticesTracked
      <3>2. ASSUME n.run.version = defs'[n.run.watch].version
            PROVE  /\ obs'[n.run.watch].lastNotified # Zero
                   /\ n.at =< obs'[n.run.watch].lastNotified
                   /\ n.cooldown = defs'[n.run.watch].policy.cooldown
        <4>1. /\ n.run.watch \in Watches
              /\ defs'[n.run.watch].version = defs[n.run.watch].version
              /\ obs[n.run.watch].lastNotified # Zero
              /\ n.at =< obs[n.run.watch].lastNotified
              /\ n.cooldown = defs'[n.run.watch].policy.cooldown
          BY <1>0, <1>1, <3>2, NoticeBefore
        <4>2. defs[n.run.watch].version \in Nat
          BY <1>0, <4>1 DEF TypeOK, DefinitionType
        <4> QED BY <1>3, <4>1, <4>2
      <3> QED BY <3>1, <3>2
    <2>2. NoticesTracked'
      BY <1>2, <1>3, <2>1 DEF NoticesTracked
    <2>3. CooldownSpacing'
      BY <1>0, <1>3 DEF CooldownSpacing
    <2> QED BY <2>2, <2>3 DEF NoticeInv
  <1>4. ASSUME NEW g \in granted, NEW c \in Completions, NEW b \in BOOLEAN,
               Leased(g), FinishKnown(g, c, b), UNCHANGED <<now, granted>>
        PROVE  NoticeInv'
    <2> DEFINE w == g.run.watch
    <2>0. /\ w \in Watches /\ g.run.version = defs[w].version
          /\ defs[w].version \in Nat /\ obs[w].lastNotified \in Nat
          /\ defs[w].policy.cooldown \in Nat
      <3>1. w \in Watches /\ g.run.version = defs[w].version /\ defs[w].policy \in Policies
        BY <1>0, <1>4, LeasedTypes DEF Current
      <3> QED BY <1>0, <3>1, PolicyAssumption DEF TypeOK, DefinitionType, ObservationType, Time
    <2>1. \A v \in Watches : v # w => obs'[v] = obs[v]
      BY <1>0, <1>4, KnownResultNotice
    <2>2. defs' = defs \/ defs' = [defs EXCEPT ![w].lifecycle = "completed"]
      BY <1>0, <1>4, FinishKnownEffect
    <2>3. \A v \in Watches : /\ defs'[v].version = defs[v].version
                             /\ defs'[v].policy = defs[v].policy
      <3> SUFFICES ASSUME NEW v \in Watches
                   PROVE  /\ defs'[v].version = defs[v].version
                          /\ defs'[v].policy = defs[v].policy
        OBVIOUS
      <3>1. CASE defs' = defs
        BY <3>1
      <3>2. CASE defs' = [defs EXCEPT ![w].lifecycle = "completed"]
        <4>1. defs[v] \in DefinitionType /\ defs \in [Watches -> DefinitionType]
          BY <1>0 DEF TypeOK
        <4> HIDE DEF w
        <4>2. defs'[v] = defs[v] \/ defs'[v] = [defs[v] EXCEPT !.lifecycle = "completed"]
          BY <3>2, <4>1
        <4> QED BY <4>1, <4>2 DEF DefinitionType
      <3> QED BY <2>2, <3>1, <3>2
    \* Every old notification of this version is a cooldown behind the new one.
    <2>4. ASSUME NEW n \in notices, n.run.watch = w, n.run.version = defs[w].version
          PROVE  /\ n.at \in Nat /\ n.cooldown \in Nat
                 /\ obs[w].lastNotified # Zero /\ n.at =< obs[w].lastNotified
                 /\ n.cooldown = defs[w].policy.cooldown
      BY <1>0, <1>1, <2>0, <2>3, <2>4, NoticeBefore
    <2>5. CASE notices' = notices /\ obs'[w].lastNotified = obs[w].lastNotified
      <3>1. \A v \in Watches : obs'[v].lastNotified = obs[v].lastNotified
        BY <2>1, <2>5
      <3> QED BY <1>3, <2>5, <3>1
    <2>6. ASSUME NEW m, notices' = notices \cup {m}, m.run = g.run, m.at = now,
                 m.cooldown = defs[w].policy.cooldown, obs'[w].lastNotified = now,
                 Cooled(obs[w], defs[w].policy)
          PROVE  NoticeInv'
      <3>1. \A n \in notices : n.run.watch = w /\ n.run.version = defs[w].version =>
               now >= n.at + n.cooldown /\ n.at =< now /\ n.at \in Nat
        BY <1>0, <2>0, <2>4, <2>6 DEF Cooled, Zero
      <3>2. ASSUME NEW n \in notices'
            PROVE  /\ \E h \in granted' : h.run = n.run
                   /\ n.run.version = defs'[n.run.watch].version =>
                         /\ obs'[n.run.watch].lastNotified # Zero
                         /\ n.at =< obs'[n.run.watch].lastNotified
                         /\ n.cooldown = defs'[n.run.watch].policy.cooldown
        <4>1. CASE n = m
          BY <1>0, <1>4, <2>0, <2>3, <2>6, <4>1 DEF Zero
        <4>2. CASE n # m
          <5>1. n \in notices
            BY <2>6, <4>2
          <5>2. \E h \in granted' : h.run = n.run
            BY <1>0, <1>2, <5>1 DEF NoticesTracked
          <5>3. ASSUME n.run.version = defs'[n.run.watch].version
                PROVE  /\ obs'[n.run.watch].lastNotified # Zero
                       /\ n.at =< obs'[n.run.watch].lastNotified
                       /\ n.cooldown = defs'[n.run.watch].policy.cooldown
            <6>1. /\ n.run.watch \in Watches
                  /\ obs[n.run.watch].lastNotified # Zero
                  /\ n.at =< obs[n.run.watch].lastNotified
                  /\ n.cooldown = defs'[n.run.watch].policy.cooldown
              BY <1>0, <1>1, <5>1, <5>3, NoticeBefore
            <6>2. CASE n.run.watch = w
              BY <1>0, <2>0, <2>3, <2>6, <3>1, <5>1, <5>3, <6>1, <6>2 DEF Zero
            <6>3. CASE n.run.watch # w
              BY <2>1, <6>1, <6>3
            <6> QED BY <6>2, <6>3
          <5> QED BY <5>2, <5>3
        <4> QED BY <4>1, <4>2
      <3>3. NoticesTracked'
        BY <1>2, <3>2 DEF NoticesTracked
      <3>4. CooldownSpacing'
        <4> SUFFICES ASSUME NEW x \in notices', NEW y \in notices',
                            x.run.watch = y.run.watch, x.run.version = y.run.version,
                            x # y, x.at =< y.at
                     PROVE  y.at >= x.at + x.cooldown
          BY DEF CooldownSpacing
        <4>1. CASE x \in notices /\ y \in notices
          BY <1>0, <4>1 DEF CooldownSpacing
        <4>2. CASE x \in notices /\ y = m
          BY <2>0, <2>6, <3>1, <4>2
        \* Then both are of this instant, and the cooldown is zero.
        <4>3. CASE x = m /\ y \in notices
          BY <1>0, <2>0, <2>4, <2>6, <3>1, <4>3
        <4> QED BY <2>6, <4>1, <4>2, <4>3
      <3> QED BY <3>3, <3>4 DEF NoticeInv
    <2> QED BY <1>0, <1>4, <2>5, <2>6, KnownResultNotice
  <1> QED BY <1>0, <1>3, <1>4, NotifiedStep

\* For any cooldown: two notifications of one version of a Watch are a cooldown
\* apart on the wall clock, also when the clock is stepped back in between, when
\* a result comes late, and when edits of other Watches interleave.
THEOREM CooldownHolds == Spec => []CooldownSpacing
  <1>1. Init => NoticeInv
    BY DEF Init, NoticeInv, NoticesTracked, CooldownSpacing
  <1>2. ExclusionInv /\ NoticeInv /\ [Next]_vars => NoticeInv'
    BY NoticeStep
  <1>3. NoticeInv => CooldownSpacing
    BY DEF NoticeInv
  <1> QED BY <1>1, <1>2, <1>3, ExclusionInvariant, PTL DEF Spec
=============================================================================
