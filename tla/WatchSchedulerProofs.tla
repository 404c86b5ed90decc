------------------------ MODULE WatchSchedulerProofs ------------------------
(* What holds of WatchScheduler for every set of Watches, runners, policies *)
(* and sources, and for every value of the time and retry limits.           *)
EXTENDS WatchScheduler, TLAPS

LEMMA Min2Nat ==
    ASSUME NEW a \in Nat, NEW b \in Nat
    PROVE  Min2(a, b) \in Nat /\ Min2(a, b) =< a /\ Min2(a, b) =< b
  BY DEF Min2

LEMMA BaselineType ==
    ASSUME TypeOK
    PROVE  Baseline \in ObservationType
  BY DEF TypeOK, Baseline, ObservationType, Time, Zero

LEMMA NewRunType == NewRun \in RunType
  BY DEF NewRun, RunType, RunStates, ActiveStates, Time, Zero
-----------------------------------------------------------------------------
(* Rows: what each operation writes into a run *)

\* cancelRuns keeps the table's rows; each is the row before, or that row
\* cancelled under the next fence when it belonged to w and was active.
LEMMA CancelRunsEffect ==
    ASSUME TypeOK, NEW w \in Watches, CancelRuns(w)
    PROVE  /\ DOMAIN runs' = DOMAIN runs
           /\ \A i \in DOMAIN runs :
                 /\ runs'[i] \in RunType
                 /\ i.watch # w \/ ~Active(i) => runs'[i] = runs[i]
                 /\ i.watch = w => runs'[i].state \notin ActiveStates
                 /\ runs'[i].fence >= runs[i].fence
  <1>1. DOMAIN runs' = DOMAIN runs
    BY DEF CancelRuns
  <1>2. ASSUME NEW i \in DOMAIN runs
        PROVE  /\ runs'[i] \in RunType
               /\ i.watch # w \/ ~Active(i) => runs'[i] = runs[i]
               /\ i.watch = w => runs'[i].state \notin ActiveStates
               /\ runs'[i].fence >= runs[i].fence
    <2>0. runs[i] \in RunType /\ now \in Time
      BY DEF TypeOK
    <2>1. CASE i.watch = w /\ Active(i)
      <3>1. runs'[i] = [runs[i] EXCEPT !.state = "cancelled", !.fence = runs[i].fence + 1, !.finishedAt = now]
        BY <2>1 DEF CancelRuns
      <3>2. runs[i].fence + 1 \in Nat /\ "cancelled" \in RunStates
        BY <2>0 DEF RunType, RunStates
      <3>3. runs'[i] \in RunType
        BY Zenon, <3>1, <3>2, <2>0 DEF RunType
      <3>4. runs'[i].state = "cancelled" /\ runs'[i].fence = runs[i].fence + 1
        BY <3>1, <2>0 DEF RunType
      <3> QED BY <2>0, <2>1, <3>3, <3>4 DEF RunType, ActiveStates
    <2>2. CASE ~(i.watch = w /\ Active(i))
      <3>1. runs'[i] = runs[i]
        BY <2>2 DEF CancelRuns
      <3> QED BY <2>0, <2>2, <3>1 DEF Active, RunType
    <2> QED BY <2>1, <2>2
  <1> QED BY <1>1, <1>2

\* A granted row is running under the next fence, and has lost its old result.
LEMMA GrantEffect ==
    ASSUME TypeOK, NEW r \in Runners, NEW i \in DOMAIN runs
    PROVE  /\ Grant(r, i) \in RunType
           /\ Grant(r, i).state = "running"
           /\ Grant(r, i).fence = runs[i].fence + 1
  <1> DEFINE lease == Min2(now + LeaseDuration, now + ExecutionTimeout)
             old == runs[i]
  <1>1. old \in RunType /\ now \in Nat
    BY DEF TypeOK, Time
  <1>2. /\ lease \in Time /\ now + ExecutionTimeout \in Time
        /\ old.fence + 1 \in Nat /\ old.attempts + 1 \in Nat
    <2>1. now + LeaseDuration \in Nat /\ now + ExecutionTimeout \in Nat
      BY <1>1, BoundsAssumption
    <2>2. lease \in Nat
      BY <2>1, Min2Nat
    <2>3. old.fence \in Nat /\ old.attempts \in Nat
      BY <1>1 DEF RunType
    <2> QED BY <2>1, <2>2, <2>3 DEF Time
  <1>3. "running" \in RunStates /\ r \in Runners \cup {NoRunner} /\ Zero \in Time
    BY DEF RunStates, ActiveStates, Zero, Time
  <1>4. Grant(r, i) =
          [old EXCEPT !.state = "running", !.runner = r, !.finishedAt = Zero,
                      !.fence = old.fence + 1, !.attempts = old.attempts + 1,
                      !.hash = NoCompletion, !.outcome = "none",
                      !.deadline = now + ExecutionTimeout,
                      !.leaseUntil = lease, !.retryAt = Zero]
    BY DEF Grant
  <1> HIDE DEF lease, old
  <1>5. Grant(r, i) \in RunType
    BY Zenon, <1>1, <1>2, <1>3, <1>4 DEF RunType
  <1>6. Grant(r, i).state = "running" /\ Grant(r, i).fence = old.fence + 1
    BY <1>1, <1>4 DEF RunType
  <1> QED BY <1>5, <1>6 DEF old

\* A run the claim loop looks at is an active row of the table.
LEMMA PendingIsActive ==
    ASSUME NEW r \in Runners
    PROVE  /\ Claimable(r) \subseteq DOMAIN runs /\ Outdated \subseteq DOMAIN runs
           /\ Exhausted(r) \subseteq DOMAIN runs
           /\ \A i \in Claimable(r) \cup Outdated \cup Exhausted(r) : Active(i)
           /\ \A i \in Claimable(r) \cup Exhausted(r) : Current(i)
           /\ Claimable(r) \cap (Outdated \cup Exhausted(r)) = {}
  BY DEF Claimable, Outdated, Exhausted, Admitted, Pending

\* One walk of the claim loop: terminal rows stay as they are, no fence goes
\* back, the picked row is granted, and of an observation only the shown value
\* and the availability move.
LEMMA WalkEffect ==
    ASSUME TypeOK, NEW r \in Runners, NEW picked, NEW passed,
           picked \subseteq Claimable(r), passed \subseteq Outdated \cup Exhausted(r),
           Walk(r, picked, passed)
    PROVE  /\ DOMAIN runs' = DOMAIN runs
           /\ \A i \in DOMAIN runs :
                 /\ runs'[i] \in RunType
                 /\ ~Active(i) => runs'[i] = runs[i]
                 /\ runs'[i].fence >= runs[i].fence
                 /\ i \in picked => runs'[i].fence = runs[i].fence + 1
           /\ obs' \in [Watches -> ObservationType]
           /\ \A w \in Watches : /\ obs'[w].next = obs[w].next
                                 /\ obs'[w].lastKnown = obs[w].lastKnown
                                 /\ obs'[w].fp = obs[w].fp
                                 /\ obs'[w].lastNotified = obs[w].lastNotified
           /\ granted' \subseteq ClaimType
           /\ granted' = granted \cup
                {[run |-> i, fence |-> runs[i].fence + 1, runner |-> r] : i \in picked}
  <1>1. DOMAIN runs' = DOMAIN runs
    BY DEF Walk
  <1>2. ASSUME NEW i \in DOMAIN runs
        PROVE  /\ runs'[i] \in RunType
               /\ ~Active(i) => runs'[i] = runs[i]
               /\ runs'[i].fence >= runs[i].fence
               /\ i \in picked => runs'[i].fence = runs[i].fence + 1
    <2>0. runs[i] \in RunType /\ now \in Time
      BY DEF TypeOK
    <2>a. i \in picked => i \notin passed \cap Outdated /\ i \notin passed \cap Exhausted(r)
      BY PendingIsActive
    <2>b. i \in passed \cap Outdated => i \notin passed \cap Exhausted(r)
      BY DEF Outdated, Exhausted, Admitted
    <2>1. CASE i \in picked
      <3>1. runs'[i] = Grant(r, i)
        BY Zenon, <2>1, <2>a DEF Walk
      <3>2. Active(i)
        BY <2>1, PendingIsActive
      <3> QED BY <3>1, <3>2, <2>0, GrantEffect DEF RunType
    <2>2. CASE i \notin picked /\ i \in passed \cap Outdated
      <3>1. runs'[i] = [runs[i] EXCEPT !.state = "cancelled", !.finishedAt = now]
        BY Zenon, <2>2, <2>b DEF Walk
      <3>2. runs'[i] \in RunType
        BY Zenon, <3>1, <2>0 DEF RunType, RunStates
      <3>3. Active(i) /\ runs'[i].fence = runs[i].fence
        BY <3>1, <2>0, <2>2, PendingIsActive DEF RunType
      <3> QED BY <2>0, <2>2, <3>2, <3>3 DEF RunType
    <2>3. CASE i \notin picked /\ i \notin passed \cap Outdated /\ i \in passed \cap Exhausted(r)
      <3>1. runs'[i] = [runs[i] EXCEPT !.state = "failed", !.outcome = "unknown", !.finishedAt = now]
        BY Zenon, <2>3 DEF Walk
      <3>2. runs'[i] \in RunType
        BY Zenon, <3>1, <2>0 DEF RunType, RunStates
      <3>3. Active(i) /\ runs'[i].fence = runs[i].fence
        BY <3>1, <2>0, <2>3, PendingIsActive DEF RunType
      <3> QED BY <2>0, <2>3, <3>2, <3>3 DEF RunType
    <2>4. CASE i \notin picked /\ i \notin passed \cap Outdated /\ i \notin passed \cap Exhausted(r)
      <3>1. runs'[i] = runs[i]
        BY Zenon, <2>4 DEF Walk
      <3> QED BY <2>0, <2>4, <3>1 DEF RunType
    <2> QED BY <2>1, <2>2, <2>3, <2>4
  <1>3. ASSUME NEW w \in Watches
        PROVE  /\ obs'[w] \in ObservationType
               /\ obs'[w].next = obs[w].next
               /\ obs'[w].lastKnown = obs[w].lastKnown
               /\ obs'[w].fp = obs[w].fp
               /\ obs'[w].lastNotified = obs[w].lastNotified
    <2>0. obs[w] \in ObservationType
      BY DEF TypeOK
    <2>1. CASE \E i \in passed \cap Exhausted(r) : i.watch = w
      <3>1. obs'[w] = [obs[w] EXCEPT !.value = "unknown", !.availability = "error"]
        BY <2>1 DEF Walk
      <3> QED BY <3>1, <2>0 DEF ObservationType
    <2>2. CASE ~\E i \in passed \cap Exhausted(r) : i.watch = w
      <3>1. obs'[w] = obs[w]
        BY <2>2 DEF Walk
      <3> QED BY <3>1, <2>0
    <2> QED BY <2>1, <2>2
  <1>4. obs' \in [Watches -> ObservationType]
    <2>1. obs' = [w \in Watches |-> obs'[w]]
      BY DEF Walk
    <2> QED BY <2>1, <1>3
  <1>5. \A i \in picked : Grant(r, i).fence = runs[i].fence + 1
    BY GrantEffect, PendingIsActive
  <1>6. granted' = granted \cup
          {[run |-> i, fence |-> runs[i].fence + 1, runner |-> r] : i \in picked}
    BY <1>5 DEF Walk
  <1>7. granted' \subseteq ClaimType
    <2>1. \A i \in picked : i \in RunId /\ runs[i].fence + 1 \in Nat
      BY PendingIsActive DEF TypeOK, RunType
    <2>2. granted \subseteq ClaimType
      BY DEF TypeOK
    <2> QED BY <1>6, <2>1, <2>2 DEF ClaimType
  <1> QED BY <1>1, <1>2, <1>3, <1>4, <1>6, <1>7

\* prune keeps a part of the table that has all its active rows.
LEMMA RetainedEffect ==
    ASSUME NEW table, NEW kept \in Retained(table)
    PROVE  /\ kept \subseteq DOMAIN table
           /\ \A i \in DOMAIN table : table[i].state \in ActiveStates => i \in kept
  <1> DEFINE terminal == {i \in DOMAIN table : table[i].state \notin ActiveStates}
  <1>1. CASE Cardinality(terminal) =< HistoryLimit
    BY <1>1 DEF Retained
  <1>2. CASE ~(Cardinality(terminal) =< HistoryLimit)
    <2>1. PICK k \in SUBSET terminal : kept = (DOMAIN table \ terminal) \cup k
      BY <1>2 DEF Retained
    <2> QED BY <2>1
  <1> QED BY <1>1, <1>2

\* A tick adds fresh rows for the Watches that need one and keeps all active
\* rows; of an observation only the schedule and the availability move.
LEMMA ReconcileEffect ==
    ASSUME TypeOK, Reconcile
    PROVE  LET needy == {w \in Watches : NeedsRun(w)}
               fresh == {RunIdOf(w) : w \in needy}
           IN /\ \A i \in DOMAIN runs' :
                    \/ i \in fresh /\ runs'[i] = NewRun
                    \/ i \in DOMAIN runs /\ i \notin fresh /\ runs'[i] = runs[i]
              /\ \A i \in DOMAIN runs : Active(i) => i \in DOMAIN runs'
              /\ obs' \in [Watches -> ObservationType]
              /\ \A w \in Watches :
                    /\ obs'[w].lastKnown = obs[w].lastKnown
                    /\ obs'[w].fp = obs[w].fp
                    /\ obs'[w].lastNotified = obs[w].lastNotified
                    /\ w \notin needy => obs'[w].next = obs[w].next
                    /\ w \in needy => obs'[w].next > obs[w].next
              /\ lastSeen' \in [Runners -> Time]
  <1> DEFINE needy == {w \in Watches : NeedsRun(w)}
             fresh == {RunIdOf(w) : w \in needy}
             saved == [i \in DOMAIN runs \cup fresh |-> IF i \in fresh THEN NewRun ELSE runs[i]]
  <1>1. PICK kept \in Retained(saved) : runs' = [i \in kept |-> saved[i]]
    BY DEF Reconcile
  <1>2. /\ kept \subseteq DOMAIN saved
        /\ \A i \in DOMAIN saved : saved[i].state \in ActiveStates => i \in kept
    BY RetainedEffect
  <1>3. \A i \in DOMAIN saved : saved[i] = IF i \in fresh THEN NewRun ELSE runs[i]
    OBVIOUS
  <1>4. NewRun.state \in ActiveStates
    BY DEF NewRun, ActiveStates
  <1>5. \A i \in DOMAIN runs' :
           \/ i \in fresh /\ runs'[i] = NewRun
           \/ i \in DOMAIN runs /\ i \notin fresh /\ runs'[i] = runs[i]
    <2> SUFFICES ASSUME NEW i \in DOMAIN runs'
                 PROVE  \/ i \in fresh /\ runs'[i] = NewRun
                        \/ i \in DOMAIN runs /\ i \notin fresh /\ runs'[i] = runs[i]
      OBVIOUS
    <2>1. i \in kept /\ runs'[i] = saved[i] /\ i \in DOMAIN runs \cup fresh
      BY <1>1, <1>2
    <2> HIDE DEF fresh, needy
    <2> QED BY <2>1
  <1>6. \A i \in DOMAIN runs : Active(i) => i \in DOMAIN runs'
    <2> SUFFICES ASSUME NEW i \in DOMAIN runs, Active(i)
                 PROVE  i \in DOMAIN runs'
      OBVIOUS
    <2>1. saved[i].state \in ActiveStates /\ i \in DOMAIN saved
      <3> HIDE DEF fresh, needy
      <3> QED BY <1>4 DEF Active
    <2> QED BY <1>1, <1>2, <2>1
  <1>7. obs' = [w \in Watches |->
                  IF w \in needy
                  THEN [obs[w] EXCEPT !.next = now + defs[w].policy.interval,
                                      !.availability = "waiting"]
                  ELSE obs[w]]
    BY DEF Reconcile
  <1>8. ASSUME NEW w \in Watches
        PROVE  /\ obs'[w] \in ObservationType
               /\ obs'[w].lastKnown = obs[w].lastKnown
               /\ obs'[w].fp = obs[w].fp
               /\ obs'[w].lastNotified = obs[w].lastNotified
               /\ w \notin needy => obs'[w].next = obs[w].next
               /\ w \in needy => obs'[w].next > obs[w].next
    <2>0. obs[w] \in ObservationType /\ now \in Nat /\ defs[w].policy \in Policies
      BY DEF TypeOK, Time, DefinitionType
    <2>1. CASE w \in needy
      <3>1. obs'[w] = [obs[w] EXCEPT !.next = now + defs[w].policy.interval,
                                     !.availability = "waiting"]
        <4> HIDE DEF needy
        <4> QED BY <1>7, <2>1
      <3>2. defs[w].policy.interval \in Nat /\ defs[w].policy.interval > 0
        BY <2>0, PolicyAssumption
      <3>3. now + defs[w].policy.interval \in Time
        BY <2>0, <3>2 DEF Time
      <3>4. obs'[w] \in ObservationType
        BY <3>1, <3>3, <2>0 DEF ObservationType
      <3>5. /\ obs'[w].lastKnown = obs[w].lastKnown /\ obs'[w].fp = obs[w].fp
            /\ obs'[w].lastNotified = obs[w].lastNotified
            /\ obs'[w].next = now + defs[w].policy.interval
        BY <3>1, <2>0 DEF ObservationType
      <3>6. obs[w].next =< now /\ obs[w].next \in Nat
        BY <2>0, <2>1 DEF NeedsRun, ObservationType, Time
      <3> HIDE DEF needy
      <3> QED BY <2>0, <2>1, <3>2, <3>4, <3>5, <3>6
    <2>2. CASE w \notin needy
      <3>1. obs'[w] = obs[w]
        <4> HIDE DEF needy
        <4> QED BY <1>7, <2>2
      <3> HIDE DEF needy
      <3> QED BY <2>0, <2>2, <3>1
    <2> QED BY <2>1, <2>2
  <1>9. obs' \in [Watches -> ObservationType]
    <2>1. obs' = [w \in Watches |-> obs'[w]]
      BY <1>7
    <2> QED BY <2>1, <1>8
  <1>10. lastSeen' \in [Runners -> Time]
    BY DEF Reconcile, TypeOK, Time, Zero
  <1> HIDE DEF saved
  <1> QED BY <1>5, <1>6, <1>8, <1>9, <1>10

\* A usable claim names an active row, and so a Watch, a runner and a policy.
LEMMA LeasedTypes ==
    ASSUME TypeOK, NEW g \in granted, Leased(g)
    PROVE  /\ g.run \in DOMAIN runs /\ runs[g.run] \in RunType
           /\ runs[g.run].state = "running" /\ Active(g.run) /\ Current(g.run)
           /\ g.run \in RunId /\ g.runner \in Runners /\ g.fence \in Nat
           /\ g.run.watch \in Watches /\ defs[g.run.watch].policy \in Policies
           /\ obs[g.run.watch] \in ObservationType /\ now \in Nat
  <1>1. g \in ClaimType /\ now \in Nat
    BY DEF TypeOK, Time
  <1>2. g.run \in RunId /\ g.runner \in Runners /\ g.fence \in Nat
    BY <1>1 DEF ClaimType
  <1>3. g.run.watch \in Watches
    BY <1>2 DEF RunId
  <1>4. g.run \in DOMAIN runs /\ runs[g.run].state = "running" /\ Current(g.run)
    BY DEF Leased
  <1>5. runs[g.run] \in RunType /\ obs[g.run.watch] \in ObservationType
    BY <1>3, <1>4 DEF TypeOK
  <1>6. defs[g.run.watch].policy \in Policies
    BY <1>3 DEF TypeOK, DefinitionType
  <1>7. Active(g.run)
    BY <1>4 DEF Active, ActiveStates
  <1> QED BY <1>1, <1>2, <1>3, <1>4, <1>5, <1>6, <1>7

\* A heartbeat moves the lease of its own run and nothing else in the table.
LEMMA HeartbeatEffect ==
    ASSUME TypeOK, NEW g \in granted, Heartbeat(g)
    PROVE  /\ DOMAIN runs' = DOMAIN runs
           /\ \A i \in DOMAIN runs :
                 /\ runs'[i] \in RunType
                 /\ ~Active(i) => runs'[i] = runs[i]
                 /\ runs'[i].fence = runs[i].fence
           /\ lastSeen' \in [Runners -> Time]
  <1>0. Leased(g)
    BY DEF Heartbeat
  <1> DEFINE lease == Min2(now + LeaseDuration, runs[g.run].deadline)
  <1>1. lease \in Time
    <2>1. now + LeaseDuration \in Nat /\ runs[g.run].deadline \in Nat
      BY <1>0, LeasedTypes, BoundsAssumption DEF RunType, Time
    <2> QED BY <2>1, Min2Nat DEF Time
  <1>2. DOMAIN runs' = DOMAIN runs
    BY DEF Heartbeat
  <1>3. ASSUME NEW i \in DOMAIN runs
        PROVE  /\ runs'[i] \in RunType
               /\ ~Active(i) => runs'[i] = runs[i]
               /\ runs'[i].fence = runs[i].fence
    <2>0. runs[i] \in RunType
      BY DEF TypeOK
    <2>1. CASE i = g.run
      <3>1. runs'[i] = [runs[i] EXCEPT !.leaseUntil = lease]
        BY <2>1 DEF Heartbeat
      <3> HIDE DEF lease
      <3>2. runs'[i] \in RunType /\ runs'[i].fence = runs[i].fence
        BY <3>1, <2>0, <1>1 DEF RunType
      <3> QED BY <3>2, <2>1, <1>0, LeasedTypes
    <2>2. CASE i # g.run
      <3>1. runs'[i] = runs[i]
        BY <2>2 DEF Heartbeat
      <3> QED BY <3>1, <2>0
    <2> QED BY <2>1, <2>2
  <1>4. lastSeen' \in [Runners -> Time]
    <2>1. lastSeen \in [Runners -> Time] /\ now \in Time
      BY DEF TypeOK
    <2>2. lastSeen' = [lastSeen EXCEPT ![g.runner] = now]
      BY DEF Heartbeat
    <2> QED BY <2>1, <2>2
  <1> QED BY <1>2, <1>3, <1>4

\* An unknown result closes the attempt and shows "unknown"; what is known and
\* where it came from stay.
LEMMA FinishUnknownEffect ==
    ASSUME TypeOK, NEW g \in granted, NEW c \in Completions, Leased(g), FinishUnknown(g, c)
    PROVE  /\ DOMAIN runs' = DOMAIN runs
           /\ \A i \in DOMAIN runs :
                 /\ runs'[i] \in RunType
                 /\ ~Active(i) => runs'[i] = runs[i]
                 /\ runs'[i].fence = runs[i].fence
           /\ obs' \in [Watches -> ObservationType]
           /\ \A w \in Watches : /\ obs'[w].next = obs[w].next
                                 /\ obs'[w].lastKnown = obs[w].lastKnown
                                 /\ obs'[w].fp = obs[w].fp
                                 /\ obs'[w].lastNotified = obs[w].lastNotified
           /\ UNCHANGED <<defs, events, notices>>
  <1> DEFINE w == g.run.watch
             r == runs[g.run]
             state == IF r.attempts < MaxAttempts THEN "retry" ELSE "failed"
             retryAt == IF r.attempts < MaxAttempts THEN now + Backoff[r.attempts] ELSE r.retryAt
  <1>0. r \in RunType /\ now \in Nat /\ w \in Watches /\ obs[w] \in ObservationType
    BY LeasedTypes
  <1>1. state \in RunStates
    BY DEF RunStates, ActiveStates
  <1>2. retryAt \in Time
    <2>1. r.attempts \in Nat /\ r.retryAt \in Nat /\ MaxAttempts \in Nat
      BY <1>0, BoundsAssumption DEF RunType, Time
    <2>2. r.attempts < MaxAttempts => Backoff[r.attempts] \in Nat
      <3>1. r.attempts < MaxAttempts => r.attempts \in 0 .. MaxAttempts
        BY <2>1
      <3> HIDE DEF r
      <3> QED BY <3>1, BoundsAssumption
    <2> QED BY <2>1, <2>2, <1>0 DEF Time
  <1>3. DOMAIN runs' = DOMAIN runs
    BY DEF FinishUnknown
  <1>4. ASSUME NEW i \in DOMAIN runs
        PROVE  /\ runs'[i] \in RunType
               /\ ~Active(i) => runs'[i] = runs[i]
               /\ runs'[i].fence = runs[i].fence
    <2>0. runs[i] \in RunType
      BY DEF TypeOK
    <2>1. CASE i = g.run
      <3>1. runs'[i] = [r EXCEPT !.hash = c, !.outcome = "unknown", !.finishedAt = now,
                                 !.state = state, !.retryAt = retryAt]
        BY <2>1, <1>0 DEF FinishUnknown
      <3>2. now \in Time /\ c \in Completions \cup {NoCompletion}
        BY <1>0 DEF Time
      <3> HIDE DEF state, retryAt, r
      <3>3. runs'[i] \in RunType
        BY Zenon, <3>1, <3>2, <1>0, <1>1, <1>2 DEF RunType
      <3>4. runs'[i].fence = r.fence
        BY <3>1, <1>0 DEF RunType
      <3> QED BY <3>3, <3>4, <2>1, LeasedTypes DEF r
    <2>2. CASE i # g.run
      <3>1. runs'[i] = runs[i]
        BY <2>2 DEF FinishUnknown
      <3> QED BY <3>1, <2>0
    <2> QED BY <2>1, <2>2
  <1>5. obs' = [obs EXCEPT ![w] = [obs[w] EXCEPT !.value = "unknown", !.availability = "error"]]
    BY <1>0 DEF FinishUnknown, TypeOK
  <1>6. [obs[w] EXCEPT !.value = "unknown", !.availability = "error"] \in ObservationType
    BY <1>0 DEF ObservationType
  <1>7. obs \in [Watches -> ObservationType]
    BY DEF TypeOK
  <1>8. obs' \in [Watches -> ObservationType]
    BY Zenon, <1>5, <1>6, <1>7
  <1>9. \A v \in Watches : /\ obs'[v].next = obs[v].next
                           /\ obs'[v].lastKnown = obs[v].lastKnown
                           /\ obs'[v].fp = obs[v].fp
                           /\ obs'[v].lastNotified = obs[v].lastNotified
    <2> SUFFICES ASSUME NEW v \in Watches
                 PROVE  /\ obs'[v].next = obs[v].next
                        /\ obs'[v].lastKnown = obs[v].lastKnown
                        /\ obs'[v].fp = obs[v].fp
                        /\ obs'[v].lastNotified = obs[v].lastNotified
      OBVIOUS
    <2>1. CASE v = w
      <3>1. obs'[v] = [obs[w] EXCEPT !.value = "unknown", !.availability = "error"]
        BY <1>5, <1>7, <2>1
      <3> QED BY <3>1, <1>0, <2>1 DEF ObservationType
    <2>2. CASE v # w
      BY <1>5, <1>7, <2>2
    <2> QED BY <2>1, <2>2
  <1>10. UNCHANGED <<defs, events, notices>>
    BY DEF FinishUnknown
  <1> QED BY <1>3, <1>4, <1>8, <1>9, <1>10

LEMMA EventKindType ==
    ASSUME NEW p, NEW previous, NEW value
    PROVE  EventKind(p, previous, value) \in {"", "trigger", "recovery"}
  BY DEF EventKind

LEMMA EventNeedsChange ==
    ASSUME NEW p, NEW value, value # "never"
    PROVE  EventKind(p, value, value) = ""
  BY DEF EventKind

LEMMA NoticeKindType ==
    ASSUME NEW p, NEW previous, NEW value
    PROVE  NoticeKind(p, previous, value) \in {"", "change", "failure", "recovery"}
  BY DEF NoticeKind

\* A known result completes its run, is accepted only from the pinned source,
\* and enters at most one event, from the value known before to another one.
LEMMA FinishKnownEffect ==
    ASSUME TypeOK, NEW g \in granted, NEW c \in Completions, NEW subscribed \in BOOLEAN,
           Leased(g), FinishKnown(g, c, subscribed)
    PROVE  LET w == g.run.watch
               value == IF c.outcome = "pass" THEN "true" ELSE "false"
               event(kind) == [watch |-> w, run |-> g.run, kind |-> kind,
                               previous |-> obs[w].lastKnown, value |-> value, source |-> c.fp]
           IN /\ DOMAIN runs' = DOMAIN runs
              /\ \A i \in DOMAIN runs :
                    /\ runs'[i] \in RunType
                    /\ i # g.run => runs'[i] = runs[i]
                    /\ i = g.run => runs'[i].state = "completed"
                    /\ runs'[i].fence = runs[i].fence
              /\ obs' \in [Watches -> ObservationType]
              /\ \A v \in Watches : obs'[v].next = obs[v].next
              /\ \A v \in Watches : v # w => obs'[v] = obs[v]
              /\ obs'[w].lastKnown = value /\ obs'[w].fp = c.fp
              /\ c.fp \in Fingerprints /\ obs[w].fp \in {NoFingerprint, c.fp}
              /\ \/ events' = events
                 \/ \E kind \in {"trigger", "recovery"} :
                       /\ events' = events \cup {event(kind)}
                       /\ obs[w].lastKnown # value
              /\ events' \subseteq EventType
              /\ notices' \subseteq NoticeType
              /\ \/ defs' = defs
                 \/ defs' = [defs EXCEPT ![w].lifecycle = "completed"]
  <1> DEFINE w == g.run.watch
             p == defs[w].policy
             previous == obs[w].lastKnown
             value == IF c.outcome = "pass" THEN "true" ELSE "false"
             kind == EventKind(p, previous, value)
             notice == NoticeKind(p, previous, value)
             told == notice # "" /\ Cooled(obs[w], p) /\ subscribed
             seen == [value |-> value, lastKnown |-> value, fp |-> c.fp, next |-> obs[w].next,
                      lastNotified |-> IF told THEN now ELSE obs[w].lastNotified,
                      availability |-> "available"]
             event(k) == [watch |-> w, run |-> g.run, kind |-> k,
                          previous |-> previous, value |-> value, source |-> c.fp]
  <1>0. /\ runs[g.run] \in RunType /\ now \in Time /\ w \in Watches
        /\ obs[w] \in ObservationType /\ g.run \in RunId /\ p \in Policies
        /\ g.run \in DOMAIN runs
    BY LeasedTypes DEF Time
  <1>1. KnownResult(obs[w], c)
    BY DEF FinishKnown
  <1>2. /\ c.fp \in Fingerprints /\ obs[w].fp \in {NoFingerprint, c.fp}
        /\ c.outcome \in {"pass", "fail"}
    <2>1. c.fp # NoFingerprint /\ c.outcome \in {"pass", "fail"} /\ c.fp \in Fingerprints
      BY <1>1, CompletionAssumption DEF KnownResult
    <2>2. obs[w].fp = NoFingerprint \/ obs[w].fp = c.fp
      BY <1>1, <2>1 DEF KnownResult, SourceChanged
    <2> QED BY <2>1, <2>2
  <1>3. DOMAIN runs' = DOMAIN runs
    BY DEF FinishKnown
  <1>4. ASSUME NEW i \in DOMAIN runs
        PROVE  /\ runs'[i] \in RunType
               /\ i # g.run => runs'[i] = runs[i]
               /\ i = g.run => runs'[i].state = "completed"
               /\ runs'[i].fence = runs[i].fence
    <2>0. runs[i] \in RunType
      BY DEF TypeOK
    <2>1. CASE i = g.run
      <3>1. runs'[i] = [runs[i] EXCEPT !.hash = c, !.outcome = c.outcome,
                                       !.state = "completed", !.finishedAt = now]
        BY <2>1 DEF FinishKnown
      <3>2. /\ c \in Completions \cup {NoCompletion} /\ "completed" \in RunStates
            /\ c.outcome \in {"none", "pass", "fail", "unknown"}
        BY <1>2 DEF RunStates
      <3>3. runs'[i] \in RunType
        BY Zenon, <3>1, <3>2, <2>0, <1>0 DEF RunType
      <3>4. runs'[i].fence = runs[i].fence /\ runs'[i].state = "completed"
        BY <3>1, <2>0 DEF RunType
      <3> QED BY <3>3, <3>4, <2>1
    <2>2. CASE i # g.run
      <3>1. runs'[i] = runs[i]
        BY <2>2 DEF FinishKnown
      <3> QED BY <3>1, <2>0, <2>2
    <2> QED BY <2>1, <2>2
  <1>5. obs' = [obs EXCEPT ![w] = seen]
    BY <1>0 DEF FinishKnown, TypeOK
  <1>6. seen \in ObservationType
    <2>1. obs[w].next \in Time /\ obs[w].lastNotified \in Time
      BY <1>0 DEF ObservationType
    <2>2. (IF told THEN now ELSE obs[w].lastNotified) \in Time
      <3> HIDE DEF told
      <3> QED BY <2>1, <1>0
    <2>3. value \in {"true", "false"}
      OBVIOUS
    <2> HIDE DEF told, value
    <2> QED BY <1>2, <2>1, <2>2, <2>3 DEF ObservationType
  <1>7. obs \in [Watches -> ObservationType]
    BY DEF TypeOK
  <1>8. obs' \in [Watches -> ObservationType]
    <2> HIDE DEF seen
    <2> QED BY <1>5, <1>6, <1>7
  <1>9. obs'[w] = seen /\ \A v \in Watches : v # w => obs'[v] = obs[v]
    <2> HIDE DEF seen
    <2> QED BY <1>0, <1>5, <1>7
  <1>10. /\ obs'[w].lastKnown = value /\ obs'[w].fp = c.fp
         /\ obs'[w].next = obs[w].next
    <2> HIDE DEF told, value
    <2> QED BY <1>9
  <1>11. \A v \in Watches : obs'[v].next = obs[v].next
    BY <1>9, <1>10
  <1>12. events' = IF kind = "" THEN events ELSE events \cup {event(kind)}
    BY DEF FinishKnown
  <1>13. /\ kind \in {"", "trigger", "recovery"}
         /\ kind # "" => previous # value
    <2>1. value # "never"
      OBVIOUS
    <2> HIDE DEF p, previous, value
    <2>2. kind \in {"", "trigger", "recovery"}
      BY Zenon, EventKindType
    <2>3. ASSUME previous = value PROVE kind = ""
      <3>1. kind = EventKind(p, value, value)
        BY <2>3
      <3>2. EventKind(p, value, value) = ""
        BY <2>1, EventNeedsChange
      <3> QED BY <3>1, <3>2
    <2> QED BY <2>2, <2>3
  <1>14. \/ events' = events
         \/ \E k \in {"trigger", "recovery"} :
               events' = events \cup {event(k)} /\ previous # value
    <2> HIDE DEF kind, value, previous, event
    <2> QED BY <1>12, <1>13
  <1>15. events' \subseteq EventType
    <2>1. previous \in {"never", "true", "false"} /\ value \in {"true", "false"}
      BY <1>0 DEF ObservationType
    <2>2. \A k \in {"trigger", "recovery"} : event(k) \in EventType
      <3> HIDE DEF previous, value
      <3> QED BY <1>0, <1>2, <2>1 DEF EventType
    <2>3. events \subseteq EventType
      BY DEF TypeOK
    <2> HIDE DEF event
    <2> QED BY <1>14, <2>2, <2>3
  <1>16. notices' \subseteq NoticeType
    <2>1. notices' = IF told
                     THEN notices \cup {[run |-> g.run, event |-> notice, at |-> now,
                                         cooldown |-> p.cooldown]}
                     ELSE notices
      BY DEF FinishKnown
    <2>2. told => notice \in {"change", "failure", "recovery"}
      BY NoticeKindType
    <2>3. p.cooldown \in Nat /\ notices \subseteq NoticeType
      BY <1>0, PolicyAssumption DEF TypeOK
    <2> HIDE DEF told, notice, p
    <2> QED BY <1>0, <2>1, <2>2, <2>3 DEF NoticeType
  <1>17. \/ defs' = defs
         \/ defs' = [defs EXCEPT ![w].lifecycle = "completed"]
    <2>1. defs' = IF Fires(p, kind, value)
                  THEN [defs EXCEPT ![w].lifecycle = "completed"] ELSE defs
      BY DEF FinishKnown
    <2> HIDE DEF p, kind, value
    <2> QED BY Zenon, <2>1
  <1> HIDE DEF kind, told, seen
  <1> QED BY <1>2, <1>3, <1>4, <1>8, <1>9, <1>10, <1>11, <1>14, <1>15, <1>16, <1>17
-----------------------------------------------------------------------------
(* Type correctness *)

LEMMA TypeInit == Init => TypeOK
  <1> SUFFICES ASSUME Init PROVE TypeOK
    OBVIOUS
  <1>1. now \in Time
    BY DEF Init, Time
  <1>2. defs \in [Watches -> DefinitionType]
    <2>1. (CHOOSE p \in Policies : TRUE) \in Policies /\ (CHOOSE k \in Checks : TRUE) \in Checks
      BY PolicyAssumption
    <2> QED BY <2>1 DEF Init, DefinitionType, Lifecycles
  <1>3. obs \in [Watches -> ObservationType]
    BY DEF Init, Baseline, ObservationType, Time, Zero
  <1>4. DOMAIN runs = {}
    BY DEF Init
  <1>5. lastSeen \in [Runners -> Time] /\ granted = {} /\ events = {} /\ notices = {}
    BY DEF Init, Time, Zero
  <1> QED BY <1>1, <1>2, <1>3, <1>4, <1>5 DEF TypeOK

\* What people do to a definition keeps the types, closes the run of that
\* Watch, and moves on its version.
LEMMA DefinitionStep ==
    ASSUME TypeOK, NEW w \in Watches,
           \/ \E p \in Policies, k \in Checks, b \in BOOLEAN : CreateDefinition(w, p, k, b)
           \/ \E p \in Policies, k \in Checks : EditDefinition(w, p, k)
           \/ \E l \in {"enabled", "paused", "deleted"} : SetLifecycle(w, l)
           \/ ResetBaseline(w)
    PROVE  /\ CancelRuns(w)
           /\ defs' \in [Watches -> DefinitionType]
           /\ obs' \in [Watches -> ObservationType]
           /\ \A v \in Watches : v # w => defs'[v] = defs[v] /\ obs'[v] = obs[v]
           /\ \/ defs'[w].version = defs[w].version + 1
              \/ defs[w].lifecycle = "absent" /\ defs'[w].version = 1
           /\ defs'[w].lifecycle # "absent"
           /\ \/ /\ obs'[w].lastKnown = obs[w].lastKnown
                 /\ obs'[w].fp = obs[w].fp
              \/ obs'[w] = Baseline
           /\ UNCHANGED <<now, lastSeen, granted, events, notices>>
  <1>0. /\ defs \in [Watches -> DefinitionType] /\ obs \in [Watches -> ObservationType]
        /\ Baseline \in ObservationType /\ now \in Time
        /\ defs[w] \in DefinitionType /\ obs[w] \in ObservationType
    BY BaselineType DEF TypeOK
  <1>1. ASSUME NEW p \in Policies, NEW k \in Checks, NEW b \in BOOLEAN, CreateDefinition(w, p, k, b)
        PROVE  /\ CancelRuns(w) /\ UNCHANGED <<now, lastSeen, granted, events, notices>>
               /\ \E d \in DefinitionType, o \in ObservationType :
                     /\ defs' = [defs EXCEPT ![w] = d] /\ obs' = [obs EXCEPT ![w] = o]
                     /\ defs[w].lifecycle = "absent" /\ d.version = 1
                     /\ d.lifecycle # "absent" /\ o = Baseline
    <2> DEFINE d == [version |-> 1, policy |-> p, check |-> k,
                     lifecycle |-> IF b THEN "paused" ELSE "enabled"]
    <2>1. d \in DefinitionType /\ d.version = 1 /\ d.lifecycle # "absent"
      BY DEF DefinitionType, Lifecycles
    <2>2. defs' = [defs EXCEPT ![w] = d]
      BY <1>1 DEF CreateDefinition
    <2>3. /\ CancelRuns(w) /\ UNCHANGED <<now, lastSeen, granted, events, notices>>
          /\ obs' = [obs EXCEPT ![w] = Baseline] /\ defs[w].lifecycle = "absent"
      BY <1>1 DEF CreateDefinition
    <2> HIDE DEF d
    <2> QED BY <1>0, <2>1, <2>2, <2>3
  <1>2. ASSUME NEW p \in Policies, NEW k \in Checks, EditDefinition(w, p, k)
        PROVE  /\ CancelRuns(w) /\ UNCHANGED <<now, lastSeen, granted, events, notices>>
               /\ \E d \in DefinitionType, o \in ObservationType :
                     /\ defs' = [defs EXCEPT ![w] = d] /\ obs' = [obs EXCEPT ![w] = o]
                     /\ d.version = defs[w].version + 1
                     /\ d.lifecycle # "absent" /\ o \in {Baseline, obs[w]}
    <2> DEFINE d == [version |-> defs[w].version + 1, lifecycle |-> defs[w].lifecycle,
                     policy |-> p, check |-> k]
               o == IF k = defs[w].check THEN obs[w] ELSE Baseline
    <2>1. d \in DefinitionType /\ d.version = defs[w].version + 1
      BY <1>0 DEF DefinitionType
    <2>2. d.lifecycle # "absent"
      BY <1>2 DEF EditDefinition, Editable
    <2>3. defs' = [defs EXCEPT ![w] = d]
      BY <1>0, <1>2 DEF EditDefinition
    <2>4. CancelRuns(w) /\ UNCHANGED <<now, lastSeen, granted, events, notices>>
      BY <1>2 DEF EditDefinition
    <2>5. obs' = [obs EXCEPT ![w] = o] /\ o \in ObservationType /\ o \in {Baseline, obs[w]}
      BY <1>0, <1>2 DEF EditDefinition
    <2> HIDE DEF d, o
    <2> QED BY <2>1, <2>2, <2>3, <2>4, <2>5
  <1>3. ASSUME NEW l \in {"enabled", "paused", "deleted"}, SetLifecycle(w, l)
        PROVE  /\ CancelRuns(w) /\ UNCHANGED <<now, lastSeen, granted, events, notices>>
               /\ \E d \in DefinitionType, o \in ObservationType :
                     /\ defs' = [defs EXCEPT ![w] = d] /\ obs' = [obs EXCEPT ![w] = o]
                     /\ d.version = defs[w].version + 1 /\ d.lifecycle # "absent"
                     /\ o.lastKnown = obs[w].lastKnown /\ o.fp = obs[w].fp
    <2> DEFINE d == [defs[w] EXCEPT !.version = defs[w].version + 1, !.lifecycle = l]
               o == IF l = "enabled"
                    THEN [obs[w] EXCEPT !.next = now, !.availability = "waiting"]
                    ELSE obs[w]
    <2>1. /\ d \in DefinitionType /\ d.version = defs[w].version + 1
          /\ d.lifecycle # "absent"
      <3>1. defs[w].version + 1 \in Nat /\ l \in Lifecycles /\ l # "absent"
        BY <1>0 DEF DefinitionType, Lifecycles
      <3>2. d \in DefinitionType
        BY Zenon, <1>0, <3>1 DEF DefinitionType
      <3>3. d.version = defs[w].version + 1 /\ d.lifecycle = l
        BY <1>0 DEF DefinitionType
      <3> QED BY <3>1, <3>2, <3>3
    <2>2. defs' = [defs EXCEPT ![w] = d]
      BY <1>0, <1>3 DEF SetLifecycle
    <2>3. CancelRuns(w) /\ UNCHANGED <<now, lastSeen, granted, events, notices>>
      BY <1>3 DEF SetLifecycle
    <2>4. obs' = [obs EXCEPT ![w] = o]
      <3>1. CASE l = "enabled"
        BY <1>0, <1>3, <3>1 DEF SetLifecycle
      <3>2. CASE l # "enabled"
        <4>1. obs' = obs /\ o = obs[w]
          BY <1>3, <3>2 DEF SetLifecycle
        <4> HIDE DEF o
        <4> QED BY <1>0, <4>1
      <3> QED BY <3>1, <3>2
    <2>5. /\ o \in ObservationType
          /\ o.lastKnown = obs[w].lastKnown /\ o.fp = obs[w].fp
      BY <1>0 DEF ObservationType
    <2> HIDE DEF d, o
    <2> QED BY <2>1, <2>2, <2>3, <2>4, <2>5
  <1>4. ASSUME ResetBaseline(w)
        PROVE  /\ CancelRuns(w) /\ UNCHANGED <<now, lastSeen, granted, events, notices>>
               /\ \E d \in DefinitionType, o \in ObservationType :
                     /\ defs' = [defs EXCEPT ![w] = d] /\ obs' = [obs EXCEPT ![w] = o]
                     /\ d.version = defs[w].version + 1 /\ d.lifecycle # "absent"
                     /\ o = Baseline
    <2> DEFINE d == [defs[w] EXCEPT !.version = defs[w].version + 1]
    <2>1. /\ d \in DefinitionType /\ d.version = defs[w].version + 1
          /\ d.lifecycle = defs[w].lifecycle
      BY <1>0 DEF DefinitionType
    <2>2. defs' = [defs EXCEPT ![w] = d]
      BY <1>0, <1>4 DEF ResetBaseline
    <2>3. /\ CancelRuns(w) /\ UNCHANGED <<now, lastSeen, granted, events, notices>>
          /\ obs' = [obs EXCEPT ![w] = Baseline] /\ defs[w].lifecycle # "absent"
      BY <1>4 DEF ResetBaseline, Editable
    <2> HIDE DEF d
    <2> QED BY <1>0, <2>1, <2>2, <2>3
  <1> QED BY <1>0, <1>1, <1>2, <1>3, <1>4

\* The disjuncts of Next, one at a time, with the definition operations grouped.
DefinitionOf(w) ==
    \/ \E p \in Policies, k \in Checks, b \in BOOLEAN : CreateDefinition(w, p, k, b)
    \/ \E p \in Policies, k \in Checks : EditDefinition(w, p, k)
    \/ \E l \in {"enabled", "paused", "deleted"} : SetLifecycle(w, l)
    \/ ResetBaseline(w)

LEMMA NextSplit ==
    ASSUME Next
    PROVE  \/ \E w \in Watches : DefinitionOf(w)
           \/ Reconcile
           \/ \E r \in Runners : RegisterRunner(r)
           \/ \E r \in Runners : ClaimDue(r)
           \/ \E g \in granted : Heartbeat(g)
           \/ \E g \in granted, c \in Completions : FinishRun(g, c)
           \/ Tick \/ StepClockBack
  BY DEF Next, DefinitionOf

\* ClaimDue is one walk of the loop.
LEMMA ClaimWalks ==
    ASSUME NEW r \in Runners, ClaimDue(r)
    PROVE  \E picked, passed :
              /\ picked \subseteq Claimable(r) /\ passed \subseteq Outdated \cup Exhausted(r)
              /\ Walk(r, picked, passed)
              /\ \A i, j \in picked : i = j
  <1> DEFINE closing == Outdated \cup Exhausted(r)
  <1>1. CASE Claimable(r) = {} /\ Walk(r, {}, closing)
    BY <1>1
  <1>2. CASE \E i \in Claimable(r), passed \in SUBSET closing : Walk(r, {i}, passed)
    <2>1. PICK i \in Claimable(r), passed \in SUBSET closing : Walk(r, {i}, passed)
      BY <1>2
    <2>2. {i} \subseteq Claimable(r) /\ passed \subseteq closing /\ \A a, b \in {i} : a = b
      BY <2>1
    <2> QED BY <2>1, <2>2
  <1> QED BY <1>1, <1>2 DEF ClaimDue

LEMMA TypeStep ==
    ASSUME TypeOK, [Next]_vars
    PROVE  TypeOK'
  <1>1. ASSUME NEW w \in Watches, DefinitionOf(w)
        PROVE  TypeOK'
    <2>1. /\ CancelRuns(w) /\ defs' \in [Watches -> DefinitionType]
          /\ obs' \in [Watches -> ObservationType]
          /\ UNCHANGED <<now, lastSeen, granted, events, notices>>
      BY <1>1, DefinitionStep DEF DefinitionOf
    <2>2. DOMAIN runs' = DOMAIN runs /\ \A i \in DOMAIN runs : runs'[i] \in RunType
      BY <2>1, CancelRunsEffect
    <2> QED BY <2>1, <2>2 DEF TypeOK
  <1>2. CASE Reconcile
    <2>1. UNCHANGED <<now, defs, granted, events, notices>>
      BY <1>2 DEF Reconcile
    <2>2. \A w \in Watches : RunIdOf(w) \in RunId
      BY DEF TypeOK, RunIdOf, RunId, DefinitionType, ObservationType, Time
    <2>3. \A i \in DOMAIN runs' : i \in RunId /\ runs'[i] \in RunType
      BY <1>2, <2>2, ReconcileEffect, NewRunType DEF TypeOK
    <2>4. obs' \in [Watches -> ObservationType] /\ lastSeen' \in [Runners -> Time]
      BY <1>2, ReconcileEffect
    <2> QED BY <2>1, <2>3, <2>4 DEF TypeOK
  <1>3. ASSUME NEW r \in Runners, RegisterRunner(r)
        PROVE  TypeOK'
    BY <1>3 DEF RegisterRunner, TypeOK
  <1>4. ASSUME NEW r \in Runners, ClaimDue(r)
        PROVE  TypeOK'
    <2>1. PICK picked, passed :
              /\ picked \subseteq Claimable(r) /\ passed \subseteq Outdated \cup Exhausted(r)
              /\ Walk(r, picked, passed)
      BY <1>4, ClaimWalks
    <2>2. /\ DOMAIN runs' = DOMAIN runs /\ \A i \in DOMAIN runs : runs'[i] \in RunType
          /\ obs' \in [Watches -> ObservationType] /\ granted' \subseteq ClaimType
      BY <2>1, WalkEffect
    <2>3. lastSeen' \in [Runners -> Time]
      BY <1>4 DEF ClaimDue, TypeOK
    <2>4. UNCHANGED <<now, defs, events, notices>>
      BY <1>4 DEF ClaimDue
    <2> QED BY <2>2, <2>3, <2>4 DEF TypeOK
  <1>5. ASSUME NEW g \in granted, Heartbeat(g)
        PROVE  TypeOK'
    <2>1. UNCHANGED <<now, defs, obs, granted, events, notices>>
      BY <1>5 DEF Heartbeat
    <2> QED BY <1>5, <2>1, HeartbeatEffect DEF TypeOK
  <1>6. ASSUME NEW g \in granted, NEW c \in Completions, FinishRun(g, c)
        PROVE  TypeOK'
    <2>1. Leased(g) /\ UNCHANGED <<now, lastSeen, granted>>
      BY <1>6 DEF FinishRun
    <2>2. CASE FinishUnknown(g, c)
      <3>1. /\ DOMAIN runs' = DOMAIN runs /\ \A i \in DOMAIN runs : runs'[i] \in RunType
            /\ obs' \in [Watches -> ObservationType] /\ UNCHANGED <<defs, events, notices>>
        BY <2>1, <2>2, FinishUnknownEffect
      <3> QED BY <2>1, <3>1 DEF TypeOK
    <2>3. ASSUME NEW b \in BOOLEAN, FinishKnown(g, c, b)
          PROVE  TypeOK'
      <3>1. /\ DOMAIN runs' = DOMAIN runs /\ \A i \in DOMAIN runs : runs'[i] \in RunType
            /\ obs' \in [Watches -> ObservationType]
            /\ events' \subseteq EventType /\ notices' \subseteq NoticeType
            /\ \/ defs' = defs
               \/ defs' = [defs EXCEPT ![g.run.watch].lifecycle = "completed"]
        BY <2>1, <2>3, FinishKnownEffect
      <3>2. defs' \in [Watches -> DefinitionType]
        BY <3>1 DEF TypeOK, DefinitionType, Lifecycles
      <3> QED BY <2>1, <3>1, <3>2 DEF TypeOK
    <2> QED BY <1>6, <2>2, <2>3 DEF FinishRun
  <1>7. CASE Tick \/ StepClockBack
    <2>1. now' \in Time
      BY <1>7 DEF Tick, StepClockBack, TypeOK, Time
    <2> QED BY <1>7, <2>1 DEF Tick, StepClockBack, TypeOK
  <1>8. CASE UNCHANGED vars
    BY <1>8 DEF vars, TypeOK
  <1> QED BY <1>1, <1>2, <1>3, <1>4, <1>5, <1>6, <1>7, <1>8, NextSplit

\* Every row the store can hold has the shape model.go declares, for any set
\* of Watches, runners, policies and results.
THEOREM TypeCorrect == Spec => []TypeOK
  <1>1. Init => TypeOK
    BY TypeInit
  <1>2. TypeOK /\ [Next]_vars => TypeOK'
    BY TypeStep
  <1> QED BY <1>1, <1>2, PTL DEF Spec
-----------------------------------------------------------------------------
(* Exclusion: one active run, one usable claim *)

\* Run ids in use, now or ever claimed, lie behind the schedule: they belong to
\* an older version, or were due before the next evaluation of this one.
IdsBehind ==
    \A i \in DOMAIN runs \cup {g.run : g \in granted} :
        /\ i.version =< defs[i.watch].version
        /\ i.version = defs[i.watch].version => i.due < obs[i.watch].next

\* Only a definition that does not exist yet has no version.
AbsentIsUnversioned ==
    \A w \in Watches : defs[w].lifecycle = "absent" => defs[w].version = 0

\* Every fence that was handed out is one the run has reached, and was handed
\* out once.
FencesIssued ==
    \A g \in granted :
        /\ g.run \in DOMAIN runs => g.fence =< runs[g.run].fence
        /\ \A h \in granted : g.run = h.run /\ g.fence = h.fence => g = h

ExclusionInv ==
    TypeOK /\ OneActiveRun /\ ActiveRunsAreCurrent
    /\ IdsBehind /\ AbsentIsUnversioned /\ FencesIssued

\* A step other than a tick: the same rows, terminal ones untouched, no fence
\* taken back.
RowsKept ==
    /\ DOMAIN runs' = DOMAIN runs
    /\ \A i \in DOMAIN runs : /\ ~Active(i) => runs'[i] = runs[i]
                              /\ runs'[i].fence >= runs[i].fence

LEMMA RowsKeptByAll ==
    ASSUME TypeOK, [Next]_vars
    PROVE  RowsKept \/ Reconcile
  <1>0. \A i \in DOMAIN runs : runs[i].fence \in Nat
    BY DEF TypeOK, RunType
  <1>1. ASSUME NEW w \in Watches, DefinitionOf(w)
        PROVE  RowsKept
    <2>1. CancelRuns(w)
      BY <1>1, DefinitionStep DEF DefinitionOf
    <2> QED BY <2>1, CancelRunsEffect DEF RowsKept
  <1>2. ASSUME NEW r \in Runners, ClaimDue(r)
        PROVE  RowsKept
    <2>1. PICK picked, passed :
              /\ picked \subseteq Claimable(r) /\ passed \subseteq Outdated \cup Exhausted(r)
              /\ Walk(r, picked, passed)
      BY <1>2, ClaimWalks
    <2> QED BY <2>1, WalkEffect DEF RowsKept
  <1>3. ASSUME NEW g \in granted, Heartbeat(g)
        PROVE  RowsKept
    BY <1>0, <1>3, HeartbeatEffect DEF RowsKept
  <1>4. ASSUME NEW g \in granted, NEW c \in Completions, FinishRun(g, c)
        PROVE  RowsKept
    <2>1. Leased(g)
      BY <1>4 DEF FinishRun
    <2>2. CASE FinishUnknown(g, c)
      BY <1>0, <2>1, <2>2, FinishUnknownEffect DEF RowsKept
    <2>3. ASSUME NEW b \in BOOLEAN, FinishKnown(g, c, b)
          PROVE  RowsKept
      <3>1. /\ DOMAIN runs' = DOMAIN runs
            /\ \A i \in DOMAIN runs : /\ i # g.run => runs'[i] = runs[i]
                                      /\ runs'[i].fence = runs[i].fence
        BY <2>1, <2>3, FinishKnownEffect
      <3> QED BY <1>0, <2>1, <3>1, LeasedTypes DEF RowsKept
    <2> QED BY <1>4, <2>2, <2>3 DEF FinishRun
  <1>5. CASE UNCHANGED runs
    BY <1>0, <1>5 DEF RowsKept
  <1>6. ASSUME NEW r \in Runners, RegisterRunner(r) PROVE UNCHANGED runs
    BY <1>6 DEF RegisterRunner
  <1>7. Tick \/ StepClockBack \/ UNCHANGED vars => UNCHANGED runs
    BY DEF Tick, StepClockBack, vars
  <1> QED BY <1>1, <1>2, <1>3, <1>4, <1>5, <1>6, <1>7, NextSplit

\* The ids a tick gives to its fresh runs were never used before.
LEMMA FreshIdsUnused ==
    ASSUME TypeOK, IdsBehind, NEW w \in Watches
    PROVE  RunIdOf(w) \notin DOMAIN runs \cup {g.run : g \in granted}
  <1> SUFFICES ASSUME RunIdOf(w) \in DOMAIN runs \cup {g.run : g \in granted}
               PROVE  FALSE
    OBVIOUS
  <1>1. /\ RunIdOf(w).watch = w /\ RunIdOf(w).version = defs[w].version
        /\ RunIdOf(w).due = obs[w].next
    BY DEF RunIdOf
  <1>2. obs[w].next < obs[w].next
    BY <1>1 DEF IdsBehind
  <1>3. obs[w].next \in Nat
    BY DEF TypeOK, ObservationType, Time
  <1> QED BY <1>2, <1>3

LEMMA OneActiveStep ==
    ASSUME ExclusionInv, [Next]_vars
    PROVE  OneActiveRun'
  <1>1. CASE RowsKept
    <2>1. \A i \in DOMAIN runs' : runs'[i].state \in ActiveStates => i \in DOMAIN runs /\ Active(i)
      BY <1>1 DEF RowsKept, Active
    <2> QED BY <2>1 DEF ExclusionInv, OneActiveRun, Active
  <1>2. CASE Reconcile
    <2> DEFINE needy == {w \in Watches : NeedsRun(w)}
    <2>1. \A i \in DOMAIN runs' : \/ \E w \in needy : i = RunIdOf(w)
                                  \/ i \in DOMAIN runs /\ runs'[i] = runs[i]
      BY <1>2, ReconcileEffect DEF ExclusionInv
    <2>2. \A w \in needy : RunIdOf(w).watch = w
      BY DEF RunIdOf
    <2>3. \A w \in needy : \A i \in DOMAIN runs : i.watch = w => ~Active(i)
      BY DEF NeedsRun
    <2> HIDE DEF needy
    <2> SUFFICES ASSUME NEW i \in DOMAIN runs', NEW j \in DOMAIN runs',
                        runs'[i].state \in ActiveStates, runs'[j].state \in ActiveStates,
                        i.watch = j.watch
                 PROVE  i = j
      BY DEF OneActiveRun, Active
    <2>4. CASE \E w \in needy : i = RunIdOf(w)
      BY <2>1, <2>2, <2>3, <2>4 DEF Active
    <2>5. CASE \E w \in needy : j = RunIdOf(w)
      BY <2>1, <2>2, <2>3, <2>5 DEF Active
    <2>6. CASE i \in DOMAIN runs /\ runs'[i] = runs[i] /\ j \in DOMAIN runs /\ runs'[j] = runs[j]
      BY <2>6 DEF ExclusionInv, OneActiveRun, Active
    <2> QED BY <2>1, <2>4, <2>5, <2>6
  <1> QED BY <1>1, <1>2, RowsKeptByAll DEF ExclusionInv

\* In every step each Watch keeps its version and does not move its schedule
\* back, or moves to a later version; once defined it stays defined.
ScheduleMovesOn ==
    \A v \in Watches :
        /\ \/ defs'[v].version > defs[v].version
           \/ defs'[v].version = defs[v].version /\ obs'[v].next >= obs[v].next
        /\ defs'[v].lifecycle = "absent" =>
              defs[v].lifecycle = "absent" /\ defs'[v].version = defs[v].version

LEMMA ScheduleStep ==
    ASSUME TypeOK, AbsentIsUnversioned, [Next]_vars
    PROVE  ScheduleMovesOn
  <1>0. \A v \in Watches : defs[v].version \in Nat /\ obs[v].next \in Nat
    BY DEF TypeOK, DefinitionType, ObservationType, Time
  <1>1. ASSUME NEW w \in Watches, DefinitionOf(w)
        PROVE  ScheduleMovesOn
    <2>1. /\ \A v \in Watches : v # w => defs'[v] = defs[v] /\ obs'[v] = obs[v]
          /\ \/ defs'[w].version = defs[w].version + 1
             \/ defs[w].lifecycle = "absent" /\ defs'[w].version = 1
          /\ defs'[w].lifecycle # "absent"
      BY <1>1, DefinitionStep DEF DefinitionOf
    <2>2. defs'[w].version > defs[w].version
      BY <1>0, <2>1 DEF AbsentIsUnversioned
    <2> QED BY <1>0, <2>1, <2>2 DEF ScheduleMovesOn
  <1>2. CASE Reconcile
    <2>1. defs' = defs
      BY <1>2 DEF Reconcile
    <2>2. \A v \in Watches : obs'[v].next = obs[v].next \/ obs'[v].next > obs[v].next
      BY <1>2, ReconcileEffect
    <2>3. obs' \in [Watches -> ObservationType]
      BY <1>2, ReconcileEffect
    <2>4. \A v \in Watches : obs'[v].next \in Nat
      BY <2>3 DEF ObservationType, Time
    <2> QED BY <1>0, <2>1, <2>2, <2>4 DEF ScheduleMovesOn
  <1>3. ASSUME defs' = defs, \A v \in Watches : obs'[v].next = obs[v].next
        PROVE  ScheduleMovesOn
    BY <1>0, <1>3 DEF ScheduleMovesOn
  <1>4. ASSUME NEW r \in Runners, ClaimDue(r)
        PROVE  ScheduleMovesOn
    <2>1. defs' = defs
      BY <1>4 DEF ClaimDue
    <2>2. \A v \in Watches : obs'[v].next = obs[v].next
      BY <1>4, ClaimWalks, WalkEffect
    <2> QED BY <2>1, <2>2, <1>3
  <1>5. ASSUME NEW g \in granted, NEW c \in Completions, FinishRun(g, c)
        PROVE  ScheduleMovesOn
    <2>1. Leased(g)
      BY <1>5 DEF FinishRun
    <2>2. CASE FinishUnknown(g, c)
      BY <1>3, <2>1, <2>2, FinishUnknownEffect
    <2>3. ASSUME NEW b \in BOOLEAN, FinishKnown(g, c, b)
          PROVE  ScheduleMovesOn
      <3>1. /\ \A v \in Watches : obs'[v].next = obs[v].next
            /\ \/ defs' = defs
               \/ defs' = [defs EXCEPT ![g.run.watch].lifecycle = "completed"]
        BY <2>1, <2>3, FinishKnownEffect
      <3>2. defs \in [Watches -> DefinitionType]
        BY DEF TypeOK
      <3>3. \A v \in Watches : defs'[v].version = defs[v].version
        BY <3>1, <3>2 DEF DefinitionType
      <3>4. \A v \in Watches : defs'[v].lifecycle = "absent" => defs[v].lifecycle = "absent"
        BY <3>1, <3>2 DEF DefinitionType
      <3> QED BY <1>0, <3>1, <3>3, <3>4 DEF ScheduleMovesOn
    <2> QED BY <1>5, <2>2, <2>3 DEF FinishRun
  <1>6. ASSUME NEW r \in Runners, RegisterRunner(r) PROVE ScheduleMovesOn
    BY <1>3, <1>6 DEF RegisterRunner
  <1>7. ASSUME NEW g \in granted, Heartbeat(g) PROVE ScheduleMovesOn
    BY <1>3, <1>7 DEF Heartbeat
  <1>8. CASE Tick \/ StepClockBack \/ UNCHANGED vars
    BY <1>3, <1>8 DEF Tick, StepClockBack, vars
  <1> QED BY <1>1, <1>2, <1>4, <1>5, <1>6, <1>7, <1>8, NextSplit

\* Where the claims of the next state come from.
LEMMA GrantedStep ==
    ASSUME TypeOK, [Next]_vars
    PROVE  \/ granted' = granted
           \/ \E r \in Runners, i \in DOMAIN runs :
                 /\ granted' = granted \cup
                      {[run |-> i, fence |-> runs[i].fence + 1, runner |-> r]}
                 /\ DOMAIN runs' = DOMAIN runs
                 /\ runs'[i].fence = runs[i].fence + 1
  <1>1. ASSUME NEW r \in Runners, ClaimDue(r)
        PROVE  \/ granted' = granted
               \/ \E i \in DOMAIN runs :
                    /\ granted' = granted \cup
                         {[run |-> i, fence |-> runs[i].fence + 1, runner |-> r]}
                    /\ DOMAIN runs' = DOMAIN runs
                    /\ runs'[i].fence = runs[i].fence + 1
    <2>1. PICK picked, passed :
              /\ picked \subseteq Claimable(r) /\ passed \subseteq Outdated \cup Exhausted(r)
              /\ Walk(r, picked, passed)
              /\ \A i, j \in picked : i = j
      BY <1>1, ClaimWalks
    <2>2. /\ DOMAIN runs' = DOMAIN runs
          /\ \A i \in DOMAIN runs : i \in picked => runs'[i].fence = runs[i].fence + 1
          /\ granted' = granted \cup
                {[run |-> i, fence |-> runs[i].fence + 1, runner |-> r] : i \in picked}
      BY <2>1, WalkEffect
    <2>3. CASE picked = {}
      BY <2>2, <2>3
    <2>4. CASE picked # {}
      <3>0. PICK i \in picked : TRUE
        BY <2>4
      <3>1. picked = {i}
        BY <2>1, <3>0
      <3>2. i \in DOMAIN runs
        BY <2>1, <3>1, PendingIsActive
      <3>3. {[run |-> j, fence |-> runs[j].fence + 1, runner |-> r] : j \in picked}
              = {[run |-> i, fence |-> runs[i].fence + 1, runner |-> r]}
        BY <3>1
      <3>4. runs'[i].fence = runs[i].fence + 1
        BY <2>2, <3>1, <3>2
      <3> QED BY Zenon, <2>2, <3>2, <3>3, <3>4
    <2> QED BY <2>3, <2>4
  <1>2. ASSUME NEW w \in Watches, DefinitionOf(w) PROVE granted' = granted
    BY <1>2, DefinitionStep DEF DefinitionOf
  <1>3. ASSUME NEW g \in granted, NEW c \in Completions, FinishRun(g, c)
        PROVE  granted' = granted
    BY <1>3 DEF FinishRun
  <1>4. ASSUME NEW r \in Runners, RegisterRunner(r) PROVE granted' = granted
    BY <1>4 DEF RegisterRunner
  <1>5. ASSUME NEW g \in granted, Heartbeat(g) PROVE granted' = granted
    BY <1>5 DEF Heartbeat
  <1>6. Reconcile \/ Tick \/ StepClockBack \/ UNCHANGED vars => granted' = granted
    BY DEF Reconcile, Tick, StepClockBack, vars
  <1> QED BY <1>1, <1>2, <1>3, <1>4, <1>5, <1>6, NextSplit

LEMMA IdsBehindStep ==
    ASSUME ExclusionInv, [Next]_vars
    PROVE  IdsBehind'
  <1> DEFINE issued == DOMAIN runs \cup {g.run : g \in granted}
  <1>0. /\ TypeOK /\ IdsBehind /\ ScheduleMovesOn /\ TypeOK'
        /\ \A i \in issued : i \in RunId
    BY ScheduleStep, TypeStep DEF ExclusionInv, TypeOK, ClaimType
  <1>1. \A i \in issued : i.watch \in Watches /\ i.version \in Nat /\ i.due \in Nat
    BY <1>0 DEF RunId
  <1>2. \A v \in Watches : /\ defs[v].version \in Nat /\ obs[v].next \in Nat
                           /\ defs'[v].version \in Nat /\ obs'[v].next \in Nat
    BY <1>0 DEF TypeOK, DefinitionType, ObservationType, Time
  <1>3. ASSUME NEW i \in issued
        PROVE  /\ i.version =< defs'[i.watch].version
               /\ i.version = defs'[i.watch].version => i.due < obs'[i.watch].next
    <2>1. /\ i.version =< defs[i.watch].version
          /\ i.version = defs[i.watch].version => i.due < obs[i.watch].next
      BY <1>0 DEF IdsBehind
    <2> HIDE DEF issued
    <2> QED BY <1>0, <1>1, <1>2, <2>1 DEF ScheduleMovesOn
  <1>4. CASE RowsKept
    <2>1. DOMAIN runs' \cup {g.run : g \in granted'} \subseteq issued
      BY <1>0, <1>4, GrantedStep DEF RowsKept
    <2> HIDE DEF issued
    <2> QED BY <1>3, <2>1 DEF IdsBehind
  <1>5. CASE Reconcile
    <2>1. granted' = granted /\ defs' = defs
      BY <1>5 DEF Reconcile
    <2>2. \A i \in DOMAIN runs' :
             i \in DOMAIN runs \/ \E w \in Watches : NeedsRun(w) /\ i = RunIdOf(w)
      BY <1>0, <1>5, ReconcileEffect
    <2>3. \A w \in Watches : NeedsRun(w) => obs'[w].next > obs[w].next
      BY <1>0, <1>5, ReconcileEffect
    <2>4. ASSUME NEW w \in Watches, NeedsRun(w)
          PROVE  LET i == RunIdOf(w)
                 IN /\ i.version =< defs'[i.watch].version
                    /\ i.version = defs'[i.watch].version => i.due < obs'[i.watch].next
      BY <1>2, <2>1, <2>3, <2>4 DEF RunIdOf
    <2>5. ASSUME NEW i \in DOMAIN runs' \cup {g.run : g \in granted'}
          PROVE  /\ i.version =< defs'[i.watch].version
                 /\ i.version = defs'[i.watch].version => i.due < obs'[i.watch].next
      <3>1. i \in issued \/ \E w \in Watches : NeedsRun(w) /\ i = RunIdOf(w)
        BY <2>1, <2>2
      <3> HIDE DEF issued
      <3> QED BY <1>3, <2>4, <3>1
    <2> QED BY <2>5 DEF IdsBehind
  <1> QED BY <1>0, <1>4, <1>5, RowsKeptByAll

LEMMA ActiveCurrentStep ==
    ASSUME ExclusionInv, [Next]_vars
    PROVE  ActiveRunsAreCurrent'
  <1>0. TypeOK /\ OneActiveRun /\ ActiveRunsAreCurrent
    BY DEF ExclusionInv
  <1>1. ASSUME NEW w \in Watches, DefinitionOf(w)
        PROVE  ActiveRunsAreCurrent'
    <2>1. /\ CancelRuns(w)
          /\ \A v \in Watches : v # w => defs'[v] = defs[v]
      BY <1>0, <1>1, DefinitionStep DEF DefinitionOf
    <2> SUFFICES ASSUME NEW i \in DOMAIN runs', runs'[i].state \in ActiveStates
                 PROVE  /\ defs'[i.watch].lifecycle = "enabled"
                        /\ defs'[i.watch].version = i.version
      BY DEF ActiveRunsAreCurrent, Active, Current
    <2>2. i \in DOMAIN runs /\ i.watch # w /\ Active(i)
      BY <1>0, <2>1, CancelRunsEffect DEF Active
    <2>3. i.watch \in Watches
      BY <1>0, <2>2 DEF TypeOK, RunId
    <2> QED BY <1>0, <2>1, <2>2, <2>3 DEF ActiveRunsAreCurrent, Current
  <1>2. CASE Reconcile
    <2>1. defs' = defs
      BY <1>2 DEF Reconcile
    <2>2. \A i \in DOMAIN runs' :
             \/ \E w \in Watches : NeedsRun(w) /\ i = RunIdOf(w)
             \/ i \in DOMAIN runs /\ runs'[i] = runs[i]
      BY <1>0, <1>2, ReconcileEffect
    <2>3. \A w \in Watches : NeedsRun(w) =>
             /\ RunIdOf(w).watch = w /\ RunIdOf(w).version = defs[w].version
             /\ defs[w].lifecycle = "enabled"
      BY DEF NeedsRun, RunIdOf
    <2> QED BY <1>0, <2>1, <2>2, <2>3 DEF ActiveRunsAreCurrent, Active, Current
  <1>3. ASSUME RowsKept, defs' = defs
        PROVE  ActiveRunsAreCurrent'
    BY <1>0, <1>3 DEF RowsKept, ActiveRunsAreCurrent, Active, Current
  <1>4. ASSUME NEW g \in granted, NEW c \in Completions, FinishRun(g, c)
        PROVE  Reconcile \/ ActiveRunsAreCurrent'
    <2>1. Leased(g)
      BY <1>4 DEF FinishRun
    <2>2. CASE FinishUnknown(g, c)
      BY <1>0, <1>3, <2>1, <2>2, FinishUnknownEffect, RowsKeptByAll
    <2>3. ASSUME NEW b \in BOOLEAN, FinishKnown(g, c, b)
          PROVE  ActiveRunsAreCurrent'
      <3>1. /\ DOMAIN runs' = DOMAIN runs
            /\ \A i \in DOMAIN runs : /\ i # g.run => runs'[i] = runs[i]
                                      /\ i = g.run => runs'[i].state = "completed"
            /\ \/ defs' = defs
               \/ defs' = [defs EXCEPT ![g.run.watch].lifecycle = "completed"]
        BY <1>0, <2>1, <2>3, FinishKnownEffect
      <3>2. g.run \in DOMAIN runs /\ Active(g.run) /\ defs \in [Watches -> DefinitionType]
        BY <1>0, <2>1, LeasedTypes DEF TypeOK
      <3> SUFFICES ASSUME NEW i \in DOMAIN runs', runs'[i].state \in ActiveStates
                   PROVE  /\ defs'[i.watch].lifecycle = "enabled"
                          /\ defs'[i.watch].version = i.version
        BY DEF ActiveRunsAreCurrent, Active, Current
      <3>3. i \in DOMAIN runs /\ i # g.run /\ Active(i)
        BY <3>1 DEF Active, ActiveStates
      <3>4. i.watch # g.run.watch
        BY <1>0, <3>2, <3>3 DEF OneActiveRun
      <3>5. i.watch \in Watches
        BY <1>0, <3>3 DEF TypeOK, RunId
      <3>6. defs'[i.watch] = defs[i.watch]
        <4> DEFINE v == g.run.watch
        <4>1. defs' = defs \/ defs' = [defs EXCEPT ![v] = [defs[v] EXCEPT !.lifecycle = "completed"]]
          BY <3>1
        <4>2. i.watch # v
          BY <3>4
        <4> HIDE DEF v
        <4> QED BY <3>2, <3>5, <4>1, <4>2
      <3> QED BY <1>0, <3>3, <3>6 DEF ActiveRunsAreCurrent, Current
    <2> QED BY <1>4, <2>2, <2>3 DEF FinishRun
  <1>5. ASSUME NEW r \in Runners, ClaimDue(r) PROVE defs' = defs
    BY <1>5 DEF ClaimDue
  <1>6. ASSUME NEW r \in Runners, RegisterRunner(r) PROVE defs' = defs
    BY <1>6 DEF RegisterRunner
  <1>7. ASSUME NEW g \in granted, Heartbeat(g) PROVE defs' = defs
    BY <1>7 DEF Heartbeat
  <1>8. Tick \/ StepClockBack \/ UNCHANGED vars => defs' = defs
    BY DEF Tick, StepClockBack, vars
  <1> QED BY <1>0, <1>1, <1>2, <1>3, <1>4, <1>5, <1>6, <1>7, <1>8, NextSplit, RowsKeptByAll

LEMMA FencesStep ==
    ASSUME ExclusionInv, [Next]_vars
    PROVE  FencesIssued'
  <1>0. TypeOK /\ FencesIssued /\ IdsBehind /\ TypeOK'
    BY TypeStep DEF ExclusionInv
  <1>1. /\ \A i \in DOMAIN runs : runs[i].fence \in Nat
        /\ \A i \in DOMAIN runs' : runs'[i].fence \in Nat
        /\ \A g \in granted : g.fence \in Nat
    BY <1>0 DEF TypeOK, RunType, ClaimType
  \* the old claims stay behind the fences of their runs
  <1>2. ASSUME NEW g \in granted, g.run \in DOMAIN runs'
        PROVE  g.run \in DOMAIN runs /\ g.fence =< runs'[g.run].fence
    <2>1. CASE RowsKept
      BY <1>0, <1>1, <1>2, <2>1 DEF RowsKept, FencesIssued
    <2>2. CASE Reconcile
      <3>1. \/ \E w \in Watches : g.run = RunIdOf(w)
            \/ g.run \in DOMAIN runs /\ runs'[g.run] = runs[g.run]
        BY <1>0, <1>2, <2>2, ReconcileEffect
      <3>2. \A w \in Watches : g.run # RunIdOf(w)
        BY <1>0, FreshIdsUnused
      <3> QED BY <1>0, <3>1, <3>2 DEF FencesIssued
    <2> QED BY <1>0, <2>1, <2>2, RowsKeptByAll
  <1>3. CASE granted' = granted
    BY <1>0, <1>2, <1>3 DEF FencesIssued
  <1>4. ASSUME NEW r \in Runners, NEW i \in DOMAIN runs,
               granted' = granted \cup {[run |-> i, fence |-> runs[i].fence + 1, runner |-> r]},
               DOMAIN runs' = DOMAIN runs, runs'[i].fence = runs[i].fence + 1
        PROVE  FencesIssued'
    <2> DEFINE new == [run |-> i, fence |-> runs[i].fence + 1, runner |-> r]
    <2>1. new.run = i /\ new.fence = runs[i].fence + 1
      OBVIOUS
    <2>2. granted' = granted \cup {new}
      BY <1>4
    <2> HIDE DEF new
    <2>3. \A g \in granted : ~(g.run = new.run /\ g.fence = new.fence)
      BY <1>0, <1>1, <2>1 DEF FencesIssued
    <2>4. new.fence =< runs'[new.run].fence
      BY <1>1, <1>4, <2>1
    <2> QED BY <1>0, <1>2, <2>2, <2>3, <2>4 DEF FencesIssued
  <1> QED BY <1>0, <1>3, <1>4, GrantedStep

LEMMA ExclusionInvariant == Spec => []ExclusionInv
  <1>1. Init => ExclusionInv
    <2> SUFFICES ASSUME Init PROVE ExclusionInv
      OBVIOUS
    <2>1. DOMAIN runs = {} /\ granted = {}
      BY DEF Init
    <2>2. AbsentIsUnversioned
      BY DEF Init, AbsentIsUnversioned
    <2> QED BY <2>1, <2>2, TypeInit
         DEF ExclusionInv, OneActiveRun, ActiveRunsAreCurrent, IdsBehind, FencesIssued
  <1>2. ExclusionInv /\ [Next]_vars => ExclusionInv'
    <2> SUFFICES ASSUME ExclusionInv, [Next]_vars PROVE ExclusionInv'
      OBVIOUS
    <2>1. AbsentIsUnversioned'
      <3>1. ScheduleMovesOn /\ AbsentIsUnversioned
        BY ScheduleStep DEF ExclusionInv
      <3> QED BY <3>1 DEF ScheduleMovesOn, AbsentIsUnversioned
    <2>2. TypeOK'
      BY TypeStep DEF ExclusionInv
    <2> QED BY <2>1, <2>2, OneActiveStep, ActiveCurrentStep, IdsBehindStep, FencesStep
         DEF ExclusionInv
  <1> QED BY <1>1, <1>2, PTL DEF Spec

\* However ticks, claims, results, edits and clock steps interleave, no Watch
\* ever has two runs that are due, waiting for a retry or running, and the one
\* it has belongs to its enabled current version.
THEOREM OneActiveRunPerWatch == Spec => [](OneActiveRun /\ ActiveRunsAreCurrent)
  <1>1. ExclusionInv => OneActiveRun /\ ActiveRunsAreCurrent
    BY DEF ExclusionInv
  <1> QED BY <1>1, ExclusionInvariant, PTL

\* Reconcile never gives a run an id that a stored, a pruned or a claimed run
\* already had.
THEOREM RunIdsUnique == Spec => []RunIdsNeverReused
  <1>1. ExclusionInv => RunIdsNeverReused
    BY FreshIdsUnused DEF ExclusionInv, RunIdsNeverReused
  <1> QED BY <1>1, ExclusionInvariant, PTL

\* Of all the claims ever granted for a Watch at most one passes `leased`.
THEOREM LeaseExclusion == Spec => []OneLeaseHolder
  <1>1. ExclusionInv => OneLeaseHolder
    <2> SUFFICES ASSUME ExclusionInv, NEW g \in granted, NEW h \in granted
                 PROVE  /\ g.run = h.run /\ g.fence = h.fence => g = h
                        /\ Leased(g) /\ Leased(h) /\ g.run.watch = h.run.watch => g = h
      BY DEF OneLeaseHolder
    <2>1. g.run = h.run /\ g.fence = h.fence => g = h
      BY DEF ExclusionInv, FencesIssued
    <2>2. ASSUME Leased(g), Leased(h), g.run.watch = h.run.watch
          PROVE  g = h
      <3>1. g.run \in DOMAIN runs /\ h.run \in DOMAIN runs /\ Active(g.run) /\ Active(h.run)
        BY <2>2, LeasedTypes DEF ExclusionInv
      <3>2. g.run = h.run
        BY <2>2, <3>1 DEF ExclusionInv, OneActiveRun
      <3>3. g.fence = h.fence
        BY <2>2, <3>2 DEF Leased
      <3> QED BY <2>1, <3>2, <3>3
    <2> QED BY <2>1, <2>2
  <1> QED BY <1>1, ExclusionInvariant, PTL

\* Nothing that arrives late changes a run that has ended.
THEOREM TerminalRunsStay == Spec => TerminalRunsAreFrozen
  <1>1. ExclusionInv /\ [Next]_vars =>
          [\A i \in DOMAIN runs \cap DOMAIN runs' : ~Active(i) => runs'[i] = runs[i]]_vars
    <2> SUFFICES ASSUME ExclusionInv, [Next]_vars,
                        NEW i \in DOMAIN runs \cap DOMAIN runs', ~Active(i)
                 PROVE  runs'[i] = runs[i]
      OBVIOUS
    <2>1. CASE RowsKept
      BY <2>1 DEF RowsKept
    <2>2. CASE Reconcile
      <3>1. \/ \E w \in Watches : i = RunIdOf(w)
            \/ runs'[i] = runs[i]
        BY <2>2, ReconcileEffect DEF ExclusionInv
      <3>2. \A w \in Watches : i # RunIdOf(w)
        BY FreshIdsUnused DEF ExclusionInv
      <3> QED BY <3>1, <3>2
    <2> QED BY <2>1, <2>2, RowsKeptByAll DEF ExclusionInv
  <1> QED BY <1>1, ExclusionInvariant, PTL DEF Spec, TerminalRunsAreFrozen
-----------------------------------------------------------------------------
(* Refinement: the scheduler implements WatchEvidence *)

\* The run of an event was claimed, and is not active any more.
EventsClosed ==
    \A e \in events : /\ \E g \in granted : g.run = e.run
                      /\ e.run \in DOMAIN runs => ~Active(e.run)

EvidenceInv == ExclusionInv /\ EventsClosed

Known == [w \in Watches |-> obs[w].lastKnown]
Pin == [w \in Watches |-> obs[w].fp]

\* Only an accepted known result and a reset of the baseline change what is
\* known, where it came from, or the ledger.
LEMMA EvidenceStep ==
    ASSUME TypeOK, [Next]_vars
    PROVE  \/ UNCHANGED <<Known, Pin, events>>
           \/ \E w \in Watches :
                 /\ Known' = [Known EXCEPT ![w] = "never"]
                 /\ Pin' = [Pin EXCEPT ![w] = NoFingerprint]
                 /\ events' = events
           \/ \E g \in granted, c \in Completions, b \in BOOLEAN :
                 Leased(g) /\ FinishKnown(g, c, b)
  <1>1. ASSUME NEW w \in Watches, DefinitionOf(w)
        PROVE  \/ UNCHANGED <<Known, Pin, events>>
               \/ /\ Known' = [Known EXCEPT ![w] = "never"]
                  /\ Pin' = [Pin EXCEPT ![w] = NoFingerprint]
                  /\ events' = events
    <2>1. /\ \A v \in Watches : v # w => obs'[v] = obs[v]
          /\ \/ obs'[w].lastKnown = obs[w].lastKnown /\ obs'[w].fp = obs[w].fp
             \/ obs'[w] = Baseline
          /\ events' = events
      BY <1>1, DefinitionStep DEF DefinitionOf
    <2>2. CASE obs'[w].lastKnown = obs[w].lastKnown /\ obs'[w].fp = obs[w].fp
      BY <2>1, <2>2 DEF Known, Pin
    <2>3. CASE obs'[w] = Baseline
      <3>1. obs'[w].lastKnown = "never" /\ obs'[w].fp = NoFingerprint
        BY <2>3 DEF Baseline
      <3> QED BY <2>1, <3>1 DEF Known, Pin
    <2> QED BY <2>1, <2>2, <2>3
  <1>2. ASSUME \A v \in Watches : obs'[v].lastKnown = obs[v].lastKnown /\ obs'[v].fp = obs[v].fp,
               events' = events
        PROVE  UNCHANGED <<Known, Pin, events>>
    BY <1>2 DEF Known, Pin
  <1>3. CASE Reconcile
    <2>1. events' = events
      BY <1>3 DEF Reconcile
    <2> QED BY <1>2, <1>3, <2>1, ReconcileEffect
  <1>4. ASSUME NEW r \in Runners, ClaimDue(r)
        PROVE  UNCHANGED <<Known, Pin, events>>
    <2>1. events' = events
      BY <1>4 DEF ClaimDue
    <2> QED BY <1>2, <1>4, <2>1, ClaimWalks, WalkEffect
  <1>5. ASSUME NEW g \in granted, NEW c \in Completions, FinishRun(g, c)
        PROVE  \/ UNCHANGED <<Known, Pin, events>>
               \/ Leased(g) /\ \E b \in BOOLEAN : FinishKnown(g, c, b)
    <2>1. Leased(g)
      BY <1>5 DEF FinishRun
    <2>2. CASE FinishUnknown(g, c)
      BY <1>2, <2>1, <2>2, FinishUnknownEffect
    <2> QED BY <1>5, <2>1, <2>2 DEF FinishRun
  <1>6. ASSUME NEW r \in Runners, RegisterRunner(r) PROVE UNCHANGED <<Known, Pin, events>>
    BY <1>2, <1>6 DEF RegisterRunner
  <1>7. ASSUME NEW g \in granted, Heartbeat(g) PROVE UNCHANGED <<Known, Pin, events>>
    BY <1>2, <1>7 DEF Heartbeat
  <1>8. Tick \/ StepClockBack \/ UNCHANGED vars => UNCHANGED <<Known, Pin, events>>
    BY <1>2 DEF Tick, StepClockBack, vars
  <1> QED BY <1>1, <1>3, <1>4, <1>5, <1>6, <1>7, <1>8, NextSplit

LEMMA EventsClosedStep ==
    ASSUME EvidenceInv, [Next]_vars
    PROVE  EventsClosed'
  <1>0. TypeOK /\ ExclusionInv /\ EventsClosed /\ IdsBehind
    BY DEF EvidenceInv, ExclusionInv
  <1>1. granted \subseteq granted'
    BY <1>0, GrantedStep
  <1>2. ASSUME NEW e \in events
        PROVE  /\ \E g \in granted' : g.run = e.run
               /\ e.run \in DOMAIN runs' => runs'[e.run].state \notin ActiveStates
    <2>1. /\ \E g \in granted : g.run = e.run
          /\ e.run \in DOMAIN runs => runs[e.run].state \notin ActiveStates
      BY <1>0 DEF EventsClosed, Active
    <2>2. CASE RowsKept
      BY <1>1, <2>1, <2>2 DEF RowsKept, Active
    <2>3. CASE Reconcile
      <3>1. e.run \in DOMAIN runs' => \/ \E w \in Watches : e.run = RunIdOf(w)
                                      \/ e.run \in DOMAIN runs /\ runs'[e.run] = runs[e.run]
        BY <1>0, <2>3, ReconcileEffect
      <3>2. \A w \in Watches : e.run # RunIdOf(w)
        BY <1>0, <2>1, FreshIdsUnused
      <3> QED BY <1>1, <2>1, <3>1, <3>2
    <2> QED BY <1>0, <2>2, <2>3, RowsKeptByAll
  <1>3. CASE events' = events
    BY <1>2, <1>3 DEF EventsClosed, Active
  <1>4. ASSUME NEW g \in granted, NEW c \in Completions, NEW b \in BOOLEAN,
               Leased(g), FinishKnown(g, c, b)
        PROVE  EventsClosed'
    <2>1. \A e \in events' : e \in events \/ e.run = g.run
      <3> DEFINE w == g.run.watch
                 value == IF c.outcome = "pass" THEN "true" ELSE "false"
                 event(kind) == [watch |-> w, run |-> g.run, kind |-> kind,
                                 previous |-> obs[w].lastKnown, value |-> value, source |-> c.fp]
      <3>1. \/ events' = events
            \/ \E kind \in {"trigger", "recovery"} : events' = events \cup {event(kind)}
        BY <1>0, <1>4, FinishKnownEffect
      <3>2. \A kind : event(kind).run = g.run
        OBVIOUS
      <3> HIDE DEF event
      <3> QED BY <3>1, <3>2
    <2>2. g.run \in DOMAIN runs /\ runs'[g.run].state = "completed"
      BY <1>0, <1>4, FinishKnownEffect, LeasedTypes
    <2>3. "completed" \notin ActiveStates
      BY DEF ActiveStates
    <2> QED BY <1>1, <1>2, <2>1, <2>2, <2>3 DEF EventsClosed, Active
  <1> QED BY <1>0, <1>3, <1>4, EvidenceStep

LEMMA EvidenceInvariant == Spec => []EvidenceInv
  <1>1. Init => EventsClosed
    BY DEF Init, EventsClosed
  <1>2. ExclusionInv /\ EventsClosed /\ [Next]_vars => EventsClosed'
    BY EventsClosedStep DEF EvidenceInv
  <1>3. EvidenceInv <=> ExclusionInv /\ EventsClosed
    BY DEF EvidenceInv
  <1> QED BY <1>1, <1>2, <1>3, ExclusionInvariant, PTL DEF Spec

\* An accepted known result is an Observe step of WatchEvidence.
LEMMA KnownResultObserves ==
    ASSUME EvidenceInv, NEW g \in granted, NEW c \in Completions, NEW b \in BOOLEAN,
           Leased(g), FinishKnown(g, c, b)
    PROVE  Evidence!Next
  <1> DEFINE w == g.run.watch
             value == IF c.outcome = "pass" THEN "true" ELSE "false"
             event(kind) == [watch |-> w, run |-> g.run, kind |-> kind,
                             previous |-> obs[w].lastKnown, value |-> value, source |-> c.fp]
  <1>0. TypeOK /\ EventsClosed
    BY DEF EvidenceInv, ExclusionInv
  <1>1. w \in Watches /\ g.run \in DOMAIN runs /\ Active(g.run)
    BY <1>0, LeasedTypes
  <1>2. /\ \A v \in Watches : v # w => obs'[v] = obs[v]
        /\ obs'[w].lastKnown = value /\ obs'[w].fp = c.fp
        /\ c.fp \in Fingerprints /\ obs[w].fp \in {NoFingerprint, c.fp}
    BY <1>0, FinishKnownEffect
  <1>3. \/ events' = events
        \/ \E kind \in {"trigger", "recovery"} :
              events' = events \cup {event(kind)} /\ obs[w].lastKnown # value
    BY <1>0, FinishKnownEffect
  <1>4. value \in {"true", "false"}
    OBVIOUS
  <1>5. \A old \in events : old.run # g.run
    BY <1>0, <1>1 DEF EventsClosed
  <1> HIDE DEF value
  <1>6. Known' = [Known EXCEPT ![w] = value] /\ Pin' = [Pin EXCEPT ![w] = c.fp]
    BY <1>1, <1>2 DEF Known, Pin
  <1>7. Pin[w] \in {NoFingerprint, c.fp} /\ Known[w] = obs[w].lastKnown
    BY <1>1, <1>2 DEF Known, Pin
  <1>8. \/ events' = events
        \/ \E e \in events' :
              /\ events' = events \cup {e}
              /\ \A old \in events : old.run # e.run
              /\ e.watch = w /\ e.source = c.fp
              /\ e.previous = Known[w] /\ e.value = value
              /\ e.previous # e.value
    <2>1. ASSUME NEW kind, events' = events \cup {event(kind)}, obs[w].lastKnown # value
          PROVE  \E e \in events' :
                    /\ events' = events \cup {e}
                    /\ \A old \in events : old.run # e.run
                    /\ e.watch = w /\ e.source = c.fp
                    /\ e.previous = Known[w] /\ e.value = value
                    /\ e.previous # e.value
      <3>1. /\ event(kind).run = g.run /\ event(kind).watch = w /\ event(kind).source = c.fp
            /\ event(kind).previous = obs[w].lastKnown /\ event(kind).value = value
        OBVIOUS
      <3> HIDE DEF event
      <3> QED BY <1>5, <1>7, <2>1, <3>1
    <2> QED BY <1>3, <2>1
  <1> HIDE DEF w
  <1>9. Evidence!Observe(w, value, c.fp)
    BY <1>6, <1>7, <1>8 DEF Evidence!Observe, Known, Pin
  <1> QED BY <1>1, <1>2, <1>4, <1>9 DEF Evidence!Next

\* The scheduler implements WatchEvidence for any number of Watches, runners
\* and sources: nothing but an accepted known result or an acknowledged reset
\* moves the evidence.
THEOREM SchedulerImplementsEvidence == Spec => ImplementsEvidence
  <1>1. Init => Evidence!Init
    BY DEF Init, Evidence!Init, Baseline
  <1>2. EvidenceInv /\ [Next]_vars => [Evidence!Next]_(Evidence!vars)
    <2> SUFFICES ASSUME EvidenceInv, [Next]_vars
                 PROVE  Evidence!Next \/ UNCHANGED Evidence!vars
      OBVIOUS
    <2>0. TypeOK
      BY DEF EvidenceInv, ExclusionInv
    <2>1. CASE UNCHANGED <<Known, Pin, events>>
      BY <2>1 DEF Known, Pin, Evidence!vars
    <2>2. ASSUME NEW w \in Watches, Known' = [Known EXCEPT ![w] = "never"],
                 Pin' = [Pin EXCEPT ![w] = NoFingerprint], events' = events
          PROVE  Evidence!Next
      <3>1. Evidence!Forget(w)
        BY <2>2 DEF Evidence!Forget, Known, Pin
      <3> QED BY <3>1 DEF Evidence!Next
    <2>3. ASSUME NEW g \in granted, NEW c \in Completions, NEW b \in BOOLEAN,
                 Leased(g), FinishKnown(g, c, b)
          PROVE  Evidence!Next
      BY <2>3, KnownResultObserves
    <2> QED BY <2>0, <2>1, <2>2, <2>3, EvidenceStep
  <1> QED BY <1>1, <1>2, EvidenceInvariant, PTL DEF Spec, ImplementsEvidence, Evidence!Spec
=============================================================================
