----------------------------- MODULE WatchOutbox -----------------------------
(***************************************************************************)
(* The notification outbox of pkg/watch for the channels the coordinator   *)
(* itself serves (in_app, email, sms): notifications.go, and the loop of   *)
(* watchdaemon/coordinator.go that drains it.                              *)
(*                                                                         *)
(* A claimed delivery is handed to a mail or SMS provider outside any      *)
(* transaction and acknowledged later, or never.  Two coordinators may be  *)
(* at work (a restart, a second cloud instance).                           *)
(***************************************************************************)
EXTENDS Integers, FiniteSets

CONSTANTS
    Users, Events, Addresses,
    Sites,             \* deployments to look at: see SiteType
    Senders,           \* coordinator processes
    LeaseDuration, MaxAttempts, HistoryLimit,
    Backoff,           \* Backoff[n]: the wait after n failed attempts
    Capacity,          \* the backlog at which notify refuses
    MinuteLimit, MinuteLength, DayLength, QuotaRetention,
    Horizon            \* bound: how long the slowest delivery may take

Channels == {"in_app", "email", "sms"}

\* A deployment: the channels in use, its coordinators, the events to come and
\* the events of another Watch delivered at instant 0, whether acknowledgements
\* always arrive before the lease ends, and the bounds of the instance, the last
\* instant and the claims and manual retries of one delivery.
SiteType == [channels : SUBSET Channels, senders : SUBSET Senders, addresses : SUBSET Addresses,
             events : SUBSET Events, past : SUBSET Events, daily : Nat \ {0},
             prompt : BOOLEAN, until : Nat, maxFence : Nat]

ASSUME OutboxAssumption ==
    /\ \A s \in Sites : /\ s \in SiteType /\ s.past \subseteq s.events /\ IsFiniteSet(s.past)
                        /\ Cardinality(s.past) =< s.daily /\ Cardinality(s.past) =< MinuteLimit
    /\ LeaseDuration \in Nat \ {0} /\ MaxAttempts \in Nat \ {0}
    /\ HistoryLimit \in Nat \ {0} /\ Capacity \in Nat
    /\ Backoff \in [0 .. MaxAttempts -> Nat]
    /\ MinuteLimit \in Nat \ {0}
    /\ MinuteLength \in Nat \ {0} /\ DayLength \in Nat \ {0}
    /\ MinuteLength =< DayLength
    /\ QuotaRetention \in Nat /\ QuotaRetention >= 2 * DayLength /\ Horizon \in Nat

Terminal == {"delivered", "cancelled", "failed"}

\* A delivery's id digests the event, the user and the channel.
DeliveryId == [event : Events, user : Users, channel : Channels]

VARIABLES
    site,       \* the deployment, one of Sites
    now,
    subs,       \* subs[u]: [channels, address]; no channels when unsubscribed
    audience,   \* users to whom the Watch, not deleted, is visible
    paid,       \* users whose account is paid
    outbox,     \* the outbox table: a function from delivery ids to rows
    quotas,     \* the quotas table: a function from counter ids to counters
    raised,     \* events FinishRun has notified
    claims,     \* claims ever handed out: [id, fence, sender, result]
    reserved    \* when each delivery reserved quota (history)

vars == <<site, now, subs, audience, paid, outbox, quotas, raised, claims, reserved>>

Init ==
    /\ site \in Sites
    /\ now = 1
    /\ subs \in [Users -> [channels : {site.channels}, address : site.addresses]]
    /\ audience = Users /\ paid = Users
    /\ outbox = [d \in {} |-> 0]
    /\ quotas = [q \in IF site.past = {} THEN {}
                      ELSE Users \X (site.channels \ {"in_app"}) \X {"day", "minute"} \X {0} |->
                    [count |-> Cardinality(site.past), updated |-> 0]]
    /\ raised = site.past /\ claims = {}
    /\ reserved = {[id |-> d, at |-> 0] :
                     d \in [event : site.past, user : Users, channel : site.channels \ {"in_app"}]}
-----------------------------------------------------------------------------
(* People *)

Subscribe(u, channels, address) ==
    /\ u \in audience
    /\ "sms" \in channels => u \in paid
    /\ subs' = [subs EXCEPT ![u] = [channels |-> channels, address |-> address]]
    /\ UNCHANGED <<site, now, audience, paid, outbox, quotas, raised, claims, reserved>>

\* An edit of the visibility, or (nobody is left) the definition's deletion.
ChangeAudience(us) ==
    /\ audience # {}
    /\ audience' = us
    /\ UNCHANGED <<site, now, subs, paid, outbox, quotas, raised, claims, reserved>>

\* An account's plan matters to sms only.
ChangePaid(us) ==
    /\ "sms" \in site.channels
    /\ paid' = us
    /\ UNCHANGED <<site, now, subs, audience, outbox, quotas, raised, claims, reserved>>

\* Mutant: any delivery that is not on its way can be sent again.
RetryAnyState(d) ==
    /\ d.user \in audience
    /\ outbox[d].state \in Terminal
    /\ outbox[d].fence + MaxAttempts < site.maxFence
    /\ outbox' = [outbox EXCEPT ![d].state = "pending", ![d].attempts = 0,
                                ![d].retryAt = 0, ![d].fence = @ + 1, ![d].updated = now]
    /\ UNCHANGED <<site, now, subs, audience, paid, quotas, raised, claims, reserved>>

RetryNotification(d) ==
    /\ d.user \in audience
    /\ outbox[d].state = "failed"
    /\ outbox[d].fence + MaxAttempts < site.maxFence
    /\ outbox' = [outbox EXCEPT ![d].state = "pending", ![d].attempts = 0,
                                ![d].retryAt = 0, ![d].fence = @ + 1, ![d].updated = now]
    /\ UNCHANGED <<site, now, subs, audience, paid, quotas, raised, claims, reserved>>
-----------------------------------------------------------------------------
(* notify, inside FinishRun's transaction *)

\* Every subscription may add one row per channel.
HasRoom == Cardinality(DOMAIN outbox) + 4 * Cardinality(Users) =< Capacity

NewDelivery(d) ==
    [state |-> IF d.channel = "in_app" THEN "delivered" ELSE "pending",
     fence |-> 0, attempts |-> 0, leaseUntil |-> 0, retryAt |-> 0, quota |-> FALSE,
     address |-> subs[d.user].address, created |-> now, updated |-> now]

\* `wanting`: the users whose NotifyOn lets the event through.
Notify(e, wanting) ==
    LET fresh == {d \in DeliveryId : /\ d.event = e
                                     /\ d.user \in wanting \cap audience
                                     /\ d.channel \in subs[d.user].channels}
    IN /\ e \notin raised /\ audience # {}
       /\ HasRoom
       /\ raised' = raised \cup {e}
       /\ outbox' = [d \in DOMAIN outbox \cup fresh |->
                       IF d \in fresh THEN NewDelivery(d) ELSE outbox[d]]
       /\ UNCHANGED <<site, now, subs, audience, paid, quotas, claims, reserved>>
-----------------------------------------------------------------------------
(* ClaimNotifications *)

\* Mutant: a delivery that is being sent is handed out again.
ReadyWhileLeased == {d \in DOMAIN outbox :
                       outbox[d].state \notin Terminal /\ outbox[d].retryAt =< now}

\* Mutant: a delivery that met a used-up quota is never looked at again.
ReadyUnlessLimited == {d \in DOMAIN outbox :
            /\ outbox[d].state \notin Terminal \cup {"rate_limited"}
            /\ outbox[d].retryAt =< now
            /\ ~(outbox[d].state = "sending" /\ outbox[d].leaseUntil > now)}

Ready == {d \in DOMAIN outbox :
            /\ outbox[d].state \notin Terminal
            /\ outbox[d].retryAt =< now
            /\ ~(outbox[d].state = "sending" /\ outbox[d].leaseUntil > now)}

\* Mutant: consent is not looked at again.
StillConsents(d) == TRUE

\* The recipient still sees the Watch, wants the channel, at that address.
Consents(d) ==
    /\ d.user \in audience
    /\ d.channel \in subs[d.user].channels
    /\ subs[d.user].address = outbox[d].address
    /\ d.channel = "sms" => d.user \in paid

DayOf(t) == t \div DayLength
MinuteOf(t) == t \div MinuteLength

\* The two counters a reservation at this instant would use.
DayCounter(d) == <<d.user, d.channel, "day", DayOf(now)>>
MinuteCounter(d) == <<d.user, d.channel, "minute", MinuteOf(now)>>
CountOf(q) == IF q \in DOMAIN quotas THEN quotas[q].count ELSE 0

\* Mutant: the daily counter is not compared with its limit.
DayAlwaysOpen(d) == FALSE

DayFull(d) == ~outbox[d].quota /\ CountOf(DayCounter(d)) >= site.daily
MinuteFull(d) == ~outbox[d].quota /\ CountOf(MinuteCounter(d)) >= MinuteLimit

Revoked == {d \in Ready : ~Consents(d)}
\* Mutant: one attempt too many.
SpentLate == {d \in Ready \ Revoked : outbox[d].attempts > MaxAttempts}

Spent == {d \in Ready \ Revoked : outbox[d].attempts >= MaxAttempts}
Limited == {d \in Ready \ (Revoked \cup Spent) : DayFull(d) \/ MinuteFull(d)}
Sendable == Ready \ (Revoked \cup Spent \cup Limited)

\* What the loop does with a delivery it does not hand out.
Closed(d) ==
    LET row == [outbox[d] EXCEPT !.updated = now]
    IN CASE d \in Revoked -> [row EXCEPT !.state = "cancelled"]
         [] d \in Spent -> [row EXCEPT !.state = "failed"]
         [] d \in Limited ->
              [row EXCEPT !.state = "rate_limited",
                          !.retryAt = IF DayFull(d) THEN (DayOf(now) + 1) * DayLength
                                      ELSE (MinuteOf(now) + 1) * MinuteLength]

Lease(d) ==
    [outbox[d] EXCEPT !.state = "sending", !.fence = @ + 1, !.attempts = @ + 1,
                      !.quota = TRUE, !.leaseUntil = now + LeaseDuration,
                      !.retryAt = 0, !.updated = now]

\* reserveQuota: both counters, once in the life of a delivery.
Reserve(picked) ==
    LET spent == UNION {{DayCounter(d), MinuteCounter(d)} :
                          d \in {p \in picked : ~outbox[p].quota}}
    IN quotas' = [q \in DOMAIN quotas \cup spent |->
                    IF q \in spent THEN [count |-> CountOf(q) + 1, updated |-> now]
                    ELSE quotas[q]]

\* The loop goes through the ready deliveries by CreatedAt (ties in any order)
\* up to the first it can hand out: `picked` holds it, `passed` those before it.
Hand(s, picked, passed) ==
    /\ outbox' = [d \in DOMAIN outbox |->
                    IF d \in picked THEN Lease(d)
                    ELSE IF d \in passed THEN Closed(d) ELSE outbox[d]]
    /\ Reserve(picked)
    /\ claims' = claims \cup {[id |-> d, fence |-> Lease(d).fence, sender |-> s,
                               result |-> "none"] : d \in picked}
    /\ reserved' = reserved \cup {[id |-> d, at |-> now] : d \in {p \in picked : ~outbox[p].quota}}

ClaimNotifications(s) ==
    LET refused == Ready \ Sendable
    IN /\ \/ Sendable = {} /\ refused # {} /\ Hand(s, {}, refused)
          \/ \E d \in Sendable, passed \in SUBSET refused :
                /\ \A e \in Sendable : outbox[d].created =< outbox[e].created
                /\ \A e \in refused : outbox[e].created < outbox[d].created => e \in passed
                /\ \A e \in passed : outbox[e].created =< outbox[d].created
                /\ Hand(s, {d}, passed)
       /\ UNCHANGED <<site, now, subs, audience, paid, raised>>
-----------------------------------------------------------------------------
(* The provider and FinishNotification *)

\* The provider takes the message and the sender learns it ("accepted"), or does
\* not take it ("refused"), or takes it and the sender reports a failure all the
\* same ("unsure": the answer to DATA or to the HTTP request is lost, or comes
\* after the ten seconds).
Send(g) ==
    /\ g.result = "none"
    /\ \E result \in {"accepted", "refused", "unsure"} :
          claims' = (claims \ {g}) \cup {[g EXCEPT !.result = result]}
    /\ UNCHANGED <<site, now, subs, audience, paid, outbox, quotas, raised, reserved>>

\* Mutant: an acknowledgement is taken whatever its fence is.
HoldsAnyFence(g) ==
    /\ g.id \in DOMAIN outbox
    /\ outbox[g.id].state = "sending" /\ outbox[g.id].leaseUntil > now

Holds(g) ==
    /\ g.id \in DOMAIN outbox
    /\ outbox[g.id].fence = g.fence
    /\ outbox[g.id].state = "sending" /\ outbox[g.id].leaseUntil > now

\* Everything the sender does not know to be accepted is a failure to be retried.
FinishNotification(g) ==
    LET row == [outbox[g.id] EXCEPT !.updated = now]
    IN /\ g.result # "none"
       /\ Holds(g)
       /\ outbox' = [outbox EXCEPT ![g.id] =
                       IF g.result = "accepted" THEN [row EXCEPT !.state = "delivered"]
                       ELSE [row EXCEPT !.state = IF row.attempts >= MaxAttempts
                                                  THEN "failed" ELSE "retry",
                                        !.retryAt = now + Backoff[row.attempts]]]
       /\ UNCHANGED <<site, now, subs, audience, paid, quotas, raised, claims, reserved>>
-----------------------------------------------------------------------------
(* Retention and time *)

OldCounters == {q \in DOMAIN quotas : quotas[q].updated + QuotaRetention =< now}

\* Mutant: only delivered rows are history.
PruneDelivered ==
    LET done == {d \in DOMAIN outbox : outbox[d].state = "delivered"}
    IN /\ \E k \in {x \in SUBSET done : Cardinality(x) = 1 \/ x = done} :
             outbox' = [d \in (DOMAIN outbox \ done) \cup k |-> outbox[d]]
       /\ UNCHANGED <<site, now, subs, audience, paid, quotas, raised, claims, reserved>>

\* prune, at the end of Reconcile: the newest HistoryLimit terminal deliveries
\* stay, and every one that is not terminal.
Prune ==
    LET terminal == {d \in DOMAIN outbox : outbox[d].state \in Terminal}
        survivors == IF Cardinality(terminal) =< HistoryLimit THEN {terminal}
                     ELSE {k \in SUBSET terminal :
                             /\ Cardinality(k) = HistoryLimit
                             /\ \A d \in k, e \in terminal \ k :
                                   outbox[d].updated >= outbox[e].updated}
    IN /\ \E k \in survivors :
             outbox' = [d \in (DOMAIN outbox \ terminal) \cup k |-> outbox[d]]
       /\ quotas' = [q \in DOMAIN quotas \ OldCounters |-> quotas[q]]
       /\ UNCHANGED <<site, now, subs, audience, paid, raised, claims, reserved>>

\* A prompt coordinator looks at every instant, and acknowledges in time.
Tick ==
    /\ now < site.until
    /\ site.prompt => Ready = {} /\ \A g \in claims : Holds(g) => outbox[g.id].leaseUntil > now + 1
    /\ now' = now + 1
    /\ UNCHANGED <<site, subs, audience, paid, outbox, quotas, raised, claims, reserved>>

Work == \/ \E s \in site.senders : ClaimNotifications(s)
        \/ \E g \in claims : Send(g)
        \/ \E g \in claims : FinishNotification(g)

Next ==
    \/ \E u \in Users, cs \in SUBSET site.channels, a \in site.addresses : Subscribe(u, cs, a)
    \/ \E us \in SUBSET Users : ChangeAudience(us)
    \/ \E us \in SUBSET Users : ChangePaid(us)
    \/ \E d \in DOMAIN outbox : RetryNotification(d)
    \/ \E e \in site.events, us \in SUBSET Users : Notify(e, us)
    \/ Work
    \/ Prune
    \/ Tick

Spec == Init /\ [][Next]_vars
\* A prompt coordinator goes on working and ticking, and so does time.
FairSpec == /\ Spec
            /\ WF_vars(site.prompt /\ Work)
            /\ WF_vars(site.prompt /\ Prune)
            /\ WF_vars(site.prompt /\ Tick)
-----------------------------------------------------------------------------
(* Properties *)

\* A row says "delivered" only when the provider accepted the message under the
\* very claim the row was last leased with.
DeliveredWasAccepted ==
    \A d \in DOMAIN outbox :
        outbox[d].state = "delivered" /\ d.channel # "in_app" =>
            \E g \in claims : g.id = d /\ g.fence = outbox[d].fence /\ g.result = "accepted"

ClaimsOf(d) == Cardinality({g \in claims : g.id = d})

\* At most MaxAttempts messages go out for a delivery, and as many again for
\* each manual retry; claims and manual retries are what moves the fence.
SendBudget ==
    \A d \in DOMAIN outbox :
        ClaimsOf(d) =< MaxAttempts * (1 + outbox[d].fence - ClaimsOf(d))

\* A delivery reserves quota once, and in no day or minute are there more
\* reservations for a user and a channel than its limit, whatever is retried,
\* pruned or claimed by another coordinator.
QuotaKept ==
    /\ \A x, y \in reserved : x.id = y.id => x = y
    /\ \A x \in reserved :
          LET same == {y \in reserved : y.id.user = x.id.user /\ y.id.channel = x.id.channel}
          IN /\ Cardinality({y \in same : DayOf(y.at) = DayOf(x.at)}) =< site.daily
             /\ Cardinality({y \in same : MinuteOf(y.at) = MinuteOf(x.at)}) =< MinuteLimit

\* A delivery cancelled because consent was withdrawn, or already delivered, is
\* never taken up again, also when the user subscribes again later.
SettledForGood ==
    [][\A d \in DOMAIN outbox \cap DOMAIN outbox' :
          outbox[d].state \in {"delivered", "cancelled"} => outbox'[d] = outbox[d]]_vars

\* However long a delivery was queued, it is handed out only to the address its
\* user subscribes with now, for a Watch that user still sees: a subscription
\* changed in between revokes it, and never redirects it.
HandedOutWithConsent ==
    [][\A d \in DOMAIN outbox \cap DOMAIN outbox' :
          outbox'[d].attempts > outbox[d].attempts =>
              /\ d.user \in audience /\ d.channel \in subs[d.user].channels
              /\ outbox'[d].address = subs[d.user].address]_vars

\* When acknowledgements reach the store in time, a message the sender knows to
\* be accepted is not handed out again: what the provider gets twice follows an
\* acceptance the sender could not learn of, and nothing else.
KnownAcceptanceIsFinal ==
    site.prompt =>
        \A g, h \in claims :
            g.id = h.id /\ g.result = "accepted" => h.fence =< g.fence

\* A backlog that refuses new notifications is worked off: terminal rows count
\* until they are pruned, so this takes both the deliveries and the coordinator's
\* ticks, and a HistoryLimit that leaves room for one round of notifications.
BacklogDrains ==
    HistoryLimit + 4 * Cardinality(Users) =< Capacity =>
        ((site.prompt /\ ~HasRoom /\ now + Horizon =< site.until) ~> HasRoom)

Queued(e) ==
    \E d \in DOMAIN outbox : d.event = e /\ outbox[d].state \notin Terminal

\* The queued deliveries of an event are eventually delivered, cancelled or
\* failed: a used-up quota or a refusal only delays them.  The last Horizon
\* instants before the bound of the clock are too few to tell.
EventuallySettled ==
    \A e \in Events :
        (site.prompt /\ Queued(e) /\ now + Horizon =< site.until) ~> ~Queued(e)
=============================================================================
