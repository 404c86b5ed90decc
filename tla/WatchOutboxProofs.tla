-------------------------- MODULE WatchOutboxProofs --------------------------
(* What holds of WatchOutbox for every deployment, every set of users and   *)
(* events, and every lease, retry, quota and retention limit.               *)
EXTENDS WatchOutbox, FiniteSetTheorems, TLAPS

RowStates == {"pending", "sending", "retry", "rate_limited"} \cup Terminal
RowType == [state : RowStates, fence : Nat, attempts : 0 .. MaxAttempts, leaseUntil : Nat,
            retryAt : Nat, quota : BOOLEAN, address : Addresses, created : Nat,
            updated : Nat]
ClaimType == [id : DeliveryId, fence : Nat, sender : Senders,
              result : {"none", "accepted", "refused", "unsure"}]
ReservationType == [id : DeliveryId, at : Nat]
CounterId == Users \X Channels \X {"day", "minute"} \X Nat

\* The stored rows and counters have the shapes model.go declares.
TypeOK ==
    /\ site \in Sites
    /\ now \in Nat
    /\ subs \in [Users -> [channels : SUBSET Channels, address : Addresses]]
    /\ audience \subseteq Users /\ paid \subseteq Users
    /\ DOMAIN outbox \subseteq DeliveryId
    /\ \A d \in DOMAIN outbox : outbox[d] \in RowType
    /\ DOMAIN quotas \subseteq CounterId
    /\ \A q \in DOMAIN quotas : quotas[q] \in [count : Nat, updated : Nat]
    /\ raised \subseteq Events
    /\ claims \subseteq ClaimType
    /\ reserved \subseteq ReservationType

\* Deliveries, claims and reservations exist for notified events only, so that a
\* delivery that was pruned is never made again.
KnownEvents ==
    /\ \A d \in DOMAIN outbox : d.event \in raised
    /\ \A g \in claims : g.id.event \in raised
    /\ \A x \in reserved : x.id.event \in raised

\* Every fence handed out is one the row has reached, and was handed out once.
FencesIssued ==
    \A g \in claims :
        /\ g.id \in DOMAIN outbox => g.fence =< outbox[g.id].fence
        /\ \A h \in claims : g.id = h.id /\ g.fence = h.fence => g = h

\* The row that is being sent was claimed under its present fence.
SendingIsClaimed ==
    \A d \in DOMAIN outbox : outbox[d].state = "sending" =>
        \E g \in claims : g.id = d /\ g.fence = outbox[d].fence

OutboxInv == TypeOK /\ KnownEvents /\ FencesIssued /\ SendingIsClaimed
-----------------------------------------------------------------------------
(* Rows: what each operation writes into a delivery *)

LEMMA SiteFacts ==
    ASSUME TypeOK
    PROVE  /\ site.channels \subseteq Channels /\ site.senders \subseteq Senders
           /\ site.addresses \subseteq Addresses /\ site.events \subseteq Events
           /\ site.daily \in Nat \ {0} /\ site.prompt \in BOOLEAN
  BY OutboxAssumption DEF TypeOK, SiteType

LEMMA PeriodType ==
    ASSUME NEW t \in Nat
    PROVE  DayOf(t) \in Nat /\ MinuteOf(t) \in Nat
  BY OutboxAssumption DEF DayOf, MinuteOf

LEMMA RowFields ==
    ASSUME TypeOK, NEW d \in DOMAIN outbox
    PROVE  /\ d \in DeliveryId /\ d.user \in Users /\ d.channel \in Channels /\ d.event \in Events
           /\ outbox[d] \in RowType
           /\ outbox[d].fence \in Nat /\ outbox[d].attempts \in 0 .. MaxAttempts
           /\ outbox[d].leaseUntil \in Nat /\ outbox[d].quota \in BOOLEAN
           /\ outbox[d].address \in Addresses
  BY DEF TypeOK, DeliveryId, RowType

\* A new row, for the present subscription of its user.
LEMMA NewDeliveryType ==
    ASSUME TypeOK, NEW d \in DeliveryId
    PROVE  /\ NewDelivery(d) \in RowType
           /\ NewDelivery(d).fence = 0 /\ NewDelivery(d).attempts = 0
           /\ NewDelivery(d).quota = FALSE
           /\ NewDelivery(d).state = IF d.channel = "in_app" THEN "delivered" ELSE "pending"
  <1>1. subs[d.user].address \in Addresses /\ now \in Nat
    BY DEF TypeOK, DeliveryId
  <1>2. 0 \in 0 .. MaxAttempts
    BY OutboxAssumption
  <1> QED BY <1>1, <1>2 DEF NewDelivery, RowType, RowStates, Terminal

\* A row that is handed out is in the outbox and has an attempt left.
LEMMA SendableRow ==
    ASSUME TypeOK, NEW d \in Sendable
    PROVE  d \in DOMAIN outbox /\ d \in Ready /\ Consents(d) /\ outbox[d].attempts < MaxAttempts
  <1>1. /\ d \in DOMAIN outbox /\ d \in Ready /\ Consents(d)
        /\ ~(outbox[d].attempts >= MaxAttempts)
    BY DEF Sendable, Spent, Revoked, Ready
  <1> QED BY <1>1, RowFields, OutboxAssumption

\* A leased row is sent under the next fence; its address stays.
LEMMA LeaseEffect ==
    ASSUME TypeOK, NEW d \in Sendable
    PROVE  /\ Lease(d) \in RowType
           /\ Lease(d).state = "sending" /\ Lease(d).fence = outbox[d].fence + 1
           /\ Lease(d).attempts = outbox[d].attempts + 1 /\ Lease(d).quota = TRUE
           /\ Lease(d).leaseUntil = now + LeaseDuration /\ Lease(d).leaseUntil > now
           /\ Lease(d).address = outbox[d].address
  <1> DEFINE old == outbox[d]
  <1>1. old \in RowType /\ now \in Nat /\ old.attempts < MaxAttempts
    BY SendableRow DEF TypeOK
  <1>2. /\ old.fence + 1 \in Nat /\ old.attempts + 1 \in 0 .. MaxAttempts
        /\ now + LeaseDuration \in Nat /\ now + LeaseDuration > now
        /\ "sending" \in RowStates /\ 0 \in Nat /\ TRUE \in BOOLEAN
    <2>1. old.fence \in Nat /\ old.attempts \in 0 .. MaxAttempts
      BY <1>1 DEF RowType
    <2>2. MaxAttempts \in Nat /\ LeaseDuration \in Nat \ {0} /\ "sending" \in RowStates
      BY OutboxAssumption DEF RowStates
    <2> HIDE DEF old
    <2> QED BY <1>1, <2>1, <2>2
  <1>3. Lease(d) = [old EXCEPT !.state = "sending", !.fence = old.fence + 1,
                               !.attempts = old.attempts + 1, !.quota = TRUE,
                               !.leaseUntil = now + LeaseDuration,
                               !.retryAt = 0, !.updated = now]
    BY DEF Lease
  <1> HIDE DEF old
  <1>4. Lease(d) \in RowType
    BY Zenon, <1>1, <1>2, <1>3 DEF RowType
  <1>5. /\ Lease(d).state = "sending" /\ Lease(d).fence = old.fence + 1
        /\ Lease(d).attempts = old.attempts + 1 /\ Lease(d).quota = TRUE
        /\ Lease(d).leaseUntil = now + LeaseDuration /\ Lease(d).address = old.address
    BY <1>1, <1>3 DEF RowType
  <1> QED BY <1>2, <1>4, <1>5 DEF old

\* A row keeps what identifies its claims, its reservation and its recipient.
Keeps(new, old) ==
    /\ new.fence = old.fence /\ new.attempts = old.attempts
    /\ new.quota = old.quota /\ new.address = old.address

\* A row the loop does not hand out is cancelled, failed or put off.
LEMMA ClosedEffect ==
    ASSUME TypeOK, NEW d \in Ready \ Sendable
    PROVE  /\ Closed(d) \in RowType /\ Keeps(Closed(d), outbox[d])
           /\ Closed(d).state \in {"cancelled", "failed", "rate_limited"}
  <1>0. d \in DOMAIN outbox /\ outbox[d] \in RowType /\ now \in Nat
    BY DEF TypeOK, Ready
  <1> DEFINE row == [outbox[d] EXCEPT !.updated = now]
             until == IF DayFull(d) THEN (DayOf(now) + 1) * DayLength
                      ELSE (MinuteOf(now) + 1) * MinuteLength
  <1>1. row \in RowType /\ Keeps(row, outbox[d])
    BY <1>0 DEF RowType, Keeps
  <1>2. until \in Nat
    <2>1. DayOf(now) \in Nat /\ MinuteOf(now) \in Nat /\ DayLength \in Nat /\ MinuteLength \in Nat
      BY <1>0, PeriodType, OutboxAssumption
    <2>2. (DayOf(now) + 1) * DayLength \in Nat /\ (MinuteOf(now) + 1) * MinuteLength \in Nat
      BY <2>1
    <2> QED BY <2>2
  <1>3. /\ d \in Revoked => d \notin Spent /\ d \notin Limited
        /\ d \in Spent => d \notin Limited
        /\ d \in Revoked \/ d \in Spent \/ d \in Limited
    BY DEF Spent, Limited, Sendable
  <1> HIDE DEF until
  <1>4. \/ Closed(d) = [row EXCEPT !.state = "cancelled"]
        \/ Closed(d) = [row EXCEPT !.state = "failed"]
        \/ Closed(d) = [row EXCEPT !.state = "rate_limited", !.retryAt = until]
    BY Zenon, <1>3 DEF Closed, until
  <1>5. {"cancelled", "failed", "rate_limited"} \subseteq RowStates
    BY DEF RowStates, Terminal
  <1> HIDE DEF row
  <1>6. Closed(d) \in RowType
    BY Zenon, <1>1, <1>2, <1>4, <1>5 DEF RowType
  <1>7. Keeps(Closed(d), row) /\ Closed(d).state \in {"cancelled", "failed", "rate_limited"}
    BY <1>1, <1>4 DEF RowType, Keeps
  <1> QED BY <1>1, <1>6, <1>7 DEF Keeps

\* ClaimNotifications is one pass of the loop.
LEMMA ClaimHands ==
    ASSUME NEW s, ClaimNotifications(s)
    PROVE  \E picked, passed :
              /\ picked \subseteq Sendable /\ passed \subseteq Ready \ Sendable
              /\ Hand(s, picked, passed)
              /\ \A d, e \in picked : d = e
  <1> DEFINE refused == Ready \ Sendable
  <1>1. CASE Hand(s, {}, refused)
    BY <1>1
  <1>2. CASE \E d \in Sendable, passed \in SUBSET refused : Hand(s, {d}, passed)
    <2>1. PICK d \in Sendable, passed \in SUBSET refused : Hand(s, {d}, passed)
      BY <1>2
    <2>2. {d} \subseteq Sendable /\ passed \subseteq refused /\ \A a, b \in {d} : a = b
      BY <2>1
    <2> QED BY <2>1, <2>2
  <1> QED BY <1>1, <1>2 DEF ClaimNotifications

\* What one pass makes of a row: leased, closed, or left alone.
LEMMA HandRows ==
    ASSUME TypeOK, NEW s, NEW picked, NEW passed,
           picked \subseteq Sendable, passed \subseteq Ready \ Sendable, Hand(s, picked, passed)
    PROVE  /\ DOMAIN outbox' = DOMAIN outbox /\ picked \subseteq DOMAIN outbox
           /\ \A d \in DOMAIN outbox :
                 \/ d \in picked /\ outbox'[d] = Lease(d)
                 \/ /\ d \notin picked /\ d \in Ready /\ outbox'[d] \in RowType
                    /\ Keeps(outbox'[d], outbox[d])
                    /\ outbox'[d].state \in {"cancelled", "failed", "rate_limited"}
                 \/ d \notin picked /\ outbox'[d] = outbox[d]
           /\ claims' = claims \cup {[id |-> d, fence |-> outbox[d].fence + 1, sender |-> s,
                                      result |-> "none"] : d \in picked}
  <1>1. DOMAIN outbox' = DOMAIN outbox /\ picked \subseteq DOMAIN outbox
    BY DEF Hand, Sendable, Ready
  <1>2. ASSUME NEW d \in DOMAIN outbox
        PROVE  \/ d \in picked /\ outbox'[d] = Lease(d)
               \/ /\ d \notin picked /\ d \in Ready /\ outbox'[d] \in RowType
                  /\ Keeps(outbox'[d], outbox[d])
                  /\ outbox'[d].state \in {"cancelled", "failed", "rate_limited"}
               \/ d \notin picked /\ outbox'[d] = outbox[d]
    <2>1. CASE d \in picked
      BY <2>1 DEF Hand
    <2>2. CASE d \notin picked /\ d \in passed
      <3>1. outbox'[d] = Closed(d) /\ d \in Ready \ Sendable
        BY <2>2 DEF Hand
      <3> QED BY <2>2, <3>1, ClosedEffect
    <2>3. CASE d \notin picked /\ d \notin passed
      BY <2>3 DEF Hand
    <2> QED BY <2>1, <2>2, <2>3
  <1>3. \A d \in picked : Lease(d).fence = outbox[d].fence + 1
    BY LeaseEffect
  <1>4. claims' = claims \cup {[id |-> d, fence |-> outbox[d].fence + 1, sender |-> s,
                                result |-> "none"] : d \in picked}
    BY <1>3 DEF Hand
  <1> QED BY <1>1, <1>2, <1>4

\* An acknowledgement settles the row it holds, or leaves it for a retry.
LEMMA FinishEffect ==
    ASSUME TypeOK, NEW g \in claims, FinishNotification(g)
    PROVE  /\ DOMAIN outbox' = DOMAIN outbox /\ g.id \in DOMAIN outbox
           /\ \A d \in DOMAIN outbox : d # g.id => outbox'[d] = outbox[d]
           /\ outbox'[g.id] \in RowType /\ Keeps(outbox'[g.id], outbox[g.id])
           /\ g.fence = outbox[g.id].fence /\ outbox[g.id].state = "sending"
           /\ \/ g.result = "accepted" /\ outbox'[g.id].state = "delivered"
              \/ g.result \in {"refused", "unsure"} /\ outbox'[g.id].state \in {"failed", "retry"}
  <1> DEFINE old == outbox[g.id]
             row == [old EXCEPT !.updated = now]
             state == IF row.attempts >= MaxAttempts THEN "failed" ELSE "retry"
             until == now + Backoff[row.attempts]
  <1>0. /\ g.id \in DOMAIN outbox /\ old.state = "sending" /\ g.fence = old.fence
        /\ g.result # "none"
    BY DEF FinishNotification, Holds
  <1>1. old \in RowType /\ now \in Nat /\ g.result \in {"none", "accepted", "refused", "unsure"}
    BY <1>0 DEF TypeOK, ClaimType
  <1>2. DOMAIN outbox' = DOMAIN outbox /\ \A d \in DOMAIN outbox : d # g.id => outbox'[d] = outbox[d]
    BY DEF FinishNotification
  <1>3. outbox'[g.id] = IF g.result = "accepted" THEN [row EXCEPT !.state = "delivered"]
                        ELSE [row EXCEPT !.state = state, !.retryAt = until]
    BY <1>0 DEF FinishNotification
  <1>4. row \in RowType /\ Keeps(row, old)
    <2> HIDE DEF old
    <2> QED BY <1>1 DEF RowType, Keeps
  <1>5. state \in {"failed", "retry"} /\ {"failed", "retry", "delivered"} \subseteq RowStates
    BY DEF RowStates, Terminal
  <1> HIDE DEF state, until, row
  <1>6. until \in Nat
    <2>1. row.attempts \in 0 .. MaxAttempts
      BY <1>4 DEF RowType
    <2>2. Backoff[row.attempts] \in Nat
      BY <2>1, OutboxAssumption
    <2> QED BY <1>1, <2>2 DEF until
  <1>7. CASE g.result = "accepted"
    <2>1. outbox'[g.id] = [row EXCEPT !.state = "delivered"]
      BY <1>3, <1>7
    <2>2. outbox'[g.id] \in RowType /\ outbox'[g.id].state = "delivered" /\ Keeps(outbox'[g.id], row)
      BY <1>4, <1>5, <2>1 DEF RowType, Keeps
    <2> QED BY <1>0, <1>2, <1>4, <1>7, <2>2 DEF Keeps
  <1>8. CASE g.result \in {"refused", "unsure"}
    <2>1. outbox'[g.id] = [row EXCEPT !.state = state, !.retryAt = until]
      BY <1>3, <1>8
    <2>2. outbox'[g.id].state = state /\ Keeps(outbox'[g.id], row)
      BY <1>4, <2>1 DEF RowType, Keeps
    <2>3. outbox'[g.id] \in RowType
      BY Zenon, <1>4, <1>5, <1>6, <2>1 DEF RowType
    <2> QED BY <1>0, <1>2, <1>4, <1>5, <1>8, <2>2, <2>3 DEF Keeps
  <1> QED BY <1>0, <1>1, <1>7, <1>8
-----------------------------------------------------------------------------
(* Steps: what a step may do to a row and to the claims *)

\* A manual retry of a failed delivery.
Retried(d) ==
    /\ outbox[d].state = "failed" /\ outbox'[d].state = "pending"
    /\ outbox'[d].fence = outbox[d].fence + 1 /\ outbox'[d].attempts = 0
    /\ outbox'[d].quota = outbox[d].quota /\ outbox'[d].address = outbox[d].address
    /\ outbox'[d] \in RowType
    /\ claims' = claims

NewClaim(d, s) == [id |-> d, fence |-> outbox[d].fence + 1, sender |-> s, result |-> "none"]

Handed(d) ==
    /\ d \in Sendable /\ outbox'[d] = Lease(d)
    /\ \E s \in Senders : claims' = claims \cup {NewClaim(d, s)}

PutOff(d) ==
    /\ d \in Ready /\ outbox'[d] \in RowType /\ Keeps(outbox'[d], outbox[d])
    /\ outbox'[d].state \in {"cancelled", "failed", "rate_limited"}

Settled(d) ==
    /\ outbox[d].state = "sending" /\ outbox'[d] \in RowType /\ Keeps(outbox'[d], outbox[d])
    /\ \E g \in claims :
          /\ g.id = d /\ g.fence = outbox[d].fence
          /\ \/ g.result = "accepted" /\ outbox'[d].state = "delivered"
             \/ g.result \in {"refused", "unsure"} /\ outbox'[d].state \in {"failed", "retry"}
    /\ claims' = claims

RowMoves(d) ==
    \/ outbox'[d] = outbox[d]
    \/ Retried(d) \/ Handed(d) \/ PutOff(d) \/ Settled(d)

Created(d) ==
    /\ d \in DeliveryId /\ d.event \in raised' \ raised
    /\ outbox'[d] = NewDelivery(d) /\ claims' = claims

ClaimsMove ==
    \/ claims' = claims
    \/ \E g \in claims : Send(g)
    \/ \E d \in Sendable : Handed(d)

StepMoves ==
    /\ \A d \in DOMAIN outbox' : \/ d \notin DOMAIN outbox /\ Created(d)
                                 \/ d \in DOMAIN outbox /\ RowMoves(d)
    /\ \A d \in DOMAIN outbox : outbox[d].state \notin Terminal => d \in DOMAIN outbox'
    /\ ClaimsMove
    /\ site' = site /\ raised \subseteq raised'

LEMMA RetryMoves ==
    ASSUME TypeOK, NEW d \in DOMAIN outbox, RetryNotification(d)
    PROVE  StepMoves
  <1> DEFINE old == outbox[d]
             row == [old EXCEPT !.state = "pending", !.attempts = 0, !.retryAt = 0,
                                !.fence = old.fence + 1, !.updated = now]
  <1>0. old \in RowType /\ now \in Nat /\ old.state = "failed"
    BY DEF TypeOK, RetryNotification
  <1>1. outbox' = [outbox EXCEPT ![d] = row]
    BY DEF RetryNotification
  <1>2. /\ 0 \in 0 .. MaxAttempts /\ 0 \in Nat /\ old.fence + 1 \in Nat
        /\ "pending" \in RowStates
    BY <1>0, OutboxAssumption DEF RowType, RowStates
  <1>3. row \in RowType
    <2> HIDE DEF old
    <2> QED BY Zenon, <1>0, <1>2 DEF RowType
  <1>4. /\ row.state = "pending" /\ row.fence = old.fence + 1 /\ row.attempts = 0
        /\ row.quota = old.quota /\ row.address = old.address
    <2> HIDE DEF old
    <2> QED BY <1>0 DEF RowType
  <1> HIDE DEF row
  <1>5. /\ DOMAIN outbox' = DOMAIN outbox /\ outbox'[d] = row
        /\ \A e \in DOMAIN outbox : e # d => outbox'[e] = outbox[e]
    BY <1>1
  <1>6. claims' = claims /\ site' = site /\ raised' = raised
    BY DEF RetryNotification
  <1>7. Retried(d)
    BY <1>0, <1>3, <1>4, <1>5, <1>6 DEF Retried
  <1>8. \A e \in DOMAIN outbox' : e \in DOMAIN outbox /\ RowMoves(e)
    BY <1>5, <1>7 DEF RowMoves
  <1> QED BY <1>5, <1>6, <1>8 DEF StepMoves, ClaimsMove

LEMMA NotifyMoves ==
    ASSUME TypeOK, KnownEvents, NEW e \in site.events, NEW us \in SUBSET Users, Notify(e, us)
    PROVE  StepMoves
  <1> DEFINE fresh == {d \in DeliveryId : /\ d.event = e
                                          /\ d.user \in us \cap audience
                                          /\ d.channel \in subs[d.user].channels}
  <1>1. e \notin raised /\ raised' = raised \cup {e} /\ claims' = claims /\ site' = site
    BY DEF Notify
  <1>2. outbox' = [d \in DOMAIN outbox \cup fresh |->
                     IF d \in fresh THEN NewDelivery(d) ELSE outbox[d]]
    BY DEF Notify
  <1>3. \A d \in fresh : d \in DeliveryId /\ d.event = e
    OBVIOUS
  <1> HIDE DEF fresh
  <1>4. \A d \in DOMAIN outbox : d \notin fresh
    BY <1>1, <1>3 DEF KnownEvents
  <1>5. \A d \in DOMAIN outbox' : \/ d \in fresh /\ outbox'[d] = NewDelivery(d)
                                  \/ d \in DOMAIN outbox /\ outbox'[d] = outbox[d]
    BY <1>2
  <1>6. \A d \in fresh : d \notin DOMAIN outbox /\ (outbox'[d] = NewDelivery(d) => Created(d))
    BY <1>1, <1>3, <1>4 DEF Created
  <1>7. DOMAIN outbox \subseteq DOMAIN outbox'
    BY <1>2
  <1> QED BY <1>1, <1>5, <1>6, <1>7 DEF StepMoves, RowMoves, ClaimsMove

LEMMA ClaimMoves ==
    ASSUME TypeOK, NEW s \in site.senders, ClaimNotifications(s)
    PROVE  StepMoves
  <1>1. PICK picked, passed :
              /\ picked \subseteq Sendable /\ passed \subseteq Ready \ Sendable
              /\ Hand(s, picked, passed)
              /\ \A d, e \in picked : d = e
    BY ClaimHands
  <1>2. site' = site /\ raised' = raised /\ s \in Senders
    BY SiteFacts DEF ClaimNotifications
  <1>3. DOMAIN outbox' = DOMAIN outbox /\ picked \subseteq DOMAIN outbox
    BY <1>1, HandRows
  <1>4. claims' = claims \cup {NewClaim(d, s) : d \in picked}
    BY <1>1, HandRows DEF NewClaim
  <1>5. ASSUME NEW d \in DOMAIN outbox PROVE RowMoves(d) /\ (d \in picked => Handed(d))
    <2>1. \/ d \in picked /\ outbox'[d] = Lease(d)
          \/ /\ d \notin picked /\ d \in Ready /\ outbox'[d] \in RowType
             /\ Keeps(outbox'[d], outbox[d])
             /\ outbox'[d].state \in {"cancelled", "failed", "rate_limited"}
          \/ d \notin picked /\ outbox'[d] = outbox[d]
      BY <1>1, HandRows
    <2>2. CASE d \in picked /\ outbox'[d] = Lease(d)
      <3>1. {NewClaim(e, s) : e \in picked} = {NewClaim(d, s)}
        BY <1>1, <2>2
      <3>2. claims' = claims \cup {NewClaim(d, s)}
        BY <1>4, <3>1
      <3> QED BY <1>1, <1>2, <2>2, <3>2 DEF Handed, RowMoves
    <2>3. CASE d \notin picked
      BY <2>1, <2>3 DEF RowMoves, PutOff
    <2> QED BY <2>1, <2>2, <2>3
  <1>6. ClaimsMove
    <2>1. CASE picked = {}
      <3>1. {NewClaim(d, s) : d \in picked} = {}
        BY <2>1
      <3> QED BY <1>4, <3>1 DEF ClaimsMove
    <2>2. CASE picked # {}
      <3>1. PICK d \in picked : TRUE
        BY <2>2
      <3> QED BY <1>1, <1>3, <1>5, <3>1 DEF ClaimsMove
    <2> QED BY <2>1, <2>2
  <1> QED BY <1>2, <1>3, <1>5, <1>6 DEF StepMoves

LEMMA PruneMoves ==
    ASSUME TypeOK, Prune
    PROVE  StepMoves
  <1> DEFINE terminal == {d \in DOMAIN outbox : outbox[d].state \in Terminal}
  <1>1. \E k \in SUBSET terminal :
           outbox' = [d \in (DOMAIN outbox \ terminal) \cup k |-> outbox[d]]
    <2>1. CASE Cardinality(terminal) =< HistoryLimit
      <3>1. outbox' = [d \in (DOMAIN outbox \ terminal) \cup terminal |-> outbox[d]]
        BY <2>1 DEF Prune
      <3> QED BY <3>1
    <2>2. CASE ~(Cardinality(terminal) =< HistoryLimit)
      BY <2>2 DEF Prune
    <2> QED BY <2>1, <2>2
  <1>2. /\ \A d \in DOMAIN outbox' : d \in DOMAIN outbox /\ outbox'[d] = outbox[d]
        /\ \A d \in DOMAIN outbox : outbox[d].state \notin Terminal => d \in DOMAIN outbox'
    BY <1>1
  <1>3. claims' = claims /\ site' = site /\ raised' = raised
    BY DEF Prune
  <1> QED BY <1>2, <1>3 DEF StepMoves, RowMoves, ClaimsMove

LEMMA EveryStepMoves ==
    ASSUME TypeOK, KnownEvents, [Next]_vars
    PROVE  StepMoves
  <1>1. CASE UNCHANGED <<site, outbox, claims, raised>>
    BY <1>1 DEF StepMoves, RowMoves, ClaimsMove
  <1>2. ASSUME NEW g \in claims, Send(g) PROVE StepMoves
    BY <1>2 DEF StepMoves, RowMoves, ClaimsMove, Send
  <1>3. ASSUME NEW g \in claims, FinishNotification(g) PROVE StepMoves
    <2>1. claims' = claims /\ site' = site /\ raised' = raised
      BY <1>3 DEF FinishNotification
    <2>2. /\ DOMAIN outbox' = DOMAIN outbox /\ g.id \in DOMAIN outbox
          /\ \A d \in DOMAIN outbox : d # g.id => outbox'[d] = outbox[d]
      BY <1>3, FinishEffect
    <2>3. Settled(g.id)
      BY <1>3, <2>1, FinishEffect DEF Settled
    <2> QED BY <2>1, <2>2, <2>3 DEF StepMoves, RowMoves, ClaimsMove
  <1>4. ASSUME NEW u \in Users, NEW cs \in SUBSET site.channels, NEW a \in site.addresses,
               Subscribe(u, cs, a)
        PROVE  UNCHANGED <<site, outbox, claims, raised>>
    BY <1>4 DEF Subscribe
  <1>5. ASSUME NEW us \in SUBSET Users, ChangeAudience(us) \/ ChangePaid(us)
        PROVE  UNCHANGED <<site, outbox, claims, raised>>
    BY <1>5 DEF ChangeAudience, ChangePaid
  <1>6. Tick \/ UNCHANGED vars => UNCHANGED <<site, outbox, claims, raised>>
    BY DEF Tick, vars
  <1> QED BY <1>1, <1>2, <1>3, <1>4, <1>5, <1>6, RetryMoves, NotifyMoves, ClaimMoves, PruneMoves
          DEF Next, Work
-----------------------------------------------------------------------------
(* Type correctness, fences and events *)

LEMMA ReadyOpen ==
    ASSUME NEW d \in Ready
    PROVE  d \in DOMAIN outbox /\ outbox[d].state \notin Terminal
  BY DEF Ready

LEMMA RowsTyped ==
    ASSUME TypeOK, StepMoves
    PROVE  DOMAIN outbox' \subseteq DeliveryId /\ \A d \in DOMAIN outbox' : outbox'[d] \in RowType
  <1> SUFFICES ASSUME NEW d \in DOMAIN outbox'
               PROVE  d \in DeliveryId /\ outbox'[d] \in RowType
    OBVIOUS
  <1>1. CASE d \notin DOMAIN outbox /\ Created(d)
    BY <1>1, NewDeliveryType DEF Created
  <1>2. CASE d \in DOMAIN outbox /\ RowMoves(d)
    BY <1>2, RowFields, LeaseEffect DEF RowMoves, Retried, Handed, PutOff, Settled
  <1> QED BY <1>1, <1>2 DEF StepMoves

\* An answer of the provider is written into the claim it belongs to.
LEMMA SendEffect ==
    ASSUME TypeOK, NEW g \in claims, Send(g)
    PROVE  \E h \in ClaimType :
              /\ h.id = g.id /\ h.fence = g.fence /\ h.result \in {"accepted", "refused", "unsure"}
              /\ g.result = "none" /\ claims' = (claims \ {g}) \cup {h}
              /\ outbox' = outbox
  <1>1. PICK result \in {"accepted", "refused", "unsure"} :
           claims' = (claims \ {g}) \cup {[g EXCEPT !.result = result]}
    BY DEF Send
  <1>2. g \in ClaimType
    BY DEF TypeOK
  <1> DEFINE h == [g EXCEPT !.result = result]
  <1>3. h \in ClaimType /\ h.id = g.id /\ h.fence = g.fence /\ h.result = result
    BY <1>2 DEF ClaimType
  <1>4. g.result = "none" /\ outbox' = outbox
    BY DEF Send
  <1> HIDE DEF h
  <1> QED BY <1>1, <1>3, <1>4 DEF h

LEMMA NewClaimType ==
    ASSUME TypeOK, NEW d \in Sendable, NEW s \in Senders
    PROVE  /\ NewClaim(d, s) \in ClaimType
           /\ NewClaim(d, s).id = d /\ NewClaim(d, s).fence = outbox[d].fence + 1
           /\ NewClaim(d, s).result = "none"
  <1>1. d \in DOMAIN outbox
    BY SendableRow
  <1>2. d \in DeliveryId /\ outbox[d].fence + 1 \in Nat
    BY <1>1, RowFields
  <1> QED BY <1>2 DEF NewClaim, ClaimType

LEMMA ClaimsTyped ==
    ASSUME TypeOK, ClaimsMove
    PROVE  claims' \subseteq ClaimType
  <1>0. claims \subseteq ClaimType
    BY DEF TypeOK
  <1>1. ASSUME NEW g \in claims, Send(g) PROVE claims' \subseteq ClaimType
    BY <1>0, <1>1, SendEffect
  <1>2. ASSUME NEW d \in Sendable, Handed(d) PROVE claims' \subseteq ClaimType
    BY <1>0, <1>2, NewClaimType DEF Handed
  <1> QED BY <1>0, <1>1, <1>2 DEF ClaimsMove

\* The counters of one pass of the loop.
LEMMA ReserveTyped ==
    ASSUME TypeOK, NEW picked, picked \subseteq Sendable, Reserve(picked)
    PROVE  /\ DOMAIN quotas' \subseteq CounterId
           /\ \A q \in DOMAIN quotas' : quotas'[q] \in [count : Nat, updated : Nat]
  <1> DEFINE spent == UNION {{DayCounter(d), MinuteCounter(d)} :
                               d \in {p \in picked : ~outbox[p].quota}}
  <1>0. now \in Nat /\ DayOf(now) \in Nat /\ MinuteOf(now) \in Nat
    <2>1. now \in Nat
      BY DEF TypeOK
    <2> QED BY <2>1, PeriodType
  <1>1. \A d \in picked : d.user \in Users /\ d.channel \in Channels
    BY SendableRow, RowFields
  <1>2. \A q \in spent : q \in CounterId
    <2>1. \A d \in picked : DayCounter(d) \in CounterId /\ MinuteCounter(d) \in CounterId
      BY <1>0, <1>1 DEF DayCounter, MinuteCounter, CounterId
    <2> QED BY <2>1
  <1>3. quotas' = [q \in DOMAIN quotas \cup spent |->
                    IF q \in spent THEN [count |-> CountOf(q) + 1, updated |-> now]
                    ELSE quotas[q]]
    BY DEF Reserve
  <1> HIDE DEF spent
  <1>4. \A q \in spent : CountOf(q) \in Nat
    BY DEF CountOf, TypeOK
  <1>5. \A q \in DOMAIN quotas' : \/ q \in spent /\ quotas'[q] = [count |-> CountOf(q) + 1, updated |-> now]
                                  \/ q \in DOMAIN quotas /\ quotas'[q] = quotas[q]
    BY <1>3
  <1> QED BY <1>0, <1>2, <1>4, <1>5 DEF TypeOK

\* The variables that no row move is about.
LEMMA OtherVariablesTyped ==
    ASSUME TypeOK, [Next]_vars
    PROVE  /\ now' \in Nat
           /\ subs' \in [Users -> [channels : SUBSET Channels, address : Addresses]]
           /\ audience' \subseteq Users /\ paid' \subseteq Users /\ raised' \subseteq Events
           /\ DOMAIN quotas' \subseteq CounterId
           /\ \A q \in DOMAIN quotas' : quotas'[q] \in [count : Nat, updated : Nat]
           /\ reserved' \subseteq ReservationType
  <1> DEFINE Typed == /\ now' \in Nat
                      /\ subs' \in [Users -> [channels : SUBSET Channels, address : Addresses]]
                      /\ audience' \subseteq Users /\ paid' \subseteq Users
                      /\ raised' \subseteq Events
                      /\ DOMAIN quotas' \subseteq CounterId
                      /\ \A q \in DOMAIN quotas' : quotas'[q] \in [count : Nat, updated : Nat]
                      /\ reserved' \subseteq ReservationType
  <1>1. ASSUME NEW u \in Users, NEW cs \in SUBSET site.channels, NEW a \in site.addresses,
               Subscribe(u, cs, a)
        PROVE  Typed
    <2>1. [channels |-> cs, address |-> a] \in [channels : SUBSET Channels, address : Addresses]
      BY SiteFacts
    <2>2. subs' = [subs EXCEPT ![u] = [channels |-> cs, address |-> a]]
      BY <1>1 DEF Subscribe
    <2>3. subs' \in [Users -> [channels : SUBSET Channels, address : Addresses]]
      BY <2>1, <2>2 DEF TypeOK
    <2>4. UNCHANGED <<now, audience, paid, quotas, raised, reserved>>
      BY <1>1 DEF Subscribe
    <2> QED BY <2>3, <2>4 DEF TypeOK
  <1>2. ASSUME NEW us \in SUBSET Users, ChangeAudience(us) \/ ChangePaid(us) PROVE Typed
    BY <1>2 DEF ChangeAudience, ChangePaid, TypeOK
  <1>3. ASSUME NEW d \in DOMAIN outbox, RetryNotification(d) PROVE Typed
    BY <1>3 DEF RetryNotification, TypeOK
  <1>4. ASSUME NEW e \in site.events, NEW us \in SUBSET Users, Notify(e, us) PROVE Typed
    <2>1. raised' \subseteq Events
      BY <1>4, SiteFacts DEF Notify, TypeOK
    <2>2. UNCHANGED <<now, subs, audience, paid, quotas, reserved>>
      BY <1>4 DEF Notify
    <2> QED BY <2>1, <2>2 DEF TypeOK
  <1>5. ASSUME NEW s \in site.senders, ClaimNotifications(s) PROVE Typed
    <2>1. PICK picked, passed :
              picked \subseteq Sendable /\ passed \subseteq Ready \ Sendable /\ Hand(s, picked, passed)
      BY <1>5, ClaimHands
    <2>2. Reserve(picked)
      BY <2>1 DEF Hand
    <2>3. reserved' \subseteq ReservationType
      <3>1. reserved' = reserved \cup {[id |-> d, at |-> now] : d \in {p \in picked : ~outbox[p].quota}}
        BY <2>1 DEF Hand
      <3>2. \A d \in picked : d \in DeliveryId
        BY <2>1, SendableRow, RowFields
      <3> QED BY <3>1, <3>2 DEF TypeOK, ReservationType
    <2>4. UNCHANGED <<now, subs, audience, paid, raised>>
      BY <1>5 DEF ClaimNotifications
    <2> QED BY <2>1, <2>2, <2>3, <2>4, ReserveTyped DEF TypeOK
  <1>6. ASSUME NEW g \in claims, Send(g) \/ FinishNotification(g) PROVE Typed
    BY <1>6 DEF Send, FinishNotification, TypeOK
  <1>7. ASSUME Prune PROVE Typed
    <2>1. UNCHANGED <<now, subs, audience, paid, raised, reserved>>
      BY <1>7 DEF Prune
    <2>2. quotas' = [q \in DOMAIN quotas \ OldCounters |-> quotas[q]]
      BY <1>7 DEF Prune
    <2> QED BY <2>1, <2>2 DEF TypeOK
  <1>8. ASSUME Tick PROVE Typed
    BY <1>8 DEF Tick, TypeOK
  <1>9. ASSUME UNCHANGED vars PROVE Typed
    BY <1>9 DEF vars, TypeOK
  <1> HIDE DEF Typed
  <1>10. Typed
    BY <1>1, <1>2, <1>3, <1>4, <1>5, <1>6, <1>7, <1>8, <1>9 DEF Next, Work
  <1> QED BY <1>10 DEF Typed

LEMMA TypeStep ==
    ASSUME TypeOK, KnownEvents, [Next]_vars
    PROVE  TypeOK'
  <1>1. StepMoves
    BY EveryStepMoves
  <1>2. site' \in Sites /\ claims' \subseteq ClaimType
    BY <1>1, ClaimsTyped DEF StepMoves, TypeOK
  <1> QED BY <1>1, <1>2, RowsTyped, OtherVariablesTyped DEF TypeOK

\* A reservation is made with the first lease of a delivery, on the two counters
\* of that instant; only the retention removes counters, and only Tick moves
\* the clock.
Reserved(d) ==
    LET spent == {DayCounter(d), MinuteCounter(d)}
    IN /\ d \in Sendable /\ ~outbox[d].quota /\ Handed(d)
       /\ reserved' = reserved \cup {[id |-> d, at |-> now]}
       /\ quotas' = [q \in DOMAIN quotas \cup spent |->
                       IF q \in spent THEN [count |-> CountOf(q) + 1, updated |-> now]
                       ELSE quotas[q]]
       /\ now' = now

CountersKept ==
    DOMAIN quotas' = DOMAIN quotas /\ \A q \in DOMAIN quotas : quotas'[q] = quotas[q]

LEMMA ReserveStep ==
    ASSUME TypeOK, [Next]_vars
    PROVE  \/ reserved' = reserved /\ CountersKept /\ now' = now
           \/ reserved' = reserved /\ CountersKept /\ now' = now + 1
           \/ /\ reserved' = reserved /\ now' = now
              /\ quotas' = [q \in DOMAIN quotas \ OldCounters |-> quotas[q]]
           \/ \E d \in Sendable : Reserved(d)
  <1> DEFINE Goal == \/ reserved' = reserved /\ CountersKept /\ now' = now
                     \/ reserved' = reserved /\ CountersKept /\ now' = now + 1
                     \/ /\ reserved' = reserved /\ now' = now
                        /\ quotas' = [q \in DOMAIN quotas \ OldCounters |-> quotas[q]]
                     \/ \E d \in Sendable : Reserved(d)
  <1>1. ASSUME NEW s \in site.senders, ClaimNotifications(s) PROVE Goal
    <2>1. PICK picked, passed :
              /\ picked \subseteq Sendable /\ passed \subseteq Ready \ Sendable
              /\ Hand(s, picked, passed)
              /\ \A d, e \in picked : d = e
      BY <1>1, ClaimHands
    <2> DEFINE first == {p \in picked : ~outbox[p].quota}
               spent == UNION {{DayCounter(d), MinuteCounter(d)} : d \in first}
    <2>2. /\ reserved' = reserved \cup {[id |-> d, at |-> now] : d \in first}
          /\ quotas' = [q \in DOMAIN quotas \cup spent |->
                          IF q \in spent THEN [count |-> CountOf(q) + 1, updated |-> now]
                          ELSE quotas[q]]
      BY <2>1 DEF Hand, Reserve
    <2>3. now' = now
      BY <1>1 DEF ClaimNotifications
    <2>4. CASE first = {}
      <3>1. spent = {} /\ {[id |-> d, at |-> now] : d \in first} = {}
        BY <2>4
      <3> HIDE DEF first, spent
      <3>2. CountersKept
        BY <2>2, <3>1 DEF CountersKept
      <3>3. reserved' = reserved
        BY <2>2, <3>1
      <3> QED BY <2>3, <3>2, <3>3
    <2>5. CASE first # {}
      <3>1. PICK d \in first : TRUE
        BY <2>5
      <3>2. d \in picked /\ d \in Sendable /\ ~outbox[d].quota
        BY <2>1
      <3>3. first = {d}
        BY <2>1, <3>1
      <3>4. spent = {DayCounter(d), MinuteCounter(d)}
        BY <3>3
      <3>5. {[id |-> e, at |-> now] : e \in first} = {[id |-> d, at |-> now]}
        BY <3>3
      <3>6. Handed(d)
        <4>1. outbox'[d] = Lease(d)
          BY <2>1, <3>2, HandRows, SendableRow
        <4>2. claims' = claims \cup {NewClaim(e, s) : e \in picked}
          BY <2>1, HandRows DEF NewClaim
        <4>3. {NewClaim(e, s) : e \in picked} = {NewClaim(d, s)}
          BY <2>1, <3>2
        <4> QED BY <3>2, <4>1, <4>2, <4>3, SiteFacts DEF Handed
      <3> HIDE DEF first, spent
      <3>7. Reserved(d)
        BY <2>2, <2>3, <3>2, <3>4, <3>5, <3>6 DEF Reserved
      <3> QED BY <3>2, <3>7
    <2> QED BY <2>4, <2>5
  <1>2. ASSUME UNCHANGED <<now, quotas, reserved>> PROVE Goal
    BY <1>2 DEF CountersKept
  <1>3. ASSUME Prune PROVE Goal
    BY <1>3 DEF Prune
  <1>4. ASSUME Tick PROVE Goal
    BY <1>4 DEF Tick, CountersKept
  <1>5. ASSUME NEW u \in Users, NEW cs \in SUBSET site.channels, NEW a \in site.addresses,
               Subscribe(u, cs, a)
        PROVE  UNCHANGED <<now, quotas, reserved>>
    BY <1>5 DEF Subscribe
  <1>6. ASSUME NEW us \in SUBSET Users, ChangeAudience(us) \/ ChangePaid(us)
        PROVE  UNCHANGED <<now, quotas, reserved>>
    BY <1>6 DEF ChangeAudience, ChangePaid
  <1>7. ASSUME NEW d \in DOMAIN outbox, RetryNotification(d)
        PROVE  UNCHANGED <<now, quotas, reserved>>
    BY <1>7 DEF RetryNotification
  <1>8. ASSUME NEW e \in site.events, NEW us \in SUBSET Users, Notify(e, us)
        PROVE  UNCHANGED <<now, quotas, reserved>>
    BY <1>8 DEF Notify
  <1>9. ASSUME NEW g \in claims, Send(g) \/ FinishNotification(g)
        PROVE  UNCHANGED <<now, quotas, reserved>>
    BY <1>9 DEF Send, FinishNotification
  <1>10. UNCHANGED vars => UNCHANGED <<now, quotas, reserved>>
    BY DEF vars
  <1> HIDE DEF Goal
  <1>11. Goal
    BY <1>1, <1>2, <1>3, <1>4, <1>5, <1>6, <1>7, <1>8, <1>9, <1>10 DEF Next, Work
  <1> QED BY <1>11 DEF Goal

\* No fence goes back, and no claim is forgotten: the provider's answer is
\* written into it once.
LEMMA FencesGrow ==
    ASSUME TypeOK, StepMoves, NEW d \in DOMAIN outbox, d \in DOMAIN outbox'
    PROVE  outbox'[d].fence \in Nat /\ outbox'[d].fence >= outbox[d].fence
  <1>1. RowMoves(d)
    BY DEF StepMoves
  <1>2. outbox[d].fence \in Nat
    BY RowFields
  <1>3. Handed(d) => outbox'[d].fence = outbox[d].fence + 1
    BY LeaseEffect DEF Handed
  <1> QED BY <1>1, <1>2, <1>3 DEF RowMoves, Retried, PutOff, Settled, Keeps

LEMMA ClaimsPersist ==
    ASSUME TypeOK, StepMoves, NEW g \in claims
    PROVE  \E h \in claims' : /\ h.id = g.id /\ h.fence = g.fence
                              /\ g.result # "none" => h = g
  <1>1. CASE claims \subseteq claims'
    BY <1>1
  <1>2. ASSUME NEW f \in claims, Send(f)
        PROVE  \E h \in claims' : /\ h.id = g.id /\ h.fence = g.fence
                                  /\ g.result # "none" => h = g
    BY <1>2, SendEffect
  <1>3. ASSUME NEW d \in Sendable, Handed(d) PROVE claims \subseteq claims'
    BY <1>3 DEF Handed
  <1> QED BY <1>1, <1>2, <1>3 DEF StepMoves, ClaimsMove

\* Where the claims of the next state come from.
LEMMA ClaimsOrigin ==
    ASSUME TypeOK, StepMoves, NEW h \in claims'
    PROVE  \/ h \in claims
           \/ \E g \in claims : h.id = g.id /\ h.fence = g.fence
           \/ h.id \in Sendable /\ Handed(h.id) /\ h.fence = outbox[h.id].fence + 1
  <1>1. ASSUME NEW g \in claims, Send(g)
        PROVE  h \in claims \/ \E f \in claims : h.id = f.id /\ h.fence = f.fence
    BY <1>1, SendEffect
  <1>2. ASSUME NEW d \in Sendable, Handed(d)
        PROVE  \/ h \in claims
               \/ h.id \in Sendable /\ Handed(h.id) /\ h.fence = outbox[h.id].fence + 1
    <2>1. PICK s \in Senders : claims' = claims \cup {NewClaim(d, s)}
      BY <1>2 DEF Handed
    <2>2. NewClaim(d, s).id = d /\ NewClaim(d, s).fence = outbox[d].fence + 1
      BY NewClaimType
    <2> QED BY <1>2, <2>1, <2>2
  <1> QED BY <1>1, <1>2 DEF StepMoves, ClaimsMove

LEMMA KnownEventsStep ==
    ASSUME TypeOK, KnownEvents, [Next]_vars
    PROVE  KnownEvents'
  <1>0. StepMoves
    BY EveryStepMoves
  <1>1. raised \subseteq raised'
    BY <1>0 DEF StepMoves
  <1>2. \A d \in DOMAIN outbox' : d.event \in raised'
    BY <1>0, <1>1 DEF StepMoves, Created, KnownEvents
  <1>3. \A d \in Sendable : d.event \in raised
    BY SendableRow DEF KnownEvents
  <1>4. \A h \in claims' : h.id.event \in raised'
    BY <1>0, <1>1, <1>3, ClaimsOrigin DEF KnownEvents
  <1>5. \A x \in reserved' : x.id.event \in raised'
    <2>1. reserved' = reserved \/ \E d \in Sendable : Reserved(d)
      BY ReserveStep
    <2>2. ASSUME NEW d \in Sendable, Reserved(d) PROVE \A x \in reserved' : x.id.event \in raised'
      <3>1. reserved' = reserved \cup {[id |-> d, at |-> now]}
        BY <2>2 DEF Reserved
      <3> QED BY <1>1, <1>3, <3>1 DEF KnownEvents
    <2> QED BY <1>1, <2>1, <2>2 DEF KnownEvents
  <1> QED BY <1>2, <1>4, <1>5 DEF KnownEvents

LEMMA FencesStep ==
    ASSUME OutboxInv, [Next]_vars
    PROVE  FencesIssued'
  <1>0. TypeOK /\ KnownEvents /\ FencesIssued /\ StepMoves
    BY EveryStepMoves DEF OutboxInv
  <1>1. \A g \in claims : g.fence \in Nat
    BY <1>0 DEF TypeOK, ClaimType
  <1>2. ASSUME NEW g \in claims, g.id \in DOMAIN outbox'
        PROVE  g.id \in DOMAIN outbox /\ g.fence =< outbox'[g.id].fence
    <2>1. g.id \in DOMAIN outbox
      BY <1>0, <1>2 DEF StepMoves, Created, KnownEvents
    <2>2. /\ outbox'[g.id].fence \in Nat /\ outbox'[g.id].fence >= outbox[g.id].fence
          /\ outbox[g.id].fence \in Nat /\ g.fence =< outbox[g.id].fence
      BY <1>0, <1>2, <2>1, FencesGrow, RowFields DEF FencesIssued
    <2> QED BY <1>1, <2>1, <2>2
  <1>3. CASE claims' = claims
    BY <1>0, <1>2, <1>3 DEF FencesIssued
  <1>4. ASSUME NEW g \in claims, Send(g) PROVE FencesIssued'
    <2>1. PICK h \in ClaimType :
              /\ h.id = g.id /\ h.fence = g.fence
              /\ claims' = (claims \ {g}) \cup {h} /\ outbox' = outbox
      BY <1>0, <1>4, SendEffect
    <2> QED BY <1>0, <2>1 DEF FencesIssued
  <1>5. ASSUME NEW d \in Sendable, Handed(d) PROVE FencesIssued'
    <2>1. PICK s \in Senders : claims' = claims \cup {NewClaim(d, s)}
      BY <1>5 DEF Handed
    <2> DEFINE n == NewClaim(d, s)
    <2>2. n.id = d /\ n.fence = outbox[d].fence + 1
      BY <1>0, NewClaimType
    <2>3. d \in DOMAIN outbox /\ outbox[d].fence \in Nat /\ outbox'[d].fence = outbox[d].fence + 1
      BY <1>0, <1>5, SendableRow, RowFields, LeaseEffect DEF Handed
    <2>4. \A g \in claims : g.id = d => g.fence < n.fence
      BY <1>0, <1>1, <2>2, <2>3 DEF FencesIssued
    <2>5. \A g \in claims : g.id = n.id => g.fence # n.fence
      BY <1>1, <2>2, <2>3, <2>4
    <2> HIDE DEF n
    <2>6. \A g \in claims' : g.id \in DOMAIN outbox' => g.fence =< outbox'[g.id].fence
      BY <1>2, <2>1, <2>2, <2>3 DEF n
    <2>7. \A g, h \in claims' : g.id = h.id /\ g.fence = h.fence => g = h
      BY <1>0, <2>1, <2>5 DEF FencesIssued, n
    <2> QED BY <2>6, <2>7 DEF FencesIssued
  <1> QED BY <1>0, <1>3, <1>4, <1>5 DEF StepMoves, ClaimsMove

LEMMA SendingStep ==
    ASSUME OutboxInv, [Next]_vars
    PROVE  SendingIsClaimed'
  <1>0. TypeOK /\ KnownEvents /\ SendingIsClaimed /\ StepMoves
    BY EveryStepMoves DEF OutboxInv
  <1> SUFFICES ASSUME NEW d \in DOMAIN outbox', outbox'[d].state = "sending"
               PROVE  \E g \in claims' : g.id = d /\ g.fence = outbox'[d].fence
    BY DEF SendingIsClaimed
  <1>1. CASE d \notin DOMAIN outbox /\ Created(d)
    BY <1>0, <1>1, NewDeliveryType DEF Created
  <1>2. CASE d \in DOMAIN outbox /\ outbox'[d] = outbox[d]
    BY <1>0, <1>2, ClaimsPersist DEF SendingIsClaimed
  <1>3. CASE d \in DOMAIN outbox /\ Handed(d)
    <2>1. PICK s \in Senders : claims' = claims \cup {NewClaim(d, s)}
      BY <1>3 DEF Handed
    <2>2. /\ NewClaim(d, s).id = d /\ NewClaim(d, s).fence = outbox[d].fence + 1
          /\ d \in Sendable
      BY <1>0, <1>3, NewClaimType DEF Handed
    <2>3. outbox'[d].fence = outbox[d].fence + 1
      BY <1>0, <1>3, LeaseEffect DEF Handed
    <2> QED BY <2>1, <2>2, <2>3
  <1>4. CASE d \in DOMAIN outbox /\ (Retried(d) \/ PutOff(d) \/ Settled(d))
    BY <1>4 DEF Retried, PutOff, Settled
  <1> QED BY <1>0, <1>1, <1>2, <1>3, <1>4 DEF StepMoves, RowMoves

LEMMA TypeInit == Init => TypeOK /\ KnownEvents
  <1> SUFFICES ASSUME Init PROVE TypeOK /\ KnownEvents
    OBVIOUS
  <1>0. /\ site \in Sites /\ site \in SiteType /\ site.past \subseteq site.events
        /\ IsFiniteSet(site.past)
    BY OutboxAssumption DEF Init
  <1>1. /\ site.channels \subseteq Channels /\ site.addresses \subseteq Addresses
        /\ site.past \subseteq Events
    BY <1>0 DEF SiteType
  <1>2. subs \in [Users -> [channels : SUBSET Channels, address : Addresses]]
    BY <1>1 DEF Init
  <1>3. Cardinality(site.past) \in Nat
    BY <1>0, FS_CardinalityType
  <1>4. DOMAIN quotas \subseteq CounterId
    BY <1>1 DEF Init, CounterId
  <1>5. \A q \in DOMAIN quotas : quotas[q] \in [count : Nat, updated : Nat]
    BY <1>3 DEF Init
  <1>6. reserved \subseteq ReservationType /\ \A x \in reserved : x.id.event \in site.past
    BY <1>1 DEF Init, ReservationType, DeliveryId
  <1>7. DOMAIN outbox = {} /\ claims = {} /\ now = 1 /\ audience = Users /\ paid = Users
        /\ raised = site.past
    BY DEF Init
  <1> QED BY <1>0, <1>1, <1>2, <1>4, <1>5, <1>6, <1>7 DEF TypeOK, KnownEvents

LEMMA OutboxInvariant == Spec => []OutboxInv
  <1>1. Init => OutboxInv
    <2>1. Init => FencesIssued /\ SendingIsClaimed
      BY DEF Init, FencesIssued, SendingIsClaimed
    <2> QED BY <2>1, TypeInit DEF OutboxInv
  <1>2. OutboxInv /\ [Next]_vars => OutboxInv'
    BY TypeStep, KnownEventsStep, FencesStep, SendingStep DEF OutboxInv
  <1> QED BY <1>1, <1>2, PTL DEF Spec

\* The outbox, the quota counters and the claims keep their declared shapes, and
\* no row counts more attempts than MaxAttempts.
THEOREM OutboxTypeCorrect == Spec => []TypeOK
  <1>1. OutboxInv => TypeOK
    BY DEF OutboxInv
  <1> QED BY <1>1, OutboxInvariant, PTL
-----------------------------------------------------------------------------
(* Deliveries and what the provider said *)

\* A claim of a delivery that exists after the step was a claim of one that
\* existed before it.
LEMMA ClaimedBefore ==
    ASSUME KnownEvents, StepMoves, NEW g \in claims, g.id \in DOMAIN outbox'
    PROVE  g.id \in DOMAIN outbox
  BY DEF StepMoves, Created, KnownEvents

LEMMA DeliveredStep ==
    ASSUME OutboxInv, DeliveredWasAccepted, [Next]_vars
    PROVE  DeliveredWasAccepted'
  <1>0. TypeOK /\ KnownEvents /\ StepMoves
    BY EveryStepMoves DEF OutboxInv
  <1> SUFFICES ASSUME NEW d \in DOMAIN outbox', outbox'[d].state = "delivered",
                      d.channel # "in_app"
               PROVE  \E g \in claims' : /\ g.id = d /\ g.fence = outbox'[d].fence
                                         /\ g.result = "accepted"
    BY DEF DeliveredWasAccepted
  <1>1. CASE d \notin DOMAIN outbox /\ Created(d)
    BY <1>0, <1>1, NewDeliveryType DEF Created
  <1>2. CASE d \in DOMAIN outbox /\ outbox'[d] = outbox[d]
    <2>1. PICK g \in claims : g.id = d /\ g.fence = outbox[d].fence /\ g.result = "accepted"
      BY <1>2 DEF DeliveredWasAccepted
    <2> QED BY <1>0, <1>2, <2>1, ClaimsPersist
  <1>3. CASE d \in DOMAIN outbox /\ Handed(d)
    BY <1>0, <1>3, LeaseEffect DEF Handed
  <1>4. CASE d \in DOMAIN outbox /\ Settled(d)
    BY <1>4 DEF Settled, Keeps
  <1>5. CASE d \in DOMAIN outbox /\ (Retried(d) \/ PutOff(d))
    BY <1>5 DEF Retried, PutOff
  <1> QED BY <1>0, <1>1, <1>2, <1>3, <1>4, <1>5 DEF StepMoves, RowMoves

\* Whatever is retried, pruned, lost or acknowledged late by one of several
\* coordinators: a row says "delivered" only after the provider accepted the
\* message under the claim the row was last leased with.
THEOREM DeliveredOnlyIfAccepted == Spec => []DeliveredWasAccepted
  <1>1. Init => DeliveredWasAccepted
    BY DEF Init, DeliveredWasAccepted
  <1>2. OutboxInv /\ DeliveredWasAccepted /\ [Next]_vars => DeliveredWasAccepted'
    BY DeliveredStep
  <1> QED BY <1>1, <1>2, OutboxInvariant, PTL DEF Spec

\* A delivery that was delivered, or cancelled for want of consent, is never
\* touched again but for its removal.
THEOREM SettledStays == Spec => SettledForGood
  <1>1. ASSUME OutboxInv, [Next]_vars
        PROVE  [\A d \in DOMAIN outbox \cap DOMAIN outbox' :
                  outbox[d].state \in {"delivered", "cancelled"} => outbox'[d] = outbox[d]]_vars
    <2>0. TypeOK /\ StepMoves
      BY <1>1, EveryStepMoves DEF OutboxInv
    <2> SUFFICES ASSUME NEW d \in DOMAIN outbox, d \in DOMAIN outbox',
                        outbox[d].state \in {"delivered", "cancelled"}
                 PROVE  outbox'[d] = outbox[d]
      OBVIOUS
    <2>1. RowMoves(d)
      BY <2>0 DEF StepMoves
    <2>2. d \notin Ready /\ d \notin Sendable
      BY DEF Sendable, Ready, Terminal
    <2> QED BY <2>1, <2>2 DEF RowMoves, Retried, Handed, PutOff, Settled
  <1> QED BY <1>1, OutboxInvariant, PTL DEF Spec, SettledForGood

\* However long a delivery waited, and whatever its user changed in the meantime,
\* an attempt is made only with the consent, and to the address, of that moment.
THEOREM ConsentAtEveryAttempt == Spec => HandedOutWithConsent
  <1>1. ASSUME OutboxInv, [Next]_vars
        PROVE  [\A d \in DOMAIN outbox \cap DOMAIN outbox' :
                  outbox'[d].attempts > outbox[d].attempts =>
                      /\ d.user \in audience /\ d.channel \in subs[d.user].channels
                      /\ outbox'[d].address = subs[d.user].address]_vars
    <2>0. TypeOK /\ StepMoves
      BY <1>1, EveryStepMoves DEF OutboxInv
    <2> SUFFICES ASSUME NEW d \in DOMAIN outbox, d \in DOMAIN outbox',
                        outbox'[d].attempts > outbox[d].attempts
                 PROVE  /\ d.user \in audience /\ d.channel \in subs[d.user].channels
                        /\ outbox'[d].address = subs[d.user].address
      OBVIOUS
    <2>1. RowMoves(d)
      BY <2>0 DEF StepMoves
    <2>2. outbox[d].attempts \in 0 .. MaxAttempts
      BY <2>0, RowFields
    <2>3. Handed(d)
      BY <2>1, <2>2, OutboxAssumption DEF RowMoves, Retried, PutOff, Settled, Keeps
    <2>4. Consents(d) /\ outbox'[d].address = outbox[d].address
      BY <2>0, <2>3, SendableRow, LeaseEffect DEF Handed
    <2> QED BY <2>4 DEF Consents
  <1> QED BY <1>1, OutboxInvariant, PTL DEF Spec, HandedOutWithConsent
-----------------------------------------------------------------------------
(* A prompt coordinator: a known acceptance is final *)

\* With acknowledgements in time a lease never runs out: a claim without an
\* answer holds its row, and a row with an accepted message is not taken up
\* again.
AcceptedTracked ==
    site.prompt =>
        /\ \A d \in DOMAIN outbox : outbox[d].state = "sending" => outbox[d].leaseUntil > now
        /\ \A g \in claims : g.result = "none" =>
              /\ g.id \in DOMAIN outbox
              /\ outbox[g.id].state = "sending" /\ outbox[g.id].fence = g.fence
        /\ \A g \in claims : g.result = "accepted" /\ g.id \in DOMAIN outbox =>
              outbox[g.id].state \in {"sending", "delivered"} /\ outbox[g.id].fence = g.fence

PromptInv == OutboxInv /\ AcceptedTracked /\ KnownAcceptanceIsFinal

\* No row the loop takes up is being sent.
LEMMA ReadyNotSending ==
    ASSUME TypeOK, AcceptedTracked, site.prompt, NEW d \in Ready
    PROVE  /\ d \in DOMAIN outbox /\ outbox[d].state \notin {"sending", "delivered"}
           /\ \A g \in claims : g.id = d => g.result \in {"refused", "unsure"}
  <1>1. d \in DOMAIN outbox /\ outbox[d].state \notin Terminal
        /\ ~(outbox[d].state = "sending" /\ outbox[d].leaseUntil > now)
    BY DEF Ready
  <1>2. outbox[d].state \notin {"sending", "delivered"}
    BY <1>1 DEF AcceptedTracked, Terminal
  <1>3. \A g \in claims : g.result \in {"none", "accepted", "refused", "unsure"}
    BY DEF TypeOK, ClaimType
  <1> QED BY <1>1, <1>2, <1>3 DEF AcceptedTracked

\* The clock moves only when no row is due and no lease ends.
LEMMA LeasesOutliveTheClock ==
    ASSUME PromptInv, site.prompt, [Next]_vars, NEW d \in DOMAIN outbox',
           outbox'[d].state = "sending"
    PROVE  outbox'[d].leaseUntil > now'
  <1>0. /\ TypeOK /\ KnownEvents /\ AcceptedTracked /\ SendingIsClaimed /\ StepMoves
    BY EveryStepMoves DEF PromptInv, OutboxInv
  <1>1. CASE Tick
    <2>1. /\ outbox' = outbox /\ now' = now + 1
          /\ \A g \in claims : Holds(g) => outbox[g.id].leaseUntil > now + 1
      BY <1>1 DEF Tick
    <2>2. PICK g \in claims : g.id = d /\ g.fence = outbox[d].fence
      BY <1>0, <2>1 DEF SendingIsClaimed
    <2>3. Holds(g)
      BY <1>0, <2>1, <2>2 DEF Holds, AcceptedTracked
    <2> QED BY <2>1, <2>2, <2>3
  <1>2. CASE now' = now
    <2>1. CASE d \notin DOMAIN outbox /\ Created(d)
      BY <1>0, <2>1, NewDeliveryType DEF Created
    <2>2. CASE d \in DOMAIN outbox /\ outbox'[d] = outbox[d]
      BY <1>0, <1>2, <2>2 DEF AcceptedTracked
    <2>3. CASE d \in DOMAIN outbox /\ Handed(d)
      BY <1>0, <1>2, <2>3, LeaseEffect DEF Handed
    <2>4. CASE d \in DOMAIN outbox /\ (Retried(d) \/ PutOff(d) \/ Settled(d))
      BY <2>4 DEF Retried, PutOff, Settled
    <2> QED BY <1>0, <2>1, <2>2, <2>3, <2>4 DEF StepMoves, RowMoves
  <1>3. Tick \/ now' = now
    BY DEF Next, Work, Subscribe, ChangeAudience, ChangePaid, RetryNotification, Notify,
           ClaimNotifications, Send, FinishNotification, Prune, vars
  <1> QED BY <1>1, <1>2, <1>3

\* A claim that has no answer, or an accepted one, still stands for its row
\* after a step that did not write an answer into it.
LEMMA ClaimsKeepTheirRow ==
    ASSUME PromptInv, site.prompt, [Next]_vars, NEW g \in claims, g \in claims'
    PROVE  /\ g.result = "none" =>
                 /\ g.id \in DOMAIN outbox'
                 /\ outbox'[g.id].state = "sending" /\ outbox'[g.id].fence = g.fence
           /\ g.result = "accepted" /\ g.id \in DOMAIN outbox' =>
                 /\ outbox'[g.id].state \in {"sending", "delivered"}
                 /\ outbox'[g.id].fence = g.fence
  <1>0. /\ TypeOK /\ KnownEvents /\ AcceptedTracked /\ FencesIssued /\ StepMoves
    BY EveryStepMoves DEF PromptInv, OutboxInv
  <1>1. g.result = "none" => g.id \in DOMAIN outbox'
    BY <1>0 DEF AcceptedTracked, StepMoves, Terminal
  <1>2. ASSUME g.id \in DOMAIN outbox', g.result \in {"none", "accepted"}
        PROVE  /\ outbox'[g.id].fence = g.fence
               /\ g.result = "none" => outbox'[g.id].state = "sending"
               /\ g.result = "accepted" => outbox'[g.id].state \in {"sending", "delivered"}
    <2>1. /\ g.id \in DOMAIN outbox /\ outbox[g.id].fence = g.fence
          /\ g.result = "none" => outbox[g.id].state = "sending"
          /\ g.result = "accepted" => outbox[g.id].state \in {"sending", "delivered"}
      BY <1>0, <1>2, ClaimedBefore DEF AcceptedTracked
    <2>2. RowMoves(g.id)
      BY <1>0, <1>2, <2>1 DEF StepMoves
    <2>3. g.id \notin Ready /\ g.id \notin Sendable
      BY <1>0, <1>2, ReadyNotSending, SendableRow
    <2>4. CASE Settled(g.id)
      <3>1. PICK h \in claims :
               /\ h.id = g.id /\ h.fence = outbox[g.id].fence
               /\ \/ h.result = "accepted" /\ outbox'[g.id].state = "delivered"
                  \/ h.result \in {"refused", "unsure"} /\ outbox'[g.id].state \in {"failed", "retry"}
        BY <2>4 DEF Settled
      <3>2. h = g
        BY <1>0, <2>1, <3>1 DEF FencesIssued
      <3> QED BY <1>2, <2>1, <2>4, <3>1, <3>2 DEF Settled, Keeps
    <2>5. CASE outbox'[g.id] = outbox[g.id]
      BY <2>1, <2>5
    <2> QED BY <1>2, <2>1, <2>2, <2>3, <2>4, <2>5 DEF RowMoves, Retried, Handed, PutOff
  <1> QED BY <1>1, <1>2

LEMMA PromptStep ==
    ASSUME PromptInv, [Next]_vars
    PROVE  AcceptedTracked' /\ KnownAcceptanceIsFinal'
  <1>0. /\ TypeOK /\ KnownEvents /\ AcceptedTracked /\ KnownAcceptanceIsFinal
        /\ FencesIssued /\ StepMoves /\ site' = site
    BY EveryStepMoves DEF PromptInv, OutboxInv, StepMoves
  <1> SUFFICES ASSUME site.prompt PROVE AcceptedTracked' /\ KnownAcceptanceIsFinal'
    BY <1>0 DEF AcceptedTracked, KnownAcceptanceIsFinal
  <1>1. \A d \in DOMAIN outbox' : outbox'[d].state = "sending" => outbox'[d].leaseUntil > now'
    BY LeasesOutliveTheClock
  <1> DEFINE NoneHolds(g) == g.result = "none" =>
                 /\ g.id \in DOMAIN outbox'
                 /\ outbox'[g.id].state = "sending" /\ outbox'[g.id].fence = g.fence
             AcceptedHolds(g) == g.result = "accepted" /\ g.id \in DOMAIN outbox' =>
                 /\ outbox'[g.id].state \in {"sending", "delivered"}
                 /\ outbox'[g.id].fence = g.fence
             Final == \A g, h \in claims' :
                 g.id = h.id /\ g.result = "accepted" => h.fence =< g.fence
  <1>2. \A g \in claims : g \in claims' => NoneHolds(g) /\ AcceptedHolds(g)
    BY ClaimsKeepTheirRow
  <1>3. ASSUME claims' = claims
        PROVE  (\A f \in claims' : NoneHolds(f) /\ AcceptedHolds(f)) /\ Final
    <2>1. Final
      BY <1>0, <1>3 DEF KnownAcceptanceIsFinal
    <2> HIDE DEF NoneHolds, AcceptedHolds, Final
    <2> QED BY <1>2, <1>3, <2>1
  <1>4. ASSUME NEW g \in claims, Send(g)
        PROVE  (\A f \in claims' : NoneHolds(f) /\ AcceptedHolds(f)) /\ Final
    <2>1. PICK h \in ClaimType :
              /\ h.id = g.id /\ h.fence = g.fence /\ h.result \in {"accepted", "refused", "unsure"}
              /\ g.result = "none" /\ claims' = (claims \ {g}) \cup {h} /\ outbox' = outbox
      BY <1>0, <1>4, SendEffect
    <2>2. /\ g.id \in DOMAIN outbox
          /\ outbox[g.id].state = "sending" /\ outbox[g.id].fence = g.fence
      BY <1>0, <2>1 DEF AcceptedTracked
    <2>3. NoneHolds(h) /\ AcceptedHolds(h)
      BY <2>1, <2>2
    <2>4. \A f \in claims : f.id = g.id => f.fence \in Nat /\ f.fence =< g.fence
      BY <1>0, <2>2, RowFields DEF FencesIssued, TypeOK, ClaimType
    <2>5. Final
      <3> SUFFICES ASSUME NEW x \in claims', NEW y \in claims', x.id = y.id, x.result = "accepted"
                   PROVE  y.fence =< x.fence
        OBVIOUS
      <3>1. g.fence \in Nat
        BY <1>0 DEF TypeOK, ClaimType
      <3>2. CASE x = h
        BY <2>1, <2>4, <3>1, <3>2
      <3>3. CASE x \in claims /\ y = h
        BY <1>0, <2>1, <3>3 DEF KnownAcceptanceIsFinal
      <3>4. CASE x \in claims /\ y \in claims
        BY <1>0, <3>4 DEF KnownAcceptanceIsFinal
      <3> QED BY <2>1, <3>2, <3>3, <3>4
    <2> HIDE DEF NoneHolds, AcceptedHolds
    <2> QED BY <1>2, <2>1, <2>3, <2>5
  <1>5. ASSUME NEW d \in Sendable, Handed(d)
        PROVE  (\A f \in claims' : NoneHolds(f) /\ AcceptedHolds(f)) /\ Final
    <2>1. PICK s \in Senders : claims' = claims \cup {NewClaim(d, s)}
      BY <1>5 DEF Handed
    <2> DEFINE n == NewClaim(d, s)
    <2>2. n.id = d /\ n.fence = outbox[d].fence + 1 /\ n.result = "none"
      BY <1>0, NewClaimType
    <2>3. /\ d \in DOMAIN outbox' /\ outbox'[d].state = "sending"
          /\ outbox'[d].fence = outbox[d].fence + 1
      <3>1. d \in DOMAIN outbox /\ d \in Ready
        BY <1>0, SendableRow
      <3>2. d \in DOMAIN outbox'
        BY <1>0, <3>1, ReadyOpen DEF StepMoves
      <3> QED BY <1>0, <1>5, <3>2, LeaseEffect DEF Handed
    <2> HIDE DEF n
    <2>4. NoneHolds(n) /\ AcceptedHolds(n)
      BY <2>2, <2>3
    <2>5. Final
      <3>1. \A f \in claims : f.id = d => f.result \in {"refused", "unsure"}
        BY <1>0, SendableRow, ReadyNotSending
      <3> QED BY <1>0, <2>1, <2>2, <3>1 DEF KnownAcceptanceIsFinal, n
    <2> HIDE DEF NoneHolds, AcceptedHolds
    <2> QED BY <1>2, <2>1, <2>4, <2>5 DEF n
  <1>6. (\A f \in claims' : NoneHolds(f) /\ AcceptedHolds(f)) /\ Final
    <2> HIDE DEF NoneHolds, AcceptedHolds, Final
    <2> QED BY <1>0, <1>3, <1>4, <1>5 DEF StepMoves, ClaimsMove
  <1> QED BY <1>0, <1>1, <1>6 DEF AcceptedTracked, KnownAcceptanceIsFinal

\* For any lease, backoff, number of retries and loss of the provider's answers:
\* while acknowledgements reach the store before their lease ends, a delivery
\* whose acceptance the sender learned of is never claimed again.
THEOREM KnownAcceptanceEnds == Spec => []KnownAcceptanceIsFinal
  <1>1. Init => AcceptedTracked /\ KnownAcceptanceIsFinal
    BY DEF Init, AcceptedTracked, KnownAcceptanceIsFinal
  <1>2. OutboxInv /\ AcceptedTracked /\ KnownAcceptanceIsFinal /\ [Next]_vars
          => AcceptedTracked' /\ KnownAcceptanceIsFinal'
    BY PromptStep DEF PromptInv
  <1> QED BY <1>1, <1>2, OutboxInvariant, PTL DEF Spec
-----------------------------------------------------------------------------
(* How many messages go out for a delivery *)

ClaimsFor(d) == {g \in claims : g.id = d}

\* The fence counts claims and manual retries, and each retry allows MaxAttempts
\* more claims; `attempts` are the claims since the last retry.
BudgetTracked ==
    /\ IsFiniteSet(claims)
    /\ \A d \in DOMAIN outbox :
          /\ ClaimsOf(d) =< outbox[d].fence
          /\ ClaimsOf(d) =< MaxAttempts * (outbox[d].fence - ClaimsOf(d)) + outbox[d].attempts

LEMMA ClaimsForFinite ==
    ASSUME IsFiniteSet(claims), NEW d
    PROVE  IsFiniteSet(ClaimsFor(d)) /\ ClaimsOf(d) = Cardinality(ClaimsFor(d)) /\ ClaimsOf(d) \in Nat
  <1>1. ClaimsFor(d) \subseteq claims /\ ClaimsOf(d) = Cardinality(ClaimsFor(d))
    BY DEF ClaimsFor, ClaimsOf
  <1>2. IsFiniteSet(ClaimsFor(d))
    BY <1>1, FS_Subset
  <1> QED BY <1>1, <1>2, FS_CardinalityType

\* The claim made by a lease is new.
LEMMA LeaseIsNewClaim ==
    ASSUME OutboxInv, NEW d \in Sendable, NEW s \in Senders
    PROVE  NewClaim(d, s) \notin claims
  <1>1. TypeOK /\ FencesIssued /\ d \in DOMAIN outbox
    BY SendableRow DEF OutboxInv
  <1>2. NewClaim(d, s).id = d /\ NewClaim(d, s).fence = outbox[d].fence + 1
    BY <1>1, NewClaimType
  <1>3. outbox[d].fence \in Nat
    BY <1>1, RowFields
  <1> QED BY <1>1, <1>2, <1>3 DEF FencesIssued

\* A step adds a claim to the delivery it hands out, and to no other.
LEMMA ClaimsCounted ==
    ASSUME OutboxInv, IsFiniteSet(claims), [Next]_vars
    PROVE  /\ IsFiniteSet(claims')
           /\ \A d \in DOMAIN outbox :
                 /\ Handed(d) => Cardinality(ClaimsFor(d)') = Cardinality(ClaimsFor(d)) + 1
                 /\ ~Handed(d) => Cardinality(ClaimsFor(d)') = Cardinality(ClaimsFor(d))
  <1>0. TypeOK /\ FencesIssued /\ StepMoves
    BY EveryStepMoves DEF OutboxInv
  <1> DEFINE Goal == /\ IsFiniteSet(claims')
                     /\ \A d \in DOMAIN outbox :
                           /\ Handed(d) => Cardinality(ClaimsFor(d)') = Cardinality(ClaimsFor(d)) + 1
                           /\ ~Handed(d) => Cardinality(ClaimsFor(d)') = Cardinality(ClaimsFor(d))
  <1>a. ASSUME NEW d \in DOMAIN outbox, Handed(d)
        PROVE  \E s \in Senders : /\ NewClaim(d, s) \notin claims /\ NewClaim(d, s).id = d
                                  /\ claims' = claims \cup {NewClaim(d, s)}
    <2>1. d \in Sendable /\ \E s \in Senders : claims' = claims \cup {NewClaim(d, s)}
      BY <1>a DEF Handed
    <2>2. \A s \in Senders : NewClaim(d, s).id = d
      BY DEF NewClaim
    <2> QED BY <2>1, <2>2, LeaseIsNewClaim
  <1>1. ASSUME claims' = claims PROVE Goal
    <2>1. \A d \in DOMAIN outbox : ~Handed(d)
      BY <1>1, <1>a
    <2>2. \A d \in DOMAIN outbox : ClaimsFor(d)' = ClaimsFor(d)
      BY <1>1 DEF ClaimsFor
    <2> QED BY <1>1, <2>1, <2>2
  <1>2. ASSUME NEW g \in claims, Send(g) PROVE Goal
    <2>1. PICK h \in ClaimType :
              /\ h.id = g.id /\ h.fence = g.fence /\ h.result \in {"accepted", "refused", "unsure"}
              /\ g.result = "none" /\ claims' = (claims \ {g}) \cup {h}
      BY <1>0, <1>2, SendEffect
    <2>2. h \notin claims
      BY <1>0, <2>1 DEF FencesIssued
    <2>3. \A d \in DOMAIN outbox : ~Handed(d)
      BY <1>a, <2>1
    <2>4. IsFiniteSet(claims')
      <3>1. IsFiniteSet(claims \ {g})
        BY FS_RemoveElement
      <3> QED BY <2>1, <3>1, FS_AddElement
    <2>5. ASSUME NEW d \in DOMAIN outbox
          PROVE  Cardinality(ClaimsFor(d)') = Cardinality(ClaimsFor(d))
      <3>1. CASE g.id # d
        <4>1. ClaimsFor(d)' = ClaimsFor(d)
          BY <2>1, <3>1 DEF ClaimsFor
        <4> QED BY <4>1
      <3>2. CASE g.id = d
        <4> DEFINE rest == ClaimsFor(d) \ {g}
        <4>1. ClaimsFor(d)' = rest \cup {h} /\ h \notin rest /\ g \in ClaimsFor(d)
          BY <2>1, <2>2, <3>2 DEF ClaimsFor
        <4>2. IsFiniteSet(ClaimsFor(d)) /\ Cardinality(ClaimsFor(d)) \in Nat
          BY ClaimsForFinite
        <4>3. IsFiniteSet(rest) /\ Cardinality(rest) = Cardinality(ClaimsFor(d)) - 1
          BY <4>1, <4>2, FS_RemoveElement
        <4> HIDE DEF rest
        <4>4. Cardinality(rest \cup {h}) = Cardinality(rest) + 1
          BY <4>1, <4>3, FS_AddElement
        <4> QED BY <4>1, <4>2, <4>3, <4>4
      <3> QED BY <3>1, <3>2
    <2> QED BY <2>3, <2>4, <2>5
  <1>3. ASSUME NEW e \in Sendable, Handed(e) PROVE Goal
    <2>0. e \in DOMAIN outbox
      BY <1>0, SendableRow
    <2>1. PICK s \in Senders : /\ NewClaim(e, s) \notin claims /\ NewClaim(e, s).id = e
                               /\ claims' = claims \cup {NewClaim(e, s)}
      BY <1>3, <1>a, <2>0
    <2> DEFINE n == NewClaim(e, s)
    <2> HIDE DEF n
    <2>2. IsFiniteSet(claims')
      BY <2>1, FS_AddElement
    <2>3. ASSUME NEW d \in DOMAIN outbox, d # e
          PROVE  ~Handed(d) /\ Cardinality(ClaimsFor(d)') = Cardinality(ClaimsFor(d))
      <3>1. ClaimsFor(d)' = ClaimsFor(d)
        BY <2>1, <2>3 DEF ClaimsFor
      <3>2. ~Handed(d)
        BY <1>a, <2>1, <2>3
      <3> QED BY <3>1, <3>2
    <2>4. Cardinality(ClaimsFor(e)') = Cardinality(ClaimsFor(e)) + 1
      <3>1. ClaimsFor(e)' = ClaimsFor(e) \cup {n} /\ n \notin ClaimsFor(e)
        BY <2>1 DEF ClaimsFor, n
      <3>2. IsFiniteSet(ClaimsFor(e))
        BY ClaimsForFinite
      <3> QED BY <3>1, <3>2, FS_AddElement
    <2> QED BY <1>3, <2>2, <2>3, <2>4
  <1> HIDE DEF Goal
  <1>4. Goal
    BY <1>0, <1>1, <1>2, <1>3 DEF StepMoves, ClaimsMove
  <1> QED BY <1>4 DEF Goal

\* What a claim, and what a manual retry, does to the budget.
LEMMA BudgetArithmetic ==
    ASSUME NEW m \in Nat, NEW sent \in Nat, NEW fence \in Nat, NEW attempts \in Nat,
           attempts =< m, sent =< fence, sent =< m * (fence - sent) + attempts
    PROVE  /\ sent =< m * (1 + fence - sent)
           /\ sent =< m * ((fence + 1) - sent) + 0
           /\ sent + 1 =< m * ((fence + 1) - (sent + 1)) + (attempts + 1)
  <1> DEFINE k == fence - sent
  <1>1. k \in Nat /\ 1 + fence - sent = k + 1 /\ (fence + 1) - sent = k + 1
        /\ (fence + 1) - (sent + 1) = k
    OBVIOUS
  <1>2. sent =< m * k + attempts
    OBVIOUS
  <1> HIDE DEF k
  <1>3. m * (k + 1) = m * k + m /\ m * k \in Nat
    BY <1>1
  <1>4. sent =< m * (k + 1)
    BY <1>2, <1>3
  <1>5. sent + 1 =< m * k + (attempts + 1)
    BY <1>2, <1>3
  <1> QED BY <1>1, <1>3, <1>4, <1>5

LEMMA BudgetStep ==
    ASSUME OutboxInv, BudgetTracked, [Next]_vars
    PROVE  BudgetTracked'
  <1>0. TypeOK /\ KnownEvents /\ StepMoves /\ IsFiniteSet(claims) /\ IsFiniteSet(claims')
    BY EveryStepMoves, ClaimsCounted DEF OutboxInv, BudgetTracked
  <1>1. \A d : ClaimsOf(d)' = Cardinality(ClaimsFor(d)')
    BY DEF ClaimsOf, ClaimsFor
  <1>2. ASSUME NEW d \in DOMAIN outbox'
        PROVE  /\ ClaimsOf(d)' =< outbox'[d].fence
               /\ ClaimsOf(d)' =< MaxAttempts * (outbox'[d].fence - ClaimsOf(d)')
                                  + outbox'[d].attempts
    <2>1. CASE d \notin DOMAIN outbox /\ Created(d)
      <3>1. ClaimsFor(d)' = {}
        BY <1>0, <2>1 DEF Created, KnownEvents, ClaimsFor
      <3>2. ClaimsOf(d)' = 0
        BY <1>1, <3>1, FS_EmptySet
      <3>3. outbox'[d].fence = 0 /\ outbox'[d].attempts = 0
        BY <1>0, <2>1, NewDeliveryType DEF Created
      <3>4. MaxAttempts * (0 - 0) + 0 = 0
        BY OutboxAssumption
      <3> QED BY <3>2, <3>3, <3>4
    <2>2. CASE d \in DOMAIN outbox /\ RowMoves(d)
      <3> DEFINE sent == ClaimsOf(d)
                 fence == outbox[d].fence
                 attempts == outbox[d].attempts
      <3>1. /\ sent \in Nat /\ fence \in Nat /\ attempts \in Nat /\ attempts =< MaxAttempts
            /\ MaxAttempts \in Nat
            /\ sent =< fence /\ sent =< MaxAttempts * (fence - sent) + attempts
        <4>1. attempts \in 0 .. MaxAttempts /\ fence \in Nat /\ sent \in Nat
          BY <1>0, <2>2, RowFields, ClaimsForFinite
        <4>2. sent =< fence /\ sent =< MaxAttempts * (fence - sent) + attempts
          BY <2>2 DEF BudgetTracked
        <4>3. MaxAttempts \in Nat
          BY OutboxAssumption
        <4> HIDE DEF sent, fence, attempts
        <4> QED BY <4>1, <4>2, <4>3
      <3>2. sent = Cardinality(ClaimsFor(d))
        BY DEF ClaimsOf, ClaimsFor
      <3>3. CASE Handed(d)
        <4>1. ClaimsOf(d)' = sent + 1
          BY <1>0, <1>1, <2>2, <3>2, <3>3, ClaimsCounted
        <4>2. outbox'[d].fence = fence + 1 /\ outbox'[d].attempts = attempts + 1
          BY <1>0, <3>3, LeaseEffect DEF Handed
        <4> HIDE DEF sent, fence, attempts
        <4>3. sent + 1 =< MaxAttempts * ((fence + 1) - (sent + 1)) + (attempts + 1)
          BY <3>1, BudgetArithmetic
        <4> QED BY <3>1, <4>1, <4>2, <4>3
      <3>4. CASE ~Handed(d) /\ Retried(d)
        <4>1. ClaimsOf(d)' = sent
          BY <1>0, <1>1, <2>2, <3>2, <3>4, ClaimsCounted
        <4>2. outbox'[d].fence = fence + 1 /\ outbox'[d].attempts = 0
          BY <3>4 DEF Retried
        <4> HIDE DEF sent, fence, attempts
        <4>3. sent =< MaxAttempts * ((fence + 1) - sent) + 0
          BY <3>1, BudgetArithmetic
        <4> QED BY <3>1, <4>1, <4>2, <4>3
      <3>5. CASE ~Handed(d) /\ ~Retried(d)
        <4>1. ClaimsOf(d)' = sent
          BY <1>0, <1>1, <2>2, <3>2, <3>5, ClaimsCounted
        <4>2. outbox'[d].fence = fence /\ outbox'[d].attempts = attempts
          BY <2>2, <3>5 DEF RowMoves, PutOff, Settled, Keeps
        <4> HIDE DEF sent, fence, attempts
        <4> QED BY <3>1, <4>1, <4>2
      <3> QED BY <3>3, <3>4, <3>5
    <2> QED BY <1>0, <2>1, <2>2 DEF StepMoves
  <1> QED BY <1>0, <1>2 DEF BudgetTracked

\* For any MaxAttempts: however many coordinators are at work, and whatever
\* leases run out, at most MaxAttempts messages go out for a delivery, and as
\* many again for each manual retry.
THEOREM MessagesWithinBudget == Spec => []SendBudget
  <1>1. Init => BudgetTracked
    <2>1. Init => claims = {} /\ DOMAIN outbox = {}
      BY DEF Init
    <2> QED BY <2>1, FS_EmptySet DEF BudgetTracked
  <1>2. OutboxInv /\ BudgetTracked /\ [Next]_vars => BudgetTracked'
    BY BudgetStep
  <1>3. OutboxInv /\ BudgetTracked => SendBudget
    <2> SUFFICES ASSUME OutboxInv, BudgetTracked, NEW d \in DOMAIN outbox
                 PROVE  ClaimsOf(d) =< MaxAttempts * (1 + outbox[d].fence - ClaimsOf(d))
      BY DEF SendBudget
    <2>1. /\ outbox[d].attempts \in 0 .. MaxAttempts /\ outbox[d].fence \in Nat
          /\ ClaimsOf(d) \in Nat /\ MaxAttempts \in Nat
      BY RowFields, ClaimsForFinite, OutboxAssumption DEF OutboxInv, BudgetTracked
    <2>2. /\ ClaimsOf(d) =< outbox[d].fence
          /\ ClaimsOf(d) =< MaxAttempts * (outbox[d].fence - ClaimsOf(d)) + outbox[d].attempts
      BY DEF BudgetTracked
    <2>3. outbox[d].attempts \in Nat /\ outbox[d].attempts =< MaxAttempts
      BY <2>1
    <2> QED BY <2>1, <2>2, <2>3, BudgetArithmetic
  <1> QED BY <1>1, <1>2, <1>3, OutboxInvariant, PTL DEF Spec
-----------------------------------------------------------------------------
(* Quota: a day and a minute are the two kinds of period *)

Kinds == {"day", "minute"}
Length(kind) == IF kind = "day" THEN DayLength ELSE MinuteLength
Limit(kind) == IF kind = "day" THEN site.daily ELSE MinuteLimit
Period(kind, t) == t \div Length(kind)

UsesIn(u, c, kind, k) ==
    {y \in reserved : y.id.user = u /\ y.id.channel = c /\ Period(kind, y.at) = k}

\* A delivery's reservation is remembered in its row as long as there is one.
ReservedOnce ==
    /\ \A x, y \in reserved : x.id = y.id => x = y
    /\ \A x \in reserved : x.id \in DOMAIN outbox => outbox[x.id].quota

\* A counter was last written in the period it counts.
CountersDated == \A q \in DOMAIN quotas : q[4] = Period(q[3], quotas[q].updated)

\* No period is overdrawn, and the counters of the present and of later periods
\* hold every reservation; those of past periods may have been pruned.
UsesCounted ==
    \A u \in Users, c \in Channels, kind \in Kinds, k \in Nat :
        /\ IsFiniteSet(UsesIn(u, c, kind, k))
        /\ Cardinality(UsesIn(u, c, kind, k)) =< Limit(kind)
        /\ k >= Period(kind, now) =>
              Cardinality(UsesIn(u, c, kind, k)) =< CountOf(<<u, c, kind, k>>)

\* Dividing the clock into periods.
LEMMA DivisionBounds ==
    ASSUME NEW a \in Nat, NEW n \in Nat \ {0}
    PROVE  a \div n \in Nat /\ (a \div n) * n =< a /\ a < (a \div n) * n + n
  <1>1. a \div n \in Nat
    OBVIOUS
  <1>2. (a \div n) * n =< a /\ a < (a \div n) * n + n
    OBVIOUS
  <1> QED BY <1>1, <1>2

LEMMA DivisionMonotone ==
    ASSUME NEW a \in Nat, NEW b \in Nat, NEW n \in Nat \ {0}, a =< b
    PROVE  a \div n =< b \div n
  <1> DEFINE p == a \div n
             q == b \div n
  <1>1. p \in Nat /\ q \in Nat /\ p * n =< a /\ b < q * n + n
    BY DivisionBounds
  <1> HIDE DEF p, q
  <1>2. p * n < (q + 1) * n
    BY <1>1
  <1>3. p >= q + 1 => p * n >= (q + 1) * n
    BY <1>1
  <1>4. p =< q
    BY <1>1, <1>2, <1>3
  <1> QED BY <1>4 DEF p, q

LEMMA DivisionRecent ==
    ASSUME NEW u \in Nat, NEW b \in Nat, NEW n \in Nat \ {0}, u \div n >= b \div n
    PROVE  b < u + n
  <1> DEFINE p == u \div n
             q == b \div n
  <1>1. p \in Nat /\ q \in Nat /\ p * n =< u /\ b < q * n + n /\ q =< p
    BY DivisionBounds
  <1> HIDE DEF p, q
  <1>2. q * n =< p * n /\ q * n \in Nat /\ p * n \in Nat
    BY <1>1
  <1> QED BY <1>1, <1>2

LEMMA PeriodFacts ==
    ASSUME NEW kind \in Kinds
    PROVE  /\ Length(kind) \in Nat \ {0} /\ Length(kind) =< QuotaRetention
           /\ QuotaRetention \in Nat
           /\ \A t \in Nat : Period(kind, t) \in Nat
           /\ \A s, t \in Nat : s =< t => Period(kind, s) =< Period(kind, t)
           /\ \A s, t \in Nat : Period(kind, s) >= Period(kind, t) => t < s + Length(kind)
           /\ Period(kind, 0) = 0
  <1>1. Length(kind) \in Nat \ {0} /\ Length(kind) =< QuotaRetention /\ QuotaRetention \in Nat
    BY OutboxAssumption DEF Kinds, Length
  <1> DEFINE n == Length(kind)
  <1> HIDE DEF n
  <1>2. n \in Nat \ {0}
    BY <1>1 DEF n
  <1>3. 0 \div n = 0
    BY <1>2
  <1>4. \A t : Period(kind, t) = t \div n
    BY DEF Period, n
  <1>5. \A t \in Nat : t \div n \in Nat
    BY <1>2, DivisionBounds
  <1>6. \A s, t \in Nat : s =< t => s \div n =< t \div n
    BY <1>2, DivisionMonotone
  <1>7. \A s, t \in Nat : s \div n >= t \div n => t < s + n
    BY <1>2, DivisionRecent
  <1>8. \A t \in Nat : Period(kind, t) \in Nat
    BY <1>4, <1>5
  <1>9. \A s, t \in Nat : s =< t => Period(kind, s) =< Period(kind, t)
    BY <1>4, <1>6
  <1>10. \A s, t \in Nat : Period(kind, s) >= Period(kind, t) => t < s + Length(kind)
    BY <1>4, <1>7 DEF n
  <1>11. Period(kind, 0) = 0
    BY <1>3, <1>4
  <1> QED BY <1>1, <1>8, <1>9, <1>10, <1>11

\* The counters a reservation uses, by kind.
LEMMA SpentCounters ==
    ASSUME NEW d
    PROVE  /\ DayCounter(d) = <<d.user, d.channel, "day", Period("day", now)>>
           /\ MinuteCounter(d) = <<d.user, d.channel, "minute", Period("minute", now)>>
  BY DEF DayCounter, MinuteCounter, DayOf, MinuteOf, Period, Length

LEMMA CountType ==
    ASSUME TypeOK, NEW q
    PROVE  CountOf(q) \in Nat
  BY DEF TypeOK, CountOf

LEMMA ReservedOnceStep ==
    ASSUME TypeOK, KnownEvents, ReservedOnce, [Next]_vars
    PROVE  ReservedOnce'
  <1>0. StepMoves
    BY EveryStepMoves
  <1>1. ASSUME NEW x \in reserved, x.id \in DOMAIN outbox' PROVE outbox'[x.id].quota
    <2>1. x.id \in DOMAIN outbox /\ RowMoves(x.id)
      BY <1>0, <1>1 DEF StepMoves, KnownEvents, Created
    <2>2. outbox[x.id].quota
      BY <2>1 DEF ReservedOnce
    <2>3. CASE Handed(x.id)
      BY <2>3, LeaseEffect DEF Handed
    <2> QED BY <2>1, <2>2, <2>3 DEF RowMoves, Retried, PutOff, Settled, Keeps
  <1>2. CASE reserved' = reserved
    BY <1>1, <1>2 DEF ReservedOnce
  <1>3. ASSUME NEW d \in Sendable, Reserved(d) PROVE ReservedOnce'
    <2>1. /\ reserved' = reserved \cup {[id |-> d, at |-> now]}
          /\ ~outbox[d].quota /\ Handed(d) /\ d \in DOMAIN outbox
      BY <1>3, SendableRow DEF Reserved
    <2>2. outbox'[d].quota
      BY <2>1, LeaseEffect DEF Handed
    <2>3. \A x \in reserved : x.id # d
      BY <2>1 DEF ReservedOnce
    <2> QED BY <1>1, <2>1, <2>2, <2>3 DEF ReservedOnce
  <1>4. reserved' = reserved \/ \E d \in Sendable : Reserved(d)
    BY ReserveStep
  <1> QED BY <1>2, <1>3, <1>4

LEMMA DatedStep ==
    ASSUME TypeOK, CountersDated, [Next]_vars
    PROVE  CountersDated'
  <1>1. ASSUME NEW d \in Sendable, Reserved(d) PROVE CountersDated'
    <2> DEFINE spent == {DayCounter(d), MinuteCounter(d)}
    <2>1. quotas' = [q \in DOMAIN quotas \cup spent |->
                       IF q \in spent THEN [count |-> CountOf(q) + 1, updated |-> now]
                       ELSE quotas[q]]
      BY <1>1 DEF Reserved
    <2>2. \A q \in spent : q[4] = Period(q[3], now)
      <3> DEFINE day == Period("day", now)
                 minute == Period("minute", now)
      <3>1. \A q \in spent : \/ q = <<d.user, d.channel, "day", day>>
                             \/ q = <<d.user, d.channel, "minute", minute>>
        BY SpentCounters
      <3> HIDE DEF day, minute, spent
      <3>2. \A q \in spent : \/ q[3] = "day" /\ q[4] = day
                             \/ q[3] = "minute" /\ q[4] = minute
        BY <3>1
      <3> QED BY <3>2 DEF day, minute
    <2> HIDE DEF spent
    <2>3. ASSUME NEW q \in DOMAIN quotas' PROVE q[4] = Period(q[3], quotas'[q].updated)
      <3>1. CASE q \in spent
        <4>1. quotas'[q].updated = now
          BY <2>1, <3>1
        <4> QED BY <2>2, <3>1, <4>1
      <3>2. CASE q \notin spent
        <4>1. q \in DOMAIN quotas /\ quotas'[q] = quotas[q]
          BY <2>1, <3>2
        <4> QED BY <4>1 DEF CountersDated
      <3> QED BY <3>1, <3>2
    <2> QED BY <2>3 DEF CountersDated, Period
  <1>2. CASE CountersKept
    BY <1>2 DEF CountersDated, CountersKept, Period
  <1>3. CASE quotas' = [q \in DOMAIN quotas \ OldCounters |-> quotas[q]]
    BY <1>3 DEF CountersDated, Period
  <1> QED BY <1>1, <1>2, <1>3, ReserveStep

\* The retention never takes a counter whose period is not over.
LEMMA CountersOutliveTheirPeriod ==
    ASSUME TypeOK, CountersDated, NEW q \in DOMAIN quotas,
           q[4] >= Period(q[3], now)
    PROVE  q \notin OldCounters
  <1>1. /\ q[3] \in Kinds /\ quotas[q].updated \in Nat /\ now \in Nat
        /\ q[4] = Period(q[3], quotas[q].updated)
    BY DEF TypeOK, CounterId, CountersDated, Kinds
  <1>2. /\ now < quotas[q].updated + Length(q[3]) /\ Length(q[3]) \in Nat
        /\ Length(q[3]) =< QuotaRetention /\ QuotaRetention \in Nat
    BY <1>1, PeriodFacts
  <1>3. ~(quotas[q].updated + QuotaRetention =< now)
    BY <1>1, <1>2
  <1> QED BY <1>3 DEF OldCounters

\* What a step without a reservation leaves of a counter that still matters.
LEMMA CountsStay ==
    ASSUME TypeOK, CountersDated,
           NEW u \in Users, NEW c \in Channels, NEW kind \in Kinds, NEW k \in Nat,
           k >= Period(kind, now),
           \/ CountersKept
           \/ quotas' = [q \in DOMAIN quotas \ OldCounters |-> quotas[q]]
    PROVE  CountOf(<<u, c, kind, k>>)' = CountOf(<<u, c, kind, k>>)
  <1> DEFINE q == <<u, c, kind, k>>
  <1>1. q[3] = kind /\ q[4] = k
    OBVIOUS
  <1> HIDE DEF q
  <1>2. q \in DOMAIN quotas => q \notin OldCounters
    BY <1>1, CountersOutliveTheirPeriod
  <1>3. /\ q \in DOMAIN quotas' <=> q \in DOMAIN quotas
        /\ q \in DOMAIN quotas => quotas'[q] = quotas[q]
    BY <1>2 DEF CountersKept
  <1>4. (IF q \in DOMAIN quotas' THEN quotas'[q].count ELSE 0)
            = IF q \in DOMAIN quotas THEN quotas[q].count ELSE 0
    BY <1>3
  <1> QED BY <1>4 DEF CountOf, q

\* A first lease finds room in both counters.
LEMMA RoomInBoth ==
    ASSUME TypeOK, NEW d \in Sendable, ~outbox[d].quota, NEW kind \in Kinds
    PROVE  CountOf(<<d.user, d.channel, kind, Period(kind, now)>>) < Limit(kind)
  <1>1. ~DayFull(d) /\ ~MinuteFull(d)
    BY DEF Sendable, Limited, Revoked, Spent
  <1>2. CountOf(DayCounter(d)) \in Nat /\ CountOf(MinuteCounter(d)) \in Nat
    BY CountType
  <1>3. site.daily \in Nat /\ MinuteLimit \in Nat
    BY SiteFacts, OutboxAssumption
  <1>4. CountOf(DayCounter(d)) < site.daily /\ CountOf(MinuteCounter(d)) < MinuteLimit
    BY <1>1, <1>2, <1>3 DEF DayFull, MinuteFull
  <1> QED BY <1>4, SpentCounters DEF Kinds, Limit

LEMMA ReservationCounts ==
    ASSUME TypeOK, ReservedOnce, UsesCounted, NEW d \in Sendable, Reserved(d),
           NEW u \in Users, NEW c \in Channels, NEW kind \in Kinds, NEW k \in Nat
    PROVE  /\ IsFiniteSet(UsesIn(u, c, kind, k)')
           /\ Cardinality(UsesIn(u, c, kind, k)') =< Limit(kind)
           /\ k >= Period(kind, now) =>
                 Cardinality(UsesIn(u, c, kind, k)') =< CountOf(<<u, c, kind, k>>)'
  <1> DEFINE uses == UsesIn(u, c, kind, k)
             x == [id |-> d, at |-> now]
             q == <<u, c, kind, k>>
             spent == {DayCounter(d), MinuteCounter(d)}
             here == d.user = u /\ d.channel = c /\ k = Period(kind, now)
  <1>1. /\ reserved' = reserved \cup {x} /\ d \in DOMAIN outbox /\ ~outbox[d].quota
        /\ quotas' = [p \in DOMAIN quotas \cup spent |->
                        IF p \in spent THEN [count |-> CountOf(p) + 1, updated |-> now]
                        ELSE quotas[p]]
    BY SendableRow DEF Reserved
  <1>2. /\ IsFiniteSet(uses) /\ Cardinality(uses) =< Limit(kind)
        /\ k >= Period(kind, now) => Cardinality(uses) =< CountOf(q)
    BY DEF UsesCounted
  <1>3. Cardinality(uses) \in Nat /\ CountOf(q) \in Nat
    BY <1>2, FS_CardinalityType, CountType
  <1>4. CountOf(q)' = IF q \in spent THEN CountOf(q) + 1 ELSE CountOf(q)
    <2> HIDE DEF spent, q
    <2>1. CountOf(q)' = IF q \in DOMAIN quotas' THEN quotas'[q].count ELSE 0
      BY DEF CountOf, q
    <2>2. CASE q \in spent
      BY <1>1, <2>1, <2>2
    <2>3. CASE q \notin spent
      BY <1>1, <2>1, <2>3 DEF CountOf
    <2> QED BY <2>2, <2>3
  <1>5. q \in spent <=> here
    <2> DEFINE day == Period("day", now)
               minute == Period("minute", now)
    <2>1. spent = {<<d.user, d.channel, "day", day>>, <<d.user, d.channel, "minute", minute>>}
      BY SpentCounters
    <2> HIDE DEF spent
    <2>2. CASE kind = "day"
      <3>1. q \in spent <=> d.user = u /\ d.channel = c /\ k = day
        <4> HIDE DEF day, minute
        <4> QED BY <2>1, <2>2
      <3> QED BY <2>2, <3>1
    <2>3. CASE kind = "minute"
      <3>1. q \in spent <=> d.user = u /\ d.channel = c /\ k = minute
        <4> HIDE DEF day, minute
        <4> QED BY <2>1, <2>3
      <3> QED BY <2>3, <3>1
    <2> QED BY <2>2, <2>3 DEF Kinds
  <1>6. UsesIn(u, c, kind, k)' = {y \in reserved' : y.id.user = u /\ y.id.channel = c
                                                    /\ Period(kind, y.at) = k}
    BY DEF UsesIn, Period, Length
  <1>7. CASE here
    <2>1. UsesIn(u, c, kind, k)' = uses \cup {x}
      BY <1>1, <1>6, <1>7 DEF UsesIn
    <2>2. x \notin uses
      BY <1>1 DEF ReservedOnce, UsesIn
    <2>3. IsFiniteSet(uses \cup {x}) /\ Cardinality(uses \cup {x}) = Cardinality(uses) + 1
      <3> HIDE DEF uses, x
      <3> QED BY <1>2, <2>2, FS_AddElement
    <2>4. CountOf(q) < Limit(kind) /\ Limit(kind) \in Nat
      <3>1. CountOf(q) < Limit(kind)
        BY <1>1, <1>7, RoomInBoth
      <3>2. Limit(kind) \in Nat
        BY SiteFacts, OutboxAssumption DEF Limit
      <3> QED BY <3>1, <3>2
    <2>5. k >= Period(kind, now) /\ CountOf(q)' = CountOf(q) + 1
      <3>1. Period(kind, now) \in Nat
        BY PeriodFacts DEF TypeOK
      <3> QED BY <1>4, <1>5, <1>7, <3>1
    <2> HIDE DEF uses, x, q
    <2>6. Cardinality(uses) + 1 =< CountOf(q)' /\ Cardinality(uses) + 1 =< Limit(kind)
      BY <1>2, <1>3, <2>4, <2>5
    <2> QED BY <2>1, <2>3, <2>6 DEF q
  <1>8. CASE ~here
    <2>1. UsesIn(u, c, kind, k)' = uses
      BY <1>1, <1>6, <1>8 DEF UsesIn
    <2>2. CountOf(q)' = CountOf(q)
      BY <1>4, <1>5, <1>8
    <2> HIDE DEF uses, here
    <2> QED BY <1>2, <2>1, <2>2
  <1> QED BY <1>7, <1>8

LEMMA UsesStep ==
    ASSUME TypeOK, ReservedOnce, CountersDated, UsesCounted, [Next]_vars
    PROVE  UsesCounted'
  <1>0. now \in Nat /\ now' \in Nat /\ now =< now' /\ site' = site
    <2>1. now \in Nat
      BY DEF TypeOK
    <2>2. now' = now \/ now' = now + 1
      BY ReserveStep DEF Reserved
    <2>3. site' = site
      BY DEF Next, vars, Subscribe, ChangeAudience, ChangePaid, RetryNotification, Notify,
             Work, ClaimNotifications, Send, FinishNotification, Prune, Tick
    <2> QED BY <2>1, <2>2, <2>3
  <1> SUFFICES ASSUME NEW u \in Users, NEW c \in Channels, NEW kind \in Kinds, NEW k \in Nat
               PROVE  /\ IsFiniteSet(UsesIn(u, c, kind, k)')
                      /\ Cardinality(UsesIn(u, c, kind, k)') =< Limit(kind)
                      /\ k >= Period(kind, now') =>
                            Cardinality(UsesIn(u, c, kind, k)') =< CountOf(<<u, c, kind, k>>)'
    BY <1>0 DEF UsesCounted, Limit, Period, Length, Kinds
  <1>1. k >= Period(kind, now') => k >= Period(kind, now)
    <2>1. Period(kind, now) =< Period(kind, now') /\ Period(kind, now) \in Nat
          /\ Period(kind, now') \in Nat
      BY <1>0, PeriodFacts
    <2> QED BY <2>1
  <1>2. CASE /\ reserved' = reserved
             /\ \/ CountersKept
                \/ quotas' = [q \in DOMAIN quotas \ OldCounters |-> quotas[q]]
    <2>1. UsesIn(u, c, kind, k)' = UsesIn(u, c, kind, k)
      BY <1>2 DEF UsesIn, Period, Length
    <2>2. k >= Period(kind, now) => CountOf(<<u, c, kind, k>>)' = CountOf(<<u, c, kind, k>>)
      BY <1>2, CountsStay
    <2>3. /\ IsFiniteSet(UsesIn(u, c, kind, k))
          /\ Cardinality(UsesIn(u, c, kind, k)) =< Limit(kind)
          /\ k >= Period(kind, now) =>
                Cardinality(UsesIn(u, c, kind, k)) =< CountOf(<<u, c, kind, k>>)
      BY DEF UsesCounted
    <2> QED BY <1>1, <2>1, <2>2, <2>3
  <1>3. ASSUME NEW d \in Sendable, Reserved(d)
        PROVE  /\ IsFiniteSet(UsesIn(u, c, kind, k)')
               /\ Cardinality(UsesIn(u, c, kind, k)') =< Limit(kind)
               /\ k >= Period(kind, now) =>
                     Cardinality(UsesIn(u, c, kind, k)') =< CountOf(<<u, c, kind, k>>)'
    BY <1>3, ReservationCounts
  <1>4. \/ /\ reserved' = reserved
           /\ \/ CountersKept
              \/ quotas' = [q \in DOMAIN quotas \ OldCounters |-> quotas[q]]
        \/ \E d \in Sendable : Reserved(d)
    BY ReserveStep
  <1> QED BY <1>1, <1>2, <1>3, <1>4

\* Instant 0 has used at most what the deliveries of past events reserved.
LEMMA UsesInit ==
    ASSUME Init
    PROVE  ReservedOnce /\ CountersDated /\ UsesCounted
  <1>0. TypeOK
    BY TypeInit
  <1> DEFINE past == site.past
             served == site.channels \ {"in_app"}
             n == Cardinality(past)
  <1>1. /\ IsFiniteSet(past) /\ n \in Nat /\ n =< site.daily /\ n =< MinuteLimit
    <2>1. IsFiniteSet(past) /\ n =< site.daily /\ n =< MinuteLimit
      BY OutboxAssumption DEF Init
    <2> QED BY <2>1, FS_CardinalityType
  <1>2. /\ now = 1 /\ DOMAIN outbox = {}
        /\ quotas = [q \in IF past = {} THEN {} ELSE Users \X served \X Kinds \X {0} |->
                       [count |-> n, updated |-> 0]]
        /\ reserved = {[id |-> d, at |-> 0] : d \in [event : past, user : Users, channel : served]}
    BY DEF Init, Kinds
  <1> HIDE DEF past, n, served
  <1>3. ReservedOnce
    BY <1>2 DEF ReservedOnce
  <1>4. CountersDated
    <2>1. \A q \in DOMAIN quotas : q[3] \in Kinds /\ q[4] = 0 /\ quotas[q].updated = 0
      BY <1>2
    <2> QED BY <2>1, PeriodFacts DEF CountersDated
  <1>5. ASSUME NEW u \in Users, NEW c \in Channels, NEW kind \in Kinds, NEW k \in Nat
        PROVE  /\ IsFiniteSet(UsesIn(u, c, kind, k))
               /\ Cardinality(UsesIn(u, c, kind, k)) =< Limit(kind)
               /\ Cardinality(UsesIn(u, c, kind, k)) =< CountOf(<<u, c, kind, k>>)
    <2> DEFINE uses == UsesIn(u, c, kind, k)
               f == [y \in uses |-> y.id.event]
    <2>1. Limit(kind) \in Nat /\ n =< Limit(kind) /\ CountOf(<<u, c, kind, k>>) \in Nat
      BY <1>0, <1>1, SiteFacts, OutboxAssumption, CountType DEF Limit
    <2>2. \A y \in uses : /\ y.id.event \in past /\ c \in served /\ k = 0
                          /\ y = [id |-> [event |-> y.id.event, user |-> u, channel |-> c], at |-> 0]
      <3>1. \A y \in uses : /\ y.at = 0 /\ y.id.user = u /\ y.id.channel = c
                            /\ y.id \in [event : past, user : Users, channel : served]
                            /\ y = [id |-> y.id, at |-> 0]
        BY <1>2 DEF UsesIn
      <3>2. \A y \in uses : Period(kind, y.at) = k
        BY DEF UsesIn
      <3> HIDE DEF uses
      <3>3. \A y \in uses : k = 0
        BY <3>1, <3>2, PeriodFacts
      <3>4. \A y \in uses : /\ y.id.event \in past /\ c \in served
                            /\ y.id = [event |-> y.id.event, user |-> u, channel |-> c]
        BY <3>1
      <3> QED BY <3>1, <3>3, <3>4
    <2> HIDE DEF uses
    <2>3. f \in Injection(uses, past)
      <3>1. f \in [uses -> past]
        BY <2>2
      <3>2. \A a, b \in uses : f[a] = f[b] => a = b
        BY <2>2
      <3> HIDE DEF f
      <3> QED BY <3>1, <3>2, Zenon DEF Injection, IsInjective
    <2>4. IsFiniteSet(uses) /\ Cardinality(uses) =< n
      <3> HIDE DEF f
      <3> QED BY <1>1, <2>3, FS_Injection DEF n
    <2>5. Cardinality(uses) \in Nat
      BY <2>4, FS_CardinalityType
    <2>6. Cardinality(uses) =< CountOf(<<u, c, kind, k>>)
      <3>1. CASE uses = {}
        BY <2>1, <3>1, FS_EmptySet
      <3>2. CASE uses # {}
        <4>1. past # {} /\ c \in served /\ k = 0
          BY <2>2, <3>2
        <4>2. <<u, c, kind, k>> \in Users \X served \X Kinds \X {0}
          BY <4>1
        <4>3. CountOf(<<u, c, kind, k>>) = n
          BY <1>2, <4>1, <4>2 DEF CountOf
        <4> QED BY <2>4, <4>3
      <3> QED BY <3>1, <3>2
    <2> HIDE DEF f
    <2>7. Cardinality(uses) =< Limit(kind)
      BY <1>1, <2>1, <2>4, <2>5
    <2> QED BY <2>4, <2>6, <2>7 DEF uses
  <1>6. UsesCounted
    BY <1>5 DEF UsesCounted
  <1> QED BY <1>3, <1>4, <1>6

\* For any limits and any period lengths, as long as counters are kept for two
\* days: a delivery reserves quota once, and no day and no minute has more
\* reservations for a user and a channel than its limit.
THEOREM QuotaNeverOverdrawn == Spec => []QuotaKept
  <1> DEFINE QuotaInv == ReservedOnce /\ CountersDated /\ UsesCounted
  <1>1. Init => QuotaInv
    BY UsesInit
  <1>2. OutboxInv /\ QuotaInv /\ [Next]_vars => QuotaInv'
    BY ReservedOnceStep, DatedStep, UsesStep DEF OutboxInv
  <1>3. OutboxInv /\ QuotaInv => QuotaKept
    <2> SUFFICES ASSUME OutboxInv, QuotaInv, NEW x \in reserved
                 PROVE  LET same == {y \in reserved : /\ y.id.user = x.id.user
                                                      /\ y.id.channel = x.id.channel}
                        IN /\ Cardinality({y \in same : DayOf(y.at) = DayOf(x.at)}) =< site.daily
                           /\ Cardinality({y \in same : MinuteOf(y.at) = MinuteOf(x.at)})
                                 =< MinuteLimit
      BY DEF QuotaKept, ReservedOnce
    <2> DEFINE u == x.id.user
               c == x.id.channel
               same == {y \in reserved : y.id.user = x.id.user /\ y.id.channel = x.id.channel}
    <2>1. u \in Users /\ c \in Channels /\ x.at \in Nat
      BY DEF OutboxInv, TypeOK, ReservationType, DeliveryId
    <2>2. {y \in same : DayOf(y.at) = DayOf(x.at)} = UsesIn(u, c, "day", Period("day", x.at))
      BY DEF UsesIn, Period, Length, DayOf
    <2>3. {y \in same : MinuteOf(y.at) = MinuteOf(x.at)}
            = UsesIn(u, c, "minute", Period("minute", x.at))
      BY DEF UsesIn, Period, Length, MinuteOf
    <2>4. Period("day", x.at) \in Nat /\ Period("minute", x.at) \in Nat
      BY <2>1, PeriodFacts DEF Kinds
    <2>5. /\ Cardinality(UsesIn(u, c, "day", Period("day", x.at))) =< Limit("day")
          /\ Cardinality(UsesIn(u, c, "minute", Period("minute", x.at))) =< Limit("minute")
      BY <2>1, <2>4 DEF UsesCounted, Kinds
    <2> QED BY <2>2, <2>3, <2>5 DEF Limit
  <1> QED BY <1>1, <1>2, <1>3, OutboxInvariant, PTL DEF Spec
=============================================================================
