------------------------ MODULE TelegramChannelProofs ------------------------
(* What holds of TelegramChannel for every set of users, chats and workers, *)
(* and for every lease, retry and wait.                                     *)
EXTENDS TelegramChannel, SequenceTheorems, TLAPS

RowStates == {"pending", "sending", "retry", "rate_limited", "delivered", "cancelled", "failed"}
Request == [user : Users, bot : Bots, expires : Nat, consumed : Chats \cup {NoChat}]
Row == [state : RowStates, fence : Nat, attempts : 0 .. MaxAttempts, leaseUntil : Nat,
        retryAt : Nat, created : Nat, bot : Bots, chat : Chats, generation : Nat, via : Nat,
        gone : BOOLEAN]

\* A row being sent has an attempt behind it, so that Backoff has a wait for it.
RowOK(r) == r \in Row /\ (r.state = "sending" => r.attempts > 0)

PollOK(p) ==
    /\ DOMAIN p = DOMAIN FreshPoll
    /\ p.fence \in Nat /\ p.leaseUntil \in Nat /\ p.next \in Nat /\ p.offset \in Nat

\* An update of Telegram's, with the request its message names.
Update == [id : Nat, nonce : Nat, chat : Chats]

\* A worker that goes through a batch has an update of it at hand.
WorkerOK(x) ==
    /\ DOMAIN x = DOMAIN Out
    /\ x.wait \in Nat /\ x.batch \in Seq(Update)
    /\ x.pc \in {"batch", "handled"} => x.batch # <<>>

\* The stored rows have the shapes model.go declares.
TypeOK ==
    /\ now \in Nat /\ site \in Sites
    /\ DOMAIN polls = Bots /\ \A b \in Bots : PollOK(polls[b])
    /\ DOMAIN links = Users /\ \A u \in Users : links[u] \in Link \cup {NoLink}
    /\ nonces \in Nat /\ DOMAIN requests \subseteq 1 .. nonces
    /\ \A n \in DOMAIN requests : requests[n] \in Request
    /\ DOMAIN outbox \subseteq Delivery /\ \A d \in DOMAIN outbox : RowOK(outbox[d])
    /\ inbox \in [Bots -> Seq(Update)] /\ sent \in Nat
    /\ DOMAIN worker = Workers /\ \A w \in Workers : WorkerOK(worker[w])
    /\ current \in [Users -> 0 .. nonces]

\* A user has no open request but the newest one since the last disconnect.
RequestsAreCurrent == \A n \in DOMAIN requests : current[requests[n].user] = n

\* A bot that was told to wait has no lease.
WaitingIsFree == \A b \in Bots : polls[b].next > now => polls[b].leaseUntil =< now

Open(row) == row.state \notin {"delivered", "cancelled"}

\* A row that can still be sent or fail belongs to a user with a link; when it
\* has that link's generation it was made for that link.
OpenRowsLinked ==
    \A d \in DOMAIN outbox : Open(outbox[d]) =>
        /\ links[d.user] # NoLink
        /\ outbox[d].generation =< links[d.user].generation
        /\ outbox[d].generation = links[d.user].generation => outbox[d].via = links[d.user].via

TelegramInv ==
    TypeOK /\ RequestsAreCurrent /\ WaitingIsFree /\ OpenRowsLinked /\ ChatHasOneUser
-----------------------------------------------------------------------------
(* Rows, links and polls: what a step may do to each *)

SameLink(new, old) ==
    /\ new.bot = old.bot /\ new.chat = old.chat
    /\ new.generation = old.generation /\ new.via = old.via

\* A row is settled, put off or made pending again; closed rows stay closed.
RowStep(new, old) ==
    /\ RowOK(new) /\ SameLink(new, old)
    /\ Open(new) => Open(old)
    /\ new.attempts =< old.attempts

Handed(d) ==
    /\ RowOK(outbox'[d]) /\ SameLink(outbox'[d], outbox[d])
    /\ \E w \in Crew : Holds(w) /\ d \in Ready(BotOf(w)) /\ Consents(d)

Created(d) ==
    /\ d \in Delivery /\ RowOK(outbox'[d])
    /\ links[d.user] # NoLink /\ links'[d.user] = links[d.user]
    /\ outbox'[d].generation = links[d.user].generation /\ outbox'[d].via = links[d.user].via

RowsMove ==
    /\ DOMAIN outbox \subseteq DOMAIN outbox'
    /\ \A d \in DOMAIN outbox : RowStep(outbox'[d], outbox[d]) \/ Handed(d)
    /\ \A d \in DOMAIN outbox' : d \in DOMAIN outbox \/ Created(d)

Disconnected(u) ==
    /\ links'[u] = NoLink
    /\ \A d \in DOMAIN outbox' : d.user = u => ~Open(outbox'[d])

Failed(u) ==
    /\ links[u] # NoLink /\ links'[u] = [links[u] EXCEPT !.failed = TRUE]
    /\ \E w \in Workers : /\ worker[w].result = "gone" /\ RowHeld(w)
                          /\ worker[w].row.id.user = u /\ Matches(worker[w].row.id, links[u])

Linked(u) ==
    \E n \in DOMAIN requests, b \in Bots, c \in Chats :
        /\ requests[n].user = u /\ ChatIsFree(u, b, c)
        /\ links'[u] = [bot |-> b, chat |-> c, failed |-> FALSE, via |-> n,
                        generation |-> IF links[u] = NoLink THEN 1 ELSE links[u].generation + 1]

LinksMove ==
    /\ DOMAIN links' = Users
    /\ \/ \A u \in Users : links'[u] = links[u]
       \/ \E u \in Users : /\ \A v \in Users \ {u} : links'[v] = links[v]
                           /\ Disconnected(u) \/ Failed(u) \/ Linked(u)

PollMoves(b) ==
    \/ polls'[b] = polls[b]
    \/ /\ PollOK(polls'[b])
       /\ polls[b].leaseUntil > now \/ Free(b)
       /\ now' = now
       /\ polls'[b].next = polls[b].next \/ polls'[b].leaseUntil = now

PollsMove == DOMAIN polls' = Bots /\ \A b \in Bots : PollMoves(b)

LEMMA CrewFacts ==
    ASSUME TypeOK, NEW w \in Crew
    PROVE  w \in Workers /\ BotOf(w) \in Bots
  <1>1. site \in Sites /\ w \in DOMAIN site.grant
    BY DEF TypeOK, Crew
  <1>2. BotOf(w) \in {site.grant[v].bot : v \in DOMAIN site.grant}
    BY <1>1 DEF BotOf
  <1> QED BY <1>1, <1>2, TelegramAssumption DEF Bots

\* A poll is renewed, or taken from its holder, in its lease and cooldown only.
LEMMA RenewedEffect ==
    ASSUME TypeOK, NEW p, PollOK(p)
    PROVE  PollOK(Renewed(p)) /\ Renewed(p).next = p.next
  <1>1. now + LeaseDuration \in Nat
    BY TelegramAssumption DEF TypeOK
  <1> QED BY <1>1 DEF Renewed, PollOK, FreshPoll

LEMMA DeferredEffect ==
    ASSUME TypeOK, NEW p, PollOK(p), NEW t \in Nat
    PROVE  PollOK(Deferred(p, t)) /\ Deferred(p, t).leaseUntil = now
  <1>1. now \in Nat /\ now + t \in Nat /\ p.fence + 1 \in Nat
    BY DEF TypeOK, PollOK
  <1> QED BY <1>1 DEF Deferred, PollOK, FreshPoll
-----------------------------------------------------------------------------
(* What each operation writes into a row *)

LEMMA RowStays ==
    ASSUME NEW r, RowOK(r)
    PROVE  RowStep(r, r)
  <1>1. r.attempts \in 0 .. MaxAttempts /\ MaxAttempts \in Nat
    BY TelegramAssumption DEF RowOK, Row
  <1>2. r.attempts =< r.attempts
    BY <1>1
  <1> QED BY <1>2 DEF RowStep, SameLink

\* A row whose state and retry time are rewritten is still a row of its link.
LEMMA RowRewritten ==
    ASSUME NEW r, RowOK(r), NEW s \in RowStates \ {"sending"}, NEW t \in Nat,
           NEW f \in Nat, NEW a \in 0 .. MaxAttempts, NEW g \in BOOLEAN, a =< r.attempts
    PROVE  LET new == [r EXCEPT !.state = s, !.fence = f, !.attempts = a,
                                !.retryAt = t, !.gone = g]
           IN /\ RowOK(new) /\ SameLink(new, r) /\ new.state = s
              /\ s = "cancelled" \/ Open(r) => RowStep(new, r)
  <1> DEFINE new == [r EXCEPT !.state = s, !.fence = f, !.attempts = a, !.retryAt = t, !.gone = g]
  <1>1. new \in Row
    BY Zenon DEF RowOK, Row
  <1>2. new.state = s /\ new.attempts = a /\ SameLink(new, r)
    BY DEF RowOK, Row, SameLink
  <1> HIDE DEF new
  <1>3. RowOK(new) /\ new.attempts =< r.attempts
    BY <1>1, <1>2 DEF RowOK
  <1>4. /\ RowOK(new) /\ SameLink(new, r) /\ new.state = s
        /\ s = "cancelled" \/ Open(r) => RowStep(new, r)
    BY <1>2, <1>3 DEF RowStep, Open
  <1> QED BY <1>4 DEF new

LEMMA RowFields ==
    ASSUME NEW r, RowOK(r)
    PROVE  /\ r.fence \in Nat /\ r.fence + 1 \in Nat /\ r.attempts \in 0 .. MaxAttempts
           /\ r.attempts =< r.attempts /\ r.retryAt \in Nat /\ r.gone \in BOOLEAN
           /\ 0 \in 0 .. MaxAttempts /\ 0 =< r.attempts
           /\ r.leaseUntil \in Nat /\ r.generation \in Nat /\ MaxAttempts \in Nat
  <1>1. /\ r.fence \in Nat /\ r.attempts \in 0 .. MaxAttempts /\ r.retryAt \in Nat
        /\ r.gone \in BOOLEAN /\ r.leaseUntil \in Nat /\ r.generation \in Nat
    BY DEF RowOK, Row
  <1>2. MaxAttempts \in Nat
    BY TelegramAssumption
  <1> QED BY <1>1, <1>2

\* Cancelling under the next fence.
LEMMA CancelledRow ==
    ASSUME NEW r, RowOK(r)
    PROVE  LET new == [r EXCEPT !.state = "cancelled", !.fence = @ + 1]
           IN RowStep(new, r) /\ ~Open(new)
  <1> DEFINE f == r.fence + 1
             new == [r EXCEPT !.state = "cancelled", !.fence = f, !.attempts = r.attempts,
                              !.retryAt = r.retryAt, !.gone = r.gone]
  <1>1. [r EXCEPT !.state = "cancelled", !.fence = @ + 1] = new
    BY DEF RowOK, Row
  <1>2. "cancelled" \in RowStates \ {"sending"} /\ f \in Nat
    BY RowFields DEF RowStates
  <1> HIDE DEF f
  <1>3. RowStep(new, r)
    BY <1>2, RowFields, RowRewritten
  <1>4. new.state = "cancelled"
    BY DEF RowOK, Row
  <1> HIDE DEF new
  <1> QED BY <1>1, <1>3, <1>4 DEF Open

LEMMA CancelEffect ==
    ASSUME TypeOK, NEW rows, Cancel(rows)
    PROVE  /\ DOMAIN outbox' = DOMAIN outbox
           /\ \A d \in DOMAIN outbox : RowStep(outbox'[d], outbox[d])
           /\ \A d \in DOMAIN outbox : d \in rows => ~Open(outbox'[d])
  <1>1. /\ DOMAIN outbox' = DOMAIN outbox
        /\ \A d \in DOMAIN outbox :
              outbox'[d] = IF d \in rows
                           THEN [outbox[d] EXCEPT !.state = "cancelled", !.fence = @ + 1]
                           ELSE outbox[d]
    BY DEF Cancel
  <1>2. ASSUME NEW d \in DOMAIN outbox
        PROVE  RowStep(outbox'[d], outbox[d]) /\ (d \in rows => ~Open(outbox'[d]))
    <2>1. RowOK(outbox[d])
      BY DEF TypeOK
    <2>2. CASE d \in rows
      BY <1>1, <2>1, <2>2, CancelledRow
    <2>3. CASE d \notin rows
      BY <1>1, <2>1, <2>3, RowStays
    <2> QED BY <2>2, <2>3
  <1> QED BY <1>1, <1>2

\* The loop cancels, fails or puts off what it does not hand out.
LEMMA ClosedEffect ==
    ASSUME TypeOK, NEW b, NEW d \in Ready(b)
    PROVE  RowStep(Closed(d), outbox[d])
  <1> DEFINE r == outbox[d]
  <1>1. RowOK(r) /\ Open(r) /\ now + 1 \in Nat
    BY DEF Ready, TypeOK, Open
  <1>2. \/ Closed(d) = [r EXCEPT !.state = "cancelled"]
        \/ Closed(d) = [r EXCEPT !.state = "failed"]
        \/ Closed(d) = [r EXCEPT !.state = "rate_limited", !.retryAt = now + 1]
    <2>1. CASE ~Consents(d)
      BY Zenon, <2>1 DEF Closed
    <2>2. CASE Consents(d) /\ outbox[d].attempts >= MaxAttempts
      BY Zenon, <2>2 DEF Closed
    <2>3. CASE Consents(d) /\ ~(outbox[d].attempts >= MaxAttempts)
      BY Zenon, <2>3 DEF Closed
    <2> QED BY <2>1, <2>2, <2>3
  <1> HIDE DEF r
  <1>3. /\ [r EXCEPT !.state = "cancelled"]
             = [r EXCEPT !.state = "cancelled", !.fence = r.fence, !.attempts = r.attempts,
                         !.retryAt = r.retryAt, !.gone = r.gone]
        /\ [r EXCEPT !.state = "failed"]
             = [r EXCEPT !.state = "failed", !.fence = r.fence, !.attempts = r.attempts,
                         !.retryAt = r.retryAt, !.gone = r.gone]
        /\ [r EXCEPT !.state = "rate_limited", !.retryAt = now + 1]
             = [r EXCEPT !.state = "rate_limited", !.fence = r.fence, !.attempts = r.attempts,
                         !.retryAt = now + 1, !.gone = r.gone]
    BY <1>1 DEF RowOK, Row
  <1>4. {"cancelled", "failed", "rate_limited"} \subseteq RowStates \ {"sending"}
    BY DEF RowStates
  <1>5. /\ RowStep([r EXCEPT !.state = "cancelled", !.fence = r.fence, !.attempts = r.attempts,
                             !.retryAt = r.retryAt, !.gone = r.gone], r)
        /\ RowStep([r EXCEPT !.state = "failed", !.fence = r.fence, !.attempts = r.attempts,
                             !.retryAt = r.retryAt, !.gone = r.gone], r)
        /\ RowStep([r EXCEPT !.state = "rate_limited", !.fence = r.fence, !.attempts = r.attempts,
                             !.retryAt = now + 1, !.gone = r.gone], r)
    BY <1>1, <1>4, RowFields, RowRewritten
  <1>6. RowStep(Closed(d), r)
    BY <1>2, <1>3, <1>5
  <1> QED BY <1>6 DEF r

LEMMA LeaseEffect ==
    ASSUME TypeOK, NEW d \in DOMAIN outbox, outbox[d].attempts < MaxAttempts
    PROVE  RowOK(Lease(d)) /\ SameLink(Lease(d), outbox[d])
  <1> DEFINE r == outbox[d]
  <1>1. RowOK(r) /\ now + LeaseDuration \in Nat /\ "sending" \in RowStates
    BY TelegramAssumption DEF TypeOK, RowStates
  <1>2. Lease(d) = [r EXCEPT !.state = "sending", !.fence = r.fence + 1,
                             !.attempts = r.attempts + 1,
                             !.leaseUntil = now + LeaseDuration, !.retryAt = 0]
    BY DEF Lease
  <1>3. r.attempts < MaxAttempts
    OBVIOUS
  <1> HIDE DEF r
  <1>4. r.attempts + 1 \in 0 .. MaxAttempts /\ r.attempts + 1 > 0 /\ 0 \in Nat
        /\ r.fence + 1 \in Nat
    BY <1>1, <1>3, RowFields
  <1>5. Lease(d) \in Row
    BY Zenon, <1>1, <1>2, <1>4 DEF RowOK, Row
  <1>6. Lease(d).attempts = r.attempts + 1 /\ SameLink(Lease(d), r)
    BY <1>1, <1>2 DEF RowOK, Row, SameLink
  <1>7. RowOK(Lease(d))
    BY <1>4, <1>5, <1>6 DEF RowOK
  <1> QED BY <1>6, <1>7 DEF r

\* A row under way is answered: delivered, put off, failed, or its recipient is gone.
LEMMA AnsweredRow ==
    ASSUME NEW r, RowOK(r), Open(r), NEW s \in {"delivered", "failed", "retry"},
           NEW t \in Nat
    PROVE  /\ RowStep([r EXCEPT !.state = "delivered"], r)
           /\ RowStep([r EXCEPT !.state = s, !.retryAt = t], r)
           /\ RowStep([r EXCEPT !.state = "failed", !.gone = TRUE, !.retryAt = 0], r)
           /\ RowStep([r EXCEPT !.state = "pending", !.attempts = 0, !.retryAt = 0,
                                !.fence = @ + 1], r)
  <1> DEFINE f == r.fence + 1
  <1>1. /\ [r EXCEPT !.state = "delivered"]
             = [r EXCEPT !.state = "delivered", !.fence = r.fence, !.attempts = r.attempts,
                         !.retryAt = r.retryAt, !.gone = r.gone]
        /\ [r EXCEPT !.state = s, !.retryAt = t]
             = [r EXCEPT !.state = s, !.fence = r.fence, !.attempts = r.attempts,
                         !.retryAt = t, !.gone = r.gone]
        /\ [r EXCEPT !.state = "failed", !.gone = TRUE, !.retryAt = 0]
             = [r EXCEPT !.state = "failed", !.fence = r.fence, !.attempts = r.attempts,
                         !.retryAt = 0, !.gone = TRUE]
    BY DEF RowOK, Row
  <1>2. [r EXCEPT !.state = "pending", !.attempts = 0, !.retryAt = 0, !.fence = @ + 1]
             = [r EXCEPT !.state = "pending", !.fence = f, !.attempts = 0,
                         !.retryAt = 0, !.gone = r.gone]
    BY DEF RowOK, Row
  <1>3. {"delivered", "failed", "retry", "pending"} \subseteq RowStates \ {"sending"}
        /\ f \in Nat
    BY RowFields DEF RowStates
  <1> HIDE DEF f
  <1>4. RowStep([r EXCEPT !.state = "delivered", !.fence = r.fence, !.attempts = r.attempts,
                          !.retryAt = r.retryAt, !.gone = r.gone], r)
    BY <1>3, RowFields, RowRewritten
  <1>5. RowStep([r EXCEPT !.state = s, !.fence = r.fence, !.attempts = r.attempts,
                          !.retryAt = t, !.gone = r.gone], r)
    <2>1. s \in RowStates \ {"sending"}
      BY <1>3
    <2> QED BY <2>1, RowFields, RowRewritten
  <1>6. RowStep([r EXCEPT !.state = "failed", !.fence = r.fence, !.attempts = r.attempts,
                          !.retryAt = 0, !.gone = TRUE], r)
    <2>1. "failed" \in RowStates \ {"sending"} /\ TRUE \in BOOLEAN /\ 0 \in Nat
      BY <1>3
    <2> QED BY <2>1, RowFields, RowRewritten, Zenon
  <1>7. RowStep([r EXCEPT !.state = "pending", !.fence = f, !.attempts = 0,
                          !.retryAt = 0, !.gone = r.gone], r)
    BY <1>3, RowFields, RowRewritten
  <1> QED BY <1>1, <1>2, <1>4, <1>5, <1>6, <1>7
-----------------------------------------------------------------------------
(* Steps *)

LEMMA RowsStay ==
    ASSUME TypeOK, UNCHANGED outbox
    PROVE  RowsMove
  BY RowStays DEF RowsMove, TypeOK

LEMMA NotifyRows ==
    ASSUME TypeOK, NEW e \in Events, Notify(e)
    PROVE  RowsMove
  <1> DEFINE fresh == {d \in Delivery : /\ d.event = e
                                        /\ links[d.user] # NoLink /\ ~links[d.user].failed
                                        /\ subs[d.user] = links[d.user].bot}
             row(d) == [state |-> "pending", fence |-> 0, attempts |-> 0, leaseUntil |-> 0,
                        retryAt |-> 0, created |-> now, bot |-> links[d.user].bot,
                        chat |-> links[d.user].chat, generation |-> links[d.user].generation,
                        via |-> links[d.user].via, gone |-> FALSE]
  <1>1. outbox' = [d \in DOMAIN outbox \cup fresh |->
                     IF d \in fresh THEN row(d) ELSE outbox[d]]
        /\ links' = links /\ \A d \in DOMAIN outbox : d.event # e
    BY DEF Notify, people
  <1>2. \A d \in fresh : d \in Delivery /\ d.event = e /\ links[d.user] # NoLink
    OBVIOUS
  <1> HIDE DEF fresh
  <1>3. ASSUME NEW d \in fresh PROVE Created(d)
    <2>1. links[d.user] \in Link /\ now \in Nat
      BY <1>2 DEF TypeOK, Delivery
    <2>2. 0 \in 0 .. MaxAttempts /\ "pending" \in RowStates
      BY TelegramAssumption DEF RowStates
    <2>3. RowOK(row(d))
      BY <2>1, <2>2 DEF RowOK, Row, Link
    <2>4. outbox'[d] = row(d)
      BY <1>1, <1>3
    <2>5. row(d).generation = links[d.user].generation /\ row(d).via = links[d.user].via
      OBVIOUS
    <2> HIDE DEF row
    <2> QED BY <1>1, <1>2, <1>3, <2>3, <2>4, <2>5 DEF Created
  <1>4. ASSUME NEW d \in DOMAIN outbox PROVE RowStep(outbox'[d], outbox[d])
    <2>1. d \notin fresh
      BY <1>1, <1>2, <1>4
    <2>2. outbox'[d] = outbox[d]
      BY <1>1, <2>1
    <2> QED BY <2>2, RowStays DEF TypeOK
  <1>5. DOMAIN outbox' = DOMAIN outbox \cup fresh
    BY <1>1
  <1> HIDE DEF row
  <1> QED BY <1>3, <1>4, <1>5 DEF RowsMove

LEMMA ClaimRows ==
    ASSUME TypeOK, NEW w \in Crew, ClaimTelegramNotification(w)
    PROVE  RowsMove
  <1> DEFINE ready == Ready(BotOf(w))
             good == {d \in ready : Consents(d) /\ outbox[d].attempts < MaxAttempts}
  <1>1. PICK picked, passed : picked \subseteq good /\ passed \subseteq ready
                              /\ Hand(picked, passed)
    <2>1. PICK limited \in SUBSET {d \in good : outbox[d].fence = 0} :
             LET sendable == good \ limited
                 refused == ready \ sendable
             IN \/ Hand({}, refused)
                \/ \E d \in sendable, passed \in SUBSET refused : Hand({d}, passed)
      BY DEF ClaimTelegramNotification
    <2>2. CASE Hand({}, ready \ (good \ limited))
      BY <2>2
    <2>3. CASE \E d \in good \ limited, passed \in SUBSET (ready \ (good \ limited)) :
                  Hand({d}, passed)
      <3>1. PICK d \in good \ limited, passed \in SUBSET (ready \ (good \ limited)) :
                  Hand({d}, passed)
        BY <2>3
      <3>2. {d} \subseteq good /\ passed \subseteq ready
        BY <3>1
      <3> QED BY <3>1, <3>2
    <2> QED BY <2>1, <2>2, <2>3
  <1>2. Holds(w)
    BY DEF ClaimTelegramNotification
  <1>3. DOMAIN outbox' = DOMAIN outbox
    BY <1>1 DEF Hand
  <1>4. ASSUME NEW d \in DOMAIN outbox PROVE RowStep(outbox'[d], outbox[d]) \/ Handed(d)
    <2>1. CASE d \in picked
      <3>1. /\ outbox'[d] = Lease(d) /\ d \in ready /\ Consents(d)
            /\ outbox[d].attempts < MaxAttempts
        BY <1>1, <2>1 DEF Hand
      <3>2. RowOK(Lease(d)) /\ SameLink(Lease(d), outbox[d])
        BY <3>1, LeaseEffect
      <3> QED BY <1>2, <3>1, <3>2 DEF Handed
    <2>2. CASE d \notin picked /\ d \in passed
      <3>1. outbox'[d] = Closed(d) /\ d \in ready
        BY <1>1, <2>2 DEF Hand
      <3> QED BY <3>1, ClosedEffect
    <2>3. CASE d \notin picked /\ d \notin passed
      <3>1. outbox'[d] = outbox[d]
        BY <1>1, <2>3 DEF Hand
      <3> QED BY <3>1, RowStays DEF TypeOK
    <2> QED BY <2>1, <2>2, <2>3
  <1> QED BY <1>3, <1>4 DEF RowsMove

LEMMA RetryRows ==
    ASSUME TypeOK, NEW d \in DOMAIN outbox, RetryNotification(d)
    PROVE  RowsMove
  <1> DEFINE new == [outbox[d] EXCEPT !.state = "pending", !.attempts = 0,
                                      !.retryAt = 0, !.fence = @ + 1]
  <1>1. RowOK(outbox[d]) /\ Open(outbox[d])
    BY DEF TypeOK, RetryNotification, Open
  <1>2. RowStep(new, outbox[d])
    <2> DEFINE r == outbox[d]
    <2> HIDE DEF r
    <2>1. RowOK(r) /\ Open(r)
      BY <1>1 DEF r
    <2>2. RowStep([r EXCEPT !.state = "pending", !.attempts = 0, !.retryAt = 0,
                            !.fence = @ + 1], r)
      BY <2>1, AnsweredRow
    <2> QED BY <2>2 DEF r
  <1>3. outbox' = [outbox EXCEPT ![d] = new]
    BY DEF RetryNotification
  <1> HIDE DEF new
  <1>4. DOMAIN outbox' = DOMAIN outbox /\ outbox'[d] = new
        /\ \A e \in DOMAIN outbox : e # d => outbox'[e] = outbox[e]
    BY <1>3
  <1>5. \A e \in DOMAIN outbox : RowStep(outbox'[e], outbox[e])
    BY <1>2, <1>4, RowStays DEF TypeOK
  <1> QED BY <1>4, <1>5 DEF RowsMove

LEMMA GoneRows ==
    ASSUME TypeOK, NEW d \in DOMAIN outbox, Open(outbox[d]), RecipientGone(d)
    PROVE  RowsMove
  <1>1. DOMAIN outbox' = DOMAIN outbox
    BY DEF RecipientGone
  <1>2. ASSUME NEW e \in DOMAIN outbox PROVE RowStep(outbox'[e], outbox[e])
    <2> DEFINE r == outbox[e]
    <2>1. RowOK(r)
      BY DEF TypeOK
    <2>2. \/ e = d /\ outbox'[e] = [r EXCEPT !.state = "failed", !.gone = TRUE, !.retryAt = 0]
          \/ outbox'[e] = [r EXCEPT !.state = "cancelled", !.fence = @ + 1]
          \/ outbox'[e] = r
      BY DEF RecipientGone
    <2>3. e = d => Open(r)
      OBVIOUS
    <2> HIDE DEF r
    <2>4. /\ Open(r) => RowStep([r EXCEPT !.state = "failed", !.gone = TRUE, !.retryAt = 0], r)
          /\ RowStep([r EXCEPT !.state = "cancelled", !.fence = @ + 1], r)
          /\ RowStep(r, r)
      BY <2>1, AnsweredRow, CancelledRow, RowStays
    <2>5. RowStep(outbox'[e], r)
      BY <2>2, <2>3, <2>4
    <2> QED BY <2>5 DEF r
  <1> QED BY <1>1, <1>2 DEF RowsMove

LEMMA AnsweredRows ==
    ASSUME TypeOK, NEW w \in Crew, RowHeld(w), Answered(w, worker[w].row.id)
    PROVE  RowsMove
  <1> DEFINE d == worker[w].row.id
             r == outbox[d]
             back == now + Backoff[r.attempts]
             wait == now + worker[w].wait
             s == IF r.attempts >= MaxAttempts THEN "failed" ELSE "retry"
             t == IF back > wait THEN back ELSE wait
             new == IF worker[w].result = "accepted" THEN [r EXCEPT !.state = "delivered"]
                    ELSE [r EXCEPT !.state = s, !.retryAt = t]
  <1>1. d \in DOMAIN outbox /\ r.state = "sending" /\ RowOK(r)
    BY DEF RowHeld, TypeOK
  <1>2. outbox' = [outbox EXCEPT ![d] = new]
    BY DEF Answered
  <1>3. t \in Nat
    <2>1. r.attempts \in 1 .. MaxAttempts
      <3> HIDE DEF r
      <3> QED BY <1>1, RowFields DEF RowOK
    <2>2. Backoff[r.attempts] \in Nat
      BY <2>1, TelegramAssumption
    <2>3. now \in Nat /\ worker[w].wait \in Nat
      BY CrewFacts DEF TypeOK, WorkerOK
    <2> HIDE DEF r
    <2> QED BY <2>2, <2>3
  <1>4. s \in {"delivered", "failed", "retry"} /\ Open(r)
    BY <1>1 DEF Open
  <1> HIDE DEF s, t, r
  <1>5. RowStep([r EXCEPT !.state = "delivered"], r) /\ RowStep([r EXCEPT !.state = s, !.retryAt = t], r)
    BY <1>1, <1>3, <1>4, AnsweredRow
  <1>6. RowStep(new, r)
    BY <1>5
  <1> HIDE DEF new, d
  <1>7. DOMAIN outbox' = DOMAIN outbox /\ outbox'[d] = new
        /\ \A e \in DOMAIN outbox : e # d => outbox'[e] = outbox[e]
    BY <1>1, <1>2
  <1>8. \A e \in DOMAIN outbox : RowStep(outbox'[e], outbox[e])
    BY <1>6, <1>7, RowStays DEF TypeOK, r
  <1> QED BY <1>7, <1>8 DEF RowsMove

LEMMA EveryRowMoves ==
    ASSUME TypeOK, [Next]_vars
    PROVE  RowsMove
  <1>1. ASSUME NEW w \in Crew, RegisterRunner(w) PROVE RowsMove
    <2>1. UNCHANGED outbox \/ \E rows : Cancel(rows)
      BY <1>1 DEF RegisterRunner
    <2> QED BY <2>1, RowsStay, CancelEffect DEF RowsMove
  <1>2. ASSUME NEW u \in site.users, DisconnectTelegram(u) PROVE RowsMove
    <2>1. \E rows : Cancel(rows)
      BY <1>2 DEF DisconnectTelegram
    <2> QED BY <2>1, CancelEffect DEF RowsMove
  <1>3. ASSUME NEW w \in Crew, FinishTelegramNotification(w) PROVE RowsMove
    <2>1. CASE RowHeld(w) /\ RecipientGone(worker[w].row.id)
      <3>1. worker[w].row.id \in DOMAIN outbox /\ Open(outbox[worker[w].row.id])
        BY <2>1 DEF RowHeld, Open
      <3> QED BY <2>1, <3>1, GoneRows
    <2>2. CASE RowHeld(w) /\ Answered(w, worker[w].row.id)
      BY <2>2, AnsweredRows
    <2>3. CASE UNCHANGED outbox
      BY <2>3, RowsStay
    <2> QED BY <1>3, <2>1, <2>2, <2>3 DEF FinishTelegramNotification
  <1>4. ASSUME NEW w \in Crew,
               \/ ClaimTelegramPoll(w) \/ RenewTelegramPoll(w) \/ GiveUp(w) \/ Send(w)
               \/ GetUpdates(w) \/ CompleteTelegramLinkByRunner(w) \/ AdvanceTelegramPoll(w)
               \/ \E t \in FloodWaits : DeferTelegramPoll(w, t)
        PROVE  UNCHANGED outbox
    BY <1>4 DEF ClaimTelegramPoll, RenewTelegramPoll, GiveUp, Send, GetUpdates,
                CompleteTelegramLinkByRunner, AdvanceTelegramPoll, DeferTelegramPoll
  <1>5. ASSUME NEW u \in site.users, BeginTelegramLink(u) \/ Subscribe(u) \/ Unsubscribe(u)
        PROVE  UNCHANGED outbox
    BY <1>5 DEF BeginTelegramLink, Subscribe, Unsubscribe
  <1>6. ASSUME NEW r \in RunnerIds, Seen(r) PROVE UNCHANGED outbox
    BY <1>6 DEF Seen
  <1>7. ASSUME NEW n \in 1 .. nonces, NEW c \in Chats, NEW w \in Crew, Message(n, c, BotOf(w))
        PROVE  UNCHANGED outbox
    BY <1>7 DEF Message
  <1>8. Tick \/ UNCHANGED vars => UNCHANGED outbox
    BY DEF Tick, vars
  <1> QED BY <1>1, <1>2, <1>3, <1>4, <1>5, <1>6, <1>7, <1>8, RowsStay, NotifyRows, ClaimRows,
             RetryRows DEF Next

\* The update a worker is at.
LEMMA HeadOfBatch ==
    ASSUME TypeOK, NEW w \in Crew, worker[w].pc \in {"batch", "handled"}
    PROVE  /\ Head(worker[w].batch) \in Update
           /\ Tail(worker[w].batch) \in Seq(Update)
  <1>1. worker[w].batch \in Seq(Update) /\ worker[w].batch # <<>>
    BY CrewFacts DEF TypeOK, WorkerOK
  <1> QED BY <1>1, HeadTailProperties

\* A link is made from a request, given up after a failure, or removed with all
\* that is still to be sent through it.
LEMMA EveryLinkMoves ==
    ASSUME TypeOK, [Next]_vars
    PROVE  LinksMove
  <1>0. DOMAIN links = Users
    BY DEF TypeOK
  <1>1. ASSUME NEW u \in site.users, DisconnectTelegram(u) PROVE LinksMove
    <2>1. u \in Users
      BY <1>1, TelegramAssumption DEF TypeOK
    <2>2. links' = [links EXCEPT ![u] = NoLink] /\ Cancel(Undelivered \cap RowsOf(u))
      BY <1>1 DEF DisconnectTelegram
    <2>3. ASSUME NEW d \in DOMAIN outbox', d.user = u PROVE ~Open(outbox'[d])
      <3>1. d \in DOMAIN outbox
        BY <2>2, <2>3, CancelEffect
      <3>2. CASE outbox[d].state # "delivered"
        BY <2>2, <2>3, <3>1, <3>2, CancelEffect DEF Undelivered, RowsOf
      <3>3. CASE outbox[d].state = "delivered"
        <4>1. outbox'[d] = outbox[d]
          BY <2>2, <3>1, <3>3 DEF Cancel, Undelivered
        <4> QED BY <3>3, <4>1 DEF Open
      <3> QED BY <3>2, <3>3
    <2>4. Disconnected(u)
      BY <1>0, <2>1, <2>2, <2>3 DEF Disconnected
    <2>5. DOMAIN links' = Users /\ \A v \in Users \ {u} : links'[v] = links[v]
      BY <1>0, <2>2
    <2> QED BY <2>1, <2>4, <2>5 DEF LinksMove
  <1>2. ASSUME NEW w \in Crew, FinishTelegramNotification(w) PROVE LinksMove
    <2> DEFINE d == worker[w].row.id
               u == d.user
    <2>1. CASE UNCHANGED links
      BY <1>0, <2>1 DEF LinksMove
    <2>2. CASE RowHeld(w) /\ worker[w].result = "gone" /\ RecipientGone(d) /\ Matches(d, links[u])
      <3>1. u \in Users /\ w \in Workers
        BY <2>2, CrewFacts DEF RowHeld, TypeOK, Delivery
      <3>2. links' = [links EXCEPT ![u] = [links[u] EXCEPT !.failed = TRUE]]
        BY <2>2 DEF RecipientGone
      <3>3. links'[u] = [links[u] EXCEPT !.failed = TRUE] /\ DOMAIN links' = Users
            /\ \A v \in Users \ {u} : links'[v] = links[v]
        <4> HIDE DEF u
        <4> QED BY <1>0, <3>1, <3>2
      <3>4. Failed(u)
        BY <2>2, <3>1, <3>3 DEF Failed, Matches
      <3> HIDE DEF u
      <3> QED BY <3>1, <3>3, <3>4 DEF LinksMove
    <2>3. \/ UNCHANGED links
          \/ RowHeld(w) /\ worker[w].result = "gone" /\ RecipientGone(d) /\ Matches(d, links[u])
      BY <1>2 DEF FinishTelegramNotification, RecipientGone, Answered
    <2> QED BY <2>1, <2>2, <2>3
  <1>3. ASSUME NEW w \in Crew, CompleteTelegramLinkByRunner(w) PROVE LinksMove
    <2> DEFINE b == BotOf(w)
               m == Head(worker[w].batch)
               n == m.nonce
               c == m.chat
               u == requests[n].user
    <2>1. CASE UNCHANGED links
      BY <1>0, <2>1 DEF LinksMove
    <2>2. CASE Linkable(m, b)
               /\ links' = [links EXCEPT ![u] =
                              [bot |-> b, chat |-> c, failed |-> FALSE, via |-> n,
                               generation |-> IF links[u] = NoLink THEN 1
                                              ELSE links[u].generation + 1]]
      <3>1. n \in DOMAIN requests /\ ChatIsFree(u, b, c) /\ b \in Bots /\ u \in Users
        BY <2>2, CrewFacts DEF Linkable, TypeOK, Request
      <3>2. c \in Chats
        BY <1>3, HeadOfBatch DEF CompleteTelegramLinkByRunner, Update
      <3> HIDE DEF b, u, n, c
      <3>3. /\ links'[u] = [bot |-> b, chat |-> c, failed |-> FALSE, via |-> n,
                            generation |-> IF links[u] = NoLink THEN 1
                                           ELSE links[u].generation + 1]
            /\ DOMAIN links' = Users /\ \A v \in Users \ {u} : links'[v] = links[v]
        BY <1>0, <2>2, <3>1
      <3>4. Linked(u)
        BY <3>1, <3>2, <3>3 DEF Linked, u
      <3> QED BY <3>1, <3>3, <3>4 DEF LinksMove
    <2> QED BY <1>3, <2>1, <2>2 DEF CompleteTelegramLinkByRunner
  <1>4. ASSUME UNCHANGED links PROVE LinksMove
    BY <1>0, <1>4 DEF LinksMove
  <1>5. ASSUME NEW w \in Crew,
               \/ RegisterRunner(w) \/ ClaimTelegramPoll(w) \/ RenewTelegramPoll(w) \/ GiveUp(w)
               \/ ClaimTelegramNotification(w) \/ Send(w) \/ GetUpdates(w)
               \/ AdvanceTelegramPoll(w) \/ \E t \in FloodWaits : DeferTelegramPoll(w, t)
        PROVE  UNCHANGED links
    BY <1>5 DEF RegisterRunner, ClaimTelegramPoll, RenewTelegramPoll, GiveUp, Send, GetUpdates,
                ClaimTelegramNotification, AdvanceTelegramPoll, DeferTelegramPoll, people
  <1>6. ASSUME NEW u \in site.users, BeginTelegramLink(u) \/ Subscribe(u) \/ Unsubscribe(u)
        PROVE  UNCHANGED links
    BY <1>6 DEF BeginTelegramLink, Subscribe, Unsubscribe
  <1>7. \/ \E r \in RunnerIds : Seen(r)
        \/ \E e \in Events : Notify(e)
        \/ \E d \in DOMAIN outbox : RetryNotification(d)
        \/ \E n \in 1 .. nonces, c \in Chats, w \in Crew : Message(n, c, BotOf(w))
        \/ Tick \/ UNCHANGED vars
        => UNCHANGED links
    BY DEF Seen, Notify, RetryNotification, Message, Tick, vars, people
  <1> QED BY <1>1, <1>2, <1>3, <1>4, <1>5, <1>6, <1>7 DEF Next

LEMMA PollsStay ==
    ASSUME TypeOK, UNCHANGED polls
    PROVE  PollsMove
  BY DEF PollsMove, PollMoves, TypeOK

\* One poll is written, by the holder of its lease or while it is free.
LEMMA OnePollMoves ==
    ASSUME TypeOK, NEW w \in Crew, NEW p, polls' = [polls EXCEPT ![BotOf(w)] = p],
           PollOK(p), now' = now,
           polls[BotOf(w)].leaseUntil > now \/ Free(BotOf(w)),
           p.next = polls[BotOf(w)].next \/ p.leaseUntil = now
    PROVE  PollsMove
  <1> DEFINE b == BotOf(w)
  <1>1. b \in Bots /\ DOMAIN polls = Bots
    BY CrewFacts DEF TypeOK
  <1>2. DOMAIN polls' = Bots /\ polls'[b] = p /\ \A c \in Bots : c # b => polls'[c] = polls[c]
    BY <1>1
  <1> HIDE DEF b
  <1> QED BY <1>2 DEF PollsMove, PollMoves, b

LEMMA EveryPollMoves ==
    ASSUME TypeOK, [Next]_vars
    PROVE  PollsMove /\ now' \in {now, now + 1}
  <1>1. ASSUME NEW w \in Crew, ClaimTelegramPoll(w) PROVE PollsMove /\ now' = now
    <2> DEFINE q == polls[BotOf(w)]
               p == [q EXCEPT !.runner = RunnerOf(w), !.fence = @ + 1]
    <2>1. PollOK(q)
      BY CrewFacts DEF TypeOK
    <2>2. PollOK(p) /\ p.next = q.next
      <3> HIDE DEF q
      <3> QED BY <2>1 DEF PollOK, FreshPoll
    <2>3. /\ polls' = [polls EXCEPT ![BotOf(w)] = Claimed(q, RunnerOf(w))]
          /\ Free(BotOf(w)) /\ now' = now
      BY <1>1 DEF ClaimTelegramPoll
    <2>4. Claimed(q, RunnerOf(w)) = Renewed(p)
      BY DEF Claimed
    <2> HIDE DEF p
    <2>5. PollOK(Renewed(p)) /\ Renewed(p).next = q.next
      BY <2>2, RenewedEffect
    <2> QED BY <2>3, <2>4, <2>5, OnePollMoves
  <1>2. ASSUME NEW w \in Crew, RenewTelegramPoll(w) PROVE PollsMove /\ now' = now
    <2> DEFINE q == polls[BotOf(w)]
    <2>1. PollOK(q)
      BY CrewFacts DEF TypeOK
    <2>2. polls' = [polls EXCEPT ![BotOf(w)] = Renewed(q)] /\ q.leaseUntil > now /\ now' = now
      BY <1>2 DEF RenewTelegramPoll, Holds
    <2>3. PollOK(Renewed(q)) /\ Renewed(q).next = q.next
      BY <2>1, RenewedEffect
    <2> QED BY <2>2, <2>3, OnePollMoves
  <1>3. ASSUME NEW w \in Crew, AdvanceTelegramPoll(w) PROVE PollsMove /\ now' = now
    <2> DEFINE q == polls[BotOf(w)]
               next == Head(worker[w].batch).id + 1
               p == IF next > q.offset THEN [q EXCEPT !.offset = next, !.processed = now] ELSE q
    <2>1. PollOK(q)
      BY CrewFacts DEF TypeOK
    <2>2. next \in Nat
      BY <1>3, HeadOfBatch DEF AdvanceTelegramPoll, Update
    <2>3. polls' = [polls EXCEPT ![BotOf(w)] = Renewed(p)] /\ q.leaseUntil > now /\ now' = now
      BY <1>3 DEF AdvanceTelegramPoll, Holds
    <2> HIDE DEF next
    <2>4. PollOK(p) /\ p.next = q.next
      <3> HIDE DEF q
      <3> QED BY <2>1, <2>2 DEF PollOK, FreshPoll
    <2> HIDE DEF p
    <2>5. PollOK(Renewed(p)) /\ Renewed(p).next = q.next
      BY <2>4, RenewedEffect
    <2> QED BY <2>3, <2>5, OnePollMoves
  <1>4. ASSUME NEW w \in Crew, NEW t \in Nat, Holds(w), now' = now,
               polls' = [polls EXCEPT ![BotOf(w)] = Deferred(@, t)]
        PROVE  PollsMove
    <2> DEFINE q == polls[BotOf(w)]
    <2>1. PollOK(q) /\ q.leaseUntil > now
      BY <1>4, CrewFacts DEF TypeOK, Holds
    <2>2. PollOK(Deferred(q, t)) /\ Deferred(q, t).leaseUntil = now
      BY <2>1, DeferredEffect
    <2>3. polls' = [polls EXCEPT ![BotOf(w)] = Deferred(q, t)]
      BY <1>4
    <2> QED BY <1>4, <2>1, <2>2, <2>3, OnePollMoves
  <1>5. ASSUME NEW w \in Crew, NEW t \in FloodWaits, DeferTelegramPoll(w, t)
        PROVE  PollsMove /\ now' = now
    <2>1. t \in Nat
      BY TelegramAssumption
    <2> QED BY <1>4, <1>5, <2>1 DEF DeferTelegramPoll
  <1>6. ASSUME NEW w \in Crew, FinishTelegramNotification(w) PROVE PollsMove /\ now' = now
    <2>1. worker[w].wait \in Nat /\ Holds(w) /\ now' = now
      BY <1>6, CrewFacts DEF TypeOK, WorkerOK, FinishTelegramNotification
    <2>2. \/ UNCHANGED polls
          \/ polls' = [polls EXCEPT ![BotOf(w)] = Deferred(@, worker[w].wait)]
      BY <1>6 DEF FinishTelegramNotification, RecipientGone, Answered
    <2> QED BY <1>4, <2>1, <2>2, PollsStay
  <1>7. ASSUME NEW w \in Crew,
               \/ RegisterRunner(w) \/ GiveUp(w) \/ ClaimTelegramNotification(w) \/ Send(w)
               \/ GetUpdates(w) \/ CompleteTelegramLinkByRunner(w)
        PROVE  UNCHANGED <<polls, now>>
    BY <1>7 DEF RegisterRunner, GiveUp, ClaimTelegramNotification, Send, GetUpdates,
                CompleteTelegramLinkByRunner
  <1>8. \/ \E r \in RunnerIds : Seen(r)
        \/ \E u \in site.users : \/ BeginTelegramLink(u) \/ Subscribe(u) \/ Unsubscribe(u)
                                 \/ DisconnectTelegram(u)
        \/ \E e \in Events : Notify(e)
        \/ \E d \in DOMAIN outbox : RetryNotification(d)
        \/ \E n \in 1 .. nonces, c \in Chats, w \in Crew : Message(n, c, BotOf(w))
        \/ UNCHANGED vars
        => UNCHANGED <<polls, now>>
    BY DEF Seen, BeginTelegramLink, Subscribe, Unsubscribe, DisconnectTelegram, Notify,
           RetryNotification, Message, vars
  <1>9. Tick => UNCHANGED polls /\ now' = now + 1
    BY DEF Tick
  <1> QED BY <1>1, <1>2, <1>3, <1>5, <1>6, <1>7, <1>8, <1>9, PollsStay DEF Next

\* A new request replaces the user's other ones, and a disconnect removes them.
RequestsMove ==
    \/ requests' = requests /\ nonces' = nonces /\ current' = current
    \/ \E n \in DOMAIN requests, c \in Chats :
          /\ requests' = [requests EXCEPT ![n].consumed = c]
          /\ nonces' = nonces /\ current' = current
    \/ \E u \in Users :
          /\ requests' = Without(requests, RequestsOf(u))
          /\ nonces' = nonces /\ current' = [current EXCEPT ![u] = 0]
    \/ \E u \in Users, r \in Request :
          LET kept == Without(requests, RequestsOf(u))
          IN /\ requests' = [m \in DOMAIN kept \cup {nonces + 1} |->
                               IF m \in DOMAIN kept THEN kept[m] ELSE r]
             /\ r.user = u
             /\ nonces' = nonces + 1 /\ current' = [current EXCEPT ![u] = nonces + 1]

LEMMA EveryRequestMoves ==
    ASSUME TypeOK, [Next]_vars
    PROVE  RequestsMove
  <1>0. site.users \subseteq Users
    BY TelegramAssumption DEF TypeOK
  <1>1. ASSUME NEW u \in site.users, BeginTelegramLink(u) PROVE RequestsMove
    <2> DEFINE r == [user |-> u, bot |-> provider, expires |-> now + RequestLife,
                     consumed |-> NoChat]
               kept == Without(requests, RequestsOf(u))
    <2>1. provider \in Bots
      <3>1. PICK w \in Crew : BotOf(w) = provider
        BY <1>1 DEF BeginTelegramLink, Available, Serves
      <3> QED BY <3>1, CrewFacts
    <2>2. r \in Request /\ r.user = u
      <3>1. now + RequestLife \in Nat
        BY TelegramAssumption DEF TypeOK
      <3> QED BY <1>0, <2>1, <3>1 DEF Request
    <2>3. /\ requests' = [m \in DOMAIN kept \cup {nonces + 1} |->
                            IF m \in DOMAIN kept THEN kept[m] ELSE r]
          /\ nonces' = nonces + 1 /\ current' = [current EXCEPT ![u] = nonces + 1]
      BY <1>1 DEF BeginTelegramLink
    <2> HIDE DEF r
    <2> QED BY <1>0, <2>2, <2>3 DEF RequestsMove
  <1>2. ASSUME NEW u \in site.users, DisconnectTelegram(u) PROVE RequestsMove
    BY <1>0, <1>2 DEF DisconnectTelegram, RequestsMove
  <1>3. ASSUME NEW w \in Crew, CompleteTelegramLinkByRunner(w) PROVE RequestsMove
    <2> DEFINE m == Head(worker[w].batch)
    <2>1. m.chat \in Chats
      BY <1>3, HeadOfBatch DEF CompleteTelegramLinkByRunner, Update
    <2>2. nonces' = nonces /\ current' = current
      BY <1>3 DEF CompleteTelegramLinkByRunner, outside
    <2>3. \/ requests' = requests
          \/ /\ m.nonce \in DOMAIN requests
             /\ requests' = [requests EXCEPT ![m.nonce].consumed = m.chat]
      BY <1>3 DEF CompleteTelegramLinkByRunner, Linkable
    <2> HIDE DEF m
    <2> QED BY <2>1, <2>2, <2>3 DEF RequestsMove
  <1>4. ASSUME NEW w \in Crew,
               \/ RegisterRunner(w) \/ ClaimTelegramPoll(w) \/ RenewTelegramPoll(w) \/ GiveUp(w)
               \/ ClaimTelegramNotification(w) \/ Send(w) \/ FinishTelegramNotification(w)
               \/ GetUpdates(w) \/ AdvanceTelegramPoll(w)
               \/ \E t \in FloodWaits : DeferTelegramPoll(w, t)
        PROVE  UNCHANGED <<requests, nonces, current>>
    BY <1>4 DEF RegisterRunner, ClaimTelegramPoll, RenewTelegramPoll, GiveUp, Send, GetUpdates,
                ClaimTelegramNotification, FinishTelegramNotification, AdvanceTelegramPoll,
                DeferTelegramPoll, people, outside
  <1>5. \/ \E r \in RunnerIds : Seen(r)
        \/ \E u \in site.users : Subscribe(u) \/ Unsubscribe(u)
        \/ \E e \in Events : Notify(e)
        \/ \E d \in DOMAIN outbox : RetryNotification(d)
        \/ \E n \in 1 .. nonces, c \in Chats, w \in Crew : Message(n, c, BotOf(w))
        \/ Tick \/ UNCHANGED vars
        => UNCHANGED <<requests, nonces, current>>
    BY DEF Seen, Subscribe, Unsubscribe, Notify, RetryNotification, Message, Tick, vars, people,
           outside
  <1>6. UNCHANGED <<requests, nonces, current>> => RequestsMove
    BY DEF RequestsMove
  <1> QED BY <1>1, <1>2, <1>3, <1>4, <1>5, <1>6 DEF Next
-----------------------------------------------------------------------------
(* Types *)

LEMMA OneWorkerMoves ==
    ASSUME TypeOK, NEW w \in Crew, NEW x, WorkerOK(x), worker' = [worker EXCEPT ![w] = x]
    PROVE  DOMAIN worker' = Workers /\ \A v \in Workers : WorkerOK(worker'[v])
  BY CrewFacts DEF TypeOK

LEMMA OutOK == WorkerOK(Out)
  BY DEF WorkerOK, Out

LEMMA NewsOfUpdates ==
    ASSUME TypeOK, NEW w \in Crew, NEW k \in 0 .. Len(inbox[BotOf(w)])
    PROVE  SubSeq(inbox[BotOf(w)], k + 1, Len(inbox[BotOf(w)])) \in Seq(Update)
  <1> DEFINE queue == inbox[BotOf(w)]
  <1>1. queue \in Seq(Update)
    BY CrewFacts DEF TypeOK
  <1> HIDE DEF queue
  <1>2. k \in 0 .. Len(queue) /\ Len(queue) \in Nat
    BY <1>1, LenProperties DEF queue
  <1>3. SubSeq(queue, k + 1, Len(queue)) \in Seq(Update)
    BY <1>1, <1>2
  <1> QED BY <1>3 DEF queue

LEMMA WorkersTyped ==
    ASSUME TypeOK, [Next]_vars
    PROVE  DOMAIN worker' = Workers /\ \A v \in Workers : WorkerOK(worker'[v])
  <1> DEFINE Goal == DOMAIN worker' = Workers /\ \A v \in Workers : WorkerOK(worker'[v])
  <1>0. \A w \in Crew : WorkerOK(worker[w]) /\ w \in DOMAIN worker
    BY CrewFacts DEF TypeOK
  <1>1. ASSUME NEW w \in Crew, ClaimTelegramPoll(w) PROVE Goal
    <2> DEFINE f == polls'[BotOf(w)].fence
               x == [Out EXCEPT !.pc = "top", !.fence = f]
    <2>1. worker' = [worker EXCEPT ![w] = x]
      BY <1>1 DEF ClaimTelegramPoll
    <2> HIDE DEF f
    <2>2. WorkerOK(x)
      BY DEF WorkerOK, Out
    <2> HIDE DEF x
    <2> QED BY <2>1, <2>2, OneWorkerMoves
  <1>2. ASSUME NEW w \in Crew, RenewTelegramPoll(w) PROVE Goal
    <2> DEFINE f == polls'[BotOf(w)].offset
               x == [worker[w] EXCEPT !.pc = "drain", !.offset = f]
    <2>0. worker' = worker \/ worker' = [worker EXCEPT ![w].pc = "drain", ![w].offset = f]
      BY <1>2, Zenon DEF RenewTelegramPoll
    <2> HIDE DEF f
    <2>1. worker' = worker \/ worker' = [worker EXCEPT ![w] = x]
      BY <2>0
    <2>2. WorkerOK(x)
      BY <1>0 DEF WorkerOK, Out
    <2> HIDE DEF x
    <2> QED BY <2>1, <2>2, OneWorkerMoves DEF TypeOK
  <1>3. ASSUME NEW w \in Crew,
               GiveUp(w) \/ \E t \in FloodWaits : DeferTelegramPoll(w, t)
        PROVE  Goal
    <2>1. worker' = [worker EXCEPT ![w] = Out]
      BY <1>3 DEF GiveUp, DeferTelegramPoll
    <2> QED BY <2>1, OutOK, OneWorkerMoves
  <1>4. ASSUME NEW w \in Crew, ClaimTelegramNotification(w) PROVE Goal
    <2>1. \/ worker' = [worker EXCEPT ![w].pc = "updates"]
          \/ \E r : worker' = [worker EXCEPT ![w].pc = "sending", ![w].row = r]
      BY <1>4 DEF ClaimTelegramNotification
    <2>2. CASE worker' = [worker EXCEPT ![w].pc = "updates"]
      <3> DEFINE x == [worker[w] EXCEPT !.pc = "updates"]
      <3>1. worker' = [worker EXCEPT ![w] = x]
        BY <2>2
      <3>2. WorkerOK(x)
        BY <1>0 DEF WorkerOK, Out
      <3> HIDE DEF x
      <3> QED BY <3>1, <3>2, OneWorkerMoves
    <2>3. ASSUME NEW r, worker' = [worker EXCEPT ![w].pc = "sending", ![w].row = r] PROVE Goal
      <3> DEFINE x == [worker[w] EXCEPT !.pc = "sending", !.row = r]
      <3>1. worker' = [worker EXCEPT ![w] = x]
        BY <2>3
      <3>2. WorkerOK(x)
        BY <1>0 DEF WorkerOK, Out
      <3> HIDE DEF x
      <3> QED BY <3>1, <3>2, OneWorkerMoves
    <2> QED BY <2>1, <2>2, <2>3
  <1>5. ASSUME NEW w \in Crew, Send(w) PROVE Goal
    <2>1. PICK r \in {"accepted", "refused", "limited", "gone"}, t \in FloodWaits \cup {0} :
             worker' = [worker EXCEPT ![w].pc = "sent", ![w].result = r, ![w].wait = t]
      BY <1>5 DEF Send
    <2> DEFINE x == [worker[w] EXCEPT !.pc = "sent", !.result = r, !.wait = t]
    <2>2. worker' = [worker EXCEPT ![w] = x]
      BY <2>1
    <2>3. t \in Nat
      BY TelegramAssumption
    <2>4. WorkerOK(x)
      BY <1>0, <2>3 DEF WorkerOK, Out
    <2> HIDE DEF x
    <2> QED BY <2>2, <2>4, OneWorkerMoves
  <1>6. ASSUME NEW w \in Crew, FinishTelegramNotification(w) PROVE Goal
    <2>1. worker' = [worker EXCEPT ![w] = AfterRow(w)] \/ worker' = [worker EXCEPT ![w] = Out]
      BY <1>6 DEF FinishTelegramNotification
    <2>2. WorkerOK(AfterRow(w))
      BY <1>0, OutOK DEF WorkerOK, Out, AfterRow
    <2> QED BY <2>1, <2>2, OutOK, OneWorkerMoves
  <1>7. ASSUME NEW w \in Crew, GetUpdates(w) PROVE Goal
    <2> DEFINE queue == inbox[BotOf(w)]
    <2>1. PICK k \in 0 .. Len(queue) :
             LET news == SubSeq(queue, k + 1, Len(queue))
             IN worker' = [worker EXCEPT ![w].pc = IF news = <<>> THEN "top" ELSE "batch",
                                         ![w].batch = news, ![w].drained = 0]
      BY <1>7 DEF GetUpdates
    <2> DEFINE news == SubSeq(queue, k + 1, Len(queue))
               pc == IF news = <<>> THEN "top" ELSE "batch"
               x == [worker[w] EXCEPT !.pc = pc, !.batch = news, !.drained = 0]
    <2>2. news \in Seq(Update)
      BY NewsOfUpdates
    <2>3. worker' = [worker EXCEPT ![w] = x]
      BY <2>1
    <2>4. pc \in {"batch", "handled"} => news # <<>>
      OBVIOUS
    <2> HIDE DEF news, pc
    <2>5. WorkerOK(x)
      BY <1>0, <2>2, <2>4 DEF WorkerOK, Out
    <2> HIDE DEF x
    <2> QED BY <2>3, <2>5, OneWorkerMoves
  <1>8. ASSUME NEW w \in Crew, CompleteTelegramLinkByRunner(w) PROVE Goal
    <2> DEFINE x == [worker[w] EXCEPT !.pc = "handled"]
    <2>1. worker' = [worker EXCEPT ![w] = x] /\ worker[w].pc = "batch"
      BY <1>8 DEF CompleteTelegramLinkByRunner
    <2>2. WorkerOK(x)
      BY <1>0, <2>1 DEF WorkerOK, Out
    <2> HIDE DEF x
    <2> QED BY <2>1, <2>2, OneWorkerMoves
  <1>9. ASSUME NEW w \in Crew, AdvanceTelegramPoll(w) PROVE Goal
    <2> DEFINE rest == Tail(worker[w].batch)
               pc == IF rest = <<>> THEN "top" ELSE "batch"
               x == [worker[w] EXCEPT !.batch = rest, !.pc = pc]
    <2>1. worker' = [worker EXCEPT ![w] = x]
      BY <1>9 DEF AdvanceTelegramPoll
    <2>2. rest \in Seq(Update)
      BY <1>9, HeadOfBatch DEF AdvanceTelegramPoll
    <2>3. pc \in {"batch", "handled"} => rest # <<>>
      OBVIOUS
    <2> HIDE DEF rest, pc
    <2>4. WorkerOK(x)
      BY <1>0, <2>2, <2>3 DEF WorkerOK, Out
    <2> HIDE DEF x
    <2> QED BY <2>1, <2>4, OneWorkerMoves
  <1>10. ASSUME UNCHANGED worker PROVE Goal
    BY <1>10 DEF TypeOK
  <1>11. ASSUME NEW w \in Crew, RegisterRunner(w) PROVE UNCHANGED worker
    BY <1>11 DEF RegisterRunner
  <1>12. \/ \E r \in RunnerIds : Seen(r)
         \/ \E u \in site.users : \/ BeginTelegramLink(u) \/ Subscribe(u) \/ Unsubscribe(u)
                                  \/ DisconnectTelegram(u)
         \/ \E e \in Events : Notify(e)
         \/ \E d \in DOMAIN outbox : RetryNotification(d)
         \/ \E n \in 1 .. nonces, c \in Chats, w \in Crew : Message(n, c, BotOf(w))
         \/ Tick \/ UNCHANGED vars
         => UNCHANGED worker
    BY DEF Seen, BeginTelegramLink, Subscribe, Unsubscribe, DisconnectTelegram, Notify,
           RetryNotification, Message, Tick, vars
  <1> HIDE DEF Goal
  <1>13. Goal
    BY <1>1, <1>2, <1>3, <1>4, <1>5, <1>6, <1>7, <1>8, <1>9, <1>10, <1>11, <1>12 DEF Next
  <1> QED BY <1>13 DEF Goal

LEMMA InboxTyped ==
    ASSUME TypeOK, [Next]_vars
    PROVE  site' = site /\ inbox' \in [Bots -> Seq(Update)] /\ sent' \in Nat
  <1> DEFINE Goal == site' = site /\ inbox' \in [Bots -> Seq(Update)] /\ sent' \in Nat
  <1>0. inbox \in [Bots -> Seq(Update)] /\ sent \in Nat
    BY DEF TypeOK
  <1>1. ASSUME NEW w \in Crew, GetUpdates(w) PROVE Goal
    <2> DEFINE queue == inbox[BotOf(w)]
    <2>1. PICK k \in 0 .. Len(queue) :
             inbox' = [inbox EXCEPT ![BotOf(w)] = SubSeq(queue, k + 1, Len(queue))]
      BY <1>1 DEF GetUpdates
    <2>2. SubSeq(queue, k + 1, Len(queue)) \in Seq(Update)
      BY NewsOfUpdates
    <2>3. site' = site /\ sent' = sent
      BY <1>1 DEF GetUpdates
    <2> HIDE DEF queue
    <2> QED BY <1>0, <2>1, <2>2, <2>3
  <1>2. ASSUME NEW n \in 1 .. nonces, NEW c \in Chats, NEW w \in Crew, Message(n, c, BotOf(w))
        PROVE  Goal
    <2> DEFINE b == BotOf(w)
               m == [id |-> sent + 1, nonce |-> n, chat |-> c]
    <2>1. b \in Bots /\ nonces \in Nat
      BY CrewFacts DEF TypeOK
    <2>2. m \in Update
      BY <1>0, <2>1 DEF Update
    <2>3. inbox' = [inbox EXCEPT ![b] = Append(inbox[b], m)] /\ site' = site /\ sent' = sent + 1
      BY <1>2 DEF Message
    <2> HIDE DEF b, m
    <2>4. Append(inbox[b], m) \in Seq(Update)
      BY <1>0, <2>1, <2>2, AppendProperties
    <2>5. inbox' \in [Bots -> Seq(Update)]
      BY <1>0, <2>3, <2>4, Zenon
    <2> QED BY <1>0, <2>3, <2>5
  <1>3. ASSUME UNCHANGED <<site, inbox, sent>> PROVE Goal
    BY <1>0, <1>3
  <1>4. ASSUME NEW w \in Crew,
               \/ RegisterRunner(w) \/ ClaimTelegramPoll(w) \/ RenewTelegramPoll(w) \/ GiveUp(w)
               \/ ClaimTelegramNotification(w) \/ Send(w) \/ FinishTelegramNotification(w)
               \/ CompleteTelegramLinkByRunner(w) \/ AdvanceTelegramPoll(w)
               \/ \E t \in FloodWaits : DeferTelegramPoll(w, t)
        PROVE  UNCHANGED <<site, inbox, sent>>
    BY <1>4 DEF RegisterRunner, ClaimTelegramPoll, RenewTelegramPoll, GiveUp, Send,
                ClaimTelegramNotification, FinishTelegramNotification, AdvanceTelegramPoll,
                CompleteTelegramLinkByRunner, DeferTelegramPoll, outside
  <1>5. \/ \E r \in RunnerIds : Seen(r)
        \/ \E u \in site.users : \/ BeginTelegramLink(u) \/ Subscribe(u) \/ Unsubscribe(u)
                                 \/ DisconnectTelegram(u)
        \/ \E e \in Events : Notify(e)
        \/ \E d \in DOMAIN outbox : RetryNotification(d)
        \/ Tick \/ UNCHANGED vars
        => UNCHANGED <<site, inbox, sent>>
    BY DEF Seen, BeginTelegramLink, Subscribe, Unsubscribe, DisconnectTelegram, Notify,
           RetryNotification, Tick, vars, outside
  <1> HIDE DEF Goal
  <1>6. Goal
    BY <1>1, <1>2, <1>3, <1>4, <1>5 DEF Next
  <1> QED BY <1>6 DEF Goal

LEMMA RequestsTyped ==
    ASSUME TypeOK, RequestsMove
    PROVE  /\ nonces' \in Nat /\ nonces' >= nonces /\ DOMAIN requests' \subseteq 1 .. nonces'
           /\ \A n \in DOMAIN requests' : requests'[n] \in Request
           /\ current' \in [Users -> 0 .. nonces']
           /\ RequestsAreCurrent => RequestsAreCurrent'
  <1> DEFINE Goal == /\ nonces' \in Nat /\ nonces' >= nonces /\ DOMAIN requests' \subseteq 1 .. nonces'
                     /\ \A n \in DOMAIN requests' : requests'[n] \in Request
                     /\ current' \in [Users -> 0 .. nonces']
                     /\ RequestsAreCurrent => RequestsAreCurrent'
  <1>0. /\ nonces \in Nat /\ DOMAIN requests \subseteq 1 .. nonces
        /\ \A n \in DOMAIN requests : requests[n] \in Request
        /\ current \in [Users -> 0 .. nonces]
    BY DEF TypeOK
  <1>1. ASSUME requests' = requests, nonces' = nonces, current' = current PROVE Goal
    BY <1>0, <1>1 DEF RequestsAreCurrent
  <1>2. ASSUME NEW n \in DOMAIN requests, NEW c \in Chats,
               requests' = [requests EXCEPT ![n].consumed = c],
               nonces' = nonces, current' = current
        PROVE  Goal
    <2>1. DOMAIN requests' = DOMAIN requests
      BY <1>2
    <2>2. \A m \in DOMAIN requests : requests'[m] \in Request /\ requests'[m].user = requests[m].user
      BY <1>0, <1>2 DEF Request
    <2> QED BY <1>0, <1>2, <2>1, <2>2 DEF RequestsAreCurrent
  <1>3. ASSUME NEW u \in Users, requests' = Without(requests, RequestsOf(u)),
               nonces' = nonces, current' = [current EXCEPT ![u] = 0]
        PROVE  Goal
    <2>1. \A m \in DOMAIN requests' : /\ m \in DOMAIN requests /\ requests'[m] = requests[m]
                                      /\ requests[m].user # u
      BY <1>3 DEF Without, RequestsOf
    <2>2. current' \in [Users -> 0 .. nonces]
      BY <1>0, <1>3
    <2>3. \A v \in Users : v # u => current'[v] = current[v]
      BY <1>0, <1>3
    <2>4. \A m \in DOMAIN requests' : requests[m].user \in Users
      BY <1>0, <2>1 DEF Request
    <2> QED BY <1>0, <1>3, <2>1, <2>2, <2>3, <2>4 DEF RequestsAreCurrent
  <1>4. ASSUME NEW u \in Users, NEW r \in Request,
               LET kept == Without(requests, RequestsOf(u))
               IN /\ requests' = [m \in DOMAIN kept \cup {nonces + 1} |->
                                    IF m \in DOMAIN kept THEN kept[m] ELSE r]
                  /\ r.user = u
                  /\ nonces' = nonces + 1 /\ current' = [current EXCEPT ![u] = nonces + 1]
        PROVE  Goal
    <2>1. nonces + 1 \notin DOMAIN requests
      BY <1>0
    <2>2. \A m \in DOMAIN requests' : \/ /\ m \in DOMAIN requests /\ requests'[m] = requests[m]
                                         /\ requests[m].user # u
                                      \/ m = nonces + 1 /\ requests'[m] = r
      BY <1>4, <2>1 DEF Without, RequestsOf
    <2>3. current' \in [Users -> 0 .. nonces + 1]
      BY <1>0, <1>4
    <2>4. current'[u] = nonces + 1 /\ \A v \in Users : v # u => current'[v] = current[v]
      BY <1>0, <1>4
    <2>5. \A m \in DOMAIN requests : requests[m].user \in Users
      BY <1>0 DEF Request
    <2>6. r.user = u /\ nonces' = nonces + 1
      BY <1>4
    <2>7. RequestsAreCurrent => RequestsAreCurrent'
      BY <2>2, <2>4, <2>5, <2>6 DEF RequestsAreCurrent
    <2>8. DOMAIN requests' \subseteq 1 .. nonces'
      BY <1>0, <2>2, <2>6
    <2> QED BY <1>0, <2>2, <2>3, <2>6, <2>7, <2>8
  <1> HIDE DEF Goal
  <1>5. Goal
    BY <1>1, <1>2, <1>3, <1>4 DEF RequestsMove
  <1> QED BY <1>5 DEF Goal

\* What a moved link is.
LEMMA LinkKinds ==
    ASSUME TypeOK, LinksMove, NEW u \in Users
    PROVE  \/ links'[u] = links[u]
           \/ Disconnected(u)
           \/ /\ Failed(u) /\ links[u] \in Link /\ links'[u] \in Link
              /\ links'[u].bot = links[u].bot /\ links'[u].chat = links[u].chat
              /\ links'[u].via = links[u].via /\ links'[u].generation = links[u].generation
           \/ /\ Linked(u) /\ links'[u] \in Link /\ ~links'[u].failed
              /\ links[u] # NoLink =>
                    links'[u].generation > links[u].generation
  <1>0. links[u] \in Link \cup {NoLink}
    BY DEF TypeOK
  <1>1. ASSUME Failed(u)
        PROVE  /\ links[u] \in Link /\ links'[u] \in Link
               /\ links'[u].bot = links[u].bot /\ links'[u].chat = links[u].chat
               /\ links'[u].via = links[u].via /\ links'[u].generation = links[u].generation
    <2>1. links[u] \in Link /\ links'[u] = [links[u] EXCEPT !.failed = TRUE]
      BY <1>0, <1>1 DEF Failed
    <2> QED BY <2>1 DEF Link
  <1>2. ASSUME Linked(u)
        PROVE  /\ links'[u] \in Link /\ ~links'[u].failed
               /\ links[u] # NoLink => links'[u].generation > links[u].generation
    <2> DEFINE g == IF links[u] = NoLink THEN 1 ELSE links[u].generation + 1
    <2>1. PICK n \in DOMAIN requests, b \in Bots, c \in Chats :
              links'[u] = [bot |-> b, chat |-> c, failed |-> FALSE, via |-> n, generation |-> g]
      BY <1>2 DEF Linked
    <2>2. n \in Nat
      BY DEF TypeOK
    <2>3. g \in Nat /\ (links[u] # NoLink => g > links[u].generation)
      <3>1. links[u] # NoLink => links[u].generation \in Nat
        BY <1>0 DEF Link
      <3> QED BY <3>1
    <2> HIDE DEF g
    <2> QED BY <2>1, <2>2, <2>3 DEF Link
  <1> QED BY <1>1, <1>2 DEF LinksMove

LEMMA TypeStep ==
    ASSUME TypeOK, [Next]_vars
    PROVE  TypeOK'
  <1>0. RowsMove /\ LinksMove /\ PollsMove /\ RequestsMove /\ now' \in {now, now + 1}
    BY EveryRowMoves, EveryLinkMoves, EveryPollMoves, EveryRequestMoves
  <1>1. now' \in Nat /\ site' \in Sites
    BY <1>0, InboxTyped DEF TypeOK
  <1>2. DOMAIN polls' = Bots /\ \A b \in Bots : PollOK(polls'[b])
    BY <1>0 DEF PollsMove, PollMoves, TypeOK
  <1>3. DOMAIN links' = Users /\ \A u \in Users : links'[u] \in Link \cup {NoLink}
    <2>1. \A u \in Users : links'[u] \in Link \cup {NoLink}
      BY <1>0, LinkKinds DEF Disconnected, TypeOK
    <2> QED BY <1>0, <2>1 DEF LinksMove
  <1>4. DOMAIN outbox' \subseteq Delivery /\ \A d \in DOMAIN outbox' : RowOK(outbox'[d])
    BY <1>0 DEF RowsMove, RowStep, Handed, Created, TypeOK
  <1> QED BY <1>0, <1>1, <1>2, <1>3, <1>4, RequestsTyped, InboxTyped, WorkersTyped
          DEF TypeOK, WorkerOK, RowOK, PollOK
-----------------------------------------------------------------------------
(* The inductive invariant *)

LEMMA WaitingStep ==
    ASSUME TypeOK, WaitingIsFree, PollsMove, now' \in {now, now + 1}
    PROVE  WaitingIsFree'
  <1> SUFFICES ASSUME NEW b \in Bots, polls'[b].next > now'
               PROVE  polls'[b].leaseUntil =< now'
    BY DEF WaitingIsFree
  <1>0. PollOK(polls[b]) /\ now \in Nat /\ PollMoves(b)
    BY DEF TypeOK, PollsMove
  <1>1. polls[b].next \in Nat /\ polls[b].leaseUntil \in Nat
    BY <1>0 DEF PollOK
  <1>2. polls[b].next > now => polls[b].leaseUntil =< now
    BY DEF WaitingIsFree
  <1>3. CASE polls'[b] = polls[b]
    BY <1>0, <1>1, <1>2, <1>3
  <1>4. CASE /\ polls[b].leaseUntil > now \/ polls[b].next =< now
             /\ now' = now
             /\ polls'[b].next = polls[b].next \/ polls'[b].leaseUntil = now
    BY <1>0, <1>1, <1>2, <1>4
  <1> QED BY <1>0, <1>3, <1>4 DEF PollMoves, Free

LEMMA ChatsStep ==
    ASSUME TypeOK, ChatHasOneUser, LinksMove
    PROVE  ChatHasOneUser'
  <1> SUFFICES ASSUME NEW u \in Users, NEW v \in Users, u # v,
                      links'[u] # NoLink, links'[v] # NoLink, links'[u].bot = links'[v].bot
               PROVE  links'[u].chat # links'[v].chat
    BY DEF ChatHasOneUser
  <1>1. ASSUME NEW x \in Users, NEW y \in Users, x # y, links'[y] = links[y],
               links'[x] # NoLink, links'[y] # NoLink, links'[x].bot = links'[y].bot
        PROVE  links'[x].chat # links'[y].chat
    <2>1. ASSUME Linked(x) PROVE links'[x].chat # links'[y].chat
      <3>1. PICK b \in Bots, c \in Chats : /\ ChatIsFree(x, b, c)
                                           /\ links'[x].bot = b /\ links'[x].chat = c
        BY <2>1 DEF Linked
      <3> QED BY <1>1, <3>1 DEF ChatIsFree
    <2> QED BY <1>1, <2>1, LinkKinds DEF ChatHasOneUser, Disconnected, Failed
  <1>2. links'[u] = links[u] \/ links'[v] = links[v]
    BY DEF LinksMove
  <1> QED BY <1>1, <1>2

LEMMA OpenRowsStep ==
    ASSUME TypeOK, OpenRowsLinked, RowsMove, LinksMove
    PROVE  OpenRowsLinked'
  <1> SUFFICES ASSUME NEW d \in DOMAIN outbox', Open(outbox'[d])
               PROVE  /\ links'[d.user] # NoLink
                      /\ outbox'[d].generation =< links'[d.user].generation
                      /\ outbox'[d].generation = links'[d.user].generation =>
                            outbox'[d].via = links'[d.user].via
    BY DEF OpenRowsLinked
  <1>1. CASE d \in DOMAIN outbox
    <2> DEFINE u == d.user
    <2>1. Open(outbox[d]) /\ SameLink(outbox'[d], outbox[d])
      BY <1>1 DEF RowsMove, RowStep, Handed, Ready, Open
    <2>2. /\ links[u] # NoLink /\ outbox[d].generation =< links[u].generation
          /\ outbox[d].generation = links[u].generation => outbox[d].via = links[u].via
      BY <1>1, <2>1 DEF OpenRowsLinked
    <2>3. u \in Users /\ outbox[d].generation \in Nat
      BY <1>1, RowFields DEF TypeOK, Delivery
    <2>4. links[u] \in Link /\ links[u].generation \in Nat
      BY <2>2, <2>3 DEF TypeOK, Link
    <2>5. ~Disconnected(u)
      BY DEF Disconnected
    <2>6. \/ links'[u] = links[u]
          \/ /\ links'[u] \in Link
             /\ links'[u].via = links[u].via /\ links'[u].generation = links[u].generation
          \/ links'[u] \in Link /\ links'[u].generation > links[u].generation
      BY <2>2, <2>3, <2>5, LinkKinds
    <2>7. links'[u] # NoLink
      BY <2>2, <2>6, NoLinkAssumption
    <2>8. outbox'[d].generation = outbox[d].generation /\ outbox'[d].via = outbox[d].via
      BY <2>1 DEF SameLink
    <2>9. links'[u] \in Link => links'[u].generation \in Nat
      BY DEF Link
    <2> HIDE DEF u
    <2>10. /\ outbox'[d].generation =< links'[u].generation
           /\ outbox'[d].generation = links'[u].generation => outbox'[d].via = links'[u].via
      BY <2>2, <2>3, <2>4, <2>6, <2>8, <2>9
    <2> QED BY <2>7, <2>10 DEF u
  <1>2. CASE Created(d)
    <2>1. links[d.user] \in Link
      BY <1>2 DEF Created, TypeOK, Delivery
    <2>2. links[d.user].generation \in Nat
      BY <2>1 DEF Link
    <2>3. outbox'[d].generation =< links'[d.user].generation
      BY <1>2, <2>2 DEF Created
    <2> QED BY <1>2, <2>3 DEF Created
  <1> QED BY <1>1, <1>2 DEF RowsMove

LEMMA TelegramInit == Init => TelegramInv
  <1> SUFFICES ASSUME Init PROVE TelegramInv
    OBVIOUS
  <1>1. \A b \in Bots : PollOK(polls[b]) /\ polls[b].next = 0
    BY DEF Init, PollOK, FreshPoll
  <1>2. TypeOK
    <2>1. current \in [Users -> 0 .. nonces] /\ nonces \in Nat /\ now \in Nat /\ sent \in Nat
      BY DEF Init
    <2>2. inbox \in [Bots -> Seq(Update)]
      BY EmptySeq DEF Init
    <2>3. DOMAIN worker = Workers /\ \A w \in Workers : WorkerOK(worker[w])
      BY OutOK DEF Init
    <2> QED BY <1>1, <2>1, <2>2, <2>3 DEF Init, TypeOK
  <1>3. RequestsAreCurrent /\ OpenRowsLinked /\ ChatHasOneUser
    BY DEF Init, RequestsAreCurrent, OpenRowsLinked, ChatHasOneUser
  <1>4. WaitingIsFree
    BY <1>1 DEF WaitingIsFree, Init
  <1> QED BY <1>2, <1>3, <1>4 DEF TelegramInv

LEMMA TelegramStep ==
    ASSUME TelegramInv, [Next]_vars
    PROVE  TelegramInv'
  <1>0. TypeOK /\ RequestsAreCurrent /\ WaitingIsFree /\ OpenRowsLinked /\ ChatHasOneUser
    BY DEF TelegramInv
  <1>1. RowsMove /\ LinksMove /\ PollsMove /\ RequestsMove /\ now' \in {now, now + 1}
    BY <1>0, EveryRowMoves, EveryLinkMoves, EveryPollMoves, EveryRequestMoves
  <1>2. TypeOK'
    BY <1>0, TypeStep
  <1>3. WaitingIsFree' /\ ChatHasOneUser' /\ OpenRowsLinked' /\ RequestsAreCurrent'
    BY <1>0, <1>1, WaitingStep, ChatsStep, OpenRowsStep, RequestsTyped
  <1> QED BY <1>2, <1>3 DEF TelegramInv

\* TelegramInv is inductive.
LEMMA TelegramInvariant == Spec => []TelegramInv
  <1>1. TelegramInv /\ [Next]_vars => TelegramInv'
    BY TelegramStep
  <1> QED BY <1>1, TelegramInit, PTL DEF Spec

\* The stored links, requests, rows and polls keep their shapes, and a worker is
\* never at an update its batch does not have.
THEOREM TelegramTypeCorrect == Spec => []TypeOK
  <1>1. TelegramInv => TypeOK
    BY DEF TelegramInv
  <1> QED BY <1>1, TelegramInvariant, PTL
-----------------------------------------------------------------------------
(* The properties *)

\* Only a claim makes an attempt.
LEMMA AttemptsAreHanded ==
    ASSUME TypeOK, RowsMove, NEW d \in DOMAIN outbox,
           outbox'[d].attempts > outbox[d].attempts
    PROVE  Handed(d)
  <1>1. ASSUME RowOK(outbox'[d]) PROVE ~(outbox'[d].attempts =< outbox[d].attempts)
    <2>1. outbox'[d].attempts \in Nat /\ outbox[d].attempts \in Nat
      BY <1>1, RowFields DEF TypeOK
    <2> QED BY <2>1
  <1>2. ~RowStep(outbox'[d], outbox[d])
    BY <1>1 DEF RowStep
  <1> QED BY <1>2 DEF RowsMove

\* For any number of users, chats and runners: two users never share a chat on
\* one bot, because a link is made only while the chat is free, in the
\* transaction that checks it.
THEOREM OneUserPerChat == Spec => []ChatHasOneUser
  <1>1. TelegramInv => ChatHasOneUser
    BY DEF TelegramInv
  <1> QED BY <1>1, TelegramInvariant, PTL

\* For any wait Telegram asks for: while a bot is told to wait its poll has no
\* lease, so that no worker claims or renews one, none of its deliveries is
\* handed out, and the wait is not shortened.
THEOREM FloodWaitNotBypassed == Spec => FloodWaitKept
  <1> DEFINE Kept == \A b \in Bots : polls[b].next > now =>
                        /\ polls'[b].next >= polls[b].next /\ polls'[b].leaseUntil =< now
                        /\ \A d \in DOMAIN outbox : outbox'[d].attempts > outbox[d].attempts =>
                              outbox[d].bot # b
  <1>1. ASSUME TelegramInv, [Next]_vars PROVE Kept
    <2>0. TypeOK /\ WaitingIsFree /\ PollsMove /\ RowsMove
      BY <1>1, EveryPollMoves, EveryRowMoves DEF TelegramInv
    <2> SUFFICES ASSUME NEW b \in Bots, polls[b].next > now
                 PROVE  /\ polls'[b].next >= polls[b].next /\ polls'[b].leaseUntil =< now
                        /\ \A d \in DOMAIN outbox : outbox'[d].attempts > outbox[d].attempts =>
                              outbox[d].bot # b
      OBVIOUS
    <2>1. /\ polls[b].next \in Nat /\ polls[b].leaseUntil \in Nat /\ now \in Nat
          /\ polls[b].leaseUntil =< now
      BY <2>0 DEF TypeOK, PollOK, WaitingIsFree
    <2>2. ~(polls[b].leaseUntil > now) /\ ~Free(b)
      BY <2>1 DEF Free
    <2>3. polls'[b] = polls[b]
      BY <2>0, <2>2 DEF PollsMove, PollMoves
    <2>4. ASSUME NEW d \in DOMAIN outbox, outbox'[d].attempts > outbox[d].attempts
          PROVE  outbox[d].bot # b
      <3>1. Handed(d)
        BY <2>0, <2>4, AttemptsAreHanded
      <3>2. PICK w \in Crew : Holds(w) /\ d \in Ready(BotOf(w))
        BY <3>1 DEF Handed
      <3> QED BY <2>2, <3>2 DEF Holds, Ready
    <2> QED BY <2>1, <2>3, <2>4
  <1>2. TelegramInv /\ [Next]_vars => [Kept]_vars
    BY <1>1
  <1> QED BY <1>2, TelegramInvariant, PTL DEF Spec, FloodWaitKept

\* For any requests and messages under way: a link comes from the newest request
\* since the user last disconnected, or is the one there was.
THEOREM OldRequestsNeverLink == Spec => DisconnectIsFinal
  <1> DEFINE Final == \A u \in Users :
                         links'[u] # NoLink =>
                             \/ links'[u].via = current[u]
                             \/ links[u] # NoLink /\ links'[u].via = links[u].via
  <1>1. ASSUME TelegramInv, [Next]_vars PROVE Final
    <2>0. TypeOK /\ LinksMove /\ RequestsAreCurrent
      BY <1>1, EveryLinkMoves DEF TelegramInv
    <2>1. ASSUME NEW u \in Users, Linked(u) PROVE links'[u].via = current[u]
      BY <2>0, <2>1 DEF Linked, RequestsAreCurrent
    <2> QED BY <2>0, <2>1, LinkKinds DEF Disconnected, Failed
  <1>2. TelegramInv /\ [Next]_vars => [Final]_vars
    BY <1>1
  <1> QED BY <1>2, TelegramInvariant, PTL DEF Spec, DisconnectIsFinal

\* For any number of links a user made one after another: a delivery is handed
\* out through the link it was made for, and a recipient reported gone gives up
\* no other, though generations start again at 1 after a disconnect.
THEOREM RowsFollowOneLink == Spec => RowsKeepToTheirLink
  <1> DEFINE Keep == /\ \A d \in DOMAIN outbox : outbox'[d].attempts > outbox[d].attempts =>
                           /\ links[d.user] # NoLink /\ ~links[d.user].failed
                           /\ links[d.user].via = outbox[d].via
                     /\ \A u \in Users :
                           (links[u] # NoLink /\ links'[u] # NoLink /\ ~links[u].failed /\ links'[u].failed) =>
                               \E w \in Workers : LET d == worker[w].row.id
                                                  IN /\ worker[w].result = "gone" /\ d.user = u
                                                     /\ outbox[d].via = links[u].via
  <1>1. ASSUME TelegramInv, [Next]_vars PROVE Keep
    <2>0. TypeOK /\ LinksMove /\ RowsMove /\ OpenRowsLinked
      BY <1>1, EveryLinkMoves, EveryRowMoves DEF TelegramInv
    <2>1. ASSUME NEW d \in DOMAIN outbox, outbox'[d].attempts > outbox[d].attempts
          PROVE  /\ links[d.user] # NoLink /\ ~links[d.user].failed
                 /\ links[d.user].via = outbox[d].via
      <3>1. Handed(d)
        BY <2>0, <2>1, AttemptsAreHanded
      <3>2. Open(outbox[d]) /\ Consents(d)
        BY <3>1 DEF Handed, Ready, Open
      <3> QED BY <2>0, <3>2 DEF Consents, Matches, OpenRowsLinked
    <2>2. ASSUME NEW u \in Users, links[u] # NoLink, links'[u] # NoLink, ~links[u].failed,
                 links'[u].failed
          PROVE  \E w \in Workers : LET d == worker[w].row.id
                                    IN /\ worker[w].result = "gone" /\ d.user = u
                                       /\ outbox[d].via = links[u].via
      <3>1. Failed(u)
        BY <2>0, <2>2, LinkKinds DEF Disconnected
      <3>2. PICK w \in Workers : /\ worker[w].result = "gone" /\ RowHeld(w)
                                 /\ worker[w].row.id.user = u
                                 /\ Matches(worker[w].row.id, links[u])
        BY <3>1 DEF Failed
      <3>3. worker[w].row.id \in DOMAIN outbox /\ Open(outbox[worker[w].row.id])
        BY <3>2 DEF RowHeld, Open
      <3>4. outbox[worker[w].row.id].via = links[u].via
        BY <2>0, <3>2, <3>3 DEF OpenRowsLinked, Matches
      <3> QED BY <3>2, <3>4
    <2> QED BY <2>1, <2>2
  <1>2. TelegramInv /\ [Next]_vars => [Keep]_vars
    BY <1>1
  <1> QED BY <1>2, TelegramInvariant, PTL DEF Spec, RowsKeepToTheirLink
=============================================================================
