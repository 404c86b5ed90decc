--------------------------- MODULE TelegramChannel ---------------------------
(***************************************************************************)
(* The telegram channel of pkg/watch: links between users and chats        *)
(* (telegram.go), the poll lease of a bot (telegram_provider.go), the      *)
(* telegram rows of the outbox (notifications.go) and the worker a runner  *)
(* carries for its bot (watchdaemon/telegram_runner.go).                   *)
(*                                                                         *)
(* A worker may stop between any two of its calls, for any time.  A call   *)
(* it gave up on was served before, or is refused by the fences after.     *)
(* Quotas are WatchOutbox's; here a delivery may find its quota used up.   *)
(***************************************************************************)
EXTENDS Integers, FiniteSets, Sequences

CONSTANTS
    Users, Chats, Events,
    Workers,           \* runner processes with a bot
    Sites,             \* deployments: [grant, users, until, fences, messages]; grant
                       \* gives each worker its runner id and bot; the rest bounds
                       \* the clock, the fence of a poll and the /start messages
    NoBot, NoLink, NoChat, NoRunner,
    LeaseDuration, RunnerTTL, MaxAttempts, RequestLife,
    Backoff,           \* Backoff[n]: the wait after n failed attempts
    FloodWaits,        \* the retry_after values Telegram may ask for
    IdleReset,         \* seven days without a processed update
    MaxFence,          \* bound: fence of a delivery
    MaxNonce,          \* bound: connection requests
    DrainLimit         \* deliveries between two looks at the updates

ASSUME TelegramAssumption ==
    /\ LeaseDuration \in Nat \ {0} /\ RunnerTTL \in Nat \ {0}
    /\ MaxAttempts \in Nat \ {0} /\ RequestLife \in Nat \ {0} /\ IdleReset \in Nat \ {0}
    /\ Backoff \in [1 .. MaxAttempts -> Nat]
    /\ FloodWaits \subseteq Nat \ {0}
    /\ \A s \in Sites : DOMAIN s.grant \subseteq Workers /\ s.users \subseteq Users
                        /\ {s.until, s.fences, s.messages} \subseteq Nat
    /\ {MaxFence, MaxNonce} \subseteq Nat /\ DrainLimit \in Nat \ {0}

Bots == UNION {{s.grant[w].bot : w \in DOMAIN s.grant} : s \in Sites}
RunnerIds == UNION {{s.grant[w].runner : w \in DOMAIN s.grant} : s \in Sites}
Never == -1
Delivery == [user : Users, event : Events]
Link == [bot : Bots, chat : Chats, failed : BOOLEAN, via : Nat, generation : Nat]

ASSUME NoLinkAssumption == NoLink \notin Link

VARIABLES
    now,
    site,              \* the deployment; never changes
    lastSeen,          \* runners: when a runner last registered
    provider,          \* telegramProviders "active": the bot of the scope
    polls,             \* telegramPolls: bot -> lease, fence, offset, cooldown
    links,             \* telegramLinks: user -> link
    requests,          \* telegramRequests: nonce -> request
    subs,              \* user -> the bot its telegram subscription consents to
    outbox,            \* delivery -> row
    inbox,             \* Telegram's own queue: bot -> unconfirmed messages
    worker,            \* what each worker process is doing
    sent,              \* messages sent so far
    nonces,            \* requests begun so far
    current,           \* user -> its newest request since it last disconnected
    asked              \* bot -> until when Telegram asked a poll holder to wait

outside == <<site, inbox, sent, nonces, current, asked>>
people == <<links, requests, subs>>
vars == <<now, lastSeen, provider, polls, people, outbox, worker, outside>>

NoRow == [id |-> 0, fence |-> 0]
\* pc: out (no lease), top (of a round), drain, sending, sent, updates, batch, handled
Out == [pc |-> "out", fence |-> 0, offset |-> 0, drained |-> 0, batch |-> <<>>,
        row |-> NoRow, result |-> "none", wait |-> 0]
FreshPoll == [runner |-> NoRunner, fence |-> 0, leaseUntil |-> 0, next |-> 0,
              offset |-> 0, processed |-> Never]

Init ==
    /\ now = 0
    /\ site \in Sites
    /\ lastSeen = [r \in RunnerIds |-> Never]
    /\ provider = NoBot
    /\ polls = [b \in Bots |-> FreshPoll]
    /\ links = [u \in Users |-> NoLink]
    /\ requests = [n \in {} |-> 0]
    /\ subs = [u \in Users |-> NoBot]
    /\ outbox = [d \in {} |-> 0]
    /\ inbox = [b \in Bots |-> <<>>]
    /\ worker = [w \in Workers |-> Out]
    /\ nonces = 0
    /\ current = [u \in Users |-> 0]
    /\ sent = 0
    /\ asked = [b \in Bots |-> 0]
-----------------------------------------------------------------------------
(* Providers *)

Crew == DOMAIN site.grant
BotOf(w) == site.grant[w].bot
RunnerOf(w) == site.grant[w].runner
Live(r) == lastSeen[r] # Never /\ now - lastSeen[r] < RunnerTTL
Serves(r, b) == \E w \in Crew : RunnerOf(w) = r /\ BotOf(w) = b

\* telegramProvider: the active bot, while some worker of it is registered.
Available == provider # NoBot /\ \E r \in RunnerIds : Live(r) /\ Serves(r, provider)

\* telegramRunner
Admitted(w) == Available /\ provider = BotOf(w) /\ Live(RunnerOf(w))

\* Cancelling moves the fence, so that an answer under way is refused.
Cancel(rows) ==
    /\ \A d \in rows : outbox[d].fence < MaxFence
    /\ outbox' = [d \in DOMAIN outbox |->
                    IF d \in rows
                    THEN [outbox[d] EXCEPT !.state = "cancelled", !.fence = @ + 1]
                    ELSE outbox[d]]

Undelivered == {d \in DOMAIN outbox : outbox[d].state # "delivered"}

\* registerTelegramProvider, and RegisterRunner around it.
RegisterRunner(w) ==
    /\ ~\E r \in RunnerIds \ {RunnerOf(w)} :
           Live(r) /\ \E b \in Bots \ {BotOf(w)} : Serves(r, b)
    /\ provider' = BotOf(w)
    /\ lastSeen' = [lastSeen EXCEPT ![RunnerOf(w)] = now]
    /\ IF provider \in {NoBot, BotOf(w)} THEN UNCHANGED outbox
       ELSE Cancel({d \in Undelivered : outbox[d].bot # BotOf(w)})
    /\ UNCHANGED <<now, polls, people, worker, outside>>

\* ClaimDue and Heartbeat: a runner that works, or looks for work, is alive.
Seen(r) ==
    /\ lastSeen[r] \notin {Never, now}
    /\ lastSeen' = [lastSeen EXCEPT ![r] = now]
    /\ UNCHANGED <<now, provider, polls, people, outbox, worker, outside>>
-----------------------------------------------------------------------------
(* The poll lease *)

\* poll: the worker is admitted and its fence is the current, unexpired one.
Holds(w) ==
    LET p == polls[BotOf(w)]
    IN /\ Admitted(w)
       /\ p.runner = RunnerOf(w) /\ p.fence = worker[w].fence /\ p.leaseUntil > now

\* renewPoll
Renewed(p) ==
    LET idle == p.offset > 0 /\ p.processed # Never /\ now - p.processed >= IdleReset
    IN [p EXCEPT !.offset = IF idle THEN 0 ELSE @,
                 !.processed = IF idle THEN Never ELSE @,
                 !.leaseUntil = now + LeaseDuration]

\* A runner's new lease, under the next fence.
Claimed(p, r) == Renewed([p EXCEPT !.runner = r, !.fence = @ + 1])

\* Mutant: the cooldown is left to the runner that was told to wait.
FreeEarly(b) == polls[b].leaseUntil =< now

Free(b) == polls[b].leaseUntil =< now /\ polls[b].next =< now

ClaimTelegramPoll(w) ==
    LET b == BotOf(w)
    IN /\ worker[w].pc = "out"
       /\ Admitted(w) /\ Free(b)
       /\ polls[b].fence < site.fences
       /\ polls' = [polls EXCEPT ![b] = Claimed(@, RunnerOf(w))]
       /\ worker' = [worker EXCEPT ![w] = [Out EXCEPT !.pc = "top", !.fence = polls'[b].fence]]
       /\ UNCHANGED <<now, lastSeen, provider, people, outbox, outside>>

\* The renewal goroutine, and the renewal at the top of every round, which
\* takes over the offset.
RenewTelegramPoll(w) ==
    LET b == BotOf(w)
    IN /\ worker[w].pc # "out"
       /\ Holds(w)
       /\ polls' = [polls EXCEPT ![b] = Renewed(@)]
       /\ worker' = IF worker[w].pc # "top" THEN worker
                    ELSE [worker EXCEPT ![w].pc = "drain", ![w].offset = polls'[b].offset]
       /\ UNCHANGED <<now, lastSeen, provider, people, outbox, outside>>

\* Any call that fails ends runLease: the network, a fence, a renewal, a crash.
GiveUp(w) ==
    /\ worker[w].pc # "out"
    /\ worker' = [worker EXCEPT ![w] = Out]
    /\ UNCHANGED <<now, lastSeen, provider, polls, people, outbox, outside>>

\* deferTelegramPoll
Deferred(p, wait) ==
    [p EXCEPT !.next = now + wait, !.leaseUntil = now, !.fence = @ + 1]
-----------------------------------------------------------------------------
(* People: connecting, consenting, disconnecting *)

Without(f, S) == [x \in DOMAIN f \ S |-> f[x]]
RequestsOf(u) == {n \in DOMAIN requests : requests[n].user = u}

BeginTelegramLink(u) ==
    LET n == nonces + 1
        kept == Without(requests, RequestsOf(u))
    IN /\ Available
       /\ nonces < MaxNonce
       /\ requests' = [m \in DOMAIN kept \cup {n} |->
                         IF m \in DOMAIN kept THEN kept[m]
                         ELSE [user |-> u, bot |-> provider, expires |-> now + RequestLife,
                               consumed |-> NoChat]]
       /\ nonces' = n
       /\ current' = [current EXCEPT ![u] = n]
       /\ UNCHANGED <<now, lastSeen, provider, polls, links, subs, outbox, worker,
                      site, inbox, sent, asked>>

Subscribe(u) ==
    /\ Available
    /\ links[u] # NoLink /\ links[u].bot = provider /\ ~links[u].failed
    /\ subs' = [subs EXCEPT ![u] = provider]
    /\ UNCHANGED <<now, lastSeen, provider, polls, links, requests, outbox, worker, outside>>

Unsubscribe(u) ==
    /\ subs[u] # NoBot
    /\ subs' = [subs EXCEPT ![u] = NoBot]
    /\ UNCHANGED <<now, lastSeen, provider, polls, links, requests, outbox, worker, outside>>

RowsOf(u) == {d \in DOMAIN outbox : d.user = u}

\* Mutant: the connection request of a disconnected user stays open.
KeepRequests(u) ==
    /\ links' = [links EXCEPT ![u] = NoLink]
    /\ Cancel(Undelivered \cap RowsOf(u))
    /\ current' = [current EXCEPT ![u] = 0]
    /\ UNCHANGED <<now, lastSeen, provider, polls, requests, subs, worker,
                   site, inbox, sent, nonces, asked>>

\* Mutant: the claim is left to notice that the link is gone.
KeepRows(u) ==
    /\ links' = [links EXCEPT ![u] = NoLink]
    /\ requests' = Without(requests, RequestsOf(u))
    /\ current' = [current EXCEPT ![u] = 0]
    /\ UNCHANGED <<now, lastSeen, provider, polls, subs, outbox, worker,
                   site, inbox, sent, nonces, asked>>

DisconnectTelegram(u) ==
    /\ links' = [links EXCEPT ![u] = NoLink]
    /\ requests' = Without(requests, RequestsOf(u))
    /\ Cancel(Undelivered \cap RowsOf(u))
    /\ current' = [current EXCEPT ![u] = 0]
    /\ UNCHANGED <<now, lastSeen, provider, polls, subs, worker,
                   site, inbox, sent, nonces, asked>>
-----------------------------------------------------------------------------
(* Deliveries *)

\* notify, for a telegram subscription: the row keeps the chat, the bot and the
\* generation of the link; `via`, the request that made the link, is ours.
Notify(e) ==
    LET fresh == {d \in Delivery : /\ d.event = e
                                   /\ links[d.user] # NoLink /\ ~links[d.user].failed
                                   /\ subs[d.user] = links[d.user].bot}
        row(d) == LET l == links[d.user]
                  IN [state |-> "pending", fence |-> 0, attempts |-> 0, leaseUntil |-> 0,
                      retryAt |-> 0, created |-> now, bot |-> l.bot, chat |-> l.chat,
                      generation |-> l.generation, via |-> l.via, gone |-> FALSE]
    IN /\ \A d \in DOMAIN outbox : d.event # e
       /\ fresh # {}
       /\ outbox' = [d \in DOMAIN outbox \cup fresh |->
                       IF d \in fresh THEN row(d) ELSE outbox[d]]
       /\ UNCHANGED <<now, lastSeen, provider, polls, people, worker, outside>>

Ready(b) == {d \in DOMAIN outbox :
               /\ outbox[d].bot = b
               /\ outbox[d].state \notin {"delivered", "cancelled", "failed"}
               /\ outbox[d].retryAt =< now
               /\ ~(outbox[d].state = "sending" /\ outbox[d].leaseUntil > now)}

\* The link a row was made for, by what the row remembers of it.
Matches(d, l) ==
    /\ l # NoLink
    /\ l.bot = outbox[d].bot /\ l.chat = outbox[d].chat
    /\ l.generation = outbox[d].generation

Consents(d) ==
    /\ Matches(d, links[d.user]) /\ ~links[d.user].failed
    /\ subs[d.user] = outbox[d].bot

Closed(d) ==
    CASE ~Consents(d) -> [outbox[d] EXCEPT !.state = "cancelled"]
      [] Consents(d) /\ outbox[d].attempts >= MaxAttempts -> [outbox[d] EXCEPT !.state = "failed"]
      [] OTHER -> [outbox[d] EXCEPT !.state = "rate_limited", !.retryAt = now + 1]

Lease(d) ==
    [outbox[d] EXCEPT !.state = "sending", !.fence = @ + 1, !.attempts = @ + 1,
                      !.leaseUntil = now + LeaseDuration, !.retryAt = 0]

Hand(picked, passed) ==
    outbox' = [d \in DOMAIN outbox |-> IF d \in picked THEN Lease(d)
                                       ELSE IF d \in passed THEN Closed(d) ELSE outbox[d]]

\* claimNotifications for a bot: by CreatedAt up to the first it can hand out.
\* `limited`: those whose quota, taken at their first claim, is used up.
ClaimTelegramNotification(w) ==
    LET ready == Ready(BotOf(w))
        good == {d \in ready : Consents(d) /\ outbox[d].attempts < MaxAttempts}
    IN /\ worker[w].pc = "drain" /\ Holds(w)
       /\ \E limited \in SUBSET {d \in good : outbox[d].fence = 0} :
             LET sendable == good \ limited
                 refused == ready \ sendable
             IN \/ /\ sendable = {} /\ Hand({}, refused)
                   /\ worker' = [worker EXCEPT ![w].pc = "updates"]
                \/ \E d \in sendable, passed \in SUBSET refused :
                      /\ \A e \in sendable : outbox[d].created =< outbox[e].created
                      /\ \A e \in refused : outbox[e].created < outbox[d].created => e \in passed
                      /\ \A e \in passed : outbox[e].created =< outbox[d].created
                      /\ Hand({d}, passed)
                      /\ worker' = [worker EXCEPT ![w].pc = "sending",
                                       ![w].row = [id |-> d, fence |-> Lease(d).fence]]
       /\ UNCHANGED <<now, lastSeen, provider, polls, people, outside>>

\* sendMessage: taken, not taken, 429 with a wait, or no such recipient.
Send(w) ==
    /\ worker[w].pc = "sending"
    /\ \E r \in {"accepted", "refused", "limited", "gone"}, t \in FloodWaits \cup {0} :
          /\ (r = "limited") = (t > 0)
          /\ worker' = [worker EXCEPT ![w].pc = "sent", ![w].result = r, ![w].wait = t]
    /\ UNCHANGED <<now, lastSeen, provider, polls, people, outbox, outside>>

RowHeld(w) ==
    LET r == worker[w].row
    IN /\ r.id \in DOMAIN outbox
       /\ outbox[r.id].fence = r.fence
       /\ outbox[r.id].state = "sending" /\ outbox[r.id].leaseUntil > now

AfterRow(w) ==
    IF worker[w].result = "limited" THEN Out
    ELSE [worker[w] EXCEPT !.pc = IF worker[w].drained + 1 = DrainLimit THEN "updates" ELSE "drain",
                           !.drained = @ + 1, !.row = NoRow, !.result = "none"]

\* invalidateTelegramRecipient and the row itself.
RecipientGone(d) ==
    /\ links' = IF Matches(d, links[d.user])
                THEN [links EXCEPT ![d.user].failed = TRUE] ELSE links
    /\ outbox' = [e \in DOMAIN outbox |->
                    IF e = d THEN [outbox[d] EXCEPT !.state = "failed", !.gone = TRUE,
                                                    !.retryAt = 0]
                    ELSE IF /\ e.user = d.user /\ outbox[e].state # "delivered"
                            /\ outbox[e].bot = outbox[d].bot /\ outbox[e].chat = outbox[d].chat
                            /\ outbox[e].generation = outbox[d].generation
                         THEN [outbox[e] EXCEPT !.state = "cancelled", !.fence = @ + 1]
                         ELSE outbox[e]]
    /\ UNCHANGED polls

\* Any other answer; a flood wait also ends the lease of the bot.
Answered(w, d) ==
    LET row == outbox[d]
        back == now + Backoff[row.attempts]
        wait == now + worker[w].wait
    IN /\ outbox' = [outbox EXCEPT ![d] =
                       IF worker[w].result = "accepted" THEN [row EXCEPT !.state = "delivered"]
                       ELSE [row EXCEPT !.state = IF row.attempts >= MaxAttempts
                                                  THEN "failed" ELSE "retry",
                                        !.retryAt = IF back > wait THEN back ELSE wait]]
       /\ polls' = IF worker[w].result = "limited"
                   THEN [polls EXCEPT ![BotOf(w)] = Deferred(@, worker[w].wait)] ELSE polls
       /\ UNCHANGED links

\* A row that is no longer this worker's is refused, its flood wait with it.
FinishTelegramNotification(w) ==
    LET b == BotOf(w)
        d == worker[w].row.id
    IN /\ worker[w].pc = "sent" /\ Holds(w)
       /\ worker[w].result = "limited" => polls[b].fence < site.fences
       /\ \/ /\ RowHeld(w)
             /\ IF worker[w].result = "gone" THEN RecipientGone(d) ELSE Answered(w, d)
             /\ worker' = [worker EXCEPT ![w] = AfterRow(w)]
          \/ /\ ~RowHeld(w)
             /\ worker' = [worker EXCEPT ![w] = Out]
             /\ UNCHANGED <<outbox, links, polls>>
       /\ asked' = IF worker[w].result = "limited"
                   THEN [asked EXCEPT ![b] = now + worker[w].wait] ELSE asked
       /\ UNCHANGED <<now, lastSeen, provider, requests, subs, site, inbox, sent, nonces, current>>

RetryNotification(d) ==
    /\ outbox[d].state = "failed" /\ ~outbox[d].gone
    /\ outbox[d].fence < MaxFence
    /\ outbox' = [outbox EXCEPT ![d].state = "pending", ![d].attempts = 0,
                                ![d].retryAt = 0, ![d].fence = @ + 1]
    /\ UNCHANGED <<now, lastSeen, provider, polls, people, worker, outside>>
-----------------------------------------------------------------------------
(* Updates: getUpdates, link, advance *)

\* Someone who saw the request's link sends its /start message.
Message(n, c, b) ==
    /\ sent < site.messages
    /\ sent' = sent + 1
    /\ inbox' = [inbox EXCEPT ![b] = Append(@, [id |-> sent + 1, nonce |-> n, chat |-> c])]
    /\ UNCHANGED <<now, lastSeen, provider, polls, people, outbox, worker, site, nonces,
                   current, asked>>

\* getUpdates: what is below the offset, the oldest messages, is confirmed and gone.
GetUpdates(w) ==
    LET b == BotOf(w)
        queue == inbox[b]
    IN /\ worker[w].pc = "updates"
       /\ \E k \in 0 .. Len(queue) :
             LET news == SubSeq(queue, k + 1, Len(queue))
             IN /\ \A i \in 1 .. Len(queue) : queue[i].id < worker[w].offset <=> i =< k
                /\ inbox' = [inbox EXCEPT ![b] = news]
                /\ worker' = [worker EXCEPT ![w].pc = IF news = <<>> THEN "top" ELSE "batch",
                                            ![w].batch = news, ![w].drained = 0]
       /\ UNCHANGED <<now, lastSeen, provider, polls, people, outbox, site, sent, nonces,
                      current, asked>>

\* getUpdates answered 429, and DeferTelegramPoll.
DeferTelegramPoll(w, wait) ==
    LET b == BotOf(w)
    IN /\ worker[w].pc = "updates" /\ Holds(w)
       /\ polls[b].fence < site.fences
       /\ polls' = [polls EXCEPT ![b] = Deferred(@, wait)]
       /\ asked' = [asked EXCEPT ![b] = now + wait]
       /\ worker' = [worker EXCEPT ![w] = Out]
       /\ UNCHANGED <<now, lastSeen, provider, people, outbox, site, inbox, sent, nonces, current>>

\* Mutant: whoever proves the chat last has it.
NotTaken(u, b, c) == TRUE

ChatIsFree(u, b, c) ==
    \A v \in Users \ {u} : ~(links[v] # NoLink /\ links[v].bot = b /\ links[v].chat = c)

Linkable(m, b) ==
    /\ m.nonce \in DOMAIN requests
    /\ LET r == requests[m.nonce]
       IN /\ r.bot = b /\ r.consumed = NoChat /\ r.expires > now
          /\ ChatIsFree(r.user, b, m.chat)

\* CompleteTelegramLinkByRunner.  The worker takes every refusal but a stale
\* lease for an update that does not matter, and goes on to advance.
CompleteTelegramLinkByRunner(w) ==
    LET b == BotOf(w)
        m == Head(worker[w].batch)
        u == requests[m.nonce].user
    IN /\ worker[w].pc = "batch"
       /\ Holds(w) \/ ~Admitted(w)
       /\ IF Holds(w) /\ Linkable(m, b)
          THEN /\ links' = [links EXCEPT ![u] =
                              [bot |-> b, chat |-> m.chat, failed |-> FALSE, via |-> m.nonce,
                               generation |-> IF links[u] = NoLink THEN 1
                                              ELSE links[u].generation + 1]]
               /\ requests' = [requests EXCEPT ![m.nonce].consumed = m.chat]
          ELSE UNCHANGED <<links, requests>>
       /\ worker' = [worker EXCEPT ![w].pc = "handled"]
       /\ UNCHANGED <<now, lastSeen, provider, polls, subs, outbox, outside>>

AdvanceTelegramPoll(w) ==
    LET b == BotOf(w)
        next == Head(worker[w].batch).id + 1
        rest == Tail(worker[w].batch)
    IN /\ worker[w].pc = "handled" /\ Holds(w)
       /\ next >= polls[b].offset
       /\ polls' = [polls EXCEPT ![b] =
                      Renewed(IF next > @.offset
                              THEN [@ EXCEPT !.offset = next, !.processed = now] ELSE @)]
       /\ worker' = [worker EXCEPT ![w].batch = rest,
                                   ![w].pc = IF rest = <<>> THEN "top" ELSE "batch"]
       /\ UNCHANGED <<now, lastSeen, provider, people, outbox, outside>>

Tick ==
    /\ now < site.until
    /\ now' = now + 1
    /\ UNCHANGED <<lastSeen, provider, polls, people, outbox, worker, outside>>
-----------------------------------------------------------------------------
Next ==
    \/ \E w \in Crew :
          \/ RegisterRunner(w) \/ ClaimTelegramPoll(w) \/ RenewTelegramPoll(w) \/ GiveUp(w)
          \/ ClaimTelegramNotification(w) \/ Send(w) \/ FinishTelegramNotification(w)
          \/ GetUpdates(w) \/ CompleteTelegramLinkByRunner(w) \/ AdvanceTelegramPoll(w)
          \/ \E t \in FloodWaits : DeferTelegramPoll(w, t)
    \/ \E r \in RunnerIds : Seen(r)
    \/ \E u \in site.users : \/ BeginTelegramLink(u) \/ Subscribe(u) \/ Unsubscribe(u)
                            \/ DisconnectTelegram(u)
    \/ \E e \in Events : Notify(e)
    \/ \E d \in DOMAIN outbox : RetryNotification(d)
    \/ \E n \in 1 .. nonces, c \in Chats, w \in Crew : Message(n, c, BotOf(w))
    \/ Tick

Spec == Init /\ [][Next]_vars
-----------------------------------------------------------------------------
(* Properties *)

\* Two users never share a chat on one bot, whichever runner completes their
\* requests and however late.
ChatHasOneUser ==
    \A u, v \in Users :
        /\ u # v /\ links[u] # NoLink /\ links[v] # NoLink
        /\ links[u].bot = links[v].bot
        => links[u].chat # links[v].chat

\* While a bot is told to wait no runner leases its poll or gets one of its
\* deliveries, and the wait is never shortened: failover does not bypass it.
FloodWaitKept ==
    [][\A b \in Bots : polls[b].next > now =>
          /\ polls'[b].next >= polls[b].next /\ polls'[b].leaseUntil =< now
          /\ \A d \in DOMAIN outbox : outbox'[d].attempts > outbox[d].attempts =>
                outbox[d].bot # b]_vars

\* A delivery has to do with the link it was made for and no other, though the
\* generations of a user's links start again after a disconnect: it is handed out
\* through that link only, and a late failure gives up none made since, not even
\* one to the same chat.
RowsKeepToTheirLink ==
    [][/\ \A d \in DOMAIN outbox : outbox'[d].attempts > outbox[d].attempts =>
             /\ links[d.user] # NoLink /\ ~links[d.user].failed
             /\ links[d.user].via = outbox[d].via
       /\ \A u \in Users :
             (links[u] # NoLink /\ links'[u] # NoLink /\ ~links[u].failed /\ links'[u].failed) =>
                 \E w \in Workers : LET d == worker[w].row.id
                                    IN /\ worker[w].result = "gone" /\ d.user = u
                                       /\ outbox[d].via = links[u].via]_vars

\* A link comes only from the user's newest request, and from none made before
\* the user disconnected, however long its message or its batch was under way.
DisconnectIsFinal ==
    [][\A u \in Users :
          links'[u] # NoLink =>
              \/ links'[u].via = current[u]
              \/ links[u] # NoLink /\ links'[u].via = links[u].via]_vars

\* "Telegram flood-wait responses retain the provider's bounded retry delay in
\* the delivery and bot poll record": once a poll holder reported a wait, no
\* delivery of the bot is handed out before it is over.
ReportedWaitRespected ==
    [][\A d \in DOMAIN outbox :
          outbox'[d].attempts > outbox[d].attempts => asked[outbox[d].bot] =< now]_vars
=============================================================================
