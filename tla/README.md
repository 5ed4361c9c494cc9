# Verification of the Relavoi backend

TLA+ models of the Relavoi privacy-telephony backend (`src/src/`), the TLC
configurations that check them on small instances, and TLAPS proofs about them.
Source references are `file:line` under `src/src/`.

## The system

Relavoi lends a proxy phone number to two people so that they can call each
other without knowing each other's number. A tenant creates a *masking session*
for two phones; the session claims a proxy number of a region, and may share it
with other sessions as long as no two of them have a phone in common. An inbound
call names only the caller and the dialled number, and is routed to the other
party of the one session that fits. A session ends on request or at its
deadline, the number rests for a cooldown and is offered again.

Every process of the deployment (`index.ts:113-152`) serves the API and also
runs every worker; the Kubernetes manifests start two API replicas and a worker.
State is in Postgres (authoritative rows) and Redis (sets, hashes, streams).
Redis runs a Lua script without interruption; everything else interleaves at
each `await`.

### Inventory

| component | state | operations | module |
|---|---|---|---|
| number pool (`services/number-pool.ts`, `workers/pool-reaper.ts`) | Redis `pool:{region}:available`, `:in_use`, `:cooldown`, `proxy:{n}:sessions`; `proxy_numbers.status` | `allocate`, `release`, `reapCooldown`, `loadPoolFromDb`, status queries | `NumberPool`, `PoolOps` |
| masking sessions (`services/session-manager.ts`, `api/routes/sessions.ts`, `services/tier-enforcer.ts`, `workers/session-expiry.ts`) | `sessions` rows; Redis `session:{id}`, `phone:{hash}:sessions`, `tenant:{id}:active_sessions` | create with rollback, end, swap target, extend grace, expire, tier limit | `SessionManager` |
| forced expiry (`api/routes/admin.ts:392`) | the same | `POST /admin/sessions/:id/expire` | `SessionManager` |
| pool administration (`api/routes/admin.ts:648-772`, `index.ts`) | pool sets and rows | quarantine, release from quarantine, reload at boot | `PoolOps` |
| call routing and SMS (`services/call-router.ts`, `services/sms-router.ts`) | dedup keys, call counter in `session:{id}`, `call_records`, `sms_records` | route an inbound call or SMS, record its outcome | `InboundRouting` |
| provider webhooks and dead letters (`services/webhook-handler.ts`, `api/routes/webhooks.ts`, `api/routes/admin.ts:613-645, 1036-1065`) | dedup keys, call rows, `webhook_dlq` | voice, status and SMS webhooks, retry and abandon of dead letters | `InboundRouting` |
| tenants and credentials (`api/routes/tenants.ts`, `api/middleware/auth.ts`, `utils/cache.ts`) | the tenant's row, a memo in each process, tokens | edit the settings, issue and rotate keys, exchange them for tokens, activate live mode | `TenantSettings` |
| circuit breaker (`services/circuit-breaker.ts`, `workers/cpaas-health-check.ts`) | Redis hash `cb:{provider}` | record success, failure, request, health check; force; probe tick | `CircuitBreaker` |
| event bus, consumers, tenant webhooks, billing (`services/event-bus.ts`, `workers/event-consumers.ts`, `services/tenant-webhook-delivery.ts`, `services/billing-manager.ts`) | Redis streams and groups, usage rows, deliveries | publish, read, acknowledge, meter, deliver with retries | `EventDelivery` |
| websocket fan-out (`services/websocket-server.ts`) | sockets per tenant, Redis subscriptions | connect, disconnect, heartbeat, broadcast | `EventFanout` |
| rate limiting, presence, devices, push, other operator routes, analytics, audit, metrics, configuration, schema, seeds | single rows and keys | single-command updates, reads, formatting | not modelled |

How they interact: the session manager calls the pool's scripts and trails them
with its own Redis and Postgres writes; the pool's overlap check reads the
session hashes the session manager writes later; the expiry worker and the
operators drive the same `expireSession` as each other; the reaper moves numbers
under everybody's feet, and an operator takes one out; a boot rebuilds the sets
from rows and sessions; call routing reads what sessions wrote and writes a
counter back into the session hash; the session manager publishes events that
the consumers turn into usage and tenant webhooks, and that the websocket
servers pass on; its defaults come from the tenant's row by way of a memo.

What is hard, and what each part owes:

- **Pool.** Scripts, the reaper's pipeline (not a MULTI) and the Postgres writes
  that trail both interleave freely. A claimed number is in use; no number is
  lost; a rest is served in full; after a crash anywhere, a boot puts every
  number where its row and its sessions say; a quarantined number is not
  offered. Boots and operators log a failing command and report success.
- **Sessions.** About eight store commands per creation and per expiry, any of
  which may fail; two expirers, requests, evictions and deadlines in between. No
  two sessions on a number share a phone; an ACTIVE session is wired up
  everywhere it is looked up; nothing is left of a session that is over; every
  session ends and every number returns; the tier's limit holds.
- **Routing.** An answer is put together from several reads while sessions
  change, is cached, and is repeated to a provider that repeats its webhook. It
  was right when it was given; repetitions agree; no webhook vanishes.
- **Settings.** Requests check a row and write it later, and a memo stands
  between the row and its readers. Live mode is earned; an edit takes effect;
  no row records calls without consent.
- **Breaker.** Several processes update one hash field by field. It trips at its
  threshold, closes only after a passed probation, and recovers when the
  provider does. The worker swallows every error, at whatever step it comes.
- **Events.** A group never falls behind for ever; a crash, a lost reply or an
  emptied Redis charges nobody twice; posts stop at the first success; an entry
  whose reader died is taken over by somebody (it is not: `events_lost`).
- **Fan-out.** Clients share one subscription, whose mark trails the commands. A
  client is told what is announced; the last one takes the subscription along;
  a silent one is dropped.

`PROJECT.json` lists the hazards line by line, with the property that covers
each.

## Modules

| module | models |
|---|---|
| `NumberLease` | what the pool promises: numbers are free, held, resting or rested |
| `NumberPool` | `ALLOCATE_SCRIPT`, `RELEASE_SCRIPT`, `release`'s write-back, `reapCooldown` |
| `SessionManager` | extends `NumberPool` with the session handlers, the tier limit, the expirers, deadlines and Redis TTLs |
| `InboundRouting` | extends `SessionManager` with calls, SMS, status reports and dead letters |
| `PoolOps` | extends `NumberPool` with quarantine, crashes, an emptied Redis and `loadPoolFromDb` |
| `TenantSettings` | the tenant's row, its memo, keys, tokens, live mode |
| `CircuitBreaker` | `circuit-breaker.ts`, the probing worker, the operators |
| `EventDelivery` | `event-bus.ts`, the metering and tenant-webhook consumers, `recordUsage`, the webhook posts, process lifetimes |
| `EventFanout` | extends `EventDelivery` with the announcement on the tenant's channel and `websocket-server.ts` |
| `MC...` | the instances for TLC: party sets, symmetry, which clients connect where |
| `NumberPoolProofs`, `SessionManagerProofs`, `InboundRoutingProofs`, `PoolOpsProofs` | the proofs about the pool and what is composed over it; each builds on the first, `InboundRoutingProofs` on `SessionManagerProofs` |
| `TenantSettingsProofs`, `CircuitBreakerProofs`, `EventDeliveryProofs`, `EventFanoutProofs` | the other proofs, the last over `EventDelivery` |

**NumberPool.** A Lua script is one action. `Allocate` is the script's random
draw: it may take any available number without an overlap, and goes on to the
numbers in use only when the draws may all have failed (`DrawsMayFail`: the
available set is empty or holds an overlapping number, which `SRANDMEMBER` may
return every time). `Release` is its script and leaves the Postgres write in
`pending`; `WriteBack` is the continuation, `WriteBackLost` the failure that is
only logged. Any process may run a reaper, so `Reapers` is a set, and an older
list may be worked off while another reaper has moved on. The reaper's pipeline is `ReapScan`, then `ReapLift` (ZREM) and
`ReapReturn` (SADD) per number, then `ReapWriteBack`. A cooldown score is the
phase `none`, `waiting` or `elapsed`.

**SessionManager.** A handler is a sequence of actions, one per store command.
`req[c]` and `job[e]` are the continuations: the program counter and whatever
the handler read before the `await`. A session hash is its parties
(`hashParties`), its state, whether it has its `id` field (a key that came back
through a lone HSET has not), and its TTL relative to the row's deadline.
`Parties` is `Tenants \X Phones` since `hashPhone` is salted with the tenant.
Metadata, audit entries, metrics and events are left out; so is `verifyCall`,
which only reads. `StoreFails` names the handlers whose commands may fail, and
where it matters a failure may come after the command took effect: an
allocation that loses its reply is answered with 503 and leaves its claim
(`CreateAllocate`, `number-pool.ts:208-211`); an UPDATE to EXPIRED that took
effect and threw ends the expiry before its cleanup (`ExpireMark`). The HSET of
the session's hash and the EXPIRE that follows it are one step, in which the
EXPIRE may fail and leave a hash without a TTL to the rollback.

**InboundRouting.** `handler[d]` is the webhook that place `d` is working on:
the lookup of the dedup key, the members of the number's set, one hash after the
other, the row of the match, the cached decision, the answer. A text is recorded
and handed to `forward`; the record and the counters of a call, and `forward`,
are `tasks` that nobody awaits. A report looks for its call's record
(`Matches`), then sets its dedup key. `DlqRetry` and `DlqAbandon` are the two
operator requests. `seen` gathers, while a handler searches and after its match,
whether there was a moment without a session for the caller, and which phones
were the other end of the matched one: an answer is judged against these. `told`
keeps what the provider was told about an event; it is waived where the dedup
key lapsed, could not be read or written, or was not yet written when a
repetition looked for it. `fate` says, apart from that, whether an event was
answered by a decision, and whether one that should have been listed for the
operators was `lost`, since that insert failed as well and is only logged.

**PoolOps.** Sessions are reduced to what a boot can tell apart (`life`): a
claim whose row is not ACTIVE yet, a live one, one marked EXPIRED, and one that
a crash left behind (`stuck`), which no worker selects again. `process` stands
for all processes that serve; `Crash` forgets everything but the stores.
`BootRead`, `BootPlace` per number and `BootDone` are `loadPoolFromDb`, its
reads before its writes: of what it has read, `load` keeps where each number
left to do will go (`Place`), which the rows decide and nothing read later
changes. A boot may run beside processes that serve (`BootsBeside`), its
pipeline may drop commands, and `BootFails` is the catch of `index.ts:130-132`,
after which the process serves. The two reads are one step, and so is what the
pipeline does to one number. An operator's request is the read, the UPDATE and
the Redis commands; the UPDATE may throw with or without its effect
(`QuarantineThrows`, `ReleaseThrows`), and Redis may fail behind it, in which
case the request succeeds all the same (`QuarantineYankFails`,
`ReleaseOfferFails`). Two history variables: `barred`, the numbers whose
quarantine was answered, and `lapsed`, the numbers that a failed or overtaken
command may have left where their row does not put them.

**TenantSettings.** The row's defaults are a version number; a request holds
the version it read and, as history, the version whose edit had been answered by
its process when it started (`floor`), and whether an edit was answered while it
was loading (`crossed`). An edit keeps the row it was checked to leave
(`checked`); `outdated` says that the row is not what the last edit that wrote it
was checked to leave. A token is its mode.

**CircuitBreaker.** Every `hincrby`, `hget` and `hset` is an action, and the
counts an operation was answered are kept in its continuation `op[p]`. `CutShort`
is an error of Redis, or a crash, at any step of any operation: the rest of it is
not done, and the worker's catch (`cpaas-health-check.ts:65-67`) only logs it.
Three history variables: `forced` (an operator was the last to write the state),
`missed` (since the last failure that was counted an error has cut short an
operation that was going to trip the breaker) and `overtaken` (the callers with a
success for which the state was written since they read it).

**EventDelivery.** One event type: its `stream`, and per group a `cursor` (what
`XREADGROUP >` has delivered) and `pending` (what is not acknowledged). `loop`
holds each process's read loop: the batch it was given and the step of the entry
it is at, one step per command to Redis or Postgres. `Exit` is a crash or the end
of a shutdown, and takes the loop and the webhooks waiting for their next attempt
with it; `Stop` is `close()`, after which a loop finishes its batch and fails to
acknowledge it. `Subscribe` and `Recover` create the group at the end of the
stream, as `$` does. `ReadLost` is a reply that never arrives, `Flush` a Redis
that restarts empty. `OpenCollides` is the unique key of `billing_periods`.
The handlers never throw, so an entry stays pending only when its process dies or
its XACK fails.

**EventFanout.** `server[p]` is a process's set of sockets, its mark
`subscribed`, and its one subscriber connection: commands not yet executed, and
replies and messages not yet read, in order. `listens` is what Redis knows. A
command's reply carries its continuation, which sets the mark. `owed`,
`sent` and `skipped` are history: what was announced while nothing was under way
on the client's process, what `fanout` wrote to its socket, and what it kept from
it because its last ping has no pong yet. A client whose connect met an
unsubscribe in flight, or whose command failed, is owed nothing (`excused`), but
only until a subscribe of another client is executed and no unsubscribe follows
it (`Serves`).

## Runs

| run | instance | shows |
|---|---|---|
| `routing` | 1 number, 2 sessions, 4 phones, create and swap, 1 worker, 1 reaper, with and without rest, UPDATEs of the pool lost | `RoutingUnambiguous`, `ActiveIsRoutable`, and for the pool under its real callers `Partition`, `LeaseSpec`, `ImplementsPool` |
| `lifecycle` | 1 number, 2 sessions, worker and operator, end and extend, allocations that fail or lose their reply | `ActiveIsRoutable`, `NoGhostClaim`, `NoPhantomQuota`, and `TierCap` with one create at a time |
| `faults` | 1 number, 2 sessions, 3 phones, 2 reapers, every handler's commands failing | `PoolSafe` (`HeldIsInUse` and `NoNumberLost`), `RoutingUnambiguous`, `RestIsServed` |
| `liveness` | 1 number, 1 session, end and swap, worker and reaper | `SessionsEnd`, `NumbersReturn` under fairness |
| `overlap_race` (violation) | 2 clients | two creates sharing a phone get the same number |
| `inbound` | 1 number, 2 sessions, 3 phones, create and swap, expiry; 1 call or text, 2 deliveries, 3 requests | `AnswersWereRight`, `RetriesAgree`, `NothingVanishes`, `IndexIsHonest` |
| `status_unmatched` (violation) | 1 session, 1 call, 1 report | a report never finds its call's record |
| `pool_ops` | 1 number, 1 session, 2 operators, 1 reaper, crashes, Redis emptied, boots alone and beside others, all commands failing | `NumbersSurvive`, `QuarantineHolds`, `BootReconciles` |
| `settings` | 1 process, 1 creating request, 2 editors with 5 bodies, 1 owner, 1 edit of the defaults | `LiveIsEarned`, `EditsTakeEffect`, `ConsentKept` |
| `breaker` | 2 callers (one whose requests may fail), 1 worker, operators, errors at every step, threshold 2 | `TripsAtThreshold`, `ClosingIsEarned`, `RecoversWhenUp` |
| `events` | 2 processes, 2 events (1 live), batches of 2, 2 attempts, everything fails; or no group and 2 websocket clients | `NeverOvercharged`, `PostsEndWithSuccess`, `StreamIsDrained`; `ClientsAreTold`, `LastOneUnsubscribes`, `SilentIsDropped` |
| `events_lost` (violation) | 2 processes, 1 event, nothing fails but a process | the entry of a process that died stays pending while another stays up |

**Bounds.** Sessions, numbers and phones are only compared, so the interesting
cases need two of a kind: one number already makes sessions share it, exhaust
the pool and use it again. Four phones give two disjoint pairs and a swap target
that conflicts or not. In `faults` there are three, so that any two pairs
overlap: a number is shared there only when a failing store has left a session
without its hash, which is the case that run is for; two reapers give one a list
that the other has overtaken. `StoreFails` in `faults` has all four handlers. Session ids are not reused, so a run ends when they are
spent, which is why the session runs set `CHECK_DEADLOCK FALSE`; in `liveness`
one session is enough for the same reason, a second one only postponing the
number's return. Its number is taken once, its session ended, swapped and
expired in every order.
The breaker's thresholds are 2 rather than 5, its rate 40 percent over at least 2
samples, so that one success and one failure trip it by the rate. Of the two
callers one only succeeds (`Failing` has the other), so that
their verdicts race and failures come between them. `Bounded` is the bound on the
counters: beyond it no error cuts an operation short and no operator forces a
state, since both would let the counts grow without end; `MaxSamples` is its
bound on the window, and operators act while one operation at most is in progress
(`Quiet`), so that each step of an operation is met by a forced state and each
pair of operations by one another. Its run sets `CHECK_DEADLOCK FALSE` because a
CLOSED breaker nobody reports to may rest.
In `events` the initial state chooses the groups of the event type: none or one.
Two groups share the stream, which neither changes, and the process, whose crash
ends both, so that together they can do nothing each cannot do alone. Two
processes make one read what the other lost, two events make a batch that is
left half handled, and two attempts give a retry that may be the last. An event
is published once, so its run may stop. Clients come where no group reads
(`Visits`), since the two ways out of the bus share only `publish` and the
process; they come to one process, since clients of different processes share
nothing but the channel. Two of them make one leave while the other comes, and
one announced event (`Scoped`) is enough for a client to miss it.
In `inbound`, `MaxMail` is how many calls and texts come in (one, of either
kind), `MaxRequests` how many requests arrive, the provider's repetitions and
reports and the clients' creations and swaps together: the session, its swap and
the call; or the session and a call twice; or the call, its repetition and
something else. One of the two places handles webhooks while stores fail
(`Failing`), the other while they do not, so that both a failure beside a success
and the promises without failure are seen. A behaviour ends when the last
request was handled (`Watched`).
In `pool_ops` a session id that left the pool stands for a new one, so there is
no end to the sessions, and one suffices to hold the number, leave it and be
left behind; one number suffices because all of its steps are per
number, the boot's included. Two operators quarantine and release it at the same
time. In `settings` `MaxEdits` bounds the edits of the
defaults, the only ones that are counted: one separates old from new. `Bodies`
has one edit that touches the defaults and four that turn recording on or off
with, without and against consent; two editors at a time are enough for one to
be overtaken.
Symmetry is used in the safety runs only.

**Fairness** (`FairSessionSpec`, `Fairness` in `CircuitBreaker`). A handler that
has started goes on, because Node runs its continuations and the store answers;
the `liveness` run has no failing store. Worker and reaper are interval timers
that reschedule themselves after an error. The clock passes every deadline,
cooldown and TTL. Nothing obliges a client to send a request, an operator to act
or the provider to come back. Only weak fairness is used.

A read loop goes on while its process is up, a process that is down is started
again (the deployment restarts its containers), and timers fire; `StreamIsDrained`
and `PendingIsRetried` moreover speak only of behaviours in which some process
stays up. A heartbeat is an interval timer, and the subscriber connection goes on
executing and reading (`FanFairness`); nothing obliges a client to answer.

**What is assumed of the clients.** `RoutingUnambiguous` holds when one create runs at
a time, with failures, sharing, swaps and expiries; two concurrent creates break
it (`overlap_race`): the script claims the number four awaits before the hash it
looks for is written. Two swaps, or a swap and a create, on one number break it
in the same way. `TierCap` with one client says that the limit is kept; with more,
creates that are both counted before either is in the active set exceed it
(`tier-enforcer.ts:45`), by one session for each client beyond the first, which is
what it allows. `Partition` and `LeaseSpec` are checked with one reaper, one
expirer and no `endSession`. The deployment has more of each: two reapers put one
number into two sets, two expirers (or a late `endSession` that makes an expired
row live again) release a number twice, and the second release may offer it while
it rests. What holds then is `PoolSafe`, `RestIsServed` and `ImplementsPool`.
All sessions on a number are of one tenant in these runs: `hashPhone` is salted
per tenant, so sessions of two tenants may share a number and a phone, and then
`RoutingUnambiguous` and `AnswersWereRight` fail.

**What the properties except.** Where the code gives a promise up in a certain case,
the property names the case in its own terms, so that it still says that there is
no other:

- `RestIsServed`: a rest that began while a reaper already had the number on its
  list may be cut by it. One process reaps the number, it is taken and released,
  and another process, which read its list before, reaps it again.
- `NoGhostClaim`: the claim of an allocation that lost its reply.
- `NothingVanishes`: a text whose handling threw and whose insert into the dead
  letters failed too. No call vanishes.
- `BootReconciles`, `NumbersSurvive`, `QuarantineHolds`: numbers over which a
  command of a boot or of an operator failed, or which others changed under it.
- `ConsentKept`: a row that an edit left which another one overtook.
- `TripsAtThreshold`: an error between the count and the transition, until the next
  failure that is counted.
- `ClosingIsEarned`: a caller that somebody overtook since it read the state.
- `ClientsAreTold`: a client skipped for its ping, and one that found a mark which
  an unsubscribe in flight was about to make wrong, or whose subscribe failed.

## What is proved

The proofs are checked by TLAPS for arbitrary sets of numbers, sessions, parties,
clients, reapers, expirers, operators, processes, events, calls and texts, and any
number of steps. A theorem's further assumptions on the constants are the ones the
runs make of the clients (above), and are named where they are needed: each of
them is one that the code does not enforce and without which the property fails.
Where a theorem speaks of stores that do not fail, the constant `StoreFails`
says which step's failure leaves the property broken for good, because the code
only logs it. No theorem assumes how many processes run a reaper, an expirer, a
probe, a boot or an operator's request.

**The pool** (`NumberPoolProofs`).

- `PoolTypeCorrect`: `PoolSpec => []PoolTypeOK` (checked as a conjunct of `OpsTypeOK`).
- `PoolIsSafe`: for any number of reapers and callers that release anything at
  any time, `PoolSpec => []PoolSafe`, that is `HeldIsInUse` and `NoNumberLost`.
  `HeldIsInUse` is inductive with the types; `NoNumberLost` needs `JobsOrderly`:
  a reaper holds at most one number between ZREM and SADD, one of its batch, so
  that its final step forgets none.
- `RestIsAlwaysServed`: `PoolSpec => RestIsServed`, for any number of reapers and
  releases. It follows from `JobsOrderly`: a reaper moves numbers of the list it
  read, and a list is read from scores in the past.

`PoolAssumption` types the Boolean constant. Finite sets are not assumed. The
refinement of `LeaseSpec`, which TLC checks, maps a number to `held`, `free`,
`resting` or `rested` by the set it is in; a reaper's ZREM is a stutter and its
SADD is `Offer`.

**The sessions** (`SessionManagerProofs`).

- `SessionTypeCorrect`. The inductive invariant is `BaseInv`: beside the types, it
  types each continuation by its program counter (`ReqOK`, `JobOK`), and says that
  a maker's id is its own and has no row before `CreateInsert` (`ReqsOK`), that a
  session without a row has left no trace but its claim and its phone-index
  entries (`TracesOK`), and that a claim is on the row's number (`ClaimsOK`).
  Everything else builds on it.
- `SessionsUsePool`, `SessionPoolIsSafe`, `SessionRestIsServed`: every step of a
  handler is a step of the pool, or none (`PoolStep`), so that the composition
  implements the specification of the pool, and keeps `PoolSafe` and
  `RestIsServed`. Nothing is assumed of the stores, the reapers or the expirers.
- `RoutingIsUnambiguous`, for any number of clients of one tenant, in behaviours
  where no two requests are in the window of one number at a time (`[]OneInWindow`):
  a creation between its claim and its hash, a swap between its look at the
  siblings and its script. `overlap_race` refutes it for two creations in one
  window, the salt of `hashPhone` for two tenants: a lock around these windows is
  what the code lacks, and all it lacks. `RouteInv`
  strengthens it over three stages. Two hashes on a number never share a party
  (`Apart`); the session being made shares none with the hashes of its number,
  though its own is not written yet (`MakerApart`); and the party a swap is about
  to add is in no hash of a sibling it has looked at (`SwapApart`).
- `NoClaimIsGhost`: the claim of a session that is over is about to be released,
  or its allocation lost its reply (`Unanswered`: its session has no row, and
  nothing will ever release it). With a release that fails a claim would stay, so
  `StoreFails` may hold `"allocate"` and `"create"` at most: `createSession` rolls
  back.
- `TierIsNeverExceeded`, for any finite set of clients: `CapInv` counts a tenant's
  set together with the requests that were let in and whose session is not in it
  yet (`Reserves`); the two exceed the limit by less than the clients, since the
  last of them to be let in found the set below it; and every ACTIVE session is in
  the set or being made.
  It needs that callers name sessions whose creation was answered (`~ListedIds`),
  since only then a session being made is touched by nobody else (`AloneInv`,
  `ActiveInv`), and that a rollback is carried out.
- `QuotaIsNeverPhantom`: a session in the set is live or is being undone by an
  expiry that will take it out (`QuotaInv`), which an expiry that fails halfway
  would not.
- `IndexIsAlwaysHonest` (one swap at a time, `OneSwapper`): between the row's update
  and the script a swapped session's index tells of the phone that leaves.
  `HonestInv` lets the index say so exactly in that window, and `SwapInv` says
  what the row is at each step of the swap.
- `ActiveIsAlwaysRoutable`: `WiredInv` says of each step of a creation and of a swap
  which of its marks are set. A repair (`SwapRepairOld`, `SwapRepairNew`) is
  reached only when the hash has gone, which an ACTIVE session before its deadline
  keeps.

**Webhooks** (`InboundRoutingProofs`).

- `InboundTypeCorrect`: `DeskInv` types what a handler remembers at each step, and
  says that what is handled has come in and that a matched session has its row.
  Beside the sessions' own steps a webhook's task may touch a hash (`Bumped`); it
  may bring one back, without id and state, which `BaseInv` tolerates.
- `NothingEverVanishes`: each step that lets a delivery go leaves a word about its
  event, a decision in `fate` or, for a text, an entry of the dead letters or the
  word that this insert failed, and none of them ever loses one (`WordStays`).
- `RetriesAlwaysAgree`: `AgreeInv` says of an event whose promise holds that one
  delivery at most is past its lookup, and none once there is a decision, but for
  the one that records the text it decided to connect; that nothing but the
  decision was told; and that what forwards a text is used up when it is sent.
  A step either is `Quiet` about an event (it adds no delivery past the lookup, no
  decision and no forwarding) or is one of five steps of its own deliveries
  (`HitAgrees` to `ThrowAgrees`). A call's and a text's id are assumed to be
  distinct (`InboundAssumption`), as the provider makes them and the dedup key,
  which joins id and type, does anyhow.

- `AnswersAreAlwaysRight`, for one client, one tenant, callers that name answered
  sessions and stores of the sessions that do not fail (a hash that a failed
  rollback or expiry leaves behind would be routed by); the handlers' own commands
  may fail. `FoundOK` says what a delivery has found so far. A session that ought
  to be found (`Sought`) while there always was one is in the search's `todo`, and
  says so when it is probed (`SoughtIs`); there is one at most (`OneSought`, from
  `RouteInv`), and none comes to be sought while another is (`SoughtKept`). What is
  in `todo` is of the number dialled or will be (`Fits`), so that a match is on it;
  and from the match to the answer the destination is an end of that session, or a
  swap has just made it one (`EndsMatched`, `EndsKept`). Under it lies all that
  the sessions' proofs say (`SessInv`), which a task that bumps a hash keeps
  (`SessBumped`), and `ForceInv`: a hash with its id is of a live session or is
  about to be deleted.

**Operators, crashes and boots** (`PoolOpsProofs`).

- `OpsTypeCorrect`, with `LineInv` (a claim is on the number its row names),
  `DownInv` (nothing is under way in a process that is down) and the reaper's
  `JobsOrderly`.
- `BootAlwaysReconciles`: what a boot has read of a number is still so, and what it
  has dealt with is where it decided (`BootInv`), but for the numbers that it
  counts as `spoilt`: its own command failed there, or a process that serves beside
  it changed the row, the sets or the session.
- `NumbersAlwaysSurvive`: of the numbers that are not `lapsed`, each is in the pool,
  barred, or about to be offered (`SurviveInv`), while a process is up and as far
  as a boot has come in one that is not.
- `QuarantineAlwaysHolds`: a number whose row says QUARANTINED is available only to
  those who had it before, each of whom has yet to write over the row
  (`NothingLeft`); a release owes one UPDATE at most (`OneWrite`).

None of the three assumes anything of the operators, the reapers, the boots or the
stores.

**The settings** (`TenantSettingsProofs`), where `settings` checks one process and
four requests.

- `SettingsTypeCorrect`: the inductive invariant `TypeInv` types each request's
  continuation by its kind and its step, which the other proofs build on: a step
  uses what an earlier one put there.
- `LiveAlwaysEarned`: `LiveInv` strengthens `LiveIsEarned` over the requests under
  way. A request that will issue keys or open a session in live mode was let in
  while the tenant was live, and live mode is never taken back; one that will
  activate has seen a session of the sandbox, and sessions stay.
- `EditsAlwaysTakeEffect`: `MemoInv` says that whatever may answer a request that
  starts now is as new as the last edit its process answered, or was crossed by
  it: the memo, and every load that is still to be kept. Dropping the memo alone
  would not preserve this; what the edit does to the loads under way is the
  history `crossed`.
- `ConsentAlwaysKept`, for any number of editors: an edit to be written was checked
  to leave a lawful row (`CheckedOK`), so that a row that it leaves unlawful is not
  the one it was checked to leave.

`SettingsAssumption` types the bounds and keeps the three kinds of request apart.

**The breaker** (`CircuitBreakerProofs`).

- `BreakerTypeCorrect` types every operation under way by its step.
- `TripsAlwaysAtThreshold`: a CLOSED breaker whose run of failures has reached the
  threshold has somebody under way who will trip it (`TripInv`): the one whose
  `hincrby` reached it holds that count until it trips, unless an error takes it
  away (`missed`).
- `ClosingIsAlwaysEarned`: a success on its way to a verdict, and not overtaken, has
  read HALF_OPEN and it still is, the count it was answered is still reached, and
  past its verdict enough were counted (`VerdictInv`), whatever other callers count
  and decide in between.

Both hold for any number of callers, workers and operators.

**Events** (`EventDeliveryProofs`).

- `DeliveryTypeCorrect` types the loops and says that a batch is empty exactly when
  there is nothing to handle.
- `NeverBilledTwice`: `OnceInv` says that an entry is ahead of its group's cursor or
  in the batch of one loop, so that `Unseen` (not published, ahead, or in a batch
  and not yet handled) only shrinks, also when Redis is emptied and the group
  starts over; `MeterInv` that an unseen event has no usage row and that a loop
  that is about to write one has looked up a live session.
- `DeliveryStopsAtSuccess`: `HookInv` says that an unseen event has no post, and that
  an event has one delivery at most in all processes, whose attempt counts the
  posts, all of them failed.

**Websockets** (`EventFanoutProofs`).

- `ClientsAreAlwaysTold`, `LastOneAlwaysUnsubscribes`: `QueueInv` reads the connection's
  two queues. A mark is right, or an unsubscribe's reply is on its way (`Marked`);
  a client is listened for, or its own subscribe is still to be executed and no
  unsubscribe after it (`Heard`); and the mirror image for a process without
  clients (`Left`). With that, `ToldInv`: what a client is owed has been sent, was
  skipped, or is on its way.
- `FanoutKeepsDelivery`: the composition implements `EventDelivery`'s `Spec`.

The proofs changed two definitions. `PoolOps.Place` was a CASE whose guards
overlapped for a quarantined number with sessions, where TLA+ leaves the choice
open; it now says what the code's `if` chain says. `FanoutAssumption` now keeps
the names of commands apart from the events'.

**Only model-checked**: `StatusReachesRecord` and the other two refuted properties, and
`Partition` and `LeaseSpec`, which hold for the one reaper of `routing` only, and
every liveness property (`SessionsEnd`, `NumbersReturn`, `RecoversWhenUp`,
`StreamIsDrained`, `SilentIsDropped`), since fairness and ENABLED are outside the
prover.

## Where the code and its texts disagree

The violation runs (`findings` in `PROJECT.json`): `overlap_race`,
`status_unmatched`, `events_lost`. Met while modelling, and not given a run of
their own:

- The reaper's closing UPDATE is not ordered with a later release's
  (`number-pool.ts:277`): a number put to rest again meanwhile ends AVAILABLE in
  Postgres, and a boot then cuts its rest, although `pool-reaper.ts:11` says that
  `reapCooldown` "keeps Redis and Postgres in sync".
- A swap that finds the hash gone repairs the phone index but not the hash
  (`session-manager.ts:533`), and routing skips a candidate without its hash:
  lines 530-531 say "rather than leaving a hole".
- A failed probe does not reset the count of good ones (`cpaas-health-check.ts:62`,
  against its comment at line 10 and the "5 consecutive successful health checks"
  of `circuit-breaker.ts:32`): `recordHealthCheckFailure` has no caller.
- A success whose verdict was overtaken closes the breaker whatever it has become,
  one that has tripped meanwhile too (`circuit-breaker.ts:67-77`): OPEN turns
  CLOSED without a probation. An error between the count of a failure and the
  transition (`circuit-breaker.ts:102-131`) leaves the breaker CLOSED at its
  threshold. No caller of `recordSuccess` exists yet.
- Two reapers: the one with the older list cuts the rest of a number that was
  reaped by the other, taken and released meanwhile (`number-pool.ts:260-274`).
- `allocate()` answers an error of its script with "no number", also if the script
  took effect (`number-pool.ts:208-211`): the claim stays, with no session and no
  rollback, and the number never returns.
- An operator who quarantines or releases a number is told that it worked when
  Redis failed (`admin.ts:690, 756`): a quarantined number stays offered, or a
  released one is in no set, until the next boot. A boot whose hydration fails
  serves all the same (`index.ts:130`), although the comment above calls it
  critical.
- The last release of a number that is in quarantine offers it again
  (`RELEASE_SCRIPT`), and quarantine leaves the cooldown set alone, although
  `admin.ts:680-682` says that no new session will pick it.
- A release's UPDATE that lands between the two writes of a quarantine leaves the
  row AVAILABLE and the number in no set (`NumbersSurvive` excuses numbers whose
  quarantine was answered); a session that a crash left on a number keeps it from
  ever being released; a boot beside a serving process offers the numbers of
  sessions that are still PENDING.
- An edit of the settings does not reach the memo of other processes, nor a load
  that is under way: both keep the old defaults for up to 60 s, although
  `tenants.ts:799-801` says that a change takes effect "on the next session".
  Two overlapping edits can leave a row with recording and without consent,
  against the invariant stated at `tenants.ts:776`: `ConsentKept` says that only
  these can, and `call-router.ts:225-236` refuses their calls.
- The activation counts sandbox sessions that FAILED, and its webhook URL may be
  cleared afterwards (`tenants.ts:89-112`).
- A client that connects while the unsubscribe of the one before it is in flight
  finds the channel marked as subscribed and stays deaf until another connects
  (`websocket-server.ts:39, 59`); a subscribe that failed is not repeated until
  then either. `fanout` passes over clients with a ping outstanding (line 77), so
  a healthy client misses what is announced between a ping and its pong.
- Two deliveries of one call that overlap may decide differently, and a text then
  goes out twice; a crash after the decision was cached answers the repetitions
  with a text that was never sent (`sms-router.ts:156`).
- A text whose insert into the dead letters fails is gone but for the log
  (`webhook-handler.ts:251-253`).
- Nothing replays a dead letter that was marked RETRYING, and any entry can be
  abandoned (`admin.ts:627, 1036`).
- No event carries the `customerPhoneHash` that the push consumer asks for, so
  it always returns at `event-consumers.ts:106`.
- `hashPhone` is salted per tenant, so the overlap check never compares the
  phones of two tenants that share a number (`utils/crypto.ts:57`), although a
  call names no tenant.
- Two concurrent swaps of one session can leave the row with one target and the
  hash with the other (`session-manager.ts:515`).
- Extending a grace period moves the row's deadline and not the TTL of the
  session's hash (`api/routes/sessions.ts:283-290`).
- The rollback of a creation releases the number and leaves the session in both
  `phone:{hash}:sessions` sets (`session-manager.ts:386`).
- An `endSession` racing an expiry turns the EXPIRED row back to GRACE_PERIOD;
  the session is expired, and its number released, a second time. `lifecycle`
  has this race; its properties hold through it.
- Nothing in the program calls `recordSuccess` or `recordFailure` for live
  traffic, so a breaker that reached HALF_OPEN stays there; `forceState` sets
  the state and leaves the counters.
- `session-expiry.ts:14-17` speaks of leader election; every process runs the
  worker. `expireSession` tolerates it (`lifecycle`).
- `billing-manager.ts:73-75` says the period is opened "inside the same
  transaction so concurrent callers can't double-create one". There is no
  transaction: the second insert violates the unique key, `recordUsage` swallows
  the error, and that usage is never recorded (`OpenCollides`).
- `session_expired` and `call_failed` are metered by `event-consumers.ts:159` and
  `:226` but are not in its `KNOWN_METRICS`, so nothing is recorded for them.
- A group that is created again starts at `$`: events published between the loss
  of the group and its recovery reach nobody (`event-bus.ts:166-173`).

## Not modelled, and what is left

Next, in this order:

1. An abstract specification of the bus (each entry to one reader at most) that
   `EventDelivery` implements, and one of the provider's view of a call (asked,
   answered once, repeated) for `InboundRouting`.
2. Several regions of the pool.

Runs are few on purpose: two questions that can share an instance share one.

Left out of the modelled components: `verifyCall` and all listings (they only
read); metadata, audit entries and metrics; the patches of a number's cooldown
and tier (`admin.ts:305-379`); the trimming of streams; the change of months,
invoices and plan changes; users, invitations and passwords; the signature of
provider webhooks; the loss of the subscriber connection.

Not modelled at all: presence, devices and push, rate limits, operators'
accounts, analytics, audit and metrics are single-command updates, reads or calls
to outside services; response building and the configuration have no state.
