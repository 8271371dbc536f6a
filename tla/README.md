# Chain Tracer: a TLA+ verification project

Chain Tracer takes cyber-crime complaints that name cryptocurrency wallets, follows
the money from those wallets hop by hop, watches the wallets where the trail stops,
raises alerts, and lets officers serve freeze notices on exchanges. It is a
TypeScript monorepo: an Express API over PostgreSQL, Neo4j and Redis (`apps/api`),
background workers on BullMQ queues (`workers`), a React client (`apps/web`), a
Python scoring service (`services/ml`) and shared code (`packages/shared`).

This directory models the parts whose correctness depends on *order*: what happens
when two requests work on one row, when a call fails between two writes, when a
process dies, when an event is delivered twice or never, when a timer and an answer
race. Every module is written from the source; the lines each definition stands for
are in `PROJECT.json` ("map").

## 1. Inventory

| Component | State it keeps | Operations | Talks to |
|---|---|---|---|
| Freeze notices `apps/api/src/freeze-notices` | one row per notice: status, body, submissionId | draft, edit, submit, approve, send | audit trail, SAHYOG over HTTP |
| Audit trail `apps/api/src/audit` | hash chain in `AuditLog` | record (under a Postgres advisory lock), verifyChain | every service that records |
| Login sessions `apps/api/src/auth` | refresh-token families in Redis: live tokens, spent tokens, per-user set | login, refresh, logout, revoke | web client |
| Web session `apps/web/src/lib/api/client.ts`, `features/auth`, `stores/auth.ts` | token pair in the store, one refresh in flight | request, refresh on 401, retry, sign out | API |
| Intake `apps/api/src/intake` | complaints, cases, trace jobs | normalise, resolve, persist, ingest, enqueue, NCRP poll | Postgres, BullMQ, chain probes |
| Trace engine `workers/trace` | heap of frontier nodes, expanded set, buffered hops | pop, collect, expand, taint, flush, finish, retry | adapters, Postgres, Neo4j, event bus |
| Provider guard `workers/adapters` | breakers, quotas, cache, in-flight table | call, retry, fail over, cached read, paginate | block explorers |
| Monitor `workers/monitor` | checkpoints, alerts, watchlist | poll, push events, rules A1-A5 | adapters, Redis, event bus |
| Queues and wiring `workers/src/index.ts` | BullMQ jobs, `seen` keys | process jobs, retry, stall | all workers |
| Realtime `apps/api/src/realtime`, `apps/web` alert feed | socket rooms, client subscriptions | join, leave, relay, reconnect, refetch | Redis pub/sub |
| Alerts, watchlist, cases, labels, VASPs `apps/api/src/*` | rows | CRUD, read-then-write updates | Postgres, audit trail |
| Reports `apps/api/src/reports` | report rows, PDF files, hashes | collect, hash, render, verify | Postgres, disk |
| Risk `apps/api/src/risk`, `services/ml` | append-only scores | assemble features, score | ML service |
| Mule detection `apps/api/src/mule` | flags, patterns, shared mules | analyse, persist, export, train | Postgres, Neo4j |
| Attribution `apps/api/src/attribution` | labels, confidence | heuristics H1-H4, noisy-or, loaders | Postgres |
| Graph `apps/api/src/graph` | Neo4j nodes and edges | read models, merge | Neo4j |

**Interactions.** An import commits a case and its trace jobs, then puts jobs on the
queue. A worker takes a job, expands the graph through the provider guard, writes hops
to Postgres and Neo4j, publishes progress, and puts the wallets where the trail
stopped on the watchlist. The monitor polls the watchlist and receives pushed events,
applies rules and publishes alerts; the API relays both kinds of event to browsers.
An officer drafts a notice from an alert, a supervisor approves and sends it. Every
step an officer takes is recorded in the audit trail.

**Hard behaviours, and what makes each component correct.**

- *Notices*: each operation is load, check, write, record, none of it in a transaction.
  Correct means: nothing unapproved is filed, what is filed is recorded, SENT is true,
  a retry does not file twice, an approved text stays.
- *Audit trail*: several requests, several processes, one chain. Correct means: no fork,
  no false alarm of `verifyChain`, and any alteration of a stored row is found.
- *Sessions*: a refresh token is spent once; Redis steps are separate commands; the
  client shares one refresh between requests. Correct means: one successor per token, a
  replay ends the family, a signed-out client stays signed out.
- *Provider guard*: concurrent calls share a breaker. Correct means: bounded retries,
  an open circuit is left alone, one trial when it half-opens, and it can close again.
- *Reading a history*: pages come from a cache, from a call that several readers share,
  or from whichever provider answers. Correct means: what is put together is the
  history, each transfer once.
- *Monitor*: poll windows, crashes before the checkpoint, duplicate deliveries. Correct
  means: every transfer is judged, and alerts are neither lost nor repeated.
- *Trace jobs*: three attempts, crashes, stalls, publish failures after the commit.
  Correct means: the job reaches a final status, the frontier is put on the watchlist,
  the hops of a completed trace are stored.
- *Intake*: imports run concurrently, the queue is outside the transaction. Correct
  means: one case per wallet, one job per seed, no committed job is left unqueued
  without being reported.
- *Realtime*: at-most-once relay, events that run ahead of the rows they are about.
  Correct means: what is stored or was heard is on screen, or on its way.
- *Mule detection*: officers start analyses while traces store hops. Correct means: what
  is written describes the hops of the case, and a rerun repairs what a crash left.

## 2. Modules

| Module | What it models | Runs | Proofs |
|---|---|---|---|
| `FreezeNotice` | the notice workflow under overlapping requests, failures and crashes | `notice_requests`, `notice_refile` | `CaseworkProofs` |
| `NoticeLifecycle` | abstract: what a notice promises its officers | as `ImplementsLifecycle` of `notice_requests` | |
| `AuditChain` | recording, verifying and tampering with the hash chain | `audit_append` | `AuditChainProofs` |
| `AppendOnlyLog` | abstract: one append-only log for the whole system | as `ImplementsLog` of `audit_append` | |
| `ProviderGuard` | breakers, retries, budgets and fail-over shared by concurrent calls | `provider_reads`, `guard_stuck` | `ProviderGuardProofs` |
| `HistoryWalk` | extends `ProviderGuard`: cache, shared calls, cursors and the walk over pages | `provider_reads` | `ProviderGuardProofs` |
| `TraceWalk` | one attempt of `runTrace`: which addresses are expanded, with how much taint | `trace_walk` | `TraceProofs` |
| `TraceJob` | the row and the queued job of a trace: imports, attempts, stalls, stores | `trace_life` | `TraceProofs` |
| `Sessions` | refresh tokens: the handlers of the API, one Redis command at a time, and the tabs of the browsers | `sessions` | `SessionsProofs` |
| `PushFeed` | the connections that push events, and the start that subscribes them | `monitor` | `MonitorProofs` |
| `Monitor` | extends `PushFeed`: alerts about one watched wallet, polled or pushed | `monitor` | `MonitorProofs` |
| `Intake` | imports from the first row to the queue | `intake` | `IntakeProofs` |
| `LiveViews` | trace worker, monitor, relay and browser around one case | `live_views` | `LiveViewsProofs` |
| `HeaviestPath` | the heaviest path of the graph page, as code and as definition | `live_views` | |
| `MuleRules` | rules and graph measures over stored hops | `mule_cases` | `CaseworkProofs` |
| `MuleAnalysis` | the mule analysis of a case beside traces and other analyses | `mule_cases` | `CaseworkProofs` |

The modules `MC...` give the constants their values for TLC; the bounds are in the
`.cfg` files. Definitions introduced by a comment "Variant:" are not part of the
specification: each is one plausible mistake in the definition that follows it, and
`PROJECT.json` ("mutants") says which property finds it out. To repeat a run or a proof:

    tlc -workers 2 -config FreezeNotice_requests.cfg MCFreezeNotice
    tlapm CaseworkProofs.tla

A module of proofs that serves two components keeps their names apart: the
specification of `TraceWalk` is `WalkSpec`, that of `MuleAnalysis` is `AnalysisSpec`,
that of `HistoryWalk` is `ReadsSpec`.

Two runs are expected to end with a counterexample, `notice_refile` and `guard_stuck`;
section 13 says what they show.

How the modules touch: `Intake` ends where `TraceJob` begins (a QUEUED row and its job),
`TraceJob` runs what `TraceWalk` walks, `TraceWalk` asks for what `HistoryWalk` reads
through `ProviderGuard`. `LiveViews` shows the hops the worker stores and the alerts
`Monitor` stores; `MuleAnalysis` reads the same hops. `FreezeNotice` records in
`AuditChain`. Each module treats its neighbours as the interface says: the code joins
them by rows, queue entries and published events, not by shared memory.

## 3. FreezeNotice

Source: `apps/api/src/freeze-notices/service.ts`, with SAHYOG as an external party.

`notice` is the row; `seen[r]` is the copy request `r` loaded. `Load` is `findUnique`
with the status check after it (no await in between); `WriteEdit`, `WriteSubmit`,
`WriteApprove` and `WriteSent` are the unconditional updates; `SendAttempt`, `SendFile`,
`AuditDone`, `AuditFailed` are the remaining awaits of `send`, in the order of the code.
`UpdateFails` and `AuditFails` say which call is inside the `try` block; a write may also
take effect though its call throws (`Made`). Only the
notice's own row is modelled, because requests about other notices touch nothing it
reads. `filed`, `approved` and `audit` are what the outside world has seen. A crash ends
every request in flight; the rows stay.

- `notice_requests` (362,706 states): five requests, numbered in the order in which they
  arrive, two texts, every call may fail and the process may die. A choice at the start
  says whether requests may overlap; the first four do then. Four are enough for draft,
  submit, approve and send with a load of any of them anywhere before its write, the
  fifth leaves one for a retry or an edit after a full life. Checked: the trail agrees
  with the filings; an attempt in the trail is closed (`AttemptIsClosed`); and, one
  request at a time, the row implements `NoticeLifecycle`, where the text is frozen by
  the approval and nothing is filed twice. `AttemptIsClosed` needs fairness: the event
  loop goes on with a request it has accepted. Nothing makes an officer send a request,
  and nothing makes a process survive.
- `notice_refile`: six overlapping requests and no failure at all (section 13).

*Proved* (`CaseworkProofs`, for any set of requests, texts and faults):
`TypeCorrect`, `FilingNeedsApproval`, `SentNeedsFiling`, `TrailIsTruthful`,
`FollowsLifecycle`. None of the properties is inductive: a filing is decided on a row
that was read several steps earlier. The invariant adds what a request knows at each
place: once `send` is past its check the row it saw was APPROVED (`SendKnows`), APPROVED
or SENT anywhere, in the row or in a copy, means that an approval was written
(`ApprovalHappened`), a row that exists has a text (`TextsExist`), and the operation
belongs to the place (`OpKnown`). The refinement of `NoticeLifecycle` is proved step by
step from `SerialInv`: one at a time, the copy a request works on is the row as it is,
and what SAHYOG accepted and no row shows yet is the filing of the request under way.

## 4. AuditChain

Source: `apps/api/src/audit/service.ts`.

`record` is `Open`, `Lock`, `ReadPrevious`, `Insert`, `Commit`: BEGIN, the advisory
lock, the read of the last committed row, the INSERT (which takes its number from the
sequence for good), COMMIT. `Abort` rolls back anywhere, frees the lock and leaves a gap
in `seq`. A row inserted and not committed is in `draft`, seen by nobody. `verifyChain`
of the whole log is one query and a loop without an await, hence one step (`VerifyAll`);
of one entity it is a query for the rows and then one query per row (`VerifyScope`,
`VerifyRow`, `VerifyEnd`), between which other requests record. The hash is ideal: the
sequence of everything it covers, so that two hashes are equal only for equal histories.
`Alter` and `Remove` are somebody with access to the table; `tampered` remembers it.

- `audit_append`: three recorders whose entries about two entities alternate, one
  verifier, and tampering at any moment. Three recorders give a gap, a fork and a
  waiting third. While nobody tampered, no walk raises a false alarm and the hash of the
  last row behaves as `AppendOnlyLog`. A walk of the whole log that answers "valid" saw
  only unaltered rows, and every row that their hashes cover (`TamperingIsFound`). Rows
  removed from the *end* of the table are covered by no hash: that truncation cannot be
  found by any walk, and the property says nothing of it. A waiting recorder gets its
  turn: this needs strong fairness of `Lock`, because Postgres serves the waiters of a
  lock in turn, and weak fairness of the steps of the holder, whose transaction ends by
  a commit or by its timeout.

*Proved* (`AuditChainProofs`, for any number of recorders, verifiers and scopes):
`TypeCorrect`, `LinearChain`, `VerifyIsQuiet`, `TamperingShows`, `OneLog`. The invariant
says that between its read and its commit a recorder holds the lock (`LockInv`), that
the sequence is ahead of every row (`SeqInv`), so what it read is still the last hash
when it commits (`ReadInv`); and that a scoped walk has to do only with rows of the
table (`WalkInv`), whose predecessors never change because a new row always comes last.
`TypeCorrect` holds under tampering too; that the last row exists is a well-founded
minimum over the numbers above it. For `TamperingShows` the invariant says where hashes
come from (`HashInv`): whatever a hash covers was recorded, and the hash of a recorded
row covers exactly the history before it. If a walk found every link sound and a hash
still covered something that is not in a row it saw, a shortest such hash would have a
predecessor that covers it too. The refinement of `AppendOnlyLog` needs besides that an
entry is appended once (`LogInv`): while nobody tampers, what is in a hash was recorded
by a recorder that is done.

## 5. ProviderGuard and HistoryWalk

Sources: `workers/adapters/providerGuard.ts` (the class `Breaker`, `call`, `cached`),
`paginate.ts`, `cache.ts`, the `getTransfers` of `evm.ts` and `btc.ts`, and `assignIdx`
of `packages/shared/src/chainTypes.ts`.

*ProviderGuard.* `breaker[p]` is the breaker of provider `p`, with `openedAt` as a phase
(closed, open, cooled); `call[c]` is one invocation of `ProviderGuard.call`. Code between
two awaits is one step: `Start` and every failure walk the remaining providers with
`allow()` up to the next await (`Reach`). The awaits are the budget counter, the run and
the back-off. The token bucket only delays a run and is part of the run. `hits` is an
observation, counted to 2, of how often a call ran at a provider since its circuit last
opened.

*HistoryWalk* extends it. `walk[c]` is a `collectTransfers` whose calls are `c`'s.
`Begin`, then for every page: `Hit` or `Miss` (the read of Redis), `Join` or `Compute`
(the in-flight table, looked at after the await), `Try` and `Answer` (the steps of the
guard), `Refuse` or `Store` (what everybody who shares the call gets). `PageOf` and
`Following` are the cursor arithmetic of the adapters: a page number or key is only sent
to the provider that issued it, otherwise the stage restarts. `Items` numbers the
transfers of a page as the adapter does, `Received` is one turn of the loop of
`collectTransfers`, with its two ceilings, of pages and of transfers. The history is fixed
while it is read. A key holds the number of a row, which the adapters take from one band for
native transfers and from others for tokens and internal ones; MegaNode would put a native
row that has a log index into the internal band (`evm.ts:219`), so `HistoryAssumption` says
that native rows have none.

- `provider_reads` (147,625 states): two calls, two providers. Either loose calls with
  three attempts, threshold three, definitive errors, spent budgets and an outage that
  may end: two calls share one breaker, so one fails, sleeps or holds the trial while the
  other opens or closes the circuit. No call runs twice at a circuit that is not closed,
  every call ends however long the outage lasts, and once it is over the circuit closes
  for good unless a trial was lost (`TrialLost`, the finding of `guard_stuck`). Or two
  walks, repeated as often as wanted, over one history of two or three pages as two
  explorers, MegaNode and an explorer, or two Esplora servers page it, with two refusals
  anywhere: `HistoryIsWhole`. Two refusals suffice for a fail-over and for a failed call;
  the page ceiling of 3 truncates a walk that changed provider, and the ceiling of five
  transfers one over the busy history of the instance `polygon`, and no others. Any reason
  to pass a provider over is a refusal in this mode; the loose calls go through the
  reasons.
- `guard_stuck`: one call, one provider, one definitive error (section 13).

Fairness (`FairReads`): every await is answered, since runs have a timeout; time passes,
so a cooldown ends; for the recovery, the workers keep asking.

*Proved* (`ProviderGuardProofs`, for any number of calls, providers, attempts and any
threshold): `TypeCorrect`, `BreakersCohere`, `OneHit`. The invariant adds
`HitsCoherent`: a call with a hit at a circuit that is not closed is in that very run,
and the failure of it is its last, because a coherent breaker that is not closed
re-opens on any failure. For any adapters, histories and pages besides, `ReadsHitOnce`
carries this over to the walks (each of their steps is a step of the guard or none of
its business), and `OneFlight` says that a page is never asked for by two walks at once
and that whoever waits for a page waits for somebody who asks (`FlightInv`).

`WholeHistory` proves `HistoryIsWhole` for any two providers that list the same finite
history, page it as they like and, if they are explorers, number it by rank. A walk that
holds (`WalkHolds`) has a provider for every stage behind it whose pages it gathered to
the last, or to the end of his window; the cursor in hand was issued by a provider whose
earlier pages are there, or it is the first of its stage; and no cursor it met is ahead
of it, but for a stage that two providers answered. A page keeps that whoever answers it,
because on a fail-over the stage begins again with *his* first page. Nothing is there
twice because two items for one transfer that are numbered alike are one record, and
nothing is crowded out because a rank tells apart what is on one page (`RanksDiffer`).

## 6. TraceWalk

Source: `workers/trace/engine.ts` (the loop of `runTrace`), `taint.ts`,
`priorityQueue.ts`, `stopConditions.ts`.

One attempt is one loop and nothing else touches its state, so a step is one turn of the
loop: `Discard` (a stale entry), `Service`, `OutOfHops`, `HighDegreeService`, `FanOut`;
`Finish` is the last flush and COMPLETED. What the turn asks of the providers is the
history, a set of transfers chosen at the start. Abstracted: amounts are integers
(HAIRCUT rounds down to the unit), the window starts at 0, whether a transfer is a leg
of a token swap is a flag of it, and the entries pushed for one address in one turn are
one entry (all but the last are stale when pushed).

- `trace_walk`: every subset of twelve transfers that fork, join, cycle, reach an
  exchange, enter a bridge that resolves and one that does not, are older than the
  money, share a transaction, belong to a swap, have no price, or lie a hop too far;
  both taint models; a reported amount smaller than the money there is, and one greater
  than all of it, which stands for "unknown". `TopK`, `HighDegree`, `MaxNodes` and
  `FlushAt` are so small that each limit is met. Deadlock is not checked: the walk ends.

Checked: nobody who was reached is forgotten; every address is reached on a trail of
money that gets one hop longer and never goes back in time; taint is split and never
made. `TaintConserved` speaks of walks that crossed no bridge, because a bridge leg is
allocated the full taint apart from the other transfers (`engine.ts:279`).

*Proved* (`TraceProofs`, for every history and every bound):
`LazyDeletionForgetsNobody` (from the invariant that the heap and the expanded addresses
lie inside what was reached and that every waiting address has an entry with exactly its
taint), `AlwaysHighestFirst` (the richest waiting address is expanded next although the
heap holds stale entries), `CompletedWalkIsStored` (a finished walk is in both stores,
whatever the buffer held) and `WalkStaysWithinLimits` (nobody is reached over more hops
than the job asks for or by money outside its window, although the record of an address
changes while it waits: the hop of a record is the least of those that feed it, a
well-founded minimum). These proofs look at no allocation: they hold for any way to
share taint out. So does `MoneyLeavesATrail`: the transfer that gave an address its hop,
and the one that gave it its arrival, stay kept, and the record of an expanded address
no longer changes, although flushes move the transfers and merges rewrite the records.
`TaintIsConserved` is about the allocation: the shares of a list of transfers, in either
model and for any list, add up to no more than what is shared out, because FIFO takes
what is left after the earlier ones and HAIRCUT rounds every share down. Sums over
finite sets are handled by lemmas (empty, one more, disjoint union, regrouping by
destination); they are proved by a minimal counterexample among the subsets, since an
induction rule cannot be instantiated.

## 7. TraceJob

Source: `apps/api/src/intake/service.ts` and `queue.ts` (the enqueue),
`workers/src/index.ts`, `workers/trace/engine.ts` (the frame of `runTrace` and the
writes of its batches); BullMQ as an external party.

`row` is `TraceJob.status`, `job` the BullMQ job, `run[r]` a run of `runTrace` in a slot
of a worker. `Import` and `Enqueue` are the two sides of the transaction boundary of an
import. The walk is a row of batches, each written to Postgres and then to Neo4j.
`Catch` decides with the number of attempts that the run was started with, as the code
does. A worker may die (`Crash`), BullMQ may take a dead *or a live* run for stalled
(`Stalled`), and calls fail inside the `try` block (`WalkFails`, `RowFails` at
`complete`) or outside it (`AgainFails`, `RowFails` elsewhere).

- `trace_life`: two imports, two workers, two attempts (three in the code; two are
  enough to have a first and a last), one stall forgiven (the default of BullMQ), two
  batches, every fault. Checked: a COMPLETED row and an announced trace are stored to
  the last hop; two walks overlap only after a false stall; a COMPLETED row stays, but
  for the last attempt and a false stall; a waiting job ends. Fairness: a live worker
  takes waiting jobs and goes on with its run, the stall check recurs. Nothing makes
  anybody import. Deadlock is not checked: a failed job is the end.

*Proved* (`TraceProofs`, for any number of imports, workers, attempts, stalls,
batches and any faults): `TypeCorrect`, `GraphNeverAhead` (the graph holds no batch the
table lacks), `AnnouncedMeansStored`, `OnlyStallsOverlap`, `CompletedRowStays`. The
invariant has three parts. `StoreInv`: the stores only grow, and a run that is at batch
`b` knows that all batches before `b` are stored. `LockInv`: without a false stall a run
that is under way owns the lock of the job, and has not yet found the row COMPLETED.
`QueueInv`: an active job has an owner who knows its number of attempts, and a job that
waits or is active has attempts left.

## 8. Sessions

Sources: `apps/api/src/auth` (`service.ts`, `refreshStore.ts`, `routes.ts`,
`tokens.ts`); `apps/web/src/lib/api/client.ts`, `stores/auth.ts`,
`features/auth/session.ts`.

*Server.* `handler[h]` is one request at the API. A refresh is `Consume` (GETDEL),
`MarkUsed` (MULTI), then `Save` (MULTI) and the answer; a token that is gone leads to
`Lookup`, and if it had been used to the revocation: `ListTokens`, `DeleteListed`,
`DropList`, three commands that other handlers slip between. A logout is a consume
without a successor. `HandlerFails` ends a handler anywhere, before or after a command
took effect, and the client may or may not learn of it. `active`, `used` and `listed`
are the three kinds of Redis key. Only right credentials and genuine tokens are
presented; the fifteen minutes of an access token are a 401 that may come at any time.

*Browser.* `tab[t]` is one session storage: user, token, the refresh in flight. A 401
(`Unauthorized`) joins the refresh in flight or starts one; `Refreshed` hands its answer
to everybody who waits; `TimesOut` gives up after 30 s while the handler may still be at
work; `SignOut`, `Login`, `Reload` and `Duplicate` may come in between.

- `sessions`: two tabs, two users, two requests, two handlers, three tokens, one mishap
  (a failure, a lost answer, a duplicated tab or an overtaken refresh) anywhere. Two
  tabs and two handlers give a refresh that races a replay, a revocation or a sign-out;
  two requests share a refresh; three tokens are a login, its successor and another.
  Safety only: deadlock is not checked, as a browser may do nothing for ever.

Checked: a token is spent once (`SpentOnce`); what can be exchanged is on its user's
list, unless it was saved during a revocation (`Revocable`); a replay leaves none of the
tokens that were live when it was noticed (`ReplayEndsFamily`); the tokens of a tab are
those of the user it shows, unless a refresh was overtaken (`TokensBelongToUser`); as
long as nothing failed no live token is left behind (`NothingLeaks`) and nobody is
signed out by the program itself (`NoSpuriousExpiry`); a request that waits, waits for a
refresh that is on its way (`NobodyWaitsInVain`).

*Proved* (`SessionsProofs`, for any number of tabs, users, requests, handlers, tokens
and mishaps): all of these, and `TypeCorrect`. The invariant comes in layers: what
handlers and tabs know of the token they hold (`Core`), where tokens are spent
(`SpendingInv`), what a revocation has found and done (`RevocationInv`), who waits for
whom (`WaitInv`) and whom an answer is about (`BelongInv`). The last layer (`CalmInv`)
speaks of a system in which nothing has failed yet: every token that can be exchanged
has exactly one place, in a tab, in a handler about to spend it or in one about to hand
it out (`OnePlace`, `SomePlace`), so no refresh is refused and no session ends by itself.

## 9. Monitor and PushFeed

Sources: `workers/monitor` (`tronPoller.ts`, `checkpoint.ts`, `pushHandler.ts`,
`rules.ts`, `watchlist.ts`, `alerts.ts` and the subscribers), the subscription in
`workers/src/index.ts`, and `apps/api/src/watchlist/service.ts`.

One wallet of a chain chosen at the start, because the alerts of a wallet depend on no
other. A TRON wallet is polled: `StartPass` reads the checkpoint and the cases,
`Fetch` the history since then (from a page cached for ever under that checkpoint),
`Tell` stores one alert per case and finding, `Judge` goes on to the rules about the
state of the wallet, `Advance` moves the checkpoint to the clock at the start of the
pass. BTC and EVM wallets are pushed: `Deliver` (once or again), `Mark` (SET NX),
`LookUp` (the rows of the address as the event spells it), `Tell`, `Handled`; handlers
overlap. `Fail` is a pass or handler that throws or dies, `Forget` the end of the mark
after 600 s. `Transfer` and `Index` are the chain and its
indexer, which may lag; `Watch` and `Unwatch` are officers and the frontier hook.

Events are only delivered over a connection that was told to track the wallet, which is
*PushFeed*: `line[c]` is the WebSocket of a client, `awaited` the clients that the start
waits for. `Open` of the last of them hands every client the list (`Subscribe`; it throws
at an EVM line that dropped meanwhile and is being connected, and BTC gets nothing),
`Open` of any other repeats the list the client was given, `Close` is a refusal or a
drop and ends a start that waits for that client, `Reconnect` the end of the back-off.
`Feed` of Monitor composes it, with the restart of the worker.

- `monitor`: two transfers, one a large payment and one to a mixer, two cases with the
  intervals 1 and 2, two push handlers or the poller, rule A5 as the state rule, time to
  3, one mishap, two clients (three EVM clients behave alike). Two passes over two
  transfers put each of them before, at and after a checkpoint; two handlers take the
  same event at once. Checked: a case that watches is told of every transfer that trips
  a rule (`NoTransferLost`), an open connection is one that was told what to track
  unless the start was disturbed (`OpenLinesTrack`), no alert about a transfer is stored
  twice (`NoRepeatedAlert`), a state alert reaches every case that watches
  (`StateAlertReachesAll`), each with the exceptions the code has, which the properties
  name. Safety only.

*Proved* (`MonitorProofs`, for any transfers, cases, intervals, handlers and mishaps):
these four, `StateOnce` and `TypeCorrect`. The invariant says what each place of a job
means (`Shape`), that a transfer behind the checkpoint is told and one behind the start
of the pass is on its list (`PollInv`), that whoever marked an event is still at it or
done (`PushInv`), and the same for repeats (`PollOnce`, `PushOnce`). `FeedInv` says whom
the start has given the list to, and that they repeated it on every open line.

## 10. Intake

Sources: `apps/api/src/intake` (`service.ts`, `resolve.ts`, `probe.ts`, `queue.ts`,
`ncrp.ts`).

`run[i]` is one import: `Begin` (rows that are invalid or repeated drop out), `Dedup`,
`Probe` (each chain is asked once per batch and may stay silent), `Link`, `Prepare`,
`Commit` or `Retry` (the unique acknowledgement number is the only guard), `Reassert`
(duplicates put their traces on the queue again) and `Enqueue`. A case is named by the
complaint that founded it and ranked by the clock at the end of the probes, which
`persist` is called with, or at the repeated `Dedup` of a retry. `EnqueueFails` is Redis
silent for five seconds: the client may still send later (`Land`). `Fails` is a failed
read or transaction, `Crash` the death of the API.

- `intake`: three complaints, the second of which shares a wallet with each of the
  others; a feed with an invalid row and an upload with a repeated one; two EVM chains;
  one tick of time, two faults. Checked: two cases are founded on one wallet, and two
  traces have one case, chain and wallet, only by imports that overlapped
  (`OneCasePerWallet`, `OneTracePerSeed`); a stored complaint is traced on the chains
  where its wallet is active, but for a chain that stayed silent while another answered
  (`TracedWhereActive`); every trace job of a case of the feed is queued in the end
  (`QueuedInTheEnd`). Fairness: the poller keeps importing the feed and what it awaits is
  answered; nothing is assumed of uploads or of the outcome of an import.

*Proved* (`IntakeProofs`, for any complaints, wallets, chains, imports and faults):
`TypeCorrect`, `ComplaintsStay`, `OneCase`, `OneTrace`, `AllTraced`. The layers of the
invariant: the rows of an import (`Shape`), the cases they get (`CasesInv`: a row that
founds a case shares no wallet with anything stored except what came since it was
linked), the traces they get (`TracesInv`), the chains that are traced (`ChainsInv`).

## 11. LiveViews and HeaviestPath

Sources: `workers/trace/engine.ts` and `workers/trace/events.ts` (what is published and
when), `apps/api/src/realtime`, `apps/api/src/graph/service.ts`,
`apps/web/src/lib/realtime.ts`,
`apps/web/src/features/graph` and `features/alerts`.

One case, one trace, one browser with the graph page or the alerts page open. The worker
publishes the hops of a turn at once (`Turn`) and stores them when its buffer is full
(`Flush`, `Finish`), so events run ahead of rows. `Relay` emits to whoever is in the
room at that moment and keeps nothing; `Connect`, `Joined` and `Disconnect` are the two
ends of the socket. The graph page draws the answer to its query plus the hops heard
since it was opened (`HearHop`, `Receive`), filtered at the server and in the page
(`Listed`, `Passes`). A run that finds the row COMPLETED only announces it, outside the
`try` block, so that its failure does not mark the row (`again`). The alerts page asks
again when it hears of an alert (`HearAlert`). `cache` is what react-query keeps of each
query. `HeaviestPath` holds the memoised search of `model.ts` and, beside it, what
"heaviest" means.

- `live_views` (955,042 states): four hops that fork, join and cycle, one without a
  price; one alert; three turns, of which the second expands an address that the first
  came to, and a buffer of three, which the second turn fills and the third leaves partial
  for the last flush; two attempts; the filters "none" and 4;
  two reads; one mishap (a failed call, a dead process, a lost connection). Checked: a
  stored hop that the filter lists is on screen or on its way, unless its event found
  nobody in the room, and "Trace complete" is true (`NothingMissed`); an alert that was
  heard is in the list or a read that brings it is under way (`HeardIsListed`); the
  heaviest path is a path, and without cycles none is heavier (`PathIsHeaviest`). Safety
  only.

*Proved* (`LiveViewsProofs`, for any number of hops, turns, attempts, alerts, filters,
reads and mishaps): `TypeCorrect`, `HopsAreInSight`, `AlertsAreListed`. The argument
follows each hop from its event on, not the reads: until it is shown or counted as
missed, its event is on Redis or on the socket (`HopsInv`), so it does not matter what a
read brings, or when. `WalkInv` and `DoneInv` are for "Trace complete": a walk has kept
the hops of the turns it is past, and whatever says that the trace is complete, be it
the row, an event on its way or the page, says so when every hop is stored. `AlertsInv`
and `ListInv` are for the alerts: what is heard has a row, and an answer that comes
after it has the row in it. The lemmas about sequences of events say what appending,
taking and joining does to the set of events. `PathIsHeaviest` stays with TLC: what a
recursive search computes is an induction over the graph.

## 12. MuleRules and MuleAnalysis

Source: `apps/api/src/mule`.

`MuleRules` has the rules that can fire (pass-through, fan-out, fresh wallet, peel
chain) and the measures (busiest hour, breadth-first depths, nearest target) as
operators over sequences of hops. `MuleAnalysis` is the analysis an officer starts:
`Begin` reads the hops, `ReadTouches` and `Share` link wallets that other cases touch,
`Flag` and `Watch` store what the rules say, `Drop`, `Project`, `Stream`, `Tidy` use the
graph projection named after the case, `Upsert` writes the groups row by row. Traces
store hops meanwhile (`Store`); `CallFails` and `ApiDies` end an analysis anywhere and may
leave its projection behind. The early return for an empty projection (`gds.ts:50`) cannot be
taken: an analysis without addresses has ended before. A hop that an address sends to itself
is among its hops in and among its hops out, and counts twice in the busiest hour (`Sides`).

- `mule_cases` (417,460 states): two officers ask twice in all about two cases, while
  three traces of them store some of thirteen hops and a fourth is settled; one mishap.
  Two asks about one case overlap or follow each other, about two cases share wallets.
  Or, chosen at the start, no analysis and any subset of the thirteen hops, over which
  the measures are compared with their definitions (`MeasuresAgree`): breadth-first
  depths with the lengths of the shortest walks (`DepthsAreDistances`), the sliding
  window with the busiest hour (`HourIsBusiest`), the peel chains with the walks of
  enough hand-offs (`PeelsAreWalks`). The thirteen hops have a cycle, two ways to one
  address, equal times, hops exactly an hour apart, one of an address to itself and a
  peel of two equal parts. Checked besides: a shared wallet is listed for cases that
  have hops of it and never lost from the list (`SharedFlagsHold`); after an undisturbed
  analysis two addresses are in one group exactly when transfers connect them
  (`GroupsAreRings`); an analysis fails only when a call of its own failed or another
  analysis of the case used the projection (`RerunIsSafe`). Safety only. Symmetry over
  officers, who are only compared.

*Proved* (`CaseworkProofs`, for any hops, cases, officers, asks and mishaps, whatever the
rules find): `AnalysisTypeCorrect`, `SharedFlagsAreRight`, `RerunsAreSafe`. The list of
shared wallets is written from a read that may be old. `TodoInv` says why that does no
harm: what an analysis is about to write for a wallet has all the cases that undisturbed
analyses have found for it, since whoever writes beside it is crossed (`CrossedInv`) and
stored hops stay. `CatalogInv` says that the projection of a case is absent when an
analysis asks for it and present while it streams, unless another one uses it, in which
case both know (`ClashedInv`), or the drop failed. `RerunIsSafe` is not inductive: `Drop`
forgets old clashes, and it takes `EarlyInv` (nothing has failed before the projection)
to see that it forgets no reason of a failure.

`GroupsAreRight` proves `GroupsAreRings`. Rows are written one at a time over the rows
of earlier runs, so between two writes the table is neither the old nor the new one. The
inductive invariant `RingIInv` (checked by TLC before it was proved) says what every
analysis still has to write: the groups it holds are those of the projection it streamed
(`GroupRight`), and if it has met no other one of its case (`MetInv`), then a row whose
group it no longer holds has that group, and it will write every row that exists
(`AloneRight`). No row is left from an address that later projections lost, since rows
and projections show what hops of the case lead to (`TableInv`) and hops are only ever
added. When it answers, the table is that of one graph (`WholeInv`). The rest is about
graphs, and holds for every finite one: a search that takes the oldest address of its
queue reaches what some walk reaches, at the length of the shortest (by the least number
of turns, or of edges, at which this could fail); connection is symmetric, so components
are equal or disjoint; and two components have different smallest places in the order of
a projection. So equal group numbers are connection (`GroupsAreLinked`), although a
number means another component in the next run.

`MeasuresAreRight` proves `MeasuresAgree`, from one invariant per loop. *Depths:*
`NearestIs` and the lemmas above. *Busiest hour:* after n hops the left end of the window
is the first hop at most an hour before the n-th, and no run of hops within an hour is
longer than the maximum so far (`Window`, kept by `SlideKeeps`); it only moves on because
times do not fall, which `AmongLists` gives for the sides of any set of hops. *Peel chains:*
`LongWalkIs` says that a chain is the walk of hand-offs from its start; the loop keeps that
what it has reported lies on long walks, has every start of one so far, and is left by no
hand-off (`Reports`). The last part needs that a chain which the valve cuts off has
returned to itself, which is the pigeonhole principle (`ChainCloses`): it holds as long as
no more addresses peel than the valve lets pass. `PeelsAreWalks` therefore claims that all
long walks are reported only then, and the other two parts always; beyond that number the
code does leave out the end of a chain, if that is shorter than `minChainLength`.

These proofs do not use the induction theorems, whose operator parameters the provers
cannot instantiate: they take the least number at which a claim fails (`LeastOf`, from
`WFMin`). A recursive function is first shown to exist (`ChainExists` and its like).
`InOrder`, `Burst`, `Peels` and `PeelChains` are written with sets and recursive functions
for their sake: `tlapm` does not expand `SelectSeq` and `@@`. What is opaque to the proofs
(which hops a peel groups, where its larger part goes) they leave as it is.

## 13. What the runs found

- `notice_refile` (the comments at `service.ts:27` and `service.ts:143-144`).
  `submitForApproval` and `approve` check a row they read and then update it by id
  alone. An approve that loaded PENDING_APPROVAL before the notice was approved and sent
  by others writes APPROVED over SENT and leaves the `submissionId`. `send` skips only
  when the status is SENT *and* there is an id, so the next send files the notice a
  second time.
- `guard_stuck` (the comment at `providerGuard.ts:88`). `allow()` sets `trial` for the
  half-open trial; only `success()` and `failure()` clear it. A trial that ends in a
  definitive error, or is turned away by the budget, calls neither: the provider is
  skipped from then on, until the process restarts.

The other properties hold as they are stated, and what they except is real. Where the
code, and often a comment beside it, would suggest more:

*Reading histories.*
- After a fail-over in the middle of a stage and a return to the first provider the
  stage starts again at page 1, whose next cursor was met before: `collectTransfers`
  stops with `truncated: false`, and later pages and stages are missing. The pages are
  cached for ever under those cursors, so later walks stop there too (`evm.ts:145`,
  `paginate.ts:59`).
- `assignIdx` ranks within a page: two transfers of one transaction between the same
  addresses that a page boundary separates get one key, and one is dropped. MegaNode
  numbers by log index and the explorers by rank, so a fail-over on BSC counts transfers
  twice although `paginate.ts:39` says that de-duplication absorbs the overlap.
- Explorers list 10,000 rows of a query; what lies beyond is missing with
  `truncated: false` (`evm.ts:183`). No caller looks at `truncated` anyway.

*Trace jobs.* A failed BullMQ job keeps its id, so a re-import enqueues nothing; a job
that stalls twice leaves its row RUNNING; errors before the `try` block leave the row
unmarked. A worker that dies between COMPLETED and the hooks announces the trace without
terminals and puts nothing on the watchlist (`engine.ts:117`, `engine.ts:304`). The
window starts at the creation of the job row, later than the theft (`engine.ts:141`). The
Hop table has one row for the transfers of one transaction between the same two
addresses (`schema.prisma:223`), where Neo4j keeps each.

*Audit.* The actor of an entry is hashed and its relation is `onDelete: SetNull`
(`schema.prisma:495`): deleting a user would break the chain.

*Sessions.* A refresh whose answer is lost is presented again and ends the session as a
replay. A token saved during a revocation survives it. A sign-out or login that
overtakes a refresh leaves the tokens of one session in the store of the next.

*Monitor.* Pushed EVM events spell addresses in lower case, the rows are in checksum
case: an EVM wallet never raises an alert from a push. Pushed events carry no dollar
value, so A1 never fires for them. `tronPoller.ts:32-35` says no transfer is alerted
twice, but one that happens while its pass runs is. A late-indexed transfer, or one
hidden by the page cached for ever (`adapters/tron.ts:136`), is lost. The mark is set
before the event is handled and expires after 600 s. A4 and A5 fire once per address: a
pass that fails between two cases leaves the second untold for good, and overlapping
push handlers may both fire. The subscription is a snapshot taken at the start, and
nothing is fetched after a reconnect. If one connection is refused while the worker
starts, all the others open and reconnect without ever being told what to track
(`index.ts:198`). Of a BTC transaction only the first output is
judged. In `tronPoller.ts` one wallet that throws ends the loop for those after it.

*Intake.* Overlapping imports found two cases for one wallet or start a trace twice. A
chain that is silent while another answers is dropped for good. Rows left QUEUED wait for
the next import of their complaints.

*Live views.* Live hops that an old filter let in stay on screen, although
`GraphExplorer.tsx:53` says that they obey the filter. Unpriced hops pass the filter of
the page at 0 and not that of the server. Nothing is fetched again after a reconnect or
on completion; hops of bridges and high-degree addresses are not published and appear
only after a read; a hop relayed before the join and read before the flush is missed by
both. An alert heard during the first read may be missing until the next. The number of
a hop in the API is a row counter though `model.ts:62` says fewest hops, and a trace that
returns to its seed has no root, so that its step-by-step view is blank.

*Mule analysis.* Flags that no longer fire are never removed though
`mule/persist.ts:14-18` says that they reflect the current state, and they are keyed by
address and rule across cases. Transfers that two traces of a case stored count twice.
Depths mix the chains of an address text. A circular peel chain runs into the limit of
200 and is reported; so does a real chain of more, though the comment at
`peelChain.ts:62` speaks of malformed or circular ones only. Overlapping analyses of one
case share the name of the projection: one may fail, or store groups of the other's
graph. Overlapping writes of a shared flag may put an older list over a newer one. A
projection takes every relation of its transactions, hops of other cases included. TRX
balances are never passed (`analyzeCase.ts:144`), so the dust rule cannot fire.

`PROJECT.json` ("hazards") lists what the properties are for, at the line where each
bites.

## 14. Assumptions, and what is only model-checked

The theorems rest on the assumptions named in the modules (`FreezeNoticeAssumption`,
`AuditAssumption`, `GuardAssumption`, `WalkAssumption`, `TraceJobAssumption`,
`SessionsAssumption`, `MonitorAssumption`, `IntakeAssumption`, `HistoryAssumption`,
`HopsAssumption`, `LiveViewsAssumption`, `MuleRulesAssumption`,
`MuleAnalysisAssumption`): the "nobody" values are not members of the sets, attempts,
batches, providers and the threshold are at least 1, bounds and the times of hops are
natural numbers, faults are among those named, and the valve of peel chains is not below
their minimum length. TLC evaluates them in every run of their modules. No theorem
assumes its sets to be finite, except that the history of an address is and its
transfers have distinct numbers (`WalkAssumption`, `HistoryAssumption`), that the hops
of a case shown to a browser are (`HopsAssumption`), that the hops traces may store are
a sequence, in the order of their times (`MuleAnalysisAssumption`), and that the rows of
one import are numbered 1 to 3. `HistoryAssumption` also fixes two providers, as
`evm.ts` and `btc.ts` have, and says of them that they list the same history, whose
native transfers have no log index.

*Proved and not checked by a run:* the type invariants of the modules with state and
proofs other than `TraceWalk`; `FiledOnlyAfterApproval`, `SentIsBacked`,
`ChainIsLinear`, `BreakerCoherent`, `SingleFlight`, `HighestFirst`, `WalkIsStored`,
`WithinLimits`, `GraphTrailsTable`, `StateToldOnce`, `CreatedOnce`.

*Checked by TLC and not proved:* liveness (`AttemptIsClosed`, `EveryRecordEnds`,
`EveryCallEnds`, `CircuitRecovers`, `TraceEnds`, `QueuedInTheEnd`), which is beyond the
prover, as it does not reason about fairness and ENABLED; and what the path search of
the graph page computes (`PathIsHeaviest`), a recursion over pairs of an address and a
set of visited ones whose turns are sorted sequences. Every other property of a passing
run is a theorem. `NoRefilingAfterSuccess` and `CooledOffersTrial` are false.

*Left out of the models:* a history that changes while it is read; several wallets of
one monitor and incoming events, which only trigger the state rules; other traces of the
case, several rooms, eviction by react-query, replay and lazy views of the graph, totals
of its nodes; of the graph procedures everything but components, and of the feature
vector everything but depths, nearest target and busiest hour; the Neo4j mirror is taken
to be written with the table except in `TraceJob`.

## 15. Not modelled, and the plan

Not modelled for good: field mapping and prices of the chain adapters, attribution, risk
and mule scores (floating point over fetched data), reports (a straight sequence; its
records are `AuditChain`'s), cases and VASPs and updates of single alerts (one row each,
refused by no state), read models over Neo4j and the dashboard, the other web pages, role
checks, encryption, demo data, offline training. These are most of the lines of the
repository: rendering, mapping and queries, without an order of steps to go wrong.

What would come next:

1. Proofs: that the walk of `HeaviestPath` leaves no cycle and that its table finds the
   heaviest path. The order in which edges are taken would have to be written without
   `SortSeq` first, which the prover does not expand.
2. `TraceWalk` inside `TraceJob`: a retry that walks again over stores that already hold
   a part, with a history that has grown.
3. TRON in `HistoryWalk` (one provider), and a history that grows between two walks.
